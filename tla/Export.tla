-------------------------------- MODULE Export --------------------------------
(* ynd export: a harness written as plugins for the tools it is for            *)
(* (exporter.Export), in a directory the user names. A package for each tool,  *)
(* or one that all of them share, or one Agent Plugins package. The harness is *)
(* resolved before anything is written, --clean comes next, and each mode then *)
(* writes its files in an order of its own; the manifests name files that must *)
(* be there by then. A write may fail anywhere, and the next export meets what *)
(* is left.                                                                    *)
(*                                                                             *)
(* Whether a launch is assembled (Assembly) or the harness is exported, the    *)
(* sources are the same. What a generated file says is left out, but for what  *)
(* it names.                                                                   *)
EXTENDS Assembly

CONSTANTS
    Claude, Codex, Copilot, Cursor, OpenCode,
    Exports,     \* what an export may be asked for
    MaxExports   \* bound: exports

Tools == {Claude, Codex, Copilot, Cursor, OpenCode}

\* Hooks and their scripts are in the sources; starts: one is for the start of
\* a session. Servers may all be such that the portable format has no form for
\* them.
Requests == [ mode : {"each", "merged", "agentPlugin"}, tools : Seq(Tools), content : Contents, graph : Graphs,
              starts : BOOLEAN, servers : {"none", "portable", "other"}, clean : BOOLEAN ]

ASSUME ExportAssumption ==
  /\ Cardinality(Tools) = 5 /\ None \notin Tools
  /\ Exports \subseteq Requests /\ None \notin Exports /\ \A e \in Exports : e.tools # <<>>
  /\ MaxExports \in Nat

VARIABLES
    request,     \* None while a launch is assembled
    packages,    \* the files of the output directory itself, under None, and of each tool's in it
    repo,        \* the output directory is somebody's git working copy
    stage,       \* how far the export has come
    status,      \* "exporting", "done", "refused", "failed", or "mispicked"
    before,      \* what the export found
    exports

exportVars == <<request, packages, repo, stage, status, before, exports>>
launchVars == <<content, vendor, dir, warned, at, todo, step, assemblies>>

-----------------------------------------------------------------------------
(* What the adapters say of themselves *)

\* The kinds its plugins carry, whether they take delegates and instructions; of
\* an Agent Plugins package, whether it loads the format, what else it reads
\* there, and under which directory.
Layout(kinds, delegates, instructions, loads, reads, under) ==
  [ kinds |-> kinds, delegates |-> delegates, instructions |-> instructions, loads |-> loads, reads |-> reads, under |-> under ]

ClaudeLayout == Layout(Kinds, TRUE, FALSE, FALSE, {"artifacts", "hooks", "servers"}, None)
CodexLayout == Layout({"skills"}, FALSE, FALSE, TRUE, {"hooks"}, Codex)
CopilotLayout == Layout(Kinds \ {"rules"}, TRUE, FALSE, TRUE, {"artifacts", "hooks"}, Copilot)
CursorLayout == Layout(Kinds, TRUE, FALSE, TRUE, {}, None)
OpenCodeLayout == Layout(Kinds, FALSE, TRUE, FALSE, {}, None)

Adapter(t) ==
  CASE t = Claude -> ClaudeLayout [] t = Codex -> CodexLayout [] t = Copilot -> CopilotLayout
    [] t = Cursor -> CursorLayout [] t = OpenCode -> OpenCodeLayout

TakesDelegates == { t \in Tools : Adapter(t).delegates }
Reads(what) == { t \in Tools : what \in Adapter(t).reads }

\* The files of a package.
Path(under, kind, name) == [ under |-> under, kind |-> kind, name |-> name, part |-> Main ]
Artifact(under, f) == [ under |-> under, kind |-> f.kind, name |-> f.name, part |-> f.part ]
HookFile(under, t) == Path(under, "hooks", t)
Wrapper == Path(None, "wrapper", None)
MCPFile(t) == Path(None, "mcp", t)
PortableMCP == MCPFile(Cursor)
ServerScript == Path(None, "serverScript", None)
Prompt == Path(None, "instructions", None)
PackageManifest == Path(None, "package", None)

\* Claude and Copilot read one manifest; OpenCode has none.
ManifestFile(t) == Path(None, "manifest", IF t = Copilot THEN Claude ELSE t)

NoFile == <<>>
Made(what) == [ by |-> "ynd", of |-> what ]
Only(path, what) == [p \in {path} |-> what]
Over(new, old) == [p \in DOMAIN new \union DOMAIN old |-> IF p \in DOMAIN new THEN new[p] ELSE old[p]]

\* The wrapper hands what a hook prints at the start of a session to the model.
Wrapped == IF request.starts THEN Only(Wrapper, Made("wrapper")) ELSE NoFile

\* Claude's can be written so that Copilot reads it as well.
ClaudeHooks(both) == IF both THEN Over(Only(HookFile(None, Claude), Made("both")), Wrapped) ELSE Only(HookFile(None, Claude), Made("own"))
CodexHooks == Only(HookFile(None, Codex), Made("own"))
CopilotHooks == Over(Only(HookFile(None, Copilot), Made("own")), Wrapped)
CursorHooks == Over(Only(HookFile(None, Cursor), Made("own")), Wrapped)
OpenCodeHooks == Only(HookFile(None, OpenCode), Made("own"))

HookConfig(t, both) ==
  CASE t = Claude -> ClaudeHooks(both) [] t = Codex -> CodexHooks [] t = Copilot -> CopilotHooks
    [] t = Cursor -> CursorHooks [] t = OpenCode -> OpenCodeHooks

\* What the manifest of a tool names of what is there. Cursor finds its servers
\* without.
ClaudePointers == {HookFile(None, Claude), MCPFile(Claude)}
CodexPointers == {HookFile(None, Codex), MCPFile(Codex)}
CursorPointers == {HookFile(None, Cursor)}

Pointers(t, files) ==
  DOMAIN files \intersect
    CASE t \in {Claude, Copilot} -> ClaudePointers [] t = Codex -> CodexPointers [] t = Cursor -> CursorPointers

-----------------------------------------------------------------------------
(* The order of an export *)

\* These steps for one tool after the other, or once.
For(tools, dos) ==
  [k \in 1..(Len(tools) * Len(dos)) |-> [ do |-> dos[((k - 1) % Len(dos)) + 1], tool |-> tools[((k - 1) \div Len(dos)) + 1] ]]
Once(dos) == [k \in DOMAIN dos |-> [ do |-> dos[k], tool |-> None ]]

\* Mutant of Writing: the manifests come first.
ManifestsFirst(e) ==
  CASE e.mode = "each" -> For(e.tools, <<"empty", "copy", "manifest", "instructions", "delegates", "hooks", "scripts", "servers">>)
    [] e.mode = "merged" -> Once(<<"empty", "copy">>) \o For(e.tools, <<"manifest">>) \o For(e.tools, <<"hooks", "servers">>)
         \o Once(<<"scripts", "instructions", "delegates">>)
    [] OTHER -> Once(<<"empty", "copy", "instructions">>) \o For(e.tools, <<"artifacts", "delegates", "manifest", "hooks", "servers">>)
         \o Once(<<"scripts", "portable", "package">>)

Writing(e) ==
  CASE e.mode = "each" -> For(e.tools, <<"empty", "copy", "instructions", "delegates", "hooks", "scripts", "servers", "manifest">>)
    [] e.mode = "merged" -> Once(<<"empty", "copy">>) \o For(e.tools, <<"hooks", "servers">>) \o Once(<<"scripts">>)
         \o For(e.tools, <<"manifest">>) \o Once(<<"instructions", "delegates">>)
    [] OTHER -> Once(<<"empty", "copy", "instructions">>) \o For(e.tools, <<"artifacts", "delegates", "hooks", "servers", "manifest">>)
         \o Once(<<"scripts", "portable", "package">>)

\* Mutant of Plan: --clean before the harness is resolved.
CleanFirst(e) == Once(<<"clean", "resolve">>) \o Writing(e)

Plan(e) == Once(<<"resolve", "clean">>) \o Writing(e)

Now == Plan(request)[stage]
Tool == Now.tool
Doing(do) == status = "exporting" /\ Now.do = do

Onward ==
  /\ stage' = stage + 1
  /\ status' = IF stage = Len(Plan(request)) THEN "done" ELSE status

Where == IF request.mode = "each" THEN Tool ELSE None
Here == packages[Where]

\* One step of the export that writes these files over what is there.
Put(files) ==
  /\ packages' = [packages EXCEPT ![Where] = Over(files, @)]
  /\ Onward
  /\ UNCHANGED <<launchVars, walkVars, request, repo, before, exports>>

-----------------------------------------------------------------------------
(* Before anything is written *)

\* Delegates are resolved if a tool takes them, and a delegate that cannot be
\* refuses the export, as does an include.
ResolveDelegates ==
  /\ Doing("resolve") /\ \E i \in DOMAIN request.tools : request.tools[i] \in TakesDelegates
  /\ WalkNext
  /\ CASE walk' = "flat" -> Onward
       [] walk' = "refused" -> status' = "refused" /\ UNCHANGED stage
       [] OTHER -> UNCHANGED <<stage, status>>
  /\ UNCHANGED <<launchVars, request, packages, repo, before, exports>>

ResolveWithout ==
  /\ Doing("resolve") /\ \A i \in DOMAIN request.tools : request.tools[i] \notin TakesDelegates
  /\ Onward
  /\ UNCHANGED <<launchVars, walkVars, request, packages, repo, before, exports>>

RefuseSource ==
  /\ Doing("resolve")
  /\ status' = "refused"
  /\ UNCHANGED <<launchVars, walkVars, request, packages, repo, stage, before, exports>>

NoPackages == [w \in Tools \union {None} |-> NoFile]

\* --clean asks before it removes, and never removes a git working copy.
CleanOutput ==
  /\ Doing("clean")
  /\ IF request.clean /\ repo THEN FALSE ELSE TRUE
  /\ packages' = IF request.clean THEN NoPackages ELSE packages
  /\ Onward
  /\ UNCHANGED <<launchVars, walkVars, request, repo, before, exports>>

RefuseToClean ==
  /\ Doing("clean") /\ request.clean
  /\ IF repo THEN TRUE ELSE packages # NoPackages
  /\ status' = "refused"
  /\ UNCHANGED <<launchVars, walkVars, request, packages, repo, stage, before, exports>>

-----------------------------------------------------------------------------
(* The writes *)

\* Mutant of Emptied: what an earlier export left is written over.
EmptiedNot(all, where) == all

\* The directory of one tool, or all of the output.
Emptied(all, where) == IF where = None THEN NoPackages ELSE [all EXCEPT ![where] = NoFile]

Empty ==
  /\ Doing("empty")
  /\ packages' = Emptied(packages, Where)
  /\ repo' = IF Where = None THEN FALSE ELSE repo
  /\ Onward
  /\ UNCHANGED <<launchVars, walkVars, request, before, exports>>

\* What a pass over some kinds takes of the sources: one whose picks are all of
\* other kinds brings nothing, where no picks would be all it has.
Restricted(kinds) ==
  [i \in DOMAIN content |->
     LET picks == { a \in content[i].picks : a[1] \in kinds }
     IN [content[i] EXCEPT !.picks = picks, !.files = IF picks = {} /\ content[i].picks # {} THEN {} ELSE @]]

Brings(src, kinds) == { f \in src.files : f.part # Evals /\ f.kind \in kinds /\ <<f.kind, f.name>> \in Asked(src) }

\* Source after source, later ones over earlier ones.
Copied(under, sources, kinds) ==
  LET givers(f) == { i \in DOMAIN sources : f \in Brings(sources[i], kinds) }
      given == { f \in Files : givers(f) # {} }
  IN [p \in { Artifact(under, f) : f \in given } |-> From(Max(givers([ kind |-> p.kind, name |-> p.name, part |-> p.part ])))]

Missing(src) == \E a \in src.picks : Of(a[1], a[2]) \intersect src.files = {}
OtherKind(src, kinds) == \E a \in src.picks : a[1] \notin kinds

CopyKinds == CASE request.mode = "each" -> Adapter(Tool).kinds [] request.mode = "merged" -> Kinds [] OTHER -> {"skills"}

\* Only the passes of an Agent Plugins package leave out the picks they have no
\* directory for.
CopySources == IF request.mode = "agentPlugin" THEN Restricted(CopyKinds) ELSE content

CopyContent ==
  /\ Doing("copy")
  /\ \A i \in DOMAIN content : ~Missing(CopySources[i]) /\ ~OtherKind(CopySources[i], CopyKinds)
  /\ Put(Copied(None, CopySources, CopyKinds))

\* A pick that is not there, or of a kind the tool's plugins do not carry.
CopyRefuses ==
  /\ Doing("copy")
  /\ \E i \in DOMAIN content : Missing(CopySources[i]) \/ OtherKind(CopySources[i], CopyKinds)
  /\ status' = IF \E i \in DOMAIN content : Missing(CopySources[i]) THEN "failed" ELSE "mispicked"
  /\ UNCHANGED <<launchVars, walkVars, request, packages, repo, stage, before, exports>>

\* The artifacts an Agent Plugins package has for one tool beside the skills.
CopyArtifacts ==
  /\ Doing("artifacts")
  /\ LET kinds == Adapter(Tool).kinds \ {"skills"} IN
     Put(IF Tool \in Reads("artifacts") THEN Copied(Adapter(Tool).under, Restricted(kinds), kinds) ELSE NoFile)

Instructs == \E i \in DOMAIN content : ~content[i].silent /\ content[i].text # None
Carried == request.mode = "agentPlugin" \/ \E t \in IF request.mode = "each" THEN {Tool} ELSE ToSet(request.tools) : Adapter(t).instructions

WriteInstructions ==
  /\ Doing("instructions")
  /\ Put(IF Instructs /\ Carried THEN Only(Prompt, Made("instructions")) ELSE NoFile)

DelegateFiles(under) ==
  [p \in { Artifact(under, Agent(NameOf[out[k].dir])) : k \in DOMAIN out } |->
     LET last == Max({ k \in DOMAIN out : NameOf[out[k].dir] = p.name }) IN [ by |-> "delegate", of |-> out[last].dir ]]

\* Over an agent of the harness that has the delegate's name.
WriteDelegates ==
  /\ Doing("delegates")
  /\ Put(CASE request.mode = "merged" -> DelegateFiles(None)
           [] request.mode = "each" -> IF Tool \in TakesDelegates THEN DelegateFiles(None) ELSE NoFile
           [] OTHER -> IF Tool \in TakesDelegates \intersect Reads("artifacts") THEN DelegateFiles(Adapter(Tool).under) ELSE NoFile)

Hooked == Hooking(content) # {}
Merging(t) == request.mode = "merged" /\ t \in ToSet(request.tools)

\* In a package they share Copilot reads Claude's file, which is written for
\* both. An Agent Plugins package has one file for each tool that takes hooks:
\* of several that its adapter makes, any one.
WriteHooks ==
  /\ Doing("hooks")
  /\ IF ~Hooked THEN Put(NoFile)
     ELSE IF request.mode = "agentPlugin"
     THEN IF Tool \notin Reads("hooks") THEN Put(NoFile)
          ELSE \E f \in DOMAIN HookConfig(Tool, FALSE) :
                 Put(Only(HookFile(Adapter(Tool).under, Tool), HookConfig(Tool, FALSE)[f]))
     ELSE IF Tool = Copilot /\ Merging(Claude) THEN Put(NoFile)
     ELSE Put(HookConfig(Tool, Tool = Claude /\ Merging(Copilot)))

\* The scripts the hooks run, if a file that names them was written.
WriteScripts ==
  /\ Doing("scripts")
  /\ Put(IF \A f \in DOMAIN Here : f.kind # "hooks" THEN NoFile
         ELSE [f \in { Path(None, "script", <<w[1], w[2]>>) : w \in HookScripts(content) } |->
                 From(CHOOSE i \in DOMAIN content : <<f.name[1], f.name[2], i>> \in HookScripts(content))])

WriteServers ==
  /\ Doing("servers")
  /\ Put(IF request.servers = "none" \/ (request.mode = "agentPlugin" /\ Tool \notin Reads("servers")) THEN NoFile
         ELSE Over(Only(MCPFile(Tool), Made("servers")), IF request.mode = "agentPlugin" THEN NoFile ELSE Only(ServerScript, Made("script"))))

\* In an Agent Plugins package, for a tool that does not load the format, with
\* the instructions if it carries them.
WriteManifest ==
  /\ Doing("manifest")
  /\ Put(CASE Tool = OpenCode \/ (request.mode = "agentPlugin" /\ Adapter(Tool).loads) -> NoFile
           [] OTHER -> Only(ManifestFile(Tool), Made(Pointers(Tool, Here))))

\* The servers the format can express, and the scripts of all of them.
WritePortable ==
  /\ Doing("portable")
  /\ Put(Over(IF request.servers = "portable" THEN Only(PortableMCP, Made("servers")) ELSE NoFile,
           IF request.servers # "none" THEN Only(ServerScript, Made("script")) ELSE NoFile))

\* Its extensions name the hooks of the tool that wants them named.
WritePackage ==
  /\ Doing("package")
  /\ Put(Only(PackageManifest, Made({ HookFile(Codex, Codex) } \intersect DOMAIN Here)))

ExportFails ==
  /\ status = "exporting" /\ stage > 2
  /\ status' = "failed"
  /\ UNCHANGED <<launchVars, walkVars, request, packages, repo, stage, before, exports>>

-----------------------------------------------------------------------------
StartExport ==
  /\ request # None /\ status # "exporting"
  /\ exports < MaxExports /\ exports' = exports + 1
  /\ request' \in Exports /\ content' = request'.content /\ graph' = request'.graph
  /\ queue' = Declares(request'.graph, Root, 0) /\ out' = <<>> /\ walk' = "walking"
  /\ stage' = 1 /\ status' = "exporting" /\ before' = packages
  /\ UNCHANGED <<vendor, dir, warned, at, todo, step, assemblies, packages, repo>>

Own == Path(None, "own", None)

\* A launch, or an export into a directory that may hold what somebody keeps there.
ExportInit ==
  \/ /\ AssemblyInit
     /\ request = None /\ packages = NoPackages /\ repo = FALSE
     /\ stage = 0 /\ status = "done" /\ before = NoPackages /\ exports = 0
  \/ /\ request \in Exports /\ content = request.content /\ graph = request.graph
     /\ queue = Declares(graph, Root, 0) /\ out = <<>> /\ walk = "walking"
     /\ vendor = CHOOSE v \in Vendors : TRUE
     /\ dir = EmptyDir /\ warned = [n \in Names |-> 0] /\ at = 0 /\ todo = {} /\ step = "idle" /\ assemblies = 0
     /\ packages \in {NoPackages, [NoPackages EXCEPT ![None] = Only(Own, Nobody)]} /\ repo \in BOOLEAN
     /\ packages = NoPackages => ~repo
     /\ stage = 1 /\ status = "exporting" /\ before = packages /\ exports = 1

ExportNext ==
  \/ request = None /\ AssemblyNext /\ UNCHANGED exportVars
  \/ ResolveDelegates \/ ResolveWithout \/ RefuseSource \/ CleanOutput \/ RefuseToClean
  \/ Empty \/ CopyContent \/ CopyRefuses \/ CopyArtifacts \/ WriteInstructions \/ WriteDelegates
  \/ WriteHooks \/ WriteScripts \/ WriteServers \/ WriteManifest \/ WritePortable \/ WritePackage
  \/ ExportFails \/ StartExport

ExportSpec == ExportInit /\ [][ExportNext]_<<assemblyVars, exportVars>>
-----------------------------------------------------------------------------
(* Properties *)

Exported == request # None /\ status = "done"
Wants == ToSet(request.tools)
Packed == IF request.mode = "each" THEN Wants ELSE {None}

\* The kinds of artifacts that belong under a directory of a package.
Belong(where, under) ==
  CASE request.mode = "each" -> IF under = None THEN Adapter(where).kinds ELSE {}
    [] request.mode = "merged" -> IF under = None THEN Kinds ELSE {}
    [] OTHER -> IF under = None THEN {"skills"} \union (IF Claude \in Wants THEN Kinds ELSE {})
                ELSE IF under = Copilot /\ Copilot \in Wants THEN {"agents", "commands"} ELSE {}

Delegating(where, under) ==
  CASE request.mode = "each" -> under = None /\ where \in TakesDelegates
    [] request.mode = "merged" -> under = None
    [] OTHER -> \E t \in Reads("artifacts") \intersect Wants : under = Adapter(t).under

\* Every package of a finished export is the harness, whatever was in its
\* directory before: it has the last source's copy of each artifact of the kinds
\* the tool carries, the picks of an include that are of other kinds bring
\* nothing, the delegates are agents over those of their names, and of an
\* earlier export, of other content, in another mode or for other tools, nothing
\* is left.
PackageIsTheHarness ==
  Exported => \A where \in Packed :
    LET files == packages[where] IN
    /\ \A under \in {None} \union Tools, f \in Files :
         LET p == Artifact(under, f)
             delegates == IF Delegating(where, under) THEN { k \in DOMAIN out : Agent(NameOf[out[k].dir]) = f } ELSE {}
         IN IF delegates # {} THEN p \in DOMAIN files /\ files[p] \in { [ by |-> "delegate", of |-> out[k].dir ] : k \in delegates }
            ELSE IF f.kind \in Belong(where, under) /\ Given(f) # Nobody THEN p \in DOMAIN files /\ files[p] = Given(f)
            ELSE p \notin DOMAIN files
    /\ \A p \in DOMAIN files :
         /\ p.kind # "own" /\ p.kind \in {"hooks", "script", "wrapper"} => Hooked
         /\ p.kind \in {"hooks", "manifest"} => { t \in Wants : p.name \in {t, IF t = Copilot THEN Claude ELSE t} } # {}
         /\ p.kind \in {"mcp", "serverScript"} => request.servers # "none"

\* Where a tool looks for the hooks of the package.
ReadsHooks(t) ==
  CASE request.mode = "agentPlugin" -> HookFile(Adapter(t).under, t)
    [] t = Copilot /\ Merging(Claude) -> HookFile(None, Claude)
    [] OTHER -> HookFile(None, t)

\* In every package of a finished export the manifests name the hook and server
\* files of their tool that are there, none that is not and none of another
\* tool; each tool finds its hooks where it looks for them, in a form it reads,
\* though two tools share a manifest; and the scripts the hooks run are there.
PointersHold ==
  Exported => \A where \in Packed :
    LET files == packages[where]
        tools == IF where = None THEN Wants ELSE {where}
    IN /\ \A t \in tools : ManifestFile(t) \in DOMAIN files => files[ManifestFile(t)].of = Pointers(t, files)
       /\ PackageManifest \in DOMAIN files => files[PackageManifest].of = { p \in DOMAIN files : p = HookFile(Codex, Codex) }
       /\ Hooked => \A t \in IF request.mode = "agentPlugin" THEN tools \intersect Reads("hooks") ELSE tools :
            /\ ReadsHooks(t) \in DOMAIN files
            /\ t = Copilot /\ Merging(Claude) => files[ReadsHooks(t)] = Made("both")
            /\ \A i \in Hooking(content) : \A s \in content[i].hooks :
                 LET p == Path(None, "script", <<Folder(content, i), s>>) IN p \in DOMAIN files /\ files[p] = From(i)
            /\ request.mode # "agentPlugin" /\ request.starts /\ t \in {Copilot, Cursor} => Wrapper \in DOMAIN files

\* A finished export is the harness, and says of itself what it is.
ExportHolds == PackageIsTheHarness /\ PointersHold

\* An export that is refused, by a delegate, a source, the user or because the
\* directory is a git working copy, has changed nothing there, --clean included.
RefusedLeavesOutput ==
  request # None /\ status = "refused" => packages = before

\* What docs/ynd.md says of Codex and Copilot: what their plugins do not carry
\* is left out, with a warning.
OtherKindsLeftOut == status # "mispicked"

\* What docs/ynd.md says of --clean: it is what removes the output directory.
OnlyCleanRemoves ==
  [][ \A p \in DOMAIN packages[None] : p.kind = "own" /\ p \notin DOMAIN packages'[None] => request.clean ]_exportVars

\* What agentplugin.go says of singleFile: each adapter makes one hook file.
HookFilesAreHooks ==
  \A where \in Tools \union {None} : \A p \in DOMAIN packages[where] : p.kind = "hooks" => packages[where][p] # Made("wrapper")
=============================================================================
