------------------------------- MODULE Assembly -------------------------------
(* The run directory of a harness, assembled anew for each launch             *)
(* (assembler.AssembleTo, AssembleDelegates, WriteComposedSessionHooks, as    *)
(* ynh run and the agent loop call them one after the other). The artifacts   *)
(* of the includes are copied source by source and the harness's own last;    *)
(* commands become skills where the vendor's tool reads none; instructions    *)
(* are composed; the delegates become agents; and the scripts of the hooks    *)
(* are carried along. A write may fail anywhere, and the next launch meets    *)
(* what the failed one left.                                                  *)
(*                                                                            *)
(* A file is its kind, its artifact and the part of it; what a file holds is  *)
(* whose it is.                                                               *)
EXTENDS DelegateGraph, FiniteSetsExt

CONSTANTS
    Files,       \* the files of artifacts, [ kind, name, part ]
    Main,        \* SKILL.md, and the only part of any other artifact
    Extra,       \* another file of a skill
    Evals,       \* what is in a skill for its author alone
    Scripts,     \* scripts that hooks run
    Texts,       \* instructions
    Namespaces,
    Top,         \* the label of the harness's own content
    Vendors,     \* [ skiller, folds ]: commands as skills, rules as instructions
    Contents,    \* what a launch may be given to assemble
    MaxAssemblies  \* bound: launches that assemble

Kinds == {"skills", "agents", "commands", "rules"}
Artifacts == { <<f.kind, f.name>> : f \in Files }

\* One source of content: where it is the harness's own, the last and only one
\* with the label Top. An empty pick list takes all there is.
Sources == [ label : Namespaces \union {Top}, files : SUBSET Files, picks : SUBSET Artifacts,
             text : Texts \union {None}, silent : BOOLEAN, hooks : SUBSET Scripts, active : BOOLEAN ]

ASSUME AssemblyAssumption ==
  /\ Files \subseteq [ kind : Kinds, name : Names, part : {Main, Extra, Evals} ] /\ Main # Evals
  /\ \A f \in Files : f.part = Main \/ f.kind = "skills"
  /\ \A d \in Dirs : [ kind |-> "agents", name |-> NameOf[d], part |-> Main ] \in Files
  /\ Contents \subseteq Seq(Sources) \ {<<>>}
  /\ \A c \in Contents : \A i \in DOMAIN c :
       /\ c[i].label = Top <=> i = Len(c)
       /\ \A f \in c[i].files : [f EXCEPT !.part = Main] \in c[i].files
  /\ Vendors \subseteq [ skiller : BOOLEAN, folds : BOOLEAN ]
  /\ MaxAssemblies \in Nat

VARIABLES
    content, vendor,   \* what this launch assembles, and for which tool
    dir,               \* the run directory: [ files, sections, rules, scripts ]
    warned,            \* the source each agent's warnings are about
    at,                \* the source being copied, or the agent being written
    todo,              \* the artifacts of that source not copied yet
    step, assemblies

assemblyVars == <<walkVars, content, vendor, dir, warned, at, todo, step, assemblies>>

Nobody == [ by |-> "nobody", of |-> 0 ]
From(i) == [ by |-> "source", of |-> i ]
EmptyDir == [ files |-> [f \in Files |-> Nobody], sections |-> <<>>, rules |-> {}, scripts |-> {} ]

Agent(name) == [ kind |-> "agents", name |-> name, part |-> Main ]
Skill(name) == [ kind |-> "skills", name |-> name, part |-> Main ]
Of(kind, name) == { f \in Files : f.kind = kind /\ f.name = name }
Staged(files, kind) == { f \in Files : f.kind = kind /\ files[f] # Nobody }

-----------------------------------------------------------------------------
(* AssembleTo *)

\* What a source is asked for: its picks, or every artifact it has.
Asked(src) == IF src.picks # {} THEN src.picks ELSE { <<f.kind, f.name>> : f \in src.files }

\* Mutant of Clean: what was there is written over.
CleanNothing(old) == old

Clean(old) == EmptyDir

AssembleTo ==
  /\ step = "ready"
  /\ dir' = Clean(dir) /\ warned' = [n \in Names |-> 0]
  /\ at' = 1 /\ todo' = Asked(content[1]) /\ step' = "copy"
  /\ UNCHANGED <<walkVars, content, vendor, assemblies>>

\* The files of one artifact, over those of an earlier source. The artifacts of
\* a source come in any order. An agent's warnings replace an earlier copy's.
CopyArtifact ==
  /\ step = "copy"
  /\ \E a \in todo : LET found == Of(a[1], a[2]) \intersect content[at].files IN
       /\ found # {}
       /\ dir' = [dir EXCEPT !.files = [f \in Files |-> IF f \in found /\ f.part # Evals THEN From(at) ELSE @[f]]]
       /\ warned' = IF a[1] = "agents" THEN [warned EXCEPT ![a[2]] = at] ELSE warned
       /\ todo' = todo \ {a}
  /\ UNCHANGED <<walkVars, content, vendor, at, step, assemblies>>

\* A pick that is not there refuses the assembly.
PickNotFound ==
  /\ step = "copy"
  /\ \E a \in todo : Of(a[1], a[2]) \intersect content[at].files = {}
  /\ step' = "failed"
  /\ UNCHANGED <<walkVars, content, vendor, dir, warned, at, todo, assemblies>>

NextSource ==
  /\ step = "copy" /\ todo = {}
  /\ IF at < Len(content) THEN at' = at + 1 /\ todo' = Asked(content[at + 1]) /\ step' = step
     ELSE step' = "commands" /\ UNCHANGED <<at, todo>>
  /\ UNCHANGED <<walkVars, content, vendor, dir, warned, assemblies>>

Taken(files, name) == \E f \in Of("skills", name) : files[f] # Nobody

\* A command whose name a skill has is left out.
CommandsAsSkills ==
  /\ step = "commands" /\ step' = "instructions"
  /\ dir' = IF ~vendor.skiller THEN dir ELSE
       [dir EXCEPT !.files = [f \in Files |->
          LET command == [f EXCEPT !.kind = "commands"] IN
          IF f.kind = "commands" THEN Nobody
          ELSE IF f = Skill(f.name) /\ command \in Staged(@, "commands") /\ ~Taken(@, f.name)
          THEN [ by |-> "command", of |-> @[command].of ]
          ELSE @[f]]]
  /\ UNCHANGED <<walkVars, content, vendor, warned, at, todo, assemblies>>

\* The harness's own content is the last of its sources, and is read first.
OwnFirst(sources) == <<Last(sources)>> \o Front(sources)

Spoken(sources) == { i \in DOMAIN sources : ~sources[i].silent /\ sources[i].text # None }

\* Each text once, where it is said first.
FirstSaid(sources) == { i \in Spoken(sources) : \A j \in Spoken(sources) : sources[j].text = sources[i].text => i <= j }
Nth(places, k) == CHOOSE i \in places : Cardinality({ j \in places : j <= i }) = k

Sections(sources) ==
  LET first == FirstSaid(sources)
  IN [k \in 1..Cardinality(first) |-> [ label |-> sources[Nth(first, k)].label, text |-> sources[Nth(first, k)].text ]]

\* A tool without rules of its own reads those that were staged as instructions.
FoldedRules(files) == IF vendor.folds THEN { f.name : f \in Staged(files, "rules") } ELSE {}

ComposeInstructions ==
  /\ step = "instructions"
  /\ dir' = [dir EXCEPT !.sections = Sections(OwnFirst(content)), !.rules = FoldedRules(dir.files)]
  /\ step' = "delegates"
  /\ StartWalk
  /\ UNCHANGED <<content, vendor, warned, at, todo, assemblies>>

-----------------------------------------------------------------------------
(* AssembleDelegates *)

FlattenDelegates ==
  /\ step = "delegates"
  /\ WalkNext
  /\ UNCHANGED <<content, vendor, dir, warned, todo, assemblies>>
  /\ CASE walk' = "flat" -> step' = "agents" /\ at' = 1
       [] walk' = "refused" -> step' = "failed" /\ UNCHANGED at
       [] OTHER -> UNCHANGED <<step, at>>

\* An agent of the harness that has the delegate's name is written over.
WriteDelegate ==
  /\ step = "agents"
  /\ IF at <= Len(out)
     THEN /\ dir' = [dir EXCEPT !.files[Agent(NameOf[out[at].dir])] = [ by |-> "delegate", of |-> out[at].dir ]]
          /\ at' = at + 1 /\ step' = step
     ELSE step' = "hooks" /\ UNCHANGED <<dir, at>>
  /\ UNCHANGED <<walkVars, content, vendor, warned, todo, assemblies>>

-----------------------------------------------------------------------------
(* WriteComposedSessionHooks *)

\* The sources whose hooks run: the harness, and the includes it lets.
Hooking(sources) == { i \in DOMAIN sources : sources[i].hooks # {} /\ (sources[i].label = Top \/ sources[i].active) }

Shared(sources, i) == \E j \in Hooking(sources) \ {i} : sources[j].label = sources[i].label

\* Mutant of Folder: a folder for each namespace.
NamespaceFolder(sources, i) == <<sources[i].label, 0>>

\* Where the scripts of a source go: a folder for its namespace, and one of its
\* own where another include has the same.
Folder(sources, i) == <<sources[i].label, IF Shared(sources, i) THEN i ELSE 0>>

\* A script is copied once to a place, from the last source that has it there.
HookScripts(sources) ==
  LET wanted == UNION { { <<Folder(sources, i), s, i>> : s \in sources[i].hooks } : i \in Hooking(sources) }
  IN { w \in wanted : \A o \in wanted : o[1] = w[1] /\ o[2] = w[2] => w[3] >= o[3] }

WriteSessionHooks ==
  /\ step = "hooks" /\ step' = "done"
  /\ dir' = [dir EXCEPT !.scripts = HookScripts(content)]
  /\ UNCHANGED <<walkVars, content, vendor, warned, at, todo, assemblies>>

-----------------------------------------------------------------------------
CannotWrite ==
  /\ step \notin {"ready", "done", "failed"}
  /\ step' = "failed"
  /\ UNCHANGED <<walkVars, content, vendor, dir, warned, at, todo, assemblies>>

\* The next launch, of what the harness has become.
LaunchAgain ==
  /\ step \in {"done", "failed"}
  /\ assemblies < MaxAssemblies /\ assemblies' = assemblies + 1
  /\ content' \in Contents /\ vendor' \in Vendors /\ graph' \in Graphs
  /\ queue' = <<>> /\ out' = <<>> /\ walk' = "idle"
  /\ step' = "ready" /\ at' = 0 /\ todo' = {}
  /\ UNCHANGED <<dir, warned>>

AssemblyInit ==
  /\ content \in Contents /\ vendor \in Vendors /\ graph \in Graphs
  /\ queue = <<>> /\ out = <<>> /\ walk = "idle"
  /\ dir = EmptyDir /\ warned = [n \in Names |-> 0]
  /\ at = 0 /\ todo = {} /\ step = "ready" /\ assemblies = 1

AssemblyNext ==
  \/ AssembleTo \/ CopyArtifact \/ PickNotFound \/ NextSource
  \/ CommandsAsSkills \/ ComposeInstructions
  \/ FlattenDelegates \/ WriteDelegate \/ WriteSessionHooks
  \/ CannotWrite \/ LaunchAgain

AssemblySpec == AssemblyInit /\ [][AssemblyNext]_assemblyVars
-----------------------------------------------------------------------------
(* Properties *)

\* The sources that give a file, of which the last has it.
Givers(f) == { i \in DOMAIN content : f \in content[i].files /\ f.part # Evals /\ <<f.kind, f.name>> \in Asked(content[i]) }
Given(f) == IF Givers(f) = {} THEN Nobody ELSE From(Max(Givers(f)))

Holds(f) ==
  LET delegates == { i \in DOMAIN out : Agent(NameOf[out[i].dir]) = f }
      command == [f EXCEPT !.kind = "commands"]
  IN CASE delegates # {} -> { [ by |-> "delegate", of |-> out[i].dir ] : i \in delegates }
       [] vendor.skiller /\ f.kind = "commands" -> {Nobody}
       [] vendor.skiller /\ f = Skill(f.name) /\ command \in Files /\ Givers(command) # {}
            /\ \A g \in Of("skills", f.name) : Givers(g) = {} -> { [ by |-> "command", of |-> Max(Givers(command)) ] }
       [] OTHER -> {Given(f)}

\* A directory that a launch has assembled is the harness as it is now and
\* nothing else, whatever an earlier launch left there and in whichever order
\* the artifacts were copied: each file is the last source's that gives it, a
\* command is a skill where no source has a skill of its name, every text that
\* is not silenced is there once with the harness's own first, an agent's
\* warnings are those of the copy that was staged, and every hook runs the script
\* of the harness that declares it, though several have one of its name and
\* includes share a namespace.
DirIsTheHarness ==
  step = "done" =>
    /\ \A f \in Files : dir.files[f] \in Holds(f)
    /\ dir.rules = { f.name : f \in { g \in Files : g.kind = "rules" /\ vendor.folds /\ Given(g) # Nobody } }
    /\ \A n \in Names : Agent(n) \in Files => warned[n] = Given(Agent(n)).of
    /\ LET spoken == { i \in DOMAIN content : ~content[i].silent /\ content[i].text # None }
       IN /\ { dir.sections[k].text : k \in DOMAIN dir.sections } = { content[i].text : i \in spoken }
          /\ Len(dir.sections) = Cardinality({ content[i].text : i \in spoken })
          /\ Len(content) \in spoken => dir.sections[1] = [ label |-> Top, text |-> content[Len(content)].text ]
    /\ \A i \in Hooking(content) : \A s \in content[i].hooks :
         { w \in dir.scripts : w[1] = Folder(content, i) /\ w[2] = s } = { <<Folder(content, i), s, i>> }
=============================================================================
