------------------------------ MODULE Manifest ------------------------------
(* A harness's manifest, .agents/harness/plugin.json, and the commands that    *)
(* edit it: ynh include, delegate, focus, profile, hook and mcp                *)
(* (cmd/ynh/include.go, delegate.go, ..., internal/harness/editor.go,          *)
(* internal/plugin). Each loads the manifest, changes its copy and writes the  *)
(* file whole, without a lock and without a rename: another command may write  *)
(* between the two, and a command that is killed as it writes, or writes while *)
(* another does, may leave a file no command can read. An update of an include *)
(* reads twice: once to learn which entry it is and what to check its picks    *)
(* against, and once to change it.                                             *)
EXTENDS Naturals, FiniteSets, SequencesExt

CONSTANTS
    Procs,       \* commands that may be under way
    Sources,     \* where includes and delegates come from
    Paths,       \* folders of a source
    NoPath,        \* the folder a source is when no path is given
    Within,      \* [Paths -> Paths], the folder of the same name inside a folder
    Picks,       \* artifacts
    Has,         \* [Sources \X Paths -> SUBSET Picks], the artifacts in a folder
    Selections,  \* the profiles and focuses delegates declare
    Holds,       \* the folders that hold a harness, as pairs <<source, path>>
    Declares,    \* [Sources \X Paths -> SUBSET Selections], those of the harness there
    Profiles, Focuses, Servers, Events, Commands, Values,
    Top,         \* the harness itself, beside its profiles
    None,
    Torn,        \* a file that does not parse
    Absent,      \* no server of the name
    Null,        \* a server the manifest or the profile wants nobody to bring
    Written,     \* the manifests users write, and start from
    Edits,       \* bound: the kinds of edit made
    MaxEdits,    \* bound: edits begun
    MaxFaults    \* bound: writes that tear the file

Scopes == Profiles \union {Top}

\* A server: the program or the address it is, one of the two where it is valid.
Definitions == [ command : Values \union {None}, url : Values \union {None} ]
Valid(def) == (def.command = None) # (def.url = None)
Nothing == [ s \in Servers |-> Absent ]

Includes == [ src : Sources, path : Paths, pick : SUBSET Picks, hooks : BOOLEAN ]
Delegates == [ src : Sources, path : Paths, sel : Selections \union {None} ]

\* What a harness and a profile both hold.
Sections == [ includes : Seq(Includes), hooks : [Events -> Seq(Commands)],
              mcp : [Servers -> {Absent, Null} \union Definitions] ]
Empty == [ includes |-> <<>>, hooks |-> [e \in Events |-> <<>>], mcp |-> Nothing ]

\* The profile of a focus without one is Top; launch and sensor are focuses the
\* manifest names elsewhere.
Manifests == [ top : Sections, profiles : [Profiles -> Sections \union {None}],
               focuses : [Focuses -> Scopes \union {None}], delegates : Seq(Delegates),
               launch : Focuses \union {None}, sensor : Focuses \union {None} ]

ASSUME ManifestAssumption ==
  /\ NoPath \in Paths /\ Within \in [Paths -> Paths] /\ Within[NoPath] = NoPath
  /\ Has \in [Sources \X Paths -> SUBSET Picks]
  /\ Holds \subseteq Sources \X Paths
  /\ Declares \in [Sources \X Paths -> SUBSET Selections]
  /\ Top \notin Profiles
  /\ None \notin Sources \union Paths \union Selections \union Profiles \union Focuses \union Values \union {Top}
  /\ None \notin Sections /\ Absent # Null /\ {Absent, Null} \intersect Definitions = {}
  /\ Torn \notin Manifests /\ Written \subseteq Manifests
  /\ MaxEdits \in Nat /\ MaxFaults \in Nat

VARIABLES
    disk,     \* the file
    job,      \* per process: the edit, the copy it has loaded, what it has looked up
    edits, faults,
    loose,    \* history: an update gave an entry another path and no picks, or
              \* changed an entry that is not the one it had looked at
    refused   \* history: the delegate refused last for the name it selects, or None

manifestVars == <<disk, job, edits, faults, loose, refused>>

Idle == [ pc |-> "idle", edit |-> None, copy |-> None, removals |-> {}, look |-> None ]
-----------------------------------------------------------------------------
(* Reading and writing the file *)

\* In memory a null of the harness is a removal and no server (UnmarshalJSON).
Removals(m) == { s \in Servers : m.top.mcp[s] = Null }
Unmarshal(m) == [m EXCEPT !.top.mcp = [s \in Servers |-> IF @[s] = Null THEN Absent ELSE @[s]]]

\* Each removal is a null again, whatever server has its name (MarshalJSON).
Marshal(m, removals) ==
  [m EXCEPT !.top.mcp = [s \in Servers |-> IF s \in removals THEN Null ELSE @[s]]]

Loaded(j) == [j EXCEPT !.pc = "edit", !.copy = Unmarshal(disk), !.removals = Removals(disk)]

\* A command begins, and loads the manifest; an update of an include looks first.
Begin(p, edit) ==
  /\ job[p] = Idle /\ disk # Torn
  /\ edits < MaxEdits /\ edits' = edits + 1
  /\ job' = [job EXCEPT ![p] = IF edit = "update" THEN [@ EXCEPT !.pc = "look", !.edit = edit]
                               ELSE Loaded([@ EXCEPT !.edit = edit])]
  /\ UNCHANGED <<disk, faults, loose, refused>>

Reload(p) ==
  /\ job[p].pc = "load" /\ disk # Torn
  /\ job' = [job EXCEPT ![p] = Loaded(@)]
  /\ UNCHANGED <<disk, edits, faults, loose, refused>>

\* A file that does not parse, an entry that is not there or not the only one, a
\* name that is taken, a server that is not valid: nothing is written.
RefuseEdit(p) ==
  /\ job[p] # Idle
  /\ job' = [job EXCEPT ![p] = Idle]
  /\ UNCHANGED <<disk, edits, faults, loose, refused>>

Editing(p, edit) == job[p].pc = "edit" /\ job[p].edit = edit

\* The copy is written over what is there now. As it is written the command may
\* be killed, or another write the same file.
Save(p, m) ==
  /\ \/ disk' = Marshal(m, job[p].removals) /\ UNCHANGED faults
     \/ disk' = Torn /\ faults < MaxFaults /\ faults' = faults + 1
  /\ job' = [job EXCEPT ![p] = Idle]
  /\ UNCHANGED edits

Saves(p, m) == Save(p, m) /\ UNCHANGED <<loose, refused>>

\* A user writes the file, as one must to repair it.
HandEdit ==
  /\ disk = Torn
  /\ disk' \in Written
  /\ UNCHANGED <<job, edits, faults, loose, refused>>

\* The section of a scope in a copy; a profile must be there.
There(m, s) == s \in Profiles => m.profiles[s] # None
Of(m, s) == IF s = Top THEN m.top ELSE m.profiles[s]
With(m, s, section) == IF s = Top THEN [m EXCEPT !.top = section] ELSE [m EXCEPT !.profiles[s] = section]
-----------------------------------------------------------------------------
(* Entries of lists: an include or a delegate is named by its source, and by a *)
(* path where the source has several. No path means any, the root one too.     *)

Matches(list, src) == { i \in DOMAIN list : list[i].src = src }
At(list, src, path) == { i \in Matches(list, src) : list[i].path = path }
First(S) == CHOOSE i \in S : \A j \in S : i <= j

CanRemove(list, src, path) ==
  IF path = NoPath THEN Cardinality(Matches(list, src)) = 1 ELSE At(list, src, path) # {}

\* What is at some places of a list, in its order.
KeptAt(list, at) == [k \in 1..Cardinality(at) |-> list[CHOOSE i \in at : Cardinality({ j \in at : j <= i }) = k]]
Without(list, src, path) == KeptAt(list, DOMAIN list \ (IF path = NoPath THEN Matches(list, src) ELSE At(list, src, path)))

\* The entry an update means, as a set of one index or none: the only one of the
\* source, whatever path is given.
Target(list, src, from) ==
  IF Cardinality(Matches(list, src)) = 1 THEN Matches(list, src)
  ELSE IF from = NoPath \/ At(list, src, from) = {} THEN {} ELSE {First(At(list, src, from))}
-----------------------------------------------------------------------------
(* ynh include and ynh profile include *)

\* ValidatePicks, of the picks of a command, in the folder they will be taken from.
Checked(e) == e.pick \subseteq Has[e.src, e.path]

\* An entry of that source and path is replaced only where --replace says so.
AddInclude(p, s, e, replace) ==
  LET m == job[p].copy  list == Of(m, s).includes  same == At(list, e.src, e.path) IN
  /\ Editing(p, "include") /\ There(m, s)
  /\ Checked(e)
  /\ same = {} \/ replace
  /\ LET new == IF same = {} THEN Append(list, e) ELSE [list EXCEPT ![First(same)] = e]
     IN Saves(p, With(m, s, [Of(m, s) EXCEPT !.includes = new]))

RemoveInclude(p, s, src, path) ==
  LET m == job[p].copy  list == Of(m, s).includes IN
  /\ Editing(p, "include") /\ There(m, s)
  /\ CanRemove(list, src, path)
  /\ Saves(p, With(m, s, [Of(m, s) EXCEPT !.includes = Without(list, src, path)]))

\* An update: the path and the picks to set, or None to leave them alone.
Changes == [ path : Paths \union {None}, pick : (SUBSET Picks) \union {None} ]
Changed(e, c) == [e EXCEPT !.path = IF c.path = None THEN @ ELSE c.path, !.pick = IF c.pick = None THEN @ ELSE c.pick]

\* Mutant of UpdatePicks: the picks are checked where the entry points before
\* the update.
PicksOfOld(e, c) == c.pick # None => Checked([e EXCEPT !.pick = c.pick])

\* Only picks that are given are checked, against the entry as it will be.
UpdatePicks(e, c) == c.pick # None => Checked(Changed(e, c))

FindUpdateTarget(p, s, src, from, c) ==
  /\ job[p].pc = "look" /\ disk # Torn /\ There(disk, s)
  /\ LET list == Of(disk, s).includes IN \E i \in Target(list, src, from) :
       /\ UpdatePicks(list[i], c)
       /\ job' = [job EXCEPT ![p] = [@ EXCEPT !.pc = "load",
                    !.look = [ s |-> s, src |-> src, from |-> from, change |-> c, entry |-> list[i] ]]]
  /\ UNCHANGED <<disk, edits, faults, loose, refused>>

\* The entry is looked up again, in what the file has now.
UpdateInclude(p) ==
  LET m == job[p].copy  l == job[p].look IN
  /\ Editing(p, "update") /\ There(m, l.s)
  /\ LET list == Of(m, l.s).includes IN \E i \in Target(list, l.src, l.from) :
       /\ Save(p, With(m, l.s, [Of(m, l.s) EXCEPT !.includes[i] = Changed(list[i], l.change)]))
       /\ loose' = (loose \/ list[i] # l.entry \/ (l.change.path # None /\ l.change.pick = None))
  /\ UNCHANGED refused
-----------------------------------------------------------------------------
(* ynh delegate, of an installed harness: the delegate is fetched first *)

\* Where the delegate is: the folder named, or, where none is named and the
\* source is not a harness itself, the only one in it that is.
Located(src, path) ==
  IF path # NoPath \/ <<src, NoPath>> \in Holds THEN {path} \intersect { q \in Paths : <<src, q>> \in Holds }
  ELSE LET inside == { q \in Paths : <<src, q>> \in Holds /\ Within[q] # q }
       IN IF Cardinality(inside) = 1 THEN inside ELSE {}

\* The folder whose harness is asked what it declares: a path that was named is
\* added to the folder it already led to.
Asked(path, found) == IF path = NoPath THEN found ELSE Within[found]

AddDelegate(p, src, path, sel) ==
  LET m == job[p].copy IN
  /\ Editing(p, "delegate")
  /\ \E found \in Located(src, path) : LET d == [ src |-> src, path |-> found, sel |-> sel ] IN
       IF sel = None \/ (<<src, Asked(path, found)>> \in Holds /\ sel \in Declares[src, Asked(path, found)])
       THEN At(m.delegates, src, found) = {} /\ Saves(p, [m EXCEPT !.delegates = Append(@, d)])
       ELSE refused' = d /\ job' = [job EXCEPT ![p] = Idle] /\ UNCHANGED <<disk, edits, faults, loose>>

RemoveDelegate(p, src, path) ==
  LET m == job[p].copy IN
  /\ Editing(p, "delegate") /\ CanRemove(m.delegates, src, path)
  /\ Saves(p, [m EXCEPT !.delegates = Without(@, src, path)])

UpdateDelegate(p, src, from, path) ==
  LET m == job[p].copy IN
  /\ Editing(p, "delegate")
  /\ \E i \in Target(m.delegates, src, from) : Saves(p, [m EXCEPT !.delegates[i].path = path])
-----------------------------------------------------------------------------
(* ynh focus and ynh profile *)

AddFocus(p, f, s) ==
  LET m == job[p].copy IN
  /\ Editing(p, "focus") /\ m.focuses[f] = None /\ There(m, s)
  /\ Saves(p, [m EXCEPT !.focuses[f] = s])

RemoveFocus(p, f) ==
  LET m == job[p].copy IN
  /\ Editing(p, "focus") /\ m.focuses[f] # None
  /\ Saves(p, [m EXCEPT !.focuses[f] = None])

UpdateFocus(p, f, s) ==
  LET m == job[p].copy IN
  /\ Editing(p, "focus") /\ m.focuses[f] # None /\ There(m, s)
  /\ Saves(p, [m EXCEPT !.focuses[f] = s])

AddProfile(p, s) ==
  LET m == job[p].copy IN
  /\ Editing(p, "profile") /\ m.profiles[s] = None
  /\ Saves(p, [m EXCEPT !.profiles[s] = Empty])

\* Mutant of Blocked: only the launch focus keeps a profile.
BlockedByLaunch(m, s) == \E f \in Focuses : f = m.launch /\ m.focuses[f] = s

Blocked(m, s) == \E f \in Focuses : m.focuses[f] = s

RemoveProfile(p, s) ==
  LET m == job[p].copy IN
  /\ Editing(p, "profile") /\ m.profiles[s] # None /\ ~Blocked(m, s)
  /\ Saves(p, [m EXCEPT !.profiles[s] = None])
-----------------------------------------------------------------------------
(* ynh hook and ynh profile hook *)

AddHook(p, s, e, c) ==
  LET m == job[p].copy IN
  /\ Editing(p, "hook") /\ There(m, s)
  /\ Saves(p, With(m, s, [Of(m, s) EXCEPT !.hooks[e] = Append(@, c)]))

RemoveHook(p, s, e, i) ==
  LET m == job[p].copy IN
  /\ Editing(p, "hook") /\ There(m, s) /\ i \in DOMAIN Of(m, s).hooks[e]
  /\ Saves(p, With(m, s, [Of(m, s) EXCEPT !.hooks[e] = RemoveAt(@, i)]))
-----------------------------------------------------------------------------
(* ynh mcp and ynh profile mcp. In a copy a null of the harness is no server, *)
(* so that one may be added under its name; a null of a profile is an entry,  *)
(* which is removed but not updated.                                          *)

Put(m, s, server, value) == With(m, s, [Of(m, s) EXCEPT !.mcp[server] = value])

AddMCP(p, s, server, value) ==
  LET m == job[p].copy IN
  /\ Editing(p, "mcp") /\ There(m, s) /\ Of(m, s).mcp[server] = Absent
  /\ IF value = Null THEN s # Top ELSE Valid(value)
  /\ Saves(p, Put(m, s, server, value))

RemoveMCP(p, s, server) ==
  LET m == job[p].copy IN
  /\ Editing(p, "mcp") /\ There(m, s) /\ Of(m, s).mcp[server] # Absent
  /\ Saves(p, Put(m, s, server, Absent))

StillValid(def) == Valid(def)

\* Each field is set, to nothing too, or left alone.
UpdateMCP(p, s, server, def) ==
  LET m == job[p].copy IN
  /\ Editing(p, "mcp") /\ There(m, s) /\ Of(m, s).mcp[server] \in Definitions
  /\ StillValid(def) /\ def # Of(m, s).mcp[server]
  /\ Saves(p, Put(m, s, server, def))
-----------------------------------------------------------------------------
EditIncludes(p, edit) == \E s \in Scopes, src \in Sources, path \in Paths :
  \/ /\ edit = "include"
     /\ \/ \E pick \in SUBSET Picks, hooks, replace \in BOOLEAN :
             AddInclude(p, s, [ src |-> src, path |-> path, pick |-> pick, hooks |-> hooks ], replace)
        \/ RemoveInclude(p, s, src, path)
  \/ edit = "update" /\ \E c \in Changes : FindUpdateTarget(p, s, src, path, c)

EditDelegates(p) == \E src \in Sources, path \in Paths :
  \/ \E sel \in Selections \union {None} : AddDelegate(p, src, path, sel)
  \/ RemoveDelegate(p, src, path)
  \/ \E new \in Paths : UpdateDelegate(p, src, path, new)

EditFocuses(p) == \E f \in Focuses : RemoveFocus(p, f) \/ \E s \in Scopes : AddFocus(p, f, s) \/ UpdateFocus(p, f, s)

EditProfiles(p) == \E s \in Profiles : AddProfile(p, s) \/ RemoveProfile(p, s)

EditHooks(p) == \E s \in Scopes, e \in Events :
  \/ \E c \in Commands : AddHook(p, s, e, c)
  \/ \E i \in 1..(MaxEdits + 2) : RemoveHook(p, s, e, i)

EditServers(p) == \E s \in Scopes, server \in Servers :
  \/ \E value \in Definitions \union {Null} : AddMCP(p, s, server, value)
  \/ RemoveMCP(p, s, server)
  \/ \E def \in Definitions : UpdateMCP(p, s, server, def)

Command(p) ==
  \/ \E edit \in Edits : Begin(p, edit)
  \/ Reload(p) \/ RefuseEdit(p) \/ UpdateInclude(p)
  \/ job[p].edit \in {"include", "update"} /\ EditIncludes(p, job[p].edit)
  \/ EditDelegates(p) \/ EditFocuses(p) \/ EditProfiles(p) \/ EditHooks(p) \/ EditServers(p)

ManifestInit ==
  /\ disk \in Written
  /\ job = [p \in Procs |-> Idle]
  /\ edits = 0 /\ faults = 0
  /\ loose = FALSE /\ refused = None

ManifestNext == HandEdit \/ \E p \in Procs : Command(p)

ManifestSpec == ManifestInit /\ [][ManifestNext]_manifestVars
-----------------------------------------------------------------------------
(* Properties *)

ValidServers(section) == \A s \in Servers : section.mcp[s] \in Definitions => Valid(section.mcp[s])
Validates(m) ==
  /\ ValidServers(m.top)
  /\ \A s \in Profiles : m.profiles[s] # None => ValidServers(m.profiles[s])
  /\ \A f \in Focuses : m.focuses[f] # None => There(m, m.focuses[f])

\* What ynd validate asks of a manifest (validate.go:745, 783, 982), beside the
\* focuses that launch_focus and the sensors name, holds however many commands
\* edit it at once and whichever copies they write over each other: no server
\* is both a program and an address or neither, and no focus loses its profile.
EditsStayValid ==
  /\ disk # Torn => Validates(disk)
  /\ \A p \in Procs : job[p].pc = "edit" => Validates(job[p].copy)

\* Every entry's picks are in the folder the entry points to, since a command
\* checks the picks it is given there before it writes; what escapes is an
\* update that gives a new path alone, and one whose entry another command
\* changed after it had looked.
PicksAreChecked ==
  disk # Torn /\ ~loose =>
    \A s \in Scopes : There(disk, s) =>
      \A i \in DOMAIN Of(disk, s).includes : Checked(Of(disk, s).includes[i])

\* Commands that edit one manifest at once, unlocked, lose each other's edits and
\* still leave a manifest that is valid, with picks that were checked.
EditsHold == EditsStayValid /\ PicksAreChecked

\* docs/harnesses.md:356 has the delegate fetched and the name checked against
\* what it declares: an add is refused only for a name it does not declare.
RefusedWithReason == refused # None => refused.sel \notin Declares[refused.src, refused.path]

\* docs/harnesses.md:588 has includes keyed by URL and path.
KeyedByPath ==
  disk # Torn => \A s \in Scopes : There(disk, s) =>
    LET list == Of(disk, s).includes
    IN \A i, j \in DOMAIN list : list[i].src = list[j].src /\ list[i].path = list[j].path => i = j

\* A server that was added is in the manifest (plugin.go:33 has a removed name
\* never be a server's).
AddedIsThere ==
  [][\A p \in Procs, s \in Scopes, server \in Servers, value \in Definitions :
       AddMCP(p, s, server, value) /\ disk' # Torn => Of(disk', s).mcp[server] = value]_manifestVars
=============================================================================
