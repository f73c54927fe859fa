----------------------------- MODULE Marketplace -----------------------------
(* ynd marketplace build (marketplace.Build, cleanOutputDir): the entries of a *)
(* marketplace.json, built into a directory that is a git repository. Builds   *)
(* follow one another into one directory, of configurations and sources that   *)
(* have changed, with and without --clean; any of them may fail or be killed.  *)
(* The directory may be somebody's own: a working copy ynd did not make is     *)
(* never cleaned and never committed to.                                       *)
(*                                                                             *)
(* A harness entry is exported afresh: Export has what its package holds. A    *)
(* plugin entry is copied over what is there, and manifests that are missing   *)
(* are made.                                                                   *)
EXTENDS Naturals, SequencesExt

CONSTANTS
    Sources,
    Kind,        \* [Sources -> {"harness", "plugin"}]
    Names,
    NameOf,      \* [Sources -> Names], as the indexes and directories have it
    Paths,       \* the files of plugins
    Manifest,    \* the one that is made if it is missing
    Trees,       \* [Sources -> [1..MaxVersion -> SUBSET Paths]]
    Vendors,
    Configs,     \* the entries a marketplace.json may list
    MaxVersion,  \* bound: versions of a source
    MaxBuilds    \* bound: builds

ASSUME MarketplaceAssumption ==
  /\ Kind \in [Sources -> {"harness", "plugin"}] /\ NameOf \in [Sources -> Names]
  /\ MaxVersion \in Nat \ {0} /\ MaxBuilds \in Nat
  /\ Manifest \in Paths
  /\ Trees \in [Sources -> [1..MaxVersion -> SUBSET Paths]]
  /\ \A s \in Sources : Kind[s] = "harness" => \A v \in 1..MaxVersion : Manifest \in Trees[s][v]
  \* An entry of a name that another has shares its directory: left out.
  /\ Configs \subseteq Seq(Sources)
  /\ \A c \in Configs : c # <<>> /\ \A i, j \in DOMAIN c : i # j => NameOf[c[i]] # NameOf[c[j]]

VARIABLES
    version,           \* of each source
    plugins,           \* what each plugins/<name> holds: file to [ src, version ]
    index,             \* the names each vendor's index lists
    own,               \* a file somebody keeps in the directory
    marker,            \* the file that says the repository is ynd's
    git,               \* "none", "empty" (no commit yet), "ours", "theirs"
    log,               \* what was committed
    request,           \* of this build: [ config, vendors, clean ]
    step, at,          \* where it is, and the entry it has come to
    builds

contents == <<plugins, index, own, marker>>
history == <<git, log>>
vars == <<version, contents, history, request, step, at, builds>>

Config == request.config
NoFile == <<>>
Nothing == [n \in Names |-> NoFile]
NoIndex == [v \in Vendors |-> {}]

\* The files of a source as it is now.
Tree(s) == [p \in Trees[s][version[s]] |-> [ src |-> s, version |-> version[s] ]]

WorkingTree == [ plugins |-> plugins, index |-> index, own |-> own ]

\* Mutant of OwnsRepo: the marker is enough.
MarkerOwns == marker /\ git \in {"ours", "theirs"}

\* The marker, and a first commit that is ynd's.
OwnsRepo == marker /\ git = "ours"

-----------------------------------------------------------------------------
Start ==
  /\ step \in {"idle", "done", "refused", "failed"}
  /\ builds < MaxBuilds /\ builds' = builds + 1
  /\ request' \in [ config : Configs, vendors : SUBSET Vendors \ {{}}, clean : BOOLEAN ]
  /\ step' = "prepare" /\ at' = 1
  /\ UNCHANGED <<version, contents, history>>

\* Every entry is read before anything is written.
Prepare ==
  /\ step = "prepare"
  /\ step' \in {"clean", "refused"}
  /\ UNCHANGED <<version, contents, history, request, at, builds>>

\* --clean, once it is confirmed: all but the history of a repository that is ynd's.
Clean ==
  /\ step = "clean"
  /\ request.clean => git = "none" \/ OwnsRepo
  /\ IF request.clean
     THEN plugins' = Nothing /\ index' = NoIndex /\ own' = FALSE /\ marker' = OwnsRepo
     ELSE UNCHANGED contents
  /\ step' = "entries"
  /\ UNCHANGED <<version, history, request, at, builds>>

\* A git working copy that is not ynd's, or a user who says no.
RefuseToClean ==
  /\ step = "clean" /\ request.clean
  /\ step' = "refused"
  /\ UNCHANGED <<version, contents, history, request, at, builds>>

Entry == Config[at]
NextEntry == at' = at + 1 /\ UNCHANGED <<version, index, own, marker, history, request, step, builds>>

\* Mutant of ExportEntry: a harness is written over what is there.
OverlayEntry ==
  /\ step = "entries" /\ at <= Len(Config) /\ Kind[Entry] = "harness"
  /\ plugins' = [plugins EXCEPT ![NameOf[Entry]] = Tree(Entry) @@ @]
  /\ NextEntry

\* A harness is exported into its directory, which is removed first.
ExportEntry ==
  /\ step = "entries" /\ at <= Len(Config) /\ Kind[Entry] = "harness"
  /\ plugins' = [plugins EXCEPT ![NameOf[Entry]] = Tree(Entry)]
  /\ NextEntry

\* A plugin is copied over what is there, and given a manifest if it has none.
CopyEntry ==
  /\ step = "entries" /\ at <= Len(Config) /\ Kind[Entry] = "plugin"
  /\ plugins' = [plugins EXCEPT ![NameOf[Entry]] =
       [p \in DOMAIN Tree(Entry) \union DOMAIN @ \union {Manifest} |->
          IF p \in DOMAIN @ \ DOMAIN Tree(Entry) THEN @[p] ELSE [ src |-> Entry, version |-> version[Entry] ]]]
  /\ NextEntry

WriteIndexes ==
  /\ step = "entries" /\ at > Len(Config)
  /\ index' = [v \in Vendors |-> IF v \in request.vendors THEN { NameOf[Config[i]] : i \in DOMAIN Config } ELSE index[v]]
  /\ step' = "git"
  /\ UNCHANGED <<version, plugins, own, marker, history, request, at, builds>>

\* The output is made a repository, or is one of ynd's; any other is let be.
Git ==
  /\ step = "git"
  /\ IF git = "none" THEN git' = "empty" /\ step' = "mark"
     ELSE git' = git /\ step' = IF OwnsRepo THEN "mark" ELSE "done"
  /\ UNCHANGED <<version, contents, log, request, at, builds>>

Mark ==
  /\ step = "mark"
  /\ marker' = TRUE /\ step' = "commit"
  /\ UNCHANGED <<version, plugins, index, own, history, request, at, builds>>

\* Everything is committed, if there is anything to commit.
Commit ==
  /\ step = "commit" /\ step' = "done"
  /\ IF git = "empty" THEN git' = "ours" ELSE git' = git
  /\ log' = IF log # <<>> /\ Last(log) = WorkingTree THEN log ELSE Append(log, WorkingTree)
  /\ UNCHANGED <<version, contents, request, at, builds>>

\* A build that fails or is killed, a harness's directory half exported or gone.
Fail ==
  /\ step \in {"entries", "git", "mark", "commit"}
  /\ step' = "failed"
  /\ plugins' \in {plugins} \union (IF step = "entries" /\ at <= Len(Config) /\ Kind[Entry] = "harness"
                                  THEN { [plugins EXCEPT ![NameOf[Entry]] = NoFile] } ELSE {})
  /\ UNCHANGED <<version, index, own, marker, history, request, at, builds>>

\* A source changes from one build to the next.
Edit ==
  /\ step \in {"done", "refused", "failed"}
  /\ \E s \in Sources : version[s] < MaxVersion /\ version' = [version EXCEPT ![s] = @ + 1]
  /\ step' = "idle"
  /\ UNCHANGED <<contents, history, request, at, builds>>

\* The directory is new, or somebody's, with the marker copied into it or not.
Init ==
  /\ version = [s \in Sources |-> 1]
  /\ plugins = Nothing /\ index = NoIndex
  /\ \/ git = "none" /\ log = <<>> /\ marker = FALSE /\ own \in BOOLEAN
     \/ git = "theirs" /\ marker \in BOOLEAN /\ own = TRUE /\ log = <<WorkingTree>>
  /\ request = [ config |-> CHOOSE c \in Configs : TRUE, vendors |-> Vendors, clean |-> FALSE ]
  /\ step = "idle" /\ at = 1 /\ builds = 0

Next ==
  \/ Start \/ Prepare \/ Clean \/ RefuseToClean \/ ExportEntry \/ CopyEntry
  \/ WriteIndexes \/ Git \/ Mark \/ Commit \/ Fail \/ Edit

Spec == Init /\ [][Next]_vars
-----------------------------------------------------------------------------
(* Properties *)

Listed == { NameOf[Config[i]] : i \in DOMAIN Config }

\* A finished build is its configuration, whatever failed, killed or other
\* builds came before it: each harness is as it was read, with nothing of an
\* earlier version; each file of a plugin is as it was read; the indexes list
\* the entries; after --clean there is nothing else; and a repository of ynd's
\* has all of it committed.
BuildIsItsConfig ==
  step = "done" =>
    /\ \A i \in DOMAIN Config :
         LET s == Config[i] IN
         IF Kind[s] = "harness" \/ request.clean
         THEN \A p \in Paths \ {Manifest} : p \in DOMAIN plugins[NameOf[s]] <=> p \in Trees[s][version[s]]
         ELSE TRUE
    /\ \A i \in DOMAIN Config :
         LET s == Config[i]  files == plugins[NameOf[s]] IN
         /\ \A p \in Trees[s][version[s]] : p \in DOMAIN files /\ files[p] = [ src |-> s, version |-> version[s] ]
         /\ Manifest \in DOMAIN files
    /\ \A v \in request.vendors : index[v] = Listed
    /\ request.clean => /\ \A n \in Names \ Listed : plugins[n] = NoFile
                        /\ \A v \in Vendors \ request.vendors : index[v] = {}
                        /\ ~own
    /\ git = "ours" => marker /\ Last(log) = WorkingTree

\* No build takes history away: a repository stays, ynd's own is only committed
\* to, --clean or not, and somebody else's is not even that, nor is a file in it
\* that is not the build's own removed.
HistoryKept ==
  [][ /\ git \in {"ours", "theirs"} => git' = git /\ IsPrefix(log, log')
      /\ git = "theirs" => log' = log /\ own' = own /\ marker' = marker ]_vars

\* What marketplace.go says of the three cases of its output: what is not
\* somebody else's repository is committed.
BuildIsCommitted == step = "done" => git \in {"ours", "theirs"}

\* What marketplace.go says of a plugin entry, that missing manifests are made:
\* the one a version without a manifest gets is of that version.
ManifestIsCurrent ==
  step = "done" => \A i \in DOMAIN Config :
    LET s == Config[i] IN Kind[s] = "plugin" => plugins[NameOf[s]][Manifest].version = version[s]
=============================================================================
