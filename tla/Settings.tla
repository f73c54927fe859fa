------------------------------ MODULE Settings ------------------------------
(* The user's config.json and what is looked up through it (internal/config,   *)
(* cmd/ynh/registry.go, sources.go, backend.go, init.go, install_resolve.go,   *)
(* search.go, internal/registry, sources, namespace). A command that edits it  *)
(* loads the file, changes its copy and writes the whole of it, without a lock *)
(* or a rename. ynh search and ynh install load it once and look harnesses up: *)
(* in the directories it names, in the registries, and by canonical id.        *)
(*                                                                             *)
(* What a clone goes through is in RepoCache, what an install does with what   *)
(* it was led to in HarnessStore. The flags --path and --ref of an install are *)
(* left out, and so are a registry's ref and the settings no command writes.   *)
(* An argument that is the name of a file where ynh is called is a directory   *)
(* here, whatever else it could be.                                            *)
EXTENDS Naturals, FiniteSets, SequencesExt

CONSTANTS
    Users,        \* commands that may be under way
    Urls,         \* git repositories, by the URLs they go by
    Slugs, Slug,  \* [Urls -> Slugs \union {NoSlug}]: host, organisation and repository
    NoSlug,       \* of a path, a file:// URL or a short form: "local" in an id
    LocalUrls,    \* the URLs that are paths: such a repository is used as it stands
    Https,        \* [Slugs -> Urls], where an id is cloned from
    Prefix,       \* [Urls -> Slugs], organisation and repository: what a clone's name begins with
    Labels, Carries,    \* [Urls -> SUBSET Labels], what may stand behind the @ for a registry
    Segments, Spelled,  \* [Urls -> Seq(Segments)], a URL as it is matched with patterns
    AnyOne, AnyDepth,   \* the patterns * and **
    Words, Fold,        \* names of harnesses, and [Words -> Words], without their case
    Folders, Root,
    Refs, Tip,          \* what entries pin, and no pin
    Dirs, Titles,       \* the user's directories, and the names of sources
    Backends, Types, Tools,
    None, Absent, Torn, Refused, Offline,
    Written,    \* the configurations users write
    Worlds,     \* what the repositories and directories may hold
    Asked,      \* what is given to ynh install
    MaxCalls,   \* bound: commands begun, and edits by hand
    MaxTroubles \* bound: writes that tear the file, fetches and purges that fail

Patterns == Seq(Segments \union {AnyOne, AnyDepth})

\* A harness of a tree, in the order of discovery, and how deep it is: one inside
\* another harness is deeper than any search goes.
Harness == [ path : Folders, name : Words, depth : Nat ]

\* An entry of an index; one with a relative path is of the registry's own
\* repository. Whether it gives a commit that is not the one its ref has.
Entries == [ name : Words, repo : Urls, path : Folders, ref : Refs \union {Tip}, moved : BOOLEAN ]

\* A folder holds one harness at the most.
Discoveries == { tree \in Seq(Harness) : \A j, k \in DOMAIN tree : tree[j].path = tree[k].path => j = k }

World == [ repos : [Urls -> [Refs \union {Tip} -> Discoveries]], dirs : [Dirs -> Discoveries],
           index : [Urls -> Seq(Entries) \union {None}] ]

Configurations ==
  [ registries : Seq(Urls), sources : Seq([ title : Titles, dir : Dirs ]),
    backends : [Backends -> [ type : Types \union {None}, tools : SUBSET Tools ] \union {None}],
    allowed : (SUBSET Patterns) \union {None} ]

\* What an install is given: a directory, a URL, a name and the label of a registry,
\* the id of what has no URL, an id, a repository and a folder, or a name.
Arguments ==
  [ kind : {"dir"}, dir : Dirs, path : Folders ] \union [ kind : {"url"}, url : Urls ]
    \union [ kind : {"qualified"}, name : Words, label : Labels ] \union [ kind : {"localId"} ]
    \union [ kind : {"id"}, slug : Slugs, name : Words ] \union [ kind : {"subpath"}, slug : Slugs, path : Folders ]
    \union [ kind : {"name"}, name : Words ]

\* What it may be led to.
Led == [ from : Urls \union Dirs, ref : Refs \union {Tip}, path : Folders, name : Words,
         id : (Slugs \union {NoSlug}) \X Words ]

Default == [ registries |-> <<>>, sources |-> <<>>, backends |-> [b \in Backends |-> None], allowed |-> None ]

ASSUME SettingsAssumption ==
  /\ Slug \in [Urls -> Slugs \union {NoSlug}] /\ NoSlug \notin Slugs
  /\ LocalUrls \subseteq Urls /\ \A url \in LocalUrls : Slug[url] = NoSlug
  /\ Https \in [Slugs -> Urls] /\ \A s \in Slugs : Slug[Https[s]] = s
  /\ Fold \in [Words -> Words] /\ \A w \in Words : Fold[Fold[w]] = Fold[w]
  /\ AnyOne \notin Segments /\ AnyDepth \notin Segments \union {AnyOne}
  /\ {Absent, Torn} \intersect Configurations = {} /\ Absent # Torn
  /\ Spelled \in [Urls -> Seq(Segments)]
  \* No directory is a URL one clones from.
  /\ Dirs \intersect Urls \subseteq LocalUrls
  /\ {None, Refused, Offline} \intersect Led = {} /\ Refused \notin {None, Offline} /\ None \notin Entries
  /\ Written \subseteq Configurations /\ Worlds \subseteq World /\ Asked \subseteq Arguments
  /\ MaxCalls \in Nat /\ MaxTroubles \in Nat

VARIABLES
    config,     \* the file
    world,
    clones,     \* the URLs that have a clone
    call,       \* per user: the command under way, or what it came to
    word,       \* history: what the file says if each command is done whole
    crossed,    \* history: since the last edit by hand, a command has saved a copy of
                \* a file that was another by then
    calls, troubles

settingsVars == <<config, world, clones, call, word, crossed, calls, troubles>>

Resting == [ pc |-> "rest", copy |-> Default, stale |-> FALSE, arg |-> None, took |-> None, found |-> {} ]
-----------------------------------------------------------------------------
(* config.Load, Save and CheckSource *)

Load == IF config = Absent THEN Default ELSE config

\* Lists are left out of the file if they are empty, the one of allowed sources too.
Marshal(c) == [c EXCEPT !.allowed = IF @ = {} THEN None ELSE @]

\* A pattern and a path, segment by segment: ** stands for any number of segments.
\* At each segment of the pattern, the places of the path from which on the rest matches.
MatchGlob(pattern, path) ==
  LET n == Len(pattern)  m == Len(path)
      match[i \in 1..(n + 1)] ==
        IF i > n THEN {m + 1}
        ELSE IF pattern[i] = AnyDepth THEN { j \in 1..(m + 1) : i = n \/ \E k \in match[i + 1] : j <= k }
        ELSE { j \in 1..m : pattern[i] \in {AnyOne, path[j]} /\ j + 1 \in match[i + 1] }
  IN 1 \in match[1]

\* No list allows every source, an empty one none.
CheckSource(c, url) == c.allowed = None \/ \E p \in c.allowed : MatchGlob(p, Spelled[url])
-----------------------------------------------------------------------------
(* Looking harnesses up *)

Same(a, b) == Fold[a] = Fold[b]
CanonicalID(url, name) == <<Slug[url], name>>

\* The harnesses of a tree, by their places in the order of discovery.
Discover(tree, depth) == { k \in DOMAIN tree : tree[k].depth <= depth }
InFolder(tree, path) == { k \in DOMAIN tree : tree[k].path = path }

\* What an install is led to: the first harness found, in a repository or a directory.
Take(from, slug, ref, tree, found) ==
  LET taken == tree[CHOOSE k \in found : \A j \in found : k <= j]
  IN IF found = {} THEN Refused
     ELSE [ from |-> from, ref |-> ref, path |-> taken.path, name |-> taken.name, id |-> <<slug, taken.name>> ]

TakeDir(dir, found) == Take(dir, NoSlug, Tip, world.dirs[dir], found)

\* What is cloned is checked; a path is not.
TakeRepo(c, url, ref, found) ==
  IF url \in LocalUrls \/ CheckSource(c, url) THEN Take(url, Slug[url], ref, world.repos[url][ref], found) ELSE Refused

TakeEntry(c, e) ==
  LET ref == IF e.repo \in LocalUrls THEN Tip ELSE e.ref
  IN IF e.moved /\ e.repo \notin LocalUrls THEN Refused
     ELSE TakeRepo(c, e.repo, ref, InFolder(world.repos[e.repo][ref], e.path))

\* An id with a name only is searched for it, exactly as it is written.
TakeId(c, slug, name) ==
  LET tree == world.repos[Https[slug]][Tip]
  IN TakeRepo(c, Https[slug], Tip, { k \in Discover(tree, 4) : tree[k].name = name })

\* FetchAll: one registry that cannot be read spoils all of them.
Readable(c) == c.registries # <<>> /\ \A i \in DOMAIN c.registries : world.index[c.registries[i]] # None

\* What is found is told by its registry or source, and its place in it, and is in that order.
Before(a, b) == a[1] < b[1] \/ (a[1] = b[1] /\ a[2] <= b[2])
FirstPlace(places) == CHOOSE at \in places : \A other \in places : Before(at, other)

EntryAt(c, at) == world.index[c.registries[at[1]]][at[2]]
LookupExact(c, name, labels) ==
  UNION { { <<i, k>> : k \in { k \in DOMAIN world.index[c.registries[i]] : Same(world.index[c.registries[i]][k].name, name) } } :
            i \in { i \in DOMAIN c.registries : labels = {} \/ labels \intersect Carries[c.registries[i]] # {} } }

HarnessAt(c, at) == world.dirs[c.sources[at[1]].dir][at[2]]
SearchSources(c, name) ==
  UNION { { <<i, k>> : k \in { k \in Discover(world.dirs[c.sources[i].dir], 2) : Same(world.dirs[c.sources[i].dir][k].name, name) } } :
            i \in DOMAIN c.sources }

LookupFromRegistry(c, name, label) ==
  LET found == LookupExact(c, name, {label})
  IN IF ~Readable(c) \/ found = {} THEN Refused ELSE TakeEntry(c, EntryAt(c, FirstPlace(found)))

\* Mutant of SearchFromRegistry: the first of several will do.
FirstFromRegistry(c, name) ==
  LET found == LookupExact(c, name, {})
  IN IF Readable(c) /\ found # {} THEN TakeEntry(c, EntryAt(c, FirstPlace(found))) ELSE Refused

SearchFromRegistry(c, name) ==
  LET found == LookupExact(c, name, {})
  IN IF Readable(c) /\ Cardinality(found) = 1 THEN TakeEntry(c, EntryAt(c, FirstPlace(found))) ELSE Refused

\* The source is told by the form of the argument; a plain name is looked for in
\* the configured directories first.
ResolveInstallSource(c, a) ==
  CASE a.kind = "dir"       -> TakeDir(a.dir, InFolder(world.dirs[a.dir], a.path))
    [] a.kind = "url"       -> TakeRepo(c, a.url, Tip, InFolder(world.repos[a.url][Tip], Root))
    [] a.kind = "qualified" -> LookupFromRegistry(c, a.name, a.label)
    [] a.kind = "localId"  -> Refused
    [] a.kind = "id"        -> TakeId(c, a.slug, a.name)
    [] a.kind = "subpath"   -> TakeRepo(c, Https[a.slug], Tip, InFolder(world.repos[Https[a.slug]][Tip], a.path))
    [] a.kind = "name"      -> LET here == SearchSources(c, a.name) IN
                               IF here # {} THEN TakeDir(c.sources[FirstPlace(here)[1]].dir, {FirstPlace(here)[2]})
                               ELSE SearchFromRegistry(c, a.name)

\* Mutant of RegistryResult: the repository and the name, which is an id with
\* another case in it.
FoldedResult(e) ==
  [ name |-> e.name, id |-> CanonicalID(e.repo, e.name), entry |-> e, dir |-> None,
    install |-> IF Slug[e.repo] = NoSlug THEN [ kind |-> "localId" ]
                ELSE [ kind |-> "id", slug |-> Slug[e.repo], name |-> Fold[e.name] ] ]

\* What ynh search shows: a name, an id, and what to give to ynh install.
RegistryResult(e) ==
  [ name |-> e.name, id |-> CanonicalID(e.repo, e.name), entry |-> e, dir |-> None,
    install |-> IF Slug[e.repo] = NoSlug THEN [ kind |-> "localId" ]
                ELSE [ kind |-> "id", slug |-> Slug[e.repo], name |-> e.name ] ]

SourceResult(dir, h) ==
  [ name |-> h.name, id |-> <<NoSlug, h.name>>, entry |-> None, dir |-> dir,
    install |-> [ kind |-> "dir", dir |-> dir, path |-> h.path ] ]

\* All that is found, of which a query picks.
UnifiedSearch(c) ==
  (UNION { { RegistryResult(world.index[url][k]) : k \in DOMAIN world.index[url] } : url \in ToSet(c.registries) })
    \union (UNION { { SourceResult(s.dir, world.dirs[s.dir][k]) : k \in Discover(world.dirs[s.dir], 2) } : s \in ToSet(c.sources) })
-----------------------------------------------------------------------------
(* Commands *)

\* A command begins, and loads the file.
BeginCall(u, pc, arg) ==
  /\ call[u].pc \in {"rest", "done"} /\ config # Torn
  /\ calls < MaxCalls /\ calls' = calls + 1
  /\ call' = [call EXCEPT ![u] = [Resting EXCEPT !.pc = pc, !.copy = Load, !.arg = arg]]
  /\ UNCHANGED <<config, world, clones, word, crossed, troubles>>

\* Mutant of BeginInit: it begins whatever there is.
BeginAnyInit(u) == BeginCall(u, "init", None)

\* ynh init begins where there is no file.
BeginInit(u) == config = Absent /\ BeginCall(u, "init", None)

\* What does not fit is refused, and nothing written.
RefuseCall(u) ==
  /\ call[u].pc \in {"edit", "init"}
  /\ call' = [call EXCEPT ![u] = Resting]
  /\ UNCHANGED <<config, world, clones, word, crossed, calls, troubles>>

\* The copy is written over what is there now; a kill, or another command that
\* writes at the same time, may leave a file that cannot be read.
SaveConfig(u, copy, meant, then) ==
  /\ \/ config' = Marshal(copy) /\ word' = Marshal(meant) /\ UNCHANGED troubles
     \/ config' = Torn /\ troubles < MaxTroubles /\ troubles' = troubles + 1 /\ UNCHANGED word
  /\ crossed' = (crossed \/ call[u].stale)
  /\ call' = [v \in Users |-> IF v = u THEN (IF config' = Torn THEN Resting ELSE then)
                              ELSE [call[v] EXCEPT !.stale = TRUE]]
  /\ UNCHANGED <<world, clones, calls>>

\* What is at some places of a list, in its order.
KeptAt(list, at) == [k \in 1..Cardinality(at) |-> list[CHOOSE i \in at : Cardinality({ j \in at : j <= i }) = k]]

WithRegistry(c, url) == [c EXCEPT !.registries = Append(@, url)]
WithoutRegistry(c, url) == [c EXCEPT !.registries = KeptAt(@, { i \in DOMAIN @ : @[i] # url })]
WithSource(c, s) == [c EXCEPT !.sources = Append(@, s)]
WithoutSource(c, title) == [c EXCEPT !.sources = KeptAt(@, { i \in DOMAIN @ : @[i].title # title })]
WithBackend(c, b, tool, type) ==
  LET def == IF c.backends[b] = None THEN [ type |-> None, tools |-> {} ] ELSE c.backends[b]
  IN [c EXCEPT !.backends[b] = [ type |-> IF type = None THEN def.type ELSE type, tools |-> def.tools \union {tool} ]]
WithoutBackend(c, b, tools) ==
  LET def == c.backends[b] IN
  [c EXCEPT !.backends[b] = IF def = None \/ def.tools \subseteq tools THEN None ELSE [def EXCEPT !.tools = @ \ tools]]

\* What the file says, to a command that is done whole.
Said == IF word = Absent THEN Default ELSE word

Saves(u, Edited(_)) == SaveConfig(u, Edited(call[u].copy), Edited(Said), Resting)

CmdInit(u) == call[u].pc = "init" /\ SaveConfig(u, Default, Said, Resting)
Editing(u) == call[u].pc = "edit"

CmdRegistryAdd(u, url) ==
  /\ Editing(u) /\ ~Contains(call[u].copy.registries, url)
  /\ Saves(u, LAMBDA c : WithRegistry(c, url))

\* The clones of the URL, of any ref, go after the file is saved.
CmdRegistryRemove(u, url) ==
  /\ Editing(u) /\ Contains(call[u].copy.registries, url)
  /\ SaveConfig(u, WithoutRegistry(call[u].copy, url), WithoutRegistry(Said, url),
                [Resting EXCEPT !.pc = "purge", !.arg = url])

PurgeClones(u) ==
  /\ call[u].pc = "purge"
  /\ \/ clones' = { url \in clones : Prefix[url] # Prefix[call[u].arg] } /\ UNCHANGED troubles
     \/ UNCHANGED clones /\ troubles < MaxTroubles /\ troubles' = troubles + 1
  /\ call' = [call EXCEPT ![u] = Resting]
  /\ UNCHANGED <<config, world, word, crossed, calls>>

CmdSourcesAdd(u, s) ==
  /\ Editing(u) /\ \A i \in DOMAIN call[u].copy.sources : call[u].copy.sources[i].title # s.title
  /\ Saves(u, LAMBDA c : WithSource(c, s))

\* ynh sources remove, and the uninstall of the last harness of a name.
CmdSourcesRemove(u, title) ==
  /\ Editing(u) /\ \E i \in DOMAIN call[u].copy.sources : call[u].copy.sources[i].title = title
  /\ Saves(u, LAMBDA c : WithoutSource(c, title))

CmdBackendAdd(u, b, tool, type) ==
  /\ Editing(u) /\ (call[u].copy.backends[b] # None => tool \notin call[u].copy.backends[b].tools)
  /\ Saves(u, LAMBDA c : WithBackend(c, b, tool, type))

CmdBackendRemove(u, b, tools) ==
  /\ Editing(u) /\ call[u].copy.backends[b] # None
  /\ tools = Tools \/ \E t \in call[u].copy.backends[b].tools : tools = {t}
  /\ Saves(u, LAMBDA c : WithoutBackend(c, b, tools))

\* An install is led to its source; what was fetched for it stays.
Install(u) ==
  LET c == call[u].copy  a == call[u].arg  took == ResolveInstallSource(c, a) IN
  /\ call[u].pc = "install"
  /\ \/ /\ call' = [call EXCEPT ![u].pc = "done", ![u].took = took]
        /\ \E some \in SUBSET ToSet(c.registries) : clones' = clones \union some
                                                      \union (IF took # Refused THEN {took.from} \intersect (Urls \ LocalUrls) ELSE {})
        /\ UNCHANGED troubles
     \/ /\ call' = [call EXCEPT ![u].pc = "done", ![u].took = Offline]
        /\ troubles < MaxTroubles /\ troubles' = troubles + 1 /\ UNCHANGED clones
  /\ UNCHANGED <<config, world, word, crossed, calls>>

\* A registry that cannot be fetched or read ends the search.
Search(u) ==
  LET c == call[u].copy IN
  /\ call[u].pc = "search"
  /\ \/ /\ c.registries = <<>> \/ Readable(c)
        /\ call' = [call EXCEPT ![u].pc = "done", ![u].found = UnifiedSearch(c)]
        /\ clones' = clones \union ToSet(c.registries)
     \/ /\ c.registries # <<>>
        /\ call' = [call EXCEPT ![u] = Resting]
        /\ \E some \in SUBSET ToSet(c.registries) : clones' = clones \union some
  /\ UNCHANGED <<config, world, word, crossed, calls, troubles>>

\* ynh registry update, and a list of the registries with their names: one that
\* fails is passed over.
RegistryUpdate(u) ==
  /\ call[u].pc = "refresh"
  /\ \E some \in SUBSET ToSet(call[u].copy.registries) : clones' = clones \union some
  /\ call' = [call EXCEPT ![u] = Resting]
  /\ UNCHANGED <<config, world, word, crossed, calls, troubles>>

\* The user writes the file, as one does to allow sources, or must to repair it.
EditByHand ==
  /\ calls < MaxCalls /\ calls' = calls + 1
  /\ config' \in Written /\ word' = config' /\ crossed' = FALSE
  /\ call' = [u \in Users |-> [call[u] EXCEPT !.stale = TRUE]]
  /\ UNCHANGED <<world, clones, troubles>>

SettingsInit ==
  /\ config \in Written \union {Absent} /\ word = config
  /\ world \in Worlds /\ clones = {}
  /\ call = [u \in Users |-> Resting]
  /\ crossed = FALSE /\ calls = 0 /\ troubles = 0

EditConfig(u) ==
  \/ \E url \in Urls : CmdRegistryAdd(u, url) \/ CmdRegistryRemove(u, url)
  \/ \E title \in Titles : CmdSourcesRemove(u, title) \/ \E dir \in Dirs : CmdSourcesAdd(u, [ title |-> title, dir |-> dir ])
  \/ \E b \in Backends : \/ \E tool \in Tools, type \in Types \union {None} : CmdBackendAdd(u, b, tool, type)
                         \/ \E tools \in SUBSET Tools : CmdBackendRemove(u, b, tools)

SettingsNext ==
  \/ EditByHand
  \/ \E u \in Users :
       \/ \E pc \in {"edit", "search", "refresh"} : BeginCall(u, pc, None)
       \/ \E a \in Asked : BeginCall(u, "install", a)
       \/ BeginInit(u) \/ CmdInit(u) \/ RefuseCall(u) \/ EditConfig(u) \/ PurgeClones(u)
       \/ Install(u) \/ Search(u) \/ RegistryUpdate(u)

SettingsSpec == SettingsInit /\ [][SettingsNext]_settingsVars
-----------------------------------------------------------------------------
(* Properties *)

WellFormed(c) ==
  /\ \A i, j \in DOMAIN c.registries : c.registries[i] = c.registries[j] => i = j
  /\ \A i, j \in DOMAIN c.sources : c.sources[i].title = c.sources[j].title => i = j
  /\ \A b \in Backends : c.backends[b] # None => c.backends[b].tools # {}

\* Whatever commands and edits by hand overlap, fail or are killed, a file that
\* can be read has each registry and each title once and no backend without a
\* tool, if every edit by hand did; and it is what the commands one after
\* another make of the last such edit, unless one has saved a copy of a file
\* that was another by then.
SettingsHold ==
  config \notin {Absent, Torn} =>
    /\ (\A c \in Written : WellFormed(c)) => WellFormed(config)
    /\ ~crossed => config = word

\* A pattern fits a path if the path can be cut into one piece for each segment
\* of the pattern: one segment that is the same, any one, or any number.
Aligned(p, path) ==
  \E cut \in [1..(Len(p) + 1) -> 1..(Len(path) + 1)] :
    /\ cut[1] = 1 /\ cut[Len(p) + 1] = Len(path) + 1
    /\ \A i \in 1..Len(p) :
         IF p[i] = AnyDepth THEN cut[i] <= cut[i + 1]
         ELSE cut[i + 1] = cut[i] + 1 /\ p[i] \in {AnyOne, path[cut[i]]}

Allows(c, url) == c.allowed = None \/ \E p \in c.allowed : Aligned(p, Spelled[url])

\* The entries of a name, by registry and place.
Listing(c, name) ==
  { at \in UNION { {i} \X DOMAIN world.index[c.registries[i]] : i \in DOMAIN c.registries } : Same(EntryAt(c, at).name, name) }

\* The harnesses of a name in the user's directories, by source and place.
InSources(c, name) ==
  { at \in UNION { {i} \X DOMAIN world.dirs[c.sources[i].dir] : i \in DOMAIN c.sources } :
      HarnessAt(c, at).depth <= 2 /\ Same(HarnessAt(c, at).name, name) }

\* ynh install takes what its argument means: a plain name, the first harness of
\* it in the sources, or else the one entry of it in all registries, never one of
\* several; a qualified one, an entry of a registry of that label; an id, a
\* harness of that very name in the repository it spells. A clone is made of
\* nothing but what a pattern aligns with.
InstallsWhatIsMeant ==
  /\ \A u \in Users :
       LET c == call[u].copy  a == call[u].arg  t == call[u].took
           Is(e) == (\E k \in InFolder(world.repos[e.repo][t.ref], e.path) : world.repos[e.repo][t.ref][k].name = t.name)
                      /\ <<t.from, t.path>> = <<e.repo, e.path>> /\ (e.repo \notin LocalUrls => t.ref = e.ref)
       IN call[u].pc = "done" /\ t \notin {None, Refused, Offline} =>
            /\ t.from \in Urls \ LocalUrls => Allows(c, t.from)
            /\ a.kind = "name" =>
                 IF InSources(c, a.name) # {}
                 THEN \E at \in InSources(c, a.name) :
                        /\ \A other \in InSources(c, a.name) : Before(at, other)
                        /\ <<t.from, t.path, t.name>> = <<c.sources[at[1]].dir, HarnessAt(c, at).path, HarnessAt(c, at).name>>
                 ELSE \E at \in Listing(c, a.name) : Listing(c, a.name) = {at} /\ Is(EntryAt(c, at))
            /\ a.kind = "qualified" =>
                 \E at \in Listing(c, a.name) : a.label \in Carries[c.registries[at[1]]] /\ Is(EntryAt(c, at))
            /\ a.kind = "id" => t.id = <<a.slug, a.name>> /\ t.from = Https[a.slug]
  /\ config \notin {Absent, Torn} => \A url \in Urls : CheckSource(config, url) <=> Allows(config, url)

\* What ynh search shows, given to ynh install as it stands, is installed with
\* the name and the id that were shown, or not at all. It is installed if it was
\* found in a directory; and it is what the registry lists if the id spells the
\* URL of its repository, the entry has no pin, its repository has the name once,
\* where the entry says, and its URL is allowed.
SearchedInstalls ==
  \A u \in Users : \A r \in call[u].found :
    LET t == ResolveInstallSource(call[u].copy, r.install)  entry == r.entry IN
    /\ t # Refused => t.name = r.name /\ t.id = r.id
    /\ entry = None => t # Refused /\ t.from = r.dir
    /\ entry # None =>
         LET tree == world.repos[entry.repo][Tip]
             lone == \E k \in Discover(tree, 4) :
                       tree[k].path = entry.path /\ \A j \in Discover(tree, 4) : tree[j].name = entry.name <=> j = k
             spelled == r.id[1] \in Slugs /\ entry.repo = Https[r.id[1]]
         IN spelled /\ entry.ref = Tip /\ ~entry.moved /\ lone /\ Allows(call[u].copy, entry.repo)
              => t # Refused /\ t = TakeEntry(call[u].copy, entry)

\* A harness looked up by a name, a label or an id is the one that was meant, and
\* the one that was shown.
LookupsHold == InstallsWhatIsMeant /\ SearchedInstalls

\* What sourcecheck.go says of an empty list, that it denies every source: no
\* command makes another policy of it.
PolicyKept ==
  [][ calls' = calls /\ ~crossed' /\ {config, config'} \intersect {Absent, Torn} = {}
        => config'.allowed = config.allowed ]_settingsVars

\* What search.go says of the install key, that it is a complete argument to ynh
\* install: what is listed can be installed.
ShownInstalls ==
  \A u \in Users : \A r \in call[u].found :
    r.entry # None /\ TakeEntry(call[u].copy, r.entry) # Refused
      => ResolveInstallSource(call[u].copy, r.install) = TakeEntry(call[u].copy, r.entry)
=============================================================================
