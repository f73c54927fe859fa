---------------------------- MODULE MCMarketplace ----------------------------
\* Builds into a directory; and config.json, what is installed and searched through it, and
\* every pattern of up to three segments.
EXTENDS Marketplace, Settings

CONSTANTS h, g, x, hn, gn, xn, f, e, vend, wend, u1, u2, web, ssh, dir, slug, host, org, team,
          word1, Word1, sub, tag, own1, lib, sdk, cli

VARIABLE part   \* which this behaviour is about

KindDef == [s \in Sources |-> IF s = x THEN "plugin" ELSE "harness"]
NameOfDef == [s \in Sources |-> CASE s = h -> hn [] s = g -> gn [] s = x -> xn]
TreesDef == [s \in Sources |-> [v \in 1..MaxVersion |-> (IF v = 1 THEN {f, e} ELSE {f}) \union (IF s = x THEN {} ELSE {Manifest})]]
ConfigsDef == { <<h, x>>, <<x>>, <<h, g>> }

MCSlug == [u \in Urls |-> IF u = dir THEN NoSlug ELSE slug]
MCHttps == [s \in Slugs |-> web]
MCPrefix == [u \in Urls |-> IF u = dir THEN dir ELSE slug]
MCCarries == [u \in Urls |-> IF u = dir THEN {team} ELSE {team, org}]
MCSpelled == [u \in Urls |-> IF u = dir THEN <<org>> ELSE IF u = ssh THEN <<host, org, org>> ELSE <<host, org>>]
MCFold == [w \in Words |-> word1]

At(path, name, depth) == [ path |-> path, name |-> name, depth |-> depth ]
Lists(name, repo, path, ref, moved) == [ name |-> name, repo |-> repo, path |-> path, ref |-> ref, moved |-> moved ]
Holding(web1, ssh1, dir1, own2, webs, sshs, dirs1) ==
  [ repos |-> [u \in Urls |-> [r \in Refs \union {Tip} |-> CASE u = web -> web1 [] u = ssh -> ssh1 [] u = dir -> dir1]],
    dirs |-> [d \in Dirs |-> own2],
    index |-> [u \in Urls |-> CASE u = web -> webs [] u = ssh -> sshs [] u = dir -> dirs1] ]

\* A repository with namesakes, one of them in another case; a name that two registries list;
\* a registry that cannot be read.
MCWorlds ==
  { Holding(<<At(Root, word1, 0)>>, <<At(sub, Word1, 1)>>, <<At(sub, word1, 1)>>, <<At(sub, Word1, 1), At(Root, word1, 2)>>,
            <<Lists(word1, web, Root, Tip, FALSE)>>, <<Lists(Word1, ssh, sub, tag, FALSE)>>, <<Lists(word1, dir, sub, tag, TRUE)>>),
    Holding(<<At(sub, Word1, 1), At(Root, word1, 2)>>, <<>>, <<>>, <<At(sub, word1, 3)>>,
            <<Lists(Word1, web, sub, Tip, FALSE), Lists(word1, web, Root, tag, FALSE)>>, <<Lists(word1, web, Root, tag, TRUE)>>, None) }

MCWritten ==
  { [Default EXCEPT !.registries = <<web>>, !.allowed = {<<host, AnyDepth>>}],
    [Default EXCEPT !.registries = <<web, dir>>, !.sources = <<[ title |-> own1, dir |-> lib ]>>, !.allowed = {}] }

MCAsked ==
  { [ kind |-> "dir", dir |-> lib, path |-> sub ], [ kind |-> "url", url |-> ssh ],
    [ kind |-> "qualified", name |-> word1, label |-> org ], [ kind |-> "localId" ],
    [ kind |-> "id", slug |-> slug, name |-> Word1 ], [ kind |-> "subpath", slug |-> slug, path |-> sub ],
    [ kind |-> "name", name |-> word1 ] }

Policies == UNION { [1..n -> Segments \union {AnyOne, AnyDepth}] : n \in 1..3 }

\* What a behaviour is not about is in one state.
BothInit ==
  /\ part \in {"market", "settings", "policy"}
  /\ Init /\ (part # "market" => git = "none" /\ own)
  /\ IF part = "settings" THEN SettingsInit
     ELSE /\ IF part = "market" THEN config = Default ELSE \E p \in Policies : config = [Default EXCEPT !.allowed = {p}]
          /\ word = config /\ world = (CHOOSE w \in Worlds : TRUE) /\ clones = {} /\ call = [u \in Users |-> Resting]
          /\ crossed = FALSE /\ calls = 0 /\ troubles = 0
BothNext == part' = part /\ \/ part = "market" /\ Next /\ UNCHANGED settingsVars
                            \/ part = "settings" /\ SettingsNext /\ UNCHANGED vars
BothSpec == BothInit /\ [][BothNext]_<<vars, settingsVars, part>>
=============================================================================
