--------------------------- MODULE RepoCacheProofs ---------------------------
(* Theorems about RepoCache, for any processes, entries, commits and bounds:    *)
(* what EnsureRepo delivers, however its calls interleave with purges, loads    *)
(* and pushes, fail and die; and what two calls in a row mend.                  *)
EXTENDS RepoCache, TLAPS

\* What the ref of a call names now it has named during the call, and so it is with
\* what was fetched, or checked out since.
TipsOf(p) ==
  /\ pc[p] \in Working \union {"waiting"} => upstream[call[p]] \in tips[p]
  /\ pc[p] \in {"reset", "clean"} => fetched[p] \in tips[p]
  /\ pc[p] = "clean" /\ dir[call[p]].git = "cloned" => dir[call[p]].head = fetched[p]

\* An entry that somebody is at work on is not yet delivered.
NotYet(p) == pc[p] \in Working => delivered[call[p]] = None

\* What a call that nothing is in the way of has made of its entry d so far, and
\* that it will not fail where the one before it has.
Fits(step, d, sha, struck) ==
  /\ step = "init" => sha /\ d = [Empty EXCEPT !.git = "litter"]
  /\ step = "remote" => sha /\ d = [Empty EXCEPT !.git = "init"]
  /\ step \in {"fetchSHA", "checkoutSHA"} => sha /\ d = [Empty EXCEPT !.git = "origin"]
  /\ step = "clone" => d = [Empty EXCEPT !.git = "origin"] /\ (sha => ~struck)
  /\ step = "fetch" => d.git \notin {"absent", "litter"} /\ (struck => d.git \in {"origin", "cloned"})
  /\ step = "refetch" => d.git \in {"origin", "cloned"} /\ "shallow" \notin d.locks
  /\ step = "reset" => d.git \in {"origin", "cloned"}
  /\ step = "clean" => d.git = "cloned" /\ d.tree = d.head /\ d.manifest \in {"asis", "both"}

Going(p) == pc[p] \in Working /\ calm[p] => Fits(pc[p], dir[call[p]], Tracks[call[p]] = "sha", strikes[call[p]] > 0)

Answered(p) == answer[p] # None /\ answer[p].ok => answer[p].sha \in tips[p]
Delivered(e) == delivered[e] # None => Whole(dir[e]) /\ dir[e].head = delivered[e]

\* An entry whose last call failed is stuck, or gone; and it fails twice only if stuck.
Struck(e) ==
  holder[e] = None /\ strikes[e] > 0 =>
    \/ dir[e].git \in {"origin", "cloned"} /\ Stuck(e)
    \/ dir[e].git = "absent" /\ strikes[e] = 1

CallsFit == \A p \in Callers : TipsOf(p) /\ NotYet(p) /\ Going(p) /\ Answered(p)
EntriesFit == \A e \in Entries : Delivered(e) /\ Struck(e)

CacheInv == TypeOK /\ CallsFit /\ EntriesFit

LEMMA Nothing ==
  /\ None \notin Callers /\ None \notin Entries /\ None \notin Commits
  /\ Mixed \notin Commits /\ Mixed # None
  /\ MaxCalls \in Nat /\ MaxFaults \in Nat /\ MaxMoves \in Nat
BY CacheAssumption

LEMMA Stages ==
  /\ Working = {"init", "remote", "fetchSHA", "checkoutSHA", "clone", "fetch", "refetch", "reset", "clean"}
  /\ "idle" \notin Working /\ "waiting" \notin Working /\ "purge" \notin Working
BY DEF Working

LEMMA EmptyTyped ==
  /\ Empty \in Directories
  /\ \A g \in {"absent", "litter", "init", "origin", "cloned", "corrupt"} : [Empty EXCEPT !.git = g] \in Directories
  /\ \A c \in Commits : Checkout(c) \in Directories /\ Whole(Checkout(c)) /\ Checkout(c).head = c
BY Nothing DEF Empty, Checkout, Directories, Whole

\* A step of p at an entry that nobody else is at work on leaves what fits the others.
LEMMA Elsewhere ==
  ASSUME CacheInv, NEW p \in Callers, NEW e \in Entries,
         \A q \in Callers \ {p} : pc[q] \in Working => call[q] # e,
         UNCHANGED <<upstream, tips>>,
         \A q \in Callers \ {p} : /\ pc'[q] = pc[q] /\ call'[q] = call[q] /\ fetched'[q] = fetched[q]
                                  /\ answer'[q] = answer[q] /\ calm'[q] = calm[q],
         \A f \in Entries \ {e} : /\ dir'[f] = dir[f] /\ delivered'[f] = delivered[f]
                                  /\ strikes'[f] = strikes[f] /\ holder'[f] = holder[f]
  PROVE  /\ \A q \in Callers \ {p} : (TipsOf(q) /\ NotYet(q) /\ Going(q) /\ Answered(q))'
         /\ \A f \in Entries \ {e} : (Delivered(f) /\ Struck(f))'
<1>1. ASSUME NEW q \in Callers \ {p} PROVE (TipsOf(q) /\ NotYet(q) /\ Going(q) /\ Answered(q))'
  <2>1. TipsOf(q) /\ NotYet(q) /\ Going(q) /\ Answered(q)
    BY DEF CacheInv, CallsFit
  <2>2. pc[q] \in Working => call[q] \in Entries \ {e}
    BY Stages DEF CacheInv, TypeOK, LocksAreHeld, CallTypes
  <2>3. TipsOf(q)'
    BY <2>1, <2>2, Stages DEF TipsOf
  <2>4. NotYet(q)'
    BY <2>1, <2>2 DEF NotYet
  <2>5. Going(q)'
    BY <2>1, <2>2 DEF Going
  <2>6. Answered(q)'
    BY <2>1 DEF Answered
  <2> QED BY <2>3, <2>4, <2>5, <2>6
<1>2. ASSUME NEW f \in Entries \ {e} PROVE (Delivered(f) /\ Struck(f))'
  BY DEF CacheInv, EntriesFit, Delivered, Struck, Stuck
<1> QED BY <1>1, <1>2

LEMMA AtWork ==
  ASSUME TypeOK, NEW p \in Callers, pc[p] \in Working
  PROVE  /\ call[p] \in Entries /\ holder[call[p]] = p
         /\ \A q \in Callers \ {p} : pc[q] \in Working => call[q] # call[p]
BY Stages DEF TypeOK, LocksAreHeld, CallTypes

\* The process goes on from one command to another.
LEMMA Works ==
  ASSUME CacheInv, NEW p \in Callers, pc[p] \in Working, NEW e \in Entries, call[p] = e, NEW next \in Working,
         pc' = [pc EXCEPT ![p] = next],
         UNCHANGED <<upstream, holder, call, answer, tips, delivered, kept, strikes, begun, moves>>,
         NEW d \in Directories, dir' = [dir EXCEPT ![e] = d],
         fetched' \in [Callers -> Commits \union {None}], before' \in [Callers -> Commits \union {None}],
         calm' \in [Callers -> BOOLEAN], faults' \in 0..MaxFaults,
         \A q \in Callers \ {p} : fetched'[q] = fetched[q] /\ calm'[q] = calm[q],
         next \in {"reset", "clean"} => fetched'[p] \in tips[p],
         next = "clean" => d.head = fetched'[p],
         calm'[p] => Fits(next, d, Tracks[e] = "sha", strikes[e] > 0)
  PROVE  CacheInv'
<1>1. holder[e] = p /\ \A q \in Callers \ {p} : pc[q] \in Working => call[q] # e
  BY AtWork DEF CacheInv
<1>2. TypeOK'
  <2>1. CacheTypes'
    BY <1>1 DEF CacheInv, TypeOK, CacheTypes
  <2>2. CallTypes'
    BY Stages DEF CacheInv, TypeOK, CallTypes
  <2>3. HistoryTypes'
    BY DEF CacheInv, TypeOK, HistoryTypes
  <2>4. LocksAreHeld'
    BY <1>1, Stages DEF CacheInv, TypeOK, LocksAreHeld, CallTypes
  <2> QED BY <2>1, <2>2, <2>3, <2>4 DEF TypeOK
<1>3. \A f \in Entries \ {e} : dir'[f] = dir[f]
  BY DEF CacheInv, TypeOK, CacheTypes
<1>4. dir'[e] = d /\ pc'[p] = next
  BY <1>1 DEF CacheInv, TypeOK, CacheTypes, CallTypes
<1>5. \A q \in Callers \ {p} : pc'[q] = pc[q]
  BY DEF CacheInv, TypeOK, CallTypes
<1>6. /\ \A q \in Callers \ {p} : (TipsOf(q) /\ NotYet(q) /\ Going(q) /\ Answered(q))'
      /\ \A f \in Entries \ {e} : (Delivered(f) /\ Struck(f))'
  BY <1>1, <1>3, <1>5, Elsewhere
<1>7. TipsOf(p)'
  <2>1. upstream[e] \in tips[p]
    BY DEF CacheInv, CallsFit, TipsOf
  <2> QED BY <1>4, <2>1 DEF TipsOf
<1>8. NotYet(p)' /\ Answered(p)'
  BY DEF CacheInv, CallsFit, NotYet, Answered
<1>9. Going(p)'
  BY <1>4 DEF Going
<1>10. Delivered(e)' /\ Struck(e)'
  <2>1. delivered[e] = None /\ holder[e] # None
    BY <1>1, Nothing DEF CacheInv, CallsFit, NotYet
  <2> QED BY <2>1 DEF Delivered, Struck
<1> QED BY <1>2, <1>6, <1>7, <1>8, <1>9, <1>10 DEF CacheInv, CallsFit, EntriesFit

\* A call ends: with a whole entry of its ref, or with one that will not fail again
\* unless it is stuck.
LEMMA Answers ==
  ASSUME CacheInv, NEW p \in Callers, pc[p] \in Working, NEW e \in Entries, call[p] = e, NEW ok \in BOOLEAN, Answer(p, ok),
         UNCHANGED <<upstream, tips, begun, moves>>,
         NEW d \in Directories, dir' = [dir EXCEPT ![e] = d],
         calm' \in [Callers -> BOOLEAN], faults' \in 0..MaxFaults,
         \A q \in Callers \ {p} : calm'[q] = calm[q],
         ok => d.head \in tips[p],
         ok /\ calm'[p] => Whole(d),
         ~ok /\ calm'[p] => \/ d.git \in {"origin", "cloned"} /\ Stuck(e)'
                            \/ d.git = "absent" /\ strikes[e] = 0
  PROVE  CacheInv'
<1>1. holder[e] = p /\ \A q \in Callers \ {p} : pc[q] \in Working => call[q] # e
  BY AtWork DEF CacheInv
<1>2. /\ dir'[e] = d /\ \A f \in Entries \ {e} : dir'[f] = dir[f]
  BY <1>1 DEF CacheInv, TypeOK, CacheTypes
<1>3. /\ pc'[p] = "idle" /\ call'[p] = None /\ fetched'[p] = None
      /\ \A q \in Callers \ {p} : /\ pc'[q] = pc[q] /\ call'[q] = call[q] /\ fetched'[q] = fetched[q]
                                  /\ answer'[q] = answer[q]
  BY DEF Answer, CacheInv, TypeOK, CallTypes
<1>4. /\ holder' = [holder EXCEPT ![e] = None]
      /\ delivered' = [delivered EXCEPT ![e] = IF ok /\ calm'[p] THEN d.head ELSE None]
      /\ strikes' = [strikes EXCEPT ![e] = IF ~ok /\ calm'[p] THEN strikes[e] + 1 ELSE 0]
      /\ answer' = [answer EXCEPT ![p] = [entry |-> e, ok |-> ok, sha |-> IF ok THEN d.head ELSE None,
                                          changed |-> ok /\ before[p] # d.head]]
      /\ kept' = [kept EXCEPT ![e] = kept[e] \/ (ok /\ calm'[p])]
  BY <1>1, <1>2 DEF Answer, Unlock, CacheInv, TypeOK, CacheTypes
<1>5. d.head \in Commits \union {None}
  BY DEF Directories
<1>6. TypeOK'
  <2>1. CacheTypes'
    BY <1>1, <1>4 DEF CacheInv, TypeOK, CacheTypes
  <2>2. CallTypes'
    <3>1. [entry |-> e, ok |-> ok, sha |-> IF ok THEN d.head ELSE None, changed |-> ok /\ before[p] # d.head]
            \in [entry : Entries, ok : BOOLEAN, sha : Commits \union {None}, changed : BOOLEAN]
      BY <1>1, <1>5
    <3>2. answer' \in [Callers -> {None} \union
             [entry : Entries, ok : BOOLEAN, sha : Commits \union {None}, changed : BOOLEAN]]
      BY <1>4, <3>1 DEF CacheInv, TypeOK, CallTypes
    <3> QED BY <3>2 DEF Answer, CacheInv, TypeOK, CallTypes
  <2>3. HistoryTypes'
    <3>1. delivered' \in [Entries -> Commits \union {None}]
      BY <1>4, <1>5 DEF CacheInv, TypeOK, HistoryTypes
    <3>2. strikes' \in [Entries -> Nat]
      BY <1>1, <1>4 DEF CacheInv, TypeOK, HistoryTypes
    <3>3. kept' \in [Entries -> BOOLEAN]
      BY <1>4 DEF CacheInv, TypeOK, HistoryTypes
    <3> QED BY <3>1, <3>2, <3>3 DEF CacheInv, TypeOK, HistoryTypes
  <2>4. LocksAreHeld'
    <3>1. \A q \in Callers : call'[q] = None <=> pc'[q] = "idle"
      BY <1>3 DEF CacheInv, TypeOK, LocksAreHeld
    <3>2. ASSUME NEW q \in Callers, NEW f \in Entries PROVE holder'[f] = q <=> call'[q] = f /\ pc'[q] \in Working
      BY <1>1, <1>3, <1>4, Nothing, Stages DEF CacheInv, TypeOK, LocksAreHeld, CacheTypes
    <3> QED BY <3>1, <3>2 DEF LocksAreHeld
  <2> QED BY <2>1, <2>2, <2>3, <2>4 DEF TypeOK
<1>7. \A f \in Entries \ {e} : delivered'[f] = delivered[f] /\ strikes'[f] = strikes[f] /\ holder'[f] = holder[f]
  BY <1>4 DEF CacheInv, TypeOK, HistoryTypes, CacheTypes
<1>8. /\ \A q \in Callers \ {p} : (TipsOf(q) /\ NotYet(q) /\ Going(q) /\ Answered(q))'
      /\ \A f \in Entries \ {e} : (Delivered(f) /\ Struck(f))'
  BY <1>1, <1>2, <1>3, <1>7, Elsewhere
<1>9. TipsOf(p)' /\ NotYet(p)' /\ Going(p)'
  BY <1>3, Stages DEF TipsOf, NotYet, Going
<1>10. Answered(p)'
  <2>1. answer'[p] = [entry |-> e, ok |-> ok, sha |-> IF ok THEN d.head ELSE None, changed |-> ok /\ before[p] # d.head]
    BY <1>4 DEF CacheInv, TypeOK, CallTypes
  <2> QED BY <2>1 DEF Answered
<1>11. Delivered(e)'
  <2>1. delivered'[e] = IF ok /\ calm'[p] THEN d.head ELSE None
    BY <1>1, <1>4 DEF CacheInv, TypeOK, HistoryTypes
  <2> QED BY <2>1, <1>2 DEF Delivered, Whole
<1>12. Struck(e)'
  <2>1. strikes'[e] = IF ~ok /\ calm'[p] THEN strikes[e] + 1 ELSE 0
    BY <1>1, <1>4 DEF CacheInv, TypeOK, HistoryTypes
  <2> QED BY <2>1, <1>2 DEF Struck
<1> QED BY <1>6, <1>8, <1>9, <1>10, <1>11, <1>12 DEF CacheInv, CallsFit, EntriesFit

\* A process gets the lock and begins.
LEMMA Takes ==
  ASSUME CacheInv, NEW p \in Callers, NEW e \in Entries, call[p] = e, Lock(p),
         NEW next \in {"init", "clone", "fetch"}, pc' = [pc EXCEPT ![p] = next],
         NEW d \in Directories, dir' = [dir EXCEPT ![e] = d],
         before' \in [Callers -> Commits \union {None}],
         UNCHANGED <<upstream, call, fetched, answer, tips, calm, kept, strikes, bounds>>,
         Fits(next, d, Tracks[e] = "sha", strikes[e] > 0)
  PROVE  CacheInv'
<1>1. /\ pc[p] = "waiting" /\ holder[e] = None
      /\ holder' = [holder EXCEPT ![e] = p] /\ delivered' = [delivered EXCEPT ![e] = None]
  BY DEF Lock
<1>2. \A q \in Callers \ {p} : pc[q] \in Working => call[q] # e
  BY <1>1, Nothing DEF CacheInv, TypeOK, LocksAreHeld
<1>3. /\ dir'[e] = d /\ \A f \in Entries \ {e} : dir'[f] = dir[f]
      /\ pc'[p] = next /\ \A q \in Callers \ {p} : pc'[q] = pc[q]
      /\ holder'[e] = p /\ \A f \in Entries \ {e} : holder'[f] = holder[f]
      /\ delivered'[e] = None /\ \A f \in Entries \ {e} : delivered'[f] = delivered[f]
  BY <1>1 DEF CacheInv, TypeOK, CacheTypes, CallTypes, HistoryTypes
<1>4. TypeOK'
  <2>1. CacheTypes'
    BY <1>1 DEF CacheInv, TypeOK, CacheTypes
  <2>2. CallTypes'
    BY Stages DEF CacheInv, TypeOK, CallTypes
  <2>3. HistoryTypes'
    BY <1>1 DEF CacheInv, TypeOK, HistoryTypes, bounds
  <2>4. LocksAreHeld'
    <3>1. \A q \in Callers : call'[q] = None <=> pc'[q] = "idle"
      BY <1>1, <1>3, Nothing DEF CacheInv, TypeOK, LocksAreHeld
    <3>2. ASSUME NEW q \in Callers, NEW f \in Entries PROVE holder'[f] = q <=> call'[q] = f /\ pc'[q] \in Working
      <4>1. CASE f = e
        BY <4>1, <1>2, <1>3, Stages
      <4>2. CASE f # e
        BY <4>2, <1>1, <1>3, Stages DEF CacheInv, TypeOK, LocksAreHeld
      <4> QED BY <4>1, <4>2
    <3> QED BY <3>1, <3>2 DEF LocksAreHeld
  <2> QED BY <2>1, <2>2, <2>3, <2>4 DEF TypeOK
<1>5. /\ \A q \in Callers \ {p} : (TipsOf(q) /\ NotYet(q) /\ Going(q) /\ Answered(q))'
      /\ \A f \in Entries \ {e} : (Delivered(f) /\ Struck(f))'
  BY <1>2, <1>3, Elsewhere
<1>6. TipsOf(p)'
  <2>1. upstream[e] \in tips[p]
    BY <1>1 DEF CacheInv, CallsFit, TipsOf
  <2> QED BY <1>3, <2>1 DEF TipsOf
<1>7. NotYet(p)' /\ Going(p)' /\ Answered(p)'
  BY <1>3 DEF NotYet, Going, Answered, CacheInv, CallsFit
<1>8. Delivered(e)' /\ Struck(e)'
  BY <1>3, Nothing DEF Delivered, Struck
<1> QED BY <1>4, <1>5, <1>6, <1>7, <1>8 DEF CacheInv, CallsFit, EntriesFit

LEMMA BeginStep == ASSUME CacheInv, NEW p \in Callers, Begin(p) PROVE CacheInv'
<1>1. PICK e \in Entries : call[p] = e
  BY DEF Begin, Lock, CacheInv, TypeOK, LocksAreHeld, CallTypes
<1>2. before' \in [Callers -> Commits \union {None}]
  BY DEF Begin, CacheInv, TypeOK, CallTypes
<1>3. CASE Tracks[e] = "sha"
  <2>1. Fits("init", [Empty EXCEPT !.git = "litter"], TRUE, strikes[e] > 0)
    BY DEF Fits
  <2> QED BY <1>1, <1>2, <1>3, <2>1, EmptyTyped, Takes DEF Begin
<1>4. CASE Tracks[e] # "sha"
  <2>1. Fits("clone", [Empty EXCEPT !.git = "origin"], FALSE, strikes[e] > 0)
    BY DEF Fits
  <2> QED BY <1>1, <1>2, <1>4, <2>1, EmptyTyped, Takes DEF Begin
<1> QED BY <1>3, <1>4

LEMMA RefreshStep == ASSUME CacheInv, NEW p \in Callers, Refresh(p) PROVE CacheInv'
<1>1. PICK e \in Entries : call[p] = e
  BY DEF Refresh, Lock, CacheInv, TypeOK, LocksAreHeld, CallTypes
<1>2. dir[e] \in Directories /\ dir' = [dir EXCEPT ![e] = dir[e]]
  BY DEF Refresh, CacheInv, TypeOK, CacheTypes
<1>3. before' \in [Callers -> Commits \union {None}]
  BY <1>1, <1>2 DEF Refresh, CacheInv, TypeOK, CallTypes, Directories
<1>4. Fits("fetch", dir[e], Tracks[e] = "sha", strikes[e] > 0)
  <2>1. holder[e] = None /\ Struck(e)
    BY <1>1 DEF Refresh, Lock, CacheInv, EntriesFit
  <2> QED BY <1>1, <2>1 DEF Refresh, HasGit, Struck, Fits
<1> QED BY <1>1, <1>2, <1>3, <1>4, Takes DEF Refresh

\* What is known of a process at work.
LEMMA AtCommand ==
  ASSUME CacheInv, NEW p \in Callers, pc[p] \in Working
  PROVE  \E e \in Entries :
           /\ call[p] = e /\ dir[e] \in Directories /\ upstream[e] \in Commits /\ upstream[e] \in tips[p]
           /\ calm[p] => Fits(pc[p], dir[e], Tracks[e] = "sha", strikes[e] > 0)
           /\ pc[p] \in {"reset", "clean"} => fetched[p] \in tips[p] /\ fetched[p] \in Commits
           /\ pc[p] = "clean" /\ dir[e].git = "cloned" => dir[e].head = fetched[p]
<1>1. call[p] \in Entries
  BY AtWork DEF CacheInv
<1>2. dir[call[p]] \in Directories /\ upstream[call[p]] \in Commits
  BY <1>1 DEF CacheInv, TypeOK, CacheTypes
<1>3. TipsOf(p) /\ Going(p)
  BY DEF CacheInv, CallsFit
<1>4. tips[p] \subseteq Commits
  BY DEF CacheInv, TypeOK, HistoryTypes
<1>5. calm[p] => Fits(pc[p], dir[call[p]], Tracks[call[p]] = "sha", strikes[call[p]] > 0)
  BY <1>3 DEF Going
<1>6. /\ upstream[call[p]] \in tips[p]
      /\ pc[p] \in {"reset", "clean"} => fetched[p] \in tips[p]
      /\ pc[p] = "clean" /\ dir[call[p]].git = "cloned" => dir[call[p]].head = fetched[p]
  BY <1>3 DEF TipsOf
<1> QED BY <1>1, <1>2, <1>4, <1>5, <1>6

LEMMA InitRepoStep == ASSUME CacheInv, NEW p \in Callers, InitRepo(p) PROVE CacheInv'
<1>1. PICK e \in Entries :
        /\ call[p] = e /\ dir[e] \in Directories /\ upstream[e] \in Commits /\ upstream[e] \in tips[p]
        /\ calm[p] => Fits(pc[p], dir[e], Tracks[e] = "sha", strikes[e] > 0)
        /\ pc[p] \in {"reset", "clean"} => fetched[p] \in tips[p] /\ fetched[p] \in Commits
        /\ pc[p] = "clean" /\ dir[e].git = "cloned" => dir[e].head = fetched[p]
  BY AtCommand, Stages DEF InitRepo
<1>2. /\ fetched \in [Callers -> Commits \union {None}] /\ before \in [Callers -> Commits \union {None}]
      /\ calm \in [Callers -> BOOLEAN] /\ faults \in 0..MaxFaults /\ dir \in [Entries -> Directories]
  BY DEF CacheInv, TypeOK, CallTypes, HistoryTypes, CacheTypes
<1> DEFINE d == [dir[e] EXCEPT !.git = "init"]
<1>3. d \in Directories
  BY <1>1, EmptyTyped DEF Directories
<1>4. calm[p] => Fits("remote", d, Tracks[e] = "sha", strikes[e] > 0)
  BY <1>1 DEF Fits, Empty, InitRepo
<1>5. dir' = [dir EXCEPT ![e] = d] /\ pc[p] \in Working
  BY <1>1, <1>2, Stages DEF InitRepo
<1>6. /\ pc' = [pc EXCEPT ![p] = "remote"] /\ "remote" \in Working
      /\ UNCHANGED <<upstream, holder, call, answer, tips, delivered, kept, strikes, begun, moves, before, calm, faults>>
      /\ fetched' = fetched
  BY <1>1, Stages DEF InitRepo, Go, history, bounds
<1>7. /\ fetched' \in [Callers -> Commits \union {None}] /\ \A q \in Callers \ {p} : fetched'[q] = fetched[q]
      /\ "remote" \in {"reset", "clean"} => fetched'[p] \in tips[p]
      /\ "remote" = "clean" => d.head = fetched'[p]
  BY <1>1, <1>2, <1>6
<1> HIDE DEF d
<1> QED BY <1>1, <1>2, <1>3, <1>4, <1>5, <1>6, <1>7, Works

LEMMA AddOriginStep == ASSUME CacheInv, NEW p \in Callers, AddOrigin(p) PROVE CacheInv'
<1>1. PICK e \in Entries :
        /\ call[p] = e /\ dir[e] \in Directories /\ upstream[e] \in Commits /\ upstream[e] \in tips[p]
        /\ calm[p] => Fits(pc[p], dir[e], Tracks[e] = "sha", strikes[e] > 0)
        /\ pc[p] \in {"reset", "clean"} => fetched[p] \in tips[p] /\ fetched[p] \in Commits
        /\ pc[p] = "clean" /\ dir[e].git = "cloned" => dir[e].head = fetched[p]
  BY AtCommand, Stages DEF AddOrigin
<1>2. /\ fetched \in [Callers -> Commits \union {None}] /\ before \in [Callers -> Commits \union {None}]
      /\ calm \in [Callers -> BOOLEAN] /\ faults \in 0..MaxFaults /\ dir \in [Entries -> Directories]
  BY DEF CacheInv, TypeOK, CallTypes, HistoryTypes, CacheTypes
<1> DEFINE d == [dir[e] EXCEPT !.git = "origin"]
<1>3. d \in Directories
  BY <1>1, EmptyTyped DEF Directories
<1>4. calm[p] => Fits("fetchSHA", d, Tracks[e] = "sha", strikes[e] > 0)
  BY <1>1 DEF Fits, Empty, AddOrigin
<1>5. dir' = [dir EXCEPT ![e] = d] /\ pc[p] \in Working
  BY <1>1, <1>2, Stages DEF AddOrigin
<1>6. /\ pc' = [pc EXCEPT ![p] = "fetchSHA"] /\ "fetchSHA" \in Working
      /\ UNCHANGED <<upstream, holder, call, answer, tips, delivered, kept, strikes, begun, moves, before, calm, faults>>
      /\ fetched' = fetched
  BY <1>1, Stages DEF AddOrigin, Go, history, bounds
<1>7. /\ fetched' \in [Callers -> Commits \union {None}] /\ \A q \in Callers \ {p} : fetched'[q] = fetched[q]
      /\ "fetchSHA" \in {"reset", "clean"} => fetched'[p] \in tips[p]
      /\ "fetchSHA" = "clean" => d.head = fetched'[p]
  BY <1>1, <1>2, <1>6
<1> HIDE DEF d
<1> QED BY <1>1, <1>2, <1>3, <1>4, <1>5, <1>6, <1>7, Works

LEMMA FetchSHAStep == ASSUME CacheInv, NEW p \in Callers, FetchSHA(p) PROVE CacheInv'
<1>1. PICK e \in Entries :
        /\ call[p] = e /\ dir[e] \in Directories /\ upstream[e] \in Commits /\ upstream[e] \in tips[p]
        /\ calm[p] => Fits(pc[p], dir[e], Tracks[e] = "sha", strikes[e] > 0)
        /\ pc[p] \in {"reset", "clean"} => fetched[p] \in tips[p] /\ fetched[p] \in Commits
        /\ pc[p] = "clean" /\ dir[e].git = "cloned" => dir[e].head = fetched[p]
  BY AtCommand, Stages DEF FetchSHA
<1>2. /\ fetched \in [Callers -> Commits \union {None}] /\ before \in [Callers -> Commits \union {None}]
      /\ calm \in [Callers -> BOOLEAN] /\ faults \in 0..MaxFaults /\ dir \in [Entries -> Directories]
  BY DEF CacheInv, TypeOK, CallTypes, HistoryTypes, CacheTypes
<1> DEFINE d == dir[e]
<1>3. d \in Directories
  BY <1>1, EmptyTyped DEF Directories
<1>4. calm[p] => Fits("checkoutSHA", d, Tracks[e] = "sha", strikes[e] > 0)
  BY <1>1 DEF Fits, Empty, FetchSHA
<1>5. dir' = [dir EXCEPT ![e] = d] /\ pc[p] \in Working
  BY <1>1, <1>2, Stages DEF FetchSHA
<1>6. /\ pc' = [pc EXCEPT ![p] = "checkoutSHA"] /\ "checkoutSHA" \in Working
      /\ UNCHANGED <<upstream, holder, call, answer, tips, delivered, kept, strikes, begun, moves, before, calm, faults>>
      /\ fetched' = fetched
  BY <1>1, Stages DEF FetchSHA, Go, history, bounds
<1>7. /\ fetched' \in [Callers -> Commits \union {None}] /\ \A q \in Callers \ {p} : fetched'[q] = fetched[q]
      /\ "checkoutSHA" \in {"reset", "clean"} => fetched'[p] \in tips[p]
      /\ "checkoutSHA" = "clean" => d.head = fetched'[p]
  BY <1>1, <1>2, <1>6
<1> HIDE DEF d
<1> QED BY <1>1, <1>2, <1>3, <1>4, <1>5, <1>6, <1>7, Works

LEMMA FetchStep == ASSUME CacheInv, NEW p \in Callers, Fetch(p) PROVE CacheInv'
<1>1. PICK e \in Entries :
        /\ call[p] = e /\ dir[e] \in Directories /\ upstream[e] \in Commits /\ upstream[e] \in tips[p]
        /\ calm[p] => Fits(pc[p], dir[e], Tracks[e] = "sha", strikes[e] > 0)
        /\ pc[p] \in {"reset", "clean"} => fetched[p] \in tips[p] /\ fetched[p] \in Commits
        /\ pc[p] = "clean" /\ dir[e].git = "cloned" => dir[e].head = fetched[p]
  BY AtCommand, Stages DEF Fetch
<1>2. /\ fetched \in [Callers -> Commits \union {None}] /\ before \in [Callers -> Commits \union {None}]
      /\ calm \in [Callers -> BOOLEAN] /\ faults \in 0..MaxFaults /\ dir \in [Entries -> Directories]
  BY DEF CacheInv, TypeOK, CallTypes, HistoryTypes, CacheTypes
<1> DEFINE d == dir[e]
<1>3. d \in Directories
  BY <1>1, EmptyTyped DEF Directories
<1>4. calm[p] => Fits("reset", d, Tracks[e] = "sha", strikes[e] > 0)
  BY <1>1 DEF Fits, Empty, Fetch, Fetches
<1>5. dir' = [dir EXCEPT ![e] = d] /\ pc[p] \in Working
  BY <1>1, <1>2, Stages DEF Fetch
<1>6. /\ pc' = [pc EXCEPT ![p] = "reset"] /\ "reset" \in Working
      /\ UNCHANGED <<upstream, holder, call, answer, tips, delivered, kept, strikes, begun, moves, before, calm, faults>>
      /\ fetched' = [fetched EXCEPT ![p] = upstream[e]]
  BY <1>1, Stages DEF Fetch, Go, history, bounds
<1>7. /\ fetched' \in [Callers -> Commits \union {None}] /\ \A q \in Callers \ {p} : fetched'[q] = fetched[q]
      /\ "reset" \in {"reset", "clean"} => fetched'[p] \in tips[p]
      /\ "reset" = "clean" => d.head = fetched'[p]
  BY <1>1, <1>2, <1>6
<1> HIDE DEF d
<1> QED BY <1>1, <1>2, <1>3, <1>4, <1>5, <1>6, <1>7, Works

LEMMA ClearLocksStep == ASSUME CacheInv, NEW p \in Callers, ClearLocks(p) PROVE CacheInv'
<1>1. PICK e \in Entries :
        /\ call[p] = e /\ dir[e] \in Directories /\ upstream[e] \in Commits /\ upstream[e] \in tips[p]
        /\ calm[p] => Fits(pc[p], dir[e], Tracks[e] = "sha", strikes[e] > 0)
        /\ pc[p] \in {"reset", "clean"} => fetched[p] \in tips[p] /\ fetched[p] \in Commits
        /\ pc[p] = "clean" /\ dir[e].git = "cloned" => dir[e].head = fetched[p]
  BY AtCommand, Stages DEF ClearLocks
<1>2. /\ fetched \in [Callers -> Commits \union {None}] /\ before \in [Callers -> Commits \union {None}]
      /\ calm \in [Callers -> BOOLEAN] /\ faults \in 0..MaxFaults /\ dir \in [Entries -> Directories]
  BY DEF CacheInv, TypeOK, CallTypes, HistoryTypes, CacheTypes
<1> DEFINE d == [dir[e] EXCEPT !.locks = {}]
<1>3. d \in Directories
  BY <1>1, EmptyTyped DEF Directories
<1>4. calm[p] => Fits("refetch", d, Tracks[e] = "sha", strikes[e] > 0)
  BY <1>1 DEF Fits, Empty, ClearLocks
<1>5. dir' = [dir EXCEPT ![e] = d] /\ pc[p] \in Working
  BY <1>1, <1>2, Stages DEF ClearLocks
<1>6. /\ pc' = [pc EXCEPT ![p] = "refetch"] /\ "refetch" \in Working
      /\ UNCHANGED <<upstream, holder, call, answer, tips, delivered, kept, strikes, begun, moves, before, calm, faults>>
      /\ fetched' = fetched
  BY <1>1, Stages DEF ClearLocks, Go, history, bounds
<1>7. /\ fetched' \in [Callers -> Commits \union {None}] /\ \A q \in Callers \ {p} : fetched'[q] = fetched[q]
      /\ "refetch" \in {"reset", "clean"} => fetched'[p] \in tips[p]
      /\ "refetch" = "clean" => d.head = fetched'[p]
  BY <1>1, <1>2, <1>6
<1> HIDE DEF d
<1> QED BY <1>1, <1>2, <1>3, <1>4, <1>5, <1>6, <1>7, Works

LEMMA ResetStep == ASSUME CacheInv, NEW p \in Callers, Reset(p) PROVE CacheInv'
<1>1. PICK e \in Entries :
        /\ call[p] = e /\ dir[e] \in Directories /\ upstream[e] \in Commits /\ upstream[e] \in tips[p]
        /\ calm[p] => Fits(pc[p], dir[e], Tracks[e] = "sha", strikes[e] > 0)
        /\ pc[p] \in {"reset", "clean"} => fetched[p] \in tips[p] /\ fetched[p] \in Commits
        /\ pc[p] = "clean" /\ dir[e].git = "cloned" => dir[e].head = fetched[p]
  BY AtCommand, Stages DEF Reset
<1>2. /\ fetched \in [Callers -> Commits \union {None}] /\ before \in [Callers -> Commits \union {None}]
      /\ calm \in [Callers -> BOOLEAN] /\ faults \in 0..MaxFaults /\ dir \in [Entries -> Directories]
  BY DEF CacheInv, TypeOK, CallTypes, HistoryTypes, CacheTypes
<1> DEFINE d == [Checkout(fetched[p]) EXCEPT !.remoteHead = dir[e].remoteHead, !.locks = dir[e].locks,
                 !.manifest = IF dir[e].manifest \in {"moved", "both"} THEN "both" ELSE "asis"]
<1>3. d \in Directories
  BY <1>1 DEF Directories, Checkout, Reset
<1>4. calm[p] => Fits("clean", d, Tracks[e] = "sha", strikes[e] > 0)
  BY <1>1 DEF Fits, Empty, Reset, Checkout
<1>5. dir' = [dir EXCEPT ![e] = d] /\ pc[p] \in Working
  BY <1>1, <1>2, Stages DEF Reset
<1>6. /\ pc' = [pc EXCEPT ![p] = "clean"] /\ "clean" \in Working
      /\ UNCHANGED <<upstream, holder, call, answer, tips, delivered, kept, strikes, begun, moves, before, calm, faults>>
      /\ fetched' = fetched
  BY <1>1, Stages DEF Reset, Go, history, bounds
<1>7. /\ fetched' \in [Callers -> Commits \union {None}] /\ \A q \in Callers \ {p} : fetched'[q] = fetched[q]
      /\ "clean" \in {"reset", "clean"} => fetched'[p] \in tips[p]
      /\ "clean" = "clean" => d.head = fetched'[p]
  BY <1>1, <1>2, <1>6 DEF Reset, Checkout
<1> HIDE DEF d
<1> QED BY <1>1, <1>2, <1>3, <1>4, <1>5, <1>6, <1>7, Works

\* The entry is removed to be cloned again.
LEMMA RecloneStep ==
  ASSUME CacheInv, NEW p \in Callers, pc[p] \in {"fetch", "refetch"}, Reclone(p),
         calm' \in [Callers -> BOOLEAN], faults' \in 0..MaxFaults,
         \A q \in Callers \ {p} : calm'[q] = calm[q],
         calm'[p] => calm[p] /\ dir[call[p]].git \notin {"origin", "cloned"}
  PROVE  CacheInv'
<1>1. PICK e \in Entries :
        /\ call[p] = e /\ dir[e] \in Directories /\ upstream[e] \in Commits /\ upstream[e] \in tips[p]
        /\ calm[p] => Fits(pc[p], dir[e], Tracks[e] = "sha", strikes[e] > 0)
        /\ pc[p] \in {"reset", "clean"} => fetched[p] \in tips[p] /\ fetched[p] \in Commits
        /\ pc[p] = "clean" /\ dir[e].git = "cloned" => dir[e].head = fetched[p]
  BY AtCommand, Stages
<1>2. /\ fetched \in [Callers -> Commits \union {None}] /\ before \in [Callers -> Commits \union {None}]
      /\ calm \in [Callers -> BOOLEAN] /\ faults \in 0..MaxFaults /\ dir \in [Entries -> Directories]
  BY DEF CacheInv, TypeOK, CallTypes, HistoryTypes, CacheTypes
<1> DEFINE d == [Empty EXCEPT !.git = "origin"]
<1>3. d \in Directories
  BY EmptyTyped
<1>4. calm'[p] => Fits("clone", d, Tracks[e] = "sha", strikes[e] > 0)
  BY <1>1 DEF Fits
<1>5. /\ pc' = [pc EXCEPT ![p] = "clone"] /\ "clone" \in Working /\ pc[p] \in Working
      /\ dir' = [dir EXCEPT ![e] = d]
      /\ UNCHANGED <<upstream, holder, call, answer, tips, delivered, kept, strikes, begun, moves, fetched>>
      /\ before' \in [Callers -> Commits \union {None}]
  BY <1>1, <1>2, Stages DEF Reclone
<1>6. holder[e] = p /\ \A q \in Callers \ {p} : pc[q] \in Working => call[q] # e
  BY <1>1, <1>5, AtWork DEF CacheInv
<1>7. /\ dir'[e] = d /\ \A f \in Entries \ {e} : dir'[f] = dir[f]
      /\ pc'[p] = "clone" /\ \A q \in Callers \ {p} : pc'[q] = pc[q]
  BY <1>5 DEF CacheInv, TypeOK, CacheTypes, CallTypes
<1> HIDE DEF d
<1>8. TypeOK'
  <2>1. CacheTypes'
    BY <1>3, <1>5 DEF CacheInv, TypeOK, CacheTypes
  <2>2. CallTypes'
    BY <1>5, Stages DEF CacheInv, TypeOK, CallTypes
  <2>3. HistoryTypes'
    BY <1>5 DEF CacheInv, TypeOK, HistoryTypes
  <2>4. LocksAreHeld'
    BY <1>5, <1>6, <1>7, Stages DEF CacheInv, TypeOK, LocksAreHeld
  <2> QED BY <2>1, <2>2, <2>3, <2>4 DEF TypeOK
<1>9. /\ \A q \in Callers \ {p} : (TipsOf(q) /\ NotYet(q) /\ Going(q) /\ Answered(q))'
      /\ \A f \in Entries \ {e} : (Delivered(f) /\ Struck(f))'
  BY <1>5, <1>6, <1>7, Elsewhere
<1>10. TipsOf(p)' /\ NotYet(p)' /\ Answered(p)'
  BY <1>1, <1>5, <1>7 DEF TipsOf, NotYet, Answered, CacheInv, CallsFit
<1>11. Going(p)'
  BY <1>1, <1>4, <1>5, <1>7 DEF Going
<1>12. Delivered(e)' /\ Struck(e)'
  <2>1. delivered[e] = None /\ holder[e] # None
    BY <1>1, <1>5, <1>6, Nothing DEF CacheInv, CallsFit, NotYet
  <2> QED BY <1>5, <2>1 DEF Delivered, Struck
<1> QED BY <1>8, <1>9, <1>10, <1>11, <1>12 DEF CacheInv, CallsFit, EntriesFit

LEMMA CannotFetchStep == ASSUME CacheInv, NEW p \in Callers, CannotFetch(p) PROVE CacheInv'
<1>1. calm \in [Callers -> BOOLEAN] /\ faults \in 0..MaxFaults
  BY DEF CacheInv, TypeOK, HistoryTypes
<1> QED BY <1>1, RecloneStep DEF CannotFetch

LEMMA CheckoutSHAStep == ASSUME CacheInv, NEW p \in Callers, CheckoutSHA(p) PROVE CacheInv'
<1>1. PICK e \in Entries :
        /\ call[p] = e /\ dir[e] \in Directories /\ upstream[e] \in Commits /\ upstream[e] \in tips[p]
        /\ calm[p] => Fits(pc[p], dir[e], Tracks[e] = "sha", strikes[e] > 0)
        /\ pc[p] \in {"reset", "clean"} => fetched[p] \in tips[p] /\ fetched[p] \in Commits
        /\ pc[p] = "clean" /\ dir[e].git = "cloned" => dir[e].head = fetched[p]
  BY AtCommand, Stages DEF CheckoutSHA
<1>2. /\ fetched \in [Callers -> Commits \union {None}] /\ before \in [Callers -> Commits \union {None}]
      /\ calm \in [Callers -> BOOLEAN] /\ faults \in 0..MaxFaults /\ dir \in [Entries -> Directories]
  BY DEF CacheInv, TypeOK, CallTypes, HistoryTypes, CacheTypes
<1> DEFINE d == [Checkout(upstream[e]) EXCEPT !.remoteHead = FALSE]
<1>3. d \in Directories
  BY <1>1 DEF Directories, Checkout
<1>4. d.head \in tips[p] /\ (calm[p] => Whole(d))
  BY <1>1, EmptyTyped, Nothing DEF Whole, Checkout, Fits, CheckoutSHA
<1>5. /\ dir' = [dir EXCEPT ![e] = d] /\ pc[p] \in Working /\ Answer(p, TRUE)
      /\ UNCHANGED <<upstream, tips, calm, begun, faults, moves>>
  BY <1>1, <1>2, Stages DEF CheckoutSHA, bounds
<1> HIDE DEF d
<1> QED BY <1>1, <1>2, <1>3, <1>4, <1>5, Answers

LEMMA CloneStep == ASSUME CacheInv, NEW p \in Callers, Clone(p) PROVE CacheInv'
<1>1. PICK e \in Entries :
        /\ call[p] = e /\ dir[e] \in Directories /\ upstream[e] \in Commits /\ upstream[e] \in tips[p]
        /\ calm[p] => Fits(pc[p], dir[e], Tracks[e] = "sha", strikes[e] > 0)
        /\ pc[p] \in {"reset", "clean"} => fetched[p] \in tips[p] /\ fetched[p] \in Commits
        /\ pc[p] = "clean" /\ dir[e].git = "cloned" => dir[e].head = fetched[p]
  BY AtCommand, Stages DEF Clone
<1>2. /\ fetched \in [Callers -> Commits \union {None}] /\ before \in [Callers -> Commits \union {None}]
      /\ calm \in [Callers -> BOOLEAN] /\ faults \in 0..MaxFaults /\ dir \in [Entries -> Directories]
  BY DEF CacheInv, TypeOK, CallTypes, HistoryTypes, CacheTypes
<1> DEFINE d == Checkout(upstream[e])
<1>3. d \in Directories
  BY <1>1, EmptyTyped DEF Directories, Checkout
<1>4. d.head \in tips[p] /\ (calm[p] => Whole(d))
  BY <1>1, EmptyTyped, Nothing DEF Whole, Checkout, Fits, Clone
<1>5. /\ dir' = [dir EXCEPT ![e] = d] /\ pc[p] \in Working /\ Answer(p, TRUE)
      /\ UNCHANGED <<upstream, tips, calm, begun, faults, moves>>
  BY <1>1, <1>2, Stages DEF Clone, bounds
<1> HIDE DEF d
<1> QED BY <1>1, <1>2, <1>3, <1>4, <1>5, Answers

LEMMA CleanStep == ASSUME CacheInv, NEW p \in Callers, Clean(p) PROVE CacheInv'
<1>1. PICK e \in Entries :
        /\ call[p] = e /\ dir[e] \in Directories /\ upstream[e] \in Commits /\ upstream[e] \in tips[p]
        /\ calm[p] => Fits(pc[p], dir[e], Tracks[e] = "sha", strikes[e] > 0)
        /\ pc[p] \in {"reset", "clean"} => fetched[p] \in tips[p] /\ fetched[p] \in Commits
        /\ pc[p] = "clean" /\ dir[e].git = "cloned" => dir[e].head = fetched[p]
  BY AtCommand, Stages DEF Clean
<1>2. /\ fetched \in [Callers -> Commits \union {None}] /\ before \in [Callers -> Commits \union {None}]
      /\ calm \in [Callers -> BOOLEAN] /\ faults \in 0..MaxFaults /\ dir \in [Entries -> Directories]
  BY DEF CacheInv, TypeOK, CallTypes, HistoryTypes, CacheTypes
<1> DEFINE d == [dir[e] EXCEPT !.manifest = Cleaned[dir[e].manifest]]
<1>3. d \in Directories
  BY <1>1, EmptyTyped DEF Directories, Checkout, Cleaned, Directories
<1>4. d.head \in tips[p] /\ (calm[p] => Whole(d))
  BY <1>1, EmptyTyped, Nothing DEF Whole, Checkout, Fits, Clean, Cleaned, Directories
<1>5. /\ dir' = [dir EXCEPT ![e] = d] /\ pc[p] \in Working /\ Answer(p, TRUE)
      /\ UNCHANGED <<upstream, tips, calm, begun, faults, moves>>
  BY <1>1, <1>2, Stages DEF Clean, bounds
<1> HIDE DEF d
<1> QED BY <1>1, <1>2, <1>3, <1>4, <1>5, Answers

\* A command fails that nothing was in the way of: only where the entry is stuck, or
\* was a commit's that could not be fetched for the first time.
LEMMA CannotCalm ==
  ASSUME CacheInv, NEW p \in Callers, NEW e \in Entries, call[p] = e, Cannot(p), dir[e] \in Directories,
         Fits(pc[p], dir[e], Tracks[e] = "sha", strikes[e] > 0), strikes[e] \in Nat
  PROVE  \/ pc[p] = "clone" /\ dir[e].git = "origin" /\ strikes[e] = 0
         \/ pc[p] = "reset" /\ dir[e].git \in {"origin", "cloned"} /\ Stuck(e)
<1>1. pc[p] \in {"init", "remote", "fetchSHA", "checkoutSHA", "clone", "reset", "clean"}
  BY DEF Cannot
<1>2. pc[p] \notin {"init", "remote", "fetchSHA", "checkoutSHA", "clean"}
  BY DEF Cannot, Fits, Empty
<1>3. CASE pc[p] = "clone"
  <2>1. dir[e] = [Empty EXCEPT !.git = "origin"] /\ (Tracks[e] = "sha" => strikes[e] = 0)
    BY <1>3 DEF Fits
  <2>2. ~Clones(e)
    BY <1>3 DEF Cannot
  <2> QED BY <1>3, <2>1, <2>2 DEF Clones, Empty
<1>4. CASE pc[p] = "reset"
  <2>1. dir[e].git \in {"origin", "cloned"}
    BY <1>4 DEF Fits
  <2>2. ~Resets(e)
    BY <1>4 DEF Cannot
  <2> QED BY <1>4, <2>1, <2>2 DEF Resets, Stuck
<1> QED BY <1>1, <1>2, <1>3, <1>4

LEMMA ErrorStep == ASSUME CacheInv, NEW p \in Callers, Error(p) PROVE CacheInv'
<1>0. pc[p] \in Working
  BY Stages DEF Error, Cannot
<1>1. PICK e \in Entries :
        /\ call[p] = e /\ dir[e] \in Directories /\ upstream[e] \in Commits /\ upstream[e] \in tips[p]
        /\ calm[p] => Fits(pc[p], dir[e], Tracks[e] = "sha", strikes[e] > 0)
        /\ pc[p] \in {"reset", "clean"} => fetched[p] \in tips[p] /\ fetched[p] \in Commits
        /\ pc[p] = "clean" /\ dir[e].git = "cloned" => dir[e].head = fetched[p]
  BY <1>0, AtCommand
<1>2. /\ fetched \in [Callers -> Commits \union {None}] /\ before \in [Callers -> Commits \union {None}]
      /\ calm \in [Callers -> BOOLEAN] /\ faults \in 0..MaxFaults /\ dir \in [Entries -> Directories]
  BY DEF CacheInv, TypeOK, CallTypes, HistoryTypes, CacheTypes
<1> DEFINE d == IF pc[p] = "clone" /\ dir[e].git = "origin" THEN Empty ELSE dir[e]
<1>3. d \in Directories
  BY <1>1, EmptyTyped
<1>4. /\ dir' = [dir EXCEPT ![e] = d] /\ Answer(p, FALSE)
      /\ UNCHANGED <<upstream, tips, calm, begun, faults, moves>>
  BY <1>1 DEF Error, Fail
<1>5. calm[p] => \/ d.git \in {"origin", "cloned"} /\ Stuck(e)'
                 \/ d.git = "absent" /\ strikes[e] = 0
  <2> SUFFICES ASSUME calm[p] PROVE \/ d.git \in {"origin", "cloned"} /\ Stuck(e)'
                                    \/ d.git = "absent" /\ strikes[e] = 0
    OBVIOUS
  <2>1. \/ pc[p] = "clone" /\ dir[e].git = "origin" /\ strikes[e] = 0
        \/ pc[p] = "reset" /\ dir[e].git \in {"origin", "cloned"} /\ Stuck(e)
    <3>1. strikes[e] \in Nat
      BY DEF CacheInv, TypeOK, HistoryTypes
    <3> QED BY <1>1, <3>1, CannotCalm DEF Error
  <2>2. CASE pc[p] = "clone"
    BY <2>1, <2>2 DEF Empty
  <2>3. CASE pc[p] = "reset"
    <3>1. dir'[e] = dir[e]
      BY <1>2, <1>4, <2>3
    <3> QED BY <2>1, <2>3, <3>1 DEF Stuck
  <2> QED BY <2>1, <2>2, <2>3
<1> HIDE DEF d
<1> QED BY <1>0, <1>1, <1>2, <1>3, <1>4, <1>5, Answers

LEMMA PartlyTyped ==
  ASSUME NEW p, NEW e \in Entries, call[p] = e, dir[e] \in Directories, upstream[e] \in Commits
  PROVE  Partly(p) \subseteq Directories /\ Wrecks(p) \subseteq Directories
<1>1. \A l \in {{}, {"index"}} :
        [Checkout(upstream[e]) EXCEPT !.tree = Mixed, !.manifest = "none", !.locks = l] \in Directories
  BY DEF Checkout, Directories
<1>2. [dir[e] EXCEPT !.tree = Mixed] \in Directories /\ Empty \in Directories
  BY EmptyTyped DEF Directories
<1>3. Partly(p) \subseteq Directories
  BY <1>1, <1>2 DEF Partly
<1>4. /\ [dir[e] EXCEPT !.git = "corrupt"] \in Directories
      /\ [dir[e] EXCEPT !.locks = dir[e].locks \union {"shallow"}] \in Directories
      /\ [dir[e] EXCEPT !.tree = Mixed, !.locks = dir[e].locks \union {"index"}] \in Directories
  BY DEF Directories
<1>5. /\ [Empty EXCEPT !.git = "litter"] \in Directories /\ [Empty EXCEPT !.git = "init"] \in Directories
      /\ [Empty EXCEPT !.git = "corrupt", !.tree = Mixed] \in Directories
      /\ [Empty EXCEPT !.git = "origin", !.remoteHead = TRUE] \in Directories
  BY DEF Directories, Empty
<1>6. Wrecks(p) \subseteq Directories
  <2>1. CASE pc[p] = "init"
    BY <1>4, <2>1 DEF Wrecks
  <2>2. CASE pc[p] = "clone" /\ Clones(e)
    <3>1. Wrecks(p) = Partly(p) \union { [Empty EXCEPT !.git = "litter"], [Empty EXCEPT !.git = "init"],
                            [Empty EXCEPT !.git = "corrupt", !.tree = Mixed],
                            [Empty EXCEPT !.git = "origin", !.remoteHead = TRUE] }
      BY <2>2 DEF Wrecks
    <3> QED BY <1>3, <1>5, <3>1
  <2>3. CASE pc[p] \in {"fetch", "refetch", "fetchSHA"} /\ dir[e].git \in {"origin", "cloned"}
    BY <1>4, <2>3 DEF Wrecks
  <2>4. CASE pc[p] \in {"reset", "checkoutSHA"} /\ dir[e].git \in {"origin", "cloned"}
    BY <1>2, <1>4, <2>4 DEF Wrecks
  <2>5. CASE /\ pc[p] # "init" /\ ~(pc[p] = "clone" /\ Clones(e))
             /\ ~(pc[p] \in {"fetch", "refetch", "fetchSHA"} /\ dir[e].git \in {"origin", "cloned"})
             /\ ~(pc[p] \in {"reset", "checkoutSHA"} /\ dir[e].git \in {"origin", "cloned"})
    <3>1. Wrecks(p) = {dir[e]}
      BY <2>5 DEF Wrecks
    <3> QED BY <3>1
  <2> QED BY <2>1, <2>2, <2>3, <2>4, <2>5
<1> QED BY <1>3, <1>6

LEMMA FaultStep == ASSUME CacheInv, NEW p \in Callers, Fault(p) PROVE CacheInv'
<1>1. /\ calm \in [Callers -> BOOLEAN] /\ faults \in 0..MaxFaults
      /\ calm' = [calm EXCEPT ![p] = FALSE] /\ faults < MaxFaults /\ faults' = faults + 1
  BY DEF Fault, Happens, CacheInv, TypeOK, HistoryTypes
<1>2. /\ calm' \in [Callers -> BOOLEAN] /\ ~calm'[p] /\ faults' \in 0..MaxFaults
      /\ \A q \in Callers \ {p} : calm'[q] = calm[q]
  BY <1>1, Nothing
<1>3. CASE pc[p] \in {"fetch", "refetch"} /\ Reclone(p)
  BY <1>2, <1>3, RecloneStep
<1>4. CASE /\ pc[p] \in {"init", "remote", "fetchSHA", "checkoutSHA", "clone", "reset", "clean"}
           /\ \E d \in Partly(p) : Fail(p, d)
           /\ Answer(p, FALSE)
  <2>1. pc[p] \in Working
    BY <1>4, Stages
  <2>2. PICK e \in Entries : call[p] = e /\ dir[e] \in Directories /\ upstream[e] \in Commits
    BY <2>1, AtCommand
  <2>3. PICK d \in Directories : Fail(p, d)
    BY <1>4, <2>2, PartlyTyped
  <2>4. dir' = [dir EXCEPT ![e] = d] /\ UNCHANGED <<upstream, tips, begun, moves>>
    BY <2>2, <2>3 DEF Fail
  <2> QED BY <1>2, <1>4, <2>1, <2>2, <2>4, Answers
<1> QED BY <1>3, <1>4 DEF Fault

\* A process that is not at work on an entry begins to wait, or is gone.
LEMMA Aside ==
  ASSUME CacheInv, TypeOK', NEW p \in Callers, UNCHANGED <<upstream, dir, holder, delivered, strikes>>,
         \A q \in Callers \ {p} : /\ pc'[q] = pc[q] /\ call'[q] = call[q] /\ fetched'[q] = fetched[q]
                                  /\ answer'[q] = answer[q] /\ calm'[q] = calm[q] /\ tips'[q] = tips[q],
         pc'[p] \in {"idle", "waiting"}, answer'[p] = None,
         pc'[p] = "waiting" => upstream[call'[p]] \in tips'[p]
  PROVE  CacheInv'
<1>1. ASSUME NEW q \in Callers PROVE (TipsOf(q) /\ NotYet(q) /\ Going(q) /\ Answered(q))'
  <2>1. CASE q = p
    BY <2>1, Stages DEF TipsOf, NotYet, Going, Answered
  <2>2. CASE q # p
    <3>1. TipsOf(q) /\ NotYet(q) /\ Going(q) /\ Answered(q)
      BY DEF CacheInv, CallsFit
    <3> QED BY <2>2, <3>1 DEF TipsOf, NotYet, Going, Answered
  <2> QED BY <2>1, <2>2
<1>2. ASSUME NEW f \in Entries PROVE (Delivered(f) /\ Struck(f))'
  BY DEF CacheInv, EntriesFit, Delivered, Struck, Stuck
<1> QED BY <1>1, <1>2 DEF CacheInv, CallsFit, EntriesFit

LEMMA EnsureRepoStep ==
  ASSUME CacheInv, NEW p \in Callers, NEW e \in Entries, EnsureRepo(p, e) PROVE CacheInv'
<1>1. TypeOK'
  <2>1. CacheTypes' /\ CallTypes'
    BY Stages DEF EnsureRepo, CacheInv, TypeOK, CacheTypes, CallTypes
  <2>2. HistoryTypes'
    BY Nothing DEF EnsureRepo, CacheInv, TypeOK, CacheTypes, HistoryTypes
  <2>3. LocksAreHeld'
    BY Stages, Nothing DEF EnsureRepo, CacheInv, TypeOK, LocksAreHeld, CallTypes
  <2> QED BY <2>1, <2>2, <2>3 DEF TypeOK
<1>2. /\ pc'[p] = "waiting" /\ call'[p] = e /\ answer'[p] = None /\ tips'[p] = {upstream[e]}
      /\ \A q \in Callers \ {p} : /\ pc'[q] = pc[q] /\ call'[q] = call[q] /\ fetched'[q] = fetched[q]
                                  /\ answer'[q] = answer[q] /\ calm'[q] = calm[q] /\ tips'[q] = tips[q]
  BY DEF EnsureRepo, CacheInv, TypeOK, CallTypes, HistoryTypes
<1> QED BY <1>1, <1>2, Aside DEF EnsureRepo

LEMMA DieStep == ASSUME CacheInv, NEW p \in Callers, Die(p) PROVE CacheInv'
<1>1. PICK e \in Entries : call[p] = e
  BY DEF Die, CacheInv, TypeOK, LocksAreHeld, CallTypes
<1>2. dir[e] \in Directories /\ upstream[e] \in Commits
  BY DEF CacheInv, TypeOK, CacheTypes
<1>3. PICK d \in Wrecks(p) : dir' = [dir EXCEPT ![e] = d]
  BY <1>1 DEF Die
<1>4. d \in Directories
  BY <1>1, <1>2, PartlyTyped
<1>5. /\ pc'[p] = "idle" /\ call'[p] = None /\ fetched'[p] = None /\ answer'[p] = None
      /\ \A q \in Callers \ {p} : /\ pc'[q] = pc[q] /\ call'[q] = call[q] /\ fetched'[q] = fetched[q]
                                  /\ answer'[q] = answer[q]
  BY DEF Die, CacheInv, TypeOK, CallTypes
<1>6. CallTypes'
  BY DEF Die, CacheInv, TypeOK, CallTypes
<1>7. holder' = [holder EXCEPT ![e] = IF holder[e] = p THEN None ELSE holder[e]]
  BY <1>1 DEF Die, Unlock
<1>8. CacheTypes'
  BY <1>4, <1>3, <1>7 DEF Die, CacheInv, TypeOK, CacheTypes
<1>9. HistoryTypes'
  <2>1. HistoryTypes
    BY DEF CacheInv, TypeOK
  <2>2. faults' \in 0..MaxFaults /\ UNCHANGED <<tips, calm, begun, moves>>
    BY <2>1, Nothing DEF Die, Happens, HistoryTypes
  <2>3. CASE pc[p] = "waiting"
    BY <2>1, <2>2, <2>3 DEF Die, HistoryTypes
  <2>4. CASE pc[p] # "waiting"
    <3>1. /\ delivered' = [delivered EXCEPT ![e] = None] /\ kept' = [kept EXCEPT ![e] = FALSE]
          /\ strikes' = [strikes EXCEPT ![e] = 0]
      BY <1>1, <2>4 DEF Die
    <3> QED BY <2>1, <2>2, <3>1 DEF HistoryTypes
  <2> QED BY <2>3, <2>4
<1>10. LocksAreHeld'
  <2>1. \A q \in Callers : call'[q] = None <=> pc'[q] = "idle"
    BY <1>5 DEF CacheInv, TypeOK, LocksAreHeld
  <2>2. ASSUME NEW q \in Callers, NEW f \in Entries PROVE holder'[f] = q <=> call'[q] = f /\ pc'[q] \in Working
    <3>1. holder[f] = q <=> call[q] = f /\ pc[q] \in Working
      BY DEF CacheInv, TypeOK, LocksAreHeld
    <3>2. holder'[f] = IF f = e /\ holder[e] = p THEN None ELSE holder[f]
      BY <1>7 DEF CacheInv, TypeOK, CacheTypes
    <3>3. holder[f] = p => f = e
      BY <1>1 DEF CacheInv, TypeOK, LocksAreHeld
    <3> QED BY <1>5, <3>1, <3>2, <3>3, Nothing, Stages
  <2> QED BY <2>1, <2>2 DEF LocksAreHeld
<1>11. TypeOK'
  BY <1>6, <1>8, <1>9, <1>10 DEF TypeOK
<1>12. CASE pc[p] \in Working
  <2>1. holder[e] = p /\ \A q \in Callers \ {p} : pc[q] \in Working => call[q] # e
    BY <1>1, <1>12, AtWork DEF CacheInv
  <2>2. /\ \A f \in Entries \ {e} : /\ dir'[f] = dir[f] /\ delivered'[f] = delivered[f]
                                    /\ strikes'[f] = strikes[f] /\ holder'[f] = holder[f]
        /\ delivered'[e] = None /\ strikes'[e] = 0
    BY <1>1, <1>3, <1>7, <1>12, Stages DEF Die, CacheInv, TypeOK, HistoryTypes, CacheTypes
  <2>3. /\ \A q \in Callers \ {p} : (TipsOf(q) /\ NotYet(q) /\ Going(q) /\ Answered(q))'
        /\ \A f \in Entries \ {e} : (Delivered(f) /\ Struck(f))'
    <3>1. UNCHANGED <<upstream, tips, calm>>
      BY DEF Die
    <3> QED BY <1>5, <2>1, <2>2, <3>1, Elsewhere
  <2>4. TipsOf(p)' /\ NotYet(p)' /\ Going(p)' /\ Answered(p)'
    BY <1>5, Stages DEF TipsOf, NotYet, Going, Answered
  <2>5. Delivered(e)' /\ Struck(e)'
    BY <2>2 DEF Delivered, Struck
  <2> QED BY <1>11, <2>3, <2>4, <2>5 DEF CacheInv, CallsFit, EntriesFit
<1>13. CASE pc[p] \notin Working
  <2>1. pc[p] \in {"waiting", "purge"}
    BY <1>13 DEF Die, CacheInv, TypeOK, CallTypes
  <2>2. Wrecks(p) = {dir[e]}
    BY <1>1, <2>1 DEF Wrecks
  <2>3. dir' = dir
    BY <1>3, <2>2 DEF CacheInv, TypeOK, CacheTypes
  <2>4. holder' = holder
    BY <1>1, <1>7, <1>13 DEF CacheInv, TypeOK, CacheTypes, LocksAreHeld
  <2>5. CASE pc[p] = "waiting"
    <3>1. UNCHANGED <<upstream, delivered, strikes, tips, calm>>
      BY <2>5 DEF Die
    <3> QED BY <1>5, <1>11, <2>3, <2>4, <3>1, Aside
  <2>6. CASE pc[p] = "purge"
    <3>1. /\ UNCHANGED <<upstream, tips, calm>>
          /\ delivered' = [delivered EXCEPT ![e] = None] /\ strikes' = [strikes EXCEPT ![e] = 0]
      BY <1>1, <2>6 DEF Die
    <3>2. /\ delivered'[e] = None /\ strikes'[e] = 0
          /\ \A f \in Entries \ {e} : delivered'[f] = delivered[f] /\ strikes'[f] = strikes[f]
      BY <3>1 DEF CacheInv, TypeOK, HistoryTypes
    <3>3. ASSUME NEW q \in Callers PROVE (TipsOf(q) /\ NotYet(q) /\ Going(q) /\ Answered(q))'
      <4>1. CASE q = p
        BY <4>1, <1>5, Stages DEF TipsOf, NotYet, Going, Answered
      <4>2. CASE q # p
        <5>1. TipsOf(q) /\ NotYet(q) /\ Going(q) /\ Answered(q)
          BY DEF CacheInv, CallsFit
        <5>2. pc[q] \in Working => call[q] \in Entries
          BY AtWork DEF CacheInv
        <5>3. TipsOf(q)' /\ Answered(q)'
          BY <1>5, <2>3, <3>1, <4>2, <5>1 DEF TipsOf, Answered
        <5>4. NotYet(q)'
          BY <1>5, <3>2, <4>2, <5>1, <5>2 DEF NotYet
        <5>5. Going(q)'
          <6> SUFFICES ASSUME pc[q] \in Working, calm[q]
                       PROVE  Fits(pc[q], dir[call[q]], Tracks[call[q]] = "sha", strikes'[call[q]] > 0)
            BY <1>5, <2>3, <3>1, <4>2 DEF Going
          <6>1. Fits(pc[q], dir[call[q]], Tracks[call[q]] = "sha", strikes[call[q]] > 0)
            BY <5>1 DEF Going
          <6>2. strikes'[call[q]] > 0 => strikes[call[q]] > 0
            BY <3>2, <5>2
          <6> QED BY <6>1, <6>2 DEF Fits
        <5> QED BY <5>3, <5>4, <5>5
      <4> QED BY <4>1, <4>2
    <3>4. ASSUME NEW f \in Entries PROVE (Delivered(f) /\ Struck(f))'
      <4>1. Delivered(f) /\ Struck(f)
        BY DEF CacheInv, EntriesFit
      <4>2. CASE f = e
        BY <4>2, <3>2 DEF Delivered, Struck
      <4>3. CASE f # e
        BY <4>1, <4>3, <2>3, <2>4, <3>2 DEF Delivered, Struck, Stuck
      <4> QED BY <4>2, <4>3
    <3> QED BY <1>11, <3>3, <3>4 DEF CacheInv, CallsFit, EntriesFit
  <2> QED BY <2>1, <2>5, <2>6
<1> QED BY <1>12, <1>13

\* Somebody who does not take the lock changes an entry.
LEMMA Meddles ==
  ASSUME CacheInv, TypeOK', NEW e \in Entries, NEW d \in Directories, dir' = [dir EXCEPT ![e] = d],
         UNCHANGED <<upstream, holder, tips, answer, fetched>>,
         \A q \in Callers : /\ pc'[q] \in Working \union {"waiting"} => pc'[q] = pc[q] /\ call'[q] = call[q]
                            /\ calm'[q] => calm[q],
         d.git = "cloned" => dir[e].git = "cloned" /\ d.head = dir[e].head,
         \A q \in Callers : pc'[q] \in Working /\ call'[q] = e /\ calm'[q]
            => Fits(pc'[q], d, Tracks[e] = "sha", strikes'[e] > 0),
         \A f \in Entries \ {e} : delivered'[f] = delivered[f] /\ strikes'[f] = strikes[f],
         delivered'[e] \in {None, delivered[e]},
         Delivered(e)', Struck(e)'
  PROVE  CacheInv'
<1>1. dir'[e] = d /\ \A f \in Entries \ {e} : dir'[f] = dir[f]
  BY DEF CacheInv, TypeOK, CacheTypes
<1>2. ASSUME NEW q \in Callers PROVE (TipsOf(q) /\ NotYet(q) /\ Going(q) /\ Answered(q))'
  <2>1. TipsOf(q) /\ NotYet(q) /\ Going(q) /\ Answered(q)
    BY DEF CacheInv, CallsFit
  <2>2. pc'[q] \in Working => pc[q] \in Working /\ call'[q] = call[q] /\ call[q] \in Entries /\ pc'[q] = pc[q]
    BY AtWork DEF CacheInv
  <2>3. TipsOf(q)'
    <3>1. pc'[q] \in Working \union {"waiting"} => upstream'[call'[q]] \in tips'[q]
      BY <2>1 DEF TipsOf
    <3>2. pc'[q] \in {"reset", "clean"} => fetched'[q] \in tips'[q]
      BY <2>1, <2>2, Stages DEF TipsOf
    <3>3. pc'[q] = "clean" /\ dir'[call'[q]].git = "cloned" => dir'[call'[q]].head = fetched'[q]
      BY <1>1, <2>1, <2>2, Stages DEF TipsOf
    <3> QED BY <3>1, <3>2, <3>3 DEF TipsOf
  <2>4. NotYet(q)'
    BY <2>1, <2>2 DEF NotYet
  <2>5. Going(q)'
    <3> SUFFICES ASSUME pc'[q] \in Working, calm'[q]
                 PROVE  Fits(pc'[q], dir'[call'[q]], Tracks[call'[q]] = "sha", strikes'[call'[q]] > 0)
      BY DEF Going
    <3>1. CASE call[q] = e
      BY <1>1, <2>2, <3>1
    <3>2. CASE call[q] # e
      BY <1>1, <2>1, <2>2, <3>2 DEF Going
    <3> QED BY <3>1, <3>2
  <2>6. Answered(q)'
    BY <2>1 DEF Answered
  <2> QED BY <2>3, <2>4, <2>5, <2>6
<1>3. ASSUME NEW f \in Entries \ {e} PROVE (Delivered(f) /\ Struck(f))'
  BY <1>1 DEF CacheInv, EntriesFit, Delivered, Struck, Stuck
<1> QED BY <1>2, <1>3 DEF CacheInv, CallsFit, EntriesFit

LEMMA Disturbed ==
  ASSUME TypeOK, NEW e \in Entries, Disturb(e)
  PROVE  /\ delivered'[e] = None /\ strikes'[e] = 0
         /\ \A f \in Entries \ {e} : delivered'[f] = delivered[f] /\ strikes'[f] = strikes[f]
         /\ \A q \in Callers : calm'[q] <=> calm[q] /\ call[q] # e
         /\ calm' \in [Callers -> BOOLEAN] /\ delivered' \in [Entries -> Commits \union {None}]
         /\ kept' \in [Entries -> BOOLEAN] /\ strikes' \in [Entries -> Nat]
<1>1. HistoryTypes
  BY DEF TypeOK
<1>2. calm' = [q \in Callers |-> calm[q] /\ call[q] # e]
  BY DEF Disturb
<1>3. calm' \in [Callers -> BOOLEAN] /\ \A q \in Callers : calm'[q] <=> calm[q] /\ call[q] # e
  BY <1>1, <1>2 DEF HistoryTypes
<1> QED BY <1>1, <1>3 DEF Disturb, HistoryTypes

LEMMA StartPurgeStep ==
  ASSUME CacheInv, NEW p \in Callers, NEW e \in Entries, StartPurge(p, e) PROVE CacheInv'
<1>1. PICK g \in {"litter", "corrupt", dir[e].git} : dir' = [dir EXCEPT ![e].git = g, ![e].tree = Mixed]
  BY DEF StartPurge
<1> DEFINE d == [dir[e] EXCEPT !.git = g, !.tree = Mixed]
<1>2. dir[e] \in Directories
  BY DEF CacheInv, TypeOK, CacheTypes
<1>3. d \in Directories
  BY <1>2 DEF Directories
<1>4. dir' = [dir EXCEPT ![e] = d]
  BY <1>1 DEF CacheInv, TypeOK, CacheTypes
<1>5. d.git = "cloned" => dir[e].git = "cloned" /\ d.head = dir[e].head
  BY <1>2 DEF Directories
<1> HIDE DEF d
<1>6. /\ delivered'[e] = None /\ strikes'[e] = 0
      /\ \A f \in Entries \ {e} : delivered'[f] = delivered[f] /\ strikes'[f] = strikes[f]
      /\ \A q \in Callers : calm'[q] <=> calm[q] /\ call[q] # e
      /\ calm' \in [Callers -> BOOLEAN] /\ delivered' \in [Entries -> Commits \union {None}]
      /\ kept' \in [Entries -> BOOLEAN] /\ strikes' \in [Entries -> Nat]
  BY Disturbed DEF StartPurge, CacheInv
<1>7. /\ pc'[p] = "purge" /\ call'[p] = e
      /\ \A q \in Callers \ {p} : pc'[q] = pc[q] /\ call'[q] = call[q]
      /\ pc[p] = "idle"
  BY DEF StartPurge, CacheInv, TypeOK, CallTypes
<1>8. TypeOK'
  <2>1. CacheTypes'
    BY <1>3, <1>4 DEF StartPurge, CacheInv, TypeOK, CacheTypes
  <2>2. CallTypes'
    BY DEF StartPurge, CacheInv, TypeOK, CallTypes
  <2>3. HistoryTypes'
    BY <1>6, Nothing DEF StartPurge, CacheInv, TypeOK, HistoryTypes
  <2>4. LocksAreHeld'
    BY <1>7, Stages, Nothing DEF StartPurge, CacheInv, TypeOK, LocksAreHeld
  <2> QED BY <2>1, <2>2, <2>3, <2>4 DEF TypeOK
<1>9. /\ \A q \in Callers : /\ pc'[q] \in Working \union {"waiting"} => pc'[q] = pc[q] /\ call'[q] = call[q]
                            /\ calm'[q] => calm[q]
      /\ \A q \in Callers : pc'[q] \in Working => ~(call'[q] = e /\ calm'[q])
  BY <1>6, <1>7, Stages
<1>10. Delivered(e)' /\ Struck(e)'
  BY <1>6 DEF Delivered, Struck
<1>11. UNCHANGED <<upstream, holder, tips, answer, fetched>>
  BY DEF StartPurge
<1> QED BY <1>3, <1>4, <1>5, <1>6, <1>8, <1>9, <1>10, <1>11, Meddles

LEMMA EndPurgeStep == ASSUME CacheInv, NEW p \in Callers, EndPurge(p) PROVE CacheInv'
<1>1. PICK e \in Entries : call[p] = e
  BY DEF EndPurge, CacheInv, TypeOK, LocksAreHeld, CallTypes
<1>2. dir' = [dir EXCEPT ![e] = Empty] /\ Empty \in Directories /\ Empty.git # "cloned"
  BY <1>1, EmptyTyped DEF EndPurge, Empty
<1>3. /\ delivered'[e] = None /\ strikes'[e] = 0
      /\ \A f \in Entries \ {e} : delivered'[f] = delivered[f] /\ strikes'[f] = strikes[f]
      /\ \A q \in Callers : calm'[q] <=> calm[q] /\ call[q] # e
      /\ calm' \in [Callers -> BOOLEAN] /\ delivered' \in [Entries -> Commits \union {None}]
      /\ kept' \in [Entries -> BOOLEAN] /\ strikes' \in [Entries -> Nat]
  BY <1>1, Disturbed DEF EndPurge, CacheInv
<1>4. /\ pc'[p] = "idle" /\ call'[p] = None /\ pc[p] = "purge"
      /\ \A q \in Callers \ {p} : pc'[q] = pc[q] /\ call'[q] = call[q]
  BY DEF EndPurge, CacheInv, TypeOK, CallTypes
<1>5. TypeOK'
  <2>1. CacheTypes'
    BY <1>2 DEF EndPurge, CacheInv, TypeOK, CacheTypes
  <2>2. CallTypes'
    BY DEF EndPurge, CacheInv, TypeOK, CallTypes
  <2>3. HistoryTypes'
    BY <1>3 DEF EndPurge, bounds, CacheInv, TypeOK, HistoryTypes
  <2>4. LocksAreHeld'
    BY <1>4, Stages, Nothing DEF EndPurge, CacheInv, TypeOK, LocksAreHeld
  <2> QED BY <2>1, <2>2, <2>3, <2>4 DEF TypeOK
<1>6. /\ \A q \in Callers : /\ pc'[q] \in Working \union {"waiting"} => pc'[q] = pc[q] /\ call'[q] = call[q]
                            /\ calm'[q] => calm[q]
      /\ \A q \in Callers : pc'[q] \in Working => ~(call'[q] = e /\ calm'[q])
  BY <1>3, <1>4, Stages
<1>7. Delivered(e)' /\ Struck(e)'
  BY <1>3 DEF Delivered, Struck
<1>8. UNCHANGED <<upstream, holder, tips, answer, fetched>>
  BY DEF EndPurge
<1> QED BY <1>2, <1>3, <1>5, <1>6, <1>7, <1>8, Meddles

LEMMA LoadStep == ASSUME CacheInv, NEW e \in Entries, Load(e) PROVE CacheInv'
<1> DEFINE d == [dir[e] EXCEPT !.manifest = "moved"]
<1>1. dir \in [Entries -> Directories] /\ dir[e] \in Directories
  BY DEF CacheInv, TypeOK, CacheTypes
<1>2. d \in Directories
  BY <1>1 DEF Directories
<1>3. dir' = [dir EXCEPT ![e] = d]
  BY <1>1 DEF Load
<1>4. /\ UNCHANGED <<upstream, holder, pc, call, fetched, before, answer, tips, delivered, kept, strikes, begun, faults, moves>>
      /\ calm \in [Callers -> BOOLEAN]
      /\ calm' = [q \in Callers |-> calm[q] /\ ~(call[q] = e /\ pc[q] = "clean")]
  BY DEF Load, process, bounds, CacheInv, TypeOK, HistoryTypes
<1>5. /\ calm' \in [Callers -> BOOLEAN]
      /\ \A q \in Callers : calm'[q] <=> calm[q] /\ ~(call[q] = e /\ pc[q] = "clean")
  BY <1>4
<1>6. TypeOK'
  BY <1>1, <1>2, <1>3, <1>4, <1>5 DEF CacheInv, TypeOK, CacheTypes, CallTypes, HistoryTypes, LocksAreHeld
<1>7. /\ d.git = dir[e].git /\ d.head = dir[e].head /\ d.tree = dir[e].tree /\ d.locks = dir[e].locks
      /\ d.remoteHead = dir[e].remoteHead /\ d.manifest = "moved" /\ dir[e].tree # None
  BY <1>1, Nothing DEF Directories, Load
<1>8. ASSUME NEW q \in Callers, pc'[q] \in Working, call'[q] = e, calm'[q]
      PROVE  Fits(pc'[q], d, Tracks[e] = "sha", strikes'[e] > 0)
  <2>1. pc[q] \in Working /\ call[q] = e /\ calm[q] /\ pc[q] # "clean"
    BY <1>4, <1>5, <1>8
  <2>2. Fits(pc[q], dir[e], Tracks[e] = "sha", strikes[e] > 0)
    BY <2>1 DEF CacheInv, CallsFit, Going
  <2>3. pc[q] \notin {"init", "remote", "fetchSHA", "checkoutSHA", "clone"}
    BY <1>7, <2>2 DEF Fits, Empty
  <2> HIDE DEF d
  <2> QED BY <1>4, <1>7, <2>1, <2>2, <2>3 DEF Fits
<1>9. Delivered(e)' /\ Struck(e)'
  <2>1. Delivered(e) /\ Struck(e)
    BY DEF CacheInv, EntriesFit
  <2>2. dir'[e] = d
    BY <1>1, <1>3
  <2> HIDE DEF d
  <2> QED BY <1>4, <1>7, <2>1, <2>2 DEF Delivered, Struck, Stuck, Whole
<1>10. \A q \in Callers : /\ pc'[q] \in Working \union {"waiting"} => pc'[q] = pc[q] /\ call'[q] = call[q]
                          /\ calm'[q] => calm[q]
  BY <1>4, <1>5
<1>11. d.git = "cloned" => dir[e].git = "cloned" /\ d.head = dir[e].head
  BY <1>7
<1> HIDE DEF d
<1> QED BY <1>2, <1>3, <1>4, <1>6, <1>8, <1>9, <1>10, <1>11, Meddles

LEMMA PushStep ==
  ASSUME CacheInv, NEW e \in Entries, NEW c \in Commits, Push(e, c) PROVE CacheInv'
<1>1. /\ UNCHANGED <<dir, holder, pc, call, fetched, before, answer, calm, delivered, kept, strikes, begun, faults>>
      /\ upstream \in [Entries -> Commits] /\ upstream' = [upstream EXCEPT ![e] = c]
      /\ tips \in [Callers -> SUBSET Commits]
      /\ tips' = [p \in Callers |-> tips[p] \union IF call[p] = e THEN {c} ELSE {}]
  BY DEF Push, process, CacheInv, TypeOK, CacheTypes, HistoryTypes
<1>2. \A q \in Callers : /\ tips[q] \subseteq tips'[q] /\ tips'[q] \subseteq Commits
                         /\ call[q] = e => c \in tips'[q]
  BY <1>1
<1>3. tips' \in [Callers -> SUBSET Commits] /\ upstream' \in [Entries -> Commits]
  BY <1>1
<1>4. moves' \in 0..MaxMoves
  BY Nothing DEF Push, CacheInv, TypeOK, HistoryTypes
<1>5. TypeOK'
  BY <1>1, <1>3, <1>4 DEF CacheInv, TypeOK, CacheTypes, CallTypes, HistoryTypes, LocksAreHeld
<1>6. ASSUME NEW q \in Callers PROVE (TipsOf(q) /\ NotYet(q) /\ Going(q) /\ Answered(q))'
  <2>1. TipsOf(q) /\ NotYet(q) /\ Going(q) /\ Answered(q)
    BY DEF CacheInv, CallsFit
  <2>2. upstream'[call[q]] = IF call[q] = e THEN c ELSE upstream[call[q]]
    BY <1>1 
  <2>3. TipsOf(q)'
    BY <1>1, <1>2, <2>1, <2>2 DEF TipsOf
  <2>4. NotYet(q)' /\ Going(q)' /\ Answered(q)'
    BY <1>1, <1>2, <2>1 DEF NotYet, Going, Answered
  <2> QED BY <2>3, <2>4
<1>7. ASSUME NEW f \in Entries PROVE (Delivered(f) /\ Struck(f))'
  BY <1>1 DEF CacheInv, EntriesFit, Delivered, Struck, Stuck
<1> QED BY <1>5, <1>6, <1>7 DEF CacheInv, CallsFit, EntriesFit

LEMMA StandsStill == ASSUME CacheInv, UNCHANGED vars PROVE CacheInv'
<1>1. UNCHANGED <<upstream, dir, holder, pc, call, fetched, before, answer, tips, calm, delivered, kept, strikes,
                  begun, faults, moves>>
  BY DEF vars, process, history, bounds
<1>2. TypeOK'
  BY <1>1 DEF CacheInv, TypeOK, CacheTypes, CallTypes, HistoryTypes, LocksAreHeld
<1>3. CallsFit'
  BY <1>1 DEF CacheInv, CallsFit, TipsOf, NotYet, Going, Answered
<1>4. EntriesFit'
  BY <1>1 DEF CacheInv, EntriesFit, Delivered, Struck, Stuck
<1> QED BY <1>2, <1>3, <1>4 DEF CacheInv

\* The cache starts empty, with nobody calling: nothing is owed yet.
THEOREM CacheBegins == Init => CacheInv
<1> SUFFICES ASSUME Init PROVE CacheInv
  OBVIOUS
<1>1. TypeOK
  <2>1. CacheTypes
    BY EmptyTyped DEF Init, CacheTypes
  <2>2. CallTypes
    BY DEF Init, CallTypes
  <2>3. HistoryTypes
    BY Nothing DEF Init, HistoryTypes
  <2>4. LocksAreHeld
    BY Stages, Nothing DEF Init, LocksAreHeld
  <2> QED BY <2>1, <2>2, <2>3, <2>4 DEF TypeOK
<1>2. CallsFit
  BY Stages DEF Init, CallsFit, TipsOf, NotYet, Going, Answered
<1>3. EntriesFit
  BY DEF Init, EntriesFit, Delivered, Struck
<1> QED BY <1>1, <1>2, <1>3 DEF CacheInv

\* Every step of a call, every failure and death, and every purge, load and push
\* keeps what fits.
THEOREM CacheSteps == CacheInv /\ [Next]_vars => CacheInv'
<1> SUFFICES ASSUME CacheInv, [Next]_vars PROVE CacheInv'
  OBVIOUS
<1>1. ASSUME NEW p \in Callers, Step(p) PROVE CacheInv'
  BY <1>1, BeginStep, RefreshStep, InitRepoStep, AddOriginStep, FetchSHAStep, CheckoutSHAStep, CloneStep,
     FetchStep, ClearLocksStep, CannotFetchStep, ResetStep, CleanStep, ErrorStep, EndPurgeStep DEF Step
<1>2. ASSUME NEW p \in Callers, Fault(p) \/ Die(p) PROVE CacheInv'
  BY <1>2, FaultStep, DieStep
<1>3. ASSUME NEW p \in Callers, NEW e \in Entries, EnsureRepo(p, e) \/ StartPurge(p, e) PROVE CacheInv'
  BY <1>3, EnsureRepoStep, StartPurgeStep
<1>4. ASSUME NEW e \in Entries, Load(e) \/ \E c \in Commits : Push(e, c) PROVE CacheInv'
  BY <1>4, LoadStep, PushStep
<1>5. CASE UNCHANGED vars
  BY <1>5, StandsStill
<1> QED BY <1>1, <1>2, <1>3, <1>4, <1>5 DEF Next

\* The invariant holds in every state of the cache.
THEOREM CacheInvariant == Spec => []CacheInv
BY CacheBegins, CacheSteps, PTL DEF Spec

\* Every variable keeps to its type, and whoever is at work on an entry holds its
\* lock, alone (withRepoLock).
THEOREM CacheTyping == Spec => []TypeOK
<1>1. CacheInv => TypeOK
  BY DEF CacheInv
<1> QED BY <1>1, CacheInvariant, PTL

\* What EnsureRepo answered for is the whole checkout it named until somebody calls or
\* purges again, and a commit its ref named during the call: for any processes,
\* entries, failures and deaths.
THEOREM DeliversWhole == Spec => []EnsureDelivers
<1>1. CacheInv => EnsureDelivers
  BY DEF CacheInv, CallsFit, EntriesFit, Answered, Delivered, EnsureDelivers
<1> QED BY <1>1, CacheInvariant, PTL

\* Of two calls in a row that nothing is in the way of the second succeeds, whatever
\* the failures and deaths before them left, unless the entry is stuck as Stuck says.
THEOREM MendsInTwo == Spec => []HealsInTwo
<1>1. ASSUME CacheInv, NEW e \in Entries, holder[e] = None PROVE strikes[e] <= 1 \/ Stuck(e)
  <2>1. strikes[e] \in Nat
    BY <1>1 DEF CacheInv, TypeOK, HistoryTypes
  <2>2. Struck(e)
    BY <1>1 DEF CacheInv, EntriesFit
  <2> QED BY <1>1, <2>1, <2>2 DEF Struck
<1>2. CacheInv => HealsInTwo
  BY <1>1 DEF HealsInTwo
<1> QED BY <1>2, CacheInvariant, PTL
=============================================================================
