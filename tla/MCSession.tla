------------------------------ MODULE MCSession ------------------------------
EXTENDS Session, Resume

CONSTANTS p, q, x, sub, subsub, k, strict, prof, foc, srv, ev, cmd, val, v, w, bcmd, near, far, one, two

VARIABLE part   \* which this behaviour is about: the content of a session or its identity

WithinDef == [d \in {NoPath, sub, subsub} |-> IF d = NoPath THEN NoPath ELSE subsub]
HasDef == [f \in {x} \X {NoPath, sub, subsub} |-> IF f[2] = sub THEN {k} ELSE {}]
DeclaresDef == [f \in {x} \X {NoPath, sub, subsub} |-> IF f[2] = sub THEN {strict} ELSE {}]
HoldsDef == {<<x, sub>>}

Entry(path, pick, hooks) == [ src |-> x, path |-> path, pick |-> pick, hooks |-> hooks ]
Def(c, u) == [ command |-> c, url |-> u ]
Plain == [ top |-> Empty, profiles |-> [s \in Profiles |-> None], focuses |-> [f \in Focuses |-> None],
           delegates |-> <<>>, launch |-> None, sensor |-> None ]
Rich == [ Plain EXCEPT
  !.top.includes = <<Entry(NoPath, {}, TRUE), Entry(sub, {k}, FALSE)>>, !.top.mcp[srv] = Null, !.top.hooks[ev] = <<cmd>>,
  !.profiles[prof] = [Empty EXCEPT !.mcp[srv] = Def(val, None)],
  !.focuses[foc] = prof, !.launch = foc ]
Consenting == [ Plain EXCEPT
  !.top.includes = <<Entry(NoPath, {}, TRUE)>>, !.top.hooks[ev] = <<cmd>>,
  !.profiles[prof] = [Empty EXCEPT !.mcp[srv] = Null, !.hooks[ev] = <<bcmd, cmd>>],
  !.focuses[foc] = prof, !.sensor = foc ]
Split == [ Plain EXCEPT
  !.top.includes = <<Entry(sub, {k}, FALSE)>>, !.top.mcp[srv] = Def(val, None),
  !.profiles[prof] = [Empty EXCEPT !.includes = <<Entry(NoPath, {}, FALSE)>>, !.mcp[srv] = Def(None, val)],
  !.focuses[foc] = Top ]
WrittenDef == {Rich, Consenting}
Symmetric == Permutations(Procs)
SplitDef == {Split}

Brung(hooks, def) == [ hooks |-> [e \in Events |-> hooks], mcp |-> [s \in Servers |-> def] ]
BringsDef == [src \in {x} |-> [n \in {v, w} |-> IF n = v THEN Brung(<<bcmd>>, Def(None, val)) ELSE Brung(<<cmd>>, Absent)]]

Binder == [ binds |-> TRUE, looksUp |-> TRUE, talks |-> TRUE ]     \* Claude
Reader == [ binds |-> FALSE, looksUp |-> TRUE, talks |-> TRUE ]    \* Copilot
Blind == [ binds |-> FALSE, looksUp |-> FALSE, talks |-> FALSE ]   \* Codex
ToolsDef == {Binder, Reader, Blind}

Request(tool, dir, name, resume, prompt, stays, selector) ==
  [ tool |-> tool, dir |-> dir, name |-> name, resume |-> resume, prompt |-> prompt, stays |-> stays, selector |-> selector ]
RequestsDef ==
  { Request(Binder, near, one, r, "focus", TRUE, FALSE) : r \in {"no", "newest"} }
  \union { Request(Binder, near, NoName, "newest", "none", TRUE, FALSE), Request(Binder, near, one, "this", "typed", FALSE, FALSE),
           Request(Binder, near, two, "newest", "none", TRUE, TRUE), Request(Reader, far, NoName, "newest", "typed", TRUE, FALSE) }
  \union { Request(Blind, near, NoName, r, "typed", r = "newest", FALSE) : r \in {"no", "newest"} }

BothInit == part \in {"content", "identity"} /\ SessionInit /\ ResumeInit
BothNext == part' = part /\ \/ part = "content" /\ SessionNext /\ UNCHANGED resumeVars
                            \/ part = "identity" /\ ResumeNext /\ UNCHANGED sessionVars
BothSpec == BothInit /\ [][BothNext]_<<sessionVars, resumeVars, part>>
=============================================================================
