------------------------------- MODULE MCExport -------------------------------
EXTENDS Export

CONSTANTS root, one, clone, two, three, r, a, b, s, inc, run, t1, t2

IdentityDef == [d \in Dirs |-> IF d = clone THEN one ELSE d]
NameOfDef == [d \in Dirs |-> CASE d = root -> r [] d \in {one, clone, three} -> a [] d = two -> b]
OffersDef == [d \in Dirs |-> IF d \in {one, clone} THEN {None, s} ELSE {None}]

Goes(d, sel) == [ to |-> d, sel |-> sel ]
Lists == {<<>>, <<Goes(two, None)>>, <<Goes(one, None), Goes(two, None)>>, <<Goes(clone, None), Goes(one, None)>>,
          <<Goes(one, s), Goes(two, None)>>, <<Goes(two, None), Goes(three, None)>>, <<Goes(two, s)>>}
Further == {<< <<>>, <<>> >>, << <<>>, <<Goes(one, s)>> >>, << <<Goes(two, None)>>, <<Goes(clone, None)>> >>,
            << <<Goes(clone, None), Goes(root, None)>>, <<>> >>, << <<Goes(two, None)>>, <<Goes(three, None)>> >>}
Graph(top, more) ==
  [d \in Dirs |-> CASE d = root -> top [] d \in {one, clone} -> more[1] [] d = two -> more[2] [] d = three -> <<>>]
GraphsDef == { Graph(top, more) : top \in Lists, more \in Further }

File(kind, name, part) == [ kind |-> kind, name |-> name, part |-> part ]
FilesDef == { File("agents", n, Main) : n \in Names } \union { File("skills", a, p) : p \in {Main, Extra, Evals} }
              \union { File("commands", a, Main), File("rules", b, Main) }

Source(label, files, picks, text, silent, active) ==
  [ label |-> label, files |-> files, picks |-> picks, text |-> text, silent |-> silent, hooks |-> Scripts, active |-> active ]
Agent1 == File("agents", a, Main)
Whole == Source(Top, FilesDef, {}, t1, FALSE, FALSE)
Bare == Source(Top, {Agent1}, {}, None, FALSE, FALSE)
Plain == [Bare EXCEPT !.hooks = {}]
Skilled == Source(inc, {File("skills", a, Main), File("skills", a, Evals), Agent1}, {}, t1, FALSE, TRUE)
Twin == Source(inc, {File("skills", a, Main), File("skills", a, Extra), File("rules", b, Main)}, {}, t2, FALSE, TRUE)
Commanding == Source(inc, {File("commands", a, Main), File("rules", b, Main)}, {<<"commands", a>>}, t2, TRUE, TRUE)
Lacking == Source(inc, {File("rules", b, Main)}, {<<"commands", a>>}, None, FALSE, FALSE)
Picking == Source(inc, {File("skills", a, Main), File("agents", b, Main), File("rules", b, Main)}, {<<"agents", b>>}, None, FALSE, FALSE)
ContentsDef == { <<Skilled, Twin, Whole>>, <<Twin, Commanding, Bare>>, <<Commanding, Bare>>, <<Lacking, Bare>>, <<Picking, Plain>> }
VendorsDef == { [ skiller |-> TRUE, folds |-> TRUE ], [ skiller |-> FALSE, folds |-> FALSE ] }

All == <<Claude, Codex, Copilot, Cursor, OpenCode>>
NoDelegates == Graph(<<>>, << <<>>, <<>> >>)
Delegates == Graph(<<Goes(one, None), Goes(two, None)>>, << <<>>, <<>> >>)
Clashing == Graph(<<Goes(one, None), Goes(two, None)>>, << <<Goes(two, None)>>, <<Goes(three, None)>> >>)
Request(mode, tools, sources, g, starts, servers, clean) ==
  [ mode |-> mode, tools |-> tools, content |-> sources, graph |-> g, starts |-> starts, servers |-> servers, clean |-> clean ]
ExportsDef == {
  Request("each", <<Claude, Codex, Cursor>>, <<Skilled, Twin, Whole>>, Delegates, TRUE, "portable", FALSE),
  Request("each", <<Copilot, OpenCode>>, <<Skilled, Twin, Whole>>, Clashing, TRUE, "other", TRUE),
  Request("each", <<Codex>>, <<Picking, Plain>>, NoDelegates, FALSE, "none", FALSE),
  Request("merged", All, <<Skilled, Twin, Whole>>, Delegates, TRUE, "portable", FALSE),
  Request("merged", <<Copilot, Codex>>, <<Twin, Commanding, Bare>>, NoDelegates, TRUE, "none", TRUE),
  Request("merged", <<Copilot, Claude>>, <<Picking, Plain>>, Delegates, FALSE, "other", FALSE),
  Request("agentPlugin", All, <<Skilled, Twin, Whole>>, Delegates, FALSE, "portable", FALSE),
  Request("agentPlugin", <<Claude, Copilot>>, <<Picking, Plain>>, NoDelegates, FALSE, "other", TRUE),
  Request("agentPlugin", <<Codex, Copilot>>, <<Twin, Commanding, Bare>>, Delegates, TRUE, "none", FALSE) }
=============================================================================
