--------------------------- MODULE MCCoachSession ---------------------------
(***************************************************************************)
(* Small instances of CoachSession: three core concepts (the coverage rule *)
(* starts at three), one concept of another node, two exercises the LLM    *)
(* can write, and the messages that reach every branch of the dispatch.    *)
(***************************************************************************)
EXTENDS CoachSession

CONSTANTS c1, c2, c3, other

MCCore == {c1, c2, c3}
MCSmallCore == {c1, c2}
MCAsked == {c1}
MCForeign == {other}

\* A choice exercise on two concepts, and an application exercise on one.
MCShapes ==
  {[covers |-> {c1, c2}, apply |-> FALSE, choice |-> TRUE],
   [covers |-> {c3}, apply |-> TRUE, choice |-> FALSE]}
MCSmallShapes == {[covers |-> {c1, c2}, apply |-> FALSE, choice |-> TRUE]}

MCFindings == {{}, {c2, other}}
MCSmallFindings == {{}, {c1}}

\* "newExercise" triggers contain no "exercise" trigger; "skip" messages may
\* also match "next".
MCMessages ==
  {{"skip", "next"}, {"next"}, {"exercise"}, {"newExercise"}, {"back"},
   {"realWorld"}, {}}
MCQuestions == MCMessages \cup {{"question"}}
=============================================================================
