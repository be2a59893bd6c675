----------------------------- MODULE MCCourses -----------------------------
(***************************************************************************)
(* The modules about courses, each on a small instance: their trees, their *)
(* rows, the way to them through a chat, the plans that point to them, and *)
(* the sidebar that recommends them.                                       *)
(* A behaviour is one of the module that `focus` names; the others stay as *)
(* they are.                                                               *)
(***************************************************************************)
EXTENDS CourseTree, CourseStore, ImRouter, PlanningAssistant, LearningShortcuts

VARIABLE focus

courseVars == <<focus, treeVars, storeVars, imVars, planVars, shortcutVars>>

CoursesInit ==
  /\ TreeInit /\ StoreInit /\ RouterInit /\ PlanningInit /\ ShortcutsInit
  /\ focus \in {"tree", "store", "router", "planning", "shortcuts"}
  /\ focus # "shortcuts" => planFor = 0 /\ \A c \in Shelf : done[c] = 0

CoursesNext ==
  /\ UNCHANGED focus
  /\ \/ /\ focus = "tree" /\ TreeNext
        /\ UNCHANGED <<storeVars, imVars, planVars, shortcutVars>>
     \/ /\ focus = "store" /\ StoreNext
        /\ UNCHANGED <<treeVars, imVars, planVars, shortcutVars>>
     \/ /\ focus = "router" /\ RouterNext
        /\ UNCHANGED <<treeVars, storeVars, planVars, shortcutVars>>
     \/ /\ focus = "planning" /\ PlanningNext
        /\ UNCHANGED <<treeVars, storeVars, imVars, shortcutVars>>
     \/ /\ focus = "shortcuts" /\ ShortcutsNext
        /\ UNCHANGED <<treeVars, storeVars, imVars, planVars>>

\* The goroutines that handle messages are alike: they are only quantified over.
Alike == Permutations(Slots)

CoursesSpec == CoursesInit /\ [][CoursesNext]_courseVars
-----------------------------------------------------------------------------

Untitled == [k \in 1..9 |-> k]
Full == [has |-> [f \in Fields |-> "full"], requires |-> {}, concepts |-> TRUE]
Mod(nodes) == [order |-> 0, named |-> TRUE, nodes |-> nodes]
Three(e, i, a) == [l \in {"entry", "intermediate", "advanced"} |->
                     IF l = "entry" THEN e ELSE IF l = "intermediate" THEN i ELSE a]

\* Answers of the LLM: one with a ghost, a node in two modules, an orphan and
\* prerequisites that do not exist; one that renames a node; one that lists a
\* node twice; one without a spec.
MCBuildOutputs ==
  {[layers |-> Three(<<1, 2>>, <<3>>, <<4>>), title |-> Untitled,
    mods |-> <<Mod({1, 9}), Mod({1, 2}), Mod({9})>>,
    specs |-> [k \in 1..4 |-> IF k = 3
                             THEN [Full EXCEPT !.requires = {1, 9},
                                               !.has = [f \in Fields |-> "empty"]]
                             ELSE Full]],
   [layers |-> Three(<<5>>, <<1, 3>>, <<1>>), title |-> [Untitled EXCEPT ![5] = 2],
    mods |-> <<Mod({5, 3}), Mod({1})>>,
    specs |-> [k \in {1, 3, 5} |-> Full]],
   [layers |-> Three(<<1>>, <<2>>, <<3>>), title |-> Untitled,
    mods |-> <<Mod({1, 2}), Mod({3})>>,
    specs |-> [k \in {1, 2} |-> Full]]}

MCExtendOutputs ==
  {[layers |-> Three(<<>>, <<5, 6>>, <<7, 8>>), title |-> Untitled,
    mods |-> <<Mod({5, 8}), Mod({7})>>,
    specs |-> [k \in 5..8 |-> Full]],
   [layers |-> Three(<<>>, <<>>, <<6>>), title |-> Untitled, mods |-> <<>>,
    specs |-> [k \in {1, 6} |-> [Full EXCEPT !.requires = {9}]]],
   [layers |-> Three(<<1>>, <<>>, <<4>>), title |-> Untitled, mods |-> <<>>,
    specs |-> [k \in {1, 4} |-> Full]],
   [layers |-> Three(<<>>, <<>>, <<4>>), title |-> Untitled, mods |-> <<>>,
    specs |-> [k \in {4} |-> Full]]}

MCPack ==
  [layers |-> Three(<<1>>, <<2>>, <<3>>), title |-> Untitled,
   mods |-> <<Mod({1}), Mod({2, 3})>>,
   specs |-> [k \in 1..3 |-> IF k = 3 THEN [Full EXCEPT !.requires = {1}] ELSE Full]]

MCSelections == {[selected |-> {1, 3, 9}, order |-> <<3>>],
                 [selected |-> {9}, order |-> <<>>]}
-----------------------------------------------------------------------------
MCNodeOf == [s \in {2} |-> 2]
-----------------------------------------------------------------------------
MCOwnerOf == [c \in {1, 2} |-> "u1"]
MCReplacementOf == [c \in {1} |-> 2]
MCLastNode == <<3, 1>>
-----------------------------------------------------------------------------
MCSizeOf == [c \in {11, 12, 13} |-> IF c = 11 THEN 2 ELSE 1]
-----------------------------------------------------------------------------
Learn(t) == [kind |-> "learning", title |-> t]
Do(t) == [kind |-> "task", title |-> t]
Area(t, c) == [title |-> t, match |-> c]
Answer(today, learn, match, areas) ==
  [today |-> today, learn |-> learn, match |-> match, areas |-> areas,
   pin |-> TRUE, ticks |-> {2}, made |-> 0]

\* Answers of the planner: too many items of which two are for learning; a
\* focus without an item; nothing for learning but two areas, one unknown.
MCOutputs ==
  {Answer(<<Do(1), Do(2), Learn(3), Learn(4)>>, 0, 0, <<Area(5, 7)>>),
   Answer(<<Do(1), Do(2), Do(3), [kind |-> "", title |-> 4]>>, 6, 7, <<>>),
   Answer(<<Do(1)>>, 0, 0, <<Area(5, 7), Area(6, 9)>>)}
=============================================================================
