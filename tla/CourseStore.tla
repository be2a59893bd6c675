---------------------------- MODULE CourseStore ----------------------------
(***************************************************************************)
(* The courses of one learner as rows of the database, and the operations  *)
(* that replace or rewrite them while the learner goes on learning:        *)
(* building, regenerating and deleting (api/handler.go), merging a subtopic *)
(* into its root (api/domain_build_helpers.go), extending and optimizing   *)
(* in place (storage/domain_extend.go), with the migration of progress and *)
(* sessions (storage/progress_migrate.go, session_migrate.go, domains.go). *)
(*                                                                         *)
(* Every statement or transaction is a step; LLM calls lie between them.   *)
(* A stop of the process ends an operation where it is, as errors do.      *)
(* Nodes keep their keys here: what titles can place is in CourseTree.     *)
(***************************************************************************)
EXTENDS Integers, FiniteSets

CONSTANTS
  Courses,    \* domain ids, numbers in the order they are given out
  Tasks,      \* requests and jobs working on courses
  Threads,    \* teaching sessions
  NodeOf,     \* [Threads -> node keys]
  Outlines,   \* node sets an LLM answer may have
  FirstNodes, \* nodes of the course the learner starts with
  ExtraNode,  \* what an extension adds
  Topics,     \* slugs a request resolves to
  FirstTopic, RootTopic

ASSUME StoreAssumption ==
  /\ Courses \subseteq Nat \ {0} /\ 1 \in Courses   \* 0: no such row
  /\ Tasks \subseteq Nat
  /\ FirstTopic \in Topics /\ RootTopic \in Topics

VARIABLES
  course,   \* domains rows with their user_progress
  task,     \* local variables of each operation
  at,       \* sessions: domain_id of each, 0 when the row is gone
  turn,     \* the domain id a coach turn has read, 0 between turns
  earned,   \* ghost: <<line, key>> lit outside of any migration
  expected, \* ghost: sessions nobody asked to give up
  excused   \* ghost: lines the learner gave up

storeVars == <<course, task, at, turn, earned, expected, excused>>

NoCourse == [live |-> FALSE, slug |-> "none", nodes |-> {}, version |-> 0,
             done |-> {}, line |-> 0]
NoTask == [pc |-> "idle", kind |-> "none", old |-> 0, slug |-> "none",
           nodes |-> {}, version |-> 0, new |-> 0, valid |-> {},
           list |-> {}, rows |-> {}]

Live == {c \in Courses : course[c].live}
Unused == {c \in Courses : course[c].version = 0}
Taken(slug) == \E c \in Live : course[c].slug = slug
Subtopic(c) == course[c].slug \in Topics \ {RootTopic}

\* A course half of whose rows are elsewhere.
Source(c) == \E t \in Tasks : /\ task[t].old = c
                              /\ task[t].pc \in {"insert", "select", "move", "delete"}
Target(c) == \E t \in Tasks : task[t].new = c /\ task[t].pc \notin {"idle", "end"}

At(t, pc) == task[t].pc = pc
To(t, pc) == task' = [task EXCEPT ![t].pc = pc]
Ends(t) == task' = [task EXCEPT ![t] = [NoTask EXCEPT !.pc = "end"]]
Idle(t) == At(t, "idle") /\ \A u \in Tasks : u < t => ~At(u, "idle")
Building(t, slug) ==
  task' = [task EXCEPT ![t] = [NoTask EXCEPT !.pc = "create", !.kind = "build",
                                             !.slug = slug]]

\* DeleteDomain in one transaction; an unknown id is an error.
Deleted(c) ==
  IF c \in Live
  THEN [course EXCEPT ![c] = [@ EXCEPT !.live = FALSE, !.slug = "none",
                                       !.nodes = {}, !.done = {}]]
  ELSE course
WithoutSessions(c) ==
  IF c \in Live THEN [s \in Threads |-> IF at[s] = c THEN 0 ELSE at[s]] ELSE at
-----------------------------------------------------------------------------
StoreInit ==
  /\ course = [c \in Courses |->
       IF c = 1 THEN [live |-> TRUE, slug |-> FirstTopic, nodes |-> FirstNodes,
                      version |-> 1, done |-> {}, line |-> 1]
       ELSE NoCourse]
  /\ task = [t \in Tasks |-> NoTask]
  /\ at = [s \in Threads |-> 1]
  /\ turn = [s \in Threads |-> 0]
  /\ earned = {} /\ expected = Threads /\ excused = {}

\* The operation reads the course; its LLM calls follow.
Begin(t, kind, c) ==
  /\ Idle(t) /\ c \in Live
  /\ kind = "merge" => Subtopic(c)
  /\ task' = [task EXCEPT ![t] =
       [NoTask EXCEPT
          !.pc = CASE kind = "regenerate" -> "clear"
                   [] kind = "merge" -> "create"
                   [] OTHER -> "write",
          !.kind = kind, !.old = c, !.nodes = course[c].nodes,
          !.version = course[c].version,
          !.slug = IF kind = "merge" THEN RootTopic ELSE course[c].slug]]
  /\ excused' = IF Target(c) /\ kind \in {"regenerate", "merge"}
                THEN excused \cup {course[c].line} ELSE excused
  /\ UNCHANGED <<course, at, turn, earned, expected>>

\* A build of a topic whose subtopic the learner has is answered with that
\* course, unless the learner wants both; merging them is a Begin.
BuildDomain(t, slug) ==
  /\ Idle(t)
  /\ \/ /\ slug = RootTopic
        /\ \E c \in Live : Subtopic(c)
        /\ Ends(t)
     \/ Building(t, slug)
  /\ UNCHANGED <<course, at, turn, earned, expected, excused>>

\* A build from a PDF or a page offers no related course.
BuildDomainFromSource(t, slug) ==
  /\ Idle(t)
  /\ Building(t, slug)
  /\ UNCHANGED <<course, at, turn, earned, expected, excused>>

DeletesFirst(t) ==    \* mutant: the old course makes room for the new one at once
  /\ At(t, "clear")
  /\ course' = Deleted(task[t].old) /\ at' = WithoutSessions(task[t].old)
  /\ IF task[t].old \in Live THEN To(t, "create") ELSE Ends(t)
  /\ UNCHANGED <<turn, earned, expected, excused>>

ClearDomainSlug(t) ==
  /\ At(t, "clear")
  /\ LET c == task[t].old
     IN IF c \in Live
        THEN course' = [course EXCEPT ![c].slug = "none"] /\ To(t, "create")
        ELSE UNCHANGED course /\ Ends(t)
  /\ UNCHANGED <<at, turn, earned, expected, excused>>

\* The build failed, or a course has the slug by now: it is returned, or the
\* unique index stops a build that is forced.
CreateFails(t) ==
  /\ At(t, "clear") \/ At(t, "create")
  /\ Ends(t)
  /\ UNCHANGED <<course, at, turn, earned, expected, excused>>

\* A regenerated course without a slug gets one from the intent of its name.
CreateDomainFromTree(t) ==
  /\ At(t, "create")
  /\ \E slug \in IF task[t].slug = "none" THEN Topics ELSE {task[t].slug},
        outline \in Outlines, c \in Unused :
       /\ ~Taken(slug)
       /\ \A d \in Unused : c <= d
       /\ course' = [course EXCEPT ![c] =
            [live |-> TRUE, slug |-> slug, version |-> 1, done |-> {},
             nodes |-> IF task[t].kind = "merge"
                       THEN outline \cup task[t].nodes ELSE outline,
             line |-> IF task[t].kind = "build" THEN c
                      ELSE course[task[t].old].line]]
       /\ IF task[t].kind = "build" THEN Ends(t)
          ELSE task' = [task EXCEPT ![t] = [@ EXCEPT
                 !.pc = "list", !.new = c,
                 !.valid = IF task[t].kind = "merge" THEN task[t].nodes ELSE outline]]
  /\ UNCHANGED <<at, turn, earned, expected, excused>>

ListsNew(t) ==    \* mutant: the rows of the new course are listed
  /\ At(t, "list")
  /\ task' = [task EXCEPT ![t].pc = "insert", ![t].list = course[task[t].new].done]
  /\ UNCHANGED <<course, at, turn, earned, expected, excused>>

\* The list is read before the transaction that inserts it begins.
ListProgress(t) ==
  /\ At(t, "list")
  /\ task' = [task EXCEPT ![t].pc = "insert", ![t].list = course[task[t].old].done]
  /\ UNCHANGED <<course, at, turn, earned, expected, excused>>

MigrateProgress(t) ==
  /\ At(t, "insert")
  /\ LET kept == task[t].list \cap task[t].valid
     IN /\ kept # {} => task[t].new \in Live
        /\ course' = [course EXCEPT ![task[t].new].done = @ \cup kept]
        /\ earned' = {e \in earned : e \notin {course[task[t].old].line}
                                              \X (task[t].list \ kept)}
  /\ To(t, "select")
  /\ UNCHANGED <<at, turn, expected, excused>>

SelectSessions(t) ==
  /\ At(t, "select")
  /\ task' = [task EXCEPT ![t].pc = "move",
                          ![t].rows = {s \in Threads : at[s] = task[t].old}]
  /\ UNCHANGED <<course, at, turn, earned, expected, excused>>

\* Sessions are updated by id, wherever they are by now.
MigrateSessions(t) ==
  /\ At(t, "move")
  /\ LET moved == {s \in task[t].rows : NodeOf[s] \in task[t].valid}
     IN /\ (\E s \in moved : at[s] # 0) => task[t].new \in Live
        /\ at' = [s \in Threads |-> IF s \in moved /\ at[s] # 0
                                    THEN task[t].new ELSE at[s]]
        /\ expected' = expected \ (task[t].rows \ moved)
  /\ To(t, "delete")
  /\ UNCHANGED <<course, turn, earned, excused>>

\* A failed migration deletes the new course, if that works.
MigrationFails(t) ==
  /\ task[t].pc \in {"list", "insert", "select", "move"}
  /\ \/ course' = Deleted(task[t].new) /\ at' = WithoutSessions(task[t].new)
     \/ UNCHANGED <<course, at>>
  /\ Ends(t)
  /\ UNCHANGED <<turn, earned, expected, excused>>

DeleteOld(t) ==
  /\ At(t, "delete")
  /\ \/ course' = Deleted(task[t].old) /\ at' = WithoutSessions(task[t].old)
     \/ UNCHANGED <<course, at>>
  /\ Ends(t)
  /\ UNCHANGED <<turn, earned, expected, excused>>

WritesOnlyAdded(t) ==    \* mutant: the delta is written in place of the merged tree
  /\ At(t, "write")
  /\ LET c == task[t].old
         added == IF task[t].kind = "extend" THEN {ExtraNode} ELSE {}
     IN \/ /\ c \in Live
           /\ course' = [course EXCEPT ![c] = [@ EXCEPT
                !.nodes = added, !.version = course[c].version + 1]]
        \/ UNCHANGED course
  /\ Ends(t)
  /\ UNCHANGED <<at, turn, earned, expected, excused>>

\* Extending and optimizing write back the whole tree they read.
UpdateDomainTreeInPlace(t) ==
  /\ At(t, "write")
  /\ LET c == task[t].old
         added == IF task[t].kind = "extend" THEN {ExtraNode} ELSE {}
     IN \/ /\ c \in Live
           /\ course' = [course EXCEPT ![c] = [@ EXCEPT
                !.nodes = task[t].nodes \cup added, !.version = course[c].version + 1]]
        \/ UNCHANGED course
  /\ Ends(t)
  /\ UNCHANGED <<at, turn, earned, expected, excused>>

\* The learner removes the course.
DeleteCourse(c) ==
  /\ c \in Live
  /\ course' = Deleted(c) /\ at' = WithoutSessions(c)
  /\ excused' = excused \cup {course[c].line}
  /\ UNCHANGED <<task, turn, earned, expected>>

\* A message of the learner: the session is read, the coach thinks, ...
TurnReads(s) ==
  /\ turn[s] = 0 /\ at[s] # 0
  /\ turn' = [turn EXCEPT ![s] = at[s]]
  /\ UNCHANGED <<course, task, at, earned, expected, excused>>

\* ... and progress is written under the domain id that was read, unless that
\* row is gone (foreign keys).
TurnLights(s) ==
  /\ turn[s] # 0
  /\ LET c == turn[s]
     IN /\ course' = IF c \in Live
                     THEN [course EXCEPT ![c].done = @ \cup {NodeOf[s]}] ELSE course
        /\ earned' = IF c \in Live /\ ~Source(c) /\ ~Target(c)
                     THEN earned \cup {<<course[c].line, NodeOf[s]>>} ELSE earned
  /\ turn' = [turn EXCEPT ![s] = 0]
  /\ UNCHANGED <<task, at, expected, excused>>

StoreNext ==
  \/ \E t \in Tasks :
       \/ \E kind \in {"regenerate", "merge", "extend", "apply"}, c \in Courses :
            Begin(t, kind, c)
       \/ \E slug \in Topics : BuildDomain(t, slug) \/ BuildDomainFromSource(t, slug)
       \/ ClearDomainSlug(t) \/ CreateFails(t)
       \/ CreateDomainFromTree(t) \/ ListProgress(t) \/ MigrateProgress(t)
       \/ SelectSessions(t) \/ MigrateSessions(t) \/ MigrationFails(t)
       \/ DeleteOld(t) \/ UpdateDomainTreeInPlace(t)
  \/ \E c \in Courses : DeleteCourse(c)
  \/ \E s \in Threads : TurnReads(s) \/ TurnLights(s)

StoreSpec == StoreInit /\ [][StoreNext]_storeVars
-----------------------------------------------------------------------------
(* Properties.                                                             *)

\* A failed, interrupted or repeated regeneration or merge never leaves the
\* learner without the course (the comments before buildDomainForRegenerate's
\* call): only the learner gives one up.
CourseSurvives ==
  \A c \in Courses \ Unused :
    \/ course[c].line \in excused
    \/ \E d \in Live : course[d].line = course[c].line

\* A node that was lit while its course was not being migrated stays lit, in
\* the course or in the one that replaced it, unless the new tree is without it.
EarnedSurvives ==
  \A e \in earned :
    \/ e[1] \in excused
    \/ \E c \in Live : course[c].line = e[1] /\ e[2] \in course[c].done

\* The sessions go with the course, messages and all, unless the new tree is
\* without their node.
SessionsFollow ==
  \A s \in expected : \/ course[1].line \in excused
                      \/ at[s] \in Live

\* Nothing the learner did is lost in a replacement, failed and interrupted
\* ones included: neither lit nodes nor sessions (MigrateProgressByNodeKey,
\* MigrateSessionsByNodeKey, the deletion of the old course).
LearningSurvives == EarnedSurvives /\ SessionsFollow

\* Writing a tree back takes nothing away, unless another operation wrote to
\* the course since it was read.
UpdatesOnlyAdd ==
  [][\A c \in Live :
       \/ course'[c].version = course[c].version
       \/ course[c].nodes \subseteq course'[c].nodes
       \/ \E t \in Tasks : /\ At(t, "write") /\ task'[t].pc = "end"
                           /\ task[t].old = c
                           /\ task[t].version < course[c].version]_storeVars
=============================================================================
