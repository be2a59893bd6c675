------------------------- MODULE PlanningAssistant -------------------------
(***************************************************************************)
(* The planning assistant: a learner talks about what is on their plate,   *)
(* the LLM answers or makes a plan, and the learner pins the goal and      *)
(* ticks items of it (service/planning.go, agent/planner.go,               *)
(* agent/planner_normalize.go, storage/planning.go, api/planning.go).      *)
(*                                                                         *)
(* Of a plan, what other state refers to is kept: the items of today,      *)
(* whose ticks are stored by position, the one learning item with the      *)
(* course it points to, and what the learner has set.  An answer of the    *)
(* LLM lies between the read of the row and its write; messages and        *)
(* patches of one session take its lock, starting and archiving do not.    *)
(***************************************************************************)
EXTENDS Integers, Sequences, SequencesExt, FiniteSets, Places

CONSTANTS
  Callers,      \* request goroutines of one learner
  Catalog,      \* courses a plan may point to
  Outputs,      \* plans the LLM may answer with
  MaxPlanningSessions, MaxPlans    \* bounds

MaxToday == 3   \* maxPlanningTodayItems

\* An item, an area to learn and a plan; kind "" is any other word, title 0 is
\* blank, course 0 is none.
Item == [kind : {"learning", "task", ""}, title : Nat]
LearningArea == [title : Nat, match : Nat]
Plan == [today : Seq(Item), learn : Nat, match : Nat, areas : Seq(LearningArea),
         pin : BOOLEAN, ticks : SUBSET Nat, made : Nat]

ASSUME PlanningAssumption ==
  /\ Catalog \subseteq Nat \ {0}
  /\ Outputs \subseteq Plan
  /\ MaxPlanningSessions \in Nat /\ MaxPlans \in Nat

\* No plan: plan_json is '{}'.
NoPlanYet == [today |-> <<>>, learn |-> 0, match |-> 0, areas |-> <<>>,
              pin |-> FALSE, ticks |-> {}, made |-> 0]

VARIABLES
  plans,    \* planning_sessions: phase, status, plan
  recent,   \* their ids, the one updated last at the end
  locked,   \* sessions whose lock is held
  call,     \* the goroutines: where they are and their copy of the row
  catalog,  \* courses that exist
  overlap,  \* history: some message or start overlapped an archiving
  wanted    \* history: what the learner last set in each session

planVars == <<plans, recent, locked, call, catalog, overlap, wanted>>

Away == [at |-> "idle", id |-> 0, row |-> [phase |-> "intake", status |-> "active",
                                           plan |-> NoPlanYet]]

PlanningInit ==
  /\ plans = <<>> /\ recent = <<>> /\ locked = {}
  /\ call = [r \in Callers |-> Away]
  /\ catalog = Catalog
  /\ overlap = FALSE
  /\ wanted = <<>>
-----------------------------------------------------------------------------
(* The shape of a plan.                                                    *)

IsLearning(item) == item.kind = "learning"

AsTask(item) == [kind |-> "task", title |-> item.title]

\* The positions of the learning items.
Learning(today) == {i \in DOMAIN today : IsLearning(today[i])}

UpTo(seq) == SubSeq(seq, 1, IF Len(seq) < MaxToday THEN Len(seq) ELSE MaxToday)

LimitNothing(today) == today    \* mutant: the answer's items are taken as they are

\* The first learning item, then the others as tasks, three in all.
LimitTodayActions(today) ==
  LET learning == Learning(today)
      tasks == (DOMAIN today) \ learning
  IN UpTo((IF learning = {} THEN <<>> ELSE <<today[Min(learning)]>>)
          \o [i \in 1 .. Cardinality(tasks) |-> AsTask(today[InOrder(tasks)[i]])])

Known(courses, c) == IF c \in courses THEN c ELSE 0

\* sanitizeLearningFocus and sanitizeTodayLearningMatch: a course that is gone
\* is forgotten.
Sanitized(courses, p) ==
  [p EXCEPT !.match = Known(courses, @),
            !.areas = [i \in DOMAIN @ |->
                         [title |-> @[i].title, match |-> Known(courses, @[i].match)]]]

\* ensureFocus: today's learning is what the LLM named, else today's learning
\* item, else the first area to learn.
EnsureFocus(p) ==
  LET items == Learning(p.today)
      area == IF p.areas = <<>> THEN [title |-> 0, match |-> 0] ELSE p.areas[1]
  IN CASE p.learn # 0 -> p
       [] p.learn = 0 /\ items # {} ->
            [p EXCEPT !.learn = p.today[Min(items)].title, !.match = area.match]
       [] OTHER -> [p EXCEPT !.learn = area.title,
                             !.match = IF area.title = 0 THEN @ ELSE area.match]

SyncByPrepending(p) ==    \* mutant: the learning item is put first without looking for one
  IF p.learn = 0 THEN p
  ELSE [p EXCEPT
    !.areas = <<[title |-> p.learn, match |-> p.match]>>,
    !.today = UpTo(<<[kind |-> "learning", title |-> p.learn]>> \o @)]

\* Today's learning becomes the only area, and an item of today.
SyncLearningFocusFromToday(p) ==
  IF p.learn = 0 THEN p
  ELSE [p EXCEPT
    !.areas = <<[title |-> p.learn, match |-> p.match]>>,
    !.today = IF Learning(@) # {}
              THEN [i \in DOMAIN @ |-> IF IsLearning(@[i])
                                       THEN [@[i] EXCEPT !.title = p.learn] ELSE @[i]]
              ELSE UpTo(<<[kind |-> "learning", title |-> p.learn]>> \o @)]

\* HydrateLegacyPlan, also the first part of NormalizePlanningResult.
Hydrated(courses, plan) ==
  LET p == Sanitized(courses, plan)
  IN SyncLearningFocusFromToday(
       EnsureFocus([p EXCEPT !.today = LimitTodayActions(@)]))

\* NormalizePlanningResult: what the learner set is reset.
Normalized(courses, plan) ==
  [Hydrated(courses, plan) EXCEPT !.pin = FALSE, !.ticks = {}]
-----------------------------------------------------------------------------
Stands(r, step) == call[r].at = step
Leaves(r) == call' = [call EXCEPT ![r] = Away]

\* An UPDATE makes a session the one updated last.
Latest(s) == Append(SelectSeq(recent, LAMBDA i : i # s), s)

Store(s, row) ==
  /\ plans' = [plans EXCEPT ![s] = row]
  /\ recent' = Latest(s)

Active == {s \in DOMAIN plans : plans[s].status = "active"}

\* Without forceNew an active session is resumed; its plan is hydrated for the
\* answer only.
FindsNoActive(r, forceNew) ==
  /\ Stands(r, "idle")
  /\ forceNew \/ Active = {}
  /\ call' = [call EXCEPT ![r].at = "create"]
  /\ UNCHANGED <<plans, recent, locked, catalog, overlap, wanted>>

CreatePlanningSession(r) ==
  /\ Stands(r, "create")
  /\ Len(plans) < MaxPlanningSessions
  /\ plans' = Append(plans, Away.row)
  /\ recent' = Append(recent, Len(plans) + 1)
  /\ wanted' = Append(wanted, [pin |-> FALSE, ticks |-> {}])
  /\ call' = [call EXCEPT ![r].at = "archive", ![r].id = Len(plans) + 1]
  /\ UNCHANGED <<locked, catalog, overlap>>

Archived(keep) ==
  [s \in DOMAIN plans |-> IF s = keep THEN plans[s]
                          ELSE [plans[s] EXCEPT !.status = "archived"]]

ArchiveNone(r) ==    \* mutant: a new session leaves the others active
  /\ Stands(r, "archive")
  /\ UNCHANGED plans
  /\ overlap' = (overlap \/ \E q \in Callers \ {r} : ~Stands(q, "idle"))
  /\ Leaves(r)
  /\ UNCHANGED <<recent, locked, catalog, wanted>>

\* The other sessions are archived; an error is ignored.
ArchiveOtherPlanningSessions(r) ==
  /\ Stands(r, "archive")
  /\ \/ /\ plans' = Archived(call[r].id)
        /\ overlap' = (overlap \/ \E q \in Callers \ {r} : ~Stands(q, "idle"))
     \/ UNCHANGED plans /\ overlap' = TRUE
  /\ Leaves(r)
  /\ UNCHANGED <<recent, locked, catalog, wanted>>

\* A message refuses a session whose lock is held (ErrSessionBusy), a patch
\* waits for it; both refuse one that is not active.
Reads(r, s, step) ==
  /\ Stands(r, "idle")
  /\ s \in Active /\ s \notin locked
  /\ locked' = locked \cup {s}
  /\ call' = [call EXCEPT ![r] = [at |-> step, id |-> s, row |-> plans[s]]]
  /\ UNCHANGED <<plans, recent, catalog, overlap, wanted>>

SendPlanningMessage(r, s) == Reads(r, s, "think")

PatchWithoutLock(r, s) ==    \* mutant: the patch takes no lock
  /\ s \in DOMAIN plans /\ plans[s].plan.made > 0
  /\ Stands(r, "idle")
  /\ s \in Active
  /\ call' = [call EXCEPT ![r] = [at |-> "patch", id |-> s, row |-> plans[s]]]
  /\ UNCHANGED <<plans, recent, locked, catalog, overlap, wanted>>

\* There must be a plan to patch.
PatchPlanningFocus(r, s) ==
  /\ s \in DOMAIN plans /\ plans[s].plan.made > 0
  /\ Reads(r, s, "patch")

Unlocks(r) == locked' = locked \ {call[r].id} /\ Leaves(r)

\* The LLM answers, in the intake or about the plan there is; the row is
\* written back as it was read, status included.
AnswersOnly(r) ==
  /\ Stands(r, "think")
  /\ Store(call[r].id, call[r].row)
  /\ Unlocks(r)
  /\ UNCHANGED <<catalog, overlap, wanted>>

\* It makes a plan: asked for in words, or found ready in the intake.
Synthesizes(r, output) ==
  /\ Stands(r, "think")
  /\ call[r].row.plan.made < MaxPlans
  /\ LET plan == [Normalized(catalog, output) EXCEPT !.made = call[r].row.plan.made + 1]
     IN /\ Store(call[r].id, [call[r].row EXCEPT !.phase = "plan_ready", !.plan = plan])
        /\ wanted' = [wanted EXCEPT ![call[r].id] = [pin |-> FALSE, ticks |-> {}]]
  /\ Unlocks(r)
  /\ UNCHANGED <<catalog, overlap>>

\* An error of the LLM or of an insert before the UPDATE.
MessageFails(r) ==
  /\ Stands(r, "think")
  /\ Unlocks(r)
  /\ UNCHANGED <<plans, recent, catalog, overlap, wanted>>

\* The plan is hydrated and stored so, with the pin or a tick changed.
ApplyPlanningFocusPatch(r, pin, tick) ==
  /\ Stands(r, "patch")
  /\ LET s == call[r].id
         plan == [Hydrated(catalog, call[r].row.plan) EXCEPT
                    !.pin = pin, !.ticks = @ \cup tick]
     IN /\ Store(s, [call[r].row EXCEPT !.plan = plan])
        /\ wanted' = [wanted EXCEPT ![s].pin = pin, ![s].ticks = @ \cup tick]
  /\ Unlocks(r)
  /\ UNCHANGED <<catalog, overlap>>

CourseDeleted(c) ==
  /\ catalog' = catalog \ {c}
  /\ UNCHANGED <<plans, recent, locked, call, overlap, wanted>>

PlanningNext ==
  \/ \E c \in catalog : CourseDeleted(c)
  \/ \E r \in Callers :
       \/ CreatePlanningSession(r) \/ ArchiveOtherPlanningSessions(r)
       \/ AnswersOnly(r) \/ MessageFails(r)
       \/ \E forceNew \in BOOLEAN : FindsNoActive(r, forceNew)
       \/ \E s \in DOMAIN plans : SendPlanningMessage(r, s) \/ PatchPlanningFocus(r, s)
       \/ \E output \in Outputs : Synthesizes(r, output)
       \/ ApplyPlanningFocusPatch(r, TRUE, {}) \/ ApplyPlanningFocusPatch(r, FALSE, {1})

PlanningSpec == PlanningInit /\ [][PlanningNext]_planVars
-----------------------------------------------------------------------------
(* Properties.                                                             *)

\* A stored plan is one the page can show: ready exactly when there is one,
\* three items at most, one of them for learning, the one in focus.
PlanWellFormed ==
  \A s \in DOMAIN plans :
    LET p == plans[s].plan
        learning == Learning(p.today)
    IN /\ (plans[s].phase = "plan_ready") = (p.made > 0)
       /\ Len(p.today) <= MaxToday /\ Cardinality(learning) <= 1
       /\ p.learn # 0 => \E i \in learning : p.today[i].title = p.learn

\* What the learner pinned or ticked stays until a new plan is made, whatever
\* messages are being answered (PatchPlanningFocus, SendPlanningMessage).
PinSurvives ==
  \A s \in DOMAIN plans : /\ plans[s].plan.pin = wanted[s].pin
                          /\ plans[s].plan.ticks = wanted[s].ticks

\* Ticks are stored by position ("today:1"): until a new plan is made, no
\* hydration moves an item of today, whatever happened to the courses.
TicksKeepTheirItems ==
  [][\A s \in DOMAIN plans :
       plans'[s].plan.made = plans[s].plan.made
         => plans'[s].plan.today = plans[s].plan.today]_planVars

\* A fresh start is the only active session: what is resumed later is it, and
\* not an older one, unless a request overlapped the archiving
\* (ArchiveOtherPlanningSessions, FindActivePlanningSession).
FreshStartHolds ==
  ~overlap /\ (\A r \in Callers : ~Stands(r, "archive")) => Cardinality(Active) <= 1
=============================================================================
