# Formal models of Regulus Academy

Regulus Academy is a learning platform: an LLM builds a course (a tree of nodes in layers), a
coach teaches each node in a chat session (explain, exercise, grade, light the node), and a web
server, an IM gateway, a CLI and an MCP server share one SQLite database and one coach. This
directory holds TLA+ models of the program's own logic, TLC runs on small instances, and TLAPS
proofs. Paths below are relative to the repository.

## 1. Inventory

| part | state it keeps | operations | what makes it hard | what makes it correct |
|---|---|---|---|---|
| Teaching state machine, `internal/agent/coach*.go`, `completion_readiness.go`, `mastery_skip.go`, `concept_*.go`, `exercise_*.go`, `gap_ledger.go` | the row of a session (phase, status, `context_json`), `user_progress`, `mistakes`, `knowledge_gaps` | `HandleMessage` and its dozen handlers | every LLM answer or failure; several statements per handler with LLM calls between them; flags that outlive the message that set them | a node is lit on real grounds; nothing earned is lost; a refusal is honest and keeps its gaps; a closed session is lit |
| Session service, `internal/service/session.go`, `agent/coach_next.go`, `domain/tree_nav.go` | a lock per session id, `sessions`, `session_messages` | `StartOrResumeSession`, `StartNextNode`, `sendCoachMessage` | requests of several tabs and entries; read, think for a minute, write back | whole turns, no lost credit, no downgrade of rebuilt progress, locks always released |
| Course jobs, `internal/api/domain_*.go`, `storage/domain_build_job.go`, `cloud/buildlimit.go` | `domain_build_jobs`, `domains.tree_json`, `tree_version`, a semaphore | build, extend, audit, optimize, asynchronously | admission checked before the work starts; whole-tree writes after minutes; crashes | no change of a tree is lost, a slot is returned once, a user is not locked out |
| Regeneration and merging, `internal/api/handler.go`, `storage/*_migrate.go` | `domains`, progress, sessions | `regenerateDomain`, `mergeExistingSubtopicDomain` | seven statements without a transaction; learning goes on meanwhile | completed nodes survive, no learning is deleted |
| Learner profile and notes, `internal/agent/profile_*.go`, `note_distill.go` | profile summaries | refresh after each lit node, in the background | answers out of order | a newer summary is not overwritten by an older one |
| Cloud limits, `internal/cloud` | daily counters, fixed windows, last-seen throttle | check, record | check before, record after | bounded use |
| IM channel, `internal/channel` | bindings, bind codes, active node, pending navigation | routing of messages, navigation, binding | a second entry to the same sessions | one user per account, codes used once |
| Planning assistant, `internal/service/planning.go`, `agent/planner*.go` | planning sessions | a second phase machine | lock of the same form | plans confirmed once |
| Aside threads, `internal/service/aside.go` | threads, term cards, gaps of their own source | look-ups beside the lesson | streaming | gaps only closed at their node |
| Learning shortcuts, `internal/service/shortcuts.go` | last visits (`user_domain_access`) | last lesson, recommended courses | five reads while other tabs write | no course twice, nothing finished, nothing left out |
| Database schema, `internal/storage/sqlite.go`, `storage/migrations` | the schema itself | every start runs every migration again | processes that start together or stop half way; nothing records what is done | an opened database is whole |
| CLI runtime and MCP, `internal/cliruntime`, `internal/mcpserver` | a local database, a link | learn, sync | two databases | progress merges upwards |
| Adapters, ingestion, configuration, observability, export, web client | - | I/O and formatting | - | not modelled |

How they interact: handlers of `internal/api` and `internal/channel` call the services; the services
call the coach under a lock; the coach reads and writes the tables directly and schedules profile
refreshes; everything else meets in the tables. `PROJECT.json` lists the hazards of this code line by
line, those no property covers yet included.

## 2. Modules

Each module models one part; the one thing shared is `Places`, how a loop keeps part of a slice
(`InOrder`, `Pick`). `MC*` modules give constants their values. Every definition that stands for code is listed in `PROJECT.json` with its lines. Operators
whose comment says "mutant" are mistakes of the kind a change of the code could make; `PROJECT.json`
says which property each of them breaks.

**Learning.**

`CoachSession` (the teaching state machine). One session of one node. `session`, `progress`,
`mistakes` and `gaps` are the stored tables; `work` is the `*Session` and `*SessionContext` a handler
holds in memory, `pc` where it is. A message is a set of triggers it matches (`agent/intent.go`);
texts, prompts and names are left out. Each handler that writes once is one action (`CompletedQA`,
`ExplainQA`, `ExerciseBackToExplain`, `StartExercise`, `GradeInvalid`); those with several writes are
cut at each write: `GradeWrong`, `StoreBeforeSwap`, `SwapExercise`; `GradePass`, then
`AssessByRule | AssessReady | AssessFailed | AssessNotReady` (`tryCompleteAfterPass`,
`tryCompleteLegacySkip`), then `StoreWarning`, `RecordWarnedGaps` (`deferAfterReadiness`),
`ClearExercise`, `ChainExercise` (`gradePassChainNextExercise`), or `LightNode`, `CloseSession`,
`ResolveGaps` (`completeNode`). `Crash` loses `work` between any two of them. What the LLM does is a
choice: any exercise of `Shapes`, any verdict (overruled by the program on choice exercises with a
key), any set of weak concepts of `Findings`, ready or not, or an error. `hist` is history for the
properties: what was really answered correctly, on what grounds the node may be lit, which refusal
stands. Handlers that store nothing (`realWorldCase`, `blockStartNextUntilCompleted`, an LLM error
before the first write) are stuttering steps.

`SessionService` (requests around the lock). Requests are processes with local variables; one action
is one statement or one LLM call with the statement after it: `Open`, `Lookup`, `TouchSession`,
`CheckProgress`, `CreateCompleted`, `SettleCompleted`, `Create`, `MarkInProgress`, `Begin`
(`StartOrResumeSession`); `NextButton`, `ConfirmLit`, `Overwrite`, `PickNext` (`StartNextNode`); `Say`,
`GetSession`, the coach's writes, `PostUser`, `PostReply` (`sendCoachMessage`, with `SayNext` for
`startNextNode`). Rows keep the phase as learning or completed and, as `earned`, which turns the coach
has credited; `CoachSession` has the rest. `lock` is a table per service: the web handler and the IM
gateway each create one. `latest` stands for `ORDER BY updated_at DESC LIMIT 1`.

**Courses.**

`CourseTree` (the content of one course). The tree (layers of keys, titles, prerequisites, theme
modules), the specs of its nodes, its completed progress rows and the patches of finished optimize jobs.
Each operation is one step, with all its validation and repair: `BuildTree`, `OpenPack`,
`CreatePersonalizedDomain`, `UpdatePersonalizedDomain`, `LightNodeOf`, `ExtendDomain`, `OptimizeDomain`
(the patches), `ApplyPlan` (against the course as it is now), `RegenerateTree`, `MergeIntoRoot` (with
`MigrateProgressByNodeKey`). LLM answers are constants: ghosts, orphans, doubled nodes, prerequisites
that do not exist, a spec that is missing. `Parsed` is what parsing leaves of any of them, and all that is
assumed (`KeysAssumption`): layers are lists of keys, modules have an order, a name or none, and nodes.
`RepairModules` gives the nodes that no module names, one after another, to the module with the fewest nodes, then the
lowest order (`SmallestModule`). A spec is how well each of its `Fields` is filled (empty, thin, full): a patch is the
whole of a node as it was when the patch was made, with the answer of the LLM written over it, and applying it writes
every field that the patch does not leave empty, better or worse (`PatchedSpec`, `ApplyPatchFields`).

`CourseStore` (the rows of courses). The same operations cut into their statements, two at a time,
while a learner goes on: `Begin`, `ClearDomainSlug`, `CreateDomainFromTree`, `ListProgress`,
`MigrateProgress`, `SelectSessions`, `MigrateSessions`, `DeleteOld` for regenerating and merging,
`UpdateDomainTreeInPlace` for extending and optimizing, `BuildDomain`, `DeleteCourse`; `TurnReads` and
`TurnLights` are a chat turn that may straddle a replacement. A failed statement or a stop of the
process ends an operation where it is (`CreateFails`, `MigrationFails`). `line` says which courses
replace each other.

`BuildJobs` (admission and life of jobs): `CheckUserBuildRunning`, the checks, slot, row, usage and
goroutine of each of seven kinds of requests, as the steps of `Advance`; `FinishFails` (the last UPDATE
fails), `ProcessStops`. `BuildPromise` is the abstract specification: a request is refused or admitted
to one of so many places, turned away or accepted, ended, and its place given back. `Promise ==
INSTANCE BuildPromise WITH ...` maps `stage` to the outcome and `Holders` to the places held.

**Around them.**

`MessageQuota`: the check, the look-up of the model, the coach and the count of three calls, each a
step, with midnight, an administrator's reset, a user's own key, deletion and stops.
`ChannelBinding`: binding by name (`BindByName`) and by code (`RedeemReads`, `RedeemClaims`,
`BindsAccount`), codes being made and expiring, learners being deleted.
`ImRouter`: a goroutine per message, `handleLearn`, `handleNode`, `executeStartNode`, then `StartsSession` and
`ActivatesNode`, two statements; `handleChat`, then `SendCoachMessage`, `CoachReplies` or `CoachContinues` and
`CoachAnswered`; `handleNextSection`, then `StartsNext`. A goroutine holds the id of a session (`row`), which moves with
the session. Meanwhile courses are deleted and replaced: `CreateReplacement`, `ReadsProgress`, `MigratesProgress`,
`SelectsSessions` (the SELECT before the transaction), `MovesSessions` (the transaction, which reads the active node as it is by
then). A repeated delivery is the same message twice.
`PlanningAssistant`: starting, archiving, messages and patches of planning sessions with the LLM between
read and write, `Synthesizes` with the whole normalization of a plan, hydration against the courses there are.
`LearnerProfile`: the goroutine that refreshes the course summary (`RefreshEnds` ... `UpsertDomainProfile`),
onboarding, refinement, the migration of the old sentence (`MigrateReads`, `MigrateStores`, `MigrateUserProfile`:
only an error of the last write, or a stop, ends it; a failed read counts as no summary, a failed upsert is passed over).
`AsideThreads`: cached and generated explanations, questions, the ledger written in the background by
select, then insert or update; gaps resolved by hand and by node.
`ProgressSync`: `SyncPush`, `SyncPull`, `Compares`, `UpsertProgress` between two databases with clocks
cut to seconds; a request may be lost.
`LearningShortcuts`: the reads of the sidebar, those of the last visit and the last session apart (`ReadsAccess`,
`buildLastLesson`), and the tabs that write between them.
`SchemaMigration`: processes that run the migrations statement by statement, one of which may stop.

Composition. `CourseStore` interleaves what `CourseTree` does to one tree; `BuildJobs` runs them;
`SessionService` opens and locks what `CoachSession` teaches; `ImRouter` is a second way to
`SessionService`; `MessageQuota` is around both. They are not multiplied: each of these modules has the
others cut down to what it can see of them (a session that is there or not, a tree as a set of nodes, a
turn as a read and a write). `MCCourses` and `MCServices` put modules side by side for TLC: `focus` and
`service` name the module a behaviour is one of, the variables of the others stay. So each is
explored exhaustively, and their state spaces add up.

## 3. Runs

| run | question | result |
|---|---|---|
| `coach` | one session beyond the entry layer, LLM completion check on, one crash | a closed session is lit; coverage is earned; lit on grounds; warnings honest; warned gaps kept; ledger in step; an exercise is there |
| `coach_legacy` | an entry node with the check off, follow-up questions, mistakes of other nodes | recent mistakes recorded; deepened was asked |
| `coach_insist` | does insisting light the node | yes, under strong fairness |
| `coach_question` | is a pure question in review graded | violated: `intent.go:34` says it is not |
| `coach_reopen` | does a completed session stay completed | violated: an exercise slipped into an answer reopens it |
| `session_tabs` | two requests on one node of one service | whole turns; no credit lost; locks released |
| `session_rebuilt` | two requests moving through two nodes, some lit from the start | lit nodes without a session are never downgraded |
| `session_two_entries` | does "busy with another entry" hold across entries | violated: two lock tables |
| `session_all_done` | is "all nodes completed" true when it is said | violated: only the nodes behind the current one are looked at |
| `courses` | the content of a tree, rows under two operations, messages, plans, the sidebar | see below |
| `services` | jobs, quota, binding, profile, aside, sync, schema | see below |
| `course_extended` | does an extension leave the old nodes alone | violated for the second extension of a built-in pack |

`courses`. A generated tree always has a spec for each node and modules that partition it; its progress
belongs to it; migrations keep what keys and titles can place and light nothing else; extensions only
append; applied patches, however old, empty no field and no prerequisites (`GeneratedWellFormed`, `ProgressInTree`,
`MigrationFaithful`, `ExtendOnlyAppends`, `ApplyNeverEmpties`). No course and nothing the learner did is
lost in a replacement that fails, stops or is repeated, and writing a tree back takes nothing away unless
another operation came between (`CourseSurvives`, `LearningSurvives`, `UpdatesOnlyAdd`). The active node of
a chat has a session, unless it was moved to a new course before its session could be, and "next" said twice skips nothing (`ActiveHasSession`, `NothingSkipped`). Plans are
well formed, pins and ticks survive concurrent messages and stay on their items, a fresh start is the
only active session (`PlanWellFormed`, `PinSurvives`, `TicksKeepTheirItems`, `FreshStartHolds`). The sidebar
makes sense whatever changes between its reads (`ShortcutsSound`).

`services`. Slots are neither leaked nor given back twice, a running row has a worker, and the jobs
implement `BuildPromise`, fairness included (`SlotsConserved`, `RunningHasWorker`, `PromiseKept`). Concurrent
calls overrun the quota by no more than there are tabs (`FreeUseBounded`). A code lets one message in
(`CodeBindsOnce`). A summary covers what it was refreshed for, and the old sentence is in the profile or in
the summary, unless the write of the summary failed (`SummaryAccumulates`, `SentenceKept`). Hit counts are true (`CountsAreTrue`). After a push and a pull both
sides agree on what the learner did last (`SyncConverges`). Every statement of a migration finds what it
needs, and an opened schema is whole (`OpenedIsWhole`).

Several of these properties name the overlap under which they do not hold ("unless another operation
wrote", "unless two writers overlapped"): the code compares no versions there, and the exception is
stated as narrowly as TLC allows. What is outside the exception is what the code does guarantee.

### Bounds

Coach: three core concepts, because the coverage gate starts at three; a choice exercise on two of
them and an application exercise on the third, so that each gate can be the one that holds; a concept
of another node, because its gaps are not closed with this node; one crash, at any statement: a second
one meets the same states. `MCCoachLegacy` has two core concepts, one of which questions are about;
counts stop at 2, where no code tells them apart any more.

Sessions: two requests, each of which starts again when it is done, since every race of this code is
between two; `MaxSessions` is one session per request and node, so creation is never blocked; `MaxTurns`
is two messages where turns can interleave and one where nodes change. `MCSessionRebuilt` uses symmetry of
the requests (no liveness there).

Courses: nine keys, three answers to the tree prompt and four to the extension, chosen so that every
repair and every rejection happens; `MaxOffers = 2` optimize jobs, so that one patch is applied after
another; one field, which can be empty, thin or full (fields do not meet). `CourseStore`: three course ids (the old one, its replacement, a third that another request
builds), two tasks, a thread, two outlines that share a node and differ in one. `ImRouter`: two messages
(alike, so symmetry is used: the properties of this focus are invariants), one course of three nodes and its replacement, which has
only the first of them, so that sessions are moved and left. `PlanningAssistant`: two requests,
`MaxPlanningSessions = 2`, `MaxPlans = 1` per session. `LearningShortcuts`: three courses for two places,
`MaxMoments = 2`, one deletion.

Services: four requests of four kinds by two users for two slots and a quota of one build, `MaxFaults = 1`;
three tabs on a quota of two messages, `MaxMessages = 5` (only a user's own key comes that far),
`MaxLost = 1`; two messages with one code; two nodes and `MaxSeconds = 2`, so that answers fall into the
same second and into different ones, `MaxForms = 2`; two look-ups of one term; `MaxTicks = 4` half-seconds,
so that two writes can share a second or not; two processes and the six migrations others depend on, `MaxStops = 2`.

Deadlock is not checked in `courses` and `services`: bounds are used up and requests end.

### Fairness

`CoachSession.Proceed` is weakly fair: a handler that has begun runs on, its LLM calls end
with an answer or at the 60 or 90 second deadline of `sendCoachMessage`. `InsistentSpec` adds the
learner (who keeps asking) and the LLM (whose assessment, tried again and again, answers at last) as
strong fairness: `InsistenceLights` is a statement about the code under those. In `SessionService`
each request's `Proceed` is weakly fair for the same reason; starting a request is not fair. In
`BuildJobs`, `Advance(r)` is weakly fair: handlers and goroutines are scheduled, and the LLM calls of a job
have a deadline. The other modules state safety only and assume no fairness.

## 4. Findings

1. In phase review any text without a trigger is graded, although the comment exempts questions and
   the guide offers asking them there (`coach_question`).
2. A completed session returns to phase exercise if the LLM answers a question with an exercise
   (`coach_reopen`).
3. The web server and the IM gateway do not share the session lock (`session_two_entries`): a message
   in each at the same time loses the credit of one. `OneTableSuffices` proves that sharing it is enough.
4. "All nodes completed" looks only behind the current node (`session_all_done`).
5. Extending a course that was opened from a built-in pack a second time drops the specs of the nodes of
   the first extension: `LoadDomainNodes` returns the files of the pack, and what it returns plus the
   second delta is written back (`course_extended`).

Seen while modelling, without a run of their own, most of them behaviours of the models:

* Phase review is described as "the last one was not passed" (`apps/docs/guide/coach-flow.md:37`), but a
  wrong answer stays in phase exercise; and when the readiness call fails, a first skip request lights a
  node whose rules ask for nothing.
* Merging a tailored course loses the progress rows of its hidden nodes. Pack nodes that are merged in
  belong to no theme module. A patch of an optimize job holds every field of its node as it was, and its answer may be shorter
  than what there is: applied, it may replace more by less and lower the audit score. A patch older than a repair brings invalid prerequisites back
  (`BaseTreeVersion` is stored and never compared). A repair that empties a list of prerequisites is
  dropped from the patch by `omitempty`. Extensions of a personalized course are stored but never shown.
* Extend and optimize write the whole tree back after minutes: what another operation wrote in between is
  lost. A chat turn that read a course before it was replaced may write to the old one. Regenerating has no job row,
  and does not migrate notes or the course profile. `MigrateSessionsByNodeKey` selects the sessions before its
  transaction and reads the active node in it: a node opened and activated between the two is moved to the new course
  without its session (`missed` in `ImRouter`), and free text finds no coach there. A node lit while its course is regenerated is completed in
  its session, which moves, but not in the progress of the new course, which was copied before.
* Jobs that the process was stopped in stay `running`; nothing sweeps them, and they refuse the user's
  next job.
* A code is used up when the statement after the claim fails. Learners whose name is six letters or digits
  cannot be bound by name.
* Messages by IM neither check nor count the daily quota; starting a planning session checks it and does
  not count; messages answered by a user's own key are counted; errors of the count are ignored; `EnsureUser` on a
  late count makes a deleted user again.
* The migration of an old profile ignores the errors of `GetDomainProfile` and `UpsertDomainProfile`
  (`internal/agent/profile_write.go:81,96`): a failed read lets it replace a summary, and after a failed write the sentence is cut
  from the profile and is in neither place (`dropped` in `LearnerProfile`).
* `completedAt` of a profile refresh is taken after the LLM, so the guard orders answers, not completions.
* Reading the tree of a course that is being deleted leaves a visit without a course
  (`user_domain_access` has no foreign key). The router's pending navigation may name a deleted course. A
  planned recommendation may repeat the last lesson or a finished course.
* The onboarding backfill of migration 011 is skipped for ever if the process stops after its column.

## 5. Proofs

All for every value of the constants that satisfies the named assumptions.

Eight modules hold theorems, about fourteen modules of the model. An invariant that a run checks is seldom inductive; the
named strengthening is, and its parts are what the code really keeps from step to step.

`CoachSessionProofs` proves (any finite set of concepts, any exercises, findings and messages, both
completion modes, any number of crashes) the type invariant and every safety invariant of `CoachSession`.
The argument is one inductive invariant, `Inductive`. The
properties speak of the stored row, but a step copies the row in memory: so each part is stated of both
rows (`Rows`). `LitInv`: between `LightNode` and the end the row in memory may be closed because the node
is lit. `EarnedInv`: both rows credit only what was answered; `NothingLostInv`: without a crash the row of
the running handler has all of it (`Unsaved` names the steps in which the stored row lags behind).
`GroundsInv`: a handler about to light a node already has the grounds. `WarnInv`: a warning in either row
belongs to the standing refusal, the pending gaps are what it named, and while an override is on its way
the gaps are recorded before the node is lit. `RecentInv`, `OutstandingInv` and `LedgerInv` are the
invariants of the same names extended to the steps of a handler. There is one lemma per part, each with
one step per action that can disturb it; the theorems follow from `Inductive` by PTL. `LitOnGrounds` says what the
answers must be without the operator that the handlers decide by: `PassedMeetsGates` derives it from a negative `DeferComplete` (a set of
less than two uncovered concepts is empty or one of them). `DeepeningWasAsked`
has an invariant of its own (`DeepenedInv`: `AskedEnough` of both rows): counts only grow, and an answer is
deepened in the step that counts far enough.

`SessionServiceProofs` (any nodes, requests, services, sessions, turns). `SessionTyped`: the invariant is
`Shape`, which adds to the types that every session a handler refers to exists and is of its node
(`Refs`); no statement could be typed without it. `RebuiltKept` is `RebuiltStaysLit`: a request that will
create and mark (`MayMark`) has seen the node open, and a rebuilt node never is. Under `OneService`, the
assumption that all entries share one lock table, `OneTableSuffices` proves `OneEntryAtATime`, which the
run `session_two_entries` violates for two tables: `Holds` says that the lock of a message being handled
is taken, and two handlers of one table cannot both hold it. On it rests `CreditKept` (`EarnedKept`): a
handler that is going to write a row back has all its credit in its copy or works on a lit node
(`SnapTrue`), since nobody else writes credit to the row it has locked. `TurnsAreWhole` (`LockedTurns`) is about the posts
of a session made under the lock, in the order of the log: either the last of them is answered, or one
handler is about to post the reply to it (`OpenTurns`), and a post under another lock or none moves none of
them (`OtherPost`).

`BuildJobsProofs` (any finite set of requests, users, slots, faults). `SlotsKept`: the semaphore is the
number of stages that hold a slot; each step moves one request in or out of `Holders`, by lemmas on finite
sets, or nothing. `RowsHaveWorkers`. `PromiseImplemented`: initial states map to initial states, and
every step of the jobs is a step of `BuildPromise` under the mapping or leaves it alone; the fairness half of
`PromiseKept` is TLC's.

`CourseStoreProofs` (any number of courses, operations, sessions, outlines). `StoreInv` says what a
replacement that is under way may rely on. `Settled`: a line of courses has one that no failing migration
would delete (`Pending`), so there is always a course (`AlwaysACourse`). `EarnedKept`: a lit node is in such a
course, and whoever copies from that course has the node in its list or will still list it (`Carried`);
`SessionsKept` says the same of sessions; together `NothingLearnedIsLost`. `Apart`: two replacements fill different courses, and who replaces a course that is
itself being filled does so in a line that `excused` names. `ReadsKept`, a tree that was read is still the
course's or the course has moved on, gives the action property `TreesOnlyGrow`.

`ImProofs` has the two IM components. `ChannelBinding`: `BindingTyped` includes that no binding names a deleted
learner (the foreign key deletes with it); `BindsOnce` needs that a code that can still be claimed has let
nobody in (`Unspent`). `ImRouter` (`RouterInv`), of the courses that are there and have
not given their sessions away (`Current`): the node a chat is at has a session and those passed on the way to it are lit
or have a completed one, in the stored active node and in the copy of every goroutine that is at a step where it matters
(`Talks`, `Passed`, `Knows`); nobody knows of a replacement before it exists (`Unborn`), without which a
moved chat could meet one. Between its SELECT and its transaction a replacement has a list of sessions that
may lag behind (`missed` is whom that cost the session). `ActiveNodeTalks` and `NextSkipsNothing` follow.
`RouterAssumption` says that ids are given out once and that a replacement belongs to the same learner; how nodes
are placed by title is `CourseTree`'s.

`CoursesProofs` has three components.

* `PlanningAssistant` (any callers, courses and LLM outputs). `PlanningInv`: every stored plan has the shape of
  `NormalizePlanningResult` and is `Settled`, which means that hydrating it once more changes nothing. That
  idempotence (`HydratedIsSettled`) is what `PlansAreWellFormed` and the action property `TicksStayWithItems`
  rest on: ticks are stored by position, and positions move only if a second hydration does something. An editor
  holds the lock and has a true copy of the row (`Editing`, `OneEditor`), but for an archiving that came
  between: `PinsAreKept`; `OneActive` gives `FreshStartIsAlone`.
* `CourseTree` (any keys and answers, any pack). `TreeInv`: the tree has its shape, no tree means no progress, a
  generated course has modules (else the repair would have none to adopt an orphan), and the two invariants
  the runs check. There is a lemma for each function of the code, up to `RepairType`: whatever the modules were,
  afterwards they partition the nodes (`adopted` is a recursive function over positions, followed to the last
  one, `LastAdopts`). `ModulesShareOutNodes`, `ProgressIsOfNodes`, and as action properties `MigrationIsFaithful` and
  `ExtendingOnlyAppends`; this last one also needs `SpecsInTree` (specs are of nodes of the tree, unless the
  course is a pack's, which is the finding `course_extended`) and a count, `Hits`, for "at most eight".
  `PatchesEmptyNothing` needs no invariant: of a course whose specs are the files of its pack, patches change nothing.
* `LearningShortcuts` (any shelf). The request is invariant in parts (`PartlySound`): what was chosen is of the
  list that was read, the gap's course was not shown already and not finished. The last step needs that the order
  of the code is a strict total order, which its last tie-break makes it, so that any finite set of courses can be listed
  in it, each course once (`LastExists`, `RankingExists`, `RankingIsOnto`): a course that waits comes after
  those shown. `SidebarIsSound`.

`ServicesProofs` has four more. `ProgressSync` (`SyncInv`): the copy that is carried is the row it was read from,
cut to seconds, until somebody learns (`Carries`); what was found equal stays so (`Agrees`); one side has what
was learned last (`NewestIsThere`). `LearnerProfile` (`ProfileInv`): each refresh under way has read all that those
before it stored, or one of them met the other (`SummaryKept`); the old sentence is where the step of its migration says
(`SentenceCarried`). `AsideThreads` (`AsideInv`): a look-up is counted when its card is stored and an answer when the
ledger has it, neither twice. `SchemaMigration` (`SchemaInv`): a start has made, or found, all before the
statement it is at (`Arrived`), whatever others do; files are made in order (`MadeInOrder`); and one that is made in
part was cut, or somebody is going on with it (`PartsAreFinished`). `MigrationAssumption` says of the list of
migrations what it is: no statement twice, and what a statement needs is made by one before it that every start
reaches.

`MessageQuotaProofs`: `OverrunBounded`. What was given exceeds the count by the answers that are still to be
counted or were lost (`CountLags`), and what was given and what is coming from calls past the check stay
within the quota, less one, plus one for each tab (`Overrun`): a check passes only below the quota, and each
tab carries one call.

The constants' assumptions say of data from outside what the code has made sure of before it gets there (ids
are not 0, an LLM answer has been parsed), and of bounds that they are numbers; TLC evaluates each on a
passing run. Where a set may be infinite, nothing assumes that it is finite.

Only model-checked: liveness (`InsistenceLights`, `LocksReleased`, the fairness of `PromiseKept`), which is
beyond the prover. No module that is proved about has a RECURSIVE operator.

## 6. Abstractions and what is not modelled

* Prompts, texts, feedback, streaming events, traces, timestamps other than their order (and, where the
  code cuts them, their seconds).
* `conceptMatches` and `MatchConceptToNode` (loose text matching) are the identity on concepts and a
  fixed split into concepts of this node and of others. Follow-ups are counted for core concepts only.
  `ParseIntent` of chats and the resolution of names to slugs: the message is the intent.
* `ReviewedOnce`, `ExplainedConcepts`, `OverviewDone`: they only shape prompts.
* Errors of single storage statements in the coach and the session service, which the code ignores;
  crashes and deletion of courses in `SessionService` (`CourseStore` and `ImRouter` have them).
* Foreign keys are on (`storage/sqlite.go`), and deletions cascade as the migrations say.
* The rate limiter, the limit of new users and the last-seen throttle (counters of one process behind one
  mutex); node notes; links between courses and the LLM that relates a narrow course to a parent;
  commands of the gateway that only answer.
* Platform adapters, the MCP server, export, source ingestion, configuration, observability and the web
  client: I/O and formatting around the operations modelled here.

The hazards without a property in `PROJECT.json` are windows the code has no recovery for and no
document speaks of; a property that holds around one of them is named in its note.

## 7. Plan

Done: every component whose status is modelled or partly, with theorems for every safety invariant and every
action property the runs check. New theorems go into the eight modules there are.

1. `CoachContract`, the abstract promise of a session (phases, lit, refused), implemented by
   `CoachSession` under a refinement mapping, with its step-by-step proof.
2. What the refinements still leave open for the modules that see each other cut down: that a turn of
   `CoachSession` is what `SessionService` takes for one, and an operation of `CourseTree` what `CourseStore` takes for one.
3. Failures of single statements in `CoachSession` and `SessionService`, with a bound of their own.
