----------------------------- MODULE BuildJobs -----------------------------
(***************************************************************************)
(* Admission and life of the course jobs of a cloud server: building a     *)
(* course by name or from a source, extending, auditing, optimizing and    *)
(* regenerating it (api/handler.go, domain_build_job.go,                   *)
(* domain_build_from_source.go, domain_extend.go, domain_audit.go,         *)
(* cloud_llm.go, cloud/quota.go, cloud/buildlimit.go,                      *)
(* storage/domain_build_job.go).                                           *)
(*                                                                         *)
(* Every request checks the user's running jobs, checks the daily quota,   *)
(* takes a slot, writes a job row, records the usage and hands over to a   *)
(* goroutine, in steps of their own that other requests come between.      *)
(* What a job does to the course is in CourseTree and CourseStore.         *)
(***************************************************************************)
EXTENDS Integers, FiniteSets

CONSTANTS
  Requests, Users,
  UserOf,             \* [Requests -> Users]
  KindOf,             \* [Requests -> Kinds]
  ByokUsers,          \* users with an API key of their own: no quota
  MaxBuildJobsGlobal,
  QuotaDailyBuilds,
  MaxFaults           \* bound: process stops and failed last statements

Kinds == {"build", "skill", "source", "extend", "audit", "optimize", "regenerate"}

ASSUME JobsAssumption ==
  /\ UserOf \in [Requests -> Users] /\ KindOf \in [Requests -> Kinds]
  /\ ByokUsers \subseteq Users
  /\ MaxBuildJobsGlobal \in Nat \ {0} /\ QuotaDailyBuilds \in Nat
  /\ MaxFaults \in Nat
  /\ IsFiniteSet(Requests)

VARIABLES
  stage,   \* where the handler, then the goroutine, of each request is
  sem,     \* tokens in BuildLimiter's channel
  job,     \* domain_build_jobs.status of the request's row, or "none"
  used,    \* llm_usage_daily.build_count of each user, one day
  faults

jobVars == <<stage, sem, job, used, faults>>

Holding == {"holding", "created", "working", "ended"}
Stages == {"idle", "checked", "allowed", "refused", "released", "lost"} \cup Holding

\* Regenerating answers when it is over and has no row.
HasRow(r) == KindOf[r] # "regenerate"

\* skillBuildExempt, and RecordBuildUsage for users with their own key.
Free(r) == KindOf[r] = "skill" \/ UserOf[r] \in ByokUsers

Goes(r, from, to) == stage[r] = from /\ stage' = [stage EXCEPT ![r] = to]
-----------------------------------------------------------------------------
JobsInit ==
  /\ stage = [r \in Requests |-> "idle"]
  /\ sem = 0
  /\ job = [r \in Requests |-> "none"]
  /\ used = [u \in Users |-> 0]
  /\ faults = 0

\* checkUserBuildRunning counts rows, not goroutines.
CheckUserBuildRunning(r) ==
  /\ LET running == {q \in Requests : /\ UserOf[q] = UserOf[r]
                                      /\ job[q] = "running"}
     IN Goes(r, "idle", IF running = {} THEN "checked" ELSE "refused")
  /\ UNCHANGED <<sem, job, used, faults>>

CheckBuildQuota(r) ==
  /\ Goes(r, "checked", IF Free(r) \/ used[UserOf[r]] < QuotaDailyBuilds
                        THEN "allowed" ELSE "refused")
  /\ UNCHANGED <<sem, job, used, faults>>

AcquireUnchecked(r) ==    \* mutant: a full channel is not noticed
  /\ Goes(r, "allowed", "holding")
  /\ sem' = sem + 1
  /\ UNCHANGED <<job, used, faults>>

TryAcquire(r) ==
  /\ \/ /\ sem < MaxBuildJobsGlobal
        /\ Goes(r, "allowed", "holding")
        /\ sem' = sem + 1
     \/ /\ sem >= MaxBuildJobsGlobal
        /\ Goes(r, "allowed", "refused")
        /\ sem' = sem
  /\ UNCHANGED <<job, used, faults>>

\* Release drains the channel without blocking.
Released == IF sem > 0 THEN sem - 1 ELSE 0

RejectsHolding(r) ==    \* mutant: an early return without the release
  /\ HasRow(r)
  /\ Goes(r, "holding", "refused")
  /\ UNCHANGED <<sem, job, used, faults>>

\* A bad body, an unknown course, an unfinished one, a failed insert.
Reject(r) ==
  /\ HasRow(r)
  /\ Goes(r, "holding", "refused")
  /\ sem' = Released
  /\ UNCHANGED <<job, used, faults>>

CreateJob(r) ==
  /\ Goes(r, "holding", "created")
  /\ job' = IF HasRow(r) THEN [job EXCEPT ![r] = "running"] ELSE job
  /\ UNCHANGED <<sem, used, faults>>

RecordUsage(r) ==
  /\ Goes(r, "created", "working")
  /\ used' = IF Free(r) THEN used ELSE [used EXCEPT ![UserOf[r]] = @ + 1]
  /\ UNCHANGED <<sem, job, faults>>

FinishWithoutRow(r) ==    \* mutant: a job that failed writes no status
  /\ Goes(r, "working", "ended")
  /\ job' \in {job, [job EXCEPT ![r] = "done"]}
  /\ UNCHANGED <<sem, used, faults>>

\* The work ends, in time or at its deadline; the row is only changed while it
\* is there and running.
FinishJob(r) ==
  /\ Goes(r, "working", "ended")
  /\ \E status \in {"done", "failed"} :
       job' = IF job[r] = "running" THEN [job EXCEPT ![r] = status] ELSE job
  /\ UNCHANGED <<sem, used, faults>>

\* The deferred release, after the row was written.
ReleaseSlot(r) ==
  /\ Goes(r, "ended", "released")
  /\ sem' = Released
  /\ UNCHANGED <<job, used, faults>>

\* Deleting a course deletes the rows of its audit and optimize jobs.
DeleteJobRow(r) ==
  /\ KindOf[r] \in {"audit", "optimize"}
  /\ job[r] # "none"
  /\ job' = [job EXCEPT ![r] = "none"]
  /\ UNCHANGED <<stage, sem, used, faults>>

\* The last UPDATE fails: that is logged and the row stays running.
FinishFails(r) ==
  /\ faults < MaxFaults
  /\ HasRow(r)
  /\ Goes(r, "working", "ended")
  /\ faults' = faults + 1
  /\ UNCHANGED <<sem, job, used>>

\* The process stops; the semaphore is new, the rows are as they were.
ProcessStops ==
  /\ faults < MaxFaults
  /\ faults' = faults + 1
  /\ sem' = 0
  /\ stage' = [r \in Requests |->
       CASE stage[r] \in {"idle", "refused", "released"} -> stage[r]
         [] stage[r] = "ended" -> "released"
         [] OTHER -> "lost"]
  /\ UNCHANGED <<job, used>>

Advance(r) ==
  \/ CheckBuildQuota(r) \/ TryAcquire(r) \/ Reject(r) \/ CreateJob(r)
  \/ RecordUsage(r) \/ FinishJob(r) \/ ReleaseSlot(r)

JobsNext ==
  \/ \E r \in Requests :
       CheckUserBuildRunning(r) \/ Advance(r) \/ DeleteJobRow(r) \/ FinishFails(r)
  \/ ProcessStops

\* Handlers and goroutines are scheduled, and the LLM calls have a deadline.
JobsFairness == \A r \in Requests : WF_jobVars(Advance(r))

JobsSpec == JobsInit /\ [][JobsNext]_jobVars /\ JobsFairness
-----------------------------------------------------------------------------
(* Properties.                                                             *)

JobsTypeOK ==
  /\ stage \in [Requests -> Stages]
  /\ sem \in 0..MaxBuildJobsGlobal
  /\ job \in [Requests -> {"none", "running", "done", "failed"}]
  /\ used \in [Users -> Nat]
  /\ faults \in 0..MaxFaults

Holders == {r \in Requests : stage[r] \in Holding}

\* No path leaks a slot or gives one back twice (slotHandedOff, the releases of
\* the error paths, runGlobalBuildJobAsync's defer).
SlotsConserved == sem = Cardinality(Holders)

\* While nothing failed, a row that says running has somebody working on it:
\* "a course is being built" is then a true answer.
RunningHasWorker ==
  faults = 0 => \A r \in Requests :
                  job[r] = "running" => stage[r] \in {"created", "working"}

\* The promise: what a request came to, and who holds a place.
Outcome(r) ==
  CASE stage[r] \in {"idle", "checked", "allowed", "holding", "created"} -> "open"
    [] stage[r] = "refused" -> "refused"
    [] stage[r] = "working" -> "accepted"
    [] stage[r] = "lost" -> "lost"
    [] OTHER -> "done"

Promise == INSTANCE BuildPromise WITH
  Asked <- Requests, Slots <- MaxBuildJobsGlobal,
  outcome <- [r \in Requests |-> Outcome(r)], held <- Holders

\* The jobs keep the promise of BuildPromise, fairness included: at most so
\* many at a time, and every place is given back.
PromiseKept == Promise!PromiseSpec
=============================================================================
