-------------------------- MODULE BuildJobsProofs --------------------------
(***************************************************************************)
(* Theorems about BuildJobs, for any requests, users, quota and number of  *)
(* slots: types, slots are neither leaked nor given back twice, a running  *)
(* row has a worker, and every step of the jobs is a step that             *)
(* BuildPromise allows, or none of its business.                           *)
(***************************************************************************)
EXTENDS BuildJobs, FiniteSetTheorems, TLAPS

USE DEF HasRow, Goes

\* The state has the shape that JobsTypeOK says, whatever the handlers, the
\* goroutines and stops of the process do.
THEOREM JobsTyped == JobsSpec => []JobsTypeOK
<1>1. JobsInit => JobsTypeOK
  BY JobsAssumption DEF JobsInit, JobsTypeOK, Stages
<1>2. JobsTypeOK /\ [JobsNext]_jobVars => JobsTypeOK'
  <2> SUFFICES ASSUME JobsTypeOK, [JobsNext]_jobVars PROVE JobsTypeOK'
    OBVIOUS
  <2> USE JobsAssumption DEF JobsTypeOK, Stages, Holding
  <2>1. ASSUME NEW r \in Requests, CheckUserBuildRunning(r) PROVE JobsTypeOK'
    BY <2>1 DEF CheckUserBuildRunning
  <2>2. ASSUME NEW r \in Requests, CheckBuildQuota(r) PROVE JobsTypeOK'
    BY <2>2 DEF CheckBuildQuota
  <2>3. ASSUME NEW r \in Requests, TryAcquire(r) PROVE JobsTypeOK'
    BY <2>3 DEF TryAcquire
  <2>4. ASSUME NEW r \in Requests, Reject(r) PROVE JobsTypeOK'
    BY <2>4 DEF Reject, Released
  <2>5. ASSUME NEW r \in Requests, CreateJob(r) PROVE JobsTypeOK'
    BY <2>5 DEF CreateJob
  <2>6. ASSUME NEW r \in Requests, RecordUsage(r) PROVE JobsTypeOK'
    BY <2>6 DEF RecordUsage
  <2>7. ASSUME NEW r \in Requests, FinishJob(r) PROVE JobsTypeOK'
    BY <2>7 DEF FinishJob
  <2>8. ASSUME NEW r \in Requests, ReleaseSlot(r) PROVE JobsTypeOK'
    BY <2>8 DEF ReleaseSlot, Released
  <2>9. ASSUME NEW r \in Requests, DeleteJobRow(r) PROVE JobsTypeOK'
    BY <2>9 DEF DeleteJobRow
  <2>10. ASSUME NEW r \in Requests, FinishFails(r) PROVE JobsTypeOK'
    BY <2>10 DEF FinishFails
  <2>11. CASE ProcessStops
    BY <2>11 DEF ProcessStops
  <2>12. CASE UNCHANGED jobVars
    BY <2>12 DEF jobVars
  <2> QED
    BY <2>1, <2>2, <2>3, <2>4, <2>5, <2>6, <2>7, <2>8, <2>9, <2>10, <2>11, <2>12
    DEF JobsNext, Advance
<1> QED
  BY <1>1, <1>2, PTL DEF JobsSpec
-----------------------------------------------------------------------------
(* Slots.                                                                  *)

\* Requests that hold a slot are finitely many, so they can be counted.
LEMMA HoldersFinite == IsFiniteSet(Holders)
  BY JobsAssumption, FS_Subset DEF Holders

\* Taking a slot adds the request to the holders, and one to their number.
LEMMA HolderTakes ==
  ASSUME JobsTypeOK, NEW r \in Requests, r \notin Holders,
         NEW to \in Holding, stage' = [stage EXCEPT ![r] = to]
  PROVE  Cardinality(Holders') = Cardinality(Holders) + 1
<1>1. Holders' = Holders \cup {r}
  BY DEF Holders, JobsTypeOK
<1> QED
  BY <1>1, HoldersFinite, FS_AddElement

\* Leaving takes one away.
LEMMA HolderLeaves ==
  ASSUME JobsTypeOK, NEW r \in Holders, SlotsConserved,
         NEW to, to \notin Holding, stage' = [stage EXCEPT ![r] = to]
  PROVE  /\ Cardinality(Holders') = Cardinality(Holders) - 1
         /\ Released = Cardinality(Holders')
<1>1. Holders' = Holders \ {r}
  BY DEF Holders, JobsTypeOK
<1>2. Cardinality(Holders') = Cardinality(Holders) - 1
  BY <1>1, HoldersFinite, FS_RemoveElement
<1>3. Cardinality(Holders) # 0 /\ Cardinality(Holders) \in Nat
  BY HoldersFinite, FS_EmptySet, FS_CardinalityType
<1> QED
  BY <1>2, <1>3 DEF Released, SlotsConserved

\* A request that holds its slot before and after changes nothing.
LEMMA HolderStays ==
  ASSUME JobsTypeOK, NEW r \in Requests,
         NEW to, stage[r] \in Holding <=> to \in Holding,
         stage' = [stage EXCEPT ![r] = to]
  PROVE  Holders' = Holders
  BY DEF Holders, JobsTypeOK

\* One step keeps the semaphore and the holders together.
LEMMA SlotsStep ==
  ASSUME JobsTypeOK, SlotsConserved, [JobsNext]_jobVars
  PROVE  SlotsConserved'
<1> USE DEF Holding
<1>1. ASSUME NEW r \in Requests, CheckUserBuildRunning(r) PROVE SlotsConserved'
  <2>1. PICK to \in {"checked", "refused"} : Goes(r, "idle", to)
    BY <1>1 DEF CheckUserBuildRunning
  <2> QED
    BY <1>1, <2>1, HolderStays DEF CheckUserBuildRunning, SlotsConserved
<1>2. ASSUME NEW r \in Requests, CheckBuildQuota(r) PROVE SlotsConserved'
  <2>1. PICK to \in {"allowed", "refused"} : Goes(r, "checked", to)
    BY <1>2 DEF CheckBuildQuota
  <2> QED
    BY <1>2, <2>1, HolderStays DEF CheckBuildQuota, SlotsConserved
<1>3. ASSUME NEW r \in Requests, TryAcquire(r) PROVE SlotsConserved'
  <2>1. r \notin Holders
    BY <1>3 DEF TryAcquire, Holders
  <2>2. CASE Goes(r, "allowed", "holding") /\ sem' = sem + 1
    BY <2>1, <2>2, HolderTakes DEF SlotsConserved
  <2>3. CASE Goes(r, "allowed", "refused") /\ sem' = sem
    BY <2>3, HolderStays DEF SlotsConserved
  <2> QED
    BY <1>3, <2>2, <2>3 DEF TryAcquire
<1>4. ASSUME NEW r \in Requests, Reject(r) PROVE SlotsConserved'
  <2>1. r \in Holders
    BY <1>4 DEF Reject, Holders
  <2> QED
    BY <1>4, <2>1, HolderLeaves DEF Reject, SlotsConserved
<1>5. ASSUME NEW r \in Requests, CreateJob(r) PROVE SlotsConserved'
  BY <1>5, HolderStays DEF CreateJob, SlotsConserved
<1>6. ASSUME NEW r \in Requests, RecordUsage(r) PROVE SlotsConserved'
  BY <1>6, HolderStays DEF RecordUsage, SlotsConserved
<1>7. ASSUME NEW r \in Requests, FinishJob(r) PROVE SlotsConserved'
  BY <1>7, HolderStays DEF FinishJob, SlotsConserved
<1>8. ASSUME NEW r \in Requests, ReleaseSlot(r) PROVE SlotsConserved'
  <2>1. r \in Holders
    BY <1>8 DEF ReleaseSlot, Holders
  <2> QED
    BY <1>8, <2>1, HolderLeaves DEF ReleaseSlot, SlotsConserved
<1>9. ASSUME NEW r \in Requests, DeleteJobRow(r) PROVE SlotsConserved'
  BY <1>9 DEF DeleteJobRow, SlotsConserved, Holders
<1>10. ASSUME NEW r \in Requests, FinishFails(r) PROVE SlotsConserved'
  BY <1>10, HolderStays DEF FinishFails, SlotsConserved
<1>11. CASE ProcessStops
  <2>1. Holders' = {}
    BY <1>11 DEF ProcessStops, Holders, JobsTypeOK, Stages
  <2> QED
    BY <1>11, <2>1, FS_EmptySet DEF ProcessStops, SlotsConserved
<1>12. CASE UNCHANGED jobVars
  BY <1>12 DEF jobVars, SlotsConserved, Holders
<1> QED
  BY <1>1, <1>2, <1>3, <1>4, <1>5, <1>6, <1>7, <1>8, <1>9, <1>10, <1>11, <1>12
  DEF JobsNext, Advance

\* No path through the handlers and goroutines leaks a slot or gives one back
\* twice, however many requests there are.
THEOREM SlotsKept == JobsSpec => []SlotsConserved
<1>1. JobsInit => SlotsConserved
  <2>1. JobsInit => Holders = {}
    BY DEF JobsInit, Holders, Holding
  <2> QED
    BY <2>1, FS_EmptySet DEF JobsInit, SlotsConserved
<1>2. JobsTypeOK /\ SlotsConserved /\ [JobsNext]_jobVars => SlotsConserved'
  BY SlotsStep
<1> QED
  BY <1>1, <1>2, JobsTyped, PTL DEF JobsSpec
-----------------------------------------------------------------------------
(* Rows.                                                                   *)

\* While nothing has failed, a row that says running is being worked on.
THEOREM RowsHaveWorkers == JobsSpec => []RunningHasWorker
<1>1. JobsInit => RunningHasWorker
  BY DEF JobsInit, RunningHasWorker
<1>2. JobsTypeOK /\ RunningHasWorker /\ [JobsNext]_jobVars => RunningHasWorker'
  <2> SUFFICES ASSUME JobsTypeOK, RunningHasWorker, [JobsNext]_jobVars
               PROVE  RunningHasWorker'
    OBVIOUS
  <2> USE JobsAssumption DEF JobsTypeOK, RunningHasWorker
  <2>1. ASSUME NEW r \in Requests, CheckUserBuildRunning(r) PROVE RunningHasWorker'
    BY <2>1 DEF CheckUserBuildRunning
  <2>2. ASSUME NEW r \in Requests, CheckBuildQuota(r) PROVE RunningHasWorker'
    BY <2>2 DEF CheckBuildQuota
  <2>3. ASSUME NEW r \in Requests, TryAcquire(r) PROVE RunningHasWorker'
    BY <2>3 DEF TryAcquire
  <2>4. ASSUME NEW r \in Requests, Reject(r) PROVE RunningHasWorker'
    BY <2>4 DEF Reject
  <2>5. ASSUME NEW r \in Requests, CreateJob(r) PROVE RunningHasWorker'
    BY <2>5 DEF CreateJob
  <2>6. ASSUME NEW r \in Requests, RecordUsage(r) PROVE RunningHasWorker'
    BY <2>6 DEF RecordUsage
  <2>7. ASSUME NEW r \in Requests, FinishJob(r) PROVE RunningHasWorker'
    BY <2>7 DEF FinishJob
  <2>8. ASSUME NEW r \in Requests, ReleaseSlot(r) PROVE RunningHasWorker'
    BY <2>8 DEF ReleaseSlot
  <2>9. ASSUME NEW r \in Requests, DeleteJobRow(r) PROVE RunningHasWorker'
    BY <2>9 DEF DeleteJobRow
  <2>10. ASSUME NEW r \in Requests, FinishFails(r) PROVE RunningHasWorker'
    BY <2>10 DEF FinishFails
  <2>11. CASE ProcessStops
    BY <2>11 DEF ProcessStops
  <2>12. CASE UNCHANGED jobVars
    BY <2>12 DEF jobVars
  <2> QED
    BY <2>1, <2>2, <2>3, <2>4, <2>5, <2>6, <2>7, <2>8, <2>9, <2>10, <2>11, <2>12
    DEF JobsNext, Advance
<1> QED
  BY <1>1, <1>2, JobsTyped, PTL DEF JobsSpec
-----------------------------------------------------------------------------
(* The promise.                                                            *)

\* What a step of one request does to the promise.
LEMMA OutcomeMoves ==
  ASSUME JobsTypeOK, NEW r \in Requests, NEW to, stage' = [stage EXCEPT ![r] = to]
  PROVE  /\ stage'[r] = to
         /\ \A q \in Requests \ {r} : Outcome(q)' = Outcome(q)
         /\ to \in Holding => Holders' = Holders \cup {r}
         /\ to \notin Holding => Holders' = Holders \ {r}
         /\ (r \in Holders <=> to \in Holding) => Holders' = Holders
<1>1. stage'[r] = to /\ \A q \in Requests \ {r} : stage'[q] = stage[q]
  BY DEF JobsTypeOK
<1>2. \A q \in Requests \ {r} : Outcome(q)' = Outcome(q)
  BY <1>1 DEF Outcome
<1>3. /\ to \in Holding => Holders' = Holders \cup {r}
      /\ to \notin Holding => Holders' = Holders \ {r}
  BY <1>1 DEF Holders
<1>4. (r \in Holders <=> to \in Holding) => Holders' = Holders
  BY <1>3
<1> QED
  BY <1>1, <1>2, <1>3, <1>4

\* Every step of the jobs is a step of the promise or does not concern it.
LEMMA PromiseStep ==
  ASSUME JobsTypeOK, SlotsConserved, [JobsNext]_jobVars
  PROVE  [Promise!PromiseNext]_(Promise!promiseVars)
<1> DEFINE map == [q \in Requests |-> Outcome(q)]
<1> USE DEF Promise!promiseVars
<1>1. ASSUME NEW r \in Requests, NEW to, Outcome(r)' = to,
             \A q \in Requests \ {r} : Outcome(q)' = Outcome(q)
      PROVE  /\ map' = [map EXCEPT ![r] = to]
             /\ to = Outcome(r) => map' = map
  BY <1>1
<1>2. ASSUME NEW r \in Requests, stage[r] \in {"idle", "checked", "allowed"},
             stage' = [stage EXCEPT ![r] = "refused"]
      PROVE  Promise!PromiseNext
  <2>1. Outcome(r) = "open" /\ r \notin Holders
    BY <1>2 DEF Outcome, Holders, Holding
  <2>2. stage'[r] = "refused" /\ Holders' = Holders
    BY <1>2, <2>1, OutcomeMoves DEF Holding
  <2>3. Outcome(r)' = "refused"
    BY <2>2 DEF Outcome
  <2>4. map' = [map EXCEPT ![r] = "refused"]
    BY <1>1, <1>2, <2>3, OutcomeMoves
  <2> QED
    BY <2>1, <2>2, <2>4 DEF Promise!PromiseNext, Promise!Refuse, Promise!Becomes
<1>3. ASSUME NEW r \in Requests, stage[r] \in {"idle", "checked"},
             NEW to \in {"checked", "allowed"}, stage' = [stage EXCEPT ![r] = to]
      PROVE  UNCHANGED <<map, Holders>>
  <2>1. Outcome(r) = "open" /\ r \notin Holders
    BY <1>3 DEF Outcome, Holders, Holding
  <2>2. stage'[r] = to /\ Holders' = Holders
    BY <1>3, <2>1, OutcomeMoves DEF Holding
  <2>3. Outcome(r)' = "open"
    BY <2>2 DEF Outcome
  <2> QED
    BY <1>1, <1>3, <2>1, <2>2, <2>3, OutcomeMoves
<1>4. ASSUME NEW r \in Requests, CheckUserBuildRunning(r) \/ CheckBuildQuota(r)
      PROVE  [Promise!PromiseNext]_(Promise!promiseVars)
  <2>1. stage[r] \in {"idle", "checked"}
    BY <1>4 DEF CheckUserBuildRunning, CheckBuildQuota
  <2>2. PICK to \in {"checked", "allowed", "refused"} : stage' = [stage EXCEPT ![r] = to]
    BY <1>4 DEF CheckUserBuildRunning, CheckBuildQuota
  <2> QED
    BY <2>1, <2>2, <1>2, <1>3
<1>5. ASSUME NEW r \in Requests, TryAcquire(r)
      PROVE  [Promise!PromiseNext]_(Promise!promiseVars)
  <2>1. CASE Goes(r, "allowed", "holding") /\ sem < MaxBuildJobsGlobal
    <3>1. Outcome(r) = "open" /\ r \notin Holders
      BY <2>1 DEF Outcome, Holders, Holding
    <3>2. stage'[r] = "holding" /\ Holders' = Holders \cup {r}
      BY <2>1, OutcomeMoves DEF Holding
    <3>3. Outcome(r)' = "open"
      BY <3>2 DEF Outcome
    <3>4. map' = map
      BY <1>1, <2>1, <3>1, <3>3, OutcomeMoves
    <3>5. Promise!Cardinality(Holders) < MaxBuildJobsGlobal
      <4>1. Promise!Cardinality(Holders) = Cardinality(Holders)
        BY DEF Promise!Cardinality, Cardinality
      <4> QED
        BY <2>1, <4>1 DEF SlotsConserved
    <3>6. map[r] = "open" /\ UNCHANGED map
      BY <3>1, <3>4
    <3>7. Promise!Admit(r)
      BY <3>1, <3>2, <3>5, <3>6 DEF Promise!Admit
    <3> QED
      BY <3>7 DEF Promise!PromiseNext
  <2>2. CASE Goes(r, "allowed", "refused")
    BY <2>2, <1>2
  <2> QED
    BY <1>5, <2>1, <2>2 DEF TryAcquire
<1>6. ASSUME NEW r \in Requests, Reject(r) PROVE Promise!PromiseNext
  <2>1. Outcome(r) = "open" /\ r \in Holders
    BY <1>6 DEF Reject, Outcome, Holders, Holding
  <2>2. stage'[r] = "refused" /\ Holders' = Holders \ {r}
    BY <1>6, OutcomeMoves DEF Reject, Holding
  <2>3. Outcome(r)' = "refused"
    BY <2>2 DEF Outcome
  <2>4. map' = [map EXCEPT ![r] = "refused"]
    BY <1>1, <1>6, <2>3, OutcomeMoves DEF Reject
  <2> QED
    BY <2>1, <2>2, <2>4 DEF Promise!PromiseNext, Promise!TurnAway, Promise!Becomes
<1>7. ASSUME NEW r \in Requests, CreateJob(r) PROVE UNCHANGED <<map, Holders>>
  <2>1. Outcome(r) = "open" /\ r \in Holders
    BY <1>7 DEF CreateJob, Outcome, Holders, Holding
  <2>2. stage'[r] = "created" /\ Holders' = Holders
    BY <1>7, <2>1, OutcomeMoves DEF CreateJob, Holding
  <2>3. Outcome(r)' = "open"
    BY <2>2 DEF Outcome
  <2> QED
    BY <1>1, <1>7, <2>1, <2>2, <2>3, OutcomeMoves DEF CreateJob
<1>8. ASSUME NEW r \in Requests, RecordUsage(r) PROVE Promise!PromiseNext
  <2>1. Outcome(r) = "open" /\ r \in Holders
    BY <1>8 DEF RecordUsage, Outcome, Holders, Holding
  <2>2. stage'[r] = "working" /\ Holders' = Holders
    BY <1>8, <2>1, OutcomeMoves DEF RecordUsage, Holding
  <2>3. Outcome(r)' = "accepted"
    BY <2>2 DEF Outcome
  <2>4. map' = [map EXCEPT ![r] = "accepted"]
    BY <1>1, <1>8, <2>3, OutcomeMoves DEF RecordUsage
  <2> QED
    BY <2>1, <2>2, <2>4 DEF Promise!PromiseNext, Promise!Accept, Promise!Becomes
<1>9. ASSUME NEW r \in Requests, FinishJob(r) \/ FinishFails(r)
      PROVE  Promise!PromiseNext
  <2>0. Goes(r, "working", "ended")
    BY <1>9 DEF FinishJob, FinishFails
  <2>1. Outcome(r) = "accepted" /\ r \in Holders
    BY <2>0 DEF Outcome, Holders, Holding
  <2>2. stage'[r] = "ended" /\ Holders' = Holders
    BY <2>0, <2>1, OutcomeMoves DEF Holding
  <2>3. Outcome(r)' = "done"
    BY <2>2 DEF Outcome
  <2>4. map' = [map EXCEPT ![r] = "done"]
    BY <1>1, <2>0, <2>3, OutcomeMoves
  <2> QED
    BY <2>1, <2>2, <2>4 DEF Promise!PromiseNext, Promise!End, Promise!Becomes
<1>10. ASSUME NEW r \in Requests, ReleaseSlot(r) PROVE Promise!PromiseNext
  <2>1. Outcome(r) = "done" /\ r \in Holders
    BY <1>10 DEF ReleaseSlot, Outcome, Holders, Holding
  <2>2. stage'[r] = "released" /\ Holders' = Holders \ {r}
    <3>1. Goes(r, "ended", "released")
      BY <1>10 DEF ReleaseSlot
    <3>2. "released" \notin Holding
      BY DEF Holding
    <3> QED
      BY <3>1, <3>2, OutcomeMoves
  <2>3. Outcome(r)' = "done"
    BY <2>2 DEF Outcome
  <2>4. map' = map
    BY <1>1, <1>10, <2>1, <2>3, OutcomeMoves DEF ReleaseSlot
  <2>5. Promise!GiveBack(r)
    BY <2>1, <2>2, <2>4 DEF Promise!GiveBack
  <2> QED
    BY <2>5 DEF Promise!PromiseNext
<1>11. ASSUME NEW r \in Requests, DeleteJobRow(r) PROVE UNCHANGED <<map, Holders>>
  BY <1>11 DEF DeleteJobRow, Outcome, Holders
<1>12. CASE ProcessStops
  <2> DEFINE cut == {q \in Requests : stage[q] \in {"checked", "allowed"}}
  <2>1. Holders' = {}
    BY <1>12 DEF ProcessStops, Holders, JobsTypeOK, Stages, Holding
  <2>2. cut \in SUBSET {q \in Requests : map[q] = "open"}
    BY DEF Outcome
  <2>3. ASSUME NEW q \in Requests
        PROVE  Outcome(q)' = IF q \in cut \/ (q \in Holders /\ map[q] \in {"open", "accepted"})
                             THEN "lost" ELSE map[q]
    BY <1>12 DEF ProcessStops, Outcome, Holders, JobsTypeOK, Stages, Holding
  <2>4. map' = [q \in Requests |->
                  IF q \in cut \/ (q \in Holders /\ map[q] \in {"open", "accepted"})
                  THEN "lost" ELSE map[q]]
    BY <2>3
  <2>5. Promise!Stop
    BY <2>1, <2>2, <2>4 DEF Promise!Stop
  <2> QED
    BY <2>5 DEF Promise!PromiseNext
<1>13. CASE UNCHANGED jobVars
  BY <1>13 DEF jobVars, Outcome, Holders
<1> QED
  BY <1>4, <1>5, <1>6, <1>7, <1>8, <1>9, <1>10, <1>11, <1>12, <1>13
  DEF JobsNext, Advance

\* The jobs implement the promise: requests are refused, admitted to a place
\* that is free, accepted, ended and only then done with their place, as
\* BuildPromise says, whatever order the handlers and goroutines run in.
THEOREM PromiseImplemented ==
  JobsSpec => Promise!PromiseInit /\ [][Promise!PromiseNext]_(Promise!promiseVars)
<1>1. JobsInit => Promise!PromiseInit
  BY DEF JobsInit, Promise!PromiseInit, Outcome, Holders, Holding
<1>2. JobsTypeOK /\ SlotsConserved /\ [JobsNext]_jobVars
        => [Promise!PromiseNext]_(Promise!promiseVars)
  BY PromiseStep
<1> QED
  BY <1>1, <1>2, JobsTyped, SlotsKept, PTL DEF JobsSpec
=============================================================================
