---------------------------- MODULE CoachSession ----------------------------
(***************************************************************************)
(* The teaching state machine of one session of one course node: what      *)
(* Coach.HandleMessage (internal/agent/coach.go) does to the stored row of *)
(* the session, the learner's progress on the node, the mistake table and  *)
(* the gap ledger, for every message and every answer of the LLM.          *)
(*                                                                         *)
(* One message is handled at a time (the per-session lock of               *)
(* service/session.go); SessionService.tla models what happens around that *)
(* lock.  A handler is a sequence of steps because its database writes are *)
(* separate statements with LLM calls between them: the process can die    *)
(* between any two of them (Crash), and what was kept in memory is lost.   *)
(***************************************************************************)
EXTENDS Naturals, FiniteSets

CONSTANTS
  Core,                   \* core_concepts of the node
  Foreign,                \* concepts MatchConceptToNode maps to another node
  Asked,                  \* core concepts a follow-up question can name
  Shapes,                 \* exercises the LLM can write
  Findings,               \* sets of concepts the LLM can report as weak
  Messages,               \* the messages: each the set of triggers it matches
  EntryLayer,             \* the node is in the entry layer
  StrictConceptCoverage,  \* REGULUS_STRICT_CONCEPT_COVERAGE
  RequireApplyExercise,   \* REGULUS_REQUIRE_APPLY_EXERCISE
  LLMCompletionCheck,     \* REGULUS_LLM_COMPLETION_CHECK
  MaxCrashes,             \* bound on the crashes explored
  NoExercise              \* the nil *ExerciseContext

Concepts == Core \cup Foreign

\* "question" is not a trigger: it marks free text that only asks something.
\* No code looks at it; ReviewQuestionNotGraded does.
Trigger == {"skip", "next", "exercise", "newExercise", "back", "realWorld"}

Shape == [covers : SUBSET Core, apply : BOOLEAN, choice : BOOLEAN]

\* adoptPlainTextExercise: a reply that looks like an exercise becomes one,
\* without concepts, level or choices.
PlainShape == [covers |-> {}, apply |-> FALSE, choice |-> FALSE]

ASSUME ConstantsAssumption ==
  /\ IsFiniteSet(Core)
  /\ Core \cap Foreign = {}
  /\ Asked \subseteq Core
  /\ Shapes \subseteq Shape
  /\ Findings \subseteq SUBSET Concepts
  /\ Messages \subseteq SUBSET (Trigger \cup {"question"})
  /\ EntryLayer \in BOOLEAN /\ StrictConceptCoverage \in BOOLEAN
  /\ RequireApplyExercise \in BOOLEAN /\ LLMCompletionCheck \in BOOLEAN
  /\ MaxCrashes \in Nat

\* followUpDeepenThreshold.  WrongAttempts and ConceptFollowUps are counted up
\* to 2, beyond which no code tells their values apart.
Threshold == 2
Count == 0 .. Threshold
Increment(n) == IF n < Threshold THEN n + 1 ELSE n

Exercise == [shape : Shape, wrong : Count]

ASSUME NoExerciseAssumption == NoExercise \notin Exercise

Phase == {"explain", "exercise", "review", "completed"}

\* A row of table sessions with its context_json.
SessionRow ==
  [phase       : Phase,
   status      : {"active", "completed"},
   exercise    : Exercise \cup {NoExercise},
   last        : Exercise \cup {NoExercise},   \* LastExercise
   recent      : SUBSET Concepts,              \* RecentMistakes
   tested      : SUBSET Core,                  \* TestedConcepts
   applyPassed : BOOLEAN,                      \* ApplyExercisePassed
   warned      : BOOLEAN,                      \* SkipMasteryWarned
   pending     : SUBSET Concepts,              \* PendingSkipGaps
   followUps   : [Asked -> Count],             \* ConceptFollowUps
   deepened    : SUBSET Asked]                 \* DeepenedConcepts

GapSource == {"mistake", "coach_gap"}

VARIABLES
  session,    \* the stored row
  progress,   \* user_progress.status of the node
  mistakes,   \* concepts with a row in table mistakes
  gaps,       \* open rows of knowledge_gaps written by the coach
  pc,         \* where the message being handled is; "idle" if there is none
  work,       \* the handler's *Session and *SessionContext
  hist,       \* history, read by the properties only
  crashes

vars == <<session, progress, mistakes, gaps, pc, work, hist, crashes>>

Step == {"idle", "wrong", "swap", "assessPass", "assessSkip", "warn",
         "ledger", "clear", "chain", "force", "light", "close", "resolve"}

\* answered, applied: what the learner has really answered correctly;
\* misread: the last text graded was a question asked in review;
\* grounds: why the node may be lit whatever the rules say;
\* notReady: a skip request was refused since the session was last closed;
\* owed: the concepts that refusal named; forcing: it has been overridden.
History ==
  [answered : SUBSET Core, applied : BOOLEAN, misread : BOOLEAN,
   grounds  : SUBSET {"ready", "forced"},
   notReady : BOOLEAN, owed : SUBSET Concepts, forcing : BOOLEAN]

TypeOK ==
  /\ session \in SessionRow
  /\ work \in SessionRow
  /\ progress \in {"in_progress", "completed"}
  /\ mistakes \in SUBSET Concepts
  /\ gaps \in SUBSET (GapSource \X Concepts)
  /\ pc \in Step
  /\ hist \in History
  /\ crashes \in Nat

NewRow ==
  [phase |-> "explain", status |-> "active", exercise |-> NoExercise,
   last |-> NoExercise, recent |-> {}, tested |-> {}, applyPassed |-> FALSE,
   warned |-> FALSE, pending |-> {}, followUps |-> [c \in Asked |-> 0],
   deepened |-> {}]

\* The row and the progress StartOrResumeSession stores for a new node.
Init ==
  /\ session = NewRow
  /\ work = NewRow
  /\ progress = "in_progress"
  /\ mistakes = {}
  /\ gaps = {}
  /\ pc = "idle"
  /\ hist = [answered |-> {}, applied |-> FALSE, misread |-> FALSE,
             grounds |-> {}, notReady |-> FALSE, owed |-> {}, forcing |-> FALSE]
  /\ crashes = 0
-----------------------------------------------------------------------------
(* Helpers on the row.                                                     *)

Fresh(shape) == [shape |-> shape, wrong |-> 0]

\* adoptExerciseOutput, adoptPlainTextExercise and the end of startExercise.
AdoptForgetsWarning(row, shape) ==    \* mutant
  [row EXCEPT !.phase = "exercise", !.exercise = Fresh(shape), !.warned = FALSE]
Adopt(row, shape) == [row EXCEPT !.phase = "exercise", !.exercise = Fresh(shape)]

Uncovered(tested) == Core \ tested

RequiresApplyExercise == ~EntryLayer

DeferCompleteLate(tested, applyPassed) ==    \* mutant
  \/ StrictConceptCoverage /\ Cardinality(Uncovered(tested)) >= 3
  \/ RequireApplyExercise /\ RequiresApplyExercise /\ ~applyPassed

\* EvaluateDeferComplete: the rules ask for another exercise.
DeferComplete(tested, applyPassed) ==
  \/ /\ StrictConceptCoverage
     /\ Cardinality(Core) >= 3
     /\ Cardinality(Uncovered(tested)) >= 2
  \/ RequireApplyExercise /\ RequiresApplyExercise /\ ~applyPassed

RuleDefers(row) == DeferComplete(row.tested, row.applyPassed)

Followed(row, c) == [row EXCEPT !.followUps[c] = Increment(@)]

DeepenAtOnce(row, c) == c \notin row.deepened    \* mutant

\* shouldDeepenOnFollowUp, after recordConceptFollowUp.
DeepenDue(row, c) ==
  /\ c \notin row.deepened
  /\ Followed(row, c).followUps[c] >= Threshold

\* What explainQA and reviewExplain can leave in the store: nothing new (LLM
\* error or a plain answer), the counted follow-up, a deep explanation
\* (maybeDeepenOnFollowUp), or an exercise the LLM slipped into its answer.  A
\* failed deep explanation falls back to the answer without storing the count.
AnswerRows(row) ==
  LET due == {c \in Asked : DeepenDue(row, c)} IN
    {row}
    \cup {Followed(row, c) : c \in Asked \ due}
    \cup {[Followed(row, c) EXCEPT !.deepened = @ \cup {c}] : c \in due}
    \cup {Adopt(r, e) : r \in {row} \cup {Followed(row, c) : c \in Asked},
                        e \in Shapes \cup {PlainShape}}

\* GapLedger.RecordConcepts: the rows (re)opened for these concepts.
Ledger(source, concepts) == {source} \X concepts

\* ResolveKnowledgeGapsByNode: the open rows mapped to this node.
MappedHere(rows) == {g \in rows : g[2] \notin Foreign}
-----------------------------------------------------------------------------
(* Dispatch of HandleMessage.                                              *)

Wants(m, triggers) == m \cap triggers # {}

\* The message reaches the switch on the phase.
Learning(m) ==
  /\ pc = "idle"
  /\ session.phase # "completed"
  /\ ~Wants(m, {"skip", "next"})

\* In review, going back to the explanation first restores LastExercise.
Restored ==
  IF session.phase = "review" /\ session.exercise = NoExercise
  THEN session.last ELSE session.exercise

WantsBack(m) ==
  /\ Wants(m, {"back"})
  /\ \/ session.phase = "exercise"
     \/ session.phase = "review" /\ Restored # NoExercise

WantsStart(m) ==
  \/ session.phase = "explain" /\ Wants(m, {"exercise"})
  \/ session.phase = "exercise" /\ Wants(m, {"newExercise"})
  \/ session.phase = "review" /\ Wants(m, {"exercise", "newExercise"})

\* In phase review the answer is taken to be a retry of LastExercise.
WantsGrade(m) ==
  \/ /\ session.phase = "exercise"
     /\ ~Wants(m, {"newExercise", "realWorld"})
  \/ /\ session.phase = "review"
     /\ session.last # NoExercise
     /\ ~Wants(m, Trigger)

Graded ==
  IF session.phase = "review" THEN session.last ELSE session.exercise

\* The message is handled by one write of the row (or none).
Store(row) ==
  /\ session' = row
  /\ work' = row
  /\ pc' = "idle"

Untouched == UNCHANGED <<progress, mistakes, gaps, hist, crashes>>

\* The handler goes on: the row in memory is now `row`.
Continue(row, step) ==
  /\ work' = row
  /\ pc' = step
  /\ UNCHANGED <<session, crashes>>
-----------------------------------------------------------------------------
(* Messages answered without grading.  realWorldCase,                      *)
(* blockStartNextUntilCompleted and every handler whose LLM call fails     *)
(* before its first write answer without storing anything: stuttering.     *)

\* completedQA: told not to, the LLM may still write an exercise.
CompletedQA(m) ==
  /\ pc = "idle" /\ session.phase = "completed"
  /\ ~Wants(m, {"next"})
  /\ \E e \in Shapes : Store(Adopt(session, e))
  /\ Untouched

\* explainQA and reviewExplain.
ExplainQA(m) ==
  /\ Learning(m)
  /\ session.phase \in {"explain", "review"}
  /\ ~WantsBack(m) /\ ~WantsStart(m) /\ ~WantsGrade(m)
  /\ ~Wants(m, {"realWorld"})
  /\ \E row \in AnswerRows(session) : Store(row)
  /\ Untouched

\* exerciseBackToExplain: the current exercise stays, explained; without one
\* the session returns to phase explain.
ExerciseBackToExplain(m) ==
  /\ Learning(m) /\ WantsBack(m)
  /\ LET kept == [session EXCEPT !.exercise = Restored] IN
       IF Restored = NoExercise
       THEN \E row \in AnswerRows([session EXCEPT !.phase = "explain"]) : Store(row)
       ELSE \E row \in {session, [kept EXCEPT !.phase = "exercise"]}
                       \cup {Adopt(kept, e) : e \in Shapes \cup {PlainShape}} :
              Store(row)
  /\ Untouched

StartExercise(m) ==
  /\ Learning(m) /\ WantsStart(m) /\ ~WantsBack(m)
  /\ \E e \in Shapes : Store(Adopt(session, e))
  /\ Untouched
-----------------------------------------------------------------------------
(* Grading.                                                                *)

\* ValidateExerciseAnswer refuses the form of the answer: not an attempt.
GradeInvalid(m) ==
  /\ Learning(m) /\ ~WantsBack(m) /\ WantsGrade(m)
  /\ Graded # NoExercise
  /\ Store([session EXCEPT !.phase = "exercise", !.exercise = Graded])
  /\ Untouched

\* A choice exercise with a stored key is graded by the program
\* (GradeChoiceAnswer); everything else, by the LLM.
PassedByLLM(keyed, right, llm) == llm    \* mutant
Passed(keyed, right, llm) == IF keyed THEN right ELSE llm

Keyed(ex) ==
  IF ex = NoExercise THEN {FALSE}
  ELSE IF ex.shape.choice THEN BOOLEAN ELSE {FALSE}

\* RecordExerciseTested and ApplyExercisePassed, in memory only.
AfterPass(row, ex) ==
  IF ex = NoExercise THEN row
  ELSE [row EXCEPT !.exercise = ex,
                   !.tested = @ \cup ex.shape.covers,
                   !.applyPassed = @ \/ ex.shape.apply]

AfterWrong(row, ex, weak) ==
  IF ex = NoExercise THEN [row EXCEPT !.recent = weak]
  ELSE LET tried == [ex EXCEPT !.wrong = Increment(@)] IN
         [row EXCEPT !.exercise = tried, !.last = tried, !.recent = weak]

\* The ghost record of a graded message.
Judged(m) ==
  [hist EXCEPT !.misread = session.phase = "review" /\ "question" \in m]

GradePass(m) ==
  /\ Learning(m) /\ ~WantsBack(m) /\ WantsGrade(m)
  /\ \E right, llm \in BOOLEAN : \E keyed \in Keyed(Graded) :
       LET correct == Graded # NoExercise /\ (keyed => right) IN
       /\ Passed(keyed, right, llm)
       /\ hist' = [Judged(m) EXCEPT
            !.answered = @ \cup (IF correct THEN Graded.shape.covers ELSE {}),
            !.applied = @ \/ (correct /\ Graded.shape.apply)]
  /\ Continue(AfterPass(session, Graded), "assessPass")
  /\ UNCHANGED <<progress, mistakes, gaps>>

WithCoreMistakes(weak) == mistakes \cup (weak \cap Core)    \* mutant
WithMistakes(weak) == mistakes \cup weak

\* A wrong answer: its concepts go to the mistake table and to the ledger
\* before the row is stored.
GradeWrong(m) ==
  /\ Learning(m) /\ ~WantsBack(m) /\ WantsGrade(m)
  /\ \E right, llm \in BOOLEAN : \E keyed \in Keyed(Graded) :
       ~Passed(keyed, right, llm)
  /\ \E weak \in Findings :
       /\ mistakes' = WithMistakes(weak)
       /\ gaps' = gaps \cup Ledger("mistake", weak)
       /\ Continue(AfterWrong(session, Graded, weak), "wrong")
  /\ hist' = Judged(m)
  /\ UNCHANGED progress

SecondWrong == work.exercise # NoExercise /\ work.exercise.wrong >= Threshold

\* First wrong answer: the same exercise again.
KeepExercise ==
  /\ pc = "wrong" /\ ~SecondWrong
  /\ Store([work EXCEPT !.phase = "exercise"])
  /\ Untouched

\* Second wrong answer: store, then ask the LLM for a similar exercise.
StoreBeforeSwap ==
  /\ pc = "wrong" /\ SecondWrong
  /\ session' = work
  /\ pc' = "swap"
  /\ UNCHANGED work
  /\ Untouched

SwapExercise ==
  /\ pc = "swap"
  /\ \E row \in {[work EXCEPT !.phase = "exercise"]}
                \cup {Adopt(work, e) : e \in Shapes} : Store(row)
  /\ Untouched
-----------------------------------------------------------------------------
(* Deciding whether the node is mastered: tryCompleteAfterPass,            *)
(* tryCompleteLegacySkip, deferAfterReadiness.                             *)

\* evaluateMasterySkip.
SkipMastery(m) ==
  /\ pc = "idle" /\ session.phase # "completed" /\ Wants(m, {"skip"})
  /\ Continue(session, IF session.warned THEN "force" ELSE "assessSkip")
  /\ UNCHANGED <<progress, mistakes, gaps, hist>>

Assessing == pc \in {"assessPass", "assessSkip"}
Skipping == pc = "assessSkip"

\* Without the LLM check the rules decide about a passed exercise, and they
\* also overrule a readiness the LLM grants to a skip request.
AssessByRule ==
  /\ pc = "assessPass" /\ ~LLMCompletionCheck
  /\ Continue(work, IF RuleDefers(work) THEN "clear" ELSE "light")
  /\ UNCHANGED <<progress, mistakes, gaps, hist>>

AssessReady ==
  /\ Assessing /\ (LLMCompletionCheck \/ Skipping)
  /\ IF ~LLMCompletionCheck /\ RuleDefers(work)
     THEN Continue(work, "clear") /\ UNCHANGED hist
     ELSE /\ Continue(work, "light")
          /\ hist' = [hist EXCEPT !.grounds = @ \cup {"ready"}]
  /\ UNCHANGED <<progress, mistakes, gaps>>

\* The readiness call fails: the rules decide.  The legacy skip gives up.
AssessFailed ==
  /\ Assessing /\ (LLMCompletionCheck \/ Skipping)
  /\ IF LLMCompletionCheck
     THEN Continue(work, IF RuleDefers(work) THEN "clear" ELSE "light")
     ELSE Store(session) /\ UNCHANGED crashes
  /\ UNCHANGED <<progress, mistakes, gaps, hist>>

\* The gaps a refused skip request is warned about.
WarnedGaps(found) ==
  IF LLMCompletionCheck THEN found \cup Uncovered(work.tested)
  ELSE IF found = {} THEN work.recent ELSE found

AssessNotReady ==
  /\ Assessing /\ (LLMCompletionCheck \/ Skipping)
  /\ IF Skipping
     THEN \E found \in Findings :
            Continue([work EXCEPT !.warned = TRUE, !.pending = WarnedGaps(found)],
                     "warn")
     ELSE Continue(work, "clear")
  /\ UNCHANGED <<progress, mistakes, gaps, hist>>

StoreWarning ==
  /\ pc = "warn"
  /\ session' = work
  /\ pc' = "ledger"
  /\ hist' = [hist EXCEPT !.notReady = TRUE, !.owed = work.pending,
                          !.forcing = FALSE]
  /\ UNCHANGED <<work, progress, mistakes, gaps, crashes>>

\* With the LLM check the refusal is followed by an exercise, without it not.
RecordWarnedGaps ==
  /\ pc = "ledger"
  /\ gaps' = gaps \cup Ledger("coach_gap", work.pending)
  /\ pc' = IF LLMCompletionCheck THEN "clear" ELSE "idle"
  /\ UNCHANGED <<session, work, progress, mistakes, hist, crashes>>

\* gradePassChainNextExercise: drop the exercise, store, ask for the next one.
ClearExercise ==
  /\ pc = "clear"
  /\ work' = [work EXCEPT !.exercise = NoExercise]
  /\ session' = work'
  /\ pc' = "chain"
  /\ Untouched

ChainExerciseKeepsPhase ==    \* mutant
  /\ pc = "chain"
  /\ \E row \in {work} \cup {Adopt(work, e) : e \in Shapes} : Store(row)
  /\ Untouched

ChainExercise ==
  /\ pc = "chain"
  /\ \E row \in {[work EXCEPT !.phase = "review"]}
                \cup {Adopt(work, e) : e \in Shapes} : Store(row)
  /\ Untouched
-----------------------------------------------------------------------------
(* Completing the node.                                                    *)

SkipGapsRecent(row) == row.recent    \* mutant
SkipGaps(row) == IF row.pending = {} THEN row.recent ELSE row.pending

\* forceCompleteWithGapRecording.
RecordSkipGaps ==
  /\ pc = "force"
  /\ mistakes' = WithMistakes(SkipGaps(work))
  /\ gaps' = gaps \cup Ledger("coach_gap", SkipGaps(work))
  /\ hist' = [hist EXCEPT !.grounds = @ \cup {"forced"}, !.forcing = TRUE]
  /\ Continue(work, "light")
  /\ UNCHANGED progress

\* completeNode: three statements, in this order.
ClosedStillWarned(row) ==    \* mutant
  [row EXCEPT !.phase = "completed", !.status = "completed",
              !.exercise = NoExercise, !.pending = {}]

Closed(row) ==
  [row EXCEPT !.phase = "completed", !.status = "completed",
              !.exercise = NoExercise, !.warned = FALSE, !.pending = {}]

LightNodeLater ==    \* mutant: the session is stored first
  /\ pc = "light"
  /\ session' = Closed(work)
  /\ work' = Closed(work) /\ pc' = "close"
  /\ UNCHANGED <<progress, mistakes, gaps, hist, crashes>>

LightNode ==
  /\ pc = "light"
  /\ progress' = "completed"
  /\ Continue(Closed(work), "close")
  /\ UNCHANGED <<mistakes, gaps, hist>>

CloseSession ==
  /\ pc = "close"
  /\ session' = work
  /\ pc' = "resolve"
  /\ hist' = [hist EXCEPT !.notReady = FALSE]
  /\ UNCHANGED <<work, progress, mistakes, gaps, crashes>>

ResolveCoachGaps ==    \* mutant
  /\ pc = "resolve"
  /\ gaps' = gaps \ {g \in MappedHere(gaps) : g[1] = "coach_gap"}
  /\ pc' = "idle"
  /\ UNCHANGED <<session, work, progress, mistakes, hist, crashes>>

ResolveGaps ==
  /\ pc = "resolve"
  /\ gaps' = gaps \ MappedHere(gaps)
  /\ pc' = "idle"
  /\ UNCHANGED <<session, work, progress, mistakes, hist, crashes>>
-----------------------------------------------------------------------------
\* The process dies inside a handler; after the restart only the database is
\* left.
Crash ==
  /\ pc # "idle" /\ crashes < MaxCrashes
  /\ pc' = "idle"
  /\ work' = session
  /\ crashes' = crashes + 1
  /\ UNCHANGED <<session, progress, mistakes, gaps, hist>>

Receive(m) ==
  \/ CompletedQA(m) \/ ExplainQA(m)
  \/ ExerciseBackToExplain(m) \/ StartExercise(m)
  \/ GradeInvalid(m) \/ GradePass(m) \/ GradeWrong(m) \/ SkipMastery(m)

Proceed ==
  \/ KeepExercise \/ StoreBeforeSwap \/ SwapExercise
  \/ AssessByRule \/ AssessReady \/ AssessFailed \/ AssessNotReady
  \/ StoreWarning \/ RecordWarnedGaps \/ ClearExercise \/ ChainExercise
  \/ RecordSkipGaps \/ LightNode \/ CloseSession \/ ResolveGaps

Next ==
  \/ \E m \in Messages : Receive(m)
  \/ Proceed
  \/ Crash

\* A handler that has begun runs on: its LLM calls have deadlines.
Spec == Init /\ [][Next]_vars /\ WF_vars(Proceed)
-----------------------------------------------------------------------------
(* Safety.                                                                 *)

\* completeNode lights the node before it closes the session: whatever the
\* moment of a crash, a session stored as completed belongs to a lit node.
ClosedSessionIsLit == session.phase = "completed" => progress = "completed"

\* The coverage that opens the completion gates (TestedConcepts and
\* ApplyExercisePassed) is what the learner has answered correctly: nothing is
\* credited on the word of the LLM against the key of a choice exercise, and
\* nothing earned is lost, except the last exercise if the process died.
CoverageIsEarned ==
  /\ session.tested \subseteq hist.answered
  /\ session.applyPassed => hist.applied
  /\ pc = "idle" /\ crashes = 0 =>
       session.tested = hist.answered /\ session.applyPassed = hist.applied

\* The node is lit because the readiness assessment granted it, because the
\* learner overrode a refusal, or because the exercises really answered
\* correctly leave at most one concept of three or more untested and, beyond
\* the entry layer, hold an application exercise.
GatesMet ==
  /\ StrictConceptCoverage /\ Cardinality(Core) >= 3 =>
       \E c \in Core : Core \ {c} \subseteq hist.answered
  /\ RequireApplyExercise /\ ~EntryLayer => hist.applied

LitOnGrounds == progress = "completed" => hist.grounds # {} \/ GatesMet

\* A node is only forced after a refusal the learner has seen: the stored
\* warning stands for a skip request refused since the session was last
\* closed, also when a completed session goes back to exercising.
WarnedIsHonest == session.warned => hist.notReady

\* Overriding a refusal leaves every concept it named in the mistake table,
\* whatever was asked, answered or swapped between the two requests.
WarnedGapsKept == hist.forcing => hist.owed \subseteq mistakes

\* RecentMistakes, from which forceCompleteWithGapRecording and startExercise
\* pick, never names a concept that has no row in the mistake table.
RecentAreRecorded == session.recent \subseteq mistakes

\* A deep explanation is the answer to repeated questions: whatever was stored
\* or lost in between, a concept marked as deepened was asked about twice.
DeepenedWasAsked ==
  \A c \in session.deepened : session.followUps[c] >= Threshold

\* The ledger follows the session as long as no handler is cut short: the
\* concepts of a standing refusal are open gaps, and a completed session
\* leaves no open gap mapped to its node.
LedgerInStep ==
  pc = "idle" /\ crashes = 0 =>
    /\ Ledger("coach_gap", session.pending) \subseteq gaps
    /\ session.phase = "completed" => MappedHere(gaps) = {}

\* Phase exercise means there is an exercise to answer, as long as no handler
\* is cut short between dropping the passed exercise and storing the next.
ExerciseOutstanding ==
  pc = "idle" /\ crashes = 0 /\ session.phase = "exercise" =>
    session.exercise # NoExercise
-----------------------------------------------------------------------------
(* Liveness.                                                               *)

AskToSkip == \E m \in Messages : SkipMastery(m)
SkipAssessed == Skipping /\ (AssessReady \/ AssessNotReady)

InsistentSpec == Spec /\ SF_vars(AskToSkip) /\ SF_vars(SkipAssessed)

\* Under the LLM check, a learner who keeps asking to skip gets the node lit
\* if the assessment does not fail for ever: the first refusal stands until
\* the second request, whatever is exercised in between.
InsistenceLights == <>(progress = "completed")
-----------------------------------------------------------------------------
(* What the documentation says and the code does not do.                   *)

\* intent.go: in review only text that is "not a trigger, not purely a
\* question" is graded as a retry.  The code only excludes the triggers.
ReviewQuestionNotGraded == ~hist.misread

\* coach-flow.md: no arrow leaves state completed, and the prompt of
\* completedQA forbids new exercises; the code adopts one if the LLM writes it.
NoReopen == [][session.phase = "completed" => session'.phase = "completed"]_vars
=============================================================================
