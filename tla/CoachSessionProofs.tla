------------------------ MODULE CoachSessionProofs ------------------------
(***************************************************************************)
(* What holds of CoachSession for every node, every set of messages and    *)
(* every configuration of the completion rules.                            *)
(***************************************************************************)
EXTENDS CoachSession, FiniteSetTheorems, TLAPS

AnyShape == Shapes \cup {PlainShape}

LEMMA PlainIsShape == PlainShape \in Shape
  BY DEF PlainShape, Shape

LEMMA AnyShapeIsShape == AnyShape \subseteq Shape
  BY PlainIsShape, ConstantsAssumption DEF AnyShape

LEMMA IncrementType == ASSUME NEW n \in Count PROVE Increment(n) \in Count
  BY SMT DEF Increment, Count, Threshold

LEMMA FreshType == ASSUME NEW e \in AnyShape PROVE Fresh(e) \in Exercise
  BY AnyShapeIsShape DEF Fresh, Exercise, Count, Threshold

\* The operations on a row keep it a row.
LEMMA AdoptType ==
  ASSUME NEW row \in SessionRow, NEW e \in AnyShape
  PROVE  Adopt(row, e) \in SessionRow
  BY FreshType DEF Adopt, SessionRow, Phase

LEMMA FollowedType ==
  ASSUME NEW row \in SessionRow, NEW c \in Asked
  PROVE  Followed(row, c) \in SessionRow
<1>1. row.followUps[c] \in Count
  BY DEF SessionRow
<1>2. Increment(row.followUps[c]) \in Count
  BY <1>1, IncrementType
<1>3. [row.followUps EXCEPT ![c] = Increment(@)] \in [Asked -> Count]
  BY <1>2 DEF SessionRow
<1> QED BY <1>3 DEF Followed, SessionRow

LEMMA AnswerRowsType ==
  ASSUME NEW row \in SessionRow PROVE AnswerRows(row) \subseteq SessionRow
<1> DEFINE due == {c \in Asked : DeepenDue(row, c)}
<1>1. {Followed(row, c) : c \in Asked \ due} \subseteq SessionRow
  BY FollowedType
<1>2. {[Followed(row, c) EXCEPT !.deepened = @ \cup {c}] : c \in due}
        \subseteq SessionRow
  <2>1. SUFFICES ASSUME NEW c \in Asked
                 PROVE  [Followed(row, c) EXCEPT !.deepened = @ \cup {c}]
                          \in SessionRow
    OBVIOUS
  <2>2. Followed(row, c) \in SessionRow
    BY FollowedType
  <2> HIDE DEF due
  <2>3. ASSUME NEW r \in SessionRow
        PROVE  [r EXCEPT !.deepened = @ \cup {c}] \in SessionRow
    BY DEF SessionRow
  <2> QED BY <2>2, <2>3
<1>3. {Adopt(r, e) : r \in {row} \cup {Followed(row, c) : c \in Asked},
                     e \in Shapes \cup {PlainShape}} \subseteq SessionRow
  BY FollowedType, AdoptType DEF AnyShape
<1> QED BY <1>1, <1>2, <1>3 DEF AnswerRows

LEMMA AfterPassType ==
  ASSUME NEW row \in SessionRow, NEW ex \in Exercise \cup {NoExercise}
  PROVE  AfterPass(row, ex) \in SessionRow
<1>1. CASE ex = NoExercise
  BY <1>1 DEF AfterPass
<1>2. CASE ex # NoExercise
  <2>1. ex.shape.covers \subseteq Core /\ ex.shape.apply \in BOOLEAN
    BY <1>2 DEF Exercise, Shape
  <2> QED BY <1>2, <2>1 DEF AfterPass, SessionRow
<1> QED BY <1>1, <1>2

LEMMA AfterWrongType ==
  ASSUME NEW row \in SessionRow, NEW ex \in Exercise \cup {NoExercise},
         NEW weak \in Findings
  PROVE  AfterWrong(row, ex, weak) \in SessionRow
<1>0. weak \in SUBSET Concepts
  BY ConstantsAssumption
<1>1. CASE ex = NoExercise
  BY <1>0, <1>1 DEF AfterWrong, SessionRow
<1>2. CASE ex # NoExercise
  <2>1. [ex EXCEPT !.wrong = Increment(@)] \in Exercise
    BY <1>2, IncrementType DEF Exercise
  <2> QED BY <1>0, <1>2, <2>1 DEF AfterWrong, SessionRow
<1> QED BY <1>1, <1>2

LEMMA ClosedType ==
  ASSUME NEW row \in SessionRow PROVE Closed(row) \in SessionRow
  BY DEF Closed, SessionRow, Phase
-----------------------------------------------------------------------------
(* Type correctness.                                                       *)

LEMMA NewRowType == NewRow \in SessionRow
  BY DEF NewRow, SessionRow, Phase, Count, Threshold

LEMMA TypeInit == Init => TypeOK
  BY NewRowType DEF Init, TypeOK, History, Step

\* The exercise an answer is graded against.
LEMMA GradedType ==
  ASSUME TypeOK PROVE Graded \in Exercise \cup {NoExercise}
  BY DEF TypeOK, SessionRow, Graded

LEMMA RestoredType ==
  ASSUME TypeOK PROVE Restored \in Exercise \cup {NoExercise}
  BY DEF TypeOK, SessionRow, Restored

\* Storing a row, or going on with one, keeps the types of the session.
LEMMA StoreType ==
  ASSUME NEW row \in SessionRow, TypeOK, Store(row), Untouched
  PROVE  TypeOK'
  BY DEF TypeOK, Store, Untouched, Step

LEMMA WarnedGapsType ==
  ASSUME TypeOK, NEW found \in Findings
  PROVE  WarnedGaps(found) \in SUBSET Concepts
<1>1. found \in SUBSET Concepts /\ work.recent \in SUBSET Concepts
  BY ConstantsAssumption DEF TypeOK, SessionRow
<1>2. Uncovered(work.tested) \in SUBSET Concepts
  BY DEF Uncovered, Concepts
<1> QED BY <1>1, <1>2 DEF WarnedGaps

LEMMA TypeReceive ==
  ASSUME TypeOK, NEW m \in Messages, Receive(m)
  PROVE  TypeOK'
<1>0. session \in SessionRow /\ hist \in History
  BY DEF TypeOK
<1>1. CASE CompletedQA(m)
  <2>1. PICK e \in Shapes : Store(Adopt(session, e))
    BY <1>1 DEF CompletedQA
  <2> QED BY <1>0, <1>1, <2>1, AdoptType, StoreType DEF CompletedQA, AnyShape
<1>2. CASE ExplainQA(m)
  <2>1. PICK row \in AnswerRows(session) : Store(row)
    BY <1>2 DEF ExplainQA
  <2> QED BY <1>0, <1>2, <2>1, AnswerRowsType, StoreType DEF ExplainQA
<1>3. CASE ExerciseBackToExplain(m)
  <2> DEFINE kept == [session EXCEPT !.exercise = Restored]
  <2>1. kept \in SessionRow /\ [kept EXCEPT !.phase = "exercise"] \in SessionRow
    BY <1>0, RestoredType DEF SessionRow, Phase
  <2>2. [session EXCEPT !.phase = "explain"] \in SessionRow
    BY <1>0 DEF SessionRow, Phase
  <2>3. \A e \in Shapes \cup {PlainShape} : Adopt(kept, e) \in SessionRow
    BY <2>1, AdoptType DEF AnyShape
  <2>4. \E row \in SessionRow : Store(row)
    <3>1. CASE Restored = NoExercise
      BY <1>3, <2>2, <3>1, AnswerRowsType DEF ExerciseBackToExplain
    <3>2. CASE Restored # NoExercise
      <4>1. PICK row \in {session, [kept EXCEPT !.phase = "exercise"]}
                        \cup {Adopt(kept, e) : e \in Shapes \cup {PlainShape}} :
              Store(row)
        BY <1>3, <3>2 DEF ExerciseBackToExplain
      <4> HIDE DEF kept
      <4>2. row \in SessionRow
        BY <1>0, <2>1, <2>3
      <4> QED BY <4>1, <4>2
    <3> QED BY <3>1, <3>2
  <2> QED BY <1>3, <2>4, StoreType DEF ExerciseBackToExplain
<1>4. CASE StartExercise(m)
  <2>1. PICK e \in Shapes : Store(Adopt(session, e))
    BY <1>4 DEF StartExercise
  <2> QED BY <1>0, <1>4, <2>1, AdoptType, StoreType DEF StartExercise, AnyShape
<1>5. CASE GradeInvalid(m)
  <2>1. [session EXCEPT !.phase = "exercise", !.exercise = Graded] \in SessionRow
    BY <1>0, GradedType DEF SessionRow, Phase
  <2> QED BY <1>5, <2>1, StoreType DEF GradeInvalid
<1>6. CASE GradePass(m)
  <2>1. AfterPass(session, Graded) \in SessionRow
    BY <1>0, GradedType, AfterPassType
  <2>2. hist' \in History
    <3>1. PICK right, llm \in BOOLEAN, keyed \in Keyed(Graded) :
            LET correct == Graded # NoExercise /\ (keyed => right) IN
            hist' = [Judged(m) EXCEPT
              !.answered = @ \cup (IF correct THEN Graded.shape.covers ELSE {}),
              !.applied = @ \/ (correct /\ Graded.shape.apply)]
      BY <1>6 DEF GradePass
    <3>2. Graded # NoExercise => Graded.shape.covers \in SUBSET Core
                                 /\ Graded.shape.apply \in BOOLEAN
      BY GradedType DEF Exercise, Shape
    <3>3. Judged(m) \in History
      BY <1>0 DEF Judged, History
    <3>4. Judged(m).answered \in SUBSET Core
      BY <3>3 DEF History
    <3> DEFINE correct == Graded # NoExercise /\ (keyed => right)
               a == Judged(m).answered
                      \cup (IF correct THEN Graded.shape.covers ELSE {})
               b == Judged(m).applied \/ (correct /\ Graded.shape.apply)
    <3>5. a \in SUBSET Core
      BY <3>2, <3>4
    <3>6. b \in BOOLEAN
      OBVIOUS
    <3>7. hist' = [Judged(m) EXCEPT !.answered = a,
                                 !.applied = b]
      BY <3>1
    <3> HIDE DEF a, b
    <3> QED BY <3>3, <3>5, <3>6, <3>7 DEF History
  <2> QED BY <1>6, <2>1, <2>2 DEF GradePass, Continue, TypeOK, Step
<1>7. CASE GradeWrong(m)
  <2>1. PICK weak \in Findings :
          /\ mistakes' = WithMistakes(weak)
          /\ gaps' = gaps \cup Ledger("mistake", weak)
          /\ Continue(AfterWrong(session, Graded, weak), "wrong")
    BY <1>7 DEF GradeWrong
  <2>2. AfterWrong(session, Graded, weak) \in SessionRow
    BY <1>0, GradedType, AfterWrongType
  <2>3. hist' \in History
    BY <1>0, <1>7 DEF GradeWrong, Judged, History
  <2>4. mistakes' \in SUBSET Concepts /\ gaps' \in SUBSET (GapSource \X Concepts)
    BY <2>1, ConstantsAssumption DEF TypeOK, WithMistakes, Ledger, GapSource
  <2> QED BY <1>7, <2>1, <2>2, <2>3, <2>4 DEF GradeWrong, Continue, TypeOK, Step
<1>8. CASE SkipMastery(m)
  BY <1>0, <1>8 DEF SkipMastery, Continue, TypeOK, Step
<1> QED BY <1>1, <1>2, <1>3, <1>4, <1>5, <1>6, <1>7, <1>8 DEF Receive
LEMMA TypeProceed ==
  ASSUME TypeOK, Proceed PROVE TypeOK'
<1>0. work \in SessionRow /\ session \in SessionRow /\ hist \in History
  BY DEF TypeOK
<1>1. CASE KeepExercise
  <2>1. [work EXCEPT !.phase = "exercise"] \in SessionRow
    BY <1>0 DEF SessionRow, Phase
  <2> QED BY <1>1, <2>1, StoreType DEF KeepExercise
<1>2. CASE StoreBeforeSwap
  BY <1>0, <1>2 DEF StoreBeforeSwap, Untouched, TypeOK, Step
<1>3. CASE SwapExercise
  <2>1. [work EXCEPT !.phase = "exercise"] \in SessionRow
    BY <1>0 DEF SessionRow, Phase
  <2>2. PICK row \in {[work EXCEPT !.phase = "exercise"]}
                     \cup {Adopt(work, e) : e \in Shapes} : Store(row)
    BY <1>3 DEF SwapExercise
  <2>3. row \in SessionRow
    BY <1>0, <2>1, <2>2, AdoptType DEF AnyShape
  <2> QED BY <1>3, <2>2, <2>3, StoreType DEF SwapExercise
<1>4. CASE AssessByRule
  BY <1>0, <1>4 DEF AssessByRule, Continue, TypeOK, Step
<1>5. CASE AssessReady
  <2>1. hist' \in History
    BY <1>0, <1>5 DEF AssessReady, History
  <2> QED BY <1>0, <1>5, <2>1 DEF AssessReady, Continue, TypeOK, Step
<1>6. CASE AssessFailed
  BY <1>0, <1>6 DEF AssessFailed, Continue, Store, TypeOK, Step
<1>7. CASE AssessNotReady
  <2>1. CASE Skipping
    <3>1. PICK found \in Findings :
            Continue([work EXCEPT !.warned = TRUE, !.pending = WarnedGaps(found)],
                     "warn")
      BY <1>7, <2>1 DEF AssessNotReady
    <3>2. [work EXCEPT !.warned = TRUE, !.pending = WarnedGaps(found)] \in SessionRow
      BY <1>0, WarnedGapsType DEF SessionRow
    <3> QED BY <1>7, <3>1, <3>2 DEF AssessNotReady, Continue, TypeOK, Step
  <2>2. CASE ~Skipping
    BY <1>0, <1>7, <2>2 DEF AssessNotReady, Continue, TypeOK, Step
  <2> QED BY <2>1, <2>2
<1>8. CASE StoreWarning
  <2>1. hist' \in History
    BY <1>0, <1>8 DEF StoreWarning, History, SessionRow
  <2> QED BY <1>0, <1>8, <2>1 DEF StoreWarning, TypeOK, Step
<1>9. CASE RecordWarnedGaps
  <2>1. gaps' \in SUBSET (GapSource \X Concepts)
    BY <1>0, <1>9 DEF RecordWarnedGaps, Ledger, GapSource, TypeOK, SessionRow
  <2> QED BY <1>9, <2>1 DEF RecordWarnedGaps, TypeOK, Step
<1>10. CASE ClearExercise
  <2>1. [work EXCEPT !.exercise = NoExercise] \in SessionRow
    BY <1>0 DEF SessionRow
  <2> QED BY <1>10, <2>1 DEF ClearExercise, Untouched, TypeOK, Step
<1>11. CASE ChainExercise
  <2>1. [work EXCEPT !.phase = "review"] \in SessionRow
    BY <1>0 DEF SessionRow, Phase
  <2>2. PICK row \in {[work EXCEPT !.phase = "review"]}
                     \cup {Adopt(work, e) : e \in Shapes} : Store(row)
    BY <1>11 DEF ChainExercise
  <2>3. row \in SessionRow
    BY <1>0, <2>1, <2>2, AdoptType DEF AnyShape
  <2> QED BY <1>11, <2>2, <2>3, StoreType DEF ChainExercise
<1>12. CASE RecordSkipGaps
  <2>1. SkipGaps(work) \in SUBSET Concepts
    BY <1>0 DEF SkipGaps, SessionRow
  <2>2. mistakes' \in SUBSET Concepts /\ gaps' \in SUBSET (GapSource \X Concepts)
    BY <1>12, <2>1 DEF RecordSkipGaps, WithMistakes, Ledger, GapSource, TypeOK
  <2>3. hist' \in History
    BY <1>0, <1>12 DEF RecordSkipGaps, History
  <2> QED BY <1>0, <1>12, <2>2, <2>3 DEF RecordSkipGaps, Continue, TypeOK, Step
<1>13. CASE LightNode
  BY <1>0, <1>13, ClosedType DEF LightNode, Continue, TypeOK, Step
<1>14. CASE CloseSession
  <2>1. hist' \in History
    BY <1>0, <1>14 DEF CloseSession, History
  <2> QED BY <1>0, <1>14, <2>1 DEF CloseSession, TypeOK, Step
<1>15. CASE ResolveGaps
  BY <1>15 DEF ResolveGaps, MappedHere, TypeOK, Step
<1> QED
  BY <1>1, <1>2, <1>3, <1>4, <1>5, <1>6, <1>7, <1>8, <1>9, <1>10, <1>11, <1>12,
     <1>13, <1>14, <1>15 DEF Proceed

LEMMA TypeStep == TypeOK /\ [Next]_vars => TypeOK'
<1> SUFFICES ASSUME TypeOK, [Next]_vars PROVE TypeOK'
  OBVIOUS
<1>1. CASE \E m \in Messages : Receive(m)
  BY <1>1, TypeReceive
<1>2. CASE Proceed
  BY <1>2, TypeProceed
<1>3. CASE Crash
  BY <1>3 DEF Crash, TypeOK, Step
<1>4. CASE UNCHANGED vars
  BY <1>4 DEF vars, TypeOK
<1> QED BY <1>1, <1>2, <1>3, <1>4 DEF Next

\* Every reachable state has the types the database schema and the context
\* record give it, whatever the LLM answers and whenever the process dies.
THEOREM TypeCorrect == Spec => []TypeOK
  BY TypeInit, TypeStep, PTL DEF Spec
-----------------------------------------------------------------------------
(* The inductive invariant: each property, extended from the stored row to *)
(* the row the running handler holds in memory.                            *)

Rows == {session, work}

LitInv == \A row \in Rows : row.phase = "completed" => progress = "completed"

EarnedInv ==
  \A row \in Rows : /\ row.tested \subseteq hist.answered
                    /\ row.applyPassed => hist.applied

\* Steps between the verdict on a passed exercise and the write that stores it.
Unsaved == {"assessPass", "clear", "light", "close"}

NothingLostInv ==
  crashes = 0 =>
    /\ work.tested = hist.answered /\ work.applyPassed = hist.applied
    /\ pc \notin Unsaved => /\ session.tested = work.tested
                            /\ session.applyPassed = work.applyPassed

GroundsInv ==
  /\ LitOnGrounds
  /\ pc = "light" => hist.grounds # {} \/ ~RuleDefers(work)

\* A standing warning was really given, and names what is still pending.
Honest(row) == row.warned => hist.notReady /\ row.pending = hist.owed

WarnInv ==
  /\ Honest(session)
  /\ pc # "warn" => Honest(work)
  /\ pc = "force" => work.warned
  /\ pc = "close" => ~work.warned
  /\ WarnedGapsKept

RecentInv == \A row \in Rows : row.recent \subseteq mistakes

Missing(row) == row.phase = "exercise" /\ row.exercise = NoExercise

OutstandingInv ==
  crashes = 0 =>
    /\ \A row \in Rows : Missing(row) => pc = "chain"
    /\ pc \in {"wrong", "swap"} => work.exercise # NoExercise

\* Only a handler between closing and resolving sees a completed session.
LedgerInv ==
  /\ pc \notin {"warn", "close"} => work.pending = session.pending
  /\ pc \in {"close", "resolve"} => work.pending = {}
  /\ pc \notin {"idle", "resolve"} => session.phase # "completed"
  /\ pc \notin {"idle", "close", "resolve"} => work.phase # "completed"
  /\ crashes = 0 =>
       /\ pc # "ledger" => Ledger("coach_gap", session.pending) \subseteq gaps
       /\ session.phase = "completed" /\ pc # "resolve" => MappedHere(gaps) = {}

Inductive ==
  /\ TypeOK /\ LitInv /\ EarnedInv /\ NothingLostInv /\ GroundsInv
  /\ WarnInv /\ RecentInv /\ OutstandingInv /\ LedgerInv
-----------------------------------------------------------------------------
(* Most actions store one row and leave the rest alone.                    *)

\* Everything the completion gates and the ledger depend on.
Same(row, old) ==
  /\ row.tested = old.tested /\ row.applyPassed = old.applyPassed
  /\ row.warned = old.warned /\ row.pending = old.pending
  /\ row.recent = old.recent

Chat(m) ==
  \/ CompletedQA(m) \/ ExplainQA(m) \/ ExerciseBackToExplain(m)
  \/ StartExercise(m) \/ GradeInvalid(m)

Reply == KeepExercise \/ SwapExercise \/ ChainExercise

LEMMA AdoptSame ==
  ASSUME NEW row \in SessionRow, NEW e \in AnyShape
  PROVE  /\ Same(Adopt(row, e), row)
         /\ Adopt(row, e).phase = "exercise"
         /\ Adopt(row, e).exercise # NoExercise
  BY FreshType, NoExerciseAssumption DEF Same, Adopt, SessionRow

LEMMA AnswerRowsSame ==
  ASSUME NEW row \in SessionRow, NEW r \in AnswerRows(row)
  PROVE  /\ Same(r, row)
         /\ \/ r.phase = row.phase /\ r.exercise = row.exercise
            \/ r.phase = "exercise" /\ r.exercise # NoExercise
<1> DEFINE due == {c \in Asked : DeepenDue(row, c)}
           Good(q) == /\ Same(q, row)
                      /\ q.phase = row.phase /\ q.exercise = row.exercise
<1>1. \A c \in Asked : Followed(row, c) \in SessionRow /\ Good(Followed(row, c))
  BY FollowedType DEF Followed, Same, SessionRow
<1>2. \A q \in SessionRow : \A c \in Asked : Good(q) =>
        Good([q EXCEPT !.deepened = @ \cup {c}])
  BY DEF Same, SessionRow
<1>3. CASE r = row
  BY <1>3 DEF Same
<1>4. CASE r \in {Followed(row, c) : c \in Asked \ due}
  BY <1>1, <1>4
<1>5. CASE r \in {[Followed(row, c) EXCEPT !.deepened = @ \cup {c}] : c \in due}
  <2>1. PICK c \in Asked : r = [Followed(row, c) EXCEPT !.deepened = @ \cup {c}]
    BY <1>5
  <2>2. Good(r)
    <3> HIDE DEF Good
    <3> QED BY <1>1, <1>2, <2>1
  <2> QED BY <2>2
<1>6. CASE r \in {Adopt(q, e) : q \in {row} \cup {Followed(row, c) : c \in Asked},
                                e \in Shapes \cup {PlainShape}}
  <2>1. PICK q \in {row} \cup {Followed(row, c) : c \in Asked}, e \in AnyShape :
          r = Adopt(q, e)
    BY <1>6 DEF AnyShape
  <2>2. q \in SessionRow /\ Same(q, row)
    BY <1>1, <2>1 DEF Same
  <2>3. Same(r, q) /\ r.phase = "exercise" /\ r.exercise # NoExercise
    BY <2>1, <2>2, AdoptSame
  <2> QED BY <2>2, <2>3 DEF Same
<1> QED BY <1>3, <1>4, <1>5, <1>6 DEF AnswerRows

LEMMA ChatStores ==
  ASSUME TypeOK, NEW m \in Messages, Chat(m)
  PROVE  /\ pc = "idle"
         /\ Untouched
         /\ \E row \in SessionRow :
              /\ Store(row) /\ Same(row, session) /\ row.phase # "completed"
              /\ Missing(row) => Missing(session)
<1>0. session \in SessionRow
  BY DEF TypeOK
<1>1. CASE CompletedQA(m)
  <2>1. PICK e \in AnyShape : Store(Adopt(session, e))
    BY <1>1 DEF CompletedQA, AnyShape
  <2> QED BY <1>0, <1>1, <2>1, AdoptType, AdoptSame DEF CompletedQA, Missing
<1>2. CASE ExplainQA(m)
  <2>1. PICK row \in AnswerRows(session) : Store(row)
    BY <1>2 DEF ExplainQA
  <2> QED BY <1>0, <1>2, <2>1, AnswerRowsType, AnswerRowsSame
      DEF ExplainQA, Learning, Missing
<1>3. CASE ExerciseBackToExplain(m)
  <2> DEFINE kept == [session EXCEPT !.exercise = Restored]
             asked == [kept EXCEPT !.phase = "exercise"]
             told == [session EXCEPT !.phase = "explain"]
  <2>1. kept \in SessionRow /\ Same(kept, session) /\ kept.exercise = Restored
    BY <1>0, RestoredType DEF SessionRow, Same
  <2>2. asked \in SessionRow /\ Same(asked, session) /\ asked.phase = "exercise"
        /\ asked.exercise = Restored
    BY <2>1 DEF SessionRow, Phase, Same
  <2>3. told \in SessionRow /\ Same(told, session) /\ told.phase = "explain"
    BY <1>0 DEF SessionRow, Phase, Same
  <2>4. session.phase # "completed" /\ pc = "idle" /\ Untouched
    BY <1>3 DEF ExerciseBackToExplain, Learning
  <2> HIDE DEF kept, asked, told
  <2>5. CASE Restored = NoExercise
    <3>1. PICK row \in AnswerRows(told) : Store(row)
      BY <1>3, <2>5 DEF ExerciseBackToExplain, told
    <3>2. row \in SessionRow /\ Same(row, told)
          /\ (row.phase = "explain" \/ (row.phase = "exercise" /\ ~Missing(row)))
      BY <2>3, <3>1, AnswerRowsType, AnswerRowsSame DEF Missing
    <3>3. Same(row, session) /\ row.phase # "completed" /\ ~Missing(row)
      BY <2>3, <3>2 DEF Same, Missing
    <3> QED BY <2>4, <3>1, <3>2, <3>3
  <2>6. CASE Restored # NoExercise
    <3>1. PICK row \in {session, asked}
                      \cup {Adopt(kept, e) : e \in Shapes \cup {PlainShape}} :
            Store(row)
      BY <1>3, <2>6 DEF ExerciseBackToExplain, kept, asked
    <3>2. CASE row = session
      BY <1>0, <2>4, <3>1, <3>2 DEF Same
    <3>3. CASE row = asked
      BY <2>2, <2>4, <2>6, <3>1, <3>3 DEF Missing
    <3>4. CASE row \in {Adopt(kept, e) : e \in Shapes \cup {PlainShape}}
      <4>1. PICK e \in AnyShape : row = Adopt(kept, e)
        BY <3>4 DEF AnyShape
      <4>2. row \in SessionRow /\ Same(row, kept) /\ row.phase = "exercise"
            /\ row.exercise # NoExercise
        BY <2>1, <4>1, AdoptType, AdoptSame
      <4> QED BY <2>1, <2>4, <3>1, <4>2 DEF Same, Missing
    <3> QED BY <3>1, <3>2, <3>3, <3>4
  <2> QED BY <2>5, <2>6
<1>4. CASE StartExercise(m)
  <2>1. PICK e \in AnyShape : Store(Adopt(session, e))
    BY <1>4 DEF StartExercise, AnyShape
  <2> QED BY <1>0, <1>4, <2>1, AdoptType, AdoptSame
      DEF StartExercise, Learning, Missing
<1>5. CASE GradeInvalid(m)
  <2> DEFINE row == [session EXCEPT !.phase = "exercise", !.exercise = Graded]
  <2>1. row \in SessionRow /\ Same(row, session) /\ row.phase = "exercise"
        /\ row.exercise = Graded
    BY <1>0, GradedType DEF SessionRow, Phase, Same
  <2> QED BY <1>5, <2>1 DEF GradeInvalid, Learning, Missing
<1> QED BY <1>1, <1>2, <1>3, <1>4, <1>5 DEF Chat

LEMMA ReplyStores ==
  ASSUME TypeOK, Reply
  PROVE  /\ pc \in {"wrong", "swap", "chain"}
         /\ Untouched
         /\ \E row \in SessionRow :
              /\ Store(row) /\ Same(row, work) /\ row.phase # "completed"
              /\ Missing(row) => /\ pc \in {"wrong", "swap"}
                                /\ work.exercise = NoExercise
<1> DEFINE same(row) == row \in SessionRow /\ Same(row, work)
                        /\ row.exercise = work.exercise
<1>1. work \in SessionRow
  BY DEF TypeOK
<1>2. \A ph \in Phase : same([work EXCEPT !.phase = ph])
                        /\ [work EXCEPT !.phase = ph].phase = ph
  BY <1>1 DEF SessionRow, Same
<1> DEFINE asked == [work EXCEPT !.phase = "exercise"]
           reviewed == [work EXCEPT !.phase = "review"]
<1>3. same(asked) /\ asked.phase = "exercise"
  BY <1>2 DEF Phase
<1>4. same(reviewed) /\ reviewed.phase = "review"
  BY <1>2 DEF Phase
<1>5. \A e \in Shapes : /\ Adopt(work, e) \in SessionRow
                        /\ Same(Adopt(work, e), work)
                        /\ Adopt(work, e).phase = "exercise"
                        /\ ~Missing(Adopt(work, e))
  BY <1>1, AdoptType, AdoptSame DEF AnyShape, Missing
<1>6. CASE KeepExercise
  BY <1>3, <1>6 DEF KeepExercise, Missing
<1>7. CASE SwapExercise
  <2>1. PICK row \in {asked} \cup {Adopt(work, e) : e \in Shapes} : Store(row)
    BY <1>7 DEF SwapExercise
  <2> HIDE DEF asked
  <2>2. CASE row = asked
    BY <1>3, <1>7, <2>1, <2>2 DEF SwapExercise, Missing
  <2>3. CASE row # asked
    BY <1>5, <1>7, <2>1, <2>3 DEF SwapExercise
  <2> QED BY <2>2, <2>3
<1>8. CASE ChainExercise
  <2>1. PICK row \in {reviewed} \cup {Adopt(work, e) : e \in Shapes} : Store(row)
    BY <1>8 DEF ChainExercise
  <2> HIDE DEF reviewed
  <2>2. CASE row = reviewed
    BY <1>4, <1>8, <2>1, <2>2 DEF ChainExercise, Missing
  <2>3. CASE row # reviewed
    BY <1>5, <1>8, <2>1, <2>3 DEF ChainExercise
  <2> QED BY <2>2, <2>3
<1> QED BY <1>6, <1>7, <1>8 DEF Reply
\* The history fields a step other than a verdict or a refusal leaves alone.
SameRecord ==
  /\ hist'.answered = hist.answered /\ hist'.applied = hist.applied
  /\ hist'.notReady = hist.notReady /\ hist'.owed = hist.owed
  /\ hist'.forcing = hist.forcing

\* A passed exercise earns in memory exactly what the learner has earned: a
\* choice exercise passes by its key only.
LEMMA GradePassEffect ==
  ASSUME TypeOK, NEW m \in Messages, GradePass(m)
  PROVE  /\ pc = "idle" /\ session.phase # "completed" /\ pc' = "assessPass"
         /\ UNCHANGED <<session, progress, mistakes, gaps, crashes>>
         /\ work'.phase = session.phase /\ work'.warned = session.warned
         /\ work'.pending = session.pending /\ work'.recent = session.recent
         /\ Missing(work') => Missing(session)
         /\ hist'.grounds = hist.grounds /\ hist'.notReady = hist.notReady
         /\ hist'.owed = hist.owed /\ hist'.forcing = hist.forcing
         /\ \E new \in SUBSET Core, used \in BOOLEAN :
              /\ work'.tested = session.tested \cup new
              /\ hist'.answered = hist.answered \cup new
              /\ work'.applyPassed = (session.applyPassed \/ used)
              /\ hist'.applied = (hist.applied \/ used)
<1>0. session \in SessionRow /\ hist \in History
  BY DEF TypeOK
<1>1. Graded \in Exercise \cup {NoExercise}
  BY GradedType
<1>2. PICK right \in BOOLEAN, llm \in BOOLEAN, keyed \in Keyed(Graded) :
        LET correct == Graded # NoExercise /\ (keyed => right) IN
        /\ Passed(keyed, right, llm)
        /\ hist' = [Judged(m) EXCEPT
             !.answered = @ \cup (IF correct THEN Graded.shape.covers ELSE {}),
             !.applied = @ \/ (correct /\ Graded.shape.apply)]
  BY DEF GradePass
<1>3. keyed => right
  BY <1>2 DEF Passed, Keyed
<1> DEFINE new == IF Graded # NoExercise THEN Graded.shape.covers ELSE {}
           used == Graded # NoExercise /\ Graded.shape.apply
<1>4. new \in SUBSET Core /\ used \in BOOLEAN
  BY <1>1 DEF Exercise, Shape
<1>5. Judged(m) \in History
      /\ Judged(m).answered = hist.answered
      /\ Judged(m).applied = hist.applied
      /\ Judged(m).grounds = hist.grounds
      /\ Judged(m).notReady = hist.notReady
      /\ Judged(m).owed = hist.owed
      /\ Judged(m).forcing = hist.forcing
  BY <1>0 DEF Judged, History
<1>6. hist' = [Judged(m) EXCEPT
                 !.answered = hist.answered \cup new,
                 !.applied = hist.applied \/ used]
  BY <1>2, <1>3, <1>5
<1>7. hist'.answered = hist.answered \cup new /\ hist'.applied = (hist.applied \/ used)
      /\ hist'.grounds = hist.grounds /\ hist'.notReady = hist.notReady
      /\ hist'.owed = hist.owed /\ hist'.forcing = hist.forcing
  <2> HIDE DEF new, used
  <2> QED BY <1>5, <1>6 DEF History
<1>8. work' = AfterPass(session, Graded)
  BY DEF GradePass, Continue
<1>9. /\ work'.phase = session.phase /\ work'.warned = session.warned
      /\ work'.pending = session.pending /\ work'.recent = session.recent
      /\ work'.tested = session.tested \cup new
      /\ work'.applyPassed = (session.applyPassed \/ used)
      /\ Missing(work') => Missing(session)
  <2>1. CASE Graded = NoExercise
    BY <1>0, <1>8, <2>1 DEF AfterPass, SessionRow, Missing
  <2>2. CASE Graded # NoExercise
    BY <1>0, <1>4, <1>8, <2>2 DEF AfterPass, SessionRow, Missing
  <2> QED BY <2>1, <2>2
<1>10. /\ pc = "idle" /\ session.phase # "completed" /\ pc' = "assessPass"
       /\ UNCHANGED <<session, progress, mistakes, gaps, crashes>>
  BY DEF GradePass, Learning, Continue
<1> HIDE DEF new, used
<1> QED BY <1>4, <1>7, <1>9, <1>10

LEMMA GradeWrongEffect ==
  ASSUME TypeOK, NEW m \in Messages, GradeWrong(m)
  PROVE  /\ pc = "idle" /\ session.phase # "completed" /\ pc' = "wrong"
         /\ UNCHANGED <<session, progress, crashes>>
         /\ SameRecord /\ hist'.grounds = hist.grounds
         /\ mistakes \subseteq mistakes' /\ work'.recent \subseteq mistakes'
         /\ gaps \subseteq gaps'
         /\ work'.phase = session.phase /\ work'.warned = session.warned
         /\ work'.pending = session.pending /\ work'.tested = session.tested
         /\ work'.applyPassed = session.applyPassed
         /\ work'.exercise = NoExercise => Graded = NoExercise
         /\ Missing(work') => Missing(session)
<1>0. session \in SessionRow /\ hist \in History
  BY DEF TypeOK
<1>1. Graded \in Exercise \cup {NoExercise}
  BY GradedType
<1>2. PICK weak \in Findings :
        /\ mistakes' = WithMistakes(weak)
        /\ gaps' = gaps \cup Ledger("mistake", weak)
        /\ Continue(AfterWrong(session, Graded, weak), "wrong")
  BY DEF GradeWrong
<1>3. SameRecord /\ hist'.grounds = hist.grounds
  BY <1>0 DEF GradeWrong, Judged, History, SameRecord
<1>4. pc = "idle" /\ session.phase # "completed" /\ UNCHANGED progress
  BY DEF GradeWrong, Learning
<1>5. CASE Graded = NoExercise
  <2>1. work' = [session EXCEPT !.recent = weak]
    BY <1>2, <1>5 DEF Continue, AfterWrong
  <2> QED BY <1>0, <1>2, <1>3, <1>4, <1>5, <2>1
      DEF Continue, WithMistakes, SessionRow, Missing
<1>6. CASE Graded # NoExercise
  <2> DEFINE tried == [Graded EXCEPT !.wrong = Increment(@)]
  <2>1. tried \in Exercise /\ tried # NoExercise
    BY <1>1, <1>6, IncrementType, NoExerciseAssumption DEF Exercise
  <2>2. work' = [session EXCEPT !.exercise = tried, !.last = tried, !.recent = weak]
    BY <1>2, <1>6 DEF Continue, AfterWrong
  <2> HIDE DEF tried
  <2> QED BY <1>0, <1>2, <1>3, <1>4, <2>1, <2>2
      DEF Continue, WithMistakes, SessionRow, Missing
<1> QED BY <1>5, <1>6

Assess == AssessByRule \/ AssessReady \/ AssessFailed \/ AssessNotReady

LEMMA AssessEffect ==
  ASSUME TypeOK, Assess
  PROVE  /\ UNCHANGED <<session, progress, mistakes, gaps, crashes>>
         /\ SameRecord /\ hist.grounds \subseteq hist'.grounds
         /\ \/ /\ Assessing /\ work' = work /\ pc' = "clear"
            \/ /\ Assessing /\ work' = work /\ pc' = "light"
               /\ hist'.grounds # {} \/ ~RuleDefers(work)
            \/ pc = "assessSkip" /\ work' = session /\ pc' = "idle"
            \/ /\ pc = "assessSkip" /\ pc' = "warn"
               /\ work'.phase = work.phase /\ work'.exercise = work.exercise
               /\ work'.tested = work.tested /\ work'.recent = work.recent
               /\ work'.applyPassed = work.applyPassed
<1>0. work \in SessionRow /\ hist \in History
  BY DEF TypeOK
<1>1. CASE AssessByRule
  BY <1>1 DEF AssessByRule, Continue, SameRecord, Assessing
<1>2. CASE AssessReady
  <2>1. CASE ~LLMCompletionCheck /\ RuleDefers(work)
    BY <1>2, <2>1 DEF AssessReady, Continue, SameRecord
  <2>2. CASE ~(~LLMCompletionCheck /\ RuleDefers(work))
    <3>1. hist' = [hist EXCEPT !.grounds = @ \cup {"ready"}]
          /\ Continue(work, "light")
      BY <1>2, <2>2 DEF AssessReady
    <3>2. SameRecord /\ hist'.grounds = hist.grounds \cup {"ready"}
      BY <1>0, <3>1 DEF History, SameRecord
    <3> QED BY <1>2, <3>1, <3>2 DEF AssessReady, Continue
  <2> QED BY <2>1, <2>2
<1>3. CASE AssessFailed
  <2>1. CASE LLMCompletionCheck
    BY <1>3, <2>1 DEF AssessFailed, Continue, SameRecord
  <2>2. CASE ~LLMCompletionCheck
    BY <1>3, <2>2 DEF AssessFailed, Store, SameRecord, Skipping
  <2> QED BY <2>1, <2>2
<1>4. CASE AssessNotReady
  <2>1. CASE Skipping
    <3>1. PICK found \in Findings :
            Continue([work EXCEPT !.warned = TRUE, !.pending = WarnedGaps(found)],
                     "warn")
      BY <1>4, <2>1 DEF AssessNotReady
    <3> QED BY <1>0, <1>4, <2>1, <3>1
        DEF AssessNotReady, Continue, SameRecord, Skipping, SessionRow
  <2>2. CASE ~Skipping
    BY <1>4, <2>2 DEF AssessNotReady, Continue, SameRecord
  <2> QED BY <2>1, <2>2
<1> QED BY <1>1, <1>2, <1>3, <1>4 DEF Assess

LEMMA ClosedEffect ==
  ASSUME NEW row \in SessionRow
  PROVE  /\ Closed(row).phase = "completed" /\ ~Closed(row).warned
         /\ Closed(row).pending = {} /\ Closed(row).recent = row.recent
         /\ Closed(row).tested = row.tested
         /\ Closed(row).applyPassed = row.applyPassed
  BY DEF Closed, SessionRow
-----------------------------------------------------------------------------
(* The step of each invariant.                                             *)

\* The kinds of step the proofs distinguish.
LEMMA StepKinds ==
  ASSUME [Next]_vars
  PROVE  \/ \E m \in Messages : Chat(m) \/ GradePass(m) \/ GradeWrong(m)
                                \/ SkipMastery(m)
         \/ Reply \/ Assess \/ StoreBeforeSwap \/ StoreWarning \/ RecordWarnedGaps
         \/ ClearExercise \/ RecordSkipGaps \/ LightNode \/ CloseSession
         \/ ResolveGaps \/ Crash \/ UNCHANGED vars
  BY DEF Next, Receive, Proceed, Chat, Reply, Assess

LEMMA LitInvStep ==
  ASSUME Inductive, [Next]_vars PROVE LitInv'
<1>0. TypeOK /\ LitInv
  BY DEF Inductive
<1>1. ASSUME NEW m \in Messages, Chat(m) PROVE LitInv'
  BY <1>0, <1>1, ChatStores DEF LitInv, Rows, Same, Store, Untouched
<1>2. ASSUME NEW m \in Messages, GradePass(m) PROVE LitInv'
  BY <1>0, <1>2, GradePassEffect DEF LitInv, Rows
<1>3. ASSUME NEW m \in Messages, GradeWrong(m) PROVE LitInv'
  BY <1>0, <1>3, GradeWrongEffect DEF LitInv, Rows, SameRecord
<1>4. ASSUME NEW m \in Messages, SkipMastery(m) PROVE LitInv'
  BY <1>0, <1>4 DEF LitInv, Rows, SkipMastery, Continue
<1>5. CASE Reply
  BY <1>0, <1>5, ReplyStores DEF LitInv, Rows, Same, Store, Untouched
<1>6. CASE Assess
  BY <1>0, <1>6, AssessEffect DEF LitInv, Rows, SameRecord, Assessing
<1>7. CASE StoreBeforeSwap
  BY <1>0, <1>7 DEF LitInv, Rows, StoreBeforeSwap, Untouched
<1>8. CASE StoreWarning
  BY <1>0, <1>8 DEF LitInv, Rows, StoreWarning, TypeOK, SessionRow, History
<1>9. CASE RecordWarnedGaps
  BY <1>0, <1>9 DEF LitInv, Rows, RecordWarnedGaps
<1>10. CASE ClearExercise
  BY <1>0, <1>10 DEF LitInv, Rows, ClearExercise, Untouched, TypeOK, SessionRow
<1>11. CASE RecordSkipGaps
  BY <1>0, <1>11 DEF LitInv, Rows, RecordSkipGaps, Continue, TypeOK, History, WithMistakes
<1>12. CASE LightNode
  BY <1>0, <1>12, ClosedEffect DEF LitInv, Rows, LightNode, Continue, TypeOK
<1>13. CASE CloseSession
  BY <1>0, <1>13 DEF LitInv, Rows, CloseSession, TypeOK, History
<1>14. CASE ResolveGaps
  BY <1>0, <1>14 DEF LitInv, Rows, ResolveGaps
<1>15. CASE Crash
  BY <1>0, <1>15 DEF LitInv, Rows, Crash, TypeOK
<1>16. CASE UNCHANGED vars
  BY <1>0, <1>16 DEF LitInv, Rows, vars
<1> QED
  BY StepKinds, <1>1, <1>2, <1>3, <1>4, <1>5, <1>6, <1>7, <1>8, <1>9, <1>10, <1>11, <1>12, 
     <1>13, <1>14, <1>15, <1>16

LEMMA EarnedInvStep ==
  ASSUME Inductive, [Next]_vars PROVE EarnedInv'
<1>0. TypeOK /\ EarnedInv
  BY DEF Inductive
<1>1. ASSUME NEW m \in Messages, Chat(m) PROVE EarnedInv'
  BY <1>0, <1>1, ChatStores DEF EarnedInv, Rows, Same, Store, Untouched
<1>2. ASSUME NEW m \in Messages, GradePass(m) PROVE EarnedInv'
  BY <1>0, <1>2, GradePassEffect DEF EarnedInv, Rows
<1>3. ASSUME NEW m \in Messages, GradeWrong(m) PROVE EarnedInv'
  BY <1>0, <1>3, GradeWrongEffect DEF EarnedInv, Rows, SameRecord
<1>4. ASSUME NEW m \in Messages, SkipMastery(m) PROVE EarnedInv'
  BY <1>0, <1>4 DEF EarnedInv, Rows, SkipMastery, Continue
<1>5. CASE Reply
  BY <1>0, <1>5, ReplyStores DEF EarnedInv, Rows, Same, Store, Untouched
<1>6. CASE Assess
  BY <1>0, <1>6, AssessEffect DEF EarnedInv, Rows, SameRecord, Assessing
<1>7. CASE StoreBeforeSwap
  BY <1>0, <1>7 DEF EarnedInv, Rows, StoreBeforeSwap, Untouched
<1>8. CASE StoreWarning
  BY <1>0, <1>8 DEF EarnedInv, Rows, StoreWarning, TypeOK, SessionRow, History
<1>9. CASE RecordWarnedGaps
  BY <1>0, <1>9 DEF EarnedInv, Rows, RecordWarnedGaps
<1>10. CASE ClearExercise
  BY <1>0, <1>10 DEF EarnedInv, Rows, ClearExercise, Untouched, TypeOK, SessionRow
<1>11. CASE RecordSkipGaps
  BY <1>0, <1>11 DEF EarnedInv, Rows, RecordSkipGaps, Continue, TypeOK, History, WithMistakes
<1>12. CASE LightNode
  BY <1>0, <1>12, ClosedEffect DEF EarnedInv, Rows, LightNode, Continue, TypeOK
<1>13. CASE CloseSession
  BY <1>0, <1>13 DEF EarnedInv, Rows, CloseSession, TypeOK, History
<1>14. CASE ResolveGaps
  BY <1>0, <1>14 DEF EarnedInv, Rows, ResolveGaps
<1>15. CASE Crash
  BY <1>0, <1>15 DEF EarnedInv, Rows, Crash, TypeOK
<1>16. CASE UNCHANGED vars
  BY <1>0, <1>16 DEF EarnedInv, Rows, vars
<1> QED
  BY StepKinds, <1>1, <1>2, <1>3, <1>4, <1>5, <1>6, <1>7, <1>8, <1>9, <1>10, <1>11, <1>12, 
     <1>13, <1>14, <1>15, <1>16

LEMMA NothingLostInvStep ==
  ASSUME Inductive, [Next]_vars PROVE NothingLostInv'
<1>0. TypeOK /\ NothingLostInv
  BY DEF Inductive
<1>1. ASSUME NEW m \in Messages, Chat(m) PROVE NothingLostInv'
  BY <1>0, <1>1, ChatStores DEF NothingLostInv, Unsaved, Same, Store, Untouched
<1>2. ASSUME NEW m \in Messages, GradePass(m) PROVE NothingLostInv'
  BY <1>0, <1>2, GradePassEffect DEF NothingLostInv, Unsaved
<1>3. ASSUME NEW m \in Messages, GradeWrong(m) PROVE NothingLostInv'
  BY <1>0, <1>3, GradeWrongEffect DEF NothingLostInv, Unsaved, SameRecord
<1>4. ASSUME NEW m \in Messages, SkipMastery(m) PROVE NothingLostInv'
  BY <1>0, <1>4 DEF NothingLostInv, Unsaved, SkipMastery, Continue
<1>5. CASE Reply
  BY <1>0, <1>5, ReplyStores DEF NothingLostInv, Unsaved, Same, Store, Untouched
<1>6. CASE Assess
  BY <1>0, <1>6, AssessEffect DEF NothingLostInv, Unsaved, SameRecord, Assessing
<1>7. CASE StoreBeforeSwap
  BY <1>0, <1>7 DEF NothingLostInv, Unsaved, StoreBeforeSwap, Untouched
<1>8. CASE StoreWarning
  BY <1>0, <1>8 DEF NothingLostInv, Unsaved, StoreWarning, TypeOK, SessionRow, History
<1>9. CASE RecordWarnedGaps
  BY <1>0, <1>9 DEF NothingLostInv, Unsaved, RecordWarnedGaps
<1>10. CASE ClearExercise
  BY <1>0, <1>10 DEF NothingLostInv, Unsaved, ClearExercise, Untouched, TypeOK, SessionRow
<1>11. CASE RecordSkipGaps
  BY <1>0, <1>11 DEF NothingLostInv, Unsaved, RecordSkipGaps, Continue, TypeOK, History, WithMistakes
<1>12. CASE LightNode
  BY <1>0, <1>12, ClosedEffect DEF NothingLostInv, Unsaved, LightNode, Continue, TypeOK
<1>13. CASE CloseSession
  BY <1>0, <1>13 DEF NothingLostInv, Unsaved, CloseSession, TypeOK, History
<1>14. CASE ResolveGaps
  BY <1>0, <1>14 DEF NothingLostInv, Unsaved, ResolveGaps
<1>15. CASE Crash
  BY <1>0, <1>15 DEF NothingLostInv, Unsaved, Crash, TypeOK
<1>16. CASE UNCHANGED vars
  BY <1>0, <1>16 DEF NothingLostInv, Unsaved, vars
<1> QED
  BY StepKinds, <1>1, <1>2, <1>3, <1>4, <1>5, <1>6, <1>7, <1>8, <1>9, <1>10, <1>11, <1>12, 
     <1>13, <1>14, <1>15, <1>16

LEMMA RecentInvStep ==
  ASSUME Inductive, [Next]_vars PROVE RecentInv'
<1>0. TypeOK /\ RecentInv
  BY DEF Inductive
<1>1. ASSUME NEW m \in Messages, Chat(m) PROVE RecentInv'
  BY <1>0, <1>1, ChatStores DEF RecentInv, Rows, Same, Store, Untouched
<1>2. ASSUME NEW m \in Messages, GradePass(m) PROVE RecentInv'
  BY <1>0, <1>2, GradePassEffect DEF RecentInv, Rows
<1>3. ASSUME NEW m \in Messages, GradeWrong(m) PROVE RecentInv'
  BY <1>0, <1>3, GradeWrongEffect DEF RecentInv, Rows, SameRecord
<1>4. ASSUME NEW m \in Messages, SkipMastery(m) PROVE RecentInv'
  BY <1>0, <1>4 DEF RecentInv, Rows, SkipMastery, Continue
<1>5. CASE Reply
  BY <1>0, <1>5, ReplyStores DEF RecentInv, Rows, Same, Store, Untouched
<1>6. CASE Assess
  BY <1>0, <1>6, AssessEffect DEF RecentInv, Rows, SameRecord, Assessing
<1>7. CASE StoreBeforeSwap
  BY <1>0, <1>7 DEF RecentInv, Rows, StoreBeforeSwap, Untouched
<1>8. CASE StoreWarning
  BY <1>0, <1>8 DEF RecentInv, Rows, StoreWarning, TypeOK, SessionRow, History
<1>9. CASE RecordWarnedGaps
  BY <1>0, <1>9 DEF RecentInv, Rows, RecordWarnedGaps
<1>10. CASE ClearExercise
  BY <1>0, <1>10 DEF RecentInv, Rows, ClearExercise, Untouched, TypeOK, SessionRow
<1>11. CASE RecordSkipGaps
  BY <1>0, <1>11 DEF RecentInv, Rows, RecordSkipGaps, Continue, TypeOK, History, WithMistakes
<1>12. CASE LightNode
  BY <1>0, <1>12, ClosedEffect DEF RecentInv, Rows, LightNode, Continue, TypeOK
<1>13. CASE CloseSession
  BY <1>0, <1>13 DEF RecentInv, Rows, CloseSession, TypeOK, History
<1>14. CASE ResolveGaps
  BY <1>0, <1>14 DEF RecentInv, Rows, ResolveGaps
<1>15. CASE Crash
  BY <1>0, <1>15 DEF RecentInv, Rows, Crash, TypeOK
<1>16. CASE UNCHANGED vars
  BY <1>0, <1>16 DEF RecentInv, Rows, vars
<1> QED
  BY StepKinds, <1>1, <1>2, <1>3, <1>4, <1>5, <1>6, <1>7, <1>8, <1>9, <1>10, <1>11, <1>12, 
     <1>13, <1>14, <1>15, <1>16
LEMMA WarnInvStep ==
  ASSUME Inductive, [Next]_vars PROVE WarnInv'
<1>0. TypeOK /\ WarnInv /\ RecentInv
  BY DEF Inductive
<1>1. ASSUME NEW m \in Messages, Chat(m) PROVE WarnInv'
  BY <1>0, <1>1, ChatStores DEF WarnInv, WarnedGapsKept, Honest, Same, Store, Untouched
<1>2. ASSUME NEW m \in Messages, GradePass(m) PROVE WarnInv'
  BY <1>0, <1>2, GradePassEffect DEF WarnInv, WarnedGapsKept, Honest
<1>3. ASSUME NEW m \in Messages, GradeWrong(m) PROVE WarnInv'
  BY <1>0, <1>3, GradeWrongEffect DEF WarnInv, WarnedGapsKept, Honest, SameRecord
<1>4. ASSUME NEW m \in Messages, SkipMastery(m) PROVE WarnInv'
  BY <1>0, <1>4 DEF WarnInv, WarnedGapsKept, Honest, SkipMastery, Continue
<1>5. CASE Reply
  BY <1>0, <1>5, ReplyStores DEF WarnInv, WarnedGapsKept, Honest, Same, Store, Untouched
<1>6. CASE Assess
  BY <1>0, <1>6, AssessEffect DEF WarnInv, WarnedGapsKept, Honest, SameRecord, Assessing
<1>7. CASE StoreBeforeSwap
  BY <1>0, <1>7 DEF WarnInv, WarnedGapsKept, Honest, StoreBeforeSwap, Untouched
<1>8. CASE StoreWarning
  BY <1>0, <1>8 DEF WarnInv, WarnedGapsKept, Honest, StoreWarning, TypeOK, SessionRow, History
<1>9. CASE RecordWarnedGaps
  BY <1>0, <1>9 DEF WarnInv, WarnedGapsKept, Honest, RecordWarnedGaps
<1>10. CASE ClearExercise
  BY <1>0, <1>10 DEF WarnInv, WarnedGapsKept, Honest, ClearExercise, Untouched, TypeOK, SessionRow
<1>11. CASE RecordSkipGaps
  BY <1>0, <1>11 DEF WarnInv, WarnedGapsKept, Honest, RecordSkipGaps, SkipGaps, Continue, TypeOK, History, WithMistakes
<1>12. CASE LightNode
  BY <1>0, <1>12, ClosedEffect DEF WarnInv, WarnedGapsKept, Honest, LightNode, Continue, TypeOK
<1>13. CASE CloseSession
  BY <1>0, <1>13 DEF WarnInv, WarnedGapsKept, Honest, CloseSession, TypeOK, History
<1>14. CASE ResolveGaps
  BY <1>0, <1>14 DEF WarnInv, WarnedGapsKept, Honest, ResolveGaps
<1>15. CASE Crash
  BY <1>0, <1>15 DEF WarnInv, WarnedGapsKept, Honest, Crash, TypeOK
<1>16. CASE UNCHANGED vars
  BY <1>0, <1>16 DEF WarnInv, WarnedGapsKept, Honest, vars
<1> QED
  BY StepKinds, <1>1, <1>2, <1>3, <1>4, <1>5, <1>6, <1>7, <1>8, <1>9, <1>10, <1>11, <1>12, 
     <1>13, <1>14, <1>15, <1>16

LEMMA OutstandingInvStep ==
  ASSUME Inductive, [Next]_vars PROVE OutstandingInv'
<1>0. TypeOK /\ OutstandingInv
  BY DEF Inductive
<1>1. ASSUME NEW m \in Messages, Chat(m) PROVE OutstandingInv'
  BY <1>0, <1>1, ChatStores DEF OutstandingInv, Rows, Missing, Same, Store, Untouched
<1>2. ASSUME NEW m \in Messages, GradePass(m) PROVE OutstandingInv'
  BY <1>0, <1>2, GradePassEffect DEF OutstandingInv, Rows, Missing
<1>3. ASSUME NEW m \in Messages, GradeWrong(m) PROVE OutstandingInv'
  BY <1>0, <1>3, GradeWrongEffect DEF OutstandingInv, Rows, Missing, Graded, GradeWrong, Learning, WantsGrade
<1>4. ASSUME NEW m \in Messages, SkipMastery(m) PROVE OutstandingInv'
  BY <1>0, <1>4 DEF OutstandingInv, Rows, Missing, SkipMastery, Continue
<1>5. CASE Reply
  BY <1>0, <1>5, ReplyStores DEF OutstandingInv, Rows, Missing, Same, Store, Untouched
<1>6. CASE Assess
  BY <1>0, <1>6, AssessEffect DEF OutstandingInv, Rows, Missing, SameRecord, Assessing
<1>7. CASE StoreBeforeSwap
  BY <1>0, <1>7 DEF OutstandingInv, Rows, Missing, StoreBeforeSwap, Untouched
<1>8. CASE StoreWarning
  BY <1>0, <1>8 DEF OutstandingInv, Rows, Missing, StoreWarning, TypeOK, SessionRow, History
<1>9. CASE RecordWarnedGaps
  BY <1>0, <1>9 DEF OutstandingInv, Rows, Missing, RecordWarnedGaps
<1>10. CASE ClearExercise
  BY <1>0, <1>10 DEF OutstandingInv, Rows, Missing, ClearExercise, Untouched, TypeOK, SessionRow
<1>11. CASE RecordSkipGaps
  BY <1>0, <1>11 DEF OutstandingInv, Rows, Missing, RecordSkipGaps, Continue, TypeOK, History, WithMistakes
<1>12. CASE LightNode
  BY <1>0, <1>12, ClosedEffect DEF OutstandingInv, Rows, Missing, LightNode, Continue, TypeOK
<1>13. CASE CloseSession
  BY <1>0, <1>13 DEF OutstandingInv, Rows, Missing, CloseSession, TypeOK, History
<1>14. CASE ResolveGaps
  BY <1>0, <1>14 DEF OutstandingInv, Rows, Missing, ResolveGaps
<1>15. CASE Crash
  BY <1>0, <1>15 DEF OutstandingInv, Rows, Missing, Crash, TypeOK
<1>16. CASE UNCHANGED vars
  BY <1>0, <1>16 DEF OutstandingInv, Rows, Missing, vars
<1> QED
  BY StepKinds, <1>1, <1>2, <1>3, <1>4, <1>5, <1>6, <1>7, <1>8, <1>9, <1>10, <1>11, <1>12, 
     <1>13, <1>14, <1>15, <1>16

LEMMA LedgerInvStep ==
  ASSUME Inductive, [Next]_vars PROVE LedgerInv'
<1>0. TypeOK /\ LedgerInv
  BY DEF Inductive
<1>1. ASSUME NEW m \in Messages, Chat(m) PROVE LedgerInv'
  BY <1>0, <1>1, ChatStores DEF LedgerInv, Ledger, MappedHere, Same, Store, Untouched
<1>2. ASSUME NEW m \in Messages, GradePass(m) PROVE LedgerInv'
  BY <1>0, <1>2, GradePassEffect DEF LedgerInv, Ledger, MappedHere
<1>3. ASSUME NEW m \in Messages, GradeWrong(m) PROVE LedgerInv'
  BY <1>0, <1>3, GradeWrongEffect DEF LedgerInv, Ledger, MappedHere, SameRecord
<1>4. ASSUME NEW m \in Messages, SkipMastery(m) PROVE LedgerInv'
  BY <1>0, <1>4 DEF LedgerInv, Ledger, MappedHere, SkipMastery, Continue
<1>5. CASE Reply
  BY <1>0, <1>5, ReplyStores DEF LedgerInv, Ledger, MappedHere, Same, Store, Untouched
<1>6. CASE Assess
  BY <1>0, <1>6, AssessEffect DEF LedgerInv, Ledger, MappedHere, SameRecord, Assessing
<1>7. CASE StoreBeforeSwap
  BY <1>0, <1>7 DEF LedgerInv, Ledger, MappedHere, StoreBeforeSwap, Untouched
<1>8. CASE StoreWarning
  BY <1>0, <1>8 DEF LedgerInv, Ledger, MappedHere, StoreWarning, TypeOK, SessionRow, History
<1>9. CASE RecordWarnedGaps
  BY <1>0, <1>9 DEF LedgerInv, Ledger, MappedHere, RecordWarnedGaps
<1>10. CASE ClearExercise
  BY <1>0, <1>10 DEF LedgerInv, Ledger, MappedHere, ClearExercise, Untouched, TypeOK, SessionRow
<1>11. CASE RecordSkipGaps
  BY <1>0, <1>11 DEF LedgerInv, Ledger, MappedHere, RecordSkipGaps, Continue, TypeOK, History, WithMistakes
<1>12. CASE LightNode
  BY <1>0, <1>12, ClosedEffect DEF LedgerInv, Ledger, MappedHere, LightNode, Continue, TypeOK
<1>13. CASE CloseSession
  BY <1>0, <1>13 DEF LedgerInv, Ledger, MappedHere, CloseSession, TypeOK, History
<1>14. CASE ResolveGaps
  BY <1>0, <1>14 DEF LedgerInv, Ledger, MappedHere, ResolveGaps
<1>15. CASE Crash
  BY <1>0, <1>15 DEF LedgerInv, Ledger, MappedHere, Crash, TypeOK
<1>16. CASE UNCHANGED vars
  BY <1>0, <1>16 DEF LedgerInv, Ledger, MappedHere, vars
<1> QED
  BY StepKinds, <1>1, <1>2, <1>3, <1>4, <1>5, <1>6, <1>7, <1>8, <1>9, <1>10, <1>11, <1>12, 
     <1>13, <1>14, <1>15, <1>16
\* When EvaluateDeferComplete lets a row pass that holds no more than what has
\* been answered, the answers meet both gates.
LEMMA PassedMeetsGates ==
  ASSUME NEW t \in SUBSET Core, NEW a \in BOOLEAN, ~DeferComplete(t, a),
         t \subseteq hist.answered, a => hist.applied
  PROVE  GatesMet
<1>1. ASSUME StrictConceptCoverage, Cardinality(Core) >= 3
      PROVE  \E c \in Core : Core \ {c} \subseteq hist.answered
  <2>1. IsFiniteSet(Core) /\ IsFiniteSet(Uncovered(t))
    BY ConstantsAssumption, FS_Subset DEF Uncovered
  <2>2. Cardinality(Uncovered(t)) \in Nat /\ ~(Cardinality(Uncovered(t)) >= 2)
    BY <1>1, <2>1, FS_CardinalityType DEF DeferComplete
  <2>3. Core # {}
    BY <1>1, FS_EmptySet
  <2>4. CASE Cardinality(Uncovered(t)) = 0
    <3>1. Uncovered(t) = {}
      BY <2>1, <2>4, FS_EmptySet
    <3> QED BY <2>3, <3>1 DEF Uncovered
  <2>5. CASE Cardinality(Uncovered(t)) = 1
    <3>1. PICK c : Uncovered(t) = {c}
      BY <2>1, <2>5, FS_Singleton
    <3> QED BY <3>1 DEF Uncovered
  <2> QED BY <2>2, <2>4, <2>5
<1>2. RequireApplyExercise /\ ~EntryLayer => hist.applied
  BY DEF DeferComplete, RequiresApplyExercise
<1> QED BY <1>1, <1>2 DEF GatesMet

\* Grounds to light the node, now or by the rules.
HasGrounds == hist.grounds # {} \/ GatesMet

LEMMA GroundsStay ==
  ASSUME hist.grounds \subseteq hist'.grounds,
         hist.answered \subseteq hist'.answered,
         hist.applied => hist'.applied, HasGrounds
  PROVE  HasGrounds'
  BY DEF HasGrounds, GatesMet

LEMMA GroundsInvStep ==
  ASSUME Inductive, [Next]_vars PROVE GroundsInv'
<1>0. TypeOK /\ GroundsInv /\ EarnedInv /\ TypeOK'
  BY TypeStep DEF Inductive
<1>1. /\ hist.answered \in SUBSET Core /\ hist'.answered \in SUBSET Core
      /\ hist.applied \in BOOLEAN /\ hist'.applied \in BOOLEAN
      /\ work.tested \in SUBSET Core /\ work.applyPassed \in BOOLEAN
  BY <1>0 DEF TypeOK, History, SessionRow
<1>2. LitOnGrounds <=> (progress = "completed" => HasGrounds)
  BY DEF LitOnGrounds, HasGrounds
<1>3. LitOnGrounds' <=> (progress' = "completed" => HasGrounds')
  BY DEF LitOnGrounds, HasGrounds
<1>4. pc = "light" => HasGrounds
  <2>1. ~RuleDefers(work) => GatesMet
    BY <1>0, <1>1, PassedMeetsGates DEF EarnedInv, Rows, RuleDefers
  <2> QED BY <1>0, <2>1 DEF GroundsInv, HasGrounds
\* History only grows.
<1>5. /\ hist.grounds \subseteq hist'.grounds
      /\ hist.answered \subseteq hist'.answered /\ (hist.applied => hist'.applied)
  <2>0. hist \in History
    BY <1>0 DEF TypeOK
  <2>1. ASSUME NEW m \in Messages,
               Chat(m) \/ GradePass(m) \/ GradeWrong(m) \/ SkipMastery(m)
        PROVE  /\ hist.grounds \subseteq hist'.grounds
               /\ hist.answered \subseteq hist'.answered
               /\ (hist.applied => hist'.applied)
    BY <1>0, <2>1, ChatStores, GradePassEffect, GradeWrongEffect
    DEF Untouched, SameRecord, SkipMastery
  <2>2. CASE Reply \/ Assess
    BY <1>0, <2>2, ReplyStores, AssessEffect DEF Untouched, SameRecord
  <2>3. CASE StoreBeforeSwap \/ RecordWarnedGaps \/ ClearExercise \/ LightNode
             \/ ResolveGaps \/ Crash \/ UNCHANGED vars
    BY <2>3 DEF StoreBeforeSwap, RecordWarnedGaps, ClearExercise, LightNode,
                ResolveGaps, Crash, Untouched, vars
  <2>4. CASE StoreWarning \/ RecordSkipGaps \/ CloseSession
    BY <2>0, <2>4 DEF StoreWarning, RecordSkipGaps, CloseSession, History
  <2> QED BY StepKinds, <2>1, <2>2, <2>3, <2>4
<1>6. HasGrounds => HasGrounds'
  BY <1>0, <1>1, <1>5, GroundsStay
\* The node is lit at "light" only.
<1>7. progress' # progress => pc = "light"
  BY <1>0, StepKinds, ChatStores, GradePassEffect, GradeWrongEffect, ReplyStores,
     AssessEffect
  DEF Untouched, SkipMastery, StoreBeforeSwap, StoreWarning, RecordWarnedGaps,
      ClearExercise, RecordSkipGaps, LightNode, CloseSession, ResolveGaps, Crash, vars
<1>8. LitOnGrounds'
  BY <1>0, <1>2, <1>3, <1>4, <1>6, <1>7 DEF GroundsInv
\* Only an assessment and an override lead there.
<1>9. pc' = "light" => hist'.grounds # {} \/ ~RuleDefers(work')
  <2>1. ASSUME NEW m \in Messages,
               Chat(m) \/ GradePass(m) \/ GradeWrong(m) \/ SkipMastery(m)
        PROVE  pc' # "light"
    BY <1>0, <2>1, ChatStores, GradePassEffect, GradeWrongEffect
    DEF Store, SkipMastery, Continue
  <2>2. CASE Reply
    BY <1>0, <2>2, ReplyStores DEF Store
  <2>3. CASE Assess
    BY <1>0, <2>3, AssessEffect
  <2>4. CASE RecordSkipGaps
    BY <1>0, <2>4 DEF RecordSkipGaps, TypeOK, History
  <2>5. CASE StoreBeforeSwap \/ StoreWarning \/ RecordWarnedGaps \/ ClearExercise
             \/ LightNode \/ CloseSession \/ ResolveGaps \/ Crash
    BY <2>5 DEF StoreBeforeSwap, StoreWarning, RecordWarnedGaps, ClearExercise,
                LightNode, CloseSession, ResolveGaps, Crash, Continue
  <2>6. CASE UNCHANGED vars
    BY <1>0, <2>6 DEF vars, GroundsInv
  <2> QED BY StepKinds, <2>1, <2>2, <2>3, <2>4, <2>5, <2>6
<1>10. RuleDefers(work)' = RuleDefers(work')
  BY DEF RuleDefers, DeferComplete, Uncovered
<1> QED BY <1>8, <1>9, <1>10 DEF GroundsInv
-----------------------------------------------------------------------------
(* The theorems.                                                           *)

LEMMA InductiveInit == Init => Inductive
<1> SUFFICES ASSUME Init PROVE Inductive
  OBVIOUS
<1>1. TypeOK
  BY TypeInit
<1>2. LitInv /\ EarnedInv /\ NothingLostInv /\ GroundsInv /\ RecentInv
  BY DEF Init, NewRow, LitInv, EarnedInv, NothingLostInv, GroundsInv, LitOnGrounds,
         RecentInv, Rows
<1>3. WarnInv /\ OutstandingInv /\ LedgerInv
  BY DEF Init, NewRow, WarnInv, WarnedGapsKept, Honest, OutstandingInv, Missing,
         LedgerInv, Ledger, Rows
<1> QED BY <1>1, <1>2, <1>3 DEF Inductive

LEMMA InductiveStep == Inductive /\ [Next]_vars => Inductive'
<1> SUFFICES ASSUME Inductive, [Next]_vars PROVE Inductive'
  OBVIOUS
<1>1. TypeOK'
  BY TypeStep DEF Inductive
<1> QED
  BY <1>1, LitInvStep, EarnedInvStep, NothingLostInvStep, GroundsInvStep,
     WarnInvStep, RecentInvStep, OutstandingInvStep, LedgerInvStep DEF Inductive

LEMMA AlwaysInductive == Spec => []Inductive
  BY InductiveInit, InductiveStep, PTL DEF Spec

\* completeNode lights the node before it closes the session: no crash and no
\* message leaves a completed session on a node that is not lit.
THEOREM LightingPrecedesClosing == Spec => []ClosedSessionIsLit
<1>1. Inductive => ClosedSessionIsLit
  BY DEF Inductive, ClosedSessionIsLit, LitInv, Rows
<1> QED BY <1>1, AlwaysInductive, PTL

\* TestedConcepts and ApplyExercisePassed are what the learner has answered
\* correctly, for every set of exercises the LLM writes and every verdict it gives.
THEOREM CoverageEarned == Spec => []CoverageIsEarned
<1>1. Inductive => CoverageIsEarned
  BY DEF Inductive, CoverageIsEarned, EarnedInv, NothingLostInv, Rows, Unsaved
<1> QED BY <1>1, AlwaysInductive, PTL

\* A node is lit on a granted assessment, on an overridden refusal, or when the
\* exercises really answered meet the coverage and the application gate.
THEOREM LitWithGrounds == Spec => []LitOnGrounds
<1>1. Inductive => LitOnGrounds
  BY DEF Inductive, LitOnGrounds, GroundsInv
<1> QED BY <1>1, AlwaysInductive, PTL

\* A stored SkipMasteryWarned stands for a refusal of this round of the session.
THEOREM WarningsHonest == Spec => []WarnedIsHonest
<1>1. Inductive => WarnedIsHonest
  BY DEF Inductive, WarnedIsHonest, WarnInv, Honest
<1> QED BY <1>1, AlwaysInductive, PTL

\* forceCompleteWithGapRecording records every concept the refusal had named.
THEOREM OverrideKeepsGaps == Spec => []WarnedGapsKept
<1>1. Inductive => WarnedGapsKept
  BY DEF Inductive, WarnedGapsKept, WarnInv
<1> QED BY <1>1, AlwaysInductive, PTL

\* RecentMistakes always have their rows in the mistake table.
THEOREM RecentRecorded == Spec => []RecentAreRecorded
<1>1. Inductive => RecentAreRecorded
  BY DEF Inductive, RecentAreRecorded, RecentInv, Rows
<1> QED BY <1>1, AlwaysInductive, PTL

\* Without a crash, the open gaps follow the session.
THEOREM LedgerFollows == Spec => []LedgerInStep
<1>1. Inductive => LedgerInStep
  BY DEF Inductive, LedgerInStep, LedgerInv
<1> QED BY <1>1, AlwaysInductive, PTL

\* Without a crash, phase exercise has an exercise to answer.
THEOREM ExerciseThere == Spec => []ExerciseOutstanding
<1>1. Inductive => ExerciseOutstanding
  BY DEF Inductive, ExerciseOutstanding, OutstandingInv, Missing, Rows
<1> QED BY <1>1, AlwaysInductive, PTL
-----------------------------------------------------------------------------
(* Follow-up questions.                                                    *)

AskedEnough(row) == \A c \in row.deepened : row.followUps[c] >= Threshold

\* In the stored row as well as in the row of the running handler.
DeepenedInv == \A row \in Rows : AskedEnough(row)

\* A row with the questions of another.
SameQuestions(row, old) ==
  row \in SessionRow /\ row.deepened = old.deepened /\ row.followUps = old.followUps

LEMMA AdoptQuestions ==
  ASSUME NEW row \in SessionRow, NEW e \in AnyShape
  PROVE  SameQuestions(Adopt(row, e), row)
<1>1. Adopt(row, e) \in SessionRow
  BY AdoptType
<1>2. Adopt(row, e).deepened = row.deepened /\ Adopt(row, e).followUps = row.followUps
  BY DEF Adopt, SessionRow
<1> QED BY <1>1, <1>2 DEF SameQuestions

\* The count goes up before the concept is marked, in one write.
LEMMA AnswerRowsAsked ==
  ASSUME NEW row \in SessionRow, AskedEnough(row), NEW r \in AnswerRows(row)
  PROVE  AskedEnough(r)
<1> DEFINE due == {c \in Asked : DeepenDue(row, c)}
<1>1. ASSUME NEW c \in Asked
      PROVE  /\ Followed(row, c) \in SessionRow /\ AskedEnough(Followed(row, c))
             /\ Followed(row, c).deepened = row.deepened
  <2>1. PICK f : f = [row.followUps EXCEPT ![c] = Increment(@)]
    OBVIOUS
  <2>2. Followed(row, c) = [row EXCEPT !.followUps = f]
    BY <2>1 DEF Followed
  <2>3. Followed(row, c).followUps = f /\ Followed(row, c).deepened = row.deepened
    BY <2>2 DEF SessionRow
  <2>4. \A d \in Asked : f[d] = IF d = c THEN Increment(row.followUps[d])
                                ELSE row.followUps[d]
    BY <2>1 DEF SessionRow
  <2>5. \A d \in Asked : row.followUps[d] \in Count
    BY DEF SessionRow
  <2>6. \A n \in Count : n >= Threshold => Increment(n) >= Threshold
    BY DEF Count, Threshold, Increment
  <2>7. row.deepened \subseteq Asked
    BY DEF SessionRow
  <2>8. \A d \in row.deepened : f[d] >= Threshold
    BY <2>4, <2>5, <2>6, <2>7 DEF AskedEnough
  <2> QED BY <2>3, <2>8, FollowedType DEF AskedEnough
<1>2. CASE r = row
  BY <1>2
<1>3. CASE r \in {Followed(row, c) : c \in Asked \ due}
  BY <1>1, <1>3
<1>4. CASE r \in {[Followed(row, c) EXCEPT !.deepened = @ \cup {c}] : c \in due}
  <2>1. PICK c \in due : r = [Followed(row, c) EXCEPT !.deepened = @ \cup {c}]
    BY <1>4
  <2>2. c \in Asked /\ Followed(row, c).followUps[c] >= Threshold
    BY <2>1 DEF DeepenDue
  <2>3. PICK q : q = Followed(row, c)
    OBVIOUS
  <2>4. q \in SessionRow /\ AskedEnough(q) /\ q.followUps[c] >= Threshold
    BY <1>1, <2>2, <2>3
  <2>5. r = [q EXCEPT !.deepened = q.deepened \cup {c}]
    BY <2>1, <2>3
  <2>6. r.deepened = q.deepened \cup {c} /\ r.followUps = q.followUps
    BY <2>4, <2>5 DEF SessionRow
  <2> QED BY <2>4, <2>6 DEF AskedEnough
<1>5. CASE r \in {Adopt(q, e) : q \in {row} \cup {Followed(row, c) : c \in Asked},
                                e \in Shapes \cup {PlainShape}}
  <2>1. PICK q \in {row} \cup {Followed(row, c) : c \in Asked}, e \in AnyShape :
          r = Adopt(q, e)
    BY <1>5 DEF AnyShape
  <2>2. q \in SessionRow /\ AskedEnough(q)
    BY <1>1, <2>1
  <2> QED BY <2>1, <2>2, AdoptQuestions DEF AskedEnough, SameQuestions
<1> QED BY <1>2, <1>3, <1>4, <1>5 DEF AnswerRows

\* Grading, assessing and closing keep the questions.
LEMMA RowsKeepQuestions ==
  ASSUME NEW row \in SessionRow, NEW ex \in Exercise \cup {NoExercise}
  PROVE  /\ SameQuestions(row, row)
         /\ \A phase \in Phase : SameQuestions([row EXCEPT !.phase = phase], row)
         /\ SameQuestions([row EXCEPT !.exercise = ex], row)
         /\ SameQuestions([row EXCEPT !.phase = "exercise", !.exercise = ex], row)
         /\ AfterPass(row, ex).deepened = row.deepened
         /\ AfterPass(row, ex).followUps = row.followUps
         /\ SameQuestions(Closed(row), row)
         /\ \A weak \in Findings : /\ AfterWrong(row, ex, weak).deepened = row.deepened
                                   /\ AfterWrong(row, ex, weak).followUps = row.followUps
         /\ \A pending \in SUBSET Concepts :
              SameQuestions([row EXCEPT !.warned = TRUE, !.pending = pending], row)
<1>1. SameQuestions(row, row) /\ SameQuestions(Closed(row), row)
  BY ClosedType DEF SameQuestions, Closed, SessionRow
<1>2. \A phase \in Phase : SameQuestions([row EXCEPT !.phase = phase], row)
  BY DEF SameQuestions, SessionRow
<1>3. SameQuestions([row EXCEPT !.exercise = ex], row)
  BY DEF SameQuestions, SessionRow
<1>4. SameQuestions([row EXCEPT !.phase = "exercise", !.exercise = ex], row)
  BY DEF SameQuestions, SessionRow, Phase
<1>5. \A pending \in SUBSET Concepts :
        SameQuestions([row EXCEPT !.warned = TRUE, !.pending = pending], row)
  BY DEF SameQuestions, SessionRow
<1>6. AfterPass(row, ex).deepened = row.deepened
      /\ AfterPass(row, ex).followUps = row.followUps
  BY DEF AfterPass, SessionRow
<1>7. \A weak \in Findings : /\ AfterWrong(row, ex, weak).deepened = row.deepened
                             /\ AfterWrong(row, ex, weak).followUps = row.followUps
  BY DEF AfterWrong, SessionRow
<1> QED BY <1>1, <1>2, <1>3, <1>4, <1>5, <1>6, <1>7

LEMMA DeepenedStep ==
  ASSUME TypeOK, DeepenedInv, [Next]_vars PROVE DeepenedInv'
<1>0. /\ session \in SessionRow /\ work \in SessionRow
      /\ AskedEnough(session) /\ AskedEnough(work)
  BY DEF TypeOK, DeepenedInv, Rows
<1> SUFFICES AskedEnough(session') /\ AskedEnough(work')
  BY DEF DeepenedInv, Rows, AskedEnough
<1>1. ASSUME NEW m \in Messages, Chat(m) PROVE AskedEnough(session') /\ work' = session'
  <2>1. CASE CompletedQA(m) \/ StartExercise(m)
    <3>1. PICK e \in AnyShape : Store(Adopt(session, e))
      BY <2>1 DEF CompletedQA, StartExercise, AnyShape
    <3> QED BY <1>0, <3>1, AdoptQuestions DEF Store, SameQuestions, AskedEnough
  <2>2. CASE ExplainQA(m)
    <3>1. PICK row \in AnswerRows(session) : Store(row)
      BY <2>2 DEF ExplainQA
    <3> QED BY <1>0, <3>1, AnswerRowsAsked DEF Store
  <2>3. CASE ExerciseBackToExplain(m)
    <3> DEFINE kept == [session EXCEPT !.exercise = Restored]
               again == [kept EXCEPT !.phase = "exercise"]
               told == [session EXCEPT !.phase = "explain"]
    <3>1. SameQuestions(kept, session)
      BY <1>0, RestoredType, RowsKeepQuestions
    <3>2. SameQuestions(told, session)
      BY <1>0, RowsKeepQuestions DEF Phase
    <3>3. SameQuestions(again, kept)
      <4> HIDE DEF kept
      <4> QED BY <3>1, RowsKeepQuestions DEF SameQuestions, Phase
    <3> HIDE DEF kept, again, told
    <3>4. CASE Restored = NoExercise
      <4>1. PICK row \in AnswerRows(told) : Store(row)
        BY <2>3, <3>4 DEF ExerciseBackToExplain, told
      <4>2. told \in SessionRow /\ AskedEnough(told)
        BY <1>0, <3>2 DEF SameQuestions, AskedEnough
      <4> QED BY <4>1, <4>2, AnswerRowsAsked DEF Store
    <3>5. CASE Restored # NoExercise
      <4>1. PICK row \in {session, again}
                        \cup {Adopt(kept, e) : e \in Shapes \cup {PlainShape}} :
              Store(row)
        BY <2>3, <3>5 DEF ExerciseBackToExplain, kept, again
      <4>2. AskedEnough(row)
        <5>1. CASE row = session
          BY <1>0, <5>1
        <5>2. CASE row = again
          BY <1>0, <3>1, <3>3, <5>2 DEF SameQuestions, AskedEnough
        <5>3. CASE row \in {Adopt(kept, e) : e \in Shapes \cup {PlainShape}}
          BY <1>0, <3>1, <5>3, AdoptQuestions DEF SameQuestions, AskedEnough, AnyShape
        <5> QED BY <4>1, <5>1, <5>2, <5>3
      <4> QED BY <4>1, <4>2 DEF Store
    <3> QED BY <3>4, <3>5
  <2>4. CASE GradeInvalid(m)
    <3>1. PICK row : row = [session EXCEPT !.phase = "exercise", !.exercise = Graded]
      OBVIOUS
    <3>2. SameQuestions(row, session)
      BY <1>0, <3>1, GradedType, RowsKeepQuestions
    <3> QED BY <1>0, <2>4, <3>1, <3>2 DEF GradeInvalid, Store, SameQuestions, AskedEnough
  <2> QED BY <1>1, <2>1, <2>2, <2>3, <2>4 DEF Chat
<1>2. ASSUME NEW m \in Messages, GradePass(m)
      PROVE  AskedEnough(session') /\ AskedEnough(work')
  <2>1. session' = session /\ work' = AfterPass(session, Graded)
    BY <1>2 DEF GradePass, Continue
  <2> QED BY <1>0, <2>1, GradedType, RowsKeepQuestions DEF AskedEnough
<1>3. ASSUME NEW m \in Messages, GradeWrong(m)
      PROVE  AskedEnough(session') /\ AskedEnough(work')
  <2>1. PICK weak \in Findings : session' = session /\ work' = AfterWrong(session, Graded, weak)
    BY <1>3 DEF GradeWrong, Continue
  <2> QED BY <1>0, <2>1, GradedType, RowsKeepQuestions DEF AskedEnough
<1>4. ASSUME NEW m \in Messages, SkipMastery(m)
      PROVE  AskedEnough(session') /\ AskedEnough(work')
  BY <1>0, <1>4 DEF SkipMastery, Continue
<1>5. CASE Reply
  <2>1. PICK row : /\ Store(row)
                   /\ \/ \E phase \in Phase : row = [work EXCEPT !.phase = phase]
                      \/ \E e \in AnyShape : row = Adopt(work, e)
    BY <1>5 DEF Reply, KeepExercise, SwapExercise, ChainExercise, Phase, AnyShape
  <2>2. SameQuestions(row, work)
    BY <1>0, <2>1, AdoptQuestions, RowsKeepQuestions
  <2> QED BY <1>0, <2>1, <2>2 DEF Store, SameQuestions, AskedEnough
<1>6. CASE Assess
  <2>1. CASE AssessNotReady /\ Skipping
    <3>1. PICK found \in Findings :
            Continue([work EXCEPT !.warned = TRUE, !.pending = WarnedGaps(found)], "warn")
      BY <2>1 DEF AssessNotReady
    <3>2. PICK row : row = [work EXCEPT !.warned = TRUE, !.pending = WarnedGaps(found)]
      OBVIOUS
    <3>3. SameQuestions(row, work)
      BY <1>0, <3>2, WarnedGapsType, RowsKeepQuestions
    <3> QED BY <1>0, <3>1, <3>2, <3>3 DEF Continue, SameQuestions, AskedEnough
  <2>2. CASE ~(AssessNotReady /\ Skipping)
    <3>1. session' = session /\ (work' = work \/ work' = session)
      BY <1>6, <2>2 DEF Assess, AssessByRule, AssessReady, AssessFailed, AssessNotReady,
                        Continue, Store
    <3> QED BY <1>0, <3>1
  <2> QED BY <2>1, <2>2
<1>7. CASE StoreBeforeSwap \/ StoreWarning \/ RecordWarnedGaps \/ RecordSkipGaps
           \/ CloseSession \/ ResolveGaps
  BY <1>0, <1>7 DEF StoreBeforeSwap, StoreWarning, RecordWarnedGaps, RecordSkipGaps,
                    CloseSession, ResolveGaps, Continue
<1>8. CASE ClearExercise
  <2>1. PICK row : row = [work EXCEPT !.exercise = NoExercise]
    OBVIOUS
  <2>2. SameQuestions(row, work)
    BY <1>0, <2>1, RowsKeepQuestions
  <2> QED BY <1>0, <1>8, <2>1, <2>2 DEF ClearExercise, SameQuestions, AskedEnough
<1>9. CASE LightNode
  BY <1>0, <1>9, RowsKeepQuestions DEF LightNode, Continue, SameQuestions, AskedEnough
<1>10. CASE Crash \/ UNCHANGED vars
  BY <1>0, <1>10 DEF Crash, vars
<1> QED
  BY StepKinds, <1>1, <1>2, <1>3, <1>4, <1>5, <1>6, <1>7, <1>8, <1>9, <1>10

\* A deep explanation answers a concept that was asked about often enough,
\* whatever is stored or lost in between.
THEOREM DeepeningWasAsked == Spec => []DeepenedWasAsked
<1>1. Init => DeepenedInv
  BY DEF Init, NewRow, DeepenedInv, Rows, AskedEnough
<1>2. TypeOK /\ DeepenedInv /\ [Next]_vars => DeepenedInv'
  BY DeepenedStep
<1>3. DeepenedInv => DeepenedWasAsked
  BY DEF DeepenedInv, Rows, AskedEnough, DeepenedWasAsked
<1> QED BY <1>1, <1>2, <1>3, TypeCorrect, PTL DEF Spec
=============================================================================
