------------------------- MODULE MessageQuotaProofs -------------------------
(***************************************************************************)
(* Theorems about MessageQuota, for any members, tabs and quota: how far   *)
(* calls that passed the check together can overrun the daily quota.       *)
(***************************************************************************)
EXTENDS MessageQuota, FiniteSetTheorems, TLAPS

QuotaTypeOK ==
  /\ turn \in [Tabs -> Turns]
  /\ messages \in [Members -> Nat]
  /\ keys \subseteq Members
  /\ given \in [Members -> Nat]
  /\ lost \in [Members -> Nat]

\* Calls that may still get an answer of the platform's model.
Coming(u) ==
  {t \in TabsOf(u) : turn[t] = "platform" \/ (turn[t] = "allowed" /\ u \notin keys)}

\* The answers not counted yet are the only ones beyond the count ...
CountLags(u) == given[u] <= messages[u] + lost[u] + Cardinality(Uncounted(u))

\* ... and a call that passed the check stands for one answer more at most.
Overrun(u) ==
  given[u] + Cardinality(Coming(u))
    <= QuotaDailyMessages - 1 + lost[u] + Cardinality(TabsOf(u))

QuotaInv == \A u \in Members : CountLags(u) /\ Overrun(u)
-----------------------------------------------------------------------------
\* An answer, or an end without one, of a call that talks to the coach.
LEMMA TalkTyped ==
  ASSUME QuotaTypeOK, NEW t \in Tabs, Answers(t) \/ (Ends(t) /\ UNCHANGED given)
  PROVE  turn' \in [Tabs -> Turns] /\ given' \in [Members -> Nat]
<1>1. MemberOf[t] \in Members /\ given[MemberOf[t]] + 1 \in Nat
  BY QuotaAssumption DEF QuotaTypeOK
<1>2. CASE Answers(t)
  <2>1. turn' \in [Tabs -> Turns]
    BY <1>2 DEF Answers, QuotaTypeOK, Turns
  <2>2. given' \in [Members -> Nat]
    BY <1>1, <1>2 DEF Answers, QuotaTypeOK
  <2> QED
    BY <2>1, <2>2
<1>3. CASE Ends(t) /\ UNCHANGED given
  BY <1>3 DEF Ends, QuotaTypeOK, Turns
<1> QED
  BY <1>2, <1>3

\* The tables and counters keep their shape, whatever the calls, the learner,
\* the administrator, midnight and stops do.
THEOREM QuotaTyped == QuotaSpec => []QuotaTypeOK
<1>1. QuotaInit => QuotaTypeOK
  BY DEF QuotaInit, QuotaTypeOK, Turns
<1>2. QuotaTypeOK /\ [QuotaNext]_quotaVars => QuotaTypeOK'
  <2> SUFFICES ASSUME QuotaTypeOK, [QuotaNext]_quotaVars PROVE QuotaTypeOK'
    OBVIOUS
  <2> USE QuotaAssumption DEF QuotaTypeOK
  <2>1. ASSUME NEW t \in Tabs, checkCoachQuota(t) PROVE QuotaTypeOK'
    BY <2>1 DEF checkCoachQuota, Turns
  <2>2. ASSUME NEW t \in Tabs, prepareCloudLLM(t) PROVE QuotaTypeOK'
    BY <2>2 DEF prepareCloudLLM, ResolveLLM, Turns
  <2>3. ASSUME NEW t \in Tabs, startSession(t) PROVE QuotaTypeOK'
    BY <2>3, TalkTyped DEF startSession
  <2>4. ASSUME NEW t \in Tabs, sessionMessage(t) PROVE QuotaTypeOK'
    BY <2>4, TalkTyped DEF sessionMessage
  <2>5. ASSUME NEW t \in Tabs, sessionMessageStream(t) PROVE QuotaTypeOK'
    BY <2>5, TalkTyped DEF sessionMessageStream
  <2>6. ASSUME NEW t \in Tabs, recordCoachMessage(t) PROVE QuotaTypeOK'
    <3>1. turn' = [turn EXCEPT ![t] = "idle"]
      BY <2>6 DEF recordCoachMessage, Ends
    <3>3. turn' \in [Tabs -> Turns]
      BY <3>1 DEF Turns
    <3>2. MemberOf[t] \in Members
      OBVIOUS
    <3>4. messages[MemberOf[t]] + 1 \in Nat /\ lost[MemberOf[t]] + 1 \in Nat
      BY <3>2
    <3>5. messages' \in [Members -> Nat]
      BY <2>6, <3>4 DEF recordCoachMessage
    <3>6. lost' \in [Members -> Nat]
      BY <2>6, <3>4 DEF recordCoachMessage
    <3> QED
      BY <2>6, <3>3, <3>5, <3>6 DEF recordCoachMessage
  <2>7. ASSUME NEW u \in Members, putUserLLMKey(u) PROVE QuotaTypeOK'
    BY <2>7 DEF putUserLLMKey
  <2>8. ASSUME NEW u \in Members, adminResetQuota(u) PROVE QuotaTypeOK'
    BY <2>8 DEF adminResetQuota, StartsOver
  <2>9. ASSUME NEW u \in Members, deleteUser(u) PROVE QuotaTypeOK'
    BY <2>9 DEF deleteUser, StartsOver
  <2>10. CASE Midnight
    BY <2>10 DEF Midnight
  <2>11. CASE ServerStops
    <3>1. \A u \in Members : Cardinality(Uncounted(u)) \in Nat
      <4>1. \A u \in Members : Uncounted(u) \in SUBSET Tabs
        BY DEF Uncounted
      <4> QED
        BY <4>1, FS_Subset, FS_CardinalityType
    <3>2. lost' \in [Members -> Nat]
      BY <2>11, <3>1 DEF ServerStops
    <3>3. turn' \in [Tabs -> Turns]
      BY <2>11 DEF ServerStops, Turns
    <3> QED
      BY <2>11, <3>2, <3>3 DEF ServerStops
  <2>12. CASE UNCHANGED quotaVars
    BY <2>12 DEF quotaVars
  <2> QED
    BY <2>1, <2>2, <2>3, <2>4, <2>5, <2>6, <2>7, <2>8, <2>9, <2>10, <2>11, <2>12
    DEF QuotaNext
<1> QED
  BY <1>1, <1>2, PTL DEF QuotaSpec
-----------------------------------------------------------------------------
(* Counting tabs.                                                          *)

\* Of a member's tabs, two groups without a tab in common are no more than all.
LEMMA Apart ==
  ASSUME NEW u \in Members, NEW C, NEW A,
         C \subseteq TabsOf(u), A \subseteq TabsOf(u), C \cap A = {}
  PROVE  /\ IsFiniteSet(C) /\ IsFiniteSet(A)
         /\ Cardinality(C) \in Nat /\ Cardinality(A) \in Nat
         /\ Cardinality(TabsOf(u)) \in Nat
         /\ Cardinality(C) + Cardinality(A) <= Cardinality(TabsOf(u))
<1>1. TabsOf(u) \in SUBSET Tabs
  BY DEF TabsOf
<1>2. IsFiniteSet(TabsOf(u)) /\ IsFiniteSet(C) /\ IsFiniteSet(A)
  BY <1>1, QuotaAssumption, FS_Subset
<1>3. /\ Cardinality(C) \in Nat /\ Cardinality(A) \in Nat
      /\ Cardinality(TabsOf(u)) \in Nat
  BY <1>2, FS_CardinalityType
<1>4. Cardinality(C \cup A) = Cardinality(C) + Cardinality(A) - Cardinality({})
  BY <1>2, FS_Union
<1>5. Cardinality(C \cup A) <= Cardinality(TabsOf(u))
  <2>1. C \cup A \in SUBSET TabsOf(u)
    OBVIOUS
  <2> QED
    BY <1>2, <2>1, FS_Subset
<1> QED
  BY <1>2, <1>3, <1>4, <1>5, FS_EmptySet

\* No tab is both waiting for an answer and waiting for its count.
LEMMA TabsSuffice ==
  ASSUME NEW u \in Members
  PROVE  /\ IsFiniteSet(Coming(u)) /\ IsFiniteSet(Uncounted(u))
         /\ Cardinality(Coming(u)) \in Nat /\ Cardinality(Uncounted(u)) \in Nat
         /\ Cardinality(TabsOf(u)) \in Nat
         /\ Cardinality(Coming(u)) + Cardinality(Uncounted(u)) <= Cardinality(TabsOf(u))
<1>1. Coming(u) \subseteq TabsOf(u) /\ Uncounted(u) \subseteq TabsOf(u)
  BY DEF Coming, Uncounted, TabsOf
<1>2. Coming(u) \cap Uncounted(u) = {}
  BY DEF Coming, Uncounted
<1> QED
  BY <1>1, <1>2, Apart

\* The same after a step.
LEMMA TabsSufficeThen ==
  ASSUME NEW u \in Members
  PROVE  /\ Cardinality(Coming(u)') \in Nat /\ Cardinality(Uncounted(u)') \in Nat
         /\ Cardinality(Coming(u)') + Cardinality(Uncounted(u)') <= Cardinality(TabsOf(u))
<1>1. Coming(u)' \subseteq TabsOf(u) /\ Uncounted(u)' \subseteq TabsOf(u)
  BY DEF Coming, Uncounted, TabsOf
<1>2. Coming(u)' \cap Uncounted(u)' = {}
  BY DEF Coming, Uncounted
<1> QED
  BY <1>1, <1>2, Apart

\* The numbers that the bounds are about, before and after a step.
LEMMA Numbers ==
  ASSUME QuotaTypeOK, QuotaTypeOK', NEW u \in Members
  PROVE  /\ given[u] \in Nat /\ messages[u] \in Nat /\ lost[u] \in Nat
         /\ given'[u] \in Nat /\ messages'[u] \in Nat /\ lost'[u] \in Nat
         /\ QuotaDailyMessages \in Nat \ {0}
         /\ TabsOf(u)' = TabsOf(u)
  BY QuotaAssumption DEF QuotaTypeOK, TabsOf

\* A member whose calls only gave up keeps the two bounds.
LEMMA FewerComing ==
  ASSUME QuotaTypeOK, NEW u \in Members, CountLags(u), Overrun(u), QuotaTypeOK',
         given'[u] = given[u], lost'[u] = lost[u], messages'[u] = messages[u],
         Coming(u)' \subseteq Coming(u), Uncounted(u)' = Uncounted(u)
  PROVE  CountLags(u)' /\ Overrun(u)'
<1>1. Cardinality(Coming(u)') <= Cardinality(Coming(u))
  BY TabsSuffice, FS_Subset
<1>2. Cardinality(Coming(u)') \in Nat
  BY TabsSuffice, FS_Subset, FS_CardinalityType
<1>3. CountLags(u)'
  BY TabsSuffice DEF CountLags, QuotaTypeOK
<1>4. Overrun(u)'
  BY <1>1, <1>2, TabsSuffice, QuotaAssumption DEF Overrun, QuotaTypeOK, TabsOf
<1> QED
  BY <1>3, <1>4

\* A member who was given nothing yet is within the bounds.
LEMMA NothingGiven ==
  ASSUME QuotaTypeOK', NEW u \in Members, given'[u] = 0
  PROVE  CountLags(u)' /\ Overrun(u)'
<1>2. /\ Cardinality(TabsOf(u)) \in Nat
      /\ Cardinality(Coming(u)') \in Nat /\ Cardinality(Uncounted(u)') \in Nat
      /\ Cardinality(Coming(u)') <= Cardinality(TabsOf(u))
  BY TabsSuffice, TabsSufficeThen
<1>3. CountLags(u)'
  BY <1>2 DEF CountLags, QuotaTypeOK
<1>4. Overrun(u)'
  BY <1>2, QuotaAssumption DEF Overrun, QuotaTypeOK, TabsOf
<1> QED
  BY <1>3, <1>4
-----------------------------------------------------------------------------
(* The bounds.                                                             *)

\* What one tab's call does concerns its member only.
LEMMA OthersStay ==
  ASSUME QuotaTypeOK, QuotaTypeOK', NEW t \in Tabs, NEW to,
         turn' = [turn EXCEPT ![t] = to], keys' = keys,
         NEW u \in Members, u # MemberOf[t],
         messages'[u] = messages[u], given'[u] = given[u], lost'[u] = lost[u],
         CountLags(u), Overrun(u)
  PROVE  CountLags(u)' /\ Overrun(u)'
<1>1. \A x \in Tabs : MemberOf[x] = u => turn'[x] = turn[x]
  BY DEF QuotaTypeOK
<1>2. Coming(u)' = Coming(u) /\ Uncounted(u)' = Uncounted(u)
  BY <1>1 DEF Coming, Uncounted, TabsOf
<1> QED
  BY <1>2, FewerComing DEF QuotaTypeOK

\* A call that the check lets through.
LEMMA CheckStep ==
  ASSUME QuotaTypeOK, QuotaTypeOK', QuotaInv, NEW t \in Tabs, checkCoachQuota(t)
  PROVE  CountLags(MemberOf[t])' /\ Overrun(MemberOf[t])'
<1> DEFINE u == MemberOf[t]
<1>1. u \in Members /\ t \in TabsOf(u)
  BY QuotaAssumption DEF TabsOf
<1>2. CountLags(u) /\ Overrun(u)
  BY <1>1 DEF QuotaInv
<1>3. Uncounted(u)' = Uncounted(u) /\ Coming(u)' \subseteq Coming(u) \cup {t}
  BY DEF checkCoachQuota, Uncounted, Coming, TabsOf, QuotaTypeOK
<1>4. CASE u \in keys
  <2>1. Coming(u)' \subseteq Coming(u)
    BY <1>4 DEF checkCoachQuota, Coming, TabsOf, QuotaTypeOK
  <2> QED
    BY <1>1, <1>2, <1>3, <2>1, FewerComing DEF checkCoachQuota, QuotaTypeOK
<1>5. CASE u \notin keys
  <2>1. messages[u] <= QuotaDailyMessages - 1
    BY <1>1, <1>5, QuotaAssumption DEF checkCoachQuota, CheckMessageQuota, QuotaTypeOK
  <2>2. Cardinality(Coming(u)') + Cardinality(Uncounted(u)') <= Cardinality(TabsOf(u))
    BY <1>1, TabsSufficeThen
  <2>3. /\ given'[u] <= QuotaDailyMessages - 1 + lost'[u] + Cardinality(Uncounted(u)')
        /\ given'[u] = given[u] /\ messages'[u] = messages[u] /\ lost'[u] = lost[u]
    BY <1>1, <1>2, <1>3, <2>1, TabsSuffice, QuotaAssumption
    DEF checkCoachQuota, CountLags, QuotaTypeOK
  <2>4. CountLags(u)'
    BY <1>2, <1>3, <2>3 DEF CountLags
  <2>5. Overrun(u)'
    BY <1>1, <2>2, <2>3, TabsSufficeThen, TabsSuffice, Numbers DEF Overrun
  <2> QED
    BY <2>4, <2>5
<1> QED
  BY <1>4, <1>5

\* A call whose coach answers, or that ends without an answer.
LEMMA TalkStep ==
  ASSUME QuotaTypeOK, QuotaTypeOK', QuotaInv, NEW t \in Tabs,
         turn[t] \in {"platform", "byok"},
         Answers(t) \/ (Ends(t) /\ UNCHANGED given),
         UNCHANGED <<messages, keys, lost>>
  PROVE  CountLags(MemberOf[t])' /\ Overrun(MemberOf[t])'
<1> DEFINE u == MemberOf[t]
<1>1. u \in Members /\ t \in TabsOf(u)
  BY QuotaAssumption DEF TabsOf
<1>2. CountLags(u) /\ Overrun(u)
  BY <1>1 DEF QuotaInv
<1>3. CASE Answers(t) /\ turn[t] = "platform"
  <2>1. given'[u] = given[u] + 1 /\ messages'[u] = messages[u] /\ lost'[u] = lost[u]
    BY <1>1, <1>3 DEF Answers, QuotaTypeOK
  <2>2. t \in Coming(u) /\ t \notin Uncounted(u)
    BY <1>1, <1>3 DEF Coming, Uncounted
  <2>3. turn' = [turn EXCEPT ![t] = "answered"]
    BY <1>3 DEF Answers
  <2>4. Coming(u)' = Coming(u) \ {t} /\ Uncounted(u)' = Uncounted(u) \cup {t}
    BY <1>1, <2>3 DEF Coming, Uncounted, TabsOf, QuotaTypeOK
  <2>5. /\ Cardinality(Coming(u)') = Cardinality(Coming(u)) - 1
        /\ Cardinality(Uncounted(u)') = Cardinality(Uncounted(u)) + 1
    <3>1. IsFiniteSet(Coming(u)) /\ IsFiniteSet(Uncounted(u))
      BY <1>1, TabsSuffice
    <3>2. Cardinality(Coming(u) \ {t}) = Cardinality(Coming(u)) - 1
      BY <2>2, <3>1, FS_RemoveElement
    <3>3. Cardinality(Uncounted(u) \cup {t}) = Cardinality(Uncounted(u)) + 1
      BY <2>2, <3>1, FS_AddElement
    <3> QED
      BY <2>4, <3>2, <3>3
  <2>6. CountLags(u)'
    BY <1>1, <1>2, <2>1, <2>5, TabsSuffice, Numbers DEF CountLags
  <2>7. Overrun(u)'
    BY <1>1, <1>2, <2>1, <2>5, TabsSuffice, Numbers DEF Overrun
  <2> QED
    BY <2>6, <2>7
<1>4. CASE ~(Answers(t) /\ turn[t] = "platform")
  <2>1. PICK end \in {"own answered", "idle"} : turn' = [turn EXCEPT ![t] = end]
    BY <1>4 DEF Answers, Ends
  <2>2. Coming(u)' \subseteq Coming(u) /\ Uncounted(u)' = Uncounted(u)
    BY <1>1, <2>1 DEF Coming, Uncounted, TabsOf, QuotaTypeOK
  <2>3. given' = given
    BY <1>4 DEF Answers
  <2>4. given'[u] = given[u] /\ lost'[u] = lost[u] /\ messages'[u] = messages[u]
    BY <2>3
  <2> QED
    BY <1>1, <1>2, <2>2, <2>4, FewerComing
<1> QED
  BY <1>3, <1>4

\* The count of an answer, or its loss.
LEMMA CountStep ==
  ASSUME QuotaTypeOK, QuotaTypeOK', QuotaInv, NEW t \in Tabs, recordCoachMessage(t)
  PROVE  CountLags(MemberOf[t])' /\ Overrun(MemberOf[t])'
<1> DEFINE u == MemberOf[t]
<1>1. u \in Members /\ t \in TabsOf(u)
  BY QuotaAssumption DEF TabsOf
<1>2. CountLags(u) /\ Overrun(u)
  BY <1>1 DEF QuotaInv
<1>3. turn' = [turn EXCEPT ![t] = "idle"] /\ UNCHANGED <<keys, given>>
  BY DEF recordCoachMessage, Ends
<1>4. /\ messages'[u] + lost'[u] = messages[u] + lost[u] + 1
      /\ lost'[u] >= lost[u]
  <2>1. CASE messages' = [messages EXCEPT ![u] = @ + 1] /\ UNCHANGED lost
    <3>1. messages'[u] = messages[u] + 1 /\ lost'[u] = lost[u]
      BY <1>1, <2>1 DEF QuotaTypeOK
    <3> QED
      BY <1>1, <3>1, Numbers
  <2>2. CASE lost' = [lost EXCEPT ![u] = @ + 1] /\ UNCHANGED messages
    <3>1. lost'[u] = lost[u] + 1 /\ messages'[u] = messages[u]
      BY <1>1, <2>2 DEF QuotaTypeOK
    <3> QED
      BY <1>1, <3>1, Numbers
  <2> QED
    BY <2>1, <2>2 DEF recordCoachMessage
<1>5. Coming(u)' = Coming(u) /\ Uncounted(u)' = Uncounted(u) \ {t}
  BY <1>1, <1>3 DEF recordCoachMessage, Coming, Uncounted, TabsOf, QuotaTypeOK
<1>6. Cardinality(Uncounted(u)') >= Cardinality(Uncounted(u)) - 1
  <2>1. IsFiniteSet(Uncounted(u)) /\ Cardinality(Uncounted(u)) \in Nat
    BY <1>1, TabsSuffice
  <2>2. Cardinality(Uncounted(u) \ {t}) >= Cardinality(Uncounted(u)) - 1
    BY <2>1, FS_RemoveElement
  <2> QED
    BY <1>5, <2>2
<1>7. CountLags(u)'
  BY <1>1, <1>2, <1>3, <1>4, <1>6, TabsSuffice, TabsSufficeThen, Numbers
  DEF CountLags
<1>8. Overrun(u)'
  BY <1>1, <1>2, <1>3, <1>4, <1>5, TabsSuffice, Numbers DEF Overrun
<1> QED
  BY <1>7, <1>8

\* Every step keeps the bounds of every member.
LEMMA QuotaStep ==
  ASSUME QuotaTypeOK, QuotaTypeOK', QuotaInv, [QuotaNext]_quotaVars
  PROVE  QuotaInv'
<1> SUFFICES ASSUME NEW u \in Members PROVE CountLags(u)' /\ Overrun(u)'
  BY DEF QuotaInv
<1>1. CountLags(u) /\ Overrun(u)
  BY DEF QuotaInv
<1>2. ASSUME NEW t \in Tabs, checkCoachQuota(t) PROVE CountLags(u)' /\ Overrun(u)'
  <2>1. CASE u = MemberOf[t]
    BY <1>2, <2>1, CheckStep
  <2>2. CASE u # MemberOf[t]
    BY <1>1, <1>2, <2>2, OthersStay DEF checkCoachQuota
  <2> QED
    BY <2>1, <2>2
<1>3. ASSUME NEW t \in Tabs, prepareCloudLLM(t) PROVE CountLags(u)' /\ Overrun(u)'
  <2>1. PICK llm \in ResolveLLM(MemberOf[t]) : turn' = [turn EXCEPT ![t] = llm]
    BY <1>3 DEF prepareCloudLLM
  <2>2. CASE u # MemberOf[t]
    BY <1>1, <1>3, <2>1, <2>2, OthersStay DEF prepareCloudLLM
  <2>3. Coming(u)' \subseteq Coming(u) /\ Uncounted(u)' = Uncounted(u)
    BY <1>3, <2>1
    DEF prepareCloudLLM, ResolveLLM, Coming, Uncounted, TabsOf, QuotaTypeOK
  <2> QED
    BY <1>1, <1>3, <2>3, FewerComing, Numbers DEF prepareCloudLLM
<1>4. ASSUME NEW t \in Tabs,
             startSession(t) \/ sessionMessage(t) \/ sessionMessageStream(t)
      PROVE  CountLags(u)' /\ Overrun(u)'
  <2>1. /\ turn[t] \in {"platform", "byok"}
        /\ Answers(t) \/ (Ends(t) /\ UNCHANGED given)
        /\ UNCHANGED <<messages, keys, lost>>
    BY <1>4 DEF startSession, sessionMessage, sessionMessageStream, Talking
  <2>2. CASE u = MemberOf[t]
    BY <2>1, <2>2, TalkStep
  <2>3. CASE u # MemberOf[t]
    <3>1. given'[u] = given[u]
      BY <2>1, <2>3 DEF Answers, QuotaTypeOK
    <3>2. PICK to \in Turns : turn' = [turn EXCEPT ![t] = to]
      BY <2>1 DEF Answers, Ends, Turns
    <3> QED
      BY <1>1, <2>1, <2>3, <3>1, <3>2, OthersStay
  <2> QED
    BY <2>2, <2>3
<1>5. ASSUME NEW t \in Tabs, recordCoachMessage(t) PROVE CountLags(u)' /\ Overrun(u)'
  <2>1. CASE u = MemberOf[t]
    BY <1>5, <2>1, CountStep
  <2>2. CASE u # MemberOf[t]
    <3>1. messages'[u] = messages[u] /\ lost'[u] = lost[u]
      BY <1>5, <2>2 DEF recordCoachMessage, QuotaTypeOK
    <3> QED
      BY <1>1, <1>5, <2>2, <3>1, OthersStay DEF recordCoachMessage, Ends
  <2> QED
    BY <2>1, <2>2
<1>6. ASSUME NEW v \in Members, putUserLLMKey(v) PROVE CountLags(u)' /\ Overrun(u)'
  <2>1. Coming(u)' \subseteq Coming(u) /\ Uncounted(u)' = Uncounted(u)
    BY <1>6 DEF putUserLLMKey, Coming, Uncounted, TabsOf
  <2> QED
    BY <1>1, <1>6, <2>1, FewerComing, Numbers DEF putUserLLMKey
<1>7. ASSUME NEW v \in Members, adminResetQuota(v) \/ deleteUser(v)
      PROVE  CountLags(u)' /\ Overrun(u)'
  <2>1. CASE u = v
    <3>1. given'[u] = 0
      BY <1>7, <2>1 DEF adminResetQuota, deleteUser, StartsOver, QuotaTypeOK
    <3> QED
      BY <3>1, NothingGiven
  <2>2. CASE u # v
    <3>1. given'[u] = given[u] /\ lost'[u] = lost[u] /\ messages'[u] = messages[u]
      BY <1>7, <2>2 DEF adminResetQuota, deleteUser, StartsOver, QuotaTypeOK
    <3>2. turn' = turn /\ (u \in keys' <=> u \in keys)
      BY <1>7, <2>2 DEF adminResetQuota, deleteUser
    <3>3. Coming(u)' = Coming(u) /\ Uncounted(u)' = Uncounted(u)
      BY <3>2 DEF Coming, Uncounted, TabsOf
    <3> QED
      BY <1>1, <3>1, <3>3, FewerComing, Numbers
  <2> QED
    BY <2>1, <2>2
<1>8. CASE Midnight
  <2>1. given'[u] = 0
    BY <1>8 DEF Midnight
  <2> QED
    BY <2>1, NothingGiven
<1>9. CASE ServerStops
  <2>1. Coming(u)' = {} /\ Uncounted(u)' = {}
    BY <1>9 DEF ServerStops, Coming, Uncounted, TabsOf
  <2>2. /\ given'[u] = given[u] /\ messages'[u] = messages[u]
        /\ lost'[u] = lost[u] + Cardinality(Uncounted(u))
    BY <1>9 DEF ServerStops
  <2>3. Cardinality(Coming(u)') = 0 /\ Cardinality(Uncounted(u)') = 0
    BY <2>1, FS_EmptySet
  <2>4. CountLags(u)'
    BY <1>1, <2>2, <2>3, TabsSuffice, Numbers DEF CountLags
  <2>5. Overrun(u)'
    BY <1>1, <2>2, <2>3, TabsSuffice, Numbers DEF Overrun
  <2> QED
    BY <2>4, <2>5
<1>10. CASE UNCHANGED quotaVars
  BY <1>1, <1>10 DEF quotaVars, CountLags, Overrun, Coming, Uncounted, TabsOf
<1> QED
  BY <1>2, <1>3, <1>4, <1>5, <1>6, <1>7, <1>8, <1>9, <1>10 DEF QuotaNext

\* Calls that passed the check together overrun the quota, but only by one
\* answer for each tab but one, and by those whose count was lost: however
\* many tabs a learner has open, whatever the quota, and whatever is deleted,
\* reset or stopped between the steps of the calls.
THEOREM OverrunBounded == QuotaSpec => []FreeUseBounded
<1>1. QuotaInit => QuotaInv
  <2> SUFFICES ASSUME QuotaInit, NEW u \in Members PROVE CountLags(u) /\ Overrun(u)
    BY DEF QuotaInv
  <2>1. Coming(u) = {} /\ given[u] = 0 /\ messages[u] = 0 /\ lost[u] = 0
    BY DEF QuotaInit, Coming, TabsOf
  <2>2. Cardinality(Coming(u)) = 0
    BY <2>1, FS_EmptySet
  <2> QED
    BY <2>1, <2>2, TabsSuffice, QuotaAssumption DEF CountLags, Overrun
<1>2. QuotaTypeOK /\ QuotaTypeOK' /\ QuotaInv /\ [QuotaNext]_quotaVars => QuotaInv'
  BY QuotaStep
<1>3. QuotaTypeOK /\ QuotaInv => FreeUseBounded
  <2> SUFFICES ASSUME QuotaTypeOK, QuotaInv, NEW u \in Members
               PROVE  given[u] <= QuotaDailyMessages - 1 + Cardinality(TabsOf(u)) + lost[u]
    BY DEF FreeUseBounded
  <2>1. Overrun(u) /\ given[u] \in Nat /\ lost[u] \in Nat
    BY DEF QuotaInv, QuotaTypeOK
  <2> QED
    BY <2>1, TabsSuffice, QuotaAssumption DEF Overrun
<1> QED
  BY <1>1, <1>2, <1>3, QuotaTyped, PTL DEF QuotaSpec
=============================================================================
