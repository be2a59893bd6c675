---------------------------- MODULE MessageQuota ----------------------------
(***************************************************************************)
(* The daily quota of coach messages of a cloud server                     *)
(* (cloud/quota.go, cloud/resolver.go, api/cloud_llm.go and the handlers   *)
(* of api/handler.go and api/session_stream.go that call the coach).       *)
(*                                                                         *)
(* A call checks the quota, looks up whose model answers, talks to the     *)
(* coach and counts the answer, each in a step of its own.  The count is   *)
(* per user and UTC day; between its steps a call meets the other tabs of  *)
(* the user, midnight, an administrator and a stop of the process.         *)
(***************************************************************************)
EXTENDS Integers, FiniteSets

CONSTANTS
  Tabs, Members,
  MemberOf,            \* [Tabs -> Members]
  CallOf,              \* [Tabs -> Calls]
  QuotaDailyMessages,
  MaxMessages,         \* bound: messages a day of those with their own key
  MaxLost              \* bound: answers a day that are not counted

Calls == {"open", "message", "stream"}

ASSUME QuotaAssumption ==
  /\ MemberOf \in [Tabs -> Members] /\ CallOf \in [Tabs -> Calls]
  /\ IsFiniteSet(Tabs)
  /\ QuotaDailyMessages \in Nat \ {0} /\ MaxMessages \in Nat /\ MaxLost \in Nat

VARIABLES
  turn,      \* how far the call of each tab is
  messages,  \* llm_usage_daily.message_count of today
  keys,      \* members with a key of their own (user_llm_credentials)
  given,     \* history: today's answers of the platform's model
  lost       \* history: those of today that were never counted

quotaVars == <<turn, messages, keys, given, lost>>

Turns == {"idle", "allowed", "platform", "byok", "answered", "own answered"}

QuotaInit ==
  /\ turn = [t \in Tabs |-> "idle"]
  /\ messages = [u \in Members |-> 0]
  /\ keys = {}
  /\ given = [u \in Members |-> 0]
  /\ lost = [u \in Members |-> 0]

Ends(t) == turn' = [turn EXCEPT ![t] = "idle"]
-----------------------------------------------------------------------------
(* A call of the coach.                                                    *)

CheckWithSlack(u) ==    \* mutant: refuses only when the quota is exceeded
  u \in keys \/ messages[u] <= QuotaDailyMessages

\* Nobody with a key of their own is refused.
CheckMessageQuota(u) == u \in keys \/ messages[u] < QuotaDailyMessages

\* A refused call changes nothing.
checkCoachQuota(t) ==
  /\ turn[t] = "idle"
  /\ CheckMessageQuota(MemberOf[t])
  /\ messages[MemberOf[t]] < MaxMessages
  /\ turn' = [turn EXCEPT ![t] = "allowed"]
  /\ UNCHANGED <<messages, keys, given, lost>>

\* The keys are read again; one that cannot be decrypted is an error.
ResolveLLM(u) == IF u \in keys THEN {"byok", "idle"} ELSE {"platform"}

prepareCloudLLM(t) ==
  /\ turn[t] = "allowed"
  /\ \E llm \in ResolveLLM(MemberOf[t]) : turn' = [turn EXCEPT ![t] = llm]
  /\ UNCHANGED <<messages, keys, given, lost>>

Answers(t) ==
  /\ turn' = [turn EXCEPT ![t] = IF @ = "byok" THEN "own answered" ELSE "answered"]
  /\ given' = IF turn[t] = "platform" THEN [given EXCEPT ![MemberOf[t]] = @ + 1]
              ELSE given

Talking(t, call) == CallOf[t] = call /\ turn[t] \in {"platform", "byok"}

\* startSession and startNextSession: an error, a session that is resumed and
\* one that opens without a text are not counted.
startSession(t) ==
  /\ Talking(t, "open")
  /\ Answers(t) \/ (Ends(t) /\ UNCHANGED given)
  /\ UNCHANGED <<messages, keys, lost>>

\* Another learner's session, a busy one, an error: not counted.
sessionMessage(t) ==
  /\ Talking(t, "message")
  /\ Answers(t) \/ (Ends(t) /\ UNCHANGED given)
  /\ UNCHANGED <<messages, keys, lost>>

\* The turn goes on when the reader has left, and counts as well.
sessionMessageStream(t) ==
  /\ Talking(t, "stream")
  /\ Answers(t) \/ (Ends(t) /\ UNCHANGED given)
  /\ UNCHANGED <<messages, keys, lost>>

\* An answer of the member's own model counts too.  The error of a write that
\* fails is ignored.
recordCoachMessage(t) ==
  LET u == MemberOf[t] IN
  /\ turn[t] \in {"answered", "own answered"}
  /\ Ends(t)
  /\ \/ messages' = [messages EXCEPT ![u] = @ + 1] /\ UNCHANGED lost
     \/ /\ lost[u] < MaxLost
        /\ lost' = [lost EXCEPT ![u] = @ + 1]
        /\ UNCHANGED messages
  /\ UNCHANGED <<keys, given>>
-----------------------------------------------------------------------------
(* What comes between.                                                     *)

putUserLLMKey(u) ==
  /\ keys' = keys \cup {u}
  /\ UNCHANGED <<turn, messages, given, lost>>

\* usage_date is another one from now on, for calls under way as well.
Midnight ==
  /\ messages' = [u \in Members |-> 0]
  /\ given' = [u \in Members |-> 0]
  /\ lost' = [u \in Members |-> 0]
  /\ UNCHANGED <<turn, keys>>

StartsOver(u) ==
  /\ messages' = [messages EXCEPT ![u] = 0]
  /\ given' = [given EXCEPT ![u] = 0]
  /\ lost' = [lost EXCEPT ![u] = 0]

\* An error without a row; the tokens of an answer make one too.
adminResetQuota(u) ==
  /\ messages[u] + given[u] > 0
  /\ StartsOver(u)
  /\ UNCHANGED <<turn, keys>>

\* The next request of a tab makes the user anew (EnsureUser), without a key.
deleteUser(u) ==
  /\ StartsOver(u)
  /\ keys' = keys \ {u}
  /\ UNCHANGED turn

Uncounted(u) == {t \in Tabs : MemberOf[t] = u /\ turn[t] = "answered"}

ServerStops ==
  /\ turn' = [t \in Tabs |-> "idle"]
  /\ lost' = [u \in Members |-> lost[u] + Cardinality(Uncounted(u))]
  /\ \A u \in Members : lost'[u] <= MaxLost
  /\ UNCHANGED <<messages, keys, given>>

QuotaNext ==
  \/ \E t \in Tabs :
       \/ checkCoachQuota(t) \/ prepareCloudLLM(t) \/ startSession(t)
       \/ sessionMessage(t) \/ sessionMessageStream(t) \/ recordCoachMessage(t)
  \/ \E u \in Members : putUserLLMKey(u) \/ adminResetQuota(u) \/ deleteUser(u)
  \/ Midnight \/ ServerStops

QuotaSpec == QuotaInit /\ [][QuotaNext]_quotaVars
-----------------------------------------------------------------------------
(* Properties.                                                             *)

TabsOf(u) == {t \in Tabs : MemberOf[t] = u}

\* Calls that passed the check together overrun the quota, but by no more than
\* there are tabs: so many answers of the platform a day, and those whose
\* count was lost (CheckMessageQuota, RecordMessageUsage, ResolveLLM).
FreeUseBounded ==
  \A u \in Members :
    given[u] <= QuotaDailyMessages - 1 + Cardinality(TabsOf(u)) + lost[u]
=============================================================================
