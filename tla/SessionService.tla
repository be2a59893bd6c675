--------------------------- MODULE SessionService ---------------------------
(***************************************************************************)
(* Requests of one learner on one course, served concurrently: opening a   *)
(* node (StartOrResumeSession), the button "next node" (StartNextNode) and *)
(* chat messages (sendCoachMessage), internal/service/session.go.  The web *)
(* server and the IM gateway each own a SessionService, hence a lock table *)
(* of their own (cmd/server/main.go), over one database.                   *)
(*                                                                         *)
(* One action is one database statement, or one LLM call with the          *)
(* statement that follows it.  What the coach does with a message is cut   *)
(* down to its writes of the row: CoachSession.tla has the rest.           *)
(***************************************************************************)
EXTENDS Naturals, Sequences

CONSTANTS
  LastNode,      \* the nodes are 1 .. LastNode, in the order of the tree
  Requests,      \* handler goroutines
  Services,      \* instances of SessionService
  ServiceOf,     \* [Requests -> Services]
  MaxSessions,   \* bound on the rows of table sessions
  MaxTurns       \* bound on the messages sent

ASSUME ConstantsAssumption ==
  /\ LastNode \in Nat \ {0}
  /\ ServiceOf \in [Requests -> Services]
  /\ MaxSessions \in Nat /\ MaxTurns \in Nat

Node == 1 .. LastNode
Id == 1 .. MaxSessions
Turn == 1 .. MaxTurns

\* Of the phases, what matters here is whether the session is completed;
\* earned stands for what the coach accumulates in context_json: the turns it
\* has credited.
Row == [node : Node, phase : {"learning", "completed"}, earned : SUBSET Turn]

\* turn 0 is the opening; under is the session whose lock the author held.
Message == [turn : 0 .. MaxTurns, role : {"user", "assistant"}, under : 0 .. MaxSessions]

VARIABLES
  rows,       \* table sessions, by id
  latest,     \* the session of each node with the greatest updated_at, or 0
  progress,   \* user_progress.status of each node
  messages,   \* session_messages of each session
  lock,       \* sessionLock of each service: held or not
  pc,         \* where each request is
  req,        \* its local variables
  hist        \* history, read by the properties only

vars == <<rows, latest, progress, messages, lock, pc, req, hist>>

Step == {"idle", "lookup", "touch", "check", "createLit", "settle", "create",
         "mark", "begin", "confirm", "overwrite", "pick", "read", "think",
         "close", "postUser", "postReply"}

\* A request: the session and node it is about, the session it posts to, its
\* copy of the row, its turn, and the session it has locked (0: none).
Local == [session : 0 .. MaxSessions, node : Node, to : 0 .. MaxSessions,
          snap : Row, turn : 0 .. MaxTurns, under : 0 .. MaxSessions]

\* turns: messages sent; earned: what was credited, by session; rebuilt: nodes
\* lit from the start, without a session; lit: nodes ever lit.
History == [turns : 0 .. MaxTurns, earned : [Id -> SUBSET Turn],
            rebuilt : SUBSET Node, lit : SUBSET Node]

TypeOK ==
  /\ rows \in Seq(Row) /\ Len(rows) <= MaxSessions
  /\ latest \in [Node -> 0 .. Len(rows)]
  /\ progress \in [Node -> {"none", "in_progress", "completed"}]
  /\ messages \in [Id -> Seq(Message)]
  /\ lock \in [Services \X Id -> BOOLEAN]
  /\ pc \in [Requests -> Step]
  /\ req \in [Requests -> Local]
  /\ hist \in History

Incomplete == {n \in Node : progress[n] # "completed"}

NoRow == [node |-> 1, phase |-> "learning", earned |-> {}]
Fresh == [session |-> 0, node |-> 1, to |-> 0, snap |-> NoRow, turn |-> 0, under |-> 0]

\* A course just built, or rebuilt with some progress but no session migrated.
Init ==
  /\ rows = <<>>
  /\ latest = [n \in Node |-> 0]
  /\ progress \in [Node -> {"none", "completed"}]
  /\ messages = [s \in Id |-> <<>>]
  /\ lock = [x \in Services \X Id |-> FALSE]
  /\ pc = [r \in Requests |-> "idle"]
  /\ req = [r \in Requests |-> Fresh]
  /\ hist = [turns |-> 0, earned |-> [s \in Id |-> {}],
             rebuilt |-> Node \ Incomplete, lit |-> Node \ Incomplete]
-----------------------------------------------------------------------------
(* The store.                                                              *)

Ids == 1 .. Len(rows)

\* Every write of a row or of its messages makes it the one that
\* FindLatestSession finds for its node.
Touch(s) == latest' = [latest EXCEPT ![rows[s].node] = s]

\* NextUncompletedNodeAfter: only the nodes after this one in the tree.
After(n) == {k \in Incomplete : k > n}
NextUncompleted(n) == CHOOSE k \in After(n) : \A j \in After(n) : k <= j

UpdateSession(s, row) ==
  /\ rows' = [rows EXCEPT ![s] = row]
  /\ Touch(s)

CreateSession(row) ==
  /\ Len(rows) < MaxSessions
  /\ rows' = Append(rows, row)
  /\ latest' = [latest EXCEPT ![row.node] = Len(rows) + 1]

AddMessage(s, role, r) ==
  /\ messages' = [messages EXCEPT ![s] =
       Append(@, [turn |-> req[r].turn, role |-> role, under |-> req[r].under])]
  /\ Touch(s)

At(r, step) == pc[r] = step
Goto(r, step) == pc' = [pc EXCEPT ![r] = step]
Set(r, local) == req' = [req EXCEPT ![r] = local]

LockOf(r, s) == <<ServiceOf[r], s>>

\* The handler goes on to post the turn to session s; the rest of its locals
\* is not read again.
PostTo(r, s) ==
  /\ Goto(r, "postUser")
  /\ Set(r, [Fresh EXCEPT !.to = s, !.turn = req[r].turn, !.under = req[r].under])

ReturnLocked(r) ==    \* mutant: an early return of the message handler skips the Unlock
  /\ Goto(r, "idle")
  /\ lock' = IF req[r].under = 0 \/ At(r, "think") THEN lock
             ELSE [lock EXCEPT ![LockOf(r, req[r].under)] = FALSE]
  /\ Set(r, Fresh)

\* The handler returns: the deferred Unlock runs if it had locked.
Return(r) ==
  /\ Goto(r, "idle")
  /\ lock' = IF req[r].under = 0 THEN lock
             ELSE [lock EXCEPT ![LockOf(r, req[r].under)] = FALSE]
  /\ Set(r, Fresh)
-----------------------------------------------------------------------------
(* StartOrResumeSession.                                                   *)

Open(r, n) ==
  /\ At(r, "idle")
  /\ Set(r, [Fresh EXCEPT !.node = n])
  /\ Goto(r, "lookup")
  /\ UNCHANGED <<rows, latest, progress, messages, lock, hist>>

\* An existing session is resumed, without an opening.  A chat message that
\* moves to the node goes on to post its turn there; it does not check
\* progress, having just read it.
Lookup(r) ==
  /\ At(r, "lookup")
  /\ LET found == latest[req[r].node] IN
       IF found # 0
       THEN IF req[r].turn # 0 THEN PostTo(r, found)
            ELSE /\ Goto(r, "touch")
                 /\ Set(r, [Fresh EXCEPT !.to = found])
       ELSE /\ Goto(r, IF req[r].turn = 0 THEN "check" ELSE "create")
            /\ UNCHANGED req
  /\ UNCHANGED <<rows, latest, progress, messages, lock, hist>>

TouchSession(r) ==
  /\ At(r, "touch")
  /\ Touch(req[r].to)
  /\ Return(r)
  /\ UNCHANGED <<rows, progress, messages, hist>>

CheckNothing(r) ==    \* mutant
  /\ At(r, "check")
  /\ Goto(r, "create")
  /\ UNCHANGED <<rows, latest, progress, messages, lock, req, hist>>

CheckProgress(r) ==
  /\ At(r, "check")
  /\ Goto(r, IF progress[req[r].node] = "completed" THEN "createLit" ELSE "create")
  /\ UNCHANGED <<rows, latest, progress, messages, lock, req, hist>>

\* A lit node without a session: straight to phase completed.
CreateCompleted(r) ==
  /\ At(r, "createLit")
  /\ LET row == [NoRow EXCEPT !.node = req[r].node, !.phase = "completed"] IN
       /\ CreateSession(row)
       /\ Set(r, [req[r] EXCEPT !.to = Len(rows) + 1, !.snap = row])
  /\ Goto(r, "settle")
  /\ UNCHANGED <<progress, messages, lock, hist>>

\* ... and a second statement writes the same row again with its status.
SettleCompleted(r) ==
  /\ At(r, "settle")
  /\ UpdateSession(req[r].to, req[r].snap)
  /\ Return(r)
  /\ UNCHANGED <<progress, messages, hist>>

Create(r) ==
  /\ At(r, "create")
  /\ CreateSession([NoRow EXCEPT !.node = req[r].node])
  /\ Set(r, [req[r] EXCEPT !.to = Len(rows) + 1])
  /\ Goto(r, "mark")
  /\ UNCHANGED <<progress, messages, lock, hist>>

\* UpsertProgress overwrites the status whatever it is now.
MarkInProgress(r) ==
  /\ At(r, "mark")
  /\ progress' = [progress EXCEPT ![req[r].node] = "in_progress"]
  /\ Goto(r, "begin")
  /\ UNCHANGED <<rows, latest, messages, lock, req, hist>>

\* Coach.Begin, then the opening message.
Begin(r) ==
  /\ At(r, "begin")
  /\ messages' = [messages EXCEPT ![req[r].to] =
       Append(@, [turn |-> 0, role |-> "assistant", under |-> 0])]
  /\ Touch(req[r].to)
  /\ IF req[r].turn = 0 THEN Return(r)
     ELSE PostTo(r, req[r].to) /\ UNCHANGED lock
  /\ UNCHANGED <<rows, progress, hist>>

\* The LLM fails: the session stays, without an opening.
BeginFails(r) ==
  /\ At(r, "begin")
  /\ Return(r)
  /\ UNCHANGED <<rows, latest, progress, messages, hist>>
-----------------------------------------------------------------------------
(* StartNextNode: it takes no lock.                                        *)

NextButton(r, s) ==
  /\ At(r, "idle") /\ s \in Ids
  /\ Set(r, [Fresh EXCEPT !.session = s, !.snap = rows[s], !.node = rows[s].node])
  /\ Goto(r, IF rows[s].phase = "completed" THEN "pick" ELSE "confirm")
  /\ UNCHANGED <<rows, latest, progress, messages, lock, hist>>

ConfirmLit(r) ==
  /\ At(r, "confirm")
  /\ IF progress[req[r].node] = "completed"
     THEN Goto(r, "overwrite") /\ UNCHANGED <<lock, req>>
     ELSE Return(r)
  /\ UNCHANGED <<rows, latest, progress, messages, hist>>

\* The session of a lit node is closed from the copy read before.
Overwrite(r) ==
  /\ At(r, "overwrite")
  /\ UpdateSession(req[r].session, [req[r].snap EXCEPT !.phase = "completed"])
  /\ Goto(r, "pick")
  /\ UNCHANGED <<progress, messages, lock, req, hist>>

\* Without a node to go to, the learner is told the course is completed: by
\* an error to the button, by a reply to a chat message.
AllDone(r) == At(r, "pick") /\ After(req[r].node) = {}

PickNext(r) ==
  /\ At(r, "pick")
  /\ IF ~AllDone(r)
     THEN /\ Set(r, [req[r] EXCEPT !.node = NextUncompleted(@), !.snap = NoRow])
          /\ Goto(r, "lookup")
          /\ UNCHANGED lock
     ELSE IF req[r].turn = 0 THEN Return(r)
          ELSE PostTo(r, req[r].session) /\ UNCHANGED lock
  /\ UNCHANGED <<rows, latest, progress, messages, hist>>
-----------------------------------------------------------------------------
(* sendCoachMessage.  A message to a busy session is refused: stuttering.  *)

NoLock(r, s) == TRUE    \* mutant
TryLock(r, s) == ~lock[LockOf(r, s)]
Say(r, s) ==
  /\ At(r, "idle") /\ s \in Ids /\ hist.turns < MaxTurns
  /\ TryLock(r, s)
  /\ lock' = [lock EXCEPT ![LockOf(r, s)] = TRUE]
  /\ hist' = [hist EXCEPT !.turns = @ + 1]
  /\ Set(r, [Fresh EXCEPT !.session = s, !.turn = hist.turns + 1, !.under = s])
  /\ Goto(r, "read")
  /\ UNCHANGED <<rows, latest, progress, messages>>

GetSession(r) ==
  /\ At(r, "read")
  /\ LET row == rows[req[r].session] IN
       Set(r, [req[r] EXCEPT !.snap = row, !.node = row.node])
  /\ Goto(r, "think")
  /\ UNCHANGED <<rows, latest, progress, messages, lock, hist>>

\* The coach answers without writing the row.
Answer(r) ==
  /\ At(r, "think")
  /\ PostTo(r, req[r].session)
  /\ UNCHANGED <<rows, latest, progress, messages, lock, hist>>

\* An LLM error: nothing of the message is kept.
Fail(r) ==
  /\ At(r, "think")
  /\ Return(r)
  /\ UNCHANGED <<rows, latest, progress, messages, hist>>

Credited(r) == req[r].snap.earned \cup {req[r].turn}

Credit(r) == hist' = [hist EXCEPT !.earned[req[r].session] = @ \cup {req[r].turn}]

\* The coach writes the row from its copy: an answer is graded, an exercise
\* set (which reopens a completed session).
StoreRowAfresh(r) ==    \* mutant: a new context instead of the parsed one
  /\ At(r, "think")
  /\ UpdateSession(req[r].session,
       [req[r].snap EXCEPT !.phase = "learning", !.earned = {req[r].turn}])
  /\ Credit(r)
  /\ PostTo(r, req[r].session)
  /\ UNCHANGED <<progress, messages, lock>>

StoreRow(r) ==
  /\ At(r, "think")
  /\ UpdateSession(req[r].session,
       [req[r].snap EXCEPT !.phase = "learning", !.earned = Credited(r)])
  /\ Credit(r)
  /\ PostTo(r, req[r].session)
  /\ UNCHANGED <<progress, messages, lock>>

\* completeNode: first the progress, then the row.
LightNode(r) ==
  /\ At(r, "think") /\ req[r].snap.phase # "completed"
  /\ progress' = [progress EXCEPT ![req[r].node] = "completed"]
  /\ hist' = [hist EXCEPT !.lit = @ \cup {req[r].node}]
  /\ Goto(r, "close")
  /\ UNCHANGED <<rows, latest, messages, lock, req>>

CloseSession(r) ==
  /\ At(r, "close")
  /\ UpdateSession(req[r].session,
       [req[r].snap EXCEPT !.phase = "completed", !.earned = Credited(r)])
  /\ Credit(r)
  /\ PostTo(r, req[r].session)
  /\ UNCHANGED <<progress, messages, lock>>

\* "next" in a completed session: startNextNode, still under the lock of the
\* completed session.
SayNext(r) ==
  /\ At(r, "think") /\ req[r].snap.phase = "completed"
  /\ Goto(r, "pick")
  /\ UNCHANGED <<rows, latest, progress, messages, lock, req, hist>>

PostUser(r) ==
  /\ At(r, "postUser")
  /\ AddMessage(req[r].to, "user", r)
  /\ Goto(r, "postReply")
  /\ UNCHANGED <<rows, progress, lock, req, hist>>

PostReply(r) ==
  /\ At(r, "postReply")
  /\ AddMessage(req[r].to, "assistant", r)
  /\ Return(r)
  /\ UNCHANGED <<rows, progress, hist>>
-----------------------------------------------------------------------------
Start(r) ==
  \/ \E n \in Node : Open(r, n)
  \/ \E s \in Id : NextButton(r, s) \/ Say(r, s)

Proceed(r) ==
  \/ Lookup(r) \/ TouchSession(r) \/ CheckProgress(r) \/ CreateCompleted(r)
  \/ SettleCompleted(r) \/ Create(r) \/ MarkInProgress(r)
  \/ Begin(r) \/ BeginFails(r) \/ ConfirmLit(r) \/ Overwrite(r) \/ PickNext(r)
  \/ GetSession(r) \/ Answer(r) \/ Fail(r) \/ StoreRow(r) \/ LightNode(r)
  \/ CloseSession(r) \/ SayNext(r) \/ PostUser(r) \/ PostReply(r)

Next == \E r \in Requests : Start(r) \/ Proceed(r)

\* Statements and LLM calls return; goroutines are scheduled.
Spec == Init /\ [][Next]_vars /\ \A r \in Requests : WF_vars(Proceed(r))
-----------------------------------------------------------------------------
(* What the lock of one service gives.                                     *)

\* The places of what was posted to session s under its own lock.
Own(posts, s) == {i \in DOMAIN posts : posts[i].under = s}

\* Of these, i comes right before j.
RightBefore(posts, s, i, j) ==
  i \in Own(posts, s) /\ i < j /\ \A k \in Own(posts, s) : k <= i \/ j <= k

InTurns(posts, s) ==
  \A j \in Own(posts, s) :
    IF posts[j].role = "user"
    THEN \A i \in DOMAIN posts :
           RightBefore(posts, s, i, j) => posts[i].role = "assistant"
    ELSE \E i \in DOMAIN posts :
           /\ RightBefore(posts, s, i, j)
           /\ posts[i].role = "user" /\ posts[i].turn = posts[j].turn

\* What is posted to a session under its own lock is whole turns: every
\* message of the learner is followed by the reply to it before the next
\* message is taken.  (Turns brought along by "next" from another session are
\* posted without this session's lock and may fall in between.)
LockedTurns == \A s \in Id : InTurns(messages[s], s)

\* What the coach has credited to a session stays in its row: no handler writes
\* back a copy that misses another handler's credit.  Only the unlocked write
\* of StartNextNode can undo a credit, and then the node is lit already.
EarnedKept ==
  \A s \in Ids : rows[s].earned = hist.earned[s] \/ rows[s].node \in hist.lit

Downgraded(n) == progress[n] = "completed" /\ progress'[n] # "completed"

\* A node that was lit without a session (its progress was migrated when the
\* course was rebuilt) is never downgraded, however many requests open it at
\* the same time.
RebuiltStaysLit == [][\A n \in hist.rebuilt : ~Downgraded(n)]_vars

\* Whatever fails in a handler, the session it has locked becomes free again.
LocksReleased == \A x \in Services \X Id : lock[x] ~> ~lock[x]
-----------------------------------------------------------------------------
(* What comments say and the code does not do.                             *)

\* ErrSessionBusy, "the session is being handled by another entry": while one
\* entry handles a message of a session, no other entry does.  The web server
\* and the IM gateway do not see each other's locks.
OneEntryAtATime ==
  \A r1, r2 \in Requests :
    r1 # r2 /\ req[r1].under # 0 => req[r1].under # req[r2].under

\* startNextNode congratulates on having completed ALL nodes of the course; it
\* has only looked at the nodes after the current one.
AllDoneIsTrue == \A r \in Requests : AllDone(r) => Incomplete = {}
=============================================================================
