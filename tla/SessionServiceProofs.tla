------------------------ MODULE SessionServiceProofs ------------------------
(***************************************************************************)
(* Theorems about SessionService, for any number of nodes, requests,       *)
(* services, sessions and turns.                                           *)
(***************************************************************************)
EXTENDS SessionService, SequenceTheorems, WellFoundedInduction, TLAPS

\* Sessions that a request names are there, and the nodes in its copies are
\* those of the rows, which never change.
Refs(q) ==
  LET l == req[q] IN
  /\ pc[q] \in {"touch", "settle", "mark", "begin", "postUser", "postReply"}
       => l.to \in Ids
  /\ pc[q] \in {"confirm", "overwrite", "pick", "read", "think", "close"}
       => l.session \in Ids
  /\ pc[q] \in {"confirm", "overwrite", "think", "close"}
       => l.node = rows[l.session].node /\ l.snap.node = l.node
  /\ pc[q] = "settle" => l.node = rows[l.to].node /\ l.snap.node = l.node
  /\ pc[q] \in {"createLit", "settle", "overwrite", "close"} => l.node \in hist.lit
  /\ pc[q] \in {"read", "think", "close"} => l.session = l.under /\ l.turn # 0

LitCovers == \A n \in Node : progress[n] = "completed" => n \in hist.lit

NewUncredited == \A s \in Id \ Ids : hist.earned[s] = {}

Shape == TypeOK /\ LitCovers /\ NewUncredited /\ \A q \in Requests : Refs(q)

\* A step of r leaves the locals of the others alone and only adds rows.
Alone(r) == \A q \in Requests \ {r} : pc'[q] = pc[q] /\ req'[q] = req[q]
Grows ==
  /\ Ids \subseteq Ids' /\ hist.lit \subseteq hist'.lit
  /\ \A s \in Ids : rows'[s].node = rows[s].node

StepOK(r) ==
  TypeOK' /\ Alone(r) /\ Grows /\ Refs(r)' /\ LitCovers' /\ NewUncredited'
-----------------------------------------------------------------------------
(* Rows and locals.                                                        *)

\* The locals a handler starts with.
LEMMA FreshLocal ==
  /\ NoRow \in Row /\ Fresh \in Local
  /\ \A n \in Node : [Fresh EXCEPT !.node = n] \in Local
  BY ConstantsAssumption DEF NoRow, Fresh, Row, Local, Node

\* What Goto and Set do.
LEMMA GotoType ==
  ASSUME TypeOK, NEW r \in Requests, NEW step \in Step, Goto(r, step)
  PROVE  /\ pc' \in [Requests -> Step] /\ pc'[r] = step
         /\ \A q \in Requests \ {r} : pc'[q] = pc[q]
  BY DEF TypeOK, Goto

LEMMA SetType ==
  ASSUME TypeOK, NEW r \in Requests, NEW l \in Local, Set(r, l)
  PROVE  /\ req' \in [Requests -> Local] /\ req'[r] = l
         /\ \A q \in Requests \ {r} : req'[q] = req[q]
  BY DEF TypeOK, Set

\* A handler that returns keeps nothing.
LEMMA ReturnType ==
  ASSUME TypeOK, NEW r \in Requests, Return(r)
  PROVE  /\ pc' \in [Requests -> Step] /\ req' \in [Requests -> Local]
         /\ lock' \in [Services \X Id -> BOOLEAN]
         /\ pc'[r] = "idle" /\ req'[r] = Fresh /\ Alone(r)
<1>1. /\ pc' \in [Requests -> Step] /\ pc'[r] = "idle"
      /\ \A q \in Requests \ {r} : pc'[q] = pc[q]
  BY GotoType DEF Return, Step
<1>2. /\ req' \in [Requests -> Local] /\ req'[r] = Fresh
      /\ \A q \in Requests \ {r} : req'[q] = req[q]
  BY SetType, FreshLocal DEF Return
<1>3. lock' \in [Services \X Id -> BOOLEAN]
  BY DEF Return, TypeOK
<1> QED
  BY <1>1, <1>2, <1>3 DEF Alone

\* One that goes on to post its turn keeps the turn and the lock.
LEMMA PostType ==
  ASSUME TypeOK, NEW r \in Requests, NEW s \in Ids, PostTo(r, s)
  PROVE  /\ pc' \in [Requests -> Step] /\ req' \in [Requests -> Local]
         /\ pc'[r] = "postUser" /\ req'[r].to = s /\ Alone(r)
         /\ req'[r].turn = req[r].turn /\ req'[r].under = req[r].under
<1> DEFINE l == [Fresh EXCEPT !.to = s, !.turn = req[r].turn, !.under = req[r].under]
<1>1. /\ pc' \in [Requests -> Step] /\ pc'[r] = "postUser"
      /\ \A q \in Requests \ {r} : pc'[q] = pc[q]
  BY GotoType DEF PostTo, Step
<1>2. s \in 0 .. MaxSessions
  BY ConstantsAssumption DEF Ids, TypeOK
<1>3. req[r] \in Local
  BY DEF TypeOK
<1>4. /\ l \in Local
      /\ l.to = s /\ l.turn = req[r].turn /\ l.under = req[r].under
  BY <1>2, <1>3, FreshLocal DEF Local, Fresh
<1>5. Set(r, l)
  BY DEF PostTo
<1> HIDE DEF l
<1>6. /\ req' \in [Requests -> Local] /\ req'[r] = l
      /\ \A q \in Requests \ {r} : req'[q] = req[q]
  BY <1>4, <1>5, SetType
<1> QED
  BY <1>1, <1>4, <1>6 DEF Alone

\* Writing a row back.
LEMMA UpdateType ==
  ASSUME TypeOK, NEW s \in Ids, NEW row \in Row, UpdateSession(s, row)
  PROVE  /\ rows' \in Seq(Row) /\ Len(rows') = Len(rows) /\ Ids' = Ids
         /\ latest' \in [Node -> 0 .. Len(rows')]
         /\ \A j \in Ids : rows'[j] = IF j = s THEN row ELSE rows[j]
<1>1. rows \in Seq(Row) /\ s \in 1 .. Len(rows) /\ rows' = [rows EXCEPT ![s] = row]
  BY DEF TypeOK, Ids, UpdateSession
<1>2. /\ rows' \in Seq(Row) /\ Len(rows') = Len(rows)
      /\ \A j \in 1 .. Len(rows) : rows'[j] = IF j = s THEN row ELSE rows[j]
  BY <1>1, ExceptSeq
<1>3. latest' \in [Node -> 0 .. Len(rows')]
  <2>1. latest' = [latest EXCEPT ![rows[s].node] = s]
    BY DEF UpdateSession, Touch
  <2>2. latest \in [Node -> 0 .. Len(rows')] /\ s \in 0 .. Len(rows')
    BY <1>1, <1>2 DEF TypeOK
  <2> QED
    BY <2>1, <2>2
<1> QED
  BY <1>2, <1>3 DEF Ids

\* A new row.
LEMMA CreateType ==
  ASSUME TypeOK, NEW row \in Row, CreateSession(row)
  PROVE  /\ rows' \in Seq(Row) /\ Len(rows') <= MaxSessions
         /\ Len(rows) + 1 \in Ids' /\ Len(rows) + 1 \notin Ids
         /\ Ids' = Ids \cup {Len(rows) + 1}
         /\ latest' \in [Node -> 0 .. Len(rows')]
         /\ Len(rows) + 1 \in Id
         /\ \A j \in Ids : rows'[j] = rows[j]
         /\ rows'[Len(rows) + 1] = row
<1>1. rows \in Seq(Row) /\ Len(rows) \in Nat /\ rows' = Append(rows, row)
  BY LenProperties DEF TypeOK, CreateSession
<1>2. /\ rows' \in Seq(Row) /\ Len(rows') = Len(rows) + 1
      /\ \A j \in 1 .. Len(rows) : rows'[j] = rows[j]
      /\ rows'[Len(rows) + 1] = row
  BY <1>1, AppendProperties
<1>3. Len(rows) + 1 \in 1 .. MaxSessions
  BY <1>1, ConstantsAssumption DEF CreateSession
<1>4. latest' \in [Node -> 0 .. Len(rows')]
  <2>1. latest' = [latest EXCEPT ![row.node] = Len(rows) + 1]
    BY DEF CreateSession
  <2>2. latest \in [Node -> 0 .. Len(rows)]
    BY DEF TypeOK
  <2>3. /\ \A k \in 0 .. Len(rows) : k \in 0 .. Len(rows')
        /\ Len(rows) + 1 \in 0 .. Len(rows')
    BY <1>1, <1>2
  <2>4. latest \in [Node -> 0 .. Len(rows')]
    BY <2>2, <2>3
  <2> QED
    BY <2>1, <2>3, <2>4
<1>5. Ids' = Ids \cup {Len(rows) + 1} /\ Len(rows) + 1 \notin Ids
  BY <1>1, <1>2 DEF Ids
<1>6. Len(rows') <= MaxSessions /\ Len(rows) + 1 \in Id
  BY <1>1, <1>2, <1>3, ConstantsAssumption DEF Id
<1> QED
  BY <1>2, <1>4, <1>5, <1>6 DEF Ids

\* The least open node behind n is an open node.
LEMMA NextIsNode ==
  ASSUME NEW n \in Node, After(n) # {}
  PROVE  NextUncompleted(n) \in Node /\ progress[NextUncompleted(n)] # "completed"
<1>1. After(n) \subseteq Nat
  BY ConstantsAssumption DEF After, Incomplete, Node
<1> DEFINE Less == {ss \in Nat \X Nat : ss[1] < ss[2]}
<1>2. IsWellFoundedOn(Less, Nat)
  BY NatLessThanWellFounded DEF OpToRel
<1> HIDE DEF Less
<1>6. PICK k \in After(n) : \A j \in After(n) : <<j, k>> \notin Less
  BY <1>1, <1>2, WFMin
<1>3. \A j \in After(n) : ~(j < k)
  BY <1>1, <1>6 DEF Less
<1>4. \A j \in After(n) : k <= j
  BY <1>1, <1>3
<1>5. NextUncompleted(n) \in After(n)
  BY <1>6, <1>4 DEF NextUncompleted
<1> QED
  BY <1>5 DEF After, Incomplete
-----------------------------------------------------------------------------
(* Steps that leave rows and progress alone.                               *)

LEMMA Quiet ==
  ASSUME TypeOK, LitCovers, NewUncredited, NEW r \in Requests,
         UNCHANGED <<rows, progress, hist>>,
         latest' \in [Node -> 0 .. Len(rows)], messages' \in [Id -> Seq(Message)],
         pc' \in [Requests -> Step], req' \in [Requests -> Local],
         lock' \in [Services \X Id -> BOOLEAN], Alone(r), Refs(r)'
  PROVE  StepOK(r)
<1>1. TypeOK'
  BY DEF TypeOK
<1>2. Grows
  BY DEF Grows, Ids
<1>3. LitCovers' /\ NewUncredited'
  BY DEF LitCovers, NewUncredited, Ids
<1> QED
  BY <1>1, <1>2, <1>3 DEF StepOK

\* A session that was found can be named.
LEMMA Found ==
  ASSUME TypeOK, NEW n \in Node, latest[n] # 0
  PROVE  latest[n] \in Ids
<1>1. rows \in Seq(Row) /\ Len(rows) \in Nat /\ latest[n] \in 0 .. Len(rows)
  BY LenProperties DEF TypeOK
<1> QED
  BY <1>1 DEF Ids

\* A row that is there is a row.
LEMMA RowThere ==
  ASSUME TypeOK, NEW s \in Ids
  PROVE  rows[s] \in Row /\ rows[s].node \in Node /\ s \in 0 .. MaxSessions /\ s \in Id
<1>1. rows \in Seq(Row) /\ Len(rows) \in Nat /\ s \in 1 .. Len(rows)
  BY LenProperties DEF TypeOK, Ids
<1>2. rows[s] \in Row
  BY <1>1, ElementOfSeq
<1>3. Len(rows) <= MaxSessions
  BY DEF TypeOK
<1> QED
  BY <1>1, <1>2, <1>3, ConstantsAssumption DEF Row, Id

\* A session is touched only if it is there.
LEMMA TouchType ==
  ASSUME TypeOK, NEW s \in Ids, Touch(s)
  PROVE  latest' \in [Node -> 0 .. Len(rows)]
<1>1. rows \in Seq(Row) /\ Len(rows) \in Nat
  BY LenProperties DEF TypeOK
<1>2. s \in 0 .. Len(rows) /\ latest \in [Node -> 0 .. Len(rows)]
  BY <1>1 DEF Ids, TypeOK
<1> QED
  BY <1>2 DEF Touch

\* A handler that returns has nothing to refer to any more.
LEMMA Returned ==
  ASSUME TypeOK, LitCovers, NewUncredited, NEW r \in Requests, Return(r),
         UNCHANGED <<rows, progress, hist>>,
         latest' \in [Node -> 0 .. Len(rows)], messages' \in [Id -> Seq(Message)]
  PROVE  StepOK(r)
<1>1. Refs(r)'
  BY ReturnType DEF Refs
<1> QED
  BY <1>1, ReturnType, Quiet

\* One that goes on to post refers to the session it posts to.
LEMMA Posted ==
  ASSUME TypeOK, LitCovers, NewUncredited, NEW r \in Requests, NEW s \in Ids,
         PostTo(r, s), UNCHANGED <<rows, progress, hist, lock>>,
         latest' \in [Node -> 0 .. Len(rows)], messages' \in [Id -> Seq(Message)]
  PROVE  StepOK(r)
<1>1. Ids' = Ids
  BY DEF Ids
<1>2. Refs(r)'
  BY <1>1, PostType DEF Refs
<1>3. lock' \in [Services \X Id -> BOOLEAN]
  BY DEF TypeOK
<1> QED
  BY <1>2, <1>3, PostType, Quiet

\* One that only goes on refers to what it did before.
LEMMA GoesOn ==
  ASSUME TypeOK, LitCovers, NewUncredited, NEW r \in Requests,
         NEW step \in Step, Goto(r, step), NEW l \in Local, Set(r, l),
         UNCHANGED <<rows, latest, progress, messages, lock, hist>>,
         step \in {"touch", "settle", "mark", "begin", "postUser", "postReply"}
           => l.to \in Ids,
         step \in {"confirm", "overwrite", "pick", "read", "think", "close"}
           => l.session \in Ids,
         step \in {"confirm", "overwrite", "think", "close"}
           => l.node = rows[l.session].node /\ l.snap.node = l.node,
         step # "settle",
         step \in {"createLit", "overwrite", "close"} => l.node \in hist.lit,
         step \in {"read", "think", "close"} => l.session = l.under /\ l.turn # 0
  PROVE  StepOK(r)
<1>1. pc' \in [Requests -> Step] /\ pc'[r] = step
  BY GotoType
<1>2. req' \in [Requests -> Local] /\ req'[r] = l
  BY SetType
<1>3. Alone(r)
  BY GotoType, SetType DEF Alone
<1>4. Refs(r)'
  BY <1>1, <1>2 DEF Refs, Ids
<1>5. /\ latest' \in [Node -> 0 .. Len(rows)] /\ messages' \in [Id -> Seq(Message)]
      /\ lock' \in [Services \X Id -> BOOLEAN]
  BY DEF TypeOK
<1> QED
  BY <1>1, <1>2, <1>3, <1>4, <1>5, Quiet

\* Keeping the locals is setting them to what they are.
LEMMA Keeps ==
  ASSUME TypeOK, NEW r \in Requests, UNCHANGED req
  PROVE  req[r] \in Local /\ Set(r, req[r])
  BY DEF TypeOK, Set

\* StartOrResumeSession, as far as it only reads.
LEMMA OpeningReads ==
  ASSUME Shape, NEW r \in Requests,
         \/ \E n \in Node : Open(r, n)
         \/ Lookup(r) \/ TouchSession(r) \/ CheckProgress(r) \/ BeginFails(r)
  PROVE  StepOK(r)
<1> USE DEF Shape
<1>0. req[r] \in Local /\ Refs(r)
  BY DEF TypeOK
<1>1. ASSUME NEW n \in Node, Open(r, n) PROVE StepOK(r)
  <2>1. [Fresh EXCEPT !.node = n] \in Local
    BY FreshLocal
  <2> QED
    BY <1>1, <2>1, GoesOn DEF Open, Step
<1>2. CASE Lookup(r)
  <2> DEFINE found == latest[req[r].node]
  <2>1. req[r].node \in Node
    BY <1>0 DEF Local
  <2>2. CASE found # 0 /\ req[r].turn # 0
    <3>1. found \in Ids
      BY <2>1, <2>2, Found
    <3>2. PostTo(r, found) /\ UNCHANGED <<rows, latest, progress, messages, lock, hist>>
      BY <1>2, <2>2 DEF Lookup
    <3>3. latest' \in [Node -> 0 .. Len(rows)] /\ messages' \in [Id -> Seq(Message)]
      BY <3>2 DEF TypeOK
    <3> QED
      BY <3>1, <3>2, <3>3, Posted
  <2>3. CASE found # 0 /\ req[r].turn = 0
    <3> DEFINE l == [Fresh EXCEPT !.to = found]
    <3>1. found \in Ids
      BY <2>1, <2>3, Found
    <3>2. found \in 0 .. MaxSessions
      BY <3>1, ConstantsAssumption DEF Ids, TypeOK
    <3>3. l \in Local /\ l.to \in Ids
      BY <3>1, <3>2, FreshLocal DEF Local, Fresh
    <3>4. Goto(r, "touch") /\ Set(r, l)
          /\ UNCHANGED <<rows, latest, progress, messages, lock, hist>>
      BY <1>2, <2>3 DEF Lookup
    <3> HIDE DEF l
    <3> QED
      BY <3>3, <3>4, GoesOn DEF Step
  <2>4. CASE found = 0
    <3>1. /\ UNCHANGED <<req, rows, latest, progress, messages, lock, hist>>
          /\ Goto(r, "check") \/ Goto(r, "create")
      BY <1>2, <2>4 DEF Lookup
    <3> QED
      BY <3>1, Keeps, GoesOn DEF Step
  <2> QED
    BY <2>2, <2>3, <2>4
<1>3. CASE TouchSession(r)
  <2>1. req[r].to \in Ids
    BY <1>0, <1>3 DEF TouchSession, At, Refs
  <2>2. latest' \in [Node -> 0 .. Len(rows)]
    BY <1>3, <2>1, TouchType DEF TouchSession
  <2>3. messages' \in [Id -> Seq(Message)]
    BY <1>3 DEF TouchSession, TypeOK
  <2> QED
    BY <1>3, <2>2, <2>3, Returned DEF TouchSession
<1>4. CASE CheckProgress(r)
  <2>1. CASE progress[req[r].node] = "completed"
    <3>1. req[r].node \in hist.lit
      BY <1>0, <2>1 DEF LitCovers, Local
    <3>2. Goto(r, "createLit")
          /\ UNCHANGED <<req, rows, latest, progress, messages, lock, hist>>
      BY <1>4, <2>1 DEF CheckProgress
    <3> QED
      BY <3>1, <3>2, Keeps, GoesOn DEF Step
  <2>2. CASE progress[req[r].node] # "completed"
    <3>1. Goto(r, "create")
          /\ UNCHANGED <<req, rows, latest, progress, messages, lock, hist>>
      BY <1>4, <2>2 DEF CheckProgress
    <3> QED
      BY <3>1, Keeps, GoesOn DEF Step
  <2> QED
    BY <2>1, <2>2
<1>5. CASE BeginFails(r)
  <2>1. latest' \in [Node -> 0 .. Len(rows)] /\ messages' \in [Id -> Seq(Message)]
    BY <1>5 DEF BeginFails, TypeOK
  <2> QED
    BY <1>5, <2>1, Returned DEF BeginFails
<1> QED
  BY <1>1, <1>2, <1>3, <1>4, <1>5

\* The opening message.
LEMMA BeginStep ==
  ASSUME Shape, NEW r \in Requests, Begin(r)
  PROVE  StepOK(r)
<1> USE DEF Shape
<1>1. req[r].to \in Ids
  BY DEF Begin, At, Refs
<1>2. latest' \in [Node -> 0 .. Len(rows)]
  BY <1>1, TouchType DEF Begin
<1>3. messages' \in [Id -> Seq(Message)]
  <2> DEFINE m == [turn |-> 0, role |-> "assistant", under |-> 0]
  <2>1. m \in Message
    BY ConstantsAssumption DEF Message
  <2>2. messages' = [messages EXCEPT ![req[r].to] = Append(@, m)]
    BY DEF Begin
  <2>3. \A x \in Id : Append(messages[x], m) \in Seq(Message)
    BY <2>1, AppendProperties DEF TypeOK
  <2> HIDE DEF m
  <2> QED
    BY <2>2, <2>3 DEF TypeOK
<1>4. CASE Return(r)
  BY <1>2, <1>3, <1>4, Returned DEF Begin
<1>5. CASE PostTo(r, req[r].to) /\ UNCHANGED lock
  BY <1>1, <1>2, <1>3, <1>5, Posted DEF Begin
<1> QED
  BY <1>4, <1>5 DEF Begin

\* StartNextNode, as far as it only reads.
LEMMA NextReads ==
  ASSUME Shape, NEW r \in Requests,
         \/ \E s \in Id : NextButton(r, s)
         \/ ConfirmLit(r) \/ PickNext(r)
  PROVE  StepOK(r)
<1> USE DEF Shape
<1>0. req[r] \in Local /\ Refs(r)
  BY DEF TypeOK
<1>1. ASSUME NEW s \in Id, NextButton(r, s) PROVE StepOK(r)
  <2> DEFINE l == [Fresh EXCEPT !.session = s, !.snap = rows[s], !.node = rows[s].node]
  <2>1. s \in Ids /\ rows[s] \in Row /\ rows[s].node \in Node
    <3>1. s \in Ids
      BY <1>1 DEF NextButton
    <3> QED
      BY <3>1, RowThere
  <2>2. s \in 0 .. MaxSessions
    BY ConstantsAssumption DEF Id
  <2>3. /\ l \in Local /\ l.session = s /\ l.node = rows[s].node
        /\ l.snap.node = rows[s].node
    BY <2>1, <2>2, FreshLocal DEF Local, Fresh
  <2>4. /\ Goto(r, "pick") \/ Goto(r, "confirm")
        /\ Set(r, l) /\ UNCHANGED <<rows, latest, progress, messages, lock, hist>>
    BY <1>1 DEF NextButton
  <2> HIDE DEF l
  <2> QED
    BY <2>1, <2>3, <2>4, GoesOn DEF Step
<1>2. CASE ConfirmLit(r)
  <2>1. CASE progress[req[r].node] = "completed"
    <3>1. req[r].node \in hist.lit
      BY <1>0, <2>1 DEF LitCovers, Local
    <3>2. Goto(r, "overwrite")
          /\ UNCHANGED <<req, rows, latest, progress, messages, lock, hist>>
      BY <1>2, <2>1 DEF ConfirmLit
    <3>3. /\ req[r].session \in Ids /\ req[r].node = rows[req[r].session].node
          /\ req[r].snap.node = req[r].node
      BY <1>0, <1>2 DEF ConfirmLit, At, Refs
    <3> QED
      BY <3>1, <3>2, <3>3, Keeps, GoesOn DEF Step
  <2>2. CASE progress[req[r].node] # "completed"
    <3>1. Return(r) /\ UNCHANGED <<rows, latest, progress, messages, hist>>
      BY <1>2, <2>2 DEF ConfirmLit
    <3>2. latest' \in [Node -> 0 .. Len(rows)] /\ messages' \in [Id -> Seq(Message)]
      BY <3>1 DEF TypeOK
    <3> QED
      BY <3>1, <3>2, Returned
  <2> QED
    BY <2>1, <2>2
<1>3. CASE PickNext(r)
  <2>0. /\ req[r].session \in Ids /\ req[r].node \in Node
        /\ UNCHANGED <<rows, latest, progress, messages, hist>>
        /\ latest' \in [Node -> 0 .. Len(rows)] /\ messages' \in [Id -> Seq(Message)]
    BY <1>0, <1>3 DEF PickNext, At, Refs, Local, TypeOK
  <2>1. CASE ~AllDone(r)
    <3> DEFINE l == [req[r] EXCEPT !.node = NextUncompleted(@), !.snap = NoRow]
    <3>1. NextUncompleted(req[r].node) \in Node
      BY <1>3, <2>0, <2>1, NextIsNode DEF PickNext, AllDone
    <3>2. l \in Local
      BY <1>0, <3>1, FreshLocal DEF Local
    <3>3. Set(r, l) /\ Goto(r, "lookup") /\ UNCHANGED lock
      BY <1>3, <2>1 DEF PickNext
    <3> HIDE DEF l
    <3> QED
      BY <2>0, <3>2, <3>3, GoesOn DEF Step
  <2>2. CASE Return(r)
    BY <2>0, <2>2, Returned
  <2>3. CASE PostTo(r, req[r].session) /\ UNCHANGED lock
    BY <2>0, <2>3, Posted
  <2> QED
    BY <1>3, <2>1, <2>2, <2>3 DEF PickNext
<1> QED
  BY <1>1, <1>2, <1>3

\* sendCoachMessage, as far as it does not write the row.
LEMMA MessageReads ==
  ASSUME Shape, NEW r \in Requests,
         GetSession(r) \/ Answer(r) \/ Fail(r) \/ SayNext(r)
  PROVE  StepOK(r)
<1> USE DEF Shape
<1>0. /\ req[r] \in Local /\ Refs(r)
      /\ latest \in [Node -> 0 .. Len(rows)] /\ messages \in [Id -> Seq(Message)]
  BY DEF TypeOK
<1>1. CASE GetSession(r)
  <2> DEFINE row == rows[req[r].session]
             l == [req[r] EXCEPT !.snap = row, !.node = row.node]
  <2>1. /\ req[r].session \in Ids
        /\ req[r].session = req[r].under /\ req[r].turn # 0
    BY <1>0, <1>1 DEF GetSession, At, Refs
  <2>2. row \in Row /\ row.node \in Node
    BY <2>1, RowThere
  <2>3. /\ l \in Local /\ l.session = req[r].session /\ l.under = req[r].under
        /\ l.turn = req[r].turn /\ l.node = row.node /\ l.snap.node = row.node
    BY <1>0, <2>2 DEF Local
  <2>4. /\ Goto(r, "think") /\ Set(r, l)
        /\ UNCHANGED <<rows, latest, progress, messages, lock, hist>>
    BY <1>1 DEF GetSession
  <2> HIDE DEF l
  <2> QED
    BY <2>1, <2>3, <2>4, GoesOn DEF Step
<1>2. CASE Answer(r)
  <2>1. req[r].session \in Ids
    BY <1>0, <1>2 DEF Answer, At, Refs
  <2> QED
    BY <1>0, <1>2, <2>1, Posted DEF Answer
<1>3. CASE Fail(r)
  BY <1>0, <1>3, Returned DEF Fail
<1>4. CASE SayNext(r)
  <2>1. req[r].session \in Ids
    BY <1>0, <1>4 DEF SayNext, At, Refs
  <2> QED
    BY <1>4, <2>1, Keeps, GoesOn DEF SayNext, Step
<1> QED
  BY <1>1, <1>2, <1>3, <1>4

\* Posting the two messages of a turn.
LEMMA PostSteps ==
  ASSUME Shape, NEW r \in Requests, PostUser(r) \/ PostReply(r)
  PROVE  StepOK(r)
<1> USE DEF Shape
<1>0. req[r] \in Local /\ req[r].to \in Ids
  BY DEF PostUser, PostReply, At, Refs, TypeOK
<1>1. ASSUME NEW role \in {"user", "assistant"}, AddMessage(req[r].to, role, r)
      PROVE  latest' \in [Node -> 0 .. Len(rows)] /\ messages' \in [Id -> Seq(Message)]
  <2> DEFINE m == [turn |-> req[r].turn, role |-> role, under |-> req[r].under]
  <2>1. m \in Message
    BY <1>0 DEF Message, Local
  <2>2. messages' = [messages EXCEPT ![req[r].to] = Append(@, m)]
    BY <1>1 DEF AddMessage
  <2>3. \A x \in Id : Append(messages[x], m) \in Seq(Message)
    BY <2>1, AppendProperties DEF TypeOK
  <2>4. latest' \in [Node -> 0 .. Len(rows)]
    BY <1>0, <1>1, TouchType DEF AddMessage
  <2> HIDE DEF m
  <2> QED
    BY <2>2, <2>3, <2>4 DEF TypeOK
<1>2. CASE PostUser(r)
  <2>1. latest' \in [Node -> 0 .. Len(rows)] /\ messages' \in [Id -> Seq(Message)]
    BY <1>1, <1>2 DEF PostUser
  <2>2. Goto(r, "postReply") /\ UNCHANGED <<req, rows, progress, lock, hist>>
    BY <1>2 DEF PostUser
  <2>3. /\ pc' \in [Requests -> Step] /\ pc'[r] = "postReply"
        /\ \A q \in Requests \ {r} : pc'[q] = pc[q]
    BY <2>2, GotoType DEF Step
  <2>4. Alone(r) /\ Refs(r)'
    BY <1>0, <2>2, <2>3 DEF Alone, Refs, Ids
  <2>5. req' \in [Requests -> Local] /\ lock' \in [Services \X Id -> BOOLEAN]
    BY <2>2 DEF TypeOK
  <2> QED
    BY <2>1, <2>2, <2>3, <2>4, <2>5, Quiet
<1>3. CASE PostReply(r)
  BY <1>1, <1>3, Returned DEF PostReply
<1> QED
  BY <1>2, <1>3

\* A message taken in: the session is there and free.
LEMMA SayStep ==
  ASSUME Shape, NEW r \in Requests, NEW s \in Id, Say(r, s)
  PROVE  /\ StepOK(r) /\ req'[r].under = s /\ pc'[r] = "read"
         /\ UNCHANGED <<rows, progress, hist.lit, hist.earned>>
         /\ lock' = [lock EXCEPT ![LockOf(r, s)] = TRUE]
<1> USE DEF Shape
<1> DEFINE turn == hist.turns + 1
           l == [Fresh EXCEPT !.session = s, !.turn = turn, !.under = s]
<1>1. /\ hist.turns \in 0 .. MaxTurns /\ hist.turns < MaxTurns /\ s \in Ids
      /\ Set(r, l) /\ Goto(r, "read") /\ hist' = [hist EXCEPT !.turns = turn]
      /\ lock' = [lock EXCEPT ![LockOf(r, s)] = TRUE]
      /\ UNCHANGED <<rows, latest, progress, messages>>
  BY DEF Say, TypeOK, History
<1>2. turn \in 0 .. MaxTurns /\ turn # 0 /\ s \in 0 .. MaxSessions
  BY <1>1, ConstantsAssumption DEF Id
<1> HIDE DEF turn
<1>3. l \in Local /\ l.session = s /\ l.turn = turn /\ l.under = s /\ turn # 0
  BY <1>2, FreshLocal DEF Local, Fresh
<1>4. hist' \in History /\ hist'.lit = hist.lit /\ hist'.earned = hist.earned
  BY <1>1, <1>2 DEF TypeOK, History
<1> HIDE DEF l
<1>5. /\ pc' \in [Requests -> Step] /\ pc'[r] = "read"
      /\ \A q \in Requests \ {r} : pc'[q] = pc[q]
  BY <1>1, GotoType DEF Step
<1>6. /\ req' \in [Requests -> Local] /\ req'[r] = l
      /\ \A q \in Requests \ {r} : req'[q] = req[q]
  BY <1>1, <1>3, SetType
<1>7. lock' \in [Services \X Id -> BOOLEAN]
  BY <1>1 DEF TypeOK
<1>8. TypeOK'
  BY <1>1, <1>4, <1>5, <1>6, <1>7 DEF TypeOK
<1>9. Alone(r) /\ Grows
  BY <1>1, <1>4, <1>5, <1>6 DEF Alone, Grows, Ids
<1>10. Refs(r)'
  BY <1>1, <1>3, <1>5, <1>6 DEF Refs, Ids
<1>11. LitCovers' /\ NewUncredited'
  BY <1>1, <1>4 DEF LitCovers, NewUncredited, Ids
<1> QED
  BY <1>1, <1>3, <1>4, <1>5, <1>6, <1>8, <1>9, <1>10, <1>11 DEF StepOK
-----------------------------------------------------------------------------
(* Steps that write rows or progress.                                      *)

LEMMA Created ==
  ASSUME TypeOK, LitCovers, NewUncredited, NEW r \in Requests,
         NEW row \in Row, CreateSession(row),
         NEW step \in Step, Goto(r, step), NEW l \in Local, Set(r, l),
         UNCHANGED <<progress, messages, lock, hist>>, Refs(r)'
  PROVE  StepOK(r)
<1>1. TypeOK'
  BY CreateType, GotoType, SetType DEF TypeOK
<1>2. Alone(r)
  BY GotoType, SetType DEF Alone
<1>3. Grows
  BY CreateType DEF Grows
<1>4. LitCovers' /\ NewUncredited'
  BY CreateType DEF LitCovers, NewUncredited
<1> QED
  BY <1>1, <1>2, <1>3, <1>4 DEF StepOK

LEMMA Updated ==
  ASSUME TypeOK, LitCovers, NewUncredited, NEW r \in Requests,
         NEW s \in Ids, NEW row \in Row, row.node = rows[s].node, UpdateSession(s, row),
         UNCHANGED <<progress, messages>>, hist' \in History, hist'.lit = hist.lit,
         \A j \in Id \ Ids : hist'.earned[j] = hist.earned[j],
         pc' \in [Requests -> Step], req' \in [Requests -> Local],
         lock' \in [Services \X Id -> BOOLEAN], Alone(r), Refs(r)'
  PROVE  StepOK(r)
<1>1. TypeOK'
  BY UpdateType DEF TypeOK
<1>2. Grows
  BY UpdateType DEF Grows
<1>3. LitCovers' /\ NewUncredited'
  BY UpdateType DEF LitCovers, NewUncredited
<1> QED
  BY <1>1, <1>2, <1>3 DEF StepOK

\* A session for a node that is lit, and for one that is not.
LEMMA CreateSteps ==
  ASSUME Shape, NEW r \in Requests, CreateCompleted(r) \/ Create(r)
  PROVE  StepOK(r)
<1> USE DEF Shape
<1>0. /\ req[r] \in Local /\ req[r].node \in Node /\ Refs(r)
      /\ Len(rows) + 1 \in 0 .. MaxSessions
  <2>1. CreateSession([NoRow EXCEPT !.node = req[r].node])
        \/ CreateSession([NoRow EXCEPT !.node = req[r].node, !.phase = "completed"])
    BY DEF CreateCompleted, Create
  <2>2. Len(rows) < MaxSessions /\ Len(rows) \in Nat
    BY <2>1, LenProperties DEF CreateSession, TypeOK
  <2> QED
    BY <2>2, ConstantsAssumption DEF TypeOK, Local
<1>1. CASE CreateCompleted(r)
  <2> DEFINE row == [NoRow EXCEPT !.node = req[r].node, !.phase = "completed"]
             l == [req[r] EXCEPT !.to = Len(rows) + 1, !.snap = row]
  <2>1. row \in Row /\ row.node = req[r].node
    BY <1>0, FreshLocal DEF Row, NoRow
  <2>2. CreateSession(row) /\ Goto(r, "settle") /\ Set(r, l)
        /\ UNCHANGED <<progress, messages, lock, hist>>
    BY <1>1 DEF CreateCompleted
  <2>3. req[r].node \in hist.lit
    BY <1>0, <1>1 DEF CreateCompleted, At, Refs
  <2>4. /\ l \in Local /\ l.to = Len(rows) + 1 /\ l.snap = row
        /\ l.node = req[r].node /\ l.under = req[r].under
    BY <1>0, <2>1 DEF Local
  <2> HIDE DEF row, l
  <2>5. pc'[r] = "settle" /\ req'[r] = l
    BY <2>2, <2>4, GotoType, SetType DEF Step
  <2>6. l.to \in Ids' /\ rows'[l.to] = row
    BY <2>1, <2>2, <2>4, CreateType
  <2>7. Refs(r)'
    BY <2>1, <2>2, <2>3, <2>4, <2>5, <2>6 DEF Refs
  <2> QED
    BY <2>1, <2>2, <2>4, <2>7, Created DEF Step
<1>2. CASE Create(r)
  <2> DEFINE row == [NoRow EXCEPT !.node = req[r].node]
             l == [req[r] EXCEPT !.to = Len(rows) + 1]
  <2>1. row \in Row
    BY <1>0, FreshLocal DEF Row, NoRow
  <2>2. CreateSession(row) /\ Goto(r, "mark") /\ Set(r, l)
        /\ UNCHANGED <<progress, messages, lock, hist>>
    BY <1>2 DEF Create
  <2>4. l \in Local /\ l.to = Len(rows) + 1
    BY <1>0 DEF Local
  <2> HIDE DEF row, l
  <2>5. pc'[r] = "mark" /\ req'[r] = l
    BY <2>2, <2>4, GotoType, SetType DEF Step
  <2>6. l.to \in Ids'
    BY <2>1, <2>2, <2>4, CreateType
  <2>7. Refs(r)'
    BY <2>5, <2>6 DEF Refs
  <2> QED
    BY <2>1, <2>2, <2>4, <2>7, Created DEF Step
<1> QED
  BY <1>1, <1>2

\* Writing progress: an opening marks the node, the coach lights it.
LEMMA ProgressSteps ==
  ASSUME Shape, NEW r \in Requests, MarkInProgress(r) \/ LightNode(r)
  PROVE  StepOK(r)
<1> USE DEF Shape
<1>0. /\ req[r] \in Local /\ req[r].node \in Node /\ Refs(r)
      /\ UNCHANGED <<rows, latest, messages, lock, req>>
  BY DEF TypeOK, Local, MarkInProgress, LightNode
<1>1. CASE MarkInProgress(r)
  <2>1. /\ Goto(r, "begin") /\ UNCHANGED hist /\ req[r].to \in Ids
        /\ progress' = [progress EXCEPT ![req[r].node] = "in_progress"]
    BY <1>0, <1>1 DEF MarkInProgress, At, Refs
  <2>2. /\ pc' \in [Requests -> Step] /\ pc'[r] = "begin"
        /\ \A q \in Requests \ {r} : pc'[q] = pc[q]
    BY <2>1, GotoType DEF Step
  <2>3. TypeOK'
    BY <1>0, <2>1, <2>2 DEF TypeOK
  <2>4. Alone(r) /\ Grows /\ Refs(r)'
    BY <1>0, <2>1, <2>2 DEF Alone, Grows, Refs, Ids
  <2>5. LitCovers' /\ NewUncredited'
    BY <1>0, <2>1 DEF LitCovers, NewUncredited, Ids, TypeOK
  <2> QED
    BY <2>3, <2>4, <2>5 DEF StepOK
<1>2. CASE LightNode(r)
  <2>1. /\ Goto(r, "close") /\ pc[r] = "think"
        /\ hist' = [hist EXCEPT !.lit = @ \cup {req[r].node}]
        /\ progress' = [progress EXCEPT ![req[r].node] = "completed"]
    BY <1>2 DEF LightNode, At
  <2>2. /\ pc' \in [Requests -> Step] /\ pc'[r] = "close"
        /\ \A q \in Requests \ {r} : pc'[q] = pc[q]
    BY <2>1, GotoType DEF Step
  <2>3. /\ hist' \in History /\ hist'.lit = hist.lit \cup {req[r].node}
        /\ hist'.earned = hist.earned
    BY <1>0, <2>1 DEF TypeOK, History
  <2>4. TypeOK'
    BY <1>0, <2>1, <2>2, <2>3 DEF TypeOK
  <2>5. Alone(r) /\ Grows
    BY <1>0, <2>2, <2>3 DEF Alone, Grows, Ids
  <2>6. Refs(r)'
    BY <1>0, <2>1, <2>2, <2>3 DEF Refs, Ids
  <2>7. LitCovers' /\ NewUncredited'
    BY <1>0, <2>1, <2>3 DEF LitCovers, NewUncredited, Ids, TypeOK
  <2> QED
    BY <2>4, <2>5, <2>6, <2>7 DEF StepOK
<1> QED
  BY <1>1, <1>2

\* The writes from copies that were read before: the settled row of a lit
\* node, and the row that the button closes.
LEMMA RewriteSteps ==
  ASSUME Shape, NEW r \in Requests, SettleCompleted(r) \/ Overwrite(r)
  PROVE  StepOK(r)
<1> USE DEF Shape
<1>0. req[r] \in Local /\ Refs(r) /\ UNCHANGED <<progress, messages, hist>>
  BY DEF TypeOK, SettleCompleted, Overwrite
<1>1. CASE SettleCompleted(r)
  <2>1. /\ UpdateSession(req[r].to, req[r].snap) /\ Return(r) /\ req[r].to \in Ids
        /\ req[r].snap.node = rows[req[r].to].node /\ req[r].snap \in Row
    BY <1>0, <1>1 DEF SettleCompleted, At, Refs, Local
  <2>2. Refs(r)'
    BY <2>1, ReturnType DEF Refs
  <2>3. hist' \in History
    BY <1>0 DEF TypeOK
  <2> QED
    BY <1>0, <2>1, <2>2, <2>3, ReturnType, Updated
<1>2. CASE Overwrite(r)
  <2> DEFINE row == [req[r].snap EXCEPT !.phase = "completed"]
  <2>1. /\ req[r].session \in Ids /\ req[r].snap.node = rows[req[r].session].node
        /\ UpdateSession(req[r].session, row) /\ Goto(r, "pick")
        /\ UNCHANGED <<lock, req>>
    BY <1>0, <1>2 DEF Overwrite, At, Refs
  <2>2. row \in Row /\ row.node = rows[req[r].session].node
    BY <1>0, <2>1 DEF Local, Row
  <2> HIDE DEF row
  <2>3. /\ pc' \in [Requests -> Step] /\ pc'[r] = "pick"
        /\ \A q \in Requests \ {r} : pc'[q] = pc[q]
    BY <2>1, GotoType DEF Step
  <2>4. /\ hist' \in History /\ req' \in [Requests -> Local]
        /\ lock' \in [Services \X Id -> BOOLEAN]
    BY <1>0, <2>1 DEF TypeOK
  <2>5. Ids' = Ids
    BY <2>1, <2>2, UpdateType
  <2>6. Alone(r) /\ Refs(r)'
    BY <2>1, <2>3, <2>5 DEF Alone, Refs
  <2> QED
    BY <1>0, <2>1, <2>2, <2>3, <2>4, <2>6, Updated
<1> QED
  BY <1>1, <1>2

\* The coach's writes of the row, from the copy read under the lock.
LEMMA CoachSteps ==
  ASSUME Shape, NEW r \in Requests, StoreRow(r) \/ CloseSession(r)
  PROVE  /\ StepOK(r) /\ Credit(r) /\ req[r].session \in Ids
         /\ \E row \in Row : /\ UpdateSession(req[r].session, row)
                             /\ row.earned = Credited(r)
         /\ UNCHANGED lock /\ req'[r].under = req[r].under /\ pc'[r] = "postUser"
         /\ hist'.lit = hist.lit /\ req[r].turn \in Turn
         /\ hist'.earned = [hist.earned EXCEPT ![req[r].session] = @ \cup {req[r].turn}]
<1> USE DEF Shape
<1>0. /\ req[r] \in Local /\ Refs(r) /\ UNCHANGED <<progress, messages, lock>>
      /\ Credit(r) /\ PostTo(r, req[r].session)
  BY DEF TypeOK, StoreRow, CloseSession
<1>1. /\ req[r].session \in Ids /\ req[r].turn # 0
      /\ req[r].snap.node = rows[req[r].session].node
  BY <1>0 DEF StoreRow, CloseSession, At, Refs
<1>2. req[r].turn \in Turn /\ req[r].session \in Id /\ req[r].snap \in Row
  BY <1>0, <1>1, RowThere, ConstantsAssumption DEF Turn, Local
<1>3. Credited(r) \subseteq Turn
  BY <1>2 DEF Credited, Row
<1>4. PICK ph \in {"learning", "completed"} :
        UpdateSession(req[r].session,
          [req[r].snap EXCEPT !.phase = ph, !.earned = Credited(r)])
  BY DEF StoreRow, CloseSession
<1> DEFINE row == [req[r].snap EXCEPT !.phase = ph, !.earned = Credited(r)]
<1>5. row \in Row /\ row.node = rows[req[r].session].node /\ row.earned = Credited(r)
  BY <1>1, <1>2, <1>3 DEF Row
<1>6. UpdateSession(req[r].session, row)
  BY <1>4
<1> HIDE DEF row
<1>7. /\ hist' \in History /\ hist'.lit = hist.lit
      /\ hist'.earned = [hist.earned EXCEPT ![req[r].session] = @ \cup {req[r].turn}]
  BY <1>0, <1>2 DEF Credit, TypeOK, History
<1>8. \A j \in Id \ Ids : hist'.earned[j] = hist.earned[j]
  BY <1>1, <1>2, <1>7 DEF TypeOK, History
<1>9. Ids' = Ids
  BY <1>1, <1>5, <1>6, UpdateType
<1>10. Refs(r)'
  BY <1>0, <1>1, <1>9, PostType DEF Refs
<1>11. lock' \in [Services \X Id -> BOOLEAN]
  BY <1>0 DEF TypeOK
<1>12. StepOK(r)
  BY <1>0, <1>1, <1>5, <1>6, <1>7, <1>8, <1>10, <1>11, PostType, Updated
<1> QED
  BY <1>0, <1>1, <1>2, <1>5, <1>6, <1>7, <1>12, PostType
-----------------------------------------------------------------------------
(* Types.                                                                  *)

\* Every step of a request.
LEMMA EveryStep ==
  ASSUME Shape, NEW r \in Requests, Start(r) \/ Proceed(r)
  PROVE  StepOK(r)
  BY OpeningReads, BeginStep, NextReads, MessageReads, PostSteps, SayStep,
     CreateSteps, ProgressSteps, RewriteSteps, CoachSteps DEF Start, Proceed

\* What the other requests refer to stays true.
LEMMA OthersRefs ==
  ASSUME Shape, NEW r \in Requests, StepOK(r), NEW q \in Requests \ {r}
  PROVE  Refs(q)'
<1>1. /\ pc'[q] = pc[q] /\ req'[q] = req[q] /\ Refs(q)
      /\ Ids \subseteq Ids' /\ hist.lit \subseteq hist'.lit
      /\ \A s \in Ids : rows'[s].node = rows[s].node
  BY DEF StepOK, Shape, Alone, Grows
<1> QED
  BY <1>1 DEF Refs

LEMMA ShapeStep == Shape /\ [Next]_vars => Shape'
<1> SUFFICES ASSUME Shape, [Next]_vars PROVE Shape'
  OBVIOUS
<1>1. ASSUME NEW r \in Requests, Start(r) \/ Proceed(r) PROVE Shape'
  <2>1. StepOK(r)
    BY <1>1, EveryStep
  <2>2. \A q \in Requests : Refs(q)'
    BY <2>1, OthersRefs DEF StepOK
  <2> QED
    BY <2>1, <2>2 DEF StepOK, Shape
<1>2. CASE UNCHANGED vars
  BY <1>2 DEF vars, Shape, TypeOK, LitCovers, NewUncredited, Refs, Ids
<1> QED
  BY <1>1, <1>2 DEF Next

LEMMA InitShape == Init => Shape
<1> SUFFICES ASSUME Init PROVE Shape
  OBVIOUS
<1>1. Len(rows) = 0 /\ rows \in Seq(Row) /\ \A s \in Id : messages[s] \in Seq(Message)
  BY EmptySeq DEF Init
<1>2. hist \in History
  BY ConstantsAssumption DEF Init, History, Incomplete
<1>3. TypeOK
  BY <1>1, <1>2, FreshLocal, ConstantsAssumption DEF Init, TypeOK, Step, Id
<1>4. LitCovers /\ NewUncredited
  BY DEF Init, LitCovers, NewUncredited, Incomplete
<1>5. \A q \in Requests : Refs(q)
  BY DEF Init, Refs
<1> QED
  BY <1>3, <1>4, <1>5 DEF Shape

\* Tables and locals keep their shape, and whatever a request refers to is
\* there, however many requests and services there are.
THEOREM SessionTyped == Spec => []TypeOK
<1>1. Shape => TypeOK
  BY DEF Shape
<1> QED
  BY <1>1, InitShape, ShapeStep, PTL DEF Spec
-----------------------------------------------------------------------------
(* What one lock table gives.                                              *)

OneService == \A q1, q2 \in Requests : ServiceOf[q1] = ServiceOf[q2]

Holds(q) == req[q].under # 0 => lock[LockOf(q, req[q].under)]

\* A handler that will write the row back has all the credit of the row.
SnapTrue(q) ==
  pc[q] \in {"think", "close"} =>
    \/ req[q].snap.earned = rows[req[q].session].earned
    \/ req[q].node \in hist.lit

TakesTurns == OneEntryAtATime /\ \A q \in Requests : Holds(q)
CreditInv == EarnedKept /\ \A q \in Requests : SnapTrue(q)

\* A step credits nothing, and costs a row its credit only if its node is lit.
NoCredit(r) ==
  /\ hist'.earned = hist.earned
  /\ \A s \in Ids' :
       \/ s \in Ids /\ (rows'[s].earned = rows[s].earned \/ rows[s].node \in hist.lit)
       \/ s \in Id \ Ids /\ rows'[s].earned = {}
  /\ SnapTrue(r)'

\* Nothing but taking a message in takes a lock.
LockCase(r) ==
  \/ UNCHANGED lock /\ req'[r].under \in {0, req[r].under}
  \/ Return(r)
  \/ \E s \in Id : Say(r, s)

LEMMA LockCases ==
  ASSUME Shape, NEW r \in Requests, Start(r) \/ Proceed(r)
  PROVE  LockCase(r)
<1>0. TypeOK /\ req[r] \in Local
  BY DEF Shape, TypeOK
<1>1. ASSUME NEW n \in Node, Open(r, n) PROVE LockCase(r)
  BY <1>0, <1>1 DEF Open, Set, Fresh, LockCase, TypeOK
<1>2. ASSUME NEW s \in Id, NextButton(r, s) PROVE LockCase(r)
  BY <1>0, <1>2 DEF NextButton, Set, Fresh, LockCase, TypeOK
<1>3. ASSUME NEW s \in Id, Say(r, s) PROVE LockCase(r)
  BY <1>3 DEF LockCase
<1>4. CASE \/ CheckProgress(r) \/ MarkInProgress(r) \/ Overwrite(r)
           \/ LightNode(r) \/ SayNext(r) \/ PostUser(r)
  BY <1>4 DEF CheckProgress, MarkInProgress, Overwrite, LightNode, SayNext,
              PostUser, LockCase
<1>5. CASE TouchSession(r) \/ SettleCompleted(r) \/ BeginFails(r) \/ Fail(r) \/ PostReply(r)
  BY <1>5 DEF TouchSession, SettleCompleted, BeginFails, Fail, PostReply, LockCase
<1>6. CASE CreateCompleted(r) \/ Create(r) \/ GetSession(r)
  <2>1. UNCHANGED lock
    BY <1>6 DEF CreateCompleted, Create, GetSession
  <2>2. ASSUME NEW l, Set(r, l), l.under = req[r].under
        PROVE  req'[r].under = req[r].under
    BY <1>0, <2>2 DEF Set, TypeOK
  <2>3. CASE CreateCompleted(r)
    <3>1. PICK id, row : Set(r, [req[r] EXCEPT !.to = id, !.snap = row])
      BY <2>3 DEF CreateCompleted
    <3>2. [req[r] EXCEPT !.to = id, !.snap = row].under = req[r].under
      BY <1>0 DEF Local
    <3> QED
      BY <2>1, <2>2, <3>1, <3>2 DEF LockCase
  <2>4. CASE Create(r)
    <3>1. [req[r] EXCEPT !.to = Len(rows) + 1].under = req[r].under
      BY <1>0 DEF Local
    <3> QED
      BY <2>1, <2>2, <2>4, <3>1 DEF Create, LockCase
  <2>5. CASE GetSession(r)
    <3>1. PICK row : Set(r, [req[r] EXCEPT !.snap = row, !.node = row.node])
      BY <2>5 DEF GetSession
    <3>2. [req[r] EXCEPT !.snap = row, !.node = row.node].under = req[r].under
      BY <1>0 DEF Local
    <3> QED
      BY <2>1, <2>2, <3>1, <3>2 DEF LockCase
  <2> QED
    BY <1>6, <2>3, <2>4, <2>5
<1>7. ASSUME NEW s, PostTo(r, s), UNCHANGED lock PROVE LockCase(r)
  BY <1>0, <1>7 DEF PostTo, Set, Fresh, LockCase, TypeOK
<1>8. CASE Answer(r) \/ StoreRow(r) \/ CloseSession(r) \/ Begin(r)
  BY <1>7, <1>8 DEF Answer, StoreRow, CloseSession, Begin, LockCase
<1>9. CASE Lookup(r)
  <2>1. CASE UNCHANGED req
    BY <1>9, <2>1 DEF Lookup, LockCase
  <2>2. CASE Set(r, [Fresh EXCEPT !.to = latest[req[r].node]])
    BY <1>0, <1>9, <2>2 DEF Lookup, Set, Fresh, LockCase, TypeOK
  <2>3. CASE PostTo(r, latest[req[r].node])
    BY <1>7, <1>9, <2>3 DEF Lookup
  <2> QED
    BY <1>9, <2>1, <2>2, <2>3 DEF Lookup
<1>10. CASE ConfirmLit(r)
  BY <1>10 DEF ConfirmLit, LockCase
<1>11. CASE PickNext(r)
  <2>1. CASE Set(r, [req[r] EXCEPT !.node = NextUncompleted(@), !.snap = NoRow])
             /\ UNCHANGED lock
    BY <1>0, <2>1 DEF Set, LockCase, TypeOK, Local
  <2> QED
    BY <1>7, <1>11, <2>1 DEF PickNext, LockCase
<1> QED
  BY <1>1, <1>2, <1>3, <1>4, <1>5, <1>6, <1>8, <1>9, <1>10, <1>11 DEF Start, Proceed

LEMMA TurnsStep ==
  ASSUME OneService, Shape, TakesTurns, NEW r \in Requests, Start(r) \/ Proceed(r)
  PROVE  TakesTurns'
<1>0. /\ TypeOK /\ OneEntryAtATime /\ LockCase(r) /\ StepOK(r)
      /\ \A q \in Requests : Holds(q) /\ req[q] \in Local
  BY LockCases, EveryStep DEF Shape, TakesTurns, TypeOK
<1>1. \A q \in Requests \ {r} : req'[q] = req[q]
  BY <1>0 DEF StepOK, Alone
<1>2. CASE UNCHANGED lock /\ req'[r].under \in {0, req[r].under}
  <2>1. OneEntryAtATime'
    BY <1>0, <1>1, <1>2 DEF OneEntryAtATime
  <2>2. \A q \in Requests : Holds(q)'
    BY <1>0, <1>1, <1>2 DEF Holds, LockOf
  <2> QED
    BY <2>1, <2>2 DEF TakesTurns
<1>3. CASE Return(r)
  <2>1. req'[r].under = 0
    BY <1>0, <1>3, ReturnType DEF Fresh
  <2>2. OneEntryAtATime'
    BY <1>0, <1>1, <2>1 DEF OneEntryAtATime
  <2>3. ASSUME NEW q \in Requests, req'[q].under # 0
        PROVE  lock'[LockOf(q, req'[q].under)]
    <3>1. q # r /\ req'[q] = req[q]
      BY <1>1, <2>1, <2>3
    <3>2. lock[LockOf(q, req[q].under)] /\ req[q].under # req[r].under
      BY <1>0, <2>3, <3>1 DEF Holds, OneEntryAtATime
    <3>3. LockOf(q, req[q].under) # LockOf(r, req[r].under)
      BY <3>2 DEF LockOf
    <3>4. \/ lock' = lock
          \/ lock' = [lock EXCEPT ![LockOf(r, req[r].under)] = FALSE]
      BY <1>3 DEF Return
    <3>5. LockOf(q, req[q].under) \in Services \X Id
      BY <1>0, <2>3, <3>1, ConstantsAssumption DEF LockOf, Local, Id
    <3> QED
      BY <1>0, <3>1, <3>2, <3>3, <3>4, <3>5 DEF TypeOK
  <2>4. \A q \in Requests : Holds(q)'
    BY <2>3 DEF Holds, LockOf
  <2> QED
    BY <2>2, <2>4 DEF TakesTurns
<1>4. ASSUME NEW s \in Id, Say(r, s) PROVE TakesTurns'
  <2>1. req'[r].under = s /\ lock' = [lock EXCEPT ![LockOf(r, s)] = TRUE]
    BY <1>4, SayStep
  <2>2. ~lock[LockOf(r, s)]
    BY <1>4 DEF Say, TryLock
  <2>3. \A q \in Requests \ {r} : req[q].under # 0 => req[q].under # s
    BY <1>0, <2>2 DEF Holds, LockOf, OneService
  <2>4. s # 0
    BY ConstantsAssumption DEF Id
  <2>5. OneEntryAtATime'
    BY <1>0, <1>1, <2>1, <2>3, <2>4 DEF OneEntryAtATime
  <2>6. \A q \in Requests : Holds(q)'
    <3> SUFFICES ASSUME NEW q \in Requests, req'[q].under # 0
                 PROVE  lock'[LockOf(q, req'[q].under)]
      BY DEF Holds, LockOf
    <3>1. LockOf(r, s) \in Services \X Id
      BY ConstantsAssumption DEF LockOf
    <3>2. CASE q = r
      BY <1>0, <2>1, <3>1, <3>2 DEF TypeOK
    <3>3. CASE q # r
      <4>1. req'[q] = req[q] /\ lock[LockOf(q, req[q].under)]
        BY <1>0, <1>1, <3>3 DEF Holds
      <4>2. LockOf(q, req[q].under) \in Services \X Id
        BY <1>0, <4>1, ConstantsAssumption DEF LockOf, Local, Id
      <4> QED
        BY <1>0, <2>1, <4>1, <4>2 DEF TypeOK
    <3> QED
      BY <3>2, <3>3
  <2> QED
    BY <2>5, <2>6 DEF TakesTurns
<1> QED
  BY <1>0, <1>2, <1>3, <1>4 DEF LockCase

LEMMA TurnsNext ==
  ASSUME OneService
  PROVE  Shape /\ TakesTurns /\ [Next]_vars => TakesTurns'
<1> SUFFICES ASSUME Shape, TakesTurns, [Next]_vars PROVE TakesTurns'
  OBVIOUS
<1>1. CASE UNCHANGED vars
  BY <1>1 DEF vars, TakesTurns, OneEntryAtATime, Holds, LockOf
<1> QED
  BY <1>1, TurnsStep DEF Next

LEMMA InitTurns == Init => TakesTurns
  BY DEF Init, TakesTurns, OneEntryAtATime, Holds, Fresh

\* If every entry used one SessionService, ErrSessionBusy would mean what its
\* comment says: while one request handles a message of a session, no other
\* does, whatever fails in a handler.
THEOREM OneTableSuffices ==
  ASSUME OneService
  PROVE  Spec => []OneEntryAtATime
<1>1. Shape /\ TakesTurns /\ [Next]_vars => TakesTurns'
  BY TurnsNext
<1>2. TakesTurns => OneEntryAtATime
  BY DEF TakesTurns
<1> QED
  BY <1>1, <1>2, InitShape, InitTurns, ShapeStep, PTL DEF Spec
-----------------------------------------------------------------------------
(* What a message is credited with is kept.                                *)

LEMMA StillRows ==
  ASSUME UNCHANGED <<rows, hist>>, NEW r \in Requests, pc'[r] \notin {"think", "close"}
  PROVE  NoCredit(r)
  BY DEF NoCredit, SnapTrue, Ids

\* The steps that leave the rows alone.  Only GetSession takes a copy.
LEMMA QuietCredit ==
  ASSUME Shape, CreditInv, NEW r \in Requests,
         UNCHANGED rows, Start(r) \/ Proceed(r), ~StoreRow(r), ~CloseSession(r)
  PROVE  NoCredit(r)
<1>0. TypeOK /\ req[r] \in Local /\ SnapTrue(r) /\ Refs(r)
  BY DEF Shape, TypeOK, CreditInv
<1>1. ASSUME NEW step \in Step \ {"think", "close"}, Goto(r, step), UNCHANGED hist
      PROVE  NoCredit(r)
  BY <1>0, <1>1, GotoType, StillRows
<1>2. ASSUME Return(r), UNCHANGED hist PROVE NoCredit(r)
  BY <1>0, <1>2, ReturnType, StillRows
<1>3. ASSUME NEW s, PostTo(r, s), UNCHANGED hist PROVE NoCredit(r)
  BY <1>1, <1>3 DEF PostTo, Step
<1>4. CASE GetSession(r)
  <2> DEFINE row == rows[req[r].session]
             l == [req[r] EXCEPT !.snap = row, !.node = row.node]
  <2>1. req[r].session \in Ids
    BY <1>0, <1>4 DEF GetSession, At, Refs
  <2>2. row \in Row /\ row.node \in Node
    BY <1>0, <2>1, RowThere
  <2>3. Set(r, l) /\ UNCHANGED <<rows, hist>>
    BY <1>4 DEF GetSession
  <2> HIDE DEF row
  <2>4. l \in Local /\ l.snap = row /\ l.session = req[r].session
    BY <1>0, <2>2 DEF Local
  <2> HIDE DEF l
  <2>5. req'[r].snap = row /\ req'[r].session = req[r].session
    BY <1>0, <2>3, <2>4, SetType
  <2> QED
    BY <2>3, <2>5 DEF NoCredit, SnapTrue, Ids, row
<1>5. CASE LightNode(r)
  <2>1. /\ hist' = [hist EXCEPT !.lit = @ \cup {req[r].node}] /\ UNCHANGED req
        /\ hist \in History
    BY <1>0, <1>5 DEF LightNode, TypeOK
  <2>2. hist'.lit = hist.lit \cup {req[r].node} /\ hist'.earned = hist.earned
    BY <2>1 DEF History
  <2> QED
    BY <2>1, <2>2 DEF NoCredit, SnapTrue, Ids
<1>6. ASSUME NEW s \in Id, Say(r, s) PROVE NoCredit(r)
  <2>1. hist'.earned = hist.earned /\ pc'[r] = "read"
    BY <1>6, SayStep
  <2> QED
    BY <2>1 DEF NoCredit, SnapTrue, Ids
<1>7. ASSUME NEW n \in Node, Open(r, n) PROVE NoCredit(r)
  BY <1>1, <1>7 DEF Open, Step
<1>8. ASSUME NEW s \in Id, NextButton(r, s) PROVE NoCredit(r)
  BY <1>1, <1>8 DEF NextButton, Step
<1>9. CASE Lookup(r)
  <2>1. UNCHANGED hist
    BY <1>9 DEF Lookup
  <2>2. \/ \E s : PostTo(r, s)
        \/ \E step \in {"touch", "check", "create"} : Goto(r, step)
    BY <1>9 DEF Lookup
  <2> QED
    BY <1>1, <1>3, <2>1, <2>2 DEF Step
<1>10. CASE ConfirmLit(r)
  BY <1>1, <1>2, <1>10 DEF ConfirmLit, Step
<1>11. CASE PickNext(r)
  BY <1>1, <1>2, <1>3, <1>11 DEF PickNext, Step
<1>12. CASE CheckProgress(r)
  <2>1. UNCHANGED hist /\ \E step \in {"create", "createLit"} : Goto(r, step)
    BY <1>12 DEF CheckProgress
  <2> QED
    BY <1>1, <2>1 DEF Step
<1>13. CASE Create(r) \/ MarkInProgress(r) \/ SayNext(r) \/ PostUser(r) \/ Overwrite(r)
  BY <1>1, <1>13 DEF Create, MarkInProgress, SayNext, PostUser, Overwrite, Step
<1>14. CASE TouchSession(r) \/ SettleCompleted(r) \/ BeginFails(r) \/ Fail(r) \/ PostReply(r)
  BY <1>2, <1>14 DEF TouchSession, SettleCompleted, BeginFails, Fail, PostReply
<1>15. CASE CreateCompleted(r)
  BY <1>1, <1>15 DEF CreateCompleted, Step
<1>16. CASE Begin(r) \/ Answer(r)
  BY <1>2, <1>3, <1>16 DEF Begin, Answer
<1> QED
  BY <1>4, <1>5, <1>6, <1>7, <1>8, <1>9, <1>10, <1>11, <1>12, <1>13, <1>14, <1>15,
     <1>16 DEF Start, Proceed

\* A new session has no credit, and has none to have.
LEMMA CreateCredit ==
  ASSUME Shape, NEW r \in Requests, CreateCompleted(r) \/ Create(r)
  PROVE  NoCredit(r)
<1>0. TypeOK /\ req[r].node \in Node /\ UNCHANGED hist
  BY DEF Shape, TypeOK, Local, CreateCompleted, Create
<1>1. PICK row \in Row : CreateSession(row) /\ row.earned = {}
  <2> DEFINE new == [NoRow EXCEPT !.node = req[r].node]
             lit == [NoRow EXCEPT !.node = req[r].node, !.phase = "completed"]
  <2>1. new \in Row /\ lit \in Row /\ new.earned = {} /\ lit.earned = {}
    BY <1>0, FreshLocal DEF NoRow, Row
  <2>2. CreateSession(new) \/ CreateSession(lit)
    BY DEF CreateCompleted, Create
  <2> QED
    BY <2>1, <2>2
<1>2. pc'[r] \in {"settle", "mark"}
  BY <1>0, GotoType DEF CreateCompleted, Create, Step
<1> QED
  BY <1>0, <1>1, <1>2, CreateType DEF NoCredit, SnapTrue

\* The copies written back without the lock are of lit nodes.
LEMMA RewriteCredit ==
  ASSUME Shape, NEW r \in Requests, SettleCompleted(r) \/ Overwrite(r)
  PROVE  NoCredit(r)
<1>0. TypeOK /\ req[r] \in Local /\ Refs(r) /\ UNCHANGED hist
  BY DEF Shape, TypeOK, SettleCompleted, Overwrite
<1>1. pc'[r] \in {"idle", "pick"}
  BY <1>0, GotoType, ReturnType DEF SettleCompleted, Overwrite, Step
<1>2. ASSUME NEW s \in Ids, NEW row \in Row, UpdateSession(s, row), rows[s].node \in hist.lit
      PROVE  NoCredit(r)
  BY <1>0, <1>1, <1>2, UpdateType DEF NoCredit, SnapTrue
<1>3. CASE SettleCompleted(r)
  BY <1>0, <1>2, <1>3 DEF SettleCompleted, At, Refs, Local
<1>4. CASE Overwrite(r)
  <2>1. [req[r].snap EXCEPT !.phase = "completed"] \in Row
    BY <1>0 DEF Local, Row
  <2> QED
    BY <1>0, <1>2, <1>4, <2>1 DEF Overwrite, At, Refs
<1> QED
  BY <1>3, <1>4

LEMMA NoCreditKeeps ==
  ASSUME Shape, CreditInv, NEW r \in Requests, NoCredit(r), StepOK(r)
  PROVE  CreditInv'
<1>0. /\ \A s \in Ids : rows'[s].node = rows[s].node
      /\ hist.lit \subseteq hist'.lit /\ hist'.earned = hist.earned
  BY DEF StepOK, Grows, NoCredit
<1>1. EarnedKept'
  BY <1>0 DEF NoCredit, CreditInv, EarnedKept, Shape, NewUncredited
<1>2. ASSUME NEW q \in Requests \ {r} PROVE SnapTrue(q)'
  <2>1. pc'[q] = pc[q] /\ req'[q] = req[q] /\ SnapTrue(q) /\ Refs(q)
    BY DEF StepOK, Alone, CreditInv, Shape
  <2>2. ASSUME pc[q] \in {"think", "close"}
        PROVE  /\ req[q].session \in Ids /\ req[q].session \in Ids'
               /\ req[q].node = rows[req[q].session].node
    BY <2>1, <2>2 DEF Refs, StepOK, Grows
  <2> QED
    BY <1>0, <2>1, <2>2 DEF SnapTrue, NoCredit
<1> QED
  BY <1>1, <1>2 DEF CreditInv, NoCredit

\* The coach's write: no other handler has a copy of the same row.
LEMMA CoachCredit ==
  ASSUME Shape, TakesTurns, CreditInv, NEW r \in Requests, StoreRow(r) \/ CloseSession(r)
  PROVE  CreditInv'
<1> DEFINE own == req[r].session
<1>0. /\ TypeOK /\ StepOK(r) /\ pc[r] \in {"think", "close"} /\ Refs(r) /\ SnapTrue(r)
      /\ req[r] \in Local /\ own \in Ids /\ own = req[r].under
      /\ req[r].node = rows[own].node
  BY CoachSteps DEF Shape, TypeOK, CreditInv, StoreRow, CloseSession, At, Refs
<1>1. /\ hist'.lit = hist.lit /\ pc'[r] = "postUser"
      /\ hist'.earned = [hist.earned EXCEPT ![own] = @ \cup {req[r].turn}]
  BY CoachSteps
<1>2. PICK row \in Row : UpdateSession(own, row) /\ row.earned = Credited(r)
  BY CoachSteps
<1>3. Ids' = Ids /\ \A s \in Ids : rows'[s] = IF s = own THEN row ELSE rows[s]
  BY <1>0, <1>2, UpdateType
<1>4. \A s \in Ids : rows'[s].node = rows[s].node /\ s \in Id
  BY <1>0, RowThere DEF StepOK, Grows
<1>5. hist.earned \in [Id -> SUBSET Turn]
  BY <1>0 DEF TypeOK, History
<1>6. EarnedKept'
  <2> SUFFICES ASSUME NEW s \in Ids, rows[s].node \notin hist.lit
               PROVE  rows'[s].earned = hist'.earned[s]
    BY <1>1, <1>3, <1>4 DEF EarnedKept
  <2>1. rows[s].earned = hist.earned[s]
    BY DEF CreditInv, EarnedKept
  <2>2. CASE s = own
    BY <1>0, <1>1, <1>2, <1>3, <1>4, <1>5, <2>1, <2>2 DEF SnapTrue, Credited
  <2>3. CASE s # own
    BY <1>1, <1>3, <1>4, <1>5, <2>1, <2>3
  <2> QED
    BY <2>2, <2>3
<1>7. ASSUME NEW q \in Requests \ {r} PROVE SnapTrue(q)'
  <2>1. pc'[q] = pc[q] /\ req'[q] = req[q] /\ SnapTrue(q) /\ Refs(q)
    BY <1>0 DEF StepOK, Alone, CreditInv, Shape
  <2>2. own # 0
    BY <1>0, <1>4, ConstantsAssumption DEF Id
  <2>3. ASSUME pc[q] \in {"think", "close"}
        PROVE  req[q].session \in Ids /\ req[q].session # own
    BY <1>0, <2>1, <2>2, <2>3 DEF Refs, TakesTurns, OneEntryAtATime
  <2> QED
    BY <1>1, <1>3, <2>1, <2>3 DEF SnapTrue
<1>8. SnapTrue(r)'
  BY <1>1 DEF SnapTrue
<1> QED
  BY <1>6, <1>7, <1>8 DEF CreditInv

LEMMA CreditStep ==
  ASSUME Shape, TakesTurns, CreditInv, NEW r \in Requests, Start(r) \/ Proceed(r)
  PROVE  CreditInv'
<1>1. CASE StoreRow(r) \/ CloseSession(r)
  BY <1>1, CoachCredit
<1>2. CASE CreateCompleted(r) \/ Create(r) \/ SettleCompleted(r) \/ Overwrite(r)
  BY <1>2, CreateCredit, RewriteCredit, NoCreditKeeps, EveryStep
<1>3. CASE UNCHANGED rows /\ ~StoreRow(r) /\ ~CloseSession(r)
  BY <1>3, QuietCredit, NoCreditKeeps, EveryStep
<1>4. UNCHANGED rows \/ StoreRow(r) \/ CloseSession(r) \/ CreateCompleted(r)
      \/ Create(r) \/ SettleCompleted(r) \/ Overwrite(r)
  BY DEF Start, Proceed, Open, NextButton, Say, Lookup, TouchSession, CheckProgress,
         MarkInProgress, Begin, BeginFails, ConfirmLit, PickNext, GetSession, Answer,
         Fail, LightNode, SayNext, PostUser, PostReply
<1> QED
  BY <1>1, <1>2, <1>3, <1>4

LEMMA InitCredit == Init => CreditInv
<1> SUFFICES ASSUME Init PROVE CreditInv
  OBVIOUS
<1>1. Ids = {}
  BY EmptySeq DEF Init, Ids
<1> QED
  BY <1>1 DEF Init, CreditInv, EarnedKept, SnapTrue

\* With one SessionService, what the coach has credited to a session stays in
\* its row until the node is lit, whatever else runs and fails beside it.
THEOREM CreditKept ==
  ASSUME OneService
  PROVE  Spec => []EarnedKept
<1>1. Shape /\ TakesTurns /\ [Next]_vars => TakesTurns'
  BY TurnsNext
<1>2. Shape /\ TakesTurns /\ CreditInv /\ [Next]_vars => CreditInv'
  <2> SUFFICES ASSUME Shape, TakesTurns, CreditInv, [Next]_vars PROVE CreditInv'
    OBVIOUS
  <2>1. CASE UNCHANGED vars
    BY <2>1 DEF vars, CreditInv, EarnedKept, SnapTrue, Ids
  <2> QED
    BY <2>1, CreditStep DEF Next
<1>3. CreditInv => EarnedKept
  BY DEF CreditInv
<1> QED
  BY <1>1, <1>2, <1>3, InitShape, InitTurns, InitCredit, ShapeStep, PTL DEF Spec
-----------------------------------------------------------------------------
(* Nodes that a rebuilt course had lit from the start.                     *)

\* A request that will create a session and mark the node has seen it open.
MayMark(q) ==
  pc[q] \in {"create", "mark"} \/ (pc[q] = "lookup" /\ req[q].turn # 0)
    => req[q].node \notin hist.rebuilt

RebuiltLit == \A n \in hist.rebuilt : n \in Node /\ progress[n] = "completed"
RebuiltInv == RebuiltLit /\ \A q \in Requests : MayMark(q)

MarkStep(r) ==
  /\ hist'.rebuilt = hist.rebuilt /\ MayMark(r)'
  /\ \A n \in hist.rebuilt : progress'[n] = "completed"

LEMMA StillLit ==
  ASSUME RebuiltLit, UNCHANGED <<progress, hist>>, NEW r \in Requests,
         pc'[r] \notin {"lookup", "create", "mark"}
  PROVE  MarkStep(r)
  BY DEF RebuiltLit, MarkStep, MayMark

LEMMA MarkSteps ==
  ASSUME Shape, RebuiltInv, NEW r \in Requests, Start(r) \/ Proceed(r)
  PROVE  MarkStep(r)
<1>0. /\ TypeOK /\ req[r] \in Local /\ req[r].node \in Node
      /\ RebuiltLit /\ MayMark(r) /\ hist \in History
  BY DEF Shape, TypeOK, Local, RebuiltInv
<1>1. ASSUME NEW step \in Step \ {"lookup", "create", "mark"}, Goto(r, step),
             UNCHANGED <<progress, hist>>
      PROVE  MarkStep(r)
  BY <1>0, <1>1, GotoType, StillLit
<1>2. ASSUME Return(r), UNCHANGED <<progress, hist>> PROVE MarkStep(r)
  BY <1>0, <1>2, ReturnType, StillLit
<1>3. ASSUME NEW s, PostTo(r, s), UNCHANGED <<progress, hist>> PROVE MarkStep(r)
  BY <1>1, <1>3 DEF PostTo, Step
<1>4. ASSUME NEW step \in Step, Goto(r, step), NEW l \in Local, Set(r, l),
             step = "lookup" => l.turn = 0 \/ l.node \notin hist.rebuilt,
             step \in {"create", "mark"} => l.node \notin hist.rebuilt,
             UNCHANGED <<progress, hist>>
      PROVE  MarkStep(r)
  BY <1>0, <1>4, GotoType, SetType DEF RebuiltLit, MarkStep, MayMark
<1>5. ASSUME NEW n \in Node, Open(r, n) PROVE MarkStep(r)
  <2> DEFINE l == [Fresh EXCEPT !.node = n]
  <2>1. l \in Local /\ l.turn = 0
    BY FreshLocal DEF Fresh
  <2> QED
    BY <1>4, <1>5, <2>1 DEF Open, Step
<1>6. CASE Lookup(r)
  <2>1. UNCHANGED <<progress, hist>>
    BY <1>6 DEF Lookup
  <2>2. CASE Goto(r, "create") /\ UNCHANGED req /\ req[r].turn # 0
    <3>1. req[r].node \notin hist.rebuilt
      BY <1>0, <1>6, <2>2 DEF Lookup, At, MayMark
    <3> QED
      BY <1>0, <1>4, <2>1, <2>2, <3>1, Keeps DEF Step
  <2>3. \/ \E s : PostTo(r, s)
        \/ Goto(r, "touch") \/ Goto(r, "check")
        \/ Goto(r, "create") /\ UNCHANGED req /\ req[r].turn # 0
    BY <1>6 DEF Lookup
  <2> QED
    BY <1>1, <1>3, <2>1, <2>2, <2>3 DEF Step
<1>7. CASE CheckProgress(r)
  <2>1. CASE progress[req[r].node] = "completed"
    BY <1>1, <1>7, <2>1 DEF CheckProgress, Step
  <2>2. CASE progress[req[r].node] # "completed"
    <3>1. req[r].node \notin hist.rebuilt
      BY <1>0, <2>2 DEF RebuiltLit
    <3>2. Goto(r, "create") /\ UNCHANGED <<req, progress, hist>>
      BY <1>7, <2>2 DEF CheckProgress
    <3> QED
      BY <1>0, <1>4, <3>1, <3>2, Keeps DEF Step
  <2> QED
    BY <2>1, <2>2
<1>8. CASE Create(r)
  <2> DEFINE l == [req[r] EXCEPT !.to = Len(rows) + 1]
  <2>1. Goto(r, "mark") /\ Set(r, l) /\ UNCHANGED <<progress, hist>>
    BY <1>8 DEF Create
  <2>2. req[r].node \notin hist.rebuilt
    BY <1>0, <1>8 DEF Create, At, MayMark
  <2>3. req'[r].node = req[r].node /\ pc'[r] = "mark"
    BY <1>0, <2>1, GotoType DEF Set, TypeOK, Local, Step
  <2> QED
    BY <1>0, <2>1, <2>2, <2>3 DEF RebuiltLit, MarkStep, MayMark
<1>9. CASE MarkInProgress(r)
  <2>1. /\ Goto(r, "begin") /\ UNCHANGED hist
        /\ progress' = [progress EXCEPT ![req[r].node] = "in_progress"]
    BY <1>9 DEF MarkInProgress
  <2>2. req[r].node \notin hist.rebuilt
    BY <1>0, <1>9 DEF MarkInProgress, At, MayMark
  <2>3. pc'[r] = "begin"
    BY <1>0, <2>1, GotoType DEF Step
  <2> QED
    BY <1>0, <2>1, <2>2, <2>3 DEF RebuiltLit, MarkStep, MayMark, TypeOK
<1>10. CASE LightNode(r)
  <2>1. /\ hist' = [hist EXCEPT !.lit = @ \cup {req[r].node}] /\ Goto(r, "close")
        /\ progress' = [progress EXCEPT ![req[r].node] = "completed"]
    BY <1>10 DEF LightNode
  <2>2. hist'.rebuilt = hist.rebuilt /\ pc'[r] = "close"
    BY <1>0, <2>1, GotoType DEF History, Step
  <2> QED
    BY <1>0, <2>1, <2>2 DEF RebuiltLit, MarkStep, MayMark, TypeOK
<1>11. CASE PickNext(r)
  <2>1. UNCHANGED <<progress, hist>>
    BY <1>11 DEF PickNext
  <2>2. CASE ~AllDone(r)
    <3> DEFINE l == [req[r] EXCEPT !.node = NextUncompleted(@), !.snap = NoRow]
    <3>1. /\ NextUncompleted(req[r].node) \in Node
          /\ progress[NextUncompleted(req[r].node)] # "completed"
      BY <1>0, <1>11, <2>2, NextIsNode DEF PickNext, AllDone
    <3>2. l \in Local /\ l.node = NextUncompleted(req[r].node)
      BY <1>0, <3>1, FreshLocal DEF Local
    <3>3. l.node \notin hist.rebuilt
      BY <1>0, <3>1, <3>2 DEF RebuiltLit
    <3>4. Set(r, l) /\ Goto(r, "lookup")
      BY <1>11, <2>2 DEF PickNext
    <3> HIDE DEF l
    <3> QED
      BY <1>4, <2>1, <3>2, <3>3, <3>4 DEF Step
  <2>3. CASE Return(r) \/ PostTo(r, req[r].session)
    BY <1>2, <1>3, <2>1, <2>3
  <2> QED
    BY <1>11, <2>2, <2>3 DEF PickNext
<1>12. ASSUME NEW s \in Id, Say(r, s) PROVE MarkStep(r)
  <2>1. hist' = [hist EXCEPT !.turns = @ + 1] /\ UNCHANGED progress /\ pc'[r] = "read"
    BY <1>12, SayStep DEF Say
  <2>2. hist'.rebuilt = hist.rebuilt
    BY <1>0, <2>1 DEF History
  <2> QED
    BY <1>0, <2>1, <2>2 DEF RebuiltLit, MarkStep, MayMark
<1>13. CASE StoreRow(r) \/ CloseSession(r)
  <2>1. /\ hist' = [hist EXCEPT !.earned[req[r].session] = @ \cup {req[r].turn}]
        /\ UNCHANGED progress /\ pc'[r] = "postUser"
    BY <1>13, CoachSteps DEF StoreRow, CloseSession, Credit
  <2>2. hist'.rebuilt = hist.rebuilt
    BY <1>0, <2>1 DEF History
  <2> QED
    BY <1>0, <2>1, <2>2 DEF RebuiltLit, MarkStep, MayMark
<1>14. ASSUME NEW s \in Id, NextButton(r, s) PROVE MarkStep(r)
  BY <1>1, <1>14 DEF NextButton, Step
<1>15. CASE GetSession(r) \/ CreateCompleted(r) \/ SayNext(r) \/ PostUser(r) \/ Overwrite(r)
  BY <1>1, <1>15 DEF GetSession, CreateCompleted, SayNext, PostUser, Overwrite, Step
<1>16. CASE TouchSession(r) \/ SettleCompleted(r) \/ BeginFails(r) \/ Fail(r) \/ PostReply(r)
  BY <1>2, <1>16 DEF TouchSession, SettleCompleted, BeginFails, Fail, PostReply
<1>17. CASE Begin(r) \/ Answer(r) \/ ConfirmLit(r)
  BY <1>1, <1>2, <1>3, <1>17 DEF Begin, Answer, ConfirmLit, Step
<1> QED
  BY <1>5, <1>6, <1>7, <1>8, <1>9, <1>10, <1>11, <1>12, <1>13, <1>14, <1>15, <1>16,
     <1>17 DEF Start, Proceed

LEMMA RebuiltStep ==
  ASSUME Shape, RebuiltInv, [Next]_vars
  PROVE  RebuiltInv' /\ \A n \in hist.rebuilt : ~Downgraded(n)
<1>1. CASE UNCHANGED vars
  BY <1>1 DEF vars, RebuiltInv, RebuiltLit, MayMark, Downgraded
<1>2. ASSUME NEW r \in Requests, Start(r) \/ Proceed(r)
      PROVE  RebuiltInv' /\ \A n \in hist.rebuilt : ~Downgraded(n)
  <2>1. MarkStep(r) /\ StepOK(r)
    BY <1>2, MarkSteps, EveryStep
  <2>2. \A q \in Requests \ {r} : MayMark(q)'
    BY <2>1 DEF StepOK, Alone, MarkStep, MayMark, RebuiltInv
  <2>3. RebuiltLit'
    BY <2>1 DEF RebuiltInv, RebuiltLit, MarkStep
  <2> QED
    BY <2>1, <2>2, <2>3 DEF RebuiltInv, MarkStep, Downgraded
<1> QED
  BY <1>1, <1>2 DEF Next

LEMMA InitRebuilt == Init => RebuiltInv
  BY DEF Init, RebuiltInv, RebuiltLit, MayMark, Incomplete

\* A node lit from the start is never downgraded: a request creates a session
\* and marks the node only after it has seen the node open.
THEOREM RebuiltKept == Spec => RebuiltStaysLit
<1>1. Shape /\ RebuiltInv /\ [Next]_vars => RebuiltInv' /\ [\A n \in hist.rebuilt : ~Downgraded(n)]_vars
  BY RebuiltStep
<1> QED
  BY <1>1, InitShape, InitRebuilt, ShapeStep, PTL DEF Spec, RebuiltStaysLit
-----------------------------------------------------------------------------
(* What is posted under the lock is whole turns.                           *)

LastOwn(posts, s, i) == i \in Own(posts, s) /\ \A k \in Own(posts, s) : k <= i

\* The learner's message of this turn is the last that was posted under the lock.
Asked(posts, s, turn) ==
  \E i \in DOMAIN posts :
    LastOwn(posts, s, i) /\ posts[i].role = "user" /\ posts[i].turn = turn

Answered(posts, s) ==
  \A i \in DOMAIN posts : LastOwn(posts, s, i) => posts[i].role = "assistant"

AwaitsReply(q, s) == pc[q] = "postReply" /\ req[q].to = s /\ req[q].under = s

\* Either all is answered, or one handler is about to post the reply.
OpenTurns(s) ==
  /\ \A q \in Requests : AwaitsReply(q, s) => Asked(messages[s], s, req[q].turn)
  /\ (\A q \in Requests : ~AwaitsReply(q, s)) => Answered(messages[s], s)

TurnsInv == LockedTurns /\ \A s \in Id : OpenTurns(s)

\* A post under no lock or another's.
LEMMA OtherPost ==
  ASSUME NEW posts \in Seq(Message), NEW m \in Message, NEW s \in Id, m.under # s
  PROVE  LET more == Append(posts, m) IN
         /\ InTurns(posts, s) => InTurns(more, s)
         /\ Answered(posts, s) => Answered(more, s)
         /\ \A turn : Asked(posts, s, turn) => Asked(more, s, turn)
<1> DEFINE more == Append(posts, m)
<1>1. /\ DOMAIN posts = 1 .. Len(posts) /\ DOMAIN more = 1 .. Len(posts) + 1
      /\ more[Len(posts) + 1] = m /\ Len(posts) \in Nat
      /\ \A i \in 1 .. Len(posts) : more[i] = posts[i]
  BY AppendProperties, LenProperties
<1> HIDE DEF more
<1>2. Own(more, s) = Own(posts, s)
  BY <1>1 DEF Own
<1>3. \A i \in Own(posts, s) : i \in DOMAIN posts /\ i \in DOMAIN more /\ more[i] = posts[i]
  BY <1>1 DEF Own
<1>4. InTurns(posts, s) => InTurns(more, s)
  BY <1>2, <1>3 DEF InTurns, RightBefore
<1>5. Answered(posts, s) => Answered(more, s)
  BY <1>2, <1>3 DEF Answered, LastOwn
<1>6. \A turn : Asked(posts, s, turn) => Asked(more, s, turn)
  BY <1>2, <1>3 DEF Asked, LastOwn
<1> QED
  BY <1>4, <1>5, <1>6 DEF more

\* A post under the lock of the session is the last.
LEMMA OwnPost ==
  ASSUME NEW posts \in Seq(Message), NEW m \in Message, NEW s \in Id, m.under = s,
         InTurns(posts, s),
         IF m.role = "user" THEN Answered(posts, s) ELSE Asked(posts, s, m.turn)
  PROVE  LET more == Append(posts, m) IN
         /\ InTurns(more, s)
         /\ m.role = "user" => Asked(more, s, m.turn)
         /\ m.role = "assistant" => Answered(more, s)
<1> DEFINE more == Append(posts, m)
           n == Len(posts) + 1
<1>1. /\ DOMAIN posts = 1 .. Len(posts) /\ DOMAIN more = 1 .. n
      /\ more[n] = m /\ Len(posts) \in Nat /\ n \in Nat
      /\ \A i \in 1 .. Len(posts) : more[i] = posts[i] /\ i < n
  BY AppendProperties, LenProperties
<1>2. Own(more, s) = Own(posts, s) \cup {n} /\ Own(posts, s) \subseteq 1 .. Len(posts)
  BY <1>1 DEF Own
<1>3. /\ DOMAIN more = DOMAIN posts \cup {n}
      /\ \A i \in DOMAIN posts : more[i] = posts[i] /\ i \in Nat /\ i < n
  BY <1>1
<1> HIDE DEF more, n
<1>4. LastOwn(more, s, n) /\ \A i : LastOwn(more, s, i) => i = n
  BY <1>1, <1>2, <1>3 DEF LastOwn
<1>5. \A i : LastOwn(posts, s, i) <=> RightBefore(more, s, i, n)
  <2>1. \A i : i \in Own(posts, s) => i \in Nat /\ i < n
    BY <1>1, <1>2
  <2>2. ASSUME NEW i, LastOwn(posts, s, i) PROVE RightBefore(more, s, i, n)
    BY <1>1, <1>2, <2>1, <2>2 DEF LastOwn, RightBefore
  <2>3. ASSUME NEW i, RightBefore(more, s, i, n) PROVE LastOwn(posts, s, i)
    <3>1. i # n /\ i \in Own(posts, s)
      BY <1>1, <1>2, <2>3 DEF RightBefore
    <3>2. ASSUME NEW k \in Own(posts, s) PROVE k <= i
      <4>1. k <= i \/ n <= k
        BY <1>2, <2>3 DEF RightBefore
      <4> QED
        BY <1>1, <2>1, <4>1
    <3> QED
      BY <3>1, <3>2 DEF LastOwn
  <2> QED
    BY <2>2, <2>3
<1>6. ASSUME NEW j \in Own(posts, s), NEW i
      PROVE  RightBefore(more, s, i, j) <=> RightBefore(posts, s, i, j)
  BY <1>1, <1>2 DEF RightBefore
<1>7. \A i : (RightBefore(posts, s, i, n) \/ LastOwn(posts, s, i)) => i \in DOMAIN posts
  BY <1>1, <1>2 DEF RightBefore, LastOwn
<1>8. ASSUME NEW j \in Own(more, s)
      PROVE  IF more[j].role = "user"
             THEN \A i \in DOMAIN more :
                    RightBefore(more, s, i, j) => more[i].role = "assistant"
             ELSE \E i \in DOMAIN more :
                    /\ RightBefore(more, s, i, j)
                    /\ more[i].role = "user" /\ more[i].turn = more[j].turn
  <2>1. CASE j = n
    <3>1. more[j] = m
      BY <1>1, <2>1
    <3>2. CASE m.role = "user"
      BY <1>3, <1>5, <1>7, <2>1, <3>1, <3>2 DEF Answered
    <3>3. CASE m.role # "user"
      <4>1. PICK i \in DOMAIN posts :
              LastOwn(posts, s, i) /\ posts[i].role = "user" /\ posts[i].turn = m.turn
        BY <3>3 DEF Asked
      <4> QED
        BY <1>3, <1>5, <2>1, <3>1, <3>3, <4>1
    <3> QED
      BY <3>2, <3>3
  <2>2. CASE j # n
    <3>1. j \in Own(posts, s) /\ j \in DOMAIN posts
      BY <1>1, <1>2, <2>2
    <3>2. more[j] = posts[j]
      BY <1>3, <3>1
    <3>3. \A i : RightBefore(more, s, i, j) => i \in DOMAIN posts
      <4>1. \A i : RightBefore(posts, s, i, j) => i \in DOMAIN posts
        BY DEF RightBefore, Own
      <4> QED
        BY <1>6, <3>1, <4>1
    <3>4. IF posts[j].role = "user"
          THEN \A i \in DOMAIN posts :
                 RightBefore(posts, s, i, j) => posts[i].role = "assistant"
          ELSE \E i \in DOMAIN posts :
                 /\ RightBefore(posts, s, i, j)
                 /\ posts[i].role = "user" /\ posts[i].turn = posts[j].turn
      BY <3>1 DEF InTurns
    <3> QED
      BY <1>3, <1>6, <3>1, <3>2, <3>3, <3>4
  <2> QED
    BY <2>1, <2>2
<1>9. InTurns(more, s)
  BY <1>8 DEF InTurns
<1>10. m.role = "user" => Asked(more, s, m.turn)
  BY <1>1, <1>3, <1>4 DEF Asked
<1>11. m.role = "assistant" => Answered(more, s)
  BY <1>1, <1>4 DEF Answered
<1> QED
  BY <1>9, <1>10, <1>11 DEF more

\* What a handler that neither posts nor was about to reply leaves as it is.
Silent(r) ==
  /\ UNCHANGED messages
  /\ pc[r] # "postReply" /\ pc'[r] # "postReply"

LEMMA SilentSteps ==
  ASSUME Shape, NEW r \in Requests,
         Start(r) \/ Proceed(r), ~Begin(r), ~PostUser(r), ~PostReply(r)
  PROVE  Silent(r)
<1>0. TypeOK
  BY DEF Shape
<1>1. ASSUME Return(r), UNCHANGED messages, pc[r] # "postReply" PROVE Silent(r)
  BY <1>0, <1>1, ReturnType DEF Silent
<1>2. ASSUME NEW s, PostTo(r, s), UNCHANGED messages, pc[r] # "postReply" PROVE Silent(r)
  BY <1>0, <1>2 DEF PostTo, Goto, TypeOK, Silent
<1>3. ASSUME NEW step \in Step \ {"postReply"}, Goto(r, step), UNCHANGED messages,
             pc[r] # "postReply"
      PROVE  Silent(r)
  BY <1>0, <1>3 DEF Goto, TypeOK, Silent
<1>4. ASSUME NEW n \in Node, Open(r, n) PROVE Silent(r)
  BY <1>3, <1>4 DEF Open, At, Step
<1>5. ASSUME NEW s \in Id, NextButton(r, s) \/ Say(r, s) PROVE Silent(r)
  BY <1>3, <1>5 DEF NextButton, Say, At, Step
<1>6. CASE TouchSession(r) \/ SettleCompleted(r) \/ BeginFails(r) \/ Fail(r)
  BY <1>1, <1>6 DEF TouchSession, SettleCompleted, BeginFails, Fail, At
<1>7. CASE \/ CheckProgress(r) \/ CreateCompleted(r) \/ Create(r) \/ MarkInProgress(r)
           \/ Overwrite(r) \/ GetSession(r) \/ LightNode(r) \/ SayNext(r)
  BY <1>3, <1>7 DEF CheckProgress, CreateCompleted, Create, MarkInProgress, Overwrite,
                    GetSession, LightNode, SayNext, At, Step
<1>8. CASE Answer(r) \/ StoreRow(r) \/ CloseSession(r)
  BY <1>2, <1>8 DEF Answer, StoreRow, CloseSession, At
<1>9. CASE Lookup(r)
  <2>1. UNCHANGED messages /\ pc[r] # "postReply"
    BY <1>9 DEF Lookup, At
  <2>2. \/ PostTo(r, latest[req[r].node]) \/ Goto(r, "touch")
        \/ Goto(r, "check") \/ Goto(r, "create")
    BY <1>9 DEF Lookup
  <2> QED
    BY <1>2, <1>3, <2>1, <2>2 DEF Step
<1>10. CASE ConfirmLit(r) \/ PickNext(r)
  <2>1. UNCHANGED messages /\ pc[r] # "postReply"
    BY <1>10 DEF ConfirmLit, PickNext, At
  <2>2. \/ Return(r) \/ Goto(r, "overwrite") \/ Goto(r, "lookup")
        \/ PostTo(r, req[r].session)
    BY <1>10 DEF ConfirmLit, PickNext
  <2> QED
    BY <1>1, <1>2, <1>3, <2>1, <2>2 DEF Step
<1> QED
  BY <1>4, <1>5, <1>6, <1>7, <1>8, <1>9, <1>10 DEF Start, Proceed

LEMMA InTurnsStep ==
  ASSUME Shape, TakesTurns, TurnsInv, NEW r \in Requests, Start(r) \/ Proceed(r)
  PROVE  TurnsInv'
<1>0. /\ TypeOK /\ OneEntryAtATime /\ req[r] \in Local
      /\ \A s \in Id : messages[s] \in Seq(Message)
      /\ \A q \in Requests \ {r} : pc'[q] = pc[q] /\ req'[q] = req[q]
  BY EveryStep DEF Shape, TakesTurns, TypeOK, StepOK, Alone
<1>1. ASSUME NEW s \in Id, messages'[s] = messages[s],
             ~AwaitsReply(r, s), ~AwaitsReply(r, s)'
      PROVE  InTurns(messages'[s], s) /\ OpenTurns(s)'
  <2>1. \A q \in Requests : AwaitsReply(q, s)' <=> AwaitsReply(q, s)
    BY <1>0, <1>1 DEF AwaitsReply
  <2>2. \A q \in Requests : AwaitsReply(q, s) => req'[q].turn = req[q].turn
    BY <1>0, <1>1
  <2> QED
    BY <1>1, <2>1, <2>2 DEF TurnsInv, LockedTurns, OpenTurns
<1>2. CASE Silent(r)
  BY <1>1, <1>2 DEF Silent, AwaitsReply, TurnsInv, LockedTurns
<1>3. ASSUME NEW m \in Message, NEW to \in Id,
             messages' = [messages EXCEPT ![to] = Append(@, m)]
      PROVE  /\ messages'[to] = Append(messages[to], m)
             /\ \A s \in Id \ {to} : messages'[s] = messages[s]
  BY <1>0, <1>3 DEF TypeOK
<1>4. ASSUME NEW m \in Message, NEW to \in Id, m.under # to,
             messages' = [messages EXCEPT ![to] = Append(@, m)],
             \A s \in Id : ~AwaitsReply(r, s) /\ ~AwaitsReply(r, s)'
      PROVE  TurnsInv'
  <2>1. \A q \in Requests, s \in Id : AwaitsReply(q, s)' <=> AwaitsReply(q, s)
    BY <1>0, <1>4 DEF AwaitsReply
  <2>2. \A q \in Requests, s \in Id : AwaitsReply(q, s) => req'[q].turn = req[q].turn
    BY <1>0, <1>4
  <2>3. InTurns(messages[to], to) /\ OpenTurns(to)
    BY DEF TurnsInv, LockedTurns
  <2>4. InTurns(messages'[to], to) /\ OpenTurns(to)'
    BY <1>0, <1>3, <1>4, <2>1, <2>2, <2>3, OtherPost DEF OpenTurns
  <2> QED
    BY <1>1, <1>3, <1>4, <2>4 DEF TurnsInv, LockedTurns
<1>5. CASE Begin(r)
  <2> DEFINE m == [turn |-> 0, role |-> "assistant", under |-> 0]
  <2>1. m \in Message /\ req[r].to \in Id /\ m.under # req[r].to
    <3>1. req[r].to \in Ids
      BY <1>5 DEF Begin, At, Shape, Refs
    <3> QED
      BY <1>0, <3>1, RowThere, ConstantsAssumption DEF Message, Id
  <2>2. messages' = [messages EXCEPT ![req[r].to] = Append(@, m)]
    BY <1>5 DEF Begin
  <2>3. pc[r] # "postReply" /\ pc'[r] # "postReply"
    <3>1. CASE Return(r)
      BY <1>0, <1>5, <3>1, ReturnType DEF Begin, At
    <3>2. CASE PostTo(r, req[r].to)
      BY <1>0, <1>5, <3>2 DEF PostTo, Goto, TypeOK, Begin, At
    <3> QED
      BY <1>5, <3>1, <3>2 DEF Begin
  <2> HIDE DEF m
  <2> QED
    BY <1>4, <2>1, <2>2, <2>3 DEF AwaitsReply
<1>6. ASSUME NEW role \in {"user", "assistant"}, AddMessage(req[r].to, role, r),
             pc[r] = IF role = "user" THEN "postUser" ELSE "postReply",
             IF role = "user" THEN pc'[r] = "postReply" /\ req' = req ELSE pc'[r] = "idle"
      PROVE  TurnsInv'
  <2>1. PICK to \in Id : to = req[r].to
    <3>1. req[r].to \in Ids
      BY <1>6 DEF Shape, Refs
    <3> QED
      BY <1>0, <3>1, RowThere
  <2>2. PICK m \in Message : m = [turn |-> req[r].turn, role |-> role, under |-> req[r].under]
    BY <1>0 DEF Message, Local
  <2>3. m.under = req[r].under /\ m.role = role /\ m.turn = req[r].turn
    BY <2>2
  <2>6. messages' = [messages EXCEPT ![to] = Append(@, m)]
    BY <1>6, <2>1, <2>2 DEF AddMessage
  <2>4. CASE m.under # to
    <3>1. \A s \in Id : ~AwaitsReply(r, s) /\ ~AwaitsReply(r, s)'
      BY <1>6, <2>1, <2>3, <2>4 DEF AwaitsReply
    <3> QED
      BY <1>4, <2>6, <2>4, <3>1
  <2>5. CASE m.under = to
    <3>1. \A q \in Requests \ {r} : ~AwaitsReply(q, to) /\ ~AwaitsReply(q, to)'
      <4>1. to # 0
        BY ConstantsAssumption DEF Id
      <4>2. \A q \in Requests \ {r} : req[q].under # to
        BY <1>0, <2>3, <2>5, <4>1 DEF OneEntryAtATime
      <4> QED
        BY <1>0, <4>2 DEF AwaitsReply
    <3>2. InTurns(messages[to], to) /\ OpenTurns(to)
      BY DEF TurnsInv, LockedTurns
    <3>3. IF role = "user" THEN Answered(messages[to], to)
          ELSE Asked(messages[to], to, m.turn)
      <4>1. CASE role = "user"
        <5>1. ~AwaitsReply(r, to)
          BY <1>6, <4>1 DEF AwaitsReply
        <5> QED
          BY <3>1, <3>2, <4>1, <5>1 DEF OpenTurns
      <4>2. CASE role # "user"
        <5>1. AwaitsReply(r, to)
          BY <1>6, <2>1, <2>3, <2>5, <4>2 DEF AwaitsReply
        <5> QED
          BY <2>3, <3>2, <4>2, <5>1 DEF OpenTurns
      <4> QED
        BY <4>1, <4>2
    <3>4. messages'[to] = Append(messages[to], m)
      BY <1>3, <2>6
    <3>5. /\ InTurns(messages'[to], to)
          /\ role = "user" => Asked(messages'[to], to, m.turn)
          /\ role = "assistant" => Answered(messages'[to], to)
      BY <1>0, <2>3, <2>5, <3>2, <3>3, <3>4, OwnPost
    <3>6. OpenTurns(to)'
      <4>1. CASE role = "user"
        <5>1. AwaitsReply(r, to)' /\ req'[r].turn = m.turn
          BY <1>6, <2>1, <2>3, <2>5, <4>1 DEF AwaitsReply
        <5> QED
          BY <3>1, <3>5, <4>1, <5>1 DEF OpenTurns
      <4>2. CASE role # "user"
        <5>1. ~AwaitsReply(r, to)'
          BY <1>6, <4>2 DEF AwaitsReply
        <5> QED
          BY <1>6, <3>1, <3>5, <4>2, <5>1 DEF OpenTurns
      <4> QED
        BY <4>1, <4>2
    <3>7. ASSUME NEW s \in Id \ {to}
          PROVE  InTurns(messages'[s], s) /\ OpenTurns(s)'
      <4>1. ~AwaitsReply(r, s) /\ ~AwaitsReply(r, s)'
        BY <1>6, <2>1, <3>7 DEF AwaitsReply
      <4> QED
        BY <1>1, <1>3, <2>6, <3>7, <4>1
    <3> QED
      BY <3>5, <3>6, <3>7 DEF TurnsInv, LockedTurns
  <2> QED
    BY <2>4, <2>5
<1>7. CASE PostUser(r)
  <2>1. Goto(r, "postReply") /\ UNCHANGED req /\ pc[r] = "postUser"
    BY <1>7 DEF PostUser, At
  <2>2. pc'[r] = "postReply"
    BY <1>0, <2>1, GotoType DEF Step
  <2> QED
    BY <1>6, <1>7, <2>1, <2>2 DEF PostUser
<1>8. CASE PostReply(r)
  <2>1. pc[r] = "postReply" /\ pc'[r] = "idle"
    BY <1>0, <1>8, ReturnType DEF PostReply, At
  <2> QED
    BY <1>6, <1>8, <2>1 DEF PostReply
<1> QED
  BY <1>2, <1>5, <1>7, <1>8, SilentSteps

LEMMA InitInTurns == Init => TurnsInv
<1> SUFFICES ASSUME Init PROVE TurnsInv
  OBVIOUS
<1>1. \A s \in Id : messages[s] = <<>> /\ DOMAIN messages[s] = {}
  BY DEF Init
<1>2. \A q \in Requests : pc[q] = "idle"
  BY DEF Init
<1> QED
  BY <1>1, <1>2 DEF TurnsInv, LockedTurns, OpenTurns, AwaitsReply, InTurns, Own, Answered

\* With one lock table the log of a session is whole turns: every message of
\* the learner is followed by its own reply before the next one is posted,
\* whatever is asked of how many handlers at the same time.
THEOREM TurnsAreWhole ==
  ASSUME OneService
  PROVE  Spec => []LockedTurns
<1>1. TurnsInv /\ UNCHANGED vars => TurnsInv'
  <2> SUFFICES ASSUME TurnsInv, UNCHANGED vars PROVE TurnsInv'
    OBVIOUS
  <2> QED
    BY DEF TurnsInv, LockedTurns, OpenTurns, AwaitsReply, vars
<1>2. Shape /\ TakesTurns /\ TurnsInv /\ [Next]_vars => TurnsInv'
  BY <1>1, InTurnsStep DEF Next
<1>3. Shape /\ TakesTurns /\ [Next]_vars => TakesTurns'
  BY TurnsNext
<1>4. TurnsInv => LockedTurns
  BY DEF TurnsInv
<1> QED
  BY <1>2, <1>3, <1>4, InitShape, InitTurns, InitInTurns, ShapeStep, PTL DEF Spec
=============================================================================
