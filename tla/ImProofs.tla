------------------------------ MODULE ImProofs ------------------------------
(***************************************************************************)
(* Theorems about the IM gateway's side: ChannelBinding, for any learners, *)
(* accounts, codes and messages in flight (no binding dangles, and a code  *)
(* lets one message in), and ImRouter, for any learners, courses and       *)
(* goroutines (an active node can be talked to, and none is skipped).      *)
(***************************************************************************)
EXTENDS ChannelBinding, ImRouter, FiniteSetTheorems, SequenceTheorems,
        WellFoundedInduction, TLAPS

(***************************************************************************)
(* ChannelBinding.                                                         *)
(***************************************************************************)
\* The state has the shape that BindingTypeOK says; in particular no chat
\* account is bound to a learner who has been deleted.
THEOREM BindingTyped == BindingSpec => []BindingTypeOK
<1>1. BindingInit => BindingTypeOK
  BY BindingAssumption DEF BindingInit, BindingTypeOK
<1>2. BindingTypeOK /\ [BindingNext]_bindVars => BindingTypeOK'
  <2> SUFFICES ASSUME BindingTypeOK, [BindingNext]_bindVars PROVE BindingTypeOK'
    OBVIOUS
  <2> USE BindingAssumption DEF BindingTypeOK
  <2>1. ASSUME NEW k \in Codes, CreateBindCode(k) PROVE BindingTypeOK'
    BY <2>1 DEF CreateBindCode
  <2>2. ASSUME NEW k \in Codes, CodeExpires(k) PROVE BindingTypeOK'
    BY <2>2 DEF CodeExpires
  <2>3. ASSUME NEW u \in Learners, DeleteUser(u) PROVE BindingTypeOK'
    BY <2>3 DEF DeleteUser
  <2>4. ASSUME NEW r \in Readers, RedeemClaims(r) PROVE BindingTypeOK'
    <3>1. reader[r] \in [at : {"claim", "bind"}, code : Codes]
      BY <2>4 DEF RedeemClaims, Waits
    <3> QED
      BY <2>4, <3>1 DEF RedeemClaims
  <2>5. ASSUME NEW r \in Readers, BindsAccount(r) PROVE BindingTypeOK'
    BY <2>5 DEF BindsAccount
  <2>6. ASSUME NEW r \in Readers, NEW k \in Codes, RedeemReads(r, k)
        PROVE  BindingTypeOK'
    BY <2>6 DEF RedeemReads
  <2>7. ASSUME NEW r \in Readers, NEW u \in Learners, BindByName(r, u)
        PROVE  BindingTypeOK'
    BY <2>7 DEF BindByName
  <2>8. CASE UNCHANGED bindVars
    BY <2>8 DEF bindVars
  <2> QED
    BY <2>1, <2>2, <2>3, <2>4, <2>5, <2>6, <2>7, <2>8 DEF BindingNext
<1> QED
  BY <1>1, <1>2, PTL DEF BindingSpec
-----------------------------------------------------------------------------
\* A code that can still be claimed has let nobody in: what CodeBindsOnce
\* needs of the states before the claim.
Unspent ==
  \A k \in Codes : code[k] \in {"none", "fresh", "expired"} => redeemed[k] = {}

\* The claim is one UPDATE that looks at used_at: whatever else runs between
\* the reading of a code and its claim, a code lets at most one message in.
THEOREM BindsOnce == BindingSpec => []CodeBindsOnce
<1> DEFINE IInv == Unspent /\ CodeBindsOnce
<1>1. BindingInit => IInv
  BY FS_EmptySet DEF BindingInit, Unspent, CodeBindsOnce
<1>2. BindingTypeOK /\ IInv /\ [BindingNext]_bindVars => IInv'
  <2> SUFFICES ASSUME BindingTypeOK, Unspent, CodeBindsOnce, [BindingNext]_bindVars
               PROVE  Unspent' /\ CodeBindsOnce'
    OBVIOUS
  <2>1. CASE redeemed' = redeemed
             /\ \A k \in Codes : code'[k] \in {"none", "fresh", "expired"}
                                   => code[k] \in {"none", "fresh", "expired"}
    BY <2>1 DEF Unspent, CodeBindsOnce
  <2>2. ASSUME NEW k \in Codes, CreateBindCode(k) \/ CodeExpires(k)
        PROVE  Unspent' /\ CodeBindsOnce'
    BY <2>1, <2>2 DEF CreateBindCode, CodeExpires, BindingTypeOK
  <2>3. ASSUME NEW u \in Learners, DeleteUser(u) PROVE Unspent' /\ CodeBindsOnce'
    BY <2>1, <2>3 DEF DeleteUser, BindingTypeOK
  <2>4. ASSUME NEW r \in Readers, RedeemClaims(r) PROVE Unspent' /\ CodeBindsOnce'
    <3> DEFINE k == reader[r].code
    <3>1. k \in Codes
      BY <2>4 DEF RedeemClaims, BindingTypeOK, Waits
    <3>2. CASE code[k] \in {"fresh", "expired"}
      <4>1. /\ code' = [code EXCEPT ![k] = "used"]
            /\ redeemed' = [redeemed EXCEPT ![k] = @ \cup {r}]
        BY <2>4, <3>2 DEF RedeemClaims
      <4>2. redeemed'[k] = {r}
        BY <3>1, <3>2, <4>1 DEF Unspent, BindingTypeOK
      <4>3. Cardinality(redeemed'[k]) = 1
        BY <4>2, FS_Singleton
      <4>4. \A j \in Codes \ {k} : code'[j] = code[j] /\ redeemed'[j] = redeemed[j]
        BY <4>1 DEF BindingTypeOK
      <4>5. code'[k] = "used"
        BY <3>1, <4>1 DEF BindingTypeOK
      <4>6. Unspent'
        BY <4>4, <4>5 DEF Unspent
      <4>7. CodeBindsOnce'
        BY <4>3, <4>4 DEF CodeBindsOnce
      <4> QED
        BY <4>6, <4>7
    <3>3. CASE code[k] \notin {"fresh", "expired"}
      BY <2>1, <2>4, <3>3 DEF RedeemClaims
    <3> QED
      BY <3>2, <3>3
  <2>5. ASSUME NEW r \in Readers,
               \/ BindsAccount(r)
               \/ \E k \in Codes : RedeemReads(r, k)
               \/ \E u \in Learners : BindByName(r, u)
        PROVE  Unspent' /\ CodeBindsOnce'
    BY <2>1, <2>5 DEF BindsAccount, RedeemReads, BindByName
  <2>6. CASE UNCHANGED bindVars
    BY <2>1, <2>6 DEF bindVars
  <2> QED
    BY <2>2, <2>3, <2>4, <2>5, <2>6 DEF BindingNext
<1>3. IInv => CodeBindsOnce
  OBVIOUS
<1> QED
  BY <1>1, <1>2, <1>3, BindingTyped, PTL DEF BindingSpec

(***************************************************************************)
(* ImRouter.                                                               *)
(***************************************************************************)
AtSession == {"chat", "coach", "continue", "answered", "next"}
Steps == {"idle", "start", "activate"} \cup AtSession
Stages == {"none", "created", "progress", "lit", "selected", "moved"}
Spot == [course : CourseIds \cup {0}, node : Nat, from : Nat]
Handled == [at : Steps, user : Pupils \cup {"nobody"}, course : CourseIds \cup {0},
            node : Nat, from : Nat, row : CourseIds \cup {0}]

\* A node that is named is one of the course; so is the node of a session that
\* has been moved.
InCourse(p) ==
  p.course \in CourseIds => p.node \in NodeIds(p.course) /\ p.from \in NodeIds(p.course)
InRow(p) == p.row \in CourseIds => p.node \in NodeIds(p.row)
Named(p) == p.at # "idle" => p.course \in CourseIds /\ p.row \in CourseIds

NodesOK == visited \in [CourseIds -> SUBSET Nat] /\ finished \in [CourseIds -> SUBSET Nat]
           /\ mastered \in [CourseIds -> SUBSET Nat]

RouterTypeOK ==
  /\ pending \in [Pupils -> CourseIds \cup {0}]
  /\ active \in [Pupils -> Spot] /\ \A u \in Pupils : InCourse(active[u])
  /\ live \subseteq CourseIds
  /\ NodesOK
  /\ regen \in [FirstCourses -> [at : Stages, nodes : SUBSET Nat]]
  /\ \A c \in FirstCourses : regen[c].nodes \subseteq NodeIds(ReplacementOf[c])
  /\ msg \in [Slots -> Handled]
  /\ \A m \in Slots : InCourse(msg[m]) /\ InRow(msg[m]) /\ Named(msg[m])

\* Courses that are there and have not given their sessions away.
Current == live \ Gone

\* The node p has a session; the nodes before it are lit or have a completed
\* one (v, f and g stand for the nodes with a session, with a completed session,
\* and for those that are lit).
Talks(v, courses, p) == p.course \in courses => p.node \in v[p.course]
Passed(f, g, courses, p) ==
  p.course \in courses =>
    \A n \in p.from .. (p.node - 1) : n \in g[p.course] \cup f[p.course]

\* Nobody knows of a course that does not exist yet.
Unborn(c) == /\ c \notin live
             /\ \A u \in Pupils : active[u].course # c
             /\ \A m \in Slots : msg[m].course # c /\ msg[m].row # c

\* What a goroutine knows of the node it is at.
Knows(v, f, g, courses, p) ==
  /\ p.at = "activate" => Talks(v, courses, p)
  /\ p.at \in AtSession \cup {"activate"} => Passed(f, g, courses, p)
  /\ p.at = "start" => p.from = p.node
  /\ p.at = "continue" /\ p.course \in courses => p.node \in g[p.course] \cup f[p.course]

RouterInv ==
  /\ RouterTypeOK
  /\ \A c \in FirstCourses : regen[c].at = "none" => Unborn(ReplacementOf[c])
  /\ \A u \in Pupils : /\ u \notin missed => Talks(visited, Current, active[u])
                       /\ Passed(finished, mastered, Current, active[u])
  /\ \A m \in Slots : Knows(visited, finished, mastered, Current, msg[m])

\* A set of numbers that is not empty has a least one.
LEMMA LeastIsLeast ==
  ASSUME NEW S \in SUBSET Nat, S # {}
  PROVE  Least(S) \in S /\ \A j \in S : Least(S) <= j
<1> DEFINE Less == {ss \in Nat \X Nat : ss[1] < ss[2]}
<1>1. IsWellFoundedOn(Less, Nat)
  BY NatLessThanWellFounded DEF OpToRel
<1> HIDE DEF Less
<1>2. PICK k \in S : \A j \in S : <<j, k>> \notin Less
  BY <1>1, WFMin
<1>4. \A j \in S : ~(j < k)
  BY <1>2 DEF Less
<1>3. \A j \in S : k <= j
  BY <1>4
<1> QED
  BY <1>2, <1>3 DEF Least

\* Of the courses that are current afterwards, sessions come and nodes are lit;
\* nothing else happens to them.
LEMMA Keeps ==
  ASSUME NEW A, NEW B, NEW p,
         p.course \in B => /\ p.course \in A
                           /\ visited[p.course] \subseteq visited'[p.course]
                           /\ finished[p.course] \subseteq finished'[p.course]
                           /\ mastered[p.course] \subseteq mastered'[p.course]
  PROVE  /\ Talks(visited, A, p) => Talks(visited', B, p)
         /\ Passed(finished, mastered, A, p) => Passed(finished', mastered', B, p)
         /\ Knows(visited, finished, mastered, A, p)
              => Knows(visited', finished', mastered', B, p)
<1>1. Talks(visited, A, p) => Talks(visited', B, p)
  BY DEF Talks
<1>2. Passed(finished, mastered, A, p) => Passed(finished', mastered', B, p)
  BY DEF Passed
<1>3. p.course \in B /\ p.node \in mastered[p.course] \cup finished[p.course]
        => p.course \in A /\ p.node \in mastered'[p.course] \cup finished'[p.course]
  OBVIOUS
<1> QED
  BY <1>1, <1>2, <1>3 DEF Knows

\* In every course sessions come and nodes are lit.
Onward == /\ NodesOK'
          /\ \A c \in CourseIds : /\ visited[c] \subseteq visited'[c]
                                  /\ finished[c] \subseteq finished'[c]
                                  /\ mastered[c] \subseteq mastered'[c]

\* A step of a goroutine that goes on with l, or of no goroutine.
LEMMA GoesOn ==
  ASSUME RouterInv, NEW m \in Slots, NEW l \in Handled,
         UNCHANGED <<active, live, regen, missed>>, Onward,
         pending' \in [Pupils -> CourseIds \cup {0}],
         msg' = [msg EXCEPT ![m] = l],
         InCourse(l), InRow(l), Named(l),
         Knows(visited', finished', mastered', Current, l),
         \A x \in {l.course, l.row} :
           \/ x = 0 \/ x \in live \/ x \in {msg[m].course, msg[m].row}
           \/ \E u \in Pupils : x = active[u].course
  PROVE  RouterInv'
<1> USE RouterAssumption
<1>0. RouterTypeOK /\ NodesOK' /\ Current \subseteq CourseIds /\ Current' = Current
  BY DEF RouterInv, RouterTypeOK, Onward, Current, Gone
<1>1. /\ msg' \in [Slots -> Handled] /\ msg'[m] = l
      /\ \A q \in Slots : q # m => msg'[q] = msg[q]
  BY <1>0 DEF RouterTypeOK
<1>2. RouterTypeOK'
  <2>1. \A q \in Slots : InCourse(msg'[q]) /\ InRow(msg'[q]) /\ Named(msg'[q])
    BY <1>0, <1>1 DEF RouterTypeOK
  <2> QED
    BY <1>0, <1>1, <2>1 DEF RouterTypeOK, InCourse, InRow, Named
<1>3. ASSUME NEW c \in FirstCourses, regen'[c].at = "none"
      PROVE  Unborn(ReplacementOf[c])'
  <2>1. Unborn(ReplacementOf[c]) /\ ReplacementOf[c] # 0
    BY <1>3 DEF RouterInv
  <2>2. l.course # ReplacementOf[c] /\ l.row # ReplacementOf[c]
    BY <2>1 DEF Unborn
  <2> QED
    BY <1>1, <2>1, <2>2 DEF Unborn
<1>4. ASSUME NEW u \in Pupils
      PROVE  /\ u \notin missed => Talks(visited', Current, active[u])
             /\ Passed(finished', mastered', Current, active[u])
  <2>1. PICK p : p = active[u]
    OBVIOUS
  <2>2. /\ u \notin missed => Talks(visited, Current, p)
        /\ Passed(finished, mastered, Current, p)
    BY <2>1 DEF RouterInv
  <2> QED
    BY <1>0, <2>1, <2>2, Keeps DEF Onward
<1>5. ASSUME NEW q \in Slots
      PROVE  Knows(visited', finished', mastered', Current, msg'[q])
  <2>1. CASE q = m
    BY <1>1, <2>1
  <2>2. CASE q # m
    <3>1. PICK p : p = msg[q]
      OBVIOUS
    <3>2. Knows(visited, finished, mastered, Current, p)
      BY <3>1 DEF RouterInv
    <3> QED
      BY <1>0, <1>1, <2>2, <3>1, <3>2, Keeps DEF Onward
  <2> QED
    BY <2>1, <2>2
<1> QED
  BY <1>0, <1>2, <1>3, <1>4, <1>5 DEF RouterInv

\* A handler that is done.
LEMMA ReturnsOn ==
  ASSUME RouterInv, NEW m \in Slots, Returns(m),
         UNCHANGED <<pending, active, live, regen, missed>>, Onward
  PROVE  RouterInv'
<1>1. /\ Resting \in Handled /\ Resting.at = "idle"
      /\ Resting.course = 0 /\ Resting.row = 0
  BY DEF Resting, Handled, Steps
<1>2. /\ InCourse(Resting) /\ InRow(Resting) /\ Named(Resting)
      /\ Knows(visited', finished', mastered', Current, Resting)
  BY <1>1, RouterAssumption DEF InCourse, InRow, Named, Knows, AtSession
<1>3. pending \in [Pupils -> CourseIds \cup {0}]
  BY DEF RouterInv, RouterTypeOK
<1> QED
  BY <1>1, <1>2, <1>3, GoesOn DEF Returns

LEMMA Stays ==
  ASSUME NodesOK, UNCHANGED nodeVars
  PROVE  Onward
BY DEF Onward, NodesOK, nodeVars

\* A course or a node is chosen and nothing becomes active yet.
LEMMA Chosen ==
  ASSUME RouterInv, NEW m \in Slots, NEW u \in Pupils,
         UNCHANGED <<active, live, nodeVars, regen, missed>>,
         pending' \in [Pupils -> CourseIds \cup {0}],
         \/ UNCHANGED msg
         \/ \E c \in live : \E n \in NodeIds(c) :
              Takes(m, "start", u, AskedFor(c, n))
  PROVE  RouterInv'
<1> USE RouterAssumption
<1>0. RouterTypeOK /\ live \subseteq CourseIds /\ NodesOK /\ UNCHANGED nodeVars
  BY DEF RouterInv, RouterTypeOK
<1>1. Onward
  BY <1>0, Stays
<1>2. CASE UNCHANGED msg
  <2>1. PICK l : l = msg[m]
    OBVIOUS
  <2>2. msg' = [msg EXCEPT ![m] = l] /\ l \in Handled
    BY <1>0, <1>2, <2>1 DEF RouterTypeOK
  <2>3. InCourse(l) /\ InRow(l) /\ Named(l)
    BY <1>0, <2>1 DEF RouterTypeOK
  <2>4. Knows(visited', finished', mastered', Current, l)
    BY <2>1 DEF RouterInv, nodeVars
  <2> QED
    BY <1>1, <2>1, <2>2, <2>3, <2>4, GoesOn
<1>3. ASSUME NEW c \in live, NEW n \in NodeIds(c), Takes(m, "start", u, AskedFor(c, n))
      PROVE  RouterInv'
  <2>1. c \in CourseIds /\ n \in Nat
    BY <1>0 DEF NodeIds
  <2>2. PICK l : l = [at |-> "start", user |-> u, course |-> c, node |-> n,
                      from |-> n, row |-> c]
    OBVIOUS
  <2>3. /\ l \in Handled /\ l.at = "start" /\ l.course = c /\ l.node = n
        /\ l.from = n /\ l.row = c
    BY <2>1, <2>2 DEF Handled, Steps
  <2>4. msg' = [msg EXCEPT ![m] = l]
    BY <1>3, <2>2 DEF Takes, AskedFor
  <2>5. /\ InCourse(l) /\ InRow(l) /\ Named(l)
        /\ Knows(visited', finished', mastered', Current, l)
    BY <2>1, <2>3 DEF InCourse, InRow, Named, Knows, AtSession
  <2> QED
    BY <1>1, <2>3, <2>4, <2>5, GoesOn
<1> QED
  BY <1>2, <1>3

LEMMA ChosenCourse ==
  ASSUME RouterInv, NEW u \in Pupils
  PROVE  CourseChosen(u) \in CourseIds \cup {0}
BY DEF RouterInv, RouterTypeOK, CourseChosen, Spot

LEMMA Chooses ==
  ASSUME RouterInv, NEW m \in Slots, NEW u \in Pupils,
         \/ \E c \in CourseIds : handleLearn(m, u, c)
         \/ \E n \in UNION {NodeIds(c) : c \in CourseIds} :
              handleNode(m, u, n) \/ executeStartNode(m, u, n)
  PROVE  RouterInv'
<1>0. pending \in [Pupils -> CourseIds \cup {0}] /\ live \subseteq CourseIds
  BY DEF RouterInv, RouterTypeOK
<1>1. ASSUME NEW c \in CourseIds, handleLearn(m, u, c) PROVE RouterInv'
  BY <1>0, <1>1, Chosen DEF handleLearn
<1>2. ASSUME NEW n, handleNode(m, u, n) PROVE RouterInv'
  BY <1>0, <1>2, Chosen DEF handleNode
<1>3. ASSUME NEW n, executeStartNode(m, u, n) PROVE RouterInv'
  <2>1. PICK intent \in matchLearnOrStartNode(u) \cup ParseNavIntent(u) :
          LET c == CourseMeant(u, intent.course) IN
          /\ c # 0
          /\ pending' = IF intent.named THEN [pending EXCEPT ![u] = c] ELSE pending
          /\ IF c \in live /\ n \in NodeIds(c)
             THEN Takes(m, "start", u, AskedFor(c, n)) ELSE UNCHANGED msg
    BY <1>3 DEF executeStartNode
  <2>2. Owned(u) \subseteq CourseIds
    BY <1>0 DEF Owned
  <2>3. intent.course \in CourseIds \cup {0}
    <3>1. CASE intent = [named |-> FALSE, course |-> 0]
      BY <3>1
    <3>2. CASE intent \in [named : {TRUE}, course : Owned(u) \cup {0}]
      BY <2>2, <3>2
    <3>3. CASE intent \in [named : {TRUE}, course : Owned(u)]
      BY <2>2, <3>3
    <3> QED
      BY <3>1, <3>2, <3>3 DEF matchLearnOrStartNode, ParseNavIntent, resolveCourseRef
  <2>4. \A c \in live : Owned(u) = {c} => (CHOOSE x \in live : Owned(u) = {x}) \in live
    OBVIOUS
  <2>5. CourseMeant(u, intent.course) \in CourseIds \cup {0}
    BY <1>0, <2>3, <2>4, ChosenCourse DEF CourseMeant
  <2>6. pending' \in [Pupils -> CourseIds \cup {0}]
    BY <1>0, <2>1, <2>5
  <2>7. UNCHANGED <<active, live, nodeVars, regen, missed>>
    BY <1>3 DEF executeStartNode
  <2> QED
    BY <2>1, <2>6, <2>7, Chosen
<1> QED
  BY <1>1, <1>2, <1>3

\* A message reaches the coach or asks for the next node: the goroutine knows
\* what is known of the active node.
LEMMA ReachesCoach ==
  ASSUME RouterInv, NEW m \in Slots, NEW u \in Pupils,
         handleChat(m, u) \/ handleNextSection(m, u)
  PROVE  RouterInv'
<1> USE RouterAssumption
<1>0. /\ RouterTypeOK /\ NodesOK /\ active[u] \in Spot /\ HasSession(active[u])
      /\ UNCHANGED <<pending, active, live, nodeVars, regen, missed>>
      /\ pending \in [Pupils -> CourseIds \cup {0}]
  BY DEF RouterInv, RouterTypeOK, handleChat, handleNextSection
<1>1. PICK step \in {"chat", "next"} : Takes(m, step, u, active[u])
  BY DEF handleChat, handleNextSection
<1>2. PICK l : l = [at |-> step, user |-> u, course |-> active[u].course,
                    node |-> active[u].node, from |-> active[u].from,
                    row |-> active[u].course]
  OBVIOUS
<1>3. /\ l \in Handled /\ l.at = step /\ l.course = active[u].course
      /\ l.node = active[u].node /\ l.from = active[u].from /\ l.row = l.course
  BY <1>0, <1>2 DEF Handled, Steps, AtSession, Spot
<1>4. msg' = [msg EXCEPT ![m] = l]
  BY <1>1, <1>2 DEF Takes
<1>5. InCourse(l) /\ InRow(l) /\ Named(l)
  <2>1. InCourse(active[u]) /\ active[u].course \in CourseIds
    BY <1>0 DEF RouterTypeOK, HasSession, Spot
  <2> QED
    BY <1>3, <2>1 DEF InCourse, InRow, Named
<1>6. Passed(finished, mastered, Current, l)
  BY <1>3 DEF RouterInv, Passed
<1>7. Knows(visited', finished', mastered', Current, l)
  BY <1>0, <1>3, <1>6 DEF Knows, nodeVars
<1> QED
  BY <1>0, <1>3, <1>4, <1>5, <1>7, Stays, GoesOn

\* A session that is opened, or whose opening fails, leaves the others.
LEMMA OpensOnward ==
  ASSUME NodesOK, NEW c \in CourseIds, NEW n \in Nat, UNCHANGED mastered,
         Opens(c, n) \/ OpeningFails(c, n) \/ UNCHANGED <<visited, finished>>
  PROVE  Onward /\ (Opens(c, n) => n \in visited'[c])
<1>1. CASE Opens(c, n)
  <2>1. /\ visited' = [visited EXCEPT ![c] = visited[c] \cup {n}]
        /\ \/ finished' = [finished EXCEPT ![c] = finished[c] \cup {n}]
           \/ finished' = [finished EXCEPT ![c] = finished[c]]
    BY <1>1 DEF Opens
  <2> QED
    BY <2>1 DEF Onward, NodesOK
<1>2. CASE UNCHANGED <<visited, finished>>
  <2>1. Onward
    BY <1>2 DEF Onward, NodesOK
  <2> QED
    BY <1>1, <2>1
<1> QED
  BY <1>1, <1>2 DEF OpeningFails

LEMMA Starts ==
  ASSUME RouterInv, NEW m \in Slots, StartsSession(m)
  PROVE  RouterInv'
<1> USE RouterAssumption
<1>1. PICK p : p = msg[m]
  OBVIOUS
<1>0. /\ NodesOK /\ p \in Handled /\ InCourse(p) /\ InRow(p) /\ p.course \in CourseIds
      /\ p.row \in CourseIds /\ p.from = p.node /\ p.node \in Nat
      /\ pending \in [Pupils -> CourseIds \cup {0}]
      /\ UNCHANGED <<pending, active, live, mastered, regen, missed>>
  BY <1>1 DEF RouterInv, RouterTypeOK, StartsSession, Knows, Named, Handled
<1>2. \/ /\ Returns(m)
         /\ OpeningFails(p.course, p.node) \/ UNCHANGED <<visited, finished>>
      \/ Opens(p.course, p.node) /\ msg' = [msg EXCEPT ![m].at = "activate"]
  BY <1>1 DEF StartsSession
<1>3. Onward /\ (Opens(p.course, p.node) => p.node \in visited'[p.course])
  BY <1>0, <1>2, OpensOnward
<1>4. CASE Returns(m)
  BY <1>0, <1>3, <1>4, ReturnsOn
<1>5. CASE Opens(p.course, p.node) /\ msg' = [msg EXCEPT ![m].at = "activate"]
  <2>1. PICK l : l = [p EXCEPT !.at = "activate"]
    OBVIOUS
  <2>2. /\ l \in Handled /\ l.at = "activate" /\ l.course = p.course /\ l.node = p.node
        /\ l.from = p.from /\ l.row = p.row
    BY <1>0, <2>1 DEF Handled, Steps
  <2>3. msg' = [msg EXCEPT ![m] = l]
    BY <1>1, <1>5, <2>1
  <2>4. InCourse(l) /\ InRow(l) /\ Named(l)
    BY <1>0, <2>2 DEF InCourse, InRow, Named
  <2>5. Knows(visited', finished', mastered', Current, l)
    BY <1>0, <1>3, <1>5, <2>2 DEF Knows, Talks, Passed
  <2>6. l.course = msg[m].course /\ l.row = msg[m].row
    BY <1>1, <2>2
  <2> QED
    BY <1>0, <1>3, <2>2, <2>3, <2>4, <2>5, <2>6, GoesOn
<1> QED
  BY <1>2, <1>4, <1>5

\* The session is read again: it is where it was, or in the replacement, and
\* there the way to its node begins anew.
LEMMA Rereads ==
  ASSUME RouterInv, NEW m \in Slots, msg[m].at \in AtSession
  PROVE  /\ Reread(m) \in Handled /\ InCourse(Reread(m)) /\ InRow(Reread(m))
         /\ Reread(m).course \in CourseIds /\ Reread(m).course = msg[m].row
         /\ Reread(m).row = msg[m].row /\ Reread(m).node = msg[m].node
         /\ Passed(finished, mastered, Current, Reread(m))
<1>1. PICK p : p = msg[m]
  OBVIOUS
<1>0. /\ p \in Handled /\ InCourse(p) /\ InRow(p) /\ p.course \in CourseIds
      /\ p.row \in CourseIds /\ p.node \in Nat /\ p.from \in Nat
      /\ Passed(finished, mastered, Current, p)
  BY <1>1 DEF RouterInv, RouterTypeOK, Named, Knows, Handled, AtSession
<1>2. PICK q : q = Reread(m)
  OBVIOUS
<1>3. CASE p.row = p.course
  BY <1>0, <1>1, <1>3 DEF Reread
<1>4. CASE p.row # p.course
  <2>1. q = [p EXCEPT !.course = p.row, !.from = p.node]
    BY <1>1, <1>2, <1>4 DEF Reread
  <2>2. /\ q.course = p.row /\ q.from = p.node /\ q.node = p.node /\ q.row = p.row
        /\ q \in Handled
    BY <1>0, <2>1 DEF Handled
  <2>3. InCourse(q) /\ InRow(q)
    BY <1>0, <2>2 DEF InCourse, InRow
  <2>4. Passed(finished, mastered, Current, q)
    BY <1>0, <2>2 DEF Passed
  <2> QED
    BY <1>0, <1>1, <1>2, <2>2, <2>3, <2>4
<1> QED
  BY <1>3, <1>4

LEMMA ReadsItsSession ==
  ASSUME RouterInv, NEW m \in Slots, SendCoachMessage(m) \/ CoachAnswered(m)
  PROVE  RouterInv'
<1> USE RouterAssumption
<1>0. /\ NodesOK /\ msg[m].at \in AtSession
      /\ pending \in [Pupils -> CourseIds \cup {0}]
      /\ UNCHANGED <<pending, active, live, nodeVars, regen, missed>>
  BY DEF RouterInv, RouterTypeOK, SendCoachMessage, CoachAnswered, AtSession
<1>1. PICK p : p = Reread(m)
  OBVIOUS
<1>2. /\ p \in Handled /\ InCourse(p) /\ InRow(p) /\ p.course \in CourseIds
      /\ p.course = msg[m].row /\ p.row = msg[m].row
      /\ Passed(finished, mastered, Current, p)
  BY <1>0, <1>1, Rereads
<1>3. Onward
  BY <1>0, Stays
<1>4. CASE Returns(m)
  BY <1>0, <1>3, <1>4, ReturnsOn
<1>5. ASSUME NEW step \in {"coach", "continue", "activate"}, HasSession(p),
             step = "continue" => p.node \in finished[p.course],
             msg' = [msg EXCEPT ![m] = [p EXCEPT !.at = step]]
      PROVE  RouterInv'
  <2>1. PICK l : l = [p EXCEPT !.at = step]
    OBVIOUS
  <2>2. /\ l \in Handled /\ l.at = step /\ l.course = p.course /\ l.node = p.node
        /\ l.from = p.from /\ l.row = p.row
    BY <1>2, <2>1 DEF Handled, Steps, AtSession
  <2>3. InCourse(l) /\ InRow(l) /\ Named(l)
    BY <1>2, <2>2 DEF InCourse, InRow, Named
  <2>4. Passed(finished, mastered, Current, l)
    BY <1>2, <2>2 DEF Passed
  <2>5. Knows(visited', finished', mastered', Current, l)
    BY <1>0, <1>5, <2>2, <2>4 DEF Knows, Talks, HasSession, nodeVars
  <2> QED
    BY <1>0, <1>2, <1>3, <1>5, <2>1, <2>2, <2>3, <2>5, GoesOn
<1> QED
  BY <1>1, <1>4, <1>5 DEF SendCoachMessage, CoachAnswered

LEMMA Coached ==
  ASSUME RouterInv, NEW m \in Slots, CoachReplies(m)
  PROVE  RouterInv'
<1> DEFINE c == msg[m].course
           n == msg[m].node
           r == msg[m].row
<1>0. /\ NodesOK /\ c \in CourseIds /\ r \in CourseIds /\ n \in Nat
      /\ UNCHANGED <<pending, active, live, visited, regen, missed>> /\ Returns(m)
  BY DEF RouterInv, RouterTypeOK, CoachReplies, Named, Handled
<1>1. /\ mastered' \in {mastered, [mastered EXCEPT ![c] = mastered[c] \cup {n}]}
      /\ finished' \in {finished, [finished EXCEPT ![r] = finished[r] \cup {n}]}
  BY DEF CoachReplies
<1>2. Onward
  BY <1>0, <1>1 DEF Onward, NodesOK
<1> QED
  BY <1>0, <1>2, ReturnsOn

\* The next node is the first one after a done node that is not lit itself.
LEMMA NextPasses ==
  ASSUME NodesOK, Onward, NEW p, p.course \in CourseIds, InCourse(p),
         p.node \in Nat, p.from \in Nat, Later(p.course, p.node) # {},
         NEW courses, Passed(finished, mastered, courses, p),
         p.course \in courses => p.node \in mastered'[p.course] \cup finished'[p.course],
         NEW q, q.course = p.course, q.from = p.from,
         q.node = Least(Later(p.course, p.node))
  PROVE  /\ q.node \in NodeIds(q.course) /\ q.node \in Nat /\ InCourse(q)
         /\ Passed(finished', mastered', courses, q)
<1> USE RouterAssumption
<1> DEFINE c == p.course
           S == Later(c, p.node)
<1>1. LastNode[c] \in Nat /\ S \in SUBSET Nat
  BY DEF Later, NodeIds
<1>2. Least(S) \in S /\ \A j \in S : Least(S) <= j
  BY <1>1, LeastIsLeast
<1>3. q.node \in NodeIds(c) /\ q.node > p.node /\ q.node \in Nat /\ p.from >= 1
  <2>1. q.node \in S
    BY <1>2
  <2>2. q.node \in NodeIds(c) /\ q.node > p.node
    BY <2>1 DEF Later
  <2>3. p.from \in NodeIds(c)
    BY DEF InCourse
  <2> QED
    BY <1>1, <2>2, <2>3 DEF NodeIds
<1>4. InCourse(q)
  BY <1>3 DEF InCourse
<1>5. ASSUME NEW k \in p.from .. (q.node - 1), c \in courses
      PROVE  k \in mastered'[c] \cup finished'[c]
  <2>1. k \in NodeIds(c) /\ k \in Nat
    BY <1>1, <1>3, <1>5 DEF NodeIds
  <2>2. CASE k < p.node
    <3>1. k \in mastered[c] \cup finished[c]
      BY <1>5, <2>1, <2>2 DEF Passed
    <3> QED
      BY <3>1 DEF Onward
  <2>3. CASE k = p.node
    BY <1>5, <2>3
  <2>4. CASE k > p.node
    <3>1. k \notin S
      BY <1>2, <1>3, <1>5, <2>1
    <3>2. k \in mastered[c]
      BY <2>1, <2>4, <3>1 DEF Later
    <3> QED
      BY <3>2 DEF Onward
  <2> QED
    BY <2>1, <2>2, <2>3, <2>4
<1>6. Passed(finished', mastered', courses, q)
  BY <1>5 DEF Passed
<1> QED
  BY <1>3, <1>4, <1>6

\* The coach, or StartNextNode, opens the node after the one at p.
LEMMA Advances ==
  ASSUME RouterInv, NEW m \in Slots, NEW p \in Handled, InCourse(p),
         p.course \in CourseIds, p.course \in {msg[m].course, msg[m].row},
         Passed(finished, mastered, Current, p),
         p.course \in Current => p.node \in mastered'[p.course] \cup finished'[p.course],
         Later(p.course, p.node) # {}, Onward, UNCHANGED <<pending, active, live, regen, missed>>,
         NEW l \in Handled, l.at \in {"answered", "activate"},
         l.course = p.course, l.row = p.course, l.from = p.from,
         l.node = Least(Later(p.course, p.node)), l.node \in visited'[l.course],
         msg' = [msg EXCEPT ![m] = l]
  PROVE  RouterInv'
<1>0. NodesOK /\ p.node \in Nat /\ p.from \in Nat /\ pending \in [Pupils -> CourseIds \cup {0}]
  BY DEF RouterInv, RouterTypeOK, Handled
<1>1. /\ l.node \in NodeIds(l.course) /\ InCourse(l)
      /\ Passed(finished', mastered', Current, l)
  BY <1>0, NextPasses
<1>2. InRow(l) /\ Named(l)
  BY <1>1 DEF InRow, Named
<1>3. Knows(visited', finished', mastered', Current, l)
  BY <1>1 DEF Knows, Talks
<1> QED
  BY <1>0, <1>1, <1>2, <1>3, GoesOn

LEMMA NextInCourse ==
  ASSUME NEW c \in CourseIds, NEW n, Later(c, n) # {}
  PROVE  Least(Later(c, n)) \in Nat
<1>1. Later(c, n) \in SUBSET Nat
  BY DEF Later, NodeIds
<1> QED
  BY <1>1, LeastIsLeast

LEMMA Continued ==
  ASSUME RouterInv, NEW m \in Slots, CoachContinues(m)
  PROVE  RouterInv'
<1> USE RouterAssumption
<1>1. PICK p : p = msg[m]
  OBVIOUS
<1> DEFINE c == p.course
<1>0. /\ NodesOK /\ p \in Handled /\ InCourse(p) /\ c \in CourseIds /\ p.node \in Nat
      /\ p.at = "continue"
      /\ Knows(visited, finished, mastered, Current, p)
      /\ UNCHANGED <<pending, active, live, mastered, regen, missed>>
  BY <1>1 DEF RouterInv, RouterTypeOK, CoachContinues, Named, Handled
<1>2. Passed(finished, mastered, Current, p)
      /\ (c \in Current => p.node \in mastered[c] \cup finished[c])
  BY <1>0 DEF Knows, AtSession
<1>3. PICK k : k = Least(Later(c, p.node))
  OBVIOUS
<1>4. CASE Returns(m) /\ UNCHANGED <<visited, finished>>
  <2>1. Onward
    BY <1>0, <1>4, Stays DEF nodeVars
  <2> QED
    BY <1>0, <1>4, <2>1, ReturnsOn
<1>5. CASE Later(c, p.node) # {} /\ OpeningFails(c, k) /\ Returns(m)
  <2>1. Onward
    BY <1>0, <1>3, <1>5, NextInCourse, OpensOnward
  <2> QED
    BY <1>0, <1>5, <2>1, ReturnsOn
<1>6. CASE /\ Later(c, p.node) # {} /\ Opens(c, k)
           /\ msg' = [msg EXCEPT ![m].at = "answered", ![m].node = k, ![m].row = c]
  <2>1. k \in Nat
    BY <1>0, <1>3, <1>6, NextInCourse
  <2>2. Onward /\ k \in visited'[c]
    BY <1>0, <1>6, <2>1, OpensOnward
  <2>3. PICK l : l = [p EXCEPT !.at = "answered", !.node = k, !.row = c]
    OBVIOUS
  <2>4. /\ l \in Handled /\ l.at = "answered" /\ l.course = c /\ l.node = k
        /\ l.from = p.from /\ l.row = c
    BY <1>0, <2>1, <2>3 DEF Handled, Steps, AtSession
  <2>5. msg' = [msg EXCEPT ![m] = l]
    BY <1>1, <1>6, <2>3
  <2>6. c \in Current => p.node \in mastered'[c] \cup finished'[c]
    BY <1>0, <1>2, <2>2 DEF Onward
  <2>7. /\ l.node = Least(Later(p.course, p.node)) /\ Later(p.course, p.node) # {}
        /\ l.node \in visited'[l.course] /\ l.course = p.course /\ l.row = p.course
        /\ p.course \in {msg[m].course, msg[m].row}
    BY <1>1, <1>3, <1>6, <2>2, <2>4
  <2> HIDE DEF c
  <2>8. /\ p.course \in CourseIds
        /\ p.course \in Current => p.node \in mastered'[p.course] \cup finished'[p.course]
    BY <1>0, <2>6 DEF c
  <2> QED
    BY <1>0, <1>2, <2>2, <2>4, <2>5, <2>7, <2>8, Advances
<1> QED
  BY <1>1, <1>3, <1>4, <1>5, <1>6 DEF CoachContinues

LEMMA Continues ==
  ASSUME RouterInv, NEW m \in Slots, StartsNext(m)
  PROVE  RouterInv'
<1> USE RouterAssumption
<1>1. PICK p : p = Reread(m)
  OBVIOUS
<1> DEFINE c == p.course
<1>0. /\ NodesOK /\ msg[m].at \in AtSession
      /\ UNCHANGED <<pending, active, live, mastered, regen, missed>>
  BY DEF RouterInv, RouterTypeOK, StartsNext, AtSession
<1>2. /\ p \in Handled /\ InCourse(p) /\ InRow(p) /\ c \in CourseIds /\ c = msg[m].row
      /\ p.row = c /\ p.node \in Nat /\ Passed(finished, mastered, Current, p)
  <2>1. Reread(m) \in Handled
    BY <1>0, Rereads
  <2> QED
    BY <1>0, <1>1, <2>1, Rereads DEF Handled
<1>3. PICK k : k = Least(Later(c, p.node))
  OBVIOUS
<1>4. CASE Returns(m) /\ UNCHANGED <<visited, finished>>
  <2>1. Onward
    BY <1>0, <1>4, Stays DEF nodeVars
  <2> QED
    BY <1>0, <1>4, <2>1, ReturnsOn
<1>5. CASE NextFrom(m, p, p.node)
  <2>1. /\ finished' = [finished EXCEPT ![c] = finished[c] \cup {p.node}]
        /\ \/ Returns(m) /\ UNCHANGED visited
           \/ /\ Later(c, p.node) # {}
              /\ visited' = [visited EXCEPT ![c] = visited[c] \cup {k}]
              /\ \/ msg' = [msg EXCEPT ![m] = [p EXCEPT !.at = "activate", !.node = k]]
                 \/ Returns(m)
    BY <1>3, <1>5 DEF NextFrom
  <2>2. Later(c, p.node) # {} => k \in Nat
    BY <1>2, <1>3, NextInCourse
  <2>3. Onward
    <3>1. CASE UNCHANGED visited
      BY <1>0, <1>2, <2>1, <3>1 DEF Onward, NodesOK
    <3>2. CASE Later(c, p.node) # {} /\ visited' = [visited EXCEPT ![c] = visited[c] \cup {k}]
      BY <1>0, <1>2, <2>1, <2>2, <3>2 DEF Onward, NodesOK
    <3> QED
      BY <2>1, <3>1, <3>2
  <2>4. CASE Returns(m)
    BY <1>0, <2>3, <2>4, ReturnsOn
  <2>5. CASE /\ Later(c, p.node) # {}
             /\ visited' = [visited EXCEPT ![c] = visited[c] \cup {k}]
             /\ msg' = [msg EXCEPT ![m] = [p EXCEPT !.at = "activate", !.node = k]]
    <3>1. PICK l : l = [p EXCEPT !.at = "activate", !.node = k]
      OBVIOUS
    <3>2. /\ l \in Handled /\ l.at = "activate" /\ l.course = c /\ l.node = k
          /\ l.from = p.from /\ l.row = c
      BY <1>2, <2>2, <2>5, <3>1 DEF Handled, Steps
    <3>3. p.node \in finished'[c] /\ k \in visited'[c]
      BY <1>0, <1>2, <2>1, <2>5 DEF NodesOK
    <3> QED
      BY <1>0, <1>2, <1>3, <2>3, <2>5, <3>1, <3>2, <3>3, Advances
  <2> QED
    BY <2>1, <2>4, <2>5
<1> QED
  BY <1>1, <1>4, <1>5 DEF StartsNext

LEMMA Activated ==
  ASSUME RouterInv, NEW m \in Slots, ActivatesNode(m)
  PROVE  RouterInv'
<1> USE RouterAssumption
<1> DEFINE p == [course |-> msg[m].course, node |-> msg[m].node, from |-> msg[m].from]
           w == msg[m].user
<1>0. /\ RouterTypeOK /\ NodesOK
      /\ msg[m] \in Handled /\ InCourse(msg[m]) /\ msg[m].course \in CourseIds
      /\ Talks(visited, Current, msg[m]) /\ Passed(finished, mastered, Current, msg[m])
      /\ UNCHANGED <<pending, live, nodeVars, regen>> /\ Returns(m)
      /\ missed' = missed \ {w}
  BY DEF RouterInv, RouterTypeOK, ActivatesNode, Knows, Named
<1>1. /\ p \in Spot /\ p.course = msg[m].course /\ p.node = msg[m].node
      /\ p.from = msg[m].from
  BY <1>0 DEF Handled, Spot
<1>2. active' = [active EXCEPT ![w] = p]
  BY DEF ActivatesNode
<1> HIDE DEF p
<1>3. /\ InCourse(p) /\ Talks(visited, Current, p)
      /\ Passed(finished, mastered, Current, p)
  BY <1>0, <1>1 DEF InCourse, Talks, Passed
<1>4. /\ active' \in [Pupils -> Spot]
      /\ \A u \in Pupils : active'[u] = (IF u = w THEN p ELSE active[u])
  BY <1>0, <1>1, <1>2 DEF RouterTypeOK
<1>5. /\ Resting \in Handled /\ Resting.at = "idle"
      /\ Resting.course = 0 /\ Resting.row = 0
  BY DEF Resting, Handled, Steps
<1>6. /\ msg' \in [Slots -> Handled] /\ msg'[m] = Resting
      /\ \A q \in Slots : q # m => msg'[q] = msg[q]
  BY <1>0, <1>5 DEF RouterTypeOK, Returns
<1>7. /\ InCourse(Resting) /\ InRow(Resting) /\ Named(Resting)
      /\ Knows(visited, finished, mastered, Current, Resting)
  BY <1>5 DEF InCourse, InRow, Named, Knows, AtSession
<1>8. RouterTypeOK'
  <2>1. \A q \in Slots : InCourse(msg'[q]) /\ InRow(msg'[q]) /\ Named(msg'[q])
    BY <1>0, <1>6, <1>7 DEF RouterTypeOK
  <2>2. \A u \in Pupils : InCourse(active'[u])
    BY <1>0, <1>3, <1>4 DEF RouterTypeOK
  <2>3. NodesOK'
    BY <1>0 DEF NodesOK, nodeVars
  <2> QED
    BY <1>0, <1>4, <1>6, <2>1, <2>2, <2>3 DEF RouterTypeOK, InCourse, InRow, Named
<1>9. ASSUME NEW c \in FirstCourses, regen'[c].at = "none"
      PROVE  Unborn(ReplacementOf[c])'
  <2>1. Unborn(ReplacementOf[c]) /\ ReplacementOf[c] # 0
    BY <1>0, <1>9 DEF RouterInv
  <2>2. \A u \in Pupils : active'[u].course # ReplacementOf[c]
    BY <1>1, <1>4, <2>1 DEF Unborn
  <2> QED
    BY <1>0, <1>5, <1>6, <2>1, <2>2 DEF Unborn
<1>10. \A u \in Pupils : /\ u \notin missed' => Talks(visited, Current, active'[u])
                         /\ Passed(finished, mastered, Current, active'[u])
  BY <1>0, <1>3, <1>4 DEF RouterInv
<1>11. \A q \in Slots : Knows(visited, finished, mastered, Current, msg'[q])
  BY <1>6, <1>7 DEF RouterInv
<1>12. Current' = Current
  BY <1>0 DEF Current, Gone
<1> QED
  BY <1>0, <1>8, <1>9, <1>10, <1>11, <1>12 DEF RouterInv, nodeVars

\* A step of the web server: courses that are current afterwards lose nothing,
\* and nobody was at one that is new.
LEMMA Serves ==
  ASSUME RouterInv, RouterTypeOK', missed \subseteq missed',
         \A c \in FirstCourses : regen'[c].at = "none" => Unborn(ReplacementOf[c])',
         \A x \in Current' : /\ x \in CourseIds /\ (x \in Current \/ Unborn(x))
                             /\ visited[x] \subseteq visited'[x]
                             /\ finished[x] \subseteq finished'[x]
                             /\ mastered[x] \subseteq mastered'[x],
         \A m \in Slots : /\ msg'[m].at = msg[m].at /\ msg'[m].course = msg[m].course
                          /\ msg'[m].node = msg[m].node /\ msg'[m].from = msg[m].from,
         \A u \in Pupils : \/ active'[u] = active[u]
                           \/ /\ u \notin missed' => Talks(visited', Current', active'[u])
                              /\ Passed(finished', mastered', Current', active'[u])
  PROVE  RouterInv'
<1>1. ASSUME NEW u \in Pupils
      PROVE  /\ u \notin missed' => Talks(visited', Current', active'[u])
             /\ Passed(finished', mastered', Current', active'[u])
  <2>1. CASE active'[u] = active[u]
    <3>1. PICK p : p = active[u]
      OBVIOUS
    <3>2. /\ u \notin missed => Talks(visited, Current, p)
          /\ Passed(finished, mastered, Current, p)
      BY <3>1 DEF RouterInv
    <3>3. p.course \in Current' => p.course \in Current
      BY <3>1 DEF Unborn
    <3> QED
      BY <2>1, <3>1, <3>2, <3>3, Keeps
  <2> QED
    BY <2>1
<1>2. ASSUME NEW m \in Slots
      PROVE  Knows(visited', finished', mastered', Current', msg'[m])
  <2>1. PICK p : p = msg[m]
    OBVIOUS
  <2>2. Knows(visited, finished, mastered, Current, p)
    BY <2>1 DEF RouterInv
  <2>3. p.course \in Current' => p.course \in Current
    BY <2>1 DEF Unborn
  <2>4. Knows(visited', finished', mastered', Current', p)
    BY <2>2, <2>3, Keeps
  <2> QED
    BY <2>1, <2>4 DEF Knows, Talks, Passed
<1> QED
  BY <1>1, <1>2 DEF RouterInv

\* The steps of a replacement before the sessions move.
LEMMA Replaces ==
  ASSUME RouterInv, NEW c \in FirstCourses,
         \/ CreateReplacement(c) \/ ReadsProgress(c) \/ MigratesProgress(c)
         \/ SelectsSessions(c)
  PROVE  RouterInv'
<1> USE RouterAssumption
<1> DEFINE d == ReplacementOf[c]
<1>0. /\ RouterTypeOK /\ NodesOK /\ c \in CourseIds /\ d \in CourseIds
      /\ UNCHANGED <<pending, active, visited, finished, msg, missed>>
  BY DEF RouterInv, RouterTypeOK, CreateReplacement, ReadsProgress, MigratesProgress,
         SelectsSessions, nodeVars
<1>1. PICK to \in Stages \ {"none", "moved"}, nodes \in SUBSET NodeIds(d) :
        regen' = [regen EXCEPT ![c] = [at |-> to, nodes |-> nodes]]
  BY DEF CreateReplacement, ReadsProgress, MigratesProgress, SelectsSessions,
         Regenerates, KeptNodes, Stages
<1>2. /\ regen[c].at # "moved"
      /\ live' = live \/ (live' = live \cup {d} /\ regen[c].at = "none")
  BY DEF CreateReplacement, ReadsProgress, MigratesProgress, SelectsSessions, Regenerates
<1>3. /\ mastered' \in [CourseIds -> SUBSET Nat]
      /\ \A x \in CourseIds : mastered[x] \subseteq mastered'[x]
  <2>1. regen[c].nodes \subseteq NodeIds(d)
    BY <1>0 DEF RouterTypeOK
  <2>2. \/ mastered' = mastered
        \/ mastered' = [mastered EXCEPT ![d] = mastered[d] \cup regen[c].nodes]
    BY DEF CreateReplacement, ReadsProgress, MigratesProgress, SelectsSessions, nodeVars
  <2> QED
    BY <1>0, <2>1, <2>2 DEF NodesOK, NodeIds
<1>4. /\ regen' \in [FirstCourses -> [at : Stages, nodes : SUBSET Nat]]
      /\ \A x \in FirstCourses : /\ x # c => regen'[x] = regen[x]
                                 /\ regen'[x].nodes \subseteq NodeIds(ReplacementOf[x])
      /\ regen'[c].at = to
  <2>1. nodes \in SUBSET Nat
    BY <1>1 DEF NodeIds
  <2>2. [at |-> to, nodes |-> nodes] \in [at : Stages, nodes : SUBSET Nat]
    BY <1>1, <2>1
  <2> QED
    BY <1>0, <1>1, <2>2 DEF RouterTypeOK
<1>5. Gone' = Gone
  BY <1>1, <1>2, <1>4 DEF Gone
<1>6. RouterTypeOK'
  BY <1>0, <1>2, <1>3, <1>4 DEF RouterTypeOK, NodesOK, InCourse, InRow, Named
<1>7. ASSUME NEW x \in FirstCourses, regen'[x].at = "none"
      PROVE  Unborn(ReplacementOf[x])'
  <2>1. x # c /\ regen[x].at = "none"
    BY <1>1, <1>4, <1>7
  <2>2. Unborn(ReplacementOf[x]) /\ ReplacementOf[x] # d
    BY <2>1 DEF RouterInv
  <2> QED
    BY <1>0, <1>2, <2>2 DEF Unborn
<1>8. \A x \in Current' : x \in CourseIds /\ (x \in Current \/ Unborn(x))
  <2>1. regen[c].at = "none" => Unborn(d)
    BY DEF RouterInv
  <2> QED
    BY <1>0, <1>2, <1>5, <2>1 DEF Current, RouterTypeOK
<1> QED
  BY <1>0, <1>3, <1>6, <1>7, <1>8, Serves

LEMMA Deletes ==
  ASSUME RouterInv, NEW c \in CourseIds, DeleteDomain(c)
  PROVE  RouterInv'
<1> USE RouterAssumption
<1>0. /\ RouterTypeOK /\ NodesOK /\ live' = live \ {c}
      /\ UNCHANGED <<pending, regen, msg, missed>> /\ Gone' = Gone
  BY DEF RouterInv, RouterTypeOK, DeleteDomain, Gone
<1>1. /\ visited' = [visited EXCEPT ![c] = {}]
      /\ finished' = [finished EXCEPT ![c] = {}]
      /\ mastered' = [mastered EXCEPT ![c] = {}]
  BY DEF DeleteDomain
<1>2. /\ NodesOK'
      /\ \A x \in CourseIds \ {c} : /\ visited'[x] = visited[x]
                                    /\ finished'[x] = finished[x]
                                    /\ mastered'[x] = mastered[x]
  BY <1>0, <1>1 DEF NodesOK
<1>3. NoNode \in Spot /\ NoNode.course = 0
  BY DEF NoNode, Spot
<1>4. /\ active' \in [Pupils -> Spot]
      /\ \A u \in Pupils : active'[u] \in {NoNode, active[u]}
  BY <1>0, <1>3 DEF DeleteDomain, RouterTypeOK
<1>5. \A u \in Pupils : InCourse(active'[u])
  BY <1>0, <1>3, <1>4 DEF RouterTypeOK, InCourse
<1>6. RouterTypeOK'
  BY <1>0, <1>2, <1>4, <1>5 DEF RouterTypeOK, InCourse, InRow, Named
<1>7. ASSUME NEW x \in FirstCourses, regen'[x].at = "none"
      PROVE  Unborn(ReplacementOf[x])'
  <2>1. Unborn(ReplacementOf[x]) /\ ReplacementOf[x] # 0
    BY <1>0, <1>7 DEF RouterInv
  <2> QED
    BY <1>0, <1>3, <1>4, <2>1 DEF Unborn
<1>8. \A x \in Current' : x \in CourseIds \ {c} /\ x \in Current
  BY <1>0 DEF Current, RouterTypeOK
<1>9. \A u \in Pupils : active'[u] # active[u] => active'[u].course \notin Current'
  BY <1>3, <1>4, <1>8
<1>10. \A u \in Pupils : active'[u] = active[u]
         \/ /\ Talks(visited', Current', active'[u])
            /\ Passed(finished', mastered', Current', active'[u])
  BY <1>9 DEF Talks, Passed
<1> QED
  BY <1>0, <1>2, <1>6, <1>7, <1>8, <1>10, Serves

\* The sessions that were selected move, and the active node follows: with its
\* session, or its learner is one who missed it.
LEMMA Moves ==
  ASSUME RouterInv, NEW c \in FirstCourses, MovesSessions(c)
  PROVE  RouterInv'
<1> USE RouterAssumption
<1> DEFINE d == ReplacementOf[c]
           w == OwnerOf[c]
           moving == regen[c].nodes \cap visited[c]
           follows == active[w].course = c /\ active[w].node \in NodeIds(d)
<1>0. /\ RouterTypeOK /\ NodesOK /\ c \in CourseIds /\ d \in CourseIds /\ c # d
      /\ w \in Pupils /\ UNCHANGED <<pending, live, mastered>>
      /\ live \subseteq CourseIds
  BY DEF RouterInv, RouterTypeOK, MovesSessions
<1>1. /\ regen[c].at = "selected"
      /\ regen' = [regen EXCEPT ![c] = [at |-> "moved", nodes |-> {}]]
      /\ moving = {} \/ d \in live
      /\ visited' = [visited EXCEPT ![d] = visited[d] \cup moving, ![c] = visited[c] \ moving]
      /\ finished' = [finished EXCEPT ![d] = finished[d] \cup (moving \cap finished[c]),
                                      ![c] = finished[c] \ moving]
      /\ msg' = [m \in Slots |->
           IF msg[m].row = c /\ msg[m].node \in moving
              /\ msg[m].at \in {"chat", "coach", "next", "answered"}
           THEN [msg[m] EXCEPT !.row = d] ELSE msg[m]]
      /\ active' = (IF follows THEN [active EXCEPT ![w] = AskedFor(d, active[w].node)] ELSE active)
      /\ missed' = (IF follows /\ active[w].node \notin moving
                    THEN missed \cup {w} ELSE missed)
  BY <1>0 DEF MovesSessions, Regenerates
<1>2. moving \subseteq NodeIds(d) /\ moving \subseteq Nat /\ NodeIds(d) \subseteq Nat
  BY <1>0 DEF RouterTypeOK, NodesOK, NodeIds
<1> HIDE DEF moving
<1>3. /\ NodesOK' /\ moving \subseteq visited'[d]
      /\ \A x \in CourseIds \ {c} : /\ visited[x] \subseteq visited'[x]
                                    /\ finished[x] \subseteq finished'[x]
                                    /\ mastered[x] \subseteq mastered'[x]
  BY <1>0, <1>1, <1>2 DEF NodesOK
<1>4. /\ regen' \in [FirstCourses -> [at : Stages, nodes : SUBSET Nat]]
      /\ \A x \in FirstCourses : /\ x # c => regen'[x] = regen[x]
                                 /\ regen'[x].nodes \subseteq NodeIds(ReplacementOf[x])
      /\ regen'[c].at = "moved"
  BY <1>0, <1>1 DEF RouterTypeOK, Stages
<1>5. Current' = Current \ {c}
  BY <1>0, <1>1, <1>4 DEF Current, Gone
<1>6. PICK p : p = AskedFor(d, active[w].node)
  OBVIOUS
<1>7. /\ p.course = d /\ p.node = active[w].node /\ p.from = active[w].node
      /\ p \in Spot
  BY <1>0, <1>6 DEF AskedFor, Spot, RouterTypeOK
<1>8. /\ active' \in [Pupils -> Spot]
      /\ \A u \in Pupils : active'[u] = active[u] \/ (u = w /\ follows /\ active'[u] = p)
  BY <1>0, <1>1, <1>6, <1>7 DEF RouterTypeOK
<1>9. \A u \in Pupils : InCourse(active'[u])
  BY <1>0, <1>7, <1>8 DEF RouterTypeOK, InCourse
<1>10. ASSUME NEW m \in Slots
       PROVE  /\ msg'[m].at = msg[m].at /\ msg'[m].course = msg[m].course
              /\ msg'[m].node = msg[m].node /\ msg'[m].from = msg[m].from
              /\ msg'[m] \in Handled
              /\ \/ msg'[m].row = msg[m].row
                 \/ /\ msg'[m].row = d /\ msg[m].node \in moving
                    /\ msg[m].row = c /\ msg[m].at # "idle"
  <2>1. msg[m] \in Handled
    BY <1>0 DEF RouterTypeOK
  <2>2. msg'[m] = msg[m] \/ (msg'[m] = [msg[m] EXCEPT !.row = d]
           /\ msg[m].node \in moving /\ msg[m].row = c /\ msg[m].at # "idle")
    BY <1>1
  <2> QED
    BY <1>0, <2>1, <2>2 DEF Handled
<1>11. msg' \in [Slots -> Handled]
  <2>1. msg' = [m \in Slots |-> msg'[m]]
    BY <1>1
  <2> QED
    BY <1>10, <2>1
<1>12. \A m \in Slots : InCourse(msg'[m]) /\ InRow(msg'[m]) /\ Named(msg'[m])
  BY <1>0, <1>2, <1>10 DEF RouterTypeOK, InCourse, InRow, Named
<1>13. RouterTypeOK'
  BY <1>0, <1>3, <1>4, <1>8, <1>9, <1>11, <1>12 DEF RouterTypeOK
<1>14. ASSUME NEW x \in FirstCourses, regen'[x].at = "none"
       PROVE  Unborn(ReplacementOf[x])'
  <2>1. x # c /\ regen[x].at = "none"
    BY <1>4, <1>14
  <2>2. Unborn(ReplacementOf[x]) /\ ReplacementOf[x] # d
    BY <2>1 DEF RouterInv
  <2>3. \A u \in Pupils : active'[u].course # ReplacementOf[x]
    BY <1>7, <1>8, <2>2 DEF Unborn
  <2>4. \A m \in Slots : msg'[m].course # ReplacementOf[x] /\ msg'[m].row # ReplacementOf[x]
    BY <1>10, <2>2 DEF Unborn
  <2> QED
    BY <1>0, <2>2, <2>3, <2>4 DEF Unborn
<1>15. ASSUME NEW u \in Pupils, active'[u] # active[u]
       PROVE  /\ u \notin missed' => Talks(visited', Current', active'[u])
              /\ Passed(finished', mastered', Current', active'[u])
  <2>1. u = w /\ follows /\ active'[u] = p
    BY <1>8, <1>15
  <2>2. u \notin missed' => p.node \in visited'[p.course]
    BY <1>1, <1>3, <1>7, <2>1
  <2>3. active[w].node \in Nat
    BY <1>0 DEF RouterTypeOK, Spot
  <2>4. Passed(finished', mastered', Current', p)
    BY <1>7, <2>3 DEF Passed
  <2> QED
    BY <2>1, <2>2, <2>4 DEF Talks
<1>16. missed \subseteq missed'
  BY <1>1
<1>17. \A x \in Current' : x \in CourseIds \ {c} /\ x \in Current
  BY <1>0, <1>5 DEF Current
<1> QED
  BY <1>3, <1>10, <1>13, <1>14, <1>15, <1>16, <1>17, Serves

LEMMA RouterStarts == RouterInit => RouterInv
<1> USE RouterAssumption
<1> SUFFICES ASSUME RouterInit PROVE RouterInv
  OBVIOUS
<1>1. /\ Resting \in Handled /\ Resting.at = "idle"
      /\ Resting.course = 0 /\ Resting.row = 0
  BY DEF Resting, Handled, Steps
<1>2. NoNode \in Spot /\ NoNode.course = 0
  BY DEF NoNode, Spot
<1>3. /\ \A u \in Pupils : active[u] = NoNode
      /\ \A m \in Slots : msg[m] = Resting
  BY DEF RouterInit
<1>4. RouterTypeOK
  BY <1>1, <1>2, <1>3 DEF RouterInit, RouterTypeOK, NodesOK, InCourse, InRow, Named, Stages
<1>5. \A c \in FirstCourses : Unborn(ReplacementOf[c])
  BY <1>1, <1>2, <1>3 DEF Unborn, RouterInit
<1>6. 0 \notin Current
  BY <1>4 DEF Current, RouterTypeOK
<1>7. \A u \in Pupils : /\ Talks(visited, Current, active[u])
                        /\ Passed(finished, mastered, Current, active[u])
  BY <1>2, <1>3, <1>6 DEF Talks, Passed
<1>8. \A m \in Slots : Knows(visited, finished, mastered, Current, msg[m])
  BY <1>1, <1>3 DEF Knows, AtSession
<1> QED
  BY <1>4, <1>5, <1>7, <1>8 DEF RouterInv

LEMMA RouterSteps ==
  ASSUME RouterInv, [RouterNext]_imVars
  PROVE  RouterInv'
<1>1. ASSUME NEW m \in Slots,
             StartsSession(m) \/ ActivatesNode(m) \/ CoachReplies(m) \/ StartsNext(m)
      PROVE  RouterInv'
  BY <1>1, Starts, Activated, Coached, Continues
<1>2. ASSUME NEW m \in Slots,
             SendCoachMessage(m) \/ CoachAnswered(m) \/ CoachContinues(m)
      PROVE  RouterInv'
  BY <1>2, ReadsItsSession, Continued
<1>3. ASSUME NEW m \in Slots, NEW u \in Pupils, handleChat(m, u) \/ handleNextSection(m, u)
      PROVE  RouterInv'
  BY <1>3, ReachesCoach
<1>4. ASSUME NEW m \in Slots, NEW u \in Pupils,
             \/ \E c \in CourseIds : handleLearn(m, u, c)
             \/ \E n \in UNION {NodeIds(c) : c \in CourseIds} :
                  handleNode(m, u, n) \/ executeStartNode(m, u, n)
      PROVE  RouterInv'
  BY <1>4, Chooses
<1>5. ASSUME NEW c \in FirstCourses,
             \/ CreateReplacement(c) \/ ReadsProgress(c) \/ MigratesProgress(c)
             \/ SelectsSessions(c) \/ MovesSessions(c)
      PROVE  RouterInv'
  BY <1>5, Replaces, Moves
<1>6. ASSUME NEW c \in CourseIds, DeleteDomain(c) PROVE RouterInv'
  BY <1>6, Deletes
<1>7. CASE UNCHANGED imVars
  BY <1>7 DEF imVars, nodeVars, RouterInv, RouterTypeOK, NodesOK, InCourse, InRow,
     Named, Unborn, Talks, Passed, Knows, Current, Gone
<1> QED
  BY <1>1, <1>2, <1>3, <1>4, <1>5, <1>6, <1>7 DEF RouterNext

\* The inductive invariant of the router, with the types of its variables.
THEOREM RouterInvariant == RouterSpec => []RouterInv
<1>1. RouterInit => RouterInv
  BY RouterStarts
<1>2. RouterInv /\ [RouterNext]_imVars => RouterInv'
  BY RouterSteps
<1> QED
  BY <1>1, <1>2, PTL DEF RouterSpec

\* Free text of a learner with an active node reaches a session, however many
\* messages are handled at once and whatever of the course is replaced
\* meanwhile, unless the course is deleted, its sessions have moved away, or the
\* node was moved without its session.
THEOREM ActiveNodeTalks == RouterSpec => []ActiveHasSession
<1>1. RouterInv => ActiveHasSession
  BY RouterAssumption
     DEF RouterInv, RouterTypeOK, ActiveHasSession, HasSession, Talks, Current
<1> QED
  BY <1>1, RouterInvariant, PTL

\* Duplicates of "next", a coach that goes on by itself and the steps of a
\* replacement lead nobody past a node that is neither lit nor completed.
THEOREM NextSkipsNothing == RouterSpec => []NothingSkipped
<1>1. RouterInv => NothingSkipped
  BY DEF RouterInv, NothingSkipped, Passed, Done, Current
<1> QED
  BY <1>1, RouterInvariant, PTL
=============================================================================
