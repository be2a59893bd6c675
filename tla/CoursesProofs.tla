--------------------------- MODULE CoursesProofs ---------------------------
(***************************************************************************)
(* Theorems about PlanningAssistant, for any number of goroutines and      *)
(* plans, CourseTree, for any answers of the LLM, any pack and any keys:   *)
(* what every operation on a course makes of its tree, and                 *)
(* LearningShortcuts, for any shelf: what the sidebar shows in the end.    *)
(***************************************************************************)
EXTENDS PlanningAssistant, CourseTree, LearningShortcuts, FiniteSetTheorems,
        SequenceTheorems, WellFoundedInduction, TLAPS

(***************************************************************************)
(* Sets of numbers, and parts of sequences.                                *)
(***************************************************************************)
Least(S) == CHOOSE k \in S : \A j \in S : k <= j

\* A set of numbers that is not empty has a least one.
LEMMA LeastIsLeast ==
  ASSUME NEW S \in SUBSET Nat, S # {}
  PROVE  Least(S) \in S /\ \A j \in S : Least(S) <= j
<1> DEFINE Less == {ss \in Nat \X Nat : ss[1] < ss[2]}
<1>1. IsWellFoundedOn(Less, Nat)
  BY NatLessThanWellFounded DEF OpToRel
<1> HIDE DEF Less
<1>2. PICK k \in S : \A j \in S : <<j, k>> \notin Less
  BY <1>1, WFMin
<1>4. \A j \in S : ~(j < k)
  BY <1>2 DEF Less
<1>3. \A j \in S : k <= j
  BY <1>4
<1> QED
  BY <1>2, <1>3 DEF Least

\* The positions up to n can be listed in their order.
Listed(places) ==
  \E f \in [1 .. Cardinality(places) -> places] :
    \A i, j \in DOMAIN f : i < j => f[i] < f[j]

LEMMA ListsOneMore ==
  ASSUME NEW n \in Nat \ {0}, \A T \in SUBSET (1 .. (n - 1)) : Listed(T),
         NEW S \in SUBSET (1 .. n)
  PROVE  Listed(S)
<1>1. CASE n \notin S
  <2>1. S \subseteq 1 .. (n - 1)
    BY <1>1
  <2> QED
    BY <2>1
<1>2. CASE n \in S
  <2> DEFINE T == S \ {n}
             k == Cardinality(T)
  <2>1. T \in SUBSET (1 .. (n - 1))
    OBVIOUS
  <2>2. IsFiniteSet(S) /\ IsFiniteSet(T)
    <3>1. IsFiniteSet(1 .. n)
      BY FS_Interval
    <3> QED
      BY <3>1, FS_Subset
  <2>3. k \in Nat /\ Cardinality(S) = k + 1
    BY <1>2, <2>2, FS_RemoveElement, FS_CardinalityType
  <2>4. Listed(T)
    BY <2>1
  <2>5. PICK f \in [1 .. k -> T] : \A i, j \in 1 .. k : i < j => f[i] < f[j]
    BY <2>4 DEF Listed
  <2> HIDE DEF k
  <2> DEFINE g == [i \in 1 .. (k + 1) |-> IF i = k + 1 THEN n ELSE f[i]]
  <2>6. g \in [1 .. (k + 1) -> S]
    BY <1>2, <2>3, <2>5
  <2>7. ASSUME NEW i \in 1 .. (k + 1), NEW j \in 1 .. (k + 1), i < j
        PROVE  g[i] < g[j]
    <3>1. i \in 1 .. k
      BY <2>3, <2>7
    <3>4. f[i] \in T
      BY <2>5, <3>1
    <3>6. f[i] \in 1 .. (n - 1)
      BY <2>1, <3>4
    <3>5. f[i] < n
      BY <3>6
    <3>2. CASE j = k + 1
      BY <2>3, <2>7, <3>1, <3>2, <3>5
    <3>3. CASE j # k + 1
      BY <2>3, <2>5, <2>7, <3>1, <3>3
    <3> QED
      BY <3>2, <3>3
  <2> HIDE DEF g
  <2> QED
    BY <2>3, <2>6, <2>7 DEF Listed
<1> QED
  BY <1>1, <1>2

LEMMA OrderExists ==
  ASSUME NEW n \in Nat, NEW S \in SUBSET (1 .. n)
  PROVE  Listed(S)
<1> DEFINE bad == {m \in Nat : \E T \in SUBSET (1 .. m) : ~Listed(T)}
<1>1. SUFFICES ASSUME bad # {} PROVE FALSE
  OBVIOUS
<1>2. PICK m \in bad : \A j \in bad : m <= j
  <2>1. bad \in SUBSET Nat
    OBVIOUS
  <2> HIDE DEF bad
  <2> QED
    BY <1>1, <2>1, LeastIsLeast
<1>3. PICK T \in SUBSET (1 .. m) : ~Listed(T)
  OBVIOUS
<1>4. CASE m = 0
  <2>1. T = {}
    BY <1>3, <1>4
  <2>3. Cardinality(T) = 0
    BY <2>1, FS_EmptySet
  <2>2. [i \in {} |-> 0] \in [1 .. 0 -> T]
    OBVIOUS
  <2> QED
    BY <1>3, <2>2, <2>3 DEF Listed
<1>5. CASE m # 0
  <2>1. m - 1 \in Nat /\ m \in Nat \ {0} /\ ~(m <= m - 1)
    BY <1>5
  <2>2. \A R \in SUBSET (1 .. (m - 1)) : Listed(R)
    BY <1>2, <2>1
  <2> QED
    BY <1>3, <2>1, <2>2, ListsOneMore
<1> QED
  BY <1>4, <1>5

LEMMA OrderIsListed ==
  ASSUME NEW n \in Nat, NEW S \in SUBSET (1 .. n)
  PROVE  InOrder(S) \in [1 .. Cardinality(S) -> S]
<1>1. Listed(S)
  BY OrderExists
<1> QED
  BY <1>1 DEF InOrder, Listed

\* What is listed in order are all the places.
LEMMA InOrderIsOnto ==
  ASSUME NEW n \in Nat, NEW S \in SUBSET (1 .. n)
  PROVE  /\ Cardinality(S) \in Nat
         /\ InOrder(S) \in [1 .. Cardinality(S) -> S]
         /\ \A x \in S : \E i \in 1 .. Cardinality(S) : InOrder(S)[i] = x
<1> DEFINE k == Cardinality(S)
           f == InOrder(S)
<1>1. IsFiniteSet(S) /\ k \in Nat
  <2>1. IsFiniteSet(1 .. n)
    BY FS_Interval
  <2> QED
    BY <2>1, FS_Subset, FS_CardinalityType
<1>2. f \in [1 .. k -> S] /\ \A i, j \in 1 .. k : i < j => f[i] < f[j]
  <2>1. Listed(S)
    BY OrderExists
  <2> QED
    BY <2>1 DEF Listed, InOrder
<1>3. Cardinality(1 .. k) = k
  BY <1>1, FS_Interval
<1>7. \A x \in S : x \in Nat
  OBVIOUS
<1> HIDE DEF f, k
<1>4. ASSUME NEW i \in 1 .. k, NEW j \in 1 .. k, i # j
      PROVE  f[i] # f[j]
  <2>3. f[i] \in S /\ f[j] \in S
    BY <1>2
  <2>1. f[i] \in Nat /\ f[j] \in Nat
    BY <1>7, <2>3
  <2>2. i < j \/ j < i
    BY <1>1, <1>4
  <2> QED
    BY <1>2, <2>1, <2>2
<1>5. f \in Injection(1 .. k, S)
  BY <1>2, <1>4 DEF Injection, IsInjective
<1>6. f \in Surjection(1 .. k, S)
  BY <1>1, <1>3, <1>5, FS_Injection DEF k
<1> QED
  BY <1>1, <1>2, <1>6 DEF Surjection, k, f

LEMMA PickType ==
  ASSUME NEW S, NEW seq \in Seq(S), NEW places \in SUBSET DOMAIN seq
  PROVE  /\ Pick(seq, places) \in Seq(S)
         /\ Cardinality(places) \in Nat /\ Len(Pick(seq, places)) = Cardinality(places)
         /\ Range(Pick(seq, places)) = {seq[i] : i \in places}
<1> DEFINE k == Cardinality(places)
           f == InOrder(places)
           part == [i \in 1 .. k |-> seq[f[i]]]
<1>1. places \in SUBSET (1 .. Len(seq)) /\ Len(seq) \in Nat
  OBVIOUS
<1>2. /\ k \in Nat /\ f \in [1 .. k -> places]
      /\ \A x \in places : \E i \in 1 .. k : f[i] = x
  BY <1>1, InOrderIsOnto
<1>3. \A i \in places : seq[i] \in S
  BY <1>1
<1> HIDE DEF k, f
<1>4. part \in [1 .. k -> S]
  BY <1>2, <1>3
<1>5. part \in Seq(S) /\ Len(part) = k
  BY <1>2, <1>4
<1>6. Range(part) = {seq[i] : i \in places}
  BY <1>2 DEF Range
<1>7. Pick(seq, places) = part
  BY DEF Pick, k, f
<1> QED
  BY <1>2, <1>5, <1>6, <1>7 DEF k

LEMMA KeptType ==
  ASSUME NEW S, NEW seq \in Seq(S), NEW keys
  PROVE  /\ Kept(seq, keys) \in Seq(S)
         /\ Range(Kept(seq, keys)) = Range(seq) \cap keys
<1> DEFINE places == {i \in DOMAIN seq : seq[i] \in keys}
<1>1. places \in SUBSET DOMAIN seq
  OBVIOUS
<1>2. {seq[i] : i \in places} = Range(seq) \cap keys
  BY DEF Range
<1> HIDE DEF places
<1>3. Pick(seq, places) \in Seq(S) /\ Range(Pick(seq, places)) = {seq[i] : i \in places}
  BY <1>1, PickType
<1> QED
  BY <1>2, <1>3 DEF Kept, places

LEMMA NonEmptyType ==
  ASSUME NEW mods \in Seq(Module)
  PROVE  NonEmpty(mods) \in Seq(Module)
<1> DEFINE places == {i \in DOMAIN mods : mods[i].nodes # {}}
<1>1. places \in SUBSET DOMAIN mods
  OBVIOUS
<1> HIDE DEF places
<1>2. Pick(mods, places) \in Seq(Module)
  BY <1>1, PickType
<1> QED
  BY <1>2 DEF NonEmpty, places

\* Finitely many keys have a greatest one.
LEMMA Bounded ==
  ASSUME NEW S \in SUBSET Nat, IsFiniteSet(S)
  PROVE  \E b \in Nat : \A x \in S : x <= b
<1> DEFINE free(T) == ~\E b \in Nat : \A x \in T : x <= b
           bad == {m \in Nat : \E T \in SUBSET Nat :
                     IsFiniteSet(T) /\ Cardinality(T) = m /\ free(T)}
<1>1. SUFFICES ASSUME bad # {} PROVE FALSE
  <2>1. Cardinality(S) \in Nat
    BY FS_CardinalityType
  <2> QED
    BY <2>1
<1>2. PICK m \in bad : \A j \in bad : m <= j
  <2>1. bad \in SUBSET Nat
    OBVIOUS
  <2> HIDE DEF bad
  <2> QED
    BY <1>1, <2>1, LeastIsLeast
<1>3. PICK T \in SUBSET Nat : IsFiniteSet(T) /\ Cardinality(T) = m /\ free(T)
  OBVIOUS
<1>4. PICK x \in T : TRUE
  <2>1. T # {}
    BY <1>3
  <2> QED
    BY <2>1
<1>5. IsFiniteSet(T \ {x}) /\ Cardinality(T \ {x}) = m - 1
  BY <1>3, <1>4, FS_RemoveElement
<1>6. Cardinality(T \ {x}) \in Nat /\ m \in Nat
  BY <1>5, FS_CardinalityType
<1>7. m - 1 \in Nat /\ m - 1 \notin bad
  <2>1. m - 1 \in Nat /\ ~(m <= m - 1)
    BY <1>5, <1>6
  <2> HIDE DEF bad
  <2> QED
    BY <1>2, <2>1
<1>8. PICK b \in Nat : \A y \in T \ {x} : y <= b
  <2>1. T \ {x} \in SUBSET Nat
    OBVIOUS
  <2> QED
    BY <1>5, <1>7, <2>1
<1>9. \A y \in T : y <= b + x
  BY <1>4, <1>8
<1>10. b + x \in Nat
  BY <1>4, <1>8
<1> QED
  BY <1>3, <1>9, <1>10


LEMMA FiniteInOrder ==
  ASSUME NEW S \in SUBSET (Nat \ {0}), IsFiniteSet(S)
  PROVE  InOrder(S) \in [1 .. Cardinality(S) -> S]
<1>1. PICK b \in Nat : \A x \in S : x <= b
  <2>1. S \in SUBSET Nat
    OBVIOUS
  <2> QED
    BY <2>1, Bounded
<1>2. S \in SUBSET (1 .. b)
  BY <1>1
<1> QED
  BY <1>2, InOrderIsOnto

(***************************************************************************)
(* PlanningAssistant.                                                      *)
(***************************************************************************)
Status == {"active", "archived"}
Row == [phase : {"intake", "plan_ready"}, status : Status, plan : Plan]
Held == [at : {"idle", "create", "archive", "think", "patch"},
         id : Nat, row : Row]
Wish == [pin : BOOLEAN, ticks : SUBSET Nat]

PlanningTypeOK ==
  /\ plans \in Seq(Row)
  /\ wanted \in Seq(Wish) /\ Len(wanted) = Len(plans)
  /\ locked \subseteq Nat
  /\ call \in [Callers -> Held]
  /\ catalog \subseteq Nat \ {0}
  /\ overlap \in BOOLEAN

\* A message being answered, or a patch.
Edits(r) == call[r].at \in {"think", "patch"}

\* Three items at most, of which the first one at most is for learning.
Short(today) ==
  /\ Len(today) <= MaxToday /\ Learning(today) \subseteq {1}
  /\ \A i \in DOMAIN today : IsLearning(today[i]) \/ today[i].kind = "task"

AreaTitle(p) == IF p.areas = <<>> THEN 0 ELSE p.areas[1].title

\* A plan that another hydration leaves as it is: the item for learning is the
\* one in focus; without a focus there is none to take from an item or an area.
Settled(p) ==
  /\ Short(p.today)
  /\ p.learn # 0 => 1 \in Learning(p.today)
  /\ \A i \in Learning(p.today) : p.today[i].title = p.learn
  /\ p.learn = 0 /\ Learning(p.today) = {} => AreaTitle(p) = 0

ShapeOK(row) == (row.phase = "plan_ready") = (row.plan.made > 0) /\ Settled(row.plan)

\* An editor holds the lock of its session and its copy of the row is true,
\* but for the status when an archiving came between.
Editing(r) ==
  Edits(r) => /\ call[r].id \in DOMAIN plans /\ call[r].id \in locked
              /\ call[r].row.phase = plans[call[r].id].phase
              /\ call[r].row.plan = plans[call[r].id].plan
              /\ ~overlap => call[r].row.status = plans[call[r].id].status

OneEditor == \A r, q \in Callers : Edits(r) /\ Edits(q) /\ call[r].id = call[q].id => r = q

OneActive == \A s, d \in Active : s = d

PlanningInv ==
  /\ PlanningTypeOK
  /\ \A s \in DOMAIN plans : ShapeOK(plans[s])
  /\ \A r \in Callers : Editing(r)
  /\ OneEditor
  /\ PinSurvives
  /\ ~overlap => OneActive \/ \E r \in Callers : Stands(r, "archive")

LEMMA FirstLearning ==
  ASSUME NEW today \in Seq(Item), Learning(today) # {}
  PROVE  /\ Min(Learning(today)) \in DOMAIN today
         /\ today[Min(Learning(today))] \in Item
         /\ IsLearning(today[Min(Learning(today))])
<1>1. Learning(today) \in SUBSET Nat /\ Learning(today) \subseteq DOMAIN today
  BY DEF Learning
<1>2. Min(Learning(today)) = Least(Learning(today))
  BY DEF Min, Least
<1>3. Min(Learning(today)) \in Learning(today)
  BY <1>1, <1>2, LeastIsLeast
<1>4. Min(Learning(today)) \in DOMAIN today
  BY <1>1, <1>3
<1> QED
  BY <1>3, <1>4 DEF Learning

\* The cut to three items keeps the first ones.
LEMMA CutsToThree ==
  ASSUME NEW today \in Seq(Item)
  PROVE  /\ UpTo(today) \in Seq(Item) /\ Len(UpTo(today)) <= MaxToday
         /\ Len(UpTo(today)) <= Len(today)
         /\ today # <<>> => Len(UpTo(today)) >= 1
         /\ \A i \in 1 .. Len(UpTo(today)) : UpTo(today)[i] = today[i]
<1> DEFINE n == IF Len(today) < MaxToday THEN Len(today) ELSE MaxToday
<1>1. n \in Nat /\ n <= Len(today) /\ n <= MaxToday /\ (today # <<>> => n >= 1)
  BY DEF MaxToday
<1>2. UpTo(today) = SubSeq(today, 1, n)
  BY DEF UpTo
<1> HIDE DEF n
<1>3. /\ SubSeq(today, 1, n) \in Seq(Item) /\ Len(SubSeq(today, 1, n)) = n
      /\ \A i \in 1 .. n : SubSeq(today, 1, n)[i] = today[i]
  BY <1>1
<1> QED
  BY <1>1, <1>2, <1>3 DEF MaxToday

\* limitTodayActions leaves three items, of which the first one at most is
\* for learning.
LEMMA Limited ==
  ASSUME NEW today \in Seq(Item)
  PROVE  /\ LimitTodayActions(today) \in Seq(Item)
         /\ Short(LimitTodayActions(today))
<1> DEFINE learning == Learning(today)
           tasks == (DOMAIN today) \ learning
           first == IF learning = {} THEN <<>> ELSE <<today[Min(learning)]>>
           k == Cardinality(tasks)
           order == InOrder(tasks)
           rest == [i \in 1 .. k |-> AsTask(today[order[i]])]
<1>1. k \in Nat /\ order \in [1 .. k -> tasks]
  <2>1. IsFiniteSet(1 .. Len(today)) /\ tasks \in SUBSET (1 .. Len(today))
    BY FS_Interval
  <2> HIDE DEF tasks
  <2>2. IsFiniteSet(tasks)
    BY <2>1, FS_Subset
  <2>3. Len(today) \in Nat
    OBVIOUS
  <2> QED
    BY <2>1, <2>2, <2>3, FS_CardinalityType, OrderIsListed
<1>2. first \in Seq(Item) /\ Len(first) <= 1
  BY FirstLearning
<1>3. \A i \in 1 .. k : order[i] \in DOMAIN today
  BY <1>1
<1> HIDE DEF order, k
<1>4. /\ rest \in Seq(Item) /\ Len(rest) = k
      /\ \A i \in 1 .. k : rest[i].kind = "task"
  <2>1. \A i \in 1 .. k : AsTask(today[order[i]]) \in Item /\ AsTask(today[order[i]]).kind = "task"
    <3> SUFFICES ASSUME NEW i \in 1 .. k
                 PROVE  AsTask(today[order[i]]) \in Item /\ AsTask(today[order[i]]).kind = "task"
      OBVIOUS
    <3>1. today[order[i]] \in Item
      BY <1>3
    <3>2. PICK item : item = today[order[i]]
      OBVIOUS
    <3>3. AsTask(item) \in Item /\ AsTask(item).kind = "task"
      BY <3>1, <3>2 DEF AsTask, Item
    <3> QED
      BY <3>2, <3>3
  <2> QED
    BY <1>1, <2>1
<1> HIDE DEF first, rest
<1> DEFINE both == first \o rest
<1>10. \A i \in DOMAIN first : IsLearning(first[i])
  BY FirstLearning DEF first
<1>5. /\ both \in Seq(Item)
      /\ \A i \in DOMAIN both : (IsLearning(both[i]) /\ i = 1) \/ both[i].kind = "task"
  BY <1>2, <1>4, <1>10
<1>6. LimitTodayActions(today) = UpTo(both)
  BY DEF LimitTodayActions, first, rest, order, k
<1> HIDE DEF both
<1>7. PICK cut : cut = UpTo(both)
  OBVIOUS
<1>8. /\ cut \in Seq(Item) /\ Len(cut) <= MaxToday /\ Len(cut) <= Len(both)
      /\ \A i \in 1 .. Len(cut) : cut[i] = both[i]
  BY <1>5, <1>7, CutsToThree
<1>11. \A i \in DOMAIN cut : (IsLearning(cut[i]) /\ i = 1) \/ cut[i].kind = "task"
  BY <1>5, <1>8
<1>9. Short(cut)
  BY <1>8, <1>11 DEF Short, Learning, IsLearning
<1> QED
  BY <1>6, <1>7, <1>8, <1>9

\* An interval is listed as it is.
LEMMA IntervalInOrder ==
  ASSUME NEW a \in Nat, NEW k \in 0 .. 3
  PROVE  /\ Cardinality((a + 1) .. (a + k)) = k
         /\ \A i \in 1 .. k : InOrder((a + 1) .. (a + k))[i] = a + i
<1> DEFINE S == (a + 1) .. (a + k)
<1>1. Cardinality(S) = k
  BY FS_Interval
<1>2. S \in SUBSET (1 .. (a + k)) /\ a + k \in Nat
  OBVIOUS
<1>3. Listed(S)
  BY <1>2, OrderExists
<1> HIDE DEF S
<1>4. PICK f : f = InOrder(S)
  OBVIOUS
<1>5. /\ f \in [1 .. k -> S]
      /\ \A i, j \in 1 .. k : i < j => f[i] < f[j]
  BY <1>1, <1>3, <1>4 DEF InOrder, Listed
<1>6. \A i \in 1 .. k : f[i] \in Nat /\ a + 1 <= f[i] /\ f[i] <= a + k
  BY <1>5 DEF S
<1>7. ASSUME NEW i \in 1 .. k PROVE f[i] = a + i
  <2>1. CASE k = 1
    BY <1>6, <1>7, <2>1
  <2>2. CASE k = 2
    <3>1. 1 \in 1 .. k /\ 2 \in 1 .. k /\ f[1] < f[2]
      BY <1>5, <2>2
    <3> QED
      BY <1>6, <1>7, <2>2, <3>1
  <2>3. CASE k = 3
    <3>1. 1 \in 1 .. k /\ 2 \in 1 .. k /\ 3 \in 1 .. k /\ f[1] < f[2] /\ f[2] < f[3]
      BY <1>5, <2>3
    <3> QED
      BY <1>6, <1>7, <2>3, <3>1
  <2> QED
    BY <1>7, <2>1, <2>2, <2>3
<1> QED
  BY <1>1, <1>4, <1>7 DEF S

\* A short list is not cut again, and its items are not moved.
LEMMA LimitedOnce ==
  ASSUME NEW today \in Seq(Item), Short(today)
  PROVE  LimitTodayActions(today) = today
<1> DEFINE learning == Learning(today)
           tasks == (DOMAIN today) \ learning
           order == InOrder(tasks)
           n == Len(today)
           a == Cardinality(learning)
           first == IF learning = {} THEN <<>> ELSE <<today[Min(learning)]>>
           rest == [i \in 1 .. Cardinality(tasks) |-> AsTask(today[order[i]])]
<1>1. n \in 0 .. 3 /\ DOMAIN today = 1 .. n
  <2>1. n \in Nat /\ DOMAIN today = 1 .. n
    OBVIOUS
  <2>2. n <= 3
    BY DEF Short, MaxToday
  <2> QED
    BY <2>1, <2>2
<1>2. /\ a \in {0, 1} /\ a <= n /\ tasks = (a + 1) .. (a + (n - a))
      /\ Len(first) = a /\ first \in Seq(Item)
      /\ \A i \in 1 .. a : first[i] = today[i]
  <2>1. CASE learning = {}
    <3>1. a = 0
      BY <2>1, FS_EmptySet
    <3> QED
      BY <1>1, <2>1, <3>1
  <2>2. CASE learning # {}
    <3>1. learning = {1}
      BY <2>2 DEF Short
    <3>2. a = 1
      BY <3>1, FS_Singleton
    <3>3. 1 \in DOMAIN today /\ Min(learning) \in learning
      BY <2>2, <3>1, FirstLearning DEF Learning
    <3>4. Min(learning) = 1 /\ n >= 1
      BY <1>1, <3>1, <3>3
    <3>5. first = <<today[1]>> /\ today[1] \in Item
      BY <2>2, <3>3, <3>4
    <3>6. tasks = 2 .. n
      BY <1>1, <3>1
    <3> QED
      BY <1>1, <3>2, <3>4, <3>5, <3>6
  <2> QED
    BY <2>1, <2>2
<1> HIDE DEF a, first
<1>3. /\ Cardinality(tasks) = n - a
      /\ \A i \in 1 .. (n - a) : order[i] = a + i
  <2> HIDE DEF tasks, n
  <2>1. n - a \in 0 .. 3 /\ a \in Nat
    BY <1>1, <1>2
  <2> QED
    BY <1>2, <2>1, IntervalInOrder
<1>4. ASSUME NEW i \in 1 .. (n - a)
      PROVE  AsTask(today[a + i]) = today[a + i]
  <2>1. a + i \in tasks /\ a + i \in DOMAIN today
    BY <1>1, <1>2, <1>4
  <2>2. today[a + i] \in Item /\ today[a + i].kind = "task"
    BY <1>1, <2>1 DEF Short, Learning
  <2>3. PICK item : item = today[a + i]
    OBVIOUS
  <2>4. AsTask(item) = item
    BY <2>2, <2>3 DEF AsTask, Item
  <2> QED
    BY <2>3, <2>4
<1> HIDE DEF order, tasks
<1>5. rest = [i \in 1 .. (n - a) |-> today[a + i]]
  BY <1>1, <1>2, <1>3, <1>4
<1>11. a \in Nat /\ n \in Nat /\ a <= n /\ n - a \in Nat
  BY <1>1, <1>2
<1>6. rest \in Seq(Item) /\ Len(rest) = n - a
  <2>1. \A i \in 1 .. (n - a) : today[a + i] \in Item
    BY <1>1, <1>11
  <2> HIDE DEF n
  <2>2. rest \in [1 .. (n - a) -> Item]
    BY <1>5, <2>1
  <2> HIDE DEF rest
  <2> QED
    BY <1>11, <2>2
<1>7. \A i \in 1 .. (n - a) : rest[i] = today[a + i]
  BY <1>5
<1>8. LimitTodayActions(today) = UpTo(first \o rest)
  BY DEF LimitTodayActions, first, order, tasks
<1> HIDE DEF rest, n
<1>9. first \o rest = today
  <2>1. first \o rest \in Seq(Item) /\ Len(first \o rest) = n
    BY <1>1, <1>2, <1>6
  <2>2. ASSUME NEW i \in 1 .. n PROVE (first \o rest)[i] = today[i]
    <3>1. CASE i <= a
      BY <1>1, <1>2, <1>6, <2>2, <3>1
    <3>2. CASE i > a
      <4>1. (first \o rest)[i] = rest[i - a]
        BY <1>1, <1>2, <1>6, <2>2, <3>2
      <4>2. i - a \in 1 .. (n - a) /\ a + (i - a) = i
        BY <1>1, <1>2, <2>2, <3>2
      <4> QED
        BY <1>7, <4>1, <4>2
    <3>3. i <= a \/ i > a
      BY ONLY <1>11, <2>2
    <3> QED
      BY ONLY <3>1, <3>2, <3>3
  <2> QED
    BY <2>1, <2>2, SeqEqual DEF n
<1>10. UpTo(today) = today
  <2>1. PICK cut : cut = UpTo(today)
    OBVIOUS
  <2>2. cut \in Seq(Item) /\ Len(cut) = n /\ \A i \in 1 .. Len(cut) : cut[i] = today[i]
    BY <1>1, <2>1 DEF UpTo, MaxToday, n
  <2> QED
    BY <2>1, <2>2, SeqEqual DEF n
<1> QED
  BY <1>8, <1>9, <1>10

\* What hydration leaves alone.
SameTicks(p, q) == q.ticks = p.ticks /\ q.made = p.made

LEMMA SanitizedIsPlan ==
  ASSUME NEW p \in Plan, NEW courses \in SUBSET Nat
  PROVE  /\ Sanitized(courses, p) \in Plan /\ SameTicks(p, Sanitized(courses, p))
         /\ Sanitized(courses, p).today = p.today
         /\ Sanitized(courses, p).learn = p.learn
         /\ AreaTitle(Sanitized(courses, p)) = AreaTitle(p)
<1> DEFINE areas == [i \in DOMAIN p.areas |->
                       [title |-> p.areas[i].title,
                        match |-> Known(courses, p.areas[i].match)]]
           match == Known(courses, p.match)
<1>1. \A c \in Nat : Known(courses, c) \in Nat
  BY DEF Known
<1>2. areas \in Seq(LearningArea)
  <2>1. p.areas \in Seq(LearningArea)
    BY DEF Plan
  <2>2. \A i \in DOMAIN p.areas : p.areas[i] \in LearningArea
    BY <2>1
  <2>3. \A i \in DOMAIN p.areas : areas[i] \in LearningArea
    BY <1>1, <2>2 DEF LearningArea
  <2>4. Len(p.areas) \in Nat /\ DOMAIN p.areas = 1 .. Len(p.areas)
    BY <2>1
  <2>5. areas = [i \in DOMAIN p.areas |-> areas[i]]
    OBVIOUS
  <2> HIDE DEF areas
  <2>6. areas \in [1 .. Len(p.areas) -> LearningArea]
    BY <2>3, <2>4, <2>5
  <2> QED
    BY <2>4, <2>6
<1>3. match \in Nat
  BY <1>1 DEF Plan
<1>4. Sanitized(courses, p) = [p EXCEPT !.match = match, !.areas = areas]
  BY DEF Sanitized
<1>5. (areas = <<>>) = (p.areas = <<>>) /\ (areas # <<>> => areas[1].title = p.areas[1].title)
  <2>1. p.areas \in Seq(LearningArea)
    BY DEF Plan
  <2>2. DOMAIN areas = DOMAIN p.areas /\ \A i \in DOMAIN areas : areas[i].title = p.areas[i].title
    OBVIOUS
  <2> HIDE DEF areas
  <2>3. DOMAIN areas = 1 .. Len(areas) /\ DOMAIN p.areas = 1 .. Len(p.areas)
        /\ Len(areas) \in Nat /\ Len(p.areas) \in Nat
    BY <1>2, <2>1
  <2>4. areas # <<>> => 1 \in DOMAIN areas
    BY <1>2, <2>3
  <2>5. p.areas # <<>> => 1 \in DOMAIN p.areas
    BY <2>1, <2>3
  <2> QED
    BY <2>2, <2>4, <2>5
<1> HIDE DEF areas, match
<1>6. PICK q : q = Sanitized(courses, p)
  OBVIOUS
<1>7. /\ q \in Plan /\ SameTicks(p, q) /\ q.today = p.today /\ q.learn = p.learn
      /\ q.areas = areas
  BY <1>2, <1>3, <1>4, <1>6 DEF Plan, SameTicks
<1> QED
  BY <1>5, <1>6, <1>7 DEF AreaTitle

LEMMA FocusIsPlan ==
  ASSUME NEW p \in Plan
  PROVE  /\ EnsureFocus(p) \in Plan /\ SameTicks(p, EnsureFocus(p))
         /\ EnsureFocus(p).today = p.today
         /\ p.learn # 0 => EnsureFocus(p).learn = p.learn
         /\ p.learn = 0 /\ Learning(p.today) # {} =>
              EnsureFocus(p).learn = p.today[Min(Learning(p.today))].title
         /\ p.learn = 0 /\ Learning(p.today) = {} =>
              EnsureFocus(p).learn = AreaTitle(p) /\ AreaTitle(EnsureFocus(p)) = AreaTitle(p)
<1> DEFINE area == IF p.areas = <<>> THEN [title |-> 0, match |-> 0] ELSE p.areas[1]
           items == Learning(p.today)
           title == p.today[Min(items)].title
<1>1. area.title \in Nat /\ area.match \in Nat
  <2>1. p.areas \in Seq(LearningArea)
    BY DEF Plan
  <2>2. p.areas # <<>> => p.areas[1] \in LearningArea
    BY <2>1
  <2> QED
    BY <2>2 DEF LearningArea
<1>2. items # {} => title \in Nat
  <2>1. p.today \in Seq(Item)
    BY DEF Plan
  <2> QED
    BY <2>1, FirstLearning DEF Item
<1> HIDE DEF area, title
<1>3. p.learn \in Nat /\ p.match \in Nat /\ AreaTitle(p) = area.title
  BY DEF Plan, AreaTitle, area
<1>4. PICK q : q = EnsureFocus(p)
  OBVIOUS
<1>5. CASE p.learn # 0
  <2>1. q = p
    BY <1>4, <1>5 DEF EnsureFocus
  <2> QED
    BY <1>4, <1>5, <2>1 DEF SameTicks
<1>6. CASE p.learn = 0 /\ items # {}
  <2>1. q = [p EXCEPT !.learn = title, !.match = area.match]
    BY <1>4, <1>6 DEF EnsureFocus, title, area
  <2> HIDE DEF items
  <2>2. q \in Plan /\ SameTicks(p, q) /\ q.today = p.today /\ q.learn = title
    BY <1>1, <1>2, <1>6, <2>1 DEF Plan, SameTicks
  <2> QED
    BY <1>4, <1>6, <2>2 DEF items, title
<1>7. CASE p.learn = 0 /\ items = {}
  <2> DEFINE match == IF area.title = 0 THEN p.match ELSE area.match
  <2>1. q = [p EXCEPT !.learn = area.title, !.match = match]
    BY <1>4, <1>7 DEF EnsureFocus, area
  <2>2. match \in Nat
    BY <1>1, <1>3
  <2> HIDE DEF match, items
  <2>3. /\ q \in Plan /\ SameTicks(p, q) /\ q.today = p.today /\ q.learn = area.title
        /\ q.areas = p.areas
    BY <1>1, <2>1, <2>2 DEF Plan, SameTicks
  <2> QED
    BY <1>3, <1>4, <1>7, <2>3 DEF items, AreaTitle
<1> QED
  BY <1>5, <1>6, <1>7

\* The focus is put on the learning item, or becomes one.
LEMMA FocusBecomesItem ==
  ASSUME NEW p \in Plan, p.learn # 0, Short(p.today),
         NEW q, q = SyncLearningFocusFromToday(p)
  PROVE  /\ q \in Plan /\ SameTicks(p, q) /\ Settled(q)
         /\ 1 \in Learning(p.today) /\ p.today[1].title = p.learn => q.today = p.today
<1> DEFINE areas == <<[title |-> p.learn, match |-> p.match]>>
           item == [kind |-> "learning", title |-> p.learn]
           given == [i \in DOMAIN p.today |->
                       IF IsLearning(p.today[i])
                       THEN [p.today[i] EXCEPT !.title = p.learn] ELSE p.today[i]]
           added == <<item>> \o p.today
           today == IF Learning(p.today) # {} THEN given ELSE UpTo(added)
<1>1. p.today \in Seq(Item) /\ p.learn \in Nat /\ p.match \in Nat /\ item \in Item
  BY DEF Plan, Item
<1>2. \A i \in DOMAIN p.today : p.today[i] \in Item
  BY <1>1
<1>3. areas \in Seq(LearningArea)
  <2>1. [title |-> p.learn, match |-> p.match] \in LearningArea
    BY <1>1 DEF LearningArea
  <2> QED
    BY <2>1
<1>4. q = [p EXCEPT !.areas = areas, !.today = today]
  BY DEF SyncLearningFocusFromToday
<1>5. CASE Learning(p.today) # {}
  <2>1. \A i \in DOMAIN p.today :
          /\ given[i] \in Item /\ given[i].kind = p.today[i].kind
          /\ IsLearning(given[i]) = IsLearning(p.today[i])
          /\ IsLearning(given[i]) => given[i].title = p.learn
    BY <1>1, <1>2 DEF Item, IsLearning
  <2>2. given \in Seq(Item) /\ Len(given) = Len(p.today) /\ DOMAIN given = DOMAIN p.today
    <3>1. Len(p.today) \in Nat /\ DOMAIN p.today = 1 .. Len(p.today)
      BY <1>1
    <3>2. DOMAIN given = DOMAIN p.today /\ given = [i \in DOMAIN p.today |-> given[i]]
      OBVIOUS
    <3> HIDE DEF given
    <3>3. given \in [1 .. Len(p.today) -> Item]
      BY <2>1, <3>1, <3>2
    <3> QED
      BY <3>1, <3>2, <3>3
  <2> HIDE DEF given
  <2>3. Learning(given) = Learning(p.today)
    BY <2>1, <2>2 DEF Learning
  <2>4. \A i \in Learning(given) : given[i].title = p.learn
    BY <2>1, <2>2 DEF Learning
  <2>5. Short(given) /\ 1 \in Learning(given) /\ today = given
    BY <1>5, <2>1, <2>2, <2>3 DEF Short
  <2>6. 1 \in Learning(p.today) /\ p.today[1].title = p.learn => given = p.today
    <3>1. SUFFICES ASSUME 1 \in Learning(p.today), p.today[1].title = p.learn
                   PROVE  given = p.today
      OBVIOUS
    <3>2. \A i \in DOMAIN p.today : IsLearning(p.today[i]) => i = 1
      BY DEF Short, Learning
    <3>3. ASSUME NEW i \in DOMAIN p.today PROVE given[i] = p.today[i]
      <4>1. CASE IsLearning(p.today[i])
        <5>1. given[i] = [p.today[i] EXCEPT !.title = p.learn] /\ p.today[i].title = p.learn
          BY <3>1, <3>2, <4>1 DEF given
        <5>2. p.today[i] \in Item
          BY <1>2
        <5> QED
          BY <5>1, <5>2 DEF Item
      <4>2. CASE ~IsLearning(p.today[i])
        BY <4>2 DEF given
      <4> QED
        BY <4>1, <4>2
    <3> QED
      BY <1>1, <2>2, <3>3, SeqEqual
  <2> HIDE DEF today, areas
  <2>7. q \in Plan /\ SameTicks(p, q) /\ q.today = given /\ q.learn = p.learn
    BY <1>3, <1>4, <2>2, <2>5 DEF Plan, SameTicks
  <2> QED
    BY <1>5, <2>3, <2>4, <2>5, <2>6, <2>7 DEF Settled
<1>6. CASE Learning(p.today) = {}
  <2>1. /\ added \in Seq(Item) /\ added # <<>> /\ added[1] = item
        /\ \A i \in DOMAIN added : i # 1 => ~IsLearning(added[i]) /\ added[i].kind = "task"
    <3>1. /\ added \in Seq(Item) /\ Len(added) = Len(p.today) + 1 /\ added[1] = item
          /\ \A i \in 2 .. (Len(p.today) + 1) : added[i] = p.today[i - 1]
      BY <1>1
    <3>2. \A i \in 1 .. Len(p.today) : ~IsLearning(p.today[i]) /\ p.today[i].kind = "task"
      BY <1>1, <1>6 DEF Learning, Short
    <3>3. added # <<>>
      BY <1>1, <3>1
    <3>4. ASSUME NEW i \in DOMAIN added, i # 1
          PROVE  ~IsLearning(added[i]) /\ added[i].kind = "task"
      <4> HIDE DEF added
      <4>1. i \in 2 .. (Len(p.today) + 1) /\ (i - 1) \in 1 .. Len(p.today)
        BY <1>1, <3>1, <3>4
      <4> QED
        BY <3>1, <3>2, <4>1
    <3> HIDE DEF added
    <3> QED
      BY <3>1, <3>3, <3>4
  <2> HIDE DEF added
  <2>2. PICK cut : cut = UpTo(added)
    OBVIOUS
  <2>3. /\ cut \in Seq(Item) /\ Len(cut) <= MaxToday /\ Len(cut) >= 1
        /\ Len(cut) <= Len(added)
        /\ \A i \in 1 .. Len(cut) : cut[i] = added[i]
    BY <2>1, <2>2, CutsToThree
  <2>4. Learning(cut) = {1} /\ cut[1].title = p.learn
    <3>1. 1 \in 1 .. Len(cut) /\ DOMAIN cut = 1 .. Len(cut)
      BY <2>3
    <3>2. cut[1] = item
      BY <2>1, <2>3, <3>1
    <3>3. \A i \in 1 .. Len(cut) : i # 1 => ~IsLearning(cut[i])
      BY <2>1, <2>3
    <3> QED
      BY <3>1, <3>2, <3>3 DEF Learning, IsLearning
  <2>6. \A i \in DOMAIN cut : IsLearning(cut[i]) \/ cut[i].kind = "task"
    <3>1. \A i \in DOMAIN cut : i # 1 => cut[i].kind = "task"
      BY <2>1, <2>3
    <3>2. 1 \in DOMAIN cut => IsLearning(cut[1])
      BY <2>4 DEF Learning
    <3> QED
      BY <3>1, <3>2
  <2>5. Short(cut) /\ today = cut
    BY <1>6, <2>2, <2>3, <2>4, <2>6 DEF Short
  <2> HIDE DEF today, areas
  <2>7. q \in Plan /\ SameTicks(p, q) /\ q.today = cut /\ q.learn = p.learn
    BY <1>3, <1>4, <2>3, <2>5 DEF Plan, SameTicks
  <2> QED
    BY <1>6, <2>4, <2>5, <2>7 DEF Settled
<1> QED
  BY <1>5, <1>6

\* A plan is hydrated into a settled one, and a settled one keeps its items.
LEMMA HydratedIsSettled ==
  ASSUME NEW p \in Plan, NEW courses \in SUBSET Nat,
         NEW q, q = Hydrated(courses, p)
  PROVE  /\ q \in Plan /\ SameTicks(p, q) /\ Settled(q)
         /\ Settled(p) => q.today = p.today
<1>1. PICK a : a = Sanitized(courses, p)
  OBVIOUS
<1>2. /\ a \in Plan /\ SameTicks(p, a) /\ a.today \in Seq(Item)
      /\ a.today = p.today /\ a.learn = p.learn /\ AreaTitle(a) = AreaTitle(p)
  <2>1. /\ a \in Plan /\ SameTicks(p, a)
        /\ a.today = p.today /\ a.learn = p.learn /\ AreaTitle(a) = AreaTitle(p)
    BY <1>1, SanitizedIsPlan
  <2> QED
    BY <2>1 DEF Plan
<1>3. PICK t : t = LimitTodayActions(a.today)
  OBVIOUS
<1>4. t \in Seq(Item) /\ Short(t) /\ (Settled(p) => t = p.today)
  BY <1>2, <1>3, Limited, LimitedOnce DEF Settled
<1>5. PICK b : b = [a EXCEPT !.today = t]
  OBVIOUS
<1>6. /\ b \in Plan /\ SameTicks(p, b) /\ b.today = t /\ b.learn = p.learn
      /\ AreaTitle(b) = AreaTitle(p)
  <2>1. b \in Plan /\ SameTicks(p, b) /\ b.today = t /\ b.learn = a.learn /\ b.areas = a.areas
    BY <1>2, <1>4, <1>5 DEF Plan, SameTicks
  <2> QED
    BY <1>2, <2>1 DEF AreaTitle
<1>7. PICK d : d = EnsureFocus(b)
  OBVIOUS
<1>8. /\ d \in Plan /\ SameTicks(p, d) /\ d.today = t
      /\ p.learn # 0 => d.learn = p.learn
      /\ p.learn = 0 /\ Learning(t) # {} => d.learn = t[Min(Learning(t))].title
      /\ p.learn = 0 /\ Learning(t) = {} => d.learn = AreaTitle(p) /\ AreaTitle(d) = AreaTitle(p)
  BY <1>6, <1>7, FocusIsPlan DEF SameTicks
<1>9. q = SyncLearningFocusFromToday(d)
  BY <1>1, <1>3, <1>5, <1>7 DEF Hydrated
<1>12. Learning(t) # {} => Min(Learning(t)) = 1 /\ Learning(t) = {1}
  <2>1. SUFFICES ASSUME Learning(t) # {} PROVE Min(Learning(t)) = 1 /\ Learning(t) = {1}
    OBVIOUS
  <2>2. Learning(t) = {1}
    BY <1>4, <2>1 DEF Short
  <2>3. Min(Learning(t)) \in Learning(t)
    BY <1>4, <2>1, FirstLearning DEF Learning
  <2> QED
    BY <2>2, <2>3
<1>10. CASE d.learn = 0
  <2>1. q = d
    BY <1>9, <1>10 DEF SyncLearningFocusFromToday
  <2>2. p.learn = 0
    BY <1>8, <1>10
  <2>3. \A i \in Learning(t) : t[i].title = 0
    BY <1>8, <1>10, <1>12, <2>2
  <2>4. Learning(t) = {} => AreaTitle(d) = 0
    BY <1>8, <1>10, <2>2
  <2>5. Settled(d)
    BY <1>4, <1>8, <1>10, <2>3, <2>4 DEF Settled
  <2> QED
    BY <1>4, <1>8, <2>1, <2>5
<1>11. CASE d.learn # 0
  <2>1. /\ q \in Plan /\ SameTicks(d, q) /\ Settled(q)
        /\ 1 \in Learning(t) /\ t[1].title = d.learn => q.today = t
    BY <1>4, <1>8, <1>9, <1>11, FocusBecomesItem
  <2>2. SameTicks(p, q)
    BY <1>8, <2>1 DEF SameTicks
  <2>3. ASSUME Settled(p) PROVE 1 \in Learning(t) /\ t[1].title = d.learn /\ t = p.today
    <3>1. t = p.today
      BY <1>4, <2>3
    <3>2. CASE p.learn # 0
      BY <1>8, <2>3, <3>1, <3>2 DEF Settled
    <3>3. CASE p.learn = 0 /\ Learning(t) # {}
      <4>1. Min(Learning(t)) = 1 /\ Learning(t) = {1}
        BY ONLY <1>12, <3>3
      <4>2. d.learn = t[Min(Learning(t))].title
        BY ONLY <1>8, <3>3
      <4> QED
        BY ONLY <3>1, <4>1, <4>2
    <3>4. CASE p.learn = 0 /\ Learning(t) = {}
      BY <1>8, <1>11, <2>3, <3>1, <3>4 DEF Settled
    <3> QED
      BY <3>1, <3>2, <3>3, <3>4
  <2> QED
    BY <2>1, <2>2, <2>3
<1> QED
  BY <1>10, <1>11

LEMMA NothingYet ==
  /\ NoPlanYet \in Plan /\ Away \in Held /\ Away.row \in Row /\ ShapeOK(Away.row)
  /\ Away.at = "idle" /\ Away.row.plan.pin = FALSE /\ Away.row.plan.ticks = {}
<1>1. NoPlanYet \in Plan
  BY DEF NoPlanYet, Plan
<1>2. Away.row \in Row /\ Away.row.plan = NoPlanYet /\ Away.row.phase = "intake"
  BY <1>1 DEF Away, Row, Status
<1>3. Away \in Held /\ Away.at = "idle"
  BY <1>2 DEF Away, Held
<1>4. ShapeOK(Away.row)
  <2>1. /\ NoPlanYet.today = <<>> /\ NoPlanYet.made = 0 /\ NoPlanYet.learn = 0
        /\ NoPlanYet.areas = <<>>
    BY DEF NoPlanYet
  <2>2. Learning(<<>>) = {} /\ Short(<<>>)
    BY DEF Short, Learning, MaxToday
  <2>3. Settled(NoPlanYet)
    BY <2>1, <2>2 DEF Settled, AreaTitle
  <2> QED
    BY <1>2, <2>1, <2>3 DEF ShapeOK
<1> QED
  BY <1>1, <1>2, <1>3, <1>4 DEF NoPlanYet

\* A request steps without touching the rows.
LEMMA RequestSteps ==
  ASSUME PlanningInv, NEW r \in Callers, NEW h \in Held,
         call' = [call EXCEPT ![r] = h],
         UNCHANGED <<plans, wanted, catalog, overlap>>,
         ~Stands(r, "archive"),
         h.at \in {"think", "patch"} =>
           /\ h.id \in DOMAIN plans /\ h.id \notin locked /\ h.row = plans[h.id]
           /\ locked' = locked \cup {h.id},
         h.at \notin {"think", "patch"} =>
           locked' = locked \/ (Edits(r) /\ locked' = locked \ {call[r].id})
  PROVE  PlanningInv'
<1>1. /\ \A q \in Callers : call'[q] = IF q = r THEN h ELSE call[q]
      /\ call' \in [Callers -> Held] /\ locked' \subseteq Nat
  <2>1. /\ call \in [Callers -> Held] /\ locked \subseteq Nat
        /\ \A s \in DOMAIN plans : s \in Nat
    BY DEF PlanningInv, PlanningTypeOK
  <2>2. locked' \subseteq locked \cup DOMAIN plans
    OBVIOUS
  <2> QED
    BY <2>1, <2>2
<1>2. PlanningTypeOK'
  BY <1>1 DEF PlanningInv, PlanningTypeOK
<1>3. ASSUME NEW s \in DOMAIN plans' PROVE ShapeOK(plans'[s])
  BY <1>3 DEF PlanningInv
<1>4. ASSUME NEW q \in Callers PROVE Editing(q)'
  <2>1. CASE q = r
    BY <1>1, <2>1 DEF Editing, Edits
  <2>2. CASE q # r
    <3>1. Edits(q) => call[q].id \in locked'
      BY <2>2 DEF PlanningInv, Editing, Edits, OneEditor
    <3> QED
      BY <1>1, <2>2, <3>1 DEF PlanningInv, Editing, Edits
  <2> QED
    BY <2>1, <2>2
<1>5. OneEditor'
  BY <1>1 DEF PlanningInv, OneEditor, Editing, Edits
<1>6. PinSurvives'
  BY DEF PlanningInv, PinSurvives
<1>7. ASSUME ~overlap', ~OneActive'
      PROVE  \E q \in Callers : Stands(q, "archive")'
  <2>1. ~OneActive /\ ~overlap
    BY <1>7 DEF OneActive, Active
  <2>2. PICK q \in Callers : Stands(q, "archive")
    BY <2>1 DEF PlanningInv
  <2> QED
    BY <1>1, <2>2 DEF Stands
<1> QED
  BY <1>2, <1>3, <1>4, <1>5, <1>6, <1>7 DEF PlanningInv

\* An editor writes its row and gives the lock back.
LEMMA RowIsWritten ==
  ASSUME PlanningInv, NEW r \in Callers, Edits(r),
         NEW row \in Row, NEW w \in Wish, ShapeOK(row),
         row.status = call[r].row.status,
         w.pin = row.plan.pin, w.ticks = row.plan.ticks,
         plans' = [plans EXCEPT ![call[r].id] = row],
         wanted' = [wanted EXCEPT ![call[r].id] = w],
         Unlocks(r), UNCHANGED <<catalog, overlap>>
  PROVE  PlanningInv'
<1> DEFINE s == call[r].id
<1>1. /\ \A q \in Callers : call'[q] = IF q = r THEN Away ELSE call[q]
      /\ call' \in [Callers -> Held] /\ locked' \subseteq Nat /\ locked' = locked \ {s}
      /\ Away.at = "idle"
  BY NothingYet DEF PlanningInv, PlanningTypeOK, Unlocks, Leaves
<1>2. /\ s \in DOMAIN plans /\ s \in 1 .. Len(plans)
      /\ plans \in Seq(Row) /\ wanted \in Seq(Wish) /\ Len(plans) = Len(wanted)
  BY DEF PlanningInv, PlanningTypeOK, Editing
<1>3. /\ plans' \in Seq(Row) /\ Len(plans') = Len(plans)
      /\ DOMAIN plans' = DOMAIN plans
      /\ \A d \in DOMAIN plans : plans'[d] = IF d = s THEN row ELSE plans[d]
      /\ wanted' \in Seq(Wish) /\ Len(wanted') = Len(wanted)
      /\ \A d \in DOMAIN plans : wanted'[d] = IF d = s THEN w ELSE wanted[d]
  BY <1>2
<1>4. PlanningTypeOK'
  BY <1>1, <1>2, <1>3 DEF PlanningInv, PlanningTypeOK
<1>5. ASSUME NEW d \in DOMAIN plans' PROVE ShapeOK(plans'[d])
  BY <1>3, <1>5 DEF PlanningInv
<1>6. ASSUME NEW q \in Callers PROVE Editing(q)'
  <2>1. CASE q = r
    BY <1>1, <2>1 DEF Editing, Edits
  <2>2. CASE q # r
    <3>1. Edits(q) => call[q].id \in DOMAIN plans /\ call[q].id # s
      BY <2>2 DEF PlanningInv, Editing, OneEditor
    <3> QED
      BY <1>1, <1>3, <2>2, <3>1 DEF PlanningInv, Editing, Edits
  <2> QED
    BY <2>1, <2>2
<1>7. OneEditor'
  BY <1>1 DEF PlanningInv, OneEditor, Edits
<1>8. PinSurvives'
  BY <1>3 DEF PlanningInv, PinSurvives
<1>9. ASSUME ~overlap', ~OneActive'
      PROVE  \E q \in Callers : Stands(q, "archive")'
  <2>1. row.status = plans[s].status
    BY <1>9 DEF PlanningInv, Editing
  <2>2. Active' = Active
    BY <1>3, <2>1 DEF Active
  <2>3. ~OneActive /\ ~overlap
    BY <1>9, <2>2 DEF OneActive
  <2>4. PICK q \in Callers : Stands(q, "archive")
    BY <2>3 DEF PlanningInv
  <2>5. q # r
    BY <2>4 DEF Stands, Edits
  <2> QED
    BY <1>1, <2>4, <2>5 DEF Stands
<1> QED
  BY <1>4, <1>5, <1>6, <1>7, <1>8, <1>9 DEF PlanningInv

LEMMA Creates ==
  ASSUME PlanningInv, NEW r \in Callers, CreatePlanningSession(r)
  PROVE  PlanningInv'
<1> DEFINE n == Len(plans) + 1
           nothing == [pin |-> FALSE, ticks |-> {}]
<1>1. /\ plans \in Seq(Row) /\ wanted \in Seq(Wish) /\ Len(plans) = Len(wanted)
      /\ n \in Nat /\ DOMAIN plans = 1 .. Len(plans) /\ Stands(r, "create")
  BY DEF PlanningInv, PlanningTypeOK, CreatePlanningSession
<1>2. nothing \in Wish /\ nothing.pin = FALSE /\ nothing.ticks = {}
  BY DEF Wish
<1>3. /\ plans' \in Seq(Row) /\ Len(plans') = n /\ DOMAIN plans' = 1 .. n
      /\ \A d \in DOMAIN plans : plans'[d] = plans[d] /\ d # n
      /\ plans'[n] = Away.row
  BY <1>1, NothingYet DEF CreatePlanningSession
<1>4. /\ wanted' \in Seq(Wish) /\ Len(wanted') = n
      /\ \A d \in DOMAIN plans : wanted'[d] = wanted[d]
      /\ wanted'[n] = nothing
  BY <1>1, <1>2 DEF CreatePlanningSession
<1>5. \A d \in DOMAIN plans' : d \in DOMAIN plans \/ d = n
  BY <1>1, <1>3
<1>6. /\ call' \in [Callers -> Held] /\ call'[r].at = "archive"
      /\ \A q \in Callers : q # r => call'[q] = call[q]
  <2>1. call[r] \in Held
    BY DEF PlanningInv, PlanningTypeOK
  <2>2. [call[r] EXCEPT !.at = "archive", !.id = n] \in Held
    BY <1>1, <2>1 DEF Held
  <2>3. call' = [call EXCEPT ![r] = [call[r] EXCEPT !.at = "archive", !.id = n]]
    BY DEF CreatePlanningSession
  <2> QED
    BY <2>2, <2>3 DEF PlanningInv, PlanningTypeOK, Held
<1> HIDE DEF n, nothing
<1>7. PlanningTypeOK'
  BY <1>3, <1>4, <1>6 DEF PlanningInv, PlanningTypeOK, CreatePlanningSession
<1>8. ASSUME NEW d \in DOMAIN plans' PROVE ShapeOK(plans'[d])
  <2>1. CASE d = n
    BY <1>3, <2>1, NothingYet
  <2>2. CASE d \in DOMAIN plans
    BY <1>3, <2>2 DEF PlanningInv
  <2> QED
    BY <1>5, <1>8, <2>1, <2>2
<1>9. ASSUME NEW q \in Callers PROVE Editing(q)'
  <2>1. CASE q = r
    BY <1>6, <2>1 DEF Editing, Edits
  <2>2. CASE q # r
    <3>1. Edits(q) => /\ call[q].id \in DOMAIN plans
                      /\ call[q].id \in DOMAIN plans'
                      /\ plans'[call[q].id] = plans[call[q].id]
      BY <1>1, <1>3 DEF PlanningInv, Editing, n
    <3> QED
      BY <1>6, <2>2, <3>1 DEF PlanningInv, Editing, Edits, CreatePlanningSession
  <2> QED
    BY <2>1, <2>2
<1>10. OneEditor'
  BY <1>6 DEF PlanningInv, OneEditor, Edits
<1>11. PinSurvives'
  <2>1. ASSUME NEW d \in DOMAIN plans'
        PROVE  plans'[d].plan.pin = wanted'[d].pin /\ plans'[d].plan.ticks = wanted'[d].ticks
    <3>1. CASE d = n
      BY <1>2, <1>3, <1>4, <3>1, NothingYet
    <3>2. CASE d \in DOMAIN plans
      BY <1>3, <1>4, <3>2 DEF PlanningInv, PinSurvives
    <3> QED
      BY <1>5, <2>1, <3>1, <3>2
  <2> QED
    BY <2>1 DEF PinSurvives
<1>12. Stands(r, "archive")'
  BY <1>6 DEF Stands
<1> QED
  BY <1>7, <1>8, <1>9, <1>10, <1>11, <1>12 DEF PlanningInv

LEMMA Archives ==
  ASSUME PlanningInv, NEW r \in Callers, ArchiveOtherPlanningSessions(r)
  PROVE  PlanningInv'
<1> DEFINE keep == call[r].id
<1>1. /\ plans \in Seq(Row) /\ wanted \in Seq(Wish) /\ Len(plans) = Len(wanted)
      /\ DOMAIN plans = 1 .. Len(plans) /\ Len(plans) \in Nat
      /\ Stands(r, "archive") /\ ~Edits(r)
      /\ UNCHANGED <<locked, catalog, wanted>>
  BY DEF PlanningInv, PlanningTypeOK, ArchiveOtherPlanningSessions, Stands, Edits
<1>2. /\ \A q \in Callers : call'[q] = IF q = r THEN Away ELSE call[q]
      /\ call' \in [Callers -> Held] /\ Away.at = "idle"
  BY NothingYet DEF PlanningInv, PlanningTypeOK, ArchiveOtherPlanningSessions, Leaves
<1>3. \/ /\ plans' = Archived(keep)
         /\ ~overlap' => ~overlap /\ \A q \in Callers \ {r} : Stands(q, "idle")
      \/ plans' = plans /\ overlap'
  BY DEF ArchiveOtherPlanningSessions
<1>4. overlap' \in BOOLEAN
  BY DEF PlanningInv, PlanningTypeOK, ArchiveOtherPlanningSessions
<1> HIDE DEF keep
<1>5. \A d \in DOMAIN plans :
        /\ plans[d] \in Row
        /\ [plans[d] EXCEPT !.status = "archived"] \in Row
        /\ [plans[d] EXCEPT !.status = "archived"].plan = plans[d].plan
        /\ [plans[d] EXCEPT !.status = "archived"].phase = plans[d].phase
        /\ [plans[d] EXCEPT !.status = "archived"].status = "archived"
  <2>1. ASSUME NEW d \in DOMAIN plans PROVE plans[d] \in Row
    BY <1>1
  <2> QED
    BY <2>1 DEF Row, Status
<1>6. /\ plans' \in Seq(Row) /\ Len(plans') = Len(plans) /\ DOMAIN plans' = DOMAIN plans
      /\ \A d \in DOMAIN plans : /\ plans'[d].plan = plans[d].plan
                                 /\ plans'[d].phase = plans[d].phase
  <2>1. CASE plans' = plans
    BY <1>1, <2>1
  <2>2. CASE plans' = Archived(keep)
    <3>1. \A d \in DOMAIN plans :
            plans'[d] = IF d = keep THEN plans[d]
                        ELSE [plans[d] EXCEPT !.status = "archived"]
      BY <2>2 DEF Archived
    <3>2. DOMAIN plans' = DOMAIN plans /\ plans' = [d \in DOMAIN plans |-> plans'[d]]
      BY <2>2 DEF Archived
    <3>3. \A d \in DOMAIN plans : plans'[d] \in Row
      BY <1>5, <3>1
    <3>4. plans' \in [1 .. Len(plans) -> Row]
      BY <1>1, <3>2, <3>3
    <3>5. plans' \in Seq(Row) /\ Len(plans') = Len(plans)
      BY <1>1, <3>4
    <3> QED
      BY <1>5, <3>1, <3>2, <3>5
  <2> QED
    BY <1>3, <2>1, <2>2
<1>7. PlanningTypeOK'
  BY <1>1, <1>2, <1>4, <1>6 DEF PlanningInv, PlanningTypeOK
<1>8. ASSUME NEW d \in DOMAIN plans' PROVE ShapeOK(plans'[d])
  BY <1>6, <1>8 DEF PlanningInv, ShapeOK
<1>9. ASSUME NEW q \in Callers PROVE Editing(q)'
  <2>1. CASE q = r
    BY <1>2, <2>1 DEF Editing, Edits
  <2>2. CASE q # r /\ Edits(q)
    <3>1. q \in Callers \ {r} /\ ~Stands(q, "idle")
      BY <2>2 DEF Stands, Edits
    <3>2. overlap'
      BY <1>3, <3>1
    <3> QED
      BY <1>1, <1>2, <1>6, <2>2, <3>2 DEF PlanningInv, Editing, Edits
  <2>3. CASE q # r /\ ~Edits(q)
    BY <1>2, <2>3 DEF Editing, Edits
  <2> QED
    BY <2>1, <2>2, <2>3
<1>10. OneEditor'
  BY <1>2 DEF PlanningInv, OneEditor, Edits
<1>11. PinSurvives'
  BY <1>1, <1>6 DEF PlanningInv, PinSurvives
<1>12. ~overlap' => OneActive'
  <2> SUFFICES ASSUME ~overlap' PROVE OneActive'
    OBVIOUS
  <2>1. plans' = Archived(keep)
    BY <1>3
  <2>2. \A d \in DOMAIN plans : d # keep => plans'[d].status = "archived"
    BY <1>5, <2>1 DEF Archived
  <2>3. Active' \subseteq {keep}
    BY <1>6, <2>2 DEF Active
  <2> QED
    BY <2>3 DEF OneActive
<1> QED
  BY <1>7, <1>8, <1>9, <1>10, <1>11, <1>12 DEF PlanningInv

LEMMA PlanningStarts == PlanningInit => PlanningInv
<1> SUFFICES ASSUME PlanningInit PROVE PlanningInv
  OBVIOUS
<1>1. /\ plans = <<>> /\ wanted = <<>> /\ locked = {} /\ overlap = FALSE
      /\ catalog = Catalog /\ call = [r \in Callers |-> Away]
  BY DEF PlanningInit
<1>2. PlanningTypeOK
  <2>1. plans \in Seq(Row) /\ wanted \in Seq(Wish) /\ Len(wanted) = Len(plans)
    BY <1>1
  <2>2. call \in [Callers -> Held]
    BY <1>1, NothingYet
  <2>3. locked \subseteq Nat /\ catalog \subseteq Nat \ {0} /\ overlap \in BOOLEAN
    BY <1>1, PlanningAssumption
  <2> QED
    BY <2>1, <2>2, <2>3 DEF PlanningTypeOK
<1>3. DOMAIN plans = {}
  BY <1>1
<1>4. \A r \in Callers : ~Edits(r)
  BY <1>1, NothingYet DEF Edits
<1> QED
  BY <1>2, <1>3, <1>4 DEF PlanningInv, Editing, OneEditor, PinSurvives, OneActive, Active

LEMMA Synthesized ==
  ASSUME PlanningInv, NEW r \in Callers, NEW output \in Outputs, Synthesizes(r, output)
  PROVE  PlanningInv'
<1> DEFINE s == call[r].id
           made == call[r].row.plan.made + 1
           plan == [Normalized(catalog, output) EXCEPT !.made = made]
           row == [call[r].row EXCEPT !.phase = "plan_ready", !.plan = plan]
           w == [pin |-> FALSE, ticks |-> {}]
<1>1. call[r].row \in Row /\ made \in Nat /\ made > 0 /\ output \in Plan /\ Edits(r)
      /\ catalog \in SUBSET Nat
  <2>1. call[r] \in Held /\ catalog \in SUBSET Nat
    BY DEF PlanningInv, PlanningTypeOK
  <2>2. call[r].row \in Row /\ call[r].row.plan \in Plan
    BY <2>1 DEF Held, Row
  <2>3. call[r].row.plan.made \in Nat
    BY <2>2 DEF Plan
  <2> QED
    BY <2>1, <2>2, <2>3, PlanningAssumption DEF Edits, Synthesizes, Stands
<1>2. PICK q : q = Hydrated(catalog, output)
  OBVIOUS
<1>3. q \in Plan /\ Settled(q)
  BY <1>1, <1>2, HydratedIsSettled
<1>4. plan = [[q EXCEPT !.pin = FALSE, !.ticks = {}] EXCEPT !.made = made]
  BY <1>2 DEF Normalized
<1>5. /\ plans' = [plans EXCEPT ![s] = row] /\ wanted' = [wanted EXCEPT ![s] = w]
      /\ Unlocks(r) /\ UNCHANGED <<catalog, overlap>>
  BY DEF Synthesizes, Store
<1> HIDE DEF plan, made
<1>6. /\ plan \in Plan /\ Settled(plan) /\ plan.made = made
      /\ plan.pin = FALSE /\ plan.ticks = {}
  <2>1. /\ plan \in Plan /\ plan.made = made /\ plan.pin = FALSE /\ plan.ticks = {}
        /\ plan.today = q.today /\ plan.learn = q.learn /\ plan.areas = q.areas
    BY <1>1, <1>3, <1>4 DEF Plan
  <2> QED
    BY <1>3, <2>1 DEF Settled, AreaTitle
<1>7. /\ row \in Row /\ row.plan = plan /\ row.phase = "plan_ready"
      /\ row.status = call[r].row.status
  BY <1>1, <1>6 DEF Row
<1>8. w \in Wish /\ w.pin = FALSE /\ w.ticks = {}
  BY DEF Wish
<1> HIDE DEF row, w, s
<1>9. ShapeOK(row)
  BY <1>1, <1>6, <1>7 DEF ShapeOK
<1> QED
  BY <1>1, <1>5, <1>6, <1>7, <1>8, <1>9, RowIsWritten DEF s

LEMMA Patched ==
  ASSUME PlanningInv, NEW r \in Callers, NEW pin \in BOOLEAN, NEW tick \in SUBSET Nat,
         ApplyPlanningFocusPatch(r, pin, tick)
  PROVE  PlanningInv'
<1> DEFINE s == call[r].id
           old == call[r].row.plan
           plan == [Hydrated(catalog, old) EXCEPT !.pin = pin, !.ticks = @ \cup tick]
           row == [call[r].row EXCEPT !.plan = plan]
           w == [wanted[s] EXCEPT !.pin = pin, !.ticks = @ \cup tick]
<1>1. /\ call[r].row \in Row /\ old \in Plan /\ Edits(r) /\ catalog \in SUBSET Nat
      /\ s \in DOMAIN plans /\ wanted \in Seq(Wish) /\ s \in 1 .. Len(wanted)
      /\ old = plans[s].plan /\ ShapeOK(plans[s])
      /\ call[r].row.phase = plans[s].phase
      /\ wanted[s].ticks = old.ticks
  BY DEF PlanningInv, PlanningTypeOK, Held, Row, Edits, ApplyPlanningFocusPatch, Stands,
         Editing, PinSurvives
<1>2. PICK q : q = Hydrated(catalog, old)
  OBVIOUS
<1>3. q \in Plan /\ Settled(q) /\ q.ticks = old.ticks /\ q.made = old.made
  BY <1>1, <1>2, HydratedIsSettled DEF SameTicks
<1>4. plan = [q EXCEPT !.pin = pin, !.ticks = q.ticks \cup tick]
  BY <1>2
<1>5. /\ plans' = [plans EXCEPT ![s] = row]
      /\ wanted' = [wanted EXCEPT ![s].pin = pin, ![s].ticks = @ \cup tick]
      /\ Unlocks(r) /\ UNCHANGED <<catalog, overlap>>
  BY DEF ApplyPlanningFocusPatch, Store
<1>10. wanted' = [wanted EXCEPT ![s] = w]
  BY <1>1, <1>5
<1> HIDE DEF plan
<1>6. /\ plan \in Plan /\ Settled(plan) /\ plan.made = old.made
      /\ plan.pin = pin /\ plan.ticks = old.ticks \cup tick
  <2>1. /\ plan \in Plan /\ plan.made = old.made
        /\ plan.pin = pin /\ plan.ticks = old.ticks \cup tick
        /\ plan.today = q.today /\ plan.learn = q.learn /\ plan.areas = q.areas
    BY <1>1, <1>3, <1>4 DEF Plan
  <2> QED
    BY <1>3, <2>1 DEF Settled, AreaTitle
<1>7. /\ row \in Row /\ row.plan = plan /\ row.phase = call[r].row.phase
      /\ row.status = call[r].row.status
  BY <1>1, <1>6 DEF Row
<1>8. w \in Wish /\ w.pin = pin /\ w.ticks = old.ticks \cup tick
  <2>1. wanted[s] \in Wish
    BY <1>1
  <2> QED
    BY <1>1, <2>1 DEF Wish
<1> HIDE DEF row, w, s, old
<1>9. ShapeOK(row)
  BY <1>1, <1>6, <1>7 DEF ShapeOK
<1> QED
  BY <1>1, <1>5, <1>6, <1>7, <1>8, <1>9, <1>10, RowIsWritten DEF s

LEMMA PlanningSteps == PlanningInv /\ [PlanningNext]_planVars => PlanningInv'
<1> SUFFICES ASSUME PlanningInv, [PlanningNext]_planVars PROVE PlanningInv'
  OBVIOUS
<1> USE DEF Stands
<1>1. CASE UNCHANGED planVars
  BY <1>1 DEF planVars, PlanningInv, PlanningTypeOK, Editing, Edits, OneEditor,
              PinSurvives, OneActive, Active
<1>2. ASSUME NEW c \in catalog, CourseDeleted(c) PROVE PlanningInv'
  BY <1>2 DEF CourseDeleted, PlanningInv, PlanningTypeOK, Editing, Edits, OneEditor,
              PinSurvives, OneActive, Active
<1>3. ASSUME NEW r \in Callers, NEW forceNew \in BOOLEAN, FindsNoActive(r, forceNew)
      PROVE  PlanningInv'
  <2>1. call[r] \in Held
    BY DEF PlanningInv, PlanningTypeOK
  <2>2. PICK h : h = [call[r] EXCEPT !.at = "create"]
    OBVIOUS
  <2>3. h \in Held /\ h.at = "create" /\ call' = [call EXCEPT ![r] = h]
    BY <1>3, <2>1, <2>2 DEF Held, FindsNoActive
  <2> QED
    BY <1>3, <2>3, RequestSteps DEF FindsNoActive
<1>4. ASSUME NEW r \in Callers, NEW s \in DOMAIN plans, NEW step \in {"think", "patch"},
             Reads(r, s, step)
      PROVE  PlanningInv'
  <2>1. s \in Nat /\ plans[s] \in Row
    BY DEF PlanningInv, PlanningTypeOK
  <2>2. PICK h : h = [at |-> step, id |-> s, row |-> plans[s]]
    OBVIOUS
  <2>3. h \in Held /\ h.at = step /\ h.id = s /\ h.row = plans[s]
    BY <2>1, <2>2 DEF Held
  <2> QED
    BY <1>4, <2>2, <2>3, RequestSteps DEF Reads
<1>5. ASSUME NEW r \in Callers, AnswersOnly(r) PROVE PlanningInv'
  <2>1. /\ Edits(r) /\ call[r].row \in Row /\ call[r].id \in DOMAIN plans
        /\ wanted \in Seq(Wish) /\ call[r].id \in 1 .. Len(wanted)
        /\ ShapeOK(plans[call[r].id])
        /\ call[r].row.plan = plans[call[r].id].plan
        /\ call[r].row.phase = plans[call[r].id].phase
    BY <1>5 DEF AnswersOnly, Edits, PlanningInv, PlanningTypeOK, Held, Editing
  <2>2. wanted[call[r].id] \in Wish /\ wanted' = [wanted EXCEPT ![call[r].id] = wanted[call[r].id]]
    BY <1>5, <2>1 DEF AnswersOnly
  <2>3. ShapeOK(call[r].row)
    BY <2>1 DEF ShapeOK
  <2>4. /\ wanted[call[r].id].pin = call[r].row.plan.pin
        /\ wanted[call[r].id].ticks = call[r].row.plan.ticks
    BY <2>1 DEF PlanningInv, PinSurvives
  <2> QED
    BY <1>5, <2>1, <2>2, <2>3, <2>4, RowIsWritten DEF AnswersOnly, Store
<1>6. ASSUME NEW r \in Callers, MessageFails(r) PROVE PlanningInv'
  <2>1. Edits(r) /\ locked' = locked \ {call[r].id} /\ call' = [call EXCEPT ![r] = Away]
    BY <1>6 DEF MessageFails, Edits, Unlocks, Leaves
  <2> QED
    BY <1>6, <2>1, NothingYet, RequestSteps DEF MessageFails
<1>7. ASSUME NEW r \in Callers,
             ApplyPlanningFocusPatch(r, TRUE, {}) \/ ApplyPlanningFocusPatch(r, FALSE, {1})
      PROVE  PlanningInv'
  <2>1. {} \in SUBSET Nat /\ {1} \in SUBSET Nat /\ TRUE \in BOOLEAN /\ FALSE \in BOOLEAN
    OBVIOUS
  <2> QED
    BY <1>7, <2>1, Patched
<1> QED
  BY <1>1, <1>2, <1>3, <1>4, <1>5, <1>6, <1>7, Creates, Archives, Synthesized
     DEF PlanningNext, SendPlanningMessage, PatchPlanningFocus

\* The inductive invariant of the planning assistant, with its types.
THEOREM PlanningInvariant == PlanningSpec => []PlanningInv
<1>1. PlanningInit => PlanningInv
  BY PlanningStarts
<1>2. PlanningInv /\ [PlanningNext]_planVars => PlanningInv'
  BY PlanningSteps
<1> QED
  BY <1>1, <1>2, PTL DEF PlanningSpec

LEMMA AtMostOne ==
  ASSUME NEW S, S = {} \/ \E x : S = {x}
  PROVE  Cardinality(S) <= 1
<1>1. CASE S = {}
  BY <1>1, FS_EmptySet
<1>2. CASE \E x : S = {x}
  <2>1. PICK x : S = {x}
    BY <1>2
  <2>2. Cardinality(S) = 1
    BY <2>1, FS_Singleton
  <2> QED
    BY <2>2
<1> QED
  BY <1>1, <1>2

\* Whatever the LLM answers and whatever becomes of the courses, a stored plan
\* has three items at most, one of them for learning, the one in focus.
THEOREM PlansAreWellFormed == PlanningSpec => []PlanWellFormed
<1>1. PlanningInv => PlanWellFormed
  <2> SUFFICES ASSUME PlanningInv, NEW s \in DOMAIN plans,
                      NEW today, today = plans[s].plan.today
               PROVE  /\ (plans[s].phase = "plan_ready") = (plans[s].plan.made > 0)
                      /\ Len(today) <= MaxToday /\ Cardinality(Learning(today)) <= 1
                      /\ plans[s].plan.learn # 0 =>
                           \E i \in Learning(today) : today[i].title = plans[s].plan.learn
    BY DEF PlanWellFormed
  <2>1. ShapeOK(plans[s])
    BY DEF PlanningInv
  <2>2. Learning(today) \subseteq {1}
    BY <2>1 DEF ShapeOK, Settled, Short
  <2>3. Learning(today) = {} \/ \E i : Learning(today) = {i}
    BY <2>2
  <2>4. Cardinality(Learning(today)) <= 1
    BY <2>3, AtMostOne
  <2> QED
    BY <2>1, <2>4 DEF ShapeOK, Settled, Short
<1> QED
  BY <1>1, PlanningInvariant, PTL

\* No message that is being answered takes a pin or a tick back.
THEOREM PinsAreKept == PlanningSpec => []PinSurvives
<1>1. PlanningInv => PinSurvives
  BY DEF PlanningInv
<1> QED
  BY <1>1, PlanningInvariant, PTL

\* A fresh start is the only active session, unless a request overlapped the
\* archiving of the others.
THEOREM FreshStartIsAlone == PlanningSpec => []FreshStartHolds
<1>1. PlanningInv => FreshStartHolds
  <2> SUFFICES ASSUME PlanningInv, ~overlap, \A r \in Callers : ~Stands(r, "archive")
               PROVE  Cardinality(Active) <= 1
    BY DEF FreshStartHolds
  <2>1. OneActive
    BY DEF PlanningInv
  <2>2. Active = {} \/ \E s : Active = {s}
    BY <2>1 DEF OneActive
  <2> QED
    BY <2>2, AtMostOne
<1> QED
  BY <1>1, PlanningInvariant, PTL

\* What a tick refers to: the items of a plan stay as they are.
ItemsStay ==
  \A s \in DOMAIN plans :
    plans'[s].plan.made = plans[s].plan.made => plans'[s].plan.today = plans[s].plan.today

LEMMA WritesOneRow ==
  ASSUME PlanningInv, NEW r \in Callers, Edits(r), NEW row, Store(call[r].id, row),
         row.plan.made = plans[call[r].id].plan.made =>
           row.plan.today = plans[call[r].id].plan.today
  PROVE  ItemsStay
<1>1. plans' = [plans EXCEPT ![call[r].id] = row]
  BY DEF Store
<1>2. plans \in Seq(Row) /\ call[r].id \in DOMAIN plans
  BY DEF PlanningInv, PlanningTypeOK, Editing
<1>3. \A s \in DOMAIN plans : plans'[s] = IF s = call[r].id THEN row ELSE plans[s]
  BY <1>1, <1>2
<1> QED
  BY <1>3 DEF ItemsStay

LEMMA StepsKeepItems == PlanningInv /\ [PlanningNext]_planVars => ItemsStay
<1> SUFFICES ASSUME PlanningInv, [PlanningNext]_planVars PROVE ItemsStay
  OBVIOUS
<1>1. CASE UNCHANGED plans
  BY <1>1 DEF ItemsStay
<1>2. ASSUME NEW r \in Callers, CreatePlanningSession(r) PROVE ItemsStay
  <2>1. plans \in Seq(Row) /\ plans' = Append(plans, Away.row)
    BY <1>2 DEF PlanningInv, PlanningTypeOK, CreatePlanningSession
  <2>2. \A s \in DOMAIN plans : plans'[s] = plans[s]
    BY <2>1, NothingYet
  <2> QED
    BY <2>2 DEF ItemsStay
<1>3. ASSUME NEW r \in Callers, ArchiveOtherPlanningSessions(r) PROVE ItemsStay
  <2>1. CASE plans' = Archived(call[r].id)
    <3>1. \A s \in DOMAIN plans : plans[s] \in Row
      BY DEF PlanningInv, PlanningTypeOK
    <3>2. \A s \in DOMAIN plans : plans'[s].plan = plans[s].plan
      BY <2>1, <3>1 DEF Archived, Row
    <3> QED
      BY <3>2 DEF ItemsStay
  <2> QED
    BY <1>1, <1>3, <2>1 DEF ArchiveOtherPlanningSessions
<1>4. ASSUME NEW r \in Callers, AnswersOnly(r) PROVE ItemsStay
  <2>1. Edits(r) /\ call[r].row.plan = plans[call[r].id].plan /\ Store(call[r].id, call[r].row)
    BY <1>4 DEF AnswersOnly, Stands, Edits, PlanningInv, Editing
  <2> QED
    BY <2>1, WritesOneRow
<1>5. ASSUME NEW r \in Callers, NEW output \in Outputs, Synthesizes(r, output)
      PROVE  ItemsStay
  <2> DEFINE made == call[r].row.plan.made + 1
             plan == [Normalized(catalog, output) EXCEPT !.made = made]
             row == [call[r].row EXCEPT !.phase = "plan_ready", !.plan = plan]
  <2>1. /\ Edits(r) /\ call[r].row \in Row /\ call[r].row.plan \in Plan
        /\ call[r].row.plan = plans[call[r].id].plan
        /\ catalog \in SUBSET Nat /\ output \in Plan
    BY <1>5, PlanningAssumption
       DEF Synthesizes, Stands, Edits, PlanningInv, PlanningTypeOK, Editing, Held, Row
  <2>2. Hydrated(catalog, output) \in Plan
    BY <2>1, HydratedIsSettled
  <2>3. made # call[r].row.plan.made
    <3>1. call[r].row.plan.made \in Nat
      BY <2>1 DEF Plan
    <3> QED
      BY <3>1
  <2>4. Store(call[r].id, row)
    BY <1>5 DEF Synthesizes
  <2> HIDE DEF made
  <2>5. plan.made = made
    BY <2>2 DEF Normalized, Plan
  <2> HIDE DEF plan
  <2>6. row.plan = plan
    BY <2>1 DEF Row
  <2> HIDE DEF row
  <2> QED
    BY <2>1, <2>3, <2>4, <2>5, <2>6, WritesOneRow
<1>6. ASSUME NEW r \in Callers, NEW pin, NEW tick, ApplyPlanningFocusPatch(r, pin, tick)
      PROVE  ItemsStay
  <2> DEFINE old == call[r].row.plan
             plan == [Hydrated(catalog, old) EXCEPT !.pin = pin, !.ticks = @ \cup tick]
             row == [call[r].row EXCEPT !.plan = plan]
  <2>1. /\ Edits(r) /\ call[r].row \in Row /\ old \in Plan
        /\ old = plans[call[r].id].plan /\ catalog \in SUBSET Nat /\ Settled(old)
    BY <1>6
       DEF ApplyPlanningFocusPatch, Stands, Edits, PlanningInv, PlanningTypeOK, Editing,
           Held, Row, ShapeOK
  <2>2. PICK q : q = Hydrated(catalog, old)
    OBVIOUS
  <2>3. q \in Plan /\ q.today = old.today
    BY <2>1, <2>2, HydratedIsSettled
  <2>4. Store(call[r].id, row)
    BY <1>6 DEF ApplyPlanningFocusPatch
  <2>5. plan.today = old.today
    BY <2>2, <2>3 DEF Plan
  <2> HIDE DEF plan
  <2>6. row.plan = plan
    BY <2>1 DEF Row
  <2> HIDE DEF row
  <2> QED
    BY <2>1, <2>4, <2>5, <2>6, WritesOneRow
<1> QED
  BY <1>1, <1>2, <1>3, <1>4, <1>5, <1>6
     DEF PlanningNext, planVars, CourseDeleted, FindsNoActive, SendPlanningMessage,
         PatchPlanningFocus, Reads, MessageFails

\* Ticks are stored by the position of an item: no step moves an item until
\* the learner gets a new plan.
THEOREM TicksStayWithItems == PlanningSpec => TicksKeepTheirItems
<1>1. PlanningInv /\ [PlanningNext]_planVars => [ItemsStay]_planVars
  BY StepsKeepItems
<1> QED
  BY <1>1, PlanningInvariant, PTL DEF PlanningSpec, TicksKeepTheirItems, ItemsStay

(***************************************************************************)
(* CourseTree.                                                             *)
(***************************************************************************)
LEMMA LayerNames == Range(Layers) = {"entry", "intermediate", "advanced"}
<1>1. DOMAIN Layers = 1 .. 3 /\ Layers[1] = "entry" /\ Layers[2] = "intermediate"
      /\ Layers[3] = "advanced"
  BY DEF Layers
<1>2. \A x \in 1 .. 3 : x = 1 \/ x = 2 \/ x = 3
  OBVIOUS
<1>3. 1 \in 1 .. 3 /\ 2 \in 1 .. 3 /\ 3 \in 1 .. 3
  OBVIOUS
<1> QED
  BY <1>1, <1>2, <1>3 DEF Range

Layering == [Range(Layers) -> Seq(Keys)]

LEMMA NodeSeqType ==
  ASSUME NEW layers \in Layering
  PROVE  /\ NodeSeq(layers) \in Seq(Keys)
         /\ Range(NodeSeq(layers)) = UNION {Range(layers[l]) : l \in Range(Layers)}
<1>1. PICK a, b, c : a = layers["entry"] /\ b = layers["intermediate"]
                     /\ c = layers["advanced"]
  OBVIOUS
<1>2. a \in Seq(Keys) /\ b \in Seq(Keys) /\ c \in Seq(Keys)
  BY <1>1, LayerNames DEF Layering
<1>3. a \o b \in Seq(Keys) /\ NodeSeq(layers) = (a \o b) \o c
  BY <1>1, <1>2, ConcatProperties DEF NodeSeq
<1>4. Range(NodeSeq(layers)) = (Range(a) \cup Range(b)) \cup Range(c)
  <2>1. Range(a \o b) = Range(a) \cup Range(b)
    BY <1>2, RangeConcatenation
  <2>2. Range((a \o b) \o c) = Range(a \o b) \cup Range(c)
    BY <1>2, <1>3, RangeConcatenation
  <2> QED
    BY <1>3, <2>1, <2>2
<1>5. UNION {Range(layers[l]) : l \in Range(Layers)}
        = (Range(a) \cup Range(b)) \cup Range(c)
  BY <1>1, LayerNames
<1>6. (a \o b) \o c \in Seq(Keys)
  BY <1>2, <1>3, ConcatProperties
<1> QED
  BY <1>3, <1>4, <1>5, <1>6

LEMMA ModuleChanged ==
  ASSUME NEW mod \in Module, NEW S \in SUBSET Keys
  PROVE  [mod EXCEPT !.nodes = S] \in Module /\ [mod EXCEPT !.nodes = S].nodes = S
  BY DEF Module

\* One module of a sequence gets other nodes.
LEMMA OneModuleChanged ==
  ASSUME NEW mods \in Seq(Module), NEW i \in DOMAIN mods, NEW S \in SUBSET Keys
  PROVE  /\ [mods EXCEPT ![i].nodes = S] \in Seq(Module)
         /\ [mods EXCEPT ![i].nodes = S][i].nodes = S
         /\ DOMAIN [mods EXCEPT ![i].nodes = S] = DOMAIN mods
         /\ \A j \in (DOMAIN mods) \ {i} : [mods EXCEPT ![i].nodes = S][j] = mods[j]
<1>1. PICK mod \in Module : mod = [mods[i] EXCEPT !.nodes = S]
  <2>1. mods[i] \in Module
    OBVIOUS
  <2> QED
    BY <2>1, ModuleChanged
<1>2. [mods EXCEPT ![i].nodes = S] = [mods EXCEPT ![i] = mod]
  BY <1>1
<1>3. mod.nodes = S
  <2>1. mods[i] \in Module
    OBVIOUS
  <2> QED
    BY <1>1, <2>1, ModuleChanged
<1>4. PICK n \in Nat : mods \in [1 .. n -> Module] /\ DOMAIN mods = 1 .. n
  <2>1. Len(mods) \in Nat /\ mods \in [1 .. Len(mods) -> Module] /\ DOMAIN mods = 1 .. Len(mods)
    OBVIOUS
  <2> QED
    BY <2>1
<1>5. [mods EXCEPT ![i] = mod] \in [1 .. n -> Module]
  BY <1>4
<1>6. [mods EXCEPT ![i] = mod] \in Seq(Module)
  BY <1>4, <1>5
<1> QED
  BY <1>2, <1>3, <1>4, <1>6

LEMMA AdoptType ==
  ASSUME NEW mods \in Seq(Module), NEW k \in Keys
  PROVE  AdoptOrphan(mods, k) \in Seq(Module)
<1>1. PICK i : i = SmallestModule(mods)
  OBVIOUS
<1>2. CASE mods = <<>>
  BY <1>2 DEF AdoptOrphan
<1>3. CASE mods # <<>> /\ i \in DOMAIN mods
  <2>1. mods[i].nodes \cup {k} \in SUBSET Keys
    <3>1. mods[i] \in Module
      BY <1>3
    <3> QED
      BY <3>1 DEF Module
  <2>3. PICK S \in SUBSET Keys : S = mods[i].nodes \cup {k}
    BY <2>1
  <2>2. AdoptOrphan(mods, k) = [mods EXCEPT ![i].nodes = mods[i].nodes \cup {k}]
    BY <1>1, <1>3 DEF AdoptOrphan
  <2>4. AdoptOrphan(mods, k) = [mods EXCEPT ![i].nodes = S]
    BY <2>2, <2>3
  <2>5. [mods EXCEPT ![i].nodes = S] \in Seq(Module)
    BY <1>3, OneModuleChanged
  <2> QED
    BY <2>4, <2>5
<1>4. CASE mods # <<>> /\ i \notin DOMAIN mods
  <2>1. AdoptOrphan(mods, k) = mods
    BY <1>1, <1>4 DEF AdoptOrphan
  <2> QED
    BY <2>1
<1> QED
  BY <1>2, <1>3, <1>4

\* The recursion of RepairModules is well founded, and yields modules.
LEMMA AdoptedType ==
  ASSUME NEW N \in Nat, NEW base \in Seq(Module), NEW f \in [1 .. N -> Keys],
         NEW adopted,
         adopted = CHOOSE g : g = [n \in 0 .. N |->
                     IF n = 0 THEN base ELSE AdoptOrphan(g[n - 1], f[n])]
  PROVE  adopted[N] \in Seq(Module)
<1> DEFINE value(g, n) == IF n = 0 THEN base ELSE AdoptOrphan(g[n - 1], f[n])
           fits(g, m) == g = [n \in 0 .. m |-> value(g, n)]
           bad == {m \in Nat : ~\E g : fits(g, m)}
<1>1. bad = {}
  <2> SUFFICES ASSUME bad # {} PROVE FALSE
    OBVIOUS
  <2>1. PICK m \in bad : \A j \in bad : m <= j
    <3>1. bad \in SUBSET Nat
      OBVIOUS
    <3> HIDE DEF bad
    <3> QED
      BY <3>1, LeastIsLeast
  <2>2. CASE m = 0
    <3> DEFINE g == [n \in 0 .. 0 |-> base]
    <3>1. \A n \in 0 .. 0 : n = 0
      OBVIOUS
    <3>2. fits(g, 0)
      BY <3>1
    <3> QED
      BY <2>2, <3>2
  <2>3. CASE m # 0
    <3>1. m - 1 \in Nat /\ ~(m <= m - 1) /\ m \in Nat
      BY <2>3
    <3>2. m - 1 \notin bad
      BY <2>1, <3>1
    <3>3. PICK g : fits(g, m - 1)
      BY <3>1, <3>2
    <3>4. \A n \in 0 .. m - 1 : g[n] = value(g, n)
      BY <3>3
    <3> DEFINE h == [n \in 0 .. m |-> IF n = m THEN AdoptOrphan(g[m - 1], f[m]) ELSE g[n]]
    <3>5. ASSUME NEW n \in 0 .. m PROVE h[n] = value(h, n)
      <4>1. CASE n = m
        <5>1. h[m - 1] = g[m - 1] /\ h[m] = AdoptOrphan(g[m - 1], f[m])
          BY <3>1
        <5> QED
          BY <2>3, <4>1, <5>1
      <4>2. CASE n # m
        <5>1. n \in 0 .. m - 1 /\ h[n] = g[n]
          BY <3>1, <4>2
        <5>2. CASE n = 0
          BY <3>4, <5>1, <5>2
        <5>3. CASE n # 0
          <6>1. n - 1 \in 0 .. m /\ n - 1 # m
            BY <3>1, <4>2, <5>3
          <6>2. h[n - 1] = g[n - 1]
            BY <6>1
          <6> QED
            BY <3>4, <5>1, <5>3, <6>2
        <5> QED
          BY <5>2, <5>3
      <4> QED
        BY <4>1, <4>2
    <3>6. DOMAIN h = 0 .. m /\ h = [n \in DOMAIN h |-> h[n]]
      OBVIOUS
    <3> HIDE DEF h
    <3>7. h = [n \in 0 .. m |-> value(h, n)]
      BY <3>5, <3>6
    <3> QED
      BY <3>7
  <2> QED
    BY <2>2, <2>3
<1>2. \E g : fits(g, N)
  BY <1>1
<1>3. fits(adopted, N)
  BY <1>2
<1> HIDE DEF bad
<1>4. \A n \in 0 .. N : adopted[n] = value(adopted, n)
  BY <1>3
<1> DEFINE odd == {n \in Nat : n <= N /\ adopted[n] \notin Seq(Module)}
<1>5. ASSUME odd # {} PROVE FALSE
  <2>1. PICK n \in odd : \A j \in odd : n <= j
    <3>1. odd \in SUBSET Nat
      OBVIOUS
    <3> HIDE DEF odd
    <3> QED
      BY <1>5, <3>1, LeastIsLeast
  <2>2. n \in 0 .. N /\ n \in Nat
    OBVIOUS
  <2>3. CASE n = 0
    BY <1>4, <2>2, <2>3
  <2>4. CASE n # 0
    <3>1. n - 1 \in Nat /\ n - 1 <= N /\ ~(n <= n - 1) /\ n \in 1 .. N
      BY <2>2, <2>4
    <3>2. n - 1 \notin odd
      BY <2>1, <3>1
    <3>3. adopted[n - 1] \in Seq(Module) /\ f[n] \in Keys
      BY <3>1, <3>2
    <3>4. AdoptOrphan(adopted[n - 1], f[n]) \in Seq(Module)
      BY <3>3, AdoptType
    <3> QED
      BY <1>4, <2>2, <2>4, <3>4
  <2> QED
    BY <2>3, <2>4
<1>6. N \in Nat /\ N <= N
  OBVIOUS
<1> QED
  BY <1>5, <1>6

LEMMA RepairType ==
  ASSUME NEW mods \in Seq(Module), NEW keys \in SUBSET Keys
  PROVE  RepairModules(mods, keys) \in Seq(Module)
<1> DEFINE kept(i) == {k \in mods[i].nodes \cap keys :
                         \A j \in 1 .. (i - 1) : k \notin mods[j].nodes}
           draft(i) == [mods[i] EXCEPT !.order = IF @ = 0 THEN i ELSE @,
                                       !.nodes = {k \in @ \cap keys :
                             \A j \in 1 .. (i - 1) : k \notin mods[j].nodes}]
           drafts == [i \in DOMAIN mods |-> draft(i)]
           orphans == keys \ UNION {mods[i].nodes : i \in DOMAIN mods}
           N == Cardinality(orphans)
           f == InOrder(orphans)
           base == NonEmpty(drafts)
           adopted == CHOOSE g : g = [n \in 0 .. N |->
                        IF n = 0 THEN base ELSE AdoptOrphan(g[n - 1], f[n])]
<1>1. drafts \in Seq(Module)
  <2>1. ASSUME NEW i \in DOMAIN mods PROVE draft(i) \in Module
    <3>1. mods[i] \in Module /\ i \in Nat
      OBVIOUS
    <3>2. kept(i) \in SUBSET Keys
      BY <3>1 DEF Module
    <3>3. \A S \in SUBSET Keys :
            [mods[i] EXCEPT !.order = IF @ = 0 THEN i ELSE @, !.nodes = S] \in Module
      <4>1. PICK mod \in Module, o \in Int :
              mod = mods[i] /\ o = IF mod.order = 0 THEN i ELSE mod.order
        <5>1. PICK mod \in Module : mod = mods[i]
          BY <3>1
        <5>2. mod.order \in Int
          BY DEF Module
        <5> QED
          BY <3>1, <5>1, <5>2
      <4>2. \A S \in SUBSET Keys : [mod EXCEPT !.order = o, !.nodes = S] \in Module
        BY DEF Module
      <4> QED
        BY <4>1, <4>2
    <3>4. draft(i) = [mods[i] EXCEPT !.order = IF @ = 0 THEN i ELSE @, !.nodes = kept(i)]
      OBVIOUS
    <3> HIDE DEF draft, kept
    <3> QED
      BY <3>2, <3>3, <3>4
  <2> HIDE DEF draft
  <2>2. Len(mods) \in Nat /\ DOMAIN mods = 1 .. Len(mods)
    OBVIOUS
  <2>3. drafts \in [1 .. Len(mods) -> Module]
    BY <2>1, <2>2
  <2> QED
    BY <2>2, <2>3
<1>2. N \in Nat /\ f \in [1 .. N -> Keys]
  <2>1. IsFiniteSet(orphans) /\ orphans \in SUBSET Keys
    <3>1. orphans \in SUBSET Keys
      OBVIOUS
    <3> HIDE DEF orphans
    <3> QED
      BY <3>1, KeysAssumption, FS_Subset
  <2> HIDE DEF orphans
  <2>2. InOrder(orphans) \in [1 .. Cardinality(orphans) -> orphans]
    <3>1. orphans \in SUBSET (Nat \ {0})
      BY <2>1, KeysAssumption
    <3> QED
      BY <2>1, <3>1, FiniteInOrder
  <2> QED
    BY <2>1, <2>2, FS_CardinalityType
<1>3. base \in Seq(Module)
  <2> HIDE DEF drafts
  <2> QED
    BY <1>1, NonEmptyType
<1>4. RepairModules(mods, keys) = IF mods = <<>> THEN mods ELSE adopted[N]
  BY DEF RepairModules
<1> HIDE DEF N, f, base
<1>5. adopted[N] \in Seq(Module)
  BY <1>2, <1>3, AdoptedType
<1> QED
  BY <1>4, <1>5

-----------------------------------------------------------------------------
(* CourseTree: what the operations make of a tree.                         *)

IsTree(t) ==
  /\ t \in [layers : {t.layers}, title : {t.title}, requires : {t.requires}, mods : {t.mods}]
  /\ t.layers \in Layering /\ t.mods \in Seq(Module)

LEMMA NodesAreKeys ==
  ASSUME NEW t, t.layers \in Layering
  PROVE  /\ NodesOf(t) \in SUBSET Keys /\ NodeSeq(t.layers) \in Seq(Keys)
         /\ NodesOf(t) = Range(NodeSeq(t.layers))
         /\ NodesOf(t) = UNION {Range(t.layers[l]) : l \in Range(Layers)}
<1>1. PICK layers \in Layering : layers = t.layers
  OBVIOUS
<1>2. /\ NodeSeq(layers) \in Seq(Keys)
      /\ Range(NodeSeq(layers)) = UNION {Range(layers[l]) : l \in Range(Layers)}
  BY NodeSeqType
<1>3. Range(NodeSeq(layers)) \in SUBSET Keys
  BY <1>2, RangeOfSeq
<1> QED
  BY <1>1, <1>2, <1>3 DEF NodesOf

LEMMA RequiresMerged ==
  ASSUME NEW t, IsTree(t), NEW nodes
  PROVE  /\ IsTree(MergeNodeRequires(t, nodes))
         /\ MergeNodeRequires(t, nodes).layers = t.layers
         /\ MergeNodeRequires(t, nodes).mods = t.mods
         /\ MergeNodeRequires(t, nodes).title = t.title
<1>1. PICK rq : MergeNodeRequires(t, nodes) = [t EXCEPT !.requires = rq]
  BY DEF MergeNodeRequires
<1> QED
  BY <1>1 DEF IsTree

LEMMA BuiltType ==
  ASSUME NEW out, Parsed(out)
  PROVE  /\ IsTree(BuiltTree(out)) /\ NodesOf(BuiltTree(out)) = NodesOf(out)
         /\ BuiltTree(out).mods = RepairModules(out.mods, NodesOf(out))
<1>1. NodesOf(out) \in SUBSET Keys
  BY NodesAreKeys DEF Parsed, Layering
<1>2. RepairModules(out.mods, NodesOf(out)) \in Seq(Module)
  BY <1>1, RepairType DEF Parsed
<1> DEFINE t == [layers |-> out.layers, title |-> out.title,
                 requires |-> [k \in Keys |-> {}],
                 mods |-> RepairModules(out.mods, NodesOf(out))]
<1>3. IsTree(t) /\ t.layers = out.layers /\ t.mods = RepairModules(out.mods, NodesOf(out))
  BY <1>2 DEF IsTree, Parsed, Layering
<1>4. BuiltTree(out) = MergeNodeRequires(t, out.specs)
  BY DEF BuiltTree
<1> HIDE DEF t
<1> QED
  BY <1>3, <1>4, RequiresMerged DEF NodesOf

LEMMA GeneratedType ==
  ASSUME NEW out \in GenerateAndValidate
  PROVE  /\ IsTree(BuiltTree(out)) /\ BuiltTree(out).mods # <<>>
         /\ PartitionOf(BuiltTree(out).mods, NodesOf(BuiltTree(out)))
         /\ DOMAIN out.specs = NodesOf(BuiltTree(out))
<1>1. Parsed(out) /\ ValidateBuildOutput(out)
  BY KeysAssumption DEF GenerateAndValidate
<1>2. PICK mods : mods = RepairModules(out.mods, NodesOf(out))
  OBVIOUS
<1>3. ValidateModules(mods, NodesOf(out)) /\ DOMAIN out.specs = NodesOf(out)
  BY <1>1, <1>2 DEF ValidateBuildOutput
<1>4. mods # <<>> /\ PartitionOf(mods, NodesOf(out))
  <2>2. Len(mods) \in 2 .. 8
    BY <1>3 DEF ValidateModules
  <2>1. Len(mods) # 0
    BY <2>2
  <2> QED
    BY <1>3, <2>1 DEF ValidateModules
<1> QED
  BY <1>1, <1>2, <1>3, <1>4, BuiltType

LEMMA PackIsTree == IsTree(PackTree)
<1>1. Parsed(Pack)
  BY KeysAssumption
<1> QED
  BY <1>1 DEF IsTree, PackTree, Parsed, Layering

LEMMA PersonalizeType ==
  ASSUME NEW answer \in Selections
  PROVE  Personalize(answer).order \in Seq(Keys)
<1>1. PICK all \in Seq(Keys) : all = NodeSeq(Pack.layers)
  BY KeysAssumption, NodeSeqType DEF Parsed, Layering
<1>2. answer.order \in Seq(Keys)
  BY KeysAssumption
<1>3. \A S, T : Kept(answer.order, S) \o Kept(all, T) \in Seq(Keys)
  <2> TAKE S, T
  <2>1. Kept(answer.order, S) \in Seq(Keys) /\ Kept(all, T) \in Seq(Keys)
    BY <1>2, KeptType
  <2> QED
    BY <2>1, ConcatProperties
<1>4. \E S, T : Personalize(answer).order = Kept(answer.order, S) \o Kept(all, T)
  BY <1>1 DEF Personalize
<1> QED
  BY <1>3, <1>4

\* Modules that lose some of their nodes.
LEMMA CutModules ==
  ASSUME NEW mods \in Seq(Module), NEW S
  PROVE  NonEmpty([i \in DOMAIN mods |-> [mods[i] EXCEPT !.nodes = @ \cap S]]) \in Seq(Module)
<1> DEFINE cut(i) == [mods[i] EXCEPT !.nodes = @ \cap S]
           fewer == [i \in DOMAIN mods |-> cut(i)]
<1>1. ASSUME NEW i \in DOMAIN mods PROVE cut(i) \in Module
  <2>1. mods[i] \in Module
    OBVIOUS
  <2> QED
    BY <2>1 DEF Module
<1>2. Len(mods) \in Nat /\ DOMAIN mods = 1 .. Len(mods)
  OBVIOUS
<1> HIDE DEF cut
<1>3. fewer \in [1 .. Len(mods) -> Module]
  BY <1>1, <1>2
<1>4. fewer \in Seq(Module)
  BY <1>2, <1>3
<1> HIDE DEF fewer
<1>5. NonEmpty(fewer) \in Seq(Module)
  BY <1>4, NonEmptyType
<1> QED
  BY <1>5 DEF fewer, cut

LEMMA SelectionType ==
  ASSUME NEW t, IsTree(t), NEW sel, sel.order \in Seq(Keys)
  PROVE  IsTree(ApplySelection(t, sel))
<1> DEFINE layers == [l \in Range(Layers) |-> Kept(sel.order, Range(t.layers[l]))]
           mods == NonEmpty([i \in DOMAIN t.mods |->
                              [t.mods[i] EXCEPT !.nodes = @ \cap sel.selected]])
<1>1. layers \in Layering
  <2>1. \A S : Kept(sel.order, S) \in Seq(Keys)
    BY KeptType
  <2> QED
    BY <2>1 DEF Layering
<1>2. mods \in Seq(Module)
  BY CutModules DEF IsTree
<1>3. ApplySelection(t, sel) = [t EXCEPT !.layers = layers, !.mods = mods]
  BY DEF ApplySelection
<1> HIDE DEF layers, mods
<1> QED
  BY <1>1, <1>2, <1>3 DEF IsTree

LEMMA LimitType ==
  ASSUME NEW scope, NEW completed \in Nat, NEW total \in Nat
  PROVE  ExtendNodeLimit(scope, completed, total) \in 3 .. 8
<1>1. PICK a \in Nat, b \in Nat : /\ a = 3 + completed \div 5 /\ b = 3 + total \div 5
                                  /\ a >= 3 /\ b >= 3
  OBVIOUS
<1>2. \A x, y \in Nat : (Max({x, y}) = x /\ x >= y) \/ (Max({x, y}) = y /\ y >= x)
  <2> TAKE x, y \in Nat
  <2>1. \E z \in {x, y} : \A w \in {x, y} : z >= w
    <3>1. CASE x >= y
      BY <3>1
    <3>2. CASE ~(x >= y)
      <4>1. y >= x /\ y >= y
        BY <3>2
      <4> QED
        BY <4>1
    <3> QED
      BY <3>1, <3>2
  <2> QED
    BY <2>1 DEF Max
<1>3. PICK scaled \in Nat : scaled = Max({a, b}) /\ scaled >= 3
  BY <1>1, <1>2
<1>4. PICK cap \in {5, 8} : cap = IF scope = "narrow" THEN 5 ELSE 8
  OBVIOUS
<1>5. Min({scaled, cap}) \in {scaled, cap} /\ Min({scaled, cap}) <= cap
  BY LeastIsLeast DEF Least, Min
<1>6. ExtendNodeLimit(scope, completed, total) = Min({scaled, cap})
  BY <1>1, <1>3, <1>4 DEF ExtendNodeLimit
<1> QED
  BY <1>3, <1>5, <1>6

-----------------------------------------------------------------------------
(* CourseTree: extensions.                                                 *)

LEMMA FilteredType ==
  ASSUME NEW mods \in Seq(Module), NEW keys \in SUBSET Keys
  PROVE  FilterExtendModules(mods, keys) \in Seq(Module)
<1>1. PICK out \in Seq(Module) :
        out = NonEmpty([i \in DOMAIN mods |-> [mods[i] EXCEPT !.nodes = @ \cap keys]])
  BY CutModules
<1>2. PICK orphans \in SUBSET Keys : orphans = keys \ UNION {out[i].nodes : i \in DOMAIN out}
  OBVIOUS
<1>3. FilterExtendModules(mods, keys)
        = IF orphans = {} THEN out
          ELSE IF out = <<>> THEN <<[order |-> 0, named |-> TRUE, nodes |-> orphans]>>
          ELSE [out EXCEPT ![Len(out)].nodes = @ \cup orphans]
  BY <1>1, <1>2 DEF FilterExtendModules
<1>4. <<[order |-> 0, named |-> TRUE, nodes |-> orphans]>> \in Seq(Module)
  BY DEF Module
<1>5. ASSUME out # <<>> PROVE [out EXCEPT ![Len(out)].nodes = @ \cup orphans] \in Seq(Module)
  <2>1. Len(out) \in DOMAIN out /\ out[Len(out)] \in Module
    BY <1>5
  <2>2. PICK S \in SUBSET Keys : S = out[Len(out)].nodes \cup orphans
    BY <2>1 DEF Module
  <2>3. [out EXCEPT ![Len(out)].nodes = @ \cup orphans] = [out EXCEPT ![Len(out)].nodes = S]
    BY <2>2
  <2>4. [out EXCEPT ![Len(out)].nodes = S] \in Seq(Module)
    BY <2>1, OneModuleChanged
  <2> QED
    BY <2>3, <2>4
<1> QED
  BY <1>3, <1>4, <1>5

LEMMA ListIsSeq ==
  ASSUME NEW S, NEW m \in Nat, NEW f, \A i \in 1 .. m : f[i] \in S
  PROVE  [i \in 1 .. m |-> f[i]] \in Seq(S)
OBVIOUS

\* What is kept of an answer.
LEMMA DeltaType ==
  ASSUME NEW out, Parsed(out), NEW limit \in Nat,
         NEW delta, delta = ExtendDelta(out, limit)
  PROVE  /\ delta.layers \in Layering /\ delta.mods \in Seq(Module)
         /\ delta.keys \in SUBSET Keys /\ delta.keys \subseteq Range(NodeSeq(out.layers))
         /\ \A l \in Range(Layers) : delta.layers[l] = Kept(out.layers[l], delta.keys)
         /\ UNION {Range(delta.layers[l]) : l \in Range(Layers)} = delta.keys
<1>1. PICK added \in Seq(Keys) : added = NodeSeq(out.layers)
  BY NodeSeqType DEF Parsed, Layering
<1>2. PICK m \in Nat : m = Min({limit, Len(added)}) /\ m <= Len(added)
  <2>1. Len(added) \in Nat
    OBVIOUS
  <2> QED
    BY <2>1, LeastIsLeast DEF Least, Min
<1>3. PICK kept : kept = Range(SubSeq(added, 1, m))
  OBVIOUS
<1>4. kept \subseteq Range(added) /\ kept \in SUBSET Keys
  <2>1. /\ SubSeq(added, 1, m) \in Seq(Keys) /\ Len(SubSeq(added, 1, m)) = m
        /\ \A i \in 1 .. m : SubSeq(added, 1, m)[i] = added[i]
    <3>1. /\ Len(added) \in Nat /\ DOMAIN added = 1 .. Len(added)
          /\ \A i \in 1 .. m : i \in 1 .. Len(added) /\ added[i] \in Keys
      BY <1>2
    <3>2. SubSeq(added, 1, m) = [i \in 1 .. m |-> added[i]]
      BY <1>2, <3>1
    <3>5. m \in Nat /\ \A i \in 1 .. m : added[i] \in Keys
      BY <1>2, <3>1
    <3>3. [i \in 1 .. m |-> added[i]] \in Seq(Keys)
      BY <3>5, ListIsSeq
    <3>4. Len([i \in 1 .. m |-> added[i]]) = m
      BY <1>2
    <3> QED
      BY <3>2, <3>3, <3>4
  <2>2. \A i \in DOMAIN SubSeq(added, 1, m) : i \in 1 .. m /\ i \in DOMAIN added
    BY <1>2, <2>1
  <2>3. kept \subseteq Range(added)
    BY <1>3, <2>1, <2>2 DEF Range
  <2>4. Range(added) \in SUBSET Keys
    BY RangeOfSeq
  <2> QED
    BY <2>3, <2>4
<1>5. /\ delta.keys = kept
      /\ delta.layers = [l \in Range(Layers) |-> Kept(out.layers[l], kept)]
      /\ delta.mods = IF Len(added) > limit THEN FilterExtendModules(out.mods, kept)
                      ELSE out.mods
  BY <1>1, <1>2, <1>3 DEF ExtendDelta
<1>6. \A l \in Range(Layers) :
        /\ Kept(out.layers[l], kept) \in Seq(Keys)
        /\ Range(Kept(out.layers[l], kept)) = Range(out.layers[l]) \cap kept
  BY KeptType DEF Parsed
<1>7. delta.layers \in Layering
  BY <1>5, <1>6 DEF Layering
<1>8. delta.mods \in Seq(Module)
  BY <1>4, <1>5, FilteredType DEF Parsed
<1>9. UNION {Range(delta.layers[l]) : l \in Range(Layers)} = delta.keys
  <2>1. \A l \in Range(Layers) : Range(delta.layers[l]) = Range(out.layers[l]) \cap kept
    BY <1>5, <1>6
  <2>2. Range(added) = UNION {Range(out.layers[l]) : l \in Range(Layers)}
    BY <1>1, NodeSeqType DEF Parsed, Layering
  <2> QED
    BY <1>4, <1>5, <2>1, <2>2
<1> QED
  BY <1>1, <1>4, <1>5, <1>7, <1>8, <1>9

LEMMA RangesJoin ==
  ASSUME NEW I, NEW a, NEW b, NEW c,
         \A l \in I : Range(a[l]) = Range(b[l]) \cup Range(c[l])
  PROVE  UNION {Range(a[l]) : l \in I}
           = (UNION {Range(b[l]) : l \in I}) \cup (UNION {Range(c[l]) : l \in I})
<1>1. ASSUME NEW l \in I, NEW x \in Range(a[l])
      PROVE  x \in UNION {Range(b[j]) : j \in I} \/ x \in UNION {Range(c[j]) : j \in I}
  <2>1. x \in Range(b[l]) \/ x \in Range(c[l])
    BY <1>1
  <2> QED
    BY <1>1, <2>1
<1>2. ASSUME NEW l \in I, NEW x \in Range(b[l]) PROVE x \in UNION {Range(a[j]) : j \in I}
  <2>1. x \in Range(a[l])
    BY <1>2
  <2> QED
    BY <1>2, <2>1
<1>3. ASSUME NEW l \in I, NEW x \in Range(c[l]) PROVE x \in UNION {Range(a[j]) : j \in I}
  <2>1. x \in Range(a[l])
    BY <1>3
  <2> QED
    BY <1>3, <2>1
<1> QED
  BY <1>1, <1>2, <1>3

\* Two partitions of disjoint sets make one of their union.
LEMMA PartitionsJoin ==
  ASSUME NEW a \in Seq(Module), NEW b \in Seq(Module), NEW S, NEW T,
         PartitionOf(a, S), PartitionOf(b, T), S \cap T = {}
  PROVE  PartitionOf(a \o b, S \cup T)
<1> DEFINE ab == a \o b
           m == Len(a)
           n == Len(b)
<1>1. /\ m \in Nat /\ n \in Nat /\ DOMAIN a = 1 .. m /\ DOMAIN b = 1 .. n
      /\ DOMAIN ab = 1 .. (m + n)
      /\ \A i \in 1 .. m : ab[i] = a[i]
      /\ \A i \in 1 .. n : ab[m + i] = b[i]
  BY ConcatProperties
<1> HIDE DEF ab, m, n
<1>2. ASSUME NEW i \in DOMAIN ab
      PROVE  (i \in DOMAIN a /\ ab[i] = a[i]) \/ (i - m \in DOMAIN b /\ ab[i] = b[i - m] /\ i \in Nat)
  <2>1. CASE i <= m
    BY <1>1, <1>2, <2>1
  <2>2. CASE ~(i <= m)
    <3>1. i - m \in 1 .. n /\ m + (i - m) = i /\ i \in Nat
      BY <1>1, <1>2, <2>2
    <3> QED
      BY <1>1, <3>1
  <2> QED
    BY <2>1, <2>2
<1>3. \A i \in DOMAIN ab : ab[i].nodes # {}
  BY <1>2 DEF PartitionOf
<1>4. \A i \in DOMAIN a : a[i].nodes \subseteq S
  BY DEF PartitionOf
<1>5. \A i \in DOMAIN b : b[i].nodes \subseteq T
  BY DEF PartitionOf
<1>6. ASSUME NEW i \in DOMAIN ab, NEW j \in DOMAIN ab, i # j
      PROVE  ab[i].nodes \cap ab[j].nodes = {}
  <2>1. CASE i \in DOMAIN a /\ ab[i] = a[i] /\ j \in DOMAIN a /\ ab[j] = a[j]
    BY <1>6, <2>1 DEF PartitionOf
  <2>2. CASE i \in DOMAIN a /\ ab[i] = a[i] /\ j - m \in DOMAIN b /\ ab[j] = b[j - m]
    BY <1>4, <1>5, <2>2
  <2>3. CASE i - m \in DOMAIN b /\ ab[i] = b[i - m] /\ j \in DOMAIN a /\ ab[j] = a[j]
    BY <1>4, <1>5, <2>3
  <2>4. CASE /\ i - m \in DOMAIN b /\ ab[i] = b[i - m] /\ i \in Nat
             /\ j - m \in DOMAIN b /\ ab[j] = b[j - m] /\ j \in Nat
    <3>1. i - m # j - m
      BY <1>1, <1>6, <2>4
    <3> QED
      BY <2>4, <3>1 DEF PartitionOf
  <2> QED
    BY <1>2, <1>6, <2>1, <2>2, <2>3, <2>4
<1>7. UNION {ab[i].nodes : i \in DOMAIN ab} = S \cup T
  <2>1. \A i \in DOMAIN ab : ab[i].nodes \subseteq S \cup T
    BY <1>2, <1>4, <1>5
  <2>2. \A x \in S : \E i \in DOMAIN ab : x \in ab[i].nodes
    <3> TAKE x \in S
    <3>1. PICK i \in DOMAIN a : x \in a[i].nodes
      BY DEF PartitionOf
    <3>2. i \in DOMAIN ab /\ ab[i] = a[i]
      BY <1>1
    <3> QED
      BY <3>1, <3>2
  <2>3. \A x \in T : \E i \in DOMAIN ab : x \in ab[i].nodes
    <3> TAKE x \in T
    <3>1. PICK i \in DOMAIN b : x \in b[i].nodes
      BY DEF PartitionOf
    <3>2. m + i \in DOMAIN ab /\ ab[m + i] = b[i]
      BY <1>1
    <3> QED
      BY <3>1, <3>2
  <2> QED
    BY <2>1, <2>2, <2>3
<1>8. PartitionOf(ab, S \cup T)
  BY <1>3, <1>6, <1>7 DEF PartitionOf
<1> QED
  BY <1>8 DEF ab

\* The last module takes in what is new.
LEMMA LastAdopts ==
  ASSUME NEW mods \in Seq(Module), mods # <<>>, NEW S, NEW T \in SUBSET Keys,
         PartitionOf(mods, S), S \cap T = {}
  PROVE  /\ [mods EXCEPT ![Len(mods)].nodes = @ \cup T] \in Seq(Module)
         /\ [mods EXCEPT ![Len(mods)].nodes = @ \cup T] # <<>>
         /\ PartitionOf([mods EXCEPT ![Len(mods)].nodes = @ \cup T], S \cup T)
<1>1. PICK n \in DOMAIN mods : n = Len(mods) /\ mods[n] \in Module
  <2>1. Len(mods) \in DOMAIN mods /\ mods[Len(mods)] \in Module
    OBVIOUS
  <2> QED
    BY <2>1
<1>2. PICK N \in SUBSET Keys : N = mods[n].nodes \cup T
  BY <1>1 DEF Module
<1>3. PICK new : new = [mods EXCEPT ![n].nodes = N]
  OBVIOUS
<1>4. /\ new \in Seq(Module) /\ DOMAIN new = DOMAIN mods /\ new[n].nodes = N
      /\ \A j \in (DOMAIN mods) \ {n} : new[j] = mods[j]
  BY <1>3, OneModuleChanged
<1>5. [mods EXCEPT ![Len(mods)].nodes = @ \cup T] = new
  BY <1>1, <1>2, <1>3
<1>6. \A i \in DOMAIN mods : mods[i].nodes # {} /\ mods[i].nodes \subseteq S
  BY DEF PartitionOf
<1>7. \A i, j \in DOMAIN mods : i # j => mods[i].nodes \cap mods[j].nodes = {}
  BY DEF PartitionOf
<1>8. \A i \in DOMAIN new : new[i].nodes # {}
  BY <1>2, <1>4, <1>6
<1>9. ASSUME NEW i \in DOMAIN new, NEW j \in DOMAIN new, i # j
      PROVE  new[i].nodes \cap new[j].nodes = {}
  <2>1. CASE i = n
    <3>1. new[j] = mods[j] /\ new[i].nodes = mods[n].nodes \cup T
      BY <1>2, <1>4, <1>9, <2>1
    <3>2. mods[j].nodes \subseteq S /\ mods[n].nodes \cap mods[j].nodes = {}
      BY <1>4, <1>6, <1>7, <1>9, <2>1
    <3> QED
      BY <3>1, <3>2
  <2>2. CASE j = n
    <3>1. new[i] = mods[i] /\ new[j].nodes = mods[n].nodes \cup T
      BY <1>2, <1>4, <1>9, <2>2
    <3>2. mods[i].nodes \subseteq S /\ mods[i].nodes \cap mods[n].nodes = {}
      BY <1>4, <1>6, <1>7, <1>9, <2>2
    <3> QED
      BY <3>1, <3>2
  <2>3. CASE i # n /\ j # n
    BY <1>4, <1>7, <1>9, <2>3
  <2> QED
    BY <2>1, <2>2, <2>3
<1>10. UNION {new[i].nodes : i \in DOMAIN new} = S \cup T
  <2>1. UNION {mods[i].nodes : i \in DOMAIN mods} = S
    BY DEF PartitionOf
  <2>2. \A i \in DOMAIN new : new[i].nodes = mods[i].nodes \/ (i = n /\ new[i].nodes = mods[i].nodes \cup T)
    BY <1>2, <1>4
  <2>3. \A i \in DOMAIN new : new[i].nodes \subseteq S \cup T
    BY <1>4, <1>6, <2>2
  <2>4. \A x \in S : \E i \in DOMAIN new : x \in new[i].nodes
    BY <1>4, <2>1, <2>2
  <2>5. \A x \in T : x \in new[n].nodes
    BY <1>2, <1>4
  <2> QED
    BY <1>4, <2>3, <2>4, <2>5
<1>11. new # <<>>
  BY <1>4
<1>12. PartitionOf(new, S \cup T)
  BY <1>8, <1>9, <1>10 DEF PartitionOf
<1> QED
  BY <1>4, <1>5, <1>11, <1>12

\* Extending a well-formed tree.
LEMMA Extended ==
  ASSUME NEW t, IsTree(t), NEW out, Parsed(out), NEW limit \in Nat, NEW nodes,
         NEW delta, delta = ExtendDelta(out, limit),
         ValidateExtendOutput(NodesOf(t), out, limit),
         NEW u, u = MergeExtendIntoTree(t, nodes, out, delta)
  PROVE  /\ IsTree(u) /\ NodesOf(u) = NodesOf(t) \cup delta.keys
         /\ delta.keys \cap NodesOf(t) = {}
         /\ t.mods # <<>> /\ PartitionOf(t.mods, NodesOf(t))
              => u.mods # <<>> /\ PartitionOf(u.mods, NodesOf(u))
<1> DEFINE layers == [l \in Range(Layers) |-> t.layers[l] \o delta.layers[l]]
           title == [k \in Keys |-> IF k \in delta.keys THEN out.title[k] ELSE t.title[k]]
           mods == IF delta.mods # <<>> THEN t.mods \o delta.mods
                   ELSE IF t.mods = <<>> THEN t.mods
                   ELSE [t.mods EXCEPT ![Len(t.mods)].nodes = @ \cup delta.keys]
<1>1. /\ delta.layers \in Layering /\ delta.mods \in Seq(Module) /\ delta.keys \in SUBSET Keys
      /\ delta.keys \subseteq Range(NodeSeq(out.layers))
      /\ UNION {Range(delta.layers[l]) : l \in Range(Layers)} = delta.keys
  BY DeltaType
<1>2. t.layers \in Layering /\ t.mods \in Seq(Module)
  BY DEF IsTree
<1>3. delta.keys \cap NodesOf(t) = {}
  BY <1>1 DEF ValidateExtendOutput
<1>4. delta.mods # <<>> => PartitionOf(delta.mods, delta.keys)
  BY DEF ValidateExtendOutput, ValidateExtendModules
<1>5. \A l \in Range(Layers) :
        /\ t.layers[l] \o delta.layers[l] \in Seq(Keys)
        /\ Range(t.layers[l] \o delta.layers[l]) = Range(t.layers[l]) \cup Range(delta.layers[l])
  <2> TAKE l \in Range(Layers)
  <2>1. t.layers[l] \in Seq(Keys) /\ delta.layers[l] \in Seq(Keys)
    BY <1>1, <1>2 DEF Layering
  <2> QED
    BY <2>1, ConcatProperties, RangeConcatenation
<1>6. layers \in Layering
  BY <1>5 DEF Layering
<1>7. mods \in Seq(Module)
  <2>1. CASE delta.mods # <<>>
    BY <1>1, <1>2, <2>1, ConcatProperties
  <2>2. CASE delta.mods = <<>> /\ t.mods = <<>>
    BY <1>2, <2>2
  <2>3. CASE delta.mods = <<>> /\ t.mods # <<>>
    <3>1. PICK old \in Seq(Module) : old = t.mods
      BY <1>2
    <3>2. Len(old) \in DOMAIN old /\ old[Len(old)] \in Module
      BY <2>3, <3>1
    <3>3. PICK S \in SUBSET Keys : S = old[Len(old)].nodes \cup delta.keys
      BY <1>1, <3>2 DEF Module
    <3>4. mods = [old EXCEPT ![Len(old)].nodes = S]
      BY <2>3, <3>1, <3>3
    <3>5. [old EXCEPT ![Len(old)].nodes = S] \in Seq(Module)
      BY <3>2, OneModuleChanged
    <3> QED
      BY <3>4, <3>5
  <2> QED
    BY <2>1, <2>2, <2>3
<1>8. PICK merged : merged = [t EXCEPT !.layers = layers, !.title = title, !.mods = mods]
  OBVIOUS
<1>9. u = MergeNodeRequires(merged, nodes)
  <2>1. merged = [t EXCEPT !.layers = [l \in Range(Layers) |-> t.layers[l] \o delta.layers[l]],
                           !.title = [k \in Keys |-> IF k \in delta.keys THEN out.title[k]
                                                     ELSE t.title[k]],
                           !.mods = IF delta.mods # <<>> THEN t.mods \o delta.mods
                                    ELSE IF t.mods = <<>> THEN t.mods
                                    ELSE [t.mods EXCEPT ![Len(t.mods)].nodes = @ \cup delta.keys]]
    BY <1>8
  <2> QED
    BY <2>1 DEF MergeExtendIntoTree
<1> HIDE DEF title
<1>13. /\ u.layers = layers /\ u.mods = mods /\ IsTree(u)
  <2> HIDE DEF layers, mods
  <2>1. IsTree(merged) /\ merged.layers = layers /\ merged.mods = mods
    BY <1>6, <1>7, <1>8 DEF IsTree
  <2> QED
    BY <1>9, <2>1, RequiresMerged
<1>10. \A l \in Range(Layers) : u.layers[l] = t.layers[l] \o delta.layers[l]
  BY <1>13
<1>11. NodesOf(u) = NodesOf(t) \cup delta.keys
  <2>3. u.layers \in Layering /\ t.layers \in Layering
    BY <1>13 DEF IsTree
  <2>4. NodesOf(u) = UNION {Range(u.layers[l]) : l \in Range(Layers)}
    BY <2>3, NodesAreKeys
  <2>5. NodesOf(t) = UNION {Range(t.layers[l]) : l \in Range(Layers)}
    BY <2>3, NodesAreKeys
  <2>2. \A l \in Range(Layers) : Range(u.layers[l]) = Range(t.layers[l]) \cup Range(delta.layers[l])
    BY <1>5, <1>10
  <2>6. UNION {Range(u.layers[l]) : l \in Range(Layers)}
          = (UNION {Range(t.layers[l]) : l \in Range(Layers)})
            \cup (UNION {Range(delta.layers[l]) : l \in Range(Layers)})
    BY <2>2, RangesJoin
  <2>7. UNION {Range(delta.layers[l]) : l \in Range(Layers)} = delta.keys
    BY <1>1
  <2> HIDE DEF layers, mods
  <2> QED
    BY <2>4, <2>5, <2>6, <2>7
<1>12. ASSUME t.mods # <<>>, PartitionOf(t.mods, NodesOf(t))
       PROVE  u.mods # <<>> /\ PartitionOf(u.mods, NodesOf(u))
  <2>1. CASE delta.mods # <<>>
    <3>1. u.mods = t.mods \o delta.mods
      BY <1>13, <2>1
    <3>2. t.mods \o delta.mods # <<>>
      BY <1>1, <1>2, <1>12, ConcatProperties
    <3>3. PartitionOf(t.mods \o delta.mods, NodesOf(t) \cup delta.keys)
      BY <1>1, <1>2, <1>3, <1>4, <1>12, <2>1, PartitionsJoin
    <3> QED
      BY <1>11, <3>1, <3>2, <3>3
  <2>2. CASE delta.mods = <<>>
    <3>1. PICK old \in Seq(Module) : old = t.mods
      BY <1>2
    <3>2. u.mods = [old EXCEPT ![Len(old)].nodes = @ \cup delta.keys]
      BY <1>12, <1>13, <2>2, <3>1
    <3>3. old # <<>> /\ PartitionOf(old, NodesOf(t)) /\ NodesOf(t) \cap delta.keys = {}
      BY <1>3, <1>12, <3>1
    <3>4. /\ [old EXCEPT ![Len(old)].nodes = @ \cup delta.keys] # <<>>
          /\ PartitionOf([old EXCEPT ![Len(old)].nodes = @ \cup delta.keys],
                         NodesOf(t) \cup delta.keys)
      BY <1>1, <3>3, LastAdopts
    <3> QED
      BY <1>11, <3>2, <3>4
  <2> QED
    BY <2>1, <2>2
<1> QED
  BY <1>3, <1>11, <1>12, <1>13

Joined(a, b) == [l \in Range(Layers) |-> a[l] \o b[l]]

\* Each layer goes on where it ended.
LEMMA ExtendedLayers ==
  ASSUME NEW t, IsTree(t), NEW nodes, NEW out, NEW delta
  PROVE  MergeExtendIntoTree(t, nodes, out, delta).layers = Joined(t.layers, delta.layers)
<1> DEFINE u == MergeExtendIntoTree(t, nodes, out, delta)
<1>1. PICK layers : layers = [l \in Range(Layers) |-> t.layers[l] \o delta.layers[l]]
                    /\ layers = Joined(t.layers, delta.layers)
  BY DEF Joined
<1>2. PICK merged : /\ u = MergeNodeRequires(merged, nodes)
                    /\ \E title, mods :
                         merged = [t EXCEPT !.layers = layers, !.title = title, !.mods = mods]
  BY <1>1 DEF MergeExtendIntoTree
<1>3. merged.layers = layers
  BY <1>2 DEF IsTree
<1>4. \E rq : u = [merged EXCEPT !.requires = rq]
  BY <1>2 DEF MergeNodeRequires
<1>5. u.layers = merged.layers
  BY <1>2, <1>4 DEF IsTree
<1> QED
  BY <1>1, <1>3, <1>5

-----------------------------------------------------------------------------
(* CourseTree: migrating progress.                                         *)

\* A row stays, or moves to a node of the new tree with the same title.
LEMMA Resolved ==
  ASSUME NEW k, NEW valid, NEW old, NEW new, new.layers \in Layering
  PROVE  LET to == ResolveMigratedNodeKey(k, valid, old, new)
         IN /\ to \subseteq valid
            /\ k \in valid => to = {k}
            /\ k \notin valid /\ k \notin NodesOf(old) => to = {}
            /\ \A n \in to : n = k \/ (k \in NodesOf(old) /\ new.title[n] = old.title[k])
            /\ \A n \in NodesOf(new) \cap valid :
                 k \in NodesOf(old) /\ new.title[n] = old.title[k] =>
                   \E m \in to : m = k \/ new.title[m] = old.title[k]
<1>1. PICK all \in Seq(Keys) : all = NodeSeq(new.layers) /\ NodesOf(new) = Range(all)
  BY NodesAreKeys
<1>2. PICK same \in SUBSET Nat :
        same = {i \in DOMAIN all : all[i] \in valid /\ new.title[all[i]] = old.title[k]}
  <2>1. DOMAIN all \subseteq Nat
    BY <1>1
  <2> QED
    BY <2>1
<1>3. same # {} => Min(same) \in same
  BY LeastIsLeast DEF Least, Min
<1>4. PICK to : to = ResolveMigratedNodeKey(k, valid, old, new)
  OBVIOUS
<1>5. to = IF k \in valid THEN {k}
           ELSE IF k \in NodesOf(old) /\ same # {} THEN {all[Min(same)]} ELSE {}
  BY <1>1, <1>2, <1>4 DEF ResolveMigratedNodeKey
<1>6. same # {} => /\ all[Min(same)] \in valid
                   /\ new.title[all[Min(same)]] = old.title[k]
  BY <1>2, <1>3
<1>7. ASSUME NEW n \in NodesOf(new) \cap valid, new.title[n] = old.title[k]
      PROVE  same # {}
  <2>1. PICK i \in DOMAIN all : all[i] = n
    BY <1>1 DEF Range
  <2>2. i \in same
    BY <1>2, <1>7, <2>1
  <2> QED
    BY <2>2
<1>8. to \subseteq valid /\ (k \in valid => to = {k})
  BY <1>5, <1>6
<1>9. k \notin valid /\ k \notin NodesOf(old) => to = {}
  BY <1>5
<1>10. \A n \in to : n = k \/ (k \in NodesOf(old) /\ new.title[n] = old.title[k])
  BY <1>5, <1>6
<1>11. ASSUME NEW n \in NodesOf(new) \cap valid, k \in NodesOf(old),
              new.title[n] = old.title[k]
       PROVE  \E m \in to : m = k \/ new.title[m] = old.title[k]
  <2>1. same # {}
    BY <1>7, <1>11
  <2> QED
    BY <1>5, <1>6, <1>11, <2>1
<1> QED
  BY <1>4, <1>8, <1>9, <1>10, <1>11

\* What becomes of the completed rows.
LEMMA Migrated ==
  ASSUME NEW keys, NEW valid, NEW old, NEW new, new.layers \in Layering,
         NEW kept, kept = MigrateProgressByNodeKey(keys, valid, old, new)
  PROVE  /\ kept \subseteq valid /\ keys \cap valid \subseteq kept
         /\ valid = NodesOf(old) => kept \subseteq keys
         /\ \A n \in kept : \/ n \in keys
                            \/ \E j \in keys \cap NodesOf(old) : new.title[n] = old.title[j]
         /\ \A j \in keys \cap NodesOf(old) :
              (\E n \in NodesOf(new) \cap valid : new.title[n] = old.title[j])
                => \E m \in kept : m = j \/ new.title[m] = old.title[j]
<1>1. /\ \A n \in kept : \E k \in keys : n \in ResolveMigratedNodeKey(k, valid, old, new)
      /\ \A k \in keys : ResolveMigratedNodeKey(k, valid, old, new) \subseteq kept
  BY DEF MigrateProgressByNodeKey
<1>2. kept \subseteq valid /\ keys \cap valid \subseteq kept
  BY <1>1, Resolved
<1>3. ASSUME valid = NodesOf(old), NEW n \in kept PROVE n \in keys
  <2>1. PICK k \in keys : n \in ResolveMigratedNodeKey(k, valid, old, new)
    BY <1>1
  <2>2. k \in valid
    BY <1>3, <2>1, Resolved
  <2> QED
    BY <2>1, <2>2, Resolved
<1>4. ASSUME NEW n \in kept
      PROVE  n \in keys \/ \E j \in keys \cap NodesOf(old) : new.title[n] = old.title[j]
  <2>1. PICK k \in keys : n \in ResolveMigratedNodeKey(k, valid, old, new)
    BY <1>1
  <2> QED
    BY <2>1, Resolved
<1>5. ASSUME NEW j \in keys \cap NodesOf(old),
             NEW n \in NodesOf(new) \cap valid, new.title[n] = old.title[j]
      PROVE  \E m \in kept : m = j \/ new.title[m] = old.title[j]
  <2>1. \E m \in ResolveMigratedNodeKey(j, valid, old, new) :
          m = j \/ new.title[m] = old.title[j]
    BY <1>5, Resolved
  <2> QED
    BY <1>1, <2>1
<1> QED
  BY <1>2, <1>3, <1>4, <1>5

LEMMA MergedType ==
  ASSUME NEW root, IsTree(root), NEW other, IsTree(other)
  PROVE  IsTree(MergeDomainIntoTree(root, other))
<1> DEFINE new(l) == Kept(other.layers[l], Range(other.layers[l]) \ NodesOf(root))
           layers == [l \in Range(Layers) |-> root.layers[l] \o new(l)]
<1>1. layers \in Layering
  <2>1. ASSUME NEW l \in Range(Layers) PROVE root.layers[l] \o new(l) \in Seq(Keys)
    <3>1. root.layers[l] \in Seq(Keys) /\ other.layers[l] \in Seq(Keys)
      BY DEF IsTree, Layering
    <3>2. new(l) \in Seq(Keys)
      BY <3>1, KeptType
    <3> QED
      BY <3>1, <3>2, ConcatProperties
  <2> QED
    BY <2>1 DEF Layering
<1>2. PICK title, rq : MergeDomainIntoTree(root, other)
                         = [root EXCEPT !.layers = layers, !.title = title, !.requires = rq]
  BY DEF MergeDomainIntoTree
<1> HIDE DEF layers
<1> QED
  BY <1>1, <1>2 DEF IsTree

-----------------------------------------------------------------------------
(* CourseTree: the invariant.                                              *)

\* Trees are of one shape, a course without a tree has no progress, and the
\* modules of a generated course are never lost (extending one without modules
\* would leave the new nodes outside of them).
TreeInv ==
  /\ IsTree(tree) /\ chosen.order \in Seq(Keys) /\ lit \subseteq Keys
  /\ origin = "none" => NodesOf(tree) = {} /\ lit = {}
  /\ origin = "generated" => tree.mods # <<>>
  /\ GeneratedWellFormed /\ ProgressInTree

LEMMA TreeStart == TreeInit => TreeInv
<1> SUFFICES ASSUME TreeInit PROVE TreeInv
  OBVIOUS
<1>1. PICK empty : empty = [l \in Range(Layers) |-> <<>>]
  OBVIOUS
<1>2. empty \in Layering
  BY <1>1 DEF Layering
<1>3. tree = [PackTree EXCEPT !.layers = empty, !.mods = <<>>]
  BY <1>1 DEF TreeInit
<1>4. <<>> \in Seq(Module)
  OBVIOUS
<1>5. IsTree(tree) /\ tree.layers = empty
  BY <1>2, <1>3, <1>4, PackIsTree DEF IsTree
<1>6. NodesOf(tree) = {}
  <2>1. NodesOf(tree) = UNION {Range(tree.layers[l]) : l \in Range(Layers)}
    BY <1>2, <1>5, NodesAreKeys
  <2>2. \A l \in Range(Layers) : Range(tree.layers[l]) = {}
    BY <1>1, <1>5 DEF Range
  <2> QED
    BY <2>1, <2>2
<1>7. chosen.order = <<>> /\ <<>> \in Seq(Keys) /\ origin = "none" /\ lit = {}
  BY DEF TreeInit
<1> QED
  BY <1>5, <1>6, <1>7 DEF TreeInv, GeneratedWellFormed, ProgressInTree

\* A tree made by tailoring the pack.
LEMMA Tailored ==
  ASSUME NEW answer \in Selections, NEW sel, sel = Personalize(answer)
  PROVE  sel.order \in Seq(Keys) /\ IsTree(ApplySelection(PackTree, sel))
<1>1. sel.order \in Seq(Keys)
  BY PersonalizeType
<1> QED
  BY <1>1, PackIsTree, SelectionType

\* What the course page shows is a tree.
LEMMA ShownIsTree ==
  ASSUME TreeInv
  PROVE  IsTree(ResolveTree)
<1>1. IsTree(ApplySelection(PackTree, chosen))
  BY PackIsTree, SelectionType DEF TreeInv
<1> QED
  BY <1>1 DEF ResolveTree, TreeInv

\* The limit of an extension is a small number.
LEMMA ExtensionLimit ==
  ASSUME TreeInv
  PROVE  ExtendNodeLimit(InferScopeFromTree(tree), Cardinality(lit),
                         Len(NodeSeq(tree.layers))) \in 3 .. 8
<1>1. Cardinality(lit) \in Nat
  BY KeysAssumption, FS_Subset, FS_CardinalityType DEF TreeInv
<1>2. Len(NodeSeq(tree.layers)) \in Nat
  <2>1. NodeSeq(tree.layers) \in Seq(Keys)
    BY NodesAreKeys DEF TreeInv, IsTree
  <2> QED
    BY <2>1
<1> QED
  BY <1>1, <1>2, LimitType

LEMMA ExtendKeeps == ASSUME TreeInv, ExtendDomain PROVE TreeInv'
<1>1. PICK limit \in 3 .. 8 : limit = ExtendNodeLimit(InferScopeFromTree(tree),
                               Cardinality(lit), Len(NodeSeq(tree.layers)))
  BY ExtensionLimit
<1>14. PICK out \in ExtendOutputs : \E delta, nodes :
        /\ delta = ExtendDelta(out, limit)
        /\ nodes = WithSpecs(LoadDomainNodes, out.specs, delta.keys)
        /\ ValidateExtendOutput(NodesOf(tree), out, limit)
        /\ tree' = MergeExtendIntoTree(tree, nodes, out, delta)
        /\ specs' = nodes
  BY <1>1 DEF ExtendDomain
<1>2. PICK delta, nodes :
        /\ delta = ExtendDelta(out, limit)
        /\ nodes = WithSpecs(LoadDomainNodes, out.specs, delta.keys)
        /\ ValidateExtendOutput(NodesOf(tree), out, limit)
        /\ tree' = MergeExtendIntoTree(tree, nodes, out, delta)
        /\ specs' = nodes
  BY <1>14
<1>3. Parsed(out) /\ limit \in Nat
  BY KeysAssumption
<1>4. IsTree(tree)
  BY DEF TreeInv
<1>5. PICK t : t = tree
  OBVIOUS
<1>6. PICK u : u = tree'
  OBVIOUS
<1>7. u = MergeExtendIntoTree(t, nodes, out, delta) /\ IsTree(t)
      /\ ValidateExtendOutput(NodesOf(t), out, limit)
  BY <1>2, <1>4, <1>5, <1>6
<1>8. /\ IsTree(u) /\ NodesOf(u) = NodesOf(t) \cup delta.keys
      /\ t.mods # <<>> /\ PartitionOf(t.mods, NodesOf(t))
           => u.mods # <<>> /\ PartitionOf(u.mods, NodesOf(u))
  <2>1. /\ Parsed(out) /\ limit \in Nat /\ delta = ExtendDelta(out, limit)
        /\ IsTree(t) /\ ValidateExtendOutput(NodesOf(t), out, limit)
        /\ u = MergeExtendIntoTree(t, nodes, out, delta)
    BY <1>2, <1>3, <1>7
  <2>2. IsTree(u) /\ NodesOf(u) = NodesOf(t) \cup delta.keys
    BY <2>1, Extended
  <2>3. ASSUME t.mods # <<>>, PartitionOf(t.mods, NodesOf(t))
        PROVE  u.mods # <<>> /\ PartitionOf(u.mods, NodesOf(u))
    BY <2>1, <2>3, Extended
  <2> QED
    BY <2>2, <2>3
<1>9. origin' = origin /\ lit' = lit /\ chosen' = chosen /\ origin # "none"
  BY DEF ExtendDomain
<1>10. IsTree(tree)'
  BY <1>6, <1>8 DEF IsTree
<1>11. ASSUME origin = "generated"
       PROVE  tree'.mods # <<>> /\ GeneratedWellFormed' /\ ProgressInTree'
  <2>1. /\ NodesOf(t) \subseteq DOMAIN specs /\ PartitionOf(t.mods, NodesOf(t))
        /\ t.mods # <<>> /\ lit \subseteq NodesOf(t)
    BY <1>5, <1>11 DEF TreeInv, GeneratedWellFormed, ProgressInTree
  <2>2. DOMAIN nodes = DOMAIN specs \cup delta.keys
    BY <1>2, <1>11 DEF WithSpecs, LoadDomainNodes, FromPack
  <2>3. NodesOf(u) \subseteq DOMAIN nodes /\ lit \subseteq NodesOf(u)
    BY <1>8, <2>1, <2>2
  <2> QED
    BY <1>2, <1>6, <1>8, <1>9, <2>1, <2>3 DEF GeneratedWellFormed, ProgressInTree
<1>12. origin # "generated" => GeneratedWellFormed' /\ ProgressInTree'
  BY <1>9 DEF GeneratedWellFormed, ProgressInTree
<1> QED
  BY <1>9, <1>10, <1>11, <1>12 DEF TreeInv

LEMMA RegenerateKeeps == ASSUME TreeInv, RegenerateTree PROVE TreeInv'
<1>1. /\ IsTree(tree)' /\ chosen'.order \in Seq(Keys) /\ origin' # "none"
      /\ origin' = "generated" => /\ tree'.mods # <<>>
                                  /\ NodesOf(tree') \subseteq DOMAIN specs'
                                  /\ PartitionOf(tree'.mods, NodesOf(tree'))
  <2>1. CASE /\ origin' = "generated" /\ chosen' = chosen
             /\ \E out \in GenerateAndValidate : tree' = BuiltTree(out) /\ specs' = out.specs
    <3>1. PICK out \in GenerateAndValidate : tree' = BuiltTree(out) /\ specs' = out.specs
      BY <2>1
    <3>2. PICK u : u = BuiltTree(out)
      OBVIOUS
    <3>3. /\ IsTree(u) /\ u.mods # <<>> /\ PartitionOf(u.mods, NodesOf(u))
          /\ DOMAIN out.specs = NodesOf(u)
      BY <3>2, GeneratedType
    <3>4. tree' = u
      BY <3>1, <3>2
    <3> QED
      BY <2>1, <3>1, <3>3, <3>4 DEF TreeInv, IsTree
  <2>2. CASE /\ origin' = "personalized"
             /\ \E answer \in Selections : chosen' = Personalize(answer)
             /\ tree' = ApplySelection(PackTree, chosen')
    <3>1. PICK sel : sel = chosen'
      OBVIOUS
    <3>2. sel.order \in Seq(Keys) /\ IsTree(ApplySelection(PackTree, sel))
      BY <2>2, <3>1, Tailored
    <3>3. tree' = ApplySelection(PackTree, sel)
      BY <2>2, <3>1
    <3> QED
      BY <2>2, <3>1, <3>2, <3>3 DEF IsTree
  <2>3. CASE origin' = "skill_pack" /\ tree' = PackTree /\ chosen' = chosen
    BY <2>3, PackIsTree DEF TreeInv, IsTree
  <2> QED
    BY <2>1, <2>2, <2>3 DEF RegenerateTree
<1>2. lit' \subseteq NodesOf(tree')
  <2>1. PICK t, u, kept : t = tree /\ u = tree' /\ kept = lit'
    OBVIOUS
  <2>2. kept = MigrateProgressByNodeKey(lit, NodesOf(u), t, u) /\ u.layers \in Layering
    BY <1>1, <2>1 DEF RegenerateTree, IsTree
  <2>3. kept \subseteq NodesOf(u)
    BY <2>2, Migrated
  <2> QED
    BY <2>1, <2>3
<1>3. NodesOf(tree') \in SUBSET Keys
  <2>1. PICK u : u = tree' /\ u.layers \in Layering
    BY <1>1 DEF IsTree
  <2> QED
    BY <2>1, NodesAreKeys
<1> QED
  BY <1>1, <1>2, <1>3 DEF TreeInv, GeneratedWellFormed, ProgressInTree

LEMMA MergeKeeps == ASSUME TreeInv, MergeIntoRoot PROVE TreeInv'
<1>10. PICK out \in GenerateAndValidate :
        /\ tree' = MergeDomainIntoTree(BuiltTree(out), ResolveTree)
        /\ lit' = MigrateProgressByNodeKey(lit, NodesOf(ResolveTree), ResolveTree, tree')
  BY DEF MergeIntoRoot
<1>1. PICK child, root :
        /\ child = ResolveTree /\ root = BuiltTree(out)
        /\ tree' = MergeDomainIntoTree(root, child)
        /\ lit' = MigrateProgressByNodeKey(lit, NodesOf(child), child, tree')
  BY <1>10
<1>2. IsTree(child) /\ IsTree(root)
  BY <1>1, ShownIsTree, GeneratedType
<1>3. PICK u : u = tree'
  OBVIOUS
<1>4. u = MergeDomainIntoTree(root, child) /\ IsTree(u)
  BY <1>1, <1>2, <1>3, MergedType
<1>5. IsTree(tree)'
  BY <1>3, <1>4 DEF IsTree
<1>6. PICK kept : kept = lit' /\ kept = MigrateProgressByNodeKey(lit, NodesOf(child), child, u)
  BY <1>1, <1>3
<1>7. kept \subseteq NodesOf(child)
  BY <1>4, <1>6, Migrated DEF IsTree
<1>8. NodesOf(child) \in SUBSET Keys
  BY <1>2, NodesAreKeys DEF IsTree
<1>9. origin' = "merged" /\ chosen' = chosen
  BY DEF MergeIntoRoot
<1> QED
  BY <1>5, <1>6, <1>7, <1>8, <1>9 DEF TreeInv, GeneratedWellFormed, ProgressInTree

LEMMA TailoringKeeps ==
  ASSUME TreeInv, CreatePersonalizedDomain \/ UpdatePersonalizedDomain
  PROVE  TreeInv'
<1>1. PICK answer \in Selections : chosen' = Personalize(answer)
  BY DEF CreatePersonalizedDomain, UpdatePersonalizedDomain
<1>2. PICK sel : sel = chosen' /\ sel = Personalize(answer)
  BY <1>1
<1>3. sel.order \in Seq(Keys) /\ IsTree(ApplySelection(PackTree, sel))
  BY <1>2, Tailored
<1>4. /\ tree' = ApplySelection(PackTree, sel) /\ origin' = "personalized" /\ lit' = lit
  BY <1>2 DEF CreatePersonalizedDomain, UpdatePersonalizedDomain
<1>5. IsTree(tree)'
  BY <1>3, <1>4 DEF IsTree
<1> QED
  BY <1>2, <1>3, <1>4, <1>5 DEF TreeInv, GeneratedWellFormed, ProgressInTree

LEMMA TreeStep == ASSUME TreeInv, [TreeNext]_treeVars PROVE TreeInv'
<1>1. CASE BuildTree
  <2>1. PICK out \in GenerateAndValidate : tree' = BuiltTree(out) /\ specs' = out.specs
    BY <1>1 DEF BuildTree
  <2>2. PICK u : u = BuiltTree(out)
    OBVIOUS
  <2>3. /\ IsTree(u) /\ u.mods # <<>> /\ PartitionOf(u.mods, NodesOf(u))
        /\ DOMAIN out.specs = NodesOf(u)
    BY <2>2, GeneratedType
  <2>4. tree' = u /\ specs' = out.specs /\ lit' = {} /\ chosen' = chosen /\ origin' = "generated"
    BY <1>1, <2>1, <2>2 DEF BuildTree, TreeInv
  <2>5. IsTree(tree)'
    BY <2>3, <2>4 DEF IsTree
  <2> QED
    BY <2>3, <2>4, <2>5 DEF TreeInv, GeneratedWellFormed, ProgressInTree
<1>2. CASE OpenPack
  <2>1. tree' = PackTree /\ origin' = "skill_pack" /\ lit' = lit /\ chosen' = chosen
    BY <1>2 DEF OpenPack
  <2>2. IsTree(tree)'
    BY <2>1, PackIsTree DEF IsTree
  <2> QED
    BY <2>1, <2>2 DEF TreeInv, GeneratedWellFormed, ProgressInTree
<1>3. CASE CreatePersonalizedDomain \/ UpdatePersonalizedDomain
  BY <1>3, TailoringKeeps
<1>4. ASSUME NEW k \in Keys, LightNodeOf(k) PROVE TreeInv'
  <2>1. /\ k \in NodesOf(tree) /\ lit' = lit \cup {k}
        /\ UNCHANGED <<origin, tree, specs, chosen>>
    BY <1>4 DEF LightNodeOf
  <2> QED
    BY <2>1 DEF TreeInv, IsTree, NodesOf, GeneratedWellFormed, ProgressInTree
<1>5. CASE ExtendDomain
  BY <1>5, ExtendKeeps
<1>6. CASE OptimizeDomain
  <2>1. UNCHANGED <<origin, tree, specs, chosen, lit>>
    BY <1>6 DEF OptimizeDomain
  <2> QED
    BY <2>1 DEF TreeInv, IsTree, NodesOf, GeneratedWellFormed, ProgressInTree
<1>7. CASE ApplyPlan
  <2>1. /\ UNCHANGED <<origin, tree, chosen, lit>>
        /\ DOMAIN specs' = DOMAIN LoadDomainNodes
    BY <1>7 DEF ApplyPlan, ApplyOptimizePatches
  <2>2. origin = "generated" => DOMAIN specs' = DOMAIN specs
    BY <2>1 DEF LoadDomainNodes, FromPack
  <2> QED
    BY <2>1, <2>2 DEF TreeInv, IsTree, NodesOf, GeneratedWellFormed, ProgressInTree
<1>8. CASE RegenerateTree
  BY <1>8, RegenerateKeeps
<1>9. CASE MergeIntoRoot
  BY <1>9, MergeKeeps
<1>10. CASE UNCHANGED treeVars
  BY <1>10 DEF treeVars, TreeInv, IsTree, NodesOf, GeneratedWellFormed, ProgressInTree
<1> QED
  BY <1>1, <1>2, <1>3, <1>4, <1>5, <1>6, <1>7, <1>8, <1>9, <1>10 DEF TreeNext

THEOREM TreeInvariant == TreeSpec => []TreeInv
<1>1. TreeInit => TreeInv
  BY TreeStart
<1>2. TreeInv /\ [TreeNext]_treeVars => TreeInv'
  BY TreeStep
<1> QED
  BY <1>1, <1>2, PTL DEF TreeSpec

\* A generated course always has a spec for every node and modules that share
\* its nodes out, whatever was repaired, extended, optimized or regenerated
\* (domain/modules.go, extender.go).
THEOREM ModulesShareOutNodes == TreeSpec => []GeneratedWellFormed
<1>1. TreeInv => GeneratedWellFormed
  BY DEF TreeInv
<1> QED
  BY <1>1, TreeInvariant, PTL

\* The rows of user_progress of a generated course are of nodes that it has, so
\* that the share of completed nodes is one (storage/progress_migrate.go).
THEOREM ProgressIsOfNodes == TreeSpec => []ProgressInTree
<1>1. TreeInv => ProgressInTree
  BY DEF TreeInv
<1> QED
  BY <1>1, TreeInvariant, PTL

\* One step of the migration.
LEMMA MigrationStep ==
  ASSUME TreeInv, TreeInv', [TreeNext]_treeVars, RegenerateTree \/ MergeIntoRoot
  PROVE  /\ lit \cap NodesOf(ResolveTree) \cap NodesOf(tree') \subseteq lit'
         /\ \A k \in lit' :
              \/ k \in lit
              \/ \E j \in lit \cap NodesOf(tree) : tree'.title[k] = tree.title[j]
         /\ RegenerateTree =>
              \A j \in lit \cap NodesOf(tree) :
                (\E k \in NodesOf(tree') : tree'.title[k] = tree.title[j])
                => \E k \in lit' : k = j \/ tree'.title[k] = tree.title[j]
<1>1. PICK t, u, kept : t = tree /\ u = tree' /\ kept = lit'
  OBVIOUS
<1>2. u.layers \in Layering
  BY <1>1 DEF TreeInv, IsTree
<1>3. ASSUME RegenerateTree
      PROVE  /\ lit \cap NodesOf(u) \subseteq kept
             /\ \A k \in kept : k \in lit \/ \E j \in lit \cap NodesOf(t) : u.title[k] = t.title[j]
             /\ \A j \in lit \cap NodesOf(t) :
                  (\E k \in NodesOf(u) : u.title[k] = t.title[j])
                  => \E k \in kept : k = j \/ u.title[k] = t.title[j]
  <2>1. kept = MigrateProgressByNodeKey(lit, NodesOf(u), t, u)
    BY <1>1, <1>3 DEF RegenerateTree
  <2>2. NodesOf(u) \cap NodesOf(u) = NodesOf(u)
    OBVIOUS
  <2> QED
    BY <1>2, <2>1, <2>2, Migrated
<1>4. ASSUME MergeIntoRoot
      PROVE  lit \cap NodesOf(ResolveTree) \subseteq kept /\ kept \subseteq lit
  <2>1. PICK child : child = ResolveTree
    OBVIOUS
  <2>2. kept = MigrateProgressByNodeKey(lit, NodesOf(child), child, u)
    BY <1>1, <1>4, <2>1 DEF MergeIntoRoot
  <2>3. kept \subseteq lit /\ lit \cap NodesOf(child) \subseteq kept
    BY <1>2, <2>2, Migrated
  <2> QED
    BY <2>1, <2>3
<1>5. lit \cap NodesOf(ResolveTree) \cap NodesOf(tree') \subseteq lit'
  BY <1>1, <1>3, <1>4
<1>6. \A k \in lit' : \/ k \in lit
                      \/ \E j \in lit \cap NodesOf(tree) : tree'.title[k] = tree.title[j]
  BY <1>1, <1>3, <1>4
<1>7. RegenerateTree =>
        \A j \in lit \cap NodesOf(tree) :
          (\E k \in NodesOf(tree') : tree'.title[k] = tree.title[j])
          => \E k \in lit' : k = j \/ tree'.title[k] = tree.title[j]
  BY <1>1, <1>3
<1> QED
  BY <1>5, <1>6, <1>7

\* Regenerating keeps every completed row whose key is still a node, moves each
\* other to a node of the same title if there is one, and completes no node that
\* nobody completed (MigrateProgressByNodeKey).
THEOREM MigrationIsFaithful == TreeSpec => MigrationFaithful
<1>1. TreeInv /\ TreeInv' /\ [TreeNext]_treeVars =>
        [RegenerateTree \/ MergeIntoRoot =>
           /\ lit \cap NodesOf(ResolveTree) \cap NodesOf(tree') \subseteq lit'
           /\ \A k \in lit' :
                \/ k \in lit
                \/ \E j \in lit \cap NodesOf(tree) : tree'.title[k] = tree.title[j]
           /\ RegenerateTree =>
                \A j \in lit \cap NodesOf(tree) :
                  (\E k \in NodesOf(tree') : tree'.title[k] = tree.title[j])
                  => \E k \in lit' : k = j \/ tree'.title[k] = tree.title[j]]_treeVars
  BY MigrationStep
<1> QED
  BY <1>1, TreeInvariant, PTL DEF TreeSpec, MigrationFaithful

-----------------------------------------------------------------------------
(* CourseTree: what an extension adds.                                     *)

\* How many places of a sequence hold one of the keys.
Hits(seq, K) == Cardinality({i \in DOMAIN seq : seq[i] \in K})

LEMMA HitsType ==
  ASSUME NEW S, NEW seq \in Seq(S), NEW K
  PROVE  /\ IsFiniteSet({i \in DOMAIN seq : seq[i] \in K})
         /\ Hits(seq, K) \in Nat /\ Len(Kept(seq, K)) = Hits(seq, K)
<1>1. PICK P \in SUBSET DOMAIN seq : P = {i \in DOMAIN seq : seq[i] \in K}
  OBVIOUS
<1>2. IsFiniteSet(P)
  <2>1. IsFiniteSet(1 .. Len(seq)) /\ P \in SUBSET (1 .. Len(seq))
    BY <1>1, FS_Interval
  <2> QED
    BY <2>1, FS_Subset
<1>3. Len(Pick(seq, P)) = Cardinality(P) /\ Cardinality(P) \in Nat
  BY PickType
<1> QED
  BY <1>1, <1>2, <1>3 DEF Hits, Kept

LEMMA HitsAdd ==
  ASSUME NEW S, NEW a \in Seq(S), NEW b \in Seq(S), NEW K
  PROVE  Hits(a \o b, K) = Hits(a, K) + Hits(b, K)
<1>1. PICK m \in Nat, n \in Nat :
        /\ m = Len(a) /\ n = Len(b) /\ DOMAIN a = 1 .. m /\ DOMAIN b = 1 .. n
  OBVIOUS
<1>2. PICK ab : /\ ab = a \o b /\ DOMAIN ab = 1 .. (m + n)
                /\ \A i \in 1 .. m : ab[i] = a[i]
                /\ \A i \in 1 .. n : ab[m + i] = b[i]
  <2>1. /\ a \o b \in Seq(S) /\ Len(a \o b) = m + n
        /\ \A i \in 1 .. (m + n) : (a \o b)[i] = IF i <= m THEN a[i] ELSE b[i - m]
    BY <1>1, ConcatProperties
  <2>2. DOMAIN (a \o b) = 1 .. (m + n)
    BY <2>1
  <2>3. \A i \in 1 .. m : i \in 1 .. (m + n) /\ i <= m
    BY <1>1
  <2>4. \A i \in 1 .. n : m + i \in 1 .. (m + n) /\ ~(m + i <= m) /\ (m + i) - m = i
    BY <1>1
  <2>5. \A i \in 1 .. n : (a \o b)[m + i] = b[i]
    BY <2>1, <2>4
  <2> QED
    BY <2>1, <2>2, <2>3, <2>5
<1>3. PICK A, B, AB : /\ A = {i \in 1 .. m : a[i] \in K} /\ B = {i \in 1 .. n : b[i] \in K}
                      /\ AB = {i \in 1 .. (m + n) : ab[i] \in K}
  OBVIOUS
<1>4. PICK C : C = {m + i : i \in B}
  OBVIOUS
<1>5. AB = A \cup C
  <2>1. ASSUME NEW i \in AB, i \notin A PROVE i \in C
    <3>1. i - m \in 1 .. n /\ i = m + (i - m)
      BY <1>2, <1>3, <2>1
    <3>2. i - m \in B
      BY <1>2, <1>3, <2>1, <3>1
    <3> QED
      BY <1>4, <3>1, <3>2
  <2>2. \A i \in A : i \in AB
    BY <1>2, <1>3
  <2>3. ASSUME NEW i \in B PROVE m + i \in AB
    BY <1>2, <1>3, <2>3
  <2> QED
    BY <1>4, <2>1, <2>2, <2>3
<1>6. A \cap C = {}
  BY <1>3, <1>4
<1>7. IsFiniteSet(A) /\ IsFiniteSet(B)
  BY <1>1, <1>3, HitsType
<1>8. Cardinality(C) = Cardinality(B) /\ IsFiniteSet(C)
  <2> DEFINE f == [i \in B |-> m + i]
  <2>1. B \subseteq Nat
    BY <1>3
  <2>2. f \in Bijection(B, C)
    <3>1. f \in Injection(B, C)
      BY <1>4, <2>1 DEF Injection, IsInjective
    <3>2. f \in Surjection(B, C)
      BY <1>4 DEF Surjection
    <3> QED
      BY <3>1, <3>2 DEF Bijection
  <2> QED
    BY <1>7, <2>2, FS_Bijection DEF ExistsBijection
<1>9. Cardinality(AB) = Cardinality(A) + Cardinality(B)
  <2>1. Cardinality(A) \in Nat /\ Cardinality(C) \in Nat /\ Cardinality({}) = 0
    BY <1>7, <1>8, FS_CardinalityType, FS_EmptySet
  <2>2. Cardinality(A \cup C) = Cardinality(A) + Cardinality(C) - Cardinality(A \cap C)
    BY <1>7, <1>8, FS_Union
  <2>3. Cardinality(A \cap C) = 0
    BY <1>6, <2>1
  <2> QED
    BY <1>5, <1>8, <2>1, <2>2, <2>3
<1> QED
  BY <1>1, <1>2, <1>3, <1>9 DEF Hits

\* Of a list without repetition as much is kept as was cut off for keeping.
LEMMA HitsOfTheFirst ==
  ASSUME NEW S, NEW seq \in Seq(S), Cardinality(Range(seq)) = Len(seq),
         NEW m \in 0 .. Len(seq)
  PROVE  Hits(seq, {seq[i] : i \in 1 .. m}) = m
<1>1. PICK n \in Nat : n = Len(seq) /\ DOMAIN seq = 1 .. n /\ seq \in [1 .. n -> Range(seq)]
  BY DEF Range
<1>2. seq \in Surjection(1 .. n, Range(seq))
  BY <1>1 DEF Surjection, Range
<1>3. IsFiniteSet(1 .. n) /\ Cardinality(1 .. n) = n /\ Cardinality(1 .. m) = m
  <2>2. \A k \in Nat : IsFiniteSet(1 .. k) /\ Cardinality(1 .. k) = k
    <3> TAKE k \in Nat
    <3>1. 1 \in Int /\ k \in Int
      OBVIOUS
    <3>2. IsFiniteSet(1 .. k) /\ Cardinality(1 .. k) = IF 1 > k THEN 0 ELSE k - 1 + 1
      BY <3>1, FS_Interval
    <3> QED
      BY <3>2
  <2>3. m \in Nat /\ n \in Nat
    BY <1>1
  <2> QED
    BY <2>2, <2>3
<1>4. seq \in Injection(1 .. n, Range(seq))
  BY <1>1, <1>2, <1>3, FS_Surjection
<1>5. \A i, j \in 1 .. n : seq[i] = seq[j] => i = j
  BY <1>1, <1>4 DEF Injection, IsInjective
<1>6. {i \in DOMAIN seq : seq[i] \in {seq[j] : j \in 1 .. m}} = 1 .. m
  BY <1>1, <1>5
<1> QED
  BY <1>3, <1>6 DEF Hits

\* An accepted answer adds at least one node and no more than the limit.
LEMMA DeltaSize ==
  ASSUME NEW existing, NEW out, Parsed(out), NEW limit \in Nat \ {0},
         NEW delta, delta = ExtendDelta(out, limit),
         ValidateExtendOutput(existing, out, limit)
  PROVE  Len(NodeSeq(delta.layers)) \in 1 .. limit
<1>1. PICK added \in Seq(Keys) : added = NodeSeq(out.layers)
  BY NodeSeqType DEF Parsed, Layering
<1>2. added # <<>> /\ Cardinality(Range(added)) = Len(added)
  BY <1>1 DEF ValidateExtendOutput
<1>3. PICK m \in 1 .. limit : m = Min({limit, Len(added)}) /\ m <= Len(added)
  <2>1. Len(added) \in Nat \ {0}
    BY <1>2
  <2>2. Min({limit, Len(added)}) \in {limit, Len(added)}
        /\ \A j \in {limit, Len(added)} : Min({limit, Len(added)}) <= j
    BY <2>1, LeastIsLeast DEF Least, Min
  <2> QED
    BY <2>1, <2>2
<1>4. PICK kept : kept = {added[i] : i \in 1 .. m}
  OBVIOUS
<1>5. Range(SubSeq(added, 1, m)) = kept
  <2>1. SubSeq(added, 1, m) = [i \in 1 .. m |-> added[i]]
    BY <1>3
  <2> QED
    BY <1>4, <2>1 DEF Range
<1>6. delta.layers = [l \in Range(Layers) |-> Kept(out.layers[l], kept)]
  BY <1>1, <1>3, <1>5 DEF ExtendDelta
<1>7. PICK a \in Seq(Keys), b \in Seq(Keys), c \in Seq(Keys) :
        /\ a = out.layers["entry"] /\ b = out.layers["intermediate"]
        /\ c = out.layers["advanced"]
  BY LayerNames DEF Parsed
<1>8. PICK x \in Seq(Keys), y \in Seq(Keys), z \in Seq(Keys) :
        x = Kept(a, kept) /\ y = Kept(b, kept) /\ z = Kept(c, kept)
  BY KeptType
<1>9. NodeSeq(delta.layers) = (x \o y) \o z
  BY <1>6, <1>7, <1>8, LayerNames DEF NodeSeq
<1>10. Len((x \o y) \o z) = (Hits(a, kept) + Hits(b, kept)) + Hits(c, kept)
  <2>1. Len(x) = Hits(a, kept) /\ Len(y) = Hits(b, kept) /\ Len(z) = Hits(c, kept)
    BY <1>8, HitsType
  <2>2. x \o y \in Seq(Keys) /\ Len(x \o y) = Len(x) + Len(y)
    BY ConcatProperties
  <2>3. Len((x \o y) \o z) = Len(x \o y) + Len(z)
    BY <2>2, ConcatProperties
  <2> QED
    BY <2>1, <2>2, <2>3
<1>11. Hits(added, kept) = (Hits(a, kept) + Hits(b, kept)) + Hits(c, kept)
  <2>1. added = (a \o b) \o c
    BY <1>1, <1>7 DEF NodeSeq
  <2>2. a \o b \in Seq(Keys) /\ Hits(a \o b, kept) = Hits(a, kept) + Hits(b, kept)
    BY ConcatProperties, HitsAdd
  <2>3. Hits((a \o b) \o c, kept) = Hits(a \o b, kept) + Hits(c, kept)
    BY <2>2, HitsAdd
  <2> QED
    BY <2>1, <2>2, <2>3
<1>12. Hits(added, kept) = m
  <2>1. m \in 0 .. Len(added)
    BY <1>3
  <2>2. Hits(added, {added[i] : i \in 1 .. m}) = m
    BY <1>2, <2>1, HitsOfTheFirst
  <2> QED
    BY <1>4, <2>2
<1> QED
  BY <1>3, <1>9, <1>10, <1>11, <1>12

LEMMA PrefixOfLonger ==
  ASSUME NEW S, NEW s \in Seq(S), NEW e \in Seq(S)
  PROVE  IsPrefix(s, s \o e)
<1>1. PICK n \in Nat : n = Len(s) /\ Len(s \o e) >= n /\ \A i \in 1 .. n : (s \o e)[i] = s[i]
  BY ConcatProperties
<1>2. SubSeq(s, 1, n) = [i \in 1 .. n |-> s[i]]
  BY <1>1
<1>3. SubSeq(s \o e, 1, n) = [i \in 1 .. n |-> (s \o e)[i]]
  BY <1>1, ConcatProperties
<1>4. SubSeq(s, 1, n) = SubSeq(s \o e, 1, n)
  BY <1>1, <1>2, <1>3
<1> QED
  BY <1>1, <1>4 DEF IsPrefix

LEMMA LayerLengths ==
  ASSUME NEW t \in Layering, NEW d \in Layering,
         NEW u, u = Joined(t, d)
  PROVE  /\ Len(NodeSeq(t)) \in Nat /\ Len(NodeSeq(d)) \in Nat
         /\ Len(NodeSeq(u)) = Len(NodeSeq(t)) + Len(NodeSeq(d))
<1>1. \A x \in Layering : /\ x["entry"] \in Seq(Keys) /\ x["intermediate"] \in Seq(Keys)
                          /\ x["advanced"] \in Seq(Keys)
  BY LayerNames DEF Layering
<1>2. \A a, b, c \in Seq(Keys) : /\ Len((a \o b) \o c) = (Len(a) + Len(b)) + Len(c)
                                 /\ Len(a) \in Nat
  <2> TAKE a, b, c \in Seq(Keys)
  <2>1. a \o b \in Seq(Keys) /\ Len(a \o b) = Len(a) + Len(b)
    BY ConcatProperties
  <2>2. Len((a \o b) \o c) = Len(a \o b) + Len(c)
    BY <2>1, ConcatProperties
  <2> QED
    BY <2>1, <2>2
<1>3. /\ u["entry"] = t["entry"] \o d["entry"]
      /\ u["intermediate"] = t["intermediate"] \o d["intermediate"]
      /\ u["advanced"] = t["advanced"] \o d["advanced"]
  BY LayerNames DEF Joined
<1>4. PICK t1 \in Seq(Keys), t2 \in Seq(Keys), t3 \in Seq(Keys),
           d1 \in Seq(Keys), d2 \in Seq(Keys), d3 \in Seq(Keys) :
        /\ t1 = t["entry"] /\ t2 = t["intermediate"] /\ t3 = t["advanced"]
        /\ d1 = d["entry"] /\ d2 = d["intermediate"] /\ d3 = d["advanced"]
  BY <1>1
<1>5. /\ NodeSeq(t) = (t1 \o t2) \o t3 /\ NodeSeq(d) = (d1 \o d2) \o d3
      /\ NodeSeq(u) = ((t1 \o d1) \o (t2 \o d2)) \o (t3 \o d3)
  BY <1>3, <1>4 DEF NodeSeq
<1>6. /\ t1 \o d1 \in Seq(Keys) /\ t2 \o d2 \in Seq(Keys) /\ t3 \o d3 \in Seq(Keys)
      /\ Len(t1 \o d1) = Len(t1) + Len(d1) /\ Len(t2 \o d2) = Len(t2) + Len(d2)
      /\ Len(t3 \o d3) = Len(t3) + Len(d3)
  BY ConcatProperties
<1>7. Len(NodeSeq(u)) = ((Len(t1) + Len(d1)) + (Len(t2) + Len(d2))) + (Len(t3) + Len(d3))
  BY <1>2, <1>5, <1>6
<1>8. /\ Len(NodeSeq(t)) = (Len(t1) + Len(t2)) + Len(t3)
      /\ Len(NodeSeq(d)) = (Len(d1) + Len(d2)) + Len(d3)
  BY <1>2, <1>5
<1>9. /\ Len(t1) \in Nat /\ Len(t2) \in Nat /\ Len(t3) \in Nat
      /\ Len(d1) \in Nat /\ Len(d2) \in Nat /\ Len(d3) \in Nat
  BY <1>2
<1> QED
  BY <1>7, <1>8, <1>9

\* The specs of a course that is not a pack's are of nodes that it has.
SpecsInTree == ~FromPack => DOMAIN specs \subseteq NodesOf(tree)

LEMMA MergedNodes ==
  ASSUME NEW root, IsTree(root), NEW other, IsTree(other)
  PROVE  NodesOf(MergeDomainIntoTree(root, other)) = NodesOf(root) \cup NodesOf(other)
<1> DEFINE new(l) == Kept(other.layers[l], Range(other.layers[l]) \ NodesOf(root))
<1>1. PICK u : u = MergeDomainIntoTree(root, other)
  OBVIOUS
<1>2. IsTree(u) /\ u.layers \in Layering /\ root.layers \in Layering /\ other.layers \in Layering
  BY <1>1, MergedType DEF IsTree
<1>3. /\ NodesOf(u) = UNION {Range(u.layers[l]) : l \in Range(Layers)}
      /\ NodesOf(root) = UNION {Range(root.layers[l]) : l \in Range(Layers)}
      /\ NodesOf(other) = UNION {Range(other.layers[l]) : l \in Range(Layers)}
  BY <1>2, NodesAreKeys
<1>4. \A l \in Range(Layers) : u.layers[l] = root.layers[l] \o new(l)
  BY <1>1 DEF MergeDomainIntoTree, IsTree
<1>5. ASSUME NEW l \in Range(Layers)
      PROVE  Range(u.layers[l])
               = Range(root.layers[l]) \cup (Range(other.layers[l]) \ NodesOf(root))
  <2>1. root.layers[l] \in Seq(Keys) /\ other.layers[l] \in Seq(Keys)
    BY <1>2 DEF Layering
  <2>2. /\ new(l) \in Seq(Keys)
        /\ Range(new(l)) = Range(other.layers[l]) \cap (Range(other.layers[l]) \ NodesOf(root))
    BY <2>1, KeptType
  <2>3. Range(root.layers[l] \o new(l)) = Range(root.layers[l]) \cup Range(new(l))
    BY <2>1, <2>2, RangeConcatenation
  <2> QED
    BY <1>4, <2>2, <2>3
<1>6. \A x \in NodesOf(u) : x \in NodesOf(root) \cup NodesOf(other)
  <2> TAKE x \in NodesOf(u)
  <2>1. PICK l \in Range(Layers) : x \in Range(u.layers[l])
    BY <1>3
  <2> QED
    BY <1>3, <1>5, <2>1
<1>7. \A x \in NodesOf(root) : x \in NodesOf(u)
  <2> TAKE x \in NodesOf(root)
  <2>1. PICK l \in Range(Layers) : x \in Range(root.layers[l])
    BY <1>3
  <2>2. x \in Range(u.layers[l])
    BY <1>5, <2>1
  <2> QED
    BY <1>3, <2>2
<1>8. \A x \in NodesOf(other) \ NodesOf(root) : x \in NodesOf(u)
  <2> TAKE x \in NodesOf(other) \ NodesOf(root)
  <2>1. PICK l \in Range(Layers) : x \in Range(other.layers[l])
    BY <1>3
  <2>2. x \in Range(u.layers[l])
    BY <1>5, <2>1
  <2> QED
    BY <1>3, <2>2
<1>9. NodesOf(u) = NodesOf(root) \cup NodesOf(other)
  BY <1>6, <1>7, <1>8
<1> QED
  BY <1>1, <1>9

\* What one extension does.
LEMMA ExtensionStep ==
  ASSUME TreeInv, ExtendDomain
  PROVE  /\ \A l \in Range(Layers) : IsPrefix(tree.layers[l], tree'.layers[l])
         /\ Len(NodeSeq(tree'.layers)) - Len(NodeSeq(tree.layers)) \in 1 .. 8
         /\ \E keys : /\ NodesOf(tree') = NodesOf(tree) \cup keys
                      /\ keys \cap NodesOf(tree) = {}
                      /\ DOMAIN specs' = DOMAIN LoadDomainNodes \cup keys
                      /\ \A k \in DOMAIN LoadDomainNodes \ keys : specs'[k] = LoadDomainNodes[k]
<1>1. PICK limit \in 3 .. 8 : limit = ExtendNodeLimit(InferScopeFromTree(tree),
                               Cardinality(lit), Len(NodeSeq(tree.layers)))
  BY ExtensionLimit
<1>2. PICK out \in ExtendOutputs : \E delta, nodes :
        /\ delta = ExtendDelta(out, limit)
        /\ nodes = WithSpecs(LoadDomainNodes, out.specs, delta.keys)
        /\ ValidateExtendOutput(NodesOf(tree), out, limit)
        /\ tree' = MergeExtendIntoTree(tree, nodes, out, delta)
        /\ specs' = nodes
  BY <1>1 DEF ExtendDomain
<1>3. PICK delta, nodes :
        /\ delta = ExtendDelta(out, limit)
        /\ nodes = WithSpecs(LoadDomainNodes, out.specs, delta.keys)
        /\ ValidateExtendOutput(NodesOf(tree), out, limit)
        /\ tree' = MergeExtendIntoTree(tree, nodes, out, delta)
        /\ specs' = nodes
  BY <1>2
<1>4. PICK t, u : t = tree /\ u = tree'
  OBVIOUS
<1>5. /\ Parsed(out) /\ limit \in Nat /\ delta = ExtendDelta(out, limit)
      /\ IsTree(t) /\ ValidateExtendOutput(NodesOf(t), out, limit)
      /\ u = MergeExtendIntoTree(t, nodes, out, delta)
  BY <1>3, <1>4, KeysAssumption DEF TreeInv
<1>6. /\ NodesOf(u) = NodesOf(t) \cup delta.keys
      /\ delta.keys \cap NodesOf(t) = {}
  BY <1>5, Extended
<1>7. u.layers = Joined(t.layers, delta.layers)
  <2>1. MergeExtendIntoTree(t, nodes, out, delta).layers = Joined(t.layers, delta.layers)
    BY <1>5, ExtendedLayers
  <2> QED
    BY <1>5, <2>1
<1>8. t.layers \in Layering /\ delta.layers \in Layering
  BY <1>5, DeltaType DEF IsTree
<1>9. \A l \in Range(Layers) : IsPrefix(t.layers[l], u.layers[l])
  <2> TAKE l \in Range(Layers)
  <2>1. t.layers[l] \in Seq(Keys) /\ delta.layers[l] \in Seq(Keys)
    BY <1>8 DEF Layering
  <2>2. IsPrefix(t.layers[l], t.layers[l] \o delta.layers[l])
    BY <2>1, PrefixOfLonger
  <2> QED
    BY <1>7, <2>2 DEF Joined
<1>10. Len(NodeSeq(delta.layers)) \in 1 .. limit
  <2>1. limit \in Nat \ {0}
    BY <1>1
  <2> QED
    BY <1>5, <2>1, DeltaSize
<1>11. Len(NodeSeq(u.layers)) = Len(NodeSeq(t.layers)) + Len(NodeSeq(delta.layers))
       /\ Len(NodeSeq(t.layers)) \in Nat
  BY <1>7, <1>8, LayerLengths
<1>12. /\ DOMAIN nodes = DOMAIN LoadDomainNodes \cup delta.keys
       /\ \A k \in DOMAIN LoadDomainNodes \ delta.keys : nodes[k] = LoadDomainNodes[k]
  BY <1>3 DEF WithSpecs
<1>13. Len(NodeSeq(u.layers)) - Len(NodeSeq(t.layers)) \in 1 .. 8
  <2>1. PICK p \in Nat, q \in 1 .. limit :
          p = Len(NodeSeq(t.layers)) /\ q = Len(NodeSeq(delta.layers))
    BY <1>10, <1>11
  <2>2. Len(NodeSeq(u.layers)) = p + q
    BY <1>11, <2>1
  <2>4. q \in 1 .. 8
    OBVIOUS
  <2>3. (p + q) - p \in 1 .. 8
    BY <2>4
  <2> QED
    BY <2>1, <2>2, <2>3
<1> QED
  BY <1>3, <1>4, <1>6, <1>9, <1>12, <1>13

LEMMA SpecsStep == ASSUME TreeInv, SpecsInTree, [TreeNext]_treeVars PROVE SpecsInTree'
<1>1. ASSUME NEW out \in GenerateAndValidate, tree' = BuiltTree(out), specs' = out.specs
      PROVE  DOMAIN specs' \subseteq NodesOf(tree')
  <2>1. DOMAIN out.specs = NodesOf(BuiltTree(out))
    BY GeneratedType
  <2> QED
    BY <1>1, <2>1
<1>2. CASE BuildTree
  BY <1>1, <1>2 DEF BuildTree, SpecsInTree
<1>3. CASE OpenPack \/ CreatePersonalizedDomain \/ UpdatePersonalizedDomain
  BY <1>3 DEF OpenPack, CreatePersonalizedDomain, UpdatePersonalizedDomain, SpecsInTree, FromPack
<1>4. CASE \E k \in Keys : LightNodeOf(k)
  BY <1>4 DEF LightNodeOf, SpecsInTree, FromPack, NodesOf
<1>5. CASE ExtendDomain
  <2>1. PICK keys : /\ NodesOf(tree') = NodesOf(tree) \cup keys
                    /\ DOMAIN specs' = DOMAIN LoadDomainNodes \cup keys
    BY <1>5, ExtensionStep
  <2>2. origin' = origin
    BY <1>5 DEF ExtendDomain
  <2> QED
    BY <2>1, <2>2 DEF SpecsInTree, FromPack, LoadDomainNodes
<1>6. CASE OptimizeDomain
  BY <1>6 DEF OptimizeDomain, SpecsInTree, FromPack, NodesOf
<1>7. CASE ApplyPlan
  <2>1. DOMAIN specs' = DOMAIN LoadDomainNodes /\ origin' = origin /\ tree' = tree
    BY <1>7 DEF ApplyPlan, ApplyOptimizePatches
  <2> QED
    BY <2>1 DEF SpecsInTree, FromPack, LoadDomainNodes, NodesOf
<1>8. CASE RegenerateTree
  BY <1>1, <1>8 DEF RegenerateTree, SpecsInTree, FromPack
<1>9. CASE MergeIntoRoot
  <2>1. PICK out \in GenerateAndValidate :
          /\ tree' = MergeDomainIntoTree(BuiltTree(out), ResolveTree)
          /\ specs' = WithSpecs(out.specs, LoadDomainNodes,
                                NodesOf(ResolveTree) \cap DOMAIN LoadDomainNodes)
    BY <1>9 DEF MergeIntoRoot
  <2>2. IsTree(ResolveTree) /\ IsTree(BuiltTree(out)) /\ DOMAIN out.specs = NodesOf(BuiltTree(out))
    BY ShownIsTree, GeneratedType
  <2>3. NodesOf(tree') = NodesOf(BuiltTree(out)) \cup NodesOf(ResolveTree)
    BY <2>1, <2>2, MergedNodes
  <2>4. DOMAIN specs' \subseteq DOMAIN out.specs \cup NodesOf(ResolveTree)
    BY <2>1 DEF WithSpecs
  <2> QED
    BY <2>2, <2>3, <2>4 DEF SpecsInTree
<1>10. CASE UNCHANGED treeVars
  BY <1>10 DEF treeVars, SpecsInTree, FromPack, NodesOf
<1> QED
  BY <1>2, <1>3, <1>4, <1>5, <1>6, <1>7, <1>8, <1>9, <1>10 DEF TreeNext

LEMMA SpecsStart == TreeInit => SpecsInTree
BY DEF TreeInit, SpecsInTree, NoSpecs

\* An extension adds one to eight nodes, each at the end of its layer, and the
\* specs of a course that is not a pack's are as they were (MergeExtendIntoTree,
\* ValidateExtendOutput).
THEOREM ExtendingOnlyAppends == TreeSpec => ExtendOnlyAppends
<1>1. TreeInit => SpecsInTree
  BY SpecsStart
<1>2. TreeInv /\ SpecsInTree /\ [TreeNext]_treeVars => SpecsInTree'
  BY SpecsStep
<1>3. TreeInv /\ SpecsInTree /\ [TreeNext]_treeVars =>
        [ExtendDomain =>
           /\ \A l \in Range(Layers) : IsPrefix(tree.layers[l], tree'.layers[l])
           /\ Len(NodeSeq(tree'.layers)) - Len(NodeSeq(tree.layers)) \in 1..8
           /\ ~FromPack => \A k \in DOMAIN specs : specs'[k] = specs[k]]_treeVars
  <2> SUFFICES ASSUME TreeInv, SpecsInTree, ExtendDomain
               PROVE  /\ \A l \in Range(Layers) : IsPrefix(tree.layers[l], tree'.layers[l])
                      /\ Len(NodeSeq(tree'.layers)) - Len(NodeSeq(tree.layers)) \in 1..8
                      /\ ~FromPack => \A k \in DOMAIN specs : specs'[k] = specs[k]
    OBVIOUS
  <2>1. /\ \A l \in Range(Layers) : IsPrefix(tree.layers[l], tree'.layers[l])
        /\ Len(NodeSeq(tree'.layers)) - Len(NodeSeq(tree.layers)) \in 1 .. 8
    BY ExtensionStep
  <2>2. PICK keys : /\ keys \cap NodesOf(tree) = {}
                    /\ \A k \in DOMAIN LoadDomainNodes \ keys : specs'[k] = LoadDomainNodes[k]
    BY ExtensionStep
  <2>3. ~FromPack => \A k \in DOMAIN specs : specs'[k] = specs[k]
    BY <2>2 DEF SpecsInTree, LoadDomainNodes
  <2> QED
    BY <2>1, <2>3
<1> QED
  BY <1>1, <1>2, <1>3, TreeInvariant, PTL DEF TreeSpec, ExtendOnlyAppends

\* Whatever patches are applied and however old they are, no field of a node that
\* says something is emptied, nor are its prerequisites (ApplyOptimizePatches).
THEOREM PatchesEmptyNothing == TreeSpec => ApplyNeverEmpties
<1>1. ASSUME ApplyPlan, NEW k \in DOMAIN LoadDomainNodes
      PROVE  /\ \A f \in Fields : LoadDomainNodes[k].has[f] # "empty"
                                => LoadDomainNodes'[k].has[f] # "empty"
             /\ LoadDomainNodes[k].requires # {} => LoadDomainNodes'[k].requires # {}
  <2>1. CASE FromPack
    <3>1. LoadDomainNodes' = LoadDomainNodes
      BY <1>1, <2>1 DEF ApplyPlan, FromPack, LoadDomainNodes
    <3> QED BY <3>1
  <2>2. CASE ~FromPack
    <3>1. PICK patches, applied :
            specs' = ApplyOptimizePatches(LoadDomainNodes, patches, applied)
      BY <1>1 DEF ApplyPlan
    <3>2. LoadDomainNodes'[k] = IF k \in applied
            THEN ApplyPatchFields(LoadDomainNodes[k], patches[k]) ELSE LoadDomainNodes[k]
      BY <1>1, <2>2, <3>1
      DEF ApplyPlan, FromPack, LoadDomainNodes, ApplyOptimizePatches
    <3>3. CASE k \in applied
      BY <3>2, <3>3 DEF ApplyPatchFields, Overwritten
    <3> QED BY <3>2, <3>3
  <2> QED BY <2>1, <2>2
<1>2. [TreeNext]_treeVars =>
        [ApplyPlan => \A k \in DOMAIN LoadDomainNodes :
           LET was == LoadDomainNodes[k]
               is == LoadDomainNodes'[k]
           IN /\ \A f \in Fields : was.has[f] # "empty" => is.has[f] # "empty"
              /\ was.requires # {} => is.requires # {}]_treeVars
  BY <1>1
<1> QED BY <1>2, PTL DEF TreeSpec, ApplyNeverEmpties
-----------------------------------------------------------------------------
(***************************************************************************)
(* LearningShortcuts.                                                      *)
(***************************************************************************)
\* A strict order that compares any two of S.
Orders(R, S) ==
  /\ \A x \in S : <<x, x>> \notin R
  /\ \A x, y \in S : x # y => <<x, y>> \in R \/ <<y, x>> \in R
  /\ \A x, y, z \in S : <<x, y>> \in R /\ <<y, z>> \in R => <<x, z>> \in R

LEMMA SmallestSet ==
  ASSUME NEW S, IsFiniteSet(S), NEW sets \in SUBSET SUBSET S, sets # {}
  PROVE  \E T \in sets : \A U \in sets : U \subseteq T => U = T
<1>1. FiniteSubsetsOf(S) = SUBSET S
  BY FS_FiniteSubsetsOfFinite
<1>2. IsWellFoundedOn(StrictSubsetOrdering(S), SUBSET S)
  BY <1>1, FS_StrictSubsetOrderingWellFounded
<1>3. PICK T \in sets : \A U \in sets : <<U, T>> \notin StrictSubsetOrdering(S)
  BY <1>2, WFMin
<1> QED
  BY <1>3 DEF StrictSubsetOrdering

\* A finite set has a last element, whatever orders it.
LEMMA LastExists ==
  ASSUME NEW S, IsFiniteSet(S), NEW R, Orders(R, S), S # {}
  PROVE  \E m \in S : \A x \in S : x # m => <<x, m>> \in R
<1> DEFINE HasLast(T) == \E m \in T : \A x \in T : x # m => <<x, m>> \in R
           bad == {T \in SUBSET S : T # {} /\ ~HasLast(T)}
<1>1. SUFFICES ASSUME bad # {} PROVE FALSE
  OBVIOUS
<1>2. PICK T \in bad : \A U \in bad : U \subseteq T => U = T
  <2>1. bad \in SUBSET SUBSET S
    OBVIOUS
  <2> HIDE DEF bad
  <2> QED
    BY <1>1, <2>1, SmallestSet
<1>3. PICK t \in T : TRUE
  OBVIOUS
<1>4. CASE T \ {t} = {}
  <2>1. \A x \in T : x = t
    BY <1>4
  <2> QED
    BY <1>2, <1>3, <2>1
<1>5. CASE T \ {t} # {}
  <2>1. HasLast(T \ {t})
    <3>1. T \ {t} \notin bad
      BY <1>2, <1>3
    <3> QED
      BY <1>2, <1>5, <3>1
  <2>2. PICK m \in T \ {t} : \A x \in T \ {t} : x # m => <<x, m>> \in R
    BY <2>1
  <2>3. m \in S /\ t \in S /\ m # t /\ T \subseteq S
    BY <1>2, <1>3, <2>2
  <2>4. CASE <<t, m>> \in R
    BY <1>2, <2>2, <2>4
  <2>5. CASE <<m, t>> \in R
    <3>1. \A x \in T : x # t => <<x, t>> \in R
      BY <2>2, <2>3, <2>5 DEF Orders
    <3> QED
      BY <1>2, <1>3, <3>1
  <2> QED
    BY <2>3, <2>4, <2>5 DEF Orders
<1> QED
  BY <1>4, <1>5

InSequence(list, R) == \A i, j \in DOMAIN list : i < j => <<list[i], list[j]>> \in R

Ranked(R, S) == \E list \in [1 .. Cardinality(S) -> S] : InSequence(list, R)

\* ... so it can be listed in that order.
LEMMA RankingExists ==
  ASSUME NEW S, IsFiniteSet(S), NEW R, Orders(R, S)
  PROVE  Ranked(R, S)
<1> DEFINE bad == {T \in SUBSET S : ~Ranked(R, T)}
<1>1. SUFFICES ASSUME bad # {} PROVE FALSE
  OBVIOUS
<1>2. PICK T \in bad : \A U \in bad : U \subseteq T => U = T
  <2>1. bad \in SUBSET SUBSET S
    OBVIOUS
  <2> HIDE DEF bad
  <2> QED
    BY <1>1, <2>1, SmallestSet
<1>3. IsFiniteSet(T) /\ T \subseteq S /\ ~Ranked(R, T) /\ Cardinality(T) \in Nat
  BY <1>2, FS_Subset, FS_CardinalityType
<1>4. CASE T = {}
  <2>1. Cardinality(T) = 0
    BY <1>4, FS_EmptySet
  <2>2. 1 .. 0 = {}
    OBVIOUS
  <2>3. [i \in 1 .. 0 |-> 0] \in [1 .. 0 -> T]
    BY <2>2
  <2>4. InSequence([i \in 1 .. 0 |-> 0], R)
    BY <2>2 DEF InSequence
  <2> DEFINE none == [i \in 1 .. 0 |-> 0]
  <2>5. none \in [1 .. Cardinality(T) -> T] /\ InSequence(none, R)
    BY <2>1, <2>3, <2>4
  <2> HIDE DEF none
  <2> QED
    BY <1>3, <2>5 DEF Ranked
<1>5. CASE T # {}
  <2>1. PICK m \in T : \A x \in T : x # m => <<x, m>> \in R
    <3>1. Orders(R, T)
      BY <1>3 DEF Orders
    <3> QED
      BY <1>3, <1>5, <3>1, LastExists
  <2> DEFINE rest == T \ {m}
             k == Cardinality(rest)
  <2>9. IsFiniteSet(rest)
    BY <1>3, FS_Subset
  <2>2. k \in Nat /\ Cardinality(T) = k + 1
    BY <1>3, <2>1, <2>9, FS_RemoveElement, FS_CardinalityType
  <2>3. Ranked(R, rest)
    <3>1. rest \notin bad
      BY <1>2, <2>1
    <3> QED
      BY <1>3, <3>1
  <2>4. PICK f \in [1 .. k -> rest] : InSequence(f, R)
    BY <2>3 DEF Ranked
  <2> HIDE DEF k
  <2> DEFINE g == [i \in 1 .. (k + 1) |-> IF i = k + 1 THEN m ELSE f[i]]
  <2>5. \A i \in 1 .. (k + 1) : i # k + 1 => i \in 1 .. k
    BY <2>2
  <2>6. g \in [1 .. (k + 1) -> T]
    BY <2>1, <2>4, <2>5
  <2>7. ASSUME NEW i \in 1 .. (k + 1), NEW j \in 1 .. (k + 1), i < j
        PROVE  <<g[i], g[j]>> \in R
    <3>1. i \in 1 .. k /\ i # k + 1
      BY <2>2, <2>7
    <3>2. f[i] \in rest
      BY <2>4, <3>1
    <3>3. CASE j = k + 1
      BY <2>1, <3>1, <3>2, <3>3
    <3>4. CASE j # k + 1
      <4>1. j \in 1 .. k
        BY <2>5, <3>4
      <4>2. <<f[i], f[j]>> \in R
        BY <2>4, <2>7, <3>1, <4>1 DEF InSequence
      <4> QED
        BY <3>1, <3>4, <4>2
    <3> QED
      BY <3>3, <3>4
  <2>8. InSequence(g, R)
    BY <2>6, <2>7 DEF InSequence
  <2> HIDE DEF g
  <2> QED
    BY <1>3, <2>2, <2>6, <2>8 DEF Ranked
<1> QED
  BY <1>4, <1>5

\* A list in strict order names each element once, and all of them.
LEMMA RankingIsOnto ==
  ASSUME NEW S, IsFiniteSet(S), NEW R, Orders(R, S),
         NEW list \in [1 .. Cardinality(S) -> S], InSequence(list, R)
  PROVE  /\ \A i, j \in 1 .. Cardinality(S) : list[i] = list[j] => i = j
         /\ \A x \in S : \E i \in 1 .. Cardinality(S) : list[i] = x
<1> DEFINE n == Cardinality(S)
<1>1. n \in Nat
  BY FS_CardinalityType
<1> HIDE DEF n
<1>2. ASSUME NEW i \in 1 .. n, NEW j \in 1 .. n, i < j
      PROVE  list[i] # list[j]
  <2>1. <<list[i], list[j]>> \in R /\ list[i] \in S
    BY <1>2 DEF InSequence, n
  <2> QED
    BY <2>1 DEF Orders
<1>3. \A i, j \in 1 .. n : list[i] = list[j] => i = j
  <2> TAKE i, j \in 1 .. n
  <2>1. i < j \/ j < i \/ i = j
    BY <1>1
  <2> QED
    BY <1>2, <2>1
<1>4. list \in Injection(1 .. n, S)
  BY <1>3 DEF n, Injection, IsInjective
<1>5. Cardinality(1 .. n) = n
  BY <1>1, FS_Interval
<1>6. list \in Surjection(1 .. n, S)
  BY <1>4, <1>5, FS_Injection DEF n
<1> QED
  BY <1>3, <1>6 DEF n, Surjection

ShortcutsTyped ==
  /\ moment \in Nat
  /\ shelf \subseteq Shelf
  /\ done \in [Shelf -> Nat]
  /\ opening \in Shelf \cup {0}
  /\ opened \in [Shelf -> Nat] /\ studied \in [Shelf -> Nat]
  /\ planFor \in Planned
  /\ gapIn \subseteq Shelf
  /\ view \in [at : {"idle", "last", "session", "plan", "gap", "rest", "shown"},
               seen : SUBSET Shelf, done : [Shelf -> Nat],
               last : Shelf \cup {0}, since : Nat, plan : Shelf \cup {0}, gap : Shelf \cup {0},
               rest : Seq(Shelf)]

\* What the request has put together so far: the plan's course and the gap's are
\* of the list it read, and the gap's is neither shown already nor finished.
PartlySound ==
  /\ view.plan # 0 => view.plan \in view.seen /\ view.at \in {"gap", "rest", "shown"}
  /\ view.gap # 0 => /\ view.at \in {"rest", "shown"}
                     /\ view.gap \in view.seen \ {view.last, view.plan}
                     /\ ~Finished(view.gap)
  /\ view.at # "shown" => view.rest = <<>>

ShortcutsInv == ShortcutsTyped /\ PartlySound /\ ShortcutsSound

Precedence == {pair \in Shelf \X Shelf : Precedes(pair[1], pair[2])}

LEMMA PrecedenceOrders ==
  ASSUME ShortcutsTyped
  PROVE  Orders(Precedence, Shelf)
<1> USE ShortcutsAssumption
<1>1. \A c \in Shelf : c \in Nat /\ Activity(c) \in Nat /\ Started(c) \in BOOLEAN
  BY DEF ShortcutsTyped, Activity, Started
<1>2. \A c, d \in Shelf : <<c, d>> \in Precedence <=> Precedes(c, d)
  BY DEF Precedence
<1>3. \A c \in Shelf : ~Precedes(c, c)
  BY <1>1 DEF Precedes
<1>4. \A c, d \in Shelf : c # d => Precedes(c, d) \/ Precedes(d, c)
  BY <1>1 DEF Precedes
<1>5. \A c, d, e \in Shelf : Precedes(c, d) /\ Precedes(d, e) => Precedes(c, e)
  BY <1>1 DEF Precedes
<1> QED
  BY <1>2, <1>3, <1>4, <1>5 DEF Orders

\* The courses are listed in the order of the code, each of them once.
LEMMA SortedIsList ==
  ASSUME ShortcutsTyped, NEW S \in SUBSET Shelf
  PROVE  /\ IsFiniteSet(S) /\ Cardinality(S) \in Nat
         /\ Sorted(S) \in [1 .. Cardinality(S) -> S]
         /\ \A i, j \in 1 .. Cardinality(S) :
              i < j => Precedes(Sorted(S)[i], Sorted(S)[j])
         /\ \A i, j \in 1 .. Cardinality(S) : Sorted(S)[i] = Sorted(S)[j] => i = j
         /\ \A c \in S : \E i \in 1 .. Cardinality(S) : Sorted(S)[i] = c
<1>1. IsFiniteSet(S) /\ Cardinality(S) \in Nat
  BY ShortcutsAssumption, FS_Subset, FS_CardinalityType
<1>2. Orders(Precedence, S)
  BY PrecedenceOrders DEF Orders
<1>3. PICK f \in [1 .. Cardinality(S) -> S] : InSequence(f, Precedence)
  BY <1>1, <1>2, RankingExists DEF Ranked
<1>4. \A i, j \in DOMAIN f : i < j => Precedes(f[i], f[j])
  BY <1>3 DEF InSequence, Precedence
<1>5. /\ Sorted(S) \in [1 .. Cardinality(S) -> S]
      /\ \A i, j \in DOMAIN Sorted(S) : i < j => Precedes(Sorted(S)[i], Sorted(S)[j])
  BY <1>4 DEF Sorted
<1> HIDE DEF Sorted
<1>6. InSequence(Sorted(S), Precedence)
  BY <1>5 DEF InSequence, Precedence
<1> QED
  BY <1>1, <1>2, <1>5, <1>6, RankingIsOnto

LEMMA MinOfTwo ==
  ASSUME NEW a \in Nat, NEW b \in Nat
  PROVE  Min({a, b}) = IF a <= b THEN a ELSE b
<1>1. CASE a <= b
  BY <1>1 DEF Min
<1>2. CASE ~(a <= b)
  BY <1>2 DEF Min
<1> QED
  BY <1>1, <1>2

\* What is shown first, and what of it counts.
LEMMA ShownFirst ==
  ASSUME NEW p \in Nat, NEW g \in Nat, p = 0 \/ p # g
  PROVE  /\ IsFiniteSet({p, g} \ {0})
         /\ Cardinality({p, g} \ {0}) = Shown(p) + Shown(g)
<1>1. CASE p = 0 /\ g = 0
  <2>1. {p, g} \ {0} = {}
    BY <1>1
  <2> QED
    BY <1>1, <2>1, FS_EmptySet DEF Shown
<1>2. CASE p = 0 /\ g # 0
  <2>1. {p, g} \ {0} = {g}
    BY <1>2
  <2>2. IsFiniteSet({g}) /\ Cardinality({g}) = 1
    BY FS_Singleton
  <2> QED
    BY <1>2, <2>1, <2>2 DEF Shown
<1>3. CASE p # 0 /\ g = 0
  <2>1. {p, g} \ {0} = {p}
    BY <1>3
  <2>2. IsFiniteSet({p}) /\ Cardinality({p}) = 1
    BY FS_Singleton
  <2> QED
    BY <1>3, <2>1, <2>2 DEF Shown
<1>4. CASE p # 0 /\ g # 0
  <2>1. {p, g} \ {0} = {p} \cup {g} /\ g \notin {p}
    BY <1>4
  <2>2. IsFiniteSet({p}) /\ Cardinality({p}) = 1
    BY FS_Singleton
  <2> QED
    BY <1>4, <2>1, <2>2, FS_AddElement DEF Shown
<1> QED
  BY <1>1, <1>2, <1>3, <1>4

LEMMA ShortcutsStart == ShortcutsInit => ShortcutsInv
<1> SUFFICES ASSUME ShortcutsInit PROVE ShortcutsInv
  OBVIOUS
<1> USE ShortcutsAssumption
<1>1. Newest \in Nat
  <2>1. CASE Shelf = {}
    BY <2>1 DEF Newest
  <2>2. CASE Shelf # {}
    <3> DEFINE Younger == {pair \in Shelf \X Shelf : pair[1] < pair[2]}
    <3>1. \A c, d \in Shelf : <<c, d>> \in Younger <=> c < d
      OBVIOUS
    <3>2. Orders(Younger, Shelf)
      BY <3>1 DEF Orders
    <3>3. PICK c \in Shelf : \A d \in Shelf : d # c => <<d, c>> \in Younger
      BY <2>2, <3>2, LastExists
    <3> HIDE DEF Younger
    <3>5. \A d \in Shelf : d # c => d < c
      BY <3>1, <3>3
    <3>4. \A d \in Shelf : d <= c
      BY <3>5
    <3> QED
      BY <2>2, <3>4 DEF Newest
  <2> QED
    BY <2>1, <2>2
<1>2. done \in [Shelf -> Nat]
  <2>1. UNION {0 .. SizeOf[c] : c \in Shelf} \subseteq Nat
    OBVIOUS
  <2> QED
    BY <2>1 DEF ShortcutsInit
<1>3. NoView \in [at : {"idle", "last", "session", "plan", "gap", "rest", "shown"},
                  seen : SUBSET Shelf, done : [Shelf -> Nat],
                  last : Shelf \cup {0}, since : Nat, plan : Shelf \cup {0}, gap : Shelf \cup {0},
                  rest : Seq(Shelf)]
  BY DEF NoView
<1>4. ShortcutsTyped
  BY <1>1, <1>2, <1>3 DEF ShortcutsInit, ShortcutsTyped
<1>5. PartlySound /\ ShortcutsSound
  BY DEF ShortcutsInit, NoView, PartlySound, ShortcutsSound
<1> QED
  BY <1>4, <1>5 DEF ShortcutsInv

\* What the learner does leaves the request alone, which is not at its end.
LEMMA LearnerKeeps ==
  ASSUME ShortcutsInv,
         \/ TouchDomainAccess
         \/ \E c \in Shelf : PageOpens(c) \/ Studies(c) \/ CourseTaken(c)
  PROVE  ShortcutsInv'
<1> USE ShortcutsAssumption
<1>1. view.at # "shown" /\ view' = view
  BY DEF TouchDomainAccess, PageOpens, Studies, CourseTaken, Meanwhile
<1>2. ShortcutsTyped'
  <2>1. CASE TouchDomainAccess
    BY <2>1 DEF TouchDomainAccess, Passes, ShortcutsInv, ShortcutsTyped
  <2>2. ASSUME NEW c \in Shelf, PageOpens(c) PROVE ShortcutsTyped'
    BY <2>2 DEF PageOpens, ShortcutsInv, ShortcutsTyped
  <2>3. ASSUME NEW c \in Shelf, Studies(c) PROVE ShortcutsTyped'
    <3>3. done \in [Shelf -> Nat] /\ gapIn \subseteq Shelf
      BY DEF ShortcutsInv, ShortcutsTyped
    <3>4. \/ done' = done
          \/ done' = [done EXCEPT ![c] = IF @ < SizeOf[c] THEN @ + 1 ELSE @]
      BY <2>3 DEF Studies
    <3>5. gapIn' = gapIn \ {c} \/ gapIn' = gapIn \cup {c}
      BY <2>3 DEF Studies
    <3>6. done[c] \in Nat /\ SizeOf[c] \in Nat
      BY <3>3
    <3>7. done' \in [Shelf -> Nat]
      BY <3>3, <3>4, <3>6
    <3>1. done' \in [Shelf -> Nat] /\ gapIn' \subseteq Shelf
      BY <3>3, <3>5, <3>7
    <3>2. moment' \in Nat /\ studied' \in [Shelf -> Nat]
      BY <2>3 DEF Studies, Passes, ShortcutsInv, ShortcutsTyped
    <3> QED
      BY <2>3, <3>1, <3>2 DEF Studies, ShortcutsInv, ShortcutsTyped
  <2>4. ASSUME NEW c \in Shelf, CourseTaken(c) PROVE ShortcutsTyped'
    BY <2>4 DEF CourseTaken, ShortcutsInv, ShortcutsTyped
  <2> QED
    BY <2>1, <2>2, <2>3, <2>4
<1>3. PartlySound' /\ ShortcutsSound'
  BY <1>1 DEF ShortcutsInv, PartlySound, ShortcutsSound, Finished
<1> QED
  BY <1>2, <1>3 DEF ShortcutsInv

\* The latest row is of a course.
LEMMA LatestIsCourse ==
  ASSUME NEW times \in [Shelf -> Nat]
  PROVE  LatestOf(times) \in Shelf \cup {0}
<1> USE ShortcutsAssumption
<1> DEFINE rows == {c \in Shelf : times[c] > 0}
           Older == {pair \in Shelf \X Shelf :
                       \/ times[pair[1]] < times[pair[2]]
                       \/ /\ times[pair[1]] = times[pair[2]]
                          /\ pair[1] < pair[2]}
<1>1. SUFFICES ASSUME rows # {} PROVE \E c \in rows : \A d \in rows : times[d] <= times[c]
  BY DEF LatestOf
<1>2. \A c, d \in Shelf : <<c, d>> \in Older <=>
                            (times[c] < times[d] \/ (times[c] = times[d] /\ c < d))
  OBVIOUS
<1>3. Orders(Older, rows)
  BY <1>2 DEF Orders
<1>4. IsFiniteSet(rows)
  BY FS_Subset
<1> HIDE DEF Older
<1>5. PICK c \in rows : \A d \in rows : d # c => <<d, c>> \in Older
  BY <1>1, <1>3, <1>4, LastExists
<1>6. ASSUME NEW d \in rows PROVE times[d] <= times[c]
  <2>1. times[c] \in Nat /\ times[d] \in Nat
    OBVIOUS
  <2>2. d # c => times[d] < times[c] \/ times[d] = times[c]
    BY <1>2, <1>5
  <2> QED
    BY <2>1, <2>2
<1> QED
  BY <1>6

\* The reads up to the gap.
LEMMA ReadsKeep ==
  ASSUME ShortcutsInv,
         ListDomainSummaries \/ ReadsAccess \/ buildLastLesson \/ planningRecommendation
           \/ gapRecommendation
  PROVE  ShortcutsInv'
<1> USE ShortcutsAssumption
<1>1. CASE ListDomainSummaries
  BY <1>1 DEF ListDomainSummaries, others, NoView, ShortcutsInv, ShortcutsTyped,
              PartlySound, ShortcutsSound
<1>2. CASE ReadsAccess \/ buildLastLesson
  <2>1. FindLastDomainAccess \in Shelf \cup {0} /\ FindLastStudiedSession \in Shelf \cup {0}
    BY LatestIsCourse DEF FindLastDomainAccess, FindLastStudiedSession, ShortcutsInv,
                          ShortcutsTyped
  <2>2. \E at \in {"session", "plan"}, c \in Shelf \cup {0}, k \in Nat :
          view' = [view EXCEPT !.at = at, !.last = c, !.since = k]
    <3>1. /\ view.last \in Shelf \cup {0}
          /\ \A c \in Shelf : opened[c] \in Nat
      BY DEF ShortcutsInv, ShortcutsTyped
    <3>2. CASE ReadsAccess
      <4>1. PICK c, k : /\ c = FindLastDomainAccess
                        /\ k = IF c = 0 THEN 0 ELSE opened[c]
        OBVIOUS
      <4>2. view' = [view EXCEPT !.at = "session", !.last = c, !.since = k]
        BY <3>2, <4>1 DEF ReadsAccess
      <4>3. c \in Shelf \cup {0} /\ k \in Nat
        BY <2>1, <3>1, <4>1
      <4> QED
        BY <4>2, <4>3
    <3>3. CASE buildLastLesson
      <4>1. PICK c \in {view.last, FindLastStudiedSession} :
              view' = [view EXCEPT !.at = "plan", !.since = 0, !.last = c]
        BY <3>3 DEF buildLastLesson
      <4>2. c \in Shelf \cup {0}
        BY <2>1, <3>1, <4>1
      <4>3. view' = [view EXCEPT !.at = "plan", !.last = c, !.since = 0]
        BY <4>1 DEF ShortcutsInv, ShortcutsTyped
      <4> QED
        BY <4>2, <4>3
    <3> QED
      BY <1>2, <3>2, <3>3
  <2>3. UNCHANGED others /\ view.at \in {"last", "session"}
    BY <1>2 DEF ReadsAccess, buildLastLesson
  <2>4. PICK at \in {"session", "plan"}, c \in Shelf \cup {0}, k \in Nat :
          view' = [view EXCEPT !.at = at, !.last = c, !.since = k]
    BY <2>2
  <2>5. view.gap = 0 /\ view.plan = 0 /\ view.rest = <<>>
    BY <2>3 DEF ShortcutsInv, PartlySound
  <2>6. ShortcutsTyped'
    BY <2>3, <2>4 DEF others, ShortcutsInv, ShortcutsTyped
  <2>7. view'.at = at /\ view'.gap = 0 /\ view'.plan = 0 /\ view'.rest = <<>>
    BY <2>4, <2>5 DEF ShortcutsInv, ShortcutsTyped
  <2> QED
    BY <2>6, <2>7 DEF ShortcutsInv, PartlySound, ShortcutsSound
<1>3. CASE planningRecommendation
  BY <1>3 DEF planningRecommendation, others, ShortcutsInv, ShortcutsTyped,
              PartlySound, ShortcutsSound
<1>4. CASE gapRecommendation
  <2> DEFINE fit == {c \in gapIn \cap (view.seen \ Used) : ~Finished(c)}
  <2>1. PICK c \in fit \cup {0} :
          view' = [view EXCEPT !.at = "rest", !.gap = c]
    BY <1>4 DEF gapRecommendation
  <2>2. c # 0 => c \in view.seen \ {view.last, view.plan} /\ ~Finished(c)
    BY <2>1 DEF Used
  <2>3. /\ c \in Shelf \cup {0} /\ view.at = "gap"
        /\ view \in [at : {"idle", "last", "session", "plan", "gap", "rest", "shown"},
                     seen : SUBSET Shelf, done : [Shelf -> Nat],
                     last : Shelf \cup {0}, since : Nat, plan : Shelf \cup {0}, gap : Shelf \cup {0},
                     rest : Seq(Shelf)]
    BY <1>4, <2>2 DEF gapRecommendation, ShortcutsInv, ShortcutsTyped
  <2>4. ShortcutsTyped'
    BY <1>4, <2>1, <2>3 DEF gapRecommendation, others, ShortcutsInv, ShortcutsTyped
  <2>5. /\ view'.at = "rest" /\ view'.gap = c
        /\ view'.seen = view.seen /\ view'.done = view.done /\ view'.rest = view.rest
        /\ view'.last = view.last /\ view'.plan = view.plan
    BY <2>1, <2>3
  <2>6. Finished(c)' <=> Finished(c)
    BY <2>5 DEF Finished
  <2>7. PartlySound' /\ ShortcutsSound'
    BY <2>2, <2>3, <2>5, <2>6 DEF PartlySound, ShortcutsSound, ShortcutsInv, Finished
  <2> QED
    BY <2>4, <2>7 DEF ShortcutsInv
<1> QED
  BY <1>1, <1>2, <1>3, <1>4

\* The end of the request: what is left is filled up in order.
LEMMA RestIsSound ==
  ASSUME ShortcutsInv, progressRecommendations
  PROVE  ShortcutsInv'
<1> USE ShortcutsAssumption
<1> DEFINE fit == {c \in view.seen \ Used : SizeOf[c] > 0 /\ ~Finished(c)}
           n == Cardinality(fit)
           length == Min({n, Room})
           list == Sorted(fit)
           shown == [i \in 1 .. length |-> list[i]]
           first == {view.plan, view.gap} \ {0}
<1>1. /\ ShortcutsTyped
      /\ view.at = "rest"
      /\ view \in [at : {"idle", "last", "session", "plan", "gap", "rest", "shown"},
                   seen : SUBSET Shelf, done : [Shelf -> Nat],
                   last : Shelf \cup {0}, since : Nat, plan : Shelf \cup {0}, gap : Shelf \cup {0},
                   rest : Seq(Shelf)]
  BY DEF progressRecommendations, ShortcutsInv, ShortcutsTyped
<1>2. view' = [view EXCEPT !.at = "shown", !.rest = shown]
  BY DEF progressRecommendations
<1>3. /\ fit \in SUBSET Shelf
      /\ \A c \in fit : /\ c \in view.seen /\ SizeOf[c] > 0 /\ ~Finished(c)
                        /\ c # view.last /\ c # view.plan /\ c # view.gap /\ c # 0
  BY <1>1 DEF Used
<1>4. \A c \in view.seen : SizeOf[c] > 0 /\ ~Finished(c) /\ c \notin Used => c \in fit
  OBVIOUS
<1> HIDE DEF fit
<1>5. /\ n \in Nat
      /\ list \in [1 .. n -> fit]
      /\ \A i, j \in 1 .. n : i < j => Precedes(list[i], list[j])
      /\ \A i, j \in 1 .. n : list[i] = list[j] => i = j
      /\ \A c \in fit : \E i \in 1 .. n : list[i] = c
  BY <1>1, <1>3, SortedIsList
<1>6. view.plan = 0 \/ view.plan # view.gap
  BY <1>1 DEF ShortcutsInv, PartlySound
<1>7. /\ Room \in Nat
      /\ Room + Shown(view.plan) + Shown(view.gap) = MaxRecommendations
      /\ Shown(view.plan) \in Nat /\ Shown(view.gap) \in Nat
  BY DEF Room, Shown, MaxRecommendations
<1>23. MaxRecommendations \in Nat
  BY DEF MaxRecommendations
<1> HIDE DEF n, list
<1>8. /\ length \in Nat /\ length <= n /\ length <= Room
      /\ length = n \/ length = Room
  BY <1>5, <1>7, MinOfTwo
<1> HIDE DEF length
<1>9. \A i \in 1 .. length : i \in 1 .. n
  BY <1>5, <1>8
<1>10. /\ shown \in Seq(Shelf) /\ DOMAIN shown = 1 .. length
       /\ \A i \in 1 .. length : shown[i] = list[i] /\ shown[i] \in fit
  <2>1. \A i \in 1 .. length : list[i] \in fit /\ list[i] \in Shelf
    BY <1>3, <1>5, <1>9
  <2> QED
    BY <1>8, <2>1
<1> HIDE DEF shown
<1>11. /\ view'.at = "shown" /\ view'.rest = shown
       /\ view'.seen = view.seen /\ view'.done = view.done
       /\ view'.last = view.last /\ view'.plan = view.plan /\ view'.gap = view.gap
  BY <1>1, <1>2
<1>12. ShortcutsTyped'
  BY <1>1, <1>2, <1>10 DEF progressRecommendations, others, ShortcutsTyped
<1>13. \A c : (Finished(c)' <=> Finished(c)) /\ (Started(c)' <=> Started(c))
  BY <1>11 DEF Finished, Started
<1>14. PartlySound'
  BY <1>1, <1>11, <1>13 DEF ShortcutsInv, PartlySound
<1>15. Range(shown) \subseteq fit
  BY <1>10 DEF Range
<1>16. IsInjective(shown)
  BY <1>5, <1>9, <1>10 DEF IsInjective
<1>17. Recommended' = first \cup Range(shown)
  BY <1>11 DEF Recommended
<1>18. first \cap Range(shown) = {}
  BY <1>3, <1>15
<1>19. Cardinality(Recommended)' = Shown(view.plan) + Shown(view.gap) + length
  <2>1. IsFiniteSet(first) /\ Cardinality(first) = Shown(view.plan) + Shown(view.gap)
    BY <1>1, <1>6, ShownFirst
  <2>2. shown \in Bijection(1 .. length, Range(shown))
    BY <1>10, <1>16 DEF Bijection, Injection, Surjection, IsInjective, Range
  <2>3. IsFiniteSet(1 .. length) /\ Cardinality(1 .. length) = length
    BY <1>8, FS_Interval
  <2>4. IsFiniteSet(Range(shown)) /\ Cardinality(Range(shown)) = length
    BY <2>2, <2>3, FS_Bijection DEF ExistsBijection
  <2>5. Cardinality(first \cup Range(shown))
          = Cardinality(first) + Cardinality(Range(shown)) - Cardinality(first \cap Range(shown))
    BY <2>1, <2>4, FS_Union
  <2>6. Cardinality(first \cap Range(shown)) = 0
    BY <1>18, FS_EmptySet
  <2> QED
    BY <1>7, <1>8, <1>17, <2>1, <2>4, <2>5, <2>6
<1>20. \A c \in Recommended' \ {view'.plan} : c # view'.last /\ ~Finished(c)'
  <2>1. view.gap # 0 => view.gap # view.last /\ ~Finished(view.gap)
    BY DEF ShortcutsInv, PartlySound
  <2> QED
    BY <1>3, <1>11, <1>13, <1>15, <1>17, <2>1
<1>21. ASSUME NEW c \in view.seen, SizeOf[c] > 0, ~Finished(c),
              c \notin Recommended', c # view.last
       PROVE  /\ Cardinality(Recommended)' = MaxRecommendations
              /\ \A i \in DOMAIN shown : Started(c) => Started(shown[i])
  <2>1. c # 0 /\ c \in Shelf
    BY <1>1
  <2>2. c \in fit
    BY <1>4, <1>17, <1>21, <2>1 DEF Used
  <2>3. PICK k \in 1 .. n : list[k] = c
    BY <1>5, <2>2
  <2>4. k > length
    <3>1. k \notin 1 .. length
      BY <1>10, <1>17, <1>21, <2>3 DEF Range
    <3> QED
      BY <1>5, <1>8, <3>1
  <2>5. length = Room
    BY <1>5, <1>8, <2>4
  <2>6. ASSUME NEW i \in 1 .. length PROVE Precedes(shown[i], c)
    <3>1. i < k
      BY <1>8, <2>4
    <3> QED
      BY <1>5, <1>9, <1>10, <2>3, <3>1
  <2>7. \A i \in 1 .. length : Started(c) => Started(shown[i])
    BY <2>6 DEF Precedes
  <2> QED
    BY <1>7, <1>8, <1>10, <1>19, <2>5, <2>7
<1>22. ShortcutsSound'
  <2>1. view'.plan = 0 \/ view'.plan # view'.gap
    BY <1>6, <1>11
  <2>2. {view.plan, view.gap} \cap Range(shown) = {}
    BY <1>3, <1>15
  <2>3. Cardinality(Recommended)' <= MaxRecommendations
    BY <1>7, <1>8, <1>19, <1>23
  <2> QED
    BY <1>11, <1>13, <1>16, <1>20, <1>21, <2>1, <2>2, <2>3 DEF ShortcutsSound
<1> QED
  BY <1>12, <1>14, <1>22 DEF ShortcutsInv

LEMMA ShortcutsStep == ShortcutsInv /\ [ShortcutsNext]_shortcutVars => ShortcutsInv'
<1> SUFFICES ASSUME ShortcutsInv, [ShortcutsNext]_shortcutVars PROVE ShortcutsInv'
  OBVIOUS
<1>1. CASE UNCHANGED shortcutVars
  <2>1. ShortcutsTyped'
    BY <1>1 DEF shortcutVars, ShortcutsInv, ShortcutsTyped
  <2>2. PartlySound'
    BY <1>1 DEF shortcutVars, ShortcutsInv, PartlySound, Finished
  <2>3. ShortcutsSound'
    BY <1>1 DEF shortcutVars, ShortcutsInv, ShortcutsSound, Recommended, Finished, Started
  <2> QED
    BY <2>1, <2>2, <2>3 DEF ShortcutsInv
<1> QED
  BY <1>1, LearnerKeeps, ReadsKeep, RestIsSound DEF ShortcutsNext

\* In every state of the request what it has put together is sound
\* (GetLearningShortcuts).
THEOREM ShortcutsInvariant == ShortcutsSpec => []ShortcutsInv
<1> QED
  BY ShortcutsStart, ShortcutsStep, PTL DEF ShortcutsSpec

\* What is shown makes sense whatever changed between the reads.
THEOREM SidebarIsSound == ShortcutsSpec => []ShortcutsSound
<1>1. ShortcutsInv => ShortcutsSound
  BY DEF ShortcutsInv
<1> QED
  BY <1>1, ShortcutsInvariant, PTL
=============================================================================
