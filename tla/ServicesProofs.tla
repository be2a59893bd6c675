--------------------------- MODULE ServicesProofs ---------------------------
(***************************************************************************)
(* Proofs about the services around the courses: the sync of the offline   *)
(* runtime, the summaries and the profile, the aside assistant, and the    *)
(* opening of the database.                                                *)
(***************************************************************************)
EXTENDS ProgressSync, LearnerProfile, AsideThreads, SchemaMigration,
        FiniteSetTheorems, TLAPS

(***************************************************************************)
(* ProgressSync.                                                           *)
(***************************************************************************)
ProgressRow == [status : {"in_progress", "completed"}, at : Nat] \cup {NoRow}

SyncTypeOK ==
  /\ clock \in Nat
  /\ row \in [Sides -> ProgressRow]
  /\ sync \in [step : {"idle", "push", "pull", "write there", "write here"},
               row : ProgressRow, clean : BOOLEAN]
  /\ agreed \subseteq Sides
  /\ newest \in ProgressRow

\* The copy that is carried is the row it was read from, as long as nobody has
\* learned since; what compared well still does.
Carries ==
  sync.clean =>
    /\ sync.step \in {"push", "write there"} =>
         /\ sync.row.status = row[Local].status
         /\ sync.row.at = Seconds(row[Local].at)
    /\ sync.step \in {"pull", "write here"} => sync.row = row[Server]
    /\ sync.step \in {"write there", "write here"} => Wins(sync.row, row[Into])

\* What a sync that was not disturbed leaves behind.
Agrees ==
  /\ ~sync.clean => agreed = {}
  /\ Server \in agreed => \/ row[Server].status = row[Local].status
                          \/ row[Server].at >= Seconds(row[Local].at)
  /\ Local \in agreed => \/ row[Server].status = row[Local].status
                         \/ row[Local].at >= row[Server].at

\* Nothing is later than what was learned last, which one side has.
NewestIsThere ==
  newest # NoRow => /\ \E s \in Sides : row[s] = newest
                    /\ \A s \in Sides : row[s].at <= newest.at
                    /\ sync.row.at <= newest.at

SyncInv ==
  /\ SyncTypeOK
  /\ \A s \in Sides : row[s].at <= clock
  /\ sync.row.at <= clock
  /\ Carries /\ Agrees /\ NewestIsThere

LEMMA SecondsOf ==
  ASSUME NEW a \in Int
  PROVE  Seconds(a) \in Int /\ Seconds(a) <= a /\ a <= Seconds(a) + 1
BY DEF Seconds

LEMMA SameSecond ==
  ASSUME NEW a \in Int, NEW b \in Int, a >= b, b >= Seconds(a)
  PROVE  Seconds(a) = Seconds(b)
BY DEF Seconds

LEMMA RowIsDated ==
  ASSUME NEW r \in ProgressRow
  PROVE  r.at \in Int /\ r.at >= -1 /\ (r # NoRow => r.at \in Nat)
BY DEF ProgressRow, NoRow

LEMMA NothingCarried ==
  /\ NoSync.step = "idle" /\ NoSync.clean = TRUE /\ NoSync.row = NoRow /\ NoRow.at = -1
  /\ NoRow \in ProgressRow
  /\ NoSync \in [step : {"idle", "push", "pull", "write there", "write here"},
                 row : ProgressRow, clean : BOOLEAN]
<1>1. NoRow \in ProgressRow /\ NoRow.at = -1
  BY DEF NoRow, ProgressRow
<1> QED
  BY <1>1 DEF NoSync

LEMMA SyncLearns ==
  ASSUME SyncInv, NEW s \in Sides, NEW status \in {"in_progress", "completed"},
         Touched(s, status)
  PROVE  SyncInv'
<1> USE SyncAssumption
<1>1. PICK new : new = [status |-> status, at |-> clock]
  OBVIOUS
<1>10. clock \in Nat /\ new \in ProgressRow /\ new.at = clock
  BY <1>1 DEF SyncInv, SyncTypeOK, ProgressRow
<1>2. /\ row' = [row EXCEPT ![s] = new] /\ newest' = new /\ agreed' = {} /\ clock' = clock
      /\ sync' = [sync EXCEPT !.clean = (sync.clean /\ sync.step = "idle")]
  BY <1>1 DEF SyncInv, SyncTypeOK, Touched
<1>3. /\ row' \in [Sides -> ProgressRow]
      /\ \A h \in Sides : row'[h] = IF h = s THEN new ELSE row[h]
  BY <1>2, <1>10 DEF SyncInv, SyncTypeOK
<1>4. /\ sync'.step = sync.step /\ sync'.row = sync.row
      /\ sync'.clean => sync.step = "idle"
      /\ sync' \in [step : {"idle", "push", "pull", "write there", "write here"},
                    row : ProgressRow, clean : BOOLEAN]
  BY <1>2 DEF SyncInv, SyncTypeOK
<1>5. SyncTypeOK'
  BY <1>2, <1>3, <1>4, <1>10 DEF SyncTypeOK
<1>6. (\A h \in Sides : row'[h].at <= clock') /\ sync'.row.at <= clock'
  <2>1. ASSUME NEW h \in Sides PROVE row'[h].at <= clock
    <3>1. CASE h = s
      BY <1>3, <1>10, <3>1
    <3>2. CASE h # s
      BY <1>3, <3>2 DEF SyncInv
    <3> QED
      BY <3>1, <3>2
  <2>2. sync'.row.at <= clock
    BY <1>4 DEF SyncInv
  <2> QED
    BY <1>2, <2>1, <2>2
<1>7. Carries'
  BY <1>4 DEF Carries
<1>8. Agrees'
  BY <1>2 DEF Agrees
<1>9. NewestIsThere'
  <2>1. (\A h \in Sides : row'[h].at <= newest'.at) /\ sync'.row.at <= newest'.at
    BY <1>2, <1>6, <1>10
  <2> QED
    BY <1>2, <1>3, <2>1 DEF NewestIsThere
<1> QED
  BY <1>5, <1>6, <1>7, <1>8, <1>9 DEF SyncInv

\* A sync that is over, or has not begun.
LEMMA SyncRests ==
  ASSUME SyncInv, sync' = NoSync, UNCHANGED <<clock, row, newest>>, Agrees',
         agreed' \subseteq Sides
  PROVE  SyncInv'
<1>1. NoSync.step = "idle" /\ NoSync.clean = TRUE /\ NoSync.row = NoRow /\ NoRow.at = -1
  BY NothingCarried
<1>2. SyncTypeOK'
  BY NothingCarried DEF SyncInv, SyncTypeOK
<1>3. sync'.row.at <= clock'
  <2>1. clock \in Nat
    BY DEF SyncInv, SyncTypeOK
  <2> QED
    BY <1>1, <2>1
<1>4. Carries'
  BY <1>1 DEF Carries
<1>5. NewestIsThere'
  <2>1. newest.at >= -1
    BY RowIsDated DEF SyncInv, SyncTypeOK
  <2> QED
    BY <1>1, <2>1 DEF SyncInv, NewestIsThere
<1> QED
  BY <1>2, <1>3, <1>4, <1>5 DEF SyncInv

LEMMA SyncBegins ==
  ASSUME SyncInv, SyncPush \/ SyncPull
  PROVE  SyncInv'
<1> USE SyncAssumption
<1>1. /\ sync.step = "idle" /\ UNCHANGED <<clock, row, agreed, newest>>
      /\ row \in [Sides -> ProgressRow] /\ clock \in Nat
      /\ row[Local] \in ProgressRow /\ row[Server] \in ProgressRow
      /\ row[Local].at <= clock /\ row[Server].at <= clock
  BY DEF SyncPush, SyncPull, SyncInv, SyncTypeOK
<1>2. CASE SyncPush
  <2>1. PICK copy : copy = [row[Local] EXCEPT !.at = Seconds(row[Local].at)]
    OBVIOUS
  <2>2. row[Local].at \in Nat /\ Seconds(row[Local].at) \in Nat /\ Seconds(row[Local].at) <= row[Local].at
    <3>1. row[Local].at \in Nat
      BY <1>1, <1>2, RowIsDated DEF SyncPush
    <3> QED
      BY <3>1, SecondsOf DEF Seconds
  <2>3. /\ copy \in ProgressRow /\ copy.at = Seconds(row[Local].at)
        /\ copy.status = row[Local].status
    BY <1>1, <1>2, <2>1, <2>2 DEF SyncPush, ProgressRow
  <2>4. sync' = [NoSync EXCEPT !.step = "push", !.row = copy]
    BY <1>2, <2>1 DEF SyncPush
  <2>5. /\ sync'.step = "push" /\ sync'.row = copy /\ sync'.clean
        /\ sync' \in [step : {"idle", "push", "pull", "write there", "write here"},
                      row : ProgressRow, clean : BOOLEAN]
    BY <2>3, <2>4, NothingCarried DEF NoSync
  <2>6. SyncTypeOK'
    BY <1>1, <2>5 DEF SyncInv, SyncTypeOK
  <2>7. copy.at <= clock
    BY <1>1, <2>2, <2>3
  <2>8. newest # NoRow => copy.at <= newest.at
    <3>1. newest.at \in Int
      BY RowIsDated DEF SyncInv, SyncTypeOK
    <3>2. newest # NoRow => row[Local].at <= newest.at
      BY DEF SyncInv, NewestIsThere
    <3> QED
      BY <2>2, <2>3, <3>1, <3>2
  <2>9. Carries'
    BY <1>1, <2>3, <2>5 DEF Carries
  <2> QED
    BY <1>1, <2>5, <2>6, <2>7, <2>8, <2>9 DEF SyncInv, Agrees, NewestIsThere
<1>3. CASE SyncPull
  <2>1. PICK copy : copy = row[Server]
    OBVIOUS
  <2>4. sync' = [NoSync EXCEPT !.step = "pull", !.row = copy]
    BY <1>3, <2>1 DEF SyncPull
  <2>5. /\ sync'.step = "pull" /\ sync'.row = row[Server] /\ sync'.clean
        /\ sync' \in [step : {"idle", "push", "pull", "write there", "write here"},
                      row : ProgressRow, clean : BOOLEAN]
    BY <1>1, <2>1, <2>4, NothingCarried DEF NoSync
  <2>6. SyncTypeOK'
    BY <1>1, <2>5 DEF SyncInv, SyncTypeOK
  <2>8. newest # NoRow => row[Server].at <= newest.at
    BY DEF SyncInv, NewestIsThere
  <2>9. Carries'
    BY <1>1, <2>5 DEF Carries
  <2> QED
    BY <1>1, <2>5, <2>6, <2>8, <2>9 DEF SyncInv, Agrees, NewestIsThere
<1> QED
  BY <1>2, <1>3

\* The row that arrives loses, or is going to be written.
LEMMA SyncCompares ==
  ASSUME SyncInv, Compares
  PROVE  SyncInv'
<1> USE SyncAssumption
<1>1. /\ row[Local] \in ProgressRow /\ row[Server] \in ProgressRow /\ sync.row \in ProgressRow
      /\ row[Local].at \in Int /\ row[Server].at \in Int /\ sync.row.at \in Int
      /\ UNCHANGED <<clock, row, newest>> /\ agreed \subseteq Sides
  BY RowIsDated DEF SyncInv, SyncTypeOK, Compares
<1>2. CASE Wins(sync.row, row[Into])
  <2>1. PICK step : /\ sync' = [sync EXCEPT !.step = step] /\ agreed' = agreed
                    /\ step = IF Into = Server THEN "write there" ELSE "write here"
    BY <1>2 DEF Compares
  <2>2. /\ sync'.step = step /\ sync'.row = sync.row /\ sync'.clean = sync.clean
        /\ sync' \in [step : {"idle", "push", "pull", "write there", "write here"},
                      row : ProgressRow, clean : BOOLEAN]
    BY <2>1 DEF SyncInv, SyncTypeOK
  <2>3. /\ step = "write there" => sync.step = "push" /\ Into = Server
        /\ step = "write here" => sync.step = "pull" /\ Into = Local
        /\ step \in {"write there", "write here"}
    BY <2>1 DEF Compares, Into
  <2>4. Into' = Into
    BY <2>2, <2>3 DEF Into
  <2>5. Carries'
    BY <1>1, <1>2, <2>2, <2>3, <2>4 DEF SyncInv, Carries, Wins
  <2> QED
    BY <1>1, <2>1, <2>2, <2>5 DEF SyncInv, SyncTypeOK, Agrees, NewestIsThere
<1>3. CASE ~Wins(sync.row, row[Into])
  <2>1. sync' = NoSync /\ agreed' = Reached /\ sync.step \in {"push", "pull"}
    BY <1>3 DEF Compares
  <2>2. row[Into].at >= sync.row.at
    <3>1. row[Into].at \in Int
      BY <1>1 DEF Into
    <3>2. ~(row[Into].at < sync.row.at)
      BY <1>3 DEF Wins
    <3> QED
      BY <1>1, <3>1, <3>2
  <2>3. agreed' \subseteq Sides
    BY <1>1, <2>1 DEF Reached, Into
  <2>4. CASE ~sync.clean
    <3>1. agreed' = {}
      BY <2>1, <2>4 DEF Reached, SyncInv, Agrees
    <3> QED
      BY <1>1, <2>1, <2>3, <3>1, SyncRests DEF Agrees
  <2>5. CASE sync.clean /\ sync.step = "push"
    <3>1. agreed' = agreed \cup {Server} /\ row[Server].at >= Seconds(row[Local].at)
      BY <2>1, <2>2, <2>5 DEF Reached, Into, SyncInv, Carries
    <3>2. Agrees'
      BY <1>1, <2>1, <3>1, NothingCarried DEF SyncInv, Agrees
    <3> QED
      BY <1>1, <2>1, <2>3, <3>2, SyncRests
  <2>6. CASE sync.clean /\ sync.step = "pull"
    <3>1. agreed' = agreed \cup {Local} /\ row[Local].at >= row[Server].at
      BY <2>1, <2>2, <2>6 DEF Reached, Into, SyncInv, Carries
    <3>2. Agrees'
      BY <1>1, <2>1, <3>1, NothingCarried DEF SyncInv, Agrees
    <3> QED
      BY <1>1, <2>1, <2>3, <3>2, SyncRests
  <2> QED
    BY <2>1, <2>4, <2>5, <2>6
<1> QED
  BY <1>2, <1>3

LEMMA SyncWrites ==
  ASSUME SyncInv, UpsertProgress
  PROVE  SyncInv'
<1> USE SyncAssumption
<1>1. /\ row \in [Sides -> ProgressRow] /\ sync.row \in ProgressRow /\ newest \in ProgressRow
      /\ row[Local].at \in Int /\ row[Server].at \in Int /\ sync.row.at \in Int
      /\ newest.at \in Int /\ sync.clean \in BOOLEAN /\ clock \in Nat
      /\ agreed \subseteq Sides /\ sync.step \in {"write there", "write here"}
  BY RowIsDated DEF SyncInv, SyncTypeOK, UpsertProgress
<1>2. PICK to \in Sides : to = Into
  BY DEF Into
<1>3. /\ row' = [row EXCEPT ![to] = sync.row] /\ clock' = clock /\ sync' = NoSync
      /\ newest' = IF row[to] = newest /\ ~sync.clean THEN NoRow ELSE newest
      /\ agreed' = IF sync.clean THEN agreed \cup {to} ELSE agreed
  BY <1>2 DEF UpsertProgress, Reached
<1>4. /\ row' \in [Sides -> ProgressRow]
      /\ \A s \in Sides : row'[s] = IF s = to THEN sync.row ELSE row[s]
  BY <1>1, <1>3
<1>5. SyncTypeOK'
  <2>1. agreed' \subseteq Sides /\ newest' \in ProgressRow
    BY <1>1, <1>3, NothingCarried
  <2> QED
    BY <1>1, <1>3, <1>4, <2>1, NothingCarried DEF SyncTypeOK
<1>6. \A s \in Sides : row'[s].at <= clock'
  BY <1>3, <1>4 DEF SyncInv
<1>7. Carries' /\ sync'.row.at <= clock'
  <2>1. Carries'
    BY <1>3, NothingCarried DEF Carries
  <2>2. sync'.row.at = -1 /\ clock' \in Nat
    BY <1>1, <1>3, NothingCarried
  <2> QED
    BY <2>1, <2>2
<1>8. Agrees'
  <2>1. CASE ~sync.clean
    <3>1. agreed' = {}
      BY <1>3, <2>1 DEF SyncInv, Agrees
    <3> QED
      BY <3>1 DEF Agrees
  <2>2. CASE sync.clean
    <3>1. row'[Server].status = row'[Local].status
      <4>1. CASE sync.step = "write there"
        <5>1. to = Server /\ sync.row.status = row[Local].status
          BY <1>2, <2>2, <4>1 DEF SyncInv, Carries, Into
        <5> QED
          BY <1>4, <5>1
      <4>2. CASE sync.step = "write here"
        <5>1. to = Local /\ sync.row = row[Server]
          BY <1>2, <2>2, <4>2 DEF SyncInv, Carries, Into
        <5> QED
          BY <1>4, <5>1
      <4> QED
        BY <1>1, <4>1, <4>2
    <3> QED
      BY <1>3, <3>1, NothingCarried DEF Agrees
  <2> QED
    BY <1>1, <2>1, <2>2
<1>9. NewestIsThere'
  <2> SUFFICES ASSUME newest' # NoRow
               PROVE  /\ \E s \in Sides : row'[s] = newest'
                      /\ \A s \in Sides : row'[s].at <= newest'.at
                      /\ sync'.row.at <= newest'.at
    BY DEF NewestIsThere
  <2>1. newest' = newest /\ newest # NoRow
    BY <1>3
  <2>2. row[to] # newest
    <3>1. SUFFICES ASSUME row[to] = newest, sync.clean PROVE FALSE
      BY <1>3, <2>1
    <3>2. Wins(sync.row, row[to])
      BY <1>1, <1>2, <3>1 DEF SyncInv, Carries
    <3>3. sync.row.at <= newest.at
      BY <2>1 DEF SyncInv, NewestIsThere
    <3>4. newest.at < sync.row.at
      BY <2>1, <3>1, <3>2 DEF Wins
    <3>5. newest.at \in Int /\ sync.row.at \in Int
      BY <1>1
    <3> QED
      BY ONLY <3>3, <3>4, <3>5
  <2>3. PICK s \in Sides : row[s] = newest
    BY <2>1 DEF SyncInv, NewestIsThere
  <2>4. row'[s] = newest'
    BY <1>4, <2>1, <2>2, <2>3
  <2>5. \A h \in Sides : row'[h].at <= newest.at
    BY <1>4, <2>1 DEF SyncInv, NewestIsThere
  <2>6. sync'.row.at <= newest.at
    BY <1>1, <1>3, NothingCarried, RowIsDated
  <2> QED
    BY <2>1, <2>3, <2>4, <2>5, <2>6
<1> QED
  BY <1>5, <1>6, <1>7, <1>8, <1>9 DEF SyncInv

LEMMA SyncStarts == SyncInit => SyncInv
<1> SUFFICES ASSUME SyncInit PROVE SyncInv
  OBVIOUS
<1>1. /\ clock = 0 /\ row = [s \in Sides |-> NoRow] /\ sync = NoSync
      /\ agreed = {} /\ newest = NoRow
  BY DEF SyncInit
<1>2. SyncTypeOK
  BY <1>1, NothingCarried DEF SyncTypeOK
<1>3. (\A s \in Sides : row[s].at <= clock) /\ sync.row.at <= clock
  <2>1. -1 <= 0
    OBVIOUS
  <2> QED
    BY <1>1, <2>1, NothingCarried
<1>4. Carries /\ Agrees /\ NewestIsThere
  BY <1>1, NothingCarried DEF Carries, Agrees, NewestIsThere
<1> QED
  BY <1>2, <1>3, <1>4 DEF SyncInv

LEMMA SyncSteps == SyncInv /\ [SyncNext]_syncVars => SyncInv'
<1> SUFFICES ASSUME SyncInv, [SyncNext]_syncVars PROVE SyncInv'
  OBVIOUS
<1>1. CASE UNCHANGED syncVars
  BY <1>1 DEF syncVars, SyncInv, SyncTypeOK, Carries, Agrees, NewestIsThere, Into
<1>2. CASE Ticks
  <2>1. /\ clock' = clock + 1 /\ clock \in Nat /\ sync.row.at \in Int
        /\ \A s \in Sides : row[s].at \in Int
        /\ UNCHANGED <<row, sync, agreed, newest>>
    BY <1>2, RowIsDated DEF Ticks, SyncInv, SyncTypeOK
  <2>2. (\A s \in Sides : row'[s].at <= clock') /\ sync'.row.at <= clock'
    BY <2>1 DEF SyncInv
  <2>3. SyncTypeOK'
    <3>1. clock' \in Nat
      BY <2>1
    <3> QED
      BY <2>1, <3>1, <1>2 DEF SyncInv, SyncTypeOK, Ticks
  <2>4. Carries'
    BY <2>1 DEF SyncInv, Carries, Into
  <2>5. Agrees' /\ NewestIsThere'
    BY <2>1 DEF SyncInv, Agrees, NewestIsThere
  <2> QED
    BY <2>2, <2>3, <2>4, <2>5 DEF SyncInv
<1>3. CASE SyncFails
  <2>1. sync' = NoSync /\ UNCHANGED <<clock, row, agreed, newest>>
    BY <1>3 DEF SyncFails
  <2>2. Agrees' /\ agreed' \subseteq Sides
    BY <2>1, NothingCarried DEF SyncInv, SyncTypeOK, Agrees
  <2> QED
    BY <2>1, <2>2, SyncRests
<1>4. ASSUME NEW s \in Sides, Opens(s) \/ Lights(s) PROVE SyncInv'
  BY <1>4, SyncLearns DEF Opens, Lights
<1> QED
  BY <1>1, <1>2, <1>3, <1>4, SyncBegins, SyncCompares, SyncWrites DEF SyncNext

\* The inductive invariant of the sync, with the types of its variables.
THEOREM SyncInvariant == SyncSpec => []SyncInv
<1>1. SyncInit => SyncInv
  BY SyncStarts
<1>2. SyncInv /\ [SyncNext]_syncVars => SyncInv'
  BY SyncSteps
<1> QED
  BY <1>1, <1>2, PTL DEF SyncSpec

\* A push and a pull that nobody's learning came between leave both sides
\* with what the learner did last, however long the clock runs.
THEOREM SyncAgrees == SyncSpec => []SyncConverges
<1>1. SyncInv => SyncConverges
  <2> SUFFICES ASSUME SyncInv, agreed = Sides PROVE SyncConverges
    BY DEF SyncConverges
  <2> USE SyncAssumption
  <2>1. row[Local].at \in Int /\ row[Server].at \in Int
    BY RowIsDated DEF SyncInv, SyncTypeOK
  <2>2. \/ row[Server].status = row[Local].status
        \/ row[Server].at >= Seconds(row[Local].at) /\ row[Local].at >= row[Server].at
    BY DEF SyncInv, Agrees
  <2>3. \/ row[Local].status = row[Server].status
        \/ Seconds(row[Local].at) = Seconds(row[Server].at)
    BY <2>1, <2>2, SameSecond
  <2>4. newest # NoRow => \E s \in Sides : row[s] = newest
    BY DEF SyncInv, NewestIsThere
  <2> QED
    BY <2>3, <2>4 DEF SyncConverges
<1> QED
  BY <1>1, SyncInvariant, PTL

(***************************************************************************)
(* LearnerProfile.                                                         *)
(***************************************************************************)
Covered == SUBSET (Lessons \cup {"sentence", "anew"})

ProfileTypeOK ==
  /\ now \in Nat /\ owned \in BOOLEAN /\ dropped \in BOOLEAN
  /\ summary \in [of : Covered, at : Nat \cup {-1}]
  /\ refresh \in [Lessons -> [at : {"idle", "start", "think", "store", "stored", "given up"},
                              base : Covered, ended : Nat]]
  /\ profile \in Covered
  /\ edit \in [at : {"idle", "merge", "move", "cut"}, base : Covered, ended : Nat]
  /\ overtook \subseteq Lessons

\* The nodes whose refresh met nobody.
Alone == {n \in Lessons : refresh[n].at = "stored"} \ overtook

\* A refresh that is under way has read all of them, or has met somebody.
SummaryKept ==
  /\ owned => /\ Alone \subseteq summary.of
              /\ \A n \in Refreshing : Alone \subseteq refresh[n].base
              /\ edit.at = "move" => Alone = {} /\ Refreshing \subseteq overtook
  /\ \A m, n \in Refreshing : m # n => {m, n} \subseteq overtook

\* While nobody met it, the sentence is where the step of the migration says.
SentenceCarried ==
  owned /\ ~dropped =>
    /\ "sentence" \in profile \cup summary.of
    /\ edit.at = "move" => /\ Refreshing = {} /\ summary.of = {}
                           /\ "sentence" \in profile \cap edit.base
    /\ edit.at = "cut" => "sentence" \in summary.of
    /\ edit.at = "merge" => "sentence" \in edit.base \cup summary.of
    /\ \A n \in Refreshing : "sentence" \in refresh[n].base <=> "sentence" \in summary.of

ProfileInv ==
  /\ ProfileTypeOK
  /\ summary.of = {} => summary.at = -1
  /\ SummaryKept /\ SentenceCarried

LEMMA NewerKeeps ==
  ASSUME ProfileTypeOK, NEW ended \in Nat, NEW of \in Covered, NEW s, s = Newer(ended, of)
  PROVE  /\ s \in [of : Covered, at : Nat \cup {-1}]
         /\ ended > summary.at => s.of = of /\ s.at # -1
         /\ ~(ended > summary.at) => s = summary
<1>1. summary \in [of : Covered, at : Nat \cup {-1}]
  BY DEF ProfileTypeOK
<1>2. CASE ended > summary.at
  <2>1. s = [of |-> of, at |-> ended] /\ ended # -1
    BY <1>2 DEF Newer
  <2> QED
    BY <1>2, <2>1
<1>3. CASE ~(ended > summary.at)
  BY <1>1, <1>3 DEF Newer
<1> QED
  BY <1>2, <1>3

\* What the text of the course is about, when a refresh of n has moved and the
\* profile and its editors have not.
LEMMA GlobalStands ==
  ASSUME ProfileInv, UNCHANGED <<profile, edit, owned, dropped>>,
         owned /\ ~dropped =>
           /\ "sentence" \in summary.of => "sentence" \in summary'.of
           /\ edit.at = "move" => Refreshing' = {} /\ summary'.of = {}
           /\ \A n \in Refreshing' :
                "sentence" \in refresh'[n].base <=> "sentence" \in summary'.of
  PROVE  SentenceCarried'
BY DEF ProfileInv, SentenceCarried

\* The text of the course has not moved.
LEMMA CourseStands ==
  ASSUME ProfileInv, UNCHANGED <<courseText, owned>>,
         edit'.at = "move" => edit.at = "move"
  PROVE  SummaryKept' /\ Refreshing' = Refreshing /\ (summary'.of = {} => summary'.at = -1)
<1>1. summary' = summary /\ refresh' = refresh /\ overtook' = overtook
  BY DEF courseText
<1>2. Alone' = Alone /\ Refreshing' = Refreshing
  BY <1>1 DEF Alone, Refreshing
<1> QED
  BY <1>1, <1>2 DEF ProfileInv, SummaryKept

\* A refresh that starts or ends; a text is not stored.
LEMMA RefreshMoves ==
  ASSUME ProfileInv, NEW n \in Lessons,
         NEW entry \in [at : {"idle", "start", "think", "store", "stored", "given up"},
                      base : Covered, ended : Nat],
         refresh' = [refresh EXCEPT ![n] = entry],
         refresh[n].at # "stored", entry.at # "stored",
         entry.at \in {"think", "store"} =>
           n \in Refreshing /\ entry.base = refresh[n].base,
         UNCHANGED <<now, owned, summary, overtook, globalText>>
  PROVE  ProfileInv'
<1>1. /\ refresh' \in [Lessons -> [at : {"idle", "start", "think", "store", "stored",
                                         "given up"},
                                   base : Covered, ended : Nat]]
      /\ \A m \in Lessons : refresh'[m] = IF m = n THEN entry ELSE refresh[m]
  BY DEF ProfileInv, ProfileTypeOK
<1>2. UNCHANGED <<now, owned, summary, overtook, profile, edit, dropped>>
  BY DEF globalText
<1>3. ProfileTypeOK'
  BY <1>1, <1>2 DEF ProfileInv, ProfileTypeOK
<1>4. /\ Refreshing' \subseteq Refreshing
      /\ \A m \in Refreshing' : refresh'[m].base = refresh[m].base
  BY <1>1 DEF Refreshing
<1>5. Alone' = Alone
  BY <1>1, <1>2 DEF Alone
<1>6. SummaryKept'
  <2>1. \A m \in Refreshing' : m \in Refreshing /\ refresh'[m].base = refresh[m].base
    BY <1>4
  <2>2. \A m \in Refreshing' : owned => Alone' \subseteq refresh'[m].base
    BY <1>5, <2>1 DEF ProfileInv, SummaryKept
  <2>3. \A m, k \in Refreshing' : m # k => {m, k} \subseteq overtook'
    BY <1>2, <2>1 DEF ProfileInv, SummaryKept
  <2>4. owned /\ edit.at = "move" => Alone' = {} /\ Refreshing' \subseteq overtook'
    BY <1>2, <1>5, <2>1 DEF ProfileInv, SummaryKept
  <2>5. owned => Alone' \subseteq summary'.of
    BY <1>2, <1>5 DEF ProfileInv, SummaryKept
  <2>6. owned' = owned /\ edit' = edit
    BY <1>2
  <2> HIDE DEF Alone, Refreshing
  <2> QED
    BY ONLY <2>2, <2>3, <2>4, <2>5, <2>6 DEF SummaryKept
<1>7. SentenceCarried'
  BY <1>2, <1>4, GlobalStands DEF ProfileInv, SentenceCarried
<1> QED
  BY <1>2, <1>3, <1>6, <1>7 DEF ProfileInv

LEMMA SummaryRead ==
  ASSUME ProfileInv, NEW n \in Lessons, ReadsSummary(n)
  PROVE  ProfileInv'
<1>1. PICK entry : entry = [refresh[n] EXCEPT !.at = "think", !.base = summary.of]
  OBVIOUS
<1>2. /\ entry \in [at : {"idle", "start", "think", "store", "stored", "given up"},
                  base : Covered, ended : Nat]
      /\ entry.base = summary.of /\ entry.at = "think"
  BY <1>1 DEF ProfileInv, ProfileTypeOK
<1>3. /\ refresh' = [refresh EXCEPT ![n] = entry] /\ refresh[n].at = "start" /\ owned
      /\ dropped' = (dropped \/ edit.at = "move")
      /\ UNCHANGED <<now, owned, summary, profile, edit>>
  BY <1>1 DEF ReadsSummary
<1>4. overtook' = IF Refreshing # {} \/ edit.at = "move"
                  THEN overtook \cup Refreshing \cup {n} ELSE overtook
  BY DEF ReadsSummary
<1>5. /\ refresh' \in [Lessons -> [at : {"idle", "start", "think", "store", "stored",
                                         "given up"},
                                   base : Covered, ended : Nat]]
      /\ \A m \in Lessons : refresh'[m] = IF m = n THEN entry ELSE refresh[m]
  BY <1>2, <1>3 DEF ProfileInv, ProfileTypeOK
<1>6. ProfileTypeOK'
  <2>1. overtook' \subseteq Lessons /\ dropped' \in BOOLEAN
    BY <1>3, <1>4 DEF ProfileInv, ProfileTypeOK, Refreshing
  <2> QED
    BY <1>3, <1>5, <2>1 DEF ProfileInv, ProfileTypeOK
<1>7. Refreshing' = Refreshing \cup {n} /\ n \notin Refreshing
  BY <1>2, <1>3, <1>5 DEF Refreshing
<1>8. Alone' \subseteq Alone /\ overtook \subseteq overtook'
  BY <1>2, <1>3, <1>4, <1>5 DEF Alone
<1>9. SummaryKept'
  <2>1. \A m \in Refreshing' : Alone' \subseteq refresh'[m].base
    BY <1>2, <1>3, <1>5, <1>7, <1>8 DEF ProfileInv, SummaryKept, Refreshing
  <2>2. edit'.at = "move" => Alone' = {} /\ Refreshing' \subseteq overtook'
    BY <1>3, <1>4, <1>7, <1>8 DEF ProfileInv, SummaryKept
  <2>3. \A m, k \in Refreshing' : m # k => {m, k} \subseteq overtook'
    BY <1>4, <1>7 DEF ProfileInv, SummaryKept
  <2> QED
    BY <1>3, <1>8, <2>1, <2>2, <2>3 DEF ProfileInv, SummaryKept
<1>10. SentenceCarried'
  BY <1>2, <1>3, <1>5, <1>7 DEF ProfileInv, SentenceCarried, Refreshing
<1> QED
  BY <1>3, <1>6, <1>9, <1>10 DEF ProfileInv

LEMMA SummaryStored ==
  ASSUME ProfileInv, NEW n \in Lessons, UpsertDomainProfile(n)
  PROVE  ProfileInv'
<1> DEFINE ended == refresh[n].ended
           of == refresh[n].base \cup {n}
<1>1. /\ n \in Refreshing /\ summary' = Newer(ended, of)
      /\ overtook' = IF ended > summary.at THEN overtook ELSE overtook \cup {n}
      /\ refresh' = [refresh EXCEPT ![n] = [Quiet EXCEPT !.at = "stored"]]
      /\ UNCHANGED <<now, owned, profile, edit, dropped>>
  BY DEF UpsertDomainProfile, Refreshing, globalText
<1>2. /\ ended \in Nat /\ of \in Covered /\ n \in of
      /\ summary.at \in Nat \cup {-1}
  BY DEF ProfileInv, ProfileTypeOK, Covered
<1> HIDE DEF ended, of
<1>3. /\ summary' \in [of : Covered, at : Nat \cup {-1}]
      /\ ended > summary.at => summary'.of = of /\ summary'.at # -1
      /\ ~(ended > summary.at) => summary' = summary
  BY <1>1, <1>2, NewerKeeps DEF ProfileInv
<1>4. PICK entry : entry = [Quiet EXCEPT !.at = "stored"]
  OBVIOUS
<1>5. /\ entry \in [at : {"idle", "start", "think", "store", "stored", "given up"},
                  base : Covered, ended : Nat]
      /\ entry.at = "stored"
  BY <1>4 DEF Quiet, Covered
<1>6. /\ refresh' \in [Lessons -> [at : {"idle", "start", "think", "store", "stored",
                                         "given up"},
                                   base : Covered, ended : Nat]]
      /\ \A m \in Lessons : refresh'[m] = IF m = n THEN entry ELSE refresh[m]
  BY <1>1, <1>4, <1>5 DEF ProfileInv, ProfileTypeOK
<1>7. ProfileTypeOK'
  <2>1. overtook' \subseteq Lessons
    BY <1>1 DEF ProfileInv, ProfileTypeOK
  <2> QED
    BY <1>1, <1>3, <1>6, <2>1 DEF ProfileInv, ProfileTypeOK
<1>8. Refreshing' = Refreshing \ {n}
  BY <1>5, <1>6 DEF Refreshing
<1>9. Alone' \subseteq Alone \cup {n} /\ overtook \subseteq overtook'
  BY <1>1, <1>5, <1>6 DEF Alone
<1>10. Refreshing' # {} \/ ~(ended > summary.at) => n \in overtook' /\ Alone' \subseteq Alone
  <2>1. Refreshing' # {} \/ ~(ended > summary.at) => n \in overtook'
    BY <1>1, <1>8 DEF ProfileInv, SummaryKept
  <2> QED
    BY <1>9, <2>1 DEF Alone
<1>11. SummaryKept'
  <2>1. ASSUME owned PROVE Alone' \subseteq summary'.of
    <3>1. Alone \subseteq summary.of /\ Alone \cup {n} \subseteq of
      BY <1>1, <2>1 DEF ProfileInv, SummaryKept, of
    <3>2. CASE ended > summary.at
      BY <1>3, <1>9, <3>1, <3>2
    <3>3. CASE ~(ended > summary.at)
      BY <1>3, <1>10, <3>1, <3>3
    <3> QED
      BY <3>2, <3>3
  <2>2. ASSUME owned, NEW m \in Refreshing' PROVE Alone' \subseteq refresh'[m].base
    BY <1>6, <1>8, <1>10, <2>2 DEF ProfileInv, SummaryKept, Refreshing
  <2>3. ASSUME owned, edit.at = "move" PROVE Alone' = {} /\ Refreshing' \subseteq overtook'
    <3>1. n \in overtook' /\ Alone = {}
      BY <1>1, <1>9, <2>3 DEF ProfileInv, SummaryKept
    <3>2. Alone' \subseteq Alone
      BY <1>9, <3>1 DEF Alone
    <3> QED
      BY <1>8, <1>9, <2>3, <3>1, <3>2 DEF ProfileInv, SummaryKept
  <2>4. \A m, k \in Refreshing' : m # k => {m, k} \subseteq overtook'
    BY <1>8, <1>9 DEF ProfileInv, SummaryKept
  <2> QED
    BY <1>1, <2>1, <2>2, <2>3, <2>4 DEF SummaryKept
<1>12. SentenceCarried'
  <2>2. ASSUME owned, ~dropped
        PROVE  "sentence" \in summary'.of <=> "sentence" \in summary.of
    <3>1. "sentence" \in of <=> "sentence" \in summary.of
      BY <1>1, <2>2, ProfileAssumption DEF ProfileInv, SentenceCarried, of
    <3> QED
      BY <1>3, <3>1
  <2>1. owned /\ ~dropped => edit.at # "move"
    BY <1>1 DEF ProfileInv, SentenceCarried
  <2>3. \A m \in Refreshing' : m \in Refreshing /\ refresh'[m] = refresh[m]
    BY <1>6, <1>8 DEF Refreshing
  <2>4. ASSUME owned, ~dropped, NEW m \in Refreshing'
        PROVE  "sentence" \in refresh'[m].base <=> "sentence" \in summary'.of
    BY <2>2, <2>3, <2>4 DEF ProfileInv, SentenceCarried
  <2> QED
    BY <1>1, <2>1, <2>2, <2>4, GlobalStands
<1>13. summary'.of = {} => summary'.at = -1
  BY <1>2, <1>3 DEF ProfileInv
<1> QED
  BY <1>7, <1>11, <1>12, <1>13 DEF ProfileInv

LEMMA CourseIsGone ==
  ASSUME ProfileInv, CourseGoes
  PROVE  ProfileInv'
<1>1. /\ owned' = FALSE /\ summary' = NoSummary
      /\ UNCHANGED <<now, refresh, overtook, profile, edit, dropped>>
  BY DEF CourseGoes, globalText
<1>2. NoSummary \in [of : Covered, at : Nat \cup {-1}] /\ NoSummary.at = -1
  BY DEF NoSummary, Covered
<1>3. ProfileTypeOK'
  BY <1>1, <1>2 DEF ProfileInv, ProfileTypeOK
<1>4. Refreshing' = Refreshing
  BY <1>1 DEF Refreshing
<1>5. SummaryKept' /\ SentenceCarried'
  BY <1>1, <1>4 DEF ProfileInv, SummaryKept, SentenceCarried
<1> QED
  BY <1>1, <1>2, <1>3, <1>5 DEF ProfileInv

\* The profile changes, or one of its editors moves.
LEMMA ProfileMoves ==
  ASSUME ProfileInv, UNCHANGED <<now, owned, courseText>>,
         profile' \in Covered, dropped' \in BOOLEAN,
         edit' \in [at : {"idle", "merge", "move", "cut"}, base : Covered, ended : Nat],
         edit'.at = "move" => edit.at = "move",
         owned /\ ~dropped' =>
           /\ ~dropped
           /\ "sentence" \in profile' \cup summary.of
           /\ edit'.at = "move" => "sentence" \in profile' \cap edit'.base
           /\ edit'.at = "cut" => edit.at = "cut"
           /\ edit'.at = "merge" => "sentence" \in edit'.base \cup summary.of
  PROVE  ProfileInv'
<1>1. summary' = summary /\ refresh' = refresh /\ overtook' = overtook
  BY DEF courseText
<1>2. ProfileTypeOK'
  BY <1>1 DEF ProfileInv, ProfileTypeOK
<1>3. SummaryKept' /\ Refreshing' = Refreshing /\ (summary'.of = {} => summary'.at = -1)
  BY CourseStands
<1>4. SentenceCarried'
  BY <1>1, <1>3 DEF ProfileInv, SentenceCarried
<1> QED
  BY <1>2, <1>3, <1>4 DEF ProfileInv

LEMMA QuietIsEdit ==
  Quiet \in [at : {"idle", "merge", "move", "cut"}, base : Covered, ended : Nat]
  /\ Quiet.at = "idle"
BY DEF Quiet, Covered

LEMMA ProfileEdited ==
  ASSUME ProfileInv,
         \/ completeUserOnboarding \/ InitProfileFromOnboarding \/ UpdateUserProfile
         \/ ReadsProfile \/ RefineUserProfile \/ MigrateUserProfile
  PROVE  ProfileInv'
<1>1. /\ profile \in Covered /\ dropped \in BOOLEAN /\ {"anew"} \in Covered
      /\ edit \in [at : {"idle", "merge", "move", "cut"}, base : Covered, ended : Nat]
      /\ edit.base \in Covered /\ edit.base \ {"sentence"} \in Covered
  BY DEF ProfileInv, ProfileTypeOK, Covered
<1>2. CASE completeUserOnboarding
  BY <1>1, <1>2, ProfileMoves DEF completeUserOnboarding, ProfileInv, SentenceCarried
<1>3. CASE InitProfileFromOnboarding
  <2>1. /\ UNCHANGED <<now, owned, courseText, edit>>
        /\ \/ profile' = {"anew"} /\ dropped' = TRUE
           \/ profile' = profile /\ dropped' = dropped
    BY <1>3 DEF InitProfileFromOnboarding
  <2> QED
    BY <1>1, <2>1, ProfileMoves DEF ProfileInv, SentenceCarried
<1>4. CASE UpdateUserProfile
  BY <1>1, <1>4, ProfileMoves DEF UpdateUserProfile
<1>5. CASE ReadsProfile
  <2>1. PICK e : e = [edit EXCEPT !.at = "merge", !.base = profile]
    OBVIOUS
  <2>2. /\ e \in [at : {"idle", "merge", "move", "cut"}, base : Covered, ended : Nat]
        /\ e.at = "merge" /\ e.base = profile
    BY <1>1, <2>1
  <2>3. edit' = e /\ UNCHANGED <<now, owned, courseText, profile, dropped>>
    BY <1>5, <2>1 DEF ReadsProfile
  <2> QED
    BY <1>1, <2>2, <2>3, ProfileMoves DEF ProfileInv, SentenceCarried
<1>6. CASE RefineUserProfile
  <2>1. /\ edit.at = "merge" /\ profile' \in {profile, edit.base} /\ edit' = Quiet
        /\ UNCHANGED <<now, owned, courseText, dropped>>
    BY <1>6 DEF RefineUserProfile
  <2> QED
    BY <1>1, <2>1, QuietIsEdit, ProfileMoves DEF ProfileInv, SentenceCarried
<1>7. CASE MigrateUserProfile
  <2>1. /\ edit.at \in {"move", "cut"} /\ edit' = Quiet
        /\ UNCHANGED <<now, owned, courseText, dropped>>
    BY <1>7 DEF MigrateUserProfile
  <2>2. \/ profile' = profile
        \/ edit.at = "cut" /\ profile' = edit.base \ {"sentence"}
        \/ edit.at = "move" /\ profile' = edit.base
    BY <2>1, <1>7 DEF MigrateUserProfile
  <2>3. profile' \in Covered
    BY <1>1, <2>2
  <2>4. owned /\ ~dropped => "sentence" \in profile' \cup summary.of
    <3>1. owned /\ ~dropped => "sentence" \in profile \cup summary.of
      BY DEF ProfileInv, SentenceCarried
    <3>2. owned /\ ~dropped /\ edit.at = "cut" => "sentence" \in summary.of
      BY DEF ProfileInv, SentenceCarried
    <3>3. owned /\ ~dropped /\ edit.at = "move" => "sentence" \in edit.base
      BY DEF ProfileInv, SentenceCarried
    <3> QED
      BY <2>2, <3>1, <3>2, <3>3
  <2> QED
    BY <1>1, <2>1, <2>3, <2>4, QuietIsEdit, ProfileMoves
<1> QED
  BY <1>2, <1>3, <1>4, <1>5, <1>6, <1>7

LEMMA SentenceTaken ==
  ASSUME ProfileInv, MigrateReads
  PROVE  ProfileInv'
<1>1. PICK e : e = [edit EXCEPT !.at = "move", !.base = profile]
  OBVIOUS
<1>2. /\ e \in [at : {"idle", "merge", "move", "cut"}, base : Covered, ended : Nat]
      /\ e.at = "move" /\ e.base = profile
  BY <1>1 DEF ProfileInv, ProfileTypeOK
<1>3. /\ owned /\ "sentence" \in profile /\ edit' = e
      /\ overtook' = overtook \cup Refreshing \cup (summary.of \cap Lessons)
      /\ UNCHANGED <<now, owned, summary, refresh, profile>>
  BY <1>1 DEF MigrateReads
<1>0. \/ summary.of = {} /\ dropped' = (dropped \/ Refreshing # {})
      \/ summary.of # {} /\ dropped' = TRUE
  BY DEF MigrateReads
<1>4. ProfileTypeOK'
  <2>1. overtook' \subseteq Lessons
    BY <1>3 DEF ProfileInv, ProfileTypeOK, Refreshing
  <2>2. dropped' \in BOOLEAN
    BY <1>0 DEF ProfileInv, ProfileTypeOK
  <2> QED
    BY <1>2, <1>3, <2>1, <2>2 DEF ProfileInv, ProfileTypeOK
<1>5. /\ Refreshing' = Refreshing /\ Alone' \subseteq Alone
      /\ Alone' \cap summary.of = {}
  BY <1>3 DEF Refreshing, Alone
<1>6. Alone' = {}
  BY <1>3, <1>5 DEF ProfileInv, SummaryKept
<1>7. SummaryKept'
  BY <1>3, <1>5, <1>6 DEF ProfileInv, SummaryKept
<1>8. SentenceCarried'
  <2>1. ~dropped' => ~dropped /\ summary.of = {} /\ Refreshing = {}
    BY <1>0
  <2> QED
    BY <1>2, <1>3, <1>5, <2>1 DEF ProfileInv, SentenceCarried
<1> QED
  BY <1>3, <1>4, <1>7, <1>8 DEF ProfileInv

LEMMA SentenceMoved ==
  ASSUME ProfileInv, MigrateStores
  PROVE  ProfileInv'
<1>1. PICK e : e = [edit EXCEPT !.at = "cut"]
  OBVIOUS
<1>2. /\ e \in [at : {"idle", "merge", "move", "cut"}, base : Covered, ended : Nat]
      /\ e.at = "cut"
  BY <1>1 DEF ProfileInv, ProfileTypeOK
<1>3. /\ edit.at = "move" /\ edit' = e
      /\ UNCHANGED <<now, owned, refresh, overtook, profile>>
  BY <1>1 DEF MigrateStores
<1>0. \/ /\ summary' = IF owned THEN Newer(now, {"sentence"}) ELSE summary
         /\ dropped' = dropped
      \/ summary' = summary /\ dropped' = TRUE
  BY DEF MigrateStores
<1>4. {"sentence"} \in Covered /\ now \in Nat
  BY DEF ProfileInv, ProfileTypeOK, Covered
<1>5. /\ summary' \in [of : Covered, at : Nat \cup {-1}] /\ dropped' \in BOOLEAN
      /\ summary' = summary \/ (summary'.of = {"sentence"} /\ owned)
      /\ owned /\ now > summary.at /\ ~dropped' => ~dropped /\ summary'.of = {"sentence"}
  <2>0. summary \in [of : Covered, at : Nat \cup {-1}] /\ dropped \in BOOLEAN
    BY DEF ProfileInv, ProfileTypeOK
  <2>1. PICK s : s = Newer(now, {"sentence"})
    OBVIOUS
  <2>2. /\ s \in [of : Covered, at : Nat \cup {-1}]
        /\ now > summary.at => s.of = {"sentence"} /\ s.at # -1
        /\ ~(now > summary.at) => s = summary
    BY <1>4, <2>1, NewerKeeps DEF ProfileInv
  <2>3. CASE owned /\ summary' = s /\ dropped' = dropped
    BY <2>0, <2>2, <2>3
  <2>4. CASE (~owned \/ dropped' = TRUE) /\ summary' = summary /\ dropped' \in {dropped, TRUE}
    BY <2>0, <2>4
  <2> QED
    BY <1>0, <2>1, <2>3, <2>4
<1>6. ProfileTypeOK'
  BY <1>2, <1>3, <1>5 DEF ProfileInv, ProfileTypeOK
<1>7. Refreshing' = Refreshing /\ Alone' = Alone
  BY <1>3 DEF Refreshing, Alone
<1>8. SummaryKept'
  BY <1>2, <1>3, <1>5, <1>7 DEF ProfileInv, SummaryKept
<1>9. SentenceCarried'
  <2>1. ASSUME owned, ~dropped' PROVE summary'.of = {"sentence"} /\ Refreshing = {}
    <3>0. ~dropped
      BY <1>0, <2>1
    <3>1. summary.at = -1 /\ Refreshing = {}
      BY <1>3, <2>1, <3>0 DEF ProfileInv, SentenceCarried
    <3> QED
      BY <1>4, <1>5, <2>1, <3>1
  <2> QED
    BY <1>2, <1>3, <1>7, <2>1 DEF SentenceCarried
<1>10. summary'.of = {} => summary'.at = -1
  BY <1>5 DEF ProfileInv
<1> QED
  BY <1>6, <1>8, <1>9, <1>10 DEF ProfileInv

LEMMA ProfileStarts == ProfileInit => ProfileInv
<1> SUFFICES ASSUME ProfileInit PROVE ProfileInv
  OBVIOUS
<1>1. /\ now = 0 /\ owned = TRUE /\ summary = NoSummary /\ profile = {"sentence"}
      /\ refresh = [n \in Lessons |-> Quiet] /\ edit = Quiet
      /\ overtook = {} /\ dropped = FALSE
  BY DEF ProfileInit
<1>2. Quiet.at = "idle" /\ Quiet.base = {} /\ Quiet.ended = 0 /\ NoSummary.of = {} /\ NoSummary.at = -1
  BY DEF Quiet, NoSummary
<1>3. ProfileTypeOK
  BY <1>1 DEF ProfileTypeOK, Quiet, NoSummary, Covered
<1>4. Refreshing = {} /\ Alone = {}
  BY <1>1, <1>2 DEF Refreshing, Alone
<1> QED
  BY <1>1, <1>2, <1>3, <1>4 DEF ProfileInv, SummaryKept, SentenceCarried

LEMMA ProfileSteps == ProfileInv /\ [ProfileNext]_profileVars => ProfileInv'
<1> SUFFICES ASSUME ProfileInv, [ProfileNext]_profileVars PROVE ProfileInv'
  OBVIOUS
<1>1. CASE UNCHANGED profileVars
  <2>1. UNCHANGED <<now, owned, summary, refresh, profile, edit, overtook, dropped, courseText>>
    BY <1>1 DEF profileVars, courseText
  <2>2. ProfileTypeOK'
    BY <2>1 DEF ProfileInv, ProfileTypeOK
  <2>3. SummaryKept' /\ Refreshing' = Refreshing
    BY <2>1, CourseStands
  <2>4. SentenceCarried'
    BY <2>1, <2>3 DEF ProfileInv, SentenceCarried
  <2> QED
    BY <2>1, <2>2, <2>3, <2>4 DEF ProfileInv
<1>2. CASE SecondPasses
  <2>1. UNCHANGED <<owned, summary, refresh, profile, edit, overtook, dropped, courseText>>
    BY <1>2 DEF SecondPasses, courseText, globalText
  <2>0. now' \in Nat
    <3>1. now \in Nat
      BY DEF ProfileInv, ProfileTypeOK
    <3>2. now' = now + 1
      BY <1>2 DEF SecondPasses
    <3> QED
      BY ONLY <3>1, <3>2
  <2>2. ProfileTypeOK'
    BY <2>0, <2>1 DEF ProfileInv, ProfileTypeOK
  <2>3. SummaryKept' /\ Refreshing' = Refreshing
    BY <2>1, CourseStands
  <2>4. SentenceCarried'
    BY <2>1, <2>3 DEF ProfileInv, SentenceCarried
  <2> QED
    BY <2>1, <2>2, <2>3, <2>4 DEF ProfileInv
<1>3. ASSUME NEW n \in Lessons, NodeLit(n) PROVE ProfileInv'
  <2>1. PICK entry : entry = [refresh[n] EXCEPT !.at = "start"]
    OBVIOUS
  <2>2. /\ entry \in [at : {"idle", "start", "think", "store", "stored", "given up"},
                    base : Covered, ended : Nat]
        /\ entry.at = "start"
    BY <2>1 DEF ProfileInv, ProfileTypeOK
  <2>3. /\ refresh' = [refresh EXCEPT ![n] = entry] /\ refresh[n].at = "idle"
        /\ UNCHANGED <<now, owned, summary, overtook, globalText>>
    BY <1>3, <2>1 DEF NodeLit
  <2> QED
    BY <2>2, <2>3, RefreshMoves
<1>4. ASSUME NEW n \in Lessons, RefreshEnds(n) PROVE ProfileInv'
  <2>1. PICK entry : entry = [Quiet EXCEPT !.at = "given up"]
    OBVIOUS
  <2>2. /\ entry \in [at : {"idle", "start", "think", "store", "stored", "given up"},
                    base : Covered, ended : Nat]
        /\ entry.at = "given up"
    BY <2>1 DEF Quiet, Covered
  <2>3. /\ refresh' = [refresh EXCEPT ![n] = entry] /\ refresh[n].at \in {"start", "think"}
        /\ UNCHANGED <<now, owned, summary, overtook, globalText>>
    BY <1>4, <2>1 DEF RefreshEnds
  <2> QED
    BY <2>2, <2>3, RefreshMoves
<1>5. ASSUME NEW n \in Lessons, Summarises(n) PROVE ProfileInv'
  <2>1. PICK entry : entry = [refresh[n] EXCEPT !.at = "store", !.ended = now]
    OBVIOUS
  <2>2. /\ entry \in [at : {"idle", "start", "think", "store", "stored", "given up"},
                    base : Covered, ended : Nat]
        /\ entry.at = "store" /\ entry.base = refresh[n].base
    BY <2>1 DEF ProfileInv, ProfileTypeOK
  <2>3. /\ refresh' = [refresh EXCEPT ![n] = entry] /\ refresh[n].at = "think"
        /\ n \in Refreshing
        /\ UNCHANGED <<now, owned, summary, overtook, globalText>>
    BY <1>5, <2>1 DEF Summarises, Refreshing
  <2> QED
    BY <2>2, <2>3, RefreshMoves
<1> QED
  BY <1>1, <1>2, <1>3, <1>4, <1>5, CourseIsGone, SummaryRead, SummaryStored,
     ProfileEdited, SentenceTaken, SentenceMoved
     DEF ProfileNext

\* The inductive invariant of the profile, with the types of its variables.
THEOREM ProfileInvariant == ProfileSpec => []ProfileInv
<1>1. ProfileInit => ProfileInv
  BY ProfileStarts
<1>2. ProfileInv /\ [ProfileNext]_profileVars => ProfileInv'
  BY ProfileSteps
<1> QED
  BY <1>1, <1>2, PTL DEF ProfileSpec

\* A summary covers every node it was brought up to date for, however many
\* goroutines run, unless one met another writer.
THEOREM SummariesAccumulate == ProfileSpec => []SummaryAccumulates
<1>1. ProfileInv => SummaryAccumulates
  BY DEF ProfileInv, SummaryKept, Alone, SummaryAccumulates
<1> QED
  BY <1>1, ProfileInvariant, PTL

\* The migration of an old profile loses no sentence, wherever it is cut short.
THEOREM SentenceIsKept == ProfileSpec => []SentenceKept
<1>1. ProfileInv => SentenceKept
  BY DEF ProfileInv, SentenceCarried, SentenceKept
<1> QED
  BY <1>1, ProfileInvariant, PTL

(***************************************************************************)
(* AsideThreads.                                                           *)
(***************************************************************************)
LookupSteps == {"idle", "bump", "explain", "answer", "match", "select", "insert", "update",
                "cache", "done"}

AsideTypeOK ==
  /\ card \in [hits : Nat, text : Lookups \cup {"none"}]
  /\ gap \in [state : {"none", "open", "closed"}, hits : Nat, matched : BOOLEAN]
  /\ lookup \in [Lookups -> [at : LookupSteps, text : Lookups \cup {"none"},
                             match : BOOLEAN, old : BOOLEAN]]
  /\ taught \in BOOLEAN
  /\ shown \subseteq Lookups /\ IsFiniteSet(shown)
  /\ recorded \subseteq Lookups /\ IsFiniteSet(recorded)

\* A lookup is counted once, when its card is stored; an answer when it is
\* through with the ledger.
AsideInv ==
  /\ AsideTypeOK
  /\ CountsAreTrue
  /\ \A r \in Lookups :
       /\ r \in shown => lookup[r].at \notin {"idle", "bump", "explain"}
       /\ r \in recorded => lookup[r].at = "done"
       /\ lookup[r].at = "bump" => lookup[r].text \in Lookups

LEMMA OneMore ==
  ASSUME NEW S, IsFiniteSet(S), NEW r
  PROVE  /\ IsFiniteSet(S \cup {r})
         /\ Cardinality(S) \in Nat /\ Cardinality(S \cup {r}) \in Nat
         /\ Cardinality(S) <= Cardinality(S \cup {r})
         /\ r \notin S => Cardinality(S \cup {r}) = Cardinality(S) + 1
<1>1. /\ IsFiniteSet(S \cup {r})
      /\ Cardinality(S \cup {r}) = IF r \in S THEN Cardinality(S) ELSE Cardinality(S) + 1
  BY FS_AddElement
<1>2. Cardinality(S) \in Nat
  BY FS_CardinalityType
<1>3. CASE r \in S
  BY <1>1, <1>2, <1>3
<1>4. CASE r \notin S
  BY <1>1, <1>2, <1>4
<1> QED
  BY <1>3, <1>4

\* A request moves: the entry it becomes.
LEMMA LookupMoves ==
  ASSUME AsideInv, NEW r \in Lookups,
         NEW entry \in [at : LookupSteps, text : Lookups \cup {"none"},
                      match : BOOLEAN, old : BOOLEAN],
         lookup' = [lookup EXCEPT ![r] = entry]
  PROVE  /\ lookup' \in [Lookups -> [at : LookupSteps, text : Lookups \cup {"none"},
                                     match : BOOLEAN, old : BOOLEAN]]
         /\ \A q \in Lookups : lookup'[q] = IF q = r THEN entry ELSE lookup[q]
BY DEF AsideInv, AsideTypeOK

\* A request moves, and neither a card nor a gap counts it.
LEMMA OnlyReads ==
  ASSUME AsideInv, NEW r \in Lookups,
         NEW entry \in [at : LookupSteps, text : Lookups \cup {"none"},
                      match : BOOLEAN, old : BOOLEAN],
         lookup' = [lookup EXCEPT ![r] = entry],
         r \in shown => entry.at \notin {"idle", "bump", "explain"},
         lookup[r].at # "done",
         entry.at = "bump" => entry.text \in Lookups,
         UNCHANGED <<card, gap, taught, shown, recorded>>
  PROVE  AsideInv'
<1>1. /\ lookup' \in [Lookups -> [at : LookupSteps, text : Lookups \cup {"none"},
                                  match : BOOLEAN, old : BOOLEAN]]
      /\ \A q \in Lookups : lookup'[q] = IF q = r THEN entry ELSE lookup[q]
  BY LookupMoves
<1>2. AsideTypeOK'
  BY <1>1 DEF AsideInv, AsideTypeOK
<1>3. CountsAreTrue'
  BY DEF AsideInv, CountsAreTrue
<1> QED
  BY <1>1, <1>2, <1>3 DEF AsideInv

\* Neither the requests nor the card move; the gap counts no more than before.
LEMMA OnlyGap ==
  ASSUME AsideInv, UNCHANGED <<card, lookup, shown, recorded>>,
         taught' \in BOOLEAN,
         gap' \in [state : {"none", "open", "closed"}, hits : Nat, matched : BOOLEAN],
         gap'.hits = gap.hits
  PROVE  AsideInv'
<1>1. AsideTypeOK'
  BY DEF AsideInv, AsideTypeOK
<1>2. CountsAreTrue'
  BY DEF AsideInv, CountsAreTrue
<1> QED
  BY <1>1, <1>2 DEF AsideInv

\* A card is stored, for a request that none was stored for.
LEMMA CardStored ==
  ASSUME AsideInv, NEW r \in Lookups, NEW to \in {"done", "match"}, NEW text \in Lookups,
         lookup[r].at \in {"bump", "explain"},
         lookup' = [lookup EXCEPT ![r].at = to],
         card' = [hits |-> card.hits + 1, text |-> text],
         shown' = shown \cup {r},
         UNCHANGED <<gap, taught, recorded>>
  PROVE  AsideInv'
<1>1. PICK entry : entry = [lookup[r] EXCEPT !.at = to]
  OBVIOUS
<1>2. /\ entry \in [at : LookupSteps, text : Lookups \cup {"none"},
                  match : BOOLEAN, old : BOOLEAN]
      /\ entry.at = to
  BY <1>1 DEF AsideInv, AsideTypeOK, LookupSteps
<1>3. lookup' = [lookup EXCEPT ![r] = entry]
  BY <1>1
<1>4. /\ lookup' \in [Lookups -> [at : LookupSteps, text : Lookups \cup {"none"},
                                  match : BOOLEAN, old : BOOLEAN]]
      /\ \A q \in Lookups : lookup'[q] = IF q = r THEN entry ELSE lookup[q]
  BY <1>2, <1>3, LookupMoves
<1>5. r \notin shown /\ IsFiniteSet(shown) /\ card.hits \in Nat
      /\ card.hits = Cardinality(shown)
  BY DEF AsideInv, AsideTypeOK, CountsAreTrue
<1>6. IsFiniteSet(shown') /\ Cardinality(shown') = card.hits + 1
  BY <1>5, OneMore
<1>7. card' \in [hits : Nat, text : Lookups \cup {"none"}]
  BY <1>5
<1>8. AsideTypeOK'
  BY <1>4, <1>6, <1>7 DEF AsideInv, AsideTypeOK
<1>9. CountsAreTrue'
  BY <1>6 DEF AsideInv, CountsAreTrue
<1>10. r \notin recorded
  BY DEF AsideInv
<1> QED
  BY <1>2, <1>4, <1>8, <1>9, <1>10 DEF AsideInv

\* An answer is through with the ledger: at most one hit more, for a request
\* that none was counted for.
LEMMA GapCounted ==
  ASSUME AsideInv, NEW r \in Lookups,
         lookup[r].at \in {"insert", "update"},
         lookup' = [lookup EXCEPT ![r].at = "done"],
         gap' \in [state : {"none", "open", "closed"}, hits : Nat, matched : BOOLEAN],
         gap'.hits \in {1, gap.hits, gap.hits + 1},
         recorded' = recorded \cup {r},
         UNCHANGED <<card, taught, shown>>
  PROVE  AsideInv'
<1>1. PICK entry : entry = [lookup[r] EXCEPT !.at = "done"]
  OBVIOUS
<1>2. /\ entry \in [at : LookupSteps, text : Lookups \cup {"none"},
                  match : BOOLEAN, old : BOOLEAN]
      /\ entry.at = "done"
  BY <1>1 DEF AsideInv, AsideTypeOK, LookupSteps
<1>3. lookup' = [lookup EXCEPT ![r] = entry]
  BY <1>1
<1>4. /\ lookup' \in [Lookups -> [at : LookupSteps, text : Lookups \cup {"none"},
                                  match : BOOLEAN, old : BOOLEAN]]
      /\ \A q \in Lookups : lookup'[q] = IF q = r THEN entry ELSE lookup[q]
  BY <1>2, <1>3, LookupMoves
<1>5. /\ r \notin recorded /\ IsFiniteSet(recorded) /\ gap.hits \in Nat
      /\ gap.hits <= Cardinality(recorded)
  BY DEF AsideInv, AsideTypeOK, CountsAreTrue
<1>6. /\ IsFiniteSet(recorded') /\ Cardinality(recorded) \in Nat
      /\ Cardinality(recorded') = Cardinality(recorded) + 1
  BY <1>5, OneMore
<1>7. gap'.hits <= Cardinality(recorded')
  BY <1>5, <1>6
<1>8. AsideTypeOK'
  BY <1>4, <1>6 DEF AsideInv, AsideTypeOK
<1>9. CountsAreTrue'
  BY <1>7 DEF AsideInv, CountsAreTrue
<1> QED
  BY <1>2, <1>4, <1>8, <1>9 DEF AsideInv

LEMMA ReadsSteps ==
  ASSUME AsideInv, NEW r \in Lookups,
         \/ ExplainCached(r) \/ Asks(r) \/ AskStream(r) \/ Stops(r)
         \/ ResolveMatch(r) \/ SelectGap(r) \/ FindsGap(r)
  PROVE  AsideInv'
<1>1. /\ lookup[r] \in [at : LookupSteps, text : Lookups \cup {"none"},
                        match : BOOLEAN, old : BOOLEAN]
      /\ taught \in BOOLEAN /\ gap.matched \in BOOLEAN
      /\ card.text \in Lookups \cup {"none"} /\ (card.hits > 0 => card.text \in Lookups)
      /\ r \in shown => lookup[r].at \notin {"idle", "bump", "explain"}
  BY DEF AsideInv, AsideTypeOK, CountsAreTrue
<1>2. CASE ExplainCached(r)
  <2>1. PICK entry : entry = [Starts EXCEPT !.at = "bump", !.text = card.text]
    OBVIOUS
  <2>2. /\ entry \in [at : LookupSteps, text : Lookups \cup {"none"},
                    match : BOOLEAN, old : BOOLEAN]
        /\ entry.at = "bump" /\ entry.text = card.text
    BY <1>1, <2>1 DEF Starts, LookupSteps
  <2>3. /\ lookup[r].at = "idle" /\ card.hits > 0 /\ lookup' = [lookup EXCEPT ![r] = entry]
        /\ UNCHANGED <<card, gap, taught, shown, recorded>>
    BY <1>2, <2>1 DEF ExplainCached
  <2> QED
    BY <1>1, <2>2, <2>3, OnlyReads
<1>3. CASE SelectGap(r)
  <2>1. PICK entry : entry = [lookup[r] EXCEPT !.at = IF gap.state = "none" THEN "insert"
                                                  ELSE "update",
                                           !.old = gap.matched]
    OBVIOUS
  <2>2. /\ entry \in [at : LookupSteps, text : Lookups \cup {"none"},
                    match : BOOLEAN, old : BOOLEAN]
        /\ entry.at \in {"insert", "update"}
    BY <1>1, <2>1 DEF LookupSteps
  <2>3. /\ lookup[r].at = "select" /\ lookup' = [lookup EXCEPT ![r] = entry]
        /\ UNCHANGED <<card, gap, taught, shown, recorded>>
    BY <1>3, <2>1 DEF SelectGap
  <2> QED
    BY <1>1, <2>2, <2>3, OnlyReads
<1>4. CASE ResolveMatch(r)
  <2>1. PICK entry : entry = [lookup[r] EXCEPT !.at = "select", !.match = taught]
    OBVIOUS
  <2>2. /\ entry \in [at : LookupSteps, text : Lookups \cup {"none"},
                    match : BOOLEAN, old : BOOLEAN]
        /\ entry.at = "select"
    BY <1>1, <2>1 DEF LookupSteps
  <2>3. /\ lookup[r].at = "match" /\ lookup' = [lookup EXCEPT ![r] = entry]
        /\ UNCHANGED <<card, gap, taught, shown, recorded>>
    BY <1>4, <2>1 DEF ResolveMatch
  <2> QED
    BY <1>1, <2>2, <2>3, OnlyReads
<1>5. CASE Asks(r) \/ AskStream(r) \/ Stops(r) \/ FindsGap(r)
  <2>1. PICK to : /\ lookup' = [lookup EXCEPT ![r].at = to]
                  /\ \/ lookup[r].at = "idle" /\ to \in {"explain", "answer", "cache"}
                     \/ lookup[r].at = "answer" /\ to = "match"
                     \/ lookup[r].at \in {"explain", "answer", "match"} /\ to = "done"
    BY <1>5 DEF Asks, AskStream, Stops, FindsGap, Step
  <2>2. PICK entry : entry = [lookup[r] EXCEPT !.at = to]
    OBVIOUS
  <2>3. /\ entry \in [at : LookupSteps, text : Lookups \cup {"none"},
                    match : BOOLEAN, old : BOOLEAN]
        /\ entry.at = to
    BY <1>1, <2>1, <2>2 DEF LookupSteps
  <2>4. UNCHANGED <<card, gap, taught, shown, recorded>>
    BY <1>5 DEF Asks, AskStream, Stops, FindsGap
  <2>5. lookup' = [lookup EXCEPT ![r] = entry]
    BY <2>1, <2>2
  <2>6. r \in shown => entry.at \notin {"idle", "bump", "explain"}
    BY <1>1, <2>1, <2>3
  <2>7. lookup[r].at # "done" /\ entry.at # "bump"
    BY <2>1, <2>3
  <2> QED
    BY <2>3, <2>4, <2>5, <2>6, <2>7, OnlyReads
<1> QED
  BY <1>2, <1>3, <1>4, <1>5

LEMMA WritesSteps ==
  ASSUME AsideInv, NEW r \in Lookups,
         \/ BumpsCard(r) \/ ExplainGenerate(r) \/ InsertGap(r) \/ UpdateGap(r)
         \/ UpdateKnowledgeGapMatch(r)
  PROVE  AsideInv'
<1>1. /\ lookup[r].match \in BOOLEAN /\ lookup[r].old \in BOOLEAN
      /\ gap \in [state : {"none", "open", "closed"}, hits : Nat, matched : BOOLEAN]
      /\ lookup[r].at = "bump" => lookup[r].text \in Lookups
  BY DEF AsideInv, AsideTypeOK
<1>2. CASE BumpsCard(r)
  BY <1>1, <1>2, CardStored DEF BumpsCard, Step
<1>3. CASE ExplainGenerate(r)
  BY <1>3, CardStored DEF ExplainGenerate, Step
<1>4. CASE InsertGap(r)
  <2>1. PICK new : new = [state |-> "open", hits |-> 1, matched |-> lookup[r].match]
    OBVIOUS
  <2>2. new \in [state : {"none", "open", "closed"}, hits : Nat, matched : BOOLEAN]
        /\ new.hits = 1
    BY <1>1, <2>1
  <2>3. gap' = new \/ gap' = gap
    BY <1>4, <2>1 DEF InsertGap
  <2>4. /\ gap' \in [state : {"none", "open", "closed"}, hits : Nat, matched : BOOLEAN]
        /\ gap'.hits \in {1, gap.hits, gap.hits + 1}
    BY <1>1, <2>2, <2>3
  <2> QED
    BY <1>4, <2>4, GapCounted DEF InsertGap, Step
<1>5. CASE UpdateGap(r)
  <2>1. PICK new : new = [state |-> "open", hits |-> gap.hits + 1,
                          matched |-> lookup[r].match \/ lookup[r].old]
    OBVIOUS
  <2>2. new \in [state : {"none", "open", "closed"}, hits : Nat, matched : BOOLEAN]
        /\ new.hits = gap.hits + 1
    BY <1>1, <2>1
  <2>3. gap' = new \/ gap' = gap
    BY <1>5, <2>1 DEF UpdateGap
  <2>4. /\ gap' \in [state : {"none", "open", "closed"}, hits : Nat, matched : BOOLEAN]
        /\ gap'.hits \in {1, gap.hits, gap.hits + 1}
    BY <1>1, <2>2, <2>3
  <2> QED
    BY <1>5, <2>4, GapCounted DEF UpdateGap, Step
<1>6. CASE UpdateKnowledgeGapMatch(r)
  <2>1. PICK new : new = [gap EXCEPT !.matched = TRUE]
    OBVIOUS
  <2>2. new \in [state : {"none", "open", "closed"}, hits : Nat, matched : BOOLEAN]
        /\ new.hits = gap.hits
    BY <1>1, <2>1
  <2>3. gap' = new \/ gap' = gap
    BY <1>6, <2>1 DEF UpdateKnowledgeGapMatch
  <2>4. PICK entry : entry = [lookup[r] EXCEPT !.at = "done"]
    OBVIOUS
  <2>5. /\ entry \in [at : LookupSteps, text : Lookups \cup {"none"},
                    match : BOOLEAN, old : BOOLEAN]
        /\ entry.at = "done"
    BY <2>4 DEF AsideInv, AsideTypeOK, LookupSteps
  <2>6. /\ lookup' = [lookup EXCEPT ![r] = entry]
        /\ UNCHANGED <<card, taught, shown, recorded>>
    BY <1>6, <2>4 DEF UpdateKnowledgeGapMatch, Step
  <2>7. \A q \in Lookups : lookup'[q] = IF q = r THEN entry ELSE lookup[q]
    BY <2>5, <2>6, LookupMoves
  <2>8. gap'.hits = gap.hits
        /\ gap' \in [state : {"none", "open", "closed"}, hits : Nat, matched : BOOLEAN]
    BY <1>1, <2>2, <2>3
  <2>9. AsideTypeOK'
    BY <2>5, <2>6, <2>8, LookupMoves DEF AsideInv, AsideTypeOK
  <2>10. CountsAreTrue'
    BY <2>6, <2>8 DEF AsideInv, CountsAreTrue
  <2> QED
    BY <2>5, <2>6, <2>7, <2>9, <2>10 DEF AsideInv
<1> QED
  BY <1>2, <1>3, <1>4, <1>5, <1>6

LEMMA OthersStep ==
  ASSUME AsideInv,
         ResolveGap \/ LightsNode \/ ResolveGapsByNode \/ NodeAppears \/ CourseRemoved
  PROVE  AsideInv'
<1>1. /\ gap \in [state : {"none", "open", "closed"}, hits : Nat, matched : BOOLEAN]
      /\ taught \in BOOLEAN
  BY DEF AsideInv, AsideTypeOK
<1>2. CASE ResolveGap \/ ResolveGapsByNode
  <2>1. PICK new : new = [gap EXCEPT !.state = "closed"]
    OBVIOUS
  <2>2. new \in [state : {"none", "open", "closed"}, hits : Nat, matched : BOOLEAN]
        /\ new.hits = gap.hits
    BY <1>1, <2>1
  <2>3. gap' = new \/ gap' = gap
    BY <1>2, <2>1 DEF ResolveGap, ResolveGapsByNode
  <2>4. UNCHANGED <<card, lookup, shown, recorded>> /\ taught' = taught
    BY <1>2 DEF ResolveGap, ResolveGapsByNode
  <2> QED
    BY <1>1, <2>2, <2>3, <2>4, OnlyGap
<1>3. CASE LightsNode \/ NodeAppears
  BY <1>1, <1>3, OnlyGap DEF LightsNode, NodeAppears
<1>4. CASE CourseRemoved
  <2>1. /\ card' = NoCard /\ gap' = NoGap /\ taught' = FALSE
        /\ shown' = {} /\ recorded' = {} /\ lookup' = lookup
    BY <1>4 DEF CourseRemoved
  <2>2. /\ NoCard \in [hits : Nat, text : Lookups \cup {"none"}] /\ NoCard.hits = 0
        /\ NoGap \in [state : {"none", "open", "closed"}, hits : Nat, matched : BOOLEAN]
        /\ NoGap.hits = 0
    BY DEF NoCard, NoGap
  <2>3. IsFiniteSet({}) /\ Cardinality({}) = 0
    BY FS_EmptySet
  <2>4. AsideTypeOK'
    BY <2>1, <2>2, <2>3 DEF AsideInv, AsideTypeOK
  <2>5. CountsAreTrue'
    BY <2>1, <2>2, <2>3 DEF CountsAreTrue
  <2> QED
    BY <2>1, <2>4, <2>5 DEF AsideInv
<1> QED
  BY <1>2, <1>3, <1>4

LEMMA AsideStarts == AsideInit => AsideInv
<1> SUFFICES ASSUME AsideInit PROVE AsideInv
  OBVIOUS
<1>1. /\ card = NoCard /\ gap = NoGap /\ lookup = [r \in Lookups |-> Starts]
      /\ taught \in BOOLEAN /\ shown = {} /\ recorded = {}
  BY DEF AsideInit
<1>2. /\ NoCard \in [hits : Nat, text : Lookups \cup {"none"}] /\ NoCard.hits = 0
      /\ NoGap \in [state : {"none", "open", "closed"}, hits : Nat, matched : BOOLEAN]
      /\ NoGap.hits = 0
      /\ Starts \in [at : LookupSteps, text : Lookups \cup {"none"},
                     match : BOOLEAN, old : BOOLEAN]
      /\ Starts.at = "idle"
  BY DEF NoCard, NoGap, Starts, LookupSteps
<1>3. IsFiniteSet({}) /\ Cardinality({}) = 0
  BY FS_EmptySet
<1>4. AsideTypeOK
  BY <1>1, <1>2, <1>3 DEF AsideTypeOK
<1>5. CountsAreTrue
  BY <1>1, <1>2, <1>3 DEF CountsAreTrue
<1> QED
  BY <1>1, <1>2, <1>4, <1>5 DEF AsideInv

LEMMA AsideSteps == AsideInv /\ [AsideNext]_asideVars => AsideInv'
<1> SUFFICES ASSUME AsideInv, [AsideNext]_asideVars PROVE AsideInv'
  OBVIOUS
<1>1. CASE UNCHANGED asideVars
  BY <1>1 DEF asideVars, AsideInv, AsideTypeOK, CountsAreTrue
<1>2. CASE AsideNext
  BY <1>2, ReadsSteps, WritesSteps, OthersStep DEF AsideNext
<1> QED
  BY <1>1, <1>2

\* The inductive invariant of the aside assistant, with its types.
THEOREM AsideInvariant == AsideSpec => []AsideInv
<1>1. AsideInit => AsideInv
  BY AsideStarts
<1>2. AsideInv /\ [AsideNext]_asideVars => AsideInv'
  BY AsideSteps
<1> QED
  BY <1>1, <1>2, PTL DEF AsideSpec

\* A card counts the explanations that were stored and a gap no more than the
\* answers that named it, however many run at once.
THEOREM LookupsCountedOnce == AsideSpec => []CountsAreTrue
<1>1. AsideInv => CountsAreTrue
  BY DEF AsideInv
<1> QED
  BY <1>1, AsideInvariant, PTL

(***************************************************************************)
(* SchemaMigration.                                                        *)
(***************************************************************************)
Positions == [at : {"off", "migrate", "open"}, file : DOMAIN Migrations, stmt : Nat \ {0}]

\* A position of the code: only who migrates has got anywhere.
Stands(o) ==
  /\ o \in Positions
  /\ IF o.at = "migrate" THEN o.stmt \in DOMAIN Migrations[o.file].list
     ELSE o.file = 1 /\ o.stmt = 1

\* A start has made, or found, what its file makes before its statement and
\* what every start reaches in the files before.
Arrived(o, made) ==
  /\ o.at = "migrate" =>
       /\ \A j \in 1..(o.stmt - 1) : Name(o.file, j) \in made
       /\ \A g \in DOMAIN Migrations : g < o.file =>
            \A j \in DOMAIN Migrations[g].list : AlwaysReached(g, j) => Name(g, j) \in made
  /\ o.at = "open" =>
       \A g \in DOMAIN Migrations : \A j \in DOMAIN Migrations[g].list :
         AlwaysReached(g, j) => Name(g, j) \in made

SchemaTypeOK ==
  /\ opener \in [Openers -> Positions]
  /\ \A p \in Openers : Stands(opener[p])

ReachedIsThere == \A p \in Openers : Arrived(opener[p], schema)

\* A migration is made from its first statement on.
MadeInOrder ==
  \A f \in DOMAIN Migrations : \A i \in DOMAIN Migrations[f].list :
    Name(f, i) \in schema => \A j \in 1..(i - 1) : Name(f, j) \in schema

\* Who goes on making f.
Extends(p, f) ==
  opener[p].at = "migrate" /\ opener[p].file = f /\ Name(f, opener[p].stmt) \notin schema

\* One that is made in part was cut short, or somebody is about to go on.
PartsAreFinished ==
  \A f \in DOMAIN Migrations :
    \/ Name(f, 1) \notin schema
    \/ Makes(f) \subseteq schema
    \/ f \in cut
    \/ \E p \in Openers : Extends(p, f)

SchemaInv == SchemaTypeOK /\ ReachedIsThere /\ MadeInOrder /\ PartsAreFinished

\* What MigrationAssumption says of one statement.
LEMMA MigrationShape ==
  /\ Len(Migrations) \in Nat \ {0} /\ DOMAIN Migrations = 1..Len(Migrations)
  /\ \A f \in DOMAIN Migrations :
       /\ f \in Nat /\ f >= 1 /\ f <= Len(Migrations)
       /\ Migrations[f].apart \in BOOLEAN
       /\ Len(Migrations[f].list) \in Nat \ {0}
       /\ DOMAIN Migrations[f].list = 1..Len(Migrations[f].list)
       /\ 1 \in DOMAIN Migrations[f].list /\ AlwaysReached(f, 1)
BY MigrationAssumption DEF AlwaysReached

LEMMA NamedOnce ==
  \A f, g \in DOMAIN Migrations :
    \A i \in DOMAIN Migrations[f].list, j \in DOMAIN Migrations[g].list :
      Name(f, i) = Name(g, j) => f = g /\ i = j
BY MigrationAssumption

LEMMA FileDone ==
  ASSUME NEW o, Stands(o), o.at = "migrate", NEW made, Arrived(o, made),
         \A j \in DOMAIN Migrations[o.file].list :
           AlwaysReached(o.file, j) => Name(o.file, j) \in made
  PROVE  Stands(NextFile(o)) /\ Arrived(NextFile(o), made)
<1> DEFINE n == NextFile(o)
<1>0. o \in Positions /\ o.file \in DOMAIN Migrations
  BY DEF Stands, Positions
<1>1. CASE o.file = Len(Migrations)
  <2>1. n = [Off EXCEPT !.at = "open"]
    BY <1>1 DEF NextFile
  <2>2. n.at = "open" /\ n.file = 1 /\ n.stmt = 1 /\ n \in Positions
    BY <2>1, MigrationShape DEF Off, Positions
  <2>3. \A g \in DOMAIN Migrations : g < o.file \/ g = o.file
    BY <1>1, MigrationShape
  <2>4. Arrived(n, made)
    BY <2>2, <2>3 DEF Arrived
  <2> QED
    BY <2>2, <2>4 DEF Stands
<1>2. CASE o.file # Len(Migrations)
  <2>1. n = [o EXCEPT !.file = o.file + 1, !.stmt = 1]
    BY <1>2 DEF NextFile
  <2>2. o.file + 1 \in DOMAIN Migrations /\ o.file \in Nat
    BY <1>0, <1>2, MigrationShape
  <2>3. n.at = "migrate" /\ n.file = o.file + 1 /\ n.stmt = 1 /\ n \in Positions
    <3> DEFINE next == o.file + 1
    <3>1. next \in DOMAIN Migrations /\ n = [o EXCEPT !.file = next, !.stmt = 1]
      BY <2>1, <2>2
    <3> HIDE DEF next, n
    <3>2. o \in [at : {"off", "migrate", "open"}, file : DOMAIN Migrations, stmt : Nat \ {0}]
      BY <1>0 DEF Positions
    <3>3. n.file = next /\ n.stmt = 1 /\ n.at = o.at
      BY ONLY <3>1, <3>2
    <3>4. n \in [at : {"off", "migrate", "open"}, file : DOMAIN Migrations, stmt : Nat \ {0}]
      <4>1. PICK m : m = [o EXCEPT !.file = next]
        OBVIOUS
      <4>2. m \in [at : {"off", "migrate", "open"}, file : DOMAIN Migrations, stmt : Nat \ {0}]
        BY ONLY <3>1, <3>2, <4>1
      <4>3. n = [m EXCEPT !.stmt = 1]
        BY ONLY <3>1, <4>1
      <4> QED
        BY ONLY <4>2, <4>3
    <3> QED
      BY <3>3, <3>4 DEF next, Positions
  <2>4. 1 \in DOMAIN Migrations[n.file].list
    BY <2>2, <2>3, MigrationShape
  <2>5. \A g \in DOMAIN Migrations : g < n.file => g < o.file \/ g = o.file
    BY <2>2, <2>3, MigrationShape
  <2>6. \A j \in 1..(n.stmt - 1) : Name(n.file, j) \in made
    BY <2>3
  <2>7. \A g \in DOMAIN Migrations : g < n.file =>
          \A j \in DOMAIN Migrations[g].list : AlwaysReached(g, j) => Name(g, j) \in made
    BY <2>5 DEF Arrived
  <2> HIDE DEF n
  <2>8. Arrived(n, made)
    BY <2>3, <2>6, <2>7 DEF Arrived
  <2> QED
    BY <2>3, <2>4, <2>8 DEF Stands, n
<1> QED
  BY <1>1, <1>2

LEMMA StatementDone ==
  ASSUME NEW o, Stands(o), o.at = "migrate", NEW made, Arrived(o, made),
         Name(o.file, o.stmt) \in made
  PROVE  /\ Stands(NextStatement(o)) /\ Arrived(NextStatement(o), made)
         /\ o.stmt = Len(Migrations[o.file].list) => Makes(o.file) \subseteq made
         /\ o.stmt # Len(Migrations[o.file].list) =>
              /\ NextStatement(o).at = "migrate" /\ NextStatement(o).file = o.file
              /\ NextStatement(o).stmt = o.stmt + 1
              /\ o.stmt + 1 \in DOMAIN Migrations[o.file].list
<1> DEFINE n == NextStatement(o)
<1>0. /\ o \in Positions /\ o.file \in DOMAIN Migrations
      /\ o.stmt \in DOMAIN Migrations[o.file].list /\ o.stmt \in Nat \ {0}
  BY DEF Stands, Positions
<1>1. \A j \in 1..o.stmt : Name(o.file, j) \in made
  <2>1. \A j \in 1..(o.stmt - 1) : Name(o.file, j) \in made
    BY DEF Arrived
  <2>2. \A j \in 1..o.stmt : j \in 1..(o.stmt - 1) \/ j = o.stmt
    BY <1>0
  <2> QED
    BY <2>1, <2>2
<1>2. CASE o.stmt = Len(Migrations[o.file].list)
  <2>1. n = NextFile(o)
    BY <1>2 DEF NextStatement
  <2>2. \A j \in DOMAIN Migrations[o.file].list : Name(o.file, j) \in made
    BY <1>0, <1>1, <1>2, MigrationShape
  <2>3. Makes(o.file) \subseteq made
    BY <2>2 DEF Makes
  <2> QED
    BY <1>2, <2>1, <2>2, <2>3, FileDone
<1>3. CASE o.stmt # Len(Migrations[o.file].list)
  <2>1. n = [o EXCEPT !.stmt = o.stmt + 1]
    BY <1>3 DEF NextStatement
  <2>2. o.stmt + 1 \in DOMAIN Migrations[o.file].list
    BY <1>0, <1>3, MigrationShape
  <2>3. n.at = "migrate" /\ n.file = o.file /\ n.stmt = o.stmt + 1 /\ n \in Positions
    BY <1>0, <2>1 DEF Positions
  <2>4. \A j \in 1..(n.stmt - 1) : Name(n.file, j) \in made
    BY <1>0, <1>1, <2>3
  <2>5. \A g \in DOMAIN Migrations : g < n.file =>
          \A j \in DOMAIN Migrations[g].list : AlwaysReached(g, j) => Name(g, j) \in made
    BY <2>3 DEF Arrived
  <2> HIDE DEF n
  <2>6. Stands(n) /\ Arrived(n, made)
    BY <2>2, <2>3, <2>4, <2>5 DEF Stands, Arrived
  <2> QED
    BY <1>3, <2>2, <2>3, <2>6 DEF n
<1> QED
  BY <1>2, <1>3

\* One process moves to a position that is right; what is made stays made.
LEMMA OpenerMoves ==
  ASSUME SchemaInv, NEW p \in Openers, NEW o, Stands(o), Arrived(o, schema'),
         opener' = [opener EXCEPT ![p] = o], schema \subseteq schema'
  PROVE  /\ SchemaTypeOK' /\ ReachedIsThere'
         /\ \A q \in Openers : opener'[q] = IF q = p THEN o ELSE opener[q]
<1>1. \A q \in Openers : opener'[q] = IF q = p THEN o ELSE opener[q]
  BY DEF SchemaInv, SchemaTypeOK
<1>2. SchemaTypeOK'
  <2>1. o \in Positions
    BY DEF Stands
  <2>2. opener' \in [Openers -> Positions]
    BY <2>1 DEF SchemaInv, SchemaTypeOK
  <2>3. \A q \in Openers : Stands(opener'[q])
    BY <1>1 DEF SchemaInv, SchemaTypeOK
  <2> QED
    BY <2>2, <2>3 DEF SchemaTypeOK
<1>3. ASSUME NEW q \in Openers PROVE Arrived(opener'[q], schema')
  <2>1. CASE q = p
    BY <1>1, <2>1
  <2>2. CASE q # p
    <3>1. Arrived(opener[q], schema)
      BY DEF SchemaInv, ReachedIsThere
    <3>2. Arrived(opener[q], schema')
      BY <3>1 DEF Arrived
    <3> QED
      BY <1>1, <2>2, <3>2
  <2> QED
    BY <2>1, <2>2
<1> QED
  BY <1>1, <1>2, <1>3 DEF ReachedIsThere

\* A process moves and nothing is made.
LEMMA NothingMade ==
  ASSUME SchemaInv, NEW p \in Openers, NEW o, Stands(o), Arrived(o, schema),
         opener' = [opener EXCEPT ![p] = o], schema' = schema, cut \subseteq cut',
         \A f \in DOMAIN Migrations :
           Extends(p, f) => f \in cut' \/ Name(f, 1) \notin schema
  PROVE  SchemaInv'
<1>1. /\ SchemaTypeOK' /\ ReachedIsThere'
      /\ \A q \in Openers : opener'[q] = IF q = p THEN o ELSE opener[q]
  BY OpenerMoves
<1>2. MadeInOrder'
  BY DEF SchemaInv, MadeInOrder
<1>3. PartsAreFinished'
  <2> SUFFICES ASSUME NEW f \in DOMAIN Migrations, Name(f, 1) \in schema,
                      ~(Makes(f) \subseteq schema), f \notin cut'
               PROVE  \E q \in Openers : Extends(q, f)'
    BY DEF PartsAreFinished, Makes, Name
  <2>1. PICK q \in Openers : Extends(q, f)
    BY DEF SchemaInv, PartsAreFinished
  <2>2. q # p
    BY <2>1
  <2>3. Extends(q, f)'
    BY <1>1, <2>1, <2>2 DEF Extends, Name
  <2> QED
    BY <2>3
<1> QED
  BY <1>1, <1>2, <1>3 DEF SchemaInv

LEMMA ExecutesOne ==
  ASSUME SchemaInv, NEW p \in Openers, Executes(p)
  PROVE  SchemaInv'
<1> DEFINE o == opener[p]
           f == o.file
           i == o.stmt
<1>1. /\ o.at = "migrate" /\ schema' = schema \cup {Name(f, i)}
      /\ opener' = [opener EXCEPT ![p] = NextStatement(o)] /\ cut' = cut
  BY DEF Executes, Migrating, Statement, Name
<1>2. /\ Stands(o) /\ Arrived(o, schema)
      /\ f \in DOMAIN Migrations /\ i \in DOMAIN Migrations[f].list
      /\ i \in Nat \ {0}
  BY <1>1 DEF SchemaInv, SchemaTypeOK, ReachedIsThere, Stands, Positions
<1>3. Arrived(o, schema') /\ Name(f, i) \in schema'
  BY <1>1, <1>2 DEF Arrived
<1>4. /\ Stands(NextStatement(o)) /\ Arrived(NextStatement(o), schema')
      /\ i = Len(Migrations[f].list) => Makes(f) \subseteq schema'
      /\ i # Len(Migrations[f].list) =>
           /\ NextStatement(o).at = "migrate" /\ NextStatement(o).file = f
           /\ NextStatement(o).stmt = i + 1
           /\ i + 1 \in DOMAIN Migrations[f].list
  BY <1>1, <1>2, <1>3, StatementDone
<1>5. /\ SchemaTypeOK' /\ ReachedIsThere'
      /\ \A q \in Openers : opener'[q] = IF q = p THEN NextStatement(o) ELSE opener[q]
  BY <1>1, <1>4, OpenerMoves
<1>6. \A g \in DOMAIN Migrations : \A k \in DOMAIN Migrations[g].list :
        Name(g, k) \in schema' => Name(g, k) \in schema \/ (g = f /\ k = i)
  BY <1>1, <1>2, NamedOnce
<1>7. MadeInOrder'
  <2> SUFFICES ASSUME NEW g \in DOMAIN Migrations, NEW k \in DOMAIN Migrations[g].list,
                      Name(g, k) \in schema', NEW j \in 1..(k - 1)
               PROVE  Name(g, j) \in schema'
    BY DEF MadeInOrder, Name
  <2>1. CASE Name(g, k) \in schema
    BY <1>1, <2>1 DEF SchemaInv, MadeInOrder
  <2>2. CASE g = f /\ k = i
    BY <1>1, <1>2, <2>2 DEF Arrived
  <2> QED
    BY <1>6, <2>1, <2>2
<1>8. PartsAreFinished'
  <2> SUFFICES ASSUME NEW g \in DOMAIN Migrations, Name(g, 1) \in schema',
                      ~(Makes(g) \subseteq schema'), g \notin cut
               PROVE  \E q \in Openers : Extends(q, g)'
    BY <1>1 DEF PartsAreFinished, Makes, Name
  <2>0. 1 \in DOMAIN Migrations[g].list /\ ~(Makes(g) \subseteq schema)
    BY <1>1, MigrationShape
  <2>1. CASE g # f
    <3>1. Name(g, 1) \in schema
      BY <1>6, <2>0, <2>1
    <3>2. PICK q \in Openers : Extends(q, g)
      BY <2>0, <3>1 DEF SchemaInv, PartsAreFinished
    <3>3. q # p /\ opener[q].stmt \in DOMAIN Migrations[g].list
      BY <2>1, <3>2 DEF Extends, SchemaInv, SchemaTypeOK, Stands
    <3>4. Name(g, opener[q].stmt) \notin schema'
      BY <1>6, <2>1, <3>2, <3>3 DEF Extends
    <3>5. Extends(q, g)'
      BY <1>5, <3>2, <3>3, <3>4 DEF Extends, Name
    <3> QED
      BY <3>5
  <2>2. CASE g = f
    <3>1. i # Len(Migrations[f].list)
      BY <1>4, <2>2
    <3>2. CASE Name(f, i + 1) \notin schema'
      <4>1. opener'[p] = NextStatement(o)
        BY <1>5
      <4>2. Extends(p, g)'
        BY <1>4, <2>2, <3>1, <3>2, <4>1 DEF Extends, Name
      <4> QED
        BY <4>2
    <3>3. CASE Name(f, i + 1) \in schema'
      <4>1. i + 1 # i /\ i \in 1..((i + 1) - 1)
        BY <1>2
      <4>2. Name(f, i + 1) \in schema
        BY <1>2, <1>4, <1>6, <3>1, <3>3, <4>1
      <4>3. Name(f, i) \in schema
        BY <1>2, <1>4, <3>1, <4>1, <4>2 DEF SchemaInv, MadeInOrder
      <4>4. schema' = schema
        BY <1>1, <4>3
      <4>5. PICK q \in Openers : Extends(q, g)
        BY <2>0, <4>4 DEF SchemaInv, PartsAreFinished
      <4>6. q # p
        BY <2>2, <4>3, <4>5 DEF Extends
      <4>7. Extends(q, g)'
        BY <1>5, <4>4, <4>5, <4>6 DEF Extends, Name
      <4> QED
        BY <4>7
    <3> QED
      BY <3>2, <3>3
  <2> QED
    BY <2>1, <2>2
<1> QED
  BY <1>5, <1>7, <1>8 DEF SchemaInv

LEMMA DuplicatePassed ==
  ASSUME SchemaInv, NEW p \in Openers, PassesOver(p)
  PROVE  SchemaInv'
<1> DEFINE o == opener[p]
           f == o.file
           i == o.stmt
           s == Migrations[f].list[i]
<1>1. /\ o.at = "migrate" /\ s.kind = "column" /\ Name(f, i) \in schema
      /\ UNCHANGED <<schema, cut>>
      /\ opener' = [opener EXCEPT ![p] = IF Migrations[f].apart THEN NextStatement(o)
                                         ELSE NextFile(o)]
  BY DEF PassesOver, Migrating, Duplicate, Statement, Name
<1>2. /\ Stands(o) /\ Arrived(o, schema)
      /\ f \in DOMAIN Migrations /\ i \in DOMAIN Migrations[f].list
      /\ i \in Nat \ {0}
  BY <1>1 DEF SchemaInv, SchemaTypeOK, ReachedIsThere, Stands, Positions
<1>3. ASSUME NEW g \in DOMAIN Migrations PROVE ~Extends(p, g)
  BY <1>1 DEF Extends
<1>4. CASE Migrations[f].apart
  <2>1. Stands(NextStatement(o)) /\ Arrived(NextStatement(o), schema)
    BY <1>1, <1>2, StatementDone
  <2> QED
    BY <1>1, <1>3, <1>4, <2>1, NothingMade
<1>5. CASE ~Migrations[f].apart
  <2>1. ASSUME NEW j \in DOMAIN Migrations[f].list, AlwaysReached(f, j)
        PROVE  Name(f, j) \in schema
    <3>1. j \in Nat /\ j >= 1
      BY <1>2, MigrationShape
    <3>2. j <= i
      <4>1. \A k \in 1..(j - 1) : Migrations[f].list[k].kind # "column"
        BY <1>5, <2>1 DEF AlwaysReached
      <4>2. ~(i \in 1..(j - 1))
        BY <1>1, <4>1
      <4> QED
        BY <1>2, <3>1, <4>2
    <3>3. j = i \/ j \in 1..(i - 1)
      BY <1>2, <3>1, <3>2
    <3> QED
      BY <1>1, <1>2, <3>3 DEF Arrived
  <2>2. Stands(NextFile(o)) /\ Arrived(NextFile(o), schema)
    BY <1>1, <1>2, <2>1, FileDone
  <2> QED
    BY <1>1, <1>3, <1>5, <2>2, NothingMade
<1> QED
  BY <1>4, <1>5

LEMMA OffStands == \A made : Stands(Off) /\ Arrived(Off, made)
BY MigrationShape DEF Off, Stands, Positions, Arrived

LEMMA ProcessStops ==
  ASSUME SchemaInv, NEW p \in Openers, Close(p)
  PROVE  SchemaInv'
<1>1. schema' = schema /\ opener' = [opener EXCEPT ![p] = Off]
  BY DEF Close
<1>2. CASE opener[p].at = "open" /\ cut' = cut
  BY <1>1, <1>2, OffStands, NothingMade DEF Extends
<1>3. CASE Migrating(p) /\ cut' = IF opener[p].stmt > 1 THEN cut \cup {opener[p].file} ELSE cut
  <2>1. cut \subseteq cut'
    BY <1>3
  <2>2. ASSUME NEW f \in DOMAIN Migrations, Extends(p, f), Name(f, 1) \in schema
        PROVE  f \in cut'
    <3>1. opener[p].stmt \in Nat \ {0} /\ opener[p].stmt # 1 /\ opener[p].file = f
      BY <2>2 DEF Extends, SchemaInv, SchemaTypeOK, Stands, Positions
    <3> QED
      BY <1>3, <3>1
  <2> QED
    BY <1>1, <2>1, <2>2, OffStands, NothingMade
<1> QED
  BY <1>2, <1>3 DEF Close

LEMMA ProcessStarts ==
  ASSUME SchemaInv, NEW p \in Openers, Open(p)
  PROVE  SchemaInv'
<1>1. PICK o : o = [opener[p] EXCEPT !.at = "migrate"]
  OBVIOUS
<1>2. /\ opener[p].at = "off" /\ opener' = [opener EXCEPT ![p] = o]
      /\ UNCHANGED <<schema, cut>>
  BY <1>1 DEF Open
<1>3. opener[p] \in Positions /\ opener[p].file = 1 /\ opener[p].stmt = 1
  BY <1>2 DEF SchemaInv, SchemaTypeOK, Stands
<1>4. o \in Positions /\ o.at = "migrate" /\ o.file = 1 /\ o.stmt = 1
  BY <1>1, <1>3 DEF Positions
<1>5. 1 \in DOMAIN Migrations /\ 1 \in DOMAIN Migrations[1].list
  BY MigrationShape
<1>6. Stands(o)
  BY <1>4, <1>5 DEF Stands
<1>7. Arrived(o, schema)
  <2>1. \A g \in DOMAIN Migrations : ~(g < 1)
    BY MigrationShape
  <2> QED
    BY <1>4, <2>1 DEF Arrived
<1>8. \A f \in DOMAIN Migrations : ~Extends(p, f)
  BY <1>2 DEF Extends
<1> QED
  BY <1>2, <1>6, <1>7, <1>8, NothingMade

LEMMA SchemaStarts == SchemaInit => SchemaInv
<1> SUFFICES ASSUME SchemaInit PROVE SchemaInv
  OBVIOUS
<1>1. schema = {} /\ opener = [p \in Openers |-> Off]
  BY DEF SchemaInit
<1>2. Stands(Off) /\ Arrived(Off, schema) /\ Off \in Positions
  BY OffStands DEF Stands
<1> QED
  BY <1>1, <1>2 DEF SchemaInv, SchemaTypeOK, ReachedIsThere, MadeInOrder, PartsAreFinished

LEMMA SchemaSteps == SchemaInv /\ [SchemaNext]_schemaVars => SchemaInv'
<1> SUFFICES ASSUME SchemaInv, [SchemaNext]_schemaVars PROVE SchemaInv'
  OBVIOUS
<1>1. CASE UNCHANGED schemaVars
  <2>1. UNCHANGED <<schema, opener, cut>>
    BY <1>1 DEF schemaVars
  <2>2. SchemaTypeOK' /\ ReachedIsThere' /\ MadeInOrder'
    BY <2>1 DEF SchemaInv, SchemaTypeOK, ReachedIsThere, MadeInOrder
  <2>3. PartsAreFinished'
    BY <2>1 DEF SchemaInv, PartsAreFinished, Extends, Makes, Name
  <2> QED
    BY <2>2, <2>3 DEF SchemaInv
<1>2. CASE SchemaNext
  BY <1>2, ProcessStarts, ExecutesOne, DuplicatePassed, ProcessStops DEF SchemaNext
<1> QED
  BY <1>1, <1>2

\* The inductive invariant of the start, with its positions.
THEOREM SchemaInvariant == SchemaSpec => []SchemaInv
<1>1. SchemaInit => SchemaInv
  BY SchemaStarts
<1>2. SchemaInv /\ [SchemaNext]_schemaVars => SchemaInv'
  BY SchemaSteps
<1> QED
  BY <1>1, <1>2, PTL DEF SchemaSpec

LEMMA NeedsAreThere ==
  ASSUME SchemaInv, NEW p \in Openers, Migrating(p)
  PROVE  Statement(p).needs \subseteq schema
<1> DEFINE f == opener[p].file
           i == opener[p].stmt
<1>1. /\ f \in DOMAIN Migrations /\ i \in DOMAIN Migrations[f].list /\ i \in Nat \ {0}
      /\ \A j \in 1..(i - 1) : Name(f, j) \in schema
      /\ \A g \in DOMAIN Migrations : g < f =>
           \A j \in DOMAIN Migrations[g].list : AlwaysReached(g, j) => Name(g, j) \in schema
  BY DEF SchemaInv, SchemaTypeOK, ReachedIsThere, Arrived, Stands, Positions, Migrating
<1>2. Statement(p) = Migrations[f].list[i]
  BY DEF Statement
<1> HIDE DEF f, i
<1>3. ASSUME NEW x \in Migrations[f].list[i].needs PROVE x \in schema
  <2>1. PICK g \in DOMAIN Migrations : \E j \in DOMAIN Migrations[g].list :
          x = Name(g, j) /\ ((g = f /\ j < i) \/ (g < f /\ AlwaysReached(g, j)))
    BY <1>1, <1>3, MigrationAssumption
  <2>2. PICK j \in DOMAIN Migrations[g].list :
          x = Name(g, j) /\ ((g = f /\ j < i) \/ (g < f /\ AlwaysReached(g, j)))
    BY <2>1
  <2>3. CASE g < f /\ AlwaysReached(g, j)
    BY <1>1, <2>2, <2>3
  <2>4. CASE g = f /\ j < i
    <3>1. j \in 1..Len(Migrations[g].list) /\ Len(Migrations[g].list) \in Nat
      BY MigrationShape
    <3>2. j \in 1..(i - 1)
      BY <1>1, <2>4, <3>1
    <3> QED
      BY <1>1, <2>2, <2>4, <3>2
  <2> QED
    BY <2>2, <2>3, <2>4
<1> QED
  BY <1>2, <1>3

\* However many processes start at once and wherever one stops, a statement
\* finds what it needs, and an opened database is whole but for a text that was
\* cut short.
THEOREM OpenedDatabaseIsWhole == SchemaSpec => []OpenedIsWhole
<1>1. SchemaInv => OpenedIsWhole
  <2> SUFFICES ASSUME SchemaInv PROVE OpenedIsWhole
    OBVIOUS
  <2>1. ASSUME NEW p \in Openers, opener[p].at = "open",
               \A q \in Openers : ~Migrating(q), NEW f \in DOMAIN Migrations
        PROVE  Makes(f) \subseteq schema \/ (f \in cut /\ ~Migrations[f].apart)
    <3>1. \A j \in DOMAIN Migrations[f].list : AlwaysReached(f, j) => Name(f, j) \in schema
      BY <2>1 DEF SchemaInv, ReachedIsThere, Arrived
    <3>2. CASE Migrations[f].apart
      BY <3>1, <3>2 DEF AlwaysReached, Makes
    <3>3. CASE ~Migrations[f].apart
      <4>1. Name(f, 1) \in schema
        BY <3>1, MigrationShape
      <4>2. ~ \E q \in Openers : Extends(q, f)
        BY <2>1 DEF Extends, Migrating
      <4> QED
        BY <3>3, <4>1, <4>2 DEF SchemaInv, PartsAreFinished
    <3> QED
      BY <3>2, <3>3
  <2> QED
    BY <2>1, NeedsAreThere DEF OpenedIsWhole
<1> QED
  BY <1>1, SchemaInvariant, PTL
=============================================================================
