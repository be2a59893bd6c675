------------------------- MODULE CourseStoreProofs -------------------------
(***************************************************************************)
(* Theorems about CourseStore, for any number of courses, operations,      *)
(* sessions and outlines.                                                  *)
(***************************************************************************)
EXTENDS CourseStore, TLAPS

Key == FirstNodes \cup {ExtraNode} \cup (UNION Outlines)
         \cup {NodeOf[s] : s \in Threads}
Slug == Topics \cup {"none"}
Row == [live : BOOLEAN, slug : Slug, nodes : SUBSET Key, version : Nat,
        done : SUBSET Key, line : Nat]
Local == [pc : {"idle", "clear", "create", "list", "insert", "select", "move",
                "delete", "write", "end"},
          kind : {"none", "build", "regenerate", "merge", "extend", "apply"},
          old : Courses \cup {0}, slug : Slug, nodes : SUBSET Key, version : Nat,
          new : Courses \cup {0}, valid : SUBSET Key, list : SUBSET Key,
          rows : SUBSET Threads]

StoreTypeOK ==
  /\ course \in [Courses -> Row]
  /\ task \in [Tasks -> Local]
  /\ at \in [Threads -> Courses \cup {0}]
  /\ turn \in [Threads -> Courses \cup {0}]
  /\ earned \subseteq Nat \X Key /\ expected \subseteq Threads /\ excused \subseteq Nat

Used == Courses \ Unused
Copying(t) == task[t].pc \in {"list", "insert", "select", "move"}
Moving(t) == Copying(t) \/ At(t, "delete")
Replacing(t) == Moving(t) \/ /\ task[t].pc \in {"clear", "create"}
                             /\ task[t].kind \in {"regenerate", "merge"}
GivenUp(c) == course[c].line \in excused

\* A course that a failed migration would delete.
Pending(c) == \E t \in Tasks : Copying(t) /\ task[t].new = c

\* What an operation that is under way knows of its courses.
LocalOK(t) ==
  /\ At(t, "clear") => task[t].kind = "regenerate"
  /\ At(t, "create") => task[t].kind \in {"build", "regenerate", "merge"}
  /\ Replacing(t) \/ At(t, "write") => task[t].old \in Used
  /\ Moving(t) => /\ task[t].kind \in {"regenerate", "merge"}
                  /\ task[t].new \in Used /\ task[t].new # task[t].old
                  /\ course[task[t].new].line = course[task[t].old].line
                  /\ task[t].new \in Live \/ GivenUp(task[t].new)

\* Each replacement has a course of its own, and nobody replaces a course that
\* is itself half filled unless its line is given up.
Apart ==
  \A t, u \in Tasks :
    /\ t # u /\ Moving(t) /\ Moving(u) => task[t].new # task[u].new
    /\ Replacing(t) /\ Moving(u) /\ task[u].new = task[t].old
         => GivenUp(task[t].old)

\* A line has a course that no failing migration deletes.
Settled ==
  \A c \in Used : \/ GivenUp(c)
                  \/ \E d \in Live : course[d].line = course[c].line /\ ~Pending(d)

\* Whoever copies from c has the lit node k, or will list it.
Carried(c, k) ==
  \A t \in Tasks :
    task[t].old = c =>
      /\ At(t, "insert") => k \in task[t].list
      /\ task[t].pc \in {"select", "move", "delete"} => k \in course[task[t].new].done

Safe(e) ==
  \/ e[1] \in excused
  \/ \E c \in Live : /\ course[c].line = e[1] /\ e[2] \in course[c].done
                     /\ ~Pending(c) /\ Carried(c, e[2])

EarnedKept == \A e \in earned : Safe(e)

\* All sessions are of the first course's line; a course being filled has none
\* before they are moved, and the replaced one no expected one afterwards.
SessionsKept ==
  /\ \A s \in Threads :
       /\ at[s] = 0 => s \notin expected \/ GivenUp(1)
       /\ at[s] # 0 => at[s] \in Live /\ course[at[s]].line = course[1].line
  /\ \A t \in Tasks, s \in Threads :
       /\ Copying(t) => at[s] # task[t].new
       /\ At(t, "move") => /\ s \in task[t].rows
                                => course[task[t].old].line = course[1].line
                           /\ at[s] = task[t].old
                                => s \in task[t].rows \/ GivenUp(1)
       /\ At(t, "delete") /\ at[s] = task[t].old
            => s \notin expected \/ GivenUp(1)

\* A tree that was read is still the course's, or the course has moved on.
ReadsKept ==
  \A t \in Tasks :
    At(t, "write") =>
      /\ task[t].version <= course[task[t].old].version
      /\ task[t].old \in Live /\ task[t].version = course[task[t].old].version
           => task[t].nodes = course[task[t].old].nodes

StoreInv ==
  /\ StoreTypeOK /\ Live \subseteq Used /\ 1 \in Used
  /\ \A t \in Tasks : LocalOK(t)
  /\ Apart /\ Settled /\ EarnedKept /\ SessionsKept /\ ReadsKept
-----------------------------------------------------------------------------
(* What the operators do.                                                  *)

\* The node of a session is a key.
LEMMA NodesAreKeys == \A s \in Threads : NodeOf[s] \in Key
BY DEF Key

\* DeleteDomain takes the row with its progress; ids, lines and versions of
\* rows that were there are never used again.
LEMMA DeletedFacts ==
  ASSUME StoreTypeOK, NEW c \in Courses \cup {0}, course' = Deleted(c)
  PROVE  /\ course' \in [Courses -> Row] /\ Used' = Used /\ Live' = Live \ {c}
         /\ \A d \in Courses : /\ course'[d].line = course[d].line
                               /\ course'[d].version = course[d].version
                               /\ d # c => course'[d] = course[d]
<1>1. CASE c \in Live
  <2>1. c \in Courses
    BY <1>1 DEF Live
  <2> DEFINE gone == [course[c] EXCEPT !.live = FALSE, !.slug = "none",
                                       !.nodes = {}, !.done = {}]
  <2>2. /\ gone \in Row /\ gone.line = course[c].line /\ ~gone.live
        /\ gone.version = course[c].version
    BY <2>1 DEF StoreTypeOK, Row, Slug
  <2>3. course' = [course EXCEPT ![c] = gone]
    BY <1>1 DEF Deleted
  <2> HIDE DEF gone
  <2> QED
    BY <2>1, <2>2, <2>3 DEF StoreTypeOK, Used, Unused, Live
<1>2. CASE c \notin Live
  BY <1>2 DEF Deleted, StoreTypeOK, Used, Unused, Live
<1> QED
  BY <1>1, <1>2

LEMMA WithoutSessionsFacts ==
  ASSUME StoreInv, NEW c \in Courses \cup {0}, at' = WithoutSessions(c)
  PROVE  /\ at' \in [Threads -> Courses \cup {0}]
         /\ \A s \in Threads : /\ at[s] # c => at'[s] = at[s]
                               /\ at[s] = c => at'[s] = 0
<1>1. at \in [Threads -> Courses \cup {0}]
  BY DEF StoreInv, StoreTypeOK
<1>2. \A s \in Threads : at[s] = c => c \in Live \/ c = 0
  BY <1>1 DEF StoreInv, SessionsKept
<1> QED
  BY <1>1, <1>2 DEF WithoutSessions

\* An operation that ends or goes on changes its own locals only.
LEMMA EndsFacts ==
  ASSUME StoreTypeOK, NEW t \in Tasks, Ends(t)
  PROVE  /\ task' \in [Tasks -> Local] /\ task'[t].pc = "end"
         /\ \A u \in Tasks \ {t} : task'[u] = task[u]
<1> DEFINE l == [NoTask EXCEPT !.pc = "end"]
<1>1. l \in Local /\ l.pc = "end"
  BY DEF NoTask, Local, Slug
<1>2. task' = [task EXCEPT ![t] = l]
  BY DEF Ends
<1> HIDE DEF l
<1> QED
  BY <1>1, <1>2 DEF StoreTypeOK

LEMMA ToFacts ==
  ASSUME StoreTypeOK, NEW t \in Tasks,
         NEW pc \in {"create", "select", "delete"}, To(t, pc)
  PROVE  /\ task' \in [Tasks -> Local] /\ task'[t] = [task[t] EXCEPT !.pc = pc]
         /\ \A u \in Tasks \ {t} : task'[u] = task[u]
<1> DEFINE l == [task[t] EXCEPT !.pc = pc]
<1>1. l \in Local
  BY DEF StoreTypeOK, Local
<1>2. task' = [task EXCEPT ![t] = l]
  BY DEF To
<1> HIDE DEF l
<1> QED
  BY <1>1, <1>2 DEF StoreTypeOK, l
-----------------------------------------------------------------------------
(* Steps that delete, create and move nothing.                             *)

\* Rows stay, progress grows, and a new tree has a new version.
Growing ==
  /\ course' \in [Courses -> Row] /\ Live' = Live /\ Used' = Used
  /\ \A c \in Courses : /\ course'[c].line = course[c].line
                        /\ course[c].version <= course'[c].version
                        /\ course[c].version = course'[c].version
                             => course'[c].nodes = course[c].nodes
                        /\ course[c].done \subseteq course'[c].done

\* What the locals of t are after such a step.
Proceeds(t) ==
  /\ task' \in [Tasks -> Local] /\ LocalOK(t)'
  /\ \A u \in Tasks \ {t} : task'[u] = task[u]
  /\ Copying(t)' => Copying(t)
  /\ Moving(t)' => Moving(t) /\ task'[t].new = task[t].new /\ task'[t].old = task[t].old
  /\ Replacing(t)' =>
       \/ Replacing(t) /\ task'[t].old = task[t].old
       \/ \A u \in Tasks : Moving(u) /\ task[u].new = task'[t].old
                             => course[task'[t].old].line \in excused'
  /\ At(t, "insert")' => task'[t].list = course[task[t].old].done
  /\ task'[t].pc \in {"select", "move"} =>
       \/ task[t].pc \in {"select", "move"}
       \/ /\ At(t, "insert")
          /\ \A k \in task[t].list :
               k \notin course'[task[t].new].done
                 => <<course[task[t].old].line, k>> \notin earned'
  /\ At(t, "move")' => task'[t].rows = {s \in Threads : at[s] = task'[t].old}
  /\ ~At(t, "delete")'
  /\ At(t, "write")' => /\ task'[t].version = course'[task'[t].old].version
                        /\ task'[t].nodes = course'[task'[t].old].nodes

LEMMA Quiet ==
  ASSUME StoreInv, NEW t \in Tasks, Growing, Proceeds(t), UNCHANGED at,
         turn' \in [Threads -> Courses \cup {0}],
         expected' = expected, earned' \subseteq earned,
         excused \subseteq excused', excused' \subseteq Nat
  PROVE  StoreInv'
<1>0. Apart /\ SessionsKept
  BY DEF StoreInv
<1>1. StoreTypeOK'
  BY DEF StoreInv, StoreTypeOK, Growing, Proceeds
<1>2. (Live \subseteq Used /\ 1 \in Used)'
  BY DEF StoreInv, Growing
<1>3. ASSUME NEW u \in Tasks PROVE LocalOK(u)'
  <2>1. CASE u = t
    BY <2>1 DEF Proceeds
  <2>2. CASE u # t
    <3>1. task'[u] = task[u] /\ LocalOK(u) /\ task[u] \in Local
      BY <2>2 DEF Proceeds, StoreInv, StoreTypeOK
    <3> QED
      BY <3>1 DEF LocalOK, Replacing, Moving, Copying, At, GivenUp, Growing, Local,
                  Used
  <2> QED
    BY <2>1, <2>2
<1>4. \A u \in Tasks : /\ Moving(u)' => /\ Moving(u) /\ task'[u].new = task[u].new
                                        /\ task'[u].old = task[u].old
                       /\ Copying(u)' => Copying(u) /\ task'[u].new = task[u].new
  BY DEF Proceeds, Moving, Copying, At
<1>5. \A d \in Courses : Pending(d)' => Pending(d)
  BY <1>4 DEF Pending
<1>6. Apart'
  <2> SUFFICES ASSUME NEW a \in Tasks, NEW u \in Tasks
               PROVE  /\ a # u /\ Moving(a)' /\ Moving(u)' => task'[a].new # task'[u].new
                      /\ Replacing(a)' /\ Moving(u)' /\ task'[u].new = task'[a].old
                           => course'[task'[a].old].line \in excused'
    BY DEF Apart, GivenUp, Replacing, Moving, Copying, At
  <2>1. a # u /\ Moving(a)' /\ Moving(u)' => task'[a].new # task'[u].new
    BY <1>4 DEF StoreInv, Apart
  <2>2. ASSUME Replacing(a)', Moving(u)', task'[u].new = task'[a].old
        PROVE  course'[task'[a].old].line \in excused'
    <3>1. Moving(u) /\ task[u].new = task'[a].old
      BY <1>4, <2>2
    <3>2. task'[a].old \in Courses
      BY <1>3, <2>2 DEF LocalOK, Used
    <3>3. CASE a # t
      <4>1. Replacing(a) /\ task'[a] = task[a]
        BY <2>2, <3>3 DEF Proceeds, Replacing, Moving, Copying, At
      <4> QED
        BY <1>0, <2>2, <3>1, <3>2, <4>1 DEF Apart, GivenUp, Growing
    <3>4. CASE a = t
      <4>1. Replacing(t)'
        BY <2>2, <3>4
      <4>2. CASE Replacing(t) /\ task'[t].old = task[t].old
        <5>1. GivenUp(task[t].old)
          BY <1>0, <3>1, <3>4, <4>2 DEF Apart
        <5> QED
          BY <3>2, <3>4, <4>2, <5>1 DEF GivenUp, Growing
      <4>3. CASE \A v \in Tasks : Moving(v) /\ task[v].new = task'[t].old
                                  => course[task'[t].old].line \in excused'
        <5>1. course[task'[t].old].line \in excused'
          BY <3>1, <3>4, <4>3
        <5> QED
          BY <3>2, <3>4, <5>1 DEF Growing
      <4> QED
        BY <4>1, <4>2, <4>3 DEF Proceeds
    <3> QED
      BY <3>3, <3>4
  <2> QED
    BY <2>1, <2>2
<1>7. Settled'
  BY <1>5 DEF StoreInv, Settled, GivenUp, Growing, Live, Used
<1>8. EarnedKept'
  <2> SUFFICES ASSUME NEW e \in earned, e \in earned' PROVE Safe(e)'
    BY DEF EarnedKept
  <2>1. CASE e[1] \in excused
    BY <2>1 DEF Safe
  <2>2. ASSUME NEW c \in Live, course[c].line = e[1], e[2] \in course[c].done,
               ~Pending(c), Carried(c, e[2])
        PROVE  Safe(e)'
    <3>1. c \in Courses /\ c \in Live' /\ course'[c].line = e[1]
          /\ e[2] \in course'[c].done /\ ~Pending(c)'
      BY <1>5, <2>2 DEF Growing, Live
    <3>2. e = <<e[1], e[2]>>
      BY DEF StoreInv, StoreTypeOK
    <3>3. ASSUME NEW u \in Tasks, task'[u].old = c
          PROVE  /\ At(u, "insert")' => e[2] \in task'[u].list
                 /\ task'[u].pc \in {"select", "move", "delete"}
                      => e[2] \in course'[task'[u].new].done
      <4>1. CASE u # t
        <5>1. task'[u] = task[u] /\ (Moving(u) => task[u].new \in Courses)
          BY <4>1 DEF Proceeds, StoreInv, LocalOK, Used
        <5> QED
          BY <2>2, <3>3, <5>1 DEF Carried, At, Growing, Moving, Copying
      <4>2. CASE u = t /\ task'[t].pc = "insert"
        <5>1. Moving(t)'
          BY <4>2 DEF Moving, Copying
        <5> QED
          BY <2>2, <3>3, <4>2, <5>1 DEF Proceeds, At
      <4>3. CASE u = t /\ task'[t].pc \in {"select", "move"}
        <5>1. Moving(t)'
          BY <4>3 DEF Moving, Copying
        <5>2. task[t].old = c /\ task'[t].new = task[t].new /\ Moving(t)
          BY <3>3, <4>3, <5>1 DEF Proceeds
        <5>3. task[t].new \in Courses
          BY <5>2 DEF StoreInv, LocalOK, Used
        <5>4. CASE task[t].pc \in {"select", "move"}
          BY <2>2, <4>3, <5>2, <5>3, <5>4 DEF Carried, Growing, At
        <5>5. CASE At(t, "insert") /\ ~(task[t].pc \in {"select", "move"})
          <6>1. e[2] \in task[t].list
            BY <2>2, <5>2, <5>5 DEF Carried
          <6>2. <<course[task[t].old].line, e[2]>> = e
            BY <2>2, <3>2, <5>2
          <6>3. e[2] \in course'[task[t].new].done
            BY <4>3, <5>5, <6>1, <6>2 DEF Proceeds
          <6> QED
            BY <4>3, <5>2, <6>3 DEF At
        <5> QED
          BY <4>3, <5>4, <5>5 DEF Proceeds
      <4>4. CASE u = t /\ ~(task'[t].pc \in {"insert", "select", "move"})
        BY <4>4 DEF Proceeds, At
      <4> QED
        BY <4>1, <4>2, <4>3, <4>4
    <3>4. Carried(c, e[2])'
      BY <3>3 DEF Carried
    <3> QED
      BY <3>1, <3>4 DEF Safe
  <2> QED
    BY <2>1, <2>2 DEF StoreInv, EarnedKept, Safe
<1>9. SessionsKept'
  <2>1. ASSUME NEW s \in Threads
        PROVE  /\ at'[s] = 0 => s \notin expected' \/ GivenUp(1)'
               /\ at'[s] # 0 => /\ at'[s] \in Live'
                                /\ course'[at'[s]].line = course'[1].line
    BY StoreAssumption DEF StoreInv, SessionsKept, Growing, GivenUp, Live
  <2>2. ASSUME NEW u \in Tasks, NEW s \in Threads
        PROVE  /\ Copying(u)' => at'[s] # task'[u].new
               /\ At(u, "move")' =>
                    /\ s \in task'[u].rows
                         => course'[task'[u].old].line = course'[1].line
                    /\ at'[s] = task'[u].old => s \in task'[u].rows \/ GivenUp(1)'
               /\ At(u, "delete")' /\ at'[s] = task'[u].old
                    => s \notin expected' \/ GivenUp(1)'
    <3>1. Copying(u)' => at'[s] # task'[u].new
      BY <1>4 DEF StoreInv, SessionsKept
    <3>2. CASE u = t
      <4>1. ASSUME At(t, "move")'
            PROVE  /\ s \in task'[t].rows
                         => course'[task'[t].old].line = course'[1].line
                   /\ at'[s] = task'[t].old => s \in task'[t].rows
        <5>1. task'[t].old \in Courses /\ task'[t].old # 0
          BY <1>3, <4>1, StoreAssumption
             DEF LocalOK, Replacing, Moving, Copying, At, Used
        <5>2. task'[t].rows = {r \in Threads : at[r] = task'[t].old}
          BY <4>1 DEF Proceeds
        <5>3. /\ course'[task'[t].old].line = course[task'[t].old].line
              /\ course'[1].line = course[1].line
          BY <5>1, StoreAssumption DEF Growing
        <5> QED
          BY <1>0, <5>1, <5>2, <5>3 DEF SessionsKept
      <4> QED
        BY <3>1, <3>2, <4>1 DEF Proceeds
    <3>3. CASE u # t
      <4>1. task'[u] = task[u] /\ (Moving(u) => task[u].old \in Courses)
            /\ expected' = expected /\ at' = at /\ 1 \in Courses
        BY <3>3, StoreAssumption DEF Proceeds, StoreInv, LocalOK, Used, Replacing
      <4>2. course'[1].line = course[1].line /\ (GivenUp(1) => GivenUp(1)')
        BY <4>1 DEF Growing, GivenUp
      <4>3. Moving(u) => course'[task[u].old].line = course[task[u].old].line
        BY <4>1 DEF Growing
      <4>4. /\ At(u, "move") =>
                 /\ s \in task[u].rows => course[task[u].old].line = course[1].line
                 /\ at[s] = task[u].old => s \in task[u].rows \/ GivenUp(1)
            /\ At(u, "delete") /\ at[s] = task[u].old => s \notin expected \/ GivenUp(1)
        BY <1>0 DEF SessionsKept
      <4>5. At(u, "move") \/ At(u, "delete") => Moving(u)
        BY DEF Moving, Copying, At
      <4> QED
        BY <3>1, <4>1, <4>2, <4>3, <4>4, <4>5 DEF At
    <3> QED
      BY <3>2, <3>3
  <2> QED
    BY <2>1, <2>2 DEF SessionsKept
<1>10. ReadsKept'
  <2> SUFFICES ASSUME NEW u \in Tasks, At(u, "write")'
               PROVE  /\ task'[u].version <= course'[task'[u].old].version
                      /\ (/\ task'[u].old \in Live'
                          /\ task'[u].version = course'[task'[u].old].version)
                           => task'[u].nodes = course'[task'[u].old].nodes
    BY DEF ReadsKept
  <2>1. task'[u].old \in Courses /\ task'[u] \in Local
    BY <1>1, <1>3 DEF LocalOK, Used, StoreTypeOK
  <2>2. CASE u = t
    <3>1. task'[u].version \in Nat
      BY <2>1 DEF Local
    <3> QED
      BY <2>1, <2>2, <3>1 DEF Proceeds, Growing
  <2>3. CASE u # t
    <3>1. /\ task'[u] = task[u] /\ At(u, "write")
          /\ task[u].version \in Nat /\ task[u].old \in Courses
      BY <2>1, <2>3 DEF Proceeds, At, Local
    <3>2. /\ course[task[u].old].version \in Nat
          /\ course'[task[u].old].version \in Nat
      BY <3>1 DEF Growing, StoreInv, StoreTypeOK, Row
    <3>3. /\ task[u].version <= course[task[u].old].version
          /\ task[u].old \in Live /\ task[u].version = course[task[u].old].version
               => task[u].nodes = course[task[u].old].nodes
      BY <3>1 DEF StoreInv, ReadsKept
    <3>4. /\ course[task[u].old].version <= course'[task[u].old].version
          /\ course[task[u].old].version = course'[task[u].old].version
               => course'[task[u].old].nodes = course[task[u].old].nodes
          /\ task[u].old \in Live' => task[u].old \in Live
      BY <3>1 DEF Growing
    <3> QED
      BY <3>1, <3>2, <3>3, <3>4
  <2> QED
    BY <2>2, <2>3
<1> QED
  BY <1>1, <1>2, <1>3, <1>6, <1>7, <1>8, <1>9, <1>10 DEF StoreInv
-----------------------------------------------------------------------------
(* A course goes.                                                          *)

\* Why the course c goes, in a step after which t has ended.
MayGo(c) ==
  \/ c \in Courses /\ course[c].line \in excused'
  \/ \E t \in Tasks : /\ ~Moving(t)'
                      /\ \/ Copying(t) /\ c = task[t].new
                         \/ At(t, "delete") /\ c = task[t].old

LEMMA Removed ==
  ASSUME StoreInv, NEW c \in Courses, MayGo(c),
         course' = Deleted(c), at' = WithoutSessions(c),
         task' \in [Tasks -> Local],
         \A u \in Tasks : task'[u] = task[u] \/ task'[u].pc = "end",
         turn' = turn, earned' = earned, expected' = expected,
         excused \subseteq excused', excused' \subseteq Nat
  PROVE  StoreInv'
<1> USE StoreAssumption
<1>0. /\ Apart /\ SessionsKept /\ StoreTypeOK /\ Live \subseteq Used
      /\ Used \subseteq Courses /\ 0 \notin Courses
      /\ \A t \in Tasks : LocalOK(t)
  BY DEF StoreInv, Used
<1>1. /\ course' \in [Courses -> Row] /\ Used' = Used /\ Live' = Live \ {c}
      /\ \A d \in Courses : /\ course'[d].line = course[d].line
                            /\ course'[d].version = course[d].version
                            /\ d # c => course'[d] = course[d]
  BY <1>0, DeletedFacts
<1>2. /\ at' \in [Threads -> Courses \cup {0}]
      /\ \A s \in Threads : /\ at[s] # c => at'[s] = at[s]
                            /\ at[s] = c => at'[s] = 0
  BY WithoutSessionsFacts
<1>3. StoreTypeOK'
  BY <1>0, <1>1, <1>2 DEF StoreTypeOK
<1>4. \A u \in Tasks : task'[u].pc # "end" => task'[u] = task[u]
  OBVIOUS
<1>5. \A d \in Courses : Pending(d)' => Pending(d)
  BY <1>4 DEF Pending, Copying
\* A course being filled goes only when its line is given up.
<1>6. ASSUME NEW u \in Tasks, Moving(u)', task'[u].new = c
      PROVE  course[c].line \in excused'
  <2>1. task'[u] = task[u] /\ Moving(u)
    BY <1>4, <1>6 DEF Moving, Copying, At
  <2>2. ASSUME NEW t \in Tasks, ~Moving(t)', Copying(t), c = task[t].new
        PROVE  FALSE
    <3>1. t # u
      BY <1>6, <2>2
    <3> QED
      BY <1>0, <1>6, <2>1, <2>2, <3>1 DEF Apart, Moving
  <2>3. ASSUME NEW t \in Tasks, At(t, "delete"), c = task[t].old
        PROVE  GivenUp(c)
    BY <1>0, <1>6, <2>1, <2>3 DEF Apart, Moving, Replacing
  <2> QED
    BY <2>2, <2>3 DEF MayGo, GivenUp
<1>7. ASSUME NEW u \in Tasks PROVE LocalOK(u)'
  <2>1. CASE task'[u].pc = "end"
    BY <2>1 DEF LocalOK, Replacing, Moving, Copying, At
  <2>2. CASE task'[u].pc # "end"
    <3>1. task'[u] = task[u] /\ LocalOK(u)
      BY <1>0, <1>4, <2>2
    <3>2. Moving(u)' => Moving(u) /\ task[u].new \in Used /\ task[u].old \in Used
      BY <3>1 DEF LocalOK, Replacing, Moving, Copying, At
    <3>3. Moving(u)' => task[u].new \in Live' \/ course'[task[u].new].line \in excused'
      <4>1. CASE task[u].new = c
        BY <1>0, <1>1, <1>6, <3>1, <3>2, <4>1
      <4>2. CASE task[u].new # c
        BY <1>0, <1>1, <3>1, <3>2, <4>2 DEF LocalOK, GivenUp
      <4> QED
        BY <4>1, <4>2
    <3>4. Moving(u)' => /\ course'[task[u].new].line = course[task[u].new].line
                        /\ course'[task[u].old].line = course[task[u].old].line
      BY <1>0, <1>1, <3>2
    <3>5. /\ Replacing(u)' = Replacing(u) /\ At(u, "write")' = At(u, "write")
          /\ At(u, "clear")' = At(u, "clear") /\ At(u, "create")' = At(u, "create")
      BY <3>1 DEF Replacing, Moving, Copying, At
    <3> QED
      BY <1>1, <3>1, <3>2, <3>3, <3>4, <3>5 DEF LocalOK, GivenUp
  <2> QED
    BY <2>1, <2>2
<1>8. Apart'
  <2> SUFFICES ASSUME NEW a \in Tasks, NEW u \in Tasks
               PROVE  /\ a # u /\ Moving(a)' /\ Moving(u)' => task'[a].new # task'[u].new
                      /\ Replacing(a)' /\ Moving(u)' /\ task'[u].new = task'[a].old
                           => course'[task'[a].old].line \in excused'
    BY DEF Apart, GivenUp, Replacing, Moving, Copying, At
  <2>1. /\ Moving(a)' => Moving(a) /\ task'[a] = task[a]
        /\ Moving(u)' => Moving(u) /\ task'[u] = task[u]
        /\ Replacing(a)' => /\ Replacing(a) /\ task'[a] = task[a]
                            /\ task[a].old \in Courses
    BY <1>0, <1>4 DEF Moving, Copying, Replacing, At, LocalOK
  <2>2. Replacing(a)' => course'[task[a].old].line = course[task[a].old].line
    BY <1>1, <2>1
  <2> QED
    BY <1>0, <2>1, <2>2 DEF Apart, GivenUp
\* The course that replaces c is not being filled any more.
<1>9. ASSUME NEW t \in Tasks, ~Moving(t)', At(t, "delete"), c = task[t].old,
             NEW n, n = task[t].new
      PROVE  /\ n \in Used /\ ~Pending(n)' /\ n # c /\ course[n].line = course[c].line
             /\ n \in Live' \/ GivenUp(c)
             /\ \A k : Carried(c, k) =>
                  k \in course'[n].done /\ (Carried(n, k)' \/ GivenUp(c))
  <2>1. /\ n \in Used /\ n # c /\ course[n].line = course[c].line
        /\ n \in Live' \/ GivenUp(c)
    BY <1>0, <1>1, <1>9 DEF LocalOK, Moving, GivenUp
  <2>2. ASSUME NEW u \in Tasks, Copying(u)', task'[u].new = n PROVE FALSE
    <3>1. task'[u] = task[u] /\ Copying(u)
      BY <1>4, <2>2 DEF Copying
    <3>2. u # t
      BY <1>9, <2>2 DEF Moving, Copying, At
    <3> QED
      BY <1>0, <1>9, <2>2, <3>1, <3>2 DEF Apart, Moving
  <2>3. ~Pending(n)'
    BY <2>2 DEF Pending, Copying
  <2>4. ASSUME NEW k, Carried(c, k) PROVE k \in course'[n].done
    BY <1>0, <1>1, <1>9, <2>1, <2>4 DEF Carried, At
  <2>5. ASSUME NEW k, ~GivenUp(c) PROVE Carried(n, k)'
    <3>1. ASSUME NEW u \in Tasks, task'[u].old = n,
                 task'[u].pc \in {"insert", "select", "move", "delete"}
          PROVE  FALSE
      <4>1. task'[u] = task[u] /\ Replacing(u) /\ Moving(t)
        BY <1>4, <1>9, <3>1 DEF Replacing, Moving, Copying, At
      <4>2. GivenUp(n)
        BY <1>0, <1>9, <3>1, <4>1 DEF Apart
      <4> QED
        BY <2>1, <2>5, <4>2 DEF GivenUp
    <3> QED
      BY <3>1 DEF Carried, At
  <2> QED
    BY <2>1, <2>3, <2>4, <2>5
<1>10. \A d \in Live : ~Pending(d) /\ d = c =>
         \/ course[c].line \in excused'
         \/ \E t \in Tasks : ~Moving(t)' /\ At(t, "delete") /\ c = task[t].old
  BY DEF MayGo, Pending
<1>11. Settled'
  <2> SUFFICES ASSUME NEW d \in Used
               PROVE  \/ course'[d].line \in excused'
                      \/ \E w \in Live' : course'[w].line = course'[d].line
                                          /\ ~Pending(w)'
    BY <1>1 DEF Settled, GivenUp, Pending, Copying
  <2>1. CASE GivenUp(d)
    BY <1>0, <1>1, <2>1 DEF GivenUp
  <2>2. ASSUME NEW w \in Live, course[w].line = course[d].line, ~Pending(w)
        PROVE  \/ course'[d].line \in excused'
               \/ \E x \in Live' : course'[x].line = course'[d].line /\ ~Pending(x)'
    <3>1. CASE w # c
      BY <1>0, <1>1, <1>5, <2>2, <3>1
    <3>2. CASE w = c /\ course[c].line \in excused'
      BY <1>0, <1>1, <2>2, <3>2
    <3>3. ASSUME w = c, NEW t \in Tasks, ~Moving(t)', At(t, "delete"), c = task[t].old
          PROVE  \/ course'[d].line \in excused'
                 \/ \E x \in Live' : course'[x].line = course'[d].line /\ ~Pending(x)'
      <4>0. PICK n : n = task[t].new
        OBVIOUS
      <4>1. /\ n \in Courses /\ ~Pending(n)' /\ course[n].line = course[d].line
            /\ n \in Live' \/ course[d].line \in excused'
        BY <1>0, <1>9, <2>2, <3>3, <4>0 DEF GivenUp
      <4>2. course'[d].line = course[d].line /\ course'[n].line = course[n].line
        BY <1>0, <1>1, <4>1
      <4> QED
        BY <4>1, <4>2
    <3> QED
      BY <1>10, <2>2, <3>1, <3>2, <3>3
  <2> QED
    BY <2>1, <2>2 DEF StoreInv, Settled
<1>12. EarnedKept'
  <2> SUFFICES ASSUME NEW e \in earned PROVE Safe(e)'
    BY DEF EarnedKept
  <2>1. CASE e[1] \in excused'
    BY <2>1 DEF Safe
  <2>2. ASSUME NEW w \in Live, course[w].line = e[1], e[2] \in course[w].done,
               ~Pending(w), Carried(w, e[2]), e[1] \notin excused'
        PROVE  Safe(e)'
    <3>1. CASE w # c
      <4>1. /\ w \in Courses /\ w \in Live' /\ course'[w].line = e[1]
            /\ e[2] \in course'[w].done /\ ~Pending(w)'
        BY <1>0, <1>1, <1>5, <2>2, <3>1
      <4>2. ASSUME NEW u \in Tasks, task'[u].old = w,
                   task'[u].pc \in {"insert", "select", "move", "delete"}
            PROVE  /\ At(u, "insert")' => e[2] \in task'[u].list
                   /\ task'[u].pc \in {"select", "move", "delete"}
                        => e[2] \in course'[task'[u].new].done
        <5>1. task'[u] = task[u] /\ Moving(u) /\ Moving(u)'
          BY <1>4, <4>2 DEF Moving, Copying, At
        <5>2. /\ task[u].new \in Courses
              /\ course[task[u].new].line = course[task[u].old].line
          BY <1>0, <5>1 DEF LocalOK
        <5>3. task[u].new # c
          BY <1>6, <2>2, <4>2, <5>1, <5>2
        <5>4. course'[task[u].new] = course[task[u].new]
          BY <1>1, <5>2, <5>3
        <5> QED
          BY <2>2, <4>2, <5>1, <5>4 DEF Carried, At
      <4>3. Carried(w, e[2])'
        BY <4>2 DEF Carried, At
      <4> QED
        BY <4>1, <4>3 DEF Safe
    <3>2. ASSUME w = c, NEW t \in Tasks, ~Moving(t)', At(t, "delete"), c = task[t].old
          PROVE  Safe(e)'
      <4>1. ~GivenUp(c)
        BY <2>2, <3>2 DEF GivenUp
      <4>2. PICK n : n = task[t].new
        OBVIOUS
      <4>3. /\ n \in Courses /\ n \in Live' /\ course[n].line = e[1] /\ ~Pending(n)'
            /\ e[2] \in course'[n].done /\ Carried(n, e[2])'
        BY <1>0, <1>9, <2>2, <3>2, <4>1, <4>2
      <4> QED
        BY <1>1, <4>3 DEF Safe
    <3> QED
      BY <1>10, <2>2, <3>1, <3>2
  <2> QED
    BY <2>1, <2>2 DEF StoreInv, EarnedKept, Safe
<1>13. SessionsKept'
  <2>1. ASSUME NEW s \in Threads
        PROVE  /\ at'[s] = 0 => s \notin expected' \/ GivenUp(1)'
               /\ at'[s] # 0 => /\ at'[s] \in Live'
                                /\ course'[at'[s]].line = course'[1].line
    <3>1. CASE at[s] = c
      <4>1. at'[s] = 0 /\ course[c].line = course[1].line
        BY <1>0, <1>2, <3>1 DEF SessionsKept
      <4>2. CASE course[c].line \in excused'
        BY <1>1, <4>1, <4>2 DEF GivenUp
      <4>3. CASE \E t \in Tasks : At(t, "delete") /\ c = task[t].old
        BY <1>0, <1>1, <3>1, <4>1, <4>3 DEF SessionsKept, GivenUp
      <4>4. CASE \E t \in Tasks : Copying(t) /\ c = task[t].new
        BY <1>0, <3>1, <4>4 DEF SessionsKept
      <4> QED
        BY <4>2, <4>3, <4>4 DEF MayGo
    <3>2. CASE at[s] # c
      <4>1. at'[s] = at[s] /\ course'[1].line = course[1].line
        BY <1>1, <1>2, <3>2
      <4>2. CASE at[s] = 0
        BY <1>0, <4>1, <4>2 DEF SessionsKept, GivenUp
      <4>3. CASE at[s] # 0
        <5>1. at[s] \in Live /\ course[at[s]].line = course[1].line
          BY <1>0, <4>3 DEF SessionsKept
        <5> QED
          BY <1>0, <1>1, <3>2, <4>1, <4>3, <5>1
      <4> QED
        BY <4>2, <4>3
    <3> QED
      BY <3>1, <3>2
  <2>2. ASSUME NEW u \in Tasks, NEW s \in Threads
        PROVE  /\ Copying(u)' => at'[s] # task'[u].new
               /\ At(u, "move")' =>
                    /\ s \in task'[u].rows
                         => course'[task'[u].old].line = course'[1].line
                    /\ at'[s] = task'[u].old => s \in task'[u].rows \/ GivenUp(1)'
               /\ At(u, "delete")' /\ at'[s] = task'[u].old
                    => s \notin expected' \/ GivenUp(1)'
    <3>1. CASE ~Moving(u)'
      BY <3>1 DEF Moving, Copying, At
    <3>2. CASE Moving(u)'
      <4>1. task'[u] = task[u] /\ Moving(u)
        BY <1>4, <3>2 DEF Moving, Copying, At
      <4>2. task[u].new \in Courses /\ task[u].old \in Courses
        BY <1>0, <4>1 DEF LocalOK, Replacing
      <4>3. (GivenUp(1) => GivenUp(1)') /\ (at'[s] = at[s] \/ at'[s] = 0)
        BY <1>1, <1>2 DEF GivenUp
      <4>4. course'[task[u].old].line = course[task[u].old].line
            /\ course'[1].line = course[1].line
        BY <1>1, <4>2
      <4>5. /\ Copying(u) => at[s] # task[u].new
            /\ At(u, "move") =>
                 /\ s \in task[u].rows => course[task[u].old].line = course[1].line
                 /\ at[s] = task[u].old => s \in task[u].rows \/ GivenUp(1)
            /\ At(u, "delete") /\ at[s] = task[u].old => s \notin expected \/ GivenUp(1)
        BY <1>0 DEF SessionsKept
      <4> QED
        BY <1>0, <4>1, <4>2, <4>3, <4>4, <4>5 DEF At, Copying
    <3> QED
      BY <3>1, <3>2
  <2> QED
    BY <2>1, <2>2 DEF SessionsKept
<1>14. ReadsKept'
  <2> SUFFICES ASSUME NEW u \in Tasks, At(u, "write")'
               PROVE  /\ task'[u].version <= course'[task'[u].old].version
                      /\ (/\ task'[u].old \in Live'
                          /\ task'[u].version = course'[task'[u].old].version)
                           => task'[u].nodes = course'[task'[u].old].nodes
    BY DEF ReadsKept
  <2>1. task'[u] = task[u] /\ At(u, "write")
    BY <1>4 DEF At
  <2>2. task[u].old \in Courses
    BY <1>0, <2>1 DEF LocalOK
  <2>3. course'[task[u].old].version = course[task[u].old].version
    BY <1>1, <2>2
  <2>4. task[u].old \in Live'
          => task[u].old \in Live /\ course'[task[u].old] = course[task[u].old]
    BY <1>1, <2>2
  <2> QED
    BY <2>1, <2>3, <2>4 DEF StoreInv, ReadsKept
<1> QED
  BY <1>0, <1>1, <1>3, <1>7, <1>8, <1>11, <1>12, <1>13, <1>14 DEF StoreInv
-----------------------------------------------------------------------------
(* A course comes.                                                         *)

LEMMA Created ==
  ASSUME StoreInv, NEW t \in Tasks, CreateDomainFromTree(t)
  PROVE  StoreInv'
<1> USE StoreAssumption
<1>0. /\ Apart /\ SessionsKept /\ StoreTypeOK /\ Live \subseteq Used /\ 1 \in Used
      /\ Used \subseteq Courses /\ 0 \notin Courses /\ Courses \subseteq Nat
      /\ At(t, "create") /\ UNCHANGED <<at, turn, earned, expected, excused>>
      /\ \A u \in Tasks : LocalOK(u)
  BY DEF StoreInv, Used, CreateDomainFromTree
<1>1. PICK slug \in Topics \cup {task[t].slug}, outline \in Outlines, c \in Unused :
        /\ course' = [course EXCEPT ![c] =
             [live |-> TRUE, slug |-> slug, version |-> 1, done |-> {},
              nodes |-> IF task[t].kind = "merge"
                        THEN outline \cup task[t].nodes ELSE outline,
              line |-> IF task[t].kind = "build" THEN c
                       ELSE course[task[t].old].line]]
        /\ IF task[t].kind = "build" THEN Ends(t)
           ELSE task' = [task EXCEPT ![t] = [@ EXCEPT
                  !.pc = "list", !.new = c,
                  !.valid = IF task[t].kind = "merge"
                            THEN task[t].nodes ELSE outline]]
  BY DEF CreateDomainFromTree
<1> DEFINE built == task[t].kind = "build"
           line == IF built THEN c ELSE course[task[t].old].line
           row == [live |-> TRUE, slug |-> slug, version |-> 1, done |-> {},
                   nodes |-> IF task[t].kind = "merge"
                             THEN outline \cup task[t].nodes ELSE outline,
                   line |-> line]
<1>2. task[t] \in Local /\ c \in Courses /\ c \notin Used
  BY <1>0 DEF StoreTypeOK, Unused, Used
<1>3. ~built => Replacing(t) /\ task[t].old \in Used
  BY <1>0 DEF LocalOK, Replacing, At
<1>4. line \in Nat
  BY <1>0, <1>2, <1>3 DEF StoreTypeOK, Row
<1>5. outline \subseteq Key
  BY DEF Key
<1>6. row \in Row /\ row.live /\ row.version = 1 /\ row.line = line
  BY <1>2, <1>4, <1>5 DEF Row, Local, Slug
<1>7. course' = [course EXCEPT ![c] = row]
  BY <1>1
<1> HIDE DEF row
<1>8. /\ course' \in [Courses -> Row] /\ Live' = Live \cup {c} /\ Used' = Used \cup {c}
      /\ course'[c].line = line
      /\ \A d \in Courses : d # c => course'[d] = course[d]
  BY <1>0, <1>2, <1>6, <1>7 DEF StoreTypeOK, Live, Used, Unused
<1>9. /\ task' \in [Tasks -> Local]
      /\ \A u \in Tasks : u # t => task'[u] = task[u]
      /\ built => task'[t].pc = "end"
      /\ ~built => /\ task'[t].pc = "list" /\ task'[t].new = c
                   /\ task'[t].old = task[t].old /\ task'[t].kind = task[t].kind
  <2>1. CASE built
    BY <1>0, <1>1, <2>1, EndsFacts
  <2>2. CASE ~built
    <3> DEFINE l == [task[t] EXCEPT !.pc = "list", !.new = c,
                       !.valid = IF task[t].kind = "merge"
                                 THEN task[t].nodes ELSE outline]
    <3>1. /\ l \in Local /\ l.pc = "list" /\ l.new = c /\ l.old = task[t].old
          /\ l.kind = task[t].kind
      BY <1>2, <1>5 DEF Local
    <3>2. task' = [task EXCEPT ![t] = l]
      BY <1>1, <2>2
    <3> HIDE DEF l
    <3> QED
      BY <1>0, <2>2, <3>1, <3>2 DEF StoreTypeOK
  <2> QED
    BY <2>1, <2>2
<1>10. StoreTypeOK'
  BY <1>0, <1>8, <1>9 DEF StoreTypeOK
<1> HIDE DEF built, line
<1>11. \A u \in Tasks : Moving(u) => /\ task[u].new \in Used /\ task[u].new # c
                                     /\ task[u].old \in Used /\ task[u].old # c
  BY <1>0, <1>2 DEF LocalOK, Replacing
<1>12. \A d \in Used : Pending(d)' => Pending(d)
  BY <1>2, <1>9 DEF Pending, Copying
<1>13. ASSUME NEW u \in Tasks PROVE LocalOK(u)'
  <2>1. CASE u = t /\ built
    BY <1>9, <2>1 DEF LocalOK, Replacing, Moving, Copying, At
  <2>2. CASE u = t /\ ~built
    <3>1. /\ task'[t].kind \in {"regenerate", "merge"} /\ task'[t].new = c
          /\ task'[t].old \in Used /\ task'[t].old # c /\ task'[t].pc = "list"
      BY <1>0, <1>2, <1>3, <1>9, <2>2 DEF LocalOK, built
    <3>2. /\ c \in Live' /\ c \in Used' /\ task'[t].old \in Used'
          /\ course'[c].line = course'[task'[t].old].line
      BY <1>0, <1>8, <1>9, <2>2, <3>1 DEF line
    <3> QED
      BY <2>2, <3>1, <3>2 DEF LocalOK, At
  <2>3. CASE u # t
    <3>1. task'[u] = task[u] /\ LocalOK(u)
      BY <1>0, <1>9, <2>3
    <3>2. Moving(u) => /\ course'[task[u].new] = course[task[u].new]
                       /\ course'[task[u].old] = course[task[u].old]
      BY <1>0, <1>8, <1>11
    <3>3. /\ Replacing(u)' = Replacing(u) /\ At(u, "write")' = At(u, "write")
          /\ At(u, "clear")' = At(u, "clear") /\ At(u, "create")' = At(u, "create")
          /\ Moving(u)' = Moving(u)
      BY <3>1 DEF Replacing, Moving, Copying, At
    <3> QED
      BY <1>0, <1>8, <3>1, <3>2, <3>3 DEF LocalOK, GivenUp
  <2> QED
    BY <2>1, <2>2, <2>3
<1>14. Apart'
  <2> SUFFICES ASSUME NEW a \in Tasks, NEW u \in Tasks
               PROVE  /\ a # u /\ Moving(a)' /\ Moving(u)' => task'[a].new # task'[u].new
                      /\ Replacing(a)' /\ Moving(u)' /\ task'[u].new = task'[a].old
                           => course'[task'[a].old].line \in excused'
    BY DEF Apart, GivenUp, Replacing, Moving, Copying, At
  <2>1. /\ a # t /\ Moving(a)' => Moving(a) /\ task'[a] = task[a]
        /\ u # t /\ Moving(u)' => Moving(u) /\ task'[u] = task[u]
        /\ a = t /\ Moving(a)' => task'[a].new = c
        /\ u = t /\ Moving(u)' => task'[u].new = c
        /\ Replacing(a)' => Replacing(a) /\ task'[a].old = task[a].old
    BY <1>3, <1>9 DEF Moving, Copying, Replacing, At
  <2>2. Replacing(a) => /\ task[a].old \in Used /\ task[a].old # c
                        /\ course'[task[a].old].line = course[task[a].old].line
    BY <1>0, <1>2, <1>8 DEF LocalOK
  <2>3. a # u /\ Moving(a)' /\ Moving(u)' => task'[a].new # task'[u].new
    BY <1>0, <1>11, <2>1 DEF Apart
  <2>4. ASSUME Replacing(a)', Moving(u)', task'[u].new = task'[a].old
        PROVE  course'[task'[a].old].line \in excused'
    <3>1. u # t /\ Moving(u) /\ task[u].new = task[a].old /\ Replacing(a)
      BY <2>1, <2>2, <2>4
    <3>2. GivenUp(task[a].old)
      BY <1>0, <3>1 DEF Apart
    <3> QED
      BY <1>0, <2>1, <2>2, <2>4, <3>2 DEF GivenUp
  <2> QED
    BY <2>3, <2>4
<1>15. Settled'
  <2> SUFFICES ASSUME NEW d \in Used \cup {c}
               PROVE  \/ course'[d].line \in excused'
                      \/ \E w \in Live' : course'[w].line = course'[d].line
                                          /\ ~Pending(w)'
    BY <1>8 DEF Settled, GivenUp, Pending, Copying
  <2>1. ASSUME NEW b \in Used, course[b].line = course'[d].line
        PROVE  \/ course'[d].line \in excused'
               \/ \E w \in Live' : course'[w].line = course'[d].line /\ ~Pending(w)'
    <3>1. CASE GivenUp(b)
      BY <1>0, <2>1, <3>1 DEF GivenUp
    <3>2. ASSUME NEW w \in Live, course[w].line = course[b].line, ~Pending(w)
          PROVE  \E x \in Live' : course'[x].line = course'[d].line /\ ~Pending(x)'
      <4>1. w \in Used /\ w # c /\ w \in Live' /\ ~Pending(w)'
        BY <1>0, <1>2, <1>8, <1>12, <3>2
      <4>2. course'[w].line = course'[d].line
        BY <1>0, <1>8, <2>1, <3>2, <4>1
      <4> QED
        BY <4>1, <4>2
    <3> QED
      BY <3>1, <3>2 DEF StoreInv, Settled
  <2>2. CASE d # c
    BY <1>0, <1>8, <2>1, <2>2
  <2>3. CASE d = c /\ ~built
    BY <1>3, <1>8, <2>1, <2>3 DEF line
  <2>4. CASE d = c /\ built
    <3>1. ASSUME NEW u \in Tasks, Copying(u)', task'[u].new = c PROVE FALSE
      BY <1>9, <1>11, <2>4, <3>1 DEF Moving, Copying
    <3>2. ~Pending(c)'
      BY <3>1 DEF Pending, Copying
    <3> QED
      BY <1>8, <2>4, <3>2
  <2> QED
    BY <2>2, <2>3, <2>4
<1>16. EarnedKept'
  <2> SUFFICES ASSUME NEW e \in earned PROVE Safe(e)'
    BY <1>0 DEF EarnedKept
  <2>1. CASE e[1] \in excused
    BY <1>0, <2>1 DEF Safe
  <2>2. ASSUME NEW w \in Live, course[w].line = e[1], e[2] \in course[w].done,
               ~Pending(w), Carried(w, e[2])
        PROVE  Safe(e)'
    <3>1. /\ w \in Live' /\ course'[w].line = e[1] /\ e[2] \in course'[w].done
          /\ ~Pending(w)'
      BY <1>0, <1>2, <1>8, <1>12, <2>2
    <3>2. ASSUME NEW u \in Tasks, task'[u].old = w
          PROVE  /\ At(u, "insert")' => e[2] \in task'[u].list
                 /\ task'[u].pc \in {"select", "move", "delete"}
                      => e[2] \in course'[task'[u].new].done
      <4>1. CASE u # t
        <5>1. task'[u] = task[u]
          BY <1>9, <4>1
        <5>2. Moving(u) => course'[task[u].new] = course[task[u].new]
          BY <1>0, <1>8, <1>11
        <5> QED
          BY <2>2, <3>2, <5>1, <5>2 DEF Carried, At, Moving, Copying
      <4>2. CASE u = t
        BY <1>9, <4>2 DEF At
      <4> QED
        BY <4>1, <4>2
    <3>3. Carried(w, e[2])'
      BY <3>2 DEF Carried
    <3> QED
      BY <3>1, <3>3 DEF Safe
  <2> QED
    BY <2>1, <2>2 DEF StoreInv, EarnedKept, Safe
<1>17. SessionsKept'
  <2>0. course'[1].line = course[1].line /\ (GivenUp(1) => GivenUp(1)')
    BY <1>0, <1>2, <1>8 DEF GivenUp
  <2>1. ASSUME NEW s \in Threads
        PROVE  /\ at'[s] = 0 => s \notin expected' \/ GivenUp(1)'
               /\ at'[s] # 0 => /\ at'[s] \in Live'
                                /\ course'[at'[s]].line = course'[1].line
    <3>1. at'[s] = at[s] /\ expected' = expected
      BY <1>0
    <3>2. at[s] # 0 => /\ at[s] \in Live /\ course[at[s]].line = course[1].line
                       /\ course'[at[s]] = course[at[s]] /\ at[s] \in Live'
      BY <1>0, <1>2, <1>8 DEF SessionsKept
    <3> QED
      BY <1>0, <2>0, <3>1, <3>2 DEF SessionsKept
  <2>2. ASSUME NEW u \in Tasks, NEW s \in Threads
        PROVE  /\ Copying(u)' => at'[s] # task'[u].new
               /\ At(u, "move")' =>
                    /\ s \in task'[u].rows
                         => course'[task'[u].old].line = course'[1].line
                    /\ at'[s] = task'[u].old => s \in task'[u].rows \/ GivenUp(1)'
               /\ At(u, "delete")' /\ at'[s] = task'[u].old
                    => s \notin expected' \/ GivenUp(1)'
    <3>1. CASE u = t
      <4>1. at'[s] # c
        BY <1>0, <1>2 DEF SessionsKept
      <4> QED
        BY <1>9, <3>1, <4>1 DEF Copying, At
    <3>2. CASE u # t
      <4>1. task'[u] = task[u] /\ at' = at /\ expected' = expected
        BY <1>0, <1>9, <3>2
      <4>2. Moving(u) => course'[task[u].old].line = course[task[u].old].line
        BY <1>0, <1>8, <1>11
      <4>3. /\ Copying(u) => at[s] # task[u].new
            /\ At(u, "move") =>
                 /\ s \in task[u].rows => course[task[u].old].line = course[1].line
                 /\ at[s] = task[u].old => s \in task[u].rows \/ GivenUp(1)
            /\ At(u, "delete") /\ at[s] = task[u].old => s \notin expected \/ GivenUp(1)
        BY <1>0 DEF SessionsKept
      <4>4. At(u, "move") \/ At(u, "delete") => Moving(u)
        BY DEF Moving, Copying, At
      <4> QED
        BY <2>0, <4>1, <4>2, <4>3, <4>4 DEF At, Copying
    <3> QED
      BY <3>1, <3>2
  <2> QED
    BY <2>1, <2>2 DEF SessionsKept
<1>18. ReadsKept'
  <2> SUFFICES ASSUME NEW u \in Tasks, At(u, "write")'
               PROVE  /\ task'[u].version <= course'[task'[u].old].version
                      /\ (/\ task'[u].old \in Live'
                          /\ task'[u].version = course'[task'[u].old].version)
                           => task'[u].nodes = course'[task'[u].old].nodes
    BY DEF ReadsKept
  <2>1. task'[u] = task[u] /\ At(u, "write")
    BY <1>9 DEF At
  <2>2. task[u].old \in Used /\ course'[task[u].old] = course[task[u].old]
    BY <1>0, <1>2, <1>8, <2>1 DEF LocalOK
  <2>3. task[u].old \in Live' => task[u].old \in Live
    BY <1>2, <1>8, <2>2
  <2> QED
    BY <2>1, <2>2, <2>3 DEF StoreInv, ReadsKept
<1> QED
  BY <1>0, <1>8, <1>10, <1>13, <1>14, <1>15, <1>16, <1>17, <1>18 DEF StoreInv
-----------------------------------------------------------------------------
(* Sessions move.                                                          *)

LEMMA SessionsMoved ==
  ASSUME StoreInv, NEW t \in Tasks, MigrateSessions(t)
  PROVE  StoreInv'
<1> USE StoreAssumption
<1>0. /\ Apart /\ SessionsKept /\ StoreTypeOK /\ Live \subseteq Used /\ 0 \notin Courses
      /\ At(t, "move") /\ UNCHANGED <<course, turn, earned, excused>>
      /\ \A u \in Tasks : LocalOK(u)
  BY DEF StoreInv, MigrateSessions
<1>1. /\ task' \in [Tasks -> Local] /\ task'[t] = [task[t] EXCEPT !.pc = "delete"]
      /\ \A u \in Tasks \ {t} : task'[u] = task[u]
  BY <1>0, ToFacts DEF MigrateSessions
<1>2. task[t] \in Local
  BY <1>0 DEF StoreTypeOK
<1>3. /\ task'[t].pc = "delete"
      /\ task'[t].new = task[t].new /\ task'[t].old = task[t].old
      /\ task'[t].kind = task[t].kind
  BY <1>1, <1>2 DEF Local
<1> DEFINE moved == {s \in task[t].rows : NodeOf[s] \in task[t].valid}
<1>4. /\ (\E s \in moved : at[s] # 0) => task[t].new \in Live
      /\ at' = [s \in Threads |-> IF s \in moved /\ at[s] # 0 THEN task[t].new ELSE at[s]]
      /\ expected' = expected \ (task[t].rows \ moved)
  BY DEF MigrateSessions
<1> HIDE DEF moved
<1>5. /\ Copying(t) /\ Moving(t) /\ task[t].new \in Used /\ task[t].old \in Used
      /\ task[t].new # task[t].old
      /\ course[task[t].new].line = course[task[t].old].line
  BY <1>0 DEF Moving, Copying, LocalOK, Replacing, At
<1>6. \A u \in Tasks : /\ Moving(u)' => /\ Moving(u) /\ task'[u].new = task[u].new
                                        /\ task'[u].old = task[u].old
                       /\ Copying(u)' => Copying(u) /\ task'[u].new = task[u].new /\ u # t
  BY <1>1, <1>3, <1>5 DEF Moving, Copying, At
<1>7. StoreTypeOK'
  BY <1>0, <1>1, <1>4, <1>5 DEF StoreTypeOK, Used
<1>8. ASSUME NEW u \in Tasks PROVE LocalOK(u)'
  <2>1. CASE u = t
    BY <1>0, <1>3, <1>5, <2>1
       DEF LocalOK, Replacing, Moving, Copying, At, Used, Unused, Live, GivenUp
  <2>2. CASE u # t
    BY <1>0, <1>1, <2>2
       DEF LocalOK, Replacing, Moving, Copying, At, Used, Unused, Live, GivenUp
  <2> QED
    BY <2>1, <2>2
<1>9. Apart'
  <2> SUFFICES ASSUME NEW a \in Tasks, NEW u \in Tasks
               PROVE  /\ a # u /\ Moving(a)' /\ Moving(u)' => task'[a].new # task'[u].new
                      /\ Replacing(a)' /\ Moving(u)' /\ task'[u].new = task'[a].old
                           => course'[task'[a].old].line \in excused'
    BY DEF Apart, GivenUp, Replacing, Moving, Copying, At
  <2>1. /\ Moving(a)' => Moving(a) /\ task'[a].new = task[a].new
        /\ Moving(u)' => Moving(u) /\ task'[u].new = task[u].new
        /\ Replacing(a)' => Replacing(a) /\ task'[a].old = task[a].old
    BY <1>1, <1>3, <1>5 DEF Replacing, Moving, Copying, At
  <2> QED
    BY <1>0, <2>1 DEF Apart, GivenUp
<1>10. \A d \in Courses : Pending(d)' => Pending(d)
  BY <1>6 DEF Pending
<1>11. Settled'
  BY <1>0, <1>10 DEF StoreInv, Settled, GivenUp, Live, Used, Unused
<1>12. EarnedKept'
  <2> SUFFICES ASSUME NEW e \in earned PROVE Safe(e)'
    BY <1>0 DEF EarnedKept
  <2>1. CASE e[1] \in excused
    BY <1>0, <2>1 DEF Safe
  <2>2. ASSUME NEW w \in Live, course[w].line = e[1], e[2] \in course[w].done,
               ~Pending(w), Carried(w, e[2])
        PROVE  Safe(e)'
    <3>1. /\ w \in Live' /\ course'[w].line = e[1] /\ e[2] \in course'[w].done
          /\ ~Pending(w)'
      BY <1>0, <1>10, <2>2 DEF Live
    <3>2. ASSUME NEW u \in Tasks, task'[u].old = w
          PROVE  /\ At(u, "insert")' => e[2] \in task'[u].list
                 /\ task'[u].pc \in {"select", "move", "delete"}
                      => e[2] \in course'[task'[u].new].done
      <4>1. CASE u = t
        BY <1>0, <1>3, <2>2, <3>2, <4>1 DEF Carried, At
      <4>2. CASE u # t
        BY <1>0, <1>1, <2>2, <3>2, <4>2 DEF Carried, At
      <4> QED
        BY <4>1, <4>2
    <3>4. Carried(w, e[2])'
      BY <3>2 DEF Carried
    <3> QED
      BY <3>1, <3>4 DEF Safe
  <2> QED
    BY <2>1, <2>2 DEF StoreInv, EarnedKept, Safe
\* What the step does to a session.
<1>13. ASSUME NEW s \in Threads
       PROVE  \/ at'[s] = at[s]
              \/ /\ s \in task[t].rows /\ at[s] # 0
                 /\ at'[s] = task[t].new /\ at'[s] \in Live
  <2>1. moved \subseteq task[t].rows
    BY DEF moved
  <2> QED
    BY <1>4, <2>1
<1>14. ASSUME NEW s \in task[t].rows, s \in expected', at'[s] = task[t].old
       PROVE  at[s] = 0
  BY <1>2, <1>4, <1>5, <1>14 DEF Local
<1>15. SessionsKept'
  <2>1. ASSUME NEW s \in Threads
        PROVE  /\ at'[s] = 0 => s \notin expected' \/ GivenUp(1)'
               /\ at'[s] # 0 => /\ at'[s] \in Live'
                                /\ course'[at'[s]].line = course'[1].line
    <3>1. CASE at'[s] = at[s]
      BY <1>0, <1>4, <3>1 DEF SessionsKept, GivenUp, Live
    <3>2. CASE /\ s \in task[t].rows /\ at[s] # 0
               /\ at'[s] = task[t].new /\ at'[s] \in Live
      <4>1. course[task[t].old].line = course[1].line
        BY <1>0, <3>2 DEF SessionsKept
      <4>2. Live' = Live /\ at'[s] # 0
        BY <1>0, <3>2 DEF Live
      <4> QED
        BY <1>0, <1>5, <3>2, <4>1, <4>2
    <3> QED
      BY <1>13, <3>1, <3>2
  <2>2. ASSUME NEW u \in Tasks, NEW s \in Threads
        PROVE  /\ Copying(u)' => at'[s] # task'[u].new
               /\ At(u, "move")' =>
                    /\ s \in task'[u].rows
                         => course'[task'[u].old].line = course'[1].line
                    /\ at'[s] = task'[u].old => s \in task'[u].rows \/ GivenUp(1)'
               /\ At(u, "delete")' /\ at'[s] = task'[u].old
                    => s \notin expected' \/ GivenUp(1)'
    <3>0. /\ Copying(u) => at[s] # task[u].new
          /\ At(u, "move") =>
               /\ s \in task[u].rows => course[task[u].old].line = course[1].line
               /\ at[s] = task[u].old => s \in task[u].rows \/ GivenUp(1)
          /\ At(u, "delete") /\ at[s] = task[u].old => s \notin expected \/ GivenUp(1)
          /\ at[s] = 0 => s \notin expected \/ GivenUp(1)
          /\ s \in task[t].rows => course[task[t].old].line = course[1].line
          /\ GivenUp(1)' = GivenUp(1) /\ expected' \subseteq expected
      BY <1>0, <1>4 DEF SessionsKept, GivenUp
    <3>1. CASE u = t
      <4>1. ~Copying(u)' /\ ~At(u, "move")'
        BY <1>3, <3>1 DEF Copying, At
      <4>2. ASSUME at'[s] = task'[t].old, s \in expected' PROVE GivenUp(1)
        <5>1. at'[s] = task[t].old /\ at'[s] = at[s]
          BY <1>3, <1>5, <1>13, <4>2
        <5>2. CASE s \in task[t].rows
          BY <1>14, <3>0, <4>2, <5>1, <5>2
        <5>3. CASE s \notin task[t].rows
          BY <1>0, <3>0, <3>1, <5>1, <5>3
        <5> QED
          BY <5>2, <5>3
      <4> QED
        BY <3>0, <3>1, <4>1, <4>2
    <3>2. CASE u # t
      <4>1. task'[u] = task[u]
        BY <1>1, <3>2
      <4>2. CASE at'[s] = at[s]
        BY <1>0, <3>0, <4>1, <4>2 DEF At, Copying
      <4>3. CASE s \in task[t].rows /\ at'[s] = task[t].new
        <5>1. Copying(u)' => at'[s] # task'[u].new
          BY <1>0, <1>5, <3>2, <4>1, <4>3 DEF Apart, Moving, Copying
        <5>2. Moving(u) /\ at'[s] = task[u].old => GivenUp(1)
          <6>1. SUFFICES ASSUME Moving(u), task[t].new = task[u].old PROVE GivenUp(1)
            BY <4>3
          <6>2. GivenUp(task[u].old)
            BY <1>0, <1>5, <6>1 DEF Apart, Replacing
          <6> QED
            BY <1>5, <3>0, <4>3, <6>1, <6>2 DEF GivenUp
        <5>3. At(u, "move") \/ At(u, "delete") => Moving(u)
          BY DEF Moving, Copying, At
        <5> QED
          BY <1>0, <3>0, <4>1, <5>1, <5>2, <5>3 DEF At
      <4> QED
        BY <1>13, <4>2, <4>3
    <3> QED
      BY <3>1, <3>2
  <2> QED
    BY <2>1, <2>2 DEF SessionsKept
<1>16. ReadsKept'
  <2>1. \A u \in Tasks : At(u, "write")' => task'[u] = task[u] /\ At(u, "write")
    BY <1>1, <1>3 DEF At
  <2> QED
    BY <1>0, <2>1 DEF StoreInv, ReadsKept, Live, At
<1> QED
  BY <1>0, <1>7, <1>8, <1>9, <1>11, <1>12, <1>15, <1>16 DEF StoreInv, Used, Unused, Live
-----------------------------------------------------------------------------
(* The remaining actions are quiet.                                        *)

\* Without a change to the courses nothing shrinks.
LEMMA SameGrows ==
  ASSUME StoreTypeOK, UNCHANGED course
  PROVE  Growing
BY DEF StoreTypeOK, Growing, Live, Used, Unused, Row

LEMMA EndsProceeds ==
  ASSUME StoreTypeOK, NEW t \in Tasks, Ends(t)
  PROVE  Proceeds(t)
<1>1. /\ task' \in [Tasks -> Local] /\ task'[t].pc = "end"
      /\ \A u \in Tasks \ {t} : task'[u] = task[u]
  BY EndsFacts
<1> QED
  BY <1>1 DEF Proceeds, LocalOK, Replacing, Moving, Copying, At

LEMMA Ended ==
  ASSUME StoreInv, NEW t \in Tasks, Ends(t),
         UNCHANGED <<course, at, turn, earned, expected, excused>>
  PROVE  StoreInv'
BY Quiet, SameGrows, EndsProceeds DEF StoreInv, StoreTypeOK

\* Beginning on a course that is half filled gives its line up.
LEMMA Begun ==
  ASSUME StoreInv, NEW t \in Tasks, NEW c \in Courses,
         NEW kind \in {"regenerate", "merge", "extend", "apply"}, Begin(t, kind, c)
  PROVE  StoreInv'
<1>0. /\ StoreTypeOK /\ c \in Live /\ c \in Used /\ course[c] \in Row
      /\ \A u \in Tasks : LocalOK(u)
      /\ UNCHANGED <<course, at, turn, earned, expected>>
  BY DEF Begin, StoreInv, StoreTypeOK
<1> DEFINE l == [NoTask EXCEPT
          !.pc = CASE kind = "regenerate" -> "clear"
                   [] kind = "merge" -> "create"
                   [] OTHER -> "write",
          !.kind = kind, !.old = c, !.nodes = course[c].nodes,
          !.version = course[c].version,
          !.slug = IF kind = "merge" THEN RootTopic ELSE course[c].slug]
<1>1. /\ l \in Local /\ l.old = c /\ l.kind = kind
      /\ l.version = course[c].version /\ l.nodes = course[c].nodes
      /\ l.pc = "clear" => kind = "regenerate"
      /\ l.pc = "create" => kind = "merge"
      /\ l.pc = "write" => kind \in {"extend", "apply"}
      /\ l.pc \in {"clear", "create", "write"}
  BY <1>0, StoreAssumption DEF NoTask, Local, Slug, Row
<1>2. task' = [task EXCEPT ![t] = l]
  BY DEF Begin
<1> HIDE DEF l
<1>3. /\ task' \in [Tasks -> Local] /\ task'[t] = l
      /\ \A u \in Tasks \ {t} : task'[u] = task[u]
  BY <1>0, <1>1, <1>2 DEF StoreTypeOK
<1>4. excused \subseteq excused' /\ excused' \subseteq Nat
  BY <1>0 DEF Begin, StoreTypeOK, Row
<1>5. kind \in {"regenerate", "merge"} =>
        \A u \in Tasks : Moving(u) /\ task[u].new = c => course[c].line \in excused'
  BY DEF Begin, Target, Moving, Copying, At
<1>6. Proceeds(t)
  <2>1. ~Moving(t)' /\ ~Copying(t)'
    BY <1>1, <1>3 DEF Moving, Copying, At
  <2>2. LocalOK(t)'
    BY <1>0, <1>1, <1>3, <2>1 DEF LocalOK, Replacing, At, Used, Unused
  <2>3. Replacing(t)' => kind \in {"regenerate", "merge"}
    BY <1>1, <1>3, <2>1 DEF Replacing
  <2> QED
    BY <1>0, <1>1, <1>3, <1>5, <2>1, <2>2, <2>3 DEF Proceeds, At
<1>7. Growing
  BY <1>0, SameGrows
<1> QED
  BY <1>0, <1>4, <1>6, <1>7, Quiet DEF StoreTypeOK

LEMMA Builds ==
  ASSUME StoreInv, NEW t \in Tasks, NEW slug \in Topics,
         BuildDomain(t, slug) \/ BuildDomainFromSource(t, slug)
  PROVE  StoreInv'
<1>0. /\ StoreTypeOK
      /\ UNCHANGED <<course, at, turn, earned, expected, excused>>
  BY DEF StoreInv, BuildDomain, BuildDomainFromSource
<1>1. CASE Ends(t)
  BY <1>0, <1>1, Ended
<1>2. CASE Building(t, slug)
  <2> DEFINE l == [NoTask EXCEPT !.pc = "create", !.kind = "build", !.slug = slug]
  <2>1. l \in Local /\ l.pc = "create" /\ l.kind = "build"
    BY DEF NoTask, Local, Slug
  <2>2. task' = [task EXCEPT ![t] = l]
    BY <1>2 DEF Building
  <2> HIDE DEF l
  <2>3. /\ task' \in [Tasks -> Local] /\ task'[t] = l
        /\ \A u \in Tasks \ {t} : task'[u] = task[u]
    BY <1>0, <2>1, <2>2 DEF StoreTypeOK
  <2>4. Proceeds(t)
    BY <2>1, <2>3 DEF Proceeds, LocalOK, Replacing, Moving, Copying, At
  <2> QED
    BY <1>0, <2>4, SameGrows, Quiet DEF StoreTypeOK
<1> QED
  BY <1>1, <1>2 DEF BuildDomain, BuildDomainFromSource

LEMMA Cleared ==
  ASSUME StoreInv, NEW t \in Tasks, ClearDomainSlug(t)
  PROVE  StoreInv'
<1>0. /\ StoreTypeOK /\ At(t, "clear") /\ LocalOK(t) /\ Live \subseteq Courses
      /\ UNCHANGED <<at, turn, earned, expected, excused>>
  BY DEF StoreInv, ClearDomainSlug, Live
<1> DEFINE c == task[t].old
<1>1. CASE c \in Live
  <2> DEFINE r == [course[c] EXCEPT !.slug = "none"]
  <2>1. /\ r \in Row /\ r.line = course[c].line /\ r.version = course[c].version
        /\ r.nodes = course[c].nodes /\ r.done = course[c].done /\ r.live
    BY <1>0, <1>1 DEF StoreTypeOK, Row, Slug, Live
  <2>2. course' = [course EXCEPT ![c] = r] /\ To(t, "create")
    BY <1>1 DEF ClearDomainSlug
  <2> HIDE DEF r
  <2>3. /\ course' \in [Courses -> Row] /\ course'[c] = r
        /\ \A d \in Courses : d # c => course'[d] = course[d]
    BY <1>0, <1>1, <2>1, <2>2 DEF StoreTypeOK
  <2>4. Live' = Live /\ Used' = Used
    BY <1>0, <1>1, <2>1, <2>3 DEF Live, Used, Unused
  <2>5. \A d \in Courses : course[d].version \in Nat
    BY <1>0 DEF StoreTypeOK, Row
  <2>6. Growing
    BY <1>0, <2>1, <2>3, <2>4, <2>5 DEF Growing
  <2>7. /\ task' \in [Tasks -> Local] /\ task'[t] = [task[t] EXCEPT !.pc = "create"]
        /\ \A u \in Tasks \ {t} : task'[u] = task[u]
    BY <1>0, <2>2, ToFacts
  <2>8. /\ task'[t].pc = "create" /\ task'[t].old = c
        /\ task'[t].kind = "regenerate"
    BY <1>0, <2>7 DEF StoreTypeOK, Local, LocalOK
  <2>9. c \in Used /\ Replacing(t)
    BY <1>0 DEF LocalOK, Replacing, At
  <2>10. Proceeds(t)
    BY <2>4, <2>7, <2>8, <2>9 DEF Proceeds, LocalOK, Replacing, Moving, Copying, At
  <2> QED
    BY <1>0, <2>6, <2>10, Quiet DEF StoreTypeOK
<1>2. CASE c \notin Live
  BY <1>0, <1>2, Ended DEF ClearDomainSlug
<1> QED
  BY <1>1, <1>2

\* What is copied is what the old course has when it is listed.
LEMMA Listed ==
  ASSUME StoreInv, NEW t \in Tasks, ListProgress(t) \/ SelectSessions(t)
  PROVE  StoreInv'
<1>0. /\ StoreTypeOK /\ LocalOK(t) /\ task[t] \in Local
      /\ UNCHANGED <<course, at, turn, earned, expected, excused>>
  BY DEF StoreInv, StoreTypeOK, ListProgress, SelectSessions
<1>1. CASE ListProgress(t)
  <2> DEFINE l == [task[t] EXCEPT !.pc = "insert", !.list = course[task[t].old].done]
  <2>1. task[t].old \in Used /\ At(t, "list") /\ Copying(t) /\ Moving(t)
    BY <1>0, <1>1 DEF ListProgress, LocalOK, Replacing, Moving, Copying, At
  <2>2. /\ l \in Local /\ l.pc = "insert" /\ l.list = course[task[t].old].done
        /\ l.old = task[t].old /\ l.new = task[t].new /\ l.kind = task[t].kind
    BY <1>0, <2>1 DEF Local, StoreTypeOK, Row, Used
  <2>3. task' = [task EXCEPT ![t] = l]
    BY <1>1 DEF ListProgress
  <2> HIDE DEF l
  <2>4. /\ task' \in [Tasks -> Local] /\ task'[t] = l
        /\ \A u \in Tasks \ {t} : task'[u] = task[u]
    BY <1>0, <2>2, <2>3 DEF StoreTypeOK
  <2>5. LocalOK(t)'
    BY <1>0, <2>1, <2>2, <2>4
       DEF LocalOK, Replacing, Moving, Copying, At, GivenUp, Live, Used, Unused
  <2>6. Proceeds(t)
    BY <2>1, <2>2, <2>4, <2>5 DEF Proceeds, Replacing, Moving, Copying, At
  <2> QED
    BY <1>0, <2>6, SameGrows, Quiet DEF StoreTypeOK
<1>2. CASE SelectSessions(t)
  <2> DEFINE l == [task[t] EXCEPT !.pc = "move",
                                  !.rows = {s \in Threads : at[s] = task[t].old}]
  <2>1. task[t].old \in Used /\ At(t, "select") /\ Copying(t) /\ Moving(t)
    BY <1>0, <1>2 DEF SelectSessions, LocalOK, Replacing, Moving, Copying, At
  <2>2. /\ l \in Local /\ l.pc = "move" /\ l.rows = {s \in Threads : at[s] = task[t].old}
        /\ l.old = task[t].old /\ l.new = task[t].new /\ l.kind = task[t].kind
    BY <1>0, <2>1 DEF Local
  <2>3. task' = [task EXCEPT ![t] = l]
    BY <1>2 DEF SelectSessions
  <2> HIDE DEF l
  <2>4. /\ task' \in [Tasks -> Local] /\ task'[t] = l
        /\ \A u \in Tasks \ {t} : task'[u] = task[u]
    BY <1>0, <2>2, <2>3 DEF StoreTypeOK
  <2>5. LocalOK(t)'
    BY <1>0, <2>1, <2>2, <2>4
       DEF LocalOK, Replacing, Moving, Copying, At, GivenUp, Live, Used, Unused
  <2>6. Proceeds(t)
    BY <2>1, <2>2, <2>4, <2>5 DEF Proceeds, Replacing, Moving, Copying, At
  <2> QED
    BY <1>0, <2>6, SameGrows, Quiet DEF StoreTypeOK
<1> QED
  BY <1>1, <1>2

\* What is not inserted is not of the new tree, and not counted as lit.
LEMMA ProgressMigrated ==
  ASSUME StoreInv, NEW t \in Tasks, MigrateProgress(t)
  PROVE  StoreInv'
<1>0. /\ StoreTypeOK /\ LocalOK(t) /\ task[t] \in Local /\ Live \subseteq Used
      /\ At(t, "insert") /\ UNCHANGED <<at, turn, expected, excused>>
  BY DEF StoreInv, StoreTypeOK, MigrateProgress
<1> DEFINE c == task[t].old
           d == task[t].new
           kept == task[t].list \cap task[t].valid
           r == [course[d] EXCEPT !.done = @ \cup kept]
<1>1. /\ c \in Used /\ d \in Used /\ d \in Courses /\ kept \subseteq Key
      /\ Copying(t) /\ Moving(t)
  BY <1>0 DEF LocalOK, Replacing, Moving, Copying, At, Used, Local
<1>2. /\ r \in Row /\ r.line = course[d].line /\ r.version = course[d].version
      /\ r.nodes = course[d].nodes /\ r.done = course[d].done \cup kept
      /\ r.live = course[d].live
  BY <1>0, <1>1 DEF StoreTypeOK, Row
<1>3. course' = [course EXCEPT ![d] = r]
  BY DEF MigrateProgress
<1>4. earned' = {e \in earned : e \notin {course[c].line} \X (task[t].list \ kept)}
  BY DEF MigrateProgress
<1> HIDE DEF r
<1>5. /\ course' \in [Courses -> Row] /\ course'[d] = r
      /\ \A x \in Courses : x # d => course'[x] = course[x]
  BY <1>0, <1>1, <1>2, <1>3 DEF StoreTypeOK
<1>6. Live' = Live /\ Used' = Used
  BY <1>1, <1>2, <1>5 DEF Live, Used, Unused
<1>7. \A x \in Courses : course[x].version \in Nat
  BY <1>0 DEF StoreTypeOK, Row
<1>8. Growing
  BY <1>1, <1>2, <1>5, <1>6, <1>7 DEF Growing
<1>9. /\ task' \in [Tasks -> Local] /\ task'[t] = [task[t] EXCEPT !.pc = "select"]
      /\ \A u \in Tasks \ {t} : task'[u] = task[u]
  BY <1>0, ToFacts DEF MigrateProgress
<1>10. /\ task'[t].pc = "select" /\ task'[t].old = c /\ task'[t].new = d
       /\ task'[t].kind = task[t].kind
  BY <1>0, <1>9 DEF Local
<1>11. \A k \in task[t].list : k \notin course'[d].done
                                 => <<course[c].line, k>> \notin earned'
  BY <1>2, <1>4, <1>5
<1> HIDE DEF c, d, kept
<1>12. course'[d].line = course'[c].line
  BY <1>0, <1>1, <1>8 DEF LocalOK, Growing, Used, c, d
<1>13. d \in Live' \/ course'[d].line \in excused'
  BY <1>0, <1>1, <1>6, <1>8 DEF LocalOK, Growing, d, GivenUp
<1>14. LocalOK(t)'
  BY <1>0, <1>1, <1>6, <1>10, <1>12, <1>13
     DEF LocalOK, Replacing, Moving, Copying, At, GivenUp, c, d
<1>15. Proceeds(t)
  BY <1>0, <1>1, <1>9, <1>10, <1>11, <1>14
     DEF Proceeds, Replacing, Moving, Copying, At, c, d
<1> QED
  BY <1>0, <1>4, <1>8, <1>15, Quiet DEF StoreTypeOK

LEMMA Rewritten ==
  ASSUME StoreInv, NEW t \in Tasks, UpdateDomainTreeInPlace(t)
  PROVE  StoreInv'
<1>0. /\ StoreTypeOK /\ LocalOK(t) /\ task[t] \in Local /\ At(t, "write") /\ Ends(t)
      /\ UNCHANGED <<at, turn, earned, expected, excused>>
  BY DEF StoreInv, StoreTypeOK, UpdateDomainTreeInPlace
<1>1. CASE UNCHANGED course
  BY <1>0, <1>1, Ended
<1>2. ASSUME task[t].old \in Live,
             course' = [course EXCEPT ![task[t].old] = [@ EXCEPT
               !.nodes = task[t].nodes \cup
                   (IF task[t].kind = "extend" THEN {ExtraNode} ELSE {}),
               !.version = course[task[t].old].version + 1]]
      PROVE  StoreInv'
  <2> DEFINE c == task[t].old
             tree == task[t].nodes \cup
                       (IF task[t].kind = "extend" THEN {ExtraNode} ELSE {})
             r == [course[c] EXCEPT !.nodes = tree, !.version = course[c].version + 1]
  <2>1. c \in Courses /\ tree \subseteq Key
    BY <1>0, <1>2 DEF Live, Local, Key, StoreTypeOK
  <2>3. course' = [course EXCEPT ![c] = r]
    BY <1>2
  <2> HIDE DEF c, tree
  <2>10. course[c] \in Row
    BY <1>0, <2>1 DEF StoreTypeOK
  <2>2. course[c].version + 1 \in Nat
    BY <2>10 DEF Row
  <2>11. /\ r \in Row /\ r.line = course[c].line /\ r.version = course[c].version + 1
         /\ r.done = course[c].done /\ r.live = course[c].live
    BY <2>1, <2>2, <2>10 DEF Row
  <2> HIDE DEF r
  <2>4. /\ course' \in [Courses -> Row] /\ course'[c] = r
        /\ \A d \in Courses : d # c => course'[d] = course[d]
    BY <1>0, <2>1, <2>3, <2>11 DEF StoreTypeOK
  <2>5. \A d \in Courses : course[d].version \in Nat
    BY <1>0 DEF StoreTypeOK, Row
  <2>6. r.version # 0 /\ r.version # course[c].version /\ course[c].version <= r.version
    BY <2>1, <2>11, <2>5
  <2>7. c \in Used
    BY <1>2 DEF StoreInv, c
  <2>8. Live' = Live
    BY <2>1, <2>11, <2>4 DEF Live
  <2>9. Used' = Used
    BY <2>1, <2>4, <2>6, <2>7 DEF Used, Unused
  <2>13. Growing
    <3>1. ASSUME NEW d \in Courses
          PROVE  /\ course'[d].line = course[d].line
                 /\ course[d].version <= course'[d].version
                 /\ course[d].version = course'[d].version
                      => course'[d].nodes = course[d].nodes
                 /\ course[d].done \subseteq course'[d].done
      <4>1. CASE d = c
        BY <2>11, <2>4, <2>6, <4>1
      <4>2. CASE d # c
        BY <2>4, <2>5, <4>2
      <4> QED
        BY <4>1, <4>2
    <3> QED
      BY <2>4, <2>8, <2>9, <3>1 DEF Growing
  <2> QED
    BY <1>0, <2>13, EndsProceeds, Quiet DEF StoreTypeOK
<1> QED
  BY <1>1, <1>2 DEF UpdateDomainTreeInPlace

\* A turn writes progress under the id that it has read.
LEMMA Turned ==
  ASSUME StoreInv, NEW s \in Threads, TurnReads(s) \/ TurnLights(s)
  PROVE  StoreInv'
<1>0. /\ StoreTypeOK /\ Live \subseteq Used /\ SessionsKept /\ ReadsKept
      /\ UNCHANGED <<task, at, expected, excused>>
      /\ \A u \in Tasks : LocalOK(u)
  BY DEF StoreInv, TurnReads, TurnLights
<1> DEFINE c == turn[s]
           r == [course[c] EXCEPT !.done = @ \cup {NodeOf[s]}]
<1>1. c \in Courses \cup {0} /\ turn' \in [Threads -> Courses \cup {0}]
  BY <1>0 DEF StoreTypeOK, TurnReads, TurnLights
<1>2. /\ course' \in [Courses -> Row] /\ Live' = Live /\ Used' = Used
      /\ \A d \in Courses : /\ course'[d].line = course[d].line
                            /\ course'[d].version = course[d].version
                            /\ course'[d].nodes = course[d].nodes
                            /\ course[d].done \subseteq course'[d].done
      /\ TurnLights(s) /\ c \in Live => NodeOf[s] \in course'[c].done
  <2>1. CASE TurnLights(s) /\ c \in Live
    <3>1. NodeOf[s] \in Key /\ c \in Courses
      BY <2>1, NodesAreKeys DEF Live
    <3>2. /\ r \in Row /\ r.line = course[c].line /\ r.version = course[c].version
          /\ r.nodes = course[c].nodes /\ r.done = course[c].done \cup {NodeOf[s]}
          /\ r.live = course[c].live
      BY <1>0, <3>1 DEF StoreTypeOK, Row
    <3>3. course' = [course EXCEPT ![c] = r]
      BY <2>1 DEF TurnLights
    <3> HIDE DEF r
    <3>4. /\ course' \in [Courses -> Row] /\ course'[c] = r
          /\ \A x \in Courses : x # c => course'[x] = course[x]
      BY <1>0, <3>1, <3>2, <3>3 DEF StoreTypeOK
    <3> QED
      BY <3>1, <3>2, <3>4 DEF Live, Used, Unused
  <2>2. CASE ~(TurnLights(s) /\ c \in Live)
    <3>1. UNCHANGED course
      BY <2>2 DEF TurnReads, TurnLights
    <3> QED
      BY <1>0, <2>2, <3>1 DEF StoreTypeOK, Live, Used, Unused
  <2> QED
    BY <2>1, <2>2
<1>3. ASSUME NEW e \in earned'
      PROVE  \/ e \in earned
             \/ /\ c \in Live /\ ~Source(c) /\ ~Target(c) /\ TurnLights(s)
                /\ e = <<course[c].line, NodeOf[s]>>
  BY <1>0 DEF TurnReads, TurnLights
<1> HIDE DEF c, r
<1>4. StoreTypeOK'
  <2>1. \A e \in earned' : e \in Nat \X Key
    <3>1. \A d \in Live : course[d].line \in Nat
      BY <1>0 DEF StoreTypeOK, Row, Live
    <3> QED
      BY <1>0, <1>3, <3>1, NodesAreKeys DEF StoreTypeOK
  <2> QED
    BY <1>0, <1>1, <1>2, <2>1 DEF StoreTypeOK
<1>5. ASSUME NEW u \in Tasks PROVE LocalOK(u)'
  <2>1. LocalOK(u)
    BY <1>0
  <2>2. /\ Replacing(u)' = Replacing(u) /\ At(u, "write")' = At(u, "write")
        /\ At(u, "clear")' = At(u, "clear") /\ At(u, "create")' = At(u, "create")
        /\ Moving(u)' = Moving(u) /\ (Moving(u) => Replacing(u))
    BY <1>0 DEF Replacing, Moving, Copying, At
  <2>3. Moving(u) => /\ course'[task[u].new].line = course[task[u].new].line
                     /\ course'[task[u].old].line = course[task[u].old].line
    BY <1>2, <2>1, <2>2 DEF LocalOK, Used
  <2> QED
    BY <1>0, <1>2, <2>1, <2>2, <2>3 DEF LocalOK, GivenUp
<1>6. Apart'
  <2> SUFFICES ASSUME NEW a \in Tasks, NEW u \in Tasks
               PROVE  /\ a # u /\ Moving(a)' /\ Moving(u)' => task'[a].new # task'[u].new
                      /\ Replacing(a)' /\ Moving(u)' /\ task'[u].new = task'[a].old
                           => course'[task'[a].old].line \in excused'
    BY DEF Apart, GivenUp, Replacing, Moving, Copying, At
  <2>1. /\ Moving(a)' = Moving(a) /\ Moving(u)' = Moving(u)
        /\ Replacing(a)' = Replacing(a)
    BY <1>0 DEF Replacing, Moving, Copying, At
  <2>2. Replacing(a) => course'[task[a].old].line = course[task[a].old].line
    BY <1>0, <1>2 DEF LocalOK, Used
  <2> QED
    BY <1>0, <2>1, <2>2 DEF StoreInv, Apart, GivenUp
<1>7. \A d \in Courses : Pending(d)' = Pending(d)
  BY <1>0 DEF Pending, Copying
<1>8. Settled'
  BY <1>0, <1>2, <1>7 DEF StoreInv, Settled, GivenUp, Live, Used
<1>9. EarnedKept'
  <2>1. ASSUME NEW d \in Courses, NEW k, Carried(d, k) PROVE Carried(d, k)'
    <3>1. ASSUME NEW u \in Tasks, task[u].old = d
          PROVE  /\ At(u, "insert") => k \in task[u].list
                 /\ task[u].pc \in {"select", "move", "delete"}
                      => k \in course'[task[u].new].done
      <4>1. task[u].pc \in {"select", "move", "delete"} => task[u].new \in Courses
        BY <1>0 DEF LocalOK, Moving, Copying, At, Used
      <4> QED
        BY <1>2, <2>1, <3>1, <4>1 DEF Carried
    <3> QED
      BY <1>0, <3>1 DEF Carried, At
  <2> SUFFICES ASSUME NEW e \in earned' PROVE Safe(e)'
    BY DEF EarnedKept
  <2>2. CASE e \in earned
    <3>1. CASE e[1] \in excused
      BY <1>0, <3>1 DEF Safe
    <3>2. ASSUME NEW w \in Live, course[w].line = e[1], e[2] \in course[w].done,
                 ~Pending(w), Carried(w, e[2])
          PROVE  Safe(e)'
      <4>1. /\ w \in Live' /\ course'[w].line = e[1] /\ e[2] \in course'[w].done
            /\ ~Pending(w)' /\ Carried(w, e[2])'
        BY <1>0, <1>2, <1>7, <2>1, <3>2 DEF Used
      <4> QED
        BY <4>1 DEF Safe
    <3> QED
      BY <2>2, <3>1, <3>2 DEF StoreInv, EarnedKept, Safe
  <2>3. CASE /\ c \in Live /\ ~Source(c) /\ ~Target(c) /\ TurnLights(s)
             /\ e = <<course[c].line, NodeOf[s]>>
    <3>0. PICK w : w = c
      OBVIOUS
    <3>1. /\ w \in Courses /\ w \in Live' /\ course'[w].line = e[1]
          /\ e[2] \in course'[w].done
      BY <1>0, <1>2, <2>3, <3>0 DEF Used
    <3>2. ~Pending(w)
      BY <2>3, <3>0 DEF Target, Pending, Copying
    <3>3. Carried(w, e[2])
      BY <2>3, <3>0 DEF Source, Carried, At
    <3>4. ~Pending(w)' /\ Carried(w, e[2])'
      BY <1>7, <2>1, <3>1, <3>2, <3>3
    <3> QED
      BY <3>1, <3>4 DEF Safe
  <2> QED
    BY <1>3, <2>2, <2>3
<1>10. SessionsKept'
  <2>0. course'[1].line = course[1].line /\ GivenUp(1)' = GivenUp(1)
    BY <1>0, <1>2 DEF GivenUp, StoreInv, Used
  <2>1. ASSUME NEW x \in Threads
        PROVE  /\ at'[x] = 0 => x \notin expected' \/ GivenUp(1)'
               /\ at'[x] # 0 => /\ at'[x] \in Live'
                                /\ course'[at'[x]].line = course'[1].line
    BY <1>0, <1>2, <2>0 DEF SessionsKept, Used
  <2>2. ASSUME NEW u \in Tasks, NEW x \in Threads
        PROVE  /\ Copying(u)' => at'[x] # task'[u].new
               /\ At(u, "move")' =>
                    /\ x \in task'[u].rows
                         => course'[task'[u].old].line = course'[1].line
                    /\ at'[x] = task'[u].old => x \in task'[u].rows \/ GivenUp(1)'
               /\ At(u, "delete")' /\ at'[x] = task'[u].old
                    => x \notin expected' \/ GivenUp(1)'
    <3>1. At(u, "move") => course'[task[u].old].line = course[task[u].old].line
      BY <1>0, <1>2 DEF LocalOK, Replacing, Moving, Copying, At, Used
    <3> QED
      BY <1>0, <2>0, <3>1 DEF SessionsKept, At, Copying
  <2> QED
    BY <2>1, <2>2 DEF SessionsKept
<1>11. ReadsKept'
  <2> SUFFICES ASSUME NEW u \in Tasks, At(u, "write")
               PROVE  /\ task[u].version <= course'[task[u].old].version
                      /\ (/\ task[u].old \in Live
                          /\ task[u].version = course'[task[u].old].version)
                           => task[u].nodes = course'[task[u].old].nodes
    BY <1>0, <1>2 DEF ReadsKept, At
  <2>1. task[u].old \in Courses
    BY <1>0 DEF LocalOK, Used
  <2> QED
    BY <1>0, <1>2, <2>1 DEF ReadsKept
<1> QED
  BY <1>0, <1>2, <1>4, <1>5, <1>6, <1>8, <1>9, <1>10, <1>11 DEF StoreInv
-----------------------------------------------------------------------------
(* The theorems.                                                           *)

LEMMA StoreStarts ==
  ASSUME StoreInit
  PROVE  StoreInv
<1> USE StoreAssumption DEF StoreInit
<1> DEFINE first == [live |-> TRUE, slug |-> FirstTopic, nodes |-> FirstNodes,
                     version |-> 1, done |-> {}, line |-> 1]
<1>1. first \in Row /\ NoCourse \in Row /\ ~NoCourse.live /\ NoCourse.version = 0
  BY DEF Row, NoCourse, Slug, Key
<1>2. NoTask \in Local /\ NoTask.pc = "idle"
  BY DEF NoTask, Local, Slug
<1>3. /\ course = [c \in Courses |-> IF c = 1 THEN first ELSE NoCourse]
      /\ first.live /\ first.version = 1
  OBVIOUS
<1> HIDE DEF first
<1>4. /\ StoreTypeOK /\ Live = {1} /\ Used = {1}
  <2>1. StoreTypeOK
    BY <1>1, <1>2, <1>3 DEF StoreTypeOK
  <2>2. /\ course[1] = first
        /\ \A c \in Courses : c # 1 => course[c] = NoCourse
    BY <1>3
  <2>3. Live = {1} /\ Used = {1}
    BY <1>1, <1>3, <2>2 DEF Live, Used, Unused
  <2> QED
    BY <2>1, <2>3
<1>5. \A t \in Tasks : task[t].pc = "idle"
  BY <1>2
<1>6. \A t \in Tasks : LocalOK(t) /\ ~Replacing(t) /\ ~Moving(t) /\ ~Copying(t)
  BY <1>5 DEF LocalOK, Replacing, Moving, Copying, At
<1>7. Apart /\ EarnedKept /\ ReadsKept
  BY <1>5, <1>6 DEF Apart, EarnedKept, ReadsKept, At
<1>8. Settled
  BY <1>4, <1>6 DEF Settled, Pending
<1>9. SessionsKept
  BY <1>4, <1>5, <1>6 DEF SessionsKept, At
<1> QED
  BY <1>4, <1>6, <1>7, <1>8, <1>9 DEF StoreInv

LEMMA StoreSteps ==
  ASSUME StoreInv, [StoreNext]_storeVars
  PROVE  StoreInv'
<1>0. StoreTypeOK /\ \A t \in Tasks : LocalOK(t)
  BY DEF StoreInv
<1>1. ASSUME NEW t \in Tasks, NEW kind \in {"regenerate", "merge", "extend", "apply"},
             NEW c \in Courses, Begin(t, kind, c)
      PROVE  StoreInv'
  BY <1>1, Begun
<1>2. ASSUME NEW t \in Tasks, NEW slug \in Topics,
             BuildDomain(t, slug) \/ BuildDomainFromSource(t, slug)
      PROVE  StoreInv'
  BY <1>2, Builds
<1>3. ASSUME NEW t \in Tasks,
             \/ ClearDomainSlug(t) \/ CreateFails(t) \/ CreateDomainFromTree(t)
             \/ ListProgress(t) \/ MigrateProgress(t)
             \/ SelectSessions(t) \/ MigrateSessions(t) \/ UpdateDomainTreeInPlace(t)
      PROVE  StoreInv'
  BY <1>3, Cleared, Created, Listed, ProgressMigrated, SessionsMoved, Rewritten, Ended
     DEF CreateFails
<1>4. ASSUME NEW t \in Tasks, MigrationFails(t)
      PROVE  StoreInv'
  <2>1. Copying(t) /\ Ends(t) /\ UNCHANGED <<turn, earned, expected, excused>>
    BY <1>4 DEF MigrationFails, Copying
  <2>2. CASE UNCHANGED <<course, at>>
    BY <2>1, <2>2, Ended
  <2>3. CASE /\ course' = Deleted(task[t].new) /\ at' = WithoutSessions(task[t].new)
    <3>1. /\ task' \in [Tasks -> Local] /\ task'[t].pc = "end"
          /\ \A u \in Tasks \ {t} : task'[u] = task[u]
      BY <1>0, <2>1, EndsFacts
    <3>2. task[t].new \in Courses /\ MayGo(task[t].new)
      BY <1>0, <2>1, <3>1 DEF LocalOK, MayGo, Moving, Copying, At, Used
    <3> QED
      BY <1>0, <2>1, <2>3, <3>1, <3>2, Removed DEF StoreTypeOK
  <2> QED
    BY <1>4, <2>2, <2>3 DEF MigrationFails
<1>5. ASSUME NEW t \in Tasks, DeleteOld(t)
      PROVE  StoreInv'
  <2>1. At(t, "delete") /\ Ends(t) /\ UNCHANGED <<turn, earned, expected, excused>>
    BY <1>5 DEF DeleteOld
  <2>2. CASE UNCHANGED <<course, at>>
    BY <2>1, <2>2, Ended
  <2>3. CASE /\ course' = Deleted(task[t].old) /\ at' = WithoutSessions(task[t].old)
    <3>1. /\ task' \in [Tasks -> Local] /\ task'[t].pc = "end"
          /\ \A u \in Tasks \ {t} : task'[u] = task[u]
      BY <1>0, <2>1, EndsFacts
    <3>2. task[t].old \in Courses /\ MayGo(task[t].old)
      BY <1>0, <2>1, <3>1 DEF LocalOK, MayGo, Replacing, Moving, Copying, At, Used
    <3> QED
      BY <1>0, <2>1, <2>3, <3>1, <3>2, Removed DEF StoreTypeOK
  <2> QED
    BY <1>5, <2>2, <2>3 DEF DeleteOld
<1>6. ASSUME NEW c \in Courses, DeleteCourse(c)
      PROVE  StoreInv'
  <2>1. /\ MayGo(c) /\ excused \subseteq excused' /\ excused' \subseteq Nat
    BY <1>0, <1>6 DEF DeleteCourse, MayGo, StoreTypeOK, Row
  <2> QED
    BY <1>0, <1>6, <2>1, Removed DEF DeleteCourse, StoreTypeOK
<1>7. ASSUME NEW s \in Threads, TurnReads(s) \/ TurnLights(s)
      PROVE  StoreInv'
  BY <1>7, Turned
<1>8. CASE UNCHANGED storeVars
  BY <1>8 DEF storeVars, StoreInv, StoreTypeOK, LocalOK, Apart, Settled, EarnedKept,
     Safe, Carried, SessionsKept, ReadsKept, Pending, Used, Unused, Live, Replacing,
     Moving, Copying, At, GivenUp
<1> QED
  BY <1>1, <1>2, <1>3, <1>4, <1>5, <1>6, <1>7, <1>8 DEF StoreNext

\* The inductive invariant, with the types of the rows and of the operations'
\* locals, holds in every state.
THEOREM StoreInvariant == StoreSpec => []StoreInv
<1>1. StoreInit => StoreInv
  BY StoreStarts
<1>2. StoreInv /\ [StoreNext]_storeVars => StoreInv'
  BY StoreSteps
<1> QED
  BY <1>1, <1>2, PTL DEF StoreSpec

\* However many regenerations, merges and deletions run together, fail or stop
\* half-way, a course that the learner has not given up is still there in one
\* of its versions.
THEOREM AlwaysACourse == StoreSpec => []CourseSurvives
<1>1. StoreInv => CourseSurvives
  BY DEF StoreInv, Settled, CourseSurvives, Used, GivenUp
<1> QED
  BY <1>1, StoreInvariant, PTL

\* What the learner has lit and the sessions they have are kept by the same
\* operations, unless the new tree is without the node.
THEOREM NothingLearnedIsLost == StoreSpec => []LearningSurvives
<1>1. StoreInv => EarnedSurvives
  BY DEF StoreInv, EarnedKept, Safe, EarnedSurvives
<1>2. StoreInv => SessionsFollow
  BY DEF StoreInv, SessionsKept, SessionsFollow, GivenUp, StoreTypeOK
<1> QED
  BY <1>1, <1>2, StoreInvariant, PTL DEF LearningSurvives

\* Extending and optimizing write a tree that still has every node, unless the
\* course was rewritten since they read it.
THEOREM TreesOnlyGrow == StoreSpec => UpdatesOnlyAdd
<1> DEFINE Only ==
      \A c \in Live :
       \/ course'[c].version = course[c].version
       \/ course[c].nodes \subseteq course'[c].nodes
       \/ \E t \in Tasks : /\ At(t, "write") /\ task'[t].pc = "end"
                           /\ task[t].old = c
                           /\ task[t].version < course[c].version
<1>1. ASSUME StoreInv, StoreNext, NEW c \in Live, course'[c].version # course[c].version
      PROVE  \/ course[c].nodes \subseteq course'[c].nodes
             \/ \E t \in Tasks : /\ At(t, "write") /\ task'[t].pc = "end"
                                 /\ task[t].old = c
                                 /\ task[t].version < course[c].version
  <2>0. /\ StoreTypeOK /\ c \in Courses /\ c \in Used /\ course[c].version \in Nat
        /\ Live \subseteq Used /\ ReadsKept /\ \A t \in Tasks : LocalOK(t)
    BY <1>1 DEF StoreInv, StoreTypeOK, Row, Live
  <2>1. ASSUME NEW d \in Courses \cup {0}, course' = Deleted(d) PROVE FALSE
    BY <1>1, <2>0, <2>1, DeletedFacts
  <2>2. ASSUME NEW t \in Tasks, UpdateDomainTreeInPlace(t)
        PROVE  \/ course[c].nodes \subseteq course'[c].nodes
               \/ /\ At(t, "write") /\ task'[t].pc = "end" /\ task[t].old = c
                  /\ task[t].version < course[c].version
    <3>1. At(t, "write") /\ task[t].version \in Nat /\ task'[t].pc = "end"
      BY <2>0, <2>2, EndsFacts DEF UpdateDomainTreeInPlace, StoreTypeOK, Local
    <3>2. CASE task[t].old # c
      BY <1>1, <2>0, <2>2, <3>2 DEF UpdateDomainTreeInPlace, StoreTypeOK
    <3>3. CASE task[t].old = c
      <4>1. /\ task[t].version <= course[c].version
            /\ task[t].version = course[c].version => task[t].nodes = course[c].nodes
        BY <1>1, <2>0, <3>1, <3>3 DEF ReadsKept
      <4>2. task[t].nodes \subseteq course'[c].nodes
        <5> DEFINE added == IF task[t].kind = "extend" THEN {ExtraNode} ELSE {}
        <5>1. course' = [course EXCEPT ![c] = [@ EXCEPT
                 !.nodes = task[t].nodes \cup added,
                 !.version = course[c].version + 1]]
          BY <1>1, <2>2, <3>3 DEF UpdateDomainTreeInPlace
        <5> HIDE DEF added
        <5>2. course[c] \in Row
          BY <2>0 DEF StoreTypeOK
        <5>3. [course[c] EXCEPT !.nodes = task[t].nodes \cup added,
                                !.version = course[c].version + 1].nodes
               = task[t].nodes \cup added
          BY <5>2 DEF Row
        <5> QED
          BY <2>0, <5>1, <5>3 DEF StoreTypeOK
      <4> QED
        BY <2>0, <3>1, <3>3, <4>1, <4>2
    <3> QED
      BY <3>2, <3>3
  <2>3. ASSUME NEW t \in Tasks, CreateDomainFromTree(t) PROVE FALSE
    <3>1. PICK d \in Unused : \A x \in Courses : x # d => course'[x] = course[x]
      BY <2>0, <2>3 DEF CreateDomainFromTree, StoreTypeOK
    <3> QED
      BY <1>1, <2>0, <3>1 DEF Used
  <2>4. ASSUME NEW t \in Tasks, ClearDomainSlug(t) \/ MigrateProgress(t) PROVE FALSE
    BY <1>1, <2>0, <2>4 DEF ClearDomainSlug, MigrateProgress, StoreTypeOK, Row
  <2>5. ASSUME NEW t \in Tasks, MigrationFails(t) \/ DeleteOld(t) PROVE FALSE
    <3>1. task[t].old \in Courses \cup {0} /\ task[t].new \in Courses \cup {0}
      BY <2>0 DEF StoreTypeOK, Local
    <3> QED
      BY <1>1, <2>1, <2>5, <3>1 DEF MigrationFails, DeleteOld
  <2>6. ASSUME NEW s \in Threads, TurnLights(s) PROVE FALSE
    BY <1>1, <2>0, <2>6 DEF TurnLights, StoreTypeOK, Row
  <2>7. ASSUME UNCHANGED course PROVE FALSE
    BY <1>1, <2>7
  <2>8. ASSUME NEW t \in Tasks,
               \/ \E kind \in {"regenerate", "merge", "extend", "apply"}, d \in Courses :
                    Begin(t, kind, d)
               \/ \E slug \in Topics : BuildDomain(t, slug) \/ BuildDomainFromSource(t, slug)
               \/ CreateFails(t) \/ ListProgress(t) \/ SelectSessions(t)
               \/ MigrateSessions(t)
        PROVE  FALSE
    BY <2>7, <2>8 DEF Begin, BuildDomain, BuildDomainFromSource, CreateFails,
                      ListProgress, SelectSessions, MigrateSessions
  <2>9. ASSUME NEW d \in Courses, DeleteCourse(d) PROVE FALSE
    BY <2>1, <2>9 DEF DeleteCourse
  <2>10. ASSUME NEW s \in Threads, TurnReads(s) PROVE FALSE
    BY <2>7, <2>10 DEF TurnReads
  <2> QED
    BY <1>1, <2>2, <2>3, <2>4, <2>5, <2>6, <2>8, <2>9, <2>10 DEF StoreNext
<1>2. StoreInv /\ [StoreNext]_storeVars => [Only]_storeVars
  BY <1>1
<1> QED
  BY <1>2, StoreInvariant, PTL DEF StoreSpec, UpdatesOnlyAdd
=============================================================================
