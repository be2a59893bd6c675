------------------------------ MODULE ImRouter ------------------------------
(***************************************************************************)
(* The IM gateway: how the messages of a learner choose a course and a     *)
(* node, start it, talk to the coach and go on to the next node            *)
(* (internal/channel; ChannelBinding has how an account is bound).         *)
(*                                                                         *)
(* Every message is handled by a goroutine of its own; the platforms send  *)
(* a message again when the answer is late, and nothing recognises it, so  *)
(* the same text may be handled twice and at once.  Meanwhile the web      *)
(* server deletes courses, and replaces them by a regenerated one in steps *)
(* between which the learner goes on in either.                            *)
(*                                                                         *)
(* Commands that only answer (help, courses, progress, continue) are left  *)
(* out.  What an opening or a turn does to the session is in               *)
(* SessionService and CoachSession; here a node has sessions or not, one   *)
(* of them completed or not, and it is lit in the progress or not.         *)
(***************************************************************************)
EXTENDS Integers

CONSTANTS
  Pupils,        \* learners with a bound account
  Slots,         \* goroutines that handle a message
  OwnerOf,       \* [ids of courses -> Pupils]
  FirstCourses,  \* courses there are at the start
  ReplacementOf, \* [FirstCourses -> ids]: the course it is regenerated as
  LastNode       \* [ids of courses -> Nat]: the nodes are 1 .. LastNode

CourseIds == DOMAIN OwnerOf
NodeIds(c) == 1 .. LastNode[c]
NoNode == [course |-> 0, node |-> 0, from |-> 0]

ASSUME RouterAssumption ==
  /\ LastNode \in [CourseIds -> Nat \ {0}]
  /\ OwnerOf \in [CourseIds -> Pupils] /\ 0 \notin CourseIds
  /\ ReplacementOf \in [FirstCourses -> CourseIds \ FirstCourses]
  /\ FirstCourses \subseteq CourseIds
  /\ \A c \in FirstCourses :
       /\ OwnerOf[ReplacementOf[c]] = OwnerOf[c]
       /\ \A d \in FirstCourses :    \* ids are given out once
            ReplacementOf[c] = ReplacementOf[d] => c = d

\* Of a node that is active or being opened: the node that the learner asked
\* for and from which "next" has led there is history.
VARIABLES
  pending,  \* Router.pending: the course chosen by each learner, or 0
  active,   \* channel_active_node: the node of each learner, or NoNode
  live,     \* courses that exist
  visited,  \* nodes of a course with a session
  finished, \* nodes of a course with a completed session
  mastered, \* nodes of a course that are completed in the progress
  regen,    \* replacing a course: how far it is, and the nodes it has read
  msg,      \* the goroutines: where they are and their locals
  missed    \* history: learners whose active node was moved without a session

nodeVars == <<visited, finished, mastered>>
imVars == <<pending, active, live, nodeVars, regen, msg, missed>>

\* `row` is the course that the session the goroutine has the id of is in.
Resting == [at |-> "idle", user |-> "nobody", course |-> 0, node |-> 0,
            from |-> 0, row |-> 0]

RouterInit ==
  /\ pending = [u \in Pupils |-> 0]
  /\ active = [u \in Pupils |-> NoNode]
  /\ live = FirstCourses
  /\ visited = [c \in CourseIds |-> {}]
  /\ finished = [c \in CourseIds |-> {}]
  /\ mastered = [c \in CourseIds |-> {}]
  /\ regen = [c \in FirstCourses |-> [at |-> "none", nodes |-> {}]]
  /\ msg = [m \in Slots |-> Resting]
  /\ missed = {}

\* Courses whose sessions were moved to their replacement.
Gone == {c \in FirstCourses : regen[c].at = "moved"}
-----------------------------------------------------------------------------
(* Choosing a course and a node.                                           *)

Owned(u) == {c \in live : OwnerOf[c] = u}

HasSession(p) == p.course # 0 /\ p.node \in visited[p.course]

Free(m) == msg[m].at = "idle"

\* The goroutine goes on with node p of learner u.
Takes(m, at, u, p) ==
  msg' = [msg EXCEPT ![m] =
    [at |-> at, user |-> u, course |-> p.course, node |-> p.node,
     from |-> p.from, row |-> p.course]]

Returns(m) == msg' = [msg EXCEPT ![m] = Resting]

\* The course is resolved among the learner's own and its tree is read.
handleLearn(m, u, c) ==
  /\ Free(m)
  /\ c \in Owned(u)
  /\ pending' = [pending EXCEPT ![u] = c]
  /\ UNCHANGED <<active, live, nodeVars, regen, msg, missed>>

\* The course of "node <n>": the one chosen last, else the one of the active
\* node.
CourseChosen(u) == IF pending[u] # 0 THEN pending[u] ELSE active[u].course

AskedFor(c, n) == [course |-> c, node |-> n, from |-> n]

\* A tree that does not load is the end of it.
handleNode(m, u, n) ==
  /\ Free(m)
  /\ CourseChosen(u) \in live /\ n \in NodeIds(CourseChosen(u))
  /\ Takes(m, "start", u, AskedFor(CourseChosen(u), n))
  /\ UNCHANGED <<pending, active, live, nodeVars, regen, missed>>

\* A reference to a course: its number in the list, its name or part of it, or
\* nothing the list has.
resolveCourseRef(u) == Owned(u) \cup {0}

\* What free text asks for, as the rules understand it: a node of the course
\* whose name is in the text, or a node alone ...
matchLearnOrStartNode(u) ==
  {[named |-> FALSE, course |-> 0]} \cup [named : {TRUE}, course : Owned(u)]

\* ... and, where no rule applies, as the LLM does: the course may be none of
\* the learner's.
ParseNavIntent(u) ==
  {[named |-> FALSE, course |-> 0]} \cup [named : {TRUE}, course : resolveCourseRef(u)]

\* The course that was found, else the one chosen, else the only one.
CourseMeant(u, found) ==
  IF found # 0 THEN found
  ELSE IF CourseChosen(u) = 0 /\ \E c \in live : Owned(u) = {c}
       THEN CHOOSE c \in live : Owned(u) = {c}
       ELSE CourseChosen(u)

\* Free text without a session at the active node.  A course that is named is
\* chosen, or the one taken in its place, even if its tree does not load.
executeStartNode(m, u, n) ==
  /\ Free(m)
  /\ ~HasSession(active[u]) /\ Owned(u) # {}
  /\ \E intent \in matchLearnOrStartNode(u) \cup ParseNavIntent(u) :
       LET c == CourseMeant(u, intent.course) IN
       /\ c # 0
       /\ pending' = IF intent.named THEN [pending EXCEPT ![u] = c] ELSE pending
       /\ IF c \in live /\ n \in NodeIds(c)
          THEN Takes(m, "start", u, AskedFor(c, n)) ELSE UNCHANGED msg
  /\ UNCHANGED <<active, live, nodeVars, regen, missed>>

\* StartOrResumeSession: the newest session, or a new one, which is completed
\* at once if the node is lit.
Opens(c, n) ==
  /\ visited' = [visited EXCEPT ![c] = @ \cup {n}]
  /\ finished' = [finished EXCEPT ![c] =
       IF n \notin visited[c] /\ n \in mastered[c] THEN @ \cup {n} ELSE @]

\* A new session may fail to be written, or its first explanation to come.
OpeningFails(c, n) ==
  /\ n \notin visited[c]
  /\ Opens(c, n) \/ UNCHANGED <<visited, finished>>

StartsSessionAnyway(m) ==    \* mutant: an opening that failed activates the node too
  /\ msg[m].at = "start"
  /\ LET c == msg[m].course
         n == msg[m].node
     IN \/ c \notin live /\ Returns(m) /\ UNCHANGED <<visited, finished>>
        \/ /\ c \in live
           /\ Opens(c, n) \/ OpeningFails(c, n)
           /\ msg' = [msg EXCEPT ![m].at = "activate"]
  /\ UNCHANGED <<pending, active, live, mastered, regen, missed>>

\* The course is looked up again; if the opening fails nothing becomes active.
StartsSession(m) ==
  /\ msg[m].at = "start"
  /\ LET c == msg[m].course
         n == msg[m].node
     IN \/ c \notin live /\ Returns(m) /\ UNCHANGED <<visited, finished>>
        \/ c \in live /\ OpeningFails(c, n) /\ Returns(m)
        \/ c \in live /\ Opens(c, n) /\ msg' = [msg EXCEPT ![m].at = "activate"]
  /\ UNCHANGED <<pending, active, live, mastered, regen, missed>>

\* SetChannelActiveNode, a statement of its own after the opening.
ActivatesNode(m) ==
  /\ msg[m].at = "activate"
  /\ active' = [active EXCEPT ![msg[m].user] =
       [course |-> msg[m].course, node |-> msg[m].node, from |-> msg[m].from]]
  /\ missed' = missed \ {msg[m].user}
  /\ Returns(m)
  /\ UNCHANGED <<pending, live, nodeVars, regen>>
-----------------------------------------------------------------------------
(* Learning.                                                               *)

\* A node is done for those who look at its session or at the progress.
Done(c, n) == n \in mastered[c] \cup finished[c]

\* NextUncompletedNodeAfter.
Later(c, n) == {k \in NodeIds(c) : k > n /\ k \notin mastered[c]}
Least(S) == CHOOSE k \in S : \A j \in S : k <= j

\* GetSession: the session the goroutine has the id of, in the course that it
\* is in by now; nothing if that course was deleted.
Reread(m) == IF msg[m].row = msg[m].course THEN msg[m]
             ELSE [msg[m] EXCEPT !.course = msg[m].row, !.from = msg[m].node]

\* Free text goes to the newest session of the active node.  That one message
\* at a time is with the coach of a session is SessionService's.
handleChat(m, u) ==
  /\ Free(m)
  /\ HasSession(active[u])
  /\ Takes(m, "chat", u, active[u])
  /\ UNCHANGED <<pending, active, live, nodeVars, regen, missed>>

\* sendCoachMessage reads the session; "next" in a completed one goes on.
SendCoachMessage(m) ==
  /\ msg[m].at = "chat"
  /\ LET p == Reread(m) IN
       \/ Returns(m)
       \/ /\ HasSession(p)
          /\ \/ msg' = [msg EXCEPT ![m] = [p EXCEPT !.at = "coach"]]
             \/ /\ p.node \in finished[p.course]
                /\ msg' = [msg EXCEPT ![m] = [p EXCEPT !.at = "continue"]]
  /\ UNCHANGED <<pending, active, live, nodeVars, regen, missed>>

\* The coach answers, fails, or lights the node: the progress in the course it
\* has read, if that exists, then the session, wherever it is by now.
CoachReplies(m) ==
  /\ msg[m].at = "coach"
  /\ LET c == msg[m].course
         n == msg[m].node
         r == msg[m].row
     IN \/ UNCHANGED <<mastered, finished>>
        \/ /\ mastered' = IF c \in live THEN [mastered EXCEPT ![c] = @ \cup {n}] ELSE mastered
           /\ finished' = IF n \in visited[r]
                          THEN [finished EXCEPT ![r] = @ \cup {n}] ELSE finished
  /\ Returns(m)
  /\ UNCHANGED <<pending, active, live, visited, regen, missed>>

\* startNextNode of the coach: in the course that was read.
CoachContinues(m) ==
  /\ msg[m].at = "continue"
  /\ LET c == msg[m].course
         later == Later(c, msg[m].node)
         k == Least(later)
     IN \/ Returns(m) /\ UNCHANGED <<visited, finished>>
        \/ c \in live /\ later # {} /\ OpeningFails(c, k) /\ Returns(m)
        \/ /\ c \in live /\ later # {} /\ Opens(c, k)
           /\ msg' = [msg EXCEPT ![m].at = "answered", ![m].node = k, ![m].row = c]
  /\ UNCHANGED <<pending, active, live, mastered, regen, missed>>

\* The answer is written to the next session, which is read again for the
\* node to activate.
CoachAnswered(m) ==
  /\ msg[m].at = "answered"
  /\ \/ Returns(m)
     \/ /\ HasSession(Reread(m))
        /\ msg' = [msg EXCEPT ![m] = [Reread(m) EXCEPT !.at = "activate"]]
  /\ UNCHANGED <<pending, active, live, nodeVars, regen, missed>>

handleNextSection(m, u) ==
  /\ Free(m)
  /\ HasSession(active[u]) /\ active[u].node \in finished[active[u].course]
  /\ Takes(m, "next", u, active[u])
  /\ UNCHANGED <<pending, active, live, nodeVars, regen, missed>>

\* What StartNextNode does from node n of the goroutine's course: a session
\* that lags behind the progress is completed first; then the next one is
\* opened, which is not lit, if there is one and the opening does not fail.
NextFrom(m, p, n) ==
  LET c == p.course
      k == Least(Later(c, n))
  IN /\ HasSession(p) /\ Done(c, p.node)
     /\ finished' = [finished EXCEPT ![c] = @ \cup {p.node}]
     /\ \/ Returns(m) /\ UNCHANGED visited
        \/ /\ Later(c, n) # {}
           /\ visited' = [visited EXCEPT ![c] = @ \cup {k}]
           /\ \/ msg' = [msg EXCEPT ![m] = [p EXCEPT !.at = "activate", !.node = k]]
              \/ k \notin visited[c] /\ Returns(m)

StartsNextOfActive(m) ==    \* mutant: the next node after the one active by now
  /\ msg[m].at = "next"
  /\ \/ Returns(m) /\ UNCHANGED <<visited, finished>>
     \/ NextFrom(m, Reread(m), active[msg[m].user].node)
  /\ UNCHANGED <<pending, active, live, mastered, regen, missed>>

\* StartNextNode goes on from the session that was read, not from the node
\* that may have become active since.
StartsNext(m) ==
  /\ msg[m].at = "next"
  /\ \/ Returns(m) /\ UNCHANGED <<visited, finished>>
     \/ NextFrom(m, Reread(m), Reread(m).node)
  /\ UNCHANGED <<pending, active, live, mastered, regen, missed>>
-----------------------------------------------------------------------------
(* The web server replaces a course and deletes courses.  Replacing is a   *)
(* request of its own, any step of which may fail: it then deletes the     *)
(* replacement, or stops with both there.                                  *)

Regenerates(c, from, to, nodes) ==
  /\ regen[c].at = from
  /\ regen' = [regen EXCEPT ![c] = [at |-> to, nodes |-> nodes]]

\* The replacement was generated and is stored.
CreateReplacement(c) ==
  /\ Regenerates(c, "none", "created", {})
  /\ live' = live \cup {ReplacementOf[c]}
  /\ UNCHANGED <<pending, active, nodeVars, msg, missed>>

\* resolveMigratedNodeKey: the nodes that the replacement has too.
KeptNodes(c, nodes) == nodes \cap NodeIds(ReplacementOf[c])

\* MigrateProgressByNodeKey: the completed rows are read, then written in one
\* transaction.
ReadsProgress(c) ==
  /\ Regenerates(c, "created", "progress", KeptNodes(c, mastered[c]))
  /\ UNCHANGED <<pending, active, live, nodeVars, msg, missed>>

MigratesProgress(c) ==
  LET d == ReplacementOf[c] IN
  /\ Regenerates(c, "progress", "lit", {})
  /\ d \in live \/ regen[c].nodes = {}
  /\ mastered' = [mastered EXCEPT ![d] = @ \cup regen[c].nodes]
  /\ UNCHANGED <<pending, active, live, visited, finished, msg, missed>>

\* MigrateSessionsByNodeKey reads which sessions there are before it begins its
\* transaction ...
SelectsSessions(c) ==
  /\ Regenerates(c, "lit", "selected", KeptNodes(c, visited[c]))
  /\ UNCHANGED <<pending, active, live, nodeVars, msg, missed>>

\* ... in which it moves those whose node the replacement has, if they are still
\* there, and the active node as it is by now.  A session keeps its id; nothing
\* moves to a course that was deleted.
MovesSessions(c) ==
  LET d == ReplacementOf[c]
      u == OwnerOf[c]
      moving == regen[c].nodes \cap visited[c]
      follows == active[u].course = c /\ active[u].node \in NodeIds(d)
  IN /\ Regenerates(c, "selected", "moved", {})
     /\ d \in live \/ moving = {}
     /\ visited' = [visited EXCEPT ![d] = @ \cup moving, ![c] = @ \ moving]
     /\ finished' = [finished EXCEPT ![d] = @ \cup (moving \cap finished[c]),
                                     ![c] = @ \ moving]
     /\ msg' = [m \in Slots |->
          IF msg[m].row = c /\ msg[m].node \in moving
             /\ msg[m].at \in {"chat", "coach", "next", "answered"}
          THEN [msg[m] EXCEPT !.row = d] ELSE msg[m]]
     /\ active' = IF follows THEN [active EXCEPT ![u] = AskedFor(d, @.node)] ELSE active
     /\ missed' = IF follows /\ active[u].node \notin moving
                  THEN missed \cup {u} ELSE missed
     /\ UNCHANGED <<pending, live, mastered>>

\* DeleteDomain: sessions, progress and the active node go too, Router.pending
\* stays.
DeleteDomain(c) ==
  /\ c \in live
  /\ live' = live \ {c}
  /\ visited' = [visited EXCEPT ![c] = {}]
  /\ finished' = [finished EXCEPT ![c] = {}]
  /\ mastered' = [mastered EXCEPT ![c] = {}]
  /\ active' = [u \in Pupils |-> IF active[u].course = c THEN NoNode ELSE active[u]]
  /\ UNCHANGED <<pending, regen, msg, missed>>

RouterNext ==
  \/ \E m \in Slots :
       \/ StartsSession(m) \/ ActivatesNode(m)
       \/ SendCoachMessage(m) \/ CoachReplies(m)
       \/ CoachContinues(m) \/ CoachAnswered(m) \/ StartsNext(m)
       \/ \E u \in Pupils :
            \/ handleChat(m, u) \/ handleNextSection(m, u)
            \/ \E c \in CourseIds : handleLearn(m, u, c)
            \/ \E n \in UNION {NodeIds(c) : c \in CourseIds} :
                 handleNode(m, u, n) \/ executeStartNode(m, u, n)
  \/ \E c \in FirstCourses :
       \/ CreateReplacement(c) \/ ReadsProgress(c) \/ MigratesProgress(c)
       \/ SelectsSessions(c) \/ MovesSessions(c)
  \/ \E c \in CourseIds : DeleteDomain(c)

RouterSpec == RouterInit /\ [][RouterNext]_imVars
-----------------------------------------------------------------------------
(* Properties.                                                             *)

\* The active node has a session to talk to, unless its course was deleted, its
\* sessions were moved away, or the node was moved to a replacement after its
\* own session had been opened too late to be selected, or deleted: free text
\* then reaches a coach (handleNodeByKey, SetChannelActiveNode,
\* MigrateSessionsByNodeKey, DeleteDomain).
ActiveHasSession ==
  \A u \in Pupils \ missed : active[u].course \in live \ Gone => HasSession(active[u])

\* "Next" said twice at once, or while the coach goes on by itself or the course
\* is replaced, takes nobody past a node that is not done: from the node they
\* asked for up to the active one, each is lit or has a completed session
\* (handleNextSection, StartNextNode, handleChat).
NothingSkipped ==
  \A u \in Pupils :
    LET p == active[u] IN
    p.course \in live \ Gone => \A n \in p.from .. (p.node - 1) : Done(p.course, n)
=============================================================================
