------------------------- MODULE LearningShortcuts -------------------------
(***************************************************************************)
(* The sidebar: the last lesson, and at most two courses recommended for   *)
(* today (service/shortcuts.go, storage/domain_access.go,                  *)
(* storage/sqlite.go).                                                     *)
(*                                                                         *)
(* A request reads the courses first and works from that list; the last    *)
(* lesson, the plan, the gaps and the activity are read one after another, *)
(* while the learner opens, learns and deletes courses in other tabs.      *)
(* One learner.  The gaps are a set of courses: any may be the first one   *)
(* of the list.  The node of a recommendation is left out.                 *)
(***************************************************************************)
EXTENDS Integers, FiniteSetsExt, Functions, Sequences

CONSTANTS
  Shelf,       \* ids of courses, numbers in the order they were made
  SizeOf,      \* [Shelf -> number of nodes]
  Planned,     \* courses the plan may point to, 0 for none
  MaxMoments,  \* bound of the clock
  MaxTaken     \* bound: courses deleted

MaxRecommendations == 2   \* maxSidebarRecommendations

ASSUME ShortcutsAssumption ==
  /\ Shelf \subseteq Nat \ {0} /\ IsFiniteSet(Shelf) /\ Planned \subseteq Shelf \cup {0}
  /\ SizeOf \in [Shelf -> Nat]
  /\ MaxMoments \in Nat /\ MaxTaken \in Nat

VARIABLES
  moment,   \* the clock, later than every course
  shelf,    \* courses that exist
  done,     \* completed nodes of each
  opening,  \* the course whose page is being opened, or 0
  opened,   \* user_domain_access: accessed_at, 0 without a row
  studied,  \* sessions: the newest updated_at of a course, 0 without one
  planFor,  \* the course today's learning is matched to, or 0
  gapIn,    \* courses with an open gap
  view      \* the request: how far it is and what it has put together

shortcutVars == <<moment, shelf, done, opening, opened, studied, planFor, gapIn, view>>

NoView == [at |-> "idle", seen |-> {}, done |-> [c \in Shelf |-> 0],
           last |-> 0, since |-> 0, plan |-> 0, gap |-> 0, rest |-> <<>>]

Newest == IF Shelf = {} THEN 0 ELSE CHOOSE c \in Shelf : \A d \in Shelf : d <= c

ShortcutsInit ==
  /\ moment = Newest /\ shelf = Shelf
  /\ done \in [Shelf -> UNION {0..SizeOf[c] : c \in Shelf}]
  /\ \A c \in Shelf : done[c] <= SizeOf[c]
  /\ opening = 0
  /\ opened = [c \in Shelf |-> 0] /\ studied = [c \in Shelf |-> 0]
  /\ planFor \in Planned /\ gapIn = {}
  /\ view = NoView
-----------------------------------------------------------------------------
(* What the learner does in the meantime; nothing after the answer.        *)

Meanwhile == view.at # "shown"

Passes == moment < Newest + MaxMoments /\ moment' = moment + 1

\* getDomainTree resolves the tree ...
PageOpens(c) ==
  /\ Meanwhile /\ opening = 0 /\ c \in shelf
  /\ opening' = c
  /\ UNCHANGED <<moment, shelf, done, opened, studied, planFor, gapIn, view>>

\* ... and notes the visit; the table has no foreign key.
TouchDomainAccess ==
  /\ Meanwhile /\ opening # 0 /\ Passes
  /\ opened' = [opened EXCEPT ![opening] = moment']
  /\ opening' = 0
  /\ UNCHANGED <<shelf, done, studied, planFor, gapIn, view>>

\* A message touches the session, not the visit; a node is lit and its gap
\* closed, or a gap is opened.
Studies(c) ==
  /\ Meanwhile /\ c \in shelf /\ Passes
  /\ studied' = [studied EXCEPT ![c] = moment']
  /\ \/ done' = [done EXCEPT ![c] = IF @ < SizeOf[c] THEN @ + 1 ELSE @]
        /\ gapIn' = gapIn \ {c}
     \/ UNCHANGED done /\ gapIn' = gapIn \cup {c}
  /\ UNCHANGED <<shelf, opening, opened, planFor, view>>

\* DeleteDomain: sessions, progress, gaps and visits go with the course.
CourseTaken(c) ==
  /\ Meanwhile /\ c \in shelf /\ Cardinality(Shelf \ shelf) < MaxTaken
  /\ shelf' = shelf \ {c}
  /\ done' = [done EXCEPT ![c] = 0] /\ gapIn' = gapIn \ {c}
  /\ opened' = [opened EXCEPT ![c] = 0] /\ studied' = [studied EXCEPT ![c] = 0]
  /\ UNCHANGED <<moment, opening, planFor, view>>
-----------------------------------------------------------------------------
(* The request, GetLearningShortcuts.                                      *)

others == <<moment, shelf, done, opening, opened, studied, planFor, gapIn>>

\* The course of the latest time, none if there is no row.
LatestOf(times) ==
  LET rows == {c \in Shelf : times[c] > 0}
  IN IF rows = {} THEN 0 ELSE CHOOSE c \in rows : \A d \in rows : times[d] <= times[c]

FindLastDomainAccess == LatestOf(opened)
FindLastStudiedSession == LatestOf(studied)

ListDomainSummaries ==
  /\ view.at = "idle"
  /\ view' = [NoView EXCEPT !.at = "last", !.seen = shelf, !.done = done]
  /\ UNCHANGED others

\* The last lesson: the course visited last, and when, ...
ReadsAccess ==
  /\ view.at = "last"
  /\ LET access == FindLastDomainAccess
     IN view' = [view EXCEPT !.at = "session", !.last = access,
                             !.since = IF access = 0 THEN 0 ELSE opened[access]]
  /\ UNCHANGED others

\* ... or, if that was earlier, the one studied last, which is read next.
buildLastLesson ==
  /\ view.at = "session"
  /\ LET sess == FindLastStudiedSession
         useAccess == view.last # 0 /\ (sess # 0 => view.since >= studied[sess])
     IN view' = [view EXCEPT !.at = "plan", !.since = 0,
                             !.last = IF useAccess THEN view.last ELSE sess]
  /\ UNCHANGED others

\* HydrateLegacyPlan forgets a course that is gone; one that is finished or
\* the last lesson's is recommended all the same.  None if a read fails.
planningRecommendation ==
  /\ view.at = "plan"
  /\ \E c \in {0} \cup ({planFor} \cap shelf \cap view.seen) :
       view' = [view EXCEPT !.at = "gap", !.plan = c]
  /\ UNCHANGED others

Used == {view.last, view.plan, view.gap}

\* Finished according to the list that was read, which also says how many.
Finished(c) == SizeOf[c] > 0 /\ view.done[c] >= SizeOf[c]

GapOfAnyCourse ==    \* mutant: a course that is shown already is not passed over
  /\ view.at = "gap"
  /\ LET fit == {c \in gapIn \cap view.seen : ~Finished(c)}
     IN \E c \in fit \cup {0} :
          view' = [view EXCEPT !.at = "rest", !.gap = c]
  /\ UNCHANGED others

\* The first gap of a course that is neither shown already nor finished, among
\* the 15 that are read; none if others fill them or the read fails.
gapRecommendation ==
  /\ view.at = "gap"
  /\ LET fit == {c \in gapIn \cap (view.seen \ Used) : ~Finished(c)}
     IN \E c \in fit \cup {0} :
          view' = [view EXCEPT !.at = "rest", !.gap = c]
  /\ UNCHANGED others

Started(c) == view.done[c] > 0

\* DomainLastActivity, else the time the course was made.
Activity(c) == IF studied[c] > 0 THEN studied[c] ELSE c

Precedes(c, d) == \/ Started(c) /\ ~Started(d)
                  \/ Started(c) = Started(d) /\ Activity(c) > Activity(d)
                  \/ Started(c) = Started(d) /\ Activity(c) = Activity(d) /\ c > d

Sorted(courses) ==
  CHOOSE list \in [1 .. Cardinality(courses) -> courses] :
    \A i, j \in DOMAIN list : i < j => Precedes(list[i], list[j])

Shown(c) == IF c = 0 THEN 0 ELSE 1
Room == MaxRecommendations - Shown(view.plan) - Shown(view.gap)

\* What room is left is for the unfinished courses, those begun first.
progressRecommendations ==
  /\ view.at = "rest"
  /\ LET fit == {c \in view.seen \ Used : SizeOf[c] > 0 /\ ~Finished(c)}
         length == Min({Cardinality(fit), Room})
     IN view' = [view EXCEPT !.at = "shown", !.rest = [i \in 1 .. length |-> Sorted(fit)[i]]]
  /\ UNCHANGED others

ShortcutsNext ==
  \/ TouchDomainAccess
  \/ \E c \in Shelf : PageOpens(c) \/ Studies(c) \/ CourseTaken(c)
  \/ ListDomainSummaries \/ ReadsAccess \/ buildLastLesson \/ planningRecommendation
  \/ gapRecommendation \/ progressRecommendations

ShortcutsSpec == ShortcutsInit /\ [][ShortcutsNext]_shortcutVars
-----------------------------------------------------------------------------
(* Properties.                                                             *)

Recommended == ({view.plan, view.gap} \ {0}) \cup Range(view.rest)

\* What is shown in the end makes sense whatever changed between the reads: no
\* course twice, two at most; the last lesson's course and a finished one only
\* because the plan says so; with room left every unfinished course is there;
\* and one that was begun before one that was not (GetLearningShortcuts).
ShortcutsSound ==
  view.at = "shown" =>
    /\ view.plan = 0 \/ view.plan # view.gap
    /\ {view.plan, view.gap} \cap Range(view.rest) = {}
    /\ IsInjective(view.rest)
    /\ Cardinality(Recommended) <= MaxRecommendations
    /\ \A c \in Recommended \ {view.plan} : c # view.last /\ ~Finished(c)
    /\ \A c \in view.seen :
         LET waits == SizeOf[c] > 0 /\ ~Finished(c)
                      /\ c \notin Recommended \cup {view.last}
         IN waits => /\ Cardinality(Recommended) = MaxRecommendations
                     /\ \A i \in DOMAIN view.rest : Started(c) => Started(view.rest[i])
=============================================================================
