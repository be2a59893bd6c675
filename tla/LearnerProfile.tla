--------------------------- MODULE LearnerProfile ---------------------------
(***************************************************************************)
(* What is remembered about a learner: the global profile, made at the     *)
(* onboarding and edited later, and per course a summary that the LLM      *)
(* brings up to date each time a node is lit (agent/profile_*.go,          *)
(* storage/profile_store.go, storage/domain_profiles.go, api/users_*.go).  *)
(*                                                                         *)
(* Of a text, what went into it is kept: the nodes, an old sentence about  *)
(* the course, or that it was written anew.  The LLM is taken to keep what *)
(* it was given.  One learner, one course.                                 *)
(***************************************************************************)
EXTENDS Integers, FiniteSets

CONSTANTS
  Lessons,     \* nodes of the course
  MaxSeconds,  \* bound of the clock
  MaxForms     \* bound: questionnaires under way

ASSUME ProfileAssumption ==
  /\ MaxSeconds \in Nat /\ MaxForms \in Nat
  /\ {"sentence", "anew"} \cap Lessons = {}

NoSummary == [of |-> {}, at |-> -1]
Quiet == [at |-> "idle", base |-> {}, ended |-> 0]

VARIABLES
  now,       \* the clock, in the seconds that RFC3339 keeps
  owned,     \* the course exists
  summary,   \* user_domain_profiles: what the text covers, updated_at
  refresh,   \* scheduleProfileRefresh's goroutine of each node
  profile,   \* users: what the global profile covers
  edit,      \* a request that refines or migrates the profile, its copy
  onboarded, \* users.onboarded_at is set
  forms,     \* questionnaires sent in and with the LLM
  overtook,  \* history: nodes whose refresh met another writer
  dropped    \* history: the old sentence was given up, met another writer, or
             \* an error of the migration was ignored

profileVars == <<now, owned, summary, refresh, profile, edit, onboarded,
                forms, overtook, dropped>>
courseText == <<summary, refresh, overtook>>
globalText == <<profile, edit, onboarded, forms, dropped>>
welcome == <<onboarded, forms>>

ProfileInit ==
  /\ now = 0 /\ owned = TRUE
  /\ summary = NoSummary
  /\ refresh = [n \in Lessons |-> Quiet]
  /\ profile = {"sentence"}
  /\ edit = Quiet
  /\ onboarded \in BOOLEAN /\ forms = 0
  /\ overtook = {} /\ dropped = FALSE

Refreshing == {n \in Lessons : refresh[n].at \in {"think", "store"}}

SecondPasses ==
  /\ now < MaxSeconds
  /\ now' = now + 1
  /\ UNCHANGED <<owned, courseText, globalText>>
-----------------------------------------------------------------------------
(* The summary of the course.                                              *)

\* Lighting a node starts a goroutine, which no other one waits for.
NodeLit(n) ==
  /\ owned /\ refresh[n].at = "idle"
  /\ refresh' = [refresh EXCEPT ![n].at = "start"]
  /\ UNCHANGED <<now, owned, summary, overtook, globalText>>

\* Little was said, the session or the node is gone, the LLM failed.
RefreshEnds(n) ==
  /\ refresh[n].at \in {"start", "think"}
  /\ refresh' = [refresh EXCEPT ![n] = [Quiet EXCEPT !.at = "given up"]]
  /\ UNCHANGED <<now, owned, summary, overtook, globalText>>

ReadsNothing(n) ==    \* mutant: the prompt is without the summary so far
  /\ refresh[n].at = "start" /\ owned
  /\ refresh' = [refresh EXCEPT ![n].at = "think"]
  /\ overtook' = IF Refreshing # {} \/ edit.at = "move"
                 THEN overtook \cup Refreshing \cup {n} ELSE overtook
  /\ dropped' = (dropped \/ edit.at = "move")
  /\ UNCHANGED <<now, owned, summary, profile, edit, welcome>>

\* buildProfileRefreshInput: the summary so far is part of the prompt.
ReadsSummary(n) ==
  /\ refresh[n].at = "start" /\ owned
  /\ refresh' = [refresh EXCEPT ![n].at = "think", ![n].base = summary.of]
  /\ overtook' = IF Refreshing # {} \/ edit.at = "move"
                 THEN overtook \cup Refreshing \cup {n} ELSE overtook
  /\ dropped' = (dropped \/ edit.at = "move")
  /\ UNCHANGED <<now, owned, summary, profile, edit, welcome>>

\* completedAt is taken when the LLM has answered, and the owner is looked up.
Summarises(n) ==
  /\ refresh[n].at = "think" /\ owned
  /\ refresh' = [refresh EXCEPT ![n].at = "store", ![n].ended = now]
  /\ UNCHANGED <<now, owned, summary, overtook, globalText>>

\* ON CONFLICT ... WHERE excluded.updated_at > updated_at.
Newer(ended, of) == IF ended > summary.at THEN [of |-> of, at |-> ended] ELSE summary

\* A text of the same second is dropped.
UpsertDomainProfile(n) ==
  /\ refresh[n].at = "store"
  /\ summary' = Newer(refresh[n].ended, refresh[n].base \cup {n})
  /\ overtook' = IF refresh[n].ended > summary.at THEN overtook ELSE overtook \cup {n}
  /\ refresh' = [refresh EXCEPT ![n] = [Quiet EXCEPT !.at = "stored"]]
  /\ UNCHANGED <<now, owned, globalText>>

\* DeleteDomain, also of a course that was regenerated: texts are not moved.
CourseGoes ==
  /\ owned /\ owned' = FALSE
  /\ summary' = NoSummary
  /\ UNCHANGED <<now, refresh, overtook, globalText>>
-----------------------------------------------------------------------------
(* The global profile.                                                     *)

\* The questionnaire is for the new: who is onboarded is not asked again, but
\* two tabs may both send it in.  Skipping it only marks.
completeUserOnboarding ==
  /\ ~onboarded
  /\ \/ onboarded' = TRUE /\ UNCHANGED forms
     \/ forms < MaxForms /\ forms' = forms + 1 /\ UNCHANGED onboarded
  /\ UNCHANGED <<now, owned, courseText, profile, edit, dropped>>

\* The answers make a profile of their own, over what there was by then, and
\* the mark follows unless its write fails; or the LLM fails.
InitProfileFromOnboarding ==
  /\ forms > 0 /\ forms' = forms - 1
  /\ \/ /\ profile' = {"anew"} /\ dropped' = TRUE
        /\ onboarded' \in {onboarded, TRUE}
     \/ UNCHANGED <<profile, dropped, onboarded>>
  /\ UNCHANGED <<now, owned, courseText, edit>>

\* updateUserProfile overwrites all of it.
UpdateUserProfile ==
  /\ profile' = {"anew"} /\ dropped' = TRUE
  /\ UNCHANGED <<now, owned, courseText, edit, welcome>>

\* RefineUserProfile reads the profile, the LLM merges a supplement in, ...
ReadsProfile ==
  /\ edit.at = "idle"
  /\ edit' = [edit EXCEPT !.at = "merge", !.base = profile]
  /\ UNCHANGED <<now, owned, courseText, profile, welcome, dropped>>

\* ... and it is written over what is there by then, or there is an error.
RefineUserProfile ==
  /\ edit.at = "merge"
  /\ profile' \in {profile, edit.base}
  /\ edit' = Quiet
  /\ UNCHANGED <<now, owned, courseText, welcome, dropped>>

\* MigrateUserProfile takes the sentence about the course out of the goal, if
\* the course has no summary yet, or if it has and reading it fails: the error
\* is ignored, and history has whom the old sentence will overwrite; ...
MigrateReads ==
  /\ edit.at = "idle" /\ owned
  /\ "sentence" \in profile
  /\ edit' = [edit EXCEPT !.at = "move", !.base = profile]
  /\ overtook' = overtook \cup Refreshing \cup (summary.of \cap Lessons)
  /\ \/ summary.of = {} /\ dropped' = (dropped \/ Refreshing # {})
     \/ summary.of # {} /\ dropped' = TRUE
  /\ UNCHANGED <<now, owned, summary, refresh, profile, welcome>>

\* ... makes it the summary, an error of which is ignored too, ...
MigrateStores ==
  /\ edit.at = "move"
  /\ \/ /\ summary' = IF owned THEN Newer(now, {"sentence"}) ELSE summary
        /\ dropped' = dropped
     \/ summary' = summary /\ dropped' = TRUE
  /\ edit' = [edit EXCEPT !.at = "cut"]
  /\ UNCHANGED <<now, owned, refresh, overtook, profile, welcome>>

MigrateCutsFirst ==    \* mutant: the profile is written before the summary
  /\ edit.at \in {"move", "cut"}
  /\ profile' \in {profile, edit.base \ {"sentence"}}
  /\ edit' = Quiet
  /\ UNCHANGED <<now, owned, courseText, welcome, dropped>>

\* ... and writes the rest back as the profile: all of it, if the course could
\* not be looked up.  Only an error of this write, or a stop, ends it.
MigrateUserProfile ==
  /\ edit.at \in {"move", "cut"}
  /\ profile' \in {profile, IF edit.at = "cut" THEN edit.base \ {"sentence"} ELSE edit.base}
  /\ edit' = Quiet
  /\ UNCHANGED <<now, owned, courseText, welcome, dropped>>

ProfileNext ==
  \/ SecondPasses \/ CourseGoes
  \/ \E n \in Lessons :
       \/ NodeLit(n) \/ RefreshEnds(n) \/ ReadsSummary(n) \/ Summarises(n)
       \/ UpsertDomainProfile(n)
  \/ completeUserOnboarding \/ InitProfileFromOnboarding
  \/ UpdateUserProfile \/ ReadsProfile \/ RefineUserProfile
  \/ MigrateReads \/ MigrateStores \/ MigrateUserProfile

ProfileSpec == ProfileInit /\ [][ProfileNext]_profileVars
-----------------------------------------------------------------------------
(* Properties.                                                             *)

\* The summary covers every node it was brought up to date for, whatever came
\* later, unless two writers overlapped or wrote in the same second, or the
\* migration could not read the summary and overwrote it
\* (RefreshUserProfileAfterNode, UpsertDomainProfile, MigrateUserProfile).
SummaryAccumulates ==
  owned => \A n \in Lessons \ overtook : refresh[n].at = "stored" => n \in summary.of

\* The old sentence is in the profile or in the summary, at every step of the
\* migration, after one that was cut short and after one from a profile that an
\* edit has overtaken, unless the profile was overwritten, a refresh came
\* between, or a statement failed whose error the migration ignores: it then
\* cuts out what it has not stored (MigrateUserProfile).
SentenceKept == dropped \/ ~owned \/ "sentence" \in profile \cup summary.of
=============================================================================
