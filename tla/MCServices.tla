----------------------------- MODULE MCServices -----------------------------
(***************************************************************************)
(* The services around the courses, each on a small instance: course jobs, *)
(* the message quota, binding of chat accounts, profile and summaries, the *)
(* aside assistant, the sync of the offline runtime, and the schema all of *)
(* them open.  A behaviour is one of the module that `service` names; the  *)
(* others stay as they are.                                                *)
(***************************************************************************)
EXTENDS BuildJobs, MessageQuota, ChannelBinding, LearnerProfile, AsideThreads,
        ProgressSync, SchemaMigration

VARIABLE service

allVars == <<service, jobVars, quotaVars, bindVars, profileVars, asideVars, syncVars,
             schemaVars>>

ServicesInit ==
  /\ JobsInit /\ QuotaInit /\ BindingInit /\ ProfileInit /\ AsideInit /\ SyncInit
  /\ SchemaInit
  /\ service \in {"jobs", "quota", "binding", "profile", "aside", "sync", "schema"}
  /\ service # "aside" => ~taught

ServicesNext ==
  /\ UNCHANGED service
  /\ \/ /\ service = "jobs" /\ JobsNext
        /\ UNCHANGED <<quotaVars, bindVars, profileVars, asideVars, syncVars, schemaVars>>
     \/ /\ service = "quota" /\ QuotaNext
        /\ UNCHANGED <<jobVars, bindVars, profileVars, asideVars, syncVars, schemaVars>>
     \/ /\ service = "binding" /\ BindingNext
        /\ UNCHANGED <<jobVars, quotaVars, profileVars, asideVars, syncVars, schemaVars>>
     \/ /\ service = "profile" /\ ProfileNext
        /\ UNCHANGED <<jobVars, quotaVars, bindVars, asideVars, syncVars, schemaVars>>
     \/ /\ service = "aside" /\ AsideNext
        /\ UNCHANGED <<jobVars, quotaVars, bindVars, profileVars, syncVars, schemaVars>>
     \/ /\ service = "sync" /\ SyncNext
        /\ UNCHANGED <<jobVars, quotaVars, bindVars, profileVars, asideVars, schemaVars>>
     \/ /\ service = "schema" /\ SchemaNext
        /\ UNCHANGED <<jobVars, quotaVars, bindVars, profileVars, asideVars, syncVars>>

\* Only the jobs have a fairness assumption.
ServicesSpec ==
  /\ ServicesInit /\ [][ServicesNext]_allVars
  /\ (service = "jobs" => JobsFairness)
-----------------------------------------------------------------------------
MCUserOf == [r \in Requests |-> IF r \in {"build", "audit"} THEN "u1" ELSE "u2"]
MCKindOf == [r \in Requests |-> r]
MCAccountOf == [r \in Readers |-> IF r = "m1" THEN "a1" ELSE "a2"]
MCCodeOwner == [k \in Codes |-> "u1"]
MCMemberOf == [t \in Tabs |-> "u1"]
MCCallOf == [t \in Tabs |-> t]
-----------------------------------------------------------------------------
Made(kind, name, needs) == [kind |-> kind, name |-> name, needs |-> needs]
Text(list) == [apart |-> FALSE, list |-> list]
Apart(list) == [apart |-> TRUE, list |-> list]

\* 001, 002, 003 (without the index that 006 drops), 006, 009 and 011: those
\* that others depend on, and one of three columns.
MCMigrations ==
  <<Text(<<Made("if not exists", "tables", {})>>),
    Text(<<Made("column", "phase", {"tables"}),
           Made("column", "context_json", {"tables"}),
           Made("column", "domain_slug", {"tables"})>>),
    Text(<<Made("column", "slug", {"tables"})>>),
    Apart(<<Made("column", "user_id", {"tables"}),
            Made("fill", "owners", {"user_id"}),
            Made("if not exists", "idx_domains_user_slug", {"user_id", "slug"})>>),
    Text(<<Made("column", "profile_summary", {"tables"})>>),
    Text(<<Made("column", "onboarded_at", {"tables"}),
           Made("fill", "onboarded users", {"onboarded_at", "profile_summary"})>>)>>
=============================================================================
