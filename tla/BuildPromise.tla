---------------------------- MODULE BuildPromise ----------------------------
(***************************************************************************)
(* What a learner is promised about course jobs, without saying how: a     *)
(* request is refused or admitted to one of Slots places, an admitted one  *)
(* is turned away or accepted, an accepted one ends, and its place is      *)
(* given back afterwards.  A stop of the process loses what was going on.  *)
(***************************************************************************)
EXTENDS Integers, FiniteSets

CONSTANTS Asked, Slots

VARIABLES outcome, held

promiseVars == <<outcome, held>>

Outcomes == {"open", "refused", "accepted", "done", "failed", "lost"}

PromiseInit == outcome = [r \in Asked |-> "open"] /\ held = {}

Becomes(r, from, to) == outcome[r] = from /\ outcome' = [outcome EXCEPT ![r] = to]

Refuse(r) == r \notin held /\ Becomes(r, "open", "refused") /\ UNCHANGED held

Admit(r) ==
  /\ outcome[r] = "open" /\ r \notin held
  /\ Cardinality(held) < Slots
  /\ held' = held \cup {r}
  /\ UNCHANGED outcome

TurnAway(r) ==
  r \in held /\ Becomes(r, "open", "refused") /\ held' = held \ {r}

Accept(r) == r \in held /\ Becomes(r, "open", "accepted") /\ UNCHANGED held

End(r) ==
  /\ r \in held
  /\ \E to \in {"done", "failed"} : Becomes(r, "accepted", to)
  /\ UNCHANGED held

GiveBack(r) ==
  /\ r \in held /\ outcome[r] \in {"done", "failed"}
  /\ held' = held \ {r}
  /\ UNCHANGED outcome

\* Requests that got no place yet may be lost with the others.
Stop ==
  /\ held' = {}
  /\ \E cut \in SUBSET {r \in Asked : outcome[r] = "open"} :
       outcome' = [r \in Asked |->
         IF r \in cut \/ (r \in held /\ outcome[r] \in {"open", "accepted"})
         THEN "lost" ELSE outcome[r]]

PromiseNext ==
  \/ \E r \in Asked : \/ Refuse(r) \/ Admit(r) \/ TurnAway(r)
                      \/ Accept(r) \/ End(r) \/ GiveBack(r)
  \/ Stop

\* Whoever has a place moves on and gives it back.
PromiseSpec ==
  /\ PromiseInit /\ [][PromiseNext]_promiseVars
  /\ \A r \in Asked :
       WF_promiseVars(TurnAway(r) \/ Accept(r) \/ End(r) \/ GiveBack(r))
=============================================================================
