--------------------------- MODULE ChannelBinding ---------------------------
(***************************************************************************)
(* How a chat account comes to stand for a learner: by the learner's name, *)
(* or by a code that the learner made on the web page and that may be used *)
(* once, for some minutes (channel/router.go handleBind,                   *)
(* storage/bindings.go, storage/bind_codes.go, storage/users.go).          *)
(*                                                                         *)
(* The statements of a redemption are steps of their own: the same message *)
(* may be handled twice at once, and learners are deleted meanwhile.       *)
(***************************************************************************)
EXTENDS Integers, FiniteSets

CONSTANTS
  Accounts, Learners,
  Readers,       \* goroutines that handle a "bind" message
  AccountOf,     \* [Readers -> Accounts]
  Codes,
  CodeOwner,     \* [Codes -> Learners]
  CodeLike       \* learners whose name is six letters or digits

ASSUME BindingAssumption ==
  /\ AccountOf \in [Readers -> Accounts]
  /\ CodeOwner \in [Codes -> Learners]
  /\ CodeLike \subseteq Learners

VARIABLES
  people,   \* table users
  bound,    \* channel_bindings: the learner of each account, or "nobody"
  code,     \* channel_bind_codes
  reader,   \* where each goroutine is, and the code it redeems
  redeemed  \* history: the goroutines that got a learner for a code

bindVars == <<people, bound, code, reader, redeemed>>

Waits == [at |-> "idle", code |-> "-"]

BindingInit ==
  /\ people = Learners
  /\ bound = [a \in Accounts |-> "nobody"]
  /\ code = [k \in Codes |-> "none"]
  /\ reader = [r \in Readers |-> Waits]
  /\ redeemed = [k \in Codes |-> {}]
-----------------------------------------------------------------------------
CreateBindCode(k) ==
  /\ code[k] = "none" /\ CodeOwner[k] \in people
  /\ code' = [code EXCEPT ![k] = "fresh"]
  /\ UNCHANGED <<people, bound, reader, redeemed>>

\* bindCodeTTL passes.
CodeExpires(k) ==
  /\ code[k] = "fresh"
  /\ code' = [code EXCEPT ![k] = "expired"]
  /\ UNCHANGED <<people, bound, reader, redeemed>>

\* A name that looks like a code is taken for one and never looked up.
BindByName(r, u) ==
  /\ reader[r].at = "idle"
  /\ u \in people \ CodeLike
  /\ bound' = [bound EXCEPT ![AccountOf[r]] = u]
  /\ UNCHANGED <<people, code, reader, redeemed>>

\* RedeemBindCode reads the row: used, expired and unknown codes end here ...
RedeemReads(r, k) ==
  /\ reader[r].at = "idle"
  /\ code[k] = "fresh"
  /\ reader' = [reader EXCEPT ![r] = [at |-> "claim", code |-> k]]
  /\ UNCHANGED <<people, bound, code, redeemed>>

RedeemClaimsUnchecked(r) ==    \* mutant: the UPDATE lacks "AND used_at IS NULL"
  /\ reader[r].at = "claim"
  /\ LET k == reader[r].code IN
       /\ code' = [code EXCEPT ![k] = "used"]
       /\ redeemed' = [redeemed EXCEPT ![k] = @ \cup {r}]
       /\ reader' = [reader EXCEPT ![r].at = "bind"]
  /\ UNCHANGED <<people, bound>>

\* ... and claims it: UPDATE ... WHERE code = ? AND used_at IS NULL.
RedeemClaims(r) ==
  /\ reader[r].at = "claim"
  /\ LET k == reader[r].code IN
     IF code[k] \in {"fresh", "expired"}
     THEN /\ code' = [code EXCEPT ![k] = "used"]
          /\ redeemed' = [redeemed EXCEPT ![k] = @ \cup {r}]
          /\ reader' = [reader EXCEPT ![r].at = "bind"]
     ELSE /\ reader' = [reader EXCEPT ![r] = Waits]
          /\ UNCHANGED <<code, redeemed>>
  /\ UNCHANGED <<people, bound>>

\* GetUser and the upsert; a learner deleted meanwhile, or a failed statement,
\* leaves the binding as it was and the code spent.
BindsAccount(r) ==
  /\ reader[r].at = "bind"
  /\ \/ UNCHANGED bound
     \/ /\ CodeOwner[reader[r].code] \in people
        /\ bound' = [bound EXCEPT ![AccountOf[r]] = CodeOwner[reader[r].code]]
  /\ reader' = [reader EXCEPT ![r] = Waits]
  /\ UNCHANGED <<people, code, redeemed>>

\* DeleteUser: one transaction; the codes of the learner are deleted with it.
DeleteUser(u) ==
  /\ u \in people
  /\ people' = people \ {u}
  /\ bound' = [a \in Accounts |-> IF bound[a] = u THEN "nobody" ELSE bound[a]]
  /\ code' = [k \in Codes |-> IF CodeOwner[k] = u THEN "deleted" ELSE code[k]]
  /\ UNCHANGED <<reader, redeemed>>

BindingNext ==
  \/ \E k \in Codes : CreateBindCode(k) \/ CodeExpires(k)
  \/ \E u \in Learners : DeleteUser(u)
  \/ \E r \in Readers :
       \/ RedeemClaims(r) \/ BindsAccount(r)
       \/ \E k \in Codes : RedeemReads(r, k)
       \/ \E u \in Learners : BindByName(r, u)

BindingSpec == BindingInit /\ [][BindingNext]_bindVars
-----------------------------------------------------------------------------
(* Properties.                                                             *)

BindingTypeOK ==
  /\ people \subseteq Learners
  /\ bound \in [Accounts -> people \cup {"nobody"}]
  /\ code \in [Codes -> {"none", "fresh", "expired", "used", "deleted"}]
  /\ reader \in [Readers -> {Waits} \cup [at : {"claim", "bind"}, code : Codes]]
  /\ redeemed \in [Codes -> SUBSET Readers]

\* A code lets one message in, however many carry it at the same time
\* (RedeemBindCode).
CodeBindsOnce == \A k \in Codes : Cardinality(redeemed[k]) <= 1
=============================================================================
