-------------------------- MODULE MCSessionService --------------------------
(***************************************************************************)
(* Two requests of one learner: through one service (two browser tabs), or *)
(* one through the web server and one through the IM gateway.              *)
(***************************************************************************)
EXTENDS SessionService, TLC

CONSTANTS r1, r2, web, im

OneService == [r \in Requests |-> web]
Tabs == Permutations(Requests)

TwoServices == [r \in Requests |-> IF r = r1 THEN web ELSE im]
=============================================================================
