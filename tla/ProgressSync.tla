---------------------------- MODULE ProgressSync ----------------------------
(***************************************************************************)
(* The offline runtime and the server each keep the progress of a node,    *)
(* and "regulus sync push" and "regulus sync pull" bring the two together: *)
(* the row with the later updated_at wins (cliruntime/sync.go,             *)
(* cliruntime/remote.go, api/sync_progress.go).                            *)
(*                                                                         *)
(* One learner and one node.  A push sends the rows it has read, cut to    *)
(* seconds; the server compares and writes in two statements.  Learning    *)
(* goes on on both sides meanwhile, and a request may get lost.  Both      *)
(* clocks are taken to be the same; its unit is half a second.             *)
(***************************************************************************)
EXTENDS Integers

CONSTANTS
  Sides,     \* databases: the runtime's and the server's
  Local, Server,
  MaxTicks   \* bound of the clock

ASSUME SyncAssumption ==
  Sides = {Local, Server} /\ Local # Server /\ MaxTicks \in Nat

NoRow == [status |-> "none", at |-> -1]
NoSync == [step |-> "idle", row |-> NoRow, clean |-> TRUE]

VARIABLES
  clock,
  row,     \* user_progress of the node on each side
  sync,    \* the push or pull going on, the row it carries, and (history)
           \* whether nobody has learned since it began
  agreed,  \* history: the sides a sync has reached since somebody learned
  newest   \* history: the row written last by learning, unless a sync that had
           \* compared before has written over it

syncVars == <<clock, row, sync, agreed, newest>>

SyncInit ==
  /\ clock = 0
  /\ row = [s \in Sides |-> NoRow]
  /\ sync = NoSync
  /\ agreed = {} /\ newest = NoRow

Seconds(at) == at - (at % 2)

Touched(s, status) ==
  /\ row' = [row EXCEPT ![s] = [status |-> status, at |-> clock]]
  /\ sync' = [sync EXCEPT !.clean = (@ /\ sync.step = "idle")]
  /\ agreed' = {}
  /\ newest' = row'[s]
  /\ UNCHANGED clock

\* Opening a node that is not lit; lighting it, or lighting it again.
Opens(s) == row[s].status # "completed" /\ Touched(s, "in_progress")
Lights(s) == row[s].status # "none" /\ Touched(s, "completed")

Ticks ==
  /\ clock < MaxTicks
  /\ clock' = clock + 1
  /\ UNCHANGED <<row, sync, agreed, newest>>
-----------------------------------------------------------------------------
\* SyncPush reads the local rows; SyncPull reads the server's, which keep
\* their fractions of a second.
SyncPush ==
  /\ sync.step = "idle" /\ row[Local] # NoRow
  /\ sync' = [NoSync EXCEPT !.step = "push",
                            !.row = [row[Local] EXCEPT !.at = Seconds(@)]]
  /\ UNCHANGED <<clock, row, agreed, newest>>

SyncPull ==
  /\ sync.step = "idle" /\ row[Server] # NoRow
  /\ sync' = [NoSync EXCEPT !.step = "pull", !.row = row[Server]]
  /\ UNCHANGED <<clock, row, agreed, newest>>

WinsIfOlder(incoming, present) ==    \* mutant: the comparison the wrong way round
  present = NoRow \/ present.at > incoming.at

\* syncProgress and remoteProgressWins.
Wins(incoming, present) == present = NoRow \/ present.at < incoming.at

Into == IF sync.step \in {"push", "write there"} THEN Server ELSE Local

Reached == IF sync.clean THEN agreed \cup {Into} ELSE agreed

\* The row on the other side is read and loses, or is to be overwritten.
Compares ==
  /\ sync.step \in {"push", "pull"}
  /\ IF Wins(sync.row, row[Into])
     THEN /\ sync' = [sync EXCEPT !.step = IF Into = Server THEN "write there"
                                                             ELSE "write here"]
          /\ UNCHANGED agreed
     ELSE sync' = NoSync /\ agreed' = Reached
  /\ UNCHANGED <<clock, row, newest>>

\* UpsertProgress does not compare again.
UpsertProgress ==
  /\ sync.step \in {"write there", "write here"}
  /\ row' = [row EXCEPT ![Into] = sync.row]
  /\ newest' = IF row[Into] = newest /\ ~sync.clean THEN NoRow ELSE newest
  /\ agreed' = Reached
  /\ sync' = NoSync
  /\ UNCHANGED clock

\* The connection breaks, an UPSERT fails and is passed over.
SyncFails ==
  /\ sync # NoSync
  /\ sync' = NoSync
  /\ UNCHANGED <<clock, row, agreed, newest>>

SyncNext ==
  \/ Ticks \/ SyncPush \/ SyncPull \/ Compares \/ UpsertProgress \/ SyncFails
  \/ \E s \in Sides : Opens(s) \/ Lights(s)

SyncSpec == SyncInit /\ [][SyncNext]_syncVars
-----------------------------------------------------------------------------
(* Properties.                                                             *)

\* After a push and a pull between which nobody learned, both sides say the
\* same of the node, and it is what the learner did last, wherever that was;
\* unless both had written it within the same second, or a sync wrote over it
\* (syncProgress and remoteProgressWins compare before UpsertProgress).
SyncConverges ==
  agreed = Sides =>
    /\ \/ row[Local].status = row[Server].status
       \/ Seconds(row[Local].at) = Seconds(row[Server].at)
    /\ newest # NoRow =>
         \A s \in Sides : \/ row[s].status = newest.status
                          \/ Seconds(row[s].at) = Seconds(newest.at)
=============================================================================
