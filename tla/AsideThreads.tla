---------------------------- MODULE AsideThreads ----------------------------
(***************************************************************************)
(* The aside assistant: a learner looks up a term or asks beside the       *)
(* lesson.  What was explained is kept as a card of the term with its      *)
(* number of lookups, and the prerequisites an answer names go into the    *)
(* ledger of knowledge gaps in the background (service/aside.go,           *)
(* storage/aside.go, agent/gap_ledger.go, storage/knowledge_gaps.go,       *)
(* service/shortcuts.go).                                                  *)
(*                                                                         *)
(* One course and one term, whose card names one concept; the concept may  *)
(* belong to a node of the course, perhaps only after an extension.  Every *)
(* statement is a step, and requests run at the same time.                 *)
(***************************************************************************)
EXTENDS Integers, FiniteSets

CONSTANT Lookups   \* requests to explain, to ask or to recommend

VARIABLES
  card,     \* term_cards: hit_count and whose text it has; no row: 0 hits
  gap,      \* knowledge_gaps: the row of the concept
  lookup,   \* where each request is and what it has read
  taught,   \* a node of the tree has the concept
  learned,  \* that node is lit: "no", "lit" (row still open), "closed"
  removed,  \* the course was deleted
  shown,    \* history: lookups whose card was stored since the last deletion
  recorded  \* history: answers that reached the ledger since then

asideVars == <<card, gap, lookup, taught, learned, removed, shown, recorded>>

NoCard == [hits |-> 0, text |-> "none"]
NoGap == [state |-> "none", hits |-> 0, matched |-> FALSE]
Starts == [at |-> "idle", text |-> "none", match |-> FALSE, old |-> FALSE]

AsideInit ==
  /\ card = NoCard /\ gap = NoGap
  /\ lookup = [r \in Lookups |-> Starts]
  /\ taught \in BOOLEAN /\ learned = "no"
  /\ removed = FALSE /\ shown = {} /\ recorded = {}

Step(r, from, to) == lookup[r].at = from /\ lookup' = [lookup EXCEPT ![r].at = to]
-----------------------------------------------------------------------------
\* GetTermCard finds the card ...
ExplainCached(r) ==
  /\ lookup[r].at = "idle" /\ card.hits > 0
  /\ lookup' = [lookup EXCEPT ![r] = [Starts EXCEPT !.at = "bump", !.text = card.text]]
  /\ UNCHANGED <<card, gap, taught, learned, removed, shown, recorded>>

\* ... which is stored again as it was read: one hit more, no gap.
BumpsCard(r) ==
  /\ Step(r, "bump", "done")
  /\ card' = [hits |-> card.hits + 1, text |-> lookup[r].text]
  /\ shown' = shown \cup {r}
  /\ UNCHANGED <<gap, taught, learned, removed, recorded>>

\* No card: the LLM is asked; a free question is not looked up at all.
Asks(r) ==
  /\ \/ card.hits = 0 /\ Step(r, "idle", "explain")
     \/ Step(r, "idle", "answer")
  /\ UNCHANGED <<card, gap, taught, learned, removed, shown, recorded>>

ExplainOverwrites(r) ==    \* mutant: the card is inserted, or replaced by a new one
  /\ Step(r, "explain", "match")
  /\ card' = [hits |-> 1, text |-> r]
  /\ shown' = shown \cup {r}
  /\ UNCHANGED <<gap, taught, learned, removed, recorded>>

\* UpsertTermCard, atomic: a card stored meanwhile is replaced and counted.
ExplainGenerate(r) ==
  /\ Step(r, "explain", "match")
  /\ card' = [hits |-> card.hits + 1, text |-> r]
  /\ shown' = shown \cup {r}
  /\ UNCHANGED <<gap, taught, learned, removed, recorded>>

\* AskStream stores question and answer when the answer is there.
AskStream(r) ==
  /\ Step(r, "answer", "match")
  /\ UNCHANGED <<card, gap, taught, learned, removed, shown, recorded>>

\* An error of the LLM; or the answer names no concept, or the process stops,
\* before the ledger is reached.
Stops(r) ==
  /\ lookup[r].at \in {"explain", "answer", "match"}
  /\ lookup' = [lookup EXCEPT ![r].at = "done"]
  /\ UNCHANGED <<card, gap, taught, learned, removed, shown, recorded>>

\* RecordConcepts: the concept is matched against the tree, ...
ResolveMatch(r) ==
  /\ lookup[r].at = "match"
  /\ lookup' = [lookup EXCEPT ![r].at = "select", ![r].match = taught]
  /\ UNCHANGED <<card, gap, taught, learned, removed, shown, recorded>>

\* ... UpsertKnowledgeGap reads the row, ...
SelectGap(r) ==
  /\ lookup[r].at = "select"
  /\ lookup' = [lookup EXCEPT ![r].at = IF gap.state = "none" THEN "insert" ELSE "update",
                              ![r].old = gap.matched]
  /\ UNCHANGED <<card, gap, taught, learned, removed, shown, recorded>>

\* ... inserts one, which fails if there is one by now, or ...
InsertGap(r) ==
  /\ Step(r, "insert", "done")
  /\ gap' = IF gap.state = "none"
            THEN [state |-> "open", hits |-> 1, matched |-> lookup[r].match] ELSE gap
  /\ recorded' = recorded \cup {r}
  /\ UNCHANGED <<card, taught, learned, removed, shown>>

\* ... counts, reopens it and writes back the match that was read, if none was
\* found.
UpdateGap(r) ==
  /\ Step(r, "update", "done")
  /\ gap' = IF gap.state = "none" THEN gap
            ELSE [state |-> "open", hits |-> gap.hits + 1,
                  matched |-> lookup[r].match \/ lookup[r].old]
  /\ recorded' = recorded \cup {r}
  /\ UNCHANGED <<card, taught, learned, removed, shown>>

\* gapRecommendation matches an open gap that has no node yet ...
FindsGap(r) ==
  /\ gap.state = "open" /\ ~gap.matched /\ taught
  /\ Step(r, "idle", "cache")
  /\ UNCHANGED <<card, gap, taught, learned, removed, shown, recorded>>

\* ... and stores that, by id, closed or not.
UpdateKnowledgeGapMatch(r) ==
  /\ Step(r, "cache", "done")
  /\ gap' = IF gap.state = "none" THEN gap ELSE [gap EXCEPT !.matched = TRUE]
  /\ UNCHANGED <<card, taught, learned, removed, shown, recorded>>

\* The learner closes the gap.
ResolveGap ==
  /\ gap.state = "open"
  /\ gap' = [gap EXCEPT !.state = "closed"]
  /\ UNCHANGED <<card, lookup, taught, learned, removed, shown, recorded>>

\* The node is lit, and the gaps mapped to it are closed in a later statement.
LightsNode ==
  /\ taught /\ learned = "no" /\ learned' = "lit"
  /\ UNCHANGED <<card, gap, lookup, taught, removed, shown, recorded>>

ResolveGapsByNode ==
  /\ learned = "lit" /\ learned' = "closed"
  /\ gap' = IF gap.state = "open" /\ gap.matched
            THEN [gap EXCEPT !.state = "closed"] ELSE gap
  /\ UNCHANGED <<card, lookup, taught, removed, shown, recorded>>

\* An extension brings the node.
NodeAppears ==
  /\ ~taught /\ ~removed /\ taught' = TRUE
  /\ UNCHANGED <<card, gap, lookup, learned, removed, shown, recorded>>

\* DeleteDomain; requests that are under way write their rows all the same.
CourseRemoved ==
  /\ ~removed /\ removed' = TRUE
  /\ card' = NoCard /\ gap' = NoGap
  /\ taught' = FALSE
  /\ shown' = {} /\ recorded' = {}
  /\ UNCHANGED <<lookup, learned>>

AsideNext ==
  \/ \E r \in Lookups :
       \/ ExplainCached(r) \/ BumpsCard(r) \/ Asks(r) \/ ExplainGenerate(r)
       \/ AskStream(r) \/ Stops(r) \/ ResolveMatch(r) \/ SelectGap(r)
       \/ InsertGap(r) \/ UpdateGap(r) \/ FindsGap(r) \/ UpdateKnowledgeGapMatch(r)
  \/ ResolveGap \/ LightsNode \/ ResolveGapsByNode \/ NodeAppears \/ CourseRemoved

AsideSpec == AsideInit /\ [][AsideNext]_asideVars
-----------------------------------------------------------------------------
(* Properties.                                                             *)

\* The counts say what they are shown for: a card counts every explanation
\* that was stored, however many ran at once; a gap counts answers that named
\* the concept, and never a lookup of the cache (UpsertTermCard, ExplainCached,
\* UpsertKnowledgeGap).
CountsAreTrue ==
  /\ card.hits = Cardinality(shown)
  /\ gap.hits <= Cardinality(recorded)
  /\ card.hits > 0 => card.text \in Lookups
=============================================================================
