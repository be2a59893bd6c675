--------------------------- MODULE SchemaMigration ---------------------------
(***************************************************************************)
(* Opening the database (storage/sqlite.go: Open, migrate): every start    *)
(* runs every migration again, and nothing records which ones are done.    *)
(* A migration is one text of statements, or is run statement by statement *)
(* (006, 015, 019).  That a column is there already is an error, which is  *)
(* passed over; it ends a text, as errors do.  The server, the offline     *)
(* runtime and the MCP server may start on one file at the same time, and  *)
(* a process may stop between any two statements, each of which commits by *)
(* itself.                                                                 *)
(***************************************************************************)
EXTENDS Integers, Sequences, FiniteSets

CONSTANTS
  Openers,     \* processes
  Migrations,  \* [apart: run statement by statement, list: the statements]
  MaxStops     \* bound: processes that stop while they migrate

\* A statement makes `name`, as a new column or IF NOT EXISTS, or fills it in;
\* it needs what its table, index or UPDATE refers to.
Name(f, i) == Migrations[f].list[i].name

\* No column before it in its text: no start leaves the text before it.
AlwaysReached(f, i) ==
  Migrations[f].apart \/ \A j \in 1..(i - 1) : Migrations[f].list[j].kind # "column"

\* A name is made by one statement, and a statement needs only what earlier ones
\* of its file make and what every start has reached in the files before.
ASSUME MigrationAssumption ==
  /\ Len(Migrations) \in Nat \ {0} /\ DOMAIN Migrations = 1..Len(Migrations)
  /\ \A f \in DOMAIN Migrations :
       /\ Migrations[f].apart \in BOOLEAN
       /\ Len(Migrations[f].list) \in Nat \ {0}
       /\ DOMAIN Migrations[f].list = 1..Len(Migrations[f].list)
  /\ \A f, g \in DOMAIN Migrations :
       \A i \in DOMAIN Migrations[f].list, j \in DOMAIN Migrations[g].list :
         Name(f, i) = Name(g, j) => f = g /\ i = j
  /\ \A f \in DOMAIN Migrations : \A i \in DOMAIN Migrations[f].list :
       \A x \in Migrations[f].list[i].needs :
         \E g \in DOMAIN Migrations : \E j \in DOMAIN Migrations[g].list :
           /\ x = Name(g, j)
           /\ (g = f /\ j < i) \/ (g < f /\ AlwaysReached(g, j))
  /\ MaxStops \in Nat

VARIABLES
  schema,  \* what there is: columns, tables, indexes, values filled in
  opener,  \* where each process is
  stops,
  cut      \* history: migrations a process was stopped in the middle of

schemaVars == <<schema, opener, stops, cut>>

Off == [at |-> "off", file |-> 1, stmt |-> 1]

SchemaInit ==
  /\ schema = {} /\ stops = 0 /\ cut = {}
  /\ opener = [p \in Openers |-> Off]

Statement(p) == Migrations[opener[p].file].list[opener[p].stmt]
Migrating(p) == opener[p].at = "migrate"

\* The position after the statement, or after its file.
NextFile(o) ==
  IF o.file = Len(Migrations) THEN [Off EXCEPT !.at = "open"]
  ELSE [o EXCEPT !.file = @ + 1, !.stmt = 1]
NextStatement(o) ==
  IF o.stmt = Len(Migrations[o.file].list) THEN NextFile(o) ELSE [o EXCEPT !.stmt = @ + 1]
-----------------------------------------------------------------------------
Open(p) ==
  /\ opener[p].at = "off"
  /\ opener' = [opener EXCEPT ![p].at = "migrate"]
  /\ UNCHANGED <<schema, stops, cut>>

Duplicate(s) == s.kind = "column" /\ s.name \in schema

Executes(p) ==
  /\ Migrating(p)
  /\ LET s == Statement(p)
     IN /\ s.needs \subseteq schema /\ ~Duplicate(s)
        /\ schema' = schema \cup {s.name}
  /\ opener' = [opener EXCEPT ![p] = NextStatement(@)]
  /\ UNCHANGED <<stops, cut>>

LeavesFile(p) ==    \* mutant: a column that is there ends any migration
  /\ Migrating(p)
  /\ Duplicate(Statement(p))
  /\ opener' = [opener EXCEPT ![p] = NextFile(@)]
  /\ UNCHANGED <<schema, stops, cut>>

\* "duplicate column": the rest of a text is not run.
PassesOver(p) ==
  /\ Migrating(p)
  /\ Duplicate(Statement(p))
  /\ opener' = [opener EXCEPT ![p] =
       IF Migrations[@.file].apart THEN NextStatement(@) ELSE NextFile(@)]
  /\ UNCHANGED <<schema, stops, cut>>

\* A process ends: later, or in the middle of its start, also because of any
\* other error (a locked file, a full disk).
Close(p) ==
  /\ \/ opener[p].at = "open" /\ UNCHANGED <<stops, cut>>
     \/ /\ Migrating(p) /\ stops < MaxStops
        /\ stops' = stops + 1
        /\ cut' = IF opener[p].stmt > 1 THEN cut \cup {opener[p].file} ELSE cut
  /\ opener' = [opener EXCEPT ![p] = Off]
  /\ UNCHANGED schema

SchemaNext ==
  \E p \in Openers : Open(p) \/ Executes(p) \/ PassesOver(p) \/ Close(p)

SchemaSpec == SchemaInit /\ [][SchemaNext]_schemaVars
-----------------------------------------------------------------------------
(* Properties.                                                             *)

Makes(f) == {Name(f, i) : i \in DOMAIN Migrations[f].list}

\* Whatever a statement needs is there when it is its turn, whoever starts at
\* the same time and whatever was cut short before; and once a process has
\* opened the database, with nobody else at it, all of the schema is there.
\* Only a text that was cut after its first column stays as it is for ever,
\* since every later start passes over it (migrate); what is run statement by
\* statement is made good (execMigration006, 015 and 019).
OpenedIsWhole ==
  /\ \A p \in Openers : Migrating(p) => Statement(p).needs \subseteq schema
  /\ (\E p \in Openers : opener[p].at = "open") /\ (\A p \in Openers : ~Migrating(p))
       => \A f \in DOMAIN Migrations :
            \/ Makes(f) \subseteq schema
            \/ f \in cut /\ ~Migrations[f].apart
=============================================================================
