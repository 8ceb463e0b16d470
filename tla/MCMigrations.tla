---------------------------- MODULE MCMigrations ----------------------------
(* Migrations with the directory of the repository, 001 to 010.            *)
EXTENDS Migrations

Directory == 1 .. 10

\* Statements of one kind in a row count as one: 002 makes tables, an index
\* and settings.
StatementsOf ==
  [f \in Directory |-> IF f = 2 THEN 3 ELSE IF f \in {1, 3, 5} THEN 2 ELSE 1]

\* Everything refers to the tables of 001, and 009 to the column of 008.
NeedsOf ==
  [f \in Directory |-> IF f = 1 THEN {} ELSE IF f = 9 THEN {1, 8} ELSE {1}]

\* An early release, the one before recurrences and the current one.
Releases == {1 .. 3, 1 .. 7, Directory}

=============================================================================
