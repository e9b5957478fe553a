------------------------------- MODULE Tables -------------------------------
(***************************************************************************)
(* What SQLite and the ORM do to a table, a function from row ids to rows. *)
(***************************************************************************)
EXTENDS Integers, Functions

(* The id SQLite gives an inserted row: the table has no AUTOINCREMENT, so *)
(* it is one more than the largest id present, and ids of deleted rows     *)
(* come back.                                                              *)
IsNextId(table, n) ==
  /\ n = 1 \/ n - 1 \in DOMAIN table
  /\ \A i \in DOMAIN table : i < n

Insert(table, n, row) ==
  [i \in DOMAIN table \cup {n} |-> IF i = n THEN row ELSE table[i]]

Without(table, ids) == Restrict(table, DOMAIN table \ ids)

(* The unit of work writes the columns whose value differs from the one    *)
(* the session loaded, whatever the row holds by then.                     *)
Kept(loaded, new, current) == IF new = loaded THEN current ELSE new
=============================================================================
