----------------------------- MODULE SchemaInit -----------------------------
(***************************************************************************)
(* The start of the container: entrypoint.sh runs db_init, which creates   *)
(* what is missing of the tables and then tries every column that was      *)
(* added after the first release; only then does the server start.         *)
(*                                                                         *)
(* Each statement commits by itself, the container may be killed between   *)
(* any two and is started again ("restart: unless-stopped"), and another   *)
(* program may hold the database locked for longer than a statement waits. *)
(***************************************************************************)
EXTENDS Integers, Sequences, FiniteSets

CONSTANTS
  TableNames,  (* The tables of the models.                                *)
  IndexesOf,   (* Table -> the indexes of its columns.                     *)
  Migrated,    (* The table the columns were added to: switch_ports.       *)
  Columns,     (* The columns added to it, in the order they are tried.    *)
  Releases,    (* Databases to start from: [tables, indexes, columns].     *)
  MaxKills,    (* Bound on the times the container is killed.              *)
  MaxLocks,    (* Bound on the statements that find the database locked.   *)
  None

AllColumns == {Columns[i] : i \in 1 .. Len(Columns)}

(* A database some release or an interrupted start left: tables come with  *)
(* their indexes, and of the added columns it has those of its release.    *)
ASSUME SchemaAssumption ==
  /\ Migrated \in TableNames
  /\ Columns \in Seq(AllColumns)
  /\ None \notin TableNames
  /\ IsFiniteSet(TableNames) /\ \A t \in TableNames : IsFiniteSet(IndexesOf[t])
  /\ \A r \in Releases :
       /\ r.tables \subseteq TableNames
       /\ r.columns \subseteq AllColumns
       /\ r.indexes = UNION {IndexesOf[t] : t \in r.tables}
       /\ Migrated \notin r.tables => r.columns = {}

VARIABLES
  tables, indexes, columns,  (* What the file holds.                       *)
  pc,       (* "down", "create", "migrate" or "serving".                   *)
  missing,  (* The tables create_all found missing and has still to create.*)
  current,  (* The table whose indexes are being created, or None.         *)
  next,     (* The position of the next column to try.                     *)
  refused,  (* History: a column of this start was refused for a lock.     *)
  torn,     (* History: tables whose indexes an exit interrupted.          *)
  kills, locks

vars == <<tables, indexes, columns, pc, missing, current, next, refused, torn,
          kills, locks>>

file == <<tables, indexes, columns>>

-----------------------------------------------------------------------------
AllOrNone ==  \* mutant: a database that has tables is taken to be complete
  /\ pc = "down"
  /\ pc' = "create"
  /\ missing' = IF tables = {} THEN TableNames ELSE {}
  /\ current' = None /\ next' = 1 /\ refused' = FALSE
  /\ UNCHANGED <<file, torn, kills, locks>>

Unchecked ==  \* mutant: create_all does not look which tables exist
  /\ pc = "down"
  /\ pc' = "create"
  /\ missing' = TableNames
  /\ current' = None /\ next' = 1 /\ refused' = FALSE
  /\ UNCHANGED <<file, torn, kills, locks>>

(* create_all looks for every table before it creates the first one.       *)
Start ==
  /\ pc = "down"
  /\ pc' = "create"
  /\ missing' = TableNames \ tables
  /\ current' = None /\ next' = 1 /\ refused' = FALSE
  /\ UNCHANGED <<file, torn, kills, locks>>

(* CREATE TABLE, with all the columns of the model.                        *)
CreateTable(t) ==
  /\ pc = "create"
  /\ t \in missing
  /\ current = None
  /\ tables' = tables \cup {t}
  /\ columns' = IF t = Migrated THEN AllColumns ELSE columns
  /\ missing' = missing \ {t}
  /\ current' = t
  /\ UNCHANGED <<indexes, pc, next, refused, torn, kills, locks>>

(* CREATE INDEX, one by one, of a table created in this start.             *)
CreateIndex(i) ==
  /\ current # None
  /\ i \in IndexesOf[current] \ indexes
  /\ indexes' = indexes \cup {i}
  /\ UNCHANGED <<tables, columns, pc, missing, current, next, refused, torn,
                 kills, locks>>

TableDone ==
  /\ current # None
  /\ IndexesOf[current] \subseteq indexes
  /\ current' = None
  /\ UNCHANGED <<file, pc, missing, next, refused, torn, kills, locks>>

CreateAllDone ==
  /\ pc = "create"
  /\ missing = {}
  /\ current = None
  /\ pc' = "migrate"
  /\ UNCHANGED <<file, missing, current, next, refused, torn, kills, locks>>

StopAtFirst(locked) ==  \* mutant: the first column that exists ends the migration
  /\ pc = "migrate"
  /\ next <= Len(Columns)
  /\ locked => locks < MaxLocks
  /\ locks' = IF locked THEN locks + 1 ELSE locks
  /\ refused' = (refused \/ locked)
  /\ columns' = IF locked THEN columns ELSE columns \cup {Columns[next]}
  /\ next' = IF Columns[next] \in columns THEN Len(Columns) + 1 ELSE next + 1
  /\ UNCHANGED <<tables, indexes, pc, missing, current, torn, kills>>

Reraises(locked) ==  \* mutant: a column that exists already ends the start
  /\ pc = "migrate"
  /\ next <= Len(Columns)
  /\ locked => locks < MaxLocks
  /\ locks' = IF locked THEN locks + 1 ELSE locks
  /\ refused' = (refused \/ locked)
  /\ columns' = IF locked THEN columns ELSE columns \cup {Columns[next]}
  /\ next' = next + 1
  /\ pc' = IF Columns[next] \in columns THEN "down" ELSE pc
  /\ UNCHANGED <<tables, indexes, missing, current, torn, kills>>

(* ALTER TABLE ADD COLUMN; any exception is passed over: the column exists *)
(* already, or the database is locked and the column stays missing.        *)
AddColumn(locked) ==
  /\ pc = "migrate"
  /\ next <= Len(Columns)
  /\ locked => locks < MaxLocks
  /\ locks' = IF locked THEN locks + 1 ELSE locks
  /\ refused' = (refused \/ locked)
  /\ columns' = IF locked THEN columns ELSE columns \cup {Columns[next]}
  /\ next' = next + 1
  /\ UNCHANGED <<tables, indexes, pc, missing, current, torn, kills>>

(* "Schema ensured": the server is started.                                *)
Serve ==
  /\ pc = "migrate"
  /\ next > Len(Columns)
  /\ pc' = "serving"
  /\ UNCHANGED <<file, missing, current, next, refused, torn, kills, locks>>

Unfinished == current # None /\ ~ (IndexesOf[current] \subseteq indexes)

Exit ==
  /\ pc' = "down"
  /\ missing' = {}
  /\ current' = None
  /\ torn' = IF Unfinished THEN torn \cup {current} ELSE torn
  /\ UNCHANGED <<file, next, refused>>

(* A locked database while tables are created ends db_init: "set -e".      *)
CreateFails ==
  /\ pc = "create"
  /\ missing # {} \/ Unfinished
  /\ locks < MaxLocks
  /\ locks' = locks + 1
  /\ Exit
  /\ UNCHANGED kills

Kill ==
  /\ pc # "down"
  /\ kills < MaxKills
  /\ kills' = kills + 1
  /\ Exit
  /\ UNCHANGED locks

Init ==
  /\ \E r \in Releases :
       tables = r.tables /\ indexes = r.indexes /\ columns = r.columns
  /\ pc = "down"
  /\ missing = {} /\ current = None /\ next = 1 /\ refused = FALSE /\ torn = {}
  /\ kills = 0 /\ locks = 0

Boot ==
  \/ Start \/ TableDone \/ CreateAllDone \/ Serve
  \/ \E t \in TableNames : CreateTable(t)
  \/ \E i \in UNION {IndexesOf[t] : t \in TableNames} : CreateIndex(i)
  \/ \E locked \in BOOLEAN : AddColumn(locked)

Next == Boot \/ CreateFails \/ Kill

(* The restart policy starts the container again, and each start goes on.  *)
Spec == Init /\ [][Next]_vars /\ WF_vars(Boot)

-----------------------------------------------------------------------------
(* Properties.                                                             *)

(* What is created was missing when the start looked; a table whose        *)
(* indexes were left out exists, so that no start will look at it again.   *)
TypeOK ==
  /\ tables \subseteq TableNames /\ missing \subseteq TableNames
  /\ columns \subseteq AllColumns
  /\ pc \in {"down", "create", "migrate", "serving"}
  /\ pc = "create" => missing \cap tables = {} /\ TableNames = missing \cup tables
  /\ pc # "create" => missing = {} /\ current = None
  /\ current # None => current \in tables
  /\ torn \subseteq tables
  /\ next \in 1 .. Len(Columns) + 1

(* From whatever release and however often a start was killed or failed    *)
(* before, the server finds every table; every column, unless a lock made  *)
(* this start pass one over; and every index, but those of a table whose   *)
(* creation an exit interrupted between its statements.  ("Schema ensured" *)
(* is logged all the same, db_init.py:42.)                                 *)
ServesWhole ==
  pc = "serving" =>
    /\ tables = TableNames
    /\ columns = AllColumns \/ refused
    /\ \A t \in TableNames \ torn : IndexesOf[t] \subseteq indexes

Complete == tables = TableNames /\ columns = AllColumns /\ current = None

(* db_init.py:1 "Idempotent DB initialization": once every table and every *)
(* column is there, no start, kill or lock writes to the schema again; so  *)
(* an index that an interrupted creation left out stays out for ever.      *)
Idempotent == [][Complete => Complete' /\ UNCHANGED file]_vars

(* No file db_init has left makes it fail for ever: the server comes up.   *)
ServesInTheEnd == <>[](pc = "serving")
=============================================================================
