-------------------------- MODULE SchemaInitProofs --------------------------
(***************************************************************************)
(* For any tables, indexes, columns and releases, and any number of kills  *)
(* and locks: the server finds the schema whole but for what a lock or an  *)
(* interrupted table explains.                                             *)
(***************************************************************************)
EXTENDS SchemaInit, Sums

(* A table outside of torn has its indexes, or is getting them.            *)
Indexed ==
  \A t \in tables \ torn : t = current \/ IndexesOf[t] \subseteq indexes

(* The columns tried so far are there, unless one was refused.             *)
Tried ==
  pc \in {"migrate", "serving"} =>
    /\ tables = TableNames
    /\ refused \/ \A i \in 1 .. Len(Columns) : i < next => Columns[i] \in columns

IInv == TypeOK /\ Indexed /\ Tried /\ (pc = "serving" => next > Len(Columns))

(* The columns of the migrations are a sequence.                           *)
LEMMA ColumnsAreIndexed ==
  /\ Len(Columns) \in Nat
  /\ \A i \in 1 .. Len(Columns) : Columns[i] \in AllColumns
  BY SchemaAssumption DEF AllColumns

-----------------------------------------------------------------------------
(* A release has the indexes of its tables.                                *)
LEMMA InitWhole == Init => IInv
<1> SUFFICES ASSUME Init PROVE IInv
  OBVIOUS
<1>1. PICK r \in Releases : tables = r.tables /\ indexes = r.indexes /\ columns = r.columns
  BY DEF Init
<1>2. TypeOK
  BY <1>1, SchemaAssumption, ColumnsAreIndexed DEF Init, TypeOK
<1>3. Indexed
  BY <1>1, SchemaAssumption DEF Init, Indexed
<1> QED BY <1>2, <1>3 DEF Init, IInv, Tried

(* A table is created once and then gets its indexes.                      *)
LEMMA CreateTableWhole ==
  ASSUME IInv, NEW t \in TableNames, CreateTable(t)
  PROVE  IInv'
<1> USE DEF IInv, CreateTable
<1>1. TypeOK'
  <2>1. tables' \subseteq TableNames /\ missing' \subseteq TableNames
    BY DEF TypeOK
  <2>2. missing' \cap tables' = {} /\ TableNames = missing' \cup tables'
    BY DEF TypeOK
  <2>3. columns' \subseteq AllColumns
    BY DEF TypeOK
  <2>4. torn' \subseteq tables' /\ current' \in tables'
    BY DEF TypeOK
  <2>5. pc' = "create" /\ next' \in 1 .. Len(Columns) + 1
    BY DEF TypeOK
  <2> HIDE DEF CreateTable
  <2> QED BY <2>1, <2>2, <2>3, <2>4, <2>5 DEF TypeOK
<1>2. Indexed'
  <2> SUFFICES ASSUME NEW u \in tables' \ torn', u # t
               PROVE  IndexesOf[u] \subseteq indexes
    BY DEF Indexed
  <2>1. u \in tables \ torn /\ u # current
    BY SchemaAssumption DEF TypeOK
  <2> QED BY <2>1 DEF Indexed
<1>3. Tried'
  BY DEF Tried
<1> QED BY <1>1, <1>2, <1>3

LEMMA CreateIndexWhole ==
  ASSUME IInv, NEW i, CreateIndex(i)
  PROVE  IInv'
<1> USE DEF IInv, CreateIndex
<1>1. TypeOK'
  BY DEF TypeOK
<1>2. Indexed'
  BY DEF Indexed
<1>3. Tried'
  BY DEF Tried
<1> QED BY <1>1, <1>2, <1>3

LEMMA TableDoneWhole ==
  ASSUME IInv, TableDone
  PROVE  IInv'
<1> USE DEF IInv, TableDone, file
<1>1. TypeOK'
  BY DEF TypeOK
<1>2. Indexed'
  BY DEF Indexed
<1>3. Tried'
  BY DEF Tried
<1> QED BY <1>1, <1>2, <1>3

(* Nothing is missing when the migrations begin.                           *)
LEMMA CreateAllDoneWhole ==
  ASSUME IInv, CreateAllDone, pc = "create" => next = 1
  PROVE  IInv'
<1> USE DEF IInv, CreateAllDone, file
<1>1. TypeOK'
  BY DEF TypeOK
<1>2. Indexed'
  BY DEF Indexed
<1>3. Tried'
  BY DEF Tried, TypeOK
<1> QED BY <1>1, <1>2, <1>3

(* A column that is tried is there afterwards, or was refused.             *)
LEMMA AddColumnWhole ==
  ASSUME IInv, NEW locked \in BOOLEAN, AddColumn(locked)
  PROVE  IInv'
<1> USE DEF IInv, AddColumn
<1>1. next \in 1 .. Len(Columns) /\ Columns[next] \in AllColumns
  BY ColumnsAreIndexed DEF TypeOK
<1>2. TypeOK'
  BY <1>1, ColumnsAreIndexed DEF TypeOK
<1>3. Indexed'
  BY DEF Indexed
<1>4. Tried'
  <2>1. tables' = TableNames
    BY DEF Tried
  <2>2. CASE refused'
    BY <2>1, <2>2 DEF Tried
  <2>3. CASE ~refused'
    <3>1. ~locked /\ ~refused
      BY <2>3
    <3>2. columns' = columns \cup {Columns[next]} /\ next' = next + 1
      BY <3>1
    <3>3. ASSUME NEW i \in 1 .. Len(Columns), i < next'
          PROVE  Columns[i] \in columns'
      <4>1. i < next \/ i = next
        BY <3>2, <3>3, <1>1, ColumnsAreIndexed
      <4> QED BY <4>1, <3>1, <3>2 DEF Tried
    <3> QED BY <2>1, <3>3 DEF Tried
  <2> QED BY <2>2, <2>3
<1> QED BY <1>2, <1>3, <1>4

(* An exit between the statements of a table puts it among the torn ones.  *)
LEMMA ExitWhole ==
  ASSUME IInv, Exit
  PROVE  IInv'
<1> USE DEF IInv, Exit, file
<1>1. TypeOK'
  BY DEF TypeOK, Unfinished
<1>2. Indexed'
  BY DEF Indexed, Unfinished
<1>3. Tried'
  BY DEF Tried
<1> QED BY <1>1, <1>2, <1>3

-----------------------------------------------------------------------------
(* The inductive invariant, with the fact that a start begins at the first *)
(* column.                                                                 *)
FromTheFirst == pc = "create" => next = 1

Whole == IInv /\ FromTheFirst

LEMMA StepWhole == Whole /\ [Next]_vars => Whole'
<1> SUFFICES ASSUME Whole, [Next]_vars PROVE Whole'
  OBVIOUS
<1> USE DEF Whole, FromTheFirst
<1>1. CASE Start
  <2>1. TypeOK'
    BY <1>1, ColumnsAreIndexed DEF Start, IInv, TypeOK, file
  <2>2. Indexed'
    BY <1>1 DEF Start, IInv, TypeOK, Indexed, file
  <2> QED BY <1>1, <2>1, <2>2 DEF Start, IInv, Tried
<1>2. CASE TableDone
  BY <1>2, TableDoneWhole DEF TableDone
<1>3. CASE CreateAllDone
  BY <1>3, CreateAllDoneWhole DEF CreateAllDone
<1>4. CASE Serve
  <2>1. TypeOK'
    BY <1>4 DEF Serve, IInv, TypeOK, file
  <2>2. Indexed' /\ Tried'
    BY <1>4 DEF Serve, IInv, Indexed, Tried, file
  <2> QED BY <1>4, <2>1, <2>2 DEF Serve, IInv
<1>5. ASSUME NEW t \in TableNames, CreateTable(t) PROVE Whole'
  BY <1>5, CreateTableWhole DEF CreateTable
<1>6. ASSUME NEW i, CreateIndex(i) PROVE Whole'
  BY <1>6, CreateIndexWhole DEF CreateIndex
<1>7. ASSUME NEW locked \in BOOLEAN, AddColumn(locked) PROVE Whole'
  BY <1>7, AddColumnWhole DEF AddColumn
<1>8. CASE CreateFails
  BY <1>8, ExitWhole DEF CreateFails, Exit
<1>9. CASE Kill
  BY <1>9, ExitWhole DEF Kill, Exit
<1>10. CASE UNCHANGED vars
  BY <1>10 DEF vars, IInv, TypeOK, Indexed, Tried
<1> QED BY <1>1, <1>2, <1>3, <1>4, <1>5, <1>6, <1>7, <1>8, <1>9, <1>10 DEF Next, Boot

(* What is said of a table and of the indexes holds of every start.        *)
THEOREM SchemaTypes == Spec => []TypeOK
<1>1. Init => Whole
  BY InitWhole DEF Init, Whole, FromTheFirst
<1>2. Whole => TypeOK
  BY DEF Whole, IInv
<1> QED BY <1>1, <1>2, StepWhole, PTL DEF Spec

(* A complete schema is left alone: nothing is missing when a start looks. *)
LEMMA CompleteStep ==
  ASSUME Whole, [Next]_vars, Complete
  PROVE  Complete' /\ UNCHANGED file
<1> USE DEF Complete, file
<1>1. missing = {}
  BY DEF Whole, IInv, TypeOK
<1>2. ASSUME NEW locked \in BOOLEAN, AddColumn(locked)
      PROVE  Complete' /\ UNCHANGED file
  <2>1. next \in 1 .. Len(Columns)
    BY <1>2, ColumnsAreIndexed DEF AddColumn, Whole, IInv, TypeOK
  <2>2. Columns[next] \in columns
    BY <2>1, ColumnsAreIndexed
  <2>3. columns' = columns
    BY <1>2, <2>2 DEF AddColumn
  <2> QED BY <1>2, <2>3 DEF AddColumn
<1>3. CASE Start \/ TableDone \/ CreateAllDone \/ Serve
  BY <1>3 DEF Start, TableDone, CreateAllDone, Serve
<1>4. ~ (\E t \in TableNames : CreateTable(t)) /\ \A i : ~ CreateIndex(i)
  BY <1>1 DEF CreateTable, CreateIndex
<1>5. CASE CreateFails \/ Kill
  BY <1>5 DEF CreateFails, Kill, Exit
<1>6. CASE UNCHANGED vars
  BY <1>6 DEF vars
<1> QED BY <1>2, <1>3, <1>4, <1>5, <1>6 DEF Next, Boot

(* Idempotence, for any tables, releases, kills and locks: once complete,  *)
(* the schema is not written again, and a torn table is not repaired.      *)
THEOREM SchemaIsIdempotent == Spec => Idempotent
<1>1. Init => Whole
  BY InitWhole DEF Init, Whole, FromTheFirst
<1>2. Whole /\ [Next]_vars => [Complete => Complete' /\ UNCHANGED file]_vars
  BY CompleteStep
<1> QED BY <1>1, <1>2, StepWhole, PTL DEF Spec, Idempotent

(* A server that runs finds every table; every column unless a lock made   *)
(* this start pass one over; every index but those of torn tables.         *)
THEOREM SchemaIsWhole == Spec => []ServesWhole
<1>1. Init => Whole
  BY InitWhole DEF Init, Whole, FromTheFirst
<1>2. Whole => ServesWhole
  <2> SUFFICES ASSUME Whole, pc = "serving" PROVE ServesWhole
    BY DEF ServesWhole
  <2> USE DEF Whole, IInv
  <2>1. tables = TableNames /\ current = None
    BY DEF Tried, TypeOK
  <2>2. \A t \in TableNames \ torn : IndexesOf[t] \subseteq indexes
    BY <2>1, SchemaAssumption DEF Indexed
  <2>3. columns = AllColumns \/ refused
    <3> SUFFICES ASSUME ~refused PROVE AllColumns \subseteq columns
      BY DEF TypeOK
    <3>1. \A i \in 1 .. Len(Columns) : Columns[i] \in columns
      BY ColumnsAreIndexed DEF Tried, TypeOK
    <3> QED BY <3>1 DEF AllColumns
  <2> QED BY <2>1, <2>2, <2>3 DEF ServesWhole
<1> QED BY <1>1, <1>2, StepWhole, PTL DEF Spec

-----------------------------------------------------------------------------
(* A start has a last statement: what the tables still need, and what      *)
(* comes after them.                                                       *)

TableLeft ==
  [t \in TableNames |->
     IF pc = "down" \/ t \in missing THEN Cardinality(IndexesOf[t]) + 2
     ELSE IF pc = "create" /\ t = current THEN Cardinality(IndexesOf[t] \ indexes) + 1
     ELSE 0]

WholeTable == [t \in TableNames |-> Cardinality(IndexesOf[t]) + 2]

PhaseLeft ==
  CASE pc = "down"    -> Len(Columns) + 4
    [] pc = "create"  -> Len(Columns) + 3
    [] pc = "migrate" -> Len(Columns) + 2 - next
    [] pc = "serving" -> 0

StatementsLeft == SumOver(TableLeft, TableNames) + PhaseLeft

(* Of a start that finds an empty file.                                    *)
Longest == SumOver(WholeTable, TableNames) + Len(Columns) + 4

LEMMA IndexesAreFinite ==
  ASSUME NEW t \in TableNames, NEW S
  PROVE  /\ Cardinality(IndexesOf[t]) \in Nat /\ Cardinality(IndexesOf[t] \ S) \in Nat
         /\ Cardinality(IndexesOf[t] \ S) <= Cardinality(IndexesOf[t])
  BY SchemaAssumption, FS_Subset, FS_CardinalityType

TablesFit ==
  /\ \A t \in TableNames : /\ TableLeft[t] \in Nat /\ WholeTable[t] \in Nat
                           /\ TableLeft[t] <= WholeTable[t]
  /\ SumOver(TableLeft, TableNames) \in Nat /\ SumOver(WholeTable, TableNames) \in Nat
  /\ SumOver(TableLeft, TableNames) <= SumOver(WholeTable, TableNames)

LEMMA TablesAlwaysFit == TablesFit /\ TablesFit'
<1>1. TablesFit
  <2>1. \A t \in TableNames : /\ TableLeft[t] \in Nat /\ WholeTable[t] \in Nat
                              /\ TableLeft[t] <= WholeTable[t]
    BY IndexesAreFinite DEF TableLeft, WholeTable
  <2>2. IsFiniteSet(TableNames)
    BY SchemaAssumption
  <2>3. SumOver(TableLeft, TableNames) \in Nat /\ SumOver(WholeTable, TableNames) \in Nat
    BY <2>1, <2>2, SumOfNats
  <2>4. SumOver(TableLeft, TableNames) <= SumOver(WholeTable, TableNames)
    BY <2>1, <2>2, SumAtMost
  <2> QED BY <2>1, <2>3, <2>4 DEF TablesFit
<1> QED BY <1>1, PTL

LEMMA PhaseType == TypeOK => PhaseLeft \in Nat /\ PhaseLeft <= Len(Columns) + 4
  BY ColumnsAreIndexed DEF TypeOK, PhaseLeft

(* A statement for a table leaves less of that table.                      *)
LEMMA TableShrinks ==
  ASSUME NEW t \in TableNames, pc = "create", pc' = "create",
         \A u \in TableNames \ {t} : TableLeft'[u] = TableLeft[u],
         TableLeft'[t] < TableLeft[t]
  PROVE  StatementsLeft' < StatementsLeft
<1>1. SumOver(TableLeft', TableNames) < SumOver(TableLeft, TableNames)
  <2>1. \A u \in TableNames : TableLeft[u] \in Int /\ TableLeft'[u] \in Int
    BY TablesAlwaysFit DEF TablesFit
  <2> QED BY <2>1, SchemaAssumption, SumDrops
<1>2. SumOver(TableLeft, TableNames) \in Nat /\ SumOver(TableLeft', TableNames) \in Nat
  BY TablesAlwaysFit DEF TablesFit
<1>3. StatementsLeft = SumOver(TableLeft, TableNames) + (Len(Columns) + 3)
  BY DEF StatementsLeft, PhaseLeft
<1>4. StatementsLeft' = SumOver(TableLeft', TableNames) + (Len(Columns) + 3)
  BY DEF StatementsLeft, PhaseLeft
<1> QED BY <1>1, <1>2, <1>3, <1>4, ColumnsAreIndexed

LEMMA CreatesShrink ==
  ASSUME TypeOK, \/ \E t \in TableNames : CreateTable(t)
                 \/ \E i : CreateIndex(i)
                 \/ TableDone
  PROVE  StatementsLeft' < StatementsLeft
<1>1. ASSUME NEW t \in TableNames, CreateTable(t) PROVE StatementsLeft' < StatementsLeft
  <2>1. /\ pc = "create" /\ pc' = "create" /\ t \in missing /\ t \notin missing'
        /\ current' = t /\ indexes' = indexes
    BY <1>1 DEF CreateTable
  <2>2. TableLeft'[t] < TableLeft[t]
    <3>1. TableLeft[t] = Cardinality(IndexesOf[t]) + 2
      BY <2>1 DEF TableLeft
    <3>2. TableLeft'[t] = Cardinality(IndexesOf[t] \ indexes) + 1
      BY <2>1 DEF TableLeft
    <3> QED BY <3>1, <3>2, IndexesAreFinite
  <2>3. \A u \in TableNames \ {t} : TableLeft'[u] = TableLeft[u]
    BY <1>1, SchemaAssumption DEF CreateTable, TableLeft
  <2> QED BY <2>1, <2>2, <2>3, TableShrinks
<1>2. ASSUME current # None
      PROVE  /\ current \in TableNames /\ pc = "create" /\ current \notin missing
             /\ TableLeft[current] = Cardinality(IndexesOf[current] \ indexes) + 1
  BY <1>2 DEF TypeOK, TableLeft
<1>3. ASSUME NEW i, CreateIndex(i) PROVE StatementsLeft' < StatementsLeft
  <2>1. /\ current # None /\ current' = current /\ missing' = missing /\ pc' = pc
        /\ indexes' = indexes \cup {i} /\ i \in IndexesOf[current] \ indexes
    BY <1>3 DEF CreateIndex
  <2>2. TableLeft'[current] < TableLeft[current]
    <3> DEFINE I == IndexesOf[current] \ indexes
    <3>1. IsFiniteSet(I)
      BY <1>2, <2>1, SchemaAssumption, FS_Subset
    <3>2. Cardinality(I \ {i}) = Cardinality(I) - 1 /\ Cardinality(I) \in Nat
      BY <2>1, <3>1, FS_RemoveElement, FS_CardinalityType
    <3>3. IndexesOf[current] \ indexes' = I \ {i}
      BY <2>1
    <3>4. TableLeft'[current] = Cardinality(I \ {i}) + 1
      BY <1>2, <2>1, <3>3 DEF TableLeft
    <3> HIDE DEF I
    <3>5. TableLeft[current] = Cardinality(I) + 1
      BY <1>2, <2>1 DEF I
    <3> QED BY <3>2, <3>4, <3>5
  <2>3. \A u \in TableNames \ {current} : TableLeft'[u] = TableLeft[u]
    BY <2>1 DEF TableLeft
  <2> QED BY <1>2, <2>1, <2>2, <2>3, TableShrinks
<1>4. CASE TableDone
  <2>1. current # None /\ current' = None /\ missing' = missing /\ pc' = pc /\ indexes' = indexes
    BY <1>4 DEF TableDone, file
  <2>2. TableLeft'[current] < TableLeft[current]
    <3>1. TableLeft'[current] = 0
      BY <1>2, <2>1 DEF TableLeft
    <3>2. Cardinality(IndexesOf[current] \ indexes) \in Nat
      BY <1>2, <2>1, IndexesAreFinite
    <3> QED BY <1>2, <2>1, <3>1, <3>2
  <2>3. \A u \in TableNames \ {current} : TableLeft'[u] = TableLeft[u]
    BY <2>1, SchemaAssumption DEF TableLeft
  <2> QED BY <1>2, <2>1, <2>2, <2>3, TableShrinks
<1> QED BY <1>1, <1>3, <1>4

(* The other statements leave the tables alone and are one fewer.          *)
LEMMA PhasesShrink ==
  ASSUME TypeOK, Start \/ CreateAllDone \/ Serve \/ \E locked \in BOOLEAN : AddColumn(locked)
  PROVE  StatementsLeft' < StatementsLeft
<1>1. SumOver(TableLeft', TableNames) <= SumOver(TableLeft, TableNames)
  <2>1. \A t \in TableNames : TableLeft'[t] <= TableLeft[t]
    <3>1. CASE Start
      BY <3>1, IndexesAreFinite DEF Start, TableLeft
    <3>2. CASE ~Start
      <4>1. /\ pc # "down" /\ pc' # "down" /\ missing' = missing
            /\ current' = current /\ (pc' = "create" => pc = "create")
        BY <3>2 DEF CreateAllDone, Serve, AddColumn
      <4>2. indexes' = indexes
        BY <3>2 DEF CreateAllDone, Serve, AddColumn, file
      <4>3. \A t \in TableNames : TableLeft'[t] \in Nat /\ TableLeft[t] \in Nat
        BY TablesAlwaysFit DEF TablesFit
      <4>4. \A t \in TableNames : TableLeft'[t] = TableLeft[t] \/ TableLeft'[t] = 0
        BY <4>1, <4>2 DEF TableLeft
      <4> QED BY <4>3, <4>4
    <3> QED BY <3>1, <3>2
  <2>2. \A t \in TableNames : TableLeft[t] \in Int /\ TableLeft'[t] \in Int
    BY TablesAlwaysFit DEF TablesFit
  <2> QED BY <2>1, <2>2, SchemaAssumption, SumAtMost
<1>2. PhaseLeft' < PhaseLeft /\ PhaseLeft' \in Int /\ PhaseLeft \in Int
  BY ColumnsAreIndexed DEF TypeOK, PhaseLeft, Start, CreateAllDone, Serve, AddColumn
<1>3. SumOver(TableLeft, TableNames) \in Nat /\ SumOver(TableLeft', TableNames) \in Nat
  BY TablesAlwaysFit DEF TablesFit
<1>4. StatementsLeft' = SumOver(TableLeft', TableNames) + PhaseLeft'
  BY DEF StatementsLeft
<1> QED BY <1>1, <1>2, <1>3, <1>4 DEF StatementsLeft

(* From whatever file, and after whatever kills and locks: each statement  *)
(* of a start is one of a number that the models alone bound.  A start     *)
(* that nothing interrupts comes to its end, "Schema ensured".             *)
StartsEnd == [][Boot => StatementsLeft' < StatementsLeft]_vars

THEOREM StartIsBounded == Spec => StartsEnd /\ [](StatementsLeft \in 0 .. Longest)
<1>1. Init => Whole
  BY InitWhole DEF Init, Whole, FromTheFirst
<1>2. Whole => StatementsLeft \in 0 .. Longest
  <2> SUFFICES ASSUME TypeOK PROVE StatementsLeft \in 0 .. Longest
    BY DEF Whole, IInv
  <2>1. PhaseLeft \in Nat /\ PhaseLeft <= Len(Columns) + 4
    BY PhaseType
  <2>2. /\ SumOver(TableLeft, TableNames) \in Nat /\ SumOver(WholeTable, TableNames) \in Nat
        /\ SumOver(TableLeft, TableNames) <= SumOver(WholeTable, TableNames)
    BY TablesAlwaysFit DEF TablesFit
  <2> QED BY <2>1, <2>2, ColumnsAreIndexed DEF StatementsLeft, Longest
<1>3. Whole => [Boot => StatementsLeft' < StatementsLeft]_vars
  BY CreatesShrink, PhasesShrink DEF Whole, IInv, Boot
<1> QED BY <1>1, <1>2, <1>3, StepWhole, PTL DEF Spec, StartsEnd
=============================================================================
