------------------------- MODULE SnmpDiscoveryProofs -------------------------
(***************************************************************************)
(* For any switch and any sizes: a walk keeps no more rows than its limit; *)
(* whatever the switch does and whichever walks break off, discover_switch *)
(* invents nothing; of a switch that holds still it reports what is there, *)
(* or less if a walk broke off.                                            *)
(***************************************************************************)
EXTENDS SnmpDiscovery, Sums

(* Of a set of numbers that is not empty, some member has none below it.   *)
LEMMA BelowIsRelated == \A a, b \in Nat : a < b => <<a, b>> \in OpToRel(<, Nat)
  BY Zenon DEF OpToRel

LEMMA SomeHasNoneBelow ==
  ASSUME NEW S, S \subseteq Nat, S # {}
  PROVE  \E x \in S : \A y \in S : ~ (y < x)
<1>1. PICK x \in S : \A y \in S : ~ (<<y, x>> \in OpToRel(<, Nat))
  BY NatLessThanWellFounded, WFMin
<1>2. \A y \in S : ~ (y < x)
  BY <1>1, BelowIsRelated, Zenon
<1> QED BY <1>2

(* First is that member.                                                   *)
LEMMA FirstIsMember ==
  ASSUME NEW S, S \subseteq Nat, S # {}
  PROVE  First(S) \in S /\ \A y \in S : First(S) <= y
<1>1. PICK x \in S : \A y \in S : ~ (y < x)
  BY SomeHasNoneBelow
<1>2. \A y \in S : x <= y
  BY <1>1
<1> QED BY <1>2 DEF First

(* A response holds rows the table has now.                                *)
LEMMA ResponseIsOfTable ==
  ASSUME NEW t
  PROVE  Response(t) \subseteq DOMAIN sw[t]
  BY DEF Response, Least, Ahead

(* Every row received, and every row the switch has now, was true once.    *)
RowsWereTrue ==
  /\ sw \in Switches
  /\ seen = [t \in Tables |-> seen[t]]
  /\ rows = [t \in Tables |-> rows[t]]
  /\ \A t \in Tables :
       /\ Pairs(sw[t]) \subseteq seen[t]
       /\ DOMAIN rows[t] \subseteq Nat
       /\ Pairs(rows[t]) \subseteq seen[t]

IInv == RowsWereTrue /\ FieldsWereTrue

(* A value found in the rows of a table was in that table under its index. *)
LEMMA FoundWasTrue ==
  ASSUME RowsWereTrue, NEW t \in Tables, NEW i, Get(t, i) # None
  PROVE  Row(t, i, Get(t, i)) /\ i \in Nat
  BY DEF RowsWereTrue, Get, Pairs, Row

(* The joined fields of one port.                                          *)
LEMMA PortWasTrue ==
  ASSUME RowsWereTrue, NEW i \in Found
  PROVE  LET p == PortAt(i)
         IN /\ Row("ifDescr", i, p.name)
            /\ p.link_up => Row("ifOper", i, "up")
            /\ p.access # None => Row("pvid", i, p.access)
            /\ p.mac # None =>
                 \E x \in seen["fdbPort"] :
                   x[1] = p.mac /\ (x[2] = i \/ Row("basePortIfIndex", x[2], i))
            /\ p.neighbor # None =>
                 \E x \in seen["lldpSysName"] :
                   LocalPort(x[1]) = i /\ x[2] = p.neighbor
<1> DEFINE p == PortAt(i)
<1> USE DEF Tables
<1>1. Row("ifDescr", i, p.name)
  BY DEF PortAt, Found, RowsWereTrue, Pairs, Row
<1>2. p.link_up => Row("ifOper", i, "up")
  <2> SUFFICES ASSUME p.link_up PROVE Row("ifOper", i, "up")
    OBVIOUS
  <2>1. Get("ifOper", i) = "up"
    BY DEF PortAt
  <2> QED BY <2>1, NoneAssumption, FoundWasTrue
<1>3. p.access # None => Row("pvid", i, p.access)
  BY FoundWasTrue DEF PortAt
<1>4. ASSUME p.mac # None
      PROVE  \E x \in seen["fdbPort"] :
               x[1] = p.mac /\ (x[2] = i \/ Row("basePortIfIndex", x[2], i))
  <2> DEFINE b == rows["fdbPort"][p.mac]
  <2>1. MacsOn(i) # {} /\ p.mac = First(MacsOn(i))
    BY <1>4 DEF PortAt
  <2>2. MacsOn(i) \subseteq Nat
    BY DEF MacsOn, RowsWereTrue
  <2>3. p.mac \in MacsOn(i)
    BY <2>1, <2>2, FirstIsMember
  <2>4. <<p.mac, b>> \in seen["fdbPort"] /\ InterfaceOf(p.mac) = i
    BY <2>3 DEF MacsOn, RowsWereTrue, Pairs
  <2>5. b = i \/ Row("basePortIfIndex", b, i)
    BY <2>4, FoundWasTrue DEF InterfaceOf
  <2> QED BY <2>4, <2>5
<1>5. ASSUME p.neighbor # None
      PROVE  \E x \in seen["lldpSysName"] :
               LocalPort(x[1]) = i /\ x[2] = p.neighbor
  <2> DEFINE n == First(NeighborsOn(i))
  <2>1. NeighborsOn(i) # {} /\ p.neighbor = rows["lldpSysName"][n]
    BY <1>5 DEF PortAt
  <2>2. NeighborsOn(i) \subseteq Nat
    BY DEF NeighborsOn, RowsWereTrue
  <2>3. n \in NeighborsOn(i)
    BY <2>1, <2>2, FirstIsMember
  <2>4. <<n, p.neighbor>> \in seen["lldpSysName"] /\ LocalPort(n) = i
    BY <2>1, <2>3 DEF NeighborsOn, RowsWereTrue, Pairs
  <2> QED BY <2>4
<1> QED BY <1>1, <1>2, <1>3, <1>4, <1>5

-----------------------------------------------------------------------------
(* Nothing is reported before the discovery begins.                        *)
LEMMA InitTrue == Init => IInv
<1> SUFFICES ASSUME Init PROVE IInv
  OBVIOUS
<1>1. RowsWereTrue
  BY DEF Init, RowsWereTrue, Empty, Pairs
<1>2. FieldsWereTrue
  BY DEF Init, FieldsWereTrue, Empty
<1> QED BY <1>1, <1>2 DEF IInv

(* A response adds rows that are true at the moment.                       *)
LEMMA ReceiveTrue ==
  ASSUME IInv, NEW t \in Tables, Receive(t)
  PROVE  IInv'
<1>1. UNCHANGED <<sw, seen, ports>>
  BY DEF Receive, result, walked
<1>2. sw \in Switches /\ DOMAIN sw[t] \subseteq Nat
  BY SwitchesAssumption DEF IInv, RowsWereTrue
<1>3. RowsWereTrue'
  <2> DEFINE new == Response(t)
  <2>1. rows' = [rows EXCEPT ![t] =
                   [i \in DOMAIN rows[t] \cup new |->
                      IF i \in new THEN sw[t][i] ELSE rows[t][i]]]
    BY DEF Receive
  <2>2. new \subseteq DOMAIN sw[t]
    BY ResponseIsOfTable
  <2>3. ASSUME NEW u \in Tables
        PROVE  DOMAIN rows'[u] \subseteq Nat /\ Pairs(rows'[u]) \subseteq seen[u]
    <3>1. CASE u # t
      BY <2>1, <3>1 DEF IInv, RowsWereTrue
    <3>2. CASE u = t
      <4>1. rows'[t] = [i \in DOMAIN rows[t] \cup new |->
                          IF i \in new THEN sw[t][i] ELSE rows[t][i]]
        BY <2>1 DEF IInv, RowsWereTrue
      <4>2. Pairs(rows'[t]) \subseteq Pairs(sw[t]) \cup Pairs(rows[t])
        BY <4>1, <2>2 DEF Pairs
      <4> QED BY <3>2, <4>1, <4>2, <2>2, <1>2 DEF IInv, RowsWereTrue
    <3> QED BY <3>1, <3>2
  <2>4. rows' = [u \in Tables |-> rows'[u]]
    BY <2>1 DEF IInv, RowsWereTrue
  <2> QED BY <1>1, <2>3, <2>4 DEF IInv, RowsWereTrue
<1>4. FieldsWereTrue'
  BY <1>1 DEF IInv, FieldsWereTrue, Row
<1> QED BY <1>3, <1>4 DEF IInv

(* A change of the switch adds to what was true.                           *)
LEMMA ChangeTrue ==
  ASSUME IInv, NEW s \in Switches, Change(s)
  PROVE  IInv'
<1>1. /\ sw' = s /\ UNCHANGED <<rows, ports>>
      /\ seen' = [t \in Tables |-> seen[t] \cup Pairs(s[t])]
  BY DEF Change, result
<1>2. RowsWereTrue'
  BY <1>1 DEF IInv, RowsWereTrue
<1>3. \A t \in Tables : seen[t] \subseteq seen'[t]
  BY <1>1
<1>4. FieldsWereTrue'
  <2> SUFFICES ASSUME NEW i \in DOMAIN ports PROVE FieldsWereTrue!(i)'
    BY <1>1 DEF FieldsWereTrue
  <2>1. FieldsWereTrue!(i)
    BY DEF IInv, FieldsWereTrue
  <2> QED BY <1>1, <1>3, <2>1 DEF Row, Tables
<1> QED BY <1>2, <1>4 DEF IInv

(* The join reports what was received.                                     *)
LEMMA JoinTrue ==
  ASSUME IInv, Join
  PROVE  IInv'
<1>1. UNCHANGED <<sw, seen, rows>> /\ ports' = [i \in Found |-> PortAt(i)]
  BY DEF Join, walked
<1>2. RowsWereTrue'
  BY <1>1 DEF IInv, RowsWereTrue
<1>3. FieldsWereTrue'
  BY <1>1, PortWasTrue DEF IInv, FieldsWereTrue, Row
<1> QED BY <1>2, <1>3 DEF IInv

(* The other steps leave rows, switch and ports alone.                     *)
LEMMA RestTrue ==
  ASSUME IInv, UNCHANGED <<sw, seen, rows, ports>>
  PROVE  IInv'
  BY DEF IInv, RowsWereTrue, FieldsWereTrue, Row

(* Every value of a port was once the one of its own index.                *)
THEOREM NothingIsInvented == Spec => []FieldsWereTrue
<1>1. IInv /\ [Next]_vars => IInv'
  <2> SUFFICES ASSUME IInv, [Next]_vars PROVE IInv'
    OBVIOUS
  <2>1. ASSUME NEW t \in Tables, Receive(t) PROVE IInv'
    BY <2>1, ReceiveTrue
  <2>2. ASSUME NEW t \in Tables, BreakOff(t) PROVE IInv'
    BY <2>2, RestTrue DEF BreakOff, walked, result
  <2>3. CASE DescrWalked
    BY <2>3, RestTrue DEF DescrWalked, walked, result
  <2>4. CASE Join
    BY <2>4, JoinTrue
  <2>5. CASE Return
    BY <2>5, RestTrue DEF Return, walked, result
  <2>6. ASSUME NEW o \in lookups, NEW known \in BOOLEAN, Lookup(o, known) PROVE IInv'
    BY <2>6, RestTrue DEF Lookup, walked
  <2>7. ASSUME NEW s \in Switches, Change(s) PROVE IInv'
    BY <2>7, ChangeTrue
  <2>8. CASE UNCHANGED vars
    BY <2>8, RestTrue DEF vars
  <2> QED BY <2>1, <2>2, <2>3, <2>4, <2>5, <2>6, <2>7, <2>8 DEF Next, Discover
<1>2. IInv => FieldsWereTrue
  BY DEF IInv
<1> QED BY <1>1, <1>2, InitTrue, PTL DEF Spec

-----------------------------------------------------------------------------
(* The n least of a set.                                                   *)

LEMMA SomeHasNoneAbove ==
  ASSUME NEW S, IsFiniteSet(S), S \subseteq Nat, S # {}
  PROVE  \E x \in S : \A y \in S : y <= x
<1> DEFINE B == {T \in SUBSET S : T # {} /\ ~ \E x \in T : \A y \in T : y <= x}
<1>1. SUFFICES ASSUME B # {} PROVE FALSE
  OBVIOUS
<1>2. PICK T \in B : \A U \in SUBSET T : U \in B => U = T
  <2>1. B \subseteq SUBSET S /\ B # {}
    BY <1>1
  <2> HIDE DEF B
  <2>2. \E T \in B : \A U \in SUBSET T : U \in B => U = T
    BY ONLY IsFiniteSet(S), <2>1, MinimalSubset
  <2> QED BY <2>2
<1>3. PICK x \in T : TRUE
  OBVIOUS
<1>4. T \ {x} \notin B /\ T \ {x} \in SUBSET S
  <2>1. T \ {x} \in SUBSET T /\ T \ {x} # T
    BY <1>3
  <2> HIDE DEF B
  <2> QED BY <1>2, <2>1 DEF B
<1>5. CASE T \ {x} = {}
  BY <1>3, <1>5
<1>6. CASE T \ {x} # {}
  <2>1. PICK y \in T \ {x} : \A z \in T \ {x} : z <= y
    BY <1>4, <1>6
  <2>2. x \in Nat /\ y \in Nat /\ \A z \in T : z \in Nat
    OBVIOUS
  <2>3. CASE x <= y
    <3>1. \A z \in T : z <= y
      BY <2>1, <2>3
    <3> QED BY <2>1, <3>1
  <2>4. CASE y <= x
    <3>1. \A z \in T : z <= x
      BY <2>1, <2>2, <2>4
    <3> QED BY <1>3, <3>1
  <2> QED BY <2>2, <2>3, <2>4
<1> QED BY <1>5, <1>6

LEMMA LeastIsInitial ==
  ASSUME NEW S, IsFiniteSet(S), S \subseteq Nat, NEW n \in Nat
  PROVE  /\ Least(S, n) \subseteq S /\ IsFiniteSet(Least(S, n))
         /\ \A i \in Least(S, n), j \in S : j < i => j \in Least(S, n)
<1>1. Least(S, n) \subseteq S /\ IsFiniteSet(Least(S, n))
  <2>1. Least(S, n) \subseteq S
    BY DEF Least
  <2> QED BY <2>1, FS_Subset
<1>2. ASSUME NEW i \in Least(S, n), NEW j \in S, j < i PROVE j \in Least(S, n)
  <2> DEFINE I == {k \in S : k < i}  J == {k \in S : k < j}
  <2>1. J \subseteq I
    <3>1. i \in Nat /\ j \in Nat /\ \A k \in S : k \in Nat
      BY <1>1
    <3>2. \A k \in S : k < j => k < i
      BY <1>2, <3>1
    <3> QED BY <3>2
  <2>2. IsFiniteSet(I) /\ IsFiniteSet(J)
    BY FS_Subset
  <2>3. Cardinality(J) \in Nat /\ Cardinality(I) \in Nat /\ Cardinality(J) <= Cardinality(I)
    BY <2>1, <2>2, FS_Subset, FS_CardinalityType
  <2>4. Cardinality(I) < n
    BY DEF Least
  <2> HIDE DEF I
  <2>5. Cardinality(J) < n
    BY <2>3, <2>4
  <2> QED BY <2>5 DEF Least
<1> QED BY <1>1, <1>2

(* They are n at most, and fewer only if they are all.                     *)
LEMMA LeastSize ==
  ASSUME NEW S, IsFiniteSet(S), S \subseteq Nat, NEW n \in Nat
  PROVE  /\ Cardinality(Least(S, n)) \in Nat
         /\ Cardinality(Least(S, n)) <= n
         /\ Cardinality(Least(S, n)) < n => Least(S, n) = S
<1> DEFINE L == Least(S, n)
           Under(i) == {j \in S : j < i}
<1>1. L \subseteq S /\ IsFiniteSet(L) /\ Cardinality(L) \in Nat
  BY LeastIsInitial, FS_CardinalityType
<1>2. ASSUME NEW i \in S PROVE IsFiniteSet(Under(i)) /\ Cardinality(Under(i)) \in Nat
  BY FS_Subset, FS_CardinalityType
<1>3. \A i \in S : i \in L <=> Cardinality(Under(i)) < n
  BY DEF Least
<1> HIDE DEF L
<1>4. ASSUME ~ (Cardinality(L) <= n) PROVE FALSE
  <2>1. L # {}
    BY <1>4, FS_EmptySet
  <2>2. PICK x \in L : \A y \in L : y <= x
    BY <1>1, <2>1, SomeHasNoneAbove
  <2>3. L \ {x} \subseteq Under(x)
    BY <1>1, <2>2
  <2>4. x \in S /\ Cardinality(Under(x)) < n
    BY <1>1, <1>3
  <2>5. Cardinality(L \ {x}) = Cardinality(L) - 1
    BY <1>1, FS_RemoveElement
  <2>6. Cardinality(L \ {x}) <= Cardinality(Under(x))
    BY <1>2, <2>3, <2>4, FS_Subset
  <2> HIDE DEF Under
  <2> QED BY <1>1, <1>2, <1>4, <2>4, <2>5, <2>6
<1>5. ASSUME Cardinality(L) < n, L # S PROVE FALSE
  <2>1. S \ L # {} /\ S \ L \subseteq Nat
    BY <1>1, <1>5
  <2>2. PICK x \in S \ L : \A y \in S \ L : ~ (y < x)
    BY <2>1, SomeHasNoneBelow
  <2>3. Under(x) \subseteq L
    BY <2>2
  <2>4. Cardinality(Under(x)) <= Cardinality(L)
    BY <1>1, <2>3, FS_Subset
  <2>5. ~ (Cardinality(Under(x)) < n)
    BY <1>3, <2>2
  <2> HIDE DEF Under
  <2> QED BY <1>1, <1>2, <1>5, <2>2, <2>4, <2>5
<1> QED BY <1>1, <1>4, <1>5 DEF L

-----------------------------------------------------------------------------
(* Types and sizes.                                                        *)

TInv ==
  /\ sw \in Switches
  /\ rows = [t \in Tables |-> rows[t]]
  /\ \A t \in Tables : /\ DOMAIN rows[t] \subseteq Nat \ {0}
                      /\ IsFiniteSet(DOMAIN rows[t])
                      /\ Cardinality(DOMAIN rows[t]) <= MaxRows
  /\ open \subseteq Tables /\ cut \subseteq Tables
  /\ stage \in {"descr", "tables", "vendors", "done"}
  /\ stage = "descr" => open \subseteq {"ifDescr"}
  /\ stage \in {"vendors", "done"} => open = {}

(* The first part of a response, before the limit.                         *)
Answered(t) == Least(Ahead(t), BulkSize)

(* A response continues the table, and takes it no further than the limit. *)
LEMMA ResponseSize ==
  ASSUME TInv, NEW t \in Tables
  PROVE  /\ IsFiniteSet(Ahead(t)) /\ Ahead(t) \subseteq Nat
         /\ IsFiniteSet(Answered(t)) /\ Answered(t) \subseteq Ahead(t)
         /\ MaxRows - Cardinality(DOMAIN rows[t]) \in Nat
         /\ Response(t) = Least(Answered(t), MaxRows - Cardinality(DOMAIN rows[t]))
         /\ Response(t) \subseteq Answered(t) /\ IsFiniteSet(Response(t))
         /\ Cardinality(Response(t)) \in Nat
         /\ Cardinality(Response(t)) + Cardinality(DOMAIN rows[t]) <= MaxRows
<1> DEFINE m == MaxRows - Cardinality(DOMAIN rows[t])
<1>1. IsFiniteSet(Ahead(t)) /\ Ahead(t) \subseteq Nat
  <2>1. IsFiniteSet(DOMAIN sw[t]) /\ DOMAIN sw[t] \subseteq Nat
    BY SwitchesAssumption DEF TInv
  <2>2. Ahead(t) \subseteq DOMAIN sw[t]
    BY DEF Ahead
  <2> QED BY <2>1, <2>2, FS_Subset
<1>2. /\ Cardinality(DOMAIN rows[t]) \in Nat /\ MaxRows \in Nat
      /\ Cardinality(DOMAIN rows[t]) <= MaxRows
  BY BoundsAssumption, FS_CardinalityType DEF TInv
<1>3. m \in Nat
  BY <1>2
<1>4. IsFiniteSet(Answered(t)) /\ Answered(t) \subseteq Ahead(t)
  BY <1>1, BoundsAssumption, LeastIsInitial DEF Answered
<1>5. Response(t) = Least(Answered(t), m)
  BY DEF Response, Answered
<1> HIDE DEF m
<1>6. /\ Response(t) \subseteq Answered(t) /\ IsFiniteSet(Response(t))
      /\ Cardinality(Response(t)) \in Nat
      /\ Cardinality(Response(t)) <= m
  <2>1. Answered(t) \subseteq Nat
    BY <1>1, <1>4
  <2> QED BY <1>3, <1>4, <1>5, <2>1, LeastIsInitial, LeastSize
<1>7. Cardinality(Response(t)) + Cardinality(DOMAIN rows[t]) <= MaxRows
  BY <1>2, <1>6 DEF m
<1> QED BY <1>1, <1>3, <1>4, <1>5, <1>6, <1>7 DEF m

LEMMA ReceiveRows ==
  ASSUME rows = [u \in Tables |-> rows[u]], NEW t \in Tables, Receive(t)
  PROVE  /\ rows' = [u \in Tables |-> rows'[u]]
         /\ \A u \in Tables : u # t => rows'[u] = rows[u]
         /\ DOMAIN rows'[t] = DOMAIN rows[t] \cup Response(t)
         /\ \A i \in DOMAIN rows'[t] :
              rows'[t][i] = IF i \in Response(t) THEN sw[t][i] ELSE rows[t][i]
<1> DEFINE new == Response(t)
           f == [i \in DOMAIN rows[t] \cup new |-> IF i \in new THEN sw[t][i] ELSE rows[t][i]]
<1>1. rows' = [rows EXCEPT ![t] = f]
  BY DEF Receive
<1> HIDE DEF f
<1>2. /\ rows' = [u \in Tables |-> rows'[u]] /\ rows'[t] = f
      /\ \A u \in Tables : u # t => rows'[u] = rows[u]
  BY <1>1
<1> QED BY <1>2 DEF f

LEMMA ReceiveType ==
  ASSUME TInv, NEW t \in Tables, Receive(t)
  PROVE  TInv'
<1>1. /\ sw' = sw /\ stage' = stage
      /\ open' \subseteq open /\ cut' \subseteq cut \cup {t}
  BY DEF Receive, walked
<1>2. rows = [u \in Tables |-> rows[u]]
  BY DEF TInv
<1>3. /\ rows' = [u \in Tables |-> rows'[u]]
      /\ \A u \in Tables : u # t => rows'[u] = rows[u]
      /\ DOMAIN rows'[t] = DOMAIN rows[t] \cup Response(t)
  BY <1>2, ReceiveRows
<1>4. /\ DOMAIN rows'[t] \subseteq Nat \ {0}
      /\ IsFiniteSet(DOMAIN rows'[t])
      /\ Cardinality(DOMAIN rows'[t]) <= MaxRows
  <2> DEFINE D == DOMAIN rows[t]  R == Response(t)
  <2>1. /\ IsFiniteSet(D) /\ IsFiniteSet(R) /\ Cardinality(R) \in Nat
        /\ Cardinality(R) + Cardinality(D) <= MaxRows
    BY ResponseSize DEF TInv
  <2>2. R \subseteq Nat \ {0} /\ D \subseteq Nat \ {0}
    BY ResponseIsOfTable, SwitchesAssumption DEF TInv
  <2> HIDE DEF D, R
  <2>3. /\ IsFiniteSet(D \cup R) /\ Cardinality(D) \in Nat
        /\ Cardinality(D \cup R) = Cardinality(D) + Cardinality(R) - Cardinality(D \cap R)
        /\ Cardinality(D \cap R) \in Nat
    <3>1. IsFiniteSet(D \cap R)
      BY <2>1, FS_Subset
    <3> QED BY <2>1, <3>1, FS_Union, FS_CardinalityType
  <2>4. Cardinality(D \cup R) <= MaxRows
    BY <2>1, <2>3, BoundsAssumption
  <2> QED BY <1>3, <2>2, <2>3, <2>4 DEF D, R
<1> QED BY <1>1, <1>3, <1>4 DEF TInv

LEMMA TypeInvariant == Spec => []TInv
<1>1. Init => TInv
  <2> SUFFICES ASSUME Init PROVE TInv
    OBVIOUS
  <2>1. DOMAIN Empty = {} /\ IsFiniteSet({}) /\ Cardinality({}) = 0
    BY FS_EmptySet DEF Empty
  <2>2. "ifDescr" \in Tables
    BY DEF Tables
  <2> QED BY <2>1, <2>2, BoundsAssumption DEF Init, TInv
<1>2. TInv /\ [Next]_vars => TInv'
  <2> SUFFICES ASSUME TInv, [Next]_vars PROVE TInv'
    OBVIOUS
  <2>1. ASSUME NEW t \in Tables, Receive(t) PROVE TInv'
    BY <2>1, ReceiveType
  <2>2. ASSUME NEW t \in Tables, BreakOff(t) PROVE TInv'
    BY <2>2 DEF BreakOff, walked, result, TInv
  <2>3. CASE DescrWalked
    BY <2>3 DEF DescrWalked, walked, result, TInv, Rest
  <2>4. CASE Join \/ Return
    BY <2>4 DEF Join, Return, walked, result, TInv
  <2>5. ASSUME NEW o \in lookups, NEW known \in BOOLEAN, Lookup(o, known) PROVE TInv'
    BY <2>5 DEF Lookup, walked, TInv
  <2>6. ASSUME NEW s \in Switches, Change(s) PROVE TInv'
    BY <2>6 DEF Change, result, TInv
  <2>7. CASE UNCHANGED vars
    BY <2>7 DEF vars, TInv
  <2> QED BY <2>1, <2>2, <2>3, <2>4, <2>5, <2>6, <2>7 DEF Next, Discover
<1> QED BY <1>1, <1>2, PTL DEF Spec

(* snmp.py:202: a walk keeps MaxRows rows at most, also when the last      *)
(* response brings more; tables are walked in their stage only.            *)
THEOREM TypesAndLimit == Spec => []TypeOK
<1>1. TInv => TypeOK
  BY DEF TInv, TypeOK
<1> QED BY <1>1, TypeInvariant, PTL

-----------------------------------------------------------------------------
(* While the switch holds still, the rows of a table are an initial part   *)
(* of it, and all of it once its walk is over, unless it was cut.          *)

Begun(t) == t = "ifDescr" \/ (stage # "descr" /\ DOMAIN rows["ifDescr"] # {})

PartOf(t) ==
  /\ DOMAIN rows[t] \subseteq DOMAIN sw[t]
  /\ \A i \in DOMAIN rows[t] :
       /\ rows[t][i] = sw[t][i]
       /\ \A j \in DOMAIN sw[t] : j < i => j \in DOMAIN rows[t]

WholeOnceWalked(t) ==
  Begun(t) /\ t \notin open /\ t \notin cut => DOMAIN rows[t] = DOMAIN sw[t]

SteadyInv ==
  /\ changes \in Nat
  /\ stage \in {"descr", "tables"} => ports = Empty
  /\ stage = "tables" => open \subseteq Rest
  /\ stage \in {"vendors", "done"} => ports = [i \in Found |-> PortAt(i)]
  /\ changes = 0 => \A t \in Tables : PartOf(t) /\ WholeOnceWalked(t)

(* A response continues an initial part, and ends it where the table ends. *)
LEMMA ReceivePart ==
  ASSUME TInv, NEW t \in Tables, Receive(t), PartOf(t)
  PROVE  /\ PartOf(t)'
         /\ t \notin open' /\ t \notin cut' => DOMAIN rows'[t] = DOMAIN sw[t]
<1> DEFINE D == DOMAIN rows[t]  S == DOMAIN sw[t]  R == Response(t)
           m == MaxRows - Cardinality(D)
<1>1. /\ sw' = sw /\ DOMAIN rows'[t] = D \cup R
      /\ \A i \in DOMAIN rows'[t] : rows'[t][i] = IF i \in R THEN sw[t][i] ELSE rows[t][i]
  <2>1. rows = [u \in Tables |-> rows[u]]
    BY DEF TInv
  <2> QED BY <2>1, ReceiveRows DEF Receive, walked
<1>2. /\ D \subseteq S /\ S \subseteq Nat
      /\ \A i \in D : rows[t][i] = sw[t][i] /\ \A j \in S : j < i => j \in D
  BY SwitchesAssumption DEF TInv, PartOf
<1>3. Ahead(t) = S \ D
  <2>1. Ahead(t) = {i \in S : \A j \in D : j < i}
    BY DEF Ahead
  <2>2. ASSUME NEW i \in S, i \notin D, NEW j \in D PROVE j < i
    <3>1. i \in Nat /\ j \in Nat /\ ~ (i < j) /\ i # j
      BY <1>2, <2>2
    <3> QED BY <3>1
  <2>3. ASSUME NEW i \in S, i \in D PROVE ~ (i < i)
    BY <1>2
  <2> HIDE DEF D, S
  <2> QED BY <2>1, <2>2, <2>3
<1>4. /\ R = Least(Answered(t), m) /\ m \in Nat
      /\ R \subseteq Answered(t) /\ Answered(t) \subseteq Ahead(t)
      /\ IsFiniteSet(Ahead(t)) /\ Ahead(t) \subseteq Nat
      /\ IsFiniteSet(Answered(t)) /\ Answered(t) \subseteq Nat
      /\ Cardinality(R) \in Nat /\ Cardinality(D) \in Nat
  <2>1. Cardinality(D) \in Nat
    BY FS_CardinalityType DEF TInv
  <2> QED BY <2>1, ResponseSize
<1>5. BulkSize \in Nat /\ MaxRows \in Nat
  BY BoundsAssumption
<1> HIDE DEF D, S, R, m
<1>6. \A i \in R, j \in Ahead(t) : j < i => j \in R
  <2>1. \A i \in R, j \in Answered(t) : j < i => j \in R
    BY <1>4, LeastIsInitial
  <2>2. \A i \in Answered(t), j \in Ahead(t) : j < i => j \in Answered(t)
    BY <1>4, <1>5, LeastIsInitial DEF Answered
  <2> QED BY <1>4, <2>1, <2>2
<1>7. D \cup R \subseteq S
  BY <1>2, <1>3, <1>4
<1>8. ASSUME NEW i \in D \cup R
      PROVE  rows'[t][i] = sw[t][i] /\ \A j \in S : j < i => j \in D \cup R
  <2>1. rows'[t][i] = sw[t][i]
    BY <1>1, <1>2
  <2>2. ASSUME NEW j \in S, j < i PROVE j \in D \cup R
    <3>1. CASE i \in D
      BY <3>1, <2>2, <1>2
    <3>2. CASE i \in R
      BY <3>2, <2>2, <1>3, <1>6
    <3> QED BY <3>1, <3>2
  <2> QED BY <2>1, <2>2
<1>9. PartOf(t)'
  BY <1>1, <1>7, <1>8 DEF PartOf, S
<1>10. ASSUME t \notin open', t \notin cut' PROVE D \cup R = S
  <2> DEFINE full == Cardinality(D) + Cardinality(R) >= MaxRows
  <2>1. /\ full \/ Cardinality(R) < BulkSize
        /\ full => Ahead(t) = R
    BY <1>10 DEF Receive, D, R
  <2>2. CASE full
    BY <2>1, <2>2, <1>2, <1>3
  <2>3. CASE ~ full
    <3>1. Cardinality(R) < m
      BY <2>3, <1>4, <1>5 DEF m
    <3>2. R = Answered(t)
      BY <3>1, <1>4, LeastSize
    <3>3. Cardinality(Answered(t)) < BulkSize
      BY <2>1, <2>3, <3>2
    <3>4. Answered(t) = Ahead(t)
      BY <3>3, <1>4, <1>5, LeastSize DEF Answered
    <3> QED BY <3>2, <3>4, <1>2, <1>3
  <2> QED BY <2>2, <2>3
<1> QED BY <1>1, <1>9, <1>10 DEF S

LEMMA SteadyStep == TInv /\ SteadyInv /\ [Next]_vars => SteadyInv'
<1> SUFFICES ASSUME TInv, SteadyInv, [Next]_vars PROVE SteadyInv'
  OBVIOUS
<1>1. ASSUME rows' = rows PROVE Found' = Found /\ \A i : PortAt(i)' = PortAt(i)
  BY <1>1 DEF Found, PortAt, Get, MacsOn, InterfaceOf, NeighborsOn
<1>2. ASSUME NEW t \in Tables, Receive(t) PROVE SteadyInv'
  <2>1. /\ sw' = sw /\ changes' = changes /\ stage' = stage /\ ports' = ports
        /\ open' \subseteq open /\ cut \subseteq cut' /\ t \in open
        /\ \A u \in Tables : u # t => (u \in open' <=> u \in open)
    BY <1>2 DEF Receive, walked, result
  <2>2. stage \in {"descr", "tables"}
    BY <2>1 DEF TInv
  <2>3. \A u \in Tables : u # t => rows'[u] = rows[u]
    BY <1>2, ReceiveRows DEF TInv
  <2>4. ASSUME changes = 0, NEW u \in Tables PROVE PartOf(u)' /\ WholeOnceWalked(u)'
    <3>1. PartOf(u) /\ WholeOnceWalked(u)
      BY <2>4 DEF SteadyInv
    <3>2. CASE u = t
      <4>1. PartOf(t)' /\ (t \notin open' /\ t \notin cut' => DOMAIN rows'[t] = DOMAIN sw[t])
        BY <1>2, <3>1, <3>2, ReceivePart
      <4> QED BY <2>1, <3>2, <4>1 DEF WholeOnceWalked
    <3>3. CASE u # t
      <4>1. PartOf(u)'
        BY <2>1, <2>3, <3>1, <3>3 DEF PartOf
      <4>2. Begun(u)' => Begun(u)
        <5>1. CASE t = "ifDescr"
          <6>1. stage = "descr"
            BY <5>1, <2>1, <2>2 DEF SteadyInv, Rest
          <6> QED BY <6>1, <2>1 DEF Begun
        <5>2. CASE t # "ifDescr"
          <6>1. "ifDescr" \in Tables
            BY DEF Tables
          <6> QED BY <5>2, <6>1, <2>1, <2>3 DEF Begun
        <5> QED BY <5>1, <5>2
      <4> QED BY <4>1, <4>2, <2>1, <2>3, <3>1, <3>3 DEF WholeOnceWalked
    <3> QED BY <3>2, <3>3
  <2> QED BY <2>1, <2>2, <2>4 DEF SteadyInv
<1>3. ASSUME NEW t \in Tables, BreakOff(t) PROVE SteadyInv'
  <2>1. /\ sw' = sw /\ changes' = changes /\ stage' = stage /\ ports' = ports
        /\ rows' = rows /\ open' = open \ {t} /\ cut' = cut \cup {t} /\ t \in open
    BY <1>3 DEF BreakOff, walked, result
  <2>2. stage \in {"descr", "tables"}
    BY <2>1 DEF TInv
  <2>3. \A u \in Tables : /\ PartOf(u) => PartOf(u)'
                          /\ WholeOnceWalked(u) => WholeOnceWalked(u)'
    BY <2>1 DEF PartOf, WholeOnceWalked, Begun
  <2> QED BY <2>1, <2>2, <2>3 DEF SteadyInv
<1>4. CASE DescrWalked
  <2>1. /\ sw' = sw /\ changes' = changes /\ ports' = ports /\ rows' = rows /\ cut' = cut
        /\ stage = "descr" /\ open = {}
        /\ \/ rows["ifDescr"] = Empty /\ stage' = "done" /\ open' = open
           \/ stage' = "tables" /\ open' = Rest
    BY <1>4 DEF DescrWalked, walked, result
  <2>2. ports = Empty
    BY <2>1 DEF SteadyInv
  <2>3. stage' = "done" => ports = [i \in Found |-> PortAt(i)]
    <3> SUFFICES ASSUME stage' = "done" PROVE ports = [i \in Found |-> PortAt(i)]
      OBVIOUS
    <3>1. Found = {}
      BY <2>1 DEF Found, Empty
    <3> QED BY <2>2, <3>1 DEF Empty
  <2>4. ASSUME NEW u \in Tables
        PROVE  /\ PartOf(u) => PartOf(u)'
               /\ WholeOnceWalked(u) => WholeOnceWalked(u)'
    <3>1. PartOf(u) => PartOf(u)'
      BY <2>1 DEF PartOf
    <3>2. ASSUME WholeOnceWalked(u), Begun(u)', u \notin open', u \notin cut'
          PROVE  DOMAIN rows'[u] = DOMAIN sw'[u]
      <4>1. u = "ifDescr"
        <5>1. u = "ifDescr" \/ (stage' = "done" /\ DOMAIN rows["ifDescr"] # {})
          <6>1. CASE stage' = "tables" /\ open' = Rest
            <7>1. u \notin Rest
              BY <3>2, <6>1
            <7> QED BY <7>1 DEF Rest
          <6>2. CASE rows["ifDescr"] = Empty /\ stage' = "done"
            <7>1. u = "ifDescr" \/ DOMAIN rows'["ifDescr"] # {}
              BY <3>2 DEF Begun
            <7> QED BY <7>1, <6>2, <2>1
          <6> QED BY <6>1, <6>2, <2>1
        <5>2. stage' = "done" => DOMAIN rows["ifDescr"] = {}
          BY <2>1 DEF Empty
        <5> QED BY <5>1, <5>2
      <4>2. Begun(u) /\ u \notin open /\ u \notin cut
        BY <4>1, <3>2, <2>1 DEF Begun
      <4> QED BY <4>2, <3>2, <2>1 DEF WholeOnceWalked
    <3> QED BY <3>1, <3>2 DEF WholeOnceWalked
  <2> QED BY <2>1, <2>2, <2>3, <2>4, <1>1 DEF SteadyInv
<1>5. CASE Join \/ Return \/ \E o \in lookups, known \in BOOLEAN : Lookup(o, known)
  <2>1. /\ sw' = sw /\ changes' = changes /\ rows' = rows /\ cut' = cut /\ open' = open
        /\ stage # "descr" /\ stage' \in {"vendors", "done"}
        /\ \/ ports' = [i \in Found |-> PortAt(i)]
           \/ stage = "vendors" /\ ports' = ports
    BY <1>5 DEF Join, Return, Lookup, walked, result
  <2>2. ports' = [i \in Found |-> PortAt(i)]
    BY <2>1 DEF SteadyInv
  <2>3. \A u \in Tables : /\ PartOf(u) => PartOf(u)'
                          /\ WholeOnceWalked(u) => WholeOnceWalked(u)'
    BY <2>1 DEF PartOf, WholeOnceWalked, Begun
  <2> QED BY <2>1, <2>2, <2>3, <1>1 DEF SteadyInv
<1>6. ASSUME NEW s \in Switches, Change(s) PROVE SteadyInv'
  <2>1. /\ changes' = changes + 1 /\ rows' = rows /\ stage' = stage /\ ports' = ports
        /\ open' = open /\ stage \in {"descr", "tables"}
    BY <1>6 DEF Change, result
  <2>2. changes' \in Nat /\ changes' # 0
    BY <2>1 DEF SteadyInv
  <2> QED BY <2>1, <2>2 DEF SteadyInv
<1>7. CASE UNCHANGED vars
  <2>1. /\ sw' = sw /\ changes' = changes /\ rows' = rows /\ cut' = cut /\ open' = open
        /\ stage' = stage /\ ports' = ports
    BY <1>7 DEF vars
  <2>2. \A u \in Tables : /\ PartOf(u) => PartOf(u)'
                          /\ WholeOnceWalked(u) => WholeOnceWalked(u)'
    BY <2>1 DEF PartOf, WholeOnceWalked, Begun
  <2> QED BY <2>1, <2>2, <1>1 DEF SteadyInv
<1> QED BY <1>2, <1>3, <1>4, <1>5, <1>6, <1>7 DEF Next, Discover

LEMMA SteadyInvariant == Spec => [](TInv /\ SteadyInv)
<1>1. Init => SteadyInv
  <2> SUFFICES ASSUME Init PROVE SteadyInv
    OBVIOUS
  <2>1. \A t \in Tables : rows[t] = Empty
    BY DEF Init
  <2>2. \A t \in Tables : PartOf(t) /\ WholeOnceWalked(t)
    BY <2>1 DEF Init, PartOf, Empty, WholeOnceWalked, Begun
  <2> QED BY <2>2 DEF Init, SteadyInv
<1> QED BY <1>1, SteadyStep, TypeInvariant, PTL DEF Spec

-----------------------------------------------------------------------------
(* The joins of initial parts.                                             *)

(* A value that was found is the one of the table; in a table that was     *)
(* walked to its end every value is found.                                 *)
LEMMA FoundIsThere ==
  ASSUME SteadyInv, Steady, NEW t \in Tables, NEW i
  PROVE  Get(t, i) # None => i \in DOMAIN sw[t] /\ Get(t, i) = sw[t][i]
  BY DEF SteadyInv, Steady, PartOf, Get

LEMMA ThereIsFound ==
  ASSUME TInv, SteadyInv, Steady, NEW t \in Tables, t \notin cut,
         DOMAIN rows["ifDescr"] # {}
  PROVE  /\ DOMAIN rows[t] = DOMAIN sw[t]
         /\ \A i \in DOMAIN sw[t] : Get(t, i) = sw[t][i]
         /\ \A i : i \notin DOMAIN sw[t] => Get(t, i) = None
<1>1. Begun(t) /\ t \notin open
  BY DEF Steady, TInv, Begun
<1>2. DOMAIN rows[t] = DOMAIN sw[t]
  BY <1>1 DEF SteadyInv, Steady, WholeOnceWalked
<1>3. \A i \in DOMAIN rows[t] : rows[t][i] = sw[t][i]
  BY DEF SteadyInv, Steady, PartOf
<1> QED BY <1>2, <1>3 DEF Get

(* A port is a physical one, whatever was cut.                             *)
LEMMA FoundIsPhysical ==
  ASSUME SteadyInv, Steady, NEW i \in Found
  PROVE  /\ i \in PhysicalPorts /\ i \in DOMAIN rows["ifDescr"]
         /\ rows["ifDescr"][i] = sw.ifDescr[i]
<1> USE DEF Tables
<1>1. i \in DOMAIN sw.ifDescr /\ rows["ifDescr"][i] = sw.ifDescr[i]
  BY DEF Found, SteadyInv, Steady, PartOf
<1>2. Get("ifType", i) # None
  BY NoneAssumption DEF Found, Physical
<1>3. i \in DOMAIN sw.ifType /\ sw.ifType[i] \in Physical
  BY <1>2, FoundIsThere DEF Found
<1> QED BY <1>1, <1>3 DEF PhysicalPorts, Found

(* Every address received has its status: of a walk that was not cut all   *)
(* rows came; one cut at the limit kept as many of the first rows as any   *)
(* walk can, so another walk over the same indices has none beyond them.   *)
LEMMA StatusIsReceived ==
  ASSUME TInv, SteadyInv, Steady, DOMAIN rows["ifDescr"] # {}, StatusesKept,
         NEW m \in DOMAIN rows["fdbPort"]
  PROVE  Get("fdbStatus", m) = sw.fdbStatus[m]
<1> USE DEF Tables
<1> DEFINE P == DOMAIN rows["fdbPort"]  S == DOMAIN rows["fdbStatus"]
           D == DOMAIN sw.fdbPort
<1>1. /\ D = DOMAIN sw.fdbStatus /\ D \subseteq Nat
      /\ P \subseteq D /\ S \subseteq D /\ m \in P
      /\ \A i \in P, j \in D : j < i => j \in P
      /\ \A i \in S : rows["fdbStatus"][i] = sw.fdbStatus[i]
      /\ \A i \in S, j \in D : j < i => j \in S
  BY SwitchesAssumption DEF TInv, SteadyInv, Steady, PartOf, Consistent
<1>2. /\ IsFiniteSet(P) /\ IsFiniteSet(S)
      /\ Cardinality(P) <= MaxRows /\ MaxRows \in Nat
  BY BoundsAssumption DEF TInv
<1>3. CASE "fdbStatus" \notin cut
  BY <1>1, <1>3, ThereIsFound
<1>4. CASE "fdbStatus" \in cut
  <2>1. Cardinality(S) = MaxRows
    BY <1>4 DEF StatusesKept
  <2> HIDE DEF P, S, D
  <2>2. ASSUME m \notin S PROVE FALSE
    <3>1. ASSUME NEW j \in S PROVE j \in P \ {m}
      <4>1. j \in Nat /\ m \in Nat /\ j \in D /\ m \in D /\ j # m
        BY <1>1, <2>2
      <4>2. ~ (m < j)
        BY <1>1, <2>2, <4>1
      <4>3. j < m
        BY <4>1, <4>2
      <4> QED BY <1>1, <4>1, <4>3
    <3>2. /\ IsFiniteSet(P \ {m})
          /\ Cardinality(P \ {m}) = Cardinality(P) - 1
      BY <1>1, <1>2, FS_RemoveElement
    <3>3. S \in SUBSET (P \ {m})
      BY <3>1
    <3>4. Cardinality(S) <= Cardinality(P \ {m})
      BY <3>2, <3>3, FS_Subset
    <3>5. Cardinality(P) \in Nat
      BY <1>2, FS_CardinalityType
    <3> QED BY <1>2, <2>1, <3>2, <3>4, <3>5
  <2>3. m \in S
    BY <2>2
  <2> QED BY <1>1, <2>3 DEF Get, S
<1> QED BY <1>3, <1>4

(* The addresses of a port are those received of the ones learned on it.   *)
LEMMA MacsAreLearned ==
  ASSUME TInv, SteadyInv, Steady, DOMAIN rows["ifDescr"] # {}, StatusesKept,
         NumberedAlike \/ "basePortIfIndex" \notin cut, NEW i
  PROVE  MacsOn(i) = Learned(i) \cap DOMAIN rows["fdbPort"]
<1> USE DEF Tables
<1>1. ASSUME NEW m \in DOMAIN rows["fdbPort"]
      PROVE  m \in MacsOn(i) <=> m \in Learned(i)
  <2> DEFINE b == rows["fdbPort"][m]
  <2>1. m \in DOMAIN sw.fdbPort /\ b = sw.fdbPort[m]
    BY DEF SteadyInv, Steady, PartOf
  <2>2. Consistent
    BY DEF Steady
  <2>3. b \in DOMAIN sw.basePortIfIndex /\ sw.basePortIfIndex[b] \in Nat \ {0}
    BY <2>1, <2>2 DEF Consistent
  <2>4. Get("fdbStatus", m) = sw.fdbStatus[m]
    BY <1>1, StatusIsReceived
  <2>5. Get("fdbStatus", m) \notin Own <=> sw.fdbStatus[m] = "learned"
    <3>1. sw.fdbStatus[m] \in Own \cup {"learned"}
      BY <2>1, <2>2 DEF Consistent
    <3> QED BY <2>4, <3>1 DEF Own
  <2> HIDE DEF b
  <2>6. InterfaceOf(m) = sw.basePortIfIndex[b]
    <3>1. InterfaceOf(m) = IF Get("basePortIfIndex", b) # None
                           THEN Get("basePortIfIndex", b) ELSE b
      BY DEF InterfaceOf, b
    <3>2. CASE Get("basePortIfIndex", b) # None
      BY <3>1, <3>2, FoundIsThere
    <3>3. CASE Get("basePortIfIndex", b) = None
      <4>1. NumberedAlike
        <5>1. ASSUME "basePortIfIndex" \notin cut PROVE FALSE
          <6>1. Get("basePortIfIndex", b) = sw.basePortIfIndex[b]
            BY <5>1, <2>3, ThereIsFound
          <6> QED BY <6>1, <3>3, <2>3, NoneAssumption
        <5> QED BY <5>1
      <4>2. sw.basePortIfIndex[b] = b
        BY <4>1, <2>3 DEF NumberedAlike
      <4> QED BY <3>1, <3>3, <4>2
    <3> QED BY <3>2, <3>3
  <2> QED BY <2>1, <2>5, <2>6 DEF MacsOn, Learned
<1>2. MacsOn(i) \subseteq DOMAIN rows["fdbPort"]
  BY DEF MacsOn
<1> QED BY <1>1, <1>2

(* The first of those received is the first of all.                        *)
LEMMA FirstReceivedIsFirst ==
  ASSUME TInv, SteadyInv, Steady, NEW i, Learned(i) \cap DOMAIN rows["fdbPort"] # {}
  PROVE  Learned(i) # {} /\ First(Learned(i) \cap DOMAIN rows["fdbPort"]) = First(Learned(i))
<1> USE DEF Tables
<1> DEFINE A == Learned(i)  P == A \cap DOMAIN rows["fdbPort"]
           x == First(P)  y == First(A)
<1>1. DOMAIN sw.fdbPort \subseteq Nat
  BY SwitchesAssumption DEF TInv
<1>2. A \subseteq DOMAIN sw.fdbPort /\ A \subseteq Nat /\ P \subseteq Nat /\ A # {}
  BY <1>1 DEF Learned
<1>3. x \in P /\ \A z \in P : x <= z
  BY <1>2, FirstIsMember
<1>4. y \in A /\ \A z \in A : y <= z
  BY <1>2, FirstIsMember
<1> HIDE DEF x, y, A
<1>5. y <= x /\ x \in Nat /\ y \in Nat
  BY <1>2, <1>3, <1>4
<1>6. y \in P
  <2>1. CASE y = x
    BY <2>1, <1>3
  <2>2. CASE y < x
    <3>1. \A j \in DOMAIN sw.fdbPort : j < x => j \in DOMAIN rows["fdbPort"]
      BY <1>3 DEF SteadyInv, Steady, PartOf
    <3> QED BY <2>2, <3>1, <1>2, <1>4
  <2> QED BY <1>5, <2>1, <2>2
<1>7. x <= y
  BY <1>3, <1>6
<1>8. x = y
  BY <1>5, <1>7
<1> QED BY <1>2, <1>8 DEF x, y, A

(* On a switch that numbers its bridge ports as its interfaces, the VLAN   *)
(* of a port is that of the bridge port of its number.                     *)
LEMMA VlanIsPvid ==
  ASSUME TInv, Consistent, NumberedAlike, NEW i
  PROVE  Vlan(i) = IF i \in DOMAIN sw.pvid /\ sw.pvid[i] # 0 THEN sw.pvid[i] ELSE None
<1> DEFINE B == {b \in DOMAIN sw.pvid : sw.basePortIfIndex[b] = i /\ sw.pvid[b] # 0}
<1>1. \A b \in DOMAIN sw.pvid : sw.basePortIfIndex[b] = b /\ b \in Nat
  BY SwitchesAssumption DEF Consistent, NumberedAlike, TInv, Tables
<1>2. B = IF i \in DOMAIN sw.pvid /\ sw.pvid[i] # 0 THEN {i} ELSE {}
  BY <1>1
<1>3. B # {} => First(B) = i
  <2>1. B \subseteq Nat
    BY <1>1
  <2> HIDE DEF B
  <2>2. B # {} => First(B) \in B
    BY <2>1, FirstIsMember
  <2> QED BY <2>2, <1>2
<1>4. Vlan(i) = IF B = {} THEN None ELSE sw.pvid[First(B)]
  BY DEF Vlan
<1> HIDE DEF B
<1> QED BY <1>2, <1>3, <1>4

LEMMA ExactFromInvariant == TInv /\ SteadyInv => SteadyIsExact
<1> SUFFICES ASSUME TInv, SteadyInv, Steady, cut = {}
             PROVE  /\ DOMAIN ports = PhysicalPorts
                    /\ \A i \in DOMAIN ports :
                         /\ ports[i].name = sw.ifDescr[i]
                         /\ ports[i].link_up <=> LinkUp(i)
                         /\ ports[i].mac = MacOf(i)
                         /\ NumberedAlike => ports[i].access = Vlan(i)
  BY DEF SteadyIsExact
<1> USE DEF Tables
<1>1. ports = [i \in Found |-> PortAt(i)]
  BY DEF SteadyInv, Steady
<1>2. DOMAIN rows["ifDescr"] = DOMAIN sw.ifDescr
  BY DEF SteadyInv, Steady, WholeOnceWalked, Begun, TInv
<1>3. CASE DOMAIN rows["ifDescr"] = {}
  <2>1. Found = {} /\ PhysicalPorts = {}
    BY <1>2, <1>3 DEF Found, PhysicalPorts
  <2>2. DOMAIN ports = Found
    BY <1>1
  <2> QED BY <2>1, <2>2
<1>4. CASE DOMAIN rows["ifDescr"] # {}
  <2>1. ASSUME NEW i \in PhysicalPorts PROVE i \in Found
    <3>1. Get("ifType", i) = sw.ifType[i]
      BY <1>4, ThereIsFound DEF PhysicalPorts
    <3> QED BY <3>1, <1>2 DEF PhysicalPorts, Found
  <2>2. DOMAIN ports = PhysicalPorts
    BY <1>1, <2>1, FoundIsPhysical
  <2>3. ASSUME NEW i \in Found
        PROVE  /\ PortAt(i).name = sw.ifDescr[i]
               /\ PortAt(i).link_up <=> LinkUp(i)
               /\ PortAt(i).mac = MacOf(i)
               /\ NumberedAlike => PortAt(i).access = Vlan(i)
    <3>1. PortAt(i).name = sw.ifDescr[i]
      BY FoundIsPhysical DEF PortAt
    <3>2. PortAt(i).link_up <=> LinkUp(i)
      <4>1. Get("ifOper", i) = IF i \in DOMAIN sw.ifOper THEN sw.ifOper[i] ELSE None
        BY <1>4, ThereIsFound
      <4> QED BY <4>1, NoneAssumption DEF PortAt, LinkUp
    <3>3. PortAt(i).mac = MacOf(i)
      <4>1. MacsOn(i) = Learned(i) \cap DOMAIN rows["fdbPort"]
        BY <1>4, MacsAreLearned DEF StatusesKept
      <4>2. DOMAIN rows["fdbPort"] = DOMAIN sw.fdbPort
        BY <1>4, ThereIsFound
      <4>3. MacsOn(i) = Learned(i)
        BY <4>1, <4>2 DEF Learned
      <4> QED BY <4>3 DEF PortAt, MacOf
    <3>4. ASSUME NumberedAlike PROVE PortAt(i).access = Vlan(i)
      <4>1. Get("pvid", i) = IF i \in DOMAIN sw.pvid THEN sw.pvid[i] ELSE None
        BY <1>4, ThereIsFound
      <4>2. Vlan(i) = IF i \in DOMAIN sw.pvid /\ sw.pvid[i] # 0 THEN sw.pvid[i] ELSE None
        BY <3>4, VlanIsPvid DEF Steady
      <4>3. PortAt(i).access = IF Get("pvid", i) = 0 THEN None ELSE Get("pvid", i)
        BY DEF PortAt
      <4> QED BY <4>1, <4>2, <4>3
    <3> QED BY <3>1, <3>2, <3>3, <3>4
  <2> QED BY <1>1, <2>2, <2>3
<1> QED BY <1>3, <1>4

LEMMA HidesFromInvariant == TInv /\ SteadyInv => LossOnlyHides
<1> SUFFICES ASSUME TInv, SteadyInv, Steady, NumberedAlike, StatusesKept,
                    NEW i \in DOMAIN ports
             PROVE  /\ i \in PhysicalPorts
                    /\ ports[i].link_up => LinkUp(i)
                    /\ ports[i].mac \in {None, MacOf(i)}
                    /\ ports[i].access \in {None, Vlan(i)}
  BY DEF LossOnlyHides
<1> USE DEF Tables
<1>1. i \in Found /\ ports[i] = PortAt(i)
  BY DEF SteadyInv, Steady
<1>2. i \in PhysicalPorts /\ DOMAIN rows["ifDescr"] # {}
  BY <1>1, FoundIsPhysical
<1>3. ASSUME PortAt(i).link_up PROVE LinkUp(i)
  <2>1. Get("ifOper", i) = "up"
    BY <1>3 DEF PortAt
  <2> QED BY <2>1, NoneAssumption, FoundIsThere DEF LinkUp
<1>4. PortAt(i).mac \in {None, MacOf(i)}
  <2>1. MacsOn(i) = Learned(i) \cap DOMAIN rows["fdbPort"]
    BY <1>2, MacsAreLearned
  <2>2. CASE MacsOn(i) = {}
    BY <2>2 DEF PortAt
  <2>3. CASE MacsOn(i) # {}
    <3>1. Learned(i) # {} /\ First(MacsOn(i)) = First(Learned(i))
      BY <2>1, <2>3, FirstReceivedIsFirst
    <3> QED BY <2>3, <3>1 DEF PortAt, MacOf
  <2> QED BY <2>2, <2>3
<1>5. PortAt(i).access \in {None, Vlan(i)}
  <2>1. Vlan(i) = IF i \in DOMAIN sw.pvid /\ sw.pvid[i] # 0 THEN sw.pvid[i] ELSE None
    BY VlanIsPvid DEF Steady
  <2>2. PortAt(i).access = IF Get("pvid", i) = 0 THEN None ELSE Get("pvid", i)
    BY DEF PortAt
  <2>3. Get("pvid", i) # None => i \in DOMAIN sw.pvid /\ Get("pvid", i) = sw.pvid[i]
    BY FoundIsThere
  <2> QED BY <2>1, <2>2, <2>3
<1> QED BY <1>1, <1>2, <1>3, <1>4, <1>5

(* Of a switch that holds still, complete walks give exactly its physical  *)
(* ports, each with its name, its link, its first device that is not the   *)
(* switch itself, and its VLAN if bridge ports are numbered as interfaces: *)
(* the joins of discover_switch lose nothing and mix nothing up, however   *)
(* its walks take turns.                                                   *)
THEOREM CompleteWalksAreExact == Spec => []SteadyIsExact
  BY ExactFromInvariant, SteadyInvariant, PTL

(* A walk of it that breaks off, or is cut at the limit of rows, hides     *)
(* ports and values, but shows none that is not there.                     *)
THEOREM BrokenWalksOnlyHide == Spec => []LossOnlyHides
  BY HidesFromInvariant, SteadyInvariant, PTL

-----------------------------------------------------------------------------
(* A discovery runs out of steps: what each walk may still bring, and the  *)
(* stages that are left.                                                   *)

RowsLeft == [t \in Tables |->
               IF t \in open THEN MaxRows - Cardinality(DOMAIN rows[t]) + 1 ELSE 0]

AllRows == [t \in Tables |-> MaxRows + 1]

StageLeft ==
  CASE stage = "descr"   -> SumOver(AllRows, Tables) + MaxLookups + 3
    [] stage = "tables"  -> MaxLookups + 2
    [] stage = "vendors" -> Cardinality(lookups) + 1
    [] stage = "done"    -> 0

StepsLeft == SumOver(RowsLeft, Tables) + StageLeft

LookupsFit == IsFiniteSet(lookups) /\ Cardinality(lookups) <= MaxLookups

LEMMA TablesAreFinite == IsFiniteSet(Tables)
<1> DEFINE A == {"ifDescr", "ifType", "ifOper"}
           B == {"pvid", "vlanName", "lldpSysName"}
           C == {"fdbPort", "fdbStatus", "basePortIfIndex"}
<1>1. ASSUME NEW a, NEW b, NEW c PROVE IsFiniteSet({a, b, c})
  <2>1. {a, b, c} = (({} \cup {a}) \cup {b}) \cup {c}
    OBVIOUS
  <2>2. IsFiniteSet({} \cup {a})
    BY FS_EmptySet, FS_AddElement
  <2>3. IsFiniteSet(({} \cup {a}) \cup {b})
    BY <2>2, FS_AddElement
  <2>4. IsFiniteSet((({} \cup {a}) \cup {b}) \cup {c})
    BY <2>3, FS_AddElement
  <2> QED BY <2>1, <2>4
<1>2. IsFiniteSet(A) /\ IsFiniteSet(B) /\ IsFiniteSet(C)
  BY <1>1
<1>3. Tables = (A \cup B) \cup C
  BY DEF Tables
<1> HIDE DEF A, B, C
<1> QED BY <1>2, <1>3, FS_Union

(* What every walk may still bring is a number of rows, and the end.       *)
RowsLeftFit ==
  /\ \A t \in Tables : RowsLeft[t] \in Nat /\ RowsLeft[t] <= MaxRows + 1
  /\ \A t \in open : RowsLeft[t] >= 1
  /\ SumOver(RowsLeft, Tables) \in Nat

LEMMA WalksFit == (TInv => RowsLeftFit) /\ (TInv' => RowsLeftFit')
<1>1. TInv => RowsLeftFit
  <2> SUFFICES ASSUME TInv PROVE RowsLeftFit
    OBVIOUS
  <2>1. ASSUME NEW t \in Tables
        PROVE  /\ Cardinality(DOMAIN rows[t]) \in Nat /\ MaxRows \in Nat
               /\ Cardinality(DOMAIN rows[t]) <= MaxRows
    BY BoundsAssumption, FS_CardinalityType DEF TInv
  <2>2. /\ \A t \in Tables : RowsLeft[t] \in Nat /\ RowsLeft[t] <= MaxRows + 1
        /\ \A t \in open : RowsLeft[t] >= 1
    BY <2>1 DEF RowsLeft, TInv
  <2> QED BY <2>2, TablesAreFinite, SumOfNats DEF RowsLeftFit
<1> QED BY <1>1, PTL

(* The OUIs of some ports are finitely many.                               *)
LEMMA OuisAreFinite ==
  ASSUME NEW f, IsFiniteSet(DOMAIN f)
  PROVE  IsFiniteSet(OuisOf(f))
<1> DEFINE D == {j \in DOMAIN f : f[j].mac # None}
           g == [i \in D |-> OuiOf(f[i].mac)]
<1>1. IsFiniteSet(D)
  BY FS_Subset
<1>2. OuisOf(f) = {g[i] : i \in D}
  BY DEF OuisOf
<1>3. g \in Surjection(D, OuisOf(f))
  <2> HIDE DEF D
  <2>1. g \in [D -> OuisOf(f)]
    BY <1>2
  <2> QED BY <1>2, <2>1 DEF Surjection
<1> HIDE DEF g
<1> QED BY <1>1, <1>3, FS_Surjection

LEMMA JoinFits == ASSUME TInv, Join PROVE LookupsFit'
<1>1. PICK S \in SUBSET OuisOf(ports') :
        /\ \/ S = OuisOf(ports') /\ Cardinality(S) <= MaxLookups
           \/ Cardinality(S) = MaxLookups
        /\ lookups' = S
  BY DEF Join
<1>2. IsFiniteSet(DOMAIN ports')
  <2>1. DOMAIN ports' = Found
    BY DEF Join
  <2>2. Found \subseteq DOMAIN rows["ifDescr"] /\ IsFiniteSet(DOMAIN rows["ifDescr"])
    BY DEF Found, TInv, Tables
  <2> QED BY <2>1, <2>2, FS_Subset
<1>3. IsFiniteSet(S)
  BY <1>2, OuisAreFinite, FS_Subset
<1> QED BY <1>1, <1>3, BoundsAssumption DEF LookupsFit

LEMMA LookupFits ==
  ASSUME LookupsFit, NEW o \in lookups, NEW known, Lookup(o, known)
  PROVE  LookupsFit' /\ Cardinality(lookups') = Cardinality(lookups) - 1
<1>1. lookups' = lookups \ {o} /\ IsFiniteSet(lookups)
  BY DEF Lookup, LookupsFit
<1>2. /\ IsFiniteSet(lookups \ {o}) /\ Cardinality(lookups) \in Nat
      /\ Cardinality(lookups \ {o}) = Cardinality(lookups) - 1
  BY <1>1, FS_RemoveElement, FS_CardinalityType
<1> QED BY <1>1, <1>2, BoundsAssumption DEF LookupsFit

LEMMA FitInvariant == Spec => [](TInv /\ LookupsFit)
<1>1. Init => LookupsFit
  BY FS_EmptySet, BoundsAssumption DEF Init, LookupsFit
<1>2. TInv /\ LookupsFit /\ [Next]_vars => LookupsFit'
  <2> SUFFICES ASSUME TInv, LookupsFit, [Next]_vars PROVE LookupsFit'
    OBVIOUS
  <2>1. CASE Join
    BY <2>1, JoinFits
  <2>2. ASSUME NEW o \in lookups, NEW known \in BOOLEAN, Lookup(o, known) PROVE LookupsFit'
    BY <2>2, LookupFits
  <2>3. CASE lookups' = lookups
    BY <2>3 DEF LookupsFit
  <2> QED BY <2>1, <2>2, <2>3
          DEF Next, Discover, Receive, BreakOff, DescrWalked, Return, Change, result, vars
<1> QED BY <1>1, <1>2, TypeInvariant, PTL DEF Spec

(* A response or a walk that breaks off leaves less of its own walk.       *)
LEMMA ReceiveLeaves ==
  ASSUME TInv, NEW t \in Tables, Receive(t)
  PROVE  RowsLeft'[t] < RowsLeft[t]
<1> DEFINE D == DOMAIN rows[t]  R == Response(t)
           d == Cardinality(D)  n == Cardinality(R)
<1>1. /\ IsFiniteSet(D) /\ IsFiniteSet(R) /\ d \in Nat /\ n \in Nat
      /\ R \subseteq Ahead(t) /\ Ahead(t) \subseteq Nat /\ d <= MaxRows
  BY ResponseSize, FS_CardinalityType DEF TInv
<1>2. DOMAIN rows'[t] = D \cup R /\ t \in open
  BY ReceiveRows DEF TInv, Receive
<1>3. Cardinality(D \cup R) = d + n
  <2>1. \A j \in D, i \in R : j < i /\ i \in Nat
    BY <1>1 DEF Ahead
  <2>2. D \cap R = {}
    BY <2>1
  <2>3. Cardinality(D \cap R) = 0
    BY <2>2, FS_EmptySet
  <2> HIDE DEF D, R
  <2>4. Cardinality(D \cup R) = Cardinality(D) + Cardinality(R) - Cardinality(D \cap R)
    BY <1>1, FS_Union
  <2> QED BY <1>1, <2>3, <2>4
<1>4. t \in open' => ~ (n < BulkSize)
  BY <1>2 DEF Receive
<1>5. RowsLeft[t] = MaxRows - d + 1
  BY <1>2 DEF RowsLeft
<1>6. RowsLeft'[t] = IF t \in open' THEN MaxRows - Cardinality(DOMAIN rows'[t]) + 1 ELSE 0
  BY DEF RowsLeft
<1> HIDE DEF d, n, D, R
<1> QED BY <1>1, <1>2, <1>3, <1>4, <1>5, <1>6, BoundsAssumption

LEMMA WalkLeaves ==
  ASSUME TInv, TInv', NEW t \in Tables, Receive(t) \/ BreakOff(t)
  PROVE  SumOver(RowsLeft', Tables) < SumOver(RowsLeft, Tables)
<1>1. \A u \in Tables : RowsLeft[u] \in Int /\ RowsLeft'[u] \in Int
  BY WalksFit DEF RowsLeftFit
<1>2. RowsLeft'[t] < RowsLeft[t]
  <2>1. CASE Receive(t)
    BY <2>1, ReceiveLeaves
  <2>2. CASE BreakOff(t)
    <3>1. t \in open /\ RowsLeft'[t] = 0
      BY <2>2 DEF BreakOff, RowsLeft
    <3>2. RowsLeft[t] >= 1
      BY <3>1, WalksFit DEF RowsLeftFit
    <3> QED BY <1>1, <3>1, <3>2
  <2> QED BY <2>1, <2>2
<1>3. ASSUME NEW u \in Tables \ {t} PROVE RowsLeft'[u] = RowsLeft[u]
  <2>1. rows'[u] = rows[u]
    BY ReceiveRows DEF BreakOff, TInv
  <2>2. u \in open' <=> u \in open
    BY DEF Receive, BreakOff
  <2> QED BY <2>1, <2>2 DEF RowsLeft
<1> QED BY <1>1, <1>2, <1>3, TablesAreFinite, SumDrops

(* The steps of every stage but the walks.                                 *)
LEMMA StepsLeftType ==
  ASSUME TInv, LookupsFit
  PROVE  /\ StepsLeft \in Nat /\ StageLeft \in Nat
         /\ SumOver(RowsLeft, Tables) \in Nat /\ SumOver(AllRows, Tables) \in Nat
<1>1. SumOver(AllRows, Tables) \in Nat
  <2>1. \A t \in Tables : AllRows[t] \in Nat
    BY BoundsAssumption DEF AllRows
  <2> QED BY <2>1, TablesAreFinite, SumOfNats
<1>2. Cardinality(lookups) \in Nat
  BY FS_CardinalityType DEF LookupsFit
<1>3. StageLeft \in Nat
  BY <1>1, <1>2, BoundsAssumption DEF TInv, StageLeft
<1> QED BY <1>1, <1>3, WalksFit DEF StepsLeft, RowsLeftFit

LEMMA DescrWalkedLeaves ==
  ASSUME TInv, TInv', LookupsFit, LookupsFit', DescrWalked
  PROVE  StepsLeft' < StepsLeft
<1> DEFINE before == SumOver(RowsLeft, Tables)
           after  == SumOver(RowsLeft', Tables)
           all    == SumOver(AllRows, Tables)
<1>1. before \in Nat /\ all \in Nat
  BY StepsLeftType
<1>2. after \in Nat
  BY WalksFit DEF RowsLeftFit
<1>3. after <= all
  <2>1. \A t \in Tables : RowsLeft'[t] \in Nat /\ RowsLeft'[t] <= MaxRows + 1
    BY WalksFit DEF RowsLeftFit
  <2>2. \A t \in Tables : /\ AllRows[t] \in Int /\ RowsLeft'[t] \in Int
                          /\ RowsLeft'[t] <= AllRows[t]
    BY <2>1, BoundsAssumption DEF AllRows
  <2> QED BY <2>2, TablesAreFinite, SumAtMost
<1>4. StepsLeft = before + (all + MaxLookups + 3)
  BY DEF StepsLeft, StageLeft, DescrWalked
<1>5. StepsLeft' = after + StageLeft' /\ StageLeft' \in {0, MaxLookups + 2}
  BY DEF StepsLeft, StageLeft, DescrWalked
<1> HIDE DEF before, after, all
<1>6. after + StageLeft' < before + (all + MaxLookups + 3)
  <2>1. CASE StageLeft' = 0
    BY <1>1, <1>2, <1>3, <2>1, BoundsAssumption
  <2>2. CASE StageLeft' = MaxLookups + 2
    BY <1>1, <1>2, <1>3, <2>2, BoundsAssumption
  <2> QED BY <1>5, <2>1, <2>2
<1> QED BY <1>4, <1>5, <1>6

LEMMA AfterWalksLeaves ==
  ASSUME TInv, LookupsFit,
         Join \/ Return \/ \E o \in lookups, known \in BOOLEAN : Lookup(o, known)
  PROVE  StepsLeft' < StepsLeft
<1>1. RowsLeft' = RowsLeft
  BY DEF Join, Return, Lookup, RowsLeft
<1>2. StageLeft' < StageLeft /\ StageLeft' \in Int
  <2>1. Cardinality(lookups) \in Nat
    BY FS_CardinalityType DEF LookupsFit
  <2>2. CASE Join
    <3>1. StageLeft = MaxLookups + 2 /\ StageLeft' = Cardinality(lookups') + 1
      BY <2>2 DEF Join, StageLeft
    <3>2. Cardinality(lookups') <= MaxLookups /\ Cardinality(lookups') \in Nat
      BY <2>2, JoinFits, FS_CardinalityType DEF LookupsFit
    <3> QED BY <3>1, <3>2, BoundsAssumption
  <2>3. CASE Return
    BY <2>1, <2>3 DEF Return, StageLeft
  <2>4. ASSUME NEW o \in lookups, NEW known \in BOOLEAN, Lookup(o, known)
        PROVE  StageLeft' < StageLeft /\ StageLeft' \in Int
    <3>1. Cardinality(lookups') = Cardinality(lookups) - 1
      BY <2>4, LookupFits
    <3>2. StageLeft = Cardinality(lookups) + 1 /\ StageLeft' = Cardinality(lookups') + 1
      BY <2>4 DEF Lookup, StageLeft
    <3> QED BY <2>1, <3>1, <3>2
  <2> QED BY <2>2, <2>3, <2>4
<1>3. StepsLeft' = SumOver(RowsLeft, Tables) + StageLeft'
  BY <1>1 DEF StepsLeft
<1>4. SumOver(RowsLeft, Tables) \in Nat /\ StageLeft \in Nat
  BY StepsLeftType
<1> QED BY <1>2, <1>3, <1>4 DEF StepsLeft

(* Every step of a discovery uses one up of a number fixed at its start by *)
(* the limits of rows and lookups; a change of the switch uses up none but *)
(* adds none.  A switch that goes on changing, or whose tables grow while  *)
(* they are walked, cannot keep a discovery walking: snmp.py:202.          *)
DiscoveryRunsOut ==
  [][/\ Discover => StepsLeft' < StepsLeft
     /\ ~Discover => StepsLeft' = StepsLeft]_vars

THEOREM DiscoveryIsBounded == Spec => DiscoveryRunsOut /\ [](StepsLeft \in Nat)
<1>1. ASSUME TInv, TInv', LookupsFit, LookupsFit', Discover
      PROVE  StepsLeft' < StepsLeft
  <2>1. ASSUME NEW t \in Tables, Receive(t) \/ BreakOff(t)
        PROVE  StepsLeft' < StepsLeft
    <3>1. SumOver(RowsLeft', Tables) < SumOver(RowsLeft, Tables)
      BY <1>1, <2>1, WalkLeaves
    <3>2. SumOver(RowsLeft, Tables) \in Nat /\ SumOver(RowsLeft', Tables) \in Nat
      BY <1>1, WalksFit DEF RowsLeftFit
    <3>3. StageLeft' = StageLeft /\ StageLeft \in Nat
      <4>1. stage' = stage /\ lookups' = lookups
        BY <2>1 DEF Receive, BreakOff, result
      <4> QED BY <1>1, <4>1, StepsLeftType DEF StageLeft
    <3>4. StepsLeft = SumOver(RowsLeft, Tables) + StageLeft
      BY DEF StepsLeft
    <3>5. StepsLeft' = SumOver(RowsLeft', Tables) + StageLeft
      BY <3>3 DEF StepsLeft
    <3> QED BY <3>1, <3>2, <3>3, <3>4, <3>5
  <2> QED BY <1>1, <2>1, DescrWalkedLeaves, AfterWalksLeaves DEF Discover
<1>2. ASSUME [Next]_vars, ~Discover PROVE StepsLeft' = StepsLeft
  <2>1. rows' = rows /\ open' = open /\ stage' = stage /\ lookups' = lookups
    BY <1>2 DEF Next, Change, result, vars
  <2>2. RowsLeft' = RowsLeft /\ StageLeft' = StageLeft
    BY <2>1 DEF RowsLeft, StageLeft
  <2> QED BY <2>2 DEF StepsLeft
<1>3. TInv /\ LookupsFit => StepsLeft \in Nat
  BY StepsLeftType
<1>4. TInv /\ LookupsFit /\ TInv' /\ LookupsFit' /\ [Next]_vars
        => [/\ Discover => StepsLeft' < StepsLeft
            /\ ~Discover => StepsLeft' = StepsLeft]_vars
  BY <1>1, <1>2
<1> QED BY <1>3, <1>4, FitInvariant, PTL DEF Spec, DiscoveryRunsOut

(* Of a finite set, some part has as many members as one asks for.         *)
LEMMA SomePartFits ==
  ASSUME NEW S, IsFiniteSet(S), NEW n \in Nat, ~ (Cardinality(S) <= n)
  PROVE  \E T \in SUBSET S : Cardinality(T) = n
<1> DEFINE B == {T \in SUBSET S : Cardinality(T) >= n}
<1>1. ASSUME NEW T \in SUBSET S PROVE IsFiniteSet(T) /\ Cardinality(T) \in Nat
  BY FS_Subset, FS_CardinalityType
<1>2. S \in B
  BY <1>1
<1>3. PICK T \in B : \A U \in SUBSET T : U \in B => U = T
  <2> HIDE DEF B
  <2>1. B \subseteq SUBSET S
    BY DEF B
  <2> QED BY <1>2, <2>1, MinimalSubset
<1>4. T \in SUBSET S /\ Cardinality(T) >= n
  OBVIOUS
<1>5. ASSUME Cardinality(T) > n PROVE FALSE
  <2>1. T # {}
    BY <1>5, FS_EmptySet
  <2>2. PICK x : x \in T
    BY <2>1
  <2>3. Cardinality(T \ {x}) = Cardinality(T) - 1
    BY <1>1, <1>4, <2>2, FS_RemoveElement
  <2>4. T \ {x} \in B
    BY <1>1, <1>4, <1>5, <2>3
  <2> HIDE DEF B
  <2> QED BY <1>3, <2>2, <2>4
<1> QED BY <1>1, <1>4, <1>5

(* What a discovery can do next, in every stage but the last.              *)
CanGoOn ==
  \/ open # {}
  \/ stage = "descr" \/ stage = "vendors"
  \/ /\ stage = "tables"
     /\ \E S \in SUBSET OuisOf([i \in Found |-> PortAt(i)]) :
          \/ S = OuisOf([i \in Found |-> PortAt(i)]) /\ Cardinality(S) <= MaxLookups
          \/ Cardinality(S) = MaxLookups

(* Until it has returned a discovery has a step, whichever walks broke off *)
(* and however many vendors there are to look up.                          *)
GoesOn == stage # "done" => CanGoOn

THEOREM DiscoveryIsNeverStuck == Spec => []GoesOn
<1>1. TInv => GoesOn
  <2> SUFFICES ASSUME TInv, stage = "tables" PROVE CanGoOn
    BY DEF GoesOn, CanGoOn, TInv
  <2> DEFINE f == [i \in Found |-> PortAt(i)]
             O == OuisOf(f)
  <2>1. IsFiniteSet(O)
    <3>1. DOMAIN f = Found
      OBVIOUS
    <3>2. Found \subseteq DOMAIN rows["ifDescr"] /\ IsFiniteSet(DOMAIN rows["ifDescr"])
      BY DEF Found, TInv, Tables
    <3>3. IsFiniteSet(DOMAIN f)
      BY <3>1, <3>2, FS_Subset
    <3> HIDE DEF f
    <3> QED BY <3>3, OuisAreFinite
  <2> HIDE DEF O
  <2>2. CASE Cardinality(O) <= MaxLookups
    BY <2>2 DEF CanGoOn, O
  <2>3. CASE ~ (Cardinality(O) <= MaxLookups)
    <3>1. \E S \in SUBSET O : Cardinality(S) = MaxLookups
      BY <2>1, <2>3, BoundsAssumption, SomePartFits
    <3> QED BY <3>1 DEF CanGoOn, O
  <2> QED BY <2>2, <2>3
<1> QED BY <1>1, TypeInvariant, PTL
=============================================================================
