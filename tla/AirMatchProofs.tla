--------------------------- MODULE AirMatchProofs ---------------------------
(***************************************************************************)
(* Theorems about AirMatch: a plan is well formed, a channel clear of all  *)
(* neighbours is taken whenever there is one, two radios that hear nobody  *)
(* else end up clear of each other, and no placement raises the total of   *)
(* what the radios of the band suffer.                                     *)
(***************************************************************************)
EXTENDS AirMatch, Sums, FiniteSetTheorems, SequenceTheorems, TLAPS

-----------------------------------------------------------------------------
(* Sets of neighbours are finite, so that they can be counted.             *)
LEMMA Countable ==
  ASSUME TypeOK, NEW d, NEW c, NEW S
  PROVE  /\ Cardinality(Neighbors(d) \cap S) \in Nat
         /\ Cardinality(OnChannel(d, c)) \in Nat
         /\ Cardinality(Beside(d, c)) \in Nat
         /\ OnChannel(d, c) # {} => Cardinality(OnChannel(d, c)) >= 1
         /\ Beside(d, c) # {} => Cardinality(Beside(d, c)) >= 1
<1>1. IsFiniteSet(Neighbors(d))
  BY DevIdsAssumption, FS_Subset DEF TypeOK, Neighbors
<1>2. /\ IsFiniteSet(Neighbors(d) \cap S)
      /\ IsFiniteSet(OnChannel(d, c))
      /\ IsFiniteSet(Beside(d, c))
  BY <1>1, FS_Subset DEF OnChannel, Beside
<1>3. ASSUME NEW T, IsFiniteSet(T), T # {}
      PROVE  Cardinality(T) >= 1
  BY <1>3, FS_EmptySet, FS_CardinalityType
<1> QED BY <1>2, <1>3, FS_CardinalityType

(* The most a radio saves by staying where it is.                          *)
LEMMA OwnAtLeast ==
  ASSUME NEW r \in RadioInput, NEW c
  PROVE  Own(r, c) \in Int /\ Own(r, c) >= -5
<1>1. Util(r) \in 0 .. 100
  BY DEF Util, RadioInput
<1>2. Noise(r) \in Nat
  <2>1. CASE r.noise = None \/ r.noise < -90
    BY <2>1 DEF Noise
  <2>2. CASE ~(r.noise = None \/ r.noise < -90)
    BY <2>2 DEF Noise, RadioInput
  <2> QED BY <2>1, <2>2
<1> QED BY <1>1, <1>2 DEF Own

(* The chosen channel is on offer and nothing on offer is cheaper.         *)
LEMMA BestIsCheapest ==
  ASSUME TypeOK, NEW d \in DOMAIN fleet, NEW c, IsBest(d, c)
  PROVE  c \in Offered /\ \A x \in Offered : ChannelCost(d, c) <= ChannelCost(d, x)
<1> DEFINE s == Candidates(ask)
<1>1. PICK i \in DOMAIN s :
        /\ c = s[i]
        /\ \A j \in DOMAIN s :
             IF j < i THEN ChannelCost(d, c) < ChannelCost(d, s[j])
                      ELSE ChannelCost(d, c) <= ChannelCost(d, s[j])
  BY DEF IsBest
<1>2. ASSUME NEW x PROVE ChannelCost(d, x) \in Int
  <2>1. Own(fleet[d], x) \in Int
    BY OwnAtLeast DEF TypeOK
  <2>2. Cardinality(OnChannel(d, x)) \in Nat /\ Cardinality(Beside(d, x)) \in Nat
    BY Countable
  <2> QED BY <2>1, <2>2 DEF ChannelCost
<1>3. \A j \in DOMAIN s : ChannelCost(d, c) <= ChannelCost(d, s[j])
  BY <1>1, <1>2
<1> QED BY <1>1, <1>3 DEF Offered, Range

-----------------------------------------------------------------------------
(* Typing.                                                                 *)

LEMMA PowerInRange ==
  ASSUME NEW n \in Nat
  PROVE  SuggestTxPower(n) \in 9 .. 15
<1>1. CASE n >= 4
  BY <1>1 DEF SuggestTxPower
<1>2. CASE n \in 2 .. 3
  BY <1>2 DEF SuggestTxPower
<1>3. CASE n < 2
  BY <1>3 DEF SuggestTxPower
<1> QED BY <1>1, <1>2, <1>3

(* The empty planner is well typed.                                        *)
LEMMA InitType == Init => TypeOK
<1> SUFFICES ASSUME Init PROVE TypeOK
  OBVIOUS
<1>1. /\ DOMAIN devices \subseteq DevIds /\ devices \in [DOMAIN devices -> Device]
      /\ DOMAIN radios \subseteq (DevIds \X Bands)
      /\ radios \in [DOMAIN radios -> Reading]
      /\ passes \in Nat /\ edits \in Nat
  <2>1. PICK t \in Installations : /\ devices = t.devices /\ radios = t.radios
                                   /\ passes = t.passes /\ edits = t.edits
    BY DEF Init
  <2> QED BY <2>1, InstallationsAssumption
<1> QED BY <1>1, AsksAssumption DEF Init, TypeOK

(* Every step of a planning pass keeps the types.                          *)
LEMMA PassType ==
  ASSUME TypeOK, Pass
  PROVE  TypeOK'
<1>1. ASSUME NEW a \in Asks, GatherRadios(a) PROVE TypeOK'
  <2>1. ASSUME NEW d \in Active, <<d, a.band>> \in DOMAIN radios
        PROVE  Entry(d, radios[<<d, a.band>>]) \in RadioInput
    <3>1. radios[<<d, a.band>>] \in Reading /\ devices[d] \in Device
      BY <2>1 DEF TypeOK, Active
    <3> QED BY <3>1 DEF Entry, RadioInput, Reading, Device
  <2>2. DOMAIN fleet' \subseteq DevIds /\ fleet' \in [DOMAIN fleet' -> RadioInput]
    BY <1>1, <2>1 DEF GatherRadios, TypeOK, Active
  <2>3. /\ phase' = "gathering" /\ ask' \in Ask /\ owners' \subseteq DevIds
        /\ UNCHANGED <<passes, inventory>> /\ passes > 0
    BY <1>1, AsksAssumption DEF GatherRadios, Active, TypeOK
  <2> QED BY <2>2, <2>3 DEF TypeOK, inventory
<1>2. CASE GatherAPs
  <2>1. ASSUME NEW d \in Active PROVE Synthetic(d) \in RadioInput
    BY <2>1 DEF Synthetic, RadioInput, TypeOK, Active, Device
  <2>2. DOMAIN fleet' \subseteq DevIds /\ fleet' \in [DOMAIN fleet' -> RadioInput]
    BY <1>2, <2>1 DEF GatherAPs, TypeOK, Active
  <2>3. DOMAIN plan' = {} /\ plan' \in [{} -> [channel : Offered', tx : 9 .. 15]]
    BY <1>2 DEF GatherAPs
  <2>4. /\ phase = "gathering" /\ phase' \in {"idle", "planning"}
        /\ UNCHANGED <<ask, owners, passes, inventory>>
    BY <1>2 DEF GatherAPs
  <2> QED BY <2>2, <2>3, <2>4 DEF TypeOK, inventory
<1>3. ASSUME NEW d \in Left, NEW c, Assign(d, c) PROVE TypeOK'
  <2>1. c \in Offered
    BY <1>3, BestIsCheapest DEF Assign, Left
  <2>2. SuggestTxPower(Cardinality(Neighbors(d) \cap DOMAIN plan)) \in 9 .. 15
    BY Countable, PowerInRange
  <2>3. /\ DOMAIN plan' \subseteq DOMAIN fleet
        /\ plan' \in [DOMAIN plan' -> [channel : Offered, tx : 9 .. 15]]
    BY <1>3, <2>1, <2>2 DEF Assign, TypeOK, Left
  <2>4. UNCHANGED <<phase, ask, owners, fleet, passes, inventory>> /\ Offered' = Offered
    BY <1>3 DEF Assign, Offered, Candidates
  <2> QED BY <2>3, <2>4 DEF TypeOK, inventory
<1>4. CASE Store
  <2>1. passes' \in Nat
    BY <1>4 DEF Store, TypeOK
  <2> QED BY <1>4, <2>1 DEF Store, TypeOK, inventory
<1> QED BY <1>1, <1>2, <1>3, <1>4 DEF Pass

(* So does every edit of the inventory.                                    *)
LEMMA EditsType ==
  ASSUME TypeOK, Edits
  PROVE  TypeOK'
<1>1. ASSUME Edit PROVE edits' \in Nat
  BY <1>1 DEF Edit, TypeOK
<1>2. ASSUME Edit,
             DOMAIN devices' \subseteq DevIds,
             devices' \in [DOMAIN devices' -> Device],
             DOMAIN radios' \subseteq (DevIds \X Bands),
             radios' \in [DOMAIN radios' -> Reading]
      PROVE  TypeOK'
  BY <1>1, <1>2 DEF Edit, TypeOK, Offered, Candidates
<1>3. ASSUME NEW d \in DevIds, NEW row \in Device, PutDevice(d, row) PROVE TypeOK'
  <2>1. /\ DOMAIN devices' \subseteq DevIds /\ devices' \in [DOMAIN devices' -> Device]
        /\ UNCHANGED radios /\ Edit
    BY <1>3 DEF PutDevice, TypeOK
  <2> QED BY <1>2, <2>1 DEF TypeOK
<1>4. ASSUME NEW d \in DevIds, DeleteDevice(d) PROVE TypeOK'
  <2>1. Edit
    BY <1>4 DEF DeleteDevice
  <2>2. DOMAIN devices' \subseteq DevIds /\ devices' \in [DOMAIN devices' -> Device]
    BY <1>4 DEF DeleteDevice, TypeOK, Restrict
  <2>3. DOMAIN radios' \subseteq (DevIds \X Bands) /\ radios' \in [DOMAIN radios' -> Reading]
    BY <1>4 DEF DeleteDevice, TypeOK, Restrict
  <2> QED BY <1>2, <2>1, <2>2, <2>3
<1>5. ASSUME NEW d \in DevIds, NEW low \in Readings, NEW high \in Readings,
             Reseed(d, low, high)
      PROVE  TypeOK'
  <2>1. Edit /\ UNCHANGED devices
    BY <1>5 DEF Reseed
  <2>2. <<d, "2.4">> \in DevIds \X Bands /\ <<d, "5">> \in DevIds \X Bands
    BY DEF Bands
  <2>3. DOMAIN radios' \subseteq (DevIds \X Bands)
    BY <1>5, <2>2 DEF Reseed, TypeOK
  <2>4. low \in Reading /\ high \in Reading
    BY AsksAssumption
  <2>5. radios' \in [DOMAIN radios' -> Reading]
    BY <1>5, <2>4 DEF Reseed, TypeOK
  <2> QED BY <1>2, <2>1, <2>3, <2>5 DEF TypeOK
<1> QED BY <1>3, <1>4, <1>5 DEF Edits

(* The tables, the gathered radios and the plan are well formed, and a     *)
(* plan only names channels that were asked for.                           *)
THEOREM PlansWellFormed == Spec => []TypeOK
<1>1. TypeOK /\ [Next]_vars => TypeOK'
  <2>1. TypeOK /\ UNCHANGED vars => TypeOK'
    BY DEF vars, TypeOK, Offered, Candidates
  <2> QED BY <2>1, PassType, EditsType DEF Next
<1> QED BY <1>1, InitType, PTL DEF Spec

-----------------------------------------------------------------------------
(* Clean channels.                                                         *)

(* If a channel clear of all neighbours is on offer, the best one is clear *)
(* too: a neighbour costs more than staying can save.                      *)
LEMMA BestIsClear ==
  ASSUME TypeOK, NEW d \in DOMAIN fleet, NEW c, IsBest(d, c),
         NEW x, IsClean(d, x)
  PROVE  OnChannel(d, c) = {} /\ Beside(d, c) = {}
<1>1. ChannelCost(d, x) = 0
  BY FS_EmptySet DEF IsClean, ChannelCost, Own
<1>2. ChannelCost(d, c) <= 0
  BY <1>1, BestIsCheapest DEF IsClean
<1>3. Own(fleet[d], c) \in Int /\ Own(fleet[d], c) >= -5
  BY OwnAtLeast DEF TypeOK
<1>4. Cardinality(OnChannel(d, c)) \in Nat /\ Cardinality(Beside(d, c)) \in Nat
  BY Countable
<1>5. Cardinality(OnChannel(d, c)) = 0 /\ Cardinality(Beside(d, c)) = 0
  BY <1>2, <1>3, <1>4 DEF ChannelCost
<1>6. /\ OnChannel(d, c) # {} => Cardinality(OnChannel(d, c)) >= 1
      /\ Beside(d, c) # {} => Cardinality(Beside(d, c)) >= 1
  BY Countable
<1> QED BY <1>5, <1>6

(* Only Assign plans a radio.                                              *)
LEMMA PlannedByAssign ==
  ASSUME TypeOK, [Next]_vars, NEW d, Planned(d)
  PROVE  \E c : Assign(d, c) /\ plan'[d].channel = c
<1>1. phase = "planning" /\ d \in Left /\ d \in DOMAIN plan'
  BY DEF Planned
<1>2. PICK e \in Left, c \in Channels \cup Offered : Assign(e, c)
  <2>1. plan' # plan
    BY <1>1 DEF Left
  <2> QED BY <1>1, <2>1 DEF Next, Pass, Edits, GatherRadios, GatherAPs, Store,
                            Edit, PutDevice, DeleteDevice, Reseed, vars
<1>3. e = d
  BY <1>1, <1>2 DEF Assign, Left
<1>4. plan'[d].channel = c
  BY <1>2, <1>3 DEF Assign
<1> QED BY <1>2, <1>3, <1>4

(* A radio is never put on or beside a neighbour's channel while a channel *)
(* clear of all neighbours is on offer.                                    *)
THEOREM CleanChannelsAreUsed == Spec => CleanChannelChosen
<1> DEFINE Clear(d) ==
      /\ Planned(d)
      /\ \E c \in Offered : IsClean(d, c)
      => LET c == plan'[d].channel
         IN OnChannel(d, c) = {} /\ Beside(d, c) = {}
<1>1. ASSUME TypeOK, [Next]_vars, NEW d \in DevIds
      PROVE  Clear(d)
  <2> SUFFICES ASSUME Planned(d), NEW x \in Offered, IsClean(d, x)
               PROVE  LET c == plan'[d].channel
                      IN OnChannel(d, c) = {} /\ Beside(d, c) = {}
    OBVIOUS
  <2>1. PICK c : Assign(d, c) /\ plan'[d].channel = c
    BY <1>1, PlannedByAssign
  <2>2. IsBest(d, c) /\ d \in DOMAIN fleet
    BY <2>1 DEF Assign, Planned, Left
  <2> QED BY <1>1, <2>1, <2>2, BestIsClear
<1>2. TypeOK /\ [Next]_vars => [\A d \in DevIds : Clear(d)]_vars
  BY <1>1
<1> QED BY <1>2, PlansWellFormed, PTL DEF Spec, CleanChannelChosen

-----------------------------------------------------------------------------
(* Pairs.                                                                  *)

LEMMA ListsAreNumbers == Channels5 \in Seq(Int) /\ Channels5DFS \in Seq(Int)
<1>1. /\ DOMAIN Channels5 = 1 .. 9
      /\ \A i \in 1 .. 9 : Channels5[i] \in Int
  BY DEF Channels5
<1>2. /\ DOMAIN Channels5DFS = 1 .. 12
      /\ \A i \in 1 .. 12 : Channels5DFS[i] \in Int
  BY DEF Channels5DFS
<1> QED BY <1>1, <1>2 DEF Channels5, Channels5DFS

(* What is in two joined lists is in one of them.                          *)
LEMMA ListsJoined ==
  ASSUME NEW t \in Seq(Int), NEW u \in Seq(Int), Len(t) = 9, Len(u) = 12
  PROVE  /\ \A i \in 1 .. 9 : (t \o u)[i] = t[i]
         /\ DOMAIN (t \o u) = 1 .. 21
         /\ \A i \in DOMAIN (t \o u) : (t \o u)[i] \in Int
<1>1. /\ t \o u \in Seq(Int)
      /\ Len(t \o u) = Len(t) + Len(u)
      /\ \A i \in 1 .. Len(t) + Len(u) : (t \o u)[i] =
                IF i <= Len(t) THEN t[i] ELSE u[i - Len(t)]
  BY ConcatProperties, Zenon
<1>2. ASSUME NEW v \in Seq(Int), Len(v) = 21
      PROVE  DOMAIN v = 1 .. 21 /\ \A i \in DOMAIN v : v[i] \in Int
  <2>1. v \in [1 .. Len(v) -> Int]
    BY <1>2, LenProperties, Zenon
  <2>2. v \in [1 .. 21 -> Int]
    BY <1>2, <2>1, Zenon
  <2> QED BY <2>2, Zenon
<1>3. Len(t \o u) = 21
  BY <1>1
<1>4. DOMAIN (t \o u) = 1 .. 21 /\ \A i \in DOMAIN (t \o u) : (t \o u)[i] \in Int
  BY <1>1, <1>2, <1>3, Zenon
<1>5. ASSUME NEW i \in 1 .. 9 PROVE (t \o u)[i] = t[i]
  <2>1. i \in 1 .. Len(t) + Len(u) /\ i <= Len(t)
    OBVIOUS
  <2> QED BY <1>1, <2>1, Zenon
<1> QED BY <1>4, <1>5

(* Three channels of every list lie far enough apart that one of them is   *)
(* clear of a neighbour and is not the radio's own.                        *)
LEMMA ThreeApart ==
  ASSUME NEW a \in Ask, NEW x \in Range(Candidates(a)), NEW own
  PROVE  \E c \in Range(Candidates(a)) : c # own /\ c # x /\ ~IsAdjacent(x, c)
<1> DEFINE s == Candidates(a)
<1>1. CASE a.band = "2.4"
  <2>1. s = <<1, 6, 11>>
    BY <1>1 DEF Candidates, Channels24
  <2>2. Range(s) = {1, 6, 11}
    BY <2>1 DEF Range
  <2> QED BY <2>2 DEF IsAdjacent
<1>2. CASE a.band = "5"
  <2>1. 36 \in Range(s) /\ 48 \in Range(s) /\ 149 \in Range(s) /\ x \in Int
    <3>1. CASE ~a.dfs
      <4>1. s = Channels5
        BY <1>2, <3>1 DEF Candidates
      <4>2. DOMAIN s = 1 .. 9 /\ s[1] = 36 /\ s[4] = 48 /\ s[5] = 149
        BY <4>1 DEF Channels5
      <4>3. \A i \in 1 .. 9 : s[i] \in Int
        BY <4>1 DEF Channels5
      <4> QED BY <4>2, <4>3 DEF Range
    <3>2. CASE a.dfs
      <4>1. s = Channels5 \o Channels5DFS
        BY <1>2, <3>2 DEF Candidates
      <4>2. Len(Channels5) = 9 /\ Len(Channels5DFS) = 12
        BY DEF Channels5, Channels5DFS
      <4>3. Channels5 \in Seq(Int) /\ Channels5DFS \in Seq(Int)
        BY ListsAreNumbers
      <4>4. /\ \A i \in 1 .. 9 : s[i] = Channels5[i]
            /\ DOMAIN s = 1 .. 21 /\ \A i \in DOMAIN s : s[i] \in Int
        BY <4>1, <4>2, <4>3, ListsJoined
      <4>5. DOMAIN s = 1 .. 21 /\ \A i \in DOMAIN s : s[i] \in Int
        BY <4>4
      <4>6. s[1] = 36 /\ s[4] = 48 /\ s[5] = 149
        BY <4>4 DEF Channels5
      <4> QED BY <4>5, <4>6 DEF Range
    <3> QED BY <3>1, <3>2 DEF Ask
  <2> QED BY <2>1 DEF IsAdjacent
<1>3. CASE a.band = "6"
  <2>1. s = [i \in 1 .. 16 |-> 4 * i - 3]
    BY <1>3 DEF Candidates, Channels6
  <2>2. 1 \in Range(s) /\ 13 \in Range(s) /\ 25 \in Range(s) /\ x \in Int
    <3>1. s[1] = 1 /\ s[4] = 13 /\ s[7] = 25 /\ {1, 4, 7} \subseteq DOMAIN s
      BY <2>1
    <3>2. \A i \in DOMAIN s : s[i] \in Int
      BY <2>1
    <3> QED BY <3>1, <3>2 DEF Range
  <2> QED BY <2>2 DEF IsAdjacent
<1> QED BY <1>1, <1>2, <1>3 DEF Ask, Bands

(* So do the lists offered for any band.                                   *)
LEMMA OfferedAreNumbers == ASSUME TypeOK PROVE Offered \subseteq Int
<1>1. ask \in Ask
  BY DEF TypeOK
<1>2. Channels5 \in Seq(Int) /\ Channels5DFS \in Seq(Int)
  BY ListsAreNumbers
<1>3. Channels24 \in Seq(Int) /\ Channels6 \in Seq(Int)
  BY DEF Channels24, Channels6
<1>4. Channels5 \o Channels5DFS \in Seq(Int)
  BY <1>2, ConcatProperties
<1>5. Candidates(ask) \in Seq(Int)
  BY <1>1, <1>2, <1>3, <1>4 DEF Candidates, Ask, Bands
<1> QED BY <1>5 DEF Offered, Range

(* The second of a pair has a clear channel and takes one.                 *)
LEMMA SecondSpreads ==
  ASSUME TypeOK, phase = "planning",
         NEW d \in Left, NEW e \in DOMAIN plan, Neighbors(d) = {e},
         NEW c, IsBest(d, c)
  PROVE  c # plan[e].channel /\ ~IsAdjacent(plan[e].channel, c)
<1>1. d \in DOMAIN fleet /\ plan[e].channel \in Offered /\ ask \in Ask
  BY DEF TypeOK, Left
<1>2. Heard(e) = plan[e].channel
  BY DEF Heard
<1>3. PICK x \in Offered : /\ x # fleet[d].channel /\ x # plan[e].channel
                           /\ ~IsAdjacent(plan[e].channel, x)
  BY <1>1, ThreeApart DEF Offered
<1>4. IsClean(d, x)
  BY <1>2, <1>3 DEF IsClean, OnChannel, Beside
<1>5. OnChannel(d, c) = {} /\ Beside(d, c) = {}
  BY <1>1, <1>4, BestIsClear
<1>6. plan[e].channel # None
  BY <1>1, OfferedAreNumbers, ChannelsAssumption
<1> QED BY <1>2, <1>5, <1>6 DEF OnChannel, Beside

(* Placing the second of two radios puts it clear of the first.            *)
LEMMA PairsStep ==
  ASSUME TypeOK, TypeOK', PairsSpread, [Next]_vars
  PROVE  PairsSpread'
<1>1. ASSUME NEW d \in Left, NEW c, Assign(d, c) PROVE PairsSpread'
  <2>1. /\ phase = "planning" /\ UNCHANGED fleet
        /\ DOMAIN plan' = DOMAIN plan \cup {d}
        /\ \A e \in DOMAIN plan : plan'[e].channel = plan[e].channel
        /\ plan'[d].channel = c
        /\ IsBest(d, c)
    BY <1>1 DEF Assign, Left
  <2>2. \A p : Neighbors(p)' = Neighbors(p)
    BY <2>1 DEF Neighbors
  <2>3. \A p, q : Neighbors(p) = {q} /\ p \in DOMAIN fleet => Neighbors(q) = {p}
    BY DEF Neighbors
  <2>4. c \in Int /\ \A e \in DOMAIN plan : plan[e].channel \in Int
    BY <2>1, BestIsCheapest, OfferedAreNumbers DEF TypeOK, Left
  <2>5. \A x, y \in Int : IsAdjacent(x, y) <=> IsAdjacent(y, x)
    BY DEF IsAdjacent
  <2>6. \A e \in DOMAIN plan :
          Neighbors(d) = {e} => c # plan[e].channel /\ ~IsAdjacent(plan[e].channel, c)
    BY <2>1, SecondSpreads
  <2>7. ASSUME NEW p \in DOMAIN plan', NEW q \in DOMAIN plan', Neighbors(p) = {q}
        PROVE  /\ plan'[p].channel # plan'[q].channel
               /\ ~IsAdjacent(plan'[p].channel, plan'[q].channel)
    <3>1. p # q /\ p \in DOMAIN fleet
      <4>1. q \in Neighbors(p)
        BY <2>7
      <4>2. DOMAIN plan' \subseteq DOMAIN fleet
        BY <2>1 DEF TypeOK, Left
      <4> QED BY <4>1, <4>2 DEF Neighbors
    <3>2. CASE p = d
      BY <2>1, <2>4, <2>5, <2>6, <2>7, <3>1, <3>2
    <3>3. CASE q = d
      <4>1. Neighbors(d) = {p} /\ p \in DOMAIN plan
        BY <2>1, <2>3, <2>7, <3>1, <3>3
      <4> QED BY <2>1, <2>4, <2>6, <3>3, <4>1
    <3>4. CASE p # d /\ q # d
      BY <2>1, <2>7, <3>4 DEF PairsSpread
    <3> QED BY <3>2, <3>3, <3>4
  <2> QED BY <2>2, <2>7 DEF PairsSpread
<1>2. CASE GatherAPs
  BY <1>2 DEF GatherAPs, PairsSpread
<1>3. CASE (\E a \in Asks : GatherRadios(a)) \/ Store
  BY <1>3 DEF GatherRadios, Store, PairsSpread
<1>4. CASE Edits \/ UNCHANGED vars
  BY <1>4 DEF Edits, Edit, PutDevice, DeleteDevice, Reseed, vars, PairsSpread, Neighbors
<1> QED BY <1>1, <1>2, <1>3, <1>4 DEF Next, Pass

(* Two radios that hear nobody else end up neither on one channel nor on   *)
(* adjacent ones, whatever they were on and however busy.                  *)
THEOREM PairsEndApart == Spec => []PairsSpread
<1>1. Init => PairsSpread
  BY DEF Init, PairsSpread
<1> QED BY <1>1, PairsStep, PlansWellFormed, PTL DEF Spec

-----------------------------------------------------------------------------
(* The contention of the band.                                             *)

(* Radios that are tuned are on a number.                                  *)
LEMMA TunedToNumbers ==
  ASSUME TypeOK, phase = "planning", NEW e \in Tuned
  PROVE  Heard(e) \in Int /\ e \in DOMAIN fleet /\ e \in Nat
<1>1. e \in DOMAIN fleet /\ Heard(e) # None
  BY DEF Tuned
<1>2. CASE e \in DOMAIN plan
  BY <1>1, <1>2, OfferedAreNumbers, DevIdsAssumption DEF TypeOK, Heard
<1>3. CASE e \notin DOMAIN plan
  <2>1. fleet[e].channel \in Channels \cup {None}
    BY <1>1 DEF TypeOK, RadioInput
  <2> QED BY <1>1, <1>3, <2>1, ChannelsAssumption, DevIdsAssumption DEF TypeOK, Heard
<1> QED BY <1>2, <1>3

(* What is summed up are finitely many numbers.                            *)
LEMMA BandIsFinite ==
  ASSUME TypeOK
  PROVE  /\ IsFiniteSet(Tuned) /\ IsFiniteSet(Pairs)
         /\ \A e \in Tuned : Suffers[e] \in Int
         /\ \A p \in Pairs : Overlaps[p] \in Int
<1>1. IsFiniteSet(Tuned) /\ Tuned \subseteq DOMAIN fleet
  BY DevIdsAssumption, FS_Subset DEF TypeOK, Tuned
<1>2. IsFiniteSet(Pairs)
  <2>1. IsFiniteSet(Tuned \X Tuned)
    BY <1>1, FS_Product
  <2> QED BY <2>1, FS_Subset DEF Pairs
<1>3. ASSUME NEW e \in Tuned PROVE Suffers[e] \in Int
  <2>1. Own(fleet[e], Heard(e)) \in Int
    BY <1>1, OwnAtLeast DEF TypeOK
  <2> QED BY <2>1 DEF Suffers
<1>4. \A p \in Pairs : Overlaps[p] \in Int
  BY DEF Overlaps, Weight
<1> QED BY <1>1, <1>2, <1>3, <1>4

(* The pairs of d with the radios of N.                                    *)
With(d, N) ==
  {p \in Pairs : (p[1] = d /\ p[2] \in N) \/ (p[2] = d /\ p[1] \in N)}

(* A neighbour more is a pair more, and weighs what the cost says.         *)
LEMMA OneMorePair ==
  ASSUME TypeOK, phase = "planning", NEW d \in Tuned,
         NEW N, N \subseteq Neighbors(d) \cap Tuned, NEW e \in N
  PROVE  \E q \in With(d, N) :
           /\ With(d, N) \ {q} = With(d, N \ {e})
           /\ Overlaps[q] = (IF e \in OnChannel(d, Heard(d)) THEN 25 ELSE 0)
                              + (IF e \in Beside(d, Heard(d)) THEN 10 ELSE 0)
<1> DEFINE q == IF d < e THEN <<d, e>> ELSE <<e, d>>
<1>1. /\ d \in DOMAIN fleet /\ d \in Nat /\ Heard(d) \in Int
      /\ e \in DOMAIN fleet /\ e \in Nat /\ Heard(e) \in Int
      /\ e \in Tuned /\ e # d /\ fleet[e].site = fleet[d].site
  BY TunedToNumbers DEF Neighbors
<1>2. /\ e \in Neighbors(d) /\ d \in Neighbors(e)
  BY <1>1 DEF Neighbors
<1>3. Heard(e) # None
  BY <1>1 DEF Tuned
<1>4. q \in Pairs
  BY <1>1, <1>2 DEF Pairs
<1>5. q \in With(d, N)
  BY <1>4 DEF With
<1>6. With(d, N) \ {q} = With(d, N \ {e})
  <2>1. \A p \in Pairs : /\ p = <<p[1], p[2]>> /\ p[1] < p[2]
                         /\ p[1] \in Nat /\ p[2] \in Nat
    BY TunedToNumbers DEF Pairs
  <2>2. ASSUME NEW p \in With(d, N), p # q PROVE p \in With(d, N \ {e})
    <3>1. CASE p[1] = d /\ p[2] = e
      BY <1>1, <2>1, <2>2, <3>1 DEF With
    <3>2. CASE p[2] = d /\ p[1] = e
      BY <1>1, <2>1, <2>2, <3>2 DEF With
    <3> QED BY <3>1, <3>2 DEF With
  <2>3. ASSUME NEW p \in With(d, N \ {e}) PROVE p \in With(d, N) /\ p # q
    BY <1>1 DEF With
  <2> QED BY <2>2, <2>3
<1>7. Overlaps[q] = Weight(Heard(d), Heard(e))
  <2>1. Weight(Heard(d), Heard(e)) = Weight(Heard(e), Heard(d))
    BY <1>1 DEF Weight, IsAdjacent
  <2>2. Overlaps[q] = Weight(Heard(q[1]), Heard(q[2]))
    BY <1>4 DEF Overlaps
  <2> QED BY <2>1, <2>2
<1>8. /\ e \in OnChannel(d, Heard(d)) <=> Heard(d) = Heard(e)
      /\ e \in Beside(d, Heard(d)) <=> IsAdjacent(Heard(d), Heard(e))
  BY <1>1, <1>2, <1>3 DEF OnChannel, Beside, IsAdjacent
<1>9. Overlaps[q] = (IF e \in OnChannel(d, Heard(d)) THEN 25 ELSE 0)
                      + (IF e \in Beside(d, Heard(d)) THEN 10 ELSE 0)
  BY <1>7, <1>8 DEF Weight, IsAdjacent
<1> QED BY <1>5, <1>6, <1>9

(* A set loses one by an element that is in it.                            *)
LEMMA CountWithout ==
  ASSUME NEW S, IsFiniteSet(S), NEW N, NEW e \in N
  PROVE  /\ Cardinality(N \cap S) \in Nat /\ Cardinality((N \ {e}) \cap S) \in Nat
         /\ Cardinality(N \cap S)
              = Cardinality((N \ {e}) \cap S) + (IF e \in S THEN 1 ELSE 0)
<1>1. IsFiniteSet(N \cap S) /\ IsFiniteSet((N \ {e}) \cap S)
  BY FS_Subset
<1>2. Cardinality(N \cap S) \in Nat /\ Cardinality((N \ {e}) \cap S) \in Nat
  BY <1>1, FS_CardinalityType
<1>3. CASE e \in S
  <2>1. (N \cap S) \ {e} = (N \ {e}) \cap S /\ e \in N \cap S
    BY <1>3
  <2>2. Cardinality((N \cap S) \ {e}) = Cardinality(N \cap S) - 1
    BY <1>1, <2>1, FS_RemoveElement
  <2> QED BY <1>2, <1>3, <2>1, <2>2
<1>4. CASE e \notin S
  <2>1. N \cap S = (N \ {e}) \cap S
    BY <1>4
  <2> QED BY <1>2, <1>4, <2>1
<1> QED BY <1>2, <1>3, <1>4

(* The pairs of a radio with others weigh what they add to its cost.       *)
LEMMA PairsWeigh ==
  ASSUME TypeOK, phase = "planning", NEW d \in Tuned,
         NEW N, N \subseteq Neighbors(d) \cap Tuned
  PROVE  SumOver(Overlaps, With(d, N))
           = 25 * Cardinality(N \cap OnChannel(d, Heard(d)))
               + 10 * Cardinality(N \cap Beside(d, Heard(d)))
<1> DEFINE On == OnChannel(d, Heard(d))
           Near == Beside(d, Heard(d))
           Count(U) == 25 * Cardinality(U \cap On) + 10 * Cardinality(U \cap Near)
           B == {U \in SUBSET N : SumOver(Overlaps, With(d, U)) # Count(U)}
<1>1. /\ IsFiniteSet(N) /\ IsFiniteSet(On) /\ IsFiniteSet(Near)
  <2>1. IsFiniteSet(Neighbors(d))
    BY DevIdsAssumption, FS_Subset DEF TypeOK, Neighbors
  <2> QED BY <2>1, FS_Subset DEF OnChannel, Beside
<1>2. ASSUME NEW U
      PROVE  /\ IsFiniteSet(With(d, U))
             /\ \A p \in With(d, U) : Overlaps[p] \in Int
             /\ SumOver(Overlaps, With(d, U)) \in Int
  <2>1. IsFiniteSet(With(d, U)) /\ \A p \in With(d, U) : Overlaps[p] \in Int
    BY BandIsFinite, FS_Subset DEF With
  <2> QED BY <2>1, SumType
<1>3. SUFFICES ASSUME B # {} PROVE FALSE
  OBVIOUS
<1>4. PICK T \in B : \A U \in SUBSET T : U \in B => U = T
  <2> HIDE DEF B
  <2>1. B \subseteq SUBSET N
    BY DEF B
  <2> QED BY <1>1, <1>3, <2>1, MinimalSubset
<1>5. T # {}
  <2>1. SumOver(Overlaps, With(d, {})) = 0
    <3>1. With(d, {}) = {}
      BY DEF With
    <3> QED BY <3>1, SumEmpty
  <2>2. Count({}) = 0
    <3>1. {} \cap On = {} /\ {} \cap Near = {}
      OBVIOUS
    <3> HIDE DEF On, Near
    <3> QED BY <3>1, FS_EmptySet
  <2> HIDE DEF Count
  <2> QED BY <2>1, <2>2
<1>6. PICK e : e \in T
  BY <1>5
<1> DEFINE U == T \ {e}
<1>7. SumOver(Overlaps, With(d, U)) = Count(U)
  <2>1. U \in SUBSET T /\ U # T /\ U \in SUBSET N
    BY <1>6
  <2>2. U \notin B
    <3> HIDE DEF B, U
    <3> QED BY <1>4, <2>1
  <2> QED BY <2>1, <2>2
<1>8. PICK q \in With(d, T) :
        /\ With(d, T) \ {q} = With(d, U)
        /\ Overlaps[q] = (IF e \in On THEN 25 ELSE 0) + (IF e \in Near THEN 10 ELSE 0)
  <2>1. T \subseteq Neighbors(d) \cap Tuned
    OBVIOUS
  <2> QED BY <1>6, <2>1, OneMorePair
<1>9. SumOver(Overlaps, With(d, T)) = Overlaps[q] + SumOver(Overlaps, With(d, U))
  <2> DEFINE W == With(d, T)
  <2>1. IsFiniteSet(W) /\ (\A p \in W : Overlaps[p] \in Int) /\ q \in W
    BY <1>2, <1>8
  <2> HIDE DEF W, U
  <2>2. SumOver(Overlaps, W) = Overlaps[q] + SumOver(Overlaps, W \ {q})
    BY <2>1, SumTakeOut
  <2> QED BY <1>8, <2>2 DEF W
<1>10. /\ Cardinality(T \cap On) \in Nat /\ Cardinality(U \cap On) \in Nat
       /\ Cardinality(T \cap Near) \in Nat /\ Cardinality(U \cap Near) \in Nat
       /\ Cardinality(T \cap On) = Cardinality(U \cap On) + (IF e \in On THEN 1 ELSE 0)
       /\ Cardinality(T \cap Near) = Cardinality(U \cap Near) + (IF e \in Near THEN 1 ELSE 0)
  <2> HIDE DEF On, Near
  <2> QED BY <1>1, <1>6, CountWithout
<1>11. SumOver(Overlaps, With(d, T)) # Count(T)
  OBVIOUS
<1> HIDE DEF On, Near, U, B
<1> QED BY <1>7, <1>8, <1>9, <1>10, <1>11

(* The contention is the cost of a radio's channel and what the others     *)
(* suffer without it.                                                      *)
LEMMA ContentionSplit ==
  TypeOK /\ phase = "planning" =>
    \A d \in Tuned :
      Contention = ChannelCost(d, Heard(d))
                     + (SumOver(Suffers, Tuned \ {d})
                          + SumOver(Overlaps, Pairs \ With(d, Tuned)))
<1> SUFFICES ASSUME TypeOK, phase = "planning", NEW d \in Tuned
             PROVE  Contention = ChannelCost(d, Heard(d))
                                   + (SumOver(Suffers, Tuned \ {d})
                                        + SumOver(Overlaps, Pairs \ With(d, Tuned)))
  OBVIOUS
<1> DEFINE N == Neighbors(d) \cap Tuned
           On == OnChannel(d, Heard(d))
           Near == Beside(d, Heard(d))
<1>1. Contention = SumOver(Suffers, Tuned) + SumOver(Overlaps, Pairs)
  BY DEF Contention, SumOver
<1>2. SumOver(Suffers, Tuned) = Own(fleet[d], Heard(d)) + SumOver(Suffers, Tuned \ {d})
  <2>1. Suffers[d] = Own(fleet[d], Heard(d))
    BY DEF Suffers
  <2> QED BY <2>1, BandIsFinite, SumTakeOut
<1>3. With(d, Tuned) = With(d, N) /\ With(d, N) \subseteq Pairs
  <2>1. \A p \in Pairs : /\ p[1] \in Tuned /\ p[2] \in Tuned
                         /\ p[2] \in Neighbors(p[1]) /\ p[1] \in Neighbors(p[2])
    BY DEF Pairs, Neighbors, Tuned
  <2> QED BY <2>1 DEF With
<1>4. SumOver(Overlaps, Pairs)
        = SumOver(Overlaps, With(d, N)) + SumOver(Overlaps, Pairs \ With(d, N))
  <2> DEFINE W == With(d, N)
  <2>1. W \subseteq Pairs /\ IsFiniteSet(Pairs) /\ \A p \in Pairs : Overlaps[p] \in Int
    BY <1>3, BandIsFinite
  <2> HIDE DEF W
  <2>2. SumOver(Overlaps, Pairs) = SumOver(Overlaps, W) + SumOver(Overlaps, Pairs \ W)
    BY <2>1, SumSplit
  <2> QED BY <2>2 DEF W
<1>5. SumOver(Overlaps, With(d, N)) = 25 * Cardinality(On) + 10 * Cardinality(Near)
  <2>1. N \cap On = On /\ N \cap Near = Near
    <3>1. Heard(d) # None
      BY DEF Tuned
    <3> QED BY <3>1 DEF OnChannel, Beside, Neighbors, Tuned
  <2>2. SumOver(Overlaps, With(d, N))
          = 25 * Cardinality(N \cap On) + 10 * Cardinality(N \cap Near)
    BY PairsWeigh
  <2> QED BY <2>1, <2>2
<1>6. /\ SumOver(Suffers, Tuned \ {d}) \in Int
      /\ SumOver(Overlaps, Pairs \ With(d, N)) \in Int
      /\ Own(fleet[d], Heard(d)) \in Int
      /\ Cardinality(On) \in Nat /\ Cardinality(Near) \in Nat
  <2>1. /\ IsFiniteSet(Tuned \ {d}) /\ \A e \in Tuned \ {d} : Suffers[e] \in Int
        /\ IsFiniteSet(Pairs \ With(d, N))
        /\ \A p \in Pairs \ With(d, N) : Overlaps[p] \in Int
    BY BandIsFinite, FS_Subset
  <2>2. Own(fleet[d], Heard(d)) \in Int
    BY OwnAtLeast DEF TypeOK, Tuned
  <2> QED BY <2>1, <2>2, SumType, Countable
<1> HIDE DEF N, On, Near
<1>7. ChannelCost(d, Heard(d))
        = Own(fleet[d], Heard(d)) + 25 * Cardinality(On) + 10 * Cardinality(Near)
  BY DEF ChannelCost, On, Near
<1> QED BY <1>1, <1>2, <1>3, <1>4, <1>5, <1>6, <1>7

(* The same after a step.                                                  *)
LEMMA ContentionSplitAfter ==
  (TypeOK /\ phase = "planning" =>
    \A d \in Tuned :
      Contention = ChannelCost(d, Heard(d))
                     + (SumOver(Suffers, Tuned \ {d})
                          + SumOver(Overlaps, Pairs \ With(d, Tuned))))'
BY ContentionSplit, PTL

(* A placement changes what one radio is heard on, and takes no more       *)
(* costly channel for it than the one it had.                              *)
LEMMA PlacementHelps ==
  ASSUME TypeOK, TypeOK', NEW d \in Left, NEW c, Assign(d, c),
         fleet[d].channel \in Offered
  PROVE  Contention' <= Contention
<1>1. /\ phase = "planning" /\ UNCHANGED <<phase, fleet, ask>>
      /\ DOMAIN plan' = DOMAIN plan \cup {d}
      /\ \A e \in DOMAIN plan : plan'[e] = plan[e]
      /\ plan'[d].channel = c /\ IsBest(d, c)
      /\ d \in DOMAIN fleet /\ d \notin DOMAIN plan
  BY DEF Assign, Left
<1>2. c \in Offered /\ ChannelCost(d, c) <= ChannelCost(d, fleet[d].channel)
  BY <1>1, BestIsCheapest
<1>3. /\ \A e : e # d => Heard(e)' = Heard(e)
      /\ Heard(d)' = c /\ Heard(d) = fleet[d].channel
  BY <1>1 DEF Heard
<1>4. c # None /\ fleet[d].channel # None
  BY <1>2, OfferedAreNumbers, ChannelsAssumption
<1>5. d \in Tuned /\ Tuned' = Tuned
  BY <1>1, <1>3, <1>4 DEF Tuned
<1>6. /\ \A e : Neighbors(e)' = Neighbors(e)
      /\ d \notin Neighbors(d)
  BY <1>1 DEF Neighbors
<1>7. Pairs' = Pairs /\ With(d, Tuned)' = With(d, Tuned)
  BY <1>5, <1>6 DEF Pairs, With
<1>8. ChannelCost(d, Heard(d))' = ChannelCost(d, c)
  <2>1. Own(fleet[d], Heard(d))' = Own(fleet[d], c)
    BY <1>1, <1>3 DEF Own, Util, Noise
  <2>2. OnChannel(d, Heard(d))' = OnChannel(d, c)
    BY <1>3, <1>6 DEF OnChannel
  <2>3. Beside(d, Heard(d))' = Beside(d, c)
    BY <1>3, <1>6 DEF Beside, IsAdjacent
  <2> QED BY <2>1, <2>2, <2>3 DEF ChannelCost
<1>9. SumOver(Suffers', Tuned \ {d}) = SumOver(Suffers, Tuned \ {d})
  <2>1. IsFiniteSet(Tuned \ {d}) /\ \A e \in Tuned \ {d} : Suffers[e] \in Int
    BY BandIsFinite, FS_Subset
  <2>2. \A e \in Tuned \ {d} : Suffers'[e] = Suffers[e]
    BY <1>1, <1>3, <1>5 DEF Suffers, Own, Util, Noise
  <2> QED BY <2>1, <2>2, SumsAgree
<1>10. SumOver(Overlaps', Pairs \ With(d, Tuned))
         = SumOver(Overlaps, Pairs \ With(d, Tuned))
  <2> DEFINE Rest == Pairs \ With(d, Tuned)
  <2>1. IsFiniteSet(Rest) /\ \A p \in Rest : Overlaps[p] \in Int
    BY BandIsFinite, FS_Subset
  <2>2. \A p \in Rest : p[1] # d /\ p[2] # d
    BY <1>5 DEF With, Pairs
  <2>3. \A p \in Rest : Overlaps'[p] = Overlaps[p]
    BY <1>3, <1>7, <2>2 DEF Overlaps, Weight, IsAdjacent
  <2> HIDE DEF Rest
  <2> QED BY <2>1, <2>3, SumsAgree DEF Rest
<1> DEFINE rest == SumOver(Suffers, Tuned \ {d})
                     + SumOver(Overlaps, Pairs \ With(d, Tuned))
<1>11. Contention = ChannelCost(d, fleet[d].channel) + rest
  BY <1>1, <1>3, <1>5, ContentionSplit
<1>12. Contention' = ChannelCost(d, c) + rest
  <2>1. TypeOK' /\ phase' = "planning" /\ d \in Tuned'
    BY <1>1, <1>5
  <2>2. Contention' = (ChannelCost(d, Heard(d)))'
                        + ((SumOver(Suffers, Tuned \ {d}))'
                             + (SumOver(Overlaps, Pairs \ With(d, Tuned)))')
    BY <2>1, ContentionSplitAfter
  <2>3. /\ (SumOver(Suffers, Tuned \ {d}))' = SumOver(Suffers', Tuned' \ {d})
        /\ (SumOver(Overlaps, Pairs \ With(d, Tuned)))'
             = SumOver(Overlaps', Pairs' \ (With(d, Tuned))')
    OBVIOUS
  <2> QED BY <1>5, <1>7, <1>8, <1>9, <1>10, <2>2, <2>3
<1>13. /\ rest \in Int
       /\ ChannelCost(d, c) \in Int /\ ChannelCost(d, fleet[d].channel) \in Int
  <2>1. /\ IsFiniteSet(Tuned \ {d}) /\ \A e \in Tuned \ {d} : Suffers[e] \in Int
        /\ IsFiniteSet(Pairs \ With(d, Tuned))
        /\ \A p \in Pairs \ With(d, Tuned) : Overlaps[p] \in Int
    BY BandIsFinite, FS_Subset
  <2>2. SumOver(Suffers, Tuned \ {d}) \in Int
        /\ SumOver(Overlaps, Pairs \ With(d, Tuned)) \in Int
    BY <2>1, SumType
  <2>3. ASSUME NEW x PROVE ChannelCost(d, x) \in Int
    <3>1. Own(fleet[d], x) \in Int
      BY <1>1, OwnAtLeast DEF TypeOK
    <3>2. Cardinality(OnChannel(d, x)) \in Nat /\ Cardinality(Beside(d, x)) \in Nat
      BY Countable
    <3> QED BY <3>1, <3>2 DEF ChannelCost
  <2> QED BY <2>2, <2>3
<1> HIDE DEF rest
<1> QED BY <1>2, <1>11, <1>12, <1>13

(* Moving a radio for its own good leaves the total of what the band       *)
(* suffers no higher, if the radio was on a channel it could have kept.    *)
THEOREM ContentionStaysDown == Spec => ContentionNeverGrows
<1> DEFINE Helps(d) ==
      Planned(d) /\ fleet[d].channel \in Offered => Contention' <= Contention
<1>1. ASSUME TypeOK, TypeOK', [Next]_vars, NEW d \in DevIds
      PROVE  Helps(d)
  <2> SUFFICES ASSUME Planned(d), fleet[d].channel \in Offered
               PROVE  Contention' <= Contention
    OBVIOUS
  <2>1. PICK c : Assign(d, c) /\ plan'[d].channel = c
    BY <1>1, PlannedByAssign
  <2> QED BY <1>1, <2>1, PlacementHelps DEF Planned
<1>2. TypeOK /\ TypeOK' /\ [Next]_vars => [\A d \in DevIds : Helps(d)]_vars
  BY <1>1
<1> QED BY <1>2, PlansWellFormed, PTL DEF Spec, ContentionNeverGrows
=============================================================================
