-------------------------- MODULE SwitchPortsProofs --------------------------
(***************************************************************************)
(* For any number of requests, switches, ports and VLANs: no number is     *)
(* given to two VLANs and no port is without its switch.                   *)
(***************************************************************************)
EXTENDS SwitchPorts, Sums, FiniteSetTheorems, TLAPS

Columns == {"device", "name", "desc", "mode", "access", "link"}

(* What the flush found free stays free until the commit: it holds the     *)
(* write lock.                                                             *)
Granted(s) ==
  /\ \A i \in NewVlans(s) : s.scan.vlans[i] \notin Known
  /\ NewPorts(s) # {} => s.dev \in switches

Sessions ==
  /\ sess = [h \in Handlers |-> sess[h]]
  /\ \A h \in Handlers :
       /\ sess[h].pc \in {"vlans", "apply", "flushed"} => sess[h].scan \in Scans
       /\ sess[h].pc = "flushed" => Granted(sess[h])
  /\ \A h, g \in Handlers :
       sess[h].pc = "flushed" /\ sess[g].pc = "flushed" => h = g

Vlans ==
  /\ vlans = [i \in DOMAIN vlans |-> vlans[i]]
  /\ DOMAIN vlans \subseteq Nat
  /\ UniqueVlan

Ports ==
  /\ ports = [i \in DOMAIN ports |-> ports[i]]
  /\ DOMAIN ports \subseteq Nat
  /\ \A i \in DOMAIN ports : DOMAIN ports[i] = Columns
  /\ NoOrphanPorts

IInv == Sessions /\ Vlans /\ Ports

-----------------------------------------------------------------------------
(* Rows.                                                                   *)

(* A position of a finite sequence has finitely many before it.            *)
LEMMA PlaceIsNat ==
  ASSUME NEW q, q \in Seq(Vids) \cup Seq(Report), NEW S, S \subseteq DOMAIN q,
         NEW i \in S
  PROVE  Place(S, i) \in Nat
<1>1. Len(q) \in Nat /\ DOMAIN q = 1 .. Len(q)
  OBVIOUS
<1>2. IsFiniteSet(DOMAIN q)
  BY <1>1, FS_Interval
<1>3. IsFiniteSet({j \in S : j < i})
  BY <1>2, FS_Subset
<1> QED BY <1>3, FS_CardinalityType DEF Place

(* A flush keeps the device of a port, and its columns.                    *)
LEMMA FlushKeepsDevice ==
  ASSUME NEW loaded, NEW new, NEW row, DOMAIN row = Columns
  PROVE  /\ DOMAIN FlushPort(loaded, new, row) = Columns
         /\ FlushPort(loaded, new, row).device = row.device
  BY DEF FlushPort, Columns

(* What a commit of a discovery adds to vlans are the new numbers, each    *)
(* once.                                                                   *)
LEMMA AppendedVlans ==
  ASSUME IInv, NEW s, s.scan \in Scans, NEW n \in Nat, IsNextId(vlans, n),
         \A i \in NewVlans(s) : s.scan.vlans[i] \notin Known
  PROVE  \A w :
           w = [k \in DOMAIN vlans \cup {n + Place(NewVlans(s), i) : i \in NewVlans(s)} |->
                  IF k < n THEN vlans[k]
                  ELSE s.scan.vlans[CHOOSE i \in NewVlans(s) :
                                      n + Place(NewVlans(s), i) = k]]
           => /\ w = [k \in DOMAIN w |-> w[k]]
              /\ DOMAIN w \subseteq Nat
              /\ \A i, j \in DOMAIN w : i # j => w[i] # w[j]
<1>0. TAKE w
<1>w. HAVE w = [k \in DOMAIN vlans \cup {n + Place(NewVlans(s), i) : i \in NewVlans(s)} |->
                  IF k < n THEN vlans[k]
                  ELSE s.scan.vlans[CHOOSE i \in NewVlans(s) :
                                      n + Place(NewVlans(s), i) = k]]
<1> DEFINE S == NewVlans(s)
           At(k) == CHOOSE i \in S : n + Place(S, i) = k
<1>1. w = [k \in DOMAIN vlans \cup {n + Place(S, i) : i \in S} |->
             IF k < n THEN vlans[k] ELSE s.scan.vlans[At(k)]]
  BY <1>w
<1>2. DOMAIN w = DOMAIN vlans \cup {n + Place(S, i) : i \in S}
  BY <1>1
<1>3. s.scan.vlans \in Seq(Vids) /\ S \subseteq DOMAIN s.scan.vlans
  BY ScansAssumption DEF Scan, NewVlans
<1>4. \A i \in S : Place(S, i) \in Nat
  BY <1>3, PlaceIsNat
<1>5. \A k \in DOMAIN vlans : k \in Nat /\ k < n
  BY DEF IsNextId, IInv, Vlans
<1>6. ASSUME NEW k \in DOMAIN w, k \notin DOMAIN vlans
      PROVE  k \in Nat /\ ~(k < n) /\ At(k) \in S /\ n + Place(S, At(k)) = k
  <2>1. PICK i \in S : k = n + Place(S, i)
    BY <1>2, <1>6
  <2>2. At(k) \in S /\ n + Place(S, At(k)) = k
    BY <2>1
  <2> QED BY <2>1, <2>2, <1>4
<1> HIDE DEF At, S
<1>7. ASSUME NEW k \in DOMAIN w
      PROVE  /\ k \in Nat
             /\ k \in DOMAIN vlans => w[k] = vlans[k]
             /\ k \notin DOMAIN vlans => w[k] = s.scan.vlans[At(k)]
  <2>1. CASE k \in DOMAIN vlans
    BY <2>1, <1>1, <1>2, <1>5
  <2>2. CASE k \notin DOMAIN vlans
    <3>1. k \in Nat /\ ~(k < n)
      BY <2>2, <1>6
    <3> QED BY <2>2, <3>1, <1>1, <1>2
  <2> QED BY <2>1, <2>2
<1>8. ASSUME NEW k \in DOMAIN w, NEW m \in DOMAIN w, k # m
      PROVE  w[k] # w[m]
  <2>1. \A i, j \in DOMAIN vlans : i # j => vlans[i] # vlans[j]
    BY DEF IInv, Vlans, UniqueVlan
  <2>2. \A i \in S, j \in DOMAIN vlans : s.scan.vlans[i] # vlans[j]
    BY DEF S, Known
  <2>3. \A i, j \in S : i # j => s.scan.vlans[i] # s.scan.vlans[j]
    BY <1>3, ScansAssumption
  <2>4. CASE k \in DOMAIN vlans /\ m \in DOMAIN vlans
    BY <2>4, <2>1, <1>7, <1>8
  <2>5. CASE k \in DOMAIN vlans /\ m \notin DOMAIN vlans
    <3>1. At(m) \in S
      BY <2>5, <1>6
    <3> QED BY <2>5, <3>1, <2>2, <1>7
  <2>6. CASE k \notin DOMAIN vlans /\ m \in DOMAIN vlans
    <3>1. At(k) \in S
      BY <2>6, <1>6
    <3> QED BY <2>6, <3>1, <2>2, <1>7
  <2>7. CASE k \notin DOMAIN vlans /\ m \notin DOMAIN vlans
    <3>1. At(k) \in S /\ At(m) \in S /\ At(k) # At(m)
      BY <2>7, <1>6, <1>8
    <3> QED BY <2>7, <3>1, <2>3, <1>7
  <2> QED BY <2>4, <2>5, <2>6, <2>7
<1>9. w = [k \in DOMAIN w |-> w[k]]
  BY <1>1
<1> QED BY <1>7, <1>8, <1>9

(* The ports it adds are of its own device.                                *)
LEMMA AppendedPorts ==
  ASSUME NEW s, s.scan \in Scans, NEW n \in Nat, NEW table,
         DOMAIN table \subseteq Nat, \A i \in DOMAIN table : i < n,
         \A i \in DOMAIN table :
           DOMAIN table[i] = Columns /\ table[i].device \in switches,
         NewPorts(s) # {} => s.dev \in switches,
         NEW w,
         w = [k \in DOMAIN table \cup {n + Place(NewPorts(s), i) : i \in NewPorts(s)} |->
                IF k < n THEN table[k]
                ELSE NewPort(s.dev, s.scan.ports[CHOOSE i \in NewPorts(s) :
                                      n + Place(NewPorts(s), i) = k])]
  PROVE  /\ w = [k \in DOMAIN w |-> w[k]]
         /\ DOMAIN w \subseteq Nat
         /\ \A i \in DOMAIN w : DOMAIN w[i] = Columns /\ w[i].device \in switches
<1> DEFINE S == NewPorts(s)
           At(k) == CHOOSE i \in S : n + Place(S, i) = k
<1>1. w = [k \in DOMAIN table \cup {n + Place(S, i) : i \in S} |->
             IF k < n THEN table[k] ELSE NewPort(s.dev, s.scan.ports[At(k)])]
  OBVIOUS
<1>2. s.scan.ports \in Seq(Report) /\ S \subseteq DOMAIN s.scan.ports
  BY ScansAssumption DEF Scan, NewPorts
<1>3. \A i \in S : Place(S, i) \in Nat
  BY <1>2, PlaceIsNat
<1> HIDE DEF At, S
<1>4. ASSUME NEW k \in DOMAIN w
      PROVE  k \in Nat /\ DOMAIN w[k] = Columns /\ w[k].device \in switches
  <2>1. CASE k \in DOMAIN table
    BY <2>1, <1>1
  <2>2. CASE k \notin DOMAIN table
    <3>1. PICK i \in S : k = n + Place(S, i)
      BY <2>2, <1>1
    <3>2. k \in Nat /\ ~(k < n)
      BY <3>1, <1>3
    <3>3. w[k] = NewPort(s.dev, s.scan.ports[At(k)])
      BY <3>2, <1>1
    <3>4. s.dev \in switches
      <4>1. NewPorts(s) # {}
        BY <3>1 DEF S
      <4> QED BY <4>1, Zenon
    <3>5. /\ DOMAIN NewPort(s.dev, s.scan.ports[At(k)]) = Columns
          /\ NewPort(s.dev, s.scan.ports[At(k)]).device = s.dev
      BY DEF NewPort, Columns
    <3> HIDE DEF At
    <3> QED BY <3>2, <3>3, <3>4, <3>5
  <2> QED BY <2>1, <2>2
<1>5. w = [k \in DOMAIN w |-> w[k]]
  BY <1>1
<1> QED BY <1>4, <1>5

-----------------------------------------------------------------------------
(* Requests.                                                               *)

(* A step of one request leaves what the others hold.                      *)
LEMMA EnterKeeps ==
  ASSUME IInv, NEW h \in Handlers, NEW s, Enter(h, s)
  PROVE  /\ sess' = [g \in Handlers |-> sess'[g]]
         /\ sess'[h] = s
         /\ \A g \in Handlers : g # h => sess'[g] = sess[g]
  BY DEF Enter, IInv, Sessions

(* A session that is not flushed says nothing of the tables.               *)
LEMMA EnterKeepsSessions ==
  ASSUME IInv, NEW h \in Handlers, NEW s, Enter(h, s),
         s.pc # "flushed",
         s.pc \in {"vlans", "apply"} => s.scan \in Scans,
         UNCHANGED tables \/ Unlocked \/ sess[h].pc = "flushed"
  PROVE  Sessions'
<1>1. /\ sess' = [g \in Handlers |-> sess'[g]]
      /\ sess'[h] = s
      /\ \A g \in Handlers : g # h => sess'[g] = sess[g]
  BY EnterKeeps
<1>2. ASSUME NEW g \in Handlers
      PROVE  /\ sess'[g].pc \in {"vlans", "apply", "flushed"} => sess'[g].scan \in Scans
             /\ sess'[g].pc = "flushed" => Granted(sess[g])' /\ g # h
  <2>1. CASE g = h
    BY <2>1, <1>1
  <2>2. CASE g # h
    <3>1. sess'[g] = sess[g]
      BY <2>2, <1>1
    <3>2. sess[g].pc \in {"vlans", "apply", "flushed"} => sess[g].scan \in Scans
      BY DEF IInv, Sessions
    <3>3. ASSUME sess[g].pc = "flushed" PROVE Granted(sess[g])'
      <4>1. UNCHANGED tables
        BY <3>3, <2>2 DEF Unlocked, IInv, Sessions
      <4>2. Granted(sess[g])
        BY <3>3 DEF IInv, Sessions
      <4> QED BY <4>1, <4>2, <3>1
            DEF tables, Granted, NewVlans, NewPorts, Known, ByName
    <3> QED BY <3>1, <3>2, <3>3, <2>2
  <2> QED BY <2>1, <2>2
<1>3. \A g \in Handlers : sess'[g].pc = "flushed" => sess[g].pc = "flushed"
  BY <1>1, <1>2
<1> QED BY <1>1, <1>2, <1>3 DEF IInv, Sessions

LEMMA IdleIsNoDiscovery == Idle.pc \notin {"vlans", "apply", "flushed"}
  BY DEF Idle

(* A request that ends without a write.                                    *)
LEMMA LeaveKeeps ==
  ASSUME IInv, NEW h \in Handlers, Leave(h),
         UNCHANGED tables \/ Unlocked \/ sess[h].pc = "flushed"
  PROVE  Sessions'
  BY IdleIsNoDiscovery, EnterKeepsSessions DEF Leave

(* Nothing is written.                                                     *)
LEMMA TablesKeep ==
  ASSUME IInv, UNCHANGED tables
  PROVE  Vlans' /\ Ports'
  BY DEF IInv, tables, Vlans, Ports, UniqueVlan, NoOrphanPorts

(* A request arrives, or a walk ends: rows are looked up, none is written. *)
LEMMA LookupKeeps ==
  ASSUME IInv, NEW h \in Handlers, NEW s, Enter(h, s), UNCHANGED tables,
         s.pc # "flushed", s.pc \in {"vlans", "apply"} => s.scan \in Scans
  PROVE  IInv'
  BY EnterKeepsSessions, TablesKeep DEF IInv

LEMMA ArrivalKeeps ==
  ASSUME IInv, NEW h \in Handlers, Arrival(h)
  PROVE  IInv'
<1>1. ASSUME NEW d, DiscoverGet(h, d) PROVE IInv'
  <2> DEFINE s == [pc |-> "walk", dev |-> d]
  <2>1. Enter(h, s) /\ UNCHANGED tables /\ s.pc = "walk"
    BY <1>1 DEF DiscoverGet, Arrives
  <2> HIDE DEF s
  <2> QED BY <2>1, LookupKeeps
<1>2. ASSUME NEW d, NEW form, PortAddGet(h, d, form) PROVE IInv'
  <2> DEFINE s == [pc |-> "add port", dev |-> d, form |-> form]
  <2>1. Enter(h, s) /\ UNCHANGED tables /\ s.pc = "add port"
    BY <1>2 DEF PortAddGet, Arrives
  <2> HIDE DEF s
  <2> QED BY <2>1, LookupKeeps
<1>3. ASSUME NEW i, PortDeleteGet(h, i) PROVE IInv'
  <2> DEFINE s == [pc |-> "delete port", pk |-> i]
  <2>1. Enter(h, s) /\ UNCHANGED tables /\ s.pc = "delete port"
    BY <1>3 DEF PortDeleteGet, Arrives
  <2> HIDE DEF s
  <2> QED BY <2>1, LookupKeeps
<1>4. ASSUME NEW i, NEW form, PortEditGet(h, i, form) PROVE IInv'
  <2> DEFINE s == [pc |-> "edit port", pk |-> i, loaded |-> ports[i], form |-> form]
  <2>1. Enter(h, s) /\ UNCHANGED tables /\ s.pc = "edit port"
    BY <1>4 DEF PortEditGet, Arrives
  <2> HIDE DEF s
  <2> QED BY <2>1, LookupKeeps
<1>5. ASSUME NEW v, VlanAddCheck(h, v) PROVE IInv'
  <2> DEFINE s == [pc |-> "add vlan", vid |-> v]
  <2>1. Enter(h, s) /\ UNCHANGED tables /\ s.pc = "add vlan"
    BY <1>5 DEF VlanAddCheck, Arrives
  <2> HIDE DEF s
  <2> QED BY <2>1, LookupKeeps
<1>6. ASSUME NEW i, VlanDeleteGet(h, i) PROVE IInv'
  <2> DEFINE s == [pc |-> "delete vlan", pk |-> i]
  <2>1. Enter(h, s) /\ UNCHANGED tables /\ s.pc = "delete vlan"
    BY <1>6 DEF VlanDeleteGet, Arrives
  <2> HIDE DEF s
  <2> QED BY <2>1, LookupKeeps
<1>7. ASSUME NEW i, NEW v, VlanEditCheck(h, i, v) PROVE IInv'
  <2> DEFINE s == [pc |-> "edit vlan", pk |-> i, loaded |-> vlans[i], vid |-> v]
  <2>1. Enter(h, s) /\ UNCHANGED tables /\ s.pc = "edit vlan"
    BY <1>7 DEF VlanEditCheck, Arrives
  <2> HIDE DEF s
  <2> QED BY <2>1, LookupKeeps
<1> QED BY <1>1, <1>2, <1>3, <1>4, <1>5, <1>6, <1>7 DEF Arrival

LEMMA ReadVlansKeeps ==
  ASSUME IInv, NEW h \in Handlers, NEW scan \in Scans, ReadVlans(h, scan)
  PROVE  IInv'
<1> DEFINE s == [pc |-> "vlans", dev |-> sess[h].dev, scan |-> scan, known |-> Known]
<1>1. Enter(h, s) /\ UNCHANGED tables /\ s.pc = "vlans" /\ s.scan = scan
  BY DEF ReadVlans
<1> HIDE DEF s
<1> QED BY <1>1, LookupKeeps

LEMMA ReadPortsKeeps ==
  ASSUME IInv, NEW h \in Handlers, ReadPorts(h)
  PROVE  IInv'
<1> DEFINE s == [pc |-> "apply", dev |-> sess[h].dev, scan |-> sess[h].scan,
                 known |-> sess[h].known, loaded |-> LoadedPorts(sess[h].dev)]
<1>1. Enter(h, s) /\ UNCHANGED tables /\ s.pc = "apply" /\ s.scan = sess[h].scan
  BY DEF ReadPorts
<1>2. sess[h].scan \in Scans
  BY DEF ReadPorts, IInv, Sessions
<1> HIDE DEF s
<1> QED BY <1>1, <1>2, LookupKeeps

(* A flush that is not refused takes the write lock.                       *)
LEMMA FlushKeeps ==
  ASSUME IInv, NEW h \in Handlers, DiscoverFlush(h)
  PROVE  IInv'
<1> DEFINE s == [sess[h] EXCEPT !.pc = "flushed"]
<1>1. UNCHANGED tables /\ Unlocked /\ Enter(h, s) /\ ~Refused(sess[h])
  BY DEF DiscoverFlush
<1>2. /\ sess' = [g \in Handlers |-> sess'[g]]
      /\ sess'[h] = s
      /\ \A g \in Handlers : g # h => sess'[g] = sess[g]
  BY <1>1, EnterKeeps
<1>3. s.scan = sess[h].scan /\ s.known = sess[h].known
      /\ s.loaded = sess[h].loaded /\ s.dev = sess[h].dev
  OBVIOUS
<1>4. sess[h].scan \in Scans
  BY DEF DiscoverFlush, IInv, Sessions
<1>5. Granted(s)
  BY <1>1, <1>3 DEF Refused, Granted, NewVlans, NewPorts, ByName
<1>6. Granted(sess[h])'
  BY <1>1, <1>2, <1>5 DEF Granted, NewVlans, NewPorts, ByName, Known, tables
<1>7. ASSUME NEW g \in Handlers, g # h
      PROVE  /\ sess'[g].pc # "flushed"
             /\ sess'[g].pc \in {"vlans", "apply"} => sess'[g].scan \in Scans
  BY <1>1, <1>2, <1>7 DEF Unlocked, IInv, Sessions
<1>8. Sessions'
  BY <1>2, <1>3, <1>4, <1>6, <1>7 DEF Sessions
<1> QED BY <1>1, <1>8, TablesKeep DEF IInv

(* The commit of a discovery.                                              *)
LEMMA DiscoverCommitKeeps ==
  ASSUME IInv, NEW h \in Handlers, DiscoverCommit(h)
  PROVE  IInv'
<1> DEFINE s == sess[h]
           Updated == [i \in DOMAIN ports |->
                         IF i \in DOMAIN s.loaded
                           THEN FlushPort(s.loaded[i], Refreshed(s, i), ports[i])
                           ELSE ports[i]]
<1>1. s.pc = "flushed" /\ s.scan \in Scans /\ Granted(s) /\ UNCHANGED switches
  BY DEF DiscoverCommit, IInv, Sessions
<1>2. Sessions'
  BY <1>1, LeaveKeeps DEF DiscoverCommit
<1>3. Vlans'
  <2>1. PICK v \in VlanPks :
          /\ IsNextId(vlans, v)
          /\ vlans' = [k \in DOMAIN vlans
                               \cup {v + Place(NewVlans(s), i) : i \in NewVlans(s)} |->
                         IF k < v THEN vlans[k]
                         ELSE s.scan.vlans[CHOOSE i \in NewVlans(s) :
                                             v + Place(NewVlans(s), i) = k]]
    BY DEF DiscoverCommit, AppendRows
  <2>2. v \in Nat
    BY PksAssumption
  <2>3. \A i \in NewVlans(s) : s.scan.vlans[i] \notin Known
    BY <1>1 DEF Granted
  <2> HIDE DEF s
  <2>4. /\ vlans' = [k \in DOMAIN vlans' |-> vlans'[k]]
        /\ DOMAIN vlans' \subseteq Nat
        /\ \A i, j \in DOMAIN vlans' : i # j => vlans'[i] # vlans'[j]
    BY <1>1, <2>1, <2>2, <2>3, AppendedVlans
  <2> QED BY <2>4 DEF Vlans, UniqueVlan
<1>4. Ports'
  <2>1. PICK p \in PortPks :
          /\ IsNextId(ports, p)
          /\ ports' = [k \in DOMAIN Updated
                               \cup {p + Place(NewPorts(s), i) : i \in NewPorts(s)} |->
                         IF k < p THEN Updated[k]
                         ELSE NewPort(s.dev, s.scan.ports[CHOOSE i \in NewPorts(s) :
                                               p + Place(NewPorts(s), i) = k])]
    BY DEF DiscoverCommit, AppendRows
  <2>2. p \in Nat /\ DOMAIN Updated = DOMAIN ports
    BY PksAssumption
  <2>3. DOMAIN Updated \subseteq Nat /\ \A i \in DOMAIN Updated : i < p
    BY <2>1, <2>2 DEF IsNextId, IInv, Ports
  <2>4. \A i \in DOMAIN Updated :
          DOMAIN Updated[i] = Columns /\ Updated[i].device \in switches
    BY FlushKeepsDevice DEF IInv, Ports, NoOrphanPorts
  <2>5. NewPorts(s) # {} => s.dev \in switches
    BY <1>1 DEF Granted
  <2> HIDE DEF s, Updated
  <2>6. /\ ports' = [k \in DOMAIN ports' |-> ports'[k]]
        /\ DOMAIN ports' \subseteq Nat
        /\ \A i \in DOMAIN ports' :
             DOMAIN ports'[i] = Columns /\ ports'[i].device \in switches
    BY <1>1, <2>1, <2>2, <2>3, <2>4, <2>5, AppendedPorts
  <2> QED BY <1>1, <2>6 DEF Ports, NoOrphanPorts
<1> QED BY <1>2, <1>3, <1>4 DEF IInv

(* A discovery that is refused or gets no answer, a wait that is too long. *)
LEMMA EmptyHandedKeeps ==
  ASSUME IInv, NEW h \in Handlers,
         DiscoverRefused(h) \/ Silent(h) \/ Abort(h)
  PROVE  IInv'
<1>1. UNCHANGED tables /\ Leave(h)
  BY DEF DiscoverRefused, Silent, Abort
<1> QED BY <1>1, LeaveKeeps, TablesKeep DEF IInv

-----------------------------------------------------------------------------
(* Forms and devices.                                                      *)

LEMMA PortAddKeeps ==
  ASSUME IInv, NEW h \in Handlers, PortAddCommit(h)
  PROVE  IInv'
<1> DEFINE s   == sess[h]
           row == [device |-> s.dev, name |-> s.form.name, desc |-> s.form.desc,
                   mode |-> s.form.mode, access |-> s.form.access,
                   link |-> s.form.link]
<1>1. Sessions' /\ Vlans'
  BY LeaveKeeps DEF PortAddCommit, IInv, Vlans, UniqueVlan
<1>2. DOMAIN row = Columns /\ row.device = s.dev
  BY DEF Columns
<1>3. CASE s.dev \in switches
  <2>1. PICK p \in PortPks : ports' = Insert(ports, p, row)
    BY <1>3 DEF PortAddCommit
  <2>2. p \in Nat /\ UNCHANGED switches
    BY PksAssumption DEF PortAddCommit
  <2> HIDE DEF row
  <2> QED BY <1>1, <1>2, <1>3, <2>1, <2>2 DEF Insert, IInv, Ports, NoOrphanPorts
<1>4. CASE s.dev \notin switches
  BY <1>1, <1>4 DEF PortAddCommit, IInv, Ports, NoOrphanPorts
<1> QED BY <1>3, <1>4

LEMMA PortEditKeeps ==
  ASSUME IInv, NEW h \in Handlers, PortEditCommit(h)
  PROVE  IInv'
<1>1. Sessions' /\ Vlans'
  BY LeaveKeeps DEF PortEditCommit, IInv, Vlans, UniqueVlan
<1>2. PICK loaded, new :
        ports' = IF sess[h].pk \in DOMAIN ports
                   THEN [ports EXCEPT ![sess[h].pk] = FlushPort(loaded, new, @)]
                   ELSE ports
  BY DEF PortEditCommit
<1>3. \A i \in DOMAIN ports :
        /\ DOMAIN FlushPort(loaded, new, ports[i]) = Columns
        /\ FlushPort(loaded, new, ports[i]).device = ports[i].device
  BY FlushKeepsDevice DEF IInv, Ports
<1>4. UNCHANGED switches
  BY DEF PortEditCommit
<1> QED BY <1>1, <1>2, <1>3, <1>4 DEF IInv, Ports, NoOrphanPorts

LEMMA PortDeleteKeeps ==
  ASSUME IInv, NEW h \in Handlers, PortDeleteCommit(h)
  PROVE  IInv'
<1>1. Sessions' /\ Vlans'
  BY LeaveKeeps DEF PortDeleteCommit, IInv, Vlans, UniqueVlan
<1>2. ports' = [i \in DOMAIN ports \ {sess[h].pk} |-> ports[i]] /\ UNCHANGED switches
  BY DEF PortDeleteCommit, Without, Restrict
<1> QED BY <1>1, <1>2 DEF IInv, Ports, NoOrphanPorts

LEMMA VlanAddKeeps ==
  ASSUME IInv, NEW h \in Handlers, VlanAddCommit(h)
  PROVE  IInv'
<1>1. Sessions' /\ Ports'
  BY LeaveKeeps DEF VlanAddCommit, IInv, Ports, NoOrphanPorts
<1>2. PICK i \in VlanPks :
        /\ IsNextId(vlans, i)
        /\ vlans' = IF VidFree(i, sess[h].vid) THEN Insert(vlans, i, sess[h].vid) ELSE vlans
  BY DEF VlanAddCommit
<1>3. i \in Nat
  BY PksAssumption
<1>4. CASE VidFree(i, sess[h].vid)
  <2> DEFINE v == sess[h].vid
  <2>1. vlans' = [j \in DOMAIN vlans \cup {i} |-> IF j = i THEN v ELSE vlans[j]]
    BY <1>2, <1>4 DEF Insert
  <2>2. \A j \in DOMAIN vlans : vlans[j] = v => j = i
    BY <1>4 DEF VidFree
  <2> HIDE DEF v
  <2>3. Vlans'
    BY <1>3, <2>1, <2>2 DEF IInv, Vlans, UniqueVlan
  <2> QED BY <1>1, <2>3 DEF IInv
<1>5. CASE ~VidFree(i, sess[h].vid)
  BY <1>1, <1>2, <1>5 DEF IInv, Vlans, UniqueVlan
<1> QED BY <1>4, <1>5

LEMMA VlanEditKeeps ==
  ASSUME IInv, NEW h \in Handlers, VlanEditCommit(h)
  PROVE  IInv'
<1>1. Sessions' /\ Ports'
  BY LeaveKeeps DEF VlanEditCommit, IInv, Ports, NoOrphanPorts
<1>2. PICK v : vlans' = IF sess[h].pk \in DOMAIN vlans /\ VidFree(sess[h].pk, v)
                          THEN [vlans EXCEPT ![sess[h].pk] = v]
                          ELSE vlans
  BY DEF VlanEditCommit
<1> QED BY <1>1, <1>2 DEF VidFree, IInv, Vlans, UniqueVlan

LEMMA VlanDeleteKeeps ==
  ASSUME IInv, NEW h \in Handlers, VlanDeleteCommit(h)
  PROVE  IInv'
<1>1. Sessions' /\ Ports'
  BY LeaveKeeps DEF VlanDeleteCommit, IInv, Ports, NoOrphanPorts
<1>2. vlans' = [i \in DOMAIN vlans \ {sess[h].pk} |-> vlans[i]]
  BY DEF VlanDeleteCommit, Without, Restrict
<1> QED BY <1>1, <1>2 DEF IInv, Vlans, UniqueVlan

(* No discovery is flushed while a device is added or goes.                *)
LEMMA SwitchesKeep ==
  ASSUME IInv, NEW d, AddSwitch(d) \/ DeleteSwitch(d)
  PROVE  IInv'
<1>1. Sessions' /\ Vlans'
  BY DEF AddSwitch, DeleteSwitch, SwitchEvent, Unlocked, IInv, Sessions, Vlans,
         UniqueVlan
<1>2. CASE AddSwitch(d)
  BY <1>1, <1>2 DEF AddSwitch, IInv, Ports, NoOrphanPorts
<1>3. CASE DeleteSwitch(d)
  <2>1. ports' = [i \in DOMAIN ports \ PortsOf(d) |-> ports[i]]
        /\ switches' = switches \ {d}
    BY <1>3 DEF DeleteSwitch, Without, Restrict, Cascade
  <2> QED BY <1>1, <2>1 DEF PortsOf, IInv, Ports, NoOrphanPorts
<1> QED BY <1>2, <1>3

-----------------------------------------------------------------------------
LEMMA InitKeeps == Init => IInv
<1> SUFFICES ASSUME Init PROVE IInv
  OBVIOUS
<1>1. Sessions
  BY DEF Init, Idle, Sessions
<1>2. Vlans
  BY StartAssumption, PksAssumption DEF Init, Vlans, UniqueVlan
<1>3. Ports
  BY StartAssumption, PksAssumption DEF Init, Ports, Port, Columns, NoOrphanPorts
<1> QED BY <1>1, <1>2, <1>3 DEF IInv

LEMMA StepKeeps == IInv /\ [Next]_vars => IInv'
<1> SUFFICES ASSUME IInv, [Next]_vars PROVE IInv'
  OBVIOUS
<1>1. CASE UNCHANGED vars
  BY <1>1 DEF vars, IInv, Sessions, Vlans, Ports, UniqueVlan, NoOrphanPorts, Granted,
              NewVlans, NewPorts, ByName, Known
<1>2. ASSUME NEW h \in Handlers, Discovery(h) PROVE IInv'
  BY <1>2, ReadVlansKeeps, ReadPortsKeeps, FlushKeeps, DiscoverCommitKeeps, EmptyHandedKeeps DEF Discovery
<1>3. ASSUME NEW h \in Handlers, Commit(h) PROVE IInv'
  BY <1>3, PortAddKeeps, PortEditKeeps, PortDeleteKeeps, VlanAddKeeps, VlanEditKeeps,
     VlanDeleteKeeps DEF Commit
<1> QED BY <1>1, <1>2, <1>3, ArrivalKeeps, EmptyHandedKeeps, SwitchesKeep DEF Next

(* No two VLANs have one number (vlans.vlan_id), whatever forms and        *)
(* discoveries come between a look for it and its write.                   *)
THEOREM VlansStayUnique == Spec => []UniqueVlan
<1>1. IInv => UniqueVlan
  BY DEF IInv, Vlans
<1> QED BY <1>1, InitKeeps, StepKeeps, PTL DEF Spec

(* Every port is of a device that exists (switch_ports.device_id), whether *)
(* a form or a discovery adds it while the device goes.                    *)
THEOREM PortsHaveSwitches == Spec => []NoOrphanPorts
<1>1. IInv => NoOrphanPorts
  BY DEF IInv, Ports
<1> QED BY <1>1, InitKeeps, StepKeeps, PTL DEF Spec

-----------------------------------------------------------------------------
(* Types.  What a request holds tells what its commit may write.           *)

SessionType(s) ==
  /\ "pc" \in DOMAIN s
  /\ s.pc \in {"idle", "walk", "vlans", "apply", "flushed"} \cup AllOps
  /\ s.pc \in {"walk", "vlans", "apply", "flushed", "add port"} => s.dev \in DevIds
  /\ s.pc \in {"vlans", "apply", "flushed"} => s.scan \in Scans
  /\ s.pc \in {"apply", "flushed"} => \A i \in DOMAIN s.loaded : s.loaded[i] \in Port
  /\ s.pc \in {"add port", "edit port"} => s.form \in PortForms
  /\ s.pc = "edit port" => s.loaded \in Port
  /\ s.pc \in {"add vlan", "edit vlan"} => s.vid \in Vids

TInv ==
  /\ TypeOK
  /\ sess = [h \in Handlers |-> sess[h]]
  /\ \A h \in Handlers : SessionType(sess[h])

(* The reports of a switch are a fold over the loaded row, the last report *)
(* taken away first.                                                       *)
Takes(s, i, k, row) ==
  IF i \in ByName(s.loaded, s.scan.ports[k].name)
    THEN Refresh(row, s.scan.ports[k]) ELSE row

Steps(s, i) ==
  [k \in DOMAIN s.scan.ports |-> [row \in Port |-> Takes(s, i, k, row)]]

Latest(s) == [w \in SUBSET DOMAIN s.scan.ports |-> Max(w)]

LEMMA ScanFields ==
  ASSUME NEW scan \in Scans
  PROVE  /\ scan.vlans \in Seq(Vids) /\ scan.ports \in Seq(Report)
         /\ \A k \in DOMAIN scan.vlans : scan.vlans[k] \in Vids
         /\ \A k \in DOMAIN scan.ports : scan.ports[k] \in Report
         /\ IsFiniteSet(DOMAIN scan.vlans) /\ DOMAIN scan.vlans \subseteq Nat
         /\ IsFiniteSet(DOMAIN scan.ports) /\ DOMAIN scan.ports \subseteq Nat
<1>1. scan.vlans \in Seq(Vids) /\ scan.ports \in Seq(Report)
  BY ScansAssumption DEF Scan
<1>2. ASSUME NEW T, NEW q \in Seq(T)
      PROVE  /\ \A k \in DOMAIN q : q[k] \in T
             /\ IsFiniteSet(DOMAIN q) /\ DOMAIN q \subseteq Nat
  <2>1. Len(q) \in Nat /\ DOMAIN q = 1 .. Len(q)
    OBVIOUS
  <2>2. IsFiniteSet(DOMAIN q)
    BY <2>1, FS_Interval
  <2> QED BY <2>1, <2>2
<1> QED BY <1>1, <1>2

LEMMA RefreshType ==
  ASSUME NEW row \in Port, NEW dp \in Report
  PROVE  Refresh(row, dp) \in Port
BY DEF Refresh, Port, Report, Links

LEMMA NewPortType ==
  ASSUME NEW d \in DevIds, NEW dp \in Report
  PROVE  NewPort(d, dp) \in Port
BY DEF NewPort, Port, Report, Links, Modes

LEMMA FlushPortType ==
  ASSUME NEW loaded \in Port, NEW new \in Port, NEW row \in Port
  PROVE  FlushPort(loaded, new, row) \in Port
<1> DEFINE name   == Kept(loaded.name, new.name, row.name)
           desc   == Kept(loaded.desc, new.desc, row.desc)
           mode   == Kept(loaded.mode, new.mode, row.mode)
           access == Kept(loaded.access, new.access, row.access)
           link   == Kept(loaded.link, new.link, row.link)
<1>1. /\ name \in Names /\ desc \in Descs \cup {None} /\ mode \in Modes
      /\ access \in Vids \cup {None} /\ link \in Links
  BY DEF Port, Kept
<1>2. FlushPort(loaded, new, row)
        = [row EXCEPT !.name = name, !.desc = desc, !.mode = mode,
                      !.access = access, !.link = link]
  BY DEF FlushPort
<1> HIDE DEF name, desc, mode, access, link
<1> QED BY <1>1, <1>2 DEF Port

LEMMA AfterPortEditType ==
  ASSUME NEW row \in Port, NEW form \in PortForms
  PROVE  AfterPortEdit(row, form) \in Port
<1>1. form \in PortForm
  BY FormsAssumption
<1> QED BY <1>1 DEF AfterPortEdit, Port, PortForm

LEMMA ReportsFold ==
  ASSUME NEW s, s.scan \in Scans, NEW i \in DOMAIN s.loaded, s.loaded[i] \in Port
  PROVE  /\ Foldable(DOMAIN s.scan.ports, Port, s.loaded[i], Steps(s, i), Latest(s))
         /\ \E g \in Foldings(Port, s.loaded[i], Steps(s, i), Latest(s),
                              DOMAIN s.scan.ports) :
              Refreshed(s, i) = g[DOMAIN s.scan.ports]
<1> DEFINE D == DOMAIN s.scan.ports
           base == s.loaded[i]
           Eq(g) == g = [w \in SUBSET D |->
                           IF w = {} THEN base
                           ELSE IF i \in ByName(s.loaded, s.scan.ports[Max(w)].name)
                                  THEN Refresh(g[w \ {Max(w)}], s.scan.ports[Max(w)])
                                  ELSE g[w \ {Max(w)}]]
           it == CHOOSE g : Eq(g)
<1>1. /\ IsFiniteSet(D) /\ D \subseteq Nat
      /\ \A k \in D : s.scan.ports[k] \in Report
  BY ScanFields
<1>2. \A w \in SUBSET D : w # {} => Max(w) \in w
  <2> SUFFICES ASSUME NEW w \in SUBSET D, w # {} PROVE Max(w) \in w
    OBVIOUS
  <2>1. IsFiniteSet(w) /\ w \subseteq Int
    BY <1>1, FS_Subset
  <2> QED BY <2>1, MaxIsMember
<1>3. \A k \in D, row \in Port : Takes(s, i, k, row) \in Port
  BY <1>1, RefreshType DEF Takes
<1>4. Foldable(D, Port, base, Steps(s, i), Latest(s))
  BY <1>1, <1>2, <1>3 DEF Foldable, Steps, Latest
<1>5. ASSUME NEW w \in SUBSET D, w # {}, NEW row \in Port
      PROVE  Steps(s, i)[Latest(s)[w]][row] = Takes(s, i, Max(w), row)
  BY <1>2, <1>5 DEF Steps, Latest
<1>6. Refreshed(s, i) = it[D]
  BY DEF Refreshed, FoldLeft, MapThenFoldSet
<1>7. \E g : Eq(g)
  <2>1. PICK g : g \in Foldings(Port, base, Steps(s, i), Latest(s), D)
    BY <1>4, FoldingExists
  <2>2. /\ g \in [SUBSET D -> Port]
        /\ \A w \in SUBSET D :
             g[w] = IF w = {} THEN base
                    ELSE Steps(s, i)[Latest(s)[w]][g[w \ {Latest(s)[w]}]]
    BY <2>1 DEF Foldings
  <2>3. ASSUME NEW w \in SUBSET D, w # {}
        PROVE  g[w] = Takes(s, i, Max(w), g[w \ {Max(w)}])
    <3>1. Latest(s)[w] = Max(w) /\ g[w \ {Max(w)}] \in Port
      BY <2>2 DEF Latest
    <3> QED BY <1>5, <2>2, <2>3, <3>1
  <2>4. Eq(g)
    BY <2>2, <2>3 DEF Takes
  <2> QED BY <2>4
<1>8. Eq(it)
  BY <1>7
<1> HIDE DEF it
<1>9. it = [w \in SUBSET D |-> it[w]] /\ it[{}] = base
  BY <1>8
<1>10. \A w \in SUBSET D : w # {} => it[w] = Takes(s, i, Max(w), it[w \ {Max(w)}])
  BY <1>8 DEF Takes
<1>11. \A w \in SUBSET D :
         w # {} /\ it[w \ {Latest(s)[w]}] \in Port
           => it[w] = Steps(s, i)[Latest(s)[w]][it[w \ {Latest(s)[w]}]]
  BY <1>5, <1>10 DEF Latest
<1>12. it \in Foldings(Port, base, Steps(s, i), Latest(s), D)
  BY <1>4, <1>9, <1>11, FoldingIsClosed
<1> QED BY <1>4, <1>6, <1>12

(* A row that reports have changed is a row.                               *)
LEMMA RefreshedType ==
  ASSUME NEW s, s.scan \in Scans, NEW i \in DOMAIN s.loaded, s.loaded[i] \in Port
  PROVE  Refreshed(s, i) \in Port
<1>1. PICK g \in Foldings(Port, s.loaded[i], Steps(s, i), Latest(s),
                          DOMAIN s.scan.ports) :
        Refreshed(s, i) = g[DOMAIN s.scan.ports]
  BY ReportsFold
<1> QED BY <1>1 DEF Foldings

-----------------------------------------------------------------------------
(* Type correctness, one step per action.                                  *)

LEMMA EnterTypes ==
  ASSUME TInv, NEW h \in Handlers, NEW s, Enter(h, s), SessionType(s)
  PROVE  /\ sess' = [g \in Handlers |-> sess'[g]]
         /\ \A g \in Handlers : SessionType(sess'[g])
BY DEF TInv, Enter

(* A request arrives or goes on without a write.                           *)
LEMMA LookupTypes ==
  ASSUME TInv, NEW h \in Handlers, NEW s, Enter(h, s), SessionType(s),
         UNCHANGED tables, events' \in 0 .. MaxEvents
  PROVE  TInv'
<1>1. /\ sess' = [g \in Handlers |-> sess'[g]]
      /\ \A g \in Handlers : SessionType(sess'[g])
  BY EnterTypes
<1>2. \A g \in Handlers :
        sess'[g].pc \in {"idle", "walk", "vlans", "apply", "flushed"} \cup AllOps
  BY <1>1 DEF SessionType
<1> QED BY <1>1, <1>2 DEF TInv, TypeOK, tables

LEMMA ArrivalTypes ==
  ASSUME TInv, NEW h \in Handlers, Arrival(h)
  PROVE  TInv'
<1>1. ASSUME NEW s, NEW op, Arrives(h, op), Enter(h, s), SessionType(s) PROVE TInv'
  <2>1. UNCHANGED tables /\ events' \in 0 .. MaxEvents
    BY <1>1, FormsAssumption DEF Arrives, TInv, TypeOK
  <2> QED BY <1>1, <2>1, LookupTypes
<1>2. ASSUME NEW d \in DevIds, DiscoverGet(h, d) PROVE TInv'
  <2> DEFINE s == [pc |-> "walk", dev |-> d]
  <2>1. SessionType(s)
    BY DEF SessionType
  <2> QED BY <1>1, <1>2, <2>1 DEF DiscoverGet
<1>3. ASSUME NEW d \in DevIds, NEW form \in PortForms, PortAddGet(h, d, form)
      PROVE  TInv'
  <2> DEFINE s == [pc |-> "add port", dev |-> d, form |-> form]
  <2>1. SessionType(s)
    BY DEF SessionType, AllOps
  <2> QED BY <1>1, <1>3, <2>1 DEF PortAddGet
<1>4. ASSUME NEW i, PortDeleteGet(h, i) PROVE TInv'
  <2> DEFINE s == [pc |-> "delete port", pk |-> i]
  <2>1. SessionType(s)
    BY DEF SessionType, AllOps
  <2> QED BY <1>1, <1>4, <2>1 DEF PortDeleteGet
<1>5. ASSUME NEW i, NEW form \in PortForms, PortEditGet(h, i, form) PROVE TInv'
  <2> DEFINE s == [pc |-> "edit port", pk |-> i, loaded |-> ports[i], form |-> form]
  <2>1. ports[i] \in Port
    BY <1>5 DEF PortEditGet, TInv, TypeOK
  <2>2. SessionType(s)
    BY <2>1 DEF SessionType, AllOps
  <2> QED BY <1>1, <1>5, <2>2 DEF PortEditGet
<1>6. ASSUME NEW v \in Vids, VlanAddCheck(h, v) PROVE TInv'
  <2> DEFINE s == [pc |-> "add vlan", vid |-> v]
  <2>1. SessionType(s)
    BY DEF SessionType, AllOps
  <2> QED BY <1>1, <1>6, <2>1 DEF VlanAddCheck
<1>7. ASSUME NEW i, VlanDeleteGet(h, i) PROVE TInv'
  <2> DEFINE s == [pc |-> "delete vlan", pk |-> i]
  <2>1. SessionType(s)
    BY DEF SessionType, AllOps
  <2> QED BY <1>1, <1>7, <2>1 DEF VlanDeleteGet
<1>8. ASSUME NEW i, NEW v \in Vids, VlanEditCheck(h, i, v) PROVE TInv'
  <2> DEFINE s == [pc |-> "edit vlan", pk |-> i, loaded |-> vlans[i], vid |-> v]
  <2>1. SessionType(s)
    BY DEF SessionType, AllOps
  <2> QED BY <1>1, <1>8, <2>1 DEF VlanEditCheck
<1> QED BY <1>2, <1>3, <1>4, <1>5, <1>6, <1>7, <1>8 DEF Arrival

(* The tables after a commit; the request is over.                         *)
LEMMA LeaveTypes ==
  ASSUME TInv, NEW h \in Handlers, Leave(h), UNCHANGED switches,
         DOMAIN vlans' \subseteq VlanPks, vlans' \in [DOMAIN vlans' -> Vids],
         DOMAIN ports' \subseteq PortPks, ports' \in [DOMAIN ports' -> Port]
  PROVE  TInv'
<1>1. SessionType(Idle)
  BY DEF SessionType, Idle
<1>2. /\ sess' = [g \in Handlers |-> sess'[g]]
      /\ \A g \in Handlers : SessionType(sess'[g])
  BY <1>1, EnterTypes DEF Leave
<1>3. \A g \in Handlers :
        sess'[g].pc \in {"idle", "walk", "vlans", "apply", "flushed"} \cup AllOps
  BY <1>2 DEF SessionType
<1> QED BY <1>2, <1>3 DEF Leave, TInv, TypeOK

(* The position that gets row id k, and a table to which the values f of   *)
(* the positions S are appended, from id n on.                             *)
PlacedAt(S, n, k) == CHOOSE i \in S : n + Place(S, i) = k

Appended(w, table, n, S, f) ==
  w = [k \in DOMAIN table \cup {n + Place(S, i) : i \in S} |->
         IF k < n THEN table[k] ELSE f[PlacedAt(S, n, k)]]

(* The old rows stay, each position has its row, and there is no other.    *)
RowsAdded(w, table, S, f) ==
  /\ w = [k \in DOMAIN w |-> w[k]]
  /\ \A k \in DOMAIN table : k \in DOMAIN w /\ w[k] = table[k]
  /\ \A i \in S : \E k \in DOMAIN w \ DOMAIN table :
       w[k] = f[i] /\ \A j \in DOMAIN w \ DOMAIN table :
                        j # k => \E m \in S \ {i} : w[j] = f[m]
  /\ \A k \in DOMAIN w \ DOMAIN table : \E i \in S : w[k] = f[i]

LEMMA PlaceInjective ==
  ASSUME NEW D, D \subseteq Nat, IsFiniteSet(D), NEW S, S \subseteq D,
         NEW i \in S, NEW j \in S, Place(S, i) = Place(S, j)
  PROVE  i = j
<1> DEFINE Before(k) == {m \in S : m < k}
<1>0. S \subseteq Nat
  OBVIOUS
<1>1. ASSUME NEW k \in S, NEW l \in S, k < l PROVE Place(S, k) # Place(S, l)
  <2>0. k \in Nat /\ l \in Nat /\ \A m \in S : m \in Nat
    BY <1>0
  <2>a. \A m \in S : m < k => m < l
    BY <1>1, <2>0
  <2>b. k < l /\ ~(k < k)
    BY <1>1, <2>0
  <2>1. Before(k) \subseteq Before(l) /\ k \in Before(l) /\ k \notin Before(k)
    BY <2>a, <2>b
  <2>2. IsFiniteSet(Before(l))
    BY FS_Subset
  <2>3. Before(k) \in SUBSET Before(l) /\ Before(k) # Before(l)
    BY <2>1
  <2> HIDE DEF Before
  <2>4. Cardinality(Before(l)) # Cardinality(Before(k))
    BY <2>2, <2>3, FS_Subset
  <2> QED BY <2>4 DEF Place, Before
<1>2. i \in Nat /\ j \in Nat
  OBVIOUS
<1> HIDE DEF Before
<1>3. ~(i < j) /\ ~(j < i)
  BY <1>1
<1> QED BY <1>2, <1>3

LEMMA AppendedRows ==
  ASSUME NEW D, D \subseteq Nat, IsFiniteSet(D), NEW S, S \subseteq D,
         NEW n \in Nat, NEW table, \A k \in DOMAIN table : k \in Nat /\ k < n,
         NEW f, NEW w, Appended(w, table, n, S, f)
  PROVE  RowsAdded(w, table, S, f)
<1>1. \A i \in S : Place(S, i) \in Nat
  <2> SUFFICES ASSUME NEW i \in S PROVE Place(S, i) \in Nat
    OBVIOUS
  <2>1. IsFiniteSet({j \in S : j < i})
    BY FS_Subset
  <2> QED BY <2>1, FS_CardinalityType DEF Place
<1>2. ASSUME NEW i \in S PROVE PlacedAt(S, n, n + Place(S, i)) = i
  <2> DEFINE j == PlacedAt(S, n, n + Place(S, i))
  <2>1. j \in S /\ n + Place(S, j) = n + Place(S, i)
    BY DEF PlacedAt
  <2> HIDE DEF j
  <2>2. Place(S, j) \in Nat /\ Place(S, i) \in Nat
    BY <1>1, <2>1
  <2>3. Place(S, j) = Place(S, i)
    BY <2>1, <2>2
  <2>4. j = i
    BY <2>1, <2>3, PlaceInjective
  <2> QED BY <2>4 DEF j
<1>3. w = [k \in DOMAIN table \cup {n + Place(S, i) : i \in S} |->
             IF k < n THEN table[k] ELSE f[PlacedAt(S, n, k)]]
  BY DEF Appended
<1>4. \A k \in DOMAIN table : k \in DOMAIN w /\ w[k] = table[k]
  BY <1>3
<1>5. ASSUME NEW i \in S
      PROVE  /\ n + Place(S, i) \in DOMAIN w \ DOMAIN table
             /\ w[n + Place(S, i)] = f[i]
  <2>1. n + Place(S, i) \in DOMAIN w /\ ~(n + Place(S, i) < n)
    BY <1>1, <1>3
  <2>2. n + Place(S, i) \notin DOMAIN table
    BY <2>1
  <2> QED BY <1>2, <1>3, <2>1, <2>2
<1>6. \A k \in DOMAIN w \ DOMAIN table : \E i \in S : k = n + Place(S, i)
  BY <1>3
<1>7. \A k \in DOMAIN w \ DOMAIN table : \E i \in S : w[k] = f[i]
  BY <1>5, <1>6
<1>8. ASSUME NEW i \in S
      PROVE  \E k \in DOMAIN w \ DOMAIN table :
               w[k] = f[i] /\ \A j \in DOMAIN w \ DOMAIN table :
                                j # k => \E m \in S \ {i} : w[j] = f[m]
  <2>1. \A j \in DOMAIN w \ DOMAIN table :
          j # n + Place(S, i) => \E m \in S \ {i} : w[j] = f[m]
    BY <1>5, <1>6
  <2> QED BY <1>5, <2>1
<1>9. w = [k \in DOMAIN w |-> w[k]]
  BY <1>3
<1> QED BY <1>4, <1>7, <1>8, <1>9 DEF RowsAdded

(* What the commit of a discovery does to the tables.                      *)
Updated(s) ==
  [i \in DOMAIN ports |->
     IF i \in DOMAIN s.loaded
       THEN FlushPort(s.loaded[i], Refreshed(s, i), ports[i]) ELSE ports[i]]

Additions(s) == [i \in DOMAIN s.scan.ports |-> NewPort(s.dev, s.scan.ports[i])]

LEMMA CommitAppends ==
  ASSUME TypeOK, NEW h \in Handlers, DiscoverCommit(h)
  PROVE  /\ \E v \in Nat :
              /\ \A k \in DOMAIN vlans : k \in Nat /\ k < v
              /\ Appended(vlans', vlans, v, NewVlans(sess[h]), sess[h].scan.vlans)
         /\ \E p \in Nat :
              /\ \A k \in DOMAIN ports : k \in Nat /\ k < p
              /\ Appended(ports', Updated(sess[h]), p, NewPorts(sess[h]),
                          Additions(sess[h]))
<1> DEFINE s == sess[h]
<1>1. PICK v \in VlanPks :
        /\ IsNextId(vlans, v)
        /\ vlans' = [k \in DOMAIN vlans
                             \cup {v + Place(NewVlans(s), i) : i \in NewVlans(s)} |->
                       IF k < v THEN vlans[k]
                       ELSE s.scan.vlans[CHOOSE i \in NewVlans(s) :
                                           v + Place(NewVlans(s), i) = k]]
  BY DEF DiscoverCommit, AppendRows
<1>2. v \in Nat /\ \A k \in DOMAIN vlans : k \in Nat /\ k < v
  BY <1>1, PksAssumption DEF IsNextId, TypeOK
<1>3. Appended(vlans', vlans, v, NewVlans(s), s.scan.vlans)
  BY <1>1 DEF Appended, PlacedAt
<1>4. PICK p \in PortPks :
        /\ IsNextId(ports, p)
        /\ ports' = [k \in DOMAIN Updated(s)
                             \cup {p + Place(NewPorts(s), i) : i \in NewPorts(s)} |->
                       IF k < p THEN Updated(s)[k]
                       ELSE NewPort(s.dev, s.scan.ports[CHOOSE i \in NewPorts(s) :
                                             p + Place(NewPorts(s), i) = k])]
  BY DEF DiscoverCommit, AppendRows, Updated
<1>5. p \in Nat /\ \A k \in DOMAIN ports : k \in Nat /\ k < p
  BY <1>4, PksAssumption DEF IsNextId, TypeOK
<1>6. ASSUME NEW k, \E i \in NewPorts(s) : p + Place(NewPorts(s), i) = k
      PROVE  Additions(s)[PlacedAt(NewPorts(s), p, k)]
               = NewPort(s.dev, s.scan.ports[PlacedAt(NewPorts(s), p, k)])
  <2>1. PlacedAt(NewPorts(s), p, k) \in DOMAIN s.scan.ports
    BY <1>6 DEF PlacedAt, NewPorts
  <2> QED BY <2>1 DEF Additions
<1> DEFINE S == NewPorts(s)  table == Updated(s)  rows == Additions(s)
<1>7. \A k \in DOMAIN table : k < p
  BY <1>5 DEF Updated
<1>8. ports' = [k \in DOMAIN table \cup {p + Place(S, i) : i \in S} |->
                  IF k < p THEN table[k] ELSE rows[PlacedAt(S, p, k)]]
  <2> HIDE DEF table, rows
  <2> QED BY <1>4, <1>6, <1>7 DEF PlacedAt, table, rows
<1>9. Appended(ports', Updated(s), p, NewPorts(s), Additions(s))
  BY <1>8 DEF Appended
<1> QED BY <1>2, <1>3, <1>5, <1>9

LEMMA DiscoveryTypes ==
  ASSUME TInv, NEW h \in Handlers, Discovery(h)
  PROVE  TInv'
<1> DEFINE s == sess[h]
<1>0. /\ TypeOK /\ SessionType(s) /\ SessionType(Idle)
      /\ events \in 0 .. MaxEvents
  BY DEF TInv, TypeOK, SessionType, Idle
<1>1. ASSUME NEW scan \in Scans, ReadVlans(h, scan) PROVE TInv'
  <2> DEFINE t == [pc |-> "vlans", dev |-> s.dev, scan |-> scan, known |-> Known]
  <2>1. SessionType(t)
    BY <1>0, <1>1 DEF SessionType, ReadVlans
  <2>2. Enter(h, t) /\ UNCHANGED <<tables, events>>
    BY <1>1 DEF ReadVlans
  <2> QED BY <1>0, <2>1, <2>2, LookupTypes
<1>5. CASE ReadPorts(h)
  <2> DEFINE t == [pc |-> "apply", dev |-> s.dev, scan |-> s.scan,
                   known |-> s.known, loaded |-> LoadedPorts(s.dev)]
  <2>1. \A i \in DOMAIN LoadedPorts(s.dev) : LoadedPorts(s.dev)[i] \in Port
    BY <1>0 DEF TypeOK, LoadedPorts, Restrict, PortsOf
  <2>2. SessionType(t)
    BY <1>0, <1>5, <2>1 DEF SessionType, ReadPorts
  <2>3. Enter(h, t) /\ UNCHANGED <<tables, events>>
    BY <1>5 DEF ReadPorts
  <2> QED BY <1>0, <2>2, <2>3, LookupTypes
<1>2. CASE DiscoverFlush(h)
  <2> DEFINE t == [s EXCEPT !.pc = "flushed"]
  <2>1. s.pc = "apply" /\ Enter(h, t) /\ UNCHANGED <<tables, events>>
    BY <1>2 DEF DiscoverFlush
  <2>2. t.dev = s.dev /\ t.scan = s.scan /\ t.loaded = s.loaded
    OBVIOUS
  <2>3. t.pc = "flushed"
    BY <2>1, <1>0 DEF SessionType
  <2>4. SessionType(t)
    BY <1>0, <2>1, <2>2, <2>3 DEF SessionType
  <2> QED BY <1>0, <2>1, <2>4, LookupTypes
<1>3. CASE DiscoverRefused(h) \/ Silent(h)
  BY <1>0, <1>3, LookupTypes DEF DiscoverRefused, Silent, Leave
<1>4. CASE DiscoverCommit(h)
  <2>1. s.scan \in Scans /\ s.dev \in DevIds
        /\ \A i \in DOMAIN s.loaded : s.loaded[i] \in Port
    BY <1>0, <1>4 DEF DiscoverCommit, SessionType
  <2>2. vlans' \in [DOMAIN vlans' -> Vids]
    <3> DEFINE D == DOMAIN s.scan.vlans  S == NewVlans(s)  f == s.scan.vlans
    <3>1. PICK v \in Nat : /\ \A k \in DOMAIN vlans : k \in Nat /\ k < v
                           /\ Appended(vlans', vlans, v, S, f)
      BY <1>0, <1>4, CommitAppends
    <3>2. D \subseteq Nat /\ IsFiniteSet(D) /\ S \subseteq D
          /\ \A i \in S : f[i] \in Vids
      BY <2>1, ScanFields DEF NewVlans
    <3>3. \A k \in DOMAIN vlans : vlans[k] \in Vids
      BY <1>0 DEF TypeOK
    <3> HIDE DEF D, S, f
    <3>4. RowsAdded(vlans', vlans, S, f)
      BY <3>1, <3>2, AppendedRows
    <3> QED BY <3>2, <3>3, <3>4 DEF RowsAdded
  <2>3. ports' \in [DOMAIN ports' -> Port]
    <3> DEFINE D == DOMAIN s.scan.ports  S == NewPorts(s)
               table == Updated(s)  f == Additions(s)
    <3>1. PICK p \in Nat : /\ \A k \in DOMAIN ports : k \in Nat /\ k < p
                           /\ Appended(ports', table, p, S, f)
      BY <1>0, <1>4, CommitAppends
    <3>2. D \subseteq Nat /\ IsFiniteSet(D) /\ S \subseteq D
          /\ \A i \in S : f[i] \in Port
      BY <2>1, ScanFields, NewPortType DEF NewPorts, Additions
    <3>3. \A k \in DOMAIN table : k \in Nat /\ k < p
      BY <3>1 DEF Updated
    <3>4. ASSUME NEW k \in DOMAIN table PROVE table[k] \in Port
      <4>1. ports[k] \in Port /\ k \in DOMAIN ports
        BY <1>0, <3>4 DEF TypeOK, Updated
      <4>2. CASE k \in DOMAIN s.loaded
        <5>1. Refreshed(s, k) \in Port
          BY <2>1, <4>2, RefreshedType
        <5>2. FlushPort(s.loaded[k], Refreshed(s, k), ports[k]) \in Port
          BY <2>1, <4>1, <4>2, <5>1, FlushPortType
        <5> QED BY <4>1, <4>2, <5>2 DEF Updated
      <4> QED BY <4>1, <4>2 DEF Updated
    <3> HIDE DEF D, S, table, f
    <3>5. RowsAdded(ports', table, S, f)
      BY <3>1, <3>2, <3>3, AppendedRows
    <3> QED BY <3>2, <3>4, <3>5 DEF RowsAdded
  <2>4. UNCHANGED switches /\ Leave(h)
        /\ DOMAIN vlans' \subseteq VlanPks /\ DOMAIN ports' \subseteq PortPks
    BY <1>4 DEF DiscoverCommit
  <2> QED BY <2>2, <2>3, <2>4, LeaveTypes
<1> QED BY <1>1, <1>2, <1>3, <1>4, <1>5 DEF Discovery

LEMMA CommitTypes ==
  ASSUME TInv, NEW h \in Handlers, Commit(h)
  PROVE  TInv'
<1> DEFINE s == sess[h]
<1>0. /\ TypeOK /\ SessionType(s)
      /\ DOMAIN vlans \subseteq VlanPks /\ vlans \in [DOMAIN vlans -> Vids]
      /\ DOMAIN ports \subseteq PortPks /\ ports \in [DOMAIN ports -> Port]
  BY DEF TInv, TypeOK
<1>1. CASE PortAddCommit(h)
  <2> DEFINE row == [device |-> s.dev, name |-> s.form.name, desc |-> s.form.desc,
                     mode |-> s.form.mode, access |-> s.form.access,
                     link |-> s.form.link]
  <2>1. s.dev \in DevIds /\ s.form \in PortForm
    BY <1>0, <1>1, FormsAssumption DEF PortAddCommit, SessionType
  <2>2. row \in Port
    BY <2>1 DEF Port, PortForm
  <2>3. /\ Leave(h) /\ UNCHANGED <<switches, vlans>>
        /\ (\E p \in PortPks : ports' = Insert(ports, p, row)) \/ UNCHANGED ports
    BY <1>1 DEF PortAddCommit
  <2> HIDE DEF row
  <2>4. DOMAIN ports' \subseteq PortPks /\ ports' \in [DOMAIN ports' -> Port]
    BY <1>0, <2>2, <2>3 DEF Insert
  <2> QED BY <1>0, <2>3, <2>4, LeaveTypes
<1>2. CASE PortEditCommit(h)
  <2> DEFINE new == AfterPortEdit(s.loaded, s.form)
  <2>1. s.loaded \in Port /\ new \in Port
    BY <1>0, <1>2, AfterPortEditType DEF PortEditCommit, SessionType
  <2>2. \A i \in DOMAIN ports : FlushPort(s.loaded, new, ports[i]) \in Port
    BY <1>0, <2>1, FlushPortType
  <2>3. /\ Leave(h) /\ UNCHANGED <<switches, vlans>>
        /\ ports' = IF s.pk \in DOMAIN ports
                      THEN [ports EXCEPT ![s.pk] = FlushPort(s.loaded, new, @)]
                      ELSE ports
    BY <1>2 DEF PortEditCommit
  <2> HIDE DEF new
  <2>4. DOMAIN ports' \subseteq PortPks /\ ports' \in [DOMAIN ports' -> Port]
    BY <1>0, <2>2, <2>3
  <2> QED BY <1>0, <2>3, <2>4, LeaveTypes
<1>3. CASE PortDeleteCommit(h)
  <2>1. DOMAIN ports' \subseteq PortPks /\ ports' \in [DOMAIN ports' -> Port]
    BY <1>0, <1>3 DEF PortDeleteCommit, Without, Restrict
  <2> QED BY <1>0, <1>3, <2>1, LeaveTypes DEF PortDeleteCommit
<1>4. CASE VlanAddCommit(h)
  <2>1. s.vid \in Vids
    BY <1>0, <1>4 DEF VlanAddCommit, SessionType
  <2>2. DOMAIN vlans' \subseteq VlanPks /\ vlans' \in [DOMAIN vlans' -> Vids]
    BY <1>0, <1>4, <2>1 DEF VlanAddCommit, Insert
  <2> QED BY <1>0, <1>4, <2>2, LeaveTypes DEF VlanAddCommit
<1>5. CASE VlanEditCommit(h)
  <2> DEFINE v == Kept(s.loaded, s.vid, vlans[s.pk])
  <2>1. s.vid \in Vids
    BY <1>0, <1>5 DEF VlanEditCommit, SessionType
  <2>2. s.pk \in DOMAIN vlans => v \in Vids
    BY <1>0, <2>1 DEF Kept
  <2>3. vlans' = IF s.pk \in DOMAIN vlans /\ VidFree(s.pk, v)
                   THEN [vlans EXCEPT ![s.pk] = v] ELSE vlans
    BY <1>5 DEF VlanEditCommit
  <2> HIDE DEF v
  <2>4. DOMAIN vlans' \subseteq VlanPks /\ vlans' \in [DOMAIN vlans' -> Vids]
    BY <1>0, <2>2, <2>3
  <2> QED BY <1>0, <1>5, <2>4, LeaveTypes DEF VlanEditCommit
<1>6. CASE VlanDeleteCommit(h)
  <2>1. DOMAIN vlans' \subseteq VlanPks /\ vlans' \in [DOMAIN vlans' -> Vids]
    BY <1>0, <1>6 DEF VlanDeleteCommit, Without, Restrict
  <2> QED BY <1>0, <1>6, <2>1, LeaveTypes DEF VlanDeleteCommit
<1> QED BY <1>1, <1>2, <1>3, <1>4, <1>5, <1>6 DEF Commit

LEMMA InitTypes == Init => TInv
<1> SUFFICES ASSUME Init PROVE TInv
  OBVIOUS
<1>1. \A h \in Handlers : SessionType(sess[h])
  BY DEF Init, Idle, SessionType
<1>2. events \in 0 .. MaxEvents
  BY FormsAssumption DEF Init
<1>3. /\ switches \subseteq DevIds
      /\ DOMAIN vlans \subseteq VlanPks /\ vlans \in [DOMAIN vlans -> Vids]
      /\ DOMAIN ports \subseteq PortPks /\ ports \in [DOMAIN ports -> Port]
  BY StartAssumption DEF Init
<1>4. TypeOK
  BY <1>1, <1>2, <1>3 DEF TypeOK, SessionType
<1> QED BY <1>1, <1>4 DEF TInv, Init

LEMMA StepTypes == TInv /\ [Next]_vars => TInv'
<1> SUFFICES ASSUME TInv, [Next]_vars PROVE TInv'
  OBVIOUS
<1>1. CASE UNCHANGED vars
  BY <1>1 DEF vars, TInv, TypeOK
<1>2. ASSUME NEW h \in Handlers, Abort(h) PROVE TInv'
  <2>1. SessionType(Idle) /\ events \in 0 .. MaxEvents
    BY DEF SessionType, Idle, TInv, TypeOK
  <2> QED BY <1>2, <2>1, LookupTypes DEF Abort, Leave
<1>3. ASSUME NEW d \in DevIds, AddSwitch(d) \/ DeleteSwitch(d) PROVE TInv'
  <2>1. /\ switches' \subseteq DevIds
        /\ DOMAIN ports' \subseteq PortPks /\ ports' \in [DOMAIN ports' -> Port]
    BY <1>3 DEF AddSwitch, DeleteSwitch, TInv, TypeOK, Without, Restrict
  <2>2. UNCHANGED <<vlans, sess>> /\ events < MaxEvents /\ events' = events + 1
    BY <1>3 DEF AddSwitch, DeleteSwitch, SwitchEvent
  <2>3. events' \in 0 .. MaxEvents
    BY <2>2, FormsAssumption DEF TInv, TypeOK
  <2> QED BY <2>1, <2>2, <2>3 DEF TInv, TypeOK
<1> QED BY <1>1, <1>2, <1>3, ArrivalTypes, DiscoveryTypes, CommitTypes DEF Next

(* Whatever walks report and forms hold, the tables hold what their        *)
(* columns can hold.                                                       *)
THEOREM TypesHold == Spec => []TypeOK
<1>1. TInv => TypeOK
  BY DEF TInv
<1> QED BY <1>1, InitTypes, StepTypes, PTL DEF Spec

-----------------------------------------------------------------------------
(* An undisturbed discovery.                                               *)

(* No other report of the scan has the name of report k.                   *)
Sole(s, k) ==
  \A m \in DOMAIN s.scan.ports : m # k => s.scan.ports[m].name # s.scan.ports[k].name

(* What the reports leave of loaded row i: its name and mode, the access   *)
(* VLAN of a trunk, a description it has; its link is that of the report   *)
(* of its name, if there is one.                                           *)
LEMMA RefreshedKeeps ==
  ASSUME NEW s, s.scan \in Scans, NEW i \in DOMAIN s.loaded, s.loaded[i] \in Port
  PROVE  /\ Refreshed(s, i) \in Port
         /\ Refreshed(s, i).name = s.loaded[i].name
         /\ Refreshed(s, i).mode = s.loaded[i].mode
         /\ s.loaded[i].desc # None => Refreshed(s, i).desc = s.loaded[i].desc
         /\ s.loaded[i].mode = "trunk" => Refreshed(s, i).access = s.loaded[i].access
         /\ \A k \in DOMAIN s.scan.ports :
              Sole(s, k) /\ i \in ByName(s.loaded, s.scan.ports[k].name)
                => Refreshed(s, i).link = s.scan.ports[k].link
<1> DEFINE D == DOMAIN s.scan.ports
           old == s.loaded[i]
           Mine(k) == i \in ByName(s.loaded, s.scan.ports[k].name)
           P == [w \in SUBSET D |->
                   {row \in Port :
                      /\ row.name = old.name
                      /\ row.mode = old.mode
                      /\ old.desc # None => row.desc = old.desc
                      /\ old.mode = "trunk" => row.access = old.access
                      /\ \A k \in w : Sole(s, k) /\ Mine(k)
                                        => row.link = s.scan.ports[k].link}]
<1>1. PICK g \in Foldings(Port, old, Steps(s, i), Latest(s), D) :
        Refreshed(s, i) = g[D]
  BY ReportsFold
<1>2. Foldable(D, Port, old, Steps(s, i), Latest(s))
  BY ReportsFold
<1>3. old \in P[{}]
  OBVIOUS
<1>4. ASSUME NEW w \in SUBSET D, w # {}, NEW v \in Port, v \in P[w \ {Latest(s)[w]}]
      PROVE  Steps(s, i)[Latest(s)[w]][v] \in P[w]
  <2> DEFINE m == Latest(s)[w]  dp == s.scan.ports[m]
  <2>1. m \in w /\ m \in D /\ dp \in Report
    BY <1>2, <1>4, ScanFields DEF Foldable
  <2>2. Steps(s, i)[m][v] = Takes(s, i, m, v)
    BY <2>1 DEF Steps
  <2> HIDE DEF m
  <2>3. /\ v.name = old.name /\ v.mode = old.mode
        /\ old.desc # None => v.desc = old.desc
        /\ old.mode = "trunk" => v.access = old.access
        /\ \A k \in w \ {m} : Sole(s, k) /\ Mine(k)
                                => v.link = s.scan.ports[k].link
    BY <1>4 DEF m
  <2>4. CASE Mine(m)
    <3>1. Takes(s, i, m, v) = Refresh(v, dp)
      BY <2>4 DEF Takes
    <3>2. Refresh(v, dp) \in Port
      BY <2>1, RefreshType
    <3>3. \A k \in w : Sole(s, k) /\ Mine(k) => k = m
      BY <2>1, <2>4 DEF Sole, ByName
    <3>4. /\ Refresh(v, dp).name = v.name /\ Refresh(v, dp).mode = v.mode
          /\ v.desc # None => Refresh(v, dp).desc = v.desc
          /\ v.mode = "trunk" => Refresh(v, dp).access = v.access
          /\ Refresh(v, dp).link = dp.link
      BY DEF Refresh, Port
    <3> QED BY <2>2, <2>3, <3>1, <3>2, <3>3, <3>4 DEF m
  <2>5. CASE ~ Mine(m)
    <3>1. Takes(s, i, m, v) = v
      BY <2>5 DEF Takes
    <3>2. \A k \in w : Sole(s, k) /\ Mine(k) => v.link = s.scan.ports[k].link
      BY <2>3, <2>5
    <3> QED BY <2>2, <2>3, <3>1, <3>2 DEF m
  <2> QED BY <2>4, <2>5
<1> HIDE DEF P
<1>5. g[D] \in P[D]
  BY <1>1, <1>2, <1>3, <1>4, FoldingKeeps
<1> QED BY <1>1, <1>5 DEF P

(* If what the queries returned still holds, nothing is refused.           *)
LEMMA FreshIsAccepted ==
  ASSUME NEW h \in Handlers, Fresh(sess[h])
  PROVE  ~ DiscoverRefused(h)
<1> DEFINE s == sess[h]
<1>1. \A i \in NewVlans(s) : s.scan.vlans[i] \notin Known
  BY DEF Fresh, NewVlans
<1>2. \A i \in DOMAIN s.loaded : i \in DOMAIN ports
  BY DEF Fresh, LoadedPorts, Restrict, PortsOf
<1> QED BY <1>1, <1>2 DEF DiscoverRefused, Refused, Fresh

(* by_name finds a loaded row of a name if there is one.                   *)
LEMMA ByNameFinds ==
  ASSUME NEW loaded, IsFiniteSet(DOMAIN loaded), DOMAIN loaded \subseteq Nat,
         NEW j \in DOMAIN loaded
  PROVE  ByName(loaded, loaded[j].name) # {}
<1> DEFINE T == {i \in DOMAIN loaded : loaded[i].name = loaded[j].name}
<1>1. IsFiniteSet(T) /\ T \subseteq Int /\ T # {}
  BY FS_Subset
<1>2. Max(T) \in T /\ \A x \in T : x <= Max(T)
  <2> HIDE DEF T
  <2> QED BY <1>1, MaxIsMember
<1>3. Max(T) \in ByName(loaded, loaded[j].name)
  BY <1>2 DEF ByName
<1> QED BY <1>3

(* An undisturbed commit: the rows it loaded are the rows of its switch.   *)
LEMMA FreshRows ==
  ASSUME TypeOK, NEW s, Fresh(s), s.scan \in Scans
  PROVE  /\ DOMAIN Updated(s) = DOMAIN ports
         /\ DOMAIN s.loaded = PortsOf(s.dev)
         /\ \A i \in DOMAIN ports \ PortsOf(s.dev) : Updated(s)[i] = ports[i]
         /\ \A i \in PortsOf(s.dev) :
              /\ s.loaded[i] = ports[i] /\ ports[i] \in Port
              /\ Updated(s)[i].device = s.dev
              /\ Updated(s)[i].name = ports[i].name
              /\ Updated(s)[i].mode = Refreshed(s, i).mode
              /\ Updated(s)[i].desc = Refreshed(s, i).desc
              /\ Updated(s)[i].access = Refreshed(s, i).access
              /\ Updated(s)[i].link = Refreshed(s, i).link
<1>1. /\ DOMAIN Updated(s) = DOMAIN ports
      /\ DOMAIN s.loaded = PortsOf(s.dev)
      /\ \A i \in PortsOf(s.dev) : s.loaded[i] = ports[i]
  BY DEF Updated, Fresh, LoadedPorts, Restrict, PortsOf
<1>2. \A i \in DOMAIN ports \ PortsOf(s.dev) : Updated(s)[i] = ports[i]
  BY <1>1 DEF Updated
<1>3. ASSUME NEW i \in PortsOf(s.dev)
      PROVE  /\ ports[i] \in Port
             /\ Updated(s)[i].device = s.dev
             /\ Updated(s)[i].name = ports[i].name
             /\ Updated(s)[i].mode = Refreshed(s, i).mode
             /\ Updated(s)[i].desc = Refreshed(s, i).desc
             /\ Updated(s)[i].access = Refreshed(s, i).access
             /\ Updated(s)[i].link = Refreshed(s, i).link
  <2> DEFINE row == ports[i]  new == Refreshed(s, i)
  <2>1. i \in DOMAIN ports /\ row \in Port /\ row.device = s.dev
    BY <1>3 DEF PortsOf, TypeOK
  <2>2. new.name = row.name
    BY <1>1, <1>3, <2>1, RefreshedKeeps
  <2>3. Updated(s)[i] = FlushPort(row, new, row)
    BY <1>1, <1>3, <2>1 DEF Updated
  <2> HIDE DEF row, new
  <2>4. /\ FlushPort(row, new, row).device = row.device
        /\ FlushPort(row, new, row).name = new.name
        /\ FlushPort(row, new, row).mode = new.mode
        /\ FlushPort(row, new, row).desc = new.desc
        /\ FlushPort(row, new, row).access = new.access
        /\ FlushPort(row, new, row).link = new.link
    BY <2>1 DEF FlushPort, Kept, Port
  <2> QED BY <2>1, <2>2, <2>3, <2>4 DEF row, new
<1> QED BY <1>1, <1>2, <1>3

(* A report whose name is in neither of them twice has one row after the   *)
(* commit, with the link it reports.                                       *)
LEMMA ReportIsStored ==
  ASSUME TInv, NEW h \in Handlers, Fresh(sess[h]), DiscoverCommit(h),
         NEW k \in DOMAIN sess[h].scan.ports, Sole(sess[h], k),
         Cardinality(Named(sess[h].dev, sess[h].scan.ports[k].name)) <= 1
  PROVE  \E i \in DOMAIN ports' :
           /\ {j \in DOMAIN ports' :
                 /\ ports'[j].device = sess[h].dev
                 /\ ports'[j].name = sess[h].scan.ports[k].name} = {i}
           /\ ports'[i].link = sess[h].scan.ports[k].link
<1> DEFINE s == sess[h]  d == s.dev  dp == s.scan.ports[k]  D == DOMAIN s.scan.ports
           Same == Named(d, dp.name)
           Added == DOMAIN ports' \ DOMAIN ports
<1>0. TypeOK /\ s.scan \in Scans
  BY DEF TInv, SessionType, DiscoverCommit
<1>1. PICK p \in Nat :
        /\ \A i \in DOMAIN ports : i \in Nat /\ i < p
        /\ Appended(ports', Updated(s), p, NewPorts(s), Additions(s))
  BY <1>0, CommitAppends
<1>2. RowsAdded(ports', Updated(s), NewPorts(s), Additions(s))
  <2> DEFINE S == NewPorts(s)  table == Updated(s)  f == Additions(s)
  <2>1. D \subseteq Nat /\ IsFiniteSet(D) /\ S \subseteq D
    BY <1>0, ScanFields DEF NewPorts
  <2>2. \A i \in DOMAIN table : i \in Nat /\ i < p
    BY <1>1 DEF Updated
  <2> HIDE DEF D, S, table, f
  <2> QED BY <1>1, <2>1, <2>2, AppendedRows DEF S, table, f
<1>3. /\ DOMAIN Updated(s) = DOMAIN ports
      /\ DOMAIN s.loaded = PortsOf(d)
      /\ \A i \in DOMAIN ports : i \in DOMAIN ports' /\ ports'[i] = Updated(s)[i]
  BY <1>0, <1>2, FreshRows DEF RowsAdded
<1>4. IsFiniteSet(DOMAIN ports) /\ DOMAIN ports \in SUBSET Nat
  <2>1. DOMAIN ports \in SUBSET Nat /\ \A i \in DOMAIN ports : i <= p
    BY <1>1
  <2> QED BY <2>1, FS_BoundedSetOfNaturals
<1>5. /\ IsFiniteSet(PortsOf(d)) /\ PortsOf(d) \subseteq Nat
      /\ IsFiniteSet(Same) /\ Same \subseteq PortsOf(d)
  BY <1>4, FS_Subset DEF PortsOf, Named
(* Old rows keep their switch and their name, new rows are additions.      *)
<1>6. \A j \in DOMAIN ports :
        ports'[j].device = d /\ ports'[j].name = dp.name <=> j \in Same
  <2> SUFFICES ASSUME NEW j \in DOMAIN ports
               PROVE  ports'[j].device = d /\ ports'[j].name = dp.name <=> j \in Same
    OBVIOUS
  <2>1. CASE j \in PortsOf(d)
    BY <1>0, <1>3, <2>1, FreshRows DEF Named
  <2>2. CASE j \notin PortsOf(d)
    <3>1. ports'[j] = ports[j]
      BY <1>0, <1>3, <2>2, FreshRows
    <3> QED BY <2>2, <3>1 DEF Named, PortsOf
  <2> QED BY <2>1, <2>2
<1>7. \A m \in NewPorts(s) : /\ Additions(s)[m].device = d
                             /\ Additions(s)[m].name = s.scan.ports[m].name
                             /\ Additions(s)[m].link = s.scan.ports[m].link
  BY DEF Additions, NewPorts, NewPort
<1>8. \A j \in Added : \E m \in NewPorts(s) : ports'[j] = Additions(s)[m]
  BY <1>2, <1>3 DEF RowsAdded
<1>9. CASE Same # {}
  <2>1. PICK i : i \in Same
    BY <1>9
  <2>2. Same = {i}
    <3>1. {i} \in SUBSET Same /\ Cardinality({i}) = 1 /\ Cardinality(Same) \in Nat
      BY <1>5, <2>1, FS_Singleton, FS_CardinalityType
    <3>2. Cardinality({i}) <= Cardinality(Same)
      BY <1>5, <3>1, FS_Subset
    <3>3. Cardinality(Same) <= 1
      OBVIOUS
    <3> HIDE DEF Same
    <3>4. Cardinality(Same) = Cardinality({i})
      BY <3>1, <3>2, <3>3
    <3> QED BY <1>5, <3>1, <3>4, FS_Subset
  <2>3. i \in DOMAIN s.loaded /\ s.loaded[i] = ports[i] /\ ports[i] \in Port
        /\ ports[i].name = dp.name
    BY <1>0, <1>3, <1>5, <2>1, FreshRows DEF Named
  <2>4. ByName(s.loaded, dp.name) = {i}
    <3>1. \A j \in DOMAIN s.loaded : s.loaded[j].name = dp.name => j \in Same
      BY <1>0, <1>3, FreshRows DEF Named
    <3>2. ByName(s.loaded, dp.name) # {}
      BY <1>3, <1>5, <2>3, ByNameFinds
    <3> QED BY <2>2, <3>1, <3>2 DEF ByName
  <2>5. ports'[i].link = dp.link
    <3>1. Refreshed(s, i).link = dp.link
      BY <1>0, <2>3, <2>4, RefreshedKeeps
    <3>2. i \in DOMAIN ports /\ i \in PortsOf(d)
      BY <1>3, <2>3 DEF PortsOf
    <3> QED BY <1>0, <1>3, <3>1, <3>2, FreshRows
  <2>6. \A j \in Added : ports'[j].name # dp.name
    <3> SUFFICES ASSUME NEW j \in Added PROVE ports'[j].name # dp.name
      OBVIOUS
    <3>1. PICK m \in NewPorts(s) : ports'[j] = Additions(s)[m]
      BY <1>8
    <3>2. s.scan.ports[m].name # dp.name
      BY <2>4 DEF NewPorts
    <3> QED BY <1>7, <3>1, <3>2
  <2>7. i \in DOMAIN ports'
    BY <1>3, <2>3 DEF PortsOf
  <2>8. {j \in DOMAIN ports' : ports'[j].device = d /\ ports'[j].name = dp.name} = {i}
    <3>1. \A j \in DOMAIN ports' :
            ports'[j].device = d /\ ports'[j].name = dp.name <=> j = i
      <4> SUFFICES ASSUME NEW j \in DOMAIN ports'
                   PROVE  ports'[j].device = d /\ ports'[j].name = dp.name <=> j = i
        OBVIOUS
      <4>1. i \in DOMAIN ports
        BY <1>3, <2>3 DEF PortsOf
      <4> HIDE DEF s, d, dp, Same
      <4>2. CASE j \in DOMAIN ports
        BY <1>6, <2>2, <4>2
      <4>3. CASE j \notin DOMAIN ports
        BY <2>6, <4>1, <4>3
      <4> QED BY <4>2, <4>3
    <3> HIDE DEF s, d, dp, Same
    <3> QED BY <2>7, <3>1
  <2> QED BY <2>5, <2>7, <2>8
<1>10. CASE Same = {}
  <2>1. k \in NewPorts(s)
    <3>1. \A j \in DOMAIN s.loaded : s.loaded[j].name # dp.name
      BY <1>0, <1>3, <1>10, FreshRows DEF Named
    <3> QED BY <3>1 DEF NewPorts, ByName
  <2>2. PICK i \in Added :
          /\ ports'[i] = Additions(s)[k]
          /\ \A j \in Added : j # i => \E m \in NewPorts(s) \ {k} :
                                         ports'[j] = Additions(s)[m]
    BY <1>2, <1>3, <2>1 DEF RowsAdded
  <2>3. \A j \in Added : j # i => ports'[j].name # dp.name
    <3> SUFFICES ASSUME NEW j \in Added, j # i PROVE ports'[j].name # dp.name
      OBVIOUS
    <3>1. PICK m \in NewPorts(s) \ {k} : ports'[j] = Additions(s)[m]
      BY <2>2
    <3>2. s.scan.ports[m].name # dp.name
      BY DEF NewPorts, Sole
    <3> QED BY <1>7, <3>1, <3>2
  <2>4. ports'[i].device = d /\ ports'[i].name = dp.name /\ ports'[i].link = dp.link
    BY <1>7, <2>1, <2>2
  <2>5. {j \in DOMAIN ports' : ports'[j].device = d /\ ports'[j].name = dp.name} = {i}
    BY <1>6, <1>10, <2>3, <2>4
  <2> QED BY <2>4, <2>5
<1> QED BY <1>9, <1>10

(* Whatever is committed between its queries and its flush, a discovery    *)
(* writes a column of a row that was there only if the fold over its       *)
(* reports changed the copy it loaded, and the fold keeps names, modes,    *)
(* descriptions and the VLANs of trunks.                                   *)
THEOREM DiscoveriesKeepEdits == Spec => DiscoveryKeepsEdits
<1> DEFINE KeepsEdits(h) ==
       DiscoverCommit(h) =>
         \A i \in DOMAIN ports :
           LET loaded == sess[h].loaded
               new    == ports'[i]
           IN /\ new.name = ports[i].name /\ new.mode = ports[i].mode
              /\ new.desc # ports[i].desc
                   => i \in DOMAIN loaded /\ loaded[i].desc = None
              /\ new.access # ports[i].access
                   => i \in DOMAIN loaded /\ loaded[i].mode = "access"
<1>1. TInv => \A h \in Handlers : KeepsEdits(h)
  <2> SUFFICES ASSUME TInv, NEW h \in Handlers, DiscoverCommit(h),
                      NEW i \in DOMAIN ports
               PROVE  LET loaded == sess[h].loaded
                          new    == ports'[i]
                      IN /\ new.name = ports[i].name /\ new.mode = ports[i].mode
                         /\ new.desc # ports[i].desc
                              => i \in DOMAIN loaded /\ loaded[i].desc = None
                         /\ new.access # ports[i].access
                              => i \in DOMAIN loaded /\ loaded[i].mode = "access"
    OBVIOUS
  <2> DEFINE s == sess[h]
  <2>1. /\ TypeOK /\ ports[i] \in Port /\ s.scan \in Scans
        /\ \A j \in DOMAIN s.loaded : s.loaded[j] \in Port
    BY DEF TInv, TypeOK, SessionType, DiscoverCommit
  <2>2. ports'[i] = Updated(s)[i]
    <3>1. PICK p \in Nat :
            /\ \A j \in DOMAIN ports : j \in Nat /\ j < p
            /\ Appended(ports', Updated(s), p, NewPorts(s), Additions(s))
      BY <2>1, CommitAppends
    <3>2. DOMAIN Updated(s) = DOMAIN ports
      BY DEF Updated
    <3> HIDE DEF s
    <3> QED BY <3>1, <3>2 DEF Appended
  <2>3. CASE i \notin DOMAIN s.loaded
    <3>1. ports'[i] = ports[i]
      BY <2>2, <2>3 DEF Updated
    <3> QED BY <3>1
  <2>4. CASE i \in DOMAIN s.loaded
    <3> DEFINE old == s.loaded[i]  r == Refreshed(s, i)
    <3>1. ports'[i] = FlushPort(old, r, ports[i])
      BY <2>2, <2>4 DEF Updated
    <3>2. /\ r.name = old.name /\ r.mode = old.mode
          /\ old.desc # None => r.desc = old.desc
          /\ old.mode = "trunk" => r.access = old.access
          /\ old.mode \in Modes
      BY <2>1, <2>4, RefreshedKeeps DEF Port
    <3> HIDE DEF r, old
    <3>3. /\ ports'[i].name = Kept(old.name, r.name, ports[i].name)
          /\ ports'[i].mode = Kept(old.mode, r.mode, ports[i].mode)
          /\ ports'[i].desc = Kept(old.desc, r.desc, ports[i].desc)
          /\ ports'[i].access = Kept(old.access, r.access, ports[i].access)
      BY <2>1, <3>1 DEF FlushPort, Port
    <3>4. old.desc # None => ports'[i].desc = ports[i].desc
      BY <3>2, <3>3 DEF Kept
    <3>5. old.mode # "access" => ports'[i].access = ports[i].access
      BY <3>2, <3>3 DEF Kept, Modes
    <3>6. ports'[i].name = ports[i].name /\ ports'[i].mode = ports[i].mode
      BY <3>2, <3>3 DEF Kept
    <3> QED BY <2>4, <3>4, <3>5, <3>6 DEF old
  <2> QED BY <2>3, <2>4
<1>2. Spec => []TInv
  BY InitTypes, StepTypes, PTL DEF Spec
<1> QED BY <1>1, <1>2, PTL DEF DiscoveryKeepsEdits

(* What a discovery that nobody disturbs does, in the words of             *)
(* _apply_switch_discovery: it commits, all VLANs it reports are there, a  *)
(* report has one port with the link it reports, and descriptions, modes,  *)
(* trunks and the ports of other switches stay.                            *)
THEOREM UndisturbedDiscoveriesUpsert == Spec => UndisturbedUpsert
<1> DEFINE Upserts(h) ==
       LET s    == sess[h]
           scan == s.scan
           d    == s.dev
       IN s.pc \in {"apply", "flushed"} /\ Fresh(s) =>
            /\ ~DiscoverRefused(h)
            /\ DiscoverCommit(h) =>
                 /\ \A k \in DOMAIN scan.vlans : scan.vlans[k] \in Known'
                 /\ \A k \in DOMAIN scan.ports :
                      LET dp == scan.ports[k]
                      IN (\A m \in DOMAIN scan.ports :
                            m # k => scan.ports[m].name # dp.name)
                         /\ Cardinality(Named(d, dp.name)) <= 1
                           => \E i \in DOMAIN ports' :
                                /\ {j \in DOMAIN ports' : /\ ports'[j].device = d
                                                          /\ ports'[j].name = dp.name}
                                     = {i}
                                /\ ports'[i].link = dp.link
                 /\ \A i \in DOMAIN ports \ PortsOf(d) : ports'[i] = ports[i]
                 /\ \A i \in DOMAIN ports :
                      /\ ports'[i].mode = ports[i].mode
                      /\ ports[i].desc # None => ports'[i].desc = ports[i].desc
                      /\ ports[i].mode = "trunk"
                           => ports'[i].access = ports[i].access
<1>1. TInv => \A h \in Handlers : Upserts(h)
  <2> SUFFICES ASSUME TInv, NEW h \in Handlers, sess[h].pc \in {"apply", "flushed"},
                      Fresh(sess[h])
               PROVE  Upserts(h)
    OBVIOUS
  <2> DEFINE s == sess[h]  d == s.dev
  <2>1. ~ DiscoverRefused(h)
    BY FreshIsAccepted
  <2>2. ASSUME DiscoverCommit(h)
        PROVE  /\ \A k \in DOMAIN s.scan.vlans : s.scan.vlans[k] \in Known'
               /\ \A i \in DOMAIN ports \ PortsOf(d) : ports'[i] = ports[i]
               /\ \A i \in DOMAIN ports :
                    /\ ports'[i].mode = ports[i].mode
                    /\ ports[i].desc # None => ports'[i].desc = ports[i].desc
                    /\ ports[i].mode = "trunk" => ports'[i].access = ports[i].access
    <3>1. TypeOK /\ s.scan \in Scans
      BY DEF TInv, SessionType
    <3>2. PICK v \in Nat :
            /\ \A i \in DOMAIN vlans : i \in Nat /\ i < v
            /\ Appended(vlans', vlans, v, NewVlans(s), s.scan.vlans)
      BY <2>2, <3>1, CommitAppends
    <3>3. RowsAdded(vlans', vlans, NewVlans(s), s.scan.vlans)
      <4> DEFINE D == DOMAIN s.scan.vlans  S == NewVlans(s)  f == s.scan.vlans
      <4>1. D \subseteq Nat /\ IsFiniteSet(D) /\ S \subseteq D
        BY <3>1, ScanFields DEF NewVlans
      <4> HIDE DEF D, S, f
      <4> QED BY <3>2, <4>1, AppendedRows DEF S, f
    <3>4. \A k \in DOMAIN s.scan.vlans : s.scan.vlans[k] \in Known'
      <4> SUFFICES ASSUME NEW k \in DOMAIN s.scan.vlans
                   PROVE  s.scan.vlans[k] \in Known'
        OBVIOUS
      <4>1. CASE k \in NewVlans(s)
        BY <3>3, <4>1 DEF RowsAdded, Known
      <4>2. CASE k \notin NewVlans(s)
        <5>1. s.scan.vlans[k] \in Known
          BY <4>2 DEF NewVlans, Fresh
        <5> QED BY <3>3, <5>1 DEF RowsAdded, Known
      <4> QED BY <4>1, <4>2
    <3>5. \A i \in DOMAIN ports : ports'[i] = Updated(s)[i]
      <4>1. PICK p \in Nat :
              /\ \A i \in DOMAIN ports : i \in Nat /\ i < p
              /\ Appended(ports', Updated(s), p, NewPorts(s), Additions(s))
        BY <2>2, <3>1, CommitAppends
      <4>2. DOMAIN Updated(s) = DOMAIN ports
        BY DEF Updated
      <4> HIDE DEF s
      <4> QED BY <4>1, <4>2 DEF Appended
    <3>6. \A i \in DOMAIN ports \ PortsOf(d) : ports'[i] = ports[i]
      BY <3>1, <3>5, FreshRows
    <3>7. ASSUME NEW i \in DOMAIN ports
          PROVE  /\ ports'[i].mode = ports[i].mode
                 /\ ports[i].desc # None => ports'[i].desc = ports[i].desc
                 /\ ports[i].mode = "trunk" => ports'[i].access = ports[i].access
      <4>1. CASE i \in PortsOf(d)
        <5>1. i \in DOMAIN s.loaded /\ s.loaded[i] = ports[i] /\ ports[i] \in Port
          BY <3>1, <4>1, FreshRows
        <5>2. /\ Refreshed(s, i).mode = ports[i].mode
              /\ ports[i].desc # None => Refreshed(s, i).desc = ports[i].desc
              /\ ports[i].mode = "trunk" => Refreshed(s, i).access = ports[i].access
          BY <3>1, <5>1, RefreshedKeeps
        <5> QED BY <3>1, <3>5, <4>1, <5>2, FreshRows
      <4>2. CASE i \notin PortsOf(d)
        BY <3>6, <4>2
      <4> QED BY <4>1, <4>2
    <3> QED BY <3>4, <3>6, <3>7
  <2>3. ASSUME DiscoverCommit(h), NEW k \in DOMAIN s.scan.ports,
               \A m \in DOMAIN s.scan.ports :
                 m # k => s.scan.ports[m].name # s.scan.ports[k].name,
               Cardinality(Named(d, s.scan.ports[k].name)) <= 1
        PROVE  \E i \in DOMAIN ports' :
                 /\ {j \in DOMAIN ports' : /\ ports'[j].device = d
                                           /\ ports'[j].name = s.scan.ports[k].name}
                      = {i}
                 /\ ports'[i].link = s.scan.ports[k].link
    BY <2>3, ReportIsStored DEF Sole
  <2> QED BY <2>1, <2>2, <2>3
<1>2. Spec => []TInv
  BY InitTypes, StepTypes, PTL DEF Spec
<1> QED BY <1>1, <1>2, PTL DEF UndisturbedUpsert
=============================================================================
