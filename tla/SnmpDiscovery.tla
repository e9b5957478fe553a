---------------------------- MODULE SnmpDiscovery ----------------------------
(***************************************************************************)
(* discover_switch: the tables of a switch are walked, ifDescr first and   *)
(* the others together, and joined by their indices into ports and VLANs.  *)
(*                                                                         *)
(* A walk takes several responses; the switch goes on changing between     *)
(* them, any walk can break off, and all stop after MaxRows rows.          *)
(*                                                                         *)
(* A table is a function on indices.  ifOperStatus stands for the columns  *)
(* of IF-MIB that are joined as it is (speed, admin, alias, counters).     *)
(***************************************************************************)
EXTENDS Integers, FiniteSets

CONSTANTS
  Switches,    (* The states a switch may be in: a table for each name.    *)
  Futures,     (* Which of them may come after which.                      *)
  OuiOf(_),    (* The first three octets of a MAC address.                 *)
  BulkSize,    (* Rows asked for at once: 25.                              *)
  MaxRows,     (* Rows after which a walk stops: MAX.                      *)
  MaxLookups,  (* Vendors looked up at most: 8.                            *)
  MaxChanges,  (* Bound on the changes of the switch during a discovery.   *)
  MaxBreaks,   (* Bound on the walks that break off.                       *)
  None         (* Python None, a key a dict does not have, an empty value. *)

Tables == {"ifDescr", "ifType", "ifOper", "pvid", "vlanName", "lldpSysName",
           "fdbPort", "fdbStatus", "basePortIfIndex"}

Rest == Tables \ {"ifDescr"}

Empty == [i \in {} |-> None]

ASSUME SwitchesAssumption ==
  /\ \A s \in Switches : \A t \in Tables : /\ DOMAIN s[t] \subseteq Nat \ {0}
                                         /\ IsFiniteSet(DOMAIN s[t])
  /\ Futures \subseteq Switches \X Switches

ASSUME BoundsAssumption ==
  BulkSize \in Nat \ {0} /\ MaxRows \in Nat \ {0} /\ MaxLookups \in Nat

ASSUME NoneAssumption ==
  None \notin {"up", "self", "mgmt", "ethernetCsmacd", "ieee8023adLag"} \cup Nat

VARIABLES
  sw,       (* What the switch would answer now.                           *)
  seen,     (* History: every row a table had since the discovery began.   *)
  rows,     (* The rows received so far.                                   *)
  open,     (* The tables still being walked.                              *)
  cut,      (* History: the tables whose walk broke off or was cut short.  *)
  stage,    (* "descr", "tables", "vendors" or "done".                     *)
  ports,    (* The DiscoveredPorts, by ifIndex.                            *)
  vlans,    (* The DiscoveredVlans, by number.                             *)
  lookups,  (* OUIs still to be looked up.                                 *)
  vendors,  (* OUIs a vendor was found for.                                *)
  changes   (* Changes of the switch so far.                               *)

vars == <<sw, seen, rows, open, cut, stage, ports, vlans, lookups, vendors, changes>>

walked == <<sw, seen, changes>>
result == <<ports, vlans, lookups, vendors>>

-----------------------------------------------------------------------------
(* _walk.                                                                  *)

Pairs(f) == {<<i, f[i]>> : i \in DOMAIN f}

(* The n least of a set of indices.                                        *)
Least(S, n) == {i \in S : Cardinality({j \in S : j < i}) < n}

Ahead(t) == {i \in DOMAIN sw[t] : \A j \in DOMAIN rows[t] : j < i}

WholeResponse(t) ==  \* mutant: the limit is looked at between responses only
  Least(Ahead(t), BulkSize)

(* The rows of the next response that are kept.                            *)
Response(t) ==
  Least(Least(Ahead(t), BulkSize), MaxRows - Cardinality(DOMAIN rows[t]))

(* One response: the walk is over at the end of the subtree or the limit.  *)
Receive(t) ==
  LET new  == Response(t)
      full == Cardinality(DOMAIN rows[t]) + Cardinality(new) >= MaxRows
  IN /\ t \in open
     /\ rows' = [rows EXCEPT ![t] =
                   [i \in DOMAIN rows[t] \cup new |->
                      IF i \in new THEN sw[t][i] ELSE rows[t][i]]]
     /\ open' = IF full \/ Cardinality(new) < BulkSize THEN open \ {t} ELSE open
     /\ cut' = IF full /\ Ahead(t) # new THEN cut \cup {t} ELSE cut
     /\ UNCHANGED <<stage, result, walked>>

(* A timeout or an error status: what has come so far is kept.             *)
BreakOff(t) ==
  /\ t \in open
  /\ Cardinality(cut) < MaxBreaks
  /\ open' = open \ {t}
  /\ cut' = cut \cup {t}
  /\ UNCHANGED <<rows, stage, result, walked>>

AsksAgain ==  \* mutant: a switch that does not answer is asked again
  /\ stage = "descr"
  /\ open = {}
  /\ IF rows["ifDescr"] = Empty
       THEN open' = {"ifDescr"} /\ UNCHANGED stage
       ELSE stage' = "tables" /\ open' = Rest
  /\ UNCHANGED <<rows, cut, result, walked>>

(* Without a row of ifDescr there is nothing; with one the rest is walked. *)
DescrWalked ==
  /\ stage = "descr"
  /\ open = {}
  /\ IF rows["ifDescr"] = Empty
       THEN stage' = "done" /\ UNCHANGED open
       ELSE stage' = "tables" /\ open' = Rest
  /\ UNCHANGED <<rows, cut, result, walked>>

-----------------------------------------------------------------------------
(* The joins.                                                              *)

Get(t, i) == IF i \in DOMAIN rows[t] THEN rows[t][i] ELSE None

Own == {"self", "mgmt"}

(* Where the forwarding table puts a MAC address: the interface of its     *)
(* bridge port, or that of the same number if the map has none.            *)
InterfaceOf(mac) ==
  LET b == rows["fdbPort"][mac]
  IN IF Get("basePortIfIndex", b) # None THEN Get("basePortIfIndex", b) ELSE b

NoStatusCheck(i) ==  \* mutant: the switch's own addresses are not left out
  {m \in DOMAIN rows["fdbPort"] : InterfaceOf(m) = i}

MacsOn(i) ==
  {m \in DOMAIN rows["fdbPort"] :
     Get("fdbStatus", m) \notin Own /\ InterfaceOf(m) = i}

(* lldpRemTable is indexed by time mark, local port and neighbour; the     *)
(* index is coded with the port as its last digit.                         *)
LocalPort(i) == i % 10

ByTimeMark(i) ==  \* mutant: the first number of the index is taken for the port
  {x \in DOMAIN rows["lldpSysName"] :
     x \div 10 = i /\ rows["lldpSysName"][x] # None}

NeighborsOn(i) ==
  {x \in DOMAIN rows["lldpSysName"] :
     LocalPort(x) = i /\ rows["lldpSysName"][x] # None}

First(S) == CHOOSE x \in S : \A y \in S : x <= y

Physical == {"ethernetCsmacd", "ieee8023adLag"}

DefaultVlan(i) ==  \* mutant: a port without a PVID row is taken to be in VLAN 1
  [name     |-> rows["ifDescr"][i],
   link_up  |-> Get("ifOper", i) = "up",
   access   |-> IF Get("pvid", i) \in {0, None} THEN 1 ELSE Get("pvid", i),
   mac      |-> IF MacsOn(i) = {} THEN None ELSE First(MacsOn(i)),
   neighbor |-> IF NeighborsOn(i) = {} THEN None
                ELSE rows["lldpSysName"][First(NeighborsOn(i))]]

PortAt(i) ==
  [name     |-> rows["ifDescr"][i],
   link_up  |-> Get("ifOper", i) = "up",
   access   |-> IF Get("pvid", i) = 0 THEN None ELSE Get("pvid", i),
   mac      |-> IF MacsOn(i) = {} THEN None ELSE First(MacsOn(i)),
   neighbor |-> IF NeighborsOn(i) = {} THEN None
                ELSE rows["lldpSysName"][First(NeighborsOn(i))]]

Found == {i \in DOMAIN rows["ifDescr"] : Get("ifType", i) \in Physical}

OuisOf(f) == {OuiOf(f[i].mac) : i \in {j \in DOMAIN f : f[j].mac # None}}

(* The cap leaves out some of the OUIs, whichever the set puts last.       *)
Join ==
  /\ stage = "tables"
  /\ open = {}
  /\ ports' = [i \in Found |-> PortAt(i)]
  /\ vlans' = [v \in {i \in 1 .. 4094 : Get("vlanName", i) # None} |->
                 rows["vlanName"][v]]
  /\ \E S \in SUBSET OuisOf(ports') :
       /\ \/ S = OuisOf(ports') /\ Cardinality(S) <= MaxLookups
          \/ Cardinality(S) = MaxLookups
       /\ lookups' = S
  /\ stage' = "vendors"
  /\ UNCHANGED <<rows, open, cut, vendors, walked>>

(* _lookup_mac_vendor, one address block after the other.                  *)
Lookup(o, known) ==
  /\ stage = "vendors"
  /\ o \in lookups
  /\ lookups' = lookups \ {o}
  /\ vendors' = IF known THEN vendors \cup {o} ELSE vendors
  /\ UNCHANGED <<rows, open, cut, stage, ports, vlans, walked>>

Return ==
  /\ stage = "vendors"
  /\ lookups = {}
  /\ stage' = "done"
  /\ UNCHANGED <<rows, open, cut, result, walked>>

-----------------------------------------------------------------------------
(* The switch meanwhile: cables are moved, members of a stack restart.     *)
Change(s) ==
  /\ stage \in {"descr", "tables"}
  /\ changes < MaxChanges
  /\ <<sw, s>> \in Futures
  /\ changes' = changes + 1
  /\ sw' = s
  /\ seen' = [t \in Tables |-> seen[t] \cup Pairs(s[t])]
  /\ UNCHANGED <<rows, open, cut, stage, result>>

Init ==
  /\ sw \in Switches
  /\ seen = [t \in Tables |-> Pairs(sw[t])]
  /\ rows = [t \in Tables |-> Empty]
  /\ open = {"ifDescr"}
  /\ cut = {}
  /\ stage = "descr"
  /\ ports = Empty
  /\ vlans = Empty
  /\ lookups = {}
  /\ vendors = {}
  /\ changes = 0

Discover ==
  \/ \E t \in Tables : Receive(t) \/ BreakOff(t)
  \/ DescrWalked \/ Join \/ Return
  \/ \E o \in lookups, known \in BOOLEAN : Lookup(o, known)

Next == Discover \/ \E s \in Switches : Change(s)

Spec == Init /\ [][Next]_vars /\ WF_vars(Discover)

-----------------------------------------------------------------------------
(* Properties.                                                             *)

(* A walk keeps at most MaxRows rows; the stages and the tables agree.     *)
TypeOK ==
  /\ \A t \in Tables : DOMAIN rows[t] \subseteq Nat \ {0}
                      /\ Cardinality(DOMAIN rows[t]) <= MaxRows
  /\ open \subseteq Tables /\ cut \subseteq Tables
  /\ stage \in {"descr", "tables", "vendors", "done"}
  /\ stage = "descr" => open \subseteq {"ifDescr"}
  /\ stage \in {"vendors", "done"} => open = {}

Row(t, i, v) == <<i, v>> \in seen[t]

(* Whatever the switch does meanwhile and whichever walks break off, each  *)
(* value of a port was at some moment of the discovery the one of its own  *)
(* index, and its MAC address was on a bridge port of that interface; the  *)
(* values of a port need not all be of one moment.                         *)
FieldsWereTrue ==
  \A i \in DOMAIN ports :
    /\ Row("ifDescr", i, ports[i].name)
    /\ ports[i].link_up => Row("ifOper", i, "up")
    /\ ports[i].access # None => Row("pvid", i, ports[i].access)
    /\ ports[i].mac # None =>
         \E p \in seen["fdbPort"] :
           p[1] = ports[i].mac /\ (p[2] = i \/ Row("basePortIfIndex", p[2], i))
    /\ ports[i].neighbor # None =>
         \E p \in seen["lldpSysName"] :
           LocalPort(p[1]) = i /\ p[2] = ports[i].neighbor

(* The tables of the switch agree: every address has a status and is on a  *)
(* bridge port, and every bridge port is that of an interface.             *)
Consistent ==
  /\ DOMAIN sw.fdbStatus = DOMAIN sw.fdbPort
  /\ \A m \in DOMAIN sw.fdbPort : /\ sw.fdbStatus[m] \in Own \cup {"learned"}
                                  /\ sw.fdbPort[m] \in DOMAIN sw.basePortIfIndex
  /\ DOMAIN sw.pvid \subseteq DOMAIN sw.basePortIfIndex
  /\ \A b \in DOMAIN sw.basePortIfIndex : sw.basePortIfIndex[b] \in Nat \ {0}

(* What is on the switch, read from the interface to its bridge port.      *)
Learned(i) == {m \in DOMAIN sw.fdbPort : sw.fdbStatus[m] = "learned"
                                        /\ sw.basePortIfIndex[sw.fdbPort[m]] = i}

MacOf(i) == IF Learned(i) = {} THEN None ELSE First(Learned(i))

Vlan(i) == LET B == {b \in DOMAIN sw.pvid :
                       sw.basePortIfIndex[b] = i /\ sw.pvid[b] # 0}
           IN IF B = {} THEN None ELSE sw.pvid[First(B)]

PhysicalPorts == {i \in DOMAIN sw.ifDescr \cap DOMAIN sw.ifType :
                    sw.ifType[i] \in Physical}

LinkUp(i) == i \in DOMAIN sw.ifOper /\ sw.ifOper[i] = "up"

(* snmp.py:343 "Assumes bridge_port == ifIndex".                           *)
NumberedAlike ==
  \A b \in DOMAIN sw.basePortIfIndex : sw.basePortIfIndex[b] = b

Steady == changes = 0 /\ stage \in {"vendors", "done"} /\ Consistent

(* Of a switch that holds still, complete walks give exactly its physical  *)
(* ports with their link and their first device that is not the switch     *)
(* itself, however the bridge ports are numbered, and their VLAN if they   *)
(* are numbered as the interfaces are.                                     *)
SteadyIsExact ==
  Steady /\ cut = {} =>
    /\ DOMAIN ports = PhysicalPorts
    /\ \A i \in DOMAIN ports :
         /\ ports[i].name = sw.ifDescr[i]
         /\ ports[i].link_up <=> LinkUp(i)
         /\ ports[i].mac = MacOf(i)
         /\ NumberedAlike => ports[i].access = Vlan(i)

(* The walk of the address status ended at its table's end or at the limit.*)
StatusesKept ==
  "fdbStatus" \in cut => Cardinality(DOMAIN rows["fdbStatus"]) = MaxRows

(* Walks that break off hide what they would have found but make nothing   *)
(* up, on a switch numbered alike, even if the limit cuts both the address *)
(* table and the one that tells the switch's own addresses apart (only if  *)
(* that one breaks off do these show; and a link that was not read counts  *)
(* as down, snmp.py:472).                                                  *)
LossOnlyHides ==
  Steady /\ NumberedAlike /\ StatusesKept =>
    \A i \in DOMAIN ports :
      /\ i \in PhysicalPorts
      /\ ports[i].link_up => LinkUp(i)
      /\ ports[i].mac \in {None, MacOf(i)}
      /\ ports[i].access \in {None, Vlan(i)}

(* Every discovery ends, also of a switch that stops answering.            *)
DiscoveryReturns == <>(stage = "done")
=============================================================================
