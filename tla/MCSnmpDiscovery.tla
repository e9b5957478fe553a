--------------------------- MODULE MCSnmpDiscovery ---------------------------
(***************************************************************************)
(* A switch of two ports and a management interface, before and after some *)
(* changes; one that numbers its bridge ports the other way round; one     *)
(* that serves nothing.                                                    *)
(***************************************************************************)
EXTENDS SnmpDiscovery, TLC

Eth == "ethernetCsmacd"

(* Addresses 1 (the switch's own), 2 and 3; ports 1 and 2; a neighbour was *)
(* first seen on port 1, later another one.                                *)
Plain ==
  [ifDescr         |-> 1 :> "a" @@ 2 :> "b" @@ 3 :> "mgmt",
   ifType          |-> 1 :> Eth @@ 2 :> Eth,
   ifOper          |-> 1 :> "up" @@ 2 :> "down",
   pvid            |-> 1 :> 10 @@ 2 :> 0,
   vlanName        |-> 10 :> "lab",
   lldpSysName     |-> 21 :> "core",
   fdbPort         |-> 1 :> 1 @@ 2 :> 1 @@ 3 :> 2,
   fdbStatus       |-> 1 :> "self" @@ 2 :> "learned" @@ 3 :> "learned",
   basePortIfIndex |-> 1 :> 1 @@ 2 :> 2]

(* The devices have changed places, so has the neighbour.                  *)
Recabled ==
  [Plain EXCEPT !.ifOper = 1 :> "down" @@ 2 :> "up", !.pvid = 1 :> 20 @@ 2 :> 10,
                !.lldpSysName = 32 :> "core",
                !.fdbPort = 1 :> 2 @@ 2 :> 2 @@ 3 :> 1]

(* The same switch after a restart that numbered its interfaces anew.      *)
Renumbered ==
  [Plain EXCEPT !.ifDescr = 1 :> "b" @@ 2 :> "a" @@ 3 :> "mgmt",
                !.ifOper = 1 :> "down" @@ 2 :> "up",
                !.basePortIfIndex = 1 :> 2 @@ 2 :> 1]

(* A switch with more addresses than a walk keeps.                         *)
Crowded ==
  [Plain EXCEPT !.fdbPort = 1 :> 1 @@ 2 :> 1 @@ 3 :> 2 @@ 4 :> 2 @@ 5 :> 1,
                !.fdbStatus = 1 :> "self" @@ 2 :> "learned" @@ 3 :> "learned"
                                @@ 4 :> "learned" @@ 5 :> "learned"]

Bare == [t \in Tables |-> Empty]

AllSwitches == {Plain, Recabled, Renumbered, Crowded, Bare}
AllFutures  == {<<Plain, Recabled>>, <<Plain, Renumbered>>, <<Bare, Plain>>}

(* Addresses 2 and 3 are of different vendors.                             *)
Oui(m) == m \div 3
=============================================================================
