---------------------------- MODULE MCSwitchPorts ----------------------------
(***************************************************************************)
(* Small instances of SwitchPorts.                                         *)
(***************************************************************************)
EXTENDS SwitchPorts

CONSTANTS h1, h2, p1, p2, x, y

OnPort(d, name, desc, mode, access) ==
  [device |-> d, name |-> name, desc |-> desc, mode |-> mode,
   access |-> access, link |-> "unknown"]

Sees(name, desc, access, link) ==
  [name |-> name, desc |-> desc, access |-> access, link |-> link]

Writes(name, desc, mode, access) ==
  [name |-> name, desc |-> desc, mode |-> mode, access |-> access,
   link |-> "unknown"]

OneVlan  == 1 :> 10
TwoVlans == 1 :> 10 @@ 2 :> 20

(* Two switches with a port of the same name.                              *)
TwoPorts == 1 :> OnPort(1, p1, None, "access", None)
              @@ 2 :> OnPort(2, p1, x, "trunk", 10)
OnePort  == 1 :> OnPort(1, p1, None, "access", 10)

Finds2  == [vlans |-> <<10, 20>>,
            ports |-> <<Sees(p1, y, 20, "up"), Sees(p2, None, None, "down")>>]
Finds1  == [vlans |-> <<20>>, ports |-> <<Sees(p1, None, 10, "down")>>]
Twice   == [vlans |-> <<>>,
            ports |-> <<Sees(p2, x, 10, "up"), Sees(p2, y, 20, "down")>>]

Nothing == [vlans |-> <<>>, ports |-> <<>>]

AllWalks == {Finds2, Finds1, Twice, Nothing}
OneWalk  == {Finds2}

TrunkForm    == {Writes(p1, None, "trunk", None)}
PortEdits    == TrunkForm \cup {Writes(p2, x, "access", 10)}

Interchangeable == Permutations(Handlers)
=============================================================================
