-------------------------- MODULE MCDeviceRegistry --------------------------
(***************************************************************************)
(* Small instances of DeviceRegistry.  The .cfg of a run picks one of each *)
(* kind of definition below for the constants a .cfg cannot write.         *)
(***************************************************************************)
EXTENDS DeviceRegistry, TLC

CONSTANTS h1, h2, w1, w2, a, b, c

-----------------------------------------------------------------------------
(* Rows to start from.                                                     *)

Fresh(addr, type) ==
  [addr |-> addr, type |-> type, enabled |-> TRUE,
   status |-> "unknown", error |-> None, firmware |-> None]

Down(addr, type, enabled) ==
  [addr |-> addr, type |-> type, enabled |-> enabled,
   status |-> "offline", error |-> "timeout", firmware |-> None]

Up(addr, type) ==
  [addr |-> addr, type |-> type, enabled |-> TRUE,
   status |-> "online", error |-> None, firmware |-> {type}]

OneFresh      == 1 :> Fresh(a, "ap")
SwitchAndAP   == 1 :> Up(a, "switch") @@ 2 :> Fresh(b, "other")
TwoFresh      == 1 :> Fresh(a, "other") @@ 2 :> Fresh(b, "ap")
TwoDown       == 1 :> Down(a, "ap", TRUE) @@ 2 :> Down(b, "ap", TRUE)

-----------------------------------------------------------------------------
(* What poll_device returns.                                               *)

Answers(words, load) ==
  [reachable |-> TRUE, descr |-> words, error |-> None, load |-> load]

Fails(error) ==
  [reachable |-> FALSE, descr |-> {}, error |-> error, load |-> "normal"]

UpOrDown   == {Answers({"switch"}, "normal"), Fails("timeout")}
UpHighDown == {Answers({"ap", "switch"}, "high"), Answers({}, "normal"),
               Fails("timeout")}
UpOrErrors == {Answers({"switch"}, "normal"), Fails("timeout"),
               Fails("transport")}

-----------------------------------------------------------------------------
(* What requests carry.                                                    *)

Submit(addr, type, enabled) ==
  [addr |-> addr, type |-> type, enabled |-> enabled]

MoveToC    == {Submit(c, "ap", TRUE)}
MoveOrSwap == {Submit(c, "ap", TRUE), Submit(a, "switch", FALSE)}

-----------------------------------------------------------------------------
(* Slots are interchangeable; only runs without liveness properties use it.*)
Interchangeable == Permutations(Handlers) \cup Permutations(Workers)
=============================================================================
