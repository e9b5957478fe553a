----------------------------- MODULE MCTelemetry -----------------------------
(***************************************************************************)
(* An access point of the Aruba MIB and a box that has only core loads.    *)
(***************************************************************************)
EXTENDS Telemetry, TLC

CONSTANTS ap, box, r1, r2, r3, r4

Down == [up |-> FALSE, cpu |-> None, mem |-> None, cores |-> <<>>]

(* Two readings at a threshold; the cores would say something else.        *)
Hot  == [up |-> TRUE, cpu |-> <<90, 1>>, mem |-> <<75, 1>>, cores |-> <<10, 20>>]

(* The third core reports no number, the fourth is past the limit; the     *)
(* mean of the two that count is at the threshold.                         *)
Cores == [up |-> TRUE, cpu |-> None, mem |-> <<74, 1>>, cores |-> <<60, 80, None, 100>>]

MCAgents == (ap :> {Down, Hot}) @@ (box :> {Down, Hot, Cores})
MCFutures == {<<Down, Hot>>, <<Hot, Down>>, <<Hot, Cores>>, <<Cores, Hot>>}

(* Two radios share a channel; a third one and one of the box, which is no *)
(* access point, come to it.                                               *)
MCRadios ==
  [r \in {r1, r2, r3, r4} |->
     CASE r = r1 -> [dev |-> ap, band |-> "5", channel |-> 36,
                     util |-> <<80, 1>>, noise |-> -75]
       [] r = r2 -> [dev |-> ap, band |-> "5", channel |-> 36,
                     util |-> <<79, 1>>, noise |-> -74]
       [] r = r3 -> [dev |-> ap, band |-> "5", channel |-> 36,
                     util |-> <<60, 1>>, noise |-> None]
       [] r = r4 -> [dev |-> box, band |-> "5", channel |-> 36,
                     util |-> <<59, 1>>, noise |-> -80]]
=============================================================================
