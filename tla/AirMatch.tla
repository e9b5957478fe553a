------------------------------ MODULE AirMatch ------------------------------
(***************************************************************************)
(* The channel and power planner, plan_airmatch: a pass over one band      *)
(* reads the radios of the access points, completes them with entries for  *)
(* access points without radios, and gives each radio in turn, busiest     *)
(* first, the channel that costs it least given what its neighbours hold   *)
(* by then.                                                                *)
(*                                                                         *)
(* Its two SELECTs see what is committed when each of them runs, so edits  *)
(* of the inventory can fall between them.  From then on the pass works on *)
(* its own copy.  Utilisation and noise are whole percent and dBm.         *)
(***************************************************************************)
EXTENDS Integers, FiniteSets, FiniteSetsExt, Sequences, Functions

CONSTANTS
  DevIds,         (* Row ids of devices.                                   *)
  Sites,          (* Values of devices.site.                               *)
  Channels,       (* Channel numbers a radio may be found on.              *)
  Readings,       (* What a radio row holds.                               *)
  Installations,  (* The tables devices and radios a run starts from, with *)
                  (* the passes and the edits it may see.                  *)
  Asks,           (* The band and allow_dfs of requests.                   *)
  None            (* SQL NULL, Python None.                                *)

Bands == {"2.4", "5", "6"}

Channels24   == <<1, 6, 11>>
Channels5    == <<36, 40, 44, 48, 149, 153, 157, 161, 165>>
Channels5DFS == <<52, 56, 60, 64, 100, 104, 108, 112, 116, 132, 136, 140>>
Channels6    == [i \in 1 .. 16 |-> 4 * i - 3]

(* A device is active when it is enabled and of type AP.                   *)
Device  == [active : BOOLEAN, site : Sites]
Reading == [channel : Channels \cup {None}, util : 0 .. 100 \cup {None},
            noise : -120 .. 0 \cup {None}]
Ask     == [band : Bands, dfs : BOOLEAN]

(* A RadioInput; a pass has at most one per device.                        *)
RadioInput == [site : Sites, channel : Channels \cup {None},
               util : 0 .. 100 \cup {None}, noise : -120 .. 0 \cup {None},
               synthetic : BOOLEAN]

ASSUME DevIdsAssumption == IsFiniteSet(DevIds) /\ DevIds \subseteq Nat

ASSUME ChannelsAssumption == Channels \subseteq Nat /\ None \notin Int

ASSUME AsksAssumption == Asks \subseteq Ask /\ Readings \subseteq Reading

(* A device has at most one radio per band: seed_demo.py, the only code    *)
(* that writes radios, replaces those of a device by one of each band.     *)
ASSUME InstallationsAssumption ==
  \A t \in Installations :
    /\ DOMAIN t.devices \subseteq DevIds
    /\ t.devices \in [DOMAIN t.devices -> Device]
    /\ DOMAIN t.radios \subseteq (DOMAIN t.devices) \X Bands
    /\ t.radios \in [DOMAIN t.radios -> Reading]
    /\ t.passes \in Nat /\ t.edits \in Nat

VARIABLES
  devices,  (* Table devices: row id -> row.                               *)
  radios,   (* Table radios: device and band -> row.                       *)
  phase,    (* Where the pass is.                                          *)
  ask,      (* Its band and allow_dfs.                                     *)
  owners,   (* devices_with_radio.                                         *)
  fleet,    (* The RadioInputs gathered, by device.                        *)
  plan,     (* The RadioPlans made so far, by device.                      *)
  passes,   (* Bound: passes still to come.                                *)
  edits     (* Bound: edits of the inventory still to come.                *)

vars == <<devices, radios, phase, ask, owners, fleet, plan, passes, edits>>

inventory == <<devices, radios, edits>>

-----------------------------------------------------------------------------
(* The cost of a channel.                                                  *)

Candidates(a) ==
  CASE a.band = "2.4"          -> Channels24
    [] a.band = "5" /\ ~a.dfs  -> Channels5
    [] a.band = "5" /\ a.dfs   -> Channels5 \o Channels5DFS
    [] a.band = "6"            -> Channels6

Offered == Range(Candidates(ask))

IsAdjacent(x, y) == x # y /\ x - y \in -4 .. 4

(* Every radio of another device of the same site is heard.                *)
Neighbors(d) == {e \in DOMAIN fleet : e # d /\ fleet[e].site = fleet[d].site}

Unplanned(e) == fleet[e].channel  \* mutant: assignments are not looked up

(* A neighbour counts with its new channel once it has one.                *)
Heard(e) == IF e \in DOMAIN plan THEN plan[e].channel ELSE fleet[e].channel

OnChannel(d, c) == {e \in Neighbors(d) : Heard(e) = c}

Beside(d, c) ==
  {e \in Neighbors(d) : Heard(e) # None /\ IsAdjacent(Heard(e), c)}

Util(r) == IF r.util = None THEN 0 ELSE r.util

Noise(r) == IF r.noise = None \/ r.noise < -90 THEN 0 ELSE r.noise + 90

(* What a radio knows of the channel it is on.                             *)
Own(r, c) ==
  IF r.channel # c THEN 0
  ELSE Util(r) + Noise(r) - (IF Util(r) < 40 THEN 5 ELSE 0)

CoChannelOnly(d, c) ==  \* mutant: adjacent channels cost nothing
  Own(fleet[d], c) + 25 * Cardinality(OnChannel(d, c))

ChannelCost(d, c) ==
  Own(fleet[d], c) + 25 * Cardinality(OnChannel(d, c))
                   + 10 * Cardinality(Beside(d, c))

KeepsQuiet(d, c) ==  \* mutant: a quiet radio keeps whatever channel it has
  IF Util(fleet[d]) < 5 /\ fleet[d].channel # None
    THEN c = fleet[d].channel
    ELSE c \in Offered /\ \A x \in Offered : ChannelCost(d, c) <= ChannelCost(d, x)

(* The stable sort puts the first of the cheapest candidates in front.     *)
IsBest(d, c) ==
  \E i \in DOMAIN Candidates(ask) :
    /\ c = Candidates(ask)[i]
    /\ \A j \in DOMAIN Candidates(ask) :
         LET x == Candidates(ask)[j]
         IN IF j < i THEN ChannelCost(d, c) < ChannelCost(d, x)
                     ELSE ChannelCost(d, c) <= ChannelCost(d, x)

TroubleScore(d) == Util(fleet[d]) + 5 * Cardinality(Neighbors(d))

(* The final clamp to 6 .. 23 dBm never binds.                             *)
SuggestTxPower(assigned) ==
  15 - (CASE assigned >= 4 -> 4 [] assigned \in 2 .. 3 -> 2 [] assigned < 2 -> 0)
     - (IF ask.band = "2.4" THEN 2 ELSE 0)

-----------------------------------------------------------------------------
(* A pass.                                                                 *)

Active == {d \in DOMAIN devices : devices[d].active}

Entry(d, r) ==
  [site |-> devices[d].site, channel |-> r.channel, util |-> r.util,
   noise |-> r.noise, synthetic |-> FALSE]

Synthetic(d) ==
  [site |-> devices[d].site, channel |-> None, util |-> None, noise |-> None,
   synthetic |-> TRUE]

(* The first SELECT joins radios and active devices.                       *)
GatherRadios(a) ==
  /\ phase = "idle"
  /\ passes > 0
  /\ ask' = a
  /\ owners' = {d \in Active : \E b \in Bands : <<d, b>> \in DOMAIN radios}
  /\ fleet' = [d \in {e \in Active : <<e, a.band>> \in DOMAIN radios} |->
                Entry(d, radios[<<d, a.band>>])]
  /\ phase' = "gathering"
  /\ UNCHANGED <<plan, passes, inventory>>

(* The second SELECT lists the active devices; those the first one found   *)
(* no radio of get an entry that knows nothing.                            *)
GatherAPs ==
  LET bare == Active \ owners
  IN /\ phase = "gathering"
     /\ fleet' = [d \in DOMAIN fleet \cup bare |->
                    IF d \in DOMAIN fleet THEN fleet[d] ELSE Synthetic(d)]
     /\ phase' = IF DOMAIN fleet \cup bare = {} THEN "idle" ELSE "planning"
     /\ plan' = [d \in {} |-> None]
     /\ UNCHANGED <<ask, owners, passes, inventory>>

Left == DOMAIN fleet \ DOMAIN plan

(* Radios come busiest first; rows the SELECTs may return in any order     *)
(* come in any order among equals.                                         *)
Assign(d, c) ==
  /\ phase = "planning"
  /\ \A e \in Left : TroubleScore(e) <= TroubleScore(d)
  /\ IsBest(d, c)
  /\ plan' = [e \in DOMAIN plan \cup {d} |->
                IF e # d THEN plan[e]
                ELSE [channel |-> c,
                      tx |-> SuggestTxPower(
                               Cardinality(Neighbors(d) \cap DOMAIN plan))]]
  /\ UNCHANGED <<phase, ask, owners, fleet, passes, inventory>>

(* The plan is stored as a row of airmatch_runs.                           *)
Store ==
  /\ phase = "planning"
  /\ Left = {}
  /\ passes' = passes - 1
  /\ phase' = "idle"
  /\ UNCHANGED <<ask, owners, fleet, plan, inventory>>

-----------------------------------------------------------------------------
(* Edits of the inventory while a pass runs.                               *)

Edit ==
  /\ edits > 0
  /\ edits' = edits - 1
  /\ UNCHANGED <<phase, ask, owners, fleet, plan, passes>>

(* A device is created, or edited: enabled, disabled, retyped or moved.    *)
PutDevice(d, row) ==
  /\ Edit
  /\ devices' = [e \in DOMAIN devices \cup {d} |->
                   IF e = d THEN row ELSE devices[e]]
  /\ UNCHANGED radios

DeleteDevice(d) ==
  /\ Edit
  /\ d \in DOMAIN devices
  /\ devices' = Restrict(devices, DOMAIN devices \ {d})
  /\ radios' = Restrict(radios, DOMAIN radios \ ({d} \X Bands))

(* seed_demo.py replaces the radios of a device by one of 2.4 and 5 GHz.   *)
Reseed(d, low, high) ==
  /\ Edit
  /\ d \in DOMAIN devices
  /\ radios' = [x \in (DOMAIN radios \ ({d} \X Bands)) \cup {<<d, "2.4">>, <<d, "5">>}
                  |-> CASE x = <<d, "2.4">> -> low
                        [] x = <<d, "5">>   -> high
                        [] OTHER            -> radios[x]]
  /\ UNCHANGED devices

-----------------------------------------------------------------------------
Init ==
  /\ \E t \in Installations : /\ devices = t.devices /\ radios = t.radios
                              /\ passes = t.passes /\ edits = t.edits
  /\ phase = "idle"
  /\ ask \in Asks
  /\ owners = {}
  /\ fleet = [d \in {} |-> None]
  /\ plan = [d \in {} |-> None]

Pass ==
  \/ \E a \in Asks : GatherRadios(a)
  \/ GatherAPs
  \/ \E d \in Left, c \in Channels \cup Offered : Assign(d, c)
  \/ Store

Edits ==
  \E d \in DevIds :
    \/ \E row \in Device : PutDevice(d, row)
    \/ DeleteDevice(d)
    \/ \E low, high \in Readings : Reseed(d, low, high)

Next == Pass \/ Edits

Spec == Init /\ [][Next]_vars

-----------------------------------------------------------------------------
(* Properties.                                                             *)

(* The tables, the gathered radios and the plan hold what they should, and *)
(* a plan only ever names channels that were asked for.                    *)
TypeOK ==
  /\ DOMAIN devices \subseteq DevIds /\ devices \in [DOMAIN devices -> Device]
  /\ DOMAIN radios \subseteq (DevIds \X Bands)
  /\ radios \in [DOMAIN radios -> Reading]
  /\ phase \in {"idle", "gathering", "planning"}
  /\ ask \in Ask
  /\ owners \subseteq DevIds
  /\ DOMAIN fleet \subseteq DevIds /\ fleet \in [DOMAIN fleet -> RadioInput]
  /\ phase = "planning" =>
       /\ DOMAIN plan \subseteq DOMAIN fleet
       /\ plan \in [DOMAIN plan -> [channel : Offered, tx : 9 .. 15]]
  /\ passes \in Nat /\ (phase # "idle" => passes > 0)
  /\ edits \in Nat

Planned(d) == phase = "planning" /\ d \in Left /\ d \in DOMAIN plan'

(* A channel clear of every neighbour, other than the radio's own.         *)
IsClean(d, c) ==
  /\ c \in Offered
  /\ c # fleet[d].channel
  /\ OnChannel(d, c) = {} /\ Beside(d, c) = {}

(* airmatch.py:9 counts co-channel and adjacent-channel neighbours: a      *)
(* radio is never put on or beside a neighbour's channel while a channel   *)
(* clear of all of them is on offer, however good its own channel looks.   *)
CleanChannelChosen ==
  [][\A d \in DevIds :
       /\ Planned(d)
       /\ \E c \in Offered : IsClean(d, c)
       => LET c == plan'[d].channel
          IN OnChannel(d, c) = {} /\ Beside(d, c) = {}]_vars

(* Two radios that hear nobody else end up clear of each other, whatever   *)
(* they were on and however busy: the second is placed after the first.    *)
PairsSpread ==
  phase = "planning" =>
    \A d, e \in DOMAIN plan :
      Neighbors(d) = {e} =>
        /\ plan[d].channel # plan[e].channel
        /\ ~IsAdjacent(plan[d].channel, plan[e].channel)

Tuned == {d \in DOMAIN fleet : Heard(d) # None}

Weight(x, y) == IF x = y THEN 25 ELSE IF IsAdjacent(x, y) THEN 10 ELSE 0

Suffers == [d \in Tuned |-> Own(fleet[d], Heard(d))]

(* Pairs of radios that hear each other, each once.                        *)
Pairs == {p \in Tuned \X Tuned : p[1] < p[2] /\ p[2] \in Neighbors(p[1])}

Overlaps == [p \in Pairs |-> Weight(Heard(p[1]), Heard(p[2]))]

(* The total of what the radios suffer on the channels they are to have.   *)
Contention ==
  MapThenSumSet(LAMBDA d : Suffers[d], Tuned)
    + MapThenSumSet(LAMBDA p : Overlaps[p], Pairs)

(* Moving one radio for its own good never makes the whole band worse: a   *)
(* radio that is on one of the offered channels leaves the total no higher.*)
ContentionNeverGrows ==
  [][\A d \in DevIds :
       Planned(d) /\ fleet[d].channel \in Offered
         => Contention' <= Contention]_vars
=============================================================================
