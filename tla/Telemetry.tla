------------------------------ MODULE Telemetry ------------------------------
(***************************************************************************)
(* From what a device answers to what is said of it: poll_device reads one *)
(* value after the other, the poll is stored as a sample and a status, and *)
(* recompute_insights applies its rules to the newest sample and the       *)
(* radios.                                                                 *)
(*                                                                         *)
(* A device may change between two readings and any reading may be lost;   *)
(* polls of one device overlap; storing and recomputing may fail on a      *)
(* locked database; the clock that orders the samples may be set back.     *)
(*                                                                         *)
(* Of the samples of a device only the newest is kept, the one the rules   *)
(* read.  A percentage is a pair <<sum, number of values>>.  The polls of  *)
(* a cycle can read their row, as they do with expire_on_commit off        *)
(* (DeviceRegistry has the session both ways).                             *)
(***************************************************************************)
EXTENDS Integers, Sequences, FiniteSets, FiniteSetsExt

CONSTANTS
  Devices,     (* The enabled devices.                                     *)
  Aps,         (* Those that are access points.                            *)
  Agents,      (* What each device may be: a set of [up, cpu, mem, cores]. *)
  Futures,     (* Which agent may follow which.                            *)
  Radios,      (* Radios: id -> [dev, band, channel, util, noise].         *)
  InitRadios,  (* Those in the table at the start.                         *)
  MaxCores,    (* Rows of hrProcessorLoad that are read: 8.                *)
  MaxTroubles, (* Bound on changes of a device or the radios, readings     *)
               (* lost, transactions failed, polls started by hand and     *)
               (* times the clock is set back, taken together.             *)
  None

Percent == (Int \X (Nat \ {0})) \cup {None}

Agent == [up : BOOLEAN, cpu : Percent, mem : Percent, cores : Seq(Int \cup {None})]

Sample == [cpu : Percent, mem : Percent, under : SUBSET UNION {Agents[d] : d \in Devices}]

Bands == {"2.4", "5", "6"}

ASSUME AgentsAssumption == \A d \in Devices : \A a \in Agents[d] : a \in Agent

(* models.py has the three bands in the comment on radios.band, and        *)
(* seed_demo.py writes no other.                                           *)
ASSUME RadiosAssumption ==
  /\ InitRadios \subseteq DOMAIN Radios
  /\ \A r \in DOMAIN Radios : /\ Radios[r].band \in Bands
                              /\ Radios[r].util \in Percent
                              /\ Radios[r].noise \in Int \cup {None}

ASSUME NamesAssumption == None # TRUE /\ None \notin Sample /\ Devices \cap Bands = {}

VARIABLES
  agent,     (* What each device would answer now.                         *)
  radios,    (* The radios in the table.                                   *)
  poll,      (* The polls of each device, by kind.                         *)
  cycle,     (* "waiting" or "polling".                                    *)
  status,    (* devices.status.                                            *)
  newest,    (* The sample of the greatest timestamp, per device.          *)
  behind,    (* Devices whose newest sample is in the clock's future.      *)
  insights,  (* <<device or band, kind, subject, severity>>.               *)
  steady,    (* History: nothing has disturbed the cycle since it began.   *)
  troubles   (* How much of that there has been.                           *)

vars == <<agent, radios, poll, cycle, status, newest, behind, insights,
          steady, troubles>>

stored == <<status, newest, insights>>
world  == <<agent, radios, behind>>

(* The task of a cycle, device_poll and switch_discover.                   *)
Polls == {"cycle", "manual", "discover"} \X Devices

Idle == [at |-> "idle", cpu |-> None, mem |-> None, under |-> {}]

Fresh(d) == [at |-> "descr", cpu |-> None, mem |-> None, under |-> {agent[d]}]

-----------------------------------------------------------------------------
(* poll_device.                                                            *)

(* A reading of a value v: v, or None if it is lost.                       *)
Reading(v, r) ==
  \/ /\ r = v
     /\ UNCHANGED <<troubles, steady>>
  \/ /\ troubles < MaxTroubles
     /\ r = None
     /\ troubles' = troubles + 1
     /\ steady' = FALSE

Numbers(cores) == {i \in DOMAIN cores : i <= MaxCores /\ cores[i] # None}

SumOfLoads(cores) ==  \* mutant: the loads are added up and not divided
  LET S == Numbers(cores)
  IN IF S = {} THEN None ELSE <<MapThenSumSet(LAMBDA i : cores[i], S), 1>>

(* The mean of the loads that are numbers.                                 *)
MeanLoad(cores) ==
  LET S == Numbers(cores)
  IN IF S = {} THEN None
     ELSE <<MapThenSumSet(LAMBDA i : cores[i], S), Cardinality(S)>>

(* sysDescr first: without it the device is not reachable.                 *)
ReadDescr(p) ==
  /\ poll[p].at = "descr"
  /\ \E r \in {TRUE, None} :
       /\ IF agent[p[2]].up THEN Reading(TRUE, r)
          ELSE r = None /\ UNCHANGED <<troubles, steady>>
       /\ poll' = [poll EXCEPT ![p].at = IF r = None THEN "unreachable" ELSE "cpu"]
  /\ UNCHANGED <<cycle, stored, world>>

(* Then the values, one by one; a device that has gone answers none.       *)
Value(d, v) == IF agent[d].up THEN v ELSE None

ReadCpu(p) ==
  /\ poll[p].at = "cpu"
  /\ \E r \in {Value(p[2], agent[p[2]].cpu), None} :
       /\ Reading(Value(p[2], agent[p[2]].cpu), r)
       /\ poll' = [poll EXCEPT ![p].at = "mem", ![p].cpu = r]
  /\ UNCHANGED <<cycle, stored, world>>

ReadMem(p) ==
  /\ poll[p].at = "mem"
  /\ \E r \in {Value(p[2], agent[p[2]].mem), None} :
       /\ Reading(Value(p[2], agent[p[2]].mem), r)
       /\ poll' = [poll EXCEPT ![p].mem = r,
                               ![p].at = IF poll[p].cpu = None THEN "cores" ELSE "store"]
  /\ UNCHANGED <<cycle, stored, world>>

(* The cores are asked for only if there is no value of the Aruba MIB.     *)
ReadCores(p) ==
  /\ poll[p].at = "cores"
  /\ LET v == Value(p[2], MeanLoad(agent[p[2]].cores))
     IN \E r \in {v, None} :
          /\ Reading(v, r)
          /\ poll' = [poll EXCEPT ![p].at = "store", ![p].cpu = r]
  /\ UNCHANGED <<cycle, stored, world>>

-----------------------------------------------------------------------------
(* The poll is stored, by _poll_one, device_poll or switch_discover; the   *)
(* last one sets the status and keeps no sample.                           *)

OldestStays(d, s) ==  \* mutant: the samples are read in ascending order
  IF newest[d] # None THEN newest[d] ELSE s

(* What is the newest sample of d once s is stored.                        *)
Newest(d, s) == IF d \in behind THEN newest[d] ELSE s

Store(p) ==
  LET d == p[2]
      s == [cpu |-> poll[p].cpu, mem |-> poll[p].mem, under |-> poll[p].under]
  IN /\ poll[p].at \in {"store", "unreachable"}
     /\ poll' = [poll EXCEPT ![p] = Idle]
     /\ status' = [status EXCEPT
                     ![d] = IF poll[p].at = "store" THEN "ONLINE" ELSE "OFFLINE"]
     /\ newest' = [newest EXCEPT ![d] = IF p[1] = "discover" THEN @ ELSE Newest(d, s)]
     /\ steady' = (steady /\ p[1] = "cycle")
     /\ UNCHANGED <<cycle, insights, world, troubles>>

(* The database is locked: nothing is stored and the cycle goes on.        *)
StoreFails(p) ==
  /\ poll[p].at \in {"store", "unreachable"}
  /\ troubles < MaxTroubles
  /\ troubles' = troubles + 1
  /\ steady' = FALSE
  /\ poll' = [poll EXCEPT ![p] = Idle]
  /\ UNCHANGED <<cycle, stored, world>>

(* A switch is walked before its poll is stored: the poll just stays at    *)
(* "store" meanwhile.                                                      *)
ManualPoll(p) ==
  /\ p[1] \in {"manual", "discover"} /\ ~ (p[1] = "discover" /\ p[2] \in Aps)
  /\ troubles < MaxTroubles
  /\ poll[p].at = "idle"
  /\ troubles' = troubles + 1
  /\ poll' = [poll EXCEPT ![p] = Fresh(p[2])]
  /\ UNCHANGED <<cycle, stored, world, steady>>

-----------------------------------------------------------------------------
(* The rules.                                                              *)

AtLeast(x, limit) == x[1] >= limit * x[2]

BothSteps(x, warn, crit) ==  \* mutant: a critical value is a warning, too
  IF x = None THEN {}
  ELSE {s \in {"warning", "critical"} : AtLeast(x, IF s = "warning" THEN warn ELSE crit)}

Severity(x, warn, crit) ==
  IF x = None THEN {}
  ELSE IF AtLeast(x, crit) THEN {"critical"}
  ELSE IF AtLeast(x, warn) THEN {"warning"} ELSE {}

Noisy(r) == Radios[r].noise # None /\ Radios[r].noise > -75

RadiosOf(d) == {r \in radios : Radios[r].dev = d}

Raise(d, kind, subject, severities) ==
  {<<d, kind, subject, s>> : s \in severities}

Offline(d) == Raise(d, "offline", None, {"critical"})

Busy(r) == Raise(Radios[r].dev, "util", r, Severity(Radios[r].util, 60, 80))

Noise(r) == Raise(Radios[r].dev, "noise", r, IF Noisy(r) THEN {"warning"} ELSE {})

Resources(d) ==
  Raise(d, "cpu", None, Severity(newest[d].cpu, 70, 90))
  \cup Raise(d, "mem", None, Severity(newest[d].mem, 75, 92))

OfflineGoesOn(d) ==  \* mutant: the rules are applied to a device that is offline
  IF newest[d] = None THEN {}
  ELSE (IF status[d] = "OFFLINE" THEN Offline(d) ELSE {})
       \cup Resources(d) \cup UNION {Busy(r) \cup Noise(r) : r \in RadiosOf(d)}

Evaluate(d) ==
  IF status[d] = "OFFLINE" THEN Offline(d)
  ELSE IF status[d] # "ONLINE" \/ newest[d] = None THEN {}
  ELSE Resources(d) \cup UNION {Busy(r) \cup Noise(r) : r \in RadiosOf(d)}

OnChannel(band, c) ==
  {r \in radios : /\ Radios[r].dev \in Aps
                  /\ Radios[r].band = band /\ Radios[r].channel = c}

(* Three radios of access points on one channel; of whatever status.       *)
CoChannel ==
  UNION {Raise(x[1], "cochannel", x[2], {"warning"}) :
           x \in {y \in Bands \X {Radios[r].channel : r \in radios} :
                    y[2] # None /\ Cardinality(OnChannel(y[1], y[2])) >= 3}}

Recompute == insights' = CoChannel \cup UNION {Evaluate(d) : d \in Devices}

-----------------------------------------------------------------------------
(* poll_all_once: every device is polled, then the insights are recomputed *)
(* (a cycle of no device does not reach it: see DeviceRegistry).           *)
CycleBegin ==
  /\ cycle = "waiting"
  /\ cycle' = "polling"
  /\ poll' = [p \in Polls |-> IF p[1] = "cycle" THEN Fresh(p[2]) ELSE poll[p]]
  /\ steady' = (behind = {})
  /\ UNCHANGED <<stored, world, troubles>>

CycleOver == cycle = "polling" /\ \A d \in Devices : poll[<<"cycle", d>>].at = "idle"

CycleEnd ==
  /\ CycleOver
  /\ cycle' = "waiting"
  /\ Recompute
  /\ UNCHANGED <<poll, status, newest, world, steady, troubles>>

RecomputeFails ==
  /\ CycleOver
  /\ troubles < MaxTroubles
  /\ troubles' = troubles + 1
  /\ steady' = FALSE
  /\ cycle' = "waiting"
  /\ UNCHANGED <<poll, stored, world>>

(* The button and the API recompute at any time.                           *)
RecomputeNow ==
  /\ Recompute
  /\ UNCHANGED <<poll, cycle, status, newest, world, steady, troubles>>

-----------------------------------------------------------------------------
(* The world meanwhile.                                                    *)

Change(d, a) ==
  /\ troubles < MaxTroubles
  /\ <<agent[d], a>> \in Futures
  /\ troubles' = troubles + 1
  /\ steady' = FALSE
  /\ agent' = [agent EXCEPT ![d] = a]
  /\ poll' = [p \in Polls |->
                IF p[2] = d /\ poll[p].at # "idle"
                  THEN [poll[p] EXCEPT !.under = @ \cup {a}] ELSE poll[p]]
  /\ UNCHANGED <<radios, behind, cycle, stored>>

(* seed_demo.py creates the radios of its access points, wherever they     *)
(* are missing, in one transaction and without a recompute.                *)
Seed ==
  /\ troubles < MaxTroubles
  /\ radios # DOMAIN Radios
  /\ troubles' = troubles + 1
  /\ steady' = FALSE
  /\ radios' = DOMAIN Radios
  /\ UNCHANGED <<agent, poll, behind, cycle, stored>>

SetBack ==
  /\ troubles < MaxTroubles
  /\ troubles' = troubles + 1
  /\ steady' = FALSE
  /\ behind' = {d \in Devices : newest[d] # None}
  /\ UNCHANGED <<agent, radios, poll, cycle, stored>>

(* The clock reaches the timestamp of the newest sample of d again.        *)
CatchUp(d) ==
  /\ d \in behind
  /\ behind' = behind \ {d}
  /\ UNCHANGED <<agent, radios, poll, cycle, stored, steady, troubles>>

Init ==
  /\ agent \in [Devices -> UNION {Agents[d] : d \in Devices}]
  /\ \A d \in Devices : agent[d] \in Agents[d]
  /\ radios = InitRadios
  /\ poll = [p \in Polls |-> Idle]
  /\ cycle = "waiting"
  /\ status = [d \in Devices |-> "UNKNOWN"]
  /\ newest = [d \in Devices |-> None]
  /\ behind = {}
  /\ insights = {}
  /\ steady = FALSE
  /\ troubles = 0

Step(p) ==
  \/ ReadDescr(p) \/ ReadCpu(p) \/ ReadMem(p) \/ ReadCores(p)
  \/ Store(p) \/ StoreFails(p)

Cycle == CycleBegin \/ CycleEnd \/ RecomputeFails

Next ==
  \/ Cycle \/ RecomputeNow \/ Seed \/ SetBack
  \/ \E p \in Polls : Step(p) \/ ManualPoll(p)
  \/ \E d \in Devices : CatchUp(d)
  \/ \E d \in Devices : \E a \in Agents[d] : Change(d, a)

(* The scheduler starts cycles, polls go on and time passes.               *)
Fairness ==
  /\ WF_vars(Cycle)
  /\ \A p \in Polls : WF_vars(Step(p))
  /\ \A d \in Devices : WF_vars(CatchUp(d))

Spec == Init /\ [][Next]_vars /\ Fairness

-----------------------------------------------------------------------------
(* Properties.                                                             *)

(* Each subject has one severity at most; a device that is said to be      *)
(* offline is said to be nothing else.                                     *)
TypeOK ==
  /\ \A p \in Polls : poll[p].at \in {"idle", "descr", "cpu", "mem", "cores",
                                      "store", "unreachable"}
  /\ cycle = "waiting" => \A d \in Devices : poll[<<"cycle", d>>].at = "idle"
  /\ \A d \in Devices : status[d] \in {"UNKNOWN", "ONLINE", "OFFLINE"}
  /\ \A x, y \in insights :
       /\ x[1] = y[1] /\ x[2] = y[2] /\ x[3] = y[3] => x = y
       /\ x[1] = y[1] /\ x[2] = "offline" => x = y

(* The device had the load at some moment of the poll, overall or on one   *)
(* of its cores.                                                           *)
HadLoad(A, limit) ==
  \E a \in A :
    \/ a.cpu # None /\ AtLeast(a.cpu, limit)
    \/ \E i \in Numbers(a.cores) : a.cores[i] >= limit

HadMem(A, limit) == \E a \in A : a.mem # None /\ AtLeast(a.mem, limit)

(* No false alarm: whatever was lost and however the device changed during *)
(* the poll, a sample that raises an insight shows a value the device had  *)
(* while that very poll ran.                                               *)
AlarmsWereTrue ==
  \A d \in Devices : newest[d] # None =>
    /\ \A limit \in {70, 90} :
         newest[d].cpu # None /\ AtLeast(newest[d].cpu, limit)
           => HadLoad(newest[d].under, limit)
    /\ \A limit \in {75, 92} :
         newest[d].mem # None /\ AtLeast(newest[d].mem, limit)
           => HadMem(newest[d].under, limit)

(* What the thresholds of insights.py:36-42 say of the devices as they     *)
(* are.                                                                    *)
Graded(d, kind, subject, v, warn, crit) ==
  {<<d, kind, subject, s>> : s \in {q \in {"warning", "critical"} :
     v # None /\ AtLeast(v, warn) /\ (q = "critical" <=> AtLeast(v, crit))}}

Load(a) == IF a.cpu # None THEN a.cpu ELSE MeanLoad(a.cores)

Up == {d \in Devices : agent[d].up}

Live == {r \in radios : Radios[r].dev \in Up}

Truth ==
  {<<d, "offline", None, "critical">> : d \in Devices \ Up}
  \cup (UNION {Graded(d, "cpu", None, Load(agent[d]), 70, 90)
               \cup Graded(d, "mem", None, agent[d].mem, 75, 92) : d \in Up})
  \cup (UNION {Graded(Radios[r].dev, "util", r, Radios[r].util, 60, 80) : r \in Live})
  \cup {<<Radios[r].dev, "noise", r, "warning">> :
          r \in {q \in Live : Radios[q].noise # None /\ Radios[q].noise >= -74}}
  \cup {<<Radios[r].band, "cochannel", Radios[r].channel, "warning">> :
          r \in {q \in radios : Radios[q].dev \in Aps /\ Radios[q].channel # None
                   /\ Cardinality(OnChannel(Radios[q].band, Radios[q].channel)) >= 3}}

(* README.md:87: after a cycle that nothing disturbed, the insights are    *)
(* exactly the truth, whatever went wrong before and whichever samples an  *)
(* earlier poll, a lost reading or the clock left behind.                  *)
SteadyIsTold == steady /\ cycle = "waiting" => insights = Truth

(* Once the devices hold still and answer, the insights become the truth   *)
(* and stay it: no alarm is missed or left over for good.                  *)
SettlesDown == <>[](insights = Truth)
=============================================================================
