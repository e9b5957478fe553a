--------------------------- MODULE TelemetryProofs ---------------------------
(***************************************************************************)
(* For any devices, radios and readings: no alarm is raised for a value    *)
(* the device did not have during the poll, and after a cycle that nothing *)
(* disturbed the insights are the truth.                                   *)
(***************************************************************************)
EXTENDS Telemetry, Sums

Seen == UNION {Agents[d] : d \in Devices}

-----------------------------------------------------------------------------
(* Types.                                                                  *)

Stages == {"idle", "descr", "cpu", "mem", "cores", "store", "unreachable"}

PollRow == [at : Stages, cpu : Percent, mem : Percent, under : SUBSET Seen]

WorldOK ==
  /\ agent = [d \in Devices |-> agent[d]]
  /\ \A d \in Devices : agent[d] \in Agents[d]
  /\ radios \subseteq DOMAIN Radios

PollsOK ==
  /\ poll \in [Polls -> PollRow]
  /\ cycle \in {"waiting", "polling"}
  /\ cycle = "waiting" => \A d \in Devices : poll[<<"cycle", d>>].at = "idle"

StoredOK ==
  /\ status \in [Devices -> {"UNKNOWN", "ONLINE", "OFFLINE"}]
  /\ newest \in [Devices -> Sample \cup {None}]

(* Each subject has one severity at most, and a device that is offline no  *)
(* other insight.                                                          *)
OneEach(I) ==
  \A x, y \in I :
    /\ x[1] = y[1] /\ x[2] = y[2] /\ x[3] = y[3] => x = y
    /\ x[1] = y[1] /\ x[2] = "offline" => x = y

TInv == WorldOK /\ PollsOK /\ StoredOK /\ OneEach(insights)

(* The insights the rules give.                                            *)
Rules == CoChannel \cup UNION {Evaluate(d) : d \in Devices}

LEMMA SeverityIsOne ==
  ASSUME NEW x, NEW w, NEW c
  PROVE  \A s, t \in Severity(x, w, c) : s = t
  BY DEF Severity

(* What can be in Evaluate.                                                *)
LEMMA EvaluateIsOf ==
  ASSUME NEW d, NEW x \in Evaluate(d)
  PROVE  \/ /\ status[d] = "OFFLINE"
            /\ x = <<d, "offline", None, "critical">>
         \/ /\ status[d] = "ONLINE" /\ newest[d] # None
            /\ \/ \E s \in Severity(newest[d].cpu, 70, 90) : x = <<d, "cpu", None, s>>
               \/ \E s \in Severity(newest[d].mem, 75, 92) : x = <<d, "mem", None, s>>
               \/ \E r \in RadiosOf(d) :
                    \/ \E s \in Severity(Radios[r].util, 60, 80) : x = <<d, "util", r, s>>
                    \/ Noisy(r) /\ x = <<d, "noise", r, "warning">>
<1>1. CASE status[d] = "OFFLINE"
  BY <1>1 DEF Evaluate, Offline, Raise
<1>2. CASE status[d] # "OFFLINE"
  <2>1. status[d] = "ONLINE" /\ newest[d] # None
    BY <1>2 DEF Evaluate
  <2>2. x \in Resources(d) \/ \E r \in RadiosOf(d) : x \in Busy(r) \cup Noise(r)
    BY <2>1, <1>2 DEF Evaluate
  <2>3. CASE x \in Resources(d)
    BY <2>1, <2>3 DEF Resources, Raise
  <2>4. ASSUME NEW r \in RadiosOf(d), x \in Busy(r) \cup Noise(r)
        PROVE  \/ \E s \in Severity(Radios[r].util, 60, 80) : x = <<d, "util", r, s>>
               \/ Noisy(r) /\ x = <<d, "noise", r, "warning">>
    BY <2>4 DEF Busy, Noise, Raise, RadiosOf
  <2> QED BY <2>1, <2>2, <2>3, <2>4
<1> QED BY <1>1, <1>2

LEMMA CoChannelIsOf ==
  ASSUME NEW x \in CoChannel
  PROVE  \E b \in Bands : \E c : x = <<b, "cochannel", c, "warning">>
  BY DEF CoChannel, Raise

(* The rules of two devices never say the same.                            *)
LEMMA RulesAreOneEach == OneEach(Rules)
<1> SUFFICES ASSUME NEW x \in Rules, NEW y \in Rules
             PROVE  /\ x[1] = y[1] /\ x[2] = y[2] /\ x[3] = y[3] => x = y
                    /\ x[1] = y[1] /\ x[2] = "offline" => x = y
  BY DEF OneEach
<1>1. CASE \E d, e \in Devices : x \in Evaluate(d) /\ y \in Evaluate(e)
  <2>1. PICK d \in Devices, e \in Devices : x \in Evaluate(d) /\ y \in Evaluate(e)
    BY <1>1
  <2>2. x[1] = d /\ y[1] = e
    BY <2>1, EvaluateIsOf
  <2>3. CASE d # e
    BY <2>2, <2>3
  <2>4. CASE d = e
    <3>1. x \in Evaluate(d) /\ y \in Evaluate(d)
      BY <2>1, <2>4
    <3>2. CASE status[d] = "OFFLINE"
      BY <3>1, <3>2, EvaluateIsOf
    <3>3. CASE status[d] # "OFFLINE"
      <4> DEFINE Said(z) ==
            /\ z = <<d, z[2], z[3], z[4]>>
            /\ \/ /\ z[2] = "cpu" /\ z[3] = None
                  /\ z[4] \in Severity(newest[d].cpu, 70, 90)
               \/ /\ z[2] = "mem" /\ z[3] = None
                  /\ z[4] \in Severity(newest[d].mem, 75, 92)
               \/ z[2] = "util" /\ z[4] \in Severity(Radios[z[3]].util, 60, 80)
               \/ z[2] = "noise" /\ z[4] = "warning"
      <4>1. ASSUME NEW z \in Evaluate(d) PROVE Said(z)
        <5>1. \/ \E s \in Severity(newest[d].cpu, 70, 90) : z = <<d, "cpu", None, s>>
              \/ \E s \in Severity(newest[d].mem, 75, 92) : z = <<d, "mem", None, s>>
              \/ \E r \in RadiosOf(d) :
                   \/ \E s \in Severity(Radios[r].util, 60, 80) : z = <<d, "util", r, s>>
                   \/ z = <<d, "noise", r, "warning">>
          BY <3>3, EvaluateIsOf
        <5> QED BY <5>1
      <4>2. Said(x) /\ Said(y)
        BY <3>1, <4>1
      <4>3. x[2] # "offline"
        BY <4>2
      <4>4. ASSUME x[2] = y[2], x[3] = y[3] PROVE x = y
        <5>1. x[4] = y[4]
          <6>1. CASE x[2] = "cpu"
            BY <4>2, <4>4, <6>1, SeverityIsOne
          <6>2. CASE x[2] = "mem"
            BY <4>2, <4>4, <6>2, SeverityIsOne
          <6>3. CASE x[2] = "util"
            BY <4>2, <4>4, <6>3, SeverityIsOne
          <6>4. CASE x[2] = "noise"
            BY <4>2, <4>4, <6>4
          <6> QED BY <4>2, <6>1, <6>2, <6>3, <6>4
        <5>2. x = <<d, x[2], x[3], x[4]>> /\ y = <<d, y[2], y[3], y[4]>>
          BY <4>2
        <5> HIDE DEF Said
        <5> QED BY <4>4, <5>1, <5>2, Zenon
      <4> QED BY <4>3, <4>4
    <3> QED BY <3>2, <3>3
  <2> QED BY <2>3, <2>4
<1>2. CASE x \in CoChannel /\ y \in CoChannel
  BY <1>2, CoChannelIsOf
<1>3. CASE \E d \in Devices : \/ x \in Evaluate(d) /\ y \in CoChannel
                              \/ y \in Evaluate(d) /\ x \in CoChannel
  <2>1. PICK d \in Devices : \/ x \in Evaluate(d) /\ y \in CoChannel
                             \/ y \in Evaluate(d) /\ x \in CoChannel
    BY <1>3
  <2>2. x[1] # y[1]
    <3>1. CASE x \in Evaluate(d) /\ y \in CoChannel
      <4>1. x[1] = d
        BY <3>1, EvaluateIsOf
      <4>2. y[1] \in Bands
        BY <3>1, CoChannelIsOf
      <4> QED BY <4>1, <4>2, NamesAssumption
    <3>2. CASE y \in Evaluate(d) /\ x \in CoChannel
      <4>1. y[1] = d
        BY <3>2, EvaluateIsOf
      <4>2. x[1] \in Bands
        BY <3>2, CoChannelIsOf
      <4> QED BY <4>1, <4>2, NamesAssumption
    <3> QED BY <2>1, <3>1, <3>2
  <2> QED BY <2>2
<1>4. \A z \in Rules : z \in CoChannel \/ \E d \in Devices : z \in Evaluate(d)
  BY DEF Rules
<1> QED BY <1>1, <1>2, <1>3, <1>4

(* The mean of the loads is a number of the cores that have one.           *)
LEMMA NumbersOfCores ==
  ASSUME NEW cores \in Seq(Int \cup {None})
  PROVE  /\ IsFiniteSet(Numbers(cores))
         /\ \A i \in Numbers(cores) : cores[i] \in Int
<1>1. DOMAIN cores = 1 .. Len(cores) /\ Len(cores) \in Nat
  OBVIOUS
<1>2. IsFiniteSet(1 .. Len(cores))
  BY <1>1, FS_Interval
<1>3. Numbers(cores) \subseteq 1 .. Len(cores)
  BY <1>1 DEF Numbers
<1>4. \A i \in Numbers(cores) : cores[i] \in Int
  BY <1>1 DEF Numbers
<1> QED BY <1>2, <1>3, <1>4, FS_Subset

LEMMA MeanLoadType ==
  ASSUME NEW cores \in Seq(Int \cup {None}) PROVE MeanLoad(cores) \in Percent
<1> DEFINE S == Numbers(cores)
<1>1. CASE S = {}
  BY <1>1 DEF MeanLoad, Percent
<1>2. CASE S # {}
  <2>1. MeanLoad(cores) = <<SumOver(cores, S), Cardinality(S)>>
    BY <1>2 DEF MeanLoad, SumOver
  <2>2. SumOver(cores, S) \in Int
    BY NumbersOfCores, SumType
  <2>3. Cardinality(S) \in Nat \ {0}
    BY <1>2, NumbersOfCores, FS_CardinalityType, FS_EmptySet
  <2> QED BY <2>1, <2>2, <2>3 DEF Percent
<1> QED BY <1>1, <1>2

LEMMA AgentTypes ==
  ASSUME WorldOK, NEW d \in Devices
  PROVE  /\ agent[d] \in Seen
         /\ agent[d].cpu \in Percent /\ agent[d].mem \in Percent
         /\ MeanLoad(agent[d].cores) \in Percent
<1>1. agent[d] \in Agents[d] /\ agent[d] \in Agent
  BY AgentsAssumption DEF WorldOK
<1>2. agent[d].cores \in Seq(Int \cup {None})
  BY <1>1 DEF Agent
<1>3. agent[d].cpu \in Percent /\ agent[d].mem \in Percent
  BY <1>1 DEF Agent
<1> QED BY <1>1, <1>2, <1>3, MeanLoadType DEF Seen

(* What each kind of step does to the rows of the polls.                   *)
LEMMA PollsKept ==
  ASSUME PollsOK, WorldOK, NEW p \in Polls,
         \/ ReadDescr(p) \/ ReadCpu(p) \/ ReadMem(p) \/ ReadCores(p)
         \/ Store(p) \/ StoreFails(p) \/ ManualPoll(p)
  PROVE  PollsOK'
<1> DEFINE d == p[2]
<1>1. d \in Devices /\ p = <<p[1], d>> /\ p[1] \in {"cycle", "manual", "discover"}
  BY DEF Polls
<1>2. None \in Percent
  BY DEF Percent
<1>3. poll[p] \in PollRow
  BY DEF PollsOK
<1>4. \E q \in PollRow : /\ poll' = [poll EXCEPT ![p] = q]
                         /\ q.at = "idle" \/ poll[p].at # "idle" \/ p[1] # "cycle"
  <2>1. CASE ReadDescr(p)
    <3>1. \E s \in {"unreachable", "cpu"} : poll' = [poll EXCEPT ![p].at = s]
      BY <2>1 DEF ReadDescr
    <3>2. PICK s \in {"unreachable", "cpu"} : poll' = [poll EXCEPT ![p].at = s]
      BY <3>1
    <3> QED BY <3>2, <1>3, <2>1 DEF PollRow, Stages, PollsOK, ReadDescr
  <2>2. CASE ReadCpu(p)
    <3>1. \A v \in {Value(d, agent[d].cpu), None} : v \in Percent
      BY <1>1, <1>2, AgentTypes DEF Value
    <3>2. PICK r \in Percent : poll' = [poll EXCEPT ![p].at = "mem", ![p].cpu = r]
      BY <2>2, <3>1 DEF ReadCpu
    <3> QED BY <3>2, <1>3, <2>2 DEF PollRow, Stages, PollsOK, ReadCpu
  <2>3. CASE ReadMem(p)
    <3>1. \A v \in {Value(d, agent[d].mem), None} : v \in Percent
      BY <1>1, <1>2, AgentTypes DEF Value
    <3>2. PICK r \in Percent, s \in {"cores", "store"} :
            poll' = [poll EXCEPT ![p].mem = r, ![p].at = s]
      BY <2>3, <3>1 DEF ReadMem
    <3> QED BY <3>2, <1>3, <2>3 DEF PollRow, Stages, PollsOK, ReadMem
  <2>4. CASE ReadCores(p)
    <3>1. \A v \in {Value(d, MeanLoad(agent[d].cores)), None} : v \in Percent
      BY <1>1, <1>2, AgentTypes DEF Value
    <3>2. PICK r \in Percent : poll' = [poll EXCEPT ![p].at = "store", ![p].cpu = r]
      BY <2>4, <3>1 DEF ReadCores
    <3> QED BY <3>2, <1>3, <2>4 DEF PollRow, Stages, PollsOK, ReadCores
  <2>5. CASE Store(p) \/ StoreFails(p)
    <3>1. Idle \in PollRow /\ Idle.at = "idle"
      BY <1>2 DEF Idle, PollRow, Stages
    <3>2. poll' = [poll EXCEPT ![p] = Idle]
      BY <2>5 DEF Store, StoreFails
    <3> QED BY <3>1, <3>2
  <2>6. CASE ManualPoll(p)
    <3>1. agent[d] \in Seen
      BY <1>1, AgentTypes
    <3>2. Fresh(d) \in PollRow
      BY <3>1, <1>2 DEF Fresh, PollRow, Stages
    <3> QED BY <2>6, <3>2 DEF ManualPoll
  <2> QED BY <2>1, <2>2, <2>3, <2>4, <2>5, <2>6
<1>5. cycle' = cycle
  BY DEF ReadDescr, ReadCpu, ReadMem, ReadCores, Store, StoreFails, ManualPoll
<1>6. PICK q \in PollRow : /\ poll' = [poll EXCEPT ![p] = q]
                           /\ q.at = "idle" \/ poll[p].at # "idle" \/ p[1] # "cycle"
  BY <1>4
<1>7. poll' \in [Polls -> PollRow]
  BY <1>6 DEF PollsOK
<1>8. ASSUME cycle = "waiting", NEW e \in Devices PROVE poll'[<<"cycle", e>>].at = "idle"
  <2>1. <<"cycle", e>> \in Polls /\ poll[<<"cycle", e>>].at = "idle"
    BY <1>8 DEF Polls, PollsOK
  <2>2. CASE p = <<"cycle", e>>
    BY <1>6, <2>1, <2>2 DEF PollsOK
  <2>3. CASE p # <<"cycle", e>>
    BY <1>6, <2>1, <2>3 DEF PollsOK
  <2> QED BY <2>2, <2>3
<1> QED BY <1>5, <1>7, <1>8 DEF PollsOK

LEMMA TypeInvariantInit == Init => TInv
<1> SUFFICES ASSUME Init PROVE TInv
  OBVIOUS
<1>1. None \in Percent
  BY DEF Percent
<1>2. WorldOK
  BY RadiosAssumption DEF Init, WorldOK
<1>3. PollsOK
  BY <1>1 DEF Init, PollsOK, Idle, PollRow, Stages, Polls
<1>4. StoredOK /\ OneEach(insights)
  BY DEF Init, StoredOK, OneEach
<1> QED BY <1>2, <1>3, <1>4 DEF TInv

LEMMA StoredKept ==
  ASSUME TInv, NEW p \in Polls, Store(p)
  PROVE  StoredOK'
<1> DEFINE d == p[2]
           s == [cpu |-> poll[p].cpu, mem |-> poll[p].mem, under |-> poll[p].under]
<1>1. d \in Devices /\ poll[p] \in PollRow
  BY DEF Polls, TInv, PollsOK
<1>2. s \in Sample
  BY <1>1 DEF PollRow, Sample, Seen
<1>3. PICK t \in {"ONLINE", "OFFLINE"} : status' = [status EXCEPT ![d] = t]
  BY DEF Store
<1>4. PICK w \in Sample \cup {None} : newest' = [newest EXCEPT ![d] = w]
  <2>1. newest[d] \in Sample \cup {None}
    BY <1>1 DEF TInv, StoredOK
  <2>2. newest' = [newest EXCEPT ![d] = IF p[1] = "discover" THEN newest[d] ELSE Newest(d, s)]
    BY DEF Store
  <2>3. Newest(d, s) \in Sample \cup {None}
    BY <2>1, <1>2 DEF Newest
  <2> HIDE DEF s
  <2> QED BY <2>1, <2>2, <2>3
<1> QED BY <1>1, <1>3, <1>4 DEF TInv, StoredOK

LEMMA TypeInvariantStep == TInv /\ [Next]_vars => TInv'
<1> SUFFICES ASSUME TInv, [Next]_vars PROVE TInv'
  OBVIOUS
<1> USE DEF TInv
<1>1. ASSUME NEW p \in Polls, Step(p) \/ ManualPoll(p) PROVE TInv'
  <2>1. PollsOK'
    BY <1>1, PollsKept DEF Step
  <2>2. WorldOK'
    BY <1>1 DEF Step, ReadDescr, ReadCpu, ReadMem, ReadCores, Store, StoreFails,
                ManualPoll, world, WorldOK
  <2>3. insights' = insights /\ (Store(p) \/ (status' = status /\ newest' = newest))
    BY <1>1 DEF Step, ReadDescr, ReadCpu, ReadMem, ReadCores, Store, StoreFails,
                ManualPoll, stored
  <2>4. StoredOK'
    BY <2>3, StoredKept DEF StoredOK
  <2> QED BY <2>1, <2>2, <2>3, <2>4 DEF OneEach
<1>2. ASSUME Recompute, WorldOK', PollsOK', status' = status /\ newest' = newest
      PROVE  TInv'
  <2>1. insights' = Rules
    BY <1>2 DEF Recompute, Rules
  <2>2. StoredOK'
    BY <1>2 DEF StoredOK
  <2> QED BY <1>2, <2>1, <2>2, RulesAreOneEach DEF OneEach
<1>3. CASE CycleBegin
  <2>1. /\ WorldOK' /\ StoredOK' /\ OneEach(insights')
    BY <1>3 DEF CycleBegin, world, stored, WorldOK, StoredOK, OneEach
  <2>2. \A d \in Devices : Fresh(d) \in PollRow
    <3>1. None \in Percent
      BY DEF Percent
    <3>2. \A d \in Devices : agent[d] \in Seen
      BY AgentTypes
    <3> QED BY <3>1, <3>2 DEF Fresh, PollRow, Stages
  <2>3. poll' \in [Polls -> PollRow]
    <3>1. \A p \in Polls : p[2] \in Devices
      BY DEF Polls
    <3> QED BY <1>3, <2>2, <3>1 DEF CycleBegin, PollsOK
  <2>4. PollsOK'
    BY <1>3, <2>3 DEF CycleBegin, PollsOK
  <2> QED BY <2>1, <2>4
<1>4. CASE CycleEnd
  <2>1. Recompute /\ WorldOK' /\ status' = status /\ newest' = newest
    BY <1>4 DEF CycleEnd, world, WorldOK
  <2>2. PollsOK'
    BY <1>4 DEF CycleEnd, CycleOver, PollsOK
  <2> QED BY <2>1, <2>2, <1>2
<1>5. CASE RecomputeFails
  BY <1>5 DEF RecomputeFails, CycleOver, world, stored, WorldOK, PollsOK, StoredOK, OneEach
<1>6. CASE RecomputeNow
  <2>1. Recompute /\ WorldOK' /\ PollsOK' /\ status' = status /\ newest' = newest
    BY <1>6 DEF RecomputeNow, world, WorldOK, PollsOK
  <2> QED BY <2>1, <1>2
<1>7. CASE Seed \/ SetBack \/ \E d \in Devices : CatchUp(d)
  <2>1. WorldOK'
    BY <1>7 DEF Seed, SetBack, CatchUp, WorldOK
  <2>2. PollsOK' /\ StoredOK' /\ OneEach(insights')
    BY <1>7 DEF Seed, SetBack, CatchUp, PollsOK, stored, StoredOK, OneEach
  <2> QED BY <2>1, <2>2
<1>8. ASSUME NEW d \in Devices, NEW a \in Agents[d], Change(d, a) PROVE TInv'
  <2>1. WorldOK'
    BY <1>8 DEF Change, WorldOK
  <2>2. a \in Seen
    BY DEF Seen
  <2>3. poll' \in [Polls -> PollRow]
    <3>1. \A p \in Polls : poll[p] \in PollRow
      BY DEF PollsOK
    <3>2. \A q \in PollRow : [q EXCEPT !.under = q.under \cup {a}] \in PollRow
      BY <2>2 DEF PollRow
    <3>3. poll' = [p \in Polls |->
                    IF p[2] = d /\ poll[p].at # "idle"
                      THEN [poll[p] EXCEPT !.under = poll[p].under \cup {a}] ELSE poll[p]]
      BY <1>8 DEF Change
    <3> QED BY <3>1, <3>2, <3>3
  <2>4. \A p \in Polls : poll'[p].at = poll[p].at
    <3>1. \A p \in Polls : poll[p] \in PollRow
      BY DEF PollsOK
    <3> QED BY <1>8, <3>1 DEF Change, PollRow
  <2>5. PollsOK'
    BY <1>8, <2>3, <2>4 DEF Change, PollsOK, Polls
  <2>6. StoredOK' /\ OneEach(insights')
    BY <1>8 DEF Change, stored, StoredOK, OneEach
  <2> QED BY <2>1, <2>5, <2>6
<1>9. CASE UNCHANGED vars
  BY <1>9 DEF vars, stored, world, WorldOK, PollsOK, StoredOK, OneEach
<1> QED BY <1>1, <1>3, <1>4, <1>5, <1>6, <1>7, <1>8, <1>9 DEF Next, Cycle

(* Types, and each subject has one severity at most: recompute_insights    *)
(* raises one step of a threshold, and nothing else of a device that is    *)
(* offline.                                                                *)
THEOREM TypesHold == Spec => []TypeOK
<1>1. Spec => []TInv
  BY TypeInvariantInit, TypeInvariantStep, PTL DEF Spec
<1>2. TInv => TypeOK
  BY DEF TInv, PollsOK, StoredOK, OneEach, TypeOK, PollRow, Stages
<1> QED BY <1>1, <1>2, PTL

-----------------------------------------------------------------------------
(* No false alarm: what a poll holds, and so what a sample shows, is what  *)
(* the device had in one of the states it was in while the poll ran.       *)

Shown(s) ==
  /\ s.cpu # None => \E a \in s.under : s.cpu = a.cpu \/ s.cpu = MeanLoad(a.cores)
  /\ s.mem # None => \E a \in s.under : s.mem = a.mem

AlarmInv ==
  /\ \A p \in Polls : /\ poll[p].at # "idle" => agent[p[2]] \in poll[p].under
                      /\ Shown(poll[p])
  /\ \A d \in Devices : newest[d] # None => Shown(newest[d])

LEMMA ReadingsAreShown ==
  ASSUME TInv, AlarmInv, NEW p \in Polls,
         ReadDescr(p) \/ ReadCpu(p) \/ ReadMem(p) \/ ReadCores(p)
  PROVE  AlarmInv'
<1> DEFINE a == agent[p[2]]
<1>1. /\ poll[p] \in PollRow /\ a \in poll[p].under /\ Shown(poll[p])
      /\ poll \in [Polls -> PollRow]
  BY DEF TInv, PollsOK, AlarmInv, ReadDescr, ReadCpu, ReadMem, ReadCores
<1>2. agent' = agent /\ newest' = newest
  BY DEF ReadDescr, ReadCpu, ReadMem, ReadCores, stored, world
<1>3. \E q : /\ poll' = [poll EXCEPT ![p] = q]
             /\ q.under = poll[p].under /\ Shown(q)
  <2>1. CASE ReadDescr(p)
    <3>1. \E s \in {"unreachable", "cpu"} : poll' = [poll EXCEPT ![p].at = s]
      BY <2>1 DEF ReadDescr
    <3>2. PICK s \in {"unreachable", "cpu"} : poll' = [poll EXCEPT ![p].at = s]
      BY <3>1
    <3> DEFINE q == [poll[p] EXCEPT !.at = s]
    <3>3. q.under = poll[p].under /\ q.cpu = poll[p].cpu /\ q.mem = poll[p].mem
      BY <1>1 DEF PollRow
    <3>4. poll' = [poll EXCEPT ![p] = q]
      BY <1>1, <3>2
    <3> HIDE DEF q
    <3>5. Shown(q)
      BY <1>1, <3>2, <3>3 DEF Shown
    <3> QED BY <3>3, <3>4, <3>5
  <2>2. CASE ReadCpu(p)
    <3>1. PICK r : /\ r = None \/ r = a.cpu
                   /\ poll' = [poll EXCEPT ![p].at = "mem", ![p].cpu = r]
      BY <2>2 DEF ReadCpu, Value
    <3> DEFINE q == [poll[p] EXCEPT !.at = "mem", !.cpu = r]
    <3>2. q.under = poll[p].under /\ q.cpu = r /\ q.mem = poll[p].mem
      BY <1>1 DEF PollRow
    <3>3. poll' = [poll EXCEPT ![p] = q]
      BY <1>1, <3>1
    <3> HIDE DEF q
    <3>4. Shown(q)
      BY <1>1, <3>1, <3>2 DEF Shown
    <3> QED BY <3>2, <3>3, <3>4
  <2>3. CASE ReadMem(p)
    <3>1. PICK r, s : /\ r = None \/ r = a.mem
                      /\ poll' = [poll EXCEPT ![p].mem = r, ![p].at = s]
      BY <2>3 DEF ReadMem, Value
    <3> DEFINE q == [poll[p] EXCEPT !.mem = r, !.at = s]
    <3>2. q.under = poll[p].under /\ q.cpu = poll[p].cpu /\ q.mem = r
      BY <1>1 DEF PollRow
    <3>3. poll' = [poll EXCEPT ![p] = q]
      BY <1>1, <3>1
    <3> HIDE DEF q
    <3>4. Shown(q)
      BY <1>1, <3>1, <3>2 DEF Shown
    <3> QED BY <3>2, <3>3, <3>4
  <2>4. CASE ReadCores(p)
    <3>1. PICK r : /\ r = None \/ r = MeanLoad(a.cores)
                   /\ poll' = [poll EXCEPT ![p].at = "store", ![p].cpu = r]
      BY <2>4 DEF ReadCores, Value
    <3> DEFINE q == [poll[p] EXCEPT !.at = "store", !.cpu = r]
    <3>2. q.under = poll[p].under /\ q.cpu = r /\ q.mem = poll[p].mem
      BY <1>1 DEF PollRow
    <3>3. poll' = [poll EXCEPT ![p] = q]
      BY <1>1, <3>1
    <3> HIDE DEF q
    <3>4. Shown(q)
      BY <1>1, <3>1, <3>2 DEF Shown
    <3> QED BY <3>2, <3>3, <3>4
  <2> QED BY <2>1, <2>2, <2>3, <2>4
<1>4. PICK q : /\ poll' = [poll EXCEPT ![p] = q]
               /\ q.under = poll[p].under /\ Shown(q)
  BY <1>3
<1>5. \A o \in Polls : /\ poll'[o].at # "idle" => agent[o[2]] \in poll'[o].under
                       /\ Shown(poll'[o])
  BY <1>1, <1>4 DEF AlarmInv
<1> QED BY <1>2, <1>5 DEF AlarmInv, Shown

LEMMA AlarmStep == TInv /\ AlarmInv /\ [Next]_vars => AlarmInv'
<1> SUFFICES ASSUME TInv, AlarmInv, [Next]_vars PROVE AlarmInv'
  OBVIOUS
<1>1. /\ poll \in [Polls -> PollRow]
      /\ newest \in [Devices -> Sample \cup {None}]
      /\ \A p \in Polls : p[2] \in Devices
  BY DEF TInv, PollsOK, StoredOK, Polls
<1>2. ASSUME NEW p \in Polls, Step(p) \/ ManualPoll(p) PROVE AlarmInv'
  <2>1. CASE ReadDescr(p) \/ ReadCpu(p) \/ ReadMem(p) \/ ReadCores(p)
    BY <2>1, ReadingsAreShown
  <2>2. Shown(Idle) /\ Shown(Fresh(p[2])) /\ Idle.at = "idle"
        /\ agent[p[2]] \in Fresh(p[2]).under
    BY DEF Shown, Idle, Fresh
  <2>3. CASE Store(p) \/ StoreFails(p)
    <3>1. agent' = agent /\ poll' = [poll EXCEPT ![p] = Idle]
      BY <2>3 DEF Store, StoreFails, world
    <3>2. \A d \in Devices : newest'[d] = newest[d] \/ Shown(newest'[d])
      <4> DEFINE s == [cpu |-> poll[p].cpu, mem |-> poll[p].mem, under |-> poll[p].under]
      <4>1. Shown(s)
        BY DEF AlarmInv, Shown
      <4>2. newest' = newest \/ newest' = [newest EXCEPT ![p[2]] = s]
        <5>1. CASE StoreFails(p)
          BY <5>1 DEF StoreFails, stored
        <5>2. CASE Store(p)
          <6>1. newest' = [newest EXCEPT ![p[2]] =
                             IF p[1] = "discover" THEN newest[p[2]] ELSE Newest(p[2], s)]
            BY <5>2 DEF Store
          <6>2. newest = [newest EXCEPT ![p[2]] = newest[p[2]]]
            BY <1>1
          <6> HIDE DEF s
          <6> QED BY <6>1, <6>2 DEF Newest
        <5> QED BY <2>3, <5>1, <5>2
      <4> HIDE DEF s
      <4> QED BY <4>1, <4>2, <1>1
    <3>3. \A o \in Polls : /\ poll'[o].at # "idle" => agent[o[2]] \in poll'[o].under
                           /\ Shown(poll'[o])
      BY <1>1, <2>2, <3>1 DEF AlarmInv
    <3> QED BY <3>1, <3>2, <3>3 DEF AlarmInv, Shown
  <2>4. CASE ManualPoll(p)
    <3>1. agent' = agent /\ newest' = newest /\ poll' = [poll EXCEPT ![p] = Fresh(p[2])]
      BY <2>4 DEF ManualPoll, stored, world
    <3>3. \A o \in Polls : /\ poll'[o].at # "idle" => agent[o[2]] \in poll'[o].under
                           /\ Shown(poll'[o])
      BY <1>1, <2>2, <3>1 DEF AlarmInv
    <3> QED BY <3>1, <3>3 DEF AlarmInv, Shown
  <2> QED BY <1>2, <2>1, <2>3, <2>4 DEF Step
<1>3. CASE CycleBegin
  <2>1. agent' = agent /\ newest' = newest
        /\ poll' = [p \in Polls |-> IF p[1] = "cycle" THEN Fresh(p[2]) ELSE poll[p]]
    BY <1>3 DEF CycleBegin, stored, world
  <2>2. \A p \in Polls : /\ poll'[p].at # "idle" => agent[p[2]] \in poll'[p].under
                         /\ Shown(poll'[p])
    BY <2>1 DEF AlarmInv, Fresh, Shown
  <2> QED BY <2>1, <2>2 DEF AlarmInv, Shown
<1>4. CASE \/ CycleEnd \/ RecomputeFails \/ RecomputeNow \/ Seed \/ SetBack
           \/ \E d \in Devices : CatchUp(d)
  BY <1>4 DEF CycleEnd, RecomputeFails, RecomputeNow, Seed, SetBack, CatchUp,
              stored, world, AlarmInv, Shown
<1>5. ASSUME NEW d \in Devices, NEW a \in Agents[d], Change(d, a) PROVE AlarmInv'
  <2>1. newest' = newest /\ agent' = [agent EXCEPT ![d] = a]
    BY <1>5 DEF Change, stored
  <2>2. agent' = [e \in Devices |-> IF e = d THEN a ELSE agent[e]]
    BY <2>1 DEF TInv, WorldOK
  <2>3. ASSUME NEW p \in Polls
        PROVE  /\ poll'[p].at # "idle" => agent'[p[2]] \in poll'[p].under
               /\ Shown(poll'[p])
    <3>1. poll[p] \in PollRow /\ Shown(poll[p])
      BY <1>1 DEF AlarmInv
    <3>2. poll'[p] = IF p[2] = d /\ poll[p].at # "idle"
                     THEN [poll[p] EXCEPT !.under = poll[p].under \cup {a}] ELSE poll[p]
      BY <1>5 DEF Change
    <3>3. /\ poll'[p].at = poll[p].at /\ poll'[p].cpu = poll[p].cpu
          /\ poll'[p].mem = poll[p].mem /\ poll[p].under \subseteq poll'[p].under
          /\ p[2] = d /\ poll[p].at # "idle" => a \in poll'[p].under
      BY <3>1, <3>2 DEF PollRow
    <3>4. Shown(poll'[p])
      BY <3>1, <3>3 DEF Shown
    <3>5. poll'[p].at # "idle" => agent'[p[2]] \in poll'[p].under
      BY <1>1, <2>2, <3>3 DEF AlarmInv
    <3> QED BY <3>4, <3>5
  <2> QED BY <2>1, <2>3 DEF AlarmInv, Shown
<1>6. CASE UNCHANGED vars
  BY <1>6 DEF vars, stored, world, AlarmInv, Shown
<1> QED BY <1>2, <1>3, <1>4, <1>5, <1>6 DEF Next, Cycle

(* A mean that reaches a limit is the mean of a core that reaches it.      *)
LEMMA MeanIsOfACore ==
  ASSUME NEW cores \in Seq(Int \cup {None}), NEW limit \in Int,
         MeanLoad(cores) # None, AtLeast(MeanLoad(cores), limit)
  PROVE  \E i \in Numbers(cores) : cores[i] >= limit
<1> DEFINE S == Numbers(cores)
<1>1. S # {} /\ MeanLoad(cores) = <<SumOver(cores, S), Cardinality(S)>>
  BY DEF MeanLoad, SumOver
<1>2. SumOver(cores, S) >= limit * Cardinality(S)
  BY <1>1 DEF AtLeast
<1>3. IsFiniteSet(S) /\ \A i \in S : cores[i] \in Int
  BY NumbersOfCores
<1> HIDE DEF S
<1>4. \E i \in S : cores[i] >= limit
  BY <1>1, <1>2, <1>3, MeanIsReached
<1> QED BY <1>4 DEF S

LEMMA ShownIsHad ==
  ASSUME NEW s \in Sample, Shown(s), NEW limit \in Int
  PROVE  /\ s.cpu # None /\ AtLeast(s.cpu, limit) => HadLoad(s.under, limit)
         /\ s.mem # None /\ AtLeast(s.mem, limit) => HadMem(s.under, limit)
<1>1. \A a \in s.under : a \in Agent
  BY AgentsAssumption DEF Sample
<1>2. ASSUME s.cpu # None, AtLeast(s.cpu, limit) PROVE HadLoad(s.under, limit)
  <2>1. PICK a \in s.under : s.cpu = a.cpu \/ s.cpu = MeanLoad(a.cores)
    BY <1>2 DEF Shown
  <2>2. CASE s.cpu = a.cpu
    BY <1>2, <2>2 DEF HadLoad
  <2>3. CASE s.cpu = MeanLoad(a.cores)
    <3>1. a.cores \in Seq(Int \cup {None})
      BY <1>1 DEF Agent
    <3>2. \E i \in Numbers(a.cores) : a.cores[i] >= limit
      BY <1>2, <2>3, <3>1, MeanIsOfACore
    <3> QED BY <3>2 DEF HadLoad
  <2> QED BY <2>1, <2>2, <2>3
<1>3. ASSUME s.mem # None, AtLeast(s.mem, limit) PROVE HadMem(s.under, limit)
  BY <1>3 DEF Shown, HadMem
<1> QED BY <1>2, <1>3

(* Whatever is lost and however a device changes while it is polled, a     *)
(* sample that raises an insight shows a value the device had during that  *)
(* poll; of the mean of core loads, a core that had it.                    *)
THEOREM NoFalseAlarm == Spec => []AlarmsWereTrue
<1>1. Init => AlarmInv
  <2> SUFFICES ASSUME Init PROVE AlarmInv
    OBVIOUS
  <2>1. \A p \in Polls : poll[p] = Idle
    BY DEF Init
  <2>2. Shown(Idle) /\ Idle.at = "idle"
    BY DEF Idle, Shown
  <2> QED BY <2>1, <2>2 DEF Init, AlarmInv
<1>2. TInv /\ AlarmInv => AlarmsWereTrue
  <2> SUFFICES ASSUME TInv, AlarmInv, NEW d \in Devices, newest[d] # None
               PROVE  /\ \A limit \in {70, 90} :
                           newest[d].cpu # None /\ AtLeast(newest[d].cpu, limit)
                             => HadLoad(newest[d].under, limit)
                      /\ \A limit \in {75, 92} :
                           newest[d].mem # None /\ AtLeast(newest[d].mem, limit)
                             => HadMem(newest[d].under, limit)
    BY DEF AlarmsWereTrue
  <2>1. newest[d] \in Sample /\ Shown(newest[d])
    BY DEF TInv, StoredOK, AlarmInv
  <2> QED BY <2>1, ShownIsHad
<1> QED BY <1>1, <1>2, TypeInvariantInit, TypeInvariantStep, AlarmStep, PTL DEF Spec

-----------------------------------------------------------------------------
(* After a cycle that nothing disturbed the insights are the truth.        *)

LEMMA RaisedAsGraded ==
  ASSUME NEW v \in Percent, NEW warn \in Nat, NEW crit \in Nat, warn <= crit,
         NEW d, NEW kind, NEW subject
  PROVE  Raise(d, kind, subject, Severity(v, warn, crit))
           = Graded(d, kind, subject, v, warn, crit)
<1>1. v # None /\ AtLeast(v, crit) => AtLeast(v, warn)
  <2> SUFFICES ASSUME v # None, AtLeast(v, crit) PROVE AtLeast(v, warn)
    OBVIOUS
  <2>1. v[1] \in Int /\ v[2] \in Nat
    BY DEF Percent
  <2> DEFINE x == v[1]  n == v[2]
  <2>2. x \in Int /\ n \in Nat /\ x >= crit * n
    BY <2>1 DEF AtLeast
  <2> HIDE DEF x, n
  <2>3. crit * n = warn * n + (crit - warn) * n
    BY <2>2
  <2>4. (crit - warn) * n \in Nat /\ warn * n \in Nat /\ crit * n \in Nat
    BY <2>2
  <2>5. crit * n >= warn * n
    BY <2>3, <2>4
  <2>6. x >= warn * n
    BY <2>2, <2>4, <2>5
  <2> QED BY <2>6 DEF AtLeast, x, n
<1>2. Severity(v, warn, crit)
        = {q \in {"warning", "critical"} :
             v # None /\ AtLeast(v, warn) /\ (q = "critical" <=> AtLeast(v, crit))}
  BY <1>1 DEF Severity
<1> QED BY <1>2, Zenon DEF Raise, Graded

Told(d) ==
  IF agent[d].up
  THEN /\ status[d] = "ONLINE" /\ newest[d] # None
       /\ newest[d].cpu = Load(agent[d]) /\ newest[d].mem = agent[d].mem
  ELSE status[d] = "OFFLINE"

(* The three radios on a channel are three, so there is one.               *)
LEMMA CoChannelIsTrue ==
  ASSUME WorldOK
  PROVE  CoChannel
           = {<<Radios[r].band, "cochannel", Radios[r].channel, "warning">> :
                r \in {q \in radios :
                         /\ Radios[q].dev \in Aps /\ Radios[q].channel # None
                         /\ Cardinality(OnChannel(Radios[q].band, Radios[q].channel)) >= 3}}
<1> DEFINE R == {q \in radios :
                   /\ Radios[q].dev \in Aps /\ Radios[q].channel # None
                   /\ Cardinality(OnChannel(Radios[q].band, Radios[q].channel)) >= 3}
           C == {y \in Bands \X {Radios[r].channel : r \in radios} :
                   y[2] # None /\ Cardinality(OnChannel(y[1], y[2])) >= 3}
<1>1. ASSUME NEW y \in C
      PROVE  \E r \in R : y = <<Radios[r].band, Radios[r].channel>>
  <2>1. OnChannel(y[1], y[2]) # {}
    <3>1. Cardinality(OnChannel(y[1], y[2])) >= 3
      OBVIOUS
    <3>2. ~ (0 >= 3)
      OBVIOUS
    <3> QED BY <3>1, <3>2, FS_EmptySet
  <2>2. PICK r \in radios : /\ Radios[r].dev \in Aps
                            /\ Radios[r].band = y[1] /\ Radios[r].channel = y[2]
    BY <2>1 DEF OnChannel
  <2>3. y = <<y[1], y[2]>>
    OBVIOUS
  <2> QED BY <2>2, <2>3
<1>2. ASSUME NEW r \in R PROVE <<Radios[r].band, Radios[r].channel>> \in C
  <2>1. r \in radios /\ Radios[r].band \in Bands
    BY RadiosAssumption DEF WorldOK
  <2> QED BY <2>1
<1>3. CoChannel = {<<y[1], "cochannel", y[2], "warning">> : y \in C}
  <2>1. \A b, c : Raise(b, "cochannel", c, {"warning"}) = {<<b, "cochannel", c, "warning">>}
    BY DEF Raise
  <2>2. CoChannel = UNION {{<<y[1], "cochannel", y[2], "warning">>} : y \in C}
    BY <2>1, Zenon DEF CoChannel
  <2> HIDE DEF C
  <2> QED BY <2>2
<1> HIDE DEF R, C
<1>4. {<<y[1], "cochannel", y[2], "warning">> : y \in C}
        = {<<Radios[r].band, "cochannel", Radios[r].channel, "warning">> : r \in R}
  <2>1. ASSUME NEW y \in C
        PROVE  \E r \in R : <<y[1], "cochannel", y[2], "warning">>
                 = <<Radios[r].band, "cochannel", Radios[r].channel, "warning">>
    BY <1>1
  <2>2. ASSUME NEW r \in R
        PROVE  \E y \in C : <<y[1], "cochannel", y[2], "warning">>
                 = <<Radios[r].band, "cochannel", Radios[r].channel, "warning">>
    BY <1>2
  <2> QED BY <2>1, <2>2
<1> QED BY <1>3, <1>4 DEF R

(* The rules say of a device whose status and newest sample are right what *)
(* is true of it.                                                          *)
LEMMA RulesOfToldAreTrue ==
  ASSUME TInv, \A d \in Devices : Told(d)
  PROVE  Rules = Truth
<1> DEFINE Off == {<<d, "offline", None, "critical">> : d \in Devices \ Up}
           Res(d) == Graded(d, "cpu", None, Load(agent[d]), 70, 90)
                     \cup Graded(d, "mem", None, agent[d].mem, 75, 92)
           Util(r) == Graded(Radios[r].dev, "util", r, Radios[r].util, 60, 80)
           Noises == {<<Radios[r].dev, "noise", r, "warning">> :
                        r \in {q \in Live : Radios[q].noise # None /\ Radios[q].noise >= -74}}
<1> USE DEF TInv
<1>1. ASSUME NEW d \in Devices \ Up
      PROVE  Evaluate(d) = {<<d, "offline", None, "critical">>}
  <2>1. status[d] = "OFFLINE"
    BY DEF Told, Up
  <2> QED BY <2>1 DEF Evaluate, Offline, Raise
<1>2. ASSUME NEW d \in Up
      PROVE  Evaluate(d) = Res(d) \cup UNION {Busy(r) \cup Noise(r) : r \in RadiosOf(d)}
  <2>1. /\ status[d] = "ONLINE" /\ newest[d] # None
        /\ newest[d].cpu = Load(agent[d]) /\ newest[d].mem = agent[d].mem
    BY DEF Told, Up
  <2>2. Load(agent[d]) \in Percent /\ agent[d].mem \in Percent
    BY AgentTypes DEF Up, Load
  <2>3. Resources(d) = Res(d)
    BY <2>1, <2>2, RaisedAsGraded DEF Resources
  <2> HIDE DEF Res
  <2> QED BY <2>1, <2>3 DEF Evaluate
<1>3. ASSUME NEW r \in radios PROVE Busy(r) = Util(r)
  <2>1. Radios[r].util \in Percent
    BY RadiosAssumption DEF WorldOK
  <2> QED BY <2>1, RaisedAsGraded DEF Busy
<1>4. ASSUME NEW r \in radios
      PROVE  Noise(r) = IF Radios[r].noise # None /\ Radios[r].noise >= -74
                        THEN {<<Radios[r].dev, "noise", r, "warning">>} ELSE {}
  <2>1. Radios[r].noise \in Int \cup {None}
    BY RadiosAssumption DEF WorldOK
  <2>2. Noisy(r) <=> Radios[r].noise # None /\ Radios[r].noise >= -74
    BY <2>1 DEF Noisy
  <2> QED BY <2>2 DEF Noise, Raise
<1> HIDE DEF Res, Util
<1>5. UNION {Evaluate(d) : d \in Devices}
        = Off \cup (UNION {Res(d) : d \in Up}) \cup (UNION {Util(r) : r \in Live}) \cup Noises
  <2>1. ASSUME NEW x, NEW d \in Devices, x \in Evaluate(d)
        PROVE  x \in Off \cup (UNION {Res(e) : e \in Up}) \cup (UNION {Util(r) : r \in Live})
                     \cup Noises
    <3>1. CASE d \notin Up
      BY <2>1, <3>1, <1>1
    <3>2. CASE d \in Up /\ x \in Res(d)
      BY <3>2
    <3>3. CASE d \in Up /\ x \notin Res(d)
      <4>1. PICK r \in RadiosOf(d) : x \in Busy(r) \cup Noise(r)
        BY <2>1, <3>3, <1>2
      <4>2. r \in Live
        BY <4>1, <3>3 DEF RadiosOf, Live
      <4>3. x \in Util(r) \/ x \in Noises
        BY <4>1, <4>2, <1>3, <1>4 DEF RadiosOf
      <4> QED BY <4>2, <4>3
    <3> QED BY <3>1, <3>2, <3>3
  <2>2. ASSUME NEW x \in Off PROVE \E d \in Devices : x \in Evaluate(d)
    BY <1>1
  <2>3. ASSUME NEW d \in Up, NEW x \in Res(d) PROVE d \in Devices /\ x \in Evaluate(d)
    BY <1>2 DEF Up
  <2>4. ASSUME NEW r \in Live PROVE Radios[r].dev \in Devices
                                    /\ Util(r) \cup Noise(r) \subseteq Evaluate(Radios[r].dev)
    <3>1. r \in radios /\ Radios[r].dev \in Up /\ r \in RadiosOf(Radios[r].dev)
      BY DEF Live, RadiosOf
    <3>2. Busy(r) \cup Noise(r) \subseteq Evaluate(Radios[r].dev)
      BY <3>1, <1>2
    <3> QED BY <3>1, <3>2, <1>3 DEF Up
  <2>5. ASSUME NEW x \in Noises PROVE \E r \in Live : x \in Noise(r)
    <3>1. PICK r \in Live : /\ Radios[r].noise # None /\ Radios[r].noise >= -74
                            /\ x = <<Radios[r].dev, "noise", r, "warning">>
      OBVIOUS
    <3> QED BY <3>1, <1>4 DEF Live
  <2> HIDE DEF Off, Noises
  <2> QED BY <2>1, <2>2, <2>3, <2>4, <2>5
<1>6. Truth = (Off \cup (UNION {Res(d) : d \in Up}) \cup (UNION {Util(r) : r \in Live})
                   \cup Noises) \cup CoChannel
  BY CoChannelIsTrue, Zenon DEF Truth, Res, Util
<1> HIDE DEF Off, Noises
<1> QED BY <1>5, <1>6 DEF Rules

(* While nothing disturbs the cycle, each poll holds what its device       *)
(* answers, and a device whose poll is stored has it in its row.           *)
Telling(d) ==
  LET q == poll[<<"cycle", d>>]
  IN /\ q.at = "idle" => Told(d)
     /\ q.at \in {"cpu", "mem", "cores", "store"} => agent[d].up
     /\ q.at = "unreachable" => ~ agent[d].up
     /\ q.at = "mem" => q.cpu = agent[d].cpu
     /\ q.at = "cores" => agent[d].cpu = None /\ q.mem = agent[d].mem
     /\ q.at = "store" => q.cpu = Load(agent[d]) /\ q.mem = agent[d].mem

SteadyInv ==
  steady => /\ behind = {}
            /\ \A d \in Devices : Telling(d)
            /\ cycle = "waiting" => insights = Truth

(* A reading that is not lost is what the device answers.                  *)
LEMMA ReadingsTell ==
  ASSUME TInv, NEW p \in Polls, p[1] = "cycle", Telling(p[2]), steady',
         ReadDescr(p) \/ ReadCpu(p) \/ ReadMem(p) \/ ReadCores(p)
  PROVE  Telling(p[2])'
<1> DEFINE d == p[2]  a == agent[d]
<1>1. /\ poll[p] \in PollRow /\ poll \in [Polls -> PollRow]
      /\ d \in Devices /\ p = <<"cycle", d>>
  BY DEF TInv, PollsOK, Polls
<1>2. /\ poll[p].at \in {"cpu", "mem", "cores", "store"} => a.up
      /\ poll[p].at = "mem" => poll[p].cpu = a.cpu
      /\ poll[p].at = "cores" => a.cpu = None /\ poll[p].mem = a.mem
  BY <1>1 DEF Telling
<1>3. agent' = agent
  BY DEF ReadDescr, ReadCpu, ReadMem, ReadCores, world
<1>4. ASSUME NEW q, poll' = [poll EXCEPT ![p] = q],
             q.at \in {"cpu", "mem", "cores", "store", "unreachable"},
             IF q.at = "unreachable" THEN ~ a.up ELSE a.up,
             q.at = "mem" => q.cpu = a.cpu,
             q.at = "cores" => a.cpu = None /\ q.mem = a.mem,
             q.at = "store" => q.cpu = Load(a) /\ q.mem = a.mem
      PROVE  Telling(d)'
  <2>1. poll'[<<"cycle", d>>] = q
    BY <1>1, <1>4
  <2> QED BY <1>3, <1>4, <2>1 DEF Telling
<1>5. CASE ReadDescr(p)
  <2>1. poll' = [poll EXCEPT ![p].at = IF a.up THEN "cpu" ELSE "unreachable"]
    BY <1>5, NamesAssumption DEF ReadDescr, Reading
  <2> DEFINE q == [poll[p] EXCEPT !.at = IF a.up THEN "cpu" ELSE "unreachable"]
  <2>2. poll' = [poll EXCEPT ![p] = q] /\ q.at = IF a.up THEN "cpu" ELSE "unreachable"
    BY <1>1, <2>1 DEF PollRow
  <2> HIDE DEF q, a
  <2>3. CASE a.up
    BY <2>2, <2>3, <1>4
  <2>4. CASE ~ a.up
    BY <2>2, <2>4, <1>4
  <2> QED BY <2>3, <2>4
<1>6. CASE ReadCpu(p)
  <2>1. a.up /\ poll' = [poll EXCEPT ![p].at = "mem", ![p].cpu = a.cpu]
    BY <1>2, <1>6 DEF ReadCpu, Reading, Value
  <2> DEFINE q == [poll[p] EXCEPT !.at = "mem", !.cpu = a.cpu]
  <2>2. poll' = [poll EXCEPT ![p] = q] /\ q.at = "mem" /\ q.cpu = a.cpu
    BY <1>1, <2>1 DEF PollRow
  <2> HIDE DEF q, a
  <2> QED BY <2>1, <2>2, <1>4
<1>7. CASE ReadMem(p)
  <2> DEFINE s == IF poll[p].cpu = None THEN "cores" ELSE "store"
             q == [poll[p] EXCEPT !.mem = a.mem, !.at = s]
  <2>1. a.up /\ poll' = [poll EXCEPT ![p].mem = a.mem, ![p].at = s]
    BY <1>2, <1>7 DEF ReadMem, Reading, Value
  <2>2. poll' = [poll EXCEPT ![p] = q] /\ q.at = s /\ q.cpu = poll[p].cpu /\ q.mem = a.mem
    BY <1>1, <2>1 DEF PollRow
  <2>3. poll[p].cpu = a.cpu
    BY <1>2, <1>7 DEF ReadMem
  <2>4. a.cpu # None => Load(a) = a.cpu
    BY DEF Load
  <2> HIDE DEF q, a
  <2> QED BY <2>1, <2>2, <2>3, <2>4, <1>4
<1>8. CASE ReadCores(p)
  <2> DEFINE q == [poll[p] EXCEPT !.at = "store", !.cpu = MeanLoad(a.cores)]
  <2>1. a.up /\ poll' = [poll EXCEPT ![p].at = "store", ![p].cpu = MeanLoad(a.cores)]
    BY <1>2, <1>8 DEF ReadCores, Reading, Value
  <2>2. /\ poll' = [poll EXCEPT ![p] = q]
        /\ q.at = "store" /\ q.cpu = MeanLoad(a.cores) /\ q.mem = poll[p].mem
    BY <1>1, <2>1 DEF PollRow
  <2>3. a.cpu = None /\ poll[p].mem = a.mem
    BY <1>2, <1>8 DEF ReadCores
  <2>4. Load(a) = MeanLoad(a.cores)
    BY <2>3 DEF Load
  <2> HIDE DEF q, a
  <2> QED BY <2>1, <2>2, <2>3, <2>4, <1>4
<1> QED BY <1>5, <1>6, <1>7, <1>8

(* The poll is stored: its device is told.                                 *)
LEMMA StoreTells ==
  ASSUME TInv, NEW p \in Polls, p[1] = "cycle", Telling(p[2]), behind = {}, Store(p)
  PROVE  Telling(p[2])'
<1> DEFINE d == p[2]  a == agent[d]
           s == [cpu |-> poll[p].cpu, mem |-> poll[p].mem, under |-> poll[p].under]
<1>1. /\ poll[p] \in PollRow /\ poll \in [Polls -> PollRow]
      /\ d \in Devices /\ p = <<"cycle", d>>
      /\ status \in [Devices -> {"UNKNOWN", "ONLINE", "OFFLINE"}]
      /\ newest \in [Devices -> Sample \cup {None}]
  BY DEF TInv, PollsOK, StoredOK, Polls
<1>2. /\ agent' = agent
      /\ poll'[<<"cycle", d>>] = Idle
      /\ newest'[d] = s
      /\ status'[d] = IF poll[p].at = "store" THEN "ONLINE" ELSE "OFFLINE"
  BY <1>1 DEF Store, world, Newest
<1>3. IF poll[p].at = "store"
      THEN a.up /\ poll[p].cpu = Load(a) /\ poll[p].mem = a.mem
      ELSE ~ a.up
  BY <1>1 DEF Telling, Store
<1>4. s # None
  <2>1. s \in Sample
    BY <1>1 DEF PollRow, Sample, Seen
  <2> QED BY <2>1, NamesAssumption
<1>5. Told(d)'
  BY <1>2, <1>3, <1>4 DEF Told
<1> QED BY <1>2, <1>5 DEF Telling, Idle

LEMMA SteadyStep == TInv /\ SteadyInv /\ [Next]_vars => SteadyInv'
<1> SUFFICES ASSUME TInv, SteadyInv, [Next]_vars, steady'
             PROVE  /\ behind' = {}
                    /\ \A d \in Devices : Telling(d)'
                    /\ cycle' = "waiting" => insights' = Truth'
  BY DEF SteadyInv
<1> DEFINE Goal == /\ behind' = {}
                   /\ \A d \in Devices : Telling(d)'
                   /\ cycle' = "waiting" => insights' = Truth'
<1>1. poll \in [Polls -> PollRow] /\ cycle \in {"waiting", "polling"}
  BY DEF TInv, PollsOK
<1>2. ASSUME agent' = agent, radios' = radios PROVE Truth' = Truth
  BY <1>2 DEF Truth, Up, Live, OnChannel
<1>3. ASSUME NEW d \in Devices, Telling(d), agent' = agent, status'[d] = status[d],
             newest'[d] = newest[d], poll'[<<"cycle", d>>] = poll[<<"cycle", d>>]
      PROVE  Telling(d)'
  BY <1>3 DEF Telling, Told
<1>4. CASE CycleBegin
  <2>1. behind' = {} /\ cycle' # "waiting"
    BY <1>4 DEF CycleBegin, world
  <2>2. ASSUME NEW d \in Devices PROVE poll'[<<"cycle", d>>].at = "descr"
    <3>1. <<"cycle", d>> \in Polls
      BY DEF Polls
    <3> QED BY <3>1, <1>4 DEF CycleBegin, Fresh
  <2> QED BY <2>1, <2>2 DEF Telling
<1>5. ASSUME Recompute, agent' = agent, radios' = radios, behind' = behind,
             status' = status, newest' = newest, poll' = poll, steady' = steady,
             cycle' = "waiting" => \A d \in Devices : poll[<<"cycle", d>>].at = "idle"
      PROVE  Goal
  <2>1. behind' = {} /\ \A d \in Devices : Telling(d)
    BY <1>5 DEF SteadyInv
  <2>2. \A d \in Devices : Telling(d)'
    BY <2>1, <1>3, <1>5
  <2>3. ASSUME cycle' = "waiting" PROVE insights' = Truth'
    <3>1. \A d \in Devices : Told(d)
      BY <2>1, <2>3, <1>5 DEF Telling
    <3>2. insights' = Rules /\ Rules = Truth
      BY <3>1, <1>5, RulesOfToldAreTrue DEF Recompute, Rules
    <3> QED BY <3>2, <1>2, <1>5
  <2> QED BY <2>1, <2>2, <2>3
<1>6. CASE CycleEnd
  BY <1>6, <1>5 DEF CycleEnd, CycleOver, world
<1>7. CASE RecomputeNow
  BY <1>7, <1>5 DEF RecomputeNow, world, TInv, PollsOK
<1>8. ASSUME NEW p \in Polls, Step(p) \/ ManualPoll(p) PROVE Goal
  <2>1. /\ agent' = agent /\ radios' = radios /\ behind' = behind
        /\ cycle' = cycle /\ insights' = insights /\ steady
        /\ p[2] \in Devices /\ p = <<p[1], p[2]>>
    <3>1. /\ agent' = agent /\ radios' = radios /\ behind' = behind
          /\ cycle' = cycle /\ insights' = insights
      BY <1>8 DEF Step, ReadDescr, ReadCpu, ReadMem, ReadCores, Store, StoreFails,
                  ManualPoll, world, stored
    <3>2. steady
      <4>1. CASE Store(p)
        BY <4>1 DEF Store
      <4>2. CASE ~ Store(p)
        BY <1>8, <4>2 DEF Step, ReadDescr, ReadCpu, ReadMem, ReadCores, Reading,
                          StoreFails, ManualPoll
      <4> QED BY <4>1, <4>2
    <3> QED BY <3>1, <3>2 DEF Polls
  <2>2. behind = {} /\ \A d \in Devices : Telling(d)
    BY <2>1 DEF SteadyInv
  <2>3. insights' = Truth' \/ cycle' # "waiting"
    BY <2>1, <1>2 DEF SteadyInv
  <2>4. ASSUME NEW q, poll' = [poll EXCEPT ![p] = q]
        PROVE  \A d \in Devices :
                 p # <<"cycle", d>> => poll'[<<"cycle", d>>] = poll[<<"cycle", d>>]
    BY <2>4, <1>1 DEF Polls
  <2>5. \E q : poll' = [poll EXCEPT ![p] = q]
    BY <1>8, <1>1 DEF Step, ReadDescr, ReadCpu, ReadMem, ReadCores, Store, StoreFails,
                      ManualPoll
  <2>6. ASSUME NEW d \in Devices PROVE Telling(d)'
    <3>1. CASE p = <<"cycle", d>>
      <4>1. p[1] = "cycle" /\ p[2] = d
        BY <3>1
      <4>2. \/ ReadDescr(p) \/ ReadCpu(p) \/ ReadMem(p) \/ ReadCores(p)
            \/ Store(p)
        BY <1>8, <4>1 DEF Step, StoreFails, ManualPoll
      <4>3. Telling(p[2])'
        BY <4>1, <4>2, <2>2, ReadingsTell, StoreTells
      <4> QED BY <4>1, <4>3
    <3>2. CASE p # <<"cycle", d>>
      <4>1. poll'[<<"cycle", d>>] = poll[<<"cycle", d>>]
        BY <2>4, <2>5, <3>2
      <4>2. status'[d] = status[d] /\ newest'[d] = newest[d]
        <5>1. CASE Store(p)
          <6>1. p[1] = "cycle" /\ p[2] # d
            BY <5>1, <3>2, <2>1 DEF Store
          <6> QED BY <5>1, <6>1 DEF Store, TInv, StoredOK
        <5>2. CASE ~ Store(p)
          BY <1>8, <5>2 DEF Step, ReadDescr, ReadCpu, ReadMem, ReadCores, StoreFails,
                            ManualPoll, stored
        <5> QED BY <5>1, <5>2
      <4> QED BY <4>1, <4>2, <2>1, <2>2, <1>3
    <3> QED BY <3>1, <3>2
  <2> QED BY <2>1, <2>2, <2>3, <2>6
<1>9. CASE \E d \in Devices : CatchUp(d)
  BY <1>9 DEF CatchUp, SteadyInv
<1>10. CASE RecomputeFails \/ Seed \/ SetBack \/ \E d \in Devices : \E a \in Agents[d] : Change(d, a)
  BY <1>10 DEF RecomputeFails, Seed, SetBack, Change
<1>11. CASE UNCHANGED vars
  <2>1. /\ agent' = agent /\ radios' = radios /\ poll' = poll /\ cycle' = cycle
        /\ status' = status /\ newest' = newest /\ behind' = behind
        /\ insights' = insights /\ steady' = steady
    BY <1>11 DEF vars
  <2>2. behind = {} /\ (\A d \in Devices : Telling(d)) /\ (cycle = "waiting" => insights = Truth)
    BY <2>1 DEF SteadyInv
  <2>3. \A d \in Devices : Telling(d)'
    BY <2>1, <2>2, <1>3
  <2> QED BY <2>1, <2>2, <2>3, <1>2
<1> QED BY <1>4, <1>6, <1>7, <1>8, <1>9, <1>10, <1>11 DEF Next, Cycle

(* README.md:87: after a cycle in which no reading was lost, nothing       *)
(* changed and no transaction failed, the insights are exactly what the    *)
(* thresholds say of the devices and radios, whatever happened before.     *)
THEOREM SteadyCycleTells == Spec => []SteadyIsTold
<1>1. Init => SteadyInv
  BY DEF Init, SteadyInv
<1>2. SteadyInv => SteadyIsTold
  BY DEF SteadyInv, SteadyIsTold
<1> QED BY <1>1, <1>2, TypeInvariantInit, TypeInvariantStep, SteadyStep, PTL DEF Spec
=============================================================================
