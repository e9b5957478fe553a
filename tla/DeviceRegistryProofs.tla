------------------------ MODULE DeviceRegistryProofs ------------------------
(***************************************************************************)
(* Proofs about DeviceRegistry, for every set of ids, addresses, requests, *)
(* poll results, handler slots and workers, and for both values of         *)
(* ExpireOnCommit.                                                         *)
(***************************************************************************)
EXTENDS DeviceRegistry, TLAPS

-----------------------------------------------------------------------------
(* Rows and tables.                                                        *)

(* What an UPDATE writes is a row.                                         *)
LEMMA FlushType ==
  ASSUME NEW loaded \in Row, NEW new \in Row, NEW row \in Row
  PROVE  Flush(loaded, new, row) \in Row
BY DEF Flush, Kept, Row

(* A recorded poll leaves a row, and does not touch what the operator      *)
(* configures.                                                             *)
LEMMA AfterPollType ==
  ASSUME NEW row \in Row, NEW r \in Results
  PROVE  /\ AfterPoll(row, r) \in Row
         /\ AfterPoll(row, r).addr = row.addr
         /\ AfterPoll(row, r).enabled = row.enabled
         /\ AfterPoll(row, r).status = "offline" <=> AfterPoll(row, r).error # None
<1>1. r \in Reply \cup Silence
  BY InputsAssumption
<1>2. CASE r \in Reply
  BY <1>2, NoneAssumption DEF AfterPoll, Reply, Row, Statuses, Errors, Descrs
<1>3. CASE r \in Silence
  BY <1>3, NoneAssumption DEF AfterPoll, Silence, Row, Statuses, Errors, Descrs
<1> QED BY <1>1, <1>2, <1>3

(* The classifier returns a device type.                                   *)
LEMMA ClassifyType ==
  ASSUME NEW words \in Descrs
  PROVE  Classify(words) \in Types
<1>1. words = {} \/ \E f \in words : f \in Families
  BY DEF Descrs
<1> QED BY <1>1 DEF Classify, Descrs, Families, Types

LEMMA ResultFields ==
  ASSUME NEW r \in Results
  PROVE  /\ r.reachable \in BOOLEAN
         /\ r.descr \in Descrs
         /\ r.load \in Loads
BY InputsAssumption DEF Reply, Silence, Descrs, Loads

LEMMA AfterTaskType ==
  ASSUME NEW row \in Row, NEW r \in Results
  PROVE  /\ AfterTask(row, r) \in Row
         /\ AfterTask(row, r).addr = row.addr
         /\ AfterTask(row, r).enabled = row.enabled
         /\ AfterTask(row, r).status = "offline" <=> AfterTask(row, r).error # None
BY AfterPollType, ClassifyType, ResultFields DEF AfterTask, Row

-----------------------------------------------------------------------------
(* Sessions.                                                               *)

(* What a handler is in the middle of tells what it holds.                 *)
LEMMA RequestFields ==
  ASSUME NEW s \in {Idle} \cup Request
  PROVE  /\ s.pc = "snmp" => s \in Polling
         /\ s.pc = "walk" => s \in Walking
         /\ s.pc = "check" => s \in Checking
         /\ s.pc = "write" /\ s.op \in {"edit", "put"} => s \in Updating
         /\ s.pc = "write" /\ s.op = "create" => s \in Adding
         /\ s.pc = "write" /\ s.op = "delete" => s \in Deleting
BY DEF Idle, Request, Polling, Walking, Checking, Updating, Adding, Deleting

LEMMA TaskFields ==
  ASSUME NEW s \in {Idle} \cup Task
  PROVE  /\ s.pc = "snmp" => s \in Contacting
         /\ s.pc = "write" => s \in Recording
BY DEF Idle, Task, Contacting, Recording

(* Writing a session of a handler or a worker leaves the others alone.     *)
LEMMA EnterHandler ==
  ASSUME SessionsOK, NEW h \in Handlers, NEW s \in {Idle} \cup Request, Enter(h, s)
  PROVE  SessionsOK'
BY SessionsAssumption DEF SessionsOK, Enter, Sessions

LEMMA EnterWorker ==
  ASSUME SessionsOK, NEW w \in Workers, NEW s \in {Idle} \cup Task, Enter(w, s)
  PROVE  SessionsOK'
BY SessionsAssumption DEF SessionsOK, Enter, Sessions

-----------------------------------------------------------------------------
(* The three ways a step writes the tables.                                *)

LEMMA WriteRowType ==
  ASSUME TablesOK, NEW d \in DOMAIN devices, NEW loaded \in Row, NEW new \in Row,
         WriteRow(d, loaded, new)
  PROVE  /\ DOMAIN devices' = DOMAIN devices
         /\ devices' \in [DOMAIN devices' -> Row]
         /\ stale' \subseteq DevIds
<1>1. Flush(loaded, new, devices[d]) \in Row
  BY FlushType DEF TablesOK
<1> QED BY <1>1 DEF TablesOK, WriteRow

LEMMA InsertSampleType ==
  ASSUME TablesOK, NEW d \in DevIds, NEW addr \in Addrs, NEW r \in Results,
         InsertSample(d, addr, r)
  PROVE  /\ DOMAIN samples' \subseteq SampleIds
         /\ samples' \in [DOMAIN samples' -> SampleRow]
<1> DEFINE row == [device |-> d, addr |-> addr, reachable |-> r.reachable,
                   load |-> r.load]
<1>1. row \in SampleRow
  BY ResultFields DEF SampleRow
<1>2. PICK n \in SampleIds : samples' = Insert(samples, n, row)
  BY DEF InsertSample
<1> HIDE DEF row
<1> QED BY <1>1, <1>2 DEF TablesOK, Insert

LEMMA ReplaceInsightsType ==
  ASSUME TablesOK, ReplaceInsights
  PROVE  /\ DOMAIN insights' \subseteq Nat
         /\ insights' \in [DOMAIN insights' -> InsightRow]
         /\ \A i \in DOMAIN insights' : insights'[i].device \in DOMAIN devices
<1>1. PICK order \in [1 .. Cardinality(Flagged) -> Flagged] :
        insights' = [i \in DOMAIN order |->
                       [device |-> order[i], code |-> Finding(order[i])]]
  BY DEF ReplaceInsights
<1>2. DOMAIN order \subseteq Nat
  OBVIOUS
<1>3. \A i \in DOMAIN order : order[i] \in DOMAIN devices
  BY DEF Flagged
<1>4. \A i \in DOMAIN order :
        [device |-> order[i], code |-> Finding(order[i])] \in InsightRow
  BY <1>3 DEF TablesOK, InsightRow, Finding
<1> QED BY <1>1, <1>2, <1>3, <1>4

(* The commit of a poll by a handler.                                      *)
LEMMA CommitPollType ==
  ASSUME TypeOK, NEW h \in Handlers, NEW r \in Results, CommitPoll(h, r),
         sess[h] \in Polling \cup Walking
  PROVE  TypeOK'
<1> DEFINE s == sess[h]
<1>1. /\ s.loaded \in Row /\ s.dev \in DevIds /\ s.loaded.addr \in Addrs
      /\ TablesOK
  BY DEF Polling, Walking, Row, TypeOK
<1>2. /\ DOMAIN devices' \subseteq DevIds
      /\ devices' \in [DOMAIN devices' -> Row]
      /\ stale' \subseteq DevIds
  <2>1. CASE s.dev \in DOMAIN devices
    <3>1. WriteRow(s.dev, s.loaded, AfterPoll(s.loaded, r))
      BY <2>1 DEF CommitPoll
    <3> QED BY <2>1, <3>1, <1>1, AfterPollType, WriteRowType DEF TablesOK
  <2>2. CASE s.dev \notin DOMAIN devices
    BY <2>2, <1>1 DEF CommitPoll, TablesOK
  <2> QED BY <2>1, <2>2
<1>3. DOMAIN samples' \subseteq SampleIds /\ samples' \in [DOMAIN samples' -> SampleRow]
  <2>1. CASE InsertSample(s.dev, s.loaded.addr, r)
    BY <2>1, <1>1, InsertSampleType
  <2>2. CASE UNCHANGED samples
    BY <2>2, <1>1 DEF TablesOK
  <2> QED BY <2>1, <2>2 DEF CommitPoll
<1>4. SessionsOK'
  BY EnterHandler DEF CommitPoll, Leave, TypeOK
<1> QED BY <1>2, <1>3, <1>4 DEF CommitPoll, TypeOK, TablesOK, poller

-----------------------------------------------------------------------------
(* Type correctness, one step per action.                                  *)

LEMMA InitType == Init => TypeOK
BY InputsAssumption, InitAssumption
   DEF Init, TypeOK, TablesOK, SessionsOK, Sessions

(* A request that arrives: the tables stay, one handler holds a session.   *)
LEMMA ArrivalType ==
  ASSUME TypeOK, NEW h \in Handlers, Arrival(h)
  PROVE  TypeOK'
<1>0. TablesOK /\ SessionsOK
  BY DEF TypeOK
<1>1. ASSUME NEW d \in DevIds, NEW op \in {"poll", "discover"}, PollGet(h, op, d)
      PROVE  TypeOK'
  <2>1. [pc |-> "snmp", op |-> op, dev |-> d, loaded |-> devices[d]] \in Request
    BY <1>0, <1>1 DEF PollGet, TablesOK, Request, Polling
  <2>2. SessionsOK'
    BY <1>0, <1>1, <2>1, EnterHandler DEF PollGet
  <2> QED BY <1>1, <2>2, InputsAssumption
          DEF PollGet, Event, TypeOK, TablesOK, tables, poller
<1>2. ASSUME NEW d \in DevIds, DeleteGet(h, d)
      PROVE  TypeOK'
  <2>1. Children(samples, d) \subseteq SampleIds /\ Children(insights, d) \subseteq Nat
    BY <1>0 DEF Children, TablesOK
  <2>2. [pc |-> "write", op |-> "delete", dev |-> d,
         kids |-> [samples  |-> Children(samples, d),
                   insights |-> Children(insights, d)]] \in Request
    BY <2>1 DEF Request, Deleting, Captured
  <2>3. SessionsOK'
    BY <1>0, <1>2, <2>2, EnterHandler DEF DeleteGet
  <2> QED BY <1>2, <2>3, InputsAssumption
          DEF DeleteGet, Event, TypeOK, TablesOK, tables, poller
<1>3. ASSUME NEW d \in DevIds, NEW form \in Forms, EditGet(h, d, form)
      PROVE  TypeOK'
  <2>1. [pc |-> "check", op |-> "edit", dev |-> d, loaded |-> devices[d],
         form |-> form] \in Request
    BY <1>0, <1>3 DEF EditGet, TablesOK, Request, Checking
  <2>2. SessionsOK'
    BY <1>0, <1>3, <2>1, EnterHandler DEF EditGet
  <2> QED BY <1>3, <2>2, InputsAssumption
          DEF EditGet, Event, TypeOK, TablesOK, tables, poller
<1>4. ASSUME NEW d \in DevIds, NEW form \in Forms, PutGet(h, d, form)
      PROVE  TypeOK'
  <2>1. [pc |-> "write", op |-> "put", dev |-> d, loaded |-> devices[d],
         form |-> form] \in Request
    BY <1>0, <1>4 DEF PutGet, TablesOK, Request, Updating
  <2>2. SessionsOK'
    BY <1>0, <1>4, <2>1, EnterHandler DEF PutGet
  <2> QED BY <1>4, <2>2, InputsAssumption
          DEF PutGet, Event, TypeOK, TablesOK, tables, poller
<1>5. ASSUME NEW form \in Forms, CreateCheck(h, form)
      PROVE  TypeOK'
  <2>1. [pc |-> "write", op |-> "create", form |-> form] \in Request
    BY DEF Request, Adding
  <2>2. SessionsOK'
    BY <1>0, <1>5, <2>1, EnterHandler DEF CreateCheck
  <2> QED BY <1>5, <2>2, InputsAssumption
          DEF CreateCheck, Event, TypeOK, TablesOK, tables, poller
<1> QED BY <1>1, <1>2, <1>3, <1>4, <1>5 DEF Arrival

(* The row an edit or a PUT leaves.                                        *)
LEMMA AfterEditType ==
  ASSUME NEW row \in Row, NEW op, NEW form \in Forms
  PROVE  /\ AfterEdit(row, op, form) \in Row
         /\ Telemetry(AfterEdit(row, op, form)) = Telemetry(row)
BY InputsAssumption DEF AfterEdit, Row, Form, Telemetry

LEMMA NewRowType ==
  ASSUME NEW form \in Forms
  PROVE  NewRow(form) \in Row
BY InputsAssumption DEF NewRow, Row, Form, Statuses

(* A request that goes on: a handler moves or commits.                     *)
LEMMA HandlerStepType ==
  ASSUME TypeOK, NEW h \in Handlers, HandlerStep(h)
  PROVE  TypeOK'
<1> DEFINE s == sess[h]
<1>0. /\ TablesOK /\ SessionsOK
      /\ s \in {Idle} \cup Request /\ Idle \in {Idle} \cup Request
  BY DEF TypeOK, SessionsOK
<1>1. ASSUME NEW r \in Results, PollAnswer(h, r)
      PROVE  TypeOK'
  <2>1. s \in Polling
    BY <1>0, <1>1, RequestFields DEF PollAnswer
  <2>2. CASE Walks(s, r)
    <3>1. [pc |-> "walk", op |-> s.op, dev |-> s.dev, loaded |-> s.loaded,
           result |-> r] \in Request
      BY <2>1 DEF Polling, Request, Walking
    <3>2. SessionsOK'
      BY <1>0, <1>1, <2>2, <3>1, EnterHandler DEF PollAnswer
    <3> QED BY <1>1, <2>2, <3>2 DEF PollAnswer, TypeOK, TablesOK, tables, poller
  <2>3. CASE ~Walks(s, r)
    BY <1>1, <2>1, <2>3, CommitPollType DEF PollAnswer
  <2> QED BY <2>2, <2>3
<1>2. CASE PollWalked(h)
  <2>1. s \in Walking /\ s.result \in Results
    BY <1>0, <1>2, RequestFields DEF PollWalked, Walking
  <2> QED BY <1>2, <2>1, CommitPollType DEF PollWalked
<1>3. CASE EditCheck(h)
  <2>1. s \in Checking
    BY <1>0, <1>3, RequestFields DEF EditCheck
  <2>2. AfterCheck(s) \in {Idle} \cup Request
    BY <2>1 DEF AfterCheck, Checking, Updating, Request
  <2>3. SessionsOK'
    BY <1>0, <1>3, <2>2, EnterHandler DEF EditCheck
  <2> QED BY <1>3, <2>3 DEF EditCheck, TypeOK, TablesOK, tables, poller
<1>4. CASE UpdateCommit(h)
  <2> DEFINE new == AfterEdit(s.loaded, s.op, s.form)
  <2>1. s \in Updating
    BY <1>0, <1>4, RequestFields DEF UpdateCommit
  <2>2. s.loaded \in Row /\ new \in Row
    BY <2>1, AfterEditType DEF Updating
  <2>3. DOMAIN devices' \subseteq DevIds /\ devices' \in [DOMAIN devices' -> Row]
    <3>1. CASE UNCHANGED devices
      BY <1>0, <3>1 DEF TablesOK
    <3>2. CASE /\ s.dev \in DOMAIN devices
               /\ devices' = [devices EXCEPT ![s.dev] =
                                Flush(s.loaded, new, devices[s.dev])]
      <4>1. Flush(s.loaded, new, devices[s.dev]) \in Row
        BY <1>0, <2>2, <3>2, FlushType DEF TablesOK
      <4> QED BY <1>0, <3>2, <4>1 DEF TablesOK
    <3> QED BY <1>4, <3>1, <3>2 DEF UpdateCommit
  <2>4. SessionsOK'
    BY <1>0, <1>4, EnterHandler DEF UpdateCommit, Leave
  <2> QED BY <1>4, <2>3, <2>4 DEF UpdateCommit, TypeOK, TablesOK, poller
<1>5. CASE CreateCommit(h)
  <2>1. s.form \in Forms
    BY <1>0, <1>5, RequestFields DEF CreateCommit, Adding
  <2>2. DOMAIN devices' \subseteq DevIds /\ devices' \in [DOMAIN devices' -> Row]
    <3>1. CASE UNCHANGED devices
      BY <1>0, <3>1 DEF TablesOK
    <3>2. ASSUME NEW d \in DevIds, devices' = Insert(devices, d, NewRow(s.form))
          PROVE  /\ DOMAIN devices' \subseteq DevIds
                 /\ devices' \in [DOMAIN devices' -> Row]
      <4>1. NewRow(s.form) \in Row
        BY <2>1, NewRowType
      <4> QED BY <1>0, <3>2, <4>1 DEF TablesOK, Insert
    <3> QED BY <1>5, <3>1, <3>2 DEF CreateCommit
  <2>3. SessionsOK'
    BY <1>0, <1>5, EnterHandler DEF CreateCommit, Leave
  <2> QED BY <1>5, <2>2, <2>3 DEF CreateCommit, TypeOK, TablesOK, poller
<1>6. CASE DeleteCommit(h)
  <2>1. DOMAIN devices' \subseteq DevIds /\ devices' \in [DOMAIN devices' -> Row]
    BY <1>0, <1>6 DEF DeleteCommit, TablesOK, Without, Restrict
  <2>2. /\ DOMAIN samples' \subseteq SampleIds
        /\ samples' \in [DOMAIN samples' -> SampleRow]
    BY <1>0, <1>6 DEF DeleteCommit, TablesOK, Without, Restrict
  <2>3. /\ DOMAIN insights' \subseteq Nat
        /\ insights' \in [DOMAIN insights' -> InsightRow]
    BY <1>0, <1>6 DEF DeleteCommit, TablesOK, Without, Restrict
  <2>4. SessionsOK'
    BY <1>0, <1>6, EnterHandler DEF DeleteCommit, Leave
  <2> QED BY <1>6, <2>1, <2>2, <2>3, <2>4
          DEF DeleteCommit, TypeOK, TablesOK, poller
<1> QED BY <1>1, <1>2, <1>3, <1>4, <1>5, <1>6 DEF HandlerStep

(* A poll task: a worker takes a device, reads it again, or commits.       *)
LEMMA WorkerStepType ==
  ASSUME TypeOK, NEW w \in Workers, WorkerStep(w)
  PROVE  TypeOK'
<1> DEFINE s == sess[w]
<1>0. /\ TablesOK /\ SessionsOK
      /\ s \in {Idle} \cup Task /\ Idle \in {Idle} \cup Task
  BY DEF TypeOK, SessionsOK
<1>1. CASE TaskGet(w)
  <2>1. PICK d \in pending :
          /\ pending' = pending \ {d}
          /\ IF d \in DOMAIN devices /\ devices[d].enabled /\ ~ExpireOnCommit
               THEN Enter(w, [pc |-> "snmp", dev |-> d,
                              target |-> devices[d].addr])
               ELSE UNCHANGED sess
    BY <1>1 DEF TaskGet
  <2>2. SessionsOK'
    <3>1. CASE UNCHANGED sess
      BY <1>0, <3>1 DEF SessionsOK
    <3>2. CASE /\ d \in DOMAIN devices
               /\ Enter(w, [pc |-> "snmp", dev |-> d, target |-> devices[d].addr])
      <4>1. [pc |-> "snmp", dev |-> d, target |-> devices[d].addr] \in Task
        BY <1>0, <3>2 DEF TablesOK, Row, Task, Contacting
      <4> QED BY <1>0, <3>2, <4>1, EnterWorker
    <3> QED BY <2>1, <3>1, <3>2
  <2> QED BY <1>1, <2>1, <2>2 DEF TaskGet, TypeOK, TablesOK, tables
<1>2. ASSUME NEW r \in Results, TaskAnswer(w, r)
      PROVE  TypeOK'
  <2>1. s \in Contacting
    BY <1>0, <1>2, TaskFields DEF TaskAnswer
  <2>2. Reread(s, r) \in {Idle} \cup Task
    BY <1>0, <2>1 DEF Reread, Contacting, Recording, Task, TablesOK
  <2>3. SessionsOK'
    BY <1>0, <1>2, <2>2, EnterWorker DEF TaskAnswer
  <2> QED BY <1>2, <2>3 DEF TaskAnswer, TypeOK, TablesOK, tables, poller
<1>3. CASE TaskCommit(w)
  <2>1. /\ s.dev \in DevIds /\ s.target \in Addrs /\ s.loaded \in Row
        /\ s.result \in Results
    BY <1>0, <1>3, TaskFields DEF TaskCommit, Recording
  <2>2. /\ DOMAIN devices' \subseteq DevIds
        /\ devices' \in [DOMAIN devices' -> Row]
        /\ stale' \subseteq DevIds
    <3>1. CASE s.dev \in DOMAIN devices
      <4>1. WriteRow(s.dev, s.loaded, AfterTask(s.loaded, s.result))
        BY <1>3, <3>1 DEF TaskCommit
      <4> QED BY <1>0, <2>1, <3>1, <4>1, AfterTaskType, WriteRowType DEF TablesOK
    <3>2. CASE s.dev \notin DOMAIN devices
      BY <1>0, <1>3, <3>2 DEF TaskCommit, TablesOK
    <3> QED BY <3>1, <3>2
  <2>3. /\ DOMAIN samples' \subseteq SampleIds
        /\ samples' \in [DOMAIN samples' -> SampleRow]
    <3>1. CASE InsertSample(s.dev, s.target, s.result)
      BY <1>0, <2>1, <3>1, InsertSampleType
    <3>2. CASE UNCHANGED samples
      BY <1>0, <3>2 DEF TablesOK
    <3> QED BY <1>3, <3>1, <3>2 DEF TaskCommit
  <2>4. SessionsOK'
    BY <1>0, <1>3, EnterWorker DEF TaskCommit, Leave
  <2> QED BY <1>0, <1>3, <2>2, <2>3, <2>4 DEF TaskCommit, TypeOK, TablesOK, poller
<1> QED BY <1>1, <1>2, <1>3 DEF WorkerStep

(* Every reachable state is well typed.                                    *)
THEOREM TypeCorrect == Spec => []TypeOK
<1>1. TypeOK /\ [Next]_vars => TypeOK'
  <2> SUFFICES ASSUME TypeOK, [Next]_vars PROVE TypeOK'
    OBVIOUS
  <2>0. TablesOK /\ SessionsOK
    BY DEF TypeOK
  <2>1. ASSUME NEW h \in Handlers, Arrival(h) PROVE TypeOK'
    BY <2>1, ArrivalType
  <2>2. ASSUME NEW h \in Handlers, HandlerStep(h) PROVE TypeOK'
    BY <2>2, HandlerStepType
  <2>3. ASSUME NEW w \in Workers, WorkerStep(w) PROVE TypeOK'
    BY <2>3, WorkerStepType
  <2>4. ASSUME NEW x \in Sessions, Abort(x) PROVE TypeOK'
    <3>1. SessionsOK'
      BY <2>0, <2>4, EnterHandler, EnterWorker DEF Abort, Leave, Sessions
    <3> QED BY <2>4, <3>1 DEF Abort, TypeOK, TablesOK, tables, poller
  <2>5. CASE CycleStart
    <3>1. cycles' \in 0 .. MaxCycles
      BY <2>5, InputsAssumption DEF CycleStart, TypeOK
    <3> QED BY <2>0, <2>5, <3>1 DEF CycleStart, TypeOK, TablesOK, SessionsOK, tables
  <2>6. CASE CycleStop
    <3>1. CycleDone /\ (ReplaceInsights \/ UNCHANGED insights)
      BY <2>6 DEF CycleStop, CycleEnd, CycleEndLocked
    <3>2. TablesOK'
      BY <2>0, <3>1, ReplaceInsightsType DEF CycleDone, TablesOK
    <3> QED BY <2>0, <3>1, <3>2 DEF CycleDone, TypeOK, SessionsOK
  <2>7. CASE RecomputeRequest
    <3>1. TablesOK'
      BY <2>0, <2>7, ReplaceInsightsType DEF RecomputeRequest, TablesOK
    <3> QED BY <2>0, <2>7, <3>1, InputsAssumption
            DEF RecomputeRequest, Event, TypeOK, SessionsOK, poller
  <2>8. CASE Restart
    BY <2>0, <2>8, InputsAssumption
       DEF Restart, Event, TypeOK, TablesOK, SessionsOK, Sessions, tables
  <2>9. CASE UNCHANGED vars
    BY <2>9 DEF vars, TypeOK, TablesOK, SessionsOK
  <2> QED BY <2>1, <2>2, <2>3, <2>4, <2>5, <2>6, <2>7, <2>8, <2>9
          DEF Next, Quiescent
<1> QED BY <1>1, InitType, PTL DEF Spec

-----------------------------------------------------------------------------
(* Status and error.                                                       *)

(* A poll written from a copy that was not stale leaves status and error   *)
(* in agreement, whatever they were.                                       *)
LEMMA WriteRowAgrees ==
  ASSUME TablesOK, TelemetryAgrees, NEW d \in DOMAIN devices,
         NEW loaded \in Row, NEW new \in Row,
         new.status = "offline" <=> new.error # None,
         WriteRow(d, loaded, new)
  PROVE  TelemetryAgrees'
<1> DEFINE row == Flush(loaded, new, devices[d])
<1>1. /\ devices' = [devices EXCEPT ![d] = row]
      /\ IF Telemetry(loaded) = Telemetry(devices[d])
           THEN stale' = stale \ {d} ELSE stale' = stale \cup {d}
  BY DEF WriteRow
<1>2. ASSUME Telemetry(loaded) = Telemetry(devices[d])
      PROVE  row.status = "offline" <=> row.error # None
  <2>1. row.status = new.status /\ row.error = new.error
    BY <1>2 DEF Flush, Kept, Telemetry
  <2> QED BY <2>1
<1> HIDE DEF row
<1>3. ASSUME NEW e \in DOMAIN devices' \ stale'
      PROVE  devices'[e].status = "offline" <=> devices'[e].error # None
  <2>1. CASE e = d
    BY <1>1, <1>2, <1>3, <2>1 DEF TablesOK
  <2>2. CASE e # d
    BY <1>1, <1>3, <2>2 DEF TablesOK, TelemetryAgrees
  <2> QED BY <2>1, <2>2
<1> QED BY <1>3 DEF TelemetryAgrees

(* A step that only moves sessions keeps the agreement.                    *)
LEMMA SameTelemetry ==
  ASSUME TelemetryAgrees, UNCHANGED <<devices, stale>>
  PROVE  TelemetryAgrees'
BY DEF TelemetryAgrees

LEMMA HandlerStepAgrees ==
  ASSUME TypeOK, TelemetryAgrees, NEW h \in Handlers, HandlerStep(h)
  PROVE  TelemetryAgrees'
<1> DEFINE s == sess[h]
<1>0. TablesOK /\ s \in {Idle} \cup Request
  BY DEF TypeOK, SessionsOK
<1>1. ASSUME NEW r \in Results, CommitPoll(h, r), s \in Polling \cup Walking
      PROVE  TelemetryAgrees'
  <2>1. s.loaded \in Row
    BY <1>1 DEF Polling, Walking
  <2>2. CASE s.dev \in DOMAIN devices
    <3>1. WriteRow(s.dev, s.loaded, AfterPoll(s.loaded, r))
      BY <1>1, <2>2 DEF CommitPoll
    <3> QED BY <1>0, <2>1, <2>2, <3>1, AfterPollType, WriteRowAgrees
  <2>3. CASE s.dev \notin DOMAIN devices
    BY <1>1, <2>3, SameTelemetry DEF CommitPoll
  <2> QED BY <2>2, <2>3
<1>2. ASSUME NEW r \in Results, PollAnswer(h, r) PROVE TelemetryAgrees'
  <2>1. s \in Polling
    BY <1>0, <1>2, RequestFields DEF PollAnswer
  <2>2. CASE Walks(s, r)
    BY <1>2, <2>2, SameTelemetry DEF PollAnswer, tables
  <2> QED BY <1>1, <1>2, <2>1, <2>2 DEF PollAnswer
<1>3. CASE PollWalked(h)
  <2>1. s \in Walking /\ s.result \in Results
    BY <1>0, <1>3, RequestFields DEF PollWalked, Walking
  <2> QED BY <1>1, <1>3, <2>1 DEF PollWalked
<1>4. CASE EditCheck(h)
  BY <1>4, SameTelemetry DEF EditCheck, tables
<1>5. CASE UpdateCommit(h)
  <2> DEFINE new == AfterEdit(s.loaded, s.op, s.form)
             row == Flush(s.loaded, new, devices[s.dev])
  <2>1. s.loaded \in Row /\ s.form \in Forms
    BY <1>0, <1>5, RequestFields DEF UpdateCommit, Updating
  <2>2. Telemetry(new) = Telemetry(s.loaded)
    BY <2>1, AfterEditType
  <2>3. CASE UNCHANGED devices
    BY <1>5, <2>3, SameTelemetry DEF UpdateCommit
  <2>4. CASE s.dev \in DOMAIN devices /\ devices' = [devices EXCEPT ![s.dev] = row]
    <3>1. row.status = devices[s.dev].status /\ row.error = devices[s.dev].error
      BY <2>2 DEF Flush, Kept, Telemetry
    <3>2. UNCHANGED stale
      BY <1>5 DEF UpdateCommit
    <3> HIDE DEF row
    <3> QED BY <1>0, <2>4, <3>1, <3>2 DEF TelemetryAgrees, TablesOK
  <2> QED BY <1>5, <2>3, <2>4 DEF UpdateCommit
<1>6. CASE CreateCommit(h)
  <2>1. UNCHANGED stale
    BY <1>6 DEF CreateCommit
  <2>2. CASE UNCHANGED devices
    BY <2>1, <2>2, SameTelemetry
  <2>3. ASSUME NEW d \in DevIds, devices' = Insert(devices, d, NewRow(s.form))
        PROVE  TelemetryAgrees'
    <3>1. NewRow(s.form).status # "offline" /\ NewRow(s.form).error = None
      BY DEF NewRow
    <3> QED BY <2>1, <2>3, <3>1 DEF TelemetryAgrees, Insert
  <2> QED BY <1>6, <2>2, <2>3 DEF CreateCommit
<1>7. CASE DeleteCommit(h)
  BY <1>0, <1>7 DEF DeleteCommit, Without, Restrict, TelemetryAgrees
<1> QED BY <1>2, <1>3, <1>4, <1>5, <1>6, <1>7 DEF HandlerStep

LEMMA WorkerStepAgrees ==
  ASSUME TypeOK, TelemetryAgrees, NEW w \in Workers, WorkerStep(w)
  PROVE  TelemetryAgrees'
<1> DEFINE s == sess[w]
<1>0. TablesOK /\ s \in {Idle} \cup Task
  BY DEF TypeOK, SessionsOK
<1>1. CASE TaskGet(w)
  BY <1>1, SameTelemetry DEF TaskGet, tables
<1>2. ASSUME NEW r \in Results, TaskAnswer(w, r) PROVE TelemetryAgrees'
  BY <1>2, SameTelemetry DEF TaskAnswer, tables
<1>3. CASE TaskCommit(w)
  <2>1. s.loaded \in Row /\ s.result \in Results
    BY <1>0, <1>3, TaskFields DEF TaskCommit, Recording
  <2>2. CASE s.dev \in DOMAIN devices
    <3>1. WriteRow(s.dev, s.loaded, AfterTask(s.loaded, s.result))
      BY <1>3, <2>2 DEF TaskCommit
    <3> QED BY <1>0, <2>1, <2>2, <3>1, AfterTaskType, WriteRowAgrees
  <2>3. CASE s.dev \notin DOMAIN devices
    BY <1>3, <2>3, SameTelemetry DEF TaskCommit
  <2> QED BY <2>2, <2>3
<1> QED BY <1>1, <1>2, <1>3 DEF WorkerStep

(* A device is offline exactly when it has an error to show, except after  *)
(* overlapping polls and until the next undisturbed one.                   *)
THEOREM StatusAgreesWithError == Spec => []TelemetryAgrees
<1>1. Init => TelemetryAgrees
  BY InitAssumption DEF Init, TelemetryAgrees
<1>2. TypeOK /\ TelemetryAgrees /\ [Next]_vars => TelemetryAgrees'
  <2> SUFFICES ASSUME TypeOK, TelemetryAgrees, [Next]_vars PROVE TelemetryAgrees'
    OBVIOUS
  <2>1. ASSUME NEW h \in Handlers, Arrival(h) PROVE TelemetryAgrees'
    BY <2>1, SameTelemetry
       DEF Arrival, PollGet, DeleteGet, EditGet, PutGet, CreateCheck, tables
  <2>2. ASSUME NEW x \in Sessions, Abort(x) PROVE TelemetryAgrees'
    BY <2>2, SameTelemetry DEF Abort, tables
  <2>3. CASE CycleStart \/ CycleStop \/ RecomputeRequest \/ Restart \/ UNCHANGED vars
    BY <2>3, SameTelemetry
       DEF CycleStart, CycleStop, CycleEnd, CycleEndLocked, CycleDone,
           RecomputeRequest, Restart, tables, vars
  <2> QED BY <2>1, <2>2, <2>3, HandlerStepAgrees, WorkerStepAgrees
          DEF Next, Quiescent
<1> QED BY <1>1, <1>2, TypeCorrect, PTL DEF Spec

-----------------------------------------------------------------------------
(* DeviceRegistry implements DeviceTable: whatever the requests and the    *)
(* poll tasks do between them, every step of theirs is one transaction of  *)
(* the table or invisible to it.  The safety properties that only speak of *)
(* the tables follow from the transactions.                                *)

(* A step that leaves the three tables alone is invisible.                 *)
LEMMA Invisible ==
  ASSUME UNCHANGED <<devices, samples, insights>>
  PROVE  UNCHANGED Table!vars
BY DEF Table!vars

(* An UPDATE of what polling learnt.                                       *)
LEMMA WriteRowReading ==
  ASSUME TablesOK, NEW d \in DOMAIN devices, NEW loaded \in Row, NEW new \in Row,
         new.addr = loaded.addr, new.enabled = loaded.enabled,
         WriteRow(d, loaded, new)
  PROVE  /\ DOMAIN devices' = DOMAIN devices
         /\ \A e \in DOMAIN devices :
              Configuration(devices'[e]) = Configuration(devices[e])
         /\ \A e \in DOMAIN devices \ {d} :
              Telemetry(devices'[e]) = Telemetry(devices[e])
         /\ Telemetry(devices'[d])
              \in Statuses \X (Errors \cup {None}) \X (Descrs \cup {None})
<1> DEFINE row == Flush(loaded, new, devices[d])
<1>1. row \in Row
  BY FlushType DEF TablesOK
<1>2. row.addr = devices[d].addr /\ row.enabled = devices[d].enabled
  BY DEF Flush, Kept
<1>3. devices' = [devices EXCEPT ![d] = row]
  BY DEF WriteRow
<1>4. Telemetry(row) \in Statuses \X (Errors \cup {None}) \X (Descrs \cup {None})
  BY <1>1 DEF Row, Telemetry
<1> HIDE DEF row
<1> QED BY <1>1, <1>2, <1>3, <1>4 DEF TablesOK, Configuration

(* The INSERT of a sample.                                                 *)
LEMMA InsertSampleOwner ==
  ASSUME TablesOK, NEW d, NEW addr, NEW r, InsertSample(d, addr, r)
  PROVE  \E n \in SampleIds \ DOMAIN samples :
           /\ DOMAIN samples' = DOMAIN samples \cup {n}
           /\ samples'[n].device = d
           /\ \A i \in DOMAIN samples : samples'[i].device = samples[i].device
<1>1. PICK n \in SampleIds :
        /\ IsNextId(samples, n)
        /\ samples' = Insert(samples, n, [device |-> d, addr |-> addr,
                                          reachable |-> r.reachable,
                                          load |-> r.load])
  BY DEF InsertSample
<1>2. n \notin DOMAIN samples
  BY <1>1, IdsAssumption DEF IsNextId
<1> QED BY <1>1, <1>2 DEF Insert, TablesOK

(* A recorded poll is a Record of the table.                               *)
LEMMA RecordStep ==
  ASSUME TablesOK, NEW d \in DOMAIN devices, NEW loaded \in Row, NEW new \in Row,
         new.addr = loaded.addr, new.enabled = loaded.enabled,
         WriteRow(d, loaded, new), NEW addr, NEW r,
         InsertSample(d, addr, r) \/ UNCHANGED samples,
         UNCHANGED insights
  PROVE  Table!Next
<1>0. d \in DevIds
  BY DEF TablesOK
<1>1. PICK reading \in Statuses \X (Errors \cup {None}) \X (Descrs \cup {None}) :
        reading = Telemetry(devices'[d])
  BY WriteRowReading
<1>2. Table!Record(d, reading)
  <2>1. [e \in DOMAIN devices' |-> Configuration(devices'[e])]
          = [e \in DOMAIN devices |-> Configuration(devices[e])]
    BY WriteRowReading
  <2>2. [e \in DOMAIN devices' |-> Telemetry(devices'[e])]
          = [[e \in DOMAIN devices |-> Telemetry(devices[e])]
               EXCEPT ![d] = reading]
    BY <1>1, WriteRowReading
  <2>3. \/ \E n \in SampleIds \ DOMAIN samples :
             [i \in DOMAIN samples' |-> samples'[i].device]
               = Table!Extend([i \in DOMAIN samples |-> samples[i].device], n, d)
        \/ [i \in DOMAIN samples' |-> samples'[i].device]
             = [i \in DOMAIN samples |-> samples[i].device]
    <3>1. CASE InsertSample(d, addr, r)
      <4>1. PICK n \in SampleIds \ DOMAIN samples :
              /\ DOMAIN samples' = DOMAIN samples \cup {n}
              /\ samples'[n].device = d
              /\ \A i \in DOMAIN samples : samples'[i].device = samples[i].device
        BY <3>1, InsertSampleOwner
      <4>2. [i \in DOMAIN samples' |-> samples'[i].device]
              = [i \in DOMAIN samples \cup {n} |->
                   IF i = n THEN d ELSE samples[i].device]
        BY <4>1
      <4> QED BY <4>2 DEF Table!Extend
    <3>2. CASE UNCHANGED samples
      BY <3>2
    <3> QED BY <3>1, <3>2
  <2>4. UNCHANGED [i \in DOMAIN insights |-> insights[i].device]
    OBVIOUS
  <2> QED BY <2>1, <2>2, <2>3, <2>4 DEF Table!Record
<1> QED BY <1>0, <1>2 DEF Table!Next

(* A written edit or PUT is a Reconfigure of the table.                    *)
LEMMA ReconfigureStep ==
  ASSUME TablesOK, NEW d \in DOMAIN devices, NEW loaded \in Row, NEW new \in Row,
         Telemetry(new) = Telemetry(loaded),
         AddressFree(d, Flush(loaded, new, devices[d]).addr),
         devices' = [devices EXCEPT ![d] = Flush(loaded, new, devices[d])],
         UNCHANGED <<samples, insights>>
  PROVE  Table!Next
<1> DEFINE row == Flush(loaded, new, devices[d])
<1>0. d \in DevIds
  BY DEF TablesOK
<1>1. row \in Row
  BY FlushType DEF TablesOK
<1>2. PICK c \in [addr : Addrs, enabled : BOOLEAN] : c = Configuration(row)
  BY <1>1 DEF Configuration, Row
<1>3. Telemetry(row) = Telemetry(devices[d])
  BY DEF Flush, Kept, Telemetry
<1>4. AddressFree(d, row.addr) /\ devices' = [devices EXCEPT ![d] = row]
  OBVIOUS
<1> HIDE DEF row
<1>5. Table!Reconfigure(d, c)
  <2>1. \A e \in DOMAIN devices \ {d} : devices[e].addr # c.addr
    BY <1>2, <1>4 DEF AddressFree, Holders, Configuration
  <2>2. \A e \in DOMAIN devices \ {d} :
          [x \in DOMAIN devices |-> Configuration(devices[x])][e].addr # c.addr
    BY <2>1 DEF Configuration
  <2>3. [e \in DOMAIN devices' |-> Configuration(devices'[e])]
          = [[e \in DOMAIN devices |-> Configuration(devices[e])] EXCEPT ![d] = c]
    BY <1>2, <1>4 DEF TablesOK
  <2>4. [e \in DOMAIN devices' |-> Telemetry(devices'[e])]
          = [e \in DOMAIN devices |-> Telemetry(devices[e])]
    BY <1>3, <1>4 DEF TablesOK
  <2> QED BY <2>2, <2>3, <2>4 DEF Table!Reconfigure, Table!Unused
<1> QED BY <1>0, <1>5 DEF Table!Next

(* An inserted device is a Create of the table.                            *)
LEMMA CreateStep ==
  ASSUME TablesOK, NEW d \in DevIds, NEW form \in Forms,
         IsNextId(devices, d), AddressFree(d, form.addr),
         devices' = Insert(devices, d, NewRow(form)),
         UNCHANGED <<samples, insights>>
  PROVE  Table!Next
<1>1. PICK c \in [addr : Addrs, enabled : BOOLEAN] : c = Configuration(NewRow(form))
  BY InputsAssumption DEF Form, NewRow, Configuration
<1>2. d \notin DOMAIN devices
  BY IdsAssumption DEF IsNextId
<1>3. c.addr = form.addr /\ Telemetry(NewRow(form)) = <<"unknown", None, None>>
  BY <1>1 DEF NewRow, Configuration, Telemetry
<1>4. Table!Create(d, c)
  <2>1. \A e \in DOMAIN devices \ {d} :
          [x \in DOMAIN devices |-> Configuration(devices[x])][e].addr # c.addr
    BY <1>2, <1>3 DEF AddressFree, Holders, Configuration
  <2>2. [e \in DOMAIN devices' |-> Configuration(devices'[e])]
          = [e \in DOMAIN devices \cup {d} |->
               IF e = d THEN c ELSE Configuration(devices[e])]
    BY <1>1 DEF Insert
  <2>3. [e \in DOMAIN devices' |-> Telemetry(devices'[e])]
          = [e \in DOMAIN devices \cup {d} |->
               IF e = d THEN <<"unknown", None, None>> ELSE Telemetry(devices[e])]
    BY <1>3 DEF Insert
  <2> QED
    BY <1>2, <2>1, <2>2, <2>3 DEF Table!Create, Table!Unused, Table!Extend
<1> QED BY <1>4 DEF Table!Next

(* A committed delete is a Delete of the table.                            *)
LEMMA DeleteStep ==
  ASSUME TablesOK, NEW d \in DevIds, NEW more, NEW others,
         devices' = Without(devices, {d}),
         samples' = Without(samples, more \cup Cascade(samples, d)),
         insights' = Without(insights, others \cup Cascade(insights, d))
  PROVE  Table!Next
<1>1. Table!Delete(d)
  <2>1. [e \in DOMAIN devices' |-> Configuration(devices'[e])]
          = [e \in DOMAIN devices \ {d} |->
               [x \in DOMAIN devices |-> Configuration(devices[x])][e]]
    BY DEF Without, Restrict
  <2>2. [e \in DOMAIN devices' |-> Telemetry(devices'[e])]
          = [e \in DOMAIN devices \ {d} |->
               [x \in DOMAIN devices |-> Telemetry(devices[x])][e]]
    BY DEF Without, Restrict
  <2>3. /\ DOMAIN samples' \subseteq {i \in DOMAIN samples : samples[i].device # d}
        /\ [i \in DOMAIN samples' |-> samples'[i].device]
             = [i \in DOMAIN samples' |->
                  [j \in DOMAIN samples |-> samples[j].device][i]]
    BY DEF Without, Restrict, Cascade, Children
  <2>4. /\ DOMAIN insights' \subseteq {i \in DOMAIN insights : insights[i].device # d}
        /\ [i \in DOMAIN insights' |-> insights'[i].device]
             = [i \in DOMAIN insights' |->
                  [j \in DOMAIN insights |-> insights[j].device][i]]
    BY DEF Without, Restrict, Cascade, Children
  <2> QED BY <2>1, <2>2, <2>3, <2>4 DEF Table!Delete, Table!Restrict
<1> QED BY <1>1 DEF Table!Next

(* Replaced insights are a Recompute of the table.                         *)
LEMMA RecomputeStep ==
  ASSUME TablesOK, ReplaceInsights, UNCHANGED <<devices, samples>>
  PROVE  Table!Next
<1>1. /\ insights' \in [DOMAIN insights' -> InsightRow]
      /\ \A i \in DOMAIN insights' : insights'[i].device \in DOMAIN devices
  BY ReplaceInsightsType
<1>2. Table!Recompute
  BY <1>1 DEF Table!Recompute
<1> QED BY <1>2 DEF Table!Next

-----------------------------------------------------------------------------
(* The steps of the handlers.                                              *)
LEMMA HandlerStepImplements ==
  ASSUME TypeOK, NEW h \in Handlers, HandlerStep(h)
  PROVE  Table!Next \/ UNCHANGED Table!vars
<1> DEFINE s == sess[h]
<1>0. TablesOK /\ s \in {Idle} \cup Request
  BY DEF TypeOK, SessionsOK
<1>1. ASSUME NEW r \in Results, CommitPoll(h, r), s \in Polling \cup Walking
      PROVE  Table!Next \/ UNCHANGED Table!vars
  <2>1. s.dev \in DevIds /\ s.loaded \in Row
    BY <1>1 DEF Polling, Walking
  <2>2. CASE s.dev \notin DOMAIN devices
    BY <1>1, <2>2, Invisible DEF CommitPoll
  <2>3. CASE s.dev \in DOMAIN devices
    <3>1. PICK d \in DOMAIN devices : d = s.dev
      BY <2>3
    <3>2. /\ AfterPoll(s.loaded, r) \in Row
          /\ AfterPoll(s.loaded, r).addr = s.loaded.addr
          /\ AfterPoll(s.loaded, r).enabled = s.loaded.enabled
      BY <2>1, AfterPollType
    <3>3. /\ WriteRow(d, s.loaded, AfterPoll(s.loaded, r))
          /\ InsertSample(d, s.loaded.addr, r) \/ UNCHANGED samples
          /\ UNCHANGED insights
      BY <1>1, <2>3, <3>1 DEF CommitPoll
    <3> QED BY <1>0, <2>1, <3>2, <3>3, RecordStep
  <2> QED BY <2>2, <2>3
<1>2. ASSUME NEW r \in Results, PollAnswer(h, r)
      PROVE  Table!Next \/ UNCHANGED Table!vars
  <2>1. s \in Polling
    BY <1>0, <1>2, RequestFields DEF PollAnswer
  <2>2. CASE Walks(s, r)
    BY <1>2, <2>2, Invisible DEF PollAnswer, tables
  <2> QED BY <1>1, <1>2, <2>1, <2>2 DEF PollAnswer
<1>3. CASE PollWalked(h)
  <2>1. s \in Walking /\ s.result \in Results
    BY <1>0, <1>3, RequestFields DEF PollWalked, Walking
  <2> QED BY <1>1, <1>3, <2>1 DEF PollWalked
<1>4. CASE EditCheck(h)
  BY <1>4, Invisible DEF EditCheck, tables
<1>5. CASE UpdateCommit(h)
  <2> DEFINE new == AfterEdit(s.loaded, s.op, s.form)
  <2>1. s \in Updating
    BY <1>0, <1>5, RequestFields DEF UpdateCommit
  <2>2. s.loaded \in Row /\ new \in Row /\ Telemetry(new) = Telemetry(s.loaded)
    BY <2>1, AfterEditType DEF Updating
  <2>3. CASE UNCHANGED devices
    BY <1>5, <2>3, Invisible DEF UpdateCommit
  <2>4. CASE /\ s.dev \in DOMAIN devices
             /\ AddressFree(s.dev, Flush(s.loaded, new, devices[s.dev]).addr)
             /\ devices' = [devices EXCEPT ![s.dev] =
                              Flush(s.loaded, new, devices[s.dev])]
    <3>1. UNCHANGED <<samples, insights>>
      BY <1>5 DEF UpdateCommit
    <3> HIDE DEF new
    <3> QED BY <1>0, <2>2, <2>4, <3>1, ReconfigureStep
  <2> QED BY <1>5, <2>3, <2>4 DEF UpdateCommit
<1>6. CASE CreateCommit(h)
  <2>1. s.form \in Forms
    BY <1>0, <1>6, RequestFields DEF CreateCommit, Adding
  <2>2. CASE UNCHANGED devices
    BY <1>6, <2>2, Invisible DEF CreateCommit
  <2>3. ASSUME NEW d \in DevIds, IsNextId(devices, d), AddressFree(d, s.form.addr),
               devices' = Insert(devices, d, NewRow(s.form))
        PROVE  Table!Next
    <3>1. UNCHANGED <<samples, insights>>
      BY <1>6 DEF CreateCommit
    <3> QED BY <1>0, <2>1, <2>3, <3>1, CreateStep
  <2> QED BY <1>6, <2>2, <2>3 DEF CreateCommit
<1>7. CASE DeleteCommit(h)
  <2>1. s.dev \in DevIds
    BY <1>0, <1>7, RequestFields DEF DeleteCommit, Deleting
  <2> QED BY <1>0, <1>7, <2>1, DeleteStep DEF DeleteCommit
<1> QED BY <1>2, <1>3, <1>4, <1>5, <1>6, <1>7 DEF HandlerStep

(* The steps of the workers.                                               *)
LEMMA WorkerStepImplements ==
  ASSUME TypeOK, NEW w \in Workers, WorkerStep(w)
  PROVE  Table!Next \/ UNCHANGED Table!vars
<1> DEFINE s == sess[w]
<1>0. TablesOK /\ s \in {Idle} \cup Task
  BY DEF TypeOK, SessionsOK
<1>1. CASE TaskGet(w)
  BY <1>1, Invisible DEF TaskGet, tables
<1>2. ASSUME NEW r \in Results, TaskAnswer(w, r)
      PROVE  UNCHANGED Table!vars
  BY <1>2, Invisible DEF TaskAnswer, tables
<1>3. CASE TaskCommit(w)
  <2>1. s.dev \in DevIds /\ s.loaded \in Row /\ s.result \in Results
    BY <1>0, <1>3, TaskFields DEF TaskCommit, Recording
  <2>2. CASE s.dev \notin DOMAIN devices
    BY <1>3, <2>2, Invisible DEF TaskCommit
  <2>3. CASE s.dev \in DOMAIN devices
    <3>1. PICK d \in DOMAIN devices : d = s.dev
      BY <2>3
    <3>2. /\ AfterTask(s.loaded, s.result) \in Row
          /\ AfterTask(s.loaded, s.result).addr = s.loaded.addr
          /\ AfterTask(s.loaded, s.result).enabled = s.loaded.enabled
      BY <2>1, AfterTaskType
    <3>3. /\ WriteRow(d, s.loaded, AfterTask(s.loaded, s.result))
          /\ InsertSample(d, s.target, s.result)
          /\ UNCHANGED insights
      BY <1>3, <2>3, <3>1 DEF TaskCommit
    <3> QED BY <1>0, <2>1, <3>2, <3>3, RecordStep
  <2> QED BY <2>2, <2>3
<1> QED BY <1>1, <1>2, <1>3 DEF WorkerStep

(* Every step of the registry.                                             *)
LEMMA StepImplements ==
  ASSUME TypeOK, [Next]_vars
  PROVE  [Table!Next]_(Table!vars)
<1>0. TablesOK
  BY DEF TypeOK
<1>1. ASSUME NEW h \in Handlers, Arrival(h) PROVE UNCHANGED Table!vars
  BY <1>1, Invisible
     DEF Arrival, PollGet, DeleteGet, EditGet, PutGet, CreateCheck, tables
<1>2. CASE CycleStop
  <2>1. CASE CycleEnd
    BY <1>0, <2>1, RecomputeStep DEF CycleEnd, CycleDone
  <2>2. CASE CycleEndLocked
    BY <2>2, Invisible DEF CycleEndLocked, CycleDone
  <2> QED BY <1>2, <2>1, <2>2 DEF CycleStop
<1>3. CASE RecomputeRequest
  BY <1>0, <1>3, RecomputeStep DEF RecomputeRequest
<1>4. ASSUME NEW x \in Sessions, Abort(x) PROVE UNCHANGED Table!vars
  BY <1>4, Invisible DEF Abort, tables
<1>5. CASE CycleStart
  BY <1>5, Invisible DEF CycleStart, tables
<1>6. CASE Restart
  BY <1>6, Invisible DEF Restart, tables
<1>7. CASE UNCHANGED vars
  BY <1>7, Invisible DEF vars
<1> QED
  BY <1>1, <1>2, <1>3, <1>4, <1>5, <1>6, <1>7,
     HandlerStepImplements, WorkerStepImplements DEF Next, Quiescent

(* The sessions, whatever their interleaving, are transactions of the      *)
(* table: a stale copy, a rollback or a restart never shows a half-written *)
(* state.                                                                  *)
THEOREM RegistryImplementsTable == Spec => ImplementsTable
<1>1. Init => Table!Init
  BY DEF Init, Table!Init
<1>2. TypeOK /\ [Next]_vars => [Table!Next]_(Table!vars)
  BY StepImplements
<1> QED BY <1>1, <1>2, TypeCorrect, PTL DEF Spec, ImplementsTable, Table!Spec

-----------------------------------------------------------------------------
(* What follows from the transactions.                                     *)

(* The tables seen through the refinement mapping.                         *)
config  == [d \in DOMAIN devices |-> Configuration(devices[d])]
reading == [d \in DOMAIN devices |-> Telemetry(devices[d])]
owner   == [i \in DOMAIN samples |-> samples[i].device]
about   == [i \in DOMAIN insights |-> insights[i].device]

Distinct(f) == \A d, e \in DOMAIN f : d # e => f[d].addr # f[e].addr

(* The tables are functions; this is all that is needed of the mapping.    *)
Tables ==
  /\ config = [d \in DOMAIN config |-> config[d]]
  /\ owner = [i \in DOMAIN owner |-> owner[i]]
  /\ about = [i \in DOMAIN about |-> about[i]]

LEMMA TablesAreFunctions == Tables
BY DEF Tables, config, owner, about

LEMMA DistinctIsUnique == UniqueAddress <=> Distinct(config)
BY DEF UniqueAddress, Distinct, config, Configuration

(* A transaction keeps addresses apart.                                    *)
LEMMA TableKeepsDistinct ==
  ASSUME Distinct(config), [Table!Next]_(Table!vars)
  PROVE  Distinct(config')
<1> USE DEF Distinct
<1>1. ASSUME NEW d, NEW c, Table!Create(d, c) PROVE Distinct(config')
  <2>1. /\ config' = [e \in DOMAIN config \cup {d} |-> IF e = d THEN c ELSE config[e]]
        /\ \A e \in DOMAIN config \ {d} : config[e].addr # c.addr
    BY <1>1 DEF Table!Create, Table!Extend, Table!Unused, config
  <2> QED BY <2>1
<1>2. ASSUME NEW d, NEW c, Table!Reconfigure(d, c) PROVE Distinct(config')
  <2>1. /\ config' = [config EXCEPT ![d] = c]
        /\ \A e \in DOMAIN config \ {d} : config[e].addr # c.addr
    BY <1>2 DEF Table!Reconfigure, Table!Unused, config
  <2> QED BY <2>1, TablesAreFunctions DEF Tables
<1>3. ASSUME NEW d, NEW r, Table!Record(d, r) PROVE Distinct(config')
  BY <1>3 DEF Table!Record, config
<1>4. ASSUME NEW d, Table!Delete(d) PROVE Distinct(config')
  BY <1>4 DEF Table!Delete, Table!Restrict, config
<1>5. CASE Table!Recompute
  BY <1>5 DEF Table!Recompute, config
<1>6. CASE UNCHANGED Table!vars
  BY <1>6 DEF Table!vars, config
<1> QED BY <1>1, <1>2, <1>3, <1>4, <1>5, <1>6 DEF Table!Next

(* No two devices have one address.                                        *)
THEOREM AddressesStayUnique == Spec => []UniqueAddress
<1>1. Init => UniqueAddress
  BY InitAssumption DEF Init, UniqueAddress
<1>2. TypeOK /\ UniqueAddress /\ [Next]_vars => UniqueAddress'
  <2> SUFFICES ASSUME TypeOK, UniqueAddress, [Next]_vars PROVE UniqueAddress'
    OBVIOUS
  <2>1. Distinct(config')
    BY StepImplements, TableKeepsDistinct, DistinctIsUnique
  <2> QED BY <2>1 DEF UniqueAddress, Distinct, config, Configuration
<1> QED BY <1>1, <1>2, TypeCorrect, PTL DEF Spec

Owned == /\ \A i \in DOMAIN owner : owner[i] \in DOMAIN config
         /\ \A i \in DOMAIN about : about[i] \in DOMAIN config

(* A transaction leaves no sample or insight behind.                       *)
LEMMA TableKeepsOwned ==
  ASSUME Owned, [Table!Next]_(Table!vars)
  PROVE  Owned'
<1> USE DEF Owned
<1>1. ASSUME NEW d, NEW c, Table!Create(d, c) PROVE Owned'
  BY <1>1 DEF Table!Create, Table!Extend, config, owner, about
<1>2. ASSUME NEW d, NEW c, Table!Reconfigure(d, c) PROVE Owned'
  BY <1>2 DEF Table!Reconfigure, config, owner, about
<1>3. ASSUME NEW d, NEW r, Table!Record(d, r) PROVE Owned'
  <2>1. /\ d \in DOMAIN config
        /\ UNCHANGED <<config, about>>
        /\ \/ \E n \in SampleIds : owner' = [i \in DOMAIN owner \cup {n} |->
                                               IF i = n THEN d ELSE owner[i]]
           \/ UNCHANGED owner
    BY <1>3 DEF Table!Record, Table!Extend, config, owner, about
  <2> QED BY <2>1
<1>4. ASSUME NEW d, Table!Delete(d) PROVE Owned'
  <2>1. /\ config' = [e \in DOMAIN config \ {d} |-> config[e]]
        /\ DOMAIN owner' \subseteq {i \in DOMAIN owner : owner[i] # d}
        /\ owner' = [i \in DOMAIN owner' |-> owner[i]]
        /\ DOMAIN about' \subseteq {i \in DOMAIN about : about[i] # d}
        /\ about' = [i \in DOMAIN about' |-> about[i]]
    BY <1>4 DEF Table!Delete, Table!Restrict, config, owner, about
  <2> QED BY <2>1
<1>5. CASE Table!Recompute
  BY <1>5 DEF Table!Recompute, config, owner, about
<1>6. CASE UNCHANGED Table!vars
  BY <1>6 DEF Table!vars, config, owner, about
<1> QED BY <1>1, <1>2, <1>3, <1>4, <1>5, <1>6 DEF Table!Next

(* Samples and insights always belong to a device that exists.             *)
THEOREM RowsNeverDangle == Spec => []NoDanglingRows
<1>1. NoDanglingRows <=> Owned
  BY DEF NoDanglingRows, Owned, owner, about, config
<1>2. Init => Owned
  BY DEF Init, Owned, owner, about
<1>3. TypeOK /\ Owned /\ [Next]_vars => Owned'
  BY StepImplements, TableKeepsOwned
<1> QED BY <1>1, <1>2, <1>3, TypeCorrect, PTL DEF Spec

(* A step never changes both what polling learnt of a device and what the  *)
(* operator configured.                                                    *)
THEOREM ColumnsAreApart == Spec => ColumnsStayApart
<1> DEFINE Apart == \A d \in DOMAIN devices \cap DOMAIN devices' :
                      Telemetry(devices'[d]) # Telemetry(devices[d])
                        => /\ devices'[d].addr = devices[d].addr
                           /\ devices'[d].enabled = devices[d].enabled
<1>1. TypeOK /\ [Next]_vars => Apart
  <2> SUFFICES ASSUME [Table!Next]_(Table!vars),
                      NEW d \in DOMAIN devices \cap DOMAIN devices'
               PROVE  \/ config'[d] = config[d]
                      \/ reading'[d] = reading[d]
    BY StepImplements DEF config, reading, Configuration
  <2>1. ASSUME NEW e, NEW c, Table!Create(e, c) PROVE config'[d] = config[d]
    BY <2>1 DEF Table!Create, Table!Extend, config
  <2>2. ASSUME NEW e, NEW c, Table!Reconfigure(e, c) PROVE reading'[d] = reading[d]
    BY <2>2 DEF Table!Reconfigure, reading
  <2>3. ASSUME NEW e, NEW r, Table!Record(e, r) PROVE config'[d] = config[d]
    BY <2>3 DEF Table!Record, config
  <2>4. ASSUME NEW e, Table!Delete(e) PROVE config'[d] = config[d]
    BY <2>4 DEF Table!Delete, Table!Restrict, config
  <2>5. CASE Table!Recompute
    BY <2>5 DEF Table!Recompute, config
  <2>6. CASE UNCHANGED Table!vars
    BY <2>6 DEF Table!vars, config
  <2> QED BY <2>1, <2>2, <2>3, <2>4, <2>5, <2>6 DEF Table!Next
<1> QED BY <1>1, TypeCorrect, PTL DEF Spec, ColumnsStayApart

-----------------------------------------------------------------------------
(* Status and history.  switch_discover records a status and no sample, so *)
(* what follows is about installations without it.  A delete removes the   *)
(* sample ids it loaded: when two requests delete one device, the second   *)
(* may find ids the first has freed and a sample of another device reuses. *)

IsDeleting(h) == sess[h].pc = "write" /\ sess[h].op = "delete"

(* No two requests are deleting the same device.                           *)
OneDeleteEach ==
  \A h, k \in Handlers :
    IsDeleting(h) /\ IsDeleting(k) /\ sess[h].dev = sess[k].dev => h = k

(* What a delete loaded are still samples of its device.                   *)
DeletesOwnSamples ==
  \A h \in Handlers :
    IsDeleting(h) => sess[h].kids.samples \subseteq Children(samples, sess[h].dev)

OnlyPolls ==
  \A h \in Handlers : sess[h].pc \in {"snmp", "walk"} => sess[h].op = "poll"

HistoryInv == StatusIsNewestSample /\ DeletesOwnSamples /\ OnlyPolls

(* A recorded poll: the status is that of the sample it inserts, which is  *)
(* the newest of its device, and the samples of the others stay.           *)
LEMMA PollKeepsHistory ==
  ASSUME TablesOK, StatusIsNewestSample,
         NEW d \in DOMAIN devices, NEW loaded \in Row, NEW new \in Row,
         NEW r \in Results, NEW addr,
         new.status = IF r.reachable THEN "online" ELSE "offline",
         WriteRow(d, loaded, new), InsertSample(d, addr, r)
  PROVE  /\ StatusIsNewestSample'
         /\ \A e : Children(samples, e) \subseteq Children(samples', e)
<1> DEFINE row  == Flush(loaded, new, devices[d])
           item == [device |-> d, addr |-> addr, reachable |-> r.reachable,
                    load |-> r.load]
<1>1. PICK n \in SampleIds :
        IsNextId(samples, n) /\ samples' = Insert(samples, n, item)
  BY DEF InsertSample
<1>2. /\ n \notin DOMAIN samples /\ n \in Nat
      /\ \A i \in DOMAIN samples : i \in Nat /\ i < n
  BY <1>1, IdsAssumption DEF IsNextId, TablesOK
<1>3. /\ DOMAIN samples' = DOMAIN samples \cup {n}
      /\ samples'[n] = item
      /\ \A i \in DOMAIN samples : samples'[i] = samples[i]
  BY <1>1, <1>2 DEF Insert
<1>4. item.device = d /\ item.reachable = r.reachable
  OBVIOUS
<1> HIDE DEF item
<1>5. \A e : Children(samples, e) \subseteq Children(samples', e)
  BY <1>3 DEF Children
<1>6. \A e : e # d => Children(samples', e) = Children(samples, e)
  BY <1>3, <1>4 DEF Children
<1>7. /\ devices' = [devices EXCEPT ![d] = row]
      /\ IF Telemetry(loaded) = Telemetry(devices[d])
           THEN stale' = stale \ {d} ELSE stale' = stale \cup {d}
  BY DEF WriteRow
<1>8. Telemetry(loaded) = Telemetry(devices[d]) => row.status = new.status
  BY DEF Flush, Kept, Telemetry
<1> HIDE DEF row
<1>9. ASSUME NEW e \in DOMAIN devices' \ stale', NEW i \in DOMAIN samples',
             IsNewest(i, e)'
      PROVE  samples'[i].reachable <=> devices'[e].status = "online"
  <2>1. i \in Children(samples', e) /\ \A j \in Children(samples', e) : j <= i
    BY <1>9 DEF IsNewest
  <2>2. CASE e = d
    <3>1. n \in Children(samples', d)
      BY <1>3, <1>4 DEF Children
    <3>2. i = n
      BY <1>2, <1>3, <2>1, <2>2, <3>1
    <3>3. devices'[d].status = new.status
      BY <1>7, <1>8, <1>9, <2>2 DEF TablesOK
    <3>4. r.reachable \in BOOLEAN
      BY ResultFields
    <3> QED BY <1>3, <1>4, <2>2, <3>2, <3>3, <3>4
  <2>3. CASE e # d
    <3>1. IsNewest(i, e) /\ i \in DOMAIN samples
      BY <1>6, <2>1, <2>3 DEF IsNewest, Children
    <3>2. devices'[e] = devices[e] /\ e \in DOMAIN devices \ stale
      BY <1>7, <1>9, <2>3 DEF TablesOK
    <3> QED BY <1>3, <3>1, <3>2 DEF StatusIsNewestSample
  <2> QED BY <2>2, <2>3
<1> QED BY <1>5, <1>9 DEF StatusIsNewestSample

(* A step that leaves the statuses and the samples alone.                  *)
LEMMA SameHistory ==
  ASSUME StatusIsNewestSample, UNCHANGED <<samples, stale>>,
         DOMAIN devices' \subseteq DOMAIN devices,
         \A d \in DOMAIN devices' : devices'[d].status = devices[d].status
  PROVE  StatusIsNewestSample'
BY DEF StatusIsNewestSample, IsNewest

(* A handler that leaves its session no longer deletes and no longer polls.*)
LEMMA LeaveKeepsSessions ==
  ASSUME SessionsOK, DeletesOwnSamples, OnlyPolls, NEW h \in Handlers, Leave(h),
         \A e : Children(samples, e) \subseteq Children(samples', e)
  PROVE  DeletesOwnSamples' /\ OnlyPolls'
<1>1. \A k \in Handlers : sess'[k] = IF k = h THEN Idle ELSE sess[k]
  BY DEF Leave, Enter, SessionsOK, Sessions
<1>2. Idle.pc = "idle"
  BY DEF Idle
<1> QED BY <1>1, <1>2 DEF DeletesOwnSamples, OnlyPolls, IsDeleting

(* A request arrives: a delete holds the samples its device has.           *)
LEMMA ArrivalHistory ==
  ASSUME TypeOK, "discover" \notin Ops, HistoryInv, NEW h \in Handlers, Arrival(h)
  PROVE  HistoryInv'
<1>0. SessionsOK /\ StatusIsNewestSample /\ DeletesOwnSamples /\ OnlyPolls
  BY DEF TypeOK, HistoryInv
<1>1. UNCHANGED <<devices, samples, stale>>
  BY DEF Arrival, PollGet, DeleteGet, EditGet, PutGet, CreateCheck, tables
<1>2. StatusIsNewestSample'
  BY <1>0, <1>1, SameHistory
<1>3. ASSUME NEW s, Enter(h, s),
             s.pc = "write" /\ s.op = "delete"
               => s.kids.samples \subseteq Children(samples, s.dev),
             s.pc \in {"snmp", "walk"} => s.op = "poll"
      PROVE  DeletesOwnSamples' /\ OnlyPolls'
  <2>1. \A k \in Handlers : sess'[k] = IF k = h THEN s ELSE sess[k]
    BY <1>0, <1>3 DEF Enter, SessionsOK, Sessions
  <2>2. \A e : Children(samples', e) = Children(samples, e)
    BY <1>1 DEF Children
  <2> QED BY <1>0, <1>3, <2>1, <2>2 DEF DeletesOwnSamples, OnlyPolls, IsDeleting
<1>4. ASSUME NEW d \in DevIds, NEW op \in {"poll", "discover"}, PollGet(h, op, d)
      PROVE  DeletesOwnSamples' /\ OnlyPolls'
  <2> DEFINE s == [pc |-> "snmp", op |-> op, dev |-> d, loaded |-> devices[d]]
  <2>1. op = "poll"
    BY <1>4 DEF PollGet, Event
  <2>2. Enter(h, s) /\ s.pc = "snmp" /\ s.op = "poll"
    BY <1>4, <2>1 DEF PollGet
  <2> HIDE DEF s
  <2> QED BY <1>3, <2>2
<1>5. ASSUME NEW d \in DevIds, DeleteGet(h, d)
      PROVE  DeletesOwnSamples' /\ OnlyPolls'
  <2> DEFINE s == [pc |-> "write", op |-> "delete", dev |-> d,
                   kids |-> [samples  |-> Children(samples, d),
                             insights |-> Children(insights, d)]]
  <2>1. Enter(h, s) /\ s.pc = "write" /\ s.dev = d
        /\ s.kids.samples = Children(samples, d)
    BY <1>5 DEF DeleteGet
  <2> HIDE DEF s
  <2> QED BY <1>3, <2>1
<1>6. ASSUME NEW s, Enter(h, s), s.pc \in {"check", "write"}, s.op # "delete"
      PROVE  DeletesOwnSamples' /\ OnlyPolls'
  BY <1>3, <1>6
<1>7. ASSUME NEW d \in DevIds, NEW form \in Forms,
             EditGet(h, d, form) \/ PutGet(h, d, form)
      PROVE  DeletesOwnSamples' /\ OnlyPolls'
  BY <1>6, <1>7 DEF EditGet, PutGet
<1>8. ASSUME NEW form \in Forms, CreateCheck(h, form)
      PROVE  DeletesOwnSamples' /\ OnlyPolls'
  BY <1>6, <1>8 DEF CreateCheck
<1> QED BY <1>2, <1>4, <1>5, <1>7, <1>8 DEF Arrival, HistoryInv

(* A request goes on.  The commit of a delete takes away what it loaded,   *)
(* which only it was deleting, and what its device got since.              *)
LEMMA HandlerStepHistory ==
  ASSUME TypeOK, NoDanglingRows, OneDeleteEach, HistoryInv,
         NEW h \in Handlers, HandlerStep(h)
  PROVE  HistoryInv'
<1> DEFINE s == sess[h]
<1>0. /\ TablesOK /\ SessionsOK /\ s \in {Idle} \cup Request
      /\ StatusIsNewestSample /\ DeletesOwnSamples /\ OnlyPolls
  BY DEF TypeOK, SessionsOK, HistoryInv
<1>a. UNCHANGED samples => \A e : Children(samples, e) \subseteq Children(samples', e)
  BY DEF Children
<1>1. ASSUME NEW r \in Results, CommitPoll(h, r), s \in Polling \cup Walking
      PROVE  HistoryInv'
  <2>1. s.loaded \in Row /\ s.op = "poll" /\ Leave(h)
    BY <1>0, <1>1 DEF Polling, Walking, OnlyPolls, CommitPoll
  <2>2. CASE s.dev \in DOMAIN devices
    <3>1. /\ WriteRow(s.dev, s.loaded, AfterPoll(s.loaded, r))
          /\ InsertSample(s.dev, s.loaded.addr, r)
      BY <1>1, <2>1, <2>2 DEF CommitPoll
    <3>2. AfterPoll(s.loaded, r).status
            = IF r.reachable THEN "online" ELSE "offline"
      BY <2>1 DEF AfterPoll, Row
    <3>3. AfterPoll(s.loaded, r) \in Row
      BY <2>1, AfterPollType
    <3>4. /\ StatusIsNewestSample'
          /\ \A e : Children(samples, e) \subseteq Children(samples', e)
      BY <1>0, <2>1, <2>2, <3>1, <3>2, <3>3, PollKeepsHistory
    <3> QED BY <1>0, <2>1, <3>4, LeaveKeepsSessions DEF HistoryInv
  <2>3. CASE s.dev \notin DOMAIN devices
    <3>1. UNCHANGED <<devices, samples, stale>>
      BY <1>1, <2>3 DEF CommitPoll
    <3> QED BY <1>0, <1>a, <2>1, <3>1, SameHistory, LeaveKeepsSessions DEF HistoryInv
  <2> QED BY <2>2, <2>3
<1>2. ASSUME NEW t, Enter(h, t), UNCHANGED <<devices, samples, stale>>,
             t.pc \in {"snmp", "walk"} => t.op = "poll",
             ~(t.pc = "write" /\ t.op = "delete")
      PROVE  HistoryInv'
  <2>1. \A k \in Handlers : sess'[k] = IF k = h THEN t ELSE sess[k]
    BY <1>0, <1>2 DEF Enter, SessionsOK, Sessions
  <2>2. DeletesOwnSamples' /\ OnlyPolls'
    BY <1>0, <1>a, <1>2, <2>1 DEF DeletesOwnSamples, OnlyPolls, IsDeleting
  <2> QED BY <1>0, <1>2, <2>2, SameHistory DEF HistoryInv
<1>3. ASSUME NEW r \in Results, PollAnswer(h, r) PROVE HistoryInv'
  <2>1. s \in Polling /\ s.op = "poll"
    BY <1>0, <1>3, RequestFields DEF PollAnswer, OnlyPolls
  <2>2. CASE Walks(s, r)
    BY <1>2, <1>3, <2>1, <2>2 DEF PollAnswer, tables
  <2> QED BY <1>1, <1>3, <2>1, <2>2 DEF PollAnswer
<1>4. CASE PollWalked(h)
  <2>1. s \in Walking /\ s.result \in Results
    BY <1>0, <1>4, RequestFields DEF PollWalked, Walking
  <2> QED BY <1>1, <1>4, <2>1 DEF PollWalked
<1>5. CASE EditCheck(h)
  <2>1. s \in Checking
    BY <1>0, <1>5, RequestFields DEF EditCheck
  <2>2. AfterCheck(s).pc \in {"idle", "write"}
        /\ (AfterCheck(s).pc = "write" => AfterCheck(s).op = "edit")
    BY <2>1 DEF AfterCheck, Checking, Idle
  <2>3. Enter(h, AfterCheck(s)) /\ UNCHANGED <<devices, samples, stale>>
    BY <1>5 DEF EditCheck, tables
  <2> QED BY <1>2, <2>2, <2>3
<1>6. CASE UpdateCommit(h)
  <2> DEFINE new == AfterEdit(s.loaded, s.op, s.form)
             row == Flush(s.loaded, new, devices[s.dev])
  <2>1. s.loaded \in Row /\ s.form \in Forms
    BY <1>0, <1>6, RequestFields DEF UpdateCommit, Updating
  <2>2. Telemetry(new) = Telemetry(s.loaded)
    BY <2>1, AfterEditType
  <2>3. row.status = devices[s.dev].status
    BY <2>2 DEF Flush, Kept, Telemetry
  <2>4. /\ UNCHANGED <<samples, stale>> /\ Leave(h)
        /\ \/ UNCHANGED devices
           \/ /\ s.dev \in DOMAIN devices
              /\ devices' = [devices EXCEPT ![s.dev] = row]
    BY <1>6 DEF UpdateCommit
  <2> HIDE DEF row
  <2>5. /\ DOMAIN devices' = DOMAIN devices
        /\ \A d \in DOMAIN devices' : devices'[d].status = devices[d].status
    BY <1>0, <2>3, <2>4 DEF TablesOK
  <2> QED BY <1>0, <1>a, <2>4, <2>5, SameHistory, LeaveKeepsSessions DEF HistoryInv
<1>7. CASE CreateCommit(h)
  <2>1. UNCHANGED <<samples, stale>> /\ Leave(h)
    BY <1>7 DEF CreateCommit
  <2>2. CASE UNCHANGED devices
    BY <1>0, <1>a, <2>1, <2>2, SameHistory, LeaveKeepsSessions DEF HistoryInv
  <2>3. ASSUME NEW d \in DevIds, devices' = Insert(devices, d, NewRow(s.form)),
               IsNextId(devices, d)
        PROVE  HistoryInv'
    <3>1. d \notin DOMAIN devices
      BY <1>0, <2>3, IdsAssumption DEF IsNextId, TablesOK
    <3>2. \A i \in DOMAIN samples : samples[i].device # d
      BY <3>1 DEF NoDanglingRows
    <3>3. StatusIsNewestSample'
      BY <1>0, <2>1, <2>3, <3>1, <3>2
         DEF StatusIsNewestSample, IsNewest, Children, Insert
    <3> QED BY <1>0, <1>a, <2>1, <3>3, LeaveKeepsSessions DEF HistoryInv
  <2> QED BY <1>7, <2>2, <2>3 DEF CreateCommit
<1>8. CASE DeleteCommit(h)
  <2> DEFINE gone == s.kids.samples \cup Cascade(samples, s.dev)
  <2>1. /\ devices' = Without(devices, {s.dev})
        /\ samples' = Without(samples, gone)
        /\ stale' = stale \ {s.dev} /\ Leave(h) /\ IsDeleting(h)
    BY <1>8 DEF DeleteCommit, IsDeleting
  <2>2. gone = Children(samples, s.dev)
    BY <1>0, <2>1 DEF DeletesOwnSamples, Cascade
  <2> HIDE DEF gone
  <2>3. /\ DOMAIN samples' = DOMAIN samples \ gone
        /\ \A i \in DOMAIN samples' : samples'[i] = samples[i]
    BY <2>1 DEF Without, Restrict
  <2>4. /\ DOMAIN devices' = DOMAIN devices \ {s.dev}
        /\ \A d \in DOMAIN devices' : devices'[d] = devices[d]
    BY <2>1 DEF Without, Restrict
  <2>5. \A d : d # s.dev => Children(samples', d) = Children(samples, d)
    BY <2>2, <2>3 DEF Children
  <2>6. StatusIsNewestSample'
    <3>1. ASSUME NEW d \in DOMAIN devices' \ stale', NEW i \in DOMAIN samples',
                 IsNewest(i, d)'
          PROVE  samples'[i].reachable <=> devices'[d].status = "online"
      <4>1. d # s.dev /\ d \in DOMAIN devices \ stale
        BY <2>1, <2>4, <3>1
      <4>2. IsNewest(i, d) /\ i \in DOMAIN samples
        BY <2>3, <2>5, <3>1, <4>1 DEF IsNewest
      <4> QED BY <1>0, <2>3, <2>4, <3>1, <4>1, <4>2 DEF StatusIsNewestSample
    <3> QED BY <3>1 DEF StatusIsNewestSample
  <2>7. \A k \in Handlers : sess'[k] = IF k = h THEN Idle ELSE sess[k]
    BY <1>0, <2>1 DEF Leave, Enter, SessionsOK, Sessions
  <2>8. \A k \in Handlers : IsDeleting(k)' =>
          k # h /\ IsDeleting(k) /\ sess'[k] = sess[k] /\ sess[k].dev # s.dev
    BY <2>1, <2>7 DEF IsDeleting, Idle, OneDeleteEach
  <2>9. DeletesOwnSamples'
    BY <1>0, <2>5, <2>8 DEF DeletesOwnSamples
  <2>10. OnlyPolls'
    BY <1>0, <2>7 DEF OnlyPolls, Idle
  <2> QED BY <2>6, <2>9, <2>10 DEF HistoryInv
<1> QED BY <1>3, <1>4, <1>5, <1>6, <1>7, <1>8 DEF HandlerStep

(* A poll task goes on; no handler moves.                                  *)
LEMMA WorkerStepHistory ==
  ASSUME TypeOK, HistoryInv, NEW w \in Workers, WorkerStep(w)
  PROVE  HistoryInv'
<1> DEFINE s == sess[w]
<1>0. /\ TablesOK /\ SessionsOK /\ s \in {Idle} \cup Task
      /\ StatusIsNewestSample /\ DeletesOwnSamples /\ OnlyPolls
  BY DEF TypeOK, SessionsOK, HistoryInv
<1>1. \A h \in Handlers : sess'[h] = sess[h]
  <2>1. UNCHANGED sess \/ \E t : Enter(w, t)
    BY DEF WorkerStep, TaskGet, TaskAnswer, TaskCommit, Leave
  <2> QED BY <1>0, <2>1, SessionsAssumption DEF Enter, SessionsOK, Sessions
<1>2. ASSUME StatusIsNewestSample',
             \A e : Children(samples, e) \subseteq Children(samples', e)
      PROVE  HistoryInv'
  BY <1>0, <1>1, <1>2 DEF HistoryInv, DeletesOwnSamples, OnlyPolls, IsDeleting
<1>3. ASSUME UNCHANGED <<devices, samples, stale>> PROVE HistoryInv'
  BY <1>0, <1>2, <1>3, SameHistory DEF Children
<1>4. CASE TaskCommit(w)
  <2>1. s.loaded \in Row /\ s.result \in Results
    BY <1>0, <1>4, TaskFields DEF TaskCommit, Recording
  <2>2. CASE s.dev \in DOMAIN devices
    <3>1. /\ WriteRow(s.dev, s.loaded, AfterTask(s.loaded, s.result))
          /\ InsertSample(s.dev, s.target, s.result)
      BY <1>4, <2>2 DEF TaskCommit
    <3>2. AfterTask(s.loaded, s.result).status
            = IF s.result.reachable THEN "online" ELSE "offline"
      BY <2>1 DEF AfterTask, AfterPoll, Row
    <3> QED BY <1>0, <1>2, <2>1, <2>2, <3>1, <3>2, AfterTaskType, PollKeepsHistory
  <2>3. CASE s.dev \notin DOMAIN devices
    BY <1>3, <1>4, <2>3 DEF TaskCommit
  <2> QED BY <2>2, <2>3
<1>5. CASE TaskGet(w)
  BY <1>3, <1>5 DEF TaskGet, tables
<1>6. ASSUME NEW r \in Results, TaskAnswer(w, r) PROVE HistoryInv'
  BY <1>3, <1>6 DEF TaskAnswer, tables
<1> QED BY <1>4, <1>5, <1>6 DEF WorkerStep

(* Where no switch is discovered and no device is deleted by two requests  *)
(* at once, a device is online exactly when its newest sample was          *)
(* reachable, except after overlapping polls.                              *)
THEOREM StatusFollowsHistory ==
  ASSUME "discover" \notin Ops
  PROVE  Spec /\ []OneDeleteEach => []StatusIsNewestSample
<1>1. Init => HistoryInv
  BY DEF Init, HistoryInv, StatusIsNewestSample, DeletesOwnSamples, OnlyPolls,
         IsDeleting, Idle, Sessions
<1>2. TypeOK /\ NoDanglingRows /\ OneDeleteEach /\ HistoryInv /\ [Next]_vars
        => HistoryInv'
  <2> SUFFICES ASSUME TypeOK, NoDanglingRows, OneDeleteEach, HistoryInv, [Next]_vars
               PROVE  HistoryInv'
    OBVIOUS
  <2>1. ASSUME UNCHANGED <<devices, samples, stale>>,
               \A h \in Handlers : sess'[h] \in {sess[h], Idle}
        PROVE  HistoryInv'
    <3>1. \A h \in Handlers : sess'[h].pc # "idle" => sess'[h] = sess[h]
      BY <2>1 DEF Idle
    <3>2. DeletesOwnSamples' /\ OnlyPolls'
      BY <2>1, <3>1 DEF HistoryInv, DeletesOwnSamples, OnlyPolls, IsDeleting, Children
    <3> QED BY <2>1, <3>2, SameHistory DEF HistoryInv
  <2>2. ASSUME NEW x \in Sessions, Abort(x) PROVE HistoryInv'
    BY <2>1, <2>2 DEF Abort, Leave, Enter, tables, TypeOK, SessionsOK, Sessions
  <2>3. CASE CycleStart \/ CycleStop \/ RecomputeRequest \/ UNCHANGED vars
    BY <2>1, <2>3
       DEF CycleStart, CycleStop, CycleEnd, CycleEndLocked, CycleDone,
           RecomputeRequest, tables, vars
  <2>4. CASE Restart
    BY <2>1, <2>4 DEF Restart, tables, Sessions
  <2> QED BY <2>2, <2>3, <2>4, ArrivalHistory, HandlerStepHistory, WorkerStepHistory
          DEF Next, Quiescent
<1>3. HistoryInv => StatusIsNewestSample
  BY DEF HistoryInv
<1> QED BY <1>1, <1>2, <1>3, TypeCorrect, RowsNeverDangle, PTL DEF Spec
=============================================================================
