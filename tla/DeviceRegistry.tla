--------------------------- MODULE DeviceRegistry ---------------------------
(***************************************************************************)
(* The device inventory of aruba-mock: the SQLite tables devices, samples  *)
(* and insights, and the sessions that read and write them concurrently.   *)
(*                                                                         *)
(*   - a handler slot is a web request in flight.  It loads a device row   *)
(*     (get_session opens one SQLAlchemy session for the request), may     *)
(*     wait for SNMP, and commits when the request ends;                   *)
(*   - a worker is one of the slots of the semaphore in poll_all_once.  It *)
(*     runs _poll_one for one device of the cycle.                         *)
(*                                                                         *)
(* SQLite has one writer at a time: the first INSERT, UPDATE or DELETE of  *)
(* a transaction takes the write lock and the commit releases it, while a  *)
(* SELECT outside of it reads what was last committed.  A flush and its    *)
(* commit are therefore one step here, and the SELECTs before it are steps *)
(* of their own.                                                           *)
(***************************************************************************)
EXTENDS Tables, FiniteSets

CONSTANTS
  DevIds,         (* Row ids of devices; bounds the ids a run can reach.   *)
  SampleIds,      (* Row ids of samples; large enough never to bind.       *)
  Addrs,          (* IP addresses.                                         *)
  Forms,          (* Contents of create, edit and PUT requests.            *)
  Results,        (* What poll_device can return (an SnmpResult).          *)
  InitDevices,    (* The devices table at start-up.                        *)
  Handlers,       (* Web requests that can be in flight at once.           *)
  Workers,        (* Slots of the poll cycle's semaphore; 8 in the code.   *)
  Ops,            (* The outside events a run exercises.                   *)
  ExpireOnCommit, (* sessionmaker's expire_on_commit; TRUE in db.py.       *)
  MaxEvents,      (* Bound on outside events.                              *)
  MaxCycles,      (* Bound on poll cycles.                                 *)
  None            (* SQL NULL, Python None.                                *)

Types    == {"ap", "switch", "gateway", "controller", "other"}
Statuses == {"unknown", "online", "offline"}
AllOps   == {"poll", "discover", "edit", "put", "create", "delete",
             "recompute", "restart"}

(* A sysDescr is told apart by the word families the classifier looks for. *)
Families == {"controller", "ap", "switch", "gateway"}
Descrs   == SUBSET Families
Errors   == {"timeout", "transport", "version"}
Loads    == {"normal", "high"}

Form      == [addr : Addrs, type : Types, enabled : BOOLEAN]
Reply     == [reachable : {TRUE}, descr : Descrs, error : {None}, load : Loads]
Silence   == [reachable : {FALSE}, descr : {{}}, error : Errors,
              load : {"normal"}]
Row       == [addr : Addrs, type : Types, enabled : BOOLEAN,
              status : Statuses, error : Errors \cup {None},
              firmware : Descrs \cup {None}]
SampleRow  == [device : DevIds, addr : Addrs, reachable : BOOLEAN, load : Loads]
InsightRow == [device : DevIds, code : {"device.offline", "resource.high"}]

ASSUME IdsAssumption == DevIds \subseteq Nat /\ SampleIds \subseteq Nat

ASSUME InputsAssumption ==
  /\ Forms \subseteq Form
  /\ Results \subseteq Reply \cup Silence
  /\ Ops \subseteq AllOps
  /\ ExpireOnCommit \in BOOLEAN
  /\ MaxEvents \in Nat /\ MaxCycles \in Nat

ASSUME SessionsAssumption == Handlers \cap Workers = {}

ASSUME NoneAssumption == (\A t \in Descrs : t # None) /\ None \notin Errors

(* What a consistent installation starts from: rows whose addresses differ *)
(* (the column is UNIQUE) and that were created or polled to the end.      *)
ASSUME InitAssumption ==
  /\ DOMAIN InitDevices \subseteq DevIds
  /\ InitDevices \in [DOMAIN InitDevices -> Row]
  /\ \A d, e \in DOMAIN InitDevices :
       d # e => InitDevices[d].addr # InitDevices[e].addr
  /\ \A d \in DOMAIN InitDevices :
       (InitDevices[d].status = "offline") <=> (InitDevices[d].error # None)

VARIABLES
  devices,   (* Table devices: row id -> row.                              *)
  samples,   (* Table samples: row id -> row.                              *)
  insights,  (* Table insights: row id -> row.                             *)
  sess,      (* What each handler slot and each worker is in the middle of.*)
  pending,   (* Devices of the current cycle still waiting for a slot.     *)
  cycle,     (* Whether poll_all_once is running.                          *)
  cycles,    (* Cycles started so far.                                     *)
  events,    (* Outside events so far.                                     *)
  stale      (* History: devices whose last recorded poll was written from *)
             (* a copy that another poll had changed in the meantime.      *)

vars == <<devices, samples, insights, sess, pending, cycle, cycles, events,
          stale>>

tables == <<devices, samples, insights, stale>>
poller == <<pending, cycle, cycles>>

-----------------------------------------------------------------------------
(* Tables.                                                                 *)

(* What the duplicate checks query.                                        *)
Holders(addr) == {e \in DOMAIN devices : devices[e].addr = addr}

(* The UNIQUE constraint on devices.ip_address, checked when row d, of a   *)
(* device or of one to come, is written (and a mutant without it).         *)
NoConstraint(d, addr) == TRUE
AddressFree(d, addr) == Holders(addr) \subseteq {d}

(* The UPDATE statement of the unit of work, column by column.             *)
Flush(loaded, new, row) ==
  [addr     |-> Kept(loaded.addr, new.addr, row.addr),
   type     |-> Kept(loaded.type, new.type, row.type),
   enabled  |-> Kept(loaded.enabled, new.enabled, row.enabled),
   status   |-> Kept(loaded.status, new.status, row.status),
   error    |-> Kept(loaded.error, new.error, row.error),
   firmware |-> Kept(loaded.firmware, new.firmware, row.firmware)]

Children(table, d) == {i \in DOMAIN table : table[i].device = d}

(* What ON DELETE CASCADE removes with device d, foreign_keys being ON.    *)
NoCascade(table, d) == {}  \* mutant: the pragma is not set
Cascade(table, d) == Children(table, d)

(* _latest_sample orders by timestamp.  Both writers stamp a sample in the *)
(* step that inserts it, so the newest one has the largest id.             *)
IsNewest(i, d) ==
  /\ i \in Children(samples, d)
  /\ \A j \in Children(samples, d) : j <= i

-----------------------------------------------------------------------------
(* What a session holds between two of its steps.                          *)

Idle == [pc |-> "idle"]

Captured == [samples : SUBSET SampleIds, insights : SUBSET Nat]

Polling  == [pc : {"snmp"}, op : {"poll", "discover"}, dev : DevIds,
             loaded : Row]
Walking  == [pc : {"walk"}, op : {"poll", "discover"}, dev : DevIds,
             loaded : Row, result : Results]
Checking == [pc : {"check"}, op : {"edit"}, dev : DevIds, loaded : Row,
             form : Forms]
Updating == [pc : {"write"}, op : {"edit", "put"}, dev : DevIds,
             loaded : Row, form : Forms]
Adding   == [pc : {"write"}, op : {"create"}, form : Forms]
Deleting == [pc : {"write"}, op : {"delete"}, dev : DevIds, kids : Captured]
Request  == Polling \cup Walking \cup Checking \cup Updating \cup Adding
              \cup Deleting

Contacting == [pc : {"snmp"}, dev : DevIds, target : Addrs]
Recording  == [pc : {"write"}, dev : DevIds, target : Addrs, loaded : Row,
               result : Results]
Task       == Contacting \cup Recording

Sessions == Handlers \cup Workers

Busy(x) == sess[x].pc # "idle"

Enter(x, s) == sess' = [sess EXCEPT ![x] = s]
Leave(x)    == Enter(x, Idle)

(* A worker's second session runs from its read to its commit without      *)
(* giving up the event loop, so nothing else that runs on the loop comes   *)
(* in between.  Handlers declared with plain def, and every commit of a    *)
(* request, run in threads and do.                                         *)
LoopFree == \A w \in Workers : sess[w].pc # "write"

(* An outside event: a request arrives or the process is restarted.        *)
Event(op) ==
  /\ op \in Ops
  /\ events < MaxEvents
  /\ events' = events + 1

-----------------------------------------------------------------------------
(* Recording a poll.                                                       *)

(* _classify_device_type: the first family in this order wins.             *)
Classify(words) ==
  CASE "controller" \in words -> "controller"
    [] "controller" \notin words /\ "ap" \in words -> "ap"
    [] words \cap {"controller", "ap"} = {} /\ "switch" \in words -> "switch"
    [] words \cap {"controller", "ap", "switch"} = {} /\ "gateway" \in words
         -> "gateway"
    [] words = {} -> "other"

KeepsError(row, r) ==  \* mutant: success does not clear last_error
  [row EXCEPT !.status = IF r.reachable THEN "online" ELSE "offline",
              !.error  = IF r.reachable THEN row.error ELSE r.error]

NeverOffline(row, r) ==  \* mutant: silence does not change the status
  [row EXCEPT !.status = IF r.reachable THEN "online" ELSE row.status,
              !.error  = r.error]

(* The attributes device_poll and switch_discover set on the loaded object.*)
AfterPoll(row, r) ==
  [row EXCEPT
     !.status   = IF r.reachable THEN "online" ELSE "offline",
     !.error    = r.error,
     !.firmware = IF r.reachable /\ row.firmware = None THEN r.descr
                                                        ELSE row.firmware]

(* _poll_one also infers the type of a device nobody classified.           *)
AfterTask(row, r) ==
  [AfterPoll(row, r) EXCEPT
     !.type = IF r.reachable /\ row.type = "other" THEN Classify(r.descr)
                                                   ELSE row.type]

Telemetry(row) == <<row.status, row.error, row.firmware>>

(* The UPDATE of device d.                                                 *)
WriteRow(d, loaded, new) ==
  /\ devices' = [devices EXCEPT ![d] = Flush(loaded, new, devices[d])]
  /\ stale' = IF Telemetry(loaded) = Telemetry(devices[d])
                THEN stale \ {d} ELSE stale \cup {d}

InsertSample(d, addr, r) ==
  \E n \in SampleIds :
    /\ IsNextId(samples, n)
    /\ samples' = Insert(samples, n, [device |-> d, addr |-> addr,
                                      reachable |-> r.reachable,
                                      load |-> r.load])

(* A device row that is gone fails the UPDATE (no row matched) or the      *)
(* INSERT of the sample (foreign key): the transaction is rolled back.     *)
CommitPoll(h, r) ==
  LET s == sess[h]
  IN /\ IF s.dev \in DOMAIN devices
          THEN /\ WriteRow(s.dev, s.loaded, AfterPoll(s.loaded, r))
               /\ IF s.op = "poll" THEN InsertSample(s.dev, s.loaded.addr, r)
                                   ELSE UNCHANGED samples
          ELSE UNCHANGED <<devices, samples, stale>>
     /\ Leave(h)
     /\ UNCHANGED <<insights, events, poller>>

-----------------------------------------------------------------------------
(* Insights.                                                               *)

Flagged ==
  {d \in DOMAIN devices :
     \/ devices[d].status = "offline"
     \/ /\ devices[d].status = "online"
        /\ \E i \in DOMAIN samples : IsNewest(i, d) /\ samples[i].load = "high"}

Finding(d) ==
  IF devices[d].status = "offline" THEN "device.offline" ELSE "resource.high"

(* recompute_insights deletes every row first, which takes the write lock, *)
(* so what it then reads is what it replaces the table from; the ids start *)
(* again at 1, in the order of the device ids.                             *)
ReplaceInsights ==
  \E order \in [1 .. Cardinality(Flagged) -> Flagged] :
    /\ \A i, j \in DOMAIN order : i < j => order[i] < order[j]
    /\ insights' = [i \in DOMAIN order |->
                      [device |-> order[i], code |-> Finding(order[i])]]

-----------------------------------------------------------------------------
(* Web requests that poll: device_poll and switch_discover.                *)

PollGet(h, op, d) ==
  /\ Event(op)
  /\ ~Busy(h)
  /\ LoopFree
  /\ d \in DOMAIN devices
  /\ op = "discover" => devices[d].type = "switch"
  /\ Enter(h, [pc |-> "snmp", op |-> op, dev |-> d, loaded |-> devices[d]])
  /\ UNCHANGED <<tables, poller>>

(* A reachable switch is walked for its ports before anything is written.  *)
Walks(s, r) == r.reachable /\ (s.op = "discover" \/ s.loaded.type = "switch")

PollAnswer(h, r) ==
  LET s == sess[h]
  IN /\ s.pc = "snmp"
     /\ IF Walks(s, r)
          THEN /\ Enter(h, [pc |-> "walk", op |-> s.op, dev |-> s.dev,
                            loaded |-> s.loaded, result |-> r])
               /\ UNCHANGED <<tables, events, poller>>
          ELSE CommitPoll(h, r)

PollWalked(h) ==
  /\ sess[h].pc = "walk"
  /\ CommitPoll(h, sess[h].result)

-----------------------------------------------------------------------------
(* Web requests that edit.                                                 *)

EditGet(h, d, form) ==
  /\ Event("edit")
  /\ ~Busy(h)
  /\ d \in DOMAIN devices
  /\ Enter(h, [pc |-> "check", op |-> "edit", dev |-> d,
               loaded |-> devices[d], form |-> form])
  /\ UNCHANGED <<tables, poller>>

DuplicateWaits(s) ==  \* mutant: a duplicate does not end the request
  IF Holders(s.form.addr) \subseteq {s.dev} THEN [s EXCEPT !.pc = "write"]
                                            ELSE s

(* devices_edit looks for another device with the address, then writes;    *)
(* only the constraint covers the time between the two.                    *)
AfterCheck(s) ==
  IF Holders(s.form.addr) \subseteq {s.dev} THEN [s EXCEPT !.pc = "write"]
                                            ELSE Idle

EditCheck(h) ==
  /\ sess[h].pc = "check"
  /\ Enter(h, AfterCheck(sess[h]))
  /\ UNCHANGED <<tables, events, poller>>

(* The JSON update has no such check.                                      *)
PutGet(h, d, form) ==
  /\ Event("put")
  /\ ~Busy(h)
  /\ d \in DOMAIN devices
  /\ Enter(h, [pc |-> "write", op |-> "put", dev |-> d,
               loaded |-> devices[d], form |-> form])
  /\ UNCHANGED <<tables, poller>>

(* The HTML form has no field for enabled; the JSON update sets it.        *)
ResetsStatus(row, op, form) ==  \* mutant: a new address is unknown again
  [row EXCEPT !.addr = form.addr, !.type = form.type,
              !.enabled = IF op = "put" THEN form.enabled ELSE row.enabled,
              !.status = IF form.addr = row.addr THEN row.status ELSE "unknown",
              !.error = IF form.addr = row.addr THEN row.error ELSE None]

AfterEdit(row, op, form) ==
  [row EXCEPT !.addr = form.addr, !.type = form.type,
              !.enabled = IF op = "put" THEN form.enabled ELSE row.enabled]

UpdateCommit(h) ==
  LET s   == sess[h]
      new == AfterEdit(s.loaded, s.op, s.form)
  IN /\ s.pc = "write" /\ s.op \in {"edit", "put"}
     /\ IF /\ s.dev \in DOMAIN devices
           /\ AddressFree(s.dev, Flush(s.loaded, new, devices[s.dev]).addr)
          THEN devices' = [devices EXCEPT ![s.dev] =
                             Flush(s.loaded, new, devices[s.dev])]
          ELSE UNCHANGED devices
     /\ Leave(h)
     /\ UNCHANGED <<samples, insights, stale, events, poller>>

-----------------------------------------------------------------------------
(* Creating and deleting.                                                  *)

CreateCheck(h, form) ==
  /\ Event("create")
  /\ ~Busy(h)
  /\ Holders(form.addr) = {}
  /\ Enter(h, [pc |-> "write", op |-> "create", form |-> form])
  /\ UNCHANGED <<tables, poller>>

NoDefault(form) ==  \* mutant: the status column has no default
  [addr |-> form.addr, type |-> form.type, enabled |-> form.enabled,
   status |-> None, error |-> None, firmware |-> None]

NewRow(form) ==
  [addr |-> form.addr, type |-> form.type, enabled |-> form.enabled,
   status |-> "unknown", error |-> None, firmware |-> None]

CreateCommit(h) ==
  LET s == sess[h]
  IN /\ s.pc = "write" /\ s.op = "create"
     /\ \/ \E d \in DevIds :
             /\ IsNextId(devices, d)
             /\ AddressFree(d, s.form.addr)
             /\ devices' = Insert(devices, d, NewRow(s.form))
        \/ ~AddressFree(None, s.form.addr) /\ UNCHANGED devices
     /\ Leave(h)
     /\ UNCHANGED <<samples, insights, stale, events, poller>>

(* Marking the device deleted loads the rows the ORM cascades to.          *)
DeleteGet(h, d) ==
  /\ Event("delete")
  /\ ~Busy(h)
  /\ d \in DOMAIN devices
  /\ Enter(h, [pc |-> "write", op |-> "delete", dev |-> d,
               kids |-> [samples  |-> Children(samples, d),
                         insights |-> Children(insights, d)]])
  /\ UNCHANGED <<tables, poller>>

(* The commit deletes the loaded rows by id and the device, and ON DELETE  *)
(* CASCADE the rows that arrived since.                                    *)
DeleteCommit(h) ==
  LET s == sess[h]
  IN /\ s.pc = "write" /\ s.op = "delete"
     /\ devices'  = Without(devices, {s.dev})
     /\ samples'  = Without(samples, s.kids.samples
                                       \cup Cascade(samples, s.dev))
     /\ insights' = Without(insights, s.kids.insights
                                        \cup Cascade(insights, s.dev))
     /\ stale' = stale \ {s.dev}
     /\ Leave(h)
     /\ UNCHANGED <<events, poller>>

(* insights_recompute and its form, one transaction under the write lock.  *)
RecomputeRequest ==
  /\ Event("recompute")
  /\ ReplaceInsights
  /\ UNCHANGED <<devices, samples, stale, sess, poller>>

-----------------------------------------------------------------------------
(* The background poll cycle.                                              *)

(* The scheduler runs one cycle at a time (max_instances = 1).  With no    *)
(* enabled device the cycle returns before it recomputes the insights.     *)
CycleStart ==
  LET ids == {d \in DOMAIN devices : devices[d].enabled}
  IN /\ cycle = "idle"
     /\ cycles < MaxCycles
     /\ cycles' = cycles + 1
     /\ pending' = ids
     /\ cycle' = IF ids = {} THEN "idle" ELSE "polling"
     /\ UNCHANGED <<tables, sess, events>>

(* First session of _poll_one.  Its commit expires the row it keeps and    *)
(* closing it detaches the row, so with expire_on_commit the first         *)
(* attribute poll_device reads raises and _bounded logs the exception.     *)
TaskGet(w) ==
  \E d \in pending :
    /\ ~Busy(w)
    /\ LoopFree
    /\ \A e \in pending : d <= e
    /\ pending' = pending \ {d}
    /\ IF d \in DOMAIN devices /\ devices[d].enabled /\ ~ExpireOnCommit
         THEN Enter(w, [pc |-> "snmp", dev |-> d, target |-> devices[d].addr])
         ELSE UNCHANGED sess
    /\ UNCHANGED <<tables, cycle, cycles, events>>

GoneKeepsSlot(s, r) ==  \* mutant: a deleted device does not end the task
  IF s.dev \in DOMAIN devices
    THEN [pc |-> "write", dev |-> s.dev, target |-> s.target,
          loaded |-> devices[s.dev], result |-> r]
    ELSE s

(* Second session: the row is read again, enabled is not looked at again.  *)
Reread(s, r) ==
  IF s.dev \in DOMAIN devices
    THEN [pc |-> "write", dev |-> s.dev, target |-> s.target,
          loaded |-> devices[s.dev], result |-> r]
    ELSE Idle

TaskAnswer(w, r) ==
  /\ sess[w].pc = "snmp"
  /\ LoopFree
  /\ Enter(w, Reread(sess[w], r))
  /\ UNCHANGED <<tables, poller, events>>

TaskCommit(w) ==
  LET s == sess[w]
  IN /\ s.pc = "write"
     /\ IF s.dev \in DOMAIN devices
          THEN /\ WriteRow(s.dev, s.loaded, AfterTask(s.loaded, s.result))
               /\ InsertSample(s.dev, s.target, s.result)
          ELSE UNCHANGED <<devices, samples, stale>>
     /\ Leave(w)
     /\ UNCHANGED <<insights, poller, events>>

CycleDone ==
  /\ cycle = "polling"
  /\ pending = {}
  /\ \A w \in Workers : ~Busy(w)
  /\ cycle' = "idle"
  /\ UNCHANGED <<devices, samples, stale, sess, pending, cycles, events>>

CycleEnd == CycleDone /\ ReplaceInsights

(* A recompute that cannot get the write lock, whoever has it (a request,  *)
(* a script), is logged and forgotten.                                     *)
CycleEndLocked == CycleDone /\ UNCHANGED insights

-----------------------------------------------------------------------------
(* Failures.                                                               *)

(* A session that waits for the write lock longer than SQLite's busy       *)
(* timeout, or whose ports collide with those of a concurrent discovery,   *)
(* is rolled back.                                                         *)
Abort(x) ==
  /\ \/ sess[x].pc = "write"
     \/ x \in Handlers /\ sess[x].pc \in {"snmp", "walk"}
  /\ \E h \in Handlers \ {x} : Busy(h)
  /\ Leave(x)
  /\ UNCHANGED <<tables, poller, events>>

(* The process stops and starts again: the database stays, requests and    *)
(* the poll cycle are lost.                                                *)
Restart ==
  /\ Event("restart")
  /\ sess' = [x \in Sessions |-> Idle]
  /\ pending' = {}
  /\ cycle' = "idle"
  /\ UNCHANGED <<tables, cycles>>

-----------------------------------------------------------------------------
Init ==
  /\ devices = InitDevices
  /\ samples = [i \in {} |-> None]
  /\ insights = [i \in {} |-> None]
  /\ sess = [x \in Sessions |-> Idle]
  /\ pending = {}
  /\ cycle = "idle"
  /\ cycles = 0
  /\ events = 0
  /\ stale = {}

Arrival(h) ==
  \/ \E d \in DevIds : \/ \E op \in {"poll", "discover"} : PollGet(h, op, d)
                       \/ DeleteGet(h, d)
                       \/ \E form \in Forms : EditGet(h, d, form)
                       \/ \E form \in Forms : PutGet(h, d, form)
  \/ \E form \in Forms : CreateCheck(h, form)

HandlerStep(h) ==
  \/ \E r \in Results : PollAnswer(h, r)
  \/ PollWalked(h)
  \/ EditCheck(h)
  \/ UpdateCommit(h)
  \/ CreateCommit(h)
  \/ DeleteCommit(h)

WorkerStep(w) ==
  \/ TaskGet(w)
  \/ \E r \in Results : TaskAnswer(w, r)
  \/ TaskCommit(w)

CycleStop == CycleEnd \/ CycleEndLocked

(* Nothing is in flight and nobody sends anything: the server may stay so. *)
Quiescent ==
  /\ cycles = MaxCycles /\ cycle = "idle"
  /\ \A x \in Sessions : ~Busy(x)
  /\ UNCHANGED vars

Next ==
  \/ \E h \in Handlers : Arrival(h) \/ HandlerStep(h)
  \/ \E w \in Workers : WorkerStep(w)
  \/ \E x \in Sessions : Abort(x)
  \/ CycleStart
  \/ CycleStop
  \/ RecomputeRequest
  \/ Restart
  \/ Quiescent

(* A request ends because SNMP gives up after its timeouts and SQLite      *)
(* after its busy timeout; the scheduler fires, and the event loop runs    *)
(* every task that is ready.  Nobody has to send requests.                 *)
Fairness ==
  /\ \A h \in Handlers : WF_vars(HandlerStep(h))
  /\ \A w \in Workers : WF_vars(WorkerStep(w))
  /\ WF_vars(CycleStart)
  /\ WF_vars(CycleStop)

Spec == Init /\ [][Next]_vars /\ Fairness

-----------------------------------------------------------------------------
(* Properties.                                                             *)

TablesOK ==
  /\ DOMAIN devices \subseteq DevIds /\ devices \in [DOMAIN devices -> Row]
  /\ DOMAIN samples \subseteq SampleIds
  /\ samples \in [DOMAIN samples -> SampleRow]
  /\ DOMAIN insights \subseteq Nat
  /\ insights \in [DOMAIN insights -> InsightRow]
  /\ stale \subseteq DevIds

SessionsOK ==
  /\ sess \in [Sessions -> {Idle} \cup Request \cup Task]
  /\ \A h \in Handlers : sess[h] \in {Idle} \cup Request
  /\ \A w \in Workers : sess[w] \in {Idle} \cup Task

(* Every table and every session holds what its columns and variables can  *)
(* hold.                                                                   *)
TypeOK ==
  /\ TablesOK
  /\ SessionsOK
  /\ pending \subseteq DevIds
  /\ cycle \in {"idle", "polling"}
  /\ cycles \in 0 .. MaxCycles
  /\ events \in 0 .. MaxEvents

(* No two devices have one address, however the duplicate check of one     *)
(* request interleaves with the write of another.                          *)
UniqueAddress ==
  \A d, e \in DOMAIN devices : d # e => devices[d].addr # devices[e].addr

(* Every sample and every insight belongs to a device that exists: a poll  *)
(* that outlives its device, or rows inserted between the load and the     *)
(* commit of a delete, leave nothing behind.                               *)
NoDanglingRows ==
  /\ \A i \in DOMAIN samples  : samples[i].device \in DOMAIN devices
  /\ \A i \in DOMAIN insights : insights[i].device \in DOMAIN devices

(* A device is offline exactly when it has an error to show, unless polls  *)
(* of it overlapped and no undisturbed poll has been recorded since.       *)
TelemetryAgrees ==
  \A d \in DOMAIN devices \ stale :
    devices[d].status = "offline" <=> devices[d].error # None

(* Unless polls of it overlapped, a device is online exactly when its      *)
(* newest sample was reachable: the row and the history are written by the *)
(* same transaction.  (switch_discover writes the row without a sample, so *)
(* this is about runs without it; and about runs in which no two requests  *)
(* delete one device at once, since the second would remove whatever has   *)
(* got the sample ids the first set free.)                                 *)
StatusIsNewestSample ==
  \A d \in DOMAIN devices \ stale, i \in DOMAIN samples :
    IsNewest(i, d) => (samples[i].reachable <=> devices[d].status = "online")

(* No step both records a poll and changes what the operator configures: a *)
(* slow poll never restores an address or an enabled flag that was edited  *)
(* meanwhile, nor a slow edit the status it had loaded.                    *)
ColumnsStayApart ==
  [][\A d \in DOMAIN devices \cap DOMAIN devices' :
       Telemetry(devices'[d]) # Telemetry(devices[d])
         => /\ devices'[d].addr = devices[d].addr
            /\ devices'[d].enabled = devices[d].enabled]_vars

(* Every step is one of the transactions of DeviceTable, or changes        *)
(* nothing it can see.                                                     *)
Configuration(row) == [addr |-> row.addr, enabled |-> row.enabled]

Table == INSTANCE DeviceTable WITH
  Ids         <- DevIds,
  Configs     <- [addr : Addrs, enabled : BOOLEAN],
  Readings    <- Statuses \X (Errors \cup {None}) \X (Descrs \cup {None}),
  Unpolled    <- <<"unknown", None, None>>,
  InitConfig  <- [d \in DOMAIN InitDevices |-> Configuration(InitDevices[d])],
  InitReading <- [d \in DOMAIN InitDevices |-> Telemetry(InitDevices[d])],
  config      <- [d \in DOMAIN devices |-> Configuration(devices[d])],
  reading     <- [d \in DOMAIN devices |-> Telemetry(devices[d])],
  owner       <- [i \in DOMAIN samples |-> samples[i].device],
  about       <- [i \in DOMAIN insights |-> insights[i].device]

ImplementsTable == Table!Spec

(* A cycle ends: every task gives its slot back, whether the device        *)
(* answered, was deleted or disabled, or its poll raised.                  *)
CycleCompletes == cycle = "polling" ~> cycle = "idle"

(* A request ends, whatever the other sessions do to the rows it loaded.   *)
RequestsEnd == \A h \in Handlers : Busy(h) ~> ~Busy(h)

(* README.md:73 "The poller picks the device up within ~5 seconds and      *)
(* populates": a device of a cycle gets a sample, unless it is deleted or  *)
(* disabled.                                                               *)
PollerPopulates ==
  \A d \in DevIds :
    d \in pending ~> \/ Children(samples, d) # {}
                     \/ d \notin DOMAIN devices
                     \/ ~devices[d].enabled

(* models.py:105 "A single point-in-time poll result for a device": where  *)
(* no address is edited, a sample came from its device's address.          *)
SampleIsOfItsDevice ==
  \A i \in DOMAIN samples :
    samples[i].device \in DOMAIN devices
      => samples[i].addr = devices[samples[i].device].addr
=============================================================================
