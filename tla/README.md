# Verification of aruba-mock

TLA+ models, TLC runs and TLAPS proofs for the FastAPI service in `src/`: a
device inventory in SQLite, an in-process SNMP poller, an insights engine, a
switch-port discovery and an AirMatch-like channel planner. Line numbers below
are those of the files under `src/app/`.

## 1. Inventory

| component | state it keeps | operations | what makes it correct |
|---|---|---|---|
| Device registry (`models.py`, `routes/pages.py`, `routes/api_devices.py`, `routes/api_actions.py`) | tables `devices`, `samples`, `insights` | create, HTML edit, JSON PUT, delete, manual poll, switch discovery | unique addresses; no rows of deleted devices; configuration and telemetry never overwrite each other; status, error and history agree |
| Background poller (`services/poller.py`, `main.py`) | the list of the cycle, the semaphore's slots, one scheduler job | `poll_all_once`, `_poll_one`, start and stop with the process | every enabled device gets a sample; a cycle ends whatever happens to its devices; insights are recomputed after it |
| Insights (`services/insights.py`) | table `insights`, replaced as a whole | `recompute_insights` | the set is that of one state of the tables; it follows the newest samples |
| AirMatch planner (`services/airmatch.py`) | table `airmatch_runs` | `plan_airmatch` | a radio for every AP; greedy choice is the cheapest candidate; neighbours spread out |
| Switch ports and VLANs (`routes/pages.py` 319-378, 408-586) | tables `switch_ports`, `vlans` | `_apply_switch_discovery`, VLAN and port create/edit/delete | a discovery keeps what the operator entered; one row per interface; unique VLAN ids |
| SNMP client (`services/snmp.py`) | none between calls | `poll_device`, `discover_switch` | joins the walked tables by the right index; what is lost is missing, never wrong; always returns |
| Engine and sessions (`db.py`) | SQLite write lock, connection pool | `session_scope`, `get_session` | a transaction is all or nothing; everything is given back; nobody waits for ever |
| Schema (`db_init.py`, `entrypoint.sh`) | tables, indexes, columns of the file | `create_all`, `_migrate_columns` | the server finds a whole schema, from any release and after any crash |
| SSH runner, demo data | none; table `radios` | `run_command`; `seed_demo.main` | partly: a wait that holds a thread and a connection; one transaction |
| Authentication, templates, configuration, container image | no state the above depends on | | not modelled: a cookie test, formatting, deployment |

How they interact. A web request gets one SQLAlchemy session (`get_session`)
that loads a row, may wait for SNMP for seconds, and commits after the handler
returned; `async def` handlers run on the event loop, `def` handlers and every
commit of a request in worker threads. The scheduler runs `poll_all_once` on the
event loop: one session lists the enabled devices, up to eight tasks run
`_poll_one`, each with a session before the SNMP wait and one after it, and a
last session recomputes the insights. All of them share the database and nothing
else. SQLite (WAL) has one writer; a `SELECT` reads what was last committed.

What is hard here: rows read before a wait and written after it, duplicate
checks apart from the writes they protect, ids that SQLite reuses, the ORM's
column-wise `UPDATE`, deletes that cascade over rows loaded earlier, tasks whose
device disappears, a lock that is kept while its owner waits for the very loop
somebody blocks, tables walked while they change, readings lost in the middle of
a poll, a clock that goes back, and a restart in the middle. `PROJECT.json` lists each of
these hazards with its line and the properties aimed at it.

## 2. Modules

| module | what it is |
|---|---|
| `Tables` | inserts, deletes, row ids and column-wise updates as SQLite and the ORM do them |
| `DeviceTable` | abstract specification: a table of devices (configuration, reading) with its samples and insights, changed by the atomic transactions Create, Reconfigure, Record, Delete, Recompute |
| `DeviceRegistry` | the code: tables, sessions of web requests, slots of the poll cycle, failures and restarts |
| `MCDeviceRegistry` | initial rows, SNMP results, request forms and symmetry for TLC |
| `DeviceRegistryProofs` | TLAPS: typing, status and error, DeviceRegistry implements DeviceTable, the invariants that follow, status and newest sample |
| `Sums` | TLAPS: folds over finite sets without induction, sums, means; used by five of the other proof modules |
| `SwitchPorts` | VLANs, switch ports, their forms and the discovery that updates them |
| `MCSwitchPorts` | rows, walks and forms for TLC |
| `AirMatch` | a planning pass over one band, with edits of the inventory around it |
| `MCAirMatch` | radio readings and installations for TLC |
| `AirMatchProofs` | TLAPS: well-formed plans, clean channels, pairs apart, contention never grows |
| `SwitchPortsProofs` | TLAPS: typing, VLAN numbers stay unique, no port without its switch, an undisturbed discovery is an upsert, edits survive one |
| `EventLoop` | the loop, the pool, the write lock and the worker threads, and the requests that need them |
| `MCEventLoop`, `EventLoopProofs` | an instance where everything runs out; TLAPS: all four invariants, no livelock, somebody always has a step |
| `SnmpDiscovery` | the walks of `discover_switch` and their joins, of a switch that changes meanwhile |
| `MCSnmpDiscovery`, `SnmpDiscoveryProofs` | switches for TLC; TLAPS: all four invariants, a discovery always has a next step and a last one |
| `Telemetry` | from what a device answers to what the insights say: readings, samples, rules, cycles |
| `MCTelemetry`, `TelemetryProofs` | devices at the thresholds for TLC; TLAPS: all three invariants |
| `SchemaInit` | the start of the container: create_all, the migrations, kills and locked statements |
| `MCSchemaInit`, `SchemaInitProofs` | three releases for TLC; TLAPS: the schema is whole when the server starts, left alone once complete, and a start has a last statement |

`DeviceRegistry`, `EventLoop` and `Telemetry` look at the same requests from three
sides: what sessions do to rows, who waits for whom, and what the numbers say.
Each leaves out the state of the other two, which keeps every one checkable.

### DeviceRegistry against the code

- `devices`, `samples`, `insights` are the tables, functions from row ids.
  `IsNextId` is SQLite's choice for a table without AUTOINCREMENT: one more than
  the largest id present, so ids of deleted rows come back.
- `sess` holds, for every request in flight (`Handlers`) and every slot of the
  semaphore (`Workers`), what its Python frame and its session hold between two
  steps: the copy of the row it loaded, the SNMP result, the form.
- A step is what runs between two points where another session can come in: an
  `await`, or a `SELECT` against the commit of another session. The flush and
  the commit of a transaction are ONE step: the first write statement takes
  SQLite's write lock and nobody else writes until the commit, while the
  statements of the flush are computed from the copy loaded earlier, which the
  model keeps apart. A `SELECT` before the first write is a step of its own.
- `Flush` is the ORM's `UPDATE`: only the columns whose value differs from the
  loaded one, on whatever the row holds by then.
- `LoopFree`: the second session of `_poll_one` has no `await` between its read
  and its commit, so nothing else that runs on the event loop interleaves with
  it. Handlers declared with `def` and the commits of requests run in threads
  and do interleave.
- `Abort` is a request or task whose transaction fails (the busy timeout, a
  collision inside a discovery): `session_scope` rolls back.
- `Restart` loses the sessions and the cycle and keeps the tables.
- `stale` is a history variable. It names the devices whose last recorded poll
  was flushed from a copy that another poll had changed meanwhile; it lets
  `TelemetryAgrees` say exactly when status and error may contradict each other.
- `Quiescent` is the stutter of a server with nothing to do; deadlock checking
  stays on, so any other state without a successor is reported.

Abstracted data: a sysDescr is the set of word families `_classify_device_type`
looks for; CPU and memory values are `normal` or `high`; credentials, site,
notes and the other columns no property tells apart are left out. Radios are
written by `scripts/seed_demo.py` only; the insights about them are in
`Telemetry`.

`ExpireOnCommit` is the `expire_on_commit` of `SessionLocal`. `db.py:35` leaves
it at its default, TRUE, and then no background poll gets past
`snapshot.snmp_version` (finding `poller_never_records`). The runs that explore
the poll cycle set it to FALSE: they show what the rest of `_poll_one` does, the
moment the snapshot is readable.

### SwitchPorts against the code

- `vlans` and `ports` are the tables `vlans` and `switch_ports`; `switches` is
  what they need of `devices`. Every device is a switch and stays one.
- A discovery is five steps: `DiscoverGet` (the row is loaded, the SNMP wait
  begins), `ReadVlans` and `ReadPorts` (the two queries of
  `_apply_switch_discovery`; autoflush is off, so neither writes, and each sees
  what is committed then), `DiscoverFlush` (the write lock is taken, constraints
  are checked) and `DiscoverCommit`. Queries and flush run on the event loop
  without an `await`, so no other discovery comes between them, but the forms run
  in threads and may;
  the commit runs in a thread, so another discovery may query before it.
  `Unlocked` keeps everybody else from writing between flush and commit.
- `Refreshed` folds the reports over the row they join by name, `NewPorts` gives
  a row per report that joins none: `by_name` is not extended inside the loop.
- `FlushPort` is again the column-wise UPDATE. `link`, `access` and `desc` stand
  for the three ways a discovery treats a column: always overwritten, overwritten
  if reported, filled in if empty.
- `vlans_edit` gets the row and checks for duplicates in two SELECTs; they are
  one step, since the check excludes the row itself.

### AirMatch against the code

- A pass is `GatherRadios` and `GatherAPs` (the two SELECTs of `_gather_radios`,
  each seeing what is committed then), one `Assign` per radio, and `Store`.
- `fleet` is keyed by device: `scripts/seed_demo.py` is the only code that
  writes radios and keeps one per device and band.
- `Assign` takes any of the busiest radios left. The code's sort is stable over
  the order of the SELECTs, which have no ORDER BY, so every order of equals
  stands for some order of rows; `IsBest` keeps the sort's tie-break between
  equal channels.
- Utilisation and noise are whole numbers, as `seed_demo.py` writes them. The
  clamp of the power never binds and is left out; names, rationale and the
  summary's figures are wording. An unknown band returns an error and takes no
  step.

### EventLoop against the code

- A request goes through `Begin` (its dependencies are entered, its body begins),
  `Checkout` (the first query takes a connection), the wait for SNMP or SSH,
  `Flush` (the first write takes SQLite's write lock), `Dispatch` and `Commit` or
  `Rollback`. The kinds differ in where the body runs and what it writes:
  `Polls` (`device_poll`, `switch_discover`) on the loop, `Looks` (`poll_now`) on
  the loop without a write, `Forms` (creates and edits,
  flushed in a thread; so is the PUT, `update_device`), `Puts` (the deletes, written
  by the commit only), `Shells` (`device_ssh`, `ssh_run`: a wait in a thread), `Writes`
  (the poller's transactions, which run on the loop from query to commit).
- `get_session` is a generator: FastAPI sends its exit, and with it the commit,
  to a worker thread, and that takes a turn of the loop (`Dispatch`). A handler
  that has flushed on the loop therefore holds the write lock while it needs the
  loop; `Writes` or another flush on the loop blocks it meanwhile. Only the busy
  timeout (five seconds, `sqlite3`'s default) ends this, and it ends the one that
  blocks. The exits have a thread limiter of their own.
- The pool is SQLAlchemy's for a file: 5 connections and 10 more, thirty seconds.
- A timeout may come at any moment of the wait it limits.

### SnmpDiscovery against the code

- `Receive` is one response of `bulk_walk_cmd`: up to `BulkSize` rows after the
  last one, cut at `MaxRows`. `BreakOff` is a timeout or an error status; what
  has come is kept. ifDescr is walked first, the others together.
- `Join` is everything from `_tbl` to the list of OUIs; it has no `await`.
  `MacsOn` keeps the rows that are not the switch's own, through the bridge map
  or, where it has no row, by the bridge port's number; the first address counts.
- ifType, ifOperStatus, the PVIDs, the VLAN names, one of the two LLDP tables and
  the three bridge tables are modelled; ifSpeed, ifAdminStatus, ifAlias and the
  counters are joined exactly as ifOperStatus is. An LLDP index is a number whose
  last digit is the local port; a status is its name, not its number.
- `seen` is a history variable: every row a table had since the walk began.

### Telemetry against the code

- A poll reads sysDescr, the Aruba CPU, the memory and, if there was no CPU
  value, up to `MaxCores` (8) core loads; each of them may be lost. `Store` is
  `_poll_one`, `device_poll` (the sample gets its timestamp there, not when it
  was read) or `switch_discover` (a status and no sample).
- Of the samples only the one of the greatest timestamp is kept, because
  `_latest_sample` reads no other; `behind` are the devices whose newest sample
  the clock has still to reach after it was set back.
- `Evaluate` and `CoChannel` are the rules with their thresholds, an insight being
  what it is about, its kind and its severity. A percentage is a sum and a number
  of values, so the mean is exact.
- `AlarmsWereTrue` compares a sample with `under`, what the device was while that
  poll ran; `SteadyIsTold` and `SettlesDown` compare the insights with `Truth`,
  which is stated about the devices and not about their samples.
- `steady` says that nothing disturbed the current cycle. The polls of a cycle
  work as they do with `expire_on_commit` off (finding `poller_never_records`).

### SchemaInit against the code

- pysqlite opens no transaction for DDL: every CREATE TABLE, CREATE INDEX and
  ALTER TABLE commits by itself, so a kill may come between any two.
- `Start` looks for all tables at once, as `checkfirst` does; the indexes of a
  table are created with it and never looked for.
- `AddColumn` passes over any exception, be it "duplicate column" or "database is
  locked"; `CreateFails` is the same lock in `create_all`, where nobody catches
  it: `entrypoint.sh` has `set -e` and the container is started again.

## 3. Runs

Bounds. An installation starts with one or two devices and grows by the creates
the bound allows; ids of deleted devices are reused. Two handlers and two workers give every
pairwise interleaving of sessions, and every hazard listed is between two
sessions and at most two more that come and go before or between them.
`MaxEvents` bounds the requests and restarts of a behaviour, `MaxCycles` the
cycles. Samples are bounded by the polls those allow, and `SampleIds` is large
enough never to bind. Symmetry (of handlers, of workers) is used in the runs
that check invariants and action properties, never with liveness.

| run | bounds | shows |
|---|---|---|
| `web_requests` | 2 handlers, every kind of request, 4 events, `ExpireOnCommit` TRUE | the service as built: typing, unique addresses, nothing dangling, status and error agree, polls and edits do not overwrite each other |
| `poll_cycle` | 1 handler, 2 workers, 2 devices, every request but `switch_discover`, 2 events | during a cycle that really writes, with ids that come back while polls are in flight: nothing dangling, status and error agree; the newest sample and the status agree unless polls of one device overlap; every step is a transaction of `DeviceTable` or invisible to it |
| `everything_ends` | fairness, 2 requests and a cycle | cycles and requests end |

`SwitchPorts`: two switches whose ports have the same names, two VLAN numbers,
four kinds of walk (new and known ports, a name twice, nothing) and two requests
in flight. `AirMatch`: three access points, so that a radio can sit between two
others, with readings on both sides of the thresholds of 5 and 40 percent
and with noise. Both modules allow deadlock: nobody has to send a request, and the
bounded number of requests runs out. So do `EventLoop` and `SnmpDiscovery`, whose
behaviours are over when every request, or the one discovery, has ended, and
`SchemaInit`, where a serving container has nothing left to do once the kills run
out. `Telemetry` never stops.

`EventLoop`: one request of every kind, two connections and two threads, so that
each of the three runs out while others hold it; a second of any kind only adds
waiters. `SnmpDiscovery`: two rows to a response and three to a walk, so that a
walk takes one response, several, or is cut; one change and one walk that breaks
off, at every point. `Telemetry`: a device of the Aruba MIB and one that has core
loads only, with values on the thresholds, and two disturbances of any kind, which
is what it takes to have one inside the recovery from another. `SchemaInit`:
three tables with two, one and no indexes, three columns, four files to start
from.

| run | bounds | shows |
|---|---|---|
| `switch_forms` | 4 requests of every kind | VLAN numbers stay unique, no port without a switch, an undisturbed discovery is an upsert and leaves other switches alone, a disturbed one keeps what forms saved meanwhile, except where its test came too early |
| `airmatch_bands` | every combination of 14 readings (2.4 GHz, one site and two) and of 6 readings (5 GHz, with and without DFS) over 3 APs; an installation with 2 passes and 2 edits | clean channels are used, pairs end apart, total contention never grows |
| `event_loop` | 6 requests, 2 connections, 2 threads, fairness | writers exclude each other; everything is given back; no deadlock without the loop; every request ends, and the owner of the lock commits |
| `snmp_discovery` | 5 switches, responses of 2 rows and walks of 3, 1 change, 1 walk broken off, fairness | a port's values are its own; a switch that holds still is read exactly; losses only hide; a discovery returns |
| `telemetry` | 2 devices, 4 radios, 2 disturbances, fairness | alarms show values the device had; an undisturbed cycle tells the truth; the insights settle on it |
| `schema_start` | 3 kills, 2 locked statements, fairness | the server finds a whole schema but for what a lock or a kill provably left out; a complete schema is not written again; the server comes up |

Fairness. Weak fairness of every request's next step (SNMP answers or times out,
the busy timeout ends a wait for the lock), of every worker's, of the scheduler's
start and of the cycle's end: the event loop runs every ready task, and nothing
in the code can disable these steps for ever. Requests themselves are not fair.
In `EventLoop` every request's next step is weakly fair: the loop runs ready
callbacks, threads are scheduled, waits and timeouts are finite. In
`SnmpDiscovery` every walk ends (`timeout`, `retries=1`, a limit of rows). In
`Telemetry` cycles start and end, polls go on, and time passes (`CatchUp`);
disturbances are not fair. In `SchemaInit` the restart policy ("unless-stopped")
starts the container again and its statements go on.

Runs that refute a statement of the repository:

| run | statement | what happens |
|---|---|---|
| `poller_never_records` | README:73, poller.py:40 | as built no cycle ever stores a sample |
| `poll_of_deleted_device` | models.py:105 | the result of a deleted device's address is stored for the device that got its id |
| `port_inserted_twice` | pages.py:327 | overlapping discoveries insert a port twice |

Divergences met while modelling that have no run of their own; the models show
each of them:

- A delete removes the insights of its device by the ids it loaded; a recompute
  in between restarts the ids at 1, and an insight of another device goes with
  them, though insights.py:7 says the set is replaced on every recompute.
- A cycle that finds no enabled device returns before the recompute
  (poller.py:83), so the insights of the device disabled last stay, though
  README:87 has the engine recompute after every cycle.
- A quiet radio nobody disturbs leaves its channel from 5% utilisation on: its
  own utilisation is charged to the channel it is on and only 5 taken off, though
  airmatch.py:100 prefers staying "to minimize churn".
- db_init.py:35 reads every exception as "column already exists"; a locked
  database leaves the column missing and "Schema ensured" is logged. A kill
  between CREATE TABLE and CREATE INDEX leaves the index out for good, though
  db_init.py:1 calls the start idempotent. `ServesWhole` has both exceptions, and
  `Idempotent` says the second stays.
- snmp.py:472 takes a port whose ifOperStatus was not read for down, and the VLAN
  of a port is looked up by ifIndex although PVIDs are indexed by bridge port
  (snmp.py:343 assumes both are numbered alike); `LossOnlyHides` and
  `SteadyIsExact` say where this shows.
- The co-channel rule is applied to all bands, not to "2.4GHz APs only"
  (insights.py:155), and counts radios, not the APs of its title.
- README:73 has the poller populate `ifNumber`, which is read and not stored, and
  "within ~5 seconds", which holds of the first cycle after a start only.
- Two PUTs of one device overlap and leave a mixture of both payloads, because
  the flush writes only what differs from the copy loaded (`Kept`), while
  schemas.py:37 speaks of a full update.
- Two overlapping deletes of one device: the second removes the sample ids it
  loaded, which the first has freed and a poll of another device may have got
  since, so that device loses its newest sample (section 4).
- `switch_discover` sets the status without a sample, so an offline insight can
  contradict the newest sample (insights.py:5). `StatusIsNewestSample` therefore
  is about runs without it.
- A discovery replaces the access VLAN of an access port, and a description
  saved between its query and its flush, though pages.py:327 says it does not
  clobber manual edits. `DiscoveryKeepsEdits` says that these two are all.
- An AP enabled between the two SELECTs of `_gather_radios` is planned as one
  without radios (airmatch.py:188); APs without radios get a plan at all, though
  README:149 asks for radios; and the first radio placed gets full power however
  many neighbours it has (airmatch.py:139), since only those placed before count.

## 4. Proofs

Every invariant and every action property that a passing run checks is also a
theorem, for all constants that satisfy the named assumptions of the module; one
of them, `StatusIsNewestSample`, under a hypothesis that the code does not
guarantee and that is discussed below. `PROJECT.json` lists the theorems.

Assumptions. They say what inputs look like, never what the program does with
them: row ids are naturals; forms, SNMP results and installations have the
stated shapes and are consistent (`InstallationsAssumption`, `StartAssumption`);
NULL is none of the values; limits are positive; the tables of a switch are
finite and indexed from 1 (`SwitchesAssumption`); there are finitely many tables
and indexes (`SchemaAssumption`); what a device of `Telemetry`
may answer is a reading of each kind, and radios are of the bands
`scripts/seed_demo.py` writes (`AgentsAssumption`, `RadiosAssumption`,
`NamesAssumption`). TLC evaluates all of them on every run.

Folds. The library defines sums and folds by recursion over subsets, and its
induction theorems take an operator, which the provers do not instantiate.
`Sums` argues by a minimal counterexample instead: among the subsets of a finite
set that violate a statement one has none below it (`MinimalSubset`, from the
library's well-foundedness of the subset order). From this follow that the
recursion has a solution, that solutions agree, that what the steps keep holds of
the result (`FoldingExists`, `FoldingsAgree`, `FoldingKeeps`), and for sums that
any element can be taken out, that sums split, that they follow their values down,
and that a mean is reached by a member (`SumTakeOut`, `SumSplit`, `SumDrops`,
`SumAtMost`, `MeanIsReached`).

### DeviceRegistry

- `TypeCorrect`: `TypeOK` is inductive by itself. One lemma per group of steps;
  `Flush`, `AfterPoll`, `AfterTask` and `NewRow` have a lemma each that says
  they yield rows.
- `StatusAgreesWithError`: `TelemetryAgrees` is inductive together with `TypeOK`,
  thanks to the history variable: a device leaves `stale` only by a poll whose
  copy had the row's own telemetry, and then the flush leaves exactly the status
  and error the poll set. Without `stale` the statement is false, since a
  column-wise UPDATE can combine one poll's status with another's error.
- `RegistryImplementsTable`: every action of `DeviceRegistry` is shown to be one
  transaction of `DeviceTable` or to leave its variables alone, from `TypeOK`.
- `AddressesStayUnique`, `RowsNeverDangle`, `ColumnsAreApart`: from the
  transactions of the step lemma rather than from the actions, with the
  conjunction of both invariants inductive (a Recompute mentions only present
  devices, a Delete removes what belongs to the device).
- `StatusFollowsHistory`: the newest sample and the status agree, by the
  invariant `HistoryInv`: the property itself, that a delete holds only sample ids
  of its own device, and that only polls wait. It has two hypotheses, and both
  are needed. `"discover" \notin Ops`: `switch_discover` sets a status without a
  sample. `[]OneDeleteEach`: no two requests are deleting one device at a time.
  Looking for the invariant showed why: of two overlapping deletes of one device
  the first frees the sample ids both have loaded, a poll of another device
  reuses one, and the second delete removes that new sample, after which the
  status no longer follows what is left. Nothing in the code keeps two such
  requests apart, so this is a hypothesis about the requests and not about the
  code; `poll_cycle` has one handler, where it always holds.

### SwitchPorts

- `VlansStayUnique`, `PortsHaveSwitches`: the two properties are inductive
  together with what the write lock guarantees: at most one discovery is flushed,
  and what its flush found free (the numbers it inserts, its switch) is free until
  its commit, because every other writer waits. The ids of inserted rows are
  distinct because a row's place among the new ones has one number.
- `TypesHold`: `TypeOK` is inductive together with what each request holds, at
  each point, for its commit to write (`SessionType`). That a loaded row stays a
  row through any number of reports of its name is `FoldingKeeps`.
- `UndisturbedDiscoveriesUpsert`: while the rows a discovery loaded are as it
  loaded them, its joins by name are joins with the table's rows. A report whose
  name is alone in the walk either updates the one row of that name, and the fold
  ends with the reported link (`RefreshedKeeps`), or adds exactly one row
  (`FreshRows`, `RowsAdded`). The flush is refused only by a VLAN number somebody
  took, or a row or the switch that somebody deleted meanwhile, and then the
  discovery is not undisturbed.
- `DiscoveriesKeepEdits`: a commit keeps every column the flush did not write, and
  the flush writes those whose value differs from the copy loaded. What a fold over
  the reports leaves alone (`RefreshedKeeps` again: name and mode, a description that
  was there, the VLAN of a trunk) does not differ, whatever was saved meanwhile.

### AirMatch

- `PlansWellFormed`: `TypeOK` is inductive; every channel of a plan
  is one of the list asked for, the power within 9 to 15 dBm.
- `CleanChannelsAreUsed`: for any number of radios. A channel that is clean and
  not the radio's own costs 0; one on or beside a neighbour costs at least 10,
  of which the radio's own term takes off 5 at most; the cheapest is chosen.
- `PairsEndApart`: for two radios that hear only each other, one of three
  channels of each list is clear of any other, so a clean one is always on
  offer for the second; the channel it gets is then clear of the first by the
  previous argument.
- `ContentionStaysDown`: the total over all radios and pairs is the cost of one
  radio's channel, as `_channel_cost` computes it, plus what does not depend on
  that channel (`ContentionSplit`, from `PairsWeigh`: a neighbour more is a pair
  more, weighed by the same 25 and 10). A placement changes only the first part,
  and to no more than the cost of the channel the radio could have kept.

### EventLoop

- `EventLoopTypes`, `WritersExclude`, `NothingLeaks`: one invariant, the books: a
  connection is held from the first query to the end, the loop is blocked by the
  one request inside a statement on it, the lock's owner is whoever has flushed.
  `NoThreadDeadlock` follows from it by cases: a full pool or a full set of
  threads has a holder, and the holder, or the owner of the lock it waits for, can
  go on.
- `NeverStuck`, `NoLivelock`, `FlushedIsCommitted`: the liveness properties
  without their fairness. While a request is left, some request has a step
  (`CanStep` spells out the guards); every step lowers `Remaining`, a sum over
  the requests that starts at six for each, so there are no endless behaviours but
  those that do nothing; and no timeout ends the owner of the write lock.

### SnmpDiscovery

- `NothingIsInvented`: for any switch and any changes. Every received row is in
  `seen`, which only grows, and `Join` takes a port's values from rows of its own
  index.
- `TypesAndLimit`: a response never takes a walk over `MaxRows`; this needs the
  cardinality of the window `Response` cuts out.
- `CompleteWalksAreExact`, `BrokenWalksOnlyHide`: while the switch holds still,
  the rows of a table are an initial part of it, and all of it once the walk is
  over and not cut. Joined, complete tables give the ports themselves; with parts
  of them every lookup gives the true value or none, for the choice of the least
  address as well. The one loss that would show is a row of the address status
  missing; when the limit cuts that table, its `MaxRows` rows are an initial part of
  the same indexes as those of the address table, of which no more than `MaxRows`
  are kept, so none of them lacks its status (`StatusIsReceived`).
- `DiscoveryIsBounded`, `DiscoveryIsNeverStuck`: `DiscoveryReturns` without its
  fairness. `StepsLeft` adds up the rows each open walk may still keep and the
  stages to come; a full response brings at least one new row, since its rows lie
  beyond those received, and any other response ends its walk. `CanGoOn` spells
  out the guards of `Discover`; the join always finds a set of vendors to look up,
  since a finite set has parts of every smaller size (`SomePartFits`).

### Telemetry

- `TypesHold`: besides the types, one severity per subject: the ladders of
  `Severity` exclude each other and an offline device is passed over.
- `NoFalseAlarm`: what a poll has read so far was the device's during this poll
  (`under` grows with every change), through the store and the rules; of a mean
  of core loads over a threshold, one core had it (`MeanIsReached`).
- `SteadyCycleTells`: from any history of lost readings, failures and late
  polls. In a steady cycle a finished poll holds what the device is, its store
  makes it the newest sample, and `RulesOfToldAreTrue` says that the rules over
  such samples give the truth.

### SchemaInit

- `SchemaTypes`, `SchemaIsWhole`: the invariant follows a start through its
  stages: tables are missing or there, the indexes of a table being created are
  pending, columns before `next` are there unless one was refused.
- `SchemaIsIdempotent`: from the same invariant: nothing is missing when a start
  finds all tables, and an ALTER TABLE of a column that is there changes nothing.
- `StartIsBounded`: of `ServesInTheEnd` the part without fairness. A table to be
  created costs one statement more than its indexes and one step to be done with;
  each step of `Boot` lowers the sum of these and of what comes after the tables,
  which a kill sets back, to no more than `Longest`.

### Only model-checked

Liveness under fairness (`CycleCompletes`, `RequestsEnd`, `EveryRequestEnds`,
`OwnerCommits`, `DiscoveryReturns`, `SettlesDown`, `ServesInTheEnd`), for weak
fairness is defined by ENABLED, which the prover does not handle; of `EventLoop`,
`SnmpDiscovery` and `SchemaInit` the parts without fairness are proved. What a run refutes is TLC's alone.


## 5. Plan

The modules of the plan are written; what would come next:

1. The parts of the remaining liveness properties that need no fairness, as for
   `EventLoop`, `SnmpDiscovery` and `SchemaInit`: a cycle of `DeviceRegistry` and
   of `Telemetry` has a next step until it ends, and a last one.
2. `DeviceRegistry` and `Telemetry` composed: the id reuse behind
   `poll_of_deleted_device` also carries a sample's numbers to a device they are
   not of.
3. `EventLoop` with the poll cycle's eight tasks as requests that come back.

## 6. Not modelled

- Authentication (`auth.py`): a comparison and a cookie, checked anew by every
  request; nothing it does depends on or changes the state above.
- Templates and read-only pages: queries and formatting.
- Which commands SSH allows (`is_safe_command`): a test of a string.
- Configuration (`config.py`): environment variables read once.
- The container image and `scripts/publish-to-github.sh`: build and deployment.
- Deliberately left out of modelled components: credentials, names and texts,
  uptime, client counts and raw rows, names and descriptions of VLANs, the list of
  VLANs of a trunk.
