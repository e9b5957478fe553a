----------------------------- MODULE SwitchPorts -----------------------------
(***************************************************************************)
(* The VLAN registry and the ports of switches: the tables vlans and       *)
(* switch_ports, the forms that edit them, and _apply_switch_discovery,    *)
(* which brings them up to date with what SNMP reports.                    *)
(*                                                                         *)
(* As in DeviceRegistry, a request of a form loads rows, and its flush and *)
(* commit are one later step under SQLite's write lock.  A discovery makes *)
(* two queries and flushes on the event loop, where no other one comes     *)
(* between but forms may, and commits in a thread: the next one may query  *)
(* before that.                                                            *)
(*                                                                         *)
(* The columns of a port fall into kinds, of which one each is modelled:   *)
(* link_status stands for what a discovery always overwrites (also         *)
(* admin_enabled and the LLDP neighbour), access_vlan for what it          *)
(* overwrites if reported (also speed_mbps), description for what it fills *)
(* in if empty.  Columns no form can write (MAC address, error counters)   *)
(* and the trunk's VLANs, which no discovery writes, are left out.         *)
(***************************************************************************)
EXTENDS Tables, SequencesExt

CONSTANTS
  DevIds,        (* Row ids of devices.                                    *)
  VlanPks,       (* Row ids of vlans, large enough never to bind.          *)
  PortPks,       (* Row ids of switch_ports, large enough never to bind.   *)
  Vids,          (* VLAN numbers.                                          *)
  Names,         (* Port names.                                            *)
  Descs,         (* Descriptions.                                          *)
  Scans,         (* What discover_switch can return.                       *)
  PortForms,     (* What the form of a port can hold.                      *)
  InitSwitches,  (* The switches a run starts from,                        *)
  InitVlans,     (* its VLANs                                              *)
  InitPorts,     (* and its ports.                                         *)
  Handlers,      (* Web requests that can be in flight at once.            *)
  Ops,           (* The kinds of request a run exercises.                  *)
  MaxEvents,     (* Bound on requests.                                     *)
  None           (* SQL NULL, Python None.                                 *)

AllOps == {"discover", "add port", "edit port", "delete port", "add vlan",
           "edit vlan", "delete vlan", "add switch", "delete switch"}

Modes == {"access", "trunk"}
Links == {"up", "down", "unknown"}

Port == [device : DevIds, name : Names, desc : Descs \cup {None}, mode : Modes,
         access : Vids \cup {None}, link : Links]

(* A DiscoveredPort, and what one walk of a switch finds.                  *)
Report == [name : Names, desc : Descs \cup {None}, access : Vids \cup {None},
           link : {"up", "down"}]
Scan   == [vlans : Seq(Vids), ports : Seq(Report)]

PortForm == [name : Names, desc : Descs \cup {None}, mode : Modes,
             access : Vids \cup {None}, link : Links]

ASSUME PksAssumption ==
  DevIds \subseteq Nat /\ VlanPks \subseteq Nat /\ PortPks \subseteq Nat

ASSUME ScansAssumption ==
  \A scan \in Scans : /\ scan \in Scan
                      /\ \A i, j \in DOMAIN scan.vlans :
                           i # j => scan.vlans[i] # scan.vlans[j]

ASSUME FormsAssumption ==
  PortForms \subseteq PortForm /\ Ops \subseteq AllOps /\ MaxEvents \in Nat

ASSUME NoneAssumption == None \notin Vids /\ None \notin Descs

ASSUME StartAssumption ==
  /\ InitSwitches \subseteq DevIds
  /\ DOMAIN InitVlans \subseteq VlanPks
  /\ InitVlans \in [DOMAIN InitVlans -> Vids]
  /\ \A i, j \in DOMAIN InitVlans : i # j => InitVlans[i] # InitVlans[j]
  /\ DOMAIN InitPorts \subseteq PortPks
  /\ InitPorts \in [DOMAIN InitPorts -> Port]
  /\ \A i \in DOMAIN InitPorts : InitPorts[i].device \in InitSwitches

VARIABLES
  switches,  (* Ids of the devices, all of them switches.                  *)
  vlans,     (* Table vlans: row id -> VLAN number.                        *)
  ports,     (* Table switch_ports: row id -> row.                         *)
  sess,      (* What each request is in the middle of.                     *)
  events     (* Requests so far.                                           *)

vars == <<switches, vlans, ports, sess, events>>

tables == <<switches, vlans, ports>>

-----------------------------------------------------------------------------
(* Sessions.                                                               *)

Idle == [pc |-> "idle"]

Busy(h) == sess[h].pc # "idle"

Enter(h, s) == sess' = [sess EXCEPT ![h] = s]
Leave(h)    == Enter(h, Idle) /\ UNCHANGED events

(* A discovery holds SQLite's write lock from its flush to its commit.     *)
Unlocked == \A h \in Handlers : sess[h].pc # "flushed"

Arrives(h, op) ==
  /\ op \in Ops
  /\ ~Busy(h)
  /\ events < MaxEvents
  /\ events' = events + 1
  /\ UNCHANGED tables

-----------------------------------------------------------------------------
(* Tables.                                                                 *)

Known == {vlans[i] : i \in DOMAIN vlans}

PortsOf(d) == {i \in DOMAIN ports : ports[i].device = d}

(* What the discovery of device d loads of switch_ports.                   *)
LoadedPorts(d) == Restrict(ports, PortsOf(d))

(* New rows get the ids from n, the next of the table, on, in the order of *)
(* what they stand for, a set S of positions.                              *)
Place(S, i) == Cardinality({j \in S : j < i})

AppendRows(table, n, S, Row(_)) ==
  [k \in DOMAIN table \cup {n + Place(S, i) : i \in S} |->
     IF k < n THEN table[k] ELSE Row(CHOOSE i \in S : n + Place(S, i) = k)]

WholeRow(loaded, new, row) ==  \* mutant: the UPDATE sets what did not change, too
  [new EXCEPT !.device = row.device]

FlushPort(loaded, new, row) ==
  [row EXCEPT !.name   = Kept(loaded.name, new.name, row.name),
              !.desc   = Kept(loaded.desc, new.desc, row.desc),
              !.mode   = Kept(loaded.mode, new.mode, row.mode),
              !.access = Kept(loaded.access, new.access, row.access),
              !.link   = Kept(loaded.link, new.link, row.link)]

-----------------------------------------------------------------------------
(* _apply_switch_discovery.                                                *)

DropsLink(row, dp) ==  \* mutant: the link of a known port is not updated
  [row EXCEPT !.desc   = IF row.desc = None THEN dp.desc ELSE row.desc]

Refresh(row, dp) ==
  [row EXCEPT
     !.link   = dp.link,
     !.desc   = IF row.desc = None THEN dp.desc ELSE row.desc,
     !.access = IF row.mode = "access" /\ dp.access # None THEN dp.access
                                                           ELSE row.access]

NoMode(d, dp) ==  \* mutant: a discovered port gets no mode
  [device |-> d, name |-> dp.name, desc |-> dp.desc, mode |-> None,
   access |-> dp.access, link |-> dp.link]

NewPort(d, dp) ==
  [device |-> d, name |-> dp.name, desc |-> dp.desc, mode |-> "access",
   access |-> dp.access, link |-> dp.link]

(* by_name keeps the last of the loaded rows of one name; the reports of   *)
(* that name change it one after the other.                                *)
ByName(loaded, name) ==
  {i \in DOMAIN loaded : /\ loaded[i].name = name
                         /\ \A j \in DOMAIN loaded : loaded[j].name = name => j <= i}

Refreshed(s, i) ==
  FoldLeft(LAMBDA row, dp : IF i \in ByName(s.loaded, dp.name)
                              THEN Refresh(row, dp) ELSE row,
           s.loaded[i], s.scan.ports)

NewVlans(s) == {i \in DOMAIN s.scan.vlans : s.scan.vlans[i] \notin s.known}

(* A name that is not among the loaded rows gets a row per report.         *)
NewPorts(s) ==
  {i \in DOMAIN s.scan.ports : ByName(s.loaded, s.scan.ports[i].name) = {}}

(* device_poll and switch_discover get the device and wait for SNMP.       *)
DiscoverGet(h, d) ==
  /\ Arrives(h, "discover")
  /\ d \in switches
  /\ Enter(h, [pc |-> "walk", dev |-> d])

(* The walk is over and the first query runs.  Until the flush, the event  *)
(* loop runs nothing else.                                                 *)
ReadVlans(h, scan) ==
  /\ sess[h].pc = "walk"
  /\ \A g \in Handlers : sess[g].pc \notin {"vlans", "apply"}
  /\ Enter(h, [pc |-> "vlans", dev |-> sess[h].dev, scan |-> scan, known |-> Known])
  /\ UNCHANGED <<tables, events>>

(* The second query.  With autoflush off it writes nothing, and it sees    *)
(* what has been committed since the first.                                *)
ReadPorts(h) ==
  LET s == sess[h]
  IN /\ s.pc = "vlans"
     /\ Enter(h, [pc |-> "apply", dev |-> s.dev, scan |-> s.scan, known |-> s.known,
                  loaded |-> LoadedPorts(s.dev)])
     /\ UNCHANGED <<tables, events>>

(* vlans.vlan_id is UNIQUE; an UPDATE that finds no row and an INSERT for  *)
(* a device that is gone fail too.  Any of them rolls everything back.     *)
Refused(s) ==
  \/ \E i \in NewVlans(s) : s.scan.vlans[i] \in Known
  \/ \E i \in DOMAIN s.loaded : i \notin DOMAIN ports /\ Refreshed(s, i) # s.loaded[i]
  \/ NewPorts(s) # {} /\ s.dev \notin switches

DiscoverFlush(h) ==
  /\ sess[h].pc = "apply"
  /\ Unlocked
  /\ ~Refused(sess[h])
  /\ Enter(h, [sess[h] EXCEPT !.pc = "flushed"])
  /\ UNCHANGED <<tables, events>>

(* If the device is gone, its own UPDATE fails, when there is one.         *)
DiscoverRefused(h) ==
  /\ sess[h].pc = "apply"
  /\ Unlocked
  /\ Refused(sess[h]) \/ sess[h].dev \notin switches
  /\ Leave(h)
  /\ UNCHANGED tables

(* Nobody has written since the flush, so its effect is computed here.     *)
DiscoverCommit(h) ==
  LET s == sess[h]
  IN /\ s.pc = "flushed"
     /\ \E v \in VlanPks : /\ IsNextId(vlans, v)
                           /\ vlans' = AppendRows(vlans, v, NewVlans(s),
                                                LAMBDA i : s.scan.vlans[i])
     /\ \E p \in PortPks :
          /\ IsNextId(ports, p)
          /\ ports' = AppendRows(
                        [i \in DOMAIN ports |->
                           IF i \in DOMAIN s.loaded
                             THEN FlushPort(s.loaded[i], Refreshed(s, i), ports[i])
                             ELSE ports[i]],
                        p, NewPorts(s), LAMBDA i : NewPort(s.dev, s.scan.ports[i]))
     /\ DOMAIN vlans' \subseteq VlanPks /\ DOMAIN ports' \subseteq PortPks
     /\ UNCHANGED switches
     /\ Leave(h)

(* The switch did not answer.                                              *)
Silent(h) ==
  /\ sess[h].pc = "walk"
  /\ Leave(h)
  /\ UNCHANGED tables

-----------------------------------------------------------------------------
(* The forms for ports.                                                    *)

PortAddGet(h, d, form) ==
  /\ Arrives(h, "add port")
  /\ d \in switches
  /\ Enter(h, [pc |-> "add port", dev |-> d, form |-> form])

PortAddCommit(h) ==
  LET s   == sess[h]
      row == [device |-> s.dev, name |-> s.form.name, desc |-> s.form.desc,
              mode |-> s.form.mode, access |-> s.form.access,
              link |-> s.form.link]
  IN /\ s.pc = "add port"
     /\ Unlocked
     /\ IF s.dev \in switches
          THEN \E p \in PortPks : /\ IsNextId(ports, p)
                                  /\ ports' = Insert(ports, p, row)
          ELSE UNCHANGED ports
     /\ UNCHANGED <<switches, vlans>>
     /\ Leave(h)

PortEditGet(h, i, form) ==
  /\ Arrives(h, "edit port")
  /\ i \in DOMAIN ports
  /\ Enter(h, [pc |-> "edit port", pk |-> i, loaded |-> ports[i], form |-> form])

AfterPortEdit(row, form) ==
  [row EXCEPT !.name = form.name, !.desc = form.desc, !.mode = form.mode,
              !.access = form.access, !.link = form.link]

PortEditCommit(h) ==
  LET s == sess[h]
  IN /\ s.pc = "edit port"
     /\ Unlocked
     /\ ports' = IF s.pk \in DOMAIN ports
                   THEN [ports EXCEPT ![s.pk] =
                           FlushPort(s.loaded, AfterPortEdit(s.loaded, s.form), @)]
                   ELSE ports
     /\ UNCHANGED <<switches, vlans>>
     /\ Leave(h)

PortDeleteGet(h, i) ==
  /\ Arrives(h, "delete port")
  /\ i \in DOMAIN ports
  /\ Enter(h, [pc |-> "delete port", pk |-> i])

PortDeleteCommit(h) ==
  /\ sess[h].pc = "delete port"
  /\ Unlocked
  /\ ports' = Without(ports, {sess[h].pk})
  /\ UNCHANGED <<switches, vlans>>
  /\ Leave(h)

-----------------------------------------------------------------------------
(* The forms for VLANs.                                                    *)

NoConstraint(i, v) == TRUE  \* mutant: vlan_id is not UNIQUE

(* The UNIQUE constraint when row i, present or to come, is written.       *)
VidFree(i, v) == \A j \in DOMAIN vlans : vlans[j] = v => j = i

VlanAddCheck(h, v) ==
  /\ Arrives(h, "add vlan")
  /\ v \notin Known
  /\ Enter(h, [pc |-> "add vlan", vid |-> v])

VlanAddCommit(h) ==
  LET v == sess[h].vid
  IN /\ sess[h].pc = "add vlan"
     /\ Unlocked
     /\ \E i \in VlanPks :
          /\ IsNextId(vlans, i)
          /\ vlans' = IF VidFree(i, v) THEN Insert(vlans, i, v) ELSE vlans
     /\ UNCHANGED <<switches, ports>>
     /\ Leave(h)

VlanEditCheck(h, i, v) ==
  /\ Arrives(h, "edit vlan")
  /\ i \in DOMAIN vlans
  /\ VidFree(i, v)
  /\ Enter(h, [pc |-> "edit vlan", pk |-> i, loaded |-> vlans[i], vid |-> v])

VlanEditCommit(h) ==
  LET s == sess[h]
      v == Kept(s.loaded, s.vid, vlans[s.pk])
  IN /\ s.pc = "edit vlan"
     /\ Unlocked
     /\ vlans' = IF s.pk \in DOMAIN vlans /\ VidFree(s.pk, v)
                   THEN [vlans EXCEPT ![s.pk] = v]
                   ELSE vlans
     /\ UNCHANGED <<switches, ports>>
     /\ Leave(h)

VlanDeleteGet(h, i) ==
  /\ Arrives(h, "delete vlan")
  /\ i \in DOMAIN vlans
  /\ Enter(h, [pc |-> "delete vlan", pk |-> i])

VlanDeleteCommit(h) ==
  /\ sess[h].pc = "delete vlan"
  /\ Unlocked
  /\ vlans' = Without(vlans, {sess[h].pk})
  /\ UNCHANGED <<switches, ports>>
  /\ Leave(h)

-----------------------------------------------------------------------------
(* The devices.                                                            *)

SwitchEvent(op) ==
  /\ op \in Ops
  /\ events < MaxEvents
  /\ Unlocked
  /\ events' = events + 1
  /\ UNCHANGED <<vlans, sess>>

AddSwitch(d) ==
  /\ SwitchEvent("add switch")
  /\ IsNextId([e \in switches |-> e], d)
  /\ switches' = switches \cup {d}
  /\ UNCHANGED ports

NoCascade(d) == {}  \* mutant: the pragma is not set

(* Device has no relationship to its ports; ON DELETE CASCADE takes them.  *)
Cascade(d) == PortsOf(d)

DeleteSwitch(d) ==
  /\ SwitchEvent("delete switch")
  /\ d \in switches
  /\ switches' = switches \ {d}
  /\ ports' = Without(ports, Cascade(d))

(* A wait for the write lock exceeds the busy timeout: a request that is   *)
(* about to write holds it.                                                *)
Writing(h) == Busy(h) /\ sess[h].pc \notin {"walk", "vlans"}

Abort(h) ==
  /\ Writing(h)
  /\ sess[h].pc # "flushed"
  /\ \E g \in Handlers \ {h} : Writing(g)
  /\ Leave(h)
  /\ UNCHANGED tables

-----------------------------------------------------------------------------
Init ==
  /\ switches = InitSwitches
  /\ vlans = InitVlans
  /\ ports = InitPorts
  /\ sess = [h \in Handlers |-> Idle]
  /\ events = 0

Arrival(h) ==
  \/ \E d \in DevIds : DiscoverGet(h, d)
  \/ \E d \in DevIds, form \in PortForms : PortAddGet(h, d, form)
  \/ \E i \in PortPks : PortDeleteGet(h, i) \/ \E form \in PortForms : PortEditGet(h, i, form)
  \/ \E v \in Vids : VlanAddCheck(h, v)
  \/ \E i \in VlanPks : VlanDeleteGet(h, i) \/ \E v \in Vids : VlanEditCheck(h, i, v)

Discovery(h) ==
  \/ \E scan \in Scans : ReadVlans(h, scan)
  \/ ReadPorts(h)
  \/ DiscoverFlush(h)
  \/ DiscoverRefused(h)
  \/ DiscoverCommit(h)
  \/ Silent(h)

Commit(h) ==
  \/ PortAddCommit(h)
  \/ PortEditCommit(h)
  \/ PortDeleteCommit(h)
  \/ VlanAddCommit(h)
  \/ VlanEditCommit(h)
  \/ VlanDeleteCommit(h)

Next ==
  \/ \E h \in Handlers : Arrival(h) \/ Discovery(h) \/ Commit(h) \/ Abort(h)
  \/ \E d \in DevIds : AddSwitch(d) \/ DeleteSwitch(d)

Spec == Init /\ [][Next]_vars

-----------------------------------------------------------------------------
(* Properties.                                                             *)

(* The tables hold what their columns can hold.                            *)
TypeOK ==
  /\ switches \subseteq DevIds
  /\ DOMAIN vlans \subseteq VlanPks /\ vlans \in [DOMAIN vlans -> Vids]
  /\ DOMAIN ports \subseteq PortPks /\ ports \in [DOMAIN ports -> Port]
  /\ events \in 0 .. MaxEvents
  /\ \A h \in Handlers :
       sess[h].pc \in {"idle", "walk", "vlans", "apply", "flushed"} \cup AllOps

(* No two VLANs have one number, although discoveries and forms look for   *)
(* it in one step and write in another.                                    *)
UniqueVlan == \A i, j \in DOMAIN vlans : i # j => vlans[i] # vlans[j]

(* Every port belongs to a device that exists, even if the device goes     *)
(* while its ports are walked or added.                                    *)
NoOrphanPorts == \A i \in DOMAIN ports : ports[i].device \in switches

(* What the two queries returned still holds.                              *)
Fresh(s) ==
  /\ s.dev \in switches
  /\ s.known = Known
  /\ s.loaded = LoadedPorts(s.dev)

Named(d, name) == {i \in PortsOf(d) : ports[i].name = name}

(* A discovery that nobody interfered with is an upsert: it commits, all   *)
(* it reports is in the tables, with the link it reports and one row per   *)
(* port that had at most one, no description or trunk is touched, nor any  *)
(* port of another switch, although all switches name their ports alike.   *)
UndisturbedUpsert ==
  [][\A h \in Handlers :
       LET s    == sess[h]
           scan == s.scan
           d    == s.dev
       IN s.pc \in {"apply", "flushed"} /\ Fresh(s) =>
            /\ ~DiscoverRefused(h)
            /\ DiscoverCommit(h) =>
                 /\ \A k \in DOMAIN scan.vlans : scan.vlans[k] \in Known'
                 /\ \A k \in DOMAIN scan.ports :
                      LET dp == scan.ports[k]
                      IN (\A m \in DOMAIN scan.ports :
                            m # k => scan.ports[m].name # dp.name)
                         /\ Cardinality(Named(d, dp.name)) <= 1
                           => \E i \in DOMAIN ports' :
                                /\ {j \in DOMAIN ports' : /\ ports'[j].device = d
                                                          /\ ports'[j].name = dp.name}
                                     = {i}
                                /\ ports'[i].link = dp.link
                 /\ \A i \in DOMAIN ports \ PortsOf(d) : ports'[i] = ports[i]
                 /\ \A i \in DOMAIN ports :
                      /\ ports'[i].mode = ports[i].mode
                      /\ ports[i].desc # None => ports'[i].desc = ports[i].desc
                      /\ ports[i].mode = "trunk"
                           => ports'[i].access = ports[i].access]_vars

(* pages.py:327 "without clobbering manual edits": whatever forms, deletes *)
(* and other discoveries commit between its queries and its flush, a       *)
(* discovery renames no port and changes no mode, and takes back neither a *)
(* description nor a VLAN that was set meanwhile, except where it looked   *)
(* too early: a description that was empty, the VLAN of an access port.    *)
DiscoveryKeepsEdits ==
  [][\A h \in Handlers : DiscoverCommit(h) =>
       \A i \in DOMAIN ports :
         LET loaded == sess[h].loaded
             new    == ports'[i]
         IN /\ new.name = ports[i].name /\ new.mode = ports[i].mode
            /\ new.desc # ports[i].desc
                 => i \in DOMAIN loaded /\ loaded[i].desc = None
            /\ new.access # ports[i].access
                 => i \in DOMAIN loaded /\ loaded[i].mode = "access"]_vars

(* pages.py:327 "Upsert": where no port is added by hand, and no switch    *)
(* reports a name twice, a port has one row.                               *)
OneRowPerPort ==
  \A i, j \in DOMAIN ports :
    ports[i].device = ports[j].device /\ ports[i].name = ports[j].name => i = j
=============================================================================
