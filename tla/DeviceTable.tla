----------------------------- MODULE DeviceTable -----------------------------
(***************************************************************************)
(* What the device inventory promises, whatever runs concurrently: the     *)
(* database goes from one state to the next by one of five transactions.   *)
(* There are no sessions, no stale copies and no poll cycle here;          *)
(* DeviceRegistry implements this module.                                  *)
(*                                                                         *)
(* The type of a device is left out: operators set it and the poller       *)
(* infers it.                                                              *)
(***************************************************************************)
EXTENDS Integers, Functions

CONSTANTS
  Ids,         (* Ids devices can have.                                    *)
  SampleIds,   (* Ids samples can have.                                    *)
  Configs,     (* What the operator configures: records with an addr.      *)
  Readings,    (* What polling learns.                                     *)
  Unpolled,    (* The reading of a device that was never polled.           *)
  InitConfig,  (* The devices at start-up,                                 *)
  InitReading  (* and what is known of them.                               *)

VARIABLES
  config,   (* Device -> what the operator configured.                     *)
  reading,  (* Device -> what polling learnt.                              *)
  owner,    (* Sample -> the device it was taken of.                       *)
  about     (* Insight -> the device it is about.                          *)

vars == <<config, reading, owner, about>>

Init ==
  /\ config = InitConfig
  /\ reading = InitReading
  /\ owner = [i \in {} |-> Unpolled]
  /\ about = [i \in {} |-> Unpolled]

Extend(f, x, y) == [z \in DOMAIN f \cup {x} |-> IF z = x THEN y ELSE f[z]]
Unused(addr, d) == \A e \in DOMAIN config \ {d} : config[e].addr # addr

(* A new device has an address nobody has and no history.                  *)
Create(d, c) ==
  /\ d \notin DOMAIN config
  /\ Unused(c.addr, d)
  /\ config' = Extend(config, d, c)
  /\ reading' = Extend(reading, d, Unpolled)
  /\ UNCHANGED <<owner, about>>

(* The operator's columns change, what polling learnt does not.            *)
Reconfigure(d, c) ==
  /\ d \in DOMAIN config
  /\ Unused(c.addr, d)
  /\ config' = [config EXCEPT ![d] = c]
  /\ UNCHANGED <<reading, owner, about>>

(* What polling learnt changes, with one more sample or (a discovery) none.*)
Record(d, r) ==
  /\ d \in DOMAIN config
  /\ reading' = [reading EXCEPT ![d] = r]
  /\ \/ \E n \in SampleIds \ DOMAIN owner : owner' = Extend(owner, n, d)
     \/ UNCHANGED owner
  /\ UNCHANGED <<config, about>>

(* A device goes with all its samples and insights.  It may take rows of   *)
(* other devices along: ids loaded before the delete may have been reused. *)
Delete(d) ==
  /\ config' = Restrict(config, DOMAIN config \ {d})
  /\ reading' = Restrict(reading, DOMAIN reading \ {d})
  /\ DOMAIN owner' \subseteq {i \in DOMAIN owner : owner[i] # d}
  /\ owner' = Restrict(owner, DOMAIN owner')
  /\ DOMAIN about' \subseteq {i \in DOMAIN about : about[i] # d}
  /\ about' = Restrict(about, DOMAIN about')

(* The insights are replaced by others about devices that exist.           *)
Recompute ==
  /\ about' \in [DOMAIN about' -> DOMAIN config]
  /\ UNCHANGED <<config, reading, owner>>

Next ==
  \/ \E d \in Ids, c \in Configs : Create(d, c) \/ Reconfigure(d, c)
  \/ \E d \in Ids, r \in Readings : Record(d, r)
  \/ \E d \in Ids : Delete(d)
  \/ Recompute

Spec == Init /\ [][Next]_vars
=============================================================================
