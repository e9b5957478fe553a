------------------------------ MODULE EventLoop ------------------------------
(***************************************************************************)
(* Who waits for whom: the event loop, the connection pool, SQLite's write *)
(* lock and the worker threads, and the requests and poller steps that     *)
(* need them.                                                              *)
(*                                                                         *)
(* A handler's session is closed by FastAPI in a worker thread, but only   *)
(* after the loop has sent it there.  A transaction that wrote keeps the   *)
(* lock on that way, and a write on the loop that waits for the lock keeps *)
(* the loop from sending anybody: only SQLite's busy timeout ends that.    *)
(***************************************************************************)
EXTENDS Integers, FiniteSets

CONSTANTS
  Polls,     (* async handlers that wait for SNMP, then flush: device_poll,*)
             (* switch_discover.                                           *)
  Looks,     (* async handlers that wait for SNMP and write nothing:       *)
             (* poll_now.                                                  *)
  Forms,     (* sync handlers that flush: devices_create, devices_edit,    *)
             (* create_device, update_device.                              *)
  Puts,      (* sync handlers that write at commit only: devices_delete,   *)
             (* delete_device.                                             *)
  Shells,    (* sync handlers that wait for SSH and write nothing:         *)
             (* device_ssh, ssh_run.                                       *)
  Writes,    (* The poller's transactions on the loop: recompute_insights, *)
             (* the second one of _poll_one.                               *)
  PoolSize,  (* Connections the pool gives out at most.                    *)
  Threads,   (* Handlers run in threads at most.                           *)
  None       (* Nobody.                                                    *)

Requests == Polls \cup Looks \cup Forms \cup Puts \cup Shells \cup Writes

OnLoop   == Polls \cup Looks \cup Writes   \* runs its statements on the loop
InThread == Forms \cup Puts \cup Shells

ASSUME KindsAssumption ==
  /\ IsFiniteSet(Requests)
  /\ Polls \cap (Looks \cup Forms \cup Puts \cup Shells \cup Writes) = {}
  /\ Looks \cap (Forms \cup Puts \cup Shells \cup Writes) = {}
  /\ Forms \cap (Puts \cup Shells \cup Writes) = {}
  /\ Puts \cap (Shells \cup Writes) = {}
  /\ Shells \cap Writes = {}
  /\ None \notin Requests

ASSUME LimitsAssumption == PoolSize \in Nat \ {0} /\ Threads \in Nat \ {0}

VARIABLES
  pc,     (* Where each request is.                                        *)
  conns,  (* Requests whose session has a connection.                      *)
  lock,   (* The request whose transaction has the write lock, or None.    *)
  loop    (* The request a statement of which blocks the loop, or None.    *)

vars == <<pc, conns, lock, loop>>

Ended == {"done", "failed"}

Goto(r, l) == pc' = [pc EXCEPT ![r] = l]

(* Handlers whose body occupies a worker thread.                           *)
Working == {r \in InThread : pc[r] \in {"checkout", "waiting", "flush"}}

-----------------------------------------------------------------------------
AllOnLoop(r) ==  \* mutant: every handler is an async def
  /\ pc[r] = "new"
  /\ loop = None
  /\ Goto(r, "checkout")
  /\ loop' = r
  /\ UNCHANGED <<conns, lock>>

(* The dependencies of a handler are entered in a thread, then its body    *)
(* begins and asks for a connection with its first query.                  *)
Begin(r) ==
  /\ pc[r] = "new"
  /\ loop = None
  /\ r \notin Writes => Cardinality(Working) < Threads
  /\ Goto(r, "checkout")
  /\ loop' = IF r \in OnLoop THEN r ELSE None
  /\ UNCHANGED <<conns, lock>>

(* The first query: the loop is free again once SNMP is awaited.           *)
Checkout(r) ==
  /\ pc[r] = "checkout"
  /\ Cardinality(conns) < PoolSize
  /\ conns' = conns \cup {r}
  /\ Goto(r, CASE r \in Polls \cup Looks \cup Shells -> "waiting"
               [] r \in Forms \cup Writes            -> "flush"
               [] r \in Puts                         -> "returned")
  /\ loop' = IF r \in Polls \cup Looks THEN None ELSE loop
  /\ UNCHANGED lock

(* The device answers a poll, or its timeout ends the wait; the loop goes  *)
(* on with the handler, up to its flush or its end.                        *)
Answer(r) ==
  /\ r \in Polls \cup Looks
  /\ pc[r] = "waiting"
  /\ loop = None
  /\ Goto(r, IF r \in Polls THEN "flush" ELSE "returned")
  /\ loop' = IF r \in Polls THEN r ELSE None
  /\ UNCHANGED <<conns, lock>>

(* run_command returns.                                                    *)
Returned(r) ==
  /\ r \in Shells
  /\ pc[r] = "waiting"
  /\ Goto(r, "returned")
  /\ UNCHANGED <<conns, lock, loop>>

Autocommits(r) ==  \* mutant: no transaction is kept after the flush
  /\ pc[r] = "flush"
  /\ lock = None
  /\ Goto(r, "returned")
  /\ loop' = IF r \in OnLoop THEN None ELSE loop
  /\ UNCHANGED <<conns, lock>>

(* The first INSERT, UPDATE or DELETE takes the lock.  A handler returns   *)
(* with it; a transaction of the poller is committed on the spot.          *)
Flush(r) ==
  /\ pc[r] = "flush"
  /\ lock = None
  /\ IF r \in Writes
       THEN /\ Goto(r, "done")
            /\ conns' = conns \ {r}
            /\ UNCHANGED lock
       ELSE /\ Goto(r, "returned")
            /\ lock' = r
            /\ UNCHANGED conns
  /\ loop' = IF r \in OnLoop THEN None ELSE loop

(* The loop sends the exit of the session to a thread.                     *)
Dispatch(r) ==
  /\ loop = None
  /\ \/ pc[r] = "returned" /\ Goto(r, "commit")
     \/ pc[r] = "raised"   /\ Goto(r, "rollback")
  /\ UNCHANGED <<conns, lock, loop>>

KeepsLock(r) ==  \* mutant: the session is closed without a commit
  /\ pc[r] = "commit"
  /\ r \in Puts => lock = None
  /\ Goto(r, "done")
  /\ conns' = conns \ {r}
  /\ UNCHANGED <<lock, loop>>

(* A commit writes what was not flushed and ends the transaction.          *)
Commit(r) ==
  /\ pc[r] = "commit"
  /\ r \in Puts => lock = None
  /\ Goto(r, "done")
  /\ lock' = IF lock = r THEN None ELSE lock
  /\ conns' = conns \ {r}
  /\ UNCHANGED loop

LeaksConnection(r) ==  \* mutant: the session is not closed after an error
  pc[r] = "rollback" /\ Goto(r, "failed") /\ UNCHANGED <<conns, lock, loop>>

Rollback(r) ==
  /\ pc[r] = "rollback"
  /\ Goto(r, "failed")
  /\ conns' = conns \ {r}
  /\ UNCHANGED <<lock, loop>>

-----------------------------------------------------------------------------
(* Timeouts.  Either may come whenever its wait is on.                     *)

NoTimeout(r) ==  \* mutant: a statement waits for the lock without limit
  FALSE

(* Five seconds without the lock: "database is locked".                    *)
BusyTimeout(r) ==
  /\ lock # None
  /\ \/ /\ pc[r] = "flush" /\ r \notin Writes
        /\ Goto(r, "raised")
        /\ UNCHANGED conns
     \/ /\ \/ pc[r] = "flush"  /\ r \in Writes
           \/ pc[r] = "commit" /\ r \in Puts
        /\ Goto(r, "failed")
        /\ conns' = conns \ {r}
  /\ loop' = IF loop = r THEN None ELSE loop
  /\ UNCHANGED lock

(* Thirty seconds without a connection: QueuePool limit reached.           *)
PoolTimeout(r) ==
  /\ pc[r] = "checkout"
  /\ Cardinality(conns) >= PoolSize
  /\ Goto(r, IF r \in Writes THEN "failed" ELSE "raised")
  /\ loop' = IF loop = r THEN None ELSE loop
  /\ UNCHANGED <<conns, lock>>

-----------------------------------------------------------------------------
Init ==
  /\ pc = [r \in Requests |-> "new"]
  /\ conns = {}
  /\ lock = None
  /\ loop = None

Advance(r) ==
  \/ Begin(r) \/ Checkout(r) \/ Answer(r) \/ Returned(r)
  \/ Flush(r) \/ Dispatch(r) \/ Commit(r) \/ Rollback(r)

Step(r) == Advance(r) \/ BusyTimeout(r) \/ PoolTimeout(r)

Next == \E r \in Requests : Step(r)

(* The loop runs every callback that is ready, threads are scheduled, SNMP *)
(* and SSH waits are limited in time, and so are the two timeouts.         *)
Fairness == \A r \in Requests : WF_vars(Step(r))

Spec == Init /\ [][Next]_vars /\ Fairness

-----------------------------------------------------------------------------
(* Properties.                                                             *)

TypeOK ==
  /\ pc \in [Requests -> {"new", "checkout", "waiting", "flush", "returned",
                          "commit", "raised", "rollback"} \cup Ended]
  /\ conns \subseteq Requests
  /\ lock \in Requests \cup {None}
  /\ loop \in OnLoop \cup {None}

Flushed == {r \in Polls \cup Forms : pc[r] \in {"returned", "commit"}}

(* Two requests never both have uncommitted rows: the write lock, taken at *)
(* the flush, is kept through the way back over the loop to the commit.    *)
OneWriter ==
  /\ \A r \in Flushed : lock = r
  /\ lock # None => lock \in Flushed /\ lock \in conns

(* However a request ends (a commit, a rollback, the busy timeout, the     *)
(* pool's), it leaves no connection, no lock and no blocked loop behind.   *)
AllGivenBack ==
  \A r \in Requests :
    pc[r] \in Ended => r \notin conns /\ lock # r /\ loop # r

CanGoOn(r) ==
  \/ pc[r] = "new" /\ (r \in Writes \/ Cardinality(Working) < Threads)
  \/ pc[r] \in {"waiting", "returned", "raised", "rollback"}
  \/ pc[r] = "checkout" /\ Cardinality(conns) < PoolSize
  \/ pc[r] = "flush" /\ lock = None
  \/ pc[r] = "commit" /\ (r \in Puts => lock = None)

(* Threads, connections and the lock alone never deadlock, however few     *)
(* there are: as long as the loop is free, somebody can go on without the  *)
(* help of a timeout.                                                      *)
ThreadsGoOn ==
  loop = None /\ (\E r \in Requests : pc[r] \notin Ended)
    => \E r \in Requests : pc[r] \notin Ended /\ CanGoOn(r)

(* A write blocked on the loop and the lock's owner, who needs the loop to *)
(* commit (pages.py:278), wait for each other, but not for ever.           *)
EveryRequestEnds == \A r \in Requests : <>(pc[r] \in Ended)

(* It is the blocked write that gives up: what was flushed is committed.   *)
OwnerCommits == \A r \in Polls \cup Forms : lock = r ~> pc[r] = "done"
=============================================================================
