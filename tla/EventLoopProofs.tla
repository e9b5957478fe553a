--------------------------- MODULE EventLoopProofs ---------------------------
(***************************************************************************)
(* The safety properties of EventLoop, for any number of requests of every *)
(* kind, any pool and any number of threads, and what of its liveness does *)
(* not need fairness: steps run out, and somebody has one.                 *)
(***************************************************************************)
EXTENDS EventLoop, Sums, FiniteSetTheorems, TLAPS

(* A connection is held exactly from the first query to the end of the     *)
(* session, except that a request that got none raises without one.        *)
Connected ==
  \A r \in Requests :
    /\ pc[r] \in {"waiting", "flush", "returned", "commit"} => r \in conns
    /\ r \in conns => pc[r] \in {"waiting", "flush", "returned", "commit",
                                 "raised", "rollback"}

(* The loop is blocked by the one request on it that is inside a statement.*)
OneBlocker ==
  \A r \in OnLoop : pc[r] \in {"checkout", "flush"} <=> loop = r

(* Handlers that write nothing before their commit have nothing to flush.  *)
Kinds ==
  \A r \in Requests :
    /\ pc[r] = "waiting" => r \in Polls \cup Looks \cup Shells
    /\ pc[r] = "flush" => r \in Polls \cup Forms \cup Writes
    /\ pc[r] \in {"returned", "commit"} => r \notin Writes

IInv == TypeOK /\ OneWriter /\ Connected /\ OneBlocker /\ Kinds

(* Nothing is held or blocked at the start.                                *)
LEMMA InitInv == Init => IInv
  BY KindsAssumption
  DEF Init, IInv, TypeOK, OneWriter, Flushed, Connected, OneBlocker, Kinds,
      Requests, OnLoop

(* Every step a request takes by itself keeps the books.                   *)
LEMMA AdvanceInv ==
  ASSUME IInv, NEW r \in Requests, Advance(r)
  PROVE  IInv'
<1> USE KindsAssumption DEF IInv, TypeOK, OneWriter, Flushed, Connected,
        OneBlocker, Kinds, Requests, OnLoop, InThread, Goto, Ended
<1>1. CASE Begin(r)
  BY <1>1 DEF Begin
<1>2. CASE Checkout(r)
  BY <1>2 DEF Checkout
<1>3. CASE Answer(r)
  BY <1>3 DEF Answer
<1>4. CASE Returned(r)
  BY <1>4 DEF Returned
<1>5. CASE Flush(r)
  BY <1>5 DEF Flush
<1>6. CASE Dispatch(r)
  BY <1>6 DEF Dispatch
<1>7. CASE Commit(r)
  BY <1>7 DEF Commit
<1>8. CASE Rollback(r)
  BY <1>8 DEF Rollback
<1> QED BY <1>1, <1>2, <1>3, <1>4, <1>5, <1>6, <1>7, <1>8 DEF Advance

(* So do the timeouts.                                                     *)
LEMMA TimeoutInv ==
  ASSUME IInv, NEW r \in Requests, BusyTimeout(r) \/ PoolTimeout(r)
  PROVE  IInv'
<1> USE KindsAssumption DEF IInv, TypeOK, OneWriter, Flushed, Connected,
        OneBlocker, Kinds, Requests, OnLoop, InThread, Goto, Ended
<1>1. CASE BusyTimeout(r)
  BY <1>1 DEF BusyTimeout
<1>2. CASE PoolTimeout(r)
  BY <1>2 DEF PoolTimeout
<1> QED BY <1>1, <1>2

(* The books are kept in every state of every behaviour.                   *)
THEOREM Books == Spec => []IInv
<1>1. IInv /\ [Next]_vars => IInv'
  <2> SUFFICES ASSUME IInv, [Next]_vars PROVE IInv'
    OBVIOUS
  <2>1. CASE Next
    BY <2>1, AdvanceInv, TimeoutInv DEF Next, Step
  <2>2. CASE UNCHANGED vars
    BY <2>2 DEF vars, IInv, TypeOK, OneWriter, Flushed, Connected, OneBlocker,
                Kinds
  <2> QED BY <2>1, <2>2
<1> QED BY <1>1, InitInv, PTL DEF Spec

(* A request is where the code can be, and holds what exists.              *)
THEOREM EventLoopTypes == Spec => []TypeOK
<1>1. IInv => TypeOK
  BY DEF IInv
<1> QED BY <1>1, Books, PTL

(* Two requests never both have uncommitted rows.                          *)
THEOREM WritersExclude == Spec => []OneWriter
<1>1. IInv => OneWriter
  BY DEF IInv
<1> QED BY <1>1, Books, PTL

(* Whatever ended has given back its connection, the lock and the loop.    *)
THEOREM NothingLeaks == Spec => []AllGivenBack
<1>1. IInv => AllGivenBack
  BY KindsAssumption
  DEF IInv, TypeOK, AllGivenBack, Connected, OneWriter, Flushed, OneBlocker, Ended
<1> QED BY <1>1, Books, PTL

-----------------------------------------------------------------------------
(* A set that is full to a limit of at least one is not empty.             *)
LEMMA FullIsInhabited ==
  ASSUME NEW S \in SUBSET Requests, NEW n \in Nat \ {0}, ~(Cardinality(S) < n)
  PROVE  S # {}
<1>1. Cardinality({}) = 0
  BY FS_EmptySet
<1> QED BY <1>1

(* The owner of the lock goes on as soon as the loop is free.              *)
LEMMA OwnerGoesOn ==
  ASSUME IInv, lock # None
  PROVE  \E o \in Requests : pc[o] \notin Ended /\ CanGoOn(o)
<1>1. lock \in Flushed
  BY DEF IInv, OneWriter
<1>2. lock \in Requests /\ lock \notin Puts
  BY <1>1, KindsAssumption DEF Flushed, Requests
<1> QED BY <1>1, <1>2 DEF CanGoOn, Flushed, Ended

(* So does whoever has a connection, or the owner of the lock it waits for.*)
LEMMA HolderGoesOn ==
  ASSUME IInv, NEW c \in conns
  PROVE  \E o \in Requests : pc[o] \notin Ended /\ CanGoOn(o)
<1>1. c \in Requests
  BY DEF IInv, TypeOK
<1>2. pc[c] \in {"waiting", "flush", "returned", "commit", "raised", "rollback"}
  BY <1>1 DEF IInv, Connected
<1>3. CASE lock # None
  BY <1>3, OwnerGoesOn
<1>4. CASE lock = None
  BY <1>1, <1>2, <1>4 DEF CanGoOn, Ended
<1> QED BY <1>3, <1>4

(* And a handler inside a thread, or a holder of what it waits for.        *)
LEMMA WorkerGoesOn ==
  ASSUME IInv, NEW w \in Requests, pc[w] \in {"checkout", "waiting", "flush"}
  PROVE  \E o \in Requests : pc[o] \notin Ended /\ CanGoOn(o)
<1>1. CASE pc[w] = "checkout"
  <2>1. CASE Cardinality(conns) < PoolSize
    BY <1>1, <2>1 DEF CanGoOn, Ended
  <2>2. CASE ~(Cardinality(conns) < PoolSize)
    <3>1. conns # {}
      BY <2>2, FullIsInhabited, LimitsAssumption DEF IInv, TypeOK
    <3> QED BY <3>1, HolderGoesOn
  <2> QED BY <2>1, <2>2
<1>2. CASE pc[w] \in {"waiting", "flush"}
  BY <1>2, HolderGoesOn DEF IInv, Connected
<1> QED BY <1>1, <1>2

(* Threads, connections and the lock alone never deadlock.                 *)
THEOREM NoThreadDeadlock == Spec => []ThreadsGoOn
<1>1. IInv => ThreadsGoOn
  <2> SUFFICES ASSUME IInv, NEW r \in Requests, pc[r] \notin Ended
               PROVE  \E o \in Requests : pc[o] \notin Ended /\ CanGoOn(o)
    BY DEF ThreadsGoOn
  <2>1. CASE pc[r] = "new"
    <3>1. CASE Cardinality(Working) < Threads
      BY <2>1, <3>1 DEF CanGoOn, Ended
    <3>2. CASE ~(Cardinality(Working) < Threads)
      <4>1. Working \in SUBSET Requests
        BY DEF Working, InThread, Requests
      <4>2. PICK w \in Working : TRUE
        BY <3>2, <4>1, FullIsInhabited, LimitsAssumption
      <4> QED BY <4>1, <4>2, WorkerGoesOn DEF Working
    <3> QED BY <3>1, <3>2
  <2>2. CASE pc[r] \in {"checkout", "waiting", "flush"}
    BY <2>2, WorkerGoesOn
  <2>3. CASE pc[r] \in {"returned", "raised", "rollback"}
    BY <2>3 DEF CanGoOn, Ended
  <2>4. CASE pc[r] = "commit"
    <3>1. CASE lock # None
      BY <3>1, OwnerGoesOn
    <3>2. CASE lock = None
      BY <2>4, <3>2 DEF CanGoOn, Ended
    <3> QED BY <3>1, <3>2
  <2> QED BY <2>1, <2>2, <2>3, <2>4 DEF IInv, TypeOK
<1> QED BY <1>1, Books, PTL

-----------------------------------------------------------------------------
(* What is left of the liveness properties when fairness is taken away.    *)

(* Steps a request can still take at most.                                 *)
Left(l) ==
  CASE l = "new"                       -> 6
    [] l = "checkout"                  -> 5
    [] l = "waiting"                   -> 4
    [] l = "flush"                     -> 3
    [] l \in {"returned", "raised"}    -> 2
    [] l \in {"commit", "rollback"}    -> 1
    [] l \in Ended                     -> 0

LeftOf == [r \in Requests |-> Left(pc[r])]

Remaining == SumOver(LeftOf, Requests)

(* Every step brings one request nearer to its end and moves no other.     *)
LEMMA StepsDescend ==
  ASSUME IInv, NEW r \in Requests, Step(r)
  PROVE  /\ \A q \in Requests \ {r} : pc'[q] = pc[q]
         /\ Left(pc'[r]) \in Nat /\ Left(pc[r]) \in Nat
         /\ Left(pc'[r]) < Left(pc[r])
<1>1. \A l : Goto(r, l) => pc'[r] = l /\ \A q \in Requests \ {r} : pc'[q] = pc[q]
  BY DEF Goto, IInv, TypeOK
<1> USE DEF Left, Ended
<1>2. CASE Begin(r)
  BY <1>1, <1>2 DEF Begin
<1>3. CASE Checkout(r)
  <2>1. r \in Polls \cup Looks \cup Shells \cup Forms \cup Writes \cup Puts
    BY DEF Requests
  <2>2. Goto(r, "waiting") \/ Goto(r, "flush") \/ Goto(r, "returned")
    BY <1>3, <2>1 DEF Checkout
  <2> QED BY <1>1, <1>3, <2>2 DEF Checkout
<1>4. CASE Answer(r)
  BY <1>1, <1>4 DEF Answer
<1>5. CASE Returned(r)
  BY <1>1, <1>5 DEF Returned
<1>6. CASE Flush(r)
  BY <1>1, <1>6 DEF Flush
<1>7. CASE Dispatch(r)
  BY <1>1, <1>7 DEF Dispatch
<1>8. CASE Commit(r)
  BY <1>1, <1>8 DEF Commit
<1>9. CASE Rollback(r)
  BY <1>1, <1>9 DEF Rollback
<1>10. CASE BusyTimeout(r)
  BY <1>1, <1>10 DEF BusyTimeout
<1>11. CASE PoolTimeout(r)
  BY <1>1, <1>11 DEF PoolTimeout
<1> QED BY <1>2, <1>3, <1>4, <1>5, <1>6, <1>7, <1>8, <1>9, <1>10, <1>11
        DEF Step, Advance

(* However requests wait for each other, time out and start over nothing:  *)
(* every step of the service uses one up of a number fixed at the start.   *)
(* There is no livelock, with or without fairness.                         *)
StepsRunOut == [][Remaining' < Remaining]_vars

THEOREM NoLivelock == Spec => StepsRunOut /\ [](Remaining \in Nat)
<1>1. ASSUME IInv
      PROVE  IsFiniteSet(Requests) /\ \A q \in Requests : LeftOf[q] \in Nat
  <2>1. \A q \in Requests : LeftOf[q] \in Nat
    BY <1>1 DEF LeftOf, Left, IInv, TypeOK, Ended
  <2> QED BY <2>1, KindsAssumption
<1>2. ASSUME IInv, NEW r \in Requests, Step(r) PROVE Remaining' < Remaining
  <2>1. \A q \in Requests : LeftOf[q] = Left(pc[q]) /\ LeftOf'[q] = Left(pc'[q])
    BY DEF LeftOf
  <2>2. /\ \A q \in Requests \ {r} : LeftOf'[q] = LeftOf[q]
        /\ LeftOf'[r] < LeftOf[r] /\ LeftOf'[r] \in Nat
    BY <1>2, <2>1, StepsDescend
  <2>3. \A q \in Requests : LeftOf[q] \in Int /\ LeftOf'[q] \in Int
    BY <1>1, <1>2, <2>2
  <2>4. SumOver(LeftOf', Requests) < SumOver(LeftOf, Requests)
    BY <1>1, <1>2, <2>2, <2>3, SumDrops
  <2> QED BY <2>4 DEF Remaining
<1>3. IInv => Remaining \in Nat
  BY <1>1, SumOfNats DEF Remaining
<1>4. IInv /\ [Next]_vars => [Remaining' < Remaining]_vars
  BY <1>2 DEF Next
<1> QED BY <1>3, <1>4, Books, PTL DEF Spec, StepsRunOut

(* What can happen next to a request, without a look at the others: the    *)
(* guards of its steps and of the timeouts of its waits.                   *)
CanStep(r) ==
  \/ pc[r] \in {"checkout", "flush", "commit", "rollback"}
  \/ pc[r] = "waiting" /\ r \in Shells
  \/ pc[r] \in {"new", "waiting", "returned", "raised"} /\ loop = None /\ CanGoOn(r)

(* While a request is left, some request has a step, even when the loop is *)
(* blocked: by the one whose timeout is running.                           *)
SomebodySteps ==
  (\E r \in Requests : pc[r] \notin Ended)
    => \E r \in Requests : pc[r] \notin Ended /\ CanStep(r)

THEOREM NeverStuck == Spec => []SomebodySteps
<1>1. IInv /\ ThreadsGoOn => SomebodySteps
  <2>1. CASE loop = None
    BY <2>1 DEF ThreadsGoOn, SomebodySteps, CanStep, CanGoOn
  <2>2. ASSUME IInv, loop # None PROVE SomebodySteps
    <3>1. loop \in OnLoop /\ loop \in Requests
      BY <2>2 DEF IInv, TypeOK, OnLoop, Requests
    <3>2. pc[loop] \in {"checkout", "flush"}
      BY <2>2, <3>1 DEF IInv, OneBlocker
    <3> QED BY <3>1, <3>2 DEF SomebodySteps, CanStep, Ended
  <2> QED BY <2>1, <2>2
<1> QED BY <1>1, Books, NoThreadDeadlock, PTL

(* What a handler flushed is committed: of the busy timeout and the pool's *)
(* none ever ends the owner of the lock, only those that wait for it.      *)
OwnerIsSafe ==
  [][\A r \in Requests :
       lock = r => pc'[r] \in {"returned", "commit", "done"}]_vars

THEOREM FlushedIsCommitted == Spec => OwnerIsSafe
<1> DEFINE Safe == \A r \in Requests :
                     lock = r => pc'[r] \in {"returned", "commit", "done"}
<1>1. ASSUME IInv, NEW q \in Requests, Step(q) PROVE Safe
  <2> SUFFICES ASSUME NEW r \in Requests, lock = r
               PROVE  pc'[r] \in {"returned", "commit", "done"}
    OBVIOUS
  <2>1. r \in Flushed /\ pc[r] \in {"returned", "commit"} /\ r \notin Puts
    BY <1>1, KindsAssumption DEF IInv, OneWriter, Flushed, Requests
  <2>2. CASE q # r
    BY <1>1, <2>1, <2>2, StepsDescend
  <2>3. CASE q = r
    BY <1>1, <2>1, <2>3
    DEF Step, Advance, Begin, Checkout, Answer, Returned, Flush, Dispatch, Commit,
        Rollback, BusyTimeout, PoolTimeout, Goto, IInv, TypeOK
  <2> QED BY <2>2, <2>3
<1>2. IInv /\ [Next]_vars => [Safe]_vars
  BY <1>1 DEF Next
<1> QED BY <1>2, Books, PTL DEF Spec, OwnerIsSafe
=============================================================================
