----------------------------- MODULE MCEventLoop -----------------------------
(***************************************************************************)
(* A small instance of EventLoop: one request of every kind, two of which  *)
(* hold the lock on their way back; a pool and a set of threads that run   *)
(* out.                                                                    *)
(***************************************************************************)
EXTENDS EventLoop, TLC

CONSTANTS p1, l1, f1, u1, s1, w1

=============================================================================
