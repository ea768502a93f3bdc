----------------------------- MODULE MCWorkerLocks -----------------------------
(* Small instances of WorkerLocks for TLC. *)
EXTENDS WorkerLocks, TLC

CONSTANTS p, q, a1, a2, b1

(* Two tasks of process p, one of process q. *)
TwoAndOne == (a1 :> p) @@ (a2 :> p) @@ (b1 :> q)
OneAndOne == (a1 :> p) @@ (b1 :> q)
BothInP == (a1 :> p) @@ (a2 :> p)

(* Exclusive says nothing once either of these has happened. *)
Undisturbed == ~lapsed /\ ~clobbered
================================================================================
