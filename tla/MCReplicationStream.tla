--------------------------- MODULE MCReplicationStream ---------------------------
(* Small instances of ReplicationStream for TLC. *)
EXTENDS ReplicationStream

CONSTANTS w1, w2

(* One writer has events with state changes, the other's position moves too. *)
StateAndMoves == (w1 :> {"state", "unused"}) @@ (w2 :> {"moved"})
TwoAndOne == (w1 :> 2) @@ (w2 :> 1)
================================================================================
