---------------------- MODULE MCMultiWriterIdGenerator ----------------------
(* Small instances of MultiWriterIdGenerator for TLC. *)
EXTENDS MultiWriterIdGenerator, TLC

CONSTANTS w1, w2, r, t1, t2, t3

(* Two threads in w1 race each other; one in w2 races with them. *)
TwoAndOne == (t1 :> w1) @@ (t2 :> w1) @@ (t3 :> w2)
OneAndOne == (t1 :> w1) @@ (t3 :> w2)
OnlyOne == (t1 :> w1) @@ (t2 :> w1)
================================================================================
