------------------------- MODULE MCPerDestinationQueue -------------------------
(* Small instances of PerDestinationQueue for TLC. *)
EXTENDS PerDestinationQueue

CONSTANTS a, b

(* Two rooms take turns. *)
Alternating == [e \in Events |-> IF e % 2 = 0 THEN a ELSE b]

(* One room has all events but the last, which is of the other. *)
LastApart == [e \in Events |-> IF e = MaxEvent THEN b ELSE a]

(* The events are handled one after the other: what is lost all the same is
   lost by a restart in the middle of a batch. *)
OneByOne == \A e \in Events : stage[e] # "new" => EarlierIn(e, {"handled"})

(* NoLoss says nothing once events have overtaken each other. *)
Undisturbed == inOrder

(* Bound: a failed run of the loop or a crash, not both. *)
OneFault == faults.failures + faults.crashes <= 1
================================================================================
