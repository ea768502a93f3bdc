---------------------------- MODULE MCEventPersistence ----------------------------
EXTENDS EventPersistence

(* The graphs of three events after the extremities 1 and 2: a chain that   *)
(* follows one of them, branches, merges of branches, and an event without  *)
(* prev events.                                                             *)
RoomGraphs == {<<{}, {}, {1}, {3}, {4}>>, <<{}, {}, {1, 2}, {3}, {1}>>,
               <<{}, {}, {1}, {2}, {3, 4}>>, <<{}, {}, {1}, {1, 2}, {1, 2}>>,
               <<{}, {}, {}, {2, 3}, {4}>>}

FairSpec == Spec /\ Fairness
==============================================================================
