------------------------------- MODULE Delivery -------------------------------
(***************************************************************************)
(* What is kept in the database to be sent later: delayed events and       *)
(* transactions for application services.  The two share no state.         *)
(***************************************************************************)
EXTENDS DelayedEvents

CONSTANTS Services, MaxEvent, PerTransaction, MaxFaults, MaxRestarts
VARIABLES lastEvent, pos, poller, started, queue, sender, state, txns, lastTxn, failing,
          recoverer, raising, delivered, stranded, disturbed, spent

AS == INSTANCE AppServiceScheduler WITH stream <- lastEvent

(* Below the poller's position every event is delivered, stored or in memory *)
(* (AppServiceScheduler, set_appservice_last_pos).                           *)
Accounted == AS!Accounted

(* A stored transaction is looked after by somebody (AppServiceScheduler).   *)
LookedAfter == AS!LookedAfter

(* A service gets the events in order (AppServiceScheduler, the recoverer).  *)
InOrder == AS!InOrder

(* Every service gets every event in the end (AppServiceScheduler).          *)
EventsReach == AS!EventsReach
==============================================================================
