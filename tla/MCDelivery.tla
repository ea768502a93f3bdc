------------------------------- MODULE MCDelivery -------------------------------
(***************************************************************************)
(* Small instances of delayed events and application services.  A          *)
(* behaviour is about the one that focus names from the start, the other   *)
(* stays in its initial state.                                             *)
(***************************************************************************)
EXTENDS Delivery

CONSTANTS
    rq, bg,         \* a client's request and a background process
    svc             \* an application service

VARIABLE focus

asVars == <<lastEvent, pos, poller, started, queue, sender, state, txns, lastTxn, failing,
            recoverer, raising, delivered, stranded, disturbed, spent>>

(* Two users have delayed events for the same piece of state. *)
Delays == <<1, 2>>
SameKey == <<"k", "k">>
TwoOwners == <<"u", "v">>

ASSUME DeAssumption == EventsAssumption

ASSUME AsAssumption == AS!SchedulerAssumption

------------------------------------------------------------------------------
DeliveryInit ==
    /\ focus \in {"application services", "delayed events"}
    /\ Init
    /\ AS!Init

DeliveryNext ==
    \/ /\ focus = "delayed events"
       /\ Next
       /\ UNCHANGED <<focus, asVars>>
    \/ /\ focus = "application services"
       /\ AS!Next
       /\ UNCHANGED <<focus, vars>>

(* The fairness of the component in focus, see the modules. *)
DeFairness ==
    /\ \A c \in Clients \cup Senders : WF_vars(focus = "delayed events" /\ ProcStep(c))
    /\ WF_vars(focus = "delayed events" /\ \E c \in Senders : TimerFires(c))
    /\ WF_vars(focus = "delayed events" /\ \E c \in Senders : InitialTimeout(c))
    /\ WF_vars(focus = "delayed events" /\ WatchStep)
    /\ WF_vars(focus = "delayed events" /\ NotifyNewEvent)
    /\ WF_vars(focus = "delayed events" /\ Unprocess)
    /\ WF_vars(focus = "delayed events" /\ Tick)

FairDelivery ==
    /\ DeliveryInit /\ [][DeliveryNext]_<<focus, vars, asVars>>
    /\ DeFairness
    /\ WF_asVars(focus = "application services" /\ AS!Step)

==============================================================================
