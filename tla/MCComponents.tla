------------------------------ MODULE MCComponents ------------------------------
(***************************************************************************)
(* Three components that share no state, checked side by side: the caches, *)
(* the task scheduler and, for its liveness, the stream ID generator.  A   *)
(* behaviour is about one of them, the one that focus names from the       *)
(* start; the others stay in their initial states.                         *)
(***************************************************************************)
EXTENDS Components, TLC

CONSTANTS
    f1, f2,             \* fetches of a cached function
    s1, s2,             \* scheduled tasks
    w1, w2, t1, t2      \* two writers of a stream with one thread each

VARIABLES
    focus,
    idSeq, idRows, idTable, idGen, idPc, idWant, idIds, idPos, idAnnounced, idHeard,
    idOrderly, idFailures, idRestarts

tsVars == <<status, registered, due, running, stage, launch, deleting, leaked, overtaken, faults>>
idVars == <<idSeq, idRows, idTable, idGen, idPc, idWant, idIds, idPos, idAnnounced, idHeard,
            idOrderly, idFailures, idRestarts>>

ASSUME DcAssumption == KeysAssumption

IdWriters == {w1, w2}
IdThreads == {t1, t2}
IdHomeOf == (t1 :> w1) @@ (t2 :> w2)

(* The tasks with places for all of them (TS), and with one place. *)
OnePlace == INSTANCE TaskScheduler WITH Capacity <- 1

(* A new server, one failed fetch. *)
ID == INSTANCE MultiWriterIdGenerator WITH
        Writers <- IdWriters, Instances <- IdWriters, Threads <- IdThreads,
        HomeOf <- IdHomeOf, InitialEntry <- 0,
        MaxId <- 3, MaxBatch <- 1, MaxFailures <- 1, MaxRestarts <- 0,
        seq <- idSeq, rows <- idRows, table <- idTable, gen <- idGen, pc <- idPc,
        want <- idWant, ids <- idIds, pos <- idPos, announced <- idAnnounced,
        heard <- idHeard, orderly <- idOrderly, failures <- idFailures, restarts <- idRestarts

------------------------------------------------------------------------------
ComponentsInit ==
    /\ focus \in {"caches", "tasks", "onePlace", "ids"}
    /\ Init
    /\ TS!Init
    /\ focus \in {"caches", "ids"} => registered = {}
    /\ ID!Init

ComponentsNext ==
    \/ /\ focus = "caches"
       /\ Next
       /\ UNCHANGED <<focus, tsVars, idVars>>
    \/ /\ focus = "tasks"
       /\ TS!Next
       /\ UNCHANGED <<focus, vars, idVars>>
    \/ /\ focus = "onePlace"
       /\ OnePlace!Next
       /\ UNCHANGED <<focus, vars, idVars>>
    \/ /\ focus = "ids"
       /\ ID!Next
       /\ UNCHANGED <<focus, vars, tsVars>>

(***************************************************************************)
(* The fairness of the component in focus (see the modules); the caches    *)
(* need none.                                                              *)
(***************************************************************************)
TsFairness ==
    /\ WF_tsVars(focus = "tasks" /\ TS!LoopStep)
    /\ WF_tsVars(focus = "onePlace" /\ OnePlace!LoopStep)
    /\ \A t \in Tasks :
        /\ WF_tsVars(focus = "tasks" /\ TS!TimeComes(t))
        /\ WF_tsVars(focus = "tasks" /\ TS!TaskStep(t))
        /\ WF_tsVars(focus = "onePlace" /\ OnePlace!TimeComes(t))
        /\ WF_tsVars(focus = "onePlace" /\ OnePlace!TaskStep(t))

IdFairness ==
    /\ \A t \in IdThreads : WF_<<idPc, idWant>>(focus = "ids" /\ ID!Moves(t))
    /\ \A i \in IdWriters : /\ WF_idAnnounced(focus = "ids" /\ ID!Announce(i))
                            /\ WF_idHeard(focus = "ids" /\ ID!HearsNew(i))

FairComponents ==
    /\ ComponentsInit /\ [][ComponentsNext]_<<focus, vars, tsVars, idVars>>
    /\ TsFairness /\ IdFairness
------------------------------------------------------------------------------
(* Every committed row becomes visible to every process, although IDs are   *)
(* lost and the other writer may write nothing, unless a failed fetch has   *)
(* left a process behind (MultiWriterIdGenerator).                          *)
RowsEventuallyVisible == ID!RowsEventuallyVisible
==============================================================================
