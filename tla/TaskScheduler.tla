------------------------------- MODULE TaskScheduler -------------------------------
(***************************************************************************)
(* Resumable background tasks (util/task_scheduler.py): tasks are rows of  *)
(* the database with a status; one worker launches them, at most Capacity  *)
(* at a time, from a loop that runs every minute and after every end of a  *)
(* task.  The loop reads a list of tasks and launches them one by one, with *)
(* an await for each: the list may be out of date when a task's turn comes.*)
(* What runs is only known in memory; a restart resumes what is ACTIVE.    *)
(***************************************************************************)
EXTENDS Naturals, FiniteSets

CONSTANTS
    Tasks,
    Capacity,       \* MAX_CONCURRENT_RUNNING_TASKS
    MaxFaults       \* bound on the failed updates and the restarts

VARIABLES
    status,         \* scheduled_tasks; "none" is no row
    registered,     \* tasks whose action has a function (_actions)
    due,            \* tasks whose timestamp has passed
    running,        \* _running_tasks
    stage,          \* of the tasks that run: "marking", "running" or "ending"
    launch,         \* the launching loop: where it is and the tasks left on its list
    deleting,       \* tasks that delete_task found not to be ACTIVE
    leaked,         \* history: tasks in running that nothing will take out
    overtaken,      \* history: tasks that ended while the loop had them on its list
    faults

vars == <<status, registered, due, running, stage, launch, deleting, leaked, overtaken, faults>>

Ended == {"COMPLETE", "FAILED"}
IdleLaunch == [at |-> "idle", list |-> {}]

Init ==
    /\ status = [t \in Tasks |-> "new"]
    /\ registered \in SUBSET Tasks
    /\ due = {}
    /\ running = {}
    /\ stage = [t \in Tasks |-> "none"]
    /\ launch = IdleLaunch
    /\ deleting = {}
    /\ leaked = {}
    /\ overtaken = {}
    /\ faults = 0

Fault ==
    /\ faults < MaxFaults
    /\ faults' = faults + 1

Full == Cardinality(running) >= Capacity

(* update_scheduled_task: a row that is gone is not updated. *)
Update(t, s) == status' = [status EXCEPT ![t] = IF @ = "none" THEN @ ELSE s]
------------------------------------------------------------------------------
(* register_action, when the handler that has the action is set up. *)
RegisterAction(t) ==
    /\ t \notin registered
    /\ registered' = registered \cup {t}
    /\ UNCHANGED <<status, due, running, stage, launch, deleting, leaked, overtaken, faults>>

(* schedule_task, for now or for later.  The NEW_ACTIVE_TASK command only   *)
(* hastens the loop.                                                        *)
ScheduleTask(t) ==
    /\ status[t] = "new"
    /\ status' = [status EXCEPT ![t] = "SCHEDULED"]
    /\ due' \in {due, due \cup {t}}
    /\ UNCHANGED <<registered, running, stage, launch, deleting, leaked, overtaken, faults>>

TimeComes(t) ==
    /\ status[t] = "SCHEDULED"
    /\ t \notin due
    /\ due' = due \cup {t}
    /\ UNCHANGED <<status, registered, running, stage, launch, deleting, leaked, overtaken, faults>>

(* delete_task: the check and, an await later, the DELETE. *)
CheckDelete(t) ==
    /\ status[t] \in {"SCHEDULED"} \cup Ended
    /\ t \notin deleting
    /\ deleting' = deleting \cup {t}
    /\ UNCHANGED <<status, registered, due, running, stage, launch, leaked, overtaken, faults>>

DeleteTask(t) ==
    /\ t \in deleting
    /\ deleting' = deleting \ {t}
    /\ status' = [status EXCEPT ![t] = "none"]
    /\ UNCHANGED <<registered, due, running, stage, launch, leaked, overtaken, faults>>

(* _clean_scheduled_tasks, a week after the end. *)
CleanTask(t) ==
    /\ status[t] \in Ended
    /\ t \notin running
    /\ status' = [status EXCEPT ![t] = "none"]
    /\ UNCHANGED <<registered, due, running, stage, launch, deleting, leaked, overtaken, faults>>
------------------------------------------------------------------------------
(* _launch_scheduled_tasks *)

LaunchTasks ==
    /\ launch.at = "idle"
    /\ ~Full
    /\ launch' = [IdleLaunch EXCEPT !.at = "active"]
    /\ UNCHANGED <<status, registered, due, running, stage, deleting, leaked, overtaken, faults>>

(* get_tasks with its limit; which come first is a matter of timestamps. *)
Listed(from) == {l \in SUBSET from : /\ Cardinality(l) <= Capacity
                                     /\ Cardinality(l) < Capacity => l = from}

(* Deviation: what was ACTIVE before a restart is not resumed. *)
ReadNone ==
    /\ launch.at = "active"
    /\ launch' = [at |-> "resume", list |-> {}]
    /\ UNCHANGED <<status, registered, due, running, stage, deleting, leaked, overtaken, faults>>

(* Deviation: failed tasks are on the list too. *)
ReadActiveOrFailed ==
    /\ launch.at = "active"
    /\ \E l \in Listed({t \in Tasks : status[t] \in {"ACTIVE", "FAILED"}}) :
         launch' = [at |-> "resume", list |-> l]
    /\ UNCHANGED <<status, registered, due, running, stage, deleting, leaked, overtaken, faults>>

ReadActive ==
    /\ launch.at = "active"
    /\ \E l \in Listed({t \in Tasks : status[t] = "ACTIVE"}) :
         launch' = [at |-> "resume", list |-> l]
    /\ UNCHANGED <<status, registered, due, running, stage, deleting, leaked, overtaken, faults>>

ReadScheduled ==
    /\ launch.at = "resume" /\ launch.list = {}
    /\ \E l \in Listed({t \in due : status[t] = "SCHEDULED"}) :
         launch' = [at |-> "start", list |-> l]
    /\ UNCHANGED <<status, registered, due, running, stage, deleting, leaked, overtaken, faults>>

EndLaunch ==
    /\ launch.at = "start" /\ launch.list = {}
    /\ launch' = IdleLaunch
    /\ UNCHANGED <<status, registered, due, running, stage, deleting, leaked, overtaken, faults>>

Marking == {t \in Tasks : stage[t] = "marking"}

CanLaunch(t) == ~Full /\ t \notin running

(* _launch_task for the next of the list, once the one before is launched.  *)
(* If its action has no function it raises, which ends the loop.            *)
LaunchTask(t) ==
    /\ launch.at \in {"resume", "start"}
    /\ t \in launch.list
    /\ Marking = {}
    /\ launch' = IF t \in registered THEN [launch EXCEPT !.list = @ \ {t}] ELSE IdleLaunch
    /\ IF t \in registered /\ CanLaunch(t)
         THEN /\ running' = running \cup {t}
              /\ stage' = [stage EXCEPT ![t] = "marking"]
         ELSE UNCHANGED <<running, stage>>
    /\ UNCHANGED <<status, registered, due, deleting, leaked, overtaken, faults>>

(* update_task(status=ACTIVE), then the task runs. *)
MarkActive(t) ==
    /\ stage[t] = "marking"
    /\ Update(t, "ACTIVE")
    /\ stage' = [stage EXCEPT ![t] = "running"]
    /\ UNCHANGED <<registered, due, running, launch, deleting, leaked, overtaken, faults>>

(* The update raises: the loop ends, the task stays in running.             *)
MarkFails(t) ==
    /\ stage[t] = "marking"
    /\ Fault
    /\ launch' = IdleLaunch
    /\ stage' = [stage EXCEPT ![t] = "none"]
    /\ leaked' = leaked \cup {t}
    /\ UNCHANGED <<status, registered, due, running, deleting, overtaken>>
------------------------------------------------------------------------------
(* wrapper *)

FunctionEnds(t) ==
    /\ stage[t] = "running"
    /\ stage' = [stage EXCEPT ![t] = "ending"]
    /\ UNCHANGED <<status, registered, due, running, launch, deleting, leaked, overtaken, faults>>

(* The outcome is written, and the place in the pool is free.  No function  *)
(* of the repository returns another status than these two.                 *)
Finish(t, s) ==
    /\ stage[t] = "ending"
    /\ s \in Ended
    /\ Update(t, s)
    /\ stage' = [stage EXCEPT ![t] = "none"]
    /\ running' = running \ {t}
    /\ overtaken' = overtaken \cup ({t} \cap launch.list)
    /\ UNCHANGED <<registered, due, launch, deleting, leaked, faults>>

FinishFails(t) ==
    /\ stage[t] = "ending"
    /\ Fault
    /\ stage' = [stage EXCEPT ![t] = "none"]
    /\ leaked' = leaked \cup {t}
    /\ UNCHANGED <<status, registered, due, running, launch, deleting, overtaken>>

Restart ==
    /\ Fault
    /\ registered' \in SUBSET Tasks
    /\ running' = {}
    /\ stage' = [t \in Tasks |-> "none"]
    /\ launch' = IdleLaunch
    /\ deleting' = {}
    /\ leaked' = {}
    /\ UNCHANGED <<status, due, overtaken>>

LoopStep ==
    \/ LaunchTasks \/ ReadActive \/ ReadScheduled \/ EndLaunch
    \/ \E t \in Tasks : LaunchTask(t)
TaskStep(t) == MarkActive(t) \/ FunctionEnds(t) \/ (\E s \in Ended : Finish(t, s))

Next ==
    \/ \E t \in Tasks : \/ RegisterAction(t) \/ ScheduleTask(t) \/ TimeComes(t)
                        \/ CheckDelete(t) \/ DeleteTask(t) \/ CleanTask(t)
                        \/ TaskStep(t) \/ MarkFails(t) \/ FinishFails(t)
    \/ LoopStep
    \/ Restart

Spec == Init /\ [][Next]_vars

(* Time passes, the loop runs every minute, and tasks end. *)
Fairness ==
    /\ WF_vars(LoopStep)
    /\ \A t \in Tasks : WF_vars(TimeComes(t)) /\ WF_vars(TaskStep(t))
------------------------------------------------------------------------------
(* Types of the variables (TaskScheduler and the scheduled_tasks table). *)
TypeOK ==
    /\ status \in [Tasks -> {"new", "none", "SCHEDULED", "ACTIVE"} \cup Ended]
    /\ stage \in [Tasks -> {"none", "marking", "running", "ending"}]
    /\ running = leaked \cup {t \in Tasks : stage[t] # "none"}
    /\ launch.at \in {"idle", "active", "resume", "start"} /\ launch.list \subseteq Tasks
    /\ registered \cup due \cup deleting \cup leaked \cup overtaken \subseteq Tasks
    /\ faults \in 0 .. MaxFaults

(* No more tasks run than the limit, although the check is made before the  *)
(* awaits of the loop and tasks end and start meanwhile ("Only 10 tasks can *)
(* run at the same time").                                                  *)
WithinCapacity == Cardinality(running) <= Capacity

(* "`COMPLETE` and `FAILED` are terminal statuses" (update_task): a task    *)
(* that ended does not become ACTIVE again, unless it ended while the loop  *)
(* had it on its list.                                                      *)
EndIsFinal ==
    [][\A t \in Tasks \ overtaken : status[t] \in Ended => status'[t] \in {status[t], "none"}]_vars

(* The same without the exception. *)
EndIsFinalAlways ==
    [][\A t \in Tasks : status[t] \in Ended => status'[t] \in {status[t], "none"}]_vars

(* A task without a function waits for its turn: each run of the loop that  *)
(* comes to it ends there, and no task after it is launched.                *)
Blocked == \E t \in Tasks \ registered : status[t] \in {"SCHEDULED", "ACTIVE"}

(* A scheduled task ends or is deleted, through a full pool, lost commands  *)
(* and restarts, as long as no failed update keeps a place in the pool and  *)
(* the tasks that are there have functions.                                 *)
EveryTaskEnds ==
    \A t \in Tasks :
        (status[t] \in {"SCHEDULED", "ACTIVE"})
            ~> (status[t] \in {"none"} \cup Ended \/ leaked # {} \/ Blocked)
==============================================================================
