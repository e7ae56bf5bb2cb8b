----------------------------- MODULE Supervisor -----------------------------
(***************************************************************************)
(* TaskSupervisor (musicfs-core/src/supervisor.rs).                        *)
(*                                                                         *)
(* spawn_critical starts a monitor, a task that runs the named task and    *)
(* starts it again when it panics, and only then enters the name in the    *)
(* table.  From then on the monitor writes to whatever entry has the name, *)
(* while anybody asks for the status.                                      *)
(***************************************************************************)
EXTENDS Maps, Integers, FiniteSets

CONSTANTS
    Names,
    Spawns,          \* the calls of spawn_critical and spawn_supervised
    max_restarts

ASSUME SupervisorAssumption == max_restarts \in Nat

VARIABLES
    tasks,     \* name to entry: whose handle it has, status, restarts
    spawn,     \* of each call: where the caller is, the name, where the
               \*   spawned task is, and its restarts
    told       \* history: the last answer of task_status, of whose task, and
               \*   where that was then

supervisorVars == <<tasks, spawn, told>>

NotYet == [caller |-> "none", at |-> "none"]
Nothing == [status |-> "none"]

SupervisorInit ==
    /\ tasks = EmptyMap
    /\ spawn = [s \in Spawns |-> NotYet]
    /\ told = Nothing

Entry(s) == [handle |-> s, status |-> "Running", restart_count |-> 0]

\* JoinHandle::is_finished.
Finished(s) == spawn[s].at = "finished"

SetStatus(name, status) ==
    IF name \in DOMAIN tasks THEN [tasks EXCEPT ![name].status = status] ELSE tasks

Moves(s, at) == spawn' = [spawn EXCEPT ![s].at = at]

----------------------------------------------------------------------------
(* The caller: the task first, the entry after.                            *)

\* A critical task has a monitor, which begins with "start"; a supervised one
\* just runs.
SpawnTask(s, name, first) ==
    /\ spawn[s] = NotYet
    /\ spawn' = [spawn EXCEPT ![s] = [caller |-> "inserts", name |-> name, at |-> first,
                                      restarts |-> 0]]
    /\ UNCHANGED <<tasks, told>>

\* The monitor has found the task returned or panicked, and would have
\* written so; whether it had when the entry was made is kept as history.
Spoken(s) == spawn[s].at \in {"backoff", "leaves", "finished"}

InsertEntry(s) ==
    /\ spawn[s].caller = "inserts"
    /\ tasks' = Insert(tasks, spawn[s].name, Entry(s))
    /\ spawn' = [spawn EXCEPT ![s].caller = IF Spoken(s) THEN "late" ELSE "done"]
    /\ UNCHANGED told

----------------------------------------------------------------------------
(* The monitor.                                                            *)

\* A mutant: the status is that of before the restart.
MonitorStartsSilently(s) ==
    /\ spawn[s].at = "start"
    /\ Moves(s, "runs")
    /\ UNCHANGED <<tasks, told>>

MonitorStarts(s) ==
    /\ spawn[s].at = "start"
    /\ tasks' = SetStatus(spawn[s].name, "Running")
    /\ Moves(s, "runs")
    /\ UNCHANGED told

\* The task the monitor waits for returns or panics; the monitor sees it after.
TaskStops(s) ==
    /\ spawn[s].at = "runs"
    /\ Moves(s, "returned") \/ Moves(s, "panicked")
    /\ UNCHANGED <<tasks, told>>

SeesReturn(s) ==
    /\ spawn[s].at = "returned"
    /\ tasks' = SetStatus(spawn[s].name, "Stopped")
    /\ Moves(s, "leaves")
    /\ UNCHANGED told

GivesUp(s) == spawn[s].restarts = max_restarts

SeesPanic(s) ==
    /\ spawn[s].at = "panicked"
    /\ IF GivesUp(s)
       THEN /\ tasks' = SetStatus(spawn[s].name, "Failed")
            /\ Moves(s, "leaves")
       ELSE /\ tasks' = IF spawn[s].name \in DOMAIN tasks
                        THEN [tasks EXCEPT ![spawn[s].name].status = "Restarting",
                                           ![spawn[s].name].restart_count = spawn[s].restarts + 1]
                        ELSE tasks
            /\ spawn' = [spawn EXCEPT ![s].at = "backoff", ![s].restarts = @ + 1]
    /\ UNCHANGED told

BackoffEnds(s) ==
    /\ spawn[s].at = "backoff"
    /\ Moves(s, "start")
    /\ UNCHANGED <<tasks, told>>

\* A task without a monitor ends, by returning or by panic; a monitor ends.
TaskEnds(s) ==
    /\ spawn[s].at \in {"alone", "leaves"}
    /\ Moves(s, "finished")
    /\ UNCHANGED <<tasks, told>>

----------------------------------------------------------------------------
(* The questions.                                                          *)

Checked(entry) == IF Finished(entry.handle) THEN [entry EXCEPT !.status = "Failed"] ELSE entry

task_status(name) ==
    /\ name \in DOMAIN tasks
    /\ tasks' = [tasks EXCEPT ![name] = Checked(@)]
    /\ LET s == tasks[name].handle
       IN  told' = [status |-> tasks'[name].status, of |-> s, at |-> spawn[s].at]
    /\ UNCHANGED spawn

check_all ==
    /\ tasks' = [name \in DOMAIN tasks |-> Checked(tasks[name])]
    /\ UNCHANGED <<spawn, told>>

SupervisorNext ==
    \/ \E s \in Spawns, name \in Names : SpawnTask(s, name, "start") \/ SpawnTask(s, name, "alone")
    \/ \E s \in Spawns :
         \/ InsertEntry(s)
         \/ MonitorStarts(s) \/ TaskStops(s) \/ SeesReturn(s) \/ SeesPanic(s)
         \/ BackoffEnds(s) \/ TaskEnds(s)
    \/ \E name \in Names : task_status(name)
    \/ check_all

SupervisorSpec == SupervisorInit /\ [][SupervisorNext]_supervisorVars

----------------------------------------------------------------------------
(* Properties.                                                             *)

\* What may be said of a task by where it is: a restarted one is "Restarting"
\* until the monitor has taken the lock, and one that has returned or panicked
\* runs until the monitor has seen it.
Honest(at) ==
    CASE at \in {"alone", "runs", "returned", "panicked"} -> {"Running"}
      [] at = "start" -> {"Running", "Restarting"}
      [] at = "backoff" -> {"Restarting"}
      [] at = "leaves" -> {"Stopped", "Failed"}
      [] at = "finished" -> {"Failed"}

\* One call only has the name, and its entry was made before the monitor had
\* something to say.
Alone(s) == \A other \in Spawns \ {s} : spawn[other] = NotYet \/ spawn[other].name # spawn[s].name
InTime(s) == spawn[s].caller # "late"

\* Then task_status answers what is so, whoever asks when, and however often
\* the task has panicked and been restarted: the entry follows the monitor
\* step by step, and the handle once that is gone.
StatusIsTrue ==
    told # Nothing /\ Alone(told.of) /\ InTime(told.of) => told.status \in Honest(told.at)

\* Without the two conditions the code does not keep it: an entry made late
\* says "Running" over the monitor's word, and monitors of one name write to
\* the same entry.  No configuration checks it; README.md says how to see it
\* fail.
AnswersAreExact == told # Nothing => told.status \in Honest(told.at)
=============================================================================
