----------------------------- MODULE Scheduler -----------------------------
(***************************************************************************)
(* The scheduler process.  It hands the tasks of defineSchedule, built as  *)
(* Schedule says, to node-cron, in order, and runs an artisan command,     *)
(* dispatches a job or calls a function at every tick; runs of a task may  *)
(* overlap.  All runs share the process: its queue connection, its         *)
(* database pool, its exit.                                                *)
(*                                                                         *)
(* node-cron and its clock are external: in a minute that matches a task's *)
(* expression the task ticks once, or not at all when the process was too  *)
(* busy to notice; a tick makes a run due, and the run begins a moment     *)
(* later, even if its task was stopped in between.                         *)
(***************************************************************************)
EXTENDS Schedule

CONSTANTS
  Kind,       (* of each task, in the order of definition: "database" (an  *)
              (* artisan db command), "unknown" (no such command), "job"   *)
              (* or "callback"                                             *)
  Chains,     (* Chains[t]: the chains that may define task t               *)
  Instants,   (* the minutes at which the clock is looked at               *)
  MaxTicks,   (* bound: ticks of a task                                    *)
  MaxFailures (* bound: failures of Redis, the database or a callback      *)

Kinds == {"database", "unknown", "job", "callback"}

ASSUME SchedulerAssumption ==
  /\ Kind \in Seq(Kinds)
  /\ \A t \in DOMAIN Kind : Chains[t] \subseteq Seq(Call)
  /\ Instants \subseteq Nat
  /\ MaxTicks \in Nat
  /\ MaxFailures \in Nat

Tasks == DOMAIN Kind

VARIABLES
  chain,      (* the calls that define each task; the source never changes *)
  now,        (* the time                                                  *)
  phase,      (* "defining", "starting", "running", "halted" (start threw, *)
              (* the process lives on), "stopping" or "exited"             *)
  exitCode,   (* what the process exits with, or has exited with           *)
  ticking,    (* tasks that node-cron ticks                                *)
  queue,      (* the queue connection: "none", "open" or "closed"          *)
  pool,       (* the database pool: "open" or "destroyed"                  *)
  runs,       (* number of runs of each task at each stage                 *)
  failed,     (* failed runs of each task                                  *)
  enqueued,   (* jobs in Redis made by each task                           *)
  ticks,      (* how often each task has ticked                            *)
  failures    (* counts towards the bound                                  *)

runVars == <<runs, failed, enqueued, ticks, failures>>

vars == <<chain, now, phase, exitCode, ticking, queue, pool, runVars>>

(* A run is due, works, and a database command then destroys the pool.     *)
Stages == {"due", "working", "destroying"}

NoRuns == [t \in Tasks |-> [s \in Stages |-> 0]]

NoTicks == [t \in Tasks |-> 0]

Init ==
  /\ chain \in {d \in [Tasks -> UNION {Chains[t] : t \in Tasks}] :
                  \A t \in Tasks : d[t] \in Chains[t]}
  /\ now = 0
  /\ phase = "defining"
  /\ exitCode = 0
  /\ ticking = {}
  /\ queue = "none"
  /\ pool = "open"
  /\ runs = NoRuns
  /\ failed = [t \in Tasks |-> 0]
  /\ enqueued = [t \in Tasks |-> 0]
  /\ ticks = NoTicks
  /\ failures = 0

-----------------------------------------------------------------------------

(* createScheduler: defineSchedule makes all the calls; if none throws,    *)
(* the scheduler and its queue connection come into being.  Otherwise      *)
(* nothing keeps the process alive.                                        *)
Define ==
  /\ phase = "defining"
  /\ \/ /\ \A t \in Tasks : ~Throws(chain[t])
        /\ phase' = "starting" /\ queue' = "open"
        /\ UNCHANGED exitCode
     \/ /\ \E t \in Tasks : Throws(chain[t])
        /\ phase' = "exited" /\ exitCode' = 1
        /\ UNCHANGED queue
  /\ UNCHANGED <<chain, now, ticking, pool, runVars>>

(* cron.schedule is called for one task after the other until one throws.  *)
RegisteredUpToInvalid ==
  {t \in Tasks : \A u \in 1..t : ~Missing(chain[u]) /\ ~Refused(chain[u])}

(* Variant: a frequency is missed only when its task is registered.        *)
RegisteredLazily == RegisteredUpToInvalid

(* schedule.tasks() throws first if any task has no frequency.             *)
Registered ==
  {t \in RegisteredUpToInvalid : \A u \in Tasks : ~Missing(chain[u])}

(* start() and, unless it throws, the signal handlers.  The connection to  *)
(* Redis keeps a process alive whose start threw.                          *)
Start ==
  /\ phase = "starting"
  /\ ticking' = Registered
  /\ \/ Registered = Tasks /\ phase' = "running" /\ UNCHANGED exitCode
     \/ Registered # Tasks /\ phase' = "halted" /\ exitCode' = 1
  /\ UNCHANGED <<chain, now, queue, pool, runVars>>

Alive == phase \in {"running", "halted", "stopping"}

(* The clock goes on to a later instant; of the tasks due in that minute,  *)
(* those in "noticed" tick.                                                *)
Tick ==
  /\ Alive
  /\ \E minute \in Instants, noticed \in SUBSET ticking :
       /\ minute > now
       /\ now' = minute
       /\ \A t \in noticed : Due(chain[t], minute)
       /\ \A t \in noticed : ticks[t] < MaxTicks
       /\ ticks' = [t \in Tasks |->
                      IF t \in noticed THEN ticks[t] + 1 ELSE ticks[t]]
       /\ runs' = [t \in Tasks |->
                     IF t \in noticed
                     THEN [runs[t] EXCEPT !["due"] = @ + 1]
                     ELSE runs[t]]
  /\ UNCHANGED <<chain, phase, exitCode, ticking, queue, pool, failed,
                 enqueued, failures>>

-----------------------------------------------------------------------------
(* runTask.                                                                *)

Moves(t, from, to) ==
  /\ Alive
  /\ runs[t][from] > 0
  /\ runs' = [runs EXCEPT ![t][from] = @ - 1, ![t][to] = @ + 1]
  /\ UNCHANGED <<chain, now, phase, ticking, queue, ticks>>

Ends(t, from) ==
  /\ Alive
  /\ runs[t][from] > 0
  /\ runs' = [runs EXCEPT ![t][from] = @ - 1]
  /\ UNCHANGED <<chain, now, phase, ticking, queue, ticks>>

Fails(t) == failed' = [failed EXCEPT ![t] = @ + 1]

Outage == failures < MaxFailures /\ failures' = failures + 1

(* The exit of the process ends every run in it.                           *)
ExitWith(code) ==
  /\ phase' = "exited"
  /\ exitCode' = code
  /\ ticking' = {}
  /\ runs' = NoRuns
  /\ UNCHANGED <<chain, now, pool, failed, enqueued, ticks>>

Begin(t) ==
  /\ Kind[t] # "unknown"
  /\ Moves(t, "due", "working")
  /\ UNCHANGED <<exitCode, pool, failed, enqueued, failures>>

(* commander reports an unknown command and exits the process.             *)
UnknownCommand(t) ==
  /\ Kind[t] = "unknown"
  /\ Alive
  /\ runs[t]["due"] > 0
  /\ ExitWith(1)
  /\ UNCHANGED <<queue, failures>>

(* The command's statements; without a pool none can be made.              *)
QueryDatabase(t) ==
  /\ Kind[t] = "database"
  /\ Moves(t, "working", "destroying")
  /\ \/ pool = "open" /\ UNCHANGED <<exitCode, failed, failures>>
     \/ pool = "open" /\ Outage /\ Fails(t) /\ exitCode' = 1
     \/ pool = "destroyed" /\ Fails(t) /\ exitCode' = 1 /\ UNCHANGED failures
  /\ UNCHANGED <<pool, enqueued>>

(* finally: closeConsoleDatabase, whatever else uses the pool.             *)
DestroyPool(t) ==
  /\ Ends(t, "destroying")
  /\ pool' = "destroyed"
  /\ UNCHANGED <<exitCode, failed, enqueued, failures>>

AddJob(t) == enqueued' = [enqueued EXCEPT ![t] = @ + 1]

(* Variant: a dispatch that failed is made again in the same run.          *)
DispatchTwice(t) ==
  /\ Kind[t] = "job"
  /\ \/ queue = "open" /\ Ends(t, "working") /\ AddJob(t)
        /\ UNCHANGED <<failed, failures>>
     \/ Moves(t, "working", "working") /\ Outage /\ Fails(t)
        /\ queue = "open" /\ AddJob(t)
     \/ queue = "closed" /\ Ends(t, "working") /\ Fails(t)
        /\ UNCHANGED <<enqueued, failures>>
  /\ UNCHANGED <<exitCode, pool>>

(* queue.add; an error leaves open whether Redis has the job.              *)
DispatchJob(t) ==
  /\ Kind[t] = "job"
  /\ Ends(t, "working")
  /\ \/ queue = "open" /\ AddJob(t) /\ UNCHANGED <<failed, failures>>
     \/ queue = "open" /\ Outage /\ Fails(t) /\ AddJob(t)
     \/ queue = "open" /\ Outage /\ Fails(t) /\ UNCHANGED enqueued
     \/ queue = "closed" /\ Fails(t) /\ UNCHANGED <<enqueued, failures>>
  /\ UNCHANGED <<exitCode, pool>>

(* node-cron catches what a run throws.                                    *)
CallBack(t) ==
  /\ Kind[t] = "callback"
  /\ Ends(t, "working")
  /\ \/ UNCHANGED <<failed, failures>>
     \/ Outage /\ Fails(t)
  /\ UNCHANGED <<exitCode, pool, enqueued>>

-----------------------------------------------------------------------------
(* SIGINT or SIGTERM.                                                      *)

(* stop() stops every task before it awaits anything.                      *)
Stop ==
  /\ phase = "running"
  /\ phase' = "stopping"
  /\ ticking' = {}
  /\ UNCHANGED <<chain, now, exitCode, queue, pool, runVars>>

(* Without the handlers a signal kills the process.                        *)
Killed ==
  /\ phase \in {"defining", "starting", "halted"}
  /\ ExitWith(1)
  /\ UNCHANGED <<queue, failures>>

(* Variant: the queue is closed when all runs have ended.                  *)
CloseQueueAfterRuns ==
  /\ phase = "stopping" /\ queue = "open"
  /\ runs = NoRuns
  /\ queue' = "closed"
  /\ UNCHANGED <<chain, now, phase, exitCode, ticking, pool, runVars>>

CloseQueue ==
  /\ phase = "stopping" /\ queue = "open"
  /\ queue' = "closed"
  /\ UNCHANGED <<chain, now, phase, exitCode, ticking, pool, runVars>>

(* The rejection of shutdown() is not handled, which ends the process too. *)
CloseQueueFails ==
  /\ phase = "stopping" /\ queue = "open"
  /\ Outage
  /\ ExitWith(1)
  /\ UNCHANGED queue

(* process.exit(0), runs in progress or not.                               *)
Exit ==
  /\ phase = "stopping" /\ queue = "closed"
  /\ ExitWith(0)
  /\ UNCHANGED <<queue, failures>>

Next ==
  \/ Define \/ Start \/ Tick \/ Stop \/ Killed
  \/ CloseQueue \/ CloseQueueFails \/ Exit
  \/ \E t \in Tasks :
       \/ Begin(t) \/ UnknownCommand(t) \/ QueryDatabase(t)
       \/ DestroyPool(t) \/ DispatchJob(t) \/ CallBack(t)

Spec == Init /\ [][Next]_vars

(* The process goes on with its shutdown; runs may take for ever.          *)
FairSpec == Spec /\ WF_vars(CloseQueue) /\ WF_vars(Exit)

-----------------------------------------------------------------------------
(* Properties.                                                             *)

TypeOK ==
  /\ \A t \in Tasks : chain[t] \in Chains[t]
  /\ now \in Instants \cup {0}
  /\ phase \in {"defining", "starting", "running", "halted", "stopping", "exited"}
  /\ exitCode \in {0, 1}
  /\ ticking \subseteq Tasks
  /\ queue \in {"none", "open", "closed"}
  /\ pool \in {"open", "destroyed"}
  /\ runs \in [Tasks -> [Stages -> 0..MaxTicks]]
  /\ failed \in [Tasks -> 0..MaxTicks]
  /\ enqueued \in [Tasks -> 0..MaxTicks]
  /\ ticks \in [Tasks -> 0..MaxTicks]
  /\ failures \in 0..MaxFailures

(* A schedule with an unfinished definition never runs, not even in part,  *)
(* and one that names an impossible time does not even get a connection:   *)
(* whichever task of the schedule it is, and whatever stands before it.    *)
UnfinishedScheduleNeverRuns ==
  /\ (\E t \in Tasks : Missing(chain[t])) => ticks = NoTicks
  /\ (\E t \in Tasks : Throws(chain[t])) => queue = "none" /\ ticks = NoTicks

(* A task ticks only in a minute that the last frequency of its chain      *)
(* names, in the zone of the task: the helpers write what they are called. *)
TicksAreNamed ==
  [][\A t \in Tasks : runs'[t]["due"] > runs[t]["due"] =>
       \E k \in FrequencyCalls(chain[t]) :
         /\ \A j \in FrequencyCalls(chain[t]) : j <= k
         /\ Named(chain[t][k], now' + 60 * Ahead(chain[t]))]_vars

(* No tick of a task makes two jobs, whatever errors its dispatch meets:   *)
(* the jobs a task has made, and the runs of it that may still make one,   *)
(* are no more than the times this very task has ticked.                   *)
OneJobPerTick ==
  \A t \in Tasks :
    enqueued[t] + runs[t]["due"] + runs[t]["working"] <= ticks[t]

(* A signal ends the process even if a run never ends.                     *)
SignalEnds == phase = "stopping" ~> phase = "exited"

(* The documented status command is safe: it fails only if the database    *)
(* does.                                                                   *)
StatusCommandIsSafe ==
  \A t \in Tasks : Kind[t] = "database" => failed[t] <= failures

=============================================================================
