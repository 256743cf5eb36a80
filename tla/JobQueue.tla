------------------------------ MODULE JobQueue ------------------------------
(***************************************************************************)
(* The BullMQ queue in Redis and the worker processes that serve it.       *)
(*                                                                         *)
(* A worker takes a waiting job under a lock, hands it to the handler that *)
(* JobRegistry knows for its name, and reports the outcome.  A handler     *)
(* that throws has the job retried after a delay until the configured      *)
(* attempts are used up.  A job whose lock is lost, because its worker     *)
(* died or did not renew it in time, is stalled: it is put back, but not   *)
(* more than MaxStalls times, while the first worker may still be busy     *)
(* with it.  Queue, locks, delays and stalls are BullMQ's and external.    *)
(***************************************************************************)
EXTENDS Naturals, FiniteSets

CONSTANTS
  Jobs,              (* the jobs that may be dispatched                    *)
  Registered,        (* the jobs the worker processes have a handler for   *)
  Workers, NoWorker,
  Concurrency,       (* QUEUE_WORKER_CONCURRENCY                           *)
  Attempts,          (* QUEUE_ATTEMPTS                                     *)
  MaxStalls,         (* BullMQ's maxStalledCount                           *)
  MaxInterruptions   (* bound: lost locks, handler errors, worker stops    *)

ASSUME JobQueueAssumption ==
  /\ Registered \subseteq Jobs
  /\ NoWorker \notin Workers
  /\ Concurrency \in Nat \ {0}
  /\ Attempts \in Nat \ {0}
  /\ MaxStalls \in Nat
  /\ MaxInterruptions \in Nat

VARIABLES
  job,            (* Redis: state, attempts made, stalls, lock of each job *)
  worker,         (* each worker process: "up", "closing" or "down"        *)
  running,        (* what each worker does with each job                   *)
  sent,           (* mails the transport accepted, or listener calls       *)
  interruptions   (* counts towards MaxInterruptions                       *)

queueVars == <<job, worker, running, sent, interruptions>>

JobStates == {"none", "waiting", "active", "delayed", "completed", "failed"}

JobRecord == [state : JobStates, attempts : 0..Attempts,
              stalls : 0..(MaxStalls + 1), lock : Workers \cup {NoWorker}]

QueueInit ==
  /\ job = [j \in Jobs |-> [state |-> "none", attempts |-> 0, stalls |-> 0,
                            lock |-> NoWorker]]
  /\ worker = [w \in Workers |-> "up"]
  /\ running = [w \in Workers |-> [j \in Jobs |-> "no"]]
  /\ sent = [j \in Jobs |-> 0]
  /\ interruptions = 0

-----------------------------------------------------------------------------

Interrupt ==
  /\ interruptions < MaxInterruptions
  /\ interruptions' = interruptions + 1

Busy(w) == {j \in Jobs : running[w][j] # "no"}

Stops(w, j) == running' = [running EXCEPT ![w][j] = "no"]

(* queue.add *)
Dispatch(j) ==
  /\ job[j].state = "none"
  /\ job' = [job EXCEPT ![j].state = "waiting"]
  /\ UNCHANGED <<worker, running, sent, interruptions>>

(* A worker takes the next waiting job.  It takes no stalled job again     *)
(* that its own handler is still busy with: at most one run of a job per   *)
(* process, which BullMQ guarantees only while Concurrency is 1.           *)
Take(w, j) ==
  /\ worker[w] = "up"
  /\ Cardinality(Busy(w)) < Concurrency
  /\ running[w][j] = "no"
  /\ job[j].state = "waiting"
  /\ job' = [job EXCEPT ![j].state = "active", ![j].lock = w]
  /\ running' = [running EXCEPT ![w][j] = "handling"]
  /\ UNCHANGED <<worker, sent, interruptions>>

(* Variant: a name without a handler is skipped.                           *)
HandleSilently(w, j) ==
  /\ running[w][j] = "handling"
  /\ running' = [running EXCEPT ![w][j] = "handled"]
  /\ sent' = IF j \in Registered THEN [sent EXCEPT ![j] = @ + 1] ELSE sent
  /\ UNCHANGED <<job, worker, interruptions>>

(* The registered handler returns: the mail transport took the message.    *)
Handle(w, j) ==
  /\ running[w][j] = "handling"
  /\ j \in Registered
  /\ running' = [running EXCEPT ![w][j] = "handled"]
  /\ sent' = [sent EXCEPT ![j] = @ + 1]
  /\ UNCHANGED <<job, worker, interruptions>>

(* Variant: one attempt too many is made.                                  *)
RetryOnceMore(j) ==
  [job EXCEPT ![j].attempts = @ + 1, ![j].lock = NoWorker,
              ![j].state = IF job[j].attempts < Attempts THEN "delayed"
                                                         ELSE "failed"]

(* Variant: the attempts are not limited.                                  *)
RetryForever(j) ==
  [job EXCEPT ![j].lock = NoWorker, ![j].state = "delayed"]

(* A failed attempt: the next one after a delay, or none.                  *)
Retry(j) ==
  [job EXCEPT ![j].attempts = @ + 1, ![j].lock = NoWorker,
              ![j].state = IF job[j].attempts + 1 < Attempts THEN "delayed"
                                                             ELSE "failed"]

(* The worker reports to Redis; without the lock it reports in vain.       *)
Report(w, j, outcome) == job' = IF job[j].lock = w THEN outcome ELSE job

(* No handler is registered, or it throws: the transport refused the       *)
(* message, or took it and its answer was lost.                            *)
HandlerThrows(w, j) ==
  /\ running[w][j] = "handling"
  /\ \/ j \notin Registered /\ UNCHANGED <<sent, interruptions>>
     \/ j \in Registered /\ Interrupt /\ UNCHANGED sent
     \/ j \in Registered /\ Interrupt /\ sent' = [sent EXCEPT ![j] = @ + 1]
  /\ Report(w, j, Retry(j))
  /\ Stops(w, j)
  /\ UNCHANGED worker

Complete(w, j) ==
  /\ running[w][j] = "handled"
  /\ Report(w, j, [job EXCEPT ![j].state = "completed", ![j].lock = NoWorker])
  /\ Stops(w, j)
  /\ UNCHANGED <<worker, sent, interruptions>>

Promote(j) ==
  /\ job[j].state = "delayed"
  /\ job' = [job EXCEPT ![j].state = "waiting"]
  /\ UNCHANGED <<worker, running, sent, interruptions>>

(* The stalled check of any worker that is up.                             *)
Recover(j) ==
  /\ job[j].state = "active" /\ job[j].lock = NoWorker
  /\ \E w \in Workers : worker[w] = "up"
  /\ job' = [job EXCEPT ![j].stalls = @ + 1,
                        ![j].state = IF job[j].stalls < MaxStalls
                                     THEN "waiting" ELSE "failed"]
  /\ UNCHANGED <<worker, running, sent, interruptions>>

-----------------------------------------------------------------------------

Unlocked(w) ==
  [j \in Jobs |-> IF job[j].lock = w THEN [job[j] EXCEPT !.lock = NoWorker]
                                     ELSE job[j]]

Crash(w) ==
  /\ Interrupt
  /\ worker[w] # "down"
  /\ worker' = [worker EXCEPT ![w] = "down"]
  /\ running' = [running EXCEPT ![w] = [j \in Jobs |-> "no"]]
  /\ job' = Unlocked(w)
  /\ UNCHANGED sent

(* The event loop is blocked for longer than a lock lasts.                 *)
LockLost(w) ==
  /\ Interrupt
  /\ \E j \in Jobs : job[j].lock = w
  /\ job' = Unlocked(w)
  /\ UNCHANGED <<worker, running, sent>>

(* SIGINT or SIGTERM: worker.close() takes no more jobs ...                *)
Shutdown(w) ==
  /\ Interrupt
  /\ worker[w] = "up"
  /\ worker' = [worker EXCEPT ![w] = "closing"]
  /\ UNCHANGED <<job, running, sent>>

(* Variant: close() is not awaited.                                        *)
ExitAtOnce(w) ==
  /\ worker[w] = "closing"
  /\ worker' = [worker EXCEPT ![w] = "down"]
  /\ running' = [running EXCEPT ![w] = [j \in Jobs |-> "no"]]
  /\ UNCHANGED <<job, sent, interruptions>>

(* ... and waits for those it has; only then does the process exit.        *)
Exit(w) ==
  /\ worker[w] = "closing"
  /\ Busy(w) = {}
  /\ worker' = [worker EXCEPT ![w] = "down"]
  /\ UNCHANGED <<job, running, sent, interruptions>>

(* The process manager keeps workers alive.                                *)
Restart(w) ==
  /\ worker[w] = "down"
  /\ worker' = [worker EXCEPT ![w] = "up"]
  /\ UNCHANGED <<job, running, sent, interruptions>>

QueueNext ==
  \/ \E w \in Workers, j \in Jobs :
       Take(w, j) \/ Handle(w, j) \/ HandlerThrows(w, j) \/ Complete(w, j)
  \/ \E j \in Jobs : Promote(j) \/ Recover(j)
  \/ \E w \in Workers :
       Crash(w) \/ LockLost(w) \/ Shutdown(w) \/ Exit(w) \/ Restart(w)

(* Handlers end, delays pass, the stalled check runs and processes are     *)
(* restarted.                                                              *)
QueueFairness ==
  /\ \A w \in Workers, j \in Jobs :
       /\ WF_queueVars(Take(w, j))
       /\ WF_queueVars(Handle(w, j) \/ HandlerThrows(w, j))
       /\ WF_queueVars(Complete(w, j))
  /\ \A j \in Jobs : WF_queueVars(Promote(j)) /\ WF_queueVars(Recover(j))
  /\ \A w \in Workers : WF_queueVars(Exit(w)) /\ WF_queueVars(Restart(w))

-----------------------------------------------------------------------------
(* Properties.                                                             *)

QueueTypeOK ==
  /\ job \in [Jobs -> JobRecord]
  /\ worker \in [Workers -> {"up", "closing", "down"}]
  /\ running \in [Workers -> [Jobs -> {"no", "handling", "handled"}]]
  /\ sent \in [Jobs -> Nat]
  /\ interruptions \in 0..MaxInterruptions

(* A locked job is active, and the worker that holds the lock is alive and *)
(* busy with it: a worker that is stopped in order leaves no job behind,   *)
(* so that only crashes and lost locks need the stalled check.             *)
LockHolderWorks ==
  \A j \in Jobs : job[j].lock # NoWorker =>
    /\ job[j].state = "active"
    /\ worker[job[j].lock] # "down"
    /\ running[job[j].lock][j] # "no"

(* A job is given up only when its attempts, or its stalls, are used up,   *)
(* and a mail is sent at most once more than there were failed attempts    *)
(* and stalls.                                                             *)
RetriesAreCounted ==
  \A j \in Jobs :
    /\ job[j].state = "failed" =>
         job[j].attempts = Attempts \/ job[j].stalls = MaxStalls + 1
    /\ job[j].attempts + job[j].stalls <= Attempts + MaxStalls
    /\ sent[j] <= 1 + job[j].attempts + job[j].stalls

(* Every job that was dispatched is completed or given up, in spite of     *)
(* errors, crashes, lost locks and shutdowns.                              *)
JobsSettle ==
  \A j \in Jobs :
    job[j].state # "none" ~> job[j].state \in {"completed", "failed"}

(* Queue and workers deliver at least once, as the abstract module says.   *)
Status ==
  [j \in Jobs |-> CASE job[j].state = "none" -> "unknown"
                    [] job[j].state = "completed" -> "done"
                    [] job[j].state = "failed" -> "given up"
                    [] OTHER -> "accepted"]

DeliverySpec == INSTANCE Delivery WITH status <- Status, deliveries <- sent

ImplementsDelivery == DeliverySpec!Spec

=============================================================================
