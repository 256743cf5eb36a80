------------------------- MODULE NotificationsProofs -------------------------
(* Theorems about JobQueue and Notifications, for every number of events,  *)
(* workers, attempts and stalls, every list of listeners and every set of  *)
(* names with a handler.                                                   *)
EXTENDS Notifications, FiniteSetTheorems, TLAPS

(* The inductive invariant.  A job that nobody added is untouched; one     *)
(* that is not settled has an attempt and a stall left, and one that was   *)
(* given up has used up one of the two ...                                 *)
Counted ==
  \A j \in Jobs :
    /\ job[j].state = "none" => job[j].attempts = 0 /\ job[j].stalls = 0
    /\ job[j].state = "failed" =>
         \/ job[j].attempts = Attempts /\ job[j].stalls <= MaxStalls
         \/ job[j].attempts < Attempts /\ job[j].stalls = MaxStalls + 1
    /\ job[j].state # "failed" =>
         job[j].attempts < Attempts /\ job[j].stalls <= MaxStalls

(* ... each failed attempt and each stall is a time that it was taken, and *)
(* the mails that were sent and those that may still be sent, also by      *)
(* workers that have lost their lock, are no more than these ...           *)
Handling(j) == {w \in Workers : running[w][j] = "handling"}

Taken(j) ==
  job[j].attempts + job[j].stalls
    + (IF job[j].state \in {"active", "completed"} THEN 1 ELSE 0)

Budget ==
  \A j \in Jobs :
    IsFiniteSet(Handling(j)) /\ sent[j] + Cardinality(Handling(j)) <= Taken(j)

(* ... and what a worker has handled was sent.                             *)
Runners ==
  \A j \in Jobs :
    /\ job[j].state = "none" => \A w \in Workers : running[w][j] = "no"
    /\ \A w \in Workers : running[w][j] = "handled" => sent[j] > 0
    /\ job[j].state = "completed" => sent[j] > 0

QueueInv == QueueTypeOK /\ LockHolderWorks /\ Counted /\ Budget /\ Runners

(* A dispatch has passed exactly the listeners that made their job.        *)
Passed ==
  \A e \in Events, n \in DOMAIN Listeners :
    /\ job[<<e, n>>].state # "none" =>
         n < at[e] \/ (n = at[e] /\ outcome[e] = "error")
    /\ n < at[e] /\ <<e, n>> \in JobsOf(e) => job[<<e, n>>].state # "none"

Returned == \A e \in Events : outcome[e] = "ok" => at[e] = Len(Listeners) + 1

EventInv == TypeOK /\ Passed /\ Returned

-----------------------------------------------------------------------------
(* The queue.                                                              *)

LEMMA QueueInitially == QueueInit => QueueInv
<1> SUFFICES ASSUME QueueInit PROVE QueueInv
  OBVIOUS
<1> USE JobQueueAssumption DEF QueueInit
<1>1. QueueTypeOK
  BY DEF QueueTypeOK, JobRecord, JobStates
<1>2. LockHolderWorks /\ Counted /\ Runners
  BY DEF LockHolderWorks, Counted, Runners
<1>3. Budget
  <2> SUFFICES ASSUME NEW j \in Jobs
               PROVE  IsFiniteSet(Handling(j))
                      /\ sent[j] + Cardinality(Handling(j)) <= Taken(j)
    BY DEF Budget
  <2>1. Handling(j) = {}
    BY DEF Handling
  <2>2. QED
    BY <2>1, FS_EmptySet DEF Taken
<1>4. QED
  BY <1>1, <1>2, <1>3 DEF QueueInv

(* What the number of busy workers is after one of them began or ended.    *)
LEMMA HandlingCount ==
  ASSUME NEW S, IsFiniteSet(S), NEW T
  PROVE  /\ Cardinality(S) \in Nat
         /\ T \subseteq S => /\ IsFiniteSet(T) /\ Cardinality(T) \in Nat
                             /\ Cardinality(T) <= Cardinality(S)
         /\ \A w : T = S \cup {w} =>
              /\ IsFiniteSet(T) /\ Cardinality(T) \in Nat
              /\ Cardinality(T) <= Cardinality(S) + 1
         /\ \A w \in S : T \subseteq S \ {w} =>
              /\ IsFiniteSet(T) /\ Cardinality(T) \in Nat
              /\ Cardinality(T) + 1 <= Cardinality(S)
<1>1. Cardinality(S) \in Nat
  BY FS_CardinalityType
<1>2. \A U : U \subseteq S => /\ IsFiniteSet(U) /\ Cardinality(U) \in Nat
                              /\ Cardinality(U) <= Cardinality(S)
  BY FS_Subset, FS_CardinalityType
<1>3. \A w : T = S \cup {w} => /\ IsFiniteSet(T) /\ Cardinality(T) \in Nat
                               /\ Cardinality(T) <= Cardinality(S) + 1
  BY <1>1, FS_AddElement, FS_CardinalityType
<1>4. ASSUME NEW w \in S, T \subseteq S \ {w}
      PROVE  /\ IsFiniteSet(T) /\ Cardinality(T) \in Nat
             /\ Cardinality(T) + 1 <= Cardinality(S)
  <2>1. /\ IsFiniteSet(S \ {w})
        /\ Cardinality(S \ {w}) = Cardinality(S) - 1
    BY FS_RemoveElement
  <2>2. /\ IsFiniteSet(T) /\ Cardinality(T) \in Nat
        /\ Cardinality(T) <= Cardinality(S \ {w})
    BY <1>4, <2>1, FS_Subset, FS_CardinalityType
  <2>3. QED
    BY <1>1, <2>1, <2>2
<1>5. QED
  BY <1>1, <1>2, <1>3, <1>4

(* The budget of a job is kept by a step that neither takes it nor sends   *)
(* for it, that takes it, that sends for it once and ends a run of it, or  *)
(* that ends its run.                                                      *)
LEMMA BudgetKept ==
  ASSUME QueueTypeOK, Budget, NEW j \in Jobs,
         sent'[j] \in Nat, Taken(j)' \in Nat, Taken(j) \in Nat,
         \/ /\ sent'[j] = sent[j] /\ Taken(j)' >= Taken(j)
            /\ Handling(j)' \subseteq Handling(j)
         \/ /\ sent'[j] = sent[j] /\ Taken(j)' >= Taken(j) + 1
            /\ \E w \in Workers : Handling(j)' = Handling(j) \cup {w}
         \/ /\ sent'[j] <= sent[j] + 1 /\ Taken(j)' >= Taken(j)
            /\ \E w \in Handling(j) : Handling(j)' \subseteq Handling(j) \ {w}
  PROVE  IsFiniteSet(Handling(j)')
         /\ sent'[j] + Cardinality(Handling(j)') <= Taken(j)'
<1> DEFINE S == Handling(j)
           T == Handling(j)'
<1>1. IsFiniteSet(S) /\ sent[j] + Cardinality(S) <= Taken(j) /\ sent[j] \in Nat
  BY DEF Budget, QueueTypeOK
<1>2. Cardinality(S) \in Nat
  BY <1>1, HandlingCount
<1> HIDE DEF S, T
<1>3. CASE sent'[j] = sent[j] /\ Taken(j)' >= Taken(j) /\ T \subseteq S
  <2>1. IsFiniteSet(T) /\ Cardinality(T) \in Nat
        /\ Cardinality(T) <= Cardinality(S)
    BY <1>1, <1>3, HandlingCount
  <2>2. QED
    BY <1>1, <1>2, <1>3, <2>1 DEF T
<1>4. CASE sent'[j] = sent[j] /\ Taken(j)' >= Taken(j) + 1
           /\ \E w \in Workers : T = S \cup {w}
  <2>1. IsFiniteSet(T) /\ Cardinality(T) \in Nat
        /\ Cardinality(T) <= Cardinality(S) + 1
    BY <1>1, <1>4, HandlingCount
  <2>2. QED
    BY <1>1, <1>2, <1>4, <2>1 DEF T
<1>5. CASE sent'[j] <= sent[j] + 1 /\ Taken(j)' >= Taken(j)
           /\ \E w \in S : T \subseteq S \ {w}
  <2>1. IsFiniteSet(T) /\ Cardinality(T) \in Nat
        /\ Cardinality(T) + 1 <= Cardinality(S)
    BY <1>1, <1>5, HandlingCount
  <2>2. QED
    BY <1>1, <1>2, <1>5, <2>1 DEF T
<1>6. QED
  BY <1>3, <1>4, <1>5 DEF S, T

LEMMA TakenType ==
  QueueTypeOK => \A j \in Jobs : Taken(j) \in Nat
BY JobQueueAssumption DEF QueueTypeOK, JobRecord, Taken

(* Budget' from the numbers of one job after the other.                    *)
LEMMA BudgetOfEach ==
  ASSUME QueueTypeOK, QueueTypeOK', Budget,
         \A j \in Jobs :
           \/ /\ sent'[j] = sent[j] /\ Taken(j)' >= Taken(j)
              /\ Handling(j)' \subseteq Handling(j)
           \/ /\ sent'[j] = sent[j] /\ Taken(j)' >= Taken(j) + 1
              /\ \E w \in Workers : Handling(j)' = Handling(j) \cup {w}
           \/ /\ sent'[j] <= sent[j] + 1 /\ Taken(j)' >= Taken(j)
              /\ \E w \in Handling(j) : Handling(j)' \subseteq Handling(j) \ {w}
  PROVE  Budget'
<1>1. \A j \in Jobs : sent'[j] \in Nat
  BY DEF QueueTypeOK
<1>2. \A j \in Jobs : Taken(j) \in Nat /\ Taken(j)' \in Nat
  <2>1. \A j \in Jobs : Taken(j) \in Nat
    BY TakenType
  <2>2. \A j \in Jobs : Taken(j)' \in Nat
    BY JobQueueAssumption DEF QueueTypeOK, JobRecord, Taken
  <2>3. QED
    BY <2>1, <2>2
<1>3. ASSUME NEW j \in Jobs
      PROVE  IsFiniteSet(Handling(j)')
             /\ sent'[j] + Cardinality(Handling(j)') <= Taken(j)'
  BY <1>1, <1>2, BudgetKept
<1>4. QED
  BY <1>3 DEF Budget

LEMMA DispatchKeeps ==
  ASSUME QueueInv, NEW j \in Jobs, Dispatch(j)
  PROVE  QueueInv'
<1> USE JobQueueAssumption DEF QueueInv, Dispatch
<1>1. QueueTypeOK'
  BY ZenonT(60) DEF QueueTypeOK, JobRecord, JobStates
<1>2. LockHolderWorks' /\ Counted' /\ Runners'
  BY DEF QueueTypeOK, JobRecord, LockHolderWorks, Counted, Runners
<1>3. \A i \in Jobs : Taken(i)' = Taken(i) /\ Handling(i)' = Handling(i)
  BY DEF QueueTypeOK, Taken, Handling
<1>4. Budget'
  BY <1>1, <1>3, TakenType, BudgetOfEach
<1>5. QED
  BY <1>1, <1>2, <1>4

LEMMA TakeKeeps ==
  ASSUME QueueInv, NEW w \in Workers, NEW j \in Jobs, Take(w, j)
  PROVE  QueueInv'
<1> USE JobQueueAssumption DEF QueueInv, Take
<1>1. QueueTypeOK'
  BY ZenonT(60) DEF QueueTypeOK, JobRecord, JobStates
<1>2. LockHolderWorks' /\ Counted' /\ Runners'
  BY DEF QueueTypeOK, JobRecord, LockHolderWorks, Counted, Runners
<1>3. Taken(j)' = Taken(j) + 1 /\ Handling(j)' = Handling(j) \cup {w}
  BY DEF QueueTypeOK, JobRecord, Taken, Handling
<1>4. \A i \in Jobs \ {j} : Taken(i)' = Taken(i) /\ Handling(i)' = Handling(i)
  BY DEF QueueTypeOK, Taken, Handling
<1>5. Budget'
  BY <1>1, <1>3, <1>4, TakenType, BudgetOfEach
<1>6. QED
  BY <1>1, <1>2, <1>5

LEMMA HandleKeeps ==
  ASSUME QueueInv, NEW w \in Workers, NEW j \in Jobs, Handle(w, j)
  PROVE  QueueInv'
<1> USE JobQueueAssumption DEF QueueInv, Handle
<1>1. QueueTypeOK'
  BY DEF QueueTypeOK
<1>2. LockHolderWorks' /\ Counted' /\ Runners'
  BY DEF QueueTypeOK, LockHolderWorks, Counted, Runners
<1>3. /\ w \in Handling(j) /\ Handling(j)' = Handling(j) \ {w}
      /\ sent'[j] = sent[j] + 1 /\ Taken(j)' = Taken(j)
  BY DEF QueueTypeOK, Taken, Handling
<1>4. \A i \in Jobs \ {j} : /\ Taken(i)' = Taken(i) /\ sent'[i] = sent[i]
                            /\ Handling(i)' = Handling(i)
  BY DEF QueueTypeOK, Taken, Handling
<1>5. Budget'
  BY <1>1, <1>3, <1>4, TakenType, BudgetOfEach DEF QueueTypeOK
<1>6. QED
  BY <1>1, <1>2, <1>5

LEMMA HandlerThrowsKeeps ==
  ASSUME QueueInv, NEW w \in Workers, NEW j \in Jobs, HandlerThrows(w, j)
  PROVE  QueueInv'
<1> USE JobQueueAssumption
    DEF QueueInv, HandlerThrows, Report, Retry, Stops, Interrupt
<1>1. QueueTypeOK'
  <2>1. sent' \in [Jobs -> Nat] /\ interruptions' \in 0..MaxInterruptions
    BY DEF QueueTypeOK
  <2>2. job' \in [Jobs -> JobRecord]
    BY DEF QueueTypeOK, JobRecord, JobStates, LockHolderWorks, Counted
  <2>3. QED
    BY <2>1, <2>2 DEF QueueTypeOK
<1>2. LockHolderWorks' /\ Counted' /\ Runners'
  <2>1. LockHolderWorks'
    BY SMTT(30) DEF QueueTypeOK, JobRecord, LockHolderWorks, Counted
  <2>2. Counted'
    BY SMTT(30) DEF QueueTypeOK, JobRecord, LockHolderWorks, Counted
  <2>3. Runners'
    BY SMTT(30) DEF QueueTypeOK, JobRecord, LockHolderWorks, Runners
  <2>4. QED
    BY <2>1, <2>2, <2>3
<1>3. /\ w \in Handling(j) /\ Handling(j)' = Handling(j) \ {w}
      /\ sent'[j] <= sent[j] + 1
  BY DEF QueueTypeOK, Handling
<1>4. Taken(j)' = Taken(j)
  BY DEF QueueTypeOK, JobRecord, LockHolderWorks, Taken
<1>5. \A i \in Jobs \ {j} : /\ Taken(i)' = Taken(i) /\ sent'[i] = sent[i]
                            /\ Handling(i)' = Handling(i)
  BY DEF QueueTypeOK, Taken, Handling
<1>6. Budget'
  BY <1>1, <1>3, <1>4, <1>5, TakenType, BudgetOfEach DEF QueueTypeOK
<1>7. QED
  BY <1>1, <1>2, <1>6

LEMMA CompleteKeeps ==
  ASSUME QueueInv, NEW w \in Workers, NEW j \in Jobs, Complete(w, j)
  PROVE  QueueInv'
<1> USE JobQueueAssumption DEF QueueInv, Complete, Report, Stops
<1>1. QueueTypeOK'
  BY DEF QueueTypeOK, JobRecord, JobStates
<1>2. LockHolderWorks' /\ Counted' /\ Runners'
  BY DEF QueueTypeOK, JobRecord, LockHolderWorks, Counted, Runners
<1>3. \A i \in Jobs : Taken(i)' = Taken(i)
  BY DEF QueueTypeOK, JobRecord, LockHolderWorks, Taken
<1>4. \A i \in Jobs : Handling(i)' = Handling(i)
  BY DEF QueueTypeOK, Handling
<1>5. Budget'
  BY <1>1, <1>3, <1>4, TakenType, BudgetOfEach
<1>6. QED
  BY <1>1, <1>2, <1>5

LEMMA PromoteKeeps ==
  ASSUME QueueInv, NEW j \in Jobs, Promote(j)
  PROVE  QueueInv'
<1> USE JobQueueAssumption DEF QueueInv, Promote
<1>1. QueueTypeOK'
  BY ZenonT(60) DEF QueueTypeOK, JobRecord, JobStates
<1>2. LockHolderWorks' /\ Counted' /\ Runners'
  BY DEF QueueTypeOK, JobRecord, LockHolderWorks, Counted, Runners
<1>3. \A i \in Jobs : Taken(i)' = Taken(i) /\ Handling(i)' = Handling(i)
  BY DEF QueueTypeOK, Taken, Handling
<1>4. Budget'
  BY <1>1, <1>3, TakenType, BudgetOfEach
<1>5. QED
  BY <1>1, <1>2, <1>4

LEMMA RecoverKeeps ==
  ASSUME QueueInv, NEW j \in Jobs, Recover(j)
  PROVE  QueueInv'
<1> USE JobQueueAssumption DEF QueueInv, Recover
<1>1. QueueTypeOK'
  BY DEF QueueTypeOK, JobRecord, JobStates, Counted
<1>2. LockHolderWorks' /\ Counted' /\ Runners'
  BY DEF QueueTypeOK, JobRecord, LockHolderWorks, Counted, Runners
<1>3. \A i \in Jobs : Taken(i)' = Taken(i) /\ Handling(i)' = Handling(i)
  BY DEF QueueTypeOK, JobRecord, Taken, Handling
<1>4. Budget'
  BY <1>1, <1>3, TakenType, BudgetOfEach
<1>5. QED
  BY <1>1, <1>2, <1>4

LEMMA UnlockedIs ==
  ASSUME QueueTypeOK, NEW w \in Workers
  PROVE  /\ Unlocked(w) \in [Jobs -> JobRecord]
         /\ \A j \in Jobs :
              /\ Unlocked(w)[j].state = job[j].state
              /\ Unlocked(w)[j].attempts = job[j].attempts
              /\ Unlocked(w)[j].stalls = job[j].stalls
              /\ job[j].lock # w => Unlocked(w)[j].lock = job[j].lock
              /\ job[j].lock = w => Unlocked(w)[j].lock = NoWorker
BY ZenonT(60) DEF QueueTypeOK, JobRecord, Unlocked

LEMMA UnlockKeeps ==
  ASSUME QueueInv, NEW w \in Workers, Crash(w) \/ LockLost(w)
  PROVE  QueueInv'
<1> USE DEF QueueInv
<1>1. /\ job' \in [Jobs -> JobRecord]
      /\ \A j \in Jobs :
           /\ job'[j].state = job[j].state
           /\ job'[j].attempts = job[j].attempts
           /\ job'[j].stalls = job[j].stalls
           /\ job[j].lock # w => job'[j].lock = job[j].lock
           /\ job[j].lock = w => job'[j].lock = NoWorker
  <2>1. job' = Unlocked(w)
    BY DEF Crash, LockLost
  <2>2. QED
    BY <2>1, UnlockedIs
<1>2. /\ interruptions' \in 0..MaxInterruptions
      /\ sent' = sent
      /\ \A v \in Workers \ {w} : worker'[v] = worker[v]
                                  /\ running'[v] = running[v]
      /\ worker' \in [Workers -> {"up", "closing", "down"}]
      /\ running' \in [Workers -> [Jobs -> {"no", "handling", "handled"}]]
      /\ \A j \in Jobs : running'[w][j] \in {running[w][j], "no"}
  <2>1. CASE Crash(w)
    <3>1. [j \in Jobs |-> "no"] \in [Jobs -> {"no", "handling", "handled"}]
      OBVIOUS
    <3>2. QED
      BY <2>1, <3>1, JobQueueAssumption DEF Crash, Interrupt, QueueTypeOK
  <2>2. CASE LockLost(w)
    BY <2>2, JobQueueAssumption DEF LockLost, Interrupt, QueueTypeOK
  <2>3. QED
    BY <2>1, <2>2
<1>3. QueueTypeOK'
  BY <1>1, <1>2 DEF QueueTypeOK
<1>4. LockHolderWorks'
  BY <1>1, <1>2 DEF QueueTypeOK, JobRecord, LockHolderWorks
<1>5. Counted' /\ Runners'
  <2>1. Counted'
    BY <1>1 DEF Counted
  <2>2. \A v \in Workers, j \in Jobs : running'[v][j] \in {running[v][j], "no"}
    BY <1>2
  <2>3. ASSUME NEW j \in Jobs
        PROVE  /\ job'[j].state = "none" =>
                    \A v \in Workers : running'[v][j] = "no"
               /\ \A v \in Workers : running'[v][j] = "handled" => sent'[j] > 0
               /\ job'[j].state = "completed" => sent'[j] > 0
    <3>1. job'[j].state = job[j].state /\ sent'[j] = sent[j]
      BY <1>1, <1>2
    <3>2. \A v \in Workers : running'[v][j] = running[v][j] \/ running'[v][j] = "no"
      BY <2>2
    <3>3. QED
      BY <3>1, <3>2 DEF Runners
  <2>4. QED
    BY <2>1, <2>3 DEF Runners
<1>6. \A j \in Jobs : Taken(j)' = Taken(j) /\ Handling(j)' \subseteq Handling(j)
  BY <1>1, <1>2 DEF Taken, Handling
<1>7. Budget'
  BY <1>2, <1>3, <1>6, TakenType, BudgetOfEach
<1>8. QED
  BY <1>3, <1>4, <1>5, <1>7

LEMMA ProcessKeeps ==
  ASSUME QueueInv, NEW w \in Workers, Shutdown(w) \/ Exit(w) \/ Restart(w)
  PROVE  QueueInv'
<1> USE JobQueueAssumption DEF QueueInv, Shutdown, Exit, Restart, Interrupt
<1>1. QueueTypeOK'
  BY DEF QueueTypeOK
<1>2. LockHolderWorks' /\ Counted' /\ Runners'
  BY DEF QueueTypeOK, JobRecord, LockHolderWorks, Counted, Runners, Busy
<1>3. \A i \in Jobs : Taken(i)' = Taken(i) /\ Handling(i)' = Handling(i)
  BY DEF Taken, Handling
<1>4. Budget'
  BY <1>1, <1>3, TakenType, BudgetOfEach
<1>5. QED
  BY <1>1, <1>2, <1>4

-----------------------------------------------------------------------------
(* The dispatcher.                                                         *)

(* What a step does to the queue: a dispatch adds a job, or the queue and  *)
(* its workers take a step of their own, or it is left alone.              *)
LEMMA StepOfTheQueue ==
  ASSUME [Next]_vars
  PROVE  \/ \E e \in Events :
              /\ at[e] \in DOMAIN Listeners /\ Dispatch(<<e, at[e]>>)
              /\ \/ (Mail(e) /\ addressed[e]) \/ QueueListener(e)
                 \/ DispatchError(e)
         \/ QueueNext /\ UNCHANGED eventVars
         \/ UNCHANGED queueVars
<1>1. ASSUME NEW e \in Events, Mail(e) \/ QueueListener(e) \/ DispatchError(e)
      PROVE  \/ /\ at[e] \in DOMAIN Listeners /\ Dispatch(<<e, at[e]>>)
                /\ \/ (Mail(e) /\ addressed[e]) \/ QueueListener(e)
                   \/ DispatchError(e)
             \/ UNCHANGED queueVars
  BY <1>1 DEF Mail, QueueListener, DispatchError, AddsJob, Current
<1>2. ASSUME NEW e \in Events, Raise(e) \/ Record(e) \/ Return(e)
      PROVE  UNCHANGED queueVars
  BY <1>2 DEF Raise, Record, Return
<1>3. QED
  BY <1>1, <1>2 DEF Next, EventNext, ServerCrash, vars

LEMMA QueueInvStep ==
  ASSUME QueueInv, [Next]_vars
  PROVE  QueueInv'
<1>1. CASE \E e \in Events :
             at[e] \in DOMAIN Listeners /\ Dispatch(<<e, at[e]>>)
  BY <1>1, DispatchKeeps, NotificationsAssumption
<1>2. CASE QueueNext
  BY <1>2, TakeKeeps, HandleKeeps, HandlerThrowsKeeps, CompleteKeeps,
     PromoteKeeps, RecoverKeeps, UnlockKeeps, ProcessKeeps DEF QueueNext
<1>3. CASE UNCHANGED queueVars
  BY <1>3 DEF queueVars, QueueInv, QueueTypeOK, LockHolderWorks, Counted,
              Budget, Handling, Taken, Runners
<1>4. QED
  BY <1>1, <1>2, <1>3, StepOfTheQueue

(* Only a dispatch makes a job of nothing, and nothing unmakes one.        *)
LEMMA QueueKeepsJobs ==
  ASSUME QueueInv, QueueNext, NEW j \in Jobs
  PROVE  job'[j].state = "none" <=> job[j].state = "none"
<1> USE DEF QueueInv, QueueTypeOK, JobRecord, LockHolderWorks
<1>1. ASSUME NEW w \in Workers, NEW i \in Jobs,
             Take(w, i) \/ Handle(w, i) \/ HandlerThrows(w, i) \/ Complete(w, i)
      PROVE  job'[j].state = "none" <=> job[j].state = "none"
  <2>1. CASE Take(w, i)
    BY <2>1 DEF Take
  <2>2. CASE Handle(w, i)
    BY <2>2 DEF Handle
  <2>3. CASE HandlerThrows(w, i)
    <3>1. i # j \/ job[i].lock # w => job'[j] = job[j]
      BY <2>3 DEF HandlerThrows, Report, Retry
    <3>2. job[i].lock = w => /\ job[i].state = "active"
                             /\ job'[i].state \in {"delayed", "failed"}
      BY <2>3, JobQueueAssumption DEF HandlerThrows, Report, Retry
    <3>3. QED
      BY <3>1, <3>2
  <2>4. CASE Complete(w, i)
    BY <2>4, JobQueueAssumption DEF Complete, Report
  <2>5. QED
    BY <1>1, <2>1, <2>2, <2>3, <2>4
<1>2. ASSUME NEW i \in Jobs, Promote(i) \/ Recover(i)
      PROVE  job'[j].state = "none" <=> job[j].state = "none"
  BY ZenonT(60), <1>2 DEF Promote, Recover
<1>3. ASSUME NEW w \in Workers, Crash(w) \/ LockLost(w)
      PROVE  job'[j].state = "none" <=> job[j].state = "none"
  BY <1>3, UnlockedIs DEF Crash, LockLost
<1>4. ASSUME NEW w \in Workers, Shutdown(w) \/ Exit(w) \/ Restart(w)
      PROVE  job'[j].state = "none" <=> job[j].state = "none"
  BY <1>4 DEF Shutdown, Exit, Restart
<1>5. QED
  BY <1>1, <1>2, <1>3, <1>4 DEF QueueNext

LEMMA DispatchAdds ==
  ASSUME QueueInv, NEW j \in Jobs, Dispatch(j)
  PROVE  /\ job[j].state = "none" /\ job'[j].state # "none"
         /\ \A i \in Jobs \ {j} : job'[i] = job[i]
BY DEF QueueInv, QueueTypeOK, Dispatch

LEMMA JobNames ==
  /\ \A e \in Events, n \in DOMAIN Listeners : <<e, n>> \in Jobs
  /\ DOMAIN Listeners = 1..Len(Listeners) /\ Len(Listeners) \in Nat
BY NotificationsAssumption

LEMMA Initially == Init => QueueInv /\ EventInv
<1> SUFFICES ASSUME Init PROVE QueueInv /\ EventInv
  OBVIOUS
<1>1. QueueInv
  BY QueueInitially DEF Init
<1>2. TypeOK
  BY <1>1, JobNames DEF Init, TypeOK, QueueInv
<1>3. Passed /\ Returned
  BY JobNames DEF Init, QueueInit, Passed, Returned
<1>4. QED
  BY <1>1, <1>2, <1>3 DEF EventInv

LEMMA TypeOKStep ==
  ASSUME QueueInv, TypeOK, [Next]_vars
  PROVE  TypeOK'
<1> USE DEF TypeOK
<1>1. QueueTypeOK'
  BY QueueInvStep DEF QueueInv
<1>2. ASSUME NEW e \in Events,
             Raise(e) \/ Record(e) \/ Mail(e) \/ QueueListener(e) \/ Return(e)
               \/ DispatchError(e)
      PROVE  TypeOK'
  <2>1. CASE Raise(e) \/ Return(e)
    <3>1. Len(Listeners) \in Nat
      BY JobNames
    <3>2. CASE Raise(e)
      BY <1>1, <3>1, <3>2 DEF Raise
    <3>3. CASE Return(e)
      BY <1>1, <3>3 DEF Return
    <3>4. QED
      BY <2>1, <3>2, <3>3
  <2>2. CASE Record(e)
    BY <1>1, <2>2, JobNames DEF Record, Current
  <2>3. CASE Mail(e) \/ QueueListener(e)
    <3>1. at[e] \in 1..Len(Listeners) /\ NextListener(e)
      BY <2>3, JobNames DEF Mail, QueueListener, Current
    <3>2. QED
      BY <1>1, <3>1, JobNames DEF NextListener
  <2>4. CASE DispatchError(e)
    BY <1>1, <2>4 DEF DispatchError
  <2>5. QED
    BY <1>2, <2>1, <2>2, <2>3, <2>4
<1>3. CASE ServerCrash
  BY <1>1, <1>3 DEF ServerCrash
<1>4. CASE UNCHANGED eventVars
  BY <1>1, <1>4 DEF eventVars
<1>5. QED
  BY <1>2, <1>3, <1>4 DEF Next, EventNext, vars

LEMMA DispatchStep ==
  ASSUME QueueInv, EventInv, NEW e \in Events, at[e] \in DOMAIN Listeners,
         Dispatch(<<e, at[e]>>),
         (Mail(e) /\ addressed[e]) \/ QueueListener(e) \/ DispatchError(e)
  PROVE  Passed' /\ Returned'
<1> USE DEF EventInv, TypeOK
<1>1. /\ job'[<<e, at[e]>>].state # "none"
      /\ \A i \in Jobs \ {<<e, at[e]>>} : job'[i] = job[i]
  BY DispatchAdds, JobNames
<1>2. /\ \A d \in Events \ {e} : at'[d] = at[d] /\ outcome'[d] = outcome[d]
      /\ \/ at'[e] = at[e] + 1 /\ outcome'[e] = outcome[e]
         \/ at'[e] = at[e] /\ outcome'[e] = "error"
      /\ outcome[e] = "none" /\ addressed' = addressed
  BY DEF Mail, QueueListener, DispatchError, AddsJob, Current, InDispatch,
         NextListener
<1>3. \A d \in Events : JobsOf(d)' = JobsOf(d)
  BY <1>2 DEF JobsOf
<1>4. Passed'
  <2> SUFFICES ASSUME NEW d \in Events, NEW n \in DOMAIN Listeners
               PROVE  /\ job'[<<d, n>>].state # "none" =>
                           n < at'[d] \/ (n = at'[d] /\ outcome'[d] = "error")
                      /\ n < at'[d] /\ <<d, n>> \in JobsOf(d) =>
                           job'[<<d, n>>].state # "none"
    BY <1>3 DEF Passed
  <2>1. n \in Nat /\ at[d] \in Nat /\ at[e] \in Nat
    BY JobNames
  <2>2. CASE d = e /\ n = at[e]
    BY <1>1, <1>2, <2>1, <2>2
  <2>3. CASE ~(d = e /\ n = at[e])
    <3>1. job'[<<d, n>>] = job[<<d, n>>]
      BY <1>1, <2>3, JobNames
    <3>2. QED
      BY <1>2, <2>1, <2>3, <3>1 DEF Passed
  <2>4. QED
    BY <2>2, <2>3
<1>5. Returned'
  BY <1>2 DEF Returned
<1>6. QED
  BY <1>4, <1>5

(* The other steps of a dispatch leave the jobs as they are.               *)
LEMMA IdleStep ==
  ASSUME QueueInv, EventInv, [Next]_vars, UNCHANGED queueVars
  PROVE  Passed' /\ Returned'
<1> USE DEF EventInv, TypeOK, queueVars
<1>0. \A e \in Events : at[e] \in DOMAIN Listeners => ~Dispatch(<<e, at[e]>>)
  BY DispatchAdds, JobNames
<1>1. ASSUME NEW e \in Events, Raise(e)
      PROVE  Passed' /\ Returned'
  BY <1>1, JobNames DEF Raise, Passed, Returned, JobsOf
<1>2. ASSUME NEW e \in Events, Record(e)
      PROVE  Passed' /\ Returned'
  BY <1>2 DEF Record, Passed, Returned, JobsOf
<1>3. ASSUME NEW e \in Events, Mail(e)
      PROVE  Passed' /\ Returned'
  <2>1. /\ at[e] \in DOMAIN Listeners /\ Listeners[at[e]] = "sync"
        /\ outcome[e] = "none"
        /\ at' = [at EXCEPT ![e] = @ + 1]
        /\ UNCHANGED <<job, addressed, outcome>>
    BY <1>3 DEF Mail, Current, InDispatch, NextListener
  <2>2. ~addressed[e]
    BY <1>0, <1>3, <2>1 DEF Mail
  <2>3. <<e, at[e]>> \notin JobsOf(e)
    BY <2>1, <2>2 DEF JobsOf
  <2>4. \A d \in Events : JobsOf(d)' = JobsOf(d)
    BY <2>1 DEF JobsOf
  <2>5. Passed'
    <3> SUFFICES ASSUME NEW d \in Events, NEW n \in DOMAIN Listeners
                 PROVE  /\ job'[<<d, n>>].state # "none" =>
                             n < at'[d] \/ (n = at'[d] /\ outcome'[d] = "error")
                        /\ n < at'[d] /\ <<d, n>> \in JobsOf(d) =>
                             job'[<<d, n>>].state # "none"
      BY <2>4 DEF Passed
    <3>1. n \in Nat /\ at[d] \in Nat
      BY JobNames
    <3>2. CASE d = e /\ n = at[e]
      BY <2>1, <2>3, <3>1, <3>2 DEF Passed
    <3>3. CASE ~(d = e /\ n = at[e])
      BY <2>1, <3>1, <3>3 DEF Passed
    <3>4. QED
      BY <3>2, <3>3
  <2>6. Returned'
    BY <2>1 DEF Returned
  <2>7. QED
    BY <2>5, <2>6
<1>4. ASSUME NEW e \in Events, Return(e)
      PROVE  Passed' /\ Returned'
  BY <1>4, JobNames DEF Return, InDispatch, Passed, Returned, JobsOf
<1>5. ASSUME NEW e \in Events, DispatchError(e)
      PROVE  Passed' /\ Returned'
  BY <1>5 DEF DispatchError, Passed, Returned, JobsOf
<1>6. CASE ServerCrash
  BY <1>6 DEF ServerCrash, InDispatch, Passed, Returned, JobsOf
<1>7. CASE UNCHANGED eventVars
  BY <1>7 DEF eventVars, Passed, Returned, JobsOf
<1>8. ASSUME NEW e \in Events
      PROVE  ~QueueListener(e)
  BY <1>0 DEF QueueListener, Current
<1>9. QED
  BY <1>1, <1>2, <1>3, <1>4, <1>5, <1>6, <1>7, <1>8
     DEF Next, EventNext, vars

LEMMA EventInvStep ==
  ASSUME QueueInv, EventInv, [Next]_vars
  PROVE  EventInv'
<1>1. TypeOK'
  BY TypeOKStep DEF EventInv
<1>2. Passed' /\ Returned'
  <2>1. CASE QueueNext /\ UNCHANGED eventVars
    <3>1. \A e \in Events, n \in DOMAIN Listeners :
            job'[<<e, n>>].state = "none" <=> job[<<e, n>>].state = "none"
      BY <2>1, QueueKeepsJobs, JobNames
    <3>2. UNCHANGED eventVars
      BY <2>1
    <3>3. QED
      BY <3>1, <3>2 DEF eventVars, EventInv, Passed, Returned, JobsOf
  <2>2. QED
    BY <2>1, StepOfTheQueue, DispatchStep, IdleStep
<1>3. QED
  BY <1>1, <1>2 DEF EventInv

LEMMA Invariance == Spec => [](QueueInv /\ EventInv)
<1>1. QueueInv /\ EventInv /\ [Next]_vars => (QueueInv /\ EventInv)'
  BY QueueInvStep, EventInvStep
<1>2. QED
  BY Initially, <1>1, PTL DEF Spec

-----------------------------------------------------------------------------
(* Theorems.                                                               *)

(* Whatever EventDispatcher adds and the workers take, lose, retry and     *)
(* report, in any order, a job is in one of BullMQ's states, its attempts  *)
(* and stalls stay within their limits, and a dispatch never runs past the *)
(* end of its list of listeners.                                           *)
THEOREM NotificationsTypeOK == Spec => []TypeOK
<1>1. QueueInv /\ EventInv => TypeOK
  BY DEF EventInv
<1>2. QED
  BY Invariance, <1>1, PTL

(* A job is locked only by a worker that is alive and busy with it: an     *)
(* orderly shutdown leaves no locked job behind.                           *)
THEOREM LocksAreHeldByWorkers == Spec => []LockHolderWorks
<1>1. QueueInv /\ EventInv => LockHolderWorks
  BY DEF QueueInv
<1>2. QED
  BY Invariance, <1>1, PTL

(* A job is given up only when its attempts or its stalls are used up, and *)
(* SendMailJob has sent at most one mail more than there were failed       *)
(* attempts and stalls, although workers may act without their lock.       *)
THEOREM RetriesAreBounded == Spec => []RetriesAreCounted
<1>1. QueueInv => RetriesAreCounted
  <2> SUFFICES ASSUME QueueInv, NEW j \in Jobs
               PROVE  /\ job[j].state = "failed" =>
                           \/ job[j].attempts = Attempts
                           \/ job[j].stalls = MaxStalls + 1
                      /\ job[j].attempts + job[j].stalls
                           <= Attempts + MaxStalls
                      /\ sent[j] <= 1 + job[j].attempts + job[j].stalls
    BY DEF RetriesAreCounted
  <2> USE DEF QueueInv
  <2>1. /\ job[j].attempts \in Nat /\ job[j].stalls \in Nat
        /\ sent[j] \in Nat
    BY JobQueueAssumption DEF QueueTypeOK, JobRecord
  <2>2. /\ job[j].state = "failed" =>
             job[j].attempts = Attempts \/ job[j].stalls = MaxStalls + 1
        /\ job[j].attempts + job[j].stalls <= Attempts + MaxStalls
    BY <2>1, JobQueueAssumption DEF Counted
  <2>3. Cardinality(Handling(j)) \in Nat
        /\ sent[j] + Cardinality(Handling(j)) <= Taken(j)
    BY FS_CardinalityType DEF Budget
  <2>4. sent[j] <= 1 + job[j].attempts + job[j].stalls
    BY <2>1, <2>3 DEF Taken
  <2>5. QED
    BY <2>2, <2>4
<1>2. QED
  BY Invariance, <1>1, PTL

(* When the dispatch of an event returns, every queued listener and every  *)
(* mail to somebody with an address is in the queue.                       *)
THEOREM DispatchReturnsLast == Spec => []ReturnedMeansQueued
<1>1. EventInv => ReturnedMeansQueued
  <2> SUFFICES ASSUME EventInv, NEW e \in Events, outcome[e] = "ok",
                      NEW j \in JobsOf(e)
               PROVE  job[j].state # "none"
    BY DEF ReturnedMeansQueued
  <2>1. PICK n \in DOMAIN Listeners : j = <<e, n>>
    BY DEF JobsOf
  <2>2. n < at[e]
    BY <2>1, JobNames DEF EventInv, Returned
  <2>3. QED
    BY <2>1, <2>2 DEF EventInv, Passed
<1>2. QED
  BY Invariance, <1>1, PTL

(* An error stops the later listeners: no job is made of an event before   *)
(* every listener registered earlier has made its own.                     *)
THEOREM ListenersKeepTheirOrder == Spec => []ListenersInOrder
<1>1. EventInv => ListenersInOrder
  <2> SUFFICES ASSUME EventInv, NEW e \in Events, NEW n \in DOMAIN Listeners,
                      job[<<e, n>>].state # "none",
                      NEW i \in JobsOf(e), i[2] < n
               PROVE  job[i].state # "none"
    BY DEF ListenersInOrder
  <2>1. PICK m \in DOMAIN Listeners : i = <<e, m>>
    BY DEF JobsOf
  <2>2. n <= at[e] /\ n \in Nat /\ m \in Nat /\ at[e] \in Nat
    BY JobNames DEF EventInv, Passed, TypeOK
  <2>3. m < at[e]
    BY <2>1, <2>2
  <2>4. QED
    BY <2>1, <2>3 DEF EventInv, Passed
<1>2. QED
  BY Invariance, <1>1, PTL

-----------------------------------------------------------------------------
(* The refinement.                                                         *)

(* The status of a job, by its state.                                      *)
LEMMA StatusIs ==
  ASSUME QueueTypeOK, NEW j \in Jobs
  PROVE  /\ Status[j] = "unknown" <=> job[j].state = "none"
         /\ Status[j] = "done" <=> job[j].state = "completed"
         /\ Status[j] = "given up" <=> job[j].state = "failed"
         /\ Status[j] = "accepted" <=>
              job[j].state \in {"waiting", "active", "delayed"}
BY DEF QueueTypeOK, JobRecord, JobStates, Status

(* Steps that keep every job in its place keep the abstract state.         *)
LEMMA StatusKept ==
  ASSUME QueueTypeOK, QueueTypeOK',
         \A j \in Jobs :
           \/ job'[j].state = job[j].state
           \/ /\ job[j].state \in {"waiting", "active", "delayed"}
              /\ job'[j].state \in {"waiting", "active", "delayed"}
  PROVE  Status' = Status
BY DEF QueueTypeOK, JobRecord, Status

(* A step that moves one job moves one status.                             *)
LEMMA StatusMoved ==
  ASSUME NEW j \in Jobs, NEW s, Status'[j] = s,
         \A i \in Jobs \ {j} : job'[i] = job[i]
  PROVE  Status' = [Status EXCEPT ![j] = s]
<1>1. \A i \in Jobs \ {j} : Status'[i] = Status[i]
  BY DEF Status
<1>2. /\ Status = [i \in Jobs |-> Status[i]]
      /\ Status' = [i \in Jobs |-> Status'[i]]
  BY DEF Status
<1>3. QED
  BY <1>1, <1>2

LEMMA DeliveryInitially == Init => DeliverySpec!Init
BY DEF Init, QueueInit, DeliverySpec!Init, Status

LEMMA StatusIsNext ==
  ASSUME QueueTypeOK', NEW j \in Jobs
  PROVE  /\ Status'[j] = "unknown" <=> job'[j].state = "none"
         /\ Status'[j] = "done" <=> job'[j].state = "completed"
         /\ Status'[j] = "given up" <=> job'[j].state = "failed"
         /\ Status'[j] = "accepted" <=>
              job'[j].state \in {"waiting", "active", "delayed"}
BY DEF QueueTypeOK, JobRecord, JobStates, Status

LEMMA DispatchAccepts ==
  ASSUME QueueInv, QueueInv', NEW j \in Jobs, Dispatch(j)
  PROVE  DeliverySpec!Next
<1>1. Status[j] = "unknown" /\ Status'[j] = "accepted"
  <2>1. job[j].state = "none" /\ job'[j].state = "waiting"
    BY DEF Dispatch, QueueInv, QueueTypeOK, JobRecord
  <2>2. QED
    BY <2>1, StatusIs, StatusIsNext DEF QueueInv
<1>2. Status' = [Status EXCEPT ![j] = "accepted"]
  BY <1>1, StatusMoved, DispatchAdds
<1>3. UNCHANGED sent
  BY DEF Dispatch
<1>4. QED
  BY <1>1, <1>2, <1>3 DEF DeliverySpec!Accept, DeliverySpec!Next

LEMMA HandleDelivers ==
  ASSUME QueueInv, QueueInv', NEW w \in Workers, NEW j \in Jobs, Handle(w, j)
  PROVE  DeliverySpec!Next
<1>1. job[j].state # "none" /\ job' = job /\ sent' = [sent EXCEPT ![j] = @ + 1]
  BY DEF Handle, QueueInv, Runners
<1>2. Status[j] # "unknown" /\ Status' = Status
  BY <1>1, StatusIs DEF QueueInv, Status
<1>3. QED
  BY <1>1, <1>2 DEF DeliverySpec!Deliver, DeliverySpec!Next

LEMMA HandlerThrowsDelivers ==
  ASSUME QueueInv, QueueInv', NEW w \in Workers, NEW j \in Jobs,
         HandlerThrows(w, j)
  PROVE  DeliverySpec!Next \/ UNCHANGED <<Status, sent>>
<1> USE DEF QueueInv
<1>1. /\ job[j].state # "none"
      /\ UNCHANGED sent \/ sent' = [sent EXCEPT ![j] = @ + 1]
  BY DEF HandlerThrows, Runners
<1>2. Status[j] # "unknown"
  BY <1>1, StatusIs
<1>3. \A i \in Jobs \ {j} : job'[i] = job[i]
  BY DEF HandlerThrows, Report, Retry, QueueTypeOK
<1>4. \/ job' = job
      \/ /\ job[j].state = "active"
         /\ job'[j].state \in {"delayed", "failed"}
  <2>1. CASE job[j].lock = w
    <3>1. job[j].state = "active"
      BY <2>1, JobQueueAssumption DEF LockHolderWorks
    <3>2. job' = Retry(j)
      BY <2>1 DEF HandlerThrows, Report
    <3>3. job'[j].state \in {"delayed", "failed"}
      BY <3>2 DEF Retry, QueueTypeOK, JobRecord
    <3>4. QED
      BY <3>1, <3>3
  <2>2. CASE job[j].lock # w
    BY <2>2 DEF HandlerThrows, Report
  <2>3. QED
    BY <2>1, <2>2
<1>5. CASE job'[j].state # "failed" \/ job' = job
  <2>1. Status' = Status
    BY <1>3, <1>4, <1>5, StatusKept
  <2>2. QED
    BY <1>1, <1>2, <2>1 DEF DeliverySpec!Deliver, DeliverySpec!Next
<1>6. CASE job'[j].state = "failed" /\ job' # job
  <2>1. Status[j] = "accepted" /\ Status'[j] = "given up"
    BY <1>4, <1>6, StatusIs, StatusIsNext
  <2>2. Status' = [Status EXCEPT ![j] = "given up"]
    BY <1>3, <2>1, StatusMoved
  <2>3. QED
    BY <1>1, <1>2, <2>1, <2>2
       DEF DeliverySpec!Deliver, DeliverySpec!GiveUp, DeliverySpec!Next
<1>7. QED
  BY <1>5, <1>6

LEMMA CompleteFinishes ==
  ASSUME QueueInv, QueueInv', NEW w \in Workers, NEW j \in Jobs, Complete(w, j)
  PROVE  DeliverySpec!Next \/ UNCHANGED <<Status, sent>>
<1> USE DEF QueueInv
<1>1. CASE job[j].lock = w
  <2>1. job[j].state = "active" /\ job'[j].state = "completed"
    BY <1>1, JobQueueAssumption
       DEF Complete, Report, LockHolderWorks, QueueTypeOK, JobRecord
  <2>2. /\ \A i \in Jobs \ {j} : job'[i] = job[i]
        /\ sent[j] > 0 /\ UNCHANGED sent
    BY DEF Complete, Report, QueueTypeOK, Runners
  <2>3. Status[j] = "accepted" /\ Status'[j] = "done"
    BY <2>1, StatusIs, StatusIsNext
  <2>4. Status' = [Status EXCEPT ![j] = "done"]
    BY <2>2, <2>3, StatusMoved
  <2>5. QED
    BY <2>2, <2>3, <2>4 DEF DeliverySpec!Finish, DeliverySpec!Next
<1>2. CASE job[j].lock # w
  BY <1>2 DEF Complete, Report, Status
<1>3. QED
  BY <1>1, <1>2

LEMMA RecoverGivesUp ==
  ASSUME QueueInv, QueueInv', NEW j \in Jobs, Recover(j)
  PROVE  DeliverySpec!Next \/ UNCHANGED <<Status, sent>>
<1> USE DEF QueueInv
<1>1. /\ job[j].state = "active" /\ job'[j].state \in {"waiting", "failed"}
      /\ \A i \in Jobs \ {j} : job'[i] = job[i]
      /\ UNCHANGED sent
  BY DEF Recover, QueueTypeOK, JobRecord
<1>2. CASE job'[j].state = "waiting"
  BY <1>1, <1>2, StatusKept
<1>3. CASE job'[j].state = "failed"
  <2>1. Status[j] = "accepted" /\ Status'[j] = "given up"
    BY <1>1, <1>3, StatusIs, StatusIsNext
  <2>2. Status' = [Status EXCEPT ![j] = "given up"]
    BY <1>1, <2>1, StatusMoved
  <2>3. QED
    BY <1>1, <2>1, <2>2 DEF DeliverySpec!GiveUp, DeliverySpec!Next
<1>4. QED
  BY <1>1, <1>2, <1>3

(* Every step of dispatcher, queue and workers is one of the abstract      *)
(* module, or none at all.                                                 *)
LEMMA DeliveryStep ==
  QueueInv /\ QueueInv' /\ [Next]_vars => [DeliverySpec!Next]_<<Status, sent>>
<1> SUFFICES ASSUME QueueInv, QueueInv', [Next]_vars
             PROVE  DeliverySpec!Next \/ UNCHANGED <<Status, sent>>
  OBVIOUS
<1>1. CASE \E e \in Events :
             at[e] \in DOMAIN Listeners /\ Dispatch(<<e, at[e]>>)
  BY <1>1, DispatchAccepts, JobNames
<1>2. CASE QueueNext
  <2>1. ASSUME NEW w \in Workers, NEW j \in Jobs, Take(w, j)
        PROVE  UNCHANGED <<Status, sent>>
    <3>1. /\ job[j].state = "waiting" /\ job'[j].state = "active"
          /\ \A i \in Jobs \ {j} : job'[i] = job[i]
          /\ UNCHANGED sent
      BY <2>1 DEF Take, QueueInv, QueueTypeOK, JobRecord
    <3>2. QED
      BY <3>1, StatusKept DEF QueueInv
  <2>2. ASSUME NEW j \in Jobs, Promote(j)
        PROVE  UNCHANGED <<Status, sent>>
    <3>1. /\ job[j].state = "delayed" /\ job'[j].state = "waiting"
          /\ \A i \in Jobs \ {j} : job'[i] = job[i]
          /\ UNCHANGED sent
      BY <2>2 DEF Promote, QueueInv, QueueTypeOK, JobRecord
    <3>2. QED
      BY <3>1, StatusKept DEF QueueInv
  <2>3. ASSUME NEW w \in Workers, Crash(w) \/ LockLost(w)
        PROVE  UNCHANGED <<Status, sent>>
    <3>1. job' = Unlocked(w) /\ UNCHANGED sent
      BY <2>3 DEF Crash, LockLost
    <3>2. \A j \in Jobs : job'[j].state = job[j].state
      BY <3>1, UnlockedIs DEF QueueInv
    <3>3. QED
      BY <3>1, <3>2, StatusKept DEF QueueInv
  <2>4. ASSUME NEW w \in Workers, Shutdown(w) \/ Exit(w) \/ Restart(w)
        PROVE  UNCHANGED <<Status, sent>>
    BY <2>4 DEF Shutdown, Exit, Restart, Status
  <2>5. QED
    BY <1>2, <2>1, <2>2, <2>3, <2>4, HandleDelivers, HandlerThrowsDelivers,
       CompleteFinishes, RecoverGivesUp DEF QueueNext
<1>3. CASE UNCHANGED queueVars
  BY <1>3 DEF queueVars, Status
<1>4. QED
  BY <1>1, <1>2, <1>3, StepOfTheQueue

(* Dispatcher, queue and workers deliver at least once: a job is done only *)
(* after a delivery, or given up, never both, and never comes back,        *)
(* although locks are lost and errors and crashes make it run again.       *)
THEOREM QueueImplementsDelivery == Spec => ImplementsDelivery
<1>1. QueueInv /\ EventInv /\ (QueueInv /\ EventInv)' /\ [Next]_vars
        => [DeliverySpec!Next]_(DeliverySpec!deliveryVars)
  BY DeliveryStep DEF DeliverySpec!deliveryVars
<1>2. QED
  BY Invariance, DeliveryInitially, <1>1, PTL
     DEF Spec, ImplementsDelivery, DeliverySpec!Spec

=============================================================================
