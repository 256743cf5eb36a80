-------------------------- MODULE SchedulerProofs ---------------------------
(* Theorems about Scheduler, for every list of tasks, all the chains that  *)
(* may define them, every set of instants and every number of failures.    *)
EXTENDS Scheduler, WellFoundedInduction, TLAPS

(* The inductive invariant.  Every run of a task comes from a tick, and    *)
(* makes one job or fails once before it is over ...                       *)
Counted ==
  \A t \in Tasks :
    /\ enqueued[t] + runs[t]["due"] + runs[t]["working"]
         + runs[t]["destroying"] <= ticks[t]
    /\ failed[t] + runs[t]["due"] + runs[t]["working"] <= ticks[t]

(* ... no task ticks but those that are registered, and only while the     *)
(* process is up ...                                                       *)
Ticking ==
  /\ ticking \subseteq Registered
  /\ ticking # {} => phase \in {"running", "halted"}

(* ... and a schedule with a mistake stops before its first tick.          *)
Unfinished ==
  /\ phase = "defining" => queue = "none"
  /\ (\E t \in Tasks : Throws(chain[t])) =>
       queue = "none" /\ phase \in {"defining", "exited"} /\ ticks = NoTicks
  /\ (\E t \in Tasks : Missing(chain[t])) => ticks = NoTicks

Numbers ==
  /\ runs \in [Tasks -> [Stages -> Nat]]
  /\ failed \in [Tasks -> Nat]
  /\ enqueued \in [Tasks -> Nat]
  /\ ticks \in [Tasks -> 0..MaxTicks]
  /\ failures \in 0..MaxFailures

Places ==
  /\ \A t \in Tasks : chain[t] \in Chains[t]
  /\ now \in Instants \cup {0}
  /\ phase \in {"defining", "starting", "running", "halted", "stopping", "exited"}
  /\ exitCode \in {0, 1}
  /\ ticking \subseteq Tasks
  /\ queue \in {"none", "open", "closed"}
  /\ pool \in {"open", "destroyed"}

IInv == Numbers /\ Places /\ Counted /\ Ticking /\ Unfinished

-----------------------------------------------------------------------------
(* Runs.                                                                   *)

LEMMA MovesRuns ==
  ASSUME Numbers, NEW t \in Tasks, NEW from \in Stages, NEW to \in Stages,
         from # to, Moves(t, from, to)
  PROVE  /\ runs' \in [Tasks -> [Stages -> Nat]]
         /\ runs[t][from] > 0
         /\ runs'[t][from] = runs[t][from] - 1
         /\ runs'[t][to] = runs[t][to] + 1
         /\ \A s \in Stages \ {from, to} : runs'[t][s] = runs[t][s]
         /\ \A u \in Tasks \ {t} : runs'[u] = runs[u]
<1> DEFINE one == [runs EXCEPT ![t][from] = @ - 1]
<1>1. /\ one \in [Tasks -> [Stages -> Nat]]
      /\ one[t][from] = runs[t][from] - 1
      /\ \A s \in Stages \ {from} : one[t][s] = runs[t][s]
      /\ \A u \in Tasks \ {t} : one[u] = runs[u]
  BY DEF Numbers, Moves
<1>2. runs' = [one EXCEPT ![t][to] = @ + 1] /\ runs[t][from] > 0
  BY DEF Moves
<1> HIDE DEF one
<1>3. QED
  BY <1>1, <1>2 DEF Numbers

LEMMA EndsRuns ==
  ASSUME Numbers, NEW t \in Tasks, NEW from \in Stages, Ends(t, from)
  PROVE  /\ runs' \in [Tasks -> [Stages -> Nat]]
         /\ runs[t][from] > 0
         /\ runs'[t][from] = runs[t][from] - 1
         /\ \A s \in Stages \ {from} : runs'[t][s] = runs[t][s]
         /\ \A u \in Tasks \ {t} : runs'[u] = runs[u]
BY DEF Numbers, Ends

LEMMA TickAdds ==
  ASSUME IInv, Tick
  PROVE  \E noticed \in SUBSET ticking :
           /\ now' \in Instants
           /\ \A t \in noticed : Due(chain[t], now')
           /\ noticed = {} => ticks' = ticks
           /\ ticks' \in [Tasks -> 0..MaxTicks]
           /\ \A t \in Tasks :
                ticks'[t] = IF t \in noticed THEN ticks[t] + 1 ELSE ticks[t]
           /\ runs' \in [Tasks -> [Stages -> Nat]]
           /\ \A t \in noticed : runs'[t]["due"] = runs[t]["due"] + 1
           /\ \A t \in Tasks, s \in Stages :
                t \notin noticed \/ s # "due" => runs'[t][s] = runs[t][s]
<1> USE DEF IInv, Numbers, Places
<1>1. PICK minute \in Instants, noticed \in SUBSET ticking :
        /\ now' = minute
        /\ \A t \in noticed : Due(chain[t], minute)
        /\ \A t \in noticed : ticks[t] < MaxTicks
        /\ ticks' = [t \in Tasks |->
                       IF t \in noticed THEN ticks[t] + 1 ELSE ticks[t]]
        /\ runs' = [t \in Tasks |->
                      IF t \in noticed
                      THEN [runs[t] EXCEPT !["due"] = @ + 1]
                      ELSE runs[t]]
  BY DEF Tick
<1>2. ASSUME NEW t \in Tasks
      PROVE  /\ ticks'[t] \in 0..MaxTicks
             /\ ticks'[t] = IF t \in noticed THEN ticks[t] + 1 ELSE ticks[t]
  BY <1>1, SchedulerAssumption
<1>3. noticed = {} => ticks' = ticks
  BY <1>1
<1>4. ASSUME NEW t \in Tasks
      PROVE  /\ runs'[t] \in [Stages -> Nat]
             /\ t \in noticed => runs'[t]["due"] = runs[t]["due"] + 1
             /\ \A s \in Stages :
                  t \notin noticed \/ s # "due" => runs'[t][s] = runs[t][s]
  BY <1>1 DEF Stages
<1>5. runs' \in [Tasks -> [Stages -> Nat]]
  BY <1>1, <1>4
<1>6. ticks' \in [Tasks -> 0..MaxTicks]
  BY <1>1, <1>2
<1>7. QED
  BY <1>1, <1>2, <1>3, <1>4, <1>5, <1>6

LEMMA Initially == Init => IInv
<1> SUFFICES ASSUME Init PROVE IInv
  OBVIOUS
<1>1. Numbers /\ Counted
  BY SchedulerAssumption DEF Init, Numbers, Counted, NoRuns, NoTicks, Stages
<1>2. Places
  BY DEF Init, Places
<1>3. Ticking /\ Unfinished
  BY DEF Init, Ticking, Unfinished
<1>4. QED
  BY <1>1, <1>2, <1>3 DEF IInv

(* What holds of the schedule depends on these only.                       *)
LEMMA ScheduleKept ==
  ASSUME Ticking, Unfinished, UNCHANGED <<chain, phase, ticking, queue, ticks>>
  PROVE  Ticking' /\ Unfinished'
BY DEF Ticking, Unfinished, Registered, RegisteredUpToInvalid

LEMMA BeginKeeps ==
  ASSUME IInv, NEW t \in Tasks, Begin(t)
  PROVE  IInv'
<1> USE DEF IInv, Begin
<1>1. /\ runs' \in [Tasks -> [Stages -> Nat]]
      /\ runs[t]["due"] > 0
      /\ runs'[t]["due"] = runs[t]["due"] - 1
      /\ runs'[t]["working"] = runs[t]["working"] + 1
      /\ runs'[t]["destroying"] = runs[t]["destroying"]
      /\ \A u \in Tasks \ {t} : runs'[u] = runs[u]
  BY MovesRuns DEF Stages
<1>2. /\ UNCHANGED <<chain, now, phase, ticking, queue, ticks>>
      /\ UNCHANGED <<exitCode, pool, failed, enqueued, failures>>
  BY DEF Moves
<1>3. Numbers' /\ Places'
  BY <1>1, <1>2 DEF Numbers, Places
<1>4. Counted'
  BY <1>1, <1>2 DEF Numbers, Counted, Stages
<1>5. QED
  BY <1>2, <1>3, <1>4, ScheduleKept

LEMMA QueryDatabaseKeeps ==
  ASSUME IInv, NEW t \in Tasks, QueryDatabase(t)
  PROVE  IInv'
<1> USE DEF IInv, QueryDatabase
<1>1. /\ runs' \in [Tasks -> [Stages -> Nat]]
      /\ runs[t]["working"] > 0
      /\ runs'[t]["due"] = runs[t]["due"]
      /\ runs'[t]["working"] = runs[t]["working"] - 1
      /\ runs'[t]["destroying"] = runs[t]["destroying"] + 1
      /\ \A u \in Tasks \ {t} : runs'[u] = runs[u]
  BY MovesRuns DEF Stages
<1>2. /\ UNCHANGED <<chain, now, phase, ticking, queue, ticks, pool, enqueued>>
      /\ exitCode' = exitCode \/ exitCode' = 1
      /\ failed' = failed \/ failed' = [failed EXCEPT ![t] = @ + 1]
      /\ failures' \in 0..MaxFailures
  BY SchedulerAssumption DEF Moves, Outage, Fails, Numbers
<1>3. failed' \in [Tasks -> Nat] /\ failed'[t] <= failed[t] + 1
      /\ \A u \in Tasks \ {t} : failed'[u] = failed[u]
  <2>1. failed \in [Tasks -> Nat]
    BY DEF Numbers
  <2> HIDE DEF IInv, QueryDatabase
  <2>2. QED
    BY <1>2, <2>1
<1>4. Numbers' /\ Places'
  BY <1>1, <1>2, <1>3 DEF Numbers, Places
<1>5. Counted'
  BY <1>1, <1>2, <1>3 DEF Numbers, Counted, Stages
<1>6. QED
  BY <1>2, <1>4, <1>5, ScheduleKept

LEMMA DestroyPoolKeeps ==
  ASSUME IInv, NEW t \in Tasks, DestroyPool(t)
  PROVE  IInv'
<1> USE DEF IInv, DestroyPool
<1>1. /\ runs' \in [Tasks -> [Stages -> Nat]]
      /\ runs[t]["destroying"] > 0
      /\ runs'[t]["due"] = runs[t]["due"]
      /\ runs'[t]["working"] = runs[t]["working"]
      /\ runs'[t]["destroying"] = runs[t]["destroying"] - 1
      /\ \A u \in Tasks \ {t} : runs'[u] = runs[u]
  BY EndsRuns DEF Stages
<1>2. /\ UNCHANGED <<chain, now, phase, ticking, queue, ticks>>
      /\ UNCHANGED <<exitCode, failed, enqueued, failures>>
      /\ pool' = "destroyed"
  BY DEF Ends
<1>3. Numbers' /\ Places'
  BY <1>1, <1>2 DEF Numbers, Places
<1>4. Counted'
  BY <1>1, <1>2 DEF Numbers, Counted, Stages
<1>5. QED
  BY <1>2, <1>3, <1>4, ScheduleKept

(* A run that ends makes one job at most, and fails once at most.          *)
LEMMA WorkEnds ==
  ASSUME IInv, NEW t \in Tasks, DispatchJob(t) \/ CallBack(t)
  PROVE  IInv'
<1> USE DEF IInv
<1>1. Ends(t, "working") /\ UNCHANGED <<exitCode, pool>>
  BY DEF DispatchJob, CallBack
<1>2. /\ runs' \in [Tasks -> [Stages -> Nat]]
      /\ runs[t]["working"] > 0
      /\ runs'[t]["due"] = runs[t]["due"]
      /\ runs'[t]["working"] = runs[t]["working"] - 1
      /\ runs'[t]["destroying"] = runs[t]["destroying"]
      /\ \A u \in Tasks \ {t} : runs'[u] = runs[u]
  BY <1>1, EndsRuns DEF Stages
<1>3. /\ UNCHANGED <<chain, now, phase, ticking, queue, ticks>>
      /\ failed' = failed \/ failed' = [failed EXCEPT ![t] = @ + 1]
      /\ enqueued' = enqueued \/ enqueued' = [enqueued EXCEPT ![t] = @ + 1]
      /\ failures' \in 0..MaxFailures
  BY SMTT(30), <1>1, SchedulerAssumption
     DEF DispatchJob, CallBack, Ends, Outage, Fails, AddJob, Numbers
<1>4. /\ failed' \in [Tasks -> Nat] /\ failed'[t] <= failed[t] + 1
      /\ enqueued' \in [Tasks -> Nat] /\ enqueued'[t] <= enqueued[t] + 1
      /\ \A u \in Tasks \ {t} : failed'[u] = failed[u] /\ enqueued'[u] = enqueued[u]
  BY <1>3 DEF Numbers
<1>5. Numbers' /\ Places'
  BY <1>1, <1>2, <1>3, <1>4 DEF Numbers, Places
<1>6. Counted'
  BY <1>2, <1>3, <1>4 DEF Numbers, Counted, Stages
<1>7. QED
  BY <1>3, <1>5, <1>6, ScheduleKept

LEMMA TickKeeps ==
  ASSUME IInv, Tick
  PROVE  IInv'
<1> USE DEF IInv
<1>1. PICK noticed \in SUBSET ticking :
        /\ now' \in Instants
        /\ \A t \in noticed : Due(chain[t], now')
        /\ noticed = {} => ticks' = ticks
        /\ ticks' \in [Tasks -> 0..MaxTicks]
        /\ \A t \in Tasks :
             ticks'[t] = IF t \in noticed THEN ticks[t] + 1 ELSE ticks[t]
        /\ runs' \in [Tasks -> [Stages -> Nat]]
        /\ \A t \in noticed : runs'[t]["due"] = runs[t]["due"] + 1
        /\ \A t \in Tasks, s \in Stages :
             t \notin noticed \/ s # "due" => runs'[t][s] = runs[t][s]
  BY TickAdds
<1>2. /\ UNCHANGED <<chain, phase, exitCode, ticking, queue, pool, failed,
                     enqueued, failures>>
      /\ phase \in {"running", "halted", "stopping"}
  BY DEF Tick, Alive
<1>3. Numbers' /\ Places'
  BY <1>1, <1>2 DEF Numbers, Places
<1>4. Counted'
  <2> SUFFICES ASSUME NEW t \in Tasks
               PROVE  /\ enqueued'[t] + runs'[t]["due"] + runs'[t]["working"]
                           + runs'[t]["destroying"] <= ticks'[t]
                      /\ failed'[t] + runs'[t]["due"] + runs'[t]["working"]
                           <= ticks'[t]
    BY DEF Counted
  <2>1. /\ runs'[t]["working"] = runs[t]["working"]
        /\ runs'[t]["destroying"] = runs[t]["destroying"]
        /\ \/ runs'[t]["due"] = runs[t]["due"] /\ ticks'[t] = ticks[t]
           \/ runs'[t]["due"] = runs[t]["due"] + 1 /\ ticks'[t] = ticks[t] + 1
    BY <1>1 DEF Stages
  <2>2. /\ runs[t]["due"] \in Nat /\ runs[t]["working"] \in Nat
        /\ runs[t]["destroying"] \in Nat /\ failed[t] \in Nat
        /\ enqueued[t] \in Nat /\ ticks[t] \in Nat
    BY <1>1, SchedulerAssumption DEF Numbers, Stages
  <2>3. QED
    BY <1>1, <1>2, <2>1, <2>2 DEF Counted
<1>5. Ticking'
  BY <1>2 DEF Ticking, Registered, RegisteredUpToInvalid
<1>6. Unfinished'
  <2>1. (\E t \in Tasks : Missing(chain[t])) => ticking = {}
    BY DEF Ticking, Registered
  <2>2. (\E t \in Tasks : Missing(chain[t])) => ticks' = ticks
    BY <1>1, <2>1
  <2>3. QED
    BY <1>2, <2>2 DEF Unfinished
<1>7. QED
  BY <1>3, <1>4, <1>5, <1>6

LEMMA ExitKeeps ==
  ASSUME IInv, NEW code \in {0, 1}, ExitWith(code),
         queue' \in {"open", "closed"} \/ queue' = queue,
         phase = "stopping" \/ queue' = queue,
         failures' \in 0..MaxFailures
  PROVE  IInv'
<1> USE DEF IInv, ExitWith
<1>1. Numbers' /\ Counted'
  BY DEF Numbers, Counted, NoRuns, Stages
<1>2. Places'
  BY DEF Places
<1>3. Ticking' /\ Unfinished'
  BY DEF Ticking, Unfinished
<1>4. QED
  BY <1>1, <1>2, <1>3

LEMMA PhaseKeeps ==
  ASSUME IInv, Define \/ Start \/ Stop \/ CloseQueue
  PROVE  IInv'
<1> USE DEF IInv
<1>1. Numbers' /\ Counted'
  BY DEF Define, Start, Stop, CloseQueue, runVars, Numbers, Counted
<1>2. CASE Define
  BY <1>1, <1>2 DEF Define, Places, Ticking, Unfinished, Registered,
                    RegisteredUpToInvalid, runVars
<1>3. CASE Start
  <2>1. Registered \subseteq Tasks /\ UNCHANGED chain
    BY <1>3 DEF Start, Registered, RegisteredUpToInvalid
  <2>2. Registered' = Registered
    BY <2>1 DEF Registered, RegisteredUpToInvalid
  <2>3. QED
    BY <1>1, <1>3, <2>1, <2>2 DEF Start, Places, Ticking, Unfinished, runVars
<1>4. CASE Stop \/ CloseQueue
  BY <1>1, <1>4 DEF Stop, CloseQueue, Places, Ticking, Unfinished, Registered,
                    RegisteredUpToInvalid, runVars
<1>5. QED
  BY <1>2, <1>3, <1>4

LEMMA IInvStep == IInv /\ [Next]_vars => IInv'
<1> SUFFICES ASSUME IInv, [Next]_vars PROVE IInv'
  OBVIOUS
<1>1. CASE Killed
  BY <1>1, ExitKeeps DEF Killed, IInv, Numbers
<1>2. CASE CloseQueueFails
  <2>1. failures' \in 0..MaxFailures
    BY <1>2, SchedulerAssumption DEF CloseQueueFails, Outage, IInv, Numbers
  <2>2. QED
    BY <1>2, <2>1, ExitKeeps DEF CloseQueueFails
<1>3. CASE Exit
  BY <1>3, ExitKeeps DEF Exit, IInv, Numbers
<1>4. ASSUME NEW t \in Tasks, UnknownCommand(t)
      PROVE  IInv'
  BY <1>4, ExitKeeps DEF UnknownCommand, IInv, Numbers
<1>5. CASE UNCHANGED vars
  BY <1>5 DEF vars, runVars, IInv, Numbers, Places, Counted, Ticking, Unfinished,
              Registered, RegisteredUpToInvalid
<1>6. QED
  BY <1>1, <1>2, <1>3, <1>4, <1>5, TickKeeps, PhaseKeeps, BeginKeeps,
     QueryDatabaseKeeps, DestroyPoolKeeps, WorkEnds DEF Next

LEMMA Invariance == Spec => []IInv
BY Initially, IInvStep, PTL DEF Spec

-----------------------------------------------------------------------------
(* Theorems.                                                               *)

(* The state of the scheduler process has its shape, and no task has more  *)
(* runs, failures or jobs than it may tick.                                *)
THEOREM SchedulerTypeOK == Spec => []TypeOK
<1>1. IInv => TypeOK
  <2> SUFFICES ASSUME IInv PROVE TypeOK
    OBVIOUS
  <2>1. ASSUME NEW t \in Tasks
        PROVE  /\ enqueued[t] \in 0..MaxTicks /\ failed[t] \in 0..MaxTicks
               /\ \A s \in Stages : runs[t][s] \in 0..MaxTicks
    BY SchedulerAssumption DEF IInv, Numbers, Counted, Stages
  <2>2. runs \in [Tasks -> [Stages -> 0..MaxTicks]]
    BY <2>1 DEF IInv, Numbers
  <2>3. QED
    BY <2>1, <2>2 DEF IInv, Numbers, Places, TypeOK
<1>2. QED
  BY Invariance, <1>1, PTL

(* A task never makes more jobs than it has ticked, however often the      *)
(* others tick: overlapping runs, errors of Redis and the shutdown make no *)
(* second job of a tick.                                                   *)
THEOREM TicksMakeOneJob == Spec => []OneJobPerTick
<1>1. IInv => OneJobPerTick
  BY DEF IInv, Numbers, Counted, Stages, OneJobPerTick
<1>2. QED
  BY Invariance, <1>1, PTL

(* A schedule with a task that has no frequency, or whose definition       *)
(* throws, never runs a task.                                              *)
THEOREM UnfinishedSchedulesDoNotRun == Spec => []UnfinishedScheduleNeverRuns
<1>1. IInv => UnfinishedScheduleNeverRuns
  BY DEF IInv, Unfinished, UnfinishedScheduleNeverRuns
<1>2. QED
  BY Invariance, <1>1, PTL

-----------------------------------------------------------------------------
(* The schedule.                                                           *)

(* A chain that has a frequency has a last one.                            *)
LEMMA LastExists ==
  ASSUME NEW n \in Nat, NEW S \in SUBSET (1..n), S # {}
  PROVE  \E k \in S : \A j \in S : j <= k
<1> DEFINE D == {m \in Nat : n - m \in S}
<1>1. D \in SUBSET Nat
  OBVIOUS
<1>2. PICK k \in S : TRUE
  OBVIOUS
<1>3. n - k \in D
  BY <1>2
<1>4. PICK m \in D : \A d \in D : m <= d
  <2> DEFINE Less == {ss \in Nat \X Nat : ss[1] < ss[2]}
  <2>1. IsWellFoundedOn(Less, Nat)
    BY NatLessThanWellFounded, Zenon DEF OpToRel
  <2>2. PICK m \in D : \A d \in D : ~(<<d, m>> \in Less)
    <3> HIDE DEF D, Less
    <3>1. QED
      BY <1>1, <1>3, <2>1, WFMin
  <2>3. ASSUME NEW d \in D PROVE m <= d
    <3>1. d \in Nat /\ m \in Nat
      OBVIOUS
    <3>2. d < m => <<d, m>> \in Less
      BY <3>1
    <3>3. QED
      BY <2>2, <3>1, <3>2
  <2>4. QED
    BY <2>3
<1>5. n - m \in S /\ m \in Nat
  BY <1>4
<1>6. ASSUME NEW j \in S
      PROVE  j <= n - m
  <2>1. n - j \in D /\ j \in Nat
    OBVIOUS
  <2>2. m <= n - j
    BY <1>4, <2>1
  <2>3. QED
    BY <1>5, <2>1, <2>2
<1>7. QED
  BY <1>5, <1>6

LEMMA LastFrequencyIs ==
  ASSUME NEW c \in Seq(Call), ~Missing(c)
  PROVE  \E k \in FrequencyCalls(c) :
           /\ \A j \in FrequencyCalls(c) : j <= k
           /\ c[k] = LastFrequency(c)
<1>1. FrequencyCalls(c) \in SUBSET (1..Len(c)) /\ Len(c) \in Nat
  BY DEF FrequencyCalls
<1>2. \E k \in FrequencyCalls(c) : \A j \in FrequencyCalls(c) : j <= k
  BY <1>1, LastExists DEF Missing
<1>3. QED
  BY <1>2 DEF LastFrequency

LEMMA AheadType ==
  ASSUME NEW c \in Seq(Call)
  PROVE  Ahead(c) \in Nat
<1> DEFINE zones == {k \in DOMAIN c : c[k].helper = "timezone"}
<1>1. zones \in SUBSET (1..Len(c)) /\ Len(c) \in Nat
  OBVIOUS
<1>2. CASE zones = {}
  BY <1>2 DEF Ahead
<1>3. CASE zones # {}
  <2>1. \E k \in zones : \A j \in zones : j <= k
    BY <1>1, <1>3, LastExists
  <2>2. PICK k \in zones : Ahead(c) = c[k].h
    BY <1>3, <2>1 DEF Ahead
  <2>3. c[k] \in Call
    BY <1>1
  <2>4. QED
    BY <2>2, <2>3 DEF Call
<1>4. QED
  BY <1>2, <1>3

(* The fields of an expression match a minute.                             *)
Matches(e, time) ==
  /\ time % 60 \in e.minute
  /\ (time \div 60) % 24 \in e.hour
  /\ DayOfMonth(time) \in e.day
  /\ Day(time) % 7 \in e.weekday

LEMMA IntervalArithmetic ==
  ASSUME NEW time \in Nat, NEW n \in Intervals, NEW k \in Minutes,
         time % 60 = n * k
  PROVE  time % n = 0
BY DEF Intervals, Minutes

(* What parseTime and the assert functions let pass.                       *)
LEMMA ValidArguments ==
  ASSUME NEW c, ArgumentsAreValid(c)
  PROVE  /\ c.helper = "everyMinutes" => c.n \in Intervals
         /\ c.helper \in {"dailyAt", "weeklyOn", "monthlyOn"} =>
              c.h \in Hours /\ c.n \in Minutes
         /\ c.helper = "weeklyOn" => c.d \in Weekdays
         /\ c.helper = "monthlyOn" => c.d \in MonthDays
<1> DEFINE valid ==
      [everyMinutes |-> c.n \in Intervals,
       hourlyAt     |-> c.n \in Minutes,
       dailyAt      |-> TimeIsValid(c),
       weeklyOn     |-> c.d \in Weekdays /\ TimeIsValid(c),
       monthlyOn    |-> c.d \in MonthDays /\ TimeIsValid(c),
       weekdays     |-> TRUE, weekends |-> TRUE,
       cron         |-> TRUE, timezone |-> TRUE]
<1>1. valid[c.helper]
  BY Zenon DEF ArgumentsAreValid
<1>2. /\ valid["everyMinutes"] = (c.n \in Intervals)
      /\ valid["dailyAt"] = TimeIsValid(c)
      /\ valid["weeklyOn"] = (c.d \in Weekdays /\ TimeIsValid(c))
      /\ valid["monthlyOn"] = (c.d \in MonthDays /\ TimeIsValid(c))
  BY Zenon
<1> HIDE DEF valid
<1>3. /\ c.helper = "everyMinutes" => c.n \in Intervals
      /\ c.helper = "dailyAt" => TimeIsValid(c)
      /\ c.helper = "weeklyOn" => c.d \in Weekdays /\ TimeIsValid(c)
      /\ c.helper = "monthlyOn" => c.d \in MonthDays /\ TimeIsValid(c)
  BY <1>1, <1>2, Zenon
<1>4. QED
  BY <1>3 DEF TimeIsValid

LEMMA ExpressionIs ==
  ASSUME NEW c
  PROVE  /\ c.helper = "everyMinutes" =>
              Expression(c).minute = {c.n * k : k \in Minutes} \cap Minutes
         /\ c.helper = "hourlyAt" => Expression(c).minute = {c.n}
         /\ c.helper \in {"dailyAt", "weeklyOn", "monthlyOn"} =>
              Expression(c).minute = {c.n} /\ Expression(c).hour = {c.h}
         /\ c.helper \in {"weekdays", "weekends"} =>
              Expression(c).minute = {0} /\ Expression(c).hour = {0}
         /\ c.helper = "weeklyOn" => Expression(c).weekday = {c.d}
         /\ c.helper = "cron" =>
              /\ Expression(c).minute = {c.n} /\ Expression(c).hour = {c.h}
              /\ Expression(c).weekday = {c.d % 7}
         /\ c.helper = "monthlyOn" => Expression(c).day = {c.d}
         /\ c.helper = "weekdays" => Expression(c).weekday = 1..5
         /\ c.helper = "weekends" => Expression(c).weekday = {0, 6}
<1>1. /\ c.helper = "everyMinutes" =>
           Expression(c) = Fields({c.n * k : k \in Minutes} \cap Minutes, Hours,
                                  MonthDays, Weekdays)
      /\ c.helper = "hourlyAt" =>
           Expression(c) = Fields({c.n}, Hours, MonthDays, Weekdays)
      /\ c.helper = "dailyAt" =>
           Expression(c) = Fields({c.n}, {c.h}, MonthDays, Weekdays)
  BY SMT DEF Expression
<1>2. /\ c.helper = "weeklyOn" =>
           Expression(c) = Fields({c.n}, {c.h}, MonthDays, {c.d})
      /\ c.helper = "monthlyOn" =>
           Expression(c) = Fields({c.n}, {c.h}, {c.d}, Weekdays)
      /\ c.helper = "weekdays" => Expression(c) = Fields({0}, {0}, MonthDays, 1..5)
      /\ c.helper = "weekends" =>
           Expression(c) = Fields({0}, {0}, MonthDays, {0, 6})
      /\ c.helper = "cron" =>
           Expression(c) = Fields({c.n}, {c.h}, MonthDays, {c.d % 7})
  BY SMT DEF Expression
<1>3. QED
  BY <1>1, <1>2 DEF Fields

(* What a helper writes matches only what it is called.                    *)
LEMMA HelperIsNamed ==
  ASSUME NEW c \in Call, c.helper \in FrequencyHelpers,
         ArgumentsAreValid(c), NEW time \in Nat, Matches(Expression(c), time)
  PROVE  Named(c, time)
<1>0. PICK n, h, d, w :
        /\ n = time % 60 /\ h = (time \div 60) % 24
        /\ d = Day(time) /\ w = Day(time) % 7
  OBVIOUS
<1>1. /\ n \in Expression(c).minute /\ h \in Expression(c).hour
      /\ DayOfMonth(time) \in Expression(c).day /\ w \in Expression(c).weekday
  BY <1>0 DEF Matches
<1>2. /\ n \in Nat /\ h \in Nat /\ d \in Nat /\ w \in Nat
      /\ time % 1440 = 60 * h + n
      /\ time % 10080 = 1440 * w + (60 * h + n)
      /\ time = 1440 * d + (60 * h + n)
  BY <1>0 DEF Day
<1>3. CASE c.helper = "everyMinutes"
  <2>1. PICK k \in Minutes : n = c.n * k
    BY <1>1, <1>3, ExpressionIs
  <2>2. time % c.n = 0
    BY <1>0, <1>3, <2>1, IntervalArithmetic, ValidArguments
  <2>3. QED
    BY <1>3, <2>2 DEF Named
<1>4. CASE c.helper = "hourlyAt"
  BY <1>0, <1>1, <1>4, ExpressionIs DEF Named
<1>5. CASE c.helper = "dailyAt"
  <2>1. n = c.n /\ h = c.h
    BY <1>1, <1>5, ExpressionIs
  <2>2. QED
    BY <1>2, <1>5, <2>1 DEF Named
<1>6. CASE c.helper = "weeklyOn"
  <2>1. n = c.n /\ h = c.h /\ w = c.d
    BY <1>1, <1>6, ExpressionIs
  <2>2. QED
    BY <1>2, <1>6, <2>1 DEF Named
<1>7. CASE c.helper = "monthlyOn"
  <2>1. n = c.n /\ h = c.h /\ c.d \in MonthDays /\ DayOfMonth(time) = c.d
    BY <1>1, <1>7, ExpressionIs, ValidArguments
  <2>2. c.d = IF d < 28 THEN d + 1 ELSE d - 27
    BY <1>0, <2>1 DEF DayOfMonth
  <2>3. \/ c.d <= 28 /\ time = 0 + 1440 * (c.d - 1) + (60 * c.h + c.n)
        \/ time = 40320 + 1440 * (c.d - 1) + (60 * c.h + c.n)
    BY <1>2, <2>1, <2>2
  <2>4. QED
    BY <1>7, <2>3 DEF Named
<1>8. CASE c.helper \in {"weekdays", "weekends"}
  <2>1. n = 0 /\ h = 0
    BY <1>1, <1>8, ExpressionIs
  <2>2. time % 10080 = 1440 * w
    BY <1>2, <2>1
  <2>3. CASE c.helper = "weekdays"
    BY <1>1, <2>2, <2>3, ExpressionIs DEF Named
  <2>4. CASE c.helper = "weekends"
    <3>1. w = 0 \/ w = 6
      BY <1>1, <2>4, ExpressionIs
    <3>2. time % 10080 = 0 \/ time % 10080 = 6 * 1440
      BY <2>2, <3>1
    <3>3. QED
      BY <2>4, <3>2 DEF Named
  <2>5. QED
    BY <1>8, <2>3, <2>4
<1>9. CASE c.helper = "cron"
  <2>1. n = c.n /\ h = c.h /\ w = c.d % 7
    BY <1>1, <1>9, ExpressionIs
  <2>2. QED
    BY <1>2, <1>9, <2>1 DEF Named
<1>10. QED
  BY <1>3, <1>4, <1>5, <1>6, <1>7, <1>8, <1>9 DEF FrequencyHelpers

(* No step but a tick makes a run due.                                     *)
LEMMA OnlyTicksMakeRunsDue ==
  ASSUME IInv, [Next]_vars, NEW t \in Tasks, runs'[t]["due"] > runs[t]["due"]
  PROVE  Tick
<1> USE DEF IInv, Numbers
<1>1. runs[t]["due"] \in Nat
  BY DEF Stages
<1>2. ASSUME NEW u \in Tasks, Begin(u) \/ QueryDatabase(u)
      PROVE  FALSE
  <2>1. PICK from \in Stages, to \in Stages :
          /\ Moves(u, from, to) /\ from # to
          /\ to # "due"
    BY <1>2 DEF Begin, QueryDatabase, Stages
  <2>2. runs'[t]["due"] \in {runs[t]["due"], runs[t]["due"] - 1}
    BY <2>1, MovesRuns DEF Stages
  <2>3. QED
    BY <1>1, <2>2
<1>3. ASSUME NEW u \in Tasks, DestroyPool(u) \/ DispatchJob(u) \/ CallBack(u)
      PROVE  FALSE
  <2>1. PICK from \in Stages : Ends(u, from)
    BY <1>3 DEF DestroyPool, DispatchJob, CallBack, Stages
  <2>2. runs'[t]["due"] \in {runs[t]["due"], runs[t]["due"] - 1}
    BY <2>1, EndsRuns DEF Stages
  <2>3. QED
    BY <1>1, <2>2
<1>4. ASSUME NEW code, ExitWith(code)
      PROVE  FALSE
  BY <1>1, <1>4 DEF ExitWith, NoRuns, Stages
<1>5. CASE UNCHANGED runs
  BY <1>1, <1>5
<1>6. QED
  BY <1>2, <1>3, <1>4, <1>5
     DEF Next, Define, Start, Stop, Killed, CloseQueue, CloseQueueFails, Exit,
         UnknownCommand, vars, runVars

(* A task ticks only in a minute that the last frequency of its definition *)
(* names, in its own time zone.                                            *)
THEOREM TicksComeWhenNamed == Spec => TicksAreNamed
<1>1. ASSUME IInv, [Next]_vars, NEW t \in Tasks,
             runs'[t]["due"] > runs[t]["due"]
      PROVE  \E k \in FrequencyCalls(chain[t]) :
               /\ \A j \in FrequencyCalls(chain[t]) : j <= k
               /\ Named(chain[t][k], now' + 60 * Ahead(chain[t]))
  <2>1. Tick
    BY <1>1, OnlyTicksMakeRunsDue
  <2>2. PICK noticed \in SUBSET ticking :
          /\ now' \in Instants
          /\ \A u \in noticed : Due(chain[u], now')
          /\ t \notin noticed => runs'[t]["due"] = runs[t]["due"]
    BY <1>1, <2>1, TickAdds DEF Stages
  <2>3. /\ t \in ticking /\ Due(chain[t], now')
        /\ now' \in Nat
    <3>1. runs[t]["due"] \in Nat
      BY <1>1 DEF IInv, Numbers, Stages
    <3>2. QED
      BY <1>1, <2>2, <3>1, SchedulerAssumption
  <2>4. chain[t] \in Seq(Call)
    BY <1>1, SchedulerAssumption DEF IInv, Places, Tasks
  <2>5. ~Missing(chain[t]) /\ ~Throws(chain[t])
    <3>1. t \in Registered
      BY <1>1, <2>3 DEF IInv, Ticking
    <3>2. ~Missing(chain[t])
      BY <3>1 DEF Registered
    <3>3. ~Throws(chain[t])
      BY <1>1, <2>1 DEF Tick, Alive, IInv, Unfinished
    <3>4. QED
      BY <3>2, <3>3
  <2>6. PICK k \in FrequencyCalls(chain[t]) :
          /\ \A j \in FrequencyCalls(chain[t]) : j <= k
          /\ chain[t][k] = LastFrequency(chain[t])
    BY <2>4, <2>5, LastFrequencyIs
  <2> DEFINE c == chain[t][k]
             time == now' + 60 * Ahead(chain[t])
  <2>7. /\ c \in Call /\ c.helper \in FrequencyHelpers
        /\ ArgumentsAreValid(c)
    BY <2>4, <2>5, <2>6 DEF FrequencyCalls, Throws
  <2>8. time \in Nat
    BY <2>3, <2>4, AheadType
  <2>9. Matches(Expression(c), time)
    BY <2>3, <2>6 DEF Due, Matches
  <2>10. Named(c, time)
    BY <2>7, <2>8, <2>9, HelperIsNamed
  <2>11. QED
    BY <2>6, <2>10
<1>2. IInv /\ [Next]_vars =>
        [\A t \in Tasks : runs'[t]["due"] > runs[t]["due"] =>
           \E k \in FrequencyCalls(chain[t]) :
             /\ \A j \in FrequencyCalls(chain[t]) : j <= k
             /\ Named(chain[t][k], now' + 60 * Ahead(chain[t]))]_vars
  BY <1>1
<1>3. QED
  BY Invariance, <1>2, PTL DEF Spec, TicksAreNamed

=============================================================================
