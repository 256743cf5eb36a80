--------------------------- MODULE Notifications ---------------------------
(***************************************************************************)
(* From a domain event to a mail: the dispatcher calls the listeners of an *)
(* event in the order they were registered and awaits each.  A "sync"      *)
(* listener notifies on two channels, first in memory and then, if the     *)
(* notifiable has an address, by a mail.send job; a "queued" listener      *)
(* becomes an event.listener job.  An error stops the loop and reaches the *)
(* service that dispatched the event.  JobQueue is the rest of the way.    *)
(*                                                                         *)
(* The job that listener n makes of event e is named <<e, n>>.             *)
(***************************************************************************)
EXTENDS JobQueue, Sequences

CONSTANTS
  Events,      (* dispatched events                                        *)
  Listeners    (* what was registered: a sequence of "sync" and "queued"   *)

ASSUME NotificationsAssumption ==
  /\ Listeners \in Seq({"sync", "queued"})
  /\ Jobs = Events \X DOMAIN Listeners

VARIABLES
  at,          (* the listener each dispatch has come to, 0 before it      *)
  channel,     (* the channel its notification has come to                 *)
  addressed,   (* does its notifiable have an address?                     *)
  outcome,     (* what the service that dispatched it learns               *)
  memory       (* deliveries of InMemoryNotificationChannel                *)

eventVars == <<at, channel, addressed, outcome, memory>>

vars == <<queueVars, eventVars>>

Init ==
  /\ QueueInit
  /\ at = [e \in Events |-> 0]
  /\ channel = [e \in Events |-> "memory"]
  /\ addressed \in [Events -> BOOLEAN]
  /\ outcome = [e \in Events |-> "none"]
  /\ memory = {}

-----------------------------------------------------------------------------

InDispatch(e) == at[e] # 0 /\ outcome[e] = "none"

Current(e, mode) ==
  InDispatch(e) /\ at[e] \in DOMAIN Listeners /\ Listeners[at[e]] = mode

NextListener(e) ==
  /\ at' = [at EXCEPT ![e] = @ + 1]
  /\ channel' = [channel EXCEPT ![e] = "memory"]
  /\ UNCHANGED <<addressed, outcome, memory>>

Raise(e) ==
  /\ at[e] = 0
  /\ outcome[e] = "none"
  /\ at' = [at EXCEPT ![e] = 1]
  /\ UNCHANGED <<queueVars, channel, addressed, outcome, memory>>

Record(e) ==
  /\ Current(e, "sync") /\ channel[e] = "memory"
  /\ memory' = memory \cup {<<e, at[e]>>}
  /\ channel' = [channel EXCEPT ![e] = "mail"]
  /\ UNCHANGED <<queueVars, at, addressed, outcome>>

(* Variant: the channel does not await the dispatcher.                     *)
MailUnawaited(e) ==
  /\ Current(e, "sync") /\ channel[e] = "mail"
  /\ Dispatch(<<e, at[e]>>) \/ UNCHANGED queueVars
  /\ NextListener(e)

(* The mail channel: nothing without an address, else mail.send.           *)
Mail(e) ==
  /\ Current(e, "sync") /\ channel[e] = "mail"
  /\ \/ addressed[e] /\ Dispatch(<<e, at[e]>>)
     \/ ~addressed[e] /\ UNCHANGED queueVars
  /\ NextListener(e)

QueueListener(e) ==
  /\ Current(e, "queued")
  /\ Dispatch(<<e, at[e]>>)
  /\ NextListener(e)

Return(e) ==
  /\ InDispatch(e) /\ at[e] \notin DOMAIN Listeners
  /\ outcome' = [outcome EXCEPT ![e] = "ok"]
  /\ UNCHANGED <<queueVars, at, channel, addressed, memory>>

(* Does the next step of the dispatch add a job?                           *)
AddsJob(e) ==
  \/ Current(e, "queued")
  \/ Current(e, "sync") /\ channel[e] = "mail" /\ addressed[e]

(* Variant: the loop catches the error and goes on.                        *)
DispatchErrorSkipped(e) ==
  /\ AddsJob(e)
  /\ UNCHANGED queueVars
  /\ NextListener(e)

(* queue.add rejects, and the job may be in Redis all the same.            *)
DispatchError(e) ==
  /\ AddsJob(e)
  /\ Dispatch(<<e, at[e]>>) \/ UNCHANGED queueVars
  /\ outcome' = [outcome EXCEPT ![e] = "error"]
  /\ UNCHANGED <<at, channel, addressed, memory>>

(* The server process dies: dispatches in progress end and what the memory *)
(* channel holds is gone.                                                  *)
ServerCrash ==
  /\ \E e \in Events : InDispatch(e)
  /\ outcome' = [e \in Events |-> IF InDispatch(e) THEN "lost" ELSE outcome[e]]
  /\ memory' = {}
  /\ UNCHANGED <<queueVars, at, channel, addressed>>

EventNext ==
  \/ \E e \in Events :
       \/ Raise(e) \/ Record(e) \/ Mail(e) \/ QueueListener(e)
       \/ Return(e) \/ DispatchError(e)
  \/ ServerCrash

Next == EventNext \/ (QueueNext /\ UNCHANGED eventVars)

Spec == Init /\ [][Next]_vars

FairSpec == Spec /\ QueueFairness

-----------------------------------------------------------------------------
(* Properties.                                                             *)

TypeOK ==
  /\ QueueTypeOK
  /\ at \in [Events -> 0..(Len(Listeners) + 1)]
  /\ channel \in [Events -> {"memory", "mail"}]
  /\ addressed \in [Events -> BOOLEAN]
  /\ outcome \in [Events -> {"none", "ok", "error", "lost"}]
  /\ memory \subseteq Jobs

(* The listeners that make a job of event e.                               *)
JobsOf(e) ==
  {<<e, n>> : n \in {m \in DOMAIN Listeners :
                       Listeners[m] = "queued" \/ addressed[e]}}

(* A dispatch that returned has queued a job for every queued listener and *)
(* a mail for every notification of somebody with an address: the caller   *)
(* may answer its client.                                                  *)
ReturnedMeansQueued ==
  \A e \in Events : outcome[e] = "ok" =>
    \A j \in JobsOf(e) : job[j].state # "none"

(* Listeners act in order: a job exists only if every listener before it   *)
(* made its own, so that an error stops the later listeners.               *)
ListenersInOrder ==
  \A e \in Events, n \in DOMAIN Listeners :
    job[<<e, n>>].state # "none" =>
      \A i \in JobsOf(e) : i[2] < n => job[i].state # "none"

=============================================================================
