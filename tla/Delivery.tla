------------------------------ MODULE Delivery ------------------------------
(***************************************************************************)
(* What the job queue promises: a job that was accepted is delivered at    *)
(* least once and then done, or given up; it is never both, and it never   *)
(* comes back.  A job may be delivered several times, and a delivery that  *)
(* was slow may come after the job was settled.                            *)
(***************************************************************************)
EXTENDS Naturals

CONSTANT Jobs

VARIABLES
  status,      (* "unknown", "accepted", "done" or "given up"              *)
  deliveries   (* how often each job was delivered                         *)

deliveryVars == <<status, deliveries>>

Init ==
  /\ status = [j \in Jobs |-> "unknown"]
  /\ deliveries = [j \in Jobs |-> 0]

Accept(j) ==
  /\ status[j] = "unknown"
  /\ status' = [status EXCEPT ![j] = "accepted"]
  /\ UNCHANGED deliveries

Deliver(j) ==
  /\ status[j] # "unknown"
  /\ deliveries' = [deliveries EXCEPT ![j] = @ + 1]
  /\ \/ UNCHANGED status
     \/ /\ status[j] = "accepted"
        /\ status' = [status EXCEPT ![j] = "given up"]

Finish(j) ==
  /\ status[j] = "accepted"
  /\ deliveries[j] > 0
  /\ status' = [status EXCEPT ![j] = "done"]
  /\ UNCHANGED deliveries

GiveUp(j) ==
  /\ status[j] = "accepted"
  /\ status' = [status EXCEPT ![j] = "given up"]
  /\ UNCHANGED deliveries

Next == \E j \in Jobs : Accept(j) \/ Deliver(j) \/ Finish(j) \/ GiveUp(j)

Spec == Init /\ [][Next]_deliveryVars

=============================================================================
