-------------------------- MODULE MCNotifications --------------------------
(* Small instances of Notifications.                                       *)
EXTENDS Notifications

MCListeners == <<"sync", "queued">>
MCJobs == Events \X DOMAIN Listeners
(* The worker knows mail.send but, as deployed, no queued listener.        *)
MCRegistered == {j \in MCJobs : Listeners[j[2]] = "sync"}
=============================================================================
