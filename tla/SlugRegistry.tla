---------------------------- MODULE SlugRegistry ----------------------------
(***************************************************************************)
(* What the slug subsystem promises, without transactions, requests or     *)
(* failures: a registry that hands each slug to at most one post and never *)
(* takes it back.  A post is live while its row exists; deleting it leaves *)
(* its slug assigned, so an old address can stop resolving but can never   *)
(* start to show somebody else's post.                                     *)
(*                                                                         *)
(* Posts that were stored before the slugs table existed (Legacy) have no  *)
(* registry row of their own: their slug is protected by the posts table   *)
(* only while the post is live, and is free again afterwards.              *)
(***************************************************************************)

CONSTANTS
  Ids,      (* identities of posts, the ones never used yet included       *)
  Legacy,   (* posts older than the slugs table                            *)
  Slugs,    (* the values of a slug column                                 *)
  NoSlug    (* no slug assigned                                            *)

VARIABLES
  slugOf,   (* the slug assigned to each post                              *)
  live      (* the posts that exist                                        *)

registryVars == <<slugOf, live>>

Assigned == {i \in Ids : slugOf[i] # NoSlug}

Injective == \A i, j \in Assigned : slugOf[i] = slugOf[j] => i = j

Init ==
  /\ slugOf \in [Ids -> Slugs \cup {NoSlug}]
  /\ live \subseteq Legacy
  /\ Assigned = live
  /\ Injective

(* A new post gets a slug that no other post has or ever had. *)
Issue(i) ==
  /\ i \notin Legacy
  /\ slugOf[i] = NoSlug
  /\ live' = live \cup {i}
  /\ \E s \in Slugs :
       /\ \A j \in Ids : slugOf[j] # s
       /\ slugOf' = [slugOf EXCEPT ![i] = s]

(* A post goes away; only a legacy post gives its slug back. *)
Retire(i) ==
  /\ i \in live
  /\ live' = live \ {i}
  /\ slugOf' = IF i \in Legacy THEN [slugOf EXCEPT ![i] = NoSlug] ELSE slugOf

Next == \E i \in Ids : Issue(i) \/ Retire(i)

Spec == Init /\ [][Next]_registryVars

=============================================================================
