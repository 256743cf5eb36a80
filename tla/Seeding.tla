------------------------------ MODULE Seeding ------------------------------
(***************************************************************************)
(* "artisan db seed" beside a server in use.  The development seeder       *)
(* empties the tables and fills them again, in a process of its own and    *)
(* without a transaction:                                                  *)
(*                                                                         *)
(*   DELETE posts; DELETE slugs; DELETE users; INSERT the users one by     *)
(*   one; INSERT a token; create the posts, all at once, through           *)
(*   PostService.create                                                    *)
(*                                                                         *)
(* The posts API goes on as in Posts, whose tables these are.  Table users *)
(* is added: a post refers to its user, and goes with it (ON DELETE        *)
(* CASCADE).  Tokens are not in the model, and with them the first         *)
(* statement of the seeder: it stops no request that was authenticated     *)
(* before.  The post and user ids of a run are named after the run.        *)
(***************************************************************************)
EXTENDS Posts

CONSTANTS
  Addresses,
  Address,     (* Address[u]: the e-mail address of user row u             *)
  SeedUsers,   (* SeedUsers[n]: the users the n-th run inserts, in order   *)
  SeedPosts    (* SeedPosts[n]: the posts it creates, [owner, title] of    *)
               (* each id                                                  *)

Runs == DOMAIN SeedPosts

SeedIds == UNION {DOMAIN SeedPosts[n] : n \in Runs}

SeedRows == UNION {{SeedUsers[n][k] : k \in DOMAIN SeedUsers[n]} : n \in Runs}

ASSUME SeedingAssumption ==
  /\ Address \in [Users -> Addresses]
  /\ SeedUsers \in Seq(Seq(Users) \ {<<>>})
  /\ DOMAIN SeedUsers = Runs
  /\ \A n \in Runs : /\ DOMAIN SeedPosts[n] \subseteq Requests
                     /\ \A r \in DOMAIN SeedPosts[n] :
                          /\ SeedPosts[n][r].title \in Titles
                          /\ SeedPosts[n][r].owner \in Users
  /\ \A m, n \in Runs :
       m # n => DOMAIN SeedPosts[m] \cap DOMAIN SeedPosts[n] = {}

VARIABLES
  account,   (* table users: "never", "stored" or "removed" for each row   *)
  seed,      (* the run of the seeder, 0 before the first                  *)
  step,      (* its next statement                                         *)
  inserted,  (* how many users it has inserted                             *)
  outcome    (* "none", "running", "complete" or "failed"                  *)

seeder == <<seed, step, inserted, outcome>>
seedingVars == <<vars, account, seeder>>

SeederSteps == {"idle", "posts", "slugs", "users", "accounts", "token",
                "creating"}

SeedingInit ==
  /\ Init
  /\ account \in [Users -> {"never", "stored"}]
  /\ \A u \in SeedRows : account[u] = "never"
  /\ \A u, v \in Users : account[u] = "stored" /\ account[v] = "stored"
                           /\ Address[u] = Address[v] => u = v
  /\ \A i \in Legacy : posts[i] # NoRow /\ posts[i].owner # NoUser
                         => account[posts[i].owner] = "stored"
  /\ seed = 0
  /\ step = "idle"
  /\ inserted = 0
  /\ outcome = "none"

-----------------------------------------------------------------------------
(* Requests.                                                               *)

Web == Requests \ SeedIds

(* A web request's user was authenticated once, and may be gone by now.    *)
StartWeb(r) ==
  /\ GenerateSlug(r) \/ StartUpdate(r) \/ StartDelete(r) \/ Show(r)
  /\ req'[r].user # NoUser => account[req'[r].user] # "never"

(* The foreign key of posts.user_id; its error is not a duplicate.         *)
CheckedInsert(r) ==
  /\ pc[r] = "insertPost"
  /\ \/ account[req[r].user] = "stored" /\ InsertPost(r)
     \/ /\ account[req[r].user] # "stored"
        /\ ~PostSlugLocked(r)
        /\ Answer(r, "insertPost", "error")
        /\ UNCHANGED <<posts, slugs, req, applied, announced>>

Continue(r) ==
  \/ CheckedInsert(r) \/ PersistSlug(r) \/ Commit(r)
  \/ UpdateRow(r) \/ Reload(r) \/ DeleteRow(r) \/ Announce(r)

(* The failures are those of Posts; only the server has listeners.         *)
Serve(r) ==
  /\ \/ r \in Web /\ (StartWeb(r) \/ AnnounceFails(r))
     \/ Continue(r) \/ StatementFails(r)
     \/ CommitUnacknowledged(r) \/ DeleteUnacknowledged(r)
  /\ UNCHANGED <<account, seeder>>

(* The server dies; the seeder, a process of its own, goes on.             *)
ServerCrash ==
  LET Lost == Web \cap InFlight IN
  /\ "crash" \in Failures
  /\ Lost # {}
  /\ pc' = [r \in Requests |-> IF r \in Lost THEN "done" ELSE pc[r]]
  /\ answer' = [r \in Requests |-> IF r \in Lost THEN "lost" ELSE answer[r]]
  /\ UNCHANGED <<posts, slugs, req, applied, announced, account, seeder>>

(* POST /auth/register, or artisan user create.                            *)
AddressIsFree(u) ==
  \A v \in Users : account[v] = "stored" => Address[v] # Address[u]

Register(u) ==
  /\ u \notin SeedRows
  /\ account[u] = "never"
  /\ AddressIsFree(u)
  /\ account' = [account EXCEPT ![u] = "stored"]
  /\ UNCHANGED <<vars, seeder>>

-----------------------------------------------------------------------------
(* The seeder.                                                             *)

Busy == {r \in SeedIds : pc[r] \notin {"idle", "done"}}

(* The command is started again only after its process has ended, and that *)
(* waits for the transactions in progress.                                 *)
StartSeed ==
  /\ outcome # "running" /\ Busy = {}
  /\ seed + 1 \in Runs
  /\ seed' = seed + 1
  /\ step' = "posts"
  /\ inserted' = 0
  /\ outcome' = "running"
  /\ UNCHANGED <<vars, account>>

Advances(from, to) ==
  /\ outcome = "running"
  /\ step = from
  /\ step' = to
  /\ UNCHANGED <<seed, inserted, outcome>>

(* A DELETE without WHERE waits for rows of open transactions, which hold  *)
(* a post from its INSERT on and, for the foreign key, its user's row.     *)
OpenPostRows == {r \in Requests : pc[r] \in {"persistSlug", "commit"}}

OpenSlugRows == {r \in Requests : pc[r] = "commit"}

DeletePosts ==
  /\ Advances("posts", "slugs")
  /\ OpenPostRows = {}
  /\ posts' = [i \in Ids |-> NoRow]
  /\ UNCHANGED <<slugs, pc, req, answer, applied, announced, account>>

DeleteSlugs ==
  /\ Advances("slugs", "users")
  /\ OpenSlugRows = {}
  /\ slugs' = [i \in Ids |-> NoSlug]
  /\ UNCHANGED <<posts, pc, req, answer, applied, announced, account>>

(* Variant: posts.user_id is set to null when the user goes. *)
DeleteUsersSetNull ==
  /\ Advances("users", "accounts")
  /\ OpenPostRows = {}
  /\ account' = [u \in Users |->
                   IF account[u] = "stored" THEN "removed" ELSE account[u]]
  /\ posts' = [i \in Ids |->
                 IF posts[i] = NoRow THEN NoRow
                 ELSE [posts[i] EXCEPT !.owner = NoUser]]
  /\ UNCHANGED <<slugs, pc, req, answer, applied, announced>>

(* The posts made since the first statement go with their users.           *)
DeleteUsers ==
  /\ Advances("users", "accounts")
  /\ OpenPostRows = {}
  /\ account' = [u \in Users |->
                   IF account[u] = "stored" THEN "removed" ELSE account[u]]
  /\ posts' = [i \in Ids |->
                 IF posts[i] # NoRow /\ posts[i].owner # NoUser
                 THEN NoRow ELSE posts[i]]
  /\ UNCHANGED <<slugs, pc, req, answer, applied, announced>>

Fails ==
  /\ outcome = "running"
  /\ outcome' = "failed"
  /\ UNCHANGED <<seed, step, inserted>>

(* userFactory.create, one user after the other; an address that someone   *)
(* has registered meanwhile is a duplicate.                                *)
InsertUser ==
  /\ outcome = "running" /\ step = "accounts"
  /\ LET u == SeedUsers[seed][inserted + 1] IN
     \/ /\ AddressIsFree(u)
        /\ account' = [account EXCEPT ![u] = "stored"]
        /\ inserted' = inserted + 1
        /\ step' = IF inserted' = Len(SeedUsers[seed]) THEN "token" ELSE step
        /\ UNCHANGED <<seed, outcome>>
     \/ /\ ~AddressIsFree(u)
        /\ Fails
        /\ UNCHANGED account
  /\ UNCHANGED vars

InsertToken ==
  /\ Advances("token", "creating")
  /\ UNCHANGED <<vars, account>>

(* postFactory.create: PostService.create with a dispatcher of its own,    *)
(* which has no listeners.  Once begun, a creation goes on even if another *)
(* one fails: destroying the pool waits for its connection.                *)
CreateSeedPost(r) ==
  /\ step = "creating"
  /\ r \in DOMAIN SeedPosts[seed]
  /\ GenerateSlug(r)
  /\ req'[r].user = SeedPosts[seed][r].owner
  /\ req'[r].title = SeedPosts[seed][r].title
  /\ UNCHANGED <<account, seeder>>

(* Variant: Promise.allSettled. *)
CreationsSettle ==
  /\ outcome = "running" /\ step = "creating"
  /\ \A r \in DOMAIN SeedPosts[seed] : pc[r] = "done"
  /\ outcome' = "complete"
  /\ UNCHANGED <<vars, account, seed, step, inserted>>

(* Promise.all: complete when all are created, failed with the first that  *)
(* is not.                                                                 *)
CreationsEnd ==
  /\ step = "creating"
  /\ \/ /\ \E r \in DOMAIN SeedPosts[seed] :
             pc[r] = "done" /\ answer[r] # "created"
        /\ Fails
     \/ /\ outcome = "running"
        /\ \A r \in DOMAIN SeedPosts[seed] : answer[r] = "created"
        /\ outcome' = "complete"
        /\ UNCHANGED <<seed, step, inserted>>
  /\ UNCHANGED <<vars, account>>

(* A statement of the seeder fails, or a wait for a lock takes too long.   *)
SeederFails ==
  /\ "database" \in Failures
  /\ step # "creating"
  /\ Fails
  /\ UNCHANGED <<vars, account>>

(* The operator interrupts it: its open transactions are rolled back, and  *)
(* creations that still wait for a connection never begin.                 *)
Unfinished ==
  IF step = "creating"
  THEN {r \in DOMAIN SeedPosts[seed] : pc[r] # "done"}
  ELSE {}

SeederKilled ==
  /\ "crash" \in Failures
  /\ Fails
  /\ pc' = [r \in Requests |-> IF r \in Unfinished THEN "done" ELSE pc[r]]
  /\ answer' = [r \in Requests |->
                  IF r \in Unfinished THEN "lost" ELSE answer[r]]
  /\ UNCHANGED <<posts, slugs, req, applied, announced, account>>

SeedStep ==
  \/ DeletePosts \/ DeleteSlugs \/ DeleteUsers \/ InsertUser \/ InsertToken
  \/ CreationsEnd

SeedingNext ==
  \/ \E r \in Requests : Serve(r) \/ CreateSeedPost(r)
  \/ \E u \in Users : Register(u)
  \/ StartSeed \/ SeedStep \/ SeederFails \/ SeederKilled \/ ServerCrash

(* Each of the two processes goes on while one of its requests, its next   *)
(* statement or a creation of a post can.                                  *)
ServerStep ==
  \E r \in Web : Continue(r) /\ UNCHANGED <<account, seeder>>

SeederStep ==
  \/ SeedStep
  \/ \E r \in SeedIds : \/ Continue(r) /\ UNCHANGED <<account, seeder>>
                        \/ CreateSeedPost(r)

SeedingSpec ==
  /\ SeedingInit /\ [][SeedingNext]_seedingVars
  /\ WF_seedingVars(ServerStep)
  /\ WF_seedingVars(SeederStep)

-----------------------------------------------------------------------------
(* Properties.                                                             *)

SeedingTypeOK ==
  /\ TypeOK
  /\ account \in [Users -> {"never", "stored", "removed"}]
  /\ seed \in Runs \cup {0}
  /\ step \in SeederSteps
  /\ inserted \in Nat
  /\ outcome \in {"none", "running", "complete", "failed"}

(* The slugs of the posts and their mirror are torn apart only between the *)
(* seeder's DELETE of slugs and that of users, or when a run ended there;  *)
(* no post made at any other moment of its work, by anyone, loses its      *)
(* mirror, and the first statement of the next run repairs what an earlier *)
(* one has torn.                                                           *)
TornOnlyBySeeder ==
  MirrorAgrees \/ step = "users" \/ (step = "posts" /\ seed > 1)

(* A seed reported complete is whole: its users are there and each of its  *)
(* posts was stored under the slug that is mirrored, although requests ran *)
(* beside it.                                                              *)
CompleteSeedIsWhole ==
  outcome = "complete" =>
    /\ \A k \in DOMAIN SeedUsers[seed] : account[SeedUsers[seed][k]] = "stored"
    /\ \A r \in DOMAIN SeedPosts[seed] :
         answer[r] = "created" /\ slugs[r] = req[r].slug

(* Requests and seeder wait for each other's rows, and all of them end.    *)
AllEnd ==
  /\ EveryRequestEnds
  /\ outcome = "running" ~> outcome # "running"

=============================================================================
