--------------------------- MODULE SeedingProofs ---------------------------
(* Theorems about Seeding, for any number of runs of the seeder, of users  *)
(* and posts in each of them, of requests beside it and of people who      *)
(* register meanwhile, and any set of failures.                            *)
EXTENDS Seeding, PostsProofs

-----------------------------------------------------------------------------
(* The inductive invariant.  A post that the API stores has an owner who   *)
(* can be deleted, so the third DELETE of the seeder takes every post with *)
(* it that its second one has torn ...                                     *)
Owned ==
  \A r \in Requests : posts[r] # NoRow => posts[r].owner \in Users

(* ... what the seeder is doing belongs to a run, and it reports success   *)
(* only when that run has come to its posts ...                            *)
Course ==
  /\ seed = 0 <=> step = "idle"
  /\ outcome = "running" => seed # 0
  /\ outcome = "complete" => step = "creating"

(* ... the posts of a run are created only when it has come to them, and   *)
(* those of earlier runs are over or never began ...                       *)
OfRun(n) == DOMAIN SeedPosts[n]

Begun ==
  \A n \in Runs : \A r \in OfRun(n) :
    /\ pc[r] \in {"idle", "announce", "done"} \cup Creating
    /\ pc[r] # "idle" =>
         \/ n < seed /\ pc[r] = "done"
         \/ n = seed /\ step = "creating"

Told == \A r \in Requests : answer[r] # "none" => pc[r] = "done"

(* ... before that a run stores one user after the other, and nobody       *)
(* deletes them ...                                                        *)
Accounts ==
  /\ step \in {"posts", "slugs", "users"} => inserted = 0
  /\ step = "accounts" => inserted < Len(SeedUsers[seed])
  /\ step \in {"token", "creating"} => inserted = Len(SeedUsers[seed])
  /\ step \in {"accounts", "token", "creating"} =>
       \A k \in 1..inserted : account[SeedUsers[seed][k]] = "stored"

(* ... the slug of a post that a run has created stays mirrored, and a     *)
(* complete run has created all of its posts.                              *)
Mirrored ==
  step = "creating" =>
    \A r \in OfRun(seed) :
      pc[r] = "announce" \/ answer[r] = "created" => slugs[r] = req[r].slug

Complete ==
  outcome = "complete" => \A r \in OfRun(seed) : answer[r] = "created"

SeedingTyping == SeedingTypeOK /\ Typing

SeedingInv ==
  /\ SeedingTyping /\ Owned /\ Course /\ Begun /\ Told /\ Accounts
  /\ Unstored /\ Mirrored /\ Complete /\ TornOnlyBySeeder

-----------------------------------------------------------------------------
(* The runs of the seeder, as their constants describe them.               *)
LEMMA RunsAre ==
  /\ Runs \subseteq Nat \ {0}
  /\ \A n \in Runs :
       /\ OfRun(n) \subseteq Requests
       /\ SeedUsers[n] \in Seq(Users) /\ Len(SeedUsers[n]) # 0
       /\ \A m \in Runs, r \in OfRun(n) : r \in OfRun(m) => m = n
  /\ \A r : r \in SeedIds <=> \E n \in Runs : r \in OfRun(n)
<1>1. Runs \subseteq Nat \ {0}
  BY SeedingAssumption
<1>2. ASSUME NEW n \in Runs
      PROVE  SeedUsers[n] \in Seq(Users) /\ Len(SeedUsers[n]) # 0
  <2>1. SeedUsers[n] \in Seq(Users) \ {<<>>}
    BY SeedingAssumption
  <2>2. QED
    BY <2>1
<1>3. ASSUME NEW n \in Runs, NEW m \in Runs, NEW r \in OfRun(n), r \in OfRun(m)
      PROVE  m = n
  BY <1>3, SeedingAssumption DEF OfRun
<1>4. \A n \in Runs : OfRun(n) \subseteq Requests
  BY SeedingAssumption DEF OfRun
<1>5. QED
  BY <1>1, <1>2, <1>3, <1>4 DEF SeedIds, OfRun

LEMMA SeedingInitially == SeedingInit => SeedingInv
<1> SUFFICES ASSUME SeedingInit PROVE SeedingInv
  OBVIOUS
<1>1. Init
  BY DEF SeedingInit
<1>2. SlugInv /\ Typing /\ Unstored /\ MirrorAgrees
  BY <1>1, SlugInvInit DEF SlugInv
<1>3. SeedingTyping
  BY <1>2 DEF SeedingInit, SeedingTyping, SeedingTypeOK, Typing, SeederSteps
<1>4. Owned
  BY <1>1, PostsAssumption DEF Init, Owned, Ids
<1>5. Begun /\ Told
  BY <1>1, RunsAre DEF Init, Begun, Told
<1>6. Course /\ Accounts /\ Mirrored /\ Complete /\ TornOnlyBySeeder
  BY <1>2 DEF SeedingInit, Course, Accounts, Mirrored, Complete,
     TornOnlyBySeeder
<1>7. QED
  BY <1>2, <1>3, <1>4, <1>5, <1>6 DEF SeedingInv

-----------------------------------------------------------------------------
(* A step of a request, as the seeder sees it.  It stores a post and its   *)
(* slug together, or leaves the slugs alone and makes no post.             *)
Stores(r) ==
  /\ pc[r] = "commit" /\ pc'[r] \in {"announce", "done"}
  /\ StoreRows(r)

KeepsTables ==
  /\ slugs' = slugs
  /\ \A i \in Ids :
       posts'[i] # NoRow =>
         /\ posts[i] # NoRow
         /\ posts'[i].owner = posts[i].owner
         /\ posts'[i].slug = posts[i].slug

Moves(r) ==
  /\ \A q \in Requests \ {r} :
       pc'[q] = pc[q] /\ req'[q] = req[q] /\ answer'[q] = answer[q]
  /\ pc[r] # "done" /\ pc'[r] # "idle"
  /\ pc[r] # "idle" => req'[r] = req[r]
  /\ pc[r] \in Creating => pc'[r] \in {"announce", "done"} \cup Creating
  /\ pc[r] = "announce" => pc'[r] = "done"
  /\ pc'[r] \in Creating => pc[r] \in {"idle"} \cup Creating
  /\ \/ answer'[r] = answer[r]
     \/ /\ pc'[r] = "done"
        /\ answer'[r] = "created" => pc[r] = "announce"

Serves(r) ==
  /\ Moves(r)
  /\ \/ Stores(r)
     \/ /\ KeepsTables
        /\ pc[r] \in Creating => pc'[r] # "announce"

LEMMA RequestStep ==
  ASSUME Typing, NEW r \in Requests,
         \/ GenerateSlug(r) \/ StartUpdate(r) \/ StartDelete(r) \/ Show(r)
         \/ CheckedInsert(r) \/ PersistSlug(r) \/ Commit(r)
         \/ UpdateRow(r) \/ Reload(r) \/ DeleteRow(r) \/ Announce(r)
         \/ AnnounceFails(r) \/ StatementFails(r)
         \/ CommitUnacknowledged(r) \/ DeleteUnacknowledged(r)
  PROVE  Typing' /\ Serves(r)
<1> USE DEF TypeOK, Serves, Moves, Creating, Holding
<1>1. ASSUME Next PROVE Typing'
  BY <1>1, TypingNext
<1>2. ASSUME posts' = posts, slugs' = slugs PROVE KeepsTables
  BY <1>2 DEF KeepsTables
<1>3. CASE GenerateSlug(r)
  BY <1>1, <1>2, <1>3 DEF GenerateSlug, Goto, Next, Create, Typing
<1>4. CASE StartUpdate(r) \/ StartDelete(r)
  <2>1. PICK op \in {"update", "delete"}, t \in Titles \cup {NoTitle} :
          BindForWrite(r, op, t)
    BY <1>4 DEF StartUpdate, StartDelete
  <2>2. /\ pc[r] = "idle" /\ posts' = posts /\ slugs' = slugs
        /\ pc' = [pc EXCEPT ![r] = "done"] \/ pc' = [pc EXCEPT ![r] = op]
        /\ \/ answer' = answer
           \/ /\ pc' = [pc EXCEPT ![r] = "done"]
              /\ \E a \in {"notFound", "forbidden"} :
                   answer' = [answer EXCEPT ![r] = a]
    BY <2>1 DEF BindForWrite, Answer, Goto, Refusal
  <2>3. \A q \in Requests \ {r} : req'[q] = req[q]
    BY <2>1 DEF BindForWrite, Bind, Typing
  <2>4. Typing'
    BY <1>1, <1>4 DEF Next, Update, Delete
  <2>5. QED
    BY <1>2, <2>2, <2>3, <2>4 DEF Typing
<1>5. CASE Show(r)
  BY <1>1, <1>2, <1>5 DEF Show, Answer, Goto, Next, Typing
<1>6. CASE CheckedInsert(r)
  <2>1. CASE InsertPost(r)
    BY <1>1, <1>2, <2>1 DEF InsertPost, Answer, Goto, Next, Create, Typing
  <2>2. CASE /\ Answer(r, "insertPost", "error")
             /\ UNCHANGED <<posts, slugs, req, applied, announced>>
    <3>1. Typing'
      BY <2>2 DEF Answer, Goto, Typing, CreateData, UpdateData, Steps, Answers
    <3>2. QED
      BY <1>2, <2>2, <3>1 DEF Answer, Goto, Typing
  <2>3. QED
    BY <1>6, <2>1, <2>2 DEF CheckedInsert
<1>7. CASE PersistSlug(r)
  BY <1>1, <1>2, <1>7 DEF PersistSlug, Answer, Goto, Next, Create, Typing
<1>8. CASE Commit(r)
  BY <1>1, <1>8 DEF Commit, Stores, Goto, Next, Create, Typing
<1>9. CASE UpdateRow(r)
  <2>1. KeepsTables
    BY <1>9 DEF UpdateRow, KeepsTables, Typing, PostRow, RequestData
  <2>2. QED
    BY <1>1, <1>9, <2>1 DEF UpdateRow, Goto, Next, Update, Typing
<1>10. CASE Reload(r)
  BY <1>1, <1>2, <1>10 DEF Reload, Answer, Goto, Next, Update, Typing
<1>11. CASE DeleteRow(r)
  <2>1. KeepsTables
    BY <1>11 DEF DeleteRow, KeepsTables, Typing, RequestData
  <2>2. QED
    BY <1>1, <1>11, <2>1 DEF DeleteRow, Answer, Goto, Next, Delete, Typing
<1>12. CASE Announce(r)
  BY <1>1, <1>2, <1>12 DEF Announce, Answer, Goto, Next, Typing
<1>13. CASE StatementFails(r) \/ AnnounceFails(r)
  BY <1>1, <1>2, <1>13
     DEF StatementFails, AnnounceFails, Answer, Goto, Next, Fail, Typing
<1>14. CASE CommitUnacknowledged(r)
  BY <1>1, <1>14 DEF CommitUnacknowledged, Stores, Answer, Goto, Next, Fail, Typing
<1>15. CASE DeleteUnacknowledged(r)
  <2>1. KeepsTables
    BY <1>15 DEF DeleteUnacknowledged, KeepsTables, Typing, RequestData
  <2>2. QED
    BY <1>1, <1>15, <2>1 DEF DeleteUnacknowledged, Answer, Goto, Next, Fail, Typing
<1>16. QED
  BY <1>3, <1>4, <1>5, <1>6, <1>7, <1>8, <1>9, <1>10, <1>11, <1>12, <1>13,
     <1>14, <1>15

(* The requests leave the seeder alone, and only the seeder begins its own. *)
LEMMA ServeIs ==
  ASSUME Typing, NEW r \in Requests, Serve(r)
  PROVE  /\ Typing' /\ Serves(r)
         /\ r \in SeedIds => pc[r] # "idle"
         /\ UNCHANGED <<account, seed, step, inserted, outcome>>
<1>1. Typing' /\ Serves(r)
  BY RequestStep DEF Serve, StartWeb, Continue
<1>2. r \in SeedIds => pc[r] # "idle"
  BY DEF Serve, Web, Continue, CheckedInsert, PersistSlug, Commit, UpdateRow,
     Reload, DeleteRow, Announce, StatementFails, CommitUnacknowledged,
     DeleteUnacknowledged, Answer, Goto
<1>3. QED
  BY <1>1, <1>2 DEF Serve, seeder

(* A step of a request changes the two tables alike, unless posts are torn *)
(* already.                                                                *)
LEMMA ServesKeepsTables ==
  ASSUME Typing, Typing', Owned, Unstored, NEW r \in Requests, Serves(r)
  PROVE  /\ Owned' /\ Unstored'
         /\ MirrorAgrees => MirrorAgrees'
         /\ \A q \in Requests : slugs'[q] = slugs[q] \/ (q = r /\ Stores(r))
         /\ Stores(r) => slugs'[r] = req[r].slug
<1> USE DEF Typing, TypeOK
<1>1. CASE Stores(r)
  <2>1. pc[r] = "commit" /\ pc'[r] \in {"announce", "done"} /\ StoreRows(r)
    BY <1>1 DEF Stores
  <2>2. posts[r] = NoRow /\ slugs[r] = NoSlug /\ req[r].user \in Users
    BY <2>1 DEF Unstored, CreateData, Creating, Holding
  <2>3. /\ slugs' = [slugs EXCEPT ![r] = req[r].slug]
        /\ posts' = [posts EXCEPT ![r] = [owner |-> req[r].user,
                                          title |-> req[r].title,
                                          slug |-> req[r].slug]]
    BY <2>1, <2>2 DEF StoreRows
  <2>4. r \in Ids /\ Requests \subseteq Ids
    BY DEF Ids
  <2>5. Owned'
    BY <2>2, <2>3, <2>4 DEF Owned
  <2>6. Unstored'
    BY <1>1, <2>1, <2>3, <2>4 DEF Unstored, Serves, Moves, Creating, Holding
  <2>7. MirrorAgrees => MirrorAgrees'
    BY <2>3, <2>4 DEF MirrorAgrees
  <2>8. QED
    BY <1>1, <2>3, <2>4, <2>5, <2>6, <2>7
<1>2. CASE KeepsTables
  <2>1. \A q \in Requests :
          /\ slugs'[q] = slugs[q]
          /\ posts'[q] # NoRow =>
               /\ posts[q] # NoRow
               /\ posts'[q].owner = posts[q].owner
               /\ posts'[q].slug = posts[q].slug
    BY <1>2 DEF KeepsTables, Ids
  <2>2. Owned' /\ (MirrorAgrees => MirrorAgrees')
    BY <2>1 DEF Owned, MirrorAgrees
  <2>3. Unstored'
    BY <2>1 DEF Unstored, Serves, Moves
  <2>4. ~Stores(r) \/ slugs'[r] = req[r].slug
    <3>1. ASSUME Stores(r) PROVE slugs'[r] = req[r].slug
      BY <3>1 DEF Stores, StoreRows, Unstored, Creating, Holding, Ids
    <3>2. QED
      BY <3>1
  <2>5. QED
    BY <2>1, <2>2, <2>3, <2>4
<1>3. QED
  BY <1>1, <1>2 DEF Serves

LEMMA ServeKeepsInv ==
  ASSUME SeedingInv, NEW r \in Requests, Serve(r)
  PROVE  SeedingInv'
<1> USE DEF SeedingInv, SeedingTyping
<1>1. /\ Typing' /\ Serves(r) /\ Moves(r)
      /\ r \in SeedIds => pc[r] # "idle"
      /\ UNCHANGED <<account, seed, step, inserted, outcome>>
  BY ServeIs DEF Serves
<1>2. /\ Owned' /\ Unstored'
      /\ MirrorAgrees => MirrorAgrees'
      /\ \A q \in Requests : slugs'[q] = slugs[q] \/ (q = r /\ Stores(r))
      /\ Stores(r) => slugs'[r] = req[r].slug
  BY <1>1, ServesKeepsTables
<1>3. SeedingTyping' /\ Course' /\ Accounts' /\ TornOnlyBySeeder'
  BY <1>1, <1>2 DEF SeedingTypeOK, Typing, Course, Accounts, TornOnlyBySeeder
<1>4. Begun'
  <2>1. ASSUME NEW n \in Runs, NEW q \in OfRun(n)
        PROVE  /\ pc'[q] \in {"idle", "announce", "done"} \cup Creating
               /\ pc'[q] # "idle" =>
                    \/ n < seed /\ pc'[q] = "done"
                    \/ n = seed /\ step = "creating"
    <3>1. q \in Requests /\ q \in SeedIds
      BY RunsAre
    <3>2. CASE q = r
      BY <1>1, <3>1, <3>2 DEF Begun, Moves
    <3>3. CASE q # r
      BY <1>1, <3>1, <3>3 DEF Begun, Moves
    <3>4. QED
      BY <3>2, <3>3
  <2>2. QED
    BY <1>1, <2>1 DEF Begun
<1>5. Told'
  BY <1>1 DEF Told, Moves
<1>6. Mirrored'
  <2>1. ASSUME step = "creating", NEW q \in OfRun(seed),
               pc'[q] = "announce" \/ answer'[q] = "created"
        PROVE  slugs'[q] = req'[q].slug
    <3>1. seed \in Runs /\ q \in Requests /\ q \in SeedIds
      BY <2>1, RunsAre DEF Course, SeedingTypeOK
    <3>2. CASE q # r
      BY <1>1, <1>2, <2>1, <3>1, <3>2 DEF Mirrored, Moves
    <3>3. CASE q = r /\ Stores(r)
      BY <1>1, <1>2, <3>1, <3>3 DEF Moves
    <3>4. CASE q = r /\ ~Stores(r)
      <4>1. pc[r] # "idle" /\ req'[r] = req[r] /\ slugs'[r] = slugs[r]
        BY <1>1, <1>2, <3>1, <3>4 DEF Moves
      <4>2. pc[r] \in {"announce", "done"} \cup Creating
        BY <3>1, <3>4, <4>1, <2>1 DEF Begun
      <4>3. pc'[r] # "announce"
        BY <1>1, <3>4, <4>2 DEF Serves, Moves
      <4>4. pc[r] = "announce" \/ answer[r] = "created"
        BY <1>1, <2>1, <3>4, <4>3 DEF Moves
      <4>5. QED
        BY <2>1, <3>4, <4>1, <4>4 DEF Mirrored
    <3>5. QED
      BY <3>2, <3>3, <3>4
  <2>2. QED
    BY <1>1, <2>1 DEF Mirrored
<1>7. Complete'
  <2>1. ASSUME outcome = "complete", NEW q \in OfRun(seed)
        PROVE  answer'[q] = "created"
    <3>1. seed \in Runs /\ q \in Requests
      BY <2>1, RunsAre DEF Course, SeedingTypeOK
    <3>2. answer[q] = "created" /\ pc[q] = "done"
      BY <2>1, <3>1 DEF Complete, Told
    <3>3. QED
      BY <1>1, <3>1, <3>2 DEF Moves
  <2>2. QED
    BY <1>1, <2>1 DEF Complete
<1>8. QED
  BY <1>2, <1>3, <1>4, <1>5, <1>6, <1>7

LEMMA CreateSeedPostKeepsInv ==
  ASSUME SeedingInv, NEW r \in Requests, CreateSeedPost(r)
  PROVE  SeedingInv'
<1> USE DEF SeedingInv, SeedingTyping
<1>1. /\ step = "creating" /\ r \in OfRun(seed) /\ seed \in Runs
      /\ pc[r] = "idle" /\ pc' = [pc EXCEPT ![r] = "insertPost"]
      /\ UNCHANGED <<posts, slugs, answer, account, seed, step, inserted,
                     outcome>>
  BY DEF CreateSeedPost, GenerateSlug, Goto, seeder, OfRun, Course,
     SeedingTypeOK
<1>2. Typing' /\ Serves(r) /\ Moves(r)
  BY RequestStep DEF CreateSeedPost, Serves
<1>3. Owned' /\ Unstored' /\ (MirrorAgrees => MirrorAgrees')
  BY <1>2, ServesKeepsTables
<1>4. answer[r] = "none"
  BY <1>1 DEF Told
<1>5. SeedingTyping' /\ Course' /\ Accounts' /\ TornOnlyBySeeder' /\ Told'
  BY <1>1, <1>2, <1>3, <1>4
     DEF SeedingTypeOK, Typing, TypeOK, Course, Accounts, TornOnlyBySeeder,
         Told
<1>6. Begun'
  <2>1. ASSUME NEW n \in Runs, NEW q \in OfRun(n)
        PROVE  /\ pc'[q] \in {"idle", "announce", "done"} \cup Creating
               /\ pc'[q] # "idle" =>
                    \/ n < seed /\ pc'[q] = "done"
                    \/ n = seed /\ step = "creating"
    <3>1. q \in Requests
      BY RunsAre
    <3>2. CASE q = r
      <4>1. n = seed
        BY <1>1, <3>2, RunsAre
      <4>2. QED
        BY <1>1, <3>1, <3>2, <4>1 DEF Creating, Typing, TypeOK
    <3>3. CASE q # r
      BY <1>1, <3>1, <3>3 DEF Begun, Typing, TypeOK
    <3>4. QED
      BY <3>2, <3>3
  <2>2. QED
    BY <1>1, <2>1 DEF Begun
<1>7. Mirrored'
  <2>1. \A q \in OfRun(seed) :
          pc'[q] = "announce" \/ answer'[q] = "created"
            => slugs'[q] = req'[q].slug
    BY <1>1, <1>2, <1>4, RunsAre DEF Mirrored, Moves, Typing, TypeOK
  <2>2. QED
    BY <1>1, <2>1 DEF Mirrored
<1>8. Complete'
  BY <1>1 DEF Complete
<1>9. QED
  BY <1>3, <1>5, <1>6, <1>7, <1>8

-----------------------------------------------------------------------------
(* The steps that leave the posts and their requests alone.                *)
LEMMA RegisterKeepsInv ==
  ASSUME SeedingInv, NEW u \in Users, Register(u)
  PROVE  SeedingInv'
<1> USE DEF SeedingInv, SeedingTyping
<1>1. /\ UNCHANGED <<posts, slugs, pc, req, answer, applied, announced>>
      /\ UNCHANGED <<seed, step, inserted, outcome>>
      /\ account' = [account EXCEPT ![u] = "stored"]
  BY DEF Register, vars, seeder
<1>2. \A v \in Users : account[v] = "stored" => account'[v] = "stored"
  BY <1>1 DEF SeedingTypeOK
<1>3. Accounts'
  <2>1. ASSUME step \in {"accounts", "token", "creating"},
               NEW k \in 1..inserted
        PROVE  account'[SeedUsers[seed][k]] = "stored"
    <3>1. seed \in Runs /\ inserted \in Nat /\ inserted <= Len(SeedUsers[seed])
      BY <2>1, RunsAre DEF Accounts, Course, SeedingTypeOK
    <3>2. SeedUsers[seed][k] \in Users
      BY <3>1, RunsAre
    <3>3. QED
      BY <1>2, <2>1, <3>2 DEF Accounts
  <2>2. QED
    BY <1>1, <2>1 DEF Accounts
<1>4. SeedingTyping'
  BY <1>1 DEF SeedingTypeOK, Typing, TypeOK, CreateData, UpdateData
<1>5. /\ Owned' /\ Course' /\ Begun' /\ Told' /\ Unstored' /\ Mirrored'
      /\ Complete' /\ TornOnlyBySeeder'
  BY <1>1 DEF Owned, Course, Begun, Told, Unstored, Mirrored, Complete,
     TornOnlyBySeeder, MirrorAgrees
<1>6. QED
  BY <1>3, <1>4, <1>5

LEMMA StartSeedKeepsInv ==
  ASSUME SeedingInv, StartSeed
  PROVE  SeedingInv'
<1> USE DEF SeedingInv, SeedingTyping
<1>1. /\ UNCHANGED <<posts, slugs, pc, req, answer, applied, announced,
                     account>>
      /\ Busy = {}
      /\ seed' = seed + 1 /\ seed + 1 \in Runs /\ seed \in Nat
      /\ step' = "posts" /\ inserted' = 0 /\ outcome' = "running"
  BY RunsAre DEF StartSeed, vars, SeedingTypeOK
<1>2. Begun'
  <2>1. ASSUME NEW n \in Runs, NEW q \in OfRun(n), pc[q] # "idle"
        PROVE  n < seed + 1 /\ pc[q] = "done"
    <3>1. q \in SeedIds /\ n \in Nat
      BY RunsAre
    <3>2. pc[q] = "done"
      BY <1>1, <2>1, <3>1 DEF Busy
    <3>3. n < seed \/ n = seed
      BY <2>1 DEF Begun
    <3>4. QED
      BY <1>1, <3>1, <3>2, <3>3
  <2>2. QED
    BY <1>1, <2>1 DEF Begun
<1>3. SeedingTyping'
  BY <1>1 DEF SeedingTypeOK, SeederSteps, Typing, TypeOK, CreateData,
     UpdateData
<1>4. Owned' /\ Told' /\ Unstored'
  BY <1>1 DEF Owned, Told, Unstored
<1>5. Course' /\ Accounts' /\ Mirrored' /\ Complete'
  BY <1>1 DEF Course, Accounts, Mirrored, Complete
<1>6. TornOnlyBySeeder'
  <2>1. CASE MirrorAgrees
    BY <1>1, <2>1 DEF TornOnlyBySeeder, MirrorAgrees
  <2>2. CASE ~MirrorAgrees
    <3>1. seed # 0
      BY <2>2 DEF TornOnlyBySeeder, Course
    <3>2. QED
      BY <1>1, <3>1 DEF TornOnlyBySeeder
  <2>3. QED
    BY <2>1, <2>2
<1>7. QED
  BY <1>2, <1>3, <1>4, <1>5, <1>6

-----------------------------------------------------------------------------
(* The deletions.                                                          *)
LEMMA DeletionsKeepInv ==
  ASSUME SeedingInv, DeletePosts \/ DeleteSlugs \/ DeleteUsers
  PROVE  SeedingInv'
<1> USE DEF SeedingInv, SeedingTyping
<1>1. /\ UNCHANGED <<pc, req, answer, applied, announced>>
      /\ UNCHANGED <<seed, inserted, outcome>>
      /\ outcome = "running" /\ step \in {"posts", "slugs", "users"}
      /\ step' \in {"slugs", "users", "accounts"}
  BY DEF DeletePosts, DeleteSlugs, DeleteUsers, Advances
<1>2. seed \in Runs /\ inserted = 0
  BY <1>1 DEF Course, Accounts, SeedingTypeOK
<1>3. /\ slugs' \in [Ids -> Slug \cup {NoSlug}]
      /\ posts' \in [Ids -> PostRow \cup {NoRow}]
      /\ account' \in [Users -> {"never", "stored", "removed"}]
      /\ \A i \in Ids : /\ posts'[i] = posts[i] \/ posts'[i] = NoRow
                        /\ slugs'[i] = slugs[i] \/ slugs'[i] = NoSlug
  <2> USE DEF SeedingTypeOK, TypeOK
  <2>1. CASE DeletePosts
    BY <2>1 DEF DeletePosts
  <2>2. CASE DeleteSlugs
    BY <2>2 DEF DeleteSlugs
  <2>3. CASE DeleteUsers
    BY <2>3 DEF DeleteUsers
  <2>4. QED
    BY <2>1, <2>2, <2>3
<1>4. SeedingTyping'
  BY <1>1, <1>3 DEF SeedingTypeOK, SeederSteps, Typing, TypeOK, CreateData,
     UpdateData
<1>5. Owned' /\ Unstored'
  BY <1>1, <1>3 DEF Owned, Unstored, Ids
<1>6. Told' /\ Complete' /\ Mirrored' /\ Course'
  BY <1>1, <1>2 DEF Told, Complete, Mirrored, Course
<1>7. Begun'
  BY <1>1 DEF Begun
<1>8. Accounts'
  <2>1. Len(SeedUsers[seed]) \in Nat \ {0}
    BY <1>2, RunsAre
  <2>2. QED
    BY <1>1, <1>2, <2>1 DEF Accounts
<1>9. TornOnlyBySeeder'
  <2>1. CASE DeletePosts
    BY <2>1 DEF DeletePosts, TornOnlyBySeeder, MirrorAgrees, Ids
  <2>2. CASE DeleteSlugs
    BY <2>2 DEF DeleteSlugs, Advances, TornOnlyBySeeder
  <2>3. CASE DeleteUsers
    <3>1. \A r \in Requests : posts'[r] = NoRow
      BY <2>3, PostsAssumption DEF DeleteUsers, Owned, Ids
    <3>2. QED
      BY <3>1 DEF TornOnlyBySeeder, MirrorAgrees
  <2>4. QED
    BY <2>1, <2>2, <2>3
<1>10. QED
  BY <1>4, <1>5, <1>6, <1>7, <1>8, <1>9

-----------------------------------------------------------------------------
(* The insertions, and the end of a run.                                   *)
LEMMA InsertUserKeepsInv ==
  ASSUME SeedingInv, InsertUser
  PROVE  SeedingInv'
<1> USE DEF SeedingInv, SeedingTyping
<1>1. /\ UNCHANGED <<posts, slugs, pc, req, answer, applied, announced>>
      /\ seed' = seed /\ step = "accounts" /\ outcome = "running"
  BY DEF InsertUser, Fails, vars
<1>2. /\ seed \in Runs /\ inserted \in Nat
      /\ Len(SeedUsers[seed]) \in Nat
      /\ inserted + 1 \in 1..Len(SeedUsers[seed])
      /\ \A k \in 1..(inserted + 1) : SeedUsers[seed][k] \in Users
  <2>1. seed \in Runs /\ inserted \in Nat /\ inserted < Len(SeedUsers[seed])
    BY <1>1 DEF Course, Accounts, SeedingTypeOK
  <2>2. SeedUsers[seed] \in Seq(Users)
    BY <2>1, RunsAre
  <2>3. QED
    BY <2>1, <2>2
<1>3. PICK u \in Users : u = SeedUsers[seed][inserted + 1]
  BY <1>2
<1>4. /\ step' \in {"accounts", "token"} /\ outcome' \in {"running", "failed"}
      /\ inserted' \in Nat
      /\ account' \in [Users -> {"never", "stored", "removed"}]
      /\ Accounts'
  <2>1. CASE /\ account' = [account EXCEPT ![u] = "stored"]
             /\ inserted' = inserted + 1
             /\ step' = IF inserted' = Len(SeedUsers[seed])
                        THEN "token" ELSE step
             /\ UNCHANGED <<seed, outcome>>
    <3>1. /\ step' \in {"accounts", "token"}
          /\ account' \in [Users -> {"never", "stored", "removed"}]
          /\ inserted' \in Nat /\ outcome' = "running"
      BY <1>1, <1>2, <2>1 DEF SeedingTypeOK
    <3>2. ASSUME NEW k \in 1..(inserted + 1)
          PROVE  account'[SeedUsers[seed][k]] = "stored"
      <4>1. CASE SeedUsers[seed][k] = u
        BY <2>1, <4>1 DEF SeedingTypeOK
      <4>2. CASE SeedUsers[seed][k] # u
        <5>1. k \in 1..inserted
          BY <1>2, <1>3, <4>2
        <5>2. account[SeedUsers[seed][k]] = "stored"
          BY <1>1, <5>1 DEF Accounts
        <5>3. QED
          BY <1>2, <2>1, <4>2, <5>2 DEF SeedingTypeOK
      <4>3. QED
        BY <4>1, <4>2
    <3>3. /\ step' = "accounts" => inserted' < Len(SeedUsers[seed])
          /\ step' = "token" => inserted' = Len(SeedUsers[seed])
      BY <1>1, <1>2, <2>1
    <3>4. QED
      BY <1>1, <2>1, <3>1, <3>2, <3>3 DEF Accounts
  <2>2. CASE Fails /\ account' = account
    BY <1>1, <2>2 DEF Fails, SeedingTypeOK, Accounts
  <2>3. QED
    BY <1>3, <2>1, <2>2 DEF InsertUser
<1>5. SeedingTyping'
  BY <1>1, <1>2, <1>4 DEF SeedingTypeOK, SeederSteps, Typing, TypeOK,
     CreateData, UpdateData
<1>6. Owned' /\ Unstored' /\ Told'
  BY <1>1 DEF Owned, Unstored, Told
<1>7. Course' /\ Mirrored' /\ Complete' /\ TornOnlyBySeeder'
  BY <1>1, <1>4 DEF Course, Mirrored, Complete, TornOnlyBySeeder, MirrorAgrees
<1>8. Begun'
  BY <1>1 DEF Begun
<1>9. QED
  BY <1>4, <1>5, <1>6, <1>7, <1>8

LEMMA InsertTokenKeepsInv ==
  ASSUME SeedingInv, InsertToken
  PROVE  SeedingInv'
<1> USE DEF SeedingInv, SeedingTyping
<1>1. /\ UNCHANGED <<posts, slugs, pc, req, answer, applied, announced,
                     account>>
      /\ step = "token" /\ step' = "creating" /\ outcome = "running"
      /\ UNCHANGED <<seed, inserted, outcome>>
  BY DEF InsertToken, Advances, vars
<1>2. seed \in Runs
  BY <1>1 DEF Course, SeedingTypeOK
<1>3. \A r \in OfRun(seed) : pc[r] = "idle" /\ answer[r] = "none"
  <2>1. ASSUME NEW r \in OfRun(seed)
        PROVE  pc[r] = "idle" /\ answer[r] = "none"
    <3>1. r \in Requests /\ seed \in Nat
      BY <1>2, RunsAre
    <3>2. pc[r] = "idle"
      BY <1>1, <1>2, <3>1 DEF Begun
    <3>3. QED
      BY <3>1, <3>2 DEF Told
  <2>2. QED
    BY <2>1
<1>4. SeedingTyping'
  BY <1>1 DEF SeedingTypeOK, SeederSteps, Typing, TypeOK, CreateData,
     UpdateData
<1>5. Owned' /\ Unstored' /\ Told' /\ Course' /\ Complete' /\ Accounts'
  BY <1>1 DEF Owned, Unstored, Told, Course, Complete, Accounts
<1>6. Begun' /\ Mirrored' /\ TornOnlyBySeeder'
  BY <1>1, <1>3 DEF Begun, Mirrored, TornOnlyBySeeder, MirrorAgrees
<1>7. QED
  BY <1>4, <1>5, <1>6

LEMMA EndingsKeepInv ==
  ASSUME SeedingInv, CreationsEnd \/ SeederFails
  PROVE  SeedingInv'
<1> USE DEF SeedingInv, SeedingTyping
<1>1. /\ UNCHANGED <<posts, slugs, pc, req, answer, applied, announced,
                     account>>
      /\ UNCHANGED <<seed, step, inserted>>
      /\ outcome = "running"
      /\ \/ outcome' = "failed"
         \/ /\ outcome' = "complete" /\ step = "creating"
            /\ \A r \in OfRun(seed) : answer[r] = "created"
  BY DEF CreationsEnd, SeederFails, Fails, vars, OfRun
<1>2. SeedingTyping'
  BY <1>1 DEF SeedingTypeOK, Typing, TypeOK, CreateData, UpdateData
<1>3. Owned' /\ Unstored' /\ Told' /\ Accounts' /\ TornOnlyBySeeder'
  BY <1>1 DEF Owned, Unstored, Told, Accounts, TornOnlyBySeeder, MirrorAgrees
<1>4. Begun' /\ Mirrored' /\ Course' /\ Complete'
  BY <1>1 DEF Begun, Mirrored, Course, Complete
<1>5. QED
  BY <1>2, <1>3, <1>4

LEMMA KilledKeepsInv ==
  ASSUME SeedingInv, SeederKilled
  PROVE  SeedingInv'
<1> USE DEF SeedingInv, SeedingTyping
<1>1. /\ UNCHANGED <<posts, slugs, req, applied, announced, account>>
      /\ UNCHANGED <<seed, step, inserted>>
      /\ outcome = "running" /\ outcome' = "failed"
      /\ pc' \in [Requests -> Steps] /\ answer' \in [Requests -> Answers]
      /\ \A r \in Requests :
           \/ pc'[r] = pc[r] /\ answer'[r] = answer[r]
           \/ /\ pc'[r] = "done" /\ answer'[r] = "lost"
              /\ step = "creating" /\ r \in OfRun(seed) /\ pc[r] # "done"
  <2>1. /\ pc' = [r \in Requests |-> IF r \in Unfinished THEN "done" ELSE pc[r]]
        /\ answer' = [r \in Requests |->
                        IF r \in Unfinished THEN "lost" ELSE answer[r]]
    BY DEF SeederKilled
  <2>2. \A r \in Unfinished :
          step = "creating" /\ r \in OfRun(seed) /\ pc[r] # "done"
    BY DEF Unfinished, OfRun
  <2>3. QED
    BY <2>1, <2>2 DEF SeederKilled, Fails, Typing, TypeOK, Steps, Answers
<1>2. seed \in Runs
  BY <1>1 DEF Course, SeedingTypeOK
<1>3. SeedingTyping'
  BY <1>1 DEF SeedingTypeOK, Typing, TypeOK, CreateData, UpdateData, Creating,
     Holding
<1>4. Owned' /\ Unstored' /\ Told'
  BY <1>1 DEF Owned, Unstored, Told, Creating, Holding
<1>5. Accounts' /\ TornOnlyBySeeder' /\ Course' /\ Complete'
  BY <1>1 DEF Accounts, TornOnlyBySeeder, MirrorAgrees, Course, Complete
<1>6. Begun'
  <2>1. ASSUME NEW n \in Runs, NEW q \in OfRun(n)
        PROVE  /\ pc'[q] \in {"idle", "announce", "done"} \cup Creating
               /\ pc'[q] # "idle" =>
                    \/ n < seed /\ pc'[q] = "done"
                    \/ n = seed /\ step = "creating"
    <3>1. q \in Requests
      BY RunsAre
    <3>2. CASE pc'[q] = pc[q]
      BY <3>2 DEF Begun
    <3>3. CASE pc'[q] = "done" /\ step = "creating" /\ q \in OfRun(seed)
      BY <1>2, <3>3, RunsAre
    <3>4. QED
      BY <1>1, <3>1, <3>2, <3>3
  <2>2. QED
    BY <1>1, <2>1 DEF Begun
<1>7. Mirrored'
  <2>1. ASSUME NEW q \in OfRun(seed), step = "creating",
               pc'[q] = "announce" \/ answer'[q] = "created"
        PROVE  slugs'[q] = req'[q].slug
    BY <1>1, <1>2, <2>1, RunsAre DEF Mirrored
  <2>2. QED
    BY <1>1, <2>1 DEF Mirrored
<1>8. QED
  BY <1>3, <1>4, <1>5, <1>6, <1>7

LEMMA ServerCrashKeepsInv ==
  ASSUME SeedingInv, ServerCrash
  PROVE  SeedingInv'
<1> USE DEF SeedingInv, SeedingTyping
<1>1. /\ UNCHANGED <<posts, slugs, req, applied, announced, account>>
      /\ UNCHANGED <<seed, step, inserted, outcome>>
      /\ pc' \in [Requests -> Steps] /\ answer' \in [Requests -> Answers]
      /\ \A r \in Requests :
           \/ pc'[r] = pc[r] /\ answer'[r] = answer[r]
           \/ pc'[r] = "done" /\ answer'[r] = "lost" /\ r \notin SeedIds
  <2> DEFINE Lost == Web \cap InFlight
  <2>1. /\ pc' = [r \in Requests |-> IF r \in Lost THEN "done" ELSE pc[r]]
        /\ answer' = [r \in Requests |-> IF r \in Lost THEN "lost" ELSE answer[r]]
    BY DEF ServerCrash
  <2>2. \A r \in Lost : r \notin SeedIds
    BY DEF Web
  <2> HIDE DEF Lost
  <2>3. QED
    BY <2>1, <2>2 DEF ServerCrash, seeder, Typing, TypeOK, Steps, Answers
<1>2. SeedingTyping'
  BY <1>1 DEF SeedingTypeOK, Typing, TypeOK, CreateData, UpdateData, Creating,
     Holding
<1>3. Owned' /\ Unstored' /\ Told'
  BY <1>1 DEF Owned, Unstored, Told, Creating, Holding
<1>4. Accounts' /\ TornOnlyBySeeder' /\ Course'
  BY <1>1 DEF Accounts, TornOnlyBySeeder, MirrorAgrees, Course
<1>5. \A n \in Runs : \A q \in OfRun(n) : pc'[q] = pc[q] /\ answer'[q] = answer[q]
  BY <1>1, RunsAre
<1>6. Begun'
  BY <1>1, <1>5 DEF Begun
<1>7. Mirrored' /\ Complete'
  <2>1. step = "creating" => seed \in Runs
    BY DEF Course, SeedingTypeOK
  <2>2. outcome = "complete" => step = "creating"
    BY DEF Course
  <2>3. QED
    BY <1>1, <1>5, <2>1, <2>2 DEF Mirrored, Complete
<1>8. QED
  BY <1>2, <1>3, <1>4, <1>6, <1>7

-----------------------------------------------------------------------------
LEMMA SeedingStep == SeedingInv /\ [SeedingNext]_seedingVars => SeedingInv'
<1> SUFFICES ASSUME SeedingInv, [SeedingNext]_seedingVars PROVE SeedingInv'
  OBVIOUS
<1>1. ASSUME NEW r \in Requests, Serve(r) PROVE SeedingInv'
  BY <1>1, ServeKeepsInv
<1>2. ASSUME NEW r \in Requests, CreateSeedPost(r) PROVE SeedingInv'
  BY <1>2, CreateSeedPostKeepsInv
<1>3. ASSUME NEW u \in Users, Register(u) PROVE SeedingInv'
  BY <1>3, RegisterKeepsInv
<1>4. CASE StartSeed
  BY <1>4, StartSeedKeepsInv
<1>5. CASE SeedStep
  BY <1>5, DeletionsKeepInv, InsertUserKeepsInv, InsertTokenKeepsInv,
     EndingsKeepInv DEF SeedStep
<1>6. CASE SeederFails \/ SeederKilled
  BY <1>6, EndingsKeepInv, KilledKeepsInv
<1>7. CASE UNCHANGED seedingVars
  <2>1. UNCHANGED <<posts, slugs, pc, req, answer, applied, announced, account,
                    seed, step, inserted, outcome>>
    BY <1>7 DEF seedingVars, seeder, vars
  <2>2. /\ SeedingTyping' /\ Owned' /\ Unstored' /\ Told' /\ Accounts'
        /\ Course' /\ Complete'
    BY <2>1 DEF SeedingInv, SeedingTyping, SeedingTypeOK, Typing, TypeOK,
       CreateData, UpdateData, Owned, Unstored, Told, Accounts, Course,
       Complete
  <2>3. Begun' /\ Mirrored' /\ TornOnlyBySeeder'
    BY <2>1 DEF SeedingInv, Begun, Mirrored, TornOnlyBySeeder, MirrorAgrees
  <2>4. QED
    BY <2>2, <2>3 DEF SeedingInv
<1>8. CASE ServerCrash
  BY <1>8, ServerCrashKeepsInv
<1>9. QED
  BY <1>1, <1>2, <1>3, <1>4, <1>5, <1>6, <1>7, <1>8 DEF SeedingNext

LEMMA SeedingInvariant == SeedingSpec => []SeedingInv
  BY SeedingInitially, SeedingStep, PTL DEF SeedingSpec

-----------------------------------------------------------------------------
(* Theorems.                                                               *)

(* The tables, the requests and the seeder keep their types, whatever the  *)
(* seeder deletes under the requests in progress.                          *)
THEOREM SeedingTypesHold == SeedingSpec => []SeedingTypeOK
<1>1. SeedingInv => SeedingTypeOK
  BY DEF SeedingInv, SeedingTyping
<1>2. QED
  BY <1>1, SeedingInvariant, PTL

(* A stored post and its row of slugs disagree only between the seeder's   *)
(* DELETE of slugs and that of users, or after a run that ended there and  *)
(* until the next one's first DELETE, however many requests write posts    *)
(* beside it and wherever runs fail or are killed.                         *)
THEOREM OnlyTheSeederTears == SeedingSpec => []TornOnlyBySeeder
<1>1. SeedingInv => TornOnlyBySeeder
  BY DEF SeedingInv
<1>2. QED
  BY <1>1, SeedingInvariant, PTL

(* A run of artisan db seed that reports success has stored all of its     *)
(* users and created all of its posts, and their slugs are still mirrored. *)
THEOREM CompleteSeedsAreWhole == SeedingSpec => []CompleteSeedIsWhole
<1>1. ASSUME SeedingInv PROVE CompleteSeedIsWhole
  <2> USE <1>1 DEF SeedingInv, SeedingTyping
  <2>1. ASSUME outcome = "complete"
        PROVE  /\ \A k \in DOMAIN SeedUsers[seed] :
                    account[SeedUsers[seed][k]] = "stored"
               /\ \A r \in DOMAIN SeedPosts[seed] :
                    answer[r] = "created" /\ slugs[r] = req[r].slug
    <3>1. seed \in Runs /\ step = "creating"
      BY <2>1 DEF Course, SeedingTypeOK
    <3>2. DOMAIN SeedUsers[seed] = 1..inserted
      BY <3>1, RunsAre DEF Accounts
    <3>3. QED
      BY <2>1, <3>1, <3>2 DEF Accounts, Complete, Mirrored, OfRun
  <2>2. QED
    BY <2>1 DEF CompleteSeedIsWhole
<1>2. QED
  BY <1>1, SeedingInvariant, PTL
=============================================================================
