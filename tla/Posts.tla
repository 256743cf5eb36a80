------------------------------- MODULE Posts -------------------------------
(***************************************************************************)
(* The posts API at the level of its SQL statements.  Requests run         *)
(* interleaved on one or more server processes against one MySQL database; *)
(* between two statements of a request any other request may run.          *)
(*                                                                         *)
(*   create   BEGIN; choose a slug; INSERT posts; INSERT slugs; COMMIT;    *)
(*            dispatch PostCreated; answer                                 *)
(*   update   bind the post; authorize; UPDATE; SELECT; dispatch           *)
(*            PostUpdated; answer                 (three separate reads    *)
(*   delete   bind the post; authorize; DELETE; answer      and writes)    *)
(*   show     bind the post; answer                                        *)
(*                                                                         *)
(* The database is external: REPEATABLE READ as InnoDB implements it.  The *)
(* reads of a transaction come from the snapshot its first read takes, an  *)
(* INSERT is checked against the latest committed rows, and it waits while *)
(* another open transaction holds a row with the same unique value.        *)
(* AUTO_INCREMENT never gives the same id twice, so the id a request's     *)
(* INSERT receives is named after the request.                             *)
(***************************************************************************)
EXTENDS Naturals, Sequences

CONSTANTS
  Requests,  (* HTTP requests; each is served once                         *)
  Legacy,    (* posts stored before the slugs table existed                *)
  Users, NoUser,
  Titles,    (* the titles a request may send                              *)
  NoTitle,
  Base,      (* the slug each title gives: slugifyComponents([title])      *)
  Words,     (* words and numbers a slug is made of                        *)
  MaxWords,  (* what a slug column holds, VARCHAR(255), counted in words   *)
  Suffixes,  (* the values the increment of generateSlug takes (bound)     *)
  NoRow, NoSlug,
  Failures   (* the failures that happen: subset of FailureKinds           *)

FailureKinds == {"database", "dispatch", "crash"}

(* The slugs a row can hold. *)
Slug == UNION {[1..n -> Words] : n \in 1..MaxWords}

Ids == Requests \cup Legacy

PostRow == [owner : Users \cup {NoUser}, title : Titles, slug : Slug]

ASSUME PostsAssumption ==
  /\ Requests \cap Legacy = {}
  /\ NoUser \notin Users
  /\ MaxWords \in Nat
  /\ Suffixes \subseteq Nat
  /\ Suffixes \ {0} \subseteq Words
  /\ Base \in [Titles -> Seq(Words)]
  /\ NoRow \notin PostRow
  /\ NoSlug \notin Slug \cup Seq(Words)
  /\ Failures \subseteq FailureKinds

VARIABLES
  posts,     (* table posts: the committed row of each id, or NoRow        *)
  slugs,     (* table slugs: the slug mirrored for post id, or NoSlug      *)
  pc,        (* the next step of each request                              *)
  req,       (* what each request asked for, and its slug candidate        *)
  answer,    (* what each client received                                  *)
  applied,   (* history: updates whose UPDATE changed a row                *)
  announced  (* history: requests whose event was dispatched               *)

vars == <<posts, slugs, pc, req, answer, applied, announced>>

Steps == {"idle", "insertPost", "persistSlug", "commit", "update", "reload",
          "delete", "announce", "done"}

Answers == {"none", "ok", "created", "noContent", "forbidden", "notFound",
            "conflict", "error", "lost"}

(* A request.  "post" is the post bound from the path, or the one being    *)
(* created; "seen" is history: the posts whose slug the request's snapshot *)
(* showed.                                                                 *)
RequestData ==
  [op : {"none", "create", "update", "delete", "show"},
   user : Users \cup {NoUser}, post : Ids, title : Titles \cup {NoTitle},
   slug : Seq(Words) \cup {NoSlug}, seen : SUBSET Ids]

-----------------------------------------------------------------------------
(* Slugs.                                                                  *)

(* slugifyComponents on the title, then the title with -1, -2, ... *)
Candidate(base, n) == IF n = 0 THEN base ELSE Append(base, n)

(* The slugs that belong to post i in the committed tables. *)
Claims(i) ==
  (IF posts[i] = NoRow THEN {} ELSE {posts[i].slug}) \cup
  (IF slugs[i] = NoSlug THEN {} ELSE {slugs[i]})

(* Variant: the loop looks in the slugs table only. *)
TakenInSlugsOnly(s) == \E i \in Ids : slugs[i] = s

(* What the loop's two lookups, slugs first and then posts, find for s. *)
Taken(s) ==
  \/ \E i \in Ids : slugs[i] = s
  \/ \E i \in Ids : posts[i] # NoRow /\ posts[i].slug = s

FirstFree(base, n) ==
  /\ ~Taken(Candidate(base, n))
  /\ \A m \in Suffixes : m < n => Taken(Candidate(base, m))

(* Does another open transaction hold an uncommitted row of posts, or of   *)
(* slugs, with this slug?                                                  *)
PostSlugLocked(r) ==
  \E q \in Requests \ {r} :
    pc[q] \in {"persistSlug", "commit"} /\ req[q].slug = req[r].slug

MirrorSlugLocked(r) ==
  \E q \in Requests \ {r} : pc[q] = "commit" /\ req[q].slug = req[r].slug

(* A stored row with the unique value the request wants to insert. *)
PostSlugDuplicate(r) ==
  \E i \in Ids : posts[i] # NoRow /\ posts[i].slug = req[r].slug

(* Variant: the slugs table has no unique index on slug. *)
MirrorModelDuplicate(r) == slugs[r] # NoSlug

(* persistSlug leaves an existing row of the model alone. *)
MirrorSlugDuplicate(r) ==
  slugs[r] = NoSlug /\ \E i \in Ids : slugs[i] = req[r].slug

-----------------------------------------------------------------------------

Goto(r, from, to) ==
  /\ pc[r] = from
  /\ pc' = [pc EXCEPT ![r] = to]

Answer(r, from, a) ==
  /\ Goto(r, from, "done")
  /\ answer' = [answer EXCEPT ![r] = a]

(* The posts older than the slugs table: some rows, unique slugs, no       *)
(* mirror.  Such a post may have no owner.                                 *)
LegacyRows ==
  {rows \in [Legacy -> {NoRow} \cup
               {[owner |-> u, title |-> t, slug |-> Base[t]] :
                  u \in Users \cup {NoUser}, t \in Titles}] :
     \A i, j \in Legacy :
       rows[i] # NoRow /\ rows[j] # NoRow /\ i # j
         => rows[i].slug # rows[j].slug}

Init ==
  /\ \E rows \in LegacyRows :
       /\ \A i \in Legacy : rows[i] # NoRow => rows[i].slug \in Slug
       /\ posts = [i \in Ids |-> IF i \in Legacy THEN rows[i] ELSE NoRow]
  /\ slugs = [i \in Ids |-> NoSlug]
  /\ pc = [r \in Requests |-> "idle"]
  /\ req = [r \in Requests |->
              [op |-> "none", user |-> NoUser, post |-> r, title |-> NoTitle,
               slug |-> NoSlug, seen |-> {}]]
  /\ answer = [r \in Requests |-> "none"]
  /\ applied = {}
  /\ announced = {}

-----------------------------------------------------------------------------
(* POST /posts                                                             *)

(* The transaction begins and generateSlug runs: all its lookups read the  *)
(* snapshot taken by the first of them, so the loop is one step.           *)
GenerateSlug(r) ==
  /\ Goto(r, "idle", "insertPost")
  /\ \E u \in Users, t \in Titles, n \in Suffixes :
       /\ FirstFree(Base[t], n)
       /\ req' = [req EXCEPT ![r] =
                    [op |-> "create", user |-> u, post |-> r, title |-> t,
                     slug |-> Candidate(Base[t], n),
                     seen |-> {i \in Ids : Claims(i) # {}}]]
  /\ UNCHANGED <<posts, slugs, answer, applied, announced>>

(* Variant: a database that does not enforce the length of the column. *)
InsertPostAnyLength(r) ==
  /\ ~PostSlugLocked(r)
  /\ \/ /\ ~PostSlugDuplicate(r)
        /\ Goto(r, "insertPost", "persistSlug")
        /\ UNCHANGED answer
     \/ /\ PostSlugDuplicate(r)
        /\ Answer(r, "insertPost", "conflict")
  /\ UNCHANGED <<posts, slugs, req, applied, announced>>

(* Variant: the rejection is not passed on to the error handler.           *)
InsertPostUnanswered(r) ==
  /\ ~PostSlugLocked(r)
  /\ req[r].slug \in Slug
  /\ ~PostSlugDuplicate(r)
  /\ Goto(r, "insertPost", "persistSlug")
  /\ UNCHANGED <<posts, slugs, req, answer, applied, announced>>

(* Variant: Post.create is not given the transaction. *)
InsertPostOutsideTransaction(r) ==
  /\ ~PostSlugLocked(r)
  /\ req[r].slug \in Slug
  /\ ~PostSlugDuplicate(r)
  /\ Goto(r, "insertPost", "persistSlug")
  /\ posts' = [posts EXCEPT ![r] = [owner |-> req[r].user,
                                    title |-> req[r].title,
                                    slug |-> req[r].slug]]
  /\ UNCHANGED <<slugs, req, answer, applied, announced>>

(* INSERT INTO posts.  A duplicate key rolls the transaction back and is   *)
(* answered 409; a value too long for the column is answered 500.          *)
InsertPost(r) ==
  /\ ~PostSlugLocked(r)
  /\ \/ /\ req[r].slug \in Slug
        /\ ~PostSlugDuplicate(r)
        /\ Goto(r, "insertPost", "persistSlug")
        /\ UNCHANGED answer
     \/ /\ req[r].slug \in Slug
        /\ PostSlugDuplicate(r)
        /\ Answer(r, "insertPost", "conflict")
     \/ /\ req[r].slug \notin Slug
        /\ Answer(r, "insertPost", "error")
  /\ UNCHANGED <<posts, slugs, req, applied, announced>>

(* persistSlug: SELECT by model, INSERT INTO slugs. *)
PersistSlug(r) ==
  /\ ~MirrorSlugLocked(r)
  /\ \/ /\ ~MirrorSlugDuplicate(r)
        /\ Goto(r, "persistSlug", "commit")
        /\ UNCHANGED answer
     \/ /\ MirrorSlugDuplicate(r)
        /\ Answer(r, "persistSlug", "conflict")
  /\ UNCHANGED <<posts, slugs, req, applied, announced>>

(* Both rows become visible at once. *)
StoreRows(r) ==
  /\ posts' = [posts EXCEPT ![r] = [owner |-> req[r].user,
                                    title |-> req[r].title,
                                    slug |-> req[r].slug]]
  /\ slugs' = IF slugs[r] = NoSlug
              THEN [slugs EXCEPT ![r] = req[r].slug]
              ELSE slugs

Commit(r) ==
  /\ Goto(r, "commit", "announce")
  /\ StoreRows(r)
  /\ UNCHANGED <<req, answer, applied, announced>>

-----------------------------------------------------------------------------
(* Requests that name a post: bindRouteModel, then PostPolicy.             *)

Bind(r, op, u, i, t) ==
  req' = [req EXCEPT ![r] = [op |-> op, user |-> u, post |-> i, title |-> t,
                             slug |-> NoSlug, seen |-> {}]]

(* GET /posts/:post and GET /posts/slug/:slug: any authenticated user may, *)
(* so neither the user nor the post is remembered.                         *)
Show(r) ==
  /\ req' = [req EXCEPT ![r].op = "show"]
  /\ \E i \in Ids :
       Answer(r, "idle", IF posts[i] = NoRow THEN "notFound" ELSE "ok")
  /\ UNCHANGED <<posts, slugs, applied, announced>>

(* Variant: the route has no policy. *)
AllowedToAnyone(u, i) == posts[i] # NoRow

(* The checks of PATCH and DELETE, made on the row read here. *)
Allowed(u, i) == posts[i] # NoRow /\ posts[i].owner = u

Refusal(i) == IF posts[i] = NoRow THEN "notFound" ELSE "forbidden"

BindForWrite(r, op, t) ==
  /\ \E u \in Users, i \in Ids :
       /\ Bind(r, op, u, i, t)
       /\ \/ /\ Allowed(u, i)
             /\ Goto(r, "idle", op)
             /\ UNCHANGED answer
          \/ /\ ~Allowed(u, i)
             /\ Answer(r, "idle", Refusal(i))
  /\ UNCHANGED <<posts, slugs, applied, announced>>

(* PATCH /posts/:post *)
StartUpdate(r) == \E t \in Titles : BindForWrite(r, "update", t)

(* Variant: a new title gives the post a new slug. *)
UpdateRowAndSlug(r) ==
  LET i == req[r].post IN
  /\ Goto(r, "update", "reload")
  /\ posts' = IF posts[i] = NoRow
              THEN posts
              ELSE [posts EXCEPT ![i].title = req[r].title,
                                 ![i].slug = Base[req[r].title]]
  /\ applied' = IF posts[i] = NoRow THEN applied ELSE applied \cup {r}
  /\ UNCHANGED <<slugs, req, answer, announced>>

(* Variant: the bound post is saved again, present or not. *)
UpdateRowUpserts(r) ==
  LET i == req[r].post IN
  /\ Goto(r, "update", "reload")
  /\ posts' = [posts EXCEPT ![i] = [owner |-> req[r].user,
                                    title |-> req[r].title,
                                    slug |-> slugs[i]]]
  /\ applied' = applied \cup {r}
  /\ UNCHANGED <<slugs, req, answer, announced>>

(* UPDATE posts ... WHERE id: the number of rows it changed is ignored. *)
UpdateRow(r) ==
  LET i == req[r].post IN
  /\ Goto(r, "update", "reload")
  /\ posts' = IF posts[i] = NoRow
              THEN posts
              ELSE [posts EXCEPT ![i].title = req[r].title]
  /\ applied' = IF posts[i] = NoRow THEN applied ELSE applied \cup {r}
  /\ UNCHANGED <<slugs, req, answer, announced>>

(* Variant: the event does not depend on the row being found. *)
ReloadAndAnnounce(r) ==
  /\ Goto(r, "reload", "announce")
  /\ UNCHANGED <<posts, slugs, req, answer, applied, announced>>

(* SELECT the row again.  If it is gone there is no event, and the answer  *)
(* is 200 with the post as it was bound.                                   *)
Reload(r) ==
  /\ \/ /\ posts[req[r].post] # NoRow
        /\ Goto(r, "reload", "announce")
        /\ UNCHANGED answer
     \/ /\ posts[req[r].post] = NoRow
        /\ Answer(r, "reload", "ok")
  /\ UNCHANGED <<posts, slugs, req, applied, announced>>

(* DELETE /posts/:post *)
StartDelete(r) == BindForWrite(r, "delete", NoTitle)

(* Variant: the slugs row is removed too. *)
DeleteRowAndSlug(r) ==
  /\ posts' = [posts EXCEPT ![req[r].post] = NoRow]
  /\ slugs' = [slugs EXCEPT ![req[r].post] = NoSlug]
  /\ Answer(r, "delete", "noContent")
  /\ UNCHANGED <<req, applied, announced>>

(* DELETE FROM posts: the slugs row stays, so the slug stays taken. *)
DeleteRow(r) ==
  /\ posts' = [posts EXCEPT ![req[r].post] = NoRow]
  /\ Answer(r, "delete", "noContent")
  /\ UNCHANGED <<slugs, req, applied, announced>>

-----------------------------------------------------------------------------
(* The event, after the write; then the answer.                            *)

Announce(r) ==
  /\ announced' = announced \cup {r}
  /\ Answer(r, "announce", IF req[r].op = "create" THEN "created" ELSE "ok")
  /\ UNCHANGED <<posts, slugs, req, applied>>

(* A listener throws: dispatch rejects, the write stays. *)
AnnounceFails(r) ==
  /\ "dispatch" \in Failures
  /\ Answer(r, "announce", "error")
  /\ UNCHANGED <<posts, slugs, req, applied, announced>>

(* A statement fails (connection lost, lock wait timeout, deadlock         *)
(* victim): an open transaction is rolled back.                            *)
StatementFails(r) ==
  /\ "database" \in Failures
  /\ pc[r] \notin {"idle", "announce", "done"}
  /\ Answer(r, pc[r], "error")
  /\ UNCHANGED <<posts, slugs, req, applied, announced>>

(* The connection is lost after the server applied the COMMIT, or the      *)
(* DELETE, and before the client learnt of it.  For an UPDATE this is      *)
(* UpdateRow with the SELECT after it failing.                             *)
CommitUnacknowledged(r) ==
  /\ "database" \in Failures
  /\ StoreRows(r)
  /\ Answer(r, "commit", "error")
  /\ UNCHANGED <<req, applied, announced>>

DeleteUnacknowledged(r) ==
  /\ "database" \in Failures
  /\ posts' = [posts EXCEPT ![req[r].post] = NoRow]
  /\ Answer(r, "delete", "error")
  /\ UNCHANGED <<slugs, req, applied, announced>>

(* The process dies: open transactions are rolled back, no request in      *)
(* flight is answered; the next process serves the others.                 *)
InFlight == {r \in Requests : pc[r] \notin {"idle", "done"}}

Crash ==
  /\ "crash" \in Failures
  /\ InFlight # {}
  /\ pc' = [r \in Requests |-> IF r \in InFlight THEN "done" ELSE pc[r]]
  /\ answer' = [r \in Requests |-> IF r \in InFlight THEN "lost" ELSE answer[r]]
  /\ UNCHANGED <<posts, slugs, req, applied, announced>>

Create(r) == GenerateSlug(r) \/ InsertPost(r) \/ PersistSlug(r) \/ Commit(r)

Update(r) == StartUpdate(r) \/ UpdateRow(r) \/ Reload(r)

Delete(r) == StartDelete(r) \/ DeleteRow(r)

Fail(r) ==
  \/ AnnounceFails(r) \/ StatementFails(r)
  \/ CommitUnacknowledged(r) \/ DeleteUnacknowledged(r)

Next ==
  \/ \E r \in Requests :
       Create(r) \/ Show(r) \/ Update(r) \/ Delete(r) \/ Announce(r) \/ Fail(r)
  \/ Crash

Spec == Init /\ [][Next]_vars

-----------------------------------------------------------------------------
(* Properties.                                                             *)

(* Every variable has its type. *)
TypeOK ==
  /\ posts \in [Ids -> PostRow \cup {NoRow}]
  /\ slugs \in [Ids -> Slug \cup {NoSlug}]
  /\ pc \in [Requests -> Steps]
  /\ req \in [Requests -> RequestData]
  /\ answer \in [Requests -> Answers]
  /\ applied \subseteq Requests
  /\ announced \subseteq Requests

(* Every slug that is stored fits its column, in posts and in slugs: the   *)
(* suffix that generateSlug appends to a slug that already fills VARCHAR   *)
(* (255) never gets past the INSERT.                                       *)
SlugsFitTheirColumns ==
  \A i \in Ids :
    /\ posts[i] # NoRow => posts[i].slug \in Slug
    /\ slugs[i] # NoSlug => slugs[i] \in Slug

(* A post stored by the API has its slug mirrored in the slugs table, and  *)
(* the two are equal: PostService.create writes both rows or neither, and  *)
(* no later update, failure or crash makes them differ.                    *)
MirrorAgrees ==
  \A i \in Requests : posts[i] # NoRow => slugs[i] = posts[i].slug

(* A slug never belongs to two posts, whichever of the two tables it is    *)
(* recorded in and whether or not the posts still exist: a stale snapshot  *)
(* cannot reissue the slug of a post created and deleted meanwhile.        *)
SlugNamesOnePost ==
  \A i, j \in Ids : i # j => Claims(i) \cap Claims(j) = {}

(* What the client of a create is told is true: 201 means that both rows   *)
(* are stored under the slug chosen and the event was dispatched, 409      *)
(* means that nothing of the request was stored or dispatched.             *)
CreateAnswersAreTrue ==
  \A r \in Requests : req[r].op = "create" =>
    /\ answer[r] = "created" => slugs[r] = req[r].slug /\ r \in announced
    /\ answer[r] = "conflict" => Claims(r) = {} /\ r \notin announced

(* Once a delete is answered 204 the post is gone for good: an update or a *)
(* delete that had bound it before cannot bring it back.                   *)
DeletedStaysDeleted ==
  \A r \in Requests : answer[r] = "noContent" => posts[req[r].post] = NoRow

(* Events follow writes: PostCreated is dispatched for a stored post only, *)
(* PostUpdated only when the request's UPDATE changed a row, also when the *)
(* post is deleted between the binding, the UPDATE and the SELECT.         *)
AnnouncedWritesHappened ==
  \A r \in announced :
    \/ req[r].op = "create" /\ slugs[r] = req[r].slug
    \/ req[r].op = "update" /\ r \in applied

(* A row of posts that exists is changed or removed only by a request of   *)
(* the user who owns it now, although the ownership was checked on a row   *)
(* read in an earlier statement.                                           *)
OnlyOwnerWrites ==
  [][\A i \in Ids : posts[i] # NoRow /\ posts'[i] # posts[i] =>
       \E r \in Requests : /\ pc[r] \in {"update", "delete"}
                           /\ pc'[r] # pc[r]
                           /\ req[r].post = i
                           /\ req[r].user = posts[i].owner]_vars

(* A create is refused with 409 only when its slug is now stored for a     *)
(* post that was not there when the request looked: the loop avoids every  *)
(* slug it can see, in either table, and an uncommitted rival is waited    *)
(* for, never counted as taken.                                            *)
ConflictOnlyWhenOvertaken ==
  [][\A r \in Requests : answer'[r] = "conflict" /\ answer[r] # "conflict" =>
       \E i \in Requests \ req[r].seen : req[r].slug \in Claims(i)]_vars

(* Every request that has begun is answered, or lost with the process that *)
(* served it: no wait for a unique key lasts for ever.                     *)
EveryRequestEnds ==
  \A r \in Requests : pc[r] # "idle" ~> pc[r] = "done"

(* Expected by the routing guide and by the API tests: a request for a     *)
(* post that no longer exists is answered 404, so that an update answered  *)
(* 200 has changed the post.  The handler ignores both the number of rows  *)
(* its UPDATE changed and the missing row after it.                        *)
UpdatedPostsExisted ==
  \A r \in Requests :
    req[r].op = "update" /\ answer[r] = "ok" => r \in applied

(* Expected by the API tests: a second post of the same title gets a       *)
(* suffixed slug.  As long as no statement fails, no create is a server    *)
(* error.                                                                  *)
SameTitleIsSuffixed ==
  \A r \in Requests :
    Failures = {} /\ req[r].op = "create" => answer[r] # "error"

(* The slug subsystem implements the registry: creating a post issues a    *)
(* slug, deleting it retires the post, and every other step of every       *)
(* request leaves the assignment of slugs to posts as it was.              *)
SlugOf == [i \in Ids |-> IF posts[i] # NoRow THEN posts[i].slug ELSE slugs[i]]

Live == {i \in Ids : posts[i] # NoRow}

Registry == INSTANCE SlugRegistry
              WITH Slugs <- Slug, slugOf <- SlugOf, live <- Live

ImplementsRegistry == Registry!Spec

=============================================================================
