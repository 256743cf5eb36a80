---------------------------- MODULE PostsProofs ----------------------------
(* Theorems about Posts, for every number of requests, users, titles,      *)
(* legacy posts and every set of failures.                                 *)
EXTENDS Posts, TLAPS

(* A candidate of generateSlug is a sequence of words. *)
LEMMA CandidateType ==
  ASSUME NEW t \in Titles, NEW n \in Suffixes
  PROVE  Candidate(Base[t], n) \in Seq(Words)
<1>1. Base[t] \in Seq(Words)
  BY PostsAssumption
<1>2. CASE n = 0
  BY <1>1, <1>2 DEF Candidate
<1>3. CASE n # 0
  <2>1. n \in Words
    BY <1>3, PostsAssumption
  <2>2. QED
    BY <1>1, <1>3, <2>1 DEF Candidate
<1>4. QED
  BY <1>2, <1>3

(* The rows a create stores have the types of their columns. *)
LEMMA StoredRowType ==
  ASSUME NEW u \in Users, NEW t \in Titles, NEW s \in Slug
  PROVE  [owner |-> u, title |-> t, slug |-> s] \in PostRow
BY DEF PostRow

-----------------------------------------------------------------------------
(* Type correctness.  TypeOK alone is not inductive: a commit stores the   *)
(* slug, the user and the title of the request, which only a request that  *)
(* is creating a post has.                                                 *)

Holding == {"persistSlug", "commit"}

Creating == {"insertPost"} \cup Holding

(* A create in flight has a user and a title, and once the row is inserted *)
(* its slug is known to fit the column.                                    *)
CreateData ==
  \A r \in Requests :
    /\ pc[r] \in Creating =>
         req[r].op = "create" /\ req[r].user \in Users /\ req[r].title \in Titles
    /\ pc[r] \in Holding => req[r].slug \in Slug

(* So has an update a title. *)
UpdateData ==
  \A r \in Requests : pc[r] = "update" => req[r].title \in Titles

Typing == TypeOK /\ CreateData /\ UpdateData

LEMMA TypingInit == Init => Typing
<1> SUFFICES ASSUME Init PROVE Typing
  OBVIOUS
<1>1. posts \in [Ids -> PostRow \cup {NoRow}]
  <2>1. PICK rows \in LegacyRows :
          /\ \A i \in Legacy : rows[i] # NoRow => rows[i].slug \in Slug
          /\ posts = [i \in Ids |-> IF i \in Legacy THEN rows[i] ELSE NoRow]
    BY DEF Init
  <2>2. ASSUME NEW i \in Legacy
        PROVE  rows[i] \in PostRow \cup {NoRow}
    <3>1. rows[i] \in {NoRow} \cup
            {[owner |-> u, title |-> t, slug |-> Base[t]] :
               u \in Users \cup {NoUser}, t \in Titles}
      BY DEF LegacyRows
    <3>2. CASE rows[i] = NoRow
      BY <3>2
    <3>3. CASE rows[i] # NoRow
      <4>1. PICK u \in Users \cup {NoUser}, t \in Titles :
              rows[i] = [owner |-> u, title |-> t, slug |-> Base[t]]
        BY <3>1, <3>3
      <4>2. Base[t] \in Slug
        BY <2>1, <3>3, <4>1
      <4>3. QED
        BY <4>1, <4>2 DEF PostRow
    <3>4. QED
      BY <3>2, <3>3
  <2>3. QED
    BY <2>1, <2>2
<1>2. req \in [Requests -> RequestData]
  BY DEF Init, RequestData, Ids
<1>3. QED
  BY <1>1, <1>2 DEF Init, Typing, TypeOK, CreateData, UpdateData, Steps,
     Answers, Holding, Creating

LEMMA TypingNext == Typing /\ [Next]_vars => Typing'
<1> SUFFICES ASSUME Typing, [Next]_vars PROVE Typing'
  OBVIOUS
<1> USE DEF Typing, TypeOK, CreateData, UpdateData, Holding, Creating, Steps,
            Answers
<1>1. ASSUME NEW r \in Requests, GenerateSlug(r) PROVE Typing'
  <2>1. PICK u \in Users, t \in Titles, n \in Suffixes :
          req' = [req EXCEPT ![r] =
                    [op |-> "create", user |-> u, post |-> r, title |-> t,
                     slug |-> Candidate(Base[t], n),
                     seen |-> {i \in Ids : Claims(i) # {}}]]
    BY <1>1 DEF GenerateSlug
  <2>2. [op |-> "create", user |-> u, post |-> r, title |-> t,
         slug |-> Candidate(Base[t], n),
         seen |-> {i \in Ids : Claims(i) # {}}] \in RequestData
    BY CandidateType DEF RequestData, Ids
  <2>3. QED
    BY <1>1, <2>1, <2>2 DEF GenerateSlug, Goto
<1>2. ASSUME NEW r \in Requests, InsertPost(r) PROVE Typing'
  BY <1>2 DEF InsertPost, Goto, Answer
<1>3. ASSUME NEW r \in Requests, PersistSlug(r) PROVE Typing'
  BY <1>3 DEF PersistSlug, Goto, Answer
<1>4. ASSUME NEW r \in Requests, pc[r] = "commit", StoreRows(r)
      PROVE  /\ posts' \in [Ids -> PostRow \cup {NoRow}]
             /\ slugs' \in [Ids -> Slug \cup {NoSlug}]
  BY <1>4, StoredRowType DEF StoreRows, Ids
<1>5. ASSUME NEW r \in Requests, Commit(r) PROVE Typing'
  <2>1. pc[r] = "commit" /\ StoreRows(r)
    BY <1>5 DEF Commit, Goto
  <2>2. QED
    BY <1>4, <1>5, <2>1 DEF Commit, Goto
<1>6. ASSUME NEW r \in Requests, Show(r) PROVE Typing'
  BY <1>6 DEF Show, Answer, Goto, RequestData
<1>7. ASSUME NEW r \in Requests, NEW op \in {"update", "delete"},
             NEW t \in Titles \cup {NoTitle}, op = "update" => t \in Titles,
             BindForWrite(r, op, t)
      PROVE  Typing'
  <2>1. PICK u \in Users, i \in Ids : Bind(r, op, u, i, t)
    BY <1>7 DEF BindForWrite
  <2>2. [op |-> op, user |-> u, post |-> i, title |-> t, slug |-> NoSlug,
         seen |-> {}] \in RequestData
    BY DEF RequestData
  <2>3. req' \in [Requests -> RequestData] /\ req'[r].title = t
        /\ \A q \in Requests \ {r} : req'[q] = req[q]
    BY <2>1, <2>2 DEF Bind
  <2>4. \/ pc' = [pc EXCEPT ![r] = op] /\ answer' = answer
        \/ /\ pc' = [pc EXCEPT ![r] = "done"]
           /\ \E a \in Answers : answer' = [answer EXCEPT ![r] = a]
    BY <1>7 DEF BindForWrite, Answer, Goto, Refusal
  <2>5. UNCHANGED <<posts, slugs, applied, announced>>
    BY <1>7 DEF BindForWrite
  <2>6. QED
    BY <1>7, <2>3, <2>4, <2>5
<1>8. ASSUME NEW r \in Requests, UpdateRow(r) PROVE Typing'
  BY <1>8 DEF UpdateRow, Goto, RequestData, PostRow
<1>9. ASSUME NEW r \in Requests, Reload(r) PROVE Typing'
  BY <1>9 DEF Reload, Goto, Answer
<1>10. ASSUME NEW r \in Requests, DeleteRow(r) \/ DeleteUnacknowledged(r)
       PROVE  Typing'
  BY <1>10 DEF DeleteRow, DeleteUnacknowledged, Goto, Answer
<1>11. ASSUME NEW r \in Requests, Announce(r) PROVE Typing'
  BY <1>11 DEF Announce, Goto, Answer
<1>12. ASSUME NEW r \in Requests, AnnounceFails(r) \/ StatementFails(r)
       PROVE  Typing'
  BY <1>12 DEF AnnounceFails, StatementFails, Goto, Answer
<1>13. ASSUME NEW r \in Requests, CommitUnacknowledged(r) PROVE Typing'
  <2>1. pc[r] = "commit" /\ StoreRows(r)
    BY <1>13 DEF CommitUnacknowledged, Answer, Goto
  <2>2. QED
    BY <1>4, <1>13, <2>1 DEF CommitUnacknowledged, Answer, Goto
<1>14. CASE Crash
  BY <1>14 DEF Crash, InFlight
<1>15. CASE UNCHANGED vars
  BY <1>15 DEF vars
<1>16. QED
  <2>1. ASSUME NEW r \in Requests, StartUpdate(r) PROVE Typing'
    BY <1>7, <2>1 DEF StartUpdate
  <2>2. ASSUME NEW r \in Requests, StartDelete(r) PROVE Typing'
    BY <1>7, <2>2 DEF StartDelete
  <2>3. QED
    BY <1>1, <1>2, <1>3, <1>5, <1>6, <1>8, <1>9, <1>10, <1>11, <1>12, <1>13,
       <1>14, <1>15, <2>1, <2>2 DEF Next, Create, Update, Delete, Fail

(* Every variable always has its type: whatever the interleaving and the   *)
(* failures, only whole rows with slugs that fit are ever stored.          *)
THEOREM TypeCorrect == Spec => []TypeOK
<1>1. Typing => TypeOK
  BY DEF Typing
<1>2. QED
  BY TypingInit, TypingNext, <1>1, PTL DEF Spec

(* A suffixed slug that is longer than its column is stored in neither     *)
(* table, for any titles and any width of the column.                      *)
THEOREM StoredSlugsFit == Spec => []SlugsFitTheirColumns
<1>1. Typing => SlugsFitTheirColumns
  BY DEF Typing, TypeOK, PostRow, SlugsFitTheirColumns
<1>2. QED
  BY TypingInit, TypingNext, <1>1, PTL DEF Spec

-----------------------------------------------------------------------------
(* Slugs.  The invariant of the two tables.  A request that has inserted   *)
(* its row into posts holds the slug: no committed row of posts and no     *)
(* other holder has it.  Only at its INSERT into slugs does it learn that  *)
(* no post that is gone has it either.                                     *)

(* A request that has not committed yet has stored nothing, and a legacy   *)
(* post never gets a slugs row.                                            *)
Unstored ==
  \A r \in Requests :
    pc[r] \in {"idle"} \cup Creating => posts[r] = NoRow /\ slugs[r] = NoSlug

LegacyUnmirrored == \A i \in Legacy : slugs[i] = NoSlug

Reserved ==
  \A r \in Requests :
    /\ pc[r] \in Holding =>
         /\ \A i \in Ids : posts[i] # NoRow => posts[i].slug # req[r].slug
         /\ \A q \in Requests \ {r} :
              pc[q] \in Holding => req[q].slug # req[r].slug
    /\ pc[r] = "commit" => \A i \in Ids : slugs[i] # req[r].slug

(* SlugOf says it all: the slug of the row if there is one, of the slugs   *)
(* row otherwise.                                                          *)
Unique ==
  \A i, j \in Ids : i # j /\ SlugOf[i] # NoSlug => SlugOf[i] # SlugOf[j]

SlugInv == Typing /\ Unstored /\ LegacyUnmirrored /\ MirrorAgrees /\ Reserved
           /\ Unique

LEMMA SlugInvInit == Init => SlugInv
<1> SUFFICES ASSUME Init PROVE SlugInv
  OBVIOUS
<1>1. Typing
  BY TypingInit
<1>2. Unstored /\ LegacyUnmirrored /\ MirrorAgrees /\ Reserved
  BY PostsAssumption DEF Init, Unstored, LegacyUnmirrored, MirrorAgrees,
     Reserved, Creating, Holding, Ids
<1>3. Unique
  <2>1. PICK rows \in LegacyRows :
          posts = [i \in Ids |-> IF i \in Legacy THEN rows[i] ELSE NoRow]
    BY DEF Init
  <2>2. \A i, j \in Legacy :
          rows[i] # NoRow /\ rows[j] # NoRow /\ i # j
            => rows[i].slug # rows[j].slug
    BY DEF LegacyRows
  <2>3. \A i \in Ids :
          SlugOf[i] = IF i \in Legacy /\ rows[i] # NoRow
                      THEN rows[i].slug ELSE NoSlug
    BY <2>1 DEF SlugOf, Init
  <2>4. \A i \in Ids : posts[i] # NoRow => posts[i].slug # NoSlug
    BY <1>1, PostsAssumption DEF Typing, TypeOK, PostRow
  <2>5. QED
    BY <2>1, <2>2, <2>3, <2>4 DEF Unique, Ids
<1>4. QED
  BY <1>1, <1>2, <1>3 DEF SlugInv

(* Both rows of a create become visible at once, and their slug is free.   *)
LEMMA StoreRowsKeepsSlugInv ==
  ASSUME SlugInv, NEW r \in Requests, pc[r] = "commit", StoreRows(r),
         NEW p \in {"announce", "done"}, pc' = [pc EXCEPT ![r] = p],
         req' = req, Typing'
  PROVE  SlugInv'
<1> USE DEF SlugInv, Typing, TypeOK
<1> DEFINE row == [owner |-> req[r].user, title |-> req[r].title,
                   slug |-> req[r].slug]
<1>1. /\ posts[r] = NoRow /\ slugs[r] = NoSlug
      /\ req[r].slug \in Slug /\ r \in Ids /\ r \notin Legacy
  BY PostsAssumption DEF Unstored, CreateData, Creating, Holding, Ids
<1>2. row \in PostRow /\ row # NoRow
  BY StoredRowType, PostsAssumption DEF CreateData, Creating, Holding
<1>3. /\ posts' = [posts EXCEPT ![r] = row]
      /\ slugs' = [slugs EXCEPT ![r] = req[r].slug]
  BY <1>1 DEF StoreRows
<1>4. Unstored' /\ LegacyUnmirrored' /\ MirrorAgrees'
  BY <1>1, <1>2, <1>3, PostsAssumption DEF Unstored, LegacyUnmirrored,
     MirrorAgrees, Creating, Holding, Ids
<1>5. Reserved'
  BY <1>1, <1>2, <1>3 DEF Reserved, Holding
<1>6. Unique'
  <2>1. SlugOf' = [SlugOf EXCEPT ![r] = req[r].slug]
    BY <1>1, <1>2, <1>3 DEF SlugOf
  <2>2. \A i \in Ids : SlugOf[i] # req[r].slug
    BY <1>1, PostsAssumption DEF Reserved, SlugOf, Holding
  <2>3. SlugOf \in [Ids -> Slug \cup {NoSlug}]
    BY DEF SlugOf, PostRow
  <2>4. QED
    BY <1>1, <2>1, <2>2, <2>3 DEF Unique
<1>7. QED
  BY <1>4, <1>5, <1>6

(* Removing a row of posts keeps the slug where it was recorded.           *)
LEMMA RemovalKeepsSlugInv ==
  ASSUME SlugInv, NEW r \in Requests, pc[r] = "delete",
         posts' = [posts EXCEPT ![req[r].post] = NoRow],
         pc' = [pc EXCEPT ![r] = "done"],
         UNCHANGED <<slugs, req>>, Typing'
  PROVE  SlugInv'
<1> USE DEF SlugInv, Typing, TypeOK
<1> DEFINE d == req[r].post
<1>1. d \in Ids
  BY DEF RequestData
<1>2. Unstored' /\ LegacyUnmirrored' /\ MirrorAgrees' /\ Reserved'
  BY <1>1 DEF Unstored, LegacyUnmirrored, MirrorAgrees, Reserved, Creating,
     Holding, Ids
<1>3. \A i \in Ids : SlugOf'[i] = SlugOf[i] \/ SlugOf'[i] = NoSlug
  BY <1>1 DEF SlugOf, MirrorAgrees, LegacyUnmirrored, Ids
<1>4. Unique'
  BY <1>3 DEF Unique
<1>5. QED
  BY <1>2, <1>4

LEMMA SlugInvNext == SlugInv /\ [Next]_vars => SlugInv'
<1> SUFFICES ASSUME SlugInv, [Next]_vars PROVE SlugInv'
  OBVIOUS
<1> USE DEF SlugInv
<1>1. Typing'
  BY TypingNext
<1>2. ASSUME UNCHANGED <<posts, slugs>>,
             \A r \in Requests :
               \/ pc'[r] = pc[r] /\ req'[r] = req[r]
               \/ pc[r] = "idle" /\ pc'[r] \notin Holding
               \/ pc[r] # "idle" /\ pc'[r] \notin {"idle"} \cup Creating
      PROVE  SlugInv'
  <2>1. Unstored' /\ LegacyUnmirrored' /\ MirrorAgrees'
    BY <1>2 DEF Unstored, LegacyUnmirrored, MirrorAgrees, Creating
  <2>2. Reserved'
    BY <1>2 DEF Reserved, Holding, Creating
  <2>3. Unique'
    BY <1>2 DEF Unique, SlugOf
  <2>4. QED
    BY <1>1, <2>1, <2>2, <2>3
<1> USE DEF Typing, TypeOK
<1>3. ASSUME NEW r \in Requests, GenerateSlug(r) \/ Show(r) PROVE SlugInv'
  <2>1. UNCHANGED <<posts, slugs>> /\ pc[r] = "idle"
    BY <1>3 DEF GenerateSlug, Show, Goto, Answer
  <2>2. pc'[r] \in {"insertPost", "done"}
        /\ \A q \in Requests \ {r} : pc'[q] = pc[q] /\ req'[q] = req[q]
    BY <1>3 DEF GenerateSlug, Show, Goto, Answer
  <2>3. QED
    BY <1>2, <2>1, <2>2 DEF Holding
<1>4. ASSUME NEW r \in Requests, InsertPost(r) PROVE SlugInv'
  <2>1. CASE pc' = [pc EXCEPT ![r] = "done"]
    BY <1>2, <1>4, <2>1 DEF InsertPost, Goto, Answer, Holding, Creating
  <2>2. CASE pc' = [pc EXCEPT ![r] = "persistSlug"]
    <3>1. /\ UNCHANGED <<posts, slugs, req>>
          /\ pc[r] = "insertPost" /\ ~PostSlugLocked(r)
          /\ ~PostSlugDuplicate(r)
      BY <1>4, <2>2 DEF InsertPost, Goto, Answer
    <3>2. Unstored' /\ LegacyUnmirrored' /\ MirrorAgrees' /\ Unique'
      BY <2>2, <3>1 DEF Unstored, LegacyUnmirrored, MirrorAgrees, Unique,
         SlugOf, Creating, Holding
    <3>3. Reserved'
      BY <2>2, <3>1 DEF Reserved, PostSlugLocked, PostSlugDuplicate, Holding
    <3>4. QED
      BY <1>1, <3>2, <3>3
  <2>3. QED
    BY <1>4, <2>1, <2>2 DEF InsertPost, Goto, Answer
<1>5. ASSUME NEW r \in Requests, PersistSlug(r) PROVE SlugInv'
  <2>1. CASE pc' = [pc EXCEPT ![r] = "done"]
    BY <1>2, <1>5, <2>1 DEF PersistSlug, Goto, Answer, Holding, Creating
  <2>2. CASE pc' = [pc EXCEPT ![r] = "commit"]
    <3>1. /\ UNCHANGED <<posts, slugs, req>>
          /\ pc[r] = "persistSlug" /\ ~MirrorSlugDuplicate(r)
      BY <1>5, <2>2 DEF PersistSlug, Goto, Answer
    <3>2. slugs[r] = NoSlug
      BY <3>1 DEF Unstored, Creating, Holding
    <3>3. Unstored' /\ LegacyUnmirrored' /\ MirrorAgrees' /\ Unique'
      BY <2>2, <3>1 DEF Unstored, LegacyUnmirrored, MirrorAgrees, Unique,
         SlugOf, Creating, Holding
    <3>4. Reserved'
      BY <2>2, <3>1, <3>2 DEF Reserved, MirrorSlugDuplicate, Holding
    <3>5. QED
      BY <1>1, <3>3, <3>4
  <2>3. QED
    BY <1>5, <2>1, <2>2 DEF PersistSlug, Goto, Answer
<1>6. ASSUME NEW r \in Requests, Commit(r) \/ CommitUnacknowledged(r)
      PROVE  SlugInv'
  BY <1>1, <1>6, StoreRowsKeepsSlugInv
     DEF Commit, CommitUnacknowledged, Goto, Answer
<1>7. ASSUME NEW r \in Requests, StartUpdate(r) \/ StartDelete(r)
      PROVE  SlugInv'
  <2>1. UNCHANGED <<posts, slugs>> /\ pc[r] = "idle"
    BY <1>7 DEF StartUpdate, StartDelete, BindForWrite, Goto, Answer
  <2>2. pc'[r] \in {"update", "delete", "done"}
        /\ \A q \in Requests \ {r} : pc'[q] = pc[q] /\ req'[q] = req[q]
    BY <1>7 DEF StartUpdate, StartDelete, BindForWrite, Bind, Goto, Answer
  <2>3. QED
    BY <1>2, <2>1, <2>2 DEF Holding
<1>8. ASSUME NEW r \in Requests, UpdateRow(r) PROVE SlugInv'
  <2> DEFINE i == req[r].post
  <2>1. /\ UNCHANGED <<slugs, req>> /\ pc[r] = "update"
        /\ pc' = [pc EXCEPT ![r] = "reload"]
        /\ i \in Ids
    BY <1>8 DEF UpdateRow, Goto, RequestData
  <2>2. \A j \in Ids : /\ posts'[j] # NoRow <=> posts[j] # NoRow
                       /\ posts[j] # NoRow => posts'[j].slug = posts[j].slug
    <3>1. CASE posts[i] = NoRow
      BY <1>8, <3>1 DEF UpdateRow
    <3>2. CASE posts[i] # NoRow
      <4>1. posts[i] \in PostRow
        BY <2>1, <3>2
      <4>2. posts' = [posts EXCEPT ![i] = [posts[i] EXCEPT !.title = req[r].title]]
        BY <1>8, <3>2 DEF UpdateRow
      <4>3. [posts[i] EXCEPT !.title = req[r].title]
              = [owner |-> posts[i].owner, title |-> req[r].title,
                 slug |-> posts[i].slug]
        BY <4>1 DEF PostRow
      <4>4. posts'[i] \in PostRow /\ posts'[i].slug = posts[i].slug
        BY <2>1, <4>1, <4>2, <4>3 DEF PostRow, UpdateData
      <4>5. QED
        BY <2>1, <3>2, <4>2, <4>4, PostsAssumption
    <3>3. QED
      BY <3>1, <3>2
  <2>3. Unstored' /\ LegacyUnmirrored' /\ MirrorAgrees' /\ Reserved'
    BY <2>1, <2>2 DEF Unstored, LegacyUnmirrored, MirrorAgrees, Reserved,
       Creating, Holding, Ids
  <2>4. SlugOf' = SlugOf
    BY <2>1, <2>2 DEF SlugOf
  <2>5. QED
    BY <1>1, <2>3, <2>4 DEF Unique
<1>9. ASSUME NEW r \in Requests, Reload(r) \/ Announce(r) \/ AnnounceFails(r)
                                 \/ StatementFails(r)
      PROVE  SlugInv'
  <2>1. UNCHANGED <<posts, slugs, req>> /\ pc[r] # "idle"
        /\ \E p \in {"announce", "done"} : pc' = [pc EXCEPT ![r] = p]
    BY <1>9 DEF Reload, Announce, AnnounceFails, StatementFails, Goto, Answer
  <2>2. QED
    BY <1>2, <2>1 DEF Holding, Creating
<1>10. ASSUME NEW r \in Requests, DeleteRow(r) \/ DeleteUnacknowledged(r)
       PROVE  SlugInv'
  BY <1>1, <1>10, RemovalKeepsSlugInv
     DEF DeleteRow, DeleteUnacknowledged, Goto, Answer
<1>11. CASE Crash
  BY <1>2, <1>11 DEF Crash, InFlight, Holding, Creating
<1>12. CASE UNCHANGED vars
  BY <1>2, <1>12 DEF vars
<1>13. QED
  BY <1>3, <1>4, <1>5, <1>6, <1>7, <1>8, <1>9, <1>10, <1>11, <1>12
     DEF Next, Create, Update, Delete, Fail

LEMMA SlugInvariant == Spec => []SlugInv
BY SlugInvInit, SlugInvNext, PTL DEF Spec

(* The mirror never disagrees with the post: PostService.create stores     *)
(* both rows or neither, under every interleaving and failure.             *)
THEOREM MirrorAlwaysAgrees == Spec => []MirrorAgrees
<1>1. SlugInv => MirrorAgrees
  BY DEF SlugInv
<1>2. QED
  BY SlugInvariant, <1>1, PTL

(* A slug never names two posts, in either table, before or after they are *)
(* deleted.                                                                *)
THEOREM SlugAlwaysNamesOnePost == Spec => []SlugNamesOnePost
<1>1. SlugInv => SlugNamesOnePost
  <2> SUFFICES ASSUME SlugInv, NEW i \in Ids, NEW j \in Ids, i # j,
                      NEW s \in Claims(i) \cap Claims(j)
               PROVE  FALSE
    BY DEF SlugNamesOnePost
  <2>1. ASSUME NEW k \in Ids, s \in Claims(k)
        PROVE  SlugOf[k] = s /\ s # NoSlug
    BY <2>1, PostsAssumption DEF SlugInv, Typing, TypeOK, PostRow, Claims,
       SlugOf, MirrorAgrees, LegacyUnmirrored, Ids
  <2>2. QED
    BY <2>1 DEF SlugInv, Unique
<1>2. QED
  BY SlugInvariant, <1>1, PTL

-----------------------------------------------------------------------------
(* What a step may do to the tables and to the requests, whoever takes it. *)

(* A row appears only by its own commit; a row that stays keeps its owner  *)
(* and its slug; a row of slugs is written once, by the same commit.       *)
TableStep ==
  \A i \in Ids :
    /\ posts[i] = NoRow /\ posts'[i] # NoRow => i \in Requests /\ pc[i] = "commit"
    /\ posts[i] # NoRow /\ posts'[i] # NoRow =>
         /\ posts'[i].owner = posts[i].owner
         /\ posts'[i].slug = posts[i].slug
    /\ \/ slugs'[i] = slugs[i]
       \/ /\ i \in Requests /\ pc[i] = "commit"
          /\ slugs[i] = NoSlug /\ slugs'[i] = req[i].slug

LEMMA TableStepHolds == SlugInv /\ [Next]_vars => TableStep
<1> SUFFICES ASSUME SlugInv, [Next]_vars PROVE TableStep
  OBVIOUS
<1> USE DEF SlugInv, Typing, TypeOK
<1>1. CASE UNCHANGED <<posts, slugs>>
  BY <1>1 DEF TableStep
<1>2. ASSUME NEW r \in Requests, pc[r] = "commit", StoreRows(r)
      PROVE  TableStep
  <2>1. posts[r] = NoRow /\ slugs[r] = NoSlug
    BY <1>2 DEF Unstored, Creating, Holding
  <2>2. QED
    BY <1>2, <2>1 DEF StoreRows, TableStep, Ids
<1>3. ASSUME NEW r \in Requests, UNCHANGED slugs,
             posts' = [posts EXCEPT ![req[r].post] = NoRow]
      PROVE  TableStep
  BY <1>3 DEF TableStep
<1>4. ASSUME NEW r \in Requests, UpdateRow(r) PROVE TableStep
  <2> DEFINE i == req[r].post
  <2>1. i \in Ids /\ UNCHANGED slugs
    BY <1>4 DEF UpdateRow, RequestData
  <2>2. CASE posts[i] = NoRow
    BY <1>1, <1>4, <2>1, <2>2 DEF UpdateRow
  <2>3. CASE posts[i] # NoRow
    <3>1. posts[i] \in PostRow
      BY <2>1, <2>3
    <3>2. posts' = [posts EXCEPT ![i] = [posts[i] EXCEPT !.title = req[r].title]]
      BY <1>4, <2>3 DEF UpdateRow
    <3>3. [posts[i] EXCEPT !.title = req[r].title]
            = [owner |-> posts[i].owner, title |-> req[r].title,
               slug |-> posts[i].slug]
      BY <3>1 DEF PostRow
    <3>4. posts'[i].owner = posts[i].owner /\ posts'[i].slug = posts[i].slug
          /\ \A j \in Ids \ {i} : posts'[j] = posts[j]
      BY <2>1, <3>2, <3>3
    <3>5. QED
      BY <2>1, <2>3, <3>4 DEF TableStep
  <2>4. QED
    BY <2>2, <2>3
<1>5. QED
  BY <1>1, <1>2, <1>3, <1>4
     DEF Next, Create, Update, Delete, Fail, vars, GenerateSlug, InsertPost,
         PersistSlug, Commit, Show, StartUpdate, Reload, StartDelete,
         BindForWrite, DeleteRow, Announce, AnnounceFails, StatementFails,
         CommitUnacknowledged, DeleteUnacknowledged, Crash, Goto, Answer

(* A row of posts is changed, while it exists, only by a request that has  *)
(* bound it for an update or a delete and is taking that step.             *)
LEMMA OverwriteStep ==
  ASSUME SlugInv, [Next]_vars, NEW i \in Ids, posts[i] # NoRow,
         posts'[i] # posts[i]
  PROVE  \E r \in Requests : /\ pc[r] \in {"update", "delete"}
                             /\ pc'[r] # pc[r]
                             /\ req[r].post = i
<1> USE DEF SlugInv, Typing, TypeOK
<1>1. ASSUME NEW r \in Requests, UpdateRow(r)
      PROVE  pc[r] = "update" /\ pc'[r] # pc[r] /\ req[r].post = i
  BY <1>1 DEF UpdateRow, Goto
<1>2. ASSUME NEW r \in Requests, DeleteRow(r) \/ DeleteUnacknowledged(r)
      PROVE  pc[r] = "delete" /\ pc'[r] # pc[r] /\ req[r].post = i
  BY <1>2 DEF DeleteRow, DeleteUnacknowledged, Answer, Goto
<1>3. ASSUME NEW r \in Requests, pc[r] = "commit", StoreRows(r)
      PROVE  FALSE
  BY <1>3 DEF StoreRows, Unstored, Creating, Holding, Ids
<1>4. QED
  BY <1>1, <1>2, <1>3
     DEF Next, Create, Update, Delete, Fail, vars, GenerateSlug, InsertPost,
         PersistSlug, Commit, Show, StartUpdate, Reload, StartDelete,
         BindForWrite, Announce, AnnounceFails, StatementFails,
         CommitUnacknowledged, Crash, Goto, Answer

-----------------------------------------------------------------------------
(* Requests.  What a request that is under way, or answered, knows about   *)
(* the tables, and that no other request can take away from it.            *)

(* The post bound by an update or a delete was stored, so that its row can *)
(* go but not come back, and it still has the owner it was checked for.    *)
Bound(r) ==
  /\ req[r].post \in Requests => slugs[req[r].post] # NoSlug
  /\ posts[req[r].post] # NoRow => posts[req[r].post].owner = req[r].user

Written(r) ==
  \/ req[r].op = "create" /\ slugs[r] = req[r].slug
  \/ req[r].op = "update" /\ r \in applied

UnderWay(r) ==
  /\ pc[r] # "done" => answer[r] = "none" /\ r \notin announced
  /\ pc[r] \in {"update", "reload", "delete"} => Bound(r)
  /\ pc[r] \in {"update", "reload"} => req[r].op = "update"
  /\ pc[r] = "delete" => req[r].op = "delete"
  /\ pc[r] = "reload" /\ posts[req[r].post] # NoRow => r \in applied
  /\ pc[r] = "announce" => Written(r)

Answered(r) ==
  /\ r \in announced => Written(r)
  /\ answer[r] = "created" => req[r].op = "create" /\ r \in announced
  /\ answer[r] = "conflict" =>
       posts[r] = NoRow /\ slugs[r] = NoSlug /\ r \notin announced
  /\ answer[r] = "noContent" => Bound(r) /\ posts[req[r].post] = NoRow

RequestInv == \A r \in Requests : UnderWay(r) /\ Answered(r)

IInv == SlugInv /\ RequestInv

LEMMA RequestInvInit == Init => RequestInv
BY DEF Init, RequestInv, UnderWay, Answered

(* A step that leaves a request alone leaves what it knows true. *)
LEMMA OthersKeepRequest ==
  ASSUME IInv, SlugInv', TableStep, NEW q \in Requests,
         pc'[q] = pc[q], req'[q] = req[q], answer'[q] = answer[q],
         (q \in applied') <=> (q \in applied),
         (q \in announced') <=> (q \in announced)
  PROVE  UnderWay(q)' /\ Answered(q)'
<1> USE DEF IInv, SlugInv, Typing, TypeOK, RequestInv
<1>1. q \in Ids /\ req[q].post \in Ids
  BY DEF Ids, RequestData
<1>2. Bound(q) => Bound(q)'
  <2>1. ASSUME req[q].post \in Requests, slugs[req[q].post] # NoSlug
        PROVE  slugs'[req[q].post] # NoSlug
    BY <1>1, <2>1 DEF TableStep
  <2>2. ASSUME Bound(q), posts'[req[q].post] # NoRow
        PROVE  posts'[req[q].post].owner = req[q].user
    <3>1. posts[req[q].post] # NoRow
      BY <1>1, <2>2 DEF TableStep, Bound, Unstored, Creating, Holding
    <3>2. QED
      BY <1>1, <2>2, <3>1 DEF TableStep, Bound
  <2>3. QED
    BY <2>1, <2>2 DEF Bound
<1>3. Written(q) => Written(q)'
  <2>1. slugs[q] # NoSlug => slugs'[q] = slugs[q]
    BY <1>1 DEF TableStep
  <2>2. CASE slugs[q] # NoSlug
    BY <2>1, <2>2 DEF Written
  <2>3. CASE slugs[q] = NoSlug
    BY <1>1, <2>3 DEF Written, TableStep
  <2>4. QED
    BY <2>2, <2>3
<1>4. Bound(q) /\ posts[req[q].post] = NoRow => posts'[req[q].post] = NoRow
  BY <1>1 DEF TableStep, Bound, Unstored, Creating, Holding
<1>5. pc[q] \in {"update", "reload", "delete"}
        /\ posts'[req[q].post] # NoRow => posts[req[q].post] # NoRow
  BY <1>4 DEF UnderWay
<1>6. UnderWay(q)'
  BY <1>2, <1>3, <1>5 DEF UnderWay
<1>7. answer[q] = "conflict" => posts'[q] = NoRow /\ slugs'[q] = NoSlug
  <2>1. answer[q] = "conflict" => pc[q] = "done"
    BY DEF UnderWay
  <2>2. QED
    BY <1>1, <2>1 DEF Answered, TableStep
<1>8. Answered(q)'
  BY <1>2, <1>3, <1>4, <1>7 DEF Answered
<1>9. QED
  BY <1>6, <1>8

LEMMA RequestInvNext == IInv /\ [Next]_vars => RequestInv'
<1> SUFFICES ASSUME IInv, [Next]_vars PROVE RequestInv'
  OBVIOUS
<1>1. SlugInv' /\ TableStep
  BY SlugInvNext, TableStepHolds DEF IInv
<1> USE DEF IInv, SlugInv, Typing, TypeOK
<1>2. ASSUME NEW r \in Requests,
             \A q \in Requests \ {r} :
               /\ pc'[q] = pc[q] /\ req'[q] = req[q] /\ answer'[q] = answer[q]
               /\ (q \in applied') <=> (q \in applied)
               /\ (q \in announced') <=> (q \in announced),
             UnderWay(r)' /\ Answered(r)'
      PROVE  RequestInv'
  BY <1>1, <1>2, OthersKeepRequest DEF RequestInv
<1>3. ASSUME NEW r \in Requests
      PROVE  /\ UnderWay(r) /\ Answered(r) /\ r \in Ids /\ req[r].post \in Ids
             /\ Written(r) /\ req'[r] = req[r] /\ (r \in applied => r \in applied')
                  => Written(r)'
  <2>1. UnderWay(r) /\ Answered(r) /\ r \in Ids /\ req[r].post \in Ids
    BY DEF RequestInv, Ids, RequestData
  <2>2. slugs[r] # NoSlug => slugs'[r] = slugs[r]
    BY <1>1, <2>1 DEF TableStep
  <2>3. slugs[r] = NoSlug /\ slugs[r] = req[r].slug => slugs'[r] = req[r].slug
    BY <1>1, <2>1 DEF TableStep
  <2>4. QED
    BY <2>1, <2>2, <2>3 DEF Written
(* A step of r that ends the request without writing anything. *)
<1>4. ASSUME NEW r \in Requests, NEW a \in Answers \ {"conflict", "noContent",
             "created"}, pc[r] # "done", pc' = [pc EXCEPT ![r] = "done"],
             answer' = [answer EXCEPT ![r] = a],
             \A q \in Requests \ {r} : req'[q] = req[q],
             UNCHANGED <<applied, announced>>
      PROVE  RequestInv'
  <2>1. UnderWay(r)' /\ Answered(r)'
    BY <1>3, <1>4 DEF UnderWay, Answered
  <2>2. QED
    BY <1>2, <1>4, <2>1
<1>5. ASSUME NEW r \in Requests, GenerateSlug(r) PROVE RequestInv'
  <2>1. UnderWay(r)' /\ Answered(r)'
    BY <1>3, <1>5 DEF GenerateSlug, Goto, UnderWay, Answered
  <2>2. QED
    BY <1>2, <1>5, <2>1 DEF GenerateSlug, Goto
(* The two INSERTs of a create: on to the next step, or refused. *)
<1>6. ASSUME NEW r \in Requests, pc[r] \in Creating,
             UNCHANGED <<posts, slugs, req, applied, announced>>,
             \/ /\ \E p \in Holding : pc' = [pc EXCEPT ![r] = p]
                /\ UNCHANGED answer
             \/ /\ pc' = [pc EXCEPT ![r] = "done"]
                /\ answer' = [answer EXCEPT ![r] = "conflict"]
      PROVE  RequestInv'
  <2>1. UnderWay(r)' /\ Answered(r)'
    BY <1>3, <1>6 DEF UnderWay, Answered, Unstored, Creating, Holding
  <2>2. QED
    BY <1>2, <1>6, <2>1
<1>7. ASSUME NEW r \in Requests, InsertPost(r) \/ PersistSlug(r)
      PROVE  RequestInv'
  BY <1>4, <1>6, <1>7 DEF InsertPost, PersistSlug, Goto, Answer, Creating,
     Holding, Answers
<1>8. ASSUME NEW r \in Requests, Commit(r) PROVE RequestInv'
  <2>1. pc[r] = "commit" /\ slugs[r] = NoSlug /\ req[r].op = "create"
    BY <1>8 DEF Commit, Goto, Unstored, CreateData, Creating, Holding
  <2>2. slugs'[r] = req[r].slug /\ UNCHANGED <<req, answer, announced, applied>>
        /\ pc' = [pc EXCEPT ![r] = "announce"]
    BY <1>3, <1>8, <2>1 DEF Commit, Goto, StoreRows
  <2>3. UnderWay(r)' /\ Answered(r)'
    BY <1>3, <2>1, <2>2 DEF UnderWay, Answered, Written
  <2>4. QED
    BY <1>2, <2>2, <2>3
<1>9. ASSUME NEW r \in Requests, CommitUnacknowledged(r) PROVE RequestInv'
  BY <1>4, <1>9 DEF CommitUnacknowledged, Goto, Answer, Answers
<1>10. ASSUME NEW r \in Requests, Show(r) PROVE RequestInv'
  BY <1>4, <1>10 DEF Show, Goto, Answer, Answers
(* Binding: the row read now exists, so it was stored, and has the owner.  *)
<1>11. ASSUME NEW r \in Requests, NEW op \in {"update", "delete"},
              NEW t \in Titles \cup {NoTitle}, BindForWrite(r, op, t)
       PROVE  RequestInv'
  <2>1. PICK u \in Users, i \in Ids :
          /\ Bind(r, op, u, i, t)
          /\ \/ /\ Allowed(u, i)
                /\ Goto(r, "idle", op)
                /\ UNCHANGED answer
             \/ /\ ~Allowed(u, i)
                /\ Answer(r, "idle", Refusal(i))
    BY <1>11 DEF BindForWrite
  <2>2. UNCHANGED <<posts, slugs, applied, announced>>
        /\ \A q \in Requests \ {r} : req'[q] = req[q]
    BY <1>11, <2>1 DEF BindForWrite, Bind
  <2>3. CASE Answer(r, "idle", Refusal(i))
    <3>1. Refusal(i) \in Answers \ {"conflict", "noContent", "created"}
      BY DEF Refusal, Answers
    <3>2. /\ pc[r] # "done" /\ pc' = [pc EXCEPT ![r] = "done"]
          /\ answer' = [answer EXCEPT ![r] = Refusal(i)]
      BY <2>3 DEF Answer, Goto
    <3>3. QED
      BY <1>4, <2>2, <3>1, <3>2
  <2>4. CASE Allowed(u, i) /\ Goto(r, "idle", op) /\ UNCHANGED answer
    <3>1. req'[r].post = i /\ req'[r].user = u /\ req'[r].op = op
      BY <2>1 DEF Bind
    <3>2. i \in Requests => slugs[i] # NoSlug
      BY <2>4, PostsAssumption DEF Allowed, MirrorAgrees, PostRow
    <3>3. Bound(r)'
      BY <2>2, <2>4, <3>1, <3>2 DEF Bound, Allowed
    <3>4. UnderWay(r)' /\ Answered(r)'
      BY <1>3, <2>2, <2>4, <3>1, <3>3 DEF UnderWay, Answered, Goto
    <3>5. QED
      BY <1>2, <2>2, <2>4, <3>4 DEF Goto
  <2>5. QED
    BY <2>1, <2>3, <2>4
<1>12. ASSUME NEW r \in Requests, UpdateRow(r) PROVE RequestInv'
  <2>1. /\ UNCHANGED <<slugs, req, answer, announced>> /\ pc[r] = "update"
        /\ pc' = [pc EXCEPT ![r] = "reload"]
        /\ applied \subseteq applied' /\ applied' \subseteq applied \cup {r}
        /\ posts[req[r].post] = NoRow => UNCHANGED posts
        /\ posts[req[r].post] # NoRow => r \in applied'
    BY <1>12 DEF UpdateRow, Goto
  <2>2. Bound(r)'
    BY <1>1, <1>3, <2>1 DEF UnderWay, Bound, TableStep
  <2>3. UnderWay(r)' /\ Answered(r)'
    BY <1>3, <2>1, <2>2 DEF UnderWay, Answered
  <2>4. QED
    BY <1>2, <2>1, <2>3
<1>13. ASSUME NEW r \in Requests, Reload(r) PROVE RequestInv'
  <2>1. CASE posts[req[r].post] = NoRow /\ Answer(r, "reload", "ok")
    BY <1>4, <1>13, <2>1 DEF Reload, Answer, Goto, Answers
  <2>2. CASE posts[req[r].post] # NoRow /\ Goto(r, "reload", "announce")
             /\ UNCHANGED answer
    <3>1. UNCHANGED <<posts, slugs, req, applied, announced>>
      BY <1>13 DEF Reload
    <3>2. UnderWay(r)' /\ Answered(r)'
      BY <1>3, <2>2, <3>1 DEF UnderWay, Answered, Written, Goto
    <3>3. QED
      BY <1>2, <2>2, <3>1, <3>2 DEF Goto
  <2>3. QED
    BY <1>13, <2>1, <2>2 DEF Reload
<1>14. ASSUME NEW r \in Requests, DeleteRow(r) PROVE RequestInv'
  <2>1. /\ UNCHANGED <<slugs, req, applied, announced>> /\ pc[r] = "delete"
        /\ pc' = [pc EXCEPT ![r] = "done"]
        /\ answer' = [answer EXCEPT ![r] = "noContent"]
        /\ posts'[req[r].post] = NoRow
    BY <1>3, <1>14 DEF DeleteRow, Answer, Goto
  <2>2. UnderWay(r)' /\ Answered(r)'
    BY <1>3, <2>1 DEF UnderWay, Answered, Bound
  <2>3. QED
    BY <1>2, <2>1, <2>2
<1>15. ASSUME NEW r \in Requests, DeleteUnacknowledged(r) \/ AnnounceFails(r)
              \/ StatementFails(r)
       PROVE  RequestInv'
  BY <1>4, <1>15 DEF DeleteUnacknowledged, AnnounceFails, StatementFails,
     Answer, Goto, Answers
<1>16. ASSUME NEW r \in Requests, Announce(r) PROVE RequestInv'
  <2>1. /\ UNCHANGED <<posts, slugs, req, applied>> /\ pc[r] = "announce"
        /\ pc' = [pc EXCEPT ![r] = "done"]
        /\ answer' = [answer EXCEPT
             ![r] = IF req[r].op = "create" THEN "created" ELSE "ok"]
        /\ announced' = announced \cup {r}
    BY <1>16 DEF Announce, Answer, Goto
  <2>2. UnderWay(r)' /\ Answered(r)'
    BY <1>3, <2>1 DEF UnderWay, Answered, Written
  <2>3. QED
    BY <1>2, <2>1, <2>2
<1>17. CASE Crash
  <2>1. ASSUME NEW q \in Requests PROVE UnderWay(q)' /\ Answered(q)'
    <3>1. CASE q \in InFlight
      BY <1>3, <1>17, <3>1 DEF Crash, InFlight, UnderWay, Answered
    <3>2. CASE q \notin InFlight
      BY <1>1, <1>17, <3>2, OthersKeepRequest DEF Crash
    <3>3. QED
      BY <3>1, <3>2
  <2>2. QED
    BY <2>1 DEF RequestInv
<1>18. CASE UNCHANGED vars
  BY <1>1, <1>18, OthersKeepRequest DEF vars, RequestInv
<1>19. QED
  <2>1. ASSUME NEW r \in Requests, StartUpdate(r) \/ StartDelete(r)
        PROVE  RequestInv'
    BY <1>11, <2>1 DEF StartUpdate, StartDelete
  <2>2. QED
    BY <1>5, <1>7, <1>8, <1>9, <1>10, <1>12, <1>13, <1>14, <1>15, <1>16, <1>17,
       <1>18, <2>1 DEF Next, Create, Update, Delete, Fail

LEMMA Invariance == Spec => []IInv
<1>1. Init => IInv
  BY SlugInvInit, RequestInvInit DEF IInv
<1>2. IInv /\ [Next]_vars => IInv'
  BY SlugInvNext, RequestInvNext DEF IInv
<1>3. QED
  BY <1>1, <1>2, PTL DEF Spec

(* What the client of a create is told is true. *)
THEOREM CreateAnswersAlwaysTrue == Spec => []CreateAnswersAreTrue
<1>1. IInv => CreateAnswersAreTrue
  <2> SUFFICES ASSUME IInv, NEW r \in Requests, req[r].op = "create"
               PROVE  /\ answer[r] = "created" =>
                           slugs[r] = req[r].slug /\ r \in announced
                      /\ answer[r] = "conflict" =>
                           Claims(r) = {} /\ r \notin announced
    BY DEF CreateAnswersAreTrue
  <2>1. Answered(r)
    BY DEF IInv, RequestInv
  <2>2. QED
    BY <2>1 DEF Answered, Written, Claims
<1>2. QED
  BY Invariance, <1>1, PTL

(* A post whose deletion was confirmed never exists again. *)
THEOREM DeletedAlwaysStaysDeleted == Spec => []DeletedStaysDeleted
<1>1. IInv => DeletedStaysDeleted
  BY DEF IInv, RequestInv, Answered, DeletedStaysDeleted
<1>2. QED
  BY Invariance, <1>1, PTL

(* Only events of writes that happened are dispatched. *)
THEOREM AnnouncedWritesAlwaysHappened == Spec => []AnnouncedWritesHappened
<1>1. IInv => AnnouncedWritesHappened
  BY DEF IInv, SlugInv, Typing, TypeOK, RequestInv, Answered, Written,
     AnnouncedWritesHappened
<1>2. QED
  BY Invariance, <1>1, PTL

(* The owner a row has when it is changed is the user of the request that  *)
(* changes it, although it was checked on an earlier read.                 *)
THEOREM OnlyTheOwnerWrites == Spec => OnlyOwnerWrites
<1>1. IInv /\ [Next]_vars =>
        [\A i \in Ids : posts[i] # NoRow /\ posts'[i] # posts[i] =>
           \E r \in Requests : /\ pc[r] \in {"update", "delete"}
                               /\ pc'[r] # pc[r]
                               /\ req[r].post = i
                               /\ req[r].user = posts[i].owner]_vars
  <2> SUFFICES ASSUME IInv, [Next]_vars, NEW i \in Ids, posts[i] # NoRow,
                      posts'[i] # posts[i]
               PROVE  \E r \in Requests : /\ pc[r] \in {"update", "delete"}
                                          /\ pc'[r] # pc[r]
                                          /\ req[r].post = i
                                          /\ req[r].user = posts[i].owner
    OBVIOUS
  <2>1. PICK r \in Requests : /\ pc[r] \in {"update", "delete"}
                              /\ pc'[r] # pc[r]
                              /\ req[r].post = i
    BY OverwriteStep DEF IInv
  <2>2. req[r].user = posts[i].owner
    BY <2>1 DEF IInv, RequestInv, UnderWay, Bound
  <2>3. QED
    BY <2>1, <2>2
<1>2. QED
  BY Invariance, <1>1, PTL DEF Spec, OnlyOwnerWrites

-----------------------------------------------------------------------------
(* Conflicts.                                                              *)

(* What the snapshot of a create showed stays true while it is under way:  *)
(* none of the posts seen has its slug, and the others are posts that had  *)
(* not been stored, none of them a legacy post.                            *)
SeenInv ==
  \A r \in Requests : pc[r] \in Creating =>
    /\ \A i \in req[r].seen :
         /\ req[r].slug \notin Claims(i)
         /\ i \in Requests => slugs[i] # NoSlug
    /\ \A i \in Legacy \ req[r].seen : posts[i] = NoRow

LEMMA SeenInvInit == Init => SeenInv
BY DEF Init, SeenInv, Creating, Holding

LEMMA SeenInvNext == SlugInv /\ SeenInv /\ [Next]_vars => SeenInv'
<1> SUFFICES ASSUME SlugInv, SeenInv, [Next]_vars,
                    NEW r \in Requests, pc'[r] \in Creating
             PROVE  /\ \A i \in req'[r].seen :
                         /\ req'[r].slug \notin Claims(i)'
                         /\ i \in Requests => slugs'[i] # NoSlug
                    /\ \A i \in Legacy \ req'[r].seen : posts'[i] = NoRow
  BY DEF SeenInv
<1> USE DEF SlugInv, Typing, TypeOK
<1>1. TableStep
  BY TableStepHolds
<1>2. CASE GenerateSlug(r)
  <2>1. PICK u \in Users, t \in Titles, n \in Suffixes :
          /\ FirstFree(Base[t], n)
          /\ req' = [req EXCEPT ![r] =
                       [op |-> "create", user |-> u, post |-> r, title |-> t,
                        slug |-> Candidate(Base[t], n),
                        seen |-> {i \in Ids : Claims(i) # {}}]]
    BY <1>2 DEF GenerateSlug
  <2>2. UNCHANGED <<posts, slugs>>
    BY <1>2 DEF GenerateSlug
  <2>3. \A i \in Ids : Candidate(Base[t], n) \notin Claims(i)
    BY <2>1 DEF FirstFree, Taken, Claims
  <2>4. \A i \in Requests : Claims(i) # {} => slugs[i] # NoSlug
    BY PostsAssumption DEF Claims, MirrorAgrees, PostRow, Ids
  <2>5. \A i \in Legacy : Claims(i) = {} => posts[i] = NoRow
    BY DEF Claims
  <2>6. req'[r].slug = Candidate(Base[t], n)
        /\ req'[r].seen = {i \in Ids : Claims(i) # {}}
    BY <2>1
  <2>7. \A i \in Ids : Claims(i)' = Claims(i)
    BY <2>2 DEF Claims
  <2>8. QED
    BY <2>2, <2>3, <2>4, <2>5, <2>6, <2>7 DEF Ids
<1>3. CASE ~GenerateSlug(r)
  <2>1. req'[r] = req[r] /\ pc[r] \in Creating
    <3> USE DEF Creating, Holding
    <3>1. ASSUME NEW q \in Requests, GenerateSlug(q)
          PROVE  req'[r] = req[r] /\ pc[r] \in Creating
      <4>1. q # r
        BY <1>3, <3>1
      <4>2. pc'[r] = pc[r]
        BY <3>1, <4>1 DEF GenerateSlug, Goto
      <4>3. req'[r] = req[r]
        BY <3>1, <4>1 DEF GenerateSlug
      <4>4. QED
        BY <4>2, <4>3
    <3>2. ASSUME NEW q \in Requests, Show(q)
          PROVE  req'[r] = req[r] /\ pc[r] \in Creating
      BY <3>2 DEF Show, Goto, Answer
    <3>3. ASSUME NEW q \in Requests, StartUpdate(q) \/ StartDelete(q)
          PROVE  req'[r] = req[r] /\ pc[r] \in Creating
      <4>1. \A p \in Requests \ {q} : req'[p] = req[p] /\ pc'[p] = pc[p]
        BY <3>3 DEF StartUpdate, StartDelete, BindForWrite, Bind, Goto, Answer
      <4>2. pc'[q] \in {"update", "delete", "done"}
        BY <3>3 DEF StartUpdate, StartDelete, BindForWrite, Goto, Answer
      <4>3. QED
        BY <4>1, <4>2
    <3>4. ASSUME NEW q \in Requests,
                 \/ InsertPost(q) \/ PersistSlug(q) \/ Commit(q) \/ UpdateRow(q)
                 \/ Reload(q) \/ DeleteRow(q) \/ Announce(q) \/ Fail(q)
          PROVE  req'[r] = req[r] /\ pc[r] \in Creating
      <4>1. UNCHANGED req /\ pc[q] # "idle"
            /\ \E p \in Steps : pc' = [pc EXCEPT ![q] = p]
        BY <3>4 DEF InsertPost, PersistSlug, Commit, UpdateRow, Reload,
           DeleteRow, Announce, Fail, AnnounceFails, StatementFails,
           CommitUnacknowledged, DeleteUnacknowledged, Goto, Answer, Steps
      <4>2. CASE q = r /\ pc[r] \notin Creating
        BY <3>4, <4>2 DEF InsertPost, PersistSlug, Commit, UpdateRow, Reload,
           DeleteRow, Announce, Fail, AnnounceFails, StatementFails,
           CommitUnacknowledged, DeleteUnacknowledged, Goto, Answer
      <4>3. QED
        BY <4>1, <4>2
    <3>5. CASE Crash
      BY <3>5 DEF Crash, InFlight
    <3>6. CASE UNCHANGED vars
      BY <3>6 DEF vars
    <3>7. QED
      BY <3>1, <3>2, <3>3, <3>4, <3>5, <3>6 DEF Next, Create, Update, Delete
  <2>2. ASSUME NEW i \in req[r].seen
        PROVE  /\ req[r].slug \notin Claims(i)'
               /\ i \in Requests => slugs'[i] # NoSlug
    <3>1. i \in Ids /\ req[r].slug \notin Claims(i)
          /\ (i \in Requests => slugs[i] # NoSlug)
      BY <2>1 DEF SeenInv, RequestData
    <3>2. i \in Requests => pc[i] # "commit"
      BY <3>1 DEF Unstored, Creating, Holding
    <3>3. Claims(i)' \subseteq Claims(i)
      BY <1>1, <3>1, <3>2 DEF TableStep, Claims
    <3>4. QED
      BY <1>1, <3>1, <3>2, <3>3 DEF TableStep
  <2>3. ASSUME NEW i \in Legacy \ req[r].seen PROVE posts'[i] = NoRow
    BY <1>1, <2>1, PostsAssumption DEF TableStep, SeenInv, Ids
  <2>4. QED
    BY <2>1, <2>2, <2>3
<1>4. QED
  BY <1>2, <1>3

(* A 409 always names a slug stored, since the request looked, by another  *)
(* create.                                                                 *)
THEOREM ConflictsAlwaysOvertaken == Spec => ConflictOnlyWhenOvertaken
<1>1. SlugInv /\ SeenInv /\ [Next]_vars =>
        [\A r \in Requests : answer'[r] = "conflict" /\ answer[r] # "conflict" =>
           \E i \in Requests \ req[r].seen : req[r].slug \in Claims(i)]_vars
  <2> SUFFICES ASSUME SlugInv, SeenInv, [Next]_vars, NEW r \in Requests,
                      answer'[r] = "conflict", answer[r] # "conflict"
               PROVE  \E i \in Requests \ req[r].seen : req[r].slug \in Claims(i)
    OBVIOUS
  <2> USE DEF SlugInv, Typing, TypeOK
  <2>1. /\ pc[r] \in Creating
        /\ \/ PostSlugDuplicate(r)
           \/ pc[r] \in Holding /\ MirrorSlugDuplicate(r)
    <3>1. ASSUME NEW q \in Requests, InsertPost(q) \/ PersistSlug(q)
          PROVE  /\ pc[r] \in Creating
                 /\ \/ PostSlugDuplicate(r)
                    \/ pc[r] \in Holding /\ MirrorSlugDuplicate(r)
      BY <3>1 DEF InsertPost, PersistSlug, Goto, Answer, Creating, Holding
    <3>2. ASSUME NEW q \in Requests, StartUpdate(q) \/ StartDelete(q)
          PROVE  FALSE
      BY <3>2 DEF StartUpdate, StartDelete, BindForWrite, Refusal, Answer
    <3>3. ASSUME NEW q \in Requests, GenerateSlug(q) \/ Commit(q) \/ UpdateRow(q)
          PROVE  FALSE
      BY <3>3 DEF GenerateSlug, Commit, UpdateRow
    <3>4. ASSUME NEW q \in Requests,
                 \/ Show(q) \/ Reload(q) \/ DeleteRow(q) \/ Announce(q)
                 \/ Fail(q)
          PROVE  FALSE
      BY <3>4 DEF Show, Reload, DeleteRow, Announce, Fail, AnnounceFails,
         StatementFails, CommitUnacknowledged, DeleteUnacknowledged, Answer
    <3>5. CASE Crash
      BY <3>5 DEF Crash
    <3>6. CASE UNCHANGED vars
      BY <3>6 DEF vars
    <3>7. QED
      BY <3>1, <3>2, <3>3, <3>4, <3>5, <3>6 DEF Next, Create, Update, Delete
  <2>2. PICK i \in Ids : req[r].slug \in Claims(i)
    <3>1. CASE PostSlugDuplicate(r)
      BY <3>1 DEF PostSlugDuplicate, Claims
    <3>2. CASE pc[r] \in Holding /\ MirrorSlugDuplicate(r)
      <4>1. PICK i \in Ids : slugs[i] = req[r].slug
        BY <3>2 DEF MirrorSlugDuplicate
      <4>2. req[r].slug # NoSlug
        BY <2>1, <3>2, PostsAssumption DEF CreateData
      <4>3. QED
        BY <4>1, <4>2 DEF Claims
    <3>3. QED
      BY <2>1, <3>1, <3>2
  <2>3. i \notin req[r].seen
    BY <2>1, <2>2 DEF SeenInv
  <2>4. i \in Requests
    BY <2>1, <2>2, <2>3 DEF SeenInv, LegacyUnmirrored, Claims, Ids
  <2>5. QED
    BY <2>2, <2>3, <2>4
<1>2. QED
  BY SlugInvariant, SeenInvInit, SeenInvNext, <1>1, PTL
     DEF Spec, ConflictOnlyWhenOvertaken

-----------------------------------------------------------------------------
(* Refinement.                                                             *)

LEMMA RegistryInitial == Init => Registry!Init
<1> SUFFICES ASSUME Init PROVE Registry!Init
  OBVIOUS
<1>1. SlugInv
  BY SlugInvInit
<1> USE <1>1 DEF SlugInv, Typing, TypeOK
<1>2. \A i \in Ids : posts[i] # NoRow => i \in Legacy
  BY DEF Init
<1>3. \A i \in Ids : SlugOf[i] # NoSlug <=> posts[i] # NoRow
  BY PostsAssumption DEF Init, SlugOf, PostRow
<1>4. SlugOf \in [Ids -> Slug \cup {NoSlug}]
  BY DEF SlugOf, PostRow
<1>5. \A i, j \in Ids :
        SlugOf[i] # NoSlug /\ SlugOf[j] # NoSlug /\ SlugOf[i] = SlugOf[j] => i = j
  BY DEF Unique
<1>6. QED
  BY <1>2, <1>3, <1>4, <1>5
     DEF Registry!Init, Registry!Assigned, Registry!Injective, Live

(* Every step of a request issues one slug, retires one post, or leaves    *)
(* the registry as it is.                                                  *)
LEMMA RegistryStep ==
  IInv /\ [Next]_vars => [Registry!Next]_<<SlugOf, Live>>
<1> SUFFICES ASSUME IInv, [Next]_vars
             PROVE  [Registry!Next]_<<SlugOf, Live>>
  OBVIOUS
<1> USE DEF IInv, SlugInv, Typing, TypeOK
<1>1. CASE UNCHANGED <<posts, slugs>>
  BY <1>1 DEF SlugOf, Live
<1>2. ASSUME NEW r \in Requests, pc[r] = "commit", StoreRows(r)
      PROVE  Registry!Next
  <2>1. /\ posts[r] = NoRow /\ slugs[r] = NoSlug /\ r \in Ids
        /\ r \notin Legacy /\ req[r].slug \in Slug
    BY <1>2, PostsAssumption DEF Unstored, CreateData, Creating, Holding, Ids
  <2>2. posts'[r] # NoRow /\ posts'[r].slug = req[r].slug
        /\ \A i \in Ids \ {r} : posts'[i] = posts[i] /\ slugs'[i] = slugs[i]
    <3>1. [owner |-> req[r].user, title |-> req[r].title,
           slug |-> req[r].slug] \in PostRow
      BY <1>2, <2>1, StoredRowType DEF CreateData, Creating, Holding
    <3>2. QED
      BY <1>2, <2>1, <3>1, PostsAssumption DEF StoreRows
  <2>3. SlugOf' = [SlugOf EXCEPT ![r] = req[r].slug]
    BY <2>1, <2>2 DEF SlugOf
  <2>4. Live' = Live \cup {r}
    BY <2>1, <2>2 DEF Live
  <2>5. \A i \in Ids : SlugOf[i] # req[r].slug
    BY <1>2, <2>1, PostsAssumption DEF Reserved, SlugOf, Holding
  <2>6. SlugOf[r] = NoSlug
    BY <2>1 DEF SlugOf
  <2>7. Registry!Issue(r)
    BY <2>1, <2>3, <2>4, <2>5, <2>6 DEF Registry!Issue
  <2>8. QED
    BY <2>1, <2>7 DEF Registry!Next
<1>3. ASSUME NEW r \in Requests, UNCHANGED slugs,
             posts' = [posts EXCEPT ![req[r].post] = NoRow]
      PROVE  [Registry!Next]_<<SlugOf, Live>>
  <2> DEFINE d == req[r].post
  <2>1. d \in Ids
    BY DEF RequestData
  <2>2. CASE posts[d] = NoRow
    <3>1. posts' = posts
      BY <1>3, <2>1, <2>2
    <3>2. QED
      BY <1>1, <1>3, <3>1
  <2>3. CASE posts[d] # NoRow
    <3>1. d \in Live /\ Live' = Live \ {d}
      BY <1>3, <2>1, <2>3 DEF Live
    <3>2. CASE d \in Legacy
      <4>1. slugs[d] = NoSlug
        BY <3>2 DEF LegacyUnmirrored
      <4>2. SlugOf' = [SlugOf EXCEPT ![d] = NoSlug]
        BY <1>3, <2>1, <4>1 DEF SlugOf
      <4>3. QED
        BY <2>1, <3>1, <3>2, <4>2 DEF Registry!Retire, Registry!Next
    <3>3. CASE d \notin Legacy
      <4>1. slugs[d] = posts[d].slug
        BY <2>1, <2>3, <3>3 DEF MirrorAgrees, Ids
      <4>2. SlugOf' = SlugOf
        BY <1>3, <2>1, <2>3, <4>1 DEF SlugOf
      <4>3. QED
        BY <2>1, <3>1, <3>3, <4>2 DEF Registry!Retire, Registry!Next
    <3>4. QED
      BY <3>2, <3>3
  <2>4. QED
    BY <2>2, <2>3
<1>4. ASSUME NEW r \in Requests, UpdateRow(r) PROVE UNCHANGED <<SlugOf, Live>>
  <2>1. TableStep
    BY TableStepHolds
  <2>2. UNCHANGED slugs
    BY <1>4 DEF UpdateRow
  <2>3. req[r].post \in Ids
    BY DEF RequestData
  <2>4. \A i \in Ids : posts'[i] = NoRow <=> posts[i] = NoRow
    <3>1. SlugInv'
      BY SlugInvNext
    <3>2. CASE posts[req[r].post] = NoRow
      BY <1>4, <3>2 DEF UpdateRow
    <3>3. CASE posts[req[r].post] # NoRow
      <4>1. \A i \in Ids \ {req[r].post} : posts'[i] = posts[i]
        BY <1>4, <3>3 DEF UpdateRow
      <4>2. pc[r] = "update" /\ pc'[r] = "reload"
        BY <1>4 DEF UpdateRow, Goto
      <4>3. posts'[req[r].post] # NoRow
        <5>1. posts'[req[r].post]
                = [posts[req[r].post] EXCEPT !.title = req[r].title]
          BY <1>4, <2>3, <3>3 DEF UpdateRow
        <5>2. posts[req[r].post] \in PostRow
          BY <2>3, <3>3
        <5>3. posts'[req[r].post] \in PostRow
          BY <4>2, <5>1, <5>2 DEF PostRow, UpdateData
        <5>4. QED
          BY <5>3, PostsAssumption
      <4>4. QED
        BY <3>3, <4>1, <4>3
    <3>4. QED
      BY <3>2, <3>3
  <2>5. QED
    BY <2>1, <2>2, <2>4 DEF TableStep, SlugOf, Live
<1>5. QED
  BY <1>1, <1>2, <1>3, <1>4
     DEF Next, Create, Update, Delete, Fail, vars, GenerateSlug, InsertPost,
         PersistSlug, Commit, Show, StartUpdate, Reload, StartDelete,
         BindForWrite, DeleteRow, Announce, AnnounceFails, StatementFails,
         CommitUnacknowledged, DeleteUnacknowledged, Crash, Goto, Answer

(* The posts API implements the slug registry: slugs are handed out once   *)
(* and never move from one post to another.                                *)
THEOREM PostsImplementRegistry == Spec => ImplementsRegistry
<1>1. IInv /\ [Next]_vars => [Registry!Next]_(Registry!registryVars)
  BY RegistryStep DEF Registry!registryVars
<1>2. QED
  BY Invariance, RegistryInitial, <1>1, PTL
     DEF Spec, ImplementsRegistry, Registry!Spec

=============================================================================
