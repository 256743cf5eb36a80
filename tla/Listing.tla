------------------------------ MODULE Listing ------------------------------
(***************************************************************************)
(* GET /posts, page by page.  Each request counts the posts and then reads *)
(* one page, newest post first, in two statements that share no            *)
(* transaction.  A client asks for a page, and for the next one as long as *)
(* the last answer says that there is one.  Posts come and go meanwhile.   *)
(*                                                                         *)
(* A post is its position in the order of the listing, by created_at and   *)
(* then by id: a greater number is newer.  A transaction that inserted     *)
(* early may commit late, so posts appear in any order.                    *)
(***************************************************************************)
EXTENDS Integers, FiniteSets

CONSTANTS
  Posts,       (* positions, some numbers                                  *)
  PageSizes,   (* what per_page may be                                     *)
  MaxPage      (* bound: the page a client begins with                     *)

ASSUME ListingAssumption ==
  /\ Posts \subseteq Nat /\ IsFiniteSet(Posts)
  /\ PageSizes \subseteq Nat \ {0}
  /\ MaxPage \in Nat \ {0}

VARIABLES
  table,     (* the posts stored now                                       *)
  deleted,   (* posts that were deleted; ids are not used again            *)
  pc,        (* the client's request: "idle", "count", "read" or "done"    *)
  query,     (* the page and per_page asked for, and the total counted     *)
  answers,   (* the answers so far: a function from pages                  *)
  start,     (* history: the table when the client began                   *)
  created,   (* history: were posts created since the client began ...     *)
  removed,   (* ... and deleted ...                                        *)
  torn       (* ... or either between the statements of the last request?  *)

vars == <<table, deleted, pc, query, answers, start, created, removed, torn>>

Init ==
  /\ table \in SUBSET Posts
  /\ deleted = {}
  /\ pc = "idle"
  /\ query = [page |-> 1, size |-> 1, total |-> 0]
  /\ answers = <<>>
  /\ start = table
  /\ created = FALSE
  /\ removed = FALSE
  /\ torn = FALSE

-----------------------------------------------------------------------------

Offset(q) == (q.page - 1) * q.size

(* How many posts come before post i. *)
Rank(i) == Cardinality({j \in table : j > i})

(* Variant: pages are counted from 0.                                      *)
RowsFromZero(q) ==
  {i \in table : Rank(i) \in (q.page * q.size)..((q.page + 1) * q.size - 1)}

(* Variant: one row more is read, to see whether there is a next page.     *)
RowsAndOneMore(q) == {i \in table : Rank(i) \in Offset(q)..(Offset(q) + q.size)}

(* ORDER BY created_at DESC, id DESC LIMIT per_page OFFSET offset *)
Rows(q) == {i \in table : Rank(i) \in Offset(q)..(Offset(q) + q.size - 1)}

(* Variant: the quotient is rounded down.                                  *)
LastPageRoundedDown(q) == IF q.total < q.size THEN 1 ELSE q.total \div q.size

(* The quotient rounded up, and 1 for an empty table. *)
LastPage(q) ==
  IF q.total = 0 THEN 1 ELSE (q.total + q.size - 1) \div q.size

(* Variant: "to" is where a full page would end.                           *)
MetaOfFullPage(q, rows) ==
  LET none == q.total = 0 \/ rows = {} IN
  [total |-> q.total, lastPage |-> LastPage(q),
   from |-> IF none THEN 0 ELSE Offset(q) + 1,
   to |-> IF none THEN 0 ELSE Offset(q) + q.size]

(* The meta data of an answer; 0 stands for null. *)
Meta(q, rows) ==
  LET none == q.total = 0 \/ rows = {} IN
  [total |-> q.total, lastPage |-> LastPage(q),
   from |-> IF none THEN 0 ELSE Offset(q) + 1,
   to |-> IF none THEN 0 ELSE Offset(q) + Cardinality(rows)]

-----------------------------------------------------------------------------

(* A validated query: any page, any allowed per_page.                      *)
Ask ==
  /\ pc = "idle"
  /\ pc' = "count"
  /\ \E p \in 1..MaxPage, s \in PageSizes :
       query' = [page |-> p, size |-> s, total |-> 0]
  /\ start' = table
  /\ UNCHANGED <<table, deleted, answers, created, removed, torn>>

Count ==
  /\ pc = "count"
  /\ pc' = "read"
  /\ query' = [query EXCEPT !.total = Cardinality(table)]
  /\ torn' = FALSE
  /\ UNCHANGED <<table, deleted, answers, start, created, removed>>

(* The page is read and answered; the client goes on to the next one, if   *)
(* the answer says that there is one.                                      *)
Read ==
  /\ pc = "read"
  /\ answers' = [p \in DOMAIN answers \cup {query.page} |->
                   IF p = query.page
                   THEN [rows |-> Rows(query), meta |-> Meta(query, Rows(query)),
                         torn |-> torn]
                   ELSE answers[p]]
  /\ \/ /\ query.page < LastPage(query)
        /\ pc' = "count"
        /\ query' = [query EXCEPT !.page = @ + 1]
     \/ /\ query.page >= LastPage(query)
        /\ pc' = "done"
        /\ UNCHANGED query
  /\ UNCHANGED <<table, deleted, start, created, removed, torn>>

(* Other requests.  What happens before the client begins, or after it has *)
(* its last answer, does not matter.                                       *)
Walking == pc \in {"count", "read"}

Create(i) ==
  /\ Walking
  /\ i \notin table \cup deleted
  /\ table' = table \cup {i}
  /\ created' = TRUE
  /\ torn' = (torn \/ pc = "read")
  /\ UNCHANGED <<deleted, pc, query, answers, start, removed>>

Delete(i) ==
  /\ Walking
  /\ i \in table
  /\ table' = table \ {i}
  /\ deleted' = deleted \cup {i}
  /\ removed' = TRUE
  /\ torn' = (torn \/ pc = "read")
  /\ UNCHANGED <<pc, query, answers, start, created>>

Next ==
  \/ Ask \/ Count \/ Read
  \/ \E i \in Posts : Create(i) \/ Delete(i)

Spec == Init /\ [][Next]_vars

-----------------------------------------------------------------------------
(* Properties.                                                             *)

Pages == DOMAIN answers

(* Every variable has its type; in particular there is always a last page. *)
TypeOK ==
  /\ table \subseteq Posts /\ deleted \subseteq Posts /\ start \subseteq Posts
  /\ pc \in {"idle", "count", "read", "done"}
  /\ query \in [page : Nat \ {0}, size : PageSizes \cup {1},
                total : 0..Cardinality(Posts)]
  /\ \A p \in DOMAIN answers :
       /\ p \in Nat \ {0}
       /\ answers[p].rows \subseteq Posts
       /\ answers[p].meta \in [total : Nat, lastPage : Nat \ {0},
                               from : Nat, to : Nat]
       /\ answers[p].torn \in BOOLEAN
  /\ {created, removed, torn} \subseteq BOOLEAN

(* Did the client begin with the first page and reach the last?            *)
WholeListing == pc = "done" /\ 1 \in Pages

Listed == UNION {answers[p].rows : p \in Pages}

(* If the table stands still, every post is on one page, newer posts on    *)
(* earlier pages, and no page but that of an empty table is empty: offset, *)
(* limit and last_page fit each other.                                     *)
QuietListingIsExact ==
  WholeListing /\ ~created /\ ~removed =>
    /\ Listed = start
    /\ \A p, q \in Pages : p < q =>
         \A i \in answers[p].rows, j \in answers[q].rows : i > j
    /\ start # {} => \A p \in Pages : answers[p].rows # {}

(* A post is listed twice only if a post was created meanwhile; deletions  *)
(* alone never repeat one.                                                 *)
RepeatedOnlyAfterCreate ==
  ~created =>
    \A p, q \in Pages : p # q => answers[p].rows \cap answers[q].rows = {}

(* A post that was there all the time is left out only if another was      *)
(* deleted, or if the answer that ended the listing counted the posts      *)
(* before a new one pushed its last row off the page.                      *)
MissedOnlyAfterRace ==
  WholeListing /\ ~removed /\ ~torn => start \subseteq Listed

(* Without a write between its two statements an answer describes itself:  *)
(* from and to span its rows, only the last page may be short, the rows    *)
(* end with the total on the last page, and pages past it are empty.       *)
MetaDescribesPage ==
  \A p \in Pages :
    LET a == answers[p] m == a.meta IN
    ~a.torn =>
      /\ IF a.rows = {} THEN m.from = 0 /\ m.to = 0
         ELSE m.to - m.from + 1 = Cardinality(a.rows) /\ m.to <= m.total
      /\ p < m.lastPage => Cardinality(a.rows) = query.size
      /\ p = m.lastPage => m.to = m.total
      /\ p > m.lastPage => a.rows = {}

=============================================================================
