--------------------------- MODULE ListingProofs ----------------------------
(* Theorems about Listing, for every set of posts and every page size.     *)
EXTENDS Listing, FiniteSetTheorems, FunctionTheorems, TLAPS

-----------------------------------------------------------------------------
(* The place of a post in a table.                                         *)

RankIn(T, i) == Cardinality({j \in T : j > i})

LEMMA Finite ==
  ASSUME NEW T \in SUBSET Posts
  PROVE  /\ IsFiniteSet(T) /\ Cardinality(T) \in Nat /\ T \subseteq Nat
         /\ \A S \in SUBSET T : IsFiniteSet(S) /\ Cardinality(S) \in Nat
<1>1. IsFiniteSet(T) /\ T \subseteq Nat
  BY ListingAssumption, FS_Subset
<1>2. ASSUME NEW S \in SUBSET T PROVE IsFiniteSet(S) /\ Cardinality(S) \in Nat
  BY <1>1, FS_Subset, FS_CardinalityType
<1>3. QED
  BY <1>1, <1>2

LEMMA RankIs ==
  ASSUME NEW T \in SUBSET Posts
  PROVE  /\ \A i : RankIn(T, i) \in Nat
         /\ \A i \in T : RankIn(T, i) < Cardinality(T)
         /\ \A i, j \in T : i < j => RankIn(T, j) < RankIn(T, i)
<1>1. ASSUME NEW i PROVE RankIn(T, i) \in Nat
  <2>1. {j \in T : j > i} \in SUBSET T
    OBVIOUS
  <2>2. QED
    BY <2>1, Finite DEF RankIn
(* A set without one of its elements is smaller.                           *)
<1>2. ASSUME NEW U \in SUBSET T, NEW S \in SUBSET U, NEW x \in U, x \notin S
      PROVE  Cardinality(S) < Cardinality(U)
  <2>1. IsFiniteSet(U) /\ IsFiniteSet(S) /\ Cardinality(U) \in Nat
        /\ Cardinality(S) \in Nat
    BY Finite
  <2>2. Cardinality(S) <= Cardinality(U) /\ Cardinality(U) # Cardinality(S)
    BY <1>2, <2>1, FS_Subset
  <2>3. QED
    BY <2>1, <2>2
<1>3. T \subseteq Nat
  BY Finite
<1>4. ASSUME NEW i \in T PROVE RankIn(T, i) < Cardinality(T)
  <2>1. {j \in T : j > i} \in SUBSET T /\ i \notin {j \in T : j > i}
    BY <1>3
  <2>2. QED
    BY <1>2, <2>1 DEF RankIn
<1>5. ASSUME NEW i \in T, NEW j \in T, i < j PROVE RankIn(T, j) < RankIn(T, i)
  <2>1. /\ {k \in T : k > j} \in SUBSET {k \in T : k > i}
        /\ {k \in T : k > i} \in SUBSET T
        /\ j \in {k \in T : k > i} /\ j \notin {k \in T : k > j}
    <3>1. i \in Nat /\ j \in Nat /\ \A k \in T : k \in Nat
      BY <1>3
    <3>2. \A k \in T : k > j => k > i
      BY <1>5, <3>1
    <3>3. j > i /\ ~(j > j)
      BY <1>5, <3>1
    <3>4. QED
      BY <3>2, <3>3
  <2>2. QED
    BY <1>2, <2>1 DEF RankIn
<1>6. QED
  BY <1>1, <1>4, <1>5

(* Newer posts push a post down, deleted ones let it move up.              *)
LEMMA RankMoves ==
  ASSUME NEW U \in SUBSET Posts, NEW T \in SUBSET U, NEW i
  PROVE  RankIn(T, i) <= RankIn(U, i)
<1>1. /\ {j \in T : j > i} \in SUBSET {j \in U : j > i}
      /\ {j \in U : j > i} \in SUBSET U
  OBVIOUS
<1>2. QED
  BY <1>1, Finite, FS_Subset DEF RankIn

(* The ranks of the posts are 0, 1, 2, ...                                 *)
LEMMA RanksAreCounted ==
  ASSUME NEW T \in SUBSET Posts
  PROVE  [i \in T |-> RankIn(T, i)] \in Bijection(T, 0..(Cardinality(T) - 1))
<1> DEFINE f == [i \in T |-> RankIn(T, i)]
           n == Cardinality(T)
<1>1. IsFiniteSet(T) /\ n \in Nat /\ T \subseteq Nat
  BY Finite
<1>2. f \in [T -> 0..(n - 1)]
  BY <1>1, RankIs
<1>3. ASSUME NEW i \in T, NEW j \in T, f[i] = f[j] PROVE i = j
  <2>1. ~(i < j) /\ ~(j < i)
    BY <1>3, RankIs
  <2>2. QED
    BY <1>1, <2>1
<1>4. IsFiniteSet(0..(n - 1)) /\ Cardinality(0..(n - 1)) = n
  <2>1. n - 1 \in Int /\ 0 \in Int
    BY <1>1
  <2>2. /\ IsFiniteSet(0..(n - 1))
        /\ Cardinality(0..(n - 1)) = IF 0 > n - 1 THEN 0 ELSE n - 1 - 0 + 1
    BY <2>1, FS_Interval
  <2>3. QED
    BY <1>1, <2>2
<1> HIDE DEF f
<1>5. f \in Injection(T, 0..(n - 1))
  BY <1>2, <1>3, Fun_IsInj
<1>6. f \in Surjection(T, 0..(n - 1))
  BY <1>4, <1>5, FS_Injection
<1>7. f \in Bijection(T, 0..(n - 1))
  BY <1>5, <1>6, Fun_IsBij
<1>8. QED
  BY <1>7 DEF f

-----------------------------------------------------------------------------
(* Pages.                                                                  *)

RowsIn(T, p, s) == {i \in T : RankIn(T, i) \in ((p - 1) * s)..((p - 1) * s + s - 1)}

LEMMA PagesAreLaid ==
  ASSUME NEW p \in Nat \ {0}, NEW q \in Nat \ {0}, NEW s \in Nat \ {0}
  PROVE  /\ (p - 1) * s \in Nat /\ p * s \in Nat /\ (p - 1) * s + s = p * s
         /\ p < q => p * s <= (q - 1) * s
         /\ p <= q => p * s <= q * s
<1>1. \A a, b \in Nat : a <= b => a * s <= b * s
  OBVIOUS
<1>2. (p - 1) * s \in Nat /\ p * s \in Nat /\ (p - 1) * s + s = p * s
  OBVIOUS
<1>3. p < q => p <= q - 1 /\ q - 1 \in Nat
  OBVIOUS
<1>4. QED
  BY <1>1, <1>2, <1>3

(* How many rows a page has.                                               *)
LEMMA RowsAreCounted ==
  ASSUME NEW T \in SUBSET Posts, NEW lo \in Nat, NEW s \in Nat \ {0}
  PROVE  LET R == {i \in T : RankIn(T, i) \in lo..(lo + s - 1)}
             n == Cardinality(T)
         IN  /\ IsFiniteSet(R)
             /\ Cardinality(R) = IF lo >= n THEN 0
                                 ELSE IF lo + s <= n THEN s ELSE n - lo
<1> DEFINE R == {i \in T : RankIn(T, i) \in lo..(lo + s - 1)}
           n == Cardinality(T)
           f == [i \in T |-> RankIn(T, i)]
           hi == IF lo + s <= n THEN lo + s - 1 ELSE n - 1
           g == [i \in R |-> RankIn(T, i)]
<1>1. IsFiniteSet(R) /\ n \in Nat
  BY Finite
<1>2. f \in Bijection(T, 0..(n - 1))
  BY RanksAreCounted
<1>3. /\ \A i \in T : f[i] = RankIn(T, i) /\ f[i] \in 0..(n - 1)
      /\ \A a, b \in T : f[a] = f[b] => a = b
      /\ \A k \in 0..(n - 1) : \E i \in T : f[i] = k
  <2>1. \A i \in T : f[i] = RankIn(T, i)
    OBVIOUS
  <2> HIDE DEF f, n
  <2>2. /\ f \in [T -> 0..(n - 1)]
        /\ \A a, b \in T : f[a] = f[b] => a = b
        /\ \A k \in 0..(n - 1) : \E i \in T : f[i] = k
    BY <1>2 DEF Bijection, Injection, Surjection, IsInjective
  <2>3. QED
    BY <2>1, <2>2
<1>4. g \in Bijection(R, lo..hi)
  <2>1. \A i \in R : i \in T /\ g[i] = f[i] /\ f[i] \in lo..(lo + s - 1)
    BY <1>3
  <2>2. ASSUME NEW i \in R PROVE g[i] \in lo..hi
    <3>1. g[i] \in 0..(n - 1) /\ g[i] \in lo..(lo + s - 1)
      BY <1>3, <2>1
    <3>2. QED
      BY <1>1, <3>1
  <2>3. \A a, b \in R : g[a] = g[b] => a = b
    BY <1>3, <2>1
  <2>4. ASSUME NEW k \in lo..hi PROVE \E i \in R : g[i] = k
    <3>1. k \in 0..(n - 1) /\ k \in lo..(lo + s - 1)
      BY <1>1
    <3>2. PICK i \in T : f[i] = k
      BY <1>3, <3>1
    <3>3. i \in R
      BY <1>3, <3>1, <3>2
    <3>4. QED
      BY <2>1, <3>2, <3>3
  <2>5. g \in [R -> lo..hi]
    BY <2>2
  <2> HIDE DEF g, R, hi, f
  <2>6. QED
    BY <2>3, <2>4, <2>5, Fun_IsBij
<1>5. Cardinality(R) = Cardinality(lo..hi)
  <2> HIDE DEF g, R, hi
  <2>1. ExistsBijection(R, lo..hi)
    BY <1>4, Fun_ExistsBij
  <2>2. QED
    BY <1>1, <2>1, FS_Bijection
<1>6. Cardinality(lo..hi) = IF lo > hi THEN 0 ELSE hi - lo + 1
  <2>1. lo \in Int /\ hi \in Int
    BY <1>1
  <2> HIDE DEF hi
  <2>2. QED
    BY <2>1, FS_Interval
<1> HIDE DEF R, n, g, f
<1>7. Cardinality(R) = IF lo >= n THEN 0 ELSE IF lo + s <= n THEN s ELSE n - lo
  BY <1>1, <1>5, <1>6
<1>8. QED
  BY <1>1, <1>7 DEF R, n

(* The pages up to the last one hold the total, and no page less does.     *)
LEMMA LastPageIs ==
  ASSUME NEW q, q.total \in Nat, q.size \in Nat \ {0}
  PROVE  /\ LastPage(q) \in Nat \ {0}
         /\ q.total <= LastPage(q) * q.size
         /\ q.total # 0 => (LastPage(q) - 1) * q.size < q.total
<1> DEFINE t == q.total
           s == q.size
           d == (t + s - 1) \div s
<1>1. CASE t = 0
  <2>1. LastPage(q) = 1
    BY <1>1 DEF LastPage
  <2>2. QED
    BY <1>1, <2>1
<1>2. CASE t # 0
  <2>1. LastPage(q) = d
    BY <1>2 DEF LastPage
  <2>2. t + s - 1 \in Nat /\ s \in Nat \ {0} /\ t \in Nat
    OBVIOUS
  <2> HIDE DEF s, t
  <2>3. d \in Nat /\ s * d <= t + s - 1 /\ t + s - 1 < s * d + s
    BY <2>2
  <2> HIDE DEF d
  <2>4. d # 0 /\ d * s = s * d /\ (d - 1) * s = s * d - s
    BY <1>2, <2>2, <2>3
  <2>5. QED
    BY <1>2, <2>1, <2>2, <2>3, <2>4 DEF s, t
<1>3. QED
  BY <1>1, <1>2

-----------------------------------------------------------------------------
(* The inductive invariant.                                                *)

Quiet == ~created /\ ~removed

(* Did the client begin with the first page?                               *)
FromTheFirst == 1 \in Pages \/ (Walking /\ query.page = 1)

(* How far the client is, and what it can know of the table.               *)
Course ==
  /\ pc = "idle" => Pages = {} /\ Quiet
  /\ Walking => \A p \in Pages : p < query.page
  /\ \A p \in Pages : p <= query.page
  /\ Quiet => table = start /\ ~torn
  /\ ~removed => start \subseteq table
  /\ pc = "read" /\ ~torn => query.total = Cardinality(table)

(* Without deletions whatever is above the next page has been listed.      *)
Covered ==
  Walking /\ ~removed /\ FromTheFirst =>
    \A i \in start : RankIn(table, i) < (query.page - 1) * query.size => i \in Listed

(* Without creations whatever has been listed stays above the next page.   *)
Above ==
  ~created => \A p \in Pages : \A i \in answers[p].rows \cap table :
                RankIn(table, i) < p * query.size

(* Without either the pages are those of the table that there is now.      *)
Still ==
  Quiet =>
    /\ \A p \in Pages : answers[p].rows = RowsIn(table, p, query.size)
    /\ FromTheFirst /\ table # {} =>
         /\ \A p \in Pages : answers[p].rows # {}
         /\ Walking => (query.page - 1) * query.size < Cardinality(table)

IInv ==
  /\ TypeOK /\ Course /\ Covered /\ Above /\ Still
  /\ RepeatedOnlyAfterCreate /\ MissedOnlyAfterRace /\ MetaDescribesPage

LEMMA Typed ==
  ASSUME TypeOK
  PROVE  /\ table \in SUBSET Posts /\ query.page \in Nat \ {0}
         /\ query.size \in Nat \ {0} /\ query.total \in Nat
         /\ \A p \in Pages : p \in Nat \ {0}
<1>1. query.page \in Nat \ {0} /\ query.size \in PageSizes \cup {1}
      /\ query.total \in 0..Cardinality(Posts)
  BY DEF TypeOK
<1>2. Cardinality(Posts) \in Nat /\ PageSizes \subseteq Nat \ {0}
  BY ListingAssumption, FS_CardinalityType
<1>3. table \in SUBSET Posts /\ \A p \in Pages : p \in Nat \ {0}
  BY DEF TypeOK, Pages
<1>4. query.size \in Nat \ {0}
  <2>1. PageSizes \cup {1} \subseteq Nat \ {0}
    BY <1>2
  <2>2. QED
    BY <1>1, <2>1
<1>5. query.total \in Nat
  BY <1>1, <1>2
<1>6. QED
  BY <1>1, <1>3, <1>4, <1>5

LEMMA InitHolds == Init => IInv
<1> SUFFICES ASSUME Init PROVE IInv
  OBVIOUS
<1>1. /\ table \in SUBSET Posts /\ deleted = {} /\ pc = "idle" /\ Pages = {}
      /\ start = table /\ created = FALSE /\ removed = FALSE /\ torn = FALSE
      /\ query = [page |-> 1, size |-> 1, total |-> 0] /\ DOMAIN answers = {}
  BY DEF Init, Pages
<1>2. TypeOK
  <2>1. Cardinality(Posts) \in Nat
    BY ListingAssumption, FS_CardinalityType
  <2>2. query \in [page : Nat \ {0}, size : PageSizes \cup {1},
                   total : 0..Cardinality(Posts)]
    BY <1>1, <2>1
  <2>3. QED
    BY <1>1, <2>2 DEF TypeOK
<1>3. QED
  BY <1>1, <1>2 DEF IInv, Course, Covered, Above, Still, Quiet,
     FromTheFirst, Walking,
     RepeatedOnlyAfterCreate, MissedOnlyAfterRace, MetaDescribesPage, WholeListing

LEMMA AskKeeps ==
  ASSUME IInv, Ask
  PROVE  IInv'
<1>1. PICK p \in 1..MaxPage, s \in PageSizes :
        query' = [page |-> p, size |-> s, total |-> 0]
  BY DEF Ask
<1>2. /\ pc = "idle" /\ pc' = "count" /\ start' = table /\ table' = table
      /\ deleted' = deleted /\ answers' = answers /\ created' = created
      /\ removed' = removed /\ torn' = torn
  BY DEF Ask
<1>3. /\ Pages = {} /\ Pages' = {} /\ DOMAIN answers' = {} /\ Quiet
      /\ query'.page = p /\ query'.size = s
  BY <1>1, <1>2 DEF IInv, Course, Pages
<1>4. p \in Nat \ {0} /\ s \in Nat \ {0} /\ table \in SUBSET Posts
  BY ListingAssumption DEF IInv, TypeOK
<1>5. TypeOK'
  <2>1. Cardinality(Posts) \in Nat
    BY ListingAssumption, FS_CardinalityType
  <2>2. query' \in [page : Nat \ {0}, size : PageSizes \cup {1},
                    total : 0..Cardinality(Posts)]
    BY <1>1, <1>4, <2>1
  <2>3. QED
    BY <1>2, <1>3, <2>2 DEF IInv, TypeOK
<1>6. Covered'
  <2>1. CASE p = 1
    <3>1. (p - 1) * s = 0
      BY <1>4, <2>1
    <3>2. \A i : ~(RankIn(table, i) < (p - 1) * s)
      <4>1. \A i : RankIn(table, i) \in Nat
        BY <1>4, RankIs
      <4>2. QED
        BY <3>1, <4>1
    <3>3. \A i : ~(RankIn(table', i) < (query'.page - 1) * query'.size)
      BY <1>2, <1>3, <3>2 DEF RankIn
    <3>4. QED
      BY <3>3 DEF Covered, RankIn
  <2>2. CASE p # 1
    BY <1>3, <2>2 DEF Covered, FromTheFirst
  <2>3. QED
    BY <2>1, <2>2
<1>7. Still'
  <2>1. CASE p = 1 /\ table # {}
    <3>1. (p - 1) * s = 0
      BY <1>4, <2>1
    <3>2. 0 < Cardinality(table)
      <4>1. IsFiniteSet(table) /\ Cardinality(table) \in Nat
        BY <1>4, Finite
      <4>2. Cardinality(table) # 0
        BY <2>1, <4>1, FS_EmptySet
      <4>3. QED
        BY <4>1, <4>2
    <3>3. QED
      BY <1>2, <1>3, <3>1, <3>2 DEF Still
  <2>2. CASE ~(p = 1 /\ table # {})
    BY <1>2, <1>3, <2>2 DEF Still, FromTheFirst
  <2>3. QED
    BY <2>1, <2>2
<1>8. Course' /\ Above'
  BY <1>2, <1>3 DEF IInv, Course, Above, Quiet, Walking
<1>9. RepeatedOnlyAfterCreate' /\ MissedOnlyAfterRace' /\ MetaDescribesPage'
  BY <1>2, <1>3 DEF RepeatedOnlyAfterCreate, MissedOnlyAfterRace, MetaDescribesPage,
     WholeListing
<1>10. QED
  BY <1>5, <1>6, <1>7, <1>8, <1>9 DEF IInv

LEMMA CountKeeps ==
  ASSUME IInv, Count
  PROVE  IInv'
<1>1. /\ pc = "count" /\ pc' = "read" /\ torn' = FALSE
      /\ query' = [query EXCEPT !.total = Cardinality(table)]
      /\ table' = table /\ deleted' = deleted /\ answers' = answers
      /\ start' = start /\ created' = created /\ removed' = removed
  BY DEF Count
<1>2. /\ query \in [page : Nat \ {0}, size : PageSizes \cup {1},
                     total : 0..Cardinality(Posts)]
      /\ table \in SUBSET Posts
  BY DEF IInv, TypeOK
<1>3. Cardinality(table) \in 0..Cardinality(Posts)
  <2>1. Cardinality(table) \in Nat
    BY <1>2, Finite
  <2>2. IsFiniteSet(Posts) /\ Cardinality(Posts) \in Nat
    BY ListingAssumption, FS_CardinalityType
  <2>3. Cardinality(table) <= Cardinality(Posts)
    BY <1>2, <2>2, FS_Subset
  <2>4. QED
    BY <2>1, <2>2, <2>3
<1>4. /\ query'.page = query.page /\ query'.size = query.size
      /\ query'.total = Cardinality(table)
      /\ query' \in [page : Nat \ {0}, size : PageSizes \cup {1},
                      total : 0..Cardinality(Posts)]
  BY <1>1, <1>2, <1>3
<1>5. TypeOK'
  BY <1>1, <1>4 DEF IInv, TypeOK
<1>6. Pages' = Pages /\ Listed' = Listed /\ Walking /\ Walking'
  BY <1>1 DEF Pages, Listed, Walking
<1>7. Course' /\ Covered' /\ Above'
  BY <1>1, <1>4, <1>6 DEF IInv, Course, Covered, Above, Quiet, FromTheFirst, RankIn
<1>8. Still'
  BY <1>1, <1>4, <1>6 DEF IInv, Still, Quiet, FromTheFirst, RowsIn, RankIn
<1>9. RepeatedOnlyAfterCreate' /\ MissedOnlyAfterRace' /\ MetaDescribesPage'
  BY <1>1, <1>4, <1>6 DEF IInv, RepeatedOnlyAfterCreate, MissedOnlyAfterRace,
     MetaDescribesPage, WholeListing
<1>10. QED
  BY <1>5, <1>7, <1>8, <1>9 DEF IInv

(* Other requests while the client is walking.                             *)
LEMMA CreateKeeps ==
  ASSUME IInv, NEW i \in Posts, Create(i)
  PROVE  IInv'
<1>1. /\ pc' = pc /\ Walking /\ table' = table \cup {i} /\ created' = TRUE
      /\ deleted' = deleted /\ query' = query /\ answers' = answers
      /\ start' = start /\ removed' = removed /\ torn' = (torn \/ pc = "read")
  BY DEF Create
<1>2. Pages' = Pages /\ Listed' = Listed /\ Walking' /\ pc # "idle" /\ pc # "done"
  BY <1>1 DEF Pages, Listed, Walking
<1>3. TypeOK'
  BY <1>1 DEF IInv, TypeOK
<1>4. Course'
  BY <1>1, <1>2 DEF IInv, Course, Quiet
<1>5. Covered'
  <2>1. ASSUME ~removed, FromTheFirst, NEW j \in start,
               RankIn(table', j) < (query.page - 1) * query.size
        PROVE  j \in Listed
    <3>1. /\ table \in SUBSET Posts /\ table' \in SUBSET Posts
          /\ table \in SUBSET table'
          /\ query.page \in Nat \ {0} /\ query.size \in Nat \ {0}
      BY <1>1, Typed DEF IInv
    <3>2. /\ RankIn(table, j) <= RankIn(table', j)
          /\ RankIn(table, j) \in Nat /\ RankIn(table', j) \in Nat
      BY <3>1, RankIs, RankMoves
    <3>3. (query.page - 1) * query.size \in Nat
      BY <3>1, PagesAreLaid
    <3>4. RankIn(table, j) < (query.page - 1) * query.size
      BY <2>1, <3>2, <3>3
    <3>5. QED
      BY <1>1, <2>1, <3>4 DEF IInv, Covered
  <2>2. FromTheFirst' = FromTheFirst
    BY <1>1, <1>2 DEF FromTheFirst
  <2>3. \A j : RankIn(table, j)' = RankIn(table', j)
    BY DEF RankIn
  <2>4. QED
    BY <1>1, <1>2, <2>1, <2>2, <2>3 DEF Covered
<1>6. Above' /\ Still' /\ RepeatedOnlyAfterCreate'
  BY <1>1 DEF Above, Still, RepeatedOnlyAfterCreate, Quiet
<1>7. MissedOnlyAfterRace' /\ MetaDescribesPage'
  BY <1>1, <1>2 DEF IInv, MissedOnlyAfterRace, WholeListing, MetaDescribesPage
<1>8. QED
  BY <1>3, <1>4, <1>5, <1>6, <1>7 DEF IInv

LEMMA DeleteKeeps ==
  ASSUME IInv, NEW i \in Posts, Delete(i)
  PROVE  IInv'
<1>1. /\ pc' = pc /\ Walking /\ table' = table \ {i} /\ removed' = TRUE
      /\ deleted' = deleted \cup {i} /\ query' = query /\ answers' = answers
      /\ start' = start /\ created' = created /\ torn' = (torn \/ pc = "read")
  BY DEF Delete
<1>2. Pages' = Pages /\ Listed' = Listed /\ Walking' /\ pc # "idle" /\ pc # "done"
  BY <1>1 DEF Pages, Listed, Walking
<1>3. TypeOK'
  BY <1>1 DEF IInv, TypeOK
<1>4. Course'
  BY <1>1, <1>2 DEF IInv, Course, Quiet
<1>5. Above'
  <2>1. ASSUME ~created, NEW p \in Pages, NEW j \in answers[p].rows \cap table'
        PROVE  RankIn(table', j) < p * query.size
    <3>1. /\ table \in SUBSET Posts /\ table' \in SUBSET Posts
          /\ table' \in SUBSET table /\ p \in Nat \ {0}
          /\ query.size \in Nat \ {0} /\ j \in answers[p].rows \cap table
      BY <1>1, Typed DEF IInv
    <3>2. /\ RankIn(table', j) <= RankIn(table, j)
          /\ RankIn(table, j) \in Nat /\ RankIn(table', j) \in Nat
      BY <3>1, RankIs, RankMoves
    <3>3. p * query.size \in Nat
      BY <3>1, PagesAreLaid
    <3>4. RankIn(table, j) < p * query.size
      BY <2>1, <3>1 DEF IInv, Above
    <3>5. QED
      BY <3>2, <3>3, <3>4
  <2>2. \A j : RankIn(table, j)' = RankIn(table', j)
    BY DEF RankIn
  <2>3. QED
    BY <1>1, <1>2, <2>1, <2>2 DEF Above
<1>6. Covered' /\ Still' /\ MissedOnlyAfterRace'
  BY <1>1 DEF Covered, Still, Quiet, MissedOnlyAfterRace
<1>7. RepeatedOnlyAfterCreate' /\ MetaDescribesPage'
  BY <1>1, <1>2 DEF IInv, RepeatedOnlyAfterCreate, MetaDescribesPage
<1>8. QED
  BY <1>3, <1>4, <1>5, <1>6, <1>7 DEF IInv

-----------------------------------------------------------------------------
(* The answer.                                                             *)

Answer == [rows |-> Rows(query), meta |-> Meta(query, Rows(query)), torn |-> torn]

LEMMA RowsAre ==
  Rows(query) = RowsIn(table, query.page, query.size)
BY DEF Rows, RowsIn, Rank, RankIn, Offset

LEMMA AnswerTyped ==
  ASSUME TypeOK
  PROVE  /\ Answer.rows = Rows(query) /\ Answer.rows \in SUBSET table
         /\ Answer.torn = torn /\ Answer.meta = Meta(query, Rows(query))
         /\ Answer.meta \in [total : Nat, lastPage : Nat \ {0}, from : Nat, to : Nat]
<1>1. /\ table \in SUBSET Posts /\ query.page \in Nat \ {0}
      /\ query.size \in Nat \ {0} /\ query.total \in Nat
  BY Typed
<1>2. Rows(query) \in SUBSET table
  BY DEF Rows
<1>3. Cardinality(Rows(query)) \in Nat
  BY <1>1, <1>2, Finite
<1>4. Offset(query) \in Nat
  BY <1>1, PagesAreLaid DEF Offset
<1>5. LastPage(query) \in Nat \ {0}
  BY <1>1, LastPageIs
<1>6. Meta(query, Rows(query))
        \in [total : Nat, lastPage : Nat \ {0}, from : Nat, to : Nat]
  BY <1>1, <1>3, <1>4, <1>5 DEF Meta
<1>7. QED
  BY <1>2, <1>6 DEF Answer

(* What MetaDescribesPage says of one answer.                              *)
Described(p, a, s) ==
  ~a.torn =>
    /\ IF a.rows = {} THEN a.meta.from = 0 /\ a.meta.to = 0
       ELSE a.meta.to - a.meta.from + 1 = Cardinality(a.rows)
              /\ a.meta.to <= a.meta.total
    /\ p < a.meta.lastPage => Cardinality(a.rows) = s
    /\ p = a.meta.lastPage => a.meta.to = a.meta.total
    /\ p > a.meta.lastPage => a.rows = {}

LEMMA AnswerDescribesItself ==
  ASSUME TypeOK, Course, pc = "read"
  PROVE  Described(query.page, Answer, query.size)
<1> DEFINE t == query.total
           s == query.size
           p == query.page
           lo == (p - 1) * s
           L == LastPage(query)
           R == Rows(query)
           c == Cardinality(R)
           m == Meta(query, R)
<1>1. SUFFICES ASSUME ~torn PROVE Described(p, Answer, s)
  BY AnswerTyped DEF Described
<1>2. /\ table \in SUBSET Posts /\ p \in Nat \ {0} /\ s \in Nat \ {0} /\ t \in Nat
  BY Typed
<1>3. t = Cardinality(table)
  BY <1>1 DEF Course
<1>4. lo \in Nat /\ lo + s = p * s /\ p * s \in Nat
  BY <1>2, PagesAreLaid
<1>5. /\ L \in Nat \ {0} /\ t <= L * s
      /\ t # 0 => (L - 1) * s < t
  BY <1>2, LastPageIs
<1>6. R = {i \in table : RankIn(table, i) \in lo..(lo + s - 1)}
  BY RowsAre DEF RowsIn
<1>7. /\ IsFiniteSet(R)
      /\ c = IF lo >= t THEN 0 ELSE IF lo + s <= t THEN s ELSE t - lo
  <2> HIDE DEF lo, s, t, R
  <2>1. QED
    BY <1>2, <1>3, <1>4, <1>6, RowsAreCounted
<1>8. c = 0 <=> R = {}
  BY <1>7, FS_EmptySet
<1>9. /\ m.total = t /\ m.lastPage = L
      /\ m.from = (IF t = 0 \/ R = {} THEN 0 ELSE lo + 1)
      /\ m.to = (IF t = 0 \/ R = {} THEN 0 ELSE lo + c)
  BY DEF Meta, Offset
<1>10. /\ p < L => p * s <= (L - 1) * s /\ (L - 1) * s \in Nat
       /\ p = L => p * s = L * s /\ lo = (L - 1) * s
       /\ L < p => L * s <= lo
       /\ L * s \in Nat
  BY <1>2, <1>5, PagesAreLaid
<1> HIDE DEF t, s, p, lo, L, R, c, m
<1>11. IF R = {} THEN m.from = 0 /\ m.to = 0
       ELSE m.to - m.from + 1 = c /\ m.to <= t
  BY <1>2, <1>4, <1>7, <1>8, <1>9
<1>12. p < L => c = s
  <2>1. ASSUME p < L PROVE c = s
    <3>1. t # 0
      <4>1. ASSUME t = 0 PROVE FALSE
        <5>1. L = 1
          BY <4>1 DEF LastPage, L, t
        <5>2. QED
          BY <1>2, <2>1, <5>1
      <4>2. QED
        BY <4>1
    <3>2. lo + s < t
      BY <1>2, <1>4, <1>5, <1>10, <2>1, <3>1
    <3>3. QED
      BY <1>2, <1>4, <1>7, <3>2
  <2>2. QED
    BY <2>1
<1>13. p = L => m.to = t
  <2>1. ASSUME p = L PROVE m.to = t
    <3>1. CASE t = 0
      BY <1>9, <3>1
    <3>2. CASE t # 0
      <4>1. lo < t /\ t <= lo + s
        BY <1>4, <1>5, <1>10, <2>1, <3>2
      <4>2. c = t - lo /\ c # 0
        BY <1>2, <1>4, <1>7, <4>1
      <4>3. QED
        BY <1>2, <1>4, <1>8, <1>9, <3>2, <4>2
    <3>3. QED
      BY <3>1, <3>2
  <2>2. QED
    BY <2>1
<1>14. p > L => R = {}
  <2>1. ASSUME p > L PROVE R = {}
    <3>1. t <= lo
      BY <1>2, <1>4, <1>5, <1>10, <2>1
    <3>2. c = 0
      BY <1>2, <1>4, <1>7, <3>1
    <3>3. QED
      BY <1>8, <3>2
  <2>2. QED
    BY <2>1
<1>15. Answer.rows = R /\ Answer.meta = m
  BY DEF Answer, R, m
<1>16. QED
  BY <1>9, <1>11, <1>12, <1>13, <1>14, <1>15 DEF Described, c

LEMMA ReadKeeps ==
  ASSUME IInv, Read
  PROVE  IInv'
<1> DEFINE p == query.page
           s == query.size
           onward == pc' = "count"
<1>1. /\ pc = "read" /\ table' = table /\ deleted' = deleted /\ start' = start
      /\ created' = created /\ removed' = removed /\ torn' = torn
      /\ answers' = [q \in Pages \cup {p} |-> IF q = p THEN Answer ELSE answers[q]]
  BY DEF Read, Answer, Pages
<1>2. \/ /\ p < LastPage(query) /\ pc' = "count"
         /\ query' = [query EXCEPT !.page = p + 1]
      \/ /\ p >= LastPage(query) /\ pc' = "done" /\ query' = query
  BY DEF Read
<1>3. /\ table \in SUBSET Posts /\ p \in Nat \ {0} /\ s \in Nat \ {0}
      /\ query.total \in Nat /\ \A q \in Pages : q \in Nat \ {0}
      /\ query \in [page : Nat \ {0}, size : PageSizes \cup {1},
                    total : 0..Cardinality(Posts)]
  BY Typed DEF IInv, TypeOK
<1>4. /\ Walking /\ \A q \in Pages : q < p /\ q # p
      /\ Walking' => onward
  BY <1>1, <1>2, <1>3 DEF IInv, Course, Walking
<1>5. /\ Pages' = Pages \cup {p} /\ answers'[p] = Answer
      /\ \A q \in Pages : answers'[q] = answers[q]
  BY <1>1, <1>4 DEF Pages
<1>6. /\ Answer.rows = RowsIn(table, p, s) /\ Answer.rows \in SUBSET table
      /\ Answer.torn = torn
      /\ Answer.meta \in [total : Nat, lastPage : Nat \ {0}, from : Nat, to : Nat]
  BY AnswerTyped, RowsAre DEF IInv
<1>7. /\ query'.size = s
      /\ query' \in [page : Nat \ {0}, size : PageSizes \cup {1},
                     total : 0..Cardinality(Posts)]
      /\ onward => query'.page = p + 1
      /\ ~onward => query'.page = p
  BY <1>2, <1>3
<1>8. Listed' = Listed \cup Answer.rows
  <2>1. Listed' = UNION {answers'[q].rows : q \in Pages \cup {p}}
    BY <1>5 DEF Listed
  <2>2. QED
    BY <1>5, <2>1 DEF Listed
<1>9. FromTheFirst' => FromTheFirst
  BY <1>3, <1>4, <1>5, <1>7 DEF FromTheFirst
<1>10. /\ (p - 1) * s \in Nat /\ p * s \in Nat /\ (p - 1) * s + s = p * s
       /\ \A q \in Pages : q * s <= (p - 1) * s /\ q * s \in Nat
  BY <1>3, <1>4, PagesAreLaid
<1>11. ASSUME NEW i
       PROVE RankIn(table, i) \in Nat /\ RankIn(table, i)' = RankIn(table, i)
  BY <1>1, <1>3, RankIs DEF RankIn
<1>12. ASSUME NEW i \in table
       PROVE  i \in Answer.rows <=>
                (p - 1) * s <= RankIn(table, i) /\ RankIn(table, i) < p * s
  BY <1>3, <1>6, <1>10, <1>11 DEF RowsIn
<1>13. /\ LastPage(query) \in Nat \ {0}
       /\ query.total <= LastPage(query) * s
       /\ query.total # 0 => (LastPage(query) - 1) * s < query.total
  BY <1>3, LastPageIs
<1>14. ~torn => query.total = Cardinality(table)
  BY <1>1 DEF IInv, Course
<1> HIDE DEF p, s, onward
<1>15. TypeOK'
  <2>1. ASSUME NEW q \in Pages'
        PROVE  /\ q \in Nat \ {0} /\ answers'[q].rows \subseteq Posts
               /\ answers'[q].meta \in [total : Nat, lastPage : Nat \ {0},
                                        from : Nat, to : Nat]
               /\ answers'[q].torn \in BOOLEAN
    <3>1. CASE q = p
      BY <1>3, <1>5, <1>6, <3>1 DEF IInv, TypeOK
    <3>2. CASE q \in Pages
      BY <1>5, <3>2 DEF IInv, TypeOK, Pages
    <3>3. QED
      BY <1>5, <3>1, <3>2
  <2>2. pc' \in {"idle", "count", "read", "done"}
    BY <1>2
  <2>3. QED
    BY <1>1, <1>7, <2>1, <2>2 DEF IInv, TypeOK, Pages
<1>16. Course'
  <2>1. onward => pc' = "count"
    BY DEF onward
  <2>2. pc' # "idle" /\ pc' # "read"
    BY <1>2
  <2>3. \A q \in Pages' : q <= p /\ q < p + 1 /\ q <= p + 1
    BY <1>3, <1>4, <1>5
  <2>4. QED
    BY <1>1, <1>4, <1>7, <2>2, <2>3 DEF IInv, Course, Quiet
(* What is above the end of this page has been listed now.                 *)
<1>17. ASSUME ~removed, FromTheFirst, NEW i \in start, RankIn(table, i) < p * s
       PROVE  i \in Listed'
  <2>1. i \in table
    BY <1>17 DEF IInv, Course
  <2>2. CASE RankIn(table, i) < (p - 1) * s
    BY <1>4, <1>8, <1>17, <2>2 DEF IInv, Covered, p, s
  <2>3. CASE (p - 1) * s <= RankIn(table, i)
    BY <1>8, <1>12, <1>17, <2>1, <2>3
  <2>4. QED
    BY <1>10, <1>11, <2>2, <2>3
<1>18. Covered'
  <2>1. ASSUME Walking', ~removed, FromTheFirst', NEW i \in start,
               RankIn(table, i) < (query'.page - 1) * query'.size
        PROVE  i \in Listed'
    <3>1. (query'.page - 1) * query'.size = p * s
      <4>1. query'.page = p + 1 /\ query'.size = s
        BY <1>4, <1>7, <2>1
      <4>2. query'.page - 1 = p
        BY <1>3, <4>1
      <4>3. QED
        BY <4>1, <4>2
    <3>2. QED
      BY <1>9, <1>17, <2>1, <3>1
  <2>2. QED
    BY <1>1, <1>11, <2>1 DEF Covered
<1>19. MissedOnlyAfterRace'
  <2>1. ASSUME pc' = "done", 1 \in Pages', ~removed, ~torn, NEW i \in start
        PROVE  i \in Listed'
    <3>1. FromTheFirst
      BY <1>9, <2>1 DEF FromTheFirst
    <3>2. i \in table
      BY <2>1 DEF IInv, Course
    <3>3. RankIn(table, i) < query.total
      BY <1>3, <1>14, <2>1, <3>2, RankIs
    <3>4. LastPage(query) * s <= p * s /\ LastPage(query) * s \in Nat
      <4>1. LastPage(query) <= p
        BY <1>2, <1>3, <1>13, <2>1 DEF p
      <4>2. QED
        BY <1>3, <1>13, <4>1, PagesAreLaid
    <3>5. RankIn(table, i) < p * s
      BY <1>3, <1>10, <1>11, <1>13, <3>3, <3>4
    <3>6. QED
      BY <1>17, <2>1, <3>1, <3>5
  <2>2. QED
    BY <1>1, <2>1 DEF MissedOnlyAfterRace, WholeListing
<1>20. Above'
  <2>1. ASSUME ~created, NEW q \in Pages', NEW i \in answers'[q].rows \cap table
        PROVE  RankIn(table, i) < q * s
    <3>1. CASE q = p
      BY <1>5, <1>12, <3>1
    <3>2. CASE q \in Pages
      BY <1>5, <2>1, <3>2 DEF IInv, Above, s
    <3>3. QED
      BY <1>5, <3>1, <3>2
  <2>2. QED
    BY <1>1, <1>7, <1>11, <2>1 DEF Above
<1>21. RepeatedOnlyAfterCreate'
  <2>1. ASSUME ~created, NEW q \in Pages
        PROVE  answers[q].rows \cap Answer.rows = {}
    <3>1. ASSUME NEW i \in answers[q].rows, i \in Answer.rows PROVE FALSE
      <4>1. i \in table
        BY <1>6, <3>1
      <4>2. (p - 1) * s <= RankIn(table, i)
        BY <1>12, <3>1, <4>1
      <4>3. RankIn(table, i) < q * s
        BY <2>1, <3>1, <4>1 DEF IInv, Above, s
      <4>4. q * s <= (p - 1) * s /\ q * s \in Nat
        BY <1>10
      <4>5. QED
        BY <1>10, <1>11, <4>2, <4>3, <4>4
    <3>2. QED
      BY <3>1
  <2>2. ASSUME ~created, NEW q \in Pages', NEW r \in Pages', q # r
        PROVE  answers'[q].rows \cap answers'[r].rows = {}
    <3>1. CASE q \in Pages /\ r \in Pages
      BY <1>5, <2>2, <3>1 DEF IInv, RepeatedOnlyAfterCreate
    <3>2. CASE q = p /\ r \in Pages
      BY <1>5, <2>1, <2>2, <3>2
    <3>3. CASE q \in Pages /\ r = p
      BY <1>5, <2>1, <2>2, <3>3
    <3>4. QED
      BY <1>5, <2>2, <3>1, <3>2, <3>3
  <2>3. QED
    BY <1>1, <2>2 DEF RepeatedOnlyAfterCreate
<1>22. Still'
  <2>1. ASSUME Quiet, NEW q \in Pages' PROVE answers'[q].rows = RowsIn(table, q, s)
    <3>1. CASE q = p
      BY <1>5, <1>6, <3>1
    <3>2. CASE q \in Pages
      BY <1>5, <2>1, <3>2 DEF IInv, Still, s
    <3>3. QED
      BY <1>5, <3>1, <3>2
  <2>2. ASSUME Quiet, FromTheFirst, table # {}, NEW q \in Pages'
        PROVE  answers'[q].rows # {}
    <3>1. CASE q = p
      <4>1. (p - 1) * s < Cardinality(table) /\ Cardinality(table) \in Nat
        BY <1>3, <1>4, <2>2, Finite DEF IInv, Still, p, s
      <4>2. PICK lo \in Nat : lo = (p - 1) * s
        BY <1>10
      <4>3. Answer.rows = {i \in table : RankIn(table, i) \in lo..(lo + s - 1)}
        BY <1>6, <4>2 DEF RowsIn
      <4>4. Cardinality(Answer.rows) =
              IF lo >= Cardinality(table) THEN 0
              ELSE IF lo + s <= Cardinality(table) THEN s
              ELSE Cardinality(table) - lo
        BY ZenonT(60), <1>3, <4>3, RowsAreCounted
      <4>5. QED
        <5>1. Cardinality(Answer.rows) # 0
          BY <1>3, <4>1, <4>2, <4>4
        <5>2. QED
          BY <1>5, <3>1, <5>1, FS_EmptySet
    <3>2. CASE q \in Pages
      BY <1>5, <2>2, <3>2 DEF IInv, Still
    <3>3. QED
      BY <1>5, <3>1, <3>2
  <2>3. ASSUME Quiet, table # {}, Walking'
        PROVE  (query'.page - 1) * query'.size < Cardinality(table)
    <3>1. query.total = Cardinality(table) /\ p < LastPage(query)
      BY <1>2, <1>4, <1>14, <2>3 DEF IInv, Course, Quiet, p, onward
    <3>2. query.total # 0
      BY <1>3, <2>3, <3>1, Finite, FS_EmptySet
    <3>3. /\ p * s <= (LastPage(query) - 1) * s
          /\ (LastPage(query) - 1) * s < query.total
          /\ (LastPage(query) - 1) * s \in Nat
      BY <1>3, <1>13, <3>1, <3>2, PagesAreLaid
    <3>4. (query'.page - 1) * query'.size = p * s
      <4>1. query'.page = p + 1 /\ query'.size = s
        BY <1>4, <1>7, <2>3
      <4>2. query'.page - 1 = p
        BY <1>3, <4>1
      <4>3. QED
        BY <4>1, <4>2
    <3>5. QED
      BY <1>3, <1>10, <3>1, <3>3, <3>4
  <2>4. ASSUME NEW q PROVE RowsIn(table, q, query.size)' = RowsIn(table, q, s)
    BY <1>1, <1>7 DEF RowsIn, RankIn
  <2>5. QED
    BY <1>1, <1>9, <2>1, <2>2, <2>3, <2>4 DEF Still, Quiet
<1>23. MetaDescribesPage'
  <2>1. ASSUME NEW q \in Pages' PROVE Described(q, answers'[q], s)
    <3>1. CASE q = p
      <4>1. Described(p, Answer, s)
        BY <1>1, AnswerDescribesItself DEF IInv, p, s
      <4>2. QED
        BY <1>5, <3>1, <4>1
    <3>2. CASE q \in Pages
      <4>1. Described(q, answers[q], s)
        BY <3>2 DEF IInv, MetaDescribesPage, Described, s
      <4>2. QED
        BY <1>5, <3>2, <4>1
    <3>3. QED
      BY <1>5, <3>1, <3>2
  <2>2. QED
    BY <1>7, <2>1 DEF MetaDescribesPage, Described
<1>24. QED
  BY <1>15, <1>16, <1>18, <1>19, <1>20, <1>21, <1>22, <1>23 DEF IInv

LEMMA StepKeeps == IInv /\ [Next]_vars => IInv'
<1> SUFFICES ASSUME IInv, [Next]_vars PROVE IInv'
  OBVIOUS
<1>1. ASSUME UNCHANGED vars PROVE IInv'
  <2>1. /\ table' = table /\ deleted' = deleted /\ pc' = pc /\ query' = query
        /\ answers' = answers /\ start' = start /\ created' = created
        /\ removed' = removed /\ torn' = torn
    BY <1>1 DEF vars
  <2>2. TypeOK'
    BY <2>1 DEF IInv, TypeOK
  <2>3. Course' /\ Covered' /\ Above'
    BY <2>1 DEF IInv, Course, Covered, Above, Quiet, FromTheFirst, Walking, Pages,
       Listed, RankIn
  <2>4. Still'
    BY <2>1 DEF IInv, Still, Quiet, FromTheFirst, Walking, Pages, RowsIn, RankIn
  <2>5. RepeatedOnlyAfterCreate' /\ MissedOnlyAfterRace' /\ MetaDescribesPage'
    BY <2>1 DEF IInv, RepeatedOnlyAfterCreate, MissedOnlyAfterRace,
       MetaDescribesPage,
       WholeListing, Pages, Listed
  <2>6. QED
    BY <2>2, <2>3, <2>4, <2>5 DEF IInv
<1>2. QED
  BY <1>1, AskKeeps, CountKeeps, ReadKeeps, CreateKeeps, DeleteKeeps DEF Next

LEMMA Invariant == Spec => []IInv
<1>1. QED
  BY InitHolds, StepKeeps, PTL DEF Spec

-----------------------------------------------------------------------------

(* Every variable has its type: in particular paginate of Post never names *)
(* a last page before the first.                                           *)
THEOREM ListingTypeOK == Spec => []TypeOK
<1>1. IInv => TypeOK
  BY DEF IInv
<1>2. QED
  BY <1>1, Invariant, PTL

(* If no post is created or deleted meanwhile, a client that follows       *)
(* last_page from the first page of GET /posts gets every post exactly     *)
(* once, newest first, and no empty page.                                  *)
THEOREM QuietListingsAreExact == Spec => []QuietListingIsExact
<1>1. ASSUME IInv, WholeListing, ~created, ~removed
      PROVE  /\ Listed = start
             /\ \A p, q \in Pages : p < q =>
                  \A i \in answers[p].rows, j \in answers[q].rows : i > j
             /\ start # {} => \A p \in Pages : answers[p].rows # {}
  <2>1. /\ table \in SUBSET Posts /\ query.size \in Nat \ {0} /\ table = start
        /\ ~torn /\ \A p \in Pages : p \in Nat \ {0}
    BY <1>1, Typed DEF IInv, Course, Quiet
  <2>2. \A p \in Pages : answers[p].rows = RowsIn(table, p, query.size)
    BY <1>1 DEF IInv, Still, Quiet
  <2>3. Listed = start
    <3>1. start \subseteq Listed
      BY <1>1, <2>1 DEF IInv, MissedOnlyAfterRace
    <3>2. ASSUME NEW i \in Listed PROVE i \in start
      <4>1. PICK p \in Pages : i \in answers[p].rows
        BY DEF Listed
      <4>2. QED
        BY <2>1, <2>2, <4>1 DEF RowsIn
    <3>3. QED
      BY <3>1, <3>2
  <2>4. ASSUME NEW p \in Pages, NEW q \in Pages, p < q,
               NEW i \in answers[p].rows, NEW j \in answers[q].rows
        PROVE  i > j
    <3>1. PICK s \in Nat \ {0} : s = query.size
      BY <2>1
    <3>2. /\ i \in table /\ RankIn(table, i) \in ((p - 1) * s)..((p - 1) * s + s - 1)
          /\ j \in table /\ RankIn(table, j) \in ((q - 1) * s)..((q - 1) * s + s - 1)
      BY <2>2, <3>1 DEF RowsIn
    <3>3. /\ (p - 1) * s \in Nat /\ (p - 1) * s + s = p * s /\ p * s <= (q - 1) * s
          /\ (q - 1) * s \in Nat
      BY <2>1, <2>4, PagesAreLaid
    <3>4. RankIn(table, i) < RankIn(table, j)
      BY <3>2, <3>3
    <3>5. /\ i \in Nat /\ j \in Nat /\ RankIn(table, i) \in Nat
          /\ RankIn(table, j) \in Nat
          /\ i < j => RankIn(table, j) < RankIn(table, i)
      <4>1. table \subseteq Nat
        BY <2>1, Finite
      <4>2. QED
        BY <2>1, <3>2, <4>1, RankIs
    <3>6. QED
      BY <3>4, <3>5
  <2>5. ASSUME start # {}, NEW p \in Pages PROVE answers[p].rows # {}
    BY <1>1, <2>1, <2>5 DEF IInv, Still, Quiet, FromTheFirst, WholeListing
  <2>6. QED
    BY <2>3, <2>4, <2>5
<1>2. IInv => QuietListingIsExact
  BY <1>1 DEF QuietListingIsExact
<1>3. QED
  BY <1>2, Invariant, PTL

(* However many posts are deleted between the requests of a client, no     *)
(* post is on two of the pages that paginate answers: only a new post      *)
(* pushes others to a page that is still to come.                          *)
THEOREM DeletionsRepeatNothing == Spec => []RepeatedOnlyAfterCreate
<1>1. IInv => RepeatedOnlyAfterCreate
  BY DEF IInv
<1>2. QED
  BY <1>1, Invariant, PTL

(* Without deletions, a post that was there from the first page to the     *)
(* last is on one of them, unless a post was created between the two       *)
(* statements, count and select, of the last request.                      *)
THEOREM CreationsHideNothing == Spec => []MissedOnlyAfterRace
<1>1. IInv => MissedOnlyAfterRace
  BY DEF IInv
<1>2. QED
  BY <1>1, Invariant, PTL

(* The meta data of paginate, last_page, from and to, fit the rows of the  *)
(* same answer at every boundary, an empty table, a full last page and a   *)
(* page past the end, if nothing came between its two statements.          *)
THEOREM MetaFitsRows == Spec => []MetaDescribesPage
<1>1. IInv => MetaDescribesPage
  BY DEF IInv
<1>2. QED
  BY <1>1, Invariant, PTL

=============================================================================
