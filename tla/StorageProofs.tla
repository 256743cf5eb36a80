--------------------------- MODULE StorageProofs ----------------------------
(* Theorems about Storage, for every number of callers and every path.     *)
EXTENDS Storage, FiniteSetTheorems, SequenceTheorems, WellFoundedInduction, TLAPS

-----------------------------------------------------------------------------
(* Paths.                                                                  *)

LEMMA UpTo ==
  ASSUME NEW N \in Nat, NEW P, 0 \in P, \A n \in 1..N : n - 1 \in P => n \in P
  PROVE  0..N \subseteq P
<1> DEFINE Missing == 0..N \ P
           Less == {ss \in Nat \X Nat : ss[1] < ss[2]}
<1>1. SUFFICES ASSUME Missing # {} PROVE FALSE
  OBVIOUS
<1>2. IsWellFoundedOn(Less, Nat)
  BY NatLessThanWellFounded, Zenon DEF OpToRel
<1>3. Missing \subseteq Nat
  OBVIOUS
<1>4. PICK m \in Missing : \A d \in Missing : ~(<<d, m>> \in Less)
  <2> HIDE DEF Missing, Less
  <2>1. QED
    BY <1>1, <1>2, <1>3, WFMin
<1>5. m \in 1..N /\ m - 1 \in 0..N /\ m \in Nat /\ m - 1 \in Nat /\ m - 1 < m
  OBVIOUS
<1>6. <<m - 1, m>> \in Less
  BY <1>5
<1>7. QED
  BY <1>4, <1>5, <1>6

LEMMA WalkedIs ==
  ASSUME NEW from, NEW s \in Seq(STRING)
  PROVE  \E w : /\ w[0] = from
                /\ \A n \in 1..Len(s) : w[n] = Walk(w[n - 1], s[n])
                /\ Walked(from, s) = w[Len(s)]
<1> DEFINE G(f, m) ==
             [n \in 0..m |-> IF n = 0 THEN from ELSE Walk(f[n - 1], s[n])]
           P == {m \in 0..Len(s) : \E f : f = G(f, m)}
<1>0. Len(s) \in Nat
  OBVIOUS
<1>1. 0 \in P
  <2>1. [n \in 0..0 |-> from] = G([n \in 0..0 |-> from], 0)
    OBVIOUS
  <2> HIDE DEF G
  <2>2. \E f : f = G(f, 0)
    BY <2>1, Zenon
  <2>3. QED
    BY <1>0, <2>2
<1>2. ASSUME NEW m \in 1..Len(s), m - 1 \in P PROVE m \in P
  <2>1. PICK g : g = G(g, m - 1)
    BY <1>2
  <2> DEFINE f == [n \in 0..m |-> IF n = m THEN Walk(g[m - 1], s[m]) ELSE g[n]]
  <2>2. ASSUME NEW n \in 0..m
        PROVE  f[n] = IF n = 0 THEN from ELSE Walk(f[n - 1], s[n])
    <3>1. CASE n = m
      BY <2>1, <3>1
    <3>2. CASE n # m /\ n # 0
      <4>1. n \in 0..(m - 1) /\ n - 1 \in 0..(m - 1) /\ n - 1 # m /\ n - 1 \in 0..m
        BY <3>2
      <4>2. f[n] = g[n] /\ f[n - 1] = g[n - 1]
        BY <3>2, <4>1
      <4>3. g[n] = Walk(g[n - 1], s[n])
        BY <2>1, <3>2, <4>1
      <4>4. QED
        BY <3>2, <4>2, <4>3
    <3>3. CASE n = 0
      <4>1. 0 \in 0..(m - 1) /\ n # m
        BY <3>3
      <4>2. f[n] = g[0] /\ g[0] = from
        BY <2>1, <3>3, <4>1
      <4>3. QED
        BY <3>3, <4>2
    <3>4. QED
      BY <3>1, <3>2, <3>3
  <2>3. f = G(f, m)
    <3>1. f = [n \in 0..m |-> f[n]]
      OBVIOUS
    <3> HIDE DEF f
    <3>2. QED
      BY <2>2, <3>1
  <2> HIDE DEF G, f
  <2>4. \E h : h = G(h, m)
    BY <2>3, Zenon
  <2>5. QED
    BY <1>0, <2>4
<1>3. Len(s) \in P
  <2> HIDE DEF P
  <2>1. 0..Len(s) \subseteq P
    BY <1>0, <1>1, <1>2, UpTo
  <2>2. QED
    BY <1>0, <2>1
<1> DEFINE w == CHOOSE f : f = G(f, Len(s))
<1>4. w = G(w, Len(s))
  BY <1>3, Zenon
<1>5. Walked(from, s) = w[Len(s)]
  BY Zenon DEF Walked
<1> HIDE DEF w
<1>6. w[0] = from
  BY <1>0, <1>4
<1>7. ASSUME NEW n \in 1..Len(s) PROVE w[n] = Walk(w[n - 1], s[n])
  BY <1>0, <1>4
<1>8. QED
  BY <1>5, <1>6, <1>7

(* Dots stand only at the beginning, in pairs.                             *)
Dots(t) ==
  \A i \in 1..Len(t) : /\ t[i] \notin {"", "."}
                       /\ t[i] = ".." => \A j \in 1..i : t[j] = ".."

LEMMA WalkKeepsDots ==
  ASSUME NEW A, NEW t \in Seq(A), Dots(t), NEW x \in A
  PROVE  Walk(t, x) \in Seq(A) /\ Dots(Walk(t, x))
<1>1. CASE x \in {"", "."}
  BY <1>1 DEF Walk
<1>2. CASE x \notin {"", "."} /\ x = ".." /\ t # <<>> /\ Last(t) # ".."
  <2>1. Walk(t, x) = SubSeq(t, 1, Len(t) - 1)
    BY <1>2 DEF Walk, Front
  <2>2. Len(t) \in Nat /\ Len(t) > 0
    BY <1>2
  <2> DEFINE u == SubSeq(t, 1, Len(t) - 1)
  <2>3. u \in Seq(A) /\ Len(u) = Len(t) - 1 /\ \A i \in 1..Len(u) : u[i] = t[i]
    BY <2>2
  <2> HIDE DEF u
  <2>4. Dots(u)
    <3>1. ASSUME NEW i \in 1..Len(u)
          PROVE  /\ i \in 1..Len(t) /\ u[i] = t[i]
                 /\ \A j \in 1..i : u[j] = t[j]
      BY <2>2, <2>3
    <3>2. QED
      BY <3>1, Zenon DEF Dots
  <2>5. QED
    BY <2>1, <2>3, <2>4 DEF u
<1>3. CASE x \notin {"", "."} /\ ~(x = ".." /\ t # <<>> /\ Last(t) # "..")
  <2> DEFINE u == Append(t, x)
  <2>1. Walk(t, x) = u
    BY <1>3 DEF Walk
  <2>2. /\ u \in Seq(A) /\ Len(u) = Len(t) + 1 /\ u[Len(t) + 1] = x
        /\ Len(t) \in Nat /\ \A i \in 1..Len(t) : u[i] = t[i]
    OBVIOUS
  <2> HIDE DEF u
  <2>3. ASSUME NEW i \in 1..Len(u)
        PROVE  /\ u[i] \notin {"", "."}
               /\ u[i] = ".." => \A j \in 1..i : u[j] = ".."
    <3>1. CASE i \in 1..Len(t)
      <4>1. u[i] = t[i] /\ \A j \in 1..i : u[j] = t[j]
        BY <2>2, <3>1
      <4>2. QED
        BY <3>1, <4>1, Zenon DEF Dots
    <3>2. CASE i = Len(t) + 1
      <4>1. u[i] = x
        BY <2>2, <3>2
      <4>2. ASSUME x = "..", NEW j \in 1..i PROVE u[j] = ".."
        <5>1. CASE j = Len(t) + 1
          BY <2>2, <4>2, <5>1
        <5>2. CASE j \in 1..Len(t)
          <6>1. t # <<>>
            BY <5>2
          <6>2. t[Len(t)] = ".." /\ Len(t) \in 1..Len(t)
            BY <1>3, <4>2, <6>1, <2>2, <5>2 DEF Last
          <6>3. t[j] = ".."
            BY <5>2, <6>2 DEF Dots
          <6>4. QED
            BY <2>2, <5>2, <6>3
        <5>3. QED
          BY <2>2, <3>2, <5>1, <5>2
      <4>3. QED
        BY <1>3, <4>1, <4>2
    <3>3. i \in 1..Len(t) \/ i = Len(t) + 1
      BY <2>2
    <3>4. QED
      BY <3>1, <3>2, <3>3, Zenon
  <2>4. QED
    BY <2>1, <2>2, <2>3 DEF Dots
<1>4. QED
  BY <1>1, <1>2, <1>3

LEMMA NormalIs ==
  ASSUME NEW p \in Paths
  PROVE  Normal[p] \in Seq(ToSet(p)) /\ Dots(Normal[p])
<1>1. p \in Seq(STRING) /\ Len(p) \in Nat
  BY StorageAssumption
<1>2. \A n \in 1..Len(p) : p[n] \in ToSet(p)
  BY <1>1 DEF ToSet
<1>3. PICK w : /\ w[0] = <<>>
               /\ \A n \in 1..Len(p) : w[n] = Walk(w[n - 1], p[n])
               /\ Walked(<<>>, p) = w[Len(p)]
  BY <1>1, WalkedIs
<1> DEFINE P == {n \in 0..Len(p) : w[n] \in Seq(ToSet(p)) /\ Dots(w[n])}
<1>4. 0 \in P
  <2>1. <<>> \in Seq(ToSet(p)) /\ Dots(<<>>)
    BY DEF Dots
  <2>2. w[0] \in Seq(ToSet(p)) /\ Dots(w[0])
    BY <1>3, <2>1, Zenon
  <2>3. QED
    BY <1>1, <2>2
<1>5. ASSUME NEW n \in 1..Len(p), n - 1 \in P PROVE n \in P
  <2>1. w[n - 1] \in Seq(ToSet(p)) /\ Dots(w[n - 1])
    BY <1>5
  <2>2. Walk(w[n - 1], p[n]) \in Seq(ToSet(p)) /\ Dots(Walk(w[n - 1], p[n]))
    BY <1>2, <2>1, WalkKeepsDots
  <2>3. w[n] = Walk(w[n - 1], p[n])
    BY <1>3
  <2>4. n \in 0..Len(p)
    BY <1>1
  <2>5. QED
    BY <2>2, <2>3, <2>4
<1>6. Len(p) \in P
  <2> HIDE DEF P
  <2>1. 0..Len(p) \subseteq P
    BY <1>1, <1>4, <1>5, UpTo
  <2>2. QED
    BY <1>1, <2>1
<1>7. QED
  BY <1>3, <1>6 DEF Normal

(* An admissible path is a place below the root.                           *)
LEMMA LocationIs ==
  ASSUME NEW p \in Paths, Admissible(p)
  PROVE  /\ Location[p] \in Seq(STRING)
         /\ Len(Location[p]) > Len(Root)
         /\ IsPrefix(Root, Location[p])
<1> DEFINE N == Normal[p]
<1>1. p \in Seq(STRING) /\ Root \in Seq(STRING) /\ Len(Root) \in Nat
  BY StorageAssumption
<1>2. N \in Seq(ToSet(p)) /\ Dots(N)
  BY NormalIs
<1>3. ToSet(p) \subseteq STRING
  BY <1>1 DEF ToSet
<1>4. N \in Seq(STRING) /\ N # <<>> /\ Len(N) \in Nat /\ Len(N) > 0
      /\ N[1] # ".."
  <2>1. N # <<>> /\ Head(N) # ".."
    BY DEF Admissible
  <2> HIDE DEF N
  <2>2. N \in Seq(STRING) /\ Len(N) \in Nat /\ Len(N) > 0
    BY <1>2, <1>3, <2>1
  <2>3. N[1] = Head(N)
    BY <2>2
  <2>4. QED
    BY <2>1, <2>2, <2>3
<1> HIDE DEF N
<1>5. \A n \in 1..Len(N) : N[n] \notin {"", ".", ".."}
  <2>1. ASSUME NEW n \in 1..Len(N) PROVE N[n] \notin {"", ".", ".."}
    <3>1. 1 \in 1..n
      BY <1>4
    <3>2. QED
      BY <1>2, <1>4, <3>1 DEF Dots
  <2>2. QED
    BY <2>1
<1>6. PICK w : /\ w[0] = Root
               /\ \A n \in 1..Len(N) : w[n] = Walk(w[n - 1], N[n])
               /\ Walked(Root, N) = w[Len(N)]
  BY <1>4, WalkedIs
<1> DEFINE Fits(t, n) ==
             /\ t \in Seq(STRING) /\ Len(t) = Len(Root) + n
             /\ \A i \in 1..Len(Root) : t[i] = Root[i]
             /\ \A i \in 1..n : t[Len(Root) + i] = N[i]
           P == {n \in 0..Len(N) : Fits(w[n], n)}
<1>7. 0 \in P
  BY <1>1, <1>4, <1>6
<1>8. ASSUME NEW n \in 1..Len(N), n - 1 \in P PROVE n \in P
  <2>1. Fits(w[n - 1], n - 1) /\ n - 1 \in Nat /\ n \in 0..Len(N)
    BY <1>4, <1>8
  <2>2. w[n] = Append(w[n - 1], N[n])
    BY <1>5, <1>6 DEF Walk
  <2>3. N[n] \in STRING
    BY <1>4
  <2> DEFINE t == w[n - 1]
             u == Append(t, N[n])
  <2> HIDE DEF t
  <2>4. t \in Seq(STRING) /\ Len(t) = Len(Root) + (n - 1)
    BY <2>1 DEF t
  <2>5. /\ u \in Seq(STRING) /\ Len(u) = Len(t) + 1 /\ u[Len(t) + 1] = N[n]
        /\ \A i \in 1..Len(t) : u[i] = t[i]
    BY <2>3, <2>4
  <2> HIDE DEF u
  <2>6. Len(u) = Len(Root) + n /\ u[Len(Root) + n] = N[n]
    BY <1>1, <2>4, <2>5
  <2>7. \A i \in 1..Len(Root) : u[i] = Root[i]
    BY <1>1, <2>1, <2>4, <2>5 DEF t
  <2>8. ASSUME NEW i \in 1..n PROVE u[Len(Root) + i] = N[i]
    <3>1. CASE i = n
      BY <2>6, <3>1
    <3>2. CASE i \in 1..(n - 1)
      <4>1. Len(Root) + i \in 1..Len(t)
        BY <1>1, <2>4, <3>2
      <4>2. t[Len(Root) + i] = N[i]
        BY <2>1, <3>2 DEF t
      <4>3. QED
        BY <2>5, <4>1, <4>2
    <3>3. QED
      BY <2>1, <3>1, <3>2
  <2>9. Fits(u, n)
    BY <2>5, <2>6, <2>7, <2>8
  <2>10. QED
    BY <2>1, <2>2, <2>9 DEF t, u
<1>9. Fits(Location[p], Len(N))
  <2>1. Location[p] = w[Len(N)]
    BY <1>6 DEF Location, N
  <2> HIDE DEF P
  <2>2. 0..Len(N) \subseteq P
    BY <1>4, <1>7, <1>8, UpTo
  <2>3. Len(N) \in P
    BY <1>4, <2>2
  <2>4. QED
    BY <2>1, <2>3 DEF P
<1> DEFINE l == Location[p]
<1>10. Fits(l, Len(N))
  BY <1>9
<1> HIDE DEF l
<1>11. Len(l) > Len(Root) /\ Len(l) \in Nat
  BY <1>1, <1>4, <1>10
<1>12. IsPrefix(Root, l)
  <2>1. /\ SubSeq(l, 1, Len(Root)) \in Seq(STRING)
        /\ Len(SubSeq(l, 1, Len(Root))) = Len(Root)
        /\ \A i \in 1..Len(Root) : SubSeq(l, 1, Len(Root))[i] = Root[i]
    BY <1>1, <1>10, <1>11
  <2>2. /\ SubSeq(Root, 1, Len(Root)) \in Seq(STRING)
        /\ Len(SubSeq(Root, 1, Len(Root))) = Len(Root)
        /\ \A i \in 1..Len(Root) : SubSeq(Root, 1, Len(Root))[i] = Root[i]
    BY <1>1
  <2>3. SubSeq(l, 1, Len(Root)) = SubSeq(Root, 1, Len(Root))
    BY <2>1, <2>2, SeqEqual
  <2>4. QED
    BY <1>1, <1>11, <2>3 DEF IsPrefix
<1>13. QED
  BY <1>10, <1>11, <1>12 DEF l

-----------------------------------------------------------------------------
(* The inductive invariant.                                                *)

PutLocations == {Location[p] : p \in {q \in Paths : Admissible(q)}}

Locations == PutLocations \cup {UploadLocation(c) : c \in Callers}

Puts == {"upload", "put"}

USE DEF Results

Chunks == Callers \cup {"zeros"}

Calls ==
  [op : Puts \cup {"none", "get", "delete"}, at : Locations \cup {<<>>},
   size : Nat, file : Callers \cup {"none"}, done : Nat, seen : Nat,
   got : Seq(Chunks)]

Types ==
  /\ dirs \subseteq UNION {Above(l) : l \in Locations}
  /\ DOMAIN files \subseteq Locations
  /\ \A l \in DOMAIN files : files[l] \in Callers
  /\ data \in [Callers -> Seq(Chunks)]
  /\ pc \in [Callers -> {"idle", "directory", "open", "write", "read", "done"}]
  /\ call \in [Callers -> Calls]
  /\ result \in [Callers -> Results]
  /\ torn \subseteq Callers

(* What a caller has done so far.                                          *)
Caller(c) ==
  /\ pc[c] = "idle" => call[c].op = "none"
  /\ pc[c] \in {"directory", "open", "write"} => call[c].op \in Puts
  /\ pc[c] = "read" => call[c].op = "get"
  /\ pc[c] # "done" => result[c] = "none"
  /\ pc[c] \in {"write", "read"} => call[c].file # "none"
  /\ pc[c] \in {"directory", "open"} => call[c].file = "none" /\ call[c].done = 0
  /\ call[c].op = "none" => call[c].file = "none"
  /\ call[c].op = "upload" => call[c].at = UploadLocation(c)
  /\ call[c].op \in {"put", "delete"} => call[c].at \in PutLocations
  /\ call[c].done <= call[c].size
  /\ call[c].op \in Puts /\ result[c] = "ok" =>
       call[c].file # "none" /\ call[c].done = call[c].size
  /\ pc[c] \in {"open", "write"} => Above(call[c].at) \subseteq dirs

(* A file is named after the caller that created it, and whoever has it    *)
(* open found it at the location where it was created.                     *)
Made(f, l) ==
  /\ f \in Callers /\ call[f].op \in Puts
  /\ call[f].file = f /\ call[f].at = l

Names ==
  /\ DOMAIN files \cap dirs = {}
  /\ \A l \in DOMAIN files : Made(files[l], l) /\ Above(l) \subseteq dirs
  /\ \A c \in Callers : call[c].file # "none" => Made(call[c].file, call[c].at)

(* The file of an upload stays where it is and has no other writer.        *)
Uploaded(u) ==
  call[u].op = "upload" /\ call[u].file = u =>
    /\ call[u].at \in DOMAIN files /\ files[call[u].at] = u
    /\ data[u] = [k \in 1..call[u].done |-> u]

(* Nobody asks for it before it is published.                              *)
Reading(c, u) ==
  call[c].op = "get" /\ call[c].at = UploadLocation(u) =>
    /\ u \in Published
    /\ call[c].file = u /\ result[c] # "error"
    /\ call[c].seen = call[u].size
    /\ Len(call[c].got) <= call[u].size
    /\ \A k \in 1..Len(call[c].got) : call[c].got[k] = u
    /\ result[c] = "ok" => Len(call[c].got) = call[u].size

(* A file that is not torn has at most one writer, and only its chunks.    *)
Untorn(f) ==
  f \notin torn => \A c \in Writers(f) : /\ Writers(f) = {c}
                                         /\ data[f] = [k \in 1..call[c].done |-> c]

IInv ==
  /\ Types
  /\ \A c \in Callers : Caller(c)
  /\ Names
  /\ \A u \in Callers : Uploaded(u)
  /\ \A c, u \in Callers : Reading(c, u)
  /\ \A f \in Callers : Untorn(f)
  /\ UntornFilesAreWhole

LEMMA Joined ==
  ASSUME NEW S, NEW a \in Seq(S), NEW b \in Seq(S)
  PROVE  /\ a \o b \in Seq(S)
         /\ Len(a \o b) = Len(a) + Len(b)
         /\ \A k \in 1..Len(a) : (a \o b)[k] = a[k]
         /\ \A k \in 1..Len(b) : (a \o b)[Len(a) + k] = b[k]
OBVIOUS

Segments == STRING \cup Callers \cup {"avatars"}

(* Places of uploads and of puts are different, and all are below the root. *)
LEMMA UploadPlaces ==
  ASSUME NEW c \in Callers
  PROVE  /\ UploadLocation(c) \in Seq(Segments)
         /\ Len(UploadLocation(c)) = Len(Root) + 2
         /\ UploadLocation(c)[Len(Root) + 2] = c
         /\ IsPrefix(Root, UploadLocation(c))
<1> DEFINE t == <<"avatars", c>>
           l == Root \o t
<1>1. Root \in Seq(STRING) /\ Root \in Seq(Segments) /\ Len(Root) \in Nat
  BY StorageAssumption DEF Segments
<1>2. t \in Seq(Segments) /\ Len(t) = 2 /\ t[1] = "avatars" /\ t[2] = c
  <2>1. "avatars" \in Segments /\ c \in Segments
    BY DEF Segments
  <2>2. QED
    BY <2>1
<1> HIDE DEF t
<1>3. /\ l \in Seq(Segments) /\ Len(l) = Len(Root) + 2
      /\ \A i \in 1..Len(Root) : l[i] = Root[i]
      /\ \A i \in 1..2 : l[Len(Root) + i] = t[i]
  <2>1. Root \in Seq(Segments) /\ t \in Seq(Segments)
    BY <1>1, <1>2
  <2>2. /\ l \in Seq(Segments) /\ Len(l) = Len(Root) + Len(t)
        /\ \A i \in 1..Len(Root) : l[i] = Root[i]
        /\ \A i \in 1..Len(t) : l[Len(Root) + i] = t[i]
    BY <2>1, Joined
  <2>3. QED
    BY <1>2, <2>2
<1>4. l = UploadLocation(c)
  BY DEF UploadLocation, t
<1> HIDE DEF l
<1>5. IsPrefix(Root, l)
  <2>1. /\ SubSeq(l, 1, Len(Root)) \in Seq(Segments)
        /\ Len(SubSeq(l, 1, Len(Root))) = Len(Root)
        /\ \A i \in 1..Len(Root) : SubSeq(l, 1, Len(Root))[i] = Root[i]
    BY <1>1, <1>3
  <2>2. /\ SubSeq(Root, 1, Len(Root)) \in Seq(Segments)
        /\ Len(SubSeq(Root, 1, Len(Root))) = Len(Root)
        /\ \A i \in 1..Len(Root) : SubSeq(Root, 1, Len(Root))[i] = Root[i]
    BY <1>1
  <2>3. SubSeq(l, 1, Len(Root)) = SubSeq(Root, 1, Len(Root))
    BY <2>1, <2>2, SeqEqual
  <2>4. QED
    BY <1>1, <1>3, <2>3 DEF IsPrefix
<1>6. l[Len(Root) + 2] = c
  BY <1>2, <1>3
<1>7. QED
  BY <1>3, <1>4, <1>5, <1>6

LEMMA PlacesDiffer ==
  /\ \A c, d \in Callers : UploadLocation(c) = UploadLocation(d) => c = d
  /\ \A c \in Callers : UploadLocation(c) \notin PutLocations
<1>1. ASSUME NEW c \in Callers, NEW d \in Callers,
             UploadLocation(c) = UploadLocation(d)
      PROVE  c = d
  BY <1>1, UploadPlaces, Zenon
<1>2. QED
  BY <1>1, NamesAreRandom DEF PutLocations

LEMMA PlacesBelowRoot ==
  ASSUME NEW l \in Locations
  PROVE  IsPrefix(Root, l) /\ \A d \in Above(l) : IsPrefix(Root, d)
<1>1. l \in Seq(Segments) /\ IsPrefix(Root, l) /\ Len(l) > Len(Root)
  <2>1. CASE l \in PutLocations
    <3>1. PICK p \in Paths : Admissible(p) /\ l = Location[p]
      BY <2>1 DEF PutLocations
    <3>2. l \in Seq(STRING) /\ IsPrefix(Root, l) /\ Len(l) > Len(Root)
      BY <3>1, LocationIs
    <3>3. QED
      BY <3>2 DEF Segments
  <2>2. ASSUME NEW c \in Callers, l = UploadLocation(c)
        PROVE  l \in Seq(Segments) /\ IsPrefix(Root, l) /\ Len(l) > Len(Root)
    <3>1. l \in Seq(Segments) /\ Len(l) = Len(Root) + 2 /\ IsPrefix(Root, l)
      BY <2>2, UploadPlaces
    <3>2. Len(Root) \in Nat
      BY StorageAssumption
    <3>3. QED
      BY <3>1, <3>2
  <2>3. QED
    BY <2>1, <2>2 DEF Locations
<1>2. Len(Root) \in Nat /\ Len(l) \in Nat /\ Root \in Seq(Segments)
  BY <1>1, StorageAssumption DEF Segments
<1>3. ASSUME NEW n \in Len(Root)..(Len(l) - 1) PROVE IsPrefix(Root, SubSeq(l, 1, n))
  <2> DEFINE d == SubSeq(l, 1, n)
             a == SubSeq(l, 1, Len(Root))
             e == SubSeq(d, 1, Len(Root))
  <2>1. d \in Seq(Segments) /\ Len(d) = n /\ \A i \in 1..n : d[i] = l[i]
    BY <1>1, <1>2
  <2>2. a \in Seq(Segments) /\ Len(a) = Len(Root)
        /\ \A i \in 1..Len(Root) : a[i] = l[i]
    BY <1>1, <1>2
  <2>3. n \in Nat /\ n >= Len(Root)
    BY <1>2
  <2> HIDE DEF d
  <2>4. e \in Seq(Segments) /\ Len(e) = Len(Root)
        /\ \A i \in 1..Len(Root) : e[i] = d[i]
    BY <1>2, <2>1, <2>3
  <2> HIDE DEF a, e
  <2>5. e = a
    <3>1. \A i \in 1..Len(Root) : e[i] = a[i]
      BY <1>2, <2>1, <2>2, <2>3, <2>4
    <3>2. QED
      BY <2>2, <2>4, <3>1, SeqEqual
  <2>6. a = SubSeq(Root, 1, Len(Root))
    BY <1>1 DEF IsPrefix, a
  <2>7. QED
    BY <2>1, <2>3, <2>5, <2>6 DEF IsPrefix, e, d
<1>4. QED
  BY <1>1, <1>3 DEF Above

LEMMA OnlyWriter ==
  ASSUME IInv, NEW u \in Callers, call[u].op = "upload",
         NEW c \in Callers, call[c].file = u, call[c].op \in Puts
  PROVE  c = u
<1>1. call[u].at = UploadLocation(u) /\ call[c].at = call[u].at
  <2>1. u # "none"
    BY StorageAssumption
  <2>2. Made(u, call[c].at)
    BY <2>1 DEF IInv, Names
  <2>3. QED
    BY <2>2 DEF IInv, Caller, Made
<1>2. call[c].op = "upload"
  BY <1>1, PlacesDiffer DEF IInv, Caller, Puts
<1>3. QED
  BY <1>1, <1>2, PlacesDiffer DEF IInv, Caller

LEMMA PublishedIs ==
  ASSUME IInv, NEW u \in Published
  PROVE  /\ u \in Callers /\ pc[u] = "done" /\ call[u].op = "upload"
         /\ call[u].at = UploadLocation(u) /\ call[u].at \in DOMAIN files
         /\ call[u].file = u /\ call[u].done = call[u].size
         /\ files[call[u].at] = u /\ data[u] = Whole(u)
         /\ data[u] \in Seq(Chunks) /\ call[u].size \in Nat
         /\ Len(data[u]) = call[u].size
         /\ \A k \in 1..call[u].size : data[u][k] = u
<1>1. u \in Callers /\ call[u].op = "upload" /\ result[u] = "ok"
  BY DEF Published
<1>2. /\ call[u].file # "none" /\ call[u].done = call[u].size
      /\ call[u].at = UploadLocation(u) /\ pc[u] = "done"
  BY <1>1 DEF IInv, Caller, Puts
<1>3. Made(call[u].file, call[u].at)
  BY <1>1, <1>2 DEF IInv, Names
<1>4. call[u].file = u
  <2>1. /\ call[u].file \in Callers /\ call[call[u].file].op \in Puts
        /\ call[call[u].file].at = UploadLocation(u)
    BY <1>2, <1>3 DEF Made
  <2>2. call[call[u].file].op = "upload"
    BY <1>1, <2>1, PlacesDiffer DEF IInv, Caller, Puts
  <2>3. QED
    BY <1>1, <2>1, <2>2, PlacesDiffer DEF IInv, Caller
<1>5. /\ call[u].at \in DOMAIN files /\ files[call[u].at] = u
      /\ data[u] = [k \in 1..call[u].done |-> u]
  BY <1>1, <1>4 DEF IInv, Uploaded
<1>6. data[u] = Whole(u)
  BY <1>2, <1>5 DEF Whole
<1>7. data[u] \in Seq(Chunks) /\ call[u].size \in Nat
  BY <1>1 DEF IInv, Types, Calls
<1>8. Len(data[u]) = call[u].size /\ \A k \in 1..call[u].size : data[u][k] = u
  BY <1>6, <1>7 DEF Whole
<1>9. QED
  BY <1>1, <1>2, <1>4, <1>5, <1>6, <1>7, <1>8

-----------------------------------------------------------------------------
(* Steps of one caller, seen from the others.                              *)

Others(c) ==
  \A q \in Callers \ {c} :
    pc'[q] = pc[q] /\ call'[q] = call[q] /\ result'[q] = result[q]

(* What a call is stays what it is once it has been made.                  *)
Goes(c) ==
  /\ call[c].op # "none" =>
       /\ call'[c].op = call[c].op /\ call'[c].at = call[c].at
       /\ call'[c].size = call[c].size /\ call'[c].seen = call[c].seen
  /\ call[c].file # "none" => call'[c].file = call[c].file
  /\ pc[c] = "done" => pc'[c] = "done" /\ result'[c] = result[c]
                         /\ call'[c] = call[c]

LEMMA MadeStays ==
  ASSUME \A c \in Callers : Goes(c), NEW f, NEW l, Made(f, l)
  PROVE  Made(f, l)'
<1>1. f \in Callers /\ call[f].op \in Puts /\ call[f].file = f /\ call[f].at = l
  BY DEF Made
<1>2. f # "none" /\ "none" \notin Puts
  BY <1>1, StorageAssumption DEF Puts
<1>3. call[f].op # "none" /\ call[f].file # "none"
  BY <1>1, <1>2
<1>4. Goes(f)
  BY <1>1
<1>5. call'[f].op = call[f].op /\ call'[f].at = call[f].at
      /\ call'[f].file = call[f].file
  BY <1>3, <1>4, Zenon DEF Goes
<1>6. QED
  BY <1>1, <1>5 DEF Made

(* The callers that a step leaves alone.                                   *)
LEMMA OthersKeep ==
  ASSUME IInv, NEW c \in Callers, Others(c), Goes(c), dirs \subseteq dirs',
         NEW q \in Callers \ {c}
  PROVE  /\ Caller(q)'
         /\ call'[q].file # "none" => Made(call[q].file, call[q].at)'
         /\ \A u \in Callers : Reading(q, u)'
<1>1. pc'[q] = pc[q] /\ call'[q] = call[q] /\ result'[q] = result[q] /\ q \in Callers
  BY DEF Others
<1>2. Caller(q)'
  <2>1. Caller(q)
    BY <1>1 DEF IInv
  <2>2. Above(call[q].at) \subseteq dirs => Above(call'[q].at) \subseteq dirs'
    BY <1>1 DEF Above
  <2>3. UploadLocation(q)' = UploadLocation(q) /\ PutLocations' = PutLocations
    BY DEF UploadLocation, PutLocations, Location, Admissible, Normal
  <2>4. QED
    BY <1>1, <2>1, <2>2, <2>3 DEF Caller
<1>3. \A p \in Callers : Goes(p)
  <2>1. ASSUME NEW p \in Callers \ {c} PROVE Goes(p)
    BY DEF Others, Goes
  <2>2. QED
    BY <2>1
<1>4. ASSUME call'[q].file # "none" PROVE Made(call[q].file, call[q].at)'
  <2>1. Made(call[q].file, call[q].at)
    BY <1>1, <1>4 DEF IInv, Names
  <2> DEFINE f == call[q].file
             l == call[q].at
  <2>2. call'[q].file = f /\ call'[q].at = l
    BY <1>1
  <2>3. f \in Callers /\ call[f].op \in Puts /\ call[f].file = f /\ call[f].at = l
    BY <2>1 DEF Made
  <2> HIDE DEF f, l
  <2>4. Made(f, l)
    BY <2>3 DEF Made
  <2>5. Goes(f)
    BY <1>3, <2>3
  <2>6. f # "none" /\ call[f].op # "none"
    BY <2>3, StorageAssumption DEF Puts
  <2>7. call'[f].op \in Puts /\ call'[f].file = f /\ call'[f].at = l
    BY <2>3, <2>5, <2>6 DEF Goes
  <2>8. QED
    BY <2>2, <2>3, <2>7 DEF Made
<1>5. ASSUME NEW u \in Callers PROVE Reading(q, u)'
  <2>1. Reading(q, u)
    BY <1>1 DEF IInv
  <2>2. UploadLocation(u)' = UploadLocation(u)
    BY DEF UploadLocation
  <2>3. ASSUME u \in Published
        PROVE  call'[u].size = call[u].size /\ call'[u].op = call[u].op
               /\ result'[u] = result[u] /\ u \in Published'
    <3>1. pc[u] = "done" /\ u \in Callers
      BY <2>3, PublishedIs
    <3>2. Goes(u)
      BY <1>3
    <3>3. call'[u] = call[u] /\ result'[u] = result[u]
      BY <3>1, <3>2 DEF Goes
    <3>4. QED
      BY <2>3, <3>1, <3>3 DEF Published
  <2>4. QED
    BY <1>1, <2>1, <2>2, <2>3 DEF Reading
<1>6. QED
  BY <1>2, <1>4, <1>5

LEMMA AllGo ==
  ASSUME NEW c \in Callers, Others(c), Goes(c)
  PROVE  \A q \in Callers : Goes(q)
<1>1. ASSUME NEW q \in Callers \ {c} PROVE Goes(q)
  BY DEF Others, Goes
<1>2. QED
  BY <1>1

(* The witness of an untorn file is a caller that is done.                 *)
WholeFile(f) ==
  f \notin torn /\ Writers(f) = {} =>
    \E q \in Callers : /\ call[q].op \in {"upload", "put"}
                       /\ call[q].file = f /\ result[q] = "ok"
                       /\ data[f] = Whole(q)

LEMMA WholeStays ==
  ASSUME IInv, NEW f, WholeFile(f), \A q \in Callers : Goes(q),
         data'[f] = data[f], f \notin torn' => f \notin torn,
         f \notin torn' /\ Writers(f)' = {} => Writers(f) = {}
  PROVE  WholeFile(f)'
<1>1. SUFFICES ASSUME f \notin torn', Writers(f)' = {}
               PROVE  \E q \in Callers : /\ call'[q].op \in {"upload", "put"}
                                         /\ call'[q].file = f /\ result'[q] = "ok"
                                         /\ data'[f] = Whole(q)'
  BY Zenon DEF WholeFile
<1>2. PICK q \in Callers : /\ call[q].op \in {"upload", "put"}
                           /\ call[q].file = f /\ result[q] = "ok"
                           /\ data[f] = Whole(q)
  BY <1>1 DEF WholeFile
<1>3. pc[q] = "done"
  BY <1>2 DEF IInv, Caller
<1>4. call'[q] = call[q] /\ result'[q] = result[q]
  BY <1>3 DEF Goes
<1>5. Whole(q)' = Whole(q)
  BY <1>4 DEF Whole
<1>6. QED
  BY <1>2, <1>4, <1>5

LEMMA Starting ==
  ASSUME IInv, NEW c \in Callers, pc[c] = "idle", Others(c), Types',
         dirs' = dirs, data' = data, torn' = torn,
         DOMAIN files' \subseteq DOMAIN files,
         \A l \in DOMAIN files' : files'[l] = files[l],
         \A u \in Callers : UploadLocation(u) \in DOMAIN files =>
                              UploadLocation(u) \in DOMAIN files',
         pc'[c] \in {"directory", "read", "done"}, Caller(c)',
         call'[c].file # "none" => Made(call[c].file, call[c].at)',
         call'[c].op \in Puts => call'[c].file = "none",
         \A u \in Callers : Reading(c, u)'
  PROVE  IInv'
<1>1. call[c].op = "none" /\ call[c].file = "none" /\ result[c] = "none"
  BY DEF IInv, Caller
<1>2. Goes(c) /\ \A q \in Callers : Goes(q)
  <2>1. Goes(c)
    BY <1>1 DEF Goes
  <2>2. QED
    BY <2>1, AllGo
<1>3. ASSUME NEW q \in Callers
      PROVE  /\ Caller(q)'
             /\ call'[q].file # "none" => Made(call[q].file, call[q].at)'
             /\ \A u \in Callers : Reading(q, u)'
  <2>1. CASE q = c
    BY <2>1
  <2>2. CASE q # c
    <3>1. q \in Callers \ {c} /\ dirs \subseteq dirs'
      BY <2>2
    <3>2. QED
      BY <1>2, <3>1, OthersKeep
  <2>3. QED
    BY <2>1, <2>2
<1>4. Names'
  <2>1. ASSUME NEW l \in DOMAIN files'
        PROVE  Made(files[l], l)' /\ Above(l)' \subseteq dirs'
    <3>1. l \in DOMAIN files /\ files'[l] = files[l]
      OBVIOUS
    <3>2. Made(files[l], l) /\ Above(l) \subseteq dirs
      BY <3>1 DEF IInv, Names
    <3> DEFINE f == files[l]
    <3>3. files'[l] = f
      BY <3>1
    <3> HIDE DEF f
    <3>4. Made(f, l)
      BY <3>2 DEF f
    <3>5. Goes(f) /\ f # "none" /\ f \in Callers /\ call[f].op # "none"
          /\ call[f].op \in Puts /\ call[f].file = f /\ call[f].at = l
      BY <1>2, <3>4, StorageAssumption DEF Made, Puts
    <3>6. call'[f].op \in Puts /\ call'[f].file = f /\ call'[f].at = l
      BY <3>5 DEF Goes
    <3>7. Made(files[l], l)'
      BY <3>3, <3>5, <3>6 DEF Made
    <3>8. QED
      BY <3>2, <3>7 DEF Above
  <2>2. DOMAIN files' \cap dirs' = {}
    BY DEF IInv, Names
  <2>3. QED
    BY <1>3, <2>1, <2>2 DEF Names
<1>5. ASSUME NEW u \in Callers PROVE Uploaded(u)'
  <2>1. CASE u = c
    <3>1. u # "none"
      BY StorageAssumption
    <3>2. QED
      BY <2>1, <3>1 DEF Uploaded, Puts
  <2>2. CASE u # c
    <3>1. call'[u] = call[u]
      BY <2>2 DEF Others
    <3>2. ASSUME call[u].op = "upload", call[u].file = u
          PROVE  call[u].at \in DOMAIN files'
      BY ZenonT(60), <3>2 DEF IInv, Uploaded, Caller
    <3>3. QED
      BY <3>1, <3>2 DEF IInv, Uploaded
  <2>3. QED
    BY <2>1, <2>2
<1>6. ASSUME NEW f \in Callers PROVE Writers(f)' = Writers(f)
  BY DEF Writers, Others
<1>7. ASSUME NEW f \in Callers PROVE Untorn(f)'
  <2>1. ASSUME NEW q \in Writers(f) PROVE call'[q] = call[q]
    BY DEF Writers, Others
  <2>2. QED
    BY <1>6, <2>1 DEF IInv, Untorn
<1>8. UntornFilesAreWhole'
  <2>1. ASSUME NEW l \in DOMAIN files' PROVE WholeFile(files[l])'
    <3>1. PICK f \in Callers : f = files[l]
      BY DEF IInv, Types
    <3>2. l \in DOMAIN files /\ files'[l] = f
      BY <3>1
    <3>3. WholeFile(f)
      <4>1. WholeFile(files[l])
        BY <3>2, Zenon DEF IInv, UntornFilesAreWhole, WholeFile
      <4>2. QED
        BY <3>1, <4>1
    <3>4. Writers(f)' = Writers(f)
      BY <1>6
    <3>5. WholeFile(f)'
      BY <1>2, <3>3, <3>4, WholeStays
    <3>6. QED
      BY <3>2, <3>5 DEF WholeFile, Writers
  <2>2. QED
    BY <2>1, Zenon DEF UntornFilesAreWhole, WholeFile
<1>9. QED
  BY <1>3, <1>4, <1>5, <1>7, <1>8 DEF IInv

LEMMA Continuing ==
  ASSUME IInv, NEW c \in Callers, pc[c] \notin {"idle", "done"}, Others(c), Types',
         files' = files, data' = data,
         dirs \subseteq dirs', DOMAIN files \cap dirs' = {},
         call'[c].op = call[c].op, call'[c].at = call[c].at,
         call'[c].size = call[c].size, call'[c].seen = call[c].seen,
         call'[c].file = call[c].file, call'[c].done = call[c].done,
         pc'[c] \notin {"idle", "write"}, Caller(c)',
         torn \subseteq torn',
         pc[c] = "write" =>
           \/ call[c].file \in torn'
           \/ result'[c] = "ok" /\ call[c].done = call[c].size,
         \A u \in Callers : Reading(c, u)'
  PROVE  IInv'
<1>1. Goes(c) /\ \A q \in Callers : Goes(q)
  <2>1. Goes(c)
    BY DEF Goes
  <2>2. QED
    BY <2>1, AllGo
<1>2. ASSUME NEW q \in Callers
      PROVE  /\ Caller(q)'
             /\ call'[q].file # "none" => Made(call[q].file, call[q].at)'
             /\ \A u \in Callers : Reading(q, u)'
  <2>1. CASE q = c
    <3>1. ASSUME call[c].file # "none" PROVE Made(call[c].file, call[c].at)'
      <4>1. PICK f \in Callers, l \in {call[c].at} : f = call[c].file
        BY <3>1 DEF IInv, Names, Made
      <4>2. Made(f, l)
        BY <3>1, <4>1 DEF IInv, Names
      <4>3. Made(f, l)'
        BY <1>1, <4>2, MadeStays
      <4>4. QED
        BY <4>1, <4>3 DEF Made
    <3>2. QED
      BY <2>1, <3>1
  <2>2. CASE q # c
    <3>1. q \in Callers \ {c}
      BY <2>2
    <3>2. QED
      BY <1>1, <3>1, OthersKeep
  <2>3. QED
    BY <2>1, <2>2
<1>3. Names'
  <2>1. ASSUME NEW l \in DOMAIN files
        PROVE  Made(files[l], l)' /\ Above(l)' \subseteq dirs'
    <3>1. PICK f \in Callers : f = files[l]
      BY DEF IInv, Types
    <3>2. Made(f, l) /\ Above(l) \subseteq dirs
      BY <3>1 DEF IInv, Names
    <3>3. Made(f, l)'
      BY <1>1, <3>2, MadeStays
    <3>4. QED
      BY <3>1, <3>2, <3>3 DEF Made, Above
  <2>2. QED
    BY <1>2, <2>1 DEF Names
<1>4. ASSUME NEW u \in Callers PROVE Uploaded(u)'
  <2>1. /\ call'[u].op = call[u].op /\ call'[u].file = call[u].file
        /\ call'[u].at = call[u].at /\ call'[u].done = call[u].done
    BY DEF Others
  <2>2. Uploaded(u)
    BY DEF IInv
  <2>3. [k \in 1..call'[u].done |-> u] = [k \in 1..call[u].done |-> u]
    BY <2>1
  <2>4. QED
    BY <2>1, <2>2, <2>3 DEF Uploaded
<1>5. ASSUME NEW f \in Callers
      PROVE  /\ Writers(f)' \subseteq Writers(f)
             /\ \A q \in Writers(f)' : q # c /\ call'[q] = call[q]
             /\ \A q \in Writers(f) : q # c => q \in Writers(f)'
  BY DEF Writers, Others
<1>6. ASSUME NEW f \in Callers PROVE Untorn(f)'
  <2>1. Untorn(f)
    BY DEF IInv
  <2>2. ASSUME f \notin torn', NEW q \in Writers(f)'
        PROVE  Writers(f)' = {q} /\ data'[f] = [k \in 1..call'[q].done |-> q]
    <3>1. q \in Writers(f) /\ f \notin torn /\ call'[q] = call[q]
      BY <1>5, <2>2
    <3>2. Writers(f) = {q} /\ data[f] = [k \in 1..call[q].done |-> q]
      BY <2>1, <3>1 DEF Untorn
    <3>3. QED
      BY <1>5, <2>2, <3>1, <3>2
  <2>3. QED
    BY <2>2 DEF Untorn
<1>7. UntornFilesAreWhole'
  <2>1. ASSUME NEW l \in DOMAIN files' PROVE WholeFile(files[l])'
    <3>1. PICK f \in Callers : f = files[l]
      BY DEF IInv, Types
    <3>2. files'[l] = f
      BY <3>1
    <3>3. WholeFile(f)
      <4>1. WholeFile(files[l])
        BY Zenon DEF IInv, UntornFilesAreWhole, WholeFile
      <4>2. QED
        BY <3>1, <4>1
    <3>4. CASE Writers(f) = {}
      <4>1. WholeFile(f)'
        BY <1>1, <3>3, <3>4, WholeStays
      <4>2. QED
        BY <3>2, <4>1 DEF WholeFile, Writers
    <3>5. CASE f \notin torn' /\ Writers(f) # {} /\ Writers(f)' = {}
      <4>1. c \in Writers(f) /\ f \notin torn
        BY <1>5, <3>5
      <4>2. pc[c] = "write" /\ call[c].file = f
        BY <4>1 DEF Writers
      <4>3. data[f] = [k \in 1..call[c].done |-> c]
        BY <4>1 DEF IInv, Untorn
      <4>4. result'[c] = "ok" /\ call[c].done = call[c].size /\ call[c].op \in Puts
        BY <3>5, <4>2 DEF IInv, Caller
      <4>5. data'[f] = Whole(c)'
        BY <4>3, <4>4 DEF Whole
      <4>6. WholeFile(f)'
        BY <4>2, <4>4, <4>5 DEF WholeFile, Puts
      <4>7. QED
        BY <3>2, <4>6 DEF WholeFile, Writers
    <3>6. CASE ~(f \notin torn' /\ Writers(f)' = {})
      BY <3>2, <3>6 DEF WholeFile, Writers
    <3>7. QED
      BY <3>4, <3>5, <3>6
  <2>2. QED
    BY <2>1, Zenon DEF UntornFilesAreWhole, WholeFile
<1>8. QED
  BY <1>2, <1>3, <1>4, <1>6, <1>7 DEF IInv

LEMMA WriteAtIs ==
  /\ \A s \in Seq(Chunks), k \in Nat \ {0}, c \in Callers :
       WriteAt(s, k, c) \in Seq(Chunks)
  /\ \A n \in Nat, c \in Callers :
       WriteAt([k \in 1..n |-> c], n + 1, c) = [k \in 1..(n + 1) |-> c]
<1>1. ASSUME NEW s \in Seq(Chunks), NEW k \in Nat \ {0}, NEW c \in Callers
      PROVE  WriteAt(s, k, c) \in Seq(Chunks)
  <2> DEFINE n == IF k > Len(s) THEN k ELSE Len(s)
             F(j) == IF j = k THEN c ELSE IF j <= Len(s) THEN s[j] ELSE "zeros"
  <2>1. n \in Nat
    OBVIOUS
  <2>2. ASSUME NEW j \in 1..n PROVE F(j) \in Chunks
    BY <2>1 DEF Chunks
  <2>3. WriteAt(s, k, c) = [j \in 1..n |-> F(j)]
    BY DEF WriteAt
  <2> HIDE DEF n, F
  <2>4. [j \in 1..n |-> F(j)] \in Seq(Chunks)
    BY <2>1, <2>2
  <2>5. QED
    BY <2>3, <2>4
<1>2. ASSUME NEW n \in Nat, NEW c \in Callers
      PROVE  WriteAt([k \in 1..n |-> c], n + 1, c) = [k \in 1..(n + 1) |-> c]
  <2> DEFINE s == [k \in 1..n |-> c]
  <2>1. Len(s) = n /\ \A k \in 1..n : s[k] = c
    OBVIOUS
  <2> HIDE DEF s
  <2>2. WriteAt(s, n + 1, c)
          = [j \in 1..(n + 1) |-> IF j = n + 1 THEN c
                                  ELSE IF j <= Len(s) THEN s[j] ELSE "zeros"]
    BY <2>1 DEF WriteAt
  <2>3. \A j \in 1..(n + 1) : j # n + 1 => j \in 1..n /\ j <= Len(s)
    BY <2>1
  <2>4. WriteAt(s, n + 1, c) = [j \in 1..(n + 1) |-> c]
    BY <2>1, <2>2, <2>3
  <2>5. QED
    BY <2>4 DEF s
<1>3. QED
  BY <1>1, <1>2

(* A file is at one place, that of the caller it is named after.           *)
LEMMA NamesStay ==
  ASSUME IInv, \A q \in Callers : Goes(q), dirs \subseteq dirs',
         NEW l \in DOMAIN files, files'[l] = files[l]
  PROVE  Made(files[l], l)' /\ Above(l)' \subseteq dirs'
<1>1. PICK f \in Callers : f = files[l]
  BY DEF IInv, Types
<1>2. Made(f, l) /\ Above(l) \subseteq dirs
  BY <1>1 DEF IInv, Names
<1>3. Made(f, l)'
  BY <1>2, MadeStays
<1>4. files'[l] = f
  BY <1>1
<1>5. Made(files[l], l)'
  BY <1>3, <1>4 DEF Made
<1>6. Above(l)' \subseteq dirs'
  BY <1>2 DEF Above
<1>7. QED
  BY <1>5, <1>6

LEMMA WriteKeeps ==
  ASSUME IInv, NEW c \in Callers, Write(c)
  PROVE  IInv'
<1> DEFINE n == call[c].done
<1>0. /\ c \in Callers /\ pc[c] = "write" /\ n + 1 <= call[c].size
      /\ n \in Nat /\ call[c].size \in Nat
      /\ call \in [Callers -> Calls] /\ call[c] \in Calls
      /\ data \in [Callers -> Seq(Chunks)]
      /\ dirs' = dirs /\ files' = files /\ pc' = pc /\ result' = result
      /\ torn' = torn
  BY DEF Write, IInv, Types, Calls
<1>1. PICK f \in Callers : f = call[c].file
  BY <1>0 DEF IInv, Caller, Calls
<1>2. /\ data' = [data EXCEPT ![f] = WriteAt(data[f], n + 1, c)]
      /\ call' = [call EXCEPT ![c].done = n + 1]
  BY <1>1 DEF Write
<1> HIDE DEF n
<1>3. /\ call'[c].op = call[c].op /\ call'[c].at = call[c].at
      /\ call'[c].size = call[c].size /\ call'[c].seen = call[c].seen
      /\ call'[c].file = f /\ call'[c].got = call[c].got /\ call'[c].done = n + 1
      /\ call[c].done = n /\ call'[c] \in Calls
      /\ \A q \in Callers \ {c} : call'[q] = call[q]
  <2>1. call[c].done = n
    BY DEF n
  <2>2. call'[c] = [call[c] EXCEPT !.done = n + 1]
    BY <1>0, <1>2
  <2>3. n + 1 \in Nat
    BY <1>0
  <2>4. call'[c] \in Calls /\ call'[c].done = n + 1
    BY <1>0, <2>2, <2>3 DEF Calls
  <2>5. /\ call'[c].op = call[c].op /\ call'[c].at = call[c].at
        /\ call'[c].size = call[c].size /\ call'[c].seen = call[c].seen
        /\ call'[c].file = call[c].file /\ call'[c].got = call[c].got
    BY <1>0, <2>2 DEF Calls
  <2>6. \A q \in Callers \ {c} : call'[q] = call[q]
    BY <1>0, <1>2
  <2>7. QED
    BY <1>1, <2>1, <2>4, <2>5, <2>6
<1>4. /\ data'[f] = WriteAt(data[f], n + 1, c)
      /\ \A g \in Callers \ {f} : data'[g] = data[g]
      /\ data' \in [Callers -> Seq(Chunks)]
  <2>1. WriteAt(data[f], n + 1, c) \in Seq(Chunks)
    <3>1. data[f] \in Seq(Chunks) /\ n + 1 \in Nat \ {0}
      BY <1>0
    <3>2. QED
      BY <3>1, WriteAtIs
  <2>2. QED
    BY <1>0, <1>2, <2>1
<1>5. Others(c) /\ Goes(c) /\ \A q \in Callers : Goes(q)
  <2>1. Others(c) /\ Goes(c)
    BY <1>0, <1>1, <1>3 DEF Others, Goes
  <2>2. QED
    BY <2>1, AllGo
<1>6. Types'
  <2>1. call' \in [Callers -> Calls]
    BY <1>0, <1>2, <1>3
  <2>2. QED
    BY <1>0, <1>4, <2>1 DEF IInv, Types, Above, Locations, PutLocations
<1>7. call[c].op \in Puts /\ Caller(c) /\ "get" \notin Puts /\ f # "none"
  BY <1>0, <1>1, StorageAssumption DEF IInv, Caller, Puts
<1>8. ASSUME NEW q \in Callers
      PROVE  /\ Caller(q)'
             /\ call'[q].file # "none" => Made(call[q].file, call[q].at)'
             /\ \A u \in Callers : Reading(q, u)'
  <2>1. CASE q = c
    <3>1. Caller(c)'
      BY <1>0, <1>1, <1>3, <1>7 DEF Caller, Above, UploadLocation, PutLocations
    <3>2. Made(call[c].file, call[c].at)'
      <4>1. PICK l \in {call[c].at} : Made(f, l)
        BY <1>1, <1>7 DEF IInv, Names
      <4>2. Made(f, l)'
        BY <1>5, <4>1, MadeStays
      <4>3. QED
        BY <1>3, <4>1, <4>2 DEF Made
    <3>3. \A u \in Callers : Reading(c, u)'
      BY <1>3, <1>7 DEF Reading
    <3>4. QED
      BY <2>1, <3>1, <3>2, <3>3
  <2>2. CASE q # c
    <3>1. q \in Callers \ {c} /\ dirs \subseteq dirs'
      BY <1>0, <2>2
    <3>2. QED
      BY <1>5, <3>1, OthersKeep
  <2>3. QED
    BY <2>1, <2>2
<1>9. Names'
  <2>1. ASSUME NEW l \in DOMAIN files'
        PROVE  Made(files[l], l)' /\ Above(l)' \subseteq dirs'
    <3>1. l \in DOMAIN files /\ files'[l] = files[l] /\ dirs \subseteq dirs'
      BY <1>0
    <3>2. QED
      BY <1>5, <3>1, NamesStay
  <2>2. QED
    BY <1>0, <1>8, <2>1 DEF IInv, Names
<1>10. ASSUME NEW u \in Callers PROVE Uploaded(u)'
  <2>1. SUFFICES ASSUME call'[u].op = "upload", call'[u].file = u
                 PROVE  /\ call'[u].at \in DOMAIN files' /\ files'[call'[u].at] = u
                        /\ data'[u] = [k \in 1..call'[u].done |-> u]
    BY DEF Uploaded
  <2>2. /\ call[u].op = "upload" /\ call[u].file = u /\ call'[u].at = call[u].at
        /\ u # c => call'[u].done = call[u].done
    BY <1>1, <1>3, <2>1
  <2>3. /\ call[u].at \in DOMAIN files /\ files[call[u].at] = u
        /\ data[u] = [k \in 1..call[u].done |-> u]
    BY <2>2 DEF IInv, Uploaded
  <2>4. CASE u = f
    <3>1. c = u
      BY <1>1, <1>7, <2>2, <2>4, OnlyWriter
    <3>2. data[f] = [k \in 1..n |-> c]
      BY <1>3, <2>3, <2>4, <3>1
    <3>3. data'[f] = [k \in 1..(n + 1) |-> c]
      BY ZenonT(60), <1>0, <1>4, <3>2, WriteAtIs
    <3>4. QED
      BY <1>0, <1>3, <2>2, <2>3, <2>4, <3>1, <3>3
  <2>5. CASE u # f
    <3>1. u # c
      BY <1>1, <2>2, <2>5
    <3>2. QED
      BY <1>0, <1>4, <2>2, <2>3, <2>5, <3>1
  <2>6. QED
    BY <2>4, <2>5
<1>11. ASSUME NEW g \in Callers
       PROVE  /\ Writers(g)' = Writers(g)
              /\ c \in Writers(g) <=> g = f
              /\ \A q \in Writers(g) : q # c => call'[q] = call[q]
  <2>1. \A q \in Callers : call'[q].file = call[q].file
    BY <1>1, <1>3
  <2>2. QED
    BY <1>0, <1>1, <1>3, <2>1 DEF Writers
<1>12. ASSUME NEW g \in Callers PROVE Untorn(g)'
  <2>1. SUFFICES ASSUME g \notin torn, NEW q \in Writers(g)
                 PROVE  /\ Writers(g)' = {q}
                        /\ data'[g] = [k \in 1..call'[q].done |-> q]
    BY ZenonT(60), <1>0, <1>11 DEF Untorn
  <2>2. Writers(g) = {q} /\ data[g] = [k \in 1..call[q].done |-> q]
    BY <2>1 DEF IInv, Untorn
  <2>3. CASE g = f
    <3>1. q = c
      BY <1>11, <2>2, <2>3
    <3>2. data[f] = [k \in 1..n |-> c]
      BY <1>3, <2>2, <2>3, <3>1
    <3>3. data'[f] = [k \in 1..(n + 1) |-> c]
      BY ZenonT(60), <1>0, <1>4, <3>2, WriteAtIs
    <3>4. QED
      BY <1>3, <1>11, <2>2, <2>3, <3>1, <3>3
  <2>4. CASE g # f
    <3>1. q # c /\ call'[q] = call[q] /\ data'[g] = data[g]
      BY <1>4, <1>11, <2>2, <2>4
    <3>2. QED
      BY <1>11, <2>2, <3>1
  <2>5. QED
    BY <2>3, <2>4
<1>13. UntornFilesAreWhole'
  <2>1. ASSUME NEW l \in DOMAIN files' PROVE WholeFile(files[l])'
    <3>1. PICK g \in Callers : g = files[l]
      BY <1>0 DEF IInv, Types
    <3>2. files'[l] = g /\ l \in DOMAIN files
      BY <1>0, <3>1
    <3>3. WholeFile(g)
      <4>1. WholeFile(files[l])
        BY <3>2, Zenon DEF IInv, UntornFilesAreWhole, WholeFile
      <4>2. QED
        BY <3>1, <4>1
    <3>4. CASE g = f
      <4>1. Writers(g)' # {}
        BY <1>11, <3>4
      <4>2. QED
        BY <3>2, <4>1 DEF WholeFile, Writers
    <3>5. CASE g # f
      <4>1. data'[g] = data[g] /\ Writers(g)' = Writers(g)
        BY <1>4, <1>11, <3>5
      <4>2. WholeFile(g)'
        BY <1>0, <1>5, <3>3, <4>1, WholeStays
      <4>3. QED
        BY <3>2, <4>2 DEF WholeFile, Writers
    <3>6. QED
      BY <3>4, <3>5
  <2>2. QED
    BY <2>1, Zenon DEF UntornFilesAreWhole, WholeFile
<1>14. QED
  BY <1>6, <1>8, <1>9, <1>10, <1>12, <1>13 DEF IInv

LEMMA OpenKeeps ==
  ASSUME IInv, NEW c \in Callers, Open(c), call[c].at \notin dirs
  PROVE  IInv'
<1>0. /\ c \in Callers /\ pc[c] = "open" /\ call[c].op \in Puts /\ Caller(c)
      /\ call[c].file = "none" /\ call[c].done = 0 /\ result[c] = "none"
      /\ call \in [Callers -> Calls] /\ call[c] \in Calls
      /\ pc \in [Callers -> {"idle", "directory", "open", "write", "read", "done"}]
      /\ data \in [Callers -> Seq(Chunks)]
      /\ "none" \notin Callers /\ "get" \notin Puts /\ "none" \notin Puts
  BY StorageAssumption DEF Open, Goto, Answer, IInv, Types, Caller, Puts
<1>1. PICK l \in {call[c].at} : l = call[c].at
  OBVIOUS
<1>2. PICK f \in Callers : f = FileAt(c)
  BY <1>0 DEF FileAt, IInv, Types
<1>3. /\ pc' = [pc EXCEPT ![c] = "write"]
      /\ files' = [k \in DOMAIN files \cup {l} |-> IF k = l THEN f ELSE files[k]]
      /\ data' = [data EXCEPT ![f] = <<>>]
      /\ torn' = IF Writers(f) = {} THEN torn \ {f} ELSE torn \cup {f}
      /\ call' = [call EXCEPT ![c].file = f]
      /\ result' = result /\ dirs' = dirs /\ l \notin dirs
  BY <1>0, <1>1, <1>2 DEF Open, Goto, Answer
<1>4. /\ call'[c].op = call[c].op /\ call'[c].at = l /\ call[c].at = l
      /\ call'[c].size = call[c].size /\ call'[c].seen = call[c].seen
      /\ call'[c].file = f /\ call'[c].got = call[c].got
      /\ call'[c].done = 0 /\ call'[c] \in Calls
      /\ \A q \in Callers \ {c} : call'[q] = call[q]
  <2>1. call'[c] = [call[c] EXCEPT !.file = f]
    BY <1>0, <1>3
  <2>2. call'[c] \in Calls /\ call'[c].file = f
    BY <1>0, <2>1 DEF Calls
  <2>3. /\ call'[c].op = call[c].op /\ call'[c].at = call[c].at
        /\ call'[c].size = call[c].size /\ call'[c].seen = call[c].seen
        /\ call'[c].done = call[c].done /\ call'[c].got = call[c].got
    BY <1>0, <2>1 DEF Calls
  <2>4. \A q \in Callers \ {c} : call'[q] = call[q]
    BY <1>0, <1>3
  <2>5. QED
    BY <1>0, <1>1, <2>2, <2>3, <2>4
<1>5. /\ pc'[c] = "write" /\ data'[f] = <<>>
      /\ \A g \in Callers \ {f} : data'[g] = data[g]
      /\ DOMAIN files' = DOMAIN files \cup {l} /\ files'[l] = f
      /\ \A k \in DOMAIN files \ {l} : files'[k] = files[k]
  BY <1>0, <1>3
<1>6. Others(c) /\ Goes(c) /\ \A q \in Callers : Goes(q)
  <2>1. Others(c) /\ Goes(c)
    BY <1>0, <1>3, <1>4 DEF Others, Goes
  <2>2. QED
    BY <2>1, AllGo
<1>7. l \in Locations
  BY <1>0, <1>1 DEF Caller, Puts, Locations
<1>8. Types'
  <2>1. call' \in [Callers -> Calls]
    BY <1>0, <1>3, <1>4
  <2>2. data' \in [Callers -> Seq(Chunks)] /\ torn' \subseteq Callers
    BY <1>0, <1>3 DEF IInv, Types
  <2>3. pc' \in [Callers -> {"idle", "directory", "open", "write", "read", "done"}]
    BY <1>0, <1>3
  <2>4. /\ DOMAIN files' \subseteq Locations
        /\ \A k \in DOMAIN files' : files'[k] \in Callers
    BY <1>5, <1>7 DEF IInv, Types
  <2>5. QED
    BY <1>3, <2>1, <2>2, <2>3, <2>4
    DEF IInv, Types, Above, Locations, PutLocations
(* The file was there, or it is new.                                       *)
<1>9. /\ l \in DOMAIN files => f = files[l] /\ Made(f, l) /\ f # c
      /\ l \notin DOMAIN files => f = c
  <2>1. ASSUME l \in DOMAIN files PROVE f = files[l] /\ Made(f, l) /\ f # c
    <3>1. f = files[l]
      BY <1>1, <1>2, <2>1 DEF FileAt
    <3>2. Made(f, l)
      BY <2>1, <3>1 DEF IInv, Names
    <3>3. QED
      BY <1>0, <3>1, <3>2 DEF Made
  <2>2. l \notin DOMAIN files => f = c
    BY <1>1, <1>2 DEF FileAt
  <2>3. QED
    BY <2>1, <2>2
<1>10. Made(f, l)'
  <2>1. CASE l \in DOMAIN files
    BY <1>6, <1>9, <2>1, MadeStays
  <2>2. CASE l \notin DOMAIN files
    BY <1>0, <1>4, <1>9, <2>2 DEF Made
  <2>3. QED
    BY <2>1, <2>2
(* No other place has the file.                                            *)
<1>11. ASSUME NEW k \in DOMAIN files, k # l PROVE files[k] # f
  <2>1. PICK g \in Callers : g = files[k]
    BY <1>11 DEF IInv, Types
  <2>2. Made(g, k)
    BY <1>11, <2>1 DEF IInv, Names
  <2>3. QED
    BY <1>0, <1>9, <1>11, <2>1, <2>2 DEF Made
<1>12. ASSUME NEW q \in Callers
       PROVE  /\ Caller(q)'
              /\ call'[q].file # "none" => Made(call[q].file, call[q].at)'
              /\ \A u \in Callers : Reading(q, u)'
  <2>1. CASE q = c
    <3>1. Caller(c)'
      <4>1. call[c].size \in Nat /\ f # "none" /\ result'[c] = "none"
        BY <1>0, <1>3 DEF Calls
      <4>2. Above(call[c].at)' \subseteq dirs'
        <5>1. Above(call[c].at) \subseteq dirs
          BY <1>0 DEF Caller
        <5>2. call'[c].at = call[c].at /\ dirs' = dirs
          BY <1>3, <1>4
        <5>3. QED
          BY <5>1, <5>2 DEF Above
      <4>3. UploadLocation(c)' = UploadLocation(c) /\ PutLocations' = PutLocations
        BY DEF UploadLocation, PutLocations
      <4>4. QED
        BY <1>0, <1>4, <1>5, <4>1, <4>2, <4>3 DEF Caller
    <3>2. Made(call[c].file, call[c].at)'
      BY <1>4, <1>10 DEF Made
    <3>3. \A u \in Callers : Reading(c, u)'
      BY <1>0, <1>4 DEF Reading
    <3>4. QED
      BY <2>1, <3>1, <3>2, <3>3
  <2>2. CASE q # c
    <3>1. q \in Callers \ {c} /\ dirs \subseteq dirs'
      BY <1>3, <2>2
    <3>2. QED
      BY <1>6, <3>1, OthersKeep
  <2>3. QED
    BY <2>1, <2>2
<1>13. Names'
  <2>1. ASSUME NEW k \in DOMAIN files'
        PROVE  Made(files[k], k)' /\ Above(k)' \subseteq dirs'
    <3>1. CASE k = l
      <4>1. Made(files[k], k)'
        BY <1>5, <1>10, <3>1 DEF Made
      <4>2. Above(k)' \subseteq dirs'
        BY <1>0, <1>1, <1>3, <3>1 DEF Caller, Above
      <4>3. QED
        BY <4>1, <4>2
    <3>2. CASE k # l
      <4>1. k \in DOMAIN files /\ files'[k] = files[k] /\ dirs \subseteq dirs'
        BY <1>3, <1>5, <3>2
      <4>2. QED
        BY <1>6, <4>1, NamesStay
    <3>3. QED
      BY <3>1, <3>2
  <2>2. DOMAIN files' \cap dirs' = {}
    BY <1>3, <1>5 DEF IInv, Names
  <2>3. QED
    BY <1>12, <2>1, <2>2 DEF Names
<1>14. ASSUME NEW u \in Callers PROVE Uploaded(u)'
  <2>1. SUFFICES ASSUME call'[u].op = "upload", call'[u].file = u
                 PROVE  /\ call'[u].at \in DOMAIN files' /\ files'[call'[u].at] = u
                        /\ data'[u] = [k \in 1..call'[u].done |-> u]
    BY DEF Uploaded
  <2>2. CASE u = c
    <3>1. f = c
      BY <1>4, <2>1, <2>2
    <3>2. <<>> = [k \in 1..0 |-> c]
      OBVIOUS
    <3>3. QED
      BY <1>4, <1>5, <2>2, <3>1, <3>2
  <2>3. CASE u # c
    <3>1. /\ call'[u] = call[u] /\ call[u].op = "upload" /\ call[u].file = u
          /\ call[u].at = UploadLocation(u)
      BY <1>4, <2>1, <2>3 DEF IInv, Caller
    <3>2. /\ call[u].at \in DOMAIN files /\ files[call[u].at] = u
          /\ data[u] = [k \in 1..call[u].done |-> u]
      BY <3>1 DEF IInv, Uploaded
    <3>3. l # UploadLocation(u)
      BY <1>0, <1>1, <2>3, PlacesDiffer DEF Caller, Puts
    <3>4. u # f
      BY <1>11, <3>1, <3>2, <3>3
    <3>5. QED
      BY <1>5, <3>1, <3>2, <3>3, <3>4
  <2>4. QED
    BY <2>2, <2>3
<1>15. ASSUME NEW g \in Callers
       PROVE  /\ g # f => Writers(g)' = Writers(g)
              /\ Writers(f)' = Writers(f) \cup {c}
              /\ \A q \in Writers(g) : q # c
  <2>1. \A q \in Callers \ {c} : pc'[q] = pc[q] /\ call'[q] = call[q]
    BY <1>6 DEF Others
  <2>2. \A q \in Writers(g) : q # c
    BY <1>0 DEF Writers
  <2>3. g # f => Writers(g)' = Writers(g)
    BY ZenonT(60), <1>0, <1>4, <2>1 DEF Writers
  <2>4. Writers(f)' = Writers(f) \cup {c}
    BY <1>0, <1>4, <1>5, <2>1 DEF Writers
  <2>5. QED
    BY <2>2, <2>3, <2>4
<1>16. ASSUME NEW g \in Callers PROVE Untorn(g)'
  <2>1. CASE g = f
    <3>1. SUFFICES ASSUME f \notin torn', NEW q \in Writers(f)'
                   PROVE  /\ Writers(f)' = {q}
                          /\ data'[f] = [k \in 1..call'[q].done |-> q]
      BY <2>1 DEF Untorn
    <3>2. Writers(f) = {}
      BY <1>3, <3>1
    <3>3. q = c /\ Writers(f)' = {c}
      BY <1>15, <3>1, <3>2
    <3>4. <<>> = [k \in 1..0 |-> c]
      OBVIOUS
    <3>5. QED
      BY <1>4, <1>5, <3>3, <3>4
  <2>2. CASE g # f
    <3>1. /\ Writers(g)' = Writers(g) /\ data'[g] = data[g]
          /\ g \in torn' <=> g \in torn
          /\ \A q \in Writers(g) : call'[q] = call[q]
      BY <1>3, <1>4, <1>5, <1>15, <2>2 DEF Writers
    <3>2. QED
      BY <3>1 DEF IInv, Untorn
  <2>3. QED
    BY <2>1, <2>2
<1>17. UntornFilesAreWhole'
  <2>1. ASSUME NEW k \in DOMAIN files' PROVE WholeFile(files[k])'
    <3>1. CASE k = l
      <4>1. Writers(f)' # {}
        BY <1>15
      <4>2. QED
        BY <1>5, <3>1, <4>1 DEF WholeFile, Writers
    <3>2. CASE k # l
      <4>1. PICK g \in Callers : g = files[k]
        BY <1>5, <3>2 DEF IInv, Types
      <4>2. files'[k] = g /\ k \in DOMAIN files /\ g # f
        BY <1>5, <1>11, <3>2, <4>1
      <4>3. WholeFile(g)
        <5>1. WholeFile(files[k])
          BY <4>2, Zenon DEF IInv, UntornFilesAreWhole, WholeFile
        <5>2. QED
          BY <4>1, <5>1
      <4>4. /\ data'[g] = data[g] /\ Writers(g)' = Writers(g)
            /\ g \in torn' <=> g \in torn
        BY <1>3, <1>5, <1>15, <4>2
      <4>5. WholeFile(g)'
        BY <1>6, <4>3, <4>4, WholeStays
      <4>6. QED
        BY <4>2, <4>5 DEF WholeFile, Writers
    <3>3. QED
      BY <3>1, <3>2
  <2>2. QED
    BY <2>1, Zenon DEF UntornFilesAreWhole, WholeFile
<1>18. QED
  BY <1>8, <1>12, <1>13, <1>14, <1>16, <1>17 DEF IInv

LEMMA CrashKeeps ==
  ASSUME IInv, Crash
  PROVE  IInv'
<1>0. /\ pc' = [c \in Callers |-> IF c \in InFlight THEN "done" ELSE pc[c]]
      /\ result' = [c \in Callers |-> IF c \in InFlight THEN "lost" ELSE result[c]]
      /\ torn' = torn \cup {f \in Callers : Writers(f) # {}}
      /\ dirs' = dirs /\ files' = files /\ data' = data /\ call' = call
  BY DEF Crash
<1>1. ASSUME NEW q \in Callers
      PROVE  /\ pc[q] \in {"idle", "done"} =>
                    pc'[q] = pc[q] /\ result'[q] = result[q]
             /\ pc[q] \notin {"idle", "done"} =>
                    pc'[q] = "done" /\ result'[q] = "lost"
             /\ pc'[q] \in {"idle", "done"}
  BY <1>0 DEF InFlight
<1>2. \A q \in Callers : Goes(q)
  BY <1>0, <1>1 DEF Goes
<1>3. Types'
  BY <1>0 DEF IInv, Types, Above, Locations, PutLocations
<1>4. ASSUME NEW q \in Callers PROVE Caller(q)'
  <2>1. Caller(q)
    BY DEF IInv
  <2>2. QED
    BY <1>0, <1>1, <2>1 DEF Caller, Above, UploadLocation, PutLocations
<1>5. Names'
  BY <1>0 DEF IInv, Names, Made, Above
<1>6. ASSUME NEW u \in Callers PROVE Uploaded(u)'
  BY <1>0 DEF IInv, Uploaded
<1>7. ASSUME NEW c \in Callers, NEW u \in Callers PROVE Reading(c, u)'
  <2>1. Reading(c, u)
    BY DEF IInv
  <2>2. u \in Published => u \in Published'
    <3>1. ASSUME u \in Published PROVE u \in Published'
      <4>1. pc[u] = "done" /\ u \in Callers
        BY <3>1, PublishedIs
      <4>2. QED
        BY <1>0, <1>1, <3>1, <4>1 DEF Published
    <3>2. QED
      BY <3>1
  <2>3. result'[c] = result[c] \/ result'[c] = "lost"
    BY <1>1, <1>0 DEF InFlight
  <2>4. UploadLocation(u)' = UploadLocation(u)
    BY DEF UploadLocation
  <2>5. QED
    BY <1>0, <2>1, <2>2, <2>3, <2>4 DEF Reading
<1>8. ASSUME NEW f \in Callers
      PROVE  /\ Writers(f)' = {}
             /\ f \notin torn' => f \notin torn /\ Writers(f) = {}
  BY <1>0, <1>1 DEF Writers
<1>9. ASSUME NEW f \in Callers PROVE Untorn(f)'
  BY <1>8 DEF Untorn
<1>10. UntornFilesAreWhole'
  <2>1. ASSUME NEW l \in DOMAIN files' PROVE WholeFile(files[l])'
    <3>1. PICK g \in Callers : g = files[l]
      BY <1>0 DEF IInv, Types
    <3>2. files'[l] = g /\ l \in DOMAIN files
      BY <1>0, <3>1
    <3>3. WholeFile(g)
      <4>1. WholeFile(files[l])
        BY <3>2, Zenon DEF IInv, UntornFilesAreWhole, WholeFile
      <4>2. QED
        BY <3>1, <4>1
    <3>4. WholeFile(g)'
      BY <1>0, <1>2, <1>8, <3>3, WholeStays
    <3>5. QED
      BY <3>2, <3>4 DEF WholeFile, Writers
  <2>2. QED
    BY <2>1, Zenon DEF UntornFilesAreWhole, WholeFile
<1>11. QED
  BY <1>3, <1>4, <1>5, <1>6, <1>7, <1>9, <1>10 DEF IInv

-----------------------------------------------------------------------------
(* The steps.                                                              *)

(* A call that opens nothing when it is made.                              *)
LEMMA Opening ==
  ASSUME IInv, NEW c \in Callers, pc[c] = "idle",
         NEW op \in {"upload", "put", "get", "delete"}, NEW l \in Locations,
         NEW n \in Nat, Ask(c, op, l, n),
         op = "upload" => l = UploadLocation(c),
         op # "upload" => l \in PutLocations,
         NEW to \in {"directory", "done"}, pc' = [pc EXCEPT ![c] = to],
         op \notin Puts => to = "done",
         NEW a \in {"none", "ok", "invalid", "error"},
         result' = [result EXCEPT ![c] = a],
         to = "directory" => a = "none", op \in Puts => a # "ok",
         DOMAIN files' \subseteq DOMAIN files,
         \A k \in DOMAIN files' : files'[k] = files[k],
         \A k \in DOMAIN files \ DOMAIN files' : k \in PutLocations,
         dirs' = dirs, data' = data, torn' = torn
  PROVE  IInv'
<1>1. /\ call' \in [Callers -> Calls]
      /\ \A q \in Callers \ {c} : call'[q] = call[q]
      /\ call'[c].op = op /\ call'[c].at = l /\ call'[c].size = n
      /\ call'[c].file = "none" /\ call'[c].done = 0 /\ call'[c].seen = 0
      /\ call'[c].got = <<>>
  <2>1. call' = [call EXCEPT ![c] = Call(op, l, n, "none", 0)]
    BY DEF Ask
  <2>2. PICK new : new = Call(op, l, n, "none", 0)
    OBVIOUS
  <2>3. /\ op \in {"upload", "put", "get", "delete"} /\ l \in Locations
        /\ n \in Nat /\ "none" \in Callers \cup {"none"} /\ 0 \in Nat
    OBVIOUS
  <2>4. /\ new \in Calls /\ new.op = op /\ new.at = l /\ new.size = n
        /\ new.file = "none" /\ new.done = 0 /\ new.seen = 0 /\ new.got = <<>>
    <3>1. <<>> \in Seq(Chunks)
      OBVIOUS
    <3>2. new \in Calls
      BY <2>2, <3>1 DEF Call, Calls, Puts
    <3>3. QED
      BY <2>2, <3>2 DEF Call
  <2>5. call \in [Callers -> Calls] /\ call' = [call EXCEPT ![c] = new]
    BY <2>1, <2>2 DEF IInv, Types
  <2>6. call' \in [Callers -> Calls] /\ call'[c] = new
        /\ \A q \in Callers \ {c} : call'[q] = call[q]
    BY <2>4, <2>5
  <2>7. QED
    BY <2>4, <2>6
<1>2. /\ pc \in [Callers -> {"idle", "directory", "open", "write", "read", "done"}]
      /\ result \in [Callers -> Results]
  BY DEF IInv, Types
<1>3. pc'[c] = to /\ result'[c] = a
  BY <1>2
<1>4. Others(c)
  BY <1>1, <1>2 DEF Others
<1>5. Types'
  <2>1. pc' \in [Callers -> {"idle", "directory", "open", "write", "read", "done"}]
    BY <1>2
  <2>2. result' \in [Callers -> Results]
    BY <1>2
  <2>3. /\ DOMAIN files' \subseteq Locations
        /\ \A k \in DOMAIN files' : files'[k] \in Callers
    BY DEF IInv, Types
  <2>4. QED
    BY <1>1, <2>1, <2>2, <2>3 DEF IInv, Types, Above, Locations, PutLocations
<1>6. Caller(c)'
  BY <1>1, <1>3 DEF Caller, Puts, UploadLocation, PutLocations
<1>7. \A u \in Callers : Reading(c, u)'
  <2>1. ASSUME NEW u \in Callers, op = "get" PROVE l # UploadLocation(u)
    BY <2>1, PlacesDiffer
  <2>2. QED
    BY <1>1, <2>1 DEF Reading, UploadLocation
<1>8. \A u \in Callers : UploadLocation(u) \in DOMAIN files =>
                           UploadLocation(u) \in DOMAIN files'
  BY PlacesDiffer
<1>9. QED
  BY <1>1, <1>3, <1>4, <1>5, <1>6, <1>7, <1>8, Starting

LEMMA InitHolds == Init => IInv
<1> SUFFICES ASSUME Init PROVE IInv
  OBVIOUS
<1>1. Idle \in Calls
  <2>1. <<>> \in Seq(Chunks)
    OBVIOUS
  <2>2. QED
    BY <2>1 DEF Idle, Call, Calls
<1>2. /\ Idle.op = "none" /\ Idle.file = "none" /\ Idle.done = 0 /\ Idle.size = 0
  BY DEF Idle, Call
<1>3. DOMAIN files = {} /\ dirs = {} /\ torn = {}
  BY DEF Init
<1>4. \A c \in Callers : /\ data[c] = <<>> /\ pc[c] = "idle" /\ call[c] = Idle
                         /\ result[c] = "none"
  BY DEF Init
<1>5. Types
  <2>1. data \in [Callers -> Seq(Chunks)]
    <3>1. <<>> \in Seq(Chunks)
      OBVIOUS
    <3>2. QED
      BY <3>1 DEF Init
  <2>2. call \in [Callers -> Calls]
    BY <1>1 DEF Init
  <2>3. QED
    BY <1>3, <2>1, <2>2 DEF Init, Types
<1>6. \A c \in Callers : Caller(c)
  BY <1>2, <1>4 DEF Caller, Puts
<1>7. Names /\ UntornFilesAreWhole
  BY <1>2, <1>3, <1>4 DEF Names, UntornFilesAreWhole
<1>8. \A u \in Callers : Uploaded(u) /\ Untorn(u)
  BY <1>2, <1>4 DEF Uploaded, Untorn, Writers
<1>9. \A c, u \in Callers : Reading(c, u)
  BY <1>2, <1>4 DEF Reading
<1>10. QED
  BY <1>5, <1>6, <1>7, <1>8, <1>9 DEF IInv

LEMMA AskingKeeps ==
  ASSUME IInv, NEW c \in Callers, Upload(c) \/ Put(c) \/ Reject(c) \/ Exists(c) \/ Delete(c)
  PROVE  IInv'
<1>0. /\ pc \in [Callers -> {"idle", "directory", "open", "write", "read", "done"}]
      /\ result \in [Callers -> Results]
      /\ Sizes \subseteq Nat
      /\ pc[c] = "idle" => result[c] = "none" /\ call[c].op = "none"
                             /\ call[c].file = "none"
  BY StorageAssumption DEF IInv, Types, Caller
<1>1. CASE Upload(c)
  <2>1. PICK n \in Sizes : Ask(c, "upload", UploadLocation(c), n)
    BY <1>1 DEF Upload
  <2>2. PICK to \in {"directory", "done"}, a \in {"none", "invalid"} :
          /\ pc[c] = "idle" /\ pc' = [pc EXCEPT ![c] = to]
          /\ result' = [result EXCEPT ![c] = a]
          /\ to = "directory" => a = "none"
    <3>1. CASE Goto(c, "idle", "directory") /\ UNCHANGED result
      <4>1. result' = [result EXCEPT ![c] = "none"]
        BY <1>0, <3>1 DEF Goto
      <4>2. QED
        BY <3>1, <4>1 DEF Goto
    <3>2. CASE Answer(c, "idle", "invalid")
      BY <3>2 DEF Answer, Goto
    <3>3. QED
      BY <1>1, <3>1, <3>2 DEF Upload
  <2>3. files' = files /\ dirs' = dirs /\ data' = data /\ torn' = torn
    BY <1>1 DEF Upload
  <2>4. UploadLocation(c) \in Locations
    BY DEF Locations
  <2>5. QED
    BY <1>0, <2>1, <2>2, <2>3, <2>4, Opening DEF Puts
<1>2. CASE Put(c)
  <2>1. PICK p \in Paths, n \in Sizes :
          Admissible(p) /\ Ask(c, "put", Location[p], n)
    BY <1>2 DEF Put
  <2>2. PICK l \in PutLocations : l = Location[p]
    BY <2>1 DEF PutLocations
  <2>3. /\ pc[c] = "idle" /\ pc' = [pc EXCEPT ![c] = "directory"]
        /\ result' = [result EXCEPT ![c] = "none"]
        /\ files' = files /\ dirs' = dirs /\ data' = data /\ torn' = torn
    BY <1>0, <1>2 DEF Put, Goto
  <2>4. Ask(c, "put", l, n) /\ l \in Locations /\ n \in Nat
    BY <1>0, <2>1, <2>2 DEF Locations
  <2>5. QED
    BY <2>3, <2>4, Opening DEF Puts
<1>3. CASE Reject(c) \/ Exists(c)
  <2>1. PICK a \in {"rejected", "present", "absent"} :
          /\ pc[c] = "idle" /\ pc' = [pc EXCEPT ![c] = "done"]
          /\ result' = [result EXCEPT ![c] = a]
          /\ files' = files /\ dirs' = dirs /\ data' = data /\ torn' = torn
          /\ call' = call
    BY <1>3 DEF Reject, Exists, Answer, Goto
  <2>2. pc'[c] = "done" /\ result'[c] = a /\ Others(c)
    BY <1>0, <2>1 DEF Others
  <2>3. Types'
    BY <1>0, <2>1 DEF IInv, Types, Above, Locations, PutLocations
  <2>4. Caller(c) /\ Caller(c)'
    BY <1>0, <2>1, <2>2 DEF IInv, Caller, UploadLocation, PutLocations, Puts
  <2>5. \A u \in Callers : Reading(c, u)'
    BY <1>0, <2>1 DEF Reading
  <2>6. call'[c].op \notin Puts /\ call'[c].file = "none"
    BY <1>0, <2>1 DEF Puts
  <2>7. QED
    BY <2>1, <2>2, <2>3, <2>4, <2>5, <2>6, Starting
<1>4. CASE Delete(c)
  <2>1. PICK p \in Paths :
          /\ Admissible(p) /\ Ask(c, "delete", Location[p], 0)
          /\ files' = [k \in DOMAIN files \ {Location[p]} |-> files[k]]
          /\ Answer(c, "idle",
                    IF Location[p] \in dirs
                       \/ Above(Location[p]) \cap DOMAIN files # {}
                    THEN "error" ELSE "ok")
    BY <1>4 DEF Delete
  <2>2. PICK l \in PutLocations : l = Location[p]
    BY <2>1 DEF PutLocations
  <2>3. PICK a \in {"ok", "error"} :
          /\ pc[c] = "idle" /\ pc' = [pc EXCEPT ![c] = "done"]
          /\ result' = [result EXCEPT ![c] = a]
    BY <2>1 DEF Answer, Goto
  <2>4. /\ DOMAIN files' = DOMAIN files \ {l}
        /\ \A k \in DOMAIN files' : files'[k] = files[k]
        /\ dirs' = dirs /\ data' = data /\ torn' = torn
    BY <1>4, <2>1, <2>2 DEF Delete
  <2>5. Ask(c, "delete", l, 0) /\ l \in Locations /\ 0 \in Nat
    BY <2>1, <2>2 DEF Locations
  <2>6. QED
    BY <2>3, <2>4, <2>5, Opening DEF Puts
<1>5. QED
  BY <1>1, <1>2, <1>3, <1>4

LEMMA ReadingKeeps ==
  ASSUME IInv, NEW c \in Callers, NEW l, OpenToRead(c, l),
         l \in PutLocations \/ \E u \in Published : l = call[u].at
  PROVE  IInv'
<1>0. /\ pc \in [Callers -> {"idle", "directory", "open", "write", "read", "done"}]
      /\ result \in [Callers -> Results]
      /\ call \in [Callers -> Calls] /\ data \in [Callers -> Seq(Chunks)]
      /\ pc[c] = "idle" /\ result[c] = "none" /\ call[c].op = "none"
      /\ call[c].file = "none"
      /\ files' = files /\ dirs' = dirs /\ data' = data /\ torn' = torn
  BY DEF IInv, Types, Caller, OpenToRead, Goto, Answer
<1>1. ASSUME NEW u \in Published
      PROVE call[u].at = UploadLocation(u) /\ u \in Callers
  BY PublishedIs
<1>2. l \in Locations
  BY <1>1 DEF Locations
<1>3. CASE l \notin DOMAIN files
  <2>1. l \in PutLocations
    BY <1>3, PublishedIs
  <2>2. /\ Ask(c, "get", l, 0) /\ pc' = [pc EXCEPT ![c] = "done"]
        /\ result' = [result EXCEPT ![c] = "error"]
    BY <1>3 DEF OpenToRead, Answer, Goto
  <2>3. 0 \in Nat
    OBVIOUS
  <2>4. QED
    BY <1>0, <1>2, <2>1, <2>2, <2>3, Opening DEF Puts
<1>4. CASE l \in DOMAIN files
  <2>1. PICK f \in Callers : f = files[l]
    BY <1>4 DEF IInv, Types
  <2>2. Made(f, l)
    BY <1>4, <2>1 DEF IInv, Names
  <2>3. PICK m \in Nat : m = Len(data[f])
    BY <1>0
  <2>4. PICK new : new = Call("get", l, 0, f, m)
    OBVIOUS
  <2>5. /\ pc' = [pc EXCEPT ![c] = "read"] /\ result' = result
        /\ call' = [call EXCEPT ![c] = new]
    BY <1>4, <2>1, <2>3, <2>4 DEF OpenToRead, Goto
  <2>6. /\ new \in Calls /\ new.op = "get" /\ new.at = l /\ new.size = 0
        /\ new.file = f /\ new.done = 0 /\ new.seen = m /\ new.got = <<>>
    <3>1. <<>> \in Seq(Chunks)
      OBVIOUS
    <3>2. new \in Calls
      BY <1>2, <2>4, <3>1 DEF Call, Calls, Puts
    <3>3. QED
      BY <2>4, <3>2 DEF Call
  <2>7. /\ call' \in [Callers -> Calls] /\ call'[c] = new
        /\ \A q \in Callers \ {c} : call'[q] = call[q]
        /\ pc'[c] = "read" /\ result'[c] = "none"
    BY <1>0, <2>5, <2>6
  <2>8. Others(c)
    BY <1>0, <2>5, <2>7 DEF Others
  <2>9. Types'
    <3>1. pc' \in [Callers -> {"idle", "directory", "open", "write", "read", "done"}]
      BY <1>0, <2>5
    <3>2. QED
      BY <1>0, <2>5, <2>7, <3>1 DEF IInv, Types, Above, Locations, PutLocations
  <2>10. f # "none" /\ f # c
    BY <1>0, <2>2, StorageAssumption DEF Made, Puts
  <2>11. Made(f, l)'
    BY <2>2, <2>7, <2>10 DEF Made
  <2>12. Caller(c)'
    BY <2>6, <2>7, <2>10 DEF Caller, Puts, UploadLocation, PutLocations
  <2>13. ASSUME NEW u \in Callers PROVE Reading(c, u)'
    <3>1. CASE l = UploadLocation(u)
      <4>1. PICK v \in Published : l = call[v].at
        BY <3>1, PlacesDiffer
      <4>2. v = u
        BY <1>1, <3>1, <4>1, PlacesDiffer
      <4>3. /\ u \in Published /\ files[call[u].at] = u
            /\ Len(data[u]) = call[u].size
            /\ pc[u] = "done" /\ call[u].at = l
        BY <4>1, <4>2, PublishedIs
      <4>4. f = u /\ m = call[u].size /\ u # c
        BY <1>0, <2>1, <2>3, <4>3
      <4>5. call'[u] = call[u] /\ result'[u] = result[u]
        BY <2>5, <2>7, <4>4
      <4>6. u \in Published'
        BY <4>3, <4>5 DEF Published
      <4>7. QED
        BY <2>6, <2>7, <4>4, <4>5, <4>6 DEF Reading
    <3>2. CASE l # UploadLocation(u)
      <4>1. call'[c].at # UploadLocation(u)'
        BY <2>6, <2>7, <3>2 DEF UploadLocation
      <4>2. QED
        BY <4>1 DEF Reading
    <3>3. QED
      BY <3>1, <3>2
  <2>14. Made(call[c].file, call[c].at)'
    BY <2>6, <2>7, <2>11 DEF Made
  <2>15. call'[c].op \notin Puts
    BY <2>6, <2>7 DEF Puts
  <2>16. QED
    BY <1>0, <2>7, <2>8, <2>9, <2>12, <2>13, <2>14, <2>15, Starting
<1>5. QED
  BY <1>3, <1>4

(* A caller goes on, or gets its answer.                                   *)
LEMMA Moving ==
  ASSUME IInv, NEW c \in Callers, pc[c] \notin {"idle", "done"},
         NEW to \in {"open", "done"}, pc' = [pc EXCEPT ![c] = to],
         NEW a \in {"none", "ok", "error"}, result' = [result EXCEPT ![c] = a],
         files' = files, data' = data, call' = call,
         \/ dirs' = dirs
         \/ dirs' = dirs \cup Above(call[c].at) /\ call[c].op \in Puts,
         DOMAIN files \cap dirs' = {}, torn \subseteq torn', torn' \subseteq Callers,
         to = "open" => /\ a = "none" /\ pc[c] = "directory"
                        /\ Above(call[c].at) \subseteq dirs',
         call[c].op \in Puts /\ a = "ok" => /\ pc[c] = "write"
                                            /\ call[c].done = call[c].size,
         pc[c] = "write" => a = "ok" \/ call[c].file \in torn',
         pc[c] = "read" => a = "ok",
         \A u \in Callers : call[c].op = "get" /\ call[c].at = UploadLocation(u) =>
                              Len(call[c].got) = call[u].size
  PROVE  IInv'
<1>0. /\ pc \in [Callers -> {"idle", "directory", "open", "write", "read", "done"}]
      /\ result \in [Callers -> Results]
      /\ call \in [Callers -> Calls] /\ Caller(c)
  BY DEF IInv, Types
<1>1. pc'[c] = to /\ result'[c] = a /\ Others(c)
  BY <1>0 DEF Others
<1>2. Types'
  <2>1. pc' \in [Callers -> {"idle", "directory", "open", "write", "read", "done"}]
    BY <1>0
  <2>2. result' \in [Callers -> Results]
    BY <1>0
  <2>3. Above(call[c].at) \subseteq UNION {Above(l) : l \in Locations}
        \/ call[c].op \notin Puts
    <3>1. call[c].op \in Puts => call[c].at \in Locations
      BY <1>0 DEF Caller, Puts, Locations
    <3>2. QED
      BY <3>1, Zenon
  <2>4. dirs' \subseteq UNION {Above(l) : l \in Locations}
    BY <2>3 DEF IInv, Types
  <2>5. QED
    BY <2>1, <2>2, <2>4 DEF IInv, Types, Above, Locations, PutLocations
<1>3. Caller(c)'
  <2>1. Above(call[c].at)' = Above(call[c].at) /\ PutLocations' = PutLocations
        /\ UploadLocation(c)' = UploadLocation(c)
    BY DEF Above, UploadLocation, PutLocations
  <2>2. QED
    BY <1>0, <1>1, <2>1 DEF Caller, Puts
<1>4. ASSUME NEW u \in Callers PROVE Reading(c, u)'
  <2>1. CASE call[c].op = "get" /\ call[c].at = UploadLocation(u)
    <3>1. Reading(c, u) /\ u \in Published
      BY <2>1 DEF IInv, Reading
    <3>2. pc[u] = "done" /\ u # c
      BY <3>1, PublishedIs
    <3>3. u \in Published'
      BY <1>0, <3>1, <3>2 DEF Published
    <3>4. pc[c] = "read"
      BY <1>0, <2>1 DEF Caller, Puts
    <3>5. QED
      BY <1>1, <2>1, <3>1, <3>3, <3>4 DEF Reading
  <2>2. CASE ~(call[c].op = "get" /\ call[c].at = UploadLocation(u))
    BY <2>2 DEF Reading, UploadLocation
  <2>3. QED
    BY <2>1, <2>2
<1>5. /\ dirs \subseteq dirs' /\ pc'[c] \notin {"idle", "write"}
      /\ call'[c].op = call[c].op /\ call'[c].at = call[c].at
      /\ call'[c].size = call[c].size /\ call'[c].seen = call[c].seen
      /\ call'[c].file = call[c].file /\ call'[c].done = call[c].done
  BY <1>1
<1>6. pc[c] = "write" =>
        \/ call[c].file \in torn'
        \/ result'[c] = "ok" /\ call[c].done = call[c].size
  <2>1. pc[c] = "write" => call[c].op \in Puts
    BY <1>0 DEF Caller
  <2>2. QED
    BY <1>1, <2>1
<1>7. QED
  BY <1>1, <1>2, <1>3, <1>4, <1>5, <1>6, Continuing

LEMMA MovingKeeps ==
  ASSUME IInv, NEW c \in Callers,
         \/ MakeDirectory(c) \/ (Open(c) /\ call[c].at \in dirs)
         \/ Close(c) \/ DiskFails(c) \/ EndOfFile(c)
  PROVE  IInv'
<1>0. /\ pc \in [Callers -> {"idle", "directory", "open", "write", "read", "done"}]
      /\ result \in [Callers -> Results]
      /\ call \in [Callers -> Calls] /\ Caller(c) /\ torn \subseteq Callers
      /\ DOMAIN files \cap dirs = {} /\ "get" \notin Puts
  BY DEF IInv, Types, Names, Puts
<1>1. CASE MakeDirectory(c)
  <2>1. pc[c] = "directory" /\ call[c].op \in Puts /\ result[c] = "none"
    BY <1>0, <1>1 DEF MakeDirectory, Goto, Answer, Caller
  <2>2. files' = files /\ data' = data /\ call' = call /\ torn' = torn
    BY <1>1 DEF MakeDirectory
  <2> DEFINE above == Above(call[c].at)
  <2>3. CASE above \cap DOMAIN files = {} /\ dirs' = dirs \cup above
             /\ Goto(c, "directory", "open") /\ UNCHANGED result
    <3>1. pc' = [pc EXCEPT ![c] = "open"] /\ result' = [result EXCEPT ![c] = "none"]
      BY <1>0, <2>1, <2>3 DEF Goto
    <3>2. DOMAIN files \cap dirs' = {} /\ above \subseteq dirs'
      BY <1>0, <2>3
    <3>3. QED
      BY <1>0, <2>1, <2>2, <2>3, <3>1, <3>2, Moving
  <2>4. CASE Answer(c, "directory", "error") /\ UNCHANGED dirs
    <3>1. pc' = [pc EXCEPT ![c] = "done"] /\ result' = [result EXCEPT ![c] = "error"]
      BY <2>4 DEF Answer, Goto
    <3>2. QED
      BY <1>0, <2>1, <2>2, <2>4, <3>1, Moving
  <2>5. QED
    BY <1>1, <2>3, <2>4 DEF MakeDirectory
<1>2. CASE Open(c) /\ call[c].at \in dirs
  <2>1. /\ pc[c] = "open" /\ pc' = [pc EXCEPT ![c] = "done"]
        /\ result' = [result EXCEPT ![c] = "error"] /\ files' = files /\ data' = data
        /\ call' = call /\ torn' = torn /\ dirs' = dirs
    BY <1>2 DEF Open, Answer, Goto
  <2>2. call[c].op \in Puts
    BY <1>0, <2>1 DEF Caller
  <2>3. QED
    BY <1>0, <2>1, <2>2, Moving
<1>3. CASE Close(c)
  <2>1. /\ pc[c] = "write" /\ pc' = [pc EXCEPT ![c] = "done"]
        /\ result' = [result EXCEPT ![c] = "ok"] /\ files' = files /\ data' = data
        /\ call' = call /\ torn' = torn /\ dirs' = dirs
        /\ call[c].done = call[c].size
    BY <1>3 DEF Close, Answer, Goto
  <2>2. call[c].op \in Puts
    BY <1>0, <2>1 DEF Caller
  <2>3. QED
    BY <1>0, <2>1, <2>2, Moving
<1>4. CASE DiskFails(c)
  <2>1. /\ pc[c] \in {"directory", "open", "write"}
        /\ pc' = [pc EXCEPT ![c] = "done"]
        /\ result' = [result EXCEPT ![c] = "error"] /\ files' = files /\ data' = data
        /\ call' = call /\ dirs' = dirs
        /\ torn' = IF pc[c] = "write" THEN torn \cup {call[c].file} ELSE torn
    BY <1>4 DEF DiskFails, Answer, Goto
  <2>2. call[c].op \in Puts
    BY <1>0, <2>1 DEF Caller
  <2>3. pc[c] = "write" => call[c].file \in Callers
    BY <1>0 DEF Caller, Calls
  <2>4. /\ torn \subseteq torn' /\ torn' \subseteq Callers
        /\ pc[c] = "write" => call[c].file \in torn'
    BY <1>0, <2>1, <2>3
  <2>5. /\ pc[c] \notin {"idle", "done", "read"} /\ call[c].op # "get"
        /\ DOMAIN files \cap dirs' = {}
    BY <1>0, <2>1, <2>2
  <2>6. QED
    <3>1. /\ pc' = [pc EXCEPT ![c] = "done"]
          /\ result' = [result EXCEPT ![c] = "error"]
          /\ files' = files /\ data' = data /\ call' = call /\ dirs' = dirs
      BY <2>1
    <3>2. QED
      BY <2>4, <2>5, <3>1, Moving
<1>5. CASE EndOfFile(c)
  <2>1. /\ pc[c] = "read" /\ pc' = [pc EXCEPT ![c] = "done"]
        /\ result' = [result EXCEPT ![c] = "ok"] /\ files' = files /\ data' = data
        /\ call' = call /\ torn' = torn /\ dirs' = dirs
        /\ \/ Len(call[c].got) >= Len(data[call[c].file])
           \/ Len(call[c].got) = call[c].seen
    BY <1>5 DEF EndOfFile, Answer, Goto
  <2>2. call[c].op = "get" /\ call[c].op \notin Puts
    BY <1>0, <2>1 DEF Caller
  <2>3. ASSUME NEW u \in Callers, call[c].at = UploadLocation(u)
        PROVE  Len(call[c].got) = call[u].size
    <3>1. /\ u \in Published /\ call[c].file = u /\ call[c].seen = call[u].size
          /\ Len(call[c].got) <= call[u].size
      BY <2>2, <2>3 DEF IInv, Reading
    <3>2. Len(data[u]) = call[u].size /\ call[u].size \in Nat
      BY <3>1, PublishedIs
    <3>3. Len(call[c].got) \in Nat
      BY <1>0 DEF Calls
    <3>4. QED
      BY <2>1, <3>1, <3>2, <3>3
  <2>4. /\ pc[c] \notin {"idle", "done", "write"} /\ torn \subseteq torn'
        /\ torn' \subseteq Callers /\ DOMAIN files \cap dirs' = {}
    BY <1>0, <2>1
  <2>5. QED
    <3>1. /\ pc' = [pc EXCEPT ![c] = "done"]
          /\ result' = [result EXCEPT ![c] = "ok"]
          /\ files' = files /\ data' = data /\ call' = call /\ dirs' = dirs
      BY <2>1
    <3>2. \A u \in Callers : call[c].op = "get" /\ call[c].at = UploadLocation(u) =>
                               Len(call[c].got) = call[u].size
      BY <2>3
    <3>3. QED
      BY <2>2, <2>4, <3>1, <3>2, Moving
<1>6. QED
  BY <1>1, <1>2, <1>3, <1>4, <1>5

LEMMA ChunkKeeps ==
  ASSUME IInv, NEW c \in Callers, ReadChunk(c)
  PROVE  IInv'
<1>0. /\ call \in [Callers -> Calls] /\ call[c] \in Calls /\ Caller(c)
      /\ data \in [Callers -> Seq(Chunks)]
      /\ pc[c] = "read" /\ call[c].op = "get" /\ call[c].file \in Callers
      /\ dirs' = dirs /\ files' = files /\ data' = data /\ pc' = pc
      /\ result' = result /\ torn' = torn
      /\ DOMAIN files \cap dirs = {} /\ "get" \notin Puts
  BY DEF ReadChunk, IInv, Types, Caller, Calls, Names, Puts
<1>1. PICK f \in Callers, got \in Seq(Chunks) : f = call[c].file /\ got = call[c].got
  BY <1>0 DEF Calls
<1>2. PICK x : x = data[f][Len(got) + 1]
  OBVIOUS
<1>3. Len(got) \in Nat /\ Len(got) < Len(data[f]) /\ x \in Chunks
  <2>1. Len(got) \in Nat /\ Len(got) < Len(data[f]) /\ data[f] \in Seq(Chunks)
    BY <1>0, <1>1 DEF ReadChunk
  <2>2. QED
    BY <1>2, <2>1
<1>4. PICK more \in Seq(Chunks) : more = Append(got, x)
  <2>1. Append(got, x) \in Seq(Chunks)
    BY <1>3
  <2>2. QED
    BY <2>1
<1>5. call' = [call EXCEPT ![c].got = more]
  BY <1>1, <1>2, <1>4 DEF ReadChunk
<1>6. /\ call'[c].op = call[c].op /\ call'[c].at = call[c].at
      /\ call'[c].size = call[c].size /\ call'[c].seen = call[c].seen
      /\ call'[c].file = call[c].file /\ call'[c].done = call[c].done
      /\ call'[c].got = more /\ call'[c] \in Calls
      /\ \A q \in Callers \ {c} : call'[q] = call[q]
  <2>1. call'[c] = [call[c] EXCEPT !.got = more]
    BY <1>0, <1>5
  <2>2. call'[c] \in Calls /\ call'[c].got = more
    BY <1>0, <2>1 DEF Calls
  <2>3. /\ call'[c].op = call[c].op /\ call'[c].at = call[c].at
        /\ call'[c].size = call[c].size /\ call'[c].seen = call[c].seen
        /\ call'[c].file = call[c].file /\ call'[c].done = call[c].done
    BY <1>0, <2>1 DEF Calls
  <2>4. \A q \in Callers \ {c} : call'[q] = call[q]
    BY <1>0, <1>5
  <2>5. QED
    BY <2>2, <2>3, <2>4
<1>7. Others(c) /\ Types'
  <2>1. Others(c)
    BY <1>0, <1>6 DEF Others
  <2>2. call' \in [Callers -> Calls]
    BY <1>0, <1>5, <1>6
  <2>3. QED
    BY <1>0, <2>1, <2>2 DEF IInv, Types, Above, Locations, PutLocations
<1>8. Caller(c)'
  BY <1>0, <1>6 DEF Caller, Puts, UploadLocation, PutLocations
<1>9. ASSUME NEW u \in Callers PROVE Reading(c, u)'
  <2>1. CASE call[c].at = UploadLocation(u)
    <3>1. /\ u \in Published /\ f = u /\ result[c] # "error"
          /\ call[c].seen = call[u].size
          /\ \A k \in 1..Len(got) : got[k] = u
      BY <1>0, <1>1, <2>1 DEF IInv, Reading
    <3>2. /\ Len(data[u]) = call[u].size /\ call[u].size \in Nat /\ pc[u] = "done"
          /\ \A k \in 1..call[u].size : data[u][k] = u
      BY <3>1, PublishedIs
    <3>3. x = u /\ Len(more) = Len(got) + 1 /\ Len(more) <= call[u].size
      BY <1>2, <1>3, <1>4, <3>1, <3>2
    <3>4. \A k \in 1..Len(more) : more[k] = u
      BY <1>3, <1>4, <3>1, <3>3
    <3>5. call'[u] = call[u] /\ u \in Published' /\ result[c] = "none"
      BY <1>0, <1>6, <3>1, <3>2 DEF Published, Caller
    <3>6. QED
      BY <1>0, <1>1, <1>6, <3>1, <3>3, <3>4, <3>5 DEF Reading
  <2>2. CASE call[c].at # UploadLocation(u)
    BY <1>6, <2>2 DEF Reading, UploadLocation
  <2>3. QED
    BY <2>1, <2>2
<1>10. QED
  BY <1>0, <1>6, <1>7, <1>8, <1>9, Continuing

LEMMA StepKeeps == IInv /\ [Next]_vars => IInv'
<1> SUFFICES ASSUME IInv, [Next]_vars PROVE IInv'
  OBVIOUS
<1>1. ASSUME NEW c \in Callers, Upload(c) \/ Put(c) \/ Reject(c) \/ Exists(c) \/ Delete(c)
      PROVE  IInv'
  BY <1>1, AskingKeeps
<1>2. ASSUME NEW c \in Callers, Open(c) PROVE IInv'
  <2>1. CASE call[c].at \in dirs
    BY <1>2, <2>1, MovingKeeps
  <2>2. CASE call[c].at \notin dirs
    BY <1>2, <2>2, OpenKeeps
  <2>3. QED
    BY <2>1, <2>2
<1>3. ASSUME NEW c \in Callers,
             MakeDirectory(c) \/ Close(c) \/ DiskFails(c) \/ EndOfFile(c)
      PROVE  IInv'
  BY <1>3, MovingKeeps
<1>4. ASSUME NEW c \in Callers, Write(c) PROVE IInv'
  BY <1>4, WriteKeeps
<1>5. ASSUME NEW c \in Callers, ReadChunk(c) PROVE IInv'
  BY <1>5, ChunkKeeps
<1>6. ASSUME NEW c \in Callers, Get(c) PROVE IInv'
  <2>1. ASSUME NEW p \in Paths, Admissible(p), OpenToRead(c, Location[p])
        PROVE  IInv'
    <3>1. Location[p] \in PutLocations
      BY <2>1 DEF PutLocations
    <3>2. QED
      BY <2>1, <3>1, ReadingKeeps
  <2>2. ASSUME NEW u \in Published, OpenToRead(c, call[u].at)
        PROVE  IInv'
    <3>1. PICK l \in {call[u].at} : OpenToRead(c, l)
      BY <2>2
    <3>2. QED
      BY <3>1, ReadingKeeps
  <2>3. QED
    BY <1>6, <2>1, <2>2 DEF Get
<1>7. ASSUME Crash PROVE IInv'
  BY <1>7, CrashKeeps
<1>8. ASSUME UNCHANGED vars PROVE IInv'
  <2>1. /\ dirs' = dirs /\ files' = files /\ data' = data /\ pc' = pc
        /\ call' = call /\ result' = result /\ torn' = torn
    BY <1>8 DEF vars
  <2>2. Types' /\ Names'
    BY <2>1 DEF IInv, Types, Names, Made, Above, Locations, PutLocations
  <2>3. ASSUME NEW c \in Callers PROVE Caller(c)'
    <3>1. Caller(c)
      BY DEF IInv
    <3>2. QED
      BY <2>1, <3>1 DEF Caller, Above, PutLocations, UploadLocation
  <2>4. \A u \in Callers : Uploaded(u)'
    BY <2>1 DEF IInv, Uploaded
  <2>5. \A c, u \in Callers : Reading(c, u)'
    <3>1. ASSUME NEW c \in Callers, NEW u \in Callers PROVE Reading(c, u)'
      <4>1. Reading(c, u)
        BY DEF IInv
      <4>2. QED
        BY <2>1, <4>1 DEF Reading, Published, UploadLocation
    <3>2. QED
      BY <3>1
  <2>6. \A f \in Callers : Untorn(f)'
    BY <2>1 DEF IInv, Untorn, Writers
  <2>7. UntornFilesAreWhole'
    BY <2>1 DEF IInv, UntornFilesAreWhole, Writers, Whole
  <2>8. QED
    BY <2>2, <2>3, <2>4, <2>5, <2>6, <2>7 DEF IInv
<1>9. QED
  BY <1>1, <1>2, <1>3, <1>4, <1>5, <1>6, <1>7, <1>8 DEF Next

LEMMA Invariant == Spec => []IInv
<1>1. QED
  BY InitHolds, StepKeeps, PTL DEF Spec

-----------------------------------------------------------------------------

(* No path given to LocalDisk, however many dots it has, makes a file or a *)
(* directory outside the root; no name is both a file and a directory, and *)
(* every file lies in directories that exist, whatever calls race.         *)
THEOREM NothingLeavesTheRoot == Spec => []FilesStayBelowRoot
<1>1. ASSUME IInv PROVE FilesStayBelowRoot
  <2>1. ASSUME NEW l \in dirs \cup DOMAIN files PROVE IsPrefix(Root, l)
    <3>1. CASE l \in dirs
      <4>1. PICK k \in Locations : l \in Above(k)
        BY <1>1, <3>1 DEF IInv, Types
      <4>2. QED
        BY <4>1, PlacesBelowRoot
    <3>2. CASE l \in DOMAIN files
      <4>1. l \in Locations
        BY <1>1, <3>2 DEF IInv, Types
      <4>2. QED
        BY <4>1, PlacesBelowRoot
    <3>3. QED
      BY <3>1, <3>2
  <2>2. DOMAIN files \cap dirs = {}
    BY <1>1 DEF IInv, Names
  <2>3. \A l \in DOMAIN files : Above(l) \subseteq dirs
    BY <1>1 DEF IInv, Names
  <2>4. QED
    BY <2>1, <2>2, <2>3 DEF FilesStayBelowRoot
<1>2. QED
  BY <1>1, Invariant, PTL

(* Every call is in one of its states, and every chunk has a writer.       *)
THEOREM StorageTypeOK == Spec => []TypeOK
<1>1. ASSUME IInv PROVE TypeOK
  <2>1. torn \subseteq Callers /\ \A l \in DOMAIN files : files[l] \in Callers
    BY <1>1 DEF IInv, Types
  <2>2. ASSUME NEW c \in Callers
        PROVE  /\ data[c] \in Seq(Callers \cup {"zeros"})
               /\ pc[c] \in {"idle", "directory", "open", "write", "read", "done"}
               /\ call[c].op \in {"none", "upload", "put", "get", "delete"}
               /\ call[c].done \in 0..call[c].size
               /\ pc[c] \in {"write", "read"} => call[c].file \in Callers
               /\ result[c] \in Results
    <3>1. call[c] \in Calls /\ Caller(c)
      BY <1>1 DEF IInv, Types
    <3>2. /\ call[c].op \in {"none", "upload", "put", "get", "delete"}
          /\ call[c].done \in Nat /\ call[c].size \in Nat
          /\ call[c].file \in Callers \cup {"none"}
      BY <3>1 DEF Calls, Puts
    <3>3. /\ call[c].done <= call[c].size
          /\ pc[c] \in {"write", "read"} => call[c].file # "none"
      BY <3>1 DEF Caller
    <3>4. /\ data[c] \in Seq(Callers \cup {"zeros"})
          /\ pc[c] \in {"idle", "directory", "open", "write", "read", "done"}
          /\ result[c] \in Results
      BY <1>1 DEF IInv, Types, Chunks
    <3>5. QED
      BY <3>2, <3>3, <3>4
  <2>3. QED
    BY <2>1, <2>2 DEF TypeOK
<1>2. QED
  BY <1>1, Invariant, PTL

(* The file of an upload that POST /uploads/avatar answered with 201 is at *)
(* its place and whole from then on, and GET /storage never answers with   *)
(* an error or a part of it: whatever uploads, puts and deletions there    *)
(* are beside it, in the same directory, above it and below it, and        *)
(* whatever full disks and crashes.  NamesAreRandom is used: no put and no *)
(* deletion names the file itself.                                         *)
THEOREM UploadsStayWhole == Spec => []UploadsAreWhole
<1>1. ASSUME IInv PROVE UploadsAreWhole
  <2>1. ASSUME NEW u \in Published
        PROVE  /\ call[u].at \in DOMAIN files
               /\ data[files[call[u].at]] = Whole(u)
    BY <1>1, PublishedIs
  <2>2. ASSUME NEW u \in Published, NEW c \in Callers,
               call[c].op = "get", call[c].at = call[u].at
        PROVE  /\ result[c] # "error"
               /\ result[c] = "ok" => call[c].got = Whole(u)
    <3>1. u \in Callers /\ call[u].at = UploadLocation(u) /\ call[u].size \in Nat
      BY <1>1, PublishedIs
    <3>2. Reading(c, u)
      BY <1>1, <3>1 DEF IInv
    <3>3. /\ result[c] # "error"
          /\ \A k \in 1..Len(call[c].got) : call[c].got[k] = u
          /\ result[c] = "ok" => Len(call[c].got) = call[u].size
      BY <2>2, <3>1, <3>2 DEF Reading
    <3>4. call[c].got \in Seq(Chunks)
      BY <1>1 DEF IInv, Types, Calls
    <3>5. ASSUME result[c] = "ok" PROVE call[c].got = Whole(u)
      <4>1. PICK got \in Seq(Chunks) : got = call[c].got
        BY <3>4
      <4>2. PICK n \in Nat : n = call[u].size
        BY <3>1
      <4>3. Len(got) = n /\ \A k \in 1..n : got[k] = u
        BY <3>3, <3>5, <4>1, <4>2
      <4>4. got = [k \in 1..n |-> u]
        BY <4>3
      <4>5. QED
        BY <4>1, <4>2, <4>4 DEF Whole
    <3>6. QED
      BY <3>3, <3>5
  <2>3. QED
    BY <2>1, <2>2 DEF UploadsAreWhole
<1>2. QED
  BY <1>1, Invariant, PTL

(* A file that put of LocalDisk has written is exactly what one caller     *)
(* wrote, unless its last writers overlapped, failed or crashed: no chunk  *)
(* of an older content and no gap is left in it.                           *)
THEOREM UntornFilesStayWhole == Spec => []UntornFilesAreWhole
<1>1. IInv => UntornFilesAreWhole
  BY DEF IInv
<1>2. QED
  BY <1>1, Invariant, PTL

=============================================================================
