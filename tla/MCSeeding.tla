----------------------------- MODULE MCSeeding -----------------------------
(* A small instance of Seeding: two runs, the first with two posts, the    *)
(* second with one; all posts have the same title, and user x, who may     *)
(* register at any time, the address of the runs' authors.                 *)
EXTENDS Seeding

CONSTANTS t1, a, x, p1, p2, p3, author1, author2, author

MCBase == [t \in Titles |-> <<a>>]
MCWords == {a, 1, 2}
MCSuffixes == 0..2
MCAddress == [u \in Users |-> author]

MCPost(u, t) == [owner |-> u, title |-> t]
MCSeedUsers == << <<author1>>, <<author2>> >>
MCSeedPosts ==
  << [r \in {p1, p2} |-> MCPost(author1, t1)],
     [r \in {p3} |-> MCPost(author2, t1)] >>
=============================================================================
