------------------------------ MODULE MCPosts ------------------------------
(* Small instances of Posts.  Title t1 gives the slug "a"; title t2 gives  *)
(* "a-1", which is also the first suffixed form of the other.              *)
EXTENDS Posts, TLC

CONSTANTS t1, t2, a

MCTitles == {t1, t2}
MCBase == [t \in Titles |-> IF t = t1 THEN <<a>> ELSE <<a, 1>>]
MCSuffixes == 0..3
MCWords == {a, 1, 2, 3}

Symmetry == Permutations(Requests) \cup Permutations(Users)
=============================================================================
