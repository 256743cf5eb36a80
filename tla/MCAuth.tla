------------------------------- MODULE MCAuth -------------------------------
(* A small instance of Auth: blank_p, p with a blank, trims to p.          *)
EXTENDS Auth, TLC

CONSTANTS p, blank_p, hash_p, hash_blank_p

MCPasswords == {p, blank_p}
MCTrim == [w \in Passwords |-> p]
MCDigest == [w \in Passwords |-> IF w = p THEN hash_p ELSE hash_blank_p]

Symmetry == Permutations(Requests) \cup Permutations(Emails)
=============================================================================
