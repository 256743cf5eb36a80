----------------------------- MODULE MCStorage -----------------------------
(* A small instance of Storage: two names of one file, a path through that *)
(* file, the directory of the uploads, a file in it, and a path that       *)
(* leaves the root at second sight.                                        *)
EXTENDS Storage, TLC

MCRoot == <<"public">>
MCPaths == {<<"a">>, <<"b", "..", "a">>, <<"a", "b">>, <<"avatars">>,
            <<"avatars", "a">>, <<"b", "..", "..", "a">>}

Symmetry == Permutations(Callers)
=============================================================================
