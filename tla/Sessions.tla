------------------------------ MODULE Sessions ------------------------------
(***************************************************************************)
(* What bearer tokens promise: a token is issued once, to one user; it     *)
(* opens protected routes until it is closed by a logout, by its expiry or *)
(* with its user; and a closed token never opens anything again.           *)
(***************************************************************************)

CONSTANTS Tokens, Holders, NoHolder, Visitors

VARIABLES
  session,   (* "unissued", "open" or "closed", for each token             *)
  holder,    (* the user each token was issued to                          *)
  admitted   (* the pairs of a visitor and the token it was let in with    *)

sessionVars == <<session, holder, admitted>>

Init ==
  /\ session \in [Tokens -> {"unissued", "open"}]
  /\ holder \in [Tokens -> Holders \cup {NoHolder}]
  /\ \A t \in Tokens : holder[t] = NoHolder <=> session[t] = "unissued"
  /\ admitted = {}

Issue(t, h) ==
  /\ session[t] = "unissued"
  /\ session' = [session EXCEPT ![t] = "open"]
  /\ holder' = [holder EXCEPT ![t] = h]
  /\ UNCHANGED admitted

(* One logout or expiry closes one token; a user takes all his with him.   *)
Close(S) ==
  /\ \A t \in S : session[t] = "open"
  /\ session' = [t \in Tokens |-> IF t \in S THEN "closed" ELSE session[t]]
  /\ UNCHANGED <<holder, admitted>>

Admit(v, t) ==
  /\ session[t] = "open"
  /\ admitted' = admitted \cup {<<v, t>>}
  /\ UNCHANGED <<session, holder>>

Next ==
  \/ \E t \in Tokens, h \in Holders : Issue(t, h)
  \/ \E S \in SUBSET Tokens : Close(S)
  \/ \E v \in Visitors, t \in Tokens : Admit(v, t)

Spec == Init /\ [][Next]_sessionVars

=============================================================================
