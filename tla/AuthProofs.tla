----------------------------- MODULE AuthProofs -----------------------------
(* Theorems about Auth, for every number of requests, seeded users,        *)
(* addresses and passwords, every Trim and Digest and every set of         *)
(* failures.                                                               *)
EXTENDS Auth, TLAPS

(* The inductive invariant.  What a request asked for fits the step it has *)
(* come to ...                                                             *)
Shape ==
  \A r \in Requests :
    /\ pc[r] = "idle" => req[r].op = "none"
    /\ pc[r] \in {"insertUser", "loadUser"} =>
         req[r].op \in {"register", "command"}
    /\ pc[r] \in {"insertToken", "loadToken", "announce"} =>
         req[r].op \in {"register", "login"}
    /\ pc[r] \in {"findToken", "findUser", "markUsed", "handle"} =>
         req[r].op \in {"visit", "logout"}
    /\ pc[r] \in {"findUser", "markUsed", "handle"} => req[r].token \in Ids
    /\ req[r].op \in {"register", "login", "command"} =>
         req[r].email \in Emails /\ req[r].password \in Passwords
    /\ req[r].op \in {"register", "command"} => req[r].user = r
    /\ answer[r] = "none" \/ pc[r] = "done"

(* ... and so do the rows that it has stored, which are those it had to,   *)
(* and are never stored under another name.                                *)
UserRows ==
  \A r \in Requests :
    /\ users[r] # Absent =>
         /\ req[r].op \in {"register", "command"}
         /\ pc[r] \notin {"idle", "insertUser"}
    /\ pc[r] = "loadUser" => users[r] # Absent
    /\ /\ req[r].op = "register"
       /\ pc[r] \in {"insertToken", "loadToken", "announce"}
       => users[r] # Absent
    /\ UserExists(r) => users[r] = [email |-> req[r].email,
                                    digest |-> StoredDigest(r)]

TokenRows ==
  /\ \A t \in Seeded : tokens[t] # Absent
  /\ \A r \in Requests :
       /\ tokens[r] # Absent =>
            /\ req[r].op \in {"register", "login"}
            /\ pc[r] \notin {"idle", "insertUser", "loadUser", "insertToken"}
       /\ pc[r] \in {"loadToken", "announce"} => tokens[r] # Absent
       /\ Handed(r) => tokens[r] # Absent

(* A token belongs to a user that exists, and the account that a request   *)
(* is about to issue a token for is the one whose credentials it gave, or  *)
(* has been deleted since.                                                 *)
Earned ==
  /\ \A t \in Ids : TokenExists(t) => UserExists(tokens[t].user)
  /\ \A r \in Requests :
       pc[r] = "insertToken" =>
         users[req[r].user] \in
           {Gone, [email |-> req[r].email, digest |-> Digest[req[r].password]]}
  /\ TokensWereEarned

(* What a request carries was once issued, and if it was dead on arrival   *)
(* it still is, and the request has not got past the middleware.           *)
Carried ==
  \A r \in Requests :
    /\ req[r].token \in Ids => tokens[req[r].token] # Absent
    /\ req[r].dead => pc[r] \in {"findToken", "done"} /\ Dead(req[r].token)

Typing == TypeOK /\ Shape

Rows == UserRows /\ TokenRows

Bearers == Carried /\ LogoutIsFinal /\ DeadTokenOpensNothing

IInv ==
  /\ Typing /\ Rows /\ Earned /\ EmailNamesOneUser /\ AccountAnswersAreTrue
  /\ Bearers

-----------------------------------------------------------------------------

LEMMA TypingInit == Init => Typing
<1> SUFFICES ASSUME Init PROVE Typing
  OBVIOUS
<1>1. users \in [Ids -> UserRow \cup {Absent, Gone}]
  <2>1. PICK e \in [Seeded -> Emails], p \in [Seeded -> Passwords] :
          users = [i \in Ids |-> IF i \in Seeded
                                 THEN [email |-> e[i], digest |-> Digest[p[i]]]
                                 ELSE Absent]
    BY DEF Init
  <2>2. QED
    BY <2>1 DEF UserRow, Digests
<1>2. tokens \in [Ids -> TokenRow \cup {Absent, Gone}]
  BY DEF Init, TokenRow, Ids
<1>3. req \in [Requests -> RequestData]
  BY DEF Init, RequestData, Ids
<1>4. QED
  BY <1>1, <1>2, <1>3 DEF Init, Typing, TypeOK, Shape, Steps, Answers

(* The request that a client begins is a request. *)
LEMMA AskType ==
  ASSUME NEW r \in Requests, NEW op \in {"register", "login", "command"},
         NEW e \in Emails, NEW p \in Passwords, NEW i \in Ids,
         TypeOK, Ask(r, op, e, p, i)
  PROVE  /\ req' \in [Requests -> RequestData]
         /\ req'[r].op = op /\ req'[r].user = i /\ req'[r].token = NoToken
         /\ req'[r].email = e /\ req'[r].password = p /\ ~req'[r].dead
         /\ \A q \in Requests \ {r} : req'[q] = req[q]
<1>1. [op |-> op, email |-> e, password |-> p, user |-> i, token |-> NoToken,
       dead |-> FALSE] \in RequestData
  BY DEF RequestData
<1>2. QED
  BY <1>1 DEF Ask, TypeOK

LEMMA StoredDigestType ==
  ASSUME NEW r \in Requests, req[r].password \in Passwords
  PROVE  StoredDigest(r) \in Digests
BY AuthAssumption DEF StoredDigest, Digests

(* The two updates of a token's row: they keep its user, and never make a  *)
(* revoked token usable.                                                   *)
Updated ==
  /\ tokens' \in [Ids -> TokenRow \cup {Absent, Gone}]
  /\ \A s \in Ids :
       /\ tokens[s] \in {Absent, Gone} => tokens'[s] = tokens[s]
       /\ tokens[s] \in TokenRow =>
            /\ tokens'[s] \in TokenRow
            /\ tokens'[s].user = tokens[s].user
            /\ tokens[s].revoked => tokens'[s].revoked

LEMMA MarkUsedUpdates ==
  ASSUME TypeOK, NEW r \in Requests, req[r].token \in Ids, MarkUsed(r)
  PROVE  Updated
<1> DEFINE t == req[r].token
<1>1. CASE ~TokenExists(t)
  BY <1>1 DEF MarkUsed, Updated, TypeOK
<1>2. CASE TokenExists(t)
  <2>1. tokens[t] \in TokenRow
    BY <1>2 DEF TokenExists
  <2>2. tokens' = [tokens EXCEPT ![t].used = TRUE]
    BY <1>2 DEF MarkUsed
  <2>3. /\ tokens' \in [Ids -> TokenRow \cup {Absent, Gone}]
        /\ tokens'[t] \in TokenRow
        /\ tokens'[t].user = tokens[t].user
        /\ tokens'[t].revoked = tokens[t].revoked
        /\ \A s \in Ids \ {t} : tokens'[s] = tokens[s]
    BY <2>1, <2>2 DEF TypeOK, TokenRow
  <2>4. QED
    BY <2>1, <2>3, AuthAssumption DEF Updated
<1>3. QED
  BY <1>1, <1>2

LEMMA RevokedUpdates ==
  ASSUME TypeOK, NEW t \in Ids, tokens' = Revoked(t)
  PROVE  /\ Updated
         /\ tokens'[t] \in TokenRow => tokens'[t].revoked
<1>1. CASE ~TokenExists(t)
  BY <1>1, AuthAssumption DEF Revoked, Updated, TypeOK, TokenExists
<1>2. CASE TokenExists(t)
  <2>1. tokens[t] \in TokenRow
    BY <1>2 DEF TokenExists
  <2>2. tokens' = [tokens EXCEPT ![t].revoked = TRUE]
    BY <1>2 DEF Revoked
  <2>3. /\ tokens' \in [Ids -> TokenRow \cup {Absent, Gone}]
        /\ tokens'[t] \in TokenRow
        /\ tokens'[t].user = tokens[t].user
        /\ tokens'[t].revoked
        /\ \A s \in Ids \ {t} : tokens'[s] = tokens[s]
    BY ZenonT(60), <2>1, <2>2 DEF TypeOK, TokenRow
  <2>4. QED
    BY <2>1, <2>3, AuthAssumption DEF Updated
<1>3. QED
  BY <1>1, <1>2

-----------------------------------------------------------------------------
(* Type correctness, and the shape of requests.                            *)

(* A request that begins with credentials. *)
LEMMA AskKeepsTyping ==
  ASSUME Typing, NEW r \in Requests, pc[r] = "idle",
         NEW op \in {"register", "login", "command"},
         NEW e \in Emails, NEW p \in Passwords, NEW i \in Ids,
         op # "login" => i = r,
         Ask(r, op, e, p, i),
         UNCHANGED <<users, tokens, expired, admitted, announced>>,
         \/ /\ pc' = [pc EXCEPT ![r] = IF op = "login" THEN "insertToken"
                                                      ELSE "insertUser"]
            /\ UNCHANGED answer
         \/ \E a \in Answers : Answer(r, "idle", a)
  PROVE  Typing'
<1>1. /\ req' \in [Requests -> RequestData]
      /\ req'[r].op = op /\ req'[r].user = i
      /\ req'[r].email = e /\ req'[r].password = p
      /\ \A q \in Requests \ {r} : req'[q] = req[q]
  BY AskType DEF Typing
<1>2. TypeOK'
  BY <1>1 DEF Typing, TypeOK, Answer, Goto, Steps, Answers
<1>3. Shape'
  BY <1>1 DEF Typing, TypeOK, Shape, Answer, Goto
<1>4. QED
  BY <1>2, <1>3 DEF Typing

(* The INSERT of a token whose user exists stores that token only. *)
LEMMA InsertTokenStores ==
  ASSUME TypeOK, NEW r \in Requests, InsertToken(r), UserExists(req[r].user)
  PROVE  /\ tokens' \in [Ids -> TokenRow \cup {Absent, Gone}]
         /\ tokens'[r] \in TokenRow
         /\ tokens'[r].user = req[r].user
         /\ ~tokens'[r].revoked
         /\ \A t \in Ids \ {r} : tokens'[t] = tokens[t]
<1>1. req[r].user \in Ids /\ r \in Ids
  BY DEF TypeOK, RequestData, Ids
<1>2. PICK row \in TokenRow :
        /\ row = [user |-> req[r].user, revoked |-> FALSE, used |-> FALSE]
        /\ tokens' = [tokens EXCEPT ![r] = row]
  BY <1>1, Zenon DEF InsertToken, TokenRow
<1>3. row.user = req[r].user /\ ~row.revoked
  BY <1>2
<1>4. QED
  BY <1>1, <1>2, <1>3 DEF TypeOK

LEMMA TypingNext == Typing /\ [Next]_vars => Typing'
<1> SUFFICES ASSUME Typing, [Next]_vars PROVE Typing'
  OBVIOUS
<1> USE DEF Typing, TypeOK, Shape, Steps, Answers
<1>1. ASSUME NEW r \in Requests, Account(r) PROVE Typing'
  <2>1. CASE StartRegister(r)
    <3>1. PICK e \in Emails, p \in Passwords : Ask(r, "register", e, p, r)
      BY <2>1 DEF StartRegister
    <3>2. QED
      BY <2>1, <3>1, AskKeepsTyping DEF StartRegister, Goto, Ids
  <2>2. CASE StartCommand(r)
    <3>1. PICK e \in Emails, p \in Passwords :
            /\ Ask(r, "command", e, p, r)
            /\ \/ Goto(r, "idle", "insertUser") /\ UNCHANGED answer
               \/ Answer(r, "idle", "conflict")
      BY <2>2 DEF StartCommand
    <3>2. QED
      BY <2>2, <3>1, AskKeepsTyping DEF StartCommand, Goto, Answer, Ids
  <2>3. CASE InsertUser(r)
    <3>1. pc[r] = "insertUser"
      BY <2>3 DEF InsertUser, Goto, Answer
    <3>2. [email |-> req[r].email, digest |-> StoredDigest(r)] \in UserRow
      BY <3>1, StoredDigestType DEF UserRow
    <3>3. QED
      BY <2>3, <3>1, <3>2 DEF InsertUser, Goto, Answer, Ids
  <2>4. CASE LoadUser(r)
    BY <2>4 DEF LoadUser, Goto, Answer
  <2>5. CASE StartLogin(r)
    <3>1. PICK e \in Emails, p \in Passwords, i \in Ids :
            /\ Ask(r, "login", e, p, i)
            /\ \/ Goto(r, "idle", "insertToken") /\ UNCHANGED answer
               \/ Answer(r, "idle", "unauthorized")
      BY <2>5 DEF StartLogin, Ids
    <3>2. QED
      BY <2>5, <3>1, AskKeepsTyping DEF StartLogin, Goto, Answer, Ids
  <2>6. CASE InsertToken(r)
    <3>1. CASE UserExists(req[r].user)
      BY <2>6, <3>1, InsertTokenStores DEF InsertToken, Goto
    <3>2. CASE ~UserExists(req[r].user)
      BY <2>6, <3>2 DEF InsertToken, Answer, Goto
    <3>3. QED
      BY <3>1, <3>2
  <2>7. CASE LoadToken(r)
    BY <2>7 DEF LoadToken, Goto, Answer
  <2>8. CASE Announce(r)
    BY <2>8 DEF Announce, Goto, Answer
  <2>9. CASE AnnounceFails(r)
    BY <2>9 DEF AnnounceFails, Goto, Answer
  <2>10. QED
    BY <1>1, <2>1, <2>2, <2>3, <2>4, <2>5, <2>6, <2>7, <2>8, <2>9 DEF Account
<1>2. ASSUME NEW r \in Requests, Protected(r) PROVE Typing'
  <2>1. CASE Arrive(r)
    <3>1. PICK op \in {"visit", "logout"}, t \in Ids \cup {NoToken} :
            req' = [req EXCEPT ![r] = [op |-> op, email |-> NoEmail,
                                       password |-> NoPassword, user |-> r,
                                       token |-> t, dead |-> Dead(t)]]
      BY <2>1 DEF Arrive
    <3>2. Dead(t) \in BOOLEAN
      BY DEF Dead, TokenExists
    <3>3. [op |-> op, email |-> NoEmail, password |-> NoPassword, user |-> r,
           token |-> t, dead |-> Dead(t)] \in RequestData
      BY <3>2 DEF RequestData, Ids
    <3>4. QED
      BY <2>1, <3>1, <3>3 DEF Arrive, Goto
  <2>2. CASE FindToken(r)
    <3>1. CASE Usable(req[r].token)
      <4>1. req[r].token \in Ids /\ tokens[req[r].token].user \in Ids
        BY <3>1 DEF Usable, TokenExists, TokenRow, RequestData
      <4>2. req[r] \in RequestData
        OBVIOUS
      <4>3. /\ [req[r] EXCEPT !.user = tokens[req[r].token].user] \in RequestData
            /\ [req[r] EXCEPT !.user = tokens[req[r].token].user].op = req[r].op
            /\ [req[r] EXCEPT !.user = tokens[req[r].token].user].token
                 = req[r].token
        BY <4>1, <4>2 DEF RequestData
      <4>4. req' = [req EXCEPT ![r] = [req[r] EXCEPT
                      !.user = tokens[req[r].token].user]]
        BY <2>2, <3>1 DEF FindToken
      <4>5. pc[r] = "findToken" /\ pc' = [pc EXCEPT ![r] = "findUser"]
            /\ UNCHANGED <<users, tokens, expired, answer, announced>>
            /\ admitted' = admitted \cup {<<r, req[r].token>>}
        BY <2>2, <3>1 DEF FindToken, Goto
      <4>6. QED
        BY <4>1, <4>3, <4>4, <4>5
    <3>2. CASE ~Usable(req[r].token)
      BY <2>2, <3>2 DEF FindToken, Goto, Answer
    <3>3. QED
      BY <3>1, <3>2
  <2>3. CASE FindUser(r)
    BY <2>3 DEF FindUser, Goto, Answer
  <2>4. CASE MarkUsed(r)
    <3>1. req[r].token \in Ids
      BY <2>4 DEF MarkUsed, Goto
    <3>2. Updated
      BY <2>4, <3>1, MarkUsedUpdates
    <3>3. QED
      BY <2>4, <3>2 DEF MarkUsed, Goto, Updated
  <2>5. CASE Visit(r)
    BY <2>5 DEF Visit, Goto, Answer
  <2>6. CASE Logout(r)
    <3>1. req[r].token \in Ids
      BY <2>6 DEF Logout, Answer, Goto
    <3>2. Updated
      BY <2>6, <3>1, RevokedUpdates DEF Logout
    <3>3. QED
      BY <2>6, <3>2 DEF Logout, Goto, Answer, Updated
  <2>7. QED
    BY <1>2, <2>1, <2>2, <2>3, <2>4, <2>5, <2>6 DEF Protected
<1>3. ASSUME NEW r \in Requests, Fail(r) PROVE Typing'
  <2>1. CASE StatementFails(r)
    BY <2>1 DEF StatementFails, Goto, Answer
  <2>2. CASE LogoutUnacknowledged(r)
    <3>1. req[r].token \in Ids
      BY <2>2 DEF LogoutUnacknowledged, Answer, Goto
    <3>2. Updated
      BY <2>2, <3>1, RevokedUpdates DEF LogoutUnacknowledged
    <3>3. QED
      BY <2>2, <3>2 DEF LogoutUnacknowledged, Goto, Answer, Updated
  <2>3. CASE CommandKilled(r)
    BY <2>3 DEF CommandKilled, Lose
  <2>4. QED
    BY <1>3, <2>1, <2>2, <2>3 DEF Fail
<1>4. ASSUME NEW t \in Seeded, Expire(t) PROVE Typing'
  BY <1>4 DEF Expire
<1>5. ASSUME NEW i \in Ids, RemoveUser(i) PROVE Typing'
  BY <1>5 DEF RemoveUser
<1>6. CASE ServerCrash
  BY <1>6 DEF ServerCrash, Lose
<1>7. CASE UNCHANGED vars
  BY <1>7 DEF vars
<1>8. QED
  BY <1>1, <1>2, <1>3, <1>4, <1>5, <1>6, <1>7 DEF Next

(* Every reachable state is well typed: in particular each middleware and  *)
(* each statement works on rows and requests of the kinds it expects, and  *)
(* only tokens that the system issued are let in.                          *)
THEOREM TypeCorrect == Spec => []TypeOK
<1>1. Init => Typing
  BY TypingInit
<1>2. Typing /\ [Next]_vars => Typing'
  BY TypingNext
<1>3. Typing => TypeOK
  BY DEF Typing
<1>4. QED
  BY <1>1, <1>2, <1>3, PTL DEF Spec

-----------------------------------------------------------------------------
(* What a step may do to the two tables and to a request: rows are stored  *)
(* by the request they are named after, and only deleted afterwards, and a *)
(* request keeps what it asked for.                                        *)

UserStep ==
  \A i \in Ids :
    /\ users[i] # Absent => users'[i] = users[i] \/ RemoveUser(i)
    /\ users[i] = Absent /\ users'[i] # Absent =>
         /\ i \in Requests
         /\ InsertUser(i)
         /\ ~EmailTaken(req[i].email)

TokenStep ==
  \A t \in Ids :
    /\ tokens[t] # Absent =>
         /\ tokens'[t] # Absent
         /\ Dead(t) => Dead(t)'
         /\ TokenExists(t)' => TokenExists(t) /\ tokens'[t].user = tokens[t].user
    /\ tokens[t] = Absent /\ tokens'[t] # Absent =>
         /\ t \in Requests
         /\ InsertToken(t)
         /\ UserExists(req[t].user)

RequestStep ==
  \A r \in Requests :
    /\ pc[r] # "idle" =>
         /\ pc'[r] # "idle"
         /\ req'[r].op = req[r].op
         /\ req'[r].email = req[r].email
         /\ req'[r].password = req[r].password
         /\ req'[r].token = req[r].token
         /\ req'[r].dead = req[r].dead
         /\ pc[r] # "findToken" => req'[r].user = req[r].user
    /\ pc[r] = "done" => pc'[r] = "done" /\ answer'[r] = answer[r]

LEMMA RequestSteps == Typing /\ [Next]_vars => RequestStep
<1> SUFFICES ASSUME Typing, [Next]_vars PROVE RequestStep
  OBVIOUS
<1> USE DEF Typing, TypeOK, RequestStep
<1>1. ASSUME NEW r \in Requests, Account(r) PROVE RequestStep
  BY <1>1 DEF Account, StartRegister, StartCommand, InsertUser, LoadUser,
     StartLogin, InsertToken, LoadToken, Announce, AnnounceFails, Ask, Goto,
     Answer
<1>2. ASSUME NEW r \in Requests, Protected(r) PROVE RequestStep
  <2>1. CASE FindToken(r)
    <3>1. req[r] \in RequestData
      OBVIOUS
    <3>2. \A u : /\ [req[r] EXCEPT !.user = u].op = req[r].op
                 /\ [req[r] EXCEPT !.user = u].email = req[r].email
                 /\ [req[r] EXCEPT !.user = u].password = req[r].password
                 /\ [req[r] EXCEPT !.user = u].token = req[r].token
                 /\ [req[r] EXCEPT !.user = u].dead = req[r].dead
      BY <3>1 DEF RequestData
    <3>3. \/ UNCHANGED req
          \/ \E u : req' = [req EXCEPT ![r] = [req[r] EXCEPT !.user = u]]
      BY <2>1 DEF FindToken
    <3>4. /\ req'[r].op = req[r].op
          /\ req'[r].email = req[r].email
          /\ req'[r].password = req[r].password
          /\ req'[r].token = req[r].token
          /\ req'[r].dead = req[r].dead
          /\ \A q \in Requests \ {r} : req'[q] = req[q]
      <4>1. CASE UNCHANGED req
        BY <4>1
      <4>2. ASSUME NEW u, req' = [req EXCEPT ![r] = [req[r] EXCEPT !.user = u]]
            PROVE  /\ req'[r] = [req[r] EXCEPT !.user = u]
                   /\ \A q \in Requests \ {r} : req'[q] = req[q]
        BY <4>2
      <4>3. QED
        BY ZenonT(60), <3>2, <3>3, <4>1, <4>2
    <3>5. /\ pc[r] = "findToken" /\ pc'[r] # "idle"
          /\ \A q \in Requests \ {r} : pc'[q] = pc[q] /\ answer'[q] = answer[q]
      BY <2>1 DEF FindToken, Goto, Answer
    <3>6. QED
      BY <3>4, <3>5
  <2>2. CASE ~FindToken(r)
    BY <1>2, <2>2 DEF Protected, Arrive, FindUser, MarkUsed, Visit, Logout,
       Goto, Answer
  <2>3. QED
    BY <2>1, <2>2
<1>3. ASSUME NEW r \in Requests, Fail(r) PROVE RequestStep
  BY <1>3 DEF Fail, StatementFails, LogoutUnacknowledged, CommandKilled,
     InFlight, Lose, Goto, Answer
<1>4. ASSUME NEW t \in Seeded, Expire(t) PROVE RequestStep
  BY <1>4 DEF Expire
<1>5. ASSUME NEW i \in Ids, RemoveUser(i) PROVE RequestStep
  BY <1>5 DEF RemoveUser
<1>6. CASE ServerCrash
  BY <1>6 DEF ServerCrash, InFlight, Lose
<1>7. CASE UNCHANGED vars
  BY <1>7 DEF vars
<1>8. QED
  BY <1>1, <1>2, <1>3, <1>4, <1>5, <1>6, <1>7 DEF Next

LEMMA UserSteps == Typing /\ UserRows /\ [Next]_vars => UserStep
<1> SUFFICES ASSUME Typing, UserRows, [Next]_vars PROVE UserStep
  OBVIOUS
<1> USE DEF Typing, TypeOK
<1>1. ASSUME NEW r \in Requests, Account(r) PROVE UserStep
  <2>1. CASE InsertUser(r)
    <3>1. users[r] = Absent
      BY <2>1 DEF InsertUser, Goto, Answer, UserRows
    <3>2. \A i \in Ids \ {r} : users'[i] = users[i]
      BY <2>1 DEF InsertUser
    <3>3. users'[r] # users[r] => ~EmailTaken(req[r].email)
      BY <2>1 DEF InsertUser
    <3>4. QED
      BY <2>1, <3>1, <3>2, <3>3 DEF UserStep
  <2>2. CASE ~InsertUser(r)
    BY <1>1, <2>2 DEF UserStep, Account, StartRegister, StartCommand, LoadUser,
       StartLogin, InsertToken, LoadToken, Announce, AnnounceFails
  <2>3. QED
    BY <2>1, <2>2
<1>2. ASSUME NEW r \in Requests, Protected(r) PROVE UserStep
  BY <1>2 DEF UserStep, Protected, Arrive, FindToken, FindUser, MarkUsed,
     Visit, Logout
<1>3. ASSUME NEW r \in Requests, Fail(r) PROVE UserStep
  BY <1>3 DEF UserStep, Fail, StatementFails, LogoutUnacknowledged,
     CommandKilled, Lose
<1>4. ASSUME NEW t \in Seeded, Expire(t) PROVE UserStep
  BY <1>4 DEF UserStep, Expire
<1>5. ASSUME NEW i \in Ids, RemoveUser(i) PROVE UserStep
  BY <1>5, AuthAssumption DEF UserStep, RemoveUser, UserExists
<1>6. CASE ServerCrash
  BY <1>6 DEF UserStep, ServerCrash, Lose
<1>7. CASE UNCHANGED vars
  BY <1>7 DEF UserStep, vars
<1>8. QED
  BY <1>1, <1>2, <1>3, <1>4, <1>5, <1>6, <1>7 DEF Next

(* A step that leaves the tokens alone lets them expire at most. *)
LEMMA TokensUntouched ==
  ASSUME UNCHANGED tokens, expired \subseteq expired'
  PROVE  TokenStep
BY DEF TokenStep, Dead, TokenExists

(* Nor do the two updates revive a token. *)
LEMMA UpdatedIsTokenStep ==
  ASSUME TypeOK, Updated, UNCHANGED expired
  PROVE  TokenStep
<1> SUFFICES ASSUME NEW t \in Ids
             PROVE  /\ tokens[t] = Absent => tokens'[t] = Absent
                    /\ tokens[t] # Absent =>
                         /\ tokens'[t] # Absent
                         /\ Dead(t) => Dead(t)'
                         /\ TokenExists(t)' =>
                              TokenExists(t) /\ tokens'[t].user = tokens[t].user
  BY DEF TokenStep
<1>1. CASE tokens[t] \in {Absent, Gone}
  BY <1>1, AuthAssumption DEF Updated, Dead, TokenExists
<1>2. CASE tokens[t] \in TokenRow
  BY <1>2, AuthAssumption DEF Updated, Dead, TokenExists
<1>3. QED
  BY <1>1, <1>2 DEF TypeOK

LEMMA TokenSteps == Typing /\ TokenRows /\ [Next]_vars => TokenStep
<1> SUFFICES ASSUME Typing, TokenRows, [Next]_vars PROVE TokenStep
  OBVIOUS
<1>1. ASSUME NEW r \in Requests, Account(r) PROVE TokenStep
  <2>1. CASE InsertToken(r) /\ UserExists(req[r].user)
    <3>1. tokens[r] = Absent
      BY <2>1 DEF InsertToken, Goto, TokenRows
    <3>2. \A t \in Ids \ {r} : tokens'[t] = tokens[t]
      BY <2>1, InsertTokenStores DEF Typing
    <3>3. UNCHANGED expired
      BY <2>1 DEF InsertToken
    <3>4. QED
      BY <2>1, <3>1, <3>2, <3>3 DEF TokenStep, Dead, TokenExists
  <2>2. CASE ~(InsertToken(r) /\ UserExists(req[r].user))
    <3>1. UNCHANGED <<tokens, expired>>
      BY <1>1, <2>2 DEF Account, StartRegister, StartCommand, InsertUser,
         LoadUser, StartLogin, InsertToken, LoadToken, Announce, AnnounceFails
    <3>2. QED
      BY <3>1, TokensUntouched
  <2>3. QED
    BY <2>1, <2>2
<1>2. ASSUME NEW r \in Requests, Protected(r) PROVE TokenStep
  <2>1. CASE MarkUsed(r)
    <3>1. req[r].token \in Ids
      BY <2>1 DEF MarkUsed, Goto, Typing, Shape
    <3>2. QED
      BY <2>1, <3>1, MarkUsedUpdates, UpdatedIsTokenStep DEF MarkUsed, Typing
  <2>2. CASE Logout(r)
    <3>1. req[r].token \in Ids
      BY <2>2 DEF Logout, Answer, Goto, Typing, Shape
    <3>2. QED
      BY <2>2, <3>1, RevokedUpdates, UpdatedIsTokenStep DEF Logout, Typing
  <2>3. CASE ~MarkUsed(r) /\ ~Logout(r)
    <3>1. UNCHANGED <<tokens, expired>>
      BY <1>2, <2>3 DEF Protected, Arrive, FindToken, FindUser, Visit
    <3>2. QED
      BY <3>1, TokensUntouched
  <2>4. QED
    BY <2>1, <2>2, <2>3
<1>3. ASSUME NEW r \in Requests, Fail(r) PROVE TokenStep
  <2>1. CASE LogoutUnacknowledged(r)
    <3>1. req[r].token \in Ids
      BY <2>1 DEF LogoutUnacknowledged, Answer, Goto, Typing, Shape
    <3>2. QED
      BY <2>1, <3>1, RevokedUpdates, UpdatedIsTokenStep
         DEF LogoutUnacknowledged, Typing
  <2>2. CASE ~LogoutUnacknowledged(r)
    <3>1. UNCHANGED <<tokens, expired>>
      BY <1>3, <2>2 DEF Fail, StatementFails, CommandKilled, Lose
    <3>2. QED
      BY <3>1, TokensUntouched
  <2>3. QED
    BY <2>1, <2>2
<1>4. ASSUME NEW t \in Seeded, Expire(t) PROVE TokenStep
  BY <1>4, TokensUntouched DEF Expire
<1>5. ASSUME NEW i \in Ids, RemoveUser(i) PROVE TokenStep
  BY <1>5, AuthAssumption DEF TokenStep, RemoveUser, Dead, TokenExists
<1>6. CASE ServerCrash
  BY <1>6, TokensUntouched DEF ServerCrash, Lose
<1>7. CASE UNCHANGED vars
  BY <1>7, TokensUntouched DEF vars
<1>8. QED
  BY <1>1, <1>2, <1>3, <1>4, <1>5, <1>6, <1>7 DEF Next

(* Which steps a request comes from, and what gives it its answer. *)
FlowStep ==
  /\ announced \subseteq announced'
  /\ \A r \in Requests :
       /\ pc'[r] = "idle" => pc[r] = "idle" /\ req'[r] = req[r]
       /\ pc[r] = "idle" =>
            \/ req'[r] = req[r]
            \/ req'[r].token = NoToken /\ ~req'[r].dead
            \/ Arrive(r)
       /\ pc'[r] = "insertUser" => pc[r] \in {"idle", "insertUser"}
       /\ pc'[r] = "loadUser" =>
            pc[r] = "loadUser" \/ (pc[r] = "insertUser" /\ users'[r] # Absent)
       /\ pc'[r] = "insertToken" =>
            \/ pc[r] = "insertToken" /\ req'[r] = req[r]
            \/ pc[r] = "loadUser" /\ UserExists(r) /\ UNCHANGED <<users, req>>
            \/ StartLogin(r)
       /\ pc'[r] = "loadToken" =>
            pc[r] = "loadToken" \/ (pc[r] = "insertToken" /\ tokens'[r] # Absent)
       /\ pc'[r] = "announce" => pc[r] \in {"announce", "loadToken"}
       /\ pc'[r] = "findToken" => pc[r] = "findToken" \/ Arrive(r)
       /\ pc'[r] \in {"findUser", "markUsed", "handle"} =>
            \/ pc[r] \in {"findUser", "markUsed", "handle"}
            \/ pc[r] = "findToken" /\ Usable(req[r].token)
       /\ answer'[r] # answer[r] =>
            /\ pc'[r] = "done" /\ pc[r] # "done"
            /\ answer'[r] = "created" =>
                 \/ /\ pc[r] = "announce" /\ req[r].op = "register"
                    /\ r \in announced'
                 \/ pc[r] = "loadUser" /\ req[r].op = "command"
            /\ answer'[r] = "ok" => pc[r] \in {"announce", "handle"}
            /\ answer'[r] = "noContent" => Logout(r)
            /\ answer'[r] = "conflict" =>
                 pc[r] \in {"idle", "insertUser"} /\ UNCHANGED <<users, tokens>>

LEMMA FlowSteps == Typing /\ [Next]_vars => FlowStep
<1> SUFFICES ASSUME Typing, [Next]_vars PROVE FlowStep
  OBVIOUS
<1> USE DEF Typing, TypeOK, FlowStep, Goto, Answer
<1>1. ASSUME NEW r \in Requests, Account(r) PROVE FlowStep
  <2>1. CASE StartRegister(r)
    <3>1. /\ req'[r].token = NoToken /\ ~req'[r].dead
          /\ \A q \in Requests \ {r} : req'[q] = req[q]
      BY <2>1, AskType DEF StartRegister, Ids
    <3>2. QED
      BY <2>1, <3>1 DEF StartRegister
  <2>2. CASE StartCommand(r)
    <3>1. /\ req'[r].token = NoToken /\ ~req'[r].dead
          /\ \A q \in Requests \ {r} : req'[q] = req[q]
      BY <2>2, AskType DEF StartCommand, Ids
    <3>2. QED
      BY <2>2, <3>1 DEF StartCommand
  <2>3. CASE InsertUser(r)
    <3>1. [email |-> req[r].email, digest |-> StoredDigest(r)] \in UserRow
          \/ pc[r] # "insertUser"
      BY StoredDigestType DEF UserRow, Shape
    <3>2. pc'[r] = "loadUser" => users'[r] # Absent
      BY <2>3, <3>1, AuthAssumption DEF InsertUser, Ids
    <3>3. QED
      BY <2>3, <3>2 DEF InsertUser
  <2>4. CASE LoadUser(r)
    BY <2>4 DEF LoadUser
  <2>5. CASE StartLogin(r)
    <3>1. /\ req'[r].token = NoToken /\ ~req'[r].dead
          /\ \A q \in Requests \ {r} : req'[q] = req[q]
      BY <2>5, AskType DEF StartLogin, Ids
    <3>2. /\ pc[r] = "idle"
          /\ \A q \in Requests \ {r} : pc'[q] = pc[q] /\ answer'[q] = answer[q]
          /\ \/ pc'[r] = "insertToken" /\ answer'[r] = answer[r]
             \/ pc'[r] = "done" /\ answer'[r] = "unauthorized"
          /\ UNCHANGED announced
      BY <2>5 DEF StartLogin
    <3>3. QED
      BY <2>5, <3>1, <3>2
  <2>6. CASE InsertToken(r)
    <3>1. pc'[r] = "loadToken" => UserExists(req[r].user)
      BY <2>6 DEF InsertToken
    <3>2. pc'[r] = "loadToken" => tokens'[r] # Absent
      BY <2>6, <3>1, InsertTokenStores, AuthAssumption
    <3>3. QED
      BY <2>6, <3>2 DEF InsertToken
  <2>7. CASE LoadToken(r)
    BY <2>7 DEF LoadToken
  <2>8. CASE Announce(r)
    BY <2>8 DEF Announce
  <2>9. CASE AnnounceFails(r)
    BY <2>9 DEF AnnounceFails
  <2>10. QED
    BY <1>1, <2>1, <2>2, <2>3, <2>4, <2>5, <2>6, <2>7, <2>8, <2>9 DEF Account
<1>2. ASSUME NEW r \in Requests, Protected(r) PROVE FlowStep
  <2>1. CASE Arrive(r)
    <3>1. /\ pc[r] = "idle" /\ pc'[r] = "findToken"
          /\ \A q \in Requests \ {r} : pc'[q] = pc[q] /\ req'[q] = req[q]
          /\ UNCHANGED <<announced, answer>>
      BY <2>1 DEF Arrive
    <3>2. QED
      BY <2>1, <3>1
  <2>2. CASE FindToken(r)
    <3>1. CASE Usable(req[r].token)
      <4>1. /\ pc[r] = "findToken" /\ pc' = [pc EXCEPT ![r] = "findUser"]
            /\ UNCHANGED <<answer, announced>>
        BY <2>2, <3>1 DEF FindToken
      <4>2. req' = [req EXCEPT ![r].user = tokens[req[r].token].user]
        BY <2>2, <3>1 DEF FindToken
      <4>3. \A q \in Requests \ {r} : req'[q] = req[q]
        BY <4>2
      <4>4. QED
        BY <3>1, <4>1, <4>3
    <3>2. CASE ~Usable(req[r].token)
      <4>1. /\ pc[r] = "findToken" /\ pc' = [pc EXCEPT ![r] = "done"]
            /\ answer' = [answer EXCEPT ![r] = "unauthorized"]
            /\ UNCHANGED <<req, announced>>
        BY <2>2, <3>2 DEF FindToken
      <4>2. QED
        BY <4>1
    <3>3. QED
      BY <3>1, <3>2
  <2>3. CASE FindUser(r)
    BY <2>3 DEF FindUser
  <2>4. CASE MarkUsed(r)
    BY <2>4 DEF MarkUsed
  <2>5. CASE Visit(r)
    BY <2>5 DEF Visit
  <2>6. CASE Logout(r)
    BY <2>6 DEF Logout
  <2>7. QED
    BY <1>2, <2>1, <2>2, <2>3, <2>4, <2>5, <2>6 DEF Protected
<1>3. ASSUME NEW r \in Requests, Fail(r) PROVE FlowStep
  BY <1>3 DEF Fail, StatementFails, LogoutUnacknowledged, CommandKilled,
     InFlight, Lose
<1>4. ASSUME NEW t \in Seeded, Expire(t) PROVE FlowStep
  BY <1>4 DEF Expire
<1>5. ASSUME NEW i \in Ids, RemoveUser(i) PROVE FlowStep
  BY <1>5 DEF RemoveUser
<1>6. CASE ServerCrash
  BY <1>6 DEF ServerCrash, InFlight, Lose
<1>7. CASE UNCHANGED vars
  BY <1>7 DEF vars
<1>8. QED
  BY <1>1, <1>2, <1>3, <1>4, <1>5, <1>6, <1>7 DEF Next

-----------------------------------------------------------------------------
(* The inductive invariant is one.                                         *)

LEMMA InvInit == Init => IInv
<1> SUFFICES ASSUME Init PROVE IInv
  OBVIOUS
<1>1. Typing
  BY TypingInit
<1>2. PICK e \in [Seeded -> Emails], p \in [Seeded -> Passwords] :
        /\ \A i, j \in Seeded : e[i] = e[j] => i = j
        /\ users = [i \in Ids |-> IF i \in Seeded
                                  THEN [email |-> e[i], digest |-> Digest[p[i]]]
                                  ELSE Absent]
  BY DEF Init
<1>3. /\ \A t \in Requests : tokens[t] = Absent /\ users[t] = Absent
      /\ \A t \in Seeded : tokens[t] \in TokenRow /\ tokens[t].user = t
  <2>1. \A t \in Requests : tokens[t] = Absent /\ users[t] = Absent
    BY <1>2, AuthAssumption DEF Init, Ids
  <2>2. ASSUME NEW t \in Seeded
        PROVE  tokens[t] \in TokenRow /\ tokens[t].user = t
    <3>1. tokens[t] = [user |-> t, revoked |-> FALSE, used |-> FALSE]
      BY DEF Init, Ids
    <3>2. PICK row \in TokenRow :
            row = [user |-> t, revoked |-> FALSE, used |-> FALSE]
      BY Zenon DEF TokenRow, Ids
    <3>3. row.user = t
      BY <3>2
    <3>4. QED
      BY <3>1, <3>2, <3>3
  <2>3. QED
    BY <2>1, <2>2
<1>4. \A i \in Seeded : users[i] \in UserRow /\ users[i].email = e[i]
  BY <1>2 DEF Ids, UserRow, Digests
<1>5. Rows
  BY <1>3, AuthAssumption DEF Init, Rows, UserRows, TokenRows, UserExists,
     Handed, Ids
<1>6. Earned
  BY <1>3, <1>4, AuthAssumption DEF Init, Earned, TokensWereEarned, TokenExists,
     UserExists, Ids
<1>7. EmailNamesOneUser
  BY <1>2, <1>3, <1>4, AuthAssumption DEF EmailNamesOneUser, UserExists, Ids
<1>8. AccountAnswersAreTrue /\ Bearers
  BY AuthAssumption DEF Init, AccountAnswersAreTrue, Bearers, Carried,
     LogoutIsFinal, DeadTokenOpensNothing
<1>9. QED
  BY <1>1, <1>5, <1>6, <1>7, <1>8 DEF IInv

(* The user a step stores or deletes is the one its request names.         *)
LEMMA UserRowsNext ==
  ASSUME IInv, Typing', UserStep, RequestStep, FlowStep
  PROVE  UserRows'
<1> SUFFICES ASSUME NEW r \in Requests
             PROVE  /\ users'[r] # Absent =>
                         /\ req'[r].op \in {"register", "command"}
                         /\ pc'[r] \notin {"idle", "insertUser"}
                    /\ pc'[r] = "loadUser" => users'[r] # Absent
                    /\ /\ req'[r].op = "register"
                       /\ pc'[r] \in {"insertToken", "loadToken", "announce"}
                       => users'[r] # Absent
                    /\ UserExists(r)' =>
                         users'[r] = [email |-> req'[r].email,
                                      digest |-> StoredDigest(r)']
  BY DEF UserRows
<1> r \in Ids
  BY DEF Ids
<1>1. users[r] # Absent => users'[r] \in {users[r], Gone}
  BY DEF UserStep, RemoveUser, IInv, Typing, TypeOK
<1>2. CASE users[r] # Absent
  <2>1. /\ req[r].op \in {"register", "command"}
        /\ pc[r] \notin {"idle", "insertUser"}
    BY <1>2 DEF IInv, Rows, UserRows
  <2>2. /\ req'[r].op = req[r].op
        /\ pc'[r] \notin {"idle", "insertUser"}
        /\ StoredDigest(r)' = StoredDigest(r)
        /\ req'[r].email = req[r].email
    BY <2>1 DEF RequestStep, FlowStep, StoredDigest
  <2>3. users'[r] # Absent
    BY <1>1, <1>2, AuthAssumption
  <2>4. UserExists(r)' => users'[r] = users[r] /\ UserExists(r)
    BY <1>1, <1>2, AuthAssumption DEF UserExists
  <2>5. QED
    BY <2>1, <2>2, <2>3, <2>4 DEF IInv, Rows, UserRows
<1>3. CASE users[r] = Absent /\ users'[r] # Absent
  <2>1. InsertUser(r) /\ ~EmailTaken(req[r].email)
    BY <1>3 DEF UserStep
  <2>2. /\ pc[r] = "insertUser" /\ pc'[r] = "loadUser"
        /\ req' = req
        /\ users'[r] = [email |-> req[r].email, digest |-> StoredDigest(r)]
    BY <2>1 DEF InsertUser, Goto, Answer, IInv, Typing, TypeOK
  <2>3. StoredDigest(r)' = StoredDigest(r)
    BY <2>2 DEF StoredDigest
  <2>4. req[r].op \in {"register", "command"}
    BY <2>2 DEF IInv, Typing, Shape
  <2>5. QED
    BY <1>3, <2>2, <2>3, <2>4
<1>4. CASE users[r] = Absent /\ users'[r] = Absent
  <2>1. pc'[r] # "loadUser"
    BY <1>4 DEF FlowStep, IInv, Rows, UserRows
  <2>2. req'[r].op = "register" =>
          pc'[r] \notin {"insertToken", "loadToken", "announce"}
    <3>1. StartLogin(r) => req'[r].op = "login"
      BY AskType DEF StartLogin, Ids, IInv, Typing
    <3>2. QED
      BY <1>4, <3>1, AuthAssumption DEF FlowStep, RequestStep, UserExists, IInv,
         Rows, UserRows
  <2>3. ~UserExists(r)'
    BY <1>4, AuthAssumption DEF UserExists
  <2>4. QED
    BY <1>4, <2>1, <2>2, <2>3
<1>5. QED
  BY <1>2, <1>3, <1>4

LEMMA TokenRowsNext ==
  ASSUME IInv, Typing', TokenStep, RequestStep, FlowStep
  PROVE  TokenRows'
<1>1. \A t \in Seeded : tokens'[t] # Absent
  BY DEF TokenStep, IInv, Rows, TokenRows, Ids
<1> SUFFICES ASSUME NEW r \in Requests
             PROVE  /\ tokens'[r] # Absent =>
                         /\ req'[r].op \in {"register", "login"}
                         /\ pc'[r] \notin {"idle", "insertUser", "loadUser",
                                          "insertToken"}
                    /\ pc'[r] \in {"loadToken", "announce"} =>
                         tokens'[r] # Absent
                    /\ Handed(r)' => tokens'[r] # Absent
  BY <1>1 DEF TokenRows
<1> r \in Ids /\ r \notin Seeded
  BY AuthAssumption DEF Ids
<1>2. tokens'[r] # Absent =>
        /\ req'[r].op \in {"register", "login"}
        /\ pc'[r] \notin {"idle", "insertUser", "loadUser", "insertToken"}
  <2>1. CASE tokens[r] # Absent
    <3>1. /\ req[r].op \in {"register", "login"}
          /\ pc[r] \notin {"idle", "insertUser", "loadUser", "insertToken"}
      BY <2>1 DEF IInv, Rows, TokenRows
    <3>2. ~StartLogin(r)
      BY <3>1 DEF StartLogin, Goto, Answer
    <3>3. QED
      BY <3>1, <3>2 DEF RequestStep, FlowStep
  <2>2. CASE tokens[r] = Absent /\ tokens'[r] # Absent
    <3>1. InsertToken(r) /\ UserExists(req[r].user)
      BY <2>2 DEF TokenStep
    <3>2. pc[r] = "insertToken" /\ pc'[r] = "loadToken" /\ req' = req
      BY <3>1 DEF InsertToken, Goto, IInv, Typing, TypeOK
    <3>3. QED
      BY <3>2 DEF IInv, Typing, Shape
  <2>3. QED
    BY <2>1, <2>2
<1>3. pc'[r] \in {"loadToken", "announce"} => tokens'[r] # Absent
  BY DEF FlowStep, TokenStep, IInv, Rows, TokenRows
<1>4. Handed(r)' => tokens'[r] # Absent
  <2> SUFFICES ASSUME req'[r].op \in {"register", "login"},
                      answer'[r] \in {"created", "ok"}
               PROVE  tokens'[r] # Absent
    BY DEF Handed
  <2>1. CASE answer'[r] = answer[r]
    <3>1. pc[r] = "done"
      BY <2>1 DEF IInv, Typing, Shape
    <3>2. Handed(r)
      BY <2>1, <3>1 DEF RequestStep, Handed
    <3>3. QED
      BY <3>2 DEF TokenStep, IInv, Rows, TokenRows
  <2>2. CASE answer'[r] # answer[r]
    <3>1. \/ pc[r] \in {"announce", "handle"}
          \/ pc[r] = "loadUser" /\ req[r].op = "command"
      BY <2>2 DEF FlowStep
    <3>2. req'[r].op = req[r].op
      BY <3>1 DEF RequestStep
    <3>3. pc[r] # "handle"
      BY <3>2 DEF IInv, Typing, Shape
    <3>4. pc[r] = "announce"
      BY <3>1, <3>2, <3>3
    <3>5. QED
      BY <3>4 DEF TokenStep, IInv, Rows, TokenRows
  <2>3. QED
    BY <2>1, <2>2
<1>5. QED
  BY <1>2, <1>3, <1>4

LEMMA EarnedNext ==
  ASSUME IInv, Typing', UserStep, TokenStep, RequestStep, FlowStep
  PROVE  Earned'
<1> USE DEF IInv, Typing, TypeOK
<1>1. ASSUME NEW t \in Ids, TokenExists(t)' PROVE UserExists(tokens[t].user)'
  <2>1. CASE tokens[t] # Absent
    <3>1. TokenExists(t) /\ tokens'[t].user = tokens[t].user
      BY <1>1, <2>1 DEF TokenStep
    <3>2. tokens[t].user \in Ids /\ UserExists(tokens[t].user)
      BY <3>1 DEF Earned, TokenExists, TokenRow
    <3>3. users[tokens[t].user] # Absent
      BY <3>2, AuthAssumption DEF UserExists
    <3>4. ~RemoveUser(tokens[t].user)
      BY <1>1, <3>1, AuthAssumption DEF RemoveUser, TokenExists
    <3>5. QED
      BY <3>1, <3>2, <3>3, <3>4 DEF UserStep, UserExists
  <2>2. CASE tokens[t] = Absent
    <3>1. t \in Requests /\ InsertToken(t) /\ UserExists(req[t].user)
      BY <1>1, <2>2, AuthAssumption DEF TokenStep, TokenExists
    <3>2. tokens'[t].user = req[t].user /\ users' = users
      BY <3>1, InsertTokenStores DEF InsertToken
    <3>3. QED
      BY <3>1, <3>2 DEF UserExists
  <2>3. QED
    BY <2>1, <2>2
<1>2. ASSUME NEW r \in Requests, pc'[r] = "insertToken"
      PROVE  users'[req'[r].user] \in
               {Gone, [email |-> req'[r].email,
                       digest |-> Digest[req'[r].password]]}
  <2>1. CASE pc[r] = "insertToken" /\ req'[r] = req[r]
    <3>1. /\ users[req[r].user] \in
               {Gone, [email |-> req[r].email, digest |-> Digest[req[r].password]]}
          /\ req[r].email \in Emails /\ req[r].password \in Passwords
          /\ req[r].user \in Ids
      BY <2>1 DEF Earned, Shape, RequestData
    <3>2. [email |-> req[r].email, digest |-> Digest[req[r].password]] \in UserRow
      BY <3>1 DEF UserRow, Digests
    <3>3. users[req[r].user] # Absent
      BY <3>1, <3>2, AuthAssumption
    <3>4. users'[req[r].user] \in {users[req[r].user], Gone}
      BY <3>1, <3>3 DEF UserStep, RemoveUser
    <3>5. QED
      BY <2>1, <3>1, <3>4
  <2>2. CASE pc[r] = "loadUser" /\ UserExists(r) /\ UNCHANGED <<users, req>>
    <3>1. req[r].op = "register" /\ req[r].user = r
      BY <1>2, <2>2 DEF Shape
    <3>2. users[r] = [email |-> req[r].email, digest |-> Digest[req[r].password]]
      BY <2>2, <3>1 DEF Rows, UserRows, StoredDigest
    <3>3. QED
      BY <2>2, <3>1, <3>2
  <2>3. CASE StartLogin(r)
    <3>1. PICK e \in Emails, p \in Passwords, i \in Ids :
            /\ UserExists(i) /\ users[i].email = e /\ Verified(i, p)
            /\ Ask(r, "login", e, p, i)
      BY <1>2, <2>3 DEF StartLogin, Answer, Goto
    <3>2. /\ req'[r].user = i /\ req'[r].email = e /\ req'[r].password = p
          /\ users' = users
      BY <2>3, <3>1, AskType DEF StartLogin
    <3>3. users[i] = [email |-> e, digest |-> Digest[p]]
      BY <3>1 DEF UserExists, Verified, UserRow
    <3>4. QED
      BY <3>2, <3>3
  <2>4. QED
    BY <1>2, <2>1, <2>2, <2>3 DEF FlowStep
<1>3. ASSUME NEW t \in Requests, TokenExists(t)'
      PROVE  /\ req'[t].op \in {"register", "login"}
             /\ users'[tokens'[t].user]
                  = [email |-> req'[t].email, digest |-> Digest[req'[t].password]]
  <2>1. t \in Ids /\ UserExists(tokens[t].user)'
    BY <1>1, <1>3 DEF Ids
  <2>2. CASE tokens[t] # Absent
    <3>1. TokenExists(t) /\ tokens'[t].user = tokens[t].user
      BY <1>3, <2>1, <2>2 DEF TokenStep
    <3>2. /\ req'[t].op = req[t].op /\ req'[t].email = req[t].email
          /\ req'[t].password = req[t].password
      BY <2>2 DEF RequestStep, Rows, TokenRows
    <3>3. tokens[t].user \in Ids /\ UserExists(tokens[t].user)
      BY <2>1, <3>1 DEF Earned, TokenExists, TokenRow
    <3>4. users'[tokens[t].user] = users[tokens[t].user]
      BY <2>1, <3>1, <3>3, AuthAssumption DEF UserStep, RemoveUser, UserExists
    <3>5. QED
      BY <3>1, <3>2, <3>4 DEF Earned, TokensWereEarned
  <2>3. CASE tokens[t] = Absent
    <3>1. InsertToken(t) /\ UserExists(req[t].user)
      BY <1>3, <2>1, <2>3, AuthAssumption DEF TokenStep, TokenExists
    <3>2. /\ tokens'[t].user = req[t].user /\ users' = users /\ req' = req
          /\ pc[t] = "insertToken"
      BY <3>1, InsertTokenStores DEF InsertToken, Goto
    <3>3. QED
      BY <3>1, <3>2, AuthAssumption DEF Earned, Shape, UserExists
  <2>4. QED
    BY <2>2, <2>3
<1>4. QED
  BY <1>1, <1>2, <1>3 DEF Earned, TokensWereEarned, Ids

LEMMA EmailNext ==
  ASSUME IInv, Typing', UserStep
  PROVE  EmailNamesOneUser'
<1> SUFFICES ASSUME NEW i \in Ids, NEW j \in Ids,
                    UserExists(i)', UserExists(j)',
                    users'[i].email = users'[j].email
             PROVE  i = j
  BY DEF EmailNamesOneUser
<1> USE DEF IInv, Typing, TypeOK
<1>1. ASSUME NEW k \in Ids, users[k] = Absent, UserExists(k)'
      PROVE  /\ k \in Requests
             /\ users'[k].email = req[k].email
             /\ ~EmailTaken(req[k].email)
             /\ \A l \in Ids \ {k} : users'[l] = users[l]
  <2>1. k \in Requests /\ InsertUser(k) /\ ~EmailTaken(req[k].email)
    BY <1>1, AuthAssumption DEF UserStep, UserExists
  <2>2. QED
    BY <2>1 DEF InsertUser
<1>2. ASSUME NEW k \in Ids, users[k] # Absent, UserExists(k)'
      PROVE  UserExists(k) /\ users'[k] = users[k]
  BY <1>2, AuthAssumption DEF UserStep, RemoveUser, UserExists
<1>3. CASE users[i] = Absent
  BY <1>1, <1>2, <1>3 DEF EmailTaken, UserExists
<1>4. CASE users[j] = Absent
  BY <1>1, <1>2, <1>4 DEF EmailTaken, UserExists
<1>5. CASE users[i] # Absent /\ users[j] # Absent
  BY <1>2, <1>5 DEF EmailNamesOneUser
<1>6. QED
  BY <1>3, <1>4, <1>5

LEMMA AnswersNext ==
  ASSUME IInv, Typing', UserStep, TokenStep, RequestStep, FlowStep
  PROVE  AccountAnswersAreTrue'
<1> SUFFICES ASSUME NEW r \in Requests
             PROVE  /\ answer'[r] = "created" =>
                         /\ users'[r] # Absent
                         /\ req'[r].op = "register" =>
                              tokens'[r] # Absent /\ r \in announced'
                    /\ answer'[r] = "conflict" =>
                         users'[r] = Absent /\ tokens'[r] = Absent
  BY DEF AccountAnswersAreTrue
<1> USE DEF IInv, Typing, TypeOK
<1> r \in Ids
  BY DEF Ids
<1>1. /\ users[r] # Absent => users'[r] # Absent
      /\ tokens[r] # Absent => tokens'[r] # Absent
      /\ pc[r] # "insertUser" /\ users[r] = Absent => users'[r] = Absent
      /\ pc[r] # "insertToken" /\ tokens[r] = Absent => tokens'[r] = Absent
  BY AuthAssumption DEF UserStep, TokenStep, RemoveUser, InsertUser, InsertToken,
     Goto, Answer
<1>2. CASE answer'[r] = answer[r] /\ answer[r] \in {"created", "conflict"}
  <2>1. pc[r] = "done"
    BY <1>2 DEF Shape
  <2>2. req'[r].op = req[r].op /\ announced \subseteq announced'
    BY <2>1 DEF RequestStep, FlowStep
  <2>3. QED
    BY <1>1, <1>2, <2>1, <2>2 DEF AccountAnswersAreTrue
<1>3. CASE answer'[r] # answer[r] /\ answer'[r] = "created"
  <2>1. \/ /\ pc[r] = "announce" /\ req[r].op = "register"
           /\ r \in announced'
        \/ pc[r] = "loadUser" /\ req[r].op = "command"
    BY <1>3 DEF FlowStep
  <2>2. req'[r].op = req[r].op
    BY <2>1 DEF RequestStep
  <2>3. QED
    BY <1>1, <1>3, <2>1, <2>2 DEF Rows, UserRows, TokenRows
<1>4. CASE answer'[r] # answer[r] /\ answer'[r] = "conflict"
  <2>1. pc[r] \in {"idle", "insertUser"} /\ UNCHANGED <<users, tokens>>
    BY <1>4 DEF FlowStep
  <2>2. QED
    BY <1>4, <2>1 DEF Rows, UserRows, TokenRows
<1>5. QED
  BY <1>2, <1>3, <1>4

LEMMA BearersNext ==
  ASSUME IInv, Typing', TokenStep, RequestStep, FlowStep
  PROVE  Bearers'
<1> USE DEF IInv, Typing, TypeOK
<1>1. ASSUME NEW t \in Ids \cup {NoToken}, t \in Ids => tokens[t] # Absent,
             Dead(t)
      PROVE  Dead(t)'
  <2>1. CASE t = NoToken
    BY <2>1 DEF Dead, TokenExists
  <2>2. CASE t \in Ids
    BY <1>1, <2>2 DEF TokenStep
  <2>3. QED
    BY <2>1, <2>2
<1>2. ASSUME NEW r \in Requests, Arrive(r)
      PROVE  /\ req'[r].token \in Ids => tokens'[req'[r].token] # Absent
             /\ req'[r].dead => Dead(req[r].token)'
             /\ pc[r] = "idle" /\ pc'[r] = "findToken"
             /\ UNCHANGED answer
  <2>1. PICK op \in {"visit", "logout"},
             t \in {i \in Ids : Handed(i)} \cup {NoToken} :
          req' = [req EXCEPT ![r] = [op |-> op, email |-> NoEmail,
                                     password |-> NoPassword, user |-> r,
                                     token |-> t, dead |-> Dead(t)]]
    BY <1>2 DEF Arrive
  <2>2. req'[r].token = t /\ req'[r].dead = Dead(t)
    BY <2>1
  <2>3. t \in Ids => tokens[t] # Absent
    <3>1. \A i \in Ids : Handed(i) => tokens[i] # Absent
      BY DEF Rows, TokenRows, Ids
    <3>2. QED
      BY <3>1, AuthAssumption
  <2>4. UNCHANGED <<tokens, expired>>
    BY <1>2 DEF Arrive
  <2>5. Dead(req[r].token)' = Dead(t)
    BY <2>2, <2>4 DEF Dead, TokenExists
  <2>6. pc[r] = "idle" /\ pc'[r] = "findToken" /\ UNCHANGED answer
    BY <1>2 DEF Arrive, Goto
  <2>7. QED
    BY <2>2, <2>3, <2>4, <2>5, <2>6
<1>3. ASSUME NEW r \in Requests
      PROVE  /\ req'[r].token \in Ids => tokens'[req'[r].token] # Absent
             /\ req'[r].dead => /\ pc'[r] \in {"findToken", "done"}
                                /\ Dead(req[r].token)'
  <2>1. req[r].token \in Ids \cup {NoToken}
    BY DEF RequestData
  <2>2. CASE Arrive(r)
    BY <1>2, <2>2
  <2>3. CASE pc[r] = "idle" /\ req'[r].token = NoToken /\ ~req'[r].dead
    BY <2>3, AuthAssumption
  <2>4. CASE pc[r] = "idle" /\ req'[r] = req[r]
    <3>1. ~req[r].dead
      BY <2>4 DEF Bearers, Carried
    <3>2. QED
      BY <2>4, <3>1 DEF Bearers, Carried, TokenStep
  <2>5. CASE pc[r] # "idle"
    <3>1. req'[r].token = req[r].token /\ req'[r].dead = req[r].dead
      BY <2>5 DEF RequestStep
    <3>2. req'[r].token \in Ids => tokens'[req'[r].token] # Absent
      BY <3>1 DEF Bearers, Carried, TokenStep
    <3>3. ASSUME req[r].dead
          PROVE  pc'[r] \in {"findToken", "done"} /\ Dead(req[r].token)'
      <4>1. pc[r] \in {"findToken", "done"} /\ Dead(req[r].token)
        BY <3>3 DEF Bearers, Carried
      <4>2. ~Usable(req[r].token)
        BY <4>1 DEF Usable, Dead
      <4>3. ~StartLogin(r)
        BY <4>1 DEF StartLogin, Goto, Answer
      <4>4. pc'[r] \in {"findToken", "done"}
        BY <4>1, <4>2, <4>3 DEF FlowStep, Steps
      <4>5. Dead(req[r].token)'
        <5>1. req[r].token \in Ids => tokens[req[r].token] # Absent
          BY DEF Bearers, Carried
        <5>2. CASE req[r].token = NoToken
          BY <2>1, <3>1, <5>2 DEF Dead, TokenExists
        <5>3. CASE req[r].token \in Ids
          <6>1. Dead(req[r].token) /\ tokens[req[r].token] # Absent
            BY <4>1, <5>1, <5>3
          <6>2. \A t \in Ids : tokens[t] # Absent /\ Dead(t) => Dead(t)'
            BY DEF TokenStep
          <6>3. QED
            BY <3>1, <5>3, <6>1, <6>2 DEF Dead, TokenExists
        <5>4. QED
          BY <2>1, <5>2, <5>3
      <4>6. QED
        BY <4>4, <4>5
    <3>4. QED
      BY <3>1, <3>2, <3>3
  <2>6. QED
    BY <2>2, <2>3, <2>4, <2>5 DEF FlowStep
<1>4. ASSUME NEW r \in Requests, req'[r].dead
      PROVE  answer'[r] \notin {"ok", "noContent"}
  <2>1. CASE pc[r] = "idle"
    <3>1. answer[r] = "none"
      BY <2>1 DEF Shape
    <3>2. ~Logout(r)
      BY <2>1 DEF Logout, Answer, Goto
    <3>3. QED
      BY <2>1, <3>1, <3>2 DEF FlowStep
  <2>2. CASE pc[r] # "idle"
    <3>1. req[r].dead
      BY <1>4, <2>2 DEF RequestStep
    <3>2. /\ pc[r] \in {"findToken", "done"}
          /\ answer[r] \notin {"ok", "noContent"}
      BY <3>1 DEF Bearers, Carried, DeadTokenOpensNothing
    <3>3. ~Logout(r)
      BY <3>2 DEF Logout, Answer, Goto
    <3>4. QED
      BY <3>2, <3>3 DEF FlowStep
  <2>3. QED
    BY <2>1, <2>2
<1>5. ASSUME NEW r \in Requests, answer'[r] = "noContent"
      PROVE  Dead(req[r].token)'
  <2>1. CASE answer[r] = "noContent"
    <3>1. pc[r] = "done" /\ Dead(req[r].token)
      BY <2>1 DEF Shape, Bearers, LogoutIsFinal
    <3>2. req'[r].token = req[r].token
      BY <3>1 DEF RequestStep
    <3>3. req[r].token \in Ids \cup {NoToken}
      BY DEF RequestData
    <3>4. CASE req[r].token = NoToken
      BY <3>2, <3>4 DEF Dead, TokenExists
    <3>5. CASE req[r].token \in Ids
      <4>1. tokens[req[r].token] # Absent
        BY <3>5 DEF Bearers, Carried
      <4>2. \A t \in Ids : tokens[t] # Absent /\ Dead(t) => Dead(t)'
        BY DEF TokenStep
      <4>3. QED
        BY <3>1, <3>2, <3>5, <4>1, <4>2 DEF Dead, TokenExists
    <3>6. QED
      BY <3>3, <3>4, <3>5
  <2>2. CASE answer[r] # "noContent"
    <3>1. Logout(r)
      BY <1>5, <2>2 DEF FlowStep
    <3>2. req[r].token \in Ids /\ req' = req
      BY <3>1 DEF Logout, Answer, Goto, Shape
    <3>3. tokens'[req[r].token] \in TokenRow => tokens'[req[r].token].revoked
      BY <3>1, <3>2, RevokedUpdates DEF Logout
    <3>4. QED
      BY <3>2, <3>3 DEF Dead, TokenExists
  <2>3. QED
    BY <2>1, <2>2
<1>6. QED
  BY <1>3, <1>4, <1>5 DEF Bearers, Carried, LogoutIsFinal, DeadTokenOpensNothing

LEMMA InvNext == IInv /\ [Next]_vars => IInv'
<1> SUFFICES ASSUME IInv, [Next]_vars PROVE IInv'
  OBVIOUS
<1>1. Typing'
  BY TypingNext DEF IInv
<1>2. UserStep /\ TokenStep /\ RequestStep /\ FlowStep
  BY UserSteps, TokenSteps, RequestSteps, FlowSteps DEF IInv, Rows
<1>3. Rows'
  BY <1>1, <1>2, UserRowsNext, TokenRowsNext DEF Rows
<1>4. QED
  BY <1>1, <1>2, <1>3, EarnedNext, EmailNext, AnswersNext, BearersNext DEF IInv

LEMMA Invariance == Spec => []IInv
BY InvInit, InvNext, PTL DEF Spec

-----------------------------------------------------------------------------
(* Safety.                                                                 *)

(* However registrations, logins and deletions of users interleave, every  *)
(* token belongs to an existing account whose credentials were given.      *)
THEOREM TokensAlwaysEarned == Spec => []TokensWereEarned
<1>1. IInv => TokensWereEarned
  BY DEF IInv, Earned
<1>2. QED
  BY Invariance, <1>1, PTL

(* Register requests and commands that race for an address never both      *)
(* store it.                                                               *)
THEOREM EmailAlwaysNamesOneUser == Spec => []EmailNamesOneUser
<1>1. IInv => EmailNamesOneUser
  BY DEF IInv
<1>2. QED
  BY Invariance, <1>1, PTL

(* Whoever is told that an account was created has it, and whoever is told *)
(* of a conflict left nothing behind.                                      *)
THEOREM AccountAnswersAlwaysTrue == Spec => []AccountAnswersAreTrue
<1>1. IInv => AccountAnswersAreTrue
  BY DEF IInv
<1>2. QED
  BY Invariance, <1>1, PTL

(* No request that read a token before its logout makes it usable again.   *)
THEOREM LogoutAlwaysFinal == Spec => []LogoutIsFinal
<1>1. IInv => LogoutIsFinal
  BY DEF IInv, Bearers
<1>2. QED
  BY Invariance, <1>1, PTL

(* A request that arrives with a dead token gets nothing.                  *)
THEOREM DeadTokenAlwaysOpensNothing == Spec => []DeadTokenOpensNothing
<1>1. IInv => DeadTokenOpensNothing
  BY DEF IInv, Bearers
<1>2. QED
  BY Invariance, <1>1, PTL

-----------------------------------------------------------------------------
(* Refinement.                                                             *)

LEMMA SessionInitial == Init => SessionSpec!Init
<1> SUFFICES ASSUME Init PROVE SessionSpec!Init
  OBVIOUS
<1>1. \A t \in Ids : tokens[t] # Absent => tokens[t] \in TokenRow /\ t \in Seeded
  <2>1. ASSUME NEW t \in Ids, tokens[t] # Absent PROVE t \in Seeded
    BY <2>1 DEF Init
  <2>2. ASSUME NEW t \in Seeded PROVE tokens[t] \in TokenRow
    <3>1. tokens[t] = [user |-> t, revoked |-> FALSE, used |-> FALSE]
      BY DEF Init, Ids
    <3>2. PICK row \in TokenRow :
            row = [user |-> t, revoked |-> FALSE, used |-> FALSE]
      BY Zenon DEF TokenRow, Ids
    <3>3. QED
      BY <3>1, <3>2
  <2>3. QED
    BY <2>1, <2>2
<1>2. \A t \in Ids : tokens[t] # Absent => ~Dead(t)
  <2>1. ASSUME NEW t \in Seeded PROVE ~tokens[t].revoked /\ t \notin expired
    BY DEF Init, Ids
  <2>2. QED
    BY <1>1, <2>1, AuthAssumption DEF Dead, TokenExists
<1>3. Session \in [Ids -> {"unissued", "open"}]
  BY <1>2 DEF Session
<1>4. Holder \in [Ids -> Ids \cup {Absent}]
  BY <1>1 DEF Holder
<1>5. \A t \in Ids : Holder[t] = Absent <=> Session[t] = "unissued"
  BY <1>1, <1>2, AuthAssumption DEF Holder, Session
<1>6. admitted = {}
  BY DEF Init
<1>7. QED
  BY <1>3, <1>4, <1>5, <1>6 DEF SessionSpec!Init

(* Only the middleware admits a request, at the read of a usable token.    *)
LEMMA AdmissionStep ==
  ASSUME [Next]_vars, admitted' # admitted
  PROVE  \E r \in Requests : FindToken(r) /\ Usable(req[r].token)
BY DEF Next, Account, Protected, Fail, StartRegister, StartCommand, InsertUser,
   LoadUser, StartLogin, InsertToken, LoadToken, Announce, AnnounceFails,
   Arrive, FindToken, FindUser, MarkUsed, Visit, Logout, StatementFails,
   LogoutUnacknowledged, CommandKilled, Lose, Expire, RemoveUser, ServerCrash,
   vars

(* A step issues one token, admits one request, or closes some tokens,     *)
(* possibly none.                                                          *)
LEMMA SessionStep ==
  IInv /\ [Next]_vars => [SessionSpec!Next]_<<Session, Holder, admitted>>
<1> SUFFICES ASSUME IInv, [Next]_vars
             PROVE  [SessionSpec!Next]_<<Session, Holder, admitted>>
  OBVIOUS
<1> USE DEF IInv, Typing, TypeOK
<1>1. TokenStep /\ RequestStep
  BY TokenSteps, RequestSteps DEF Rows
<1>2. CASE admitted' # admitted
  <2>1. PICK r \in Requests : FindToken(r) /\ Usable(req[r].token)
    BY <1>2, AdmissionStep
  <2> DEFINE t == req[r].token
  <2>2. /\ UNCHANGED <<tokens, expired>>
        /\ admitted' = admitted \cup {<<r, t>>}
        /\ pc[r] = "findToken"
    BY <2>1 DEF FindToken, Goto, Answer
  <2>3. \A q \in Requests \ {r} : req'[q] = req[q]
    <3>1. req' = [req EXCEPT ![r].user = tokens[t].user]
      BY <2>1 DEF FindToken
    <3>2. QED
      BY <3>1
  <2>4. t \in Ids /\ tokens[t] # Absent /\ ~Dead(t)
    BY <2>1, AuthAssumption DEF Usable, Dead, TokenExists, RequestData
  <2>5. Session[t] = "open"
    BY <2>4 DEF Session
  <2>6. Session' = Session
    BY <2>2 DEF Session, Dead, TokenExists
  <2>7. tokens[r] = Absent
    BY <2>2 DEF Shape, Rows, TokenRows
  <2>8. Holder' = Holder
    BY <2>2, <2>3, <2>7, AuthAssumption DEF Holder, Ids
  <2>9. SessionSpec!Admit(r, t)
    BY <2>2, <2>5, <2>6, <2>8 DEF SessionSpec!Admit
  <2>10. QED
    BY <2>4, <2>9 DEF SessionSpec!Next
<1>3. CASE admitted' = admitted
           /\ \E r \in Requests : tokens[r] = Absent /\ tokens'[r] # Absent
  <2>1. PICK r \in Requests : tokens[r] = Absent /\ tokens'[r] # Absent
    BY <1>3
  <2>2. r \in Ids /\ r \notin Seeded
    BY AuthAssumption DEF Ids
  <2>3. InsertToken(r) /\ UserExists(req[r].user)
    BY <1>1, <2>1, <2>2 DEF TokenStep
  <2>4. /\ tokens'[r] \in TokenRow /\ ~tokens'[r].revoked
        /\ \A t \in Ids \ {r} : tokens'[t] = tokens[t]
        /\ UNCHANGED <<expired, req>>
    BY <2>3, InsertTokenStores DEF InsertToken
  <2>5. req[r].user \in Ids
    BY DEF RequestData
  <2>6. Session[r] = "unissued"
    BY <2>1, <2>2 DEF Session
  <2>7. Session' = [Session EXCEPT ![r] = "open"]
    <3>1. Session'[r] = "open"
      <4>1. tokens'[r] # Absent /\ r # NoToken /\ r \notin expired'
        BY <2>2, <2>4, AuthAssumption
      <4>2. ~Dead(r)'
        BY <2>4, <4>1 DEF Dead, TokenExists
      <4>3. QED
        BY <2>2, <4>1, <4>2 DEF Session
    <3>2. \A t \in Ids \ {r} : Session'[t] = Session[t]
      BY <2>4 DEF Session, Dead, TokenExists
    <3>3. QED
      BY <2>2, <3>1, <3>2 DEF Session
  <2>8. Holder' = [Holder EXCEPT ![r] = req[r].user]
    BY <2>1, <2>2, <2>4 DEF Holder
  <2>9. SessionSpec!Issue(r, req[r].user)
    BY <1>3, <2>6, <2>7, <2>8 DEF SessionSpec!Issue
  <2>10. QED
    BY <2>2, <2>5, <2>9 DEF SessionSpec!Next
<1>4. CASE admitted' = admitted
           /\ \A r \in Requests : tokens[r] = Absent => tokens'[r] = Absent
  <2> DEFINE S == {t \in Ids : Session[t] = "open" /\ Session'[t] = "closed"}
  <2>1. \A t \in Ids : tokens[t] = Absent <=> tokens'[t] = Absent
    BY <1>1, <1>4 DEF TokenStep
  <2>2. \A t \in Ids : tokens[t] # Absent /\ Dead(t) => Dead(t)'
    BY <1>1 DEF TokenStep
  <2>3. Session' = [t \in Ids |-> IF t \in S THEN "closed" ELSE Session[t]]
    BY <2>1, <2>2 DEF Session
  <2>4. \A r \in Requests : tokens[r] # Absent => req'[r].user = req[r].user
    BY <1>1 DEF RequestStep, Shape, Rows, TokenRows
  <2>5. Holder' = Holder
    BY <2>1, <2>4 DEF Holder, Ids
  <2>6. SessionSpec!Close(S)
    BY <1>4, <2>3, <2>5 DEF SessionSpec!Close
  <2>7. QED
    BY <2>6 DEF SessionSpec!Next
<1>5. QED
  BY <1>2, <1>3, <1>4

(* The statements of accounts, tokens and middleware implement sessions: a *)
(* token is issued once, to one user, and opens nothing once it is closed. *)
THEOREM AuthImplementsSessions == Spec => ImplementsSessions
<1>1. IInv /\ [Next]_vars => [SessionSpec!Next]_(SessionSpec!sessionVars)
  BY SessionStep DEF SessionSpec!sessionVars
<1>2. QED
  BY Invariance, SessionInitial, <1>1, PTL
     DEF Spec, ImplementsSessions, SessionSpec!Spec

=============================================================================
