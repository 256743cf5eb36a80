-------------------------------- MODULE Auth --------------------------------
(***************************************************************************)
(* Accounts and bearer tokens at the level of SQL statements.  Register,   *)
(* login and logout are HTTP requests of the API; "command" is one run of  *)
(* "artisan user create", in a process of its own; "visit" is a request to *)
(* any other protected route.  None of them opens a transaction: each      *)
(* statement commits alone, and any other request may run in between.      *)
(*                                                                         *)
(*   register  INSERT user; SELECT it; INSERT token; SELECT it; dispatch   *)
(*   login     SELECT user by email; INSERT token; SELECT it; dispatch     *)
(*   command   SELECT user by email; INSERT user; SELECT it                *)
(*   logout,   SELECT token by hash; SELECT its user; UPDATE last_used_at; *)
(*   visit     logout only: UPDATE revoked_at                              *)
(*                                                                         *)
(* AUTO_INCREMENT ids and random tokens are never given twice, so a user   *)
(* and a token are named after the request that inserted them.             *)
(***************************************************************************)
EXTENDS Naturals

CONSTANTS
  Requests,       (* HTTP requests and command runs, each served once      *)
  Seeded,         (* users with one token each, stored by a seeder         *)
  Emails, NoEmail,
  Passwords,      (* what may be typed as a password                       *)
  NoPassword,
  Trim,           (* Trim[p] is p without leading and trailing blanks      *)
  Digest,         (* what a hash tells of a password: its first 72 bytes   *)
  Absent,         (* no row was ever inserted                              *)
  Gone,           (* the row was deleted                                   *)
  NoToken,        (* a bearer value that is no token, or no header         *)
  Failures        (* the failures that happen: subset of FailureKinds      *)

FailureKinds == {"database", "dispatch", "crash", "userRemoved"}

Ids == Requests \cup Seeded

Digests == {Digest[p] : p \in Passwords}

UserRow == [email : Emails, digest : Digests]

TokenRow == [user : Ids, revoked : BOOLEAN, used : BOOLEAN]

ASSUME AuthAssumption ==
  /\ Requests \cap Seeded = {}
  /\ Trim \in [Passwords -> Passwords]
  /\ DOMAIN Digest = Passwords
  /\ NoEmail \notin Emails
  /\ NoPassword \notin Passwords
  /\ Absent # Gone
  /\ {Absent, Gone} \cap (UserRow \cup TokenRow) = {}
  /\ {Absent, NoToken} \cap Ids = {}
  /\ Failures \subseteq FailureKinds

VARIABLES
  users,      (* table users                                               *)
  tokens,     (* table personal_access_tokens                              *)
  expired,    (* tokens whose expires_at has passed                        *)
  pc,         (* the next step of each request                             *)
  req,        (* what each request asked for and has read                  *)
  answer,     (* what each client received                                 *)
  admitted,   (* history: <<request, token>> that passed the token check   *)
  announced   (* history: requests whose event was dispatched              *)

vars == <<users, tokens, expired, pc, req, answer, admitted, announced>>

Steps == {"idle", "insertUser", "loadUser", "insertToken", "loadToken",
          "announce", "findToken", "findUser", "markUsed", "handle", "done"}

Answers == {"none", "ok", "created", "noContent", "unauthorized", "conflict",
            "error", "lost"}

(* "user" is the account the request works on; "dead" is history: was the  *)
(* token it carries revoked, expired or deleted when the request arrived?  *)
RequestData ==
  [op : {"none", "register", "login", "command", "logout", "visit"},
   email : Emails \cup {NoEmail}, password : Passwords \cup {NoPassword},
   user : Ids, token : Ids \cup {NoToken}, dead : BOOLEAN]

-----------------------------------------------------------------------------

UserExists(i) == users[i] \in UserRow

TokenExists(t) == t # NoToken /\ tokens[t] \in TokenRow

EmailTaken(e) == \E i \in Ids : UserExists(i) /\ users[i].email = e

(* Variant: hashPassword is forgotten.                                     *)
StoredPlain(r) == req[r].password

(* The digest User.create stores: the command trims what it was given.     *)
StoredDigest(r) ==
  Digest[IF req[r].op = "command" THEN Trim[req[r].password]
                                  ELSE req[r].password]

(* verifyPassword, against the row that was read.                          *)
Verified(i, p) == users[i].digest = Digest[p]

(* Variant: a database value for expires_at is not parsed, and no          *)
(* comparison with the clock is ever true.                                 *)
UsableAfterExpiry(t) == TokenExists(t) /\ ~tokens[t].revoked

(* The middleware's three checks on the row it read.                       *)
Usable(t) == TokenExists(t) /\ ~tokens[t].revoked /\ t \notin expired

(* What the clients may rely on: a token that no longer opens anything.    *)
Dead(t) == TokenExists(t) => tokens[t].revoked \/ t \in expired

(* A client has a token from an answer, or from the seeder.                *)
Handed(t) ==
  \/ t \in Seeded
  \/ req[t].op \in {"register", "login"} /\ answer[t] \in {"created", "ok"}

Goto(r, from, to) ==
  /\ pc[r] = from
  /\ pc' = [pc EXCEPT ![r] = to]

Answer(r, from, a) ==
  /\ Goto(r, from, "done")
  /\ answer' = [answer EXCEPT ![r] = a]

Init ==
  /\ \E e \in [Seeded -> Emails], p \in [Seeded -> Passwords] :
       /\ \A i, j \in Seeded : e[i] = e[j] => i = j
       /\ users = [i \in Ids |-> IF i \in Seeded
                                 THEN [email |-> e[i], digest |-> Digest[p[i]]]
                                 ELSE Absent]
  /\ tokens = [t \in Ids |-> IF t \in Seeded
                             THEN [user |-> t, revoked |-> FALSE, used |-> FALSE]
                             ELSE Absent]
  /\ expired = {}
  /\ pc = [r \in Requests |-> "idle"]
  /\ req = [r \in Requests |->
              [op |-> "none", email |-> NoEmail, password |-> NoPassword,
               user |-> r, token |-> NoToken, dead |-> FALSE]]
  /\ answer = [r \in Requests |-> "none"]
  /\ admitted = {}
  /\ announced = {}

-----------------------------------------------------------------------------
(* Accounts.                                                               *)

Ask(r, op, e, p, i) ==
  req' = [req EXCEPT ![r] = [op |-> op, email |-> e, password |-> p,
                             user |-> i, token |-> NoToken, dead |-> FALSE]]

(* POST /auth/register *)
StartRegister(r) ==
  /\ Goto(r, "idle", "insertUser")
  /\ \E e \in Emails, p \in Passwords : Ask(r, "register", e, p, r)
  /\ UNCHANGED <<users, tokens, expired, answer, admitted, announced>>

(* artisan user create: look for the address before inserting it.          *)
StartCommand(r) ==
  /\ \E e \in Emails, p \in Passwords :
       /\ Ask(r, "command", e, p, r)
       /\ \/ /\ ~EmailTaken(e)
             /\ Goto(r, "idle", "insertUser")
             /\ UNCHANGED answer
          \/ /\ EmailTaken(e)
             /\ Answer(r, "idle", "conflict")
  /\ UNCHANGED <<users, tokens, expired, admitted, announced>>

(* Variant: users.email has no unique index.                               *)
InsertUserNotUnique(r) ==
  /\ Goto(r, "insertUser", "loadUser")
  /\ users' = [users EXCEPT ![r] = [email |-> req[r].email,
                                    digest |-> StoredDigest(r)]]
  /\ UNCHANGED <<tokens, expired, req, answer, admitted, announced>>

(* INSERT INTO users; a duplicate address is a conflict, however late.     *)
InsertUser(r) ==
  /\ \/ /\ ~EmailTaken(req[r].email)
        /\ Goto(r, "insertUser", "loadUser")
        /\ users' = [users EXCEPT ![r] = [email |-> req[r].email,
                                          digest |-> StoredDigest(r)]]
        /\ UNCHANGED answer
     \/ /\ EmailTaken(req[r].email)
        /\ Answer(r, "insertUser", "conflict")
        /\ UNCHANGED users
  /\ UNCHANGED <<tokens, expired, req, admitted, announced>>

(* User.create reads its row back; the command is then finished.           *)
LoadUser(r) ==
  /\ \/ /\ UserExists(r) /\ req[r].op = "register"
        /\ Goto(r, "loadUser", "insertToken")
        /\ UNCHANGED answer
     \/ /\ UserExists(r) /\ req[r].op = "command"
        /\ Answer(r, "loadUser", "created")
     \/ /\ ~UserExists(r)
        /\ Answer(r, "loadUser", "error")
  /\ UNCHANGED <<users, tokens, expired, req, admitted, announced>>

(* POST /auth/login: the password is verified against the row just read.   *)
StartLogin(r) ==
  /\ \E e \in Emails, p \in Passwords :
       \/ \E i \in Ids :
            /\ UserExists(i) /\ users[i].email = e /\ Verified(i, p)
            /\ Ask(r, "login", e, p, i)
            /\ Goto(r, "idle", "insertToken")
            /\ UNCHANGED answer
       \/ /\ \A i \in Ids :
               UserExists(i) /\ users[i].email = e => ~Verified(i, p)
          /\ Ask(r, "login", e, p, r)
          /\ Answer(r, "idle", "unauthorized")
  /\ UNCHANGED <<users, tokens, expired, admitted, announced>>

(* Variant: no foreign key from tokens to users.                           *)
InsertTokenUnchecked(r) ==
  /\ Goto(r, "insertToken", "loadToken")
  /\ tokens' = [tokens EXCEPT ![r] = [user |-> req[r].user, revoked |-> FALSE,
                                      used |-> FALSE]]
  /\ UNCHANGED <<users, expired, req, answer, admitted, announced>>

(* INSERT INTO personal_access_tokens; the user may be gone by now, and    *)
(* the foreign key refuses the row.                                        *)
InsertToken(r) ==
  /\ \/ /\ UserExists(req[r].user)
        /\ Goto(r, "insertToken", "loadToken")
        /\ tokens' = [tokens EXCEPT ![r] = [user |-> req[r].user,
                                            revoked |-> FALSE, used |-> FALSE]]
        /\ UNCHANGED answer
     \/ /\ ~UserExists(req[r].user)
        /\ Answer(r, "insertToken", "error")
        /\ UNCHANGED tokens
  /\ UNCHANGED <<users, expired, req, admitted, announced>>

LoadToken(r) ==
  /\ \/ /\ TokenExists(r)
        /\ Goto(r, "loadToken", "announce")
        /\ UNCHANGED answer
     \/ /\ ~TokenExists(r)
        /\ Answer(r, "loadToken", "error")
  /\ UNCHANGED <<users, tokens, expired, req, admitted, announced>>

(* Variant: the event is forgotten.                                        *)
AnswerUnannounced(r) ==
  /\ Answer(r, "announce", IF req[r].op = "register" THEN "created" ELSE "ok")
  /\ UNCHANGED <<users, tokens, expired, req, admitted, announced>>

(* UserRegistered or UserLoggedIn, then the answer with the plain token.   *)
Announce(r) ==
  /\ announced' = announced \cup {r}
  /\ Answer(r, "announce", IF req[r].op = "register" THEN "created" ELSE "ok")
  /\ UNCHANGED <<users, tokens, expired, req, admitted>>

(* A listener throws: the rows stay and the plain token is never told.     *)
AnnounceFails(r) ==
  /\ "dispatch" \in Failures
  /\ Answer(r, "announce", "error")
  /\ UNCHANGED <<users, tokens, expired, req, admitted, announced>>

-----------------------------------------------------------------------------
(* The auth middleware and the routes behind it.                           *)

(* Such a request arrives with a token a client was handed, or with none.  *)
Arrive(r) ==
  /\ Goto(r, "idle", "findToken")
  /\ \E op \in {"visit", "logout"},
        t \in {i \in Ids : Handed(i)} \cup {NoToken} :
       req' = [req EXCEPT ![r] = [op |-> op, email |-> NoEmail,
                                  password |-> NoPassword, user |-> r,
                                  token |-> t, dead |-> Dead(t)]]
  /\ UNCHANGED <<users, tokens, expired, answer, admitted, announced>>

(* Variant: a token that is not found counts as neither revoked nor        *)
(* expired.                                                                *)
FindTokenUnlessDead(r) ==
  LET t == req[r].token IN
  /\ \/ /\ Usable(t) \/ ~TokenExists(t)
        /\ Goto(r, "findToken", "findUser")
        /\ admitted' = admitted \cup {<<r, t>>}
        /\ UNCHANGED answer
     \/ /\ ~Usable(t) /\ TokenExists(t)
        /\ Answer(r, "findToken", "unauthorized")
        /\ UNCHANGED admitted
  /\ UNCHANGED <<users, tokens, expired, req, announced>>

FindToken(r) ==
  LET t == req[r].token IN
  /\ \/ /\ Usable(t)
        /\ Goto(r, "findToken", "findUser")
        /\ admitted' = admitted \cup {<<r, t>>}
        /\ req' = [req EXCEPT ![r].user = tokens[t].user]
        /\ UNCHANGED answer
     \/ /\ ~Usable(t)
        /\ Answer(r, "findToken", "unauthorized")
        /\ UNCHANGED <<req, admitted>>
  /\ UNCHANGED <<users, tokens, expired, announced>>

FindUser(r) ==
  /\ \/ /\ UserExists(req[r].user)
        /\ Goto(r, "findUser", "markUsed")
        /\ UNCHANGED answer
     \/ /\ ~UserExists(req[r].user)
        /\ Answer(r, "findUser", "unauthorized")
  /\ UNCHANGED <<users, tokens, expired, req, admitted, announced>>

(* Variant: the row is saved as the middleware read it.                    *)
MarkUsedSavesRow(r) ==
  LET t == req[r].token IN
  /\ Goto(r, "markUsed", "handle")
  /\ tokens' = IF TokenExists(t)
               THEN [tokens EXCEPT ![t].used = TRUE, ![t].revoked = FALSE]
               ELSE tokens
  /\ UNCHANGED <<users, expired, req, answer, admitted, announced>>

(* UPDATE last_used_at, of whatever the row is by now.                     *)
MarkUsed(r) ==
  LET t == req[r].token IN
  /\ Goto(r, "markUsed", "handle")
  /\ tokens' = IF TokenExists(t) THEN [tokens EXCEPT ![t].used = TRUE]
                                 ELSE tokens
  /\ UNCHANGED <<users, expired, req, answer, admitted, announced>>

Visit(r) ==
  /\ req[r].op = "visit"
  /\ Answer(r, "handle", "ok")
  /\ UNCHANGED <<users, tokens, expired, req, admitted, announced>>

(* UPDATE revoked_at; a row that is gone by now counts as revoked.         *)
Revoked(t) ==
  IF TokenExists(t) THEN [tokens EXCEPT ![t].revoked = TRUE] ELSE tokens

Logout(r) ==
  /\ req[r].op = "logout"
  /\ tokens' = Revoked(req[r].token)
  /\ Answer(r, "handle", "noContent")
  /\ UNCHANGED <<users, expired, req, admitted, announced>>

-----------------------------------------------------------------------------
(* The surroundings.                                                       *)

(* A seeder's token may carry an expires_at, and that moment passes.       *)
Expire(t) ==
  /\ t \notin expired
  /\ expired' = expired \cup {t}
  /\ UNCHANGED <<users, tokens, pc, req, answer, admitted, announced>>

(* A user's row is deleted, as the seeder does; his tokens go with it.     *)
RemoveUser(i) ==
  /\ "userRemoved" \in Failures
  /\ UserExists(i)
  /\ users' = [users EXCEPT ![i] = Gone]
  /\ tokens' = [t \in Ids |-> IF TokenExists(t) /\ tokens[t].user = i
                              THEN Gone ELSE tokens[t]]
  /\ UNCHANGED <<expired, pc, req, answer, admitted, announced>>

(* A statement fails; the ones before it stay committed.                   *)
StatementFails(r) ==
  /\ "database" \in Failures
  /\ pc[r] \notin {"idle", "announce", "done"}
  /\ Answer(r, pc[r], "error")
  /\ UNCHANGED <<users, tokens, expired, req, admitted, announced>>

(* The last statement of a logout is applied, but its client learns of a   *)
(* lost connection.  For any other statement this is the statement and     *)
(* then the next one failing.                                              *)
LogoutUnacknowledged(r) ==
  /\ "database" \in Failures
  /\ req[r].op = "logout"
  /\ tokens' = Revoked(req[r].token)
  /\ Answer(r, "handle", "error")
  /\ UNCHANGED <<users, expired, req, admitted, announced>>

(* The API process dies with the requests it serves, or a command alone.   *)
InFlight == {r \in Requests : pc[r] \notin {"idle", "done"}}

Lose(S) ==
  /\ "crash" \in Failures
  /\ S # {}
  /\ pc' = [r \in Requests |-> IF r \in S THEN "done" ELSE pc[r]]
  /\ answer' = [r \in Requests |-> IF r \in S THEN "lost" ELSE answer[r]]
  /\ UNCHANGED <<users, tokens, expired, req, admitted, announced>>

ServerCrash == Lose({r \in InFlight : req[r].op # "command"})

CommandKilled(r) == r \in InFlight /\ req[r].op = "command" /\ Lose({r})

Account(r) ==
  \/ StartRegister(r) \/ StartCommand(r) \/ InsertUser(r) \/ LoadUser(r)
  \/ StartLogin(r) \/ InsertToken(r) \/ LoadToken(r)
  \/ Announce(r) \/ AnnounceFails(r)

Protected(r) ==
  \/ Arrive(r) \/ FindToken(r) \/ FindUser(r) \/ MarkUsed(r)
  \/ Visit(r) \/ Logout(r)

Fail(r) == StatementFails(r) \/ LogoutUnacknowledged(r) \/ CommandKilled(r)

Next ==
  \/ \E r \in Requests : Account(r) \/ Protected(r) \/ Fail(r)
  \/ \E t \in Seeded : Expire(t)
  \/ \E i \in Ids : RemoveUser(i)
  \/ ServerCrash

Spec == Init /\ [][Next]_vars

-----------------------------------------------------------------------------
(* Properties.                                                             *)

(* Every variable has its type; in particular only tokens the system       *)
(* issued are let in.                                                      *)
TypeOK ==
  /\ users \in [Ids -> UserRow \cup {Absent, Gone}]
  /\ tokens \in [Ids -> TokenRow \cup {Absent, Gone}]
  /\ expired \subseteq Seeded
  /\ pc \in [Requests -> Steps]
  /\ req \in [Requests -> RequestData]
  /\ answer \in [Requests -> Answers]
  /\ admitted \subseteq Requests \X Ids
  /\ announced \subseteq Requests

(* Every token belongs to an account that exists, whose address and        *)
(* password the request that was issued the token had given, although the  *)
(* account was read, verified and used in separate statements.             *)
TokensWereEarned ==
  \A t \in Requests : TokenExists(t) =>
    LET i == tokens[t].user IN
    /\ UserExists(i)
    /\ req[t].op \in {"register", "login"}
    /\ users[i] = [email |-> req[t].email, digest |-> Digest[req[t].password]]

(* An address identifies one account: register requests and commands that  *)
(* race between the lookup and the INSERT never both succeed.              *)
EmailNamesOneUser ==
  \A i, j \in Ids :
    UserExists(i) /\ UserExists(j) /\ users[i].email = users[j].email => i = j

(* Whoever is told that an account was created has it, unless it was       *)
(* removed since, and a registration that succeeded was announced; whoever *)
(* is told of a conflict has left no account behind.                       *)
AccountAnswersAreTrue ==
  \A r \in Requests :
    /\ answer[r] = "created" =>
         /\ users[r] # Absent
         /\ req[r].op = "register" => tokens[r] # Absent /\ r \in announced
    /\ answer[r] = "conflict" => users[r] = Absent /\ tokens[r] = Absent

(* A logout that was answered is final: no request that read the token     *)
(* before it, and marks it as used after it, makes it usable again.        *)
LogoutIsFinal ==
  \A r \in Requests : answer[r] = "noContent" => Dead(req[r].token)

(* A request whose token was revoked, expired, deleted or unknown when it  *)
(* arrived gets nothing.  (One that arrived earlier may still be served:   *)
(* the middleware checks a row it read.)                                   *)
DeadTokenOpensNothing ==
  \A r \in Requests : req[r].dead => answer[r] \notin {"ok", "noContent"}

(* Expected by the message of the command, "Use the password you entered   *)
(* to log in": the account it creates can be verified with the password    *)
(* that was entered.                                                       *)
EnteredPasswordWorks ==
  \A r \in Requests :
    req[r].op = "command" /\ UserExists(r) => Verified(r, req[r].password)

(* Tokens and middleware implement the sessions of the abstract module: a  *)
(* request is admitted at the one statement that reads its token.          *)
Session ==
  [t \in Ids |-> IF tokens[t] = Absent THEN "unissued"
                 ELSE IF Dead(t) THEN "closed" ELSE "open"]

Holder == [t \in Ids |-> IF tokens[t] = Absent THEN Absent ELSE
                         IF t \in Seeded THEN t ELSE req[t].user]

SessionSpec == INSTANCE Sessions
                 WITH Tokens <- Ids, Holders <- Ids, NoHolder <- Absent,
                      Visitors <- Requests, session <- Session,
                      holder <- Holder

ImplementsSessions == SessionSpec!Spec

=============================================================================
