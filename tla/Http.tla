-------------------------------- MODULE Http --------------------------------
(***************************************************************************)
(* The path of a request through Express: the middlewares of its route,    *)
(* one after the other, until one answers or hands an error to the error   *)
(* handler.  Each may await the database or the client's body, and other   *)
(* requests run meanwhile.  What a middleware finds out it leaves on the   *)
(* request object, where later ones, and the controller, read it:          *)
(*                                                                         *)
(*   auth -> bindRouteModel -> authorize -> validate -> controller         *)
(*                                                                         *)
(* What a controller does in the services is in Posts, Auth and Storage;   *)
(* here it either does it all, is refused, or fails.  The database and the *)
(* disk are one post that was there before, the live tokens, and which     *)
(* requests changed anything; posts that a request stores are not asked    *)
(* for by another.                                                         *)
(***************************************************************************)
EXTENDS Naturals, Sequences

CONSTANTS
  Requests,
  Users, NoUser     (* a user has at most one live token in this model     *)

ASSUME HttpAssumption == NoUser \notin Users

VARIABLES
  route,    (* the route each request asks for                             *)
  rest,     (* the middlewares it has not passed yet; its last element is  *)
            (* the controller                                              *)
  has,      (* the fields set on the request object                        *)
  user,     (* req.user                                                    *)
  bound,    (* the owner of the post in req.models                         *)
  status,   (* of the response; 0 until it is sent                         *)
  post,     (* the owner of the post, NoUser when there is none            *)
  tokens,   (* the users whose token is live                               *)
  changed   (* history: requests that changed the database or the disk     *)

found == <<has, user, bound>>
world == <<post, tokens, changed>>
vars == <<route, rest, found, status, world>>

-----------------------------------------------------------------------------
(* The routes.                                                             *)

(* What each route registers in front of its controller: routes/auth.ts,   *)
(* routes/posts.ts ("unknownPost" is any other path under /posts), the     *)
(* rest of routes/index.ts, and the server itself.                         *)
AuthRoutes ==
  [register |-> <<"validate">>, login |-> <<"validate">>,
   me |-> <<"auth">>, logout |-> <<"auth">>]

(* Variant: validation before the policy. *)
PostRoutesValidateFirst ==
  [index |-> <<"validate">>, store |-> <<"authorizeUser", "validate">>,
   showSlug |-> <<"bind">>, show |-> <<"bind">>,
   update |-> <<"bind", "validate", "authorizeOwner">>,
   destroy |-> <<"bind", "authorizeOwner">>, unknownPost |-> <<"notFound">>]

PostRoutes ==
  [index |-> <<"validate">>, store |-> <<"authorizeUser", "validate">>,
   showSlug |-> <<"bind">>, show |-> <<"bind">>,
   update |-> <<"bind", "authorizeOwner", "validate">>,
   destroy |-> <<"bind", "authorizeOwner">>, unknownPost |-> <<"notFound">>]

ApiRoutes ==
  [testIndex |-> <<>>, testStore |-> <<"validate">>,
   avatar |-> <<"auth", "upload", "checkUpload">>]

ServerRoutes ==
  [home |-> <<>>, asset |-> <<"static", "notFound">>, unknown |-> <<"notFound">>]

UnderPosts == DOMAIN PostRoutes

Table ==
  [o \in DOMAIN AuthRoutes \cup UnderPosts \cup DOMAIN ApiRoutes
           \cup DOMAIN ServerRoutes |->
     CASE o \in DOMAIN AuthRoutes -> AuthRoutes[o]
       [] o \in UnderPosts -> PostRoutes[o]
       [] o \in DOMAIN ApiRoutes -> ApiRoutes[o]
       [] o \in DOMAIN ServerRoutes -> ServerRoutes[o]]

(* "preflight" is OPTIONS, whatever the path.                              *)
Routes == DOMAIN Table \cup {"preflight"}

(* The middlewares of the server, those of the router, those of the route. *)
Stack(o) ==
  IF o = "preflight" THEN <<"cors">>
  ELSE <<"cors", "parse">>
         \o (IF o \in UnderPosts THEN <<"auth">> ELSE <<>>)
         \o Table[o] \o <<"controller">>

(* The sources whose schemas rules() returns, and what the controllers     *)
(* read from the request object.                                           *)
Rules ==
  [o \in Routes |-> CASE o = "index" -> {"query"}
                      [] o \in {"register", "login", "store", "update",
                                "testStore"} -> {"body"}
                      [] OTHER -> {}]

AuthReads == [register |-> {"body"}, login |-> {"body"},
              me |-> {"user"}, logout |-> {"user"}]

PostReads == [index |-> {"query"}, store |-> {"user", "body"},
              showSlug |-> {"post"}, show |-> {"post"},
              update |-> {"post", "body"}, destroy |-> {"post"}]

OtherReads == [testStore |-> {"body"}, avatar |-> {"file"}]

Reads ==
  [o \in Routes |-> CASE o \in DOMAIN AuthReads -> AuthReads[o]
                      [] o \in DOMAIN PostReads -> PostReads[o]
                      [] o \in DOMAIN OtherReads -> OtherReads[o]
                      [] OTHER -> {}]

-----------------------------------------------------------------------------
(* next(), next(error) and the response.                                   *)

Init ==
  /\ route \in [Requests -> Routes]
  /\ rest = [r \in Requests |-> Stack(route[r])]
  /\ has = [r \in Requests |-> {}]
  /\ user = [r \in Requests |-> NoUser]
  /\ bound = [r \in Requests |-> NoUser]
  /\ status = [r \in Requests |-> 0]
  /\ post \in Users \cup {NoUser}
  /\ tokens \in SUBSET Users
  /\ changed = {}

(* The status each HttpException is made with. *)
HttpStatus == [unauthorized |-> 401, forbidden |-> 403, notFound |-> 404,
               conflict |-> 409, validation |-> 422]

(* Handler.render: an HttpException has its status, a duplicate key is a   *)
(* conflict, everything else, body parser and multer errors included, 500. *)
StatusOf(error) ==
  IF error \in DOMAIN HttpStatus THEN HttpStatus[error]
  ELSE IF error = "duplicate" THEN HttpStatus["conflict"] ELSE 500

At(r, middleware) == rest[r] # <<>> /\ Head(rest[r]) = middleware

Passes(r) == rest' = [rest EXCEPT ![r] = Tail(@)] /\ UNCHANGED status

Answers(r, code) ==
  /\ rest' = [rest EXCEPT ![r] = <<>>]
  /\ status' = [status EXCEPT ![r] = code]

Rejects(r, error) == Answers(r, StatusOf(error))

Finds(r, field) == has' = [has EXCEPT ![r] = @ \cup {field}]

-----------------------------------------------------------------------------
(* The middlewares.                                                        *)

(* cors answers a preflight itself.                                        *)
Cors(r) ==
  /\ At(r, "cors")
  /\ IF route[r] = "preflight" THEN Answers(r, 204) ELSE Passes(r)
  /\ UNCHANGED <<route, found, world>>

(* express.json and express.urlencoded, once the body has arrived.         *)
Parse(r) ==
  /\ At(r, "parse")
  /\ Passes(r) \/ Rejects(r, "malformedBody")
  /\ UNCHANGED <<route, found, world>>

(* express.static: nothing by that name goes on, a file that is there is   *)
(* answered, one that cannot be read is an error.  Its 200 stands for the  *)
(* answers 206, 301 and 304 too, which are as final.                       *)
Static(r) ==
  /\ At(r, "static")
  /\ Passes(r) \/ Answers(r, 200) \/ Rejects(r, "file")
  /\ UNCHANGED <<route, found, world>>

Auth(r) ==
  /\ At(r, "auth")
  /\ \/ \E u \in tokens : /\ user' = [user EXCEPT ![r] = u]
                          /\ Finds(r, "user")
                          /\ Passes(r)
     \/ Rejects(r, "unauthorized") /\ UNCHANGED <<has, user>>
     \/ Rejects(r, "database") /\ UNCHANGED <<has, user>>
  /\ UNCHANGED <<route, bound, world>>

(* bindRouteModel and bindRouteSlugModel; a parameter that does not parse  *)
(* is answered like a row that is not there.                               *)
BindRouteModel(r) ==
  /\ At(r, "bind")
  /\ \/ /\ post # NoUser
        /\ bound' = [bound EXCEPT ![r] = post]
        /\ Finds(r, "post")
        /\ Passes(r)
     \/ Rejects(r, "notFound") /\ UNCHANGED <<has, bound>>
     \/ Rejects(r, "database") /\ UNCHANGED <<has, bound>>
  /\ UNCHANGED <<route, user, world>>

(* PostPolicy: create asks for a user, update and delete for the owner.    *)
Allowed(r) == At(r, "authorizeOwner") => bound[r] = user[r]

(* Variant: no return after next(new ForbiddenException()).                *)
AuthorizeGoesOn(r) ==
  /\ At(r, "authorizeUser") \/ At(r, "authorizeOwner")
  /\ rest' = [rest EXCEPT ![r] = Tail(@)]
  /\ status' = IF Allowed(r) THEN status
               ELSE [status EXCEPT ![r] = StatusOf("forbidden")]
  /\ UNCHANGED <<route, found, world>>

Authorize(r) ==
  /\ At(r, "authorizeUser") \/ At(r, "authorizeOwner")
  /\ \/ "user" \notin has[r] /\ Rejects(r, "unauthorized")
     \/ "user" \in has[r] /\ ~Allowed(r) /\ Rejects(r, "forbidden")
     \/ "user" \in has[r] /\ Allowed(r) /\ Passes(r)
  /\ UNCHANGED <<route, found, world>>

(* Variant: errors are collected but never handed on.                      *)
ValidateSwallows(r) ==
  /\ At(r, "validate")
  /\ has' = [has EXCEPT ![r] = @ \cup Rules[route[r]]]
  /\ \/ Passes(r)
     \/ rest' = [rest EXCEPT ![r] = <<"waiting">>] /\ UNCHANGED status
  /\ UNCHANGED <<route, user, bound, world>>

(* Every source is parsed before the first error is reported; validated is *)
(* set only if all of them passed.                                         *)
Validate(r) ==
  /\ At(r, "validate")
  /\ \E failing \in SUBSET Rules[route[r]] :
       \/ /\ failing = {}
          /\ has' = [has EXCEPT ![r] = @ \cup Rules[route[r]]]
          /\ Passes(r)
       \/ /\ failing # {}
          /\ Rejects(r, "validation")
          /\ UNCHANGED has
  /\ UNCHANGED <<route, user, bound, world>>

(* multer reads the file into memory: there may be none, it may be too     *)
(* large, and any other of its errors is handed on as it is.               *)
Upload(r) ==
  /\ At(r, "upload")
  /\ \/ Finds(r, "file") /\ Passes(r)
     \/ Passes(r) /\ UNCHANGED has
     \/ Rejects(r, "validation") /\ UNCHANGED has
     \/ Rejects(r, "multer") /\ UNCHANGED has
  /\ UNCHANGED <<route, user, bound, world>>

(* Variant: required is not looked at. *)
FileIsOptional(r) ==
  /\ At(r, "checkUpload")
  /\ Passes(r) \/ ("file" \in has[r] /\ Rejects(r, "validation"))
  /\ UNCHANGED <<route, found, world>>

(* validateUploadedFile: required, and of the right kind and size.         *)
ValidateUploadedFile(r) ==
  /\ At(r, "checkUpload")
  /\ \/ "file" \in has[r] /\ Passes(r)
     \/ Rejects(r, "validation")
  /\ UNCHANGED <<route, found, world>>

NotFound(r) ==
  /\ At(r, "notFound")
  /\ Rejects(r, "notFound")
  /\ UNCHANGED <<route, found, world>>

-----------------------------------------------------------------------------
(* The controllers, behind asyncHandler.                                   *)

Success ==
  [o \in Routes |-> CASE o \in {"register", "store", "testStore", "avatar"} -> 201
                      [] o \in {"logout", "destroy"} -> 204
                      [] OTHER -> 200]

Writes == {"register", "login", "logout", "store", "update", "destroy",
           "avatar"}

(* What the service has done when it did all it was asked.                 *)
Effect(r) ==
  /\ changed' = IF route[r] \in Writes THEN changed \cup {r} ELSE changed
  /\ post' = IF route[r] = "destroy" THEN NoUser ELSE post
  /\ CASE route[r] = "logout" -> tokens' = tokens \ {user[r]}
       [] route[r] \in {"register", "login"} ->
            \E u \in Users : tokens' = tokens \cup {u}
       [] OTHER -> UNCHANGED tokens

(* A service throws: a duplicate key before anything is stored, wrong      *)
(* credentials, or any other error, before or after it stored something.   *)
ServiceRejects(r) ==
  \/ route[r] \in {"register", "store"} /\ Rejects(r, "duplicate")
       /\ UNCHANGED world
  \/ route[r] = "login" /\ Rejects(r, "unauthorized") /\ UNCHANGED world
  \/ route[r] \in Writes \cup {"index"} /\ Rejects(r, "service")
       /\ UNCHANGED world
  \/ route[r] \in Writes /\ Rejects(r, "service") /\ Effect(r)

(* A controller that reads what is not there throws before it does         *)
(* anything.                                                               *)
Controller(r) ==
  /\ At(r, "controller")
  /\ \/ /\ Reads[route[r]] \subseteq has[r]
        /\ \/ Answers(r, Success[route[r]]) /\ Effect(r)
           \/ ServiceRejects(r)
     \/ /\ ~(Reads[route[r]] \subseteq has[r])
        /\ Rejects(r, "typeError")
        /\ UNCHANGED world
  /\ UNCHANGED <<route, found>>

Step(r) ==
  \/ Cors(r) \/ Parse(r) \/ Static(r) \/ Auth(r) \/ BindRouteModel(r)
  \/ Authorize(r) \/ Validate(r) \/ Upload(r) \/ ValidateUploadedFile(r)
  \/ NotFound(r) \/ Controller(r)

Next == \E r \in Requests : Step(r)

(* Every request goes on: the client sends its body, MySQL answers or the  *)
(* connection breaks.                                                      *)
Spec == Init /\ [][Next]_vars /\ \A r \in Requests : WF_vars(Step(r))

-----------------------------------------------------------------------------
(* Properties.                                                             *)

Fields == {"user", "post", "query", "body", "file"}

TypeOK ==
  /\ route \in [Requests -> Routes]
  /\ \A r \in Requests : \E n \in 0..Len(Stack(route[r])) :
       rest[r] = SubSeq(Stack(route[r]), n + 1, Len(Stack(route[r])))
  /\ has \in [Requests -> SUBSET Fields]
  /\ user \in [Requests -> Users \cup {NoUser}]
  /\ bound \in [Requests -> Users \cup {NoUser}]
  /\ status \in [Requests -> {0, 200, 201, 204, 401, 403, 404, 409, 422, 500}]
  /\ post \in Users \cup {NoUser}
  /\ tokens \subseteq Users
  /\ changed \subseteq Requests

(* A controller that is reached finds every field it reads, although the   *)
(* fields are set by middlewares that its route names in another file and  *)
(* the types are asserted, not checked.                                    *)
ControllersHaveWhatTheyRead ==
  \A r \in Requests :
    At(r, "controller") => Reads[route[r]] \subseteq has[r]

(* The documented order holds in what clients can learn: about posts and   *)
(* files only a user with a token is told anything but 401 or an error of  *)
(* the server, and whether the input for a post was right only its owner,  *)
(* however tokens and the post change while the request is on its way.     *)
AnswersFollowTheGates ==
  \A r \in Requests : status[r] \notin {0, 401, 500} =>
    /\ route[r] \in UnderPosts \cup {"me", "logout", "avatar"}
         => user[r] # NoUser
    /\ route[r] \in {"update", "destroy"} /\ status[r] \notin {403, 404}
         => bound[r] = user[r]

(* A request that was told it is at fault has changed nothing, and is not  *)
(* served any further.                                                     *)
RefusedChangedNothing ==
  \A r \in Requests : status[r] \in 400..499 => r \notin changed /\ rest[r] = <<>>

(* Every request is answered: no middleware keeps one for itself.          *)
EveryRequestIsAnswered ==
  \A r \in Requests : rest[r] # <<>> ~> status[r] # 0

=============================================================================
