----------------------------- MODULE HttpProofs -----------------------------
(* Theorems about Http, for every number of requests and users.            *)
EXTENDS Http, SequenceTheorems, TLAPS

-----------------------------------------------------------------------------
(* The routes.                                                             *)

Middlewares == {"cors", "parse", "static", "auth", "bind", "authorizeUser",
                "authorizeOwner", "validate", "upload", "checkUpload",
                "notFound", "controller"}

LEMMA RouteNames ==
  /\ DOMAIN AuthRoutes = {"register", "login", "me", "logout"}
  /\ UnderPosts = {"index", "store", "showSlug", "show", "update", "destroy",
                   "unknownPost"}
  /\ DOMAIN ApiRoutes = {"testIndex", "testStore", "avatar"}
  /\ DOMAIN ServerRoutes = {"home", "asset", "unknown"}
  /\ Routes = {"register", "login", "me", "logout", "index", "store",
               "showSlug", "show", "update", "destroy", "unknownPost",
               "testIndex", "testStore", "avatar", "home", "asset", "unknown",
               "preflight"}
<1>1. /\ DOMAIN AuthRoutes = {"register", "login", "me", "logout"}
      /\ UnderPosts = {"index", "store", "showSlug", "show", "update",
                       "destroy", "unknownPost"}
      /\ DOMAIN ApiRoutes = {"testIndex", "testStore", "avatar"}
      /\ DOMAIN ServerRoutes = {"home", "asset", "unknown"}
  BY DEF AuthRoutes, UnderPosts, PostRoutes, ApiRoutes, ServerRoutes
<1>2. QED
  BY <1>1 DEF Routes, Table

LEMMA TableIs ==
  /\ Table["register"] = <<"validate">>
  /\ Table["login"] = <<"validate">>
  /\ Table["me"] = <<"auth">>
  /\ Table["logout"] = <<"auth">>
  /\ Table["index"] = <<"validate">>
  /\ Table["store"] = <<"authorizeUser", "validate">>
  /\ Table["showSlug"] = <<"bind">>
  /\ Table["show"] = <<"bind">>
  /\ Table["update"] = <<"bind", "authorizeOwner", "validate">>
  /\ Table["destroy"] = <<"bind", "authorizeOwner">>
  /\ Table["unknownPost"] = <<"notFound">>
  /\ Table["testIndex"] = <<>>
  /\ Table["testStore"] = <<"validate">>
  /\ Table["avatar"] = <<"auth", "upload", "checkUpload">>
  /\ Table["home"] = <<>>
  /\ Table["asset"] = <<"static", "notFound">>
  /\ Table["unknown"] = <<"notFound">>
BY RouteNames DEF Table, AuthRoutes, PostRoutes, ApiRoutes, ServerRoutes

LEMMA TableType ==
  ASSUME NEW o \in Routes \ {"preflight"}
  PROVE  Table[o] \in Seq(Middlewares)
<1>1. <<>> \in Seq(Middlewares)
  OBVIOUS
<1>2. \A m \in Middlewares : <<m>> \in Seq(Middlewares)
  OBVIOUS
<1>3. \A m, n \in Middlewares : <<m, n>> \in Seq(Middlewares)
  OBVIOUS
<1>4. \A m, n, l \in Middlewares : <<m, n, l>> \in Seq(Middlewares)
  OBVIOUS
<1>5. /\ "auth" \in Middlewares /\ "bind" \in Middlewares
      /\ "authorizeUser" \in Middlewares /\ "authorizeOwner" \in Middlewares
      /\ "validate" \in Middlewares /\ "upload" \in Middlewares
      /\ "checkUpload" \in Middlewares /\ "static" \in Middlewares
      /\ "notFound" \in Middlewares
  BY DEF Middlewares
<1>6. CASE o \in {"register", "login", "me", "logout", "index", "store",
                 "showSlug", "show", "update"}
  BY ZenonT(60), <1>2, <1>3, <1>4, <1>5, <1>6, TableIs
<1>7. CASE o \in {"destroy", "unknownPost", "testIndex", "testStore", "avatar",
                 "home", "asset", "unknown"}
  BY ZenonT(60), <1>1, <1>2, <1>3, <1>4, <1>5, <1>7, TableIs
<1>8. QED
  BY <1>6, <1>7, RouteNames

(* Two sequences, one behind the other.                                    *)
LEMMA Joined ==
  ASSUME NEW S, NEW a \in Seq(S), NEW b \in Seq(S)
  PROVE  /\ a \o b \in Seq(S)
         /\ Len(a \o b) = Len(a) + Len(b)
         /\ \A k \in 1..Len(a) : (a \o b)[k] = a[k]
         /\ \A k \in 1..Len(b) : (a \o b)[Len(a) + k] = b[k]
OBVIOUS

(* Where the middlewares of a route stand.                                 *)
Offset(o) == IF o \in UnderPosts THEN 3 ELSE 2

LEMMA StackIs ==
  ASSUME NEW o \in Routes \ {"preflight"}
  PROVE  /\ Stack(o) \in Seq(Middlewares)
         /\ Len(Stack(o)) = Offset(o) + Len(Table[o]) + 1
         /\ Stack(o)[1] = "cors" /\ Stack(o)[2] = "parse"
         /\ o \in UnderPosts => Stack(o)[3] = "auth"
         /\ \A k \in 1..Len(Table[o]) : Stack(o)[Offset(o) + k] = Table[o][k]
         /\ Stack(o)[Offset(o) + Len(Table[o]) + 1] = "controller"
<1> DEFINE top == <<"cors", "parse">>
           router == IF o \in UnderPosts THEN <<"auth">> ELSE <<>>
           T == Table[o]
           end == <<"controller">>
<1>1. Stack(o) = top \o router \o T \o end
  BY DEF Stack
<1>2. T \in Seq(Middlewares)
  BY TableType
<1>3. /\ top \in Seq(Middlewares) /\ Len(top) = 2
      /\ top[1] = "cors" /\ top[2] = "parse"
  <2>1. "cors" \in Middlewares /\ "parse" \in Middlewares
    BY DEF Middlewares
  <2>2. QED
    BY <2>1
<1>4. /\ router \in Seq(Middlewares)
      /\ o \in UnderPosts => Len(router) = 1 /\ router[1] = "auth"
      /\ o \notin UnderPosts => Len(router) = 0
  <2>1. "auth" \in Middlewares
    BY DEF Middlewares
  <2>2. QED
    BY <2>1
<1>5. end \in Seq(Middlewares) /\ Len(end) = 1 /\ end[1] = "controller"
  <2>1. "controller" \in Middlewares
    BY DEF Middlewares
  <2>2. QED
    BY <2>1
<1> HIDE DEF T, top, router, end
<1>0. top \in Seq(Middlewares) /\ router \in Seq(Middlewares)
  BY <1>3, <1>4
<1> DEFINE two == top \o router
           three == two \o T
<1>6. /\ two \in Seq(Middlewares) /\ Len(two) = Len(top) + Len(router)
      /\ \A k \in 1..Len(top) : two[k] = top[k]
      /\ \A k \in 1..Len(router) : two[Len(top) + k] = router[k]
  BY <1>0, Joined
<1> HIDE DEF two
<1>7. /\ three \in Seq(Middlewares) /\ Len(three) = Len(two) + Len(T)
      /\ \A k \in 1..Len(two) : three[k] = two[k]
      /\ \A k \in 1..Len(T) : three[Len(two) + k] = T[k]
  <2>1. two \in Seq(Middlewares)
    BY <1>6
  <2>2. QED
    BY <2>1, <1>2, Joined
<1> HIDE DEF three
<1> DEFINE all == three \o end
<1>8. /\ all \in Seq(Middlewares) /\ Len(all) = Len(three) + 1
      /\ \A k \in 1..Len(three) : all[k] = three[k]
      /\ all[Len(three) + 1] = "controller"
  BY <1>5, <1>7, Joined
<1>9. Stack(o) = all
  BY <1>1 DEF two, three
<1> HIDE DEF all
<1>10. Len(two) = Offset(o)
  <2>1. CASE o \in UnderPosts
    <3>1. Len(router) = 1 /\ Len(top) = 2
      BY <1>3, <1>4, <2>1
    <3>2. QED
      BY <3>1, <1>6, <2>1 DEF Offset
  <2>2. CASE o \notin UnderPosts
    BY <1>3, <1>4, <1>6, <2>2 DEF Offset
  <2>3. QED
    BY <2>1, <2>2
<1>11. Len(T) \in Nat /\ Offset(o) \in {2, 3}
  BY <1>2 DEF Offset
<1>12. all[1] = "cors" /\ all[2] = "parse"
  BY <1>3, <1>6, <1>7, <1>8, <1>10, <1>11
<1>13. ASSUME o \in UnderPosts PROVE all[3] = "auth"
  <2>1. Offset(o) = 3
    BY <1>13 DEF Offset
  <2>2. all[3] = "auth"
    <3>1. Len(top) = 2 /\ Len(router) = 1 /\ router[1] = "auth"
      BY <1>3, <1>4, <1>13
    <3>2. two[3] = "auth"
      BY <3>1, <1>6
    <3>3. three[3] = "auth"
      BY <3>2, <2>1, <1>7, <1>10
    <3>4. QED
      BY <3>3, <2>1, <1>7, <1>8, <1>10, <1>11
  <2>3. QED
    BY <2>2
<1>14. \A k \in 1..Len(T) : all[Offset(o) + k] = T[k]
  BY <1>7, <1>8, <1>10, <1>11
<1>15. Len(all) = Offset(o) + Len(T) + 1
       /\ all[Offset(o) + Len(T) + 1] = "controller"
  BY <1>7, <1>8, <1>10, <1>11
<1>16. QED
  BY <1>8, <1>9, <1>12, <1>13, <1>14, <1>15 DEF T

-----------------------------------------------------------------------------
(* The inductive invariant.                                                *)

(* What a middleware that lets a request pass leaves on it.                *)
Gives(o, m) ==
  CASE m = "auth" -> {"user"}
    [] m = "bind" -> {"post"}
    [] m = "validate" -> Rules[o]
    [] m = "checkUpload" -> {"file"}
    [] OTHER -> {}

Kept(r, m) ==
  /\ Gives(route[r], m) \subseteq has[r]
  /\ m = "auth" => user[r] \in Users
  /\ m = "authorizeOwner" => bound[r] = user[r]

(* A request on its way has passed a part of its stack, and everything     *)
(* those middlewares have made sure of still holds; it has not been        *)
(* answered and has changed nothing.                                       *)
OnItsWay(r) ==
  /\ status[r] = 0
  /\ r \notin changed
  /\ \E n \in 0..(Len(Stack(route[r])) - 1) :
       /\ rest[r] = SubSeq(Stack(route[r]), n + 1, Len(Stack(route[r])))
       /\ \A k \in 1..n : Kept(r, Stack(route[r])[k])

Stages ==
  \A r \in Requests : IF rest[r] = <<>> THEN status[r] # 0 ELSE OnItsWay(r)

Types ==
  /\ route \in [Requests -> Routes]
  /\ rest \in [Requests -> Seq(Middlewares)]
  /\ has \in [Requests -> SUBSET Fields]
  /\ user \in [Requests -> Users \cup {NoUser}]
  /\ bound \in [Requests -> Users \cup {NoUser}]
  /\ status \in [Requests -> {0, 200, 201, 204, 401, 403, 404, 409, 422, 500}]
  /\ post \in Users \cup {NoUser}
  /\ tokens \subseteq Users
  /\ changed \subseteq Requests

IInv == Types /\ Stages /\ AnswersFollowTheGates /\ RefusedChangedNothing

(* What the gates of every route are, seen from one of its middlewares.    *)
Gated(o, n) ==
  LET s == Stack(o) m == s[n + 1] IN
  /\ m = "controller" => \A f \in Reads[o] : \E k \in 1..n : f \in Gives(o, s[k])
  /\ o \in UnderPosts \cup {"me", "logout", "avatar"}
       /\ m \notin {"cors", "parse", "auth"} => \E k \in 1..n : s[k] = "auth"
  /\ o \in {"update", "destroy"}
       /\ m \notin {"cors", "parse", "auth", "bind", "authorizeOwner"}
       => \E k \in 1..n : s[k] = "authorizeOwner"
  /\ m \in {"auth", "bind"} => \A k \in 1..n : s[k] # "authorizeOwner"
  /\ m # "controller" => n + 1 < Len(s) \/ o = "preflight"
  /\ m = "static" => o = "asset"
  /\ m = "cors" \/ o # "preflight"

LEMMA RulesAre ==
  \A o \in Routes :
    Rules[o] = CASE o = "index" -> {"query"}
                 [] o \in {"register", "login", "store", "update",
                           "testStore"} -> {"body"}
                 [] OTHER -> {}
BY DEF Rules

LEMMA ReadsAre ==
  \A o \in Routes :
    Reads[o] = CASE o \in {"register", "login", "testStore"} -> {"body"}
                 [] o \in {"me", "logout"} -> {"user"}
                 [] o = "index" -> {"query"}
                 [] o = "store" -> {"user", "body"}
                 [] o \in {"showSlug", "show", "destroy"} -> {"post"}
                 [] o = "update" -> {"post", "body"}
                 [] o = "avatar" -> {"file"}
                 [] OTHER -> {}
<1>1. /\ DOMAIN AuthReads = {"register", "login", "me", "logout"}
      /\ DOMAIN PostReads = {"index", "store", "showSlug", "show", "update",
                             "destroy"}
      /\ DOMAIN OtherReads = {"testStore", "avatar"}
  BY DEF AuthReads, PostReads, OtherReads
<1>2. QED
  BY SMTT(30), <1>1 DEF Reads, AuthReads, PostReads, OtherReads

LEMMA StackType ==
  ASSUME NEW o \in Routes
  PROVE  Stack(o) \in Seq(Middlewares) /\ Len(Stack(o)) \in Nat \ {0}
<1>1. CASE o = "preflight"
  <2>1. "cors" \in Middlewares
    BY DEF Middlewares
  <2>2. <<"cors">> \in Seq(Middlewares) /\ Len(<<"cors">>) = 1
    BY <2>1
  <2>3. QED
    BY <2>2, <1>1 DEF Stack
<1>2. CASE o # "preflight"
  <2>0. o \in Routes \ {"preflight"}
    BY <1>2
  <2>1. Len(Table[o]) \in Nat /\ Offset(o) \in Nat
    BY <2>0, TableType DEF Offset
  <2>2. QED
    BY <2>1, <2>0, StackIs
<1>3. QED
  BY <1>1, <1>2

LEMMA EveryRouteIsGated ==
  ASSUME NEW o \in Routes, NEW n \in 0..(Len(Stack(o)) - 1)
  PROVE  Gated(o, n)
<1> DEFINE s == Stack(o)
           T == Table[o]
<1>1. CASE o = "preflight"
  <2>1. s = <<"cors">>
    BY <1>1 DEF Stack
  <2>2. n = 0 /\ s[1] = "cors"
    BY <2>1
  <2>3. "preflight" \notin UnderPosts
    BY RouteNames
  <2>4. QED
    BY <1>1, <2>2, <2>3 DEF Gated
<1>2. ASSUME o # "preflight"
      PROVE  /\ Len(s) = Offset(o) + Len(T) + 1
             /\ s[1] = "cors" /\ s[2] = "parse"
             /\ o \in UnderPosts => s[3] = "auth"
             /\ Len(T) >= 1 => s[Offset(o) + 1] = T[1]
             /\ Len(T) >= 2 => s[Offset(o) + 2] = T[2]
             /\ Len(T) >= 3 => s[Offset(o) + 3] = T[3]
             /\ s[Offset(o) + Len(T) + 1] = "controller"
  <2>1. o \in Routes \ {"preflight"}
    BY <1>2
  <2>2. Len(T) \in Nat
    BY <2>1, TableType
  <2>3. \A k \in 1..Len(T) : s[Offset(o) + k] = T[k]
    BY <2>1, StackIs
  <2> HIDE DEF s, T
  <2>4. /\ Len(T) >= 1 => s[Offset(o) + 1] = T[1]
        /\ Len(T) >= 2 => s[Offset(o) + 2] = T[2]
        /\ Len(T) >= 3 => s[Offset(o) + 3] = T[3]
    BY <2>2, <2>3
  <2>5. QED
    BY <2>1, <2>4, StackIs DEF s, T
<1>3. CASE o = "register"
  <2>1. Offset(o) = 2 /\ Len(T) = 1 /\ T[1] = "validate"
    BY <1>3, TableIs, RouteNames DEF Offset
  <2> HIDE DEF T, s
  <2>2. /\ Len(s) = 4 /\ s[1] = "cors" /\ s[2] = "parse" /\ s[3] = "validate"
        /\ s[4] = "controller"
    BY <1>3, <1>2, <2>1, RouteNames
  <2>3. n \in 0..3
    BY <2>2 DEF s
  <2>4. QED
    BY <1>3, <2>2, <2>3, RouteNames, RulesAre, ReadsAre
       DEF Gated, Gives, s
<1>4. CASE o = "login"
  <2>1. Offset(o) = 2 /\ Len(T) = 1 /\ T[1] = "validate"
    BY <1>4, TableIs, RouteNames DEF Offset
  <2> HIDE DEF T, s
  <2>2. /\ Len(s) = 4 /\ s[1] = "cors" /\ s[2] = "parse" /\ s[3] = "validate"
        /\ s[4] = "controller"
    BY <1>4, <1>2, <2>1, RouteNames
  <2>3. n \in 0..3
    BY <2>2 DEF s
  <2>4. QED
    BY SMTT(30), <1>4, <2>2, <2>3, RouteNames, RulesAre, ReadsAre
       DEF Gated, Gives, s
<1>5. CASE o = "me"
  <2>1. Offset(o) = 2 /\ Len(T) = 1 /\ T[1] = "auth"
    BY <1>5, TableIs, RouteNames DEF Offset
  <2> HIDE DEF T, s
  <2>2. /\ Len(s) = 4 /\ s[1] = "cors" /\ s[2] = "parse" /\ s[3] = "auth"
        /\ s[4] = "controller"
    BY <1>5, <1>2, <2>1, RouteNames
  <2>3. n \in 0..3
    BY <2>2 DEF s
  <2>4. QED
    BY <1>5, <2>2, <2>3, RouteNames, RulesAre, ReadsAre
       DEF Gated, Gives, s
<1>6. CASE o = "logout"
  <2>1. Offset(o) = 2 /\ Len(T) = 1 /\ T[1] = "auth"
    BY <1>6, TableIs, RouteNames DEF Offset
  <2> HIDE DEF T, s
  <2>2. /\ Len(s) = 4 /\ s[1] = "cors" /\ s[2] = "parse" /\ s[3] = "auth"
        /\ s[4] = "controller"
    BY <1>6, <1>2, <2>1, RouteNames
  <2>3. n \in 0..3
    BY <2>2 DEF s
  <2>4. QED
    BY <1>6, <2>2, <2>3, RouteNames, RulesAre, ReadsAre
       DEF Gated, Gives, s
<1>7. CASE o = "index"
  <2>1. Offset(o) = 3 /\ Len(T) = 1 /\ T[1] = "validate"
    BY <1>7, TableIs, RouteNames DEF Offset
  <2> HIDE DEF T, s
  <2>2. /\ Len(s) = 5 /\ s[1] = "cors" /\ s[2] = "parse" /\ s[3] = "auth"
        /\ s[4] = "validate" /\ s[5] = "controller"
    BY <1>7, <1>2, <2>1, RouteNames
  <2>3. n \in 0..4
    BY <2>2 DEF s
  <2>4. QED
    BY SMTT(30), <1>7, <2>2, <2>3, RouteNames, RulesAre, ReadsAre
       DEF Gated, Gives, s
<1>8. CASE o = "store"
  <2>1. Offset(o) = 3 /\ Len(T) = 2
        /\ T[1] = "authorizeUser" /\ T[2] = "validate"
    BY <1>8, TableIs, RouteNames DEF Offset
  <2> HIDE DEF T, s
  <2>2. /\ Len(s) = 6 /\ s[1] = "cors" /\ s[2] = "parse" /\ s[3] = "auth"
        /\ s[4] = "authorizeUser" /\ s[5] = "validate" /\ s[6] = "controller"
    BY <1>8, <1>2, <2>1, RouteNames
  <2>3. n \in 0..5
    BY <2>2 DEF s
  <2>4. s[n + 1] = "controller" => n = 5
    BY <2>2, <2>3
  <2>5. "user" \in Gives(o, s[3]) /\ "body" \in Gives(o, s[5])
    BY <1>8, <2>2, RulesAre DEF Gives
  <2>6. Reads[o] = {"user", "body"}
    BY <1>8, ReadsAre
  <2>7. s[n + 1] = "controller" =>
          \A f \in Reads[o] : \E k \in 1..n : f \in Gives(o, s[k])
    BY <2>4, <2>5, <2>6
  <2>8. s[n + 1] \notin {"cors", "parse", "auth"} => \E k \in 1..n : s[k] = "auth"
    BY <2>2, <2>3
  <2>9. QED
    BY <1>8, <2>2, <2>3, <2>7, <2>8, RouteNames DEF Gated, s
<1>9. CASE o = "showSlug"
  <2>1. Offset(o) = 3 /\ Len(T) = 1 /\ T[1] = "bind"
    BY <1>9, TableIs, RouteNames DEF Offset
  <2> HIDE DEF T, s
  <2>2. /\ Len(s) = 5 /\ s[1] = "cors" /\ s[2] = "parse" /\ s[3] = "auth"
        /\ s[4] = "bind" /\ s[5] = "controller"
    BY <1>9, <1>2, <2>1, RouteNames
  <2>3. n \in 0..4
    BY <2>2 DEF s
  <2>4. QED
    BY SMTT(30), <1>9, <2>2, <2>3, RouteNames, RulesAre, ReadsAre
       DEF Gated, Gives, s
<1>10. CASE o = "show"
  <2>1. Offset(o) = 3 /\ Len(T) = 1 /\ T[1] = "bind"
    BY <1>10, TableIs, RouteNames DEF Offset
  <2> HIDE DEF T, s
  <2>2. /\ Len(s) = 5 /\ s[1] = "cors" /\ s[2] = "parse" /\ s[3] = "auth"
        /\ s[4] = "bind" /\ s[5] = "controller"
    BY <1>10, <1>2, <2>1, RouteNames
  <2>3. n \in 0..4
    BY <2>2 DEF s
  <2>4. s[n + 1] = "controller" => n = 4
    BY <2>2, <2>3
  <2>5. "post" \in Gives(o, s[4])
    BY <1>10, <2>2, RulesAre DEF Gives
  <2>6. Reads[o] = {"post"}
    BY <1>10, ReadsAre
  <2>7. s[n + 1] = "controller" =>
          \A f \in Reads[o] : \E k \in 1..n : f \in Gives(o, s[k])
    BY <2>4, <2>5, <2>6
  <2>8. s[n + 1] \notin {"cors", "parse", "auth"} => \E k \in 1..n : s[k] = "auth"
    BY <2>2, <2>3
  <2>9. QED
    BY <1>10, <2>2, <2>3, <2>7, <2>8, RouteNames DEF Gated, s
<1>11. CASE o = "update"
  <2>1. Offset(o) = 3 /\ Len(T) = 3
        /\ T[1] = "bind" /\ T[2] = "authorizeOwner" /\ T[3] = "validate"
    BY <1>11, TableIs, RouteNames DEF Offset
  <2> HIDE DEF T, s
  <2>2. /\ Len(s) = 7 /\ s[1] = "cors" /\ s[2] = "parse" /\ s[3] = "auth"
        /\ s[4] = "bind" /\ s[5] = "authorizeOwner" /\ s[6] = "validate"
        /\ s[7] = "controller"
    BY <1>11, <1>2, <2>1, RouteNames
  <2>3. n \in 0..6
    BY <2>2 DEF s
  <2>4. s[n + 1] = "controller" => n = 6
    BY <2>2, <2>3
  <2>5. "post" \in Gives(o, s[4]) /\ "body" \in Gives(o, s[6])
    BY <1>11, <2>2, RulesAre DEF Gives
  <2>6. Reads[o] = {"post", "body"}
    BY <1>11, ReadsAre
  <2>7. s[n + 1] = "controller" =>
          \A f \in Reads[o] : \E k \in 1..n : f \in Gives(o, s[k])
    BY <2>4, <2>5, <2>6
  <2>8. s[n + 1] \notin {"cors", "parse", "auth"} => \E k \in 1..n : s[k] = "auth"
    BY <2>2, <2>3
  <2>9. s[n + 1] \notin {"cors", "parse", "auth", "bind", "authorizeOwner"}
          => \E k \in 1..n : s[k] = "authorizeOwner"
    BY <2>2, <2>3
  <2>10. QED
    BY <1>11, <2>2, <2>3, <2>7, <2>8, <2>9, RouteNames DEF Gated, s
<1>12. CASE o = "destroy"
  <2>1. Offset(o) = 3 /\ Len(T) = 2
        /\ T[1] = "bind" /\ T[2] = "authorizeOwner"
    BY <1>12, TableIs, RouteNames DEF Offset
  <2> HIDE DEF T, s
  <2>2. /\ Len(s) = 6 /\ s[1] = "cors" /\ s[2] = "parse" /\ s[3] = "auth"
        /\ s[4] = "bind" /\ s[5] = "authorizeOwner" /\ s[6] = "controller"
    BY <1>12, <1>2, <2>1, RouteNames
  <2>3. n \in 0..5
    BY <2>2 DEF s
  <2>4. QED
    BY SMTT(30), <1>12, <2>2, <2>3, RouteNames, RulesAre, ReadsAre
       DEF Gated, Gives, s
<1>13. CASE o = "unknownPost"
  <2>1. Offset(o) = 3 /\ Len(T) = 1 /\ T[1] = "notFound"
    BY <1>13, TableIs, RouteNames DEF Offset
  <2> HIDE DEF T, s
  <2>2. /\ Len(s) = 5 /\ s[1] = "cors" /\ s[2] = "parse" /\ s[3] = "auth"
        /\ s[4] = "notFound" /\ s[5] = "controller"
    BY <1>13, <1>2, <2>1, RouteNames
  <2>3. n \in 0..4
    BY <2>2 DEF s
  <2>4. QED
    BY SMTT(30), <1>13, <2>2, <2>3, RouteNames, RulesAre, ReadsAre
       DEF Gated, Gives, s
<1>14. CASE o = "testIndex"
  <2>1. Offset(o) = 2 /\ Len(T) = 0
    BY <1>14, TableIs, RouteNames DEF Offset
  <2> HIDE DEF T, s
  <2>2. /\ Len(s) = 3 /\ s[1] = "cors" /\ s[2] = "parse"
        /\ s[3] = "controller"
    BY <1>14, <1>2, <2>1, RouteNames
  <2>3. n \in 0..2
    BY <2>2 DEF s
  <2>4. QED
    BY <1>14, <2>2, <2>3, RouteNames, RulesAre, ReadsAre
       DEF Gated, Gives, s
<1>15. CASE o = "testStore"
  <2>1. Offset(o) = 2 /\ Len(T) = 1 /\ T[1] = "validate"
    BY <1>15, TableIs, RouteNames DEF Offset
  <2> HIDE DEF T, s
  <2>2. /\ Len(s) = 4 /\ s[1] = "cors" /\ s[2] = "parse" /\ s[3] = "validate"
        /\ s[4] = "controller"
    BY <1>15, <1>2, <2>1, RouteNames
  <2>3. n \in 0..3
    BY <2>2 DEF s
  <2>4. QED
    BY <1>15, <2>2, <2>3, RouteNames, RulesAre, ReadsAre
       DEF Gated, Gives, s
<1>16. CASE o = "avatar"
  <2>1. Offset(o) = 2 /\ Len(T) = 3
        /\ T[1] = "auth" /\ T[2] = "upload" /\ T[3] = "checkUpload"
    BY <1>16, TableIs, RouteNames DEF Offset
  <2> HIDE DEF T, s
  <2>2. /\ Len(s) = 6 /\ s[1] = "cors" /\ s[2] = "parse" /\ s[3] = "auth"
        /\ s[4] = "upload" /\ s[5] = "checkUpload" /\ s[6] = "controller"
    BY <1>16, <1>2, <2>1, RouteNames
  <2>3. n \in 0..5
    BY <2>2 DEF s
  <2>4. s[n + 1] = "controller" => n = 5
    BY <2>2, <2>3
  <2>5. "file" \in Gives(o, s[5])
    BY <1>16, <2>2, RulesAre DEF Gives
  <2>6. Reads[o] = {"file"}
    BY <1>16, ReadsAre
  <2>7. s[n + 1] = "controller" =>
          \A f \in Reads[o] : \E k \in 1..n : f \in Gives(o, s[k])
    BY <2>4, <2>5, <2>6
  <2>8. s[n + 1] \notin {"cors", "parse", "auth"} => \E k \in 1..n : s[k] = "auth"
    BY <2>2, <2>3
  <2>9. QED
    BY <1>16, <2>2, <2>3, <2>7, <2>8, RouteNames DEF Gated, s
<1>17. CASE o = "home"
  <2>1. Offset(o) = 2 /\ Len(T) = 0
    BY <1>17, TableIs, RouteNames DEF Offset
  <2> HIDE DEF T, s
  <2>2. /\ Len(s) = 3 /\ s[1] = "cors" /\ s[2] = "parse"
        /\ s[3] = "controller"
    BY <1>17, <1>2, <2>1, RouteNames
  <2>3. n \in 0..2
    BY <2>2 DEF s
  <2>4. QED
    BY <1>17, <2>2, <2>3, RouteNames, RulesAre, ReadsAre
       DEF Gated, Gives, s
<1>18. CASE o = "asset"
  <2>1. Offset(o) = 2 /\ Len(T) = 2 /\ T[1] = "static" /\ T[2] = "notFound"
    BY <1>18, TableIs, RouteNames DEF Offset
  <2> HIDE DEF T, s
  <2>2. /\ Len(s) = 5 /\ s[1] = "cors" /\ s[2] = "parse" /\ s[3] = "static"
        /\ s[4] = "notFound" /\ s[5] = "controller"
    BY <1>18, <1>2, <2>1, RouteNames
  <2>3. n \in 0..4
    BY <2>2 DEF s
  <2>4. QED
    BY <1>18, <2>2, <2>3, RouteNames, RulesAre, ReadsAre
       DEF Gated, Gives, s
<1>19. CASE o = "unknown"
  <2>1. Offset(o) = 2 /\ Len(T) = 1 /\ T[1] = "notFound"
    BY <1>19, TableIs, RouteNames DEF Offset
  <2> HIDE DEF T, s
  <2>2. /\ Len(s) = 4 /\ s[1] = "cors" /\ s[2] = "parse" /\ s[3] = "notFound"
        /\ s[4] = "controller"
    BY <1>19, <1>2, <2>1, RouteNames
  <2>3. n \in 0..3
    BY <2>2 DEF s
  <2>4. QED
    BY <1>19, <2>2, <2>3, RouteNames, RulesAre, ReadsAre
       DEF Gated, Gives, s
<1>20. QED
  BY RouteNames, <1>1, <1>3, <1>4, <1>5, <1>6, <1>7, <1>8, <1>9,
     <1>10, <1>11, <1>12, <1>13, <1>14, <1>15, <1>16, <1>17, <1>18, <1>19

LEMMA Moves ==
  ASSUME NEW s \in Seq(Middlewares), NEW n \in 0..(Len(s) - 1),
         NEW t, t = SubSeq(s, n + 1, Len(s))
  PROVE  /\ t # <<>> /\ Head(t) = s[n + 1] /\ Head(t) \in Middlewares
         /\ Tail(t) = SubSeq(s, n + 2, Len(s)) /\ Tail(t) \in Seq(Middlewares)
         /\ n + 1 < Len(s) => Tail(t) # <<>>
<1>1. Len(s) \in Nat \ {0} /\ n + 1 \in 1..Len(s) /\ n \in Nat /\ n < Len(s)
  OBVIOUS
<1>2. /\ t \in Seq(Middlewares) /\ Len(t) = Len(s) - n
  BY <1>1
<1>3. Len(t) > 0
  BY <1>1, <1>2
<1>0. Len(<<>>) = 0 /\ ~(0 > 0)
  OBVIOUS
<1>4. t # <<>>
  BY <1>0, <1>3, Zenon
<1>5. /\ Head(t) = s[n + 1]
      /\ Tail(t) = SubSeq(s, n + 2, Len(s))
  <2>1. Len(s) \in (n + 1)..Len(s) /\ (n + 1) + 1 = n + 2
    BY <1>1
  <2>2. QED
    BY <1>1, <2>1, HeadTailOfSubSeq
<1>6. /\ Head(t) \in Middlewares
      /\ Tail(t) \in Seq(Middlewares)
      /\ Len(Tail(t)) = Len(t) - 1
  BY <1>2, <1>4, HeadTailProperties
<1>7. ASSUME n + 1 < Len(s) PROVE Tail(t) # <<>>
  <2>1. Len(Tail(t)) > 0
    <3>1. Len(Tail(t)) = (Len(s) - n) - 1
      BY <1>2, <1>6
    <3>2. QED
      BY <1>1, <1>7, <3>1
  <2>2. QED
    BY <1>0, <2>1, Zenon
<1>8. QED
  BY <1>4, <1>5, <1>6, <1>7

(* Where a request is, and what is known of it there.                      *)
LEMMA Reached ==
  ASSUME IInv, NEW r \in Requests, NEW m, At(r, m)
  PROVE  /\ m \in Middlewares
         /\ status[r] = 0 /\ r \notin changed
         /\ \E n \in 0..(Len(Stack(route[r])) - 1) :
              /\ rest[r] = SubSeq(Stack(route[r]), n + 1, Len(Stack(route[r])))
              /\ Stack(route[r])[n + 1] = m
              /\ Gated(route[r], n)
              /\ \A k \in 1..n : Kept(r, Stack(route[r])[k])
<1>1. rest[r] # <<>> /\ Head(rest[r]) = m
  BY DEF At
<1>2. OnItsWay(r)
  BY <1>1 DEF IInv, Stages
<1>3. PICK n \in 0..(Len(Stack(route[r])) - 1) :
        /\ rest[r] = SubSeq(Stack(route[r]), n + 1, Len(Stack(route[r])))
        /\ \A k \in 1..n : Kept(r, Stack(route[r])[k])
  BY <1>2 DEF OnItsWay
<1>4. route[r] \in Routes
  BY DEF IInv, Types
<1>5. Stack(route[r]) \in Seq(Middlewares)
  BY <1>4, StackType
<1>6. m = Stack(route[r])[n + 1] /\ m \in Middlewares
  BY <1>1, <1>3, <1>5, Moves
<1>7. Gated(route[r], n)
  BY <1>4, EveryRouteIsGated
<1>8. QED
  BY <1>2, <1>3, <1>6, <1>7 DEF OnItsWay

(* What has been made sure of when a middleware or the controller runs.    *)
LEMMA MadeSure ==
  ASSUME IInv, NEW r \in Requests, NEW m, At(r, m)
  PROVE  /\ m = "controller" => Reads[route[r]] \subseteq has[r]
         /\ route[r] \in UnderPosts \cup {"me", "logout", "avatar"}
              /\ m \notin {"cors", "parse", "auth"} => user[r] \in Users
         /\ route[r] \in {"update", "destroy"}
              /\ m \notin {"cors", "parse", "auth", "bind", "authorizeOwner"}
              => bound[r] = user[r]
         /\ m = "static" => route[r] = "asset"
         /\ m = "cors" \/ route[r] # "preflight"
<1>1. PICK n \in 0..(Len(Stack(route[r])) - 1) :
        /\ Stack(route[r])[n + 1] = m
        /\ Gated(route[r], n)
        /\ \A k \in 1..n : Kept(r, Stack(route[r])[k])
  BY Reached
<1>2. ASSUME m = "controller", NEW f \in Reads[route[r]] PROVE f \in has[r]
  <2>1. PICK k \in 1..n : f \in Gives(route[r], Stack(route[r])[k])
    BY <1>1, <1>2 DEF Gated
  <2>2. Kept(r, Stack(route[r])[k])
    BY <1>1
  <2>3. QED
    BY <2>1, <2>2 DEF Kept
<1>3. ASSUME route[r] \in UnderPosts \cup {"me", "logout", "avatar"},
             m \notin {"cors", "parse", "auth"}
      PROVE  user[r] \in Users
  <2>1. PICK k \in 1..n : Stack(route[r])[k] = "auth"
    BY <1>1, <1>3 DEF Gated
  <2>2. QED
    BY <1>1, <2>1 DEF Kept
<1>4. ASSUME route[r] \in {"update", "destroy"},
             m \notin {"cors", "parse", "auth", "bind", "authorizeOwner"}
      PROVE  bound[r] = user[r]
  <2>1. PICK k \in 1..n : Stack(route[r])[k] = "authorizeOwner"
    BY <1>1, <1>4 DEF Gated
  <2>2. QED
    BY <1>1, <2>1 DEF Kept
<1>5. QED
  BY <1>1, <1>2, <1>3, <1>4 DEF Gated

(* A step of one request leaves the others where they are.                 *)
Only(r) ==
  /\ UNCHANGED route
  /\ \A q \in Requests \ {r} :
       /\ rest'[q] = rest[q] /\ status'[q] = status[q]
       /\ has'[q] = has[q] /\ user'[q] = user[q] /\ bound'[q] = bound[q]
       /\ q \in changed' <=> q \in changed

LEMMA OthersStay ==
  ASSUME IInv, NEW r \in Requests, Only(r), NEW q \in Requests \ {r}
  PROVE  /\ IF rest'[q] = <<>> THEN status'[q] # 0 ELSE OnItsWay(q)'
         /\ status'[q] \notin {0, 401, 500} =>
              /\ route'[q] \in UnderPosts \cup {"me", "logout", "avatar"}
                   => user'[q] # NoUser
              /\ route'[q] \in {"update", "destroy"}
                   /\ status'[q] \notin {403, 404} => bound'[q] = user'[q]
         /\ status'[q] \in 400..499 => q \notin changed' /\ rest'[q] = <<>>
<1>1. /\ route' = route
      /\ rest'[q] = rest[q] /\ status'[q] = status[q]
      /\ has'[q] = has[q] /\ user'[q] = user[q] /\ bound'[q] = bound[q]
      /\ q \in changed' <=> q \in changed
  BY DEF Only
<1>2. \A m : Kept(q, m) => Kept(q, m)'
  BY <1>1 DEF Kept
<1>3. OnItsWay(q) => OnItsWay(q)'
  BY <1>1, <1>2 DEF OnItsWay
<1>4. IF rest'[q] = <<>> THEN status'[q] # 0 ELSE OnItsWay(q)'
  BY <1>1, <1>3 DEF IInv, Stages
<1>5. QED
  BY <1>1, <1>4 DEF IInv, AnswersFollowTheGates, RefusedChangedNothing

LEMMA Passing ==
  ASSUME IInv, NEW r \in Requests, NEW m, At(r, m), Passes(r),
         UNCHANGED <<route, world>>, m # "controller", route[r] # "preflight",
         has' \in [Requests -> SUBSET Fields],
         user' \in [Requests -> Users \cup {NoUser}],
         bound' \in [Requests -> Users \cup {NoUser}],
         \A q \in Requests \ {r} :
           has'[q] = has[q] /\ user'[q] = user[q] /\ bound'[q] = bound[q],
         has[r] \subseteq has'[r],
         m # "auth" => user'[r] = user[r],
         m # "bind" => bound'[r] = bound[r],
         Kept(r, m)'
  PROVE  IInv'
<1> DEFINE o == route[r]
           s == Stack(o)
<1>1. /\ rest \in [Requests -> Seq(Middlewares)]
      /\ rest' = [rest EXCEPT ![r] = Tail(rest[r])] /\ status' = status
      /\ route' = route /\ post' = post /\ tokens' = tokens /\ changed' = changed
  BY DEF IInv, Types, Passes, world
<1>2. PICK n \in 0..(Len(s) - 1) :
        /\ rest[r] = SubSeq(s, n + 1, Len(s))
        /\ s[n + 1] = m
        /\ Gated(o, n)
        /\ \A k \in 1..n : Kept(r, s[k])
  BY Reached
<1>3. o \in Routes
  BY DEF IInv, Types
<1>4. s \in Seq(Middlewares) /\ Len(s) \in Nat \ {0}
  BY <1>3, StackType
<1>5. /\ Tail(rest[r]) = SubSeq(s, n + 2, Len(s))
      /\ Tail(rest[r]) \in Seq(Middlewares)
      /\ n + 1 < Len(s) => Tail(rest[r]) # <<>>
  BY <1>2, <1>4, Moves
<1>6. n + 1 < Len(s)
  BY <1>2 DEF Gated
<1>7. status[r] = 0 /\ r \notin changed
  BY Reached
<1>8. rest'[r] = Tail(rest[r]) /\ \A q \in Requests \ {r} : rest'[q] = rest[q]
  BY <1>1
<1>9. ASSUME NEW k \in 1..(n + 1) PROVE Kept(r, s[k])'
  <2>1. CASE k = n + 1
    BY <1>2, <2>1, <1>1
  <2>2. CASE k \in 1..n
    <3>1. Kept(r, s[k])
      BY <1>2, <2>2
    <3>2. m \in {"auth", "bind"} => s[k] # "authorizeOwner"
      BY <1>2, <2>2 DEF Gated
    <3>3. m = "auth" => user'[r] \in Users
      BY DEF Kept
    <3>4. s[k] = "auth" => user'[r] \in Users
      BY <3>1, <3>3 DEF Kept
    <3>5. s[k] = "authorizeOwner" => bound'[r] = user'[r]
      BY <3>1, <3>2 DEF Kept
    <3>6. Gives(o, s[k]) \subseteq has'[r]
      BY <3>1 DEF Kept
    <3> HIDE DEF s, o
    <3>7. QED
      BY <3>4, <3>5, <3>6, <1>1 DEF Kept, o, s
  <2>3. QED
    BY <2>1, <2>2
<1>10. OnItsWay(r)'
  <2>1. n + 1 \in 0..(Len(s) - 1) /\ (n + 1) + 1 = n + 2
    BY <1>4, <1>6
  <2>2. rest'[r] = SubSeq(s, (n + 1) + 1, Len(s))
    BY <1>5, <1>8, <2>1
  <2>3. s' = s
    BY <1>1
  <2> HIDE DEF s
  <2>4. \E j \in 0..(Len(s') - 1) :
          /\ rest'[r] = SubSeq(s', j + 1, Len(s'))
          /\ \A k \in 1..j : Kept(r, s[k])'
    BY <1>9, <2>1, <2>2, <2>3
  <2>5. status'[r] = 0 /\ r \notin changed'
    BY <1>1, <1>7
  <2>6. QED
    BY <2>4, <2>5, Zenon DEF OnItsWay, s, o
<1>11. Only(r)
  BY <1>1, <1>8 DEF Only
<1>12. Types'
  BY <1>1, <1>5 DEF IInv, Types
<1>13. Stages'
  <2>1. rest'[r] # <<>>
    BY <1>5, <1>6, <1>8
  <2>2. ASSUME NEW q \in Requests
        PROVE  IF rest'[q] = <<>> THEN status'[q] # 0 ELSE OnItsWay(q)'
    <3>1. CASE q = r
      BY <1>10, <2>1, <3>1
    <3>2. CASE q # r
      <4>1. q \in Requests \ {r}
        BY <3>2
      <4>2. QED
        BY <1>11, <4>1, OthersStay
    <3>3. QED
      BY <3>1, <3>2
  <2>3. QED
    BY <2>2, Zenon DEF Stages
<1>14. AnswersFollowTheGates'
  BY <1>1, <1>7, <1>11, OthersStay DEF AnswersFollowTheGates
<1>15. RefusedChangedNothing'
  <2>1. status'[r] = 0 /\ 0 \notin 400..499
    BY <1>1, <1>7
  <2>2. ASSUME NEW q \in Requests, status'[q] \in 400..499
        PROVE  q \notin changed' /\ rest'[q] = <<>>
    <3>1. q \in Requests \ {r}
      BY ZenonT(60), <2>1, <2>2
    <3>2. QED
      BY <1>11, <2>2, <3>1, OthersStay
  <2>3. QED
    BY <2>2, Zenon DEF RefusedChangedNothing
<1>16. QED
  BY <1>12, <1>13, <1>14, <1>15 DEF IInv

LEMMA Answering ==
  ASSUME IInv, NEW r \in Requests, NEW code, Answers(r, code),
         code \in {200, 201, 204, 401, 403, 404, 409, 422, 500},
         UNCHANGED <<route, found>>,
         post' \in Users \cup {NoUser}, tokens' \subseteq Users,
         changed' = changed \/ changed' = changed \cup {r},
         r \notin changed,
         code \in 400..499 => changed' = changed,
         code \notin {401, 500} =>
           /\ route[r] \in UnderPosts \cup {"me", "logout", "avatar"}
                => user[r] \in Users
           /\ route[r] \in {"update", "destroy"} /\ code \notin {403, 404}
                => bound[r] = user[r]
  PROVE  IInv'
<1>1. /\ rest \in [Requests -> Seq(Middlewares)]
      /\ status \in [Requests -> {0, 200, 201, 204, 401, 403, 404, 409, 422, 500}]
      /\ changed \subseteq Requests
      /\ rest' = [rest EXCEPT ![r] = <<>>]
      /\ status' = [status EXCEPT ![r] = code]
      /\ route' = route /\ has' = has /\ user' = user /\ bound' = bound
  BY DEF IInv, Types, Answers, found
<1>2. rest'[r] = <<>> /\ status'[r] = code
  BY <1>1
<1>3. Only(r)
  BY <1>1 DEF Only
<1>4. Types'
  BY <1>1 DEF IInv, Types
<1>5. Stages'
  <2>1. ASSUME NEW q \in Requests
        PROVE  IF rest'[q] = <<>> THEN status'[q] # 0 ELSE OnItsWay(q)'
    <3>1. CASE q = r
      BY <1>2, <3>1
    <3>2. CASE q # r
      <4>1. q \in Requests \ {r}
        BY <3>2
      <4>2. QED
        BY <1>3, <4>1, OthersStay
    <3>3. QED
      BY <3>1, <3>2
  <2>2. QED
    BY <2>1, ZenonT(30) DEF Stages
<1>6. AnswersFollowTheGates'
  <2>1. NoUser \notin Users
    BY HttpAssumption
  <2>2. QED
    BY <1>1, <1>2, <1>3, <2>1, OthersStay DEF AnswersFollowTheGates
<1>7. RefusedChangedNothing'
  BY <1>1, <1>2, <1>3, OthersStay DEF RefusedChangedNothing
<1>8. QED
  BY <1>4, <1>5, <1>6, <1>7 DEF IInv

-----------------------------------------------------------------------------
(* The steps.                                                              *)

LEMMA StatusValues ==
  /\ StatusOf("unauthorized") = 401 /\ StatusOf("forbidden") = 403
  /\ StatusOf("notFound") = 404 /\ StatusOf("validation") = 422
  /\ StatusOf("duplicate") = 409
  /\ StatusOf("malformedBody") = 500 /\ StatusOf("database") = 500
  /\ StatusOf("multer") = 500 /\ StatusOf("service") = 500
  /\ StatusOf("typeError") = 500 /\ StatusOf("file") = 500
<1>1. DOMAIN HttpStatus = {"unauthorized", "forbidden", "notFound", "conflict",
                           "validation"}
  BY DEF HttpStatus
<1>2. QED
  BY <1>1 DEF StatusOf, HttpStatus

(* An answer of a middleware, which changes nothing in the world.          *)
LEMMA Refusing ==
  ASSUME IInv, NEW r \in Requests, NEW m, At(r, m), NEW code, Answers(r, code),
         code \in {200, 204, 401, 403, 404, 422, 500},
         UNCHANGED <<route, found, world>>,
         code \in {200, 204} =>
           route[r] \notin UnderPosts \cup {"me", "logout", "avatar"},
         m \in {"cors", "parse", "auth"} => code \in {204, 401, 500},
         m \in {"bind", "authorizeOwner"} => code \in {401, 403, 404, 500}
  PROVE  IInv'
<1>1. /\ post' \in Users \cup {NoUser} /\ tokens' \subseteq Users
      /\ changed' = changed
  BY DEF IInv, Types, world
<1>2. r \notin changed
  BY Reached
<1>3. UNCHANGED <<route, found>>
  OBVIOUS
<1>4. ASSUME code \notin {401, 500},
             route[r] \in UnderPosts \cup {"me", "logout", "avatar"}
      PROVE  user[r] \in Users
  BY <1>4, MadeSure
<1>5. ASSUME code \notin {401, 403, 404, 500}, route[r] \in {"update", "destroy"}
      PROVE  bound[r] = user[r]
  BY <1>5, MadeSure, RouteNames
<1>6. QED
  BY <1>1, <1>2, <1>3, <1>4, <1>5, Answering

LEMMA InitHolds == Init => IInv
<1> SUFFICES ASSUME Init PROVE IInv
  OBVIOUS
<1>1. \A o \in Routes : Stack(o) \in Seq(Middlewares)
  BY StackType
<1>2. Types
  BY <1>1 DEF Init, Types, Fields
<1>3. ASSUME NEW r \in Requests PROVE rest[r] # <<>> /\ OnItsWay(r)
  <2> DEFINE s == Stack(route[r])
  <2>1. route[r] \in Routes /\ status[r] = 0 /\ r \notin changed
    BY DEF Init
  <2>2. rest[r] = s /\ s \in Seq(Middlewares) /\ Len(s) \in Nat \ {0}
    BY <2>1, StackType DEF Init
  <2>3. rest[r] = SubSeq(s, 0 + 1, Len(s)) /\ 0 \in 0..(Len(s) - 1)
    BY <2>2
  <2>4. rest[r] # <<>>
    BY <2>2
  <2> HIDE DEF s
  <2>5. \A k \in 1..0 : Kept(r, s[k])
    OBVIOUS
  <2>6. \E n \in 0..(Len(s) - 1) :
          /\ rest[r] = SubSeq(s, n + 1, Len(s))
          /\ \A k \in 1..n : Kept(r, s[k])
    BY <2>3, <2>5
  <2>7. QED
    BY <2>1, <2>4, <2>6 DEF OnItsWay, s
<1>4. Stages
  BY <1>3, Zenon DEF Stages
<1>5. AnswersFollowTheGates /\ RefusedChangedNothing
  <2>1. \A r \in Requests : status[r] = 0
    BY DEF Init
  <2>2. 0 \notin 400..499
    OBVIOUS
  <2>3. QED
    BY ZenonT(60), <2>1, <2>2 DEF AnswersFollowTheGates, RefusedChangedNothing
<1>6. QED
  BY <1>2, <1>4, <1>5 DEF IInv

LEMMA MiddlewareKeeps ==
  ASSUME IInv, NEW r \in Requests,
         \/ Cors(r) \/ Parse(r) \/ Static(r) \/ Auth(r) \/ BindRouteModel(r)
         \/ Authorize(r) \/ Validate(r) \/ Upload(r) \/ ValidateUploadedFile(r)
         \/ NotFound(r)
  PROVE  IInv'
<1>0. /\ route[r] \in Routes /\ NoUser \notin Users
      /\ has \in [Requests -> SUBSET Fields] /\ has[r] \in SUBSET Fields
      /\ user \in [Requests -> Users \cup {NoUser}]
      /\ bound \in [Requests -> Users \cup {NoUser}]
      /\ tokens \subseteq Users /\ post \in Users \cup {NoUser}
  BY HttpAssumption DEF IInv, Types
<1>1. CASE Cors(r)
  <2>1. At(r, "cors") /\ UNCHANGED <<route, found, world>>
    BY <1>1 DEF Cors
  <2>2. CASE route[r] = "preflight"
    BY <1>1, <2>1, <2>2, Refusing, RouteNames DEF Cors
  <2>3. CASE route[r] # "preflight"
    <3>1. Passes(r)
      BY <1>1, <2>3 DEF Cors
    <3>2. Kept(r, "cors")'
      BY DEF Kept, Gives
    <3>3. QED
      BY <1>0, <2>1, <2>3, <3>1, <3>2, Passing DEF found
  <2>4. QED
    BY <2>2, <2>3
<1>2. CASE Parse(r)
  <2>1. At(r, "parse") /\ UNCHANGED <<route, found, world>>
    BY <1>2 DEF Parse
  <2>2. route[r] # "preflight"
    BY <2>1, MadeSure
  <2>3. CASE Passes(r)
    <3>1. Kept(r, "parse")'
      BY DEF Kept, Gives
    <3>2. QED
      BY <1>0, <2>1, <2>2, <2>3, <3>1, Passing DEF found
  <2>4. CASE Rejects(r, "malformedBody")
    <3>1. Answers(r, 500)
      BY <2>4, StatusValues DEF Rejects
    <3>2. QED
      BY <2>1, <3>1, Refusing
  <2>5. QED
    BY <1>2, <2>3, <2>4 DEF Parse
<1>3. CASE Static(r)
  <2>1. At(r, "static") /\ UNCHANGED <<route, found, world>>
    BY <1>3 DEF Static
  <2>2. route[r] = "asset"
    BY <2>1, MadeSure
  <2>3. CASE Passes(r)
    <3>1. Kept(r, "static")'
      BY DEF Kept, Gives
    <3>2. QED
      BY <1>0, <2>1, <2>2, <2>3, <3>1, Passing DEF found
  <2>4. CASE Answers(r, 200)
    BY <2>1, <2>2, <2>4, Refusing, RouteNames
  <2>5. CASE Rejects(r, "file")
    <3>1. Answers(r, 500)
      BY <2>5, StatusValues DEF Rejects
    <3>2. QED
      BY <2>1, <2>2, <3>1, Refusing
  <2>6. QED
    BY <1>3, <2>3, <2>4, <2>5 DEF Static
<1>4. CASE Auth(r)
  <2>1. At(r, "auth") /\ UNCHANGED <<route, bound, world>>
    BY <1>4 DEF Auth
  <2>2. route[r] # "preflight"
    BY <2>1, MadeSure
  <2>3. ASSUME NEW u \in tokens, user' = [user EXCEPT ![r] = u],
               Finds(r, "user"), Passes(r)
        PROVE  IInv'
    <3>1. /\ has' = [has EXCEPT ![r] = has[r] \cup {"user"}]
          /\ bound' = bound /\ u \in Users
      BY <1>0, <2>1, <2>3 DEF Finds
    <3>2. /\ has'[r] = has[r] \cup {"user"} /\ user'[r] = u
          /\ has' \in [Requests -> SUBSET Fields]
          /\ user' \in [Requests -> Users \cup {NoUser}]
          /\ \A q \in Requests \ {r} : has'[q] = has[q] /\ user'[q] = user[q]
      BY <1>0, <2>3, <3>1 DEF Fields
    <3>3. Kept(r, "auth")'
      BY <3>1, <3>2 DEF Kept, Gives
    <3>4. UNCHANGED <<route, world>>
      BY <2>1
    <3>5. QED
      BY <1>0, <2>1, <2>2, <2>3, <3>1, <3>2, <3>3, <3>4, Passing
  <2>4. ASSUME NEW e \in {"unauthorized", "database"}, Rejects(r, e),
               UNCHANGED <<has, user>>
        PROVE  IInv'
    <3>1. UNCHANGED <<route, found, world>>
      BY <2>1, <2>4 DEF found
    <3>2. StatusOf(e) \in {401, 500}
      BY StatusValues
    <3>3. Answers(r, StatusOf(e))
      BY <2>4 DEF Rejects
    <3> HIDE DEF StatusOf
    <3>4. QED
      BY <2>1, <3>1, <3>2, <3>3, Refusing
  <2>5. QED
    BY <1>4, <2>3, <2>4 DEF Auth
<1>5. CASE BindRouteModel(r)
  <2>1. At(r, "bind") /\ UNCHANGED <<route, user, world>>
    BY <1>5 DEF BindRouteModel
  <2>2. route[r] # "preflight"
    BY <2>1, MadeSure
  <2>3. ASSUME bound' = [bound EXCEPT ![r] = post], Finds(r, "post"), Passes(r)
        PROVE  IInv'
    <3>1. /\ has' = [has EXCEPT ![r] = has[r] \cup {"post"}]
          /\ user' = user
      BY <2>1, <2>3 DEF Finds
    <3>2. /\ has'[r] = has[r] \cup {"post"}
          /\ has' \in [Requests -> SUBSET Fields]
          /\ bound' \in [Requests -> Users \cup {NoUser}]
          /\ \A q \in Requests \ {r} : has'[q] = has[q] /\ bound'[q] = bound[q]
      BY <1>0, <2>3, <3>1 DEF Fields
    <3>3. Kept(r, "bind")'
      BY <3>1, <3>2 DEF Kept, Gives
    <3>4. UNCHANGED <<route, world>>
      BY <2>1
    <3>5. QED
      BY <1>0, <2>1, <2>2, <2>3, <3>1, <3>2, <3>3, <3>4, Passing
  <2>4. ASSUME NEW e \in {"notFound", "database"}, Rejects(r, e),
               UNCHANGED <<has, bound>>
        PROVE  IInv'
    <3>1. UNCHANGED <<route, found, world>>
      BY <2>1, <2>4 DEF found
    <3>2. StatusOf(e) \in {404, 500}
      BY StatusValues
    <3>3. Answers(r, StatusOf(e))
      BY <2>4 DEF Rejects
    <3> HIDE DEF StatusOf
    <3>4. QED
      BY <2>1, <3>1, <3>2, <3>3, Refusing
  <2>5. QED
    BY <1>5, <2>3, <2>4 DEF BindRouteModel
<1>6. CASE Authorize(r)
  <2>1. PICK m \in {"authorizeUser", "authorizeOwner"} : At(r, m)
    BY <1>6 DEF Authorize
  <2>2. UNCHANGED <<route, found, world>>
    BY <1>6 DEF Authorize
  <2>3. route[r] # "preflight"
    BY <2>1, MadeSure
  <2>4. CASE Allowed(r) /\ Passes(r)
    <3>1. m = "authorizeOwner" => bound[r] = user[r]
      BY <2>1, <2>4 DEF Allowed
    <3>2. Kept(r, m)'
      BY <2>1, <2>2, <3>1 DEF Kept, Gives, found
    <3>3. QED
      BY <1>0, <2>1, <2>2, <2>3, <2>4, <3>2, Passing DEF found
  <2>5. ASSUME NEW e \in {"unauthorized", "forbidden"}, Rejects(r, e)
        PROVE  IInv'
    <3>1. StatusOf(e) \in {401, 403}
      BY StatusValues
    <3>2. Answers(r, StatusOf(e))
      BY <2>5 DEF Rejects
    <3>3. QED
      BY <2>1, <2>2, <3>1, <3>2, Refusing
  <2>6. QED
    BY <1>6, <2>4, <2>5 DEF Authorize
<1>7. CASE Validate(r)
  <2>1. At(r, "validate") /\ UNCHANGED <<route, user, bound, world>>
    BY <1>7 DEF Validate
  <2>2. route[r] # "preflight"
    BY <2>1, MadeSure
  <2>3. ASSUME has' = [has EXCEPT ![r] = @ \cup Rules[route[r]]], Passes(r)
        PROVE  IInv'
    <3>1. Rules[route[r]] \subseteq Fields
      BY <1>0, RulesAre DEF Fields
    <3>2. /\ has'[r] = has[r] \cup Rules[route[r]]
          /\ has' \in [Requests -> SUBSET Fields]
          /\ \A q \in Requests \ {r} : has'[q] = has[q]
      BY <1>0, <2>3, <3>1
    <3>3. /\ UNCHANGED <<route, world>> /\ user' = user /\ bound' = bound
          /\ route' = route
      BY <2>1
    <3>4. Kept(r, "validate")'
      <4>1. Rules[route'[r]] \subseteq has'[r]
        BY <3>2, <3>3
      <4>2. QED
        BY <4>1 DEF Kept, Gives
    <3>5. QED
      BY <1>0, <2>1, <2>2, <2>3, <3>2, <3>3, <3>4, Passing
  <2>4. CASE Rejects(r, "validation") /\ UNCHANGED has
    <3>1. UNCHANGED <<route, found, world>>
      BY <2>1, <2>4 DEF found
    <3>2. Answers(r, 422)
      BY <2>4, StatusValues DEF Rejects
    <3>3. QED
      BY <2>1, <3>1, <3>2, Refusing
  <2>5. QED
    BY <1>7, <2>3, <2>4 DEF Validate
<1>8. CASE Upload(r)
  <2>1. At(r, "upload") /\ UNCHANGED <<route, user, bound, world>>
    BY <1>8 DEF Upload
  <2>2. route[r] # "preflight"
    BY <2>1, MadeSure
  <2>3. ASSUME Finds(r, "file") \/ UNCHANGED has, Passes(r)
        PROVE  IInv'
    <3>1. /\ has[r] \subseteq has'[r]
          /\ has' \in [Requests -> SUBSET Fields]
          /\ \A q \in Requests \ {r} : has'[q] = has[q]
      BY <1>0, <2>3 DEF Finds, Fields
    <3>2. UNCHANGED <<route, world>> /\ user' = user /\ bound' = bound
      BY <2>1
    <3>3. Kept(r, "upload")'
      BY DEF Kept, Gives
    <3>4. QED
      BY <1>0, <2>1, <2>2, <2>3, <3>1, <3>2, <3>3, Passing
  <2>4. ASSUME NEW e \in {"validation", "multer"}, Rejects(r, e), UNCHANGED has
        PROVE  IInv'
    <3>1. UNCHANGED <<route, found, world>>
      BY <2>1, <2>4 DEF found
    <3>2. StatusOf(e) \in {422, 500}
      BY StatusValues
    <3>3. Answers(r, StatusOf(e))
      BY <2>4 DEF Rejects
    <3>4. QED
      BY <2>1, <3>1, <3>2, <3>3, Refusing
  <2>5. QED
    BY <1>8, <2>3, <2>4 DEF Upload
<1>9. CASE ValidateUploadedFile(r)
  <2>1. At(r, "checkUpload") /\ UNCHANGED <<route, found, world>>
    BY <1>9 DEF ValidateUploadedFile
  <2>2. route[r] # "preflight"
    BY <2>1, MadeSure
  <2>3. CASE "file" \in has[r] /\ Passes(r)
    <3>1. Kept(r, "checkUpload")'
      BY <2>1, <2>3 DEF Kept, Gives, found
    <3>2. QED
      BY <1>0, <2>1, <2>2, <2>3, <3>1, Passing DEF found
  <2>4. CASE Rejects(r, "validation")
    <3>1. Answers(r, 422)
      BY <2>4, StatusValues DEF Rejects
    <3>2. QED
      BY <2>1, <3>1, Refusing
  <2>5. QED
    BY <1>9, <2>3, <2>4 DEF ValidateUploadedFile
<1>10. CASE NotFound(r)
  <2>1. At(r, "notFound") /\ UNCHANGED <<route, found, world>>
    BY <1>10 DEF NotFound
  <2>2. Answers(r, 404)
    BY <1>10, StatusValues DEF NotFound, Rejects
  <2>3. QED
    BY <2>1, <2>2, Refusing
<1>11. QED
  BY <1>1, <1>2, <1>3, <1>4, <1>5, <1>6, <1>7, <1>8, <1>9, <1>10

LEMMA ControllerKeeps ==
  ASSUME IInv, NEW r \in Requests, Controller(r)
  PROVE  IInv'
<1>1. At(r, "controller") /\ UNCHANGED <<route, found>>
  BY DEF Controller
<1>2. /\ r \notin changed /\ Reads[route[r]] \subseteq has[r]
      /\ route[r] \in UnderPosts \cup {"me", "logout", "avatar"}
           => user[r] \in Users
      /\ route[r] \in {"update", "destroy"} => bound[r] = user[r]
  <2>1. r \notin changed
    BY <1>1, Reached
  <2>2. /\ Reads[route[r]] \subseteq has[r]
        /\ route[r] \in UnderPosts \cup {"me", "logout", "avatar"}
             => user[r] \in Users
        /\ route[r] \in {"update", "destroy"} => bound[r] = user[r]
    BY <1>1, MadeSure
  <2>3. QED
    BY <2>1, <2>2
<1>3. /\ post \in Users \cup {NoUser} /\ tokens \subseteq Users
      /\ route[r] \in Routes
  BY DEF IInv, Types
<1>4. Effect(r) => /\ post' \in Users \cup {NoUser} /\ tokens' \subseteq Users
                   /\ changed' = changed \/ changed' = changed \cup {r}
  BY <1>3 DEF Effect
<1>5. UNCHANGED world => /\ post' \in Users \cup {NoUser} /\ tokens' \subseteq Users
                         /\ changed' = changed
  BY <1>3 DEF world
<1>6. CASE Answers(r, Success[route[r]]) /\ Effect(r)
  <2>1. Success[route[r]] \in {200, 201, 204}
    BY <1>3 DEF Success
  <2>2. \A c \in {200, 201, 204} : c \notin 400..499
    OBVIOUS
  <2>3. QED
    BY <1>1, <1>2, <1>4, <1>6, <2>1, <2>2, Answering
<1>7. CASE ServiceRejects(r)
  <2>1. CASE route[r] \in {"register", "store"} /\ Rejects(r, "duplicate")
               /\ UNCHANGED world
    <3>1. Answers(r, 409)
      BY <2>1, StatusValues DEF Rejects
    <3>2. QED
      BY <1>1, <1>2, <1>5, <2>1, <3>1, Answering
  <2>2. CASE route[r] = "login" /\ Rejects(r, "unauthorized") /\ UNCHANGED world
    <3>1. Answers(r, 401)
      BY <2>2, StatusValues DEF Rejects
    <3>2. QED
      BY <1>1, <1>2, <1>5, <2>2, <3>1, Answering
  <2>3. CASE Rejects(r, "service") /\ (UNCHANGED world \/ Effect(r))
    <3>1. Answers(r, 500)
      BY <2>3, StatusValues DEF Rejects
    <3>2. 500 \notin 400..499
      OBVIOUS
    <3>3. QED
      BY <1>1, <1>2, <1>4, <1>5, <2>3, <3>1, <3>2, Answering
  <2>4. QED
    BY <1>7, <2>1, <2>2, <2>3 DEF ServiceRejects
<1>8. QED
  BY <1>2, <1>6, <1>7 DEF Controller

LEMMA StepKeeps == IInv /\ [Next]_vars => IInv'
<1> SUFFICES ASSUME IInv, [Next]_vars PROVE IInv'
  OBVIOUS
<1>1. CASE UNCHANGED vars
  <2>1. \A r, m : Kept(r, m)' <=> Kept(r, m)
    BY <1>1 DEF Kept, vars, found
  <2>2. \A r : OnItsWay(r)' <=> OnItsWay(r)
    BY <1>1, <2>1 DEF OnItsWay, vars, found, world
  <2>3. Stages'
    BY <1>1, <2>2 DEF IInv, Stages, vars
  <2>4. QED
    BY <1>1, <2>3 DEF IInv, Types, AnswersFollowTheGates, RefusedChangedNothing,
                      vars, found, world
<1>2. ASSUME NEW r \in Requests, Step(r) PROVE IInv'
  BY <1>2, MiddlewareKeeps, ControllerKeeps, Zenon DEF Step
<1>3. QED
  BY <1>1, <1>2 DEF Next

LEMMA Invariant == Spec => []IInv
<1>1. Init => IInv
  BY InitHolds
<1>2. IInv /\ [Next]_vars => IInv'
  BY StepKeeps
<1>3. QED
  BY <1>1, <1>2, PTL DEF Spec

-----------------------------------------------------------------------------
(* The theorems.                                                           *)

(* What the middlewares leave on the request object is of its type, and    *)
(* what a request has still to pass is always an end of the stack of its   *)
(* route: no middleware calls next() twice or skips another.               *)
THEOREM HttpTypeOK == Spec => []TypeOK
<1>1. IInv => TypeOK
  <2> SUFFICES ASSUME IInv PROVE TypeOK
    OBVIOUS
  <2>1. ASSUME NEW r \in Requests
        PROVE  \E n \in 0..Len(Stack(route[r])) :
                 rest[r] = SubSeq(Stack(route[r]), n + 1, Len(Stack(route[r])))
    <3> DEFINE s == Stack(route[r])
    <3>1. s \in Seq(Middlewares) /\ Len(s) \in Nat
      BY StackType DEF IInv, Types
    <3>2. CASE rest[r] = <<>>
      <4>1. SubSeq(s, Len(s) + 1, Len(s)) = <<>>
        BY <3>1, SubSeqEmpty
      <4>2. Len(s) \in 0..Len(s)
        BY <3>1
      <4> HIDE DEF s
      <4>3. \E n \in 0..Len(s) : rest[r] = SubSeq(s, n + 1, Len(s))
        BY <4>1, <4>2, <3>2
      <4>4. QED
        BY <4>3 DEF s
    <3>3. CASE rest[r] # <<>>
      <4>1. OnItsWay(r)
        BY <3>3 DEF IInv, Stages
      <4> HIDE DEF s
      <4>2. \E n \in 0..(Len(s) - 1) : rest[r] = SubSeq(s, n + 1, Len(s))
        BY <4>1 DEF OnItsWay, s
      <4>3. 0..(Len(s) - 1) \subseteq 0..Len(s)
        BY <3>1
      <4>4. QED
        BY <4>2, <4>3 DEF s
    <3>4. QED
      BY <3>2, <3>3
  <2>2. QED
    BY <2>1 DEF IInv, Types, TypeOK
<1>2. QED
  BY <1>1, Invariant, PTL

(* A request has left its chain of middlewares exactly when it has an      *)
(* answer: next(error) and every early return end the chain, so the server *)
(* neither forgets a request nor goes on with one that it has answered.    *)
THEOREM ChainsEndWithTheAnswer ==
  Spec => [](\A r \in Requests : rest[r] = <<>> <=> status[r] # 0)
<1>1. IInv => \A r \in Requests : rest[r] = <<>> <=> status[r] # 0
  BY Zenon DEF IInv, Stages, OnItsWay
<1>2. QED
  BY <1>1, Invariant, PTL

(* No controller reads a field that is not there: for every route, the     *)
(* middlewares that its file and the files above it register in front of   *)
(* it have set whatever the controller asserts with "!".                   *)
THEOREM ControllersFindTheirFields == Spec => []ControllersHaveWhatTheyRead
<1>1. IInv => ControllersHaveWhatTheyRead
  BY MadeSure DEF ControllersHaveWhatTheyRead
<1>2. QED
  BY <1>1, Invariant, PTL

(* The order of the gates, authentication, binding, policy, validation,    *)
(* holds in every answer, however many requests run beside each other and  *)
(* whatever they do to the tokens and to the post meanwhile.               *)
THEOREM GatesComeInOrder == Spec => []AnswersFollowTheGates
<1>1. IInv => AnswersFollowTheGates
  BY DEF IInv
<1>2. QED
  BY <1>1, Invariant, PTL

(* An answer of the 400s is given only by those who have changed nothing,  *)
(* and is the last thing that happens to the request.                      *)
THEOREM RefusalsChangeNothing == Spec => []RefusedChangedNothing
<1>1. IInv => RefusedChangedNothing
  BY DEF IInv
<1>2. QED
  BY <1>1, Invariant, PTL

=============================================================================
