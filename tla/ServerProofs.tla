---------------------------- MODULE ServerProofs ----------------------------
(***************************************************************************)
(* Proofs about Server.tla, for any people, browsers, deployments, strays, *)
(* grants, limits and number of requests in flight.                        *)
(*                                                                         *)
(* The argument: a session identifier is issued once and never comes back  *)
(* to life, so what a request learnt of its session when it passed the     *)
(* guard stays true, or becomes harmless, while others run in between.     *)
(***************************************************************************)
EXTENDS Server, FiniteSetTheorems, TLAPS

PCs == {"idle", "guard", "rejected", "limit", "password", "challenge", "start", "code", "end",
        "resolve", "permit", "denied", "act", "absent", "revoked", "answered"}
Statuses == {0, 200, 401, 404, 500}

OriginLists == {<<>>} \cup {t.origin : t \in Strays} \cup {<<s.visited>> : s \in Settings}
TokenLists == {<<>>} \cup {<<csrfTokenForSessionId(s)>> : s \in Sids \cup {None}}
Headers == [origin : OriginLists, referer : {<<>>}, tokens : TokenLists, inQuery : BOOLEAN]

Request == [pc : PCs, route : ROUTES, owner : People \cup {Nobody}, cookie : Sids \cup {None},
            headers : Headers, who : People \cup {Nobody}, as : People \cup {Nobody},
            about : Challenges \cup {None}, right : BOOLEAN, session : Sids \cup {None},
            entries : 0..2, over : SUBSET Sids, status : Statuses, sets : Sids \cup {None},
            tells : {None}]

Sessions == [user : People \cup {Nobody}, state : {"unissued", "live", "dead"}]
Owed == [user : People \cup {Nobody}, open : BOOLEAN, left : 0..ChallengeLife]
Attempts == [used : Nat, left : Nat]

BucketOK(b) == /\ bucket[b].used \in 0..LimitOf(b) /\ bucket[b].left \in 0..Window
               /\ bucket[b].used = 0 <=> bucket[b].left = 0

Typed ==
    /\ setting \in Settings
    /\ session \in [Sids -> Sessions] /\ challenge \in [Challenges -> Owed]
    /\ bucket \in [Buckets -> Attempts] /\ \A b \in Buckets : BucketOK(b)
    /\ owes \subseteq People /\ may \in Permissions
    /\ req \in [Requests -> Request]
    /\ page \in [People -> {"closed", "probe", "form", "busy", "unreachable", "shell"}]
    /\ jar \in [People -> Sids \cup {None}] /\ told \in [People -> SUBSET Challenges]
    /\ over \subseteq Sids /\ trouble \in 0..MaxTrouble
    /\ guesses \in [Challenges -> Nat]

USE DEF None

-----------------------------------------------------------------------------
(* Routes *)

(* A route of the table is found by its method and path.                   *)
LEMMA RouteFound ==
    ASSUME NEW method, NEW path, \E r \in ROUTES : r.method = method /\ r.path = path
    PROVE  /\ RouteOf(method, path) \in ROUTES
           /\ RouteOf(method, path).method = method /\ RouteOf(method, path).path = path
  BY DEF RouteOf

LEMMA RouteFacts ==
    /\ {signIn, twoFactor, signOut, organization, revokeSessions} \subseteq ROUTES
    /\ signIn.method = "POST" /\ signIn.path = <<"auth", "sign-in">>
    /\ twoFactor.method = "POST" /\ twoFactor.path = <<"auth", "two-factor">>
    /\ signOut.method = "POST" /\ signOut.path = <<"auth", "sign-out">>
    /\ organization.method = "GET"
    /\ revokeSessions.method = "POST"
    /\ revokeSessions.path = <<"members", ":userId", "revoke-sessions">>
<1>1. \E r \in ROUTES : r.method = "POST" /\ r.path = <<"auth", "sign-in">>
  <2>1. Route("POST", <<"auth", "sign-in">>, Public) \in ROUTES
    BY DEF ROUTES, PublicRoutes
  <2> QED BY <2>1 DEF Route
<1>2. \E r \in ROUTES : r.method = "POST" /\ r.path = <<"auth", "two-factor">>
  <2>1. Route("POST", <<"auth", "two-factor">>, Public) \in ROUTES
    BY DEF ROUTES, PublicRoutes
  <2> QED BY <2>1 DEF Route
<1>3. \E r \in ROUTES : r.method = "POST" /\ r.path = <<"auth", "sign-out">>
  <2>1. Route("POST", <<"auth", "sign-out">>, Public) \in ROUTES
    BY DEF ROUTES, PublicRoutes
  <2> QED BY <2>1 DEF Route
<1>4. \E r \in ROUTES : r.method = "GET" /\ r.path = <<"organization">>
  <2>1. Route("GET", <<"organization">>, <<"organization", "read">>)
          \in CRUD(<<"organization">>, "organization",
                   {<<"GET", "read">>, <<"PATCH", "update">>, <<"DELETE", "delete">>})
    BY DEF CRUD
  <2> QED BY <2>1 DEF ROUTES, guardedRoutes, Route
<1>5. \E r \in ROUTES : r.method = "POST" /\ r.path = <<"members", ":userId", "revoke-sessions">>
  <2>1. Route("POST", <<"members", ":userId", "revoke-sessions">>, <<"member", "revoke_sessions">>)
          \in CRUD(<<"members", ":userId", "revoke-sessions">>, "member", {<<"POST", "revoke_sessions">>})
    BY DEF CRUD
  <2> QED BY <2>1 DEF ROUTES, guardedRoutes, Route
<1> QED BY <1>1, <1>2, <1>3, <1>4, <1>5, RouteFound
        DEF signIn, twoFactor, signOut, organization, revokeSessions

LEMMA RoutesDiffer ==
    /\ signIn # twoFactor /\ signIn # signOut /\ twoFactor # signOut
    /\ revokeSessions \notin {signIn, twoFactor, signOut, organization}
    /\ organization \notin {signIn, twoFactor, signOut}
<1>1. signIn.path[2] = "sign-in" /\ twoFactor.path[2] = "two-factor" /\ signOut.path[2] = "sign-out"
      /\ revokeSessions.path[2] = ":userId"
  BY RouteFacts
<1>2. organization.method # signIn.method /\ organization.method # twoFactor.method
      /\ organization.method # signOut.method /\ organization.method # revokeSessions.method
  BY RouteFacts
<1> QED BY <1>1, <1>2

-----------------------------------------------------------------------------
(* What a step does to requests                                            *)

Others(r) == \A x \in Requests \ {r} : req'[x] = req[x]

LEMMA IdleIsRequest == Idle \in Request
  BY RouteFacts DEF Idle, Request, PCs, Headers, OriginLists, TokenLists, Statuses

LEMMA IdleFields ==
    /\ Idle.pc = "idle" /\ Idle.cookie = None /\ Idle.sets = None /\ Idle.session = None
    /\ Idle.tells = None /\ Idle.over = {} /\ Idle.entries = 0 /\ Idle.status = 0
  BY DEF Idle

(* A request moves on and keeps all it has.                                *)
Kin(x, y) ==
    /\ x.route = y.route /\ x.cookie = y.cookie /\ x.headers = y.headers /\ x.who = y.who
    /\ x.about = y.about /\ x.session = y.session /\ x.entries = y.entries /\ x.over = y.over
    /\ x.sets = y.sets /\ x.tells = y.tells /\ x.right = y.right

LEMMA GoesEffect ==
    ASSUME Typed, NEW r \in Requests, NEW pc \in PCs, Goes(r, pc)
    PROVE  /\ req' \in [Requests -> Request] /\ Others(r)
           /\ req'[r].pc = pc /\ Kin(req'[r], req[r])
<1>1. req[r] \in Request /\ req' = [req EXCEPT ![r] = [req[r] EXCEPT !.pc = pc]]
  BY DEF Typed, Goes
<1>2. [req[r] EXCEPT !.pc = pc] \in Request
  BY <1>1 DEF Request
<1>3. req' \in [Requests -> Request] /\ Others(r) /\ req'[r] = [req[r] EXCEPT !.pc = pc]
  BY <1>1, <1>2 DEF Typed, Others
<1> QED BY <1>1, <1>3 DEF Request, Kin

(* What is left of a request once it has its answer.                       *)
Gone(x, y, status) ==
    /\ x.pc = "answered" /\ x.status = status
    /\ x.route = y.route /\ x.cookie = y.cookie
    /\ x.session = None /\ x.over = {} /\ x.about = None

LEMMA AnsweredFields ==
    ASSUME NEW q \in Request, NEW status \in Statuses
    PROVE  /\ Answered(q, status) \in Request /\ Gone(Answered(q, status), q, status)
           /\ Answered(q, status).entries = q.entries
           /\ Answered(q, status).sets = None /\ Answered(q, status).tells = None
<1>1. Idle \in Request /\ Idle.session = None /\ Idle.over = {} /\ Idle.about = None
      /\ Idle.sets = None /\ Idle.tells = None
  BY IdleIsRequest DEF Idle
<1>2. q.route \in ROUTES /\ q.owner \in People \cup {Nobody} /\ q.cookie \in Sids \cup {None}
      /\ q.entries \in 0..2
  BY DEF Request
<1>3. "answered" \in PCs
  BY DEF PCs
<1> QED BY <1>1, <1>2, <1>3 DEF Answered, Request, Gone

LEMMA AnswerEffect ==
    ASSUME Typed, NEW r \in Requests, NEW status \in Statuses, Answer(r, status)
    PROVE  /\ req' \in [Requests -> Request] /\ Others(r) /\ Gone(req'[r], req[r], status)
           /\ req'[r].entries = req[r].entries /\ req'[r].sets = None /\ req'[r].tells = None
<1>1. req[r] \in Request /\ req' = [req EXCEPT ![r] = Answered(req[r], status)]
  BY DEF Typed, Answer
<1>2. Answered(req[r], status) \in Request
  BY <1>1, AnsweredFields
<1>3. req' \in [Requests -> Request] /\ Others(r) /\ req'[r] = Answered(req[r], status)
  BY <1>1, <1>2 DEF Typed, Others
<1> QED BY <1>1, <1>3, AnsweredFields

LEMMA RecordsEffect ==
    ASSUME Typed, NEW r \in Requests, NEW status \in Statuses, RecordsAndAnswers(r, status),
           req[r].entries < 2
    PROVE  /\ req' \in [Requests -> Request] /\ Others(r) /\ Gone(req'[r], req[r], status)
           /\ req'[r].entries = req[r].entries + 1 /\ req'[r].sets = None /\ req'[r].tells = None
<1> DEFINE a == Answered(req[r], status)
           b == [a EXCEPT !.entries = req[r].entries + 1]
<1>1. req[r] \in Request /\ req' = [req EXCEPT ![r] = b]
  BY DEF Typed, RecordsAndAnswers
<1>2. /\ a \in Request /\ Gone(a, req[r], status) /\ a.entries = req[r].entries
      /\ a.sets = None /\ a.tells = None
  BY <1>1, AnsweredFields
<1>3. req[r].entries + 1 \in 0..2
  BY <1>1 DEF Request
<1> HIDE DEF a
<1>4. b \in Request /\ Gone(b, req[r], status) /\ b.entries = req[r].entries + 1
      /\ b.sets = None /\ b.tells = None
  BY <1>2, <1>3 DEF Request, Gone
<1> HIDE DEF b
<1>5. req' \in [Requests -> Request] /\ Others(r) /\ req'[r] = b
  BY <1>1, <1>4 DEF Typed, Others
<1> QED BY <1>4, <1>5

-----------------------------------------------------------------------------
(* The invariant of a request in flight                                    *)

Issued == {s \in Sids : session[s].user # Nobody}
Drawn == {c \in Challenges : challenge[c].user # Nobody}
Unsafe(r) == ~isSafeMethod(req[r].route.method)

(* The sessions it names exist, and it acts as the one its cookie named.   *)
Owns(r) ==
    /\ req[r].cookie \in Issued \cup {None} /\ req[r].sets \in Issued \cup {None}
    /\ req[r].session \in {None, req[r].cookie}

(* Each step of signing in, signing out and serving belongs to its routes. *)
Routed(r) ==
    /\ req[r].pc \in {"limit", "password", "challenge", "code", "start"} =>
          req[r].route \in {signIn, twoFactor}
    /\ req[r].pc \in {"password", "challenge"} => req[r].route = signIn
    /\ req[r].pc = "code" => req[r].route = twoFactor
    /\ req[r].pc = "end" => req[r].route = signOut
    /\ req[r].pc \in {"resolve", "permit", "denied", "act", "absent", "revoked"} =>
          req[r].route \notin {signIn, twoFactor, signOut}
    /\ req[r].pc = "revoked" => req[r].route = revokeSessions
    /\ req[r].pc \notin {"idle", "answered"} =>
          /\ req[r].route = signIn \/ req[r].pc = "start" => req[r].who \in People
          /\ req[r].route = twoFactor => req[r].about \in Drawn

(* Past the guard its cookie was proven, or names nothing that lives.      *)
Cleared(r) ==
    /\ req[r].pc \in {"end", "resolve"} /\ Unsafe(r) =>
          ~Live(req[r].cookie) \/ Proven(req[r], req[r].cookie)
    /\ req[r].pc \in {"permit", "act"} /\ Unsafe(r) => Proven(req[r], req[r].session)

(* The entries written so far.                                             *)
Logged(r) ==
    /\ req[r].pc \notin {"absent", "answered"} => req[r].entries = 0
    /\ req[r].pc = "absent" => req[r].entries <= 1
    /\ req[r].pc = "answered"
          /\ (req[r].status = 404 \/ (req[r].status = 200 /\ req[r].route = revokeSessions))
       => req[r].entries >= 1

(* What was signed out before it was sent is over, and it is not that.     *)
Outlived(r) ==
    /\ req[r].over \subseteq over /\ req[r].session \notin req[r].over
    /\ req[r].pc = "answered" /\ req[r].route = signOut /\ req[r].status = 200 =>
          ~Live(req[r].cookie)

ReqAt(r) == Owns(r) /\ Routed(r) /\ Cleared(r) /\ Logged(r) /\ Outlived(r)

(* Sessions are issued to somebody and end; nothing lives that is over.    *)
RowsRight == \A s \in Sids : session[s].state = "unissued" <=> session[s].user = Nobody
OverIsDead == over \subseteq Issued /\ \A s \in over : ~Live(s)
JarIssued == \A p \in People : jar[p] \in Issued \cup {None}
OpenIsDrawn == \A c \in Challenges : challenge[c].open => c \in Drawn

RInv == /\ Typed /\ RowsRight /\ OverIsDead /\ JarIssued /\ OpenIsDrawn
        /\ \A r \in Requests : ReqAt(r)

(* What no step takes back.                                                *)
Onward ==
    /\ setting' = setting /\ over \subseteq over'
    /\ Issued \subseteq Issued' /\ Drawn \subseteq Drawn'
    /\ \A s \in Issued : Live(s)' => Live(s)

LEMMA StillProven ==
    ASSUME setting' = setting, NEW r \in Requests, req'[r].headers = req[r].headers, NEW s
    PROVE  Proven(req[r], s) => Proven(req[r], s)'
  BY DEF Proven, trusted

LEMMA LiveOnward ==
    ASSUME Onward, NEW s \in Issued \cup {None}, ~Live(s)
    PROVE  ~Live(s)'
  BY DEF Onward, Live

(* A request nobody moves keeps what it is worth.                          *)
LEMMA ReqKept ==
    ASSUME Onward, NEW x \in Requests, ReqAt(x), req'[x] = req[x]
    PROVE  ReqAt(x)'
<1>1. Owns(x)'
  BY DEF ReqAt, Owns, Onward
<1>2. Routed(x)'
  BY DEF ReqAt, Routed, Onward
<1>3. Cleared(x)'
  <2>1. Unsafe(x)' = Unsafe(x)
    BY DEF Unsafe
  <2>2. ~Live(req[x].cookie) => ~Live(req[x].cookie)'
    <3> DEFINE s == req[x].cookie
    <3>1. PICK t \in Issued \cup {None} : t = req[x].cookie
      BY DEF ReqAt, Owns
    <3>2. ~Live(t) => ~Live(t)'
      BY LiveOnward
    <3> QED BY <3>1, <3>2 DEF Live
  <2>3. Proven(req[x], req[x].cookie) => Proven(req[x], req[x].cookie)'
    BY DEF Proven, trusted, Onward
  <2>4. Proven(req[x], req[x].session) => Proven(req[x], req[x].session)'
    BY DEF Proven, trusted, Onward
  <2> QED BY <2>1, <2>2, <2>3, <2>4 DEF ReqAt, Cleared
<1>4. Logged(x)'
  BY DEF ReqAt, Logged
<1>5. Outlived(x)'
  <2>1. PICK t \in Issued \cup {None} : t = req[x].cookie
    BY DEF ReqAt, Owns
  <2>2. ~Live(t) => ~Live(t)'
    BY LiveOnward
  <2> QED BY <2>1, <2>2 DEF ReqAt, Outlived, Onward, Live
<1> QED BY <1>1, <1>2, <1>3, <1>4, <1>5 DEF ReqAt

(* A request that has its answer.                                          *)
LEMMA ReqGone ==
    ASSUME Onward, NEW r \in Requests, ReqAt(r), NEW status, Gone(req'[r], req[r], status),
           req'[r].sets \in Issued' \cup {None},
           \/ status \notin {200, 404}
           \/ status = 200 /\ req[r].route # revokeSessions
           \/ req'[r].entries >= 1,
           status # 200 \/ req[r].route # signOut \/ req[r].cookie = None
               \/ session'[req[r].cookie].state # "live"
    PROVE  ReqAt(r)'
<1>1. req'[r].pc = "answered" /\ req'[r].route = req[r].route /\ req'[r].cookie = req[r].cookie
      /\ req'[r].session = None /\ req'[r].over = {} /\ req'[r].status = status
  BY DEF Gone
<1>2. Owns(r)'
  BY <1>1 DEF ReqAt, Owns, Onward
<1>3. Routed(r)' /\ Cleared(r)' /\ Logged(r)'
  BY <1>1 DEF Routed, Cleared, Logged
<1>4. Outlived(r)'
  BY <1>1 DEF Outlived, Live
<1> QED BY <1>2, <1>3, <1>4 DEF ReqAt

(* A request that moves on: its new stage is left to show.                 *)
LEMMA ReqMoved ==
    ASSUME Onward, NEW r \in Requests, ReqAt(r), Kin(req'[r], req[r]), req'[r].pc # "answered",
           Routed(r)', Cleared(r)', Logged(r)'
    PROVE  ReqAt(r)'
<1>1. Owns(r)'
  BY DEF ReqAt, Owns, Onward, Kin
<1>2. Outlived(r)'
  BY DEF ReqAt, Outlived, Onward, Kin
<1> QED BY <1>1, <1>2 DEF ReqAt

(* One request moves, and nothing is taken back.                           *)
LEMMA ReqsMove ==
    ASSUME \A x \in Requests : ReqAt(x), Onward, NEW r \in Requests, Others(r), ReqAt(r)'
    PROVE  \A x \in Requests : ReqAt(x)'
  BY ReqKept DEF Others

(* Steps that leave the store and the clients alone.                       *)
LEMMA OnlyReqOnward ==
    ASSUME UNCHANGED <<setting, session, challenge, over>>
    PROVE  Onward
  BY DEF Onward, Issued, Drawn, Live

LEMMA OnlyReqKeeps ==
    ASSUME RInv, OnlyReq, NEW r \in Requests, req' \in [Requests -> Request], Others(r), ReqAt(r)'
    PROVE  RInv'
<1>1. UNCHANGED <<setting, session, challenge, bucket, owes, may, page, jar, told, over, trouble, guesses>>
  BY DEF OnlyReq, store, client
<1>2. Onward
  BY <1>1, OnlyReqOnward
<1>3. Typed'
  BY <1>1 DEF RInv, Typed, BucketOK
<1>4. RowsRight' /\ OverIsDead' /\ JarIssued' /\ OpenIsDrawn'
  BY <1>1 DEF RInv, RowsRight, OverIsDead, JarIssued, OpenIsDrawn, Issued, Drawn, Live
<1>5. \A x \in Requests : ReqAt(x)'
  BY <1>2, ReqsMove DEF RInv
<1> QED BY <1>3, <1>4, <1>5 DEF RInv

LEMMA OnlyReqAnswers ==
    ASSUME RInv, OnlyReq, NEW r \in Requests, NEW status \in {200, 401, 500}, Answer(r, status),
           status = 200 => req[r].route \notin {revokeSessions, signOut}
    PROVE  RInv'
<1>1. Typed /\ ReqAt(r) /\ status \in Statuses
  BY DEF RInv, Statuses
<1>2. Onward
  BY OnlyReqOnward DEF OnlyReq, store, client
<1>3. req' \in [Requests -> Request] /\ Others(r) /\ Gone(req'[r], req[r], status) /\ req'[r].sets = None
  BY <1>1, AnswerEffect
<1>4. \/ status \notin {200, 404}
      \/ status = 200 /\ req[r].route # revokeSessions
      \/ req'[r].entries >= 1
  OBVIOUS
<1>5. status # 200 \/ req[r].route # signOut
  OBVIOUS
<1>6. ReqAt(r)'
  BY <1>1, <1>2, <1>3, <1>4, <1>5, ReqGone
<1> QED BY <1>3, <1>6, OnlyReqKeeps

LEMMA OnlyReqRecords ==
    ASSUME RInv, OnlyReq, NEW r \in Requests, NEW status \in {200, 404}, RecordsAndAnswers(r, status),
           req[r].entries < 2, req[r].route # signOut \/ status # 200
    PROVE  RInv'
<1>1. Typed /\ ReqAt(r) /\ status \in Statuses /\ req[r].entries \in Nat
  BY DEF RInv, Statuses, Typed, Request
<1>2. Onward
  BY OnlyReqOnward DEF OnlyReq, store, client
<1>3. req' \in [Requests -> Request] /\ Others(r) /\ Gone(req'[r], req[r], status) /\ req'[r].sets = None
      /\ req'[r].entries = req[r].entries + 1
  BY <1>1, RecordsEffect
<1>4. req'[r].entries >= 1
  BY <1>1, <1>3
<1>5. ReqAt(r)'
  BY <1>1, <1>2, <1>3, <1>4, ReqGone
<1> QED BY <1>3, <1>5, OnlyReqKeeps

LEMMA OnlyReqGoes ==
    ASSUME RInv, OnlyReq, NEW r \in Requests, NEW pc \in PCs, Goes(r, pc), pc # "answered",
           Routed(r)', Cleared(r)', Logged(r)'
    PROVE  RInv'
<1>1. Typed /\ ReqAt(r)
  BY DEF RInv
<1>2. Onward
  BY OnlyReqOnward DEF OnlyReq, store, client
<1>3. req' \in [Requests -> Request] /\ Others(r) /\ req'[r].pc = pc /\ Kin(req'[r], req[r])
  BY <1>1, GoesEffect
<1>4. ReqAt(r)'
  BY <1>1, <1>2, <1>3, ReqMoved
<1> QED BY <1>3, <1>4, OnlyReqKeeps

-----------------------------------------------------------------------------
(* The guard                                                               *)

(* What is no origin is not trusted.                                       *)
LEMMA TrustedAreOrigins ==
    ASSUME setting \in Settings
    PROVE  NoOrigin \notin trusted
<1>1. ~OriginRefusal(setting.declared)
  BY ServerAssumption
<1>2. CASE setting.declared # {}
  BY <1>1, <1>2 DEF trusted, resolveTrustedOrigins, OriginRefusal
<1>3. CASE setting.declared = {}
  <2>1. Localhost # Everywhere /\ Loopback4 # Everywhere /\ Loopback6 # Everywhere
    BY DEF Localhost, Loopback4, Loopback6, Everywhere, Named, V4, V6
  <2>2. setting.bind # Everywhere \/ classifyAddress(setting.bind) = "wildcard"
    BY DEF classifyAddress, Everywhere
  <2>3. ASSUME NEW raw \in defaultTrustedOrigins(setting.bind, setting.port)
        PROVE  normaliseOrigin(raw) # NoOrigin
    <3>1. PICK h : raw = Origin("http", h, setting.port) /\ h # Everywhere
      BY <2>1, <2>2, <2>3 DEF defaultTrustedOrigins
    <3>2. raw.scheme = "http" /\ raw.host # Everywhere /\ NoOrigin.scheme = "none"
      BY <3>1 DEF Origin, NoOrigin
    <3>3. normaliseOrigin(raw).scheme = "http"
      BY <3>1, <3>2 DEF normaliseOrigin, Origin
    <3> QED BY <3>2, <3>3
  <2> QED BY <1>3, <2>3 DEF trusted, resolveTrustedOrigins
<1> QED BY <1>2, <1>3

(* A request the guard lets pass with a session is proven for it.          *)
LEMMA GuardProves ==
    ASSUME Typed, NEW r \in Requests, NEW s \in Sids, checkCsrf(req[r], s) = "ok"
    PROVE  Proven(req[r], s)
<1> DEFINE h == req[r].headers
           claimed == IF h.origin # <<>> THEN Joined(h.origin) ELSE Joined(h.referer)
<1>1. h \in Headers /\ s # None
  BY DEF Typed, Request, Sids
<1>2. /\ claimed # <<>> /\ normaliseOrigin(claimed[1]) \in trusted
      /\ h.tokens # <<>> /\ ~(Len(h.tokens) > 1 \/ h.tokens[1] # csrfTokenForSessionId(s))
  BY <1>1 DEF checkCsrf
<1>3. h.origin # <<>>
  BY <1>1, <1>2 DEF Headers, Joined
<1>4. normaliseOrigin(h.origin[1]) \in trusted
  <2>1. normaliseOrigin(NoOrigin) = NoOrigin
    BY DEF normaliseOrigin, NoOrigin, Origin
  <2>2. NoOrigin \notin trusted
    BY TrustedAreOrigins DEF Typed
  <2>3. claimed = <<NoOrigin>> \/ claimed = h.origin
    BY <1>3 DEF Joined
  <2> QED BY <1>2, <2>1, <2>2, <2>3
<1>5. h.tokens = <<csrfTokenForSessionId(s)>>
  BY <1>1, <1>2 DEF Headers, TokenLists
<1> QED BY <1>3, <1>4, <1>5 DEF Proven

LEMMA FirstSteps ==
    ASSUME NEW route \in ROUTES
    PROVE  /\ FirstStep(route) \in {"limit", "end", "resolve"}
           /\ FirstStep(route) = "limit" <=> route \in {signIn, twoFactor}
           /\ FirstStep(route) = "end" <=> route = signOut
<1>1. CASE route \in {signIn, twoFactor}
  BY <1>1, RoutesDiffer DEF FirstStep
<1>2. CASE route = signOut
  BY <1>2, RoutesDiffer DEF FirstStep
<1>3. CASE route \notin {signIn, twoFactor, signOut}
  BY <1>3 DEF FirstStep
<1> QED BY <1>1, <1>2, <1>3

LEMMA GuardKeeps ==
    ASSUME RInv, NEW r \in Requests, Guard(r)
    PROVE  RInv'
<1> DEFINE q == req[r]
           s == IF Live(q.cookie) THEN q.cookie ELSE None
           pc == IF s = None \/ checkCsrf(q, s) = "ok" THEN FirstStep(q.route) ELSE "rejected"
<1>1. q \in Request /\ ReqAt(r) /\ q.pc = "guard" /\ Typed
  BY DEF RInv, Typed, Guard
<1>2. Goes(r, pc) /\ OnlyReq
  BY DEF Guard
<1>3. q.route \in ROUTES /\ q.cookie \in Sids \cup {None}
  BY <1>1 DEF Request
<1>4. FirstStep(q.route) \in {"limit", "end", "resolve"}
  BY <1>3, FirstSteps
<1>5. pc \in PCs /\ pc # "answered"
  BY <1>4 DEF PCs
<1>6. s = None => ~Live(q.cookie)
  BY DEF Live
<1>7. s # None => s \in Sids /\ s = q.cookie
  BY <1>3
<1>8. pc = "rejected" \/ ~Live(q.cookie) \/ Proven(q, q.cookie)
  BY <1>1, <1>6, <1>7, GuardProves
<1>9. pc \in {"limit", "end", "resolve", "rejected"}
      /\ (pc = "limit" => q.route \in {signIn, twoFactor}) /\ (pc = "end" => q.route = signOut)
      /\ (pc = "resolve" => q.route \notin {signIn, twoFactor, signOut})
  BY <1>3, <1>4, FirstSteps
<1> HIDE DEF pc, s
<1>10. Kin(req'[r], q) /\ req'[r].pc = pc
  BY <1>1, <1>2, <1>5, GoesEffect
<1>11. session' = session /\ challenge' = challenge /\ setting' = setting
  BY <1>2 DEF OnlyReq, store
<1>12. Routed(r)'
  BY <1>1, <1>9, <1>10, <1>11 DEF ReqAt, Routed, Kin, Drawn
<1>13. Cleared(r)'
  BY <1>8, <1>9, <1>10, <1>11 DEF Cleared, Kin, Live, Proven, trusted
<1>14. Logged(r)'
  BY <1>1, <1>9, <1>10 DEF ReqAt, Logged, Kin
<1> QED BY <1>1, <1>2, <1>5, <1>12, <1>13, <1>14, OnlyReqGoes

LEMMA RecordRejectionKeeps ==
    ASSUME RInv, NEW r \in Requests, RecordRejection(r)
    PROVE  RInv'
<1>1. req[r].entries = 0
  BY DEF RInv, ReqAt, Logged, RecordRejection, At
<1> QED BY <1>1, OnlyReqRecords DEF RecordRejection

-----------------------------------------------------------------------------
(* Signing in, which leaves the clients alone                              *)

LEMMA VerifyPasswordKeeps ==
    ASSUME RInv, NEW r \in Requests, VerifyPassword(r)
    PROVE  RInv'
<1> DEFINE pc == IF req[r].who \in owes THEN "challenge" ELSE "start"
<1>1. req[r].pc = "password" /\ ReqAt(r) /\ Typed /\ OnlyReq
  BY DEF RInv, VerifyPassword, At
<1>2. req[r].route = signIn /\ req[r].who \in People
  BY <1>1 DEF ReqAt, Routed
<1>3. CASE Goes(r, pc)
  <2>1. pc \in PCs /\ pc \in {"challenge", "start"}
    BY DEF PCs
  <2> HIDE DEF pc
  <2>2. req'[r].pc = pc /\ Kin(req'[r], req[r])
    BY <1>1, <1>3, <2>1, GoesEffect
  <2>3. Routed(r)' /\ Cleared(r)' /\ Logged(r)'
    BY <1>1, <1>2, <2>1, <2>2, RoutesDiffer DEF ReqAt, Routed, Cleared, Logged, Kin
  <2> QED BY <1>1, <1>3, <2>1, <2>3, OnlyReqGoes
<1>4. CASE Answer(r, 401)
  BY <1>1, <1>4, OnlyReqAnswers
<1> QED BY <1>3, <1>4 DEF VerifyPassword

-----------------------------------------------------------------------------
(* A guarded route                                                         *)

LEMMA ResolveKeeps ==
    ASSUME RInv, NEW r \in Requests, Resolve(r)
    PROVE  RInv'
<1> DEFINE q == req[r]
<1>1. q.pc = "resolve" /\ ReqAt(r) /\ Typed /\ OnlyReq /\ q \in Request
  BY DEF RInv, Resolve, At, Typed
<1>2. q.route \notin {signIn, twoFactor, signOut}
  BY <1>1 DEF ReqAt, Routed
<1>3. CASE Live(q.cookie)
  <2> DEFINE y == [q EXCEPT !.pc = "permit", !.session = q.cookie, !.as = session[q.cookie].user]
  <2>1. req' = [req EXCEPT ![r] = y]
    BY <1>3 DEF Resolve
  <2>2. q.cookie \in Sids /\ session[q.cookie] \in Sessions
    BY <1>1, <1>3 DEF Request, Live, Typed
  <2>3. y \in Request
    BY <1>1, <2>2 DEF Request, Sessions, PCs
  <2>4. /\ y.pc = "permit" /\ y.route = q.route /\ y.cookie = q.cookie /\ y.headers = q.headers
        /\ y.session = q.cookie /\ y.entries = q.entries /\ y.over = q.over /\ y.sets = q.sets
        /\ y.who = q.who /\ y.about = q.about
    BY <1>1 DEF Request
  <2> HIDE DEF y
  <2>5. req' \in [Requests -> Request] /\ Others(r) /\ req'[r] = y
    BY <1>1, <2>1, <2>3 DEF Typed, Others
  <2>6. session' = session /\ challenge' = challenge /\ setting' = setting /\ over' = over
    BY <1>1 DEF OnlyReq, store, client
  <2>7. Owns(r)' /\ Routed(r)' /\ Logged(r)'
    BY <1>1, <1>2, <2>4, <2>5, <2>6 DEF ReqAt, Owns, Routed, Logged, Issued, Drawn
  <2>8. Cleared(r)'
    BY <1>1, <1>3, <2>4, <2>5, <2>6 DEF ReqAt, Cleared, Unsafe, Proven, trusted
  <2>9. q.cookie \notin q.over
    BY <1>1, <1>3 DEF RInv, ReqAt, Outlived, OverIsDead
  <2>10. Outlived(r)'
    BY <1>1, <2>4, <2>5, <2>6, <2>9 DEF ReqAt, Outlived
  <2> QED BY <1>1, <2>5, <2>7, <2>8, <2>10, OnlyReqKeeps DEF ReqAt
<1>4. CASE ~Live(q.cookie)
  <2>1. Answer(r, 401)
    BY <1>4 DEF Resolve
  <2> QED BY <1>1, <2>1, OnlyReqAnswers
<1> QED BY <1>3, <1>4

LEMMA PermitKeeps ==
    ASSUME RInv, NEW r \in Requests, Permit(r)
    PROVE  RInv'
<1>1. req[r].pc = "permit" /\ ReqAt(r) /\ Typed /\ OnlyReq
  BY DEF RInv, Permit
<1>2. ASSUME NEW pc \in {"act", "denied"}, Goes(r, pc)
      PROVE  RInv'
  <2>1. pc \in PCs
    BY DEF PCs
  <2>2. req'[r].pc = pc /\ Kin(req'[r], req[r])
    BY <1>1, <1>2, <2>1, GoesEffect
  <2>3. setting' = setting /\ challenge' = challenge
    BY <1>1 DEF OnlyReq, store
  <2>4. Routed(r)' /\ Logged(r)'
    BY <1>1, <2>2, <2>3 DEF ReqAt, Routed, Logged, Kin, Drawn
  <2>5. Cleared(r)'
    BY <1>1, <2>2, <2>3 DEF ReqAt, Cleared, Kin, Unsafe, Proven, trusted
  <2> QED BY <1>1, <1>2, <2>1, <2>4, <2>5, OnlyReqGoes
<1>3. CASE Answer(r, 500)
  BY <1>1, <1>3, OnlyReqAnswers
<1> QED BY <1>2, <1>3 DEF Permit

LEMMA RecordDenialKeeps ==
    ASSUME RInv, NEW r \in Requests, RecordDenial(r)
    PROVE  RInv'
<1> DEFINE q == req[r]
           y == [q EXCEPT !.pc = "absent", !.entries = q.entries + 1]
<1>1. q.pc = "denied" /\ ReqAt(r) /\ Typed /\ OnlyReq /\ q \in Request
  BY DEF RInv, RecordDenial, At, Typed
<1>2. q.entries = 0
  BY <1>1 DEF ReqAt, Logged
<1>3. CASE req' = [req EXCEPT ![r].pc = "absent", ![r].entries = @ + 1]
  <2>1. req' = [req EXCEPT ![r] = y]
    BY <1>1, <1>3 DEF Typed, Request
  <2>0. "absent" \in PCs /\ q.entries + 1 = 1 /\ 1 \in 0..2
    BY <1>2 DEF PCs
  <2>2. y \in Request /\ y.pc = "absent" /\ y.entries = 1
    BY <1>1, <2>0 DEF Request
  <2>3. /\ Kin([y EXCEPT !.entries = q.entries], q) /\ y.route = q.route /\ y.cookie = q.cookie
        /\ y.headers = q.headers /\ y.session = q.session /\ y.over = q.over /\ y.sets = q.sets
        /\ y.who = q.who /\ y.about = q.about
    BY <1>1 DEF Request, Kin
  <2> HIDE DEF y
  <2>4. req' \in [Requests -> Request] /\ Others(r) /\ req'[r] = y
    BY <1>1, <2>1, <2>2 DEF Typed, Others
  <2>5. session' = session /\ challenge' = challenge /\ over' = over
    BY <1>1 DEF OnlyReq, store, client
  <2>6. Owns(r)' /\ Routed(r)' /\ Cleared(r)' /\ Logged(r)' /\ Outlived(r)'
    BY <1>1, <2>2, <2>3, <2>4, <2>5
       DEF ReqAt, Owns, Routed, Cleared, Logged, Outlived, Issued, Drawn
  <2> QED BY <1>1, <2>4, <2>6, OnlyReqKeeps DEF ReqAt
<1>4. CASE RecordsAndAnswers(r, 404)
  BY <1>1, <1>2, <1>4, OnlyReqRecords
<1> QED BY <1>3, <1>4 DEF RecordDenial

LEMMA ActReadKeeps ==
    ASSUME RInv, NEW r \in Requests, ActRead(r)
    PROVE  RInv'
<1>1. /\ req[r].pc = "act" /\ ReqAt(r) /\ Typed /\ OnlyReq /\ req[r].route # revokeSessions
      /\ req[r].route # signOut
  BY DEF RInv, ActRead, At, ReqAt, Routed
<1>2. CASE Answer(r, 200)
  BY <1>1, <1>2, OnlyReqAnswers
<1>3. CASE Goes(r, "absent")
  <2>1. req'[r].pc = "absent" /\ Kin(req'[r], req[r])
    BY <1>1, <1>3, GoesEffect DEF PCs
  <2>2. challenge' = challenge
    BY <1>1 DEF OnlyReq, store
  <2>3. Routed(r)' /\ Cleared(r)' /\ Logged(r)'
    BY <1>1, <2>1, <2>2 DEF ReqAt, Routed, Cleared, Logged, Kin, Drawn
  <2> QED BY <1>1, <1>3, <2>3, OnlyReqGoes DEF PCs
<1> QED BY <1>2, <1>3 DEF ActRead

LEMMA RecordAbsenceKeeps ==
    ASSUME RInv, NEW r \in Requests, RecordAbsence(r)
    PROVE  RInv'
<1>1. req[r].entries \in 0..2 /\ req[r].entries <= 1
  BY DEF RInv, Typed, Request, ReqAt, Logged, RecordAbsence, At
<1> QED BY <1>1, OnlyReqRecords DEF RecordAbsence

LEMMA RecordRevocationKeeps ==
    ASSUME RInv, NEW r \in Requests, RecordRevocation(r)
    PROVE  RInv'
<1>1. req[r].entries = 0 /\ req[r].route = revokeSessions
  BY DEF RInv, ReqAt, Logged, Routed, RecordRevocation, At
<1> QED BY <1>1, RoutesDiffer, OnlyReqRecords DEF RecordRevocation

-----------------------------------------------------------------------------
(* Steps of one request that change the store                              *)

LEMMA RequestKeeps ==
    ASSUME RInv, NEW r \in Requests, Others(r), ReqAt(r)', Onward, Typed',
           RowsRight', OverIsDead', JarIssued', OpenIsDrawn'
    PROVE  RInv'
  BY ReqsMove DEF RInv

LEMMA LimitsPositive ==
    /\ AccountLimit \in Nat \ {0} /\ AddressLimit \in Nat \ {0}
    /\ Window \in Nat \ {0} /\ ChallengeLife \in Nat
    /\ \A b : LimitOf(b) \in Nat \ {0}
  BY ServerAssumption DEF LimitOf

LEMMA CountedOK ==
    ASSUME Typed, NEW b \in Buckets, HasRoom(b)
    PROVE  /\ Counted(b) \in Attempts /\ Counted(b).used \in 0..LimitOf(b)
           /\ Counted(b).used = bucket[b].used + 1 /\ Counted(b).left \in 1..Window
           /\ (bucket[b].used > 0 => Counted(b).left = bucket[b].left)
           /\ (bucket[b].used = 0 => Counted(b).left = Window)
<1>1. BucketOK(b) /\ bucket[b] \in Attempts /\ LimitOf(b) \in Nat /\ Window \in Nat \ {0}
  BY LimitsPositive DEF Typed
<1>2. bucket[b].used \in Nat /\ bucket[b].left \in Nat
  BY <1>1 DEF Attempts
<1> QED BY <1>1, <1>2 DEF Counted, Opened, HasRoom, BucketOK, Attempts

LEMMA RecordAuthAttemptKeeps ==
    ASSUME RInv, NEW r \in Requests, RecordAuthAttempt(r)
    PROVE  RInv'
<1> DEFINE pc == IF req[r].route = signIn THEN "password" ELSE "code"
           keys == Dimensions(req[r])
<1>1. req[r].pc = "limit" /\ ReqAt(r) /\ Typed /\ req[r].route \in {signIn, twoFactor}
  BY DEF RInv, RecordAuthAttempt, At, ReqAt, Routed
<1>2. UNCHANGED <<setting, session, challenge, owes, may, page, jar, told, over, trouble, guesses>>
  BY DEF RecordAuthAttempt, client
<1>3. Onward
  BY <1>2, OnlyReqOnward
<1>4. bucket' = [b \in Buckets |-> IF b \in keys /\ HasRoom(b) THEN Counted(b) ELSE bucket[b]]
  BY DEF RecordAuthAttempt
<1> HIDE DEF keys
<1>5. bucket' \in [Buckets -> Attempts] /\ \A b \in Buckets : BucketOK(b)'
  <2>1. ASSUME NEW b \in Buckets
        PROVE  bucket'[b] \in Attempts /\ BucketOK(b)'
    <3>1. CASE b \in keys /\ HasRoom(b)
      <4>1. bucket'[b] = Counted(b)
        BY <1>4, <3>1
      <4>2. /\ Counted(b) \in Attempts /\ Counted(b).used \in 0..LimitOf(b)
            /\ Counted(b).used = bucket[b].used + 1 /\ Counted(b).left \in 1..Window
        BY <1>1, <3>1, CountedOK
      <4>3. bucket[b].used \in Nat /\ Window \in Nat
        BY <1>1, LimitsPositive DEF Typed, Attempts
      <4>4. Counted(b).used # 0 /\ Counted(b).left # 0 /\ Counted(b).left \in 0..Window
        BY <4>2, <4>3
      <4> QED BY <4>1, <4>2, <4>4 DEF BucketOK, LimitOf
    <3>2. CASE ~(b \in keys /\ HasRoom(b))
      <4>1. bucket'[b] = bucket[b]
        BY <1>4, <3>2
      <4> QED BY <1>1, <4>1 DEF Typed, BucketOK
    <3> QED BY <3>1, <3>2
  <2> QED BY <1>4, <2>1
<1>6. req' \in [Requests -> Request] /\ Others(r) /\ ReqAt(r)'
  <2>1. CASE Goes(r, pc)
    <3>1. pc \in PCs /\ pc \in {"password", "code"} /\ (pc = "password" <=> req[r].route = signIn)
      BY DEF PCs
    <3> HIDE DEF pc
    <3>2. req' \in [Requests -> Request] /\ Others(r) /\ req'[r].pc = pc /\ Kin(req'[r], req[r])
      BY <1>1, <2>1, <3>1, GoesEffect
    <3>3. Routed(r)' /\ Cleared(r)' /\ Logged(r)'
      BY <1>1, <1>2, <3>1, <3>2, RoutesDiffer DEF ReqAt, Routed, Cleared, Logged, Kin, Drawn
    <3> QED BY <1>1, <1>3, <3>1, <3>2, <3>3, ReqMoved
  <2>2. CASE Answer(r, 401)
    <3>1. req' \in [Requests -> Request] /\ Others(r) /\ Gone(req'[r], req[r], 401) /\ req'[r].sets = None
      BY <1>1, <2>2, AnswerEffect DEF Statuses
    <3> QED BY <1>1, <1>3, <3>1, ReqGone
  <2> QED BY <2>1, <2>2 DEF RecordAuthAttempt
<1>7. Typed'
  BY <1>1, <1>2, <1>5, <1>6 DEF Typed
<1>8. RowsRight' /\ OverIsDead' /\ JarIssued' /\ OpenIsDrawn'
  BY <1>2 DEF RInv, RowsRight, OverIsDead, JarIssued, OpenIsDrawn, Issued, Drawn, Live
<1> QED BY <1>3, <1>6, <1>7, <1>8, RequestKeeps

LEMMA FreshIsUnissued ==
    ASSUME NEW ids, NEW row, NEW i \in Fresh(ids, row)
    PROVE  i \in ids /\ row[i].user = Nobody
  BY DEF Fresh, Unissued

LEMMA IssueChallengeKeeps ==
    ASSUME RInv, NEW r \in Requests, IssueChallenge(r)
    PROVE  RInv'
<1> DEFINE q == req[r]
           row == [user |-> q.who, open |-> TRUE, left |-> ChallengeLife]
           y == [Answered(q, 401) EXCEPT !.tells = None]
<1>1. q.pc = "challenge" /\ ReqAt(r) /\ Typed /\ q \in Request
  BY DEF RInv, IssueChallenge, At, Typed
<1>2. q.who \in People /\ q.who # Nobody /\ q.route = signIn
  BY <1>1, ServerAssumption DEF ReqAt, Routed
<1>3. PICK c \in Fresh(Challenges, challenge) :
          challenge' = [challenge EXCEPT ![c] = row] /\ req' = [req EXCEPT ![r] = y]
  BY DEF IssueChallenge, secondFactorOwed
<1>4. c \in Challenges /\ challenge[c].user = Nobody
  BY FreshIsUnissued
<1>5. UNCHANGED <<setting, session, bucket, owes, may, page, jar, told, over, trouble, guesses>>
  BY DEF IssueChallenge, client
<1>6. row \in Owed
  BY <1>2, LimitsPositive DEF Owed
<1>7. challenge' \in [Challenges -> Owed] /\ c \in Drawn' /\ Drawn \subseteq Drawn'
  BY <1>1, <1>2, <1>3, <1>4, <1>6 DEF Typed, Drawn
<1>8. Onward
  BY <1>5, <1>7 DEF Onward, Issued, Live
<1>9. y \in Request /\ Gone(y, q, 401) /\ y.sets = None
  <2>1. /\ Answered(q, 401) \in Request /\ Gone(Answered(q, 401), q, 401)
        /\ Answered(q, 401).sets = None /\ Answered(q, 401).tells = None
    BY <1>1, AnsweredFields DEF Statuses
  <2> QED BY <2>1 DEF Request, Gone
<1> HIDE DEF y
<1>10. req' \in [Requests -> Request] /\ Others(r) /\ req'[r] = y
  BY <1>1, <1>3, <1>9 DEF Typed, Others
<1>11. ReqAt(r)'
  BY <1>1, <1>8, <1>9, <1>10, ReqGone
<1>12. Typed'
  BY <1>1, <1>5, <1>7, <1>10 DEF Typed, BucketOK
<1>13. RowsRight' /\ OverIsDead' /\ JarIssued'
  BY <1>5 DEF RInv, RowsRight, OverIsDead, JarIssued, Issued, Live
<1>14. OpenIsDrawn'
  BY <1>1, <1>3, <1>4, <1>7 DEF RInv, OpenIsDrawn, Typed
<1> QED BY <1>8, <1>10, <1>11, <1>12, <1>13, <1>14, RequestKeeps

LEMMA StartSessionKeeps ==
    ASSUME RInv, NEW r \in Requests, StartSession(r)
    PROVE  RInv'
<1> DEFINE q == req[r]
           row == [user |-> q.who, state |-> "live"]
<1>1. q.pc = "start" /\ ReqAt(r) /\ Typed /\ q \in Request
  BY DEF RInv, StartSession, At, Typed
<1>2. q.who \in People /\ q.who # Nobody /\ q.route \in {signIn, twoFactor}
  BY <1>1, ServerAssumption DEF ReqAt, Routed
<1>3. PICK s \in Fresh(Sids, session) :
          session' = [session EXCEPT ![s] = row] /\ req' = [req EXCEPT ![r] = [Answered(q, 200) EXCEPT !.sets = s]]
  BY DEF StartSession
<1>4. s \in Sids /\ session[s].user = Nobody
  BY FreshIsUnissued
<1>5. UNCHANGED <<setting, challenge, bucket, owes, may, page, jar, told, over, trouble, guesses>>
  BY DEF StartSession, client
<1>6. row \in Sessions
  BY <1>2 DEF Sessions
<1>7. session' \in [Sids -> Sessions] /\ session'[s] = row /\ \A t \in Sids \ {s} : session'[t] = session[t]
  BY <1>1, <1>3, <1>4, <1>6 DEF Typed
<1>8. s \in Issued' /\ s \notin Issued /\ Issued \subseteq Issued'
  BY <1>2, <1>4, <1>7 DEF Issued
<1>9. Onward
  BY <1>4, <1>5, <1>7, <1>8 DEF Onward, Drawn, Live, Issued
<1> DEFINE y == [Answered(q, 200) EXCEPT !.sets = s]
<1>10. y \in Request /\ Gone(y, q, 200) /\ y.sets = s
  <2>1. Answered(q, 200) \in Request /\ Gone(Answered(q, 200), q, 200)
    BY <1>1, AnsweredFields DEF Statuses
  <2> QED BY <1>4, <2>1 DEF Request, Gone
<1> HIDE DEF y
<1>11. req' \in [Requests -> Request] /\ Others(r) /\ req'[r] = y
  BY <1>1, <1>3, <1>10 DEF Typed, Others, y
<1>12. q.route # revokeSessions /\ q.route # signOut
  BY <1>2, RoutesDiffer
<1>13. req'[r].sets \in Issued' \cup {None} /\ Gone(req'[r], q, 200)
  BY <1>8, <1>10, <1>11
<1>14. ReqAt(r)'
  BY <1>1, <1>9, <1>12, <1>13, ReqGone
<1>15. Typed'
  BY <1>1, <1>5, <1>7, <1>11 DEF Typed, BucketOK
<1>16. RowsRight' /\ JarIssued' /\ OpenIsDrawn'
  BY <1>2, <1>5, <1>7, <1>8 DEF RInv, RowsRight, JarIssued, OpenIsDrawn, Drawn
<1>17. OverIsDead'
  BY <1>5, <1>8, <1>9 DEF RInv, OverIsDead, Onward
<1> QED BY <1>9, <1>11, <1>14, <1>15, <1>16, <1>17, RequestKeeps

LEMMA VerifySecondFactorKeeps ==
    ASSUME RInv, NEW r \in Requests, VerifySecondFactor(r)
    PROVE  RInv'
<1> DEFINE q == req[r]
           c == q.about
           live == c # None /\ challenge[c].open /\ challenge[c].left > 0
           y == [q EXCEPT !.pc = "start", !.who = challenge[c].user]
<1>1. q.pc = "code" /\ ReqAt(r) /\ Typed /\ q \in Request /\ q.route = twoFactor
  BY DEF RInv, VerifySecondFactor, At, Typed, ReqAt, Routed
<1>2. c \in Challenges /\ challenge[c].user # Nobody
  BY <1>1 DEF ReqAt, Routed, Drawn
<1>3. UNCHANGED <<setting, session, bucket, owes, may, page, jar, told, over, trouble>>
  BY DEF VerifySecondFactor, client
<1>4. guesses' \in [Challenges -> Nat]
  BY <1>1, <1>2 DEF VerifySecondFactor, Typed
<1>5. /\ challenge' \in [Challenges -> Owed] /\ Drawn' = Drawn
      /\ (\A d \in Challenges : challenge'[d].open => challenge[d].open)
      /\ Onward /\ req' \in [Requests -> Request] /\ Others(r) /\ ReqAt(r)'
  <2>1. CASE live /\ q.right /\ challenge[c].user \in owes
    <3>1. challenge' = [challenge EXCEPT ![c].open = FALSE] /\ req' = [req EXCEPT ![r] = y]
      BY <2>1 DEF VerifySecondFactor
    <3>2. challenge' \in [Challenges -> Owed] /\ Drawn' = Drawn
          /\ \A d \in Challenges : challenge'[d].open => challenge[d].open
      <4>1. challenge' = [challenge EXCEPT ![c] = [challenge[c] EXCEPT !.open = FALSE]]
        BY <1>1, <1>2, <3>1 DEF Typed
      <4>2. challenge[c] \in Owed /\ [challenge[c] EXCEPT !.open = FALSE] \in Owed
        BY <1>1, <1>2 DEF Typed, Owed
      <4> QED BY <1>1, <4>1, <4>2 DEF Typed, Drawn, Owed
    <3>3. Onward
      BY <1>3, <3>2 DEF Onward, Issued, Live
    <3>4. challenge[c].user \in People
      BY <1>1, <2>1 DEF Typed
    <3>5. y \in Request /\ y.pc = "start"
      BY <1>1, <3>4 DEF Request, PCs
    <3>6. /\ y.route = q.route /\ y.cookie = q.cookie /\ y.session = q.session /\ y.over = q.over
          /\ y.entries = q.entries /\ y.sets = q.sets /\ y.about = q.about
          /\ y.who = challenge[c].user
      BY <1>1 DEF Request
    <3> HIDE DEF y
    <3>7. req' \in [Requests -> Request] /\ Others(r) /\ req'[r] = y
      BY <1>1, <3>1, <3>5 DEF Typed, Others
    <3>8. Owns(r)' /\ Routed(r)' /\ Cleared(r)' /\ Logged(r)' /\ Outlived(r)'
      BY <1>1, <1>3, <3>2, <3>4, <3>5, <3>6, <3>7, RoutesDiffer
         DEF ReqAt, Owns, Routed, Cleared, Logged, Outlived, Issued
    <3> QED BY <3>2, <3>3, <3>7, <3>8 DEF ReqAt
  <2>2. CASE ~(live /\ q.right /\ challenge[c].user \in owes)
    <3>1. Answer(r, 401) /\ challenge' = challenge
      BY <2>2 DEF VerifySecondFactor
    <3>2. Onward /\ Drawn' = Drawn
      BY <1>3, <3>1, OnlyReqOnward DEF Drawn
    <3>3. req' \in [Requests -> Request] /\ Others(r) /\ Gone(req'[r], q, 401) /\ req'[r].sets = None
      BY <1>1, <3>1, AnswerEffect DEF Statuses
    <3>4. ReqAt(r)'
      BY <1>1, <3>2, <3>3, ReqGone
    <3> QED BY <1>1, <3>1, <3>2, <3>3, <3>4 DEF Typed
  <2> QED BY <2>1, <2>2
<1>6. Typed'
  BY <1>1, <1>3, <1>4, <1>5 DEF Typed, BucketOK
<1>7. RowsRight' /\ OverIsDead' /\ JarIssued' /\ OpenIsDrawn'
  BY <1>3, <1>5 DEF RInv, RowsRight, OverIsDead, JarIssued, OpenIsDrawn, Issued, Live
<1> QED BY <1>5, <1>6, <1>7, RequestKeeps

(* Sessions end, and keep their people.                                    *)
LEMMA EndedFacts ==
    ASSUME Typed, NEW K, NEW s \in Sids
    PROVE  /\ Ended(K)[s] \in Sessions /\ Ended(K)[s].user = session[s].user
           /\ (Ended(K)[s].state = "unissued" <=> session[s].state = "unissued")
           /\ (Ended(K)[s].state = "live" <=> session[s].state = "live" /\ s \notin K)
           /\ (Ended(K)[s] = session[s] \/ (s \in K /\ Live(s) /\ Ended(K)[s].state = "dead"))
<1>1. session[s] \in Sessions /\ s # None
  BY DEF Typed, Sids
<1>2. CASE s \in K /\ Live(s)
  <2>1. Ended(K)[s] = [session[s] EXCEPT !.state = "dead"] /\ session[s].state = "live"
    BY <1>2 DEF Ended, Live
  <2> QED BY <1>1, <1>2, <2>1 DEF Sessions
<1>3. CASE ~(s \in K /\ Live(s))
  BY <1>1, <1>3 DEF Ended, Live
<1> QED BY <1>2, <1>3

LEMMA EndedKeeps ==
    ASSUME RInv, NEW K, session' = Ended(K), UNCHANGED <<setting, challenge, over, jar>>
    PROVE  /\ session' \in [Sids -> Sessions] /\ Issued' = Issued /\ Onward
           /\ RowsRight' /\ OverIsDead' /\ JarIssued' /\ OpenIsDrawn'
<1>1. Typed
  BY DEF RInv
<1>2. DOMAIN session' = Sids /\ session' = [s \in Sids |-> Ended(K)[s]]
  BY DEF Ended
<1>3. session' \in [Sids -> Sessions]
  BY <1>1, <1>2, EndedFacts
<1>4. Issued' = Issued
  BY <1>1, EndedFacts DEF Issued
<1>5. \A s \in Sids : Live(s)' => Live(s)
  BY <1>1, EndedFacts DEF Live
<1>6. Onward
  BY <1>4, <1>5 DEF Onward, Drawn, Issued
<1>7. RowsRight'
  BY <1>1, EndedFacts DEF RInv, RowsRight
<1>8. OverIsDead' /\ JarIssued'
  BY <1>4, <1>5 DEF RInv, OverIsDead, JarIssued, Issued
<1>9. OpenIsDrawn'
  BY DEF RInv, OpenIsDrawn, Drawn
<1> QED BY <1>3, <1>4, <1>6, <1>7, <1>8, <1>9

LEMMA SignOutKeeps ==
    ASSUME RInv, NEW r \in Requests, SignOut(r)
    PROVE  RInv'
<1> DEFINE q == req[r]
<1>1. q.pc = "end" /\ ReqAt(r) /\ Typed /\ q.route = signOut /\ q \in Request
  BY DEF RInv, SignOut, At, ReqAt, Routed, Typed
<1>2. session' = Ended({q.cookie}) /\ Answer(r, 200)
      /\ UNCHANGED <<setting, challenge, bucket, owes, may, page, jar, told, over, trouble, guesses>>
  BY DEF SignOut, client
<1>3. /\ session' \in [Sids -> Sessions] /\ Issued' = Issued /\ Onward
      /\ RowsRight' /\ OverIsDead' /\ JarIssued' /\ OpenIsDrawn'
  BY <1>2, EndedKeeps
<1>4. req' \in [Requests -> Request] /\ Others(r) /\ Gone(req'[r], q, 200) /\ req'[r].sets = None
  BY <1>1, <1>2, AnswerEffect DEF Statuses
<1>5. q.cookie = None \/ session'[q.cookie].state # "live"
  <2>1. CASE q.cookie \in Sids
    BY <1>1, <1>2, <2>1, EndedFacts
  <2> QED BY <1>1, <2>1 DEF Request
<1>6. ReqAt(r)'
  BY <1>1, <1>3, <1>4, <1>5, RoutesDiffer, ReqGone
<1>7. Typed'
  BY <1>1, <1>2, <1>3, <1>4 DEF Typed, BucketOK
<1> QED BY <1>3, <1>4, <1>6, <1>7, RequestKeeps

LEMMA ActRevokeKeeps ==
    ASSUME RInv, NEW r \in Requests, ActRevoke(r)
    PROVE  RInv'
<1> DEFINE q == req[r]
           K == {s \in Sids : session[s].user = req[r].who}
<1>1. q.pc = "act" /\ ReqAt(r) /\ Typed /\ q.route = revokeSessions
  BY DEF RInv, ActRevoke, At
<1>2. session' = Ended(K) /\ Goes(r, "revoked")
      /\ UNCHANGED <<setting, challenge, bucket, owes, may, page, jar, told, over, trouble, guesses>>
  BY DEF ActRevoke, client
<1> HIDE DEF K
<1>3. /\ session' \in [Sids -> Sessions] /\ Issued' = Issued /\ Onward
      /\ RowsRight' /\ OverIsDead' /\ JarIssued' /\ OpenIsDrawn'
  BY <1>2, EndedKeeps
<1>4. "revoked" \in PCs
  BY DEF PCs
<1>5. req' \in [Requests -> Request] /\ Others(r) /\ req'[r].pc = "revoked" /\ Kin(req'[r], q)
  BY <1>1, <1>2, <1>4, GoesEffect
<1>6. Routed(r)' /\ Cleared(r)' /\ Logged(r)'
  BY <1>1, <1>2, <1>5, RoutesDiffer DEF ReqAt, Routed, Cleared, Logged, Kin, Drawn
<1>7. ReqAt(r)'
  BY <1>1, <1>3, <1>5, <1>6, ReqMoved
<1>8. Typed'
  BY <1>1, <1>2, <1>3, <1>5 DEF Typed, BucketOK
<1> QED BY <1>3, <1>5, <1>7, <1>8, RequestKeeps

LEMMA FailKeeps ==
    ASSUME RInv, NEW r \in Requests, Fail(r)
    PROVE  RInv'
<1> DEFINE status == IF req[r].pc = "limit" THEN 401 ELSE 500
<1>1. ReqAt(r) /\ Typed /\ Answer(r, status) /\ status \in {401, 500} /\ status \in Statuses
  BY DEF RInv, Fail, Statuses
<1> HIDE DEF status
<1>2. UNCHANGED <<setting, session, challenge, bucket, owes, may, page, jar, told, over, guesses>>
      /\ trouble < MaxTrouble /\ trouble' = trouble + 1
  BY DEF Fail, Trouble, store, client
<1>3. Onward
  BY <1>2, OnlyReqOnward
<1>4. req' \in [Requests -> Request] /\ Others(r) /\ Gone(req'[r], req[r], status) /\ req'[r].sets = None
  BY <1>1, AnswerEffect
<1>5. ReqAt(r)'
  BY <1>1, <1>3, <1>4, ReqGone
<1>6. trouble' \in 0..MaxTrouble
  BY <1>1, <1>2, ServerAssumption DEF Typed
<1>7. Typed'
  BY <1>1, <1>2, <1>4, <1>6 DEF Typed, BucketOK
<1>8. RowsRight' /\ OverIsDead' /\ JarIssued' /\ OpenIsDrawn'
  BY <1>2 DEF RInv, RowsRight, OverIsDead, JarIssued, OpenIsDrawn, Issued, Drawn, Live
<1> QED BY <1>3, <1>4, <1>5, <1>7, <1>8, RequestKeeps

-----------------------------------------------------------------------------
(* Clients                                                                 *)

LEMMA IdleAt ==
    ASSUME NEW r \in Requests, req'[r] = Idle
    PROVE  ReqAt(r)'
<1>1. /\ req'[r].pc = "idle" /\ req'[r].cookie = None /\ req'[r].sets = None /\ req'[r].session = None
      /\ req'[r].over = {} /\ req'[r].entries = 0
  BY IdleFields
<1> QED BY <1>1 DEF ReqAt, Owns, Routed, Cleared, Logged, Outlived

LEMMA HearKeeps ==
    ASSUME RInv, NEW r \in Requests, Hear(r)
    PROVE  RInv'
<1> DEFINE q == req[r]
           ended == q.route = signOut /\ q.status = 200
<1>1. q.pc = "answered" /\ ReqAt(r) /\ Typed /\ q \in Request
  BY DEF RInv, Hear, Typed
<1>2. UNCHANGED <<setting, session, challenge, bucket, owes, may, trouble, guesses>>
      /\ req' = [req EXCEPT ![r] = Idle]
      /\ over' = IF ended THEN over \cup ({q.cookie} \ {None}) ELSE over
  BY DEF Hear, store
<1>3. q.cookie \in Issued \cup {None} /\ q.sets \in Issued \cup {None} /\ (ended => ~Live(q.cookie))
      /\ q.tells = None
  BY <1>1 DEF ReqAt, Owns, Outlived, Request
<1>4. Onward /\ Issued' = Issued
  BY <1>2 DEF Onward, Issued, Drawn, Live
<1>5. OverIsDead'
  <2>1. Issued \subseteq Sids /\ None \notin Sids
    BY DEF Issued, Sids
  <2>2. over' \subseteq Issued /\ \A s \in over' : ~Live(s)
    BY <1>2, <1>3, <2>1 DEF RInv, OverIsDead
  <2> QED BY <1>2, <1>4, <2>2 DEF OverIsDead, Live
<1>6. over' \subseteq Sids
  BY <1>4, <1>5 DEF OverIsDead, Issued
<1>7. /\ page' \in [People -> {"closed", "probe", "form", "busy", "unreachable", "shell"}]
      /\ jar' \in [People -> Sids \cup {None}] /\ told' \in [People -> SUBSET Challenges] /\ JarIssued'
  <2>1. CASE q.owner = Nobody
    <3>1. UNCHANGED <<page, jar, told>>
      BY <2>1 DEF Hear
    <3> QED BY <1>1, <1>4, <3>1 DEF Typed, RInv, JarIssued
  <2>2. CASE q.owner # Nobody
    <3> DEFINE p == q.owner
    <3>1. /\ page' = [page EXCEPT ![p] = NextPage(q)] /\ jar' = [jar EXCEPT ![p] = Kept(p, q)]
          /\ told' = [told EXCEPT ![p] = IF q.route = twoFactor THEN {} ELSE told[p]]
      BY <1>3, <2>2 DEF Hear
    <3>2. p \in People
      BY <1>1, <2>2 DEF Request
    <3>3. NextPage(q) \in {"closed", "probe", "form", "busy", "unreachable", "shell"}
      BY DEF NextPage
    <3>4. Kept(p, q) \in Issued \cup {None}
      BY <1>3, <3>2 DEF Kept, RInv, JarIssued
    <3>5. Issued \subseteq Sids
      BY DEF Issued
    <3>6. told' \in [People -> SUBSET Challenges]
      BY <1>1, <3>1, <3>2 DEF Typed
    <3>7. jar' \in [People -> Sids \cup {None}]
      BY <1>1, <3>1, <3>2, <3>4, <3>5 DEF Typed
    <3>8. JarIssued'
      BY <1>1, <1>4, <3>1, <3>2, <3>4 DEF Typed, RInv, JarIssued
    <3> QED BY <1>1, <3>1, <3>2, <3>3, <3>6, <3>7, <3>8 DEF Typed
  <2> QED BY <2>1, <2>2
<1>8. req' \in [Requests -> Request] /\ Others(r) /\ req'[r] = Idle
  BY <1>1, <1>2, IdleIsRequest DEF Typed, Others
<1>9. Typed'
  BY <1>1, <1>2, <1>6, <1>7, <1>8 DEF Typed, BucketOK
<1>10. ReqAt(r)'
  BY <1>8, <1>9, IdleAt
<1>11. RowsRight' /\ OpenIsDrawn'
  BY <1>2 DEF RInv, RowsRight, OpenIsDrawn, Drawn
<1> QED BY <1>4, <1>5, <1>7, <1>8, <1>9, <1>10, <1>11, RequestKeeps

(* What a client may send.                                                 *)
Sendable(q) ==
    /\ q \in Request /\ q.cookie \in Issued \cup {None} /\ q.sets = None /\ q.session = None
    /\ q.entries = 0
    /\ (q.route = signIn => q.who \in People) /\ (q.route = twoFactor => q.about \in Drawn)

LEMMA SendKeeps ==
    ASSUME RInv, NEW r \in Requests, NEW q, Sendable(q), Send(r, q),
           UNCHANGED <<setting, store, client, guesses>>, trouble' \in 0..MaxTrouble
    PROVE  RInv'
<1> DEFINE pc == IF isSafeMethod(q.route.method) THEN FirstStep(q.route) ELSE "guard"
           y == [q EXCEPT !.pc = pc, !.over = over]
<1>1. Typed /\ q.route \in ROUTES /\ q \in Request
  BY DEF RInv, Sendable, Request
<1>2. req' = [req EXCEPT ![r] = y]
  BY DEF Send
<1>3. pc \in {"guard", "limit", "end", "resolve"} /\ (pc # "guard" => isSafeMethod(q.route.method))
      /\ (pc = "limit" => q.route \in {signIn, twoFactor}) /\ (pc = "end" => q.route = signOut)
      /\ (pc = "resolve" => q.route \notin {signIn, twoFactor, signOut})
  BY <1>1, FirstSteps
<1> HIDE DEF pc
<1>4. pc \in PCs /\ over \subseteq Sids /\ None \notin Sids
  BY <1>1, <1>3 DEF PCs, Typed, Sids
<1>5. y \in Request
  BY <1>1, <1>4 DEF Request
<1>6. /\ y.pc = pc /\ y.over = over /\ y.route = q.route /\ y.cookie = q.cookie /\ y.session = q.session
      /\ y.entries = q.entries /\ y.sets = q.sets /\ y.who = q.who /\ y.about = q.about
  BY <1>1 DEF Request
<1> HIDE DEF y
<1>7. req' \in [Requests -> Request] /\ Others(r) /\ req'[r] = y
  BY <1>1, <1>2, <1>5 DEF Typed, Others
<1>8. UNCHANGED <<setting, session, challenge, bucket, owes, may, page, jar, told, over, guesses>>
  BY DEF store, client
<1>9. Onward
  BY <1>8, OnlyReqOnward
<1>10. Owns(r)' /\ Routed(r)' /\ Cleared(r)' /\ Logged(r)'
  BY <1>3, <1>6, <1>7, <1>8
     DEF Sendable, Owns, Routed, Cleared, Logged, Unsafe, Issued, Drawn
<1>11. Outlived(r)'
  BY <1>3, <1>4, <1>6, <1>7, <1>8 DEF Sendable, Outlived
<1>12. Typed'
  BY <1>1, <1>7, <1>8 DEF Typed, BucketOK
<1>13. RowsRight' /\ OverIsDead' /\ JarIssued' /\ OpenIsDrawn'
  BY <1>8 DEF RInv, RowsRight, OverIsDead, JarIssued, OpenIsDrawn, Issued, Drawn, Live
<1> QED BY <1>7, <1>9, <1>10, <1>11, <1>12, <1>13, RequestKeeps DEF ReqAt

LEMMA FetchSendable ==
    ASSUME RInv, NEW p \in People, NEW route \in ROUTES
    PROVE  /\ Fetch(p, route) \in Request /\ Fetch(p, route).cookie \in Issued \cup {None}
           /\ Fetch(p, route).route = route /\ Fetch(p, route).sets = None
           /\ Fetch(p, route).session = None /\ Fetch(p, route).entries = 0
<1> DEFINE origin == IF isSafeMethod(route.method) THEN <<>> ELSE <<setting.visited>>
           h == [Idle.headers EXCEPT !.origin = origin]
<1>1. origin \in OriginLists /\ jar[p] \in Issued \cup {None} /\ jar[p] \in Sids \cup {None}
  BY DEF RInv, Typed, OriginLists, JarIssued
<1> HIDE DEF origin
<1>2. Idle \in Request /\ Idle.headers \in Headers
  BY IdleIsRequest DEF Request
<1>3. h \in Headers
  BY <1>1, <1>2 DEF Headers
<1> HIDE DEF h
<1>4. Fetch(p, route) = [Idle EXCEPT !.route = route, !.owner = p, !.cookie = jar[p], !.headers = h]
  BY <1>2 DEF Fetch, h, origin, Request
<1>5. Idle.sets = None /\ Idle.session = None /\ Idle.entries = 0
  BY IdleFields
<1> QED BY <1>1, <1>2, <1>3, <1>4, <1>5 DEF Request

LEMMA ProbeKeeps ==
    ASSUME RInv, NEW r \in Requests, NEW p \in People, Probe(r, p)
    PROVE  RInv'
<1>1. organization \in ROUTES /\ organization \notin {signIn, twoFactor}
  BY RouteFacts, RoutesDiffer
<1>2. Sendable(Fetch(p, organization))
  BY <1>1, FetchSendable DEF Sendable
<1>3. Send(r, Fetch(p, organization)) /\ UNCHANGED <<setting, store, client, trouble, guesses>>
      /\ trouble' \in 0..MaxTrouble
  BY DEF Probe, RInv, Typed
<1> QED BY <1>2, <1>3, SendKeeps

LEMMA SubmitKeeps ==
    ASSUME RInv, NEW r \in Requests, NEW p \in People, Submit(r, p)
    PROVE  RInv'
<1> DEFINE f == Fetch(p, signIn)
           q == [f EXCEPT !.who = p, !.right = TRUE]
<1>1. signIn \in ROUTES /\ signIn # twoFactor
  BY RouteFacts, RoutesDiffer
<1>2. f \in Request /\ f.cookie \in Issued \cup {None} /\ f.route = signIn /\ f.sets = None
      /\ f.session = None /\ f.entries = 0
  BY <1>1, FetchSendable
<1>3. Send(r, q) /\ UNCHANGED <<setting, store, client, trouble, guesses>> /\ trouble' \in 0..MaxTrouble
  BY DEF Submit, RInv, Typed
<1> HIDE DEF f
<1>4. q \in Request /\ q.cookie = f.cookie /\ q.route = f.route /\ q.sets = f.sets
      /\ q.session = f.session /\ q.entries = f.entries /\ q.who = p
  BY <1>2 DEF Request
<1>5. Sendable(q)
  BY <1>1, <1>2, <1>4 DEF Sendable
<1> QED BY <1>3, <1>5, SendKeeps

LEMMA StraySends ==
    ASSUME NEW r \in Requests, NEW t \in Strays, SendStray(r, t)
    PROVE  \E q \in Request : Send(r, q) /\ Sendable(q)
<1> DEFINE h(s) == [origin |-> t.origin, referer |-> <<>>, inQuery |-> t.token = "query",
                    tokens |-> IF t.token = "own" THEN <<csrfTokenForSessionId(s)>>
                               ELSE IF t.token = "other" THEN <<csrfTokenForSessionId(None)>>
                               ELSE <<>>]
           q(s) == [Idle EXCEPT
                 !.route = t.route, !.cookie = s, !.who = t.who, !.about = t.about, !.right = t.right,
                 !.headers = h(s)]
<1>1. PICK s \in {None} \cup {x \in Sids : session[x].user # Nobody} :
          /\ t.about # None => challenge[t.about].user # Nobody
          /\ Send(r, q(s))
  BY DEF SendStray
<1>2. s \in Issued \cup {None} /\ s \in Sids \cup {None}
  BY <1>1 DEF Issued
<1>3. /\ t.route \in ROUTES /\ t.who \in People \cup {Nobody} /\ t.about \in Challenges \cup {None}
      /\ t.right \in BOOLEAN /\ (t.route = signIn => t.who \in People)
      /\ (t.route = twoFactor => t.about \in Challenges) /\ None \notin Challenges
  <2>1. servedRoutes \subseteq ROUTES
    BY RouteFacts DEF servedRoutes, ROUTES
  <2> QED BY <2>1, StraysAssumption DEF Challenges
<1>4. h(s) \in Headers
  <2>1. t.origin \in OriginLists
    BY DEF OriginLists
  <2>2. h(s).tokens \in TokenLists
    BY <1>2 DEF TokenLists
  <2> QED BY <2>1, <2>2 DEF Headers
<1> HIDE DEF h
<1>5. Idle \in Request /\ Idle.sets = None /\ Idle.session = None /\ Idle.entries = 0
  BY IdleIsRequest, IdleFields
<1>6. /\ q(s) \in Request /\ q(s).cookie = s /\ q(s).route = t.route /\ q(s).sets = None
      /\ q(s).session = None /\ q(s).entries = 0 /\ q(s).who = t.who /\ q(s).about = t.about
  BY <1>2, <1>3, <1>4, <1>5 DEF Request
<1> HIDE DEF q
<1>7. Sendable(q(s))
  BY <1>1, <1>2, <1>3, <1>6 DEF Sendable, Drawn
<1> QED BY <1>1, <1>6, <1>7

LEMMA SendStrayKeeps ==
    ASSUME RInv, NEW r \in Requests, NEW t \in Strays, SendStray(r, t)
    PROVE  RInv'
<1>1. PICK q \in Request : Send(r, q) /\ Sendable(q)
  BY StraySends
<1>2. UNCHANGED <<setting, store, client, guesses>> /\ trouble' = trouble + 1 /\ trouble < MaxTrouble
  BY DEF SendStray, Trouble, client
<1>3. trouble' \in 0..MaxTrouble
  BY <1>2, ServerAssumption DEF RInv, Typed
<1> QED BY <1>1, <1>2, <1>3, SendKeeps

LEMMA ReloadKeeps ==
    ASSUME RInv, NEW p \in People, Reload(p)
    PROVE  RInv'
<1>1. UNCHANGED <<setting, session, challenge, bucket, owes, may, req, jar, told, over, trouble, guesses>>
      /\ page' = [page EXCEPT ![p] = "probe"]
  BY DEF Reload, store
<1>2. Onward
  BY <1>1, OnlyReqOnward
<1>3. Typed'
  BY <1>1 DEF RInv, Typed, BucketOK
<1>4. RowsRight' /\ OverIsDead' /\ JarIssued' /\ OpenIsDrawn'
  BY <1>1 DEF RInv, RowsRight, OverIsDead, JarIssued, OpenIsDrawn, Issued, Drawn, Live
<1>5. \A x \in Requests : ReqAt(x)'
  BY <1>1, <1>2, ReqKept DEF RInv
<1> QED BY <1>3, <1>4, <1>5 DEF RInv

-----------------------------------------------------------------------------
(* Everything else                                                         *)

LEMMA TickKeeps ==
    ASSUME RInv, Tick
    PROVE  RInv'
<1>1. UNCHANGED <<setting, session, owes, may, req, page, jar, told, over, trouble, guesses>>
      /\ bucket' = [b \in Buckets |-> IF bucket[b].left <= 1 THEN [used |-> 0, left |-> 0]
                                      ELSE [bucket[b] EXCEPT !.left = bucket[b].left - 1]]
      /\ challenge' = [c \in Challenges |-> IF challenge[c].left = 0 THEN challenge[c]
                                            ELSE [challenge[c] EXCEPT !.left = challenge[c].left - 1]]
  BY DEF Tick, client
<1>2. Typed
  BY DEF RInv
<1>3. ASSUME NEW c \in Challenges
      PROVE  challenge'[c] \in Owed /\ challenge'[c].user = challenge[c].user
             /\ challenge'[c].open = challenge[c].open
  <2>1. challenge[c] \in Owed /\ ChallengeLife \in Nat
    BY <1>2, LimitsPositive DEF Typed
  <2>2. CASE challenge[c].left = 0
    BY <1>1, <2>1, <2>2
  <2>3. CASE challenge[c].left # 0
    <3>1. challenge'[c] = [challenge[c] EXCEPT !.left = challenge[c].left - 1]
      BY <1>1, <2>3
    <3>2. challenge[c].left - 1 \in 0..ChallengeLife
      BY <2>1, <2>3 DEF Owed
    <3> QED BY <2>1, <3>1, <3>2 DEF Owed
  <2> QED BY <2>2, <2>3
<1>4. challenge' \in [Challenges -> Owed]
  BY <1>1, <1>3
<1>5. ASSUME NEW b \in Buckets
      PROVE  bucket'[b] \in Attempts /\ BucketOK(b)'
  <2>1. BucketOK(b) /\ bucket[b] \in Attempts /\ LimitOf(b) \in Nat /\ Window \in Nat
    BY <1>2, LimitsPositive DEF Typed
  <2>2. CASE bucket[b].left <= 1
    <3>1. bucket'[b] = [used |-> 0, left |-> 0]
      BY <1>1, <2>2
    <3> QED BY <2>1, <3>1 DEF BucketOK, LimitOf, Attempts
  <2>3. CASE ~(bucket[b].left <= 1)
    <3>1. bucket'[b] = [bucket[b] EXCEPT !.left = bucket[b].left - 1]
      BY <1>1, <2>3
    <3>2. bucket'[b].left = bucket[b].left - 1 /\ bucket'[b].used = bucket[b].used /\ bucket'[b] \in Attempts
      BY <2>1, <2>3, <3>1 DEF Attempts
    <3>3. bucket[b].left - 1 \in 0..Window /\ bucket[b].left - 1 # 0 /\ bucket[b].left # 0
      BY <2>1, <2>3 DEF BucketOK
    <3> QED BY <2>1, <3>2, <3>3 DEF BucketOK, LimitOf
  <2> QED BY <2>2, <2>3
<1>6. bucket' \in [Buckets -> Attempts]
  BY <1>1, <1>5
<1>7. Drawn' = Drawn /\ OpenIsDrawn'
  BY <1>3 DEF RInv, OpenIsDrawn, Drawn
<1>8. Onward
  BY <1>1, <1>7 DEF Onward, Issued, Live
<1>9. Typed'
  BY <1>1, <1>2, <1>4, <1>5, <1>6 DEF Typed
<1>10. RowsRight' /\ OverIsDead' /\ JarIssued'
  BY <1>1 DEF RInv, RowsRight, OverIsDead, JarIssued, Issued, Live
<1>11. \A x \in Requests : ReqAt(x)'
  BY <1>1, <1>8, ReqKept DEF RInv
<1> QED BY <1>7, <1>9, <1>10, <1>11 DEF RInv

LEMMA CrashKeeps ==
    ASSUME RInv, Crash
    PROVE  RInv'
<1>1. /\ UNCHANGED <<setting, session, challenge, bucket, owes, may, jar, told, over, guesses>>
      /\ trouble < MaxTrouble /\ trouble' = trouble + 1
      /\ req' = [r \in Requests |-> Idle]
      /\ page' = [p \in People |-> IF Quiet(p) THEN page[p]
                                   ELSE IF page[p] = "probe" THEN "unreachable" ELSE "busy"]
  BY DEF Crash, Trouble, store
<1>2. trouble' \in 0..MaxTrouble
  BY <1>1, ServerAssumption DEF RInv, Typed
<1>3. page' \in [People -> {"closed", "probe", "form", "busy", "unreachable", "shell"}]
  BY <1>1 DEF RInv, Typed
<1>4. req' \in [Requests -> Request] /\ \A r \in Requests : req'[r] = Idle
  BY <1>1, IdleIsRequest
<1>5. Typed'
  BY <1>1, <1>2, <1>3, <1>4 DEF RInv, Typed, BucketOK
<1>6. RowsRight' /\ OverIsDead' /\ JarIssued' /\ OpenIsDrawn'
  BY <1>1 DEF RInv, RowsRight, OverIsDead, JarIssued, OpenIsDrawn, Issued, Drawn, Live
<1>7. \A r \in Requests : ReqAt(r)'
  BY <1>4, IdleAt
<1> QED BY <1>5, <1>6, <1>7 DEF RInv

LEMMA ElsewhereKeeps ==
    ASSUME RInv, Elsewhere
    PROVE  RInv'
<1>1. /\ UNCHANGED <<setting, challenge, bucket, req, page, jar, told, over, guesses>>
      /\ trouble < MaxTrouble /\ trouble' = trouble + 1
  BY DEF Elsewhere, Trouble, client
<1>2. trouble' \in 0..MaxTrouble
  BY <1>1, ServerAssumption DEF RInv, Typed
<1>3. /\ session' \in [Sids -> Sessions] /\ Onward /\ owes' \subseteq People /\ may' \in Permissions
      /\ RowsRight' /\ OverIsDead' /\ JarIssued' /\ OpenIsDrawn'
  <2>1. CASE \E s \in Sids : Live(s) /\ session' = Ended({s}) /\ UNCHANGED <<owes, may>>
    BY <1>1, <2>1, EndedKeeps DEF RInv, Typed
  <2>2. CASE session' = session /\ owes' \subseteq People /\ may' \in Permissions
    <3>1. Onward
      BY <1>1, <2>2, OnlyReqOnward
    <3>2. RowsRight' /\ OverIsDead' /\ JarIssued' /\ OpenIsDrawn'
      BY <1>1, <2>2 DEF RInv, RowsRight, OverIsDead, JarIssued, OpenIsDrawn, Issued, Drawn, Live
    <3> QED BY <2>2, <3>1, <3>2 DEF RInv, Typed
  <2>3. CASE \E p \in Browsers : owes' = (owes \ {p}) \cup ({p} \ owes) /\ UNCHANGED <<session, may>>
    BY <2>2, <2>3, ServerAssumption DEF RInv, Typed
  <2>4. CASE may' \in Permissions /\ UNCHANGED <<session, owes>>
    BY <2>2, <2>4 DEF RInv, Typed
  <2> QED BY <2>1, <2>3, <2>4 DEF Elsewhere
<1>4. Typed'
  BY <1>1, <1>2, <1>3 DEF RInv, Typed, BucketOK
<1>5. \A x \in Requests : ReqAt(x)'
  BY <1>1, <1>3, ReqKept DEF RInv
<1> QED BY <1>3, <1>4, <1>5 DEF RInv

-----------------------------------------------------------------------------
(* The invariant                                                           *)

LEMMA InitRInv == Init => RInv
<1> SUFFICES ASSUME Init PROVE RInv
  OBVIOUS
<1>1. \A r \in Requests : req[r] = Idle
  BY DEF Init
<1>2. Typed
  <2>1. session \in [Sids -> Sessions] /\ challenge \in [Challenges -> Owed]
    BY LimitsPositive DEF Init, Sessions, Owed
  <2>2. bucket \in [Buckets -> Attempts] /\ \A b \in Buckets : BucketOK(b)
    BY LimitsPositive DEF Init, Attempts, BucketOK
  <2>3. req \in [Requests -> Request]
    BY IdleIsRequest DEF Init
  <2>4. owes \subseteq People /\ trouble \in 0..MaxTrouble
    BY ServerAssumption DEF Init
  <2> QED BY <2>1, <2>2, <2>3, <2>4 DEF Init, Typed
<1>3. RowsRight /\ OverIsDead /\ JarIssued /\ OpenIsDrawn
  BY DEF Init, RowsRight, OverIsDead, JarIssued, OpenIsDrawn
<1>4. ASSUME NEW r \in Requests
      PROVE  ReqAt(r)
  <2>1. /\ req[r].pc = "idle" /\ req[r].cookie = None /\ req[r].sets = None /\ req[r].session = None
        /\ req[r].over = {} /\ req[r].entries = 0
    BY <1>1, IdleFields
  <2> QED BY <2>1 DEF ReqAt, Owns, Routed, Cleared, Logged, Outlived
<1> QED BY <1>2, <1>3, <1>4 DEF RInv

LEMMA StutterKeeps == RInv /\ UNCHANGED vars => RInv'
<1> SUFFICES ASSUME RInv, UNCHANGED vars PROVE RInv'
  OBVIOUS
<1>1. UNCHANGED <<setting, session, challenge, bucket, owes, may, req, page, jar, told, over, trouble, guesses>>
  BY DEF vars, store, client
<1>2. Typed'
  BY <1>1 DEF RInv, Typed, BucketOK
<1>3. RowsRight' /\ OverIsDead' /\ JarIssued' /\ OpenIsDrawn'
  BY <1>1 DEF RInv, RowsRight, OverIsDead, JarIssued, OpenIsDrawn, Issued, Drawn, Live
<1>4. \A x \in Requests : ReqAt(x)'
  BY <1>1, ReqKept, OnlyReqOnward DEF RInv
<1> QED BY <1>2, <1>3, <1>4 DEF RInv

LEMMA NextKeeps == RInv /\ [Next]_vars => RInv'
<1> SUFFICES ASSUME RInv, [Next]_vars PROVE RInv'
  OBVIOUS
<1>1. ASSUME NEW r \in Requests, Serve(r)
      PROVE  RInv'
  BY <1>1, GuardKeeps, RecordRejectionKeeps, RecordAuthAttemptKeeps, VerifyPasswordKeeps,
     IssueChallengeKeeps, StartSessionKeeps, VerifySecondFactorKeeps, SignOutKeeps, ResolveKeeps,
     PermitKeeps, RecordDenialKeeps, ActReadKeeps, RecordAbsenceKeeps, ActRevokeKeeps,
     RecordRevocationKeeps
     DEF Serve
<1>2. ASSUME NEW r \in Requests, Hear(r) \/ Fail(r)
      PROVE  RInv'
  BY <1>2, HearKeeps, FailKeeps
<1>3. ASSUME NEW p \in People, Dashboard(p)
      PROVE  RInv'
  BY <1>3, ProbeKeeps, SubmitKeeps, ReloadKeeps DEF Dashboard
<1>4. ASSUME NEW r \in Requests, NEW t \in Strays, SendStray(r, t)
      PROVE  RInv'
  BY <1>4, SendStrayKeeps
<1>5. CASE Tick \/ Crash \/ Elsewhere
  BY <1>5, TickKeeps, CrashKeeps, ElsewhereKeeps
<1>6. CASE UNCHANGED vars
  BY <1>6, StutterKeeps
<1> QED BY <1>1, <1>2, <1>3, <1>4, <1>5, <1>6 DEF Next

LEMMA SpecRInv == Spec => []RInv
  BY InitRInv, NextKeeps, PTL DEF Spec

-----------------------------------------------------------------------------
(* The theorems                                                            *)

(* Every variable keeps its type, and no window counts past its limit or    *)
(* closes with attempts in it.                                             *)
THEOREM ServerTypeOK == Spec => []TypeOK
<1>1. RInv => TypeOK
  <2> SUFFICES ASSUME RInv PROVE TypeOK
    OBVIOUS
  <2>1. Typed /\ \A r \in Requests : req[r] \in Request
    BY DEF RInv, Typed
  <2>2. \A b \in Buckets : /\ bucket[b].used \in 0..LimitOf(b) /\ bucket[b].left \in 0..Window
                           /\ bucket[b].used = 0 <=> bucket[b].left = 0
    BY <2>1 DEF Typed, BucketOK
  <2> QED BY <2>1, <2>2 DEF Typed, TypeOK, Request, Statuses, Sessions, Owed
<1> QED BY <1>1, SpecRInv, PTL

(* Nobody is told 404, nor that sessions were ended, before the log has an  *)
(* entry of it: on every path of the guard, the permission check, the      *)
(* lookup and the revocation (refusal.ts, privilege_changes.ts).           *)
THEOREM RefusalsAreAccounted == Spec => []RefusalIsAccounted
<1>1. RInv => RefusalIsAccounted
  BY DEF RInv, ReqAt, Logged, RefusalIsAccounted, At
<1> QED BY <1>1, SpecRInv, PTL

(* What was signed out before a request was sent is not what that request   *)
(* acts as, whichever requests were in flight while it was signed out.     *)
THEOREM SignedOutStaysOut == Spec => []SignedOutIsOut
<1>1. RInv => SignedOutIsOut
  BY DEF RInv, ReqAt, Outlived, SignedOutIsOut
<1> QED BY <1>1, SpecRInv, PTL

-----------------------------------------------------------------------------
(* Only what was proven ends sessions                                      *)

LEMMA ServeMoves ==
    ASSUME Typed, NEW x \in Requests, Serve(x) \/ Hear(x) \/ Fail(x)
    PROVE  /\ Others(x) /\ req'[x].pc # "end"
           /\ (req'[x].pc = "code" => RecordAuthAttempt(x))
           /\ (req'[x].pc = "revoked" => ActRevoke(x))
           \/ Guard(x)
<1>1. req[x] \in Request
  BY DEF Typed
<1>2. ASSUME NEW pc, Goes(x, pc)
      PROVE  Others(x) /\ req'[x].pc = pc
  BY <1>1, <1>2 DEF Typed, Goes, Others, Request
<1>3. ASSUME NEW status, Answer(x, status)
      PROVE  Others(x) /\ req'[x].pc = "answered"
  <2>1. Others(x) /\ req'[x] = Answered(req[x], status)
    BY <1>3 DEF Typed, Answer, Others
  <2> QED BY <2>1 DEF Answered, Idle
<1>4. ASSUME NEW status, RecordsAndAnswers(x, status)
      PROVE  Others(x) /\ req'[x].pc = "answered"
  <2>1. Others(x) /\ req'[x] = [Answered(req[x], status) EXCEPT !.entries = req[x].entries + 1]
    BY <1>4 DEF Typed, RecordsAndAnswers, Others
  <2> QED BY <2>1 DEF Answered, Idle
<1>5. ASSUME NEW y, req' = [req EXCEPT ![x] = y]
      PROVE  Others(x) /\ req'[x] = y
  BY <1>5 DEF Typed, Others
<1>6. ASSUME RecordRejection(x) \/ RecordAbsence(x) \/ RecordRevocation(x)
      PROVE  Others(x) /\ req'[x].pc = "answered"
  BY <1>4, <1>6 DEF RecordRejection, RecordAbsence, RecordRevocation
<1>7. ASSUME VerifyPassword(x) \/ Permit(x) \/ ActRead(x) \/ SignOut(x)
      PROVE  Others(x) /\ req'[x].pc \in {"answered", "challenge", "start", "act", "denied", "absent"}
  BY <1>2, <1>3, <1>7 DEF VerifyPassword, Permit, ActRead, SignOut
<1>8. ASSUME RecordAuthAttempt(x)
      PROVE  Others(x) /\ req'[x].pc \in {"answered", "password", "code"}
  BY <1>2, <1>3, <1>8 DEF RecordAuthAttempt
<1>9. ASSUME IssueChallenge(x)
      PROVE  Others(x) /\ req'[x].pc = "answered"
  <2>1. req' = [req EXCEPT ![x] = [Answered(req[x], 401) EXCEPT !.tells = None]]
    BY <1>9 DEF IssueChallenge, secondFactorOwed
  <2>2. Others(x) /\ req'[x] = [Answered(req[x], 401) EXCEPT !.tells = None]
    BY <1>5, <2>1
  <2> QED BY <2>2 DEF Answered, Idle
<1>10. ASSUME StartSession(x)
       PROVE  Others(x) /\ req'[x].pc = "answered"
  <2>1. PICK s : req' = [req EXCEPT ![x] = [Answered(req[x], 200) EXCEPT !.sets = s]]
    BY <1>10 DEF StartSession
  <2> QED BY <1>5, <2>1 DEF Answered, Idle
<1>11. ASSUME VerifySecondFactor(x)
       PROVE  Others(x) /\ req'[x].pc \in {"answered", "start"}
  <2>1. CASE Answer(x, 401)
    BY <1>3, <2>1
  <2> DEFINE y == [req[x] EXCEPT !.pc = "start", !.who = challenge[req[x].about].user]
  <2>2. CASE req' = [req EXCEPT ![x] = y]
    <3>1. y.pc = "start"
      BY <1>1 DEF Request
    <3> HIDE DEF y
    <3> QED BY <1>5, <2>2, <3>1
  <2> QED BY <1>11, <2>1, <2>2 DEF VerifySecondFactor
<1>12. ASSUME Resolve(x)
       PROVE  Others(x) /\ req'[x].pc \in {"answered", "permit"}
  <2>1. CASE Answer(x, 401)
    BY <1>3, <2>1
  <2> DEFINE y == [req[x] EXCEPT !.pc = "permit", !.session = req[x].cookie,
                                 !.as = session[req[x].cookie].user]
  <2>2. CASE req' = [req EXCEPT ![x] = y]
    <3>1. y.pc = "permit"
      BY <1>1 DEF Request
    <3> HIDE DEF y
    <3> QED BY <1>5, <2>2, <3>1
  <2> QED BY <1>12, <2>1, <2>2 DEF Resolve
<1>13. ASSUME RecordDenial(x)
       PROVE  Others(x) /\ req'[x].pc \in {"answered", "absent"}
  <2>1. CASE RecordsAndAnswers(x, 404)
    BY <1>4, <2>1
  <2>2. CASE req' = [req EXCEPT ![x].pc = "absent", ![x].entries = @ + 1]
    BY <1>1, <2>2 DEF Typed, Others, Request
  <2> QED BY <1>13, <2>1, <2>2 DEF RecordDenial
<1>14. ASSUME ActRevoke(x)
       PROVE  Others(x) /\ req'[x].pc = "revoked"
  BY <1>2, <1>14 DEF ActRevoke
<1>15. ASSUME Hear(x)
       PROVE  Others(x) /\ req'[x].pc = "idle"
  BY <1>5, <1>15, IdleFields DEF Hear
<1>16. ASSUME Fail(x)
       PROVE  Others(x) /\ req'[x].pc = "answered"
  BY <1>3, <1>16 DEF Fail
<1> QED BY <1>6, <1>7, <1>8, <1>9, <1>10, <1>11, <1>12, <1>13, <1>14, <1>15, <1>16 DEF Serve

LEMMA GuardMoves ==
    ASSUME Typed, NEW x \in Requests, Guard(x)
    PROVE  Others(x) /\ req'[x].pc \in {"rejected", "limit", "end", "resolve"}
<1>1. req[x] \in Request /\ req[x].route \in ROUTES
  BY DEF Typed, Request
<1>2. PICK pc : Goes(x, pc) /\ pc \in {FirstStep(req[x].route), "rejected"}
  BY DEF Guard
<1>3. Others(x) /\ req'[x].pc = pc
  BY <1>1, <1>2 DEF Typed, Goes, Others, Request
<1> QED BY <1>1, <1>2, <1>3, FirstSteps

LEMMA SendMoves ==
    ASSUME Typed, NEW x \in Requests, NEW q \in Request, Send(x, q)
    PROVE  Others(x) /\ req'[x].pc \in {"guard", "limit", "end", "resolve"} /\ req[x].pc = "idle"
<1> DEFINE pc == IF isSafeMethod(q.route.method) THEN FirstStep(q.route) ELSE "guard"
<1>1. pc \in {"guard", "limit", "end", "resolve"}
  BY FirstSteps DEF Request
<1> HIDE DEF pc
<1>2. req' = [req EXCEPT ![x] = [q EXCEPT !.pc = pc, !.over = over]] /\ req[x].pc = "idle"
  BY DEF Send, At, pc
<1> QED BY <1>1, <1>2 DEF Typed, Others, Request

(* A step that does not end a session for this request.                    *)
Spares(r) ==
    \/ req'[r] = req[r]
    \/ req'[r].pc # "revoked" /\ (session' = session \/ req[r].pc # "end")

LEMMA FetchMoves ==
    ASSUME RInv, NEW x \in Requests, NEW p \in People, Probe(x, p) \/ Submit(x, p)
    PROVE  Others(x) /\ req'[x].pc \in {"guard", "limit", "end", "resolve"} /\ req[x].pc = "idle"
           /\ UNCHANGED <<session, challenge, bucket, guesses>>
<1>1. Typed
  BY DEF RInv
<1>2. CASE Probe(x, p)
  <2>1. Fetch(p, organization) \in Request
    BY RouteFacts, FetchSendable
  <2> QED BY <1>1, <1>2, <2>1, SendMoves DEF Probe, store
<1>3. CASE Submit(x, p)
  <2> DEFINE q == [Fetch(p, signIn) EXCEPT !.who = p, !.right = TRUE]
  <2>1. Fetch(p, signIn) \in Request
    BY RouteFacts, FetchSendable
  <2>2. q \in Request
    BY <2>1 DEF Request
  <2>3. Send(x, q) /\ UNCHANGED <<session, challenge, bucket, guesses>>
    BY <1>3 DEF Submit, store
  <2> HIDE DEF q
  <2> QED BY <1>1, <2>2, <2>3, SendMoves
<1> QED BY <1>2, <1>3

LEMMA StrayMoves ==
    ASSUME RInv, NEW x \in Requests, NEW t \in Strays, SendStray(x, t)
    PROVE  Others(x) /\ req'[x].pc \in {"guard", "limit", "end", "resolve"} /\ req[x].pc = "idle"
           /\ UNCHANGED <<session, challenge, bucket, guesses>>
<1>1. PICK q \in Request : Send(x, q)
  BY StraySends
<1> QED BY <1>1, SendMoves DEF RInv, SendStray, store

LEMMA OnlyProvenStep ==
    ASSUME RInv, [Next]_vars, NEW r \in Requests
    PROVE  /\ At(r, "end") /\ ~At(r, "end")' /\ session' # session => Proven(req[r], req[r].cookie)
           /\ At(r, "act") /\ At(r, "revoked")' => Proven(req[r], req[r].session)
<1>1. Typed /\ ReqAt(r) /\ req[r] \in Request
  BY DEF RInv, Typed
<1>2. CASE SignOut(r)
  <2>1. req[r].pc = "end" /\ req[r].route = signOut /\ Unsafe(r) /\ session' = Ended({req[r].cookie})
    BY <1>1, <1>2, RouteFacts DEF SignOut, At, ReqAt, Routed, Unsafe, isSafeMethod
  <2>2. ~Live(req[r].cookie) => session' = session
    BY <1>1, <2>1 DEF Ended, Typed
  <2> QED BY <1>1, <2>1, <2>2 DEF ReqAt, Cleared, At
<1>3. CASE ActRevoke(r)
  <2>1. req[r].pc = "act" /\ req[r].route = revokeSessions /\ Unsafe(r)
    BY <1>3, RouteFacts DEF ActRevoke, At, Unsafe, isSafeMethod
  <2> QED BY <1>1, <2>1 DEF ReqAt, Cleared, At
<1>4. CASE ~SignOut(r) /\ ~ActRevoke(r)
  <2>1. ASSUME NEW x \in Requests, Serve(x) \/ Hear(x) \/ Fail(x)
        PROVE  Spares(r)
    <3>1. Others(x)
      BY <1>1, <2>1, ServeMoves, GuardMoves
    <3>2. CASE x # r
      BY <3>1, <3>2 DEF Others, Spares
    <3>3. CASE x = r
      <4>1. req'[r].pc # "revoked"
        BY <1>1, <1>4, <2>1, <3>3, ServeMoves, GuardMoves
      <4>2. req[r].pc = "end" => Fail(r)
        BY <1>4, <2>1, <3>3 DEF Serve, Hear, At, Guard, RecordRejection, RecordAuthAttempt,
           VerifyPassword, IssueChallenge, StartSession, VerifySecondFactor, Resolve, Permit,
           RecordDenial, ActRead, RecordAbsence, ActRevoke, RecordRevocation
      <4>3. Fail(r) => session' = session
        BY DEF Fail, store
      <4> QED BY <4>1, <4>2, <4>3 DEF Spares
    <3> QED BY <3>2, <3>3
  <2>2. ASSUME NEW p \in People, Dashboard(p)
        PROVE  Spares(r)
    <3>1. CASE Reload(p)
      BY <3>1 DEF Reload, Spares
    <3>2. ASSUME NEW x \in Requests, Probe(x, p) \/ Submit(x, p)
          PROVE  Spares(r)
      BY <3>2, FetchMoves DEF Others, Spares
    <3> QED BY <2>2, <3>1, <3>2 DEF Dashboard
  <2>3. ASSUME NEW x \in Requests, NEW t \in Strays, SendStray(x, t)
        PROVE  Spares(r)
    BY <2>3, StrayMoves DEF Others, Spares
  <2>4. ASSUME Crash
        PROVE  Spares(r)
    <3>1. req'[r] = Idle /\ session' = session
      BY <2>4 DEF Crash, store
    <3> QED BY <3>1, IdleFields DEF Spares
  <2>5. ASSUME Tick \/ Elsewhere \/ UNCHANGED vars
        PROVE  Spares(r)
    BY <2>5 DEF Tick, Elsewhere, vars, Spares
  <2>6. Spares(r)
    BY <2>1, <2>2, <2>3, <2>4, <2>5 DEF Next
  <2> QED BY <2>6 DEF Spares, At
<1> QED BY <1>2, <1>3, <1>4

(* A request that ends sessions came from a trusted origin with the token   *)
(* of the session it acts as: however long the others took between the     *)
(* guard's look at the session and the handler's.                          *)
THEOREM OnlyProvenRequestsEndSessions == Spec => OnlyProvenRequestsEnd
<1>1. RInv /\ [Next]_vars =>
          [\A r \in Requests :
              /\ At(r, "end") /\ ~At(r, "end")' /\ session' # session => Proven(req[r], req[r].cookie)
              /\ At(r, "act") /\ At(r, "revoked")' => Proven(req[r], req[r].session)]_vars
  BY OnlyProvenStep
<1> QED BY <1>1, SpecRInv, PTL DEF Spec, OnlyProvenRequestsEnd

-----------------------------------------------------------------------------
(* The ledger                                                              *)

LEMMA SessionMoves ==
    ASSUME RInv, RInv', [Next]_vars
    PROVE  \/ session' = session
           \/ \E K \in SUBSET Sids : session' = Ended(K)
           \/ \E s \in Sids : /\ session[s].state = "unissued"
                              /\ \E row : row.state = "live" /\ session' = [session EXCEPT ![s] = row]
<1>1. ASSUME NEW r \in Requests, Serve(r)
      PROVE  \/ session' = session
             \/ \E K \in SUBSET Sids : session' = Ended(K)
             \/ \E s \in Sids : /\ session[s].state = "unissued"
                                /\ \E row : row.state = "live" /\ session' = [session EXCEPT ![s] = row]
  <2>1. CASE StartSession(r)
    <3>1. PICK s \in Fresh(Sids, session) :
              session' = [session EXCEPT ![s] = [user |-> req[r].who, state |-> "live"]]
      BY <2>1 DEF StartSession
    <3>2. s \in Sids /\ session[s].state = "unissued"
      BY FreshIsUnissued DEF RInv, RowsRight
    <3>3. [user |-> req[r].who, state |-> "live"].state = "live"
      OBVIOUS
    <3> QED BY <3>1, <3>2, <3>3
  <2>2. CASE SignOut(r)
    <3>1. session' = Ended({req[r].cookie} \cap Sids)
      BY <2>2 DEF SignOut, Ended
    <3> QED BY <3>1
  <2>3. CASE ActRevoke(r)
    BY <2>3 DEF ActRevoke
  <2>4. CASE ~StartSession(r) /\ ~SignOut(r) /\ ~ActRevoke(r)
    BY <1>1, <2>4 DEF Serve, OnlyReq, store, Guard, RecordRejection, RecordAuthAttempt, VerifyPassword,
       IssueChallenge, VerifySecondFactor, Resolve, Permit, RecordDenial, ActRead, RecordAbsence,
       RecordRevocation
  <2> QED BY <2>1, <2>2, <2>3, <2>4
<1>2. CASE Elsewhere
  <2>1. ASSUME NEW s \in Sids, session' = Ended({s})
        PROVE  \E K \in SUBSET Sids : session' = Ended(K)
    BY <2>1
  <2> QED BY <1>2, <2>1 DEF Elsewhere
<1>3. CASE ~(\E r \in Requests : Serve(r)) /\ ~Elsewhere
  <2>1. ASSUME NEW p \in People, Dashboard(p)
        PROVE  session' = session
    BY <2>1 DEF Dashboard, Probe, Submit, Reload, store
  <2> QED BY <1>3, <2>1 DEF Next, Hear, Fail, SendStray, Tick, Crash, vars, store
<1> QED BY <1>1, <1>2, <1>3

LEMMA LedgerStep ==
    ASSUME RInv, RInv', [Next]_vars
    PROVE  [Ledger!LedgerNext]_(Ledger!ledgerVars)
<1>1. Typed /\ session' \in [Sids -> Sessions]
  BY DEF RInv, Typed
<1>2. CASE session' = session
  BY <1>2 DEF Ledger!ledgerVars
<1>3. ASSUME NEW X \in SUBSET Sids, session' = Ended(X)
      PROVE  Ledger!LedgerNext
  <2> DEFINE K == {s \in X : session[s].state = "live"}
  <2>1. \A s \in Sids : session'[s].user = session[s].user
    BY <1>1, <1>3, EndedFacts
  <2>2. \A s \in K : s \in Sids /\ session[s].state = "live" /\ session'[s].state = "dead"
    <3> SUFFICES ASSUME NEW s \in K PROVE session'[s].state = "dead"
      OBVIOUS
    <3>a. None \notin Sids
      BY DEF Sids
    <3>1. s \in Sids /\ s \in X /\ Live(s)
      BY <3>a DEF Live
    <3>2. Ended(X)[s] = session[s] \/ Ended(X)[s].state = "dead"
      BY <1>1, <3>1, EndedFacts
    <3>3. Ended(X)[s].state # "live"
      BY <1>1, <3>1, EndedFacts
    <3> QED BY <1>3, <3>1, <3>2, <3>3 DEF Live
  <2>3. \A s \in Sids \ K : session'[s].state = session[s].state
    <3> SUFFICES ASSUME NEW s \in Sids \ K PROVE session'[s].state = session[s].state
      OBVIOUS
    <3>1. ~(s \in X /\ Live(s))
      BY DEF Live
    <3> QED BY <1>1, <1>3, <3>1, EndedFacts
  <2> HIDE DEF K
  <2>4. K \in SUBSET Sids
    BY <2>2
  <2>5. Ledger!EndAndIssue(K, {})
    BY <2>1, <2>2, <2>3 DEF Ledger!EndAndIssue
  <2> QED BY <2>4, <2>5 DEF Ledger!LedgerNext
<1>4. ASSUME NEW s \in Sids, NEW row, session[s].state = "unissued", row.state = "live",
             session' = [session EXCEPT ![s] = row]
      PROVE  Ledger!LedgerNext
  <2>1. session'[s].state = "live" /\ \A t \in Sids \ {s} : session'[t] = session[t]
    BY <1>1, <1>4 DEF Typed
  <2>2. Ledger!EndAndIssue({}, {s})
    BY <1>4, <2>1 DEF Ledger!EndAndIssue
  <2> QED BY <2>2 DEF Ledger!LedgerNext
<1> QED BY <1>2, <1>3, <1>4, SessionMoves

(* The sessions requests start, sign out and revoke are a ledger: issued    *)
(* once, to one person, and never alive again.                             *)
THEOREM ServerImplementsLedger == Spec => ImplementsLedger
<1>1. Init => Ledger!LedgerInit
  BY DEF Init, Ledger!LedgerInit
<1>2. RInv /\ RInv' /\ [Next]_vars => [Ledger!LedgerNext]_(Ledger!ledgerVars)
  BY LedgerStep
<1> QED BY <1>1, <1>2, SpecRInv, PTL DEF Spec, ImplementsLedger, Ledger!LedgerSpec

-----------------------------------------------------------------------------
(* Guesses                                                                 *)

Requesting(c) == {r \in Requests : req[r].pc = "code" /\ req[r].about = c}
BucketOf(c) == <<"two-factor", "account", c>>

(* While a challenge lives, the codes judged against it and those about to  *)
(* be are counted in a window that outlives it.  One that was not issued   *)
(* has met with no code, and has none counted.                             *)
Bought(c) ==
    /\ guesses[c] <= AccountLimit
    /\ challenge[c].user = Nobody =>
          /\ challenge[c].left = 0 /\ guesses[c] = 0 /\ bucket[BucketOf(c)].used = 0
    /\ challenge[c].left > 0 =>
          /\ guesses[c] + Cardinality(Requesting(c)) <= bucket[BucketOf(c)].used
          /\ bucket[BucketOf(c)].used > 0 => bucket[BucketOf(c)].left > challenge[c].left

AllBought == \A c \in Challenges : Bought(c)

LEMMA CodeBuckets ==
    ASSUME NEW c \in Challenges
    PROVE  /\ BucketOf(c) \in Buckets /\ BucketOf(c) \in Dimension(twoFactor, c)
           /\ LimitOf(BucketOf(c)) = AccountLimit
           /\ \A p : BucketOf(c) \notin Dimension(signIn, p)
           /\ \A d : BucketOf(c) \in Dimension(twoFactor, d) => d = c
<1>1. BucketOf(c) \in Dimension(twoFactor, c)
  BY RouteFacts DEF BucketOf, Dimension
<1>2. BucketOf(c) \in Buckets
  BY <1>1 DEF Buckets
<1>3. LimitOf(BucketOf(c)) = AccountLimit
  BY DEF BucketOf, LimitOf
<1>4. \A p : BucketOf(c) \notin Dimension(signIn, p)
  BY RouteFacts DEF BucketOf, Dimension
<1>5. \A d : BucketOf(c) \in Dimension(twoFactor, d) => d = c
  BY RouteFacts DEF BucketOf, Dimension
<1> QED BY <1>1, <1>2, <1>3, <1>4, <1>5

LEMMA RequestingFinite ==
    ASSUME NEW c
    PROVE  IsFiniteSet(Requesting(c)) /\ Cardinality(Requesting(c)) \in Nat
<1>1. IsFiniteSet(Requests)
  BY ServerAssumption, FS_Interval DEF Requests
<1>2. Requesting(c) \subseteq Requests
  BY DEF Requesting
<1> QED BY <1>1, <1>2, FS_Subset, FS_CardinalityType

(* The step of a request that does not arrive at a code.                   *)
LEMMA RequestingShrinks ==
    ASSUME NEW r \in Requests, Others(r), req'[r].pc # "code", NEW c
    PROVE  /\ Cardinality(Requesting(c)') \in Nat
           /\ Cardinality(Requesting(c)') <= Cardinality(Requesting(c))
           /\ (r \in Requesting(c) => Cardinality(Requesting(c)') = Cardinality(Requesting(c)) - 1)
<1>1. Requesting(c)' = Requesting(c) \ {r}
  BY DEF Requesting, Others
<1>2. IsFiniteSet(Requesting(c)) /\ Cardinality(Requesting(c)) \in Nat
  BY RequestingFinite
<1>3. /\ IsFiniteSet(Requesting(c) \ {r})
      /\ Cardinality(Requesting(c) \ {r}) =
            IF r \in Requesting(c) THEN Cardinality(Requesting(c)) - 1 ELSE Cardinality(Requesting(c))
  BY <1>2, FS_RemoveElement
<1>4. Cardinality(Requesting(c) \ {r}) \in Nat
  BY <1>3, FS_CardinalityType
<1> QED BY <1>1, <1>2, <1>3, <1>4

LEMMA RequestingGrows ==
    ASSUME NEW r \in Requests, Others(r), req[r].pc # "code", req'[r].pc = "code", NEW c
    PROVE  /\ (req'[r].about = c => Cardinality(Requesting(c)') = Cardinality(Requesting(c)) + 1)
           /\ (req'[r].about # c => Cardinality(Requesting(c)') = Cardinality(Requesting(c)))
<1>1. IsFiniteSet(Requesting(c)) /\ r \notin Requesting(c)
  BY RequestingFinite DEF Requesting
<1>2. req'[r].about = c => Requesting(c)' = Requesting(c) \cup {r}
  BY DEF Requesting, Others
<1>3. req'[r].about # c => Requesting(c)' = Requesting(c)
  BY DEF Requesting, Others
<1>4. Cardinality(Requesting(c) \cup {r}) = Cardinality(Requesting(c)) + 1
  BY <1>1, FS_AddElement
<1> QED BY <1>2, <1>3, <1>4

LEMMA BoughtTypes ==
    ASSUME Typed, NEW c \in Challenges
    PROVE  /\ guesses[c] \in Nat /\ challenge[c].left \in Nat
           /\ challenge[c].left <= ChallengeLife
           /\ bucket[BucketOf(c)].used \in Nat /\ bucket[BucketOf(c)].left \in Nat
           /\ bucket[BucketOf(c)].used <= AccountLimit
           /\ (bucket[BucketOf(c)].used = 0 <=> bucket[BucketOf(c)].left = 0)
           /\ Cardinality(Requesting(c)) \in Nat
<1>1. BucketOf(c) \in Buckets /\ LimitOf(BucketOf(c)) = AccountLimit /\ AccountLimit \in Nat
      /\ ChallengeLife \in Nat
  BY CodeBuckets, LimitsPositive
<1>2. bucket[BucketOf(c)] \in Attempts /\ BucketOK(BucketOf(c))
  BY <1>1 DEF Typed
<1>3. challenge[c] \in Owed /\ guesses[c] \in Nat
  BY DEF Typed
<1>4. Cardinality(Requesting(c)) \in Nat
  BY RequestingFinite
<1> QED BY <1>1, <1>2, <1>3, <1>4 DEF Attempts, BucketOK, Owed

(* Steps that count nothing.                                               *)
LEMMA BoughtQuietly ==
    ASSUME Typed, NEW c \in Challenges, Bought(c),
           challenge'[c] = challenge[c], guesses'[c] = guesses[c],
           bucket'[BucketOf(c)] = bucket[BucketOf(c)],
           Cardinality(Requesting(c)') \in Nat, Cardinality(Requesting(c)') <= Cardinality(Requesting(c))
    PROVE  Bought(c)'
<1>1. BucketOf(c)' = BucketOf(c)
  BY DEF BucketOf
<1>2. /\ guesses[c] \in Nat /\ bucket[BucketOf(c)].used \in Nat /\ Cardinality(Requesting(c)) \in Nat
  BY BoughtTypes
<1> QED BY <1>1, <1>2 DEF Bought, BucketOf

LEMMA AttemptBuys ==
    ASSUME RInv, NEW r \in Requests, RecordAuthAttempt(r), NEW c \in Challenges, Bought(c)
    PROVE  Bought(c)'
<1> DEFINE q == req[r]
           b == BucketOf(c)
           keys == Dimensions(q)
<1>1. q.pc = "limit" /\ ReqAt(r) /\ Typed /\ q.route \in {signIn, twoFactor} /\ q \in Request
  BY DEF RInv, RecordAuthAttempt, At, ReqAt, Routed, Typed
<1>2. challenge' = challenge /\ guesses' = guesses
      /\ bucket' = [x \in Buckets |-> IF x \in keys /\ HasRoom(x) THEN Counted(x) ELSE bucket[x]]
      /\ IF \A x \in keys : HasRoom(x) THEN Goes(r, IF q.route = signIn THEN "password" ELSE "code")
                                       ELSE Answer(r, 401)
  BY DEF RecordAuthAttempt
<1>3. b \in Buckets /\ (b \in keys <=> q.route = twoFactor /\ q.about = c)
  BY <1>1, CodeBuckets, RoutesDiffer DEF Dimensions
<1> HIDE DEF keys
<1>4. Others(r) /\ r \notin Requesting(c)
  BY <1>1, ServeMoves DEF Serve, Requesting, Guard
<1>5. /\ guesses[c] \in Nat /\ challenge[c].left \in Nat /\ challenge[c].left <= ChallengeLife
      /\ bucket[b].used \in Nat /\ bucket[b].left \in Nat /\ Cardinality(Requesting(c)) \in Nat
      /\ ChallengeLife \in Nat /\ Window \in Nat /\ ChallengeLife < Window
  BY <1>1, BoughtTypes, ServerAssumption
<1>6. BucketOf(c)' = b
  BY DEF BucketOf
<1>7. CASE b \in keys /\ HasRoom(b)
  <2>1. bucket'[b] = Counted(b)
    BY <1>2, <1>3, <1>7
  <2>2. /\ bucket'[b].used = bucket[b].used + 1
        /\ (bucket[b].used > 0 => bucket'[b].left = bucket[b].left)
        /\ (bucket[b].used = 0 => bucket'[b].left = Window)
    BY <1>1, <1>3, <1>7, <2>1, CountedOK
  <2>3. challenge[c].user # Nobody
    BY <1>1, <1>3, <1>7 DEF ReqAt, Routed, Drawn
  <2>4. Cardinality(Requesting(c)') \in Nat /\ Cardinality(Requesting(c)') <= Cardinality(Requesting(c)) + 1
    <3>1. CASE req'[r].pc = "code"
      BY <1>1, <1>4, <1>5, <3>1, RequestingGrows
    <3>2. CASE req'[r].pc # "code"
      BY <1>4, <1>5, <3>2, RequestingShrinks
    <3> QED BY <3>1, <3>2
  <2>5. challenge[c].left > 0 =>
            /\ guesses[c] + Cardinality(Requesting(c)') <= bucket'[b].used
            /\ bucket'[b].left > challenge[c].left
    BY <1>5, <2>2, <2>4 DEF Bought
  <2> QED BY <1>2, <1>6, <2>3, <2>5 DEF Bought
<1>8. CASE ~(b \in keys /\ HasRoom(b))
  <2>1. bucket'[b] = bucket[b]
    BY <1>2, <1>3, <1>8
  <2>2. Cardinality(Requesting(c)') \in Nat /\ Cardinality(Requesting(c)') <= Cardinality(Requesting(c))
    <3>1. CASE req'[r].pc = "code"
      <4>1. Goes(r, "code") /\ q.route # signIn /\ b \notin keys
        <5>1. ~Answer(r, 401)
          <6>1. Answer(r, 401) => req'[r].pc = "answered"
            BY <1>1, AnswerEffect DEF Statuses, Gone
          <6> QED BY <3>1, <6>1
        <5>2. Goes(r, IF q.route = signIn THEN "password" ELSE "code") /\ \A x \in keys : HasRoom(x)
          BY <1>2, <5>1
        <5>3. Goes(r, "password") => req'[r].pc = "password"
          BY <1>1, GoesEffect DEF PCs
        <5> QED BY <1>8, <3>1, <5>2, <5>3
      <4>2. req'[r].about = q.about
        BY <1>1, <4>1, GoesEffect DEF Kin, PCs
      <4>3. req'[r].about # c
        BY <1>1, <1>3, <4>1, <4>2
      <4> QED BY <1>1, <1>4, <1>5, <3>1, <4>3, RequestingGrows
    <3>2. CASE req'[r].pc # "code"
      BY <1>4, <3>2, RequestingShrinks
    <3> QED BY <3>1, <3>2
  <2> QED BY <1>1, <1>2, <2>1, <2>2, BoughtQuietly
<1> QED BY <1>7, <1>8

LEMMA ChallengeBuys ==
    ASSUME RInv, NEW r \in Requests, IssueChallenge(r), NEW c \in Challenges, Bought(c)
    PROVE  Bought(c)'
<1>1. Typed /\ req[r].pc = "challenge" /\ Others(r) /\ req'[r].pc # "code"
  BY ServeMoves DEF RInv, Serve, IssueChallenge, RecordAuthAttempt, At, Guard
<1>2. bucket' = bucket /\ guesses' = guesses
  BY DEF IssueChallenge
<1>3. PICK d \in Fresh(Challenges, challenge) :
          challenge' = [challenge EXCEPT ![d] = [user |-> req[r].who, open |-> TRUE, left |-> ChallengeLife]]
  BY DEF IssueChallenge
<1>4. d \in Challenges /\ challenge[d].user = Nobody
  BY FreshIsUnissued
<1>5. Cardinality(Requesting(c)') \in Nat /\ Cardinality(Requesting(c)') <= Cardinality(Requesting(c))
  BY <1>1, RequestingShrinks
<1>6. CASE c = d
  <2>1. Requesting(c) = {}
    BY <1>4, <1>6 DEF RInv, ReqAt, Routed, Requesting, Drawn
  <2>2. Cardinality(Requesting(c)') = 0
    BY <1>5, <2>1, FS_EmptySet
  <2>3. req[r].who # Nobody
    BY <1>1, ServerAssumption DEF RInv, ReqAt, Routed
  <2>4. challenge'[c].user # Nobody
    BY <1>1, <1>3, <1>4, <1>6, <2>3 DEF Typed
  <2>5. guesses[c] = 0 /\ bucket[BucketOf(c)].used = 0
    BY <1>4, <1>6 DEF Bought
  <2> QED BY <1>2, <2>2, <2>4, <2>5, LimitsPositive DEF Bought, BucketOf
<1>7. CASE c # d
  BY <1>1, <1>2, <1>3, <1>5, <1>7, BoughtQuietly DEF Typed
<1> QED BY <1>6, <1>7

LEMMA JudgingBuys ==
    ASSUME RInv, NEW r \in Requests, VerifySecondFactor(r), NEW c \in Challenges, Bought(c)
    PROVE  Bought(c)'
<1> DEFINE d == req[r].about
           live == d # None /\ challenge[d].open /\ challenge[d].left > 0
<1>1. Typed /\ req[r].pc = "code" /\ req[r].route = twoFactor /\ d \in Challenges
  BY DEF RInv, VerifySecondFactor, At, ReqAt, Routed, Drawn
<1>2. Others(r) /\ req'[r].pc # "code"
  BY <1>1, ServeMoves DEF Serve, RecordAuthAttempt, At, Guard
<1>3. bucket' = bucket /\ guesses' = IF live THEN [guesses EXCEPT ![d] = guesses[d] + 1] ELSE guesses
  BY DEF VerifySecondFactor
<1>4. challenge' = challenge \/ challenge' = [challenge EXCEPT ![d].open = FALSE]
  BY DEF VerifySecondFactor
<1>5. challenge'[c].user = challenge[c].user /\ challenge'[c].left = challenge[c].left
  BY <1>1, <1>4 DEF Typed, Owed
<1>6. /\ Cardinality(Requesting(c)') \in Nat /\ Cardinality(Requesting(c)') <= Cardinality(Requesting(c))
      /\ (c = d => Cardinality(Requesting(c)') = Cardinality(Requesting(c)) - 1)
  BY <1>1, <1>2, RequestingShrinks DEF Requesting
<1>7. /\ guesses[c] \in Nat /\ bucket[BucketOf(c)].used \in Nat /\ Cardinality(Requesting(c)) \in Nat
      /\ bucket[BucketOf(c)].used <= AccountLimit /\ AccountLimit \in Nat
  BY <1>1, BoughtTypes, ServerAssumption
<1>8. CASE c = d /\ live
  <2>1. guesses'[c] = guesses[c] + 1 /\ challenge[c].left > 0 /\ challenge[c].user # Nobody
    BY <1>1, <1>3, <1>8 DEF Typed, RInv, ReqAt, Routed, Drawn
  <2>2. guesses[c] + Cardinality(Requesting(c)) <= bucket[BucketOf(c)].used
        /\ (bucket[BucketOf(c)].used > 0 => bucket[BucketOf(c)].left > challenge[c].left)
    BY <2>1 DEF Bought
  <2>3. guesses'[c] + Cardinality(Requesting(c)') <= bucket[BucketOf(c)].used
    BY <1>6, <1>7, <1>8, <2>1, <2>2
  <2>4. guesses'[c] <= AccountLimit
    BY <1>6, <1>7, <2>1, <2>3
  <2> QED BY <1>3, <1>5, <2>1, <2>2, <2>3, <2>4 DEF Bought, BucketOf
<1>9. CASE ~(c = d /\ live)
  <2>1. guesses'[c] = guesses[c]
    BY <1>1, <1>3, <1>9 DEF Typed
  <2>2. challenge[c].left > 0 => guesses[c] + Cardinality(Requesting(c)') <= bucket[BucketOf(c)].used
    BY <1>6, <1>7 DEF Bought
  <2> QED BY <1>3, <1>5, <2>1, <2>2 DEF Bought, BucketOf
<1> QED BY <1>8, <1>9

LEMMA TickBuys ==
    ASSUME RInv, Tick, NEW c \in Challenges, Bought(c)
    PROVE  Bought(c)'
<1> DEFINE b == BucketOf(c)
<1>1. Typed /\ guesses' = guesses /\ req' = req /\ b \in Buckets
  BY CodeBuckets DEF RInv, Tick
<1>2. /\ bucket'[b] = IF bucket[b].left <= 1 THEN [used |-> 0, left |-> 0]
                      ELSE [bucket[b] EXCEPT !.left = bucket[b].left - 1]
      /\ challenge'[c] = IF challenge[c].left = 0 THEN challenge[c]
                         ELSE [challenge[c] EXCEPT !.left = challenge[c].left - 1]
  BY <1>1 DEF Tick
<1>3. bucket[b] \in Attempts /\ challenge[c] \in Owed
  BY <1>1 DEF Typed
<1>4. /\ challenge[c].left \in Nat /\ bucket[b].used \in Nat /\ bucket[b].left \in Nat
      /\ (bucket[b].used = 0 <=> bucket[b].left = 0)
  BY <1>1, BoughtTypes
<1>5. challenge'[c].user = challenge[c].user
      /\ challenge'[c].left = IF challenge[c].left = 0 THEN 0 ELSE challenge[c].left - 1
  BY <1>2, <1>3 DEF Owed
<1>6. IF bucket[b].left <= 1 THEN bucket'[b].used = 0
      ELSE bucket'[b].used = bucket[b].used /\ bucket'[b].left = bucket[b].left - 1
  BY <1>2, <1>3 DEF Attempts
<1>7. Requesting(c)' = Requesting(c) /\ BucketOf(c)' = b
  BY <1>1 DEF Requesting, BucketOf
<1>8. challenge[c].user = Nobody => bucket[b].used = 0 /\ bucket'[b].used = 0
  BY <1>4, <1>6 DEF Bought
<1>9. challenge'[c].left > 0 =>
          /\ challenge[c].left > 0 /\ bucket'[b].used = bucket[b].used
          /\ (bucket'[b].used > 0 => bucket'[b].left > challenge'[c].left)
  <2> SUFFICES ASSUME challenge'[c].left > 0
               PROVE  /\ challenge[c].left > 0 /\ bucket'[b].used = bucket[b].used
                      /\ (bucket'[b].used > 0 => bucket'[b].left > challenge'[c].left)
    OBVIOUS
  <2>1. challenge[c].left > 1 /\ challenge'[c].left = challenge[c].left - 1
    BY <1>4, <1>5
  <2>2. bucket[b].used > 0 => bucket[b].left > challenge[c].left
    BY <2>1, <1>4 DEF Bought
  <2> QED BY <1>4, <1>6, <2>1, <2>2
<1> QED BY <1>1, <1>4, <1>5, <1>7, <1>8, <1>9 DEF Bought

(* The other steps of a request count nothing.                             *)
LEMMA ServeCounts ==
    ASSUME NEW r \in Requests, Serve(r) \/ Hear(r) \/ Fail(r),
           ~RecordAuthAttempt(r), ~IssueChallenge(r), ~VerifySecondFactor(r)
    PROVE  UNCHANGED <<challenge, bucket, guesses>>
  BY DEF Serve, OnlyReq, store, Guard, RecordRejection, VerifyPassword, StartSession, SignOut, Resolve,
     Permit, RecordDenial, ActRead, RecordAbsence, ActRevoke, RecordRevocation, Hear, Fail

LEMMA NextBuys ==
    ASSUME RInv, AllBought, [Next]_vars
    PROVE  AllBought'
<1> SUFFICES ASSUME NEW c \in Challenges PROVE Bought(c)'
  BY DEF AllBought
<1>1. Typed /\ Bought(c)
  BY DEF RInv, AllBought
<1>2. ASSUME NEW r \in Requests, Others(r), req'[r].pc # "code", UNCHANGED <<challenge, bucket, guesses>>
      PROVE  Bought(c)'
  BY <1>1, <1>2, RequestingShrinks, BoughtQuietly
<1>3. ASSUME NEW r \in Requests, Serve(r) \/ Hear(r) \/ Fail(r)
      PROVE  Bought(c)'
  <2>1. CASE RecordAuthAttempt(r)
    BY <1>1, <2>1, AttemptBuys
  <2>2. CASE IssueChallenge(r)
    BY <1>1, <2>2, ChallengeBuys
  <2>3. CASE VerifySecondFactor(r)
    BY <1>1, <2>3, JudgingBuys
  <2>4. CASE ~RecordAuthAttempt(r) /\ ~IssueChallenge(r) /\ ~VerifySecondFactor(r)
    <3>1. UNCHANGED <<challenge, bucket, guesses>>
      BY <1>3, <2>4, ServeCounts
    <3>2. Others(r) /\ req'[r].pc # "code"
      BY <1>1, <1>3, <2>4, ServeMoves, GuardMoves
    <3> QED BY <1>2, <3>1, <3>2
  <2> QED BY <2>1, <2>2, <2>3, <2>4
<1>4. ASSUME UNCHANGED <<challenge, bucket, guesses>>,
             Requesting(c)' \subseteq Requesting(c)
      PROVE  Bought(c)'
  <2>1. IsFiniteSet(Requesting(c)) /\ Cardinality(Requesting(c)) \in Nat
    BY RequestingFinite
  <2>2. Cardinality(Requesting(c)') <= Cardinality(Requesting(c)) /\ Cardinality(Requesting(c)') \in Nat
    BY <1>4, <2>1, FS_Subset, FS_CardinalityType
  <2> QED BY <1>1, <1>4, <2>2, BoughtQuietly
<1>5. ASSUME NEW p \in People, Dashboard(p)
      PROVE  Bought(c)'
  <2>1. CASE Reload(p)
    BY <1>4, <2>1 DEF Reload, store, Requesting
  <2>2. ASSUME NEW r \in Requests, Probe(r, p) \/ Submit(r, p)
        PROVE  Bought(c)'
    BY <1>2, <2>2, FetchMoves
  <2> QED BY <1>5, <2>1, <2>2 DEF Dashboard
<1>6. ASSUME NEW r \in Requests, NEW t \in Strays, SendStray(r, t)
      PROVE  Bought(c)'
  BY <1>2, <1>6, StrayMoves
<1>7. CASE Tick
  BY <1>1, <1>7, TickBuys
<1>8. CASE Crash
  <2>1. \A r \in Requests : req'[r].pc = "idle"
    BY <1>8, IdleFields DEF Crash
  <2> QED BY <1>4, <1>8, <2>1 DEF Crash, store, Requesting
<1>9. CASE Elsewhere \/ UNCHANGED vars
  BY <1>4, <1>9 DEF Elsewhere, vars, store, Requesting
<1> QED BY <1>3, <1>5, <1>6, <1>7, <1>8, <1>9 DEF Next

LEMMA InitBought == Init => AllBought
<1> SUFFICES ASSUME Init, NEW c \in Challenges PROVE Bought(c)
  BY DEF AllBought
<1>1. BucketOf(c) \in Buckets
  BY CodeBuckets
<1> QED BY <1>1, LimitsPositive DEF Init, Bought

(* However many requests carry codes at once, the codes judged against one  *)
(* challenge are at most what one window allows its person, because the    *)
(* window of the first of them outlives the challenge (server.ts).         *)
THEOREM GuessesStayBought == Spec => []GuessesAreBought
<1>1. AllBought => GuessesAreBought
  BY DEF AllBought, Bought, GuessesAreBought
<1>2. RInv /\ AllBought /\ [Next]_vars => AllBought'
  BY NextBuys
<1> QED BY <1>1, <1>2, InitBought, SpecRInv, PTL DEF Spec
=============================================================================
