------------------------------- MODULE Server -------------------------------
(***************************************************************************)
(* The HTTP surface (src/src/api): the route table, the guard in front of  *)
(* every request, the handlers, the refusals, and the dashboard's own use  *)
(* of them (src/src/web).  It composes what other modules have in detail:  *)
(* the session store (Sessions), the second factor (TwoFactor) and the     *)
(* rate limit (RateLimit) are here one step per call, as they promise.     *)
(*                                                                         *)
(* A handler awaits the database between its steps, so two requests and    *)
(* the database's other users interleave at each of them.                  *)
(***************************************************************************)
EXTENDS Catalogue, Network, Sequences

CONSTANTS People,         \* with an account
          Browsers,       \* those of them who open the dashboard
          MaxSession, MaxChallenge, \* bounds: identifiers, drawn in order
          MaxRequests,    \* bound: requests in flight
          Settings,       \* [declared, bind, port, acknowledged, visited, reauth]
          Strays,         \* what others may send to the routes served here
          Permissions,    \* what each person may hold, and change to
          Patient,        \* whether a refused person waits until the windows are over
          AccountLimit, AddressLimit, Window, ChallengeLife, \* budgets, in ticks
          MaxTrouble  \* bound: requests of others, and faults

Requests == 1..MaxRequests
Sids == 1..MaxSession
Challenges == 1..MaxChallenge
None == 0
Nobody == "nobody"

ASSUME ServerAssumption ==
    /\ Patient \in BOOLEAN /\ Nobody \notin People /\ Browsers \subseteq People
    /\ MaxSession \in Nat /\ MaxChallenge \in Nat /\ MaxRequests \in Nat /\ MaxTrouble \in Nat
    /\ \A choice \in Permissions : choice \in [People -> SUBSET ACTION_CATALOGUE]
    /\ AccountLimit \in Nat \ {0} /\ AddressLimit \in Nat \ {0}
    /\ Window \in Nat /\ ChallengeLife \in Nat /\ ChallengeLife < Window
    /\ \A s \in Settings : ~OriginRefusal(s.declared) /\ s.reauth \subseteq ACTION_CATALOGUE

-----------------------------------------------------------------------------
(* The route table (routes.ts).                                            *)

Public == <<"none", "none">>
Route(method, path, requires) == [method |-> method, path |-> path, requires |-> requires]

PublicRoutes ==
    {Route("POST", <<"auth", "sign-in">>, Public), Route("POST", <<"auth", "two-factor">>, Public),
     Route("POST", <<"auth", "sign-out">>, Public), Route("POST", <<"bootstrap">>, Public),
     Route("GET", <<"bootstrap">>, Public), Route("GET", <<"health">>, Public)}

CRUD(path, resource, verbs) ==
    {Route(v[1], path, <<resource, v[2]>>) : v \in verbs}

guardedRoutes ==
    CRUD(<<"organization">>, "organization",
         {<<"GET", "read">>, <<"PATCH", "update">>, <<"DELETE", "delete">>})
    \cup CRUD(<<"organization", "security-policy">>, "organization", {<<"PUT", "manage_security_policy">>})
    \cup CRUD(<<"members">>, "member", {<<"GET", "read">>, <<"POST", "invite">>})
    \cup CRUD(<<"members", ":userId">>, "member", {<<"DELETE", "remove">>})
    \cup CRUD(<<"members", ":userId", "revoke-sessions">>, "member", {<<"POST", "revoke_sessions">>})
    \cup CRUD(<<"grants">>, "grant", {<<"GET", "read">>, <<"POST", "create">>})
    \cup CRUD(<<"grants", ":grantId">>, "grant", {<<"DELETE", "revoke">>})
    \cup CRUD(<<"projects">>, "project", {<<"GET", "read">>, <<"POST", "create">>})
    \cup CRUD(<<"projects", ":projectId">>, "project",
              {<<"GET", "read">>, <<"PATCH", "update">>, <<"DELETE", "delete">>})
    \cup CRUD(<<"environments", ":environmentId">>, "environment", {<<"GET", "read">>})
    \cup CRUD(<<"environments", ":environmentId", "secrets">>, "secret", {<<"GET", "read_name">>})
    \cup CRUD(<<"environments", ":environmentId", "secrets", ":key", "value">>, "secret", {<<"GET", "read_value">>})
    \cup CRUD(<<"environments", ":environmentId", "secrets", ":key">>, "secret", {<<"PUT", "create">>})
    \cup CRUD(<<"audit">>, "audit_log", {<<"GET", "read">>})
    \cup CRUD(<<"tokens">>, "api_token", {<<"GET", "read_any">>, <<"POST", "manage_own">>})
    \cup CRUD(<<"tokens", ":tokenId">>, "api_token", {<<"DELETE", "revoke_any">>})

ROUTES == PublicRoutes \cup guardedRoutes
isSafeMethod(method) == method = "GET"

(* The routes that have a handler: server.ts binds no stub for the rest.   *)
handlers ==
    {<<"GET", <<"organization">>>>, <<"GET", <<"members">>>>, <<"GET", <<"projects">>>>,
     <<"GET", <<"projects", ":projectId">>>>, <<"GET", <<"audit">>>>,
     <<"POST", <<"members", ":userId", "revoke-sessions">>>>}
boundRouteKeys == handlers \cup {<<r.method, r.path>> : r \in PublicRoutes}

ASSUME validateRoutes == \A r \in guardedRoutes : r.requires \in ACTION_CATALOGUE
ASSUME validateBindings == boundRouteKeys \subseteq {<<r.method, r.path>> : r \in ROUTES}

RouteOf(method, path) == CHOOSE r \in ROUTES : r.method = method /\ r.path = path
signIn == RouteOf("POST", <<"auth", "sign-in">>)
twoFactor == RouteOf("POST", <<"auth", "two-factor">>)
signOut == RouteOf("POST", <<"auth", "sign-out">>)
organization == RouteOf("GET", <<"organization">>)
project == RouteOf("GET", <<"projects", ":projectId">>)
revokeSessions == RouteOf("POST", <<"members", ":userId", "revoke-sessions">>)

(* What this module serves: signing in and out, and the guarded routes     *)
(* that are bound.  Outside it are a request for any other path, which the *)
(* framework refuses unrecorded, and the three public routes that have no  *)
(* session (GET /health, GET and POST /bootstrap; Startup has the claim).  *)
servedRoutes ==
    {signIn, twoFactor, signOut} \cup {r \in guardedRoutes : <<r.method, r.path>> \in handlers}

(* Who signs in names an account, and a code is sent with a challenge.     *)
ASSUME StraysAssumption == \A t \in Strays :
    /\ t.route \in servedRoutes /\ t.who \in People \cup {Nobody} /\ t.about \in Challenges \cup {None}
    /\ t.right \in BOOLEAN /\ t.token \in {"none", "own", "other", "query"}
    /\ (t.route = signIn => t.who \in People) /\ (t.route = twoFactor => t.about \in Challenges)

-----------------------------------------------------------------------------
VARIABLES
    setting,    \* how this process was configured, and its organization's reauth_actions
    session,    \* [Sids -> [user, state]]
    challenge,  \* [Challenges -> [user, open, left]]
    bucket,     \* live rate-limit windows: [used, left]
    owes,       \* people a second factor is demanded of
    may,        \* [People -> the actions they are granted]
    req,        \* [Requests -> the request in progress]
    page,       \* [People -> where their dashboard is]
    jar,        \* [People -> the session cookie their browser holds]
    told,       \* [People -> the challenges their client was told]
    trouble,    \* so far
    guesses,    \* history: codes judged against each challenge
    over        \* history: sessions whose sign-out has been answered

store == <<session, challenge, bucket, owes, may>>
client == <<page, jar, told, over>>
vars == <<setting, store, req, client, trouble, guesses>>

trusted == resolveTrustedOrigins(setting.declared, setting.bind, setting.port)
policy == cookiePolicy(trusted, setting.acknowledged)

Dimension(route, account) == {<<route.path[2], "account", account>>, <<route.path[2], "address", None>>}
Buckets == UNION ({Dimension(signIn, p) : p \in People} \cup {Dimension(twoFactor, c) : c \in Challenges})
LimitOf(b) == IF b[2] = "address" THEN AddressLimit ELSE AccountLimit

Live(s) == s # None /\ session[s].state = "live"
Unissued(ids, row) == {i \in ids : row[i].user = Nobody}
Fresh(ids, row) == {i \in Unissued(ids, row) : \A j \in Unissued(ids, row) : i <= j}

Idle == [pc |-> "idle", route |-> signIn, owner |-> Nobody, cookie |-> None,
         headers |-> [origin |-> <<>>, referer |-> <<>>, tokens |-> <<>>, inQuery |-> FALSE],
         who |-> Nobody, as |-> Nobody, about |-> None, right |-> FALSE,
         session |-> None, entries |-> 0, over |-> {},
         status |-> 0, sets |-> None, tells |-> None]

At(r, pc) == req[r].pc = pc
Goes(r, pc) == req' = [req EXCEPT ![r].pc = pc]
Answered(q, status) ==    \* what is left of a request once its answer is out
    [Idle EXCEPT !.pc = "answered", !.route = q.route, !.owner = q.owner, !.cookie = q.cookie,
                 !.entries = q.entries, !.status = status]
Answer(r, status) == req' = [req EXCEPT ![r] = Answered(@, status)]
RecordsAndAnswers(r, status) ==
    req' = [req EXCEPT ![r] = [Answered(req[r], status) EXCEPT !.entries = req[r].entries + 1]]
OnlyReq == UNCHANGED <<setting, store, client, trouble, guesses>>

-----------------------------------------------------------------------------
(* The guard (csrf.ts).                                                    *)

csrfTokenForSessionId(s) == <<"csrf", s>>

(* The first test a request fails.  Values of one header arrive joined into *)
(* one, which is no origin and no token.                                   *)
Joined(values) == IF Len(values) > 1 THEN <<NoOrigin>> ELSE values

checkCsrf(q, s) ==
    LET claimed == IF q.headers.origin # <<>> THEN Joined(q.headers.origin) ELSE Joined(q.headers.referer)
    IN  IF s = None THEN "unauthenticated"
        ELSE IF claimed = <<>> THEN "origin-missing"
        ELSE IF normaliseOrigin(claimed[1]) \notin trusted THEN "origin-untrusted"
        ELSE IF q.headers.inQuery THEN "token-in-query"
        ELSE IF q.headers.tokens = <<>> THEN "token-missing"
        ELSE IF Len(q.headers.tokens) > 1 \/ q.headers.tokens[1] # csrfTokenForSessionId(s)
             THEN "token-mismatch"
        ELSE "ok"

(* Where a served route begins, past the guard.                            *)
FirstStep(route) ==
    CASE route \in {signIn, twoFactor} -> "limit"
      [] route = signOut -> "end"
      [] OTHER -> "resolve"

(* Mutants: the guard of each guarded route, and one that no sign-in passes. *)
GuardPerRoute(r) ==
    LET q == req[r]
    IN  /\ q.pc = "guard"
        /\ Goes(r, IF q.route.requires = Public \/ ~Live(q.cookie) \/ checkCsrf(q, q.cookie) = "ok"
                   THEN FirstStep(q.route) ELSE "rejected")
        /\ OnlyReq
GuardEverybody(r) ==
    LET q == req[r]
    IN  /\ q.pc = "guard"
        /\ Goes(r, IF Live(q.cookie) /\ checkCsrf(q, q.cookie) = "ok" THEN FirstStep(q.route) ELSE "rejected")
        /\ OnlyReq

(* guardCsrf: before any route, for a live session and an unsafe method.   *)
Guard(r) ==
    LET q == req[r]
        s == IF Live(q.cookie) THEN q.cookie ELSE None
        verdict == checkCsrf(q, s)
    IN  /\ q.pc = "guard"
        /\ IF s = None THEN Goes(r, FirstStep(q.route))
           ELSE Goes(r, IF verdict = "ok" THEN FirstStep(q.route) ELSE "rejected")
        /\ OnlyReq

RecordRejection(r) == At(r, "rejected") /\ RecordsAndAnswers(r, 404) /\ OnlyReq

-----------------------------------------------------------------------------
(* Signing in.                                                             *)

(* recordAuthAttempt: both dimensions are counted where there is room, and  *)
(* the attempt goes on when both had some.                                 *)
HasRoom(b) == bucket[b].used < LimitOf(b)
Opened(b) == IF bucket[b].used = 0 THEN Window ELSE bucket[b].left
CountedUnopened(b) == [used |-> bucket[b].used + 1, left |-> bucket[b].left]  \* mutant
Counted(b) == [used |-> bucket[b].used + 1, left |-> Opened(b)]

DimensionsOfAddress(q) == {b \in Dimension(q.route, None) : b[2] = "address"}  \* mutant
Dimensions(q) == Dimension(q.route, IF q.route = signIn THEN q.who ELSE q.about)

RecordAuthAttempt(r) ==
    LET keys == Dimensions(req[r]) IN
    /\ At(r, "limit")
    /\ bucket' = [b \in Buckets |-> IF b \in keys /\ HasRoom(b) THEN Counted(b) ELSE bucket[b]]
    /\ IF \A b \in keys : HasRoom(b)
         THEN Goes(r, IF req[r].route = signIn THEN "password" ELSE "code")
         ELSE Answer(r, 401)
    /\ UNCHANGED <<setting, session, challenge, owes, may, client, trouble, guesses>>

(* signIn: the credential, then what second factor is owed, then a row.    *)
VerifyPassword(r) ==
    /\ At(r, "password")
    /\ IF req[r].right THEN Goes(r, IF req[r].who \in owes THEN "challenge" ELSE "start")
       ELSE Answer(r, 401)
    /\ OnlyReq

(* The answer to a right password that owes a factor is one of two frozen   *)
(* bodies: the token of the challenge is in neither.                       *)
secondFactorOwed(c) == None
IssueChallenge(r) ==
    /\ At(r, "challenge")
    /\ \E c \in Fresh(Challenges, challenge) :
          /\ challenge' = [challenge EXCEPT ![c] = [user |-> req[r].who, open |-> TRUE, left |-> ChallengeLife]]
          /\ req' = [req EXCEPT ![r] = [Answered(@, 401) EXCEPT !.tells = secondFactorOwed(c)]]
    /\ UNCHANGED <<setting, session, bucket, owes, may, client, trouble, guesses>>

(* Mutant: an identifier that is not in use is issued again.               *)
StartSessionAgain(r) ==
    /\ At(r, "start")
    /\ \E s \in Sids :
          /\ ~Live(s)
          /\ session' = [session EXCEPT ![s] = [user |-> req[r].who, state |-> "live"]]
          /\ req' = [req EXCEPT ![r] = [Answered(@, 200) EXCEPT !.sets = s]]
    /\ UNCHANGED <<setting, challenge, bucket, owes, may, client, trouble, guesses>>

StartSession(r) ==
    /\ At(r, "start")
    /\ \E s \in Fresh(Sids, session) :
          /\ session' = [session EXCEPT ![s] = [user |-> req[r].who, state |-> "live"]]
          /\ req' = [req EXCEPT ![r] = [Answered(@, 200) EXCEPT !.sets = s]]
    /\ UNCHANGED <<setting, challenge, bucket, owes, may, client, trouble, guesses>>

(* verifySecondFactor: the code is judged against a challenge that is live, *)
(* the challenge is redeemed, and a session of its person begins.          *)
VerifySecondFactor(r) ==
    LET c == req[r].about
        live == c # None /\ challenge[c].open /\ challenge[c].left > 0
    IN  /\ At(r, "code")
        /\ guesses' = IF live THEN [guesses EXCEPT ![c] = @ + 1] ELSE guesses
        /\ IF live /\ req[r].right /\ challenge[c].user \in owes
             THEN /\ challenge' = [challenge EXCEPT ![c].open = FALSE]
                  /\ req' = [req EXCEPT ![r] = [@ EXCEPT !.pc = "start", !.who = challenge[c].user]]
             ELSE Answer(r, 401) /\ UNCHANGED challenge
        /\ UNCHANGED <<setting, session, bucket, owes, may, client, trouble>>

(* revokeSessionByToken, whatever the cookie names.                        *)
Ended(sids) == [s \in Sids |-> IF s \in sids /\ Live(s) THEN [session[s] EXCEPT !.state = "dead"] ELSE session[s]]
(* Mutant: signing out clears the cookie and no more.                      *)
SignOutCookieOnly(r) == At(r, "end") /\ Answer(r, 200) /\ OnlyReq
SignOut(r) ==
    /\ At(r, "end")
    /\ session' = Ended({req[r].cookie})
    /\ Answer(r, 200)
    /\ UNCHANGED <<setting, challenge, bucket, owes, may, client, trouble, guesses>>

-----------------------------------------------------------------------------
(* A guarded route.                                                        *)

(* The session is resolved again; what follows acts as its person.         *)
Resolve(r) ==
    /\ At(r, "resolve")
    /\ IF Live(req[r].cookie)
         THEN req' = [req EXCEPT ![r] = [@ EXCEPT !.pc = "permit", !.session = req[r].cookie,
                                                  !.as = session[req[r].cookie].user]]
         ELSE Answer(r, 401)
    /\ OnlyReq

(* require() inside the repository.  Oneself needs no permission to be      *)
(* signed out.  No request names its session to the context, so an action  *)
(* that must be fresh is "no-session", and that error is not a refusal.    *)
Permit(r) ==
    LET q == req[r] IN
    /\ q.pc = "permit"
    /\ IF q.route = revokeSessions /\ q.who = q.as THEN Goes(r, "act")
       ELSE IF q.route.requires \notin may[q.as] THEN Goes(r, "denied")
       ELSE IF q.route.requires \in setting.reauth THEN Answer(r, 500)
       ELSE Goes(r, "act")
    /\ OnlyReq

(* renderDenial.  The denial of a revocation has been recorded by           *)
(* applyPrivilegeChange already, and is recorded again as it is rendered.  *)
RecordDenial(r) ==
    /\ At(r, "denied")
    /\ IF req[r].route = revokeSessions
         THEN req' = [req EXCEPT ![r].pc = "absent", ![r].entries = @ + 1]
         ELSE RecordsAndAnswers(r, 404)
    /\ OnlyReq

(* found(): a row that is not there is refused like a denial, and recorded. *)
(* The organization of a session that resolved is there.                   *)
(* Mutant: the refusal of what is not there is served and not recorded.    *)
ActReadUnrecorded(r) ==
    /\ At(r, "act") /\ req[r].route # revokeSessions
    /\ \/ Answer(r, 200)
       \/ req[r].route = project /\ Answer(r, 404)
    /\ OnlyReq
ActRead(r) ==
    /\ At(r, "act") /\ req[r].route # revokeSessions
    /\ \/ Answer(r, 200)
       \/ req[r].route = project /\ Goes(r, "absent")
    /\ OnlyReq
RecordAbsence(r) == At(r, "absent") /\ RecordsAndAnswers(r, 404) /\ OnlyReq

(* applyPrivilegeChange: the sessions, and then the entry about them.      *)
ActRevoke(r) ==
    /\ At(r, "act") /\ req[r].route = revokeSessions
    /\ session' = Ended({s \in Sids : session[s].user = req[r].who})
    /\ Goes(r, "revoked")
    /\ UNCHANGED <<setting, challenge, bucket, owes, may, client, trouble, guesses>>
RecordRevocation(r) == At(r, "revoked") /\ RecordsAndAnswers(r, 200) /\ OnlyReq

-----------------------------------------------------------------------------
(* Clients.                                                                *)

(* Bounds: identifiers run out for nobody who began to sign in, nor, for    *)
(* lack of one, for the dashboard, and requests take the first free place.  *)
Signing(routes) == {r \in Requests : req[r].pc # "idle" /\ req[r].route \in routes}
Left(owner) == Cardinality(Unissued(Sids, session))
                 - (IF owner = Nobody THEN Cardinality(Browsers) + MaxTrouble - trouble - 1 ELSE 0)
RoomFor(route, owner) ==
    /\ route \in {signIn, twoFactor} => Left(owner) > Cardinality(Signing({signIn, twoFactor}))
    /\ route = signIn => Cardinality(Unissued(Challenges, challenge)) > Cardinality(Signing({signIn}))

Send(r, q) ==
    /\ At(r, "idle") /\ \A x \in Requests : x < r => ~At(x, "idle")
    /\ RoomFor(q.route, q.owner)
    /\ req' = [req EXCEPT ![r] = [q EXCEPT !.pc = IF isSafeMethod(q.route.method) THEN FirstStep(q.route) ELSE "guard",
                                           !.over = over]]

Trouble == trouble < MaxTrouble /\ trouble' = trouble + 1

(* The dashboard's fetch: its origin, its cookie, and no token.            *)
Fetch(p, route) ==
    [Idle EXCEPT !.route = route, !.owner = p, !.cookie = jar[p],
                 !.headers.origin = IF isSafeMethod(route.method) THEN <<>> ELSE <<setting.visited>>]

Quiet(p) == \A r \in Requests : req[r].owner # p

(* resolveEntry: is there a session, and what is it good for?              *)
Probe(r, p) ==
    /\ page[p] = "probe" /\ Quiet(p)
    /\ Send(r, Fetch(p, organization))
    /\ UNCHANGED <<setting, store, client, trouble, guesses>>

(* SignInForm, filled in by somebody who knows the password.               *)
Submit(r, p) ==
    /\ page[p] = "form" /\ Quiet(p)
    /\ Patient => \A b \in Dimension(signIn, p) : HasRoom(b)
    /\ Send(r, [Fetch(p, signIn) EXCEPT !.who = p, !.right = TRUE])
    /\ UNCHANGED <<setting, store, client, trouble, guesses>>

(* A client of the API that answers a challenge it was told of.            *)
PostCode(r, p) ==
    /\ Quiet(p)
    /\ \E c \in told[p] : Send(r, [Fetch(p, twoFactor) EXCEPT !.about = c, !.right = TRUE])
    /\ UNCHANGED <<setting, store, client, trouble, guesses>>

(* Anybody else, with whatever cookies and tokens there are.               *)
SendStray(r, t) ==
    /\ Trouble
    /\ \E s \in {None} \cup {x \in Sids : session[x].user # Nobody} :
          /\ t.token = "own" => s # None
          /\ t.about # None => challenge[t.about].user # Nobody
          /\ Send(r, [Idle EXCEPT
                 !.route = t.route, !.cookie = s, !.who = t.who, !.about = t.about, !.right = t.right,
                 !.headers = [origin |-> t.origin, referer |-> <<>>, inQuery |-> t.token = "query",
                              tokens |-> IF t.token = "own" THEN <<csrfTokenForSessionId(s)>>
                                         ELSE IF t.token = "other" THEN <<csrfTokenForSessionId(None)>>
                                         ELSE <<>>]])
    /\ UNCHANGED <<setting, store, page, jar, told, over, guesses>>

(* What the page does with a status: resolveEntry, SignInForm, Entry.      *)
NextPage(q) ==
    IF q.route = organization
    THEN IF q.status = 200 THEN "shell" ELSE IF q.status \in {401, 404} THEN "form" ELSE "unreachable"
    ELSE IF q.status = 200 THEN "probe" ELSE "form"

(* The browser keeps the cookie if the policy lets it.                     *)
Kept(p, q) == IF q.sets # None /\ Stores(policy, setting.visited) THEN q.sets ELSE jar[p]

Hear(r) ==
    LET q == req[r]
        p == q.owner
    IN  /\ q.pc = "answered"
        /\ req' = [req EXCEPT ![r] = Idle]
        /\ IF p = Nobody THEN UNCHANGED <<page, jar, told>>
           ELSE /\ page' = [page EXCEPT ![p] = NextPage(q)]
                /\ jar' = [jar EXCEPT ![p] = Kept(p, q)]
                /\ told' = [told EXCEPT ![p] = IF q.tells # None THEN {q.tells}
                                               ELSE IF q.route = twoFactor THEN {} ELSE @]
        /\ over' = IF q.route = signOut /\ q.status = 200 THEN over \cup ({q.cookie} \ {None}) ELSE over
        /\ UNCHANGED <<setting, store, trouble, guesses>>

(* Loading the page again, which starts it over.                           *)
Reload(p) ==
    /\ page[p] \in {"unreachable", "busy"} /\ Quiet(p)
    /\ page' = [page EXCEPT ![p] = "probe"]
    /\ UNCHANGED <<setting, store, req, jar, told, over, trouble, guesses>>

-----------------------------------------------------------------------------
(* Everything else.                                                        *)

Tick ==
    /\ \/ \E b \in Buckets : bucket[b].left > 0
       \/ \E c \in Challenges : challenge[c].left > 0
    /\ bucket' = [b \in Buckets |-> IF bucket[b].left <= 1 THEN [used |-> 0, left |-> 0]
                                    ELSE [bucket[b] EXCEPT !.left = @ - 1]]
    /\ challenge' = [c \in Challenges |-> IF challenge[c].left = 0 THEN challenge[c]
                                          ELSE [challenge[c] EXCEPT !.left = @ - 1]]
    /\ UNCHANGED <<setting, session, owes, may, req, client, trouble, guesses>>

(* A database call throws: the framework answers 500.  A rate-limit store   *)
(* that cannot be reached refuses instead (storeUnavailable).              *)
Fail(r) ==
    /\ Trouble
    /\ req[r].pc \notin {"idle", "answered"}
    /\ Answer(r, IF req[r].pc = "limit" THEN 401 ELSE 500)
    /\ UNCHANGED <<setting, store, client, guesses>>

(* The process dies and is started again: what was in flight is not        *)
(* answered, and a form whose fetch was rejected stays busy.               *)
Crash ==
    /\ Trouble
    /\ \E r \in Requests : req[r].pc # "idle"
    /\ req' = [r \in Requests |-> Idle]
    /\ page' = [p \in People |->
                   IF Quiet(p) THEN page[p]
                   ELSE IF page[p] = "probe" THEN "unreachable" ELSE "busy"]
    /\ UNCHANGED <<setting, store, jar, told, over, guesses>>

(* Expiry, revocation elsewhere, enrolment or a reset of it, other grants. *)
Elsewhere ==
    /\ Trouble
    /\ \/ \E s \in Sids : Live(s) /\ session' = Ended({s}) /\ UNCHANGED <<owes, may>>
       \/ \E p \in Browsers : owes' = (owes \ {p}) \cup ({p} \ owes) /\ UNCHANGED <<session, may>>
       \/ may' \in Permissions /\ UNCHANGED <<session, owes>>
    /\ UNCHANGED <<setting, challenge, bucket, req, client, guesses>>

-----------------------------------------------------------------------------
Init ==
    /\ setting \in Settings
    /\ session = [s \in Sids |-> [user |-> Nobody, state |-> "unissued"]]
    /\ challenge = [c \in Challenges |-> [user |-> Nobody, open |-> FALSE, left |-> 0]]
    /\ bucket = [b \in Buckets |-> [used |-> 0, left |-> 0]]
    /\ owes \in SUBSET Browsers /\ may \in Permissions
    /\ req = [r \in Requests |-> Idle]
    /\ page = [p \in People |-> IF p \in Browsers THEN "probe" ELSE "closed"] /\ jar = [p \in People |-> None]
    /\ told = [p \in People |-> {}] /\ over = {}
    /\ trouble = 0
    /\ guesses = [c \in Challenges |-> 0]

Serve(r) ==
    \/ Guard(r) \/ RecordRejection(r)
    \/ RecordAuthAttempt(r) \/ VerifyPassword(r) \/ IssueChallenge(r)
    \/ StartSession(r) \/ VerifySecondFactor(r) \/ SignOut(r)
    \/ Resolve(r) \/ Permit(r) \/ RecordDenial(r) \/ ActRead(r) \/ RecordAbsence(r)
    \/ ActRevoke(r) \/ RecordRevocation(r)

Dashboard(p) == (\E r \in Requests : Probe(r, p) \/ Submit(r, p)) \/ Reload(p)

Next ==
    \/ \E r \in Requests : Serve(r) \/ Hear(r) \/ Fail(r)
    \/ \E p \in People : Dashboard(p)
    \/ \E r \in Requests, t \in Strays : SendStray(r, t)
    \/ Tick \/ Crash \/ Elsewhere

Spec == Init /\ [][Next]_vars

(* The event loop gets to every handler and the network to every answer,   *)
(* the clock goes on, and people keep trying to sign in.                   *)
Fairness ==
    /\ \A r \in Requests : WF_vars(Serve(r)) /\ WF_vars(Hear(r))
    /\ WF_vars(Tick)
    /\ \A p \in People : /\ SF_vars(\E r \in Requests : Probe(r, p) \/ Submit(r, p))
                         /\ WF_vars(Reload(p))
FairSpec == Spec /\ Fairness

(* And with a client that would answer the challenges it is told of.       *)
AnswerChallenges(p) == \E r \in Requests : PostCode(r, p)
FairSpecWithCodes ==
    /\ Init /\ [][Next \/ \E p \in Browsers : AnswerChallenges(p)]_vars
    /\ Fairness
    /\ \A p \in Browsers : SF_vars(AnswerChallenges(p))

-----------------------------------------------------------------------------
(* Properties.                                                             *)

TypeOK ==
    /\ setting \in Settings
    /\ session \in [Sids -> [user : People \cup {Nobody}, state : {"unissued", "live", "dead"}]]
    /\ challenge \in [Challenges -> [user : People \cup {Nobody}, open : BOOLEAN, left : 0..ChallengeLife]]
    /\ \A b \in Buckets : /\ bucket[b].used \in 0..LimitOf(b)
                          /\ bucket[b].left \in 0..Window
                          /\ bucket[b].used = 0 <=> bucket[b].left = 0
    /\ owes \subseteq People /\ may \in Permissions
    /\ \A r \in Requests : /\ req[r].cookie \in Sids \cup {None} /\ req[r].session \in Sids \cup {None}
                           /\ req[r].status \in {0, 200, 401, 404, 500} /\ req[r].entries \in 0..2
    /\ page \in [People -> {"closed", "probe", "form", "busy", "unreachable", "shell"}]
    /\ jar \in [People -> Sids \cup {None}] /\ told \in [People -> SUBSET Challenges]
    /\ over \subseteq Sids /\ trouble \in 0..MaxTrouble

(* A request that ends sessions came from a trusted origin and carried the  *)
(* token of the very session it acts as, although the guard and the handler *)
(* each look the session up for themselves, with other requests in between  *)
(* (server.ts 372-389, 633-650).                                           *)
Proven(q, s) ==
    /\ q.headers.origin # <<>> /\ normaliseOrigin(q.headers.origin[1]) \in trusted
    /\ q.headers.tokens = <<csrfTokenForSessionId(s)>>
OnlyProvenRequestsEnd ==
    [][\A r \in Requests :
          /\ At(r, "end") /\ ~At(r, "end")' /\ session' # session => Proven(req[r], req[r].cookie)
          /\ At(r, "act") /\ At(r, "revoked")' => Proven(req[r], req[r].session)]_vars

(* Whatever the reason, nobody is told 404, and nobody is told that sessions *)
(* were ended, before the log has an entry of it (refusal.ts 184-202,      *)
(* privilege_changes.ts 88-135).                                           *)
RefusalIsAccounted ==
    \A r \in Requests :
        At(r, "answered") /\ (req[r].status = 404 \/ (req[r].status = 200 /\ req[r].route = revokeSessions))
            => req[r].entries >= 1

(* A request sent after a sign-out was answered does not act as the session *)
(* that was signed out (server.ts 601-621).                                *)
SignedOutIsOut == \A r \in Requests : req[r].session \notin req[r].over

(* The codes judged against one challenge stay within one window's budget: a *)
(* challenge does not outlive the window of its first guess, so more codes  *)
(* are bought with another sign-in (server.ts 555-560).                    *)
GuessesAreBought == \A c \in Challenges : guesses[c] <= AccountLimit

(* The sessions of this module are those SessionLedger promises: issued     *)
(* once, to one person, and never alive again.                             *)
Ledger == INSTANCE SessionLedger WITH
    Sids <- Sids, Holders <- People \cup {Nobody},
    status <- [s \in Sids |-> session[s].state], holder <- [s \in Sids |-> session[s].user]
ImplementsLedger == Ledger!LedgerSpec

(* Somebody who owes no second factor, may read the organization and whose  *)
(* browser keeps the cookie gets past the form, whatever fails on the way   *)
(* and however the attempts are limited (FirstRun.tsx 204-250,             *)
(* session.ts 48-88).                                                      *)
CanEnter(p) ==
    /\ p \notin owes /\ organization.requires \in may[p] /\ organization.requires \notin setting.reauth
    /\ Stores(policy, setting.visited)
SignsIn == \A p \in Browsers : [](CanEnter(p)) => <>(page[p] = "shell")

(* routes.ts 135-139: the second factor is how somebody who owes one signs  *)
(* in.                                                                     *)
SecondFactorSignsIn ==
    \A p \in Browsers :
        []((p \in owes \/ CanEnter(p)) /\ organization.requires \in may[p] /\ Stores(policy, setting.visited))
            => <>(page[p] = "shell")

(* server.ts 318-319: a refused revocation is rendered without a second     *)
(* entry.                                                                  *)
OneEntryPerRefusal == \A r \in Requests : req[r].entries <= 1
=============================================================================
