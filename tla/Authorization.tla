---------------------------- MODULE Authorization ----------------------------
(***************************************************************************)
(* Who may do what, where: the decision function can() (src/authz/can.ts)  *)
(* over the reads of repo/authorization.ts, the grants and the hierarchy   *)
(* they are resolved in (migrations 2, 3, 5 and 8), and the API tokens a   *)
(* person issues and revokes (repo/api_tokens.ts, migration 7).            *)
(*                                                                         *)
(* can() holds no transaction: each of its reads is one, and the rows may  *)
(* change between two of them.  One request is one sequence of such reads. *)
(***************************************************************************)
EXTENDS Catalogue, FiniteSets, Sequences, SequencesExt

CONSTANTS People, Services, Tokens, \* the three kinds of subject
          Founder,                  \* the owner bootstrap created
          Nodes, Root, Resources,   \* the hierarchy, and what owns no node
          KindOf,                   \* [Nodes -> level]
          Hangs, Paths,             \* where each begins, and the path stored for it
          Menu, Begin,              \* rows written by hand: later, and before
          Issues,                   \* [role, node, res, expires] a token may be asked with
          Asks,                     \* [who, name, node, res] that may be asked
          Requests,
          MaxNow, MaxChanges,       \* bounds: instants, and changes by hand
          MaxOpen                   \* bound: calls in progress at once

NoOne == "no-one"
NoRes == "no-resource"
Never == MaxNow + 1     \* no expires_at

Subjects == People \cup Services \cup Tokens
Places == Nodes \cup {Root} \cup Resources
Grant == [subject : Subjects, role : DOMAIN DEFAULT_ROLES,
          effect : {"allow", "deny"}, at : Places, expires : 0..Never]

ASSUME AuthorizationAssumption ==
    /\ Founder \in People /\ NoOne \notin Subjects
    /\ People \cap Tokens = {} /\ Services \cap Tokens = {}
    /\ Root \notin Nodes /\ "gone" \notin Nodes \cup {Root}
    /\ Resources \cap (Nodes \cup {Root, NoRes}) = {}
    /\ MaxNow \in Nat /\ MaxChanges \in Nat
    /\ KindOf \in [Nodes -> {"team", "project", "environment"}]
    /\ UNION Begin \subseteq Menu /\ Menu \subseteq Grant
    /\ \A w \in Issues : /\ w.role \in DOMAIN DEFAULT_ROLES /\ w.expires \in 0..Never
                         /\ w.node \in Nodes \cup {Root} /\ w.res \in Resources \cup {NoRes}
    /\ \A a \in Asks : /\ a.who \in Subjects
                       /\ a.node \in Nodes \cup {Root} /\ a.res \in Resources \cup {NoRes}

(* The trigger of migration 3 has written every path.                      *)
ASSUME TreeAssumption ==
    /\ Hangs \in [Nodes -> Nodes \cup {Root}]
    /\ Paths \in [Nodes -> Seq(Nodes \cup {Root})]
    /\ \A n \in Nodes :
          Paths[n] = Append(IF Hangs[n] = Root THEN <<Root>> ELSE Paths[Hangs[n]], n)

(* With the built-in roles no catalogued action is carried by nobody, so   *)
(* the "no-role-carries-action" branch of can() is never taken.            *)
ASSUME EveryActionIsCarried == \A a \in ACTION_CATALOGUE : rolesCarrying(a) # {}

VARIABLES
    parent,    \* [Nodes -> where it hangs, or "gone"]
    path,      \* [Nodes -> its stored ancestry, root first]
    standing,  \* [People \cup Services -> "enabled", "disabled" or "absent"]
    grants,    \* the rows of grants
    leaving,   \* rows a transaction has deleted and checked, not yet committed
    token,     \* [Tokens -> [issuer, expires, revoked]]; issuer NoOne: not written
    now,
    ask,       \* [Requests -> the call in progress]
    changes,   \* changes made by hand so far
    seen,      \* [Requests -> the parts of a yes true at some moment since asked]
    quiet,     \* [Requests -> nothing has changed since asked]
    raced      \* two removals of an owner have overlapped

data == <<parent, path, standing, grants, token, now>>
vars == <<data, leaving, ask, changes, seen, quiet, raced>>

-----------------------------------------------------------------------------
(* The hierarchy (migration 3).                                            *)

Exists(n) == n = Root \/ (n \in Nodes /\ parent[n] # "gone")
PathOf(n) == IF n = Root THEN <<Root>> ELSE path[n]

(* set_scope_path: the path of a row is that of its parent and itself.     *)
SetScopePath(n, p) == [path EXCEPT ![n] = Append(PathOf(p), n)]

(* scope_ancestry: ancestor.path @> descendant.path.                       *)
AncestorOrSelf(a, n) == Exists(a) /\ Exists(n) /\ IsPrefix(PathOf(a), PathOf(n))

Children(n) == {m \in Nodes : parent[m] = n}

(* live_grants and effective_grants.                                       *)
Live(g) == g.expires > now
Reaches(g, node, res) ==
    \/ AncestorOrSelf(g.at, node)
    \/ g.at \in Resources /\ g.at = res
Effective(s, roles, node, res) ==
    {g \in grants : /\ g.subject = s /\ g.role \in roles
                    /\ Live(g) /\ Reaches(g, node, res)}

(* Mutant: the most specific say of an allow wins over any deny.           *)
DecisionAllowFirst(s, roles, node, res) ==
    IF \E g \in Effective(s, roles, node, res) : g.effect = "allow" THEN "allow" ELSE "deny"

(* grant_decision: a deny before any allow, and nothing at all is a denial. *)
Decision(s, roles, node, res) ==
    LET rows == Effective(s, roles, node, res)
    IN  IF \E g \in rows : g.effect = "deny" THEN "deny"
        ELSE IF \E g \in rows : g.effect = "allow" THEN "allow" ELSE "deny"

HasAllowingGrant(s, roles, node, res) ==
    \E g \in Effective(s, roles, node, res) : g.effect = "allow"

(* live_api_tokens.                                                        *)
LiveToken(t) == ~token[t].revoked /\ token[t].expires > now

FindActorStatus(s) ==
    IF s \in Tokens
    THEN [exists |-> token[s].issuer # NoOne, disabled |-> ~LiveToken(s)]
    ELSE [exists |-> standing[s] # "absent", disabled |-> standing[s] = "disabled"]

-----------------------------------------------------------------------------
(* The rules themselves, at one moment: an allow and no deny, by the        *)
(* ancestry of the parent pointers and not of the stored paths.            *)

(* A node, its parent and so on up: every set that holds the node and lacks *)
(* one of these lacks the parent of one it holds.                          *)
Above(n) ==
    {a \in Nodes \cup {Root} : \A down \in SUBSET ((Nodes \cup {Root}) \ {a}) :
        n \in down => \E m \in down \ {Root} : Exists(m) /\ parent[m] \notin down}

(* A node that is gone has nothing above it, itself included.              *)
Reaching(node, res) == (IF Exists(node) THEN Above(node) ELSE {}) \cup ({res} \ {NoRes})

Rows(s, roles, node, res) ==
    {g \in grants : /\ g.subject = s /\ g.role \in roles /\ g.expires > now
                    /\ g.at \in Reaching(node, res)}
Holds(s, roles, node, res) ==
    LET rows == Rows(s, roles, node, res)
    IN  (\E g \in rows : g.effect = "allow") /\ (\A g \in rows : g.effect = "allow")

MayAct(s) ==
    IF s \in Tokens
    THEN token[s].issuer # NoOne /\ ~token[s].revoked /\ token[s].expires > now
    ELSE standing[s] = "enabled"

(* The parts of a yes to the question of a request that are true now.      *)
Facts(r) ==
    LET q == ask[r]
        Conveyed(s) == Holds(s, q.roles, q.node, q.res)
    IN  {f \in {"actor", "scope", "allow", "issuer", "ceiling"} :
            \/ f = "actor" /\ MayAct(q.actor)
            \/ f = "scope" /\ Exists(q.node)
            \/ f = "allow" /\ Conveyed(q.actor)
            \/ f = "issuer" /\ q.issuer # NoOne /\ MayAct(q.issuer)
            \/ f = "ceiling" /\ q.issuer # NoOne /\ Conveyed(q.issuer)}

Needed(q) == {"actor", "scope", "allow"}
             \cup (IF q.issuer = NoOne THEN {} ELSE {"issuer", "ceiling"})

(* Every step, whoever takes it, is remembered for the calls in progress.  *)
Remember ==
    /\ seen' = [r \in Requests |->
                   IF ask'[r].pc = "status" /\ ask[r].pc # "status" THEN Facts(r)'
                   ELSE IF ask[r].pc \in {"idle", "done"} THEN seen[r]
                   ELSE seen[r] \cup Facts(r)']
    /\ quiet' = [r \in Requests |->
                    quiet[r] /\ (ask[r].pc \in {"idle", "done"} \/ data' = data)]

-----------------------------------------------------------------------------
(* can(), one read at a time.                                              *)

Idle == [pc |-> "idle", doing |-> "decide", actor |-> Founder, issuer |-> NoOne,
         roles |-> {}, node |-> Root, res |-> NoRes, reason |-> "none",
         want |-> CHOOSE w \in Issues : TRUE, left |-> {}, about |-> NoOne]

Starts(r) == /\ ask[r].pc = "idle"
             /\ Cardinality({x \in Requests : ask[x].pc \notin {"idle", "done"}}) < MaxOpen

Becomes(r, q) == ask' = [ask EXCEPT ![r] = q]
Reading == UNCHANGED <<data, leaving, changes, raced>>

(* The two checks that need no database are made on the way in.            *)
Question(q, roles, node, res) ==
    [q EXCEPT !.pc = IF roles = {} THEN "done" ELSE "status",
              !.reason = IF roles = {} THEN "unknown-action" ELSE "none",
              !.roles = roles, !.node = node, !.res = res]

(* A caller that only asked has its answer.  One that requires goes on when *)
(* it is granted and has recently enough proved a password (Sessions).     *)
Answers(r, reason) ==
    \/ Becomes(r, [ask[r] EXCEPT
           !.reason = reason,
           !.pc = IF reason = "granted" /\ ask[r].doing # "decide" THEN "granted" ELSE "done"])
    \/ /\ reason = "granted" /\ ask[r].doing # "decide"
       /\ Becomes(r, [ask[r] EXCEPT !.pc = "done", !.reason = "stale"])

Issuer(s) == IF s \in Tokens THEN token[s].issuer ELSE NoOne

(* can(ctx, action, scope), of a name that may not be an action at all.    *)
CanAsk(r, s, name, node, res) ==
    /\ Starts(r)
    /\ s \in Tokens => token[s].issuer # NoOne
    /\ Becomes(r, Question([Idle EXCEPT !.actor = s, !.issuer = Issuer(s)],
                           IF name \in ACTION_CATALOGUE THEN rolesCarrying(name) ELSE {},
                           node, res))
    /\ Reading

ReadStatus(r) ==
    /\ ask[r].pc = "status"
    /\ LET s == FindActorStatus(ask[r].actor)
       IN  IF ~s.exists THEN Answers(r, "actor-not-in-tenant")
           ELSE IF s.disabled THEN Answers(r, "actor-disabled")
           ELSE Becomes(r, [ask[r] EXCEPT !.pc = "scope"])
    /\ Reading

ReadScope(r) ==
    /\ ask[r].pc = "scope"
    /\ IF Exists(ask[r].node) THEN Becomes(r, [ask[r] EXCEPT !.pc = "grants"])
       ELSE Answers(r, "unknown-scope")
    /\ Reading

(* Mutant: a token is answered as if nobody stood behind it.               *)
ReadGrantsNoCeiling(r) ==
    LET q == ask[r] IN
    /\ q.pc = "grants"
    /\ IF Decision(q.actor, q.roles, q.node, q.res) # "allow"
         THEN Becomes(r, [q EXCEPT !.pc = "explain"])
       ELSE Answers(r, "granted")
    /\ Reading

ReadGrants(r) ==
    LET q == ask[r] IN
    /\ q.pc = "grants"
    /\ IF Decision(q.actor, q.roles, q.node, q.res) # "allow"
         THEN Becomes(r, [q EXCEPT !.pc = "explain"])
       ELSE IF q.actor \in Tokens THEN Becomes(r, [q EXCEPT !.pc = "issuer"])
       ELSE Answers(r, "granted")
    /\ Reading

ReadExplanation(r) ==
    LET q == ask[r] IN
    /\ q.pc = "explain"
    /\ Answers(r, IF HasAllowingGrant(q.actor, q.roles, q.node, q.res)
                  THEN "explicit-deny" ELSE "no-grant")
    /\ Reading

(* ceilingBreach: the same two questions, about the person behind the token. *)
ReadIssuer(r) ==
    /\ ask[r].pc = "issuer"
    /\ LET s == FindActorStatus(ask[r].issuer)
       IN  IF ~s.exists THEN Answers(r, "issuer-not-in-tenant")
           ELSE IF s.disabled THEN Answers(r, "issuer-disabled")
           ELSE Becomes(r, [ask[r] EXCEPT !.pc = "ceiling"])
    /\ Reading

ReadCeiling(r) ==
    LET q == ask[r] IN
    /\ q.pc = "ceiling"
    /\ Answers(r, IF Decision(q.issuer, q.roles, q.node, q.res) = "allow"
                  THEN "granted" ELSE "exceeds-issuer")
    /\ Reading

-----------------------------------------------------------------------------
(* API tokens.                                                             *)

(* One question for every set of roles that carries an action of the role: *)
(* can() tells two actions with the same carriers apart by nothing.        *)
Ceiling(role) == {rolesCarrying(a) : a \in DEFAULT_ROLES[role]}

(* issueApiToken: may the person manage tokens, then holds the person      *)
(* every action of the role where the token is to have it.                 *)
IssueApiToken(r, p, w) ==
    /\ Starts(r)
    /\ w.expires > now
    /\ Becomes(r, Question([Idle EXCEPT !.doing = "issue", !.actor = p, !.want = w,
                                        !.left = Ceiling(w.role)],
                           rolesCarrying(<<"api_token", "manage_own">>), Root, NoRes))
    /\ Reading

(* Mutant: the ceiling is asked of the organization, not of the place.     *)
NextQuestionAtRoot(r) ==
    LET q == ask[r] IN
    /\ q.pc = "granted" /\ q.doing = "issue" /\ q.left # {}
    /\ LET roles == CHOOSE c \in q.left : TRUE
       IN  Becomes(r, Question([q EXCEPT !.left = @ \ {roles}], roles, Root, NoRes))
    /\ Reading
NextQuestion(r) ==
    LET q == ask[r] IN
    /\ q.pc = "granted" /\ q.doing = "issue" /\ q.left # {}
    /\ LET roles == CHOOSE c \in q.left : TRUE     \* the order is that of the role's list
       IN  Becomes(r, Question([q EXCEPT !.left = @ \ {roles}], roles, q.want.node, q.want.res))
    /\ Reading

(* scopeColumns: a resource is named as it is, a node by its own kind.     *)
ResolveColumns(r) ==
    LET q == ask[r] IN
    /\ q.pc = "granted" /\ q.doing = "issue" /\ q.left = {}
    /\ Becomes(r, IF q.want.res = NoRes /\ ~Exists(q.want.node)
                  THEN [q EXCEPT !.pc = "done", !.reason = "no-node"]
                  ELSE [q EXCEPT !.pc = "insert"])
    /\ Reading

TokenGrant(t, w) == [subject |-> t, role |-> w.role, effect |-> "allow", expires |-> Never,
                     at |-> IF w.res = NoRes THEN w.node ELSE w.res]

(* The CHECK constraints of grants (migrations 5 and 8) and its UNIQUE,    *)
(* which two rows at the organization escape: their scope_id is null.      *)
OwnerShaped(g) ==
    g.role = "owner" /\ g.at = Root =>
        g.subject \in People /\ g.effect = "allow" /\ g.expires = Never
Writable(g) ==
    /\ OwnerShaped(g)
    /\ g.expires > now
    /\ g.at = Root \/ \A h \in grants : <<h.subject, h.role, h.at>> # <<g.subject, g.role, g.at>>

(* The token and its grant, in one transaction that a CHECK may refuse.    *)
InsertToken(r, t) ==
    LET q == ask[r]
        g == TokenGrant(t, q.want)
    IN  /\ q.pc = "insert" /\ token[t].issuer = NoOne
        /\ \A x \in Tokens : token[x].issuer = NoOne => t = CHOOSE y \in Tokens : token[y].issuer = NoOne
        /\ IF Writable(g) /\ q.want.expires > now
             THEN /\ token' = [token EXCEPT ![t] = [issuer |-> q.actor, revoked |-> FALSE,
                                                    expires |-> q.want.expires]]
                  /\ grants' = grants \cup {g}
                  /\ Becomes(r, [q EXCEPT !.pc = "done", !.reason = "issued", !.about = t])
             ELSE /\ Becomes(r, [q EXCEPT !.pc = "done", !.reason = "refused"])
                  /\ UNCHANGED <<token, grants>>
        /\ UNCHANGED <<parent, path, standing, now, leaving, changes, raced>>

(* revokeApiToken and revokeApiTokensIssuedBy: one's own, or administration. *)
RevokeAsk(r, p, doing, about) ==
    /\ Starts(r)
    /\ LET owner == IF doing = "revokeOne" THEN token[about].issuer ELSE about
           verb == IF p = owner THEN "manage_own" ELSE "revoke_any"
       IN  /\ owner # NoOne
           /\ Becomes(r, Question([Idle EXCEPT !.doing = doing, !.actor = p, !.about = about],
                                  rolesCarrying(<<"api_token", verb>>), Root, NoRes))
    /\ Reading

Revoke(r) ==
    LET q == ask[r]
        hit == {t \in Tokens : ~token[t].revoked /\ token[t].issuer # NoOne
                               /\ q.about \in {t, token[t].issuer}}
    IN  /\ q.pc = "granted" /\ q.doing \in {"revokeOne", "revokeAll"}
        /\ token' = [t \in Tokens |-> [token[t] EXCEPT !.revoked = @ \/ t \in hit]]
        /\ Becomes(r, [q EXCEPT !.pc = "done", !.reason = "revoked"])
        /\ UNCHANGED <<parent, path, standing, grants, now, leaving, changes, raced>>

-----------------------------------------------------------------------------
(* What changes under a call: rows written by hand or by code outside      *)
(* src/, under the triggers and constraints of the migrations.             *)

ByHand == changes < MaxChanges /\ changes' = changes + 1 /\ ask' = ask

AddGrant(g) ==
    /\ ByHand
    /\ g \notin grants /\ Writable(g)
    /\ grants' = grants \cup {g}
    /\ UNCHANGED <<parent, path, standing, token, now, leaving, raced>>

(* assert_organization_has_owner counts these, in its own transaction's    *)
(* view: what another has deleted and not committed is still there.        *)
OwnerRows == {g \in grants : /\ g.role = "owner" /\ g.at = Root /\ g.subject \in People
                             /\ g.effect = "allow" /\ g.expires = Never}

(* Mutants: nothing counts the owners; a removal is never over.            *)
RemoveGrantUnchecked(g) ==
    /\ ByHand
    /\ g \in grants \ leaving
    /\ leaving' = leaving \cup {g}
    /\ raced' = (raced \/ (g \in OwnerRows /\ leaving \cap OwnerRows # {}))
    /\ UNCHANGED data
CommitRemovalForgets(g) ==
    /\ g \in leaving
    /\ grants' = grants \ {g}
    /\ UNCHANGED <<parent, path, standing, token, now, leaving, ask, changes, raced>>

(* A row is deleted; the deferred trigger counts as the commit begins.     *)
RemoveGrant(g) ==
    /\ ByHand
    /\ g \in grants \ leaving
    /\ OwnerRows \ {g} # {}
    /\ leaving' = leaving \cup {g}
    /\ raced' = (raced \/ (g \in OwnerRows /\ leaving \cap OwnerRows # {}))
    /\ UNCHANGED data

CommitRemoval(g) ==
    /\ g \in leaving
    /\ leaving' = leaving \ {g} /\ grants' = grants \ {g}
    /\ UNCHANGED <<parent, path, standing, token, now, ask, changes, raced>>

(* Disabling and enabling, leaving the organization and joining it.        *)
SetStanding(s, to) ==
    /\ ByHand
    /\ standing[s] # to
    /\ standing' = [standing EXCEPT ![s] = to]
    /\ UNCHANGED <<parent, path, grants, token, now, leaving, raced>>

(* on delete cascade: the node and everything below it.  Ids are not used  *)
(* again, and the grants that named them stay.                             *)
DeleteNode(n) ==
    LET below == {m \in Nodes : Exists(m) /\ n \in Above(m)}
    IN  /\ ByHand
        /\ Exists(n)
        /\ parent' = [m \in Nodes |-> IF m \in below THEN "gone" ELSE parent[m]]
        /\ path' = [m \in Nodes |-> IF m \in below THEN <<>> ELSE path[m]]
        /\ UNCHANGED <<standing, grants, token, now, leaving, raced>>

(* update of parent_id: the trigger recomputes the path of the row itself. *)
Move(n, p) ==
    /\ ByHand
    /\ Exists(n) /\ Exists(p) /\ p # parent[n]
    /\ ~AncestorOrSelf(n, p)
    /\ parent' = [parent EXCEPT ![n] = p]
    /\ path' = SetScopePath(n, p)
    /\ UNCHANGED <<standing, grants, token, now, leaving, raced>>

MoveLeaf(n, p) == Children(n) = {} /\ Move(n, p)

Tick == /\ now < MaxNow /\ now' = now + 1
        /\ UNCHANGED <<parent, path, standing, grants, token, leaving, ask, changes, raced>>

-----------------------------------------------------------------------------
(* An installation some time after bootstrap: its tree, its members, the   *)
(* founder's row and what has been granted since.                          *)
Init ==
    /\ parent = Hangs
    /\ path = Paths
    /\ standing = [s \in People \cup Services |-> "enabled"]
    /\ \E rows \in Begin : grants = rows \cup
          {[subject |-> Founder, role |-> "owner", effect |-> "allow", at |-> Root, expires |-> Never]}
    /\ token = [t \in Tokens |-> [issuer |-> NoOne, expires |-> 0, revoked |-> FALSE]]
    /\ now = 0 /\ leaving = {} /\ changes = 0 /\ raced = FALSE
    /\ ask = [r \in Requests |-> Idle]
    /\ seen = [r \in Requests |-> {}] /\ quiet = [r \in Requests |-> TRUE]

Call(r) ==
    \/ \E a \in Asks : CanAsk(r, a.who, a.name, a.node, a.res)
    \/ ReadStatus(r) \/ ReadScope(r) \/ ReadGrants(r)
    \/ ReadExplanation(r) \/ ReadIssuer(r) \/ ReadCeiling(r)
    \/ \E p \in People, w \in Issues : IssueApiToken(r, p, w)
    \/ NextQuestion(r) \/ ResolveColumns(r)
    \/ \E t \in Tokens : InsertToken(r, t)
    \/ \E p \in People, t \in Tokens : RevokeAsk(r, p, "revokeOne", t)
    \/ \E p, q \in People : RevokeAsk(r, p, "revokeAll", q)
    \/ Revoke(r)

Hand ==
    \/ \E g \in Menu : AddGrant(g)
    \/ \E g \in grants : RemoveGrant(g) \/ CommitRemoval(g)
    \/ \E s \in People \cup Services, to \in {"enabled", "disabled", "absent"} : SetStanding(s, to)
    \/ \E n \in Nodes : DeleteNode(n)
    \/ \E n \in Nodes, p \in Nodes \cup {Root} : MoveLeaf(n, p)
    \/ Tick

Next == ((\E r \in Requests : Call(r)) \/ Hand) /\ Remember
Spec == Init /\ [][Next]_vars

(* With the moves the schema allows and no code of the repository makes.   *)
MovesToo == \E n \in Nodes, p \in Nodes \cup {Root} : Move(n, p)
SpecWithMoves == Init /\ [][((\E r \in Requests : Call(r)) \/ Hand \/ MovesToo) /\ Remember]_vars

-----------------------------------------------------------------------------
Row == [issuer : People \cup {NoOne}, expires : 0..Never, revoked : BOOLEAN]

(* Every variable has its type.                                            *)
TypeOK ==
    /\ parent \in [Nodes -> Nodes \cup {Root, "gone"}]
    /\ \A n \in Nodes : Exists(n) => PathOf(n) \in Seq(Nodes \cup {Root})
    /\ standing \in [People \cup Services -> {"enabled", "disabled", "absent"}]
    /\ grants \subseteq Grant /\ leaving \subseteq grants
    /\ token \in [Tokens -> Row]
    /\ now \in 0..MaxNow /\ changes \in 0..MaxChanges /\ raced \in BOOLEAN
    /\ DOMAIN ask = Requests

(* A yes is never stale in any of its parts: whoever was granted could act, *)
(* the node was there, a grant allowed it with nothing denying it, and, for *)
(* a token, so it was with the person behind it: each part at some moment   *)
(* between the question and the answer, not all at the same one, since the  *)
(* reads of can() are not one transaction.                                  *)
(* (can() and ceilingBreach: "role changes take effect immediately".)      *)
GrantedIsCurrent ==
    \A r \in Requests : ask[r].reason = "granted" => Needed(ask[r]) \subseteq seen[r]

(* When nothing changes under the call, the answer of its chain of reads is *)
(* the one the rules give at once, reason and all.                         *)
AtOnce(r) ==
    LET q == ask[r]
        allowed == \E g \in Rows(q.actor, q.roles, q.node, q.res) : g.effect = "allow"
        standingOf(s, none, off) ==
            IF s \in Tokens \/ standing[s] # "absent" THEN off ELSE none
    IN  IF q.roles = {} THEN "unknown-action"
        ELSE IF ~MayAct(q.actor) THEN standingOf(q.actor, "actor-not-in-tenant", "actor-disabled")
        ELSE IF ~Exists(q.node) THEN "unknown-scope"
        ELSE IF ~Holds(q.actor, q.roles, q.node, q.res)
             THEN IF allowed THEN "explicit-deny" ELSE "no-grant"
        ELSE IF q.issuer = NoOne THEN "granted"
        ELSE IF ~MayAct(q.issuer) THEN standingOf(q.issuer, "issuer-not-in-tenant", "issuer-disabled")
        ELSE IF Holds(q.issuer, q.roles, q.node, q.res) THEN "granted" ELSE "exceeds-issuer"

QuietAnswerIsRight ==
    [][\A r \in Requests :
          ask[r].pc # "done" /\ ask'[r].pc = "done" /\ ask[r].doing = "decide" /\ quiet'[r]
          => ask'[r].reason = AtOnce(r)']_vars

(* A token is born with nothing its issuer lacks: every action of its role, *)
(* asked of the role tables one by one, is the issuer's at that place, if  *)
(* nothing changed while issueApiToken was asking.                         *)
TokenWithinIssuer ==
    [][\A r \in Requests :
          ask'[r].reason = "issued" /\ ask[r].reason # "issued" /\ quiet[r]
          => LET w == ask[r].want
             IN  /\ MayAct(ask[r].actor)
                 /\ \A a \in DEFAULT_ROLES[w.role] :
                       Holds(ask[r].actor, rolesCarrying(a), w.node, w.res)]_vars

(* Somebody owns the organization, as a person and with no end date, after  *)
(* any order of grants, removals and issues, as long as no two removals of *)
(* an owner overlap (migrations 2, 5 and 8).                               *)
OwnerFloor == raced \/ OwnerRows # {}

(* Refuted: the floor holds however the removals interleave.               *)
OwnerAlways == OwnerRows # {}

(* Refuted: "a grant below it cannot" convey an action whose narrowest     *)
(* level is above it (catalogue.ts, ActionDefinition.scope).               *)
LevelAt(place) == IF place = Root THEN "organization"
                  ELSE IF place \in Nodes THEN KindOf[place] ELSE "resource"
NoNarrowGrant ==
    \A r \in Requests : ask[r].reason = "granted" /\ quiet[r] =>
        \E g \in Effective(ask[r].actor, ask[r].roles, ask[r].node, ask[r].res),
           a \in ACTION_CATALOGUE :
            rolesCarrying(a) = ask[r].roles /\ Depth(LevelAt(g.at)) <= Depth(LevelOf(a))

(* Refuted under SpecWithMoves: the stored path is the ancestry.           *)
PathIsAncestry ==
    \A n \in Nodes : Exists(n) =>
        {a \in Nodes \cup {Root} : AncestorOrSelf(a, n)} = Above(n)

(* Refuted: after a revoke-all nothing that was being issued survives it.  *)
NoTokenLeftBehind ==
    \A r, x \in Requests :
        ask[r].doing = "revokeAll" /\ ask[r].reason = "revoked" /\ ask[x].reason = "issued"
        /\ ask[x].actor = ask[r].about => token[ask[x].about].revoked
=============================================================================
