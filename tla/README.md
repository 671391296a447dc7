# Ratline in TLA+

TLA+ models of the parts of Ratline whose correctness depends on order: what
several requests, transactions, file operations, messages and restarts do to one
piece of state.  TLC checks them on small instances; TLAPS proves some of the
results for instances of every size.  Sources are named relative to the
repository (so `src/src/repo/sessions.ts` is the file `src/repo/sessions.ts` of
the control plane, `src/agent/...` the Go agent).

1. [The system](#1-the-system)
2. [The modules](#2-the-modules)
3. [How the database and the files are modelled](#3-how-the-database-and-the-files-are-modelled)
4. [The runs](#4-the-runs)
5. [Where the code departs from its comments](#5-where-the-code-departs-from-its-comments)
6. [The proofs](#6-the-proofs)
7. [Bounds, fairness and what is left out](#7-bounds-fairness-and-what-is-left-out)
8. [What is left to do](#8-what-is-left-to-do)

## 1. The system

Ratline is a control plane (TypeScript on Postgres) and an agent (Go) on each
managed host.  The control plane authenticates people and tokens, decides what
they may do, records every decision, and signs instructions; an agent carries
out an instruction once, if it is authentic, for this host, and fresh.

| component | state | operations | hard because | correct when |
|---|---|---|---|---|
| sessions (`repo/sessions.ts`, `auth/sessions.ts`, migration 10) | one row per identifier: holder, predecessor, expiry, end and its reason | sign-in, validate, rotate, sign out, end one, end all, change and reset a password | every operation is several statements, some several transactions | no identifier outlives what ended it; none is minted by one who may not; a predecessor is dead |
| two factor (`repo/two_factor.ts`, `auth/two_factor.ts`, migration 12) | enrolment, recovery codes, challenges, policy | begin, confirm, verify, reset, set policy | a code is verified between two transactions | a challenge yields one session; a code is good once; a factor is confirmed by its own code |
| reauthentication (`repo/reauthentication.ts`, migration 13) | `authenticated_at` of a session | re-prove, check freshness | rotation inserts a new row | a session is as fresh as its last proof |
| rate limiting (`repo/rate_limits.ts`, `auth/rate_limit.ts`, migration 11) | one row per bucket: attempts, end of the window | count, clear, prune | attempts race for the same two rows | no window exceeds its budget; every attempt is counted; no deadlock |
| audit log (`repo/audit.ts`, migration 6) | hash-chained entries | append | concurrent appends, one chain | consecutive places, each entry chained to the one before |
| audit verification (`repo/audit_verification.ts`, its job, migration 9) | recorded runs with the head each saw | verify, record, alert | four reads with four snapshots; the job has three steps | no false alarm; no clean verdict over a damaged log; an alarm reaches somebody |
| authorization (`authz/can.ts`, `repo/authorization.ts`, migrations 2, 5) | grants, standing, the tree | decide, require | a decision is several reads | a yes is true in each of its parts; an undisturbed answer is the rules' answer |
| owner floor (migrations 2, 8) | rows that own the organization | remove, expire, move | concurrent transactions count each other's rows | an owner remains |
| API tokens (`repo/api_tokens.ts`, migration 7) | tokens and their grants | issue, use, revoke one or all | checks precede the write | a token never does what its issuer may not |
| hierarchy, tenancy (`db/internal/handle.ts`, migrations 3, 4) | scope tree with stored paths; the tenant of a transaction | `scoped`, ancestry, delete, move | paths are stored | a transaction sees one tenant |
| roles and catalogue (`authz/catalogue.ts`, `authz/roles.ts`) | none | tables | 100 actions in seven roles | each action is carried by a role |
| server (`api/server.ts`, `api/routes.ts`, `api/refusal.ts`, `api/csrf.ts`) | none of its own | guard, sign-in, second factor, sign-out, guarded routes | composes the above, each call its own transaction | what ends a session proved itself; a refusal is recorded; somebody with the password gets in |
| network (`config/network.ts`, `boot.ts`) | none | classify, expose, refuse a bind | addresses in many forms | no exposure without an acknowledgement |
| start-up (`main.ts`, `crypto/secrets.ts`) | secrets directory | load or generate, refuse | two processes, crashes between file operations | what serves is whole |
| bootstrap (`api/bootstrap_token.ts`, `repo/bootstrap.ts`) | token file, spent file, first organization, sign-in identity | mint, match, claim, spend | files and database do not commit together | claimed once |
| migrations (`db/migrate.ts`, `db/cli.ts`) | applied migrations | up, down, check | two processes boot at once; releases differ | a serving process has its schema |
| control-plane envelopes (`agent/envelope.ts`, `agent/catalogue.ts`) | none | refuse, encode, sign | two implementations of one encoding and one set of rules | both agree; what is performed was signed |
| agent's verification (`envelope.go`, `validate.go`, `nonces.go`) | a map and an append-only file | verify, remember, prune, rewrite, load | restarts, failing and torn writes, two clocks, a bound | an instruction is accepted once |
| instruction keys (`crypto/rotation.ts`, `crypto/cli.ts`) | two key files and a stamp | generate, rotate, prune, read | crashes between file operations, overlapping commands | the outgoing key is accepted for exactly its overlap, and not lost |

The rest (password hashing, the permission matrix, weak-secret lists, the
dashboard's screens, the agent's command line and build checks, the repository's
task runner) is pure computation, data or rendering; `PROJECT.json` lists each
with the reason it is left out, and every hazard found, at its line.

**Interaction.** `main.ts` brings secrets, schema, token and identity together
and then serves.  Every request passes the guard, which validates the session
for itself; the handler validates it again.  Sign-in calls the limiter, then
`signIn`, which ends the presented session, asks the two-factor component
whether a factor is owed, and mints either a challenge or a session;
`verifySecondFactor` redeems a challenge and calls back into the session store.
Password and factor resets call `revokeSessionsOfUser`.  `require()` reads grants
and the session's `authenticated_at`.  Nearly everything writes an audit entry,
in a transaction of its own.  The control plane signs envelopes with the current
instruction key; agents accept the current key and, during an overlap, the
previous one, and remember nonces.  Apart from the agent, all components meet
only in the database, the secrets directory and each other's calls.

## 2. The modules

| module | models | variables and their code |
|---|---|---|
| `SessionLedger` | what a session store promises: identifiers are issued once, to one holder, and die for good | `status`, `holder` |
| `Sessions` | sessions, password changes, reauthentication; refines `SessionLedger` | `session` (table `sessions`), `password` (the value a hash matches), `grants`, `standing` (member, disabled), `now`, `req` (requests in flight) |
| `TwoFactor` | challenges, enrolments, codes, the sessions they mint | `policy`, `members`, `enrolment`, `codes`, `challenge`, `session`, `now` (the TOTP counter), `req`; histories `accepted`, `cleared` |
| `RateLimit` | counting, clearing, pruning | `latest`/`committed` (table `auth_rate_limits`), `tx`, `now` |
| `AuditChain` | append, verification, job | `log` (`audit_entries`), `runs` (`audit_verifications`), `process`, `alerted`; history `regrown` |
| `Catalogue` | the actions, their levels, the seven roles | none |
| `Authorization` | `can()` read by read, grants, tree, tokens, owner floor | `parent`, `path` (`scope_nodes`), `standing`, `grants`, `leaving` (rows deleted and not committed), `token`, `now`, `ask` (calls in progress); histories `seen`, `quiet`, `raced` |
| `Network` | addresses, exposure, the bind refusal, origins, the cookie policy | none |
| `Server` | routes, guard, handlers, refusals, the dashboard's entry; refines `SessionLedger` | `session`, `challenge`, `bucket` (the limiter's windows), `may` (permissions), `owes` (a second factor), `setting`, `req` (requests and answers), `page`, `jar`, `told` (what clients show, hold and know); histories `guesses`, `over` |
| `Startup` | secrets, bind, migrations, token, claim, identity | `file`, `token`, `spent`, `applied`, `orgs`, `identities`, `process`, `claim`; histories `crossed`, `slipped` |
| `NonceStore` | `Verify` and `FileNonceStore` | `seen`, `loaded`, `appends`, `file`, `verifier`, `now`; history `accepted` |
| `Instructions` | the operation catalogue, the argument rules of both sides, the canonical bytes | none |
| `Delivery` | `signInstruction`, the transport and `Verify` over real messages; extends and refines `NonceStore` | `wire`, `holding`; histories `signed`, `performed`, `late` |
| `KeyRotation` | boot, rotate, prune, accepted keys | `current`, `previous`, `stamp` (the files), the commands at work; histories `generated`, `left`, `died` |

`Server` is where sessions, second factor and limiter meet: it takes each as the
one step its own module shows it to be, and has in detail what lies between: the
guard's and the handler's separate validations, the order of the awaits, the
refusals and their entries, and what the client does with the answer.
`Delivery` puts the signer, the wire and the agent's store together; what
`NonceStore` calls an envelope is what the store can tell of a message.

`MCx` instantiates module `x` for TLC (model values, sets of inputs, symmetry);
the `...Proofs` modules hold the theorems (those of `NonceStore` are with
`Delivery`'s, and `OperationsProofs` has those of `AuditChain` and `KeyRotation`).  `PROJECT.json` maps every definition
to the lines it models.  Operators marked `fault:` are variants of the
definition after them, each a plausible mistake in that code; they take part in
no behaviour and serve to confirm that a property would notice the mistake.

## 3. How the database and the files are modelled

*Transactions.* `scoped` (`db/internal/handle.ts`) opens a READ COMMITTED
transaction.  A statement sees what was committed when it began, waits for the
row locks it needs, and is then judged against the latest version of the rows it
writes, but only in the columns of those rows: what it read elsewhere, such as
through a view or a sub-select, stays as the snapshot had it.  Where that
matters, a statement is two actions.  In `Sessions`, ending a session reads
liveness through a view, so `RotateSnapshot`/`RotateEnd`,
`SignOutSnapshot`/`SignOutEnd` and the like take the snapshot and apply it.  In
`RateLimit`, a statement's snapshot is taken by `Issue`, and `CountOne` is judged
against the latest row.  In `AuditChain`, the two database functions are volatile,
so each statement inside them sees a newer snapshot, and each is an action.  In
`Authorization`, the owner floor is a deferred trigger: a removal is checked
(`RemoveGrant`) and committed (`CommitRemoval`) in two steps, and another's
uncommitted removal is invisible to the check.  Statements whose outcome depends
on one row they lock are one action.

*Awaits.* Two transactions of one handler are always two actions, with whatever
was read in the first kept in the request's record: the secret a code was
verified against, the credential a password matched, the permission that was
decided, the session the guard saw.

*Crashes.* A request that stops leaves what it committed (`Crash`, `Fail`);
an uncommitted transaction leaves nothing (`Abort`).

*Files.* Each operation on a file is a step.  `KeyRotation` moves, writes and
removes three files and can crash after each; a crash in the middle of a write
leaves a torn file.  `Startup` looks for a file, truncates it, fills it and reads
it back, each a step.  `NonceStore` distinguishes an append that fails, one
that was written and not synced, and one that stops in the middle of a line,
which the next append continues.  A rewrite replaces the file or fails.

*Messages.* The wire is a set: a message in it may be delivered at any time, any
number of times, in any order, or never, beside damaged copies of itself.

*Values.* A password is a number that matches or does not; a code is a secret
and a step; a signature is the key and the bytes it was made over; a hash is the
sequence of everything under it, so hashes are equal exactly when their contents
are; an address, an argument or a text is what the code tells of it (its family
and block; its length, the patterns it matches and the word it spells).

## 4. The runs

Between them the passing runs fire every action of every module.

| run | properties | what it shows |
|---|---|---|
| `sessions_overlapping` | `TypeOK`, `SuccessorMeansEnded`, `PresentedIdentifierIsDead`, `OwnPasswordChangeRevokesFirst`, `RevocationEndsWhatItFound`, `ImplementsLedger` | two regimes, chosen at the start.  Two people, two overlapping requests that sign in or out, rotate, re-prove or revoke one or all sessions, while time passes and proofs go stale; or that sign in, rotate, revoke everything, change or reset a password, while grants and memberships change; crashes in both: what a session replaced is over; a sign-in leaves the identifier it was presented dead, whoever's it was; a password change writes over dead sessions; revoking everything ends all that was live when it was asked for; the store implements `SessionLedger` |
| `twofactor` | `TypeOK`, `OneSessionPerChallenge`, `AcceptedIsSpent`, `RecoveryCodeOpensOnce`, `OneRequestResetEndsSessions` | two regimes, chosen at the start.  Two requests, two challenges, enrolment, verification, reset and crashes: one session per challenge at most, one per recovery code whichever challenges it comes with, and no accepted code is acceptable again under its factor.  One request at a time, under a policy and a membership that change: a reset is complete |
| `ratelimit_attempts` | `WithinBudget`, `CountsEveryAttempt`, `AttemptsNeverDeadlock` | three transactions on one account and address that count, clear or prune, any of which may fail, across two windows |
| `audit_runs` | `NoFalseAlarm`, `CleanRunVouches` | three processes append and verify (runs do not overlap), up to two entries are lost or altered at any moment but between a run's two reads, and the log may grow past them: no false alarm; a clean run found nothing altered or missing, and no head gone that the log has not grown past |
| `authorization` | `TypeOK`, `GrantedIsCurrent`, `OwnerFloor`, `QuietAnswerIsRight`, `TokenWithinIssuer` | two overlapping calls of `can()`, of issuing and of revoking, one read at a time, while a row is written by hand: a yes is current in each of its parts; an undisturbed answer is the one the rules give at once, reason and all; a token is born within its issuer's reach; an owner remains unless removals overlapped |
| `server` | `TypeOK`, `RefusalIsAccounted`, `SignedOutIsOut`, `GuessesAreBought`, `OnlyProvenRequestsEnd`, `ImplementsLedger`, `SignsIn` | one dashboard, two deployments, requests of others, failures and crashes: nobody is told 404 or "ended" before the log has it; a request sent after a sign-out does not act as the session; codes guessed against one challenge stay in one budget; what ends a session carried its token from a trusted origin; the sessions refine `SessionLedger`; somebody who may enter gets in at last |
| `startup` | `ServedWhole`, `KeysAgree`, `OneInstallation`, `Settles` | two processes start, die and start again beside a preflight, migrations up and down, an edited release, a refused bind and a claim: what serves has its schema and whole secrets; one organization; the installation ends where its owner can sign in |
| `rotation` | `TypeOK`, `RetiredInTime`, `OneCommandKeepsOutgoing` | two regimes: two commands at once, crashes, time that passes in between, forced pruning: no key is accepted beyond its overlap; one command at a time, which may die anywhere: until one dies, an outgoing key is accepted for as long as an envelope may live |
| `delivery` | `TypeOK`, `MapIsInTheFile`, `LiveNonceIsKnown`, `PerformedWasSigned`, `AcceptedAtMostOnce` | two signed instructions on a wire that loses, repeats, reorders, delays and damages; a host that verifies two at once, restarts and fails to write: what is performed was signed for this host, field for field; it is accepted once |
| `chain_forks` | `OneLiveSuccessor` | violated, see section 5 |
| `refused_twice` | `OneEntryPerRefusal` | violated, see section 5 |
| `challenge_undelivered` | `SecondFactorSignsIn` | violated, see section 5 |

Loading the modules also evaluates their assumptions: that every catalogued
action is carried by a role, that every route names a catalogued action and
every handler a route, that the two sides' argument rules agree on every
operation however it is filled in, and that the canonical encoding is injective
(on what may travel in `Delivery`, and on all instructions made of a few texts
of up to two letters).

## 5. Where the code departs from its comments

All are behaviours of the unmodified models.  `finding_<name>.cfg` has one
property; `refuted_<component>.cfg` lists several, of which one is left active
and the others are comments: leave the one of interest and run `tlc -config
refuted_<component>.cfg MC<Component>`.  Three are runs of the project, and
`PROJECT.json` quotes the sentences they contradict:

- `chain_forks`, `OneLiveSuccessor`: two overlapping rotations of one identifier
  leave two live successors; `auth/sessions.ts:304` has "no instant at which one
  chain has two live identifiers" (`repo/sessions.ts:395`).
- `refused_twice`, `OneEntryPerRefusal`: a refused revocation of somebody's
  sessions is recorded by the auth layer and recorded again by the handler's
  catch (`api/server.ts:322`).
- `challenge_undelivered`, `SecondFactorSignsIn`: the answer to a right password
  that owes a second factor has two constant forms, neither of which carries the
  challenge's token, so nobody who owes a factor signs in over HTTP
  (`api/server.ts:525`).

*Sessions* (`refuted_sessions.cfg`).

- `FreshnessIsProved`: a rotated session counts as just authenticated
  (`repo/sessions.ts:260` takes the column's default, which is now).
- `EndIsRecordedOnce`: a session that is over is ended again, with a new reason;
  `repo/sessions.ts:327`, "a second call ends nothing".
- `NoSessionLeftBehind`: a rotation slips a successor past "end all sessions";
  `repo/sessions.ts:460`, "no session left behind".
- `OldPasswordSessionsDie`: a sign-in with the old password, between the
  revocation and the write, survives the change; `auth/sessions.ts:362`, "end
  every session it was holding open".
- `DeniedResetChangesNothing`: a reset refused at its second step has already
  written the password; `auth/sessions.ts:425`, "a denial then happens before
  anything has happened".

*Two factor* (`refuted_twofactor.cfg`).

- `ChallengeNeverReplaces`: a challenge replaces an enrolment confirmed meanwhile.
- `ConfirmedIsProved`: what is confirmed is another secret than the code proved;
  `auth/two_factor.ts:330`, "The code has to come from the PENDING secret".
- `CodeAcceptedOnce`: a code is accepted again after its secret was replaced;
  migration 12, line 66, "a code that has been used is dead".
- `ResetEndsItsSessions`: a session that passed the factor starts after the reset
  that ended the sessions; `auth/two_factor.ts:664`, "Their sessions passed a
  factor that no longer exists".
- `ReplacedFactorWasPassed`: a session older than the factor may replace it;
  `repo/two_factor.ts:31`, "holding a session already means having passed the
  factor being replaced".

*Rate limiting* (`refuted_ratelimit.cfg`).

- `CounterAlwaysAnswers`: the statement that always returns a row returns none
  when the row that filled up is newer than its snapshot.
- `RefusalNamesARelease`: a refusal names the end of a window already over.
- `NoDeadlock`: a prune and an attempt wait for each other;
  `repo/rate_limits.ts:31`, "two concurrent attempts can never take the two row
  locks in opposite orders", which `AttemptsNeverDeadlock` confirms, and line
  409, where pruning is "safe to call from anywhere".

*Audit* (`MCAuditChain`).

- `finding_runs_overlap`: two overlapping runs report a growing log as truncated.
- `finding_log_regrown`: an entry lost, and more appended since, goes unnoticed:
  a run keeps the number and the hash of its head only, and compares them with a
  head at the same number or behind it.
- `finding_alarm_lost`: a job that fails after recording a truncation alerts
  nobody, and the next run is clean.

*Authorization* (`refuted_authorization.cfg`, `finding_token_left_behind.cfg`).

- `OwnerAlways`: two owners removed at once leave none; each transaction's
  deferred trigger still counts the other's row (migration 8).
- `PathIsAncestry`: a node moved with others under it leaves their stored paths
  as they were (migration 3 sets the path of the row that moves only).  No code
  of the repository moves a node; the schema allows it.
- `NoNarrowGrant`: `can()` lets a grant convey an action whose narrowest level
  is above the grant, where `authz/catalogue.ts:100` has "a grant below it
  cannot".
- `NoTokenLeftBehind`: a token being issued while everything its issuer handed
  out is revoked survives the revocation.

*Server* (`finding_locked_by_retries.cfg`).  `SignsIn` fails for a client that
retries at once: an attempt refused in one dimension is still counted in the
other, so that with the windows of account and address out of step each retry
meets a full one.  Nothing clears the counter of an account that signs in
(`auth/rate_limit.ts:438` offers it, no caller does).

*Start-up* (`refuted_startup.cfg`, `finding_torn_token.cfg`).

- `OneOrganization`: a crash between the claim and the spending of the token, or
  two claims that match before either spends, make two organizations.
- `OneSetOfKeys`: two processes that find the directory empty serve with
  different secrets.
- `ClaimableAtLast`: a start that dies between truncating and filling the token
  leaves a file that is never minted again, and nothing can be claimed.

*Agent* (`MCNonceStore`, `refuted_nonces.cfg`).

- `LiveNonceIsKnown`, with torn writes: the append after a torn one is lost to
  the next start.
- `AcceptedOnce`: a nonce that expires between the check and the lock is
  accepted twice.
- `FileIsBounded`: restarts let the file outgrow "the instruction rate within
  one validity window".

*Keys* (`refuted_rotation.cfg`).

- `HalfRotatedStaysRefused`: a boot repairs by itself what was to stay refused
  (`crypto/rotation.ts:205`).
- `OutgoingOnDisk`: a prune deletes the key whose overlap was never stamped
  (`crypto/rotation.ts:277`).
- `RotationOverwritesNothing`: a rotation overwrites the key a boot generated.

*Seen while reading, without a property*: a sign-in form that carries a live
cookie is refused by the guard with 404, and so may a sign-out be
(`api/server.ts:376-411`), which `api/routes.ts:147` says "must never be
refused"; the billing role lacks `organization.read`, by which
`web/lib/session.ts:17` probes for all seven; an action the organization wants
re-proved answers 500, because no request names its session; an empty secret
file whose removal falls between two looks is skipped
(`crypto/secrets.ts:217`); `main.ts:151` compares the identifiers of the
applied migrations and not their checksums; with an allow on a site and a deny on
its team, deleting the team between `can()`'s read of the scope and its read of
the grants lets a yes through, each part of which was true but not all at once.

## 6. The proofs

Every theorem is of the form `Spec => []I` (or `[][A]_vars`, or an abstract
specification) and holds for all values of the constants allowed by the module's
`ASSUME` and by what the theorem itself assumes, which this section names.

**`SessionsProofs`.** Any number of people, identifiers and requests.  The
inductive invariant `IInv` is `TypeOK`, `SuccessorMeansEnded` and `RequestInv`
for every request.  `RequestInv` says what a request's record is worth at each
of its steps: the identifiers it names have been issued; a sign-in past its
revocation holds a dead identifier; the predecessor it will record is an ended
session of the same person; the sessions its password change found are dead by
the time it writes; what its revocation of everything found at its admission is
in its snapshot, or dead.  It is needed because a statement acts on a snapshot: what the
snapshot said must have stayed true, or be harmless.  What makes it stable is
that identifiers are issued once and a row that ended stays ended.  From it:
`TypeCorrect`, `PredecessorsAreOver`, `FixationIsRefused`,
`RevocationComesFirst`, `RevocationIsComplete`, and `StoreImplementsLedger`:
initial states map to initial states, and each action issues one identifier, ends
some, lets time pass, or stutters.  All are of requests that overlap in any way;
what overlapping requests break is in section 5.

**`TwoFactorProofs`.** Any number of people, challenges, secrets and requests.
`IInv` adds to `TypeOK` that a request names challenges that exist (`Named`),
that a request about to open a session has spent its challenge and no session
has come of it yet (`SpendsOpen`), and that a factor's secret belongs to one
person (`OwnSecrets`).  What makes `OneSessionPerChallenge` inductive is that a
challenge is spent by one row update, before the session and in another
transaction.  From it: `TypeCorrect`, `OneSession`, `AcceptedStaysSpent`.
`RecoveryCodesOpenOnce` adds `CodesInv`: a code that a request or a session holds
is spent, belongs to a secret that exists, and is held by no other; a set of codes
is only replaced together with its secret, and no secret comes back.
`ResetSignsOut` is of the regime in which requests do not overlap; `RegimeInv`
adds that a secret is only ever one person's (which holds of overlapping requests
too), that one request is under way, that nobody can pass, and nobody is signed in who passed, a factor that was cleared,
and that nobody can pass one whose reset has yet to end its sessions.

**`RateLimitProofs`.** Any accounts, addresses, limits, window and overlapping
transactions; the buckets are finitely many, as digests of a fixed length are,
which is what makes the rows a prune scans a sequence.  `IInv` is `TypeOK`,
`Ordered` (how far a transaction is and what it holds by then), `Exclusive` (a
row is locked by one transaction) and `RowsAddUp`: every committed row counts as
many attempts as were answered, and the latest version of a row is one ahead
exactly while the attempt counted last in it is undecided.  A statement is judged
against a version another transaction cannot have left half counted, because who
left it so still holds its lock; a transaction that fails restores the committed
row, which adds up.  From it: `TypeCorrect`, `LimitHolds`, `NothingUncounted`.
`NoCircle` needs only `Ordered`: who waits and holds a row already waits for an
address and holds an account, so nobody waits for it who is waited for in turn.

**`ServerProofs`.** Any people, deployments, limits and number of requests in
flight, and any requests of others to the routes it serves (`servedRoutes`:
signing in and out, the second factor and the bound guarded routes).  `RInv` is the types of every
variable, the rows (`RowsRight`: exactly what has been issued has a holder), that
what a client knows to be over is dead (`OverIsDead`), and `ReqAt` for every
request: by the step it has reached, that it passed the guard with the token of
the session it acts as from a trusted origin, whose session that is, what it has
logged, and that what it answers about is in the log.  A request that passed the
guard acts on a session that others may end meanwhile; that is harmless, since an
identifier that died is never live again, and the handler validates again.
From it: `ServerTypeOK`, `RefusalsAreAccounted`, `SignedOutStaysOut`,
`OnlyProvenRequestsEndSessions` and `ServerImplementsLedger`.  `GuessesStayBought`
counts: while a challenge is open, the guesses judged against it and the requests
about to be judged are together at most what its window has counted, and the
window outlives the challenge; so the guesses never exceed one budget.

**`AuthorizationProofs`.** Any tree, people, tokens, grants and calls.
`OwnersRemain`: `OwnerFloor` is not inductive, since a row that is leaving still
counts in it; `FloorInv` asks for an owner's row that is not leaving.  A removal
is admitted only if such a row is left, a commit takes only rows that were
leaving, and removals that overlapped are excepted (`raced`), where
`OwnerAlways` fails.  The rest follows from `CallsInv`.  Its first part,
`Hanging`, is about the tree: the path of every node that exists is its parent's
path and itself, through deletions and insertions.  That prefixes of stored
paths (what `grant_decision` compares) are ancestors by the parent pointers
(what the rules mean) then needs no induction over the tree: of the nodes for
which it fails, one has a path of least length, and its parent's is shorter
(`PathsStayTrue`).  Its second part says of every call, by the read it has
reached, that it is about what exists (`Proper`), that what each read found was
so at some moment since the call was asked (`Learnt`), and, if nothing changed
under it, is so still (`Current`); the rules are stated of a snapshot given as a
parameter, so that "then" and "now" are two values of it.  From it:
`RowsAndCallsTyped`, `YesWasTrueInEveryPart`, `QuietCallsAnswerTheRules`,
`TokensStayWithinTheirIssuer`.

**`StartupProofs`.** Any processes, migrations, builds, settings and claims, and
at least one secret.  `ClaimedOnce`: unless a claim slipped, one claim is
undecided at a time and an organization is followed by the marker.  `TypeInv`
carries the fields a process has at each step.  `ServedFromTheFiles`: unless two
were at the secrets at once, who is at a secret is alone there, finds it missing
or torn while it writes it, and holds every secret it came past; who is beyond
them holds them all.  So a secret is only written while nobody has read it.
`NeverBehind`: what a migration round saw still stands and what it came past is
applied in its edition, unless something was rolled back since it looked, which
its record says (`sure`); a process is judged by what it checked last.

**`DeliveryProofs`** holds what is proved of `NonceStore` and of `Delivery`.

- The store: any set of envelopes, verifications, limit and validity, under
  `NoTornWrites` (`refuted_nonces.cfg` shows why).  `IInv` is `TypeOK`,
  `NeverTorn`, `MapIsInTheFile`, `LiveNonceIsKnown`, `StoreHoldsAdmitted` and
  `AdmittedInFlight`: a verification between the freshness check and the store
  holds an envelope that was admitted.  The file covers the map and every
  accepted, unexpired nonce is in one of them, so a restart loses nothing.  From
  it: `TypeCorrect`, `LiveNoncesStayKnown`, `FileCoversMap`,
  `OnlyAdmittedIsStored`; and, when no sync fails, `MapStaysBounded`, by its own
  invariant `BInv`: what is live in the file is in the map too, so that a restart
  loads no more than the map held and the one record that was being written.
- The delivery: any orders, keys, hosts, number of damaged copies and clocks.
  `DInv` says that every signature on the wire is one the control plane made,
  over exactly what it signed then, and that what a verification holds is on the
  wire.  The step from "the bytes match" to "the instruction is the same" is the
  injectivity of the encoding, an assumption on its finite domain (as many
  encodings as instructions), from which `SameBytes` follows by the library's
  theorem on surjections.  So `OnlySignedIsPerformed`.  `DeliveryImplementsStore`
  maps every step to one of the nonce store's or to a stutter, which makes the
  theorems about the store theorems of `DeliverySpec`; with `LiveNonceIsKnown`
  among them follows `NothingIsAcceptedTwice`, under `NoTornWrites` too.

**`OperationsProofs`** holds what is proved of `AuditChain` and of `KeyRotation`.

- Audit: any processes, requests, runs, failures and damage.  `LogInv` is
  `AuditTypeOK`; `Numbered` (runs in the order they begin, what a process holds at
  each stage); `OneChains` (one transaction is past the advisory lock);
  `Ordered` (entries in the order of their numbers, even of a damaged log); and
  `Started` (a run that saw no entry saw no hash).  It gives
  `AuditTypeCorrect`.  Where runs do not overlap, `WholeInv` adds of an
  undamaged log that it has no break, holds the head of every run, and that a
  run's head is not behind that of the last one recorded, whence
  `QuietLogRaisesNoAlarm`: an entry that others append between the reads of a run
  only moves its log ahead.  `VouchInv` is about a damaged log: an
  entry that a run saw last and the log has lost does not come back (`StaysGone`),
  and each step of a run that follows finds it there or leaves evidence for the
  next (`Judged`): its own head is behind the lost one, or at the same number with
  another hash, or past a gap in the numbers, which the check calls broken.
  An entry the log has grown past (`Forgotten`) stays so, which the history
  `regrown` records.  From it `CleanMeansWhole`, for any growth of a damaged log
  and runs that do not overlap: `finding_runs_overlap` shows that this is needed,
  and `finding_log_regrown` that a clean run says nothing of a head the log has
  grown past.
- Keys: any number of keys and commands that overlap and crash anywhere.  `IInv`
  adds to `TypeOK` that stamps lie in the past (`PastStamps`), that the current
  key and the keys that left were generated and that the current one has not left
  (`OnceCurrent`), and that the previous key has left, no earlier than the stamp
  on disk and any stamp a command has yet to write (`StampedBeforeMoved`).  A
  stamp can therefore only close an overlap too soon, never hold one open.  From
  it: `TypeCorrect` and `RetiredKeysExpire`.  `OutgoingKeyIsKept` is of commands
  that neither overlap nor die; `AloneInv` says what the one command at work has
  done so far, and that between commands the key that left last is in the previous
  slot under the very stamp of its leaving.

*Only model-checked*: the liveness properties (`SignsIn`, `Settles`) and the
findings of section 5, where a counterexample is the point.  *Out of the prover's
reach*: liveness under fairness, ENABLED, and what a recursive definition computes
on every input.

## 7. Bounds, fairness and what is left out

**Bounds.** Each module names its bounds among its constants: clocks
(`MaxTime`, `MaxNow`), passwords and secrets, log entries and damages, lines of
the file, changes by hand (`MaxChanges`), and `Entry`, `Faults`, `Clearing`,
`Pruning`: which operations and faults take part.  The races here need two actors
and the object they meet at, and the counterexamples of section 5 use two
requests; two or three are given.

- Two session identifiers leave room for a predecessor and its successor, or for
  one session of each of two people; `chain_forks` has three, for two successors of
  one session.
- A limit of one per account and two per address is the smallest where the two
  dimensions refuse at different times (`RateLimit` and `Server`).  Clocks run
  long enough for a window, an overlap or a validity to end and another to begin.
  `RateLimit` runs one prune at a time.
- `MCTwoFactor` and `MCKeyRotation` choose a regime at the start: overlap within
  shorter clocks, or one actor at a time within longer ones.  `MCSessions` has
  time pass, or passwords, grants and memberships change, under requests that
  overlap in both; the proofs are of all of it at once.  All are states and steps of the module; each property says in which it
  holds.
- `Authorization` (`Paths` gives each node the path its place in the tree has,
  which is what the insert trigger computes): a team with a project, two people, a service, a token, a
  resource; the grants of `MCAuthorization` tell the rules apart (wider and
  narrower, allow and deny, an end date, an owner), and one change by hand falls
  anywhere among the reads of two calls.
- `Server`: one browser, two deployments (behind a proxy under its own name, and
  exposed with re-proof wanted), one of every kind of request a dashboard does
  not send, two disturbances in all (`MaxTrouble`: others' requests, crashes,
  failures, changes elsewhere).  A sign-in among them names an account: what an
  unknown address meets is a password that does not match.
- `Startup`: two processes, one secret (a second repeats the same steps), three
  migrations of which the third stands alone, so that a gap can open, two
  releases of which one edited the second, two disturbances.  `OneInstallation`
  excepts `slipped` (claims that overlapped or were not spent), `KeysAgree`
  `crossed` (two at the secrets at once) and `Settles` both a torn token and an
  applied edition the newest release refuses, which is an operator's to solve.
- `Delivery`: a store of one, so that a second instruction meets a full map; a
  file of four lines, enough for a rewrite between two appends; two orders
  signed, one damaged copy, validity of two ticks and a skew of one, so that the
  windows of the two clocks meet and part; four orders, one of them for another
  host and one of an operation this agent lacks.  No failing sync, whose record
  survives in the file and may exceed the limit at the next load; the proofs
  cover it for everything but `MapStaysBounded`.
- `AuditChain` lets no damage fall between the two reads of a single run, which
  would judge two different logs.

**Deadlock** checking is off in every configuration: clients may stop coming,
and every bounded supply of identifiers, requests or time runs out.  That no two
transactions wait for each other is a property of its own
(`AttemptsNeverDeadlock`).

**Fairness.** Safety assumes none.  Two modules state liveness:

- `Server`: weak fairness of each request's next step and of its answer's way
  back (Node's event loop and the network get to each), of the clock, and of
  reloading a page; strong fairness of a person's probing and submitting, who
  tries again after each failure and, when `Patient`, waits out the windows of a
  refusal.  A step that fails or a crash is never fair, and `MaxTrouble` bounds
  them: an installation that fails for ever signs nobody in.
- `Startup`: weak fairness of what each process does once it runs, of starting
  the newest release again with the setting it is left with (the supervisor the
  deployment has), of a restart after a claim, of the operator's claim and its
  steps, and of removing a torn secret, which is what the start's refusal asks
  for.

**Wider than the code.** A step of `RateLimit` that clears a row may remove one
that was created again since its statement began.  **Coarser than the code.**
`Startup.Mint` and `ClaimMatch` look at the token and at the marker in one step.
**Not reached over HTTP.** `api/server.ts` never passes `presentedToken` to
`signIn`, so `PresentedIdentifierIsDead` is a guarantee of `auth/sessions.ts` to
its callers, which no route exercises: a browser that signs in with a cookie is
refused by the guard instead (section 5).

**Left out.** Other tenants (each module is one organization, and row-level
security is taken for granted); the last-use stamp and idle timeout of a
session; audit entries written by the session and factor flows (`Server` counts
those of refusals and revocations); in `Server`, unbound paths, which the
framework refuses without an entry, `GET /health`, and `GET` and `POST
/bootstrap`, which pass no guard (`Startup` has the claim); ciphertexts and digests; clocks that step
backwards; loss of a rename without a directory sync; file modes; validation of
what is typed into forms; the bodies of answers; regular expressions.

## 8. What is left to do

1. Abstract specifications of `AuditChain` (a log that only grows) and
   `RateLimit` (a counter per window), as refinements like `SessionLedger`.
2. Proofs of those refinements.
3. `KeyRotation` composed with `Delivery`: the keys an agent accepts while the
   control plane rotates, and envelopes in flight across an overlap.
4. The idle timeout and last-use stamp of sessions, and the organization's list
   of actions to re-prove.
