# TLA+ models of the Natanael security platform

This directory is the verification project kept beside the code of the
platform: a set of small services (authentication, payments, loans, sessions)
written in Python, JavaScript and Java, and the scripts that deploy them.
Almost all of them keep their state in process memory, and most of them serve
requests on several threads without a lock. The interesting questions are
therefore about interleavings: what a check is still worth when the write it
guards happens, and what a client who was answered may rely on.

Paths below are relative to the repository.

## 1. Inventory

| Component | State | Operations | Hard behaviour |
|---|---|---|---|
| **Token revocation** `services/authentication/{authentication,token_store}.py` | blacklist: a dict per process, or keys with a time-to-live in Redis | login, the `jwt_required` guard, logout, `purge_expired` | threads, four worker processes, expiry racing the check, restart, whole seconds against fractions |
| **Payments, FastAPI** `services/payment_microservice/processor.py` | `_payment_store`, `_idempotency_index` | initiate, confirm, cancel, get | retries, check-then-act in a thread pool |
| **Payments, Node** `src/microservices/payment` | the same, two `Map`s | the same | none within a process: handlers run to completion |
| **Loans** `services/loan_management/{main,repository,app}.py` | `_loan_store` (one for each of the two applications) | create, approve, reject, status PUT, delete, get, list | check-then-act, second lookup, deletion in between |
| **Session gateway** `src/microservices/auth` | `UserSession._store` and the session objects | create, refresh, terminate | rotation of tokens by concurrent refreshes, iteration over a growing dict, two expiry clocks |
| **User accounts** `services/authentication/{user_repository,user_auth_service}.py` | `_user_store` | register, update, delete, authenticate | a slow hash between check and write, two-field credential updates |
| **OAuth2 login** `services/authentication/{oauth,models}.py` | `UserProfileModel._store`, the state in the cookie | authorize, callback | get-or-create race, accounts replaced by name |
| **Security platform** `services/security_platform` | `_TOKEN_BLACKLIST` | login, logout, middleware | a blacklist that is written and never read |
| **Flask AuthController, TokenMiddleware** `src/controllers`, `src/middleware` | `_TOKEN_BLACKLIST` | login, logout, guard | decoding, lookup and entry by several threads, expiry in between |
| **Auth service** `microservices/auth_service` | none but the tokens in circulation | login, refresh, role guard | `renew_token` accepts expired tokens and tokens without roles; the session gateway issues tokens with its functions |
| **Node UserService** `src/microservices/authentication` | user map, blacklist set | create, login, verify, logout, deactivate | tokens outlive deactivation, ids the client chooses |
| **Data access layer** `services/data_access_layer.py` | a table of PostgreSQL, a session's identity map | create, find, update, delete, in transactions | concurrent transactions, stale instances, a flush that fails or finds nothing, deadlocks, lost answers of a commit |
| **Java utilities** `src/main/java` | the failed-attempt counter | validate, lock out | check, then act |
| **AWS provisioning** `infra/aws/vpc_provisioner.py` | VPCs and subnets of an account | provision_vpc, create_subnet | a request of a sequence that fails, repeated requests, concurrent scripts |
| **Deployment** `scripts`, `.ci`, `ci_cd` | ECS task definitions | build, register, update | concurrent deployments |

Interactions. The payment and loan services are called by clients that hold a
token of the authentication service, but none of the two verifies it in the
code of the repository; the components share no state except:
`authentication.py` and `oauth.py` share `UserProfileModel._store` and the
token format; the session gateway uses the token functions of
`microservices/auth_service/utils/jwt_util.py`; the several worker processes
of the authentication service share Redis when it is configured.
`user_auth_service.py` has a store of its own, which the login route does not
read. The services that issue tokens have users and blacklists of their own, but
not secrets. Unless configured otherwise the Flask application and the security
platform sign with the same one (`TokenMiddleware.py:48`, `AuthController.py:72`,
`security_platform/utils/jwt_util.py:25`), and so do the auth service, the session
gateway and the authentication service (`auth_service/utils/jwt_util.py:48`,
`services/authentication/config.py:14`); the Node service has its own
(`UserService.js:20`). All read `JWT_SECRET_KEY`, so one environment joins them
all. Services with one secret accept each other's tokens, each asking its own
blacklist if any. The session gateway issues tokens with the roles its client
names (`api_gateway.py:87`), which the role guard of the auth service accepts. No route uses the data access layer yet, and the loan
services keep to their dict.

What makes each component correct:

* *Revocation*: after a logout was answered, the token is refused while it
  would otherwise be valid; housekeeping and concurrent checks never undo it.
* *Payments*: one payment per idempotency key, one decision per payment.
* *Loans*: one decision per loan until a status PUT; a deletion is answered
  once; nothing fails because of another request.
* *Sessions*: a terminated session and a used refresh token are dead; the
  client who was answered last holds the current token.
* *Accounts*: a user name has one account, credentials are replaced as a whole.
* *OAuth2*: a subject keeps its account, is nobody else, and logs in once per
  authorization.
* *Token services*: a logout binds the service that answered it; a role goes
  back to the user's name or to a session created with it; a deactivated user is
  gone a token's life later.
* *Data access*: a transaction takes effect as a whole or not at all, tells its
  block what really happened, and ends.
* *Provisioning*: reserved ranges stay free, and what failures leave behind is
  bounded by the failures.

The hazards of the code, each at its line, are in `PROJECT.json`.

## 2. Modules

| Module | Models | Extends / instantiates |
|---|---|---|
| `TokenRevocation` | login, guard, logout, both blacklists, purge, restart, clock | |
| `TokenRevocationProofs` | proofs | `TokenRevocation` |
| `PaymentLedger` | what the payment service promises, one step per operation | |
| `PaymentProcessor` | both payment services, access by access | instantiates `PaymentLedger` |
| `PaymentProcessorProofs` | proofs, with the refinement | `PaymentProcessor` |
| `LoanService` | both loan applications, access by access | |
| `LoanServiceProofs` | proofs about both stores of loans, the dict and the table | `LoanService`, `DataAccess` |
| `SessionGateway` | create, refresh, terminate, access by access | |
| `SessionGatewayProofs` | proofs | `SessionGateway` |
| `UserAccounts` | register, authenticate, update, delete, access by access | |
| `UserAccountsProofs` | proofs | `UserAccounts` |
| `OAuthLogin` | authorize, callback, the session cookie and `UserProfileModel._store` | |
| `OAuthLoginProofs` | proofs | `OAuthLogin` |
| `TokenServices` | the two Python services with a blacklist, the auth service with the session gateway's tokens, the Node user service, over common or separate secrets | |
| `TokenServicesProofs` | proofs | `TokenServices` |
| `DataAccess` | `get_db_session` and `LoanApplicationDAL` over PostgreSQL | |
| `Provisioning` | `VPCProvisioner` over EC2 and the retries of boto3 | |
| `ProvisioningProofs` | proofs, with the arithmetic of CIDR blocks | `Provisioning` |
| `MC...` | values of constants and symmetry sets for TLC | their component |

Conventions. One action is one access to shared state (CPython runs a dict or
attribute access atomically under its interpreter lock, and may switch threads
between any two). `pc[t]` is where thread `t` stands in its handler, and the
other functions over `Threads` are the handler's local variables. Requests
that the validation of their body rejects change nothing and are left out, as
are the GET endpoints. Variables marked *history* exist in no program: they
record what clients were answered, or which requests overlapped, and no guard
reads them. The small operators before the actions (`PastExpiry`,
`MayDecide`, `Found`, ...) are single conditions or assignments of the code;
the variants beside them are the slips a maintainer could make there, and for
each property one such slip is known to break it (`mutants` in
`PROJECT.json`).

### TokenRevocation

`backend` is chosen in Init, as `build_blacklist` chooses from the
configuration. `store[s]` is the dict of a worker process, or the keys of the
Redis server with the time they vanish. A logout goes through `Arrive`,
`Decode` (PyJWT's check of `exp`), `LookupMemory`/`Age`/`Drop` or
`LookupRedis`, then `RevokeMemory` or `Ttl`/`Setex`. The only route behind the
guard is logout itself, so `Arrive` is the arrival of a logout request.
`sweep` is a call of `purge_expired`, which fails like Python does when the
dict changes under the iteration. `Restart` loses a worker's requests and
dict. Time is counted in ticks, `TPS` to the second: the `exp` claim and a
Redis time-to-live are whole seconds (`WholeSeconds`), `time.time()` is not.

The properties say what a recorded logout is worth:

* `RevokedStaysListed`: no interleaving of checks and purges takes out an
  entry before the token's own expiry;
* `LateAcceptOnlyExpired`: a request that came after the logout passes the
  guard, in the same process, only past the expiry (it can then: the token was
  decoded just before);
* `LateAcceptOnlyLastSecond`: with Redis it can pass up to a second earlier;
* `FailedOnlyExpired`: the `KeyError` of the check meets only expired tokens.

`docs/auth_api_docs.md:336` promises more: that a logged-out token is refused by
any later request. Between the last whole second that `LateAcceptOnlyLastSecond`
leaves out and the expiry it is not: the remaining lifetime is rounded down
(`token_store.py:81`), and the key vanishes first.

### PaymentLedger and PaymentProcessor

`PaymentLedger` has two rules: a payment for a key is created when none has
that key, and only a pending payment is decided. `PaymentProcessor` is the code: the
two lookups of the idempotency check, the index entry, the store entry, and for
confirm and cancel the check, the status, the transaction reference and the
answer, which encodes the stored dict as it is then. FastAPI runs it on several
`Threads`; on Node `Threads` is a single one. `ImplementsLedger` says that every
step is a ledger step or changes nothing the ledger shows (the mapping is the
identity on `status`, `keyOf`, `told` and `receipts`), except the steps of requests
that overlapped with another one on their key or payment; on Node there are none,
and the service implements the ledger as it stands. For overlapping requests the
docstring of `processor.py:17-19`, that a duplicate request returns the
original payment, does not hold, and the other properties of the run
`payments` say how far the damage goes: only keys and payments that two
requests were served on at once, never a decision requested after an answer.

### LoanService

`app` is chosen in Init. `status[i]` belongs to the dict created for loan `i`:
a deletion takes it out of `stored`, but a thread that holds it can still write
on it. In the FastAPI application `update_status` looks the loan up again
(`Relookup`) and returns `None` if it is gone, which FastAPI turns into a 500;
`Del` is the `del` of a key another thread may have deleted. The Flask
application writes on the dict of its first lookup and has no deletion.
`DecisionsStandUnlessOverlap`, `LateDecisionRefused`, `DeletedOnce` and
`OddAnswersNeedOverlap` confine what can go wrong to overlapping requests. That a
rejected loan cannot be approved, as
`tests/integration/test_loan_repayment_processing.py:139` has it, takes this
confinement: an approval past its test still writes.

### SessionGateway

A session is stored for ever; `active`, `access`, `refresh` and `expires` are
its fields. A refresh validates its token (`Validate`), iterates over the store
(`ScanBegin`, one `Inspect` per turn of the loop; a session created meanwhile
ends it with a `RuntimeError`), checks the session, issues tokens and writes
them in two assignments (`IssueTokens`, `Rotate`). `Terminate` is one step, as
sessions are never removed. The loop's condition reads two fields of the
session and is one step: they only change from matching to not matching, and
either order ends in a refusal. A refresh token also stands for the access
token issued with it.
`SessionExpiresWithToken` is the comment of `api_gateway.py:95`; it is violated
(finding 1).

### UserAccounts

The docstring of `user_auth_service.py` has the Flask routes delegate to it, which
they do not yet; the model takes the threads of such a server as its callers. `stored[n]` is the account
dict `_user_store` has for a name, `hash`, `salt` and `active` are the fields of
the dicts, which a thread can go on writing after the dict was replaced or
deleted. Each call of `_hash_password` that draws a salt is a member of `Hashes`
and stands for salt and hash alike, so that two fields match exactly when they
come from one call; `word` is the password behind it. A registration is `Exists`
and, after the slow hash, `Store`; an update is `Get`, `SetFlag`, `SetHash`,
`SetSalt` (`deactivate` is the update that writes the flag alone); a login looks
the account up (`Lookup`), has `verifyPassword` look the name up again
(`Relookup`, `ReadSalt`, `Compare`) and reads `is_active` of the first dict
(`Enabled`); a deletion is `Find` and `Del`.

* `LostOnlyByOverlap`, `DeactivationStands`: a registration displaces another
  account, or brings a deactivated name back, only when two registrations of the
  name were in flight together;
* `CredentialsPaired`: an account whose hash and salt belong to different
  passwords, which no password opens, takes two overlapping updates;
* `FailedNeedsOverlap`: so does the `KeyError` of a deletion take two deletions;
* `LoginAgrees`: a login is answered as one look at the account at the moment of
  the answer would answer it, if neither account nor password was replaced
  during the call, whatever happened to `is_active`.

### OAuthLogin

`cookie[b]` is `oauth2_state` in the signed session cookie, which lives in the
browser: a request is handled with the cookie it was sent with (`sent`), and
changes it only when its answer gets there (`Redirected`, `Arrive`) and not when
it is lost (`Lost`). Popping the state is therefore part of the answer, and
`Popped` leaves the cookie alone where the code does not pop: a callback without
a state, or without a cookie. `known[b]` are the states a browser was redirected
with, the only ones the provider sends it back with. `Exchange` stands for both
calls to the provider, which vouches for somebody under a display name, by a
subject or, if its answer has no `sub`, by the empty one (`Sub`, `oauth.py:77`);
`ExchangeFails` for a missing code, an error of the provider and a timeout. The
loop over `_store` is `Inspect`, with the `RuntimeError` of a dict that grew.
`Put` enters a profile under its name: a name that is there keeps its place in
the dict, so the loop goes on over a replaced profile. `found` is the profile the
answer is about, `told[i]` the profiles an identity was logged in as. `CreateLocal`
is `UserProfileModel.create`, which no route calls but tests and seeds do.

* `ReusedUnlessDisturbed`: a subject has a second profile only if two callbacks
  for it overlapped or another profile of its name displaced the first;
* `OwnProfile`: nobody is logged in as somebody else, whatever displaces what; only
  those for whom the provider gives no `sub` share a profile, as they are one
  subject to the code;
* `StateOnce`: a state lets a second callback through only if that was sent before
  the first was answered, or after its answer was lost.

`SameAccountAgain` is the promise of `docs/auth_api_docs.md:412`; a common display
name is enough to break it (finding 2).

### TokenServices

Four services that do the same in four ways, so one module. `running` is a set of
them that runs together, chosen in Init from `Deployments`, and `Secret` gives each
its `JWT_SECRET_KEY`: a service takes every token signed with its secret
(`Signed`), whoever issued it. `token[k]` are the claims of the token with jti `k`:
its secret, whose it is, until when, and which roles it names, if any. In the
Flask application a logout is decoded by the middleware (`TokenMiddleware`), decoded
again by the route (`Decode`), looked up (`Lookup`), entered (`Revoke`) and answered;
in the FastAPI application the route takes the claims the middleware decoded
(`AuthMiddleware`) and enters them, and nothing looks anything up. Logout is the
only guarded route of either. The auth service keeps no state, so a request to it
is one step; `CreateSession` is the session gateway issuing a pair of tokens with
its functions, with roles the client chose (its sessions, and the refreshes of
them, which issue what `RefreshToken` does, are `SessionGateway`). A handler of the
Node service runs to completion and is one step too. There `order` is the order of
the entries of `_userStore`, which decides whom `DeactivateUser` finds first.

The history variable `granted[k]` is the role given where the chain of renewals
that led to `k` began. `admitted` records the requests a guard let through, with what
was wrong about it: the request came after the service had answered the logout of
its token ("late"), the token was used longer than a token's life after its user was
deactivated ("overdue"), the token is neither of a user with the role nor goes back
to a session created with it ("role").

* `LogoutEnforced`: the Flask application and the Node service let nothing "late"
  through, whichever tokens they take. It is about the service that answered the
  logout: another one with the same secret asks another blacklist, and the auth
  service renews any token signed with its own. No document promises more;
* `LogoutRevokes`: the security platform neither, as the docstring of its route
  has it (`main.py:115`); its blacklist is written and never read (finding 3);
* `RolesTraced`: "role" never happens, whatever is renewed from what. What the
  guard is worth is therefore decided where sessions are created;
* `DisabledFadesOut`: "overdue" happens only to accounts that share their id, as
  long as no other service has the Node service's secret; one that had, and issued
  or renewed a token for the name, would keep it alive.

### DataAccess

Names that `LoanService` has too carry the prefix `DA`, and `stage` is what `pc`
is elsewhere, so that one module of proofs extends both. No route composes
operations yet; a session is a block under `get_db_session`
that does what its docstring allows, any operations in any order. The database is
external, and modelled as far as the code can tell: `table` is what is committed,
`lock[k]` the transaction that wrote row `k` and has not ended, `draft[k]` the row
as that transaction sees it. `seen[s]` is the session's identity map, from which
`session.get` may answer without a SELECT while the block holds the instance
(the map is weak, so `Got` has both outcomes). A write is a lookup and, as a
second step, the statement of the flush, which waits while another transaction
holds the row (`Blocked`). What it finds when it goes on decides: `Execute`, a
`DeleteNothing` that only warns, `StaleDataError`, or `IntegrityError`. `missed`
is the statement that waited for a row, found it deleted and does not look at one
inserted since, which takes a third session. An exception passes through the `except` clause, which rolls back
for an `SQLAlchemyError` only, and the `finally` clause, which closes the session
and with it ends whatever is still open. `CommitUnanswered` is a commit that was
done although it raised.

* `AllOrNothing`: a block that was answered left every row as its operations
  were answered, unless another transaction wrote the row; one that raised left
  nothing, unless only the answer of its commit was lost;
* `GhostsNeedOverlap`: `delete` answers `True` for a row that was gone, and an
  update fails instead of answering `None`, only beside another transaction;
* `TransactionsEnd`: every block ends, whatever it waits for.

### Provisioning

A block is its first and last address (`Network`); a CIDR text is an address with
a size, whose host bits `NetworkOf` masks as `ip_network(strict=False)` does and as
EC2 does again. `job[c]` is the request a call is at. boto3 sends a request again
when no answer comes, also when EC2 has done it (`...Unanswered`), up to
`Attempts` times; then, or when EC2 refuses (`Refused`), the call raises and
forgets what it created. `create_subnet` takes any VPC id, of a VPC that was returned
or not, or of none; EC2 creates the subnet if the VPC exists and has room (`Fits`). `given` and `shared` are what a caller was told of.

* `OrphansNeedFaults`: a VPC that was returned has both attributes, and VPCs and
  subnets nobody was told of are at most as many as requests that failed;
* `ReservedSpared`: nothing in the account covers an address of a reserved range,
  whichever way the blocks lie to each other.

## 3. Runs

| Run | Instance | Shows |
|---|---|---|
| `token_revocation` | 1 process, 2 threads, 2 tokens, 2 ticks per second, lifetime 3 s, clock to 7 ticks, both backends | five properties |
| `payments` | 2 threads, 3 payments, 2 keys | four properties and the ledger |
| `loans` | 3 threads, 1 loan, both applications | four properties |
| `sessions` | 2 threads, 2 sessions, 3 tokens, token life 2, session life 1, clock to 3 | six properties |
| `accounts` | 2 threads, 1 name, 2 passwords, 2 accounts, 3 hashes | five properties |
| `profiles` | 2 requests, 1 browser, 2 states, 3 identities, 2 of them without `sub`, 2 names, 3 profiles | four properties |
| `token_services` | Flask application and platform with one secret, auth service, Node service; 2 threads, 2 names, 2 ids, 3 tokens, lives 1 and 2, clock to 2 | four properties |
| `data_access` | 2 sessions of 2 operations, 2 rows, 2 statuses, an empty and a filled table | four properties, one of liveness |
| `provisioning` | 2 calls, quota of 2 VPCs, 16 addresses, 3 block sizes, 2 reserved ranges, 2 attempts, 3 faults | three properties |
| `session_expiry` | 1 thread, 1 session, 2 tokens, equal lives of 3 | finding 1 |
| `profile_reuse` | 1 request, 1 browser, 3 states, 2 subjects of one name | finding 2 |
| `platform_logout` | the platform, 1 thread, 2 tokens | finding 3 |

Why the bounds are enough. Every race found in the code is between two
requests on one datum; the third thread of `loans` lets a deletion, a PUT and
a decision meet. In `token_revocation` two ticks make a second divisible, so
that truncation loses something, and the clock passes the expiry of the first
token, so that requests live on both sides of it; a second token changes the
size of the dict under the purge. Three payments allow a duplicate and a later
retry, two keys an overlap on one beside lone requests on the other, three tokens a chain of refreshes or a double exchange; the two lives of
`sessions` differ so that both kinds of expiry are met. In `accounts` everything
stored is by name and names do not meet, so one is enough; two accounts allow a
displacement or a second registration after a deletion, and three hashes a
registration with two overlapping updates. In `profiles` one browser with two
requests sends a callback twice, or keeps two logins going as two tabs do; two
states are a login and a repetition of it, and three profiles a displacement and the
profile made after it. In `token_services` three tokens are one to log out or
deactivate with, one to use afterwards and one to renew into, and the clock runs
past the life of the tokens issued first. By default only the two services run
together there have a secret in common, so that the others meet no token but
their own; the theorems are for any sharing. In `data_access` two operations
on two rows are what a deadlock, a stale instance and a half-done block need; a
session that begins when another has ended meets what it left. In `provisioning`
one reserved range is a single address inside blocks of every size, the other lies
across blocks of the largest and around smaller ones; the account is full with two VPCs, and three faults are a request given up and one
repeated. Bounds are constants
(`MaxClock`, `MaxSessions`, `MaxAccounts`, `MaxProfiles`, `MaxOps`, `MaxFaults`, the sizes of `Ids`,
`Jtis`, `Tokens`, `Hashes`, `Vpcs` and `States`) that appear as guards. Symmetry is used
where the elements of a set are never compared except for equality, and in no run
of a liveness property; `LoginAgrees` and `ImplementsLedger` are about single steps and
the same for every renaming.
Deadlock is checked in every run.

Fairness. Only `DataAccess` assumes any and claims liveness, because only there
does one actor wait for another. `WF_vars(Run(s))` says that the thread inside a
block goes on when it can: it operates, has its statement executed when no other
transaction holds the row, commits, or unwinds. It goes on with some
of these and not with each; that a block ends at all is the bound `MaxOps`, as a block of Python
code that calls the layer finitely often. `WF_vars(\E s : DeadlockAbort(s))` is
PostgreSQL's `deadlock_timeout`. Connections need not break, nor sessions begin.
Elsewhere a handler has no loop that waits for another one, so every request ends
as soon as its thread runs.

## 4. Findings

1. *A session expires before its refresh token* (`api_gateway.py:156` against
   line 95): refreshing does not move `expires_at`.
2. *An OAuth2 account is lost to a namesake* (`models.py:116` against
   `docs/auth_api_docs.md:412`): profiles are stored under the display name, so a
   second subject, or a local account, of the same name replaces the first.
3. *A logout of the security platform revokes nothing* (`security_platform/main.py:123`
   against line 115): the route enters the token in a blacklist that nothing reads.
   `CHANGELOG.md:27` and `tests/test_integration.py:37` promise the revocation too.

Four promises of documentation or tests are stated in the form in which they
hold, with what they leave out: the refusal of logged-out tokens by the
authentication service (`LateAcceptOnlyLastSecond`), one payment per key
(`DuplicatesNeedOverlap`), rejections that stand
(`DecisionsStandUnlessOverlap`), and a renewal "preserving the user identity and
roles" (`auth_service/utils/jwt_util.py:177-178`, `RolesTraced`): a refresh token
names no role, so that renewing one gives the roles of the user's name (line 198), and a
session created with other roles loses them. Section 2 says what happens beyond
the others.

## 5. Proofs

TLAPS proves, for every value of the constants that satisfies the assumptions
of the module (`RevocationAssumption`: stores and workers are distinct, a
second has at least one tick; `PaymentAssumption`, `LoanAssumption`: `None` is
no id and no key; `AccountsAssumption`: nor a password or a hash;
`LoginAssumption`: nor a state or an identity, and the empty subject is neither;
`ServicesAssumption`: `None` is no thread, service, id, token or time, and admins are
users, whoever runs together and whichever secrets are the same; `ProvisioningAssumption`: the size
of a block divides the size of the address space, as powers of two do, and a
request is sent at least once; `GatewayAssumption`: `None` is no token, and the
lives and bounds are numbers; `DataAccessAssumption`: `Null` is no status and no
session, and `Pending` is a status), that the following are invariants of `Spec`:

* `TokenRevocationProofs`: `TypeOK`, `RevokedStaysListed`,
  `LateAcceptOnlyExpired`, `FailedOnlyExpired`, `LateAcceptOnlyLastSecond`;
* `PaymentProcessorProofs`: `TypeOK`, `IndexedOrInFlight`, `DuplicatesNeedOverlap`,
  `FlipsNeedOverlap`, `LateDecisionRefused`, `ReferencedAreConfirmed`; further
  `Spec => ImplementsLedger`, and `Spec => Ledger!Spec` when there is one thread;
* `LoanServiceProofs`: `TypeOK`, `LateDecisionRefused`, `DecisionsStandUnlessOverlap`,
  `DeletedOnce`, `OddAnswersNeedOverlap`, and of the transactions on the table
  `DATypeOK`, `AllOrNothing` and `GhostsNeedOverlap`;
* `SessionGatewayProofs`: the six invariants of the run `sessions`;
* `UserAccountsProofs`: the four invariants of the run `accounts`,
  `DeactivationStands`, and the action property `LoginAgrees`;
* `OAuthLoginProofs`: the four invariants of the run `profiles`;
* `TokenServicesProofs`: the four invariants of the run `token_services`;
* `ProvisioningProofs`: the three invariants of the run `provisioning`.

Each module proves an inductive invariant (`IInv`, and `DAInv` for `DataAccess`), action by action and
conjunct by conjunct, and derives the properties from it. None of the
properties is inductive by itself:

* For revocation, a deletion is harmless only because the thread (or purge)
  about to delete has seen the entry expire and time does not run back
  (`DeletesOnlyExpired`), which needs that what it read was the token's expiry
  (`EntriesAreExpiries`). For Redis, `KeyLastsLongEnough` bounds what the
  truncation loses by `WholeSecondsBounds`.
* For payments, a thread past the idempotency check creates a duplicate only
  if somebody else passed the check too, and then the overlap was recorded
  (`OverlapsRecorded`, `KeysIndexed`); a decision written by a thread past the
  check finds the payment still pending unless an overlap was recorded
  (`DecisionsStand`).
* For loans the same, with `FoundIsStored` for the deletion and
  `DecidedUntilPut` for the PUT that takes a decision back.
* For sessions, `TokensOwned` says that the refresh token a session has is its own
  and was never exchanged: a rotation spends the old one as it replaces it. So a
  refresh that is void from the start, with a token that was exchanged, matches no
  session, and `RequestsSound` keeps a terminated one out behind the test of
  `active`. `ExchangesEnd` traces a token to the exchange it came from, which is over
  or one assignment short of it; `FreshApart` says that a token not yet answered is
  in the hands of one request. What happens without overlap is `AloneUndisturbed`,
  what a request alone on its session may rely on between its steps; the loop over
  the store is in it as `pos[t] <= owner[tok[t]]`, it has not passed the session
  it looks for. `OverlapsRecorded` makes every second request on a session leave
  that case. `Create` and `Terminate` may come at any time and are never overlaps.
* For transactions, everything is said of rows no other transaction has committed
  since the session began (`disturbed`). There the instances at hand
  (`InstancesTrue`), what the operations answered (`PromisesVisible`) and what the
  lookup found (`FoundIsThere`) agree with what the session sees, and at the commit
  that becomes the table. A step that leaves the database alone touches its own
  session only (`OwnStep`); a statement writes a row that nobody else holds
  (`WrittenIsFree`), an UPDATE of a row another transaction inserted finds none; a
  rollback gives rows back that others never saw (`RolledBackStep`); and a commit
  disturbs exactly the rows it changes for the others (`KeptFacts`). That a
  ring of waiting sessions is ended needs no more than `Holder`: whoever is in it
  is in a flush and not committed.
* For accounts the invariant is taken apart into types, store and threads. A step
  that only reads the store needs to keep what is said of its own thread
  (`QuietStep`), and the five that write it have a lemma each. `TestsHold` and
  `FreshIsHash` say what a thread's test or write is still worth at its next
  write, `LoginKnows` what a login knows of the account as it is now; the latter
  survives the writers because they touch accounts of their own name only
  (`OthersKnow`). `LoginAgrees` follows from it at the answering step.
* For OAuth2 the invariant has two halves that never touch: `ProfileInv` is about
  the store and the lookups, `WebInv` about states and cookies, and each step is a
  frame step of at least one. A lookup ends in a creation only after a whole pass
  over a dict that did not grow (`ScanHolds`, with `size[r] <= Len(order)` in
  `InHand`, for the size of a dict that grew never comes back), so a profile of the
  subject in the store was put there by an overlapping callback; and
  one not in the store was displaced (`StaysStored`). `UsedLeaves` says why a used
  state can still be in a cookie, `StatesApart` that it is in no other browser's.
  `ToldOwn` has everybody logged in with profiles of the subject the provider gave,
  so that two share one only if it gave both the empty one.
* For the token services, tokens are only issued and never changed, blacklists
  grow, and accounts keep their id. `RolesTrue` closes the chain of renewals: a
  token that names the role is of an admin, or goes back to a session created with
  it. `RequestsOK` says that a late request holds a token whose logout its service
  has answered, and `TypeOK` that such a token is in that service's blacklist, so
  that the lookup refuses it; whose the secret is does not matter. `TokensFade`
  bounds what was signed with the Node service's secret before a deactivation by the
  moment of the deactivation, and `DisabledStay` says that nobody active has the id,
  so that nothing is issued after it; both take that no other service signs with
  that secret (`NodeApart`, the premise of `DisabledFadesOut`).
* For provisioning, `Masked` is the arithmetic: an address less its remainder
  begins a block that ends inside the address space. `Disjoint` shows that the
  comparison of end points in `_validate_cidr` finds every overlap. With
  `BlocksSpared` both carry `ReservedSpared` through the creations. For
  `OrphansNeedFaults`, `HandsApart` (no VPC is in the hands of two calls) makes a
  step orphan one VPC at most, and `Counted` weighs it against the fault;
  `InOrder` says that a call at its second attribute has set the first.
* For the refinement, a `StorePayment` or `SetStatus` of a request without recorded
  overlap meets the guards of the ledger, by the same parts of the invariant; a
  single thread never records an overlap (`NoOverlap`).

The invariants were checked with TLC on the instances of the runs before they
were proved; every safety property of a passing run is proved. Only model-checked:
`TransactionsEnd`, because liveness under fairness and `ENABLED` are out of the
prover's reach, as is induction over data, and the three findings, which are
violations.

## 6. What is not modelled, and the plan

Not modelled because no code of the repository decides anything there:
Terraform, compose, nginx and pipeline configuration; the client-management
skeleton; the fixed-credential helpers of `auth/login.py`. Not modelled
because it is external and no code depends on its order: eviction of keys by
Redis, delivery of HTTP answers (a lost answer is a client that retries, which
the models let it do at any time; `OAuthLogin` models it, because there the
answer carries the cookie).

Hazards without a model: a restart or a second worker process empties or
splits the in-memory blacklist (`Restart` and `Workers` are in `TokenRevocation`;
the properties are about one process); nothing calls `purge_expired`, so the dict
grows; Redis with `allkeys-lru` may evict the keys of live tokens; the status PUT
writes any status over any other, by design; the lock-out counter of
`SecurityUtils.java:143` is an `Integer`, which 2^31 failed attempts would wrap; two
deployments of one service that read the same task definition
(`build_scripts.sh:105`); the auth service, which has the default secret of
`services/authentication`, renews a token that was logged out there, and
`TokenRevocation` looks at tokens of its own service only.

Next is *Deployments*: the read-modify-write of the task definition, and the
clients of `ecs_rds.py` with it.
