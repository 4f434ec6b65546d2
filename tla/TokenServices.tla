-------------------------- MODULE TokenServices --------------------------
(***************************************************************************)
(* The services that issue signed tokens besides services/authentication:  *)
(*   "flask"     src/controllers/AuthController.py behind TokenMiddleware  *)
(*   "platform"  services/security_platform behind AuthMiddleware          *)
(*   "auth"      microservices/auth_service, and the session gateway of    *)
(*               src/microservices/auth, which issues tokens with the      *)
(*               functions of the auth service                             *)
(*   "node"      src/microservices/authentication/UserService.js, app.js   *)
(* A service accepts every token signed with its secret. The first two     *)
(* have the same one unless configured otherwise, and a blacklist each;    *)
(* with JWT_SECRET_KEY in a common environment all have the same.          *)
(*                                                                         *)
(* The first two serve requests on several threads; a handler of "auth"    *)
(* reads no state, and one of "node" runs to completion on the event loop, *)
(* so that a request of theirs is one step. Passwords are left out: a      *)
(* login is one with the right password.                                   *)
(***************************************************************************)
EXTENDS Naturals, Sequences, SequencesExt

CONSTANTS
  Threads,      \* threads of the Python services
  Deployments,  \* sets of services that run together
  Secret,       \* JWT_SECRET_KEY of each service
  Names,        \* user names
  Admins,       \* names with ROLE_ADMIN in _MOCK_USER_ROLES
  UserIds,      \* userId, chosen by the client of the Node service
  Tokens,       \* jti
  None,         \* no token, no service, no id, no date
  Life,         \* lifetime of an access token
  RefreshLife,  \* lifetime of a refresh token
  MaxClock      \* bound: the clock

Services == {"flask", "platform", "auth", "node"}

ASSUME ServicesAssumption ==
  /\ Deployments \subseteq SUBSET Services
  /\ Admins \subseteq Names
  /\ Life \in Nat /\ RefreshLife \in Nat /\ MaxClock \in Nat
  /\ None \notin Threads \cup Services \cup UserIds \cup Tokens \cup Nat

VARIABLES
  running,    \* the services of this deployment
  clock,
  token,      \* the claims of each token, None before it is issued
  blacklist,  \* _TOKEN_BLACKLIST, _blacklist of each service
  order,      \* names in the order of _userStore, a Map
  idOf,       \* userId of an account
  active,     \* names with isActive
  pc,         \* where the logout of a thread stands
  at,         \* its service
  held,       \* its token
  \* history
  granted,    \* roles given at the login or session a token goes back to
  loggedOut,  \* tokens whose logout a service answered
  late,       \* threads whose request came after that
  disabledAt, \* when the deactivation of an id was answered first
  admitted    \* requests let through: whose, where, and what was wrong

issuing  == <<token, granted>>
accounts == <<order, idOf, active>>
threads  == <<pc, at, held, late>>
answers  == <<loggedOut, disabledAt, admitted>>
vars     == <<running, clock, issuing, blacklist, accounts, threads, answers>>

Python == {"flask", "platform"}
Roles  == {"none", "user", "admin"}   \* the claim, "none" for a token without
Claims ==
  [secret : {Secret[s] : s \in Services}, sub : Names, exp : Nat, roles : Roles]
Faults == {"late", "overdue", "role"}

TypeOK ==
  /\ running \in Deployments
  /\ clock \in 0 .. MaxClock
  /\ token \in [Tokens -> Claims \cup {None}]
  /\ granted \in [Tokens -> Roles]
  /\ blacklist \in [Services -> SUBSET {k \in Tokens : token[k] # None}]
  /\ loggedOut \in [Services -> SUBSET Tokens]
  /\ \A s \in Services : loggedOut[s] \subseteq blacklist[s]
  /\ order \in Seq(Names) /\ IsInjective(order)
  /\ idOf \in [Names -> UserIds \cup {None}]
  /\ \A n \in Names : idOf[n] # None <=> n \in ToSet(order)
  /\ active \subseteq ToSet(order)
  /\ pc \in [Threads -> {"idle", "middleware", "route", "lookup", "revoke", "answer"}]
  /\ at \in [Threads -> Python \cup {None}]
  /\ held \in [Threads -> Tokens \cup {None}]
  /\ late \subseteq Threads
  /\ disabledAt \in [UserIds -> 0 .. MaxClock \cup {None}]
  /\ admitted \subseteq [sub : Names, at : Services, fault : Faults]

Init ==
  /\ running \in Deployments
  /\ clock = 0
  /\ token = [k \in Tokens |-> None] /\ granted = [k \in Tokens |-> "none"]
  /\ blacklist = [s \in Services |-> {}]
  /\ order = <<>> /\ idOf = [n \in Names |-> None] /\ active = {}
  /\ pc = [t \in Threads |-> "idle"] /\ at = [t \in Threads |-> None]
  /\ held = [t \in Threads |-> None] /\ late = {}
  /\ loggedOut = [s \in Services |-> {}]
  /\ disabledAt = [i \in UserIds |-> None]
  /\ admitted = {}

-----------------------------------------------------------------------------
(* Tokens                                                                  *)

Unissued == {k \in Tokens : token[k] = None}
Issued   == Tokens \ Unissued

\* get_user_roles
RolesOf(n) == IF n \in Admins THEN "admin" ELSE "user"

\* generate_token: the claims of an access token that service s issues.
Access(s, n, roles) ==
  [secret |-> Secret[s], sub |-> n, exp |-> clock + Life, roles |-> roles]

\* generate_refresh_token leaves out the roles.
Refresh(s, n) ==
  [secret |-> Secret[s], sub |-> n, exp |-> clock + RefreshLife, roles |-> "none"]

\* A new token, and where its roles come from.
IssueOne(claims, from) ==
  \E k \in Unissued : /\ token' = [token EXCEPT ![k] = claims]
                      /\ granted' = [granted EXCEPT ![k] = from]

\* An access token of n with these roles and a refresh token.
IssuePair(s, n, roles) ==
  \E k \in Unissued : \E r \in Unissued \ {k} :
    /\ token' = [token EXCEPT ![k] = Access(s, n, roles), ![r] = Refresh(s, n)]
    /\ granted' = [granted EXCEPT ![k] = roles, ![r] = roles]

\* The signature is the service's own, whoever issued the token.
Signed(s, k) == token[k] # None /\ token[k].secret = Secret[s]

\* jwt.decode, PyJWT and jsonwebtoken alike.
Decodes(s, k) == Signed(s, k) /\ clock < token[k].exp

\* Variant: the logout is forgotten.
NeverRevoked(s, k) == FALSE

Revoked(s, k) == k \in blacklist[s]

\* Variant: the set is replaced instead of extended.
Replaced(s, k) == [blacklist EXCEPT ![s] = {k}]

Blacklisted(s, k) == [blacklist EXCEPT ![s] = @ \cup {k}]

\* renew_token: the roles of the token, or those of the name if it has none.
RolesAfter(k) == IF token[k].roles = "none" THEN RolesOf(token[k].sub) ELSE token[k].roles

\* Variant: a token without roles is not asked for them.
HasRoleIfAny(k) == token[k].roles \in {"none", "admin"}

\* role_required: the token names the role; one without roles is refused.
HasRole(k) == token[k].roles = "admin"

\* Service s lets a request with token k through although something is wrong.
Admit(s, k, faults) ==
  admitted' = admitted \cup [sub : {token[k].sub}, at : {s}, fault : faults]

-----------------------------------------------------------------------------
(* Logins                                                                  *)

Tick ==
  /\ clock < MaxClock
  /\ clock' = clock + 1
  /\ UNCHANGED <<running, issuing, blacklist, accounts, threads, answers>>

\* POST /auth/login of the Flask and the FastAPI application.
Login(s, n) ==
  /\ s \in Python \cap running
  /\ IssueOne(Access(s, n, RolesOf(n)), RolesOf(n))
  /\ UNCHANGED <<running, clock, blacklist, accounts, threads, answers>>

\* POST /auth/login of the auth service returns two tokens.
LoginPair(n) ==
  /\ "auth" \in running
  /\ IssuePair("auth", n, RolesOf(n))
  /\ UNCHANGED <<running, clock, blacklist, accounts, threads, answers>>

\* POST /sessions/create: the client chooses the name, and the roles too or
\* leaves them to the name.
CreateSession(n) ==
  /\ "auth" \in running
  /\ \E roles \in Roles \ {"none"} : IssuePair("auth", n, roles)
  /\ UNCHANGED <<running, clock, blacklist, accounts, threads, answers>>

\* POST /auth/refresh-token takes any token so signed, expired or not.
RefreshToken(k) ==
  /\ "auth" \in running
  /\ Signed("auth", k)
  /\ IssueOne(Access("auth", token[k].sub, RolesAfter(k)), granted[k])
  /\ UNCHANGED <<running, clock, blacklist, accounts, threads, answers>>

\* GET /auth/protected behind role_required("ROLE_ADMIN")
Protected(k) ==
  /\ "auth" \in running
  /\ Decodes("auth", k)
  /\ HasRole(k)
  /\ Admit("auth", k, IF token[k].sub \in Admins \/ granted[k] = "admin" THEN {} ELSE {"role"})
  /\ UNCHANGED <<running, clock, issuing, blacklist, accounts, threads, loggedOut, disabledAt>>

-----------------------------------------------------------------------------
(* Logout of the two Python services with a blacklist, the one route behind *)
(* their guards                                                            *)

\* A thread takes its next step; "idle" ends the request.
Goes(t, step) ==
  /\ pc' = [pc EXCEPT ![t] = step]
  /\ IF step = "idle"
     THEN /\ at' = [at EXCEPT ![t] = None]
          /\ held' = [held EXCEPT ![t] = None]
          /\ late' = late \ {t}
     ELSE UNCHANGED <<at, held, late>>

LateFault(t) == IF t \in late THEN {"late"} ELSE {}

Arrive(t, s, k) ==
  /\ s \in Python \cap running
  /\ pc[t] = "idle" /\ token[k] # None
  /\ pc' = [pc EXCEPT ![t] = "middleware"]
  /\ at' = [at EXCEPT ![t] = s]
  /\ held' = [held EXCEPT ![t] = k]
  /\ late' = IF k \in loggedOut[s] THEN late \cup {t} ELSE late
  /\ UNCHANGED <<running, clock, issuing, blacklist, accounts, answers>>

\* TokenMiddleware and AuthMiddleware decode the token and do not ask the
\* blacklist.
TokenMiddleware(t) ==
  /\ at[t] = "flask" /\ pc[t] = "middleware"
  /\ Goes(t, IF Decodes("flask", held[t]) THEN "route" ELSE "idle")
  /\ UNCHANGED <<running, clock, issuing, blacklist, accounts, answers>>

\* The FastAPI route takes over what the middleware decoded.
AuthMiddleware(t) ==
  /\ at[t] = "platform" /\ pc[t] = "middleware"
  /\ IF Decodes("platform", held[t])
     THEN Goes(t, "revoke") /\ Admit("platform", held[t], LateFault(t))
     ELSE Goes(t, "idle") /\ UNCHANGED admitted
  /\ UNCHANGED <<running, clock, issuing, blacklist, accounts, loggedOut, disabledAt>>

\* The Flask route decodes it again ...
Decode(t) ==
  /\ pc[t] = "route"
  /\ Goes(t, IF Decodes("flask", held[t]) THEN "lookup" ELSE "idle")
  /\ UNCHANGED <<running, clock, issuing, blacklist, accounts, answers>>

\* ... and then asks the blacklist.
Lookup(t) ==
  /\ pc[t] = "lookup"
  /\ IF Revoked("flask", held[t])
     THEN Goes(t, "idle") /\ UNCHANGED admitted
     ELSE Goes(t, "revoke") /\ Admit("flask", held[t], LateFault(t))
  /\ UNCHANGED <<running, clock, issuing, blacklist, accounts, loggedOut, disabledAt>>

Revoke(t) ==
  /\ pc[t] = "revoke"
  /\ blacklist' = Blacklisted(at[t], held[t])
  /\ Goes(t, "answer")
  /\ UNCHANGED <<running, clock, issuing, accounts, answers>>

Answer(t) ==
  /\ pc[t] = "answer"
  /\ loggedOut' = [loggedOut EXCEPT ![at[t]] = @ \cup {held[t]}]
  /\ Goes(t, "idle")
  /\ UNCHANGED <<running, clock, issuing, blacklist, accounts, disabledAt, admitted>>

-----------------------------------------------------------------------------
(* The Node service                                                        *)

\* Variant: a name can be registered again.
NeverTaken(n) == FALSE

Taken(n) == idOf[n] # None

\* createUser asks for the name and not for the id. A Map keeps the place of a
\* key that is set again.
Register(n, i) ==
  /\ "node" \in running
  /\ ~Taken(n)
  /\ order' = IF n \in ToSet(order) THEN order ELSE Append(order, n)
  /\ idOf' = [idOf EXCEPT ![n] = i]
  /\ active' = active \cup {n}
  /\ UNCHANGED <<running, clock, issuing, blacklist, threads, answers>>

\* authenticateUser
AuthenticateUser(n) ==
  /\ "node" \in running
  /\ n \in active
  /\ IssueOne(Access("node", n, "none"), "none")
  /\ UNCHANGED <<running, clock, blacklist, accounts, threads, answers>>

\* validateToken
Valid(k) == Decodes("node", k) /\ ~Revoked("node", k)

\* A token's life has passed since the id of its account was deactivated.
Overdue(k) ==
  \E i \in UserIds :
    idOf[token[k].sub] = i /\ disabledAt[i] # None /\ clock >= disabledAt[i] + Life

\* requireAuth, with what would be wrong about letting the request through.
RequireAuth(k) ==
  /\ Valid(k)
  /\ Admit("node", k, {f \in Faults : \/ f = "late" /\ k \in loggedOut["node"]
                                      \/ f = "overdue" /\ Overdue(k)})

\* GET /auth/users/:userId
GetUser(k) ==
  /\ "node" \in running
  /\ RequireAuth(k)
  /\ UNCHANGED <<running, clock, issuing, blacklist, accounts, threads, loggedOut, disabledAt>>

\* POST /auth/logout
RevokeToken(k) ==
  /\ "node" \in running
  /\ RequireAuth(k)
  /\ blacklist' = Blacklisted("node", k)
  /\ loggedOut' = [loggedOut EXCEPT !["node"] = @ \cup {k}]
  /\ UNCHANGED <<running, clock, issuing, accounts, threads, disabledAt>>

\* POST /auth/deactivate/:userId, by anybody logged in: the first account with
\* that id.
DeactivateUser(k, i) ==
  LET matching == {p \in DOMAIN order : idOf[order[p]] = i}
  IN  /\ "node" \in running
      /\ RequireAuth(k)
      /\ \E p \in matching :
           /\ \A q \in matching : p <= q
           /\ active' = active \ {order[p]}
      /\ disabledAt' = [disabledAt EXCEPT ![i] = IF @ = None THEN clock ELSE @]
      /\ UNCHANGED <<running, clock, issuing, blacklist, order, idOf, threads, loggedOut>>

\* A 401 or 403 of the services whose request is one step.
Refuse(k) ==
  /\ \/ "auth" \in running /\ ~(Decodes("auth", k) /\ HasRole(k))
     \/ "node" \in running /\ ~Valid(k)
  /\ UNCHANGED vars

-----------------------------------------------------------------------------

Next ==
  \/ Tick
  \/ \E n \in Names :
       \/ LoginPair(n) \/ CreateSession(n) \/ AuthenticateUser(n)
       \/ \E s \in Python : Login(s, n)
       \/ \E i \in UserIds : Register(n, i)
  \/ \E k \in Tokens :
       \/ RefreshToken(k) \/ Protected(k) \/ GetUser(k) \/ RevokeToken(k) \/ Refuse(k)
       \/ \E i \in UserIds : DeactivateUser(k, i)
       \/ \E t \in Threads, s \in Python : Arrive(t, s, k)
  \/ \E t \in Threads :
       TokenMiddleware(t) \/ AuthMiddleware(t) \/ Decode(t) \/ Lookup(t) \/ Revoke(t) \/ Answer(t)

Spec == Init /\ [][Next]_vars

-----------------------------------------------------------------------------
(* Properties                                                              *)

\* The Flask application and the Node service let no request through that came
\* after their answer to its token's logout, whoever issued the token: the
\* lookup is the last look at it, and the entry precedes the answer.
LogoutEnforced ==
  \A a \in admitted : a.at \in {"flask", "node"} => a.fault # "late"

\* The promise of security_platform/main.py:115 that logout revokes the token.
LogoutRevokes ==
  \A a \in admitted : a.at = "platform" => a.fault # "late"

\* Through whatever chain of refreshes a token was obtained, the protected route
\* lets through only names that have the role, and those in which a session of
\* the chain's beginning was created with it.
RolesTraced == \A a \in admitted : a.fault # "role"

\* Ids that two accounts of the Node service have.
SharedIds == {i \in UserIds : \E m, n \in Names : m # n /\ idOf[m] = i /\ idOf[n] = i}

\* No other service signs with the secret of the Node service.
NodeApart == \A s \in Services \ {"node"} : Secret[s] # Secret["node"]

\* A deactivated user does not log in again, so that one token lifetime after
\* the deactivation nothing is done in that name, unless two accounts have the
\* id: the tokens issued before are neither revoked nor renewed, as long as no
\* other service can.
DisabledFadesOut ==
  NodeApart => \A a \in admitted : a.fault = "overdue" => idOf[a.sub] \in SharedIds

-----------------------------------------------------------------------------
(* The inductive invariant                                                 *)

\* A token that names the role belongs to a name that has it, or goes back to a
\* session that was created with it.
RolesTrue == \A k \in Issued : HasRole(k) => token[k].sub \in Admins \/ granted[k] = "admin"

\* A request has an issued token, of a logout answered there before if it is
\* late, and is answered when the token is in the blacklist of the service.
RequestsOK ==
  \A t \in Threads :
    /\ pc[t] # "idle" => held[t] \in Issued /\ at[t] \in Python
    /\ pc[t] \in {"route", "lookup"} => at[t] = "flask"
    /\ t \in late => pc[t] # "idle" /\ held[t] \in loggedOut[at[t]]
    /\ pc[t] = "answer" => held[t] \in blacklist[at[t]]

\* A token only the Node service can have signed belongs to an account and, if
\* that alone has its id, was issued before the deactivation.
TokensFade ==
  NodeApart =>
    \A k \in Issued :
      Signed("node", k) =>
        /\ idOf[token[k].sub] \in UserIds
        /\ token[k].exp <= clock + Life
        /\ \A i \in UserIds \ SharedIds :
             idOf[token[k].sub] = i /\ disabledAt[i] # None => token[k].exp <= disabledAt[i] + Life

\* Deactivated ids are ids of accounts, inactive unless they share it.
DisabledStay ==
  \A i \in UserIds :
    disabledAt[i] # None =>
      /\ \E n \in Names : idOf[n] = i
      /\ i \notin SharedIds => \A n \in active : idOf[n] # i

IInv ==
  /\ TypeOK /\ RolesTrue /\ RequestsOK /\ TokensFade /\ DisabledStay
  /\ LogoutEnforced /\ RolesTraced /\ DisabledFadesOut

=============================================================================
