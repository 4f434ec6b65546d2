---------------------------- MODULE SessionGateway ----------------------------
(***************************************************************************)
(* The session endpoints of src/microservices/auth: create, refresh and    *)
(* terminate, as Flask threads interleave between their accesses to        *)
(* UserSession._store and to the fields of the session objects.            *)
(*                                                                         *)
(* A refresh token also names the exchange that issued it, the access      *)
(* token of that exchange included.                                        *)
(***************************************************************************)
EXTENDS Integers, FiniteSets

CONSTANTS
    Threads,       \* request threads
    MaxSessions,   \* bound on the sessions created
    Tokens,        \* refresh tokens that will be issued; bounds the exchanges
    None,          \* no token
    RefreshLife,   \* JWT_REFRESH_TOKEN_EXPIRES_DAYS
    SessionLife,   \* the 7 days of create_session
    MaxClock       \* bound on the clock

ASSUME GatewayAssumption ==
    /\ MaxSessions \in Nat /\ None \notin Tokens
    /\ RefreshLife \in Nat /\ SessionLife \in Nat /\ MaxClock \in Nat

VARIABLES
    clock,
    created,       \* _store holds the sessions 1 .. created, in this order
    active,        \* is_active of each session
    expires,       \* expires_at of each session
    access,        \* access_token of each session
    refresh,       \* refresh_token of each session
    exp,           \* exp claim of each refresh token, 0 before it is issued
    pc,            \* where each refresh request stands
    tok,           \* the refresh token it presents
    size, pos,     \* its iteration over _store
    new,           \* the refresh token it will answer
    owner,         \* history: the session a token was issued for
    parent,        \* history: the token it was exchanged for
    told,          \* history: tokens answered to a client
    spent,         \* history: tokens an exchange has replaced
    void,          \* history: the request came when its session was
                   \* terminated or its token replaced
    overlapped     \* history: sessions two refreshes were served on at once

session == <<created, active, expires, access, refresh>>
local == <<tok, size, pos, new>>
history == <<owner, parent, told, spent, void, overlapped>>
vars == <<clock, session, exp, pc, local, history>>

Sessions == 1 .. MaxSessions
Answered == {"idle", "ok", "expired", "notfound", "refused", "failed"}
InFlight == {"validate", "scan", "inspect", "check", "issue", "rotate", "answer"}

Unissued == {k \in Tokens : exp[k] = 0}
ServedOn(s) == {t \in Threads : pc[t] \in InFlight /\ owner[tok[t]] = s}

Init ==
    /\ clock = 1
    /\ created = 0
    /\ active = [s \in Sessions |-> FALSE]
    /\ expires = [s \in Sessions |-> 0]
    /\ access = [s \in Sessions |-> None]
    /\ refresh = [s \in Sessions |-> None]
    /\ exp = [k \in Tokens |-> 0]
    /\ pc = [t \in Threads |-> "idle"]
    /\ tok = [t \in Threads |-> None]
    /\ size = [t \in Threads |-> 0]
    /\ pos = [t \in Threads |-> 0]
    /\ new = [t \in Threads |-> None]
    /\ owner = [k \in Tokens |-> 0]
    /\ parent = [k \in Tokens |-> None]
    /\ told = {}
    /\ spent = {}
    /\ void = [t \in Threads |-> FALSE]
    /\ overlapped = {}

Tick ==
    /\ clock < MaxClock
    /\ clock' = clock + 1
    /\ UNCHANGED <<session, exp, pc, local, history>>

\* generate_refresh_token
Issue(k, s, old) ==
    /\ k \in Unissued
    /\ exp' = [exp EXCEPT ![k] = clock + RefreshLife]
    /\ owner' = [owner EXCEPT ![k] = s]
    /\ parent' = [parent EXCEPT ![k] = old]

Goto(t, to) == pc' = [pc EXCEPT ![t] = to]

\* The request is answered, with 200 or one of the errors.
Return(t, to) ==
    /\ Goto(t, to)
    /\ size' = [size EXCEPT ![t] = 0]
    /\ pos' = [pos EXCEPT ![t] = 0]
    /\ new' = [new EXCEPT ![t] = None]

\* get_by_refresh_token: session.refresh_token == refresh_token and session.is_active
MatchesUser(s, k) == owner[k] = s /\ active[s]
Matches(s, k) == refresh[s] = k /\ active[s]

\* What update_tokens leaves in refresh_token.
RotatedKept(t) == refresh
RotatedCleared(t) == [refresh EXCEPT ![pos[t]] = None]
Rotated(t) == [refresh EXCEPT ![pos[t]] = new[t]]

\* The iteration is over, with no match.
ExhaustedEarly(t) == pos[t] >= size[t]
Exhausted(t) == pos[t] > size[t]

-----------------------------------------------------------------------------
(* POST /sessions/create and /sessions/terminate *)

\* One assignment puts the finished object into the store; then the answer.
Create(k) ==
    /\ created < MaxSessions
    /\ LET s == created + 1
       IN  /\ Issue(k, s, None)
           /\ created' = s
           /\ active' = [active EXCEPT ![s] = TRUE]
           /\ expires' = [expires EXCEPT ![s] = clock + SessionLife]
           /\ access' = [access EXCEPT ![s] = k]
           /\ refresh' = [refresh EXCEPT ![s] = k]
    /\ told' = told \union {k}
    /\ UNCHANGED <<clock, pc, local, spent, void, overlapped>>

\* Sessions are never removed, so lookup and assignment are one step.
Terminate(s) ==
    /\ s \in 1 .. created
    /\ active' = [active EXCEPT ![s] = FALSE]
    /\ UNCHANGED <<clock, created, expires, access, refresh, exp, pc, local, history>>

-----------------------------------------------------------------------------
(* POST /sessions/refresh *)

Start(t, k) ==
    /\ pc[t] \in Answered
    /\ k \in told
    /\ tok' = [tok EXCEPT ![t] = k]
    /\ void' = [void EXCEPT ![t] = ~active[owner[k]] \/ k \in spent]
    /\ overlapped' = IF ServedOn(owner[k]) # {} THEN overlapped \union {owner[k]}
                                                ELSE overlapped
    /\ Goto(t, "validate")
    /\ UNCHANGED <<clock, session, exp, size, pos, new, owner, parent, told, spent>>

\* validate_token: 401 for a token from its exp on.
Validate(t) ==
    /\ pc[t] = "validate"
    /\ Goto(t, IF clock >= exp[tok[t]] THEN "expired" ELSE "scan")
    /\ UNCHANGED <<clock, session, exp, local, history>>

\* get_by_refresh_token begins to iterate over the values of _store.
ScanBegin(t) ==
    /\ pc[t] = "scan"
    /\ size' = [size EXCEPT ![t] = created]
    /\ pos' = [pos EXCEPT ![t] = 1]
    /\ Goto(t, "inspect")
    /\ UNCHANGED <<clock, session, exp, tok, new, history>>

\* One turn of the loop.  A session created meanwhile changes the size of the
\* dict: RuntimeError, a 500.  Then 404, a match, or the next turn.
Inspect(t) ==
    /\ pc[t] = "inspect"
    /\ \/ created # size[t] /\ Return(t, "failed")
       \/ created = size[t] /\ Exhausted(t) /\ Return(t, "notfound")
       \/ /\ created = size[t] /\ ~Exhausted(t)
          /\ IF Matches(pos[t], tok[t])
             THEN Goto(t, "check") /\ UNCHANGED pos
             ELSE pos' = [pos EXCEPT ![t] = @ + 1] /\ UNCHANGED pc
          /\ UNCHANGED <<size, new>>
    /\ UNCHANGED <<clock, session, exp, tok, history>>

\* if not session.is_active or session.is_expired(): 401
Check(t) ==
    /\ pc[t] = "check"
    /\ IF ~active[pos[t]] \/ clock > expires[pos[t]]
       THEN Return(t, "refused")
       ELSE Goto(t, "issue") /\ UNCHANGED <<size, pos, new>>
    /\ UNCHANGED <<clock, session, exp, tok, history>>

\* renew_token, generate_refresh_token and the first assignment of
\* update_tokens; nothing looks at the session's state again.
IssueTokens(t, k) ==
    /\ pc[t] = "issue"
    /\ Issue(k, pos[t], tok[t])
    /\ new' = [new EXCEPT ![t] = k]
    /\ access' = [access EXCEPT ![pos[t]] = k]
    /\ Goto(t, "rotate")
    /\ UNCHANGED <<clock, created, active, expires, refresh, tok, size, pos,
                   told, spent, void, overlapped>>

\* ... and the second one.
Rotate(t) ==
    /\ pc[t] = "rotate"
    /\ refresh' = Rotated(t)
    /\ spent' = spent \union {tok[t]}
    /\ Goto(t, "answer")
    /\ UNCHANGED <<clock, created, active, expires, access, exp, local,
                   owner, parent, told, void, overlapped>>

Answer(t) ==
    /\ pc[t] = "answer"
    /\ told' = told \union {new[t]}
    /\ Return(t, "ok")
    /\ UNCHANGED <<clock, session, exp, tok, owner, parent, spent, void, overlapped>>

Refresh(t) ==
    \/ \E k \in Tokens : Start(t, k) \/ IssueTokens(t, k)
    \/ Validate(t) \/ ScanBegin(t) \/ Inspect(t) \/ Check(t) \/ Rotate(t) \/ Answer(t)

Next ==
    \/ Tick
    \/ \E k \in Tokens : Create(k)
    \/ \E s \in Sessions : Terminate(s)
    \/ \E t \in Threads : Refresh(t)

Spec == Init /\ [][Next]_vars

-----------------------------------------------------------------------------
(* Properties *)

\* Every variable keeps its type, a stored session has its tokens, and a refresh
\* past the loop has a session.
TypeOK ==
    /\ clock \in Nat \ {0}
    /\ created \in 0 .. MaxSessions
    /\ active \in [Sessions -> BOOLEAN]
    /\ expires \in [Sessions -> Nat]
    /\ access \in [Sessions -> Tokens \union {None}]
    /\ refresh \in [Sessions -> Tokens \union {None}]
    /\ exp \in [Tokens -> Nat]
    /\ pc \in [Threads -> Answered \union InFlight]
    /\ tok \in [Threads -> Tokens \union {None}]
    /\ size \in [Threads -> 0 .. MaxSessions]
    /\ pos \in [Threads -> 0 .. MaxSessions + 1]
    /\ new \in [Threads -> Tokens \union {None}]
    /\ owner \in [Tokens -> 0 .. MaxSessions]
    /\ parent \in [Tokens -> Tokens \union {None}]
    /\ told \subseteq Tokens
    /\ spent \subseteq Tokens
    /\ void \in [Threads -> BOOLEAN]
    /\ overlapped \subseteq Sessions
    /\ \A s \in 1 .. created : {access[s], refresh[s]} \subseteq Tokens \ Unissued
    /\ \A t \in Threads : pc[t] \in {"check", "issue", "rotate"} => pos[t] \in 1 .. created

\* A refresh requested after its session was terminated, or with a token that
\* was exchanged before, never goes through.
VoidRefreshRefused ==
    \A t \in Threads :
        void[t] => pc[t] \notin {"issue", "rotate", "answer", "ok"}

\* A token buys two new ones only if two refreshes of the session overlapped.
DoubleExchangeNeedsOverlap ==
    \A j, k \in told :
        j # k /\ parent[j] = parent[k] /\ parent[j] # None => owner[j] \in overlapped

\* The token a client was answered last is the one the session knows, so its
\* next refresh will find the session, unless refreshes overlapped.
AnsweredTokenIsCurrent ==
    \A k \in told \ spent : refresh[owner[k]] = k \/ owner[k] \in overlapped

\* A refresh with a live token of a session that stays active is not told that
\* the session does not exist, however the loop over the store interleaves with
\* other requests, unless refreshes of that session overlapped.
NotFoundHasReason ==
    \A t \in Threads :
        pc[t] = "notfound" =>
            void[t] \/ ~active[owner[tok[t]]] \/ owner[tok[t]] \in overlapped

\* Between refreshes a session's two tokens are of one exchange.
TokensPaired ==
    \A s \in Sessions \ overlapped :
        access[s] = refresh[s] \/ \E t \in ServedOn(s) : pc[t] = "rotate"

\* Session expires when the refresh token expires (api_gateway.py:95): an active
\* session is not refused as expired to a client whose token is still valid.
SessionExpiresWithToken ==
    \A t \in Threads :
        pc[t] = "refused" /\ active[owner[tok[t]]] => clock >= exp[tok[t]]

-----------------------------------------------------------------------------
(* The inductive invariant *)

Issued == Tokens \ Unissued

\* A token belongs to a session that was created, a session that was not has
\* nothing, and one that was has a refresh token of its own, not yet exchanged.
TokensOwned ==
    /\ spent \subseteq told /\ told \subseteq Issued
    /\ \A k \in Issued : owner[k] \in 1 .. created
    /\ \A s \in Sessions \ (1 .. created) : ~active[s] /\ access[s] = None /\ refresh[s] = None
    /\ \A s \in 1 .. created : owner[refresh[s]] = s /\ refresh[s] \notin spent

\* A token whose exchange has begun is replaced, or about to be.
ExchangesEnd ==
    \A k \in Issued :
        parent[k] # None =>
            /\ parent[k] \in Issued /\ owner[parent[k]] = owner[k]
            /\ parent[k] \in spent \/ \E t \in Threads : pc[t] = "rotate" /\ tok[t] = parent[k]

\* DoubleExchangeNeedsOverlap, of the tokens that are not answered yet as well.
TwinsNeedOverlap ==
    \A j, k \in Issued :
        j # k /\ parent[j] = parent[k] /\ parent[j] # None => owner[j] \in overlapped

\* What a request knows of its token and of its session.
RequestsSound ==
    \A t \in Threads :
        /\ pc[t] # "idle" => tok[t] \in told
        /\ pc[t] = "inspect" => pos[t] >= 1
        /\ pc[t] \in {"check", "issue", "rotate", "answer"} => pos[t] = owner[tok[t]]
        /\ pc[t] \in {"check", "issue", "rotate", "answer", "ok"} => ~void[t]
        /\ void[t] /\ pc[t] \in InFlight => ~active[owner[tok[t]]] \/ tok[t] \in spent

\* A token not yet answered is known to the request that issued it only.
FreshApart ==
    \A t \in Threads :
        pc[t] \in {"rotate", "answer"} =>
            /\ new[t] \in Issued \ told /\ owner[new[t]] = owner[tok[t]]
            /\ \A u \in Threads : u # t /\ pc[u] \in {"rotate", "answer"} => new[u] # new[t]

OverlapsRecorded ==
    \A t, u \in Threads :
        t # u /\ pc[t] \in InFlight /\ pc[u] \in InFlight /\ owner[tok[t]] = owner[tok[u]] =>
            owner[tok[t]] \in overlapped

\* What a request that is alone on its session may rely on between its steps.
AloneUndisturbed ==
    \A t \in Threads :
        pc[t] \in InFlight /\ owner[tok[t]] \notin overlapped =>
            /\ pc[t] # "answer" /\ ~void[t] => tok[t] \notin spent
            /\ pc[t] = "inspect" /\ ~void[t] /\ active[owner[tok[t]]] => pos[t] <= owner[tok[t]]
            /\ pc[t] = "rotate" => access[pos[t]] = new[t]
            /\ pc[t] = "answer" => refresh[pos[t]] = new[t]

IInv ==
    /\ TypeOK /\ TokensOwned /\ ExchangesEnd /\ TwinsNeedOverlap
    /\ RequestsSound /\ FreshApart /\ OverlapsRecorded /\ AloneUndisturbed
    /\ AnsweredTokenIsCurrent /\ NotFoundHasReason /\ TokensPaired
==============================================================================
