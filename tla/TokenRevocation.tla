--------------------------- MODULE TokenRevocation ---------------------------
(***************************************************************************)
(* Login, the jwt_required guard and logout of the Flask authentication    *)
(* service (services/authentication), down to the single accesses of the   *)
(* token blacklist, so that requests served by several threads and worker  *)
(* processes interleave where the code lets them.                          *)
(*                                                                         *)
(* Time is counted in ticks, TPS of them to a second: time.time() and the  *)
(* expiry check of PyJWT read fractions of a second, while the exp claim   *)
(* and the time-to-live of a Redis key are whole seconds.                  *)
(***************************************************************************)
EXTENDS Integers, FiniteSets

CONSTANTS
    Workers,       \* worker processes of the service
    Threads,       \* request threads
    WorkerOf,      \* the process each thread belongs to
    Jtis,          \* jti claims uuid4 will have produced; bounds the logins
    Backends,      \* the values TOKEN_BLACKLIST_BACKEND may have at start-up
    Redis,         \* the Redis server, as a store beside the workers' dicts
    TPS,           \* ticks per second
    Lifetime,      \* JWT_ACCESS_TOKEN_EXPIRES, in ticks
    MaxClock       \* bound on the clock

Stores == Workers \union {Redis}
Absent == -1       \* no entry in a store; no exp claim issued yet

ASSUME RevocationAssumption ==
    /\ Workers # {} /\ Redis \notin Workers
    /\ WorkerOf \in [Threads -> Workers]
    /\ Backends \subseteq {"memory", "redis"}
    /\ TPS \in Nat \ {0} /\ Lifetime \in Nat /\ MaxClock \in Nat

VARIABLES
    backend,       \* the backend build_blacklist chose
    clock,         \* time.time(), in ticks
    exp,           \* exp claim of each issued token, Absent before login
    store,         \* store[s][j]: expires_at in a dict, expiry of a Redis key
    pc,            \* where each request thread stands
    jti,           \* the token of the thread's current request
    seen,          \* the local expires_at of is_blacklisted, or the local ttl
    sweep,         \* a purge_expired call in progress on each worker's dict
    loggedOut,     \* history: tokens whose logout a store has recorded and
                   \* whose 200 answer has been sent
    late           \* history: the thread's request came after such an answer

vars == <<backend, clock, exp, store, pc, jti, seen, sweep, loggedOut, late>>

Answered == {"idle", "ok", "expired", "revoked", "failed"}
InFlight == {"decode", "lookup", "age", "drop", "handler", "setex"}

StoreOf(t) == IF backend = "redis" THEN Redis ELSE WorkerOf[t]
Issued == {j \in Jtis : exp[j] # Absent}
Listed(s) == {j \in Jtis : store[s][j] # Absent}
NoSweep == [phase |-> "off", now |-> 0, listed |-> {}, expired |-> {}]
Sweeps == [phase : {"off", "scan", "delete", "failed"}, now : Nat,
           listed : SUBSET Jtis, expired : SUBSET Jtis]

\* Seconds are what the exp claim and a Redis time-to-live keep of a time.
WholeSeconds(n) == (n \div TPS) * TPS

Init ==
    /\ backend \in Backends
    /\ clock = 0
    /\ exp = [j \in Jtis |-> Absent]
    /\ store = [s \in Stores |-> [j \in Jtis |-> Absent]]
    /\ pc = [t \in Threads |-> "idle"]
    /\ jti \in [Threads -> Jtis]
    /\ seen = [t \in Threads |-> Absent]
    /\ sweep = [w \in Workers |-> NoSweep]
    /\ loggedOut = [s \in Stores |-> {}]
    /\ late = [t \in Threads |-> FALSE]

\* The comparison both is_blacklisted and purge_expired make.
PastExpiryFromEqual(now, expires_at) == now >= expires_at
PastExpiryWithLeeway(now, expires_at) == now + TPS > expires_at
PastExpiry(now, expires_at) == now > expires_at

\* ttl = max(1, int(expires_at - time.time()))
TimeToLiveUnclamped(left) == WholeSeconds(left)
TimeToLiveFixed(left) == TPS
TimeToLive(left) == IF left < TPS THEN TPS ELSE WholeSeconds(left)

Goto(t, to) == pc' = [pc EXCEPT ![t] = to]

Tick ==
    /\ clock < MaxClock
    /\ clock' = clock + 1
    /\ UNCHANGED <<backend, exp, store, pc, jti, seen, sweep, loggedOut, late>>

-----------------------------------------------------------------------------
(* Requests *)

\* generate_jwt_token: PyJWT writes exp as the whole seconds of now + lifetime.
Login(t, j) ==
    /\ pc[t] \in Answered
    /\ exp[j] = Absent
    /\ exp' = [exp EXCEPT ![j] = WholeSeconds(clock + Lifetime)]
    /\ Goto(t, "idle")
    /\ UNCHANGED <<backend, clock, store, jti, seen, sweep, loggedOut, late>>

\* POST /auth/logout with a token that was issued.
Arrive(t, j) ==
    /\ pc[t] \in Answered
    /\ j \in Issued
    /\ jti' = [jti EXCEPT ![t] = j]
    /\ late' = [late EXCEPT ![t] = j \in loggedOut[StoreOf(t)]]
    /\ Goto(t, "decode")
    /\ UNCHANGED <<backend, clock, exp, store, seen, sweep, loggedOut>>

\* _decode_jwt_token: PyJWT refuses a token from the instant exp on.
Decode(t) ==
    /\ pc[t] = "decode"
    /\ Goto(t, IF clock >= exp[jti[t]] THEN "expired" ELSE "lookup")
    /\ UNCHANGED <<backend, clock, exp, store, jti, seen, sweep, loggedOut, late>>

\* InMemoryTokenBlacklist.is_blacklisted: self._store.get(jti).
LookupMemory(t) ==
    /\ pc[t] = "lookup" /\ backend = "memory"
    /\ seen' = [seen EXCEPT ![t] = store[StoreOf(t)][jti[t]]]
    /\ Goto(t, IF jti[t] \in Listed(StoreOf(t)) THEN "age" ELSE "handler")
    /\ UNCHANGED <<backend, clock, exp, store, jti, sweep, loggedOut, late>>

\* ... time.time() > expires_at, read after the entry was.
Age(t) ==
    /\ pc[t] = "age"
    /\ Goto(t, IF PastExpiry(clock, seen[t]) THEN "drop" ELSE "revoked")
    /\ seen' = [seen EXCEPT ![t] = Absent]
    /\ UNCHANGED <<backend, clock, exp, store, jti, sweep, loggedOut, late>>

\* ... del self._store[jti], a KeyError when another thread deleted it.
Drop(t) ==
    /\ pc[t] = "drop"
    /\ IF jti[t] \in Listed(StoreOf(t))
       THEN /\ store' = [store EXCEPT ![StoreOf(t)][jti[t]] = Absent]
            /\ Goto(t, "handler")
       ELSE Goto(t, "failed") /\ UNCHANGED store
    /\ UNCHANGED <<backend, clock, exp, jti, seen, sweep, loggedOut, late>>

\* RedisTokenBlacklist.is_blacklisted: EXISTS, one command on the server,
\* to which a key past its time-to-live is gone.
LookupRedis(t) ==
    /\ pc[t] = "lookup" /\ backend = "redis"
    /\ Goto(t, IF clock <= store[Redis][jti[t]] THEN "revoked" ELSE "handler")
    /\ UNCHANGED <<backend, clock, exp, store, jti, seen, sweep, loggedOut, late>>

\* logout with the memory backend: one dict assignment, then the 200 answer.
RevokeMemory(t) ==
    /\ pc[t] = "handler" /\ backend = "memory"
    /\ store' = [store EXCEPT ![StoreOf(t)][jti[t]] = exp[jti[t]]]
    /\ loggedOut' = [loggedOut EXCEPT ![StoreOf(t)] = @ \union {jti[t]}]
    /\ Goto(t, "ok")
    /\ UNCHANGED <<backend, clock, exp, jti, seen, sweep, late>>

\* logout with the Redis backend: the ttl is computed here ...
Ttl(t) ==
    /\ pc[t] = "handler" /\ backend = "redis"
    /\ seen' = [seen EXCEPT ![t] = TimeToLive(exp[jti[t]] - clock)]
    /\ Goto(t, "setex")
    /\ UNCHANGED <<backend, clock, exp, store, jti, sweep, loggedOut, late>>

\* ... and counts from when the server executes SETEX.
Setex(t) ==
    /\ pc[t] = "setex"
    /\ store' = [store EXCEPT ![Redis][jti[t]] = clock + seen[t]]
    /\ seen' = [seen EXCEPT ![t] = Absent]
    /\ loggedOut' = [loggedOut EXCEPT ![Redis] = @ \union {jti[t]}]
    /\ Goto(t, "ok")
    /\ UNCHANGED <<backend, clock, exp, jti, sweep, late>>

-----------------------------------------------------------------------------
(* Housekeeping and crashes *)

\* purge_expired reads the clock and begins to iterate over the dict.
SweepBegin(w) ==
    /\ backend = "memory" /\ sweep[w].phase \in {"off", "failed"}
    /\ sweep' = [sweep EXCEPT ![w] = [phase |-> "scan", now |-> clock,
                                      listed |-> Listed(w), expired |-> {}]]
    /\ UNCHANGED <<backend, clock, exp, store, pc, jti, seen, loggedOut, late>>

\* Python refuses to go on iterating over a dict whose size has changed.
SweepScan(w) ==
    /\ sweep[w].phase = "scan"
    /\ sweep' =
         IF Cardinality(Listed(w)) # Cardinality(sweep[w].listed)
         THEN [sweep EXCEPT ![w].phase = "failed"]
         ELSE [sweep EXCEPT ![w].phase = "delete",
                 ![w].expired = {j \in Listed(w) : PastExpiry(sweep[w].now, store[w][j])}]
    /\ UNCHANGED <<backend, clock, exp, store, pc, jti, seen, loggedOut, late>>

\* One del of the second loop, a KeyError when the entry is gone.
SweepDelete(w) ==
    /\ sweep[w].phase = "delete"
    /\ \E j \in sweep[w].expired :
         IF j \in Listed(w)
         THEN /\ store' = [store EXCEPT ![w][j] = Absent]
              /\ sweep' = [sweep EXCEPT ![w].expired = @ \ {j}]
         ELSE sweep' = [sweep EXCEPT ![w].phase = "failed"] /\ UNCHANGED store
    /\ UNCHANGED <<backend, clock, exp, pc, jti, seen, loggedOut, late>>

SweepEnd(w) ==
    /\ sweep[w].phase = "delete" /\ sweep[w].expired = {}
    /\ sweep' = [sweep EXCEPT ![w] = NoSweep]
    /\ UNCHANGED <<backend, clock, exp, store, pc, jti, seen, loggedOut, late>>

\* A worker dies and is started again: its requests and its dict are gone,
\* and what it had recorded of logouts with them; Redis keeps its keys.
Restart(w) ==
    /\ pc' = [t \in Threads |-> IF WorkerOf[t] = w THEN "idle" ELSE pc[t]]
    /\ late' = [t \in Threads |-> IF WorkerOf[t] = w THEN FALSE ELSE late[t]]
    /\ seen' = [t \in Threads |-> IF WorkerOf[t] = w THEN Absent ELSE seen[t]]
    /\ store' = [store EXCEPT ![w] = [j \in Jtis |-> Absent]]
    /\ loggedOut' = [loggedOut EXCEPT ![w] = {}]
    /\ sweep' = [sweep EXCEPT ![w] = NoSweep]
    /\ UNCHANGED <<backend, clock, exp, jti>>

Request(t) ==
    \/ \E j \in Jtis : Login(t, j) \/ Arrive(t, j)
    \/ Decode(t)
    \/ LookupMemory(t) \/ Age(t) \/ Drop(t)
    \/ LookupRedis(t)
    \/ RevokeMemory(t)
    \/ Ttl(t) \/ Setex(t)

Maintenance(w) ==
    \/ SweepBegin(w) \/ SweepScan(w) \/ SweepDelete(w) \/ SweepEnd(w)
    \/ Restart(w)

Next == Tick \/ (\E t \in Threads : Request(t)) \/ (\E w \in Workers : Maintenance(w))

Spec == Init /\ [][Next]_vars

-----------------------------------------------------------------------------
(* Properties *)

\* Every variable keeps its type, and Redis gets a positive time-to-live (SETEX
\* refuses any other).
TypeOK ==
    /\ backend \in Backends
    /\ clock \in Nat
    /\ exp \in [Jtis -> Nat \union {Absent}]
    /\ store \in [Stores -> [Jtis -> Int]]
    /\ pc \in [Threads -> Answered \union InFlight]
    /\ jti \in [Threads -> Jtis]
    /\ seen \in [Threads -> Int]
    /\ sweep \in [Workers -> Sweeps]
    /\ loggedOut \in [Stores -> SUBSET Jtis]
    /\ late \in [Threads -> BOOLEAN]
    /\ \A t \in Threads : pc[t] = "setex" => seen[t] > 0

\* Past the guard of jwt_required: the route handler runs or has answered 200.
Accepted(t) == pc[t] \in {"handler", "setex", "ok"}

\* A worker's dict holds a logged-out token, under its own expiry, at least
\* until that expiry: neither is_blacklisted nor purge_expired, run by other
\* threads at any moment, takes out an entry that still matters.
RevokedStaysListed ==
    backend = "memory" =>
        \A w \in Workers : \A j \in loggedOut[w] :
            clock <= exp[j] => store[w][j] = exp[j]

\* A request that came after the logout of its token was answered gets past
\* the guard only once the token has expired (memory backend, same process).
LateAcceptOnlyExpired ==
    backend = "memory" =>
        \A t \in Threads : late[t] /\ Accepted(t) => clock > exp[jti[t]]

\* With Redis the window is wider: ttl drops the fraction of a second, so the
\* key can be gone in the last second of the token's life, and no earlier.
LateAcceptOnlyLastSecond ==
    backend = "redis" =>
        \A t \in Threads : late[t] /\ Accepted(t) => clock > exp[jti[t]] - TPS

\* The KeyError of is_blacklisted meets only requests whose token expired
\* between decoding and the check: a live token never gets a 500 answer.
FailedOnlyExpired ==
    \A t \in Threads : pc[t] = "failed" => clock > exp[jti[t]]

-----------------------------------------------------------------------------
(* The inductive invariant behind the three properties of the memory backend *)

\* A thread that has left "idle" serves an issued token, and entries and
\* recorded logouts are of issued tokens.
OnlyIssued ==
    /\ \A t \in Threads : pc[t] # "idle" => jti[t] \in Issued
    /\ \A s \in Stores : loggedOut[s] \subseteq Issued

\* The steps only one of the backends takes.
BackendSteps ==
    /\ \A t \in Threads : pc[t] \in {"age", "drop"} => backend = "memory"
    /\ \A t \in Threads : pc[t] = "setex" => backend = "redis"

\* What a worker's dict holds for a token is its expiry, and a thread that
\* read it still has that expiry in its local variable.
EntriesAreExpiries ==
    /\ \A w \in Workers : \A j \in Listed(w) : store[w][j] = exp[j]
    /\ \A t \in Threads : pc[t] = "age" => seen[t] = exp[jti[t]]

\* A thread or a sweep about to delete an entry has seen it expire.
DeletesOnlyExpired ==
    /\ \A t \in Threads : pc[t] \in {"drop", "failed"} => clock > exp[jti[t]]
    /\ \A w \in Workers :
          /\ sweep[w].now <= clock
          /\ \A j \in sweep[w].expired : j \in Issued /\ clock > exp[j]

\* A late request is one of a token its store has on record as logged out.
LateIsLoggedOut ==
    \A t \in Threads : late[t] /\ pc[t] # "idle" => jti[t] \in loggedOut[StoreOf(t)]

IInv ==
    /\ TypeOK
    /\ OnlyIssued
    /\ BackendSteps
    /\ EntriesAreExpiries
    /\ DeletesOnlyExpired
    /\ LateIsLoggedOut
    /\ RevokedStaysListed
    /\ LateAcceptOnlyExpired

\* What Redis keeps of a logout: a key that lasts into the last second of the
\* token's life, and a computed ttl that is not yet too short to set one.
KeyLastsLongEnough ==
    backend = "redis" =>
        /\ \A j \in loggedOut[Redis] : store[Redis][j] > exp[j] - TPS
        /\ \A t \in Threads :
              pc[t] = "setex" => clock + seen[t] > exp[jti[t]] - TPS

RedisInv == IInv /\ KeyLastsLongEnough /\ LateAcceptOnlyLastSecond
==============================================================================
