----------------------------- MODULE UserAccounts -----------------------------
(***************************************************************************)
(* User accounts of services/authentication: register, authenticate,       *)
(* update_user (deactivate is one) and deleteUser, as the threads that     *)
(* call UserAuthService interleave between their accesses to _user_store   *)
(* and to the account dicts.                                               *)
(*                                                                         *)
(* A call of _hash_password that draws a salt is a member h of Hashes: h   *)
(* stands for the salt it drew and for the hash it returned, word[h] is    *)
(* the password.  Hashing word w with the salt of h gives h's hash exactly *)
(* when w = word[h].                                                       *)
(***************************************************************************)
EXTENDS Integers, FiniteSets

CONSTANTS
    Threads,       \* threads that call the service
    Names,         \* user names
    Passwords,
    None,          \* no password, no hash
    MaxAccounts,   \* bound on the accounts registered
    Hashes         \* salted hashes that will be made; bounds password changes

ASSUME AccountsAssumption ==
    /\ MaxAccounts \in Nat
    /\ None \notin Passwords /\ None \notin Hashes

VARIABLES
    created,       \* the account dicts made so far are 1 .. created
    stored,        \* _user_store: the account of each name, 0 for none
    username,      \* the fields of each account ...
    active,        \* ... is_active
    hash,          \* ... password_hash
    salt,          \* ... password_salt
    word,          \* the password behind each hash, None before it is made
    pc,            \* where each thread stands
    name,          \* the arguments of its call: username ...
    pass,          \* ... password, None when an update leaves it
    flag,          \* ... is_active: "on", "off", or "keep"
    user,          \* the account dict the thread looked up, 0 for none
    check,         \* the one verifyPassword looked up
    fresh,         \* the hash it made, or the salt it read
    overlapped,    \* history: names each operation was served on twice at once
    removed,       \* history: accounts a deletion has taken out
    shut,          \* history: names whose account was last seen deactivated
    moved          \* history: the thread's name was registered or deleted, or
                   \* its password written, during the call

account == <<created, stored, username, active, hash, salt, word>>
local == <<pass, flag, user, check, fresh>>
history == <<overlapped, removed, shut, moved>>
vars == <<account, pc, name, local, history>>

Accounts == 1 .. MaxAccounts
Answered == {"idle", "ok", "refused", "notfound", "failed"}
RegisterSteps == {"exists", "store"}
LoginSteps == {"lookup", "relookup", "salt", "compare", "enabled"}
UpdateSteps == {"get", "flag", "sethash", "setsalt"}
DeleteSteps == {"present", "del"}
InFlight == RegisterSteps \union LoginSteps \union UpdateSteps \union DeleteSteps
HoldsUser == {"relookup", "salt", "compare", "enabled", "flag", "sethash", "setsalt"}

Unmade == {h \in Hashes : word[h] = None}
Busy(steps, n) == \E t \in Threads : pc[t] \in steps /\ name[t] = n

Init ==
    /\ created = 0
    /\ stored = [n \in Names |-> 0]
    /\ username \in [Accounts -> Names]
    /\ active = [a \in Accounts |-> FALSE]
    /\ hash = [a \in Accounts |-> None]
    /\ salt = [a \in Accounts |-> None]
    /\ word = [h \in Hashes |-> None]
    /\ pc = [t \in Threads |-> "idle"]
    /\ name \in [Threads -> Names]
    /\ pass = [t \in Threads |-> None]
    /\ flag = [t \in Threads |-> "keep"]
    /\ user = [t \in Threads |-> 0]
    /\ check = [t \in Threads |-> 0]
    /\ fresh = [t \in Threads |-> None]
    /\ overlapped = [op \in {"register", "update", "delete"} |-> {}]
    /\ removed = {}
    /\ shut = {}
    /\ moved = [t \in Threads |-> FALSE]

\* username in _user_store, as addUser and deleteUser ask.
TakenByActive(n) == stored[n] # 0 /\ active[stored[n]]
Taken(n) == stored[n] # 0
PresentOnce(n) == \E a \in 1 .. created : username[a] = n
Present(n) == stored[n] # 0

\* candidate == user["password_hash"]
MatchesSalt(t) == fresh[t] = salt[check[t]] /\ word[fresh[t]] = pass[t]
Matches(t) == fresh[t] = hash[check[t]] /\ word[fresh[t]] = pass[t]

\* What updateUser leaves in password_salt.
SaltKept(t) == salt
SaltWritten(t) == [salt EXCEPT ![user[t]] = fresh[t]]

Goto(t, to) == pc' = [pc EXCEPT ![t] = to]

\* The call is answered; its arguments (but the name) and locals are gone.
Return(t, to) ==
    /\ Goto(t, to)
    /\ pass' = [pass EXCEPT ![t] = None]
    /\ flag' = [flag EXCEPT ![t] = "keep"]
    /\ user' = [user EXCEPT ![t] = 0]
    /\ check' = [check EXCEPT ![t] = 0]
    /\ fresh' = [fresh EXCEPT ![t] = None]

\* _hash_password with a new salt.
Hash(h, w) == h \in Unmade /\ word' = [word EXCEPT ![h] = w]

\* The bounds: a call begins only if the accounts and hashes it may need, and
\* those of the calls in flight, are left.
WillHash(t) == pc[t] \in RegisterSteps \union {"get", "flag", "sethash"} /\ pass[t] # None
RoomForHash == Cardinality({t \in Threads : WillHash(t)}) < Cardinality(Unmade)
RoomForAccount ==
    created + Cardinality({t \in Threads : pc[t] \in RegisterSteps}) < MaxAccounts

Disturb(n) ==
    moved' = [t \in Threads |-> moved[t] \/ (pc[t] \in LoginSteps /\ name[t] = n)]

-----------------------------------------------------------------------------
(* A call of the service *)

Call(t, n, w, f, first) ==
    /\ pc[t] \in Answered
    /\ name' = [name EXCEPT ![t] = n]
    /\ pass' = [pass EXCEPT ![t] = w]
    /\ flag' = [flag EXCEPT ![t] = f]
    /\ Goto(t, first)
    /\ UNCHANGED <<account, user, check, fresh, removed, shut, moved>>

Record(op, steps, n) ==
    overlapped' = IF Busy(steps, n) THEN [overlapped EXCEPT ![op] = @ \union {n}]
                                    ELSE overlapped

Register(t, n, w) ==
    /\ RoomForAccount /\ RoomForHash
    /\ Call(t, n, w, "keep", "exists")
    /\ Record("register", RegisterSteps, n)

Authenticate(t, n, w) == Call(t, n, w, "keep", "lookup") /\ UNCHANGED overlapped

Update(t, n, w, f) ==
    /\ w # None => RoomForHash
    /\ Call(t, n, w, f, "get")
    /\ Record("update", UpdateSteps, n)

Delete(t, n) ==
    Call(t, n, None, "keep", "present") /\ Record("delete", DeleteSteps, n)

-----------------------------------------------------------------------------
(* register: addUser *)

\* if username in _user_store: ValueError; then the slow hash.
Exists(t) ==
    /\ pc[t] = "exists"
    /\ IF Taken(name[t]) THEN Return(t, "refused")
                        ELSE Goto(t, "store") /\ UNCHANGED local
    /\ UNCHANGED <<account, name, history>>

\* _user_store[username] = user, over whatever is there by now.
Store(t, h) ==
    /\ pc[t] = "store"
    /\ created < MaxAccounts
    /\ Hash(h, pass[t])
    /\ LET a == created + 1
       IN  /\ created' = a
           /\ stored' = [stored EXCEPT ![name[t]] = a]
           /\ username' = [username EXCEPT ![a] = name[t]]
           /\ active' = [active EXCEPT ![a] = TRUE]
           /\ hash' = [hash EXCEPT ![a] = h]
           /\ salt' = [salt EXCEPT ![a] = h]
    /\ Disturb(name[t])
    /\ Return(t, "ok")
    /\ UNCHANGED <<name, overlapped, removed, shut>>

-----------------------------------------------------------------------------
(* authenticate: getUser, verifyPassword, is_active *)

AnswerLogin(t, to) == Return(t, to) /\ moved' = [moved EXCEPT ![t] = FALSE]
LoginGoto(t, to) == Goto(t, to) /\ UNCHANGED <<pass, flag, moved>>

Lookup(t) ==
    /\ pc[t] = "lookup"
    /\ IF Present(name[t])
       THEN /\ user' = [user EXCEPT ![t] = stored[name[t]]]
            /\ LoginGoto(t, "relookup") /\ UNCHANGED <<check, fresh>>
       ELSE AnswerLogin(t, "refused")
    /\ UNCHANGED <<account, name, overlapped, removed, shut>>

\* verifyPassword looks the name up once more ...
Relookup(t) ==
    /\ pc[t] = "relookup"
    /\ IF Present(name[t])
       THEN /\ check' = [check EXCEPT ![t] = stored[name[t]]]
            /\ LoginGoto(t, "salt") /\ UNCHANGED <<user, fresh>>
       ELSE AnswerLogin(t, "refused")
    /\ UNCHANGED <<account, name, overlapped, removed, shut>>

\* ... reads the salt, hashes ...
ReadSalt(t) ==
    /\ pc[t] = "salt"
    /\ fresh' = [fresh EXCEPT ![t] = salt[check[t]]]
    /\ LoginGoto(t, "compare")
    /\ UNCHANGED <<account, name, user, check, overlapped, removed, shut>>

\* ... and compares with the hash the account has after that.
Compare(t) ==
    /\ pc[t] = "compare"
    /\ IF Matches(t)
       THEN LoginGoto(t, "enabled") /\ UNCHANGED <<user, check, fresh>>
       ELSE AnswerLogin(t, "refused")
    /\ UNCHANGED <<account, name, overlapped, removed, shut>>

\* user.get("is_active", True), of the account the first lookup found.
Enabled(t) ==
    /\ pc[t] = "enabled"
    /\ AnswerLogin(t, IF active[user[t]] THEN "ok" ELSE "refused")
    /\ UNCHANGED <<account, name, overlapped, removed, shut>>

-----------------------------------------------------------------------------
(* update_user *)

Get(t) ==
    /\ pc[t] = "get"
    /\ IF Present(name[t])
       THEN /\ user' = [user EXCEPT ![t] = stored[name[t]]]
            /\ Goto(t, "flag") /\ UNCHANGED <<pass, flag, check, fresh>>
       ELSE Return(t, "notfound")
    /\ UNCHANGED <<account, name, history>>

\* if is_active is not None: user["is_active"] = is_active
SetFlag(t) ==
    /\ pc[t] = "flag"
    /\ active' = IF flag[t] = "keep" THEN active
                                     ELSE [active EXCEPT ![user[t]] = flag[t] = "on"]
    /\ shut' = IF stored[name[t]] # user[t] \/ flag[t] = "keep" THEN shut
               ELSE IF flag[t] = "off" THEN shut \union {name[t]} ELSE shut \ {name[t]}
    /\ IF pass[t] = None
       THEN Return(t, "ok")
       ELSE Goto(t, "sethash") /\ UNCHANGED local
    /\ UNCHANGED <<created, stored, username, hash, salt, word, name,
                   overlapped, removed, moved>>

\* if password is not None: the slow hash, then one field ...
SetHash(t, h) ==
    /\ pc[t] = "sethash"
    /\ Hash(h, pass[t])
    /\ fresh' = [fresh EXCEPT ![t] = h]
    /\ hash' = [hash EXCEPT ![user[t]] = h]
    /\ Disturb(name[t])
    /\ Goto(t, "setsalt")
    /\ UNCHANGED <<created, stored, username, active, salt, name, pass, flag, user, check,
                   overlapped, removed, shut>>

\* ... and the other.
SetSalt(t) ==
    /\ pc[t] = "setsalt"
    /\ salt' = SaltWritten(t)
    /\ Disturb(name[t])
    /\ Return(t, "ok")
    /\ UNCHANGED <<created, stored, username, active, hash, word, name,
                   overlapped, removed, shut>>

-----------------------------------------------------------------------------
(* deleteUser *)

Find(t) ==
    /\ pc[t] = "present"
    /\ IF Present(name[t]) THEN Goto(t, "del") /\ UNCHANGED local
                          ELSE Return(t, "notfound")
    /\ UNCHANGED <<account, name, history>>

\* del _user_store[username], a KeyError when another thread deleted it.
Del(t) ==
    /\ pc[t] = "del"
    /\ IF stored[name[t]] # 0
       THEN /\ stored' = [stored EXCEPT ![name[t]] = 0]
            /\ removed' = removed \union {stored[name[t]]}
            /\ shut' = shut \ {name[t]}
            /\ Disturb(name[t])
            /\ Return(t, "ok")
       ELSE Return(t, "failed") /\ UNCHANGED <<stored, removed, shut, moved>>
    /\ UNCHANGED <<created, username, active, hash, salt, word, name, overlapped>>

-----------------------------------------------------------------------------

Begin(t) ==
    \E n \in Names :
        \/ \E w \in Passwords : Register(t, n, w) \/ Authenticate(t, n, w)
        \/ \E w \in Passwords \union {None}, f \in {"on", "off", "keep"} : Update(t, n, w, f)
        \/ Delete(t, n)

Serve(t) ==
    \/ Exists(t) \/ \E h \in Hashes : Store(t, h)
    \/ Lookup(t) \/ Relookup(t) \/ ReadSalt(t) \/ Compare(t) \/ Enabled(t)
    \/ Get(t) \/ SetFlag(t) \/ (\E h \in Hashes : SetHash(t, h)) \/ SetSalt(t)
    \/ Find(t) \/ Del(t)

Next == \E t \in Threads : Begin(t) \/ Serve(t)

Spec == Init /\ [][Next]_vars

-----------------------------------------------------------------------------
(* Properties *)

StoreWellFormed ==
    /\ \A n \in Names : stored[n] # 0 => stored[n] <= created /\ username[stored[n]] = n
    /\ \A a \in 1 .. created : hash[a] # None /\ salt[a] # None

AccountInHand ==
    \A t \in Threads :
        /\ pc[t] \in HoldsUser => user[t] \in 1 .. created
        /\ pc[t] \in {"salt", "compare"} => check[t] \in 1 .. created
        /\ pc[t] = "setsalt" => fresh[t] # None

\* Every variable keeps its type, what the store holds are finished accounts of
\* that name, and a thread past a lookup has an account in hand.
TypeOK ==
    /\ created \in 0 .. MaxAccounts
    /\ stored \in [Names -> 0 .. MaxAccounts]
    /\ username \in [Accounts -> Names]
    /\ active \in [Accounts -> BOOLEAN]
    /\ hash \in [Accounts -> Hashes \union {None}]
    /\ salt \in [Accounts -> Hashes \union {None}]
    /\ word \in [Hashes -> Passwords \union {None}]
    /\ pc \in [Threads -> Answered \union InFlight]
    /\ name \in [Threads -> Names]
    /\ pass \in [Threads -> Passwords \union {None}]
    /\ flag \in [Threads -> {"on", "off", "keep"}]
    /\ user \in [Threads -> 0 .. MaxAccounts]
    /\ check \in [Threads -> 0 .. MaxAccounts]
    /\ fresh \in [Threads -> Hashes \union {None}]
    /\ overlapped \in [{"register", "update", "delete"} -> SUBSET Names]
    /\ removed \subseteq Accounts
    /\ shut \subseteq Names
    /\ moved \in [Threads -> BOOLEAN]
    /\ StoreWellFormed
    /\ AccountInHand

\* An account's hash and salt are of one call of _hash_password, so that its
\* password opens it, unless an update is between its two writes or two updates
\* of the name overlapped.
CredentialsPaired ==
    \A a \in 1 .. created :
        \/ hash[a] = salt[a]
        \/ \E t \in Threads : pc[t] = "setsalt" /\ user[t] = a
        \/ username[a] \in overlapped["update"]

\* Every account a registration has answered is in the store until it is
\* deleted, unless two registrations of its name overlapped.
LostOnlyByOverlap ==
    \A a \in 1 .. created :
        \/ stored[username[a]] = a
        \/ a \in removed
        \/ username[a] \in overlapped["register"]

\* The account of a name that was deactivated stays so until an update activates
\* it or a deletion takes it out: registering cannot put an active one there.
DeactivationStands ==
    \A n \in shut :
        \/ stored[n] # 0 /\ ~active[stored[n]]
        \/ n \in overlapped["register"]

\* A deletion fails with a KeyError only if another one overlapped it.
FailedNeedsOverlap ==
    \A t \in Threads : pc[t] = "failed" => name[t] \in overlapped["delete"]

\* The password w opens the account stored under n.
Opens(n, w) ==
    /\ stored[n] # 0
    /\ LET a == stored[n] IN active[a] /\ hash[a] = salt[a] /\ word[hash[a]] = w

\* The five steps of authenticate answer as one look at the account would when
\* the answer is given, however other threads activate and deactivate it and use
\* other names, as long as neither the account nor its password was replaced.
LoginAgrees ==
    [][\A t \in Threads :
         pc[t] \in LoginSteps /\ pc'[t] \in Answered /\ ~moved[t] =>
             (pc'[t] = "ok" <=> Opens(name[t], pass[t]))]_vars

-----------------------------------------------------------------------------
(* The inductive invariant *)

\* Two calls of one operation on one name, both in flight, are on record.
Recorded(op, steps) ==
    \A t, o \in Threads :
        t # o /\ name[t] = name[o] /\ pc[t] \in steps /\ pc[o] \in steps
            => name[t] \in overlapped[op]

OverlapsRecorded ==
    /\ Recorded("register", RegisterSteps)
    /\ Recorded("update", UpdateSteps)
    /\ Recorded("delete", DeleteSteps)

\* A thread works on accounts of the name it was given.
InHandIsNamed ==
    \A t \in Threads :
        /\ pc[t] \in HoldsUser => username[user[t]] = name[t]
        /\ pc[t] \in {"salt", "compare"} => username[check[t]] = name[t]

\* What a test of the store found is still so when the store is written ...
TestsHold ==
    \A t \in Threads :
        /\ pc[t] = "store" => stored[name[t]] = 0 \/ name[t] \in overlapped["register"]
        /\ pc[t] = "del" => stored[name[t]] # 0 \/ name[t] \in overlapped["delete"]

\* ... and so is the hash an update wrote when it writes the salt.
FreshIsHash ==
    \A t \in Threads :
        pc[t] = "setsalt" =>
            hash[user[t]] = fresh[t] \/ name[t] \in overlapped["update"]

\* What authenticate has found so far is true of the account as it is now, unless
\* it was replaced meanwhile.
Knows(t) ==
    pc[t] \in LoginSteps =>
        /\ pass[t] # None
        /\ ~moved[t] =>
             /\ pc[t] # "lookup" => user[t] = stored[name[t]]
             /\ pc[t] \in {"salt", "compare"} => check[t] = stored[name[t]]
             /\ pc[t] = "compare" => fresh[t] = salt[check[t]]
             /\ pc[t] = "enabled" =>
                  hash[user[t]] = salt[user[t]] /\ word[hash[user[t]]] = pass[t]

LoginKnows == \A t \in Threads : Knows(t)

IInv ==
    /\ TypeOK
    /\ OverlapsRecorded
    /\ InHandIsNamed
    /\ TestsHold
    /\ FreshIsHash
    /\ LoginKnows
    /\ CredentialsPaired
    /\ LostOnlyByOverlap
    /\ DeactivationStands
    /\ FailedNeedsOverlap
==============================================================================
