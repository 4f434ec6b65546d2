------------------------------ MODULE OAuthLogin ------------------------------
(***************************************************************************)
(* Logging in through an OAuth2 provider, services/authentication:         *)
(* authorize and callback of oauth.py over UserProfileModel._store of      *)
(* models.py, and the state that travels in the browser's session cookie.  *)
(*                                                                         *)
(* A request is sent with the cookie the browser has then, and its answer  *)
(* changes the cookie when it arrives, if it does.  The provider vouches   *)
(* for an identity by a subject, the empty one if its answer has no sub,   *)
(* under a display name, which may be another subject's too.               *)
(***************************************************************************)
EXTENDS Integers, Sequences, FiniteSets

CONSTANTS
    Requests,      \* requests a server or a browser may be busy with at once
    Browsers,
    States,        \* oauth2_state values that will be drawn; bounds the logins
    Identities,    \* those who log in at the provider
    Unnamed,       \* those whose userinfo has no sub
    NoSub,         \* the empty subject
    Names,         \* display names, the keys of _store
    LocalNames,    \* those that local accounts may be given
    None,          \* no state, subject, name or browser
    MaxProfiles    \* bound on the profiles created

ASSUME LoginAssumption ==
    /\ MaxProfiles \in Nat
    /\ Unnamed \subseteq Identities /\ LocalNames \subseteq Names
    /\ NoSub \notin Identities
    /\ None \notin States \union Identities \union {NoSub}

VARIABLES
    issued,        \* the states drawn so far
    cookie,        \* oauth2_state in the session cookie of each browser
    known,         \* the states each browser was redirected with
    created,       \* the profiles made so far are 1 .. created
    store,         \* _store: the profile of each name, 0 for none
    order,         \* the names in _store, in the order a loop over it takes
    subject,       \* oauth_subject of each profile, None for a local account
    pc,            \* where each request stands
    browser,       \* the browser that sent it
    state,         \* the state it carries, or is to be redirected with
    sent,          \* the cookie it was sent with
    who, called,   \* the identity and the name the provider vouched for
    size, pos,     \* its loop over _store
    found,         \* the profile it is answered with
    told,          \* history: the profiles each identity was logged in as
    used, twice,   \* history: states a callback was let through with, once, again
    repeated,      \* history: states sent while another callback with it was in
                   \* flight or after the answer to one was lost
    overlapped,    \* history: subjects two callbacks looked for at once
    displaced      \* history: subjects whose profile another one replaced

web == <<issued, cookie, known>>
profile == <<created, store, order, subject>>
local == <<browser, state, sent, who, called, size, pos, found>>
history == <<told, used, twice, repeated, overlapped, displaced>>
vars == <<web, profile, pc, local, history>>

\* subject = userinfo.get("sub", "")
Sub(i) == IF i \in Unnamed THEN NoSub ELSE i
Subjects == {Sub(i) : i \in Identities}

Profiles == 1 .. MaxProfiles
Answers == {"ok", "refused", "unavailable", "failed"}
Looking == {"scan", "create"}
Handling == {"exchange"} \union Looking \union Answers
Stored == {order[i] : i \in 1 .. Len(order)}

Init ==
    /\ issued = {}
    /\ cookie = [b \in Browsers |-> None]
    /\ known = [b \in Browsers |-> {}]
    /\ created = 0
    /\ store = [n \in Names |-> 0]
    /\ order = <<>>
    /\ subject = [p \in Profiles |-> None]
    /\ pc = [r \in Requests |-> "idle"]
    /\ browser = [r \in Requests |-> None]
    /\ state = [r \in Requests |-> None]
    /\ sent = [r \in Requests |-> None]
    /\ who = [r \in Requests |-> None]
    /\ called = [r \in Requests |-> None]
    /\ size = [r \in Requests |-> 0]
    /\ pos = [r \in Requests |-> 0]
    /\ found = [r \in Requests |-> 0]
    /\ told = [i \in Identities |-> {}]
    /\ used = {} /\ twice = {} /\ repeated = {}
    /\ overlapped = {} /\ displaced = {}

\* The bound: a profile is looked for or made locally only if there is room for one.
RoomForProfile == created + Cardinality({r \in Requests : pc[r] \in Looking}) < MaxProfiles

Goto(r, to) == pc' = [pc EXCEPT ![r] = to]

\* user.oauth_provider == provider and user.oauth_subject == subject
MatchesSwapped(p, s) == FALSE  \* get_by_oauth(subject, provider)
MatchesProvider(p, s) == subject[p] # None
Matches(p, s) == subject[p] = s

\* The cookie after a callback: session.pop removed the state it came with.
Kept(r) == cookie[browser[r]]
Popped(r) == IF sent[r] = None THEN cookie[browser[r]] ELSE None

\* cls._store[username] = user: a name keeps its place in the dict.
KeysAppended(n) == Append(order, n)
Keys(n) == IF n \in Stored THEN order ELSE Append(order, n)

-----------------------------------------------------------------------------
(* authorize *)

Authorize(r, b, s) ==
    /\ pc[r] = "idle"
    /\ s \notin issued
    /\ issued' = issued \union {s}
    /\ browser' = [browser EXCEPT ![r] = b]
    /\ state' = [state EXCEPT ![r] = s]
    /\ Goto(r, "redirect")
    /\ UNCHANGED <<cookie, known, profile, sent, who, called, size, pos, found, history>>

\* The redirect arrives, with the new cookie.
Redirected(r) ==
    /\ pc[r] = "redirect"
    /\ LET b == browser[r]
       IN  /\ cookie' = [cookie EXCEPT ![b] = state[r]]
           /\ known' = [known EXCEPT ![b] = @ \union {state[r]}]
    /\ browser' = [browser EXCEPT ![r] = None]
    /\ state' = [state EXCEPT ![r] = None]
    /\ Goto(r, "idle")
    /\ UNCHANGED <<issued, profile, sent, who, called, size, pos, found, history>>

-----------------------------------------------------------------------------
(* callback *)

\* The provider sends the browser back with a state it was redirected with, or a
\* request has none: not state or state != session.pop("oauth2_state", None).
Callback(r, b, s) ==
    /\ pc[r] = "idle"
    /\ s \in known[b] \union {None}
    /\ browser' = [browser EXCEPT ![r] = b]
    /\ state' = [state EXCEPT ![r] = s]
    /\ sent' = [sent EXCEPT ![r] = IF s = None THEN None ELSE cookie[b]]
    /\ IF s # None /\ s = cookie[b]
       THEN /\ Goto(r, "exchange")
            /\ used' = used \union {s}
            /\ twice' = twice \union (used \intersect {s})
       ELSE Goto(r, "refused") /\ UNCHANGED <<used, twice>>
    /\ repeated' = IF s # None /\ \E o \in Requests : pc[o] \in Handling /\ state[o] = s
                   THEN repeated \union {s} ELSE repeated
    /\ UNCHANGED <<web, profile, who, called, size, pos, found, told, overlapped, displaced>>

\* No code in the request, or a provider that cannot be reached or refuses it.
ExchangeFails(r) ==
    /\ pc[r] = "exchange"
    /\ Goto(r, "refused") \/ Goto(r, "unavailable")
    /\ UNCHANGED <<web, profile, local, history>>

\* The provider vouches for somebody; the loop over _store begins.
Exchange(r, i, n) ==
    /\ pc[r] = "exchange" /\ RoomForProfile
    /\ who' = [who EXCEPT ![r] = i]
    /\ called' = [called EXCEPT ![r] = n]
    /\ size' = [size EXCEPT ![r] = Len(order)]
    /\ pos' = [pos EXCEPT ![r] = 1]
    /\ Goto(r, "scan")
    /\ overlapped' = IF \E o \in Requests : pc[o] \in Looking /\ Sub(who[o]) = Sub(i)
                     THEN overlapped \union {Sub(i)} ELSE overlapped
    /\ UNCHANGED <<web, profile, browser, state, sent, found, told, used, twice, repeated,
                   displaced>>

\* One turn of the loop: an error if the dict has grown, the end, or a profile.
Inspect(r) ==
    /\ pc[r] = "scan"
    /\ \/ /\ size[r] # Len(order)
          /\ Goto(r, "failed") /\ UNCHANGED <<pos, found>>
       \/ /\ size[r] = Len(order) /\ pos[r] > size[r]
          /\ Goto(r, "create") /\ UNCHANGED <<pos, found>>
       \/ /\ size[r] = Len(order) /\ pos[r] <= size[r]
          /\ LET p == store[order[pos[r]]]
             IN  IF Matches(p, Sub(who[r]))
                 THEN /\ found' = [found EXCEPT ![r] = p]
                      /\ Goto(r, "ok") /\ UNCHANGED pos
                 ELSE /\ pos' = [pos EXCEPT ![r] = @ + 1]
                      /\ UNCHANGED <<pc, found>>
    /\ UNCHANGED <<web, profile, browser, state, sent, who, called, size, history>>

\* A new profile is stored under n, over whatever has that name.
Put(n, s) ==
    LET p == created + 1
    IN  /\ created < MaxProfiles
        /\ created' = p
        /\ subject' = [subject EXCEPT ![p] = s]
        /\ store' = [store EXCEPT ![n] = p]
        /\ order' = Keys(n)
        /\ displaced' = displaced \union
               IF store[n] = 0 THEN {} ELSE {subject[store[n]]} \ {s, None}

CreateProfile(r) ==
    /\ pc[r] = "create"
    /\ Put(called[r], Sub(who[r]))
    /\ found' = [found EXCEPT ![r] = created + 1]
    /\ Goto(r, "ok")
    /\ UNCHANGED <<web, browser, state, sent, who, called, size, pos,
                   told, used, twice, repeated, overlapped>>

\* UserProfileModel.create, which no route calls.
CreateLocal(n) ==
    /\ RoomForProfile
    /\ Put(n, None)
    /\ UNCHANGED <<web, pc, local, told, used, twice, repeated, overlapped>>

-----------------------------------------------------------------------------
(* The answer *)

Forget(r) ==
    /\ Goto(r, "idle")
    /\ browser' = [browser EXCEPT ![r] = None]
    /\ state' = [state EXCEPT ![r] = None]
    /\ sent' = [sent EXCEPT ![r] = None]
    /\ who' = [who EXCEPT ![r] = None]
    /\ called' = [called EXCEPT ![r] = None]
    /\ size' = [size EXCEPT ![r] = 0]
    /\ pos' = [pos EXCEPT ![r] = 0]
    /\ found' = [found EXCEPT ![r] = 0]
    /\ UNCHANGED <<issued, known, profile, used, twice, overlapped, displaced>>

Arrive(r) ==
    /\ pc[r] \in Answers
    /\ cookie' = [cookie EXCEPT ![browser[r]] = Popped(r)]
    /\ told' = IF pc[r] = "ok" THEN [told EXCEPT ![who[r]] = @ \union {found[r]}] ELSE told
    /\ Forget(r)
    /\ UNCHANGED repeated

\* The answer is lost, of authorize or of callback, and the cookie unchanged.
Lost(r) ==
    /\ pc[r] \in Answers \union {"redirect"}
    /\ repeated' = repeated \union (IF pc[r] \in Answers THEN {state[r]} \ {None} ELSE {})
    /\ Forget(r)
    /\ UNCHANGED <<cookie, told>>

-----------------------------------------------------------------------------

Next ==
    \/ \E r \in Requests :
         \/ \E b \in Browsers, s \in States : Authorize(r, b, s)
         \/ \E b \in Browsers, s \in States \union {None} : Callback(r, b, s)
         \/ Redirected(r)
         \/ \E i \in Identities, n \in Names : Exchange(r, i, n)
         \/ ExchangeFails(r) \/ Inspect(r) \/ CreateProfile(r)
         \/ Arrive(r) \/ Lost(r)
    \/ \E n \in LocalNames : CreateLocal(n)

Spec == Init /\ [][Next]_vars

-----------------------------------------------------------------------------
(* Properties *)

PlacesTyped == pc \in [Requests -> {"idle", "redirect"} \union Handling]

WebTyped ==
    /\ issued \subseteq States
    /\ cookie \in [Browsers -> States \union {None}]
    /\ known \in [Browsers -> SUBSET States]
    /\ browser \in [Requests -> Browsers \union {None}]
    /\ state \in [Requests -> States \union {None}]
    /\ sent \in [Requests -> States \union {None}]
    /\ used \subseteq States /\ twice \subseteq States /\ repeated \subseteq States

StoreTyped ==
    /\ created \in 0 .. MaxProfiles
    /\ store \in [Names -> 0 .. MaxProfiles]
    /\ order \in Seq(Names)
    /\ subject \in [Profiles -> Subjects \union {None}]
    /\ \A i, j \in 1 .. Len(order) : order[i] = order[j] => i = j
    /\ \A n \in Names : IF n \in Stored THEN store[n] \in 1 .. created ELSE store[n] = 0

LookupTyped ==
    /\ who \in [Requests -> Identities \union {None}]
    /\ called \in [Requests -> Names \union {None}]
    /\ size \in [Requests -> Nat]
    /\ pos \in [Requests -> Nat]
    /\ found \in [Requests -> 0 .. MaxProfiles]
    /\ told \in [Identities -> SUBSET Profiles]
    /\ overlapped \subseteq Subjects /\ displaced \subseteq Subjects

\* Every variable keeps its type; the loop order lists each stored name once.
TypeOK == PlacesTyped /\ WebTyped /\ StoreTyped /\ LookupTyped

\* A subject is logged in as the same profile every time, and has no other, unless
\* two of its callbacks overlapped or a profile of the same name displaced it.
ReusedUnlessDisturbed ==
    \A p, q \in 1 .. created :
        p # q /\ subject[p] = subject[q] /\ subject[p] # None
            => subject[p] \in overlapped \union displaced

\* Nobody is logged in as somebody else, whatever displaces what: only those of
\* whom the provider gives no subject share a profile.
OwnProfile ==
    \A i, j \in Identities :
        i # j /\ told[i] \intersect told[j] # {} => {i, j} \subseteq Unnamed

\* One authorize lets one callback through, unless the callback was sent twice
\* before it was answered, or again when its answer was lost.
StateOnce == twice \subseteq repeated

\* The promise of docs/auth_api_docs.md:412: the same account is reused.
SameAccountAgain == \A i \in Identities : Cardinality(told[i]) <= 1

-----------------------------------------------------------------------------
(* The inductive invariant *)

\* A request that looks for a subject knows whom, under what name, and since where.
InHand ==
    \A r \in Requests :
        /\ pc[r] \in Looking => who[r] \in Identities /\ called[r] \in Names
        /\ pc[r] = "scan" => pos[r] # 0 /\ size[r] <= Len(order)

OverlapsRecorded ==
    \A r, o \in Requests :
        r # o /\ pc[r] \in Looking /\ pc[o] \in Looking /\ Sub(who[r]) = Sub(who[o])
            => Sub(who[r]) \in overlapped

\* What the loop has passed, and at its end the store, has no profile of the subject.
ScanHolds ==
    \A r \in Requests :
        /\ pc[r] = "scan" /\ size[r] = Len(order) =>
             \A i \in 1 .. Len(order) :
                 i < pos[r] /\ subject[store[order[i]]] = Sub(who[r])
                     => Sub(who[r]) \in overlapped
        /\ pc[r] = "create" =>
             \A n \in Stored : subject[store[n]] = Sub(who[r]) => Sub(who[r]) \in overlapped

\* A profile is found where it was stored, unless its subject is excused.
StaysStored ==
    \A p \in 1 .. created :
        subject[p] # None =>
            \/ \E n \in Stored : store[n] = p
            \/ subject[p] \in overlapped \union displaced

\* A request is answered with a profile of the subject it looked for.
AnswersMade ==
    /\ \A i \in Identities : told[i] \subseteq 1 .. created
    /\ \A r \in Requests : pc[r] = "ok" =>
         who[r] \in Identities /\ found[r] \in 1 .. created /\ subject[found[r]] = Sub(who[r])

\* Whoever was logged in got a profile of the subject the provider gave.
ToldOwn == \A i \in Identities : \A p \in told[i] : subject[p] = Sub(i)

\* A state is drawn for one redirect, which reaches one browser.
StatesApart ==
    /\ \A b \in Browsers : known[b] \subseteq issued /\ cookie[b] \in known[b] \union {None}
    /\ \A b, c \in Browsers : b # c => known[b] \intersect known[c] = {}
    /\ \A r \in Requests : pc[r] = "redirect" =>
         /\ browser[r] \in Browsers /\ state[r] \in issued \ used
         /\ \A b \in Browsers : state[r] \notin known[b]
         /\ \A o \in Requests : o # r /\ pc[o] = "redirect" => state[o] # state[r]
    /\ used \subseteq UNION {known[b] : b \in Browsers}

\* A state let through is still in a cookie only while its callback is in flight, or
\* when the answer was lost.
UsedLeaves ==
    \A b \in Browsers :
        cookie[b] \in used =>
            \/ cookie[b] \in repeated
            \/ \E r \in Requests : /\ pc[r] \in Handling /\ browser[r] = b
                                   /\ state[r] = cookie[b] /\ sent[r] = cookie[b]

ProfileInv ==
    /\ StoreTyped
    /\ LookupTyped
    /\ InHand
    /\ OverlapsRecorded
    /\ ScanHolds
    /\ StaysStored
    /\ AnswersMade
    /\ ReusedUnlessDisturbed
    /\ ToldOwn

WebInv ==
    /\ WebTyped
    /\ StatesApart
    /\ UsedLeaves
    /\ StateOnce

IInv == PlacesTyped /\ ProfileInv /\ WebInv
==============================================================================
