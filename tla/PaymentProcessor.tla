--------------------------- MODULE PaymentProcessor ---------------------------
(***************************************************************************)
(* initiate, confirm and cancel of the two payment services, step by step  *)
(* as they access the shared maps:                                         *)
(*   - processor.py: FastAPI runs the endpoints, plain functions, in a     *)
(*     thread pool, so several Threads interleave between their accesses;  *)
(*   - PaymentProcessor.js: the same algorithm on Node's event loop, where *)
(*     a handler runs to completion: Threads is a single one.              *)
(***************************************************************************)
EXTENDS Integers

CONSTANTS
    Threads,   \* threads that run request handlers
    Ids,       \* payment ids uuid4 will draw; bounds the payments created
    Keys,      \* idempotency keys the clients use
    None       \* no key in the request; no entry in the index

ASSUME PaymentAssumption == None \notin Ids /\ None \notin Keys

VARIABLES
    status,    \* _payment_store: status[i], "absent" when i is not in it
    keyOf,     \* payment["idempotency_key"]
    index,     \* _idempotency_index
    refs,      \* the payments that have a payment["transaction_reference"]
    pc,        \* where each thread stands
    key,       \* idempotency_key of the thread's request
    pid,       \* the payment the thread works on
    verb,      \* the decision a confirm or cancel request asks for
    ref,       \* the confirm request carries a transaction reference
    told,      \* history: payments answered to initiations with a key
    receipts,  \* history: decisions answered for a payment
    late,      \* history: the thread's request came after such an answer
    overlapped \* history: keys and payments two requests were served on at once

vars == <<status, keyOf, index, refs, pc, key, pid, verb, ref, told, receipts, late,
          overlapped>>
history == <<told, receipts, late, overlapped>>
store == <<status, keyOf, index, refs>>
request == <<key, pid, verb, ref>>

Initiating == {"lookup", "hit", "index", "store", "created"}
Deciding == {"check", "set", "refer", "decided"}
Decisions == {"confirmed", "cancelled"}

Stored == {i \in Ids : status[i] # "absent"}
\* The requests being served on a key or on a payment.
ServedOn(x) == {t \in Threads : \/ pc[t] \in Initiating /\ key[t] = x
                                \/ pc[t] \in Deciding /\ pid[t] = x}
\* uuid4 draws an id nobody else has.
FreshIds == {i \in Ids \ Stored : \A t \in Threads : pc[t] \in Initiating => pid[t] # i}

Init ==
    /\ status = [i \in Ids |-> "absent"]
    /\ keyOf = [i \in Ids |-> None]
    /\ index = [k \in Keys |-> None]
    /\ refs = {}
    /\ pc = [t \in Threads |-> "idle"]
    /\ key = [t \in Threads |-> None]
    /\ pid = [t \in Threads |-> None]
    /\ verb = [t \in Threads |-> None]
    /\ ref = [t \in Threads |-> FALSE]
    /\ told = [k \in Keys |-> {}]
    /\ receipts = [i \in Ids |-> {}]
    /\ late = [t \in Threads |-> FALSE]
    /\ overlapped = {}

\* if idempotency_key in _idempotency_index
KnownNever(k) == FALSE
Known(k) == index[k] # None

\* if existing_id in _payment_store
Reusable(i) == i \in Stored

\* the index and the payment with what initiate puts into them
IndexAfterLost(t) == index
IndexAfter(t) == [index EXCEPT ![key[t]] = pid[t]]
KeyStoredDropped(t) == None
KeyStored(t) == key[t]

\* The guards of confirm and cancel: the payment exists and is pending.
MayDecideAny(t) == status[pid[t]] # "absent"
MayDecideOther(t) == status[pid[t]] \notin {"absent", verb[t]}
MayDecide(t) == status[pid[t]] = "pending"
DecidedStatusKept(t) == status[pid[t]]
DecidedStatus(t) == verb[t]

Goto(t, to) == pc' = [pc EXCEPT ![t] = to]

\* The request is answered and its local variables are gone.
Return(t) ==
    /\ Goto(t, "idle")
    /\ key' = [key EXCEPT ![t] = None]
    /\ pid' = [pid EXCEPT ![t] = None]
    /\ verb' = [verb EXCEPT ![t] = None]
    /\ ref' = [ref EXCEPT ![t] = FALSE]
    /\ late' = [late EXCEPT ![t] = FALSE]

-----------------------------------------------------------------------------
(* Initiation *)

\* A valid initiation request; i is the id the call will draw if it creates a
\* payment.  Without a key the call does not look at the index.
StartInitiate(t, k, i) ==
    /\ pc[t] = "idle"
    /\ i \in FreshIds
    /\ key' = [key EXCEPT ![t] = k]
    /\ pid' = [pid EXCEPT ![t] = i]
    /\ Goto(t, IF k = None THEN "store" ELSE "lookup")
    /\ overlapped' = IF k # None /\ ServedOn(k) # {} THEN overlapped \union {k}
                                                    ELSE overlapped
    /\ UNCHANGED <<store, verb, ref, told, receipts, late>>

\* if idempotency_key in _idempotency_index: existing_id = ...
LookupKey(t) ==
    /\ pc[t] = "lookup"
    /\ Goto(t, IF Known(key[t]) THEN "hit" ELSE "index")
    /\ UNCHANGED <<store, request, history>>

\* if existing_id in _payment_store: return it; otherwise create a payment.
ReuseExisting(t) ==
    /\ pc[t] = "hit"
    /\ LET existing == index[key[t]]
       IN  IF Reusable(existing)
           THEN pid' = [pid EXCEPT ![t] = existing] /\ Goto(t, "created")
           ELSE Goto(t, "index") /\ UNCHANGED pid
    /\ UNCHANGED <<store, key, verb, ref, history>>

\* _idempotency_index[idempotency_key] = payment_id
IndexKey(t) ==
    /\ pc[t] = "index"
    /\ index' = IndexAfter(t)
    /\ Goto(t, "store")
    /\ UNCHANGED <<status, keyOf, refs, request, history>>

\* _payment_store[payment_id] = payment
StorePayment(t) ==
    /\ pc[t] = "store"
    /\ status' = [status EXCEPT ![pid[t]] = "pending"]
    /\ keyOf' = [keyOf EXCEPT ![pid[t]] = KeyStored(t)]
    /\ Goto(t, "created")
    /\ UNCHANGED <<index, refs, request, history>>

AnswerInitiate(t) ==
    /\ pc[t] = "created"
    /\ told' = IF key[t] = None THEN told
               ELSE [told EXCEPT ![key[t]] = @ \union {pid[t]}]
    /\ Return(t)
    /\ UNCHANGED <<store, receipts, overlapped>>

-----------------------------------------------------------------------------
(* Confirmation and cancellation *)

StartDecision(t, i, d, r) ==
    /\ pc[t] = "idle"
    /\ r => d = "confirmed"
    /\ pid' = [pid EXCEPT ![t] = i]
    /\ verb' = [verb EXCEPT ![t] = d]
    /\ ref' = [ref EXCEPT ![t] = r]
    /\ late' = [late EXCEPT ![t] = receipts[i] # {}]
    /\ overlapped' = IF ServedOn(i) # {} THEN overlapped \union {i} ELSE overlapped
    /\ Goto(t, "check")
    /\ UNCHANGED <<store, key, told, receipts>>

\* payment = _payment_store.get(payment_id), then the two guards: 404 for an
\* unknown payment, 409 for one already decided.
CheckPending(t) ==
    /\ pc[t] = "check"
    /\ IF MayDecide(t)
       THEN Goto(t, "set") /\ UNCHANGED <<request, late>>
       ELSE Return(t)
    /\ UNCHANGED <<store, told, receipts, overlapped>>

\* payment["status"] = ... : nothing looks at the status again.
SetStatus(t) ==
    /\ pc[t] = "set"
    /\ status' = [status EXCEPT ![pid[t]] = DecidedStatus(t)]
    /\ Goto(t, IF ref[t] THEN "refer" ELSE "decided")
    /\ UNCHANGED <<keyOf, index, refs, request, history>>

\* if transaction_reference: payment["transaction_reference"] = ...
SetReference(t) ==
    /\ pc[t] = "refer"
    /\ refs' = refs \union {pid[t]}
    /\ Goto(t, "decided")
    /\ UNCHANGED <<status, keyOf, index, request, history>>

\* The handler returns the stored dict itself: the answer is what it holds
\* when the response is encoded.
AnswerDecision(t) ==
    /\ pc[t] = "decided"
    /\ receipts' = [receipts EXCEPT ![pid[t]] = @ \union {status[pid[t]]}]
    /\ Return(t)
    /\ UNCHANGED <<store, told, overlapped>>

Step(t) ==
    \/ LookupKey(t) \/ ReuseExisting(t) \/ IndexKey(t)
    \/ StorePayment(t) \/ AnswerInitiate(t)
    \/ CheckPending(t) \/ SetStatus(t) \/ SetReference(t) \/ AnswerDecision(t)

Start(t) ==
    \E i \in Ids :
        \/ \E k \in Keys \union {None} : StartInitiate(t, k, i)
        \/ \E d \in Decisions, r \in BOOLEAN : StartDecision(t, i, d, r)

Next == \E t \in Threads : Start(t) \/ Step(t)

Spec == Init /\ [][Next]_vars

-----------------------------------------------------------------------------
(* Properties *)

TypeOK ==
    /\ status \in [Ids -> {"absent", "pending"} \union Decisions]
    /\ keyOf \in [Ids -> Keys \union {None}]
    /\ index \in [Keys -> Ids \union {None}]
    /\ pc \in [Threads -> Initiating \union Deciding \union {"idle"}]
    /\ key \in [Threads -> Keys \union {None}]
    /\ pid \in [Threads -> Ids \union {None}]
    /\ verb \in [Threads -> Decisions \union {None}]
    /\ refs \subseteq Ids
    /\ ref \in [Threads -> BOOLEAN]
    /\ told \in [Keys -> SUBSET Ids]
    /\ receipts \in [Ids -> SUBSET Decisions]
    /\ late \in [Threads -> BOOLEAN]
    /\ overlapped \subseteq Keys \union Ids

\* The index never dangles: an id it names is stored, or the thread that put
\* it there is about to store it.  The second lookup of initiate relies on it.
IndexedOrInFlight ==
    \A k \in Keys : index[k] # None =>
        \/ index[k] \in Stored /\ keyOf[index[k]] = k
        \/ \E t \in Threads : pc[t] = "store" /\ pid[t] = index[k] /\ key[t] = k

\* Two payments carry one key only if two initiations with that key were
\* served at the same time: a client that retries after an answer, or a
\* service that takes one request at a time, never creates a duplicate.
DuplicatesNeedOverlap ==
    \A i, j \in Stored :
        i # j /\ keyOf[i] = keyOf[j] /\ keyOf[i] # None => keyOf[i] \in overlapped

\* One payment is reported both confirmed and cancelled only if two requests
\* on it were served at the same time.
FlipsNeedOverlap ==
    \A i \in Ids : receipts[i] = Decisions => i \in overlapped

\* A decision requested after another one was answered is refused.
LateDecisionRefused ==
    \A t \in Threads : late[t] => pc[t] \notin {"set", "refer", "decided"}

\* A payment that carries a transaction reference is a confirmed one, unless
\* two requests on it were served at the same time: confirm writes the status
\* and the reference one after the other.
ReferencedAreConfirmed == \A i \in refs \ overlapped : status[i] = "confirmed"

\* The refinement mapping: a payment, its key and what was answered about
\* either are the same in both.
Ledger == INSTANCE PaymentLedger
            WITH status <- status, keyOf <- keyOf, told <- told, receipts <- receipts,
                 Ids <- Ids, Keys <- Keys, None <- None

\* Thread t takes a step of a request that overlapped with another one on its
\* key or its payment.
OverlappedStep(t) ==
    /\ pc'[t] # pc[t]
    /\ key[t] \in overlapped \/ pid[t] \in overlapped

\* Every step of the service is one of the ledger or changes nothing the ledger
\* shows, except on keys and payments that two requests were served on at once;
\* whatever else is served meanwhile. A service that takes one request at a time,
\* like Node's, has no exception, and implements the ledger.
ImplementsLedger ==
    /\ Ledger!Init
    /\ [][[Ledger!Next]_(Ledger!vars) \/ \E t \in Threads : OverlappedStep(t)]_vars

-----------------------------------------------------------------------------
(* The inductive invariant *)

Drawn == {"lookup", "hit", "index", "store"}

\* A thread's local variables are those of its request, and the id it drew is
\* stored by nobody yet and drawn by nobody else.
LocalsOK ==
    \A t \in Threads :
        /\ pc[t] \in Initiating \union Deciding => pid[t] \in Ids
        /\ pc[t] \in {"lookup", "hit", "index"} => key[t] \in Keys
        /\ pc[t] \in Deciding => verb[t] \in Decisions
        /\ pc[t] = "created" => pid[t] \in Stored /\ keyOf[pid[t]] = key[t]
        /\ pc[t] \in Drawn => pid[t] \notin Stored
        /\ \A u \in Threads \ {t} :
              pc[t] \in Drawn /\ pc[u] \in Drawn => pid[u] # pid[t]

\* Two requests served at once on a key or on a payment are on record.
OverlapsRecorded ==
    \A t, u \in Threads : t # u =>
        /\ /\ pc[t] \in Initiating /\ pc[u] \in Initiating
           /\ key[t] = key[u] /\ key[t] # None
           => key[t] \in overlapped
        /\ pc[t] \in Deciding /\ pc[u] \in Deciding /\ pid[t] = pid[u]
           => pid[t] \in overlapped

\* A stored payment has its key in the index ("hit" relies on it), and a thread
\* about to create a payment is not too late, unless requests overlapped.
KeysIndexed ==
    /\ \A i \in Stored : keyOf[i] # None => index[keyOf[i]] # None
    /\ \A i \in Ids \ Stored : keyOf[i] = None
    /\ \A t \in Threads :
          pc[t] \in {"hit", "store"} /\ key[t] # None => index[key[t]] # None
    /\ \A t \in Threads :
          pc[t] \in {"index", "store"} /\ key[t] # None /\ key[t] \notin overlapped
          => \A i \in Stored : keyOf[i] # key[t]

\* An answered decision is the status of its payment, and a thread about to
\* decide finds the payment still pending, unless requests overlapped.
DecisionsStand ==
    /\ \A i \in Ids : receipts[i] # {} => status[i] \in Decisions
    /\ \A i \in Ids : i \notin overlapped => receipts[i] \subseteq {status[i]}
    /\ \A t \in Threads :
          /\ pc[t] \in {"refer", "decided"} => status[pid[t]] \in Decisions
          /\ pc[t] = "set" => status[pid[t]] # "absent"
          /\ pc[t] = "set" /\ pid[t] \notin overlapped => status[pid[t]] = "pending"
          /\ late[t] => pc[t] = "check" /\ status[pid[t]] \in Decisions

\* Only a confirm that has just written its status adds a reference.
ReferencesFollow ==
    \A t \in Threads :
        /\ ref[t] => verb[t] = "confirmed"
        /\ pc[t] = "refer" => ref[t]
        /\ pc[t] = "refer" /\ pid[t] \notin overlapped => status[pid[t]] = "confirmed"

IInv ==
    /\ TypeOK
    /\ LocalsOK
    /\ OverlapsRecorded
    /\ IndexedOrInFlight
    /\ KeysIndexed
    /\ DuplicatesNeedOverlap
    /\ DecisionsStand
    /\ ReferencesFollow
    /\ ReferencedAreConfirmed
==============================================================================
