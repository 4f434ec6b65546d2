----------------------------- MODULE LoanService -----------------------------
(***************************************************************************)
(* The requests that change loans in the two loan applications, step by    *)
(* step as they access _loan_store:                                        *)
(*   - "fastapi": main.py over LoanRepository.  A status change looks the  *)
(*     loan up twice, and loans can be deleted in between;                 *)
(*   - "flask": app.py, which writes on the dict it looked up first and    *)
(*     has no DELETE.                                                      *)
(* Both serve requests on several threads.  Reads (GET) change nothing and *)
(* are left out.                                                           *)
(***************************************************************************)
EXTENDS Integers

CONSTANTS
    Threads,   \* threads that run request handlers
    Ids,       \* loan ids uuid4 will draw; bounds the loans created
    None       \* no loan

ASSUME LoanAssumption == None \notin Ids

VARIABLES
    app,       \* which of the two applications is deployed
    stored,    \* the keys of _loan_store
    status,    \* loan["status"] of the dict created for an id; the dict
               \* outlives its deletion while a thread holds it
    pc,        \* where each thread stands
    loan,      \* the loan the thread's request names
    op,        \* what it asks: decide (approve, reject), put or delete
    want,      \* the status the request will write
    told,      \* history: decisions answered 200 since the last status PUT
    deletes,   \* history: number of 204 answers for a loan
    late,      \* history: the decision came after an answered one
    overlapped \* history: loans two requests were served on at once

vars == <<app, stored, status, pc, loan, op, want, told, deletes, late, overlapped>>
request == <<loan, op, want>>
history == <<told, deletes, late, overlapped>>

Decisions == {"approved", "rejected"}
VALID_STATUSES == Decisions \union {"pending", "disbursed"}
Active == {"find", "guard", "relookup", "write", "answer", "contains", "del"}
Ops == {"decide", "put", "delete"}

ServedOn(i) == {t \in Threads : pc[t] \in Active /\ loan[t] = i}

Init ==
    /\ app \in {"fastapi", "flask"}
    /\ stored = {}
    /\ status = [i \in Ids |-> "absent"]
    /\ pc = [t \in Threads |-> "idle"]
    /\ loan = [t \in Threads |-> None]
    /\ op = [t \in Threads |-> "decide"]
    /\ want = [t \in Threads |-> "approved"]
    /\ told = [i \in Ids |-> {}]
    /\ deletes = [i \in Ids |-> 0]
    /\ late = [t \in Threads |-> FALSE]
    /\ overlapped = {}

\* if loan is None; if loan["status"] != "pending"; del of a key that is there
FoundUnchecked(t) == TRUE
Found(t) == loan[t] \in stored
MayDecideAny(t) == TRUE
MayDecideOther(t) == status[loan[t]] # want[t]
MayDecide(t) == status[loan[t]] = "pending"
DeletableUnchecked(t) == TRUE
Deletable(t) == loan[t] \in stored

Goto(t, to) == pc' = [pc EXCEPT ![t] = to]

\* The request is answered and its local variables are gone; "failed" is an
\* answer too, the 500 of an exception no handler catches.
Return(t, to) ==
    /\ Goto(t, to)
    /\ op' = [op EXCEPT ![t] = "decide"]
    /\ want' = [want EXCEPT ![t] = "approved"]
    /\ late' = [late EXCEPT ![t] = FALSE]

-----------------------------------------------------------------------------
(* Requests *)

\* POST /loans with a valid body: one assignment to the store.
Create(i) ==
    /\ status[i] = "absent"
    /\ stored' = stored \union {i}
    /\ status' = [status EXCEPT ![i] = "pending"]
    /\ UNCHANGED <<app, pc, request, history>>

\* A request on loan i arrives: o is the operation, s the status to write.
Start(t, i, o, s) ==
    /\ pc[t] \in {"idle", "failed"}
    /\ o = "decide" => s \in Decisions
    /\ o = "delete" => s = "approved" /\ app = "fastapi"
    /\ Goto(t, IF o = "delete" THEN "contains" ELSE "find")
    /\ loan' = [loan EXCEPT ![t] = i]
    /\ op' = [op EXCEPT ![t] = o]
    /\ want' = [want EXCEPT ![t] = s]
    /\ late' = [late EXCEPT ![t] = o = "decide" /\ told[i] # {}]
    /\ overlapped' = IF ServedOn(i) # {} THEN overlapped \union {i} ELSE overlapped
    /\ UNCHANGED <<app, stored, status, told, deletes>>

\* FastAPI's handlers call update_status, which looks the loan up again.
BeforeWrite == IF app = "fastapi" THEN "relookup" ELSE "write"

\* loan = find_by_id(loan_id), and 404 for an unknown loan.
Find(t) ==
    /\ pc[t] = "find"
    /\ IF Found(t)
       THEN /\ Goto(t, IF op[t] = "decide" THEN "guard" ELSE BeforeWrite)
            /\ UNCHANGED <<op, want, late>>
       ELSE Return(t, "idle")
    /\ UNCHANGED <<app, stored, status, loan, told, deletes, overlapped>>

\* if loan["status"] != "pending": 409
Guard(t) ==
    /\ pc[t] = "guard"
    /\ IF MayDecide(t)
       THEN Goto(t, BeforeWrite) /\ UNCHANGED <<op, want, late>>
       ELSE Return(t, "idle")
    /\ UNCHANGED <<app, stored, status, loan, told, deletes, overlapped>>

\* update_status answers None for a loan deleted meanwhile; the endpoint
\* returns it, and it does not validate as the response: a 500.
Relookup(t) ==
    /\ pc[t] = "relookup"
    /\ IF loan[t] \in stored
       THEN Goto(t, "write") /\ UNCHANGED <<op, want, late>>
       ELSE Return(t, "failed")
    /\ UNCHANGED <<app, stored, status, loan, told, deletes, overlapped>>

\* loan["status"] = new_status.  A PUT takes back what was decided before it.
Write(t) ==
    /\ pc[t] = "write"
    /\ status' = [status EXCEPT ![loan[t]] = want[t]]
    /\ IF op[t] = "put"
       THEN /\ told' = [told EXCEPT ![loan[t]] = {}]
            /\ late' = [u \in Threads |-> late[u] /\ loan[u] # loan[t]]
       ELSE UNCHANGED <<told, late>>
    /\ Goto(t, "answer")
    /\ UNCHANGED <<app, stored, request, deletes, overlapped>>

\* The loan dict is encoded: the answer holds its status of now.
Answer(t) ==
    /\ pc[t] = "answer"
    /\ told' = IF op[t] = "decide"
               THEN [told EXCEPT ![loan[t]] = @ \union ({status[loan[t]]} \cap Decisions)]
               ELSE told
    /\ Return(t, "idle")
    /\ UNCHANGED <<app, stored, status, loan, deletes, overlapped>>

\* delete: if loan_id in _loan_store, or 404 ...
Contains(t) ==
    /\ pc[t] = "contains"
    /\ IF loan[t] \in stored
       THEN Goto(t, "del") /\ UNCHANGED <<op, want, late>>
       ELSE Return(t, "idle")
    /\ UNCHANGED <<app, stored, status, loan, told, deletes, overlapped>>

\* ... del _loan_store[loan_id]: a KeyError, so a 500, when another thread
\* was faster, and otherwise a 204.
Del(t) ==
    /\ pc[t] = "del"
    /\ IF Deletable(t)
       THEN /\ stored' = stored \ {loan[t]}
            /\ deletes' = [deletes EXCEPT ![loan[t]] = @ + 1]
            /\ Return(t, "idle")
       ELSE Return(t, "failed") /\ UNCHANGED <<stored, deletes>>
    /\ UNCHANGED <<app, status, loan, told, overlapped>>

Step(t) ==
    \/ \E i \in Ids, o \in Ops, s \in VALID_STATUSES : Start(t, i, o, s)
    \/ Find(t) \/ Guard(t) \/ Relookup(t) \/ Write(t) \/ Answer(t)
    \/ Contains(t) \/ Del(t)

Next == (\E i \in Ids : Create(i)) \/ (\E t \in Threads : Step(t))

Spec == Init /\ [][Next]_vars

-----------------------------------------------------------------------------
(* Properties *)

HoldsLoan ==
    \A t \in Threads :
        pc[t] \in {"guard", "relookup", "write", "answer"} => status[loan[t]] # "absent"

\* Every variable keeps its type, and a thread that reads or writes the dict of
\* a loan holds one.
TypeOK ==
    /\ app \in {"fastapi", "flask"}
    /\ stored \subseteq Ids
    /\ status \in [Ids -> VALID_STATUSES \union {"absent"}]
    /\ pc \in [Threads -> Active \union {"idle", "failed"}]
    /\ loan \in [Threads -> Ids \union {None}]
    /\ op \in [Threads -> Ops]
    /\ want \in [Threads -> VALID_STATUSES]
    /\ told \in [Ids -> SUBSET Decisions]
    /\ deletes \in [Ids -> Nat]
    /\ late \in [Threads -> BOOLEAN]
    /\ overlapped \subseteq Ids
    /\ HoldsLoan

\* An approval or a rejection requested after another one was answered, with
\* no status PUT since, is refused, whatever else is in flight.
LateDecisionRefused ==
    \A t \in Threads : late[t] => pc[t] \notin {"relookup", "write", "answer"}

\* An answered decision is the loan's status until a PUT changes it, unless
\* two requests on the loan were served at the same time: what is left of "a
\* rejected loan cannot be approved"
\* (tests/integration/test_loan_repayment_processing.py:139).
DecisionsStandUnlessOverlap ==
    \A i \in Ids \ overlapped : told[i] \subseteq {status[i]}

\* However many DELETEs of one loan race, one is answered 204.
DeletedOnce == \A i \in Ids : deletes[i] <= 1

\* A request fails with a 500, or reports a new status of a loan that is no
\* longer stored, only if another request on that loan was served meanwhile.
OddAnswersNeedOverlap ==
    \A t \in Threads :
        pc[t] = "failed" \/ (pc[t] = "answer" /\ loan[t] \notin stored)
            => loan[t] \in overlapped

-----------------------------------------------------------------------------
(* The inductive invariant *)

\* Active threads name a loan; only FastAPI deletes; a decision writes one.
RequestsOK ==
    \A t \in Threads :
        /\ pc[t] \in Active \union {"failed"} => loan[t] \in Ids
        /\ op[t] = "decide" => want[t] \in Decisions
        /\ pc[t] = "guard" => op[t] = "decide"
        /\ op[t] = "delete" => pc[t] \in {"contains", "del"}

\* Two requests served at once on a loan are on record.
OverlapsRecorded ==
    \A t, u \in Threads :
        t # u /\ pc[t] \in Active /\ pc[u] \in Active /\ loan[t] = loan[u]
            => loan[t] \in overlapped

\* A loan that was found is still stored unless requests overlapped.
FoundIsStored ==
    \A t \in Threads :
        pc[t] \in {"guard", "relookup", "write", "answer", "del"}
        /\ loan[t] \notin overlapped => loan[t] \in stored

\* A loan is stored from its creation to its one deletion.
StoredIsCreated ==
    /\ \A i \in Ids : i \in stored => status[i] # "absent"
    /\ \A i \in Ids : status[i] = "absent" => deletes[i] = 0
    /\ \A i \in Ids : deletes[i] <= (IF i \in stored THEN 0 ELSE 1)

\* After an answered decision the loan stays decided until a PUT, so a late
\* request finds it decided; one about to decide finds it pending.
DecidedUntilPut ==
    /\ \A i \in Ids : told[i] # {} => status[i] \in Decisions
    /\ \A t \in Threads :
          /\ late[t] => pc[t] \in {"find", "guard"} /\ op[t] = "decide"
                        /\ status[loan[t]] \in Decisions
          /\ pc[t] \in {"relookup", "write"} /\ op[t] = "decide"
             /\ loan[t] \notin overlapped => status[loan[t]] = "pending"

IInv ==
    /\ TypeOK
    /\ RequestsOK
    /\ OverlapsRecorded
    /\ FoundIsStored
    /\ StoredIsCreated
    /\ DecidedUntilPut
    /\ DecisionsStandUnlessOverlap
    /\ OddAnswersNeedOverlap
==============================================================================
