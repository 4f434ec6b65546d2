----------------------- MODULE PaymentProcessorProofs -----------------------
(***************************************************************************)
(* Proofs about PaymentProcessor for any number of threads, keys and       *)
(* payments, and that its steps are those of PaymentLedger: but for        *)
(* overlapping requests, and without exception with a single thread.       *)
(***************************************************************************)
EXTENDS PaymentProcessor, TLAPS

\* Every action preserves the inductive invariant.
THEOREM InductiveStep == IInv /\ [Next]_vars => IInv'
<1> SUFFICES ASSUME IInv, [Next]_vars PROVE IInv'
  OBVIOUS
<1> USE PaymentAssumption DEF IInv, TypeOK, Stored, Initiating, Deciding, Drawn, Decisions,
        Goto, Return, store, request, history, Known, Reusable, IndexAfter, KeyStored, MayDecide,
        DecidedStatus
<1>1. ASSUME NEW t \in Threads, NEW k \in Keys \union {None}, NEW i \in Ids, StartInitiate(t, k, i)
      PROVE  IInv'
  <2> USE <1>1 DEF StartInitiate
  <2>1. TypeOK'
    OBVIOUS
  <2>2. LocalsOK'
    BY DEF LocalsOK, FreshIds
  <2>3. OverlapsRecorded'
    BY DEF OverlapsRecorded, LocalsOK, ServedOn
  <2>4. IndexedOrInFlight'
    BY DEF IndexedOrInFlight, LocalsOK
  <2>5. KeysIndexed'
    BY DEF KeysIndexed, LocalsOK
  <2>6. DuplicatesNeedOverlap'
    BY DEF DuplicatesNeedOverlap
  <2>7. DecisionsStand'
    BY DEF DecisionsStand, LocalsOK
  <2>8. ReferencesFollow'
    BY DEF ReferencesFollow, LocalsOK, OverlapsRecorded, DecisionsStand
  <2>9. ReferencedAreConfirmed'
    BY DEF ReferencedAreConfirmed, ReferencesFollow, LocalsOK, OverlapsRecorded, DecisionsStand
  <2>10. QED
    BY <2>1, <2>2, <2>3, <2>4, <2>5, <2>6, <2>7, <2>8, <2>9
<1>2. ASSUME NEW t \in Threads, LookupKey(t)
      PROVE  IInv'
  <2> USE <1>2 DEF LookupKey
  <2>1. TypeOK'
    OBVIOUS
  <2>2. LocalsOK'
    BY DEF LocalsOK
  <2>3. OverlapsRecorded'
    BY DEF OverlapsRecorded, LocalsOK
  <2>4. IndexedOrInFlight'
    BY DEF IndexedOrInFlight, LocalsOK
  <2>5. KeysIndexed'
    BY DEF KeysIndexed, LocalsOK
  <2>6. DuplicatesNeedOverlap'
    BY DEF DuplicatesNeedOverlap
  <2>7. DecisionsStand'
    BY DEF DecisionsStand, LocalsOK
  <2>8. ReferencesFollow'
    BY DEF ReferencesFollow, LocalsOK, OverlapsRecorded, DecisionsStand
  <2>9. ReferencedAreConfirmed'
    BY DEF ReferencedAreConfirmed, ReferencesFollow, LocalsOK, OverlapsRecorded, DecisionsStand
  <2>10. QED
    BY <2>1, <2>2, <2>3, <2>4, <2>5, <2>6, <2>7, <2>8, <2>9
<1>3. ASSUME NEW t \in Threads, ReuseExisting(t)
      PROVE  IInv'
  <2> USE <1>3 DEF ReuseExisting
  <2>1. TypeOK'
    OBVIOUS
  <2>2. LocalsOK'
    BY DEF LocalsOK, IndexedOrInFlight
  <2>3. OverlapsRecorded'
    BY DEF OverlapsRecorded, LocalsOK
  <2>4. IndexedOrInFlight'
    BY DEF IndexedOrInFlight, LocalsOK
  <2>5. KeysIndexed'
    BY DEF KeysIndexed, LocalsOK, IndexedOrInFlight, OverlapsRecorded
  <2>6. DuplicatesNeedOverlap'
    BY DEF DuplicatesNeedOverlap
  <2>7. DecisionsStand'
    BY DEF DecisionsStand, LocalsOK
  <2>8. ReferencesFollow'
    BY DEF ReferencesFollow, LocalsOK, OverlapsRecorded, DecisionsStand
  <2>9. ReferencedAreConfirmed'
    BY DEF ReferencedAreConfirmed, ReferencesFollow, LocalsOK, OverlapsRecorded, DecisionsStand
  <2>10. QED
    BY <2>1, <2>2, <2>3, <2>4, <2>5, <2>6, <2>7, <2>8, <2>9
<1>4. ASSUME NEW t \in Threads, IndexKey(t)
      PROVE  IInv'
  <2> USE <1>4 DEF IndexKey
  <2>1. TypeOK'
    OBVIOUS
  <2>2. LocalsOK'
    BY DEF LocalsOK
  <2>3. OverlapsRecorded'
    BY DEF OverlapsRecorded, LocalsOK
  <2>4. IndexedOrInFlight'
    BY DEF IndexedOrInFlight, LocalsOK
  <2>5. KeysIndexed'
    BY DEF KeysIndexed, LocalsOK, OverlapsRecorded
  <2>6. DuplicatesNeedOverlap'
    BY DEF DuplicatesNeedOverlap
  <2>7. DecisionsStand'
    BY DEF DecisionsStand, LocalsOK
  <2>8. ReferencesFollow'
    BY DEF ReferencesFollow, LocalsOK, OverlapsRecorded, DecisionsStand
  <2>9. ReferencedAreConfirmed'
    BY DEF ReferencedAreConfirmed, ReferencesFollow, LocalsOK, OverlapsRecorded, DecisionsStand
  <2>10. QED
    BY <2>1, <2>2, <2>3, <2>4, <2>5, <2>6, <2>7, <2>8, <2>9
<1>5. ASSUME NEW t \in Threads, StorePayment(t)
      PROVE  IInv'
  <2> USE <1>5 DEF StorePayment
  <2>1. TypeOK'
    OBVIOUS
  <2>2. LocalsOK'
    BY DEF LocalsOK
  <2>3. OverlapsRecorded'
    BY DEF OverlapsRecorded, LocalsOK
  <2>4. IndexedOrInFlight'
    BY DEF IndexedOrInFlight, LocalsOK
  <2>5. KeysIndexed'
    BY DEF KeysIndexed, LocalsOK, OverlapsRecorded
  <2>6. DuplicatesNeedOverlap'
    BY DEF DuplicatesNeedOverlap, KeysIndexed
  <2>7. DecisionsStand'
    BY DEF DecisionsStand, LocalsOK
  <2>8. ReferencesFollow'
    BY DEF ReferencesFollow, LocalsOK, OverlapsRecorded, DecisionsStand
  <2>9. ReferencedAreConfirmed'
    BY DEF ReferencedAreConfirmed, ReferencesFollow, LocalsOK, OverlapsRecorded, DecisionsStand
  <2>10. QED
    BY <2>1, <2>2, <2>3, <2>4, <2>5, <2>6, <2>7, <2>8, <2>9
<1>6. ASSUME NEW t \in Threads, AnswerInitiate(t)
      PROVE  IInv'
  <2> USE <1>6 DEF AnswerInitiate
  <2>1. TypeOK'
    <3>1. told' \in [Keys -> SUBSET Ids]
      <4>1. pid[t] \in Ids
        BY DEF LocalsOK
      <4>2. CASE key[t] = None
        BY <4>2
      <4>3. CASE key[t] \in Keys
        BY <4>1, <4>3
      <4>4. QED
        BY <4>2, <4>3
    <3>2. QED
      BY <3>1
  <2>2. LocalsOK'
    BY DEF LocalsOK
  <2>3. OverlapsRecorded'
    BY DEF OverlapsRecorded, LocalsOK
  <2>4. IndexedOrInFlight'
    BY DEF IndexedOrInFlight, LocalsOK
  <2>5. KeysIndexed'
    BY DEF KeysIndexed, LocalsOK
  <2>6. DuplicatesNeedOverlap'
    BY DEF DuplicatesNeedOverlap
  <2>7. DecisionsStand'
    BY DEF DecisionsStand, LocalsOK
  <2>8. ReferencesFollow'
    BY DEF ReferencesFollow, LocalsOK, OverlapsRecorded, DecisionsStand
  <2>9. ReferencedAreConfirmed'
    BY DEF ReferencedAreConfirmed, ReferencesFollow, LocalsOK, OverlapsRecorded, DecisionsStand
  <2>10. QED
    BY <2>1, <2>2, <2>3, <2>4, <2>5, <2>6, <2>7, <2>8, <2>9
<1>7. ASSUME NEW t \in Threads, NEW i \in Ids, NEW d \in Decisions,
             NEW r \in BOOLEAN, StartDecision(t, i, d, r)
      PROVE  IInv'
  <2> USE <1>7 DEF StartDecision
  <2>1. TypeOK'
    OBVIOUS
  <2>2. LocalsOK'
    BY DEF LocalsOK
  <2>3. OverlapsRecorded'
    BY DEF OverlapsRecorded, LocalsOK, ServedOn
  <2>4. IndexedOrInFlight'
    BY DEF IndexedOrInFlight, LocalsOK
  <2>5. KeysIndexed'
    BY DEF KeysIndexed, LocalsOK
  <2>6. DuplicatesNeedOverlap'
    BY DEF DuplicatesNeedOverlap
  <2>7. DecisionsStand'
    BY DEF DecisionsStand, LocalsOK
  <2>8. ReferencesFollow'
    BY DEF ReferencesFollow, LocalsOK, OverlapsRecorded, DecisionsStand
  <2>9. ReferencedAreConfirmed'
    BY DEF ReferencedAreConfirmed, ReferencesFollow, LocalsOK, OverlapsRecorded, DecisionsStand
  <2>10. QED
    BY <2>1, <2>2, <2>3, <2>4, <2>5, <2>6, <2>7, <2>8, <2>9
<1>8. ASSUME NEW t \in Threads, CheckPending(t)
      PROVE  IInv'
  <2> USE <1>8 DEF CheckPending
  <2>1. TypeOK'
    BY ZenonT(60)
  <2>2. LocalsOK'
    BY DEF LocalsOK
  <2>3. OverlapsRecorded'
    BY DEF OverlapsRecorded, LocalsOK
  <2>4. IndexedOrInFlight'
    BY DEF IndexedOrInFlight, LocalsOK
  <2>5. KeysIndexed'
    BY SMTT(20) DEF KeysIndexed, LocalsOK
  <2>6. DuplicatesNeedOverlap'
    BY DEF DuplicatesNeedOverlap
  <2>7. DecisionsStand'
    BY DEF DecisionsStand, LocalsOK
  <2>8. ReferencesFollow'
    BY DEF ReferencesFollow, LocalsOK, OverlapsRecorded, DecisionsStand
  <2>9. ReferencedAreConfirmed'
    BY DEF ReferencedAreConfirmed, ReferencesFollow, LocalsOK, OverlapsRecorded, DecisionsStand
  <2>10. QED
    BY <2>1, <2>2, <2>3, <2>4, <2>5, <2>6, <2>7, <2>8, <2>9
<1>9. ASSUME NEW t \in Threads, SetStatus(t)
      PROVE  IInv'
  <2> USE <1>9 DEF SetStatus
  <2>1. /\ pid[t] \in Ids /\ verb[t] \in Decisions
        /\ status[pid[t]] # "absent"
    BY DEF LocalsOK, DecisionsStand
  <2>2. /\ status' = [status EXCEPT ![pid[t]] = verb[t]]
        /\ status' \in [Ids -> {"absent", "pending"} \union Decisions]
    BY <2>1
  <2>3. Stored' = Stored
    BY <2>1, <2>2
  <2>4. TypeOK'
    BY <2>2
  <2> HIDE DEF Stored
  <2>5. LocalsOK'
    BY <2>3 DEF LocalsOK
  <2>6. OverlapsRecorded'
    BY DEF OverlapsRecorded
  <2>7. IndexedOrInFlight'
    BY <2>3 DEF IndexedOrInFlight
  <2>8. KeysIndexed'
    BY <2>3 DEF KeysIndexed
  <2>9. DuplicatesNeedOverlap'
    BY <2>3 DEF DuplicatesNeedOverlap
  <2>10. DecisionsStand'
    BY <2>1, <2>2 DEF DecisionsStand, OverlapsRecorded, LocalsOK
  <2>11. ReferencesFollow'
    BY DEF ReferencesFollow, LocalsOK, OverlapsRecorded, DecisionsStand
  <2>12. ReferencedAreConfirmed'
    BY DEF ReferencedAreConfirmed, ReferencesFollow, LocalsOK, OverlapsRecorded, DecisionsStand
  <2>13. QED
    BY <2>4, <2>5, <2>6, <2>7, <2>8, <2>9, <2>10, <2>11, <2>12
<1>10. ASSUME NEW t \in Threads, AnswerDecision(t)
      PROVE  IInv'
  <2> USE <1>10 DEF AnswerDecision
  <2>1. TypeOK'
    <3>1. pid[t] \in Ids /\ status[pid[t]] \in Decisions
      BY DEF LocalsOK, DecisionsStand
    <3>2. receipts' \in [Ids -> SUBSET Decisions]
      BY <3>1
    <3>3. QED
      BY <3>2
  <2>2. LocalsOK'
    BY DEF LocalsOK
  <2>3. OverlapsRecorded'
    BY DEF OverlapsRecorded, LocalsOK
  <2>4. IndexedOrInFlight'
    BY DEF IndexedOrInFlight, LocalsOK
  <2>5. KeysIndexed'
    BY DEF KeysIndexed, LocalsOK
  <2>6. DuplicatesNeedOverlap'
    BY DEF DuplicatesNeedOverlap
  <2>7. DecisionsStand'
    BY DEF DecisionsStand, LocalsOK
  <2>8. ReferencesFollow'
    BY DEF ReferencesFollow, LocalsOK, OverlapsRecorded, DecisionsStand
  <2>9. ReferencedAreConfirmed'
    BY DEF ReferencedAreConfirmed, ReferencesFollow, LocalsOK, OverlapsRecorded, DecisionsStand
  <2>10. QED
    BY <2>1, <2>2, <2>3, <2>4, <2>5, <2>6, <2>7, <2>8, <2>9
<1>11. ASSUME NEW t \in Threads, SetReference(t)
      PROVE  IInv'
  <2> USE <1>11 DEF SetReference
  <2>1. TypeOK'
    BY DEF LocalsOK
  <2>2. LocalsOK'
    BY DEF LocalsOK
  <2>3. OverlapsRecorded'
    BY DEF OverlapsRecorded, LocalsOK
  <2>4. IndexedOrInFlight'
    BY DEF IndexedOrInFlight, LocalsOK
  <2>5. KeysIndexed'
    BY DEF KeysIndexed, LocalsOK
  <2>6. DuplicatesNeedOverlap'
    BY DEF DuplicatesNeedOverlap
  <2>7. DecisionsStand'
    BY DEF DecisionsStand, LocalsOK
  <2>8. ReferencesFollow'
    BY DEF ReferencesFollow, LocalsOK
  <2>9. ReferencedAreConfirmed'
    BY DEF ReferencedAreConfirmed, ReferencesFollow, LocalsOK
  <2>10. QED
    BY <2>1, <2>2, <2>3, <2>4, <2>5, <2>6, <2>7, <2>8, <2>9
<1>12. CASE UNCHANGED vars
  BY <1>12 DEF vars, LocalsOK, OverlapsRecorded, IndexedOrInFlight, KeysIndexed,
     DuplicatesNeedOverlap, DecisionsStand, ReferencesFollow, ReferencedAreConfirmed
<1>13. QED
  BY <1>1, <1>2, <1>3, <1>4, <1>5, <1>6, <1>7, <1>8, <1>9, <1>10, <1>11, <1>12
     DEF Next, Start, Step

\* The inductive invariant holds initially and so always.
THEOREM InductiveInvariant == Spec => []IInv
<1>1. Init => IInv
  BY PaymentAssumption
     DEF Init, IInv, TypeOK, Stored, Initiating, Deciding, Drawn, Decisions, LocalsOK,
         OverlapsRecorded, IndexedOrInFlight, KeysIndexed, DuplicatesNeedOverlap,
         DecisionsStand, ReferencesFollow, ReferencedAreConfirmed
<1>2. QED
  BY <1>1, InductiveStep, PTL DEF Spec

\* Payments, indexes and answers are of their kinds.
THEOREM TypeCorrect == Spec => []TypeOK
<1>1. IInv => TypeOK
  BY DEF IInv
<1>2. QED
  BY <1>1, InductiveInvariant, PTL

\* The second lookup of initiate misses only while another thread stores.
THEOREM IndexNeverDangles == Spec => []IndexedOrInFlight
<1>1. IInv => IndexedOrInFlight
  BY DEF IInv
<1>2. QED
  BY <1>1, InductiveInvariant, PTL

\* Requests served one after the other never create a duplicate payment.
THEOREM SerialKeysAreUnique == Spec => []DuplicatesNeedOverlap
<1>1. IInv => DuplicatesNeedOverlap
  BY DEF IInv
<1>2. QED
  BY <1>1, InductiveInvariant, PTL

\* Requests served one after the other never both confirm and cancel.
THEOREM SerialDecisionsAreFinal == Spec => []FlipsNeedOverlap
<1>1. IInv => FlipsNeedOverlap
  <2> SUFFICES ASSUME IInv, NEW i \in Ids, receipts[i] = Decisions, i \notin overlapped
               PROVE  FALSE
    BY DEF FlipsNeedOverlap
  <2>1. Decisions \subseteq {status[i]}
    BY DEF IInv, DecisionsStand
  <2>2. QED
    BY <2>1 DEF Decisions
<1>2. QED
  BY <1>1, InductiveInvariant, PTL

\* Requests served one after the other never give a reference to a payment
\* that is not confirmed.
THEOREM ReferencesAreSound == Spec => []ReferencedAreConfirmed
<1>1. IInv => ReferencedAreConfirmed
  BY DEF IInv
<1>2. QED
  BY <1>1, InductiveInvariant, PTL

\* A decision asked for after another was answered never goes through, under
\* any interleaving.
THEOREM AnsweredDecisionsBind == Spec => []LateDecisionRefused
<1>1. IInv => LateDecisionRefused
  BY DEF IInv, DecisionsStand, LateDecisionRefused
<1>2. QED
  BY <1>1, InductiveInvariant, PTL

-----------------------------------------------------------------------------
(* The ledger                                                              *)

\* Every step of the service is a step of the ledger or leaves it unchanged, unless
\* it is of an overlapped request.
LEMMA LedgerStep ==
    IInv /\ [Next]_vars
        => [Ledger!Next]_(Ledger!vars) \/ \E t \in Threads : OverlappedStep(t)
<1> SUFFICES ASSUME IInv, [Next]_vars, ~\E t \in Threads : OverlappedStep(t)
             PROVE  [Ledger!Next]_(Ledger!vars)
  OBVIOUS
<1> USE DEF IInv, TypeOK, Ledger!vars, Ledger!Next
<1>1. ASSUME NEW t \in Threads, StorePayment(t)
      PROVE  Ledger!Next
  <2>1. pid[t] \in Ids /\ key[t] \in Keys \union {None} /\ status[pid[t]] = "absent"
    BY <1>1 DEF StorePayment, LocalsOK, Drawn, Initiating, Stored
  <2>0. key[t] \notin overlapped
    BY <1>1 DEF OverlappedStep, StorePayment, Goto
  <2>2. key[t] \in Keys => \A i \in Ids : keyOf[i] # key[t]
    BY <1>1, <2>0, PaymentAssumption DEF StorePayment, KeysIndexed, Stored
  <2>3. Ledger!Create(pid[t], key[t])
    BY <1>1, <2>1, <2>2 DEF StorePayment, KeyStored, Ledger!Create, history
  <2>4. QED
    BY <2>1, <2>3
<1>2. ASSUME NEW t \in Threads, AnswerInitiate(t)
      PROVE  [Ledger!Next]_(Ledger!vars)
  <2>1. CASE key[t] = None
    BY <1>2, <2>1 DEF AnswerInitiate, store
  <2>2. CASE key[t] \in Keys
    <3>1. pid[t] \in Ids /\ keyOf[pid[t]] = key[t]
      BY <1>2 DEF AnswerInitiate, LocalsOK, Initiating
    <3>2. Ledger!AnswerInitiate(pid[t], key[t])
      BY <1>2, <2>2, <3>1, PaymentAssumption
         DEF AnswerInitiate, Ledger!AnswerInitiate, store
    <3>3. QED
      BY <2>2, <3>1, <3>2
  <2>3. QED
    BY <2>1, <2>2
<1>3. ASSUME NEW t \in Threads, SetStatus(t)
      PROVE  Ledger!Next
  <2>0. pid[t] \notin overlapped
    BY <1>3 DEF OverlappedStep, SetStatus, Goto
  <2>1. pid[t] \in Ids /\ verb[t] \in Decisions /\ status[pid[t]] = "pending"
    BY <1>3, <2>0 DEF SetStatus, LocalsOK, DecisionsStand, Deciding
  <2>2. Ledger!Decide(pid[t], verb[t])
    BY <1>3, <2>1 DEF SetStatus, DecidedStatus, Ledger!Decide, history
  <2>3. QED
    BY <2>1, <2>2 DEF Decisions
<1>4. ASSUME NEW t \in Threads, AnswerDecision(t)
      PROVE  Ledger!Next
  <2>1. pid[t] \in Ids /\ status[pid[t]] \in Decisions
    BY <1>4 DEF AnswerDecision, LocalsOK, DecisionsStand, Deciding
  <2>2. Ledger!AnswerDecision(pid[t])
    BY <1>4, <2>1 DEF AnswerDecision, Ledger!AnswerDecision, store, Decisions
  <2>3. QED
    BY <2>1, <2>2
<1>5. ASSUME NEW t \in Threads, Start(t)
      PROVE  UNCHANGED Ledger!vars
  BY <1>5 DEF Start, StartInitiate, StartDecision, store
<1>6. ASSUME NEW t \in Threads,
             LookupKey(t) \/ ReuseExisting(t) \/ IndexKey(t) \/ CheckPending(t) \/ SetReference(t)
      PROVE  UNCHANGED Ledger!vars
  BY <1>6 DEF LookupKey, ReuseExisting, IndexKey, CheckPending, SetReference, store, history
<1>7. CASE UNCHANGED vars
  BY <1>7 DEF vars
<1>8. QED
  BY <1>1, <1>2, <1>3, <1>4, <1>5, <1>6, <1>7 DEF Next, Step

\* Whatever overlaps elsewhere, requests without overlap keep to the ledger.
THEOREM Refinement == Spec => ImplementsLedger
<1>1. Init => Ledger!Init
  BY DEF Init, Ledger!Init
<1>2. QED
  BY <1>1, LedgerStep, InductiveInvariant, PTL DEF Spec, ImplementsLedger

-----------------------------------------------------------------------------
(* A single thread                                                         *)

OneThread == \A t, u \in Threads : t = u

\* A single thread never serves two requests at once.
LEMMA NoOverlap ==
    ASSUME OneThread
    PROVE  Spec => [](overlapped = {})
<1>1. Init => overlapped = {}
  BY DEF Init
<1>2. overlapped = {} /\ [Next]_vars => (overlapped = {})'
  <2> SUFFICES ASSUME overlapped = {}, [Next]_vars
               PROVE  overlapped' = {}
    OBVIOUS
  <2>1. ASSUME NEW t \in Threads, pc[t] = "idle", NEW x
        PROVE  ServedOn(x) = {}
    BY <2>1, OneThread DEF OneThread, ServedOn, Initiating, Deciding
  <2>2. ASSUME NEW t \in Threads, Start(t)
        PROVE  overlapped' = {}
    BY <2>1, <2>2 DEF Start, StartInitiate, StartDecision
  <2>3. ASSUME NEW t \in Threads, Step(t)
        PROVE  overlapped' = {}
    BY <2>3 DEF Step, LookupKey, ReuseExisting, IndexKey, StorePayment, AnswerInitiate,
                CheckPending, SetStatus, SetReference, AnswerDecision, history
  <2>4. QED
    BY <2>2, <2>3 DEF Next, vars
<1>3. QED
  BY <1>1, <1>2, PTL DEF Spec


\* With a single thread, Node's event loop, the service implements the ledger.
THEOREM SingleThreadRefinement ==
    ASSUME OneThread
    PROVE  Spec => Ledger!Spec
<1>1. Init => Ledger!Init
  BY DEF Init, Ledger!Init
<1>2. overlapped = {} => ~\E t \in Threads : OverlappedStep(t)
  BY DEF OverlappedStep
<1>3. QED
  BY <1>1, <1>2, LedgerStep, NoOverlap, InductiveInvariant, PTL DEF Spec, Ledger!Spec
=============================================================================
