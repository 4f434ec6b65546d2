-------------------------- MODULE LoanServiceProofs --------------------------
(***************************************************************************)
(* Proofs about the two stores of loans: the dict of LoanService, for any  *)
(* number of threads and loans in both applications, and the table of      *)
(* DataAccess, for any number of transactions, loans and statuses.         *)
(***************************************************************************)
EXTENDS LoanService, DataAccess, TLAPS

\* Every action preserves the inductive invariant.
THEOREM InductiveStep == IInv /\ [Next]_vars => IInv'
<1> SUFFICES ASSUME IInv, [Next]_vars PROVE IInv'
  OBVIOUS
<1> USE LoanAssumption DEF IInv, TypeOK, VALID_STATUSES, Decisions, Active, Ops, Goto, Return,
        request, history, Found, MayDecide, Deletable
<1>1. ASSUME NEW i \in Ids, Create(i)
      PROVE  IInv'
  <2> USE <1>1 DEF Create
  <2>0. HoldsLoan'
    BY DEF HoldsLoan, RequestsOK, StoredIsCreated
  <2>1. TypeOK'
    BY <2>0
  <2>2. RequestsOK'
    BY DEF RequestsOK
  <2>3. OverlapsRecorded'
    BY DEF OverlapsRecorded
  <2>4. FoundIsStored'
    BY DEF FoundIsStored
  <2>5. StoredIsCreated'
    BY DEF StoredIsCreated
  <2>6. DecidedUntilPut'
    BY DEF DecidedUntilPut, StoredIsCreated, RequestsOK
  <2>7. DecisionsStandUnlessOverlap'
    BY DEF DecisionsStandUnlessOverlap, StoredIsCreated, DecidedUntilPut, RequestsOK
  <2>8. OddAnswersNeedOverlap'
    BY DEF OddAnswersNeedOverlap
  <2>9. QED
    BY <2>1, <2>2, <2>3, <2>4, <2>5, <2>6, <2>7, <2>8
<1>2. ASSUME NEW t \in Threads, NEW i \in Ids, NEW o \in Ops, NEW s \in VALID_STATUSES,
             Start(t, i, o, s)
      PROVE  IInv'
  <2> USE <1>2 DEF Start
  <2>0. HoldsLoan'
    BY DEF HoldsLoan, RequestsOK, StoredIsCreated
  <2>1. TypeOK'
    BY <2>0
  <2>2. RequestsOK'
    BY DEF RequestsOK
  <2>3. OverlapsRecorded'
    BY DEF OverlapsRecorded, ServedOn
  <2>4. FoundIsStored'
    BY DEF FoundIsStored, RequestsOK
  <2>5. StoredIsCreated'
    BY DEF StoredIsCreated, RequestsOK
  <2>6. DecidedUntilPut'
    BY DEF DecidedUntilPut, RequestsOK
  <2>7. DecisionsStandUnlessOverlap'
    BY DEF DecisionsStandUnlessOverlap, RequestsOK
  <2>8. OddAnswersNeedOverlap'
    BY DEF OddAnswersNeedOverlap, RequestsOK
  <2>9. QED
    BY <2>1, <2>2, <2>3, <2>4, <2>5, <2>6, <2>7, <2>8
<1>3. ASSUME NEW t \in Threads, Find(t)
      PROVE  IInv'
  <2> USE <1>3 DEF Find, BeforeWrite
  <2>0. HoldsLoan'
    BY DEF HoldsLoan, RequestsOK, StoredIsCreated
  <2>1. TypeOK'
    BY <2>0
  <2>2. RequestsOK'
    BY DEF RequestsOK
  <2>3. OverlapsRecorded'
    BY DEF OverlapsRecorded
  <2>4. FoundIsStored'
    BY DEF FoundIsStored, RequestsOK
  <2>5. StoredIsCreated'
    BY DEF StoredIsCreated, RequestsOK
  <2>6. DecidedUntilPut'
    BY DEF DecidedUntilPut, RequestsOK
  <2>7. DecisionsStandUnlessOverlap'
    BY DEF DecisionsStandUnlessOverlap, RequestsOK
  <2>8. OddAnswersNeedOverlap'
    BY DEF OddAnswersNeedOverlap, RequestsOK
  <2>9. QED
    BY <2>1, <2>2, <2>3, <2>4, <2>5, <2>6, <2>7, <2>8
<1>4. ASSUME NEW t \in Threads, Guard(t)
      PROVE  IInv'
  <2> USE <1>4 DEF Guard, BeforeWrite
  <2>0. HoldsLoan'
    BY DEF HoldsLoan, RequestsOK, StoredIsCreated
  <2>1. TypeOK'
    BY ZenonT(60), <2>0
  <2>2. RequestsOK'
    BY DEF RequestsOK
  <2>3. OverlapsRecorded'
    BY DEF OverlapsRecorded
  <2>4. FoundIsStored'
    BY DEF FoundIsStored, RequestsOK
  <2>5. StoredIsCreated'
    BY DEF StoredIsCreated, RequestsOK
  <2>6. DecidedUntilPut'
    BY DEF DecidedUntilPut, RequestsOK
  <2>7. DecisionsStandUnlessOverlap'
    BY DEF DecisionsStandUnlessOverlap, RequestsOK
  <2>8. OddAnswersNeedOverlap'
    BY DEF OddAnswersNeedOverlap, RequestsOK
  <2>9. QED
    BY <2>1, <2>2, <2>3, <2>4, <2>5, <2>6, <2>7, <2>8
<1>5. ASSUME NEW t \in Threads, Relookup(t)
      PROVE  IInv'
  <2> USE <1>5 DEF Relookup
  <2>0. HoldsLoan'
    BY DEF HoldsLoan, RequestsOK, StoredIsCreated
  <2>1. TypeOK'
    BY <2>0
  <2>2. RequestsOK'
    BY DEF RequestsOK
  <2>3. OverlapsRecorded'
    BY DEF OverlapsRecorded
  <2>4. FoundIsStored'
    BY DEF FoundIsStored, RequestsOK, OverlapsRecorded, DecidedUntilPut
  <2>5. StoredIsCreated'
    BY DEF StoredIsCreated, RequestsOK
  <2>6. DecidedUntilPut'
    BY DEF DecidedUntilPut, RequestsOK, OverlapsRecorded, FoundIsStored
  <2>7. DecisionsStandUnlessOverlap'
    BY DEF DecisionsStandUnlessOverlap, RequestsOK, OverlapsRecorded, FoundIsStored, DecidedUntilPut
  <2>8. OddAnswersNeedOverlap'
    BY DEF OddAnswersNeedOverlap, RequestsOK, OverlapsRecorded, FoundIsStored, DecidedUntilPut
  <2>9. QED
    BY <2>1, <2>2, <2>3, <2>4, <2>5, <2>6, <2>7, <2>8
<1>6. ASSUME NEW t \in Threads, Write(t)
      PROVE  IInv'
  <2> USE <1>6 DEF Write
  <2>0. HoldsLoan'
    BY DEF HoldsLoan, RequestsOK, StoredIsCreated
  <2>1. TypeOK'
    BY ZenonT(60), <2>0
  <2>2. RequestsOK'
    BY DEF RequestsOK
  <2>3. OverlapsRecorded'
    BY DEF OverlapsRecorded
  <2>4. FoundIsStored'
    BY DEF FoundIsStored, RequestsOK, OverlapsRecorded, DecidedUntilPut
  <2>5. StoredIsCreated'
    BY DEF StoredIsCreated, RequestsOK
  <2>6. DecidedUntilPut'
    BY DEF DecidedUntilPut, RequestsOK, OverlapsRecorded, FoundIsStored
  <2>7. DecisionsStandUnlessOverlap'
    BY DEF DecisionsStandUnlessOverlap, RequestsOK, OverlapsRecorded, FoundIsStored, DecidedUntilPut
  <2>8. OddAnswersNeedOverlap'
    BY DEF OddAnswersNeedOverlap, RequestsOK, OverlapsRecorded, FoundIsStored, DecidedUntilPut
  <2>9. QED
    BY <2>1, <2>2, <2>3, <2>4, <2>5, <2>6, <2>7, <2>8
<1>7. ASSUME NEW t \in Threads, Answer(t)
      PROVE  IInv'
  <2> USE <1>7 DEF Answer
  <2>0. HoldsLoan'
    BY DEF HoldsLoan, RequestsOK, StoredIsCreated
  <2>1. TypeOK'
    BY <2>0
  <2>2. RequestsOK'
    BY DEF RequestsOK
  <2>3. OverlapsRecorded'
    BY DEF OverlapsRecorded
  <2>4. FoundIsStored'
    BY DEF FoundIsStored, RequestsOK, OverlapsRecorded, DecidedUntilPut
  <2>5. StoredIsCreated'
    BY DEF StoredIsCreated, RequestsOK
  <2>6. DecidedUntilPut'
    BY DEF DecidedUntilPut, RequestsOK, OverlapsRecorded, FoundIsStored
  <2>7. DecisionsStandUnlessOverlap'
    BY DEF DecisionsStandUnlessOverlap, RequestsOK, OverlapsRecorded, FoundIsStored, DecidedUntilPut
  <2>8. OddAnswersNeedOverlap'
    BY DEF OddAnswersNeedOverlap, RequestsOK, OverlapsRecorded, FoundIsStored, DecidedUntilPut
  <2>9. QED
    BY <2>1, <2>2, <2>3, <2>4, <2>5, <2>6, <2>7, <2>8
<1>8. ASSUME NEW t \in Threads, Contains(t)
      PROVE  IInv'
  <2> USE <1>8 DEF Contains
  <2>0. HoldsLoan'
    BY DEF HoldsLoan, RequestsOK, StoredIsCreated
  <2>1. TypeOK'
    BY <2>0
  <2>2. RequestsOK'
    BY DEF RequestsOK
  <2>3. OverlapsRecorded'
    BY DEF OverlapsRecorded
  <2>4. FoundIsStored'
    BY DEF FoundIsStored, RequestsOK
  <2>5. StoredIsCreated'
    BY DEF StoredIsCreated, RequestsOK
  <2>6. DecidedUntilPut'
    BY DEF DecidedUntilPut, RequestsOK
  <2>7. DecisionsStandUnlessOverlap'
    BY DEF DecisionsStandUnlessOverlap, RequestsOK
  <2>8. OddAnswersNeedOverlap'
    BY DEF OddAnswersNeedOverlap, RequestsOK
  <2>9. QED
    BY <2>1, <2>2, <2>3, <2>4, <2>5, <2>6, <2>7, <2>8
<1>9. ASSUME NEW t \in Threads, Del(t)
      PROVE  IInv'
  <2> USE <1>9 DEF Del
  <2>0. HoldsLoan'
    BY DEF HoldsLoan
  <2>1. TypeOK'
    <3>1. loan[t] \in Ids
      BY DEF RequestsOK
    <3>2. CASE loan[t] \in stored
      <4>1. deletes' \in [Ids -> Nat]
        BY <3>1, <3>2
      <4>2. QED
        BY ZenonT(60), <2>0, <3>2, <4>1
    <3>3. CASE loan[t] \notin stored
      BY ZenonT(60), <2>0, <3>3
    <3>4. QED
      BY <3>2, <3>3
  <2>2. RequestsOK'
    BY DEF RequestsOK
  <2>3. OverlapsRecorded'
    BY DEF OverlapsRecorded
  <2>4. FoundIsStored'
    BY DEF FoundIsStored, RequestsOK, OverlapsRecorded, DecidedUntilPut
  <2>5. StoredIsCreated'
    BY DEF StoredIsCreated, RequestsOK
  <2>6. DecidedUntilPut'
    BY DEF DecidedUntilPut, RequestsOK, OverlapsRecorded, FoundIsStored
  <2>7. DecisionsStandUnlessOverlap'
    BY DEF DecisionsStandUnlessOverlap, RequestsOK, OverlapsRecorded, FoundIsStored, DecidedUntilPut
  <2>8. OddAnswersNeedOverlap'
    BY DEF OddAnswersNeedOverlap, RequestsOK, OverlapsRecorded, FoundIsStored, DecidedUntilPut
  <2>9. QED
    BY <2>1, <2>2, <2>3, <2>4, <2>5, <2>6, <2>7, <2>8
<1>10. CASE UNCHANGED vars
  BY <1>10 DEF vars, HoldsLoan, RequestsOK, OverlapsRecorded, FoundIsStored,
     StoredIsCreated, DecidedUntilPut, DecisionsStandUnlessOverlap, OddAnswersNeedOverlap
<1>11. QED
  BY <1>1, <1>2, <1>3, <1>4, <1>5, <1>6, <1>7, <1>8, <1>9, <1>10 DEF Next, Step

\* The inductive invariant holds initially and so always.
THEOREM InductiveInvariant == Spec => []IInv
<1>1. Init => IInv
  BY LoanAssumption
     DEF Init, IInv, TypeOK, VALID_STATUSES, Decisions, Active, Ops, HoldsLoan, RequestsOK,
         OverlapsRecorded, FoundIsStored, StoredIsCreated, DecidedUntilPut,
         DecisionsStandUnlessOverlap, OddAnswersNeedOverlap
<1>2. QED
  BY <1>1, InductiveStep, PTL DEF Spec

\* Loans, requests and answers are of their kinds.
THEOREM TypeCorrect == Spec => []TypeOK
<1>1. IInv => TypeOK
  BY DEF IInv
<1>2. QED
  BY <1>1, InductiveInvariant, PTL

\* Decisions asked for after an answered one never go through, under any
\* interleaving with deletions, other decisions and status PUTs.
THEOREM AnsweredDecisionsBind == Spec => []LateDecisionRefused
<1>1. IInv => LateDecisionRefused
  BY DEF IInv, DecidedUntilPut, LateDecisionRefused
<1>2. QED
  BY <1>1, InductiveInvariant, PTL

\* Requests served one after the other on a loan never overturn a decision.
THEOREM SerialDecisionsStand == Spec => []DecisionsStandUnlessOverlap
<1>1. IInv => DecisionsStandUnlessOverlap
  BY DEF IInv
<1>2. QED
  BY <1>1, InductiveInvariant, PTL

\* At most one of any number of racing DELETEs of a loan is answered 204.
THEOREM OneDeleteWins == Spec => []DeletedOnce
<1>1. IInv => DeletedOnce
  BY DEF IInv, TypeOK, StoredIsCreated, DeletedOnce
<1>2. QED
  BY <1>1, InductiveInvariant, PTL

\* Requests served one after the other on a loan are never answered 500, and
\* never with the status of a deleted loan.
THEOREM OddAnswersAreRaces == Spec => []OddAnswersNeedOverlap
<1>1. IInv => OddAnswersNeedOverlap
  BY DEF IInv
<1>2. QED
  BY <1>1, InductiveInvariant, PTL

-----------------------------------------------------------------------------
(* The table: steps of a session that leave the database alone             *)

\* What every step keeps that is said of the other sessions, and what it has to
\* establish of its own: the rows as each session sees them do not change.
LEMMA OwnStep ==
  ASSUME DAInv, DATypeOK', NEW s \in Sessions,
         UNCHANGED <<table, lock, draft, applied, lost, disturbed>>,
         \A o \in Sessions : o # s =>
           /\ stage'[o] = stage[o] /\ stmt'[o] = stmt[o] /\ seen'[o] = seen[o]
           /\ promised'[o] = promised[o] /\ ghosts'[o] = ghosts[o],
         stage[s] # "committed", stage'[s] \in {"open", "flush", "raised"},
         \A k \in LoanIds :
           Running(s)' /\ seen'[s][k] # Null /\ k \notin disturbed[s] =>
             seen'[s][k] = Visible(s, k) \/ (stage'[s] = "flush" /\ stmt'[s].id = k),
         Running(s)' =>
           \A k \in DOMAIN promised'[s] \ disturbed[s] : Visible(s, k) = promised'[s][k],
         stage'[s] = "flush" /\ stmt'[s].kind # "insert" /\ stmt'[s].id \notin disturbed[s] =>
           Visible(s, stmt'[s].id) # Null /\ ~stmt'[s].missed,
         ghosts'[s] \subseteq disturbed[s]
  PROVE  DAInv'
<1>1. \A o \in Sessions : \A k : Visible(o, k)' = Visible(o, k)
  BY DEF Visible
<1>2. BeginsEmpty'
  BY DEF DAInv, BeginsEmpty
<1>3. InstancesTrue'
  BY <1>1 DEF DAInv, InstancesTrue, Running
<1>4. PromisesVisible'
  BY <1>1 DEF DAInv, PromisesVisible, Running
<1>5. FoundIsThere'
  BY <1>1 DEF DAInv, FoundIsThere
<1>6. AllOrNothing'
  BY DEF DAInv, AllOrNothing
<1>7. GhostsNeedOverlap'
  BY DEF DAInv, GhostsNeedOverlap
<1>8. QED
  BY <1>2, <1>3, <1>4, <1>5, <1>6, <1>7 DEF DAInv

\* A session that has not ended and leaves the database alone keeps the types,
\* if its own variables do.
LEMMA MovedType ==
  ASSUME DAInv, NEW s \in Sessions, NEW to \in {"open", "flush", "raised"},
         stage[s] \notin Ended, to = "flush" => stmt'[s] \in Statement,
         stage' = [stage EXCEPT ![s] = to],
         UNCHANGED <<table, lock, draft, applied, lost, disturbed>>,
         stmt' \in [Sessions -> Statement \cup {Null}],
         \A o \in Sessions : o # s => stmt'[o] = stmt[o],
         seen' \in [Sessions -> [LoanIds -> Row]], ops' \in [Sessions -> 0 .. MaxOps],
         promised' \in [Sessions -> Promises], ghosts' \in [Sessions -> SUBSET LoanIds]
  PROVE  DATypeOK'
<1>1. stage' \in [Sessions -> {"new", "open", "flush", "raised"} \cup Ended]
  BY DEF DAInv, DATypeOK
<1>2. stage'[s] = to /\ \A o \in Sessions : o # s => stage'[o] = stage[o]
  BY DEF DAInv, DATypeOK
<1>3. \A o \in Sessions : stage'[o] = "flush" => stmt'[o] \in Statement
  BY <1>2 DEF DAInv, DATypeOK
<1>4. \A k \in LoanIds : IF lock'[k] = Null THEN draft'[k] = Null
                     ELSE stage'[lock'[k]] \notin Ended \cup {"new"}
  BY <1>2 DEF DAInv, DATypeOK, Ended
<1>5. QED
  BY <1>1, <1>3, <1>4 DEF DAInv, DATypeOK

LEMMA BeginStep ==
  ASSUME DAInv, NEW s \in Sessions, Begin(s)
  PROVE  DAInv'
<1>1. /\ stage[s] = "new" /\ stage' = [stage EXCEPT ![s] = "open"]
      /\ UNCHANGED <<table, lock, draft, stmt, seen, ops,
                     promised, applied, ghosts, lost, disturbed>>
  BY DEF Begin, db, DAhistory
<1>2. DATypeOK'
  BY <1>1, MovedType DEF DAInv, DATypeOK, Ended
<1>3. stage'[s] = "open" /\ \A o \in Sessions : o # s => stage'[o] = stage[o]
  BY <1>1 DEF DAInv, DATypeOK
<1>4. DOMAIN promised[s] = {} /\ \A k \in LoanIds : seen[s][k] = Null
  BY <1>1 DEF DAInv, BeginsEmpty
<1>5. ghosts[s] \subseteq disturbed[s]
  BY DEF DAInv, GhostsNeedOverlap
<1>6. QED
  BY <1>1, <1>2, <1>3, <1>4, <1>5, OwnStep

LEMMA RejectStep ==
  ASSUME DAInv, NEW s \in Sessions, Reject(s)
  PROVE  DAInv'
<1>1. /\ stage[s] = "open" /\ stage' = [stage EXCEPT ![s] = "raised"]
      /\ UNCHANGED <<table, lock, draft, stmt, seen, ops,
                     promised, applied, ghosts, lost, disturbed>>
  BY DEF Reject, db, DAhistory
<1>2. DATypeOK'
  BY <1>1, MovedType DEF DAInv, DATypeOK, Ended
<1>3. stage'[s] = "raised" /\ \A o \in Sessions : o # s => stage'[o] = stage[o]
  BY <1>1 DEF DAInv, DATypeOK
<1>4. ghosts[s] \subseteq disturbed[s]
  BY DEF DAInv, GhostsNeedOverlap
<1>5. QED
  BY <1>1, <1>2, <1>3, <1>4, OwnStep DEF Running

\* The row an operation got is a row, and the one that is there unless another
\* transaction committed the row.
LEMMA GotIsTrue ==
  ASSUME DAInv, NEW s \in Sessions, NEW k \in LoanIds, NEW row \in Got(s, k),
         stage[s] = "open"
  PROVE  /\ row \in Row
         /\ k \notin disturbed[s] => row = Visible(s, k)
<1>1. Visible(s, k) \in Row /\ seen[s][k] \in Row
  BY DEF Visible, DAInv, DATypeOK
<1>2. seen[s][k] # Null /\ k \notin disturbed[s] => seen[s][k] = Visible(s, k)
  BY DEF DAInv, InstancesTrue, Running
<1>3. QED
  BY <1>1, <1>2 DEF Got

\* One more operation, within the bound.
LEMMA OpsType ==
  ASSUME DAInv, NEW s \in Sessions, ops[s] < MaxOps,
         ops' = [ops EXCEPT ![s] = @ + 1]
  PROVE  ops' \in [Sessions -> 0 .. MaxOps]
<1>1. ops[s] + 1 \in 0 .. MaxOps
  BY DataAccessAssumption DEF DAInv, DATypeOK
<1>2. QED
  BY <1>1 DEF DAInv, DATypeOK

\* The answer about a row replaces the one before.
LEMMA AnsweredFacts ==
  ASSUME DAInv, NEW s \in Sessions, NEW k \in LoanIds, NEW row \in Row, Answered(s, k, row)
  PROVE  /\ promised' \in [Sessions -> Promises]
         /\ DOMAIN promised'[s] = DOMAIN promised[s] \cup {k}
         /\ promised'[s][k] = row
         /\ \A j \in DOMAIN promised[s] : j # k => promised'[s][j] = promised[s][j]
         /\ \A o \in Sessions : o # s => promised'[o] = promised[o]
<1> DEFINE f == [j \in DOMAIN promised[s] \cup {k} |-> IF j = k THEN row ELSE promised[s][j]]
<1>1. promised \in [Sessions -> Promises] /\ promised' = [promised EXCEPT ![s] = f]
  BY DEF Answered, DAInv, DATypeOK
<1>2. PICK D \in SUBSET LoanIds : promised[s] \in [D -> Row]
  BY <1>1 DEF Promises
<1>3. D \cup {k} \in SUBSET LoanIds /\ f \in [D \cup {k} -> Row]
  BY <1>2
<1>4. f \in Promises
  BY <1>3 DEF Promises
<1>5. promised' \in [Sessions -> Promises] /\ promised'[s] = f
      /\ \A o \in Sessions : o # s => promised'[o] = promised[o]
  BY <1>1, <1>4
<1>6. QED
  BY <1>5

\* One instance is replaced.
LEMMA SeenFacts ==
  ASSUME DAInv, NEW s \in Sessions, NEW k \in LoanIds, NEW row \in Row,
         seen' = [seen EXCEPT ![s][k] = row]
  PROVE  /\ seen' \in [Sessions -> [LoanIds -> Row]]
         /\ seen'[s][k] = row /\ \A j \in LoanIds : j # k => seen'[s][j] = seen[s][j]
         /\ \A o \in Sessions : o # s => seen'[o] = seen[o]
  BY DEF DAInv, DATypeOK

\* What holds of an open session and its answers goes on holding.
LEMMA OpenFacts ==
  ASSUME DAInv, NEW s \in Sessions, stage[s] = "open"
  PROVE  /\ \A k \in LoanIds :
              seen[s][k] # Null /\ k \notin disturbed[s] => seen[s][k] = Visible(s, k)
         /\ \A k \in DOMAIN promised[s] \ disturbed[s] : Visible(s, k) = promised[s][k]
         /\ ghosts[s] \subseteq disturbed[s]
         /\ DOMAIN promised[s] \subseteq LoanIds
<1>1. DOMAIN promised[s] \subseteq LoanIds
  BY DEF DAInv, DATypeOK, Promises
<1>2. QED
  BY <1>1 DEF DAInv, InstancesTrue, PromisesVisible, GhostsNeedOverlap, Running

LEMMA FindByIdStep ==
  ASSUME DAInv, NEW s \in Sessions, NEW k \in LoanIds, FindById(s, k)
  PROVE  DAInv'
<1>1. PICK row \in Got(s, k) :
        /\ stage[s] = "open" /\ ops[s] < MaxOps /\ ops' = [ops EXCEPT ![s] = @ + 1]
        /\ seen' = [seen EXCEPT ![s][k] = row]
        /\ UNCHANGED <<table, lock, draft, stage, stmt>>
        /\ UNCHANGED <<promised, applied, ghosts, lost, disturbed>>
  BY DEF FindById, db, DAhistory
<1>2. row \in Row /\ (k \notin disturbed[s] => row = Visible(s, k))
  BY <1>1, GotIsTrue
<1>3. /\ seen' \in [Sessions -> [LoanIds -> Row]]
      /\ seen'[s][k] = row /\ \A j \in LoanIds : j # k => seen'[s][j] = seen[s][j]
      /\ \A o \in Sessions : o # s => seen'[o] = seen[o]
  BY <1>1, <1>2, SeenFacts
<1>4. DATypeOK'
  BY <1>1, <1>3, OpsType DEF DAInv, DATypeOK
<1>5. \A j \in LoanIds :
        seen'[s][j] # Null /\ j \notin disturbed[s] => seen'[s][j] = Visible(s, j)
  BY <1>1, <1>2, <1>3, OpenFacts
<1>6. QED
  BY <1>1, <1>3, <1>4, <1>5, OpenFacts, OwnStep

LEMMA FindAllStep ==
  ASSUME DAInv, NEW s \in Sessions, FindAll(s)
  PROVE  DAInv'
<1> DEFINE rows == [k \in LoanIds |-> IF seen[s][k] = Null THEN Visible(s, k) ELSE seen[s][k]]
<1>1. /\ stage[s] = "open" /\ ops[s] < MaxOps /\ ops' = [ops EXCEPT ![s] = @ + 1]
      /\ seen' = [seen EXCEPT ![s] = rows]
      /\ UNCHANGED <<table, lock, draft, stage, stmt>>
      /\ UNCHANGED <<promised, applied, ghosts, lost, disturbed>>
  BY DEF FindAll, db, DAhistory
<1>2. rows \in [LoanIds -> Row]
  BY DEF Visible, DAInv, DATypeOK
<1>3. /\ seen' \in [Sessions -> [LoanIds -> Row]] /\ seen'[s] = rows
      /\ \A o \in Sessions : o # s => seen'[o] = seen[o]
  BY <1>1, <1>2 DEF DAInv, DATypeOK
<1>4. DATypeOK'
  BY <1>1, <1>3, OpsType DEF DAInv, DATypeOK
<1>5. \A j \in LoanIds :
        seen'[s][j] # Null /\ j \notin disturbed[s] => seen'[s][j] = Visible(s, j)
  BY <1>1, <1>3, OpenFacts
<1>6. QED
  BY <1>1, <1>3, <1>4, <1>5, OpenFacts, OwnStep

\* A statement is sent.
LEMMA FlushFacts ==
  ASSUME DAInv, NEW s \in Sessions, NEW k \in LoanIds, NEW kind \in Kinds, NEW row \in Row,
         Flush(s, kind, k, row)
  PROVE  /\ stage' = [stage EXCEPT ![s] = "flush"] /\ stage'[s] = "flush"
         /\ stmt' \in [Sessions -> Statement \cup {Null}] /\ stmt'[s] \in Statement
         /\ stmt'[s].kind = kind /\ stmt'[s].id = k /\ stmt'[s].row = row /\ ~stmt'[s].missed
         /\ \A o \in Sessions : o # s => stage'[o] = stage[o] /\ stmt'[o] = stmt[o]
<1> DEFINE new == [kind |-> kind, id |-> k, row |-> row, missed |-> FALSE]
<1>1. new \in Statement
  BY DEF Statement
<1>2. stmt' = [stmt EXCEPT ![s] = new] /\ stage' = [stage EXCEPT ![s] = "flush"]
  BY DEF Flush
<1>3. /\ stmt' \in [Sessions -> Statement \cup {Null}] /\ stmt'[s] = new
      /\ stage'[s] = "flush"
      /\ \A o \in Sessions : o # s => stage'[o] = stage[o] /\ stmt'[o] = stmt[o]
  BY <1>1, <1>2 DEF DAInv, DATypeOK
<1>4. QED
  BY <1>1, <1>2, <1>3

LEMMA CreateStep ==
  ASSUME DAInv, NEW s \in Sessions, NEW k \in LoanIds, CreateRow(s, k)
  PROVE  DAInv'
<1>1. /\ stage[s] = "open" /\ Flush(s, "insert", k, Pending)
      /\ ops[s] < MaxOps /\ ops' = [ops EXCEPT ![s] = @ + 1]
      /\ UNCHANGED <<table, lock, draft, seen, promised, applied, ghosts, lost, disturbed>>
  BY DEF CreateRow, db, DAhistory
<1>2. Pending \in Row
  BY DataAccessAssumption DEF Row
<1>3. /\ stage' = [stage EXCEPT ![s] = "flush"] /\ stage'[s] = "flush"
      /\ stmt' \in [Sessions -> Statement \cup {Null}] /\ stmt'[s] \in Statement
      /\ stmt'[s].kind = "insert"
      /\ \A o \in Sessions : o # s => stage'[o] = stage[o] /\ stmt'[o] = stmt[o]
  BY <1>1, <1>2, FlushFacts DEF Kinds
<1>4. DATypeOK'
  BY <1>1, <1>3, OpsType, MovedType DEF DAInv, DATypeOK, Ended
<1>5. QED
  BY <1>1, <1>3, <1>4, OpenFacts, OwnStep

LEMMA DeleteStep ==
  ASSUME DAInv, NEW s \in Sessions, NEW k \in LoanIds, Delete(s, k)
  PROVE  DAInv'
<1>1. PICK row \in Got(s, k) :
        /\ stage[s] = "open" /\ ops[s] < MaxOps /\ ops' = [ops EXCEPT ![s] = @ + 1]
        /\ \/ UNCHANGED <<stage, stmt>>
           \/ row # Null /\ Flush(s, "delete", k, Null)
        /\ seen' = [seen EXCEPT ![s][k] = Null]
        /\ UNCHANGED <<table, lock, draft, promised, applied, ghosts, lost, disturbed>>
  BY DEF Delete, IsThere, db, DAhistory
<1>2. row \in Row /\ (k \notin disturbed[s] => row = Visible(s, k)) /\ Null \in Row
  BY <1>1, GotIsTrue DEF Row
<1>3. /\ seen' \in [Sessions -> [LoanIds -> Row]]
      /\ seen'[s][k] = Null /\ \A j \in LoanIds : j # k => seen'[s][j] = seen[s][j]
      /\ \A o \in Sessions : o # s => seen'[o] = seen[o]
  BY <1>1, <1>2, SeenFacts
<1>4. \A j \in LoanIds :
        seen'[s][j] # Null /\ j \notin disturbed[s] => seen'[s][j] = Visible(s, j)
  BY <1>1, <1>3, OpenFacts
<1>5. CASE UNCHANGED <<stage, stmt>>
  <2>1. DATypeOK'
    BY <1>1, <1>3, <1>5, OpsType DEF DAInv, DATypeOK
  <2>2. QED
    BY <1>1, <1>3, <1>4, <1>5, <2>1, OpenFacts, OwnStep
<1>6. CASE row # Null /\ Flush(s, "delete", k, Null)
  <2>1. /\ stage' = [stage EXCEPT ![s] = "flush"] /\ stage'[s] = "flush"
        /\ stmt' \in [Sessions -> Statement \cup {Null}] /\ stmt'[s] \in Statement
        /\ stmt'[s].id = k /\ ~stmt'[s].missed
        /\ \A o \in Sessions : o # s => stage'[o] = stage[o] /\ stmt'[o] = stmt[o]
    BY <1>2, <1>6, FlushFacts DEF Kinds
  <2>2. DATypeOK'
    BY <1>1, <1>3, <2>1, OpsType, MovedType DEF DAInv, DATypeOK, Ended
  <2>3. QED
    BY <1>1, <1>2, <1>3, <1>4, <1>6, <2>1, <2>2, OpenFacts, OwnStep
<1>7. QED
  BY <1>1, <1>5, <1>6

LEMMA UpdateStatusStep ==
  ASSUME DAInv, NEW s \in Sessions, NEW k \in LoanIds, NEW new \in Statuses,
         UpdateStatus(s, k, new)
  PROVE  DAInv'
<1>1. PICK row \in Got(s, k) :
        /\ stage[s] = "open" /\ ops[s] < MaxOps /\ ops' = [ops EXCEPT ![s] = @ + 1]
        /\ \/ /\ seen' = [seen EXCEPT ![s][k] = Null]
              /\ UNCHANGED <<stage, stmt, promised>>
           \/ /\ row = new /\ seen' = [seen EXCEPT ![s][k] = new]
              /\ Answered(s, k, new) /\ UNCHANGED <<stage, stmt>>
           \/ /\ row # Null /\ seen' = [seen EXCEPT ![s][k] = new]
              /\ Flush(s, "update", k, new) /\ UNCHANGED promised
        /\ UNCHANGED <<table, lock, draft, applied, ghosts, lost, disturbed>>
  BY DEF UpdateStatus, IsThere, db
<1>2. /\ row \in Row /\ (k \notin disturbed[s] => row = Visible(s, k))
      /\ Null \in Row /\ new \in Row
  BY <1>1, GotIsTrue DEF Row
<1>3. CASE seen' = [seen EXCEPT ![s][k] = Null] /\ UNCHANGED <<stage, stmt, promised>>
  <2>1. /\ seen' \in [Sessions -> [LoanIds -> Row]]
        /\ seen'[s][k] = Null /\ \A j \in LoanIds : j # k => seen'[s][j] = seen[s][j]
        /\ \A o \in Sessions : o # s => seen'[o] = seen[o]
    BY <1>2, <1>3, SeenFacts
  <2>2. DATypeOK'
    BY <1>1, <1>3, <2>1, OpsType DEF DAInv, DATypeOK
  <2>3. \A j \in LoanIds :
          seen'[s][j] # Null /\ j \notin disturbed[s] => seen'[s][j] = Visible(s, j)
    BY <1>1, <2>1, OpenFacts
  <2>4. QED
    BY <1>1, <1>3, <2>1, <2>2, <2>3, OpenFacts, OwnStep
<1>4. CASE /\ row = new /\ seen' = [seen EXCEPT ![s][k] = new]
           /\ Answered(s, k, new) /\ UNCHANGED <<stage, stmt>>
  <2>1. /\ seen' \in [Sessions -> [LoanIds -> Row]]
        /\ seen'[s][k] = new /\ \A j \in LoanIds : j # k => seen'[s][j] = seen[s][j]
        /\ \A o \in Sessions : o # s => seen'[o] = seen[o]
    BY <1>2, <1>4, SeenFacts
  <2>2. /\ promised' \in [Sessions -> Promises]
        /\ DOMAIN promised'[s] = DOMAIN promised[s] \cup {k}
        /\ promised'[s][k] = new
        /\ \A j \in DOMAIN promised[s] : j # k => promised'[s][j] = promised[s][j]
        /\ \A o \in Sessions : o # s => promised'[o] = promised[o]
    BY <1>2, <1>4, AnsweredFacts
  <2>3. DATypeOK'
    BY <1>1, <1>4, <2>1, <2>2, OpsType DEF DAInv, DATypeOK
  <2>4. \A j \in LoanIds :
          seen'[s][j] # Null /\ j \notin disturbed[s] => seen'[s][j] = Visible(s, j)
    BY <1>1, <1>2, <1>4, <2>1, OpenFacts
  <2>5. \A j \in DOMAIN promised'[s] \ disturbed[s] : Visible(s, j) = promised'[s][j]
    BY <1>1, <1>2, <1>4, <2>2, OpenFacts
  <2>6. QED
    BY <1>1, <1>4, <2>1, <2>2, <2>3, <2>4, <2>5, OpenFacts, OwnStep
<1>5. CASE /\ row # Null /\ seen' = [seen EXCEPT ![s][k] = new]
           /\ Flush(s, "update", k, new) /\ UNCHANGED promised
  <2>1. /\ seen' \in [Sessions -> [LoanIds -> Row]]
        /\ seen'[s][k] = new /\ \A j \in LoanIds : j # k => seen'[s][j] = seen[s][j]
        /\ \A o \in Sessions : o # s => seen'[o] = seen[o]
    BY <1>2, <1>5, SeenFacts
  <2>2. /\ stage' = [stage EXCEPT ![s] = "flush"] /\ stage'[s] = "flush"
        /\ stmt' \in [Sessions -> Statement \cup {Null}] /\ stmt'[s] \in Statement
        /\ stmt'[s].id = k /\ ~stmt'[s].missed
        /\ \A o \in Sessions : o # s => stage'[o] = stage[o] /\ stmt'[o] = stmt[o]
    BY <1>2, <1>5, FlushFacts DEF Kinds
  <2>3. DATypeOK'
    BY <1>1, <1>5, <2>1, <2>2, OpsType, MovedType DEF DAInv, DATypeOK, Ended
  <2>4. \A j \in LoanIds : seen'[s][j] # Null /\ j \notin disturbed[s] =>
          seen'[s][j] = Visible(s, j) \/ stmt'[s].id = j
    BY <1>1, <2>1, <2>2, OpenFacts
  <2>5. QED
    BY <1>1, <1>2, <1>5, <2>1, <2>2, <2>3, <2>4, OpenFacts, OwnStep
<1>6. QED
  BY <1>1, <1>3, <1>4, <1>5

-----------------------------------------------------------------------------
(* The statement                                                           *)

\* A statement that finds nothing although the lookup found the row was
\* overtaken by another transaction.
LEMMA NothingFound ==
  ASSUME DAInv, NEW s \in Sessions, stage[s] = "flush", stmt[s].kind # "insert", ~Matches(s)
  PROVE  stmt[s].id \in LoanIds /\ stmt[s].id \in disturbed[s]
<1>1. stmt[s] \in Statement
  BY DEF DAInv, DATypeOK
<1>2. stmt[s].id \in LoanIds
  BY <1>1 DEF Statement
<1>3. Visible(s, stmt[s].id) = Null \/ stmt[s].missed
  BY DEF Matches
<1>4. QED
  BY <1>2, <1>3 DEF DAInv, FoundIsThere

LEMMA DeleteNothingStep ==
  ASSUME DAInv, NEW s \in Sessions, DeleteNothing(s)
  PROVE  DAInv'
<1> DEFINE k == stmt[s].id
<1>1. /\ stage[s] = "flush" /\ stmt[s].kind = "delete" /\ ~Matches(s)
      /\ Answered(s, k, Null) /\ ghosts' = [ghosts EXCEPT ![s] = @ \cup {k}]
      /\ stage' = [stage EXCEPT ![s] = "open"]
      /\ UNCHANGED <<table, lock, draft, stmt, seen, ops, applied, lost, disturbed>>
  BY DEF DeleteNothing, db
<1>2. k \in LoanIds /\ k \in disturbed[s] /\ Null \in Row
  BY <1>1, NothingFound DEF Row
<1>3. /\ promised' \in [Sessions -> Promises]
      /\ DOMAIN promised'[s] = DOMAIN promised[s] \cup {k}
      /\ \A j \in DOMAIN promised[s] : j # k => promised'[s][j] = promised[s][j]
      /\ \A o \in Sessions : o # s => promised'[o] = promised[o]
  BY <1>1, <1>2, AnsweredFacts
<1>4. /\ ghosts' \in [Sessions -> SUBSET LoanIds] /\ ghosts'[s] = ghosts[s] \cup {k}
      /\ stage'[s] = "open"
      /\ \A o \in Sessions : o # s => ghosts'[o] = ghosts[o] /\ stage'[o] = stage[o]
  BY <1>1, <1>2 DEF DAInv, DATypeOK
<1>5. DATypeOK'
  BY <1>1, <1>3, <1>4, MovedType DEF DAInv, DATypeOK, Ended
<1>6. \A j \in LoanIds :
        seen'[s][j] # Null /\ j \notin disturbed[s] => seen'[s][j] = Visible(s, j)
  BY <1>1, <1>2 DEF DAInv, InstancesTrue, Running
<1>7. \A j \in DOMAIN promised'[s] \ disturbed[s] : Visible(s, j) = promised'[s][j]
  BY <1>1, <1>2, <1>3 DEF DAInv, PromisesVisible, Running
<1>8. ghosts'[s] \subseteq disturbed[s]
  BY <1>2, <1>4 DEF DAInv, GhostsNeedOverlap
<1>9. QED
  BY <1>1, <1>3, <1>4, <1>5, <1>6, <1>7, <1>8, OwnStep

\* A row that is written is nobody else's: whoever wants to write it waits for
\* the other writer, but for an UPDATE or DELETE that would not find it.
LEMMA WrittenIsFree ==
  ASSUME DAInv, NEW s \in Sessions, stage[s] = "flush", ~Blocked(s), Matches(s)
  PROVE  lock[stmt[s].id] \in {Null, s}
  BY DEF Blocked, Holder, Matches, Visible

LEMMA ExecuteStep ==
  ASSUME DAInv, NEW s \in Sessions, Execute(s)
  PROVE  DAInv'
<1>0. PICK k \in LoanIds, row \in Row : k = stmt[s].id /\ row = stmt[s].row
  BY DEF Execute, DAInv, DATypeOK, Statement
<1>1. /\ stage[s] = "flush" /\ ~Blocked(s) /\ Matches(s)
      /\ lock' = [lock EXCEPT ![k] = s] /\ draft' = [draft EXCEPT ![k] = row]
      /\ Answered(s, k, row) /\ seen' = [seen EXCEPT ![s][k] = row]
      /\ stage' = [stage EXCEPT ![s] = "open"]
      /\ UNCHANGED <<table, stmt, ops, applied, ghosts, lost, disturbed>>
  BY <1>0 DEF Execute, Written
<1>2. k \in LoanIds /\ row \in Row
  BY <1>0
<1>3. lock[k] \in {Null, s}
  BY <1>0, <1>1, WrittenIsFree
<1>4. /\ promised' \in [Sessions -> Promises]
      /\ DOMAIN promised'[s] = DOMAIN promised[s] \cup {k}
      /\ promised'[s][k] = row
      /\ \A j \in DOMAIN promised[s] : j # k => promised'[s][j] = promised[s][j]
      /\ \A o \in Sessions : o # s => promised'[o] = promised[o]
  BY <1>1, <1>2, AnsweredFacts
<1>5. /\ seen' \in [Sessions -> [LoanIds -> Row]]
      /\ seen'[s][k] = row /\ \A j \in LoanIds : j # k => seen'[s][j] = seen[s][j]
      /\ \A o \in Sessions : o # s => seen'[o] = seen[o]
  BY <1>1, <1>2, SeenFacts
<1>6. /\ lock' \in [LoanIds -> Sessions \cup {Null}] /\ lock'[k] = s
      /\ draft' \in [LoanIds -> Row] /\ draft'[k] = row
      /\ \A j \in LoanIds : j # k => lock'[j] = lock[j] /\ draft'[j] = draft[j]
      /\ stage' \in [Sessions -> {"new", "open", "flush", "raised"} \cup Ended]
      /\ stage'[s] = "open"
      /\ \A o \in Sessions : o # s => stage'[o] = stage[o]
  BY <1>1, <1>2 DEF DAInv, DATypeOK
<1>7. s # Null
  BY DataAccessAssumption
<1>8. Visible(s, k)' = row
  BY <1>6 DEF Visible
<1>9. \A o \in Sessions, j \in LoanIds : o # s \/ j # k => Visible(o, j)' = Visible(o, j)
  BY <1>1, <1>3, <1>6, <1>7, DataAccessAssumption DEF Visible
<1>10. DATypeOK'
  <2>1. \A o \in Sessions : stage'[o] = "flush" => stmt'[o] \in Statement
    BY <1>1, <1>6 DEF DAInv, DATypeOK
  <2>2. ASSUME NEW j \in LoanIds
        PROVE  IF lock'[j] = Null THEN draft'[j] = Null
               ELSE stage'[lock'[j]] \notin Ended \cup {"new"}
    <3>1. CASE j = k
      BY <1>6, <1>7, <3>1 DEF Ended
    <3>2. CASE j # k
      <4>1. lock'[j] = lock[j] /\ draft'[j] = draft[j] /\ lock[j] \in Sessions \cup {Null}
        BY <1>6, <3>2 DEF DAInv, DATypeOK
      <4>2. CASE lock[j] = Null
        BY <4>1, <4>2 DEF DAInv, DATypeOK
      <4>3. CASE lock[j] # Null
        <5>1. stage[lock[j]] \notin Ended \cup {"new"}
          BY <4>3 DEF DAInv, DATypeOK
        <5>2. stage'[lock[j]] \notin Ended \cup {"new"}
          BY <1>6, <4>1, <4>3, <5>1 DEF Ended
        <5>3. QED
          BY <4>1, <4>3, <5>2
      <4>4. QED
        BY <4>2, <4>3
    <3>3. QED
      BY <3>1, <3>2
  <2>3. QED
    BY <1>1, <1>4, <1>5, <1>6, <2>1, <2>2 DEF DAInv, DATypeOK
<1>11. BeginsEmpty'
  BY <1>4, <1>5, <1>6 DEF DAInv, BeginsEmpty
<1>12. InstancesTrue'
  BY <1>0, <1>1, <1>5, <1>6, <1>8, <1>9 DEF DAInv, InstancesTrue, Running
<1>13. PromisesVisible'
  <2>1. \A o \in Sessions : DOMAIN promised[o] \subseteq LoanIds
    BY DEF DAInv, DATypeOK, Promises
  <2>2. QED
    BY <1>1, <1>2, <1>4, <1>6, <1>8, <1>9, <2>1 DEF DAInv, PromisesVisible, Running
<1>14. FoundIsThere'
  <2>1. \A o \in Sessions : stage[o] = "flush" => stmt[o].id \in LoanIds
    BY DEF DAInv, DATypeOK, Statement
  <2>2. QED
    BY <1>1, <1>6, <1>9, <2>1 DEF DAInv, FoundIsThere
<1>15. AllOrNothing'
  BY <1>1, <1>4, <1>6 DEF DAInv, AllOrNothing
<1>16. GhostsNeedOverlap'
  BY <1>1 DEF DAInv, GhostsNeedOverlap
<1>17. QED
  BY <1>10, <1>11, <1>12, <1>13, <1>14, <1>15, <1>16 DEF DAInv

-----------------------------------------------------------------------------
(* The end of a transaction                                                *)

\* A released session holds no row, the others hold theirs.
LEMMA ReleasedFacts ==
  ASSUME DAInv, NEW s \in Sessions, Released(s)
  PROVE  /\ lock' \in [LoanIds -> Sessions \cup {Null}] /\ draft' \in [LoanIds -> Row]
         /\ \A k \in LoanIds : lock'[k] # s /\ (lock'[k] = Null => draft'[k] = Null)
         /\ \A k \in LoanIds : lock[k] # s => lock'[k] = lock[k] /\ draft'[k] = draft[k]
         /\ \A k \in LoanIds : lock[k] = s => lock'[k] = Null
<1>1. s # Null /\ Null \in Row
  BY DataAccessAssumption DEF Row
<1>2. /\ lock' = [k \in LoanIds |-> IF lock[k] = s THEN Null ELSE lock[k]]
      /\ draft' = [k \in LoanIds |-> IF lock[k] = s THEN Null ELSE draft[k]]
  BY DEF Released
<1>3. lock' \in [LoanIds -> Sessions \cup {Null}] /\ draft' \in [LoanIds -> Row]
  BY <1>1, <1>2 DEF DAInv, DATypeOK
<1>4. QED
  BY <1>1, <1>2, <1>3 DEF DAInv, DATypeOK

\* The owners of rows go on running when a session that has none moves on.
LEMMA OwnersRun ==
  ASSUME DAInv, NEW s \in Sessions, Released(s),
         \A o \in Sessions : o # s => stage'[o] = stage[o]
  PROVE  \A k \in LoanIds : IF lock'[k] = Null THEN draft'[k] = Null
                        ELSE stage'[lock'[k]] \notin Ended \cup {"new"}
<1>1. SUFFICES ASSUME NEW k \in LoanIds, lock'[k] # Null
               PROVE  stage'[lock'[k]] \notin Ended \cup {"new"}
  BY ReleasedFacts
<1>2. lock'[k] = lock[k] /\ lock[k] # s /\ lock[k] \in Sessions
  BY <1>1, ReleasedFacts DEF DAInv, DATypeOK
<1>3. QED
  BY <1>1, <1>2 DEF DAInv, DATypeOK

\* A transaction that is rolled back takes nothing from the rows that other
\* sessions see, and leaves no trace in the table.
LEMMA RolledBackStep ==
  ASSUME DAInv, NEW s \in Sessions, Released(s),
         NEW to \in {"raised", "failed"}, stage' = [stage EXCEPT ![s] = to],
         stage[s] \notin Ended,
         seen' \in [Sessions -> [LoanIds -> Row]],
         \A o \in Sessions : o # s => seen'[o] = seen[o],
         ghosts' \in [Sessions -> SUBSET LoanIds], ghosts'[s] \subseteq disturbed[s],
         \A o \in Sessions : o # s => ghosts'[o] = ghosts[o],
         UNCHANGED <<table, stmt, ops, promised, applied, lost, disturbed>>
  PROVE  DAInv'
<1>1. /\ stage' \in [Sessions -> {"new", "open", "flush", "raised"} \cup Ended]
      /\ stage'[s] = to
      /\ \A o \in Sessions : o # s => stage'[o] = stage[o]
  BY DEF DAInv, DATypeOK, Ended
<1>2. \A o \in Sessions, k \in LoanIds : o # s => Visible(o, k)' = Visible(o, k)
  <2>1. ASSUME NEW o \in Sessions, NEW k \in LoanIds, o # s, lock[k] = s
        PROVE  Visible(o, k)' = Visible(o, k)
    BY <2>1, ReleasedFacts, DataAccessAssumption DEF Visible
  <2>2. ASSUME NEW o \in Sessions, NEW k \in LoanIds, lock[k] # s
        PROVE  Visible(o, k)' = Visible(o, k)
    BY <2>2, ReleasedFacts DEF Visible
  <2>3. QED
    BY <2>1, <2>2
<1>3. DATypeOK'
  <2>1. \A o \in Sessions : stage'[o] = "flush" => stmt'[o] \in Statement
    BY <1>1 DEF DAInv, DATypeOK
  <2>2. \A k \in LoanIds : IF lock'[k] = Null THEN draft'[k] = Null
                       ELSE stage'[lock'[k]] \notin Ended \cup {"new"}
    BY <1>1, OwnersRun
  <2>3. QED
    BY <1>1, <2>1, <2>2, ReleasedFacts DEF DAInv, DATypeOK
<1>4. BeginsEmpty'
  BY <1>1 DEF DAInv, BeginsEmpty
<1>5. InstancesTrue'
  BY <1>1, <1>2 DEF DAInv, InstancesTrue, Running
<1>6. PromisesVisible'
  <2>1. \A o \in Sessions : DOMAIN promised[o] \subseteq LoanIds
    BY DEF DAInv, DATypeOK, Promises
  <2>2. QED
    BY <1>1, <1>2, <2>1 DEF DAInv, PromisesVisible, Running
<1>7. FoundIsThere'
  <2>1. \A o \in Sessions : stage[o] = "flush" => stmt[o].id \in LoanIds
    BY DEF DAInv, DATypeOK, Statement
  <2>2. QED
    BY <1>1, <1>2, <2>1 DEF DAInv, FoundIsThere
<1>8. AllOrNothing'
  BY <1>1 DEF DAInv, AllOrNothing, Ended
<1>9. GhostsNeedOverlap'
  BY DEF DAInv, GhostsNeedOverlap
<1>10. QED
  BY <1>3, <1>4, <1>5, <1>6, <1>7, <1>8, <1>9 DEF DAInv

\* The exception of a statement or a broken connection.
LEMMA RaiseStep ==
  ASSUME DAInv, NEW s \in Sessions, Raise(s), stage[s] \in {"open", "flush"},
         ghosts' \in [Sessions -> SUBSET LoanIds], ghosts'[s] \subseteq disturbed[s],
         \A o \in Sessions : o # s => ghosts'[o] = ghosts[o]
  PROVE  DAInv'
<1>1. /\ Released(s) /\ stage' = [stage EXCEPT ![s] = "raised"]
      /\ UNCHANGED <<table, stmt, seen, ops, promised, applied, lost, disturbed>>
  BY DEF Raise
<1>2. stage[s] \notin Ended
  BY DEF Ended
<1>3. seen' \in [Sessions -> [LoanIds -> Row]] /\ \A o \in Sessions : seen'[o] = seen[o]
  BY <1>1 DEF DAInv, DATypeOK
<1>4. QED
  BY <1>1, <1>2, <1>3, RolledBackStep

\* The exceptions that are nobody's ghost.
LEMMA FailureStep ==
  ASSUME DAInv, NEW s \in Sessions,
         Disconnect(s) \/ DeadlockAbort(s) \/ InsertTwice(s)
  PROVE  DAInv'
<1>1. Raise(s) /\ UNCHANGED ghosts
  BY DEF Disconnect, DeadlockAbort, InsertTwice
<1>2. stage[s] \in {"open", "flush"}
  <2>1. ASSUME DeadlockAbort(s) PROVE stage[s] = "flush"
    <3>1. PICK R \in Rings : s \in R
      BY <2>1 DEF DeadlockAbort
    <3>2. R \subseteq Sessions /\ Holder(s) \in R
      BY <3>1 DEF Rings
    <3>3. QED
      BY <3>2, DataAccessAssumption DEF Holder
  <2>2. QED
    BY <2>1 DEF Disconnect, InsertTwice
<1>3. /\ ghosts' \in [Sessions -> SUBSET LoanIds] /\ ghosts'[s] \subseteq disturbed[s]
      /\ \A o \in Sessions : ghosts'[o] = ghosts[o]
  BY <1>1 DEF DAInv, DATypeOK, GhostsNeedOverlap
<1>4. QED
  BY <1>1, <1>2, <1>3, RaiseStep

LEMMA UpdateNothingStep ==
  ASSUME DAInv, NEW s \in Sessions, UpdateNothing(s)
  PROVE  DAInv'
<1>1. /\ stage[s] = "flush" /\ stmt[s].kind = "update" /\ ~Matches(s)
      /\ ghosts' = [ghosts EXCEPT ![s] = @ \cup {stmt[s].id}] /\ Raise(s)
  BY DEF UpdateNothing
<1>2. stmt[s].id \in LoanIds /\ stmt[s].id \in disturbed[s]
  BY <1>1, NothingFound
<1>3. /\ ghosts' \in [Sessions -> SUBSET LoanIds] /\ ghosts'[s] = ghosts[s] \cup {stmt[s].id}
      /\ \A o \in Sessions : o # s => ghosts'[o] = ghosts[o]
  BY <1>1, <1>2 DEF DAInv, DATypeOK
<1>4. ghosts'[s] \subseteq disturbed[s]
  BY <1>2, <1>3 DEF DAInv, GhostsNeedOverlap
<1>5. QED
  BY <1>1, <1>3, <1>4, RaiseStep

LEMMA UnwindStep ==
  ASSUME DAInv, NEW s \in Sessions, Unwind(s)
  PROVE  DAInv'
<1>1. /\ stage[s] = "raised" /\ Released(s) /\ stage' = [stage EXCEPT ![s] = "failed"]
      /\ seen' = [seen EXCEPT ![s] = [k \in LoanIds |-> Null]]
      /\ UNCHANGED <<table, stmt, ops, promised, applied, ghosts, lost, disturbed>>
  BY DEF Unwind, Finally, Closed, DAhistory
<1>2. /\ seen' \in [Sessions -> [LoanIds -> Row]]
      /\ \A o \in Sessions : o # s => seen'[o] = seen[o]
  <2>1. [k \in LoanIds |-> Null] \in [LoanIds -> Row]
    BY DEF Row
  <2>2. QED
    BY <1>1, <2>1 DEF DAInv, DATypeOK
<1>3. ghosts' \in [Sessions -> SUBSET LoanIds] /\ ghosts'[s] \subseteq disturbed[s]
  BY <1>1 DEF DAInv, DATypeOK, GhostsNeedOverlap
<1>4. stage[s] \notin Ended
  BY <1>1 DEF Ended
<1>5. QED
  BY <1>1, <1>2, <1>3, <1>4, RolledBackStep

\* What a session wrote becomes what everybody sees, and every row of it is
\* recorded with the sessions that have begun.
LEMMA KeptFacts ==
  ASSUME DAInv, NEW s \in Sessions, stage[s] = "open", Kept(s)
  PROVE  /\ Released(s)
         /\ table' = [k \in LoanIds |-> Visible(s, k)] /\ table' \in [LoanIds -> Row]
         /\ \A k \in LoanIds : lock[k] # s => table'[k] = table[k]
         /\ applied' \in [Sessions -> SUBSET LoanIds]
         /\ \A o \in Sessions : o # s => applied'[o] = applied[o]
         /\ disturbed' \in [Sessions -> SUBSET LoanIds]
         /\ disturbed'[s] = disturbed[s]
         /\ \A o \in Sessions : disturbed[o] \subseteq disturbed'[o]
         /\ \A o \in Sessions, k \in LoanIds :
              o # s /\ stage[o] # "new" /\ lock[k] = s => k \in disturbed'[o]
         /\ stmt' \in [Sessions -> Statement \cup {Null}]
         /\ \A o \in Sessions : stage[o] = "flush" =>
              /\ stmt'[o] \in Statement /\ stmt'[o].id = stmt[o].id
              /\ stmt'[o].kind = stmt[o].kind
              /\ stmt'[o].missed => stmt[o].missed \/ lock[stmt[o].id] = s
<1> DEFINE rows == {k \in LoanIds : lock[k] = s}
<1>1. /\ Released(s) /\ table' = [k \in LoanIds |-> Visible(s, k)]
      /\ applied' = [applied EXCEPT ![s] = @ \cup rows]
      /\ disturbed' = [o \in Sessions |->
                         IF o # s /\ stage[o] # "new" THEN disturbed[o] \cup rows
                         ELSE disturbed[o]]
  BY DEF Kept
<1>2. table' \in [LoanIds -> Row] /\ \A k \in LoanIds : lock[k] # s => table'[k] = table[k]
  BY <1>1 DEF Visible, DAInv, DATypeOK
<1>3. /\ applied' \in [Sessions -> SUBSET LoanIds]
      /\ \A o \in Sessions : o # s => applied'[o] = applied[o]
  BY <1>1 DEF DAInv, DATypeOK
<1>4. /\ disturbed' \in [Sessions -> SUBSET LoanIds] /\ disturbed'[s] = disturbed[s]
      /\ \A o \in Sessions : disturbed[o] \subseteq disturbed'[o]
      /\ \A o \in Sessions, k \in LoanIds :
           o # s /\ stage[o] # "new" /\ lock[k] = s => k \in disturbed'[o]
  BY <1>1 DEF DAInv, DATypeOK
<1>5. PICK W \in SUBSET {o \in Sessions : Holder(o) = s} :
        stmt' = [o \in Sessions |-> IF o \in W THEN [stmt[o] EXCEPT !.missed = TRUE]
                                    ELSE stmt[o]]
  BY DEF Kept
<1>6. \A o \in W : o \in Sessions /\ stage[o] = "flush" /\ lock[stmt[o].id] = s
  BY <1>5, DataAccessAssumption DEF Holder
<1>7. ASSUME NEW o \in Sessions
      PROVE  /\ stmt'[o] \in Statement \cup {Null}
             /\ stage[o] = "flush" =>
                  /\ stmt'[o] \in Statement /\ stmt'[o].id = stmt[o].id
                  /\ stmt'[o].kind = stmt[o].kind
                  /\ stmt'[o].missed => stmt[o].missed \/ lock[stmt[o].id] = s
  <2>1. CASE o \in W
    <3>1. stmt[o] \in Statement /\ stmt'[o] = [stmt[o] EXCEPT !.missed = TRUE]
      BY <1>5, <1>6, <2>1 DEF DAInv, DATypeOK
    <3>2. stmt'[o] \in Statement /\ stmt'[o].id = stmt[o].id /\ stmt'[o].kind = stmt[o].kind
      BY <3>1 DEF Statement
    <3>3. QED
      BY <1>6, <2>1, <3>2
  <2>2. CASE o \notin W
    BY <1>5, <2>2 DEF DAInv, DATypeOK
  <2>3. QED
    BY <2>1, <2>2
<1>8. stmt' \in [Sessions -> Statement \cup {Null}]
  BY <1>5, <1>7
<1>9. QED
  BY <1>1, <1>2, <1>3, <1>4, <1>7, <1>8

LEMMA KeptStep ==
  ASSUME DAInv, NEW s \in Sessions, stage[s] = "open", Kept(s),
         NEW to \in {"committed", "raised"}, stage' = [stage EXCEPT ![s] = to],
         seen' \in [Sessions -> [LoanIds -> Row]],
         \A o \in Sessions : o # s => seen'[o] = seen[o],
         to = "raised" => s \in lost', lost \subseteq lost', lost' \subseteq lost \cup {s},
         UNCHANGED <<ops, promised, ghosts>>
  PROVE  DAInv'
<1>1. /\ stage' \in [Sessions -> {"new", "open", "flush", "raised"} \cup Ended]
      /\ stage'[s] = to
      /\ \A o \in Sessions : o # s => stage'[o] = stage[o]
  BY DEF DAInv, DATypeOK, Ended
<1>2. Released(s)
  BY KeptFacts
<1>3. ASSUME NEW o \in Sessions, NEW k \in LoanIds,
             o # s, stage[o] # "new", k \notin disturbed'[o]
      PROVE  /\ k \notin disturbed[o] /\ lock[k] # s
             /\ table'[k] = table[k] /\ Visible(o, k)' = Visible(o, k)
  <2>1. k \notin disturbed[o] /\ lock[k] # s /\ table'[k] = table[k]
    BY <1>3, KeptFacts
  <2>2. lock'[k] = lock[k] /\ draft'[k] = draft[k]
    BY <1>2, <2>1, ReleasedFacts
  <2>3. QED
    BY <2>1, <2>2 DEF Visible
<1>4. DATypeOK'
  <2>1. \A o \in Sessions : stage'[o] = "flush" => stmt'[o] \in Statement
    BY <1>1, KeptFacts
  <2>2. \A k \in LoanIds : IF lock'[k] = Null THEN draft'[k] = Null
                       ELSE stage'[lock'[k]] \notin Ended \cup {"new"}
    BY <1>1, <1>2, OwnersRun
  <2>3. lost' \subseteq Sessions
    BY DEF DAInv, DATypeOK
  <2>4. /\ lock' \in [LoanIds -> Sessions \cup {Null}] /\ draft' \in [LoanIds -> Row]
    BY <1>2, ReleasedFacts
  <2>5. /\ table' \in [LoanIds -> Row] /\ applied' \in [Sessions -> SUBSET LoanIds]
        /\ disturbed' \in [Sessions -> SUBSET LoanIds]
        /\ stmt' \in [Sessions -> Statement \cup {Null}]
    BY KeptFacts
  <2>6. QED
    BY <1>1, <2>1, <2>2, <2>3, <2>4, <2>5 DEF DAInv, DATypeOK
<1>5. BeginsEmpty'
  BY <1>1 DEF DAInv, BeginsEmpty
<1>6. InstancesTrue'
  <2>1. SUFFICES ASSUME NEW o \in Sessions, NEW k \in LoanIds, Running(o)', seen'[o][k] # Null,
                        k \notin disturbed'[o]
                 PROVE  seen'[o][k] = Visible(o, k)' \/ (stage'[o] = "flush" /\ stmt'[o].id = k)
    BY DEF InstancesTrue
  <2>2. o # s /\ stage'[o] = stage[o] /\ stage[o] # "new" /\ Running(o) /\ seen'[o] = seen[o]
    BY <1>1, <2>1 DEF Running
  <2>3. k \notin disturbed[o] /\ Visible(o, k)' = Visible(o, k)
    BY <1>3, <2>1, <2>2
  <2>4. stage[o] = "flush" => stmt'[o].id = stmt[o].id
    BY KeptFacts
  <2>5. QED
    BY <2>1, <2>2, <2>3, <2>4 DEF DAInv, InstancesTrue
<1>7. \A o \in Sessions : DOMAIN promised[o] \subseteq LoanIds
  BY DEF DAInv, DATypeOK, Promises
<1>8. PromisesVisible'
  <2>1. SUFFICES ASSUME NEW o \in Sessions, Running(o)',
                        NEW k \in DOMAIN promised[o] \ disturbed'[o]
                 PROVE  Visible(o, k)' = promised[o][k]
    BY DEF PromisesVisible
  <2>2. o # s /\ stage[o] # "new" /\ Running(o)
    BY <1>1, <2>1 DEF Running
  <2>3. k \in LoanIds /\ k \notin disturbed[o] /\ Visible(o, k)' = Visible(o, k)
    BY <1>3, <1>7, <2>1, <2>2
  <2>4. QED
    BY <2>1, <2>2, <2>3 DEF DAInv, PromisesVisible
<1>9. FoundIsThere'
  <2>1. ASSUME NEW o \in Sessions, NEW k \in LoanIds, stage'[o] = "flush", stmt'[o].id = k,
               stmt'[o].kind # "insert", k \notin disturbed'[o]
        PROVE  Visible(o, k)' # Null /\ ~stmt'[o].missed
    <3>1. o # s /\ stage[o] = "flush"
      BY <1>1, <2>1
    <3>2. stmt[o].id = k /\ stmt[o].kind # "insert"
      BY <2>1, <3>1, KeptFacts
    <3>3. k \notin disturbed[o] /\ lock[k] # s /\ Visible(o, k)' = Visible(o, k)
      BY <1>3, <2>1, <3>1
    <3>4. Visible(o, k) # Null /\ ~stmt[o].missed
      BY <3>1, <3>2, <3>3 DEF DAInv, FoundIsThere
    <3>5. ~stmt'[o].missed
      BY <3>1, <3>2, <3>3, <3>4, KeptFacts
    <3>6. QED
      BY <3>3, <3>4, <3>5
  <2>2. \A o \in Sessions : stage'[o] = "flush" => stmt'[o].id \in LoanIds
    BY <1>4 DEF DATypeOK, Statement
  <2>3. QED
    BY <2>1, <2>2 DEF FoundIsThere, Visible
<1>10. AllOrNothing'
  <2>1. ASSUME NEW o \in Sessions, stage'[o] = "committed",
               NEW k \in DOMAIN promised[o] \ disturbed'[o]
        PROVE  table'[k] = promised[o][k]
    <3>1. CASE o = s
      <4>1. k \in LoanIds /\ k \notin disturbed[s] /\ table'[k] = Visible(s, k)
        BY <1>7, <2>1, <3>1, KeptFacts
      <4>2. QED
        BY <2>1, <3>1, <4>1 DEF DAInv, PromisesVisible, Running
    <3>2. CASE o # s
      <4>1. stage[o] = "committed" /\ k \in LoanIds
        BY <1>1, <1>7, <2>1, <3>2
      <4>2. k \notin disturbed[o] /\ table'[k] = table[k]
        BY <1>3, <2>1, <3>2, <4>1
      <4>3. QED
        BY <2>1, <4>1, <4>2 DEF DAInv, AllOrNothing
    <3>3. QED
      BY <3>1, <3>2
  <2>2. ASSUME NEW o \in Sessions, stage'[o] # "committed", o \notin lost'
        PROVE  applied'[o] = {}
    <3>1. o # s /\ stage[o] # "committed" /\ o \notin lost
      BY <1>1, <2>2
    <3>2. QED
      BY <3>1, KeptFacts DEF DAInv, AllOrNothing
  <2>3. QED
    BY <2>1, <2>2 DEF AllOrNothing
<1>11. GhostsNeedOverlap'
  BY KeptFacts DEF DAInv, GhostsNeedOverlap
<1>12. QED
  BY <1>4, <1>5, <1>6, <1>8, <1>9, <1>10, <1>11 DEF DAInv

LEMMA CommitStep ==
  ASSUME DAInv, NEW s \in Sessions, Commit(s)
  PROVE  DAInv'
<1>1. /\ stage[s] = "open" /\ Kept(s) /\ stage' = [stage EXCEPT ![s] = "committed"]
      /\ seen' = [seen EXCEPT ![s] = [k \in LoanIds |-> Null]]
      /\ UNCHANGED <<ops, promised, ghosts, lost>>
  BY DEF Commit, Closed
<1>2. /\ seen' \in [Sessions -> [LoanIds -> Row]]
      /\ \A o \in Sessions : o # s => seen'[o] = seen[o]
  <2>1. [k \in LoanIds |-> Null] \in [LoanIds -> Row]
    BY DEF Row
  <2>2. QED
    BY <1>1, <2>1 DEF DAInv, DATypeOK
<1>3. QED
  BY <1>1, <1>2, KeptStep

LEMMA CommitUnansweredStep ==
  ASSUME DAInv, NEW s \in Sessions, CommitUnanswered(s)
  PROVE  DAInv'
<1>1. /\ stage[s] = "open" /\ Kept(s) /\ stage' = [stage EXCEPT ![s] = "raised"]
      /\ lost' = lost \cup {s} /\ UNCHANGED <<seen, ops, promised, ghosts>>
  BY DEF CommitUnanswered
<1>2. seen' \in [Sessions -> [LoanIds -> Row]] /\ \A o \in Sessions : seen'[o] = seen[o]
  BY <1>1 DEF DAInv, DATypeOK
<1>3. QED
  BY <1>1, <1>2, KeptStep

-----------------------------------------------------------------------------
(* The theorems about the table                                            *)

LEMMA TableInductiveStep ==
  ASSUME DAInv, [DANext]_DAvars
  PROVE  DAInv'
<1>1. CASE UNCHANGED DAvars
  <2>1. UNCHANGED <<table, lock, draft, stage, stmt, seen, ops,
                    promised, applied, ghosts, lost, disturbed>>
    BY <1>1 DEF DAvars, db, DAhistory
  <2>2. \A s, k : Visible(s, k)' = Visible(s, k)
    BY <2>1 DEF Visible
  <2>3. DATypeOK' /\ BeginsEmpty' /\ AllOrNothing' /\ GhostsNeedOverlap'
    BY <2>1 DEF DAInv, DATypeOK, BeginsEmpty, AllOrNothing, GhostsNeedOverlap
  <2>4. InstancesTrue' /\ PromisesVisible' /\ FoundIsThere'
    BY <2>1, <2>2 DEF DAInv, InstancesTrue, PromisesVisible, FoundIsThere, Running
  <2>5. QED
    BY <2>3, <2>4 DEF DAInv
<1>2. ASSUME NEW s \in Sessions,
             Begin(s) \/ Run(s) \/ CommitUnanswered(s) \/ Disconnect(s) \/ DeadlockAbort(s)
      PROVE  DAInv'
  <2>1. CASE Begin(s)
    BY <2>1, BeginStep
  <2>2. CASE Operate(s)
    BY <2>2, FindAllStep, FindByIdStep, CreateStep, DeleteStep, UpdateStatusStep DEF Operate
  <2>3. CASE Execute(s)
    BY <2>3, ExecuteStep
  <2>4. CASE DeleteNothing(s)
    BY <2>4, DeleteNothingStep
  <2>5. CASE UpdateNothing(s)
    BY <2>5, UpdateNothingStep
  <2>6. CASE Disconnect(s) \/ DeadlockAbort(s) \/ InsertTwice(s)
    BY <2>6, FailureStep
  <2>7. CASE Commit(s)
    BY <2>7, CommitStep
  <2>8. CASE CommitUnanswered(s)
    BY <2>8, CommitUnansweredStep
  <2>9. CASE Reject(s)
    BY <2>9, RejectStep
  <2>10. CASE Unwind(s)
    BY <2>10, UnwindStep
  <2>11. QED
    BY <1>2, <2>1, <2>2, <2>3, <2>4, <2>5, <2>6, <2>7, <2>8, <2>9, <2>10 DEF Run, Perform
<1>3. QED
  BY <1>1, <1>2 DEF DANext, Over

LEMMA TableInitiallyHolds ==
  ASSUME DAInit
  PROVE  DAInv
<1>1. Null \in Row /\ Pending \in Row
  BY DataAccessAssumption DEF Row
<1>2. NoRow \in Promises /\ DOMAIN NoRow = {}
  <2>1. NoRow \in [{} -> Row]
    BY DEF NoRow
  <2>2. QED
    BY <2>1 DEF Promises, NoRow
<1>3. 0 \in 0 .. MaxOps
  BY DataAccessAssumption
<1>4. DATypeOK
  BY <1>1, <1>2, <1>3 DEF DAInit, DATypeOK
<1>5. BeginsEmpty
  BY <1>2 DEF DAInit, BeginsEmpty
<1>6. InstancesTrue /\ PromisesVisible /\ FoundIsThere
  BY DEF DAInit, InstancesTrue, PromisesVisible, FoundIsThere, Running
<1>7. AllOrNothing /\ GhostsNeedOverlap
  BY DEF DAInit, AllOrNothing, GhostsNeedOverlap
<1>8. QED
  BY <1>4, <1>5, <1>6, <1>7 DEF DAInv

\* The inductive invariant of the transactions holds initially and so always.
THEOREM TableInvariant == DASpec => []DAInv
<1>1. DAInit => DAInv
  BY TableInitiallyHolds
<1>2. DAInv /\ [DANext]_DAvars => DAInv'
  BY TableInductiveStep
<1>3. QED
  BY <1>1, <1>2, PTL DEF DASpec

\* The table, its locks, the sessions and what they were told are of their
\* kinds, and a row is locked by a session whose transaction has begun and not
\* ended: nothing stays locked behind a finished block.
THEOREM TableTypeCorrect == DASpec => []DATypeOK
<1>1. DAInv => DATypeOK
  BY DEF DAInv
<1>2. QED
  BY <1>1, TableInvariant, PTL

\* "On success the transaction is committed; on any SQLAlchemyError the
\* transaction is rolled back", and on any other error by close(): what the
\* operations of a committed block answered is what it left, but for rows another
\* transaction committed after it began, and a failed block left nothing, but for
\* one whose commit was done and not answered.
THEOREM TransactionsAreAtomic == DASpec => []AllOrNothing
<1>1. DAInv => AllOrNothing
  BY DEF DAInv
<1>2. QED
  BY <1>1, TableInvariant, PTL

\* delete() answers True having deleted nothing, and update_status fails at the
\* flush, only in a transaction that another one's commit overtook.
THEOREM GhostsAreRaces == DASpec => []GhostsNeedOverlap
<1>1. DAInv => GhostsNeedOverlap
  BY DEF DAInv
<1>2. QED
  BY <1>1, TableInvariant, PTL
=============================================================================
