------------------------ MODULE TokenRevocationProofs ------------------------
(***************************************************************************)
(* Proofs about TokenRevocation for every number of workers, threads and   *)
(* tokens, and every lifetime and clock resolution.                        *)
(***************************************************************************)
EXTENDS TokenRevocation, TLAPS

\* What a Redis ttl keeps of a remaining lifetime: less than a second is lost.
LEMMA WholeSecondsBounds ==
    ASSUME NEW n \in Nat
    PROVE  /\ WholeSeconds(n) \in Nat
           /\ WholeSeconds(n) <= n
           /\ n < WholeSeconds(n) + TPS
<1>1. TPS \in Nat \ {0}
  BY RevocationAssumption
<1>2. /\ n = TPS * (n \div TPS) + (n % TPS)
      /\ n % TPS \in 0 .. (TPS - 1)
      /\ n \div TPS \in Nat
  BY <1>1
<1>3. TPS * (n \div TPS) = (n \div TPS) * TPS
  BY <1>1, <1>2
<1>4. (n \div TPS) * TPS \in Int
  BY <1>1, <1>2
<1>5. (n \div TPS) * TPS >= 0
  BY <1>1, <1>2
<1>6. QED
  BY <1>1, <1>2, <1>3, <1>4, <1>5 DEF WholeSeconds

\* The record updates of purge_expired's steps keep the type of the record.
LEMMA SweepPhase ==
    ASSUME NEW r \in Sweeps, NEW p \in {"off", "scan", "delete", "failed"}
    PROVE  [r EXCEPT !.phase = p] \in Sweeps
BY DEF Sweeps

\* The same for the set of expired entries.
LEMMA SweepExpired ==
    ASSUME NEW r \in Sweeps, NEW E \in SUBSET Jtis
    PROVE  /\ [r EXCEPT !.expired = E] \in Sweeps
           /\ [r EXCEPT !.phase = "delete", !.expired = E] \in Sweeps
BY DEF Sweeps

\* Every action preserves the inductive invariant.  The actions that delete an
\* entry (Drop, SweepDelete) are the ones RevokedStaysListed could fall to.
THEOREM InductiveStep == IInv /\ [Next]_vars => IInv'
<1> SUFFICES ASSUME IInv, [Next]_vars PROVE IInv'
  OBVIOUS
<1> USE RevocationAssumption DEF IInv, TypeOK, Goto, Answered, InFlight, Stores, StoreOf,
        Issued, Listed, Absent
<1>1. ASSUME NEW t \in Threads, NEW j \in Jtis, Login(t, j) PROVE IInv'
  <2> USE <1>1 DEF Login
  <2>1. TypeOK'
    BY WholeSecondsBounds
  <2>2. OnlyIssued'
    BY DEF OnlyIssued
  <2>3. BackendSteps'
    BY DEF BackendSteps
  <2>4. EntriesAreExpiries'
    BY DEF EntriesAreExpiries, OnlyIssued
  <2>5. DeletesOnlyExpired'
    BY DEF DeletesOnlyExpired, OnlyIssued
  <2>6. LateIsLoggedOut'
    BY DEF LateIsLoggedOut
  <2>7. RevokedStaysListed'
    BY DEF RevokedStaysListed, OnlyIssued
  <2>8. LateAcceptOnlyExpired'
    BY DEF LateAcceptOnlyExpired, Accepted, OnlyIssued
  <2>9. QED
    BY <2>1, <2>2, <2>3, <2>4, <2>5, <2>6, <2>7, <2>8
<1>2. ASSUME NEW t \in Threads, NEW j \in Jtis, Arrive(t, j) PROVE IInv'
  <2> USE <1>2 DEF Arrive
  <2>1. TypeOK'
    OBVIOUS
  <2>2. OnlyIssued'
    BY DEF OnlyIssued
  <2>3. BackendSteps'
    BY DEF BackendSteps
  <2>4. EntriesAreExpiries'
    BY DEF EntriesAreExpiries
  <2>5. DeletesOnlyExpired'
    BY DEF DeletesOnlyExpired
  <2>6. LateIsLoggedOut'
    BY DEF LateIsLoggedOut
  <2>7. RevokedStaysListed'
    BY DEF RevokedStaysListed
  <2>8. LateAcceptOnlyExpired'
    BY DEF LateAcceptOnlyExpired, Accepted
  <2>9. QED
    BY <2>1, <2>2, <2>3, <2>4, <2>5, <2>6, <2>7, <2>8
<1>3. ASSUME NEW t \in Threads, Decode(t) PROVE IInv'
  <2> USE <1>3 DEF Decode
  <2>1. TypeOK'
    OBVIOUS
  <2>2. OnlyIssued'
    BY DEF OnlyIssued
  <2>3. BackendSteps'
    BY DEF BackendSteps
  <2>4. EntriesAreExpiries'
    BY DEF EntriesAreExpiries
  <2>5. DeletesOnlyExpired'
    BY DEF DeletesOnlyExpired
  <2>6. LateIsLoggedOut'
    BY DEF LateIsLoggedOut
  <2>7. RevokedStaysListed'
    BY DEF RevokedStaysListed
  <2>8. LateAcceptOnlyExpired'
    BY DEF LateAcceptOnlyExpired, Accepted
  <2>9. QED
    BY <2>1, <2>2, <2>3, <2>4, <2>5, <2>6, <2>7, <2>8
<1>4. ASSUME NEW t \in Threads, LookupMemory(t) PROVE IInv'
  <2> USE <1>4 DEF LookupMemory
  <2>1. TypeOK'
    OBVIOUS
  <2>2. OnlyIssued'
    BY DEF OnlyIssued
  <2>3. BackendSteps'
    BY DEF BackendSteps
  <2>4. EntriesAreExpiries'
    BY DEF EntriesAreExpiries
  <2>5. DeletesOnlyExpired'
    BY DEF DeletesOnlyExpired
  <2>6. LateIsLoggedOut'
    BY DEF LateIsLoggedOut
  <2>7. RevokedStaysListed'
    BY DEF RevokedStaysListed
  <2>8. ASSUME NEW u \in Threads, backend = "memory", late'[u], Accepted(u)'
        PROVE  clock > exp[jti[u]]
    <3>1. CASE u # t
      BY <2>8, <3>1 DEF LateAcceptOnlyExpired, Accepted
    <3>2. CASE u = t
      <4>1. jti[t] \notin Listed(StoreOf(t)) /\ StoreOf(t) = WorkerOf[t]
        BY <2>8, <3>2 DEF Accepted
      <4>2. late[t] /\ jti[t] \in loggedOut[WorkerOf[t]]
        BY <2>8, <3>2, <4>1 DEF LateIsLoggedOut
      <4>3. jti[t] \in Jtis /\ WorkerOf[t] \in Workers /\ exp[jti[t]] # Absent
        BY <4>2 DEF OnlyIssued
      <4>4. clock <= exp[jti[t]] => store[WorkerOf[t]][jti[t]] = exp[jti[t]]
        BY <2>8, <4>2, <4>3 DEF RevokedStaysListed
      <4>5. clock > exp[jti[t]]
        BY <4>1, <4>3, <4>4
      <4>6. QED
        BY <3>2, <4>5
    <3>3. QED
      BY <3>1, <3>2
  <2>9. QED
    BY <2>1, <2>2, <2>3, <2>4, <2>5, <2>6, <2>7, <2>8 DEF LateAcceptOnlyExpired
<1>5. ASSUME NEW t \in Threads, Age(t) PROVE IInv'
  <2> USE <1>5 DEF Age, PastExpiry
  <2>1. TypeOK'
    OBVIOUS
  <2>2. OnlyIssued'
    BY DEF OnlyIssued
  <2>3. BackendSteps'
    BY DEF BackendSteps
  <2>4. EntriesAreExpiries'
    BY DEF EntriesAreExpiries
  <2>5. DeletesOnlyExpired'
    BY DEF DeletesOnlyExpired, EntriesAreExpiries, OnlyIssued
  <2>6. LateIsLoggedOut'
    BY DEF LateIsLoggedOut
  <2>7. RevokedStaysListed'
    BY DEF RevokedStaysListed
  <2>8. LateAcceptOnlyExpired'
    BY DEF LateAcceptOnlyExpired, Accepted
  <2>9. QED
    BY <2>1, <2>2, <2>3, <2>4, <2>5, <2>6, <2>7, <2>8
<1>6. ASSUME NEW t \in Threads, Drop(t) PROVE IInv'
  <2> USE <1>6 DEF Drop
  <2> DEFINE s == StoreOf(t)
  <2>1. s \in Stores /\ jti[t] \in Jtis
    OBVIOUS
  <2>2. CASE jti[t] \notin Listed(s)
    <3>1. store' = store /\ pc' = [pc EXCEPT ![t] = "failed"]
      BY <2>2
    <3>2. QED
      BY <3>1 DEF OnlyIssued, BackendSteps, EntriesAreExpiries, DeletesOnlyExpired,
                  LateIsLoggedOut, RevokedStaysListed, LateAcceptOnlyExpired, Accepted
  <2>3. CASE jti[t] \in Listed(s)
    <3>1. /\ store' = [store EXCEPT ![s] = [store[s] EXCEPT ![jti[t]] = Absent]]
          /\ pc' = [pc EXCEPT ![t] = "handler"]
      BY <2>3
    <3>2. \A r \in Stores : \A j \in Jtis :
             store'[r][j] = IF r = s /\ j = jti[t] THEN Absent ELSE store[r][j]
      BY <2>1, <3>1
    <3>3. clock > exp[jti[t]]
      BY DEF DeletesOnlyExpired
    <3>4. TypeOK'
      BY <2>1, <3>1
    <3>5. EntriesAreExpiries'
      BY <3>1, <3>2 DEF EntriesAreExpiries
    <3>6. RevokedStaysListed'
      BY <3>2, <3>3 DEF RevokedStaysListed, OnlyIssued
    <3>7. LateAcceptOnlyExpired'
      BY <3>1, <3>3 DEF LateAcceptOnlyExpired, Accepted
    <3>8. OnlyIssued' /\ BackendSteps' /\ DeletesOnlyExpired' /\ LateIsLoggedOut'
      BY <3>1 DEF OnlyIssued, BackendSteps, DeletesOnlyExpired, LateIsLoggedOut
    <3>9. QED
      BY <3>4, <3>5, <3>6, <3>7, <3>8
  <2>4. QED
    BY <2>2, <2>3
<1>7. ASSUME NEW t \in Threads, LookupRedis(t) PROVE IInv'
  <2> USE <1>7 DEF LookupRedis
  <2>1. TypeOK'
    OBVIOUS
  <2>2. OnlyIssued'
    BY DEF OnlyIssued
  <2>3. BackendSteps'
    BY DEF BackendSteps
  <2>4. EntriesAreExpiries'
    BY DEF EntriesAreExpiries
  <2>5. DeletesOnlyExpired'
    BY DEF DeletesOnlyExpired
  <2>6. LateIsLoggedOut'
    BY DEF LateIsLoggedOut
  <2>7. RevokedStaysListed'
    BY DEF RevokedStaysListed
  <2>8. LateAcceptOnlyExpired'
    BY DEF LateAcceptOnlyExpired, Accepted
  <2>9. QED
    BY <2>1, <2>2, <2>3, <2>4, <2>5, <2>6, <2>7, <2>8
<1>8. ASSUME NEW t \in Threads, RevokeMemory(t) PROVE IInv'
  <2> USE <1>8 DEF RevokeMemory
  <2>1. TypeOK'
    OBVIOUS
  <2>2. OnlyIssued'
    BY DEF OnlyIssued
  <2>3. BackendSteps'
    BY DEF BackendSteps
  <2>4. EntriesAreExpiries'
    BY DEF EntriesAreExpiries, OnlyIssued
  <2>5. DeletesOnlyExpired'
    BY DEF DeletesOnlyExpired
  <2>6. LateIsLoggedOut'
    BY DEF LateIsLoggedOut
  <2>7. RevokedStaysListed'
    BY DEF RevokedStaysListed, OnlyIssued
  <2>8. LateAcceptOnlyExpired'
    BY DEF LateAcceptOnlyExpired, Accepted
  <2>9. QED
    BY <2>1, <2>2, <2>3, <2>4, <2>5, <2>6, <2>7, <2>8
<1>9. ASSUME NEW t \in Threads, Ttl(t) PROVE IInv'
  <2> USE <1>9 DEF Ttl, TimeToLive
  <2>1. TypeOK'
    BY WholeSecondsBounds
  <2>2. OnlyIssued'
    BY DEF OnlyIssued
  <2>3. BackendSteps'
    BY DEF BackendSteps
  <2>4. EntriesAreExpiries'
    BY DEF EntriesAreExpiries
  <2>5. DeletesOnlyExpired'
    BY DEF DeletesOnlyExpired
  <2>6. LateIsLoggedOut'
    BY DEF LateIsLoggedOut
  <2>7. RevokedStaysListed'
    BY DEF RevokedStaysListed
  <2>8. LateAcceptOnlyExpired'
    BY DEF LateAcceptOnlyExpired, Accepted
  <2>9. QED
    BY <2>1, <2>2, <2>3, <2>4, <2>5, <2>6, <2>7, <2>8
<1>10. ASSUME NEW t \in Threads, Setex(t) PROVE IInv'
  <2> USE <1>10 DEF Setex
  <2>1. TypeOK'
    OBVIOUS
  <2>2. OnlyIssued'
    BY DEF OnlyIssued
  <2>3. BackendSteps'
    BY DEF BackendSteps
  <2>4. EntriesAreExpiries'
    BY DEF EntriesAreExpiries, BackendSteps
  <2>5. DeletesOnlyExpired'
    BY DEF DeletesOnlyExpired
  <2>6. LateIsLoggedOut'
    BY DEF LateIsLoggedOut
  <2>7. RevokedStaysListed'
    BY DEF RevokedStaysListed, BackendSteps
  <2>8. LateAcceptOnlyExpired'
    BY DEF LateAcceptOnlyExpired, Accepted
  <2>9. QED
    BY <2>1, <2>2, <2>3, <2>4, <2>5, <2>6, <2>7, <2>8
<1>11. ASSUME NEW w \in Workers, SweepBegin(w) PROVE IInv'
  <2> USE <1>11 DEF SweepBegin
  <2>1. TypeOK'
    BY DEF Sweeps
  <2>2. OnlyIssued'
    BY DEF OnlyIssued
  <2>3. BackendSteps'
    BY DEF BackendSteps
  <2>4. EntriesAreExpiries'
    BY DEF EntriesAreExpiries
  <2>5. DeletesOnlyExpired'
    BY DEF DeletesOnlyExpired, Sweeps
  <2>6. LateIsLoggedOut'
    BY DEF LateIsLoggedOut
  <2>7. RevokedStaysListed'
    BY DEF RevokedStaysListed
  <2>8. LateAcceptOnlyExpired'
    BY DEF LateAcceptOnlyExpired, Accepted
  <2>9. QED
    BY <2>1, <2>2, <2>3, <2>4, <2>5, <2>6, <2>7, <2>8
<1>12. ASSUME NEW w \in Workers, SweepScan(w) PROVE IInv'
  <2> USE <1>12 DEF SweepScan, PastExpiry
  <2>1. TypeOK'
    <3>1. sweep[w] \in Sweeps /\ Listed(w) \subseteq Jtis
      OBVIOUS
    <3> SUFFICES sweep' \in [Workers -> Sweeps]
      OBVIOUS
    <3>2. CASE Cardinality(Listed(w)) # Cardinality(sweep[w].listed)
      <4>1. sweep' = [sweep EXCEPT ![w] = [sweep[w] EXCEPT !.phase = "failed"]]
        BY <3>2
      <4>2. [sweep[w] EXCEPT !.phase = "failed"] \in Sweeps
        BY <3>1, SweepPhase
      <4>3. QED
        BY <4>1, <4>2
    <3>3. CASE Cardinality(Listed(w)) = Cardinality(sweep[w].listed)
      <4> DEFINE E == {j \in Listed(w) : sweep[w].now > store[w][j]}
      <4>1. sweep' = [sweep EXCEPT ![w] = [sweep[w] EXCEPT !.phase = "delete", !.expired = E]]
        BY <3>3
      <4>2. E \in SUBSET Jtis
        OBVIOUS
      <4>3. [sweep[w] EXCEPT !.phase = "delete", !.expired = E] \in Sweeps
        BY <3>1, <4>2, SweepExpired
      <4>4. QED
        BY <4>1, <4>3
    <3>4. QED
      BY <3>2, <3>3
  <2>2. OnlyIssued'
    BY DEF OnlyIssued
  <2>3. BackendSteps'
    BY DEF BackendSteps
  <2>4. EntriesAreExpiries'
    BY DEF EntriesAreExpiries
  <2>5. DeletesOnlyExpired'
    BY DEF DeletesOnlyExpired, EntriesAreExpiries, Sweeps
  <2>6. LateIsLoggedOut'
    BY DEF LateIsLoggedOut
  <2>7. RevokedStaysListed'
    BY DEF RevokedStaysListed
  <2>8. LateAcceptOnlyExpired'
    BY DEF LateAcceptOnlyExpired, Accepted
  <2>9. QED
    BY <2>1, <2>2, <2>3, <2>4, <2>5, <2>6, <2>7, <2>8
<1>13. ASSUME NEW w \in Workers, SweepDelete(w) PROVE IInv'
  <2> USE <1>13 DEF SweepDelete
  <2>1. PICK j \in sweep[w].expired :
          IF j \in Listed(w)
          THEN /\ store' = [store EXCEPT ![w][j] = Absent]
               /\ sweep' = [sweep EXCEPT ![w].expired = @ \ {j}]
          ELSE sweep' = [sweep EXCEPT ![w].phase = "failed"] /\ UNCHANGED store
    OBVIOUS
  <2>2. j \in Jtis /\ exp[j] # Absent /\ clock > exp[j]
    BY DEF DeletesOnlyExpired
  <2>3. sweep' \in [Workers -> Sweeps] /\ DeletesOnlyExpired'
    <3>1. PICK r \in Sweeps : /\ sweep' = [sweep EXCEPT ![w] = r]
                             /\ r.now = sweep[w].now
                             /\ r.expired \subseteq sweep[w].expired
      <4>1. CASE j \in Listed(w)
        <5>1. sweep' = [sweep EXCEPT ![w] = [sweep[w] EXCEPT !.expired = sweep[w].expired \ {j}]]
          BY <2>1, <4>1
        <5>2. [sweep[w] EXCEPT !.expired = sweep[w].expired \ {j}] \in Sweeps
          <6>1. sweep[w] \in Sweeps /\ sweep[w].expired \ {j} \in SUBSET Jtis
            BY DEF Sweeps
          <6>2. QED
            BY <6>1, SweepExpired
        <5>3. QED
          BY <5>1, <5>2 DEF Sweeps
      <4>2. CASE j \notin Listed(w)
        <5>1. sweep' = [sweep EXCEPT ![w] = [sweep[w] EXCEPT !.phase = "failed"]]
          BY <2>1, <4>2
        <5>2. [sweep[w] EXCEPT !.phase = "failed"] \in Sweeps
          BY SweepPhase
        <5>3. QED
          BY <5>1, <5>2 DEF Sweeps
      <4>3. QED
        BY <4>1, <4>2
    <3>2. sweep'[w] = r
      BY <3>1
    <3>3. sweep' \in [Workers -> Sweeps] /\ \A v \in Workers \ {w} : sweep'[v] = sweep[v]
      BY <3>1
    <3>4. QED
      BY <3>1, <3>2, <3>3 DEF DeletesOnlyExpired
  <2>4. store' \in [Stores -> [Jtis -> Int]]
    <3>1. CASE j \in Listed(w)
      <4>1. store' = [store EXCEPT ![w] = [store[w] EXCEPT ![j] = Absent]]
        BY <2>1, <3>1
      <4>2. QED
        BY <2>2, <4>1
    <3>2. QED
      BY <2>1, <3>1
  <2>5. \A r \in Stores : \A i \in Jtis :
           \/ store'[r][i] = store[r][i]
           \/ r = w /\ i = j /\ store'[r][i] = Absent
    BY <2>1, <2>2
  <2>6. TypeOK'
    BY <2>3, <2>4
  <2>7. EntriesAreExpiries'
    BY <2>5 DEF EntriesAreExpiries
  <2>8. RevokedStaysListed'
    BY <2>2, <2>5 DEF RevokedStaysListed, OnlyIssued
  <2>9. OnlyIssued' /\ BackendSteps' /\ LateIsLoggedOut' /\ LateAcceptOnlyExpired'
    BY DEF OnlyIssued, BackendSteps, LateIsLoggedOut, LateAcceptOnlyExpired, Accepted
  <2>10. QED
    BY <2>3, <2>6, <2>7, <2>8, <2>9
<1>14. ASSUME NEW w \in Workers, SweepEnd(w) PROVE IInv'
  <2> USE <1>14 DEF SweepEnd
  <2>1. TypeOK'
    BY DEF Sweeps, NoSweep
  <2>2. OnlyIssued'
    BY DEF OnlyIssued
  <2>3. BackendSteps'
    BY DEF BackendSteps
  <2>4. EntriesAreExpiries'
    BY DEF EntriesAreExpiries
  <2>5. DeletesOnlyExpired'
    BY DEF DeletesOnlyExpired, NoSweep
  <2>6. LateIsLoggedOut'
    BY DEF LateIsLoggedOut
  <2>7. RevokedStaysListed'
    BY DEF RevokedStaysListed
  <2>8. LateAcceptOnlyExpired'
    BY DEF LateAcceptOnlyExpired, Accepted
  <2>9. QED
    BY <2>1, <2>2, <2>3, <2>4, <2>5, <2>6, <2>7, <2>8
<1>15. ASSUME NEW w \in Workers, Restart(w) PROVE IInv'
  <2> USE <1>15 DEF Restart
  <2>1. TypeOK'
    <3>1. [j \in Jtis |-> Absent] \in [Jtis -> Int] /\ NoSweep \in Sweeps
      BY DEF Sweeps, NoSweep
    <3>2. store' \in [Stores -> [Jtis -> Int]]
      BY <3>1
    <3>3. sweep' \in [Workers -> Sweeps] /\ loggedOut' \in [Stores -> SUBSET Jtis]
      BY <3>1
    <3>4. pc' \in [Threads -> Answered \union InFlight]
      OBVIOUS
    <3>5. late' \in [Threads -> BOOLEAN]
      OBVIOUS
    <3>6. seen' \in [Threads -> Int]
      OBVIOUS
    <3>7. QED
      BY <3>2, <3>3, <3>4, <3>5, <3>6
  <2>2. OnlyIssued'
    BY DEF OnlyIssued
  <2>3. BackendSteps'
    BY DEF BackendSteps
  <2>4. EntriesAreExpiries'
    BY DEF EntriesAreExpiries
  <2>5. DeletesOnlyExpired'
    BY DEF DeletesOnlyExpired, NoSweep
  <2>6. LateIsLoggedOut'
    BY DEF LateIsLoggedOut
  <2>7. RevokedStaysListed'
    BY DEF RevokedStaysListed
  <2>8. LateAcceptOnlyExpired'
    BY DEF LateAcceptOnlyExpired, Accepted
  <2>9. QED
    BY <2>1, <2>2, <2>3, <2>4, <2>5, <2>6, <2>7, <2>8
<1>16. CASE Tick
  <2> USE <1>16 DEF Tick
  <2>1. TypeOK'
    OBVIOUS
  <2>2. OnlyIssued'
    BY DEF OnlyIssued
  <2>3. BackendSteps'
    BY DEF BackendSteps
  <2>4. EntriesAreExpiries'
    BY DEF EntriesAreExpiries
  <2>5. DeletesOnlyExpired'
    <3>1. \A j \in Jtis : exp[j] # Absent /\ clock > exp[j] => clock' > exp[j]
      OBVIOUS
    <3>2. \A w \in Workers : sweep[w].now <= clock'
      BY DEF DeletesOnlyExpired, Sweeps
    <3>3. \A t \in Threads : pc[t] \in {"drop", "failed"} => clock' > exp[jti[t]]
      BY <3>1 DEF DeletesOnlyExpired, OnlyIssued
    <3>4. QED
      BY <3>1, <3>2, <3>3 DEF DeletesOnlyExpired, Sweeps
  <2>6. LateIsLoggedOut'
    BY DEF LateIsLoggedOut
  <2>7. RevokedStaysListed'
    BY DEF RevokedStaysListed, OnlyIssued
  <2>8. LateAcceptOnlyExpired'
    BY SMTT(20) DEF LateAcceptOnlyExpired, Accepted, OnlyIssued
  <2>9. QED
    BY <2>1, <2>2, <2>3, <2>4, <2>5, <2>6, <2>7, <2>8
<1>17. CASE UNCHANGED vars
  BY <1>17 DEF vars, OnlyIssued, BackendSteps, EntriesAreExpiries, DeletesOnlyExpired,
     LateIsLoggedOut, RevokedStaysListed, LateAcceptOnlyExpired, Accepted
<1>18. QED
  BY <1>1, <1>2, <1>3, <1>4, <1>5, <1>6, <1>7, <1>8, <1>9, <1>10, <1>11, <1>12, <1>13, <1>14, <1>15, <1>16, <1>17
     DEF Next, Request, Maintenance

\* The inductive invariant holds initially and so always.
THEOREM InductiveInvariant == Spec => []IInv
<1>1. Init => IInv
  BY RevocationAssumption
     DEF Init, IInv, TypeOK, OnlyIssued, BackendSteps, EntriesAreExpiries,
         DeletesOnlyExpired, LateIsLoggedOut, RevokedStaysListed,
         LateAcceptOnlyExpired, Accepted, Answered, InFlight, Stores, Issued,
         Listed, Absent, NoSweep, Sweeps
<1>2. QED
  BY <1>1, InductiveStep, PTL DEF Spec

\* The variables keep their types.
THEOREM TypeCorrect == Spec => []TypeOK
<1>1. IInv => TypeOK
  BY DEF IInv
<1>2. QED
  BY <1>1, InductiveInvariant, PTL

\* A worker's dict keeps a logged-out token until the token expires, whatever
\* the other threads' checks and purges do.
THEOREM LogoutRecorded == Spec => []RevokedStaysListed
<1>1. IInv => RevokedStaysListed
  BY DEF IInv
<1>2. QED
  BY <1>1, InductiveInvariant, PTL

\* Within one process, a request after the logout passes the guard only when
\* the token has expired meanwhile.
THEOREM LogoutEnforced == Spec => []LateAcceptOnlyExpired
<1>1. IInv => LateAcceptOnlyExpired
  BY DEF IInv
<1>2. QED
  BY <1>1, InductiveInvariant, PTL

\* The KeyError race never fails a request whose token is still live.
THEOREM FailuresAreLate == Spec => []FailedOnlyExpired
<1>1. IInv => FailedOnlyExpired
  BY DEF IInv, DeletesOnlyExpired, FailedOnlyExpired
<1>2. QED
  BY <1>1, InductiveInvariant, PTL

-----------------------------------------------------------------------------
(* The Redis backend *)

\* Computing the ttl loses less than a second of the token's life, the time
\* SETEX takes loses nothing, and no other step shortens a key.
LEMMA RedisStep == RedisInv /\ [Next]_vars => KeyLastsLongEnough'
<1> SUFFICES ASSUME RedisInv, [Next]_vars PROVE KeyLastsLongEnough'
  OBVIOUS
<1> USE RevocationAssumption
        DEF RedisInv, IInv, TypeOK, KeyLastsLongEnough, OnlyIssued, BackendSteps,
            Goto, Answered, InFlight, Stores, StoreOf, Issued, Absent
<1>1. CASE Tick
  BY <1>1 DEF Tick
<1>2. ASSUME NEW t \in Threads, NEW j \in Jtis, Login(t, j) \/ Arrive(t, j)
      PROVE  KeyLastsLongEnough'
  <2>1. CASE Login(t, j)
    <3>1. \A i \in Issued : exp'[i] = exp[i]
      BY <2>1 DEF Login
    <3>2. \A u \in Threads : pc'[u] = "setex" => pc[u] = "setex" /\ jti[u] \in Issued
      BY <2>1 DEF Login
    <3>3. QED
      BY <2>1, <3>1, <3>2 DEF Login
  <2>2. CASE Arrive(t, j)
    BY <2>2 DEF Arrive
  <2>3. QED
    BY <1>2, <2>1, <2>2
<1>3. ASSUME NEW t \in Threads, Decode(t) \/ LookupMemory(t) \/ Age(t) \/ LookupRedis(t)
      PROVE  KeyLastsLongEnough'
  BY <1>3 DEF Decode, LookupMemory, Age, LookupRedis
<1>4. ASSUME NEW t \in Threads, Drop(t) \/ RevokeMemory(t)
      PROVE  KeyLastsLongEnough'
  BY <1>4 DEF Drop, RevokeMemory
<1>5. ASSUME NEW t \in Threads, Ttl(t)
      PROVE  KeyLastsLongEnough'
  <2> DEFINE left == exp[jti[t]] - clock
             ttl == IF left < TPS THEN TPS ELSE WholeSeconds(left)
  <2>1. left \in Int /\ TPS \in Nat \ {0}
    BY SMTT(20), <1>5 DEF Ttl
  <2>2. ttl \in Int /\ left < ttl + TPS
    BY <2>1, WholeSecondsBounds
  <2>3. seen' = [seen EXCEPT ![t] = ttl]
    BY <1>5 DEF Ttl, TimeToLive
  <2> HIDE DEF ttl
  <2>4. clock + ttl > exp[jti[t]] - TPS
    <3>1. clock \in Int /\ exp[jti[t]] \in Int
      BY <1>5 DEF Ttl
    <3>2. QED
      BY <2>1, <2>2, <3>1
  <2>5. seen'[t] = ttl /\ \A u \in Threads \ {t} : seen'[u] = seen[u]
    BY <2>2, <2>3
  <2>6. QED
    BY <1>5, <2>4, <2>5 DEF Ttl
<1>6. ASSUME NEW t \in Threads, Setex(t)
      PROVE  KeyLastsLongEnough'
  BY <1>6 DEF Setex
<1>7. ASSUME NEW w \in Workers, SweepBegin(w) \/ SweepScan(w) \/ SweepEnd(w)
      PROVE  KeyLastsLongEnough'
  BY <1>7 DEF SweepBegin, SweepScan, SweepEnd
<1>8. ASSUME NEW w \in Workers, SweepDelete(w)
      PROVE  KeyLastsLongEnough'
  BY <1>8 DEF SweepDelete
<1>9. ASSUME NEW w \in Workers, Restart(w)
      PROVE  KeyLastsLongEnough'
  BY <1>9 DEF Restart
<1>10. CASE UNCHANGED vars
  BY <1>10 DEF vars
<1>11. QED
  BY <1>1, <1>2, <1>3, <1>4, <1>5, <1>6, <1>7, <1>8, <1>9, <1>10
     DEF Next, Request, Maintenance

\* So a late request passes the guard in the last second at the earliest.
LEMMA RedisLateStep == RedisInv /\ [Next]_vars => LateAcceptOnlyLastSecond'
<1> SUFFICES ASSUME RedisInv, [Next]_vars PROVE LateAcceptOnlyLastSecond'
  OBVIOUS
<1> USE RevocationAssumption
        DEF RedisInv, IInv, TypeOK, LateAcceptOnlyLastSecond, Accepted, OnlyIssued,
            BackendSteps, Goto, Answered, InFlight, Stores, StoreOf, Issued, Absent
<1>1. CASE Tick
  BY <1>1 DEF Tick
<1>2. ASSUME NEW t \in Threads, NEW j \in Jtis, Login(t, j) \/ Arrive(t, j)
      PROVE  LateAcceptOnlyLastSecond'
  <2>1. CASE Login(t, j)
    <3>1. \A i \in Issued : exp'[i] = exp[i]
      BY <2>1 DEF Login
    <3>2. \A u \in Threads : pc'[u] # "idle" => pc'[u] = pc[u] /\ jti[u] \in Issued
      BY <2>1 DEF Login
    <3>3. QED
      BY <2>1, <3>1, <3>2 DEF Login
  <2>2. CASE Arrive(t, j)
    BY <2>2 DEF Arrive
  <2>3. QED
    BY <1>2, <2>1, <2>2
<1>3. ASSUME NEW t \in Threads,
             Decode(t) \/ LookupMemory(t) \/ Age(t) \/ Drop(t) \/ RevokeMemory(t)
      PROVE  LateAcceptOnlyLastSecond'
  BY <1>3 DEF Decode, LookupMemory, Age, Drop, RevokeMemory
<1>4. ASSUME NEW t \in Threads, LookupRedis(t)
      PROVE  LateAcceptOnlyLastSecond'
  BY <1>4 DEF LookupRedis, KeyLastsLongEnough, LateIsLoggedOut
<1>5. ASSUME NEW t \in Threads, Ttl(t) \/ Setex(t)
      PROVE  LateAcceptOnlyLastSecond'
  BY <1>5 DEF Ttl, Setex
<1>6. ASSUME NEW w \in Workers, Maintenance(w)
      PROVE  LateAcceptOnlyLastSecond'
  <2>1. CASE SweepBegin(w) \/ SweepScan(w) \/ SweepEnd(w)
    BY <2>1 DEF SweepBegin, SweepScan, SweepEnd
  <2>2. CASE SweepDelete(w)
    BY <2>2 DEF SweepDelete
  <2>3. CASE Restart(w)
    BY <2>3 DEF Restart
  <2>4. QED
    BY <1>6, <2>1, <2>2, <2>3 DEF Maintenance
<1>7. CASE UNCHANGED vars
  BY <1>7 DEF vars
<1>8. QED
  BY <1>1, <1>2, <1>3, <1>4, <1>5, <1>6, <1>7 DEF Next, Request

\* With Redis a logged-out token is refused except in its last second.
THEOREM LogoutEnforcedByRedis == Spec => []LateAcceptOnlyLastSecond
<1>1. Init => RedisInv
  <2>1. Init => KeyLastsLongEnough /\ LateAcceptOnlyLastSecond
    BY DEF Init, KeyLastsLongEnough, LateAcceptOnlyLastSecond, Stores
  <2>2. Init => IInv
    BY RevocationAssumption
       DEF Init, IInv, TypeOK, OnlyIssued, BackendSteps, EntriesAreExpiries,
           DeletesOnlyExpired, LateIsLoggedOut, RevokedStaysListed,
           LateAcceptOnlyExpired, Accepted, Answered, InFlight, Stores, Issued,
           Listed, Absent, NoSweep, Sweeps
  <2>3. QED
    BY <2>1, <2>2 DEF RedisInv
<1>2. RedisInv /\ [Next]_vars => RedisInv'
  BY InductiveStep, RedisStep, RedisLateStep DEF RedisInv
<1>3. RedisInv => LateAcceptOnlyLastSecond
  BY DEF RedisInv
<1>4. QED
  BY <1>1, <1>2, <1>3, PTL DEF Spec
=============================================================================
