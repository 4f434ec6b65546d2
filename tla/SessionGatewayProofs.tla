-------------------------- MODULE SessionGatewayProofs --------------------------
(***************************************************************************)
(* Proofs about SessionGateway for any number of threads, sessions and     *)
(* tokens, and any lives of sessions and refresh tokens.                   *)
(***************************************************************************)
EXTENDS SessionGateway, TLAPS

-----------------------------------------------------------------------------
(* Steps that leave sessions and tokens alone *)

\* Nothing of the invariant but a type is about the clock.
LEMMA ClockStep ==
    ASSUME IInv, clock' \in Nat \ {0}, UNCHANGED <<session, exp, pc, local, history>>
    PROVE  IInv'
<1>1. UNCHANGED <<created, active, expires, access, refresh, exp, pc, tok, size, pos, new,
                  owner, parent, told, spent, void, overlapped>>
  BY DEF session, local, history
<1>2. Unissued' = Unissued /\ Issued' = Issued /\ \A s : ServedOn(s)' = ServedOn(s)
  BY <1>1 DEF Unissued, Issued, ServedOn
<1>3. TypeOK'
  BY <1>1, <1>2 DEF IInv, TypeOK
<1>4. TokensOwned' /\ ExchangesEnd' /\ TwinsNeedOverlap'
  BY <1>1, <1>2 DEF IInv, TokensOwned, ExchangesEnd, TwinsNeedOverlap
<1>5. RequestsSound' /\ FreshApart'
  BY <1>1, <1>2 DEF IInv, RequestsSound, FreshApart
<1>6. OverlapsRecorded' /\ AloneUndisturbed'
  BY <1>1, <1>2 DEF IInv, OverlapsRecorded, AloneUndisturbed
<1>7. AnsweredTokenIsCurrent' /\ NotFoundHasReason' /\ TokensPaired'
  BY <1>1, <1>2 DEF IInv, AnsweredTokenIsCurrent, NotFoundHasReason, TokensPaired
<1>8. QED
  BY <1>3, <1>4, <1>5, <1>6, <1>7 DEF IInv

\* A request before the issue of its tokens goes on, or is answered an error.
LEMMA ReadingStep ==
    ASSUME IInv, TypeOK', NEW t \in Threads,
           NEW to \in {"scan", "inspect", "check", "issue",
                       "expired", "failed", "notfound", "refused"},
           pc[t] \in {"validate", "scan", "inspect", "check"},
           pc' = [pc EXCEPT ![t] = to],
           UNCHANGED <<clock, session, exp, tok, history>>,
           \A u \in Threads : u # t => pos'[u] = pos[u] /\ new'[u] = new[u],
           to = "inspect" => pos'[t] >= 1,
           to \in {"check", "issue"} => pos'[t] = owner[tok[t]] /\ ~void[t],
           to = "inspect" /\ ~void[t] /\ active[owner[tok[t]]]
                          /\ owner[tok[t]] \notin overlapped => pos'[t] <= owner[tok[t]],
           to = "notfound" =>
             void[t] \/ ~active[owner[tok[t]]] \/ owner[tok[t]] \in overlapped
    PROVE  IInv'
<1>1. UNCHANGED <<created, active, expires, access, refresh, exp, tok,
                  owner, parent, told, spent, void, overlapped>>
  BY DEF session, history
<1>2. /\ pc'[t] = to /\ \A u \in Threads : u # t => pc'[u] = pc[u]
      /\ Unissued' = Unissued /\ Issued' = Issued
  BY <1>1 DEF Unissued, Issued, IInv, TypeOK
<1>3. TokensOwned' /\ TwinsNeedOverlap'
  BY <1>1, <1>2 DEF IInv, TokensOwned, TwinsNeedOverlap
<1>4. ExchangesEnd'
  <2>1. \A u \in Threads : pc[u] = "rotate" => pc'[u] = "rotate"
    BY <1>2
  <2>2. QED
    BY <1>1, <1>2, <2>1 DEF IInv, ExchangesEnd
<1>5. RequestsSound'
  BY <1>1, <1>2 DEF IInv, RequestsSound, InFlight
<1>6. FreshApart'
  BY <1>1, <1>2 DEF IInv, FreshApart
<1>7. OverlapsRecorded'
  BY <1>1, <1>2 DEF IInv, OverlapsRecorded, InFlight
<1>8. AloneUndisturbed'
  BY <1>1, <1>2 DEF IInv, AloneUndisturbed, InFlight
<1>9. AnsweredTokenIsCurrent'
  BY <1>1 DEF IInv, AnsweredTokenIsCurrent
<1>10. NotFoundHasReason'
  BY <1>1, <1>2 DEF IInv, NotFoundHasReason
<1>11. TokensPaired'
  BY <1>1, <1>2 DEF IInv, TokensPaired, ServedOn, InFlight
<1>12. QED
  BY <1>3, <1>4, <1>5, <1>6, <1>7, <1>8, <1>9, <1>10, <1>11 DEF IInv

LEMMA ValidateStep ==
    ASSUME IInv, NEW t \in Threads, Validate(t)
    PROVE  IInv'
<1>1. PICK to \in {"expired", "scan"} :
        /\ pc[t] = "validate" /\ pc' = [pc EXCEPT ![t] = to]
        /\ UNCHANGED <<clock, session, exp, local, history>>
  BY DEF Validate, Goto
<1>2. UNCHANGED <<tok, size, pos, new>>
  BY <1>1 DEF local
<1>3. TypeOK'
  BY <1>1, <1>2 DEF IInv, TypeOK, session, history, Answered, InFlight, Unissued
<1>4. QED
  BY <1>1, <1>2, <1>3, ReadingStep

LEMMA ScanBeginStep ==
    ASSUME IInv, NEW t \in Threads, ScanBegin(t)
    PROVE  IInv'
<1>1. /\ pc[t] = "scan" /\ pc' = [pc EXCEPT ![t] = "inspect"]
      /\ size' = [size EXCEPT ![t] = created] /\ pos' = [pos EXCEPT ![t] = 1]
      /\ UNCHANGED <<clock, session, exp, tok, new, history>>
  BY DEF ScanBegin, Goto
<1>2. 1 \in 0 .. MaxSessions + 1
  BY GatewayAssumption
<1>3. TypeOK'
  BY <1>1, <1>2 DEF IInv, TypeOK, session, history, Answered, InFlight, Unissued
<1>4. tok[t] \in told
  BY <1>1 DEF IInv, RequestsSound
<1>5. owner[tok[t]] \in 1 .. created /\ created \in Nat
  BY <1>4, GatewayAssumption DEF IInv, TokensOwned, TypeOK
<1>6. /\ pos'[t] >= 1 /\ pos'[t] <= owner[tok[t]]
      /\ \A u \in Threads : u # t => pos'[u] = pos[u] /\ new'[u] = new[u]
  BY <1>1, <1>5 DEF IInv, TypeOK
<1>7. QED
  BY <1>1, <1>3, <1>6, ReadingStep

LEMMA ReturnFacts ==
    ASSUME IInv, NEW t \in Threads, NEW to \in Answered, Return(t, to)
    PROVE  /\ pc' = [pc EXCEPT ![t] = to]
           /\ size' \in [Threads -> 0 .. MaxSessions]
           /\ pos' \in [Threads -> 0 .. MaxSessions + 1]
           /\ new' \in [Threads -> Tokens \union {None}]
           /\ \A u \in Threads : u # t => pos'[u] = pos[u] /\ new'[u] = new[u]
  BY GatewayAssumption DEF Return, Goto, IInv, TypeOK

LEMMA InspectStep ==
    ASSUME IInv, NEW t \in Threads, Inspect(t)
    PROVE  IInv'
<1>1. pc[t] = "inspect" /\ UNCHANGED <<clock, session, exp, tok, history>>
  BY DEF Inspect
<1>2. tok[t] \in told /\ tok[t] \in Tokens
  BY <1>1 DEF IInv, RequestsSound, TypeOK
<1>3. owner[tok[t]] \in 1 .. created /\ created \in 0 .. MaxSessions /\ MaxSessions \in Nat
  BY <1>2, GatewayAssumption DEF IInv, TokensOwned, TypeOK
<1>4. CASE created # size[t] /\ Return(t, "failed")
  <2>1. TypeOK'
    BY SMTT(20), <1>1, <1>4, ReturnFacts DEF IInv, TypeOK, session, history, Answered, InFlight, Unissued
  <2>2. QED
    BY <1>1, <1>4, <2>1, ReturnFacts, ReadingStep DEF Answered
<1>5. CASE created = size[t] /\ Exhausted(t) /\ Return(t, "notfound")
  <2>1. TypeOK'
    BY SMTT(20), <1>1, <1>5, ReturnFacts DEF IInv, TypeOK, session, history, Answered, InFlight, Unissued
  <2>2. ~(pos[t] <= owner[tok[t]])
    BY <1>3, <1>5 DEF Exhausted, IInv, TypeOK
  <2>3. void[t] \/ ~active[owner[tok[t]]] \/ owner[tok[t]] \in overlapped
    BY <1>1, <2>2 DEF IInv, AloneUndisturbed, InFlight
  <2>4. QED
    BY <1>1, <1>5, <2>1, <2>3, ReturnFacts, ReadingStep DEF Answered
<1>6. CASE /\ created = size[t] /\ ~Exhausted(t)
           /\ IF Matches(pos[t], tok[t])
              THEN Goto(t, "check") /\ UNCHANGED pos
              ELSE pos' = [pos EXCEPT ![t] = @ + 1] /\ UNCHANGED pc
           /\ UNCHANGED <<size, new>>
  <2>1. pos[t] \in 1 .. created
    BY <1>1, <1>3, <1>6 DEF Exhausted, IInv, TypeOK, RequestsSound
  <2>2. CASE Matches(pos[t], tok[t])
    <3>1. pc' = [pc EXCEPT ![t] = "check"] /\ UNCHANGED <<pos, size, new>>
      BY <1>6, <2>2 DEF Goto
    <3>2. refresh[pos[t]] = tok[t] /\ active[pos[t]]
      BY <2>2 DEF Matches
    <3>3. pos[t] = owner[tok[t]] /\ tok[t] \notin spent
      BY <2>1, <3>2, <1>3 DEF IInv, TokensOwned
    <3>4. ~void[t]
      BY <1>1, <3>2, <3>3 DEF IInv, RequestsSound, InFlight
    <3>5. TypeOK'
      BY <1>1, <1>3, <3>1, <3>3 DEF IInv, TypeOK, session, history, Answered, InFlight, Unissued
    <3>6. QED
      BY <1>1, <3>1, <3>3, <3>4, <3>5, ReadingStep
  <2>3. CASE ~Matches(pos[t], tok[t])
    <3>1. pos' = [pos EXCEPT ![t] = pos[t] + 1] /\ UNCHANGED <<pc, size, new>>
      BY <1>6, <2>3
    <3>2. pos[t] + 1 \in 0 .. MaxSessions + 1
      BY <1>3, <2>1
    <3>3. TypeOK'
      BY <1>1, <3>1, <3>2 DEF IInv, TypeOK, session, history, Unissued
    <3>4. /\ pc' = [pc EXCEPT ![t] = "inspect"]
          /\ pos'[t] = pos[t] + 1 /\ pos'[t] >= 1
          /\ \A u \in Threads : u # t => pos'[u] = pos[u] /\ new'[u] = new[u]
      BY <1>1, <1>3, <2>1, <3>1 DEF IInv, TypeOK
    <3>5. ASSUME ~void[t], active[owner[tok[t]]], owner[tok[t]] \notin overlapped
          PROVE  pos'[t] <= owner[tok[t]]
      <4>1. pos[t] <= owner[tok[t]] /\ tok[t] \notin spent
        BY <1>1, <3>5 DEF IInv, AloneUndisturbed, InFlight
      <4>2. refresh[owner[tok[t]]] = tok[t]
        BY <1>2, <3>5, <4>1 DEF IInv, AnsweredTokenIsCurrent
      <4>3. pos[t] # owner[tok[t]]
        BY <2>3, <3>5, <4>2 DEF Matches
      <4>4. QED
        BY <1>3, <2>1, <3>4, <4>1, <4>3
    <3>6. QED
      BY <1>1, <3>3, <3>4, <3>5, ReadingStep
  <2>4. QED
    BY <2>2, <2>3
<1>7. QED
  BY <1>4, <1>5, <1>6 DEF Inspect

LEMMA CheckStep ==
    ASSUME IInv, NEW t \in Threads, Check(t)
    PROVE  IInv'
<1>1. pc[t] = "check" /\ UNCHANGED <<clock, session, exp, tok, history>>
  BY DEF Check
<1>2. CASE Return(t, "refused")
  <2>1. TypeOK'
    BY <1>1, <1>2, ReturnFacts DEF IInv, TypeOK, session, history, Answered, InFlight, Unissued
  <2>2. QED
    BY <1>1, <1>2, <2>1, ReturnFacts, ReadingStep DEF Answered
<1>3. CASE Goto(t, "issue") /\ UNCHANGED <<size, pos, new>>
  <2>1. pc' = [pc EXCEPT ![t] = "issue"] /\ UNCHANGED <<size, pos, new>>
    BY <1>3 DEF Goto
  <2>2. TypeOK'
    BY <1>1, <2>1 DEF IInv, TypeOK, session, history, Answered, InFlight, Unissued
  <2>3. pos[t] = owner[tok[t]] /\ ~void[t]
    BY <1>1 DEF IInv, RequestsSound
  <2>4. QED
    BY <1>1, <2>1, <2>2, <2>3, ReadingStep
<1>4. QED
  BY <1>2, <1>3 DEF Check

-----------------------------------------------------------------------------
(* Steps that change sessions and tokens *)

\* A session is terminated: what is said of active sessions asks for less.
LEMMA TerminateStep ==
    ASSUME IInv, NEW s \in Sessions, Terminate(s)
    PROVE  IInv'
<1>1. /\ s \in 1 .. created /\ active' = [active EXCEPT ![s] = FALSE]
      /\ UNCHANGED <<clock, created, expires, access, refresh, exp, pc, tok, size, pos, new,
                     owner, parent, told, spent, void, overlapped>>
  BY DEF Terminate, local, history
<1>2. /\ \A u \in Sessions : active'[u] => active[u]
      /\ Unissued' = Unissued /\ Issued' = Issued
  BY <1>1 DEF Unissued, Issued, IInv, TypeOK
<1>3. TypeOK'
  BY <1>1, <1>2 DEF IInv, TypeOK
<1>4. TokensOwned' /\ ExchangesEnd' /\ TwinsNeedOverlap'
  BY <1>1, <1>2 DEF IInv, TokensOwned, ExchangesEnd, TwinsNeedOverlap
<1>5. FreshApart' /\ OverlapsRecorded' /\ TokensPaired' /\ AnsweredTokenIsCurrent'
  BY <1>1, <1>2 DEF IInv, FreshApart, OverlapsRecorded, TokensPaired, ServedOn,
                    AnsweredTokenIsCurrent
<1>6. \A t \in Threads : pc[t] # "idle" => owner[tok[t]] \in Sessions
  BY DEF IInv, RequestsSound, TokensOwned, TypeOK, Sessions
<1>7. RequestsSound'
  BY <1>1, <1>2, <1>6 DEF IInv, RequestsSound, InFlight
<1>8. AloneUndisturbed'
  BY <1>1, <1>2, <1>6 DEF IInv, AloneUndisturbed, InFlight
<1>9. NotFoundHasReason'
  BY <1>1, <1>2, <1>6 DEF IInv, NotFoundHasReason
<1>10. QED
  BY <1>3, <1>4, <1>5, <1>7, <1>8, <1>9 DEF IInv

\* What is issued is a token nobody has.
LEMMA IssueFacts ==
    ASSUME IInv, NEW k \in Tokens, NEW s \in Sessions, NEW old \in Tokens \union {None},
           Issue(k, s, old)
    PROVE  /\ k \notin Issued /\ Issued' = Issued \union {k}
           /\ exp' \in [Tokens -> Nat]
           /\ owner' \in [Tokens -> 0 .. MaxSessions]
           /\ parent' \in [Tokens -> Tokens \union {None}]
           /\ owner'[k] = s /\ parent'[k] = old
           /\ \A j \in Issued : owner'[j] = owner[j] /\ parent'[j] = parent[j]
<1>1. exp[k] = 0 /\ k \notin Issued
  BY DEF Issue, Unissued, Issued
<1>2. clock + RefreshLife \in Nat /\ s \in 0 .. MaxSessions
  BY GatewayAssumption DEF IInv, TypeOK, Sessions
<1>3. clock + RefreshLife # 0
  BY GatewayAssumption DEF IInv, TypeOK
<1>4. /\ exp' \in [Tokens -> Nat] /\ exp'[k] # 0
      /\ \A j \in Tokens : j # k => exp'[j] = exp[j]
  BY <1>2, <1>3 DEF Issue, IInv, TypeOK
<1>5. Issued' = Issued \union {k}
  BY <1>4 DEF Issued, Unissued
<1>6. /\ owner' \in [Tokens -> 0 .. MaxSessions] /\ owner'[k] = s
      /\ parent' \in [Tokens -> Tokens \union {None}] /\ parent'[k] = old
      /\ \A j \in Tokens : j # k => owner'[j] = owner[j] /\ parent'[j] = parent[j]
  BY <1>2 DEF Issue, IInv, TypeOK
<1>7. QED
  BY <1>1, <1>4, <1>5, <1>6 DEF Issued

\* A session is created: its number and its token are new to everybody.
LEMMA CreateStep ==
    ASSUME IInv, NEW k \in Tokens, Create(k)
    PROVE  IInv'
<1> DEFINE s == created + 1
<1>1. /\ created < MaxSessions /\ Issue(k, s, None)
      /\ created' = s
      /\ active' = [active EXCEPT ![s] = TRUE]
      /\ expires' = [expires EXCEPT ![s] = clock + SessionLife]
      /\ access' = [access EXCEPT ![s] = k]
      /\ refresh' = [refresh EXCEPT ![s] = k]
      /\ told' = told \union {k}
      /\ UNCHANGED <<clock, pc, tok, size, pos, new, spent, void, overlapped>>
  BY DEF Create, local
<1>2. /\ created \in Nat /\ MaxSessions \in Nat /\ s \in 1 .. MaxSessions
      /\ s \in Sessions /\ s \notin 1 .. created /\ 1 .. s = (1 .. created) \union {s}
      /\ 1 .. created \subseteq Sessions
  <2>1. created \in Nat /\ MaxSessions \in Nat /\ created < MaxSessions
    BY <1>1, GatewayAssumption DEF IInv, TypeOK
  <2>2. s \in 1 .. MaxSessions /\ s \notin 1 .. created
    BY <2>1
  <2>3. 1 .. s = (1 .. created) \union {s}
    BY <2>1
  <2>4. 1 .. created \subseteq 1 .. MaxSessions
    BY <2>1
  <2>5. QED
    BY <2>1, <2>2, <2>3, <2>4 DEF Sessions
<1>3. clock + SessionLife \in Nat
  BY GatewayAssumption DEF IInv, TypeOK
<1>4. /\ k \notin Issued /\ Issued' = Issued \union {k} /\ Issued \subseteq Tokens
      /\ exp' \in [Tokens -> Nat]
      /\ owner' \in [Tokens -> 0 .. MaxSessions]
      /\ parent' \in [Tokens -> Tokens \union {None}]
      /\ owner'[k] = s /\ parent'[k] = None
      /\ \A j \in Issued : owner'[j] = owner[j] /\ parent'[j] = parent[j]
  BY <1>1, <1>2, IssueFacts DEF Issued
<1>5. /\ active' \in [Sessions -> BOOLEAN] /\ active'[s] = TRUE
      /\ access' \in [Sessions -> Tokens \union {None}] /\ access'[s] = k
      /\ refresh' \in [Sessions -> Tokens \union {None}] /\ refresh'[s] = k
      /\ \A u \in Sessions : u # s => /\ active'[u] = active[u] /\ access'[u] = access[u]
                                      /\ refresh'[u] = refresh[u]
  BY <1>1, <1>2 DEF IInv, TypeOK
<1>6. expires' \in [Sessions -> Nat]
  BY <1>1, <1>3 DEF IInv, TypeOK
<1>7. /\ \A j \in Issued : owner[j] \in 1 .. created /\ owner[j] # s
      /\ \A j \in told : j \in Issued /\ j # k
      /\ \A t \in Threads : pc[t] # "idle" =>
           /\ tok[t] \in told /\ owner'[tok[t]] = owner[tok[t]]
           /\ owner[tok[t]] \in 1 .. created /\ owner[tok[t]] # s
      /\ \A u \in 1 .. created : {access[u], refresh[u]} \subseteq Issued
  BY <1>2, <1>4 DEF IInv, TokensOwned, RequestsSound, TypeOK, Issued
<1>8. TypeOK'
  <2>1. \A u \in 1 .. created' : {access'[u], refresh'[u]} \subseteq Issued'
    BY <1>1, <1>2, <1>4, <1>5, <1>7
  <2>2. told' \subseteq Tokens /\ created' \in 0 .. MaxSessions
    BY <1>1, <1>2 DEF IInv, TypeOK
  <2>3. \A t \in Threads : pc'[t] \in {"check", "issue", "rotate"} => pos'[t] \in 1 .. created'
    BY <1>1, <1>2 DEF IInv, TypeOK
  <2>4. QED
    BY <1>1, <1>4, <1>5, <1>6, <2>1, <2>2, <2>3 DEF IInv, TypeOK, Issued
<1>9. TokensOwned'
  <2>1. spent' \subseteq told' /\ told' \subseteq Issued'
    BY <1>1, <1>4 DEF IInv, TokensOwned
  <2>2. \A j \in Issued' : owner'[j] \in 1 .. created'
    BY <1>1, <1>2, <1>4, <1>7
  <2>3. \A u \in Sessions \ (1 .. created') :
          ~active'[u] /\ access'[u] = None /\ refresh'[u] = None
    BY <1>1, <1>2, <1>5 DEF IInv, TokensOwned
  <2>4. \A u \in 1 .. created' : owner'[refresh'[u]] = u /\ refresh'[u] \notin spent'
    BY <1>1, <1>2, <1>4, <1>5, <1>7 DEF IInv, TokensOwned
  <2>5. QED
    BY <2>1, <2>2, <2>3, <2>4 DEF TokensOwned, Sessions
<1>10. ExchangesEnd' /\ TwinsNeedOverlap'
  BY <1>1, <1>4 DEF IInv, ExchangesEnd, TwinsNeedOverlap
<1>11. RequestsSound'
  BY <1>1, <1>2, <1>5, <1>7 DEF IInv, RequestsSound, InFlight
<1>12. FreshApart'
  <2>1. \A t \in Threads : pc[t] \in {"rotate", "answer"} => new[t] \in Issued \ told'
    BY <1>1, <1>4 DEF IInv, FreshApart
  <2>2. QED
    BY <1>1, <1>4, <1>7, <2>1 DEF IInv, FreshApart
<1>13. OverlapsRecorded'
  BY <1>1, <1>7 DEF IInv, OverlapsRecorded, InFlight
<1>14. AloneUndisturbed'
  <2>1. \A t \in Threads : pc[t] \in {"rotate", "answer"} => pos[t] = owner[tok[t]]
    BY DEF IInv, RequestsSound
  <2>2. QED
    BY <1>1, <1>2, <1>5, <1>7, <2>1 DEF IInv, AloneUndisturbed, InFlight
<1>15. AnsweredTokenIsCurrent'
  BY <1>1, <1>2, <1>4, <1>5, <1>7 DEF IInv, AnsweredTokenIsCurrent
<1>16. NotFoundHasReason'
  BY <1>1, <1>2, <1>5, <1>7 DEF IInv, NotFoundHasReason
<1>17. TokensPaired'
  <2>1. \A u \in Sessions, t \in Threads : t \in ServedOn(u) => t \in ServedOn(u)'
    BY <1>1, <1>7 DEF ServedOn, InFlight
  <2>2. QED
    BY <1>1, <1>5, <2>1 DEF IInv, TokensPaired, ServedOn
<1>18. QED
  BY <1>8, <1>9, <1>10, <1>11, <1>12, <1>13, <1>14, <1>15, <1>16, <1>17 DEF IInv

\* A refresh arrives, with whatever token its client was once answered.
LEMMA StartStep ==
    ASSUME IInv, NEW t \in Threads, NEW k \in Tokens, Start(t, k)
    PROVE  IInv'
<1>1. /\ pc[t] \in Answered /\ k \in told
      /\ pc' = [pc EXCEPT ![t] = "validate"] /\ tok' = [tok EXCEPT ![t] = k]
      /\ void' = [void EXCEPT ![t] = ~active[owner[k]] \/ k \in spent]
      /\ overlapped' = IF ServedOn(owner[k]) # {} THEN overlapped \union {owner[k]}
                                                  ELSE overlapped
      /\ UNCHANGED <<clock, created, active, expires, access, refresh, exp, size, pos, new,
                     owner, parent, told, spent>>
  BY DEF Start, Goto, session
<1>2. Unissued' = Unissued /\ Issued' = Issued
  BY <1>1 DEF Unissued, Issued
<1>3. owner[k] \in Sessions
  BY <1>1, GatewayAssumption DEF IInv, TokensOwned, TypeOK, Sessions
<1>4. /\ pc'[t] = "validate" /\ tok'[t] = k
      /\ void'[t] <=> ~active[owner[k]] \/ k \in spent
      /\ \A u \in Threads : u # t => pc'[u] = pc[u] /\ tok'[u] = tok[u] /\ void'[u] = void[u]
  BY <1>1 DEF IInv, TypeOK
<1>5. /\ overlapped' \subseteq Sessions /\ overlapped \subseteq overlapped'
      /\ ServedOn(owner[k]) # {} => owner[k] \in overlapped'
  BY <1>1, <1>3 DEF IInv, TypeOK
<1>6. TypeOK'
  <2>1. void' \in [Threads -> BOOLEAN]
    BY <1>1 DEF IInv, TypeOK
  <2>2. \A u \in Threads : pc'[u] \in {"check", "issue", "rotate"} => pos'[u] \in 1 .. created'
    BY <1>1, <1>4 DEF IInv, TypeOK
  <2>3. QED
    BY <1>1, <1>2, <1>5, <2>1, <2>2 DEF IInv, TypeOK, Answered, InFlight
<1>7. TokensOwned' /\ TwinsNeedOverlap'
  BY <1>1, <1>2, <1>5 DEF IInv, TokensOwned, TwinsNeedOverlap
<1>8. ExchangesEnd'
  <2>1. \A u \in Threads : pc[u] = "rotate" => pc'[u] = "rotate" /\ tok'[u] = tok[u]
    BY <1>1, <1>4 DEF Answered
  <2>2. QED
    BY <1>1, <1>2, <2>1 DEF IInv, ExchangesEnd
<1>9. RequestsSound'
  BY <1>1, <1>4 DEF IInv, RequestsSound, InFlight
<1>10. FreshApart'
  BY <1>1, <1>2, <1>4 DEF IInv, FreshApart
<1>11. OverlapsRecorded'
  <2>1. \A u \in Threads : u # t /\ pc[u] \in InFlight /\ owner[tok[u]] = owner[k] =>
          owner[k] \in overlapped'
    BY <1>5 DEF ServedOn
  <2>2. QED
    BY <1>1, <1>4, <1>5, <2>1 DEF IInv, OverlapsRecorded
<1>12. AloneUndisturbed'
  BY <1>1, <1>4, <1>5 DEF IInv, AloneUndisturbed, InFlight
<1>13. AnsweredTokenIsCurrent'
  BY <1>1, <1>5 DEF IInv, AnsweredTokenIsCurrent
<1>14. NotFoundHasReason'
  BY <1>1, <1>4, <1>5 DEF IInv, NotFoundHasReason
<1>15. TokensPaired'
  <2>1. \A u \in Threads : pc[u] = "rotate" => u # t
    BY <1>1 DEF Answered
  <2>2. QED
    BY <1>1, <1>4, <1>5, <2>1 DEF IInv, TokensPaired, ServedOn, InFlight
<1>16. QED
  BY <1>6, <1>7, <1>8, <1>9, <1>10, <1>11, <1>12, <1>13, <1>14, <1>15 DEF IInv

\* Tokens are issued, and the access token is replaced.
LEMMA IssueTokensStep ==
    ASSUME IInv, NEW t \in Threads, NEW k \in Tokens, IssueTokens(t, k)
    PROVE  IInv'
<1> DEFINE s == pos[t]
<1>1. /\ pc[t] = "issue" /\ Issue(k, s, tok[t])
      /\ new' = [new EXCEPT ![t] = k] /\ access' = [access EXCEPT ![s] = k]
      /\ pc' = [pc EXCEPT ![t] = "rotate"]
      /\ UNCHANGED <<clock, created, active, expires, refresh, tok, size, pos,
                     told, spent, void, overlapped>>
  BY DEF IssueTokens, Goto
<1>2. /\ s \in 1 .. created /\ s \in Sessions /\ 1 .. created \subseteq Sessions
      /\ tok[t] \in told /\ s = owner[tok[t]] /\ ~void[t]
      /\ tok[t] \in Tokens /\ tok[t] \in Issued
  <2>1. tok[t] \in told /\ s = owner[tok[t]] /\ ~void[t]
    BY <1>1 DEF IInv, RequestsSound
  <2>2. s \in 1 .. created /\ tok[t] \in Tokens /\ tok[t] \in Issued
    BY <1>1, <2>1 DEF IInv, TypeOK, TokensOwned
  <2>3. 1 .. created \subseteq Sessions
    BY GatewayAssumption DEF IInv, TypeOK, Sessions
  <2>4. QED
    BY <2>1, <2>2, <2>3
<1>3. /\ k \notin Issued /\ Issued' = Issued \union {k} /\ Issued \subseteq Tokens
      /\ exp' \in [Tokens -> Nat]
      /\ owner' \in [Tokens -> 0 .. MaxSessions]
      /\ parent' \in [Tokens -> Tokens \union {None}]
      /\ owner'[k] = s /\ parent'[k] = tok[t]
      /\ \A j \in Issued : owner'[j] = owner[j] /\ parent'[j] = parent[j]
  BY <1>1, <1>2, IssueFacts DEF Issued
<1>4. /\ pc'[t] = "rotate" /\ new'[t] = k /\ access'[s] = k
      /\ \A u \in Threads : u # t => pc'[u] = pc[u] /\ new'[u] = new[u]
      /\ \A r \in Sessions : r # s => access'[r] = access[r]
  BY <1>1, <1>2 DEF IInv, TypeOK
<1>5. /\ \A j \in told : j \in Issued /\ owner'[j] = owner[j]
      /\ \A u \in Threads : pc[u] # "idle" => tok[u] \in told /\ owner'[tok[u]] = owner[tok[u]]
      /\ \A r \in 1 .. created : {access[r], refresh[r]} \subseteq Issued
  BY <1>3 DEF IInv, TokensOwned, RequestsSound, TypeOK, Issued
<1>6. TypeOK'
  <2>1. /\ access' \in [Sessions -> Tokens \union {None}] /\ new' \in [Threads -> Tokens \union {None}]
        /\ pc' \in [Threads -> Answered \union InFlight]
    BY <1>1 DEF IInv, TypeOK, InFlight
  <2>2. \A r \in 1 .. created : {access'[r], refresh'[r]} \subseteq Issued'
    BY <1>1, <1>2, <1>3, <1>4, <1>5
  <2>3. \A u \in Threads : pc'[u] \in {"check", "issue", "rotate"} => pos'[u] \in 1 .. created'
    BY <1>1, <1>2, <1>4 DEF IInv, TypeOK
  <2>4. QED
    BY <1>1, <1>3, <2>1, <2>2, <2>3 DEF IInv, TypeOK, Issued
<1>7. TokensOwned'
  BY <1>1, <1>2, <1>3, <1>4, <1>5 DEF IInv, TokensOwned
<1>8. ExchangesEnd'
  <2>1. \A u \in Threads : pc[u] = "rotate" => pc'[u] = "rotate"
    BY <1>1, <1>4
  <2>2. ASSUME NEW j \in Issued, parent[j] # None
        PROVE  /\ parent'[j] \in Issued' /\ owner'[parent'[j]] = owner'[j]
               /\ parent'[j] \in spent' \/ \E u \in Threads : pc'[u] = "rotate" /\ tok'[u] = parent'[j]
    BY <1>1, <1>3, <2>1, <2>2 DEF IInv, ExchangesEnd
  <2>3. /\ parent'[k] \in Issued' /\ owner'[parent'[k]] = owner'[k]
        /\ pc'[t] = "rotate" /\ tok'[t] = parent'[k]
    BY <1>1, <1>2, <1>3, <1>4, <1>5
  <2>4. QED
    BY <1>3, <2>2, <2>3 DEF ExchangesEnd
<1>9. TwinsNeedOverlap'
  <2>1. ASSUME NEW j \in Issued, parent[j] = tok[t]
        PROVE  s \in overlapped /\ owner[j] = s
    <3>1. owner[j] = s
      BY <1>2, <2>1, GatewayAssumption DEF IInv, ExchangesEnd
    <3>2. CASE tok[t] \in spent
      BY <1>1, <1>2, <3>1, <3>2 DEF IInv, AloneUndisturbed, InFlight
    <3>3. CASE \E u \in Threads : pc[u] = "rotate" /\ tok[u] = tok[t]
      BY <1>1, <1>2, <3>1, <3>3 DEF IInv, OverlapsRecorded, InFlight
    <3>4. QED
      BY <1>2, <2>1, <3>1, <3>2, <3>3, GatewayAssumption DEF IInv, ExchangesEnd
  <2>2. QED
    BY <1>1, <1>3, <2>1 DEF IInv, TwinsNeedOverlap
<1>10. RequestsSound'
  BY <1>1, <1>2, <1>4, <1>5 DEF IInv, RequestsSound, InFlight
<1>11. FreshApart'
  <2>1. \A u \in Threads : u # t /\ pc[u] \in {"rotate", "answer"} =>
          /\ new[u] \in Issued \ told /\ new[u] # k
          /\ owner'[new[u]] = owner'[tok[u]]
    BY <1>3, <1>5 DEF IInv, FreshApart
  <2>2. k \in Issued' \ told'
    BY <1>1, <1>3, <1>5
  <2>3. QED
    BY <1>1, <1>2, <1>3, <1>4, <1>5, <2>1, <2>2 DEF IInv, FreshApart
<1>12. OverlapsRecorded'
  BY <1>1, <1>4, <1>5 DEF IInv, OverlapsRecorded, InFlight
<1>13. AloneUndisturbed'
  <2>1. \A u \in Threads : u # t /\ pc[u] = "rotate" /\ owner[tok[u]] \notin overlapped =>
          pos[u] # s /\ pos[u] \in Sessions /\ pos[u] = owner[tok[u]]
    BY <1>1, <1>2 DEF IInv, OverlapsRecorded, RequestsSound, InFlight, TypeOK, Sessions
  <2>2. QED
    BY <1>1, <1>2, <1>4, <1>5, <2>1 DEF IInv, AloneUndisturbed, InFlight
<1>14. AnsweredTokenIsCurrent'
  BY <1>1, <1>5 DEF IInv, AnsweredTokenIsCurrent
<1>15. NotFoundHasReason'
  BY <1>1, <1>4, <1>5 DEF IInv, NotFoundHasReason
<1>16. TokensPaired'
  <2>1. \A r \in Sessions, u \in Threads : u \in ServedOn(r) => u \in ServedOn(r)'
    BY <1>1, <1>4, <1>5 DEF ServedOn, InFlight
  <2>2. \A u \in Threads : pc[u] = "rotate" => pc'[u] = "rotate"
    BY <1>1, <1>4
  <2>3. t \in ServedOn(s)'
    BY <1>1, <1>2, <1>4, <1>5 DEF ServedOn, InFlight
  <2>4. QED
    BY <1>1, <1>4, <2>1, <2>2, <2>3 DEF IInv, TokensPaired, ServedOn
<1>17. QED
  BY <1>6, <1>7, <1>8, <1>9, <1>10, <1>11, <1>12, <1>13, <1>14, <1>15, <1>16 DEF IInv

\* The refresh token is replaced, and the one presented is spent.
LEMMA RotateStep ==
    ASSUME IInv, NEW t \in Threads, Rotate(t)
    PROVE  IInv'
<1> DEFINE s == pos[t]
<1>1. /\ pc[t] = "rotate" /\ refresh' = [refresh EXCEPT ![s] = new[t]]
      /\ spent' = spent \union {tok[t]}
      /\ pc' = [pc EXCEPT ![t] = "answer"]
      /\ UNCHANGED <<clock, created, active, expires, access, exp, tok, size, pos, new,
                     owner, parent, told, void, overlapped>>
  BY DEF Rotate, Rotated, Goto, local
<1>2. /\ s \in 1 .. created /\ s \in Sessions /\ 1 .. created \subseteq Sessions
      /\ tok[t] \in told /\ s = owner[tok[t]] /\ ~void[t]
      /\ new[t] \in Issued \ told /\ owner[new[t]] = s
  <2>1. tok[t] \in told /\ s = owner[tok[t]] /\ ~void[t]
    BY <1>1 DEF IInv, RequestsSound
  <2>2. s \in 1 .. created /\ new[t] \in Issued \ told /\ owner[new[t]] = s
    BY <1>1, <2>1 DEF IInv, TypeOK, FreshApart
  <2>3. 1 .. created \subseteq Sessions
    BY GatewayAssumption DEF IInv, TypeOK, Sessions
  <2>4. QED
    BY <2>1, <2>2, <2>3
<1>3. /\ pc'[t] = "answer" /\ refresh'[s] = new[t]
      /\ \A u \in Threads : u # t => pc'[u] = pc[u]
      /\ \A r \in Sessions : r # s => refresh'[r] = refresh[r]
      /\ Unissued' = Unissued /\ Issued' = Issued
  BY <1>1, <1>2 DEF IInv, TypeOK, Unissued, Issued
<1>4. \A u \in Threads : u # t /\ pc[u] \in InFlight /\ owner[tok[u]] = s => s \in overlapped
  BY <1>1, <1>2 DEF IInv, OverlapsRecorded, InFlight
<1>5. TypeOK'
  <2>1. /\ refresh' \in [Sessions -> Tokens \union {None}] /\ spent' \subseteq Tokens
        /\ pc' \in [Threads -> Answered \union InFlight]
    BY <1>1, <1>2 DEF IInv, TypeOK, InFlight, Issued
  <2>2. \A r \in 1 .. created : {access'[r], refresh'[r]} \subseteq Tokens \ Unissued'
    BY <1>1, <1>2, <1>3 DEF IInv, TypeOK, Issued
  <2>3. \A u \in Threads : pc'[u] \in {"check", "issue", "rotate"} => pos'[u] \in 1 .. created'
    BY <1>1, <1>3 DEF IInv, TypeOK
  <2>4. QED
    BY <1>1, <2>1, <2>2, <2>3 DEF IInv, TypeOK
<1>6. TokensOwned'
  <2>1. spent' \subseteq told' /\ told' \subseteq Issued' /\ \A j \in Issued' : owner'[j] \in 1 .. created'
    BY <1>1, <1>2, <1>3 DEF IInv, TokensOwned
  <2>2. \A r \in Sessions \ (1 .. created') :
          ~active'[r] /\ access'[r] = None /\ refresh'[r] = None
    BY <1>1, <1>2, <1>3 DEF IInv, TokensOwned
  <2>3. ASSUME NEW r \in 1 .. created PROVE owner'[refresh'[r]] = r /\ refresh'[r] \notin spent'
    <3>1. CASE r = s
      BY <1>1, <1>2, <1>3, <2>1, <3>1
    <3>2. CASE r # s
      BY <1>1, <1>2, <1>3, <3>2 DEF IInv, TokensOwned
    <3>3. QED
      BY <3>1, <3>2
  <2>4. QED
    BY <1>1, <2>1, <2>2, <2>3 DEF TokensOwned, Sessions
<1>7. ExchangesEnd'
  BY <1>1, <1>3 DEF IInv, ExchangesEnd
<1>8. TwinsNeedOverlap'
  BY <1>1, <1>3 DEF IInv, TwinsNeedOverlap
<1>9. RequestsSound'
  BY <1>1, <1>2, <1>3 DEF IInv, RequestsSound, InFlight
<1>10. FreshApart'
  BY <1>1, <1>3 DEF IInv, FreshApart
<1>11. OverlapsRecorded'
  BY <1>1, <1>3 DEF IInv, OverlapsRecorded, InFlight
<1>12. AloneUndisturbed'
  <2>1. ASSUME NEW u \in Threads, u # t, pc[u] \in InFlight, owner[tok[u]] \notin overlapped
        PROVE  /\ tok[u] # tok[t] /\ owner[tok[u]] # s
               /\ pc[u] = "answer" => refresh'[pos[u]] = refresh[pos[u]]
    <3>1. owner[tok[u]] # s
      BY <1>4, <2>1
    <3>2. pc[u] = "answer" => pos[u] = owner[tok[u]] /\ pos[u] \in Sessions
      BY <1>2, <2>1 DEF IInv, RequestsSound, TokensOwned
    <3>3. QED
      BY <1>2, <1>3, <3>1, <3>2
  <2>2. QED
    BY <1>1, <1>2, <1>3, <2>1 DEF IInv, AloneUndisturbed, InFlight
<1>13. AnsweredTokenIsCurrent'
  <2>1. ASSUME NEW k \in told, k \notin spent, k # tok[t], owner[k] \notin overlapped
        PROVE  refresh'[owner[k]] = k
    <3>1. refresh[owner[k]] = k
      BY <2>1 DEF IInv, AnsweredTokenIsCurrent
    <3>2. owner[k] \in Sessions
      BY <1>2, <2>1 DEF IInv, TokensOwned
    <3>3. CASE owner[k] # s
      BY <1>3, <3>1, <3>2, <3>3
    <3>4. CASE owner[k] = s
      <4>1. tok[t] \notin spent
        BY <1>1, <1>2, <2>1, <3>4 DEF IInv, AloneUndisturbed, InFlight
      <4>2. refresh[s] = tok[t]
        BY <1>2, <2>1, <3>4, <4>1 DEF IInv, AnsweredTokenIsCurrent
      <4>3. QED
        BY <2>1, <3>1, <3>4, <4>2
    <3>5. QED
      BY <3>3, <3>4
  <2>2. QED
    BY <1>1, <2>1 DEF AnsweredTokenIsCurrent
<1>14. NotFoundHasReason'
  BY <1>1, <1>3 DEF IInv, NotFoundHasReason
<1>15. TokensPaired'
  <2>1. ASSUME NEW r \in Sessions \ overlapped
        PROVE  access'[r] = refresh'[r] \/ \E u \in ServedOn(r)' : pc'[u] = "rotate"
    <3>1. CASE r = s
      <4>1. access[s] = new[t]
        BY <1>1, <1>2, <2>1, <3>1 DEF IInv, AloneUndisturbed, InFlight
      <4>2. QED
        BY <1>1, <1>3, <3>1, <4>1
    <3>2. CASE r # s
      BY <1>1, <1>2, <1>3, <2>1, <3>2 DEF IInv, TokensPaired, ServedOn
    <3>3. QED
      BY <3>1, <3>2
  <2>2. QED
    BY <1>1, <2>1 DEF TokensPaired
<1>16. QED
  BY <1>5, <1>6, <1>7, <1>8, <1>9, <1>10, <1>11, <1>12, <1>13, <1>14, <1>15 DEF IInv

\* The client is told the new tokens.
LEMMA AnswerStep ==
    ASSUME IInv, NEW t \in Threads, Answer(t)
    PROVE  IInv'
<1>1. /\ pc[t] = "answer" /\ told' = told \union {new[t]} /\ Return(t, "ok")
      /\ UNCHANGED <<clock, created, active, expires, access, refresh, exp, tok,
                     owner, parent, spent, void, overlapped>>
  BY DEF Answer, session
<1>2. /\ pc' = [pc EXCEPT ![t] = "ok"]
      /\ size' \in [Threads -> 0 .. MaxSessions]
      /\ pos' \in [Threads -> 0 .. MaxSessions + 1]
      /\ new' \in [Threads -> Tokens \union {None}]
      /\ \A u \in Threads : u # t => pos'[u] = pos[u] /\ new'[u] = new[u]
  BY <1>1, ReturnFacts DEF Answered
<1>3. /\ pc'[t] = "ok" /\ \A u \in Threads : u # t => pc'[u] = pc[u]
      /\ Unissued' = Unissued /\ Issued' = Issued
  BY <1>1, <1>2 DEF IInv, TypeOK, Unissued, Issued
<1>4. /\ tok[t] \in told /\ pos[t] = owner[tok[t]] /\ ~void[t]
      /\ new[t] \in Issued \ told /\ owner[new[t]] = owner[tok[t]]
      /\ \A u \in Threads : u # t /\ pc[u] \in {"rotate", "answer"} => new[u] # new[t]
  BY <1>1 DEF IInv, RequestsSound, FreshApart
<1>5. TypeOK'
  <2>1. told' \subseteq Tokens /\ pc' \in [Threads -> Answered \union InFlight]
    BY <1>1, <1>2, <1>4 DEF IInv, TypeOK, Answered, Issued
  <2>2. \A u \in Threads : pc'[u] \in {"check", "issue", "rotate"} => pos'[u] \in 1 .. created'
    BY <1>1, <1>2, <1>3 DEF IInv, TypeOK
  <2>3. QED
    BY <1>1, <1>2, <1>3, <2>1, <2>2 DEF IInv, TypeOK
<1>6. TokensOwned' /\ TwinsNeedOverlap'
  BY <1>1, <1>3, <1>4 DEF IInv, TokensOwned, TwinsNeedOverlap
<1>7. ExchangesEnd'
  <2>1. \A u \in Threads : pc[u] = "rotate" => pc'[u] = "rotate"
    BY <1>1, <1>3
  <2>2. QED
    BY <1>1, <1>3, <2>1 DEF IInv, ExchangesEnd
<1>8. RequestsSound'
  BY <1>1, <1>2, <1>3, <1>4 DEF IInv, RequestsSound, InFlight
<1>9. FreshApart'
  BY <1>1, <1>2, <1>3, <1>4 DEF IInv, FreshApart
<1>10. OverlapsRecorded'
  BY <1>1, <1>3 DEF IInv, OverlapsRecorded, InFlight
<1>11. AloneUndisturbed'
  BY <1>1, <1>2, <1>3 DEF IInv, AloneUndisturbed, InFlight
<1>12. AnsweredTokenIsCurrent'
  <2>1. owner[new[t]] \notin overlapped => refresh[owner[new[t]]] = new[t]
    BY <1>1, <1>4 DEF IInv, AloneUndisturbed, InFlight
  <2>2. QED
    BY <1>1, <2>1 DEF IInv, AnsweredTokenIsCurrent
<1>13. NotFoundHasReason'
  BY <1>1, <1>3 DEF IInv, NotFoundHasReason
<1>14. TokensPaired'
  BY <1>1, <1>3 DEF IInv, TokensPaired, ServedOn, InFlight
<1>15. QED
  BY <1>5, <1>6, <1>7, <1>8, <1>9, <1>10, <1>11, <1>12, <1>13, <1>14 DEF IInv

-----------------------------------------------------------------------------
(* The theorems *)

LEMMA InductiveStep ==
    ASSUME IInv, [Next]_vars
    PROVE  IInv'
<1>1. CASE UNCHANGED vars
  <2>1. clock' \in Nat \ {0} /\ UNCHANGED <<session, exp, pc, local, history>>
    BY <1>1 DEF vars, IInv, TypeOK
  <2>2. QED
    BY <2>1, ClockStep
<1>2. CASE Tick
  <2>1. clock' \in Nat \ {0} /\ UNCHANGED <<session, exp, pc, local, history>>
    BY <1>2 DEF Tick, IInv, TypeOK
  <2>2. QED
    BY <2>1, ClockStep
<1>3. CASE \E k \in Tokens : Create(k)
  BY <1>3, CreateStep
<1>4. CASE \E s \in Sessions : Terminate(s)
  BY <1>4, TerminateStep
<1>5. CASE \E t \in Threads : Refresh(t)
  <2>1. PICK t \in Threads : Refresh(t)
    BY <1>5
  <2>2. CASE \E k \in Tokens : Start(t, k)
    BY <2>2, StartStep
  <2>3. CASE \E k \in Tokens : IssueTokens(t, k)
    BY <2>3, IssueTokensStep
  <2>4. CASE Validate(t)
    BY <2>4, ValidateStep
  <2>5. CASE ScanBegin(t)
    BY <2>5, ScanBeginStep
  <2>6. CASE Inspect(t)
    BY <2>6, InspectStep
  <2>7. CASE Check(t)
    BY <2>7, CheckStep
  <2>8. CASE Rotate(t)
    BY <2>8, RotateStep
  <2>9. CASE Answer(t)
    BY <2>9, AnswerStep
  <2>10. QED
    BY <2>1, <2>2, <2>3, <2>4, <2>5, <2>6, <2>7, <2>8, <2>9 DEF Refresh
<1>6. QED
  BY <1>1, <1>2, <1>3, <1>4, <1>5 DEF Next

LEMMA InitiallyHolds ==
    ASSUME Init
    PROVE  IInv
<1>1. Unissued = Tokens /\ Issued = {} /\ created = 0 /\ 1 .. created = {}
  BY DEF Init, Unissued, Issued
<1>2. \A t \in Threads : pc[t] = "idle" /\ void[t] = FALSE
  BY DEF Init
<1>3. TypeOK
  BY <1>1, <1>2, GatewayAssumption DEF Init, TypeOK, Answered
<1>4. TokensOwned /\ ExchangesEnd /\ TwinsNeedOverlap
  BY <1>1 DEF Init, TokensOwned, ExchangesEnd, TwinsNeedOverlap
<1>5. RequestsSound /\ FreshApart /\ OverlapsRecorded /\ AloneUndisturbed
  BY <1>2 DEF RequestsSound, FreshApart, OverlapsRecorded, AloneUndisturbed, InFlight
<1>6. AnsweredTokenIsCurrent /\ NotFoundHasReason /\ TokensPaired
  BY <1>2 DEF Init, AnsweredTokenIsCurrent, NotFoundHasReason, TokensPaired
<1>7. QED
  BY <1>3, <1>4, <1>5, <1>6 DEF IInv

\* The inductive invariant: who holds which token, and what a request that is
\* alone on its session may rely on between its steps.
THEOREM InductiveInvariant == Spec => []IInv
<1>1. Init => IInv
  BY InitiallyHolds
<1>2. IInv /\ [Next]_vars => IInv'
  BY InductiveStep
<1>3. QED
  BY <1>1, <1>2, PTL DEF Spec

\* The type invariant: a stored session has issued tokens, and a refresh past
\* the loop has a session.
THEOREM TypeCorrect == Spec => []TypeOK
<1>1. IInv => TypeOK
  BY DEF IInv
<1>2. QED
  BY <1>1, InductiveInvariant, PTL

\* terminate_session and the rotation of refresh tokens are final: whoever asks
\* for a refresh after them is refused.
THEOREM VoidIsRefused == Spec => []VoidRefreshRefused
<1>1. IInv => VoidRefreshRefused
  BY DEF IInv, RequestsSound, VoidRefreshRefused
<1>2. QED
  BY <1>1, InductiveInvariant, PTL

\* A refresh token buys two successors only in overlapping refreshes.
THEOREM SerialExchangesAreSingle == Spec => []DoubleExchangeNeedsOverlap
<1>1. IInv => DoubleExchangeNeedsOverlap
  BY DEF IInv, TokensOwned, TwinsNeedOverlap, DoubleExchangeNeedsOverlap
<1>2. QED
  BY <1>1, InductiveInvariant, PTL

\* Without overlapping refreshes the session knows the token its client knows.
THEOREM AnsweredIsCurrent == Spec => []AnsweredTokenIsCurrent
<1>1. IInv => AnsweredTokenIsCurrent
  BY DEF IInv
<1>2. QED
  BY <1>1, InductiveInvariant, PTL

\* The loop over the store finds every session that is there to be found.
THEOREM NotFoundIsTrue == Spec => []NotFoundHasReason
<1>1. IInv => NotFoundHasReason
  BY DEF IInv
<1>2. QED
  BY <1>1, InductiveInvariant, PTL

\* The two assignments of update_tokens leave a session with the tokens of one
\* exchange, unless refreshes of it overlap.
THEOREM TokensStayPaired == Spec => []TokensPaired
<1>1. IInv => TokensPaired
  BY DEF IInv
<1>2. QED
  BY <1>1, InductiveInvariant, PTL

=============================================================================
