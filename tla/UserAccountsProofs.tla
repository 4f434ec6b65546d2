-------------------------- MODULE UserAccountsProofs --------------------------
(***************************************************************************)
(* Proofs about UserAccounts for any number of threads, names, accounts    *)
(* and password changes.                                                   *)
(*                                                                         *)
(* The inductive invariant is taken apart into the types, what holds of    *)
(* the store, and what holds of each thread by itself.  A step that only   *)
(* reads the store need show the last of its own thread (QuietStep); the   *)
(* five steps that write it have a lemma each.                             *)
(***************************************************************************)
EXTENDS UserAccounts, TLAPS

USE DEF Answered, RegisterSteps, LoginSteps, UpdateSteps, DeleteSteps, InFlight, HoldsUser

\* The type of what a thread keeps to itself ...
LocalsTyped ==
    /\ pc \in [Threads -> Answered \union InFlight]
    /\ pass \in [Threads -> Passwords \union {None}]
    /\ flag \in [Threads -> {"on", "off", "keep"}]
    /\ user \in [Threads -> 0 .. MaxAccounts]
    /\ check \in [Threads -> 0 .. MaxAccounts]
    /\ fresh \in [Threads -> Hashes \union {None}]

\* ... of the accounts ...
AccountsTyped ==
    /\ created \in 0 .. MaxAccounts
    /\ stored \in [Names -> 0 .. MaxAccounts]
    /\ username \in [Accounts -> Names]
    /\ active \in [Accounts -> BOOLEAN]
    /\ hash \in [Accounts -> Hashes \union {None}]
    /\ salt \in [Accounts -> Hashes \union {None}]
    /\ word \in [Hashes -> Passwords \union {None}]

\* ... and of the names of the calls and the history.
HistoryTyped ==
    /\ name \in [Threads -> Names]
    /\ overlapped \in [{"register", "update", "delete"} -> SUBSET Names]
    /\ removed \subseteq Accounts
    /\ shut \subseteq Names
    /\ moved \in [Threads -> BOOLEAN]

\* What the invariant says of the store ...
StoreOK ==
    /\ StoreWellFormed
    /\ LostOnlyByOverlap
    /\ DeactivationStands

\* ... and of one thread.
ThreadOK(t) ==
    /\ pc[t] \in HoldsUser => user[t] \in 1 .. created /\ username[user[t]] = name[t]
    /\ pc[t] \in {"salt", "compare"} => check[t] \in 1 .. created /\ username[check[t]] = name[t]
    /\ pc[t] = "setsalt" =>
         fresh[t] # None /\ (hash[user[t]] = fresh[t] \/ name[t] \in overlapped["update"])
    /\ pc[t] = "store" => stored[name[t]] = 0 \/ name[t] \in overlapped["register"]
    /\ pc[t] = "del" => stored[name[t]] # 0 \/ name[t] \in overlapped["delete"]
    /\ pc[t] = "failed" => name[t] \in overlapped["delete"]
    /\ Knows(t)

\* A step of t leaves the other threads where they are.
OthersStay(t) ==
    \A o \in Threads : o # t =>
        /\ pc'[o] = pc[o] /\ pass'[o] = pass[o]
        /\ user'[o] = user[o] /\ check'[o] = check[o] /\ fresh'[o] = fresh[o]

\* The parts make up the invariant, before a step ...
LEMMA Parts ==
    IInv <=> /\ LocalsTyped /\ AccountsTyped /\ HistoryTyped
             /\ StoreOK /\ CredentialsPaired /\ OverlapsRecorded
             /\ \A t \in Threads : ThreadOK(t)
  BY DEF IInv, TypeOK, LocalsTyped, AccountsTyped, HistoryTyped, StoreOK, ThreadOK,
         AccountInHand, InHandIsNamed, TestsHold, FreshIsHash, LoginKnows, FailedNeedsOverlap

\* ... and after it.
LEMMA PartsAfter ==
    ASSUME LocalsTyped', AccountsTyped', HistoryTyped',
           StoreOK', CredentialsPaired', OverlapsRecorded',
           \A t \in Threads : ThreadOK(t)'
    PROVE  IInv'
  BY DEF IInv, TypeOK, LocalsTyped, AccountsTyped, HistoryTyped, StoreOK, ThreadOK,
         AccountInHand, InHandIsNamed, TestsHold, FreshIsHash, LoginKnows, FailedNeedsOverlap

\* An answer ends the call of one thread, whatever that call was.
LEMMA ReturnEffect ==
    ASSUME LocalsTyped, NEW t \in Threads, NEW to \in Answered, Return(t, to)
    PROVE  LocalsTyped' /\ OthersStay(t) /\ pc'[t] = to
<1>1. pc' \in [Threads -> Answered \union InFlight] /\ pc'[t] = to
  BY DEF LocalsTyped, Return, Goto
<1>2. pass' \in [Threads -> Passwords \union {None}] /\ flag' \in [Threads -> {"on", "off", "keep"}]
  BY DEF LocalsTyped, Return
<1>3. user' \in [Threads -> 0 .. MaxAccounts] /\ check' \in [Threads -> 0 .. MaxAccounts]
  BY AccountsAssumption DEF LocalsTyped, Return
<1>4. fresh' \in [Threads -> Hashes \union {None}]
  BY DEF LocalsTyped, Return
<1>5. OthersStay(t)
  BY DEF LocalsTyped, Return, Goto, OthersStay
<1>6. QED
  BY <1>1, <1>2, <1>3, <1>4, <1>5 DEF LocalsTyped

-----------------------------------------------------------------------------
(* Steps that only read the store *)

\* A thread that joins the calls of one operation on a name is on record if
\* others are there, and a step within a call joins nothing.
Joins(t, op, steps) ==
    pc'[t] \in steps =>
        \/ pc[t] \in steps /\ name'[t] = name[t]
        \/ Busy(steps, name'[t]) => name'[t] \in overlapped'[op]

\* A step that leaves the accounts as they are keeps the invariant if it keeps
\* what the invariant says of the thread that takes it.
LEMMA QuietStep ==
    ASSUME IInv, NEW t \in Threads, LocalsTyped', HistoryTyped', OthersStay(t),
           UNCHANGED <<account, removed, shut>>,
           \A o \in Threads : o # t => name'[o] = name[o] /\ moved'[o] = moved[o],
           \A op \in {"register", "update", "delete"} : overlapped[op] \subseteq overlapped'[op],
           Joins(t, "register", RegisterSteps),
           Joins(t, "update", UpdateSteps),
           Joins(t, "delete", DeleteSteps),
           pc[t] # "setsalt",
           ThreadOK(t)'
    PROVE  IInv'
<1>0. /\ AccountsTyped /\ HistoryTyped /\ StoreOK /\ CredentialsPaired /\ OverlapsRecorded
      /\ \A o \in Threads : ThreadOK(o)
  BY Parts
<1>1. AccountsTyped' /\ StoreOK'
  BY <1>0 DEF account, AccountsTyped, StoreOK, StoreWellFormed, LostOnlyByOverlap, DeactivationStands
<1>2. CredentialsPaired'
  BY <1>0 DEF account, CredentialsPaired, OthersStay
<1>3. OverlapsRecorded'
  BY <1>0 DEF OverlapsRecorded, Recorded, Joins, Busy, OthersStay
<1>4. ASSUME NEW o \in Threads, o # t
      PROVE  ThreadOK(o)'
  BY <1>0, <1>4 DEF account, ThreadOK, Knows, OthersStay
<1>5. QED
  BY <1>1, <1>2, <1>3, <1>4, PartsAfter

\* A quiet step within a call, or one that answers it.
LEMMA QuietServe ==
    ASSUME IInv, NEW t \in Threads, LocalsTyped', OthersStay(t),
           UNCHANGED <<account, name, overlapped, removed, shut>>,
           moved' = moved \/ moved' = [moved EXCEPT ![t] = FALSE],
           \A steps \in {RegisterSteps, UpdateSteps, DeleteSteps} :
               pc'[t] \in steps => pc[t] \in steps,
           pc[t] # "setsalt",
           ThreadOK(t)'
    PROVE  IInv'
<1>1. HistoryTyped
  BY Parts
<1>2. HistoryTyped'
  BY <1>1 DEF HistoryTyped
<1>3. \A o \in Threads : o # t => name'[o] = name[o] /\ moved'[o] = moved[o]
  BY <1>1 DEF HistoryTyped
<1>4. /\ Joins(t, "register", RegisterSteps)
      /\ Joins(t, "update", UpdateSteps)
      /\ Joins(t, "delete", DeleteSteps)
  BY DEF Joins
<1>5. QED
  BY <1>2, <1>3, <1>4, QuietStep

\* The beginning of a call.
LEMMA BeginStep == ASSUME IInv, NEW t \in Threads, Begin(t) PROVE IInv'
<1>0. LocalsTyped /\ HistoryTyped
  BY Parts
<1>1. PICK n \in Names, w \in Passwords \union {None}, f \in {"on", "off", "keep"},
           first \in {"exists", "lookup", "get", "present"} :
        /\ Call(t, n, w, f, first)
        /\ first = "lookup" => w # None
        /\ \/ first = "exists" /\ Record("register", RegisterSteps, n)
           \/ first = "lookup" /\ UNCHANGED overlapped
           \/ first = "get" /\ Record("update", UpdateSteps, n)
           \/ first = "present" /\ Record("delete", DeleteSteps, n)
  BY AccountsAssumption DEF Begin, Register, Authenticate, Update, Delete
<1>2. LocalsTyped' /\ OthersStay(t) /\ pc'[t] = first /\ pc[t] \in Answered /\ pass'[t] = w
  BY <1>0, <1>1 DEF Call, Goto, LocalsTyped, OthersStay
<1>3. name' \in [Threads -> Names] /\ name'[t] = n /\ \A o \in Threads : o # t => name'[o] = name[o]
  BY <1>0, <1>1 DEF Call, HistoryTyped
<1>4. UNCHANGED <<account, removed, shut, moved>>
  BY <1>1 DEF Call
<1>5. /\ overlapped' \in [{"register", "update", "delete"} -> SUBSET Names]
      /\ \A op \in {"register", "update", "delete"} : overlapped[op] \subseteq overlapped'[op]
  BY <1>0, <1>1 DEF Record, HistoryTyped
<1>6. /\ Joins(t, "register", RegisterSteps)
      /\ Joins(t, "update", UpdateSteps)
      /\ Joins(t, "delete", DeleteSteps)
  BY <1>0, <1>1, <1>2, <1>3 DEF Record, Joins, HistoryTyped
<1>7. HistoryTyped'
  BY <1>0, <1>3, <1>4, <1>5 DEF HistoryTyped
<1>8. ThreadOK(t)'
  BY <1>1, <1>2 DEF ThreadOK, Knows
<1>9. QED
  BY <1>2, <1>3, <1>4, <1>5, <1>6, <1>7, <1>8, QuietStep

\* A test that fails, or the end of a login, answers the call.
LEMMA AnswerStep ==
    ASSUME IInv, NEW t \in Threads,
           \/ Exists(t) /\ Taken(name[t])
           \/ (Lookup(t) \/ Relookup(t) \/ Get(t) \/ Find(t)) /\ ~Present(name[t])
           \/ Compare(t) /\ ~Matches(t)
           \/ Enabled(t)
           \/ Del(t) /\ stored[name[t]] = 0
    PROVE  IInv'
<1>0. LocalsTyped /\ ThreadOK(t)
  BY Parts
<1>1. PICK to \in {"ok", "refused", "notfound", "failed"} :
        Return(t, to) /\ (to = "failed" => pc[t] = "del" /\ stored[name[t]] = 0)
  BY DEF Exists, Lookup, Relookup, Get, Find, Compare, Enabled, Del, AnswerLogin
<1>2. LocalsTyped' /\ OthersStay(t) /\ pc'[t] = to
  BY <1>0, <1>1, ReturnEffect
<1>3. UNCHANGED <<account, name, overlapped, removed, shut>>
  BY DEF Exists, Lookup, Relookup, Get, Find, Compare, Enabled, Del, account, history
<1>4. moved' = moved \/ moved' = [moved EXCEPT ![t] = FALSE]
  BY DEF Exists, Lookup, Relookup, Get, Find, Compare, Enabled, Del, AnswerLogin, history
<1>5. pc[t] # "setsalt"
  BY DEF Exists, Lookup, Relookup, Get, Find, Compare, Enabled, Del
<1>6. ThreadOK(t)'
  BY <1>0, <1>1, <1>2, <1>3 DEF ThreadOK, Knows
<1>7. QED
  BY <1>2, <1>3, <1>4, <1>5, <1>6, QuietServe

\* A test that succeeds, and what a login reads, take the call one step on.
LEMMA ReadStep ==
    ASSUME IInv, NEW t \in Threads,
           \/ Exists(t) /\ ~Taken(name[t])
           \/ (Lookup(t) \/ Relookup(t) \/ Get(t) \/ Find(t)) /\ Present(name[t])
           \/ ReadSalt(t)
           \/ Compare(t) /\ Matches(t)
    PROVE  IInv'
<1>0. LocalsTyped /\ AccountsTyped /\ HistoryTyped /\ StoreWellFormed /\ ThreadOK(t)
  BY Parts DEF StoreOK
<1> USE DEF Goto, LoginGoto, local, account, history
<1>1. UNCHANGED <<account, name, overlapped, removed, shut, moved, pass, flag>>
  BY DEF Exists, Lookup, Relookup, Get, Find, ReadSalt, Compare
<1>2. CASE Exists(t) /\ ~Taken(name[t])
  <2>1. LocalsTyped' /\ OthersStay(t) /\ pc[t] = "exists" /\ pc'[t] = "store"
    BY <1>0, <1>2 DEF Exists, LocalsTyped, OthersStay
  <2>2. ThreadOK(t)'
    BY <1>0, <1>1, <1>2, <2>1 DEF Exists, Taken, ThreadOK, Knows
  <2>3. QED
    BY <1>1, <2>1, <2>2, QuietServe
<1>3. CASE Lookup(t) /\ Present(name[t])
  <2>1. user' \in [Threads -> 0 .. MaxAccounts] /\ user'[t] = stored[name[t]]
    BY <1>0, <1>3 DEF Lookup, LocalsTyped, AccountsTyped, HistoryTyped
  <2>2. LocalsTyped' /\ OthersStay(t) /\ pc[t] = "lookup" /\ pc'[t] = "relookup"
    BY <1>0, <1>3, <2>1 DEF Lookup, LocalsTyped, OthersStay
  <2>3. ThreadOK(t)'
    BY <1>0, <1>1, <1>3, <2>1, <2>2
       DEF Present, ThreadOK, Knows, StoreWellFormed, AccountsTyped, HistoryTyped
  <2>4. QED
    BY <1>1, <2>2, <2>3, QuietServe
<1>4. CASE Relookup(t) /\ Present(name[t])
  <2>1. check' \in [Threads -> 0 .. MaxAccounts] /\ check'[t] = stored[name[t]] /\ user' = user
    BY <1>0, <1>4 DEF Relookup, LocalsTyped, AccountsTyped, HistoryTyped
  <2>2. LocalsTyped' /\ OthersStay(t) /\ pc[t] = "relookup" /\ pc'[t] = "salt"
    BY <1>0, <1>4, <2>1 DEF Relookup, LocalsTyped, OthersStay
  <2>3. ThreadOK(t)'
    BY <1>0, <1>1, <1>4, <2>1, <2>2
       DEF Present, ThreadOK, Knows, StoreWellFormed, AccountsTyped, HistoryTyped
  <2>4. QED
    BY <1>1, <2>2, <2>3, QuietServe
<1>5. CASE ReadSalt(t)
  <2>1. check[t] \in Accounts
    BY <1>0, <1>5, AccountsAssumption DEF ReadSalt, ThreadOK, AccountsTyped, Accounts
  <2>2. /\ fresh' \in [Threads -> Hashes \union {None}] /\ fresh'[t] = salt[check[t]]
        /\ user' = user /\ check' = check
    BY <1>0, <1>5, <2>1 DEF ReadSalt, LocalsTyped, AccountsTyped
  <2>3. LocalsTyped' /\ OthersStay(t) /\ pc[t] = "salt" /\ pc'[t] = "compare"
    BY <1>0, <1>1, <1>5, <2>2 DEF ReadSalt, LocalsTyped, OthersStay
  <2>4. ThreadOK(t)'
    BY <1>0, <1>1, <2>2, <2>3 DEF ThreadOK, Knows
  <2>5. QED
    BY <1>1, <2>3, <2>4, QuietServe
<1>6. CASE Compare(t) /\ Matches(t)
  <2>1. /\ LocalsTyped' /\ OthersStay(t) /\ pc[t] = "compare" /\ pc'[t] = "enabled"
        /\ UNCHANGED <<user, check, fresh>>
    BY <1>0, <1>6 DEF Compare, LocalsTyped, OthersStay
  <2>2. ThreadOK(t)'
    BY <1>0, <1>1, <1>6, <2>1 DEF Compare, Matches, ThreadOK, Knows
  <2>3. QED
    BY <1>1, <2>1, <2>2, QuietServe
<1>7. CASE Get(t) /\ Present(name[t])
  <2>1. user' \in [Threads -> 0 .. MaxAccounts] /\ user'[t] = stored[name[t]]
    BY <1>0, <1>7 DEF Get, LocalsTyped, AccountsTyped, HistoryTyped
  <2>2. LocalsTyped' /\ OthersStay(t) /\ pc[t] = "get" /\ pc'[t] = "flag"
    BY <1>0, <1>7, <2>1 DEF Get, LocalsTyped, OthersStay
  <2>3. ThreadOK(t)'
    BY <1>0, <1>1, <1>7, <2>1, <2>2
       DEF Present, ThreadOK, Knows, StoreWellFormed, AccountsTyped, HistoryTyped
  <2>4. QED
    BY <1>1, <2>2, <2>3, QuietServe
<1>8. CASE Find(t) /\ Present(name[t])
  <2>1. LocalsTyped' /\ OthersStay(t) /\ pc[t] = "present" /\ pc'[t] = "del"
    BY <1>0, <1>8 DEF Find, LocalsTyped, OthersStay
  <2>2. ThreadOK(t)'
    BY <1>0, <1>1, <1>8, <2>1 DEF Find, Present, ThreadOK, Knows
  <2>3. QED
    BY <1>1, <2>1, <2>2, QuietServe
<1>9. QED
  BY <1>2, <1>3, <1>4, <1>5, <1>6, <1>7, <1>8

-----------------------------------------------------------------------------
(* Steps that write the store *)

\* What the other threads' logins know survives a step that touches only accounts
\* of the name it was given and says so to the logins of that name.
LEMMA OthersKnow ==
    ASSUME IInv, NEW t \in Threads, OthersStay(t), name' = name,
           \A n \in Names : n # name[t] => stored'[n] = stored[n],
           \A a \in 1 .. created :
               username[a] # name[t] => hash'[a] = hash[a] /\ salt'[a] = salt[a],
           \A h \in Hashes : word[h] # None => word'[h] = word[h],
           \A o \in Threads : ~moved'[o] => ~moved[o],
           \A o \in Threads : pc[o] \in LoginSteps /\ name[o] = name[t] => moved'[o],
           NEW o \in Threads, o # t
    PROVE  Knows(o)'
<1>0. /\ AccountsTyped /\ HistoryTyped /\ StoreWellFormed /\ ThreadOK(o)
  BY Parts DEF StoreOK
<1>1. /\ Knows(o) /\ name'[o] = name[o] /\ pc'[o] = pc[o] /\ pass'[o] = pass[o]
      /\ user'[o] = user[o] /\ check'[o] = check[o] /\ fresh'[o] = fresh[o]
  BY <1>0 DEF ThreadOK, OthersStay
<1>2. CASE name[o] = name[t]
  BY <1>1, <1>2 DEF Knows
<1>3. CASE name[o] # name[t]
  <2>1. stored'[name[o]] = stored[name[o]]
    BY <1>0, <1>3 DEF HistoryTyped
  <2>2. ASSUME pc[o] \in HoldsUser
        PROVE  /\ hash'[user[o]] = hash[user[o]] /\ salt'[user[o]] = salt[user[o]]
               /\ hash[user[o]] \in Hashes
    <3>1. user[o] \in 1 .. created /\ user[o] \in Accounts /\ username[user[o]] = name[o]
      BY <1>0, <2>2, AccountsAssumption DEF ThreadOK, AccountsTyped, Accounts
    <3>2. hash[user[o]] \in Hashes
      BY <1>0, <3>1 DEF StoreWellFormed, AccountsTyped
    <3>3. QED
      BY <1>3, <3>1, <3>2
  <2>3. ASSUME pc[o] \in {"salt", "compare"}
        PROVE  salt'[check[o]] = salt[check[o]]
    BY <1>0, <1>3, <2>3 DEF ThreadOK
  <2>4. QED
    BY <1>1, <2>1, <2>2, <2>3 DEF Knows
<1>4. QED
  BY <1>2, <1>3

\* addUser puts a new account in the store.
LEMMA StoreStep == ASSUME IInv, NEW t \in Threads, NEW h \in Hashes, Store(t, h) PROVE IInv'
<1>0. /\ LocalsTyped /\ AccountsTyped /\ HistoryTyped
      /\ StoreOK /\ CredentialsPaired /\ OverlapsRecorded /\ \A o \in Threads : ThreadOK(o)
  BY Parts
<1> DEFINE n == name[t]  a == created + 1
<1>1. /\ pc[t] = "store" /\ n \in Names /\ a \in Accounts /\ created \in Nat
      /\ \A b \in 1 .. created : b \in Accounts /\ b # a
  BY <1>0, AccountsAssumption DEF Store, HistoryTyped, AccountsTyped, Accounts
<1>2. LocalsTyped' /\ OthersStay(t) /\ pc'[t] = "ok"
  BY <1>0, ReturnEffect DEF Store
<1>3. UNCHANGED <<name, overlapped, removed, shut>>
  BY DEF Store
<1>4. /\ created' = a
      /\ stored'[n] = a /\ \A m \in Names : m # n => stored'[m] = stored[m]
      /\ username'[a] = n /\ \A b \in 1 .. created : username'[b] = username[b]
  BY <1>0, <1>1 DEF Store, AccountsTyped
<1>5. \A b \in 1 .. created : active'[b] = active[b]
  <2>1. \A b \in Accounts : b # a => active'[b] = active[b]
    BY <1>0, Zenon DEF Store, AccountsTyped
  <2>2. QED
    BY <1>1, <2>1
<1>6. /\ hash'[a] = h /\ salt'[a] = h /\ h # None
      /\ \A b \in 1 .. created : hash'[b] = hash[b] /\ salt'[b] = salt[b]
  BY <1>0, <1>1, AccountsAssumption DEF Store, AccountsTyped
<1>7. \A g \in Hashes : word[g] # None => word'[g] = word[g]
  BY <1>0 DEF Store, Hash, Unmade, AccountsTyped
<1>8. /\ \A o \in Threads : ~moved'[o] => ~moved[o]
      /\ \A o \in Threads : pc[o] \in LoginSteps /\ name[o] = n => moved'[o]
  BY <1>0 DEF Store, Disturb, HistoryTyped
<1>9. AccountsTyped'
  <2>1. stored' \in [Names -> 0 .. MaxAccounts] /\ created' \in 0 .. MaxAccounts
    BY <1>0, <1>1, AccountsAssumption DEF Store, AccountsTyped, Accounts
  <2>2. username' \in [Accounts -> Names] /\ active' \in [Accounts -> BOOLEAN]
    BY <1>0, <1>1 DEF Store, AccountsTyped
  <2>3. hash' \in [Accounts -> Hashes \union {None}] /\ salt' \in [Accounts -> Hashes \union {None}]
    BY <1>0, <1>1 DEF Store, AccountsTyped
  <2>4. word' \in [Hashes -> Passwords \union {None}]
    BY <1>0 DEF Store, Hash, LocalsTyped, AccountsTyped
  <2>5. QED
    BY <2>1, <2>2, <2>3, <2>4 DEF AccountsTyped
<1>10. HistoryTyped'
  BY <1>0 DEF Store, Disturb, HistoryTyped
<1>11. stored[n] = 0 \/ n \in overlapped["register"]
  BY <1>0, <1>1 DEF ThreadOK
<1>12. StoreWellFormed'
  BY <1>0, <1>1, <1>4, <1>6 DEF StoreOK, StoreWellFormed, AccountsTyped
<1>13. LostOnlyByOverlap'
  BY <1>0, <1>1, <1>3, <1>4, <1>11 DEF StoreOK, LostOnlyByOverlap, AccountsTyped
<1>14. DeactivationStands'
  BY <1>0, <1>1, <1>3, <1>4, <1>5, <1>11
     DEF StoreOK, StoreWellFormed, DeactivationStands, AccountsTyped, HistoryTyped
<1>15. CredentialsPaired'
  BY <1>0, <1>1, <1>2, <1>3, <1>4, <1>6 DEF CredentialsPaired, OthersStay, ThreadOK
<1>16. OverlapsRecorded'
  BY <1>0, <1>2, <1>3 DEF OverlapsRecorded, Recorded, OthersStay
<1>17. ThreadOK(t)'
  BY <1>2 DEF ThreadOK, Knows
<1>18. ASSUME NEW o \in Threads, o # t
       PROVE  ThreadOK(o)'
  <2>1. Knows(o)'
    BY <1>1, <1>2, <1>3, <1>4, <1>6, <1>7, <1>8, <1>18, OthersKnow
  <2>2. pc'[o] = "store" => stored'[name'[o]] = 0 \/ name'[o] \in overlapped'["register"]
    BY <1>0, <1>1, <1>2, <1>3, <1>4, <1>18
       DEF ThreadOK, OthersStay, OverlapsRecorded, Recorded, HistoryTyped
  <2>3. pc'[o] = "del" => stored'[name'[o]] # 0 \/ name'[o] \in overlapped'["delete"]
    BY <1>0, <1>1, <1>2, <1>3, <1>4, <1>18 DEF ThreadOK, OthersStay, HistoryTyped
  <2>4. QED
    BY <1>0, <1>1, <1>2, <1>3, <1>4, <1>6, <1>18, <2>1, <2>2, <2>3 DEF ThreadOK, OthersStay
<1>19. QED
  BY <1>2, <1>9, <1>10, <1>12, <1>13, <1>14, <1>15, <1>16, <1>17, <1>18, PartsAfter DEF StoreOK

\* update_user writes is_active.
LEMMA SetFlagStep == ASSUME IInv, NEW t \in Threads, SetFlag(t) PROVE IInv'
<1>0. /\ LocalsTyped /\ AccountsTyped /\ HistoryTyped
      /\ StoreOK /\ CredentialsPaired /\ OverlapsRecorded /\ \A o \in Threads : ThreadOK(o)
  BY Parts
<1> DEFINE n == name[t]  a == user[t]
<1>1. /\ pc[t] = "flag" /\ n \in Names /\ username[a] = n
      /\ a \in 1 .. created /\ a \in Accounts /\ created \in Nat
  BY <1>0, AccountsAssumption DEF SetFlag, ThreadOK, HistoryTyped, AccountsTyped, Accounts
<1>2. /\ LocalsTyped' /\ OthersStay(t)
      /\ \/ pc'[t] = "ok"
         \/ pc'[t] = "sethash" /\ user'[t] = a
  <2>1. CASE pass[t] = None
    BY <1>0, <2>1, ReturnEffect DEF SetFlag
  <2>2. CASE pass[t] # None
    BY <1>0, <2>2 DEF SetFlag, Goto, local, LocalsTyped, OthersStay
  <2>3. QED
    BY <2>1, <2>2
<1>3. UNCHANGED <<created, stored, username, hash, salt, word, name, overlapped, removed, moved>>
  BY DEF SetFlag
<1>4. /\ active' \in [Accounts -> BOOLEAN]
      /\ \A b \in Accounts : b # a => active'[b] = active[b]
      /\ flag[t] = "keep" => active' = active
      /\ flag[t] = "off" => ~active'[a]
  BY <1>0, <1>1 DEF SetFlag, AccountsTyped
<1>5. shut' = IF stored[n] # a \/ flag[t] = "keep" THEN shut
              ELSE IF flag[t] = "off" THEN shut \union {n} ELSE shut \ {n}
  BY Zenon DEF SetFlag
<1>6. AccountsTyped' /\ HistoryTyped'
  BY <1>0, <1>1, <1>3, <1>4, <1>5 DEF AccountsTyped, HistoryTyped
<1>7. StoreWellFormed' /\ LostOnlyByOverlap'
  BY <1>0, <1>3 DEF StoreOK, StoreWellFormed, LostOnlyByOverlap
<1>8. DeactivationStands'
  <2> SUFFICES ASSUME NEW m \in shut'
               PROVE  (stored[m] # 0 /\ ~active'[stored[m]]) \/ m \in overlapped["register"]
    BY <1>3 DEF DeactivationStands
  <2>1. CASE m \in shut /\ (m # n \/ stored[n] # a \/ flag[t] = "keep")
    <3>1. m \in Names /\ (stored[m] # 0 => stored[m] \in Accounts /\ username[stored[m]] = m)
      BY <1>0, <2>1 DEF StoreOK, StoreWellFormed, AccountsTyped, HistoryTyped, Accounts
    <3>2. (stored[m] # 0 /\ ~active[stored[m]]) \/ m \in overlapped["register"]
      BY <1>0, <2>1 DEF StoreOK, DeactivationStands
    <3>3. QED
      BY <1>1, <1>4, <2>1, <3>1, <3>2
  <2>2. CASE m = n /\ stored[n] = a /\ flag[t] = "off"
    BY <1>1, <1>4, <2>2
  <2>3. QED
    BY <1>5, <2>1, <2>2
<1>9. CredentialsPaired'
  BY <1>0, <1>1, <1>2, <1>3 DEF CredentialsPaired, OthersStay
<1>10. OverlapsRecorded'
  BY <1>0, <1>1, <1>2, <1>3 DEF OverlapsRecorded, Recorded, OthersStay
<1>11. ThreadOK(t)'
  BY <1>1, <1>2, <1>3 DEF ThreadOK, Knows
<1>12. ASSUME NEW o \in Threads, o # t
       PROVE  ThreadOK(o)'
  BY <1>0, <1>2, <1>3, <1>12 DEF ThreadOK, Knows, OthersStay
<1>13. QED
  BY <1>2, <1>6, <1>7, <1>8, <1>9, <1>10, <1>11, <1>12, PartsAfter DEF StoreOK

\* update_user writes the hash of the new password ...
LEMMA SetHashStep ==
    ASSUME IInv, NEW t \in Threads, NEW h \in Hashes, SetHash(t, h) PROVE IInv'
<1>0. /\ LocalsTyped /\ AccountsTyped /\ HistoryTyped
      /\ StoreOK /\ CredentialsPaired /\ OverlapsRecorded /\ \A o \in Threads : ThreadOK(o)
  BY Parts
<1> DEFINE n == name[t]  a == user[t]
<1>1. /\ pc[t] = "sethash" /\ n \in Names /\ username[a] = n
      /\ a \in 1 .. created /\ a \in Accounts /\ created \in Nat
      /\ \A b \in 1 .. created : b \in Accounts
  BY <1>0, AccountsAssumption DEF SetHash, ThreadOK, HistoryTyped, AccountsTyped, Accounts
<1>2. /\ LocalsTyped' /\ OthersStay(t) /\ pc'[t] = "setsalt"
      /\ user'[t] = a /\ fresh'[t] = h /\ h # None
  BY <1>0, AccountsAssumption DEF SetHash, Goto, LocalsTyped, OthersStay
<1>3. UNCHANGED <<created, stored, username, active, salt, name, overlapped, removed, shut>>
  BY DEF SetHash
<1>4. /\ hash' \in [Accounts -> Hashes \union {None}]
      /\ hash'[a] = h /\ \A b \in Accounts : b # a => hash'[b] = hash[b]
  BY <1>0, <1>1 DEF SetHash, AccountsTyped
<1>5. /\ word' \in [Hashes -> Passwords \union {None}]
      /\ \A g \in Hashes : word[g] # None => word'[g] = word[g]
  BY <1>0 DEF SetHash, Hash, Unmade, LocalsTyped, AccountsTyped
<1>6. /\ moved' \in [Threads -> BOOLEAN]
      /\ \A o \in Threads : ~moved'[o] => ~moved[o]
      /\ \A o \in Threads : pc[o] \in LoginSteps /\ name[o] = n => moved'[o]
  BY <1>0 DEF SetHash, Disturb, HistoryTyped
<1>7. AccountsTyped' /\ HistoryTyped'
  BY <1>0, <1>3, <1>4, <1>5, <1>6 DEF AccountsTyped, HistoryTyped
<1>8. StoreOK'
  BY <1>0, <1>1, <1>2, <1>3, <1>4
     DEF StoreOK, StoreWellFormed, LostOnlyByOverlap, DeactivationStands
<1>9. CredentialsPaired'
  BY <1>0, <1>1, <1>2, <1>3, <1>4 DEF CredentialsPaired, OthersStay, ThreadOK
<1>10. OverlapsRecorded'
  BY <1>0, <1>1, <1>2, <1>3 DEF OverlapsRecorded, Recorded, OthersStay
<1>11. ThreadOK(t)'
  BY <1>1, <1>2, <1>3, <1>4 DEF ThreadOK, Knows
<1>12. ASSUME NEW o \in Threads, o # t
       PROVE  ThreadOK(o)'
  <2>1. Knows(o)'
    BY <1>1, <1>2, <1>3, <1>4, <1>5, <1>6, <1>12, OthersKnow
  \* Another update between its two writes is of another name, or on record.
  <2>2. pc'[o] = "setsalt" =>
          hash'[user'[o]] = fresh'[o] \/ name'[o] \in overlapped'["update"]
    BY <1>0, <1>1, <1>2, <1>3, <1>4, <1>12 DEF ThreadOK, OthersStay, OverlapsRecorded, Recorded
  <2>3. QED
    BY <1>0, <1>2, <1>3, <1>12, <2>1, <2>2 DEF ThreadOK, OthersStay
<1>13. QED
  BY <1>2, <1>7, <1>8, <1>9, <1>10, <1>11, <1>12, PartsAfter

\* ... and its salt, which is that of the hash unless another update overlapped.
LEMMA SetSaltStep == ASSUME IInv, NEW t \in Threads, SetSalt(t) PROVE IInv'
<1>0. /\ LocalsTyped /\ AccountsTyped /\ HistoryTyped
      /\ StoreOK /\ CredentialsPaired /\ OverlapsRecorded /\ \A o \in Threads : ThreadOK(o)
  BY Parts
<1> DEFINE n == name[t]  a == user[t]
<1>1. /\ pc[t] = "setsalt" /\ n \in Names /\ username[a] = n /\ fresh[t] # None
      /\ a \in 1 .. created /\ a \in Accounts /\ created \in Nat
      /\ \A b \in 1 .. created : b \in Accounts
  BY <1>0, AccountsAssumption DEF SetSalt, ThreadOK, HistoryTyped, AccountsTyped, Accounts
<1>2. LocalsTyped' /\ OthersStay(t) /\ pc'[t] = "ok"
  BY <1>0, ReturnEffect DEF SetSalt
<1>3. UNCHANGED <<created, stored, username, active, hash, word, name, overlapped, removed, shut>>
  BY DEF SetSalt
<1>4. /\ salt' \in [Accounts -> Hashes \union {None}]
      /\ salt'[a] = fresh[t] /\ \A b \in Accounts : b # a => salt'[b] = salt[b]
  BY <1>0, <1>1 DEF SetSalt, SaltWritten, AccountsTyped, LocalsTyped
<1>5. /\ moved' \in [Threads -> BOOLEAN]
      /\ \A o \in Threads : ~moved'[o] => ~moved[o]
      /\ \A o \in Threads : pc[o] \in LoginSteps /\ name[o] = n => moved'[o]
  BY <1>0 DEF SetSalt, Disturb, HistoryTyped
<1>6. AccountsTyped' /\ HistoryTyped'
  BY <1>0, <1>3, <1>4, <1>5 DEF AccountsTyped, HistoryTyped
<1>7. StoreOK'
  BY <1>0, <1>1, <1>3, <1>4
     DEF StoreOK, StoreWellFormed, LostOnlyByOverlap, DeactivationStands
<1>8. CredentialsPaired'
  BY <1>0, <1>1, <1>2, <1>3, <1>4 DEF CredentialsPaired, OthersStay, ThreadOK
<1>9. OverlapsRecorded'
  BY <1>0, <1>2, <1>3 DEF OverlapsRecorded, Recorded, OthersStay
<1>10. ThreadOK(t)'
  BY <1>2 DEF ThreadOK, Knows
<1>11. ASSUME NEW o \in Threads, o # t
       PROVE  ThreadOK(o)'
  <2>1. Knows(o)'
    BY <1>1, <1>2, <1>3, <1>4, <1>5, <1>11, OthersKnow
  <2>2. QED
    BY <1>0, <1>2, <1>3, <1>11, <2>1 DEF ThreadOK, OthersStay
<1>12. QED
  BY <1>2, <1>6, <1>7, <1>8, <1>9, <1>10, <1>11, PartsAfter

\* deleteUser takes the account out.
LEMMA DelStep == ASSUME IInv, NEW t \in Threads, Del(t), stored[name[t]] # 0 PROVE IInv'
<1>0. /\ LocalsTyped /\ AccountsTyped /\ HistoryTyped
      /\ StoreOK /\ CredentialsPaired /\ OverlapsRecorded /\ \A o \in Threads : ThreadOK(o)
  BY Parts
<1> DEFINE n == name[t]
<1>1. pc[t] = "del" /\ n \in Names /\ stored[n] \in Accounts
  BY <1>0 DEF Del, HistoryTyped, AccountsTyped, Accounts
<1>2. LocalsTyped' /\ OthersStay(t) /\ pc'[t] = "ok"
  BY <1>0, ReturnEffect DEF Del
<1>3. UNCHANGED <<created, username, active, hash, salt, word, name, overlapped>>
  BY DEF Del
<1>4. /\ stored' \in [Names -> 0 .. MaxAccounts]
      /\ stored'[n] = 0 /\ \A m \in Names : m # n => stored'[m] = stored[m]
      /\ removed' = removed \union {stored[n]} /\ shut' = shut \ {n}
  BY <1>0, <1>1, AccountsAssumption DEF Del, AccountsTyped
<1>5. /\ moved' \in [Threads -> BOOLEAN]
      /\ \A o \in Threads : ~moved'[o] => ~moved[o]
      /\ \A o \in Threads : pc[o] \in LoginSteps /\ name[o] = n => moved'[o]
  BY <1>0 DEF Del, Disturb, HistoryTyped
<1>6. AccountsTyped' /\ HistoryTyped'
  BY <1>0, <1>1, <1>3, <1>4, <1>5 DEF AccountsTyped, HistoryTyped
<1>7. StoreWellFormed' /\ LostOnlyByOverlap'
  <2>1. StoreWellFormed'
    BY <1>0, <1>3, <1>4 DEF StoreOK, StoreWellFormed
  <2>2. ASSUME NEW b \in 1 .. created
        PROVE  \/ stored'[username[b]] = b
               \/ b \in removed'
               \/ username[b] \in overlapped["register"]
    <3>1. username[b] \in Names
      BY <1>0, AccountsAssumption DEF AccountsTyped, Accounts
    <3>2. QED
      BY <1>0, <1>4, <3>1 DEF StoreOK, LostOnlyByOverlap
  <2>3. QED
    BY <1>3, <2>1, <2>2 DEF LostOnlyByOverlap
<1>8. DeactivationStands'
  BY <1>0, <1>3, <1>4 DEF StoreOK, DeactivationStands, HistoryTyped
<1>9. CredentialsPaired'
  BY <1>0, <1>1, <1>2, <1>3 DEF CredentialsPaired, OthersStay
<1>10. OverlapsRecorded'
  BY <1>0, <1>2, <1>3 DEF OverlapsRecorded, Recorded, OthersStay
<1>11. ThreadOK(t)'
  BY <1>2 DEF ThreadOK, Knows
<1>12. ASSUME NEW o \in Threads, o # t
       PROVE  ThreadOK(o)'
  <2>1. Knows(o)'
    BY <1>1, <1>2, <1>3, <1>4, <1>5, <1>12, OthersKnow
  <2>2. pc'[o] = "store" => stored'[name'[o]] = 0 \/ name'[o] \in overlapped'["register"]
    BY <1>0, <1>2, <1>3, <1>4, <1>12 DEF ThreadOK, OthersStay, HistoryTyped
  <2>3. pc'[o] = "del" => stored'[name'[o]] # 0 \/ name'[o] \in overlapped'["delete"]
    BY <1>0, <1>1, <1>2, <1>3, <1>4, <1>12
       DEF ThreadOK, OthersStay, OverlapsRecorded, Recorded, HistoryTyped
  <2>4. QED
    BY <1>0, <1>2, <1>3, <1>12, <2>1, <2>2, <2>3 DEF ThreadOK, OthersStay
<1>13. QED
  BY <1>2, <1>6, <1>7, <1>8, <1>9, <1>10, <1>11, <1>12, PartsAfter DEF StoreOK

-----------------------------------------------------------------------------
(* The inductive invariant and what follows from it *)

\* Every action preserves the inductive invariant.
THEOREM InductiveStep == IInv /\ [Next]_vars => IInv'
<1> SUFFICES ASSUME IInv, [Next]_vars PROVE IInv'
  OBVIOUS
<1>1. CASE UNCHANGED vars
  BY <1>1 DEF vars, account, local, history, IInv, TypeOK, StoreWellFormed, AccountInHand,
     OverlapsRecorded, Recorded, InHandIsNamed, TestsHold, FreshIsHash, LoginKnows, Knows,
     CredentialsPaired, LostOnlyByOverlap, DeactivationStands, FailedNeedsOverlap
<1>2. ASSUME NEW t \in Threads, Begin(t) PROVE IInv'
  BY <1>2, BeginStep
<1>3. ASSUME NEW t \in Threads, Exists(t) \/ Lookup(t) \/ Relookup(t) \/ ReadSalt(t) \/
                                Compare(t) \/ Enabled(t) \/ Get(t) \/ Find(t)
      PROVE  IInv'
  BY <1>3, AnswerStep, ReadStep
<1>4. ASSUME NEW t \in Threads, Del(t) PROVE IInv'
  BY <1>4, AnswerStep, DelStep
<1>5. ASSUME NEW t \in Threads, Serve(t) PROVE IInv'
  BY <1>3, <1>4, <1>5, StoreStep, SetFlagStep, SetHashStep, SetSaltStep DEF Serve
<1>6. QED
  BY <1>1, <1>2, <1>5 DEF Next

\* Every account dict is made, found and changed only by the steps above, so what
\* holds before the first call and is kept by them holds always.
THEOREM InductiveInvariant == Spec => []IInv
<1>1. Init => IInv
  BY AccountsAssumption
     DEF Init, IInv, TypeOK, Accounts, StoreWellFormed, AccountInHand, OverlapsRecorded,
         Recorded, InHandIsNamed, TestsHold, FreshIsHash, LoginKnows, Knows,
         CredentialsPaired, LostOnlyByOverlap, DeactivationStands, FailedNeedsOverlap
<1>2. QED
  BY <1>1, InductiveStep, PTL DEF Spec

\* The store and every call are well-formed.
THEOREM TypeCorrect == Spec => []TypeOK
<1>1. IInv => TypeOK
  BY DEF IInv
<1>2. QED
  BY <1>1, InductiveInvariant, PTL

\* Hash and salt part only while one update is at it, or by two that overlap.
THEOREM CredentialsStayPaired == Spec => []CredentialsPaired
<1>1. IInv => CredentialsPaired
  BY DEF IInv
<1>2. QED
  BY <1>1, InductiveInvariant, PTL

\* Accounts are lost, and deactivations undone, only by overlapping registrations.
THEOREM AccountsStay == Spec => [](LostOnlyByOverlap /\ DeactivationStands)
<1>1. IInv => LostOnlyByOverlap /\ DeactivationStands
  BY DEF IInv
<1>2. QED
  BY <1>1, InductiveInvariant, PTL

\* A deletion fails only beside another one.
THEOREM FailuresNeedOverlap == Spec => []FailedNeedsOverlap
<1>1. IInv => FailedNeedsOverlap
  BY DEF IInv
<1>2. QED
  BY <1>1, InductiveInvariant, PTL

\* The five steps of authenticate answer for the account as it is at the last one.
THEOREM LoginsAgree == Spec => LoginAgrees
<1> DEFINE Agrees(t) ==
      pc[t] \in LoginSteps /\ pc'[t] \in Answered /\ ~moved[t] =>
          (pc'[t] = "ok" <=> Opens(name[t], pass[t]))
<1>1. ASSUME IInv, [Next]_vars, NEW t \in Threads
      PROVE  Agrees(t)
  <2> SUFFICES ASSUME pc[t] \in LoginSteps, pc'[t] \in Answered, ~moved[t]
               PROVE  pc'[t] = "ok" <=> Opens(name[t], pass[t])
    OBVIOUS
  <2>1. \/ Lookup(t) \/ Relookup(t) \/ Compare(t) \/ Enabled(t)
    <3>1. pc \in [Threads -> InFlight \union Answered] /\ pc'[t] # pc[t]
      BY <1>1 DEF IInv, TypeOK, LoginSteps, Answered
    <3>2. ASSUME NEW u \in Threads, u # t, NEW to, Goto(u, to)
          PROVE  pc'[t] = pc[t]
      BY <3>1, <3>2 DEF Goto
    <3>3. ASSUME NEW u \in Threads, Begin(u)
          PROVE  pc[u] \in Answered /\ \E to : Goto(u, to)
      BY <3>3 DEF Begin, Register, Authenticate, Update, Delete, Call
    <3>4. ASSUME NEW u \in Threads, Serve(u)
          PROVE  \E to : Goto(u, to)
      <4>1. CASE Lookup(u) \/ Relookup(u) \/ ReadSalt(u) \/ Compare(u) \/ Enabled(u)
        BY <4>1 DEF Lookup, Relookup, ReadSalt, Compare, Enabled, AnswerLogin, LoginGoto, Return
      <4>2. CASE Exists(u) \/ Get(u) \/ SetFlag(u) \/ SetSalt(u) \/ Find(u) \/ Del(u)
        BY <4>2 DEF Exists, Get, SetFlag, SetSalt, Find, Del, Return
      <4>3. ASSUME NEW h \in Hashes, Store(u, h) \/ SetHash(u, h)
            PROVE  \E to : Goto(u, to)
        BY <4>3 DEF Store, SetHash, Return
      <4>4. QED
        BY <3>4, <4>1, <4>2, <4>3 DEF Serve
    <3>5. Begin(t) \/ Serve(t)
      BY <1>1, <3>1, <3>2, <3>3, <3>4 DEF Next, vars
    <3>6. ~Begin(t)
      BY <3>3 DEF LoginSteps, Answered
    <3>7. ~ReadSalt(t)
      BY <3>1 DEF ReadSalt, LoginGoto, Goto, Answered
    <3>8. QED
      BY <3>5, <3>6, <3>7 DEF Serve, Exists, Store, Get, SetFlag, SetHash, SetSalt, Find, Del,
         LoginSteps
  <2> USE DEF IInv, TypeOK, LoginKnows, Knows, StoreWellFormed, AccountInHand
  <2>2. CASE Lookup(t)
    BY <1>1, <2>2 DEF Lookup, Present, AnswerLogin, LoginGoto, Return, Goto, Opens
  <2>3. CASE Relookup(t)
    BY <1>1, <2>3 DEF Relookup, Present, AnswerLogin, LoginGoto, Return, Goto, Opens
  <2>4. CASE Compare(t)
    BY <1>1, <2>4 DEF Compare, Matches, AnswerLogin, LoginGoto, Return, Goto, Opens
  <2>5. CASE Enabled(t)
    BY <1>1, <2>5 DEF Enabled, AnswerLogin, Return, Goto, Opens
  <2>6. QED
    BY <2>1, <2>2, <2>3, <2>4, <2>5
<1>2. IInv /\ [Next]_vars => [\A t \in Threads : Agrees(t)]_vars
  BY <1>1
<1>3. QED
  BY <1>2, InductiveInvariant, PTL DEF Spec, LoginAgrees
==============================================================================
