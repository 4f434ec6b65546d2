--------------------------- MODULE OAuthLoginProofs ---------------------------
(***************************************************************************)
(* Proofs about OAuthLogin for any number of requests, browsers, states,   *)
(* subjects and names.                                                     *)
(*                                                                         *)
(* The store of profiles and the cookies never touch: ProfileInv and       *)
(* WebInv are preserved separately.  A step that leaves the store alone    *)
(* falls under ProfileFrame, one that leaves the cookies alone under       *)
(* WebFrame; the others have a lemma each.                                 *)
(***************************************************************************)
EXTENDS OAuthLogin, TLAPS

USE DEF Handling, Looking, Answers

\* A request other than r stands where it stood, as far as the store is concerned ...
OthersLook(r) ==
    \A o \in Requests : o # r =>
        /\ pc'[o] = pc[o] /\ who'[o] = who[o] /\ called'[o] = called[o]
        /\ size'[o] = size[o] /\ pos'[o] = pos[o] /\ found'[o] = found[o]

\* ... and as far as the cookies are.
OthersWait(r) ==
    \A o \in Requests : o # r =>
        pc'[o] = pc[o] /\ browser'[o] = browser[o] /\ state'[o] = state[o] /\ sent'[o] = sent[o]

\* What the invariant says of one request and the store.
Informed(r) ==
    /\ pc[r] \in Looking => who[r] \in Identities /\ called[r] \in Names
    /\ pc[r] = "scan" => pos[r] # 0 /\ size[r] <= Len(order)
    /\ pc[r] = "scan" /\ size[r] = Len(order) =>
         \A i \in 1 .. Len(order) :
             i < pos[r] /\ subject[store[order[i]]] = Sub(who[r]) => Sub(who[r]) \in overlapped
    /\ pc[r] = "create" =>
         \A n \in Stored : subject[store[n]] = Sub(who[r]) => Sub(who[r]) \in overlapped
    /\ pc[r] = "ok" =>
         who[r] \in Identities /\ found[r] \in 1 .. created /\ subject[found[r]] = Sub(who[r])

\* The parts make up the invariant, before a step ...
LEMMA Parts ==
    ProfileInv <=>
        /\ StoreTyped /\ LookupTyped
        /\ \A r \in Requests : Informed(r)
        /\ OverlapsRecorded /\ StaysStored /\ ReusedUnlessDisturbed /\ ToldOwn
        /\ \A i \in Identities : told[i] \subseteq 1 .. created
  BY DEF ProfileInv, Informed, InHand, ScanHolds, AnswersMade

\* ... and after it.
LEMMA PartsAfter ==
    ASSUME StoreTyped', LookupTyped',
           \A r \in Requests : Informed(r)',
           OverlapsRecorded', StaysStored', ReusedUnlessDisturbed', ToldOwn',
           \A i \in Identities : told'[i] \subseteq 1 .. created'
    PROVE  ProfileInv'
  BY DEF ProfileInv, Informed, InHand, ScanHolds, AnswersMade

\* No subject is None, which stands for a local account.
LEMMA SubjectsApart ==
    /\ None \notin Subjects /\ None \notin Identities /\ Subjects' = Subjects
    /\ \A i \in Identities : Sub(i) \in Subjects
  BY LoginAssumption DEF Subjects, Sub

-----------------------------------------------------------------------------
(* The store of profiles *)

\* A step that leaves the store alone keeps the invariant if it keeps what that
\* says of its own request; a subject may be told of a profile of its own.
LEMMA ProfileFrame ==
    ASSUME ProfileInv, NEW r \in Requests, LookupTyped', OthersLook(r),
           UNCHANGED <<profile, displaced>>, overlapped \subseteq overlapped',
           \A i \in Identities :
               told'[i] \subseteq told[i] \union {p \in 1 .. created : subject[p] = Sub(i)},
           pc'[r] \in Looking => \A o \in Requests :
               o # r /\ pc[o] \in Looking /\ Sub(who[o]) = Sub(who'[r])
                   => Sub(who'[r]) \in overlapped',
           Informed(r)'
    PROVE  ProfileInv'
<1>0. /\ StoreTyped /\ LookupTyped
      /\ \A o \in Requests : Informed(o)
      /\ OverlapsRecorded /\ StaysStored /\ ReusedUnlessDisturbed /\ ToldOwn
      /\ \A i \in Identities : told[i] \subseteq 1 .. created
  BY Parts
<1>1. StoreTyped' /\ StaysStored' /\ ReusedUnlessDisturbed' /\ Stored' = Stored
  <2>1. Stored' = Stored
    BY DEF profile, Stored
  <2>2. StoreTyped'
    BY <1>0, <2>1, SubjectsApart DEF profile, StoreTyped
  <2>3. StaysStored'
    BY <1>0, <2>1 DEF profile, StaysStored
  <2>4. ReusedUnlessDisturbed'
    BY <1>0 DEF profile, ReusedUnlessDisturbed
  <2>5. QED
    BY <2>1, <2>2, <2>3, <2>4
<1>2. ToldOwn' /\ \A i \in Identities : told'[i] \subseteq 1 .. created'
  BY <1>0 DEF profile, ToldOwn
<1>3. OverlapsRecorded'
  BY <1>0 DEF OverlapsRecorded, OthersLook
<1>4. ASSUME NEW o \in Requests, o # r
      PROVE  Informed(o)'
  BY <1>0, <1>1, <1>4 DEF profile, Informed, OthersLook
<1>5. QED
  BY <1>1, <1>2, <1>3, <1>4, PartsAfter

\* What a request forgets at its end.
LEMMA ForgetEffect ==
    ASSUME LookupTyped, NEW r \in Requests, PlacesTyped, Forget(r),
           told' \in [Identities -> SUBSET Profiles]
    PROVE  LookupTyped' /\ OthersLook(r) /\ pc'[r] = "idle"
  BY LoginAssumption DEF LookupTyped, PlacesTyped, Forget, Goto, OthersLook

\* Steps outside the lookup, whatever they do to the cookies.
LEMMA OutsideStep ==
    ASSUME PlacesTyped, ProfileInv, NEW r \in Requests,
           \/ \E b \in Browsers, s \in States : Authorize(r, b, s)
           \/ \E b \in Browsers, s \in States \union {None} : Callback(r, b, s)
           \/ Redirected(r) \/ ExchangeFails(r) \/ Lost(r)
    PROVE  ProfileInv'
<1>0. LookupTyped
  BY Parts
<1>1. CASE Lost(r)
  <2>1. LookupTyped' /\ OthersLook(r) /\ pc'[r] = "idle"
    BY <1>0, <1>1, ForgetEffect DEF Lost, LookupTyped
  <2>2. QED
    BY <1>1, <2>1, ProfileFrame DEF Lost, Forget, profile, Informed
<1>2. CASE ~Lost(r)
  <2>1. UNCHANGED <<profile, who, called, size, pos, found, told, overlapped, displaced>>
    BY <1>2 DEF Authorize, Callback, Redirected, ExchangeFails, history, local
  <2>2. pc'[r] \notin Looking \union {"ok"} /\ \A o \in Requests : o # r => pc'[o] = pc[o]
    BY <1>2 DEF PlacesTyped, Authorize, Callback, Redirected, ExchangeFails, Goto
  <2>3. LookupTyped' /\ OthersLook(r) /\ Informed(r)'
    BY <1>0, <2>1, <2>2 DEF LookupTyped, OthersLook, Informed
  <2>4. QED
    BY <2>1, <2>2, <2>3, ProfileFrame
<1>3. QED
  BY <1>1, <1>2

\* The answer tells its subject of the profile that was found for it.
LEMMA ArriveKeepsProfiles ==
    ASSUME PlacesTyped, ProfileInv, NEW r \in Requests, Arrive(r)
    PROVE  ProfileInv'
<1>0. LookupTyped /\ StoreTyped /\ Informed(r)
  BY Parts
<1>1. /\ told' \in [Identities -> SUBSET Profiles]
      /\ \A i \in Identities :
           told'[i] \subseteq told[i] \union {p \in 1 .. created : subject[p] = Sub(i)}
  <2>1. CASE pc[r] = "ok"
    <3>1. who[r] \in Identities /\ found[r] \in 1 .. created /\ subject[found[r]] = Sub(who[r])
      BY <1>0, <2>1 DEF Informed
    <3>2. found[r] \in Profiles
      BY <1>0, <3>1, LoginAssumption DEF StoreTyped, Profiles
    <3>3. QED
      BY <1>0, <2>1, <3>1, <3>2 DEF Arrive, LookupTyped
  <2>2. CASE pc[r] # "ok"
    BY <1>0, <2>2 DEF Arrive, LookupTyped
  <2>3. QED
    BY <2>1, <2>2
<1>2. LookupTyped' /\ OthersLook(r) /\ pc'[r] = "idle"
  BY <1>0, <1>1, ForgetEffect DEF Arrive
<1>3. QED
  BY <1>1, <1>2, ProfileFrame DEF Arrive, Forget, profile, Informed

\* A lookup begins, on record if another one for the subject is under way.
LEMMA ExchangeKeepsProfiles ==
    ASSUME PlacesTyped, ProfileInv, NEW r \in Requests, NEW i \in Identities, NEW n \in Names,
           Exchange(r, i, n)
    PROVE  ProfileInv'
<1>0. LookupTyped /\ StoreTyped
  BY Parts
<1>1. Len(order) \in Nat /\ Len(order') = Len(order)
  BY <1>0 DEF StoreTyped, Exchange, profile
<1>2. LookupTyped' /\ OthersLook(r)
  BY <1>0, <1>1, SubjectsApart DEF LookupTyped, PlacesTyped, Exchange, Goto, OthersLook
<1>3. pc'[r] = "scan" /\ who'[r] = i /\ called'[r] = n /\ size'[r] = Len(order) /\ pos'[r] = 1
  BY <1>0 DEF LookupTyped, PlacesTyped, Exchange, Goto
<1>4. Informed(r)'
  BY <1>1, <1>3 DEF Informed
<1>5. \A o \in Requests :
        o # r /\ pc[o] \in Looking /\ Sub(who[o]) = Sub(who'[r]) => Sub(who'[r]) \in overlapped'
  BY <1>3 DEF Exchange
<1>6. UNCHANGED <<profile, displaced, told>> /\ overlapped \subseteq overlapped'
  BY DEF Exchange
<1>7. QED
  BY <1>2, <1>4, <1>5, <1>6, ProfileFrame

\* A turn of the loop passes only profiles of others.
LEMMA InspectKeepsProfiles ==
    ASSUME PlacesTyped, ProfileInv, NEW r \in Requests, Inspect(r)
    PROVE  ProfileInv'
<1>0. LookupTyped /\ StoreTyped /\ Informed(r) /\ OverlapsRecorded
  BY Parts
<1>1. /\ UNCHANGED <<profile, who, called, size, told, overlapped, displaced>>
      /\ pc[r] = "scan" /\ who[r] \in Identities /\ called[r] \in Names /\ pos[r] \in Nat \ {0}
      /\ size[r] <= Len(order) /\ Len(order) \in Nat
  BY <1>0 DEF Inspect, history, Informed, LookupTyped, StoreTyped
<1>2. Stored' = Stored
  BY <1>1 DEF profile, Stored
<1>3. CASE size[r] # Len(order)
  <2>1. pc' = [pc EXCEPT ![r] = "failed"] /\ UNCHANGED <<pos, found>>
    BY <1>3 DEF Inspect, Goto
  <2>2. LookupTyped' /\ OthersLook(r) /\ pc'[r] = "failed"
    BY <1>0, <1>1, <2>1 DEF LookupTyped, PlacesTyped, OthersLook
  <2>3. QED
    BY <1>1, <2>2, ProfileFrame DEF Informed
<1>4. CASE size[r] = Len(order) /\ pos[r] > size[r]
  <2>1. pc' = [pc EXCEPT ![r] = "create"] /\ UNCHANGED <<pos, found>>
    BY <1>1, <1>4 DEF Inspect, Goto, LookupTyped
  <2>2. LookupTyped' /\ OthersLook(r) /\ pc'[r] = "create"
    BY <1>0, <1>1, <2>1 DEF LookupTyped, PlacesTyped, OthersLook
  <2>3. \A m \in Stored : subject[store[m]] = Sub(who[r]) => Sub(who[r]) \in overlapped
    BY <1>0, <1>1, <1>4 DEF Informed, Stored
  <2>4. Informed(r)'
    BY <1>1, <1>2, <2>2, <2>3 DEF profile, Informed
  <2>5. QED
    BY <1>0, <1>1, <2>2, <2>4, ProfileFrame DEF OverlapsRecorded
<1>5. CASE size[r] = Len(order) /\ pos[r] <= size[r]
  <2> DEFINE p == store[order[pos[r]]]
  <2>1. pos[r] \in 1 .. Len(order) /\ order[pos[r]] \in Names
    BY <1>0, <1>1, <1>5 DEF StoreTyped
  <2>2. p \in 1 .. created /\ p \in 0 .. MaxProfiles
    BY <1>0, <2>1 DEF StoreTyped, Stored
  <2>3. CASE subject[p] = Sub(who[r])
    <3>1. pc' = [pc EXCEPT ![r] = "ok"] /\ UNCHANGED pos /\ found' = [found EXCEPT ![r] = p]
      BY <1>1, <1>5, <2>3 DEF Inspect, Matches, Goto
    <3>2. LookupTyped' /\ OthersLook(r) /\ pc'[r] = "ok" /\ found'[r] = p
      BY <1>0, <1>1, <2>2, <3>1 DEF LookupTyped, PlacesTyped, OthersLook
    <3>3. Informed(r)'
      BY <1>1, <2>2, <2>3, <3>2 DEF profile, Informed
    <3>4. QED
      BY <1>1, <3>2, <3>3, ProfileFrame
  <2>4. CASE subject[p] # Sub(who[r])
    <3>1. UNCHANGED <<pc, found>> /\ pos' = [pos EXCEPT ![r] = pos[r] + 1]
      BY <1>1, <1>5, <2>4 DEF Inspect, Matches
    <3>2. LookupTyped' /\ OthersLook(r) /\ pos'[r] = pos[r] + 1
      BY <1>0, <1>1, <3>1 DEF LookupTyped, PlacesTyped, OthersLook
    <3>3. \A i \in 1 .. Len(order) :
            i < pos[r] + 1 /\ subject[store[order[i]]] = Sub(who[r]) => Sub(who[r]) \in overlapped
      BY <1>0, <1>1, <1>5, <2>4 DEF Informed
    <3>4. Informed(r)'
      BY <1>1, <3>1, <3>2, <3>3 DEF profile, Informed
    <3>5. QED
      BY <1>0, <1>1, <3>1, <3>2, <3>4, ProfileFrame DEF OverlapsRecorded
  <2>5. QED
    BY <2>3, <2>4
<1>6. QED
  BY <1>0, <1>1, <1>3, <1>4, <1>5 DEF LookupTyped

\* A name keeps its place in the loop order, a new one goes to its end.
LEMMA PutOrder ==
    ASSUME StoreTyped, NEW n \in Names, order' = Keys(n)
    PROVE  /\ order' \in Seq(Names) /\ Stored' = Stored \union {n}
           /\ Len(order) <= Len(order')
           /\ \A i \in 1 .. Len(order) : order'[i] = order[i]
           /\ \A i, j \in 1 .. Len(order') : order'[i] = order'[j] => i = j
           /\ Len(order') = Len(order) => order' = order
<1>0. order \in Seq(Names) /\ Len(order) \in Nat
  BY DEF StoreTyped
<1>1. CASE n \in Stored
  BY <1>0, <1>1 DEF Keys, StoreTyped, Stored
<1>2. CASE n \notin Stored
  <2>1. order' = Append(order, n) /\ Len(order') = Len(order) + 1
    BY <1>0, <1>2 DEF Keys
  <2>2. /\ \A i \in 1 .. Len(order) : order'[i] = order[i]
        /\ order'[Len(order) + 1] = n /\ order' \in Seq(Names)
    BY <1>0, <2>1
  <2>3. Stored' = Stored \union {n}
    BY <1>0, <2>1, <2>2 DEF Stored
  <2>4. ASSUME NEW i \in 1 .. Len(order'), NEW j \in 1 .. Len(order'), order'[i] = order'[j]
        PROVE  i = j
    <3>1. \A k \in 1 .. Len(order) : order[k] # n
      BY <1>2 DEF Stored
    <3>2. QED
      BY <1>0, <2>1, <2>2, <2>4, <3>1 DEF StoreTyped
  <2>5. QED
    BY <1>0, <2>1, <2>2, <2>3, <2>4
<1>3. QED
  BY <1>1, <1>2

\* A profile put under a name leaves every other name as it is.
LEMMA PutStore ==
    ASSUME StoreTyped, NEW n \in Names, NEW s \in Subjects \union {None}, Put(n, s)
    PROVE  /\ StoreTyped' /\ created' = created + 1
           /\ subject'[created'] = s /\ store'[n] = created' /\ n \in Stored'
           /\ \A p \in 1 .. created : subject'[p] = subject[p]
           /\ \A m \in Names : m # n => store'[m] = store[m] /\ (m \in Stored' <=> m \in Stored)
           /\ \A m \in Stored : m \in Names /\ store[m] \in 1 .. created
<1>1. created \in Nat /\ created + 1 \in Profiles /\ created' = created + 1 /\ created < MaxProfiles
  BY LoginAssumption DEF StoreTyped, Put, Profiles
<1>2. /\ subject' \in [Profiles -> Subjects \union {None}]
      /\ subject'[created'] = s
      /\ \A p \in 1 .. created : subject'[p] = subject[p]
  BY <1>1, LoginAssumption DEF StoreTyped, Put, Profiles
<1>3. created' \in 0 .. MaxProfiles /\ store' = [store EXCEPT ![n] = created']
  BY <1>1, LoginAssumption DEF Put
<1>4. /\ store' \in [Names -> 0 .. MaxProfiles] /\ store'[n] = created'
      /\ \A m \in Names : m # n => store'[m] = store[m]
  BY <1>3 DEF StoreTyped
<1>5. /\ order' \in Seq(Names) /\ Stored' = Stored \union {n}
      /\ \A i, j \in 1 .. Len(order') : order'[i] = order'[j] => i = j
  BY PutOrder DEF Put
<1>6. \A m \in Stored : m \in Names /\ store[m] \in 1 .. created
  BY DEF StoreTyped, Stored
<1>7. \A m \in Names : IF m \in Stored' THEN store'[m] \in 1 .. created' ELSE store'[m] = 0
  BY <1>1, <1>4, <1>5 DEF StoreTyped
<1>8. StoreTyped'
  BY <1>2, <1>3, <1>4, <1>5, <1>7 DEF StoreTyped, Profiles
<1>9. QED
  BY <1>1, <1>2, <1>4, <1>5, <1>6, <1>8

\* It is no profile that a lookup in progress could have missed, and displaces only
\* what is put on record.
LEMMA PutKeeps ==
    ASSUME ProfileInv, NEW n \in Names, NEW s \in Subjects \union {None}, Put(n, s),
           UNCHANGED <<told, overlapped>>,
           s # None => \A m \in Stored : subject[store[m]] = s => s \in overlapped
    PROVE  /\ StaysStored' /\ ReusedUnlessDisturbed' /\ ToldOwn'
           /\ displaced' \subseteq Subjects
           /\ \A i \in Identities : told'[i] \subseteq 1 .. created'
<1>0. /\ StoreTyped /\ LookupTyped /\ StaysStored /\ ReusedUnlessDisturbed /\ ToldOwn
      /\ \A i \in Identities : told[i] \subseteq 1 .. created
  BY Parts
<1>1. /\ StoreTyped' /\ created' = created + 1
      /\ subject'[created'] = s /\ store'[n] = created' /\ n \in Stored'
      /\ \A p \in 1 .. created : subject'[p] = subject[p]
      /\ \A m \in Names : m # n => store'[m] = store[m] /\ (m \in Stored' <=> m \in Stored)
      /\ \A m \in Stored : m \in Names /\ store[m] \in 1 .. created
  BY <1>0, PutStore
<1>2. created \in Nat /\ 1 .. created' = (1 .. created) \union {created'}
  BY <1>0, <1>1 DEF StoreTyped
<1>3. /\ displaced \subseteq displaced'
      /\ n \in Stored /\ subject[store[n]] \notin {s, None} => subject[store[n]] \in displaced'
  BY <1>0, <1>1, <1>2 DEF Put
<1>4. displaced' \subseteq Subjects
  <2>1. store[n] # 0 => subject[store[n]] \in Subjects \union {None}
    BY <1>0, <1>2 DEF StoreTyped, Profiles
  <2>2. QED
    BY <1>0, <2>1 DEF Put, LookupTyped
<1>5. StaysStored'
  <2> SUFFICES ASSUME NEW p \in 1 .. created', subject'[p] # None,
                      subject'[p] \notin overlapped \union displaced'
               PROVE  \E m \in Stored' : store'[m] = p
    BY DEF StaysStored
  <2>1. CASE p = created'
    BY <1>1, <2>1
  <2>2. CASE p \in 1 .. created
    <3>1. subject[p] = subject'[p]
      BY <1>1, <2>2
    <3>2. PICK m \in Stored : store[m] = p
      BY <1>0, <1>3, <2>2, <3>1 DEF StaysStored
    <3>3. m # n
      BY <1>3, <3>1, <3>2
    <3>4. QED
      BY <1>1, <3>2, <3>3
  <2>3. QED
    BY <1>2, <2>1, <2>2
<1>6. ReusedUnlessDisturbed'
  <2> SUFFICES ASSUME NEW p \in 1 .. created', NEW q \in 1 .. created', p # q,
                      subject'[p] = subject'[q], subject'[p] # None
               PROVE  subject'[p] \in overlapped \union displaced'
    BY DEF ReusedUnlessDisturbed
  <2>1. ASSUME NEW x \in 1 .. created, subject[x] = s, s # None
        PROVE  s \in overlapped \union displaced'
    BY <1>0, <1>3, <2>1 DEF StaysStored
  <2>2. QED
    BY <1>0, <1>1, <1>2, <1>3, <2>1 DEF ReusedUnlessDisturbed
<1>7. ToldOwn' /\ \A i \in Identities : told'[i] \subseteq 1 .. created'
  BY <1>0, <1>1, <1>2 DEF ToldOwn
<1>8. QED
  BY <1>4, <1>5, <1>6, <1>7

\* A lookup that another request's profile meets is of another subject or on record.
LEMMA PutInforms ==
    ASSUME ProfileInv, NEW n \in Names, NEW s \in Subjects \union {None}, Put(n, s),
           UNCHANGED overlapped, NEW o \in Requests,
           pc'[o] = pc[o], who'[o] = who[o], called'[o] = called[o],
           size'[o] = size[o], pos'[o] = pos[o], found'[o] = found[o],
           pc[o] \in Looking /\ Sub(who[o]) = s => s \in overlapped
    PROVE  Informed(o)'
<1>0. StoreTyped /\ LookupTyped /\ Informed(o) /\ None \notin Subjects
  BY Parts, SubjectsApart
<1>1. /\ created' = created + 1
      /\ subject'[created'] = s /\ store'[n] = created' /\ n \in Stored'
      /\ \A p \in 1 .. created : subject'[p] = subject[p]
      /\ \A m \in Names : m # n => store'[m] = store[m] /\ (m \in Stored' <=> m \in Stored)
      /\ \A m \in Stored : m \in Names /\ store[m] \in 1 .. created
  BY <1>0, PutStore
<1>2. /\ order' \in Seq(Names) /\ Stored' = Stored \union {n} /\ Len(order) <= Len(order')
      /\ Len(order') = Len(order) => order' = order
  BY <1>0, PutOrder DEF Put
<1>3. Len(order) \in Nat /\ Len(order') \in Nat /\ created \in Nat /\ size[o] \in Nat
  BY <1>0, <1>2 DEF StoreTyped, LookupTyped
<1>4. pc[o] \in Looking =>
        \A m \in Stored' :
            subject'[store'[m]] = Sub(who[o]) =>
                Sub(who[o]) \in overlapped \/ (m \in Stored /\ subject[store[m]] = Sub(who[o]))
  BY <1>0, <1>1, <1>2
<1>5. ASSUME pc[o] = "scan", size[o] = Len(order')
      PROVE  \A i \in 1 .. Len(order') :
               i < pos[o] /\ subject'[store'[order'[i]]] = Sub(who[o]) => Sub(who[o]) \in overlapped
  <2>1. size[o] = Len(order) /\ order' = order
    BY <1>0, <1>2, <1>3, <1>5 DEF Informed
  <2>2. \A i \in 1 .. Len(order) : order[i] \in Stored'
    BY <1>2 DEF Stored
  <2>3. QED
    BY <1>0, <1>4, <1>5, <2>1, <2>2 DEF Informed
<1>6. pc[o] = "create" =>
        \A m \in Stored' : subject'[store'[m]] = Sub(who[o]) => Sub(who[o]) \in overlapped
  BY <1>0, <1>4 DEF Informed
<1>7. pc[o] = "ok" => found[o] \in 1 .. created' /\ subject'[found[o]] = Sub(who[o])
  BY <1>0, <1>1, <1>3 DEF Informed
<1>8. pc[o] = "scan" => size[o] <= Len(order')
  BY <1>0, <1>2, <1>3 DEF Informed
<1>9. QED
  BY <1>0, <1>5, <1>6, <1>7, <1>8 DEF Informed

\* A profile is made for a subject that the loop did not find.
LEMMA CreateProfileKeepsProfiles ==
    ASSUME PlacesTyped, ProfileInv, NEW r \in Requests, CreateProfile(r)
    PROVE  ProfileInv'
<1>0. StoreTyped /\ LookupTyped /\ Informed(r) /\ OverlapsRecorded /\ None \notin Subjects
  BY Parts, SubjectsApart
<1>1. /\ pc[r] = "create" /\ who[r] \in Identities /\ called[r] \in Names
      /\ Sub(who[r]) \in Subjects
      /\ Put(called[r], Sub(who[r])) /\ UNCHANGED <<told, overlapped, who, called, size, pos>>
      /\ pc' = [pc EXCEPT ![r] = "ok"] /\ found' = [found EXCEPT ![r] = created + 1]
  BY <1>0, SubjectsApart DEF CreateProfile, Informed, Goto
<1>2. \A m \in Stored : subject[store[m]] = Sub(who[r]) => Sub(who[r]) \in overlapped
  BY <1>0, <1>1 DEF Informed
<1>3. /\ StoreTyped' /\ created' = created + 1 /\ created \in Nat
      /\ subject'[created'] = Sub(who[r]) /\ created' \in 0 .. MaxProfiles
  BY <1>0, <1>1, PutStore DEF StoreTyped
<1>4. /\ StaysStored' /\ ReusedUnlessDisturbed' /\ ToldOwn' /\ displaced' \subseteq Subjects
      /\ \A i \in Identities : told'[i] \subseteq 1 .. created'
  BY <1>1, <1>2, PutKeeps
<1>5. LookupTyped' /\ OthersLook(r) /\ pc'[r] = "ok" /\ found'[r] = created'
  BY <1>0, <1>1, <1>3, <1>4 DEF LookupTyped, PlacesTyped, OthersLook
<1>6. OverlapsRecorded'
  BY <1>0, <1>1, <1>5 DEF OverlapsRecorded, OthersLook
<1>7. Informed(r)'
  BY <1>1, <1>3, <1>5 DEF Informed
<1>8. ASSUME NEW o \in Requests, o # r
      PROVE  Informed(o)'
  <2>1. pc[o] \in Looking /\ Sub(who[o]) = Sub(who[r]) => Sub(who[r]) \in overlapped
    BY <1>0, <1>1, <1>8 DEF OverlapsRecorded
  <2>2. QED
    BY <1>1, <1>5, <1>8, <2>1, PutInforms DEF OthersLook
<1>9. QED
  BY <1>3, <1>4, <1>5, <1>6, <1>7, <1>8, PartsAfter

\* A local account has no subject.
LEMMA CreateLocalKeepsProfiles ==
    ASSUME ProfileInv, NEW n \in LocalNames, CreateLocal(n)
    PROVE  ProfileInv'
<1>0. /\ StoreTyped /\ LookupTyped /\ OverlapsRecorded /\ \A o \in Requests : Informed(o)
      /\ n \in Names /\ None \notin Subjects
  BY Parts, SubjectsApart, LoginAssumption
<1>1. Put(n, None) /\ UNCHANGED <<told, overlapped, pc, who, called, size, pos, found>>
  BY DEF CreateLocal, local
<1>2. StoreTyped'
  BY <1>0, <1>1, PutStore
<1>3. /\ StaysStored' /\ ReusedUnlessDisturbed' /\ ToldOwn' /\ displaced' \subseteq Subjects
      /\ \A i \in Identities : told'[i] \subseteq 1 .. created'
  BY <1>0, <1>1, PutKeeps
<1>4. LookupTyped' /\ OverlapsRecorded'
  BY <1>0, <1>1, <1>3 DEF LookupTyped, OverlapsRecorded
<1>5. ASSUME NEW o \in Requests
      PROVE  Informed(o)'
  <2>1. pc[o] \in Looking => Sub(who[o]) # None
    BY <1>0, SubjectsApart DEF Informed
  <2>2. QED
    BY <1>0, <1>1, <2>1, PutInforms
<1>6. QED
  BY <1>2, <1>3, <1>4, <1>5, PartsAfter

-----------------------------------------------------------------------------
(* The cookies *)

\* A step that leaves cookies and states alone, and ends no request, keeps the
\* invariant.
LEMMA WebFrame ==
    ASSUME WebInv,
           UNCHANGED <<web, browser, state, sent, used, twice, repeated>>,
           \A o \in Requests : /\ pc'[o] \in Handling <=> pc[o] \in Handling
                               /\ pc'[o] = "redirect" <=> pc[o] = "redirect"
    PROVE  WebInv'
  BY DEF WebInv, WebTyped, StatesApart, UsedLeaves, StateOnce, web

\* The steps of a lookup are such steps.
LEMMA LookupStep ==
    ASSUME PlacesTyped, WebInv,
           \/ \E r \in Requests :
                \/ ExchangeFails(r) \/ Inspect(r) \/ CreateProfile(r)
                \/ \E i \in Identities, n \in Names : Exchange(r, i, n)
           \/ \E n \in LocalNames : CreateLocal(n)
    PROVE  WebInv'
<1>1. CASE \E n \in LocalNames : CreateLocal(n)
  BY <1>1, WebFrame DEF CreateLocal, local
<1>2. ASSUME NEW r \in Requests,
             \/ ExchangeFails(r) \/ Inspect(r) \/ CreateProfile(r)
             \/ \E i \in Identities, n \in Names : Exchange(r, i, n)
      PROVE  WebInv'
  <2>1. UNCHANGED <<web, browser, state, sent, used, twice, repeated>>
    BY <1>2 DEF ExchangeFails, Inspect, CreateProfile, Exchange, local, history
  <2>2. pc[r] \in Handling /\ \E to \in Handling : pc' = [pc EXCEPT ![r] = to]
    BY <1>2 DEF PlacesTyped, ExchangeFails, Inspect, CreateProfile, Exchange, Goto
  <2>3. QED
    BY <2>1, <2>2, WebFrame DEF PlacesTyped
<1>3. QED
  BY <1>1, <1>2

\* A fresh state is in no cookie and was let through by no callback.
LEMMA AuthorizeKeepsWeb ==
    ASSUME PlacesTyped, WebInv, NEW r \in Requests, NEW b \in Browsers, NEW s \in States,
           Authorize(r, b, s)
    PROVE  WebInv'
<1>0. /\ WebTyped /\ StatesApart /\ UsedLeaves /\ StateOnce
      /\ UNCHANGED <<cookie, known, sent, used, twice, repeated>>
      /\ pc[r] = "idle" /\ s \notin issued /\ issued' = issued \union {s}
  BY DEF WebInv, Authorize, history
<1>1. /\ pc'[r] = "redirect" /\ browser'[r] = b /\ state'[r] = s
      /\ OthersWait(r) /\ WebTyped'
  BY <1>0 DEF PlacesTyped, WebTyped, Authorize, Goto, OthersWait
<1>2. s \notin used /\ \A c \in Browsers : s \notin known[c]
  BY <1>0 DEF StatesApart
<1>3. StatesApart'
  <2>1. used \subseteq issued
    BY <1>0 DEF StatesApart
  <2>2. \A o \in Requests : pc[o] = "redirect" => state[o] # s
    BY <1>0 DEF StatesApart
  <2>3. QED
    BY <1>0, <1>1, <1>2, <2>1, <2>2 DEF StatesApart, OthersWait
<1>4. UsedLeaves'
  BY <1>0, <1>1 DEF UsedLeaves, OthersWait
<1>5. QED
  BY <1>0, <1>1, <1>3, <1>4 DEF WebInv, StateOnce

\* What a request forgets at its end.
LEMMA ForgetWeb ==
    ASSUME PlacesTyped, WebTyped, NEW r \in Requests, Forget(r)
    PROVE  /\ pc'[r] = "idle" /\ OthersWait(r)
           /\ browser' \in [Requests -> Browsers \union {None}]
           /\ state' \in [Requests -> States \union {None}]
           /\ sent' \in [Requests -> States \union {None}]
           /\ UNCHANGED <<issued, known, used, twice>>
  BY DEF PlacesTyped, WebTyped, Forget, Goto, OthersWait

\* A redirect puts a state into one cookie that no callback has used.
LEMMA RedirectedKeepsWeb ==
    ASSUME PlacesTyped, WebInv, NEW r \in Requests, Redirected(r)
    PROVE  WebInv'
<1>0. /\ WebTyped /\ StatesApart /\ UsedLeaves /\ StateOnce
      /\ UNCHANGED <<issued, sent, used, twice, repeated>> /\ pc[r] = "redirect"
  BY DEF WebInv, Redirected, history
<1> DEFINE b == browser[r]
           s == state[r]
<1>1. /\ b \in Browsers /\ s \in issued \ used /\ s \in States
      /\ \A c \in Browsers : s \notin known[c]
      /\ \A o \in Requests : o # r /\ pc[o] = "redirect" => state[o] # s
  BY <1>0 DEF StatesApart, WebTyped
<1>2. /\ pc'[r] = "idle" /\ OthersWait(r)
      /\ browser' \in [Requests -> Browsers \union {None}]
      /\ state' \in [Requests -> States \union {None}]
  BY <1>0 DEF PlacesTyped, WebTyped, Redirected, Goto, OthersWait
<1>3. /\ cookie' = [cookie EXCEPT ![b] = s]
      /\ known' = [known EXCEPT ![b] = known[b] \union {s}]
  BY DEF Redirected
<1>4. /\ known'[b] = known[b] \union {s} /\ cookie'[b] = s
      /\ \A c \in Browsers : c # b => known'[c] = known[c] /\ cookie'[c] = cookie[c]
  BY <1>0, <1>1, <1>3 DEF WebTyped
<1>5. WebTyped'
  BY <1>0, <1>1, <1>2, <1>3 DEF WebTyped
<1>6. StatesApart'
  BY <1>0, <1>1, <1>2, <1>4 DEF StatesApart, OthersWait
<1>7. UsedLeaves'
  <2> SUFFICES ASSUME NEW c \in Browsers, cookie'[c] \in used'
               PROVE  \/ cookie'[c] \in repeated'
                      \/ \E o \in Requests : /\ pc'[o] \in Handling /\ browser'[o] = c
                                             /\ state'[o] = cookie'[c] /\ sent'[o] = cookie'[c]
    BY DEF UsedLeaves
  <2>1. c # b /\ cookie'[c] = cookie[c]
    BY <1>0, <1>1, <1>4
  <2>2. QED
    BY <1>0, <1>2, <2>1 DEF UsedLeaves, OthersWait
<1>8. QED
  BY <1>0, <1>5, <1>6, <1>7 DEF WebInv, StateOnce

\* A callback that is let through a second time was sent while the first was in
\* flight, or after its answer was lost.
LEMMA CallbackKeepsWeb ==
    ASSUME PlacesTyped, WebInv, NEW r \in Requests, NEW b \in Browsers,
           NEW s \in States \union {None}, Callback(r, b, s)
    PROVE  WebInv'
<1>0. /\ WebTyped /\ StatesApart /\ UsedLeaves /\ StateOnce
      /\ UNCHANGED <<issued, cookie, known>> /\ pc[r] = "idle"
      /\ s \in known[b] \union {None} /\ None \notin States
  BY LoginAssumption DEF WebInv, Callback, web
<1> DEFINE through == s # None /\ s = cookie[b]
           again == \E o \in Requests : pc[o] \in Handling /\ state[o] = s
<1>1. /\ OthersWait(r) /\ browser'[r] = b /\ state'[r] = s
      /\ pc'[r] = IF through THEN "exchange" ELSE "refused"
      /\ s # None => sent'[r] = cookie[b]
      /\ browser' \in [Requests -> Browsers \union {None}]
      /\ state' \in [Requests -> States \union {None}]
      /\ sent' \in [Requests -> States \union {None}]
  BY <1>0 DEF PlacesTyped, WebTyped, Callback, Goto, OthersWait
<1>2. /\ used' = IF through THEN used \union {s} ELSE used
      /\ twice' = IF through THEN twice \union (used \intersect {s}) ELSE twice
      /\ repeated' = IF s # None /\ again THEN repeated \union {s} ELSE repeated
  BY DEF Callback
<1>3. through => s \in States /\ s \in known[b] /\ s \in issued
  BY <1>0 DEF StatesApart
<1>4. repeated \subseteq repeated' /\ used' \subseteq used \union {s}
  BY <1>2
<1>5. WebTyped'
  BY <1>0, <1>1, <1>2, <1>3 DEF WebTyped
<1>6. StatesApart'
  <2>1. \A o \in Requests : pc'[o] = "redirect" => o # r /\ pc[o] = "redirect"
    BY <1>1 DEF OthersWait
  <2>2. \A o \in Requests : pc[o] = "redirect" => state[o] \notin used'
    BY <1>0, <1>2, <1>3 DEF StatesApart
  <2>3. used' \subseteq UNION {known[c] : c \in Browsers}
    BY <1>0, <1>2, <1>3 DEF StatesApart
  <2>4. QED
    BY <1>0, <1>1, <2>1, <2>2, <2>3 DEF StatesApart, OthersWait
<1>7. UsedLeaves'
  <2> SUFFICES ASSUME NEW c \in Browsers, cookie'[c] \in used'
               PROVE  \/ cookie'[c] \in repeated'
                      \/ \E o \in Requests : /\ pc'[o] \in Handling /\ browser'[o] = c
                                             /\ state'[o] = cookie'[c] /\ sent'[o] = cookie'[c]
    BY DEF UsedLeaves
  <2>1. CASE cookie[c] \in used
    <3>1. \/ cookie[c] \in repeated
          \/ \E o \in Requests : /\ pc[o] \in Handling /\ browser[o] = c
                                 /\ state[o] = cookie[c] /\ sent[o] = cookie[c]
      BY <1>0, <2>1 DEF UsedLeaves
    <3>2. QED
      BY <1>0, <1>1, <1>4, <3>1 DEF OthersWait
  <2>2. CASE cookie[c] \notin used
    <3>1. through /\ cookie[c] = s
      BY <1>0, <1>2, <2>2
    <3>2. cookie[c] \in known[c]
      BY <1>0, <1>3, <3>1 DEF StatesApart
    <3>3. c = b
      BY <1>0, <1>3, <3>1, <3>2 DEF StatesApart
    <3>4. QED
      BY <1>0, <1>1, <3>1, <3>3
  <2>3. QED
    BY <2>1, <2>2
<1>8. StateOnce'
  <2>1. through /\ s \in used => s \in repeated'
    BY <1>0, <1>2 DEF UsedLeaves
  <2>2. QED
    BY <1>0, <1>2, <2>1 DEF StateOnce
<1>9. QED
  BY <1>5, <1>6, <1>7, <1>8 DEF WebInv

\* A request that ends leaves a used state in no cookie, or its answer was lost.
LEMMA EndKeepsWeb ==
    ASSUME PlacesTyped, WebInv, NEW r \in Requests, Arrive(r) \/ Lost(r)
    PROVE  WebInv'
<1>0. WebTyped /\ StatesApart /\ UsedLeaves /\ StateOnce /\ None \notin States
  BY LoginAssumption DEF WebInv
<1>1. /\ pc'[r] = "idle" /\ OthersWait(r) /\ UNCHANGED <<issued, known, used, twice>>
      /\ browser' \in [Requests -> Browsers \union {None}]
      /\ state' \in [Requests -> States \union {None}]
      /\ sent' \in [Requests -> States \union {None}]
  BY <1>0, ForgetWeb DEF Arrive, Lost
<1>2. /\ \A c \in Browsers : cookie'[c] \in {cookie[c], None}
      /\ cookie' \in [Browsers -> States \union {None}]
      /\ repeated \subseteq repeated' /\ repeated' \subseteq States
  BY <1>0 DEF WebTyped, Arrive, Lost, Popped
<1>3. WebTyped'
  BY <1>0, <1>1, <1>2 DEF WebTyped
<1>4. StatesApart'
  BY <1>0, <1>1, <1>2 DEF StatesApart, OthersWait
<1>5. UsedLeaves'
  <2> SUFFICES ASSUME NEW c \in Browsers, cookie'[c] \in used', cookie'[c] \notin repeated'
               PROVE  \E o \in Requests : /\ pc'[o] \in Handling /\ browser'[o] = c
                                          /\ state'[o] = cookie'[c] /\ sent'[o] = cookie'[c]
    BY DEF UsedLeaves
  <2>1. cookie'[c] = cookie[c] /\ cookie[c] \in used /\ cookie[c] # None
    BY <1>0, <1>1, <1>2 DEF WebTyped
  <2>2. PICK o \in Requests : /\ pc[o] \in Handling /\ browser[o] = c
                              /\ state[o] = cookie[c] /\ sent[o] = cookie[c]
    BY <1>0, <1>2, <2>1 DEF UsedLeaves
  <2>3. o # r
    <3>1. CASE Arrive(r)
      <4>1. sent[r] # None => cookie'[browser[r]] = None \/ browser[r] \notin Browsers
        BY <1>0, <3>1 DEF Arrive, Popped, WebTyped
      <4>2. QED
        BY <2>1, <2>2, <4>1
    <3>2. CASE Lost(r)
      BY <2>1, <2>2, <3>2 DEF Lost
    <3>3. QED
      BY <3>1, <3>2
  <2>4. QED
    BY <1>1, <2>1, <2>2, <2>3 DEF OthersWait
<1>6. QED
  BY <1>0, <1>1, <1>2, <1>3, <1>4, <1>5 DEF WebInv, StateOnce

-----------------------------------------------------------------------------
(* The theorems *)

\* Every request is always somewhere in its handler.
LEMMA PlacesStep ==
    ASSUME PlacesTyped, NEW r \in Requests,
           \/ \E b \in Browsers, s \in States : Authorize(r, b, s)
           \/ \E b \in Browsers, s \in States \union {None} : Callback(r, b, s)
           \/ Redirected(r)
           \/ \E i \in Identities, n \in Names : Exchange(r, i, n)
           \/ ExchangeFails(r) \/ Inspect(r) \/ CreateProfile(r) \/ Arrive(r) \/ Lost(r)
    PROVE  PlacesTyped'
  BY DEF PlacesTyped, Authorize, Callback, Redirected, Exchange, ExchangeFails, Inspect,
         CreateProfile, Arrive, Lost, Forget, Goto

\* Every action preserves the inductive invariant.
THEOREM InductiveStep == IInv /\ [Next]_vars => IInv'
<1> SUFFICES ASSUME PlacesTyped, ProfileInv, WebInv, [Next]_vars PROVE IInv'
  BY DEF IInv
<1>1. ASSUME NEW r \in Requests,
             \/ \E b \in Browsers, s \in States : Authorize(r, b, s)
             \/ \E b \in Browsers, s \in States \union {None} : Callback(r, b, s)
             \/ Redirected(r) \/ Arrive(r) \/ Lost(r)
      PROVE  IInv'
  <2>1. PlacesTyped'
    BY <1>1, PlacesStep
  <2>2. ProfileInv'
    BY <1>1, OutsideStep, ArriveKeepsProfiles
  <2>3. WebInv'
    BY <1>1, AuthorizeKeepsWeb, CallbackKeepsWeb, RedirectedKeepsWeb, EndKeepsWeb
  <2>4. QED
    BY <2>1, <2>2, <2>3 DEF IInv
<1>2. ASSUME NEW r \in Requests,
             \/ \E i \in Identities, n \in Names : Exchange(r, i, n)
             \/ ExchangeFails(r) \/ Inspect(r) \/ CreateProfile(r)
      PROVE  IInv'
  <2>1. PlacesTyped'
    BY <1>2, PlacesStep
  <2>2. ProfileInv'
    BY <1>2, OutsideStep, ExchangeKeepsProfiles, InspectKeepsProfiles, CreateProfileKeepsProfiles
  <2>3. WebInv'
    BY <1>2, LookupStep
  <2>4. QED
    BY <2>1, <2>2, <2>3 DEF IInv
<1>3. ASSUME NEW n \in LocalNames, CreateLocal(n)
      PROVE  IInv'
  BY <1>3, CreateLocalKeepsProfiles, LookupStep DEF IInv, PlacesTyped, CreateLocal
<1>4. CASE UNCHANGED vars
  <2>1. PlacesTyped' /\ WebInv'
    BY <1>4, WebFrame DEF vars, local, history, PlacesTyped
  <2>2. ProfileInv'
    BY <1>4, Parts DEF vars, web, profile, local, history, ProfileInv, StoreTyped, LookupTyped,
       InHand, OverlapsRecorded, ScanHolds, StaysStored, AnswersMade, ReusedUnlessDisturbed,
       ToldOwn, Stored
  <2>3. QED
    BY <2>1, <2>2 DEF IInv
<1>5. QED
  BY <1>1, <1>2, <1>3, <1>4 DEF Next

\* The types and all that the properties rest on hold in every reachable state.
THEOREM InductiveInvariant == Spec => []IInv
<1>1. Init => IInv
  <2> SUFFICES ASSUME Init PROVE IInv
    OBVIOUS
  <2> USE LoginAssumption DEF Init, IInv
  <2>1. PlacesTyped /\ WebInv
    BY DEF PlacesTyped, WebInv, WebTyped, StatesApart, UsedLeaves, StateOnce
  <2>2. Stored = {}
    BY DEF Stored
  <2>3. StoreTyped /\ LookupTyped
    BY <2>2 DEF StoreTyped, LookupTyped, Profiles
  <2>4. InHand /\ OverlapsRecorded /\ ScanHolds /\ AnswersMade
    BY DEF InHand, OverlapsRecorded, ScanHolds, AnswersMade
  <2>5. StaysStored /\ ReusedUnlessDisturbed /\ ToldOwn
    BY DEF StaysStored, ReusedUnlessDisturbed, ToldOwn
  <2>6. QED
    BY <2>1, <2>3, <2>4, <2>5 DEF ProfileInv
<1>2. QED
  BY <1>1, InductiveStep, PTL DEF Spec

\* Every variable keeps its type; each name in the store has a profile.
THEOREM TypeCorrect == Spec => []TypeOK
<1>1. IInv => TypeOK
  BY DEF IInv, ProfileInv, WebInv, TypeOK
<1>2. QED
  BY <1>1, InductiveInvariant, PTL

\* A second profile of a subject needs overlapping callbacks or a namesake.
THEOREM ProfilesAreReused == Spec => []ReusedUnlessDisturbed
<1>1. IInv => ReusedUnlessDisturbed
  BY DEF IInv, ProfileInv
<1>2. QED
  BY <1>1, InductiveInvariant, PTL

\* Nobody is logged in with somebody else's profile, but for those without sub.
THEOREM ProfilesAreOwn == Spec => []OwnProfile
<1>1. IInv => OwnProfile
  <2>1. SUFFICES ASSUME ToldOwn, NEW i \in Identities, NEW j \in Identities, i # j,
                        NEW p \in told[i], p \in told[j]
                 PROVE  {i, j} \subseteq Unnamed
    BY DEF IInv, ProfileInv, OwnProfile
  <2>2. Sub(i) = Sub(j)
    BY <2>1 DEF ToldOwn
  <2>3. QED
    BY <2>1, <2>2, LoginAssumption DEF Sub
<1>2. QED
  BY <1>1, InductiveInvariant, PTL

\* A state is let through again only on a repeated exchange or one that was lost.
THEOREM StatesServeOnce == Spec => []StateOnce
<1>1. IInv => StateOnce
  BY DEF IInv, WebInv
<1>2. QED
  BY <1>1, InductiveInvariant, PTL
==============================================================================
