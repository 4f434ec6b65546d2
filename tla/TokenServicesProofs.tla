------------------------ MODULE TokenServicesProofs ------------------------
(***************************************************************************)
(* Proofs about TokenServices for any number of threads, users, ids and    *)
(* tokens. Tokens are only issued, blacklists only grow, and an account    *)
(* keeps its id, so that what was recorded of a request stays justified.   *)
(***************************************************************************)
EXTENDS TokenServices, TLAPS

\* Logins and renewals: whatever tokens a step issues, it keeps the invariant
\* if they name the role for users that have it or were granted it only, and if
\* those with the Node service's own secret go to active users for one lifetime.
LEMMA Issuing ==
  ASSUME IInv,
         NEW K \in SUBSET Unissued,
         token' \in [Tokens -> Claims \cup {None}],
         granted' \in [Tokens -> Roles],
         \A j \in Tokens \ K : token'[j] = token[j] /\ granted'[j] = granted[j],
         \A j \in K :
           /\ token'[j] \in Claims
           /\ token'[j].roles = "admin" => token'[j].sub \in Admins \/ granted'[j] = "admin"
           /\ NodeApart /\ token'[j].secret = Secret["node"] =>
                token'[j].sub \in active /\ token'[j].exp <= clock + Life,
         UNCHANGED <<running, clock, blacklist, accounts, threads, answers>>
  PROVE  IInv'
<1> USE DEF IInv, accounts, threads, answers, Unissued, Issued
<1>1. TypeOK'
  BY DEF TypeOK
<1>2. RolesTrue'
  BY DEF RolesTrue, HasRole
<1>3. RequestsOK'
  BY DEF RequestsOK, TypeOK
<1>4. TokensFade'
  <2>1. SUFFICES ASSUME NodeApart, NEW k \in Tokens, token'[k] # None, Signed("node", k)'
                 PROVE  /\ idOf[token'[k].sub] \in UserIds
                        /\ token'[k].exp <= clock + Life
                        /\ \A i \in UserIds \ SharedIds :
                             idOf[token'[k].sub] = i /\ disabledAt[i] # None
                               => token'[k].exp <= disabledAt[i] + Life
    BY DEF TokensFade, SharedIds, NodeApart
  <2>2. CASE k \in K
    BY <2>1, <2>2 DEF Signed, TypeOK, DisabledStay, Claims
  <2>3. CASE k \notin K
    BY <2>1, <2>3 DEF Signed, TokensFade
  <2>4. QED
    BY <2>2, <2>3
<1>5. DisabledStay'
  BY DEF DisabledStay, SharedIds
<1>6. LogoutEnforced' /\ RolesTraced' /\ DisabledFadesOut'
  BY DEF LogoutEnforced, RolesTraced, DisabledFadesOut, SharedIds, NodeApart
<1>7. QED
  BY <1>1, <1>2, <1>3, <1>4, <1>5, <1>6

\* The claims of the tokens of a user.
LEMMA AccessClaims ==
  ASSUME TypeOK, NEW s \in Services, NEW n \in Names, NEW roles \in Roles
  PROVE  /\ Access(s, n, roles) \in Claims
         /\ Access(s, n, roles).secret = Secret[s]
         /\ Access(s, n, roles).sub = n
         /\ Access(s, n, roles).roles = roles
         /\ Access(s, n, roles).exp = clock + Life
  BY ServicesAssumption DEF TypeOK, Access, Claims

LEMMA RefreshClaims ==
  ASSUME TypeOK, NEW s \in Services, NEW n \in Names
  PROVE  /\ Refresh(s, n) \in Claims
         /\ Refresh(s, n).secret = Secret[s]
         /\ Refresh(s, n).roles = "none"
  BY ServicesAssumption DEF TypeOK, Refresh, Claims, Roles

\* Issuing one token.
LEMMA IssuingOne ==
  ASSUME IInv,
         NEW c \in Claims, NEW from \in Roles,
         IssueOne(c, from),
         c.roles = "admin" => c.sub \in Admins \/ from = "admin",
         NodeApart /\ c.secret = Secret["node"] => c.sub \in active /\ c.exp <= clock + Life,
         UNCHANGED <<running, clock, blacklist, accounts, threads, answers>>
  PROVE  IInv'
<1>1. PICK k \in Unissued : /\ token' = [token EXCEPT ![k] = c]
                            /\ granted' = [granted EXCEPT ![k] = from]
  BY DEF IssueOne
<1>2. /\ token' \in [Tokens -> Claims \cup {None}] /\ token'[k] = c
      /\ granted' \in [Tokens -> Roles] /\ granted'[k] = from
  BY <1>1 DEF IInv, TypeOK, Unissued
<1>3. \A j \in Tokens \ {k} : token'[j] = token[j] /\ granted'[j] = granted[j]
  BY <1>1 DEF IInv, TypeOK
<1>4. {k} \in SUBSET Unissued
  OBVIOUS
<1>5. QED
  BY <1>2, <1>3, <1>4, Issuing

\* Issuing a pair of the auth service, whose tokens are no secret's but its own.
LEMMA IssuingPair ==
  ASSUME IInv,
         NEW n \in Names, NEW roles \in Roles,
         IssuePair("auth", n, roles),
         UNCHANGED <<running, clock, blacklist, accounts, threads, answers>>
  PROVE  IInv'
<1> DEFINE access == Access("auth", n, roles)
           refresh == Refresh("auth", n)
<1>1. PICK k, r \in Unissued :
        /\ k # r
        /\ token' = [token EXCEPT ![k] = access, ![r] = refresh]
        /\ granted' = [granted EXCEPT ![k] = roles, ![r] = roles]
  BY DEF IssuePair
<1>2. TypeOK /\ "auth" \in Services
  BY DEF IInv, Services
<1>3. /\ access \in Claims /\ access.secret = Secret["auth"]
      /\ access.sub = n /\ access.roles = roles
  BY <1>2, AccessClaims
<1>4. refresh \in Claims /\ refresh.secret = Secret["auth"] /\ refresh.roles = "none"
  BY <1>2, RefreshClaims
<1> HIDE DEF access, refresh
<1>5. /\ token' \in [Tokens -> Claims \cup {None}]
      /\ token'[k] = access /\ token'[r] = refresh
      /\ granted' \in [Tokens -> Roles]
      /\ granted'[k] = roles /\ granted'[r] = roles
  BY <1>1, <1>2, <1>3, <1>4 DEF TypeOK, Unissued
<1>6. \A j \in Tokens \ {k, r} : token'[j] = token[j] /\ granted'[j] = granted[j]
  BY <1>1, <1>2 DEF TypeOK
<1>7. {k, r} \in SUBSET Unissued
  OBVIOUS
<1>8. NodeApart => Secret["auth"] # Secret["node"]
  BY DEF NodeApart, Services
<1>9. \A j \in {k, r} :
        /\ token'[j] \in Claims
        /\ token'[j].roles = "admin" => granted'[j] = "admin"
        /\ NodeApart => token'[j].secret # Secret["node"]
  BY <1>3, <1>4, <1>5, <1>8
<1>10. QED
  BY <1>5, <1>6, <1>7, <1>9, Issuing

\* The roles of a name are those get_user_roles has for it.
LEMMA RolesOfName ==
  ASSUME NEW n \in Names
  PROVE  RolesOf(n) \in Roles /\ (RolesOf(n) = "admin" <=> n \in Admins)
  BY DEF RolesOf, Roles

\* The steps that issue tokens.
LEMMA LoginStep ==
  ASSUME IInv, NEW n \in Names,
         \/ \E s \in Python : Login(s, n)
         \/ LoginPair(n) \/ CreateSession(n) \/ AuthenticateUser(n)
  PROVE  IInv'
<1>1. TypeOK
  BY DEF IInv
<1>2. ASSUME NEW s \in Python, Login(s, n) PROVE IInv'
  <2>1. s \in Services /\ (NodeApart => Secret[s] # Secret["node"])
    BY DEF Python, Services, NodeApart
  <2>2. QED
    BY <1>1, <1>2, <2>1, RolesOfName, AccessClaims, IssuingOne DEF Login
<1>3. CASE LoginPair(n)
  BY <1>3, RolesOfName, IssuingPair DEF LoginPair
<1>4. CASE CreateSession(n)
  <2>1. PICK roles \in Roles : IssuePair("auth", n, roles)
    BY <1>4 DEF CreateSession
  <2>2. QED
    BY <1>4, <2>1, IssuingPair DEF CreateSession
<1>5. CASE AuthenticateUser(n)
  <2>1. "node" \in Services /\ "none" \in Roles
    BY DEF Services, Roles
  <2>2. n \in active /\ clock + Life <= clock + Life
    BY <1>1, <1>5, ServicesAssumption DEF AuthenticateUser, TypeOK
  <2>3. QED
    BY <1>1, <1>5, <2>1, <2>2, AccessClaims, IssuingOne DEF AuthenticateUser
<1>6. QED
  BY <1>2, <1>3, <1>4, <1>5

\* A renewed token names the role if the old one did, or by its name.
LEMMA RefreshStep ==
  ASSUME IInv, NEW k \in Tokens, RefreshToken(k)
  PROVE  IInv'
<1>1. TypeOK /\ token[k] \in Claims /\ k \in Issued
  BY DEF IInv, TypeOK, RefreshToken, Signed, Issued, Unissued
<1>2. token[k].sub \in Names /\ token[k].roles \in Roles /\ granted[k] \in Roles
  BY <1>1 DEF Claims, TypeOK
<1>3. RolesAfter(k) \in Roles
  BY <1>2, RolesOfName DEF RolesAfter
<1>4. RolesAfter(k) = "admin" => token[k].sub \in Admins \/ granted[k] = "admin"
  BY <1>1, <1>2, RolesOfName DEF IInv, RolesTrue, HasRole, RolesAfter
<1>5. "auth" \in Services /\ (NodeApart => Secret["auth"] # Secret["node"])
  BY DEF Services, NodeApart
<1>6. QED
  BY <1>1, <1>2, <1>3, <1>4, <1>5, AccessClaims, IssuingOne DEF RefreshToken

-----------------------------------------------------------------------------

LEMMA TickStep == ASSUME IInv, Tick PROVE IInv'
<1> USE ServicesAssumption DEF IInv, Tick, issuing, accounts, threads, answers, Issued, Unissued
<1>1. TypeOK'
  BY DEF TypeOK
<1>2. TokensFade'
  BY SMTT(20) DEF TokensFade, Signed, NodeApart, SharedIds, TypeOK, Claims
<1>3. RolesTrue' /\ RequestsOK' /\ DisabledStay'
  BY DEF RolesTrue, HasRole, RequestsOK, DisabledStay, SharedIds
<1>4. LogoutEnforced' /\ RolesTraced' /\ DisabledFadesOut'
  BY DEF LogoutEnforced, RolesTraced, DisabledFadesOut, NodeApart, SharedIds
<1>5. QED
  BY <1>1, <1>2, <1>3, <1>4

\* Steps of a request: they leave users, deactivations and tokens alone, and what
\* they record as admitted is no mistake, or one of "platform".
LEMMA Requesting ==
  ASSUME IInv,
         TypeOK', RequestsOK',
         \A a \in admitted' \ admitted : a.fault = "late" /\ a.at = "platform",
         UNCHANGED <<running, clock, issuing, accounts, disabledAt>>
  PROVE  IInv'
<1> USE DEF IInv, issuing, accounts, Issued, Unissued
<1>1. RolesTrue' /\ TokensFade' /\ DisabledStay'
  BY DEF RolesTrue, HasRole, TokensFade, Signed, NodeApart, DisabledStay, SharedIds
<1>2. LogoutEnforced' /\ RolesTraced' /\ DisabledFadesOut'
  BY DEF LogoutEnforced, RolesTraced, DisabledFadesOut, NodeApart, SharedIds
<1>3. QED
  BY <1>1, <1>2

LEMMA ThreadStep ==
  ASSUME IInv, NEW t \in Threads,
         \/ \E s \in Python, k \in Tokens : Arrive(t, s, k)
         \/ TokenMiddleware(t) \/ AuthMiddleware(t) \/ Decode(t)
         \/ Lookup(t) \/ Revoke(t) \/ Answer(t)
  PROVE  IInv'
<1> USE DEF IInv, issuing, accounts, answers, Issued, Unissued, TypeOK, RequestsOK
<1>1. ASSUME NEW s \in Python, NEW k \in Tokens, Arrive(t, s, k)
      PROVE  IInv'
  <2>1. TypeOK'
    BY <1>1 DEF Arrive
  <2>2. RequestsOK'
    BY <1>1 DEF Arrive
  <2>3. QED
    BY <1>1, <2>1, <2>2, Requesting DEF Arrive
<1>2. CASE TokenMiddleware(t)
  <2>1. TypeOK' /\ RequestsOK'
    BY <1>2 DEF TokenMiddleware, Goes
  <2>2. QED
    BY <1>2, <2>1, Requesting DEF TokenMiddleware
<1>3. CASE AuthMiddleware(t)
  <2>1. held[t] \in Tokens /\ token[held[t]] \in Claims
    BY <1>3 DEF AuthMiddleware
  <2>2. admitted' \subseteq [sub : Names, at : Services, fault : Faults]
    BY <1>3, <2>1 DEF AuthMiddleware, Admit, LateFault, Claims, Faults, Services
  <2>3. TypeOK' /\ RequestsOK'
    <3>1. UNCHANGED <<running, clock, issuing, blacklist, accounts, loggedOut, disabledAt>>
      BY <1>3 DEF AuthMiddleware
    <3>2. pc[t] = "middleware" /\ at[t] = "platform" /\ (Goes(t, "revoke") \/ Goes(t, "idle"))
      BY <1>3 DEF AuthMiddleware
    <3>3. TypeOK'
      BY <2>2, <3>1, <3>2 DEF Goes
    <3>4. RequestsOK'
      <4>1. CASE Goes(t, "revoke")
        BY <3>1, <3>2, <4>1 DEF Goes
      <4>2. CASE Goes(t, "idle")
        BY <3>1, <4>2 DEF Goes
      <4>3. QED
        BY <3>2, <4>1, <4>2
    <3>5. QED
      BY <3>3, <3>4
  <2>4. \A a \in admitted' \ admitted : a.fault = "late" /\ a.at = "platform"
    BY <1>3 DEF AuthMiddleware, Admit, LateFault
  <2>5. QED
    BY <1>3, <2>3, <2>4, Requesting DEF AuthMiddleware
<1>4. CASE Decode(t)
  <2>1. at[t] = "flask"
    BY <1>4 DEF Decode
  <2>2. TypeOK' /\ RequestsOK'
    BY <1>4, <2>1 DEF Decode, Goes
  <2>3. QED
    BY <1>4, <2>2, Requesting DEF Decode
<1>5. CASE Lookup(t)
  <2>1. admitted' = admitted
    <3>1. at[t] = "flask" /\ "flask" \in Services
      BY <1>5 DEF Lookup, Services
    <3>2. t \in late => held[t] \in blacklist["flask"]
      BY <3>1
    <3>3. QED
      BY <1>5, <3>2 DEF Lookup, Revoked, Admit, LateFault
  <2>2. TypeOK' /\ RequestsOK'
    BY <1>5, <2>1 DEF Lookup, Goes
  <2>3. QED
    BY <1>5, <2>1, <2>2, Requesting DEF Lookup
<1>6. CASE Revoke(t)
  <2>1. at[t] \in Services /\ held[t] \in Tokens /\ token[held[t]] # None
    BY <1>6 DEF Revoke, Python, Services
  <2>2. \A s \in Services :
          blacklist'[s] = IF s = at[t] THEN blacklist[s] \cup {held[t]} ELSE blacklist[s]
    BY <1>6, <2>1 DEF Revoke, Blacklisted
  <2>3. TypeOK'
    BY <1>6, <2>1, <2>2 DEF Revoke, Goes, Blacklisted
  <2>4. RequestsOK'
    BY <1>6, <2>1, <2>2 DEF Revoke, Goes, Python, Services
  <2>5. QED
    BY <1>6, <2>3, <2>4, Requesting DEF Revoke
<1>7. CASE Answer(t)
  <2>1. at[t] \in Services /\ held[t] \in blacklist[at[t]]
    BY <1>7 DEF Answer, Python, Services
  <2>2. \A s \in Services :
          loggedOut'[s] = IF s = at[t] THEN loggedOut[s] \cup {held[t]} ELSE loggedOut[s]
    BY <1>7, <2>1 DEF Answer
  <2>3. TypeOK'
    <3>1. loggedOut' \in [Services -> SUBSET Tokens]
      BY <1>7, <2>1 DEF Answer
    <3>2. \A s \in Services : loggedOut'[s] \subseteq blacklist[s]
      <4>1. \A s \in Services : loggedOut[s] \subseteq blacklist[s]
        OBVIOUS
      <4> HIDE DEF IInv
      <4>2. QED
        BY <2>1, <2>2, <4>1
    <3>3. UNCHANGED <<running, clock, issuing, blacklist, accounts, disabledAt, admitted>>
      BY <1>7 DEF Answer
    <3>4. /\ pc' = [pc EXCEPT ![t] = "idle"] /\ at' = [at EXCEPT ![t] = None]
          /\ held' = [held EXCEPT ![t] = None] /\ late' = late \ {t}
      BY <1>7 DEF Answer, Goes
    <3>5. /\ at' \in [Threads -> Python \cup {None}] /\ held' \in [Threads -> Tokens \cup {None}]
          /\ late' \subseteq Threads
      BY <3>4
    <3>6. pc' \in [Threads -> {"idle", "middleware", "route", "lookup", "revoke", "answer"}]
      BY <3>4
    <3>7. QED
      BY <3>1, <3>2, <3>3, <3>5, <3>6
  <2>4. RequestsOK'
    BY <1>7, <2>1, <2>2 DEF Answer, Goes, Python, Services
  <2>5. QED
    BY <1>7, <2>3, <2>4, Requesting DEF Answer
<1>8. QED
  BY <1>1, <1>2, <1>3, <1>4, <1>5, <1>6, <1>7

\* The role guard lets nobody through without the role.
LEMMA ProtectedStep == ASSUME IInv, NEW k \in Tokens, Protected(k) PROVE IInv'
<1>1. k \in Issued /\ (token[k].sub \in Admins \/ granted[k] = "admin")
  BY DEF IInv, RolesTrue, Protected, Decodes, Signed, Issued, Unissued
<1>2. admitted' = admitted
  BY <1>1 DEF Protected, Admit
<1>3. TypeOK' /\ RequestsOK'
  BY <1>2 DEF IInv, TypeOK, RequestsOK, Protected, issuing, accounts, threads, Issued, Unissued
<1>4. QED
  BY <1>2, <1>3, Requesting DEF Protected

-----------------------------------------------------------------------------
(* The Node service                                                        *)

LEMMA RegisterStep ==
  ASSUME IInv, NEW n \in Names, NEW i \in UserIds, Register(n, i)
  PROVE  IInv'
<1> USE ServicesAssumption DEF Register, issuing, threads, answers, Issued, Unissued
<1>1. TypeOK
  BY DEF IInv
<1>2. n \notin ToSet(order) /\ order' = Append(order, n)
  BY <1>1 DEF TypeOK, Taken
<1>3. /\ \A m \in Names : m # n => idOf'[m] = idOf[m]
      /\ idOf[n] = None /\ idOf'[n] = i
  BY <1>1 DEF TypeOK, Taken
<1>4. order' \in Seq(Names) /\ IsInjective(order') /\ ToSet(order') = ToSet(order) \cup {n}
  <2>1. order \in Seq(Names) /\ order' \in Seq(Names) /\ IsInjective(order)
    BY <1>1, <1>2 DEF TypeOK
  <2>2. /\ DOMAIN order = 1 .. Len(order) /\ Len(order) \in Nat
        /\ DOMAIN order' = 1 .. Len(order) + 1
        /\ \A p \in 1 .. Len(order) : order'[p] = order[p]
        /\ order'[Len(order) + 1] = n
    BY <1>2, <2>1
  <2>3. \A p \in 1 .. Len(order) : order[p] # n
    BY <1>2, <2>2 DEF ToSet
  <2>4. IsInjective(order')
    BY <2>1, <2>2, <2>3 DEF IsInjective
  <2>5. ToSet(order') = ToSet(order) \cup {n}
    BY <2>2 DEF ToSet
  <2>6. QED
    BY <2>1, <2>4, <2>5
<1>5. TypeOK'
  BY <1>1, <1>3, <1>4 DEF TypeOK
<1>6. SharedIds \subseteq SharedIds'
  BY <1>3 DEF SharedIds
<1>7. TokensFade'
  <2>1. \A k \in Issued :
          NodeApart /\ Signed("node", k) => idOf'[token[k].sub] = idOf[token[k].sub]
    BY <1>1, <1>3 DEF IInv, TokensFade, TypeOK, Claims
  <2>2. QED
    BY <1>6, <2>1 DEF IInv, TokensFade, Signed, NodeApart
<1>8. DisabledStay'
  <2>1. SUFFICES ASSUME NEW j \in UserIds, disabledAt[j] # None
                 PROVE  /\ \E m \in Names : idOf'[m] = j
                        /\ j \notin SharedIds' => \A m \in active' : idOf'[m] # j
    BY DEF DisabledStay
  <2>2. PICK m \in Names : idOf[m] = j
    BY <2>1 DEF IInv, DisabledStay
  <2>3. m # n /\ idOf'[m] = j
    BY <1>3, <2>2
  <2>4. i = j => j \in SharedIds'
    BY <1>3, <2>3 DEF SharedIds
  <2>5. \A l \in active : l \in Names
    BY <1>1 DEF TypeOK, ToSet
  <2>6. QED
    BY <1>3, <1>6, <2>1, <2>3, <2>4, <2>5 DEF IInv, DisabledStay
<1>9. RolesTrue' /\ RequestsOK' /\ LogoutEnforced' /\ RolesTraced'
  BY DEF IInv, RolesTrue, HasRole, RequestsOK, LogoutEnforced, RolesTraced
<1>10. DisabledFadesOut'
  BY <1>1, <1>3, <1>6 DEF IInv, DisabledFadesOut, NodeApart, TypeOK, SharedIds
<1>11. QED
  BY <1>5, <1>7, <1>8, <1>9, <1>10 DEF IInv

\* What requireAuth lets through: a token that was not logged out, and no
\* overdue one but of an account that shares its id.
LEMMA Guarded ==
  ASSUME IInv, NEW k \in Tokens, RequireAuth(k)
  PROVE  /\ k \in Issued \ blacklist["node"]
         /\ admitted' \subseteq [sub : Names, at : Services, fault : Faults]
         /\ \A a \in admitted' \ admitted :
              /\ a.fault = "overdue"
              /\ NodeApart => idOf[a.sub] \in SharedIds
<1>1. /\ k \in Issued \ blacklist["node"]
      /\ token[k] \in Claims /\ clock < token[k].exp /\ Signed("node", k)
  BY DEF IInv, TypeOK, RequireAuth, Valid, Decodes, Signed, Revoked, Issued, Unissued
<1>2. k \notin loggedOut["node"] /\ "node" \in Services
  BY <1>1 DEF IInv, TypeOK, Services
<1>3. NodeApart /\ Overdue(k) => idOf[token[k].sub] \in SharedIds
  <2>1. SUFFICES ASSUME NodeApart,
                        NEW i \in UserIds, idOf[token[k].sub] = i, i \notin SharedIds,
                        disabledAt[i] # None, clock >= disabledAt[i] + Life
                 PROVE  FALSE
    BY DEF Overdue
  <2>2. token[k].exp <= disabledAt[i] + Life
    BY <1>1, <2>1 DEF IInv, TokensFade
  <2>3. QED
    BY <1>1, <2>1, <2>2, ServicesAssumption DEF IInv, TypeOK, Claims
<1>4. DEFINE F == {f \in Faults : \/ f = "late" /\ k \in loggedOut["node"]
                                  \/ f = "overdue" /\ Overdue(k)}
<1>5. admitted' = admitted \cup [sub : {token[k].sub}, at : {"node"}, fault : F]
  BY DEF RequireAuth, Admit
<1>6. F \subseteq Faults /\ \A f \in F : f = "overdue" /\ Overdue(k)
  BY <1>2
<1>7. token[k].sub \in Names
  BY <1>1 DEF Claims
<1>8. admitted \subseteq [sub : Names, at : Services, fault : Faults]
  BY DEF IInv, TypeOK
<1>9. QED
  <2> HIDE DEF F
  <2>1. QED
    BY <1>1, <1>2, <1>3, <1>5, <1>6, <1>7, <1>8

LEMMA GuardedStep ==
  ASSUME IInv, NEW k \in Tokens, GetUser(k) \/ RevokeToken(k)
  PROVE  IInv'
<1> USE DEF issuing, accounts, threads, Issued, Unissued
<1>1. RequireAuth(k) /\ "node" \in Services
  BY DEF GetUser, RevokeToken, Services
<1>2. UNCHANGED <<running, clock, issuing, order, idOf, active, pc, at, held, late, disabledAt>>
  BY DEF GetUser, RevokeToken
<1>3. TypeOK
  BY DEF IInv
<1>4. /\ blacklist' \in [Services -> SUBSET Tokens] /\ loggedOut' \in [Services -> SUBSET Tokens]
      /\ \A s \in Services :
           /\ blacklist[s] \subseteq blacklist'[s] /\ blacklist'[s] \subseteq blacklist[s] \cup {k}
           /\ loggedOut[s] \subseteq loggedOut'[s]
           /\ loggedOut'[s] \subseteq loggedOut[s] \cup (blacklist'[s] \cap {k})
  <2>1. CASE GetUser(k)
    BY <1>3, <2>1 DEF GetUser, TypeOK
  <2>2. CASE RevokeToken(k)
    <3>1. /\ blacklist' = [blacklist EXCEPT !["node"] = @ \cup {k}]
          /\ loggedOut' = [loggedOut EXCEPT !["node"] = @ \cup {k}]
      BY <2>2 DEF RevokeToken, Blacklisted
    <3>2. \A s \in Services :
            /\ blacklist[s] \subseteq Tokens /\ loggedOut[s] \subseteq Tokens
            /\ blacklist'[s] = IF s = "node" THEN blacklist[s] \cup {k} ELSE blacklist[s]
            /\ loggedOut'[s] = IF s = "node" THEN loggedOut[s] \cup {k} ELSE loggedOut[s]
      BY <1>3, <3>1 DEF TypeOK
    <3>3. /\ blacklist' \in [Services -> SUBSET Tokens]
          /\ loggedOut' \in [Services -> SUBSET Tokens]
      BY <1>1, <1>3, <3>1 DEF TypeOK
    <3>4. QED
      BY <3>2, <3>3
  <2>3. QED
    BY <2>1, <2>2
<1>5. TypeOK'
  BY <1>1, <1>2, <1>3, <1>4, Guarded DEF TypeOK
<1>6. RolesTrue' /\ TokensFade' /\ DisabledStay'
  BY <1>2 DEF IInv, RolesTrue, HasRole, TokensFade, Signed, NodeApart, DisabledStay, SharedIds
<1>7. RequestsOK'
  BY <1>2, <1>3, <1>4 DEF IInv, RequestsOK, TypeOK, Python, Services
<1>8. LogoutEnforced' /\ RolesTraced' /\ DisabledFadesOut'
  BY <1>1, <1>2, Guarded
     DEF IInv, LogoutEnforced, RolesTraced, DisabledFadesOut, NodeApart, SharedIds
<1>9. QED
  BY <1>5, <1>6, <1>7, <1>8 DEF IInv

\* The first account with an id is the only one, unless it shares the id.
LEMMA DeactivateStep ==
  ASSUME IInv, NEW k \in Tokens, NEW i \in UserIds, DeactivateUser(k, i)
  PROVE  IInv'
<1> USE ServicesAssumption DEF issuing, threads, Issued, Unissued
<1>1. /\ RequireAuth(k)
      /\ disabledAt' = [disabledAt EXCEPT ![i] = IF @ = None THEN clock ELSE @]
      /\ UNCHANGED <<running, clock, issuing, blacklist, order, idOf, threads, loggedOut>>
  BY DEF DeactivateUser
<1>2. PICK p \in DOMAIN order : idOf[order[p]] = i /\ active' = active \ {order[p]}
  BY DEF DeactivateUser
<1>3. TypeOK /\ order[p] \in Names
  BY DEF IInv, TypeOK
<1>4. /\ disabledAt'[i] = IF disabledAt[i] = None THEN clock ELSE disabledAt[i]
      /\ \A j \in UserIds : j # i => disabledAt'[j] = disabledAt[j]
      /\ disabledAt' \in [UserIds -> 0 .. MaxClock \cup {None}]
  BY <1>1, <1>3 DEF TypeOK
<1>5. TypeOK'
  BY <1>1, <1>2, <1>3, <1>4, Guarded DEF TypeOK
<1>6. TokensFade'
  BY <1>1, <1>3, <1>4 DEF IInv, TokensFade, Signed, NodeApart, SharedIds
<1>7. DisabledStay'
  <2>1. i \notin SharedIds => \A n \in Names : idOf[n] = i => n = order[p]
    BY <1>2, <1>3 DEF SharedIds
  <2>2. active \subseteq Names /\ active' \subseteq active /\ SharedIds' = SharedIds
    BY <1>1, <1>2, <1>3 DEF TypeOK, ToSet, SharedIds
  <2>3. QED
    BY <1>1, <1>2, <1>3, <1>4, <2>1, <2>2 DEF IInv, DisabledStay
<1>8. RolesTrue' /\ RequestsOK'
  BY <1>1 DEF IInv, RolesTrue, HasRole, RequestsOK
<1>9. LogoutEnforced' /\ RolesTraced' /\ DisabledFadesOut'
  BY <1>1, Guarded
     DEF IInv, LogoutEnforced, RolesTraced, DisabledFadesOut, NodeApart, SharedIds
<1>10. QED
  BY <1>5, <1>6, <1>7, <1>8, <1>9 DEF IInv

-----------------------------------------------------------------------------

LEMMA InductiveStep == ASSUME IInv, [Next]_vars PROVE IInv'
<1>1. CASE Tick
  BY <1>1, TickStep
<1>2. ASSUME NEW n \in Names,
             \/ \E s \in Python : Login(s, n)
             \/ LoginPair(n) \/ CreateSession(n) \/ AuthenticateUser(n)
      PROVE  IInv'
  BY <1>2, LoginStep
<1>3. ASSUME NEW n \in Names, NEW i \in UserIds, Register(n, i)
      PROVE  IInv'
  BY <1>3, RegisterStep
<1>4. ASSUME NEW k \in Tokens, RefreshToken(k) PROVE IInv'
  BY <1>4, RefreshStep
<1>5. ASSUME NEW k \in Tokens, Protected(k) PROVE IInv'
  BY <1>5, ProtectedStep
<1>6. ASSUME NEW k \in Tokens, GetUser(k) \/ RevokeToken(k) PROVE IInv'
  BY <1>6, GuardedStep
<1>7. ASSUME NEW k \in Tokens, NEW i \in UserIds, DeactivateUser(k, i) PROVE IInv'
  BY <1>7, DeactivateStep
<1>8. ASSUME NEW t \in Threads,
             \/ \E s \in Python, k \in Tokens : Arrive(t, s, k)
             \/ TokenMiddleware(t) \/ AuthMiddleware(t) \/ Decode(t)
             \/ Lookup(t) \/ Revoke(t) \/ Answer(t)
      PROVE  IInv'
  BY <1>8, ThreadStep
<1>9. CASE UNCHANGED vars
  BY <1>9
     DEF IInv, vars, issuing, accounts, threads, answers, TypeOK, RolesTrue, HasRole, RequestsOK,
         Issued, Unissued, TokensFade, Signed, NodeApart, DisabledStay, SharedIds, LogoutEnforced,
         RolesTraced, DisabledFadesOut
<1>10. ASSUME NEW k \in Tokens, Refuse(k) PROVE IInv'
  BY <1>9, <1>10 DEF Refuse
<1>11. QED
  BY <1>1, <1>2, <1>3, <1>4, <1>5, <1>6, <1>7, <1>8, <1>9, <1>10 DEF Next

\* The inductive invariant holds initially and so always.
THEOREM InductiveInvariant == Spec => []IInv
<1>1. Init => IInv
  BY ServicesAssumption
     DEF Init, IInv, TypeOK, Roles, ToSet, IsInjective, RolesTrue, RequestsOK, Issued, Unissued,
         TokensFade, DisabledStay, SharedIds, LogoutEnforced, RolesTraced, DisabledFadesOut
<1>2. QED
  BY <1>1, InductiveStep, PTL DEF Spec

\* Users, tokens and requests are of their kinds, and only tokens whose logout
\* is in the blacklist were answered as logged out.
THEOREM TypeCorrect == Spec => []TypeOK
<1>1. IInv => TypeOK
  BY DEF IInv
<1>2. QED
  BY <1>1, InductiveInvariant, PTL

\* Whichever services run together and share a secret, and however many threads:
\* the Flask application and the Node service let no token through to a request
\* that came after they answered its logout.
THEOREM LogoutsHold == Spec => []LogoutEnforced
<1>1. IInv => LogoutEnforced
  BY DEF IInv
<1>2. QED
  BY <1>1, InductiveInvariant, PTL

\* The role guard lets through only names that have the role, and those a session
\* was created for with it, however long the chain of renewals since.
THEOREM RolesHaveOrigin == Spec => []RolesTraced
<1>1. IInv => RolesTraced
  BY DEF IInv
<1>2. QED
  BY <1>1, InductiveInvariant, PTL

\* If no service has the secret of the Node service, a deactivated user of it is
\* gone one token lifetime later, unless accounts share the id.
THEOREM DeactivatedFade == Spec => []DisabledFadesOut
<1>1. IInv => DisabledFadesOut
  BY DEF IInv
<1>2. QED
  BY <1>1, InductiveInvariant, PTL

=============================================================================
