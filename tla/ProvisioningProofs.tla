------------------------ MODULE ProvisioningProofs ------------------------
(***************************************************************************)
(* Proofs about Provisioning for any number of calls and VPCs, any address *)
(* space, any reserved ranges and any number of attempts and faults.       *)
(***************************************************************************)
EXTENDS Provisioning, FiniteSetTheorems, TLAPS

\* Blocks that do not overlap have no address in common.
LEMMA Disjoint ==
  ASSUME NEW n \in Network, NEW r \in Network, ~Overlaps(n, r)
  PROVE  Addresses(n) \cap Addresses(r) = {}
<1>1. n.lo \in Int /\ n.hi \in Int /\ r.lo \in Int /\ r.hi \in Int
  BY ProvisioningAssumption DEF Network
<1>2. SUFFICES ASSUME NEW a \in Addresses(n), a \in Addresses(r) PROVE FALSE
  OBVIOUS
<1>3. a \in Int /\ n.lo <= a /\ a <= n.hi /\ r.lo <= a /\ a <= r.hi
  BY <1>1, <1>2 DEF Addresses
<1>4. n.lo <= r.lo \/ r.lo <= n.lo
  BY <1>1
<1>5. QED
  BY <1>1, <1>3, <1>4 DEF Overlaps, Addresses

\* Masking the host bits of an address leaves a block that ends where the next
\* one of its size begins.
LEMMA Masked ==
  ASSUME NEW top \in Nat, NEW a \in 0 .. top, NEW z \in Nat \ {0}, (top + 1) % z = 0
  PROVE  /\ a - (a % z) \in 0 .. top
         /\ a - (a % z) + z - 1 \in 0 .. top
<1>1. /\ a \in Nat /\ a = z * (a \div z) + (a % z)
      /\ a % z \in 0 .. z - 1 /\ a \div z \in Int
  OBVIOUS
<1>2. top + 1 = z * ((top + 1) \div z) /\ (top + 1) \div z \in Int
  OBVIOUS
<1>3. PICK q \in Int, p \in Int, m \in 0 .. z - 1 :
        a % z = m /\ a = z * q + m /\ top + 1 = z * p
  BY <1>1, <1>2
<1>4. q >= 0
  BY <1>1, <1>3
<1>5. z * q < z * p
  BY <1>3
<1>6. q + 1 <= p
  BY <1>3, <1>5
<1>7. z * (q + 1) <= z * p /\ z * (q + 1) = z * q + z /\ z * q >= 0 /\ z * q \in Int
  BY <1>3, <1>4, <1>6
<1>8. QED
  BY <1>3, <1>7

\* A CIDR text stands for a block of the address space, wherever in it the
\* address lies.
LEMMA NetworkIsBlock ==
  ASSUME NEW c \in Cidrs
  PROVE  NetworkOf(c) \in Network
<1>1. /\ c.address \in 0 .. Top /\ c.size \in Nat \ {0} /\ (Top + 1) % c.size = 0
      /\ Top \in Nat
  BY ProvisioningAssumption DEF Cidrs
<1>2. QED
  BY <1>1, Masked DEF NetworkOf, Network

-----------------------------------------------------------------------------
(* Counting                                                                *)

LEMMA OneMore ==
  ASSUME NEW S, IsFiniteSet(S), NEW x, NEW T, T \subseteq S \cup {x}
  PROVE  IsFiniteSet(T) /\ Cardinality(T) \in Nat /\ Cardinality(T) <= Cardinality(S) + 1
<1>1. IsFiniteSet(S \cup {x}) /\ Cardinality(S) \in Nat
  BY FS_AddElement, FS_CardinalityType
<1>2. Cardinality(S \cup {x}) <= Cardinality(S) + 1
  BY <1>1, FS_AddElement
<1>3. IsFiniteSet(T) /\ Cardinality(T) <= Cardinality(S \cup {x})
  BY <1>1, FS_Subset
<1>4. QED
  BY <1>1, <1>2, <1>3, FS_CardinalityType

LEMMA NoMore ==
  ASSUME NEW S, IsFiniteSet(S), NEW T, T \subseteq S
  PROVE  IsFiniteSet(T) /\ Cardinality(T) \in Nat /\ Cardinality(T) <= Cardinality(S)
  BY FS_Subset, FS_CardinalityType

\* A step leaves at most one thing behind, and that at the cost of a fault.
LEMMA Counted ==
  ASSUME IInv,
         NEW x,
         \/ /\ Orphans' \subseteq Orphans /\ (subnets \ shared)' \subseteq subnets \ shared
            /\ faults' \in {faults, faults + 1}
         \/ /\ Orphans' \subseteq Orphans \cup {x} /\ (subnets \ shared)' \subseteq subnets \ shared
            /\ faults' = faults + 1
         \/ /\ Orphans' \subseteq Orphans /\ (subnets \ shared)' \subseteq (subnets \ shared) \cup {x}
            /\ faults' = faults + 1
  PROVE  Cardinality(Orphans') + Cardinality((subnets \ shared)') <= faults'
<1>1. IsFiniteSet(Orphans) /\ IsFiniteSet(subnets \ shared)
  BY FS_Subset DEF IInv, Countable, Orphans
<1>2. /\ Cardinality(Orphans) \in Nat /\ Cardinality(subnets \ shared) \in Nat /\ faults \in Nat
      /\ Cardinality(Orphans) + Cardinality(subnets \ shared) <= faults
  BY <1>1, FS_CardinalityType, ProvisioningAssumption DEF IInv, OrphansNeedFaults, TypeOK
<1>3. CASE /\ Orphans' \subseteq Orphans /\ (subnets \ shared)' \subseteq subnets \ shared
           /\ faults' \in {faults, faults + 1}
  BY <1>1, <1>2, <1>3, NoMore
<1>4. CASE /\ Orphans' \subseteq Orphans \cup {x} /\ (subnets \ shared)' \subseteq subnets \ shared
           /\ faults' = faults + 1
  <2>1. Cardinality(Orphans') \in Nat /\ Cardinality(Orphans') <= Cardinality(Orphans) + 1
    BY <1>1, <1>4, OneMore
  <2>2. /\ Cardinality((subnets \ shared)') \in Nat
        /\ Cardinality((subnets \ shared)') <= Cardinality(subnets \ shared)
    BY <1>1, <1>4, NoMore
  <2>3. QED
    BY <1>2, <1>4, <2>1, <2>2
<1>5. CASE /\ Orphans' \subseteq Orphans /\ (subnets \ shared)' \subseteq (subnets \ shared) \cup {x}
           /\ faults' = faults + 1
  <2>1. Cardinality(Orphans') \in Nat /\ Cardinality(Orphans') <= Cardinality(Orphans)
    BY <1>1, <1>5, NoMore
  <2>2. /\ Cardinality((subnets \ shared)') \in Nat
        /\ Cardinality((subnets \ shared)') <= Cardinality(subnets \ shared) + 1
    BY <1>1, <1>5, OneMore
  <2>3. QED
    BY <1>2, <1>5, <2>1, <2>2
<1>6. QED
  BY <1>3, <1>4, <1>5

-----------------------------------------------------------------------------
(* Steps of a call                                                         *)

USE DEF Configuring, Existing

\* What is known of a call by the request it is at.
LEMMA JobKinds ==
  ASSUME NEW j \in Jobs
  PROVE  /\ j # Idle => j.block \in Network /\ j.step # "idle" /\ j.tries \in Tries
         /\ j = Idle => j.step = "idle"
         /\ j.step \in Configuring \cup {"subnet"} => j.vpc \in Vpcs
         /\ j.step = "create" => j.vpc = None
  BY DEF Jobs, Idle

\* A call moves on: the VPCs in hand are those of the other calls and its own.
LEMMA Moving ==
  ASSUME IInv,
         NEW c \in Calls, NEW j \in Jobs,
         job' = [job EXCEPT ![c] = j],
         j # Idle => \A r \in Reserved : ~Overlaps(j.block, r),
         j.step \in Configuring =>
           j.vpc \notin Existing \/ (job[c].step \in Configuring /\ j.vpc = job[c].vpc),
         j.step = "support" => j.vpc \in hostnames',
         hostnames \subseteq hostnames'
  PROVE  /\ job' \in [Calls -> Jobs]
         /\ BlocksSpared' /\ HandsApart' /\ InOrder'
         /\ InHand' = (InHand \ (IF job[c].step \in Configuring THEN {job[c].vpc} ELSE {}))
                       \cup (IF j.step \in Configuring THEN {j.vpc} ELSE {})
<1>1. /\ job' \in [Calls -> Jobs] /\ job'[c] = j
      /\ \A d \in Calls : d # c => job'[d] = job[d]
  BY DEF IInv, TypeOK
<1>2. BlocksSpared'
  BY <1>1 DEF IInv, BlocksSpared
<1>3. \A d \in Calls : job[d].step \in Configuring => job[d].vpc \in Existing
  BY DEF IInv, TypeOK, InHand
<1>4. HandsApart'
  BY <1>1, <1>3 DEF IInv, HandsApart
<1>5. InOrder'
  BY <1>1 DEF IInv, InOrder
<1>6. InHand' = (InHand \ (IF job[c].step \in Configuring THEN {job[c].vpc} ELSE {}))
                \cup (IF j.step \in Configuring THEN {j.vpc} ELSE {})
  BY <1>1, <1>4 DEF IInv, HandsApart, InHand
<1>7. QED
  BY <1>1, <1>2, <1>4, <1>5, <1>6

\* A call that starts has a valid block and nothing in hand.
LEMMA StartStep ==
  ASSUME IInv, NEW c \in Calls, ProvisionVpc(c) \/ CreateSubnet(c)
  PROVE  IInv'
<1>1. /\ job[c] = Idle
      /\ UNCHANGED <<account, history>>
  BY DEF ProvisionVpc, CreateSubnet
<1>2. PICK j \in Jobs :
        /\ job' = [job EXCEPT ![c] = j]
        /\ j.step \in {"create", "subnet"}
        /\ \A r \in Reserved : ~Overlaps(j.block, r)
  <2>1. 0 \in Tries
    BY ProvisioningAssumption DEF Tries
  <2>2. CASE ProvisionVpc(c)
    <3>1. PICK cidr \in Cidrs :
            /\ Valid(cidr)
            /\ job' = [job EXCEPT ![c] = [step |-> "create", block |-> NetworkOf(cidr),
                                         vpc |-> None, tries |-> 0]]
      BY <2>2 DEF ProvisionVpc
    <3>2. [step |-> "create", block |-> NetworkOf(cidr), vpc |-> None, tries |-> 0] \in Jobs
      BY <2>1, NetworkIsBlock DEF Jobs
    <3>3. QED
      BY <3>1, <3>2 DEF Valid
  <2>3. CASE CreateSubnet(c)
    <3>1. PICK cidr \in Cidrs, v \in Vpcs :
            /\ Valid(cidr)
            /\ job' = [job EXCEPT ![c] = [step |-> "subnet", block |-> NetworkOf(cidr),
                                         vpc |-> v, tries |-> 0]]
      BY <2>3 DEF CreateSubnet
    <3>2. [step |-> "subnet", block |-> NetworkOf(cidr), vpc |-> v, tries |-> 0] \in Jobs
      BY <2>1, NetworkIsBlock DEF Jobs, IInv, TypeOK
    <3>3. QED
      BY <3>1, <3>2 DEF Valid
  <2>4. QED
    BY <2>2, <2>3
<1>3. /\ job' \in [Calls -> Jobs] /\ BlocksSpared' /\ HandsApart' /\ InOrder'
      /\ InHand' = InHand
  <2>1. job[c].step = "idle" /\ hostnames' = hostnames
    BY <1>1 DEF Idle, account
  <2>2. j.step \notin Configuring /\ j.step # "support"
    BY <1>2
  <2>3. QED
    BY <1>2, <2>1, <2>2, Moving
<1>4. QED
  BY <1>1, <1>3 DEF IInv, TypeOK, Countable, OrphansNeedFaults, Orphans, ReservedSpared, account, history

\* The request of a call was answered: the call goes on with the VPC v or returns.
LEMMA AnsweredMoves ==
  ASSUME IInv, NEW c \in Calls, NEW v \in Vpcs, Answered(c, v),
         job[c] # Idle,
         \/ job[c].step = "create" /\ v \notin Existing
         \/ job[c].step = "hostnames" /\ v = job[c].vpc /\ v \in hostnames'
         \/ job[c].step \in {"support", "subnet"},
         hostnames \subseteq hostnames'
  PROVE  /\ job' \in [Calls -> Jobs]
         /\ BlocksSpared' /\ HandsApart' /\ InOrder'
         /\ InHand' = (InHand \ (IF job[c].step \in Configuring THEN {job[c].vpc} ELSE {}))
                       \cup (IF job[c].step \in {"create", "hostnames"} THEN {v} ELSE {})
<1>1. job[c] \in Jobs
  BY DEF IInv, TypeOK
<1>2. 0 \in Tries
  BY ProvisioningAssumption DEF Tries
<1>3. CASE job[c].step \in {"create", "hostnames"}
  <2>1. /\ job' = [job EXCEPT ![c] = [step |-> After(job[c].step), block |-> job[c].block,
                                       vpc |-> v, tries |-> 0]]
        /\ After(job[c].step) \in Configuring /\ After(job[c].step) # "subnet"
        /\ After(job[c].step) = "support" => job[c].step = "hostnames"
    BY <1>3 DEF Answered, After
  <2>2. [step |-> After(job[c].step), block |-> job[c].block, vpc |-> v, tries |-> 0] \in Jobs
    BY <1>1, <1>2, <2>1, JobKinds DEF Jobs
  <2>3. \A r \in Reserved : ~Overlaps(job[c].block, r)
    BY DEF IInv, BlocksSpared
  <2>4. QED
    BY <1>3, <2>1, <2>2, <2>3, Moving
<1>4. CASE job[c].step \in {"support", "subnet"}
  <2>1. job' = [job EXCEPT ![c] = Idle]
    BY <1>4 DEF Answered, After
  <2>2. Idle \in Jobs /\ Idle.step = "idle"
    BY DEF Jobs, Idle
  <2>3. QED
    BY <1>4, <2>1, <2>2, Moving
<1>5. QED
  BY <1>3, <1>4

\* No answer: the call goes on as it was, or ends and drops what it had in hand.
LEMMA RetriedMoves ==
  ASSUME IInv, NEW c \in Calls, Retried(c), job[c] # Idle, hostnames \subseteq hostnames'
  PROVE  /\ job' \in [Calls -> Jobs]
         /\ BlocksSpared' /\ HandsApart' /\ InOrder'
         /\ InHand' \subseteq InHand
         /\ InHand \subseteq InHand' \cup (IF job[c].step \in Configuring THEN {job[c].vpc} ELSE {})
<1>1. job[c] \in Jobs
  BY DEF IInv, TypeOK
<1>2. CASE job[c].tries + 1 < Attempts
  <2>1. job' = [job EXCEPT ![c] = [job[c] EXCEPT !.tries = @ + 1]]
    BY <1>2 DEF Retried
  <2>2. job[c].tries + 1 \in Tries
    BY <1>1, <1>2, JobKinds, ProvisioningAssumption DEF Tries
  <2>3. /\ [job[c] EXCEPT !.tries = @ + 1] \in Jobs
        /\ [job[c] EXCEPT !.tries = @ + 1].step = job[c].step
        /\ [job[c] EXCEPT !.tries = @ + 1].vpc = job[c].vpc
        /\ [job[c] EXCEPT !.tries = @ + 1].block = job[c].block
    BY <1>1, <2>2 DEF Jobs, Idle
  <2>4. PICK j \in Jobs :
          /\ job' = [job EXCEPT ![c] = j]
          /\ j.step = job[c].step /\ j.vpc = job[c].vpc /\ j.block = job[c].block
    BY <2>1, <2>3
  <2>5. /\ \A r \in Reserved : ~Overlaps(j.block, r)
        /\ j.step = "support" => j.vpc \in hostnames'
    BY <2>4 DEF IInv, BlocksSpared, InOrder
  <2>6. job[c].step \in Configuring => job[c].vpc \in InHand
    BY DEF InHand
  <2>7. /\ job' \in [Calls -> Jobs] /\ BlocksSpared' /\ HandsApart' /\ InOrder'
        /\ InHand' = (InHand \ (IF job[c].step \in Configuring THEN {job[c].vpc} ELSE {}))
                      \cup (IF j.step \in Configuring THEN {j.vpc} ELSE {})
    <3>1. j.step \in Configuring => job[c].step \in Configuring /\ j.vpc = job[c].vpc
      BY <2>4
    <3>2. j \in Jobs /\ job' = [job EXCEPT ![c] = j]
      BY <2>4
    <3>3. QED
      BY ONLY IInv, c \in Calls, hostnames \subseteq hostnames', <2>5, <3>1, <3>2, Moving
  <2>8. QED
    BY <2>4, <2>6, <2>7
<1>3. CASE ~(job[c].tries + 1 < Attempts)
  <2>1. job' = [job EXCEPT ![c] = Idle]
    BY <1>3 DEF Retried
  <2>2. Idle \in Jobs /\ Idle.step = "idle"
    BY DEF Jobs, Idle
  <2>3. QED
    BY <2>1, <2>2, Moving
<1>4. QED
  BY <1>2, <1>3

-----------------------------------------------------------------------------
(* What EC2 does                                                           *)

\* EC2 creates a VPC with the valid block it was sent.
LEMMA CreatedStep ==
  ASSUME IInv, NEW c \in Calls, NEW v \in Vpcs, Created(c, v)
  PROVE  /\ job[c] # Idle /\ v \notin Existing
         /\ net' \in [Vpcs -> Network \cup {None}]
         /\ Existing' = Existing \cup {v}
         /\ UNCHANGED <<hostnames, support, subnets>>
         /\ Countable' /\ ReservedSpared'
<1>1. /\ job[c].step = "create" /\ v \notin Existing
      /\ net' = [net EXCEPT ![v] = job[c].block]
      /\ UNCHANGED <<hostnames, support, subnets>>
  BY DEF Created
<1>2. job[c] # Idle
  BY <1>1 DEF Idle
<1>3. job[c].block \in Network /\ job[c].block # None
  BY <1>2, JobKinds, ProvisioningAssumption DEF IInv, TypeOK
<1>4. /\ net' \in [Vpcs -> Network \cup {None}] /\ net'[v] = job[c].block
      /\ \A w \in Vpcs : w # v => net'[w] = net[w]
  BY <1>1, <1>3 DEF IInv, TypeOK
<1>5. Existing' = Existing \cup {v}
  BY <1>3, <1>4
<1>6. Countable'
  BY <1>1, <1>5, FS_AddElement DEF IInv, Countable
<1>7. \A r \in Reserved : Addresses(job[c].block) \cap Addresses(r) = {}
  BY <1>2, <1>3, Disjoint, ProvisioningAssumption DEF IInv, BlocksSpared
<1>8. ReservedSpared'
  BY <1>1, <1>4, <1>5, <1>7 DEF IInv, ReservedSpared
<1>9. QED
  BY <1>1, <1>2, <1>4, <1>5, <1>6, <1>8

\* EC2 sets an attribute of the VPC in the hands of the call.
LEMMA ModifiedStep ==
  ASSUME IInv, NEW c \in Calls, Modified(c)
  PROVE  /\ job[c] # Idle /\ job[c].step \in Configuring
         /\ job[c].vpc \in InHand /\ job[c].vpc \in Vpcs
         /\ UNCHANGED <<net, subnets>>
         /\ hostnames \subseteq hostnames' /\ hostnames' \subseteq Existing
         /\ support \subseteq support' /\ support' \subseteq Existing
         /\ job[c].step = "hostnames" => job[c].vpc \in hostnames'
         /\ job[c].step = "support" => job[c].vpc \in hostnames \cap support'
         /\ Countable' /\ ReservedSpared'
<1>1. job[c].step \in Configuring /\ UNCHANGED <<net, subnets>>
  BY DEF Modified
<1>2. job[c] # Idle /\ job[c].vpc \in InHand
  BY <1>1 DEF Idle, InHand
<1>3. job[c].vpc \in Existing
  BY <1>2 DEF IInv, TypeOK
<1>4. Existing' = Existing
  BY <1>1
<1>5. Countable' /\ ReservedSpared'
  BY <1>1, <1>4 DEF IInv, Countable, ReservedSpared
<1>6. /\ hostnames \subseteq hostnames' /\ hostnames' \subseteq Existing
      /\ support \subseteq support' /\ support' \subseteq Existing
      /\ job[c].step = "hostnames" => job[c].vpc \in hostnames'
      /\ job[c].step = "support" => job[c].vpc \in hostnames \cap support'
  BY <1>3 DEF Modified, IInv, TypeOK, InOrder
<1>7. QED
  BY <1>1, <1>2, <1>3, <1>5, <1>6

\* EC2 creates a subnet in a VPC that there is.
LEMMA SubnettedStep ==
  ASSUME IInv, NEW c \in Calls, Subnetted(c)
  PROVE  /\ job[c] # Idle /\ job[c].step = "subnet" /\ job[c].vpc \in Vpcs
         /\ UNCHANGED <<net, hostnames, support>>
         /\ subnets' = subnets \cup {Asked(c)}
         /\ Asked(c) \in [vpc : Existing, block : Network]
         /\ Countable' /\ ReservedSpared'
<1>1. /\ job[c].step = "subnet" /\ subnets' = subnets \cup {Asked(c)}
      /\ UNCHANGED <<net, hostnames, support>>
  BY DEF Subnetted
<1>2. job[c] # Idle
  BY <1>1 DEF Idle
<1>3. job[c].block \in Network /\ job[c].vpc \in Vpcs
  BY <1>1, <1>2, JobKinds DEF IInv, TypeOK
<1>4. Asked(c) \in [vpc : Existing, block : Network] /\ Asked(c).block = job[c].block
  BY <1>1, <1>3 DEF Subnetted, Fits, Asked
<1>5. Countable'
  BY <1>1, FS_AddElement DEF IInv, Countable
<1>6. \A r \in Reserved : Addresses(job[c].block) \cap Addresses(r) = {}
  BY <1>2, <1>3, Disjoint, ProvisioningAssumption DEF IInv, BlocksSpared
<1>7. ReservedSpared'
  BY <1>1, <1>4, <1>6 DEF IInv, ReservedSpared
<1>8. QED
  BY <1>1, <1>2, <1>3, <1>4, <1>5, <1>7

\* EC2 does nothing.
LEMMA NothingDone ==
  ASSUME IInv, UNCHANGED account
  PROVE  Countable' /\ ReservedSpared'
  BY DEF account, IInv, Countable, ReservedSpared

-----------------------------------------------------------------------------
(* The answers                                                             *)

LEMMA CreateVpcStep ==
  ASSUME IInv, NEW c \in Calls, CreateVpc(c)
  PROVE  IInv'
<1>1. PICK v \in Vpcs : Created(c, v) /\ Answered(c, v) /\ UNCHANGED history
  BY DEF CreateVpc
<1>2. /\ job[c] # Idle /\ v \notin Existing /\ job[c].step = "create"
      /\ net' \in [Vpcs -> Network \cup {None}]
      /\ Existing' = Existing \cup {v}
      /\ UNCHANGED <<hostnames, support, subnets>>
      /\ UNCHANGED <<given, shared, faults>>
      /\ Countable' /\ ReservedSpared'
  BY <1>1, CreatedStep DEF Created, history
<1>3. /\ job' \in [Calls -> Jobs] /\ BlocksSpared' /\ HandsApart' /\ InOrder'
      /\ InHand' = InHand \cup {v}
  BY <1>1, <1>2, AnsweredMoves
<1>4. TypeOK'
  BY <1>2, <1>3 DEF IInv, TypeOK
<1>5. Orphans' \subseteq Orphans
  BY <1>2, <1>3 DEF Orphans
<1>6. Cardinality(Orphans') + Cardinality((subnets \ shared)') <= faults'
  BY <1>2, <1>5, Counted
<1>7. OrphansNeedFaults'
  BY <1>2, <1>6 DEF IInv, OrphansNeedFaults
<1>8. QED
  BY <1>2, <1>3, <1>4, <1>7 DEF IInv

LEMMA CreateVpcUnansweredStep ==
  ASSUME IInv, NEW c \in Calls, CreateVpcUnanswered(c)
  PROVE  IInv'
<1>1. PICK v \in Vpcs : Created(c, v) /\ Retried(c)
  BY DEF CreateVpcUnanswered
<1>2. /\ job[c] # Idle /\ v \notin Existing /\ job[c].step = "create"
      /\ net' \in [Vpcs -> Network \cup {None}]
      /\ Existing' = Existing \cup {v}
      /\ UNCHANGED <<hostnames, support, subnets>>
      /\ faults < MaxFaults /\ faults' = faults + 1 /\ UNCHANGED <<given, shared>>
      /\ Countable' /\ ReservedSpared'
  BY <1>1, CreatedStep DEF Created, Retried
<1>3. /\ job' \in [Calls -> Jobs] /\ BlocksSpared' /\ HandsApart' /\ InOrder'
      /\ InHand' = InHand
  BY <1>1, <1>2, RetriedMoves
<1>4. faults' \in 0 .. MaxFaults
  BY <1>2, ProvisioningAssumption DEF IInv, TypeOK
<1>5. TypeOK'
  BY <1>2, <1>3, <1>4 DEF IInv, TypeOK
<1>6. Orphans' \subseteq Orphans \cup {v}
  BY <1>2, <1>3 DEF Orphans
<1>7. Cardinality(Orphans') + Cardinality((subnets \ shared)') <= faults'
  BY <1>2, <1>6, Counted
<1>8. OrphansNeedFaults'
  BY <1>2, <1>7 DEF IInv, OrphansNeedFaults
<1>9. QED
  BY <1>2, <1>3, <1>5, <1>8 DEF IInv

LEMMA ModifyVpcAttributeStep ==
  ASSUME IInv, NEW c \in Calls, ModifyVpcAttribute(c)
  PROVE  IInv'
<1>1. /\ Modified(c) /\ Answered(c, job[c].vpc)
      /\ given' = IF After(job[c].step) = "idle" THEN given \cup {job[c].vpc} ELSE given
      /\ UNCHANGED <<shared, faults>>
  BY DEF ModifyVpcAttribute
<1>2. /\ job[c] # Idle /\ job[c].step \in Configuring
      /\ job[c].vpc \in InHand /\ job[c].vpc \in Vpcs
      /\ UNCHANGED <<net, subnets>>
      /\ hostnames \subseteq hostnames' /\ hostnames' \subseteq Existing
      /\ support \subseteq support' /\ support' \subseteq Existing
      /\ job[c].step = "hostnames" => job[c].vpc \in hostnames'
      /\ job[c].step = "support" => job[c].vpc \in hostnames \cap support'
      /\ Countable' /\ ReservedSpared'
  BY <1>1, ModifiedStep
<1>3. /\ job[c].step = "hostnames" => given' = given
      /\ job[c].step = "support" => given' = given \cup {job[c].vpc}
  BY <1>1 DEF After
<1>5. /\ job' \in [Calls -> Jobs] /\ BlocksSpared' /\ HandsApart' /\ InOrder'
      /\ InHand' = (InHand \ {job[c].vpc})
                    \cup (IF job[c].step = "hostnames" THEN {job[c].vpc} ELSE {})
  <2>1. PICK v \in Vpcs : v = job[c].vpc
    BY <1>2
  <2>2. \/ job[c].step = "hostnames" /\ v = job[c].vpc /\ v \in hostnames'
        \/ job[c].step \in {"support", "subnet"}
    BY <1>2, <2>1
  <2>3. Answered(c, v)
    BY <1>1, <2>1
  <2>4. QED
    BY <1>2, <2>1, <2>2, <2>3, AnsweredMoves
<1>6. /\ job[c].step = "hostnames" => InHand' = InHand
      /\ job[c].step = "support" => InHand' = InHand \ {job[c].vpc}
  BY <1>2, <1>5
<1>7. given' \cup InHand' = given \cup InHand /\ given' \cap InHand' = {}
  BY <1>2, <1>3, <1>6 DEF IInv, TypeOK
<1>9. TypeOK'
  BY <1>1, <1>2, <1>5, <1>7 DEF IInv, TypeOK
<1>10. Orphans' \subseteq Orphans
  BY <1>2, <1>7 DEF Orphans
<1>11. Cardinality(Orphans') + Cardinality((subnets \ shared)') <= faults'
  BY <1>1, <1>2, <1>10, Counted
<1>12. given' \subseteq hostnames' \cap support'
  BY <1>2, <1>3 DEF IInv, OrphansNeedFaults
<1>13. OrphansNeedFaults'
  BY <1>11, <1>12 DEF OrphansNeedFaults
<1>14. QED
  BY <1>2, <1>5, <1>9, <1>13 DEF IInv

\* A call that gets no answer to what does not create anything leaves at most
\* the VPC in its hands.
LEMMA RetriedStep ==
  ASSUME IInv, NEW c \in Calls, Retried(c), job[c] # Idle,
         UNCHANGED <<net, subnets>>,
         hostnames \subseteq hostnames', hostnames' \subseteq Existing,
         support \subseteq support', support' \subseteq Existing
  PROVE  IInv'
<1>1. faults < MaxFaults /\ faults' = faults + 1 /\ UNCHANGED <<given, shared>>
  BY DEF Retried
<1>2. /\ job' \in [Calls -> Jobs] /\ BlocksSpared' /\ HandsApart' /\ InOrder'
      /\ InHand' \subseteq InHand /\ InHand \subseteq InHand' \cup {job[c].vpc}
  BY RetriedMoves
<1>3. Countable' /\ ReservedSpared'
  BY DEF IInv, Countable, ReservedSpared
<1>4. faults' \in 0 .. MaxFaults
  BY <1>1, ProvisioningAssumption DEF IInv, TypeOK
<1>5. TypeOK'
  BY <1>1, <1>2, <1>4 DEF IInv, TypeOK
<1>6. Orphans' \subseteq Orphans \cup {job[c].vpc}
  BY <1>1, <1>2 DEF Orphans
<1>7. Cardinality(Orphans') + Cardinality((subnets \ shared)') <= faults'
  BY <1>1, <1>6, Counted
<1>8. OrphansNeedFaults'
  BY <1>1, <1>7 DEF IInv, OrphansNeedFaults
<1>9. QED
  BY <1>2, <1>3, <1>5, <1>8 DEF IInv

LEMMA SubnetStep ==
  ASSUME IInv, NEW c \in Calls, SubnetCreated(c) \/ SubnetUnanswered(c)
  PROVE  IInv'
<1>1. Subnetted(c) /\ given' = given
  BY DEF SubnetCreated, SubnetUnanswered, Retried
<1>2. /\ job[c] # Idle /\ job[c].step = "subnet" /\ job[c].vpc \in Vpcs
      /\ UNCHANGED <<net, hostnames, support>>
      /\ subnets' = subnets \cup {Asked(c)}
      /\ Asked(c) \in [vpc : Existing, block : Network]
      /\ Countable' /\ ReservedSpared'
  BY <1>1, SubnettedStep
<1>3. /\ job' \in [Calls -> Jobs] /\ BlocksSpared' /\ HandsApart' /\ InOrder'
      /\ InHand' = InHand
  <2>1. CASE SubnetCreated(c)
    <3>1. PICK v \in Vpcs : Answered(c, v)
      BY <1>2, <2>1 DEF SubnetCreated
    <3>2. QED
      BY <1>1, <1>2, <3>1, AnsweredMoves
  <2>2. CASE SubnetUnanswered(c)
    BY <1>2, <2>2, RetriedMoves DEF SubnetUnanswered
  <2>3. QED
    BY <2>1, <2>2
<1>4. \/ shared' = shared \cup {Asked(c)} /\ faults' = faults
      \/ shared' = shared /\ faults < MaxFaults /\ faults' = faults + 1
  BY DEF SubnetCreated, SubnetUnanswered, Retried
<1>5. faults' \in 0 .. MaxFaults
  BY <1>4, ProvisioningAssumption DEF IInv, TypeOK
<1>6. shared' \subseteq subnets' /\ subnets' \subseteq [vpc : Existing', block : Network]
  BY <1>1, <1>2, <1>4 DEF IInv, TypeOK
<1>7. TypeOK'
  BY <1>1, <1>2, <1>3, <1>5, <1>6 DEF IInv, TypeOK
<1>8. Orphans' = Orphans
  BY <1>1, <1>2, <1>3 DEF Orphans
<1>9. Cardinality(Orphans') + Cardinality((subnets \ shared)') <= faults'
  <2>1. CASE shared' = shared \cup {Asked(c)} /\ faults' = faults
    <3>1. (subnets \ shared)' \subseteq subnets \ shared
      BY <1>2, <2>1
    <3>2. QED
      BY <1>8, <2>1, <3>1, Counted
  <2>2. CASE shared' = shared /\ faults' = faults + 1
    <3>1. (subnets \ shared)' \subseteq (subnets \ shared) \cup {Asked(c)}
      BY <1>2, <2>2
    <3>2. QED
      BY <1>8, <2>2, <3>1, Counted
  <2>3. QED
    BY <1>4, <2>1, <2>2
<1>10. OrphansNeedFaults'
  BY <1>1, <1>2, <1>9 DEF IInv, OrphansNeedFaults
<1>11. QED
  BY <1>2, <1>3, <1>7, <1>10 DEF IInv

LEMMA RefusedStep ==
  ASSUME IInv, NEW c \in Calls, Refused(c)
  PROVE  IInv'
<1>1. /\ job[c] # Idle /\ job' = [job EXCEPT ![c] = Idle]
      /\ UNCHANGED <<net, hostnames, support, subnets, given, shared>>
      /\ IF job[c].step \in Configuring THEN faults < MaxFaults /\ faults' = faults + 1
                                        ELSE faults' = faults
  BY DEF Refused, account
<1>2. Idle \in Jobs /\ Idle.step = "idle"
  BY DEF Jobs, Idle
<1>3. /\ job' \in [Calls -> Jobs] /\ BlocksSpared' /\ HandsApart' /\ InOrder'
      /\ InHand' = InHand \ (IF job[c].step \in Configuring THEN {job[c].vpc} ELSE {})
  BY <1>1, <1>2, Moving
<1>4. Countable' /\ ReservedSpared'
  BY <1>1, NothingDone DEF account
<1>5. faults' \in 0 .. MaxFaults
  BY <1>1, ProvisioningAssumption DEF IInv, TypeOK
<1>6. TypeOK'
  BY <1>1, <1>3, <1>5 DEF IInv, TypeOK
<1>7. Cardinality(Orphans') + Cardinality((subnets \ shared)') <= faults'
  <2>1. CASE job[c].step \in Configuring
    <3>1. Orphans' \subseteq Orphans \cup {job[c].vpc}
      BY <1>1, <1>3 DEF Orphans
    <3>2. QED
      BY <1>1, <2>1, <3>1, Counted
  <2>2. CASE job[c].step \notin Configuring
    <3>1. Orphans' \subseteq Orphans
      BY <1>1, <1>3, <2>2 DEF Orphans
    <3>2. QED
      BY <1>1, <2>2, <3>1, Counted
  <2>3. QED
    BY <2>1, <2>2
<1>8. OrphansNeedFaults'
  BY <1>1, <1>7 DEF IInv, OrphansNeedFaults
<1>9. QED
  BY <1>3, <1>4, <1>6, <1>8 DEF IInv

-----------------------------------------------------------------------------
(* The theorems                                                            *)

LEMMA InductiveStep ==
  ASSUME IInv, [Next]_vars
  PROVE  IInv'
<1>1. CASE UNCHANGED vars
  <2>1. UNCHANGED <<net, hostnames, support, subnets, job, given, shared, faults>>
    BY <1>1 DEF vars, account, history
  <2>2. TypeOK'
    BY <2>1 DEF IInv, TypeOK, InHand
  <2>3. Countable' /\ ReservedSpared'
    BY <2>1 DEF IInv, Countable, ReservedSpared
  <2>4. BlocksSpared' /\ HandsApart' /\ InOrder'
    BY <2>1 DEF IInv, BlocksSpared, HandsApart, InOrder
  <2>5. OrphansNeedFaults'
    BY <2>1 DEF IInv, OrphansNeedFaults, Orphans, InHand
  <2>6. QED
    BY <2>2, <2>3, <2>4, <2>5 DEF IInv
<1>2. CASE Next
  <2>1. PICK c \in Calls :
          \/ ProvisionVpc(c) \/ CreateVpc(c) \/ CreateVpcUnanswered(c)
          \/ ModifyVpcAttribute(c) \/ ModifyUnanswered(c)
          \/ CreateSubnet(c) \/ SubnetCreated(c) \/ SubnetUnanswered(c)
          \/ Unexecuted(c) \/ Refused(c)
    BY <1>2 DEF Next
  <2>2. CASE ProvisionVpc(c) \/ CreateSubnet(c)
    BY <2>2, StartStep
  <2>3. CASE CreateVpc(c)
    BY <2>3, CreateVpcStep
  <2>4. CASE CreateVpcUnanswered(c)
    BY <2>4, CreateVpcUnansweredStep
  <2>5. CASE ModifyVpcAttribute(c)
    BY <2>5, ModifyVpcAttributeStep
  <2>6. CASE ModifyUnanswered(c)
    <3>1. Modified(c) /\ Retried(c)
      BY <2>6 DEF ModifyUnanswered
    <3>2. QED
      BY <3>1, ModifiedStep, RetriedStep
  <2>7. CASE SubnetCreated(c) \/ SubnetUnanswered(c)
    BY <2>7, SubnetStep
  <2>8. CASE Unexecuted(c)
    <3>1. job[c] # Idle /\ Retried(c) /\ UNCHANGED <<net, hostnames, support, subnets>>
      BY <2>8 DEF Unexecuted, account
    <3>2. hostnames \subseteq Existing /\ support \subseteq Existing
      BY DEF IInv, TypeOK
    <3>3. QED
      BY <3>1, <3>2, RetriedStep
  <2>9. CASE Refused(c)
    BY <2>9, RefusedStep
  <2>10. QED
    BY <2>1, <2>2, <2>3, <2>4, <2>5, <2>6, <2>7, <2>8, <2>9
<1>3. QED
  BY <1>1, <1>2

LEMMA InitiallyHolds ==
  ASSUME Init
  PROVE  IInv
<1>1. Existing = {} /\ InHand = {} /\ subnets = {} /\ faults = 0
  BY DEF Init, Idle, InHand
<1>2. \A c \in Calls : job[c] = Idle /\ job[c].step = "idle"
  BY DEF Init, Idle
<1>3. TypeOK
  BY <1>1, ProvisioningAssumption DEF Init, TypeOK, Jobs
<1>4. Countable
  BY <1>1, FS_EmptySet DEF Countable
<1>5. Orphans = {} /\ subnets \ shared = {}
  BY <1>1 DEF Orphans
<1>6. OrphansNeedFaults
  BY <1>1, <1>5, FS_EmptySet DEF Init, OrphansNeedFaults
<1>7. BlocksSpared /\ HandsApart /\ InOrder
  BY <1>2 DEF BlocksSpared, HandsApart, InOrder
<1>8. ReservedSpared
  BY <1>1 DEF ReservedSpared
<1>9. QED
  BY <1>3, <1>4, <1>6, <1>7, <1>8 DEF IInv

\* The inductive invariant: every call holds a valid block and a VPC of its own,
\* whatever EC2 does with its requests.
THEOREM InductiveInvariant == Spec => []IInv
<1>1. Init => IInv
  BY InitiallyHolds
<1>2. IInv /\ [Next]_vars => IInv'
  BY InductiveStep
<1>3. QED
  BY <1>1, <1>2, PTL DEF Spec

\* The type invariant, with the facts it states about who holds which VPC.
THEOREM TypeCorrect == Spec => []TypeOK
<1>1. IInv => TypeOK
  BY DEF IInv
<1>2. QED
  BY <1>1, InductiveInvariant, PTL

\* What failing provision_vpc and create_subnet calls leave behind never exceeds
\* the requests that failed, however the calls overlap and boto3 repeats them.
THEOREM OrphansAreFaults == Spec => []OrphansNeedFaults
<1>1. IInv => OrphansNeedFaults
  BY DEF IInv
<1>2. QED
  BY <1>1, InductiveInvariant, PTL

\* _validate_cidr keeps every VPC and every subnet off the reserved ranges, for
\* any block and any reserved range.
THEOREM ReservedStaySpared == Spec => []ReservedSpared
<1>1. IInv => ReservedSpared
  BY DEF IInv
<1>2. QED
  BY <1>1, InductiveInvariant, PTL

=============================================================================
