--------------------------- MODULE Provisioning ---------------------------
(***************************************************************************)
(* VPCProvisioner of infra/aws/vpc_provisioner.py: calls that create VPCs  *)
(* and subnets of one account, each a sequence of requests to EC2. boto3   *)
(* and EC2 are external: boto3 sends a request up to Attempts times when   *)
(* it gets no answer, also after EC2 has done what it asks for; EC2        *)
(* refuses a VPC beyond the quota and subnets that do not fit, and may     *)
(* refuse anything else.                                                   *)
(*                                                                         *)
(* A CIDR block is an address with the size of the block, 2^(32 - prefix). *)
(***************************************************************************)
EXTENDS Integers, FiniteSets

CONSTANTS
  Calls,      \* scripts that use a VPCProvisioner
  Vpcs,       \* VpcId
  Top,        \* the last address
  Sizes,      \* sizes of blocks
  Reserved,   \* _RESERVED_RANGES
  Quota,      \* VPCs of an account and region
  Attempts,   \* times boto3 sends a request
  None,       \* no VPC, no block
  MaxFaults   \* bound: requests that are not answered well

Network   == [lo : 0 .. Top, hi : 0 .. Top]
Addresses(n) == n.lo .. n.hi

ASSUME ProvisioningAssumption ==
  /\ Top \in Nat /\ Attempts \in Nat \ {0} /\ MaxFaults \in Nat
  /\ Sizes \subseteq {z \in Nat \ {0} : (Top + 1) % z = 0}
  /\ Reserved \subseteq {n \in Network : n.lo <= n.hi}
  /\ None \notin Network \cup Vpcs

Cidrs == [address : 0 .. Top, size : Sizes]

VARIABLES
  net,        \* the block of each VPC of the account
  hostnames,  \* VPCs whose EnableDnsHostnames was set
  support,    \* VPCs whose EnableDnsSupport was set
  subnets,    \* the subnets of the account
  job,        \* of each call: the request it is at, block, VPC and the times
              \* the request was sent without an answer
  \* history
  given,      \* VPCs returned to a caller
  shared,     \* subnets returned to a caller
  faults      \* requests lost, failed, or refused after the VPC was there

account == <<net, hostnames, support, subnets>>
history == <<given, shared, faults>>
vars    == <<account, job, history>>

Idle   == [step |-> "idle", block |-> None, vpc |-> None, tries |-> 0]
Tries  == 0 .. Attempts - 1
Jobs   ==
  {Idle}
    \cup [step : {"create"}, block : Network, vpc : {None}, tries : Tries]
    \cup [step : {"hostnames", "support", "subnet"}, block : Network, vpc : Vpcs, tries : Tries]

Existing == {v \in Vpcs : net[v] # None}
Configuring == {"hostnames", "support"}
InHand   == {job[c].vpc : c \in {d \in Calls : job[d].step \in Configuring}}

TypeOK ==
  /\ net \in [Vpcs -> Network \cup {None}]
  /\ hostnames \subseteq Existing
  /\ support \subseteq Existing
  /\ subnets \subseteq [vpc : Existing, block : Network]
  /\ job \in [Calls -> Jobs]
  /\ InHand \subseteq Existing
  /\ given \subseteq Existing \ InHand
  /\ shared \subseteq subnets
  /\ faults \in 0 .. MaxFaults

Init ==
  /\ net = [v \in Vpcs |-> None]
  /\ hostnames = {} /\ support = {} /\ subnets = {}
  /\ job = [c \in Calls |-> Idle]
  /\ given = {} /\ shared = {} /\ faults = 0

-----------------------------------------------------------------------------
(* _validate_cidr                                                          *)

\* Variant: the host bits are kept.
HostBitsKept(c) == [lo |-> c.address, hi |-> c.address + c.size - 1]

\* ip_network(cidr_block, strict=False) masks the host bits.
NetworkOf(c) ==
  LET first == c.address - (c.address % c.size)
  IN  [lo |-> first, hi |-> first + c.size - 1]

\* Variant: only the ends of the reserved range are looked for.
OverlapsEnds(n, r) == {r.lo, r.hi} \cap Addresses(n) # {}

\* IPv4Network.overlaps: an end of one lies in the other.
Overlaps(n, r) ==
  \/ n.lo \in Addresses(r) \/ n.hi \in Addresses(r)
  \/ r.lo \in Addresses(n) \/ r.hi \in Addresses(n)

Valid(c) == \A r \in Reserved : ~Overlaps(NetworkOf(c), r)

-----------------------------------------------------------------------------
(* The requests of a call                                                  *)

\* Variant: DNS resolution is taken for granted.
AfterHostnames(step) ==
  CASE step = "create" -> "hostnames" [] OTHER -> "idle"

\* The order of the requests in provision_vpc; the last one is followed by
\* the return of the VPC.
After(step) ==
  CASE step = "create" -> "hostnames"
    [] step = "hostnames" -> "support"
    [] OTHER -> "idle"

\* The answer arrived: the next request, or the return to the caller.
Answered(c, v) ==
  job' = [job EXCEPT ![c] =
            IF After(@.step) = "idle" THEN Idle
            ELSE [step |-> After(@.step), block |-> @.block, vpc |-> v, tries |-> 0]]

\* No answer: boto3 sends the request again, or gives up and raises. What the
\* call created so far is then in no variable of the caller.
Retried(c) ==
  /\ faults < MaxFaults
  /\ faults' = faults + 1
  /\ job' = [job EXCEPT ![c] = IF job[c].tries + 1 < Attempts
                               THEN [job[c] EXCEPT !.tries = @ + 1] ELSE Idle]
  /\ UNCHANGED <<given, shared>>

\* An invalid block raises ValueError before any request. The request carries
\* the text of the block, whose host bits EC2 masks as NetworkOf does.
ProvisionVpc(c) ==
  /\ job[c] = Idle
  /\ \E cidr \in Cidrs :
       /\ Valid(cidr)
       /\ job' = [job EXCEPT ![c] = [step |-> "create", block |-> NetworkOf(cidr),
                                     vpc |-> None, tries |-> 0]]
  /\ UNCHANGED <<account, history>>

\* The caller names any VPC: one it was given, one that another call is still
\* working on or left behind, or none there is.
CreateSubnet(c) ==
  /\ job[c] = Idle
  /\ \E cidr \in Cidrs, v \in Vpcs :
       /\ Valid(cidr)
       /\ job' = [job EXCEPT ![c] = [step |-> "subnet", block |-> NetworkOf(cidr),
                                     vpc |-> v, tries |-> 0]]
  /\ UNCHANGED <<account, history>>

\* EC2 creates a VPC; create_vpc has no token that would tell a repetition.
Created(c, v) ==
  /\ job[c].step = "create"
  /\ Cardinality(Existing) < Quota
  /\ v \in Vpcs \ Existing
  /\ net' = [net EXCEPT ![v] = job[c].block]
  /\ UNCHANGED <<hostnames, support, subnets>>

CreateVpc(c) == \E v \in Vpcs : Created(c, v) /\ Answered(c, v) /\ UNCHANGED history

CreateVpcUnanswered(c) == \E v \in Vpcs : Created(c, v) /\ Retried(c)

\* Setting an attribute twice is setting it.
Modified(c) ==
  /\ \/ /\ job[c].step = "hostnames"
        /\ hostnames' = hostnames \cup {job[c].vpc} /\ UNCHANGED support
     \/ /\ job[c].step = "support"
        /\ support' = support \cup {job[c].vpc} /\ UNCHANGED hostnames
  /\ UNCHANGED <<net, subnets>>

ModifyVpcAttribute(c) ==
  /\ Modified(c)
  /\ Answered(c, job[c].vpc)
  /\ given' = IF After(job[c].step) = "idle" THEN given \cup {job[c].vpc} ELSE given
  /\ UNCHANGED <<shared, faults>>

ModifyUnanswered(c) == Modified(c) /\ Retried(c)

\* EC2 takes a block inside an existing VPC that no other subnet of it overlaps.
Fits(s) ==
  /\ s.vpc \in Existing
  /\ Addresses(s.block) \subseteq Addresses(net[s.vpc])
  /\ \A o \in subnets : o.vpc = s.vpc => ~Overlaps(s.block, o.block)

Asked(c) == [vpc |-> job[c].vpc, block |-> job[c].block]

Subnetted(c) ==
  /\ job[c].step = "subnet"
  /\ Fits(Asked(c))
  /\ subnets' = subnets \cup {Asked(c)}
  /\ UNCHANGED <<net, hostnames, support>>

SubnetCreated(c) ==
  /\ Subnetted(c)
  /\ Answered(c, job[c].vpc)
  /\ shared' = shared \cup {Asked(c)}
  /\ UNCHANGED <<given, faults>>

SubnetUnanswered(c) == Subnetted(c) /\ Retried(c)

\* EC2 did nothing: it was not reached, was busy, or timed out.
Unexecuted(c) == job[c] # Idle /\ Retried(c) /\ UNCHANGED account

\* A ClientError boto3 does not repeat: VpcLimitExceeded, InvalidSubnet.Conflict
\* also of a subnet that the lost request created, InvalidVpcID.NotFound of no
\* VPC or one not yet known everywhere.
Refused(c) ==
  /\ job[c] # Idle
  /\ IF job[c].step \in Configuring
     THEN faults < MaxFaults /\ faults' = faults + 1
     ELSE UNCHANGED faults
  /\ job' = [job EXCEPT ![c] = Idle]
  /\ UNCHANGED <<account, given, shared>>

Next ==
  \E c \in Calls :
    \/ ProvisionVpc(c) \/ CreateVpc(c) \/ CreateVpcUnanswered(c)
    \/ ModifyVpcAttribute(c) \/ ModifyUnanswered(c)
    \/ CreateSubnet(c) \/ SubnetCreated(c) \/ SubnetUnanswered(c)
    \/ Unexecuted(c) \/ Refused(c)

Spec == Init /\ [][Next]_vars

-----------------------------------------------------------------------------
(* Properties                                                              *)

\* VPCs that no caller was given and no call works on.
Orphans == Existing \ (given \cup InHand)

\* provision_vpc hands out a VPC only with both attributes, and what a failing
\* call leaves behind in the account, out of everybody's reach, is bounded by
\* the requests that failed: one resource each, also through the retries of
\* boto3. The quota is used up by nothing else.
OrphansNeedFaults ==
  /\ given \subseteq hostnames \cap support
  /\ Cardinality(Orphans) + Cardinality(subnets \ shared) <= faults

\* No VPC and no subnet, however it came to be, covers an address of a reserved
\* range: the comparison of end points that _validate_cidr makes is enough.
ReservedSpared ==
  \A r \in Reserved :
    /\ \A v \in Existing : Addresses(net[v]) \cap Addresses(r) = {}
    /\ \A s \in subnets : Addresses(s.block) \cap Addresses(r) = {}

-----------------------------------------------------------------------------
(* The inductive invariant                                                 *)

\* A call that sends requests has a valid block.
BlocksSpared == \A c \in Calls : job[c] # Idle => \A r \in Reserved : ~Overlaps(job[c].block, r)

\* A VPC is in the hands of one call.
HandsApart ==
  \A c, d \in Calls :
    c # d /\ job[c].step \in Configuring /\ job[d].step \in Configuring => job[c].vpc # job[d].vpc

\* The requests of a call come in their order.
InOrder == \A c \in Calls : job[c].step = "support" => job[c].vpc \in hostnames

Countable == IsFiniteSet(Existing) /\ IsFiniteSet(subnets)

IInv ==
  /\ TypeOK /\ BlocksSpared /\ HandsApart /\ InOrder /\ Countable
  /\ OrphansNeedFaults /\ ReservedSpared

=============================================================================
