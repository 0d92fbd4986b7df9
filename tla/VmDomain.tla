------------------------------ MODULE VmDomain ------------------------------
(***************************************************************************)
(* The pure rules of vm-binding-controller/domain/domain.go: which VMs a   *)
(* request wants, what to create and delete to get there and in which      *)
(* order, and the status that follows.  Nothing here has state.            *)
(*                                                                         *)
(* A VM name is a record.  The text "<base>-<i>", as fmt.Sprintf writes    *)
(* it, has form "decimal"; form "padded" stands for another text that      *)
(* strconv.Atoi reads as the same i ("web-01", "web-+1"); form "other" is  *)
(* a text it rejects, and its index is then the name's place in the        *)
(* lexicographic order of such names.                                      *)
(*                                                                         *)
(* A definition named Slip... is a plausible mistake in the definition     *)
(* that follows it, kept beside it so that the properties can be seen to   *)
(* notice; nothing else uses one.                                          *)
(***************************************************************************)
EXTENDS Integers, FiniteSets

Forms == {"decimal", "padded", "other"}

VMName(request, i) == [base |-> request, form |-> "decimal", index |-> i]

SlipCountFromOne(request, replicas) ==
    {VMName(request, i) : i \in 1 .. replicas}

DesiredVMNames(request, replicas) ==
    {VMName(request, i) : i \in 0 .. (replicas - 1)}

\* vmIndex's second result: the name reads as an index of this request.
HasIndex(request, name) == name.base = request /\ name.form # "other"

(***************************************************************************)
(* The comparison sort.Slice is given for plan.Delete.  Names it holds     *)
(* equal (two texts of one index) come out in any order, since they enter  *)
(* from the iteration of a map.                                            *)
(***************************************************************************)
SlipOldestFirst(request, m, n) ==
    \/ HasIndex(request, m) /\ HasIndex(request, n) /\ m.index < n.index
    \/ HasIndex(request, m) /\ ~HasIndex(request, n)

DeletedBefore(request, m, n) ==
    \/ HasIndex(request, m) /\ HasIndex(request, n) /\ m.index > n.index
    \/ HasIndex(request, m) /\ ~HasIndex(request, n)
    \/ ~HasIndex(request, m) /\ ~HasIndex(request, n) /\ m.index < n.index

SlipStrangersStay(request, replicas, existing) ==
    [create |-> DesiredVMNames(request, replicas) \ existing,
     delete |-> {n \in existing : HasIndex(request, n)}
                   \ DesiredVMNames(request, replicas)]

PlanVMs(request, replicas, existing) ==
    [create |-> DesiredVMNames(request, replicas) \ existing,
     delete |-> existing \ DesiredVMNames(request, replicas)]

\* The names a loop over plan.Create or plan.Delete may take next.
SlipCreateFromTop(create) ==
    {n \in create : \A m \in create : n.index >= m.index}

NextCreate(create) == {n \in create : \A m \in create : n.index <= m.index}

NextDelete(request, delete) ==
    {n \in delete : \A m \in delete : ~DeletedBefore(request, m, n)}

-----------------------------------------------------------------------------
(***************************************************************************)
(* Status: the phase a request reports for its region.  Messages are kept  *)
(* apart by what they say, not by their wording.                           *)
(***************************************************************************)
Status(region, phase, ready, message) ==
    [region |-> region, phase |-> phase,
     readyReplicas |-> ready, message |-> message]

ReadyStatus(request, replicas, region, readyNames) ==
    LET count == Cardinality(DesiredVMNames(request, replicas) \cap readyNames)
    IN  Status(region, IF count = replicas THEN "Ready" ELSE "Pending",
               count, "none")

UnschedulableStatus(region) ==
    Status(region, "Unschedulable", 0, "no cluster offers VMs")

MissingTenantStatus(region) ==
    Status(region, "Unschedulable", 0, "missing tenant label")

Phases == {"Pending", "Ready", "Unschedulable"}
Messages == {"none", "no cluster offers VMs", "missing tenant label"}
=============================================================================
