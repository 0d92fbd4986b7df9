---------------------------- MODULE VmPlanProofs ----------------------------
(***************************************************************************)
(* Theorems about the planning rules, for any number of replicas and any   *)
(* set of names, foreign spellings included.                               *)
(***************************************************************************)
EXTENDS VmPlan, TLAPS


\* A plan for fewer replicas wants no name that the largest does not.
LEMMA DesiredAreNames ==
    ASSUME NEW k \in 1 .. MaxReplicas
    PROVE  DesiredVMNames(Request, k) \subseteq Names
BY VmPlanAssumption DEF DesiredVMNames

\* What is left of a plan stays a cover of what is left to do.
LEMMA PlanStep ==
    ASSUME PlanInv, [Next]_vars
    PROVE  PlanInv'
<1> USE DEF PlanInv
<1>0. Wanted \subseteq Names
  BY DesiredAreNames DEF Wanted
<1>1. CASE CreateNext
  <2>1. PICK n \in create : /\ existing' = existing \cup {n}
                            /\ create' = create \ {n}
    BY <1>1 DEF CreateNext, NextCreate
  <2>2. UNCHANGED <<replicas, going, delete, vanished, Wanted>>
    BY <1>1 DEF CreateNext, Wanted
  <2> QED  BY <1>0, <2>1, <2>2
<1>2. CASE DeleteNext
  <2>1. PICK n \in delete : /\ going' = going \cup ({n} \cap existing)
                            /\ delete' = delete \ {n}
    BY <1>2 DEF DeleteNext, NextDelete
  <2>2. UNCHANGED <<replicas, existing, create, vanished, Wanted>>
    BY <1>2 DEF DeleteNext, Wanted
  <2> QED  BY <2>1, <2>2
<1>3. ASSUME NEW n \in Names, Terminated(n)
      PROVE  PlanInv'
  <2>1. UNCHANGED <<replicas, create, delete, Wanted>>
    BY <1>3 DEF Terminated, Wanted
  <2> QED  BY <1>3, <2>1 DEF Terminated
<1>4. CASE Replan
  BY <1>4 DEF Replan, PlanVMs, Wanted
<1>5. CASE UNCHANGED vars
  BY <1>5 DEF vars, Wanted
<1> QED  BY <1>1, <1>2, <1>3, <1>4, <1>5 DEF Next

LEMMA PlanInvariant == Spec => []PlanInv
<1>1. Init => PlanInv
  BY DEF Init, PlanInv, PlanVMs, Wanted
<1> QED  BY <1>1, PlanStep, PTL DEF Spec

(***************************************************************************)
(* However often the loops of syncVMs are cut short and the request is     *)
(* rescaled, and however long deleted VMs linger, a plan carried out to    *)
(* its end leaves exactly the wanted VMs to stay, less those that were     *)
(* terminating when it was made.                                           *)
(***************************************************************************)
THEOREM FinishedPlansAreDesired == Spec => []FinishedPlanIsDesired
<1>1. PlanInv => FinishedPlanIsDesired
  BY DEF PlanInv, FinishedPlanIsDesired
<1> QED  BY <1>1, PlanInvariant, PTL

(***************************************************************************)
(* A VM is created only when all of a lower index are there or have        *)
(* finished terminating since the plan was made, through any rescales and  *)
(* interrupted plans (the sort of plan.Create).                            *)
(***************************************************************************)
THEOREM LowestVMsComeFirst == Spec => LowestComeFirst
<1> DEFINE Lowest == \A new \in existing' \ existing :
                        \A i \in 0 .. (new.index - 1) :
                           VMName(Request, i) \in existing \cup vanished
<1>1. PlanInv /\ [Next]_vars => Lowest
  <2> SUFFICES ASSUME PlanInv, [Next]_vars, NEW new \in existing' \ existing,
                      NEW i \in 0 .. (new.index - 1)
               PROVE  VMName(Request, i) \in existing \cup vanished
    OBVIOUS
  <2>1. CreateNext
    BY DEF Next, DeleteNext, Terminated, Replan, vars
  <2>2. PICK n \in create : /\ \A m \in create : n.index <= m.index
                            /\ existing' = existing \cup {n}
    BY <2>1 DEF CreateNext, NextCreate
  <2>3. new = n
    BY <2>2
  <2>4. PICK j \in 0 .. (replicas - 1) : n = VMName(Request, j)
    BY <2>2 DEF PlanInv, Wanted, DesiredVMNames
  <2>5. n.index = j /\ VMName(Request, i).index = i
    BY <2>4 DEF VMName
  <2>6. VMName(Request, i) \in Wanted
    BY <2>3, <2>5 DEF Wanted, DesiredVMNames, PlanInv
  <2>7. VMName(Request, i) \notin create
    BY <2>2, <2>3, <2>5
  <2> QED  BY <2>6, <2>7 DEF PlanInv
<1>2. Spec => [][Lowest]_vars
  BY <1>1, PlanInvariant, PTL DEF Spec
<1> QED  BY <1>2 DEF LowestComeFirst

(***************************************************************************)
(* Each deletion takes the newest surplus VM, and names that do not read   *)
(* as an index only when no numbered surplus is left, whatever spellings   *)
(* of an index there are (the comparison PlanVMs sorts by).                *)
(***************************************************************************)
THEOREM NewestVMsGoFirst == Spec => NewestGoFirst
<1> DEFINE Newest == \A gone \in going' \ going :
                        \A left \in (existing' \ going') \ Wanted :
                           left.form # "other" =>
                              gone.form # "other" /\ gone.index >= left.index
<1>1. PlanInv /\ [Next]_vars => Newest
  <2> SUFFICES ASSUME PlanInv, [Next]_vars, NEW gone \in going' \ going,
                      NEW left \in (existing' \ going') \ Wanted,
                      left.form # "other"
               PROVE  gone.form # "other" /\ gone.index >= left.index
    OBVIOUS
  <2>1. DeleteNext
    BY DEF Next, CreateNext, Terminated, Replan, vars
  <2>2. PICK n \in delete : /\ \A m \in delete : ~DeletedBefore(Request, m, n)
                            /\ going' = going \cup ({n} \cap existing)
                            /\ UNCHANGED existing
    BY <2>1 DEF DeleteNext, NextDelete
  <2>3. gone = n /\ left \in delete
    BY <2>2 DEF PlanInv
  <2>4. \A m \in delete : m.base = Request /\ m.index \in Int
    BY VmPlanAssumption DEF PlanInv
  <2> QED  BY <2>2, <2>3, <2>4 DEF DeletedBefore, HasIndex
<1>2. Spec => [][Newest]_vars
  BY <1>1, PlanInvariant, PTL DEF Spec
<1> QED  BY <1>2 DEF NewestGoFirst
=============================================================================
