------------------------------- MODULE VmPlan -------------------------------
(***************************************************************************)
(* Runs the plans of VmDomain the way syncVMs does, one API call at a      *)
(* time, with the loop cut short anywhere (a failed call, a restart) and   *)
(* the request rescaled between two plans.  A deleted VM lingers until     *)
(* KubeVirt has taken it down, in any order, and syncVMs counts it as      *)
(* there while it does.                                                    *)
(***************************************************************************)
EXTENDS VmDomain

CONSTANTS
    Request,    \* the request's name, the base of its VM names
    Names,      \* names that VMs carrying the request's labels may have
    MaxReplicas

ASSUME VmPlanAssumption ==
    /\ Names \subseteq [base : {Request}, form : Forms, index : Int]
    /\ MaxReplicas \in Nat
    /\ DesiredVMNames(Request, MaxReplicas) \subseteq Names

VARIABLES
    replicas,   \* what the request wants now
    existing,   \* names of the VMs that are listed
    going,      \* those of them with a deletionTimestamp
    create,     \* what is left of the plan
    delete

\* Only to state what a plan leaves behind.
VARIABLE vanished   \* names KubeVirt took down since the plan was made

vars == <<replicas, existing, going, create, delete, vanished>>

Wanted == DesiredVMNames(Request, replicas)

Init ==
    /\ replicas \in 1 .. MaxReplicas
    /\ existing \in SUBSET Names
    /\ going \in SUBSET existing
    /\ LET plan == PlanVMs(Request, replicas, existing)
       IN  create = plan.create /\ delete = plan.delete
    /\ vanished = {}

\* The next call of the first loop, and of the second once that is done.
CreateNext ==
    /\ \E n \in NextCreate(create) :
          /\ existing' = existing \cup {n}
          /\ create' = create \ {n}
    /\ UNCHANGED <<replicas, going, delete, vanished>>

\* Delete answers NotFound for a VM that has vanished, which counts as done.
DeleteNext ==
    /\ create = {}
    /\ \E n \in NextDelete(Request, delete) :
          /\ going' = going \cup ({n} \cap existing)
          /\ delete' = delete \ {n}
    /\ UNCHANGED <<replicas, existing, create, vanished>>

\* KubeVirt: the finalizers of a deleted VM clear.
Terminated(n) ==
    /\ n \in going
    /\ existing' = existing \ {n}
    /\ going' = going \ {n}
    /\ vanished' = vanished \cup {n}
    /\ UNCHANGED <<replicas, create, delete>>

\* The loop ends, or is cut short, and the request is planned again.
Replan ==
    /\ replicas' \in 1 .. MaxReplicas
    /\ LET plan == PlanVMs(Request, replicas', existing)
       IN  create' = plan.create /\ delete' = plan.delete
    /\ vanished' = {}
    /\ UNCHANGED <<existing, going>>

Next ==
    \/ CreateNext \/ DeleteNext \/ Replan
    \/ \E n \in Names : Terminated(n)

Spec == Init /\ [][Next]_vars

-----------------------------------------------------------------------------
\* What is left of a plan covers what is left to do, and harms nothing wanted.
PlanInv ==
    /\ replicas \in 1 .. MaxReplicas
    /\ existing \subseteq Names /\ going \subseteq existing
    /\ existing \cap vanished = {}
    /\ create = Wanted \ (existing \cup vanished)
    /\ delete \subseteq Names \ Wanted
    /\ existing \ (Wanted \cup going) \subseteq delete

(***************************************************************************)
(* A plan carried out to its end leaves exactly the wanted VMs to stay,    *)
(* whatever strangers carried the labels and wherever earlier plans were   *)
(* cut short.  All that is missing of them is what was terminating when    *)
(* the plan was made and counted as there (PlanVMs, and the two loops of   *)
(* syncVMs).                                                               *)
(***************************************************************************)
FinishedPlanIsDesired ==
    create = {} /\ delete = {} =>
       existing \ going = Wanted \ (going \cup vanished)

(***************************************************************************)
(* A VM is created only when all of a lower index are there, or were there *)
(* terminating when the plan was made and have vanished since: through any *)
(* rescales and interrupted plans, creation fills from the bottom (the     *)
(* sort of plan.Create in PlanVMs).                                        *)
(***************************************************************************)
LowestComeFirst ==
    [][\A new \in existing' \ existing : \A i \in 0 .. (new.index - 1) :
          VMName(Request, i) \in existing \cup vanished]_vars

(***************************************************************************)
(* Each deletion takes the newest surplus VM: none that reads as a higher  *)
(* index is left to stay, and a name that does not read as an index goes   *)
(* only when no numbered surplus is left (the comment on PlanVMs).         *)
(***************************************************************************)
NewestGoFirst ==
    [][\A gone \in going' \ going :
          \A left \in (existing' \ going') \ Wanted :
             left.form # "other" =>
                gone.form # "other" /\ gone.index >= left.index]_vars

=============================================================================
