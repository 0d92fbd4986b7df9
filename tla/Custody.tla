------------------------------- MODULE Custody -------------------------------
(***************************************************************************)
(* What a binding controller promises about the workloads it runs on the   *)
(* spokes, whatever the service: a hub request is taken into custody (its  *)
(* finalizer is set) before anything is started for it, and leaves custody *)
(* only when nothing of it runs any more.                                  *)
(***************************************************************************)
CONSTANTS
    Requests,   \* keys of hub requests
    Workloads   \* what may run on a spoke, each with its owner

VARIABLES
    custody,    \* of each request: no object, a free one, or one that is held
    work        \* the workloads under way

cvars == <<custody, work>>

CustodyTypeOK ==
    /\ custody \in [Requests -> {"none", "free", "held"}]
    /\ work \subseteq Workloads

CustodyInit ==
    /\ custody = [r \in Requests |-> "none"]
    /\ work = {}

Appear(r) ==
    /\ custody[r] = "none"
    /\ custody' = [custody EXCEPT ![r] = "free"]
    /\ UNCHANGED work

Vanish(r) ==
    /\ custody[r] = "free"
    /\ custody' = [custody EXCEPT ![r] = "none"]
    /\ UNCHANGED work

Hold(r) ==
    /\ custody[r] = "free"
    /\ custody' = [custody EXCEPT ![r] = "held"]
    /\ UNCHANGED work

Release(r) ==
    /\ custody[r] = "held"
    /\ \A w \in work : w.owner # r
    /\ custody' = [custody EXCEPT ![r] = "none"]
    /\ UNCHANGED work

Start(w) ==
    /\ custody[w.owner] = "held"
    /\ work' = work \cup {w}
    /\ UNCHANGED custody

Stop(w) ==
    /\ work' = work \ {w}
    /\ UNCHANGED custody

CustodyNext ==
    \/ \E r \in Requests : Appear(r) \/ Vanish(r) \/ Hold(r) \/ Release(r)
    \/ \E w \in Workloads : Start(w) \/ Stop(w)

CustodySpec == CustodyInit /\ [][CustodyNext]_cvars

\* Nothing runs for a request that is not held.
NoOrphan == \A w \in work : custody[w.owner] = "held"
=============================================================================
