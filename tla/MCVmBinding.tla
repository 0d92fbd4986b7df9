---------------------------- MODULE MCVmBinding ----------------------------
(***************************************************************************)
(* Small instances of VmBinding: names and placements for up to two        *)
(* requests, as Kro writes them for the intents web and db of one tenant.  *)
(***************************************************************************)
EXTENDS VmBinding

CONSTANTS r1, r2, acme, globex, eu, us

\* The names the requests' VMs are prefixed with.
Names == [r \in Requests |-> IF r = r1 THEN "web-eu" ELSE "db-eu"]

InOneNamespace == [r \in Requests |-> acme]

\* Both requests in one region and namespace, with one cloud-init Secret.
Together == 
    [r \in Requests |->
        [region |-> eu, tenant |-> acme, secret |-> "cloudinit"]]
(***************************************************************************)
(* The process starts over two requests that share their Secret: the first *)
(* was served and is being deleted, the second was just ordered.           *)
(***************************************************************************)
Ordered(r) ==
    [phase |-> "live", fin |-> FALSE, tenant |-> Home[r].tenant,
     region |-> Home[r].region, replicas |-> 1, secret |-> Home[r].secret,
     status |-> None]

SharedInit ==
    /\ hub = [r \in Requests |->
                IF r = r1
                THEN [Ordered(r) EXCEPT !.phase = "deleting", !.fin = TRUE,
                         !.status = Status(eu, "Ready", 1, "none")]
                ELSE Ordered(r)]
    /\ hubSecrets = [ns \in HubNamespaces |-> [name \in SecretNames |-> "old"]]
    /\ vms = {[at |-> eu, ns |-> acme, name |-> VMName(NameOf[r1], 0),
               owner |-> r1, ready |-> TRUE, going |-> FALSE]}
    /\ spokeSecrets = {[at |-> eu, ns |-> acme, name |-> "cloudinit",
                        data |-> "old"]}
    /\ engaged = Served
    /\ queue = Requests /\ timers = {} /\ events = {KeyOf(v) : v \in vms}
    /\ rw = Idle /\ sw = Idle
    /\ disturbances = 0

SharedSpec == SharedInit /\ [][SteadyNext]_vars /\ Fairness
=============================================================================
