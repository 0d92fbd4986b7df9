----------------------------- MODULE VmBinding -----------------------------
(***************************************************************************)
(* The vm-binding-controller: one request worker that turns each hub       *)
(* RegionalVmSetRequest into VMs and a cloud-init Secret on the spoke of   *)
(* its region, and one status worker that follows VM events back to the    *)
(* hub.  Between two API calls of a worker anything else may happen: every *)
(* call is a step, and what a worker read before it is kept in its record. *)
(*                                                                         *)
(* Around the workers: users who order, scale, edit and delete requests,   *)
(* KubeVirt, which starts VMs and takes its time to remove them, the       *)
(* provider, which engages and disengages spokes, failing calls and        *)
(* restarts of the process.                                                *)
(***************************************************************************)
EXTENDS VmDomain

CONSTANTS
    Requests,       \* keys (hub namespace and name) of requests
    NameOf,         \* the object name in a key: the prefix of its VM names
    HubNamespaceOf, \* the hub namespace in a key
    HubNamespaces,
    Regions,        \* every region the CRD knows; also the spokes' names
    Tenants,        \* tenant label values; also the namespaces on a spoke
    SecretNames,
    Home,           \* the placement Kro writes into a request
    Data,           \* contents a cloud-init Secret may have
    Served,         \* regions whose cluster matches the provider's selector
    Editable,       \* what may be rewritten: a request's "tenant", "region"
                    \* or "secret", or the "content" of a hub Secret
    MaxReplicas,
    MaxDisturbances, \* bound: user changes and faults in one behaviour
    None            \* an absent label, an empty string, a missing object

Placements == [region : Regions, tenant : Tenants, secret : SecretNames]

ASSUME VmBindingAssumption ==
    /\ NameOf \in [Requests -> STRING]
    /\ HubNamespaceOf \in [Requests -> HubNamespaces]
    /\ Home \in [Requests -> Placements]
    /\ Served \subseteq Regions
    /\ MaxReplicas \in Nat /\ MaxDisturbances \in Nat
    /\ None \notin Regions \cup Tenants \cup SecretNames \cup Data

VARIABLES
    hub,          \* request objects
    hubSecrets,   \* contents of the hub's cloud-init Secrets
    vms,          \* VM objects on every spoke
    spokeSecrets, \* Secrets the controller wrote to the spokes
    engaged,      \* spokes the provider has handed to the manager
    queue,        \* requests in the request controller's work queue
    timers,       \* requests with a RequeueAfter running
    events,       \* VM keys in the status controller's work queue
    rw,           \* the request worker
    sw,           \* the status worker
    disturbances  \* how often users changed something or something failed

hubVars == <<hub, hubSecrets>>
spokeVars == <<vms, spokeSecrets>>
vars == <<hub, hubSecrets, vms, spokeSecrets, engaged, queue, timers, events,
          rw, sw, disturbances>>

-----------------------------------------------------------------------------
(* The objects. *)

Replicas == 1 .. MaxReplicas

\* No object on the hub: no finalizer either.
Absent == [phase |-> "absent", fin |-> FALSE]

Statuses == [region : Regions, phase : Phases, readyReplicas : Nat,
             message : Messages]

\* "deleting" is a set deletionTimestamp, fin the presence of Finalizer.
Objects == [phase : {"live", "deleting"}, fin : BOOLEAN,
            tenant : Tenants \cup {None}, region : Regions,
            replicas : Replicas, secret : SecretNames \cup {None},
            status : Statuses \cup {None}]

\* The CRD lets cloudInitSecretName be empty; RequestFromObject does not.
Parses(o) == o.secret # None

VMNames == {VMName(NameOf[r], i) : r \in Requests, i \in 0 .. (MaxReplicas - 1)}

VMs == [at : Regions, ns : Tenants, name : VMNames, owner : Requests,
        ready : BOOLEAN, going : BOOLEAN]

VMKeys == [at : Regions, ns : Tenants, name : VMNames]

KeyOf(v) == [at |-> v.at, ns |-> v.ns, name |-> v.name]

SpokeSecrets == [at : Regions, ns : Tenants, name : SecretNames, data : Data]

SlipListNamespace(g, t, r) == {v \in vms : v.at = g /\ v.ns = t}

\* listVMs: the VMs with the request's owner labels in its namespace.
Owned(g, t, r) == {v \in vms : v.at = g /\ v.ns = t /\ v.owner = r}

NamesIn(S) == {v.name : v \in S}

\* The status controller watches VMs on engaged spokes only.
Notify(keys) == events \cup {k \in keys : k.at \in engaged}

-----------------------------------------------------------------------------
(* The workers. *)

Idle == [pc |-> "idle"]

RequestSteps == {"guard", "resolve", "secret", "copy", "plan", "apply",
                 "report", "sweep", "clean", "release"}

RequestWorkers ==
    [pc : RequestSteps, key : Requests, obj : Objects,
     spoke : Regions \cup {None}, data : Data \cup {None},
     create : SUBSET VMNames, delete : SUBSET VMNames,
     status : Statuses \cup {None}]

StatusSteps == {"observe", "report"}

StatusWorkers ==
    [pc : StatusSteps, vm : VMKeys, key : Requests,
     obj : Objects, status : Statuses \cup {None}]

TypeOK ==
    /\ hub \in [Requests -> Objects \cup {Absent}]
    /\ hubSecrets \in [HubNamespaces -> [SecretNames -> Data \cup {None}]]
    /\ vms \subseteq VMs
    /\ spokeSecrets \subseteq SpokeSecrets
    /\ engaged \subseteq Regions
    /\ queue \subseteq Requests
    /\ timers \subseteq Requests
    /\ events \subseteq VMKeys
    /\ rw \in RequestWorkers \cup {Idle}
    /\ sw \in StatusWorkers \cup {Idle}
    /\ disturbances \in Nat

-----------------------------------------------------------------------------
(***************************************************************************)
(* The request worker (controller/reconciler.go).  controller-runtime runs *)
(* one worker per controller, so a key is never worked on twice at once.   *)
(***************************************************************************)

SlipNoFinalizer(o) ==
    IF o.phase # "live" \/ ~Parses(o) THEN "idle"
    ELSE IF o.tenant = None THEN "report" ELSE "resolve"

\* Reconcile's early returns, and the branch it takes for an object it read.
Start(o) ==
    CASE o.phase = "absent" -> "idle"
      [] o.phase = "deleting" ->
            IF ~o.fin THEN "idle"
            ELSE IF Parses(o) /\ o.tenant # None THEN "resolve" ELSE "release"
      [] OTHER ->
            IF ~Parses(o) THEN "idle"
            ELSE IF o.tenant = None THEN "report"
            ELSE IF ~o.fin THEN "guard" ELSE "resolve"

\* Take a key from the queue and read its object.
Fetch(r) ==
    /\ rw.pc = "idle"
    /\ r \in queue
    /\ queue' = queue \ {r}
    /\ rw' = IF Start(hub[r]) = "idle" THEN Idle
             ELSE [pc |-> Start(hub[r]), key |-> r, obj |-> hub[r],
                   spoke |-> None, data |-> None, create |-> {}, delete |-> {},
                   status |-> IF Start(hub[r]) = "report"
                              THEN MissingTenantStatus(hub[r].region)
                              ELSE None]
    /\ UNCHANGED <<hubVars, spokeVars, engaged, timers, events, sw, disturbances>>

\* The call returned an error: the key is tried again, after a backoff.
Retry ==
    /\ rw' = Idle
    /\ queue' = queue \cup {rw.key}

\* Patch the finalizer in.  The patch carries no resourceVersion, and its
\* answer replaces the object the worker holds, but not the parsed request.
AddFinalizer ==
    /\ rw.pc = "guard"
    /\ IF hub[rw.key].phase = "live"
       THEN /\ hub' = [hub EXCEPT ![rw.key].fin = TRUE]
            /\ queue' = queue \cup {rw.key}
            /\ rw' = [rw EXCEPT !.pc = "resolve",
                                !.obj.status = hub[rw.key].status]
       ELSE UNCHANGED hub /\ Retry
    /\ UNCHANGED <<hubSecrets, spokeVars, engaged, timers, events, sw, disturbances>>

SlipWaitForSpoke ==
    /\ rw.pc = "resolve"
    /\ rw' = IF rw.obj.region \in engaged
             THEN [rw EXCEPT !.spoke = rw.obj.region,
                             !.pc = IF rw.obj.phase = "deleting"
                                    THEN "sweep" ELSE "secret"]
             ELSE Idle
    /\ timers' = IF rw.obj.region \in engaged THEN timers
                 ELSE timers \cup {rw.key}
    /\ UNCHANGED <<hubVars, spokeVars, engaged, queue, events, sw,
                   disturbances>>

\* GetCluster: the spoke's client, or what is done without one.
Resolve ==
    /\ rw.pc = "resolve"
    /\ rw' = IF rw.obj.region \in engaged
             THEN [rw EXCEPT !.spoke = rw.obj.region,
                             !.pc = IF rw.obj.phase = "deleting"
                                    THEN "sweep" ELSE "secret"]
             ELSE IF rw.obj.phase = "deleting"
             THEN [rw EXCEPT !.pc = "release"]
             ELSE [rw EXCEPT !.pc = "report",
                             !.status = UnschedulableStatus(rw.obj.region)]
    /\ UNCHANGED <<hubVars, spokeVars, engaged, queue, timers, events, sw,
                   disturbances>>

\* syncSecret, first half: read the hub's Secret.
ReadHubSecret ==
    /\ rw.pc = "secret"
    /\ LET data == hubSecrets[HubNamespaceOf[rw.key]][rw.obj.secret]
       IN  IF data = None THEN Retry
           ELSE /\ rw' = [rw EXCEPT !.pc = "copy", !.data = data]
                /\ UNCHANGED queue
    /\ UNCHANGED <<hubVars, spokeVars, engaged, timers, events, sw, disturbances>>

SlipNeverUpdate ==
    /\ rw.pc = "copy"
    /\ LET copy == [at |-> rw.spoke, ns |-> rw.obj.tenant,
                    name |-> rw.obj.secret, data |-> rw.data]
       IN  spokeSecrets' =
              IF \E s \in spokeSecrets : KeyOf(s) = KeyOf(copy)
              THEN spokeSecrets ELSE spokeSecrets \cup {copy}
    /\ rw' = [rw EXCEPT !.pc = "plan"]
    /\ UNCHANGED <<hubVars, vms, engaged, queue, timers, events, sw,
                   disturbances>>

\* syncSecret, second half: create or update the copy.  Nobody else writes
\* Secrets of this name on the spoke, so the read and the write are one step.
CopySecret ==
    /\ rw.pc = "copy"
    /\ LET copy == [at |-> rw.spoke, ns |-> rw.obj.tenant,
                    name |-> rw.obj.secret, data |-> rw.data]
       IN  spokeSecrets' =
              {s \in spokeSecrets : KeyOf(s) # KeyOf(copy)} \cup {copy}
    /\ rw' = [rw EXCEPT !.pc = "plan"]
    /\ UNCHANGED <<hubVars, vms, engaged, queue, timers, events, sw, disturbances>>

\* syncVMs: list what the request owns and plan.
Plan ==
    /\ rw.pc = "plan"
    /\ LET plan == PlanVMs(NameOf[rw.key], rw.obj.replicas,
                           NamesIn(Owned(rw.spoke, rw.obj.tenant, rw.key)))
       IN  rw' = [rw EXCEPT !.pc = "apply", !.create = plan.create,
                            !.delete = plan.delete]
    /\ UNCHANGED <<hubVars, spokeVars, engaged, queue, timers, events, sw,
                   disturbances>>

\* One Create; a VM that has the name already is left as it is.
CreateVM ==
    /\ rw.pc = "apply"
    /\ \E n \in NextCreate(rw.create) :
          LET v == [at |-> rw.spoke, ns |-> rw.obj.tenant, name |-> n,
                    owner |-> rw.key, ready |-> FALSE, going |-> FALSE]
          IN  /\ IF \E u \in vms : KeyOf(u) = KeyOf(v)
                 THEN UNCHANGED <<vms, events>>
                 ELSE vms' = vms \cup {v} /\ events' = Notify({KeyOf(v)})
              /\ rw' = [rw EXCEPT !.create = @ \ {n}]
    /\ UNCHANGED <<hubVars, spokeSecrets, engaged, queue, timers, sw, disturbances>>

\* A Delete call: the VM stays, with a deletionTimestamp, until KubeVirt has
\* taken it down.
MarkGoing(keys) ==
    /\ vms' = {IF KeyOf(v) \in keys THEN [v EXCEPT !.going = TRUE] ELSE v :
                 v \in vms}
    /\ events' = Notify({KeyOf(v) : v \in {u \in vms : ~u.going}} \cap keys)

DeleteCall(n) ==
    /\ MarkGoing({[at |-> rw.spoke, ns |-> rw.obj.tenant, name |-> n]})
    /\ rw' = [rw EXCEPT !.delete = @ \ {n}]
    /\ UNCHANGED <<hubVars, spokeSecrets, engaged, queue, timers, sw, disturbances>>

\* One Delete of syncVMs: by name alone, once every Create is done.
DeleteVM ==
    /\ rw.pc = "apply"
    /\ rw.create = {}
    /\ \E n \in NextDelete(NameOf[rw.key], rw.delete) : DeleteCall(n)

\* The status that follows from the VMs that are there now.
Observed(g, nss, r, o) ==
    ReadyStatus(NameOf[r], o.replicas, o.region,
                NamesIn({v \in UNION {Owned(g, t, r) : t \in nss} : v.ready}))

\* syncStatus: list once more.
Observe ==
    /\ rw.pc = "apply"
    /\ rw.create = {} /\ rw.delete = {}
    /\ rw' = [rw EXCEPT !.pc = "report",
                        !.status = Observed(rw.spoke, {rw.obj.tenant}, rw.key,
                                            rw.obj)]
    /\ UNCHANGED <<hubVars, spokeVars, engaged, queue, timers, events, sw,
                   disturbances>>

SlipUnseenWrite(r, status) ==
    /\ hub' = [hub EXCEPT ![r].status = status]
    /\ UNCHANGED queue

\* patchStatus writes when the object the worker holds differs, whatever the
\* hub holds by now.  The write comes back to the request worker as an event.
Patch(r, status) ==
    /\ hub' = [hub EXCEPT ![r].status = status]
    /\ queue' = queue \cup {r}

SlipNoResync == UNCHANGED timers

\* A request without a tenant is not looked at again until it changes.
RequeueLater ==
    timers' = IF rw.obj.tenant = None THEN timers ELSE timers \cup {rw.key}

\* patchStatus, the last call: unchanged, written, or NotFound and retried.
Report ==
    /\ rw.pc = "report"
    /\ rw' = Idle
    /\ \/ /\ rw.status = rw.obj.status
          /\ UNCHANGED <<hub, queue>>
          /\ RequeueLater
       \/ /\ rw.status # rw.obj.status
          /\ hub[rw.key].phase # "absent"
          /\ Patch(rw.key, rw.status)
          /\ RequeueLater
       \/ /\ rw.status # rw.obj.status
          /\ hub[rw.key].phase = "absent"
          /\ queue' = queue \cup {rw.key}
          /\ UNCHANGED <<hub, timers>>
    /\ UNCHANGED <<hubSecrets, spokeVars, engaged, events, sw, disturbances>>

\* cleanSpoke: list what the request owns ...
Sweep ==
    /\ rw.pc = "sweep"
    /\ rw' = [rw EXCEPT !.pc = "clean",
                 !.delete = NamesIn(Owned(rw.spoke, rw.obj.tenant, rw.key))]
    /\ UNCHANGED <<hubVars, spokeVars, engaged, queue, timers, events, sw,
                   disturbances>>

\* ... delete each VM, without waiting for it to be gone ...
CleanVM ==
    /\ rw.pc = "clean"
    /\ \E n \in rw.delete : DeleteCall(n)

SlipSecretFirst ==
    /\ rw.pc = "clean"
    /\ spokeSecrets' =
          {s \in spokeSecrets : KeyOf(s) # [at |-> rw.spoke,
                                            ns |-> rw.obj.tenant,
                                            name |-> rw.obj.secret]}
    /\ rw' = [rw EXCEPT !.pc = "release"]
    /\ UNCHANGED <<hubVars, vms, engaged, queue, timers, events, sw,
                   disturbances>>

\* ... and the Secret of the name the request gives, whoever uses it.
CleanSecret ==
    /\ rw.pc = "clean"
    /\ rw.delete = {}
    /\ spokeSecrets' =
          {s \in spokeSecrets : KeyOf(s) # [at |-> rw.spoke,
                                            ns |-> rw.obj.tenant,
                                            name |-> rw.obj.secret]}
    /\ rw' = [rw EXCEPT !.pc = "release"]
    /\ UNCHANGED <<hubVars, vms, engaged, queue, timers, events, sw, disturbances>>

\* Drop the finalizer, the only one: the object is gone with it.
Release ==
    /\ rw.pc = "release"
    /\ hub' = [hub EXCEPT ![rw.key] = Absent]
    /\ rw' = Idle
    /\ queue' = queue \cup {rw.key}
    /\ UNCHANGED <<hubSecrets, spokeVars, engaged, timers, events, sw, disturbances>>

\* A requeue interval has passed.
Tick(r) ==
    /\ r \in timers
    /\ timers' = timers \ {r}
    /\ queue' = queue \cup {r}
    /\ UNCHANGED <<hubVars, spokeVars, engaged, events, rw, sw, disturbances>>

\* What the request worker does with a request it has in hand.
RequestStep ==
    \/ AddFinalizer \/ Resolve \/ ReadHubSecret \/ CopySecret \/ Plan
    \/ CreateVM \/ DeleteVM \/ Observe \/ Report
    \/ Sweep \/ CleanVM \/ CleanSecret \/ Release
-----------------------------------------------------------------------------
(***************************************************************************)
(* The status worker (controller/status_reconciler.go).                    *)
(***************************************************************************)

\* Take a VM event.  A spoke that is no longer engaged and a VM that is gone
\* end the reconcile; so do an owner that is gone or malformed and one placed
\* in another region.  The VM is read for its labels, which never change, so
\* reading it and reading the owner they name are one step.
FetchVM(k) ==
    /\ sw.pc = "idle"
    /\ k \in events
    /\ events' = events \ {k}
    /\ \/ \E v \in vms :
             LET o == hub[v.owner]
             IN  /\ KeyOf(v) = k /\ k.at \in engaged
                 /\ sw' = IF o.phase # "absent" /\ Parses(o)
                             /\ o.region = k.at
                          THEN [pc |-> "observe", vm |-> k, key |-> v.owner,
                                obj |-> o, status |-> None]
                          ELSE Idle
       \/ /\ k.at \notin engaged \/ \A v \in vms : KeyOf(v) # k
          /\ UNCHANGED sw
    /\ UNCHANGED <<hubVars, spokeVars, engaged, queue, timers, rw, disturbances>>

\* Takes the VM of the event for all there are.
SlipThisVMOnly ==
    /\ sw.pc = "observe"
    /\ sw' = [sw EXCEPT !.pc = "report",
                 !.status = ReadyStatus(NameOf[sw.key], sw.obj.replicas,
                               sw.obj.region,
                               NamesIn({v \in vms : KeyOf(v) = sw.vm /\ v.ready}))]
    /\ UNCHANGED <<hubVars, spokeVars, engaged, queue, timers, events, rw,
                   disturbances>>

\* syncStatus: list the request's VMs.  An empty tenant lists every namespace.
ObserveForStatus ==
    /\ sw.pc = "observe"
    /\ sw' = [sw EXCEPT !.pc = "report",
                 !.status = Observed(sw.vm.at,
                                     IF sw.obj.tenant = None THEN Tenants
                                     ELSE {sw.obj.tenant},
                                     sw.key, sw.obj)]
    /\ UNCHANGED <<hubVars, spokeVars, engaged, queue, timers, events, rw,
                   disturbances>>

ReportForStatus ==
    /\ sw.pc = "report"
    /\ sw' = Idle
    /\ \/ /\ sw.status = sw.obj.status
          /\ UNCHANGED <<hub, queue, events>>
       \/ /\ sw.status # sw.obj.status
          /\ hub[sw.key].phase # "absent"
          /\ Patch(sw.key, sw.status)
          /\ UNCHANGED events
       \/ /\ sw.status # sw.obj.status
          /\ hub[sw.key].phase = "absent"
          /\ events' = events \cup {sw.vm}
          /\ UNCHANGED <<hub, queue>>
    /\ UNCHANGED <<hubSecrets, spokeVars, engaged, timers, rw, disturbances>>

StatusStep ==
    \/ \E k \in VMKeys : FetchVM(k)
    \/ ObserveForStatus \/ ReportForStatus

-----------------------------------------------------------------------------
(***************************************************************************)
(* KubeVirt on the spokes.                                                 *)
(***************************************************************************)

SetReady(v, ready) ==
    /\ vms' = (vms \ {v}) \cup {[v EXCEPT !.ready = ready]}
    /\ events' = Notify({KeyOf(v)})

Started(v) ==
    /\ v \in vms
    /\ ~v.ready /\ ~v.going
    /\ SetReady(v, TRUE)
    /\ UNCHANGED <<hubVars, spokeSecrets, engaged, queue, timers, rw, sw,
                   disturbances>>

\* A deleted VM has been taken down.
Terminated(v) ==
    /\ v \in vms
    /\ v.going
    /\ vms' = vms \ {v}
    /\ events' = Notify({KeyOf(v)})
    /\ UNCHANGED <<hubVars, spokeSecrets, engaged, queue, timers, rw, sw,
                   disturbances>>

KubeVirt == \E v \in vms : Started(v) \/ Terminated(v)

-----------------------------------------------------------------------------
(***************************************************************************)
(* Users, and Kro on their behalf.  Each change is an event for the        *)
(* request worker, except to the hub Secret, which nobody watches.         *)
(***************************************************************************)
Disturb ==
    /\ disturbances < MaxDisturbances
    /\ disturbances' = disturbances + 1

Change ==
    /\ Disturb
    /\ UNCHANGED <<spokeVars, engaged, timers, events, rw, sw>>

Write(r, o) ==
    /\ hub' = [hub EXCEPT ![r] = o]
    /\ queue' = queue \cup {r}
    /\ UNCHANGED hubSecrets

Order(r) ==
    /\ hub[r].phase = "absent"
    /\ \E n \in Replicas :
          Write(r, [phase |-> "live", fin |-> FALSE, tenant |-> Home[r].tenant,
                    region |-> Home[r].region, replicas |-> n,
                    secret |-> Home[r].secret, status |-> None])
    /\ Change

Scale(r) ==
    /\ hub[r].phase = "live"
    /\ \E n \in Replicas \ {hub[r].replicas} :
          Write(r, [hub[r] EXCEPT !.replicas = n])
    /\ Change

\* Without a finalizer the object is gone at once.
Delete(r) ==
    /\ hub[r].phase = "live"
    /\ Write(r, IF hub[r].fin THEN [hub[r] EXCEPT !.phase = "deleting"]
                ELSE Absent)
    /\ Change

RewriteSecret(ns, name) ==
    /\ "content" \in Editable
    /\ \E d \in (Data \cup {None}) \ {hubSecrets[ns][name]} :
          hubSecrets' = [hubSecrets EXCEPT ![ns][name] = d]
    /\ UNCHANGED <<hub, queue>>
    /\ Change

\* An edit of what Kro would leave alone: the label, or a mutable field.
Edit(r) ==
    /\ hub[r].phase # "absent"
    /\ \/ /\ "tenant" \in Editable
          /\ \E t \in (Tenants \cup {None}) \ {hub[r].tenant} :
                Write(r, [hub[r] EXCEPT !.tenant = t])
       \/ /\ "region" \in Editable
          /\ \E g \in Regions \ {hub[r].region} :
                Write(r, [hub[r] EXCEPT !.region = g])
       \/ /\ "secret" \in Editable
          /\ \E s \in (SecretNames \cup {None}) \ {hub[r].secret} :
                Write(r, [hub[r] EXCEPT !.secret = s])
    /\ Change

-----------------------------------------------------------------------------
(***************************************************************************)
(* What goes wrong.                                                        *)
(***************************************************************************)
Fault ==
    /\ Disturb
    /\ UNCHANGED <<hubVars, spokeSecrets>>

\* Resolve looks into the provider's map, and a report that changes nothing
\* makes no call: those cannot fail.
RequestCallFails ==
    /\ rw.pc \notin {"idle", "resolve"}
    /\ rw.pc = "report" => rw.status # rw.obj.status
    /\ Retry
    /\ Fault
    /\ UNCHANGED <<vms, engaged, timers, events, sw>>

StatusCallFails ==
    /\ sw.pc # "idle"
    /\ sw.pc = "report" => sw.status # sw.obj.status
    /\ sw' = Idle
    /\ events' = events \cup {sw.vm}
    /\ Fault
    /\ UNCHANGED <<vms, engaged, queue, timers, rw>>

\* A VM goes down, or somebody deletes it on the spoke.
Stopped(v) ==
    /\ v.ready
    /\ SetReady(v, FALSE)
    /\ Fault
    /\ UNCHANGED <<engaged, queue, timers, rw, sw>>

DeletedOutOfBand(v) ==
    /\ ~v.going
    /\ MarkGoing({KeyOf(v)})
    /\ Fault
    /\ UNCHANGED <<engaged, queue, timers, rw, sw>>

\* The process starts again: the workers and timers are lost, and the watches
\* list every request, and every VM on the spokes engaged by then.
Restart(spokes) ==
    /\ rw' = Idle /\ sw' = Idle
    /\ timers' = {}
    /\ queue' = {r \in Requests : hub[r].phase # "absent"}
    /\ engaged' = spokes
    /\ events' = {KeyOf(v) : v \in {u \in vms : u.at \in spokes}}
    /\ Fault
    /\ UNCHANGED vms

Disengage(g) ==
    /\ g \in engaged
    /\ engaged' = engaged \ {g}
    /\ events' = {k \in events : k.at # g}
    /\ Fault
    /\ UNCHANGED <<vms, queue, timers, rw, sw>>

\* The provider's poll finds a matching spoke and starts the watch on it.
Engage(g) ==
    /\ g \in Served \ engaged
    /\ engaged' = engaged \cup {g}
    /\ events' = events \cup {KeyOf(v) : v \in {u \in vms : u.at = g}}
    /\ UNCHANGED <<hubVars, spokeVars, queue, timers, rw, sw, disturbances>>

-----------------------------------------------------------------------------
InitWith(spokes) ==
    /\ hub = [r \in Requests |-> Absent]
    /\ hubSecrets \in [HubNamespaces -> [SecretNames -> Data]]
    /\ vms = {} /\ spokeSecrets = {}
    /\ engaged = spokes
    /\ queue = {} /\ timers = {} /\ events = {}
    /\ rw = Idle /\ sw = Idle
    /\ disturbances = 0

\* What happens while the spokes stay engaged and requests are as Kro writes
\* them.
Steady ==
    \/ \E r \in Requests : Fetch(r) \/ Tick(r)
    \/ RequestStep
    \/ StatusStep
    \/ KubeVirt
    \/ \E r \in Requests : Order(r) \/ Scale(r) \/ Delete(r)
    \/ \E ns \in HubNamespaces, name \in SecretNames : RewriteSecret(ns, name)
    \/ RequestCallFails \/ StatusCallFails
    \/ \E v \in vms : Stopped(v) \/ DeletedOutOfBand(v)

(***************************************************************************)
(* SteadySpec takes the provider's part for granted: the served spokes are *)
(* engaged before the workers start, also after a restart.                 *)
(***************************************************************************)
SteadyNext == Steady \/ Restart(engaged)

SteadyInit == InitWith(Served)

SteadySpec == SteadyInit /\ [][SteadyNext]_vars

(***************************************************************************)
(* Spec is the program as main.go starts it: the provider engages spokes   *)
(* while the workers already run, and may lose them; fields are edited.    *)
(***************************************************************************)
Next ==
    \/ Steady
    \/ Restart({})
    \/ \E g \in Regions : Engage(g) \/ Disengage(g)
    \/ \E r \in Requests : Edit(r)

Init == InitWith({})

Spec == Init /\ [][Next]_vars

(***************************************************************************)
(* Fairness.  Each worker goes on with what it has; the request queue is   *)
(* first in, first out, so a key that waits is served in the end (strong,  *)
(* since the worker is busy in between); timers fire; KubeVirt starts VMs  *)
(* and finishes deletions; the provider polls for ever.                    *)
(***************************************************************************)
Fairness ==
    /\ WF_vars(RequestStep)
    /\ \A r \in Requests : SF_vars(Fetch(r)) /\ WF_vars(Tick(r))
    /\ WF_vars(StatusStep)
    /\ WF_vars(KubeVirt)

FairSteadySpec == SteadySpec /\ Fairness

FairSpec == Spec /\ Fairness /\ \A g \in Regions : WF_vars(Engage(g))

-----------------------------------------------------------------------------
(***************************************************************************)
(* Safety.                                                                 *)
(***************************************************************************)

\* VM objects that were not there before this step.
NewVMs == {v \in vms' : \A u \in vms : KeyOf(u) # KeyOf(v)}

\* VMs that this step asks KubeVirt to take down.
NewlyGoing == {v \in vms : ~v.going /\ [v EXCEPT !.going = TRUE] \in vms'}

(***************************************************************************)
(* What each step of the request worker has been given by the one before:  *)
(* a placement from Start, a spoke from Resolve, data from ReadHubSecret.  *)
(***************************************************************************)
SpokeSteps == {"secret", "copy", "plan", "apply", "sweep", "clean"}

Equipped ==
    /\ rw.pc \in SpokeSteps \cup {"guard", "resolve"} =>
          Parses(rw.obj) /\ rw.obj.tenant # None
    /\ rw.pc \in SpokeSteps => rw.spoke # None
    /\ rw.pc = "copy" => rw.data # None

(***************************************************************************)
(* A VM is created only while the hub request it is labelled with exists   *)
(* and carries the finalizer, and only after the cloud-init Secret it      *)
(* boots from is in its namespace, however old the worker's reads are by   *)
(* then (the order of Reconcile: finalizer, syncSecret, syncVMs).          *)
(***************************************************************************)
CreatedInOrder ==
    [][\A v \in NewVMs :
          /\ hub[v.owner].fin
          /\ \E s \in spokeSecrets :
                /\ s.at = v.at /\ s.ns = v.ns
                /\ s.name = rw.obj.secret]_vars

(***************************************************************************)
(* The controller takes down no VM but those of the request it works on,   *)
(* though Delete names a VM and not its owner (syncVMs, cleanSpoke).       *)
(***************************************************************************)
DeletesOnlyOwn ==
    [][rw' # rw /\ rw.pc # "idle" =>
          \A v \in NewlyGoing : v.owner = rw.key]_vars

(***************************************************************************)
(* A finalizer that is released after cleanSpoke leaves no VM of the       *)
(* request running, and no Secret of its name, in the place the worker     *)
(* cleaned, whatever happened since it listed the VMs (finalize).          *)
(***************************************************************************)
ReleasedAfterCleaning ==
    [][\A r \in Requests :
          hub[r].fin /\ ~hub'[r].fin /\ rw.spoke # None =>
             /\ \A v \in Owned(rw.spoke, rw.obj.tenant, r) : v.going
             /\ \A s \in spokeSecrets :
                   KeyOf(s) # [at |-> rw.spoke, ns |-> rw.obj.tenant,
                               name |-> rw.obj.secret]]_vars

\* A deleted request still held, and a live one that can be understood, unless
\* it has no tenant and says so.
Owed(r) ==
    LET o == hub[r]
    IN  \/ o.phase = "deleting" /\ o.fin
        \/ /\ o.phase = "live" /\ Parses(o)
           /\ o.tenant = None => o.status # MissingTenantStatus(o.region)

(***************************************************************************)
(* Whatever is written while a worker is at work, and whenever calls fail  *)
(* or the process starts again, a request that needs the controller is in  *)
(* its queue, waits for a RequeueAfter, or is in the worker's hands        *)
(* (Reconcile's returns): convergence rests on this.                       *)
(***************************************************************************)
NeverForgotten ==
    \A r \in Requests :
       Owed(r) => r \in queue \cup timers \/ (rw.pc # "idle" /\ rw.key = r)

\* Why: a read that is no longer true is queued to be read again, and a worker
\* that ends without a RequeueAfter has said that the tenant is missing.
StaleIsQueued ==
    rw.pc # "idle" /\ rw.key \notin queue => rw.obj = hub[rw.key]

SaysMissing ==
    rw.pc = "report" /\ rw.obj.tenant = None =>
       rw.obj.phase = "live" /\ rw.status = MissingTenantStatus(rw.obj.region)

(***************************************************************************)
(* Why the first three hold under Spec: the API server keeps the keys of VMs   *)
(* unique; from its finalizer check on, the worker's request is held; what *)
(* it is about to delete was listed as its own, and nothing it creates in  *)
(* between has one of those names; the Secret it copied stays, as only     *)
(* this worker removes any; and what cleanSpoke listed is all there was.   *)
(***************************************************************************)
UniqueVMs == \A u, v \in vms : KeyOf(u) = KeyOf(v) => u = v

HeldWhileWorking ==
    rw.pc \in SpokeSteps \cup {"resolve", "release"} => hub[rw.key].fin

DeletesAreOwn ==
    /\ rw.pc = "apply" => rw.create \cap rw.delete = {}
    /\ rw.pc \in {"apply", "clean"} =>
          \A v \in vms :
             v.at = rw.spoke /\ v.ns = rw.obj.tenant /\ v.name \in rw.delete =>
                v.owner = rw.key

SecretCopied ==
    rw.pc \in {"plan", "apply"} =>
       \E s \in spokeSecrets :
          s.at = rw.spoke /\ s.ns = rw.obj.tenant /\ s.name = rw.obj.secret

\* A worker that has not resolved a spoke has not cleaned one.
SpokeCleaned ==
    /\ rw.pc \in {"guard", "resolve"} => rw.spoke = None
    /\ rw.pc \in {"clean", "release"} /\ rw.spoke # None =>
          \A v \in Owned(rw.spoke, rw.obj.tenant, rw.key) :
             v.going \/ (rw.pc = "clean" /\ v.name \in rw.delete)
    /\ rw.pc = "release" /\ rw.spoke # None =>
          \A s \in spokeSecrets :
             KeyOf(s) # [at |-> rw.spoke, ns |-> rw.obj.tenant,
                         name |-> rw.obj.secret]

OrderInv ==
    UniqueVMs /\ HeldWhileWorking /\ DeletesAreOwn /\ SecretCopied /\ SpokeCleaned

(***************************************************************************)
(* Every VM that runs has its cloud-init Secret beside it: the Secret is   *)
(* written before the first VM is created and removed after the last was   *)
(* deleted.  Requests must not share a Secret for this (cleanSpoke).       *)
(***************************************************************************)
BootsFromSecret ==
    \A v \in vms :
       v.going \/ \E s \in spokeSecrets :
                     /\ s.at = v.at /\ s.ns = v.ns
                     /\ s.name = Home[v.owner].secret

CustodyOf ==
    [r \in Requests |-> IF hub[r].phase = "absent" THEN "none"
                        ELSE IF hub[r].fin THEN "held" ELSE "free"]

WorkUnderWay ==
    {[owner |-> v.owner, at |-> v.at, ns |-> v.ns, name |-> v.name] :
        v \in {u \in vms : ~u.going}}

PossibleWork ==
    [owner : Requests, at : Regions, ns : Tenants, name : VMNames]

Promise == INSTANCE Custody WITH
              custody <- CustodyOf, work <- WorkUnderWay,
              Workloads <- PossibleWork

(***************************************************************************)
(* No VM runs without a request that holds its finalizer: the finalizer is *)
(* there before the first VM and released after the last was deleted,      *)
(* through every interleaving, failed call and restart.                    *)
(***************************************************************************)
NoOrphan == \A v \in vms : v.going \/ hub[v.owner].fin

(***************************************************************************)
(* Why NoOrphan holds under SteadySpec: requests, workers and VMs agree on *)
(* the placement Kro wrote, so a worker looks for VMs where they are; the  *)
(* worker's request is held; and what is left to delete is what cleanSpoke *)
(* listed, until nothing is left to run.                                   *)
(***************************************************************************)
AtHome(o, r) == o.region = Home[r].region /\ o.tenant = Home[r].tenant
                   /\ o.secret = Home[r].secret

PlacedAtHome ==
    /\ engaged = Served
    /\ \A r \in Requests : hub[r].phase # "absent" => AtHome(hub[r], r)
    /\ rw.pc # "idle" =>
          /\ AtHome(rw.obj, rw.key)
          /\ rw.spoke # None => rw.spoke = rw.obj.region /\ rw.spoke \in Served
    /\ \A v \in vms : /\ v.at = Home[v.owner].region /\ v.at \in Served
                      /\ v.ns = Home[v.owner].tenant

SweptBeforeRelease ==
    rw.pc \in {"clean", "release"} =>
       \A v \in vms : v.owner = rw.key =>
          v.going \/ (rw.pc = "clean" /\ v.name \in rw.delete)

CustodyInv ==
    PlacedAtHome /\ HeldWhileWorking /\ SweptBeforeRelease /\ NoOrphan

(***************************************************************************)
(* The controller implements Custody: each of its steps takes a request    *)
(* into custody, starts or stops one VM under it, releases it when nothing *)
(* runs, or changes nothing of that.                                       *)
(***************************************************************************)
KeepsCustody == Promise!CustodySpec

(***************************************************************************)
(* reconciler.go:30 says more: the finalizer keeps a request alive until   *)
(* its VMs are gone from the spoke, not merely told to go.                 *)
(***************************************************************************)
HeldUntilGone == \A v \in vms : hub[v.owner].fin

-----------------------------------------------------------------------------
(***************************************************************************)
(* Liveness.                                                               *)
(***************************************************************************)

\* Spoke and hub agree on a request that can be served.
InSync(r) ==
    LET o    == hub[r]
        mine == {v \in vms : v.owner = r}
        data == hubSecrets[HubNamespaceOf[r]][o.secret]
    IN  /\ {v.name : v \in mine} = DesiredVMNames(NameOf[r], o.replicas)
        /\ \A v \in mine : v.ready /\ v.at = o.region /\ v.ns = o.tenant
        /\ [at |-> o.region, ns |-> o.tenant, name |-> o.secret,
            data |-> data] \in spokeSecrets
        /\ o.status = Status(o.region, "Ready", o.replicas, "none")

Servable(r) ==
    /\ hub[r].phase = "live" /\ Parses(hub[r]) /\ hub[r].tenant # None
    /\ hub[r].region \in Served
    /\ hubSecrets[HubNamespaceOf[r]][hub[r].secret] # None

\* Two requests whose cloud-init Secret has one place on one spoke.
SharesSecret(r, s) == Home[r] = Home[s]

\* Two objects that ask for the same, whatever their statuses say.
SameOrder(p, o) ==
    /\ p.phase = o.phase /\ p.replicas = o.replicas
    /\ p.region = o.region /\ p.tenant = o.tenant /\ p.secret = o.secret

\* A worker that is about to write no other status than the one there is.
NoNewStatus(w, r) ==
    w.pc = "report" => w.status \in {w.obj.status, hub[r].status}

\* In sync, for good if nobody deletes a request that shares the Secret.
ObjectsAtRest(r) ==
    /\ Servable(r) /\ InSync(r)
    /\ \A v \in vms : v.owner = r => ~v.going
    /\ \A s \in Requests : SharesSecret(r, s) => hub[s].phase # "deleting"

\* What the workers have read and are about to do agrees with it.
RequestWorkerAtRest(r) ==
    rw.pc # "idle" =>
       /\ SharesSecret(r, rw.key) =>
             /\ rw.obj.phase = "live"
             /\ rw.pc \notin {"sweep", "clean", "release"}
             /\ rw.pc = "copy" =>
                   rw.data = hubSecrets[HubNamespaceOf[r]][Home[r].secret]
       /\ rw.key = r =>
             /\ SameOrder(rw.obj, hub[r]) /\ NoNewStatus(rw, r)
             /\ rw.pc = "apply" => rw.create = {} /\ rw.delete = {}

StatusWorkerAtRest(r) ==
    sw.pc # "idle" /\ sw.key = r =>
       /\ SameOrder(sw.obj, hub[r]) /\ NoNewStatus(sw, r)
       /\ sw.vm.at = hub[r].region

AtRest(r) ==
    ObjectsAtRest(r) /\ RequestWorkerAtRest(r) /\ StatusWorkerAtRest(r)

\* What users and spokes may do to a request at rest.
Meddling(r) ==
    \/ Scale(r)
    \/ \E s \in Requests : SharesSecret(r, s) /\ Delete(s)
    \/ RewriteSecret(HubNamespaceOf[r], Home[r].secret)
    \/ \E v \in vms : v.owner = r /\ (Stopped(v) \/ DeletedOutOfBand(v))

(***************************************************************************)
(* The two workers never undo what is in sync: not with stale reads, not   *)
(* by answering each other's status (patchStatus has no resourceVersion),  *)
(* not through failed calls or a restart, and not on behalf of another     *)
(* request.                                                                *)
(***************************************************************************)
StaysInSync ==
    [][\A r \in Requests : AtRest(r) => AtRest(r)' \/ Meddling(r)]_vars

(***************************************************************************)
(* Once users and faults leave a request alone it gets exactly the VMs it  *)
(* wants, the hub's Secret and the status Ready, and keeps them: every     *)
(* drift (VMs deleted out of band, a rewritten Secret, a lost event, a     *)
(* stale status) is repaired (Reconcile's RequeueAfter).                   *)
(***************************************************************************)
EventuallyInSync == <>[](\A r \in Requests : Servable(r) => AtRest(r))

(***************************************************************************)
(* A deleted request does not stay: it is released in the end even when    *)
(* its region has no spoke (finalize).                                     *)
(***************************************************************************)
DeletionEnds ==
    \A r \in Requests : hub[r].phase = "deleting" ~> hub[r].phase = "absent"

(***************************************************************************)
(* A request that cannot be placed says so in the end, whatever it said    *)
(* before and whoever wrote its status last (UnschedulableStatus,          *)
(* MissingTenantStatus).                                                   *)
(***************************************************************************)
Unplaceable(r) ==
    /\ hub[r].phase = "live" /\ Parses(hub[r])
    /\ hub[r].tenant = None \/ hub[r].region \notin Served

EventuallyUnschedulable ==
    <>[](\A r \in Requests :
            Unplaceable(r) =>
               hub[r].status = IF hub[r].tenant = None
                               THEN MissingTenantStatus(hub[r].region)
                               ELSE UnschedulableStatus(hub[r].region))
=============================================================================
