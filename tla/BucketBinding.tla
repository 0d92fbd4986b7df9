--------------------------- MODULE BucketBinding ---------------------------
(***************************************************************************)
(* The bucket-binding-controller: one request worker that turns each hub   *)
(* RegionalBucketRequest into an ObjectBucketClaim on the cluster serving  *)
(* its region, and one status worker that follows claim events back to the *)
(* hub.  Every API call of a worker is a step, and what it has read stays  *)
(* in its record.  Unlike VMs, a claim is looked up and deleted by name    *)
(* alone, its cluster is resolved anew each time, and a deletion waits     *)
(* until the claim is gone.                                                *)
(***************************************************************************)
EXTENDS BucketDomain

CONSTANTS
    Requests,        \* keys (hub namespace and name) of requests
    NameOf,          \* the object name in a key: also the claim's
    Home,            \* tenant and region Kro writes into a request
    Regions,
    Tenants,         \* tenant label values; also the namespaces on a spoke
    Sizes,           \* the quotas (maxSize, maxObjects) of the tiers
    Labels,          \* region labels of the matching profiles at the start
    MaxDisturbances, \* bound: user changes and faults in one behaviour
    None             \* a missing status; the label of a profile not offered

ASSUME BucketBindingAssumption ==
    /\ Clusters \subseteq Nat \ {NoCluster} /\ IsFiniteSet(Clusters)
    /\ MaxWords \in Nat /\ MaxDisturbances \in Nat
    /\ Tenants \subseteq Seq(STRING) \ {NoTenant}
    /\ NameOf \in [Requests -> Seq(STRING)]
    /\ Home \in [Requests -> [tenant : Tenants, region : Regions]]
    /\ Labels \in [Clusters -> Regions \cup {None}]
    /\ None \notin Regions

VARIABLES
    hub,         \* request objects
    profiles,    \* region label of each ClusterProfile the selector matches
    claims,      \* ObjectBucketClaims on every cluster
    engaged,     \* clusters the provider has handed to the manager
    queue,       \* requests in the request controller's work queue
    timers,      \* requests with a RequeueAfter running
    events,      \* claim keys in the status controller's work queue
    rw,          \* the request worker
    sw,          \* the status worker
    disturbances \* how often users changed something or something failed

waiting == <<queue, timers, events>>
vars == <<hub, profiles, claims, engaged, waiting, rw, sw, disturbances>>

-----------------------------------------------------------------------------
Absent == [phase |-> "absent", fin |-> FALSE]

BucketNames == {BucketName(t, NameOf[r]) : t \in Tenants \cup {NoTenant},
                                           r \in Requests} \cup {<< >>}

Statuses == [region : Regions, phase : Phases, bucket : BucketNames,
             message : Messages]

\* "deleting" is a set deletionTimestamp, fin the presence of Finalizer.
Objects == [phase : {"live", "deleting"}, fin : BOOLEAN,
            tenant : Tenants \cup {NoTenant}, region : Regions, size : Sizes,
            status : Statuses \cup {None}]

BucketOf(r, o) == BucketName(o.tenant, NameOf[r])

Parses(r, o) == CheckBucketName(BucketOf(r, o))

\* owner stands for the labels of OwnerLabels, config for the ConfigMap Rook
\* writes beside the claim.
Claims == [at : Clusters, ns : Tenants, name : {NameOf[r] : r \in Requests},
           owner : Requests, size : Sizes, bound : BOOLEAN, config : BOOLEAN,
           going : BOOLEAN]

ClaimKeys == [at : Clusters, ns : Tenants, name : {NameOf[r] : r \in Requests}]

KeyOf(c) == [at |-> c.at, ns |-> c.ns, name |-> c.name]

\* getClaim, as a set of at most one.
ClaimFor(cluster, r, o) ==
    {c \in claims : c.at = cluster /\ c.ns = o.tenant /\ c.name = NameOf[r]}

Notify(keys) == events \cup {k \in keys : k.at \in engaged}

Idle == [pc |-> "idle"]

RequestSteps == {"guard", "resolve", "lookup", "claim", "observe", "config",
                 "report", "delete", "confirm", "release"}

RequestWorkers ==
    [pc : RequestSteps, key : Requests, obj : Objects,
     spoke : Clusters \cup {NoCluster}, status : Statuses \cup {None}]

StatusWorkers ==
    [pc : {"resolve", "observe", "config", "report"}, claim : ClaimKeys,
     key : Requests, obj : Objects, status : Statuses \cup {None}]

TypeOK ==
    /\ hub \in [Requests -> Objects \cup {Absent}]
    /\ profiles \in [Clusters -> Regions \cup {None}]
    /\ claims \subseteq Claims
    /\ engaged \subseteq Clusters
    /\ queue \subseteq Requests
    /\ timers \subseteq Requests
    /\ events \subseteq ClaimKeys
    /\ rw \in RequestWorkers \cup {Idle}
    /\ sw \in StatusWorkers \cup {Idle}
    /\ disturbances \in Nat

-----------------------------------------------------------------------------
(***************************************************************************)
(* The request worker (controller/reconciler.go).                          *)
(***************************************************************************)

SlipNoFinalizer(r, o) ==
    IF o.phase # "live" \/ ~Parses(r, o) THEN "idle"
    ELSE IF o.tenant = NoTenant THEN "report" ELSE "resolve"

\* Reconcile's early returns, and the branch it takes for an object it read.
Start(r, o) ==
    CASE o.phase = "absent" -> "idle"
      [] o.phase = "deleting" ->
            IF ~o.fin THEN "idle"
            ELSE IF Parses(r, o) /\ o.tenant # NoTenant THEN "resolve"
            ELSE "release"
      [] OTHER ->
            IF ~Parses(r, o) THEN "idle"
            ELSE IF o.tenant = NoTenant THEN "report"
            ELSE IF ~o.fin THEN "guard" ELSE "resolve"

\* Take a key from the queue and read its object.
Fetch(r) ==
    /\ rw.pc = "idle"
    /\ r \in queue
    /\ queue' = queue \ {r}
    /\ LET step == Start(r, hub[r])
       IN  rw' = IF step = "idle" THEN Idle
                 ELSE [pc |-> step, key |-> r, obj |-> hub[r],
                       spoke |-> NoCluster,
                       status |-> IF step = "report"
                                  THEN MissingTenantStatus(hub[r].region)
                                  ELSE None]
    /\ UNCHANGED <<hub, profiles, claims, engaged, timers, events, sw,
                   disturbances>>

\* The call returned an error: the key is tried again, after a backoff.
Retry ==
    /\ rw' = Idle
    /\ queue' = queue \cup {rw.key}

\* Patch the finalizer in.  The patch names the request, not the object read:
\* it also lands on one ordered again under that name.  Its answer replaces
\* the object the worker holds, but not the request parsed from it.
AddFinalizer ==
    /\ rw.pc = "guard"
    /\ IF hub[rw.key].phase = "live"
       THEN /\ hub' = [hub EXCEPT ![rw.key].fin = TRUE]
            /\ queue' = queue \cup {rw.key}
            /\ rw' = [rw EXCEPT !.pc = "resolve",
                                !.obj.status = hub[rw.key].status]
       ELSE UNCHANGED hub /\ Retry
    /\ UNCHANGED <<profiles, claims, engaged, timers, events, sw, disturbances>>

SlipForgetDeleted ==
    rw' = IF rw.obj.phase = "deleting" THEN Idle
          ELSE [rw EXCEPT !.spoke = NoCluster, !.pc = "report",
                          !.status = UnschedulableStatus(rw.obj.region)]

\* spokeFor without a cluster: Unschedulable, or nothing left to clean.
NotFound ==
    rw' = IF rw.obj.phase = "deleting"
          THEN [rw EXCEPT !.spoke = NoCluster, !.pc = "release"]
          ELSE [rw EXCEPT !.spoke = NoCluster, !.pc = "report",
                          !.status = UnschedulableStatus(rw.obj.region)]

\* spokeFor, first half: clusterNameFor lists the profiles.
Resolve ==
    /\ rw.pc = "resolve"
    /\ LET c == ResolveCluster(rw.obj.region, profiles)
       IN  IF c = NoCluster THEN NotFound
           ELSE rw' = [rw EXCEPT !.pc = "lookup", !.spoke = c]
    /\ UNCHANGED <<hub, profiles, claims, engaged, waiting, sw, disturbances>>

\* spokeFor, second half: GetCluster.
Lookup ==
    /\ rw.pc = "lookup"
    /\ IF rw.spoke \notin engaged THEN NotFound
       ELSE rw' = [rw EXCEPT !.pc = IF rw.obj.phase = "deleting" THEN "delete"
                                    ELSE "claim"]
    /\ UNCHANGED <<hub, profiles, claims, engaged, waiting, sw, disturbances>>

\* syncClaim: a claim of that name is left as it is, whoever owns it.  Nobody
\* else creates claims, so looking and creating are one step.
SyncClaim ==
    /\ rw.pc = "claim"
    /\ LET c == [at |-> rw.spoke, ns |-> rw.obj.tenant, name |-> NameOf[rw.key],
                 owner |-> rw.key, size |-> rw.obj.size, bound |-> FALSE,
                 config |-> FALSE, going |-> FALSE]
       IN  IF ClaimFor(rw.spoke, rw.key, rw.obj) # {}
           THEN UNCHANGED <<claims, events>>
           ELSE claims' = claims \cup {c} /\ events' = Notify({KeyOf(c)})
    /\ rw' = [rw EXCEPT !.pc = "observe"]
    /\ UNCHANGED <<hub, profiles, engaged, queue, timers, sw, disturbances>>

\* syncStatus for worker w: read the claim, and its ConfigMap if it is bound.
ObserveClaim(w, cluster) ==
    IF \E c \in ClaimFor(cluster, w.key, w.obj) : c.bound
    THEN [w EXCEPT !.pc = "config"]
    ELSE [w EXCEPT !.pc = "report",
                   !.status = ReadyStatus(w.obj.region, BucketOf(w.key, w.obj),
                                          FALSE, FALSE)]

ObserveConfig(w, cluster) ==
    [w EXCEPT !.pc = "report",
              !.status = ReadyStatus(w.obj.region, BucketOf(w.key, w.obj), TRUE,
                                     \E c \in ClaimFor(cluster, w.key, w.obj) :
                                        c.config)]

Observe ==
    /\ \/ rw.pc = "observe" /\ rw' = ObserveClaim(rw, rw.spoke)
       \/ rw.pc = "config" /\ rw' = ObserveConfig(rw, rw.spoke)
    /\ UNCHANGED <<hub, profiles, claims, engaged, waiting, sw, disturbances>>

\* patchStatus writes when the object the worker holds differs, whatever the
\* hub holds by now.  The write comes back to the request worker as an event.
Patch(r, status) ==
    /\ hub' = [hub EXCEPT ![r].status = status]
    /\ queue' = queue \cup {r}

SlipNoResync == UNCHANGED timers

\* A request without a tenant is not looked at again until it changes.
RequeueLater ==
    timers' = IF rw.obj.tenant = NoTenant THEN timers ELSE timers \cup {rw.key}

\* patchStatus, the last call: unchanged, written, or NotFound and retried.
Report ==
    /\ rw.pc = "report"
    /\ rw' = Idle
    /\ \/ /\ rw.status = rw.obj.status
          /\ UNCHANGED <<hub, queue>>
          /\ RequeueLater
       \/ /\ rw.status # rw.obj.status
          /\ hub[rw.key].phase # "absent"
          /\ Patch(rw.key, rw.status)
          /\ RequeueLater
       \/ /\ rw.status # rw.obj.status
          /\ hub[rw.key].phase = "absent"
          /\ queue' = queue \cup {rw.key}
          /\ UNCHANGED <<hub, timers>>
    /\ UNCHANGED <<profiles, claims, engaged, events, sw, disturbances>>

\* deleteClaim, first half: delete by name, whoever owns the claim.
MarkGoing(keys) ==
    /\ claims' = {IF KeyOf(c) \in keys THEN [c EXCEPT !.going = TRUE] ELSE c :
                    c \in claims}
    /\ events' = Notify({KeyOf(c) : c \in {d \in claims : ~d.going}} \cap keys)

DeleteClaim ==
    /\ rw.pc = "delete"
    /\ MarkGoing({[at |-> rw.spoke, ns |-> rw.obj.tenant,
                   name |-> NameOf[rw.key]]})
    /\ rw' = [rw EXCEPT !.pc = "confirm"]
    /\ UNCHANGED <<hub, profiles, engaged, queue, timers, sw, disturbances>>

SlipDoNotWait ==
    /\ rw.pc = "confirm"
    /\ rw' = [rw EXCEPT !.pc = "release"]
    /\ UNCHANGED <<hub, profiles, claims, engaged, waiting, sw, disturbances>>

\* deleteClaim, second half: is it gone?  If not, look again later.
Confirm ==
    /\ rw.pc = "confirm"
    /\ IF ClaimFor(rw.spoke, rw.key, rw.obj) = {}
       THEN rw' = [rw EXCEPT !.pc = "release"] /\ UNCHANGED timers
       ELSE rw' = Idle /\ timers' = timers \cup {rw.key}
    /\ UNCHANGED <<hub, profiles, claims, engaged, queue, events, sw,
                   disturbances>>

\* Drop the finalizer, the only one: the object is gone with it.
Release ==
    /\ rw.pc = "release"
    /\ hub' = [hub EXCEPT ![rw.key] = Absent]
    /\ rw' = Idle
    /\ queue' = queue \cup {rw.key}
    /\ UNCHANGED <<profiles, claims, engaged, timers, events, sw, disturbances>>

\* A requeue interval, or a cleanup interval, has passed.
Tick(r) ==
    /\ r \in timers
    /\ timers' = timers \ {r}
    /\ queue' = queue \cup {r}
    /\ UNCHANGED <<hub, profiles, claims, engaged, events, rw, sw, disturbances>>

\* What the request worker does with a request it has in hand.
RequestStep ==
    \/ AddFinalizer \/ Resolve \/ Lookup \/ SyncClaim \/ Observe \/ Report
    \/ DeleteClaim \/ Confirm \/ Release
-----------------------------------------------------------------------------
(***************************************************************************)
(* The status worker (controller/status_reconciler.go).                    *)
(***************************************************************************)

\* Take a claim event.  A cluster no longer engaged, a claim that is gone, an
\* owner that is gone or malformed end the reconcile.  A claim's labels never
\* change, so reading it and the owner they name are one step.
FetchClaim(k) ==
    /\ sw.pc = "idle"
    /\ k \in events
    /\ events' = events \ {k}
    /\ \/ \E c \in claims :
             LET o == hub[c.owner]
             IN  /\ KeyOf(c) = k /\ k.at \in engaged
                 /\ sw' = IF o.phase # "absent" /\ Parses(c.owner, o)
                          THEN [pc |-> "resolve", claim |-> k, key |-> c.owner,
                                obj |-> o, status |-> None]
                          ELSE Idle
       \/ /\ k.at \notin engaged \/ \A c \in claims : KeyOf(c) # k
          /\ UNCHANGED sw
    /\ UNCHANGED <<hub, profiles, claims, engaged, queue, timers, rw,
                   disturbances>>

\* A claim on a cluster that does not serve the request's region is ignored.
ResolveForStatus ==
    /\ sw.pc = "resolve"
    /\ sw' = IF ResolveCluster(sw.obj.region, profiles) = sw.claim.at
             THEN [sw EXCEPT !.pc = "observe"] ELSE Idle
    /\ UNCHANGED <<hub, profiles, claims, engaged, waiting, rw, disturbances>>

\* Takes the ConfigMap to be missing until the request worker has seen it.
SlipSkipConfig ==
    /\ sw.pc = "observe"
    /\ sw' = [sw EXCEPT !.pc = "report",
                 !.status = ReadyStatus(sw.obj.region, BucketOf(sw.key, sw.obj),
                                        TRUE, FALSE)]
    /\ UNCHANGED <<hub, profiles, claims, engaged, waiting, rw, disturbances>>

ObserveForStatus ==
    /\ \/ sw.pc = "observe" /\ sw' = ObserveClaim(sw, sw.claim.at)
       \/ sw.pc = "config" /\ sw' = ObserveConfig(sw, sw.claim.at)
    /\ UNCHANGED <<hub, profiles, claims, engaged, waiting, rw, disturbances>>

\* A request that is gone by now is no error here.
ReportForStatus ==
    /\ sw.pc = "report"
    /\ sw' = Idle
    /\ IF sw.status # sw.obj.status /\ hub[sw.key].phase # "absent"
       THEN Patch(sw.key, sw.status) ELSE UNCHANGED <<hub, queue>>
    /\ UNCHANGED <<profiles, claims, engaged, timers, events, rw, disturbances>>

StatusStep ==
    \/ \E k \in ClaimKeys : FetchClaim(k)
    \/ ResolveForStatus \/ ObserveForStatus \/ ReportForStatus
-----------------------------------------------------------------------------
(***************************************************************************)
(* Rook on the clusters: it provisions a bucket, writes the ConfigMap,     *)
(* which nobody watches, before or after the claim is Bound, and takes its *)
(* time to remove both.                                                    *)
(***************************************************************************)
Replace(c, d) == claims' = (claims \ {c}) \cup {d}

RookStep(c) ==
    \/ /\ ~c.bound /\ ~c.going
       /\ Replace(c, [c EXCEPT !.bound = TRUE])
       /\ events' = Notify({KeyOf(c)})
    \/ /\ ~c.config /\ ~c.going
       /\ Replace(c, [c EXCEPT !.config = TRUE])
       /\ UNCHANGED events
    \/ /\ c.going
       /\ claims' = claims \ {c}
       /\ events' = Notify({KeyOf(c)})

Rook ==
    /\ \E c \in claims : RookStep(c)
    /\ UNCHANGED <<hub, profiles, engaged, queue, timers, rw, sw, disturbances>>
-----------------------------------------------------------------------------
(***************************************************************************)
(* Users, and Kro on their behalf; admins; and what goes wrong.            *)
(***************************************************************************)
Disturb ==
    /\ disturbances < MaxDisturbances
    /\ disturbances' = disturbances + 1

Write(r, o) ==
    /\ Disturb
    /\ hub' = [hub EXCEPT ![r] = o]
    /\ queue' = queue \cup {r}
    /\ UNCHANGED <<profiles, claims, engaged, timers, events, rw, sw>>

Order(r) ==
    /\ hub[r].phase = "absent"
    /\ \E size \in Sizes :
          Write(r, [phase |-> "live", fin |-> FALSE, tenant |-> Home[r].tenant,
                    region |-> Home[r].region, size |-> size, status |-> None])

\* Without a finalizer the object is gone at once.
Delete(r) ==
    /\ hub[r].phase = "live"
    /\ Write(r, IF hub[r].fin THEN [hub[r] EXCEPT !.phase = "deleting"]
                ELSE Absent)

\* An edit of what Kro would leave alone and the schema lets change.
Edit(r) ==
    /\ hub[r].phase # "absent"
    /\ \/ \E t \in (Tenants \cup {NoTenant}) \ {hub[r].tenant} :
             Write(r, [hub[r] EXCEPT !.tenant = t])
       \/ \E g \in Regions \ {hub[r].region} :
             Write(r, [hub[r] EXCEPT !.region = g])

\* A ClusterProfile appears, goes, or changes its labels; nobody watches it.
Relabel(c) ==
    /\ Disturb
    /\ \E g \in (Regions \cup {None}) \ {profiles[c]} :
          profiles' = [profiles EXCEPT ![c] = g]
    /\ UNCHANGED <<hub, claims, engaged, waiting, rw, sw>>

RequestCallFails ==
    /\ rw.pc \notin {"idle", "lookup"}
    /\ rw.pc = "report" => rw.status # rw.obj.status
    /\ Disturb
    /\ Retry
    /\ UNCHANGED <<hub, profiles, claims, engaged, timers, events, sw>>

StatusCallFails ==
    /\ sw.pc # "idle"
    /\ sw.pc = "report" => sw.status # sw.obj.status
    /\ Disturb
    /\ sw' = Idle
    /\ events' = events \cup {sw.claim}
    /\ UNCHANGED <<hub, profiles, claims, engaged, queue, timers, rw>>

DeletedOutOfBand(c) ==
    /\ ~c.going
    /\ Disturb
    /\ MarkGoing({KeyOf(c)})
    /\ UNCHANGED <<hub, profiles, engaged, queue, timers, rw, sw>>

\* The process starts again: the workers and timers are lost, and the watches
\* list every request, and every claim on the clusters engaged by then.
Restart(clusters) ==
    /\ Disturb
    /\ rw' = Idle /\ sw' = Idle
    /\ timers' = {}
    /\ queue' = {r \in Requests : hub[r].phase # "absent"}
    /\ engaged' = clusters
    /\ events' = {KeyOf(c) : c \in {d \in claims : d.at \in clusters}}
    /\ UNCHANGED <<hub, profiles, claims>>

\* The provider's poll drops a cluster without a matching profile; it may also
\* lose one whose endpoint changed.
Disengage(c) ==
    /\ c \in engaged
    /\ IF profiles[c] = None THEN UNCHANGED disturbances ELSE Disturb
    /\ engaged' = engaged \ {c}
    /\ events' = {k \in events : k.at # c}
    /\ UNCHANGED <<hub, profiles, claims, queue, timers, rw, sw>>

Engage(c) ==
    /\ c \notin engaged
    /\ profiles[c] # None
    /\ engaged' = engaged \cup {c}
    /\ events' = events \cup {KeyOf(d) : d \in {e \in claims : e.at = c}}
    /\ UNCHANGED <<hub, profiles, claims, queue, timers, rw, sw, disturbances>>
-----------------------------------------------------------------------------
InitWith(clusters) ==
    /\ hub = [r \in Requests |-> Absent]
    /\ profiles = Labels
    /\ claims = {}
    /\ engaged = clusters
    /\ queue = {} /\ timers = {} /\ events = {}
    /\ rw = Idle /\ sw = Idle
    /\ disturbances = 0

Steady ==
    \/ \E r \in Requests : Fetch(r) \/ Tick(r) \/ Order(r) \/ Delete(r)
    \/ RequestStep \/ StatusStep \/ Rook
    \/ RequestCallFails \/ StatusCallFails
    \/ \E c \in claims : DeletedOutOfBand(c)

(***************************************************************************)
(* SteadySpec: profiles stay as they are, their clusters are engaged       *)
(* before the workers start, and requests keep what Kro wrote.             *)
(***************************************************************************)
SteadyInit == InitWith({c \in Clusters : Labels[c] # None})

SteadyNext == Steady \/ Restart(engaged)

SteadySpec == SteadyInit /\ [][SteadyNext]_vars

(***************************************************************************)
(* Spec: the program as main.go starts it, with the provider beside the    *)
(* workers, profiles that change and requests that are edited.             *)
(***************************************************************************)
Init == InitWith({})

Next ==
    \/ Steady
    \/ Restart({})
    \/ \E c \in Clusters : Engage(c) \/ Disengage(c) \/ Relabel(c)
    \/ \E r \in Requests : Edit(r)

Spec == Init /\ [][Next]_vars

(***************************************************************************)
(* Fairness.  Each worker goes on with what it has; the request queue is   *)
(* first in, first out (strong: the worker is busy in between); timers     *)
(* fire; Rook finishes what it started; the provider polls for ever.       *)
(***************************************************************************)
Fairness ==
    /\ WF_vars(RequestStep) /\ WF_vars(StatusStep)
    /\ \A r \in Requests : SF_vars(Fetch(r)) /\ WF_vars(Tick(r))
    /\ WF_vars(Rook)

FairSteadySpec == SteadySpec /\ Fairness

FairSpec == Spec /\ Fairness /\ \A c \in Clusters : WF_vars(Engage(c))
-----------------------------------------------------------------------------
(***************************************************************************)
(* Properties.                                                             *)
(***************************************************************************)

(***************************************************************************)
(* A claim never outlives its request's finalizer: it is created under it, *)
(* and the request is released only when the claim is gone, bucket and     *)
(* all (reconciler.go:28, finalize).                                       *)
(***************************************************************************)
HeldUntilGone == \A c \in claims : hub[c.owner].fin

CustodyOf ==
    [r \in Requests |-> IF hub[r].phase = "absent" THEN "none"
                        ELSE IF hub[r].fin THEN "held" ELSE "free"]

Work == {[owner |-> c.owner, key |-> KeyOf(c)] : c \in claims}

Promise == INSTANCE Custody WITH
              custody <- CustodyOf, work <- Work,
              Workloads <- [owner : Requests, key : ClaimKeys]

(***************************************************************************)
(* The controller implements Custody, with every claim as work until Rook  *)
(* has removed it.                                                         *)
(***************************************************************************)
KeepsCustody == Promise!CustodySpec

(***************************************************************************)
(* A claim's quota is the one ordered (reconciler.go:151: "the quota is    *)
(* fixed once ordered").                                                   *)
(***************************************************************************)
QuotaAsOrdered ==
    \A c \in claims : hub[c.owner].fin => c.size = hub[c.owner].size

(***************************************************************************)
(* No two claims of a cluster ask for one bucket (domain.go:72: "unique    *)
(* across tenants because the tenant is part of it").                      *)
(***************************************************************************)
BucketsDistinct ==
    \A c, d \in claims :
       c.at = d.at /\ BucketName(c.ns, c.name) = BucketName(d.ns, d.name)
          => c = d

(***************************************************************************)
(* A finalizer released after deleteClaim leaves no claim under the name   *)
(* the worker deleted, whatever happened since it looked (finalize).       *)
(***************************************************************************)
ReleasedWhenGone ==
    [][\A r \in Requests :
          hub[r].fin /\ ~hub'[r].fin /\ rw.pc = "release"
             /\ rw.spoke # NoCluster
             => ClaimFor(rw.spoke, r, rw.obj) = {}]_vars

(***************************************************************************)
(* A claim is created only under the finalizer of the request it is        *)
(* labelled with, however old the worker's reads are by then.              *)
(***************************************************************************)
CreatedHeld ==
    [][\A c \in claims' :
          (\A d \in claims : KeyOf(d) # KeyOf(c)) => hub[c.owner].fin]_vars

(***************************************************************************)
(* A deleted request does not stay, even when its region has no cluster or *)
(* Rook takes its time (finalize).                                         *)
(***************************************************************************)
DeletionEnds ==
    \A r \in Requests : hub[r].phase = "deleting" ~> hub[r].phase = "absent"

\* A deleted request still held, and a live one that can be understood, unless
\* it has no tenant and says so.
Owed(r) ==
    LET o == hub[r]
    IN  \/ o.phase = "deleting" /\ o.fin
        \/ /\ o.phase = "live" /\ Parses(r, o)
           /\ o.tenant = NoTenant => o.status # MissingTenantStatus(o.region)

(***************************************************************************)
(* Whatever is written while a worker is at work, and whenever calls fail  *)
(* or the process starts again, a request that needs the controller is in  *)
(* its queue, waits for a RequeueInterval or a CleanupInterval, or is in   *)
(* the worker's hands (Reconcile's and finalize's returns).                *)
(***************************************************************************)
NeverForgotten ==
    \A r \in Requests :
       Owed(r) => r \in queue \cup timers \/ (rw.pc # "idle" /\ rw.key = r)

\* What a request's status should say.
Placed(r) ==
    LET o == hub[r]
        c == ResolveCluster(o.region, profiles)
    IN  IF o.tenant = NoTenant
        THEN o.status = MissingTenantStatus(o.region)
        ELSE IF c \notin engaged
        THEN o.status = UnschedulableStatus(o.region)
        ELSE /\ \E d \in ClaimFor(c, r, o) : d.bound /\ d.config /\ ~d.going
             /\ o.status = Status(o.region, "Ready", BucketOf(r, o), "none")

\* Two requests for which the controller looks up one and the same claim.
SharesClaim(r, s) == NameOf[r] = NameOf[s] /\ Home[r] = Home[s]

\* Two objects that ask for the same, whatever their statuses say.
SameOrder(p, o) ==
    /\ p.phase = o.phase /\ p.tenant = o.tenant
    /\ p.region = o.region /\ p.size = o.size

\* A worker that is about to write no other status than the one there is.
NoNewStatus(w, r) ==
    w.pc = "report" => w.status \in {w.obj.status, hub[r].status}

\* The status is right, for good if nobody deletes who shares the claim.
ObjectsAtRest(r) ==
    /\ hub[r].phase = "live" /\ Parses(r, hub[r]) /\ Placed(r)
    /\ \A s \in Requests : SharesClaim(r, s) => hub[s].phase # "deleting"

\* What the workers have read and are about to do agrees with it.
RequestWorkerAtRest(r) ==
    rw.pc # "idle" =>
       /\ SharesClaim(r, rw.key) =>
             /\ rw.obj.phase = "live"
             /\ rw.pc \notin {"delete", "confirm", "release"}
       /\ rw.key = r => SameOrder(rw.obj, hub[r]) /\ NoNewStatus(rw, r)

StatusWorkerAtRest(r) ==
    sw.pc # "idle" /\ sw.key = r =>
       /\ SameOrder(sw.obj, hub[r]) /\ NoNewStatus(sw, r)
       /\ sw.pc \in {"observe", "config"} =>
             sw.claim.at = ResolveCluster(hub[r].region, profiles)

AtRest(r) ==
    ObjectsAtRest(r) /\ RequestWorkerAtRest(r) /\ StatusWorkerAtRest(r)

\* What users may do to a request at rest, and a cluster to its claim.
Meddling(r) ==
    \/ \E s \in Requests : SharesClaim(r, s) /\ Delete(s)
    \/ \E c \in ClaimFor(ResolveCluster(hub[r].region, profiles), r, hub[r]) :
          DeletedOutOfBand(c)

(***************************************************************************)
(* The workers never take back what is right: not with stale reads, not by *)
(* answering each other's status (patchStatus has no resourceVersion), not *)
(* through failed calls or a restart, and not on behalf of a request that  *)
(* shares the claim.                                                       *)
(***************************************************************************)
StaysPlaced ==
    [][\A r \in Requests : AtRest(r) => AtRest(r)' \/ Meddling(r)]_vars

(***************************************************************************)
(* Once users, admins and faults leave a request alone it has a bucket on  *)
(* the cluster serving its region and says Ready, or says why it has none, *)
(* and no worker is about to say anything else, whoever wrote its status   *)
(* last and whatever events were lost: a claim deleted out of band, a      *)
(* ConfigMap written late (RequeueAfter).                                  *)
(***************************************************************************)
EventuallyPlaced ==
    <>[](\A r \in Requests :
            hub[r].phase = "live" /\ Parses(r, hub[r]) => AtRest(r))
-----------------------------------------------------------------------------
(***************************************************************************)
(* What makes the properties inductive.                                    *)
(***************************************************************************)

\* The steps for which spokeFor has found a cluster, and those that only a
\* request holding its finalizer reaches.
ClusterSteps == {"lookup", "claim", "observe", "config", "delete", "confirm"}

HeldSteps == ClusterSteps \cup {"resolve", "release"}

\* What the worker was given before it uses it.
Equipped ==
    /\ rw.pc \in ClusterSteps => rw.spoke \in Clusters
    /\ rw.pc \in ClusterSteps \cup {"guard", "resolve"} =>
          rw.obj.tenant \in Tenants /\ Parses(rw.key, rw.obj)

\* Only the one worker releases, so what it holds stays held.
HeldWhileWorking == rw.pc \in HeldSteps => hub[rw.key].fin

\* A read that is no longer true is queued to be read again, and a worker that
\* ends without a RequeueAfter has said that the tenant is missing.
StaleIsQueued ==
    rw.pc # "idle" /\ rw.key \notin queue => rw.obj = hub[rw.key]

SaysMissing ==
    rw.pc = "report" /\ rw.obj.tenant = NoTenant =>
       rw.obj.phase = "live" /\ rw.status = MissingTenantStatus(rw.obj.region)

GoneAtRelease ==
    rw.pc = "release" /\ rw.spoke # NoCluster =>
       ClaimFor(rw.spoke, rw.key, rw.obj) = {}

\* Under SteadySpec placements stay as Kro wrote them, and one cluster serves
\* a request for ever.
AtHome(r, o) == o.tenant = Home[r].tenant /\ o.region = Home[r].region

HomeCluster(r) == ResolveCluster(Home[r].region, Labels)

Settled ==
    /\ profiles = Labels
    /\ engaged = {c \in Clusters : Labels[c] # None}
    /\ \A r \in Requests : hub[r].phase # "absent" => AtHome(r, hub[r])
    /\ rw.pc # "idle" => AtHome(rw.key, rw.obj)
    /\ rw.pc \in ClusterSteps => rw.spoke = HomeCluster(rw.key)
    /\ \A c \in claims :
          /\ c.at = HomeCluster(c.owner) /\ c.ns = Home[c.owner].tenant
          /\ c.name = NameOf[c.owner]
          /\ CheckBucketName(BucketName(c.ns, c.name))

NothingLeft == rw.pc = "release" => \A c \in claims : c.owner # rw.key
=============================================================================
