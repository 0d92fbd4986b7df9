------------------------ MODULE BucketStabilityProofs ------------------------
(***************************************************************************)
(* The workers never take back what is right (StaysPlaced), for every      *)
(* value of the constants of BucketBinding.                                *)
(***************************************************************************)
EXTENDS BucketBindingProofs

-----------------------------------------------------------------------------
(* What is observed of a request at rest. *)

\* Where the claim of a request at rest is, and that it is one that stays.
Cluster(r) == ResolveCluster(hub[r].region, profiles)

ClaimStands(r) ==
    \E d \in ClaimFor(Cluster(r), r, hub[r]) : d.bound /\ d.config /\ ~d.going

ReadyOf(r) == Status(hub[r].region, "Ready", BucketOf(r, hub[r]), "none")

\* Under SteadySpec a request at rest is in its place and has a tenant: it
\* has no cluster and says so, or its claim stands and it says Ready.
LEMMA RestIsPlaced ==
    ASSUME SteadyInv, NEW r \in Requests, ObjectsAtRest(r)
    PROVE  /\ hub[r] \in Objects /\ AtHome(r, hub[r])
           /\ hub[r].tenant # NoTenant
           /\ Cluster(r) = HomeCluster(r)
           /\ \/ /\ Cluster(r) = NoCluster /\ Cluster(r) \notin Clusters
                 /\ hub[r].status = UnschedulableStatus(hub[r].region)
              \/ /\ Cluster(r) # NoCluster /\ Cluster(r) \in engaged
                 /\ ClaimStands(r) /\ hub[r].status = ReadyOf(r)
<1>1. TypeOK /\ Settled
  BY DEF SteadyInv, TypeInv
<1>2. hub[r] \in Objects
  BY <1>1 DEF TypeOK, Absent, ObjectsAtRest
<1>3. AtHome(r, hub[r])
  BY <1>1 DEF Settled, ObjectsAtRest
<1>4. hub[r].tenant # NoTenant
  BY <1>3, BucketBindingAssumption DEF AtHome
<1>5. Cluster(r) = HomeCluster(r)
  BY <1>1, <1>3 DEF Cluster, HomeCluster, Settled, AtHome
<1>6. Placed(r)
  BY DEF ObjectsAtRest
<1>7. NoCluster \notin Clusters
  BY BucketBindingAssumption
<1>8. CASE Cluster(r) = NoCluster
  <2>1. Cluster(r) \notin engaged
    BY <1>1, <1>7, <1>8 DEF TypeOK
  <2> QED  BY <1>2, <1>3, <1>4, <1>5, <1>6, <1>7, <1>8, <2>1 DEF Placed, Cluster
<1>9. CASE Cluster(r) # NoCluster
  <2>1. Cluster(r) \in engaged
    BY <1>1, <1>5, <1>9, HomeClusterEngaged
  <2> QED
    BY <1>2, <1>3, <1>4, <1>5, <1>6, <1>9, <2>1
       DEF Placed, Cluster, ClaimStands, ReadyOf
<1> QED  BY <1>8, <1>9

-----------------------------------------------------------------------------
(* No step but Meddling touches the objects of a request at rest. *)

AnyRest(r) == SteadyInv /\ AtRest(r) /\ [SteadyNext]_vars /\ ~Meddling(r)

HubKept(r) ==
    /\ SameOrder(hub'[r], hub[r]) /\ hub'[r].status = hub[r].status
    /\ \A s \in Requests : SharesClaim(r, s) => hub'[s].phase # "deleting"

\* One object written.
LEMMA WriteKeepsHub ==
    ASSUME TypeOK, NEW r \in Requests, ObjectsAtRest(r), NEW s \in Requests,
           NEW o, hub' = [hub EXCEPT ![s] = o],
           s = r => SameOrder(o, hub[r]) /\ o.status = hub[r].status,
           SharesClaim(r, s) => o.phase # "deleting"
    PROVE  HubKept(r)
BY DEF TypeOK, HubKept, ObjectsAtRest, SameOrder

\* The status of another request, or the one there is.
LEMMA PatchKeepsHub ==
    ASSUME TypeOK, NEW r \in Requests, ObjectsAtRest(r), NEW s \in Requests,
           NEW status, Patch(s, status), hub[s].phase # "absent",
           s = r => status = hub[r].status
    PROVE  HubKept(r)
<1> DEFINE o == [hub[s] EXCEPT !.status = status]
<1>1. hub[s] \in Objects
  BY DEF TypeOK, Absent
<1>2. SameOrder(o, hub[s]) /\ o.status = status /\ o.phase = hub[s].phase
  BY <1>1 DEF SameOrder, Objects
<1>3. hub' = [hub EXCEPT ![s] = o]
  BY DEF Patch
<1>4. SharesClaim(r, s) => o.phase # "deleting"
  BY <1>2 DEF ObjectsAtRest
<1> HIDE DEF o
<1> QED  BY <1>2, <1>3, <1>4, WriteKeepsHub

LEMMA SameHubKept ==
    ASSUME NEW r \in Requests, ObjectsAtRest(r), UNCHANGED hub
    PROVE  HubKept(r)
BY DEF HubKept, SameOrder, ObjectsAtRest

LEMMA RestKeepsHub ==
    ASSUME NEW r \in Requests, AnyRest(r)
    PROVE  HubKept(r)
<1>0. /\ TypeOK /\ ObjectsAtRest(r) /\ RequestWorkerAtRest(r)
      /\ StatusWorkerAtRest(r) /\ [SteadyNext]_vars /\ ~Meddling(r)
  BY DEF AnyRest, AtRest, SteadyInv, TypeInv
<1>live. hub[r].phase = "live"
  BY <1>0 DEF ObjectsAtRest
<1>refl. SharesClaim(r, r)
  BY DEF SharesClaim
<1>1. CASE RequestStep
  <2>0. rw.key \in Requests /\ rw.pc # "idle"
    BY <1>0, <1>1
       DEF TypeOK, RequestStep, AddFinalizer, Resolve, Lookup, SyncClaim, Observe,
           Report, DeleteClaim, Confirm, Release, Idle, RequestWorkers
  <2>1. CASE AddFinalizer /\ hub[rw.key].phase = "live"
    <3> DEFINE o == [hub[rw.key] EXCEPT !.fin = TRUE]
    <3>1. hub[rw.key] \in Objects
      BY <1>0, <2>0, <2>1 DEF TypeOK, Absent
    <3>2. SameOrder(o, hub[rw.key]) /\ o.status = hub[rw.key].status
          /\ o.phase = "live"
      BY <2>1, <3>1 DEF SameOrder, Objects
    <3>3. hub' = [hub EXCEPT ![rw.key] = o]
      BY <2>1 DEF AddFinalizer
    <3> HIDE DEF o
    <3> QED  BY <1>0, <2>0, <3>2, <3>3, WriteKeepsHub
  <2>2. CASE AddFinalizer /\ hub[rw.key].phase # "live"
    BY <1>0, <2>2, SameHubKept DEF AddFinalizer
  <2>3. CASE Report
    <3>1. CASE UNCHANGED hub
      BY <1>0, <3>1, SameHubKept
    <3>2. CASE ~UNCHANGED hub
      <4>1. /\ rw.status # rw.obj.status /\ hub[rw.key].phase # "absent"
            /\ Patch(rw.key, rw.status) /\ rw.pc = "report"
        BY <2>3, <3>2 DEF Report
      <4>2. rw.key = r => rw.status = hub[r].status
        BY <1>0, <2>0, <4>1 DEF RequestWorkerAtRest, NoNewStatus
      <4> QED  BY <1>0, <2>0, <4>1, <4>2, PatchKeepsHub
    <3> QED  BY <3>1, <3>2
  <2>4. CASE Release
    <3>1. ~SharesClaim(r, rw.key)
      BY <1>0, <2>0, <2>4 DEF Release, RequestWorkerAtRest
    <3>2. hub' = [hub EXCEPT ![rw.key] = Absent]
      BY <2>4 DEF Release
    <3> QED  BY <1>0, <1>refl, <2>0, <3>1, <3>2, WriteKeepsHub
  <2>5. CASE ~(AddFinalizer \/ Report \/ Release)
    BY <1>0, <1>1, <2>5, SameHubKept
       DEF RequestStep, Resolve, Lookup, SyncClaim, Observe, DeleteClaim, Confirm
  <2> QED  BY <2>1, <2>2, <2>3, <2>4, <2>5
<1>2. CASE StatusStep
  <2>1. CASE UNCHANGED hub
    BY <1>0, <2>1, SameHubKept
  <2>2. CASE ~UNCHANGED hub
    <3>1. /\ sw.status # sw.obj.status /\ hub[sw.key].phase # "absent"
          /\ Patch(sw.key, sw.status) /\ sw.pc = "report"
      BY <1>2, <2>2 DEF StatusStep, FetchClaim, ResolveForStatus,
                        ObserveForStatus, ReportForStatus
    <3>2. sw.key \in Requests
      BY <1>0, <3>1 DEF TypeOK, StatusWorkers, Idle
    <3>3. sw.key = r => sw.status = hub[r].status
      BY <1>0, <3>1 DEF StatusWorkerAtRest, NoNewStatus
    <3> QED  BY <1>0, <3>1, <3>2, <3>3, PatchKeepsHub
  <2> QED  BY <2>1, <2>2
<1>3. ASSUME NEW s \in Requests, Order(s)
      PROVE  HubKept(r)
  <2>1. PICK z \in Sizes :
           Write(s, [phase |-> "live", fin |-> FALSE, tenant |-> Home[s].tenant,
                     region |-> Home[s].region, size |-> z, status |-> None])
    BY <1>3 DEF Order
  <2>2. s # r
    BY <1>3, <1>live DEF Order
  <2> QED  BY <1>0, <2>1, <2>2, WriteKeepsHub DEF Write
<1>4. ASSUME NEW s \in Requests, Delete(s)
      PROVE  HubKept(r)
  <2>1. ~SharesClaim(r, s)
    BY <1>0, <1>4 DEF Meddling
  <2> QED  BY <1>0, <1>4, <1>refl, <2>1, WriteKeepsHub DEF Delete, Write
<1>5. CASE \/ UNCHANGED vars \/ Rook
           \/ \E s \in Requests : Fetch(s) \/ Tick(s)
           \/ RequestCallFails \/ StatusCallFails \/ Restart(engaged)
           \/ \E c \in claims : DeletedOutOfBand(c)
  BY <1>0, <1>5, SameHubKept
     DEF vars, Rook, Fetch, Tick, RequestCallFails, StatusCallFails, Restart,
         DeletedOutOfBand
<1> QED
  BY <1>0, <1>1, <1>2, <1>3, <1>4, <1>5 DEF SteadyNext, Steady

\* Only requests that share a claim have it in one place.
LEMMA SamePlaceShares ==
    ASSUME NEW r \in Requests, NEW s \in Requests, NameOf[r] = NameOf[s],
           Home[r].tenant = Home[s].tenant, Home[r].region = Home[s].region
    PROVE  SharesClaim(r, s)
<1>1. /\ Home[r] \in [tenant : Tenants, region : Regions]
      /\ Home[s] \in [tenant : Tenants, region : Regions]
  BY BucketBindingAssumption
<1> QED  BY <1>1 DEF SharesClaim

\* The claim of a request at rest stays as it is: Rook has done its part, and
\* whoever else deletes by name deletes other names.
LEMMA RestKeepsClaim ==
    ASSUME NEW r \in Requests, AnyRest(r), NEW d \in claims,
           d \in ClaimFor(Cluster(r), r, hub[r]), d.bound, d.config, ~d.going
    PROVE  d \in claims'
<1>0. /\ SteadyInv /\ TypeOK /\ Settled /\ Equipped /\ ObjectsAtRest(r)
      /\ RequestWorkerAtRest(r) /\ [SteadyNext]_vars /\ ~Meddling(r)
  BY DEF AnyRest, AtRest, SteadyInv, TypeInv
<1>1. ASSUME NEW k, MarkGoing({k}), KeyOf(d) # k
      PROVE  d \in claims'
  BY <1>1 DEF MarkGoing
<1>2. /\ Cluster(r) = HomeCluster(r) /\ AtHome(r, hub[r])
      /\ d.at = HomeCluster(r) /\ d.ns = Home[r].tenant /\ d.name = NameOf[r]
      /\ HomeCluster(r) \in Clusters
  <2>1. Cluster(r) = HomeCluster(r) /\ AtHome(r, hub[r])
    BY <1>0, RestIsPlaced
  <2>2. d.at \in Clusters
    BY <1>0 DEF TypeOK, Claims
  <2> QED  BY <2>1, <2>2 DEF ClaimFor, AtHome
<1>3. CASE DeleteClaim
  <2>1. /\ rw.pc = "delete" /\ rw.key \in Requests
        /\ rw.spoke = HomeCluster(rw.key) /\ AtHome(rw.key, rw.obj)
    BY <1>0, <1>3 DEF DeleteClaim, TypeOK, RequestWorkers, Idle, Settled,
                      ClusterSteps
  <2>2. ~SharesClaim(r, rw.key)
    BY <1>0, <2>1 DEF RequestWorkerAtRest
  <2>3. ASSUME KeyOf(d) = [at |-> rw.spoke, ns |-> rw.obj.tenant,
                           name |-> NameOf[rw.key]]
        PROVE  FALSE
    <3>1. /\ HomeCluster(r) = HomeCluster(rw.key)
          /\ Home[r].tenant = Home[rw.key].tenant
          /\ NameOf[r] = NameOf[rw.key]
      BY <1>2, <2>1, <2>3 DEF KeyOf, AtHome
    <3>2. NoCluster \notin Clusters
      BY BucketBindingAssumption
    <3>3. \A s : HomeCluster(s) \in Clusters =>
                    Labels[HomeCluster(s)] = Home[s].region
      BY <3>2, ResolvedIsCluster DEF HomeCluster
    <3>4. Home[r].region = Home[rw.key].region
      BY <1>2, <3>1, <3>3
    <3>5. SharesClaim(r, rw.key)
      BY <2>1, <3>1, <3>4, SamePlaceShares
    <3> QED  BY <2>2, <3>5
  <2> QED  BY <1>1, <1>3, <2>3 DEF DeleteClaim
<1>4. ASSUME NEW c \in claims, DeletedOutOfBand(c)
      PROVE  d \in claims'
  <2>1. KeyOf(d) # KeyOf(c)
    <3>1. c \notin ClaimFor(Cluster(r), r, hub[r])
      BY <1>0, <1>4 DEF Meddling, Cluster
    <3> QED  BY <3>1 DEF ClaimFor, KeyOf
  <2> QED  BY <1>1, <1>4, <2>1 DEF DeletedOutOfBand
<1>5. CASE Rook
  <2>1. PICK c \in claims : RookStep(c)
    BY <1>5 DEF Rook
  <2>2. c # d
    BY <2>1 DEF RookStep
  <2> QED  BY <2>1, <2>2 DEF RookStep, Replace
<1>6. CASE SyncClaim
  BY <1>6 DEF SyncClaim
<1>7. CASE UNCHANGED claims
  BY <1>7
<1>8. CASE RequestStep /\ ~DeleteClaim /\ ~SyncClaim
  BY <1>7, <1>8 DEF RequestStep, AddFinalizer, Resolve, Lookup, Observe, Report,
                    Confirm, Release
<1>9. CASE StatusStep
  BY <1>7, <1>9 DEF StatusStep, FetchClaim, ResolveForStatus, ObserveForStatus,
                    ReportForStatus
<1>10. CASE \/ UNCHANGED vars
            \/ \E s \in Requests : Fetch(s) \/ Tick(s) \/ Order(s) \/ Delete(s)
            \/ RequestCallFails \/ StatusCallFails \/ Restart(engaged)
  BY <1>7, <1>10 DEF vars, Fetch, Tick, Order, Delete, Write, RequestCallFails,
                     StatusCallFails, Restart
<1> QED
  BY <1>0, <1>3, <1>4, <1>5, <1>6, <1>8, <1>9, <1>10 DEF SteadyNext, Steady

LEMMA ObjectsStayAtRest ==
    ASSUME NEW r \in Requests, AnyRest(r)
    PROVE  ObjectsAtRest(r)'
<1>1. HubKept(r) /\ UNCHANGED <<profiles, engaged>>
  BY RestKeepsHub, ClustersStay DEF AnyRest
<1>2. SteadyInv /\ ObjectsAtRest(r)
  BY DEF AnyRest, AtRest
<1>3. /\ hub'[r].phase = hub[r].phase /\ hub'[r].tenant = hub[r].tenant
      /\ hub'[r].region = hub[r].region /\ hub'[r].status = hub[r].status
  BY <1>1 DEF HubKept, SameOrder
<1>4. Parses(r, hub[r])' /\ BucketOf(r, hub[r])' = BucketOf(r, hub[r])
  BY <1>2, <1>3 DEF ObjectsAtRest, Parses, BucketOf
<1>5. ASSUME NEW d \in ClaimFor(Cluster(r), r, hub[r]), d.bound, d.config, ~d.going
      PROVE  d \in ClaimFor(Cluster(r), r, hub[r])'
  <2>1. d \in claims'
    BY <1>5, RestKeepsClaim DEF ClaimFor
  <2> QED  BY <1>1, <1>3, <1>5, <2>1 DEF ClaimFor, Cluster
<1>6. /\ hub[r].tenant # NoTenant
      /\ \/ /\ Cluster(r) \notin engaged
            /\ hub[r].status = UnschedulableStatus(hub[r].region)
         \/ /\ Cluster(r) \in engaged /\ ClaimStands(r)
            /\ hub[r].status = ReadyOf(r)
  <2>1. engaged \subseteq Clusters
    BY <1>2 DEF SteadyInv, TypeInv, TypeOK
  <2> QED  BY <1>2, <2>1, RestIsPlaced
<1>7. Cluster(r)' = Cluster(r) /\ ReadyOf(r)' = ReadyOf(r)
  BY <1>1, <1>3, <1>4 DEF Cluster, ReadyOf
<1>8. ClaimStands(r) => ClaimStands(r)'
  BY <1>5 DEF ClaimStands
<1>9. Placed(r)'
  <2>1. CASE Cluster(r) \notin engaged
    <3>1. /\ Cluster(r)' \notin engaged' /\ hub'[r].tenant # NoTenant
          /\ hub'[r].status = UnschedulableStatus(hub'[r].region)
      BY <1>1, <1>3, <1>6, <1>7, <2>1
    <3> QED  BY <3>1 DEF Placed, Cluster
  <2>2. CASE Cluster(r) \in engaged
    <3>1. /\ Cluster(r)' \in engaged' /\ hub'[r].tenant # NoTenant
          /\ hub'[r].status = ReadyOf(r)' /\ ClaimStands(r)'
      BY <1>1, <1>3, <1>6, <1>7, <1>8, <2>2
    <3> QED  BY <3>1 DEF Placed, Cluster, ReadyOf, ClaimStands
  <2> QED  BY <2>1, <2>2
<1> QED  BY <1>1, <1>2, <1>3, <1>4, <1>9 DEF HubKept, ObjectsAtRest
-----------------------------------------------------------------------------
(* No step makes a worker report, or delete, anything new for it. *)

\* Whoever looks at the claim of a request at rest finds it bound, with its
\* ConfigMap, and so the status there is (syncStatus).
LEMMA ObservedAtRest ==
    ASSUME SteadyInv, NEW r \in Requests, ObjectsAtRest(r),
           NEW w, w.key = r, SameOrder(w.obj, hub[r]), Cluster(r) # NoCluster
    PROVE  /\ ObserveClaim(w, Cluster(r)) = [w EXCEPT !.pc = "config"]
           /\ ObserveConfig(w, Cluster(r)) =
                 [w EXCEPT !.pc = "report", !.status = hub[r].status]
<1>1. /\ w.obj.tenant = hub[r].tenant /\ w.obj.region = hub[r].region
  BY DEF SameOrder
<1>2. ClaimFor(Cluster(r), w.key, w.obj) = ClaimFor(Cluster(r), r, hub[r])
  BY <1>1 DEF ClaimFor
<1>3. ClaimStands(r) /\ hub[r].status = ReadyOf(r)
  BY RestIsPlaced
<1>4. PICK d \in ClaimFor(Cluster(r), w.key, w.obj) : d.bound /\ d.config
  BY <1>2, <1>3 DEF ClaimStands
<1>5. ReadyStatus(w.obj.region, BucketOf(w.key, w.obj), TRUE, TRUE) = ReadyOf(r)
  BY <1>1 DEF ReadyStatus, ReadyOf, BucketOf
<1>6. (\E c \in ClaimFor(Cluster(r), w.key, w.obj) : c.config) = TRUE
  BY <1>4
<1> QED  BY <1>3, <1>4, <1>5, <1>6 DEF ObserveClaim, ObserveConfig

LEMMA RequestWorkerStaysAtRest ==
    ASSUME NEW r \in Requests, AnyRest(r)
    PROVE  RequestWorkerAtRest(r)'
<1>0. /\ SteadyInv /\ TypeOK /\ Equipped /\ Settled /\ ObjectsAtRest(r)
      /\ RequestWorkerAtRest(r) /\ [SteadyNext]_vars
  BY DEF AnyRest, AtRest, SteadyInv, TypeInv
<1>hub. SameOrder(hub'[r], hub[r]) /\ hub'[r].status = hub[r].status
  BY RestKeepsHub DEF HubKept
<1>placed. /\ hub[r].tenant # NoTenant /\ Cluster(r) = HomeCluster(r)
           /\ Cluster(r) = NoCluster =>
                 hub[r].status = UnschedulableStatus(hub[r].region)
           /\ Cluster(r) # NoCluster => Cluster(r) \in engaged
           /\ hub[r].phase = "live"
  BY <1>0, RestIsPlaced DEF ObjectsAtRest
<1>idle. ASSUME rw' = Idle
         PROVE  RequestWorkerAtRest(r)'
  BY <1>idle DEF RequestWorkerAtRest, Idle
<1>refl. SharesClaim(r, r)
  BY DEF SharesClaim
\* A worker that goes on with the same object, in a harmless way.
<1>goes. ASSUME rw.pc # "idle", rw'.key = rw.key, SameOrder(rw'.obj, rw.obj),
                SharesClaim(r, rw.key) =>
                   rw'.pc \notin {"delete", "confirm", "release"},
                rw'.pc = "report" /\ rw.key = r => rw'.status = hub[r].status
         PROVE  RequestWorkerAtRest(r)'
  BY <1>0, <1>hub, <1>goes
     DEF RequestWorkerAtRest, SameOrder, NoNewStatus, SharesClaim
<1>1. CASE RequestStep
  <2>0. rw \in RequestWorkers /\ rw.key \in Requests /\ rw.pc # "idle"
    BY <1>0, <1>1
       DEF TypeOK, RequestStep, AddFinalizer, Resolve, Lookup, SyncClaim, Observe,
           Report, DeleteClaim, Confirm, Release, Idle, RequestWorkers
  <2>same. SameOrder(rw.obj, rw.obj)
    BY DEF SameOrder
  <2>mine. rw.key = r =>
              /\ SameOrder(rw.obj, hub[r]) /\ rw.obj.region = hub[r].region
              /\ rw.pc \in ClusterSteps =>
                    rw.spoke = Cluster(r) /\ Cluster(r) # NoCluster
    BY <1>0, <1>placed, <2>0, BucketBindingAssumption
       DEF RequestWorkerAtRest, Settled, Equipped, SameOrder
  <2>sharing. SharesClaim(r, rw.key) =>
                 /\ rw.obj.phase = "live"
                 /\ rw.pc \notin {"delete", "confirm", "release"}
    BY <1>0, <2>0 DEF RequestWorkerAtRest
  <2>none. ASSUME NotFound, rw.key = r => Cluster(r) = NoCluster
           PROVE  RequestWorkerAtRest(r)'
    <3>1. rw'.key = rw.key /\ rw'.obj = rw.obj
      BY <2>0, <2>none DEF NotFound, RequestWorkers
    <3>2. SharesClaim(r, rw.key) =>
             /\ rw'.pc = "report"
             /\ rw'.status = UnschedulableStatus(rw.obj.region)
      BY <2>0, <2>sharing, <2>none DEF NotFound, RequestWorkers
    <3>3. rw.key = r => rw'.status = hub[r].status
      BY <1>placed, <1>refl, <2>mine, <2>none, <3>2
    <3> QED  BY <1>goes, <2>0, <2>same, <3>1, <3>2, <3>3
  <2>1. CASE AddFinalizer
    <3>1. CASE hub[rw.key].phase = "live"
      <4> DEFINE o == [rw.obj EXCEPT !.status = hub[rw.key].status]
      <4>1. rw'.pc = "resolve" /\ rw'.key = rw.key /\ rw'.obj = o
        BY <2>0, <2>1, <3>1 DEF AddFinalizer, RequestWorkers
      <4>2. SameOrder(o, rw.obj)
        BY <2>0 DEF RequestWorkers, Objects, SameOrder
      <4> HIDE DEF o
      <4> QED  BY <1>goes, <2>0, <4>1, <4>2
    <3>2. CASE hub[rw.key].phase # "live"
      BY <1>idle, <2>1, <3>2 DEF AddFinalizer, Retry
    <3> QED  BY <3>1, <3>2
  <2>2. CASE Resolve
    <3> DEFINE c == ResolveCluster(rw.obj.region, profiles)
    <3>1. rw.key = r => c = Cluster(r)
      BY <2>mine DEF Cluster
    <3>2. CASE c = NoCluster
      BY <2>2, <2>none, <3>1, <3>2 DEF Resolve
    <3>3. CASE c # NoCluster
      <4>1. rw'.pc = "lookup" /\ rw'.key = rw.key /\ rw'.obj = rw.obj
        BY <2>0, <2>2, <3>3 DEF Resolve, RequestWorkers
      <4> QED  BY <1>goes, <2>0, <2>same, <4>1
    <3> QED  BY <3>2, <3>3
  <2>3. CASE Lookup
    <3>1. CASE rw.spoke \notin engaged
      <4>1. rw.key # r
        BY <1>placed, <2>3, <2>mine, <3>1 DEF Lookup, ClusterSteps
      <4> QED  BY <2>3, <2>none, <3>1, <4>1 DEF Lookup
    <3>2. CASE rw.spoke \in engaged
      <4>1. /\ rw'.key = rw.key /\ rw'.obj = rw.obj
            /\ rw'.pc = IF rw.obj.phase = "deleting" THEN "delete" ELSE "claim"
        BY <2>0, <2>3, <3>2 DEF Lookup, RequestWorkers
      <4> QED  BY <1>goes, <2>0, <2>same, <2>sharing, <4>1
    <3> QED  BY <3>1, <3>2
  <2>4. CASE SyncClaim
    <3>1. rw'.pc = "observe" /\ rw'.key = rw.key /\ rw'.obj = rw.obj
      BY <2>0, <2>4 DEF SyncClaim, RequestWorkers
    <3> QED  BY <1>goes, <2>0, <2>same, <3>1
  <2>5. CASE Observe
    <3>1. /\ rw'.key = rw.key /\ rw'.obj = rw.obj
          /\ rw'.pc \in {"config", "report"} /\ rw.pc \in ClusterSteps
      BY <2>0, <2>5, ObserveClaimType, ObserveConfigType
         DEF Observe, ClusterSteps
    <3>2. ASSUME rw.key = r, rw'.pc = "report"
          PROVE  rw'.status = hub[r].status
      <4>1. /\ SameOrder(rw.obj, hub[r]) /\ rw.spoke = Cluster(r)
            /\ Cluster(r) # NoCluster
        BY <2>mine, <3>1, <3>2
      <4>2. /\ ObserveClaim(rw, Cluster(r)) = [rw EXCEPT !.pc = "config"]
            /\ ObserveConfig(rw, Cluster(r)) =
                  [rw EXCEPT !.pc = "report", !.status = hub[r].status]
        BY <1>0, <3>2, <4>1, ObservedAtRest
      <4>3. \/ rw' = ObserveClaim(rw, Cluster(r))
            \/ rw' = ObserveConfig(rw, Cluster(r))
        BY <2>5, <4>1 DEF Observe
      <4>4. \/ rw' = [rw EXCEPT !.pc = "config"]
            \/ rw' = [rw EXCEPT !.pc = "report", !.status = hub[r].status]
        BY <4>2, <4>3
      <4> QED  BY <2>0, <3>2, <4>4 DEF RequestWorkers
    <3> QED  BY <1>goes, <2>0, <2>same, <3>1, <3>2
  <2>6. CASE Report \/ Release
    BY <1>idle, <2>6 DEF Report, Release
  <2>7. CASE DeleteClaim \/ Confirm
    <3>1. CASE rw' = Idle
      BY <1>idle, <3>1
    <3>2. CASE rw' # Idle
      <4>1. /\ rw'.pc \in {"confirm", "release"}
            /\ rw'.key = rw.key /\ rw'.obj = rw.obj
            /\ rw.pc \in {"delete", "confirm"}
        BY <2>0, <2>7, <3>2 DEF DeleteClaim, Confirm, RequestWorkers
      <4> QED  BY <1>goes, <2>0, <2>same, <2>sharing, <4>1
    <3> QED  BY <3>1, <3>2
  <2> QED
    BY <1>1, <2>1, <2>2, <2>3, <2>4, <2>5, <2>6, <2>7 DEF RequestStep
<1>2. ASSUME NEW s \in Requests, Fetch(s)
      PROVE  RequestWorkerAtRest(r)'
  <2>1. CASE Start(s, hub[s]) = "idle"
    BY <1>idle, <1>2, <2>1 DEF Fetch
  <2>2. CASE Start(s, hub[s]) # "idle"
    <3>1. /\ rw'.pc = Start(s, hub[s]) /\ rw'.key = s /\ rw'.obj = hub[s]
      BY <1>2, <2>2 DEF Fetch
    <3>2. hub[s] \in Objects
      BY <1>0, <2>2 DEF Start, TypeOK, Absent
    <3>3. SharesClaim(r, s) =>
             /\ hub[s].phase = "live"
             /\ Start(s, hub[s]) \in {"report", "guard", "resolve"}
      BY <1>0, <2>2, <3>2 DEF ObjectsAtRest, Objects, Start
    <3>4. Start(r, hub[r]) # "report"
      BY <1>placed DEF Start
    <3>5. SameOrder(hub[r], hub'[r])
      BY <1>hub DEF SameOrder
    <3> QED
      BY <3>1, <3>3, <3>4, <3>5 DEF RequestWorkerAtRest, NoNewStatus
  <2> QED  BY <2>1, <2>2
<1>3. CASE UNCHANGED rw
  BY <1>0, <1>hub, <1>3 DEF RequestWorkerAtRest, SameOrder, NoNewStatus
<1>4. CASE \/ \E s \in Requests : Tick(s) \/ Order(s) \/ Delete(s) \/ Edit(s)
           \/ StatusStep \/ Rook \/ Faults
  BY <1>0, <1>idle, <1>3, <1>4, OtherStepsFade DEF SteadyInv
<1>5. CASE UNCHANGED vars
  BY <1>3, <1>5 DEF vars
<1> QED  BY <1>0, <1>1, <1>2, <1>4, <1>5, Steps

LEMMA StatusWorkerStaysAtRest ==
    ASSUME NEW r \in Requests, AnyRest(r)
    PROVE  StatusWorkerAtRest(r)'
<1>0. /\ SteadyInv /\ TypeOK /\ ObjectsAtRest(r) /\ StatusWorkerAtRest(r)
      /\ [SteadyNext]_vars /\ UNCHANGED <<profiles, engaged>>
  BY ClustersStay DEF AnyRest, AtRest, SteadyInv, TypeInv
<1>hub. /\ SameOrder(hub'[r], hub[r]) /\ hub'[r].status = hub[r].status
        /\ Cluster(r)' = Cluster(r)
  BY <1>0, RestKeepsHub DEF HubKept, SameOrder, Cluster
<1>idle. ASSUME sw' = Idle
         PROVE  StatusWorkerAtRest(r)'
  BY <1>idle DEF StatusWorkerAtRest, Idle
<1>same. ASSUME UNCHANGED sw
         PROVE  StatusWorkerAtRest(r)'
  BY <1>0, <1>hub, <1>same
     DEF StatusWorkerAtRest, SameOrder, NoNewStatus, Cluster
\* A worker that goes on with the same object, in a harmless way.
<1>goes. ASSUME sw.pc # "idle", sw'.key = sw.key, SameOrder(sw'.obj, sw.obj),
                sw.key = r =>
                   /\ sw'.pc \in {"observe", "config"} => sw'.claim.at = Cluster(r)
                   /\ sw'.pc = "report" => sw'.status = hub[r].status
         PROVE  StatusWorkerAtRest(r)'
  BY <1>0, <1>hub, <1>goes
     DEF StatusWorkerAtRest, SameOrder, NoNewStatus, Cluster
<1>1. ASSUME NEW k \in ClaimKeys, FetchClaim(k)
      PROVE  StatusWorkerAtRest(r)'
  <2>1. ASSUME NEW c \in claims,
               sw' = [pc |-> "resolve", claim |-> k, key |-> c.owner,
                      obj |-> hub[c.owner], status |-> None]
        PROVE  StatusWorkerAtRest(r)'
    <3>1. SameOrder(hub[r], hub'[r])
      BY <1>hub DEF SameOrder
    <3>2. sw'.pc = "resolve" /\ sw'.key = c.owner /\ sw'.obj = hub[c.owner]
      BY <2>1
    <3> QED  BY <3>1, <3>2 DEF StatusWorkerAtRest, NoNewStatus
  <2> QED  BY <1>1, <1>idle, <1>same, <2>1 DEF FetchClaim
<1>2. CASE ResolveForStatus
  <2>1. sw \in StatusWorkers /\ sw.pc = "resolve"
    BY <1>0, <1>2 DEF ResolveForStatus, TypeOK, Idle
  <2>2. CASE ResolveCluster(sw.obj.region, profiles) = sw.claim.at
    <3>1. /\ sw'.pc = "observe" /\ sw'.key = sw.key /\ sw'.obj = sw.obj
          /\ sw'.claim = sw.claim
      BY <1>2, <2>1, <2>2 DEF ResolveForStatus, StatusWorkers
    <3>2. sw.key = r => sw.claim.at = Cluster(r)
      BY <1>0, <2>1, <2>2 DEF StatusWorkerAtRest, SameOrder, Cluster
    <3> QED  BY <1>goes, <2>1, <3>1, <3>2 DEF SameOrder
  <2>3. CASE ResolveCluster(sw.obj.region, profiles) # sw.claim.at
    BY <1>2, <1>idle, <2>3 DEF ResolveForStatus
  <2> QED  BY <2>2, <2>3
<1>3. CASE ObserveForStatus
  <2>1. sw \in StatusWorkers /\ sw.pc \in {"observe", "config"}
    BY <1>0, <1>3 DEF ObserveForStatus, TypeOK, Idle
  <2>2. sw'.key = sw.key /\ sw'.obj = sw.obj /\ sw'.claim = sw.claim
    BY <1>3, <2>1
       DEF ObserveForStatus, ObserveClaim, ObserveConfig, StatusWorkers
  <2>3. ASSUME sw.key = r
        PROVE  /\ sw'.claim.at = Cluster(r)
               /\ sw'.pc = "report" => sw'.status = hub[r].status
    <3>1. SameOrder(sw.obj, hub[r]) /\ sw.claim.at = Cluster(r)
      BY <1>0, <2>1, <2>3 DEF StatusWorkerAtRest, Cluster
    <3>2. Cluster(r) # NoCluster
      BY <2>1, <3>1, BucketBindingAssumption DEF StatusWorkers, ClaimKeys
    <3>3. /\ ObserveClaim(sw, sw.claim.at) = [sw EXCEPT !.pc = "config"]
          /\ ObserveConfig(sw, sw.claim.at) =
                [sw EXCEPT !.pc = "report", !.status = hub[r].status]
      BY <1>0, <2>3, <3>1, <3>2, ObservedAtRest
    <3> QED  BY <1>3, <2>1, <2>2, <3>1, <3>3 DEF ObserveForStatus, StatusWorkers
  <2> QED  BY <1>goes, <2>1, <2>2, <2>3 DEF SameOrder
<1>4. CASE ReportForStatus \/ StatusCallFails \/ Restart(engaged)
  BY <1>4, <1>idle DEF ReportForStatus, StatusCallFails, Restart
<1>5. CASE RequestStep \/ Rook
  BY <1>5, <1>same
     DEF RequestStep, AddFinalizer, Resolve, Lookup, SyncClaim, Observe, Report,
         DeleteClaim, Confirm, Release, Rook
<1>6. CASE \/ UNCHANGED vars \/ RequestCallFails
           \/ \E s \in Requests : Fetch(s) \/ Tick(s) \/ Order(s) \/ Delete(s)
           \/ \E c \in claims : DeletedOutOfBand(c)
  BY <1>6, <1>same
     DEF vars, RequestCallFails, Fetch, Tick, Order, Delete, Write,
         DeletedOutOfBand
<1> QED
  BY <1>0, <1>1, <1>2, <1>3, <1>4, <1>5, <1>6 DEF SteadyNext, Steady, StatusStep

LEMMA StaysAtRest ==
    ASSUME SteadyInv, [SteadyNext]_vars, NEW r \in Requests, AtRest(r)
    PROVE  AtRest(r)' \/ Meddling(r)
<1> SUFFICES ASSUME ~Meddling(r)
             PROVE  AtRest(r)'
  OBVIOUS
<1>1. AnyRest(r)
  BY DEF AnyRest
<1> QED
  BY <1>1, ObjectsStayAtRest, RequestWorkerStaysAtRest, StatusWorkerStaysAtRest
     DEF AtRest

(***************************************************************************)
(* A request that is where it belongs, and says so, stays there until      *)
(* somebody deletes it, one that shares its claim, or the claim: no        *)
(* interleaving of the two workers' stale reads, failed calls, restarts,   *)
(* Rook's own pace and other requests' work takes its bucket or its status *)
(* back (Reconcile, syncStatus, patchStatus).                              *)
(***************************************************************************)
THEOREM PlacementIsStable == SteadySpec => StaysPlaced
<1> DEFINE Stays == \A r \in Requests : AtRest(r) => AtRest(r)' \/ Meddling(r)
<1>1. SteadyInit => SteadyInv
  BY SteadyInvInit
<1>2. SteadyInv /\ [SteadyNext]_vars => SteadyInv' /\ Stays
  BY SteadyInvStep, StaysAtRest
<1>3. SteadySpec => [][Stays]_vars
  BY <1>1, <1>2, PTL DEF SteadySpec
<1> QED  BY <1>3 DEF StaysPlaced
=============================================================================
