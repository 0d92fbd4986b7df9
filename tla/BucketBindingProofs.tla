------------------------- MODULE BucketBindingProofs -------------------------
(***************************************************************************)
(* Theorems about BucketBinding for every value of its constants.          *)
(***************************************************************************)
EXTENDS BucketBinding, FiniteSetTheorems, SequenceTheorems, TLAPS

-----------------------------------------------------------------------------
(* The rules of BucketDomain return what the workers' records may hold. *)

\* A region that is served at all is served by one of its clusters
\* (ResolveCluster): the first by name, which exists.
LEMMA ResolvedServes ==
    ASSUME NEW g, NEW p, Serving(g, p) # {}
    PROVE  ResolveCluster(g, p) \in Serving(g, p)
<1> DEFINE S == Serving(g, p)
<1>1. S \subseteq Nat
  BY BucketBindingAssumption DEF Serving
<1>2. PICK x \in S : \A y \in S : <<y, x>> \notin OpToRel(<, Nat)
  BY <1>1, WFMin, NatLessThanWellFounded
<1>3. \A y \in S : ~(y < x)
  BY <1>1, <1>2 DEF OpToRel
<1>4. \A y \in S : x =< y
  BY <1>1, <1>3
<1>5. Min(S) \in S
  BY <1>4 DEF Min
<1> QED  BY <1>5 DEF ResolveCluster

\* It is one of the clusters, or none.
LEMMA ResolvedIsCluster ==
    ASSUME NEW g, NEW p
    PROVE  /\ ResolveCluster(g, p) \in Clusters \cup {NoCluster}
           /\ ResolveCluster(g, p) # NoCluster =>
                 ResolveCluster(g, p) \in Clusters /\ p[ResolveCluster(g, p)] = g
BY ResolvedServes DEF ResolveCluster, Serving

\* The status built for a request, with or without a bucket, is a status.
LEMMA StatusesAreStatuses ==
    ASSUME NEW g \in Regions
    PROVE  /\ UnschedulableStatus(g) \in Statuses
           /\ MissingTenantStatus(g) \in Statuses
           /\ \A b \in BucketNames, x, y \in BOOLEAN :
                 ReadyStatus(g, b, x, y) \in Statuses
BY DEF UnschedulableStatus, MissingTenantStatus, ReadyStatus, Status, Statuses,
       Phases, Messages, BucketNames

LEMMA BucketOfIsName ==
    ASSUME NEW r \in Requests, NEW o \in Objects
    PROVE  BucketOf(r, o) \in BucketNames
BY DEF BucketOf, BucketNames, Objects

LEMMA KeysAreKeys ==
    ASSUME NEW S \in SUBSET Claims, NEW c \in S
    PROVE  KeyOf(c) \in ClaimKeys
BY DEF Claims, ClaimKeys, KeyOf
-----------------------------------------------------------------------------
(* Type correctness. *)

TypeInv == TypeOK /\ Equipped

\* A delete call leaves claims claims, and tells of claim keys.
LEMMA MarkGoingType ==
    ASSUME TypeOK, NEW keys, MarkGoing(keys)
    PROVE  claims' \subseteq Claims /\ events' \subseteq ClaimKeys
<1>1. \A c \in claims : [c EXCEPT !.going = TRUE] \in Claims
  BY DEF TypeOK, Claims
<1>2. claims' \subseteq Claims
  BY <1>1 DEF MarkGoing, TypeOK
<1>3. \A c \in claims : KeyOf(c) \in ClaimKeys
  BY KeysAreKeys DEF TypeOK
<1> QED  BY <1>2, <1>3 DEF MarkGoing, Notify, TypeOK

\* A status patch writes a status and nothing else.
LEMMA PatchType ==
    ASSUME TypeOK, NEW r \in Requests, NEW s \in Statuses \cup {None},
           hub[r].phase # "absent", Patch(r, s)
    PROVE  hub' \in [Requests -> Objects \cup {Absent}] /\ queue' \subseteq Requests
<1>1. hub[r] \in Objects
  BY DEF TypeOK, Absent
<1>2. [hub[r] EXCEPT !.status = s] \in Objects
  BY <1>1 DEF Objects
<1> QED  BY <1>2 DEF Patch, TypeOK

\* syncStatus: reading the claim leads to its ConfigMap or to a status.
LEMMA ObserveClaimType ==
    ASSUME NEW w \in RequestWorkers, NEW c
    PROVE  LET v == ObserveClaim(w, c)
           IN  /\ v \in RequestWorkers /\ v.pc \in {"config", "report"}
               /\ v.key = w.key /\ v.obj = w.obj /\ v.spoke = w.spoke
<1>1. \A x, y \in BOOLEAN :
         ReadyStatus(w.obj.region, BucketOf(w.key, w.obj), x, y) \in Statuses
  BY StatusesAreStatuses, BucketOfIsName DEF RequestWorkers, Objects
<1> QED  BY <1>1 DEF ObserveClaim, RequestWorkers, RequestSteps

LEMMA ObserveConfigType ==
    ASSUME NEW w \in RequestWorkers, NEW c
    PROVE  LET v == ObserveConfig(w, c)
           IN  /\ v \in RequestWorkers /\ v.pc = "report"
               /\ v.key = w.key /\ v.obj = w.obj /\ v.spoke = w.spoke
<1>1. \A x, y \in BOOLEAN :
         ReadyStatus(w.obj.region, BucketOf(w.key, w.obj), x, y) \in Statuses
  BY StatusesAreStatuses, BucketOfIsName DEF RequestWorkers, Objects
<1> QED  BY <1>1 DEF ObserveConfig, RequestWorkers, RequestSteps

\* The same for the status worker.
LEMMA ObserveForStatusType ==
    ASSUME NEW w \in StatusWorkers, NEW c
    PROVE  ObserveClaim(w, c) \in StatusWorkers /\ ObserveConfig(w, c) \in StatusWorkers
<1>1. \A x, y \in BOOLEAN :
         ReadyStatus(w.obj.region, BucketOf(w.key, w.obj), x, y) \in Statuses
  BY StatusesAreStatuses, BucketOfIsName DEF StatusWorkers, Objects
<1> QED  BY <1>1 DEF ObserveClaim, ObserveConfig, StatusWorkers

\* Reading a request sets the worker up with what its first step needs.
LEMMA FetchType ==
    ASSUME TypeInv, NEW r \in Requests, Fetch(r)
    PROVE  TypeInv'
<1> USE DEF TypeInv
<1> DEFINE step == Start(r, hub[r])
<1>1. hub[r] \in Objects \/ hub[r] = Absent
  BY DEF TypeOK
<1>2. CASE step = "idle"
  BY <1>2 DEF Fetch, TypeOK, Equipped, ClusterSteps, Idle
<1>3. CASE step # "idle"
  <2>1. hub[r] \in Objects
    BY <1>1, <1>3 DEF Start, Absent
  <2>2. step \in {"guard", "resolve", "report", "release"}
    BY <1>3, <2>1 DEF Start, Objects
  <2>3. step \in {"guard", "resolve"} =>
           Parses(r, hub[r]) /\ hub[r].tenant \in Tenants
    BY <2>1 DEF Start, Objects
  <2>4. MissingTenantStatus(hub[r].region) \in Statuses
    BY <2>1, StatusesAreStatuses DEF Objects
  <2>5. rw' = [pc |-> step, key |-> r, obj |-> hub[r], spoke |-> NoCluster,
               status |-> IF step = "report"
                          THEN MissingTenantStatus(hub[r].region) ELSE None]
    BY <1>3 DEF Fetch
  <2>6. rw' \in RequestWorkers
    BY <2>1, <2>2, <2>4, <2>5 DEF RequestWorkers, RequestSteps
  <2>7. Equipped'
    BY <2>2, <2>3, <2>5 DEF Equipped, ClusterSteps, Parses, BucketOf
  <2> QED  BY <2>6, <2>7 DEF Fetch, TypeOK
<1> QED  BY <1>2, <1>3

\* Each step of the request worker keeps the types, and hands on what the
\* next one needs.
LEMMA RequestStepType ==
    ASSUME TypeInv, RequestStep
    PROVE  TypeInv'
<1> USE DEF TypeInv
<1>0. rw \in RequestWorkers
  BY DEF TypeOK, RequestStep, AddFinalizer, Resolve, Lookup, SyncClaim, Observe,
         Report, DeleteClaim, Confirm, Release, Idle
<1>1. CASE AddFinalizer
  <2>1. CASE hub[rw.key].phase = "live"
    <3>1. hub[rw.key] \in Objects
      BY <1>0, <2>1 DEF TypeOK, RequestWorkers, Absent
    <3>2. [hub[rw.key] EXCEPT !.fin = TRUE] \in Objects
      BY <3>1 DEF Objects
    <3>3. hub' \in [Requests -> Objects \cup {Absent}]
      BY <1>0, <1>1, <2>1, <3>2 DEF AddFinalizer, TypeOK, RequestWorkers
    <3>4. [rw.obj EXCEPT !.status = hub[rw.key].status] \in Objects
      BY <1>0, <3>1 DEF RequestWorkers, Objects
    <3>5. rw' = [rw EXCEPT !.pc = "resolve",
                    !.obj = [rw.obj EXCEPT !.status = hub[rw.key].status]]
      BY <1>0, <1>1, <2>1 DEF AddFinalizer, RequestWorkers
    <3>6. rw' \in RequestWorkers
      BY <1>0, <3>4, <3>5 DEF RequestWorkers, RequestSteps
    <3>7. /\ rw'.pc = "resolve" /\ rw.pc = "guard" /\ rw'.key = rw.key
          /\ rw'.obj.tenant = rw.obj.tenant
      BY <1>0, <1>1, <3>5 DEF AddFinalizer, RequestWorkers, Objects
    <3>8. Equipped'
      BY <3>7 DEF Equipped, ClusterSteps, Parses, BucketOf
    <3>9. queue' \subseteq Requests
      BY <1>0, <1>1, <2>1 DEF AddFinalizer, TypeOK, RequestWorkers
    <3> QED  BY <1>1, <3>3, <3>6, <3>8, <3>9 DEF AddFinalizer, TypeOK
  <2>2. CASE hub[rw.key].phase # "live"
    BY <1>0, <1>1, <2>2 DEF AddFinalizer, Retry, TypeOK, RequestWorkers, Idle,
                            Equipped, ClusterSteps
  <2> QED  BY <2>1, <2>2
<1>2. ASSUME NotFound
      PROVE  rw' \in RequestWorkers /\ Equipped'
  BY <1>0, <1>2, StatusesAreStatuses
     DEF NotFound, RequestWorkers, RequestSteps, Objects, Equipped, ClusterSteps
<1>3. CASE Resolve
  <2> DEFINE c == ResolveCluster(rw.obj.region, profiles)
  <2>1. CASE c = NoCluster
    BY <1>2, <1>3, <2>1 DEF Resolve, TypeOK, waiting
  <2>2. CASE c # NoCluster
    <3>1. c \in Clusters
      BY <2>2, ResolvedIsCluster
    <3>2. rw' = [rw EXCEPT !.pc = "lookup", !.spoke = c] /\ rw.pc = "resolve"
      BY <1>3, <2>2 DEF Resolve
    <3>3. rw' \in RequestWorkers
      BY <1>0, <3>1, <3>2 DEF RequestWorkers, RequestSteps
    <3>4. Equipped'
      BY <1>0, <3>1, <3>2 DEF RequestWorkers, Equipped, ClusterSteps, Parses, BucketOf
    <3> QED  BY <1>3, <3>3, <3>4 DEF Resolve, TypeOK, waiting
  <2> QED  BY <2>1, <2>2
\* Steps that only move the worker on, on the same cluster.
<1>4. ASSUME rw' \in RequestWorkers, rw.pc \in ClusterSteps,
             rw'.key = rw.key, rw'.obj = rw.obj, rw'.spoke = rw.spoke
      PROVE  rw' \in RequestWorkers /\ Equipped'
  BY <1>4 DEF Equipped, ClusterSteps, Parses, BucketOf
<1>5. ASSUME NEW step \in RequestSteps, rw.pc \in ClusterSteps,
             rw' = [rw EXCEPT !.pc = step]
      PROVE  rw' \in RequestWorkers /\ Equipped'
  BY <1>0, <1>4, <1>5 DEF RequestWorkers
<1>6. CASE Lookup
  <2>1. rw' \in RequestWorkers /\ Equipped'
    BY <1>2, <1>5, <1>6 DEF Lookup, RequestSteps, ClusterSteps
  <2> QED  BY <1>6, <2>1 DEF Lookup, TypeOK, waiting
<1>7. CASE SyncClaim
  <2> DEFINE c == [at |-> rw.spoke, ns |-> rw.obj.tenant,
                   name |-> NameOf[rw.key], owner |-> rw.key,
                   size |-> rw.obj.size, bound |-> FALSE, config |-> FALSE,
                   going |-> FALSE]
  <2>1. c \in Claims
    BY <1>0, <1>7
       DEF SyncClaim, Claims, Equipped, ClusterSteps, RequestWorkers, Objects
  <2>2. KeyOf(c) \in ClaimKeys
    BY <2>1 DEF Claims, ClaimKeys, KeyOf
  <2>3. claims' \subseteq Claims /\ events' \subseteq ClaimKeys
    BY <1>7, <2>1, <2>2 DEF SyncClaim, Notify, TypeOK
  <2>4. rw' \in RequestWorkers /\ Equipped'
    BY <1>5, <1>7 DEF SyncClaim, RequestSteps, ClusterSteps
  <2> QED  BY <1>7, <2>3, <2>4 DEF SyncClaim, TypeOK
<1>8. CASE Observe
  <2>1. rw' \in RequestWorkers /\ Equipped'
    BY <1>0, <1>4, <1>8, ObserveClaimType, ObserveConfigType
       DEF Observe, ClusterSteps
  <2> QED  BY <1>8, <2>1 DEF Observe, TypeOK, waiting
<1>9. CASE Report
  <2>1. rw' = Idle /\ Equipped'
    BY <1>9 DEF Report, Idle, Equipped, ClusterSteps
  <2>2. hub' \in [Requests -> Objects \cup {Absent}] /\ queue' \subseteq Requests
    BY <1>0, <1>9, PatchType DEF Report, RequestWorkers, TypeOK
  <2>3. timers' \subseteq Requests
    BY <1>0, <1>9 DEF Report, RequeueLater, RequestWorkers, TypeOK
  <2> QED  BY <1>9, <2>1, <2>2, <2>3 DEF Report, TypeOK
<1>10. CASE DeleteClaim
  <2>1. claims' \subseteq Claims /\ events' \subseteq ClaimKeys
    BY <1>10, MarkGoingType DEF DeleteClaim
  <2>2. rw' \in RequestWorkers /\ Equipped'
    BY <1>5, <1>10 DEF DeleteClaim, RequestSteps, ClusterSteps
  <2> QED  BY <1>10, <2>1, <2>2 DEF DeleteClaim, TypeOK
<1>11. CASE Confirm
  <2>1. CASE ClaimFor(rw.spoke, rw.key, rw.obj) = {}
    <3>1. rw' \in RequestWorkers /\ Equipped'
      BY <1>5, <1>11, <2>1 DEF Confirm, RequestSteps, ClusterSteps
    <3> QED  BY <1>11, <2>1, <3>1 DEF Confirm, TypeOK
  <2>2. CASE ClaimFor(rw.spoke, rw.key, rw.obj) # {}
    BY <1>0, <1>11, <2>2 DEF Confirm, TypeOK, RequestWorkers, Idle, Equipped,
                             ClusterSteps
  <2> QED  BY <2>1, <2>2
<1>12. CASE Release
  BY <1>0, <1>12 DEF Release, RequestWorkers, TypeOK, Idle, Equipped, ClusterSteps
<1> QED
  BY <1>1, <1>3, <1>6, <1>7, <1>8, <1>9, <1>10, <1>11, <1>12 DEF RequestStep

\* The status worker keeps the types.
LEMMA StatusStepType ==
    ASSUME TypeInv, StatusStep
    PROVE  TypeInv'
<1> USE DEF TypeInv
<1>1. ASSUME NEW k \in ClaimKeys, FetchClaim(k)
      PROVE  TypeInv'
  <2>1. sw' \in StatusWorkers \cup {Idle}
    <3>1. ASSUME NEW c \in claims, KeyOf(c) = k,
                 sw' = IF hub[c.owner].phase # "absent"
                          /\ Parses(c.owner, hub[c.owner])
                       THEN [pc |-> "resolve", claim |-> k, key |-> c.owner,
                             obj |-> hub[c.owner], status |-> None]
                       ELSE Idle
          PROVE  sw' \in StatusWorkers \cup {Idle}
      <4>1. c.owner \in Requests
        BY DEF TypeOK, Claims
      <4>2. hub[c.owner] \in Objects \/ hub[c.owner].phase = "absent"
        BY <4>1 DEF TypeOK, Absent
      <4> QED  BY <3>1, <4>1, <4>2 DEF StatusWorkers
    <3> QED  BY <1>1, <3>1 DEF FetchClaim, TypeOK
  <2> QED  BY <1>1, <2>1 DEF FetchClaim, TypeOK, Equipped
<1>2. CASE ResolveForStatus
  <2>1. sw \in StatusWorkers
    BY <1>2 DEF ResolveForStatus, TypeOK, Idle
  <2> QED
    BY <1>2, <2>1 DEF ResolveForStatus, StatusWorkers, TypeOK, waiting, Equipped
<1>3. CASE ObserveForStatus
  <2>1. sw \in StatusWorkers
    BY <1>3 DEF ObserveForStatus, TypeOK, Idle
  <2>2. sw' \in StatusWorkers
    BY <1>3, <2>1, ObserveForStatusType DEF ObserveForStatus
  <2> QED  BY <1>3, <2>2 DEF ObserveForStatus, TypeOK, waiting, Equipped
<1>4. CASE ReportForStatus
  <2>1. sw \in StatusWorkers
    BY <1>4 DEF ReportForStatus, TypeOK, Idle
  <2>2. hub' \in [Requests -> Objects \cup {Absent}] /\ queue' \subseteq Requests
    BY <1>4, <2>1, PatchType DEF ReportForStatus, StatusWorkers, TypeOK
  <2> QED  BY <1>4, <2>2 DEF ReportForStatus, TypeOK, Equipped
<1> QED  BY <1>1, <1>2, <1>3, <1>4 DEF StatusStep

\* Rook changes nothing of a claim but what it has done for it.
LEMMA RookType ==
    ASSUME TypeInv, Rook
    PROVE  TypeInv'
<1>1. PICK c \in claims : RookStep(c)
  BY DEF Rook
<1>2. /\ [c EXCEPT !.bound = TRUE] \in Claims
      /\ [c EXCEPT !.config = TRUE] \in Claims
      /\ KeyOf(c) \in ClaimKeys
  BY KeysAreKeys DEF TypeInv, TypeOK, Claims
<1>3. claims' \subseteq Claims /\ events' \subseteq ClaimKeys
  BY <1>1, <1>2 DEF RookStep, Replace, Notify, TypeInv, TypeOK
<1> QED  BY <1>3 DEF Rook, TypeInv, TypeOK, Equipped

\* Users write request objects; the steps of Order, Delete and Edit.
LEMMA WriteType ==
    ASSUME TypeInv, NEW r \in Requests, NEW o \in Objects \cup {Absent},
           Write(r, o)
    PROVE  TypeInv'
BY DEF Write, Disturb, TypeInv, TypeOK, Equipped

LEMMA UsersType ==
    ASSUME TypeInv, NEW r \in Requests, Order(r) \/ Delete(r) \/ Edit(r)
    PROVE  TypeInv'
<1>1. CASE Order(r)
  <2>1. Home[r].tenant \in Tenants /\ Home[r].region \in Regions
    BY BucketBindingAssumption
  <2> DEFINE new(z) == [phase |-> "live", fin |-> FALSE,
                        tenant |-> Home[r].tenant, region |-> Home[r].region,
                        size |-> z, status |-> None]
  <2>2. \A z \in Sizes : new(z) \in Objects
    BY <2>1 DEF Objects
  <2>3. PICK z \in Sizes : Write(r, new(z))
    BY <1>1 DEF Order
  <2> HIDE DEF new
  <2> QED  BY <2>2, <2>3, WriteType
<1>2. ASSUME hub[r].phase # "absent"
      PROVE  hub[r] \in Objects
  BY <1>2 DEF TypeInv, TypeOK, Absent
<1>3. CASE Delete(r)
  <2>1. hub[r] \in Objects
    BY <1>2, <1>3 DEF Delete
  <2>2. [hub[r] EXCEPT !.phase = "deleting"] \in Objects
    BY <2>1 DEF Objects
  <2> QED  BY <1>3, <2>2, WriteType DEF Delete
<1>4. CASE Edit(r)
  <2>1. hub[r] \in Objects
    BY <1>2, <1>4 DEF Edit
  <2>2. /\ \A t \in Tenants \cup {NoTenant} :
              [hub[r] EXCEPT !.tenant = t] \in Objects
        /\ \A g \in Regions : [hub[r] EXCEPT !.region = g] \in Objects
    BY <2>1 DEF Objects
  <2>3. PICK o \in Objects : Write(r, o)
    BY <1>4, <2>2 DEF Edit
  <2> QED  BY <2>3, WriteType
<1> QED  BY <1>1, <1>3, <1>4

\* What goes wrong, the admins and the provider.
Faults ==
    \/ RequestCallFails \/ StatusCallFails
    \/ \E c \in claims : DeletedOutOfBand(c)
    \/ Restart({}) \/ Restart(engaged)
    \/ \E c \in Clusters : Engage(c) \/ Disengage(c) \/ Relabel(c)

LEMMA FaultsType ==
    ASSUME TypeInv, Faults
    PROVE  TypeInv'
<1> USE DEF TypeInv
<1>1. CASE RequestCallFails
  <2>1. rw \in RequestWorkers
    BY <1>1 DEF RequestCallFails, TypeOK, Idle
  <2> QED
    BY <1>1, <2>1 DEF RequestCallFails, Retry, RequestWorkers, Idle, Disturb,
                      TypeOK, Equipped, ClusterSteps
<1>2. CASE StatusCallFails
  <2>1. sw \in StatusWorkers
    BY <1>2 DEF StatusCallFails, TypeOK, Idle
  <2> QED
    BY <1>2, <2>1 DEF StatusCallFails, StatusWorkers, Disturb, TypeOK, Equipped
<1>3. ASSUME NEW c \in claims, DeletedOutOfBand(c)
      PROVE  TypeInv'
  <2>1. claims' \subseteq Claims /\ events' \subseteq ClaimKeys
    BY <1>3, MarkGoingType DEF DeletedOutOfBand
  <2> QED  BY <1>3, <2>1 DEF DeletedOutOfBand, Disturb, TypeOK, Equipped
<1>4. \A c \in claims : KeyOf(c) \in ClaimKeys
  BY KeysAreKeys DEF TypeOK
<1>5. ASSUME NEW clusters \in SUBSET Clusters, Restart(clusters)
      PROVE  TypeInv'
  BY <1>4, <1>5 DEF Restart, Disturb, TypeOK, Idle, Equipped, ClusterSteps
<1>6. ASSUME NEW c \in Clusters, Engage(c)
      PROVE  TypeInv'
  BY <1>4, <1>6 DEF Engage, TypeOK, Equipped
<1>7. ASSUME NEW c \in Clusters, Disengage(c)
      PROVE  TypeInv'
  BY <1>7 DEF Disengage, Disturb, TypeOK, Equipped
<1>8. ASSUME NEW c \in Clusters, Relabel(c)
      PROVE  TypeInv'
  BY <1>8 DEF Relabel, Disturb, TypeOK, waiting, Equipped
<1>9. engaged \in SUBSET Clusters /\ {} \in SUBSET Clusters
  BY DEF TypeOK
<1> QED  BY <1>1, <1>2, <1>3, <1>5, <1>6, <1>7, <1>8, <1>9 DEF Faults

LEMMA TickType ==
    ASSUME TypeInv, NEW r \in Requests, Tick(r)
    PROVE  TypeInv'
BY DEF Tick, TypeInv, TypeOK, Equipped

LEMMA InitType ==
    ASSUME NEW clusters \in SUBSET Clusters, InitWith(clusters)
    PROVE  TypeInv
<1>1. TypeOK
  BY BucketBindingAssumption DEF InitWith, TypeOK, Idle
<1>2. Equipped
  BY DEF InitWith, Idle, Equipped, ClusterSteps
<1> QED  BY <1>1, <1>2 DEF TypeInv

\* Every step of either specification keeps the types.
LEMMA StepType ==
    ASSUME TypeInv, [Next \/ SteadyNext]_vars
    PROVE  TypeInv'
<1>1. CASE UNCHANGED vars
  BY <1>1 DEF vars, waiting, TypeInv, TypeOK, Equipped
<1>2. CASE Steady
  BY <1>2, FetchType, TickType, RequestStepType, StatusStepType, RookType,
     UsersType, FaultsType DEF Steady, Faults
<1>3. CASE Faults
  BY <1>3, FaultsType
<1>4. CASE \E r \in Requests : Edit(r)
  BY <1>4, UsersType
<1> QED  BY <1>1, <1>2, <1>3, <1>4 DEF Next, SteadyNext, Faults

(***************************************************************************)
(* The state stays well-typed in the program as main.go starts it, for     *)
(* any number of requests, clusters and disturbances.  TypeOK is not       *)
(* inductive alone: syncClaim uses the cluster spokeFor found, and the     *)
(* tenant Reconcile checked, which Equipped says the worker was given.     *)
(***************************************************************************)
THEOREM TypeCorrect == Spec => []TypeOK
<1>1. Init => TypeInv
  BY InitType DEF Init
<1>2. TypeInv /\ [Next]_vars => TypeInv'
  BY StepType
<1>3. TypeInv => TypeOK
  BY DEF TypeInv
<1> QED  BY <1>1, <1>2, <1>3, PTL DEF Spec

-----------------------------------------------------------------------------
(* What holds however users edit and clusters come and go. *)

GuardInv == HeldWhileWorking /\ GoneAtRelease

\* Claims may end, and change in what Rook did; none appears or moves.
ClaimsOnlyFade ==
    \A d \in claims' : \E c \in claims :
       d.at = c.at /\ d.ns = c.ns /\ d.name = c.name /\ d.owner = c.owner

\* Finalizers stay while no worker releases one.
FinalizersStay == \A r \in Requests : hub[r].fin => hub'[r].fin

LEMMA SameClaimsFade ==
    ASSUME UNCHANGED claims
    PROVE  ClaimsOnlyFade
BY DEF ClaimsOnlyFade

LEMMA MarkGoingFades ==
    ASSUME TypeOK, NEW keys, MarkGoing(keys)
    PROVE  ClaimsOnlyFade
<1>1. \A c \in claims : LET d == [c EXCEPT !.going = TRUE]
                        IN  /\ d.at = c.at /\ d.ns = c.ns /\ d.name = c.name
                            /\ d.owner = c.owner
  BY DEF TypeOK, Claims
<1> QED  BY <1>1 DEF MarkGoing, ClaimsOnlyFade

LEMMA RookFades ==
    ASSUME TypeOK, Rook
    PROVE  ClaimsOnlyFade
<1>1. PICK c \in claims : RookStep(c)
  BY DEF Rook
<1>2. \A d \in {[c EXCEPT !.bound = TRUE], [c EXCEPT !.config = TRUE]} :
         d.at = c.at /\ d.ns = c.ns /\ d.name = c.name /\ d.owner = c.owner
  BY DEF TypeOK, Claims
<1> QED  BY <1>1, <1>2 DEF RookStep, Replace, ClaimsOnlyFade

LEMMA OneWriteKeepsFinalizers ==
    ASSUME TypeOK, NEW r \in Requests, NEW o, hub[r].fin => o.fin,
           hub' = [hub EXCEPT ![r] = o]
    PROVE  FinalizersStay
BY DEF TypeOK, FinalizersStay

LEMMA PatchKeepsFinalizers ==
    ASSUME TypeOK, NEW r \in Requests, NEW s, Patch(r, s),
           hub[r].phase # "absent"
    PROVE  FinalizersStay
<1>1. hub[r] \in Objects
  BY DEF TypeOK, Absent
<1>2. [hub[r] EXCEPT !.status = s].fin = hub[r].fin
  BY <1>1 DEF Objects
<1> QED  BY <1>2, OneWriteKeepsFinalizers DEF Patch

\* Steps beside the request worker, or that send it back to the start.
LEMMA SurroundingsKeepGuards ==
    ASSUME TypeInv, GuardInv, ClaimsOnlyFade, FinalizersStay,
           rw' = Idle \/ UNCHANGED rw
    PROVE  GuardInv'
<1>1. CASE rw' = Idle
  BY <1>1 DEF GuardInv, HeldWhileWorking, GoneAtRelease, HeldSteps, ClusterSteps,
              Idle
<1>2. CASE UNCHANGED rw
  <2>1. HeldWhileWorking'
    BY <1>2 DEF GuardInv, HeldWhileWorking, FinalizersStay, TypeInv, TypeOK,
                RequestWorkers, Idle, HeldSteps, ClusterSteps
  <2>2. \A s, r, o : ClaimFor(s, r, o) = {} => ClaimFor(s, r, o)' = {}
    BY DEF ClaimFor, ClaimsOnlyFade
  <2>3. GoneAtRelease'
    BY <1>2, <2>2 DEF GuardInv, GoneAtRelease
  <2> QED  BY <2>1, <2>3 DEF GuardInv
<1> QED  BY <1>1, <1>2

\* The request worker's own steps.
LEMMA RequestStepGuards ==
    ASSUME TypeInv, GuardInv, RequestStep
    PROVE  GuardInv'
<1> USE DEF GuardInv
<1>0. rw \in RequestWorkers /\ TypeOK
  BY DEF TypeInv, TypeOK, RequestStep, AddFinalizer, Resolve, Lookup, SyncClaim,
         Observe, Report, DeleteClaim, Confirm, Release, Idle
<1>1. ASSUME rw' = Idle
      PROVE  GuardInv'
  BY <1>1 DEF HeldWhileWorking, GoneAtRelease, HeldSteps, ClusterSteps, Idle
\* A step from one held step to another keeps the hold.
<1>2. ASSUME UNCHANGED hub, rw'.key = rw.key,
             rw.pc \in HeldSteps \/ rw'.pc \notin HeldSteps,
             rw'.pc = "release" => rw'.spoke = NoCluster
      PROVE  GuardInv'
  BY <1>2 DEF HeldWhileWorking, GoneAtRelease
<1>3. CASE AddFinalizer
  <2>1. CASE hub[rw.key].phase = "live"
    <3>1. hub'[rw.key].fin
      BY <1>0, <1>3, <2>1 DEF AddFinalizer, TypeOK, RequestWorkers, Objects, Absent
    <3>2. rw'.key = rw.key /\ rw'.pc = "resolve"
      BY <1>0, <1>3, <2>1 DEF AddFinalizer, RequestWorkers
    <3> QED  BY <3>1, <3>2 DEF HeldWhileWorking, GoneAtRelease
  <2>2. CASE hub[rw.key].phase # "live"
    BY <1>1, <1>3, <2>2 DEF AddFinalizer, Retry
  <2> QED  BY <2>1, <2>2
<1>4. ASSUME NotFound
      PROVE  /\ rw'.key = rw.key /\ rw'.pc \in {"release", "report"}
             /\ rw'.spoke = NoCluster
  BY <1>0, <1>4 DEF NotFound, RequestWorkers
<1>5. CASE Resolve
  <2>1. /\ rw'.key = rw.key
        /\ rw'.pc \in {"lookup", "report", "release"}
        /\ rw'.pc = "release" => rw'.spoke = NoCluster
    BY <1>0, <1>4, <1>5 DEF Resolve, RequestWorkers
  <2> QED  BY <1>2, <1>5, <2>1 DEF Resolve, HeldSteps
<1>6. CASE Lookup
  <2>1. /\ rw'.key = rw.key
        /\ rw'.pc \in {"claim", "delete", "report", "release"}
        /\ rw'.pc = "release" => rw'.spoke = NoCluster
    BY <1>0, <1>4, <1>6 DEF Lookup, RequestWorkers
  <2> QED  BY <1>2, <1>6, <2>1 DEF Lookup, HeldSteps, ClusterSteps
<1>7. CASE SyncClaim \/ DeleteClaim
  <2>1. /\ rw'.key = rw.key /\ rw'.pc \in {"observe", "confirm"}
        /\ rw.pc \in {"claim", "delete"} /\ UNCHANGED hub
    BY <1>0, <1>7 DEF SyncClaim, DeleteClaim, RequestWorkers
  <2> QED  BY <1>2, <2>1 DEF HeldSteps, ClusterSteps
<1>8. CASE Observe
  <2>1. rw'.key = rw.key /\ rw'.pc \in {"config", "report"}
    BY <1>0, <1>8, ObserveClaimType, ObserveConfigType DEF Observe
  <2> QED  BY <1>2, <1>8, <2>1 DEF Observe, HeldSteps, ClusterSteps
<1>9. CASE Report \/ Release
  BY <1>1, <1>9 DEF Report, Release
<1>10. CASE Confirm
  <2>1. CASE ClaimFor(rw.spoke, rw.key, rw.obj) = {}
    <3>1. /\ rw'.key = rw.key /\ rw'.obj = rw.obj /\ rw'.spoke = rw.spoke
          /\ rw'.pc = "release" /\ rw.pc = "confirm" /\ UNCHANGED <<hub, claims>>
      BY <1>0, <1>10, <2>1 DEF Confirm, RequestWorkers
    <3>2. ClaimFor(rw.spoke, rw.key, rw.obj)' = {}
      BY <2>1, <3>1 DEF ClaimFor
    <3> QED
      BY <3>1, <3>2 DEF HeldWhileWorking, GoneAtRelease, HeldSteps, ClusterSteps
  <2>2. CASE ClaimFor(rw.spoke, rw.key, rw.obj) # {}
    BY <1>1, <1>10, <2>2 DEF Confirm
  <2> QED  BY <2>1, <2>2
<1> QED
  BY <1>3, <1>5, <1>6, <1>7, <1>8, <1>9, <1>10 DEF RequestStep

\* Reconcile goes past its checks only with a request that is held.
LEMMA FetchGuards ==
    ASSUME TypeInv, NEW r \in Requests, Fetch(r)
    PROVE  GuardInv'
<1> DEFINE step == Start(r, hub[r])
<1>1. hub[r] \in Objects \/ hub[r] = Absent
  BY DEF TypeInv, TypeOK
<1>2. step \in HeldSteps => step \in {"resolve", "release"} /\ hub[r].fin
  BY <1>1 DEF Start, HeldSteps, ClusterSteps, Objects, Absent
<1>3. CASE step = "idle"
  BY <1>3 DEF Fetch, GuardInv, HeldWhileWorking, GoneAtRelease, HeldSteps,
              ClusterSteps, Idle
<1>4. CASE step # "idle"
  <2>1. /\ rw'.pc = step /\ rw'.key = r /\ rw'.spoke = NoCluster
        /\ UNCHANGED hub
    BY <1>4 DEF Fetch
  <2> QED  BY <1>2, <2>1 DEF GuardInv, HeldWhileWorking, GoneAtRelease
<1> QED  BY <1>3, <1>4

\* Everything else that changes requests or claims only fades claims and
\* keeps finalizers.
LEMMA OtherStepsFade ==
    ASSUME TypeInv,
           \/ \E r \in Requests : Tick(r) \/ Order(r) \/ Delete(r) \/ Edit(r)
           \/ StatusStep \/ Rook \/ Faults
    PROVE  /\ ClaimsOnlyFade /\ FinalizersStay
           /\ rw' = Idle \/ UNCHANGED rw
<1>0. TypeOK
  BY DEF TypeInv
<1>1. ASSUME UNCHANGED <<hub, claims>>
      PROVE  ClaimsOnlyFade /\ FinalizersStay
  BY <1>1 DEF ClaimsOnlyFade, FinalizersStay
<1>2. ASSUME NEW r \in Requests, NEW o, Write(r, o), hub[r].fin => o.fin
      PROVE  ClaimsOnlyFade /\ FinalizersStay /\ UNCHANGED rw
  BY <1>0, <1>2, OneWriteKeepsFinalizers, SameClaimsFade DEF Write
<1>3. ASSUME NEW r \in Requests, Tick(r)
      PROVE  ClaimsOnlyFade /\ FinalizersStay /\ UNCHANGED rw
  BY <1>1, <1>3 DEF Tick
<1>4. ASSUME NEW r \in Requests, hub[r].phase # "absent"
      PROVE  hub[r] \in Objects
  BY <1>0, <1>4 DEF TypeOK, Absent
<1>5. ASSUME NEW r \in Requests, Order(r)
      PROVE  ClaimsOnlyFade /\ FinalizersStay /\ UNCHANGED rw
  <2>1. ~hub[r].fin
    BY <1>0, <1>5 DEF Order, TypeOK, Objects, Absent
  <2> QED  BY <1>2, <1>5, <2>1 DEF Order
<1>6. ASSUME NEW r \in Requests, Delete(r)
      PROVE  ClaimsOnlyFade /\ FinalizersStay /\ UNCHANGED rw
  <2>1. [hub[r] EXCEPT !.phase = "deleting"].fin = hub[r].fin
    BY <1>4, <1>6 DEF Delete, Objects
  <2>2. CASE hub[r].fin
    BY <1>2, <1>6, <2>1, <2>2 DEF Delete
  <2>3. CASE ~hub[r].fin
    BY <1>2, <1>6, <2>3 DEF Delete
  <2> QED  BY <2>2, <2>3
<1>7. ASSUME NEW r \in Requests, Edit(r)
      PROVE  ClaimsOnlyFade /\ FinalizersStay /\ UNCHANGED rw
  <2>1. /\ \A t : [hub[r] EXCEPT !.tenant = t].fin = hub[r].fin
        /\ \A g : [hub[r] EXCEPT !.region = g].fin = hub[r].fin
    BY <1>4, <1>7 DEF Edit, Objects
  <2>2. PICK o : Write(r, o) /\ o.fin = hub[r].fin
    BY <1>7, <2>1 DEF Edit
  <2> QED  BY <1>2, <2>2
<1>8. CASE StatusStep
  <2>1. CASE ReportForStatus
    <3>1. sw \in StatusWorkers
      BY <1>0, <2>1 DEF ReportForStatus, TypeOK, Idle
    <3>2. FinalizersStay
      BY <1>0, <2>1, <3>1, PatchKeepsFinalizers
         DEF ReportForStatus, StatusWorkers, FinalizersStay
    <3> QED  BY <2>1, <3>2, SameClaimsFade DEF ReportForStatus
  <2>2. CASE ResolveForStatus \/ ObserveForStatus
             \/ \E k \in ClaimKeys : FetchClaim(k)
    BY <1>1, <2>2 DEF ResolveForStatus, ObserveForStatus, FetchClaim
  <2> QED  BY <1>8, <2>1, <2>2 DEF StatusStep
<1>9. CASE Rook
  BY <1>0, <1>9, RookFades DEF Rook, FinalizersStay
<1>10. ASSUME NEW c \in claims, DeletedOutOfBand(c)
       PROVE  ClaimsOnlyFade /\ FinalizersStay /\ UNCHANGED rw
  BY <1>0, <1>10, MarkGoingFades DEF DeletedOutOfBand, FinalizersStay
<1>11. CASE RequestCallFails \/ StatusCallFails \/ Restart({}) \/ Restart(engaged)
  BY <1>1, <1>11 DEF RequestCallFails, StatusCallFails, Restart, Retry
<1>12. CASE \E c \in Clusters : Engage(c) \/ Disengage(c) \/ Relabel(c)
  BY <1>1, <1>12 DEF Engage, Disengage, Relabel
<1>13. CASE Faults
  BY <1>10, <1>11, <1>12, <1>13 DEF Faults
<1> QED
  BY <1>3, <1>5, <1>6, <1>7, <1>8, <1>9, <1>13

\* The steps of both specifications, by who takes them.
LEMMA Steps ==
    ASSUME Next \/ SteadyNext
    PROVE  \/ RequestStep
           \/ \E r \in Requests : Fetch(r)
           \/ \E r \in Requests : Tick(r) \/ Order(r) \/ Delete(r) \/ Edit(r)
           \/ StatusStep \/ Rook \/ Faults
BY DEF Next, SteadyNext, Steady, Faults

LEMMA GuardStep ==
    ASSUME TypeInv, GuardInv, [Next \/ SteadyNext]_vars
    PROVE  GuardInv'
<1>1. CASE UNCHANGED vars
  BY <1>1, SameClaimsFade, SurroundingsKeepGuards DEF vars, FinalizersStay
<1>2. CASE RequestStep
  BY <1>2, RequestStepGuards
<1>3. CASE \E r \in Requests : Fetch(r)
  BY <1>3, FetchGuards
<1>4. CASE \/ \E r \in Requests : Tick(r) \/ Order(r) \/ Delete(r) \/ Edit(r)
           \/ StatusStep \/ Rook \/ Faults
  BY <1>4, OtherStepsFade, SurroundingsKeepGuards
<1> QED  BY <1>1, <1>2, <1>3, <1>4, Steps

LEMMA GuardInit ==
    ASSUME NEW clusters, InitWith(clusters)
    PROVE  GuardInv
BY DEF InitWith, GuardInv, HeldWhileWorking, GoneAtRelease, HeldSteps,
       ClusterSteps, Idle

\* Only syncClaim creates claims, and only finalize drops finalizers.
LEMMA OnlySyncClaimCreates ==
    ASSUME TypeInv, [Next \/ SteadyNext]_vars
    PROVE  SyncClaim \/ ClaimsOnlyFade
<1>1. CASE UNCHANGED vars
  BY <1>1, SameClaimsFade DEF vars
<1>2. CASE RequestStep /\ ~SyncClaim
  <2>1. UNCHANGED claims \/ \E keys : MarkGoing(keys)
    BY <1>2 DEF RequestStep, AddFinalizer, Resolve, Lookup, Observe, Report,
                DeleteClaim, Confirm, Release
  <2> QED  BY <2>1, SameClaimsFade, MarkGoingFades DEF TypeInv
<1>3. CASE \E r \in Requests : Fetch(r)
  BY <1>3, SameClaimsFade DEF Fetch
<1>4. CASE \/ \E r \in Requests : Tick(r) \/ Order(r) \/ Delete(r) \/ Edit(r)
           \/ StatusStep \/ Rook \/ Faults
  BY <1>4, OtherStepsFade
<1> QED  BY <1>1, <1>2, <1>3, <1>4, Steps

LEMMA OnlyReleaseReleases ==
    ASSUME TypeInv, [Next \/ SteadyNext]_vars
    PROVE  Release \/ FinalizersStay
<1>0. TypeOK
  BY DEF TypeInv
<1>1. CASE UNCHANGED vars
  BY <1>1 DEF vars, FinalizersStay
<1>2. CASE AddFinalizer
  <2>1. rw.key \in Requests
    BY <1>0, <1>2 DEF AddFinalizer, TypeOK, RequestWorkers, Idle
  <2>2. hub[rw.key].phase = "live" => hub[rw.key] \in Objects
    BY <1>0, <2>1 DEF TypeOK, Absent
  <2> QED
    BY <1>0, <1>2, <2>1, <2>2 DEF AddFinalizer, FinalizersStay, TypeOK, Objects
<1>3. CASE Report
  <2>1. rw.key \in Requests
    BY <1>0, <1>3 DEF Report, TypeOK, RequestWorkers, Idle
  <2> QED  BY <1>0, <1>3, <2>1, PatchKeepsFinalizers DEF Report, FinalizersStay
<1>4. CASE Resolve \/ Lookup \/ SyncClaim \/ Observe \/ DeleteClaim \/ Confirm
           \/ \E r \in Requests : Fetch(r)
  BY <1>4 DEF Resolve, Lookup, SyncClaim, Observe, DeleteClaim, Confirm, Fetch,
              FinalizersStay
<1>5. CASE \/ \E r \in Requests : Tick(r) \/ Order(r) \/ Delete(r) \/ Edit(r)
           \/ StatusStep \/ Rook \/ Faults
  BY <1>5, OtherStepsFade
<1> QED  BY <1>1, <1>2, <1>3, <1>4, <1>5, Steps DEF RequestStep

(***************************************************************************)
(* Whatever users edit, whichever clusters come and go, and whichever call *)
(* fails: a claim is created only while the request it is labelled with    *)
(* holds its finalizer (Reconcile's order of calls).                       *)
(***************************************************************************)
THEOREM ClaimsCreatedHeld == Spec => CreatedHeld
<1> DEFINE Created == \A c \in claims' :
              (\A d \in claims : KeyOf(d) # KeyOf(c)) => hub[c.owner].fin
<1>1. Init => TypeInv /\ GuardInv
  BY InitType, GuardInit DEF Init
<1>2. TypeInv /\ GuardInv /\ [Next]_vars => TypeInv' /\ GuardInv'
  BY StepType, GuardStep
<1>3. TypeInv /\ GuardInv /\ [Next]_vars => Created
  <2> SUFFICES ASSUME TypeInv, GuardInv, [Next]_vars
               PROVE  Created
    OBVIOUS
  <2>1. CASE ClaimsOnlyFade
    BY <2>1 DEF ClaimsOnlyFade, KeyOf
  <2>2. CASE SyncClaim
    <3>1. hub[rw.key].fin
      BY <2>2 DEF SyncClaim, GuardInv, HeldWhileWorking, HeldSteps, ClusterSteps
    <3>2. PICK c : c.owner = rw.key /\ claims' \subseteq claims \cup {c}
      <4> DEFINE c == [at |-> rw.spoke, ns |-> rw.obj.tenant,
                       name |-> NameOf[rw.key], owner |-> rw.key,
                       size |-> rw.obj.size, bound |-> FALSE,
                       config |-> FALSE, going |-> FALSE]
      <4>1. c.owner = rw.key /\ claims' \subseteq claims \cup {c}
        BY <2>2 DEF SyncClaim
      <4> QED  BY <4>1
    <3> QED  BY <3>1, <3>2
  <2> QED  BY <2>1, <2>2, OnlySyncClaimCreates
<1>4. Spec => [](TypeInv /\ GuardInv)
  BY <1>1, <1>2, PTL DEF Spec
<1>5. Spec => [][Created]_vars
  BY <1>3, <1>4, PTL DEF Spec
<1> QED  BY <1>5 DEF CreatedHeld

(***************************************************************************)
(* And a finalizer dropped after deleteClaim found its cluster leaves no   *)
(* claim there under the request's name: nothing the program does between  *)
(* its last look and the patch brings one back (finalize).                 *)
(***************************************************************************)
THEOREM ReleasesWhenGone == Spec => ReleasedWhenGone
<1> DEFINE Gone == \A r \in Requests :
              hub[r].fin /\ ~hub'[r].fin /\ rw.pc = "release"
                 /\ rw.spoke # NoCluster
                 => ClaimFor(rw.spoke, r, rw.obj) = {}
<1>1. Init => TypeInv /\ GuardInv
  BY InitType, GuardInit DEF Init
<1>2. TypeInv /\ GuardInv /\ [Next]_vars => TypeInv' /\ GuardInv'
  BY StepType, GuardStep
<1>3. TypeInv /\ GuardInv /\ [Next]_vars => Gone
  <2> SUFFICES ASSUME TypeInv, GuardInv, [Next]_vars
               PROVE  Gone
    OBVIOUS
  <2>1. CASE FinalizersStay
    BY <2>1 DEF FinalizersStay
  <2>2. CASE Release
    <3>1. \A r \in Requests : r # rw.key => hub'[r] = hub[r]
      BY <2>2 DEF Release, TypeInv, TypeOK
    <3> QED  BY <3>1 DEF GuardInv, GoneAtRelease
  <2> QED  BY <2>1, <2>2, OnlyReleaseReleases
<1>4. Spec => [](TypeInv /\ GuardInv)
  BY <1>1, <1>2, PTL DEF Spec
<1>5. Spec => [][Gone]_vars
  BY <1>3, <1>4, PTL DEF Spec
<1> QED  BY <1>5 DEF ReleasedWhenGone

-----------------------------------------------------------------------------
(* One claim of a name: buckets of a cluster that are told apart. *)

UniqueClaims == \A c, d \in claims : KeyOf(c) = KeyOf(d) => c = d

LEMMA SyncClaimKeepsUnique ==
    ASSUME TypeInv, UniqueClaims, SyncClaim
    PROVE  UniqueClaims'
<1> DEFINE new == [at |-> rw.spoke, ns |-> rw.obj.tenant, name |-> NameOf[rw.key],
                   owner |-> rw.key, size |-> rw.obj.size, bound |-> FALSE,
                   config |-> FALSE, going |-> FALSE]
<1>1. CASE UNCHANGED claims
  BY <1>1 DEF UniqueClaims, KeyOf
<1>2. CASE ~UNCHANGED claims
  <2>1. claims' = claims \cup {new}
    BY <1>2 DEF SyncClaim
  <2>2. ClaimFor(rw.spoke, rw.key, rw.obj) = {}
    BY <1>2 DEF SyncClaim
  <2>3. \A c \in claims : KeyOf(c) # KeyOf(new)
    BY <2>2 DEF ClaimFor, KeyOf
  <2> HIDE DEF new
  <2> QED  BY <2>1, <2>3 DEF UniqueClaims, KeyOf
<1> QED  BY <1>1, <1>2

\* Neither a delete call nor Rook changes what a claim is called.
LEMMA MarkGoingKeepsUnique ==
    ASSUME TypeOK, UniqueClaims, NEW keys, MarkGoing(keys)
    PROVE  UniqueClaims'
<1> DEFINE marked(c) == IF KeyOf(c) \in keys THEN [c EXCEPT !.going = TRUE] ELSE c
<1>1. \A c \in claims : KeyOf(marked(c)) = KeyOf(c)
  BY DEF TypeOK, Claims, KeyOf
<1>2. claims' = {marked(c) : c \in claims}
  BY DEF MarkGoing
<1>3. \A c, d \in claims : KeyOf(marked(c)) = KeyOf(marked(d)) => c = d
  BY <1>1 DEF UniqueClaims
<1> HIDE DEF marked
<1>4. \A x, y \in claims' : KeyOf(x) = KeyOf(y) => x = y
  BY <1>2, <1>3
<1> QED  BY <1>4 DEF UniqueClaims, KeyOf

LEMMA RookKeepsUnique ==
    ASSUME TypeOK, UniqueClaims, Rook
    PROVE  UniqueClaims'
<1>1. PICK c \in claims : RookStep(c)
  BY DEF Rook
<1>2. /\ KeyOf([c EXCEPT !.bound = TRUE]) = KeyOf(c)
      /\ KeyOf([c EXCEPT !.config = TRUE]) = KeyOf(c)
  BY DEF TypeOK, Claims, KeyOf
<1>3. ASSUME NEW d, Replace(c, d), KeyOf(d) = KeyOf(c)
      PROVE  UniqueClaims'
  BY <1>3 DEF Replace, UniqueClaims, KeyOf
<1>4. ASSUME claims' = claims \ {c}
      PROVE  UniqueClaims'
  BY <1>4 DEF UniqueClaims, KeyOf
<1> QED  BY <1>1, <1>2, <1>3, <1>4 DEF RookStep

LEMMA UniqueStep ==
    ASSUME TypeInv, UniqueClaims, [Next \/ SteadyNext]_vars
    PROVE  UniqueClaims'
<1>0. TypeOK
  BY DEF TypeInv
<1>1. CASE SyncClaim
  BY <1>1, SyncClaimKeepsUnique
<1>2. CASE Rook
  BY <1>0, <1>2, RookKeepsUnique
<1>3. ASSUME UNCHANGED claims \/ \E keys : MarkGoing(keys)
      PROVE  UniqueClaims'
  <2>1. CASE UNCHANGED claims
    BY <2>1 DEF UniqueClaims, KeyOf
  <2> QED  BY <1>0, <1>3, <2>1, MarkGoingKeepsUnique
<1>4. CASE RequestStep /\ ~SyncClaim
  BY <1>3, <1>4 DEF RequestStep, AddFinalizer, Resolve, Lookup, Observe, Report,
                    DeleteClaim, Confirm, Release
<1>5. CASE \/ UNCHANGED vars \/ StatusStep
           \/ \E r \in Requests : \/ Fetch(r) \/ Tick(r)
                                  \/ Order(r) \/ Delete(r) \/ Edit(r)
  BY <1>3, <1>5
     DEF vars, StatusStep, FetchClaim, ResolveForStatus, ObserveForStatus,
         ReportForStatus, Fetch, Tick, Order, Delete, Edit, Write
<1>6. CASE Faults
  BY <1>3, <1>6 DEF Faults, RequestCallFails, StatusCallFails, DeletedOutOfBand,
                    Restart, Engage, Disengage, Relabel
<1> QED  BY <1>1, <1>2, <1>4, <1>5, <1>6, Steps

\* "%s-%s" tells tenants apart when the one is never the beginning of the
\* other, and then it tells names apart.
NoTenantBeginsAnother ==
    \A t, u \in Tenants :
       (\A i \in 1 .. Len(t) : i =< Len(u) /\ t[i] = u[i]) => t = u

LEMMA BucketNameInjective ==
    ASSUME NoTenantBeginsAnother, NEW t \in Tenants, NEW u \in Tenants,
           NEW n \in Seq(STRING), NEW m \in Seq(STRING),
           BucketName(t, n) = BucketName(u, m)
    PROVE  t = u /\ n = m
<1>0. t \in Seq(STRING) /\ u \in Seq(STRING) /\ t \o n = u \o m
  BY BucketBindingAssumption DEF BucketName
<1>1. ASSUME NEW a \in Seq(STRING), NEW b \in Seq(STRING),
             NEW x \in Seq(STRING), NEW y \in Seq(STRING),
             a \o x = b \o y, Len(a) =< Len(b)
      PROVE  \A i \in 1 .. Len(a) : i =< Len(b) /\ a[i] = b[i]
  <2> SUFFICES ASSUME NEW i \in 1 .. Len(a)
               PROVE  i =< Len(b) /\ a[i] = b[i]
    OBVIOUS
  <2>1. i =< Len(b) /\ i \in 1 .. Len(b)
    BY <1>1
  <2>2. (a \o x)[i] = a[i] /\ (b \o y)[i] = b[i]
    BY <1>1, <2>1
  <2> QED  BY <1>1, <2>1, <2>2
<1>2. t = u
  <2>1. CASE Len(t) =< Len(u)
    <3>1. \A i \in 1 .. Len(t) : i =< Len(u) /\ t[i] = u[i]
      BY <1>0, <1>1, <2>1
    <3> QED  BY <3>1 DEF NoTenantBeginsAnother
  <2>2. CASE Len(u) =< Len(t)
    <3>1. \A i \in 1 .. Len(u) : i =< Len(t) /\ u[i] = t[i]
      BY <1>0, <1>1, <2>2
    <3> QED  BY <3>1 DEF NoTenantBeginsAnother
  <2> QED  BY <1>0, <2>1, <2>2
<1>3. n = m
  BY <1>0, <1>2, ConcatSimplifications
<1> QED  BY <1>2, <1>3

(***************************************************************************)
(* Buckets of a cluster are distinct, in every behaviour, when no tenant's *)
(* name begins with another's and a dash.  BucketName alone promises it    *)
(* for all tenants ("unique across tenants", domain.go:72), and run        *)
(* bucket_names shows that it does not keep that promise: this condition,  *)
(* which nothing in the code enforces, is what is missing.                 *)
(***************************************************************************)
THEOREM BucketsOfTenantsDistinct ==
    ASSUME NoTenantBeginsAnother
    PROVE  Spec => []BucketsDistinct
<1>1. Init => TypeInv /\ UniqueClaims
  <2>1. Init => UniqueClaims
    BY DEF Init, InitWith, UniqueClaims
  <2> QED  BY <2>1, InitType DEF Init
<1>2. TypeInv /\ UniqueClaims /\ [Next]_vars => TypeInv' /\ UniqueClaims'
  BY StepType, UniqueStep
<1>3. TypeInv /\ UniqueClaims => BucketsDistinct
  <2> SUFFICES ASSUME TypeInv, UniqueClaims, NEW c \in claims, NEW d \in claims,
                      c.at = d.at, BucketName(c.ns, c.name) = BucketName(d.ns, d.name)
               PROVE  c = d
    BY DEF BucketsDistinct
  <2>1. /\ c.ns \in Tenants /\ d.ns \in Tenants
        /\ c.name \in Seq(STRING) /\ d.name \in Seq(STRING)
    BY BucketBindingAssumption DEF TypeInv, TypeOK, Claims
  <2>2. c.ns = d.ns /\ c.name = d.name
    BY <2>1, BucketNameInjective
  <2> QED  BY <2>2 DEF UniqueClaims, KeyOf
<1> QED  BY <1>1, <1>2, <1>3, PTL DEF Spec

-----------------------------------------------------------------------------
(* Custody, while placements and clusters stay. *)

SteadyInv == TypeInv /\ GuardInv /\ Settled /\ NothingLeft /\ HeldUntilGone

\* A request's cluster, when it has one, is engaged.
LEMMA HomeClusterEngaged ==
    ASSUME Settled, NEW r \in Requests, HomeCluster(r) # NoCluster
    PROVE  HomeCluster(r) \in engaged
<1>1. HomeCluster(r) \in Clusters /\ Labels[HomeCluster(r)] = Home[r].region
  BY ResolvedIsCluster DEF HomeCluster
<1>2. Home[r].region # None
  BY BucketBindingAssumption
<1> QED  BY <1>1, <1>2 DEF Settled

\* Who writes a request under SteadySpec, and what he may make of it.
MayBecome(r, o) ==
    /\ o.phase # "absent" => AtHome(r, o)
    /\ \/ o.phase = hub[r].phase /\ o.fin = hub[r].fin
       \/ hub[r].phase = "absent" /\ o.phase # "absent" /\ ~o.fin
       \/ hub[r].phase # "absent" /\ ~hub[r].fin /\ o.phase = "absent"
       \/ hub[r].phase # "absent" /\ o.phase # "absent" /\ (hub[r].fin => o.fin)

LEMMA PatchWrites ==
    ASSUME SteadyInv, NEW r \in Requests, NEW s, Patch(r, s),
           hub[r].phase # "absent"
    PROVE  \E o : hub' = [hub EXCEPT ![r] = o] /\ MayBecome(r, o)
<1>1. hub[r] \in Objects /\ AtHome(r, hub[r])
  BY DEF SteadyInv, TypeInv, TypeOK, Absent, Settled
<1> DEFINE o == [hub[r] EXCEPT !.status = s]
<1>2. MayBecome(r, o)
  BY <1>1 DEF MayBecome, Objects, AtHome
<1> QED  BY <1>2 DEF Patch

LEMMA SteadyWrites ==
    ASSUME SteadyInv, [SteadyNext]_vars
    PROVE  \/ Release
           \/ UNCHANGED hub
           \/ \E r \in Requests : \E o :
                 hub' = [hub EXCEPT ![r] = o] /\ MayBecome(r, o)
<1>0. /\ TypeOK
      /\ \A r \in Requests : hub[r].phase # "absent" =>
            hub[r] \in Objects /\ AtHome(r, hub[r])
  BY DEF SteadyInv, TypeInv, TypeOK, Absent, Settled
<1>1. CASE AddFinalizer
  <2>1. rw.key \in Requests
    BY <1>0, <1>1 DEF AddFinalizer, TypeOK, RequestWorkers, Idle
  <2>2. CASE hub[rw.key].phase = "live"
    <3> DEFINE o == [hub[rw.key] EXCEPT !.fin = TRUE]
    <3>1. MayBecome(rw.key, o)
      BY <1>0, <2>1, <2>2 DEF MayBecome, Objects, AtHome
    <3> QED  BY <1>1, <2>1, <2>2, <3>1 DEF AddFinalizer
  <2>3. CASE hub[rw.key].phase # "live"
    BY <1>1, <2>3 DEF AddFinalizer
  <2> QED  BY <2>2, <2>3
<1>2. CASE Report
  <2>1. rw.key \in Requests
    BY <1>0, <1>2 DEF Report, TypeOK, RequestWorkers, Idle
  <2> QED  BY <1>2, <2>1, PatchWrites DEF Report
<1>3. CASE ReportForStatus
  <2>1. sw.key \in Requests
    BY <1>0, <1>3 DEF ReportForStatus, TypeOK, StatusWorkers, Idle
  <2> QED  BY <1>3, <2>1, PatchWrites DEF ReportForStatus
<1>4. ASSUME NEW r \in Requests, Order(r)
      PROVE  \E o : hub' = [hub EXCEPT ![r] = o] /\ MayBecome(r, o)
  <2> DEFINE new(z) == [phase |-> "live", fin |-> FALSE,
                        tenant |-> Home[r].tenant, region |-> Home[r].region,
                        size |-> z, status |-> None]
  <2>1. \A z : MayBecome(r, new(z))
    BY <1>4 DEF Order, MayBecome, AtHome
  <2>2. PICK z \in Sizes : hub' = [hub EXCEPT ![r] = new(z)]
    BY <1>4 DEF Order, Write
  <2> HIDE DEF new
  <2> QED  BY <2>1, <2>2
<1>5. ASSUME NEW r \in Requests, Delete(r)
      PROVE  \E o : hub' = [hub EXCEPT ![r] = o] /\ MayBecome(r, o)
  <2>1. MayBecome(r, [hub[r] EXCEPT !.phase = "deleting"])
    BY <1>0, <1>5 DEF Delete, MayBecome, Objects, AtHome
  <2>2. ~hub[r].fin => MayBecome(r, Absent)
    BY <1>5 DEF Delete, MayBecome, Absent
  <2> QED  BY <1>5, <2>1, <2>2 DEF Delete, Write
<1>6. CASE \/ UNCHANGED vars
           \/ Resolve \/ Lookup \/ SyncClaim \/ Observe \/ DeleteClaim \/ Confirm
           \/ \E r \in Requests : Fetch(r) \/ Tick(r)
           \/ ResolveForStatus \/ ObserveForStatus
           \/ \E k \in ClaimKeys : FetchClaim(k)
           \/ Rook \/ RequestCallFails \/ StatusCallFails \/ Restart(engaged)
           \/ \E c \in claims : DeletedOutOfBand(c)
  BY <1>6 DEF vars, Resolve, Lookup, SyncClaim, Observe, DeleteClaim, Confirm,
              Fetch, Tick, ResolveForStatus, ObserveForStatus, FetchClaim, Rook,
              RequestCallFails, StatusCallFails, Restart, DeletedOutOfBand
<1> QED
  BY <1>1, <1>2, <1>3, <1>4, <1>5, <1>6
     DEF SteadyNext, Steady, RequestStep, StatusStep

\* Profiles and engaged clusters stay by construction of SteadySpec.
LEMMA ClustersStay ==
    ASSUME [SteadyNext]_vars
    PROVE  UNCHANGED <<profiles, engaged>>
<1>1. CASE UNCHANGED vars
  BY <1>1 DEF vars
<1>2. CASE RequestStep \/ StatusStep
  BY <1>2 DEF RequestStep, AddFinalizer, Resolve, Lookup, SyncClaim, Observe,
              Report, DeleteClaim, Confirm, Release, StatusStep, FetchClaim,
              ResolveForStatus, ObserveForStatus, ReportForStatus
<1>3. CASE \E r \in Requests : Fetch(r) \/ Tick(r) \/ Order(r) \/ Delete(r)
  BY <1>3 DEF Fetch, Tick, Order, Delete, Write
<1>4. CASE \/ Rook \/ RequestCallFails \/ StatusCallFails \/ Restart(engaged)
           \/ \E c \in claims : DeletedOutOfBand(c)
  BY <1>4 DEF Rook, RequestCallFails, StatusCallFails, Restart, DeletedOutOfBand
<1> QED  BY <1>1, <1>2, <1>3, <1>4 DEF SteadyNext, Steady

\* Requests stay where Kro put them.
LEMMA HubStaysHome ==
    ASSUME SteadyInv, [SteadyNext]_vars
    PROVE  \A r \in Requests : hub'[r].phase # "absent" => AtHome(r, hub'[r])
<1>0. /\ hub \in [Requests -> Objects \cup {Absent}]
      /\ \A r \in Requests : hub[r].phase # "absent" => AtHome(r, hub[r])
  BY DEF SteadyInv, TypeInv, TypeOK, Settled
<1>1. CASE Release
  BY <1>0, <1>1 DEF Release, Absent
<1>2. CASE UNCHANGED hub
  BY <1>0, <1>2
<1>3. ASSUME NEW r \in Requests, NEW o, hub' = [hub EXCEPT ![r] = o],
             MayBecome(r, o)
      PROVE  \A q \in Requests : hub'[q].phase # "absent" => AtHome(q, hub'[q])
  BY <1>0, <1>3 DEF MayBecome
<1> QED  BY <1>1, <1>2, <1>3, SteadyWrites

\* So does what the worker holds, with the one cluster that serves it.
WorkerAtHome ==
    /\ rw.pc # "idle" => AtHome(rw.key, rw.obj)
    /\ rw.pc \in ClusterSteps => rw.spoke = HomeCluster(rw.key)

LEMMA WorkerStaysHome ==
    ASSUME SteadyInv, [SteadyNext]_vars
    PROVE  WorkerAtHome'
<1>0. TypeOK /\ WorkerAtHome
  BY DEF SteadyInv, TypeInv, Settled, WorkerAtHome
<1>1. CASE rw' = Idle \/ UNCHANGED rw
  BY <1>0, <1>1 DEF WorkerAtHome, ClusterSteps, Idle
<1>2. ASSUME NEW r \in Requests, Fetch(r)
      PROVE  WorkerAtHome'
  <2>1. CASE Start(r, hub[r]) = "idle"
    BY <1>1, <1>2, <2>1 DEF Fetch
  <2>2. CASE Start(r, hub[r]) # "idle"
    <3>1. hub[r].phase # "absent"
      BY <2>2 DEF Start
    <3>2. AtHome(r, hub[r])
      BY <3>1 DEF SteadyInv, Settled
    <3>3. Start(r, hub[r]) \notin ClusterSteps
      BY DEF Start, ClusterSteps
    <3>4. rw'.pc = Start(r, hub[r]) /\ rw'.key = r /\ rw'.obj = hub[r]
      BY <1>2, <2>2 DEF Fetch
    <3> QED  BY <3>2, <3>3, <3>4 DEF WorkerAtHome
  <2> QED  BY <2>1, <2>2
<1>3. CASE RequestStep
  <2>1. rw \in RequestWorkers
    BY <1>0, <1>3 DEF TypeOK, RequestStep, AddFinalizer, Resolve, Lookup,
                      SyncClaim, Observe, Report, DeleteClaim, Confirm, Release,
                      Idle
  <2>2. AtHome(rw.key, rw.obj)
    BY <1>0, <2>1 DEF WorkerAtHome, RequestWorkers, RequestSteps
  <2>3. CASE AddFinalizer
    <3>1. CASE hub[rw.key].phase = "live"
      <4>1. rw' = [rw EXCEPT !.pc = "resolve",
                      !.obj = [rw.obj EXCEPT !.status = hub[rw.key].status]]
        BY <2>1, <2>3, <3>1 DEF AddFinalizer, RequestWorkers
      <4>2. /\ rw'.pc = "resolve" /\ rw'.key = rw.key
            /\ rw'.obj.tenant = rw.obj.tenant /\ rw'.obj.region = rw.obj.region
        BY <2>1, <4>1 DEF RequestWorkers, Objects
      <4> QED  BY <2>2, <4>2 DEF WorkerAtHome, AtHome, ClusterSteps
    <3>2. CASE hub[rw.key].phase # "live"
      BY <1>1, <2>3, <3>2 DEF AddFinalizer, Retry
    <3> QED  BY <3>1, <3>2
  <2>4. ASSUME rw'.key = rw.key, rw'.obj = rw.obj,
               rw'.pc \in ClusterSteps => rw'.spoke = HomeCluster(rw.key)
        PROVE  WorkerAtHome'
    BY <2>2, <2>4 DEF WorkerAtHome
  <2>5. ASSUME NotFound
        PROVE  rw'.key = rw.key /\ rw'.obj = rw.obj /\ rw'.pc \notin ClusterSteps
    BY <2>1, <2>5 DEF NotFound, RequestWorkers, ClusterSteps
  <2>6. CASE Resolve
    <3> DEFINE c == ResolveCluster(rw.obj.region, profiles)
    <3>1. c = HomeCluster(rw.key)
      BY <2>2 DEF SteadyInv, Settled, HomeCluster, AtHome
    <3>2. CASE c = NoCluster
      BY <2>4, <2>5, <2>6, <3>2 DEF Resolve
    <3>3. CASE c # NoCluster
      <4>1. rw'.key = rw.key /\ rw'.obj = rw.obj /\ rw'.spoke = c
        BY <2>1, <2>6, <3>3 DEF Resolve, RequestWorkers
      <4> QED  BY <2>4, <3>1, <4>1
    <3> QED  BY <3>2, <3>3
  <2>7. ASSUME rw.pc \in ClusterSteps
        PROVE  rw.spoke = HomeCluster(rw.key)
    BY <1>0, <2>7 DEF WorkerAtHome
  <2>8. CASE Lookup
    <3>1. CASE rw.spoke \notin engaged
      BY <2>4, <2>5, <2>8, <3>1 DEF Lookup
    <3>2. CASE rw.spoke \in engaged
      BY <2>1, <2>4, <2>7, <2>8, <3>2 DEF Lookup, RequestWorkers, ClusterSteps
    <3> QED  BY <3>1, <3>2
  <2>9. CASE SyncClaim \/ DeleteClaim
    BY <2>1, <2>4, <2>7, <2>9
       DEF SyncClaim, DeleteClaim, RequestWorkers, ClusterSteps
  <2>10. CASE Observe
    BY <2>1, <2>4, <2>7, <2>10, ObserveClaimType, ObserveConfigType
       DEF Observe, ClusterSteps
  <2>11. CASE Confirm
    <3>1. CASE rw' = Idle
      BY <1>1, <3>1
    <3>2. CASE rw' # Idle
      BY <2>1, <2>4, <2>7, <2>11, <3>2 DEF Confirm, RequestWorkers, ClusterSteps
    <3> QED  BY <3>1, <3>2
  <2>12. CASE Report \/ Release
    BY <1>1, <2>12 DEF Report, Release
  <2> QED
    BY <1>3, <2>3, <2>6, <2>8, <2>9, <2>10, <2>11, <2>12 DEF RequestStep
<1>4. CASE UNCHANGED vars
  BY <1>1, <1>4 DEF vars
<1>5. CASE \/ \E r \in Requests : Tick(r) \/ Order(r) \/ Delete(r) \/ Edit(r)
           \/ StatusStep \/ Rook \/ Faults
  BY <1>1, <1>5, OtherStepsFade DEF SteadyInv
<1> QED  BY <1>2, <1>3, <1>4, <1>5, Steps

\* What syncClaim creates: a claim of the worker's request, in its place.
LEMMA SyncClaimCreates ==
    ASSUME SteadyInv, SyncClaim
    PROVE  \E c : /\ claims' \subseteq claims \cup {c}
                  /\ c.owner = rw.key /\ rw.key \in Requests /\ hub[rw.key].fin
                  /\ c.at = HomeCluster(rw.key) /\ c.ns = Home[rw.key].tenant
                  /\ c.name = NameOf[rw.key]
                  /\ CheckBucketName(BucketName(c.ns, c.name))
<1> DEFINE c == [at |-> rw.spoke, ns |-> rw.obj.tenant,
                 name |-> NameOf[rw.key], owner |-> rw.key,
                 size |-> rw.obj.size, bound |-> FALSE, config |-> FALSE,
                 going |-> FALSE]
<1>1. claims' \subseteq claims \cup {c}
  BY DEF SyncClaim
<1>2. rw.pc = "claim" /\ rw \in RequestWorkers
  BY DEF SyncClaim, SteadyInv, TypeInv, TypeOK, Idle
<1>3. rw.spoke = HomeCluster(rw.key) /\ AtHome(rw.key, rw.obj)
  BY <1>2 DEF SteadyInv, Settled, ClusterSteps
<1>4. hub[rw.key].fin
  BY <1>2 DEF SteadyInv, GuardInv, HeldWhileWorking, HeldSteps, ClusterSteps
<1>5. Parses(rw.key, rw.obj)
  BY <1>2 DEF SteadyInv, TypeInv, Equipped, ClusterSteps
<1>6. rw.key \in Requests
  BY <1>2 DEF RequestWorkers
<1>7. /\ c.owner = rw.key /\ c.at = rw.spoke /\ c.ns = rw.obj.tenant
      /\ c.name = NameOf[rw.key]
  OBVIOUS
<1> HIDE DEF c
<1>8. CheckBucketName(BucketName(c.ns, c.name))
  BY <1>5, <1>7 DEF Parses, BucketOf
<1> QED  BY <1>1, <1>3, <1>4, <1>6, <1>7, <1>8 DEF AtHome

LEMMA ClaimsStayHome ==
    ASSUME SteadyInv, [SteadyNext]_vars
    PROVE  \A c \in claims' :
              /\ c.at = HomeCluster(c.owner) /\ c.ns = Home[c.owner].tenant
              /\ c.name = NameOf[c.owner]
              /\ CheckBucketName(BucketName(c.ns, c.name))
<1>1. CASE ClaimsOnlyFade
  BY <1>1 DEF ClaimsOnlyFade, SteadyInv, Settled
<1>2. CASE SyncClaim
  BY <1>2, SyncClaimCreates DEF SteadyInv, Settled
<1> QED  BY <1>1, <1>2, OnlySyncClaimCreates DEF SteadyInv

LEMMA SettledStep ==
    ASSUME SteadyInv, [SteadyNext]_vars
    PROVE  Settled'
<1>1. UNCHANGED <<profiles, engaged>>
  BY ClustersStay
<1>2. Settled
  BY DEF SteadyInv
<1> QED
  BY <1>1, <1>2, HubStaysHome, WorkerStaysHome, ClaimsStayHome
     DEF Settled, WorkerAtHome

\* The worker comes to release only when nothing of the request is left.
LEMMA NothingLeftStep ==
    ASSUME SteadyInv, [SteadyNext]_vars
    PROVE  NothingLeft'
<1>0. TypeOK /\ Settled /\ NothingLeft
  BY DEF SteadyInv, TypeInv
<1>1. ASSUME ClaimsOnlyFade, UNCHANGED rw
      PROVE  NothingLeft'
  BY <1>0, <1>1 DEF NothingLeft, ClaimsOnlyFade
<1>2. CASE rw'.pc # "release"
  BY <1>2 DEF NothingLeft
<1>3. ASSUME NEW r \in Requests, Fetch(r), rw'.pc = "release"
      PROVE  NothingLeft'
  <2>1. Start(r, hub[r]) = "release" /\ rw'.key = r /\ UNCHANGED claims
    BY <1>3 DEF Fetch, Idle
  <2>2. hub[r] \in Objects /\ AtHome(r, hub[r])
    BY <1>0, <2>1 DEF Start, TypeOK, Absent, Settled
  <2>3. hub[r].tenant # NoTenant
    BY <2>2, BucketBindingAssumption DEF AtHome
  <2>4. ~Parses(r, hub[r])
    BY <2>1, <2>2, <2>3 DEF Start, Objects
  <2>5. ~CheckBucketName(BucketName(Home[r].tenant, NameOf[r]))
    BY <2>2, <2>4 DEF Parses, BucketOf, AtHome
  <2> QED  BY <1>0, <2>1, <2>5 DEF NothingLeft, Settled
<1>4. ASSUME RequestStep, rw'.pc = "release"
      PROVE  NothingLeft'
  <2>1. rw \in RequestWorkers
    BY <1>0, <1>4 DEF TypeOK, RequestStep, AddFinalizer, Resolve, Lookup,
                      SyncClaim, Observe, Report, DeleteClaim, Confirm, Release,
                      Idle
  <2>2. rw.key \in Requests /\ AtHome(rw.key, rw.obj)
    BY <1>0, <2>1 DEF Settled, RequestWorkers, RequestSteps
  <2>3. CASE Resolve
    <3>1. ResolveCluster(rw.obj.region, profiles) = NoCluster
      BY <1>4, <2>1, <2>3 DEF Resolve, RequestWorkers
    <3>2. HomeCluster(rw.key) = NoCluster
      BY <1>0, <2>2, <3>1 DEF HomeCluster, Settled, AtHome
    <3>3. NoCluster \notin Clusters
      BY BucketBindingAssumption
    <3>4. \A c \in claims : c.owner # rw.key
      BY <1>0, <3>2, <3>3 DEF Settled, TypeOK, Claims
    <3>5. rw'.key = rw.key /\ UNCHANGED claims
      BY <2>1, <2>3, <3>1 DEF Resolve, NotFound, RequestWorkers
    <3> QED  BY <3>4, <3>5 DEF NothingLeft
  <2>4. CASE Lookup
    <3>1. rw.spoke = HomeCluster(rw.key) /\ rw.spoke \in Clusters
      BY <1>0, <2>4
         DEF Lookup, Settled, SteadyInv, TypeInv, Equipped, ClusterSteps
    <3>2. rw.spoke \in engaged
      BY <1>0, <2>2, <3>1, HomeClusterEngaged, BucketBindingAssumption
    <3> QED  BY <1>2, <2>1, <2>4, <3>2 DEF Lookup, RequestWorkers
  <2>5. CASE Confirm
    <3>1. ClaimFor(rw.spoke, rw.key, rw.obj) = {}
      BY <1>4, <2>5 DEF Confirm, Idle
    <3>2. rw.spoke = HomeCluster(rw.key) /\ rw'.key = rw.key /\ UNCHANGED claims
      BY <1>0, <2>1, <2>5, <3>1 DEF Confirm, Settled, ClusterSteps, RequestWorkers
    <3>3. \A c \in claims : c.owner # rw.key
      BY <1>0, <2>2, <3>1, <3>2 DEF Settled, ClaimFor, AtHome
    <3> QED  BY <3>2, <3>3 DEF NothingLeft
  <2>6. ASSUME AddFinalizer \/ SyncClaim \/ Observe \/ Report \/ DeleteClaim
                  \/ Release
        PROVE  FALSE
    <3>1. CASE Observe
      BY <1>4, <2>1, <3>1, ObserveClaimType, ObserveConfigType DEF Observe
    <3>2. CASE SyncClaim \/ DeleteClaim
      BY <1>4, <2>1, <3>2 DEF SyncClaim, DeleteClaim, RequestWorkers
    <3>3. CASE Report \/ Release
      BY <1>4, <3>3 DEF Report, Release, Idle
    <3>4. CASE AddFinalizer
      <4>1. CASE hub[rw.key].phase = "live"
        BY <1>4, <2>1, <3>4, <4>1 DEF AddFinalizer, RequestWorkers
      <4>2. CASE hub[rw.key].phase # "live"
        BY <1>4, <3>4, <4>2 DEF AddFinalizer, Retry, Idle
      <4> QED  BY <4>1, <4>2
    <3> QED  BY <2>6, <3>1, <3>2, <3>3, <3>4
  <2> QED  BY <1>4, <2>3, <2>4, <2>5, <2>6 DEF RequestStep
<1>5. CASE \/ \E r \in Requests : Tick(r) \/ Order(r) \/ Delete(r) \/ Edit(r)
           \/ StatusStep \/ Rook \/ Faults
  <2>1. ClaimsOnlyFade /\ (rw' = Idle \/ UNCHANGED rw)
    BY <1>5, OtherStepsFade DEF SteadyInv
  <2> QED  BY <1>1, <1>2, <2>1 DEF Idle
<1>6. CASE UNCHANGED vars
  BY <1>1, <1>6, SameClaimsFade DEF vars
<1> QED  BY <1>2, <1>3, <1>4, <1>5, <1>6, Steps

LEMMA HeldUntilGoneStep ==
    ASSUME SteadyInv, [SteadyNext]_vars
    PROVE  HeldUntilGone'
<1>0. /\ TypeOK /\ HeldUntilGone /\ \A c \in claims : c.owner \in Requests
  BY DEF SteadyInv, TypeInv, TypeOK, Claims
<1>1. CASE Release
  <2>1. \A c \in claims : c.owner # rw.key
    BY <1>1 DEF Release, SteadyInv, NothingLeft
  <2> QED  BY <1>0, <1>1, <2>1 DEF Release, HeldUntilGone, TypeOK
<1>2. CASE SyncClaim
  <2>1. UNCHANGED hub
    BY <1>2 DEF SyncClaim
  <2> QED  BY <1>0, <1>2, <2>1, SyncClaimCreates DEF HeldUntilGone
<1>3. CASE ClaimsOnlyFade /\ FinalizersStay
  BY <1>0, <1>3 DEF ClaimsOnlyFade, FinalizersStay, HeldUntilGone
<1> QED
  BY <1>1, <1>2, <1>3, OnlySyncClaimCreates, OnlyReleaseReleases DEF SteadyInv

LEMMA SteadyInvInit ==
    ASSUME SteadyInit
    PROVE  SteadyInv
<1>1. TypeInv /\ GuardInv
  <2>1. {c \in Clusters : Labels[c] # None} \in SUBSET Clusters
    OBVIOUS
  <2> QED  BY <2>1, InitType, GuardInit DEF SteadyInit
<1>2. Settled /\ NothingLeft /\ HeldUntilGone
  BY DEF SteadyInit, InitWith, Settled, NothingLeft, HeldUntilGone, Absent, Idle,
         ClusterSteps
<1> QED  BY <1>1, <1>2 DEF SteadyInv

LEMMA SteadyInvStep ==
    ASSUME SteadyInv, [SteadyNext]_vars
    PROVE  SteadyInv'
<1>1. TypeInv' /\ GuardInv'
  BY StepType, GuardStep DEF SteadyInv
<1> QED
  BY <1>1, SettledStep, NothingLeftStep, HeldUntilGoneStep DEF SteadyInv

(***************************************************************************)
(* While profiles and placements stay, no claim ever outlives the          *)
(* finalizer of its request: for any number of requests, clusters, failed  *)
(* calls and restarts, and however long Rook takes.                        *)
(***************************************************************************)
THEOREM ClaimsHeldUntilGone == SteadySpec => []HeldUntilGone
<1>1. SteadyInit => SteadyInv
  BY SteadyInvInit
<1>2. SteadyInv /\ [SteadyNext]_vars => SteadyInv'
  BY SteadyInvStep
<1>3. SteadyInv => HeldUntilGone
  BY DEF SteadyInv
<1> QED  BY <1>1, <1>2, <1>3, PTL DEF SteadySpec

-----------------------------------------------------------------------------
(* The controller implements Custody. *)

CustodyIn(o) == IF o.phase = "absent" THEN "none" ELSE IF o.fin THEN "held" ELSE "free"

Keeps == [Promise!CustodyNext]_(Promise!cvars)

\* One written request: it appears, vanishes, is held, or stays as it was.
LEMMA WriteKeepsPromise ==
    ASSUME SteadyInv, NEW r \in Requests, NEW o, hub' = [hub EXCEPT ![r] = o],
           MayBecome(r, o), UNCHANGED Work
    PROVE  Keeps
<1> DEFINE old == CustodyIn(hub[r])
           new == CustodyIn(o)
<1>1. hub \in [Requests -> Objects \cup {Absent}]
  BY DEF SteadyInv, TypeInv, TypeOK
<1>2. CustodyOf' = [CustodyOf EXCEPT ![r] = new] /\ CustodyOf[r] = old
  BY <1>1 DEF CustodyOf, CustodyIn
<1>3. \/ new = old
      \/ old = "none" /\ new = "free"
      \/ old = "free" /\ new \in {"none", "held"}
  BY DEF MayBecome, CustodyIn
<1>4. CASE new = old
  <2>1. CustodyOf' = CustodyOf
    BY <1>2, <1>4 DEF CustodyOf
  <2> QED  BY <2>1 DEF Keeps, Promise!cvars
<1>5. CASE old = "none" /\ new = "free"
  <2>1. Promise!Appear(r)
    BY <1>2, <1>5 DEF Promise!Appear
  <2> QED  BY <2>1 DEF Keeps, Promise!CustodyNext
<1>6. CASE old = "free" /\ new \in {"none", "held"}
  <2>1. Promise!Vanish(r) \/ Promise!Hold(r)
    BY <1>2, <1>6 DEF Promise!Vanish, Promise!Hold
  <2> QED  BY <2>1 DEF Keeps, Promise!CustodyNext
<1> QED  BY <1>3, <1>4, <1>5, <1>6

\* Claims and requests may change in what Custody does not see.
LEMMA SameWork ==
    ASSUME UNCHANGED claims
    PROVE  UNCHANGED Work
BY DEF Work, KeyOf

LEMMA MarkGoingSameWork ==
    ASSUME TypeOK, NEW keys, MarkGoing(keys)
    PROVE  UNCHANGED Work
<1> DEFINE marked(c) == IF KeyOf(c) \in keys THEN [c EXCEPT !.going = TRUE] ELSE c
           item(c) == [owner |-> c.owner, key |-> KeyOf(c)]
<1>1. \A c \in claims : item(marked(c)) = item(c)
  BY DEF TypeOK, Claims, KeyOf
<1>2. claims' = {marked(c) : c \in claims}
  BY DEF MarkGoing
<1>3. Work = {item(c) : c \in claims} /\ Work' = {item(c) : c \in claims'}
  BY DEF Work, KeyOf
<1> HIDE DEF marked, item
<1> QED  BY <1>1, <1>2, <1>3

\* Rook changes a claim Custody sees no change in, or ends it.
LEMMA RookKeepsPromise ==
    ASSUME TypeOK, Rook
    PROVE  Keeps
<1>0. UNCHANGED CustodyOf
  BY DEF Rook, CustodyOf
<1> DEFINE item(c) == [owner |-> c.owner, key |-> KeyOf(c)]
<1>1. Work = {item(c) : c \in claims} /\ Work' = {item(c) : c \in claims'}
  BY DEF Work, KeyOf
<1>2. PICK c \in claims : RookStep(c)
  BY DEF Rook
<1>3. ASSUME NEW d, Replace(c, d), item(d) = item(c)
      PROVE  UNCHANGED Work
  <2> HIDE DEF item
  <2> QED  BY <1>1, <1>3 DEF Replace
<1>4. /\ item([c EXCEPT !.bound = TRUE]) = item(c)
      /\ item([c EXCEPT !.config = TRUE]) = item(c)
      /\ item(c) \in [owner : Requests, key : ClaimKeys]
  BY KeysAreKeys DEF TypeOK, Claims, KeyOf
<1>5. UNCHANGED Work \/ Work' = Work \ {item(c)}
  <2>1. CASE claims' = claims \ {c}
    <3> HIDE DEF item
    <3> QED  BY <1>1, <2>1
  <2>2. CASE \E d : Replace(c, d) /\ item(d) = item(c)
    BY <1>3, <2>2
  <2> HIDE DEF item
  <2> QED  BY <1>2, <1>4, <2>1, <2>2 DEF RookStep
<1>6. CASE Work' = Work \ {item(c)}
  <2>1. Promise!Stop(item(c))
    BY <1>0, <1>6 DEF Promise!Stop
  <2> QED  BY <1>4, <2>1 DEF Keeps, Promise!CustodyNext
<1>7. CASE UNCHANGED Work
  BY <1>0, <1>7 DEF Keeps, Promise!cvars
<1> QED  BY <1>5, <1>6, <1>7

\* Creating a claim starts work for a request that is held.
LEMMA SyncClaimKeepsPromise ==
    ASSUME SteadyInv, SyncClaim
    PROVE  Keeps
<1>0. UNCHANGED CustodyOf
  BY DEF SyncClaim, CustodyOf
<1> DEFINE item(c) == [owner |-> c.owner, key |-> KeyOf(c)]
<1>1. Work = {item(c) : c \in claims} /\ Work' = {item(c) : c \in claims'}
  BY DEF Work, KeyOf
<1>2. CASE UNCHANGED claims
  BY <1>0, <1>2, SameWork DEF Keeps, Promise!cvars
<1>3. CASE ~UNCHANGED claims
  <2>1. PICK c : claims' = claims \cup {c} /\ c.owner = rw.key
    <3> DEFINE c == [at |-> rw.spoke, ns |-> rw.obj.tenant,
                     name |-> NameOf[rw.key], owner |-> rw.key,
                     size |-> rw.obj.size, bound |-> FALSE,
                     config |-> FALSE, going |-> FALSE]
    <3>1. claims' = claims \cup {c}
      BY <1>3 DEF SyncClaim
    <3>2. c.owner = rw.key
      OBVIOUS
    <3> HIDE DEF c
    <3> QED  BY <3>1, <3>2
  <2>2. Work' = Work \cup {item(c)}
    <3> HIDE DEF item
    <3> QED  BY <1>1, <2>1
  <2>3. c \in Claims
    BY <2>1, StepType DEF SteadyInv, TypeInv, TypeOK, SteadyNext, Steady, RequestStep
  <2>4. item(c) \in [owner : Requests, key : ClaimKeys]
    BY <2>3 DEF Claims, ClaimKeys, KeyOf
  <2>5. hub[rw.key].fin /\ rw.key \in Requests
    BY SyncClaimCreates
  <2>6. CustodyOf[item(c).owner] = "held"
    BY <2>1, <2>5 DEF CustodyOf, SteadyInv, TypeInv, TypeOK, Objects, Absent
  <2>7. Promise!Start(item(c))
    BY <1>0, <2>2, <2>6 DEF Promise!Start
  <2> QED  BY <2>4, <2>7 DEF Keeps, Promise!CustodyNext
<1> QED  BY <1>2, <1>3

\* Releasing a request lets go of one nothing is left of.
LEMMA ReleaseKeepsPromise ==
    ASSUME SteadyInv, Release
    PROVE  Keeps
<1>1. rw.key \in Requests /\ hub[rw.key].fin
  BY DEF Release, SteadyInv, TypeInv, TypeOK, RequestWorkers, Idle, GuardInv,
         HeldWhileWorking, HeldSteps
<1>2. hub \in [Requests -> Objects \cup {Absent}]
  BY DEF SteadyInv, TypeInv, TypeOK
<1>3. CustodyOf[rw.key] = "held"
  BY <1>1, <1>2 DEF CustodyOf, Absent, Objects
<1>4. CustodyOf' = [CustodyOf EXCEPT ![rw.key] = "none"]
  BY <1>1, <1>2 DEF Release, CustodyOf, Absent
<1>5. \A w \in Work : w.owner # rw.key
  BY DEF Work, KeyOf, Release, SteadyInv, NothingLeft
<1>6. UNCHANGED Work
  BY SameWork DEF Release
<1>7. Promise!Release(rw.key)
  BY <1>3, <1>4, <1>5, <1>6 DEF Promise!Release
<1> QED  BY <1>1, <1>7 DEF Keeps, Promise!CustodyNext

\* Every other step leaves the work alone.
LEMMA OtherStepsSameWork ==
    ASSUME TypeOK, [SteadyNext]_vars
    PROVE  SyncClaim \/ Rook \/ UNCHANGED Work
<1>1. CASE UNCHANGED vars
  BY <1>1, SameWork DEF vars
<1>2. CASE RequestStep /\ ~SyncClaim
  BY <1>2, SameWork, MarkGoingSameWork
     DEF RequestStep, AddFinalizer, Resolve, Lookup, Observe, Report,
         DeleteClaim, Confirm, Release
<1>3. CASE StatusStep
  BY <1>3, SameWork DEF StatusStep, FetchClaim, ResolveForStatus,
                        ObserveForStatus, ReportForStatus
<1>4. CASE \E r \in Requests : Fetch(r) \/ Tick(r) \/ Order(r) \/ Delete(r)
  BY <1>4, SameWork DEF Fetch, Tick, Order, Delete, Write
<1>5. CASE RequestCallFails \/ StatusCallFails \/ Restart(engaged)
  BY <1>5, SameWork DEF RequestCallFails, StatusCallFails, Restart
<1>6. CASE \E c \in claims : DeletedOutOfBand(c)
  BY <1>6, MarkGoingSameWork DEF DeletedOutOfBand
<1> QED
  BY <1>1, <1>2, <1>3, <1>4, <1>5, <1>6 DEF SteadyNext, Steady

LEMMA StepKeepsPromise ==
    ASSUME SteadyInv, [SteadyNext]_vars
    PROVE  Keeps
<1>0. TypeOK
  BY DEF SteadyInv, TypeInv
<1>1. CASE SyncClaim
  BY <1>1, SyncClaimKeepsPromise
<1>2. CASE Rook
  BY <1>0, <1>2, RookKeepsPromise
<1>3. CASE Release
  BY <1>3, ReleaseKeepsPromise
<1>4. CASE UNCHANGED Work /\ ~Release
  <2>1. CASE UNCHANGED hub
    BY <1>4, <2>1 DEF Keeps, Promise!cvars, CustodyOf
  <2>2. CASE ~UNCHANGED hub
    BY <1>4, <2>2, SteadyWrites, WriteKeepsPromise
  <2> QED  BY <2>1, <2>2
<1> QED  BY <1>0, <1>1, <1>2, <1>3, <1>4, OtherStepsSameWork

(***************************************************************************)
(* The controller implements Custody while profiles and placements stay:   *)
(* every step of both workers, of Rook and of whatever fails is one of the *)
(* abstract steps, or none.                                                *)
(***************************************************************************)
THEOREM ImplementsCustody == SteadySpec => KeepsCustody
<1>1. SteadyInit => SteadyInv /\ Promise!CustodyInit
  <2>1. SteadyInit => Promise!CustodyInit
    BY DEF SteadyInit, InitWith, Promise!CustodyInit, CustodyOf, Work, Absent
  <2> QED  BY <2>1, SteadyInvInit
<1>2. SteadyInv /\ [SteadyNext]_vars => SteadyInv'
  BY SteadyInvStep
<1>3. SteadyInv /\ [SteadyNext]_vars => [Promise!CustodyNext]_(Promise!cvars)
  BY StepKeepsPromise DEF Keeps
<1> QED
  BY <1>1, <1>2, <1>3, PTL DEF SteadySpec, KeepsCustody, Promise!CustodySpec
-----------------------------------------------------------------------------
(* No request is forgotten. *)

Remembered == NeverForgotten /\ StaleIsQueued /\ SaysMissing

\* Every write to a request comes back as an event.
WritesQueued ==
    queue \subseteq queue' /\ \A r \in Requests : r \in queue' \/ UNCHANGED hub[r]

\* Around a worker that stays where it is, timers may at most turn into keys.
LEMMA SurroundingsRemember ==
    ASSUME TypeOK, Remembered, UNCHANGED rw, WritesQueued,
           timers \subseteq timers' \cup queue'
    PROVE  Remembered'
<1>1. rw.pc # "idle" => rw.key \in Requests
  BY DEF TypeOK, RequestWorkers, Idle
<1> QED
  BY <1>1 DEF Remembered, NeverForgotten, StaleIsQueued, SaysMissing, Owed,
              WritesQueued

\* A worker that goes on, with what it has read or with its key queued again.
LEMMA WorkerRemembers ==
    ASSUME TypeOK, Remembered, rw \in RequestWorkers, WritesQueued,
           UNCHANGED timers, rw'.pc # "idle", rw'.key = rw.key,
           rw'.obj = rw.obj \/ rw.key \in queue', SaysMissing'
    PROVE  Remembered'
<1>1. rw.key \in Requests /\ rw.pc # "idle"
  BY DEF RequestWorkers, RequestSteps
<1> QED
  BY <1>1 DEF Remembered, NeverForgotten, StaleIsQueued, Owed, WritesQueued

\* A worker that ends has seen to it that its key comes back, if it must.
LEMMA EndRemembers ==
    ASSUME Remembered, WritesQueued, timers \subseteq timers', rw' = Idle,
           NEW r \in Requests, r = rw.key, r \in queue' \cup timers' \/ ~Owed(r)'
    PROVE  Remembered'
<1>1. rw'.pc = "idle"
  BY DEF Idle
<1>2. ASSUME NEW s \in Requests, s # r, Owed(s)'
      PROVE  s \in queue' \cup timers'
  <2>1. CASE UNCHANGED hub[s]
    <3>1. Owed(s)
      BY <1>2, <2>1 DEF Owed
    <3> QED  BY <1>2, <3>1 DEF Remembered, NeverForgotten, WritesQueued
  <2> QED  BY <2>1 DEF WritesQueued
<1> QED
  BY <1>1, <1>2 DEF Remembered, NeverForgotten, StaleIsQueued, SaysMissing

LEMMA PatchQueued ==
    ASSUME TypeOK, NEW r \in Requests, NEW status, Patch(r, status)
    PROVE  WritesQueued /\ r \in queue'
<1>1. r \in queue' /\ queue \subseteq queue'
  BY DEF Patch
<1>2. \A s \in Requests \ {r} : UNCHANGED hub[s]
  BY DEF Patch, TypeOK
<1> QED  BY <1>1, <1>2 DEF WritesQueued

LEMMA ReportRemembers ==
    ASSUME TypeInv, Remembered, Report
    PROVE  Remembered'
<1>0. TypeOK /\ rw \in RequestWorkers /\ rw.key \in Requests /\ rw.pc = "report"
      /\ rw' = Idle /\ timers \subseteq timers'
  BY DEF TypeInv, TypeOK, Report, RequeueLater, Idle, RequestWorkers
<1>1. CASE rw.status = rw.obj.status
  <2>1. UNCHANGED <<hub, queue>> /\ RequeueLater
    BY <1>1 DEF Report
  <2>2. WritesQueued
    BY <2>1 DEF WritesQueued
  <2>3. CASE rw.obj.tenant # NoTenant \/ rw.key \in queue
    <3>1. rw.key \in queue' \cup timers'
      BY <2>1, <2>3 DEF RequeueLater
    <3> QED  BY <1>0, <2>2, <3>1, EndRemembers
  <2>4. CASE rw.obj.tenant = NoTenant /\ rw.key \notin queue
    <3>1. /\ rw.obj = hub[rw.key] /\ rw.obj.phase = "live"
          /\ rw.obj.status = MissingTenantStatus(rw.obj.region)
      BY <1>0, <1>1, <2>4 DEF Remembered, StaleIsQueued, SaysMissing
    <3>2. ASSUME NEW s \in Requests, s = rw.key
          PROVE  ~Owed(s)'
      BY <2>1, <2>4, <3>1, <3>2 DEF Owed
    <3> QED  BY <1>0, <2>2, <3>2, EndRemembers
  <2> QED  BY <2>3, <2>4
<1>2. CASE rw.status # rw.obj.status
  <2>1. WritesQueued /\ rw.key \in queue'
    BY <1>0, <1>2, PatchQueued DEF Report, WritesQueued
  <2> QED  BY <1>0, <2>1, EndRemembers
<1> QED  BY <1>1, <1>2

LEMMA RequestStepRemembers ==
    ASSUME TypeInv, Remembered, RequestStep
    PROVE  Remembered'
<1>0. TypeOK /\ rw \in RequestWorkers /\ rw.key \in Requests
  BY DEF TypeInv, TypeOK, RequestStep, AddFinalizer, Resolve, Lookup, SyncClaim,
         Observe, Report, DeleteClaim, Confirm, Release, Idle, RequestWorkers
<1>tenant. rw.pc \in ClusterSteps \cup {"resolve"} => rw.obj.tenant # NoTenant
  BY BucketBindingAssumption DEF TypeInv, Equipped
<1>goes. ASSUME UNCHANGED <<hub, queue, timers>>, rw'.pc \in RequestSteps,
                rw'.key = rw.key, rw'.obj = rw.obj,
                rw'.pc # "report" \/ rw.obj.tenant # NoTenant
         PROVE  Remembered'
  <2>1. WritesQueued /\ SaysMissing' /\ rw'.pc # "idle"
    BY <1>goes DEF WritesQueued, SaysMissing, RequestSteps
  <2> QED  BY <1>0, <1>goes, <2>1, WorkerRemembers
<1>1. CASE AddFinalizer
  <2>1. CASE hub[rw.key].phase = "live"
    <3>1. /\ rw'.pc = "resolve" /\ rw'.key = rw.key
          /\ rw.key \in queue' /\ UNCHANGED timers
      BY <1>0, <1>1, <2>1 DEF AddFinalizer, RequestWorkers
    <3>2. WritesQueued /\ SaysMissing'
      BY <1>0, <1>1, <2>1, <3>1
         DEF AddFinalizer, WritesQueued, SaysMissing, TypeOK
    <3> QED  BY <1>0, <3>1, <3>2, WorkerRemembers
  <2>2. CASE Retry /\ UNCHANGED <<hub, timers>>
    <3>1. WritesQueued /\ rw.key \in queue' /\ rw' = Idle
      BY <2>2 DEF Retry, WritesQueued
    <3> QED  BY <1>0, <2>2, <3>1, EndRemembers
  <2> QED  BY <1>1, <2>1, <2>2 DEF AddFinalizer
<1>2. CASE Resolve \/ Lookup
  <2>1. /\ rw'.pc \in RequestSteps /\ rw'.key = rw.key /\ rw'.obj = rw.obj
    BY <1>0, <1>2 DEF Resolve, Lookup, NotFound, RequestWorkers, RequestSteps
  <2> QED
    BY <1>2, <1>goes, <1>tenant, <2>1
       DEF Resolve, Lookup, ClusterSteps, waiting
<1>3. CASE SyncClaim \/ DeleteClaim
  <2>1. /\ rw'.pc \in RequestSteps \ {"report"} /\ rw'.key = rw.key
        /\ rw'.obj = rw.obj
    BY <1>0, <1>3 DEF SyncClaim, DeleteClaim, RequestWorkers, RequestSteps
  <2> QED  BY <1>3, <1>goes, <2>1 DEF SyncClaim, DeleteClaim
<1>4. CASE Observe
  <2>1. /\ rw'.pc \in {"config", "report"} /\ rw'.key = rw.key
        /\ rw'.obj = rw.obj
    BY <1>0, <1>4, ObserveClaimType, ObserveConfigType DEF Observe
  <2>2. rw.obj.tenant # NoTenant
    BY <1>4, <1>tenant DEF Observe, ClusterSteps
  <2> QED  BY <1>4, <1>goes, <2>1, <2>2 DEF Observe, RequestSteps, waiting
<1>5. CASE Report
  BY <1>5, ReportRemembers
<1>6. CASE Confirm
  <2>1. WritesQueued
    BY <1>6 DEF Confirm, WritesQueued
  <2>2. CASE rw' = [rw EXCEPT !.pc = "release"] /\ UNCHANGED timers
    <3>1. rw'.pc = "release" /\ rw'.key = rw.key /\ rw'.obj = rw.obj
      BY <1>0, <2>2 DEF RequestWorkers
    <3> QED  BY <1>6, <1>goes, <2>2, <3>1 DEF Confirm, RequestSteps
  <2>3. CASE rw' = Idle /\ timers' = timers \cup {rw.key}
    BY <1>0, <2>1, <2>3, EndRemembers
  <2> QED  BY <1>6, <2>2, <2>3 DEF Confirm
<1>7. CASE Release
  <2>1. WritesQueued /\ rw.key \in queue'
    BY <1>0, <1>7 DEF Release, WritesQueued, TypeOK
  <2> QED  BY <1>0, <1>7, <2>1, EndRemembers DEF Release
<1> QED  BY <1>1, <1>2, <1>3, <1>4, <1>5, <1>6, <1>7 DEF RequestStep

LEMMA FetchRemembers ==
    ASSUME TypeInv, Remembered, NEW r \in Requests, Fetch(r)
    PROVE  Remembered'
<1>0. /\ rw.pc = "idle" /\ UNCHANGED <<hub, timers>>
      /\ queue' = queue \ {r}
  BY DEF Fetch
<1>1. ASSUME NEW s \in Requests \ {r}, Owed(s)'
      PROVE  s \in queue' \cup timers'
  <2>1. Owed(s)
    BY <1>0, <1>1 DEF Owed
  <2> QED  BY <1>0, <1>1, <2>1 DEF Remembered, NeverForgotten
<1> DEFINE step == Start(r, hub[r])
<1>2. CASE step = "idle"
  <2>1. rw'.pc = "idle"
    BY <1>2 DEF Fetch, Idle
  <2>2. ~Owed(r)'
    BY <1>0, <1>2 DEF Start, Owed
  <2> QED
    BY <1>1, <2>1, <2>2 DEF Remembered, NeverForgotten, StaleIsQueued, SaysMissing
<1>3. CASE step # "idle"
  <2>1. /\ rw'.pc = step /\ rw'.key = r /\ rw'.obj = hub[r]
        /\ rw'.pc = "report" => rw'.status = MissingTenantStatus(hub[r].region)
    BY <1>3 DEF Fetch
  <2>2. rw'.pc = "report" => hub[r].phase = "live"
    <3>1. hub[r].phase \in {"live", "deleting", "absent"}
      BY DEF TypeInv, TypeOK, Objects, Absent
    <3> QED  BY <2>1, <3>1 DEF Start
  <2>3. StaleIsQueued' /\ SaysMissing'
    BY <1>0, <2>1, <2>2 DEF StaleIsQueued, SaysMissing
  <2>4. NeverForgotten'
    BY <1>1, <1>3, <2>1 DEF NeverForgotten
  <2> QED  BY <2>3, <2>4 DEF Remembered
<1> QED  BY <1>2, <1>3

LEMMA UsersRemember ==
    ASSUME TypeOK, Remembered, NEW r \in Requests,
           Order(r) \/ Delete(r) \/ Edit(r)
    PROVE  Remembered'
<1>1. \E o : Write(r, o)
  BY DEF Order, Delete, Edit
<1>2. WritesQueued /\ UNCHANGED <<rw, timers>>
  BY <1>1 DEF Write, WritesQueued, TypeOK
<1> QED  BY <1>2, SurroundingsRemember

LEMMA OthersRemember ==
    ASSUME TypeInv, Remembered,
           \/ StatusStep \/ Rook \/ Faults
           \/ \E r \in Requests : Tick(r)
           \/ UNCHANGED vars
    PROVE  Remembered'
<1>0. TypeOK
  BY DEF TypeInv
<1>same. ASSUME UNCHANGED <<hub, queue, timers, rw>>
         PROVE  Remembered'
  BY <1>0, <1>same, SurroundingsRemember DEF WritesQueued
<1>1. CASE StatusStep
  <2>1. CASE UNCHANGED <<hub, queue>>
    BY <1>1, <1>same, <2>1
       DEF StatusStep, FetchClaim, ResolveForStatus, ObserveForStatus,
           ReportForStatus, waiting
  <2>2. CASE ReportForStatus /\ Patch(sw.key, sw.status)
    <3>1. sw.key \in Requests
      BY <1>0, <2>2 DEF TypeOK, ReportForStatus, StatusWorkers, Idle
    <3>2. WritesQueued
      BY <1>0, <2>2, <3>1, PatchQueued
    <3> QED  BY <1>0, <2>2, <3>2, SurroundingsRemember DEF ReportForStatus
  <2> QED
    BY <1>1, <2>1, <2>2
       DEF StatusStep, FetchClaim, ResolveForStatus, ObserveForStatus,
           ReportForStatus, waiting
<1>2. CASE \/ Rook \/ StatusCallFails
           \/ \E c \in claims : DeletedOutOfBand(c)
           \/ \E c \in Clusters : Engage(c) \/ Disengage(c) \/ Relabel(c)
           \/ UNCHANGED vars
  BY <1>2, <1>same
     DEF Rook, StatusCallFails, DeletedOutOfBand, Engage, Disengage, Relabel,
         waiting, vars
<1>3. ASSUME NEW r \in Requests, Tick(r)
      PROVE  Remembered'
  <2>1. WritesQueued /\ timers \subseteq timers' \cup queue' /\ UNCHANGED rw
    BY <1>3 DEF Tick, WritesQueued
  <2> QED  BY <1>0, <2>1, SurroundingsRemember
<1>4. CASE RequestCallFails
  <2>1. rw.key \in Requests
    BY <1>0, <1>4 DEF RequestCallFails, TypeOK, RequestWorkers, Idle
  <2>2. /\ WritesQueued /\ rw.key \in queue' /\ rw' = Idle
        /\ UNCHANGED timers
    BY <1>4 DEF RequestCallFails, Retry, WritesQueued
  <2> QED  BY <1>0, <2>1, <2>2, EndRemembers
<1>5. ASSUME NEW clusters, Restart(clusters)
      PROVE  Remembered'
  <2>1. /\ rw'.pc = "idle" /\ UNCHANGED hub
        /\ queue' = {r \in Requests : hub[r].phase # "absent"}
    BY <1>5 DEF Restart, Idle
  <2> QED
    BY <2>1 DEF Remembered, NeverForgotten, StaleIsQueued, SaysMissing, Owed
<1> QED  BY <1>1, <1>2, <1>3, <1>4, <1>5 DEF Faults

(***************************************************************************)
(* A request that needs the controller is always about to be looked at     *)
(* again: queued, timed or in hand, also while its deletion waits for      *)
(* Rook.  No write gets lost between a read and the end of the reconcile,  *)
(* and no failed call or restart drops a key (Reconcile, finalize), for    *)
(* any number of requests and clusters.                                    *)
(***************************************************************************)
THEOREM NoRequestForgotten == Spec => []NeverForgotten
<1>1. Init => TypeInv /\ Remembered
  <2>1. Init => Remembered
    BY DEF Init, InitWith, Remembered, NeverForgotten, StaleIsQueued,
           SaysMissing, Owed, Absent, Idle
  <2> QED  BY <2>1, InitType DEF Init
<1>2. TypeInv /\ Remembered /\ [Next]_vars => TypeInv' /\ Remembered'
  <2> SUFFICES ASSUME TypeInv, Remembered, [Next]_vars
               PROVE  Remembered'
    BY StepType
  <2> QED
    BY Steps, RequestStepRemembers, FetchRemembers, UsersRemember, OthersRemember
       DEF TypeInv
<1>3. Remembered => NeverForgotten
  BY DEF Remembered
<1> QED  BY <1>1, <1>2, <1>3, PTL DEF Spec
=============================================================================
