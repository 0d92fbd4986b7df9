-------------------------- MODULE VmStabilityProofs --------------------------
(***************************************************************************)
(* The two workers never undo what is in sync (StaysInSync), for every     *)
(* value of the constants of VmBinding.                                    *)
(***************************************************************************)
EXTENDS VmSafetyProofs

\* A tenant has one namespace on the hub: the Secrets that requests of one
\* place on one spoke copy are one Secret.
OneHubNamespacePerTenant ==
    \A r, s \in Requests :
       Home[r].tenant = Home[s].tenant => HubNamespaceOf[r] = HubNamespaceOf[s]

-----------------------------------------------------------------------------
(* What is observed of a request at rest. *)

Mine(r) == {v \in vms : v.owner = r}

\* A request wants as many names as replicas: no two indices have one name.
LEMMA DesiredCount ==
    ASSUME NEW r \in Requests, NEW n \in Replicas
    PROVE  Cardinality(DesiredVMNames(NameOf[r], n)) = n
<1> DEFINE I == 0 .. (n - 1)
           D == DesiredVMNames(NameOf[r], n)
           f == [i \in I |-> VMName(NameOf[r], i)]
<1>1. n \in Nat /\ n > 0
  BY VmBindingAssumption DEF Replicas
<1>2. IsFiniteSet(I) /\ Cardinality(I) = n
  <2>1. n - 1 \in Int /\ ~(0 > n - 1) /\ n - 1 - 0 + 1 = n
    BY <1>1
  <2> QED  BY <2>1, FS_Interval
<1>3. f \in Surjection(I, D)
  BY DEF DesiredVMNames, Surjection
<1>4. f \in Injection(I, D)
  <2>1. \A i, j : VMName(NameOf[r], i) = VMName(NameOf[r], j) => i = j
    BY DEF VMName
  <2>2. f \in [I -> D]
    BY DEF DesiredVMNames
  <2>3. \A i, j \in I : f[i] = f[j] => i = j
    BY <2>1
  <2> HIDE DEF f, D, I
  <2> QED  BY <2>2, <2>3 DEF Injection, IsInjective
<1> QED  BY <1>2, <1>3, <1>4, FS_Surjection

\* At rest, a list of the request's VMs is all of them.
LEMMA OwnedAtRest ==
    ASSUME NEW r \in Requests, ObjectsAtRest(r)
    PROVE  Owned(hub[r].region, hub[r].tenant, r) = Mine(r)
BY DEF ObjectsAtRest, InSync, Owned, Mine

LEMMA LiveIsObject ==
    ASSUME TypeOK, NEW s \in Requests, hub[s].phase # "absent"
    PROVE  hub[s] \in Objects
BY DEF TypeOK, Absent

\* Whoever observes a request at rest finds the status it has (syncStatus).
LEMMA ObservedAtRest ==
    ASSUME TypeOK, NEW r \in Requests, ObjectsAtRest(r), NEW o,
           SameOrder(o, hub[r])
    PROVE  Observed(hub[r].region, {hub[r].tenant}, r, o) = hub[r].status
<1> DEFINE D == DesiredVMNames(NameOf[r], hub[r].replicas)
           listed == UNION {Owned(hub[r].region, t, r) : t \in {hub[r].tenant}}
           ready == NamesIn({v \in listed : v.ready})
<1>1. hub[r].replicas \in Replicas
  BY LiveIsObject DEF ObjectsAtRest, Servable, Objects
<1>2. listed = Mine(r)
  BY OwnedAtRest
<1>3. {v \in listed : v.ready} = Mine(r)
  BY <1>2 DEF Mine, ObjectsAtRest, InSync
<1>4. ready = D
  BY <1>3 DEF NamesIn, Mine, ObjectsAtRest, InSync
<1>5. Cardinality(D \cap ready) = hub[r].replicas
  BY <1>1, <1>4, DesiredCount
<1>6. Observed(hub[r].region, {hub[r].tenant}, r, o)
         = Status(hub[r].region, "Ready", hub[r].replicas, "none")
  <2>1. o.replicas = hub[r].replicas /\ o.region = hub[r].region
    BY DEF SameOrder
  <2> QED  BY <1>5, <2>1 DEF Observed, ReadyStatus
<1> QED  BY <1>6 DEF ObjectsAtRest, InSync

-----------------------------------------------------------------------------
(* No step but Meddling touches the objects of a request at rest. *)

AnyRest(r) == SteadyInv /\ AtRest(r) /\ [SteadyNext]_vars /\ ~Meddling(r)

HubKept(r) ==
    /\ SameOrder(hub'[r], hub[r]) /\ hub'[r].status = hub[r].status
    /\ \A s \in Requests : SharesSecret(r, s) => hub'[s].phase # "deleting"

\* One object written.
LEMMA WriteKeepsHub ==
    ASSUME TypeOK, NEW r \in Requests, ObjectsAtRest(r), NEW s \in Requests,
           NEW o, hub' = [hub EXCEPT ![s] = o],
           s = r => SameOrder(o, hub[r]) /\ o.status = hub[r].status,
           SharesSecret(r, s) => o.phase # "deleting"
    PROVE  HubKept(r)
BY DEF TypeOK, HubKept, ObjectsAtRest, SameOrder

\* The status of another request, or the one there is.
LEMMA PatchKeepsHub ==
    ASSUME TypeOK, NEW r \in Requests, ObjectsAtRest(r), NEW s \in Requests,
           NEW status, Patch(s, status), hub[s].phase # "absent",
           s = r => status = hub[r].status
    PROVE  HubKept(r)
<1> DEFINE o == [hub[s] EXCEPT !.status = status]
<1>1. hub[s] \in Objects
  BY LiveIsObject
<1>2. SameOrder(o, hub[s]) /\ o.status = status /\ o.phase = hub[s].phase
  BY <1>1 DEF SameOrder, Objects
<1>3. hub' = [hub EXCEPT ![s] = o]
  BY DEF Patch
<1>4. SharesSecret(r, s) => o.phase # "deleting"
  BY <1>2 DEF ObjectsAtRest
<1> HIDE DEF o
<1> QED  BY <1>2, <1>3, <1>4, WriteKeepsHub

LEMMA SameHubKept ==
    ASSUME NEW r \in Requests, ObjectsAtRest(r), UNCHANGED hub
    PROVE  HubKept(r)
BY DEF HubKept, SameOrder, ObjectsAtRest

LEMMA RestKeepsHub ==
    ASSUME NEW r \in Requests, AnyRest(r)
    PROVE  HubKept(r)
<1>0. /\ TypeOK /\ ObjectsAtRest(r) /\ RequestWorkerAtRest(r)
      /\ StatusWorkerAtRest(r) /\ [SteadyNext]_vars /\ ~Meddling(r)
  BY DEF AnyRest, AtRest, SteadyInv, TypeInv
<1>live. hub[r].phase = "live"
  BY <1>0 DEF ObjectsAtRest, Servable
<1>1. CASE RequestStep
  <2>0. rw.key \in Requests /\ rw.pc # "idle"
    BY <1>0, <1>1
       DEF TypeOK, RequestStep, AddFinalizer, Resolve, ReadHubSecret, CopySecret,
           Plan, CreateVM, DeleteVM, Observe, Report, Sweep, CleanVM,
           CleanSecret, Release, Idle, RequestWorkers
  <2>1. CASE AddFinalizer /\ hub[rw.key].phase = "live"
    <3> DEFINE o == [hub[rw.key] EXCEPT !.fin = TRUE]
    <3>1. hub[rw.key] \in Objects
      BY <1>0, <2>0, <2>1, LiveIsObject
    <3>2. SameOrder(o, hub[rw.key]) /\ o.status = hub[rw.key].status
          /\ o.phase = "live"
      BY <2>1, <3>1 DEF SameOrder, Objects
    <3>3. hub' = [hub EXCEPT ![rw.key] = o]
      BY <2>1 DEF AddFinalizer
    <3> HIDE DEF o
    <3> QED  BY <1>0, <2>0, <3>2, <3>3, WriteKeepsHub
  <2>2. CASE AddFinalizer /\ hub[rw.key].phase # "live"
    BY <1>0, <2>2, SameHubKept DEF AddFinalizer
  <2>3. CASE Report
    <3>1. CASE UNCHANGED hub
      BY <1>0, <3>1, SameHubKept
    <3>2. CASE ~UNCHANGED hub
      <4>1. /\ rw.status # rw.obj.status /\ hub[rw.key].phase # "absent"
            /\ Patch(rw.key, rw.status) /\ rw.pc = "report"
        BY <2>3, <3>2 DEF Report
      <4>2. rw.key = r => rw.status = hub[r].status
        BY <1>0, <2>0, <4>1 DEF RequestWorkerAtRest, NoNewStatus
      <4> QED  BY <1>0, <2>0, <4>1, <4>2, PatchKeepsHub
    <3> QED  BY <3>1, <3>2
  <2>4. CASE Release
    <3>1. ~SharesSecret(r, rw.key)
      BY <1>0, <2>0, <2>4 DEF Release, RequestWorkerAtRest
    <3>2. rw.key # r
      BY <3>1 DEF SharesSecret
    <3>3. hub' = [hub EXCEPT ![rw.key] = Absent]
      BY <2>4 DEF Release
    <3> QED  BY <1>0, <2>0, <3>1, <3>2, <3>3, WriteKeepsHub
  <2>5. CASE ~(AddFinalizer \/ Report \/ Release)
    BY <1>0, <1>1, <2>5, SameHubKept
       DEF RequestStep, Resolve, ReadHubSecret, CopySecret, Plan, CreateVM,
           DeleteVM, DeleteCall, Observe, Sweep, CleanVM, CleanSecret, hubVars
  <2> QED  BY <2>1, <2>2, <2>3, <2>4, <2>5
<1>2. CASE StatusStep
  <2>1. CASE UNCHANGED hub
    BY <1>0, <2>1, SameHubKept
  <2>2. CASE ~UNCHANGED hub
    <3>1. /\ sw.status # sw.obj.status /\ hub[sw.key].phase # "absent"
          /\ Patch(sw.key, sw.status) /\ sw.pc = "report"
      BY <1>2, <2>2
         DEF StatusStep, FetchVM, ObserveForStatus, ReportForStatus, hubVars
    <3>2. sw.key \in Requests
      BY <1>0, <3>1 DEF TypeOK, StatusWorkers, Idle
    <3>3. sw.key = r => sw.status = hub[r].status
      BY <1>0, <3>1 DEF StatusWorkerAtRest, NoNewStatus
    <3> QED  BY <1>0, <3>1, <3>2, <3>3, PatchKeepsHub
  <2> QED  BY <2>1, <2>2
<1>3. ASSUME NEW s \in Requests, Order(s)
      PROVE  HubKept(r)
  <2>1. PICK n \in Replicas :
           Write(s, [phase |-> "live", fin |-> FALSE, tenant |-> Home[s].tenant,
                     region |-> Home[s].region, replicas |-> n,
                     secret |-> Home[s].secret, status |-> None])
    BY <1>3 DEF Order
  <2>2. s # r
    BY <1>3, <1>live DEF Order
  <2> QED  BY <1>0, <2>1, <2>2, WriteKeepsHub DEF Write
<1>4. ASSUME NEW s \in Requests, Scale(s)
      PROVE  HubKept(r)
  <2>1. s # r
    BY <1>0, <1>4 DEF Meddling
  <2>2. PICK n : Write(s, [hub[s] EXCEPT !.replicas = n])
    BY <1>4 DEF Scale
  <2>3. hub[s] \in Objects /\ hub[s].phase = "live"
    BY <1>0, <1>4, LiveIsObject DEF Scale
  <2>4. [hub[s] EXCEPT !.replicas = n].phase = "live"
    BY <2>3 DEF Objects
  <2> QED  BY <1>0, <2>1, <2>2, <2>4, WriteKeepsHub DEF Write
<1>5. ASSUME NEW s \in Requests, Delete(s)
      PROVE  HubKept(r)
  <2>1. ~SharesSecret(r, s)
    BY <1>0, <1>5 DEF Meddling
  <2>2. s # r
    BY <2>1 DEF SharesSecret
  <2> QED  BY <1>0, <1>5, <2>1, <2>2, WriteKeepsHub DEF Delete, Write
<1>6. CASE \/ UNCHANGED vars \/ KubeVirt
           \/ \E s \in Requests : Fetch(s) \/ Tick(s)
           \/ \E ns \in HubNamespaces, name \in SecretNames :
                 RewriteSecret(ns, name)
           \/ RequestCallFails \/ StatusCallFails \/ Restart(engaged)
           \/ \E v \in vms : Stopped(v) \/ DeletedOutOfBand(v)
  BY <1>0, <1>6, SameHubKept
     DEF vars, KubeVirt, Started, Terminated, Fetch, Tick, RewriteSecret,
         RequestCallFails, StatusCallFails, Restart, Stopped, DeletedOutOfBand,
         Fault, hubVars
<1> QED
  BY <1>0, <1>1, <1>2, <1>3, <1>4, <1>5, <1>6 DEF SteadyNext, Steady

\* The hub's Secret of a request at rest.
HubData(r) == hubSecrets[HubNamespaceOf[r]][Home[r].secret]

LEMMA RestKeepsHubSecret ==
    ASSUME NEW r \in Requests, AnyRest(r)
    PROVE  HubData(r)' = HubData(r)
<1>0. TypeOK /\ [SteadyNext]_vars /\ ~Meddling(r)
  BY DEF AnyRest, SteadyInv, TypeInv
<1>1. ASSUME NEW ns \in HubNamespaces, NEW name \in SecretNames,
             RewriteSecret(ns, name)
      PROVE  HubData(r)' = HubData(r)
  <2>1. ns # HubNamespaceOf[r] \/ name # Home[r].secret
    BY <1>0, <1>1 DEF Meddling
  <2>2. PICK d : hubSecrets' = [hubSecrets EXCEPT ![ns][name] = d]
    BY <1>1 DEF RewriteSecret
  <2>3. \A m \in HubNamespaces : hubSecrets[m] \in [SecretNames -> Data \cup {None}]
    BY <1>0 DEF TypeOK
  <2>4. HubNamespaceOf[r] \in HubNamespaces
    BY VmBindingAssumption
  <2> QED  BY <1>0, <2>1, <2>2, <2>3, <2>4 DEF HubData, TypeOK
<1>2. CASE UNCHANGED hubSecrets
  BY <1>2 DEF HubData
<1>3. CASE RequestStep \/ StatusStep
  BY <1>2, <1>3
     DEF RequestStep, AddFinalizer, Resolve, ReadHubSecret, CopySecret, Plan,
         CreateVM, DeleteVM, DeleteCall, Observe, Report, Sweep, CleanVM,
         CleanSecret, Release, StatusStep, FetchVM, ObserveForStatus,
         ReportForStatus, hubVars
<1>4. CASE \/ UNCHANGED vars \/ KubeVirt
           \/ \E s \in Requests : \/ Fetch(s) \/ Tick(s) \/ Order(s)
                                  \/ Scale(s) \/ Delete(s)
           \/ RequestCallFails \/ StatusCallFails \/ Restart(engaged)
           \/ \E v \in vms : Stopped(v) \/ DeletedOutOfBand(v)
  BY <1>2, <1>4
     DEF vars, KubeVirt, Started, Terminated, Fetch, Tick, Order, Scale, Delete,
         Write, RequestCallFails, StatusCallFails, Restart, Stopped,
         DeletedOutOfBand, Fault, hubVars
<1> QED
  BY <1>0, <1>1, <1>3, <1>4 DEF SteadyNext, Steady

\* A delete call, or a VM that starts or stops, of another request.
LEMMA MarkGoingSparesMine ==
    ASSUME TypeOK, NEW r, NEW keys, MarkGoing(keys),
           \A v \in vms : KeyOf(v) \in keys => v.owner # r
    PROVE  Mine(r)' = Mine(r)
<1> DEFINE marked(v) == IF KeyOf(v) \in keys THEN [v EXCEPT !.going = TRUE] ELSE v
<1>1. \A v \in vms : /\ marked(v).owner = v.owner
                     /\ v.owner = r => marked(v) = v
  BY DEF TypeOK, VMs
<1>2. vms' = {marked(v) : v \in vms}
  BY DEF MarkGoing
<1> HIDE DEF marked
<1> QED  BY <1>1, <1>2 DEF Mine

LEMMA SetReadySparesMine ==
    ASSUME TypeOK, NEW r, NEW v \in vms, v.owner # r, NEW ready \in BOOLEAN,
           SetReady(v, ready)
    PROVE  Mine(r)' = Mine(r)
<1> DEFINE w == [v EXCEPT !.ready = ready]
<1>1. w.owner = v.owner
  BY DEF TypeOK, VMs
<1>2. vms' = (vms \ {v}) \cup {w}
  BY DEF SetReady
<1> HIDE DEF w
<1> QED  BY <1>1, <1>2 DEF Mine

LEMMA RestKeepsVMs ==
    ASSUME NEW r \in Requests, AnyRest(r)
    PROVE  Mine(r)' = Mine(r)
<1>0. /\ TypeInv /\ TypeOK /\ UniqueVMs /\ DeletesAreOwn /\ ObjectsAtRest(r)
      /\ RequestWorkerAtRest(r) /\ [SteadyNext]_vars /\ ~Meddling(r)
  BY DEF AnyRest, AtRest, SteadyInv, TypeInv, OrderInv
<1>1. CASE UNCHANGED vms
  BY <1>1 DEF Mine
<1>2. CASE CreateVM
  <2>1. rw.pc = "apply"
    BY <1>2 DEF CreateVM
  <2>2. ASSUME NEW v \in VMs, v.owner = rw.key, v.name \in rw.create,
               vms' = vms \cup {v}
        PROVE  Mine(r)' = Mine(r)
    <3>1. rw.key # r
      BY <1>0, <2>1, <2>2 DEF RequestWorkerAtRest
    <3> QED  BY <2>2, <3>1 DEF Mine
  <2> QED  BY <1>0, <1>1, <1>2, <2>2, CreateVMCreates
<1>3. ASSUME NEW n \in rw.delete, DeleteCall(n), rw.pc \in {"apply", "clean"}
      PROVE  Mine(r)' = Mine(r)
  <2>1. rw.key # r
    BY <1>0, <1>3 DEF RequestWorkerAtRest, SharesSecret
  <2>2. \A v \in vms :
           KeyOf(v) = [at |-> rw.spoke, ns |-> rw.obj.tenant, name |-> n]
              => v.owner = rw.key
    BY <1>0, <1>3 DEF DeletesAreOwn, KeyOf
  <2> QED  BY <1>0, <1>3, <2>1, <2>2, MarkGoingSparesMine DEF DeleteCall
<1>4. CASE DeleteVM \/ CleanVM
  BY <1>3, <1>4 DEF DeleteVM, CleanVM, NextDelete
<1>5. ASSUME NEW v \in vms, Started(v) \/ Terminated(v)
      PROVE  Mine(r)' = Mine(r)
  <2>1. v.owner # r
    BY <1>0, <1>5 DEF Started, Terminated, ObjectsAtRest, InSync
  <2>2. CASE Started(v)
    BY <1>0, <2>1, <2>2, SetReadySparesMine DEF Started
  <2>3. CASE Terminated(v)
    BY <2>1, <2>3 DEF Terminated, Mine
  <2> QED  BY <1>5, <2>2, <2>3
<1>6. ASSUME NEW v \in vms, Stopped(v) \/ DeletedOutOfBand(v)
      PROVE  Mine(r)' = Mine(r)
  <2>1. v.owner # r
    BY <1>0, <1>6 DEF Meddling
  <2>2. \A u \in vms : KeyOf(u) \in {KeyOf(v)} => u.owner # r
    BY <1>0, <2>1 DEF UniqueVMs
  <2> QED
    BY <1>0, <1>6, <2>1, <2>2, SetReadySparesMine, MarkGoingSparesMine
       DEF Stopped, DeletedOutOfBand
<1>7. CASE \/ RequestStep /\ ~(CreateVM \/ DeleteVM \/ CleanVM)
           \/ StatusStep
  BY <1>1, <1>7
     DEF RequestStep, AddFinalizer, Resolve, ReadHubSecret, CopySecret, Plan,
         Observe, Report, Sweep, CleanSecret, Release, StatusStep, FetchVM,
         ObserveForStatus, ReportForStatus, spokeVars
<1>8. CASE \/ UNCHANGED vars
           \/ \E s \in Requests : \/ Fetch(s) \/ Tick(s) \/ Order(s)
                                  \/ Scale(s) \/ Delete(s)
           \/ \E ns \in HubNamespaces, name \in SecretNames :
                 RewriteSecret(ns, name)
           \/ RequestCallFails \/ StatusCallFails \/ Restart(engaged)
  BY <1>1, <1>8
     DEF vars, Fetch, Tick, Order, Scale, Delete, RewriteSecret, Change,
         RequestCallFails, StatusCallFails, Restart, spokeVars
<1> QED
  BY <1>0, <1>2, <1>4, <1>5, <1>6, <1>7, <1>8 DEF SteadyNext, Steady, KubeVirt

\* Where the copy of a request's Secret is, and what it holds.
CopyOf(r) == [at |-> Home[r].region, ns |-> Home[r].tenant,
              name |-> Home[r].secret, data |-> HubData(r)]

LEMMA HomeOfRest ==
    ASSUME SteadyInv, NEW r \in Requests, ObjectsAtRest(r)
    PROVE  /\ hub[r].region = Home[r].region /\ hub[r].tenant = Home[r].tenant
           /\ hub[r].secret = Home[r].secret /\ Home[r].region \in Served
           /\ engaged = Served
BY DEF SteadyInv, CustodyInv, PlacedAtHome, AtHome, ObjectsAtRest, Servable

\* Only requests that share a Secret have it in one place.
LEMMA SamePlaceShares ==
    ASSUME NEW r \in Requests, NEW s \in Requests,
           Home[r].region = Home[s].region, Home[r].tenant = Home[s].tenant,
           Home[r].secret = Home[s].secret
    PROVE  SharesSecret(r, s)
BY VmBindingAssumption DEF SharesSecret, Placements

LEMMA RestKeepsSecret ==
    ASSUME NEW r \in Requests, AnyRest(r)
    PROVE  CopyOf(r) \in spokeSecrets'
<1>0. /\ SteadyInv /\ TypeOK /\ Equipped /\ PlacedAtHome /\ ObjectsAtRest(r)
      /\ RequestWorkerAtRest(r) /\ AnyStep
  BY DEF AnyRest, AtRest, SteadyInv, TypeInv, CustodyInv, AnyStep
<1>1. CopyOf(r) \in spokeSecrets
  BY <1>0, HomeOfRest DEF CopyOf, HubData, ObjectsAtRest, InSync
<1>2. ASSUME rw.pc \in {"copy", "clean"}
      PROVE  /\ rw.key \in Requests /\ rw.spoke = Home[rw.key].region
             /\ rw.obj.tenant = Home[rw.key].tenant
             /\ rw.obj.secret = Home[rw.key].secret
  BY <1>0, <1>2 DEF TypeOK, RequestWorkers, Idle, Equipped, SpokeSteps,
                    PlacedAtHome, AtHome
<1> DEFINE place == [at |-> rw.spoke, ns |-> rw.obj.tenant, name |-> rw.obj.secret]
<1>3. ASSUME rw.pc \in {"copy", "clean"}, KeyOf(CopyOf(r)) = place
      PROVE  SharesSecret(r, rw.key)
  BY <1>2, <1>3, SamePlaceShares DEF KeyOf, CopyOf
<1>4. CASE CopySecret
  <2> DEFINE copy == [at |-> rw.spoke, ns |-> rw.obj.tenant,
                      name |-> rw.obj.secret, data |-> rw.data]
  <2>1. /\ rw.pc = "copy" /\ KeyOf(copy) = place
        /\ spokeSecrets' = {s \in spokeSecrets : KeyOf(s) # KeyOf(copy)} \cup {copy}
    BY <1>4 DEF CopySecret, KeyOf
  <2>2. CASE KeyOf(CopyOf(r)) = place
    <3>1. SharesSecret(r, rw.key) /\ rw.data = HubData(r)
      BY <1>0, <1>3, <2>1, <2>2 DEF RequestWorkerAtRest, HubData
    <3>2. copy = CopyOf(r)
      BY <1>2, <2>1, <3>1 DEF SharesSecret, CopyOf
    <3> QED  BY <2>1, <3>2
  <2>3. CASE KeyOf(CopyOf(r)) # place
    BY <1>1, <2>1, <2>3
  <2> QED  BY <2>2, <2>3
<1>5. CASE CleanSecret
  <2>1. rw.pc = "clean"
        /\ spokeSecrets' = {s \in spokeSecrets : KeyOf(s) # place}
    BY <1>5 DEF CleanSecret
  <2>2. ~SharesSecret(r, rw.key)
    BY <1>0, <2>1 DEF RequestWorkerAtRest
  <2> QED  BY <1>1, <1>3, <2>1, <2>2
<1>6. CASE UNCHANGED spokeSecrets
  BY <1>1, <1>6
<1> QED  BY <1>0, <1>4, <1>5, <1>6, OnlyTwoCallsTouchSecrets

\* The objects of a request at rest stay as they are.
LEMMA ObjectsStayAtRest ==
    ASSUME NEW r \in Requests, AnyRest(r)
    PROVE  ObjectsAtRest(r)'
<1>1. /\ HubKept(r) /\ HubData(r)' = HubData(r) /\ Mine(r)' = Mine(r)
      /\ CopyOf(r) \in spokeSecrets'
  BY RestKeepsHub, RestKeepsHubSecret, RestKeepsVMs, RestKeepsSecret
<1>2. /\ ObjectsAtRest(r) /\ hub[r].region = Home[r].region
      /\ hub[r].tenant = Home[r].tenant /\ hub[r].secret = Home[r].secret
  BY HomeOfRest DEF AnyRest, AtRest
<1>3. Servable(r)'
  BY <1>1, <1>2 DEF HubKept, SameOrder, HubData, ObjectsAtRest, Servable, Parses
<1>4. InSync(r)'
  <2>1. \A v \in Mine(r)' : v.ready /\ v.at = hub'[r].region /\ v.ns = hub'[r].tenant
    BY <1>1, <1>2 DEF HubKept, SameOrder, ObjectsAtRest, InSync, Mine
  <2>2. {v.name : v \in Mine(r)'} = DesiredVMNames(NameOf[r], hub'[r].replicas)
    BY <1>1, <1>2 DEF HubKept, SameOrder, ObjectsAtRest, InSync, Mine
  <2>3. [at |-> hub'[r].region, ns |-> hub'[r].tenant, name |-> hub'[r].secret,
         data |-> hubSecrets'[HubNamespaceOf[r]][hub'[r].secret]] \in spokeSecrets'
    BY <1>1, <1>2 DEF HubKept, SameOrder, HubData, CopyOf
  <2>4. hub'[r].status = Status(hub'[r].region, "Ready", hub'[r].replicas, "none")
    BY <1>1, <1>2 DEF HubKept, SameOrder, ObjectsAtRest, InSync
  <2> QED  BY <2>1, <2>2, <2>3, <2>4 DEF InSync, Mine
<1>5. \A v \in vms' : v.owner = r => ~v.going
  BY <1>1, <1>2 DEF Mine, ObjectsAtRest
<1> QED  BY <1>1, <1>3, <1>4, <1>5 DEF HubKept, ObjectsAtRest

-----------------------------------------------------------------------------
(* No step makes a worker plan, or report, anything new for it. *)

LEMMA RequestWorkerStaysAtRest ==
    ASSUME OneHubNamespacePerTenant, NEW r \in Requests, AnyRest(r)
    PROVE  RequestWorkerAtRest(r)'
<1>0. /\ SteadyInv /\ TypeOK /\ Equipped /\ PlacedAtHome /\ ObjectsAtRest(r)
      /\ RequestWorkerAtRest(r) /\ AnyStep
  BY DEF AnyRest, AtRest, SteadyInv, TypeInv, CustodyInv, AnyStep
<1>hub. /\ HubKept(r) /\ HubData(r)' = HubData(r)
        /\ SameOrder(hub'[r], hub[r]) /\ hub'[r].status = hub[r].status
  BY RestKeepsHub, RestKeepsHubSecret DEF HubKept
<1>home. /\ hub[r].region = Home[r].region /\ hub[r].tenant = Home[r].tenant
         /\ hub[r].secret = Home[r].secret /\ Home[r].region \in engaged
         /\ hub[r].phase = "live" /\ hub[r].tenant # None
  BY <1>0, HomeOfRest DEF ObjectsAtRest, Servable
<1>idle. ASSUME rw' = Idle
         PROVE  RequestWorkerAtRest(r)'
  BY <1>idle DEF RequestWorkerAtRest, Idle
<1>refl. SharesSecret(r, r)
  BY DEF SharesSecret
\* A worker that goes on with the same object, in a harmless way.
<1>goes. ASSUME rw.pc # "idle", rw'.key = rw.key, SameOrder(rw'.obj, rw.obj),
                rw.pc \notin {"sweep", "clean", "release"} =>
                   rw'.pc \notin {"sweep", "clean", "release"},
                rw'.pc = "copy" /\ SharesSecret(r, rw.key) =>
                   rw'.data = HubData(r),
                rw'.pc = "report" /\ rw.key = r => rw'.status = hub[r].status,
                rw'.pc = "apply" /\ rw.key = r =>
                   rw'.create = {} /\ rw'.delete = {}
         PROVE  RequestWorkerAtRest(r)'
  BY <1>0, <1>hub, <1>goes, <1>refl
     DEF RequestWorkerAtRest, SameOrder, NoNewStatus, HubData
<1>1. CASE RequestStep
  <2>0. rw \in RequestWorkers /\ rw.key \in Requests /\ rw.pc # "idle"
    BY <1>0, <1>1
       DEF TypeOK, RequestStep, AddFinalizer, Resolve, ReadHubSecret, CopySecret,
           Plan, CreateVM, DeleteVM, Observe, Report, Sweep, CleanVM,
           CleanSecret, Release, Idle, RequestWorkers
  <2>same. SameOrder(rw.obj, rw.obj)
    BY DEF SameOrder
  <2>mine. rw.key = r =>
              /\ SameOrder(rw.obj, hub[r]) /\ rw.obj.phase = "live"
              /\ rw.pc = "apply" => rw.create = {} /\ rw.delete = {}
              /\ rw.pc \notin {"sweep", "clean", "release"}
              /\ rw.spoke # None => rw.spoke = hub[r].region
    BY <1>0, <1>refl, <2>0 DEF RequestWorkerAtRest, PlacedAtHome, SameOrder
  <2>sharing. SharesSecret(r, rw.key) =>
                 /\ rw.obj.phase = "live"
                 /\ HubNamespaceOf[rw.key] = HubNamespaceOf[r]
                 /\ rw.obj.secret = Home[r].secret
    BY <1>0, <2>0 DEF RequestWorkerAtRest, SharesSecret, PlacedAtHome, AtHome,
                      OneHubNamespacePerTenant
  <2>1. CASE AddFinalizer
    <3>1. CASE hub[rw.key].phase = "live"
      <4> DEFINE o == [rw.obj EXCEPT !.status = hub[rw.key].status]
      <4>1. rw'.pc = "resolve" /\ rw'.key = rw.key /\ rw'.obj = o
        BY <2>0, <2>1, <3>1 DEF AddFinalizer, RequestWorkers
      <4>2. SameOrder(o, rw.obj)
        BY <2>0 DEF RequestWorkers, Objects, SameOrder
      <4> HIDE DEF o
      <4> QED  BY <1>goes, <2>0, <4>1, <4>2
    <3>2. CASE hub[rw.key].phase # "live"
      BY <1>idle, <2>1, <3>2 DEF AddFinalizer, Retry
    <3> QED  BY <3>1, <3>2
  <2>2. CASE Resolve
    <3>1. /\ rw'.key = rw.key /\ rw'.obj = rw.obj /\ rw.pc = "resolve"
          /\ rw'.pc \in {"sweep", "secret", "release", "report"}
          /\ rw.obj.phase = "live" => rw'.pc \in {"secret", "report"}
          /\ rw.obj.phase = "live" /\ rw.obj.region \in engaged =>
                rw'.pc = "secret"
      BY <2>0, <2>2 DEF Resolve, RequestWorkers
    <3>2. rw.key = r => rw'.pc = "secret"
      BY <1>home, <2>mine, <3>1 DEF SameOrder
    <3> QED
      BY <1>0, <1>hub, <2>0, <2>mine, <2>sharing, <3>1, <3>2
         DEF RequestWorkerAtRest, SameOrder, NoNewStatus
  <2>3. CASE ReadHubSecret
    <3> DEFINE data == hubSecrets[HubNamespaceOf[rw.key]][rw.obj.secret]
    <3>1. CASE data = None
      BY <1>idle, <2>3, <3>1 DEF ReadHubSecret, Retry
    <3>2. CASE data # None
      <4>1. /\ rw'.pc = "copy" /\ rw'.key = rw.key /\ rw'.obj = rw.obj
            /\ rw'.data = data
        BY <2>0, <2>3, <3>2 DEF ReadHubSecret, RequestWorkers
      <4>2. SharesSecret(r, rw.key) => data = HubData(r)
        BY <2>sharing DEF HubData
      <4> HIDE DEF data
      <4> QED  BY <1>goes, <2>0, <2>same, <4>1, <4>2
    <3> QED  BY <3>1, <3>2
  <2>4. CASE CopySecret
    <3>1. rw'.pc = "plan" /\ rw'.key = rw.key /\ rw'.obj = rw.obj
      BY <2>0, <2>4 DEF CopySecret, RequestWorkers
    <3> QED  BY <1>goes, <2>0, <2>same, <3>1
  <2>5. CASE Plan
    <3> DEFINE mine == Owned(rw.spoke, rw.obj.tenant, rw.key)
               wanted == DesiredVMNames(NameOf[rw.key], rw.obj.replicas)
    <3>1. /\ rw'.pc = "apply" /\ rw'.key = rw.key /\ rw'.obj = rw.obj
          /\ rw'.create = wanted \ NamesIn(mine)
          /\ rw'.delete = NamesIn(mine) \ wanted /\ rw.pc = "plan"
      BY <2>0, <2>5 DEF Plan, PlanVMs, RequestWorkers
    <3>2. ASSUME rw.key = r
          PROVE  NamesIn(mine) = wanted
      <4>1. rw.spoke = hub[r].region /\ SameOrder(rw.obj, hub[r])
        BY <1>0, <2>mine, <3>1, <3>2 DEF Equipped, SpokeSteps
      <4>2. mine = Mine(r)
        BY <1>0, <3>2, <4>1, OwnedAtRest DEF SameOrder
      <4> QED
        BY <1>0, <3>2, <4>1, <4>2
           DEF SameOrder, NamesIn, Mine, ObjectsAtRest, InSync
    <3>3. rw.key = r => rw'.create = {} /\ rw'.delete = {}
      <4> HIDE DEF mine, wanted
      <4> QED  BY <3>1, <3>2
    <3> QED  BY <1>goes, <2>0, <2>same, <3>1, <3>3
  <2>6. CASE CreateVM
    <3>1. PICK n \in rw.create : rw' = [rw EXCEPT !.create = @ \ {n}]
      BY <2>6 DEF CreateVM, NextCreate
    <3>2. /\ rw'.pc = "apply" /\ rw'.key = rw.key /\ rw'.obj = rw.obj
          /\ rw.pc = "apply"
      BY <2>0, <2>6, <3>1 DEF CreateVM, RequestWorkers
    <3> QED  BY <1>goes, <2>0, <2>same, <2>mine, <3>1, <3>2
  <2>7. CASE DeleteVM
    <3>1. PICK n \in rw.delete : rw' = [rw EXCEPT !.delete = @ \ {n}]
      BY <2>7 DEF DeleteVM, DeleteCall, NextDelete
    <3>2. /\ rw'.pc = "apply" /\ rw'.key = rw.key /\ rw'.obj = rw.obj
          /\ rw.pc = "apply"
      BY <2>0, <2>7, <3>1 DEF DeleteVM, RequestWorkers
    <3> QED  BY <1>goes, <2>0, <2>same, <2>mine, <3>1, <3>2
  <2>8. CASE Observe
    <3>1. /\ rw'.pc = "report" /\ rw'.key = rw.key /\ rw'.obj = rw.obj
          /\ rw'.status = Observed(rw.spoke, {rw.obj.tenant}, rw.key, rw.obj)
          /\ rw.pc = "apply"
      BY <2>0, <2>8 DEF Observe, RequestWorkers
    <3>2. ASSUME rw.key = r
          PROVE  rw'.status = hub[r].status
      <4>1. rw.spoke = hub[r].region /\ SameOrder(rw.obj, hub[r])
        BY <1>0, <2>mine, <3>1, <3>2 DEF Equipped, SpokeSteps
      <4>2. rw.obj.tenant = hub[r].tenant
        BY <4>1 DEF SameOrder
      <4> QED  BY <1>0, <3>1, <3>2, <4>1, <4>2, ObservedAtRest
    <3> QED  BY <1>goes, <2>0, <2>same, <3>1, <3>2
  <2>9. CASE Report \/ Release
    BY <1>idle, <2>9 DEF Report, Release
  <2>10. CASE Sweep \/ CleanVM \/ CleanSecret
    <3>1. /\ rw.pc \in {"sweep", "clean"} /\ rw'.key = rw.key
          /\ rw'.obj = rw.obj /\ rw'.pc \in {"clean", "release"}
      BY <2>0, <2>10
         DEF Sweep, CleanVM, DeleteCall, CleanSecret, RequestWorkers
    <3> QED  BY <1>goes, <2>0, <2>same, <3>1
  <2> QED
    BY <1>1, <2>1, <2>2, <2>3, <2>4, <2>5, <2>6, <2>7, <2>8, <2>9, <2>10
       DEF RequestStep
<1>2. ASSUME NEW s \in Requests, Fetch(s)
      PROVE  RequestWorkerAtRest(r)'
  <2>1. CASE Start(hub[s]) = "idle"
    BY <1>idle, <1>2, <2>1 DEF Fetch
  <2>2. CASE Start(hub[s]) # "idle"
    <3>1. /\ rw'.pc = Start(hub[s]) /\ rw'.key = s /\ rw'.obj = hub[s]
      BY <1>2, <2>2 DEF Fetch
    <3>2. hub[s] \in Objects
      BY <1>0, <2>2, LiveIsObject DEF Start
    <3>3. SharesSecret(r, s) =>
             /\ hub[s].phase = "live"
             /\ Start(hub[s]) \in {"report", "guard", "resolve"}
      BY <1>0, <2>2, <3>2 DEF ObjectsAtRest, Objects, Start
    <3>4. Start(hub[r]) # "report"
      BY <1>home DEF Start
    <3>5. SameOrder(hub[r], hub'[r])
      BY <1>hub DEF SameOrder
    <3> QED
      BY <1>refl, <3>1, <3>3, <3>4, <3>5
         DEF RequestWorkerAtRest, NoNewStatus
  <2> QED  BY <2>1, <2>2
<1>3. CASE UNCHANGED rw
  BY <1>0, <1>hub, <1>3 DEF RequestWorkerAtRest, SameOrder, NoNewStatus, HubData
<1> QED  BY <1>0, <1>1, <1>2, <1>3, <1>idle, OthersLeaveTheWorker

LEMMA StatusWorkerStaysAtRest ==
    ASSUME NEW r \in Requests, AnyRest(r)
    PROVE  StatusWorkerAtRest(r)'
<1>0. /\ SteadyInv /\ TypeOK /\ ObjectsAtRest(r) /\ StatusWorkerAtRest(r)
      /\ [SteadyNext]_vars
  BY DEF AnyRest, AtRest, SteadyInv, TypeInv
<1>hub. SameOrder(hub'[r], hub[r]) /\ hub'[r].status = hub[r].status
  BY RestKeepsHub DEF HubKept
<1>idle. ASSUME sw' = Idle
         PROVE  StatusWorkerAtRest(r)'
  BY <1>idle DEF StatusWorkerAtRest, Idle
<1>same. ASSUME UNCHANGED sw
         PROVE  StatusWorkerAtRest(r)'
  BY <1>0, <1>hub, <1>same DEF StatusWorkerAtRest, SameOrder, NoNewStatus
<1>1. ASSUME NEW k \in VMKeys, FetchVM(k)
      PROVE  StatusWorkerAtRest(r)'
  <2>1. ASSUME NEW v \in vms, hub[v.owner].region = k.at,
               sw' = [pc |-> "observe", vm |-> k, key |-> v.owner,
                      obj |-> hub[v.owner], status |-> None]
        PROVE  StatusWorkerAtRest(r)'
    <3>1. SameOrder(hub[r], hub'[r]) /\ hub'[r].region = hub[r].region
      BY <1>hub DEF SameOrder
    <3>2. /\ sw'.pc = "observe" /\ sw'.vm = k /\ sw'.key = v.owner
          /\ sw'.obj = hub[v.owner]
      BY <2>1
    <3> QED  BY <2>1, <3>1, <3>2 DEF StatusWorkerAtRest, NoNewStatus
  <2> QED  BY <1>1, <1>idle, <1>same, <2>1 DEF FetchVM
<1>2. CASE ObserveForStatus
  <2>1. sw \in StatusWorkers /\ sw.pc = "observe"
    BY <1>0, <1>2 DEF ObserveForStatus, TypeOK, Idle
  <2> DEFINE nss == IF sw.obj.tenant = None THEN Tenants ELSE {sw.obj.tenant}
  <2>2. /\ sw'.pc = "report" /\ sw'.key = sw.key /\ sw'.obj = sw.obj
        /\ sw'.vm = sw.vm
        /\ sw'.status = Observed(sw.vm.at, nss, sw.key, sw.obj)
    BY <1>2, <2>1 DEF ObserveForStatus, StatusWorkers
  <2> SUFFICES ASSUME sw.key = r
               PROVE  /\ SameOrder(sw'.obj, hub'[r])
                      /\ sw'.status = hub'[r].status
                      /\ sw'.vm.at = hub'[r].region
    BY <2>2 DEF StatusWorkerAtRest, NoNewStatus
  <2>3. SameOrder(sw.obj, hub[r]) /\ sw.vm.at = hub[r].region
    BY <1>0, <2>1 DEF StatusWorkerAtRest
  <2>4. nss = {hub[r].tenant}
    BY <1>0, <2>3 DEF SameOrder, ObjectsAtRest, Servable
  <2>5. sw'.status = hub[r].status
    <3> HIDE DEF nss
    <3> QED  BY <1>0, <2>2, <2>3, <2>4, ObservedAtRest
  <2> QED  BY <1>hub, <2>2, <2>3, <2>5 DEF SameOrder
<1>3. CASE ReportForStatus \/ StatusCallFails \/ Restart(engaged)
  BY <1>3, <1>idle DEF ReportForStatus, StatusCallFails, Restart
<1>4. CASE RequestStep \/ KubeVirt
  BY <1>4, <1>same
     DEF RequestStep, AddFinalizer, Resolve, ReadHubSecret, CopySecret, Plan,
         CreateVM, DeleteVM, DeleteCall, Observe, Report, Sweep, CleanVM,
         CleanSecret, Release, KubeVirt, Started, Terminated
<1>5. CASE \/ UNCHANGED vars \/ RequestCallFails
           \/ \E s \in Requests : \/ Fetch(s) \/ Tick(s) \/ Order(s)
                                  \/ Scale(s) \/ Delete(s)
           \/ \E ns \in HubNamespaces, name \in SecretNames :
                 RewriteSecret(ns, name)
           \/ \E v \in vms : Stopped(v) \/ DeletedOutOfBand(v)
  BY <1>5, <1>same
     DEF vars, RequestCallFails, Fetch, Tick, Order, Scale, Delete,
         RewriteSecret, Change, Stopped, DeletedOutOfBand
<1> QED
  BY <1>0, <1>1, <1>2, <1>3, <1>4, <1>5 DEF SteadyNext, Steady, StatusStep

LEMMA StaysAtRest ==
    ASSUME OneHubNamespacePerTenant, SteadyInv, [SteadyNext]_vars,
           NEW r \in Requests, AtRest(r)
    PROVE  AtRest(r)' \/ Meddling(r)
<1> SUFFICES ASSUME ~Meddling(r)
             PROVE  AtRest(r)'
  OBVIOUS
<1>1. AnyRest(r)
  BY DEF AnyRest
<1> QED
  BY <1>1, ObjectsStayAtRest, RequestWorkerStaysAtRest, StatusWorkerStaysAtRest
     DEF AtRest

(***************************************************************************)
(* A request that is in sync stays in sync until somebody scales it,       *)
(* deletes it or one that shares its Secret, rewrites that Secret, or      *)
(* touches its VMs: no interleaving of the two workers' stale reads,       *)
(* failed calls, restarts and other requests' work undoes it (Reconcile,   *)
(* syncStatus, patchStatus).                                               *)
(***************************************************************************)
THEOREM SyncIsStable ==
    ASSUME OneHubNamespacePerTenant
    PROVE  SteadySpec => StaysInSync
<1> DEFINE Stays == \A r \in Requests : AtRest(r) => AtRest(r)' \/ Meddling(r)
<1>1. SteadyInit => SteadyInv
  BY SteadyInvInit
<1>2. SteadyInv /\ [SteadyNext]_vars => SteadyInv' /\ Stays
  BY SteadyInvStep, StaysAtRest
<1>3. SteadySpec => [][Stays]_vars
  BY <1>1, <1>2, PTL DEF SteadySpec
<1> QED  BY <1>3 DEF StaysInSync
=============================================================================
