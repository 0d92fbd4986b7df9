--------------------------- MODULE VmBindingProofs ---------------------------
(***************************************************************************)
(* Theorems about VmBinding for every value of its constants.              *)
(***************************************************************************)
EXTENDS VmBinding, FiniteSetTheorems, TLAPS

-----------------------------------------------------------------------------
(* The rules of VmDomain return what the worker's record may hold. *)

\* The VM names a request wants are names the model knows (DesiredVMNames).
LEMMA DesiredAreVMNames ==
    ASSUME NEW r \in Requests, NEW n \in Replicas
    PROVE  DesiredVMNames(NameOf[r], n) \subseteq VMNames
BY VmBindingAssumption DEF DesiredVMNames, VMNames, Replicas

\* The status computed from listed VMs is a status (ReadyStatus).
LEMMA ObservedIsStatus ==
    ASSUME NEW g, NEW nss, NEW r \in Requests, NEW o \in Objects
    PROVE  Observed(g, nss, r, o) \in Statuses
<1> DEFINE D == DesiredVMNames(NameOf[r], o.replicas)
           ready == NamesIn({v \in UNION {Owned(g, t, r) : t \in nss} : v.ready})
<1>1. IsFiniteSet(D)
  <2>1. IsFiniteSet(0 .. (o.replicas - 1))
    BY FS_Interval, VmBindingAssumption DEF Objects, Replicas
  <2> DEFINE f == [i \in 0 .. (o.replicas - 1) |-> VMName(NameOf[r], i)]
  <2>2. f \in Surjection(0 .. (o.replicas - 1), D)
    BY DEF DesiredVMNames, Surjection
  <2> QED  BY <2>1, <2>2, FS_Surjection
<1>2. Cardinality(D \cap ready) \in Nat
  BY <1>1, FS_Subset, FS_CardinalityType
<1> QED
  BY <1>2 DEF Observed, ReadyStatus, Status, Statuses, Objects, Phases, Messages
-----------------------------------------------------------------------------
(* Type correctness. *)

LEMMA StatusConstructors ==
    ASSUME NEW g \in Regions
    PROVE  /\ UnschedulableStatus(g) \in Statuses
           /\ MissingTenantStatus(g) \in Statuses
BY DEF UnschedulableStatus, MissingTenantStatus, Status, Statuses, Phases,
       Messages

LEMMA KeysAreKeys ==
    ASSUME NEW S \in SUBSET VMs, NEW v \in S
    PROVE  KeyOf(v) \in VMKeys
BY DEF VMs, VMKeys, KeyOf

TypeInv == TypeOK /\ Equipped

\* A delete call leaves VMs in the set of VMs, and tells of VM keys.
LEMMA MarkGoingType ==
    ASSUME TypeOK, NEW keys, MarkGoing(keys)
    PROVE  vms' \subseteq VMs /\ events' \subseteq VMKeys
<1>1. \A v \in vms : [v EXCEPT !.going = TRUE] \in VMs
  BY DEF TypeOK, VMs
<1>2. vms' \subseteq VMs
  BY <1>1 DEF MarkGoing, TypeOK
<1>3. \A v \in vms : KeyOf(v) \in VMKeys
  BY KeysAreKeys DEF TypeOK
<1> QED  BY <1>2, <1>3 DEF MarkGoing, Notify, TypeOK

\* A status patch writes a status and nothing else.
LEMMA PatchType ==
    ASSUME TypeOK, NEW r \in Requests, NEW s \in Statuses \cup {None},
           hub[r].phase # "absent", Patch(r, s)
    PROVE  hub' \in [Requests -> Objects \cup {Absent}] /\ queue' \subseteq Requests
<1>1. hub[r] \in Objects
  BY DEF TypeOK, Absent
<1>2. [hub[r] EXCEPT !.status = s] \in Objects
  BY <1>1 DEF Objects
<1> QED  BY <1>2 DEF Patch, TypeOK

\* Each step of the request worker keeps the types, and hands on what the
\* next one needs.
LEMMA RequestStepType ==
    ASSUME TypeInv, RequestStep
    PROVE  TypeInv'
<1> USE DEF TypeInv
<1>0. rw \in RequestWorkers
  BY DEF TypeOK, RequestStep, AddFinalizer, Resolve, ReadHubSecret, CopySecret,
         Plan, CreateVM, DeleteVM, Observe, Report, Sweep, CleanVM, CleanSecret,
         Release, Idle
<1>1. CASE AddFinalizer
  <2> USE <1>1 DEF AddFinalizer, Retry, hubVars, spokeVars
  <2>1. CASE hub[rw.key].phase = "live"
    <3>1. hub[rw.key] \in Objects
      BY <1>0, <2>1 DEF TypeOK, RequestWorkers, Absent
    <3>2. [hub[rw.key] EXCEPT !.fin = TRUE] \in Objects
      BY <3>1 DEF Objects
    <3>3. hub' \in [Requests -> Objects \cup {Absent}]
      BY <1>0, <2>1, <3>2 DEF TypeOK, RequestWorkers
    <3>4. hub[rw.key].status \in Statuses \cup {None}
      BY <3>1 DEF Objects
    <3>5. [rw.obj EXCEPT !.status = hub[rw.key].status] \in Objects
      BY <1>0, <3>4 DEF RequestWorkers, Objects
    <3>6. rw' = [rw EXCEPT !.pc = "resolve",
                    !.obj = [rw.obj EXCEPT !.status = hub[rw.key].status]]
      BY <1>0, <2>1 DEF RequestWorkers
    <3>7. rw' \in RequestWorkers
      BY <1>0, <3>5, <3>6 DEF RequestWorkers, RequestSteps
    <3>8. Equipped'
      BY <1>0, <3>6 DEF Equipped, SpokeSteps, RequestWorkers, Objects, Parses
    <3> QED  BY <1>0, <2>1, <3>3, <3>7, <3>8 DEF TypeOK, RequestWorkers
  <2>2. CASE hub[rw.key].phase # "live"
    BY <1>0, <2>2 DEF TypeOK, RequestWorkers, Idle, Equipped, SpokeSteps
  <2> QED  BY <2>1, <2>2
<1>2. CASE Resolve
  <2>1. rw' \in RequestWorkers
    BY <1>0, <1>2, StatusConstructors
       DEF Resolve, RequestWorkers, RequestSteps, Objects
  <2>2. Equipped'
    BY <1>0, <1>2, VmBindingAssumption
       DEF Resolve, Equipped, SpokeSteps, RequestWorkers, Objects
  <2> QED  BY <1>2, <2>1, <2>2 DEF Resolve, TypeOK, hubVars, spokeVars
<1>3. CASE ReadHubSecret
  <2> DEFINE data == hubSecrets[HubNamespaceOf[rw.key]][rw.obj.secret]
  <2>1. data \in Data \cup {None}
    <3>1. rw.obj.secret \in SecretNames
      BY <1>0, <1>3
         DEF ReadHubSecret, Equipped, SpokeSteps, RequestWorkers, Objects, Parses
    <3>2. HubNamespaceOf[rw.key] \in HubNamespaces
      BY <1>0, VmBindingAssumption DEF RequestWorkers
    <3> QED  BY <3>1, <3>2 DEF TypeOK
  <2>2. CASE data = None
    BY <1>0, <1>3, <2>2 DEF ReadHubSecret, Retry, RequestWorkers, TypeOK, Idle,
                            hubVars, spokeVars, Equipped, SpokeSteps
  <2>3. CASE data # None
    <3>1. rw' = [rw EXCEPT !.pc = "copy", !.data = data] /\ UNCHANGED queue
      BY <1>3, <2>3 DEF ReadHubSecret
    <3>2. rw' \in RequestWorkers /\ Equipped'
      BY <1>0, <1>3, <2>1, <2>3, <3>1
         DEF RequestWorkers, RequestSteps, Equipped, SpokeSteps, ReadHubSecret
    <3> QED  BY <1>3, <3>1, <3>2 DEF ReadHubSecret, TypeOK, hubVars, spokeVars
  <2> QED  BY <2>2, <2>3
<1>4. CASE CopySecret
  <2> DEFINE copy == [at |-> rw.spoke, ns |-> rw.obj.tenant,
                      name |-> rw.obj.secret, data |-> rw.data]
  <2>1. copy \in SpokeSecrets
    BY <1>0, <1>4 DEF CopySecret, SpokeSecrets, Equipped, SpokeSteps,
                      RequestWorkers, Objects, Parses
  <2>2. spokeSecrets' \subseteq SpokeSecrets
    BY <1>4, <2>1 DEF CopySecret, TypeOK
  <2>3. rw' \in RequestWorkers /\ Equipped'
    BY <1>0, <1>4 DEF CopySecret, RequestWorkers, RequestSteps, Equipped,
                      SpokeSteps
  <2> QED  BY <1>4, <2>2, <2>3 DEF CopySecret, TypeOK, hubVars
<1>5. CASE Plan
  <2> DEFINE existing == NamesIn(Owned(rw.spoke, rw.obj.tenant, rw.key))
             plan == PlanVMs(NameOf[rw.key], rw.obj.replicas, existing)
  <2>1. existing \subseteq VMNames
    BY DEF NamesIn, Owned, TypeOK, VMs
  <2>2. DesiredVMNames(NameOf[rw.key], rw.obj.replicas) \subseteq VMNames
    BY <1>0, DesiredAreVMNames DEF RequestWorkers, Objects
  <2>3. plan.create \in SUBSET VMNames /\ plan.delete \in SUBSET VMNames
    BY <2>1, <2>2 DEF PlanVMs
  <2>4. rw' = [rw EXCEPT !.pc = "apply", !.create = plan.create,
                         !.delete = plan.delete]
    BY <1>5 DEF Plan
  <2>5. rw' \in RequestWorkers /\ Equipped'
    BY <1>0, <1>5, <2>3, <2>4
       DEF Plan, RequestWorkers, RequestSteps, Equipped, SpokeSteps
  <2> QED  BY <1>5, <2>5 DEF Plan, TypeOK, hubVars, spokeVars
<1>6. CASE CreateVM
  <2>1. PICK n \in NextCreate(rw.create) :
           LET v == [at |-> rw.spoke, ns |-> rw.obj.tenant, name |-> n,
                     owner |-> rw.key, ready |-> FALSE, going |-> FALSE]
           IN  /\ IF \E u \in vms : KeyOf(u) = KeyOf(v)
                  THEN UNCHANGED <<vms, events>>
                  ELSE vms' = vms \cup {v} /\ events' = Notify({KeyOf(v)})
               /\ rw' = [rw EXCEPT !.create = @ \ {n}]
    BY <1>6 DEF CreateVM
  <2> DEFINE v == [at |-> rw.spoke, ns |-> rw.obj.tenant, name |-> n,
                   owner |-> rw.key, ready |-> FALSE, going |-> FALSE]
  <2>2. n \in VMNames
    BY <1>0 DEF NextCreate, RequestWorkers
  <2>3. v \in VMs
    BY <1>0, <1>6, <2>2 DEF CreateVM, VMs, Equipped, SpokeSteps, RequestWorkers,
                            Objects
  <2>4. KeyOf(v) \in VMKeys
    BY <2>3 DEF VMs, VMKeys, KeyOf
  <2>5. vms' \subseteq VMs /\ events' \subseteq VMKeys
    BY <2>1, <2>3, <2>4 DEF TypeOK, Notify
  <2>6. rw' \in RequestWorkers /\ Equipped'
    BY <1>0, <1>6, <2>1 DEF CreateVM, RequestWorkers, Equipped, SpokeSteps
  <2> QED  BY <1>6, <2>5, <2>6 DEF CreateVM, TypeOK, hubVars
<1>7. ASSUME NEW n, DeleteCall(n), rw.pc \in {"apply", "clean"}
      PROVE  TypeInv'
  <2>1. vms' \subseteq VMs /\ events' \subseteq VMKeys
    BY <1>7, MarkGoingType DEF DeleteCall, TypeOK
  <2>2. rw' \in RequestWorkers /\ Equipped'
    BY <1>0, <1>7 DEF DeleteCall, RequestWorkers, Equipped, SpokeSteps
  <2> QED  BY <1>7, <2>1, <2>2 DEF DeleteCall, TypeOK, hubVars
<1>8. CASE DeleteVM
  BY <1>7, <1>8 DEF DeleteVM
<1>9. CASE Observe
  <2>1. Observed(rw.spoke, {rw.obj.tenant}, rw.key, rw.obj) \in Statuses
    BY <1>0, ObservedIsStatus DEF RequestWorkers
  <2>2. rw' \in RequestWorkers /\ Equipped'
    BY <1>0, <1>9, <2>1
       DEF Observe, RequestWorkers, RequestSteps, Equipped, SpokeSteps
  <2> QED  BY <1>9, <2>2 DEF Observe, TypeOK, hubVars, spokeVars
<1>10. CASE Report
  <2>1. rw' = Idle /\ Equipped'
    BY <1>10 DEF Report, Idle, Equipped, SpokeSteps
  <2>2. hub' \in [Requests -> Objects \cup {Absent}] /\ queue' \subseteq Requests
    BY <1>0, <1>10, PatchType DEF Report, RequestWorkers, TypeOK
  <2>3. timers' \subseteq Requests
    BY <1>0, <1>10 DEF Report, RequeueLater, RequestWorkers, TypeOK
  <2> QED  BY <1>10, <2>1, <2>2, <2>3 DEF Report, TypeOK, spokeVars
<1>11. CASE Sweep
  <2>1. NamesIn(Owned(rw.spoke, rw.obj.tenant, rw.key)) \subseteq VMNames
    BY DEF NamesIn, Owned, TypeOK, VMs
  <2>2. rw' \in RequestWorkers /\ Equipped'
    BY <1>0, <1>11, <2>1
       DEF Sweep, RequestWorkers, RequestSteps, Equipped, SpokeSteps
  <2> QED  BY <1>11, <2>2 DEF Sweep, TypeOK, hubVars, spokeVars
<1>12. CASE CleanVM
  BY <1>7, <1>12 DEF CleanVM
<1>13. CASE CleanSecret
  <2>1. rw' \in RequestWorkers /\ Equipped'
    BY <1>0, <1>13
       DEF CleanSecret, RequestWorkers, RequestSteps, Equipped, SpokeSteps
  <2> QED  BY <1>13, <2>1 DEF CleanSecret, TypeOK, hubVars
<1>14. CASE Release
  BY <1>0, <1>14 DEF Release, RequestWorkers, TypeOK, Idle, Equipped, SpokeSteps,
                     spokeVars
<1> QED
  BY <1>1, <1>2, <1>3, <1>4, <1>5, <1>6, <1>8, <1>9, <1>10, <1>11, <1>12, <1>13,
     <1>14 DEF RequestStep

\* Reading a request sets the worker up with what its first step needs.
LEMMA FetchType ==
    ASSUME TypeInv, NEW r \in Requests, Fetch(r)
    PROVE  TypeInv'
<1> USE DEF TypeInv
<1>1. hub[r] \in Objects \/ hub[r] = Absent
  BY DEF TypeOK
<1>2. CASE Start(hub[r]) = "idle"
  BY <1>2 DEF Fetch, TypeOK, Equipped, SpokeSteps, Idle, hubVars, spokeVars
<1>3. CASE Start(hub[r]) # "idle"
  <2>1. hub[r] \in Objects
    BY <1>1, <1>3 DEF Start, Absent
  <2>2. Start(hub[r]) \in {"guard", "resolve", "report", "release"}
    BY <1>3, <2>1 DEF Start, Objects
  <2>3. Start(hub[r]) \in {"guard", "resolve"} =>
           Parses(hub[r]) /\ hub[r].tenant # None
    BY <2>1 DEF Start, Objects
  <2>4. MissingTenantStatus(hub[r].region) \in Statuses
    BY <2>1, StatusConstructors DEF Objects
  <2>5. rw' \in RequestWorkers /\ Equipped'
    BY <1>3, <2>1, <2>2, <2>3, <2>4
       DEF Fetch, RequestWorkers, RequestSteps, Equipped, SpokeSteps
  <2> QED  BY <2>5 DEF Fetch, TypeOK, hubVars, spokeVars
<1> QED  BY <1>2, <1>3

\* The status worker keeps the types.
LEMMA StatusStepType ==
    ASSUME TypeInv, StatusStep
    PROVE  TypeInv'
<1> USE DEF TypeInv
<1>1. ASSUME NEW k \in VMKeys, FetchVM(k)
      PROVE  TypeInv'
  <2>1. sw' \in StatusWorkers \cup {Idle}
    <3>1. ASSUME NEW v \in vms, KeyOf(v) = k,
                 sw' = IF hub[v.owner].phase # "absent" /\ Parses(hub[v.owner])
                          /\ hub[v.owner].region = k.at
                       THEN [pc |-> "observe", vm |-> k, key |-> v.owner,
                             obj |-> hub[v.owner], status |-> None]
                       ELSE Idle
          PROVE  sw' \in StatusWorkers \cup {Idle}
      <4>1. v.owner \in Requests
        BY DEF TypeOK, VMs
      <4>2. hub[v.owner] \in Objects \/ hub[v.owner].phase = "absent"
        BY <4>1 DEF TypeOK, Absent
      <4> QED  BY <3>1, <4>1, <4>2 DEF StatusWorkers, StatusSteps
    <3> QED  BY <1>1, <3>1 DEF FetchVM, TypeOK
  <2> QED  BY <1>1, <2>1 DEF FetchVM, TypeOK, hubVars, spokeVars, Equipped
<1>2. CASE ObserveForStatus
  <2>1. sw \in StatusWorkers
    BY <1>2 DEF ObserveForStatus, TypeOK, Idle
  <2>2. \A nss : Observed(sw.vm.at, nss, sw.key, sw.obj) \in Statuses
    BY <2>1, ObservedIsStatus DEF StatusWorkers
  <2>3. sw' \in StatusWorkers
    BY <1>2, <2>1, <2>2 DEF ObserveForStatus, StatusWorkers, StatusSteps
  <2> QED
    BY <1>2, <2>3 DEF ObserveForStatus, TypeOK, hubVars, spokeVars, Equipped
<1>3. CASE ReportForStatus
  <2>1. sw \in StatusWorkers
    BY <1>3 DEF ReportForStatus, TypeOK, Idle
  <2>2. hub' \in [Requests -> Objects \cup {Absent}] /\ queue' \subseteq Requests
    BY <1>3, <2>1, PatchType DEF ReportForStatus, StatusWorkers, TypeOK
  <2>3. events' \subseteq VMKeys
    BY <1>3, <2>1 DEF ReportForStatus, StatusWorkers, TypeOK
  <2> QED
    BY <1>3, <2>2, <2>3 DEF ReportForStatus, TypeOK, spokeVars, Equipped
<1> QED  BY <1>1, <1>2, <1>3 DEF StatusStep

\* So does what happens to a VM on its spoke.
LEMMA SetReadyType ==
    ASSUME TypeOK, NEW v \in vms, NEW ready \in BOOLEAN, SetReady(v, ready)
    PROVE  vms' \subseteq VMs /\ events' \subseteq VMKeys
<1>1. [v EXCEPT !.ready = ready] \in VMs
  BY DEF TypeOK, VMs
<1>2. KeyOf(v) \in VMKeys
  BY KeysAreKeys DEF TypeOK
<1> QED  BY <1>1, <1>2 DEF SetReady, Notify, TypeOK

LEMMA KubeVirtType ==
    ASSUME TypeInv, KubeVirt
    PROVE  TypeInv'
<1> USE DEF TypeInv
<1>1. ASSUME NEW v \in vms, Started(v)
      PROVE  TypeInv'
  <2>1. vms' \subseteq VMs /\ events' \subseteq VMKeys
    BY <1>1, SetReadyType DEF Started
  <2> QED  BY <1>1, <2>1 DEF Started, TypeOK, hubVars, Equipped
<1>2. ASSUME NEW v \in vms, Terminated(v)
      PROVE  TypeInv'
  <2>1. KeyOf(v) \in VMKeys
    BY KeysAreKeys DEF TypeOK
  <2> QED  BY <1>2, <2>1 DEF Terminated, Notify, TypeOK, hubVars, Equipped
<1> QED  BY <1>1, <1>2 DEF KubeVirt

\* So do users: what they write is a request object, or nothing is left.
LEMMA WriteType ==
    ASSUME TypeInv, NEW r \in Requests, NEW o \in Objects \cup {Absent},
           Write(r, o), Change
    PROVE  TypeInv'
BY DEF TypeInv, TypeOK, Write, Change, Disturb, spokeVars, Equipped

LEMMA UsersType ==
    ASSUME TypeInv,
           \/ \E r \in Requests : Order(r) \/ Scale(r) \/ Delete(r) \/ Edit(r)
           \/ \E ns \in HubNamespaces, name \in SecretNames :
                 RewriteSecret(ns, name)
    PROVE  TypeInv'
<1>1. ASSUME NEW r \in Requests, Order(r)
      PROVE  TypeInv'
  <2> DEFINE new(n) == [phase |-> "live", fin |-> FALSE,
                        tenant |-> Home[r].tenant, region |-> Home[r].region,
                        replicas |-> n, secret |-> Home[r].secret,
                        status |-> None]
  <2>1. \A n \in Replicas : new(n) \in Objects
    BY VmBindingAssumption DEF Objects, Placements
  <2>2. PICK n \in Replicas : Write(r, new(n))
    BY <1>1 DEF Order
  <2> QED  BY <1>1, <2>1, <2>2, WriteType DEF Order
<1>2. ASSUME NEW r \in Requests, hub[r].phase # "absent"
      PROVE  hub[r] \in Objects
  BY <1>2 DEF TypeInv, TypeOK, Absent
<1>3. ASSUME NEW r \in Requests, Scale(r)
      PROVE  TypeInv'
  <2>1. hub[r] \in Objects
    BY <1>2, <1>3 DEF Scale
  <2>2. \A n \in Replicas : [hub[r] EXCEPT !.replicas = n] \in Objects
    BY <2>1 DEF Objects
  <2> QED  BY <1>3, <2>2, WriteType DEF Scale
<1>4. ASSUME NEW r \in Requests, Delete(r)
      PROVE  TypeInv'
  <2>1. hub[r] \in Objects
    BY <1>2, <1>4 DEF Delete
  <2>2. [hub[r] EXCEPT !.phase = "deleting"] \in Objects
    BY <2>1 DEF Objects
  <2> QED  BY <1>4, <2>2, WriteType DEF Delete
<1>5. ASSUME NEW r \in Requests, Edit(r)
      PROVE  TypeInv'
  <2>1. hub[r] \in Objects
    BY <1>2, <1>5 DEF Edit
  <2>2. /\ \A t \in Tenants \cup {None} : [hub[r] EXCEPT !.tenant = t] \in Objects
        /\ \A g \in Regions : [hub[r] EXCEPT !.region = g] \in Objects
        /\ \A s \in SecretNames \cup {None} :
              [hub[r] EXCEPT !.secret = s] \in Objects
    BY <2>1 DEF Objects
  <2>3. PICK o \in Objects : Write(r, o)
    BY <1>5, <2>2 DEF Edit
  <2> QED  BY <1>5, <2>3, WriteType DEF Edit
<1>6. ASSUME NEW ns \in HubNamespaces, NEW name \in SecretNames,
             RewriteSecret(ns, name)
      PROVE  TypeInv'
  BY <1>6 DEF RewriteSecret, Change, Disturb, TypeInv, TypeOK, spokeVars, Equipped
<1> QED  BY <1>1, <1>3, <1>4, <1>5, <1>6

\* So does whatever goes wrong, and the provider.
Faults ==
    \/ RequestCallFails \/ StatusCallFails
    \/ \E v \in vms : Stopped(v) \/ DeletedOutOfBand(v)
    \/ Restart({}) \/ Restart(engaged)
    \/ \E g \in Regions : Engage(g) \/ Disengage(g)

LEMMA FaultsType ==
    ASSUME TypeInv, Faults
    PROVE  TypeInv'
<1> USE DEF TypeInv
<1>1. CASE RequestCallFails
  <2>1. rw \in RequestWorkers
    BY <1>1 DEF RequestCallFails, TypeOK, Idle
  <2> QED
    BY <1>1, <2>1 DEF RequestCallFails, Retry, RequestWorkers, Idle, Fault,
                      Disturb, TypeOK, hubVars, Equipped, SpokeSteps
<1>2. CASE StatusCallFails
  <2>1. sw \in StatusWorkers
    BY <1>2 DEF StatusCallFails, TypeOK, Idle
  <2> QED
    BY <1>2, <2>1 DEF StatusCallFails, StatusWorkers, Fault, Disturb, TypeOK,
                      hubVars, Equipped
<1>3. ASSUME NEW v \in vms, Stopped(v)
      PROVE  TypeInv'
  <2>1. vms' \subseteq VMs /\ events' \subseteq VMKeys
    BY <1>3, SetReadyType DEF Stopped
  <2> QED  BY <1>3, <2>1 DEF Stopped, Fault, Disturb, TypeOK, hubVars, Equipped
<1>4. ASSUME NEW v \in vms, DeletedOutOfBand(v)
      PROVE  TypeInv'
  <2>1. vms' \subseteq VMs /\ events' \subseteq VMKeys
    BY <1>4, MarkGoingType DEF DeletedOutOfBand
  <2> QED
    BY <1>4, <2>1 DEF DeletedOutOfBand, Fault, Disturb, TypeOK, hubVars, Equipped
<1>5. \A v \in vms : KeyOf(v) \in VMKeys
  BY KeysAreKeys DEF TypeOK
<1>6. ASSUME NEW spokes \in SUBSET Regions, Restart(spokes)
      PROVE  TypeInv'
  BY <1>5, <1>6 DEF Restart, Fault, Disturb, TypeOK, Idle, hubVars, Equipped,
                    SpokeSteps
<1>7. ASSUME NEW g \in Regions, Engage(g)
      PROVE  TypeInv'
  BY <1>5, <1>7, VmBindingAssumption
     DEF Engage, TypeOK, hubVars, spokeVars, Equipped
<1>8. ASSUME NEW g \in Regions, Disengage(g)
      PROVE  TypeInv'
  BY <1>8 DEF Disengage, Fault, Disturb, TypeOK, hubVars, Equipped
<1>9. engaged \in SUBSET Regions /\ {} \in SUBSET Regions
  BY DEF TypeOK
<1> QED
  BY <1>1, <1>2, <1>3, <1>4, <1>6, <1>7, <1>8, <1>9 DEF Faults

LEMMA TickType ==
    ASSUME TypeInv, NEW r \in Requests, Tick(r)
    PROVE  TypeInv'
BY DEF Tick, TypeInv, TypeOK, hubVars, spokeVars, Equipped

LEMMA InitType ==
    ASSUME NEW spokes \in SUBSET Regions, InitWith(spokes)
    PROVE  TypeInv
BY DEF InitWith, TypeInv, TypeOK, Idle, Equipped, SpokeSteps

\* Every step of either specification keeps the types.
LEMMA StepType ==
    ASSUME TypeInv, [Next \/ SteadyNext]_vars
    PROVE  TypeInv'
<1>1. CASE UNCHANGED vars
  BY <1>1 DEF vars, TypeInv, TypeOK, Equipped
<1>2. CASE Steady
  BY <1>2, FetchType, TickType, RequestStepType, StatusStepType, KubeVirtType,
     UsersType, FaultsType DEF Steady, Faults
<1>3. CASE Restart({}) \/ Restart(engaged)
  BY <1>3, FaultsType DEF Faults
<1>4. CASE \E g \in Regions : Engage(g) \/ Disengage(g)
  BY <1>4, FaultsType DEF Faults
<1>5. CASE \E r \in Requests : Edit(r)
  BY <1>5, UsersType
<1> QED  BY <1>1, <1>2, <1>3, <1>4, <1>5 DEF Next, SteadyNext

(***************************************************************************)
(* The state stays well-typed in the program as main.go starts it, for     *)
(* any number of requests, spokes, VMs and disturbances.  TypeOK is not    *)
(* inductive alone: a worker may use only what Equipped says it was given. *)
(***************************************************************************)
THEOREM TypeCorrect == Spec => []TypeOK
<1>1. Init => TypeInv
  BY InitType DEF Init
<1>2. TypeInv /\ [Next]_vars => TypeInv'
  BY StepType
<1>3. TypeInv => TypeOK
  BY DEF TypeInv
<1> QED  BY <1>1, <1>2, <1>3, PTL DEF Spec

-----------------------------------------------------------------------------
(* Custody: no VM runs without a request that holds its finalizer. *)

\* VMs may come to an end, or be ready or not; none appears, moves or revives.
VMsOnlyFade ==
    \A w \in vms' : \E v \in vms :
       /\ w.at = v.at /\ w.ns = v.ns /\ w.name = v.name /\ w.owner = v.owner
       /\ v.going => w.going

\* What the hub does while no worker moves: finalizers stay, and so does the
\* placement Kro wrote.
HubKeepsCustody ==
    \A r \in Requests :
       /\ hub[r].fin => hub'[r].fin
       /\ hub'[r].phase # "absent" => AtHome(hub'[r], r)

\* Steps around the request worker cannot break custody.
LEMMA SurroundingsKeepCustody ==
    ASSUME TypeInv, CustodyInv, VMsOnlyFade, HubKeepsCustody,
           UNCHANGED <<engaged, rw>>
    PROVE  CustodyInv'
<1> USE DEF CustodyInv
<1>0. \A v \in vms : v.owner \in Requests
  BY DEF TypeInv, TypeOK, VMs
<1>1. PlacedAtHome'
  BY DEF PlacedAtHome, VMsOnlyFade, HubKeepsCustody, AtHome
<1>2. HeldWhileWorking'
  <2>1. rw.pc # "idle" => rw.key \in Requests
    BY DEF TypeInv, TypeOK, RequestWorkers, Idle
  <2> QED  BY <2>1 DEF HeldWhileWorking, HubKeepsCustody, SpokeSteps
<1>3. SweptBeforeRelease'
  BY DEF SweptBeforeRelease, VMsOnlyFade
<1>4. NoOrphan'
  BY <1>0 DEF NoOrphan, VMsOnlyFade, HubKeepsCustody
<1> QED  BY <1>1, <1>2, <1>3, <1>4

LEMMA SameVMsFade ==
    ASSUME UNCHANGED vms
    PROVE  VMsOnlyFade
BY DEF VMsOnlyFade

LEMMA MarkGoingFades ==
    ASSUME TypeOK, NEW keys, MarkGoing(keys)
    PROVE  VMsOnlyFade
<1>1. \A v \in vms : LET w == [v EXCEPT !.going = TRUE]
                     IN  /\ w.at = v.at /\ w.ns = v.ns /\ w.name = v.name
                         /\ w.owner = v.owner /\ w.going
  BY DEF TypeOK, VMs
<1> QED  BY <1>1 DEF MarkGoing, VMsOnlyFade

LEMMA SetReadyFades ==
    ASSUME TypeOK, NEW v \in vms, NEW ready \in BOOLEAN, SetReady(v, ready)
    PROVE  VMsOnlyFade
<1>1. LET w == [v EXCEPT !.ready = ready]
      IN  /\ w.at = v.at /\ w.ns = v.ns /\ w.name = v.name
          /\ w.owner = v.owner /\ w.going = v.going
  BY DEF TypeOK, VMs
<1> QED  BY <1>1 DEF SetReady, VMsOnlyFade

LEMMA SameHubKeepsCustody ==
    ASSUME PlacedAtHome, UNCHANGED hub
    PROVE  HubKeepsCustody
BY DEF PlacedAtHome, HubKeepsCustody

\* Writing one object keeps custody if it keeps the finalizer and the place.
LEMMA OneWriteKeepsCustody ==
    ASSUME TypeInv, PlacedAtHome, NEW r \in Requests, NEW o,
           hub' = [hub EXCEPT ![r] = o],
           hub[r].fin => o.fin,
           o.phase # "absent" => AtHome(o, r)
    PROVE  HubKeepsCustody
BY DEF TypeInv, TypeOK, PlacedAtHome, HubKeepsCustody

LEMMA PatchKeepsCustody ==
    ASSUME TypeInv, PlacedAtHome, NEW r \in Requests, NEW s, Patch(r, s),
           hub[r].phase # "absent"
    PROVE  HubKeepsCustody
<1>1. hub[r] \in Objects
  BY DEF TypeInv, TypeOK, Absent
<1> DEFINE o == [hub[r] EXCEPT !.status = s]
<1>2. o.fin = hub[r].fin /\ AtHome(o, r)
  BY <1>1 DEF Objects, AtHome, PlacedAtHome
<1>3. hub' = [hub EXCEPT ![r] = o]
  BY DEF Patch
<1> QED  BY <1>2, <1>3, OneWriteKeepsCustody

\* Reading a request: it is worked on only as it holds its finalizer, and is
\* released at once only if it cannot be placed, which Kro's requests can.
LEMMA FetchCustody ==
    ASSUME TypeInv, CustodyInv, NEW r \in Requests, Fetch(r)
    PROVE  CustodyInv'
<1> USE DEF CustodyInv
<1>1. hub[r] \in Objects \/ hub[r] = Absent
  BY DEF TypeInv, TypeOK
<1>2. UNCHANGED <<hub, vms, engaged>>
  BY DEF Fetch, hubVars, spokeVars
<1>3. CASE Start(hub[r]) = "idle"
  <2>1. rw' = Idle
    BY <1>3 DEF Fetch
  <2> QED
    BY <1>2, <2>1 DEF PlacedAtHome, HeldWhileWorking, SweptBeforeRelease,
                      NoOrphan, Idle, SpokeSteps
<1>4. CASE Start(hub[r]) # "idle"
  <2>1. hub[r] \in Objects
    BY <1>1, <1>4 DEF Start, Absent
  <2>2. AtHome(hub[r], r)
    BY <1>4 DEF PlacedAtHome, Start
  <2>3. Parses(hub[r]) /\ hub[r].tenant # None
    BY <2>2, VmBindingAssumption DEF AtHome, Parses, Placements
  <2>4. Start(hub[r]) \in {"guard", "resolve"}
    BY <1>4, <2>1, <2>3 DEF Start, Objects
  <2>5. Start(hub[r]) = "resolve" => hub[r].fin
    BY <1>4, <2>1, <2>3 DEF Start, Objects
  <2>6. /\ rw'.pc = Start(hub[r]) /\ rw'.key = r /\ rw'.obj = hub[r]
        /\ rw'.spoke = None
    BY <1>4 DEF Fetch
  <2> QED
    BY <1>2, <2>2, <2>4, <2>5, <2>6
       DEF PlacedAtHome, HeldWhileWorking, SweptBeforeRelease, NoOrphan,
           SpokeSteps
<1> QED  BY <1>3, <1>4

\* The request worker's own steps.
LEMMA RequestStepCustody ==
    ASSUME TypeInv, CustodyInv, RequestStep
    PROVE  CustodyInv'
<1> USE DEF CustodyInv
<1>0. rw \in RequestWorkers /\ rw.key \in Requests
  BY DEF TypeInv, TypeOK, RequestStep, AddFinalizer, Resolve, ReadHubSecret,
         CopySecret, Plan, CreateVM, DeleteVM, Observe, Report, Sweep, CleanVM,
         CleanSecret, Release, Idle, RequestWorkers
<1>home. AtHome(rw.obj, rw.key)
  BY <1>0 DEF PlacedAtHome, RequestWorkers, RequestSteps
<1>idle. ASSUME rw' = Idle, HubKeepsCustody, UNCHANGED <<vms, engaged>>
      PROVE  CustodyInv'
  <2>1. \A v \in vms : v.owner \in Requests
    BY DEF TypeInv, TypeOK, VMs
  <2> QED
    BY <1>idle, <2>1 DEF PlacedAtHome, HeldWhileWorking, SweptBeforeRelease,
                      NoOrphan, HubKeepsCustody, Idle, SpokeSteps
<1>1. CASE AddFinalizer
  <2>1. CASE hub[rw.key].phase = "live"
    <3>1. hub[rw.key] \in Objects
      BY <1>0, <2>1 DEF TypeInv, TypeOK, Absent
    <3> DEFINE o == [hub[rw.key] EXCEPT !.fin = TRUE]
    <3>2. o.fin /\ o.phase = "live" /\ AtHome(o, rw.key)
      BY <1>0, <2>1, <3>1 DEF Objects, AtHome, PlacedAtHome
    <3>3. hub' = [hub EXCEPT ![rw.key] = o]
      BY <1>1, <2>1 DEF AddFinalizer
    <3>4. HubKeepsCustody /\ hub'[rw.key].fin
      BY <1>0, <3>2, <3>3, OneWriteKeepsCustody DEF TypeInv, TypeOK
    <3>5. rw' = [rw EXCEPT !.pc = "resolve",
                    !.obj = [rw.obj EXCEPT !.status = hub[rw.key].status]]
      BY <1>0, <1>1, <2>1 DEF AddFinalizer, RequestWorkers
    <3>6. /\ rw'.pc = "resolve" /\ rw'.key = rw.key /\ rw'.spoke = rw.spoke
          /\ AtHome(rw'.obj, rw.key) /\ rw'.obj.region = rw.obj.region
      BY <1>0, <1>home, <3>5 DEF RequestWorkers, Objects, AtHome
    <3>7. UNCHANGED <<vms, engaged>>
      BY <1>1 DEF AddFinalizer, spokeVars
    <3>8. PlacedAtHome'
      BY <1>0, <3>4, <3>6, <3>7
         DEF PlacedAtHome, HubKeepsCustody, RequestWorkers, RequestSteps
    <3>9. NoOrphan'
      BY <3>4, <3>7 DEF NoOrphan, HubKeepsCustody, TypeInv, TypeOK, VMs
    <3> QED
      BY <3>4, <3>6, <3>8, <3>9 DEF HeldWhileWorking, SweptBeforeRelease
  <2>2. CASE hub[rw.key].phase # "live"
    BY <1>idle, <1>1, <2>2, SameHubKeepsCustody DEF AddFinalizer, Retry, spokeVars
  <2> QED  BY <2>1, <2>2
<1>2. CASE Resolve
  <2>1. UNCHANGED <<hub, vms, engaged>>
    BY <1>2 DEF Resolve, hubVars, spokeVars
  <2>2. hub[rw.key].fin
    BY <1>2 DEF Resolve, HeldWhileWorking
  <2>3. /\ rw'.key = rw.key /\ rw'.obj = rw.obj
        /\ rw'.pc \in {"sweep", "secret", "release", "report"}
        /\ rw'.spoke = rw.spoke \/ rw'.spoke = rw.obj.region
        /\ rw.obj.region \notin Served => rw'.spoke = rw.spoke
        /\ rw'.pc = "release" => rw.obj.region \notin Served
    <3>1. engaged = Served
      BY DEF PlacedAtHome
    <3>2. CASE rw.obj.region \in Served
      BY <1>0, <1>2, <3>1, <3>2 DEF Resolve, RequestWorkers
    <3>3. CASE rw.obj.region \notin Served
      BY <1>0, <1>2, <3>1, <3>3 DEF Resolve, RequestWorkers
    <3> QED  BY <3>2, <3>3
  <2>4. PlacedAtHome'
    BY <1>0, <2>1, <2>3 DEF PlacedAtHome, RequestWorkers, RequestSteps
  <2>5. SweptBeforeRelease'
    BY <1>home, <2>1, <2>3 DEF SweptBeforeRelease, PlacedAtHome, AtHome
  <2> QED
    BY <2>1, <2>2, <2>3, <2>4, <2>5 DEF HeldWhileWorking, NoOrphan
<1>3. ASSUME UNCHANGED <<hub, vms, engaged>>,
             rw'.key = rw.key, rw'.obj = rw.obj, rw'.spoke = rw.spoke,
             rw.pc \in SpokeSteps, rw'.pc \in RequestSteps,
             rw'.pc \notin {"clean", "release"}
      PROVE  CustodyInv'
  BY <1>0, <1>3 DEF PlacedAtHome, HeldWhileWorking, SweptBeforeRelease, NoOrphan,
                    SpokeSteps, RequestSteps
<1>4. CASE ReadHubSecret
  <2>1. CASE rw' = Idle
    BY <1>idle, <1>4, <2>1, SameHubKeepsCustody DEF ReadHubSecret, hubVars, spokeVars
  <2>2. CASE rw' # Idle
    BY <1>0, <1>3, <1>4, <2>2 DEF ReadHubSecret, Retry, RequestWorkers, SpokeSteps,
                              RequestSteps, hubVars, spokeVars
  <2> QED  BY <2>1, <2>2
<1>5. CASE CopySecret
  BY <1>0, <1>3, <1>5 DEF CopySecret, RequestWorkers, SpokeSteps, RequestSteps,
                          hubVars
<1>6. CASE Plan
  BY <1>0, <1>3, <1>6 DEF Plan, RequestWorkers, SpokeSteps, RequestSteps, hubVars,
                          spokeVars
<1>7. CASE Observe
  BY <1>0, <1>3, <1>7 DEF Observe, RequestWorkers, SpokeSteps, RequestSteps,
                          hubVars, spokeVars
<1>8. CASE CreateVM
  <2>1. PICK v : /\ v.at = rw.spoke /\ v.ns = rw.obj.tenant
                 /\ v.owner = rw.key /\ v.going = FALSE
                 /\ vms' \subseteq vms \cup {v}
    <3>1. PICK n \in NextCreate(rw.create) :
             LET v == [at |-> rw.spoke, ns |-> rw.obj.tenant, name |-> n,
                       owner |-> rw.key, ready |-> FALSE, going |-> FALSE]
             IN  IF \E u \in vms : KeyOf(u) = KeyOf(v)
                 THEN UNCHANGED <<vms, events>>
                 ELSE vms' = vms \cup {v} /\ events' = Notify({KeyOf(v)})
      BY <1>8 DEF CreateVM
    <3> DEFINE v == [at |-> rw.spoke, ns |-> rw.obj.tenant, name |-> n,
                     owner |-> rw.key, ready |-> FALSE, going |-> FALSE]
    <3>2. vms' \subseteq vms \cup {v}
      BY <3>1
    <3> QED  BY <3>2
  <2>2. /\ rw'.pc = "apply" /\ rw.pc = "apply" /\ rw'.key = rw.key
        /\ rw'.obj = rw.obj /\ rw'.spoke = rw.spoke
        /\ UNCHANGED <<hub, engaged>>
    BY <1>0, <1>8 DEF CreateVM, RequestWorkers, hubVars
  <2>3. rw.spoke # None /\ hub[rw.key].fin
    BY <2>2 DEF TypeInv, Equipped, HeldWhileWorking, SpokeSteps
  <2>4. PlacedAtHome'
    BY <1>home, <2>1, <2>2, <2>3 DEF PlacedAtHome, AtHome
  <2> QED
    BY <2>1, <2>2, <2>3, <2>4 DEF HeldWhileWorking, SweptBeforeRelease, NoOrphan
<1>9. CASE DeleteVM
  <2>1. PICK n : DeleteCall(n)
    BY <1>9 DEF DeleteVM
  <2>2. VMsOnlyFade
    BY <2>1, MarkGoingFades DEF DeleteCall, TypeInv
  <2>3. /\ rw'.pc = "apply" /\ rw.pc = "apply" /\ rw'.key = rw.key
        /\ rw'.obj = rw.obj /\ rw'.spoke = rw.spoke
        /\ UNCHANGED <<hub, engaged>>
    BY <1>0, <1>9, <2>1 DEF DeleteVM, DeleteCall, RequestWorkers, hubVars
  <2>4. PlacedAtHome'
    BY <2>2, <2>3 DEF PlacedAtHome, VMsOnlyFade
  <2> QED
    BY <2>2, <2>3, <2>4
       DEF HeldWhileWorking, SweptBeforeRelease, NoOrphan, VMsOnlyFade, SpokeSteps
<1>10. CASE Report
  <2>1. rw' = Idle /\ UNCHANGED <<vms, engaged>>
    BY <1>10 DEF Report, spokeVars
  <2>2. HubKeepsCustody
    BY <1>0, <1>10, PatchKeepsCustody, SameHubKeepsCustody DEF Report
  <2> QED  BY <1>idle, <2>1, <2>2
<1>11. CASE Sweep
  <2>1. /\ rw'.pc = "clean" /\ rw.pc = "sweep" /\ rw'.key = rw.key
        /\ rw'.obj = rw.obj /\ rw'.spoke = rw.spoke
        /\ rw'.delete = NamesIn(Owned(rw.spoke, rw.obj.tenant, rw.key))
        /\ UNCHANGED <<hub, vms, engaged>>
    BY <1>0, <1>11 DEF Sweep, RequestWorkers, hubVars, spokeVars
  <2>2. rw.spoke = rw.obj.region
    BY <2>1 DEF TypeInv, Equipped, SpokeSteps, PlacedAtHome
  <2>3. PlacedAtHome' /\ HeldWhileWorking' /\ NoOrphan'
    BY <2>1 DEF PlacedAtHome, HeldWhileWorking, NoOrphan, SpokeSteps
  <2>4. \A v \in vms : v.owner = rw.key => v.name \in rw'.delete
    BY <1>home, <2>1, <2>2 DEF PlacedAtHome, AtHome, NamesIn, Owned
  <2> QED  BY <2>1, <2>3, <2>4 DEF SweptBeforeRelease
<1>12. CASE CleanVM
  <2>1. PICK n : DeleteCall(n)
    BY <1>12 DEF CleanVM
  <2>2. VMsOnlyFade
    BY <2>1, MarkGoingFades DEF DeleteCall, TypeInv
  <2>3. /\ rw'.pc = "clean" /\ rw.pc = "clean" /\ rw'.key = rw.key
        /\ rw'.obj = rw.obj /\ rw'.spoke = rw.spoke
        /\ rw'.delete = rw.delete \ {n}
        /\ UNCHANGED <<hub, engaged>>
    BY <1>0, <1>12, <2>1 DEF CleanVM, DeleteCall, RequestWorkers, hubVars
  <2>4. rw.spoke = rw.obj.region
    BY <2>3 DEF TypeInv, Equipped, SpokeSteps, PlacedAtHome
  <2>5. PlacedAtHome' /\ HeldWhileWorking' /\ NoOrphan'
    BY <2>2, <2>3
       DEF PlacedAtHome, VMsOnlyFade, HeldWhileWorking, NoOrphan, SpokeSteps
  <2>6. \A w \in vms' : w.owner = rw.key /\ w.name = n => w.going
    <3>1. \A v \in vms :
             v.owner = rw.key /\ v.name = n =>
                KeyOf(v) = [at |-> rw.spoke, ns |-> rw.obj.tenant, name |-> n]
      BY <1>home, <2>4 DEF KeyOf, PlacedAtHome, AtHome
    <3>2. \A v \in vms : LET w == [v EXCEPT !.going = TRUE]
                         IN  w.owner = v.owner /\ w.name = v.name /\ w.going
      BY DEF TypeInv, TypeOK, VMs
    <3> QED  BY <2>1, <3>1, <3>2 DEF DeleteCall, MarkGoing
  <2>7. SweptBeforeRelease'
    BY <2>2, <2>3, <2>6 DEF SweptBeforeRelease, VMsOnlyFade
  <2> QED  BY <2>5, <2>7
<1>13. CASE CleanSecret
  <2>1. /\ rw'.pc = "release" /\ rw.pc = "clean" /\ rw'.key = rw.key
        /\ rw'.obj = rw.obj /\ rw'.spoke = rw.spoke /\ rw.delete = {}
        /\ UNCHANGED <<hub, vms, engaged>>
    BY <1>0, <1>13 DEF CleanSecret, RequestWorkers, hubVars
  <2> QED
    BY <2>1 DEF PlacedAtHome, HeldWhileWorking, SweptBeforeRelease, NoOrphan,
                SpokeSteps
<1>14. CASE Release
  <2>1. rw' = Idle /\ UNCHANGED <<vms, engaged>> /\ rw.pc = "release"
        /\ hub' = [hub EXCEPT ![rw.key] = Absent]
    BY <1>14 DEF Release, spokeVars
  <2>2. PlacedAtHome' /\ HeldWhileWorking' /\ SweptBeforeRelease'
    BY <1>0, <2>1 DEF PlacedAtHome, HeldWhileWorking, SweptBeforeRelease, Idle,
                      SpokeSteps, Absent, TypeInv, TypeOK
  <2>3. NoOrphan'
    BY <1>0, <2>1 DEF NoOrphan, SweptBeforeRelease, TypeInv, TypeOK, VMs
  <2> QED  BY <2>2, <2>3
<1> QED
  BY <1>1, <1>2, <1>4, <1>5, <1>6, <1>7, <1>8, <1>9, <1>10, <1>11, <1>12, <1>13,
     <1>14 DEF RequestStep

\* Everything else that happens while the spokes stay engaged.
LEMMA OtherStepsCustody ==
    ASSUME TypeInv, CustodyInv,
           \/ \E r \in Requests : Tick(r) \/ Order(r) \/ Scale(r) \/ Delete(r)
           \/ \E ns \in HubNamespaces, name \in SecretNames :
                 RewriteSecret(ns, name)
           \/ StatusStep \/ KubeVirt
           \/ RequestCallFails \/ StatusCallFails
           \/ \E v \in vms : Stopped(v) \/ DeletedOutOfBand(v)
           \/ Restart(engaged)
    PROVE  CustodyInv'
<1>0. PlacedAtHome /\ TypeOK
  BY DEF CustodyInv, TypeInv
<1>1. ASSUME UNCHANGED <<hub, vms, engaged>>, rw' = Idle \/ UNCHANGED rw
      PROVE  CustodyInv'
  BY <1>1 DEF CustodyInv, PlacedAtHome, HeldWhileWorking, SweptBeforeRelease,
              NoOrphan, Idle, SpokeSteps
<1>2. ASSUME NEW r \in Requests, NEW o, Write(r, o), Change,
             hub[r].fin => o.fin, o.phase # "absent" => AtHome(o, r)
      PROVE  CustodyInv'
  <2>1. HubKeepsCustody
    BY <1>0, <1>2, OneWriteKeepsCustody DEF Write
  <2> QED
    BY <1>2, <2>1, SameVMsFade, SurroundingsKeepCustody DEF Change, spokeVars
<1>3. ASSUME NEW r \in Requests, hub[r].phase # "absent"
      PROVE  hub[r] \in Objects /\ AtHome(hub[r], r)
  BY <1>0, <1>3 DEF TypeOK, Absent, PlacedAtHome
<1>4. ASSUME NEW r \in Requests, Order(r)
      PROVE  CustodyInv'
  <2>1. hub[r] = Absent
    BY <1>0, <1>4 DEF Order, TypeOK, Objects
  <2>2. PICK n \in Replicas :
           Write(r, [phase |-> "live", fin |-> FALSE, tenant |-> Home[r].tenant,
                     region |-> Home[r].region, replicas |-> n,
                     secret |-> Home[r].secret, status |-> None])
    BY <1>4 DEF Order
  <2> QED  BY <1>2, <1>4, <2>1, <2>2 DEF Order, Absent, AtHome
<1>5. ASSUME NEW r \in Requests, Scale(r)
      PROVE  CustodyInv'
  <2>1. hub[r] \in Objects /\ AtHome(hub[r], r)
    BY <1>3, <1>5 DEF Scale
  <2>2. PICK n \in Replicas : Write(r, [hub[r] EXCEPT !.replicas = n])
    BY <1>5 DEF Scale
  <2>3. LET o == [hub[r] EXCEPT !.replicas = n]
        IN  o.fin = hub[r].fin /\ AtHome(o, r)
    BY <2>1 DEF Objects, AtHome
  <2> QED  BY <1>2, <1>5, <2>2, <2>3 DEF Scale
<1>6. ASSUME NEW r \in Requests, Delete(r)
      PROVE  CustodyInv'
  <2>1. hub[r] \in Objects /\ AtHome(hub[r], r)
    BY <1>3, <1>6 DEF Delete
  <2>2. LET o == [hub[r] EXCEPT !.phase = "deleting"]
        IN  o.fin = hub[r].fin /\ AtHome(o, r)
    BY <2>1 DEF Objects, AtHome
  <2>3. CASE hub[r].fin
    BY <1>2, <1>6, <2>2, <2>3 DEF Delete
  <2>4. CASE ~hub[r].fin
    BY <1>2, <1>6, <2>4 DEF Delete, Absent
  <2> QED  BY <2>3, <2>4
<1>7. ASSUME NEW r \in Requests, Tick(r)
      PROVE  CustodyInv'
  BY <1>1, <1>7 DEF Tick, hubVars, spokeVars
<1>8. ASSUME NEW ns \in HubNamespaces, NEW name \in SecretNames,
             RewriteSecret(ns, name)
      PROVE  CustodyInv'
  BY <1>1, <1>8 DEF RewriteSecret, Change, spokeVars
<1>9. CASE StatusStep
  <2>1. CASE ReportForStatus
    <3>1. sw \in StatusWorkers
      BY <1>0, <2>1 DEF ReportForStatus, TypeOK, Idle
    <3>2. HubKeepsCustody
      BY <1>0, <2>1, <3>1, PatchKeepsCustody, SameHubKeepsCustody
         DEF ReportForStatus, StatusWorkers
    <3> QED
      BY <2>1, <3>2, SameVMsFade, SurroundingsKeepCustody
         DEF ReportForStatus, spokeVars
  <2>2. CASE ObserveForStatus \/ \E k \in VMKeys : FetchVM(k)
    BY <1>1, <2>2 DEF ObserveForStatus, FetchVM, hubVars, spokeVars
  <2> QED  BY <1>9, <2>1, <2>2 DEF StatusStep
<1>10. CASE KubeVirt
  <2>1. VMsOnlyFade
    <3>1. ASSUME NEW v \in vms, Started(v)
          PROVE  VMsOnlyFade
      BY <1>0, <3>1, SetReadyFades DEF Started
    <3>2. ASSUME NEW v \in vms, Terminated(v)
          PROVE  VMsOnlyFade
      BY <3>2 DEF Terminated, VMsOnlyFade
    <3> QED  BY <1>10, <3>1, <3>2 DEF KubeVirt
  <2>2. UNCHANGED <<hub, engaged, rw>>
    BY <1>10 DEF KubeVirt, Started, Terminated, hubVars
  <2> QED
    BY <1>0, <2>1, <2>2, SameHubKeepsCustody, SurroundingsKeepCustody
<1>11. CASE RequestCallFails \/ StatusCallFails \/ Restart(engaged)
  BY <1>1, <1>11 DEF RequestCallFails, StatusCallFails, Restart, Retry, Fault,
                     hubVars
<1>12. ASSUME NEW v \in vms, Stopped(v) \/ DeletedOutOfBand(v)
       PROVE  CustodyInv'
  <2>1. VMsOnlyFade
    BY <1>0, <1>12, SetReadyFades, MarkGoingFades DEF Stopped, DeletedOutOfBand
  <2>2. UNCHANGED <<hub, engaged, rw>>
    BY <1>12 DEF Stopped, DeletedOutOfBand, Fault, hubVars
  <2> QED
    BY <1>0, <2>1, <2>2, SameHubKeepsCustody, SurroundingsKeepCustody
<1> QED
  BY <1>4, <1>5, <1>6, <1>7, <1>8, <1>9, <1>10, <1>11, <1>12

LEMMA CustodyStep ==
    ASSUME TypeInv, CustodyInv, [SteadyNext]_vars
    PROVE  CustodyInv'
<1>1. CASE UNCHANGED vars
  BY <1>1 DEF vars, CustodyInv, PlacedAtHome, HeldWhileWorking,
              SweptBeforeRelease, NoOrphan
<1>2. CASE SteadyNext
  BY <1>2, FetchCustody, RequestStepCustody, OtherStepsCustody
     DEF SteadyNext, Steady
<1> QED  BY <1>1, <1>2

(***************************************************************************)
(* While the served spokes stay engaged and requests keep the placement    *)
(* Kro wrote, no VM ever runs without a request that holds its finalizer:  *)
(* for any number of requests, replicas, spokes, failed calls and          *)
(* restarts.                                                               *)
(***************************************************************************)
THEOREM NoOrphans == SteadySpec => []NoOrphan
<1>1. SteadyInit => TypeInv /\ CustodyInv
  <2>1. SteadyInit => TypeInv
    BY InitType, VmBindingAssumption DEF SteadyInit
  <2>2. SteadyInit => CustodyInv
    BY DEF SteadyInit, InitWith, CustodyInv, PlacedAtHome, HeldWhileWorking,
           SweptBeforeRelease, NoOrphan, Idle, Absent, SpokeSteps
  <2> QED  BY <2>1, <2>2
<1>2. TypeInv /\ CustodyInv /\ [SteadyNext]_vars => TypeInv' /\ CustodyInv'
  BY StepType, CustodyStep
<1>3. CustodyInv => NoOrphan
  BY DEF CustodyInv
<1> QED  BY <1>1, <1>2, <1>3, PTL DEF SteadySpec
=============================================================================
