--------------------------- MODULE VmSafetyProofs ---------------------------
(***************************************************************************)
(* What the steps of VmBinding may never do, for every value of its        *)
(* constants: the order in which a VM is created, whose VMs are deleted,   *)
(* what a released request leaves behind, and that the controller          *)
(* implements Custody.                                                     *)
(***************************************************************************)
EXTENDS VmBindingProofs

-----------------------------------------------------------------------------
(* VMs are known by their keys. *)

\* Marking VMs, and changing whether one is ready, keeps keys unique.
LEMMA MarkGoingKeepsUnique ==
    ASSUME TypeOK, UniqueVMs, NEW keys, MarkGoing(keys)
    PROVE  UniqueVMs'
<1> DEFINE marked(v) == IF KeyOf(v) \in keys THEN [v EXCEPT !.going = TRUE] ELSE v
<1>1. \A v \in vms : KeyOf(marked(v)) = KeyOf(v)
  BY DEF TypeOK, VMs, KeyOf
<1>2. vms' = {marked(v) : v \in vms}
  BY DEF MarkGoing
<1> HIDE DEF marked
<1> QED  BY <1>1, <1>2 DEF UniqueVMs

LEMMA SetReadyKeepsUnique ==
    ASSUME TypeOK, UniqueVMs, NEW v \in vms, NEW ready \in BOOLEAN,
           SetReady(v, ready)
    PROVE  UniqueVMs'
<1> DEFINE w == [v EXCEPT !.ready = ready]
<1>1. KeyOf(w) = KeyOf(v)
  BY DEF TypeOK, VMs, KeyOf
<1>2. vms' = (vms \ {v}) \cup {w}
  BY DEF SetReady
<1> HIDE DEF w
<1> QED  BY <1>1, <1>2 DEF UniqueVMs

\* Create leaves a VM that has the name alone.
LEMMA CreateVMCreates ==
    ASSUME TypeInv, CreateVM
    PROVE  \/ UNCHANGED vms
           \/ \E v \in VMs :
                 /\ v.at = rw.spoke /\ v.ns = rw.obj.tenant
                 /\ v.owner = rw.key /\ v.name \in rw.create /\ ~v.going
                 /\ \A u \in vms : KeyOf(u) # KeyOf(v)
                 /\ vms' = vms \cup {v}
<1>1. PICK n \in NextCreate(rw.create) :
         LET v == [at |-> rw.spoke, ns |-> rw.obj.tenant, name |-> n,
                   owner |-> rw.key, ready |-> FALSE, going |-> FALSE]
         IN  IF \E u \in vms : KeyOf(u) = KeyOf(v)
             THEN UNCHANGED <<vms, events>>
             ELSE vms' = vms \cup {v} /\ events' = Notify({KeyOf(v)})
  BY DEF CreateVM
<1> DEFINE v == [at |-> rw.spoke, ns |-> rw.obj.tenant, name |-> n,
                 owner |-> rw.key, ready |-> FALSE, going |-> FALSE]
<1>2. CASE \E u \in vms : KeyOf(u) = KeyOf(v)
  BY <1>1, <1>2
<1>3. CASE ~\E u \in vms : KeyOf(u) = KeyOf(v)
  <2>1. vms' = vms \cup {v}
    BY <1>1, <1>3
  <2>2. vms' \subseteq VMs
    BY StepType DEF TypeInv, TypeOK, Next, Steady, RequestStep
  <2>3. v \in VMs /\ n \in rw.create
    BY <2>1, <2>2 DEF NextCreate
  <2>4. /\ v.at = rw.spoke /\ v.ns = rw.obj.tenant /\ v.owner = rw.key
        /\ v.name = n /\ v.going = FALSE
    OBVIOUS
  <2> HIDE DEF v
  <2> QED  BY <1>3, <2>1, <2>3, <2>4
<1> QED  BY <1>2, <1>3

AnyStep == [Next \/ SteadyNext]_vars

\* Every other step lets VMs fade at most.
LEMMA OnlyCreateVMCreates ==
    ASSUME TypeOK, UniqueVMs, AnyStep
    PROVE  CreateVM \/ (VMsOnlyFade /\ UniqueVMs')
<1>1. ASSUME UNCHANGED vms
      PROVE  VMsOnlyFade /\ UniqueVMs'
  BY <1>1, SameVMsFade DEF UniqueVMs
<1>2. ASSUME NEW keys, MarkGoing(keys)
      PROVE  VMsOnlyFade /\ UniqueVMs'
  BY <1>2, MarkGoingFades, MarkGoingKeepsUnique
<1>3. ASSUME NEW v \in vms, NEW ready \in BOOLEAN, SetReady(v, ready)
      PROVE  VMsOnlyFade /\ UniqueVMs'
  BY <1>3, SetReadyFades, SetReadyKeepsUnique
<1>4. CASE RequestStep
  <2>1. CASE DeleteVM \/ CleanVM
    BY <1>2, <2>1 DEF DeleteVM, CleanVM, DeleteCall
  <2>2. CASE ~(DeleteVM \/ CleanVM)
    BY <1>1, <1>4, <2>2
       DEF RequestStep, AddFinalizer, Resolve, ReadHubSecret, CopySecret, Plan,
           Observe, Report, Sweep, CleanSecret, Release, spokeVars
  <2> QED  BY <2>1, <2>2
<1>5. CASE StatusStep
  BY <1>1, <1>5 DEF StatusStep, FetchVM, ObserveForStatus, ReportForStatus,
                    spokeVars
<1>6. CASE KubeVirt
  <2>1. ASSUME NEW v \in vms, Terminated(v)
        PROVE  VMsOnlyFade /\ UniqueVMs'
    BY <2>1 DEF Terminated, VMsOnlyFade, UniqueVMs
  <2>2. ASSUME NEW v \in vms, Started(v)
        PROVE  VMsOnlyFade /\ UniqueVMs'
    BY <1>3, <2>2 DEF Started
  <2> QED  BY <1>6, <2>1, <2>2 DEF KubeVirt
<1>7. CASE \/ \E r \in Requests : \/ Fetch(r) \/ Tick(r) \/ Order(r) \/ Scale(r)
                                  \/ Delete(r) \/ Edit(r)
           \/ \E ns \in HubNamespaces, name \in SecretNames :
                 RewriteSecret(ns, name)
  BY <1>1, <1>7 DEF Fetch, Tick, Order, Scale, Delete, Edit, RewriteSecret,
                    Change, spokeVars
<1>8. CASE RequestCallFails \/ StatusCallFails \/ Restart({}) \/ Restart(engaged)
              \/ \E g \in Regions : Engage(g) \/ Disengage(g)
  BY <1>1, <1>8 DEF RequestCallFails, StatusCallFails, Restart, Engage, Disengage,
                    spokeVars
<1>9. ASSUME NEW v \in vms, Stopped(v) \/ DeletedOutOfBand(v)
      PROVE  VMsOnlyFade /\ UniqueVMs'
  BY <1>2, <1>3, <1>9 DEF Stopped, DeletedOutOfBand
<1>10. CASE UNCHANGED vars
  BY <1>1, <1>10 DEF vars
<1> QED
  BY <1>4, <1>5, <1>6, <1>7, <1>8, <1>9, <1>10
     DEF AnyStep, Next, SteadyNext, Steady

\* Creating keeps keys unique too.
LEMMA UniqueStep ==
    ASSUME TypeInv, UniqueVMs, AnyStep
    PROVE  UniqueVMs'
<1>1. CASE CreateVM
  BY <1>1, CreateVMCreates DEF UniqueVMs
<1> QED  BY <1>1, OnlyCreateVMCreates DEF TypeInv

-----------------------------------------------------------------------------
(* What one worker has done, nobody else undoes. *)

FinalizersStay == \A r \in Requests : hub[r].fin => hub'[r].fin

\* One object written anew.
LEMMA WriteKeepsFinalizers ==
    ASSUME TypeOK, NEW r \in Requests, NEW o, hub' = [hub EXCEPT ![r] = o],
           hub[r].fin => o.fin
    PROVE  FinalizersStay
BY DEF TypeOK, FinalizersStay

LEMMA PatchKeepsFinalizers ==
    ASSUME TypeOK, NEW r \in Requests, NEW s, Patch(r, s),
           hub[r].phase # "absent"
    PROVE  FinalizersStay
<1>1. hub[r] \in Objects
  BY DEF TypeOK, Absent
<1>2. [hub[r] EXCEPT !.status = s].fin = hub[r].fin
  BY <1>1 DEF Objects
<1> QED  BY <1>2, WriteKeepsFinalizers DEF Patch

\* What users write has the finalizer the object had.
LEMMA UsersKeepFinalizers ==
    ASSUME TypeOK, NEW r \in Requests,
           Order(r) \/ Scale(r) \/ Delete(r) \/ Edit(r)
    PROVE  FinalizersStay
<1>1. CASE Order(r)
  <2>1. ~hub[r].fin
    BY <1>1 DEF Order, TypeOK, Objects, Absent
  <2>2. PICK o : hub' = [hub EXCEPT ![r] = o]
    BY <1>1 DEF Order, Write
  <2> QED  BY <2>1, <2>2, WriteKeepsFinalizers
<1>2. ASSUME hub[r].phase # "absent"
      PROVE  hub[r] \in Objects
  BY <1>2 DEF TypeOK, Absent
<1>3. ASSUME NEW o, Write(r, o), o.fin = hub[r].fin
      PROVE  FinalizersStay
  BY <1>3, WriteKeepsFinalizers DEF Write
<1>4. CASE Scale(r)
  <2>1. hub[r] \in Objects
    BY <1>2, <1>4 DEF Scale
  <2>2. \A n : [hub[r] EXCEPT !.replicas = n].fin = hub[r].fin
    BY <2>1 DEF Objects
  <2> QED  BY <1>3, <1>4, <2>2 DEF Scale
<1>5. CASE Delete(r)
  <2>1. hub[r] \in Objects
    BY <1>2, <1>5 DEF Delete
  <2>2. [hub[r] EXCEPT !.phase = "deleting"].fin = hub[r].fin
    BY <2>1 DEF Objects
  <2>3. CASE hub[r].fin
    BY <1>3, <1>5, <2>2, <2>3 DEF Delete
  <2>4. CASE ~hub[r].fin
    BY <1>5, <2>4, WriteKeepsFinalizers DEF Delete, Write
  <2> QED  BY <2>3, <2>4
<1>6. CASE Edit(r)
  <2>1. hub[r] \in Objects
    BY <1>2, <1>6 DEF Edit
  <2>2. /\ \A t : [hub[r] EXCEPT !.tenant = t].fin = hub[r].fin
        /\ \A g : [hub[r] EXCEPT !.region = g].fin = hub[r].fin
        /\ \A s : [hub[r] EXCEPT !.secret = s].fin = hub[r].fin
    BY <2>1 DEF Objects
  <2> QED  BY <1>3, <1>6, <2>2 DEF Edit
<1> QED  BY <1>1, <1>4, <1>5, <1>6

\* Only the request worker's release takes a finalizer away.
LEMMA OnlyReleaseReleases ==
    ASSUME TypeOK, AnyStep
    PROVE  Release \/ FinalizersStay
<1>1. ASSUME UNCHANGED hub
      PROVE  FinalizersStay
  BY <1>1 DEF FinalizersStay
<1>2. CASE RequestStep /\ ~Release
  <2>0. rw \in RequestWorkers
    BY <1>2 DEF TypeOK, RequestStep, AddFinalizer, Resolve, ReadHubSecret,
               CopySecret, Plan, CreateVM, DeleteVM, Observe, Report, Sweep,
               CleanVM, CleanSecret, Release, Idle
  <2>1. CASE AddFinalizer /\ hub[rw.key].phase = "live"
    <3>1. hub[rw.key] \in Objects
      BY <2>0, <2>1 DEF TypeOK, RequestWorkers, Absent
    <3>2. [hub[rw.key] EXCEPT !.fin = TRUE].fin
      BY <3>1 DEF Objects
    <3>3. hub' = [hub EXCEPT ![rw.key] = [hub[rw.key] EXCEPT !.fin = TRUE]]
      BY <2>1 DEF AddFinalizer
    <3> QED  BY <2>0, <3>2, <3>3, WriteKeepsFinalizers DEF RequestWorkers
  <2>2. CASE AddFinalizer /\ hub[rw.key].phase # "live"
    BY <1>1, <2>2 DEF AddFinalizer
  <2>3. CASE Report
    BY <1>1, <2>0, <2>3, PatchKeepsFinalizers DEF Report, RequestWorkers
  <2>4. CASE ~(AddFinalizer \/ Report)
    BY <1>1, <1>2, <2>4
       DEF RequestStep, Resolve, ReadHubSecret, CopySecret, Plan, CreateVM,
           DeleteVM, DeleteCall, Observe, Sweep, CleanVM, CleanSecret, hubVars
  <2> QED  BY <2>1, <2>2, <2>3, <2>4
<1>3. CASE StatusStep
  <2>1. CASE ReportForStatus
    <3>1. sw \in StatusWorkers
      BY <2>1 DEF ReportForStatus, TypeOK, Idle
    <3> QED
      BY <1>1, <2>1, <3>1, PatchKeepsFinalizers DEF ReportForStatus, StatusWorkers
  <2> QED  BY <1>1, <1>3, <2>1 DEF StatusStep, FetchVM, ObserveForStatus, hubVars
<1>4. CASE KubeVirt
  BY <1>1, <1>4 DEF KubeVirt, Started, Terminated, hubVars
<1>5. CASE \E r \in Requests : Order(r) \/ Scale(r) \/ Delete(r) \/ Edit(r)
  BY <1>5, UsersKeepFinalizers
<1>6. CASE \/ \E r \in Requests : Fetch(r) \/ Tick(r)
           \/ \E ns \in HubNamespaces, name \in SecretNames :
                 RewriteSecret(ns, name)
  BY <1>1, <1>6 DEF Fetch, Tick, RewriteSecret, hubVars
<1>7. CASE \/ RequestCallFails \/ StatusCallFails
           \/ Restart({}) \/ Restart(engaged)
           \/ \E g \in Regions : Engage(g) \/ Disengage(g)
           \/ \E v \in vms : Stopped(v) \/ DeletedOutOfBand(v)
  BY <1>1, <1>7 DEF RequestCallFails, StatusCallFails, Restart, Engage, Disengage,
                    Stopped, DeletedOutOfBand, Fault, hubVars
<1>8. CASE UNCHANGED vars
  BY <1>1, <1>8 DEF vars
<1> QED
  BY <1>2, <1>3, <1>4, <1>5, <1>6, <1>7, <1>8
     DEF AnyStep, Next, SteadyNext, Steady

\* Only the request worker moves itself on, and writes Secrets on spokes; what
\* others can do to it is to make it start again.
LEMMA OthersLeaveTheWorker ==
    ASSUME AnyStep, ~RequestStep, \A r \in Requests : ~Fetch(r)
    PROVE  UNCHANGED spokeSecrets /\ (rw' = Idle \/ UNCHANGED rw)
<1>1. CASE StatusStep \/ KubeVirt
  BY <1>1 DEF StatusStep, FetchVM, ObserveForStatus, ReportForStatus, KubeVirt,
              Started, Terminated, spokeVars
<1>2. CASE \/ \E r \in Requests : \/ Tick(r) \/ Order(r) \/ Scale(r)
                                  \/ Delete(r) \/ Edit(r)
           \/ \E ns \in HubNamespaces, name \in SecretNames :
                 RewriteSecret(ns, name)
  BY <1>2 DEF Tick, Order, Scale, Delete, Edit, RewriteSecret, Change, spokeVars
<1>3. CASE \/ RequestCallFails \/ StatusCallFails
           \/ Restart({}) \/ Restart(engaged)
           \/ \E g \in Regions : Engage(g) \/ Disengage(g)
           \/ \E v \in vms : Stopped(v) \/ DeletedOutOfBand(v)
  BY <1>3 DEF RequestCallFails, StatusCallFails, Restart, Retry, Engage,
              Disengage, Stopped, DeletedOutOfBand, Fault, spokeVars
<1>4. CASE UNCHANGED vars
  BY <1>4 DEF vars
<1> QED  BY <1>1, <1>2, <1>3, <1>4 DEF AnyStep, Next, SteadyNext, Steady

-----------------------------------------------------------------------------
(* The order of Reconcile, whatever is edited or lost meanwhile. *)

\* Steps around the request worker, and a worker that starts again.
LEMMA SurroundingsKeepOrder ==
    ASSUME TypeInv, OrderInv, UniqueVMs', VMsOnlyFade, FinalizersStay,
           UNCHANGED spokeSecrets, rw' = Idle \/ UNCHANGED rw
    PROVE  OrderInv'
<1> USE DEF OrderInv
<1>1. CASE rw' = Idle
  BY <1>1 DEF Idle, HeldWhileWorking, DeletesAreOwn, SecretCopied, SpokeCleaned,
              SpokeSteps
<1>2. CASE UNCHANGED rw
  <2>1. HeldWhileWorking'
    <3>1. rw.pc # "idle" => rw.key \in Requests
      BY DEF TypeInv, TypeOK, RequestWorkers, Idle
    <3> QED
      BY <1>2, <3>1 DEF HeldWhileWorking, FinalizersStay, SpokeSteps
  <2>2. DeletesAreOwn' /\ SecretCopied'
    BY <1>2 DEF DeletesAreOwn, SecretCopied, VMsOnlyFade
  <2>3. SpokeCleaned'
    BY <1>2 DEF SpokeCleaned, VMsOnlyFade, Owned
  <2> QED  BY <2>1, <2>2, <2>3
<1> QED  BY <1>1, <1>2

\* A request is worked on only as it holds its finalizer.
LEMMA FetchOrder ==
    ASSUME TypeInv, OrderInv, NEW r \in Requests, Fetch(r)
    PROVE  OrderInv'
<1> USE DEF OrderInv
<1>1. UNCHANGED <<hub, vms, spokeSecrets>>
  BY DEF Fetch, hubVars, spokeVars
<1>2. UniqueVMs'
  BY <1>1 DEF UniqueVMs
<1>3. CASE Start(hub[r]) = "idle"
  <2>1. rw' = Idle
    BY <1>3 DEF Fetch
  <2> QED
    BY <1>2, <2>1 DEF Idle, HeldWhileWorking, DeletesAreOwn, SecretCopied,
                      SpokeCleaned, SpokeSteps
<1>4. CASE Start(hub[r]) # "idle"
  <2>1. hub[r] \in Objects
    BY <1>4 DEF Start, Absent, TypeInv, TypeOK
  <2>2. Start(hub[r]) \in {"guard", "resolve", "report", "release"}
    BY <1>4, <2>1 DEF Start, Objects
  <2>3. Start(hub[r]) \in {"resolve", "release"} => hub[r].fin
    BY <2>1 DEF Start, Objects
  <2>4. rw'.pc = Start(hub[r]) /\ rw'.key = r /\ rw'.spoke = None
    BY <1>4 DEF Fetch
  <2> QED
    BY <1>1, <1>2, <2>2, <2>3, <2>4
       DEF HeldWhileWorking, DeletesAreOwn, SecretCopied, SpokeCleaned, SpokeSteps
<1> QED  BY <1>3, <1>4

\* A delete call, of syncVMs or of cleanSpoke.
LEMMA DeleteCallOrder ==
    ASSUME TypeInv, OrderInv, AnyStep, NEW n, DeleteCall(n),
           rw.pc \in {"apply", "clean"}
    PROVE  OrderInv'
<1> USE DEF OrderInv
<1>0. rw \in RequestWorkers
  BY DEF TypeInv, TypeOK, Idle
<1>1. /\ rw'.pc = rw.pc /\ rw'.key = rw.key /\ rw'.obj = rw.obj
      /\ rw'.spoke = rw.spoke /\ rw'.create = rw.create
      /\ rw'.delete = rw.delete \ {n}
      /\ UNCHANGED <<hub, spokeSecrets>>
  BY <1>0 DEF DeleteCall, RequestWorkers, hubVars
<1>2. VMsOnlyFade /\ UniqueVMs'
  BY MarkGoingFades, MarkGoingKeepsUnique DEF DeleteCall, TypeInv
<1>3. HeldWhileWorking' /\ SecretCopied'
  BY <1>1 DEF HeldWhileWorking, SecretCopied
<1>4. DeletesAreOwn'
  BY <1>1, <1>2 DEF DeletesAreOwn, VMsOnlyFade
<1>5. \A w \in vms' :
         w.at = rw.spoke /\ w.ns = rw.obj.tenant /\ w.name = n => w.going
  <2>1. \A v \in vms :
           v.at = rw.spoke /\ v.ns = rw.obj.tenant /\ v.name = n =>
              KeyOf(v) = [at |-> rw.spoke, ns |-> rw.obj.tenant, name |-> n]
    BY DEF KeyOf
  <2>2. \A v \in vms : LET w == [v EXCEPT !.going = TRUE]
                       IN  /\ w.at = v.at /\ w.ns = v.ns /\ w.name = v.name
                           /\ w.going
    BY DEF TypeInv, TypeOK, VMs
  <2>3. SUFFICES ASSUME NEW w \in vms', w.at = rw.spoke, w.ns = rw.obj.tenant,
                        w.name = n
                 PROVE  w.going
    OBVIOUS
  <2> DEFINE gone == [at |-> rw.spoke, ns |-> rw.obj.tenant, name |-> n]
  <2>4. PICK v \in vms :
           w = IF KeyOf(v) \in {gone} THEN [v EXCEPT !.going = TRUE] ELSE v
    BY DEF DeleteCall, MarkGoing
  <2>5. CASE KeyOf(v) = gone
    BY <2>2, <2>4, <2>5
  <2>6. CASE KeyOf(v) # gone
    BY <2>1, <2>3, <2>4, <2>6
  <2> QED  BY <2>5, <2>6
<1>6. SpokeCleaned'
  BY <1>1, <1>2, <1>5 DEF SpokeCleaned, VMsOnlyFade, Owned
<1> QED  BY <1>2, <1>3, <1>4, <1>6

\* The request worker's own steps.
LEMMA RequestStepOrder ==
    ASSUME TypeInv, OrderInv, RequestStep, AnyStep
    PROVE  OrderInv'
<1> USE DEF OrderInv
<1>0. rw \in RequestWorkers /\ rw.key \in Requests
  BY DEF TypeInv, TypeOK, RequestStep, AddFinalizer, Resolve, ReadHubSecret,
         CopySecret, Plan, CreateVM, DeleteVM, Observe, Report, Sweep, CleanVM,
         CleanSecret, Release, Idle, RequestWorkers
<1>unique. UniqueVMs'
  BY UniqueStep
<1>idle. ASSUME UNCHANGED vms, rw' = Idle, UNCHANGED spokeSecrets
         PROVE  OrderInv'
  BY <1>unique, <1>idle DEF Idle, HeldWhileWorking, DeletesAreOwn, SecretCopied,
                            SpokeCleaned, SpokeSteps
<1>1. CASE AddFinalizer
  <2>1. CASE hub[rw.key].phase = "live"
    <3>1. hub[rw.key] \in Objects
      BY <1>0, <2>1 DEF TypeInv, TypeOK, Absent
    <3>2. [hub[rw.key] EXCEPT !.fin = TRUE].fin
      BY <3>1 DEF Objects
    <3>3. hub' = [hub EXCEPT ![rw.key] = [hub[rw.key] EXCEPT !.fin = TRUE]]
      BY <1>1, <2>1 DEF AddFinalizer
    <3>4. hub'[rw.key].fin
      BY <1>0, <3>2, <3>3 DEF TypeInv, TypeOK
    <3>5. rw'.pc = "resolve" /\ rw'.key = rw.key /\ rw'.spoke = rw.spoke
      BY <1>0, <1>1, <2>1 DEF AddFinalizer, RequestWorkers
    <3> QED
      BY <1>unique, <1>1, <3>4, <3>5
         DEF AddFinalizer, HeldWhileWorking, DeletesAreOwn, SecretCopied,
             SpokeCleaned
  <2>2. CASE hub[rw.key].phase # "live"
    BY <1>idle, <1>1, <2>2 DEF AddFinalizer, Retry, spokeVars
  <2> QED  BY <2>1, <2>2
<1>2. CASE Resolve
  <2>1. UNCHANGED hub /\ rw'.key = rw.key /\ rw.pc = "resolve"
    BY <1>0, <1>2 DEF Resolve, RequestWorkers, hubVars
  <2>2. /\ rw'.pc \in {"sweep", "secret", "release", "report"}
        /\ rw'.pc = "release" => rw'.spoke = rw.spoke
    BY <1>0, <1>2 DEF Resolve, RequestWorkers
  <2> QED
    BY <1>unique, <2>1, <2>2 DEF HeldWhileWorking, DeletesAreOwn, SecretCopied,
                                 SpokeCleaned
<1>3. CASE ReadHubSecret
  <2>1. CASE rw' = Idle
    BY <1>idle, <1>3, <2>1 DEF ReadHubSecret, spokeVars
  <2>2. CASE rw' # Idle
    <3>1. /\ rw'.pc = "copy" /\ rw'.key = rw.key /\ rw.pc = "secret"
          /\ UNCHANGED hub
      BY <1>0, <1>3, <2>2 DEF ReadHubSecret, Retry, RequestWorkers, hubVars
    <3> QED
      BY <1>unique, <3>1 DEF HeldWhileWorking, DeletesAreOwn, SecretCopied,
                             SpokeCleaned, SpokeSteps
  <2> QED  BY <2>1, <2>2
<1>4. CASE CopySecret
  <2> DEFINE copy == [at |-> rw.spoke, ns |-> rw.obj.tenant,
                      name |-> rw.obj.secret, data |-> rw.data]
  <2>1. /\ rw'.pc = "plan" /\ rw'.key = rw.key /\ rw'.spoke = rw.spoke
        /\ rw'.obj = rw.obj /\ rw.pc = "copy" /\ UNCHANGED hub
    BY <1>0, <1>4 DEF CopySecret, RequestWorkers, hubVars
  <2>2. copy \in spokeSecrets'
    BY <1>4 DEF CopySecret
  <2>3. SecretCopied'
    BY <2>1, <2>2 DEF SecretCopied
  <2> QED
    BY <1>unique, <2>1, <2>3 DEF HeldWhileWorking, DeletesAreOwn, SpokeCleaned,
                                 SpokeSteps
<1>5. CASE Plan
  <2> DEFINE mine == Owned(rw.spoke, rw.obj.tenant, rw.key)
             wanted == DesiredVMNames(NameOf[rw.key], rw.obj.replicas)
  <2>1. /\ rw'.pc = "apply" /\ rw'.key = rw.key /\ rw'.spoke = rw.spoke
        /\ rw'.obj = rw.obj /\ rw.pc = "plan"
        /\ rw'.create = wanted \ NamesIn(mine)
        /\ rw'.delete = NamesIn(mine) \ wanted
        /\ UNCHANGED <<hub, vms, spokeSecrets>>
    BY <1>0, <1>5 DEF Plan, PlanVMs, RequestWorkers, hubVars, spokeVars
  <2>2. \A v \in vms :
           v.at = rw.spoke /\ v.ns = rw.obj.tenant /\ v.name \in NamesIn(mine) =>
              v.owner = rw.key
    BY DEF UniqueVMs, NamesIn, Owned, KeyOf
  <2>3. DeletesAreOwn'
    <3> HIDE DEF mine, wanted
    <3> QED  BY <2>1, <2>2 DEF DeletesAreOwn
  <2>4. SecretCopied' /\ HeldWhileWorking' /\ SpokeCleaned'
    <3> HIDE DEF mine, wanted
    <3> QED
      BY <2>1 DEF SecretCopied, HeldWhileWorking, SpokeCleaned, SpokeSteps
  <2> QED  BY <1>unique, <2>3, <2>4
<1>6. CASE CreateVM
  <2>1. PICK n : rw' = [rw EXCEPT !.create = @ \ {n}]
    BY <1>6 DEF CreateVM
  <2>2. /\ rw'.pc = "apply" /\ rw'.key = rw.key /\ rw'.spoke = rw.spoke
        /\ rw'.obj = rw.obj /\ rw.pc = "apply" /\ rw'.delete = rw.delete
        /\ rw'.create \subseteq rw.create /\ UNCHANGED <<hub, spokeSecrets>>
    BY <1>0, <1>6, <2>1 DEF CreateVM, RequestWorkers, hubVars
  <2>3. DeletesAreOwn'
    BY <1>6, <2>2, CreateVMCreates DEF DeletesAreOwn
  <2> QED
    BY <1>unique, <2>2, <2>3 DEF SecretCopied, HeldWhileWorking, SpokeCleaned,
                                 SpokeSteps
<1>7. CASE DeleteVM \/ CleanVM
  BY <1>7, DeleteCallOrder DEF DeleteVM, CleanVM
<1>8. CASE Observe
  <2>1. rw'.pc = "report"
    BY <1>0, <1>8 DEF Observe, RequestWorkers
  <2> QED
    BY <1>unique, <2>1 DEF SecretCopied, HeldWhileWorking, SpokeCleaned,
                           SpokeSteps, DeletesAreOwn
<1>9. CASE Report
  BY <1>idle, <1>9 DEF Report, spokeVars
<1>10. CASE Sweep
  <2> DEFINE mine == Owned(rw.spoke, rw.obj.tenant, rw.key)
  <2>1. /\ rw'.pc = "clean" /\ rw'.key = rw.key /\ rw'.spoke = rw.spoke
        /\ rw'.obj = rw.obj /\ rw.pc = "sweep" /\ rw'.delete = NamesIn(mine)
        /\ UNCHANGED <<hub, vms, spokeSecrets>>
    BY <1>0, <1>10 DEF Sweep, RequestWorkers, hubVars, spokeVars
  <2>2. DeletesAreOwn'
    <3>1. \A v \in vms :
             v.at = rw.spoke /\ v.ns = rw.obj.tenant
                /\ v.name \in NamesIn(mine) => v.owner = rw.key
      BY DEF UniqueVMs, NamesIn, Owned, KeyOf
    <3> HIDE DEF mine
    <3> QED  BY <2>1, <3>1 DEF DeletesAreOwn
  <2>3. SpokeCleaned'
    BY <2>1 DEF SpokeCleaned, NamesIn, Owned
  <2> QED
    BY <1>unique, <2>1, <2>2, <2>3 DEF SecretCopied, HeldWhileWorking, SpokeSteps
<1>11. CASE CleanSecret
  <2>1. /\ rw'.pc = "release" /\ rw'.key = rw.key /\ rw'.spoke = rw.spoke
        /\ rw'.obj = rw.obj /\ rw.pc = "clean" /\ rw.delete = {}
        /\ UNCHANGED <<hub, vms>>
        /\ \A s \in spokeSecrets' :
              KeyOf(s) # [at |-> rw.spoke, ns |-> rw.obj.tenant,
                          name |-> rw.obj.secret]
    BY <1>0, <1>11 DEF CleanSecret, RequestWorkers, hubVars
  <2> QED
    BY <1>unique, <2>1 DEF DeletesAreOwn, SecretCopied, HeldWhileWorking,
                           SpokeCleaned, SpokeSteps, Owned
<1>12. CASE Release
  BY <1>idle, <1>12 DEF Release, spokeVars
<1> QED
  BY <1>1, <1>2, <1>3, <1>4, <1>5, <1>6, <1>7, <1>8, <1>9, <1>10, <1>11, <1>12
     DEF RequestStep

LEMMA OrderStep ==
    ASSUME TypeInv, OrderInv, AnyStep
    PROVE  OrderInv'
<1>1. CASE RequestStep
  BY <1>1, RequestStepOrder
<1>2. CASE \E r \in Requests : Fetch(r)
  BY <1>2, FetchOrder
<1>3. CASE ~RequestStep /\ \A r \in Requests : ~Fetch(r)
  <2>1. UniqueVMs' /\ VMsOnlyFade /\ FinalizersStay
    BY <1>3, OnlyCreateVMCreates, OnlyReleaseReleases
       DEF OrderInv, TypeInv, RequestStep
  <2> QED  BY <1>3, <2>1, OthersLeaveTheWorker, SurroundingsKeepOrder
<1> QED  BY <1>1, <1>2, <1>3

\* The invariant from which the action properties follow.
LEMMA OrderInvariant == Spec => [](TypeInv /\ OrderInv)
<1>1. Init => TypeInv /\ OrderInv
  <2>1. Init => TypeInv
    BY InitType DEF Init
  <2>2. Init => OrderInv
    BY DEF Init, InitWith, OrderInv, UniqueVMs, HeldWhileWorking, DeletesAreOwn,
           SecretCopied, SpokeCleaned, SpokeSteps, Idle
  <2> QED  BY <2>1, <2>2
<1>2. TypeInv /\ OrderInv /\ [Next]_vars => TypeInv' /\ OrderInv'
  BY StepType, OrderStep DEF AnyStep
<1> QED  BY <1>1, <1>2, PTL DEF Spec

(***************************************************************************)
(* Whatever users edit, whichever spokes come and go, and whichever call   *)
(* fails: a VM is created only while the request it is labelled with holds *)
(* its finalizer and after its cloud-init Secret is beside it (Reconcile). *)
(***************************************************************************)
THEOREM VMsCreatedInOrder == Spec => CreatedInOrder
<1> DEFINE Created ==
              \A v \in NewVMs :
                 /\ hub[v.owner].fin
                 /\ \E s \in spokeSecrets : /\ s.at = v.at /\ s.ns = v.ns
                                            /\ s.name = rw.obj.secret
<1>1. TypeInv /\ OrderInv /\ [Next]_vars => Created
  <2> SUFFICES ASSUME TypeInv, OrderInv, [Next]_vars, NEW v \in NewVMs
               PROVE  /\ hub[v.owner].fin
                      /\ \E s \in spokeSecrets : /\ s.at = v.at /\ s.ns = v.ns
                                                 /\ s.name = rw.obj.secret
    OBVIOUS
  <2>1. CASE CreateVM
    <3>1. v.owner = rw.key /\ v.at = rw.spoke /\ v.ns = rw.obj.tenant
      BY <2>1, CreateVMCreates DEF NewVMs
    <3>2. rw.pc = "apply"
      BY <2>1 DEF CreateVM
    <3> QED
      BY <3>1, <3>2 DEF OrderInv, HeldWhileWorking, SecretCopied, SpokeSteps
  <2>2. CASE VMsOnlyFade
    BY <2>2 DEF VMsOnlyFade, NewVMs, KeyOf
  <2> QED
    BY <2>1, <2>2, OnlyCreateVMCreates DEF AnyStep, TypeInv, OrderInv
<1>2. Spec => [][Created]_vars
  BY <1>1, OrderInvariant, PTL DEF Spec
<1> QED  BY <1>2 DEF CreatedInOrder

\* A step that leaves the VMs there are alone asks none to go.
LEMMA NoneNewlyGoing ==
    ASSUME TypeOK, UniqueVMs, \A v \in vms' : v \in vms \/ ~v.going
    PROVE  NewlyGoing = {}
<1> SUFFICES ASSUME NEW v \in vms, ~v.going, [v EXCEPT !.going = TRUE] \in vms'
             PROVE  FALSE
  BY DEF NewlyGoing
<1> DEFINE w == [v EXCEPT !.going = TRUE]
<1>1. KeyOf(w) = KeyOf(v) /\ w.going
  BY DEF TypeOK, VMs, KeyOf
<1> HIDE DEF w
<1>2. w \in vms
  BY <1>1 DEF w
<1> QED  BY <1>1, <1>2 DEF UniqueVMs

\* A delete call asks only the VM of the name it gives.
LEMMA NewlyGoingMarked ==
    ASSUME TypeOK, UniqueVMs, NEW keys, MarkGoing(keys), NEW v \in NewlyGoing
    PROVE  v \in vms /\ KeyOf(v) \in keys
<1> DEFINE marked(u) == IF KeyOf(u) \in keys THEN [u EXCEPT !.going = TRUE] ELSE u
<1>1. v \in vms /\ ~v.going /\ [v EXCEPT !.going = TRUE] \in vms'
  BY DEF NewlyGoing
<1> DEFINE w == [v EXCEPT !.going = TRUE]
<1>2. KeyOf(w) = KeyOf(v) /\ w.going
  BY <1>1 DEF TypeOK, VMs, KeyOf
<1>3. PICK u \in vms : w = marked(u)
  BY <1>1 DEF MarkGoing
<1>4. \A x \in vms : KeyOf(marked(x)) = KeyOf(x)
  BY DEF TypeOK, VMs, KeyOf
<1>5. u = v
  <2> HIDE DEF w, marked
  <2> QED  BY <1>1, <1>2, <1>3, <1>4 DEF UniqueVMs
<1>6. CASE KeyOf(v) \notin keys
  BY <1>1, <1>2, <1>3, <1>5, <1>6
<1> QED  BY <1>1, <1>6

(***************************************************************************)
(* The controller takes down no VM but those of the request it works on,   *)
(* also where two requests want VMs of one name: a VM somebody else owns   *)
(* is never listed, so its name never gets into a plan's deletions         *)
(* (listVMs, syncVMs, cleanSpoke).                                         *)
(***************************************************************************)
THEOREM OnlyOwnVMsDeleted == Spec => DeletesOnlyOwn
<1> DEFINE Own == rw' # rw /\ rw.pc # "idle" =>
                     \A v \in NewlyGoing : v.owner = rw.key
<1>1. TypeInv /\ OrderInv /\ [Next]_vars => Own
  <2> SUFFICES ASSUME TypeInv, OrderInv, [Next]_vars, rw' # rw, rw.pc # "idle",
                      NEW v \in NewlyGoing
               PROVE  v.owner = rw.key
    OBVIOUS
  <2>0. TypeOK /\ UniqueVMs
    BY DEF TypeInv, OrderInv
  <2>1. ASSUME UNCHANGED vms
        PROVE  FALSE
    <3>1. NewlyGoing = {}
      BY <2>0, <2>1, NoneNewlyGoing
    <3> QED  BY <3>1
  <2>2. ASSUME NEW n \in rw.delete, DeleteCall(n), rw.pc \in {"apply", "clean"}
        PROVE  v.owner = rw.key
    <3>1. v \in vms /\ KeyOf(v) = [at |-> rw.spoke, ns |-> rw.obj.tenant,
                                   name |-> n]
      BY <2>0, <2>2, NewlyGoingMarked DEF DeleteCall
    <3>2. v.at = rw.spoke /\ v.ns = rw.obj.tenant /\ v.name = n
      BY <3>1 DEF KeyOf
    <3> QED  BY <2>2, <3>1, <3>2 DEF OrderInv, DeletesAreOwn
  <2>3. CASE RequestStep
    <3>1. CASE DeleteVM \/ CleanVM
      BY <2>2, <3>1 DEF DeleteVM, CleanVM, NextDelete
    <3>2. CASE CreateVM
      <4>1. ASSUME NEW u \in VMs, vms' = vms \cup {u}, ~u.going
            PROVE  FALSE
        <5>1. NewlyGoing = {}
          BY <2>0, <4>1, NoneNewlyGoing
        <5> QED  BY <5>1
      <4> QED  BY <2>1, <3>2, <4>1, CreateVMCreates
    <3>3. CASE ~(DeleteVM \/ CleanVM \/ CreateVM)
      BY <2>1, <2>3, <3>3
         DEF RequestStep, AddFinalizer, Resolve, ReadHubSecret, CopySecret, Plan,
             Observe, Report, Sweep, CleanSecret, Release, spokeVars
    <3> QED  BY <3>1, <3>2, <3>3
  <2>4. CASE RequestCallFails \/ Restart({})
    BY <2>1, <2>4 DEF RequestCallFails, Restart
  <2>5. CASE ~RequestStep /\ ~RequestCallFails /\ ~Restart({})
    <3>1. CASE StatusStep \/ KubeVirt
      BY <3>1 DEF StatusStep, FetchVM, ObserveForStatus, ReportForStatus, KubeVirt,
                  Started, Terminated
    <3>2. CASE \/ \E r \in Requests : \/ Fetch(r) \/ Tick(r) \/ Order(r)
                                      \/ Scale(r) \/ Delete(r) \/ Edit(r)
               \/ \E ns \in HubNamespaces, name \in SecretNames :
                     RewriteSecret(ns, name)
      BY <3>2 DEF Fetch, Tick, Order, Scale, Delete, Edit, RewriteSecret, Change
    <3>3. CASE \/ StatusCallFails
               \/ \E g \in Regions : Engage(g) \/ Disengage(g)
               \/ \E u \in vms : Stopped(u) \/ DeletedOutOfBand(u)
      BY <3>3 DEF StatusCallFails, Engage, Disengage, Stopped, DeletedOutOfBand
    <3>4. CASE UNCHANGED vars
      BY <3>4 DEF vars
    <3> QED  BY <2>5, <3>1, <3>2, <3>3, <3>4 DEF Next, Steady
  <2> QED  BY <2>3, <2>4, <2>5
<1>2. Spec => [][Own]_vars
  BY <1>1, OrderInvariant, PTL DEF Spec
<1> QED  BY <1>2 DEF DeletesOnlyOwn

(***************************************************************************)
(* A finalizer released after cleanSpoke leaves no VM of the request       *)
(* running, and no Secret of its name, in the place the worker cleaned,    *)
(* through every edit, failed call, restart and loss of a spoke (finalize).*)
(***************************************************************************)
THEOREM ReleasesAfterCleaning == Spec => ReleasedAfterCleaning
<1> DEFINE place == [at |-> rw.spoke, ns |-> rw.obj.tenant, name |-> rw.obj.secret]
           Cleaned(r) == /\ \A v \in Owned(rw.spoke, rw.obj.tenant, r) : v.going
                         /\ \A s \in spokeSecrets : KeyOf(s) # place
           Released == \A r \in Requests :
                          hub[r].fin /\ ~hub'[r].fin /\ rw.spoke # None => Cleaned(r)
<1>1. TypeInv /\ OrderInv /\ [Next]_vars => Released
  <2> SUFFICES ASSUME TypeInv, OrderInv, [Next]_vars, NEW r \in Requests,
                      hub[r].fin, ~hub'[r].fin, rw.spoke # None
               PROVE  Cleaned(r)
    OBVIOUS
  <2>1. Release
    BY OnlyReleaseReleases DEF AnyStep, TypeInv, FinalizersStay
  <2>2. rw.pc = "release" /\ r = rw.key
    BY <2>1 DEF Release, TypeInv, TypeOK
  <2> QED  BY <2>2 DEF OrderInv, SpokeCleaned
<1>2. Spec => [][Released]_vars
  BY <1>1, OrderInvariant, PTL DEF Spec
<1> QED  BY <1>2 DEF ReleasedAfterCleaning

-----------------------------------------------------------------------------
(* While spokes and placements stay. *)

SteadyInv == TypeInv /\ CustodyInv /\ OrderInv

LEMMA SteadyInvInit ==
    ASSUME SteadyInit
    PROVE  SteadyInv
<1>1. TypeInv
  BY InitType, VmBindingAssumption DEF SteadyInit
<1>2. CustodyInv
  BY DEF SteadyInit, InitWith, CustodyInv, PlacedAtHome, HeldWhileWorking,
         SweptBeforeRelease, NoOrphan, Idle, Absent, SpokeSteps
<1>3. OrderInv
  BY DEF SteadyInit, InitWith, OrderInv, UniqueVMs, HeldWhileWorking,
         DeletesAreOwn, SecretCopied, SpokeCleaned, SpokeSteps, Idle
<1> QED  BY <1>1, <1>2, <1>3 DEF SteadyInv

LEMMA SteadyInvStep ==
    ASSUME SteadyInv, [SteadyNext]_vars
    PROVE  SteadyInv'
BY StepType, CustodyStep, OrderStep DEF SteadyInv, AnyStep

\* Only the two calls of the request worker on Secrets change any.
LEMMA OnlyTwoCallsTouchSecrets ==
    ASSUME AnyStep
    PROVE  CopySecret \/ CleanSecret \/ UNCHANGED spokeSecrets
<1>1. CASE RequestStep
  BY <1>1 DEF RequestStep, AddFinalizer, Resolve, ReadHubSecret, Plan, CreateVM,
              DeleteVM, DeleteCall, Observe, Report, Sweep, CleanVM, Release,
              spokeVars
<1>2. CASE \E r \in Requests : Fetch(r)
  BY <1>2 DEF Fetch, spokeVars
<1> QED  BY <1>1, <1>2, OthersLeaveTheWorker

\* No two requests are placed in one namespace of one region with one Secret.
SecretsNotShared == \A q, r \in Requests : Home[q] = Home[r] => q = r

LEMMA BootsFromSecretStep ==
    ASSUME SecretsNotShared, SteadyInv, BootsFromSecret, [SteadyNext]_vars
    PROVE  BootsFromSecret'
<1>0. /\ TypeOK /\ PlacedAtHome /\ Equipped /\ UniqueVMs
      /\ SecretCopied /\ SweptBeforeRelease
  BY DEF SteadyInv, TypeInv, CustodyInv, OrderInv
<1>1. CASE CopySecret
  <2> DEFINE copy == [at |-> rw.spoke, ns |-> rw.obj.tenant,
                      name |-> rw.obj.secret, data |-> rw.data]
  <2>1. /\ copy \in spokeSecrets' /\ UNCHANGED vms
        /\ \A s \in spokeSecrets : KeyOf(s) # KeyOf(copy) => s \in spokeSecrets'
    BY <1>1 DEF CopySecret
  <2>2. \A s \in spokeSecrets : \E t \in spokeSecrets' :
           t.at = s.at /\ t.ns = s.ns /\ t.name = s.name
    <3>1. \A s : KeyOf(s) = KeyOf(copy) =>
             copy.at = s.at /\ copy.ns = s.ns /\ copy.name = s.name
      BY DEF KeyOf
    <3> HIDE DEF copy
    <3> QED  BY <2>1, <3>1
  <2> QED  BY <2>1, <2>2 DEF BootsFromSecret
<1>2. CASE CleanSecret
  <2> DEFINE gone == [at |-> rw.spoke, ns |-> rw.obj.tenant,
                      name |-> rw.obj.secret]
  <2>1. /\ UNCHANGED vms /\ rw.pc = "clean" /\ rw.delete = {}
        /\ spokeSecrets' = {s \in spokeSecrets : KeyOf(s) # gone}
    BY <1>2 DEF CleanSecret
  <2>2. /\ rw.spoke = Home[rw.key].region /\ rw.obj.tenant = Home[rw.key].tenant
        /\ rw.obj.secret = Home[rw.key].secret /\ rw.key \in Requests
    BY <1>0, <2>1 DEF PlacedAtHome, AtHome, Equipped, SpokeSteps, TypeOK,
                      RequestWorkers, Idle
  <2> SUFFICES ASSUME NEW v \in vms, ~v.going
               PROVE  \E s \in spokeSecrets' :
                         /\ s.at = v.at /\ s.ns = v.ns
                         /\ s.name = Home[v.owner].secret
    BY <2>1 DEF BootsFromSecret
  <2>3. PICK s \in spokeSecrets : /\ s.at = v.at /\ s.ns = v.ns
                                  /\ s.name = Home[v.owner].secret
    BY DEF BootsFromSecret
  <2>4. v.owner \in Requests /\ v.owner # rw.key
    BY <1>0, <2>1 DEF SweptBeforeRelease, TypeOK, VMs
  <2>5. v.at = Home[v.owner].region /\ v.ns = Home[v.owner].tenant
    BY <1>0 DEF PlacedAtHome
  <2>6. Home[v.owner] \in Placements /\ Home[rw.key] \in Placements
    BY <2>2, <2>4, VmBindingAssumption
  <2>7. ~(/\ Home[v.owner].region = Home[rw.key].region
          /\ Home[v.owner].tenant = Home[rw.key].tenant
          /\ Home[v.owner].secret = Home[rw.key].secret)
    BY <2>2, <2>4, <2>6 DEF SecretsNotShared, Placements
  <2>8. KeyOf(s) # gone
    BY <2>2, <2>3, <2>5, <2>7 DEF KeyOf
  <2> QED  BY <2>1, <2>3, <2>8
<1>3. CASE CreateVM
  <2>1. rw.pc = "apply" /\ UNCHANGED spokeSecrets
    BY <1>3 DEF CreateVM
  <2>2. rw.obj.secret = Home[rw.key].secret
    BY <1>0, <2>1 DEF PlacedAtHome, AtHome
  <2>3. \A v \in vms' \ vms : /\ v.at = rw.spoke /\ v.ns = rw.obj.tenant
                              /\ v.owner = rw.key
    BY <1>3, CreateVMCreates DEF SteadyInv
  <2> QED  BY <1>0, <2>1, <2>2, <2>3 DEF SecretCopied, BootsFromSecret
<1>4. CASE VMsOnlyFade /\ UNCHANGED spokeSecrets
  BY <1>4 DEF VMsOnlyFade, BootsFromSecret
<1> QED
  BY <1>0, <1>1, <1>2, <1>3, <1>4, OnlyTwoCallsTouchSecrets, OnlyCreateVMCreates
     DEF AnyStep

(***************************************************************************)
(* Every VM that runs has its cloud-init Secret beside it, if no two       *)
(* requests share one: for any number of requests, rewritten Secrets,      *)
(* failed calls and restarts (syncSecret before syncVMs, and the order of  *)
(* cleanSpoke).                                                            *)
(***************************************************************************)
THEOREM VMsBootFromSecrets ==
    ASSUME SecretsNotShared
    PROVE  SteadySpec => []BootsFromSecret
<1>1. SteadyInit => SteadyInv /\ BootsFromSecret
  <2>1. SteadyInit => BootsFromSecret
    BY DEF SteadyInit, InitWith, BootsFromSecret
  <2> QED  BY <2>1, SteadyInvInit
<1>2. SteadyInv /\ BootsFromSecret /\ [SteadyNext]_vars
         => SteadyInv' /\ BootsFromSecret'
  BY SteadyInvStep, BootsFromSecretStep
<1> QED  BY <1>1, <1>2, PTL DEF SteadySpec

-----------------------------------------------------------------------------
(* The controller implements Custody. *)

Keeps == [Promise!CustodyNext]_(Promise!cvars)

CustodyIn(o) == IF o.phase = "absent" THEN "none" ELSE IF o.fin THEN "held" ELSE "free"

\* How one step other than a release may change a request's custody.
MayBecome(old, new) ==
    \/ new = old
    \/ old = "none" /\ new = "free"
    \/ old = "free" /\ new \in {"none", "held"}

\* One written request: it appears, vanishes, is held, or stays as it was.
LEMMA WriteKeepsPromise ==
    ASSUME TypeOK, NEW r \in Requests, NEW o, hub' = [hub EXCEPT ![r] = o],
           MayBecome(CustodyIn(hub[r]), CustodyIn(o)), UNCHANGED WorkUnderWay
    PROVE  Keeps
<1> DEFINE old == CustodyIn(hub[r])
           new == CustodyIn(o)
<1>1. CustodyOf' = [CustodyOf EXCEPT ![r] = new] /\ CustodyOf[r] = old
  BY DEF TypeOK, CustodyOf, CustodyIn
<1>2. CASE new = old
  <2>1. CustodyOf' = CustodyOf
    BY <1>1, <1>2 DEF CustodyOf
  <2> QED  BY <2>1 DEF Keeps, Promise!cvars
<1>3. CASE old = "none" /\ new = "free"
  <2>1. Promise!Appear(r)
    BY <1>1, <1>3 DEF Promise!Appear
  <2> QED  BY <2>1 DEF Keeps, Promise!CustodyNext
<1>4. CASE old = "free" /\ new \in {"none", "held"}
  <2>1. Promise!Vanish(r) \/ Promise!Hold(r)
    BY <1>1, <1>4 DEF Promise!Vanish, Promise!Hold
  <2> QED  BY <2>1 DEF Keeps, Promise!CustodyNext
<1> QED  BY <1>2, <1>3, <1>4 DEF MayBecome

\* What every step that writes a request makes of it.
LEMMA SteadyWrites ==
    ASSUME TypeOK, [SteadyNext]_vars
    PROVE  \/ Release
           \/ UNCHANGED hub
           \/ \E r \in Requests : \E o :
                 /\ hub' = [hub EXCEPT ![r] = o]
                 /\ MayBecome(CustodyIn(hub[r]), CustodyIn(o))
<1>0. ASSUME NEW r \in Requests, hub[r].phase # "absent"
      PROVE  hub[r] \in Objects
  BY <1>0 DEF TypeOK, Absent
<1>patch. ASSUME NEW r \in Requests, NEW s, Patch(r, s), hub[r].phase # "absent"
          PROVE  \E o : /\ hub' = [hub EXCEPT ![r] = o]
                        /\ MayBecome(CustodyIn(hub[r]), CustodyIn(o))
  <2> DEFINE o == [hub[r] EXCEPT !.status = s]
  <2>1. CustodyIn(o) = CustodyIn(hub[r])
    BY <1>0, <1>patch DEF CustodyIn, Objects
  <2> QED  BY <1>patch, <2>1 DEF Patch, MayBecome
<1>1. CASE AddFinalizer
  <2>1. rw.key \in Requests
    BY <1>1 DEF AddFinalizer, TypeOK, RequestWorkers, Idle
  <2>2. CASE hub[rw.key].phase = "live"
    <3> DEFINE o == [hub[rw.key] EXCEPT !.fin = TRUE]
    <3>1. MayBecome(CustodyIn(hub[rw.key]), CustodyIn(o))
      BY <1>0, <2>1, <2>2 DEF MayBecome, CustodyIn, Objects
    <3> QED  BY <1>1, <2>1, <2>2, <3>1 DEF AddFinalizer
  <2>3. CASE hub[rw.key].phase # "live"
    BY <1>1, <2>3 DEF AddFinalizer
  <2> QED  BY <2>2, <2>3
<1>2. CASE Report
  <2>1. rw.key \in Requests
    BY <1>2 DEF Report, TypeOK, RequestWorkers, Idle
  <2> QED  BY <1>2, <1>patch, <2>1 DEF Report
<1>3. CASE ReportForStatus
  <2>1. sw.key \in Requests
    BY <1>3 DEF ReportForStatus, TypeOK, StatusWorkers, Idle
  <2> QED  BY <1>3, <1>patch, <2>1 DEF ReportForStatus
<1>4. ASSUME NEW r \in Requests, Order(r)
      PROVE  \E o : /\ hub' = [hub EXCEPT ![r] = o]
                    /\ MayBecome(CustodyIn(hub[r]), CustodyIn(o))
  <2> DEFINE new(n) == [phase |-> "live", fin |-> FALSE,
                        tenant |-> Home[r].tenant, region |-> Home[r].region,
                        replicas |-> n, secret |-> Home[r].secret,
                        status |-> None]
  <2>1. \A n : MayBecome(CustodyIn(hub[r]), CustodyIn(new(n)))
    BY <1>4 DEF Order, MayBecome, CustodyIn
  <2>2. PICK n \in Replicas : hub' = [hub EXCEPT ![r] = new(n)]
    BY <1>4 DEF Order, Write
  <2> HIDE DEF new
  <2> QED  BY <2>1, <2>2
<1>5. ASSUME NEW r \in Requests, Scale(r)
      PROVE  \E o : /\ hub' = [hub EXCEPT ![r] = o]
                    /\ MayBecome(CustodyIn(hub[r]), CustodyIn(o))
  <2>1. \A n : CustodyIn([hub[r] EXCEPT !.replicas = n]) = CustodyIn(hub[r])
    BY <1>0, <1>5 DEF Scale, CustodyIn, Objects
  <2>2. PICK n \in Replicas : hub' = [hub EXCEPT ![r] = [hub[r] EXCEPT !.replicas = n]]
    BY <1>5 DEF Scale, Write
  <2> QED  BY <2>1, <2>2 DEF MayBecome
<1>6. ASSUME NEW r \in Requests, Delete(r)
      PROVE  \E o : /\ hub' = [hub EXCEPT ![r] = o]
                    /\ MayBecome(CustodyIn(hub[r]), CustodyIn(o))
  <2>1. hub[r].fin => CustodyIn([hub[r] EXCEPT !.phase = "deleting"])
                         = CustodyIn(hub[r])
    BY <1>0, <1>6 DEF Delete, CustodyIn, Objects
  <2>2. ~hub[r].fin => CustodyIn(hub[r]) = "free" /\ CustodyIn(Absent) = "none"
    BY <1>6 DEF Delete, CustodyIn, Absent
  <2> QED  BY <1>6, <2>1, <2>2 DEF Delete, Write, MayBecome
<1>7. CASE \/ UNCHANGED vars
           \/ Resolve \/ ReadHubSecret \/ CopySecret \/ Plan \/ CreateVM
           \/ DeleteVM \/ Observe \/ Sweep \/ CleanVM \/ CleanSecret
           \/ \E r \in Requests : Fetch(r) \/ Tick(r)
           \/ ObserveForStatus \/ \E k \in VMKeys : FetchVM(k)
           \/ KubeVirt
           \/ \E ns \in HubNamespaces, name \in SecretNames :
                 RewriteSecret(ns, name)
           \/ RequestCallFails \/ StatusCallFails \/ Restart(engaged)
           \/ \E v \in vms : Stopped(v) \/ DeletedOutOfBand(v)
  BY <1>7 DEF vars, Resolve, ReadHubSecret, CopySecret, Plan, CreateVM, DeleteVM,
              DeleteCall, Observe, Sweep, CleanVM, CleanSecret, Fetch, Tick,
              ObserveForStatus, FetchVM, KubeVirt, Started, Terminated,
              RewriteSecret, RequestCallFails, StatusCallFails, Restart, Stopped,
              DeletedOutOfBand, Fault, hubVars
<1> QED
  BY <1>1, <1>2, <1>3, <1>4, <1>5, <1>6, <1>7
     DEF SteadyNext, Steady, RequestStep, StatusStep

\* What of a VM Custody sees, as long as it runs.
Item(v) == [owner |-> v.owner, at |-> v.at, ns |-> v.ns, name |-> v.name]

LEMMA ItemsOfWork ==
    /\ WorkUnderWay = {Item(v) : v \in {u \in vms : ~u.going}}
    /\ WorkUnderWay' = {Item(v) : v \in {u \in vms' : ~u.going}}
    /\ UNCHANGED vms => UNCHANGED WorkUnderWay
BY DEF WorkUnderWay, Item

\* A delete call, whoever makes it, stops one VM or none.
LEMMA MarkGoingKeepsPromise ==
    ASSUME TypeOK, UniqueVMs, UNCHANGED hub, NEW k, MarkGoing({k})
    PROVE  Keeps
<1>0. UNCHANGED CustodyOf
  BY DEF CustodyOf
<1> DEFINE marked(v) == IF KeyOf(v) \in {k} THEN [v EXCEPT !.going = TRUE] ELSE v
<1>1. vms' = {marked(v) : v \in vms}
  BY DEF MarkGoing
<1>2. \A v \in vms : /\ KeyOf(v) = k => marked(v).going
                     /\ KeyOf(v) # k => marked(v) = v
  BY DEF TypeOK, VMs
<1>3. {u \in vms' : ~u.going} = {v \in vms : ~v.going /\ KeyOf(v) # k}
  <2> HIDE DEF marked
  <2> QED  BY <1>1, <1>2
<1>4. \A u, v \in vms : KeyOf(u) # KeyOf(v) => Item(u) # Item(v)
  BY DEF KeyOf, Item
<1>5. CASE \A v \in vms : v.going \/ KeyOf(v) # k
  <2>1. {u \in vms' : ~u.going} = {u \in vms : ~u.going}
    BY <1>3, <1>5
  <2>2. UNCHANGED WorkUnderWay
    BY <2>1, ItemsOfWork
  <2> QED  BY <1>0, <2>2 DEF Keeps, Promise!cvars
<1>6. ASSUME NEW v \in vms, ~v.going, KeyOf(v) = k
      PROVE  Keeps
  <2>1. WorkUnderWay' = WorkUnderWay \ {Item(v)}
    BY <1>3, <1>4, <1>6, ItemsOfWork DEF UniqueVMs
  <2>2. Item(v) \in PossibleWork
    BY DEF TypeOK, VMs, Item, PossibleWork
  <2>3. Promise!Stop(Item(v))
    BY <1>0, <2>1 DEF Promise!Stop
  <2> QED  BY <2>2, <2>3 DEF Keeps, Promise!CustodyNext
<1> QED  BY <1>5, <1>6

\* Creating a VM starts work for a request that is held.
LEMMA CreateVMKeepsPromise ==
    ASSUME SteadyInv, CreateVM
    PROVE  Keeps
<1>0. UNCHANGED CustodyOf /\ rw.pc = "apply"
  BY DEF CreateVM, CustodyOf, hubVars
<1>1. CASE UNCHANGED vms
  BY <1>0, <1>1, ItemsOfWork DEF Keeps, Promise!cvars
<1>2. ASSUME NEW v \in VMs, v.owner = rw.key, ~v.going, vms' = vms \cup {v}
      PROVE  Keeps
  <2>1. WorkUnderWay' = WorkUnderWay \cup {Item(v)}
    BY <1>2, ItemsOfWork
  <2>2. Item(v) \in PossibleWork /\ Item(v).owner = rw.key
    BY <1>2 DEF VMs, Item, PossibleWork
  <2>3. CustodyOf[rw.key] = "held"
    BY <1>0, <1>2 DEF SteadyInv, TypeInv, TypeOK, OrderInv, HeldWhileWorking,
                      SpokeSteps, CustodyOf, VMs, Objects, Absent
  <2>4. Promise!Start(Item(v))
    BY <1>0, <2>1, <2>2, <2>3 DEF Promise!Start
  <2> QED  BY <2>2, <2>4 DEF Keeps, Promise!CustodyNext
<1> QED  BY <1>1, <1>2, CreateVMCreates DEF SteadyInv

\* Releasing a request lets go of one nothing runs for any more.
LEMMA ReleaseKeepsPromise ==
    ASSUME SteadyInv, Release
    PROVE  Keeps
<1>1. rw.key \in Requests /\ hub[rw.key].fin /\ rw.pc = "release"
  BY DEF Release, SteadyInv, TypeInv, TypeOK, RequestWorkers, Idle, OrderInv,
         HeldWhileWorking
<1>2. hub \in [Requests -> Objects \cup {Absent}]
  BY DEF SteadyInv, TypeInv, TypeOK
<1>3. CustodyOf[rw.key] = "held"
  BY <1>1, <1>2 DEF CustodyOf, Absent, Objects
<1>4. CustodyOf' = [CustodyOf EXCEPT ![rw.key] = "none"]
  BY <1>1, <1>2 DEF Release, CustodyOf, Absent
<1>5. \A w \in WorkUnderWay : w.owner # rw.key
  BY <1>1, ItemsOfWork DEF Item, SteadyInv, CustodyInv, SweptBeforeRelease
<1>6. UNCHANGED WorkUnderWay
  BY ItemsOfWork DEF Release, spokeVars
<1>7. Promise!Release(rw.key)
  BY <1>3, <1>4, <1>5, <1>6 DEF Promise!Release
<1> QED  BY <1>1, <1>7 DEF Keeps, Promise!CustodyNext

\* KubeVirt, and a VM that goes down: Custody sees no change.
LEMMA KubeVirtSameWork ==
    ASSUME TypeOK, KubeVirt \/ \E v \in vms : Stopped(v)
    PROVE  UNCHANGED WorkUnderWay
<1>1. ASSUME NEW v \in vms, NEW ready \in BOOLEAN, SetReady(v, ready)
      PROVE  UNCHANGED WorkUnderWay
  <2> DEFINE w == [v EXCEPT !.ready = ready]
  <2>1. Item(w) = Item(v) /\ w.going = v.going
    BY DEF TypeOK, VMs, Item
  <2>2. vms' = (vms \ {v}) \cup {w}
    BY <1>1 DEF SetReady
  <2> HIDE DEF w
  <2> QED  BY <2>1, <2>2, ItemsOfWork
<1>2. ASSUME NEW v \in vms, Terminated(v)
      PROVE  UNCHANGED WorkUnderWay
  <2>1. {u \in vms' : ~u.going} = {u \in vms : ~u.going}
    BY <1>2 DEF Terminated
  <2> QED  BY <2>1, ItemsOfWork
<1> QED  BY <1>1, <1>2 DEF KubeVirt, Started, Stopped

\* Every other step leaves the work alone.
LEMMA OtherStepsSameWork ==
    ASSUME TypeOK, [SteadyNext]_vars
    PROVE  \/ CreateVM \/ DeleteVM \/ CleanVM
           \/ \E v \in vms : DeletedOutOfBand(v)
           \/ UNCHANGED WorkUnderWay
<1>1. CASE UNCHANGED vms
  BY <1>1, ItemsOfWork
<1>2. CASE RequestStep /\ ~(CreateVM \/ DeleteVM \/ CleanVM)
  BY <1>1, <1>2
     DEF RequestStep, AddFinalizer, Resolve, ReadHubSecret, CopySecret, Plan,
         Observe, Report, Sweep, CleanSecret, Release, spokeVars
<1>3. CASE StatusStep
  BY <1>1, <1>3 DEF StatusStep, FetchVM, ObserveForStatus, ReportForStatus,
                    spokeVars
<1>4. CASE \/ \E r \in Requests : \/ Fetch(r) \/ Tick(r) \/ Order(r) \/ Scale(r)
                                  \/ Delete(r)
           \/ \E ns \in HubNamespaces, name \in SecretNames :
                 RewriteSecret(ns, name)
  BY <1>1, <1>4 DEF Fetch, Tick, Order, Scale, Delete, RewriteSecret, Change,
                    spokeVars
<1>5. CASE RequestCallFails \/ StatusCallFails \/ Restart(engaged)
  BY <1>1, <1>5 DEF RequestCallFails, StatusCallFails, Restart
<1>6. CASE KubeVirt \/ \E v \in vms : Stopped(v)
  BY <1>6, KubeVirtSameWork
<1>7. CASE UNCHANGED vars
  BY <1>1, <1>7 DEF vars
<1> QED
  BY <1>2, <1>3, <1>4, <1>5, <1>6, <1>7 DEF SteadyNext, Steady

LEMMA StepKeepsPromise ==
    ASSUME SteadyInv, [SteadyNext]_vars
    PROVE  Keeps
<1>0. TypeOK /\ UniqueVMs
  BY DEF SteadyInv, TypeInv, OrderInv
<1>1. CASE CreateVM
  BY <1>1, CreateVMKeepsPromise
<1>2. CASE DeleteVM \/ CleanVM
  BY <1>0, <1>2, MarkGoingKeepsPromise DEF DeleteVM, CleanVM, DeleteCall, hubVars
<1>3. CASE \E v \in vms : DeletedOutOfBand(v)
  BY <1>0, <1>3, MarkGoingKeepsPromise DEF DeletedOutOfBand, Fault, hubVars
<1>4. CASE Release
  BY <1>4, ReleaseKeepsPromise
<1>5. CASE UNCHANGED WorkUnderWay /\ ~Release
  <2>1. CASE UNCHANGED hub
    BY <1>5, <2>1 DEF Keeps, Promise!cvars, CustodyOf
  <2>2. CASE ~UNCHANGED hub
    BY <1>0, <1>5, <2>2, SteadyWrites, WriteKeepsPromise
  <2> QED  BY <2>1, <2>2
<1> QED  BY <1>0, <1>1, <1>2, <1>3, <1>4, <1>5, OtherStepsSameWork

(***************************************************************************)
(* The controller implements Custody while spokes and placements stay:     *)
(* every step of both workers, of KubeVirt, of users and of whatever fails *)
(* is one of the abstract steps, or none.                                  *)
(***************************************************************************)
THEOREM ImplementsCustody == SteadySpec => KeepsCustody
<1>1. SteadyInit => SteadyInv /\ Promise!CustodyInit
  <2>1. SteadyInit => Promise!CustodyInit
    BY DEF SteadyInit, InitWith, Promise!CustodyInit, CustodyOf, WorkUnderWay,
           Absent
  <2> QED  BY <2>1, SteadyInvInit
<1>2. SteadyInv /\ [SteadyNext]_vars => SteadyInv'
  BY SteadyInvStep
<1>3. SteadyInv /\ [SteadyNext]_vars => [Promise!CustodyNext]_(Promise!cvars)
  BY StepKeepsPromise DEF Keeps
<1> QED
  BY <1>1, <1>2, <1>3, PTL DEF SteadySpec, KeepsCustody, Promise!CustodySpec
-----------------------------------------------------------------------------
(* No request is forgotten. *)

Remembered == NeverForgotten /\ StaleIsQueued /\ SaysMissing

\* Every write to a request comes back as an event.
WritesQueued ==
    queue \subseteq queue' /\ \A r \in Requests : r \in queue' \/ UNCHANGED hub[r]

\* Around a worker that stays where it is, timers may at most turn into keys.
LEMMA SurroundingsRemember ==
    ASSUME TypeOK, Remembered, UNCHANGED rw, WritesQueued,
           timers \subseteq timers' \cup queue'
    PROVE  Remembered'
<1>1. rw.pc # "idle" => rw.key \in Requests
  BY DEF TypeOK, RequestWorkers, Idle
<1> QED
  BY <1>1 DEF Remembered, NeverForgotten, StaleIsQueued, SaysMissing, Owed,
              WritesQueued

\* A worker that goes on, with what it has read or with its key queued again.
LEMMA WorkerRemembers ==
    ASSUME TypeOK, Remembered, rw \in RequestWorkers, WritesQueued,
           UNCHANGED timers, rw'.pc # "idle", rw'.key = rw.key,
           rw'.obj = rw.obj \/ rw.key \in queue', SaysMissing'
    PROVE  Remembered'
<1>1. rw.key \in Requests /\ rw.pc # "idle"
  BY DEF RequestWorkers, RequestSteps
<1> QED
  BY <1>1 DEF Remembered, NeverForgotten, StaleIsQueued, Owed, WritesQueued

\* A worker that ends has seen to it that its key comes back, if it must.
LEMMA EndRemembers ==
    ASSUME Remembered, WritesQueued, timers \subseteq timers', rw' = Idle,
           NEW r \in Requests, r = rw.key, r \in queue' \cup timers' \/ ~Owed(r)'
    PROVE  Remembered'
<1>1. rw'.pc = "idle"
  BY DEF Idle
<1>2. ASSUME NEW s \in Requests, s # r, Owed(s)'
      PROVE  s \in queue' \cup timers'
  <2>1. CASE UNCHANGED hub[s]
    <3>1. Owed(s)
      BY <1>2, <2>1 DEF Owed
    <3> QED  BY <1>2, <3>1 DEF Remembered, NeverForgotten, WritesQueued
  <2> QED  BY <2>1 DEF WritesQueued
<1> QED
  BY <1>1, <1>2 DEF Remembered, NeverForgotten, StaleIsQueued, SaysMissing

LEMMA PatchQueued ==
    ASSUME TypeOK, NEW r \in Requests, NEW status, Patch(r, status)
    PROVE  WritesQueued /\ r \in queue'
<1>1. r \in queue' /\ queue \subseteq queue'
  BY DEF Patch
<1>2. \A s \in Requests \ {r} : UNCHANGED hub[s]
  BY DEF Patch, TypeOK
<1> QED  BY <1>1, <1>2 DEF WritesQueued

LEMMA ReportRemembers ==
    ASSUME TypeInv, Remembered, Report
    PROVE  Remembered'
<1>0. TypeOK /\ rw \in RequestWorkers /\ rw.key \in Requests /\ rw.pc = "report"
      /\ rw' = Idle /\ timers \subseteq timers'
  BY DEF TypeInv, TypeOK, Report, RequeueLater, Idle, RequestWorkers
<1>1. CASE rw.status = rw.obj.status
  <2>1. UNCHANGED <<hub, queue>> /\ RequeueLater
    BY <1>1 DEF Report
  <2>2. WritesQueued
    BY <2>1 DEF WritesQueued
  <2>3. CASE rw.obj.tenant # None \/ rw.key \in queue
    <3>1. rw.key \in queue' \cup timers'
      BY <2>1, <2>3 DEF RequeueLater
    <3> QED  BY <1>0, <2>2, <3>1, EndRemembers
  <2>4. CASE rw.obj.tenant = None /\ rw.key \notin queue
    <3>1. /\ rw.obj = hub[rw.key] /\ rw.obj.phase = "live"
          /\ rw.obj.status = MissingTenantStatus(rw.obj.region)
      BY <1>0, <1>1, <2>4 DEF Remembered, StaleIsQueued, SaysMissing
    <3>2. ASSUME NEW s \in Requests, s = rw.key
          PROVE  ~Owed(s)'
      BY <2>1, <2>4, <3>1, <3>2 DEF Owed
    <3> QED  BY <1>0, <2>2, <3>2, EndRemembers
  <2> QED  BY <2>3, <2>4
<1>2. CASE rw.status # rw.obj.status
  <2>1. WritesQueued /\ rw.key \in queue'
    BY <1>0, <1>2, PatchQueued DEF Report, WritesQueued
  <2> QED  BY <1>0, <2>1, EndRemembers
<1> QED  BY <1>1, <1>2

LEMMA RequestStepRemembers ==
    ASSUME TypeInv, Remembered, RequestStep
    PROVE  Remembered'
<1>0. TypeOK /\ rw \in RequestWorkers /\ rw.key \in Requests
  BY DEF TypeInv, TypeOK, RequestStep, AddFinalizer, Resolve, ReadHubSecret,
         CopySecret, Plan, CreateVM, DeleteVM, Observe, Report, Sweep, CleanVM,
         CleanSecret, Release, Idle, RequestWorkers
<1>retried. ASSUME Retry, UNCHANGED <<hub, timers>>
            PROVE  Remembered'
  <2>1. WritesQueued /\ rw.key \in queue' /\ rw' = Idle
    BY <1>retried DEF Retry, WritesQueued
  <2> QED  BY <1>0, <1>retried, <2>1, EndRemembers
<1>goes. ASSUME UNCHANGED <<hub, queue, timers>>, rw'.pc \in RequestSteps,
                rw'.key = rw.key, rw'.obj = rw.obj,
                rw'.pc # "report" \/ rw.obj.tenant # None
         PROVE  Remembered'
  <2>1. WritesQueued /\ SaysMissing' /\ rw'.pc # "idle"
    BY <1>goes DEF WritesQueued, SaysMissing, RequestSteps
  <2> QED  BY <1>0, <1>goes, <2>1, WorkerRemembers
<1>1. CASE AddFinalizer
  <2>1. CASE hub[rw.key].phase = "live"
    <3>1. /\ rw'.pc = "resolve" /\ rw'.key = rw.key
          /\ rw.key \in queue' /\ UNCHANGED timers
      BY <1>0, <1>1, <2>1 DEF AddFinalizer, RequestWorkers
    <3>2. WritesQueued /\ SaysMissing'
      BY <1>0, <1>1, <2>1, <3>1
         DEF AddFinalizer, WritesQueued, SaysMissing, TypeOK
    <3> QED  BY <1>0, <3>1, <3>2, WorkerRemembers
  <2> QED  BY <1>1, <1>retried, <2>1 DEF AddFinalizer
<1>2. CASE Resolve
  <2>1. rw.obj.tenant # None
    BY <1>2 DEF Resolve, TypeInv, Equipped
  <2>2. /\ rw'.pc \in RequestSteps /\ rw'.key = rw.key /\ rw'.obj = rw.obj
    BY <1>0, <1>2 DEF Resolve, RequestWorkers, RequestSteps
  <2> QED  BY <1>2, <1>goes, <2>1, <2>2 DEF Resolve, hubVars
<1>3. CASE ReadHubSecret
  <2>1. CASE Retry
    BY <1>3, <1>retried, <2>1 DEF ReadHubSecret, hubVars
  <2>2. CASE \E data : rw' = [rw EXCEPT !.pc = "copy", !.data = data]
                       /\ UNCHANGED queue
    <3>1. rw'.pc = "copy" /\ rw'.key = rw.key /\ rw'.obj = rw.obj
      BY <1>0, <2>2 DEF RequestWorkers
    <3> QED
      BY <1>3, <1>goes, <2>2, <3>1 DEF ReadHubSecret, hubVars, RequestSteps
  <2> QED  BY <1>3, <2>1, <2>2 DEF ReadHubSecret
<1>4. CASE CopySecret \/ Plan \/ Sweep \/ CleanSecret
  <2>1. /\ rw'.pc \in RequestSteps \ {"report"} /\ rw'.key = rw.key
        /\ rw'.obj = rw.obj
    BY <1>0, <1>4
       DEF CopySecret, Plan, Sweep, CleanSecret, RequestWorkers, RequestSteps
  <2> QED  BY <1>4, <1>goes, <2>1 DEF CopySecret, Plan, Sweep, CleanSecret, hubVars
<1>5. CASE CreateVM \/ DeleteVM \/ CleanVM
  <2>1. /\ rw'.pc = rw.pc /\ rw'.key = rw.key /\ rw'.obj = rw.obj
        /\ rw.pc \in {"apply", "clean"}
    BY <1>0, <1>5 DEF CreateVM, DeleteVM, CleanVM, DeleteCall, RequestWorkers
  <2>2. UNCHANGED <<hub, queue, timers>>
    BY <1>5 DEF CreateVM, DeleteVM, CleanVM, DeleteCall, hubVars
  <2> QED  BY <1>goes, <2>1, <2>2 DEF RequestSteps
<1>6. CASE Observe
  <2>1. rw.obj.tenant # None
    BY <1>6 DEF Observe, TypeInv, Equipped, SpokeSteps
  <2>2. rw'.pc = "report" /\ rw'.key = rw.key /\ rw'.obj = rw.obj
    BY <1>0, <1>6 DEF Observe, RequestWorkers
  <2> QED  BY <1>6, <1>goes, <2>1, <2>2 DEF Observe, hubVars, RequestSteps
<1>7. CASE Report
  BY <1>7, ReportRemembers
<1>8. CASE Release
  <2>1. WritesQueued /\ rw.key \in queue'
    BY <1>0, <1>8 DEF Release, WritesQueued, TypeOK
  <2> QED  BY <1>0, <1>8, <2>1, EndRemembers DEF Release
<1> QED
  BY <1>1, <1>2, <1>3, <1>4, <1>5, <1>6, <1>7, <1>8 DEF RequestStep

LEMMA FetchRemembers ==
    ASSUME TypeInv, Remembered, NEW r \in Requests, Fetch(r)
    PROVE  Remembered'
<1>0. /\ rw.pc = "idle" /\ UNCHANGED <<hub, timers>>
      /\ queue' = queue \ {r}
  BY DEF Fetch, hubVars
<1>1. ASSUME NEW s \in Requests \ {r}, Owed(s)'
      PROVE  s \in queue' \cup timers'
  <2>1. Owed(s)
    BY <1>0, <1>1 DEF Owed
  <2> QED  BY <1>0, <1>1, <2>1 DEF Remembered, NeverForgotten
<1>2. CASE Start(hub[r]) = "idle"
  <2>1. rw'.pc = "idle"
    BY <1>2 DEF Fetch, Idle
  <2>2. ~Owed(r)'
    BY <1>0, <1>2 DEF Start, Owed
  <2> QED
    BY <1>1, <2>1, <2>2 DEF Remembered, NeverForgotten, StaleIsQueued, SaysMissing
<1>3. CASE Start(hub[r]) # "idle"
  <2>1. /\ rw'.pc = Start(hub[r]) /\ rw'.key = r /\ rw'.obj = hub[r]
        /\ rw'.pc = "report" => rw'.status = MissingTenantStatus(hub[r].region)
    BY <1>3 DEF Fetch
  <2>2. rw'.pc = "report" => hub[r].phase = "live"
    <3>1. hub[r].phase \in {"live", "deleting", "absent"}
      BY DEF TypeInv, TypeOK, Objects, Absent
    <3> QED  BY <2>1, <3>1 DEF Start
  <2>3. StaleIsQueued' /\ SaysMissing'
    BY <1>0, <2>1, <2>2 DEF StaleIsQueued, SaysMissing
  <2>4. NeverForgotten'
    BY <1>1, <1>3, <2>1 DEF NeverForgotten
  <2> QED  BY <2>3, <2>4 DEF Remembered
<1> QED  BY <1>2, <1>3

LEMMA UsersRemember ==
    ASSUME TypeOK, Remembered, NEW r \in Requests,
           Order(r) \/ Scale(r) \/ Delete(r) \/ Edit(r)
    PROVE  Remembered'
<1>1. UNCHANGED <<rw, timers>> /\ \E o : Write(r, o)
  BY DEF Order, Scale, Delete, Edit, Change
<1>2. WritesQueued
  BY <1>1 DEF Write, WritesQueued, TypeOK
<1> QED  BY <1>1, <1>2, SurroundingsRemember

LEMMA OthersRemember ==
    ASSUME TypeInv, Remembered,
           \/ StatusStep \/ KubeVirt \/ Faults
           \/ \E r \in Requests : Tick(r)
           \/ \E ns \in HubNamespaces, name \in SecretNames :
                 RewriteSecret(ns, name)
           \/ UNCHANGED vars
    PROVE  Remembered'
<1>0. TypeOK
  BY DEF TypeInv
<1>same. ASSUME UNCHANGED <<hub, queue, timers, rw>>
         PROVE  Remembered'
  BY <1>0, <1>same, SurroundingsRemember DEF WritesQueued
<1>1. CASE StatusStep
  <2>1. CASE UNCHANGED <<hub, queue>>
    BY <1>1, <1>same, <2>1 DEF StatusStep, FetchVM, ObserveForStatus,
                               ReportForStatus
  <2>2. CASE ReportForStatus /\ Patch(sw.key, sw.status)
    <3>1. sw.key \in Requests
      BY <1>0, <2>2 DEF TypeOK, ReportForStatus, StatusWorkers, Idle
    <3>2. WritesQueued
      BY <1>0, <2>2, <3>1, PatchQueued
    <3> QED  BY <1>0, <2>2, <3>2, SurroundingsRemember DEF ReportForStatus
  <2> QED
    BY <1>1, <2>1, <2>2
       DEF StatusStep, FetchVM, ObserveForStatus, ReportForStatus, hubVars
<1>2. CASE \/ KubeVirt \/ StatusCallFails
           \/ \E v \in vms : Stopped(v) \/ DeletedOutOfBand(v)
           \/ \E g \in Regions : Engage(g) \/ Disengage(g)
           \/ \E ns \in HubNamespaces, name \in SecretNames :
                 RewriteSecret(ns, name)
           \/ UNCHANGED vars
  BY <1>2, <1>same
     DEF KubeVirt, Started, Terminated, StatusCallFails, Stopped,
         DeletedOutOfBand, Engage, Disengage, RewriteSecret, Change, Fault,
         hubVars, vars
<1>3. ASSUME NEW r \in Requests, Tick(r)
      PROVE  Remembered'
  <2>1. WritesQueued /\ timers \subseteq timers' \cup queue' /\ UNCHANGED rw
    BY <1>3 DEF Tick, WritesQueued, hubVars
  <2> QED  BY <1>0, <2>1, SurroundingsRemember
<1>4. CASE RequestCallFails
  <2>1. rw.key \in Requests
    BY <1>0, <1>4 DEF RequestCallFails, TypeOK, RequestWorkers, Idle
  <2>2. /\ WritesQueued /\ rw.key \in queue' /\ rw' = Idle
        /\ UNCHANGED timers
    BY <1>4 DEF RequestCallFails, Retry, Fault, WritesQueued, hubVars
  <2> QED  BY <1>0, <2>1, <2>2, EndRemembers
<1>5. ASSUME NEW spokes, Restart(spokes)
      PROVE  Remembered'
  <2>1. /\ rw'.pc = "idle" /\ UNCHANGED hub
        /\ queue' = {r \in Requests : hub[r].phase # "absent"}
    BY <1>5 DEF Restart, Idle, Fault, hubVars
  <2> QED
    BY <2>1 DEF Remembered, NeverForgotten, StaleIsQueued, SaysMissing, Owed
<1> QED  BY <1>1, <1>2, <1>3, <1>4, <1>5 DEF Faults

(***************************************************************************)
(* A request that needs the controller is always about to be looked at     *)
(* again: queued, timed or in hand.  No write of a user or of the other    *)
(* worker gets lost between a read and the end of the reconcile, and no    *)
(* failed call or restart drops a key (Reconcile, patchStatus), for any    *)
(* number of requests and spokes.                                          *)
(***************************************************************************)
THEOREM NoRequestForgotten == Spec => []NeverForgotten
<1>1. Init => TypeInv /\ Remembered
  <2>1. Init => Remembered
    BY DEF Init, InitWith, Remembered, NeverForgotten, StaleIsQueued,
           SaysMissing, Owed, Absent, Idle
  <2> QED  BY <2>1, InitType DEF Init
<1>2. TypeInv /\ Remembered /\ [Next]_vars => TypeInv' /\ Remembered'
  <2> SUFFICES ASSUME TypeInv, Remembered, [Next]_vars
               PROVE  Remembered'
    BY StepType
  <2> QED
    BY RequestStepRemembers, FetchRemembers, UsersRemember, OthersRemember
       DEF TypeInv, Next, Steady, Faults
<1>3. Remembered => NeverForgotten
  BY DEF Remembered
<1> QED  BY <1>1, <1>2, <1>3, PTL DEF Spec
=============================================================================
