# Verification of the kro-lab platform controllers

This directory holds TLA+ specifications of the programs in this repository,
the TLC configurations that check them on small instances, and proofs for TLAPS.
It is meant to be read beside the Go code: every definition names the code it
stands for in `PROJECT.json` ("map"), and names follow the source where TLA+
allows it.

## 1. The system

A hub cluster takes orders, spoke clusters run the workloads. A tenant applies a
`VmSetIntent` or a `BucketIntent`; Kro expands it into one *request* per region;
one controller per service places each request on a spoke and reports back.

| Part | State | Operations | Talks to |
|------|-------|------------|----------|
| Kro graphs, request CRDs (`deploy/.../vmset-rgd.yaml`, `bucket-rgd.yaml`, `chart/crds`) | request objects, cloud-init Secrets on the hub | create, rescale, delete a request; which fields may change | API server |
| VM planning rules (`vm-binding-controller/domain`) | none | `DesiredVMNames`, `PlanVMs`, `ReadyStatus`, the other statuses | pure |
| VM request controller (`.../controller/reconciler.go`) | work queue, requeue timers, one worker's local variables | `Reconcile`, `syncSecret`, `syncVMs`, `syncStatus`, `finalize`, `cleanSpoke` | hub API, spoke API, provider's cluster map |
| VM status controller (`.../controller/status_reconciler.go`) | work queue of VM events, one worker's local variables | `Reconcile`, `syncStatus`, `patchStatus` | spoke watch and API, hub API |
| Bucket request controller (`bucket-binding-controller/controller/reconciler.go`) | as above | `Reconcile`, `spokeFor`, `syncClaim`, `finalize`, `deleteClaim` | hub API (also lists ClusterProfiles), spoke API |
| Bucket status controller | work queue of claim events | `Reconcile`, `syncStatus` | spoke watch, hub API |
| Cluster inventory provider (`providers/cluster-inventory-api`) | engaged clusters, their identity keys, cancel functions, index registrations | `Run`, `discover`, `disengageCluster`, `Get`, `IndexField` | hub API, multicluster manager |
| OIDC verifier (`oidc-verifier`) | key set behind a lock | `refreshJWKS`, `handleVerify`, `handleHealthz` | JWKS endpoint, HTTP clients |
| Processes (`main.go` of each controller) | one pod, two controllers, the provider in a goroutine beside the manager | start, stop, restart | all of the above |
| Charts, scripts, dashboards, end-to-end suite | none of the program's own | deployment | - |

The two workers of a controller never call each other. They meet in the objects:
both patch the same request's status, both read the same VMs or claims, and
every write comes back to the one that watches the written kind. The provider
meets them in the map of engaged clusters.

### What is hard here

* **Interleaving.** Between any two API calls of a worker, the other worker,
  users, KubeVirt or Rook and the provider may act. What a worker read stays in
  its local variables, and is used long after.
* **Failure.** Any call may fail; the key is tried again from the start. The
  process may stop anywhere; work queues and timers are lost, objects are not.
* **Ordering.** Finalizer before anything on the spoke; Secret before VMs; VMs
  gone before the finalizer. Status patches carry no resourceVersion, so a late
  one wins.
* **Repair.** Nobody watches hub Secrets, and request controllers do not watch
  spokes: drift is repaired by `RequeueAfter` alone.
* **Discovery.** Spokes appear after the workers have started, and may vanish
  while a worker uses one.

### What makes each part correct

| Part | Properties | State |
|------|------------|-------|
| VM planning rules | a carried-out plan leaves exactly the wanted names to stay; the lowest come first when scaling up, the newest go first when scaling down | checked, proved |
| VM controllers | nothing runs without a request that holds its finalizer; creates in order; only own VMs deleted; released only after cleaning; no request dropped by queue, timer and worker; what is in sync is never undone; convergence; deletion ends; status tells the truth in the end | checked, safety proved |
| Bucket controllers | a claim never outlives its request's finalizer; a release waits until the claim is gone; no request dropped by queue, timer and worker; quotas and bucket names are what was ordered; a right placement is never taken back; convergence; deletion ends | checked, safety proved |
| Provider | one engaged cluster per matching profile with its current identity; stale ones disengaged, live ones kept; no cluster started and forgotten; every cluster asked once for every index | checked, safety proved |
| OIDC verifier | keys of the trust file stay; the ring changes by whole documents only, so a failed refresh changes nothing; a token is verified only by a key the ring had since its request arrived; the endpoint's keys come in the end; no request waits for ever | checked, safety proved |

## 2. Modules

* `VmDomain` - the pure rules of `domain.go`: names, indexes, `PlanVMs` and the
  order in which its two lists are worked off (`NextCreate`, `NextDelete`), and
  the statuses. A name's spelling is abstracted to what `vmIndex` tells apart.
* `VmPlan` - carries out plans of `VmDomain` call by call, as the two loops of
  `syncVMs` do, cut short anywhere and planned again for another number of
  replicas. A VM whose Delete was called lingers (`going`) until KubeVirt has
  taken it down, in any order, and the list that is planned from counts it as
  there. The VMs present can therefore have gaps (0 and 2, on the way from 3 to
  1), and a finished plan lacks the wanted ones that were terminating when it
  was made (`vanished`); the next resync creates them. `VmPlanProofs` - theorems about it.
* `Custody` - the abstract promise of any binding controller: a request is held
  (finalizer) before work is started for it, and let go only when no work of it
  is left. Written for VMs and claims alike.
* `VmBinding` - the VM controllers. One action per API call of the request
  worker (`Fetch`, `AddFinalizer`, `Resolve`, `ReadHubSecret`, `CopySecret`,
  `Plan`, `CreateVM`, `DeleteVM`, `Observe`, `Report`, `Sweep`, `CleanVM`,
  `CleanSecret`, `Release`) and of the status worker (`FetchVM`,
  `ObserveForStatus`, `ReportForStatus`); users; KubeVirt; faults.
* `VmBindingProofs` - types and custody in `VmBinding`; `VmSafetyProofs` - its
  action properties, its Secrets, and the refinement of `Custody`;
  `VmStabilityProofs` - that what is in sync stays so.
* `BucketDomain` - the pure rules of the bucket service's `domain.go`: bucket
  names and their check, region resolution, statuses. A name is the sequence of
  the words its dashes separate, so that two pairs can make one name.
* `BucketBinding` - the bucket controllers. Request worker: `Fetch`,
  `AddFinalizer`, `Resolve`, `Lookup`, `SyncClaim`, `Observe`, `Report`,
  `DeleteClaim`, `Confirm`, `Release`; status worker: `FetchClaim`,
  `ResolveForStatus`, `ObserveForStatus`, `ReportForStatus`; Rook; users;
  admins, who add, relabel and remove ClusterProfiles; faults; the provider.
* `BucketBindingProofs` - theorems about `BucketBinding`; `BucketStabilityProofs` -
  that a right placement stays so.
* `Fleet` - the abstract promise of the cluster provider: which clusters run for
  the manager, when one may start and for what cause it may stop.
* `ClusterProvider` - the provider: the polling loop (`List`, `Examine`, `Build`,
  `Publish`, `IndexNew`, `Engage`, `Sweep`), `IndexField` (`Register`, `Walk`),
  and the hub's admins. What `Engage` and `Disengage` do in the other two
  modules is what this one does to a controller that uses it.
* `ClusterProviderProofs` - theorems about `ClusterProvider`.
* `KeyRing` - the abstract promise of the OIDC verifier: a ring of keys that
  grows by whole documents, and answers that only keys of the ring justify.
* `OidcVerifier` - the verifier: `main` (`Start`), the refresh loop (`Fetch`,
  `FetchFailed`, `Lock`, `BeginAssign`, `EndAssign`, `Unlock`, `Wake`), any
  number of `handleVerify` goroutines (`Arrive`, `Copy`, `Lookup`,
  `ConcurrentMapRead`), the endpoint (`Rotate`), the kubelet's liveness probe
  (`ProbeRestart`) and `Crash`.
  `OidcVerifierProofs` - theorems about it.
* `MCVmDomain`, `MCVmBinding`, `MCBucketBinding`, `MCClusterProvider`,
  `MCOidcVerifier` - the instances TLC checks.

Definitions whose name starts with `Slip` are slips a programmer could make in
the definition below them. They are not used by any specification; each shows
that some property would notice.

### How `VmBinding` corresponds to the code

| Variable | Code |
|----------|------|
| `hub` | the `RegionalVmSetRequest` objects: existence, deletionTimestamp (`phase`), `Finalizer` (`fin`), tenant label, spec and `status.regions` |
| `hubSecrets` | contents of the cloud-init Secrets Kro keeps on the hub |
| `vms`, `spokeSecrets` | `VirtualMachine`s and Secrets on every spoke; `going` is a deletionTimestamp |
| `engaged` | the provider's `clusters` map, as `GetCluster` sees it |
| `queue`, `timers` | the request controller's work queue and its pending `RequeueAfter`s |
| `events` | the status controller's work queue |
| `rw`, `sw` | the local variables of the two workers and the call they are at (`pc`) |

A worker's record keeps what the code keeps: the object it read (`obj`; after
the finalizer patch, the object with the status of the patch's answer but the
request parsed before), the spoke's client, the Secret's data, the plan.

Facts of the libraries the model relies on, as the code uses them:
unstructured objects are read live and not from a cache (controller-runtime
0.20); one worker per controller, so a key is never worked on twice at once; an
error is retried, a `TerminalError` is not; `client.MergeFrom` patches carry no
resourceVersion; an object whose finalizers are all gone is removed.

Calls merged into one step, because nothing can come between them that they
would notice: `syncSecret`'s read and write of the spoke Secret (this worker is
the only writer of Secrets of that name), and the status worker's read of a VM
and of its owner (a VM's labels never change). A planned name that exists
already is `AlreadyExists`, which the code swallows.

### How `BucketBinding` corresponds to the code

| Variable | Code |
|----------|------|
| `hub` | the `RegionalBucketRequest` objects, as above; `size` stands for the tier's `maxSize` and `maxObjects` |
| `profiles` | the region label of each `ClusterProfile` the selector matches, as `clusterNameFor` lists them |
| `claims` | `ObjectBucketClaim`s on every cluster: the owner labels, the quota, whether Rook has bound it (`bound`), written its ConfigMap (`config`) or must remove it (`going`) |
| `engaged`, `queue`, `timers`, `events`, `rw`, `sw` | as for VMs; a `CleanupInterval` is a timer like a `RequeueInterval` |

What differs from VMs: the cluster is looked up in two calls, profiles first
(`Resolve`), then the provider's map (`Lookup`); a claim is found, kept and
deleted by name, whoever its labels name; nobody watches ConfigMaps; and a
deletion is confirmed before the finalizer goes. Rook is external: a claim may
become Bound and get its ConfigMap in either order, a deleted one stays with
its finalizer until Rook has removed the bucket. `SyncClaim` merges the look for
a claim with its creation, since no one else creates claims, and a create that
meets one is swallowed all the same. Left out: the least length of a bucket name
(with a tenant no name is too short), the endpoint (known exactly when Ready),
and the reconcile counter.

### How `ClusterProvider` corresponds to the code

| Variable | Code |
|----------|------|
| `profiles`, `secrets` | the `ClusterProfile`s the selector matches, and their kubeconfig Secrets: `identity` is server and CA, `usable` says whether it can be read and parsed |
| `clusters` | `p.clusters` and `p.clusterKeys` in one map: the endpoint a client was built for and the key that was hashed |
| `running` | started clusters of a name whose context is not cancelled, `p.cancelFns` and the goroutines they stop |
| `indexes`, `applied` | `p.indexes`, and how often the cluster in the map was given each |
| `refused` | the indexes it refused to `discover`, which drops the error |
| `answered` | the indexes for which `IndexField` returned nil |
| `dw`, `ix` | the local variables of `discover` and of `IndexField`, and where each is |

The Secret is read twice for one cluster, by `readClusterKey` and by
`clusterFromClusterProfile`, and may change in between, so `key` and `identity`
of an entry can differ. Reading the key, comparing and disengaging are one step,
since only this loop writes what is compared. A `List` that fails ends the poll
without any change. A cluster created anew has a CA never seen before, hence
identities count up.

Putting an index on a cluster asks its API server, so any cluster may refuse it:
to `discover`, which drops the error and engages the cluster without that index
(`provider.go:213`), or to `IndexField`, which stops and returns the error. A
cluster that `IndexField` holds and that is cancelled meanwhile (`lost`) may
refuse or take the index unnoticed. What holds is `IndexedOnce`: no cluster is
asked twice for one index, and an engaged cluster lacks one that was answered nil
for only if it refused it to `discover`. An error of `cl.Start`, which the
goroutine drops too, is not modelled: `running` counts the clusters started and
not cancelled, whether their caches work or not. `Get` is one read of the map
under the lock. `IndexField` is called once per index and by one goroutine, as
the manager sets controllers up.

### How `OidcVerifier` corresponds to the code

| Variable | Code |
|----------|------|
| `published` | the document behind `jwks_uri`, as the endpoint would answer now |
| `trust` | the file of `--trust-jwks`; `{}` where the flag is not set |
| `keys`, `locked` | `s.keySet`, and whether `s.mu` is write-locked |
| `serving` | `main` is past its first refresh, at `ListenAndServe` |
| `rf` | the local variables of `refreshJWKS`: the parsed document (`fresh`), the kids still to be assigned, the one being assigned |
| `handlers` | the local variables of `handleVerify`; `since` is a history: the keys the ring had under the token's kid since the request came |

`refreshJWKS` merges into the one map that handlers hold a reference to, and
they read it after `RUnlock`. An assignment therefore takes two steps, and a
read between them finds the old key, the new one or nothing, or the runtime
stops the process (`ConcurrentMapRead`; Go 1.23 checks for it, not reliably).
Fetching and parsing are one step: nobody sees what lies between. A key is
reduced to who signs with it; `Junk` stands for what a field that is not base64
yields without an error, `Unusable` for a key that makes `parseJWKSKeys` fail.
A token is its kid, its signer, and whether algorithm, issuer, audience and
times are accepted (the JWT library's checks). The probe is that of
`chart/spoke/templates/oidc-verifier.yaml`: `/healthz` fails without keys, the
third failure comes 23 seconds after the start or later, when the first fetch,
of at most ten seconds, is over. A trust file that does not parse ends `main`
before anything, hence it is an assumption that it does.

## 3. Runs

| Run | Instance | Shows |
|-----|----------|-------|
| `vm_domain` | `MCVmDomain`, an instance of `VmPlan` | plans over every set of present and of terminating VMs, foreign spellings included, cut short anywhere and planned again: what a finished plan leaves, that creation fills from the bottom (`LowestComeFirst`), that deletion takes the newest surplus first |
| `vm_steady` | one request, two VMs, two disturbances, the hub Secret rewritten or missing | `NoOrphan`, `BootsFromSecret`, that the controller implements `Custody`, that what is in sync is undone by users and spokes only (`StaysInSync`), and that spoke and hub agree in the end |
| `vm_pair` | two requests of one namespace sharing a Secret name: the process starts when one was served and is being deleted, and the other was just ordered; one disturbance more | `NoOrphan`; neither deletes the other's VMs; the Secret the first takes along comes back, and the second is in sync in the end |
| `vm_edits` | the program as `main.go` starts it, edits of tenant, region and Secret name, spokes that come and go | types, no request that needs the controller is dropped (`NeverForgotten`), order of creation, cleaning before release, end of deletion, final status |
| `vm_finalizer` | one request, two VMs, three disturbances | *violation*: the finalizer goes while VMs are still being taken down, against `reconciler.go:30` and `architecture.md:93` |
| `vm_startup` | full specification | *violation*: after a restart, a deleting request reconciled before its spoke is engaged is released over running VMs |
| `bucket_steady` | one request, two clusters serving its region, four disturbances | `HeldUntilGone`, that the controller implements `Custody`, that the request gets its bucket in the end, and that only users and the cluster take it back (`StaysPlaced`) |
| `bucket_open` | the program as `main.go` starts it: one cluster whose profile changes or that is lost, edits of tenant and region, also to a name that is no bucket name; three disturbances | types, no request that needs the controller is dropped (`NeverForgotten`), creation under the finalizer, release after the claim is gone, end of deletion, final status |
| `bucket_quota` | as `bucket_steady`, two sizes | *violation*: a request ordered again between the read and the finalizer patch gets a claim of the old size, against `reconciler.go:151` |
| `bucket_names` | two tenants, one called like the other plus a word | *violation*: two claims for one bucket name, against `domain.go:72` |
| `provider` | two profiles of different names, two indexes, three changes or failures | no cluster runs forgotten, none is asked twice for an index or lacks one it did not refuse, no stale client under the key of the present incarnation (`StaleIsNoticed`), the provider implements `Fleet`, and polling ends with the right clusters engaged and leaves them alone |
| `oidc` | two kids, two keys, five documents, a trust file or none, one request at a time, four disturbances | types; trusted kids keep a key; the verifier implements `KeyRing`; the endpoint's keys come in the end; every request is answered |

**Bounds.** `MaxDisturbances` bounds how often users change something or
something fails in one behaviour; everything the program and the clusters do by
themselves is unbounded. Three is enough for order, delete and one fault, or
order, rescale and delete, with the workers, KubeVirt and both queues
interleaved freely. `vm_pair` starts after an order, its service, a deletion and
another order, so that the liveness of two requests stays checkable; any one
further change or fault may follow. Its safety properties are proved for any number of
requests and disturbances. `vm_steady` affords two, as its Secret also changes and two
VMs multiply the states: order and delete, or an order and a fault. Its safety
properties are proved for any number; four disturbances with one content of the
Secret were tried by hand with the same result. `bucket_steady` affords four: order, delete, order again and a fault.
`MaxWords` is above every name of an instance, except in `bucket_open`, where
editing the tenant makes a name too long. `MaxReplicas` 2 gives a first and a second VM, so a loop can be cut in
between; 1 where two requests or two regions already multiply the states.
No run uses symmetry: the instances have one or two requests that differ.
Deadlock is checked in `oidc` only, whose refresh loop never ends. Elsewhere a
behaviour may rightly stop, with its disturbances used up and nothing to repair.
One request at a time is enough for `oidc`: handlers do not see each other. Two
were tried by hand (240 000 states), and the proofs are for any set of them.

**Fairness.** `WF` on the workers' own steps (goroutines run); `SF` on taking a
given key, since controller-runtime's queue is first in, first out and a waiting
key is served though the worker is busy in between; `WF` on a `RequeueAfter`
timer; `WF` on KubeVirt starting and removing VMs (`runStrategy: Always`) and on
Rook finishing what it started, as one actor with finitely much to do; `WF` on
the provider engaging a matching spoke, as it polls for ever. No fairness on
users or faults, and none on edits.

On the verifier: `WF` on the refresh loop and on a handler's read of the map,
`SF` on a handler's read lock, since `sync.RWMutex` lets waiting readers in when
a writer leaves; none on crashes, probes, rotation, or a read during a write.

On the provider: `WF` on the polling loop, as its ticker ticks for ever and calls
that fail are counted as disturbances, and on a running `IndexField`.

## 4. Proofs

`VmBindingProofs` proves, for every value of the constants:

* `TypeCorrect == Spec => []TypeOK`. `TypeOK` is not inductive: `ReadHubSecret`
  and its successors are well-typed only for a request that parsed and has a
  tenant, on a spoke that was found, with data that was read. `Equipped` says
  so, and `TypeInv == TypeOK /\ Equipped` is inductive.
* `NoOrphans == SteadySpec => []NoOrphan`. Needed besides: where requests,
  worker and VMs are placed (`PlacedAtHome`: the list of `cleanSpoke` looks where
  the VMs are), that from the finalizer check on the request is held
  (`HeldWhileWorking`: only the one worker releases), and what is left to
  delete (`SweptBeforeRelease`: each VM of the request is going or still in the
  plan). TLC checked the three with `TypeOK` and `Equipped` before they were
  proved.

`VmSafetyProofs` adds, under the full specification and from
`TypeInv /\ OrderInv`:

* `VMsCreatedInOrder == Spec => CreatedInOrder`: needs `HeldWhileWorking`, and
  `SecretCopied` (from the copy to the last creation the Secret is beside the
  VMs, since the one worker that could remove it is busy creating).
* `OnlyOwnVMsDeleted == Spec => DeletesOnlyOwn`: needs `UniqueVMs` (a place and a
  name have one VM) and `DeletesAreOwn` (what a plan or a sweep has listed is the
  request's own). It holds for every `NameOf`, so also for requests that want
  VMs of one name.
* `ReleasesAfterCleaning == Spec => ReleasedAfterCleaning`: needs `SpokeCleaned`
  (what was listed is all there was, and nothing came after).
* `VMsBootFromSecrets`: `SteadySpec => []BootsFromSecret`, assuming
  `SecretsNotShared`: of two requests that share one, the first to go takes the
  Secret along, until the other restores it (`vm_pair`).
* `ImplementsCustody == SteadySpec => KeepsCustody`: the refinement of `Custody`,
  step by step, from `TypeInv` and `CustodyInv`.
* `NoRequestForgotten == Spec => []NeverForgotten`, the safety core of convergence
  and of `DeletionEnds`: a deleted request still held, and a live one that can be
  understood, is queued, timed or in the worker's hands. It needs
  `StaleIsQueued` (a read that is no longer true has its key queued again, since
  every write to a request comes back as an event) and `SaysMissing` (the one
  branch of a live request that ends without `RequeueAfter` has just written
  why). A request without a tenant is excused once its status says so: the
  event of adding the label brings it back.

`VmStabilityProofs` proves `SyncIsStable`: `SteadySpec => StaysInSync`, the safety
half of convergence. `EventuallyInSync` says that `AtRest` comes and stays when
users and faults leave a request alone; the theorem says that the program itself
never ends it. That spoke and hub agree is not enough: a worker may hold an
older read, and would undo it. So `AtRest` also says of each worker that what it
has read and is about to write agrees with the objects. The two workers' status
patches are the delicate part: both compute the status from the same list, so
the answer of one is never news to the other. The theorem assumes
`OneHubNamespacePerTenant`, as Kro sets it up (the tenant label is the
namespace's name, `vmset-rgd.yaml`): otherwise two hub Secrets could take turns
in one place on the spoke.

`VmPlanProofs` proves the three properties of `vm_domain` (`FinishedPlansAreDesired`,
`LowestVMsComeFirst`, `NewestVMsGoFirst`) for any set of names and any number
of replicas, from `PlanInv`: what is left to create is what is wanted and neither
there nor vanished since the plan was made, and what is left to delete covers all
surplus that is not terminating, and no wanted VM.

`BucketBindingProofs` proves, likewise:

* `TypeCorrect == Spec => []TypeOK`, with `Equipped` for what `syncClaim` relies
  on: a cluster that was found, a tenant and a bucket name that were checked.
  That a region with clusters has a first one is `ResolvedServes`, from the
  well-foundedness of the natural numbers.
* `ClaimsCreatedHeld == Spec => CreatedHeld` and
  `ReleasesWhenGone == Spec => ReleasedWhenGone`, action properties of the full
  specification. They need `HeldWhileWorking` (past its checks, a worker's
  request is held) and `GoneAtRelease` (between the last look and the release no
  claim comes back), and that every other step only lets claims fade and keeps
  finalizers (`OnlySyncClaimCreates`, `OnlyReleaseReleases`).
* `ClaimsHeldUntilGone == SteadySpec => []HeldUntilGone`, with `Settled` (every
  claim lies on the one cluster and under the one name the worker looks at) and
  `NothingLeft` (a worker about to release has no claim left to lose).
* `ImplementsCustody == SteadySpec => KeepsCustody`: the refinement of `Custody`,
  step by step, from the same invariant.
* `NoRequestForgotten == Spec => []NeverForgotten`, as for VMs, with the
  re-checks of a deletion that waits for Rook.
* `BucketsOfTenantsDistinct`: `Spec => []BucketsDistinct`, assuming
  `NoTenantBeginsAnother`. Nothing in the code enforces that; `bucket_names` finds
  two tenants that break it. The theorem shows that it is all that is missing:
  under it joining with a dash loses nothing (`BucketNameInjective`), and a
  cluster never has two claims of one name (`UniqueClaims`).

`BucketStabilityProofs` proves `PlacementIsStable == SteadySpec => StaysPlaced`,
with `AtRest` as for VMs. Here a claim may be shared, deleting is waited for, and
the ConfigMap comes after the claim: a worker that saw the claim before it was
bound must not write Pending over Ready.

`ClusterProviderProofs` proves `TypeCorrect == Spec => []TypeOK`,
`NoneIsForgotten == Spec => []NoneForgotten`,
`IndexesOnce == Spec => []IndexedOnce`,
`StaleClientsAreNoticed == Spec => []StaleIsNoticed` and
`ImplementsFleet == Spec => KeepsFleet`:

* for the first two, `Equipped`: `discover` has disengaged a name before it builds
  for it anew, so a client that fails to build or to engage has nothing left
  behind; one lemma says what `disengageCluster` does to map and goroutines.
* for the third, `Accounted`: an index that is recorded is on a cluster once,
  or was refused by it to `discover`, or is owed to it by exactly one of `discover`
  and `IndexField`, but for a walk that ended with an error. It rests on the two
  copies being taken under the lock that also publishes a cluster.
* for the fourth, `HeldInOrder` and `PublishedInOrder`: the key was hashed no later
  than the client was built, and that no later than now. A key equal to the
  present identity then leaves no room for an older client. Hashing after
  building (`SlipHashAfterBuild`) would break it.
* for the fifth, the same and `Listed`: what a poll works on, it has listed. To
  `Fleet` a cluster counts from `cl.Start` on, so `Publish` is a stutter and a
  refused index a call that failed; what `Fleet` calls the incarnation it was
  taken for is the hashed key.

`OidcVerifierProofs` proves `TypeCorrect == Spec => []TypeOK`,
`TrustIsKept == Spec => []TrustKept` and
`ImplementsKeyRing == Spec => KeepsKeyRing`, from `RingInv`: the lock is held
exactly while keys are merged (`LockHeld`); what is merged is a document that
parsed as a whole (`FromDocument`); kids no longer to be assigned have their new
key (`MergedSoFar`), so that the ring, the map as it will be when the lock is
free, takes the whole document in one step; and a handler past its copy may find
only keys the ring had since its request came (`SinceArrival`).

TLC checked each of these invariants on the instances before it was proved.

Assumptions on constants are in `VmBindingAssumption`, `VmPlanAssumption`,
`BucketBindingAssumption`, `ClusterProviderAssumption` and
`OidcVerifierAssumption`: Kro's placements are placements, clusters are
numbered, the bounds are numbers, the wanted names are among the names, the
trust file parses, `None` is none of the values.

Only model-checked: liveness, for which TLAPS has no rules of fairness. Every
other property of a passing run is proved. No definition is recursive.

## 5. Plan

What could follow:

1. Two processes at once, as a rolling update runs them: a second copy of both
   workers over the same objects. The copies multiply the states far beyond
   what a run of minutes can visit, so this is a matter for proofs first.
2. `Fleet` as the environment of the binding modules: their `Engage` and
   `Disengage` as its `Connect` and `Dismiss`. It takes an identity per spoke in
   `VmBinding` and `BucketBinding`, which their properties do not otherwise need.
3. That the bucket controller deletes only claims of the request it works on
   where no two requests share a claim.

## 6. Not modelled

* Flags and their validation (`config.go`): read once, before any state exists.
* Metrics and logging: no state the program reads again.
* Signature, issuer, audience and time checks of a token, and the bytes of a
  key: the JWT and crypto libraries' work.
* Two processes at once in a rolling update (see above).
* Whether two requests that collide in their VM names both end up served: each
  leaves the other's VMs alone (`DeletesOnlyOwn`, proved), and the second is
  not Ready while the first's VMs are there; nothing in the repository promises more.
* Charts, scripts, dashboards and the end-to-end suite: no program of their own.
* Third-party code (Kro, KubeVirt, Rook, controller-runtime) beyond what the
  controllers see of it.
