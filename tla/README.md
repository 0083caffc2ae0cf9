# The Astarte Kubernetes operator in TLA+

The operator turns three custom resources, `Astarte`, `Flow` and
`AstarteDefaultIngress`, into Deployments, StatefulSets, Secrets, Services,
PriorityClasses and Ingresses. Everything it does is done by *reconcilers*:
loops that take a key from a work queue, read a snapshot of the resource from an
informer cache that lags the API server, and then make one API call after the
other, each of which may fail, conflict or be the last one the process makes.
The interesting question is never what one call does but what is left behind
when the calls of several runs, and those of users and of Kubernetes'
controllers, interleave. That is what the modules here model.

Paths are relative to the repository's root unless they start with `tla/`.

## 1. Inventory

| Component | State it keeps | Operations | What is hard | What makes it correct |
|---|---|---|---|---|
| Astarte controller (`internal/controller/api`, `internal/controllerutils/astarte_*.go`) | spec, status, finalizer, deletion mark of the resource; the informer's copy; a work-queue key | Reconcile: coherency of the status, finalizer, upgrade gate, deployment, status report; finalization; event filter | stale snapshots, optimistic lock, retries, crash between steps, same name recreated, event filtering | a snapshot never acts on a successor; nothing is deployed before the finalizer; upgrades are gated by health; status and deletion settle |
| Generated secrets (`internal/reconcile/common.go`, `utils.go`, `cfssl.go`) | housekeeping key pair, secret key base, Erlang cookie, CA, CA proxy | look up, generate, create or update | the look-up is stale; a pair is written in two steps | a secret that is in use is not replaced (the cookie never; a CA not once it is mirrored); halves match; in the end all are there |
| PriorityClasses (`astarte_priorityclass.go`, `astarte_finalizer.go:75`) | three cluster-scoped objects shared by all Astartes | ensure, delete at finalization | shared, immutable value, list from a cache, not watched | none is left once no Astarte has the finalizer; each Astarte has the values it asks for, or the operator does not rest |
| CFSSL (`cfssl.go`) | Deployment or StatefulSet, Service, ConfigMap, CA | ensure, delete when disabled | CA life cycle | CA is stable |
| Microservices (`astarte_generic_backend.go`, `astarte_generic_api.go`) | Deployments, Services, ConfigMaps | create or update each, delete what is no longer wanted | partial rollout, swallowed errors, an autoscaler that writes the same replicas, lagging caches | all as the latest spec has it once the operator rests; replicas settle |
| Data Updater Plant (`astarte_data_updater_plant.go`, `astarte_generic_backend.go:294-330`) | one Deployment per replica, each with a range of AMQP queues | ensure, rescale, recreate | integer partition of queues; deployments replaced one at a time | each queue has exactly one consumer once settled |
| VerneMQ (`vernemq.go`) | StatefulSet, Services, device limits, listener secret | ensure, restart pods | pods deleted while the certificate is missing, each report of a pod wakes the operator | pods are left alone once the certificate is there |
| Dashboard (`astarte_dashboard.go`) | Deployment, Service, ConfigMap | create or update, delete when disabled | little | present iff enabled |
| Status and health (`controllerutils/astarte_controller.go`) | `status` | compute health and status | missing components counted differently; version reported before it runs | status settles to what is there |
| Resource allocation (`misc/utils.go`) | none | distribute CPU and memory over components | rounding, weights of disabled components, services that are not set | CPU requests sum to at most the total; no limit below its request |
| Flow controller (`internal/controller/flow`, `internal/flow`) | block Deployments, Secrets, status | create blocks, delete stale ones, report state | removed blocks, counters | no stale block stays; state reflects blocks |
| AstarteDefaultIngress (`internal/defaultingress`, `internal/controller/ingress`) | API and broker Ingress/Service | create, update, delete when not wanted, report addresses | depends on a second resource; five caches; only some kinds watched | as both resources have it once the operator rests; only what was vetted is served |
| Webhooks (`api/*/v2alpha1/*_webhook.go`) | none | default, validate create/update | validation against a cached list, once, also of the operator's own updates | instance IDs are unique, immutable fields, finalization is not blocked for ever |
| Manager (`cmd/main.go`) | caches, queues, leader lease | start controllers | restart | one worker per key |
| API types, versions, RBAC/service helpers, charts | constants, templates | none of their own | none | used by the others |

**How they interact.** Users write custom resources; the API server calls the
webhooks, then stores them. Informers copy every change to the caches and
enqueue keys; `SetupWithManager` filters the events (Astarte: creation,
deletion and generation changes; owned objects: all changes; Secrets and
ConfigMaps of the namespace: every Astarte there). The Astarte controller calls,
in the order of `ReconcileAstarteResources`, the generated secrets,
PriorityClasses, CFSSL, microservices, dashboard and VerneMQ. Kubernetes'
garbage collector removes what a deleted Astarte owned; PriorityClasses and
claims are not owned and are removed by the finalizer. Flow and
AstarteDefaultIngress refer to an Astarte by name and read it.

The hazards, with the line at which each bites and the properties that cover it,
are in `tla/PROJECT.json` under `hazards`.

## 2. Plan

The most important behaviour first: what the operator leaves behind when its
runs, the users and Kubernetes interleave.

| # | Module | Models | Composes / refines | Theorems |
|---|---|---|---|---|
| 1 | `AstarteController` | the life of an Astarte resource: done | | type correctness, finalizer discipline, gated upgrades: done |
| 2 | `WriteOnce`, `Bootstrap` | the generated secrets under a lagging cache: done | `Bootstrap` implements `WriteOnce` for the cookie; for the CA and the secret key base it does not: done | the refinement, a mirrored CA stays, the key pair: done |
| 3 | `DataUpdaterPlant` | partition of the queues, rescaling, several Astartes in a namespace: done | a detailed view of one step of `EnsureAstarteMicroservices` | the ranges partition the queues, rescaling keeps them apart, type correctness: done |
| 4, 5 | `Fleet` | the Astarte webhook against concurrent creations and the operator's own updates; the PriorityClasses that several Astartes share: done | what `AstarteController` has as one flag, for several Astartes | type correctness, IDs stay unique, classes are neither left behind nor missing at rest: done |
| 6 | `Flow` | blocks, their Deployments and Secrets, the Flow's status: done | | type correctness, what is mounted is there, an operator at rest is done: done |
| 7 | `DefaultIngress` | the ingress, its ConfigMap, the broker's Service, the webhook, the referenced Astarte: done | | type correctness, only what was vetted is served, an operator at rest is done: done |
| 8, 9 | `ResourceAllocation`, `Microservices` | the services and the broker one by one, an autoscaler, the listener's certificate and its pods, the distribution of CPU and memory: done | `Microservices` extends `ResourceAllocation`; a detailed view of one step of `AstarteController` | type correctness, an operator at rest is done, and within the budget: done |

Recursive operators are kept out of all of them; where a computation is a loop
its loop counter is state (`DataUpdaterPlant`), and a sum over the eight services
is written out as in the code (`OverServices`). What the proofs about all modules
with a backlog use of sequences is in `BacklogLemmas`.

## 3. Modules

### `AstarteController` (with `MCAstarteController`, `AstarteController_proofs`)

One work-queue key, the one resource behind it, one worker. There is one worker
because a key is never processed twice at a time and because the manifests start
the manager with `--leader-elect` (`config/manager/manager.yaml:55`,
`charts/astarte-operator/templates/manager.yaml:24`). All reads of the code go
through the manager's client, which reads caches (`cmd/main.go:131-149` sets no
client options).

| State | Code |
|---|---|
| `cr` | the resource at the API server: uid, resourceVersion, generation, requested version, `manualMaintenanceMode`, finalizer, deletion timestamp, status |
| `cached` | the informer's copy, what `r.Client.Get` returns |
| `queued`, `pc`, `inst`, `fresh` | the queue, and the worker's place in `Reconcile` with its variables `instance` (outer) and `instance` (in the `RetryOnConflict` bodies) |
| `owner`, `ready`, `hkVersion` | what is deployed: who owns each component, whether it is ready, the image tag of the housekeeping Deployment |
| `priorities`, `shown`, `volumes` | the PriorityClasses, whether the cache shows them, and VerneMQ's claims; nothing garbage collects them |
| `green` | history: health at the version switch |
| `spent` | use of the bounds |

One action per call that reads or writes shared state, in the code's order:

| Action | Code |
|---|---|
| `Start`, `FirstStep` | `Reconcile`: Get, maintenance, version check, deletion |
| `Coherency`, `CoherencyRead`, `CoherencyWrite`, `CoherencyReread` | `EnsureStatusCoherency` |
| `AddFinalizer` | `addFinalizer` |
| `Gate` | version switch and `CheckAndPerformUpgrade` |
| `EnsurePriorityClasses`, `EnsureCFSSL`, `EnsureAstarteMicroservices`, `EnsureVerneMQ` | `ReconcileAstarteResources` |
| `StatusRead`, `StatusWrite` | the status report, `ComputeAstarteStatusResource` |
| `FinalizeVolumes`, `FinalizePriorityClasses`, `RemoveFinalizer` | `handleFinalization`, `FinalizeAstarte` |
| `CallFails`, `Restart` | any returned error; the end of the process and the first list of the next |
| `Deliver`, `ShowPriorityClasses`, `RelatedChange` | informer and predicate; the cache of PriorityClasses, which are not watched; watches on Secrets and ConfigMaps |
| `CreateAstarte`, `EditAstarte`, `DeleteAstarte` | users, through the API server's rules for finalizers and generations |
| `BecomeReady`, `BecomeUnready`, `ProvisionVolumes`, `CollectGarbage` | kubelets, StatefulSet controller, garbage collector |

Abstractions, and why they are sound for the properties:

* `Deliver` jumps to the latest version. A snapshot older than that differs from
  it only for a reader, and every write based on a snapshot that is not current
  conflicts; a reader that sees an intermediate version is the reader that ran
  before `Deliver`. Where intermediate snapshots do matter (a list, a pair of
  objects) the module keeps a backlog of snapshots instead (`Bootstrap`).
* The caches of the Astarte and of the PriorityClasses lag here. Lagging caches
  of other kinds are the subject of the other modules.
* The three PriorityClasses are one object. `FinalizePriorityClasses` deletes what
  the cached list shows, so that classes created just before survive the resource;
  that nothing else does is `NoOrphanClasses` of `Fleet`, which has the classes,
  their deletion one by one and several Astartes.
* Which components are deployed is constant and pod priorities are enabled.
* `SetControllerReference` adopts an object by name: `Deploy` sets the owner to
  the snapshot's uid, which is where a stale snapshot would do harm.
* Users leave the operator's finalizer alone.

### `Bootstrap` and `WriteOnce` (with `MCBootstrap`, `Bootstrap_proofs`)

`ensureHousekeepingKey`, `EnsureSecretKeyBase`, `ensureErlangCookieSecret`,
`ensureCFSSLCASecret` and `ensureCFSSLCAProxySecret`, one after the other, as
`ReconcileAstarteResources` runs them. `store` is what the API server has,
`view` what the cache shows, `backlog` the states in between, delivered one at a
time. Every function is "look it up in the cache, generate, write"; the write is
a plain creation for the cookie (`CreateCookie`), and `CreateOrUpdate` for the
rest (`Find`: look up again, `StoreAs`: create, or update what was found).
Generated values are numbered, so that a replaced value is seen as such; the
optimistic lock on an update compares contents, which is exact because contents
are never repeated.

`WriteOnce` is what the pods rely on: a secret gets a value once and keeps it
until someone erases it. `CookieWriteOnce` states that the code implements it for
the cookie, with the secret as the refinement mapping. `CAWriteOnce` and
`BaseWriteOnce` are what the comments of the code say of the CA and of the secret
key base; a lagging cache refutes both (section 6). What holds of the CA under any
lag is `MirroredCAStays`: once the proxy secret hands out its certificate no
Reconcile replaces it. The history variable `prompt` says whether the operator has
read its own writes so far, that is, whether the cache has been up to date at each of
its steps: `KeyPairMatches` is claimed as long as it has.

### `DataUpdaterPlant` (with `MCDataUpdaterPlant`, `DataUpdaterPlant_proofs`)

`EnsureAstarteDataUpdaterPlant` for the Astartes of one namespace. `specs` is
what users ask for, `deployments` the range of queues of each deployment at the
API server, `view` and `backlog` the lagging cache as in `Bootstrap`, `pc`, `cur`, `want`, `index` the worker's place and its
variables. `Start` reads the spec, `List` counts deployments in the cache,
`DeleteAll` is `DeleteAllOf` (atomic, or half done and failed), `EnsureRoles` the
detour through `EnsureAstarteGenericBackend` with one replica (service account and
role, which are not state here),
`EnsureDeployment` one turn of the loop: `CreateOrUpdate`, which fails when what
the cache shows (`Current`) is not what the API server has. `QueueRange` is
`getAstarteDataUpdaterPlantQueuesEnvVars`. The Service is left out; cookies are in
`Bootstrap`.

### `Flow` (with `MCFlow`, `Flow_proofs`)

`FlowReconciler.Reconcile` and `EnsureBlock` for one Flow.

| State | Code |
|---|---|
| `api` | the Flow (spec, counters), its Deployments and its Secrets at the API server |
| `view`, `backlog` | what the three informers show, and the states each has yet to show |
| `astarte` | whether the Astarte that the Flow names is there |
| `queued`, `pc`, `inst`, `todo`, `existing`, `cur`, `left`, `old` | the queue, the worker's place and its variables `instance.Spec`, the rest of `ContainerBlocks`, `existingBlocks`, `block`, the rest of `block.Workers`, `existingWorkerSecrets` |

| Action | Code |
|---|---|
| `Start`, `ListBlocks` | `Reconcile`: Get; `getResourcesForReconciliationFor` |
| `EnsureBlockSecret`, `ListWorkerSecrets`, `EnsureWorkerSecret`, `EnsureDeployment`, `DeleteWorkerSecret` | `EnsureBlock`, `getFlowWorkerContainers`, per block |
| `DeleteDeployment` | leftovers |
| `UpdateStatus` | `computeFlowStatusResource`, `computeBlocksState` and the update |
| `Rollout`, `PodDies`, `CollectGarbage`, `Edit`, `Delete`, `EraseSecret`, `AstarteComes`, `Deliver`, `CallFails`, `Restart` | the surroundings |

What decides here is how `CreateOrUpdate` compares. A Secret's `StringData` is
write-only and a Deployment's spec is replaced by one without the server's
defaults, so what was found always differs and an update is always sent, under
the lock of the version that was read. A stale cache therefore makes
`EnsureSecret` and `EnsureDeployment` fail, never skip; and an update that changes
nothing at the server is no event. A worker reads a cache and writes in one step
of the model: whatever an informer shows in between could as well be shown
after. Blocks and workers are taken in any order. The retries of the status
update are those of the next Reconcile.

### `DefaultIngress` (with `MCDefaultIngress`, `DefaultIngress_proofs`)

`AstarteDefaultIngressReconciler.Reconcile`, `EnsureAPIIngress`,
`EnsureBrokerIngress`, `ComputeADIStatusResource` and the webhook that admits the
resource.

| State | Code |
|---|---|
| `api` | the resource with its status, its Astarte, the ConfigMap, the Ingress and the broker's Service at the API server |
| `view`, `backlog` | what the five informers show, and the states each has yet to show |
| `queued`, `pc`, `inst`, `parent` | the queue, the worker's place, `instance.Spec` and `astarte.Spec` as they were read |
| `vetted` | history: the specs of the Astarte that an admission looked at |

| Action | Code |
|---|---|
| `Start`, `GetAstarte`, `UpdateStatus` | `Reconcile` |
| `EnsureConfigMap`, `EnsureIngress`, `DeleteIngress` | `EnsureAPIIngress` |
| `EnsureService`, `DeleteService` | `EnsureBrokerIngress` |
| `Deliver` with `Wakes` | the watches of `SetupWithManager` and its predicate |
| `EditADI` (if `Admitted`), `DeleteADI`, `ChangeAstarte`, `Erase`, `Expose`, `CollectGarbage`, `CallFails`, `Restart` | the surroundings |

`IngressFor` and what it is made of say what is built from the two specs: rules,
TLS entries, the two annotations a property depends on. `Shown`, `Write` and `Conflicts`
are `CreateOrUpdate`: skip what the cache shows as wanted, else create or update,
which fails if the cache is behind. A Service always differs from what was found
and is always sent.

### `Microservices` and `ResourceAllocation` (with `MCMicroservices`, `Microservices_proofs`)

One Reconcile deploys the components of `Order`, one after the other:
`EnsureAstarteGenericAPIComponent`, `EnsureAstarteGenericBackend`,
`EnsureVerneMQ` and `EnsureAstarteDashboard` have one shape, and differ in what
they delete (`DeleteWorkload`, and `DeletionSwallowed` for the generic APIs), in what they
ensure first (`Support`: account, service, cookie, ConfigMap), in the broker's
`MaybeDeletePods` and in the resources of the template (`Allocation`).

| State | Code |
|---|---|
| `api` | the Astarte's spec, the Deployments and the StatefulSet, the listener's certificate, an autoscaler |
| `view`, `backlog` | what the informers show, and what they have yet to show |
| `supports` | accounts, services, cookies and ConfigMaps that are there |
| `pods` | the broker's pods, as the StatefulSet controller has them |
| `queued`, `pc`, `inst`, `rest` | the queue, the worker's place, `instance.Spec`, the components still to come |
| `swallowed` | history: components whose last deletion failed unnoticed |

`ResourceAllocation` holds `GetResourcesForAstarteComponent`: weights in
hundredths, the leftovers of services that are not deployed, shares rounded down,
CPU requests below 150m raised to bursting, memory to 128M at least. The code
multiplies floating-point numbers; the model's arithmetic is exact. An exact
product that is no integer is at least 1/800 away from one, further than the
error of the floating-point product at any real amount, so that the code's truncated share is
the model's, or one less where the exact product is an integer. All services
take their share of one optional total (`Components.Resources`, a pointer).

### `Fleet` (with `MCFleet`, `Fleet_proofs`)

The Astartes of a cluster and what they share. `admitted` holds what the webhook
let through and the API server has not stored yet; `CreationValid` and
`UpdateValid` are `ValidateCreate` and `ValidateUpdate` with each of their checks as an
operator. The worker takes one key after the other: `AddFinalizer`, `EnsureClass` per
level, `Ensured`; or `ListClasses`, `DeleteClass`, `RemoveFinalizer` for one that
is deleted. The updates of the finalizer are admitted too (`Accepted`).

Three history variables say what the code cannot know: `blind`, the pairs of
which one was admitted while the other was not shown; `missed`, the classes that were
too young for the list of a finalization; `robbed`, the Astartes that were there when the
finalization of another deleted a class, or that were reconciled afterwards while the cache still
showed it. The next Reconcile of such an Astarte takes it off that list; nothing
in the code sees to it that there is one.

## 4. Runs

Every cfg says `CHECK_DEADLOCK FALSE`: an operator whose queue is empty and whose
users do nothing more is at rest, which is no error.

| Run | Question | Bounds |
|---|---|---|
| `AstarteSafety` | Is nothing deployed before its finalizer or for a predecessor, is nothing of a live Astarte finalized? | two lives of the resource (a stale snapshot needs a successor of the same name), one edit, one failure, one restart; one good and one refused version |
| `AstarteUpgrade` | Is every change of the running version gated by health, when users edit only at rest? | two versions and the snapshot, one life, one edit, readiness flip, failure and restart |
| `AstarteUpgradeRace` | The same for any users: violated, see findings | |
| `AstarteSettles` | Does a deleted Astarte go away, and do status and version of one that stays settle with the events that pass the filter? | two good versions and a refused one, one edit, one restart; conflicts are the failures (what a failed call leaves behind is in `AstarteSafety`) |
| `BootstrapLagging` | With any delay, is the Erlang cookie never replaced, nor a CA once it is mirrored, and are all secrets there in the end? Do the halves of the key match as long as the operator has read its own writes? `PromptInv` is the inductive invariant of that proof. | one erased secret (either half of the pair, or what the proxy mirrors), one failure or restart (between any two calls) |
| `BootstrapCARace` | With any delay, is the CA written only if it does not exist? Violated, see findings | nothing fails or is erased |
| `PlantScaling` | Is no queue given to two deployments of an Astarte while they are replaced? `PlantInv` is the inductive invariant of the proof. | two Astartes, 0 to 3 replicas, 5 queues (divides by neither 2 nor 3), two edits, cache read after write, no failures |
| `PlantSettles` | Does every queue end up with exactly one consumer? | up to 2 replicas, 2 or 3 queues, an edit, a failure (also a half-done `DeleteAllOf`), a restart, three undelivered states |
| `FlowSettles` | Are a Deployment's secrets there whenever it is? Does the operator rest only once everything is as the spec has it, does it come to rest, and does nothing outlive the Flow? | one block (what is left between blocks is covered by the proof only) and two workers, of which either or none is in the spec; one edit (or the deletion); one erased secret, dead pod, failed call or restart; each informer up to two states behind |
| `IngressSettles` | Is only served what an admission looked at? Does the operator rest only once Ingress, Service and status are as both resources have them, does it come to rest, and does nothing outlive the resource? | four specs of the resource (with and without API, broker, TLS of the dashboard's own; one that names a secret that does not exist, which is never admitted), three of the Astarte (with and without TLS and listener, without any API); two edits or deletions; one erased object, failed call or restart; two undelivered states |
| `ServicesSettle` | Does the operator rest only once all is deployed as the latest spec has it, within the budget? Do the replicas settle next to an autoscaler, and do the broker's pods come to rest? | Flow (a generic API whose `deploy` is set or not), the trigger engine (a backend, scaled), the broker; two specs, one edit; one erased object, failed call, lost metric or restart; two undelivered states |
| `FleetShares` | Are IDs unique, are classes neither left behind nor missing, do deletions complete? | two Astartes, four specs (two IDs, with and without a listener, two values of a class, one that is refused); two edits or deletions; one erased secret, failed call or restart; one undelivered state |

The bounds are named constants: `Mega`, `MaxReplicas`, `MaxBacklog`, `MaxLag`, `MaxMishaps`, `MaxUids`, `MaxEdits`, `MaxFlips`, `MaxFaults`,
`MaxCrashes`, `MaxErased`. Two lives, one fault and one restart are the least at
which every hazard listed for these modules occurs; an edit and one undelivered
state are what a stale snapshot takes, a second edit is for what follows on a
change that was already acted on. The properties listed in
section 5 are proved for all values of the constants: all invariants and action
properties that the passing runs check. The liveness properties are model-checked only.

**Fairness.** `WF(Worker)` (and in `DataUpdaterPlant` and `Fleet`, where several keys share the
queue, `SF(Start(a))`: a key is not overtaken for ever): controller-runtime's worker loop takes the next key
and a Reconcile returns. `WF(Deliver)`: a watch delivers. `WF(CollectGarbage)`:
Kubernetes collects garbage. Users, readiness of pods, failures and restarts are
not fair, but where a property is about them: in `Microservices` pods start
(`WF(StartPods)`) and the controllers that report them and that scale
(`ReportPods`, `Autoscale`, `ReportScale`) are strongly fair, because `MaxLag`, a bound of the
model, keeps disabling every write while another is undelivered. In
`DefaultIngress` and `Fleet` no user is fair: that the Astarte stays, or that the secret is there
for good, is said in the property. The bounds on failures make "failures eventually cease" explicit. A
failed Reconcile is requeued (rate limited), so `Fail` sets `queued`.

## 5. Proofs

`AstarteController_proofs`, from `ControllerAssumption` only (bounds are naturals,
the empty version is no version users ask for):

* `TypeCorrect`, `FinalizerDiscipline` (`Spec => []FinalizerInv`),
  `DeploysUnderFinalizer`, `FinalizesDeleted`.
* The argument: a snapshot acts only through what it shows. `CacheIsPast`: a
  finalizer or deletion mark that the cache shows is still there, or the
  resource has gone through its finalization. `SnapshotIsLive`: a snapshot that
  is being reconciled and shows the finalizer is of the resource that exists,
  because the finalizer can only go with a finalization and the worker, the only
  one to run it, is busy. `SnapshotIsDeleted`: a snapshot that is being finalized
  is of a deleted resource, and if a component of the present resource is in the
  cluster it is that very one. `RootedUnderFinalizer` is the property proper. None
  of it speaks of PriorityClasses, which may outlive the finalizer.
  Without `UidsOrdered` a snapshot could be of a future resource.
* `UpgradesGated` (`UpgradeGated` of `PatientSpec`, from the inductive invariant
  `UpgradeInv`, by contradiction at the one step that changes what runs): users edit
  an Astarte only while the operator is at rest, stay out of maintenance, and
  the informer shows an edit before the next Reconcile starts;
  recreations, failures, restarts and readiness are free. `Sound` is the core: what
  runs is what a copy of the resource asks for, or something that its status
  *tells* (another version than the one asked for, so that the gate compares), or
  the remains of a predecessor before the finalizer is set. `SoundCopies` says so of
  the resource and of a cache that shows the present generation, `OnTheWay` of the
  snapshot at every step up to the gate, behind it and on the way to the report;
  `Reported` is what makes an edit of a reported Astarte sound again; `CopiesOK`
  orders resource versions, so that a write that the optimistic lock lets through
  was made from the resource as it is. The hard case is
  `EnsureStatusCoherency`: it stores the version that runs in the status, but
  `Reconcile` goes on with the instance that has none, and so passes the gate
  unchecked. That is sound because an Astarte whose version is not the one that runs
  has no finalizer yet, and its `addFinalizer` then conflicts.

`Bootstrap_proofs`, from `BootstrapAssumption` (bounds are naturals):

* `TypeCorrect`, `CookieIsWriteOnce` for `Spec`, with any delay of the cache: a
  creation fails on what exists, whatever was read before.
* `MirroredCAIsKept` (`Spec => MirroredCAStays`), with any delay of the cache,
  failures, restarts and erasures. Its inductive invariant `MirrorInv`
  (`MirrorInvariant`): every CA is newer than all that were (`NewCAIsNew`), so the
  cache, which shows states in order, shows nothing else once it shows the present
  one (`PresentCAStaysShown`); what is mirrored was found in the cache, hence the
  look-up of a later Reconcile finds it, and none that missed it is under way
  (`MirroredIsShown`).
* `PromptInvariant`, `KeyPairAlwaysMatches` (`Spec => []KeyPairMatches`): as long as
  `prompt` holds, that is the operator has read its own writes. `Synced` ties the last snapshot of the
  backlog to the store, so that an empty backlog means an exact cache;
  `StillMissing` carries what the look-up saw to the write, which holds because
  only the worker writes values; `HalfPair` says what is stored between the two
  halves of the key pair.

`DataUpdaterPlant_proofs`, from `DataUpdaterPlantAssumption` (finitely many
Astartes, bounds are naturals):

* `QueuesPartitioned`: for all numbers of queues and replicas each queue is in the
  range of exactly one replica. The arithmetic is in `RangesOrdered` (a range ends
  before that of any later replica starts) and `RangesCover` (the quotient by the
  share is the replica, the last one takes the rest).
* `RescalingSafe` (`PromptSpec => []RangesDisjoint`, for one number of queues and
  without failures). Deployments of an Astarte are always those of some number of
  replicas `r`, the first `index` of them replaced by those of the number wanted,
  which is not smaller: with fewer wanted, the list shows too many
  (`NotTooMany`, by cardinality) and all are deleted first. `ReplacedBelow` is why
  replacing upwards towards smaller shares never overlaps. Without the clause
  `r <= want.replicas` the invariant is not inductive. `PlantInvariant` states
  the invariant itself.
* `TypeCorrect`, with failures, restarts, any delay of the cache and any numbers of
  queues.

`Flow_proofs`, from `FlowAssumption` (finitely many blocks and workers, bounds are
naturals):

* `TypeCorrect`, and `SecretsStayMounted` (`Spec => []SecretsMounted`) for any delay of
  the caches, failures and restarts. `BlockUnderway` carries what `EnsureBlock` has
  ensured so far to the write of the Deployment, and says that what it still
  means to delete is not among what the Deployment mounts. No relation between
  caches and server is needed: a write that succeeded is known to be there.
* `RestsOnceReconciled` (`Spec => []QuietMeansReconciled`). The argument is that of `DefaultIngress` and
  `Microservices` too, and has two parts. `CaughtUp`: an informer has the latest
  state of its kind as the last of its backlog, or shows it. `LastPass`: the key is not
  queued and no kind that wakes the operator up has anything to show. A step that
  leaves it so has written nothing that is watched, for that would leave something to show, and
  has not failed, for that would queue the key; so the Reconcile that is under way
  sees everything as it is, and every object it has passed by it would have
  written if it had not been right. `Underway` says so of what it has passed by
  (here block by block and secret by secret), and at `idle` it holds of everything.

`DefaultIngress_proofs`, from `DefaultIngressAssumption` (the empty name is no
secret, those that exist are some of the secrets, bounds are naturals):

* `TypeCorrect`, and `OnlyVettedIsServed` (`Spec => []OnlyWhatWasVetted`) for any delay of
  the caches. `VettedInv`: every spec of the resource that any cache shows or will
  show was valid for an Astarte that an admission saw (`EverySpecVetted`), so is the one that is being
  reconciled (`WorkerVetted`), and therefore what is stored or still to be shown of Ingress and
  Service is proper (`IngressProper`, `ServiceProper`). The core is `VettedIsProper`: whatever the
  Astarte has become, the entries of `getIngressTLS` are among the secrets that the webhook looked up,
  or it saw an Astarte without TLS.
* `RestsOnceServed` (`Spec => []QuietMeansServed`), by the argument of the last pass, with two resources
  that users edit and five caches.

`Microservices_proofs`, from `MicroservicesAssumption` (the order is of services
and the broker, one of them has the autoscaler, users ask for specs, each with at
most one total, bounds are naturals) and `MegaAssumption`:

* `TypeCorrect`. The types say more than the variables' shape: resources
  are always what some spec gives to a component that it wants, and a workload
  that is not there has none.
* `RestsOnceDeployed` (`Spec => []QuietMeansDeployed`), by the argument of the last pass: `Underway` says of every
  component that it is still to come or `Settled`. The autoscaler is not watched: `Settled` says
  nothing of the replicas that it writes.
* `RestsWithinBudget` (`Spec => []QuietWithinBudget`). `SharesFit`: with `n` services that count,
  `l` left over and a total `t`, `ShareIs` bounds `100n` times a share by
  `weight * tn + tl`; over the services that count this adds up to
  `(100 - l) * tn + n * tl = 100n * t` (`CountAndRest`, `SumDistributes`), whatever the choice of services. A service
  that is wanted is counted (`WantedCounts`), also if more are counted than wanted
  (Flow when it is not set).

`Fleet_proofs`, from `FleetAssumption` (finitely many Astartes, one set of values in a
spec at most, bounds are naturals):

* `TypeCorrect`, and `IDsStayUnique` (`Spec => []UniqueIDs`). `IDInv`: all states of an
  Astarte that are stored, shown or still to be shown have one ID (`Identified`, from
  `validateUpdateAstarteInstanceID`); one that is admitted and not stored is nowhere shown
  and nothing else was admitted for its name (`AdmittedOnce`); IDs differ also from
  those of what is admitted but not stored (`Apart`). Without `Identified` the webhook's
  comparison with an old version in the cache would say nothing of the present one.
* `ClassesAreNotOrphaned` (`Spec => []NoOrphanClasses`, from `OrphanInv`). `ClassesGuarded`: classes are
  ensured under a finalizer that is stored, and while they are deleted every
  class that is there is still to be deleted or was too young for the list (`missed`).
  `DirectoryInv` ties what the informer shows or will show to what is stored:
  a finalizer that is shown is still there, or its Astarte's deletion has been shown (`FinalizerShown`),
  which needs that states are shown in the order they were stored in (`InOrder`).
* `RestsOncePrioritized` (`Spec => []QuietMeansPrioritized`, from `PriorityInv`). PriorityClasses are not
  watched, so the argument of the last pass does not apply to them. Instead, an Astarte that is there and was
  not robbed is in the queue, has its classes, or is being given them level by level (`Wakeful`). That a class
  which the cache shows, and which is there, has the value shown needs the order of what is shown:
  a class is made only if the cache shows none and deleted only if the cache shows it, so that each is still
  to come or to go at most once (`Follows`, `DeletesShown`).

`BacklogLemmas` holds what these proofs use of sequences: appending a write
(`AppendLast`, `AppendItems`) and taking a delivery (`TailShifts`, `TailCovers`).

Not provable with the installed provers, and left to TLC: liveness under fairness
(`DeletionCompletes`, `StatusSettles`, `Converges`, `AllocationSettles`, `ComesToRest`, `NothingOutlivesTheFlow`, `NothingOutlivesTheIngress`,
`ReplicasSettle`, `BrokerSettles`, `DeletionsComplete`), anything about ENABLED, and
induction over data. The queue ranges are proved disjoint for an operator that
reads its own writes and whose calls succeed only (`PromptSpec`, no failures or
restarts, one number of queues), which is also all that the runs check of it.

## 6. Findings

Two are runs with `expect: violation`; the quoted lines are in `PROJECT.json`.

* **Upgrade recorded before it happens** (`AstarteUpgradeRace`): the status
  reports the version of the spec that was just read, not of what was rolled out.
  A version asked for while a Reconcile runs, or during manual maintenance, is
  recorded as installed, and the next Reconcile skips the health check.
* **CA and secret key base overwritten** (`BootstrapCARace`; `BaseWriteOnce` is violated
  likewise when added to its cfg, and has no run of its own): both are looked up
  in the cache, and written by `CreateOrUpdate`, which looks again. When a second
  Reconcile's look-up comes before the cache shows what the first has written, and
  the second look after it, the new value replaces the one in use, although
  `internal/reconcile/cfssl.go:428` says "ONLY if it doesn't exist" and `common.go:86` "If there is none".
  Nothing has to fail for it. The cookie is safe because it is created, never updated.

Three more are stated in the modules, next to the definition named here, and
violated there by TLC when added to the cfg; they have no run of their own.

* **Key halves that stay different** (`Bootstrap`, `KeyPairSettles`, with the bounds of
  `BootstrapLagging`): the look-up is of a stale cache, the write is an update of whatever is
  there by then; once the public key is found the pair is never looked at again
  (`internal/reconcile/common.go:70`; its comment, line 38: "makes sure that a valid Housekeeping key is
  available").
* **Data Updater Plants of neighbours** (`DataUpdaterPlant`, `AllocationSettles`, with
  two Astartes): listed and deleted by namespace and component, so two Astartes in a
  namespace never settle (`internal/reconcile/astarte_data_updater_plant.go:43`).
* **Flows never flow** (`Flow`, `HealthyFlowsFlow`, with the constants of `FlowSettles`): the state is
  assigned to the status that the caller is about to replace, so that it stays
  unknown whatever the blocks do (`internal/controller/flow/flow_controller.go:133`).

Met while modelling; the models do as the code does, and the properties are
stated around them:

* `EnsureStatusCoherency` (`internal/controllerutils/astarte_controller.go:207`) rebinds its pointer
  parameter, so that Reconcile goes on with the instance without the restored version.
* Indexed Data Updater Plants (`astarte_data_updater_plant.go:121`) name service
  accounts that nothing creates.
* `common.go:147` of `internal/defaultingress` says that other cases are rejected by the webhooks. An
  Astarte without TLS at the admission of a resource whose dashboard has TLS and a secret
  of its own yields an Ingress whose API entry names no secret.
* A broker Service that the cache does not show yet is not deleted when it is no
  longer wanted (`broker_ingress.go:47`), a ConfigMap that the cache shows as wanted is not
  corrected, an erased Service is not missed: nothing wakes the operator up for them. For the
  same reason `status.broker` is refreshed only by the next Reconcile.
* With HAProxy the Ingress leads to the dashboard also if the Astarte has none
  (`api_ingress.go:177`); an Ingress without any API is refused by the API server, and the
  broker's Service is then never reached.
* `Default` of the AstarteDefaultIngress writes to the map of annotations, which is nil
  if there are none (`astartedefaultingress_webhook.go:66`).
* Finalizing an Astarte deletes the PriorityClasses that others use, and nothing wakes
  those up; a class whose creation the cache does not show is left behind.
* "Once the value is set, updating it will not have effect"
  (`api/api/v2alpha1/astarte_types.go:683`): the update makes every later Reconcile fail
  instead.
* The webhook validates the operator's own updates: while the listener's secret is missing no
  finalizer is added or removed. `validatePodLabelsForClusteredResources` leaves out
  AppEngine API (`astarte_webhook.go:232`).
* While that secret is missing the broker's pods are deleted by every Reconcile, and each of their
  reports causes one; a secret that is erased and created again between two
  Reconciles does not restart them.

## 7. What is not modelled

* That all claims are gone after a finalization: the code does not promise it (they
  are listed while their StatefulSet still exists, errors are logged); the claims
  are modelled for `FinalizesOnlyDeleted` only.
* Contents of ConfigMaps, environment variables, probes, affinities, labels:
  templates without state of their own; what depends on them in a property
  (image tag, queue ranges) is modelled.
* Contents of services, roles and of the dashboard's ConfigMap; environment
  variables of the services and the broker; storage: a StatefulSet's claim templates cannot be
  changed, so that another size fails every later Reconcile.
* The deletion of the CA's secret by `FinalizeAstarte` (`astarte_finalizer.go:38-45`): the
  Astarte of `Bootstrap` stays, and secrets are not in `AstarteController`. For the
  secrets it is one more erasure.
* That PriorityClasses never outlive the Astartes: the code does not promise it, see
  `missed` in `Fleet`.
* Generated code (`zz_generated.deepcopy.go`), charts, CI, tests.
* A Flow's counter of failing blocks, the contents of its secrets, and names that
  collide.
* The Flow webhook (a scaffold without checks), defaulting and the selector's check of
  the AstarteDefaultIngress webhook.
* Floating-point error in the shares of CPU and memory.
