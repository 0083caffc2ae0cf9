------------------------- MODULE AstarteController -------------------------
(***************************************************************************)
(* The reconciler of the Astarte custom resource: one work-queue key, the  *)
(* one Astarte resource behind it, and the worker that runs Reconcile      *)
(* (internal/controller/api/astarte_controller.go) on it.                  *)
(*                                                                         *)
(* The manager runs one Reconcile per key at a time and the manifests      *)
(* start it with --leader-elect, so there is a single worker.  It reads    *)
(* the Astarte resource from an informer cache that lags the API server    *)
(* and writes to the API server, which refuses a write that carries a      *)
(* stale resourceVersion.  Users edit, delete and recreate the resource at *)
(* any moment, API calls fail, the operator process restarts.              *)
(*                                                                         *)
(* Simplifications: of the spec only the version and the maintenance flag  *)
(* change, pod priorities are enabled and which components are deployed is *)
(* fixed; the caches of the Astarte resource and of the PriorityClasses    *)
(* lag, objects of other kinds are read as they are; the three             *)
(* PriorityClasses are one object, module Fleet has them apart; the        *)
(* microservices are one component, which is reconciled and rolled out as  *)
(* a whole; the secrets, the CA's included, are those of module Bootstrap. *)
(***************************************************************************)
EXTENDS Naturals, FiniteSets

CONSTANTS
    Versions,      \* the versions users ask for
    Snapshot,      \* version.SnapshotVersion
    Unmanageable,  \* any version string that CanManageVersion refuses
    NoVersion,     \* the empty string of an unset status
    Deployed,      \* the components the spec does not disable
    MaxUids,       \* bound: times the resource is created
    MaxEdits,      \* bound: edits of the spec by users
    MaxFlips,      \* bound: components that become unready
    MaxFaults,     \* bound: API calls that fail
    MaxCrashes     \* bound: restarts of the operator

ASSUME ControllerAssumption ==
    /\ NoVersion \notin Versions
    /\ "microservices" \in Deployed
    /\ Deployed \subseteq {"cfssl", "microservices", "vernemq"}
    /\ MaxUids \in Nat /\ MaxEdits \in Nat /\ MaxFlips \in Nat
    /\ MaxFaults \in Nat /\ MaxCrashes \in Nat

Manageable == Versions \ {Unmanageable}
Components == {"cfssl", "microservices", "vernemq"}

VARIABLES
    cr,         \* the Astarte resource at the API server
    cached,     \* the informer's copy of it, which the client reads
    uids,       \* uid of the last Astarte resource created
    queued,     \* the key is in the work queue (or dirty while processed)
    pc,         \* where the worker is in Reconcile
    inst,       \* Reconcile's "instance"
    fresh,      \* the copy that a RetryOnConflict body reads and writes
    green,      \* history: this Reconcile saw green health at the version switch
    owner,      \* uid of the Astarte owning each component, 0: not deployed
    ready,      \* the component has a ready replica
    hkVersion,  \* image tag of the housekeeping Deployment
    priorities, \* the cluster-scoped PriorityClasses exist
    shown,      \* the informer's cache shows them
    volumes,    \* VerneMQ's PersistentVolumeClaims exist
    spent       \* how much of each bound has been used

classes == <<priorities, shown>>
objects == <<owner, ready, hkVersion, classes, volumes>>
vars == <<cr, cached, uids, queued, pc, inst, fresh, green, objects, spent>>

Status == [version : Versions \cup {NoVersion},
           health  : {"", "green", "yellow", "red"},
           phase   : {"", "Reconciling", "Reconciled", "Maintenance"}]
NoStatus == [version |-> NoVersion, health |-> "", phase |-> ""]

\* uid 0 is the absence of the resource.
Resources == [uid : 0..MaxUids, rv : Nat, gen : Nat,
              version : Versions \cup {NoVersion},
              maint : BOOLEAN, fin : BOOLEAN, del : BOOLEAN, status : Status]
Absent == [uid |-> 0, rv |-> 0, gen |-> 0, version |-> NoVersion,
           maint |-> FALSE, fin |-> FALSE, del |-> FALSE, status |-> NoStatus]
Exists(r) == r.uid # 0

\* What writes change: status, finalizer, the resourceVersion with every write
\* and the generation with every write to the spec or of a deletion.
SetStatus(r, status) == [r EXCEPT !.status = status]
SetFinalizer(r, fin) == [r EXCEPT !.fin = fin]
Revised(r) == [r EXCEPT !.rv = @ + 1]
NextGeneration(r) == [Revised(r) EXCEPT !.gen = @ + 1]

\* The optimistic lock of the API server on an object read earlier.
Current(r) == Exists(r) /\ r.uid = cr.uid /\ r.rv = cr.rv

Budgets == {"edits", "flips", "faults", "crashes"}
Bound(what) == CASE what = "edits"  -> MaxEdits  [] what = "flips"   -> MaxFlips
                 [] what = "faults" -> MaxFaults [] what = "crashes" -> MaxCrashes
Spend(what) == /\ spent[what] < Bound(what)
               /\ spent' = [spent EXCEPT ![what] = @ + 1]

-----------------------------------------------------------------------------
(* What the worker computes.                                               *)

\* ComputeClusterHealth counts a missing VerneMQ or CFSSL as not ready, a
\* missing microservice as nothing at all.
NonReady == {c \in Deployed :
                ~ready[c] /\ (c = "microservices" => owner[c] # 0)}
ComputeClusterHealth ==
    IF NonReady = {} THEN "green"
    ELSE IF \E c \in NonReady : NonReady = {c} THEN "yellow" ELSE "red"

\* The version is the spec's, whatever has been rolled out.
ComputeAstarteStatusResource(r) ==
    [version |-> r.version,
     health  |-> ComputeClusterHealth,
     phase   |-> IF r.maint THEN "Maintenance" ELSE "Reconciled"]

\* Reconcile goes on, returned nil, or returned an error: then the key is
\* requeued.  Its local variables end with it.
locals == <<inst, fresh, green>>
Goto(label) == pc' = label /\ UNCHANGED queued
Return == pc' = "idle" /\ inst' = Absent /\ fresh' = Absent /\ green' = FALSE
Done == Return /\ UNCHANGED queued
Fail == Return /\ queued' = TRUE

-----------------------------------------------------------------------------
(* Reconcile, one action per call to the API server or the cache.          *)

\* Mutant: the deletion timestamp is not looked at.
FirstStepByFinalizer(r) ==
    IF r.fin THEN "volumes"
    ELSE IF r.status.version = NoVersion THEN "coherency" ELSE "finalizer"

\* Mutant: a new installation gets no finalizer.
FirstStepNewLate(r) ==
    IF r.del THEN "volumes"
    ELSE IF r.status.version = NoVersion THEN "gate" ELSE "finalizer"

\* What Reconcile does with an instance it can handle: finalize it, make its
\* status coherent, or go straight to its finalizer.
FirstStep(r) ==
    IF r.del THEN "volumes"
    ELSE IF r.status.version = NoVersion THEN "coherency" ELSE "finalizer"

\* Get the instance and the checks that need nothing else.
Start ==
    /\ pc = "idle" /\ queued
    /\ \/ /\ ~Exists(cached)
          /\ Return /\ queued' = FALSE
       \/ /\ Exists(cached) /\ cached.maint
          /\ pc' = "statusRead" /\ queued' = FALSE
          /\ inst' = cached /\ UNCHANGED <<fresh, green>>
       \/ /\ Exists(cached) /\ ~cached.maint /\ cached.version \notin Manageable
          /\ Fail
       \/ /\ Exists(cached) /\ ~cached.maint /\ cached.version \in Manageable
          /\ cached.del /\ ~cached.fin
          /\ Return /\ queued' = FALSE
       \/ /\ Exists(cached) /\ ~cached.maint /\ cached.version \in Manageable
          /\ cached.del => cached.fin
          /\ queued' = FALSE
          /\ pc' = FirstStep(cached) /\ inst' = cached /\ UNCHANGED <<fresh, green>>
    /\ UNCHANGED <<cr, cached, uids, objects, spent>>

\* EnsureStatusCoherency: look for the housekeeping Deployment.  The tag of its
\* image, which the status is to tell, is kept in fresh.
Coherency ==
    /\ pc = "coherency"
    /\ IF hkVersion = NoVersion
       THEN Goto("finalizer") /\ UNCHANGED <<inst, fresh>>
       ELSE /\ Goto("coherencyRead")
            /\ inst' = SetStatus(inst, [version |-> NoVersion, health |-> "red",
                                        phase |-> "Reconciling"])
            /\ fresh' = SetStatus(inst, [inst.status EXCEPT !.version = hkVersion])
    /\ UNCHANGED <<cr, cached, uids, green, objects, spent>>

\* Mutant: the image's name is taken for its tag.
CoherencyReadName ==
    /\ pc = "coherencyRead" /\ Exists(cached)
    /\ fresh' = SetStatus(cached, [cached.status EXCEPT !.version = "astarte"])
    /\ Goto("coherencyWrite")
    /\ UNCHANGED <<cr, cached, uids, inst, green, objects, spent>>

\* The RetryOnConflict body of EnsureStatusCoherency.  "instance" is rebound
\* in there: the caller's instance stays as it was.
CoherencyRead ==
    /\ pc = "coherencyRead"
    /\ IF Exists(cached)
       THEN /\ fresh' = SetStatus(cached,
                           [cached.status EXCEPT !.version = fresh.status.version])
            /\ Goto("coherencyWrite") /\ UNCHANGED <<inst, green>>
       ELSE Fail
    /\ UNCHANGED <<cr, cached, uids, objects, spent>>

\* Status().Update under the optimistic lock; a write that changes nothing
\* leaves the resourceVersion.
StatusUpdate ==
    /\ Current(fresh)
    /\ cr' = IF fresh.status = cr.status THEN cr
             ELSE Revised(SetStatus(cr, fresh.status))

\* Mutant: giving up is not reported as an error.
ConflictDropped(retry) ==
    /\ ~Current(fresh)
    /\ UNCHANGED cr
    /\ \/ Exists(cr) /\ Goto(retry) /\ UNCHANGED locals
       \/ Done

\* A conflict is retried from the read a few times; NotFound is not.
Conflict(retry) ==
    /\ ~Current(fresh)
    /\ UNCHANGED cr
    /\ \/ Exists(cr) /\ Goto(retry) /\ UNCHANGED locals
       \/ Fail

CoherencyWrite ==
    /\ pc = "coherencyWrite"
    /\ \/ /\ StatusUpdate
          /\ Goto("coherencyReread") /\ fresh' = Absent /\ UNCHANGED <<inst, green>>
       \/ Conflict("coherencyRead")
    /\ UNCHANGED <<cached, uids, objects, spent>>

\* The last Get of EnsureStatusCoherency: its result is dropped.
CoherencyReread ==
    /\ pc = "coherencyReread"
    /\ IF Exists(cached) THEN Goto("finalizer") /\ UNCHANGED locals ELSE Fail
    /\ UNCHANGED <<cr, cached, uids, objects, spent>>

\* Mutant: a failed update is only logged.
AddFinalizerUnchecked ==
    /\ pc = "finalizer"
    /\ IF ~inst.fin /\ Current(inst)
       THEN cr' = Revised(SetFinalizer(cr, TRUE)) /\ inst' = cr'
       ELSE UNCHANGED <<cr, inst>>
    /\ Goto("gate")
    /\ UNCHANGED <<cached, uids, fresh, green, objects, spent>>

\* addFinalizer: Update decodes the server's answer into the instance.
AddFinalizer ==
    /\ pc = "finalizer"
    /\ \/ /\ inst.fin
          /\ Goto("gate") /\ UNCHANGED <<cr, locals>>
       \/ /\ ~inst.fin /\ Current(inst)
          /\ cr' = Revised(SetFinalizer(cr, TRUE))
          /\ inst' = cr'
          /\ Goto("gate") /\ UNCHANGED <<fresh, green>>
       \/ /\ ~inst.fin /\ ~Current(inst)
          /\ Fail /\ UNCHANGED cr
    /\ UNCHANGED <<cached, uids, objects, spent>>

\* The version switch and CheckAndPerformUpgrade.
UpgradeAllowed == "green" \in {ComputeClusterHealth, inst.status.health}

\* Mutant: CheckAndPerformUpgrade's error is dropped.
GateUnchecked ==
    /\ pc = "gate"
    /\ Goto("priorities") /\ green' = UpgradeAllowed
    /\ UNCHANGED <<cr, cached, uids, inst, fresh, objects, spent>>

Gate ==
    /\ pc = "gate"
    /\ IF inst.status.version \in {NoVersion, Snapshot, inst.version} \/ UpgradeAllowed
       THEN Goto("priorities") /\ green' = UpgradeAllowed /\ UNCHANGED <<inst, fresh>>
       ELSE Fail
    /\ UNCHANGED <<cr, cached, uids, objects, spent>>

\* ReconcileAstarteResources, in its order.  CreateOrUpdate looks for the
\* PriorityClasses in the cache: it fails to create what is there unshown.
EnsurePriorityClasses ==
    /\ pc = "priorities"
    /\ \/ shown /\ Goto("cfssl") /\ UNCHANGED <<priorities, locals>>
       \/ /\ ~shown /\ ~priorities
          /\ priorities' = TRUE /\ Goto("cfssl") /\ UNCHANGED locals
       \/ ~shown /\ priorities /\ Fail /\ UNCHANGED priorities
    /\ UNCHANGED <<cr, cached, uids, shown, owner, ready, hkVersion, volumes, spent>>

\* CreateOrUpdate of a component under the controller reference of inst.
\* The change of an owned object enqueues the key (Owns).
Deploy(c, next) ==
    /\ pc = c
    /\ owner' = IF c \in Deployed THEN [owner EXCEPT ![c] = inst.uid] ELSE owner
    /\ queued' = IF owner' # owner \/ hkVersion' # hkVersion THEN TRUE ELSE queued
    /\ pc' = next
    /\ UNCHANGED <<cr, cached, uids, locals, ready, classes, volumes, spent>>

EnsureCFSSL == UNCHANGED hkVersion /\ Deploy("cfssl", "microservices")
EnsureAstarteMicroservices ==
    hkVersion' = inst.version /\ Deploy("microservices", "vernemq")
EnsureVerneMQ == UNCHANGED hkVersion /\ Deploy("vernemq", "statusRead")

\* The RetryOnConflict body that reports the status; Reconcile runs it last,
\* and runs nothing else in manual maintenance mode.
StatusRead ==
    /\ pc = "statusRead"
    /\ IF Exists(cached)
       THEN /\ fresh' = SetStatus(cached, ComputeAstarteStatusResource(cached))
            /\ Goto("statusWrite") /\ UNCHANGED <<inst, green>>
       ELSE Fail
    /\ UNCHANGED <<cr, cached, uids, objects, spent>>

StatusWrite ==
    /\ pc = "statusWrite"
    /\ (StatusUpdate /\ Done) \/ Conflict("statusRead")
    /\ UNCHANGED <<cached, uids, objects, spent>>

\* handleFinalization: FinalizeAstarte deletes the claims it lists, which stay
\* if the cached list does not show them or if the deletion fails: that error is
\* only logged.  The secret of the CA, which it deletes before, is not modelled.
FinalizeVolumes ==
    /\ pc = "volumes"
    /\ volumes' \in {volumes, FALSE}
    /\ Goto("finalizePriorities")
    /\ UNCHANGED <<cr, cached, uids, locals, owner, ready, hkVersion, classes, spent>>

\* finalizePriorityClasses deletes what the cached list shows; to find that
\* already gone is an error, which is returned.
FinalizePriorityClasses ==
    /\ pc = "finalizePriorities"
    /\ \/ ~shown /\ Goto("removeFinalizer") /\ UNCHANGED <<priorities, locals>>
       \/ /\ shown /\ priorities
          /\ priorities' = FALSE /\ Goto("removeFinalizer") /\ UNCHANGED locals
       \/ shown /\ ~priorities /\ Fail /\ UNCHANGED priorities
    /\ UNCHANGED <<cr, cached, uids, shown, owner, ready, hkVersion, volumes, spent>>

\* Removing the last finalizer of a deleted resource removes the resource.
RemoveFinalizer ==
    /\ pc = "removeFinalizer"
    /\ IF Current(inst)
       THEN /\ cr' = IF cr.del THEN Absent ELSE Revised(SetFinalizer(cr, FALSE))
            /\ Done
       ELSE Fail /\ UNCHANGED cr
    /\ UNCHANGED <<cached, uids, objects, spent>>

\* Any call of a running Reconcile may return an error.
CallFails ==
    /\ pc # "idle"
    /\ Spend("faults")
    /\ Fail
    /\ UNCHANGED <<cr, cached, uids, objects>>

Worker ==
    \/ Start \/ Coherency \/ CoherencyRead \/ CoherencyWrite \/ CoherencyReread
    \/ AddFinalizer \/ Gate
    \/ EnsurePriorityClasses \/ EnsureCFSSL \/ EnsureAstarteMicroservices
    \/ EnsureVerneMQ \/ StatusRead \/ StatusWrite
    \/ FinalizeVolumes \/ FinalizePriorityClasses \/ RemoveFinalizer

\* The process ends anywhere; the next one lists everything and handles it.
Restart ==
    /\ Spend("crashes")
    /\ Return
    /\ cached' = cr /\ shown' = priorities /\ queued' = Exists(cr)
    /\ UNCHANGED <<cr, uids, owner, ready, hkVersion, priorities, volumes>>

-----------------------------------------------------------------------------
(* The informer.  SetupWithManager's predicate passes creations, deletions *)
(* and the updates that change the generation.                             *)
\* Mutant: the predicate drops all updates.
DeliverNewOnly ==
    /\ cached # cr
    /\ cached' = cr
    /\ queued' = IF cached.uid # cr.uid THEN TRUE ELSE queued
    /\ UNCHANGED <<cr, uids, pc, inst, fresh, green, objects, spent>>

Deliver ==
    /\ cached # cr
    /\ cached' = cr
    /\ queued' = IF cached.uid # cr.uid \/ cached.gen # cr.gen THEN TRUE ELSE queued
    /\ UNCHANGED <<cr, uids, pc, inst, fresh, green, objects, spent>>

\* PriorityClasses are not watched.
ShowPriorityClasses ==
    /\ shown # priorities
    /\ shown' = priorities
    /\ UNCHANGED <<cr, cached, uids, queued, pc, inst, fresh, green, owner, ready,
                   hkVersion, priorities, volumes, spent>>

-----------------------------------------------------------------------------
(* The environment: users, kubelets and the controllers of Kubernetes.     *)
User == <<cached, queued, pc, inst, fresh, green, objects>>

CreateAstarte ==
    /\ ~Exists(cr) /\ uids < MaxUids
    /\ uids' = uids + 1
    /\ \E v \in Versions, m \in BOOLEAN :
          cr' = [uid |-> uids', rv |-> 1, gen |-> 1, version |-> v, maint |-> m,
                 fin |-> FALSE, del |-> FALSE, status |-> NoStatus]
    /\ UNCHANGED <<User, spent>>

EditAstarte ==
    /\ Exists(cr) /\ Spend("edits")
    /\ \/ \E v \in Versions \ {cr.version} :
             cr' = [NextGeneration(cr) EXCEPT !.version = v]
       \/ cr' = [NextGeneration(cr) EXCEPT !.maint = ~@]
    /\ UNCHANGED <<User, uids>>

DeleteAstarte ==
    /\ Exists(cr) /\ ~cr.del
    /\ cr' = IF cr.fin THEN [NextGeneration(cr) EXCEPT !.del = TRUE] ELSE Absent
    /\ UNCHANGED <<User, uids, spent>>

\* Watched Deployments and StatefulSets enqueue the key when they change.
BecomeReady(c) ==
    /\ owner[c] # 0 /\ ~ready[c]
    /\ ready' = [ready EXCEPT ![c] = TRUE]
    /\ queued' = TRUE
    /\ UNCHANGED <<cr, cached, uids, pc, inst, fresh, green, owner, hkVersion,
                   classes, volumes, spent>>

BecomeUnready(c) ==
    /\ ready[c] /\ Spend("flips")
    /\ ready' = [ready EXCEPT ![c] = FALSE]
    /\ queued' = TRUE
    /\ UNCHANGED <<cr, cached, uids, pc, inst, fresh, green, owner, hkVersion,
                   classes, volumes>>

\* A Secret or a ConfigMap of the namespace changed: every Astarte that the
\* cache shows is enqueued.
RelatedChange ==
    /\ Exists(cached) /\ ~queued
    /\ queued' = TRUE
    /\ UNCHANGED <<cr, cached, uids, pc, inst, fresh, green, objects, spent>>

\* The StatefulSet controller creates the claims of a StatefulSet's pods.
ProvisionVolumes ==
    /\ owner["vernemq"] # 0 /\ ~volumes
    /\ volumes' = TRUE
    /\ UNCHANGED <<cr, cached, uids, queued, pc, inst, fresh, green, owner, ready,
                   hkVersion, classes, spent>>

\* Dependents of a resource that is gone are garbage collected.
CollectGarbage(c) ==
    /\ owner[c] \notin {0, cr.uid}
    /\ owner' = [owner EXCEPT ![c] = 0]
    /\ ready' = [ready EXCEPT ![c] = FALSE]
    /\ hkVersion' = IF c = "microservices" THEN NoVersion ELSE hkVersion
    /\ queued' = TRUE
    /\ UNCHANGED <<cr, cached, uids, pc, inst, fresh, green, classes, volumes,
                   spent>>

Users == CreateAstarte \/ EditAstarte \/ DeleteAstarte
Kubernetes ==
    \/ RelatedChange \/ ProvisionVolumes
    \/ \E c \in Components :
          BecomeReady(c) \/ BecomeUnready(c) \/ CollectGarbage(c)
Environment == Users \/ Kubernetes

-----------------------------------------------------------------------------
Init ==
    /\ cr = Absent /\ cached = Absent /\ uids = 0
    /\ queued = FALSE /\ pc = "idle" /\ inst = Absent /\ fresh = Absent
    /\ green = FALSE
    /\ owner = [c \in Components |-> 0]
    /\ ready = [c \in Components |-> FALSE]
    /\ hkVersion = NoVersion /\ volumes = FALSE
    /\ priorities = FALSE /\ shown = FALSE
    /\ spent = [b \in Budgets |-> 0]

Informer == Deliver \/ ShowPriorityClasses
Next == Worker \/ CallFails \/ Restart \/ Informer \/ Environment

\* controller-runtime keeps processing a non-empty queue, informers and the
\* garbage collector catch up.  Users, readiness and failures are not fair.
Fairness ==
    /\ WF_vars(Worker)
    /\ WF_vars(Deliver) /\ WF_vars(ShowPriorityClasses)
    /\ \A c \in Components : WF_vars(CollectGarbage(c))

Spec == Init /\ [][Next]_vars
FairSpec == Spec /\ Fairness

\* Users who edit an Astarte only while the operator is at rest and who stay
\* out of maintenance mode, with an informer that shows the operator their
\* edits before it starts another Reconcile.
Patient == cr'.gen > cr.gen /\ ~cr'.del =>
              ~cr'.maint /\ pc = "idle" /\ ~queued /\ cached = cr
Prompt == pc = "idle" => cached.gen = cr.gen
PatientNext ==
    \/ Worker /\ Prompt
    \/ CallFails \/ Restart \/ Informer \/ Kubernetes
    \/ Users /\ Patient
PatientSpec == Init /\ [][PatientNext]_vars

-----------------------------------------------------------------------------
TypeOK ==
    /\ cr \in Resources /\ cached \in Resources
    /\ inst \in Resources /\ fresh \in Resources
    /\ uids \in 0..MaxUids
    /\ queued \in BOOLEAN
    /\ pc \in {"idle", "coherency", "coherencyRead", "coherencyWrite",
               "coherencyReread", "finalizer", "gate", "priorities", "cfssl",
               "microservices", "vernemq", "statusRead", "statusWrite",
               "volumes", "finalizePriorities", "removeFinalizer"}
    /\ green \in BOOLEAN
    /\ owner \in [Components -> 0..MaxUids]
    /\ ready \in [Components -> BOOLEAN]
    /\ hkVersion \in Versions \cup {NoVersion}
    /\ priorities \in BOOLEAN /\ shown \in BOOLEAN /\ volumes \in BOOLEAN
    /\ spent \in [Budgets -> Nat]

-----------------------------------------------------------------------------
(* Safety.                                                                 *)

\* Reconcile works on a snapshot, yet what ReconcileAstarteResources creates
\* or adopts always belongs to the resource that exists now, and only once
\* its finalizer is at the API server (addFinalizer comes first).
DeploysOnlyUnderFinalizer ==
    [][\A c \in Components :
          owner'[c] \notin {owner[c], 0} => cr.fin /\ owner'[c] = cr.uid]_vars

\* FinalizeAstarte, run from a cache that may show a predecessor of the same
\* name, never takes the PriorityClasses or the claims from a live Astarte that
\* has its finalizer, which it gets before anything is created for it.
FinalizesOnlyDeleted ==
    [][Exists(cr) /\ cr.fin /\ ~cr.del =>
          /\ priorities => priorities'
          /\ volumes => volumes']_vars

\* CheckAndPerformUpgrade stands in the way of every change of the version
\* that runs: it changes only in a Reconcile that found the cluster, or its
\* last report, green, or that runs a snapshot.
UpgradeGated ==
    [][hkVersion # NoVersion /\ hkVersion' \notin {hkVersion, NoVersion}
          => green \/ inst.status.version = Snapshot]_vars

-----------------------------------------------------------------------------
(* The inductive invariant behind the first two.                           *)

Preparing == {"coherency", "coherencyRead", "coherencyWrite", "coherencyReread",
              "finalizer"}
Deploying == {"gate", "priorities", "cfssl", "microservices", "vernemq"}
Finalizing == {"volumes", "finalizePriorities", "removeFinalizer"}

\* Something of the present Astarte is in the cluster.
Rooted == \E c \in Components : Exists(cr) /\ owner[c] = cr.uid

\* uids are handed out in order and never reused.
UidsOrdered ==
    /\ cr.uid <= uids /\ cached.uid <= uids /\ inst.uid <= uids
    /\ \A c \in Components : owner[c] <= uids

\* The cache shows a past of the resource: a finalizer or a deletion that it
\* shows is still there, unless the resource is gone after its finalization.
CacheIsPast ==
    /\ Exists(cr) /\ cached.uid = cr.uid =>
          (cached.fin => cr.fin) /\ (cached.del => cr.del)
    /\ Exists(cached) /\ cached.fin /\ cached.uid # cr.uid => cached.del

\* What is in the cluster has an owner with the finalizer, and the finalizer an
\* operator that knows of the owner.
RootedUnderFinalizer ==
    /\ Rooted => cr.fin
    /\ Exists(cr) /\ cr.fin => cached.uid = cr.uid

\* A snapshot that is being reconciled and has the finalizer is of the
\* resource that exists.
SnapshotIsLive ==
    pc \in Preparing \cup Deploying =>
       /\ Exists(inst)
       /\ inst.uid = cr.uid => cached.uid = cr.uid
       /\ inst.fin => inst.uid = cr.uid /\ cr.fin
       /\ pc \in Deploying => inst.fin

\* A snapshot that is being finalized is of a deleted resource.
SnapshotIsDeleted ==
    pc \in Finalizing =>
       /\ Exists(inst)
       /\ inst.uid = cr.uid => cr.del /\ cached.uid = cr.uid /\ cached.del
       /\ Exists(cr) /\ cr.fin => inst.uid = cr.uid

FinalizerInv ==
    /\ TypeOK
    /\ UidsOrdered
    /\ CacheIsPast
    /\ RootedUnderFinalizer
    /\ SnapshotIsLive
    /\ SnapshotIsDeleted

-----------------------------------------------------------------------------
(* Liveness.                                                               *)

\* The states in which Reconcile returns before it looks at the deletion.
Held(r) == r.maint \/ r.version \notin Manageable

\* A deleted Astarte is finalized and goes away, unless users hold it back by
\* maintenance mode or a version the operator refuses.
DeletionCompletes == cr.del ~> ~Exists(cr) \/ Held(cr)

\* The events that SetupWithManager lets through are enough: once users leave
\* an Astarte alone and its components stay ready, the status ends up telling
\* what is there, and outside maintenance the version asked for is running.
StatusSettles ==
    <>[](/\ Exists(cr) /\ ~cr.del /\ cr.version \in Manageable
         /\ ComputeClusterHealth = "green")
      => <>[](/\ cr.status = ComputeAstarteStatusResource(cr)
              /\ cr.maint \/ hkVersion = cr.version)

=============================================================================
