----------------------- MODULE AstarteController_proofs -----------------------
(***************************************************************************)
(* Theorems about AstarteController, for every value of its constants: the *)
(* types, that the operator deploys only under the finalizer and finalizes *)
(* only what is deleted, from the inductive invariant FinalizerInv, and    *)
(* that with users who wait nothing is deployed past the upgrade gate,     *)
(* from UpgradeInv.                                                        *)
(***************************************************************************)
EXTENDS AstarteController, TLAPS

\* The absent resource, with which locals and caches are reset, is a resource.
LEMMA AbsentType ==
  Absent \in Resources /\ Absent.uid = 0 /\ ~Absent.fin /\ ~Absent.del
  BY ControllerAssumption DEF Absent, NoStatus, Resources, Status

\* Writing the status keeps everything else.
LEMMA SetStatusFields ==
  ASSUME NEW r \in Resources, NEW s \in Status
  PROVE  /\ SetStatus(r, s) \in Resources
         /\ SetStatus(r, s).uid = r.uid /\ SetStatus(r, s).fin = r.fin
         /\ SetStatus(r, s).del = r.del /\ SetStatus(r, s).rv = r.rv
         /\ SetStatus(r, s).gen = r.gen /\ SetStatus(r, s).version = r.version
         /\ SetStatus(r, s).maint = r.maint /\ SetStatus(r, s).status = s
  BY DEF SetStatus, Resources

\* Writing the finalizer keeps everything else.
LEMMA SetFinalizerFields ==
  ASSUME NEW r \in Resources, NEW f \in BOOLEAN
  PROVE  /\ SetFinalizer(r, f) \in Resources
         /\ SetFinalizer(r, f).uid = r.uid /\ SetFinalizer(r, f).fin = f
         /\ SetFinalizer(r, f).del = r.del /\ SetFinalizer(r, f).rv = r.rv
         /\ SetFinalizer(r, f).gen = r.gen /\ SetFinalizer(r, f).version = r.version
         /\ SetFinalizer(r, f).maint = r.maint
         /\ SetFinalizer(r, f).status = r.status
  BY DEF SetFinalizer, Resources

\* A new resourceVersion keeps everything else.
LEMMA RevisedFields ==
  ASSUME NEW r \in Resources
  PROVE  /\ Revised(r) \in Resources
         /\ Revised(r).uid = r.uid /\ Revised(r).fin = r.fin
         /\ Revised(r).del = r.del /\ Revised(r).rv = r.rv + 1
         /\ Revised(r).gen = r.gen /\ Revised(r).version = r.version
         /\ Revised(r).maint = r.maint /\ Revised(r).status = r.status
  BY DEF Revised, Resources

\* A new generation keeps the identity, the finalizer and the deletion.
LEMMA NextGenerationFields ==
  ASSUME NEW r \in Resources
  PROVE  /\ NextGeneration(r) \in Resources
         /\ NextGeneration(r).uid = r.uid /\ NextGeneration(r).fin = r.fin
         /\ NextGeneration(r).del = r.del /\ NextGeneration(r).rv = r.rv + 1
         /\ NextGeneration(r).gen = r.gen + 1
         /\ NextGeneration(r).version = r.version
         /\ NextGeneration(r).maint = r.maint /\ NextGeneration(r).status = r.status
<1>1. Revised(r) \in Resources
  BY DEF Revised, Resources
<1>2. QED
  BY <1>1, RevisedFields DEF NextGeneration, Resources

\* The statuses that Reconcile writes are well formed.
LEMMA StatusTypes ==
  ASSUME TypeOK, NEW r \in Resources
  PROVE  /\ r.status \in Status
         /\ [r.status EXCEPT !.version = hkVersion] \in Status
         /\ [r.status EXCEPT !.version = fresh.status.version] \in Status
         /\ [version |-> NoVersion, health |-> "red", phase |-> "Reconciling"] \in Status
         /\ ComputeAstarteStatusResource(r) \in Status
<1>1. r.status \in Status /\ r.version \in Versions \cup {NoVersion}
  BY DEF Resources
<1>2. /\ [r.status EXCEPT !.version = hkVersion] \in Status
      /\ [r.status EXCEPT !.version = fresh.status.version] \in Status
  BY <1>1 DEF Status, TypeOK, Resources
<1>3. ComputeClusterHealth \in {"", "green", "yellow", "red"}
  BY DEF ComputeClusterHealth
<1>4. ComputeAstarteStatusResource(r) \in Status
  BY <1>1, <1>3 DEF ComputeAstarteStatusResource, Status
<1>5. QED
  BY <1>1, <1>2, <1>4 DEF Status

\* Every resource that Reconcile holds or writes is well formed.
LEMMA WrittenTypes ==
  ASSUME TypeOK
  PROVE  /\ SetStatus(inst, [version |-> NoVersion, health |-> "red",
                             phase |-> "Reconciling"]) \in Resources
         /\ SetStatus(inst, [inst.status EXCEPT !.version = hkVersion]) \in Resources
         /\ SetStatus(cached, [cached.status EXCEPT !.version = fresh.status.version])
              \in Resources
         /\ SetStatus(cached, ComputeAstarteStatusResource(cached)) \in Resources
         /\ Revised(SetStatus(cr, fresh.status)) \in Resources
         /\ Revised(SetFinalizer(cr, TRUE)) \in Resources
         /\ Revised(SetFinalizer(cr, FALSE)) \in Resources
<1>1. cr \in Resources /\ cached \in Resources /\ inst \in Resources /\ fresh \in Resources
  BY DEF TypeOK
<1>2. SetStatus(cr, fresh.status) \in Resources
  BY <1>1, StatusTypes, SetStatusFields
<1>3. SetFinalizer(cr, TRUE) \in Resources /\ SetFinalizer(cr, FALSE) \in Resources
  BY <1>1, SetFinalizerFields
<1>4. /\ Revised(SetStatus(cr, fresh.status)) \in Resources
      /\ Revised(SetFinalizer(cr, TRUE)) \in Resources
      /\ Revised(SetFinalizer(cr, FALSE)) \in Resources
  BY <1>2, <1>3, RevisedFields
<1>5. SetStatus(cached, ComputeAstarteStatusResource(cached)) \in Resources
  BY <1>1, StatusTypes, SetStatusFields
<1>6. /\ SetStatus(inst, [inst.status EXCEPT !.version = hkVersion]) \in Resources
      /\ SetStatus(cached, [cached.status EXCEPT !.version = fresh.status.version])
           \in Resources
  BY <1>1, StatusTypes, SetStatusFields
<1>7. SetStatus(inst, [version |-> NoVersion, health |-> "red",
                       phase |-> "Reconciling"]) \in Resources
  BY <1>1, StatusTypes, SetStatusFields
<1>8. QED
  BY <1>4, <1>5, <1>6, <1>7

LEMMA TypeInit == Init => TypeOK
<1> SUFFICES ASSUME Init PROVE TypeOK
  OBVIOUS
<1>1. uids \in 0..MaxUids /\ owner \in [Components -> 0..MaxUids]
  BY ControllerAssumption DEF Init
<1>2. spent \in [Budgets -> Nat] /\ ready \in [Components -> BOOLEAN]
  BY DEF Init
<1>3. QED
  BY <1>1, <1>2, AbsentType DEF Init, TypeOK

\* Deploy, for the three components it is used for.
LEMMA TypeDeploy ==
  ASSUME TypeOK, NEW c \in {"cfssl", "microservices", "vernemq"},
         NEW next \in {"microservices", "vernemq", "statusRead"},
         Deploy(c, next), hkVersion' \in Versions \cup {NoVersion}
  PROVE  TypeOK'
<1>1. inst.uid \in 0..MaxUids
  BY DEF TypeOK, Resources
<1>2. owner' \in [Components -> 0..MaxUids]
  BY <1>1 DEF TypeOK, Deploy, Components
<1>3. queued' \in BOOLEAN /\ UNCHANGED <<cr, cached, uids, inst, fresh, green, ready,
                                         classes, volumes, spent>>
  BY DEF TypeOK, Deploy, locals
<1>4. pc' = next
  BY DEF Deploy
<1>5. QED
  BY <1>2, <1>3, <1>4 DEF TypeOK, classes

\* Using up a bound.
LEMMA TypeSpend ==
  ASSUME TypeOK, NEW what \in Budgets, Spend(what)
  PROVE  spent' \in [Budgets -> Nat]
  BY DEF Spend, TypeOK

LEMMA TypeWorker == TypeOK /\ Worker => TypeOK'
<1> SUFFICES ASSUME TypeOK, Worker PROVE TypeOK'
  OBVIOUS
<1> USE AbsentType, WrittenTypes DEF TypeOK, classes
<1>1. CASE Start
  BY <1>1 DEF Start, FirstStep, Return, Fail, objects
<1>2. CASE Coherency
  BY <1>2 DEF Coherency, Goto, objects
<1>3. CASE CoherencyRead
  BY <1>3 DEF CoherencyRead, Goto, Fail, Return, objects
<1>4. CASE CoherencyWrite
  BY <1>4 DEF CoherencyWrite, StatusUpdate, Conflict, Goto, Fail, Return, locals,
              objects
<1>5. CASE CoherencyReread
  BY <1>5 DEF CoherencyReread, Goto, Fail, Return, locals, objects
<1>6. CASE AddFinalizer
  BY <1>6 DEF AddFinalizer, Goto, Fail, Return, locals, objects
<1>7. CASE Gate
  <2>1. UpgradeAllowed \in BOOLEAN
    BY DEF UpgradeAllowed
  <2>2. green' \in BOOLEAN
    BY <1>7, <2>1 DEF Gate, Fail, Return
  <2>3. /\ inst' \in Resources /\ fresh' \in Resources /\ queued' \in BOOLEAN
        /\ pc' \in {"idle", "priorities"}
        /\ UNCHANGED <<cr, cached, uids, objects, spent>>
    BY <1>7 DEF Gate, Goto, Fail, Return
  <2>4. QED
    BY <2>2, <2>3 DEF objects
<1>8. CASE EnsurePriorityClasses
  BY <1>8 DEF EnsurePriorityClasses, Goto, Fail, Return, locals
<1>9. CASE EnsureCFSSL
  BY <1>9, TypeDeploy DEF EnsureCFSSL
<1>10. CASE EnsureAstarteMicroservices
  <2>1. inst.version \in Versions \cup {NoVersion}
    BY DEF Resources
  <2>2. QED
    BY <1>10, <2>1, TypeDeploy DEF EnsureAstarteMicroservices
<1>11. CASE EnsureVerneMQ
  BY <1>11, TypeDeploy DEF EnsureVerneMQ
<1>12. CASE StatusRead
  BY <1>12 DEF StatusRead, Goto, Fail, Return, objects
<1>13. CASE StatusWrite
  BY <1>13 DEF StatusWrite, StatusUpdate, Conflict, Goto, Done, Fail, Return, locals,
               objects
<1>14. CASE FinalizeVolumes
  BY <1>14 DEF FinalizeVolumes, Goto, locals
<1>15. CASE FinalizePriorityClasses
  BY <1>15 DEF FinalizePriorityClasses, Goto, Fail, Return, locals
<1>16. CASE RemoveFinalizer
  BY <1>16 DEF RemoveFinalizer, Done, Fail, Return, objects
<1>17. QED
  BY <1>1, <1>2, <1>3, <1>4, <1>5, <1>6, <1>7, <1>8, <1>9, <1>10, <1>11, <1>12,
     <1>13, <1>14, <1>15, <1>16 DEF Worker

\* The steps of the environment, the informer, failures and restarts.
LEMMA TypeOthers ==
  TypeOK /\ (CallFails \/ Restart \/ Informer \/ Environment) => TypeOK'
<1> SUFFICES ASSUME TypeOK, CallFails \/ Restart \/ Informer \/ Environment
             PROVE  TypeOK'
  OBVIOUS
<1> USE AbsentType DEF TypeOK, classes
<1>1. CASE CallFails
  <2>1. spent' \in [Budgets -> Nat]
    BY <1>1, TypeSpend DEF CallFails, Budgets
  <2>2. QED
    BY <1>1, <2>1 DEF CallFails, Fail, Return, objects
<1>2. CASE Restart
  <2>1. spent' \in [Budgets -> Nat]
    BY <1>2, TypeSpend DEF Restart, Budgets
  <2>2. queued' \in BOOLEAN
    BY <1>2 DEF Restart, Exists
  <2>3. QED
    BY <1>2, <2>1, <2>2 DEF Restart, Return, objects
<1>3. CASE Deliver
  BY <1>3 DEF Deliver, objects
<1>4. CASE CreateAstarte
  <2>1. uids' \in 0..MaxUids
    BY <1>4, ControllerAssumption DEF CreateAstarte
  <2>2. NoStatus \in Status
    BY DEF NoStatus, Status
  <2>3. cr' \in Resources
    BY <1>4, <2>1, <2>2 DEF CreateAstarte, Resources
  <2>4. QED
    BY <1>4, <2>1, <2>3 DEF CreateAstarte, User, objects
<1>5. CASE EditAstarte
  <2>1. NextGeneration(cr) \in Resources
    BY NextGenerationFields
  <2>2. cr' \in Resources
    BY <1>5, <2>1 DEF EditAstarte, Resources
  <2>3. spent' \in [Budgets -> Nat]
    BY <1>5 DEF EditAstarte, Spend, Budgets
  <2>4. QED
    BY <1>5, <2>2, <2>3 DEF EditAstarte, User, objects
<1>6. CASE DeleteAstarte
  <2>1. NextGeneration(cr) \in Resources
    BY NextGenerationFields
  <2>2. [NextGeneration(cr) EXCEPT !.del = TRUE] \in Resources
    BY <2>1 DEF Resources
  <2>3. QED
    BY <1>6, <2>2 DEF DeleteAstarte, User, objects
<1>7. CASE ProvisionVolumes
  BY <1>7 DEF ProvisionVolumes
<1>8. CASE RelatedChange
  BY <1>8 DEF RelatedChange, objects
<1>9. ASSUME NEW c \in Components, BecomeReady(c) PROVE TypeOK'
  BY <1>9 DEF BecomeReady
<1>10. ASSUME NEW c \in Components, BecomeUnready(c) PROVE TypeOK'
  BY <1>10 DEF BecomeUnready, Spend, Budgets
<1>11. ASSUME NEW c \in Components, CollectGarbage(c) PROVE TypeOK'
  BY <1>11, ControllerAssumption DEF CollectGarbage
<1>12. CASE ShowPriorityClasses
  BY <1>12 DEF ShowPriorityClasses
<1>13. QED
  BY <1>1, <1>2, <1>3, <1>4, <1>5, <1>6, <1>7, <1>8, <1>9, <1>10, <1>11, <1>12
  DEF Informer, Environment, Users, Kubernetes

\* Type correctness: whatever users, failures and restarts do, every variable
\* of the controller keeps its type.
THEOREM TypeCorrect == Spec => []TypeOK
<1>1. TypeOK /\ [Next]_vars => TypeOK'
  <2> SUFFICES ASSUME TypeOK, [Next]_vars PROVE TypeOK'
    OBVIOUS
  <2>1. CASE Next
    BY <2>1, TypeWorker, TypeOthers DEF Next
  <2>2. CASE UNCHANGED vars
    BY <2>2 DEF vars, objects, classes, TypeOK
  <2>3. QED
    BY <2>1, <2>2
<1>2. QED
  BY <1>1, TypeInit, PTL DEF Spec

-------------------------------------------------------------------------------
(* FinalizerInv is inductive.                                              *)

\* Steps that leave the identity, the finalizer and the deletion of what the
\* worker deals with alone, and do not enter another part of Reconcile.
LEMMA Frame ==
  ASSUME FinalizerInv, TypeOK',
         cr'.uid = cr.uid, cr'.fin = cr.fin, cr'.del = cr.del,
         UNCHANGED <<cached, uids, owner>>,
         inst'.uid <= uids,
         \/ pc' \notin Preparing \cup Deploying \cup Finalizing
         \/ inst'.uid = inst.uid /\ inst'.fin = inst.fin,
         pc' \in Preparing => pc \in Preparing,
         pc' \in Deploying => pc \in Deploying,
         pc' \in Finalizing => pc \in Finalizing
  PROVE  FinalizerInv'
<1>1. UidsOrdered'
  BY DEF FinalizerInv, UidsOrdered
<1>2. Rooted' <=> Rooted
  BY DEF Rooted, Exists
<1>3. CacheIsPast' /\ RootedUnderFinalizer'
  BY <1>2 DEF FinalizerInv, CacheIsPast, RootedUnderFinalizer, Exists
<1>4. SnapshotIsLive'
  BY DEF FinalizerInv, SnapshotIsLive, Exists, Preparing, Deploying, Finalizing
<1>5. SnapshotIsDeleted'
  BY <1>2 DEF FinalizerInv, SnapshotIsDeleted, Exists, Preparing, Deploying, Finalizing
<1>6. QED
  BY <1>1, <1>3, <1>4, <1>5 DEF FinalizerInv

\* The steps of Reconcile that Frame covers.
LEMMA FrameWorker ==
  ASSUME FinalizerInv, TypeOK',
         \/ Coherency \/ CoherencyRead \/ CoherencyWrite \/ CoherencyReread
         \/ Gate \/ StatusRead \/ StatusWrite
         \/ FinalizeVolumes \/ FinalizePriorityClasses \/ CallFails
  PROVE  FinalizerInv'
<1> USE DEF Preparing, Deploying, Finalizing
<1>1. /\ TypeOK
      /\ cr \in Resources /\ inst \in Resources /\ fresh \in Resources
      /\ inst.uid <= uids /\ uids \in Nat
  BY ControllerAssumption DEF FinalizerInv, TypeOK, UidsOrdered
<1>2. Return => inst'.uid <= uids /\ pc' = "idle"
  BY <1>1, AbsentType DEF Return
<1>3. CASE Coherency
  <2>1. inst'.uid = inst.uid /\ inst'.fin = inst.fin
    <3> DEFINE red == [version |-> NoVersion, health |-> "red", phase |-> "Reconciling"]
    <3>1. red \in Status
      BY <1>1, StatusTypes
    <3>2. inst' \in {inst, SetStatus(inst, red)}
      BY <1>3 DEF Coherency
    <3> HIDE DEF red
    <3>3. SetStatus(inst, red).uid = inst.uid /\ SetStatus(inst, red).fin = inst.fin
      BY <1>1, <3>1, SetStatusFields
    <3>4. QED
      BY <3>2, <3>3
  <2>2. QED
    BY <1>1, <1>3, <2>1, Frame DEF Coherency, Goto, objects
<1>4. CASE CoherencyRead
  BY <1>1, <1>2, <1>4, Frame DEF CoherencyRead, Goto, Fail, objects
<1>5. CASE CoherencyWrite
  <2>1. cr'.uid = cr.uid /\ cr'.fin = cr.fin /\ cr'.del = cr.del
    <3>1. fresh.status \in Status
      BY <1>1, StatusTypes
    <3>2. SetStatus(cr, fresh.status) \in Resources
      BY <1>1, <3>1, SetStatusFields
    <3>3. QED
      BY <1>1, <1>5, <3>1, <3>2, SetStatusFields, RevisedFields
      DEF CoherencyWrite, StatusUpdate, Conflict
  <2>2. QED
    BY <1>1, <1>2, <1>5, <2>1, Frame
    DEF CoherencyWrite, Conflict, Goto, Fail, locals, objects
<1>6. CASE CoherencyReread
  BY <1>1, <1>2, <1>6, Frame DEF CoherencyReread, Goto, Fail, locals, objects
<1>7. CASE Gate
  BY <1>1, <1>2, <1>7, Frame DEF Gate, Goto, Fail, objects
<1>8. CASE StatusRead
  BY <1>1, <1>2, <1>8, Frame DEF StatusRead, Goto, Fail, objects
<1>9. CASE StatusWrite
  <2>1. cr'.uid = cr.uid /\ cr'.fin = cr.fin /\ cr'.del = cr.del
    <3>1. fresh.status \in Status
      BY <1>1, StatusTypes
    <3>2. SetStatus(cr, fresh.status) \in Resources
      BY <1>1, <3>1, SetStatusFields
    <3>3. QED
      BY <1>1, <1>9, <3>1, <3>2, SetStatusFields, RevisedFields
      DEF StatusWrite, StatusUpdate, Conflict
  <2>2. QED
    BY <1>1, <1>2, <1>9, <2>1, Frame
    DEF StatusWrite, Conflict, Goto, Done, Fail, locals, objects
<1>10. CASE FinalizeVolumes
  BY <1>1, <1>10, Frame DEF FinalizeVolumes, Goto, locals
<1>11. CASE CallFails
  BY <1>1, <1>2, <1>11, Frame DEF CallFails, Fail, objects
<1>12. CASE FinalizePriorityClasses
  BY <1>1, <1>2, <1>12, Frame DEF FinalizePriorityClasses, Goto, Fail, locals
<1>13. QED
  BY <1>3, <1>4, <1>5, <1>6, <1>7, <1>8, <1>9, <1>10, <1>11, <1>12

\* A Reconcile that is over leaves nothing to show about its snapshot: what
\* remains are the facts about the resource, its cache and the cluster.
LEMMA Idle ==
  ASSUME TypeOK', UidsOrdered', CacheIsPast', RootedUnderFinalizer',
         pc' \notin Preparing \cup Deploying \cup Finalizing
  PROVE  FinalizerInv'
  BY DEF FinalizerInv, SnapshotIsLive, SnapshotIsDeleted, Preparing, Deploying,
         Finalizing

\* Start takes its snapshot from the cache, which shows a past of the resource.
LEMMA InvStart == ASSUME FinalizerInv, TypeOK', Start PROVE FinalizerInv'
<1> USE DEF Preparing, Deploying, Finalizing
<1>1. UNCHANGED <<cr, cached, uids, owner>>
  BY DEF Start, objects
<1>2. \/ inst' = Absent /\ pc' = "idle"
      \/ inst' = cached /\ Exists(cached)
  BY DEF Start, Return, Fail
<1>3. UidsOrdered'
  BY <1>1, <1>2, AbsentType, ControllerAssumption
  DEF FinalizerInv, UidsOrdered, TypeOK
<1>4. Rooted' <=> Rooted
  BY <1>1 DEF Rooted, Exists
<1>5. CacheIsPast' /\ RootedUnderFinalizer'
  BY <1>1, <1>4 DEF FinalizerInv, CacheIsPast, RootedUnderFinalizer, Exists
<1>6. CASE pc' \in {"coherency", "finalizer"}
  <2>1. inst' = cached /\ Exists(cached) /\ ~cached.del
    BY <1>6 DEF Start, FirstStep, Return, Fail
  <2>2. cached.fin => cached.uid = cr.uid /\ cr.fin
    BY <2>1 DEF FinalizerInv, CacheIsPast, Exists
  <2>3. SnapshotIsLive' /\ SnapshotIsDeleted'
    BY <1>1, <1>6, <2>1, <2>2 DEF SnapshotIsLive, SnapshotIsDeleted, Exists
  <2>4. QED
    BY <1>3, <1>5, <2>3 DEF FinalizerInv
<1>7. CASE pc' = "volumes"
  <2>1. inst' = cached /\ Exists(cached) /\ cached.del
    BY <1>7 DEF Start, FirstStep, Return, Fail
  <2>2. cached.uid = cr.uid => cr.del
    BY <2>1 DEF FinalizerInv, CacheIsPast, Exists
  <2>3. Exists(cr) /\ cr.fin => cached.uid = cr.uid
    BY DEF FinalizerInv, RootedUnderFinalizer
  <2>4. SnapshotIsLive' /\ SnapshotIsDeleted'
    BY <1>1, <1>4, <1>7, <2>1, <2>2, <2>3
    DEF SnapshotIsLive, SnapshotIsDeleted, Exists
  <2>5. QED
    BY <1>3, <1>5, <2>4 DEF FinalizerInv
<1>8. CASE pc' \in {"idle", "statusRead"}
  BY <1>3, <1>5, <1>8, Idle
<1>9. QED
  BY <1>6, <1>7, <1>8 DEF Start, FirstStep, Return, Fail

\* The optimistic lock makes AddFinalizer fail unless the snapshot is the
\* resource that exists; a snapshot that has the finalizer is.
LEMMA InvAddFinalizer ==
  ASSUME FinalizerInv, TypeOK', AddFinalizer PROVE FinalizerInv'
<1> USE DEF Preparing, Deploying, Finalizing
<1>1. /\ UNCHANGED <<cached, uids, owner>> /\ pc = "finalizer"
      /\ cr \in Resources /\ uids \in Nat
  BY ControllerAssumption DEF AddFinalizer, objects, FinalizerInv, TypeOK
<1>2. CASE inst.fin
  <2>1. UNCHANGED <<cr, inst>> /\ pc' = "gate"
    BY <1>2 DEF AddFinalizer, Goto, locals
  <2>2. UidsOrdered' /\ CacheIsPast' /\ RootedUnderFinalizer'
    BY <1>1, <2>1 DEF FinalizerInv, UidsOrdered, CacheIsPast, RootedUnderFinalizer,
                      Rooted, Exists
  <2>3. SnapshotIsLive' /\ SnapshotIsDeleted'
    BY <1>1, <1>2, <2>1 DEF FinalizerInv, SnapshotIsLive, SnapshotIsDeleted, Exists
  <2>4. QED
    BY <2>2, <2>3 DEF FinalizerInv
<1>3. CASE ~inst.fin /\ Current(inst)
  <2>1. /\ cr' = Revised(SetFinalizer(cr, TRUE)) /\ inst' = cr' /\ pc' = "gate"
        /\ Exists(cr) /\ inst.uid = cr.uid
    BY <1>3 DEF AddFinalizer, Goto, Current, Exists
  <2>2. cr'.uid = cr.uid /\ cr'.fin /\ cr'.del = cr.del
    <3> DEFINE r == SetFinalizer(cr, TRUE)
    <3>1. r \in Resources /\ r.uid = cr.uid /\ r.fin /\ r.del = cr.del
      BY <1>1, SetFinalizerFields
    <3>2. cr' = Revised(r)
      BY <2>1
    <3> HIDE DEF r
    <3> QED
      BY <3>1, <3>2, RevisedFields
  <2>3. cached.uid = cr.uid
    BY <1>1, <2>1 DEF FinalizerInv, SnapshotIsLive
  <2>4. UidsOrdered' /\ CacheIsPast' /\ RootedUnderFinalizer'
    BY <1>1, <2>1, <2>2, <2>3 DEF FinalizerInv, UidsOrdered, CacheIsPast,
                                  RootedUnderFinalizer, Exists
  <2>5. SnapshotIsLive' /\ SnapshotIsDeleted'
    BY <1>1, <2>1, <2>2, <2>3 DEF SnapshotIsLive, SnapshotIsDeleted, Exists
  <2>6. QED
    BY <2>4, <2>5 DEF FinalizerInv
<1>4. CASE ~inst.fin /\ ~Current(inst)
  <2>1. UNCHANGED cr /\ Return
    BY <1>4 DEF AddFinalizer, Fail
  <2>2. inst'.uid <= uids /\ pc' = "idle"
    BY <1>1, <2>1, AbsentType DEF Return
  <2>3. QED
    BY <1>1, <2>1, <2>2, Frame
<1>5. QED
  BY <1>2, <1>3, <1>4

\* What is created or adopted while deploying belongs to the resource that
\* exists, and that resource has the finalizer.
LEMMA InvEnsure ==
  ASSUME FinalizerInv, TypeOK', pc \in Deploying,
         pc' \in Deploying \cup {"statusRead"},
         UNCHANGED <<cr, cached, uids, inst>>,
         \A c \in Components : owner'[c] \in {owner[c], inst.uid}
  PROVE  FinalizerInv'
<1> USE DEF Preparing, Deploying, Finalizing
<1>1. inst.uid = cr.uid /\ cr.fin /\ inst.fin /\ Exists(inst) /\ cached.uid = cr.uid
  BY DEF FinalizerInv, SnapshotIsLive
<1>2. UidsOrdered' /\ CacheIsPast' /\ RootedUnderFinalizer'
  BY <1>1 DEF FinalizerInv, UidsOrdered, CacheIsPast, RootedUnderFinalizer, Exists
<1>3. SnapshotIsLive' /\ SnapshotIsDeleted'
  BY <1>1 DEF SnapshotIsLive, SnapshotIsDeleted, Exists
<1>4. QED
  BY <1>2, <1>3 DEF FinalizerInv

LEMMA InvDeploying ==
  ASSUME FinalizerInv, TypeOK',
         \/ EnsurePriorityClasses \/ EnsureCFSSL \/ EnsureAstarteMicroservices
         \/ EnsureVerneMQ
  PROVE  FinalizerInv'
<1>1. CASE EnsurePriorityClasses
  <2>1. CASE UNCHANGED locals /\ pc' = "cfssl"
    BY <1>1, <2>1, InvEnsure DEF EnsurePriorityClasses, locals, Deploying
  <2>2. CASE Return
    <3>1. inst'.uid <= uids /\ pc' = "idle"
      BY <2>2, AbsentType, ControllerAssumption DEF Return, FinalizerInv, TypeOK
    <3>2. QED
      BY <1>1, <3>1, Frame
      DEF EnsurePriorityClasses, Preparing, Deploying, Finalizing
  <2>3. QED
    BY <1>1, <2>1, <2>2 DEF EnsurePriorityClasses, Goto, Fail
<1>2. ASSUME NEW c \in {"cfssl", "microservices", "vernemq"},
             NEW next \in {"microservices", "vernemq", "statusRead"}, Deploy(c, next)
      PROVE  FinalizerInv'
  <2>1. \A d \in Components : owner'[d] \in {owner[d], inst.uid}
    BY <1>2 DEF Deploy, Components, FinalizerInv, TypeOK
  <2>2. QED
    BY <1>2, <2>1, InvEnsure DEF Deploy, locals, Deploying
<1>3. QED
  BY <1>1, <1>2 DEF EnsureCFSSL, EnsureAstarteMicroservices, EnsureVerneMQ

\* The lock lets the finalizer go only if the snapshot is the resource that
\* exists: then that is deleted, and goes with its finalizer.
LEMMA InvRemoveFinalizer ==
  ASSUME FinalizerInv, TypeOK', RemoveFinalizer PROVE FinalizerInv'
<1> USE DEF Preparing, Deploying, Finalizing
<1>1. UNCHANGED <<cached, uids, owner>> /\ Return /\ pc = "removeFinalizer"
  BY DEF RemoveFinalizer, Done, Fail, objects
<1>2. uids \in Nat
  BY ControllerAssumption DEF FinalizerInv, TypeOK
<1>3. pc' = "idle" /\ inst'.uid <= uids
  BY <1>1, <1>2, AbsentType DEF Return
<1>4. CASE Current(inst)
  <2>1. inst.uid = cr.uid /\ cr.del /\ cached.uid = cr.uid /\ cached.del
    BY <1>1, <1>4 DEF Current, FinalizerInv, SnapshotIsDeleted
  <2>2. cr' = Absent
    BY <1>4, <2>1 DEF RemoveFinalizer
  <2>3. UidsOrdered'
    BY <1>1, <1>2, <1>3, <2>2, AbsentType DEF FinalizerInv, UidsOrdered
  <2>4. CacheIsPast' /\ RootedUnderFinalizer'
    BY <1>1, <2>1, <2>2, AbsentType
    DEF FinalizerInv, CacheIsPast, RootedUnderFinalizer, Rooted, Exists
  <2>5. QED
    BY <1>3, <2>3, <2>4, Idle
<1>5. CASE ~Current(inst)
  BY <1>1, <1>3, <1>5, Frame DEF RemoveFinalizer
<1>6. QED
  BY <1>4, <1>5

\* Restarts and the informer bring the cache up to date.
LEMMA InvCache ==
  ASSUME FinalizerInv, TypeOK', Restart \/ Deliver PROVE FinalizerInv'
<1> USE DEF Preparing, Deploying, Finalizing
<1>0. uids \in Nat
  BY ControllerAssumption DEF FinalizerInv, TypeOK
<1>1. UNCHANGED <<cr, uids, owner>> /\ cached' = cr
  BY DEF Restart, Deliver, objects
<1>2. Rooted' <=> Rooted
  BY <1>1 DEF Rooted, Exists
<1>3. CacheIsPast' /\ RootedUnderFinalizer'
  BY <1>1, <1>2 DEF FinalizerInv, CacheIsPast, RootedUnderFinalizer, Exists
<1>4. CASE Restart
  <2>1. pc' = "idle" /\ inst'.uid <= uids
    BY <1>0, <1>1, <1>4, AbsentType DEF Restart, Return
  <2>2. UidsOrdered'
    BY <1>1, <2>1 DEF FinalizerInv, UidsOrdered
  <2>3. QED
    BY <1>3, <2>1, <2>2, Idle
<1>5. CASE Deliver
  <2>1. UNCHANGED <<pc, inst>>
    BY <1>5 DEF Deliver
  <2>2. UidsOrdered'
    BY <1>1, <2>1 DEF FinalizerInv, UidsOrdered
  <2>3. SnapshotIsLive' /\ SnapshotIsDeleted'
    BY <1>1, <1>2, <2>1 DEF FinalizerInv, SnapshotIsLive, SnapshotIsDeleted, Exists
  <2>4. QED
    BY <1>3, <2>2, <2>3 DEF FinalizerInv
<1>6. QED
  BY <1>4, <1>5

\* Users: only a resource without the finalizer goes away at once, and one
\* that is created again has a uid nothing in the cluster has.
LEMMA InvUser ==
  ASSUME FinalizerInv, TypeOK', CreateAstarte \/ EditAstarte \/ DeleteAstarte
  PROVE  FinalizerInv'
<1>1. /\ UNCHANGED <<cached, pc, inst, owner>>
      /\ cr \in Resources /\ uids \in Nat
      /\ cr.uid \in Nat /\ cached.uid \in Nat /\ inst.uid \in Nat
      /\ \A c \in Components : owner[c] \in Nat
  BY ControllerAssumption DEF CreateAstarte, EditAstarte, DeleteAstarte, User, objects,
     FinalizerInv, TypeOK, Resources
<1>2. CASE CreateAstarte
  <2>1. /\ cr.uid = 0 /\ cr'.uid = uids + 1 /\ uids' = uids + 1
        /\ ~cr'.fin /\ ~cr'.del
    BY <1>2 DEF CreateAstarte, Exists
  <2>2. \A c \in Components : owner'[c] # cr'.uid
    BY <1>1, <2>1 DEF FinalizerInv, UidsOrdered
  <2>3. cached.uid # cr'.uid /\ inst.uid # cr'.uid
    BY <1>1, <2>1 DEF FinalizerInv, UidsOrdered
  <2>4. UidsOrdered'
    BY <1>1, <2>1 DEF FinalizerInv, UidsOrdered
  <2>5. CacheIsPast' /\ RootedUnderFinalizer'
    BY <1>1, <2>1, <2>2, <2>3
    DEF FinalizerInv, CacheIsPast, RootedUnderFinalizer, Rooted, Exists
  <2>6. SnapshotIsLive'
    BY <1>1, <2>1, <2>3 DEF FinalizerInv, SnapshotIsLive, Exists, Preparing, Deploying
  <2>7. SnapshotIsDeleted'
    BY <1>1, <2>1, <2>2, <2>3
    DEF FinalizerInv, SnapshotIsDeleted, Rooted, Exists, Finalizing
  <2>8. QED
    BY <2>4, <2>5, <2>6, <2>7 DEF FinalizerInv
<1>3. CASE EditAstarte
  <2>1. UNCHANGED uids
    BY <1>3 DEF EditAstarte
  <2>2. cr'.uid = cr.uid /\ cr'.fin = cr.fin /\ cr'.del = cr.del
    <3>1. NextGeneration(cr) \in Resources
      BY <1>1, NextGenerationFields
    <3>2. \/ \E v \in Versions : cr' = [NextGeneration(cr) EXCEPT !.version = v]
          \/ cr' = [NextGeneration(cr) EXCEPT !.maint = ~@]
      BY <1>3 DEF EditAstarte
    <3>3. /\ cr'.uid = NextGeneration(cr).uid /\ cr'.fin = NextGeneration(cr).fin
          /\ cr'.del = NextGeneration(cr).del
      BY <3>1, <3>2 DEF Resources
    <3>4. QED
      BY <1>1, <3>3, NextGenerationFields
  <2>3. QED
    BY <1>1, <2>1, <2>2, Frame DEF FinalizerInv, UidsOrdered
<1>4. CASE DeleteAstarte /\ cr.fin
  <2>1. UNCHANGED uids /\ Exists(cr)
    BY <1>4 DEF DeleteAstarte
  <2>2. cr'.uid = cr.uid /\ cr'.fin /\ cr'.del
    <3>1. cr' = [NextGeneration(cr) EXCEPT !.del = TRUE]
      BY <1>4 DEF DeleteAstarte
    <3>2. QED
      BY <1>1, <1>4, <3>1, NextGenerationFields DEF Resources
  <2>3. Rooted' <=> Rooted
    BY <1>1, <2>2 DEF Rooted, Exists
  <2>4. UidsOrdered' /\ CacheIsPast' /\ RootedUnderFinalizer'
    BY <1>1, <1>4, <2>1, <2>2, <2>3
    DEF FinalizerInv, UidsOrdered, CacheIsPast, RootedUnderFinalizer, Exists
  <2>5. SnapshotIsLive' /\ SnapshotIsDeleted'
    BY <1>1, <1>4, <2>1, <2>2
    DEF FinalizerInv, SnapshotIsLive, SnapshotIsDeleted, Exists
  <2>6. QED
    BY <2>4, <2>5 DEF FinalizerInv
<1>5. CASE DeleteAstarte /\ ~cr.fin
  <2>1. cr' = Absent /\ UNCHANGED uids
    BY <1>5 DEF DeleteAstarte
  <2>2. ~Rooted /\ ~Rooted'
    BY <1>1, <1>5, <2>1, AbsentType DEF FinalizerInv, RootedUnderFinalizer, Rooted, Exists
  <2>3. UidsOrdered' /\ CacheIsPast' /\ RootedUnderFinalizer'
    BY <1>1, <1>5, <2>1, <2>2, AbsentType
    DEF DeleteAstarte, FinalizerInv, UidsOrdered, CacheIsPast, RootedUnderFinalizer,
        Exists
  <2>4. SnapshotIsLive' /\ SnapshotIsDeleted'
    BY <1>1, <1>5, <2>1, <2>2, AbsentType
    DEF FinalizerInv, SnapshotIsLive, SnapshotIsDeleted, Exists
  <2>5. QED
    BY <2>3, <2>4 DEF FinalizerInv
<1>6. QED
  BY <1>2, <1>3, <1>4, <1>5

\* The cluster: nothing it does on its own makes a component anyone's.
LEMMA InvCluster ==
  ASSUME FinalizerInv, TypeOK',
         \/ ProvisionVolumes \/ RelatedChange \/ ShowPriorityClasses
         \/ \E c \in Components : BecomeReady(c) \/ BecomeUnready(c) \/ CollectGarbage(c)
  PROVE  FinalizerInv'
<1>1. inst.uid <= uids
  BY DEF FinalizerInv, UidsOrdered
<1>2. CASE ProvisionVolumes
  BY <1>1, <1>2, Frame DEF ProvisionVolumes
<1>3. CASE RelatedChange \/ ShowPriorityClasses
  BY <1>1, <1>3, Frame DEF RelatedChange, ShowPriorityClasses, objects
<1>4. CASE \E c \in Components : BecomeReady(c) \/ BecomeUnready(c)
  BY <1>1, <1>4, Frame DEF BecomeReady, BecomeUnready
<1>5. ASSUME NEW c \in Components, CollectGarbage(c) PROVE FinalizerInv'
  <2>1. UNCHANGED <<cr, cached, uids, pc, inst>>
    BY <1>5 DEF CollectGarbage
  <2>2. \A d \in Components : owner'[d] \in {owner[d], 0}
    BY <1>5 DEF CollectGarbage, FinalizerInv, TypeOK
  <2>3. Rooted' => Rooted
    BY <2>1, <2>2 DEF Rooted, Exists
  <2>4. UidsOrdered'
    BY <2>1, <2>2, ControllerAssumption DEF FinalizerInv, UidsOrdered, TypeOK
  <2>5. CacheIsPast' /\ RootedUnderFinalizer'
    BY <2>1, <2>3 DEF FinalizerInv, CacheIsPast, RootedUnderFinalizer, Exists
  <2>6. SnapshotIsLive' /\ SnapshotIsDeleted'
    BY <2>1, <2>3 DEF FinalizerInv, SnapshotIsLive, SnapshotIsDeleted, Exists
  <2>7. QED
    BY <2>4, <2>5, <2>6 DEF FinalizerInv
<1>6. QED
  BY <1>2, <1>3, <1>4, <1>5

LEMMA InvInit == Init => FinalizerInv
<1> SUFFICES ASSUME Init PROVE FinalizerInv
  OBVIOUS
<1>1. UidsOrdered /\ CacheIsPast
  BY AbsentType DEF Init, UidsOrdered, CacheIsPast, Exists
<1>2. ~Rooted
  BY AbsentType DEF Init, Rooted, Exists
<1>3. QED
  BY <1>1, <1>2, TypeInit
  DEF Init, FinalizerInv, RootedUnderFinalizer, SnapshotIsLive, SnapshotIsDeleted,
      Preparing, Deploying, Finalizing

LEMMA InvNext == FinalizerInv /\ [Next]_vars => FinalizerInv'
<1> SUFFICES ASSUME FinalizerInv, [Next]_vars PROVE FinalizerInv'
  OBVIOUS
<1>1. TypeOK'
  BY TypeWorker, TypeOthers DEF FinalizerInv, Next, TypeOK, vars, objects, classes
<1>2. CASE Worker
  BY <1>1, <1>2, FrameWorker, InvStart, InvAddFinalizer, InvDeploying,
     InvRemoveFinalizer
  DEF Worker
<1>3. CASE CallFails
  BY <1>1, <1>3, FrameWorker
<1>4. CASE Restart \/ Deliver
  BY <1>1, <1>4, InvCache
<1>5. CASE Environment \/ ShowPriorityClasses
  BY <1>1, <1>5, InvUser, InvCluster DEF Environment, Users, Kubernetes
<1>6. CASE UNCHANGED vars
  BY <1>1, <1>6, Frame DEF vars, objects, FinalizerInv, UidsOrdered
<1>7. QED
  BY <1>2, <1>3, <1>4, <1>5, <1>6 DEF Next, Informer

\* The finalizer discipline of Reconcile is an inductive invariant: whatever
\* the worker holds is of the resource that exists, or harmless.
THEOREM FinalizerDiscipline == Spec => []FinalizerInv
  BY InvInit, InvNext, PTL DEF Spec

\* ReconcileAstarteResources creates and adopts only for the resource that
\* exists, and only after addFinalizer.
THEOREM DeploysUnderFinalizer == Spec => DeploysOnlyUnderFinalizer
<1> DEFINE Adopts == \A c \in Components :
                        owner'[c] \notin {owner[c], 0} => cr.fin /\ owner'[c] = cr.uid
<1>1. ASSUME FinalizerInv, Next PROVE Adopts
  <2>1. ASSUME NEW c \in {"cfssl", "microservices", "vernemq"},
               NEW next, Deploy(c, next)
        PROVE  Adopts
    <3>0. pc \in Deploying
      BY <2>1 DEF Deploy, Deploying
    <3>1. inst.uid = cr.uid /\ cr.fin
      BY <1>1, <3>0 DEF FinalizerInv, SnapshotIsLive
    <3>2. \A d \in Components : owner'[d] \in {owner[d], inst.uid}
      BY <2>1 DEF Deploy, Components, FinalizerInv, TypeOK
    <3>3. QED
      BY <3>1, <3>2
  <2>2. ASSUME NEW c \in Components, CollectGarbage(c) PROVE Adopts
    <3>1. \A d \in Components : owner'[d] \in {owner[d], 0}
      BY <2>2 DEF CollectGarbage, FinalizerInv, TypeOK
    <3>2. QED
      BY <3>1
  <2>3. CASE UNCHANGED owner
    BY <2>3
  <2>4. \/ UNCHANGED owner
        \/ EnsureCFSSL \/ EnsureAstarteMicroservices \/ EnsureVerneMQ
        \/ \E c \in Components : CollectGarbage(c)
    <3>1. Worker => UNCHANGED owner \/ EnsureCFSSL \/ EnsureAstarteMicroservices
                      \/ EnsureVerneMQ
      BY DEF Worker, Start, Coherency, CoherencyRead, CoherencyWrite, CoherencyReread,
         AddFinalizer, Gate, EnsurePriorityClasses, StatusRead, StatusWrite,
         FinalizeVolumes, FinalizePriorityClasses, RemoveFinalizer, objects
    <3>2. CallFails \/ Restart \/ Informer => UNCHANGED owner
      BY DEF CallFails, Restart, Informer, Deliver, ShowPriorityClasses, objects
    <3>3. Environment => UNCHANGED owner \/ \E c \in Components : CollectGarbage(c)
      BY DEF Environment, Users, Kubernetes, CreateAstarte, EditAstarte, DeleteAstarte, User, objects,
         RelatedChange, ProvisionVolumes, BecomeReady, BecomeUnready
    <3>4. QED
      BY <1>1, <3>1, <3>2, <3>3 DEF Next
  <2>5. QED
    BY <2>1, <2>2, <2>3, <2>4
    DEF EnsureCFSSL, EnsureAstarteMicroservices, EnsureVerneMQ
<1>2. FinalizerInv /\ [Next]_vars => [Adopts]_vars
  BY <1>1
<1>3. QED
  BY <1>2, FinalizerDiscipline, PTL DEF Spec, DeploysOnlyUnderFinalizer

\* However far its snapshot lags, FinalizeAstarte takes nothing from a live
\* Astarte that has its finalizer.
THEOREM FinalizesDeleted == Spec => FinalizesOnlyDeleted
<1> DEFINE Keeps == Exists(cr) /\ cr.fin /\ ~cr.del =>
                       /\ priorities => priorities'
                       /\ volumes => volumes'
<1>1. ASSUME FinalizerInv, Next PROVE Keeps
  <2>1. CASE FinalizeVolumes \/ FinalizePriorityClasses
    <3>1. pc \in Finalizing
      BY <2>1 DEF FinalizeVolumes, FinalizePriorityClasses, Finalizing
    <3>2. Exists(cr) /\ cr.fin => cr.del
      BY <1>1, <3>1 DEF FinalizerInv, SnapshotIsDeleted
    <3>3. QED
      BY <3>2
  <2>2. CASE UNCHANGED <<priorities, volumes>>
    BY <2>2
  <2>3. CASE EnsurePriorityClasses \/ ProvisionVolumes
    <3>1. priorities' = TRUE \/ UNCHANGED priorities
      BY <2>3 DEF EnsurePriorityClasses, ProvisionVolumes, classes
    <3>2. volumes' = TRUE \/ UNCHANGED volumes
      BY <2>3 DEF EnsurePriorityClasses, ProvisionVolumes
    <3>3. QED
      BY <3>1, <3>2
  <2>4. \/ FinalizeVolumes \/ FinalizePriorityClasses
        \/ UNCHANGED <<priorities, volumes>>
        \/ EnsurePriorityClasses \/ ProvisionVolumes
    <3>1. Worker => \/ FinalizeVolumes \/ FinalizePriorityClasses
                    \/ UNCHANGED <<priorities, volumes>>
                    \/ EnsurePriorityClasses
      BY DEF Worker, Start, Coherency, CoherencyRead, CoherencyWrite, CoherencyReread,
         AddFinalizer, Gate, EnsureCFSSL, EnsureAstarteMicroservices, EnsureVerneMQ,
         Deploy, StatusRead, StatusWrite, RemoveFinalizer, classes, objects
    <3>2. CallFails \/ Restart \/ Informer => UNCHANGED <<priorities, volumes>>
      BY DEF CallFails, Restart, Informer, Deliver, ShowPriorityClasses, classes, objects
    <3>3. Environment => UNCHANGED <<priorities, volumes>> \/ ProvisionVolumes
      BY DEF Environment, Users, Kubernetes, CreateAstarte, EditAstarte, DeleteAstarte, User, objects,
         RelatedChange, BecomeReady, BecomeUnready, CollectGarbage, classes
    <3>4. QED
      BY <1>1, <3>1, <3>2, <3>3 DEF Next
  <2>5. QED
    BY <2>1, <2>2, <2>3, <2>4
<1>2. FinalizerInv /\ [Next]_vars => [Keeps]_vars
  BY <1>1
<1>3. QED
  BY <1>2, FinalizerDiscipline, PTL DEF Spec, FinalizesOnlyDeleted

-------------------------------------------------------------------------------
(* With users who wait, no upgrade gets past the gate.                     *)

Alive(r) == Exists(r) /\ ~r.del

\* The status tells another version than the one asked for.
Told(r) == r.status.version \notin {NoVersion, r.version}

\* What is running is what r asks for, or something that its status tells, or
\* the remains of a predecessor, before r is told anything.
Sound(r, running) ==
    \/ running \in {NoVersion, r.version}
    \/ Told(r)
    \/ r.status.version = NoVersion /\ ~r.fin

\* r was read when the resource was c, or before, or is of another resource.
PastOf(r, c) ==
    Exists(c) /\ r.uid = c.uid =>
       /\ r.rv <= c.rv /\ r.gen <= c.gen
       /\ r.rv = c.rv => r.gen = c.gen
       /\ r.gen = c.gen => /\ r.version = c.version /\ r.del = c.del
                           /\ r.maint = c.maint

CopiesOK ==
    /\ PastOf(cached, cr) /\ PastOf(inst, cr) /\ PastOf(fresh, cr)
    /\ pc = "idle" => inst = Absent /\ fresh = Absent
    /\ IF Exists(cr) THEN cr.gen # 0 /\ cr.version # NoVersion ELSE cr = Absent
    /\ IF Exists(cached) THEN cached.gen # 0 ELSE cached = Absent
    /\ Exists(cr) /\ Exists(cached) => cached.uid = cr.uid
    /\ Exists(cr) /\ cached.status.version # NoVersion => cr.status.version # NoVersion

\* Nobody edits what is being reconciled.
SameGeneration ==
    Alive(cr) /\ pc # "idle" =>
       inst.uid = cr.uid /\ inst.gen = cr.gen /\ cached.gen = cr.gen

SoundCopies ==
    Alive(cr) => /\ ~cr.maint /\ Sound(cr, hkVersion)
                 /\ cached.gen = cr.gen => Sound(cached, hkVersion)

\* Users see a report of the version that they asked for before they ask for
\* another.
Reported ==
    Alive(cr) /\ pc = "idle" /\ ~queued /\ cached.gen = cr.gen =>
       cr.status.version = cr.version

\* What Reconcile holds on its way to the gate, behind it and on the way back.
OnTheWay ==
    /\ pc \in Preparing => Sound(inst, hkVersion) /\ ~inst.del
    /\ pc \in {"coherency", "coherencyRead", "coherencyWrite", "coherencyReread"} =>
          inst.status.version = NoVersion
    /\ pc \in {"coherencyRead", "coherencyWrite"} =>
          /\ fresh.status.version # NoVersion
          /\ hkVersion \in {NoVersion, fresh.status.version}
    /\ pc \in {"coherencyReread", "finalizer"} /\ Alive(cr) =>
          hkVersion \in {NoVersion, cr.version} \/ cr.status.version # NoVersion
    /\ pc = "gate" => hkVersion \in {NoVersion, inst.version} \/ Told(inst)
    /\ pc \in {"priorities", "cfssl", "microservices"} =>
          \/ hkVersion \in {NoVersion, inst.version}
          \/ green \/ inst.status.version = Snapshot
    /\ pc \in {"vernemq", "statusRead", "statusWrite"} /\ Alive(cr) =>
          hkVersion \in {NoVersion, cr.version}
    /\ pc = "statusWrite" => fresh.status.version = fresh.version
    /\ pc \in Finalizing => inst.del

UpgradeInv ==
    TypeOK /\ CopiesOK /\ SameGeneration /\ SoundCopies /\ Reported /\ OnTheWay

\* The copies are resources.
LEMMA CopiesAre ==
  ASSUME TypeOK
  PROVE  /\ cr \in Resources /\ cached \in Resources /\ inst \in Resources
         /\ fresh \in Resources
         /\ \A r \in Resources : /\ r.uid \in Nat /\ r.rv \in Nat /\ r.gen \in Nat
                                 /\ r.del \in BOOLEAN /\ r.fin \in BOOLEAN
                                 /\ r.maint \in BOOLEAN /\ r.status \in Status
  BY ControllerAssumption DEF TypeOK, Resources

\* What is read of a resource that is not written to, or whose status or
\* finalizer are, stays its past.
LEMMA PastStays ==
  ASSUME NEW r \in Resources, NEW c \in Resources, NEW d \in Resources, PastOf(r, c),
         d.uid = c.uid, d.rv \in {c.rv, c.rv + 1}, d.gen = c.gen,
         d.version = c.version, d.del = c.del, d.maint = c.maint
  PROVE  PastOf(r, d)
<1>1. r.rv \in Nat /\ c.rv \in Nat /\ r.gen \in Nat /\ c.gen \in Nat
  BY DEF Resources
<1> QED
  BY <1>1 DEF PastOf, Exists

LEMMA AbsentIs ==
  /\ ~Exists(Absent) /\ Absent.gen = 0 /\ Absent.status.version = NoVersion
  /\ \A r : PastOf(r, Absent) /\ PastOf(Absent, r)
<1>1. Absent.uid = 0 /\ Absent.gen = 0 /\ Absent.status.version = NoVersion
  BY DEF Absent, NoStatus
<1> QED
  BY <1>1 DEF PastOf, Exists

\* A Reconcile that is over.
LEMMA Returned ==
  ASSUME UpgradeInv, TypeOK', Return, UNCHANGED <<cr, cached, hkVersion>>,
         queued' = TRUE \/ ~Alive(cr)
  PROVE  UpgradeInv'
<1>1. pc' = "idle" /\ inst' = Absent /\ fresh' = Absent
  BY DEF Return
<1>2. CopiesOK'
  <2>1. PastOf(Absent, cr)
    BY AbsentIs DEF UpgradeInv, CopiesOK
  <2> QED
    BY <1>1, <2>1 DEF UpgradeInv, CopiesOK
<1>3. SameGeneration' /\ SoundCopies'
  BY <1>1 DEF UpgradeInv, SameGeneration, SoundCopies
<1>4. Reported' /\ OnTheWay'
  BY <1>1 DEF Reported, OnTheWay, Preparing, Finalizing, Alive
<1> QED
  BY <1>2, <1>3, <1>4 DEF UpgradeInv

\* Steps that touch neither the resource nor its copies, nor put another
\* version in place, and the part of the invariant that they leave.
LEMMA Apart ==
  ASSUME UpgradeInv, TypeOK', UNCHANGED <<cr, cached, inst>>,
         hkVersion' \in {hkVersion, NoVersion},
         PastOf(fresh', cr), pc # "idle", pc' # "idle", OnTheWay'
  PROVE  UpgradeInv'
<1>1. CopiesOK' /\ SameGeneration' /\ Reported'
  BY DEF UpgradeInv, CopiesOK, SameGeneration, Reported
<1>2. SoundCopies'
  BY DEF UpgradeInv, SoundCopies, Sound
<1> QED
  BY <1>1, <1>2 DEF UpgradeInv

\* Once its cache shows the last edit, the operator starts from a resource that
\* is past the gate already, or that the gate will look at.
LEMMA UpgradeStart ==
  ASSUME UpgradeInv, TypeOK', Start, Prompt
  PROVE  UpgradeInv'
<1>1. /\ UNCHANGED <<cr, cached, hkVersion>> /\ pc = "idle" /\ cached.gen = cr.gen
      /\ inst = Absent /\ fresh = Absent
  BY DEF Start, Prompt, objects, UpgradeInv, CopiesOK
<1>2. CASE Return /\ (queued' = TRUE \/ ~Alive(cr))
  BY <1>1, <1>2, Returned
<1>3. Exists(cached) => Exists(cr)
  BY <1>1, AbsentIs DEF UpgradeInv, CopiesOK
<1>4. Exists(cached) => /\ cached.uid = cr.uid /\ cached.version = cr.version
                        /\ cached.del = cr.del /\ cached.maint = cr.maint
  BY <1>1, <1>3 DEF UpgradeInv, CopiesOK, PastOf
<1>5. Exists(cr) => Exists(cached)
  BY <1>1, AbsentIs DEF UpgradeInv, CopiesOK
<1>6. ASSUME Exists(cached), inst' = cached, fresh' = fresh,
             \/ pc' = "statusRead" /\ cached.maint
             \/ pc' = FirstStep(cached)
      PROVE  UpgradeInv'
  <2>1. Alive(cr) => ~cached.del /\ ~cached.maint /\ Sound(cached, hkVersion)
    BY <1>1, <1>4, <1>6 DEF UpgradeInv, SoundCopies, Alive
  <2>2. CopiesOK'
    <3>1. pc' # "idle"
      BY <1>6 DEF FirstStep
    <3> QED
      BY <1>1, <1>6, <3>1 DEF UpgradeInv, CopiesOK
  <2>3. SameGeneration' /\ SoundCopies'
    BY <1>1, <1>4, <1>6 DEF UpgradeInv, SameGeneration, SoundCopies
  <2>4. Reported'
    BY <1>6 DEF FirstStep, Reported
  <2>5. OnTheWay'
    <3>1. CASE pc' = "statusRead" /\ cached.maint
      <4>1. ~Alive(cr)
        BY <2>1, <3>1
      <4> QED
        BY <1>1, <3>1, <4>1 DEF OnTheWay, Preparing, Finalizing
    <3>2. CASE pc' = FirstStep(cached) /\ cached.del
      BY <1>6, <3>2 DEF FirstStep, OnTheWay, Preparing, Finalizing
    <3>3. CASE pc' = FirstStep(cached) /\ ~cached.del
      <4>1. Alive(cr)
        BY <1>3, <1>4, <1>6, <3>3 DEF Alive
      <4>2. pc' = IF cached.status.version = NoVersion THEN "coherency" ELSE "finalizer"
        BY <3>3 DEF FirstStep
      <4>3. cached.status.version # NoVersion => cr.status.version # NoVersion
        BY <1>3, <1>6 DEF UpgradeInv, CopiesOK
      <4> QED
        BY <1>1, <1>6, <2>1, <3>3, <4>1, <4>2, <4>3 DEF OnTheWay, Preparing, Finalizing
    <3> QED
      BY <1>6, <3>1, <3>2, <3>3
  <2> QED
    BY <2>2, <2>3, <2>4, <2>5 DEF UpgradeInv
<1>7. \/ Return /\ queued' = FALSE /\ (~Exists(cached) \/ cached.del)
      \/ Return /\ queued' = TRUE
      \/ /\ Exists(cached) /\ inst' = cached /\ fresh' = fresh
         /\ (pc' = "statusRead" /\ cached.maint) \/ pc' = FirstStep(cached)
  BY DEF Start, Fail
<1> QED
  BY <1>2, <1>4, <1>5, <1>6, <1>7 DEF Alive

\* EnsureStatusCoherency up to its write.
LEMMA UpgradeCoherency ==
  ASSUME UpgradeInv, TypeOK', Coherency \/ CoherencyRead \/ CoherencyReread
  PROVE  UpgradeInv'
<1> USE DEF Preparing, Finalizing
<1>1. TypeOK /\ UNCHANGED <<cr, cached, hkVersion>>
  BY DEF UpgradeInv, Coherency, CoherencyRead, CoherencyReread, objects
<1>2. CASE Coherency /\ hkVersion = NoVersion
  <2>1. pc = "coherency" /\ pc' = "finalizer" /\ UNCHANGED <<inst, fresh>>
    BY <1>2 DEF Coherency, Goto
  <2>2. OnTheWay'
    BY <1>1, <1>2, <2>1 DEF UpgradeInv, OnTheWay
  <2> QED
    BY <1>1, <2>1, <2>2, Apart DEF UpgradeInv, CopiesOK
<1>3. CASE Coherency /\ hkVersion # NoVersion
  <2> DEFINE red == [version |-> NoVersion, health |-> "red", phase |-> "Reconciling"]
             tagged == [inst.status EXCEPT !.version = hkVersion]
  <2>1. /\ pc = "coherency" /\ pc' = "coherencyRead"
        /\ inst' = SetStatus(inst, red) /\ fresh' = SetStatus(inst, tagged)
    BY <1>3 DEF Coherency, Goto
  <2>2. red \in Status /\ red.version = NoVersion
    BY DEF Status
  <2>3. tagged \in Status /\ tagged.version = hkVersion
    BY <1>1, CopiesAre DEF Status, TypeOK
  <2> HIDE DEF red, tagged
  <2>4. /\ inst' \in Resources /\ fresh' \in Resources
        /\ inst'.uid = inst.uid /\ inst'.rv = inst.rv /\ inst'.gen = inst.gen
        /\ inst'.version = inst.version /\ inst'.del = inst.del
        /\ inst'.maint = inst.maint /\ inst'.fin = inst.fin
        /\ inst'.status.version = NoVersion
    BY <1>1, <2>1, <2>2, <2>3, CopiesAre, SetStatusFields
  <2>5. /\ fresh'.uid = inst.uid /\ fresh'.rv = inst.rv /\ fresh'.gen = inst.gen
        /\ fresh'.version = inst.version /\ fresh'.del = inst.del
        /\ fresh'.maint = inst.maint /\ fresh'.status.version = hkVersion
    BY <1>1, <2>1, <2>3, CopiesAre, SetStatusFields
  <2>6. PastOf(inst', cr) /\ PastOf(fresh', cr)
    BY <2>4, <2>5 DEF UpgradeInv, CopiesOK, PastOf
  <2>7. inst.status.version = NoVersion /\ Sound(inst, hkVersion) /\ ~inst.del
    BY <2>1 DEF UpgradeInv, OnTheWay
  <2>8. Sound(inst', hkVersion)
    BY <2>4, <2>7 DEF Sound, Told
  <2>9. OnTheWay'
    BY <1>1, <1>3, <2>1, <2>4, <2>5, <2>7, <2>8 DEF OnTheWay
  <2>10. CopiesOK' /\ SameGeneration' /\ SoundCopies' /\ Reported'
    BY <1>1, <2>1, <2>4, <2>6
    DEF UpgradeInv, CopiesOK, SameGeneration, SoundCopies, Reported
  <2> QED
    BY <2>9, <2>10 DEF UpgradeInv
<1>4. CASE CoherencyRead
  <2>1. CASE Fail
    BY <1>1, <2>1, Returned DEF Fail
  <2>2. CASE Exists(cached)
    <3> DEFINE tagged == [cached.status EXCEPT !.version = fresh.status.version]
    <3>1. /\ pc = "coherencyRead" /\ pc' = "coherencyWrite" /\ inst' = inst
          /\ fresh' = SetStatus(cached, tagged)
      BY <1>4, <2>2 DEF CoherencyRead, Goto
    <3>2. tagged \in Status /\ tagged.version = fresh.status.version
      BY <1>1, CopiesAre DEF Status, TypeOK
    <3> HIDE DEF tagged
    <3>3. /\ fresh'.uid = cached.uid /\ fresh'.rv = cached.rv /\ fresh'.gen = cached.gen
          /\ fresh'.version = cached.version /\ fresh'.del = cached.del
          /\ fresh'.maint = cached.maint
          /\ fresh'.status.version = fresh.status.version
      BY <1>1, <3>1, <3>2, CopiesAre, SetStatusFields
    <3>4. PastOf(fresh', cr)
      BY <3>3 DEF UpgradeInv, CopiesOK, PastOf
    <3>5. OnTheWay'
      BY <1>1, <3>1, <3>3 DEF UpgradeInv, OnTheWay
    <3> QED
      BY <1>1, <3>1, <3>4, <3>5, Apart
  <2> QED
    BY <1>4, <2>1, <2>2 DEF CoherencyRead
<1>5. CASE CoherencyReread
  <2>1. CASE Fail
    BY <1>1, <2>1, Returned DEF Fail
  <2>2. CASE Exists(cached)
    <3>1. pc = "coherencyReread" /\ pc' = "finalizer" /\ UNCHANGED <<inst, fresh>>
      BY <1>5, <2>2 DEF CoherencyReread, Goto, locals
    <3>2. OnTheWay'
      BY <1>1, <3>1 DEF UpgradeInv, OnTheWay
    <3> QED
      BY <1>1, <3>1, <3>2, Apart DEF UpgradeInv, CopiesOK
  <2> QED
    BY <1>5, <2>1, <2>2 DEF CoherencyReread
<1> QED
  BY <1>2, <1>3, <1>4, <1>5

\* What a write under the optimistic lock is made of is what was read.
LEMMA LockedIs ==
  ASSUME NEW r \in Resources, NEW c \in Resources, PastOf(r, c),
         Exists(c), r.uid = c.uid, r.rv = c.rv
  PROVE  r.gen = c.gen /\ r.version = c.version /\ r.del = c.del
  BY DEF PastOf

\* The last write of a status leaves the rest of the resource, and of what was
\* read of it.
LEMMA StatusWritten ==
  ASSUME UpgradeInv, StatusUpdate
  PROVE  /\ Exists(cr) /\ Exists(cr') /\ cr'.gen = cr.gen /\ cr'.uid = cr.uid
         /\ cr'.version = cr.version /\ cr'.del = cr.del /\ cr'.maint = cr.maint
         /\ cr'.fin = cr.fin /\ cr'.status.version = fresh.status.version
         /\ fresh.version = cr.version
         /\ PastOf(cached, cr') /\ PastOf(inst, cr')
         /\ cr.gen # 0 /\ cr.version # NoVersion
<1>1. /\ cr \in Resources /\ cached \in Resources /\ inst \in Resources
      /\ fresh \in Resources /\ fresh.status \in Status
  BY CopiesAre DEF UpgradeInv
<1>2. fresh.uid = cr.uid /\ fresh.rv = cr.rv /\ Exists(cr)
  BY DEF StatusUpdate, Current, Exists
<1>3. fresh.version = cr.version
  BY <1>1, <1>2, LockedIs DEF UpgradeInv, CopiesOK
<1> DEFINE w == SetStatus(cr, fresh.status)
<1>4. /\ w \in Resources /\ w.uid = cr.uid /\ w.rv = cr.rv /\ w.gen = cr.gen
      /\ w.version = cr.version /\ w.del = cr.del /\ w.maint = cr.maint
      /\ w.fin = cr.fin /\ w.status = fresh.status
  BY <1>1, SetStatusFields
<1>5. (cr' = cr /\ fresh.status = cr.status) \/ cr' = Revised(w)
  BY DEF StatusUpdate
<1> HIDE DEF w
<1>6. /\ cr' \in Resources /\ cr'.uid = cr.uid /\ cr'.rv \in {cr.rv, cr.rv + 1}
      /\ cr'.gen = cr.gen /\ cr'.version = cr.version /\ cr'.del = cr.del
      /\ cr'.maint = cr.maint /\ cr'.fin = cr.fin /\ cr'.status = fresh.status
  BY <1>1, <1>4, <1>5, RevisedFields
<1>7. PastOf(cached, cr') /\ PastOf(inst, cr')
  <2>1. PastOf(cached, cr) /\ PastOf(inst, cr)
    BY DEF UpgradeInv, CopiesOK
  <2> QED
    BY <1>1, <1>6, <2>1, PastStays
<1> QED
  BY <1>2, <1>3, <1>6, <1>7 DEF Exists, UpgradeInv, CopiesOK

\* A conflict: another try, or a Reconcile that is over.
LEMMA UpgradeConflict ==
  ASSUME UpgradeInv, TypeOK', UNCHANGED <<cached, hkVersion>>,
         \/ pc = "coherencyWrite" /\ Conflict("coherencyRead")
         \/ pc = "statusWrite" /\ Conflict("statusRead")
  PROVE  UpgradeInv'
<1>1. cr' = cr
  BY DEF Conflict
<1>2. CASE Fail
  BY <1>1, <1>2, Returned DEF Fail
<1>3. CASE ~Fail
  <2>1. /\ UNCHANGED <<inst, fresh>>
        /\ \/ pc = "coherencyWrite" /\ pc' = "coherencyRead"
           \/ pc = "statusWrite" /\ pc' = "statusRead"
    BY <1>3 DEF Conflict, Goto, locals
  <2>2. OnTheWay'
    BY <1>1, <2>1 DEF UpgradeInv, OnTheWay, Preparing, Finalizing
  <2> QED
    BY <1>1, <2>1, <2>2, Apart DEF UpgradeInv, CopiesOK
<1> QED
  BY <1>2, <1>3

\* The two writes of a status.
LEMMA UpgradeStatus ==
  ASSUME UpgradeInv, TypeOK', CoherencyWrite \/ StatusWrite
  PROVE  UpgradeInv'
<1> USE DEF Preparing, Finalizing
<1>1. UNCHANGED <<cached, hkVersion>>
  BY DEF CoherencyWrite, StatusWrite, objects
<1>2. CASE \/ pc = "coherencyWrite" /\ Conflict("coherencyRead")
           \/ pc = "statusWrite" /\ Conflict("statusRead")
  BY <1>1, <1>2, UpgradeConflict
<1>3. CASE pc = "coherencyWrite" /\ StatusUpdate /\ CoherencyWrite
  <2>1. pc' = "coherencyReread" /\ inst' = inst /\ fresh' = Absent
    <3>1. ~Conflict("coherencyRead")
      BY <1>3 DEF StatusUpdate, Conflict
    <3> QED
      BY <1>3, <3>1 DEF CoherencyWrite, Goto
  <2>2. /\ fresh.status.version # NoVersion
        /\ hkVersion \in {NoVersion, fresh.status.version}
        /\ Sound(inst, hkVersion) /\ ~inst.del /\ inst.status.version = NoVersion
    BY <1>3 DEF UpgradeInv, OnTheWay
  <2>3. CopiesOK'
    BY <1>1, <1>3, <2>1, <2>2, StatusWritten, AbsentIs DEF UpgradeInv, CopiesOK
  <2>4. SameGeneration' /\ Reported'
    BY <1>1, <1>3, <2>1, StatusWritten
    DEF UpgradeInv, SameGeneration, Reported, Alive, Exists
  <2>5. SoundCopies'
    <3>1. Sound(cr', hkVersion)
      BY <1>3, <2>2, StatusWritten DEF Sound, Told
    <3> QED
      BY <1>1, <1>3, <3>1, StatusWritten DEF UpgradeInv, SoundCopies, Alive, Exists
  <2>6. OnTheWay'
    BY <1>1, <1>3, <2>1, <2>2, StatusWritten DEF OnTheWay
  <2> QED
    BY <2>3, <2>4, <2>5, <2>6 DEF UpgradeInv
<1>4. CASE pc = "statusWrite" /\ StatusUpdate /\ StatusWrite
  <2>1. pc' = "idle" /\ inst' = Absent /\ fresh' = Absent
    <3>1. ~Conflict("statusRead")
      BY <1>4 DEF StatusUpdate, Conflict
    <3> QED
      BY <1>4, <3>1 DEF StatusWrite, Done, Return
  <2>2. /\ fresh.status.version = fresh.version
        /\ Alive(cr) => hkVersion \in {NoVersion, cr.version}
    BY <1>4 DEF UpgradeInv, OnTheWay
  <2>3. cr'.status.version = cr'.version /\ cr'.version # NoVersion
    BY <1>4, <2>2, StatusWritten
  <2>4. CopiesOK'
    BY <1>1, <1>4, <2>1, <2>3, StatusWritten, AbsentIs DEF UpgradeInv, CopiesOK
  <2>5. SoundCopies'
    <3>1. Alive(cr) => Sound(cr', hkVersion)
      BY <1>4, <2>2, StatusWritten DEF Sound
    <3> QED
      BY <1>1, <1>4, <3>1, StatusWritten DEF UpgradeInv, SoundCopies, Alive, Exists
  <2>6. SameGeneration' /\ Reported' /\ OnTheWay'
    BY <2>1, <2>3 DEF SameGeneration, Reported, OnTheWay
  <2> QED
    BY <2>4, <2>5, <2>6 DEF UpgradeInv
<1> QED
  BY <1>2, <1>3, <1>4 DEF CoherencyWrite, StatusWrite

\* What gets the finalizer is what the server has, status and all.
LEMMA UpgradeAddFinalizer ==
  ASSUME UpgradeInv, TypeOK', AddFinalizer
  PROVE  UpgradeInv'
<1> USE DEF Preparing, Finalizing
<1>1. /\ UNCHANGED <<cached, hkVersion>> /\ pc = "finalizer"
      /\ cr \in Resources /\ cached \in Resources /\ inst \in Resources
      /\ inst.fin \in BOOLEAN /\ TypeOK
  BY CopiesAre DEF AddFinalizer, objects, UpgradeInv
<1>2. /\ Sound(inst, hkVersion) /\ ~inst.del
      /\ Alive(cr) => hkVersion \in {NoVersion, cr.version} \/ cr.status.version # NoVersion
  BY <1>1 DEF UpgradeInv, OnTheWay
<1>3. CASE inst.fin
  <2>1. pc' = "gate" /\ UNCHANGED <<cr, inst, fresh>>
    BY <1>3 DEF AddFinalizer, Goto, locals
  <2>2. OnTheWay'
    BY <1>1, <1>2, <1>3, <2>1 DEF OnTheWay, Sound
  <2> QED
    BY <1>1, <2>1, <2>2, Apart DEF UpgradeInv, CopiesOK
<1>4. CASE ~inst.fin /\ Current(inst)
  <2> DEFINE w == SetFinalizer(cr, TRUE)
  <2>1. /\ cr' = Revised(w) /\ inst' = cr' /\ pc' = "gate" /\ fresh' = fresh
        /\ Exists(cr) /\ inst.uid = cr.uid /\ inst.rv = cr.rv
    BY <1>4 DEF AddFinalizer, Goto, Current, Exists
  <2>2. /\ w \in Resources /\ w.uid = cr.uid /\ w.rv = cr.rv /\ w.gen = cr.gen
        /\ w.version = cr.version /\ w.del = cr.del /\ w.maint = cr.maint
        /\ w.status = cr.status
    BY <1>1, SetFinalizerFields
  <2> HIDE DEF w
  <2>3. /\ cr' \in Resources /\ cr'.uid = cr.uid /\ cr'.rv = cr.rv + 1
        /\ cr'.gen = cr.gen /\ cr'.version = cr.version /\ cr'.del = cr.del
        /\ cr'.maint = cr.maint /\ cr'.status = cr.status
    BY <2>1, <2>2, RevisedFields
  <2>4. inst.gen = cr.gen /\ ~cr.del
    BY <1>1, <1>2, <2>1, LockedIs DEF UpgradeInv, CopiesOK
  <2>5. Alive(cr) /\ Sound(cr, hkVersion) /\ ~cr.maint
    BY <2>1, <2>4 DEF Alive, UpgradeInv, SoundCopies
  <2>6. hkVersion \in {NoVersion, cr.version} \/ Told(cr)
    BY <1>2, <2>5 DEF Sound
  <2>7. PastOf(cached, cr') /\ PastOf(fresh, cr') /\ PastOf(cr', cr')
    <3>1. PastOf(cached, cr) /\ PastOf(fresh, cr) /\ fresh \in Resources
      BY <1>1, CopiesAre DEF UpgradeInv, CopiesOK
    <3>2. PastOf(cached, cr') /\ PastOf(fresh, cr')
      BY <1>1, <2>3, <3>1, PastStays
    <3>3. cr'.rv \in Nat /\ cr'.gen \in Nat
      BY <2>3 DEF Resources
    <3> QED
      BY <3>2, <3>3 DEF PastOf
  <2>8. Exists(cr') /\ Alive(cr')
    BY <2>3, <2>5 DEF Exists, Alive
  <2>9. CopiesOK'
    BY <1>1, <2>1, <2>3, <2>7, <2>8 DEF UpgradeInv, CopiesOK
  <2>10. SameGeneration' /\ Reported'
    BY <1>1, <2>1, <2>3, <2>5 DEF UpgradeInv, SameGeneration, Reported
  <2>11. SoundCopies'
    BY <1>1, <2>3, <2>5, <2>6 DEF UpgradeInv, SoundCopies, Sound, Told
  <2>12. OnTheWay'
    BY <1>1, <2>1, <2>3, <2>6 DEF OnTheWay, Told
  <2> QED
    BY <2>9, <2>10, <2>11, <2>12 DEF UpgradeInv
<1>5. CASE ~inst.fin /\ ~Current(inst)
  BY <1>1, <1>5, Returned DEF AddFinalizer, Fail
<1> QED
  BY <1>3, <1>4, <1>5

\* The gate and what it lets through.
LEMMA UpgradeDeploys ==
  ASSUME UpgradeInv, TypeOK',
         \/ Gate \/ EnsurePriorityClasses \/ EnsureCFSSL
         \/ EnsureAstarteMicroservices \/ EnsureVerneMQ \/ StatusRead
  PROVE  UpgradeInv'
<1> USE DEF Preparing, Finalizing
<1>1. UNCHANGED <<cr, cached>> /\ TypeOK
  BY DEF Gate, EnsurePriorityClasses, EnsureCFSSL, EnsureAstarteMicroservices,
         EnsureVerneMQ, Deploy, StatusRead, UpgradeInv
<1>2. PastOf(fresh, cr)
  BY DEF UpgradeInv, CopiesOK
<1>3. CASE Gate
  <2>1. CASE Fail
    BY <1>1, <1>3, <2>1, Returned DEF Gate, Fail, objects
  <2>2. CASE ~Fail
    <3>1. /\ pc = "gate" /\ pc' = "priorities" /\ UNCHANGED <<inst, fresh, hkVersion>>
          /\ inst.status.version \in {NoVersion, Snapshot, inst.version} \/ UpgradeAllowed
          /\ green' = UpgradeAllowed
      BY <1>3, <2>2 DEF Gate, Goto, objects
    <3>2. hkVersion \in {NoVersion, inst.version} \/ Told(inst)
      BY <3>1 DEF UpgradeInv, OnTheWay
    <3>3. \/ hkVersion \in {NoVersion, inst.version}
          \/ inst.status.version = Snapshot \/ green'
      BY <3>1, <3>2 DEF Told
    <3>4. OnTheWay'
      BY <3>1, <3>3 DEF OnTheWay
    <3> QED
      BY <1>1, <1>2, <3>1, <3>4, Apart
  <2> QED
    BY <2>1, <2>2
<1>4. CASE EnsurePriorityClasses
  <2>1. CASE Fail
    BY <1>1, <1>4, <2>1, Returned DEF EnsurePriorityClasses, Fail
  <2>2. CASE ~Fail
    <3>1. /\ pc = "priorities" /\ pc' = "cfssl"
          /\ UNCHANGED <<inst, fresh, green, hkVersion>>
      BY <1>4, <2>2 DEF EnsurePriorityClasses, Goto, locals
    <3>2. OnTheWay'
      BY <1>1, <3>1 DEF UpgradeInv, OnTheWay
    <3> QED
      BY <1>1, <1>2, <3>1, <3>2, Apart
  <2> QED
    BY <2>1, <2>2
<1>5. CASE EnsureCFSSL
  <2>1. /\ pc = "cfssl" /\ pc' = "microservices"
        /\ UNCHANGED <<inst, fresh, green, hkVersion>>
    BY <1>5 DEF EnsureCFSSL, Deploy, locals
  <2>2. OnTheWay'
    BY <1>1, <2>1 DEF UpgradeInv, OnTheWay
  <2> QED
    BY <1>1, <1>2, <2>1, <2>2, Apart
<1>6. CASE EnsureAstarteMicroservices
  <2>1. /\ pc = "microservices" /\ pc' = "vernemq" /\ hkVersion' = inst.version
        /\ UNCHANGED <<inst, fresh, green>>
    BY <1>6 DEF EnsureAstarteMicroservices, Deploy, locals
  <2>2. Alive(cr) => inst.version = cr.version
    BY <2>1 DEF UpgradeInv, SameGeneration, CopiesOK, PastOf, Alive
  <2>3. CopiesOK' /\ SameGeneration' /\ Reported'
    BY <1>1, <2>1 DEF UpgradeInv, CopiesOK, SameGeneration, Reported
  <2>4. SoundCopies'
    <3>1. ASSUME Alive(cr), cached.gen = cr.gen
          PROVE  cached.version = cr.version
      <4>1. Exists(cr) /\ cr.gen # 0
        BY <3>1 DEF Alive, UpgradeInv, CopiesOK
      <4>2. Exists(cached)
        BY <3>1, <4>1, AbsentIs DEF UpgradeInv, CopiesOK
      <4> QED
        BY <3>1, <4>1, <4>2 DEF UpgradeInv, CopiesOK, PastOf
    <3> QED
      BY <1>1, <2>1, <2>2, <3>1 DEF UpgradeInv, SoundCopies, Sound
  <2>5. OnTheWay'
    BY <1>1, <2>1, <2>2 DEF OnTheWay
  <2> QED
    BY <2>3, <2>4, <2>5 DEF UpgradeInv
<1>7. CASE EnsureVerneMQ
  <2>1. /\ pc = "vernemq" /\ pc' = "statusRead"
        /\ UNCHANGED <<inst, fresh, green, hkVersion>>
    BY <1>7 DEF EnsureVerneMQ, Deploy, locals
  <2>2. OnTheWay'
    BY <1>1, <2>1 DEF UpgradeInv, OnTheWay
  <2> QED
    BY <1>1, <1>2, <2>1, <2>2, Apart
<1>8. CASE StatusRead
  <2>1. CASE Fail
    BY <1>1, <1>8, <2>1, Returned DEF StatusRead, Fail, objects
  <2>2. CASE Exists(cached)
    <3> DEFINE report == ComputeAstarteStatusResource(cached)
    <3>1. /\ pc = "statusRead" /\ pc' = "statusWrite" /\ UNCHANGED <<inst, hkVersion>>
          /\ fresh' = SetStatus(cached, report)
      BY <1>8, <2>2 DEF StatusRead, Goto, objects
    <3>2. report \in Status /\ report.version = cached.version
      BY <1>1, CopiesAre, StatusTypes DEF ComputeAstarteStatusResource
    <3> HIDE DEF report
    <3>3. /\ fresh'.uid = cached.uid /\ fresh'.rv = cached.rv /\ fresh'.gen = cached.gen
          /\ fresh'.version = cached.version /\ fresh'.del = cached.del
          /\ fresh'.maint = cached.maint /\ fresh'.status.version = fresh'.version
      BY <1>1, <3>1, <3>2, CopiesAre, SetStatusFields
    <3>4. PastOf(fresh', cr)
      BY <3>3 DEF UpgradeInv, CopiesOK, PastOf
    <3>5. OnTheWay'
      BY <1>1, <3>1, <3>3 DEF UpgradeInv, OnTheWay
    <3> QED
      BY <1>1, <3>1, <3>4, <3>5, Apart
  <2> QED
    BY <1>8, <2>1, <2>2 DEF StatusRead
<1> QED
  BY <1>3, <1>4, <1>5, <1>6, <1>7, <1>8

\* Only what is deleted is finalized.
LEMMA UpgradeFinalizes ==
  ASSUME UpgradeInv, TypeOK',
         FinalizeVolumes \/ FinalizePriorityClasses \/ RemoveFinalizer
  PROVE  UpgradeInv'
<1>1. UNCHANGED <<cached, hkVersion>> /\ pc \in Finalizing /\ inst.del
  BY DEF FinalizeVolumes, FinalizePriorityClasses, RemoveFinalizer, objects,
         Finalizing, UpgradeInv, OnTheWay
<1>2. CASE FinalizeVolumes \/ FinalizePriorityClasses
  <2>1. CASE Fail
    BY <1>1, <1>2, <2>1, Returned DEF FinalizeVolumes, FinalizePriorityClasses, Fail
  <2>2. CASE ~Fail
    <3>1. /\ UNCHANGED <<cr, inst, fresh>>
          /\ pc' \in {"finalizePriorities", "removeFinalizer"}
      BY <1>2, <2>2 DEF FinalizeVolumes, FinalizePriorityClasses, Goto, locals
    <3>2. OnTheWay'
      BY <1>1, <3>1 DEF OnTheWay, Preparing
    <3> QED
      BY <1>1, <3>1, <3>2, Apart DEF UpgradeInv, CopiesOK, Finalizing
  <2> QED
    BY <2>1, <2>2
<1>3. CASE RemoveFinalizer /\ ~Current(inst)
  BY <1>1, <1>3, Returned DEF RemoveFinalizer, Fail
<1>4. CASE RemoveFinalizer /\ Current(inst)
  <2>1. cr.del
    <3>1. /\ inst.uid = cr.uid /\ inst.rv = cr.rv /\ Exists(cr)
          /\ inst \in Resources /\ cr \in Resources
      BY <1>4, CopiesAre DEF Current, Exists, UpgradeInv
    <3> QED
      BY <1>1, <3>1, LockedIs DEF UpgradeInv, CopiesOK
  <2>2. cr' = Absent /\ pc' = "idle" /\ inst' = Absent /\ fresh' = Absent
    BY <1>4, <2>1 DEF RemoveFinalizer, Done, Return
  <2>3. CopiesOK'
    BY <1>1, <2>2, AbsentIs DEF UpgradeInv, CopiesOK
  <2>4. SameGeneration' /\ SoundCopies' /\ Reported' /\ OnTheWay'
    BY <2>2, AbsentIs DEF SameGeneration, SoundCopies, Reported, OnTheWay, Alive,
                          Preparing, Finalizing
  <2> QED
    BY <2>3, <2>4 DEF UpgradeInv
<1> QED
  BY <1>2, <1>3, <1>4

LEMMA UpgradeWorker ==
  ASSUME UpgradeInv, TypeOK', Worker, Prompt
  PROVE  UpgradeInv'
  BY UpgradeStart, UpgradeCoherency, UpgradeStatus, UpgradeAddFinalizer,
     UpgradeDeploys, UpgradeFinalizes DEF Worker

\* What the informer shows is what there is.
LEMMA UpgradeShown ==
  ASSUME UpgradeInv, TypeOK', CallFails \/ Restart \/ Informer
  PROVE  UpgradeInv'
<1>1. UNCHANGED <<cr, hkVersion>>
  BY DEF CallFails, Restart, Informer, Deliver, ShowPriorityClasses, objects
<1>2. CASE CallFails
  BY <1>1, <1>2, Returned DEF CallFails, Fail
<1>3. PastOf(cr, cr)
  <2>1. cr.rv \in Nat /\ cr.gen \in Nat
    BY CopiesAre DEF UpgradeInv
  <2> QED
    BY <2>1 DEF PastOf
<1>4. Alive(cr) => Exists(cr)
  BY DEF Alive
<1>5. CASE Restart
  <2>1. /\ cached' = cr /\ pc' = "idle" /\ inst' = Absent /\ fresh' = Absent
        /\ queued' = Exists(cr)
    BY <1>5 DEF Restart, Return
  <2>2. PastOf(Absent, cr)
    BY AbsentIs DEF UpgradeInv, CopiesOK
  <2>3. CopiesOK'
    BY <1>1, <1>3, <2>1, <2>2 DEF UpgradeInv, CopiesOK
  <2>4. SoundCopies'
    BY <1>1, <2>1 DEF UpgradeInv, SoundCopies
  <2>5. SameGeneration' /\ Reported' /\ OnTheWay'
    BY <1>1, <1>4, <2>1 DEF SameGeneration, Reported, OnTheWay, Preparing, Finalizing
  <2> QED
    BY <2>3, <2>4, <2>5 DEF UpgradeInv
<1>6. CASE Deliver
  <2>1. /\ cached' = cr /\ UNCHANGED <<pc, inst, fresh, green>>
        /\ queued' = IF cached.uid # cr.uid \/ cached.gen # cr.gen THEN TRUE ELSE queued
    BY <1>6 DEF Deliver
  <2>2. CopiesOK'
    BY <1>1, <1>3, <2>1 DEF UpgradeInv, CopiesOK
  <2>3. SoundCopies'
    BY <1>1, <2>1 DEF UpgradeInv, SoundCopies
  <2>4. SameGeneration' /\ Reported' /\ OnTheWay'
    BY <1>1, <2>1 DEF UpgradeInv, SameGeneration, Reported, OnTheWay
  <2> QED
    BY <2>2, <2>3, <2>4 DEF UpgradeInv
<1>7. CASE ShowPriorityClasses
  <2>1. UNCHANGED <<cached, queued, pc, inst, fresh, green>>
    BY <1>7 DEF ShowPriorityClasses
  <2>2. CopiesOK' /\ SameGeneration' /\ SoundCopies' /\ Reported' /\ OnTheWay'
    BY <1>1, <2>1
    DEF UpgradeInv, CopiesOK, SameGeneration, SoundCopies, Reported, OnTheWay
  <2> QED
    BY <2>2 DEF UpgradeInv
<1> QED
  BY <1>2, <1>5, <1>6, <1>7 DEF Informer

\* The cluster puts no other version in place.
LEMMA UpgradeCluster ==
  ASSUME UpgradeInv, TypeOK', Kubernetes \/ UNCHANGED vars
  PROVE  UpgradeInv'
<1>1. /\ UNCHANGED <<cr, cached, pc, inst, fresh, green>>
      /\ hkVersion' \in {hkVersion, NoVersion} /\ (queued => queued')
  BY DEF Kubernetes, RelatedChange, ProvisionVolumes, BecomeReady, BecomeUnready,
         CollectGarbage, vars, objects
<1>2. CopiesOK' /\ SameGeneration' /\ Reported'
  BY <1>1 DEF UpgradeInv, CopiesOK, SameGeneration, Reported
<1>3. SoundCopies' /\ OnTheWay'
  BY <1>1 DEF UpgradeInv, SoundCopies, OnTheWay, Sound
<1> QED
  BY <1>2, <1>3 DEF UpgradeInv

\* Users who wait for the report of one version before they ask for the next.
LEMMA UpgradeUsers ==
  ASSUME UpgradeInv, TypeOK', Users, Patient
  PROVE  UpgradeInv'
<1>1. /\ UNCHANGED <<cached, hkVersion, pc, inst, fresh, green, queued>>
      /\ cr \in Resources /\ cached \in Resources /\ inst \in Resources
      /\ fresh \in Resources /\ cr' \in Resources /\ cr.gen \in Nat /\ cr.rv \in Nat
      /\ cr.del \in BOOLEAN /\ cr.version \in Versions \cup {NoVersion}
      /\ PastOf(cached, cr) /\ PastOf(inst, cr) /\ PastOf(fresh, cr)
  BY CopiesAre DEF Users, CreateAstarte, EditAstarte, DeleteAstarte, User, objects,
                   UpgradeInv, CopiesOK, TypeOK, Resources
<1>2. ASSUME cr' \in Resources, cr'.uid = cr.uid, cr'.rv = cr.rv + 1,
             cr'.gen = cr.gen + 1, NEW r \in Resources, PastOf(r, cr)
      PROVE  PastOf(r, cr')
  <2>1. r.rv \in Nat /\ r.gen \in Nat
    BY <1>2 DEF Resources
  <2> QED
    BY <1>1, <1>2, <2>1 DEF PastOf, Exists
<1>3. ASSUME Exists(cr), Exists(cr'), cr'.del, cr'.uid = cr.uid, cr'.rv = cr.rv + 1,
             cr'.gen = cr.gen + 1, cr'.version # NoVersion,
             cr'.status = cr.status
      PROVE  UpgradeInv'
  <2>1. CopiesOK'
    BY <1>1, <1>2, <1>3 DEF UpgradeInv, CopiesOK
  <2>2. SameGeneration' /\ SoundCopies' /\ Reported'
    BY <1>3 DEF SameGeneration, SoundCopies, Reported, Alive
  <2>3. OnTheWay'
    BY <1>1, <1>3 DEF UpgradeInv, OnTheWay, Alive
  <2> QED
    BY <2>1, <2>2, <2>3 DEF UpgradeInv
<1>4. CASE DeleteAstarte /\ cr.fin
  <2> DEFINE w == NextGeneration(cr)
  <2>1. /\ w \in Resources /\ w.uid = cr.uid /\ w.rv = cr.rv + 1 /\ w.gen = cr.gen + 1
        /\ w.version = cr.version /\ w.status = cr.status
    BY <1>1, NextGenerationFields
  <2>2. cr' = [w EXCEPT !.del = TRUE] /\ Exists(cr)
    BY <1>4 DEF DeleteAstarte
  <2> HIDE DEF w
  <2>3. /\ cr'.uid = w.uid /\ cr'.rv = w.rv /\ cr'.gen = w.gen /\ cr'.del
        /\ cr'.version = w.version /\ cr'.status = w.status
    BY <2>1, <2>2 DEF Resources
  <2>4. cr.version # NoVersion
    BY <2>2 DEF UpgradeInv, CopiesOK
  <2> QED
    BY <1>3, <2>1, <2>2, <2>3, <2>4 DEF Exists
<1>5. CASE DeleteAstarte /\ ~cr.fin
  <2>1. cr' = Absent
    BY <1>5 DEF DeleteAstarte
  <2>2. CopiesOK'
    BY <1>1, <2>1, AbsentIs DEF UpgradeInv, CopiesOK
  <2>3. SameGeneration' /\ SoundCopies' /\ Reported'
    BY <2>1, AbsentIs DEF SameGeneration, SoundCopies, Reported, Alive
  <2>4. OnTheWay'
    BY <1>1, <2>1, AbsentIs DEF UpgradeInv, OnTheWay, Alive
  <2> QED
    BY <2>2, <2>3, <2>4 DEF UpgradeInv

<1>6. ASSUME Exists(cr), EditAstarte
      PROVE  UpgradeInv'
  <2> DEFINE w == NextGeneration(cr)
  <2>1. /\ w \in Resources /\ w.uid = cr.uid /\ w.rv = cr.rv + 1 /\ w.gen = cr.gen + 1
        /\ w.version = cr.version /\ w.status = cr.status /\ w.maint = cr.maint
        /\ w.del = cr.del /\ w.fin = cr.fin
    BY <1>1, NextGenerationFields
  <2>2. \/ \E v \in Versions \ {cr.version} : cr' = [w EXCEPT !.version = v]
        \/ cr' = [w EXCEPT !.maint = ~w.maint]
    BY <1>6 DEF EditAstarte
  <2> HIDE DEF w
  <2>3. /\ cr'.uid = cr.uid /\ cr'.rv = cr.rv + 1 /\ cr'.gen = cr.gen + 1
        /\ cr'.del = cr.del /\ cr'.status = cr.status
        /\ \/ cr'.version \in Versions \ {cr.version} /\ cr'.maint = cr.maint
           \/ cr'.version = cr.version /\ cr'.maint = ~cr.maint
    BY <2>1, <2>2 DEF Resources
  <2>4. cr.version # NoVersion /\ cr'.version # NoVersion /\ cr.gen # 0
    BY <1>6, <2>3, ControllerAssumption DEF UpgradeInv, CopiesOK
  <2>5. CASE cr.del
    BY <1>3, <1>6, <2>3, <2>4, <2>5 DEF Exists
  <2>6. CASE ~cr.del
    <3>1. /\ ~cr'.maint /\ pc = "idle" /\ ~queued /\ cached = cr /\ ~cr.maint
      <4>1. cr'.gen > cr.gen /\ ~cr'.del
        BY <1>1, <2>3, <2>6
      <4> QED
        BY <1>6, <2>6, <4>1 DEF Patient, UpgradeInv, SoundCopies, Alive
    <3>2. cr'.version # cr.version
      BY <2>3, <3>1
    <3>3. cr.status.version = cr.version
      BY <1>6, <2>6, <3>1 DEF UpgradeInv, Reported, Alive
    <3>4. Sound(cr', hkVersion)
      BY <2>3, <2>4, <3>2, <3>3 DEF Sound, Told
    <3>5. cached.gen # cr'.gen
      BY <1>1, <2>3, <3>1
    <3>6. CopiesOK'
      <4>1. PastOf(cached, cr') /\ PastOf(inst, cr') /\ PastOf(fresh, cr')
        BY <1>1, <1>2, <2>3
      <4> QED
        BY <1>1, <1>6, <2>3, <2>4, <3>3, <4>1 DEF UpgradeInv, CopiesOK, Exists
    <3>7. SameGeneration' /\ SoundCopies' /\ Reported' /\ OnTheWay'
      BY <1>1, <3>1, <3>4, <3>5
      DEF SameGeneration, SoundCopies, Reported, OnTheWay, Preparing, Finalizing
    <3> QED
      BY <3>6, <3>7 DEF UpgradeInv
  <2> QED
    BY <2>5, <2>6
<1>7. CASE CreateAstarte
  <2>1. /\ cr = Absent /\ cr.gen = 0 /\ cr'.uid = uids + 1 /\ cr'.gen = 1
        /\ ~cr'.del /\ ~cr'.fin /\ cr'.version \in Versions
        /\ cr'.status.version = NoVersion
    <3>1. PICK v \in Versions, m \in BOOLEAN :
             cr' = [uid |-> uids + 1, rv |-> 1, gen |-> 1, version |-> v, maint |-> m,
                    fin |-> FALSE, del |-> FALSE, status |-> NoStatus]
      BY <1>7 DEF CreateAstarte
    <3>2. NoStatus.version = NoVersion
      BY DEF NoStatus
    <3>3. cr = Absent
      BY <1>7 DEF CreateAstarte, UpgradeInv, CopiesOK
    <3> QED
      BY <3>1, <3>2, <3>3, AbsentIs
  <2>2. ~cr'.maint /\ pc = "idle" /\ ~queued /\ cached = cr
    BY <2>1 DEF Patient
  <2>3. uids + 1 # 0 /\ cr'.version # NoVersion
    BY <2>1, ControllerAssumption DEF UpgradeInv, TypeOK
  <2>4. inst = Absent /\ fresh = Absent
    BY <2>2 DEF UpgradeInv, CopiesOK
  <2>5. CopiesOK'
    BY <1>1, <2>1, <2>2, <2>3, <2>4, AbsentIs DEF UpgradeInv, CopiesOK, Exists
  <2>6. SameGeneration' /\ SoundCopies' /\ Reported' /\ OnTheWay'
    BY <1>1, <2>1, <2>2
    DEF SameGeneration, SoundCopies, Reported, OnTheWay, Sound, Preparing, Finalizing
  <2> QED
    BY <2>5, <2>6 DEF UpgradeInv
<1> QED
  BY <1>4, <1>5, <1>6, <1>7 DEF Users, EditAstarte

LEMMA UpgradeInit == Init => UpgradeInv
<1> SUFFICES ASSUME Init PROVE UpgradeInv
  OBVIOUS
<1>1. TypeOK
  BY TypeInit
<1>2. CopiesOK
  BY AbsentIs DEF Init, CopiesOK
<1>3. SameGeneration /\ SoundCopies /\ Reported /\ OnTheWay
  BY AbsentIs DEF Init, SameGeneration, SoundCopies, Reported, OnTheWay, Alive,
                  Preparing, Finalizing
<1> QED
  BY <1>1, <1>2, <1>3 DEF UpgradeInv

\* CheckAndPerformUpgrade stands in the way of every change of the version that
\* runs, for users who wait for the report of one version before they ask for
\* the next: whatever fails or restarts, and however often the Astarte is
\* deleted and created again.
THEOREM UpgradesGated == PatientSpec => UpgradeGated
<1> DEFINE Gated == hkVersion # NoVersion /\ hkVersion' \notin {hkVersion, NoVersion}
                      => green \/ inst.status.version = Snapshot
<1>1. PatientNext => Next
  BY DEF PatientNext, Next, Environment
<1>2. UpgradeInv /\ [PatientNext]_vars => UpgradeInv'
  <2> SUFFICES ASSUME UpgradeInv, [PatientNext]_vars PROVE UpgradeInv'
    OBVIOUS
  <2>1. TypeOK'
    <3>1. TypeOK
      BY DEF UpgradeInv
    <3>2. UNCHANGED vars => TypeOK'
      BY <3>1 DEF vars, objects, classes, TypeOK
    <3> QED
      BY <1>1, <3>1, <3>2, TypeWorker, TypeOthers DEF Next
  <2> QED
    BY <2>1, UpgradeWorker, UpgradeShown, UpgradeCluster, UpgradeUsers DEF PatientNext
<1>3. ASSUME UpgradeInv, PatientNext PROVE Gated
  <2>1. CASE EnsureAstarteMicroservices
    <3>1. pc = "microservices" /\ hkVersion' = inst.version
      BY <2>1 DEF EnsureAstarteMicroservices, Deploy
    <3> QED
      BY <1>3, <3>1 DEF UpgradeInv, OnTheWay
  <2>2. hkVersion' \in {hkVersion, NoVersion} \/ EnsureAstarteMicroservices
    <3>1. Worker => UNCHANGED hkVersion \/ EnsureAstarteMicroservices
      BY DEF Worker, Start, Coherency, CoherencyRead, CoherencyWrite, CoherencyReread,
         AddFinalizer, Gate, EnsurePriorityClasses, EnsureCFSSL, EnsureVerneMQ,
         StatusRead, StatusWrite, FinalizeVolumes, FinalizePriorityClasses,
         RemoveFinalizer, objects
    <3>2. CallFails \/ Restart \/ Informer \/ Users => UNCHANGED hkVersion
      BY DEF CallFails, Restart, Informer, Deliver, ShowPriorityClasses, Users, CreateAstarte, EditAstarte,
             DeleteAstarte, User, objects
    <3>3. Kubernetes => hkVersion' \in {hkVersion, NoVersion}
      BY DEF Kubernetes, RelatedChange, ProvisionVolumes, BecomeReady, BecomeUnready,
             CollectGarbage, objects
    <3> QED
      BY <1>3, <3>1, <3>2, <3>3 DEF PatientNext
  <2> QED
    BY <2>1, <2>2
<1>4. UpgradeInv /\ [PatientNext]_vars => [Gated]_vars
  BY <1>3
<1> QED
  BY <1>2, <1>4, UpgradeInit, PTL DEF PatientSpec, UpgradeGated

===============================================================================
