-------------------------------- MODULE Flow --------------------------------
(***************************************************************************)
(* The reconciliation of a Flow (internal/controller/flow, internal/flow): *)
(* one Deployment per container block, one Secret per block and one per    *)
(* worker for the Deployment to mount, leftovers deleted, counters in the  *)
(* status.                                                                 *)
(*                                                                         *)
(* The worker reads three informers (Flow, Deployments, Secrets), each of  *)
(* which shows the API server's states one after the other and some time   *)
(* after they were written, and writes to the server.                      *)
(*                                                                         *)
(* Simplifications: objects have no content but the workers they are for,  *)
(* so the resourceVersion lock of an update compares what was read with    *)
(* what is there; the counter of failing blocks, the resources and the     *)
(* failures in the status are left out; a name stands for one object (the  *)
(* generated names of distinct blocks and workers are distinct).           *)
(***************************************************************************)
EXTENDS Naturals, Sequences, FiniteSets

CONSTANTS
    Blocks,      \* IDs of container blocks
    Workers,     \* IDs of the workers of a block
    Specs,       \* the specs that users give the Flow
    MaxLag,      \* bound: states that an informer is behind by
    MaxEdits,    \* bound: edits of the Flow, its deletion included
    MaxMishaps   \* bound: secrets erased by users, pods that die, API calls
                 \*        that fail and restarts of the operator, together

\* A block that the spec does not have has no workers: the others have one at
\* least (MinItems).
FlowSpecs == [Blocks -> SUBSET Workers]

ASSUME FlowAssumption ==
    /\ Blocks # {} /\ IsFiniteSet(Blocks) /\ IsFiniteSet(Workers)
    /\ Specs # {} /\ Specs \subseteq FlowSpecs
    /\ MaxLag \in Nat /\ MaxEdits \in Nat /\ MaxMishaps \in Nat

VARIABLES
    api,       \* the objects at the API server
    view,      \* the objects in the informers' caches
    backlog,   \* per kind, the states that the cache has yet to show
    astarte,   \* the Astarte of the Flow is there
    queued,    \* the Flow's key is in the work queue
    pc,        \* where the worker is
    inst,      \* the spec it reconciles
    todo,      \* blocks it has yet to ensure
    existing,  \* Deployments it has found and not ensured
    cur,       \* the block it is ensuring
    left,      \* workers of cur whose secret it has yet to ensure
    old,       \* workers of cur whose secret it has found and not ensured
    spent      \* how much of each bound has been used

locals == <<inst, todo, existing, cur, left, old>>
vars == <<api, view, backlog, astarte, queued, pc, locals, spent>>

Kinds == {"flow", "deployments", "secrets"}
Unknown == [b \in Blocks |-> {}]
AnyBlock == CHOOSE b \in Blocks : TRUE
Nothing == [k \in Kinds |-> <<>>]

\* A block's own secret, which holds the user's configuration, and the
\* secrets of its workers.
BlockSecrets == [block : Blocks]
WorkerSecrets == [block : Blocks, worker : Workers]
BlockSecret(b) == [block |-> b]
WorkerSecret(b, w) == [block |-> b, worker |-> w]

\* generateVolumesFor.
Mounts(b, workers) == {BlockSecret(b)} \cup {WorkerSecret(b, w) : w \in workers}

\* What a Deployment's status tells of its pod: there is none, it is not
\* ready, it is ready, or it is one of the previous template.
Pods == {"none", "starting", "ready", "old"}
Deployments == [Blocks -> [workers : SUBSET Workers, pod : Pods]]
NoDeployment == [workers |-> {}, pod |-> "none"]
Deployed(ds) == {b \in Blocks : ds[b].workers # {}}
Wanted(spec) == {b \in Blocks : spec[b] # {}}

Counters == [state : {"Unknown"}, total : Nat, ready : Nat]
Flows == [here : BOOLEAN, spec : FlowSpecs, status : Counters]
Values == [flow |-> Flows, deployments |-> Deployments,
           secrets |-> SUBSET (BlockSecrets \cup WorkerSecrets)]
Objects == [flow : Values.flow, deployments : Values.deployments,
            secrets : Values.secrets]

Mishaps == {"erased", "deaths", "faults", "crashes"}
Spend(what) == spent' = [spent EXCEPT ![what] = @ + 1]
Mishap(what) ==
    /\ spent["erased"] + spent["deaths"] + spent["faults"] + spent["crashes"]
         < MaxMishaps
    /\ Spend(what)
Edited == spent["edits"] < MaxEdits /\ Spend("edits")

-----------------------------------------------------------------------------
(* Steps that Reconcile is made of.                                        *)

\* A write, which the kind's informer will see.
Put(kind, value) ==
    /\ Len(backlog[kind]) < MaxLag
    /\ api' = [api EXCEPT ![kind] = value]
    /\ backlog' = [backlog EXCEPT ![kind] = Append(@, value)]
PutSecrets(secrets) == Put("secrets", secrets)
PutDeployment(b, d) == Put("deployments", [api.deployments EXCEPT ![b] = d])
Untouched == UNCHANGED <<api, backlog>>
Aside == UNCHANGED <<view, astarte, spent>>

Goto(label) == pc' = label /\ UNCHANGED queued
\* What a Reconcile has gathered ends with it.
Forget ==
    /\ pc' = "idle" /\ inst' = Unknown /\ todo' = {} /\ existing' = {}
    /\ cur' = AnyBlock /\ left' = {} /\ old' = {}
Finish == Forget /\ UNCHANGED queued
Fail == Forget /\ queued' = TRUE
\* An error at a call that changes nothing.
Abort == Fail /\ Untouched

\* CreateOrUpdate of a secret (ReconcileSecretStringWithLabels).  StringData is
\* never read back, so that what was found is always updated: that fails if it
\* is no longer there, as creating fails if it is there by now.
EnsureSecret(s) ==
    IF s \in view.secrets
    THEN s \in api.secrets /\ Untouched
    ELSE s \notin api.secrets /\ PutSecrets(api.secrets \cup {s})
CannotEnsureSecret(s) == (s \in view.secrets) # (s \in api.secrets)

-----------------------------------------------------------------------------
(* Reconcile, and EnsureBlock for each block of the spec.                  *)

\* Nothing to do for a Flow that is not there; an error without its Astarte.
Start ==
    /\ pc = "idle" /\ queued
    /\ IF ~view.flow.here
       THEN queued' = FALSE /\ UNCHANGED <<pc, locals>>
       ELSE IF ~astarte
       THEN Fail
       ELSE /\ pc' = "list" /\ queued' = FALSE /\ inst' = view.flow.spec
            /\ UNCHANGED <<todo, existing, cur, left, old>>
    /\ Untouched /\ Aside

\* getAllBlocksForFlow.
ListBlocks ==
    /\ pc = "list"
    /\ Goto("blocks")
    /\ todo' = Wanted(inst) /\ existing' = Deployed(view.deployments)
    /\ Untouched /\ Aside /\ UNCHANGED <<inst, cur, left, old>>

\* The next block, its secret first.
EnsureBlockSecret(b) ==
    /\ pc = "blocks" /\ old = {} /\ b \in todo
    /\ \/ /\ EnsureSecret(BlockSecret(b))
          /\ Goto("secrets") /\ todo' = todo \ {b} /\ cur' = b
          /\ UNCHANGED <<inst, existing, left, old>>
       \/ CannotEnsureSecret(BlockSecret(b)) /\ Abort
    /\ Aside

ListWorkerSecrets ==
    /\ pc = "secrets"
    /\ Goto("workers")
    /\ old' = {w \in Workers : WorkerSecret(cur, w) \in view.secrets}
    /\ left' = inst[cur]
    /\ Untouched /\ Aside /\ UNCHANGED <<inst, todo, existing, cur>>

\* Mutant: the secrets of the spec's workers stay on the list of leftovers.
EnsureWorkerSecretAsLeftover(w) ==
    /\ pc = "workers" /\ w \in left
    /\ \/ /\ EnsureSecret(WorkerSecret(cur, w))
          /\ left' = left \ {w}
          /\ UNCHANGED <<queued, pc, inst, todo, existing, cur, old>>
       \/ CannotEnsureSecret(WorkerSecret(cur, w)) /\ Abort
    /\ Aside

\* getFlowWorkerContainers.
EnsureWorkerSecret(w) ==
    /\ pc = "workers" /\ w \in left
    /\ \/ /\ EnsureSecret(WorkerSecret(cur, w))
          /\ left' = left \ {w} /\ old' = old \ {w}
          /\ UNCHANGED <<queued, pc, inst, todo, existing, cur>>
       \/ CannotEnsureSecret(WorkerSecret(cur, w)) /\ Abort
    /\ Aside

\* The pod of the previous template goes on until the Deployment's controller
\* notices.
Retemplate(d, workers) ==
    [workers |-> workers, pod |-> IF d.pod = "ready" THEN "old" ELSE d.pod]

\* CreateOrUpdate of the Deployment.  Its spec lacks the server's defaults, so
\* that what was found is always updated: if nothing differs, no event follows.
EnsureDeployment ==
    /\ pc = "workers" /\ left = {}
    /\ LET there == api.deployments[cur]
       IN  IF view.deployments[cur] # there
           THEN Abort
           ELSE /\ IF there.workers = inst[cur]
                   THEN Untouched
                   ELSE PutDeployment(cur, Retemplate(there, inst[cur]))
                /\ Goto("blocks") /\ existing' = existing \ {cur}
                /\ UNCHANGED <<inst, todo, cur, left, old>>
    /\ Aside

\* "Do we need to clean up any secrets?"
DeleteWorkerSecret(w) ==
    /\ pc = "blocks" /\ w \in old
    /\ IF WorkerSecret(cur, w) \in api.secrets
       THEN /\ PutSecrets(api.secrets \ {WorkerSecret(cur, w)})
            /\ old' = old \ {w}
            /\ UNCHANGED <<queued, pc, inst, todo, existing, cur, left>>
       ELSE Abort
    /\ Aside

BlocksEnsured == pc = "blocks" /\ old = {} /\ todo = {}

\* "Any leftovers we should delete?"
DeleteDeployment(b) ==
    /\ BlocksEnsured /\ b \in existing
    /\ IF b \in Deployed(api.deployments)
       THEN /\ PutDeployment(b, NoDeployment)
            /\ existing' = existing \ {b}
            /\ UNCHANGED <<queued, pc, inst, todo, cur, left, old>>
       ELSE Abort
    /\ Aside

\* computeBlocksState: a block is ready if all of its replicas are, and a
\* Deployment that has yet to start its pod has no replicas.
ReadyBlocks(ds) == {b \in Deployed(ds) : ds[b].pod # "starting"}

\* computeFlowStatusResource.  It sets the state of the resource whose status
\* the caller then replaces by the one returned, copied before: the state of
\* the status that is written is the one that was read.
ComputeStatus(status, ds) ==
    [status EXCEPT !.total = Cardinality(Deployed(ds)),
                   !.ready = Cardinality(ReadyBlocks(ds))]

\* Mutant: the status always differs from the one before, as with a time in it.
UpdateStatusAlways ==
    /\ BlocksEnsured /\ existing = {}
    /\ IF view.flow.here /\ api.flow = view.flow
       THEN /\ Put("flow", [api.flow EXCEPT
                      !.status = ComputeStatus(@, view.deployments)])
            /\ Finish
       ELSE Abort
    /\ Aside

\* The Flow is read again, and the update fails if it has changed since; the
\* retries are those of the next Reconcile.  An equal status is no event.
UpdateStatus ==
    /\ BlocksEnsured /\ existing = {}
    /\ LET status == ComputeStatus(view.flow.status, view.deployments)
       IN  IF ~view.flow.here \/ api.flow # view.flow
           THEN Abort
           ELSE /\ Finish
                /\ IF status = view.flow.status
                   THEN Untouched
                   ELSE Put("flow", [api.flow EXCEPT !.status = status])
    /\ Aside

Worker ==
    \/ Start \/ ListBlocks
    \/ \E b \in Blocks : EnsureBlockSecret(b)
    \/ ListWorkerSecrets
    \/ \E w \in Workers : EnsureWorkerSecret(w)
    \/ EnsureDeployment
    \/ \E w \in Workers : DeleteWorkerSecret(w)
    \/ \E b \in Blocks : DeleteDeployment(b)
    \/ UpdateStatus

\* Any call may return an error.
CallFails ==
    /\ pc # "idle"
    /\ Mishap("faults")
    /\ Abort
    /\ UNCHANGED <<view, astarte>>

-----------------------------------------------------------------------------
(* The informers, Kubernetes and the users.                                *)

\* Mutant: Secrets are not watched.
WatchedButSecrets == Kinds \ {"secrets"}
\* SetupWithManager: the Flow and what it owns.
Watched == Kinds

\* The informer shows the next state and, if the kind is watched, enqueues.
Deliver(kind) ==
    /\ backlog[kind] # <<>>
    /\ view' = [view EXCEPT ![kind] = Head(backlog[kind])]
    /\ backlog' = [backlog EXCEPT ![kind] = Tail(@)]
    /\ queued' = (queued \/ kind \in Watched)
    /\ UNCHANGED <<api, astarte, pc, locals, spent>>

Unobserved == UNCHANGED <<view, astarte, queued, pc, locals>>

\* A Deployment gets rid of the pods of the previous template before it starts
\* its own (Recreate); a pod becomes ready once what it mounts is there.
Rollout(b) ==
    LET d == api.deployments[b]
    IN  /\ b \in Deployed(api.deployments)
        /\ \/ d.pod = "old" /\ PutDeployment(b, [d EXCEPT !.pod = "none"])
           \/ d.pod = "none" /\ PutDeployment(b, [d EXCEPT !.pod = "starting"])
           \/ /\ d.pod = "starting" /\ Mounts(b, d.workers) \subseteq api.secrets
              /\ PutDeployment(b, [d EXCEPT !.pod = "ready"])
        /\ Unobserved /\ UNCHANGED spent

PodDies(b) ==
    /\ api.deployments[b].pod = "ready"
    /\ Mishap("deaths")
    /\ PutDeployment(b, [api.deployments[b] EXCEPT !.pod = "starting"])
    /\ Unobserved

\* Mutant: Secrets are created without a controller reference.
OwnedButSecrets == {"deployments"}
\* SetControllerReference: the Flow owns what was created for it.
Owned == {"deployments", "secrets"}

\* What the Flow owned goes after it.
CollectGarbage ==
    /\ ~api.flow.here
    /\ \/ /\ "deployments" \in Owned
          /\ \E b \in Deployed(api.deployments) : PutDeployment(b, NoDeployment)
       \/ /\ "secrets" \in Owned
          /\ \E s \in api.secrets : PutSecrets(api.secrets \ {s})
    /\ Unobserved /\ UNCHANGED spent

Edit(spec) ==
    /\ api.flow.here /\ spec # api.flow.spec
    /\ Edited
    /\ Put("flow", [api.flow EXCEPT !.spec = spec])
    /\ Unobserved

Delete ==
    /\ api.flow.here
    /\ Edited
    /\ Put("flow", [api.flow EXCEPT !.here = FALSE])
    /\ Unobserved

EraseSecret(s) ==
    /\ s \in api.secrets
    /\ Mishap("erased")
    /\ PutSecrets(api.secrets \ {s})
    /\ Unobserved

\* The Astarte that the Flow names is not watched.
AstarteComes ==
    /\ ~astarte /\ astarte' = TRUE
    /\ UNCHANGED <<api, view, backlog, queued, pc, locals, spent>>

\* The next process starts from complete lists.
Restart ==
    /\ Mishap("crashes")
    /\ Fail
    /\ view' = api /\ backlog' = Nothing
    /\ UNCHANGED <<api, astarte>>

Kubernetes == CollectGarbage \/ \E b \in Blocks : Rollout(b) \/ PodDies(b)
Users ==
    \/ \E spec \in Specs : Edit(spec)
    \/ Delete \/ AstarteComes
    \/ \E s \in BlockSecrets \cup WorkerSecrets : EraseSecret(s)

Fresh(spec) ==
    [flow |-> [here |-> TRUE, spec |-> spec,
               status |-> [state |-> "Unknown", total |-> 0, ready |-> 0]],
     deployments |-> [b \in Blocks |-> NoDeployment],
     secrets |-> {}]

\* The operator starts, or a Flow is created.
Init ==
    /\ \E spec \in Specs : api = Fresh(spec)
    /\ view = api /\ backlog = Nothing
    /\ astarte \in BOOLEAN
    /\ queued = TRUE /\ pc = "idle"
    /\ inst = Unknown /\ todo = {} /\ existing = {}
    /\ cur = AnyBlock /\ left = {} /\ old = {}
    /\ spent = [b \in Mishaps \cup {"edits"} |-> 0]

Next ==
    \/ Worker \/ CallFails \/ Restart
    \/ \E kind \in Kinds : Deliver(kind)
    \/ Kubernetes \/ Users

Spec == Init /\ [][Next]_vars

FairSpec ==
    /\ Spec
    /\ WF_vars(Worker) /\ \A kind \in Kinds : WF_vars(Deliver(kind))
    /\ \A b \in Blocks : WF_vars(Rollout(b))
    /\ WF_vars(CollectGarbage)

-----------------------------------------------------------------------------
TypeOK ==
    /\ api \in Objects /\ view \in Objects
    /\ DOMAIN backlog = Kinds /\ \A k \in Kinds : backlog[k] \in Seq(Values[k])
    /\ astarte \in BOOLEAN /\ queued \in BOOLEAN
    /\ pc \in {"idle", "list", "blocks", "secrets", "workers"}
    /\ inst \in FlowSpecs /\ todo \subseteq Blocks /\ existing \subseteq Blocks
    /\ cur \in Blocks /\ left \subseteq Workers /\ old \subseteq Workers
    /\ spent \in [Mishaps \cup {"edits"} -> Nat]

\* "We'll have to orchestrate all workers, including bringing them up/down on
\* demand" (EnsureBlock): a worker's secret is there before its Deployment
\* mounts it and goes only after, however stale the caches and whichever call
\* fails, unless a user takes it.
SecretsMounted ==
    api.flow.here /\ spent["erased"] = 0 =>
       \A b \in Deployed(api.deployments) :
          Mounts(b, api.deployments[b].workers) \subseteq api.secrets

\* Nothing is left to wake the operator up.
Quiet == pc = "idle" /\ ~queued /\ backlog = Nothing

\* What the user asked for: a Deployment for each block of the spec with just
\* its workers, what they mount, no secret of another worker of theirs.
Reconciled ==
    LET spec == api.flow.spec
        counters == ComputeStatus(api.flow.status, api.deployments)
    IN  /\ \A b \in Blocks : api.deployments[b].workers = spec[b]
        /\ \A b \in Wanted(spec) :
              /\ BlockSecret(b) \in api.secrets
              /\ \A w \in Workers :
                    WorkerSecret(b, w) \in api.secrets <=> w \in spec[b]
        /\ api.flow.status = counters

\* No change goes unnoticed: the operator rests only once everything is as the
\* spec has it and the status tells what is there, whatever the order in which
\* the informers caught up and the calls failed.
QuietMeansReconciled == Quiet /\ api.flow.here => Reconciled

\* "For additional cleanup logic use finalizers": there is none, and once the
\* Flow is gone nothing that a late Reconcile created outlives it.
NothingOutlivesTheFlow ==
    <>[](~api.flow.here =>
          Deployed(api.deployments) = {} /\ api.secrets = {})

\* Reconcile comes to rest: its writes do not wake it up for ever.
ComesToRest == []<>astarte => <>[]Quiet

\* FlowStateFlowing: "the Flow is currently active and all of its blocks are
\* stable.  A healthy flow should stay in this state for most of its lifecycle."
HealthyFlowsFlow ==
    <>[](/\ Quiet /\ api.flow.here /\ Deployed(api.deployments) # {}
         /\ \A b \in Deployed(api.deployments) : api.deployments[b].pod = "ready")
       => <>[](api.flow.status.state = "Flowing")

-----------------------------------------------------------------------------
(* Why a worker's secret is never taken from under its Deployment.         *)

Undisturbed == api.flow.here /\ spent["erased"] = 0

\* What EnsureBlock has ensured so far is there, and what it still means to
\* delete is not among it.
BlockUnderway ==
    /\ pc \in {"idle", "list"} => old = {}
    /\ pc \in {"secrets", "workers"} => BlockSecret(cur) \in api.secrets
    /\ pc = "workers" =>
          \A w \in inst[cur] \ left :
             WorkerSecret(cur, w) \in api.secrets /\ w \notin old
    /\ pc = "blocks" => old \cap api.deployments[cur].workers = {}

MountInv == TypeOK /\ SecretsMounted /\ (Undisturbed => BlockUnderway)
=============================================================================
