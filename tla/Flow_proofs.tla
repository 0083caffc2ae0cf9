---------------------------- MODULE Flow_proofs ----------------------------
(* What holds of Flow for any blocks, workers, specs and bounds: the type  *)
(* invariant, that a Deployment always has the secrets it mounts, and that *)
(* at rest the blocks are those of the spec.                               *)
EXTENDS Flow, FiniteSetTheorems, BacklogLemmas, SequenceTheorems, TLAPS

-----------------------------------------------------------------------------
(* Facts about the operators.                                              *)

LEMMA BlockExists == AnyBlock \in Blocks
  BY FlowAssumption DEF AnyBlock

\* The part of the type invariant that writes can disturb.
StoreOK ==
    /\ api \in Objects
    /\ DOMAIN backlog = Kinds /\ \A k \in Kinds : backlog[k] \in Seq(Values[k])

\* A write changes the objects of one kind to what is written.
LEMMA PutWrites ==
  ASSUME TypeOK, NEW kind \in Kinds, NEW value \in Values[kind], Put(kind, value)
  PROVE  /\ StoreOK' /\ api'[kind] = value
         /\ \A k \in Kinds : k # kind => api'[k] = api[k]
<1>1. api' = [api EXCEPT ![kind] = value]
      /\ backlog' = [backlog EXCEPT ![kind] = Append(@, value)]
  BY DEF Put
<1>2. api' \in Objects /\ api'[kind] = value
      /\ \A k \in Kinds : k # kind => api'[k] = api[k]
  BY <1>1 DEF TypeOK, Objects, Values, Kinds
<1>3. DOMAIN backlog' = Kinds /\ \A k \in Kinds : backlog'[k] \in Seq(Values[k])
  <2> DEFINE V(k) == Values[k]
  <2>1. \A k \in Kinds : backlog[k] \in Seq(V(k))
    BY DEF TypeOK
  <2>2. value \in V(kind) /\ DOMAIN backlog = Kinds
    BY DEF TypeOK
  <2> HIDE DEF V
  <2>3. Append(backlog[kind], value) \in Seq(V(kind))
    BY <2>1, <2>2
  <2>4. DOMAIN backlog' = Kinds /\ \A k \in Kinds : backlog'[k] \in Seq(V(k))
    BY <1>1, <2>1, <2>2, <2>3
  <2> QED
    BY <2>4 DEF V
<1> QED
  BY <1>2, <1>3 DEF StoreOK

\* The objects are those of the three kinds.
LEMMA ObjectsHave ==
  ASSUME NEW o \in Objects
  PROVE  /\ o.flow \in Flows /\ o.flow.spec \in FlowSpecs
         /\ o.deployments \in Deployments
         /\ o.secrets \in SUBSET (BlockSecrets \cup WorkerSecrets)
         /\ \A b \in Blocks : o.deployments[b] \in [workers : SUBSET Workers, pod : Pods]
  BY DEF Objects, Values, Flows, Deployments

LEMMA SecretsAre ==
  ASSUME NEW b \in Blocks
  PROVE  /\ BlockSecret(b) \in BlockSecrets \cup WorkerSecrets
         /\ \A w \in Workers : WorkerSecret(b, w) \in BlockSecrets \cup WorkerSecrets
  BY DEF BlockSecret, WorkerSecret, BlockSecrets, WorkerSecrets

\* Blocks and workers have secrets of their own.
LEMMA SecretsDiffer ==
  ASSUME NEW b, NEW c, NEW v, NEW w, WorkerSecret(b, v) = WorkerSecret(c, w)
  PROVE  b = c /\ v = w
  BY DEF WorkerSecret

LEMMA BlockSecretsDiffer ==
  ASSUME NEW b, NEW c, NEW w
  PROVE  BlockSecret(b) # WorkerSecret(c, w)
  BY DEF WorkerSecret, BlockSecret

\* A write of the secrets.
LEMMA PutSecretsWrites ==
  ASSUME TypeOK, NEW ss \in SUBSET (BlockSecrets \cup WorkerSecrets), PutSecrets(ss)
  PROVE  /\ StoreOK' /\ api'.secrets = ss
         /\ api'.deployments = api.deployments /\ api'.flow = api.flow
<1>1. "secrets" \in Kinds /\ ss \in Values["secrets"] /\ Put("secrets", ss)
  BY DEF Kinds, Values, PutSecrets
<1> QED
  BY <1>1, PutWrites DEF Kinds

\* A write of one Deployment.
LEMMA PutDeploymentWrites ==
  ASSUME TypeOK, NEW b \in Blocks, NEW d \in [workers : SUBSET Workers, pod : Pods],
         PutDeployment(b, d)
  PROVE  /\ StoreOK' /\ api'.deployments = [api.deployments EXCEPT ![b] = d]
         /\ api'.secrets = api.secrets /\ api'.flow = api.flow
<1> DEFINE ds == [api.deployments EXCEPT ![b] = d]
<1>1. "deployments" \in Kinds /\ Put("deployments", ds)
  BY DEF Kinds, PutDeployment
<1>2. ds \in Values["deployments"]
  <2>1. api.deployments \in Deployments
    BY ObjectsHave DEF TypeOK
  <2> QED
    BY <2>1 DEF Deployments, Values
<1> HIDE DEF ds
<1>3. api'.deployments = ds
      /\ api'.secrets = api.secrets /\ api'.flow = api.flow
      /\ StoreOK'
  BY <1>1, <1>2, PutWrites DEF Kinds
<1> QED
  BY <1>3 DEF ds

\* A write of the Flow.
LEMMA PutFlowWrites ==
  ASSUME TypeOK, NEW f \in Flows, Put("flow", f)
  PROVE  /\ StoreOK' /\ api'.flow = f
         /\ api'.secrets = api.secrets /\ api'.deployments = api.deployments
<1>1. "flow" \in Kinds /\ f \in Values["flow"]
  BY DEF Kinds, Values
<1> QED
  BY <1>1, PutWrites DEF Kinds

\* The counters of a status count blocks.
LEMMA CountersAre ==
  ASSUME NEW f \in Flows, NEW ds \in Deployments
  PROVE  [f EXCEPT !.status = ComputeStatus(f.status, ds)] \in Flows
<1>1. \A bs \in SUBSET Blocks : Cardinality(bs) \in Nat
  BY FlowAssumption, FS_Subset, FS_CardinalityType
<1>2. Deployed(ds) \in SUBSET Blocks /\ ReadyBlocks(ds) \in SUBSET Blocks
  BY DEF Deployed, ReadyBlocks
<1>3. ComputeStatus(f.status, ds) \in Counters
  BY <1>1, <1>2 DEF ComputeStatus, Counters, Flows
<1> QED
  BY <1>3 DEF Flows

\* What a call that fails leaves behind.
LEMMA ForgetTypes ==
  ASSUME Forget
  PROVE  /\ pc' = "idle" /\ inst' \in FlowSpecs /\ todo' = {} /\ existing' = {}
         /\ cur' \in Blocks /\ left' = {} /\ old' = {}
  BY BlockExists DEF Forget, Unknown, FlowSpecs

\* What ensuring a secret leaves at the server.
LEMMA EnsureSecretLeaves ==
  ASSUME TypeOK, NEW s \in BlockSecrets \cup WorkerSecrets, EnsureSecret(s)
  PROVE  /\ StoreOK' /\ api'.secrets = api.secrets \cup {s}
         /\ api'.deployments = api.deployments /\ api'.flow = api.flow
<1>1. CASE s \in view.secrets
  BY <1>1 DEF EnsureSecret, Untouched, StoreOK, TypeOK
<1>2. CASE s \notin view.secrets
  <2>1. api.secrets \cup {s} \in SUBSET (BlockSecrets \cup WorkerSecrets)
    BY ObjectsHave DEF TypeOK
  <2>2. PutSecrets(api.secrets \cup {s})
    BY <1>2 DEF EnsureSecret
  <2> QED
    BY <2>1, <2>2, PutSecretsWrites
<1> QED
  BY <1>1, <1>2

-----------------------------------------------------------------------------
(* The type invariant.                                                     *)

LEMMA InitTypes == Init => TypeOK
<1> SUFFICES ASSUME Init PROVE TypeOK
  OBVIOUS
<1>1. PICK spec \in Specs : api = Fresh(spec)
  BY DEF Init
<1>2. spec \in FlowSpecs
  BY FlowAssumption
<1>3. api \in Objects
  BY <1>1, <1>2 DEF Fresh, Objects, Values, Flows, Counters, Deployments,
                    NoDeployment, Pods
<1>4. DOMAIN backlog = Kinds /\ \A k \in Kinds : backlog[k] \in Seq(Values[k])
  <2>1. \A S : <<>> \in Seq(S)
    OBVIOUS
  <2> QED
    BY <2>1 DEF Init, Nothing
<1>5. inst \in FlowSpecs /\ cur \in Blocks
  BY BlockExists DEF Init, Unknown, FlowSpecs
<1>6. spent \in [Mishaps \cup {"edits"} -> Nat]
  BY DEF Init
<1> QED
  BY <1>3, <1>4, <1>5, <1>6 DEF Init, TypeOK

\* An aborted Reconcile.
LEMMA AbortTypes ==
  ASSUME TypeOK, Abort
  PROVE  StoreOK' /\ queued' \in BOOLEAN /\ pc' = "idle" /\ inst' \in FlowSpecs
         /\ todo' \subseteq Blocks /\ existing' \subseteq Blocks /\ cur' \in Blocks
         /\ left' \subseteq Workers /\ old' \subseteq Workers
  BY ForgetTypes DEF Abort, Fail, Untouched, TypeOK, StoreOK

\* A step of the worker leaves the caches alone, and what it has gathered is
\* of its kind.
LEMMA WorkerTypes == TypeOK /\ Worker => TypeOK'
<1> SUFFICES ASSUME TypeOK, Worker PROVE TypeOK'
  OBVIOUS
<1> DEFINE LocalsOK ==
      /\ queued \in BOOLEAN
      /\ pc \in {"idle", "list", "blocks", "secrets", "workers"}
      /\ inst \in FlowSpecs /\ todo \subseteq Blocks /\ existing \subseteq Blocks
      /\ cur \in Blocks /\ left \subseteq Workers /\ old \subseteq Workers
<1>a. StoreOK /\ LocalsOK
  BY DEF TypeOK, StoreOK
<1>b. view.flow.spec \in FlowSpecs
  BY ObjectsHave DEF TypeOK
<1>c. (StoreOK /\ LocalsOK)' /\ Aside => TypeOK'
  BY DEF TypeOK, StoreOK, Aside
<1>d. Abort => (StoreOK /\ LocalsOK)'
  BY AbortTypes
<1>e. Untouched => StoreOK'
  BY <1>a DEF Untouched, StoreOK
<1> HIDE DEF LocalsOK
<1>1. CASE Start
  <2>1. StoreOK' /\ Aside
    BY <1>1, <1>e DEF Start
  <2>2. LocalsOK'
    <3>1. CASE ~view.flow.here
      BY <1>1, <3>1, <1>a DEF Start, LocalsOK, locals
    <3>2. CASE view.flow.here /\ ~astarte
      BY <1>1, <3>2, <1>d DEF Start, Abort
    <3>3. CASE view.flow.here /\ astarte
      BY <1>1, <3>3, <1>a, <1>b DEF Start, LocalsOK
    <3> QED
      BY <3>1, <3>2, <3>3
  <2> QED
    BY <2>1, <2>2, <1>c
<1>2. CASE ListBlocks
  <2>1. Wanted(inst) \subseteq Blocks /\ Deployed(view.deployments) \subseteq Blocks
    BY DEF Wanted, Deployed
  <2>2. LocalsOK'
    BY <1>2, <2>1, <1>a DEF ListBlocks, LocalsOK, Goto
  <2> QED
    BY <1>2, <2>2, <1>c, <1>e DEF ListBlocks
<1>3. CASE \E b \in Blocks : EnsureBlockSecret(b)
  <2>1. PICK b \in Blocks : EnsureBlockSecret(b)
    BY <1>3
  <2>2. CASE Abort
    BY <2>1, <2>2, <1>c, <1>d DEF EnsureBlockSecret
  <2>3. CASE ~Abort
    <3>1. StoreOK'
      BY <2>1, <2>3, SecretsAre, EnsureSecretLeaves DEF EnsureBlockSecret
    <3>2. LocalsOK'
      BY <2>1, <2>3, <1>a DEF EnsureBlockSecret, LocalsOK, Goto
    <3> QED
      BY <2>1, <3>1, <3>2, <1>c DEF EnsureBlockSecret
  <2> QED
    BY <2>2, <2>3
<1>4. CASE ListWorkerSecrets
  <2>1. LocalsOK'
    BY <1>4, <1>a DEF ListWorkerSecrets, LocalsOK, Goto, FlowSpecs
  <2> QED
    BY <1>4, <2>1, <1>c, <1>e DEF ListWorkerSecrets
<1>5. CASE \E w \in Workers : EnsureWorkerSecret(w)
  <2>1. PICK w \in Workers : EnsureWorkerSecret(w)
    BY <1>5
  <2>2. CASE Abort
    BY <2>1, <2>2, <1>c, <1>d DEF EnsureWorkerSecret
  <2>3. CASE ~Abort
    <3>1. WorkerSecret(cur, w) \in BlockSecrets \cup WorkerSecrets
      BY <1>a, SecretsAre DEF LocalsOK
    <3>2. StoreOK'
      BY <2>1, <2>3, <3>1, EnsureSecretLeaves DEF EnsureWorkerSecret
    <3>3. LocalsOK'
      BY <2>1, <2>3, <1>a DEF EnsureWorkerSecret, LocalsOK
    <3> QED
      BY <2>1, <3>2, <3>3, <1>c DEF EnsureWorkerSecret
  <2> QED
    BY <2>2, <2>3
<1>6. CASE EnsureDeployment
  <2>1. CASE Abort
    BY <1>6, <2>1, <1>c, <1>d DEF EnsureDeployment
  <2>2. CASE ~Abort
    <3>1. api.deployments[cur] \in [workers : SUBSET Workers, pod : Pods]
      BY <1>a, ObjectsHave DEF StoreOK, LocalsOK
    <3>2. Retemplate(api.deployments[cur], inst[cur])
             \in [workers : SUBSET Workers, pod : Pods]
      BY <3>1, <1>a DEF Retemplate, Pods, LocalsOK, FlowSpecs
    <3>3. StoreOK'
      BY <1>6, <2>2, <3>2, <1>a, <1>e, PutDeploymentWrites
         DEF EnsureDeployment, LocalsOK
    <3>4. LocalsOK'
      BY <1>6, <2>2, <1>a DEF EnsureDeployment, LocalsOK, Goto
    <3> QED
      BY <1>6, <3>3, <3>4, <1>c DEF EnsureDeployment
  <2> QED
    BY <2>1, <2>2
<1>7. CASE \E w \in Workers : DeleteWorkerSecret(w)
  <2>1. PICK w \in Workers : DeleteWorkerSecret(w)
    BY <1>7
  <2>2. CASE Abort
    BY <2>1, <2>2, <1>c, <1>d DEF DeleteWorkerSecret
  <2>3. CASE ~Abort
    <3>1. api.secrets \ {WorkerSecret(cur, w)} \in SUBSET (BlockSecrets \cup WorkerSecrets)
      BY <1>a, ObjectsHave DEF StoreOK
    <3>2. StoreOK'
      BY <2>1, <2>3, <3>1, PutSecretsWrites DEF DeleteWorkerSecret
    <3>3. LocalsOK'
      BY <2>1, <2>3, <1>a DEF DeleteWorkerSecret, LocalsOK
    <3> QED
      BY <2>1, <3>2, <3>3, <1>c DEF DeleteWorkerSecret
  <2> QED
    BY <2>2, <2>3
<1>8. CASE \E b \in Blocks : DeleteDeployment(b)
  <2>1. PICK b \in Blocks : DeleteDeployment(b)
    BY <1>8
  <2>2. CASE Abort
    BY <2>1, <2>2, <1>c, <1>d DEF DeleteDeployment
  <2>3. CASE ~Abort
    <3>1. NoDeployment \in [workers : SUBSET Workers, pod : Pods]
      BY DEF NoDeployment, Pods
    <3>2. StoreOK'
      BY <2>1, <2>3, <3>1, PutDeploymentWrites DEF DeleteDeployment
    <3>3. LocalsOK'
      BY <2>1, <2>3, <1>a DEF DeleteDeployment, LocalsOK
    <3> QED
      BY <2>1, <3>2, <3>3, <1>c DEF DeleteDeployment
  <2> QED
    BY <2>2, <2>3
<1>9. CASE UpdateStatus
  <2>1. CASE Abort
    BY <1>9, <2>1, <1>c, <1>d DEF UpdateStatus
  <2>2. CASE ~Abort
    <3> DEFINE status == ComputeStatus(view.flow.status, view.deployments)
               f == [api.flow EXCEPT !.status = status]
    <3>1. api.flow = view.flow /\ Finish /\ (Untouched \/ Put("flow", f))
      BY <1>9, <2>2 DEF UpdateStatus
    <3>2. view.flow \in Flows /\ view.deployments \in Deployments
      BY ObjectsHave DEF TypeOK
    <3>3. f \in Flows
      BY <3>1, <3>2, CountersAre
    <3> HIDE DEF f
    <3>4. StoreOK'
      BY <3>1, <3>3, <1>e, PutFlowWrites
    <3>5. LocalsOK'
      BY <3>1, <1>a, ForgetTypes DEF Finish, LocalsOK
    <3> QED
      BY <1>9, <3>4, <3>5, <1>c DEF UpdateStatus
  <2> QED
    BY <2>1, <2>2
<1> QED
  BY <1>1, <1>2, <1>3, <1>4, <1>5, <1>6, <1>7, <1>8, <1>9 DEF Worker

\* A step of the others keeps the type invariant too.
LEMMA EnvironmentTypes ==
  ASSUME TypeOK,
         CallFails \/ Restart \/ (\E kind \in Kinds : Deliver(kind)) \/ Kubernetes \/ Users
  PROVE  TypeOK'
<1> DEFINE Rest == UNCHANGED <<view, astarte, queued, pc, locals>>
                   /\ spent' \in [Mishaps \cup {"edits"} -> Nat]
<1>a. spent \in [Mishaps \cup {"edits"} -> Nat]
  BY DEF TypeOK
<1>b. \A what \in Mishaps : Mishap(what) => spent' \in [Mishaps \cup {"edits"} -> Nat]
  BY <1>a DEF Mishap, Spend
<1>c. Edited => spent' \in [Mishaps \cup {"edits"} -> Nat]
  BY <1>a DEF Edited, Spend
<1>d. StoreOK' /\ Rest => TypeOK'
  BY DEF StoreOK, TypeOK, locals
<1>e. \A b \in Blocks : api.deployments[b] \in [workers : SUBSET Workers, pod : Pods]
  BY ObjectsHave DEF TypeOK
<1>f. api.flow \in Flows /\ api.secrets \in SUBSET (BlockSecrets \cup WorkerSecrets)
  BY ObjectsHave DEF TypeOK
<1>g. Unobserved /\ UNCHANGED spent => Rest
  BY <1>a DEF Unobserved
<1> HIDE DEF Rest
<1>1. CASE CallFails
  <2>1. spent' \in [Mishaps \cup {"edits"} -> Nat]
    BY <1>1, <1>b DEF CallFails, Mishaps
  <2> QED
    BY <1>1, <2>1, AbortTypes DEF CallFails, TypeOK, StoreOK
<1>2. CASE Restart
  <2>1. spent' \in [Mishaps \cup {"edits"} -> Nat]
    BY <1>2, <1>b DEF Restart, Mishaps
  <2>2. DOMAIN backlog' = Kinds /\ \A k \in Kinds : backlog'[k] \in Seq(Values[k])
    <3>1. \A S : <<>> \in Seq(S)
      OBVIOUS
    <3> QED
      BY <1>2, <3>1 DEF Restart, Nothing
  <2>3. /\ pc' = "idle" /\ inst' \in FlowSpecs /\ todo' = {} /\ existing' = {}
        /\ cur' \in Blocks /\ left' = {} /\ old' = {} /\ queued' \in BOOLEAN
    BY <1>2, ForgetTypes DEF Restart, Fail
  <2>4. api' \in Objects /\ view' \in Objects /\ astarte' \in BOOLEAN
    BY <1>2 DEF Restart, TypeOK
  <2> QED
    BY <2>1, <2>2, <2>3, <2>4 DEF TypeOK
<1>3. CASE \E kind \in Kinds : Deliver(kind)
  <2>1. PICK kind \in Kinds : Deliver(kind)
    BY <1>3
  <2> DEFINE V(k) == Values[k]
  <2>2. \A k \in Kinds : backlog[k] \in Seq(V(k))
    BY DEF TypeOK
  <2>3. DOMAIN backlog = Kinds
    BY DEF TypeOK
  <2>4. backlog[kind] # <<>> /\ backlog' = [backlog EXCEPT ![kind] = Tail(@)]
    BY <2>1 DEF Deliver
  <2> HIDE DEF V
  <2>5. Head(backlog[kind]) \in V(kind) /\ Tail(backlog[kind]) \in Seq(V(kind))
    BY <2>2, <2>4, HeadTailProperties
  <2>6. DOMAIN backlog' = Kinds /\ \A k \in Kinds : backlog'[k] \in Seq(V(k))
    BY <2>2, <2>3, <2>4, <2>5
  <2> DEFINE shown == Head(backlog[kind])
  <2>7. view' = [view EXCEPT ![kind] = shown] /\ shown \in Values[kind]
    BY <2>1, <2>5 DEF Deliver, V
  <2> HIDE DEF shown
  <2>8. view' \in Objects
    BY <2>7 DEF TypeOK, Objects, Values, Kinds
  <2>9. queued' \in BOOLEAN
    BY <2>1 DEF Deliver, TypeOK
  <2>10. DOMAIN backlog' = Kinds /\ \A k \in Kinds : backlog'[k] \in Seq(Values[k])
    BY <2>6 DEF V
  <2> QED
    BY <2>1, <2>8, <2>9, <2>10 DEF Deliver, TypeOK, locals
<1>4. CASE CollectGarbage
  <2>1. Rest
    BY <1>4, <1>g DEF CollectGarbage
  <2>2. NoDeployment \in [workers : SUBSET Workers, pod : Pods]
    BY DEF NoDeployment, Pods
  <2>3. CASE \E b \in Deployed(api.deployments) : PutDeployment(b, NoDeployment)
    BY <2>1, <2>2, <2>3, <1>d, PutDeploymentWrites DEF Deployed
  <2>4. CASE \E s \in api.secrets : PutSecrets(api.secrets \ {s})
    <3>1. PICK s \in api.secrets : PutSecrets(api.secrets \ {s})
      BY <2>4
    <3>2. api.secrets \ {s} \in SUBSET (BlockSecrets \cup WorkerSecrets)
      BY <1>f
    <3> QED
      BY <2>1, <3>1, <3>2, <1>d, PutSecretsWrites
  <2> QED
    BY <1>4, <2>3, <2>4 DEF CollectGarbage
<1>5. CASE \E b \in Blocks : Rollout(b)
  <2>1. PICK b \in Blocks : Rollout(b)
    BY <1>5
  <2>2. PICK pod \in Pods : PutDeployment(b, [api.deployments[b] EXCEPT !.pod = pod])
    BY <2>1 DEF Rollout, Pods
  <2>3. [api.deployments[b] EXCEPT !.pod = pod] \in [workers : SUBSET Workers, pod : Pods]
    BY <1>e
  <2>4. StoreOK'
    BY <2>2, <2>3, PutDeploymentWrites
  <2> QED
    BY <2>1, <2>4, <1>d, <1>g DEF Rollout
<1>6. CASE \E b \in Blocks : PodDies(b)
  <2>1. PICK b \in Blocks : PodDies(b)
    BY <1>6
  <2>2. [api.deployments[b] EXCEPT !.pod = "starting"]
           \in [workers : SUBSET Workers, pod : Pods]
    BY <1>e DEF Pods
  <2>3. StoreOK'
    BY <2>1, <2>2, PutDeploymentWrites DEF PodDies
  <2>4. Rest
    BY <2>1, <1>b DEF PodDies, Unobserved, Rest, Mishaps
  <2> QED
    BY <2>3, <2>4, <1>d
<1>7. CASE \E spec \in Specs : Edit(spec)
  <2>1. PICK spec \in Specs : Edit(spec)
    BY <1>7
  <2>2. [api.flow EXCEPT !.spec = spec] \in Flows
    BY <1>f, FlowAssumption DEF Flows
  <2>3. StoreOK'
    BY <2>1, <2>2, PutFlowWrites DEF Edit
  <2>4. Rest
    BY <2>1, <1>c DEF Edit, Unobserved, Rest
  <2> QED
    BY <2>3, <2>4, <1>d
<1>8. CASE Delete
  <2>1. [api.flow EXCEPT !.here = FALSE] \in Flows
    BY <1>f DEF Flows
  <2>2. StoreOK'
    BY <1>8, <2>1, PutFlowWrites DEF Delete
  <2>3. Rest
    BY <1>8, <1>c DEF Delete, Unobserved, Rest
  <2> QED
    BY <2>2, <2>3, <1>d
<1>9. CASE AstarteComes
  BY <1>9 DEF AstarteComes, TypeOK, locals
<1>10. CASE \E s \in BlockSecrets \cup WorkerSecrets : EraseSecret(s)
  <2>1. PICK s \in BlockSecrets \cup WorkerSecrets : EraseSecret(s)
    BY <1>10
  <2>2. api.secrets \ {s} \in SUBSET (BlockSecrets \cup WorkerSecrets)
    BY <1>f
  <2>3. StoreOK'
    BY <2>1, <2>2, PutSecretsWrites DEF EraseSecret
  <2>4. Rest
    BY <2>1, <1>b DEF EraseSecret, Unobserved, Rest, Mishaps
  <2> QED
    BY <2>3, <2>4, <1>d
<1> QED
  BY <1>1, <1>2, <1>3, <1>4, <1>5, <1>6, <1>7, <1>8, <1>9, <1>10 DEF Kubernetes, Users

\* Objects, caches and what a Reconcile has gathered keep their types.
THEOREM TypeCorrect == Spec => []TypeOK
<1>1. TypeOK /\ [Next]_vars => TypeOK'
  <2>1. TypeOK /\ Next => TypeOK'
    BY WorkerTypes, EnvironmentTypes DEF Next
  <2>2. TypeOK /\ UNCHANGED vars => TypeOK'
    BY DEF TypeOK, vars, locals
  <2> QED
    BY <2>1, <2>2
<1> QED
  BY InitTypes, <1>1, PTL DEF Spec

-----------------------------------------------------------------------------
(* What is mounted is there.                                               *)

\* The part that relates the Deployments to the secrets.
Mounted ==
    \A b \in Deployed(api.deployments) :
       Mounts(b, api.deployments[b].workers) \subseteq api.secrets
Inv == Undisturbed => Mounted /\ BlockUnderway

LEMMA InvIs == MountInv <=> TypeOK /\ Inv
  BY DEF MountInv, Inv, SecretsMounted, Undisturbed, Mounted

\* More secrets mount no less.
LEMMA MoreSecrets ==
  ASSUME Mounted, api'.deployments = api.deployments, api.secrets \subseteq api'.secrets
  PROVE  Mounted'
  BY DEF Mounted, Deployed

\* A Deployment whose pod changes mounts what it did.
LEMMA SameWorkers ==
  ASSUME TypeOK, NEW b \in Blocks, NEW pod \in Pods, Mounted,
         PutDeployment(b, [api.deployments[b] EXCEPT !.pod = pod])
  PROVE  /\ Mounted' /\ api'.secrets = api.secrets /\ api'.flow = api.flow
         /\ \A c \in Blocks : api'.deployments[c].workers = api.deployments[c].workers
<1> DEFINE d == [api.deployments[b] EXCEPT !.pod = pod]
<1>1. api.deployments[b] \in [workers : SUBSET Workers, pod : Pods]
      /\ api.deployments \in Deployments
  BY ObjectsHave DEF TypeOK
<1>2. d \in [workers : SUBSET Workers, pod : Pods] /\ d.workers = api.deployments[b].workers
  BY <1>1
<1> HIDE DEF d
<1>3. api'.deployments = [api.deployments EXCEPT ![b] = d]
      /\ api'.secrets = api.secrets /\ api'.flow = api.flow
  BY <1>2, PutDeploymentWrites DEF d
<1>4. \A c \in Blocks : api'.deployments[c].workers = api.deployments[c].workers
  BY <1>1, <1>2, <1>3 DEF Deployments
<1> QED
  BY <1>3, <1>4 DEF Mounted, Deployed

\* A write of a Deployment that removes it mounts nothing more.
LEMMA OneDeploymentLess ==
  ASSUME TypeOK, NEW b \in Blocks, Mounted, PutDeployment(b, NoDeployment)
  PROVE  /\ Mounted' /\ api'.secrets = api.secrets /\ api'.flow = api.flow
         /\ \A c \in Blocks : api'.deployments[c].workers
                                  \subseteq api.deployments[c].workers
<1>1. api.deployments \in Deployments
  BY ObjectsHave DEF TypeOK
<1>2. NoDeployment \in [workers : SUBSET Workers, pod : Pods]
  BY DEF NoDeployment, Pods
<1>3. api'.deployments = [api.deployments EXCEPT ![b] = NoDeployment]
      /\ api'.secrets = api.secrets /\ api'.flow = api.flow
  BY <1>2, PutDeploymentWrites
<1>4. \A c \in Blocks : \/ c = b /\ api'.deployments[c].workers = {}
                        \/ c # b /\ api'.deployments[c] = api.deployments[c]
  BY <1>1, <1>3 DEF Deployments, NoDeployment
<1> QED
  BY <1>3, <1>4 DEF Mounted, Deployed

\* At rest there is nothing underway.
LEMMA NothingUnderway == Forget => BlockUnderway'
  BY DEF Forget, BlockUnderway

LEMMA AbortInv ==
  ASSUME Inv, Abort, spent'["erased"] = 0 => spent["erased"] = 0
  PROVE  Inv'
<1>1. api' = api /\ BlockUnderway'
  BY NothingUnderway DEF Abort, Fail, Untouched
<1>2. Mounted => Mounted'
  BY <1>1, MoreSecrets
<1> QED
  BY <1>1, <1>2 DEF Inv, Undisturbed

\* The worker writes in an order that keeps what is mounted there.
LEMMA WorkerInv == TypeOK /\ Inv /\ Worker => Inv'
<1> SUFFICES ASSUME TypeOK, Inv, Worker, Undisturbed' PROVE (Mounted /\ BlockUnderway)'
  BY DEF Inv
<1>a. cur \in Blocks /\ left \subseteq Workers /\ old \subseteq Workers
      /\ inst \in FlowSpecs
  BY DEF TypeOK
<1>b. Aside => (spent'["erased"] = 0 => spent["erased"] = 0)
  BY DEF Aside
<1>c. ASSUME Aside, api'.flow.here = api.flow.here PROVE Mounted /\ BlockUnderway
  BY <1>c DEF Inv, Undisturbed, Aside
<1>d. Abort /\ Aside => (Mounted /\ BlockUnderway)'
  BY AbortInv, <1>b DEF Inv
<1>e. ASSUME Aside, Untouched PROVE Mounted' /\ BlockUnderway /\ api' = api
  <2>1. api' = api
    BY <1>e DEF Untouched
  <2> QED
    BY <1>c, <1>e, <2>1, MoreSecrets
<1>1. CASE Start
  <2>1. Aside /\ Untouched
    BY <1>1 DEF Start
  <2>2. CASE Abort
    BY <2>1, <2>2, <1>d
  <2>3. CASE ~Abort
    BY <1>1, <2>1, <2>3, <1>e DEF Start, Abort, BlockUnderway, locals
  <2> QED
    BY <2>2, <2>3
<1>2. CASE ListBlocks
  <2>1. Aside /\ Untouched
    BY <1>2 DEF ListBlocks
  <2> QED
    BY <1>2, <2>1, <1>e DEF ListBlocks, Goto, BlockUnderway
<1>3. CASE \E b \in Blocks : EnsureBlockSecret(b)
  <2>1. PICK b \in Blocks : EnsureBlockSecret(b)
    BY <1>3
  <2>2. Aside
    BY <2>1 DEF EnsureBlockSecret
  <2>3. CASE Abort
    BY <2>2, <2>3, <1>d
  <2>4. CASE ~Abort
    <3>1. EnsureSecret(BlockSecret(b)) /\ pc' = "secrets" /\ cur' = b
      BY <2>1, <2>4 DEF EnsureBlockSecret, Goto
    <3>2. api'.secrets = api.secrets \cup {BlockSecret(b)}
          /\ api'.deployments = api.deployments /\ api'.flow = api.flow
      BY <3>1, SecretsAre, EnsureSecretLeaves
    <3>3. Mounted'
      BY <3>2, <2>2, <1>c, MoreSecrets
    <3> QED
      BY <3>1, <3>2, <3>3 DEF BlockUnderway
  <2> QED
    BY <2>3, <2>4
<1>4. CASE ListWorkerSecrets
  <2>1. Aside /\ Untouched
    BY <1>4 DEF ListWorkerSecrets
  <2> QED
    BY <1>4, <2>1, <1>e DEF ListWorkerSecrets, Goto, BlockUnderway
<1>5. CASE \E w \in Workers : EnsureWorkerSecret(w)
  <2>1. PICK w \in Workers : EnsureWorkerSecret(w)
    BY <1>5
  <2>2. Aside
    BY <2>1 DEF EnsureWorkerSecret
  <2>3. CASE Abort
    BY <2>2, <2>3, <1>d
  <2>4. CASE ~Abort
    <3>1. /\ EnsureSecret(WorkerSecret(cur, w)) /\ pc = "workers"
          /\ left' = left \ {w} /\ old' = old \ {w}
          /\ pc' = pc /\ cur' = cur /\ inst' = inst
      BY <2>1, <2>4 DEF EnsureWorkerSecret
    <3>2. api'.secrets = api.secrets \cup {WorkerSecret(cur, w)}
          /\ api'.deployments = api.deployments /\ api'.flow = api.flow
      BY <3>1, <1>a, SecretsAre, EnsureSecretLeaves
    <3>3. Mounted' /\ BlockUnderway
      BY <3>2, <2>2, <1>c, MoreSecrets
    <3>4. BlockUnderway'
      BY <3>1, <3>2, <3>3 DEF BlockUnderway
    <3> QED
      BY <3>3, <3>4
  <2> QED
    BY <2>3, <2>4
<1>6. CASE EnsureDeployment
  <2>1. Aside
    BY <1>6 DEF EnsureDeployment
  <2>2. CASE Abort
    BY <2>1, <2>2, <1>d
  <2>3. CASE ~Abort
    <3> DEFINE d == Retemplate(api.deployments[cur], inst[cur])
    <3>1. /\ pc = "workers" /\ left = {} /\ pc' = "blocks"
          /\ old' = old /\ cur' = cur /\ inst' = inst
      BY <1>6, <2>3 DEF EnsureDeployment, Goto
    <3>2. \/ api.deployments[cur].workers = inst[cur] /\ Untouched
          \/ PutDeployment(cur, d)
      BY <1>6, <2>3 DEF EnsureDeployment
    <3>3. d.workers = inst[cur] /\ d \in [workers : SUBSET Workers, pod : Pods]
      <4>1. api.deployments[cur] \in [workers : SUBSET Workers, pod : Pods]
        BY <1>a, ObjectsHave DEF TypeOK
      <4> QED
        BY <4>1, <1>a DEF Retemplate, Pods, FlowSpecs
    <3> HIDE DEF d
    <3>4. CASE Untouched /\ api.deployments[cur].workers = inst[cur]
      <4>1. Mounted' /\ BlockUnderway /\ api' = api
        BY <3>4, <2>1, <1>e
      <4> QED
        BY <3>1, <3>4, <4>1 DEF BlockUnderway
    <3>5. CASE PutDeployment(cur, d)
      <4>1. api'.deployments = [api.deployments EXCEPT ![cur] = d]
            /\ api'.secrets = api.secrets /\ api'.flow = api.flow
        BY <3>3, <3>5, <1>a, PutDeploymentWrites
      <4>2. Mounted /\ BlockUnderway
        BY <4>1, <2>1, <1>c
      <4>3. api.deployments \in Deployments
        BY ObjectsHave DEF TypeOK
      <4>4. \A b \in Blocks : \/ b = cur /\ api'.deployments[b].workers = inst[cur]
                              \/ b # cur /\ api'.deployments[b] = api.deployments[b]
        BY <4>1, <4>3, <3>3, <1>a DEF Deployments
      <4>5. Mounts(cur, inst[cur]) \subseteq api.secrets
        BY <4>2, <3>1 DEF BlockUnderway, Mounts
      <4>6. Mounted'
        BY <4>1, <4>2, <4>4, <4>5 DEF Mounted, Deployed
      <4>7. BlockUnderway'
        BY <3>1, <4>2, <4>4, <1>a DEF BlockUnderway
      <4> QED
        BY <4>6, <4>7
    <3> QED
      BY <3>2, <3>4, <3>5
  <2> QED
    BY <2>2, <2>3
<1>7. CASE \E w \in Workers : DeleteWorkerSecret(w)
  <2>1. PICK w \in Workers : DeleteWorkerSecret(w)
    BY <1>7
  <2>2. Aside
    BY <2>1 DEF DeleteWorkerSecret
  <2>3. CASE Abort
    BY <2>2, <2>3, <1>d
  <2>4. CASE ~Abort
    <3> DEFINE s == WorkerSecret(cur, w)
    <3>1. /\ PutSecrets(api.secrets \ {s}) /\ pc = "blocks" /\ pc' = pc
          /\ w \in old /\ old' = old \ {w} /\ cur' = cur
      BY <2>1, <2>4 DEF DeleteWorkerSecret
    <3>2. api.secrets \ {s} \in SUBSET (BlockSecrets \cup WorkerSecrets)
      BY ObjectsHave DEF TypeOK
    <3>3. api'.secrets = api.secrets \ {s}
          /\ api'.deployments = api.deployments /\ api'.flow = api.flow
      BY <3>1, <3>2, PutSecretsWrites
    <3>4. Mounted /\ BlockUnderway
      BY <3>3, <2>2, <1>c
    <3>5. w \notin api.deployments[cur].workers
      BY <3>1, <3>4 DEF BlockUnderway
    <3>6. \A b \in Blocks : s \notin Mounts(b, api.deployments[b].workers)
      BY <3>5, SecretsDiffer, BlockSecretsDiffer DEF Mounts
    <3> HIDE DEF s
    <3>7. Mounted'
      BY <3>3, <3>4, <3>6 DEF Mounted, Deployed
    <3>8. BlockUnderway'
      BY <3>1, <3>3, <3>4 DEF BlockUnderway
    <3> QED
      BY <3>7, <3>8
  <2> QED
    BY <2>3, <2>4
<1>8. CASE \E b \in Blocks : DeleteDeployment(b)
  <2>1. PICK b \in Blocks : DeleteDeployment(b)
    BY <1>8
  <2>2. Aside
    BY <2>1 DEF DeleteDeployment
  <2>3. CASE Abort
    BY <2>2, <2>3, <1>d
  <2>4. CASE ~Abort
    <3>1. /\ PutDeployment(b, NoDeployment) /\ pc = "blocks" /\ pc' = pc
          /\ old' = old /\ cur' = cur
      BY <2>1, <2>4 DEF DeleteDeployment, BlocksEnsured
    <3>2. NoDeployment \in [workers : SUBSET Workers, pod : Pods]
      BY DEF NoDeployment, Pods
    <3>3. api'.flow = api.flow
      BY <3>1, <3>2, PutDeploymentWrites
    <3>4. Mounted /\ BlockUnderway
      BY <3>3, <2>2, <1>c
    <3>5. Mounted' /\ api'.deployments[cur].workers \subseteq api.deployments[cur].workers
      BY <3>1, <3>4, <1>a, OneDeploymentLess
    <3> QED
      BY <3>1, <3>4, <3>5 DEF BlockUnderway
  <2> QED
    BY <2>3, <2>4
<1>9. CASE UpdateStatus
  <2>1. Aside
    BY <1>9 DEF UpdateStatus
  <2>2. CASE Abort
    BY <2>1, <2>2, <1>d
  <2>3. CASE ~Abort
    <3> DEFINE status == ComputeStatus(view.flow.status, view.deployments)
               f == [api.flow EXCEPT !.status = status]
    <3>1. api.flow = view.flow /\ Finish /\ (Untouched \/ Put("flow", f))
      BY <1>9, <2>3 DEF UpdateStatus
    <3>2. view.flow \in Flows /\ view.deployments \in Deployments
      BY ObjectsHave DEF TypeOK
    <3>3. f \in Flows /\ f.here = api.flow.here
      BY <3>1, <3>2, CountersAre DEF Flows
    <3> HIDE DEF f
    <3>4. CASE Untouched
      BY <3>1, <3>4, <2>1, <1>e, NothingUnderway DEF Finish
    <3>5. CASE Put("flow", f)
      <4>1. api'.flow.here = api.flow.here /\ api'.secrets = api.secrets
            /\ api'.deployments = api.deployments
        BY <3>3, <3>5, PutFlowWrites
      <4> QED
        BY <3>1, <4>1, <2>1, <1>c, MoreSecrets, NothingUnderway DEF Finish
    <3> QED
      BY <3>1, <3>4, <3>5
  <2> QED
    BY <2>2, <2>3
<1> QED
  BY <1>1, <1>2, <1>3, <1>4, <1>5, <1>6, <1>7, <1>8, <1>9 DEF Worker

\* Nobody else takes a secret, but for a user and, once the Flow is gone, the
\* garbage collector.
LEMMA EnvironmentInv ==
  ASSUME TypeOK, Inv,
         CallFails \/ Restart \/ (\E kind \in Kinds : Deliver(kind)) \/ Kubernetes \/ Users
  PROVE  Inv'
<1> SUFFICES ASSUME Undisturbed' PROVE (Mounted /\ BlockUnderway)'
  BY DEF Inv
<1>a. spent \in [Mishaps \cup {"edits"} -> Nat]
  BY DEF TypeOK
<1>b. \A what \in Mishaps \ {"erased"} :
         Mishap(what) => spent'["erased"] = spent["erased"]
  BY <1>a DEF Mishap, Spend, Mishaps
<1>c. Edited => spent'["erased"] = spent["erased"]
  BY <1>a DEF Edited, Spend, Mishaps
<1>d. ASSUME api'.flow.here => api.flow.here, spent'["erased"] = spent["erased"]
      PROVE  Mounted /\ BlockUnderway
  BY <1>d DEF Inv, Undisturbed
<1>e. ASSUME UNCHANGED <<pc, locals>>, BlockUnderway, api'.secrets = api.secrets,
             \A b \in Blocks : api'.deployments[b].workers
                                 = api.deployments[b].workers
      PROVE  BlockUnderway'
  BY <1>e DEF BlockUnderway, locals, TypeOK
<1>1. CASE CallFails
  <2>1. spent'["erased"] = spent["erased"]
    BY <1>1, <1>b DEF CallFails, Mishaps
  <2> QED
    BY <1>1, <2>1, AbortInv DEF CallFails, Inv
<1>2. CASE Restart
  <2>1. spent'["erased"] = spent["erased"] /\ api' = api /\ Forget
    BY <1>2, <1>b DEF Restart, Mishaps, Fail
  <2> QED
    BY <2>1, <1>d, NothingUnderway, MoreSecrets
<1>3. CASE \E kind \in Kinds : Deliver(kind)
  <2>1. UNCHANGED <<api, pc, locals, spent>>
    BY <1>3 DEF Deliver
  <2> QED
    BY <2>1, <1>d, <1>e, MoreSecrets
<1>4. CASE CollectGarbage
  <2>1. CASE \E b \in Deployed(api.deployments) : PutDeployment(b, NoDeployment)
    <3>1. PICK b \in Blocks : PutDeployment(b, NoDeployment)
      BY <2>1 DEF Deployed
    <3>2. NoDeployment \in [workers : SUBSET Workers, pod : Pods]
      BY DEF NoDeployment, Pods
    <3> QED
      BY <1>4, <3>1, <3>2, PutDeploymentWrites DEF CollectGarbage, Undisturbed
  <2>2. CASE \E s \in api.secrets : PutSecrets(api.secrets \ {s})
    <3>1. PICK s \in api.secrets : PutSecrets(api.secrets \ {s})
      BY <2>2
    <3>2. api.secrets \ {s} \in SUBSET (BlockSecrets \cup WorkerSecrets)
      BY ObjectsHave DEF TypeOK
    <3> QED
      BY <1>4, <3>1, <3>2, PutSecretsWrites DEF CollectGarbage, Undisturbed
  <2> QED
    BY <1>4, <2>1, <2>2 DEF CollectGarbage
<1>5. CASE \E b \in Blocks : Rollout(b)
  <2>1. PICK b \in Blocks : Rollout(b)
    BY <1>5
  <2>2. PICK pod \in Pods : PutDeployment(b, [api.deployments[b] EXCEPT !.pod = pod])
    BY <2>1 DEF Rollout, Pods
  <2>3. api'.flow = api.flow
    <3>1. [api.deployments[b] EXCEPT !.pod = pod] \in [workers : SUBSET Workers, pod : Pods]
      BY ObjectsHave DEF TypeOK
    <3> QED
      BY <2>2, <3>1, PutDeploymentWrites
  <2>4. UNCHANGED <<pc, locals, spent>>
    BY <2>1 DEF Rollout, Unobserved
  <2>5. Mounted /\ BlockUnderway
    BY <2>3, <2>4, <1>d
  <2> QED
    BY <2>2, <2>4, <2>5, <1>e, SameWorkers
<1>6. CASE \E b \in Blocks : PodDies(b)
  <2>1. PICK b \in Blocks : PodDies(b)
    BY <1>6
  <2>2. PutDeployment(b, [api.deployments[b] EXCEPT !.pod = "starting"])
        /\ UNCHANGED <<pc, locals>> /\ spent'["erased"] = spent["erased"]
    BY <2>1, <1>b DEF PodDies, Unobserved, Mishaps
  <2>3. api'.flow = api.flow
    <3>1. [api.deployments[b] EXCEPT !.pod = "starting"]
             \in [workers : SUBSET Workers, pod : Pods]
      BY ObjectsHave DEF TypeOK, Pods
    <3> QED
      BY <2>2, <3>1, PutDeploymentWrites
  <2>4. Mounted /\ BlockUnderway
    BY <2>2, <2>3, <1>d
  <2>5. "starting" \in Pods
    BY DEF Pods
  <2> QED
    BY <2>2, <2>4, <2>5, <1>e, SameWorkers
<1>7. CASE (\E spec \in Specs : Edit(spec)) \/ Delete
  <2>1. PICK f \in Flows : Put("flow", f) /\ (f.here => api.flow.here)
    <3>1. api.flow \in Flows
      BY ObjectsHave DEF TypeOK
    <3> QED
      BY <1>7, <3>1, FlowAssumption DEF Edit, Delete, Flows
  <2>2. UNCHANGED <<pc, locals>> /\ spent'["erased"] = spent["erased"]
    BY <1>7, <1>c DEF Edit, Delete, Unobserved
  <2>3. api'.flow = f /\ api'.secrets = api.secrets /\ api'.deployments = api.deployments
    BY <2>1, PutFlowWrites
  <2>4. Mounted /\ BlockUnderway
    BY <2>1, <2>2, <2>3, <1>d
  <2> QED
    BY <2>2, <2>3, <2>4, <1>e, MoreSecrets
<1>8. CASE AstarteComes
  <2>1. UNCHANGED <<api, pc, locals, spent>>
    BY <1>8 DEF AstarteComes
  <2> QED
    BY <2>1, <1>d, <1>e, MoreSecrets
<1>9. CASE \E s \in BlockSecrets \cup WorkerSecrets : EraseSecret(s)
  <2>1. spent'["erased"] = spent["erased"] + 1 /\ spent["erased"] \in Nat
    BY <1>9, <1>a DEF EraseSecret, Mishap, Spend, Mishaps
  <2> QED
    BY <2>1 DEF Undisturbed
<1> QED
  BY <1>1, <1>2, <1>3, <1>4, <1>5, <1>6, <1>7, <1>8, <1>9 DEF Kubernetes, Users

LEMMA InitInv == Init => Inv
<1> SUFFICES ASSUME Init PROVE Inv
  OBVIOUS
<1>1. Deployed(api.deployments) = {}
  BY DEF Init, Fresh, Deployed, NoDeployment
<1>2. BlockUnderway
  BY DEF Init, BlockUnderway
<1> QED
  BY <1>1, <1>2 DEF Inv, Mounted

\* EnsureBlock writes the secrets before the Deployment that mounts them and
\* deletes those that it no longer mounts after it, with the list of what it
\* ensured in this very pass: however stale the caches are, whichever calls
\* fail and wherever it is restarted, a Deployment's secrets are there.
THEOREM SecretsStayMounted == Spec => []SecretsMounted
<1>1. TypeOK /\ Inv /\ [Next]_vars => Inv'
  <2>1. TypeOK /\ Inv /\ Next => Inv'
    BY WorkerInv, EnvironmentInv DEF Next
  <2>2. TypeOK /\ Inv /\ UNCHANGED vars => Inv'
    BY DEF Inv, Undisturbed, Mounted, BlockUnderway, Deployed, vars, locals
  <2> QED
    BY <2>1, <2>2
<1>2. TypeOK /\ Inv => SecretsMounted
  BY InvIs DEF MountInv
<1> QED
  BY InitInv, TypeCorrect, <1>1, <1>2, PTL DEF Spec

-----------------------------------------------------------------------------
(* Nothing is left undone.                                                 *)

\* An informer shows what is there once it has shown all it has to.
CaughtUp ==
    \A k \in Kinds :
       IF backlog[k] = <<>> THEN view[k] = api[k]
       ELSE backlog[k][Len(backlog[k])] = api[k]

\* No event will have the Flow looked at again after this Reconcile.
LastPass == ~queued /\ backlog = Nothing /\ api.flow.here

\* A block as the spec has it, but for the secrets of workers that are gone.
Served(b, gone) ==
    /\ api.deployments[b].workers = inst[b]
    /\ BlockSecret(b) \in api.secrets
    /\ \A w \in inst[b] : WorkerSecret(b, w) \in api.secrets
    /\ \A w \in Workers \ gone : WorkerSecret(b, w) \in api.secrets => w \in inst[b]

\* What the last Reconcile has come across, and would have changed.
Underway ==
    /\ inst = api.flow.spec
    /\ pc # "list" =>
          /\ todo \subseteq Wanted(inst)
          /\ Deployed(api.deployments) \subseteq existing \cup (Wanted(inst) \ todo)
          /\ \A b \in Wanted(inst) \ todo :
                \/ pc \in {"secrets", "workers"} /\ b = cur
                \/ Served(b, IF pc = "blocks" /\ b = cur THEN old ELSE {})
    /\ pc \in {"secrets", "workers"} =>
          cur \in Wanted(inst) \ todo /\ BlockSecret(cur) \in api.secrets
    /\ pc = "workers" =>
          /\ left \subseteq inst[cur]
          /\ \A w \in inst[cur] \ left : WorkerSecret(cur, w) \in api.secrets
          /\ \A w \in Workers : WorkerSecret(cur, w) \in api.secrets
                                  => w \in old \cup (inst[cur] \ left)

RestInv ==
    /\ CaughtUp
    /\ LastPass => IF pc = "idle" THEN Reconciled ELSE Underway

\* A write is something that the informer has yet to show, and the last of it.
LEMMA PutShown ==
  ASSUME TypeOK, NEW kind \in Kinds, NEW value, Put(kind, value)
  PROVE  /\ backlog'[kind] # <<>>
         /\ backlog'[kind][Len(backlog'[kind])] = api'[kind]
         /\ \A k \in Kinds : k # kind => /\ api'[k] = api[k]
                                         /\ backlog'[k] = backlog[k]
<1> DEFINE V(k) == Values[k]
           q == backlog[kind]
<1>1. q \in Seq(V(kind)) /\ DOMAIN backlog = Kinds
  BY DEF TypeOK
<1>2. api' = [api EXCEPT ![kind] = value]
      /\ backlog' = [backlog EXCEPT ![kind] = Append(q, value)]
  BY DEF Put
<1> HIDE DEF V, q
<1>3. /\ Append(q, value) # <<>>
      /\ Append(q, value)[Len(Append(q, value))] = value
  BY <1>1, AppendLast
<1>4. /\ backlog'[kind] = Append(q, value)
      /\ \A k \in Kinds : k # kind => backlog'[k] = backlog[k]
  BY <1>1, <1>2
<1>5. api'[kind] = value /\ \A k \in Kinds : k # kind => api'[k] = api[k]
  BY <1>2 DEF TypeOK, Objects, Kinds
<1> QED
  BY <1>3, <1>4, <1>5

\* How a step changes what is shown and what is there.
Moves ==
    \/ UNCHANGED <<api, view, backlog>>
    \/ view' = view /\ \E kind \in Kinds : \E value : Put(kind, value)
    \/ \E kind \in Kinds : Deliver(kind)
    \/ Restart

LEMMA NextMoves == [Next]_vars => Moves
<1> SUFFICES ASSUME [Next]_vars PROVE Moves
  OBVIOUS
<1>0. "flow" \in Kinds /\ "deployments" \in Kinds /\ "secrets" \in Kinds
  BY DEF Kinds
<1>a. \A secrets : PutSecrets(secrets) => \E kind \in Kinds : \E value : Put(kind, value)
  BY <1>0 DEF PutSecrets
<1>b. \A b, d : PutDeployment(b, d) => \E kind \in Kinds : \E value : Put(kind, value)
  BY <1>0 DEF PutDeployment
<1>c. \A flow : Put("flow", flow) => \E kind \in Kinds : \E value : Put(kind, value)
  BY <1>0
<1>d. \A s : EnsureSecret(s) => Untouched \/ \E kind \in Kinds : \E value : Put(kind, value)
  BY <1>a DEF EnsureSecret
<1>1. CASE Worker \/ CallFails
  <2>1. view' = view
    BY <1>1 DEF Worker, Start, ListBlocks, EnsureBlockSecret, ListWorkerSecrets,
                EnsureWorkerSecret, EnsureDeployment, DeleteWorkerSecret,
                DeleteDeployment, UpdateStatus, CallFails, Aside
  <2>2. CASE Start \/ ListBlocks \/ ListWorkerSecrets \/ CallFails
    BY <2>1, <2>2 DEF Start, ListBlocks, ListWorkerSecrets, CallFails, Abort,
                      Untouched, Moves
  <2>3. ASSUME NEW b \in Blocks, EnsureBlockSecret(b) \/ DeleteDeployment(b)
        PROVE  Moves
    BY <2>1, <2>3, <1>b, <1>d DEF EnsureBlockSecret, DeleteDeployment, Abort,
                                  Untouched, Moves
  <2>4. ASSUME NEW w \in Workers, EnsureWorkerSecret(w) \/ DeleteWorkerSecret(w)
        PROVE  Moves
    BY <2>1, <2>4, <1>a, <1>d DEF EnsureWorkerSecret, DeleteWorkerSecret, Abort,
                                  Untouched, Moves
  <2>5. CASE EnsureDeployment \/ UpdateStatus
    BY <2>1, <2>5, <1>b, <1>c DEF EnsureDeployment, UpdateStatus, Abort, Untouched,
                                  Moves
  <2> QED
    BY <1>1, <2>2, <2>3, <2>4, <2>5 DEF Worker
<1>2. CASE Kubernetes
  BY <1>2, <1>a, <1>b DEF Kubernetes, CollectGarbage, Rollout, PodDies, Unobserved, Moves
<1>3. CASE Users
  BY <1>3, <1>a, <1>c DEF Users, Edit, Delete, AstarteComes, EraseSecret, Unobserved,
                          Moves
<1> QED
  BY <1>1, <1>2, <1>3 DEF Next, vars, Moves

LEMMA CaughtUpStep ==
  ASSUME TypeOK, CaughtUp, Moves
  PROVE  CaughtUp'
<1>1. CASE UNCHANGED <<api, view, backlog>>
  BY <1>1 DEF CaughtUp
<1>2. ASSUME view' = view, NEW kind \in Kinds, NEW value, Put(kind, value)
      PROVE  CaughtUp'
  BY <1>2, PutShown DEF CaughtUp
<1>3. ASSUME NEW kind \in Kinds, Deliver(kind)
      PROVE  CaughtUp'
  <2> DEFINE V(k) == Values[k]
             q == backlog[kind]
  <2>1. q \in Seq(V(kind)) /\ DOMAIN backlog = Kinds
    BY DEF TypeOK
  <2>2. /\ q # <<>> /\ api' = api
        /\ view' = [view EXCEPT ![kind] = Head(q)]
        /\ backlog' = [backlog EXCEPT ![kind] = Tail(q)]
    BY <1>3 DEF Deliver
  <2>3. /\ view'[kind] = Head(q) /\ backlog'[kind] = Tail(q)
        /\ \A k \in Kinds : k # kind => view'[k] = view[k] /\ backlog'[k] = backlog[k]
    <3>1. view \in Objects
      BY DEF TypeOK
    <3>2. /\ view'[kind] = Head(q)
          /\ \A k \in Kinds : k # kind => view'[k] = view[k]
      BY <2>2, <3>1 DEF Objects, Kinds
    <3> QED
      BY <2>1, <2>2, <3>2
  <2> HIDE DEF V, q
  <2>4. IF Tail(q) = <<>> THEN Head(q) = q[Len(q)]
        ELSE Tail(q)[Len(Tail(q))] = q[Len(q)]
    BY <2>1, <2>2, TailShifts
  <2>5. q[Len(q)] = api[kind]
    BY <2>2 DEF CaughtUp, q
  <2> QED
    BY <2>2, <2>3, <2>4, <2>5 DEF CaughtUp
<1>4. CASE Restart
  BY <1>4 DEF Restart, Nothing, CaughtUp
<1> QED
  BY <1>1, <1>2, <1>3, <1>4 DEF Moves

\* The last pass finds everything as it is and writes nothing.
LEMMA LastPassSteady ==
  ASSUME TypeOK, CaughtUp, Moves, LastPass'
  PROVE  /\ UNCHANGED <<api, view, backlog>> /\ view = api /\ ~Fail
         /\ \A kind \in Kinds : \A value : ~Put(kind, value)
<1>1. \A k \in Kinds : backlog'[k] = <<>>
  BY DEF LastPass, Nothing
<1>2. \A kind \in Kinds : \A value : ~Put(kind, value)
  BY <1>1, PutShown
<1>3. ~Fail /\ ~\E kind \in Kinds : Deliver(kind)
  BY DEF LastPass, Fail, Deliver, Watched
<1>4. UNCHANGED <<api, view, backlog>>
  BY <1>2, <1>3 DEF Moves, Restart
<1>5. view = api
  <2>1. \A k \in Kinds : view[k] = api[k]
    BY <1>1, <1>4 DEF CaughtUp
  <2> QED
    BY <2>1 DEF TypeOK, Objects, Kinds
<1> QED
  BY <1>2, <1>3, <1>4, <1>5

\* What was done before the last step of the last pass still is.
LEMMA RestStep ==
  ASSUME TypeOK, RestInv, [Next]_vars
  PROVE  RestInv'
<1>a. Moves /\ CaughtUp'
  BY NextMoves, CaughtUpStep DEF RestInv
<1> SUFFICES ASSUME LastPass'
             PROVE  (IF pc = "idle" THEN Reconciled ELSE Underway)'
  BY <1>a DEF RestInv
<1>b. /\ UNCHANGED <<api, view, backlog>> /\ view = api /\ ~Fail
      /\ \A kind \in Kinds : \A value : ~Put(kind, value)
      /\ ~queued' /\ api.flow.here /\ backlog = Nothing
  BY <1>a, LastPassSteady DEF RestInv, LastPass
<1>c. /\ \A secrets : ~PutSecrets(secrets)
      /\ \A b, d : ~PutDeployment(b, d)
      /\ \A flow : ~Put("flow", flow)
  BY <1>b DEF PutSecrets, PutDeployment, Kinds
<1>d. \A s : EnsureSecret(s) => s \in api.secrets
  BY <1>b, <1>c DEF EnsureSecret
<1>e. ~Abort /\ ~CallFails /\ ~Restart
  BY <1>b DEF Abort, CallFails, Restart
<1>f. ~queued => IF pc = "idle" THEN Reconciled ELSE Underway
  BY <1>b DEF RestInv, LastPass
<1>g. \A b \in Blocks : b \in Wanted(inst) <=> inst[b] # {}
  BY DEF Wanted
<1>1. CASE Start
  <2>1. pc' = "list" /\ inst' = api.flow.spec
    BY <1>1, <1>b DEF Start
  <2> QED
    BY <2>1, <1>b DEF Underway
<1>2. CASE ListBlocks
  <2>1. /\ pc = "list" /\ pc' = "blocks" /\ queued' = queued /\ inst' = inst
        /\ todo' = Wanted(inst) /\ existing' = Deployed(api.deployments)
    BY <1>2, <1>b DEF ListBlocks, Goto
  <2> QED
    BY <2>1, <1>b, <1>f DEF Underway
<1>3. ASSUME NEW b \in Blocks, EnsureBlockSecret(b)
      PROVE  pc' # "idle" /\ Underway'
  <2>1. /\ pc = "blocks" /\ pc' = "secrets" /\ queued' = queued /\ old = {}
        /\ b \in todo /\ todo' = todo \ {b} /\ cur' = b
        /\ UNCHANGED <<inst, existing, left, old>>
        /\ BlockSecret(b) \in api.secrets
    BY <1>3, <1>d, <1>e DEF EnsureBlockSecret, Goto
  <2>2. Underway
    BY <2>1, <1>b, <1>f
  <2>3. \A c \in Wanted(inst) \ todo : Served(c, {})
    BY <2>1, <2>2 DEF Underway
  <2>4. \A c \in Blocks : Served(c, {}) => Served(c, {})'
    BY <2>1, <1>b DEF Served
  <2>5. b \in Wanted(inst) \ todo' /\ Wanted(inst) \subseteq Blocks
    BY <2>1, <2>2 DEF Underway, Wanted
  <2>6. \A c \in Wanted(inst) \ todo' : c = b \/ Served(c, {})'
    BY <2>1, <2>3, <2>4, <2>5
  <2> QED
    BY <2>1, <2>2, <2>5, <2>6, <1>b DEF Underway
<1>4. CASE ListWorkerSecrets
  <2>1. /\ pc = "secrets" /\ pc' = "workers" /\ queued' = queued
        /\ old' = {w \in Workers : WorkerSecret(cur, w) \in api.secrets}
        /\ left' = inst[cur] /\ UNCHANGED <<inst, todo, existing, cur>>
    BY <1>4, <1>b DEF ListWorkerSecrets, Goto
  <2>2. Underway
    BY <2>1, <1>b, <1>f
  <2>3. \A c \in Wanted(inst) \ todo : c = cur \/ Served(c, {})
    BY <2>1, <2>2 DEF Underway
  <2>4. \A c \in Blocks : Served(c, {}) => Served(c, {})'
    BY <2>1, <1>b DEF Served
  <2>5. \A c \in Wanted(inst) \ todo : c = cur \/ Served(c, {})'
    BY <2>3, <2>4 DEF Wanted
  <2> QED
    BY <2>1, <2>2, <2>5, <1>b DEF Underway
<1>5. ASSUME NEW w \in Workers, EnsureWorkerSecret(w)
      PROVE  pc' # "idle" /\ Underway'
  <2>1. /\ pc = "workers" /\ w \in left /\ left' = left \ {w} /\ old' = old \ {w}
        /\ UNCHANGED <<queued, pc, inst, todo, existing, cur>>
        /\ WorkerSecret(cur, w) \in api.secrets
    BY <1>5, <1>d, <1>e DEF EnsureWorkerSecret
  <2>2. Underway
    BY <2>1, <1>b, <1>f
  <2>3. \A c \in Wanted(inst) \ todo : c = cur \/ Served(c, {})
    BY <2>1, <2>2 DEF Underway
  <2>4. \A c \in Blocks : Served(c, {}) => Served(c, {})'
    BY <2>1, <1>b DEF Served
  <2>5. \A c \in Wanted(inst) \ todo : c = cur \/ Served(c, {})'
    BY <2>3, <2>4 DEF Wanted
  <2>6. /\ left' \subseteq inst[cur]
        /\ \A v \in inst[cur] \ left' : WorkerSecret(cur, v) \in api.secrets
        /\ \A v \in Workers : WorkerSecret(cur, v) \in api.secrets
                                => v \in old' \cup (inst[cur] \ left')
    BY <2>1, <2>2 DEF Underway
  <2> QED
    BY <2>1, <2>2, <2>5, <2>6, <1>b DEF Underway
<1>6. CASE EnsureDeployment
  <2>1. /\ pc = "workers" /\ left = {} /\ pc' = "blocks" /\ queued' = queued
        /\ api.deployments[cur].workers = inst[cur]
        /\ existing' = existing \ {cur} /\ UNCHANGED <<inst, todo, cur, left, old>>
    BY <1>6, <1>c, <1>e DEF EnsureDeployment, Goto
  <2>2. Underway
    BY <2>1, <1>b, <1>f
  <2>3. \A c \in Wanted(inst) \ todo : c = cur \/ Served(c, {})
    BY <2>1, <2>2 DEF Underway
  <2>4. \A c \in Blocks : Served(c, {}) => Served(c, {})'
    BY <2>1, <1>b DEF Served
  <2>5. Served(cur, old)'
    BY <2>1, <2>2, <1>b DEF Underway, Served
  <2>6. \A c \in Wanted(inst) \ todo : Served(c, IF c = cur THEN old ELSE {})'
    <3>1. \A c \in Wanted(inst) \ todo : c = cur \/ Served(c, {})'
      BY <2>3, <2>4 DEF Wanted
    <3> QED
      BY <2>1, <2>5, <3>1 DEF Served
  <2> QED
    BY <2>1, <2>2, <2>6, <1>b DEF Underway
<1>7. CASE UpdateStatus
  <2>1. /\ pc = "blocks" /\ old = {} /\ todo = {} /\ existing = {} /\ pc' = "idle"
        /\ queued' = queued
        /\ api.flow.status = ComputeStatus(api.flow.status, api.deployments)
    BY <1>7, <1>b, <1>c, <1>e DEF UpdateStatus, BlocksEnsured, Finish, Forget
  <2>2. Underway
    BY <2>1, <1>b, <1>f
  <2>3. inst = api.flow.spec /\ Deployed(api.deployments) \subseteq Wanted(inst)
        /\ \A b \in Wanted(inst) : Served(b, {})
    BY <2>1, <2>2 DEF Underway
  <2>4. \A b \in Blocks : api.deployments[b].workers = inst[b]
    BY <2>3 DEF Served, Wanted, Deployed
  <2>5. Reconciled
    <3>1. \A w \in Workers : \A b \in Wanted(inst) :
             WorkerSecret(b, w) \in api.secrets <=> w \in inst[b]
      BY <2>3 DEF Served
    <3> QED
      BY <2>1, <2>3, <2>4, <3>1 DEF Reconciled, Served
  <2> QED
    BY <2>1, <2>5, <1>b DEF Reconciled
<1>8. CASE \/ \E w \in Workers : DeleteWorkerSecret(w)
           \/ \E b \in Blocks : DeleteDeployment(b)
  BY <1>8, <1>c, <1>e DEF DeleteWorkerSecret, DeleteDeployment
<1>9. CASE Kubernetes
  BY <1>9, <1>c DEF Kubernetes, CollectGarbage, Rollout, PodDies
<1>10. CASE Users \/ UNCHANGED vars \/ \E kind \in Kinds : Deliver(kind)
  <2>1. UNCHANGED <<api, queued, pc, locals>>
    BY <1>10, <1>b, <1>c DEF Users, Edit, Delete, AstarteComes, EraseSecret, vars,
                             Deliver, Watched
  <2> QED
    BY <2>1, <1>b, <1>f DEF locals, Reconciled, Underway, Served
<1> QED
  BY <1>1, <1>2, <1>3, <1>4, <1>5, <1>6, <1>7, <1>8, <1>9, <1>10, <1>e
  DEF Next, Worker

\* Whatever is edited, erased, late or failing, in whatever order: when nothing
\* is left to wake the operator up, the Flow is as its spec has it.
THEOREM RestsOnceReconciled == Spec => []QuietMeansReconciled
<1>1. Init => RestInv
  BY DEF Init, RestInv, CaughtUp, LastPass, Nothing
<1>2. TypeOK /\ RestInv /\ [Next]_vars => RestInv'
  BY RestStep
<1>3. RestInv => QuietMeansReconciled
  BY DEF RestInv, LastPass, Quiet, QuietMeansReconciled
<1> QED
  BY TypeCorrect, <1>1, <1>2, <1>3, PTL DEF Spec

=============================================================================
