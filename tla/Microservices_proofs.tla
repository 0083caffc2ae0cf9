------------------------ MODULE Microservices_proofs ------------------------
(* What holds of Microservices for any components, order, specs and        *)
(* bounds: the types, and once nothing is left to wake the operator up,    *)
(* that what is deployed is what the latest spec asks for, and within its  *)
(* budget.                                                                 *)
EXTENDS Microservices, BacklogLemmas, SequenceTheorems, TLAPS

-----------------------------------------------------------------------------
(* The types.                                                              *)

\* What some spec gives to some component that it wants, or nothing.
Allocations ==
    {{}} \cup {Allocation(p[1], p[2]) :
               p \in {q \in Specs \X Components : Wanted(q[1], q[2])}}

\* A workload as the operator or Kubernetes leaves it.
Deployables ==
    {w \in [here : BOOLEAN, replicas : Nat, resources : Allocations,
            listener : BOOLEAN, pods : Pods] : ~w.here => w.resources = {}}

Values == [astarte |-> Specs, workloads |-> [Components -> Deployables],
           certificate |-> BOOLEAN, autoscaler |-> [here : BOOLEAN, desired : Nat]]
Objects == [astarte : Values.astarte, workloads : Values.workloads,
            certificate : Values.certificate, autoscaler : Values.autoscaler]

StoreOK ==
    /\ api \in Objects
    /\ DOMAIN backlog = Kinds /\ \A k \in Kinds : backlog[k] \in Seq(Values[k])
LocalsOK ==
    /\ pc \in {"idle", "component", "pods", "workload"}
    /\ inst \in Specs /\ rest \in Seq(Components)
    /\ pc \in {"pods", "workload"} => rest # <<>> /\ Wanted(inst, Head(rest))
TypeOK ==
    /\ StoreOK /\ view \in Objects
    /\ pods \in Pods /\ queued \in BOOLEAN
    /\ LocalsOK

\* The objects are those of the four kinds.
LEMMA ObjectsHave ==
  ASSUME NEW o \in Objects
  PROVE  /\ o.astarte \in AstarteSpecs /\ o.astarte \in Specs
         /\ o.workloads \in [Components -> Deployables]
         /\ o.certificate \in BOOLEAN
         /\ o.autoscaler \in [here : BOOLEAN, desired : Nat]
  BY MicroservicesAssumption DEF Objects, Values

LEMMA SpecExists == AnySpec \in Specs
  BY MicroservicesAssumption DEF AnySpec

LEMMA OrderIs == Order \in Seq(Components) /\ Order # <<>> /\ Components # {}
<1>1. Order \in Seq(Services \cup {"vernemq"}) /\ Order # <<>>
  BY MicroservicesAssumption
<1>2. Len(Order) \in Nat /\ DOMAIN Order = 1 .. Len(Order)
  BY <1>1
<1>3. \A i \in 1 .. Len(Order) : Order[i] \in Components
  BY <1>2 DEF Components
<1>4. Order \in Seq(Components)
  <2>1. Order \in [1 .. Len(Order) -> Components]
    <3>1. Order \in [1 .. Len(Order) -> Services \cup {"vernemq"}]
      BY <1>1
    <3> QED
      BY <3>1, <1>3
  <2> QED
    BY <1>2, <2>1
<1>5. Components # {}
  <2>1. Head(Order) \in Components
    BY <1>1, <1>4
  <2> QED
    BY <2>1
<1> QED
  BY <1>1, <1>4, <1>5

\* A write changes the objects of one kind to what is written.
LEMMA PutWrites ==
  ASSUME TypeOK, NEW kind \in Kinds, NEW value \in Values[kind], Put(kind, value)
  PROVE  /\ StoreOK' /\ api'[kind] = value
         /\ \A k \in Kinds : k # kind => api'[k] = api[k]
<1>1. api' = [api EXCEPT ![kind] = value]
      /\ backlog' = [backlog EXCEPT ![kind] = Append(@, value)]
  BY DEF Put
<1>2. api' \in Objects /\ api'[kind] = value
      /\ \A k \in Kinds : k # kind => api'[k] = api[k]
  BY <1>1 DEF TypeOK, StoreOK, Objects, Values, Kinds
<1>3. DOMAIN backlog' = Kinds /\ \A k \in Kinds : backlog'[k] \in Seq(Values[k])
  <2> DEFINE V(k) == Values[k]
  <2>1. \A k \in Kinds : backlog[k] \in Seq(V(k))
    BY DEF TypeOK, StoreOK
  <2>2. value \in V(kind) /\ DOMAIN backlog = Kinds
    BY DEF TypeOK, StoreOK
  <2> HIDE DEF V
  <2>3. Append(backlog[kind], value) \in Seq(V(kind))
    BY <2>1, <2>2
  <2>4. DOMAIN backlog' = Kinds /\ \A k \in Kinds : backlog'[k] \in Seq(V(k))
    BY <1>1, <2>1, <2>2, <2>3
  <2> QED
    BY <2>4 DEF V
<1> QED
  BY <1>2, <1>3 DEF StoreOK

\* A write of one workload.
LEMMA PutWorkloadWrites ==
  ASSUME TypeOK, NEW c \in Components, NEW w \in Deployables, PutWorkload(c, w)
  PROVE  StoreOK'
<1> DEFINE ws == [api.workloads EXCEPT ![c] = w]
<1>1. "workloads" \in Kinds /\ Put("workloads", ws)
  BY DEF Kinds, PutWorkload
<1>2. ws \in Values["workloads"]
  <2>1. api.workloads \in [Components -> Deployables]
    BY ObjectsHave DEF TypeOK, StoreOK
  <2> QED
    BY <2>1 DEF Values
<1> HIDE DEF ws
<1> QED
  BY <1>1, <1>2, PutWrites

LEMMA ForgetTypes == Forget => LocalsOK'
<1>1. <<>> \in Seq(Components)
  OBVIOUS
<1> QED
  BY <1>1, SpecExists DEF Forget, LocalsOK

\* To the next component, or to the end.
LEMMA AdvanceTypes ==
  ASSUME TypeOK, Advance, rest # <<>>
  PROVE  LocalsOK' /\ queued' = queued
<1>1. CASE Len(rest) = 1
  BY <1>1, ForgetTypes DEF Advance
<1>2. CASE Len(rest) # 1
  <2>1. Tail(rest) \in Seq(Components)
    BY DEF TypeOK, LocalsOK
  <2> QED
    BY <1>2, <2>1 DEF Advance, TypeOK, LocalsOK
<1> QED
  BY <1>1, <1>2 DEF Advance

LEMMA AbortTypes ==
  ASSUME TypeOK, Abort
  PROVE  StoreOK' /\ LocalsOK' /\ queued' \in BOOLEAN
  BY ForgetTypes DEF Abort, Fail, Untouched, TypeOK, StoreOK

LEMMA InitTypes == Init => TypeOK
<1> SUFFICES ASSUME Init PROVE TypeOK
  OBVIOUS
<1>1. PICK spec \in Specs :
          api = [astarte |-> spec, workloads |-> [c \in Components |-> NoWorkload],
                 certificate |-> TRUE,
                 autoscaler |-> [here |-> FALSE, desired |-> 0]]
  BY DEF Init
<1>2. NoWorkload \in Deployables
  BY DEF NoWorkload, Deployables, Allocations, Pods
<1>3. api \in Objects
  BY <1>1, <1>2 DEF Objects, Values
<1>4. DOMAIN backlog = Kinds /\ \A k \in Kinds : backlog[k] \in Seq(Values[k])
  <2>1. \A S : <<>> \in Seq(S)
    OBVIOUS
  <2> QED
    BY <2>1 DEF Init, Nothing
<1>5. LocalsOK
  <2>1. <<>> \in Seq(Components)
    OBVIOUS
  <2> QED
    BY <2>1, SpecExists DEF Init, LocalsOK
<1> QED
  BY <1>3, <1>4, <1>5 DEF Init, TypeOK, StoreOK, Pods

\* What CreateOrUpdate makes of a workload is one again.
LEMMA EnsuredIs ==
  ASSUME TypeOK, NEW c \in Components, Wanted(inst, c)
  PROVE  [api.workloads[c] EXCEPT !.here = TRUE, !.replicas = Replicas(inst, c),
                                  !.resources = Allocation(inst, c),
                                  !.listener = Terminates(inst, c)] \in Deployables
<1>1. api.workloads[c] \in Deployables
  BY ObjectsHave DEF TypeOK, StoreOK
<1>2. Allocation(inst, c) \in Allocations
  <2>1. <<inst, c>> \in {q \in Specs \X Components : Wanted(q[1], q[2])}
    BY DEF TypeOK, LocalsOK
  <2> QED
    BY <2>1 DEF Allocations
<1>3. Replicas(inst, c) \in Nat
  <2>1. inst.replicas \in Nat
    BY MicroservicesAssumption DEF TypeOK, LocalsOK, AstarteSpecs
  <2>2. view.autoscaler.desired \in Nat
    BY ObjectsHave DEF TypeOK
  <2> QED
    BY <2>1, <2>2 DEF Replicas
<1>4. Terminates(inst, c) \in BOOLEAN
  <2>1. inst.listener \in BOOLEAN
    BY MicroservicesAssumption DEF TypeOK, LocalsOK, AstarteSpecs
  <2> QED
    BY <2>1 DEF Terminates
<1> QED
  BY <1>1, <1>2, <1>3, <1>4 DEF Deployables

LEMMA WorkerTypes == TypeOK /\ Worker => TypeOK'
<1> SUFFICES ASSUME TypeOK, Worker PROVE TypeOK'
  OBVIOUS
<1>a. StoreOK /\ LocalsOK /\ view \in Objects /\ pods \in Pods /\ queued \in BOOLEAN
  BY DEF TypeOK
<1>b. (StoreOK /\ LocalsOK)' /\ queued' \in BOOLEAN /\ pods' \in Pods /\ view' = view
        => TypeOK'
  BY <1>a DEF TypeOK
<1>c. Untouched => StoreOK'
  BY <1>a DEF Untouched, StoreOK
<1>d. Abort => (StoreOK /\ LocalsOK)' /\ queued' \in BOOLEAN
  BY AbortTypes
<1>e. rest # <<>> /\ Advance => LocalsOK' /\ queued' \in BOOLEAN
  BY <1>a, AdvanceTypes
<1>f. "none" \in Pods
  BY DEF Pods
<1>1. CASE Start
  <2>1. LocalsOK'
    BY <1>1, OrderIs, ObjectsHave, <1>a DEF Start, LocalsOK
  <2> QED
    BY <1>1, <1>a, <1>b, <1>c, <2>1 DEF Start
<1>2. CASE MaybeDeletePods
  <2>1. LocalsOK' /\ queued' = queued
    BY <1>2, <1>a DEF MaybeDeletePods, Goto, locals, LocalsOK
  <2> QED
    BY <1>2, <1>a, <1>b, <1>c, <1>f, <2>1 DEF MaybeDeletePods
<1>3. ASSUME NEW c \in Components, EnsureSupport(c)
      PROVE  TypeOK'
  <2>1. /\ pc' \in {"pods", "workload"} /\ queued' = queued
        /\ inst' = inst /\ rest' = rest
        /\ rest # <<>> /\ c = Head(rest) /\ Wanted(inst, c)
    BY <1>3 DEF EnsureSupport, Goto, locals, At
  <2>2. LocalsOK'
    BY <2>1, <1>a DEF LocalsOK
  <2> QED
    BY <1>3, <1>a, <1>b, <1>c, <2>1, <2>2 DEF EnsureSupport
<1>4. ASSUME NEW c \in Components, DeleteWorkload(c)
      PROVE  TypeOK'
  <2>1. rest # <<>> /\ view' = view
    BY <1>4 DEF DeleteWorkload, Deleting, At
  <2>2. CASE Untouched /\ Advance /\ UNCHANGED pods
    BY <2>1, <2>2, <1>a, <1>b, <1>c, <1>e
  <2>3. CASE Untouched /\ Fail /\ UNCHANGED pods
    BY <2>1, <2>3, <1>a, <1>b, <1>d DEF Abort
  <2>4. CASE /\ PutWorkload(c, NoWorkload) /\ Advance
             /\ pods' = IF c = "vernemq" THEN "none" ELSE pods
    <3>1. NoWorkload \in Deployables
      BY DEF NoWorkload, Deployables, Allocations, Pods
    <3> QED
      BY <2>1, <2>4, <3>1, <1>a, <1>b, <1>e, <1>f, PutWorkloadWrites
  <2> QED
    BY <1>4, <2>2, <2>3, <2>4 DEF DeleteWorkload
<1>5. ASSUME NEW c \in Components, EnsureWorkload(c)
      PROVE  TypeOK'
  <2> DEFINE there == api.workloads[c]
             new == [there EXCEPT !.here = TRUE, !.replicas = Replicas(inst, c),
                                  !.resources = Allocation(inst, c),
                                  !.listener = Terminates(inst, c)]
  <2>1. rest # <<>> /\ view' = view
    BY <1>5 DEF EnsureWorkload, At
  <2>2. CASE Abort /\ UNCHANGED pods
    BY <2>1, <2>2, <1>a, <1>b, <1>d
  <2>3. CASE Untouched /\ Advance /\ pods' \in Pods
    BY <2>1, <2>3, <1>b, <1>c, <1>e
  <2>4. CASE PutWorkload(c, new) /\ Advance /\ pods' \in Pods
    <3>1. new \in Deployables
      <4>1. Wanted(inst, c)
        BY <1>5, <1>a DEF EnsureWorkload, At, LocalsOK
      <4> QED
        BY <4>1, EnsuredIs
    <3> HIDE DEF new
    <3> QED
      BY <2>1, <2>4, <3>1, <1>b, <1>e, PutWorkloadWrites
  <2>5. \/ Abort /\ UNCHANGED pods
        \/ (Untouched \/ PutWorkload(c, new)) /\ Advance /\ pods' \in {"none", pods}
    BY <1>5 DEF EnsureWorkload
  <2> QED
    BY <2>2, <2>3, <2>4, <2>5, <1>a, <1>f
<1> QED
  BY <1>1, <1>2, <1>3, <1>4, <1>5 DEF Worker

\* All others leave the worker's locals alone, or end its Reconcile.
LEMMA EnvironmentTypes ==
  TypeOK /\ (Faults \/ Kubernetes \/ Users \/ \E kind \in Kinds : Deliver(kind)) => TypeOK'
<1> SUFFICES ASSUME TypeOK,
                    Faults \/ Kubernetes \/ Users \/ \E kind \in Kinds : Deliver(kind)
             PROVE  TypeOK'
  OBVIOUS
<1>a. StoreOK /\ LocalsOK /\ view \in Objects /\ pods \in Pods /\ queued \in BOOLEAN
  BY DEF TypeOK
<1>b. (StoreOK /\ LocalsOK)' /\ queued' \in BOOLEAN /\ pods' \in Pods /\ view' = view
        => TypeOK'
  BY <1>a DEF TypeOK
<1>c. Untouched => StoreOK'
  BY <1>a DEF Untouched, StoreOK
<1>d. Abort => (StoreOK /\ LocalsOK)' /\ queued' \in BOOLEAN
  BY AbortTypes
<1>e. UNCHANGED <<pc, locals>> => LocalsOK'
  BY <1>a DEF locals, LocalsOK
<1>f. Unobserved => LocalsOK' /\ queued' \in BOOLEAN /\ view' = view
  BY <1>a, <1>e DEF Unobserved
<1>g. /\ api.workloads \in [Components -> Deployables]
      /\ api.autoscaler \in [here : BOOLEAN, desired : Nat]
  BY <1>a, ObjectsHave DEF StoreOK
<1>h. /\ \A a \in [here : BOOLEAN, desired : Nat] : Put("autoscaler", a) => StoreOK'
      /\ \A b \in BOOLEAN : Put("certificate", b) => StoreOK'
      /\ \A s \in Specs : Put("astarte", s) => StoreOK'
  <2>1. /\ [here : BOOLEAN, desired : Nat] = Values["autoscaler"]
        /\ BOOLEAN = Values["certificate"] /\ Specs = Values["astarte"]
        /\ {"autoscaler", "certificate", "astarte"} \subseteq Kinds
    BY DEF Values, Kinds
  <2> QED
    BY <2>1, PutWrites
<1>1. CASE CallFails
  BY <1>1, <1>a, <1>b, <1>d DEF CallFails
<1>2. CASE Restart
  <2>1. LocalsOK' /\ queued' \in BOOLEAN
    BY <1>2, ForgetTypes DEF Restart, Fail
  <2>2. StoreOK'
    <3>1. \A S : <<>> \in Seq(S)
      OBVIOUS
    <3> QED
      BY <1>2, <1>a, <3>1 DEF Restart, Nothing, StoreOK
  <2>3. view' \in Objects /\ pods' = pods
    BY <1>2, <1>a DEF Restart, StoreOK
  <2> QED
    BY <1>a, <2>1, <2>2, <2>3 DEF TypeOK
<1>3. CASE MetricsLost \/ ReportScale \/ CreateAutoscaler
  <2>1. PICK a \in [here : BOOLEAN, desired : Nat] : Put("autoscaler", a)
    <3>1. /\ [api.autoscaler EXCEPT !.desired = 0] \in [here : BOOLEAN, desired : Nat]
          /\ [here |-> TRUE, desired |-> 0] \in [here : BOOLEAN, desired : Nat]
          /\ \A n \in Nat :
                [api.autoscaler EXCEPT !.desired = n] \in [here : BOOLEAN, desired : Nat]
      BY <1>g
    <3>2. 0 \in Nat /\ Need \in Nat
      BY MicroservicesAssumption
    <3> QED
      BY <1>3, <3>1, <3>2 DEF MetricsLost, ReportScale, CreateAutoscaler
  <2>2. Unobserved /\ pods' = pods
    BY <1>3 DEF MetricsLost, ReportScale, CreateAutoscaler
  <2> QED
    BY <1>a, <1>b, <1>f, <1>h, <2>1, <2>2
<1>4. ASSUME NEW c \in Components, DeletionSwallowed(c) \/ SupportFails(c)
      PROVE  TypeOK'
  <2>1. view' = view /\ pods' = pods /\ rest # <<>>
    BY <1>4 DEF DeletionSwallowed, SupportFails, Deleting, At
  <2>2. CASE DeletionSwallowed(c)
    <3>1. LocalsOK' /\ queued' = queued
      BY <2>1, <2>2, AdvanceTypes DEF DeletionSwallowed
    <3> QED
      BY <2>1, <2>2, <3>1, <1>a, <1>b, <1>c DEF DeletionSwallowed
  <2>3. CASE SupportFails(c)
    BY <2>1, <2>3, <1>a, <1>b, <1>d DEF SupportFails
  <2> QED
    BY <1>4, <2>2, <2>3
<1>5. CASE StartPods
  BY <1>5, <1>a, <1>b, <1>c, <1>f DEF StartPods, Pods
<1>6. CASE ReportPods
  <2>1. [api.workloads["vernemq"] EXCEPT !.pods = pods] \in Deployables
    BY <1>6, <1>a, <1>g DEF ReportPods, Deployables
  <2> QED
    BY <1>6, <2>1, <1>a, <1>b, <1>f, PutWorkloadWrites DEF ReportPods
<1>7. CASE Autoscale
  <2>1. Scaled \in Components /\ Need \in Nat
    BY MicroservicesAssumption
  <2>2. [api.workloads[Scaled] EXCEPT !.replicas = Need] \in Deployables
    BY <1>g, <2>1 DEF Deployables
  <2> QED
    BY <1>7, <2>1, <2>2, <1>a, <1>b, <1>f, PutWorkloadWrites DEF Autoscale
<1>8. CASE Users /\ ~CreateAutoscaler
  <2>1. CASE \E spec \in Specs : Edit(spec)
    BY <2>1, <1>a, <1>b, <1>f, <1>h DEF Edit
  <2>2. CASE EraseCertificate \/ RestoreCertificate
    BY <2>2, <1>a, <1>b, <1>f, <1>h DEF EraseCertificate, RestoreCertificate
  <2>3. ASSUME NEW s \in supports, EraseSupport(s)
        PROVE  TypeOK'
    <3>1. queued' \in BOOLEAN
      BY <2>3, <1>a DEF EraseSupport
    <3> QED
      BY <2>3, <3>1, <1>a, <1>b, <1>e DEF EraseSupport, StoreOK
  <2> QED
    BY <1>8, <2>1, <2>2, <2>3 DEF Users
<1>9. ASSUME NEW kind \in Kinds, Deliver(kind)
      PROVE  TypeOK'
  <2> DEFINE V(k) == Values[k]
  <2>1. /\ DOMAIN backlog = Kinds /\ \A k \in Kinds : backlog[k] \in Seq(V(k))
        /\ backlog[kind] # <<>>
    BY <1>9, <1>a DEF StoreOK, Deliver
  <2>2. view' = [view EXCEPT ![kind] = Head(backlog[kind])]
        /\ backlog' = [backlog EXCEPT ![kind] = Tail(backlog[kind])]
    BY <1>9 DEF Deliver
  <2> HIDE DEF V
  <2>3. Head(backlog[kind]) \in V(kind) /\ Tail(backlog[kind]) \in Seq(V(kind))
    BY <2>1
  <2>4. DOMAIN backlog' = Kinds /\ \A k \in Kinds : backlog'[k] \in Seq(V(k))
    BY <2>1, <2>2, <2>3
  <2>5. view' \in Objects
    BY <1>a, <2>2, <2>3 DEF V, Objects, Values, Kinds
  <2>6. queued' \in BOOLEAN /\ LocalsOK'
    BY <1>9, <1>a, <1>e DEF Deliver
  <2> QED
    BY <1>9, <1>a, <2>4, <2>5, <2>6 DEF Deliver, TypeOK, StoreOK, V
<1> QED
  BY <1>1, <1>2, <1>3, <1>4, <1>5, <1>6, <1>7, <1>8, <1>9 DEF Faults, Kubernetes, Users

\* Every variable keeps its type, whatever the components and the specs.
THEOREM TypeCorrect == Spec => []TypeOK
<1>1. Init => TypeOK
  BY InitTypes
<1>2. TypeOK /\ [Next]_vars => TypeOK'
  <2>1. TypeOK /\ UNCHANGED vars => TypeOK'
    BY DEF vars, locals, TypeOK, StoreOK, LocalsOK
  <2> QED
    BY <2>1, WorkerTypes, EnvironmentTypes DEF Next
<1> QED
  BY <1>1, <1>2, PTL DEF Spec

-----------------------------------------------------------------------------
(* Nothing is left undone.                                                 *)

\* An informer shows what is there once it has shown all it has to.
CaughtUp ==
    \A k \in Kinds :
       IF backlog[k] = <<>> THEN view[k] = api[k]
       ELSE backlog[k][Len(backlog[k])] = api[k]

\* No event will have the Astarte looked at again after this Reconcile.
Observed == {"astarte", "workloads", "certificate"}
LastPass == ~queued /\ \A kind \in Observed : backlog[kind] = <<>>

\* A component as the spec has it.
Mounted(c) == {s \in Support(c) : s.kind \in {"cookie", "config"}}
Settled(c) ==
    LET w == api.workloads[c]
        spec == api.astarte
    IN  IF Wanted(spec, c)
        THEN /\ w.here /\ w.resources = Allocation(spec, c)
             /\ w.listener = Terminates(spec, c)
             /\ c # Scaled => w.replicas = spec.replicas
             /\ Mounted(c) \subseteq supports
        ELSE w.here => c \in swallowed

\* What the last Reconcile has passed by, and would have changed.
Underway ==
    /\ inst = api.astarte
    /\ \A c \in Components : (\E i \in DOMAIN rest : rest[i] = c) \/ Settled(c)
    /\ pc \in {"pods", "workload"} =>
          rest # <<>> /\ Wanted(inst, Head(rest)) /\ Mounted(Head(rest)) \subseteq supports

RestInv ==
    /\ CaughtUp
    /\ LastPass => IF pc = "idle" THEN \A c \in Components : Settled(c) ELSE Underway

\* A write is something that the informer has yet to show, and the last of it.
LEMMA PutShown ==
  ASSUME TypeOK, NEW kind \in Kinds, NEW value, Put(kind, value)
  PROVE  /\ backlog'[kind] # <<>>
         /\ backlog'[kind][Len(backlog'[kind])] = api'[kind]
         /\ \A k \in Kinds : k # kind => /\ api'[k] = api[k]
                                         /\ backlog'[k] = backlog[k]
<1> DEFINE V(k) == Values[k]
           q == backlog[kind]
<1>1. q \in Seq(V(kind)) /\ DOMAIN backlog = Kinds
  BY DEF TypeOK, StoreOK
<1>2. api' = [api EXCEPT ![kind] = value]
      /\ backlog' = [backlog EXCEPT ![kind] = Append(q, value)]
  BY DEF Put
<1> HIDE DEF V, q
<1>3. /\ Append(q, value) # <<>>
      /\ Append(q, value)[Len(Append(q, value))] = value
  BY <1>1, AppendLast
<1>4. /\ backlog'[kind] = Append(q, value)
      /\ \A k \in Kinds : k # kind => backlog'[k] = backlog[k]
  BY <1>1, <1>2
<1>5. api'[kind] = value /\ \A k \in Kinds : k # kind => api'[k] = api[k]
  BY <1>2 DEF TypeOK, StoreOK, Objects, Kinds
<1> QED
  BY <1>3, <1>4, <1>5

\* How a step changes what is shown and what is there.
Moves ==
    \/ UNCHANGED <<api, view, backlog>>
    \/ view' = view /\ \E kind \in Kinds : \E value : Put(kind, value)
    \/ \E kind \in Kinds : Deliver(kind)
    \/ Restart

LEMMA NextMoves == [Next]_vars => Moves
<1> SUFFICES ASSUME [Next]_vars PROVE Moves
  OBVIOUS
<1>a. \A c, w : PutWorkload(c, w) => \E kind \in Kinds : \E value : Put(kind, value)
  BY DEF PutWorkload, Kinds
<1>b. \A value : Put("autoscaler", value) \/ Put("certificate", value)
                   \/ Put("astarte", value)
                 => \E kind \in Kinds : \E v : Put(kind, v)
  BY DEF Kinds
<1>1. CASE Start \/ MaybeDeletePods \/ CallFails
  BY <1>1 DEF Start, MaybeDeletePods, CallFails, Abort, Untouched, Moves
<1>2. ASSUME NEW c \in Components,
             EnsureSupport(c) \/ SupportFails(c) \/ DeletionSwallowed(c)
      PROVE  Moves
  BY <1>2 DEF EnsureSupport, SupportFails, DeletionSwallowed, Abort, Untouched, Moves
<1>3. ASSUME NEW c \in Components, DeleteWorkload(c)
      PROVE  Moves
  BY <1>3, <1>a DEF DeleteWorkload, Untouched, Moves
<1>4. ASSUME NEW c \in Components, EnsureWorkload(c)
      PROVE  Moves
  BY <1>4, <1>a DEF EnsureWorkload, Abort, Untouched, Moves
<1>5. CASE Kubernetes \/ MetricsLost
  BY <1>5, <1>a, <1>b DEF Kubernetes, StartPods, ReportPods, Autoscale, ReportScale,
                          MetricsLost, Unobserved, Untouched, Moves
<1>6. CASE Users
  BY <1>6, <1>b DEF Users, Edit, CreateAutoscaler, EraseCertificate,
                    RestoreCertificate, EraseSupport, Unobserved, Moves
<1> QED
  BY <1>1, <1>2, <1>3, <1>4, <1>5, <1>6 DEF Next, Worker, Faults, vars, Moves

LEMMA CaughtUpStep ==
  ASSUME TypeOK, CaughtUp, Moves
  PROVE  CaughtUp'
<1>1. CASE UNCHANGED <<api, view, backlog>>
  BY <1>1 DEF CaughtUp
<1>2. ASSUME view' = view, NEW kind \in Kinds, NEW value, Put(kind, value)
      PROVE  CaughtUp'
  BY <1>2, PutShown DEF CaughtUp
<1>3. ASSUME NEW kind \in Kinds, Deliver(kind)
      PROVE  CaughtUp'
  <2> DEFINE V(k) == Values[k]
             q == backlog[kind]
  <2>1. q \in Seq(V(kind)) /\ DOMAIN backlog = Kinds
    BY DEF TypeOK, StoreOK
  <2>2. /\ q # <<>> /\ api' = api
        /\ view' = [view EXCEPT ![kind] = Head(q)]
        /\ backlog' = [backlog EXCEPT ![kind] = Tail(q)]
    BY <1>3 DEF Deliver
  <2>3. /\ view'[kind] = Head(q) /\ backlog'[kind] = Tail(q)
        /\ \A k \in Kinds : k # kind => view'[k] = view[k] /\ backlog'[k] = backlog[k]
    <3>1. view \in Objects
      BY DEF TypeOK
    <3>2. /\ view'[kind] = Head(q)
          /\ \A k \in Kinds : k # kind => view'[k] = view[k]
      BY <2>2, <3>1 DEF Objects, Kinds
    <3> QED
      BY <2>1, <2>2, <3>2
  <2> HIDE DEF V, q
  <2>4. IF Tail(q) = <<>> THEN Head(q) = q[Len(q)]
        ELSE Tail(q)[Len(Tail(q))] = q[Len(q)]
    BY <2>1, <2>2, TailShifts
  <2>5. q[Len(q)] = api[kind]
    BY <2>2 DEF CaughtUp, q
  <2> QED
    BY <2>2, <2>3, <2>4, <2>5 DEF CaughtUp
<1>4. CASE Restart
  BY <1>4 DEF Restart, Nothing, CaughtUp
<1> QED
  BY <1>1, <1>2, <1>3, <1>4 DEF Moves

\* The last pass writes nothing but what an autoscaler is told, and all that it
\* sees is as it is.
LEMMA LastPassSteady ==
  ASSUME TypeOK, CaughtUp, Moves, LastPass'
  PROVE  /\ \A k \in Observed : /\ api'[k] = api[k] /\ view[k] = api[k]
                                /\ backlog[k] = <<>>
         /\ ~Fail
         /\ \A k \in Observed : ~Deliver(k) /\ \A value : ~Put(k, value)
<1>1. \A k \in Observed : k \in Kinds /\ k \in Watched /\ backlog'[k] = <<>>
  BY DEF LastPass, Observed, Kinds, Watched
<1>2. \A k \in Observed : \A value : ~Put(k, value)
  BY <1>1, PutShown
<1>3. ~Fail /\ \A k \in Observed : ~Deliver(k)
  BY <1>1 DEF LastPass, Fail, Deliver
<1>4. \A k \in Observed : api'[k] = api[k] /\ backlog'[k] = backlog[k]
  <2>1. CASE UNCHANGED <<api, view, backlog>>
    BY <2>1
  <2>2. ASSUME NEW kind \in Kinds, NEW value, Put(kind, value)
        PROVE  \A k \in Observed : api'[k] = api[k] /\ backlog'[k] = backlog[k]
    BY <2>2, <1>1, <1>2, PutShown
  <2>3. ASSUME NEW kind \in Kinds, Deliver(kind)
        PROVE  \A k \in Observed : api'[k] = api[k] /\ backlog'[k] = backlog[k]
    BY <2>3, <1>1, <1>3 DEF Deliver, TypeOK, StoreOK
  <2>4. ~Restart
    BY <1>3 DEF Restart
  <2> QED
    BY <2>1, <2>2, <2>3, <2>4 DEF Moves
<1>5. \A k \in Observed : view[k] = api[k]
  BY <1>1, <1>4 DEF CaughtUp
<1> QED
  BY <1>1, <1>2, <1>3, <1>4, <1>5

\* What has yet to be deployed, without the component that was.
LEMMA AdvanceLeaves ==
  ASSUME TypeOK, rest # <<>>, Advance
  PROVE  /\ queued' = queued
         /\ \A c \in Components :
               (\E i \in DOMAIN rest : rest[i] = c)
               => c = Head(rest)
                  \/ (pc' = "component" /\ \E i \in DOMAIN rest' : rest'[i] = c)
         /\ pc' = "idle" \/ (pc' = "component" /\ inst' = inst)
         /\ Head(rest) \in Components
<1> DEFINE S == Components
<1>1. rest \in Seq(S)
  BY DEF TypeOK, LocalsOK
<1>2. Head(rest) \in S
  BY <1>1
<1>3. ASSUME NEW i \in DOMAIN rest, rest[i] # Head(rest)
      PROVE  Len(rest) # 1 /\ \E j \in DOMAIN Tail(rest) : rest[i] = Tail(rest)[j]
  <2>1. rest # <<>> /\ S # {}
    BY OrderIs
  <2> HIDE DEF S
  <2>2. \E j \in DOMAIN Tail(rest) : rest[i] = Tail(rest)[j]
    BY <1>1, <1>3, <2>1, TailCovers
  <2>3. Len(rest) # 1
    BY <1>1, <1>3
  <2> QED
    BY <2>2, <2>3
<1>a. ASSUME NEW c, \E i \in DOMAIN rest : rest[i] = c, c # Head(rest)
      PROVE  Len(rest) # 1 /\ \E j \in DOMAIN Tail(rest) : Tail(rest)[j] = c
  <2>1. PICK i \in DOMAIN rest : rest[i] = c
    BY <1>a
  <2>2. PICK j \in DOMAIN Tail(rest) : rest[i] = Tail(rest)[j] /\ Len(rest) # 1
    BY <2>1, <1>a, <1>3, Zenon
  <2> QED
    BY <2>1, <2>2, Zenon
<1>4. CASE Len(rest) = 1
  <2>1. queued' = queued /\ pc' = "idle"
    BY <1>4 DEF Advance, Forget
  <2>2. \A c : (\E i \in DOMAIN rest : rest[i] = c) => c = Head(rest)
    BY <1>a, <1>4, Zenon
  <2> QED
    BY <1>2, <2>1, <2>2
<1>5. CASE Len(rest) # 1
  <2>1. queued' = queued /\ pc' = "component" /\ inst' = inst /\ rest' = Tail(rest)
    BY <1>5 DEF Advance
  <2>2. \A c : (\E i \in DOMAIN rest : rest[i] = c)
                 => c = Head(rest) \/ \E j \in DOMAIN rest' : rest'[j] = c
    BY <1>a, <2>1, Zenon
  <2> QED
    BY <1>2, <2>1, <2>2
<1> QED
  BY <1>4, <1>5

\* A component that was settled still is.
LEMMA StaysSettled ==
  ASSUME NEW c \in Components, Settled(c),
         api'.astarte = api.astarte, api'.workloads = api.workloads,
         Mounted(c) \subseteq supports => Mounted(c) \subseteq supports',
         Wanted(api.astarte, c) \/ (c \in swallowed => c \in swallowed')
  PROVE  Settled(c)'
  BY DEF Settled

\* A step of the last pass that ends with a settled component at the head.
LEMMA UnderwayAdvances ==
  ASSUME TypeOK, Underway, rest # <<>>, Advance,
         NEW h \in Components, h = Head(rest), Settled(h)', inst = api'.astarte,
         \A c \in Components : Settled(c) => Settled(c)'
  PROVE  (IF pc = "idle" THEN \A c \in Components : Settled(c) ELSE Underway)'
<1>1. \A c \in Components : (\E i \in DOMAIN rest : rest[i] = c) \/ Settled(c)'
  BY DEF Underway
<1>2. CASE pc' = "idle"
  <2>1. \A c \in Components : c = h \/ Settled(c)'
    BY <1>1, <1>2, AdvanceLeaves
  <2> QED
    BY <1>2, <2>1
<1>3. CASE pc' = "component" /\ inst' = inst
  <2>1. \A c \in Components : (\E i \in DOMAIN rest' : rest'[i] = c) \/ Settled(c)'
    BY <1>1, AdvanceLeaves
  <2> QED
    BY <1>3, <2>1 DEF Underway
<1> QED
  BY <1>2, <1>3, AdvanceLeaves

\* What was done before the last step of the last pass still is.
LEMMA RestStep ==
  ASSUME TypeOK, RestInv, [Next]_vars
  PROVE  RestInv'
<1>a. Moves /\ CaughtUp'
  BY NextMoves, CaughtUpStep DEF RestInv
<1> DEFINE Resting == IF pc = "idle" THEN \A c \in Components : Settled(c) ELSE Underway
<1> SUFFICES ASSUME LastPass'
             PROVE  Resting'
  BY <1>a DEF RestInv
<1>b. /\ \A k \in Observed : /\ api'[k] = api[k] /\ view[k] = api[k]
                             /\ backlog[k] = <<>>
      /\ ~Fail
      /\ \A k \in Observed : ~Deliver(k) /\ \A value : ~Put(k, value)
  BY <1>a, LastPassSteady DEF RestInv
<1>c. /\ api'.astarte = api.astarte /\ view.astarte = api.astarte
      /\ api'.workloads = api.workloads /\ view.workloads = api.workloads
      /\ api'.certificate = api.certificate
      /\ \A c, w : ~PutWorkload(c, w)
      /\ \A spec : ~Put("astarte", spec)
      /\ \A b : ~Put("certificate", b)
  BY <1>b DEF Observed, PutWorkload
<1>d. ~Abort /\ ~CallFails /\ ~Restart /\ \A c : ~SupportFails(c)
  BY <1>b DEF Abort, CallFails, Restart, SupportFails
<1>e. ~queued => Resting
  BY <1>b DEF RestInv, LastPass
<1>f. ~queued'
  BY DEF LastPass
<1>g. ASSUME supports \subseteq supports', swallowed \subseteq swallowed'
      PROVE  \A c \in Components : Settled(c) => Settled(c)'
  BY <1>g, <1>c, StaysSettled
<1>h. UNCHANGED <<supports, swallowed, pc, locals>> /\ ~queued => Resting'
  BY <1>c, <1>e, <1>g DEF locals, Underway
<1>1. CASE Start
  <2>1. pc' = "component" /\ inst' = api'.astarte /\ rest' = Order
    BY <1>1, <1>c DEF Start
  <2> QED
    BY <2>1 DEF Underway, Components
<1>2. CASE MaybeDeletePods
  <2>1. /\ pc = "pods" /\ pc' = "workload" /\ queued' = queued
        /\ UNCHANGED <<inst, rest, supports, swallowed>>
    BY <1>2 DEF MaybeDeletePods, Goto, locals
  <2>2. Underway
    BY <2>1, <1>e, <1>f
  <2> QED
    BY <2>1, <2>2, <1>c, <1>g DEF Underway
<1>3. ASSUME NEW c \in Components, EnsureSupport(c)
      PROVE  Resting'
  <2>1. /\ pc = "component" /\ pc' \in {"pods", "workload"} /\ queued' = queued
        /\ rest # <<>> /\ c = Head(rest) /\ Wanted(inst, c)
        /\ UNCHANGED <<inst, rest, swallowed>>
        /\ supports' = supports \cup Support(c)
    BY <1>3 DEF EnsureSupport, Goto, locals, At
  <2>2. Underway
    BY <2>1, <1>e, <1>f
  <2>3. Mounted(c) \subseteq supports'
    BY <2>1 DEF Mounted
  <2>4. \A d \in Components : (\E i \in DOMAIN rest' : rest'[i] = d) \/ Settled(d)'
    BY <2>1, <2>2, <1>g DEF Underway
  <2> QED
    BY <2>1, <2>2, <2>3, <2>4, <1>c DEF Underway, Mounted
<1>4. ASSUME NEW c \in Components, DeleteWorkload(c) \/ DeletionSwallowed(c)
      PROVE  Resting'
  <2>1. /\ pc = "component" /\ rest # <<>> /\ c = Head(rest) /\ ~Wanted(inst, c)
        /\ Advance /\ supports' = supports
        /\ \/ ~api.workloads[c].here /\ swallowed' = swallowed
           \/ swallowed' = swallowed \cup {c}
    BY <1>4, <1>b, <1>c DEF DeleteWorkload, DeletionSwallowed, Deleting, At
  <2>2. queued' = queued
    BY <2>1, AdvanceLeaves
  <2>3. Underway
    BY <2>1, <2>2, <1>e, <1>f
  <2>4. inst = api.astarte
    BY <2>3 DEF Underway
  <2>5. Settled(c)'
    BY <2>1, <2>4, <1>c DEF Settled
  <2>6. \A d \in Components : Settled(d) => Settled(d)'
    BY <2>1, <1>g
  <2> QED
    BY <2>1, <2>3, <2>4, <2>5, <2>6, <1>c, UnderwayAdvances
<1>5. ASSUME NEW c \in Components, EnsureWorkload(c)
      PROVE  Resting'
  <2>1. /\ pc = "workload" /\ rest # <<>> /\ c = Head(rest) /\ Advance
        /\ supports' = supports /\ swallowed' = swallowed \ {c}
        /\ [api.workloads[c] EXCEPT !.here = TRUE, !.replicas = Replicas(inst, c),
                                    !.resources = Allocation(inst, c),
                                    !.listener = Terminates(inst, c)]
             = api.workloads[c]
    BY <1>5, <1>c, <1>d DEF EnsureWorkload, At
  <2>2. queued' = queued
    BY <2>1, AdvanceLeaves
  <2>3. Underway
    BY <2>1, <2>2, <1>e, <1>f
  <2>4. inst = api.astarte /\ Wanted(inst, c) /\ Mounted(c) \subseteq supports
    BY <2>1, <2>3 DEF Underway
  <2>5. /\ api.workloads[c].here /\ api.workloads[c].replicas = Replicas(inst, c)
        /\ api.workloads[c].resources = Allocation(inst, c)
        /\ api.workloads[c].listener = Terminates(inst, c)
    <3>1. api.workloads[c] \in Deployables
      BY ObjectsHave DEF TypeOK, StoreOK
    <3> QED
      BY <2>1, <3>1 DEF Deployables
  <2>6. c # Scaled => Replicas(inst, c) = inst.replicas
    BY DEF Replicas
  <2>7. Settled(c)'
    BY <2>1, <2>4, <2>5, <2>6, <1>c DEF Settled, Mounted
  <2>8. \A d \in Components : Settled(d) => Settled(d)'
    <3>1. ASSUME NEW d \in Components, Settled(d), d # c
          PROVE  Settled(d)'
      BY <2>1, <3>1, <1>c, StaysSettled
    <3> QED
      BY <2>7, <3>1
  <2> QED
    BY <2>1, <2>3, <2>4, <2>7, <2>8, <1>c, UnderwayAdvances
<1>6. CASE Kubernetes \/ MetricsLost \/ CreateAutoscaler
  <2>1. UNCHANGED <<supports, swallowed, pc, locals, queued>>
    BY <1>6, <1>c DEF Kubernetes, StartPods, ReportPods, Autoscale, ReportScale,
                      MetricsLost, CreateAutoscaler, Unobserved
  <2> QED
    BY <2>1, <1>f, <1>h
<1>7. CASE UNCHANGED vars \/ \E kind \in Kinds : Deliver(kind)
  <2>1. UNCHANGED <<supports, swallowed, pc, locals>> /\ ~queued
    BY <1>7, <1>f DEF vars, Deliver, TypeOK
  <2> QED
    BY <2>1, <1>h
<1>8. CASE EraseCertificate \/ RestoreCertificate \/ \E spec \in Specs : Edit(spec)
  BY <1>8, <1>c DEF EraseCertificate, RestoreCertificate, Edit
<1>9. ASSUME NEW s \in supports, EraseSupport(s)
      PROVE  Resting'
  <2>1. /\ supports' = supports \ {s} /\ s.kind \notin Watched /\ ~queued
        /\ UNCHANGED <<pc, inst, rest, swallowed>>
    BY <1>9, <1>f DEF EraseSupport, locals
  <2>2. \A c : Mounted(c) \subseteq supports => Mounted(c) \subseteq supports'
    BY <2>1 DEF Mounted, Watched
  <2>3. \A c \in Components : Settled(c) => Settled(c)'
    BY <2>1, <2>2, <1>c, StaysSettled
  <2>4. Resting
    BY <2>1, <1>e
  <2>5. CASE pc = "idle"
    BY <2>1, <2>3, <2>4, <2>5
  <2>6. CASE pc # "idle"
    <3>1. Underway
      BY <2>4, <2>6
    <3>2. \A c \in Components : (\E i \in DOMAIN rest' : rest'[i] = c) \/ Settled(c)'
      BY <2>1, <2>3, <3>1 DEF Underway
    <3>3. Mounted(Head(rest)) \subseteq supports
             => Mounted(Head(rest))' \subseteq supports'
      BY <2>1, <2>2 DEF Mounted
    <3> QED
      BY <2>1, <2>6, <3>1, <3>2, <3>3, <1>c DEF Underway
  <2> QED
    BY <2>5, <2>6
<1> QED
  BY <1>1, <1>2, <1>3, <1>4, <1>5, <1>6, <1>7, <1>8, <1>9, <1>d
  DEF Next, Worker, Faults, Users

\* Nothing is left undone in the last pass, or after it.
LEMMA RestInvariant == Spec => []RestInv
<1>1. Init => RestInv
  <2>1. ASSUME Init PROVE LastPass => FALSE
    BY <2>1 DEF Init, LastPass
  <2> QED
    BY <2>1 DEF Init, RestInv, CaughtUp, Nothing
<1>2. TypeOK /\ RestInv /\ [Next]_vars => RestInv'
  BY RestStep
<1> QED
  BY TypeCorrect, <1>1, <1>2, PTL DEF Spec

LEMMA RestMeansSettled == RestInv /\ Quiet => \A c \in Components : Settled(c)
<1>1. Watched \cap Kinds = Observed
  BY DEF Watched, Kinds, Observed
<1> QED
  BY <1>1 DEF RestInv, LastPass, Quiet

\* Whatever is edited, erased, late or failing, in whatever order the components
\* come: when nothing is left to wake the operator up, what is deployed is what
\* the latest spec asks for.
THEOREM RestsOnceDeployed == Spec => []QuietMeansDeployed
<1>1. RestInv => QuietMeansDeployed
  BY RestMeansSettled DEF QuietMeansDeployed, Settled, Mounted
<1> QED
  BY RestInvariant, <1>1, PTL

-----------------------------------------------------------------------------
(* The budget.                                                             *)

LEMMA ServicesAre ==
  /\ Services = {"appengine", "dashboard", "data_updater_plant", "flow", "housekeeping",
                 "pairing", "realm_management", "trigger_engine"}
  /\ "vernemq" \notin Services
  /\ \A c \in Services : Weight[c] \in Nat
  BY DEF Services, Weight

\* Rounding down only gives less.
LEMMA RoundsDown ==
  ASSUME NEW a \in Nat, NEW b \in Nat \ {0}
  PROVE  a \div b \in Nat /\ b * (a \div b) <= a
  BY SMT

\* Products and sums.
LEMMA Distributes ==
  ASSUME NEW t \in Nat, NEW w \in Nat, NEW n \in Nat, NEW l \in Nat
  PROVE  /\ t * (w * n + l) = w * (t * n) + t * l
         /\ t * (w * n + l) \in Nat /\ t * n \in Nat /\ t * l \in Nat
  BY SMT

\* What the services that count have of their own.
Claimed(deploy) ==
    OverServices(LAMBDA c : IF deploy[c] = "no" THEN 0 ELSE Weight[c])

LEMMA Regroups ==
  ASSUME NEW t \in Nat, NEW n \in Nat, NEW l \in Nat, NEW a \in Nat
  PROVE  /\ a * (t * n) + n * (t * l) = (l + a) * (t * n)
         /\ 100 * (t * n) = (100 * n) * t
  BY SMT

\* What is left over is what they do not have.
LEMMA CountAndRest ==
  ASSUME NEW deploy \in Deploys
  PROVE  /\ Counted(deploy) \in Nat /\ Leftover(deploy) \in 0 .. 100
         /\ \A c \in Services : deploy[c] # "no" => Counted(deploy) # 0
         /\ Claimed(deploy) \in Nat /\ Leftover(deploy) + Claimed(deploy) = 100
  BY ServicesAre DEF Counted, Leftover, Claimed, OverServices, Weight

\* A service that counts gets its weight and an equal part of what is left over.
LEMMA ShareIs ==
  ASSUME NEW t \in Nat, NEW deploy \in Deploys, NEW c \in Services, deploy[c] # "no"
  PROVE  LET n == Counted(deploy)
             l == Leftover(deploy)
         IN  /\ Share(t, deploy, c) \in Nat
             /\ (100 * n) * Share(t, deploy, c) <= Weight[c] * (t * n) + t * l
<1> DEFINE n == Counted(deploy)
           l == Leftover(deploy)
           w == Weight[c]
<1>1. n \in Nat /\ n # 0 /\ l \in Nat /\ w \in Nat
  BY CountAndRest, ServicesAre
<1>2. Share(t, deploy, c) = (t * (w * n + l)) \div (100 * n)
  BY DEF Share
<1> HIDE DEF n, l, w
<1>3. /\ t * (w * n + l) = w * (t * n) + t * l
      /\ t * (w * n + l) \in Nat
  BY <1>1, Distributes
<1>4. 100 * n \in Nat \ {0}
  BY <1>1
<1>5. /\ Share(t, deploy, c) \in Nat
      /\ (100 * n) * Share(t, deploy, c) <= t * (w * n + l)
  <2> DEFINE a == t * (w * n + l)
             b == 100 * n
  <2>1. a \in Nat /\ b \in Nat \ {0} /\ Share(t, deploy, c) = a \div b
    BY <1>2, <1>3, <1>4
  <2> HIDE DEF a, b
  <2>2. Share(t, deploy, c) \in Nat /\ b * Share(t, deploy, c) <= a
    BY <2>1, RoundsDown
  <2> QED
    BY <2>2 DEF a, b
<1> QED
  BY <1>3, <1>5 DEF n, l, w

\* The sum of products with a common factor.
LEMMA SumDistributes ==
  ASSUME NEW m \in Nat, NEW k \in Nat, NEW w \in [Services -> Nat],
         NEW d \in [Services -> Nat]
  PROVE  OverServices(LAMBDA c : w[c] * m + d[c] * k)
           = OverServices(LAMBDA c : w[c]) * m + OverServices(LAMBDA c : d[c]) * k
<1>1. \A c \in Services : w[c] \in Nat /\ d[c] \in Nat
  OBVIOUS
<1>2. ASSUME NEW f \in Nat, NEW a1 \in Nat, NEW a2 \in Nat, NEW a3 \in Nat,
             NEW a4 \in Nat, NEW a5 \in Nat, NEW a6 \in Nat, NEW a7 \in Nat,
             NEW a8 \in Nat
      PROVE  (a1 + a2 + a3 + a4 + a5 + a6 + a7 + a8) * f
               = a1 * f + a2 * f + a3 * f + a4 * f + a5 * f + a6 * f + a7 * f + a8 * f
  BY SMT
<1>3. OverServices(LAMBDA c : w[c]) * m = OverServices(LAMBDA c : w[c] * m)
  BY <1>1, <1>2, ServicesAre DEF OverServices
<1>4. OverServices(LAMBDA c : d[c]) * k = OverServices(LAMBDA c : d[c] * k)
  BY <1>1, <1>2, ServicesAre DEF OverServices
<1>5. \A c \in Services : w[c] * m \in Nat /\ d[c] * k \in Nat
  BY <1>1
<1>6. OverServices(LAMBDA c : w[c] * m + d[c] * k)
        = OverServices(LAMBDA c : w[c] * m) + OverServices(LAMBDA c : d[c] * k)
  BY <1>5, ServicesAre DEF OverServices
<1> QED
  BY <1>3, <1>4, <1>6

\* Sums keep the order of their parts.
LEMMA SumMonotone ==
  ASSUME NEW q \in Nat, NEW got \in [Services -> Nat], NEW e \in [Services -> Nat],
         \A c \in Services : q * got[c] <= e[c]
  PROVE  /\ OverServices(LAMBDA c : got[c]) \in Nat
         /\ q * OverServices(LAMBDA c : got[c]) <= OverServices(LAMBDA c : e[c])
<1>1. \A c \in Services : q * got[c] \in Nat /\ got[c] \in Nat /\ e[c] \in Nat
  OBVIOUS
<1>2. ASSUME NEW a1 \in Nat, NEW a2 \in Nat, NEW a3 \in Nat,
             NEW a4 \in Nat, NEW a5 \in Nat, NEW a6 \in Nat, NEW a7 \in Nat,
             NEW a8 \in Nat
      PROVE  q * (a1 + a2 + a3 + a4 + a5 + a6 + a7 + a8)
               = q * a1 + q * a2 + q * a3 + q * a4 + q * a5 + q * a6 + q * a7 + q * a8
  BY SMT
<1>3. q * OverServices(LAMBDA c : got[c]) = OverServices(LAMBDA c : q * got[c])
  BY <1>1, <1>2, ServicesAre DEF OverServices
<1>4. OverServices(LAMBDA c : q * got[c]) <= OverServices(LAMBDA c : e[c])
  BY <1>1, ServicesAre DEF OverServices
<1>5. OverServices(LAMBDA c : got[c]) \in Nat
  BY <1>1, ServicesAre DEF OverServices
<1> QED
  BY <1>3, <1>4, <1>5

\* Whoever gets no more than these shares, together they get no more than all.
LEMMA SharesFit ==
  ASSUME NEW t \in Nat, NEW deploy \in Deploys, NEW got \in [Services -> Nat],
         \A c \in Services :
            got[c] <= IF deploy[c] = "no" THEN 0 ELSE Share(t, deploy, c)
  PROVE  OverServices(LAMBDA c : got[c]) <= t
<1> DEFINE n == Counted(deploy)
           l == Leftover(deploy)
<1>1. /\ n \in Nat /\ l \in Nat /\ Claimed(deploy) \in Nat /\ l + Claimed(deploy) = 100
      /\ \A c \in Services : deploy[c] # "no" => n # 0
  BY CountAndRest
<1>2. CASE n = 0
  <2>1. \A c \in Services : got[c] = 0
    BY <1>1, <1>2
  <2> QED
    BY <2>1, ServicesAre DEF OverServices
<1>3. CASE n # 0
  <2> DEFINE m == t * n
             k == t * l
             q == 100 * n
             w == [c \in Services |-> IF deploy[c] = "no" THEN 0 ELSE Weight[c]]
             d == [c \in Services |-> IF deploy[c] = "no" THEN 0 ELSE 1]
             e == [c \in Services |-> w[c] * m + d[c] * k]
  <2>1. m \in Nat /\ k \in Nat /\ q \in Nat /\ q # 0
    BY <1>1, <1>3, Distributes
  <2>2. w \in [Services -> Nat] /\ d \in [Services -> Nat]
    BY ServicesAre
  <2>3. /\ OverServices(LAMBDA c : w[c]) = Claimed(deploy)
        /\ OverServices(LAMBDA c : d[c]) = n
    BY ServicesAre DEF OverServices, Claimed, Counted
  <2>4. ASSUME NEW c \in Services
        PROVE  q * got[c] <= w[c] * m + d[c] * k /\ w[c] * m + d[c] * k \in Nat
    <3>1. CASE deploy[c] = "no"
      <4>1. got[c] = 0 /\ w[c] = 0 /\ d[c] = 0
        BY <3>1
      <4> HIDE DEF m, k, q, w, d
      <4> QED
        BY <4>1, <2>1
    <3>2. CASE deploy[c] # "no"
      <4> DEFINE share == Share(t, deploy, c)
      <4>1. /\ share \in Nat /\ q * share <= w[c] * m + k
            /\ got[c] \in Nat /\ got[c] <= share /\ d[c] = 1 /\ w[c] \in Nat
        BY <3>2, ShareIs, ServicesAre
      <4> HIDE DEF m, k, q, w, d, share
      <4>2. q * got[c] <= q * share
        BY <4>1, <2>1
      <4> QED
        BY <4>1, <4>2, <2>1
    <3> QED
      BY <3>1, <3>2
  <2>5. e \in [Services -> Nat] /\ \A c \in Services : q * got[c] <= e[c]
    BY <2>4
  <2>6. OverServices(LAMBDA c : e[c]) = OverServices(LAMBDA c : w[c] * m + d[c] * k)
    <3>1. \A c \in Services : e[c] = w[c] * m + d[c] * k
      OBVIOUS
    <3> HIDE DEF e, m, k, w, d
    <3> QED
      BY <3>1, ServicesAre DEF OverServices
  <2>7. OverServices(LAMBDA c : w[c] * m + d[c] * k) = Claimed(deploy) * m + n * k
    <3> HIDE DEF m, k, w, d, n
    <3>1. OverServices(LAMBDA c : w[c] * m + d[c] * k)
            = OverServices(LAMBDA c : w[c]) * m + OverServices(LAMBDA c : d[c]) * k
      BY <2>1, <2>2, SumDistributes, Zenon
    <3> QED
      BY <2>3, <3>1, Zenon
  <2>8. Claimed(deploy) * m + n * k = q * t
    <3> DEFINE a == Claimed(deploy)
    <3>1. a \in Nat /\ l \in Nat /\ l + a = 100 /\ n \in Nat
      BY <1>1
    <3> HIDE DEF a, n, l
    <3>2. a * (t * n) + n * (t * l) = (l + a) * (t * n)
      BY <3>1, Regroups
    <3>3. (l + a) * (t * n) = 100 * (t * n)
      BY <3>1, Zenon
    <3>4. 100 * (t * n) = (100 * n) * t
      BY <3>1, Regroups
    <3>5. a * (t * n) + n * (t * l) = (100 * n) * t
      BY <3>2, <3>3, <3>4, Zenon
    <3> QED
      BY <3>5, Zenon DEF a
  <2>9. /\ OverServices(LAMBDA c : got[c]) \in Nat
        /\ q * OverServices(LAMBDA c : got[c]) <= OverServices(LAMBDA c : e[c])
    <3> HIDE DEF q, e
    <3> QED
      BY <2>1, <2>5, SumMonotone
  <2>10. q * OverServices(LAMBDA c : got[c]) <= q * t
    BY <2>6, <2>7, <2>8, <2>9
  <2> QED
    <3> DEFINE sum == OverServices(LAMBDA c : got[c])
    <3>1. sum \in Nat /\ q * sum <= q * t /\ q \in Nat /\ q # 0
      BY <2>1, <2>9, <2>10
    <3> HIDE DEF sum, q
    <3>2. sum <= t
      BY <3>1
    <3> QED
      BY <3>2 DEF sum
<1> QED
  BY <1>2, <1>3

\* No limit is below its request, and no request for CPU is above its share.
LEMMA DistributedIs ==
  ASSUME NEW total \in Resources, NEW deploy \in Deploys, NEW c \in Services,
         deploy[c] # "no"
  PROVE  LET given == Distributed(total, deploy, c)
         IN  /\ given.requests.cpu \in Nat
             /\ given.requests.cpu <= Share(total.requests.cpu, deploy, c)
             /\ given.requests.cpu <= given.limits.cpu
             /\ given.requests.memory <= given.limits.memory
<1>1. \A t \in Nat : Share(t, deploy, c) \in Nat
  BY ShareIs
<1>2. /\ total.requests.cpu \in Nat /\ total.requests.memory \in Nat
      /\ total.limits.cpu \in Nat /\ total.limits.memory \in Nat
  BY DEF Resources, Amounts
<1>3. \A s \in Nat : /\ RequestedCPU(s) \in Nat /\ RequestedCPU(s) <= s
                     /\ RequestedMemory(s) \in Nat
  BY MegaAssumption DEF RequestedCPU, RequestedMemory
<1>4. \A a, b \in Nat : Larger(a, b) \in Nat /\ a <= Larger(a, b) /\ b <= Larger(a, b)
  BY DEF Larger
<1> DEFINE cpu == RequestedCPU(Share(total.requests.cpu, deploy, c))
           memory == RequestedMemory(Share(total.requests.memory, deploy, c))
           most == Share(total.limits.cpu, deploy, c)
           most2 == Share(total.limits.memory, deploy, c)
<1>5. /\ Distributed(total, deploy, c).requests.cpu = cpu
      /\ Distributed(total, deploy, c).requests.memory = memory
      /\ Distributed(total, deploy, c).limits.cpu = Larger(Larger(most, cpu), 300)
      /\ Distributed(total, deploy, c).limits.memory = Larger(most2, memory)
  BY DEF Distributed
<1>6. /\ cpu \in Nat /\ cpu <= Share(total.requests.cpu, deploy, c)
      /\ memory \in Nat /\ most \in Nat /\ most2 \in Nat
  BY <1>1, <1>2, <1>3
<1> HIDE DEF cpu, memory, most, most2
<1>7. memory <= Larger(most2, memory)
  BY <1>4, <1>6
<1>8. cpu <= Larger(Larger(most, cpu), 300)
  <2> DEFINE x == Larger(most, cpu)
             y == Larger(x, 300)
  <2>1. x \in Nat /\ cpu <= x
    BY <1>4, <1>6
  <2> HIDE DEF x
  <2>2. y \in Nat /\ x <= y
    BY <2>1 DEF Larger
  <2> HIDE DEF y
  <2>3. cpu <= y
    BY <1>6, <2>1, <2>2
  <2> QED
    BY <2>3 DEF x, y
<1> QED
  BY <1>5, <1>6, <1>7, <1>8

\* Every service that is wanted is counted.
LEMMA WantedCounts ==
  ASSUME NEW spec \in Specs, NEW c \in Components, Wanted(spec, c), c # "vernemq"
  PROVE  c \in Services /\ spec.deploy \in Deploys /\ spec.deploy[c] # "no"
<1>1. spec.deploy \in Deploys
  BY MicroservicesAssumption DEF AstarteSpecs
<1>2. c \in Services
  <2>1. Order \in Seq(Services \cup {"vernemq"})
    BY MicroservicesAssumption
  <2>2. PICK i \in DOMAIN Order : c = Order[i]
    BY DEF Components
  <2>3. Order[i] \in Services \cup {"vernemq"}
    BY <2>1
  <2> QED
    BY <2>2, <2>3
<1> QED
  BY <1>1, <1>2 DEF Wanted

\* What is given to a component is as the distribution makes it.
LEMMA GivenIs ==
  ASSUME NEW w \in Deployables, NEW r \in w.resources
  PROVE  r.requests.cpu <= r.limits.cpu /\ r.requests.memory <= r.limits.memory
<1>1. w.resources \in Allocations
  BY DEF Deployables
<1>2. PICK p \in {q \in Specs \X Components : Wanted(q[1], q[2])} :
         w.resources = Allocation(p[1], p[2])
  BY <1>1 DEF Allocations
<1>3. /\ p[1] \in Specs /\ p[2] \in Components /\ Wanted(p[1], p[2])
      /\ p[2] # "vernemq"
      /\ r \in {Distributed(total, p[1].deploy, p[2]) : total \in p[1].total}
  BY <1>2 DEF Allocation
<1>4. PICK total \in p[1].total : r = Distributed(total, p[1].deploy, p[2])
  BY <1>3
<1>5. total \in Resources
  BY <1>3, <1>4, MicroservicesAssumption DEF AstarteSpecs
<1> QED
  BY <1>3, <1>4, <1>5, WantedCounts, DistributedIs

\* At rest a service requests its share, or nothing.
LEMMA RequestsShare ==
  ASSUME TypeOK, NEW total \in api.astarte.total, NEW c \in Services,
         c \in Components => Settled(c)
  PROVE  /\ total \in Resources /\ api.astarte.deploy \in Deploys
         /\ Requested(c) \in Nat
         /\ Requested(c) <= IF api.astarte.deploy[c] = "no" THEN 0
                            ELSE Share(total.requests.cpu, api.astarte.deploy, c)
<1> DEFINE deploy == api.astarte.deploy
           t == total.requests.cpu
<1>1. /\ api.astarte \in Specs /\ total \in Resources /\ deploy \in Deploys
      /\ \A p \in api.astarte.total : p = total
      /\ t \in Nat
  <2>1. api.astarte \in Specs
    BY ObjectsHave DEF TypeOK, StoreOK
  <2>2. total \in Resources /\ deploy \in Deploys
        /\ \A p \in api.astarte.total : p = total
    BY <2>1, MicroservicesAssumption DEF AstarteSpecs
  <2> QED
    BY <2>1, <2>2 DEF Resources, Amounts
<1>2. deploy[c] # "no" => Share(t, deploy, c) \in Nat
  BY <1>1, ShareIs
<1>3. CASE c \notin Components \ swallowed
  <2>1. Requested(c) = 0
    BY <1>3 DEF Requested
  <2> QED
    BY <2>1, <1>1, <1>2
<1>4. CASE c \in Components \ swallowed /\ ~Wanted(api.astarte, c)
  <2>1. ~api.workloads[c].here /\ api.workloads[c] \in Deployables
    BY <1>4, ObjectsHave DEF Settled, TypeOK, StoreOK
  <2>2. api.workloads[c].resources = {}
    BY <2>1 DEF Deployables
  <2>3. Requested(c) = 0
    BY <2>2 DEF Requested
  <2> QED
    BY <2>3, <1>1, <1>2
<1>5. CASE c \in Components \ swallowed /\ Wanted(api.astarte, c)
  <2> DEFINE given == Distributed(total, deploy, c)
  <2>1. c # "vernemq"
    BY ServicesAre
  <2>2. deploy[c] # "no"
    BY <1>1, <1>5, <2>1, WantedCounts
  <2>3. api.workloads[c].resources = {given}
    <3>1. api.workloads[c].resources = Allocation(api.astarte, c)
      BY <1>5 DEF Settled
    <3> QED
      BY <3>1, <1>1, <2>1 DEF Allocation
  <2>4. Requested(c) = given.requests.cpu
    BY <1>5, <2>3 DEF Requested
  <2> QED
    BY <1>1, <2>2, <2>4, DistributedIs
<1> QED
  BY <1>3, <1>4, <1>5

\* However many services there are, are left out or not set, and whatever is
\* edited, erased, late or failing: at rest they request no more CPU together
\* than is given to all of them, and none has a limit below its request.
THEOREM RestsWithinBudget == Spec => []QuietWithinBudget
<1>1. TypeOK /\ RestInv => QuietWithinBudget
  <2> SUFFICES ASSUME TypeOK, RestInv, Quiet PROVE QuietWithinBudget
    BY DEF QuietWithinBudget
  <2>1. \A c \in Components : Settled(c)
    BY RestMeansSettled
  <2>2. ASSUME NEW total \in api.astarte.total
        PROVE  OverServices(Requested) <= total.requests.cpu
    <3> DEFINE got == [c \in Services |-> Requested(c)]
               deploy == api.astarte.deploy
               t == total.requests.cpu
    <3>1. /\ deploy \in Deploys /\ total \in Resources
          /\ \A c \in Services :
                /\ Requested(c) \in Nat
                /\ Requested(c) <= IF deploy[c] = "no" THEN 0 ELSE Share(t, deploy, c)
      BY <2>1, RequestsShare, ServicesAre
    <3>2. t \in Nat
      BY <3>1 DEF Resources, Amounts
    <3>3. OverServices(Requested) = OverServices(LAMBDA c : got[c])
      <4>1. \A c \in Services : got[c] = Requested(c)
        OBVIOUS
      <4> HIDE DEF got
      <4> QED
        BY <4>1, ServicesAre DEF OverServices
    <3>4. OverServices(LAMBDA c : got[c]) <= t
      <4>1. /\ got \in [Services -> Nat]
            /\ \A c \in Services :
                  got[c] <= IF deploy[c] = "no" THEN 0 ELSE Share(t, deploy, c)
        BY <3>1
      <4> HIDE DEF got, deploy, t
      <4> QED
        BY <3>1, <3>2, <4>1, SharesFit
    <3> QED
      BY <3>3, <3>4
  <2>3. ASSUME NEW c \in Components, NEW r \in api.workloads[c].resources
        PROVE  r.requests.cpu <= r.limits.cpu /\ r.requests.memory <= r.limits.memory
    <3>1. api.workloads[c] \in Deployables
      BY ObjectsHave DEF TypeOK, StoreOK
    <3> QED
      BY <3>1, GivenIs
  <2> QED
    BY <2>2, <2>3 DEF QuietWithinBudget
<1> QED
  BY TypeCorrect, RestInvariant, <1>1, PTL

=============================================================================
