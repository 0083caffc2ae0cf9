----------------------- MODULE DefaultIngress_proofs -----------------------
(* What holds of DefaultIngress for any secrets, specs and bounds: the     *)
(* type invariant, that only what a webhook vetted is served, and that at  *)
(* rest what is served is what the latest specs ask for.                   *)
EXTENDS DefaultIngress, BacklogLemmas, SequenceTheorems, TLAPS

-----------------------------------------------------------------------------
(* Facts about the operators.                                              *)

\* The part of the type invariant that writes can disturb.
StoreOK ==
    /\ api \in Objects
    /\ DOMAIN backlog = Kinds /\ \A k \in Kinds : backlog[k] \in Seq(Values[k])

\* A write changes the objects of one kind to what is written, and adds it to
\* what the informer of that kind will show.
LEMMA PutWrites ==
  ASSUME TypeOK, NEW kind \in Kinds, NEW value \in Values[kind], Put(kind, value)
  PROVE  /\ StoreOK' /\ api'[kind] = value
         /\ backlog'[kind] = Append(backlog[kind], value)
         /\ \A k \in Kinds : k # kind => /\ api'[k] = api[k]
                                         /\ backlog'[k] = backlog[k]
<1>1. api' = [api EXCEPT ![kind] = value]
      /\ backlog' = [backlog EXCEPT ![kind] = Append(@, value)]
  BY DEF Put
<1>2. api' \in Objects /\ api'[kind] = value
      /\ \A k \in Kinds : k # kind => api'[k] = api[k]
  <2>1. api \in Objects /\ kind \in Kinds /\ value \in Values[kind]
    BY DEF TypeOK
  <2>2. CASE kind = "adi"
    BY <1>1, <2>1, <2>2 DEF Objects, Values, Kinds, Children
  <2>3. CASE kind = "astarte"
    BY <1>1, <2>1, <2>3 DEF Objects, Values, Kinds, Children
  <2>4. CASE kind = "configmap"
    BY <1>1, <2>1, <2>4 DEF Objects, Values, Kinds, Children
  <2>5. CASE kind = "ingress"
    BY <1>1, <2>1, <2>5 DEF Objects, Values, Kinds, Children
  <2>6. CASE kind = "service"
    BY <1>1, <2>1, <2>6 DEF Objects, Values, Kinds, Children
  <2> QED
    BY <2>2, <2>3, <2>4, <2>5, <2>6 DEF Kinds, Children
<1>3. /\ DOMAIN backlog' = Kinds /\ \A k \in Kinds : backlog'[k] \in Seq(Values[k])
      /\ backlog'[kind] = Append(backlog[kind], value)
      /\ \A k \in Kinds : k # kind => backlog'[k] = backlog[k]
  <2> DEFINE V(k) == Values[k]
  <2>1. \A k \in Kinds : backlog[k] \in Seq(V(k))
    BY DEF TypeOK
  <2>2. value \in V(kind) /\ DOMAIN backlog = Kinds
    BY DEF TypeOK
  <2> HIDE DEF V
  <2>3. Append(backlog[kind], value) \in Seq(V(kind))
    BY <2>1, <2>2
  <2>4. /\ DOMAIN backlog' = Kinds /\ \A k \in Kinds : backlog'[k] \in Seq(V(k))
        /\ backlog'[kind] = Append(backlog[kind], value)
        /\ \A k \in Kinds : k # kind => backlog'[k] = backlog[k]
    BY <1>1, <2>1, <2>2, <2>3
  <2> QED
    BY <2>4 DEF V
<1> QED
  BY <1>2, <1>3 DEF StoreOK

\* The objects are those of the five kinds.
LEMMA ObjectsHave ==
  ASSUME NEW o \in Objects
  PROVE  /\ o.adi \in ADIs /\ o.adi.spec \in Specs /\ o.adi.here \in BOOLEAN
         /\ o.astarte \in Parents /\ o.astarte.spec \in AstarteSpecs
         /\ o.configmap \in Of(ConfigMaps)
         /\ o.ingress \in Of(Ingresses) /\ o.service \in Of(Services)
  BY DEF Objects, ADIs, Parents

\* An object that is not there is of any kind.
LEMMA NoObject ==
  ASSUME NEW kind \in Children
  PROVE  kind \in Kinds /\ {} \in Values[kind]
  BY DEF Children, Kinds, Values, Of

\* What is built from two specs is of its kind.
LEMMA Built ==
  ASSUME NEW s \in Specs, NEW a \in AstarteSpecs
  PROVE  /\ IngressFor(s, a) \in Ingresses
         /\ ConfigMapFor(s, a) \in ConfigMaps
         /\ ServiceFor(a) \in Services
<1>1. s \in ADISpecs /\ a \in ParentSpecs
  BY DefaultIngressAssumption
<1>2. APIRules(s, a) \subseteq [host : Hosts, backend : Backends]
  BY DEF APIRules, Exposed, APIs, Hosts, Backends
<1>3. DashboardRules(s, a) \subseteq [host : Hosts, backend : Backends]
  BY DEF DashboardRules, DashboardHost, Hosts, Backends
<1>4. TLS(s, a) \subseteq [host : Hosts, secret : Secrets \cup {None}]
  BY <1>1 DEF TLS, Override, Hosts, ADISpecs
<1>5. Annotations(s, a) \in [haproxy : BOOLEAN, redirect : BOOLEAN]
  BY <1>1 DEF Annotations, Secured, ADISpecs, ParentSpecs
<1>6. IngressFor(s, a) \in Ingresses
  BY <1>2, <1>3, <1>4, <1>5 DEF IngressFor, Ingresses
<1>7. ConfigMapFor(s, a) \in ConfigMaps /\ ServiceFor(a) \in Services
  BY <1>1 DEF ConfigMapFor, ServiceFor, ConfigMaps, Services, Secured, ADISpecs,
              ParentSpecs
<1> QED
  BY <1>6, <1>7

\* Giving the objects an address.
LEMMA AddressesEdited ==
  ASSUME NEW specs, NEW os \in Of(specs), NEW address \in Addresses
  PROVE  /\ {[o EXCEPT !.address = address] : o \in os} \in Of(specs)
         /\ \A o \in os : [o EXCEPT !.address = address].spec = o.spec
  BY DEF Of

\* CreateOrUpdate leaves the object as it is or with the spec that was wanted.
LEMMA WriteWrites ==
  ASSUME TypeOK, NEW kind \in Children, NEW specs, Values[kind] = Of(specs),
         api[kind] \in Of(specs),
         NEW spec \in specs, Write(kind, spec)
  PROVE  /\ StoreOK'
         /\ \A o \in api'[kind] : o.spec = spec \/ o \in api[kind]
         /\ \A k \in Kinds : k # kind => /\ api'[k] = api[k]
                                         /\ backlog'[k] = backlog[k]
<1> DEFINE new == {[spec |-> spec, address |-> None]}
           edited == {[o EXCEPT !.spec = spec] : o \in api[kind]}
<1>1. Untouched \/ Put(kind, new) \/ Put(kind, edited)
  BY DEF Write
<1>2. kind \in Kinds /\ new \in Values[kind] /\ edited \in Values[kind]
  <2>1. None \in Addresses
    BY DEF Addresses
  <2>2. new \in Of(specs)
    BY <2>1 DEF Of
  <2>3. edited \in Of(specs)
    BY DEF Of
  <2> QED
    BY <2>2, <2>3 DEF Kinds
<1>3. \A o \in new \cup edited : o.spec = spec
  BY DEF Of
<1> HIDE DEF new, edited
<1>4. CASE Untouched
  BY <1>4 DEF Untouched, TypeOK, StoreOK
<1>5. CASE Put(kind, new)
  BY <1>2, <1>3, <1>5, PutWrites
<1>6. CASE Put(kind, edited)
  BY <1>2, <1>3, <1>6, PutWrites
<1> QED
  BY <1>1, <1>4, <1>5, <1>6

\* Removing an object touches nothing else.
LEMMA RemoveRemoves ==
  ASSUME TypeOK, NEW kind \in Children, NEW next, Remove(kind, next)
  PROVE  /\ StoreOK' /\ api'[kind] \subseteq api[kind]
         /\ \A k \in Kinds : k # kind => /\ api'[k] = api[k]
                                         /\ backlog'[k] = backlog[k]
<1>1. CASE Untouched
  BY <1>1 DEF Untouched, TypeOK, StoreOK
<1>2. CASE Put(kind, {})
  BY <1>2, NoObject, PutWrites
<1> QED
  BY <1>1, <1>2 DEF Remove, Abort

LEMMA AddressTypes ==
  ASSUME NEW specs, NEW os \in Of(specs)
  PROVE  Address(os) \in Addresses
<1>1. os # {} => (CHOOSE o \in os : TRUE) \in os
  OBVIOUS
<1> QED
  BY <1>1 DEF Address, Of, Addresses

\* The status that UpdateStatus writes.
LEMMA StatusTypes ==
  ASSUME TypeOK, NEW adi \in ADIs, NEW read \in ADIs
  PROVE  /\ [adi EXCEPT !.status = ComputeStatus(read)] \in ADIs
         /\ [adi EXCEPT !.status = ComputeStatus(read)].spec = adi.spec
<1>1. Address(view.ingress) \in Addresses /\ Address(view.service) \in Addresses
  BY ObjectsHave, AddressTypes DEF TypeOK
<1>2. ComputeStatus(read) \in [api : Addresses, broker : Addresses]
  BY <1>1 DEF ComputeStatus, Addresses
<1> HIDE DEF ComputeStatus
<1> QED
  BY <1>2 DEF ADIs

-----------------------------------------------------------------------------
(* The type invariant.                                                     *)

\* What the worker has gathered is of its kind.
LocalsOK ==
    /\ queued \in BOOLEAN
    /\ pc \in {"idle", "parent", "noingress", "configmap", "ingress", "broker",
              "status"}
    /\ pc # "idle" => inst \in Specs
    /\ pc \notin {"idle", "parent"} => parent \in AstarteSpecs

LEMMA InitTypes == Init => TypeOK
<1> SUFFICES ASSUME Init PROVE TypeOK
  OBVIOUS
<1>1. PICK s \in Specs, a \in AstarteSpecs : api = Fresh(s, a) /\ vetted = {a}
  BY DEF Init
<1>2. api \in Objects
  BY <1>1 DEF Fresh, Objects, ADIs, Parents, Of, Addresses
<1>3. DOMAIN backlog = Kinds /\ \A k \in Kinds : backlog[k] \in Seq(Values[k])
  <2>1. \A S : <<>> \in Seq(S)
    OBVIOUS
  <2> QED
    BY <2>1 DEF Init, Nothing
<1>4. spent \in [Mishaps \cup {"edits"} -> Nat]
  BY DEF Init
<1> QED
  BY <1>1, <1>2, <1>3, <1>4 DEF Init, TypeOK

\* A step of the worker leaves the caches alone.
LEMMA WorkerTypes == TypeOK /\ Worker => TypeOK'
<1> SUFFICES ASSUME TypeOK, Worker PROVE TypeOK'
  OBVIOUS
<1>a. StoreOK /\ LocalsOK
  BY DEF TypeOK, StoreOK, LocalsOK
<1>b. /\ view.adi.spec \in Specs /\ view.astarte.spec \in AstarteSpecs
      /\ view.adi \in ADIs /\ api.adi \in ADIs
  BY ObjectsHave DEF TypeOK
<1>c. StoreOK' /\ LocalsOK' /\ Aside => TypeOK'
  BY DEF TypeOK, StoreOK, LocalsOK, Aside
<1>d. Abort => StoreOK' /\ LocalsOK'
  BY <1>a DEF Abort, Fail, Forget, Untouched, StoreOK, LocalsOK
<1>e. Untouched => StoreOK'
  BY <1>a DEF Untouched, StoreOK
<1>f. ASSUME NEW label \in {"ingress", "broker", "status"}, Goto(label),
             pc \notin {"idle", "parent"}
      PROVE  LocalsOK'
  BY <1>a, <1>f DEF Goto, LocalsOK
<1>1. CASE Start
  <2>1. LocalsOK'
    BY <1>1, <1>a, <1>b DEF Start, LocalsOK
  <2> QED
    BY <1>1, <2>1, <1>c, <1>e DEF Start
<1>2. CASE GetAstarte
  <2>1. LocalsOK'
    BY <1>2, <1>a, <1>b DEF GetAstarte, LocalsOK, Fail, Forget
  <2> QED
    BY <1>2, <2>1, <1>c, <1>e DEF GetAstarte
<1>3. CASE DeleteIngress
  <2>1. StoreOK'
    BY <1>3, RemoveRemoves DEF DeleteIngress, Children
  <2>2. LocalsOK'
    BY <1>3, <1>d, <1>f DEF DeleteIngress, Remove
  <2> QED
    BY <1>3, <2>1, <2>2, <1>c DEF DeleteIngress
<1>4. CASE EnsureConfigMap
  <2>1. CASE Abort
    BY <1>4, <2>1, <1>c, <1>d DEF EnsureConfigMap
  <2>2. CASE ~Abort
    <3>1. ConfigMapFor(inst, parent) \in ConfigMaps
      BY <1>4, <1>a, Built DEF EnsureConfigMap, LocalsOK
    <3>2. Values["configmap"] = Of(ConfigMaps) /\ api["configmap"] \in Of(ConfigMaps)
      BY ObjectsHave DEF TypeOK, Values
    <3>3. Write("configmap", ConfigMapFor(inst, parent)) => StoreOK'
      BY <3>1, <3>2, WriteWrites DEF Children
    <3>4. StoreOK'
      BY <1>4, <2>2, <3>3, <1>e DEF EnsureConfigMap
    <3>5. LocalsOK'
      BY <1>4, <2>2, <1>f DEF EnsureConfigMap
    <3> QED
      BY <1>4, <3>4, <3>5, <1>c DEF EnsureConfigMap
  <2> QED
    BY <2>1, <2>2
<1>5. CASE EnsureIngress
  <2>1. CASE Abort
    BY <1>5, <2>1, <1>c, <1>d DEF EnsureIngress
  <2>2. CASE ~Abort
    <3>1. IngressFor(inst, parent) \in Ingresses
      BY <1>5, <1>a, Built DEF EnsureIngress, LocalsOK
    <3>2. Values["ingress"] = Of(Ingresses) /\ api["ingress"] \in Of(Ingresses)
      BY ObjectsHave DEF TypeOK, Values
    <3>3. Write("ingress", IngressFor(inst, parent)) => StoreOK'
      BY <3>1, <3>2, WriteWrites DEF Children
    <3>4. StoreOK'
      BY <1>5, <2>2, <3>3, <1>e DEF EnsureIngress
    <3>5. LocalsOK'
      BY <1>5, <2>2, <1>f DEF EnsureIngress
    <3> QED
      BY <1>5, <3>4, <3>5, <1>c DEF EnsureIngress
  <2> QED
    BY <2>1, <2>2
<1>6. CASE EnsureService
  <2>1. CASE Abort
    BY <1>6, <2>1, <1>c, <1>d DEF EnsureService
  <2>2. CASE ~Abort
    <3>1. ServiceFor(parent) \in Services
      BY <1>6, <1>a, Built DEF EnsureService, LocalsOK
    <3>2. Values["service"] = Of(Services) /\ api["service"] \in Of(Services)
      BY ObjectsHave DEF TypeOK, Values
    <3>3. StoreOK'
      BY <1>6, <2>2, <3>1, <3>2, WriteWrites DEF EnsureService, Children
    <3>4. LocalsOK'
      BY <1>6, <2>2, <1>f DEF EnsureService
    <3> QED
      BY <1>6, <3>3, <3>4, <1>c DEF EnsureService
  <2> QED
    BY <2>1, <2>2
<1>7. CASE DeleteService
  <2>1. StoreOK'
    BY <1>7, RemoveRemoves DEF DeleteService, Children
  <2>2. LocalsOK'
    BY <1>7, <1>d, <1>f DEF DeleteService, Remove
  <2> QED
    BY <1>7, <2>1, <2>2, <1>c DEF DeleteService
<1>8. CASE UpdateStatus
  <2>1. CASE Abort
    BY <1>8, <2>1, <1>c, <1>d DEF UpdateStatus
  <2>2. CASE ~Abort
    <3>1. PICK adi \in ADIs : Untouched \/ Put("adi", adi)
      <4>1. [api.adi EXCEPT !.status = ComputeStatus(view.adi)] \in ADIs
        BY <1>b, StatusTypes
      <4> QED
        BY <1>8, <2>2, <4>1 DEF UpdateStatus
    <3>2. "adi" \in Kinds /\ adi \in Values["adi"]
      BY DEF Kinds, Values
    <3>3. StoreOK'
      BY <3>1, <3>2, <1>e, PutWrites
    <3>4. LocalsOK'
      BY <1>8, <2>2, <1>a DEF UpdateStatus, Forget, LocalsOK
    <3> QED
      BY <1>8, <3>3, <3>4, <1>c DEF UpdateStatus
  <2> QED
    BY <2>1, <2>2
<1> QED
  BY <1>1, <1>2, <1>3, <1>4, <1>5, <1>6, <1>7, <1>8 DEF Worker

\* A call that fails, a restart.
LEMMA FailureTypes == TypeOK /\ (CallFails \/ Restart) => TypeOK'
<1> SUFFICES ASSUME TypeOK, CallFails \/ Restart PROVE TypeOK'
  OBVIOUS
<1>1. spent' \in [Mishaps \cup {"edits"} -> Nat]
  BY DEF CallFails, Restart, Mishap, Spend, TypeOK, Mishaps
<1>2. LocalsOK'
  BY DEF CallFails, Restart, Abort, Fail, Forget, LocalsOK
<1>3. CASE CallFails
  BY <1>1, <1>2, <1>3 DEF CallFails, Abort, Untouched, TypeOK, LocalsOK
<1>4. CASE Restart
  <2>1. DOMAIN backlog' = Kinds /\ \A k \in Kinds : backlog'[k] \in Seq(Values[k])
    <3>1. \A S : <<>> \in Seq(S)
      OBVIOUS
    <3> QED
      BY <1>4, <3>1 DEF Restart, Nothing
  <2> QED
    BY <1>1, <1>2, <1>4, <2>1 DEF Restart, TypeOK, LocalsOK
<1> QED
  BY <1>3, <1>4

\* What an informer shows next, and what it keeps.
LEMMA DeliverShows ==
  ASSUME TypeOK, NEW kind \in Kinds, Deliver(kind)
  PROVE  /\ backlog[kind] # <<>> /\ view' \in Objects
         /\ view'[kind] = Head(backlog[kind])
         /\ backlog'[kind] = Tail(backlog[kind])
         /\ DOMAIN backlog' = Kinds /\ \A k \in Kinds : backlog'[k] \in Seq(Values[k])
         /\ \A k \in Kinds : k # kind => /\ view'[k] = view[k]
                                         /\ backlog'[k] = backlog[k]
<1> DEFINE V(k) == Values[k]
           new == Head(backlog[kind])
<1>1. DOMAIN backlog = Kinds /\ \A k \in Kinds : backlog[k] \in Seq(V(k))
  BY DEF TypeOK
<1>2. /\ backlog[kind] # <<>>
      /\ view' = [view EXCEPT ![kind] = new]
      /\ backlog' = [backlog EXCEPT ![kind] = Tail(@)]
  BY DEF Deliver
<1> HIDE DEF V
<1>3. new \in V(kind) /\ Tail(backlog[kind]) \in Seq(V(kind))
  BY <1>1, <1>2, HeadTailProperties
<1>4. /\ backlog'[kind] = Tail(backlog[kind])
      /\ DOMAIN backlog' = Kinds /\ \A k \in Kinds : backlog'[k] \in Seq(V(k))
      /\ \A k \in Kinds : k # kind => backlog'[k] = backlog[k]
  BY <1>1, <1>2, <1>3
<1>5. new \in Values[kind] /\ \A k \in Kinds : backlog'[k] \in Seq(Values[k])
  BY <1>3, <1>4 DEF V
<1> HIDE DEF new
<1>6. view \in Objects
  BY DEF TypeOK
<1>7. view' \in Objects /\ view'[kind] = new
      /\ \A k \in Kinds : k # kind => view'[k] = view[k]
  <2>1. CASE kind = "adi"
    BY <1>2, <1>5, <1>6, <2>1 DEF Objects, Values, Kinds, Children
  <2>2. CASE kind = "astarte"
    BY <1>2, <1>5, <1>6, <2>2 DEF Objects, Values, Kinds, Children
  <2>3. CASE kind = "configmap"
    BY <1>2, <1>5, <1>6, <2>3 DEF Objects, Values, Kinds, Children
  <2>4. CASE kind = "ingress"
    BY <1>2, <1>5, <1>6, <2>4 DEF Objects, Values, Kinds, Children
  <2>5. CASE kind = "service"
    BY <1>2, <1>5, <1>6, <2>5 DEF Objects, Values, Kinds, Children
  <2> QED
    BY <2>1, <2>2, <2>3, <2>4, <2>5 DEF Kinds, Children
<1> QED
  BY <1>2, <1>4, <1>5, <1>7 DEF new

LEMMA DeliverTypes == TypeOK /\ (\E kind \in Kinds : Deliver(kind)) => TypeOK'
<1> SUFFICES ASSUME TypeOK, NEW kind \in Kinds, Deliver(kind) PROVE TypeOK'
  OBVIOUS
<1>1. queued' \in BOOLEAN
  BY DEF Deliver, TypeOK, Wakes
<1> QED
  BY <1>1, DeliverShows DEF Deliver, TypeOK

\* What Kubernetes and the users write.
LEMMA OutsideWrites ==
  ASSUME TypeOK, Kubernetes \/ Users
  PROVE  \E kind \in Kinds : \E value \in Values[kind] : Put(kind, value)
<1>a. /\ \A k \in Kinds : k \in {"adi", "astarte"} \cup Children
      /\ "adi" \in Kinds /\ Values["adi"] = ADIs
      /\ "astarte" \in Kinds /\ Values["astarte"] = Parents
  BY DEF Kinds, Values
<1>b. /\ api.adi \in ADIs /\ api.astarte \in Parents
  BY ObjectsHave DEF TypeOK
<1>1. CASE CollectGarbage
  BY <1>1, NoObject DEF CollectGarbage, Owned, Children
<1>2. CASE \E kind \in {"ingress", "service"} : Expose(kind)
  <2>1. PICK kind \in {"ingress", "service"} : Expose(kind)
    BY <1>2
  <2>2. PICK specs : Values[kind] = Of(specs) /\ api[kind] \in Of(specs)
    BY ObjectsHave DEF TypeOK, Values
  <2> DEFINE new == {[o EXCEPT !.address = "address"] : o \in api[kind]}
  <2>3. new \in Values[kind] /\ kind \in Kinds
    BY <2>2, AddressesEdited DEF Addresses, Kinds, Children
  <2>4. Put(kind, new)
    BY <2>1 DEF Expose
  <2> QED
    BY <2>3, <2>4
<1>3. CASE \E spec \in Specs : EditADI(spec)
  <2>1. PICK spec \in Specs : EditADI(spec)
    BY <1>3
  <2>2. [api.adi EXCEPT !.spec = spec] \in ADIs
    BY <1>b DEF ADIs
  <2> QED
    BY <2>1, <2>2, <1>a DEF EditADI
<1>4. CASE DeleteADI
  <2>1. [api.adi EXCEPT !.here = FALSE] \in ADIs
    BY <1>b DEF ADIs
  <2> QED
    BY <1>4, <2>1, <1>a DEF DeleteADI
<1>5. CASE \E spec \in AstarteSpecs : ChangeAstarte([here |-> TRUE, spec |-> spec])
  BY <1>5, <1>a DEF ChangeAstarte, Parents
<1>6. CASE ChangeAstarte([api.astarte EXCEPT !.here = FALSE])
  <2>1. [api.astarte EXCEPT !.here = FALSE] \in Parents
    BY <1>b DEF Parents
  <2> QED
    BY <1>6, <2>1, <1>a DEF ChangeAstarte
<1>7. CASE \E kind \in Children : Erase(kind)
  BY <1>7, NoObject DEF Erase
<1> QED
  BY <1>1, <1>2, <1>3, <1>4, <1>5, <1>6, <1>7 DEF Kubernetes, Users

LEMMA OutsideTypes == TypeOK /\ (Kubernetes \/ Users) => TypeOK'
<1> SUFFICES ASSUME TypeOK, Kubernetes \/ Users PROVE TypeOK'
  OBVIOUS
<1>1. StoreOK'
  BY OutsideWrites, PutWrites
<1>2. Unobserved
  BY DEF Kubernetes, Users, CollectGarbage, Expose, EditADI, DeleteADI,
         ChangeAstarte, Erase
<1>3. vetted' \subseteq AstarteSpecs
  <2>1. view.astarte.spec \in AstarteSpecs
    BY ObjectsHave DEF TypeOK
  <2> QED
    BY <2>1 DEF Kubernetes, Users, CollectGarbage, Expose, EditADI, DeleteADI,
                ChangeAstarte, Erase, Admitted, TypeOK
<1>4. spent' \in [Mishaps \cup {"edits"} -> Nat]
  <2>1. spent' = spent \/ Spend("edits") \/ Spend("erased")
    BY DEF Kubernetes, Users, CollectGarbage, Expose, EditADI, DeleteADI,
           ChangeAstarte, Erase, Edited, Mishap
  <2> QED
    BY <2>1 DEF Spend, Mishaps, TypeOK
<1> QED
  BY <1>1, <1>2, <1>3, <1>4 DEF TypeOK, StoreOK, Unobserved

\* Objects, caches, backlogs and what a Reconcile has gathered keep their types.
THEOREM TypeCorrect == Spec => []TypeOK
<1>1. TypeOK /\ [Next]_vars => TypeOK'
  <2>1. TypeOK /\ UNCHANGED vars => TypeOK'
    BY DEF TypeOK, vars
  <2> QED
    BY <2>1, WorkerTypes, FailureTypes, DeliverTypes, OutsideTypes DEF Next
<1> QED
  BY InitTypes, <1>1, PTL DEF Spec

-----------------------------------------------------------------------------
(* Only what was vetted is served.                                         *)

\* An admission looked at an Astarte with which the spec was in order.
Vetted(s) == \E a \in vetted : Valid(s, a)

\* Whoever reads the resource, now or later, reads a spec that was admitted.
EverySpecVetted ==
    /\ Vetted(api.adi.spec) /\ Vetted(view.adi.spec)
    /\ \A i \in DOMAIN backlog["adi"] : Vetted(backlog["adi"][i].spec)

\* The worker goes by such a spec, and makes an Ingress only for an API.
WorkerVetted ==
    /\ pc # "idle" => Vetted(inst)
    /\ pc \in {"configmap", "ingress"} => inst.api

\* OnlyWhatWasVetted, of a TLS section and of the broker's Service.
Proper(tls) ==
    \A t \in tls : \/ t.secret \in Stored
                   \/ t.secret = None /\ \E a \in vetted : ~a.ssl
IngressProper == \A o \in api.ingress : Proper(o.spec.tls)
ServiceProper == api.service # {} => \E a \in vetted : a.listener

VettedInv == EverySpecVetted /\ WorkerVetted /\ IngressProper /\ ServiceProper

LEMMA InvIs == VettedInv => OnlyWhatWasVetted
  BY DEF VettedInv, IngressProper, ServiceProper, Proper, OnlyWhatWasVetted

\* An Ingress made from a vetted spec is proper, whatever the Astarte is by now.
LEMMA VettedIsProper ==
  ASSUME NEW s \in Specs, NEW a, Vetted(s), s.api
  PROVE  Proper(IngressFor(s, a).tls)
<1>1. PICK v \in vetted : Valid(s, v)
  BY DEF Vetted
<1>2. s \in ADISpecs
  BY DefaultIngressAssumption
<1> SUFFICES ASSUME NEW t \in TLS(s, a)
             PROVE  t.secret \in Stored \/ (t.secret = None /\ ~v.ssl)
  BY DEF IngressFor, Proper
<1>3. Used(s) \ {None} \subseteq Stored
  BY <1>1 DEF Valid, SecretsExist
<1>4. CASE t.secret = Override(s.apiTLS, s.tls)
  <2>1. t.secret \in Used(s)
    BY <1>4 DEF Override, Used
  <2>2. t.secret = None => s.tls = None /\ s.apiTLS = None
    BY <1>4 DEF Override
  <2> QED
    BY <1>1, <1>3, <2>1, <2>2 DEF Valid, APIValid
<1>5. CASE s.dashboard /\ s.ssl /\ t.secret = Override(s.dashTLS, s.tls)
  <2>1. t.secret \in Used(s)
    BY <1>5 DEF Override, Used, UsesDashboardTLS
  <2>2. t.secret # None
    BY <1>1, <1>5 DEF Override, Valid, DashboardValid, UsesDashboardTLS
  <2> QED
    BY <1>3, <2>1, <2>2
<1> QED
  BY <1>4, <1>5 DEF TLS

\* What was vetted once stays so.
LEMMA VettedStays ==
  ASSUME vetted \subseteq vetted'
  PROVE  /\ \A s : Vetted(s) => Vetted(s)'
         /\ \A tls : Proper(tls) => Proper(tls)'
         /\ (\E a \in vetted : a.listener) => (\E a \in vetted' : a.listener)
<1>1. ASSUME NEW s, Vetted(s) PROVE Vetted(s)'
  BY <1>1 DEF Vetted
<1>2. ASSUME NEW tls, Proper(tls) PROVE Proper(tls)'
  BY <1>2 DEF Proper
<1> QED
  BY <1>1, <1>2

LEMMA AdiKept ==
  ASSUME EverySpecVetted, vetted \subseteq vetted', api'.adi = api.adi,
         view'.adi = view.adi, backlog'["adi"] = backlog["adi"]
  PROVE  EverySpecVetted'
<1>1. \A s : Vetted(s) => Vetted(s)'
  BY VettedStays
<1> QED
  BY <1>1 DEF EverySpecVetted

\* A write of the resource with a vetted spec.
LEMMA AdiWritten ==
  ASSUME TypeOK, EverySpecVetted, vetted \subseteq vetted', view' = view,
         NEW adi \in ADIs, Put("adi", adi), Vetted(adi.spec)'
  PROVE  EverySpecVetted' /\ api'.ingress = api.ingress /\ api'.service = api.service
<1>1. \A s : Vetted(s) => Vetted(s)'
  BY VettedStays
<1>2. "adi" \in Kinds /\ adi \in Values["adi"]
  BY DEF Kinds, Values
<1>3. /\ api'.adi = adi /\ backlog'["adi"] = Append(backlog["adi"], adi)
      /\ api'.ingress = api.ingress /\ api'.service = api.service
  BY <1>2, PutWrites DEF Kinds, Children
<1>4. ASSUME NEW i \in DOMAIN backlog'["adi"]
      PROVE  Vetted(backlog["adi"][i].spec)'
  <2>1. backlog["adi"] \in Seq(ADIs)
    BY DEF TypeOK, Kinds, Values
  <2>2. \/ i \in DOMAIN backlog["adi"] /\ backlog'["adi"][i] = backlog["adi"][i]
        \/ backlog'["adi"][i] = adi
    BY <1>3, <2>1, <1>4
  <2> QED
    BY <1>1, <2>2 DEF EverySpecVetted
<1> QED
  BY <1>1, <1>3, <1>4 DEF EverySpecVetted

\* The step keeps Ingress and Service, or makes proper ones.
LEMMA ServedKept ==
  ASSUME IngressProper, ServiceProper, vetted \subseteq vetted',
         \A o \in api'.ingress : o \in api.ingress \/ Proper(o.spec.tls),
         api'.service # {} => api.service # {} \/ (\E a \in vetted : a.listener)
  PROVE  IngressProper' /\ ServiceProper'
<1>1. \A tls : Proper(tls) => Proper(tls)'
  BY VettedStays
<1>2. (\E a \in vetted : a.listener) => (\E a \in vetted' : a.listener)
  BY VettedStays
<1> QED
  BY <1>1, <1>2 DEF IngressProper, ServiceProper

\* A step of the worker.
LEMMA WorkerInv == TypeOK /\ VettedInv /\ Worker => VettedInv'
<1> SUFFICES ASSUME TypeOK, VettedInv, Worker PROVE VettedInv'
  OBVIOUS
<1>a. /\ EverySpecVetted /\ WorkerVetted /\ IngressProper /\ ServiceProper
      /\ "adi" \in Kinds /\ "ingress" \in Kinds /\ "service" \in Kinds
      /\ "configmap" \in Children /\ "ingress" \in Children /\ "service" \in Children
  BY DEF VettedInv, Kinds, Children
<1>b. ASSUME Aside, api' = api, backlog' = backlog
      PROVE  EverySpecVetted' /\ IngressProper' /\ ServiceProper'
  BY <1>a, <1>b, AdiKept, ServedKept DEF Aside
<1>c. ASSUME NEW kind \in Children, Aside,
             \A k \in Kinds : k # kind => /\ api'[k] = api[k]
                                          /\ backlog'[k] = backlog[k],
             kind = "ingress" =>
                \A o \in api'.ingress : o \in api.ingress \/ Proper(o.spec.tls),
             kind = "service" /\ api'.service # {} =>
                api.service # {} \/ (\E a \in vetted : a.listener)
      PROVE  EverySpecVetted' /\ IngressProper' /\ ServiceProper'
  <2>1. EverySpecVetted'
    BY <1>a, <1>c, AdiKept DEF Aside, Children
  <2>2. \A o \in api'.ingress : o \in api.ingress \/ Proper(o.spec.tls)
    BY <1>a, <1>c
  <2>3. api'.service # {} => api.service # {} \/ (\E a \in vetted : a.listener)
    BY <1>a, <1>c
  <2> QED
    BY <1>a, <1>c, <2>1, <2>2, <2>3, ServedKept DEF Aside
<1>d. Forget => WorkerVetted'
  BY DEF Forget, WorkerVetted
<1>e. Aside => \A s : Vetted(s) => Vetted(s)'
  BY VettedStays DEF Aside
<1>f. ASSUME NEW label \in {"ingress", "broker", "status"}, Goto(label), Aside,
             pc # "idle", label = "ingress" => inst.api
      PROVE  WorkerVetted'
  BY <1>a, <1>e, <1>f DEF Goto, WorkerVetted
<1>g. Aside /\ Abort => VettedInv'
  BY <1>b, <1>d DEF Abort, Fail, Untouched, VettedInv
<1>1. CASE Start
  <2>1. WorkerVetted'
    BY <1>1, <1>a, <1>e DEF Start, WorkerVetted, EverySpecVetted
  <2> QED
    BY <1>1, <2>1, <1>b DEF Start, Untouched, VettedInv
<1>2. CASE GetAstarte
  <2>1. WorkerVetted'
    BY <1>2, <1>a, <1>d, <1>e DEF GetAstarte, WorkerVetted, Fail
  <2> QED
    BY <1>2, <2>1, <1>b DEF GetAstarte, Untouched, VettedInv
<1>3. CASE DeleteIngress
  <2>1. CASE Abort
    BY <1>3, <2>1, <1>g DEF DeleteIngress
  <2>2. CASE ~Abort
    <3>1. WorkerVetted'
      BY <1>3, <2>2, <1>f DEF DeleteIngress, Remove
    <3>2. /\ api'["ingress"] \subseteq api["ingress"]
          /\ \A k \in Kinds : k # "ingress" => /\ api'[k] = api[k]
                                               /\ backlog'[k] = backlog[k]
      BY <1>3, <1>a, RemoveRemoves DEF DeleteIngress
    <3> QED
      BY <1>3, <1>a, <3>1, <3>2, <1>c DEF DeleteIngress, VettedInv
  <2> QED
    BY <2>1, <2>2
<1>4. CASE EnsureConfigMap
  <2>1. CASE Abort
    BY <1>4, <2>1, <1>g DEF EnsureConfigMap
  <2>2. CASE ~Abort
    <3>1. WorkerVetted'
      BY <1>4, <2>2, <1>a, <1>f DEF EnsureConfigMap, WorkerVetted
    <3>2. ConfigMapFor(inst, parent) \in ConfigMaps
      BY <1>4, Built DEF EnsureConfigMap, TypeOK
    <3>3. Values["configmap"] = Of(ConfigMaps) /\ api["configmap"] \in Of(ConfigMaps)
      BY ObjectsHave DEF TypeOK, Values
    <3>4. CASE Untouched
      BY <1>4, <3>1, <3>4, <1>b DEF EnsureConfigMap, Untouched, VettedInv
    <3>5. CASE Write("configmap", ConfigMapFor(inst, parent))
      <4>1. \A k \in Kinds : k # "configmap" => /\ api'[k] = api[k]
                                                /\ backlog'[k] = backlog[k]
        BY <3>2, <3>3, <3>5, <1>a, WriteWrites
      <4> QED
        BY <1>4, <1>a, <3>1, <4>1, <1>c DEF EnsureConfigMap, VettedInv
    <3> QED
      BY <1>4, <2>2, <3>4, <3>5 DEF EnsureConfigMap
  <2> QED
    BY <2>1, <2>2
<1>5. CASE EnsureIngress
  <2>1. CASE Abort
    BY <1>5, <2>1, <1>g DEF EnsureIngress
  <2>2. CASE ~Abort
    <3>1. WorkerVetted'
      BY <1>5, <2>2, <1>a, <1>f DEF EnsureIngress, WorkerVetted
    <3>2. inst \in Specs /\ IngressFor(inst, parent) \in Ingresses
      BY <1>5, Built DEF EnsureIngress, TypeOK
    <3>3. Values["ingress"] = Of(Ingresses) /\ api["ingress"] \in Of(Ingresses)
      BY ObjectsHave DEF TypeOK, Values
    <3>4. Proper(IngressFor(inst, parent).tls)
      BY <1>5, <1>a, <3>2, VettedIsProper DEF EnsureIngress, WorkerVetted
    <3>5. CASE Untouched
      BY <1>5, <3>1, <3>5, <1>b DEF EnsureIngress, Untouched, VettedInv
    <3>6. CASE Write("ingress", IngressFor(inst, parent))
      <4>1. /\ \A o \in api'["ingress"] :
                  o.spec = IngressFor(inst, parent) \/ o \in api["ingress"]
            /\ \A k \in Kinds : k # "ingress" => /\ api'[k] = api[k]
                                                 /\ backlog'[k] = backlog[k]
        BY <3>2, <3>3, <3>6, <1>a, WriteWrites
      <4>2. \A o \in api'.ingress : o \in api.ingress \/ Proper(o.spec.tls)
        BY <4>1, <3>4
      <4> QED
        BY <1>5, <1>a, <3>1, <4>1, <4>2, <1>c DEF EnsureIngress, VettedInv
    <3> QED
      BY <1>5, <2>2, <3>5, <3>6 DEF EnsureIngress
  <2> QED
    BY <2>1, <2>2
<1>6. CASE EnsureService
  <2>1. CASE Abort
    BY <1>6, <2>1, <1>g DEF EnsureService
  <2>2. CASE ~Abort
    <3>1. WorkerVetted'
      BY <1>6, <2>2, <1>f DEF EnsureService
    <3>2. ServiceFor(parent) \in Services
      BY <1>6, Built DEF EnsureService, TypeOK
    <3>3. Values["service"] = Of(Services) /\ api["service"] \in Of(Services)
      BY ObjectsHave DEF TypeOK, Values
    <3>4. \E a \in vetted : a.listener
      BY <1>6, <1>a DEF EnsureService, WorkerVetted, Vetted, Valid, BrokerValid
    <3>5. \A k \in Kinds : k # "service" => /\ api'[k] = api[k]
                                            /\ backlog'[k] = backlog[k]
      BY <1>6, <2>2, <3>2, <3>3, <1>a, WriteWrites DEF EnsureService
    <3> QED
      BY <1>6, <1>a, <3>1, <3>4, <3>5, <1>c DEF EnsureService, VettedInv
  <2> QED
    BY <2>1, <2>2
<1>7. CASE DeleteService
  <2>1. CASE Abort
    BY <1>7, <2>1, <1>g DEF DeleteService
  <2>2. CASE ~Abort
    <3>1. WorkerVetted'
      BY <1>7, <2>2, <1>f DEF DeleteService, Remove
    <3>2. /\ api'["service"] \subseteq api["service"]
          /\ \A k \in Kinds : k # "service" => /\ api'[k] = api[k]
                                               /\ backlog'[k] = backlog[k]
      BY <1>7, <1>a, RemoveRemoves DEF DeleteService
    <3> QED
      BY <1>7, <1>a, <3>1, <3>2, <1>c DEF DeleteService, VettedInv
  <2> QED
    BY <2>1, <2>2
<1>8. CASE UpdateStatus
  <2>1. CASE Abort
    BY <1>8, <2>1, <1>g DEF UpdateStatus
  <2>2. CASE ~Abort
    <3>1. PICK adi \in ADIs :
            /\ adi.spec = api.adi.spec /\ (Untouched \/ Put("adi", adi))
      <4>1. /\ [api.adi EXCEPT !.status = ComputeStatus(view.adi)] \in ADIs
            /\ [api.adi EXCEPT !.status = ComputeStatus(view.adi)].spec
                  = api.adi.spec
        BY ObjectsHave, StatusTypes DEF TypeOK
      <4> QED
        BY <1>8, <2>2, <4>1 DEF UpdateStatus
    <3>2. Forget /\ Aside
      BY <1>8, <2>2 DEF UpdateStatus
    <3>3. CASE Untouched
      BY <3>2, <3>3, <1>b, <1>d DEF Untouched, VettedInv
    <3>4. CASE Put("adi", adi)
      <4>1. Vetted(adi.spec)' /\ vetted \subseteq vetted' /\ view' = view
        BY <1>a, <1>e, <3>1, <3>2 DEF Aside, EverySpecVetted
      <4>2. /\ EverySpecVetted'
            /\ api'.ingress = api.ingress /\ api'.service = api.service
        BY <3>4, <4>1, <1>a, AdiWritten
      <4>3. IngressProper' /\ ServiceProper'
        BY <4>1, <4>2, <1>a, ServedKept
      <4> QED
        BY <3>2, <4>2, <4>3, <1>d DEF VettedInv
    <3> QED
      BY <3>1, <3>3, <3>4
  <2> QED
    BY <2>1, <2>2
<1> QED
  BY <1>1, <1>2, <1>3, <1>4, <1>5, <1>6, <1>7, <1>8 DEF Worker

\* A failure, a restart, an informer that catches up.
LEMMA FailureInv == TypeOK /\ VettedInv /\ (CallFails \/ Restart) => VettedInv'
<1> SUFFICES ASSUME TypeOK, VettedInv, CallFails \/ Restart PROVE VettedInv'
  OBVIOUS
<1>1. WorkerVetted' /\ vetted' = vetted /\ api' = api
  BY DEF CallFails, Restart, Abort, Untouched, Fail, Forget, WorkerVetted
<1>2. IngressProper' /\ ServiceProper'
  BY <1>1, ServedKept DEF VettedInv
<1>3. EverySpecVetted'
  <2>1. CASE CallFails
    BY <2>1, <1>1, AdiKept DEF CallFails, Abort, Untouched, VettedInv
  <2>2. CASE Restart
    <3>1. view' = api /\ backlog'["adi"] = <<>> /\ DOMAIN backlog'["adi"] = {}
      BY <2>2 DEF Restart, Nothing, Kinds
    <3>2. Vetted(api.adi.spec)'
      BY <1>1 DEF VettedInv, EverySpecVetted, Vetted
    <3> QED
      BY <1>1, <3>1, <3>2 DEF EverySpecVetted, Vetted
  <2> QED
    BY <2>1, <2>2
<1> QED
  BY <1>1, <1>2, <1>3 DEF VettedInv

LEMMA DeliverInv ==
  TypeOK /\ VettedInv /\ (\E kind \in Kinds : Deliver(kind)) => VettedInv'
<1> SUFFICES ASSUME TypeOK, VettedInv, NEW kind \in Kinds, Deliver(kind)
             PROVE  VettedInv'
  OBVIOUS
<1>1. UNCHANGED <<api, pc, inst, vetted>>
  BY DEF Deliver
<1>2. WorkerVetted' /\ IngressProper' /\ ServiceProper'
  BY <1>1, VettedStays, ServedKept DEF VettedInv, WorkerVetted
<1>3. \A s : Vetted(s) => Vetted(s)'
  BY <1>1, VettedStays
<1>4. EverySpecVetted'
  <2>1. CASE kind = "adi"
    <3> DEFINE q == backlog["adi"]
    <3>1. q \in Seq(ADIs) /\ q # <<>>
      BY <2>1, DeliverShows DEF TypeOK, Kinds, Values
    <3>2. /\ view'.adi = Head(q) /\ backlog'["adi"] = Tail(q)
      BY <2>1, DeliverShows
    <3>3. \A i \in DOMAIN q : Vetted(q[i].spec)
      BY DEF VettedInv, EverySpecVetted
    <3> HIDE DEF q
    <3>4. /\ Vetted(Head(q).spec)
          /\ \A i \in DOMAIN Tail(q) : Vetted(Tail(q)[i].spec)
      <4>1. /\ Head(q) = q[1] /\ 1 \in DOMAIN q
            /\ \A i \in DOMAIN Tail(q) : i + 1 \in DOMAIN q /\ Tail(q)[i] = q[i + 1]
        BY <3>1
      <4> QED
        BY <3>3, <4>1
    <3>5. Vetted(api.adi.spec) /\ Vetted(api.adi.spec)'
      BY <1>1 DEF VettedInv, EverySpecVetted, Vetted
    <3>6. Vetted(view.adi.spec)'
      BY <1>1, <3>2, <3>4 DEF Vetted
    <3>7. \A i \in DOMAIN backlog'["adi"] : Vetted(backlog["adi"][i].spec)'
      BY <1>1, <3>2, <3>4 DEF Vetted
    <3> QED
      BY <3>5, <3>6, <3>7 DEF EverySpecVetted
  <2>2. CASE kind # "adi"
    BY <2>2, <1>1, AdiKept, DeliverShows DEF VettedInv, Kinds
  <2> QED
    BY <2>1, <2>2
<1> QED
  BY <1>2, <1>4 DEF VettedInv

\* What happens outside of the operator: only an admission changes the spec.
LEMMA OutsideInv == TypeOK /\ VettedInv /\ (Kubernetes \/ Users) => VettedInv'
<1> SUFFICES ASSUME TypeOK, VettedInv, Kubernetes \/ Users PROVE VettedInv'
  OBVIOUS
<1>a. /\ EverySpecVetted /\ WorkerVetted /\ IngressProper /\ ServiceProper
      /\ api.adi \in ADIs
  BY ObjectsHave DEF VettedInv, TypeOK
<1>b. Unobserved /\ vetted \subseteq vetted'
  BY DEF Kubernetes, Users, CollectGarbage, Expose, EditADI, DeleteADI,
         ChangeAstarte, Erase, Admitted
<1>c. \A s : Vetted(s) => Vetted(s)'
  BY <1>b, VettedStays
<1>d. WorkerVetted'
  BY <1>a, <1>b, <1>c DEF Unobserved, WorkerVetted
<1>1. ASSUME NEW adi \in ADIs, Put("adi", adi), Vetted(adi.spec)'
      PROVE  VettedInv'
  <2>1. EverySpecVetted' /\ api'.ingress = api.ingress /\ api'.service = api.service
    BY <1>a, <1>b, <1>1, AdiWritten DEF Unobserved
  <2>2. IngressProper' /\ ServiceProper'
    BY <1>a, <1>b, <2>1, ServedKept
  <2> QED
    BY <1>d, <2>1, <2>2 DEF VettedInv
<1>2. ASSUME NEW kind \in Kinds \ {"adi"}, NEW value \in Values[kind],
             Put(kind, value),
             kind = "ingress" =>
                \A o \in value : \E p \in api.ingress : o.spec = p.spec,
             kind = "service" /\ value # {} => api.service # {}
      PROVE  VettedInv'
  <2>1. /\ api'[kind] = value
        /\ \A k \in Kinds : k # kind => /\ api'[k] = api[k]
                                        /\ backlog'[k] = backlog[k]
    BY <1>2, PutWrites
  <2>2. EverySpecVetted'
    BY <1>a, <1>b, <2>1, AdiKept DEF Unobserved, Kinds
  <2>3. \A o \in api'.ingress : o \in api.ingress \/ Proper(o.spec.tls)
    BY <1>a, <1>2, <2>1 DEF IngressProper, Kinds, Children
  <2>4. api'.service # {} => api.service # {}
    BY <1>2, <2>1 DEF Kinds, Children
  <2>5. IngressProper' /\ ServiceProper'
    BY <1>a, <1>b, <2>3, <2>4, ServedKept
  <2> QED
    BY <1>d, <2>2, <2>5 DEF VettedInv
<1>3. CASE (\E kind \in Children : Erase(kind)) \/ CollectGarbage
  <2>1. PICK kind \in Children : Put(kind, {})
    BY <1>3 DEF Erase, CollectGarbage, Owned, Children
  <2>2. kind \in Kinds \ {"adi"} /\ {} \in Values[kind]
    BY NoObject DEF Children
  <2> QED
    BY <2>1, <2>2, <1>2
<1>4. CASE \E kind \in {"ingress", "service"} : Expose(kind)
  <2>1. PICK kind \in {"ingress", "service"} : Expose(kind)
    BY <1>4
  <2>2. PICK specs : Values[kind] = Of(specs) /\ api[kind] \in Of(specs)
    BY ObjectsHave DEF TypeOK, Values
  <2>3. PICK value : value = {[o EXCEPT !.address = "address"] : o \in api[kind]}
    OBVIOUS
  <2>4. value \in Values[kind] /\ kind \in Kinds \ {"adi"}
        /\ \A o \in value : \E p \in api[kind] : o.spec = p.spec
    <3>1. "address" \in Addresses
      BY DEF Addresses
    <3>2. /\ {[o EXCEPT !.address = "address"] : o \in api[kind]} \in Of(specs)
          /\ \A o \in api[kind] : [o EXCEPT !.address = "address"].spec = o.spec
      BY <2>2, <3>1 DEF Of
    <3> QED
      BY <2>2, <2>3, <3>2 DEF Kinds, Children
  <2>5. Put(kind, value) /\ api[kind] # {}
    BY <2>1, <2>3 DEF Expose
  <2> QED
    BY <2>4, <2>5, <1>2
<1>5. CASE \E spec \in Specs : EditADI(spec)
  <2>1. PICK spec \in Specs : EditADI(spec)
    BY <1>5
  <2>2. PICK adi \in ADIs : adi = [api.adi EXCEPT !.spec = spec] /\ adi.spec = spec
    <3>1. /\ [api.adi EXCEPT !.spec = spec] \in ADIs
          /\ [api.adi EXCEPT !.spec = spec].spec = spec
      BY <1>a DEF ADIs
    <3> QED
      BY <3>1
  <2>3. Put("adi", adi)
    BY <2>1, <2>2 DEF EditADI
  <2>4. Vetted(adi.spec)'
    BY <2>1, <2>2 DEF EditADI, Admitted, Vetted
  <2> QED
    BY <2>3, <2>4, <1>1
<1>6. CASE DeleteADI
  <2>1. PICK adi \in ADIs : /\ adi = [api.adi EXCEPT !.here = FALSE]
                            /\ adi.spec = api.adi.spec
    <3>1. /\ [api.adi EXCEPT !.here = FALSE] \in ADIs
          /\ [api.adi EXCEPT !.here = FALSE].spec = api.adi.spec
      BY <1>a DEF ADIs
    <3> QED
      BY <3>1
  <2>2. Put("adi", adi)
    BY <1>6, <2>1 DEF DeleteADI
  <2>3. Vetted(adi.spec)'
    BY <2>1, <1>a, <1>c DEF EverySpecVetted
  <2> QED
    BY <2>2, <2>3, <1>1
<1>7. CASE \/ \E spec \in AstarteSpecs : ChangeAstarte([here |-> TRUE, spec |-> spec])
           \/ ChangeAstarte([api.astarte EXCEPT !.here = FALSE])
  <2>1. PICK value \in Parents : Put("astarte", value)
    <3>1. [api.astarte EXCEPT !.here = FALSE] \in Parents
      BY ObjectsHave DEF TypeOK, Parents
    <3> QED
      BY <1>7, <3>1 DEF ChangeAstarte, Parents
  <2>2. "astarte" \in Kinds \ {"adi"} /\ value \in Values["astarte"]
    BY DEF Kinds, Values
  <2> QED
    BY <2>1, <2>2, <1>2
<1> QED
  BY <1>3, <1>4, <1>5, <1>6, <1>7 DEF Kubernetes, Users

LEMMA InitInv == Init => VettedInv
<1> SUFFICES ASSUME Init PROVE VettedInv
  OBVIOUS
<1>1. PICK s \in Specs, a \in AstarteSpecs :
         Valid(s, a) /\ api = Fresh(s, a) /\ vetted = {a}
  BY DEF Init
<1>2. Vetted(s)
  BY <1>1 DEF Vetted
<1>3. /\ api.adi.spec = s /\ api.ingress = {} /\ api.service = {}
      /\ view = api /\ backlog["adi"] = <<>> /\ pc = "idle"
  BY <1>1 DEF Fresh, Init, Nothing, Kinds
<1>4. EverySpecVetted
  BY <1>2, <1>3 DEF EverySpecVetted
<1> QED
  BY <1>3, <1>4 DEF VettedInv, WorkerVetted, IngressProper, ServiceProper

\* Whatever becomes of the Astarte, of secrets, caches and calls: an Ingress is
\* served with secrets that the webhook found, or with none where it found that
\* none was needed, and the broker is exposed only if it once had a listener.
THEOREM OnlyVettedIsServed == Spec => []OnlyWhatWasVetted
<1>1. TypeOK /\ VettedInv /\ [Next]_vars => VettedInv'
  <2>1. TypeOK /\ VettedInv /\ UNCHANGED vars => VettedInv'
    BY DEF VettedInv, EverySpecVetted, WorkerVetted, IngressProper, ServiceProper,
           Proper, Vetted, vars
  <2> QED
    BY <2>1, WorkerInv, FailureInv, DeliverInv, OutsideInv DEF Next
<1> QED
  BY InitInv, InvIs, TypeCorrect, <1>1, PTL DEF Spec

-----------------------------------------------------------------------------
(* Nothing is left undone.                                                 *)

\* An informer shows what is there once it has shown all it has to; at most one
\* object of each kind is there.
CaughtUp ==
    \A k \in Kinds :
       IF backlog[k] = <<>> THEN view[k] = api[k]
       ELSE backlog[k][Len(backlog[k])] = api[k]
Single == \A k \in Children : \A o, p \in api[k] : o = p

\* The informer has yet to show changes of the resource's status at most.
Still ==
    \A i \in DOMAIN backlog["adi"] :
       /\ backlog["adi"][i].here = view.adi.here
       /\ backlog["adi"][i].spec = view.adi.spec

\* No event will have the resource looked at again after this Reconcile.
LastPass ==
    /\ ~queued /\ Still
    /\ backlog["astarte"] = <<>> /\ backlog["ingress"] = <<>>
    /\ api.adi.here /\ api.astarte.here

IngressDone(s, a) ==
    {o.spec : o \in api.ingress} = IF s.api THEN {IngressFor(s, a)} ELSE {}
ServiceDone(s, a) ==
    s.broker /\ spent["erased"] = 0 => {o.spec : o \in api.service} = {ServiceFor(a)}

\* What the last Reconcile has done so far.
Underway ==
    /\ inst = api.adi.spec
    /\ pc # "parent" => parent = api.astarte.spec
    /\ pc \in {"configmap", "ingress"} => inst.api
    /\ pc = "noingress" => ~inst.api
    /\ pc \in {"broker", "status"} => IngressDone(inst, parent)
    /\ pc = "status" => ServiceDone(inst, parent)

RestInv ==
    /\ CaughtUp /\ Single
    /\ LastPass => IF pc = "idle" THEN Served ELSE Underway

\* A write is something that the informer has yet to show, and the last of it.
LEMMA PutShown ==
  ASSUME TypeOK, NEW kind \in Kinds, NEW value, Put(kind, value)
  PROVE  /\ backlog'[kind] # <<>> /\ api'[kind] = value
         /\ backlog'[kind][Len(backlog'[kind])] = value
         /\ \A i \in DOMAIN backlog[kind] : /\ i \in DOMAIN backlog'[kind]
                                            /\ backlog'[kind][i] = backlog[kind][i]
         /\ Len(backlog'[kind]) \in DOMAIN backlog'[kind]
         /\ \A k \in Kinds : k # kind => /\ api'[k] = api[k]
                                         /\ backlog'[k] = backlog[k]
<1> DEFINE V(k) == Values[k]
           q == backlog[kind]
<1>1. q \in Seq(V(kind)) /\ DOMAIN backlog = Kinds
  BY DEF TypeOK
<1>2. api' = [api EXCEPT ![kind] = value]
      /\ backlog' = [backlog EXCEPT ![kind] = Append(q, value)]
  BY DEF Put
<1> HIDE DEF V, q
<1>3. /\ Append(q, value) # <<>>
      /\ Append(q, value)[Len(Append(q, value))] = value
      /\ \A i \in DOMAIN q : /\ i \in DOMAIN Append(q, value)
                             /\ Append(q, value)[i] = q[i]
      /\ Len(Append(q, value)) \in DOMAIN Append(q, value)
  BY <1>1, AppendLast
<1>4. /\ backlog'[kind] = Append(q, value)
      /\ \A k \in Kinds : k # kind => backlog'[k] = backlog[k]
  BY <1>1, <1>2
<1>5. api'[kind] = value /\ \A k \in Kinds : k # kind => api'[k] = api[k]
  BY <1>2 DEF TypeOK, Objects, Kinds, Children
<1> QED
  BY <1>3, <1>4, <1>5 DEF q

\* A write that leaves at most one object of its kind.
WritesOne(kind, value) ==
    Put(kind, value) /\ (kind \in Children => \A o, p \in value : o = p)

\* How a step changes what is shown and what is there.
Moves ==
    \/ UNCHANGED <<api, view, backlog>>
    \/ view' = view /\ \E kind \in Kinds : \E value : WritesOne(kind, value)
    \/ \E kind \in Kinds : Deliver(kind)
    \/ Restart

LEMMA NextMoves == Single /\ [Next]_vars => Moves
<1> SUFFICES ASSUME Single, [Next]_vars PROVE Moves
  OBVIOUS
<1> DEFINE Writes == \E kind \in Kinds : \E value : WritesOne(kind, value)
<1>0. /\ "adi" \in Kinds \ Children /\ "astarte" \in Kinds \ Children
      /\ Children \subseteq Kinds
      /\ "service" \in Children /\ "ingress" \in Children /\ "configmap" \in Children
  BY DEF Kinds, Children
<1>a. \A v : Put("adi", v) \/ Put("astarte", v) => Writes
  BY <1>0 DEF WritesOne
<1>b. \A kind \in Children : Put(kind, {}) => Writes
  BY <1>0 DEF WritesOne
<1>c. \A kind \in Children : \A spec : Write(kind, spec) => Untouched \/ Writes
  <2> SUFFICES ASSUME NEW kind \in Children, NEW spec, Write(kind, spec), ~Untouched
               PROVE  Writes
    OBVIOUS
  <2>1. \/ Put(kind, {[spec |-> spec, address |-> None]})
        \/ Put(kind, {[o EXCEPT !.spec = spec] : o \in api[kind]})
    BY DEF Write
  <2>2. \A o, p \in {[o EXCEPT !.spec = spec] : o \in api[kind]} : o = p
    BY DEF Single
  <2> QED
    BY <1>0, <2>1, <2>2 DEF WritesOne
<1>d. \A kind \in Children : \A next : Remove(kind, next) => Untouched \/ Writes
  BY <1>b DEF Remove, Abort
<1> HIDE DEF Writes
<1>e. view' = view /\ (Untouched \/ Writes) => Moves
  BY DEF Moves, Untouched, Writes
<1>1. CASE Worker \/ CallFails
  <2>1. view' = view
    BY <1>1 DEF Worker, Start, GetAstarte, DeleteIngress, EnsureConfigMap,
                EnsureIngress, EnsureService, DeleteService, UpdateStatus,
                CallFails, Aside
  <2>2. CASE Start \/ GetAstarte \/ CallFails
    BY <2>1, <2>2, <1>e DEF Start, GetAstarte, CallFails, Abort
  <2>3. CASE DeleteIngress \/ DeleteService
    BY <2>1, <2>3, <1>0, <1>d, <1>e DEF DeleteIngress, DeleteService
  <2>4. CASE EnsureConfigMap \/ EnsureIngress \/ EnsureService
    BY <2>1, <2>4, <1>0, <1>c, <1>e DEF EnsureConfigMap, EnsureIngress, EnsureService,
                                        Abort
  <2>5. CASE UpdateStatus
    BY <2>1, <2>5, <1>a, <1>e DEF UpdateStatus, Abort
  <2> QED
    BY <1>1, <2>2, <2>3, <2>4, <2>5 DEF Worker
<1>2. CASE Kubernetes
  <2>1. ASSUME NEW kind \in {"ingress", "service"}, Expose(kind) PROVE Moves
    <3>1. \A o, p \in {[o EXCEPT !.address = "address"] : o \in api[kind]} : o = p
      BY <1>0 DEF Single
    <3>2. Writes
      BY <2>1, <3>1, <1>0 DEF Expose, WritesOne, Writes
    <3> QED
      BY <2>1, <3>2, <1>e DEF Expose, Unobserved
  <2>2. CASE CollectGarbage
    BY <2>2, <1>b, <1>e DEF CollectGarbage, Owned, Children, Unobserved
  <2> QED
    BY <1>2, <2>1, <2>2 DEF Kubernetes
<1>3. CASE Users
  BY <1>3, <1>a, <1>b, <1>e DEF Users, EditADI, DeleteADI, ChangeAstarte, Erase,
                                Unobserved
<1> QED
  BY <1>1, <1>2, <1>3 DEF Next, vars, Moves

LEMMA SingleStep ==
  ASSUME TypeOK, Single, Moves
  PROVE  Single'
<1>1. ASSUME NEW kind \in Kinds, NEW value, WritesOne(kind, value)
      PROVE  Single'
  <2>1. \A k \in Children : k \in Kinds
    BY DEF Kinds
  <2> QED
    BY <1>1, <2>1, PutShown DEF WritesOne, Single
<1> QED
  BY <1>1 DEF Moves, Deliver, Restart, Single

LEMMA CaughtUpStep ==
  ASSUME TypeOK, CaughtUp, Moves
  PROVE  CaughtUp'
<1>1. CASE UNCHANGED <<api, view, backlog>>
  BY <1>1 DEF CaughtUp
<1>2. ASSUME view' = view, NEW kind \in Kinds, NEW value, Put(kind, value)
      PROVE  CaughtUp'
  BY <1>2, PutShown DEF CaughtUp
<1>3. ASSUME NEW kind \in Kinds, Deliver(kind)
      PROVE  CaughtUp'
  <2> DEFINE V(k) == Values[k]
             q == backlog[kind]
  <2>1. q \in Seq(V(kind))
    BY DEF TypeOK
  <2>2. /\ q # <<>> /\ api' = api
        /\ view'[kind] = Head(q) /\ backlog'[kind] = Tail(q)
        /\ \A k \in Kinds : k # kind => view'[k] = view[k] /\ backlog'[k] = backlog[k]
    BY <1>3, DeliverShows DEF Deliver
  <2> HIDE DEF V, q
  <2>3. IF Tail(q) = <<>> THEN Head(q) = q[Len(q)]
        ELSE Tail(q)[Len(Tail(q))] = q[Len(q)]
    BY <2>1, <2>2, TailShifts
  <2>4. q[Len(q)] = api[kind]
    BY <2>2 DEF CaughtUp, q
  <2> QED
    BY <2>2, <2>3, <2>4 DEF CaughtUp
<1>4. CASE Restart
  BY <1>4 DEF Restart, Nothing, CaughtUp
<1> QED
  BY <1>1, <1>2, <1>3, <1>4 DEF Moves, WritesOne

\* What is there is like what is shown, but for its status.
LEMMA StillMeans ==
  ASSUME TypeOK, CaughtUp, Still
  PROVE  api.adi.here = view.adi.here /\ api.adi.spec = view.adi.spec
<1> DEFINE q == backlog["adi"]
<1>1. q \in Seq(ADIs) /\ "adi" \in Kinds
  BY DEF TypeOK, Kinds, Values
<1>2. CASE q = <<>>
  BY <1>1, <1>2 DEF CaughtUp
<1>3. CASE q # <<>>
  <2>1. q[Len(q)] = api.adi
    BY <1>1, <1>3 DEF CaughtUp
  <2> HIDE DEF q
  <2>2. Len(q) \in DOMAIN q
    BY <1>1, <1>3
  <2> QED
    BY <2>1, <2>2 DEF Still, q
<1> QED
  BY <1>2, <1>3

\* What the last pass finds is what is there, and it writes nothing that would
\* have the resource looked at again.
LEMMA LastPassWas ==
  ASSUME TypeOK, CaughtUp, Moves, LastPass'
  PROVE  /\ ~Fail /\ (~queued => LastPass)
         /\ \A v : ~Put("ingress", v) /\ ~Put("astarte", v)
         /\ api'.ingress = api.ingress /\ api'.astarte = api.astarte
         /\ api'.adi.spec = api.adi.spec /\ api.adi.here /\ api.astarte.here
         /\ view.ingress = api.ingress /\ view.astarte = api.astarte
         /\ view.adi.spec = api.adi.spec /\ view.adi.here
<1>0. "adi" \in Kinds /\ "ingress" \in Kinds /\ "astarte" \in Kinds
  BY DEF Kinds, Children
<1>a. /\ ~queued' /\ Still' /\ backlog'["astarte"] = <<>> /\ backlog'["ingress"] = <<>>
      /\ api'.adi.here /\ api'.astarte.here
  BY DEF LastPass
<1>b. ~Fail /\ ~Restart /\ \A v : ~Put("ingress", v) /\ ~Put("astarte", v)
  BY <1>0, <1>a, PutShown DEF Fail, Restart
<1>1. ASSUME Still, backlog["astarte"] = <<>>, backlog["ingress"] = <<>>,
             api'.ingress = api.ingress, api'.astarte = api.astarte,
             api.adi.here,
             api'.adi.spec = api.adi.spec
      PROVE  /\ ~queued => LastPass
                 /\ api'.ingress = api.ingress /\ api'.astarte = api.astarte
             /\ api'.adi.spec = api.adi.spec /\ api.adi.here /\ api.astarte.here
             /\ view.ingress = api.ingress /\ view.astarte = api.astarte
             /\ view.adi.spec = api.adi.spec /\ view.adi.here
  BY <1>0, <1>1, <1>a, StillMeans DEF LastPass, CaughtUp
<1>3. CASE UNCHANGED <<api, view, backlog>>
  <2>1. Still
    BY <1>3, <1>a DEF Still
  <2>2. api.adi.here
    BY <1>3, <1>a
  <2> QED
    BY <1>1, <1>3, <1>a, <1>b, <2>1, <2>2
<1>4. ASSUME view' = view, NEW kind \in Kinds, NEW value, Put(kind, value)
      PROVE  /\ Still /\ backlog["astarte"] = <<>> /\ backlog["ingress"] = <<>>
             /\ api'.ingress = api.ingress /\ api'.astarte = api.astarte
             /\ api.adi.here /\ api'.adi.spec = api.adi.spec
      <2>1. kind # "ingress" /\ kind # "astarte"
    BY <1>4, <1>b
  <2>2. /\ api'.ingress = api.ingress /\ api'.astarte = api.astarte
        /\ backlog["astarte"] = <<>> /\ backlog["ingress"] = <<>>
    BY <1>0, <1>4, <1>a, <2>1, PutShown
  <2>3. \A i \in DOMAIN backlog["adi"] : /\ i \in DOMAIN backlog'["adi"]
                                         /\ backlog'["adi"][i] = backlog["adi"][i]
    BY <1>0, <1>4, PutShown
  <2>4. Still
    BY <1>4, <1>a, <2>3 DEF Still
  <2>5. ASSUME NEW v, Put("adi", v)
        PROVE  v.here = view.adi.here /\ v.spec = view.adi.spec /\ api'.adi = v
    <3>1. /\ Len(backlog'["adi"]) \in DOMAIN backlog'["adi"]
          /\ backlog'["adi"][Len(backlog'["adi"])] = v /\ api'.adi = v
      BY <1>0, <2>5, PutShown
    <3> QED
      BY <1>4, <1>a, <3>1 DEF Still
  <2>6. api.adi.here = view.adi.here /\ api.adi.spec = view.adi.spec
    BY <2>4, StillMeans
  <2>7. CASE kind = "adi"
    BY <1>4, <1>a, <2>2, <2>4, <2>5, <2>6, <2>7
  <2>8. CASE kind # "adi"
    <3>1. api'.adi = api.adi
      BY <1>0, <1>4, <2>8, PutShown
    <3> QED
      BY <1>a, <2>2, <2>4, <2>5, <2>6, <3>1
  <2> QED
    BY <2>7, <2>8
<1>5. ASSUME NEW kind \in Kinds, Deliver(kind)
      PROVE  /\ Still /\ backlog["astarte"] = <<>> /\ backlog["ingress"] = <<>>
             /\ api' = api
  <2>1. /\ api' = api /\ ~queued /\ ~Wakes(kind, view[kind], Head(backlog[kind]))
        /\ view'[kind] = Head(backlog[kind]) /\ backlog'[kind] = Tail(backlog[kind])
        /\ backlog[kind] # <<>>
        /\ \A k \in Kinds : k # kind => view'[k] = view[k] /\ backlog'[k] = backlog[k]
    BY <1>5, <1>a, DeliverShows DEF Deliver
  <2>2. kind # "ingress"
    BY <2>1 DEF Wakes
  <2>3. Still
    <3>1. CASE kind # "adi"
      BY <1>0, <1>a, <2>1, <3>1 DEF Still
    <3>2. CASE kind = "adi"
      <4> DEFINE q == backlog["adi"]
      <4>1. q \in Seq(ADIs) /\ q # <<>>
        BY <1>0, <2>1, <3>2 DEF TypeOK, Values
      <4>2. /\ Head(q).here = view.adi.here /\ Head(q).spec = view.adi.spec
            /\ view'.adi = Head(q) /\ backlog'["adi"] = Tail(q)
        BY <2>1, <3>2 DEF Wakes
      <4>3. \A i \in DOMAIN Tail(q) : /\ Tail(q)[i].here = view.adi.here
                                      /\ Tail(q)[i].spec = view.adi.spec
        BY <1>a, <4>2 DEF Still
      <4> HIDE DEF q
      <4>4. \A i \in DOMAIN q : q[i] = Head(q) \/ \E j \in DOMAIN Tail(q) : q[i] = Tail(q)[j]
        BY <4>1, TailCovers
      <4> QED
        BY <4>2, <4>3, <4>4 DEF Still, q
    <3> QED
      BY <3>1, <3>2
  <2>4. view.adi.here
    BY <1>a, <2>1, <2>3, StillMeans
  <2>5. kind # "astarte"
    BY <2>1, <2>4 DEF Wakes
  <2> QED
    BY <1>0, <1>a, <2>1, <2>2, <2>3, <2>5
<1>6. CASE \E kind \in Kinds : Deliver(kind)
  BY <1>1, <1>5, <1>6, <1>a, <1>b
<1>7. CASE view' = view /\ \E kind \in Kinds : \E value : WritesOne(kind, value)
  BY <1>1, <1>4, <1>7, <1>b DEF WritesOne
<1> QED
  BY <1>3, <1>6, <1>7, <1>b DEF Moves

\* What was done before the last step of the last pass still is, but for what a
\* user erases.
LEMMA RestStep ==
  ASSUME TypeOK, RestInv, [Next]_vars
  PROVE  RestInv'
<1>a. Moves /\ CaughtUp' /\ Single' /\ Single /\ CaughtUp
  BY NextMoves, CaughtUpStep, SingleStep DEF RestInv
<1> SUFFICES ASSUME LastPass'
             PROVE  (IF pc = "idle" THEN Served ELSE Underway)'
  BY <1>a DEF RestInv
<1>b. /\ ~Fail /\ (~queued => LastPass)
      /\ \A v : ~Put("ingress", v) /\ ~Put("astarte", v)
      /\ api'.ingress = api.ingress /\ api'.astarte = api.astarte
      /\ api'.adi.spec = api.adi.spec /\ api.adi.here /\ api.astarte.here
      /\ view.ingress = api.ingress /\ view.astarte = api.astarte
      /\ view.adi.spec = api.adi.spec /\ view.adi.here
      /\ api'.adi.here /\ ~queued'
  BY <1>a, LastPassWas DEF LastPass
<1>c. ~Abort /\ ~CallFails /\ ~Restart
  BY <1>b DEF Abort, CallFails, Restart
<1>d. ~queued => IF pc = "idle" THEN Served ELSE Underway
  BY <1>b DEF RestInv
<1>e. /\ "adi" \in Kinds /\ "service" \in Kinds /\ "configmap" \in Kinds
      /\ Children \subseteq Kinds /\ "service" \in Children /\ "ingress" \in Children
      /\ "configmap" \in Children /\ "adi" \notin Children
  BY DEF Kinds, Children
<1>f. /\ IngressDone(inst, parent)' <=> IngressDone(inst', parent')
      /\ \A s, a : IngressDone(s, a)' <=> IngressDone(s, a)
  BY <1>b DEF IngressDone
<1>1. CASE Start
  <2>1. pc' = "parent" /\ inst' = api.adi.spec
    BY <1>1, <1>b DEF Start
  <2> QED
    BY <2>1, <1>b DEF Underway
<1>2. CASE GetAstarte
  <2>1. /\ pc = "parent" /\ pc' = IF inst.api THEN "configmap" ELSE "noingress"
        /\ parent' = api.astarte.spec /\ UNCHANGED <<queued, inst>>
    BY <1>2, <1>b DEF GetAstarte
  <2>2. inst = api.adi.spec
    BY <2>1, <1>b, <1>d DEF Underway
  <2> QED
    BY <2>1, <2>2, <1>b DEF Underway
<1>3. CASE DeleteIngress
  <2>1. /\ pc = "noingress" /\ pc' = "broker" /\ UNCHANGED <<queued, inst, parent>>
        /\ api.ingress = {}
    BY <1>3, <1>b, <1>c DEF DeleteIngress, Remove, Goto
  <2>2. Underway
    BY <2>1, <1>b, <1>d
  <2>3. IngressDone(inst, parent)
    BY <2>1, <2>2 DEF Underway, IngressDone
  <2> QED
    BY <2>1, <2>2, <2>3, <1>b DEF Underway, IngressDone
<1>4. CASE EnsureConfigMap
  <2>1. /\ pc = "configmap" /\ pc' = "ingress" /\ UNCHANGED <<queued, inst, parent>>
    BY <1>4, <1>c DEF EnsureConfigMap, Goto
  <2>2. Underway
    BY <2>1, <1>b, <1>d
  <2> QED
    BY <2>1, <2>2, <1>b DEF Underway
<1>5. CASE EnsureIngress
  <2>1. /\ pc = "ingress" /\ pc' = "broker" /\ UNCHANGED <<queued, inst, parent>>
        /\ \E o \in api.ingress : o.spec = IngressFor(inst, parent)
    BY <1>5, <1>b, <1>c DEF EnsureIngress, Shown, Write, Goto
  <2>2. Underway
    BY <2>1, <1>b, <1>d
  <2>3. \A o, p \in api.ingress : o = p
    BY <1>a, <1>e DEF Single
  <2>4. IngressDone(inst, parent)
    BY <2>1, <2>2, <2>3 DEF Underway, IngressDone
  <2> QED
    BY <2>1, <2>2, <2>4, <1>b DEF Underway, IngressDone
<1>6. CASE EnsureService
  <2> DEFINE spec == ServiceFor(parent)
  <2>1. /\ pc = "broker" /\ pc' = "status" /\ UNCHANGED <<queued, inst, parent, spent>>
        /\ Write("service", spec)
    BY <1>6, <1>c DEF EnsureService, Goto, Aside
  <2>2. Underway
    BY <2>1, <1>b, <1>d
  <2>3. api.service \in Of(Services)
    BY ObjectsHave DEF TypeOK
  <2> HIDE DEF spec
  <2>4. {o.spec : o \in api'.service} = {spec}
    <3>1. CASE view["service"] = {}
      <4>1. Put("service", {[spec |-> spec, address |-> None]})
        BY <2>1, <3>1 DEF Write
      <4>2. api'.service = {[spec |-> spec, address |-> None]}
        BY <4>1, <1>e, PutShown
      <4> QED
        BY <4>2
    <3>2. CASE view["service"] # {}
      <4>1. api.service # {}
        BY <2>1, <3>2, <1>a, <1>e DEF Write, Current, CaughtUp
      <4>2. CASE \E o \in api["service"] : o.spec = spec
        <5>1. api' = api
          BY <2>1, <3>2, <4>2 DEF Write, Untouched
        <5>2. \A o, p \in api.service : o = p
          BY <1>a, <1>e DEF Single
        <5> QED
          BY <4>2, <5>1, <5>2
      <4>3. CASE ~\E o \in api["service"] : o.spec = spec
        <5> DEFINE Edited1(o) == [o EXCEPT !.spec = spec]
                   new == {Edited1(o) : o \in api["service"]}
        <5>1. Put("service", new)
          BY <2>1, <3>2, <4>3 DEF Write
        <5>2. \A o \in api["service"] : Edited1(o).spec = spec
          BY <2>3 DEF Of
        <5> HIDE DEF Edited1
        <5>3. {o.spec : o \in new} = {spec}
          BY <4>1, <5>2
        <5> HIDE DEF new
        <5>4. api'.service = new
          BY <5>1, <1>e, PutShown
        <5> QED
          BY <5>3, <5>4
      <4> QED
        BY <4>2, <4>3
    <3> QED
      BY <3>1, <3>2
  <2>5. ServiceDone(inst, parent)'
    BY <2>1, <2>4 DEF ServiceDone, spec
  <2> QED
    BY <2>1, <2>2, <2>5, <1>b DEF Underway, IngressDone
<1>7. CASE DeleteService
  <2>1. /\ pc = "broker" /\ ~inst.broker /\ pc' = "status"
        /\ UNCHANGED <<queued, inst, parent>>
    BY <1>7, <1>c DEF DeleteService, Remove, Goto
  <2>2. Underway
    BY <2>1, <1>b, <1>d
  <2> QED
    BY <2>1, <2>2, <1>b DEF Underway, IngressDone, ServiceDone
<1>8. CASE UpdateStatus
  <2> DEFINE status == ComputeStatus(view.adi)
  <2>1. /\ pc = "status" /\ pc' = "idle" /\ queued' = queued /\ spent' = spent
        /\ Current("adi")
        /\ IF status = view.adi.status THEN Untouched
           ELSE Put("adi", [api.adi EXCEPT !.status = status])
    BY <1>8, <1>c DEF UpdateStatus, Forget, Aside
  <2>2. Underway
    BY <2>1, <1>b, <1>d
  <2>3. view.adi = api.adi
    BY <2>1, <1>a, <1>e DEF Current, CaughtUp
  <2>4. api'.adi.status = status /\ api'.service = api.service
    <3>1. CASE status = view.adi.status
      BY <2>1, <2>3, <3>1 DEF Untouched
    <3>2. CASE status # view.adi.status
      <4> HIDE DEF status
      <4>1. Put("adi", [api.adi EXCEPT !.status = status])
        BY <2>1, <3>2
      <4>2. /\ api'.adi = [api.adi EXCEPT !.status = status]
            /\ api'.service = api.service
        BY <4>1, <1>e, PutShown
      <4>3. api.adi \in ADIs
        BY ObjectsHave DEF TypeOK
      <4> QED
        BY <4>2, <4>3 DEF ADIs
    <3> QED
      BY <3>1, <3>2
  <2>5. status.api = IF api.adi.spec.api THEN Address(api.ingress) ELSE None
    BY <1>b DEF ComputeStatus
  <2> HIDE DEF status
  <2>6. IngressDone(api.adi.spec, api.astarte.spec)
        /\ ServiceDone(api.adi.spec, api.astarte.spec)
    BY <2>1, <2>2 DEF Underway
  <2>7. api'.adi.status.api = Address(api'.ingress)
    BY <2>4, <2>5, <2>6, <1>b DEF IngressDone, Address
  <2>8. Served'
    BY <2>1, <2>4, <2>6, <2>7, <1>b DEF Served, IngressDone, ServiceDone
  <2> QED
    BY <2>1, <2>8
<1>9. ASSUME UNCHANGED <<queued, pc, inst, parent>>, api'.adi = api.adi,
             \/ /\ {o.spec : o \in api'.service} = {o.spec : o \in api.service}
                /\ spent' = spent
             \/ spent'["erased"] # 0
      PROVE  (IF pc = "idle" THEN Served ELSE Underway)'
  BY <1>9, <1>b, <1>d DEF Served, Underway, IngressDone, ServiceDone
<1>10. CASE Kubernetes
  <2>1. PICK kind \in {"ingress", "service"} : Expose(kind)
    BY <1>10, <1>b DEF Kubernetes, CollectGarbage
  <2> DEFINE Exposed1(o) == [o EXCEPT !.address = "address"]
             new == {Exposed1(o) : o \in api["service"]}
  <2>2. Put("service", new) /\ UNCHANGED <<queued, pc, inst, parent, spent>>
    BY <2>1, <1>b DEF Expose, Unobserved
  <2>3. \A o \in api.service : Exposed1(o).spec = o.spec
    BY ObjectsHave DEF TypeOK, Of
  <2> HIDE DEF Exposed1
  <2>4. {o.spec : o \in new} = {o.spec : o \in api.service}
    BY <2>3
  <2> HIDE DEF new
  <2>5. api'.service = new /\ api'.adi = api.adi
    BY <2>2, <1>e, PutShown
  <2> QED
    BY <2>2, <2>4, <2>5, <1>9
<1>11. CASE Users
  <2>1. ASSUME NEW kind \in Children, Erase(kind)
        PROVE  (IF pc = "idle" THEN Served ELSE Underway)'
    <3>1. api'.adi = api.adi /\ UNCHANGED <<queued, pc, inst, parent>>
      BY <2>1, <1>e, PutShown DEF Erase, Unobserved
    <3>2. spent'["erased"] # 0
      BY <2>1 DEF Erase, Mishap, Spend, TypeOK, Mishaps
    <3> QED
      BY <3>1, <3>2, <1>9
  <2>2. ASSUME NEW spec \in Specs, EditADI(spec) PROVE FALSE
    <3>1. api.adi \in ADIs /\ spec # api.adi.spec
      BY <2>2, ObjectsHave DEF TypeOK, EditADI
    <3>2. api'.adi = [api.adi EXCEPT !.spec = spec]
      BY <2>2, <1>e, PutShown DEF EditADI
    <3> QED
      BY <3>1, <3>2, <1>b DEF ADIs
  <2>3. CASE DeleteADI
    <3>1. api.adi \in ADIs
      BY ObjectsHave DEF TypeOK
    <3>2. api'.adi = [api.adi EXCEPT !.here = FALSE]
      BY <2>3, <1>e, PutShown DEF DeleteADI
    <3> QED
      BY <3>1, <3>2, <1>b DEF ADIs
  <2>4. \A new : ~ChangeAstarte(new)
    BY <1>b DEF ChangeAstarte
  <2> QED
    BY <1>11, <2>1, <2>2, <2>3, <2>4 DEF Users
<1>12. CASE UNCHANGED vars \/ \E kind \in Kinds : Deliver(kind)
  <2>1. UNCHANGED <<queued, pc, inst, parent, spent, api>>
    BY <1>12, <1>b DEF vars, Deliver, TypeOK
  <2> QED
    BY <2>1, <1>9
<1> QED
  BY <1>1, <1>2, <1>3, <1>4, <1>5, <1>6, <1>7, <1>8, <1>10, <1>11, <1>12, <1>c
  DEF Next, Worker

\* Only what the worker is woken up for is missed: changes of the resource's own
\* status, of the ConfigMap and of the Service do not matter, but for a Service
\* that a user erases.  Whatever else happens, in whatever order, the operator
\* rests only once the Ingress and the Service are as both resources have them.
THEOREM RestsOnceServed == Spec => []QuietMeansServed
<1>1. Init => RestInv
  <2> SUFFICES ASSUME Init PROVE RestInv
    OBVIOUS
  <2>1. queued /\ view = api /\ \A k \in Kinds : backlog[k] = <<>>
    BY DEF Init, Nothing
  <2>2. \A k \in Children : api[k] = {}
    BY DEF Init, Fresh, Children
  <2> QED
    BY <2>1, <2>2 DEF RestInv, CaughtUp, Single, LastPass
<1>2. TypeOK /\ RestInv /\ [Next]_vars => RestInv'
  BY RestStep
<1>3. RestInv => QuietMeansServed
  <2> SUFFICES ASSUME RestInv, Quiet, api.adi.here, api.astarte.here PROVE Served
    BY DEF QuietMeansServed
  <2>1. \A k \in Kinds : backlog[k] = <<>>
    BY DEF Quiet, Nothing
  <2>2. LastPass
    BY <2>1 DEF Quiet, LastPass, Still, Kinds, Children
  <2> QED
    BY <2>2 DEF RestInv, Quiet
<1> QED
  BY TypeCorrect, <1>1, <1>2, <1>3, PTL DEF Spec

=============================================================================
