--------------------------- MODULE DefaultIngress ---------------------------
(***************************************************************************)
(* The reconciliation of an AstarteDefaultIngress                          *)
(* (internal/controller/ingress, internal/defaultingress): an Ingress for  *)
(* Astarte's API and dashboard, a ConfigMap for its controller, a Service  *)
(* for the broker, addresses in the status; and the webhook that admits it *)
(* (api/ingress/v2alpha1), which looks at the Astarte it names once.       *)
(*                                                                         *)
(* Each kind of object has an informer, which shows the API server's       *)
(* states one after the other and some time after they were written.  The  *)
(* Astarte and the Ingress wake the worker up, the ConfigMap and the       *)
(* Service are not watched.                                                *)
(*                                                                         *)
(* Simplifications: one AstarteDefaultIngress, which is not created again  *)
(* once deleted; hosts and paths are told apart only as the API's and the  *)
(* dashboard's own; TLS secrets are not erased; CORS, service type and     *)
(* annotations are left out.                                               *)
(***************************************************************************)
EXTENDS Naturals, Sequences, FiniteSets

CONSTANTS
    Secrets,       \* names of TLS secrets
    Stored,        \* those of secrets that exist
    Specs,         \* the specs that users give the AstarteDefaultIngress
    AstarteSpecs,  \* the specs that users give the Astarte
    MaxLag,        \* bound: states that the informers are behind by, together
    MaxEdits,      \* bound: edits of both resources, deletions included
    MaxMishaps     \* bound: objects erased by users, API calls that fail and
                   \*        restarts of the operator, together

\* The empty string of the code: no secret is named.
None == "none"
APIs == {"appengine", "flow", "pairing", "realmmanagement", "housekeeping"}

\* api, dashboard, broker: whether to deploy each; ssl and own: whether the
\* dashboard is served by TLS and has a host of its own; haproxy: the selector
\* annotation; tls, apiTLS, dashTLS: the names of secrets.
ADISpecs ==
    [api : BOOLEAN, dashboard : BOOLEAN, broker : BOOLEAN, ssl : BOOLEAN,
     own : BOOLEAN, haproxy : BOOLEAN, housekeeping : BOOLEAN,
     tls : Secrets \cup {None}, apiTLS : Secrets \cup {None},
     dashTLS : Secrets \cup {None}]
ParentSpecs ==
    [ssl : BOOLEAN, listener : BOOLEAN, port : Nat,
     deployed : SUBSET (APIs \cup {"dashboard"})]

ASSUME DefaultIngressAssumption ==
    /\ None \notin Secrets /\ Stored \subseteq Secrets
    /\ Specs \subseteq ADISpecs
    /\ AstarteSpecs # {} /\ AstarteSpecs \subseteq ParentSpecs
    /\ MaxLag \in Nat /\ MaxEdits \in Nat /\ MaxMishaps \in Nat

VARIABLES
    api,       \* the objects at the API server
    view,      \* the objects in the informers' caches
    backlog,   \* per kind, the states that the cache has yet to show
    queued,    \* the key is in the work queue
    pc,        \* where the worker is
    inst,      \* the spec of the AstarteDefaultIngress it reconciles
    parent,    \* the spec of the Astarte it reconciles it with
    vetted,    \* history: the specs of the Astarte that admissions looked at
    spent      \* how much of each bound has been used

vars == <<api, view, backlog, queued, pc, inst, parent, vetted, spent>>

Children == {"configmap", "ingress", "service"}
Kinds == {"adi", "astarte"} \cup Children
Nothing == [k \in Kinds |-> <<>>]
\* What inst and parent are between two Reconciles.
Unknown == [unknown |-> TRUE]

Addresses == {None, "address"}
Hosts == {"api", "dashboard"}
Backends == APIs \cup {"dashboard"}
Ingresses ==
    [rules : SUBSET [host : Hosts, backend : Backends],
     tls : SUBSET [host : Hosts, secret : Secrets \cup {None}],
     annotations : [haproxy : BOOLEAN, redirect : BOOLEAN]]
ConfigMaps == [hsts : BOOLEAN]
Services == [port : Nat]

\* An object of its kind that is not there is the empty set.
Of(specs) == SUBSET [spec : specs, address : Addresses]
ADIs ==
    [here : BOOLEAN, spec : Specs,
     status : [api : Addresses, broker : Addresses]]
Parents == [here : BOOLEAN, spec : AstarteSpecs]
Values ==
    [adi |-> ADIs, astarte |-> Parents, configmap |-> Of(ConfigMaps),
     ingress |-> Of(Ingresses), service |-> Of(Services)]
Objects ==
    [adi : ADIs, astarte : Parents, configmap : Of(ConfigMaps),
     ingress : Of(Ingresses), service : Of(Services)]

Mishaps == {"erased", "faults", "crashes"}
Spend(what) == spent' = [spent EXCEPT ![what] = @ + 1]
Mishap(what) ==
    /\ spent["erased"] + spent["faults"] + spent["crashes"] < MaxMishaps
    /\ Spend(what)
Edited == spent["edits"] < MaxEdits /\ Spend("edits")

-----------------------------------------------------------------------------
(* What is built from the two specs.                                       *)

\* pointy.BoolValue(parent.Spec.API.SSL, true) || ...Dashboard.SSL.
Secured(s, a) == a.ssl \/ s.ssl

\* getDashboardHost.
DashboardHost(s) == IF s.own THEN "dashboard" ELSE "api"

\* getHAProxyAPIIngressRules, getNgnixAPIIngressRules.  Only the latter asks
\* whether the Astarte has a dashboard.
Exposed(s) == IF s.housekeeping THEN APIs ELSE APIs \ {"housekeeping"}
APIRules(s, a) ==
    {[host |-> "api", backend |-> c] : c \in Exposed(s) \cap a.deployed}
DashboardRules(s, a) ==
    IF s.dashboard /\ (s.haproxy \/ "dashboard" \in a.deployed)
    THEN {[host |-> DashboardHost(s), backend |-> "dashboard"]}
    ELSE {}

Override(own, common) == IF own # None THEN own ELSE common

\* getIngressTLS.
TLS(s, a) ==
    (IF Secured(s, a)
     THEN {[host |-> "api", secret |-> Override(s.apiTLS, s.tls)]} ELSE {})
    \cup (IF s.dashboard /\ s.ssl /\ s.own
          THEN {[host |-> "dashboard", secret |-> Override(s.dashTLS, s.tls)]}
          ELSE {})

\* getCommonIngressAnnotations.
Annotations(s, a) == [haproxy |-> s.haproxy, redirect |-> Secured(s, a)]

\* getAPIIngressSpec, with the annotations.
IngressFor(s, a) ==
    [rules |-> APIRules(s, a) \cup DashboardRules(s, a), tls |-> TLS(s, a),
     annotations |-> Annotations(s, a)]

\* An Ingress without rules, or whose rule has no path, is refused by the API
\* server; with HAProxy the API's host always has a rule.
Refused(s, a) ==
    APIRules(s, a) = {} /\ (s.haproxy \/ DashboardRules(s, a) = {})

ConfigMapFor(s, a) == [hsts |-> Secured(s, a)]
ServiceFor(a) == [port |-> a.port]

-----------------------------------------------------------------------------
(* The webhook: ValidateCreate and ValidateUpdate.                         *)

UsesDashboardTLS(s) == s.ssl /\ s.dashboard

\* validateBrokerTLSConfig, validateAPITLSConfig, validateDashboardTLSConfig.
BrokerValid(s, a) == a.listener \/ ~s.broker
APIValid(s, a) == a.ssl /\ s.api => s.tls # None \/ s.apiTLS # None
DashboardValid(s) == UsesDashboardTLS(s) => s.tls # None \/ s.dashTLS # None

\* validateTLSSecretExistence: the common secret if it is used for either.
Used(s) ==
    (IF s.apiTLS = None \/ (UsesDashboardTLS(s) /\ s.dashTLS = None)
     THEN {s.tls} ELSE {})
    \cup {s.apiTLS} \cup (IF UsesDashboardTLS(s) THEN {s.dashTLS} ELSE {})
SecretsExist(s) == Used(s) \ {None} \subseteq Stored

\* Mutant: an API served by TLS need not name a secret.
ValidWithoutAPICheck(s, a) ==
    BrokerValid(s, a) /\ DashboardValid(s) /\ SecretsExist(s)

\* ValidateCreate, ValidateUpdate.
Valid(s, a) ==
    BrokerValid(s, a) /\ APIValid(s, a) /\ DashboardValid(s) /\ SecretsExist(s)

\* validateReferencedAstarte reads the cache.
Admitted(s) ==
    /\ view.astarte.here /\ Valid(s, view.astarte.spec)
    /\ vetted' = vetted \cup {view.astarte.spec}

-----------------------------------------------------------------------------
(* Steps that Reconcile is made of.                                        *)

\* A write, which the kind's informer will see.
Lag ==
    Len(backlog["adi"]) + Len(backlog["astarte"]) + Len(backlog["configmap"])
      + Len(backlog["ingress"]) + Len(backlog["service"])
Put(kind, value) ==
    /\ Lag < MaxLag
    /\ api' = [api EXCEPT ![kind] = value]
    /\ backlog' = [backlog EXCEPT ![kind] = Append(@, value)]
Untouched == UNCHANGED <<api, backlog>>
Aside == UNCHANGED <<view, vetted, spent>>

\* The resourceVersion that the cache shows is the server's.
Current(kind) == backlog[kind] = <<>>

Goto(label) == pc' = label /\ UNCHANGED <<queued, inst, parent>>
\* What a Reconcile has gathered ends with it.
Forget == pc' = "idle" /\ inst' = Unknown /\ parent' = Unknown
Fail == Forget /\ queued' = TRUE
\* An error at a call that changes nothing.
Abort == Fail /\ Untouched

\* CreateOrUpdate: create what the cache does not show, else update it unless
\* it is shown as it should be.  Creating fails if the object is there by now,
\* updating if it is not the version that was read.
Shown(kind, spec) == \E o \in view[kind] : o.spec = spec
Conflicts(kind) ==
    IF view[kind] = {} THEN api[kind] # {} ELSE ~Current(kind)
Write(kind, spec) ==
    IF view[kind] = {}
    THEN api[kind] = {} /\ Put(kind, {[spec |-> spec, address |-> None]})
    ELSE /\ Current(kind)
         /\ IF \E o \in api[kind] : o.spec = spec
            THEN Untouched
            ELSE Put(kind, {[o EXCEPT !.spec = spec] : o \in api[kind]})

\* Delete what the cache shows: an error if it is no longer there.
Remove(kind, next) ==
    \/ view[kind] = {} /\ Untouched /\ Goto(next)
    \/ view[kind] # {} /\ api[kind] # {} /\ Put(kind, {}) /\ Goto(next)
    \/ view[kind] # {} /\ api[kind] = {} /\ Abort

-----------------------------------------------------------------------------
(* Reconcile.                                                              *)

\* Nothing to do for a resource that is not there.
Start ==
    /\ pc = "idle" /\ queued
    /\ queued' = FALSE
    /\ IF view.adi.here
       THEN pc' = "parent" /\ inst' = view.adi.spec
       ELSE UNCHANGED <<pc, inst>>
    /\ Untouched /\ Aside /\ UNCHANGED parent

\* An error without its Astarte.
GetAstarte ==
    /\ pc = "parent"
    /\ IF view.astarte.here
       THEN /\ parent' = view.astarte.spec
            /\ pc' = IF inst.api THEN "configmap" ELSE "noingress"
            /\ UNCHANGED <<queued, inst>>
       ELSE Fail
    /\ Untouched /\ Aside

\* EnsureAPIIngress.
DeleteIngress ==
    /\ pc = "noingress"
    /\ Remove("ingress", "broker")
    /\ Aside

EnsureConfigMap ==
    /\ pc = "configmap"
    /\ LET wanted == ConfigMapFor(inst, parent)
       IN  \/ Shown("configmap", wanted) /\ Untouched /\ Goto("ingress")
           \/ /\ ~Shown("configmap", wanted) /\ Write("configmap", wanted)
              /\ Goto("ingress")
           \/ ~Shown("configmap", wanted) /\ Conflicts("configmap") /\ Abort
    /\ Aside

\* Mutant: what differs from one Reconcile to the next is always written.
EnsureIngressAlways ==
    /\ pc = "ingress"
    /\ IF view.ingress # {} /\ Current("ingress")
       THEN Put("ingress", api.ingress) /\ Goto("broker")
       ELSE \/ Write("ingress", IngressFor(inst, parent)) /\ Goto("broker")
            \/ Conflicts("ingress") /\ Abort
    /\ Aside

EnsureIngress ==
    /\ pc = "ingress"
    /\ LET wanted == IngressFor(inst, parent)
       IN  \/ Shown("ingress", wanted) /\ Untouched /\ Goto("broker")
           \/ /\ ~Shown("ingress", wanted) /\ ~Refused(inst, parent)
              /\ Write("ingress", wanted) /\ Goto("broker")
           \/ /\ ~Shown("ingress", wanted)
              /\ (Refused(inst, parent) \/ Conflicts("ingress"))
              /\ Abort
    /\ Aside

\* EnsureBrokerIngress.  A Service lacks the server's defaults, so that what
\* was found is always updated: if nothing differs, no event follows.
EnsureService ==
    /\ pc = "broker" /\ inst.broker
    /\ \/ Write("service", ServiceFor(parent)) /\ Goto("status")
       \/ Conflicts("service") /\ Abort
    /\ Aside

DeleteService ==
    /\ pc = "broker" /\ ~inst.broker
    /\ Remove("service", "status")
    /\ Aside

Address(objects) ==
    IF objects = {} THEN None ELSE (CHOOSE o \in objects : TRUE).address

\* ComputeADIStatusResource.
ComputeStatus(adi) ==
    [api |-> IF adi.spec.api THEN Address(view.ingress) ELSE None,
     broker |-> IF adi.spec.broker THEN Address(view.service) ELSE None]

\* The resource is read again, and the update fails if it has changed since; a
\* retry that fails again is no step.  An equal status is no event.
UpdateStatus ==
    /\ pc = "status"
    /\ LET status == ComputeStatus(view.adi)
       IN  IF ~view.adi.here \/ ~Current("adi")
           THEN Abort
           ELSE /\ Forget /\ UNCHANGED queued
                /\ IF status = view.adi.status
                   THEN Untouched
                   ELSE Put("adi", [api.adi EXCEPT !.status = status])
    /\ Aside

Worker ==
    \/ Start \/ GetAstarte
    \/ DeleteIngress \/ EnsureConfigMap \/ EnsureIngress
    \/ EnsureService \/ DeleteService
    \/ UpdateStatus

\* Any call may return an error.
CallFails ==
    /\ pc # "idle"
    /\ Mishap("faults")
    /\ Abort
    /\ UNCHANGED <<view, vetted>>

-----------------------------------------------------------------------------
(* The informers, Kubernetes and the users.                                *)

\* Mutant: the Astarte is not watched.
WakesButForAstarte(kind, old, new) ==
    \/ kind = "adi" /\ (old.here # new.here \/ old.spec # new.spec)
    \/ kind = "ingress"

\* SetupWithManager: changes of the resource but to its status, of the
\* Ingress, and of the Astarte if the resource is listed by now.
Wakes(kind, old, new) ==
    \/ kind = "adi" /\ (old.here # new.here \/ old.spec # new.spec)
    \/ kind = "astarte" /\ view.adi.here
    \/ kind = "ingress"

\* The informer shows the next state.
Deliver(kind) ==
    /\ backlog[kind] # <<>>
    /\ LET new == Head(backlog[kind])
       IN  /\ view' = [view EXCEPT ![kind] = new]
           /\ queued' = (queued \/ Wakes(kind, view[kind], new))
    /\ backlog' = [backlog EXCEPT ![kind] = Tail(@)]
    /\ UNCHANGED <<api, pc, inst, parent, vetted, spent>>

Unobserved == UNCHANGED <<view, queued, pc, inst, parent>>

\* The ingress controller or the load balancer gives the object an address.
Expose(kind) ==
    /\ \E o \in api[kind] : o.address = None
    /\ Put(kind, {[o EXCEPT !.address = "address"] : o \in api[kind]})
    /\ Unobserved /\ UNCHANGED <<vetted, spent>>

\* Mutant: the ConfigMap is created without a controller reference.
OwnedButConfigMap == {"ingress", "service"}
\* SetControllerReference.
Owned == {"configmap", "ingress", "service"}

\* What the resource owned goes after it.
CollectGarbage ==
    /\ ~api.adi.here
    /\ \E kind \in Owned : api[kind] # {} /\ Put(kind, {})
    /\ Unobserved /\ UNCHANGED <<vetted, spent>>

EditADI(spec) ==
    /\ api.adi.here /\ spec # api.adi.spec
    /\ Admitted(spec)
    /\ Edited
    /\ Put("adi", [api.adi EXCEPT !.spec = spec])
    /\ Unobserved

DeleteADI ==
    /\ api.adi.here
    /\ Edited
    /\ Put("adi", [api.adi EXCEPT !.here = FALSE])
    /\ Unobserved /\ UNCHANGED vetted

\* The Astarte is created, edited or deleted; what refers to it is not asked.
ChangeAstarte(new) ==
    /\ new # api.astarte
    /\ Edited
    /\ Put("astarte", new)
    /\ Unobserved /\ UNCHANGED vetted

Erase(kind) ==
    /\ api[kind] # {}
    /\ Mishap("erased")
    /\ Put(kind, {})
    /\ Unobserved /\ UNCHANGED vetted

\* The next process starts from complete lists.
Restart ==
    /\ Mishap("crashes")
    /\ Fail
    /\ view' = api /\ backlog' = Nothing
    /\ UNCHANGED <<api, vetted>>

Kubernetes == CollectGarbage \/ \E kind \in {"ingress", "service"} : Expose(kind)
Users ==
    \/ \E spec \in Specs : EditADI(spec)
    \/ DeleteADI
    \/ \E spec \in AstarteSpecs : ChangeAstarte([here |-> TRUE, spec |-> spec])
    \/ ChangeAstarte([api.astarte EXCEPT !.here = FALSE])
    \/ \E kind \in Children : Erase(kind)

\* The resource has just been admitted.
Fresh(s, a) ==
    [adi |-> [here |-> TRUE, spec |-> s,
              status |-> [api |-> None, broker |-> None]],
     astarte |-> [here |-> TRUE, spec |-> a],
     configmap |-> {}, ingress |-> {}, service |-> {}]

Init ==
    /\ \E s \in Specs, a \in AstarteSpecs :
          Valid(s, a) /\ api = Fresh(s, a) /\ vetted = {a}
    /\ view = api /\ backlog = Nothing
    /\ queued = TRUE /\ pc = "idle" /\ inst = Unknown /\ parent = Unknown
    /\ spent = [b \in Mishaps \cup {"edits"} |-> 0]

Next ==
    \/ Worker \/ CallFails \/ Restart
    \/ \E kind \in Kinds : Deliver(kind)
    \/ Kubernetes \/ Users

Spec == Init /\ [][Next]_vars

FairSpec ==
    /\ Spec
    /\ WF_vars(Worker) /\ \A kind \in Kinds : WF_vars(Deliver(kind))
    /\ WF_vars(CollectGarbage)

-----------------------------------------------------------------------------
TypeOK ==
    /\ api \in Objects /\ view \in Objects
    /\ DOMAIN backlog = Kinds /\ \A k \in Kinds : backlog[k] \in Seq(Values[k])
    /\ queued \in BOOLEAN
    /\ pc \in {"idle", "parent", "noingress", "configmap", "ingress", "broker",
              "status"}
    /\ pc # "idle" => inst \in Specs
    /\ pc \notin {"idle", "parent"} => parent \in AstarteSpecs
    /\ vetted \subseteq AstarteSpecs
    /\ spent \in [Mishaps \cup {"edits"} -> Nat]

\* "Other cases are rejected by validation webhooks" (getIngressTLS): what an
\* Ingress is served with is a secret that exists, and the broker is exposed
\* only for an Astarte that had a listener, however late the caches and
\* whatever became of the Astarte.  The webhook looks at the Astarte's API
\* only: no secret may be named if that was not served by TLS at an admission.
OnlyWhatWasVetted ==
    /\ \A o \in api.ingress : \A t \in o.spec.tls :
          \/ t.secret \in Stored
          \/ t.secret = None /\ \E a \in vetted : ~a.ssl
    /\ api.service # {} => \E a \in vetted : a.listener

\* Nothing is left to wake the operator up.
Quiet == pc = "idle" /\ ~queued /\ backlog = Nothing

Served ==
    LET s == api.adi.spec
        a == api.astarte.spec
    IN  /\ {o.spec : o \in api.ingress} =
              IF s.api THEN {IngressFor(s, a)} ELSE {}
        /\ api.adi.status.api = Address(api.ingress)
        /\ s.broker /\ spent["erased"] = 0 =>
              {o.spec : o \in api.service} = {ServiceFor(a)}

\* The operator rests only once the Ingress and the broker's Service are as the
\* latest of both resources has them and the status tells the API's address,
\* whatever the order in which the informers caught up and the calls failed.
\* A Service that a user erases is not missed: it is not watched.
QuietMeansServed == Quiet /\ api.adi.here /\ api.astarte.here => Served

\* The operator comes to rest if the Astarte stays and has an API that an
\* Ingress can lead to: its writes do not wake it up for ever.
ComesToRest ==
    <>[](api.astarte.here /\ (api.adi.here /\ api.adi.spec.api =>
                                 ~Refused(api.adi.spec, api.astarte.spec)))
      => <>[]Quiet

\* "Owned objects are automatically garbage collected" (Reconcile): nothing
\* that a late Reconcile created outlives the resource.
NothingOutlivesTheIngress ==
    <>[](~api.adi.here => \A kind \in Children : api[kind] = {})
=============================================================================
