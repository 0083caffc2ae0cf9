---------------------------- MODULE Microservices ----------------------------
(***************************************************************************)
(* The deployment of an Astarte's services and of its broker               *)
(* (EnsureAstarteGenericAPIComponent, EnsureAstarteGenericBackend,         *)
(* EnsureVerneMQ and EnsureAstarteDashboard in internal/reconcile), one    *)
(* after the other, next to an autoscaler that writes the same replicas    *)
(* and to users who replace the broker's certificate.                      *)
(*                                                                         *)
(* The worker reads informers of the Astarte, of workloads (Deployments    *)
(* and StatefulSets), of Secrets and of autoscalers, each of which shows   *)
(* the API server's states one after the other and some time after they    *)
(* were written.                                                           *)
(*                                                                         *)
(* Simplifications: the life of the Astarte and the objects that its       *)
(* services share are in AstarteController and Bootstrap; the informers of *)
(* accounts, services, cookies and ConfigMaps show them as they are; a     *)
(* template tells apart resources and the mounted certificate; pods are    *)
(* modelled for the broker only, and replicas as a number; one component   *)
(* has an autoscaler.                                                      *)
(***************************************************************************)
EXTENDS ResourceAllocation, Sequences

CONSTANTS
    Order,       \* the components, in the order they are deployed in
    Scaled,      \* the component with an autoscaler
    Need,        \* the replicas that its load asks for
    Specs,       \* the specs that users give the Astarte
    MaxLag,      \* bound: states that the informers are behind by, together
    MaxEdits,    \* bound: edits of the Astarte
    MaxMishaps   \* bound: objects erased by users, API calls that fail, metrics
                 \*        that are lost and restarts of the operator, together

Components == {Order[i] : i \in DOMAIN Order}

\* total: what is asked for all services, if anything is.
AstarteSpecs ==
    [deploy : Deploys, broker : BOOLEAN, listener : BOOLEAN, replicas : Nat \ {0},
     autoscale : BOOLEAN, total : SUBSET Resources]

ASSUME MicroservicesAssumption ==
    /\ Order \in Seq(Services \cup {"vernemq"}) /\ Order # <<>>
    /\ Scaled \in Components /\ Need \in Nat \ {0}
    /\ Specs # {} /\ Specs \subseteq AstarteSpecs
    /\ \A spec \in Specs : \A p, q \in spec.total : p = q
    /\ MaxLag \in Nat /\ MaxEdits \in Nat /\ MaxMishaps \in Nat

VARIABLES
    api,        \* the objects at the API server
    view,       \* the objects in the informers' caches
    backlog,    \* per kind, the states that the cache has yet to show
    supports,   \* accounts, services, cookies and ConfigMaps
    pods,       \* the broker's pods
    queued,     \* the Astarte's key is in the work queue
    pc,         \* where the worker is
    inst,       \* the spec it reconciles
    rest,       \* the components it has yet to deploy
    swallowed,  \* history: components whose last deletion failed unnoticed
    spent       \* how much of each bound has been used

locals == <<inst, rest>>
vars == <<api, view, backlog, supports, pods, queued, pc, locals, swallowed, spent>>

Kinds == {"astarte", "workloads", "certificate", "autoscaler"}
Nothing == [k \in Kinds |-> <<>>]
AnySpec == CHOOSE s \in Specs : TRUE

\* A Deployment, or the broker's StatefulSet and what its status tells of pods.
Pods == {"none", "starting", "ready"}
Workloads ==
    [here : BOOLEAN, replicas : Nat, resources : SUBSET Resources,
     listener : BOOLEAN, pods : Pods]
NoWorkload ==
    [here |-> FALSE, replicas |-> 0, resources |-> {}, listener |-> FALSE,
     pods |-> "none"]

Mishaps == {"erased", "faults", "blind", "crashes"}
Spend(what) == spent' = [spent EXCEPT ![what] = @ + 1]
Mishap(what) ==
    /\ spent["erased"] + spent["faults"] + spent["blind"] + spent["crashes"]
         < MaxMishaps
    /\ Spend(what)
Edited == spent["edits"] < MaxEdits /\ Spend("edits")

-----------------------------------------------------------------------------
(* What a spec asks for.                                                   *)

\* checkShouldDeploy and its like: Flow only if it is asked for.
Wanted(spec, c) ==
    CASE c = "vernemq" -> spec.broker
      [] c = "flow"    -> spec.deploy[c] = "yes"
      [] OTHER         -> spec.deploy[c] # "no"

GenericAPIs == {"housekeeping", "realm_management", "pairing", "flow", "appengine"}

\* What a component's pods rely on.  reconcileStandardRBACForClusteringForApp,
\* reconcileRBACForFlow: an account, with its role and its binding.
Account(c) == IF c \in {"housekeeping", "dashboard"} THEN {} ELSE {"account"}
\* ensureErlangCookieSecret.
Cookie(c) == IF c \in {"vernemq", "dashboard"} THEN {} ELSE {"cookie"}
\* ReconcileConfigMap.
Config(c) == IF c = "dashboard" THEN {"config"} ELSE {}
\* createOrUpdateService.
Service == {"service"}

Support(c) ==
    {[of |-> c, kind |-> k] :
       k \in Account(c) \cup Cookie(c) \cup Config(c) \cup Service}

\* shouldVerneHandleSSLTermination.
Terminates(spec, c) == c = "vernemq" /\ spec.listener

\* The broker has the resources that are asked for itself: none here.
Allocation(spec, c) ==
    IF c = "vernemq" THEN {}
    ELSE {Distributed(total, spec.deploy, c) : total \in spec.total}

-----------------------------------------------------------------------------
(* Steps that Reconcile is made of.                                        *)

\* A write, which the kind's informer will see.
Lag == Len(backlog["astarte"]) + Len(backlog["workloads"])
         + Len(backlog["certificate"]) + Len(backlog["autoscaler"])
Put(kind, value) ==
    /\ Lag < MaxLag
    /\ api' = [api EXCEPT ![kind] = value]
    /\ backlog' = [backlog EXCEPT ![kind] = Append(@, value)]
PutWorkload(c, w) == Put("workloads", [api.workloads EXCEPT ![c] = w])
Untouched == UNCHANGED <<api, backlog>>

\* No write of the workload has yet to show in the cache.
Current(c) ==
    \A i \in DOMAIN backlog["workloads"] :
       backlog["workloads"][i][c] = view.workloads[c]

\* What a Reconcile has gathered ends with it.
Forget == pc' = "idle" /\ inst' = AnySpec /\ rest' = <<>>
Goto(label) == pc' = label /\ UNCHANGED <<queued, locals>>
\* On to the next component.
Advance ==
    /\ UNCHANGED queued
    /\ IF Len(rest) = 1
       THEN Forget
       ELSE pc' = "component" /\ rest' = Tail(rest) /\ UNCHANGED inst
Fail == Forget /\ queued' = TRUE
\* An error at a call that changes nothing.
Abort == Fail /\ Untouched

Start ==
    /\ pc = "idle" /\ queued
    /\ queued' = FALSE
    /\ pc' = "component" /\ inst' = view.astarte /\ rest' = Order
    /\ Untouched /\ UNCHANGED <<view, supports, pods, swallowed, spent>>

At(c) == rest # <<>> /\ c = Head(rest)
Deleting(c) == pc = "component" /\ At(c) /\ ~Wanted(inst, c)

\* "Before returning - check if we shall clean up the Deployment."  A workload
\* that is no longer there is an error, but for the generic APIs, which do not
\* return it.
DeleteWorkload(c) ==
    /\ Deleting(c)
    /\ \/ /\ ~view.workloads[c].here
          /\ Untouched /\ Advance /\ UNCHANGED <<pods, swallowed>>
       \/ /\ view.workloads[c].here /\ api.workloads[c].here
          /\ PutWorkload(c, NoWorkload) /\ Advance
          /\ pods' = IF c = "vernemq" THEN "none" ELSE pods
          /\ swallowed' = swallowed \ {c}
       \/ /\ view.workloads[c].here /\ ~api.workloads[c].here
          /\ Untouched /\ IF c \in GenericAPIs THEN Advance ELSE Fail
          /\ UNCHANGED <<pods, swallowed>>
    /\ UNCHANGED <<view, supports, spent>>

\* checkShouldDeploy logs that the deletion failed and goes on.
DeletionSwallowed(c) ==
    /\ Deleting(c) /\ c \in GenericAPIs
    /\ view.workloads[c].here /\ api.workloads[c].here
    /\ Mishap("faults")
    /\ swallowed' = swallowed \cup {c}
    /\ Untouched /\ Advance
    /\ UNCHANGED <<view, supports, pods>>

\* reconcileStandardRBACForClusteringForApp, reconcileRBACForFlow,
\* ensureErlangCookieSecret, createOrUpdateService, ReconcileConfigMap.
EnsureSupport(c) ==
    /\ pc = "component" /\ At(c) /\ Wanted(inst, c)
    /\ supports' = supports \cup Support(c)
    /\ Goto(IF Terminates(inst, c) THEN "pods" ELSE "workload")
    /\ Untouched /\ UNCHANGED <<view, pods, swallowed, spent>>

\* One of those calls fails.
SupportFails(c) ==
    /\ pc = "component" /\ At(c) /\ Wanted(inst, c)
    /\ Mishap("faults")
    /\ \E done \in SUBSET Support(c) :
          done # Support(c) /\ supports' = supports \cup done
    /\ Abort
    /\ UNCHANGED <<view, pods, swallowed>>

\* Mutant: the pods are deleted whenever the broker is reconciled.
RestartAlways ==
    /\ pc = "pods"
    /\ pods' = "none"
    /\ Goto("workload")
    /\ Untouched /\ UNCHANGED <<view, supports, swallowed, spent>>

\* maybeDeleteVerneMQPods.
MaybeDeletePods ==
    /\ pc = "pods"
    /\ pods' = IF view.certificate THEN pods ELSE "none"
    /\ Goto("workload")
    /\ Untouched /\ UNCHANGED <<view, supports, swallowed, spent>>

\* Mutant: what the autoscaler reports is taken as it is.
ReplicasReported(spec, c) ==
    IF c = Scaled /\ spec.autoscale /\ view.autoscaler.here
    THEN view.autoscaler.desired
    ELSE spec.replicas

\* getReplicaCountForResource: "the HPA isn't able to fetch metrics for the
\* pods, and decides to scale down to 0".
Replicas(spec, c) ==
    IF /\ c = Scaled /\ spec.autoscale
       /\ view.autoscaler.here /\ view.autoscaler.desired # 0
    THEN view.autoscaler.desired
    ELSE spec.replicas

Template(w) == <<w.resources, w.listener>>

\* CreateOrUpdate of the Deployment or StatefulSet.  Its spec lacks the server's
\* defaults, so that what was found is always updated: if nothing differs, no
\* event follows.  A new template replaces the pods.
EnsureWorkload(c) ==
    /\ pc = "workload" /\ At(c)
    /\ LET there == api.workloads[c]
           new == [there EXCEPT !.here = TRUE, !.replicas = Replicas(inst, c),
                                !.resources = Allocation(inst, c),
                                !.listener = Terminates(inst, c)]
       IN  IF ~Current(c)
           THEN Abort /\ UNCHANGED <<pods, swallowed>>
           ELSE /\ IF new = there THEN Untouched ELSE PutWorkload(c, new)
                /\ Advance
                /\ pods' = IF c = "vernemq" /\ Template(new) # Template(there)
                           THEN "none" ELSE pods
                /\ swallowed' = swallowed \ {c}
    /\ UNCHANGED <<view, supports, spent>>

Worker ==
    \/ Start \/ MaybeDeletePods
    \/ \E c \in Components : DeleteWorkload(c) \/ EnsureSupport(c) \/ EnsureWorkload(c)

\* Any call may return an error, but for a deletion that swallows it.
CallFails ==
    /\ pc # "idle"
    /\ ~\E c \in GenericAPIs : Deleting(c)
    /\ Mishap("faults")
    /\ Abort
    /\ UNCHANGED <<view, supports, pods, swallowed>>

-----------------------------------------------------------------------------
(* The informers.                                                          *)

\* Mutant: neither Deployments nor StatefulSets are watched.
WatchedButWorkloads == {"astarte", "certificate", "cookie", "config"}
\* SetupWithManager: the Astarte, its Deployments and StatefulSets, Secrets and
\* ConfigMaps of its namespace.
Watched == {"astarte", "workloads", "certificate", "cookie", "config"}

\* The informer shows the next state and, if the kind is watched, enqueues.
Deliver(kind) ==
    /\ backlog[kind] # <<>>
    /\ view' = [view EXCEPT ![kind] = Head(backlog[kind])]
    /\ backlog' = [backlog EXCEPT ![kind] = Tail(@)]
    /\ queued' = (queued \/ kind \in Watched)
    /\ UNCHANGED <<api, supports, pods, pc, locals, swallowed, spent>>

-----------------------------------------------------------------------------
(* The StatefulSet controller, the autoscaler and the users.               *)

Unobserved == UNCHANGED <<view, supports, queued, pc, locals, swallowed>>

\* Pods are made again, and are ready once what they mount is there.
StartPods ==
    LET broker == api.workloads["vernemq"]
    IN  /\ "vernemq" \in Components /\ broker.here
        /\ \/ pods = "none" /\ pods' = "starting"
           \/ /\ pods = "starting" /\ (broker.listener => api.certificate)
              /\ pods' = "ready"
        /\ Untouched /\ Unobserved /\ UNCHANGED spent

ReportPods ==
    LET broker == api.workloads["vernemq"]
    IN  /\ "vernemq" \in Components /\ broker.here /\ broker.pods # pods
        /\ PutWorkload("vernemq", [broker EXCEPT !.pods = pods])
        /\ Unobserved /\ UNCHANGED <<pods, spent>>

\* An autoscaler leaves alone what has no replicas.
Scaling == api.autoscaler.here /\ api.workloads[Scaled].here
Autoscale ==
    /\ Scaling /\ api.workloads[Scaled].replicas \notin {0, Need}
    /\ PutWorkload(Scaled, [api.workloads[Scaled] EXCEPT !.replicas = Need])
    /\ Unobserved /\ UNCHANGED <<pods, spent>>
ReportScale ==
    LET desired == IF api.workloads[Scaled].replicas = 0 THEN 0 ELSE Need
    IN  /\ Scaling /\ api.autoscaler.desired # desired
        /\ Put("autoscaler", [api.autoscaler EXCEPT !.desired = desired])
        /\ Unobserved /\ UNCHANGED <<pods, spent>>
MetricsLost ==
    /\ api.autoscaler.here /\ api.autoscaler.desired # 0
    /\ Mishap("blind")
    /\ Put("autoscaler", [api.autoscaler EXCEPT !.desired = 0])
    /\ Unobserved /\ UNCHANGED pods

CreateAutoscaler ==
    /\ ~api.autoscaler.here
    /\ Put("autoscaler", [here |-> TRUE, desired |-> 0])
    /\ Unobserved /\ UNCHANGED <<pods, spent>>

Edit(spec) ==
    /\ spec # api.astarte
    /\ Edited
    /\ Put("astarte", spec)
    /\ Unobserved /\ UNCHANGED pods

EraseCertificate ==
    /\ api.certificate
    /\ Mishap("erased")
    /\ Put("certificate", FALSE)
    /\ Unobserved /\ UNCHANGED pods
RestoreCertificate ==
    /\ ~api.certificate
    /\ Put("certificate", TRUE)
    /\ Unobserved /\ UNCHANGED <<pods, spent>>

EraseSupport(s) ==
    /\ s \in supports
    /\ Mishap("erased")
    /\ supports' = supports \ {s}
    /\ queued' = (queued \/ s.kind \in Watched)
    /\ UNCHANGED <<api, view, backlog, pods, pc, locals, swallowed>>

\* The next process starts from complete lists.
Restart ==
    /\ Mishap("crashes")
    /\ Fail
    /\ view' = api /\ backlog' = Nothing
    /\ UNCHANGED <<api, supports, pods, swallowed>>

Init ==
    /\ \E spec \in Specs :
          api = [astarte |-> spec, workloads |-> [c \in Components |-> NoWorkload],
                 certificate |-> TRUE,
                 autoscaler |-> [here |-> FALSE, desired |-> 0]]
    /\ view = api /\ backlog = Nothing
    /\ supports = {} /\ pods = "none"
    /\ queued = TRUE /\ pc = "idle" /\ inst = AnySpec /\ rest = <<>>
    /\ swallowed = {}
    /\ spent = [b \in Mishaps \cup {"edits"} |-> 0]

Faults ==
    \/ CallFails \/ Restart \/ MetricsLost
    \/ \E c \in Components : DeletionSwallowed(c) \/ SupportFails(c)
Kubernetes == StartPods \/ ReportPods \/ Autoscale \/ ReportScale
Users ==
    \/ \E spec \in Specs : Edit(spec)
    \/ CreateAutoscaler \/ EraseCertificate \/ RestoreCertificate
    \/ \E s \in supports : EraseSupport(s)

Next ==
    \/ Worker \/ Faults
    \/ \E kind \in Kinds : Deliver(kind)
    \/ Kubernetes \/ Users

Spec == Init /\ [][Next]_vars

FairSpec ==
    /\ Spec
    /\ WF_vars(Worker) /\ \A kind \in Kinds : WF_vars(Deliver(kind))
    /\ WF_vars(StartPods) /\ SF_vars(ReportPods)
    /\ SF_vars(Autoscale) /\ SF_vars(ReportScale)

-----------------------------------------------------------------------------
\* Nothing is left to wake the operator up.  The autoscaler is not watched.
Quiet ==
    /\ pc = "idle" /\ ~queued
    /\ \A kind \in Watched \cap Kinds : backlog[kind] = <<>>

\* The operator rests only once what is deployed is what the latest spec asks
\* for, with the secrets and ConfigMaps that it needs, whatever was erased or
\* failed in between and however late the caches.  A workload of a generic API
\* may stay if its deletion failed: that is logged and not tried again.
QuietMeansDeployed ==
    Quiet =>
      \A c \in Components :
         LET w == api.workloads[c]
         IN  IF Wanted(api.astarte, c)
             THEN /\ w.here /\ w.resources = Allocation(api.astarte, c)
                  /\ w.listener = Terminates(api.astarte, c)
                  /\ c # Scaled => w.replicas = api.astarte.replicas
                  /\ {s \in Support(c) : s.kind \in {"cookie", "config"}}
                       \subseteq supports
             ELSE w.here => c \in swallowed

\* "Do the distribution dance" (GetResourcesForAstarteComponent): at rest the
\* services together ask for no more CPU than is given to all of them, however
\* many are left out or not set, and none has a limit below its request.
Requested(c) ==
    LET given == IF c \in Components \ swallowed THEN api.workloads[c].resources
                 ELSE {}
    IN  IF given = {} THEN 0 ELSE (CHOOSE r \in given : TRUE).requests.cpu
QuietWithinBudget ==
    Quiet =>
      /\ \A total \in api.astarte.total : OverServices(Requested) <= total.requests.cpu
      /\ \A c \in Components : \A r \in api.workloads[c].resources :
            r.requests.cpu <= r.limits.cpu /\ r.requests.memory <= r.limits.memory

\* "To avoid a race condition with HPA, which can lead to the Operator and HPA
\* fighting over replica count" (getReplicaCountForResource): once there is an
\* autoscaler, the replicas settle at what the load asks for, although both
\* write them and the operator reads late what the autoscaler wants.
ReplicasSettle ==
    <>[](/\ api.autoscaler.here /\ api.astarte.autoscale
         /\ Wanted(api.astarte, Scaled))
      => <>[](api.workloads[Scaled].replicas = Need)

\* "If the SSL certificate changed, we should restart VerneMQ pods"
\* (EnsureVerneMQ): once the certificate is there for good the pods are left
\* alone, although each of them that comes up wakes the operator.
BrokerSettles ==
    <>[](api.certificate /\ Wanted(api.astarte, "vernemq")) => <>[](pods = "ready")
=============================================================================
