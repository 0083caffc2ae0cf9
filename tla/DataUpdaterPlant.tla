-------------------------- MODULE DataUpdaterPlant --------------------------
(***************************************************************************)
(* The deployments of Astarte Data Updater Plant: one per replica, each    *)
(* consuming a range of the AMQP data queues                               *)
(* (internal/reconcile/astarte_data_updater_plant.go and the queue ranges  *)
(* of astarte_generic_backend.go), for the Astartes of one namespace.      *)
(*                                                                         *)
(* Users rescale the Data Updater Plant, change the number of queues or    *)
(* switch it off at any moment; a Reconcile works on the spec it has read, *)
(* lists deployments from a cache that lags the API server, and deletes,   *)
(* creates and updates them one call at a time.                            *)
(*                                                                         *)
(* Simplifications: of a Deployment only the range of its queues is        *)
(* modelled, the access rights of its pods are not; the Astartes stay, the *)
(* steps of Reconcile before and after this one are any point at which it  *)
(* may fail.                                                               *)
(***************************************************************************)
EXTENDS Integers, Sequences, FiniteSets

CONSTANTS
    Astartes,     \* the Astartes of the namespace
    MaxReplicas,  \* bound: replicas of a Data Updater Plant
    Replicas,     \* the numbers of replicas users ask for
    QueueCounts,  \* the values of dataQueueCount users ask for
    MaxEdits,     \* bound: edits of a spec by users
    MaxFaults,    \* bound: API calls that fail
    MaxCrashes,   \* bound: restarts of the operator
    MaxBacklog    \* bound: states of the deployments the cache is behind

ASSUME DataUpdaterPlantAssumption ==
    /\ IsFiniteSet(Astartes)
    /\ MaxReplicas \in Nat /\ Replicas \subseteq 0 .. MaxReplicas
    /\ QueueCounts \subseteq Nat
    /\ MaxEdits \in Nat /\ MaxFaults \in Nat /\ MaxCrashes \in Nat
    /\ MaxBacklog \in Nat \ {0}

VARIABLES
    specs,        \* what users ask for
    deployments,  \* the range of each deployment at the API server
    view,         \* the informer's copy of the deployments
    backlog,      \* the states of deployments that the cache has yet to show
    queued,       \* the keys in the work queue
    pc,           \* where the worker is
    cur,          \* the Astarte it reconciles
    want,         \* the spec it has read
    index,        \* replicaIndex
    spent         \* how much of each bound has been used

cluster == <<deployments, backlog>>
vars == <<specs, deployments, view, backlog, queued, pc, cur, want,
          index, spent>>

\* A deployment's name is made of its Astarte's name and its index.
Names == Astartes \X (0 .. MaxReplicas - 1)
Specs == [deploy : BOOLEAN, replicas : Replicas, queues : QueueCounts]

Ranges == [first : Nat, last : Int]
NotDeployed == [first |-> -1, last |-> -1]
Deployments == [Names -> Ranges \cup {NotDeployed}]
Deployed(all) == {n \in Names : all[n] # NotDeployed}
QueuesOf(range) == range.first .. range.last

Budgets == {"edits", "faults", "crashes"}
Bound(what) == CASE what = "edits"   -> MaxEdits [] what = "faults" -> MaxFaults
                 [] what = "crashes" -> MaxCrashes
Spend(what) == /\ spent[what] < Bound(what)
               /\ spent' = [spent EXCEPT ![what] = @ + 1]

-----------------------------------------------------------------------------
\* Mutant: each replica takes one queue more than its share.
QueueRangeInclusive(i, replicas, count) ==
    [first |-> (count \div replicas) * i,
     last  |-> IF i + 1 = replicas THEN count - 1 ELSE (count \div replicas) * (i + 1)]

\* The queues are split evenly; the last replica takes what is left over.
QueueRange(i, replicas, count) ==
    IF replicas <= 1
    THEN [first |-> 0, last |-> count - 1]
    ELSE [first |-> (count \div replicas) * i,
          last  |-> IF i + 1 = replicas THEN count - 1
                    ELSE (count \div replicas) * (i + 1) - 1]

\* The end of EnsureAstarteDataUpdaterPlant, or an error: the key is requeued.
Finish == pc' = "idle" /\ index' = 0
Done == Finish /\ UNCHANGED queued
Fail == Finish /\ queued' = queued \cup {cur}

\* A write to the deployments, which the informer will see.
Put(all) ==
    /\ deployments' = all
    /\ backlog' = IF all = deployments THEN backlog ELSE Append(backlog, all)
Room == Len(backlog) < MaxBacklog

Start(a) ==
    /\ pc = "idle" /\ a \in queued
    /\ pc' = "list" /\ cur' = a /\ want' = specs[a] /\ queued' = queued \ {a}
    /\ UNCHANGED <<specs, view, cluster, index, spent>>

\* Where EnsureAstarteDataUpdaterPlant goes once nothing is in the way.
Rollout == CASE want.replicas = 0 -> "idle" [] want.replicas = 1 -> "roles"
             [] OTHER -> "deployment"

\* Mutant: superfluous deployments are left alone.
ListKeeps ==
    /\ pc = "list"
    /\ pc' = IF want.deploy THEN Rollout ELSE "deleteAll"
    /\ UNCHANGED <<specs, view, cluster, queued, cur, want, index, spent>>

\* The list is of all Data Updater Plants of the namespace.
List ==
    /\ pc = "list"
    /\ pc' = IF Cardinality(Deployed(view)) > want.replicas \/ ~want.deploy
             THEN "deleteAll" ELSE Rollout
    /\ UNCHANGED <<specs, view, cluster, queued, cur, want, index, spent>>

\* So is DeleteAllOf, which may fail half way.
DeleteAll ==
    /\ pc = "deleteAll" /\ Room
    /\ \/ /\ Put([n \in Names |-> NotDeployed])
          /\ pc' = IF want.deploy THEN Rollout ELSE "idle"
          /\ UNCHANGED <<queued, index, spent>>
       \/ /\ \E deleted \in SUBSET Deployed(deployments) :
                Put([n \in Names |-> IF n \in deleted THEN NotDeployed
                                     ELSE deployments[n]])
          /\ Spend("faults") /\ Fail
    /\ UNCHANGED <<specs, view, cur, want>>

\* With one replica, EnsureAstarteGenericBackend first makes the service
\* account and its role, which no later step of it looks at.
EnsureRoles ==
    /\ pc = "roles"
    /\ pc' = "deployment"
    /\ UNCHANGED <<specs, deployments, view, backlog, queued, cur, want, index, spent>>

\* The optimistic lock: what the cache shows of a deployment is what it is.
Current(n) ==
    IF view[n] = NotDeployed THEN deployments[n] = NotDeployed
    ELSE \A j \in 1..Len(backlog) : backlog[j][n] = view[n]

\* Mutant: the loop runs up to and including the number of replicas.
EnsureDeploymentInclusive ==
    LET n == <<cur, index>> IN
    /\ pc = "deployment" /\ Room
    /\ n \in Names => Put([deployments EXCEPT
                               ![n] = QueueRange(index, want.replicas, want.queues)])
    /\ n \notin Names => UNCHANGED <<deployments, backlog>>
    /\ IF index + 1 <= want.replicas
       THEN pc' = pc /\ index' = index + 1 /\ UNCHANGED queued
       ELSE Done
    /\ UNCHANGED <<specs, view, cur, want, spent>>

\* CreateOrUpdate of the deployment with this index, then the next one.
EnsureDeployment ==
    LET n == <<cur, index>> IN
    /\ pc = "deployment" /\ Room
    /\ IF Current(n)
       THEN /\ Put([deployments EXCEPT
                       ![n] = QueueRange(index, want.replicas, want.queues)])
            /\ IF index + 1 < want.replicas
               THEN pc' = pc /\ index' = index + 1 /\ UNCHANGED queued
               ELSE Done
       ELSE Fail /\ UNCHANGED <<deployments, backlog>>
    /\ UNCHANGED <<specs, view, cur, want, spent>>

CallFails ==
    /\ pc # "idle"
    /\ Spend("faults") /\ Fail
    /\ UNCHANGED <<specs, view, cluster, cur, want>>

Worker ==
    \/ \E a \in Astartes : Start(a)
    \/ List \/ DeleteAll \/ EnsureRoles \/ EnsureDeployment

-----------------------------------------------------------------------------
\* The informer shows the next state and enqueues the owners of what changed.
Deliver ==
    /\ backlog # <<>>
    /\ view' = Head(backlog) /\ backlog' = Tail(backlog)
    /\ queued' = queued \cup {a \in Astartes :
                                 \E n \in Names : n[1] = a /\ view'[n] # view[n]}
    /\ UNCHANGED <<specs, deployments, pc, cur, want, index, spent>>

\* The next process starts from complete lists.
Restart ==
    /\ Spend("crashes")
    /\ Finish /\ queued' = Astartes
    /\ view' = deployments /\ backlog' = <<>>
    /\ UNCHANGED <<specs, deployments, cur, want>>

Edit(a) ==
    /\ Spend("edits")
    /\ \E s \in Specs \ {specs[a]} : specs' = [specs EXCEPT ![a] = s]
    /\ queued' = queued \cup {a}
    /\ UNCHANGED <<view, cluster, pc, cur, want, index>>

Environment == CallFails \/ Restart \/ \E a \in Astartes : Edit(a)

Init ==
    /\ specs \in [Astartes -> {s \in Specs : s.deploy}]
    /\ deployments = [n \in Names |-> NotDeployed]
    /\ view = deployments /\ backlog = <<>>
    /\ queued = Astartes
    /\ pc = "idle" /\ cur \in Astartes /\ want = specs[cur] /\ index = 0
    /\ spent = [b \in Budgets |-> 0]

Next == Worker \/ Deliver \/ Environment

Spec == Init /\ [][Next]_vars
FairSpec == /\ Spec
            /\ WF_vars(Deliver)
            /\ WF_vars(List \/ DeleteAll \/ EnsureRoles \/ EnsureDeployment)
            /\ \A a \in Astartes : SF_vars(Start(a))

\* An operator that reads its own writes.
PromptNext == (Worker /\ backlog = <<>>) \/ Deliver \/ Environment
PromptSpec == Init /\ [][PromptNext]_vars

-----------------------------------------------------------------------------
TypeOK ==
    /\ specs \in [Astartes -> Specs]
    /\ deployments \in Deployments /\ view \in Deployments
    /\ backlog \in Seq(Deployments)
    /\ queued \subseteq Astartes
    /\ pc \in {"idle", "list", "deleteAll", "roles", "deployment"}
    /\ cur \in Astartes /\ want \in Specs
    /\ index \in IF pc = "deployment" THEN 0 .. want.replicas - 1 ELSE {0}
    /\ pc = "roles" => want.replicas = 1
    /\ spent \in [Budgets -> Nat]

\* Messages of a device are processed in order because its queue has one
\* consumer: while deployments are replaced one by one no queue is given to
\* two of them, as long as the operator reads its own writes, no call fails, it
\* does not restart and the number of queues stays.
RangesDisjoint ==
    \A m, n \in Deployed(deployments) :
       m # n /\ m[1] = n[1] =>
          QueuesOf(deployments[m]) \cap QueuesOf(deployments[n]) = {}

\* Why: the deployments of an Astarte are those of one number of replicas, r,
\* and the worker, going upwards, has replaced the first index of them by those
\* of a number that is not smaller.  With fewer replicas it starts from none.
RolledOut(a, r) ==
    \A n \in Names : n[1] = a =>
       deployments[n] =
          IF a = cur /\ pc = "deployment" /\ n[2] < index
          THEN QueueRange(n[2], want.replicas, want.queues)
          ELSE IF n[2] < r THEN QueueRange(n[2], r, want.queues) ELSE NotDeployed

Synced == IF backlog = <<>> THEN view = deployments
          ELSE backlog[Len(backlog)] = deployments

PlantInv ==
    /\ TypeOK
    /\ Synced
    /\ \A a \in Astartes : \E r \in Replicas \cup {0} :
          /\ RolledOut(a, r)
          /\ a = cur /\ pc \in {"roles", "deployment"} => r <= want.replicas

\* "managing queue allocation over different replicas": once users leave the
\* specs alone, every queue of an Astarte is the business of exactly one of
\* its deployments, and what is switched off is not deployed.
Allocated(a) ==
    LET own == {n \in Deployed(deployments) : n[1] = a} IN
    IF specs[a].deploy
    THEN /\ Cardinality(own) = specs[a].replicas
         /\ specs[a].replicas > 0 =>
               \A q \in 0 .. specs[a].queues - 1 :
                  Cardinality({n \in own : q \in QueuesOf(deployments[n])}) = 1
    ELSE own = {}
AllocationSettles == <>[](\A a \in Astartes : Allocated(a))
=============================================================================
