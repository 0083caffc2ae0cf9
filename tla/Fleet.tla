------------------------------- MODULE Fleet -------------------------------
(***************************************************************************)
(* What the Astartes of a cluster share: the instance IDs, which the       *)
(* webhook keeps apart when an Astarte is admitted                         *)
(* (api/api/v2alpha1/astarte_webhook.go), and three PriorityClasses, which *)
(* each Astarte ensures (internal/reconcile/astarte_priorityclass.go) and  *)
(* the finalization of any of them deletes                                 *)
(* (internal/controllerutils/astarte_finalizer.go).                        *)
(*                                                                         *)
(* The webhook and the worker read informers, which show the API server's  *)
(* states one after the other and some time after they were written.  An   *)
(* Astarte is admitted first and stored later.  What changes an object     *)
(* that exists is admitted too, the operator's own updates included.       *)
(*                                                                         *)
(* Simplifications: an Astarte that is gone is not created again under its *)
(* name; Astartes are in one namespace and name one secret; status,        *)
(* upgrades, volumes and what else a Reconcile deploys are left to         *)
(* AstarteController.                                                      *)
(***************************************************************************)
EXTENDS Integers, Sequences, FiniteSets

CONSTANTS
    Astartes,    \* names
    IDs,         \* instance IDs, the empty one included
    Specs,       \* the specs that users give
    MaxLag,      \* bound: states that the informers are behind by, together
    MaxEdits,    \* bound: edits and deletions of Astartes, together
    MaxMishaps   \* bound: secrets erased, API calls that fail and restarts of
                 \*        the operator, together

\* In the order in which they are ensured.
Levels == {"high", "mid", "low"}
First(levels) ==
    IF "high" \in levels THEN "high"
    ELSE IF "mid" \in levels THEN "mid" ELSE "low"

\* centers: the replication factor of each datacenter, 0 for an item that does
\* not give one.  priorities: the values, if the feature is enabled.  reserved:
\* a pod label of the operator is used.  scaled: the Data Updater Plant has an
\* autoscaler.
Keyspaces == [simple : BOOLEAN, factor : Int, centers : SUBSET Int]
AstarteSpecs ==
    [id : IDs, keyspace : Keyspaces, listener : {"off", "unnamed", "named"},
     priorities : SUBSET [Levels -> Nat], reserved : BOOLEAN, scaled : BOOLEAN,
     cfssl : {"deployed", "url", "nourl", "malformed"}]

ASSUME FleetAssumption ==
    /\ IsFiniteSet(Astartes)
    /\ Specs \subseteq AstarteSpecs
    /\ \A s \in Specs : \A p, q \in s.priorities : p = q
    /\ MaxLag \in Nat /\ MaxEdits \in Nat /\ MaxMishaps \in Nat

VARIABLES
    api,         \* the objects at the API server
    view,        \* the objects in the informers' caches
    backlog,     \* per kind, the states that the cache has yet to show
    admitted,    \* per name, the spec that was admitted and not stored yet
    created,     \* the names that have been used
    queue,       \* the keys in the work queue
    pc, cur,     \* where the worker is, and with which Astarte
    inst,        \* the Astarte it reconciles, as it was read or last written
    rest,        \* the classes that it has yet to ensure or to delete
    blind,       \* history: pairs admitted while one was not shown to the other
    missed,      \* history: classes that no finalization was shown
    robbed,      \* history: Astartes whose classes another's finalization
                 \*          deleted since they were last reconciled, or
                 \*          before, while the cache still showed them
    spent        \* how much of each bound has been used

worker == <<pc, cur, inst, rest>>
history == <<blind, missed, robbed>>
vars == <<api, view, backlog, admitted, created, queue, worker, history, spent>>

\* rev: the resourceVersion.  An Astarte that is not there is the empty set, and
\* so is a class; a class is its value.
Records ==
    [spec : Specs, finalizer : BOOLEAN, deleted : BOOLEAN, rev : Nat]
Directories == [Astartes -> SUBSET Records]
Classes == [Levels -> SUBSET Nat]
Values == [astartes |-> Directories, classes |-> Classes, secret |-> BOOLEAN]
Objects == [astartes : Directories, classes : Classes, secret : BOOLEAN]

Kinds == {"astartes", "classes", "secret"}
Nothing == [k \in Kinds |-> <<>>]
NoOne == "none"

Mishaps == {"erased", "faults", "crashes"}
Spend(what) == spent' = [spent EXCEPT ![what] = @ + 1]
Mishap(what) ==
    /\ spent["erased"] + spent["faults"] + spent["crashes"] < MaxMishaps
    /\ Spend(what)
Edited == spent["edits"] < MaxEdits /\ Spend("edits")

There(a) == api.astartes[a] # {}
Stored(a) == {r.spec : r \in api.astartes[a]}

-----------------------------------------------------------------------------
(* The webhook.                                                            *)

Odd(n) == n % 2 = 1

\* validateCreateAstarteSystemKeyspace.
KeyspaceValid(k) ==
    IF k.simple THEN Odd(k.factor) ELSE \A factor \in k.centers : Odd(factor)

\* validatePriorityClassesValues.
PrioritiesValid(s) ==
    \A p \in s.priorities : p["mid"] < p["high"] /\ p["low"] < p["mid"]

\* validateSSLListener reads the cache.
ListenerValid(s) ==
    s.listener = "off" \/ (s.listener = "named" /\ view.secret)

\* validatePodLabelsForClusteredResources.
LabelsValid(s) == ~s.reserved

\* validateAutoscalerForClusteredResources.
AutoscalerValid(s) == ~s.scaled

\* validateCFSSLDefinition.
CFSSLValid(s) == s.cfssl \in {"deployed", "url"}

\* validateAstarte.
Valid(s) ==
    /\ ListenerValid(s) /\ PrioritiesValid(s) /\ LabelsValid(s)
    /\ AutoscalerValid(s) /\ CFSSLValid(s)

\* validateCreateAstarteInstanceID lists the cache.
IDUnused(s) == \A b \in Astartes : \A r \in view.astartes[b] : r.spec.id # s.id

\* ValidateCreate.
CreationValid(s) == IDUnused(s) /\ KeyspaceValid(s.keyspace) /\ Valid(s)

\* validateUpdateAstarteInstanceID and validateUpdateAstarteSystemKeyspace.
IDKept(old, s) == s.id = old.id
KeyspaceKept(old, s) == s.keyspace = old.keyspace

\* Mutant: the instance ID may be changed.
UpdateValidButID(old, s) == KeyspaceKept(old, s) /\ Valid(s)

\* ValidateUpdate.
UpdateValid(old, s) == IDKept(old, s) /\ KeyspaceKept(old, s) /\ Valid(s)

-----------------------------------------------------------------------------
(* Steps that Reconcile is made of.                                        *)

\* A write, which the kind's informer will see.
Lag ==
    Len(backlog["astartes"]) + Len(backlog["classes"]) + Len(backlog["secret"])
Put(kind, value) ==
    /\ Lag < MaxLag
    /\ api' = [api EXCEPT ![kind] = value]
    /\ backlog' = [backlog EXCEPT ![kind] = Append(@, value)]
PutAstarte(a, records) ==
    Put("astartes", [api.astartes EXCEPT ![a] = records])
PutClass(l, values) == Put("classes", [api.classes EXCEPT ![l] = values])
Untouched == UNCHANGED <<api, backlog>>
Aside == UNCHANGED <<view, admitted, created, spent>>

Forget == pc' = "idle" /\ cur' = NoOne /\ inst' = {} /\ rest' = {}
Finish == Forget /\ UNCHANGED queue

\* Mutant: a Reconcile that failed is not tried again.
FailForgotten == Forget /\ UNCHANGED queue
\* The key goes back to the work queue.
Fail == Forget /\ queue' = queue \cup {cur}
\* An error at a call that changes nothing.
Abort == Fail /\ Untouched

\* On with the next class.
Proceed(levels) ==
    /\ rest' = levels
    /\ UNCHANGED <<queue, pc, cur, inst>>

\* A deleted Astarte is finalized if it has the finalizer.
Start(a) ==
    /\ pc = "idle" /\ a \in queue
    /\ queue' = queue \ {a}
    /\ IF \E r \in view.astartes[a] : ~r.deleted \/ r.finalizer
       THEN /\ cur' = a /\ inst' = view.astartes[a]
            /\ pc' = IF \E r \in view.astartes[a] : r.deleted THEN "list"
                     ELSE IF \E r \in view.astartes[a] : r.finalizer
                     THEN "ensure" ELSE "finalizer"
            /\ rest' = IF \E r \in view.astartes[a] : r.spec.priorities # {}
                       THEN Levels ELSE {}
       ELSE UNCHANGED worker
    /\ robbed' = robbed \ {a}
    /\ Untouched /\ Aside /\ UNCHANGED <<blind, missed>>

\* An update of what was read fails if that has changed since; it is admitted.
Accepted ==
    /\ inst = api.astartes[cur]
    /\ \A r \in inst : UpdateValid(r.spec, r.spec)

\* addFinalizer.
AddFinalizer ==
    /\ pc = "finalizer"
    /\ IF Accepted
       THEN /\ inst' =
                 {[r EXCEPT !.finalizer = TRUE, !.rev = @ + 1] : r \in inst}
            /\ PutAstarte(cur, inst')
            /\ pc' = "ensure" /\ UNCHANGED <<queue, cur, rest>>
       ELSE Abort
    /\ Aside /\ UNCHANGED history

\* Mutant: a class that is there will do, whatever its value.
SuitsAnyhow(l, value) == view.classes[l] # {}
\* The class is shown as CreateOrUpdate wants it.
Suits(l, value) == view.classes[l] = {value}

\* EnsureAstartePriorityClasses.  The API server refuses to change a value.
EnsureClass ==
    /\ pc = "ensure" /\ rest # {}
    /\ \E r \in inst : \E p \in r.spec.priorities :
          LET l == First(rest)
          IN  /\ \/ Suits(l, p[l]) /\ Untouched /\ Proceed(rest \ {l})
                 \/ /\ view.classes[l] = {} /\ api.classes[l] = {}
                    /\ PutClass(l, {p[l]}) /\ Proceed(rest \ {l})
                 \/ view.classes[l] = {} /\ api.classes[l] # {} /\ Abort
                 \/ view.classes[l] # {} /\ ~Suits(l, p[l]) /\ Abort
              /\ robbed' = IF view.classes[l] # {} /\ api.classes[l] = {}
                           THEN robbed \cup {cur} ELSE robbed
    /\ Aside /\ UNCHANGED <<blind, missed>>

\* The Reconcile goes on to what is not modelled here, and ends.
Ensured ==
    /\ pc = "ensure" /\ rest = {}
    /\ Finish
    /\ Untouched /\ Aside /\ UNCHANGED history

\* finalizePriorityClasses, which also serves other Astartes' classes.
ListClasses ==
    /\ pc = "list"
    /\ rest' = {l \in Levels : view.classes[l] # {}}
    /\ missed' = missed \cup
                   {l \in Levels : view.classes[l] = {} /\ api.classes[l] # {}}
    /\ pc' = "delete" /\ UNCHANGED <<queue, cur, inst>>
    /\ Untouched /\ Aside /\ UNCHANGED <<blind, robbed>>

\* "A PriorityClass will need to be manually removed": also the error that it
\* is no longer there is returned.
DeleteClass ==
    /\ pc = "delete"
    /\ \E l \in rest :
          \/ /\ api.classes[l] # {}
             /\ PutClass(l, {}) /\ Proceed(rest \ {l})
             /\ robbed' = robbed \cup {b \in Astartes \ {cur} : There(b)}
             /\ missed' = missed \ {l}
          \/ api.classes[l] = {} /\ Abort /\ UNCHANGED <<robbed, missed>>
    /\ Aside /\ UNCHANGED blind

\* Mutant: the finalizer goes whatever there is left to delete.
RemoveFinalizerEarly ==
    /\ pc = "delete"
    /\ IF Accepted THEN PutAstarte(cur, {}) /\ Finish ELSE Abort
    /\ Aside /\ UNCHANGED history

\* handleFinalization: without its finalizer the Astarte is gone.
RemoveFinalizer ==
    /\ pc = "delete" /\ rest = {}
    /\ IF Accepted THEN PutAstarte(cur, {}) /\ Finish ELSE Abort
    /\ Aside /\ UNCHANGED history

Steps ==
    \/ AddFinalizer \/ EnsureClass \/ Ensured
    \/ ListClasses \/ DeleteClass \/ RemoveFinalizer

\* Any call may return an error.
CallFails ==
    /\ pc # "idle"
    /\ Mishap("faults")
    /\ Abort
    /\ UNCHANGED <<view, admitted, created, history>>

-----------------------------------------------------------------------------
(* The informers and the users.                                            *)

\* SetupWithManager: an Astarte that comes, goes, or whose generation changes,
\* and all Astartes when a secret changes.  PriorityClasses are not watched.
Woken(kind, new) ==
    CASE kind = "astartes" ->
           {a \in Astartes :
              {[s |-> r.spec, d |-> r.deleted] : r \in view.astartes[a]}
                # {[s |-> r.spec, d |-> r.deleted] : r \in new[a]}}
      [] kind = "secret"   -> {a \in Astartes : view.astartes[a] # {}}
      [] kind = "classes"  -> {}

\* The informer shows the next state.
Deliver(kind) ==
    /\ backlog[kind] # <<>>
    /\ view' = [view EXCEPT ![kind] = Head(backlog[kind])]
    /\ queue' = queue \cup Woken(kind, Head(backlog[kind]))
    /\ backlog' = [backlog EXCEPT ![kind] = Tail(@)]
    /\ UNCHANGED <<api, admitted, created, worker, history, spent>>

Unobserved == UNCHANGED <<view, queue, worker, missed, robbed>>

\* What the webhook cannot see: Astartes that are stored but not shown, and
\* those that are admitted but not stored.
Unseen ==
    {b \in Astartes : There(b) /\ view.astartes[b] = {}}
      \cup {b \in Astartes : admitted[b] # {}}

Admit(a, s) ==
    /\ a \notin created
    /\ CreationValid(s)
    /\ admitted' = [admitted EXCEPT ![a] = {s}]
    /\ created' = created \cup {a}
    /\ blind' = blind \cup {{a, b} : b \in Unseen}
    /\ Untouched /\ Unobserved /\ UNCHANGED spent

Store(a) ==
    /\ admitted[a] # {}
    /\ PutAstarte(a, {[spec |-> s, finalizer |-> FALSE, deleted |-> FALSE,
                       rev |-> 1] : s \in admitted[a]})
    /\ admitted' = [admitted EXCEPT ![a] = {}]
    /\ Unobserved /\ UNCHANGED <<created, blind, spent>>

Edit(a, s) ==
    /\ \E r \in api.astartes[a] :
          /\ s # r.spec /\ UpdateValid(r.spec, s)
          /\ PutAstarte(a, {[r EXCEPT !.spec = s, !.rev = @ + 1]})
    /\ Edited
    /\ Unobserved /\ UNCHANGED <<admitted, created, blind>>

\* An Astarte with a finalizer is only marked.
Delete(a) ==
    /\ \E r \in api.astartes[a] :
          /\ ~r.deleted
          /\ PutAstarte(a, IF r.finalizer
                           THEN {[r EXCEPT !.deleted = TRUE, !.rev = @ + 1]}
                           ELSE {})
    /\ Edited
    /\ Unobserved /\ UNCHANGED <<admitted, created, blind>>

EraseSecret ==
    /\ api.secret
    /\ Mishap("erased")
    /\ Put("secret", FALSE)
    /\ Unobserved /\ UNCHANGED <<admitted, created, blind>>
RestoreSecret ==
    /\ ~api.secret
    /\ Put("secret", TRUE)
    /\ Unobserved /\ UNCHANGED <<admitted, created, blind, spent>>

\* The next process starts from complete lists, and with all Astartes queued.
Restart ==
    /\ Mishap("crashes")
    /\ Forget
    /\ queue' = {a \in Astartes : There(a)}
    /\ view' = api /\ backlog' = Nothing
    /\ UNCHANGED <<api, admitted, created, history>>

Users ==
    \/ \E a \in Astartes :
          Store(a) \/ Delete(a) \/ \E s \in Specs : Admit(a, s) \/ Edit(a, s)
    \/ EraseSecret \/ RestoreSecret

Init ==
    /\ api = [astartes |-> [a \in Astartes |-> {}],
              classes |-> [l \in Levels |-> {}], secret |-> TRUE]
    /\ view = api /\ backlog = Nothing
    /\ admitted = [a \in Astartes |-> {}] /\ created = {}
    /\ queue = {} /\ pc = "idle" /\ cur = NoOne /\ inst = {} /\ rest = {}
    /\ blind = {} /\ missed = {} /\ robbed = {}
    /\ spent = [b \in Mishaps \cup {"edits"} |-> 0]

Next ==
    \/ \E a \in Astartes : Start(a)
    \/ Steps \/ CallFails \/ Restart
    \/ \E kind \in Kinds : Deliver(kind)
    \/ Users

Spec == Init /\ [][Next]_vars

FairSpec ==
    /\ Spec
    /\ \A a \in Astartes : SF_vars(Start(a))
    /\ WF_vars(Steps) /\ \A kind \in Kinds : WF_vars(Deliver(kind))

-----------------------------------------------------------------------------
TypeOK ==
    /\ api \in Objects /\ view \in Objects
    /\ DOMAIN backlog = Kinds /\ \A k \in Kinds : backlog[k] \in Seq(Values[k])
    /\ admitted \in [Astartes -> SUBSET Specs] /\ created \subseteq Astartes
    /\ queue \subseteq Astartes
    /\ pc \in {"idle", "finalizer", "ensure", "list", "delete"}
    /\ pc # "idle" => cur \in Astartes
    /\ inst \subseteq Records /\ rest \subseteq Levels
    /\ blind \subseteq SUBSET Astartes
    /\ missed \subseteq Levels /\ robbed \subseteq Astartes
    /\ spent \in [Mishaps \cup {"edits"} -> Nat]

\* "AstarteInstanceID is the unique ID that is associated with an Astarte
\* instance" (AstarteSpec), by which Astartes share a database: two have the
\* same only if the later admission could not know of the earlier one, whatever
\* is edited, deleted or admitted before and after.
UniqueIDs ==
    \A a, b \in Astartes :
       a # b /\ {a, b} \notin blind =>
         \A s \in Stored(a), t \in Stored(b) : s.id # t.id

\* "Last but not least, we remove the PriorityClasses introduced by Astarte"
\* (FinalizeAstarte): once no Astarte has the finalizer no class is left, unless
\* it was created so shortly before that the cached list did not show it.
NoOrphanClasses ==
    (\A a \in Astartes : \A r \in api.astartes[a] : ~r.finalizer)
      => \A l \in Levels : api.classes[l] # {} => l \in missed

\* Nothing is left to wake the operator up: PriorityClasses are not watched.
Quiet ==
    /\ pc = "idle" /\ queue = {}
    /\ backlog["astartes"] = <<>> /\ backlog["secret"] = <<>>

\* The operator rests only once an Astarte has the classes it asks for, with its
\* values, although others ensure the same three and a value cannot be changed.
\* The code does not promise it to an Astarte from which the finalization of
\* another takes a class: not until it is reconciled for another reason, with a
\* cache that shows the deletion.
QuietMeansPrioritized ==
    Quiet => \A a \in Astartes \ robbed : \A r \in api.astartes[a] :
               ~r.deleted =>
                 \A p \in r.spec.priorities : \A l \in Levels :
                   api.classes[l] = {p[l]}

\* "If the finalization logic fails, don't remove the finalizer so that we can
\* retry" (handleFinalization): a deleted Astarte goes away, although other
\* Astartes create and delete the same classes, fail on them for ever, and the
\* update that removes its finalizer is admitted by a webhook that wants the
\* listener's secret.
DeletionsComplete ==
    <>[]api.secret =>
      \A a \in Astartes :
         (\E r \in api.astartes[a] : r.deleted) ~> ~There(a)
=============================================================================
