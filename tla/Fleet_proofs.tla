---------------------------- MODULE Fleet_proofs ----------------------------
(* What holds of Fleet for any Astartes, IDs, specs and bounds: the type    *)
(* invariant, that the webhook keeps instance IDs apart, that no priority   *)
(* class is left without an Astarte, and that at rest an Astarte has the    *)
(* classes it asks for.                                                     *)
EXTENDS Fleet, BacklogLemmas, SequenceTheorems, TLAPS

-----------------------------------------------------------------------------
(* Facts about the operators.                                              *)

\* The part of the type invariant that writes can disturb.
StoreOK ==
    /\ api \in Objects
    /\ DOMAIN backlog = Kinds /\ \A k \in Kinds : backlog[k] \in Seq(Values[k])

\* What the worker has gathered is of its kind.
LocalsOK ==
    /\ queue \subseteq Astartes
    /\ pc \in {"idle", "finalizer", "ensure", "list", "delete"}
    /\ pc # "idle" => cur \in Astartes
    /\ inst \subseteq Records /\ rest \subseteq Levels

HistoryOK ==
    blind \subseteq SUBSET Astartes /\ missed \subseteq Levels /\ robbed \subseteq Astartes

\* A write changes the objects of one kind to what is written, and adds it to
\* what the informer of that kind will show.
LEMMA PutWrites ==
  ASSUME TypeOK, NEW kind \in Kinds, NEW value \in Values[kind], Put(kind, value)
  PROVE  /\ StoreOK' /\ api'[kind] = value
         /\ backlog'[kind] = Append(backlog[kind], value)
         /\ \A k \in Kinds : k # kind => /\ api'[k] = api[k]
                                         /\ backlog'[k] = backlog[k]
<1>1. api' = [api EXCEPT ![kind] = value]
      /\ backlog' = [backlog EXCEPT ![kind] = Append(@, value)]
  BY DEF Put
<1>2. api' \in Objects /\ api'[kind] = value
      /\ \A k \in Kinds : k # kind => api'[k] = api[k]
  <2>1. api \in Objects /\ kind \in Kinds /\ value \in Values[kind]
    BY DEF TypeOK
  <2>2. CASE kind = "astartes"
    BY <1>1, <2>1, <2>2 DEF Objects, Values, Kinds
  <2>3. CASE kind = "classes"
    BY <1>1, <2>1, <2>3 DEF Objects, Values, Kinds
  <2>4. CASE kind = "secret"
    BY <1>1, <2>1, <2>4 DEF Objects, Values, Kinds
  <2> QED
    BY <2>2, <2>3, <2>4 DEF Kinds
<1>3. /\ DOMAIN backlog' = Kinds /\ \A k \in Kinds : backlog'[k] \in Seq(Values[k])
      /\ backlog'[kind] = Append(backlog[kind], value)
      /\ \A k \in Kinds : k # kind => backlog'[k] = backlog[k]
  <2> DEFINE V(k) == Values[k]
  <2>1. \A k \in Kinds : backlog[k] \in Seq(V(k))
    BY DEF TypeOK
  <2>2. value \in V(kind) /\ DOMAIN backlog = Kinds
    BY DEF TypeOK
  <2> HIDE DEF V
  <2>3. Append(backlog[kind], value) \in Seq(V(kind))
    BY <2>1, <2>2
  <2>4. /\ DOMAIN backlog' = Kinds /\ \A k \in Kinds : backlog'[k] \in Seq(V(k))
        /\ backlog'[kind] = Append(backlog[kind], value)
        /\ \A k \in Kinds : k # kind => backlog'[k] = backlog[k]
    BY <1>1, <2>1, <2>2, <2>3
  <2> QED
    BY <2>4 DEF V
<1> QED
  BY <1>2, <1>3 DEF StoreOK

\* The objects are those of the three kinds.
LEMMA ObjectsHave ==
  ASSUME NEW o \in Objects
  PROVE  /\ o.astartes \in Directories /\ o.classes \in Classes
         /\ o.secret \in BOOLEAN
         /\ \A a \in Astartes : o.astartes[a] \subseteq Records
  BY DEF Objects, Directories

\* What the updates of an Astarte make of it.
LEMMA RecordsEdited ==
  ASSUME NEW r \in Records, NEW s \in Specs
  PROVE  /\ [r EXCEPT !.finalizer = TRUE, !.rev = @ + 1] \in Records
         /\ [r EXCEPT !.finalizer = TRUE, !.rev = @ + 1].spec = r.spec
         /\ [r EXCEPT !.deleted = TRUE, !.rev = @ + 1] \in Records
         /\ [r EXCEPT !.deleted = TRUE, !.rev = @ + 1].spec = r.spec
         /\ [r EXCEPT !.spec = s, !.rev = @ + 1] \in Records
         /\ [r EXCEPT !.spec = s, !.rev = @ + 1].spec = s
         /\ r.spec \in Specs
<1>1. r.spec \in Specs /\ r.rev + 1 \in Nat
  BY DEF Records
<1> QED
  BY <1>1 DEF Records

\* A write of one Astarte.
LEMMA PutAstarteWrites ==
  ASSUME TypeOK, NEW a \in Astartes, NEW records \in SUBSET Records,
         PutAstarte(a, records)
  PROVE  /\ StoreOK' /\ api'.astartes = [api.astartes EXCEPT ![a] = records]
         /\ backlog'["astartes"] =
              Append(backlog["astartes"], [api.astartes EXCEPT ![a] = records])
         /\ api'.classes = api.classes /\ backlog'["classes"] = backlog["classes"]
<1> DEFINE new == [api.astartes EXCEPT ![a] = records]
<1>1. new \in Directories
  BY ObjectsHave DEF TypeOK, Directories
<1>2. Put("astartes", new)
  BY DEF PutAstarte
<1> HIDE DEF new
<1>3. /\ "astartes" \in Kinds /\ "classes" \in Kinds
      /\ new \in Values["astartes"]
  BY <1>1 DEF Kinds, Values
<1>4. StoreOK' /\ api'.astartes = new
      /\ backlog'["astartes"] = Append(backlog["astartes"], new)
      /\ api'.classes = api.classes /\ backlog'["classes"] = backlog["classes"]
  BY <1>2, <1>3, PutWrites
<1> QED
  BY <1>4 DEF new

\* A write of one class.
LEMMA PutClassWrites ==
  ASSUME TypeOK, NEW l \in Levels, NEW values \in SUBSET Nat, PutClass(l, values)
  PROVE  /\ StoreOK' /\ api'.astartes = api.astartes
         /\ backlog'["astartes"] = backlog["astartes"]
         /\ api'.classes = [api.classes EXCEPT ![l] = values]
         /\ backlog'["classes"] = Append(backlog["classes"], api'.classes)
<1> DEFINE new == [api.classes EXCEPT ![l] = values]
<1>1. new \in Classes
  BY ObjectsHave DEF TypeOK, Classes
<1>2. Put("classes", new)
  BY DEF PutClass
<1> HIDE DEF new
<1>3. "classes" \in Kinds /\ "astartes" \in Kinds /\ new \in Values["classes"]
  BY <1>1 DEF Kinds, Values
<1>4. /\ StoreOK' /\ api'.astartes = api.astartes
      /\ backlog'["astartes"] = backlog["astartes"]
      /\ api'.classes = new /\ backlog'["classes"] = Append(backlog["classes"], new)
  BY <1>2, <1>3, PutWrites
<1> QED
  BY <1>4 DEF new

\* A write of the secret.
LEMMA PutSecretWrites ==
  ASSUME TypeOK, NEW there \in BOOLEAN, Put("secret", there)
  PROVE  /\ StoreOK' /\ api'.astartes = api.astartes
         /\ backlog'["astartes"] = backlog["astartes"]
         /\ api'.classes = api.classes /\ backlog'["classes"] = backlog["classes"]
<1>1. /\ "secret" \in Kinds /\ "astartes" \in Kinds /\ "classes" \in Kinds
      /\ there \in Values["secret"]
  BY DEF Kinds, Values
<1> QED
  BY <1>1, PutWrites

\* What an informer shows next, and what it keeps.
LEMMA DeliverShows ==
  ASSUME TypeOK, NEW kind \in Kinds, Deliver(kind)
  PROVE  /\ backlog[kind] # <<>> /\ view' \in Objects
         /\ view'[kind] = Head(backlog[kind])
         /\ backlog'[kind] = Tail(backlog[kind])
         /\ DOMAIN backlog' = Kinds /\ \A k \in Kinds : backlog'[k] \in Seq(Values[k])
         /\ \A k \in Kinds : k # kind => /\ view'[k] = view[k]
                                         /\ backlog'[k] = backlog[k]
<1> DEFINE V(k) == Values[k]
           new == Head(backlog[kind])
<1>1. DOMAIN backlog = Kinds /\ \A k \in Kinds : backlog[k] \in Seq(V(k))
  BY DEF TypeOK
<1>2. /\ backlog[kind] # <<>>
      /\ view' = [view EXCEPT ![kind] = new]
      /\ backlog' = [backlog EXCEPT ![kind] = Tail(@)]
  BY DEF Deliver
<1> HIDE DEF V
<1>3. new \in V(kind) /\ Tail(backlog[kind]) \in Seq(V(kind))
  BY <1>1, <1>2, HeadTailProperties
<1>4. /\ backlog'[kind] = Tail(backlog[kind])
      /\ DOMAIN backlog' = Kinds /\ \A k \in Kinds : backlog'[k] \in Seq(V(k))
      /\ \A k \in Kinds : k # kind => backlog'[k] = backlog[k]
  BY <1>1, <1>2, <1>3
<1>5. new \in Values[kind] /\ \A k \in Kinds : backlog'[k] \in Seq(Values[k])
  BY <1>3, <1>4 DEF V
<1> HIDE DEF new
<1>6. view \in Objects
  BY DEF TypeOK
<1>7. view' \in Objects /\ view'[kind] = new
      /\ \A k \in Kinds : k # kind => view'[k] = view[k]
  <2>1. CASE kind = "astartes"
    BY <1>2, <1>5, <1>6, <2>1 DEF Objects, Values, Kinds
  <2>2. CASE kind = "classes"
    BY <1>2, <1>5, <1>6, <2>2 DEF Objects, Values, Kinds
  <2>3. CASE kind = "secret"
    BY <1>2, <1>5, <1>6, <2>3 DEF Objects, Values, Kinds
  <2> QED
    BY <2>1, <2>2, <2>3 DEF Kinds
<1> QED
  BY <1>2, <1>4, <1>5, <1>7 DEF new

-----------------------------------------------------------------------------
(* The type invariant.                                                     *)

LEMMA InitTypes == Init => TypeOK
<1> SUFFICES ASSUME Init PROVE TypeOK
  OBVIOUS
<1>1. api \in Objects /\ view \in Objects
  BY DEF Init, Objects, Directories, Classes
<1>2. DOMAIN backlog = Kinds /\ \A k \in Kinds : backlog[k] \in Seq(Values[k])
  <2>1. \A S : <<>> \in Seq(S)
    OBVIOUS
  <2> QED
    BY <2>1 DEF Init, Nothing
<1>3. spent \in [Mishaps \cup {"edits"} -> Nat]
  BY DEF Init
<1>4. admitted \in [Astartes -> SUBSET Specs]
  BY DEF Init
<1> QED
  BY <1>1, <1>2, <1>3, <1>4 DEF Init, TypeOK

\* A step of the worker.
LEMMA StepTypes == TypeOK /\ Steps => TypeOK'
<1> SUFFICES ASSUME TypeOK, Steps PROVE TypeOK'
  OBVIOUS
<1>a. StoreOK /\ LocalsOK /\ HistoryOK
  BY DEF TypeOK, StoreOK, LocalsOK, HistoryOK
<1>b. pc # "idle" /\ Aside
  BY DEF Steps, AddFinalizer, EnsureClass, Ensured, ListClasses, DeleteClass,
         RemoveFinalizer
<1>c. StoreOK' /\ LocalsOK' /\ HistoryOK' => TypeOK'
  BY <1>b DEF Aside, TypeOK, StoreOK, LocalsOK, HistoryOK
<1>d. Abort => StoreOK' /\ LocalsOK'
  BY <1>a, <1>b DEF Abort, Fail, Forget, Untouched, StoreOK, LocalsOK
<1>e. Untouched => StoreOK'
  BY <1>a DEF Untouched, StoreOK
<1>f. \A levels \in SUBSET Levels : Proceed(levels) => LocalsOK'
  BY <1>a DEF Proceed, LocalsOK
<1>g. Finish => LocalsOK'
  BY <1>a DEF Finish, Forget, LocalsOK
<1>h. UNCHANGED history => HistoryOK'
  BY <1>a DEF history, HistoryOK
<1>i. \A l \in rest : l \in Levels
  BY <1>a DEF LocalsOK
<1>1. CASE AddFinalizer
  <2>1. CASE Abort
    BY <1>1, <2>1, <1>c, <1>d, <1>h DEF AddFinalizer
  <2>2. CASE ~Abort
    <3>1. inst' \in SUBSET Records
      <4>1. inst' = {[r EXCEPT !.finalizer = TRUE, !.rev = @ + 1] : r \in inst}
        BY <1>1, <2>2 DEF AddFinalizer
      <4>2. \A r \in inst : r \in Records /\ r.spec \in Specs
        BY <1>a DEF LocalsOK, Records
      <4>3. \A r \in inst : [r EXCEPT !.finalizer = TRUE, !.rev = @ + 1] \in Records
        BY <4>2, RecordsEdited
      <4> QED
        BY <4>1, <4>3
    <3>2. PutAstarte(cur, inst') /\ UNCHANGED <<queue, cur, rest>> /\ pc' = "ensure"
      BY <1>1, <2>2 DEF AddFinalizer
    <3>3. PICK records \in SUBSET Records : records = inst'
      BY <3>1
    <3>4. StoreOK'
      BY <3>2, <3>3, <1>a, <1>b, PutAstarteWrites DEF LocalsOK
    <3>5. LocalsOK'
      BY <3>1, <3>2, <1>a, <1>b DEF LocalsOK
    <3> QED
      BY <1>1, <3>4, <3>5, <1>c, <1>h DEF AddFinalizer
  <2> QED
    BY <2>1, <2>2
<1>2. CASE EnsureClass
  <2> DEFINE l == First(rest)
  <2>1. PICK r \in inst : \E p \in r.spec.priorities :
          \/ Untouched /\ Proceed(rest \ {l})
          \/ PutClass(l, {p[l]}) /\ Proceed(rest \ {l})
          \/ Abort
    BY <1>2 DEF EnsureClass
  <2>2. l \in Levels
    BY DEF First, Levels
  <2>3. PICK p \in r.spec.priorities :
          \/ Untouched /\ Proceed(rest \ {l})
          \/ PutClass(l, {p[l]}) /\ Proceed(rest \ {l})
          \/ Abort
    BY <2>1
  <2>4. {p[l]} \in SUBSET Nat
    <3>1. r.spec \in AstarteSpecs
      BY <1>a, FleetAssumption DEF LocalsOK, Records
    <3> QED
      BY <2>2, <3>1 DEF AstarteSpecs
  <2> HIDE DEF l
  <2>5. rest \ {l} \in SUBSET Levels
    BY <1>i
  <2>6. StoreOK' /\ LocalsOK'
    BY <2>2, <2>3, <2>4, <2>5, <1>d, <1>e, <1>f, PutClassWrites
  <2>7. HistoryOK'
    <3>1. robbed' \in {robbed, robbed \cup {cur}} /\ UNCHANGED <<blind, missed>>
      BY <1>2 DEF EnsureClass
    <3> QED
      BY <3>1, <1>a, <1>b DEF HistoryOK, LocalsOK
  <2> QED
    BY <2>6, <2>7, <1>c
<1>3. CASE Ensured
  BY <1>3, <1>c, <1>e, <1>g, <1>h DEF Ensured
<1>4. CASE ListClasses
  <2>1. LocalsOK'
    BY <1>4, <1>a, <1>b DEF ListClasses, LocalsOK
  <2>2. HistoryOK'
    BY <1>4, <1>a DEF ListClasses, HistoryOK
  <2> QED
    BY <1>4, <2>1, <2>2, <1>c, <1>e DEF ListClasses
<1>5. CASE DeleteClass
  <2>1. PICK l \in rest :
          \/ /\ PutClass(l, {}) /\ Proceed(rest \ {l})
             /\ robbed' = robbed \cup {b \in Astartes \ {cur} : There(b)}
             /\ missed' = missed \ {l}
          \/ Abort /\ UNCHANGED <<robbed, missed>>
    BY <1>5 DEF DeleteClass
  <2>2. l \in Levels /\ rest \ {l} \in SUBSET Levels
    BY <1>i
  <2>3. StoreOK' /\ LocalsOK'
    BY <2>1, <2>2, <1>d, <1>f, PutClassWrites
  <2>4. HistoryOK'
    BY <1>5, <2>1, <1>a DEF DeleteClass, HistoryOK
  <2> QED
    BY <2>3, <2>4, <1>c
<1>6. CASE RemoveFinalizer
  <2>1. PutAstarte(cur, {}) => StoreOK'
    BY <1>a, <1>b, PutAstarteWrites DEF LocalsOK
  <2> QED
    BY <1>6, <2>1, <1>c, <1>d, <1>g, <1>h DEF RemoveFinalizer
<1> QED
  BY <1>1, <1>2, <1>3, <1>4, <1>5, <1>6 DEF Steps

\* The worker takes a key; a call fails; the operator restarts.
LEMMA StartTypes == TypeOK /\ (\E a \in Astartes : Start(a)) => TypeOK'
<1> SUFFICES ASSUME TypeOK, NEW a \in Astartes, Start(a) PROVE TypeOK'
  OBVIOUS
<1>1. view.astartes[a] \subseteq Records
  BY ObjectsHave DEF TypeOK
<1>2. LocalsOK'
  <2>1. CASE UNCHANGED worker
    BY <2>1 DEF Start, worker, TypeOK, LocalsOK
  <2>2. CASE ~UNCHANGED worker
    <3>1. /\ queue' = queue \ {a} /\ cur' = a /\ inst' = view.astartes[a]
          /\ pc' \in {"list", "ensure", "finalizer"} /\ rest' \in {Levels, {}}
      BY <2>2 DEF Start
    <3> QED
      BY <1>1, <3>1 DEF TypeOK, LocalsOK
  <2> QED
    BY <2>1, <2>2
<1> QED
  BY <1>2 DEF Start, Untouched, Aside, history, TypeOK, LocalsOK

LEMMA FailureTypes == TypeOK /\ (CallFails \/ Restart) => TypeOK'
<1> SUFFICES ASSUME TypeOK, CallFails \/ Restart PROVE TypeOK'
  OBVIOUS
<1>1. spent' \in [Mishaps \cup {"edits"} -> Nat]
  BY DEF CallFails, Restart, Mishap, Spend, TypeOK, Mishaps
<1>2. CASE CallFails
  <2>1. LocalsOK'
    BY <1>2 DEF CallFails, Abort, Fail, Forget, LocalsOK, TypeOK
  <2> QED
    BY <1>1, <1>2, <2>1 DEF CallFails, Abort, Untouched, TypeOK, LocalsOK, history
<1>3. CASE Restart
  <2>1. DOMAIN backlog' = Kinds /\ \A k \in Kinds : backlog'[k] \in Seq(Values[k])
    <3>1. \A S : <<>> \in Seq(S)
      OBVIOUS
    <3> QED
      BY <1>3, <3>1 DEF Restart, Nothing
  <2>2. LocalsOK'
    BY <1>3 DEF Restart, Forget, LocalsOK
  <2> QED
    BY <1>1, <1>3, <2>1, <2>2 DEF Restart, TypeOK, LocalsOK, history
<1> QED
  BY <1>2, <1>3

LEMMA DeliverTypes == TypeOK /\ (\E kind \in Kinds : Deliver(kind)) => TypeOK'
<1> SUFFICES ASSUME TypeOK, NEW kind \in Kinds, Deliver(kind) PROVE TypeOK'
  OBVIOUS
<1>1. queue' \subseteq Astartes
  BY DEF Deliver, TypeOK, Woken, Kinds
<1> QED
  BY <1>1, DeliverShows DEF Deliver, TypeOK, worker, history

\* What users write.
LEMMA UsersTypes == TypeOK /\ Users => TypeOK'
<1> SUFFICES ASSUME TypeOK, Users PROVE TypeOK'
  OBVIOUS
<1>a. StoreOK /\ Unobserved
  BY DEF TypeOK, StoreOK, Users, Admit, Store, Edit, Delete, EraseSecret,
         RestoreSecret
<1>b. ASSUME StoreOK', admitted' \in [Astartes -> SUBSET Specs],
             created' \subseteq Astartes, blind' \subseteq SUBSET Astartes,
             spent' = spent \/ Spend("edits") \/ Spend("erased")
      PROVE  TypeOK'
  <2>1. spent' \in [Mishaps \cup {"edits"} -> Nat]
    BY <1>b DEF Spend, Mishaps, TypeOK
  <2> QED
    BY <1>a, <1>b, <2>1 DEF TypeOK, StoreOK, Unobserved, worker
<1>1. ASSUME NEW a \in Astartes, NEW s \in Specs, Admit(a, s) PROVE TypeOK'
  <2>1. blind' \subseteq SUBSET Astartes
    BY <1>1 DEF Admit, Unseen, TypeOK
  <2>2. admitted' \in [Astartes -> SUBSET Specs] /\ created' \subseteq Astartes
    BY <1>1 DEF Admit, TypeOK
  <2> QED
    BY <1>1, <2>1, <2>2, <1>a, <1>b DEF Admit, Untouched, StoreOK
<1>2. ASSUME NEW a \in Astartes, Store(a) PROVE TypeOK'
  <2>1. {[spec |-> s, finalizer |-> FALSE, deleted |-> FALSE, rev |-> 1] :
           s \in admitted[a]} \in SUBSET Records
    <3>1. admitted[a] \subseteq Specs
      BY DEF TypeOK
    <3>2. \A s \in Specs : [spec |-> s, finalizer |-> FALSE, deleted |-> FALSE,
                            rev |-> 1] \in Records
      BY DEF Records
    <3> QED
      BY <3>1, <3>2
  <2>2. StoreOK'
    BY <1>2, <2>1, PutAstarteWrites DEF Store
  <2>3. admitted' \in [Astartes -> SUBSET Specs]
    BY <1>2 DEF Store, TypeOK
  <2> QED
    BY <1>2, <2>2, <2>3, <1>b DEF Store, TypeOK
<1>3. ASSUME NEW a \in Astartes, NEW s \in Specs, Edit(a, s) PROVE TypeOK'
  <2>1. PICK r \in api.astartes[a] :
          PutAstarte(a, {[r EXCEPT !.spec = s, !.rev = @ + 1]})
    BY <1>3 DEF Edit
  <2>2. {[r EXCEPT !.spec = s, !.rev = @ + 1]} \in SUBSET Records
    <3>1. r \in Records
      BY ObjectsHave DEF TypeOK
    <3>2. [r EXCEPT !.spec = s, !.rev = @ + 1] \in Records
      BY <3>1, RecordsEdited
    <3> QED
      BY <3>2
  <2>3. StoreOK'
    BY <2>1, <2>2, PutAstarteWrites
  <2> QED
    BY <1>3, <2>3, <1>b DEF Edit, Edited, TypeOK
<1>4. ASSUME NEW a \in Astartes, Delete(a) PROVE TypeOK'
  <2>1. PICK r \in api.astartes[a] :
          PutAstarte(a, IF r.finalizer
                        THEN {[r EXCEPT !.deleted = TRUE, !.rev = @ + 1]}
                        ELSE {})
    BY <1>4 DEF Delete
  <2>2. {[r EXCEPT !.deleted = TRUE, !.rev = @ + 1]} \in SUBSET Records
    <3>1. r \in Records /\ r.spec \in Specs
      BY ObjectsHave DEF TypeOK, Records
    <3>2. [r EXCEPT !.deleted = TRUE, !.rev = @ + 1] \in Records
      BY <3>1, RecordsEdited
    <3> QED
      BY <3>2
  <2>3. StoreOK'
    BY <2>1, <2>2, PutAstarteWrites
  <2> QED
    BY <1>4, <2>3, <1>b DEF Delete, Edited, TypeOK
<1>5. CASE EraseSecret \/ RestoreSecret
  <2>1. StoreOK'
    BY <1>5, PutSecretWrites DEF EraseSecret, RestoreSecret
  <2> QED
    BY <1>5, <2>1, <1>b DEF EraseSecret, RestoreSecret, Mishap, TypeOK
<1> QED
  BY <1>1, <1>2, <1>3, <1>4, <1>5 DEF Users

\* Objects, caches, backlogs, what is admitted and what a Reconcile has gathered
\* keep their types.
THEOREM TypeCorrect == Spec => []TypeOK
<1>1. TypeOK /\ [Next]_vars => TypeOK'
  <2>1. TypeOK /\ UNCHANGED vars => TypeOK'
    BY DEF TypeOK, vars, worker, history
  <2> QED
    BY <2>1, StepTypes, StartTypes, FailureTypes, DeliverTypes, UsersTypes DEF Next
<1> QED
  BY InitTypes, <1>1, PTL DEF Spec

-----------------------------------------------------------------------------
(* Instance IDs are kept apart.                                            *)

\* What the webhook is shown now or later of the Astartes, and what is stored.
Shown ==
    {api.astartes, view.astartes}
      \cup {backlog["astartes"][i] : i \in DOMAIN backlog["astartes"]}

\* All that is ever shown of an Astarte has one ID.
Identified ==
    \A m, n \in Shown : \A a \in Astartes :
       \A r \in m[a], t \in n[a] : r.spec.id = t.spec.id

\* Nothing is shown of an Astarte before it is stored; it is admitted once.
AdmittedOnce ==
    \A a \in Astartes :
       /\ a \notin created \/ admitted[a] # {} => \A m \in Shown : m[a] = {}
       /\ a \notin created => admitted[a] = {}
       /\ \A s, t \in admitted[a] : s = t

\* UniqueIDs, also of what is not stored yet.
Claims(a) == Stored(a) \cup admitted[a]
Apart ==
    \A a, b \in Astartes :
       a # b /\ {a, b} \notin blind =>
         \A s \in Claims(a), t \in Claims(b) : s.id # t.id

IDInv == Identified /\ AdmittedOnce /\ Apart

LEMMA InvIs == IDInv => UniqueIDs
  BY DEF IDInv, Apart, Claims, UniqueIDs

\* A step that shows nothing new and stores nothing.
LEMMA ShownKept ==
  ASSUME IDInv, Shown' \subseteq Shown, api'.astartes = api.astartes,
         UNCHANGED <<admitted, created, blind>>
  PROVE  IDInv'
<1>1. Identified'
  BY DEF IDInv, Identified
<1>2. AdmittedOnce'
  BY DEF IDInv, AdmittedOnce
<1>3. Apart'
  BY DEF IDInv, Apart, Claims, Stored
<1> QED
  BY <1>1, <1>2, <1>3 DEF IDInv

\* What a write of an Astarte adds.
LEMMA ShownPut ==
  ASSUME TypeOK, NEW a \in Astartes, NEW records \in SUBSET Records,
         PutAstarte(a, records), view' = view
  PROVE  /\ api'.astartes = [api.astartes EXCEPT ![a] = records]
         /\ Shown' \subseteq Shown \cup {api'.astartes}
<1> DEFINE q == backlog["astartes"]
<1>1. /\ api'.astartes = [api.astartes EXCEPT ![a] = records]
      /\ backlog'["astartes"] = Append(q, api'.astartes)
  BY PutAstarteWrites
<1>2. q \in Seq(Directories)
  BY DEF TypeOK, Kinds, Values
<1> HIDE DEF q
<1>3. \A i \in DOMAIN Append(q, api'.astartes) :
         \/ i \in DOMAIN q /\ Append(q, api'.astartes)[i] = q[i]
         \/ Append(q, api'.astartes)[i] = api'.astartes
  BY <1>2
<1>4. ASSUME NEW m \in Shown' PROVE m \in Shown \cup {api'.astartes}
  <2>1. CASE m \in {api'.astartes, view'.astartes}
    BY <2>1 DEF Shown
  <2>2. CASE \E i \in DOMAIN backlog'["astartes"] : m = backlog'["astartes"][i]
    BY <2>2, <1>1, <1>3 DEF Shown, q
  <2> QED
    BY <1>4, <2>1, <2>2 DEF Shown
<1> QED
  BY <1>1, <1>4

\* A step that stores an Astarte anew with the ID that it has, or takes it away.
LEMMA ShownChanged ==
  ASSUME TypeOK, IDInv, NEW a \in Astartes, NEW records \in SUBSET Records,
         PutAstarte(a, records), UNCHANGED <<view, admitted, created, blind>>,
         \A r \in records : \E t \in api.astartes[a] : r.spec.id = t.spec.id
  PROVE  IDInv'
<1>1. /\ api'.astartes = [api.astartes EXCEPT ![a] = records]
      /\ Shown' \subseteq Shown \cup {api'.astartes}
  BY ShownPut
<1>2. api.astartes \in Shown /\ api.astartes \in Directories
  BY ObjectsHave DEF Shown, TypeOK
<1>3. \A b \in Astartes : \A r \in api'.astartes[b] :
         \E t \in api.astartes[b] : r.spec.id = t.spec.id
  BY <1>1, <1>2 DEF Directories
<1>4. \A m \in Shown' : \A b \in Astartes : \A r \in m[b] :
         \E n \in Shown : \E t \in n[b] : r.spec.id = t.spec.id
  BY <1>1, <1>2, <1>3
<1>5. Identified'
  BY <1>4 DEF IDInv, Identified
<1>6. AdmittedOnce'
  <2>1. \A b \in Astartes : (\A m \in Shown : m[b] = {}) => \A m \in Shown' : m[b] = {}
    BY <1>4
  <2> QED
    BY <2>1 DEF IDInv, AdmittedOnce
<1>7. Apart'
  <2>1. \A b \in Astartes : \A s \in Claims(b)' : \E t \in Claims(b) : s.id = t.id
    BY <1>3 DEF Claims, Stored
  <2> QED
    BY <2>1 DEF IDInv, Apart
<1> QED
  BY <1>5, <1>6, <1>7 DEF IDInv

\* A step that writes at most a class or the secret.
LEMMA OthersKept ==
  ASSUME IDInv, view' = view, UNCHANGED <<admitted, created, blind>>,
         api'.astartes = api.astartes, backlog'["astartes"] = backlog["astartes"]
  PROVE  IDInv'
<1>1. Shown' \subseteq Shown
  BY DEF Shown
<1> QED
  BY <1>1, ShownKept

\* The operator's own updates: what was read has not changed since.
LEMMA StepInv == TypeOK /\ IDInv /\ Steps => IDInv'
<1> SUFFICES ASSUME TypeOK, IDInv, Steps PROVE IDInv'
  OBVIOUS
<1>a. UNCHANGED <<view, admitted, created, blind>>
  BY DEF Steps, AddFinalizer, EnsureClass, Ensured, ListClasses, DeleteClass,
         RemoveFinalizer, Aside, history
<1>b. Untouched => IDInv'
  BY <1>a, OthersKept DEF Untouched
<1>c. Abort => IDInv'
  BY <1>b DEF Abort
<1>d. cur \in Astartes \/ pc = "idle"
  BY DEF TypeOK
<1>e. ASSUME NEW l \in Levels, NEW values \in SUBSET Nat, PutClass(l, values)
      PROVE  IDInv'
  BY <1>a, <1>e, PutClassWrites, OthersKept
<1>1. CASE AddFinalizer
  <2>1. CASE Abort
    BY <2>1, <1>c
  <2>2. CASE ~Abort
    <3>1. /\ inst' = {[r EXCEPT !.finalizer = TRUE, !.rev = @ + 1] : r \in inst}
          /\ inst = api.astartes[cur] /\ PutAstarte(cur, inst') /\ cur \in Astartes
      BY <1>1, <2>2, <1>d DEF AddFinalizer, Accepted
    <3>2. \A r \in inst : /\ [r EXCEPT !.finalizer = TRUE, !.rev = @ + 1] \in Records
                          /\ [r EXCEPT !.finalizer = TRUE, !.rev = @ + 1].spec = r.spec
      <4>1. \A r \in inst : r \in Records /\ r.spec \in Specs
        BY DEF TypeOK, Records
      <4> QED
        BY <4>1, RecordsEdited
    <3>3. PICK records \in SUBSET Records :
            /\ records = inst'
            /\ \A r \in records : \E t \in api.astartes[cur] : r.spec.id = t.spec.id
      <4>1. inst' \in SUBSET Records
        BY <3>1, <3>2
      <4>2. \A r \in inst' : \E t \in inst : r.spec.id = t.spec.id
        BY <3>1, <3>2
      <4> QED
        BY <3>1, <4>1, <4>2
    <3> QED
      BY <3>1, <3>3, <1>a, ShownChanged
  <2> QED
    BY <2>1, <2>2
<1>2. CASE EnsureClass
  <2>a. PICK r \in inst :
          \E p \in r.spec.priorities :
             Untouched \/ Abort \/ PutClass(First(rest), {p[First(rest)]})
    BY <1>2 DEF EnsureClass
  <2>1. PICK p \in r.spec.priorities :
          Untouched \/ Abort \/ PutClass(First(rest), {p[First(rest)]})
    BY <2>a
  <2>2. First(rest) \in Levels
    BY DEF First, Levels
  <2>3. p \in [Levels -> Nat]
    <3>1. r.spec \in AstarteSpecs
      BY FleetAssumption DEF TypeOK, Records
    <3> QED
      BY <3>1 DEF AstarteSpecs
  <2> QED
    BY <2>1, <2>2, <2>3, <1>b, <1>c, <1>e
<1>3. CASE Ensured
  BY <1>3, <1>b DEF Ensured
<1>4. CASE ListClasses
  BY <1>4, <1>b DEF ListClasses
<1>5. CASE DeleteClass
  <2>1. PICK l \in rest : PutClass(l, {}) \/ Abort
    BY <1>5 DEF DeleteClass
  <2>2. l \in Levels
    BY DEF TypeOK
  <2> QED
    BY <2>1, <2>2, <1>c, <1>e
<1>6. CASE RemoveFinalizer
  <2>1. PutAstarte(cur, {}) => IDInv'
    BY <1>6, <1>a, <1>d, ShownChanged DEF RemoveFinalizer
  <2> QED
    BY <1>6, <2>1, <1>c DEF RemoveFinalizer
<1> QED
  BY <1>1, <1>2, <1>3, <1>4, <1>5, <1>6 DEF Steps

\* Failures, restarts and informers show nothing that was not to be shown.
LEMMA QuietInv ==
  /\ TypeOK /\ IDInv
  /\ \/ \E a \in Astartes : Start(a)
     \/ CallFails \/ Restart \/ \E kind \in Kinds : Deliver(kind)
  => IDInv'
<1> SUFFICES ASSUME TypeOK, IDInv,
                    \/ \E a \in Astartes : Start(a)
                    \/ CallFails \/ Restart \/ \E kind \in Kinds : Deliver(kind)
             PROVE  IDInv'
  OBVIOUS
<1>1. CASE (\E a \in Astartes : Start(a)) \/ CallFails
  BY <1>1, OthersKept DEF Start, CallFails, Abort, Untouched, Aside, history
<1>2. CASE Restart
  <2>1. Shown' \subseteq Shown
    BY <1>2 DEF Restart, Shown, Nothing, Kinds
  <2> QED
    BY <1>2, <2>1, ShownKept DEF Restart, history
<1>3. CASE \E kind \in Kinds : Deliver(kind)
  <2>1. PICK kind \in Kinds : Deliver(kind)
    BY <1>3
  <2>2. UNCHANGED <<api, admitted, created, blind>>
    BY <2>1 DEF Deliver, history
  <2>3. Shown' \subseteq Shown
    <3>1. CASE kind = "astartes"
      <4> DEFINE q == backlog["astartes"]
      <4>1. q \in Seq(Directories) /\ q # <<>>
        BY <2>1, <3>1, DeliverShows DEF TypeOK, Kinds, Values
      <4>2. view'.astartes = Head(q) /\ backlog'["astartes"] = Tail(q)
        BY <2>1, <3>1, DeliverShows
      <4> HIDE DEF q
      <4>3. /\ Head(q) = q[1] /\ 1 \in DOMAIN q
            /\ \A i \in DOMAIN Tail(q) : i + 1 \in DOMAIN q /\ Tail(q)[i] = q[i + 1]
        BY <4>1
      <4> QED
        BY <2>2, <4>2, <4>3 DEF Shown, q
    <3>2. CASE kind # "astartes"
      BY <2>1, <2>2, <3>2, DeliverShows DEF Shown, Kinds
    <3> QED
      BY <3>1, <3>2
  <2> QED
    BY <2>2, <2>3, ShownKept
<1> QED
  BY <1>1, <1>2, <1>3

\* Whatever the webhook does not know of when it admits an Astarte is recorded.
LEMMA AdmitInv ==
  ASSUME TypeOK, IDInv, NEW a \in Astartes, NEW s \in Specs, Admit(a, s)
  PROVE  IDInv'
<1>1. /\ a \notin created /\ IDUnused(s)
      /\ admitted' = [admitted EXCEPT ![a] = {s}] /\ created' = created \cup {a}
      /\ blind' = blind \cup {{a, b} : b \in Unseen}
      /\ UNCHANGED <<api, view, backlog>>
  BY DEF Admit, CreationValid, Untouched, Unobserved
<1>2. Shown' = Shown /\ api.astartes \in Shown /\ view.astartes \in Shown
  BY <1>1 DEF Shown
<1>3. admitted \in [Astartes -> SUBSET Specs] /\ admitted[a] = {}
      /\ \A m \in Shown : m[a] = {}
  BY <1>1 DEF IDInv, AdmittedOnce, TypeOK
<1>4. Identified'
  BY <1>2 DEF IDInv, Identified
<1>5. AdmittedOnce'
  BY <1>1, <1>2, <1>3 DEF IDInv, AdmittedOnce
<1>6. Claims(a)' = {s} /\ \A b \in Astartes : b # a => Claims(b)' = Claims(b)
  BY <1>1, <1>2, <1>3 DEF Claims, Stored
<1>7. ASSUME NEW b \in Astartes, b # a, {a, b} \notin blind', NEW t \in Claims(b)
      PROVE  s.id # t.id
  <2>1. b \notin Unseen
    BY <1>1, <1>7
  <2>2. admitted[b] = {} /\ (api.astartes[b] # {} => view.astartes[b] # {})
    BY <2>1 DEF Unseen, There
  <2>3. PICK r \in api.astartes[b] : t = r.spec
    BY <1>7, <2>2 DEF Claims, Stored
  <2>4. PICK u \in view.astartes[b] : TRUE
    BY <2>2, <2>3
  <2>5. r.spec.id = u.spec.id
    BY <1>2, <2>3, <2>4 DEF IDInv, Identified
  <2>6. u.spec.id # s.id
    BY <1>1, <2>4 DEF IDUnused
  <2> QED
    BY <2>3, <2>5, <2>6
<1>8. Apart'
  <2> SUFFICES ASSUME NEW b \in Astartes, NEW c \in Astartes, b # c,
                      {b, c} \notin blind',
                      NEW t \in Claims(b)', NEW u \in Claims(c)'
               PROVE  t.id # u.id
    BY DEF Apart
  <2>1. CASE b = a
    BY <2>1, <1>6, <1>7
  <2>2. CASE c = a
    <3>1. {a, b} = {b, c}
      BY <2>2
    <3> QED
      BY <2>2, <3>1, <1>6, <1>7
  <2>3. CASE b # a /\ c # a
    BY <2>3, <1>1, <1>6 DEF IDInv, Apart
  <2> QED
    BY <2>1, <2>2, <2>3
<1> QED
  BY <1>4, <1>5, <1>8 DEF IDInv

\* An Astarte is stored as it was admitted.
LEMMA StoreInv ==
  ASSUME TypeOK, IDInv, NEW a \in Astartes, Store(a)
  PROVE  IDInv'
<1> DEFINE new == {[spec |-> s, finalizer |-> FALSE, deleted |-> FALSE,
                    rev |-> 1] : s \in admitted[a]}
<1>1. /\ admitted[a] # {} /\ PutAstarte(a, new)
      /\ admitted' = [admitted EXCEPT ![a] = {}]
      /\ UNCHANGED <<view, created, blind>>
  BY DEF Store, Unobserved
<1>2. new \in SUBSET Records /\ \A r \in new : r.spec \in admitted[a]
  <2>1. admitted[a] \subseteq Specs
    BY DEF TypeOK
  <2>2. \A s \in Specs : [spec |-> s, finalizer |-> FALSE, deleted |-> FALSE,
                          rev |-> 1] \in Records
    BY DEF Records
  <2> QED
    BY <2>1, <2>2
<1> HIDE DEF new
<1>3. /\ api'.astartes = [api.astartes EXCEPT ![a] = new]
      /\ Shown' \subseteq Shown \cup {api'.astartes}
  BY <1>1, <1>2, ShownPut
<1>4. /\ api.astartes \in Shown /\ api.astartes \in Directories
      /\ admitted \in [Astartes -> SUBSET Specs]
  BY ObjectsHave DEF Shown, TypeOK
<1>5. /\ a \in created /\ \A m \in Shown : m[a] = {}
      /\ \A s, t \in admitted[a] : s = t
  BY <1>1 DEF IDInv, AdmittedOnce
<1>6. \A m \in Shown' : /\ \A b \in Astartes \ {a} : \E n \in Shown : m[b] = n[b]
                        /\ m[a] = {} \/ m[a] = new
  BY <1>3, <1>4, <1>5 DEF Directories
<1>7. Identified'
  <2> SUFFICES ASSUME NEW m \in Shown', NEW n \in Shown', NEW b \in Astartes,
                      NEW r \in m[b], NEW t \in n[b]
               PROVE  r.spec.id = t.spec.id
    BY DEF Identified
  <2>1. CASE b = a
    BY <2>1, <1>2, <1>5, <1>6
  <2>2. CASE b # a
    BY <2>2, <1>6 DEF IDInv, Identified
  <2> QED
    BY <2>1, <2>2
<1>8. AdmittedOnce'
  BY <1>1, <1>4, <1>5, <1>6 DEF IDInv, AdmittedOnce
<1>9. \A b \in Astartes : Claims(b)' \subseteq Claims(b)
  BY <1>1, <1>2, <1>3, <1>4 DEF Claims, Stored, Directories
<1>10. Apart'
  BY <1>1, <1>9 DEF IDInv, Apart
<1> QED
  BY <1>7, <1>8, <1>10 DEF IDInv

\* What users do.
LEMMA UsersInv == TypeOK /\ IDInv /\ Users => IDInv'
<1> SUFFICES ASSUME TypeOK, IDInv, Users PROVE IDInv'
  OBVIOUS
<1>1. ASSUME NEW a \in Astartes, NEW s \in Specs, Edit(a, s) PROVE IDInv'
  <2>1. PICK r \in api.astartes[a] :
          UpdateValid(r.spec, s) /\ PutAstarte(a, {[r EXCEPT !.spec = s, !.rev = @ + 1]})
    BY <1>1 DEF Edit
  <2>2. r \in Records
    BY ObjectsHave DEF TypeOK
  <2>3. PICK records \in SUBSET Records :
          /\ records = {[r EXCEPT !.spec = s, !.rev = @ + 1]}
          /\ \A t \in records : t.spec.id = r.spec.id
    <3>1. /\ [r EXCEPT !.spec = s, !.rev = @ + 1] \in Records
          /\ [r EXCEPT !.spec = s, !.rev = @ + 1].spec = s
      BY <2>2, RecordsEdited
    <3> DEFINE edited == {[r EXCEPT !.spec = s, !.rev = @ + 1]}
    <3>2. edited \in SUBSET Records /\ \A t \in edited : t.spec.id = r.spec.id
      BY <2>1, <3>1 DEF UpdateValid, IDKept
    <3> QED
      BY <3>2
  <2> QED
    BY <1>1, <2>1, <2>3, ShownChanged DEF Edit, Unobserved
<1>2. ASSUME NEW a \in Astartes, Delete(a) PROVE IDInv'
  <2>1. PICK r \in api.astartes[a] :
          PutAstarte(a, IF r.finalizer
                        THEN {[r EXCEPT !.deleted = TRUE, !.rev = @ + 1]}
                        ELSE {})
    BY <1>2 DEF Delete
  <2>2. r \in Records /\ r.spec \in Specs
    BY ObjectsHave DEF TypeOK, Records
  <2>3. PICK records \in SUBSET Records :
          PutAstarte(a, records) /\ \A t \in records : t.spec.id = r.spec.id
    <3>1. /\ [r EXCEPT !.deleted = TRUE, !.rev = @ + 1] \in Records
          /\ [r EXCEPT !.deleted = TRUE, !.rev = @ + 1].spec = r.spec
      BY <2>2, RecordsEdited
    <3> DEFINE left == IF r.finalizer
                       THEN {[r EXCEPT !.deleted = TRUE, !.rev = @ + 1]}
                       ELSE {}
    <3>2. left \in SUBSET Records /\ \A t \in left : t.spec.id = r.spec.id
      BY <3>1
    <3>3. PutAstarte(a, left)
      BY <2>1
    <3> HIDE DEF left
    <3> QED
      BY <3>2, <3>3
  <2> QED
    BY <1>2, <2>3, ShownChanged DEF Delete, Unobserved
<1>3. CASE EraseSecret \/ RestoreSecret
  BY <1>3, PutSecretWrites, OthersKept DEF EraseSecret, RestoreSecret, Unobserved
<1> QED
  BY <1>1, <1>2, <1>3, AdmitInv, StoreInv DEF Users

LEMMA InitInv == Init => IDInv
<1> SUFFICES ASSUME Init PROVE IDInv
  OBVIOUS
<1>1. \A m \in Shown : \A a \in Astartes : m[a] = {}
  BY DEF Init, Shown, Nothing, Kinds
<1>2. \A a \in Astartes : admitted[a] = {} /\ Claims(a) = {}
  BY <1>1 DEF Init, Shown, Claims, Stored
<1> QED
  BY <1>1, <1>2 DEF IDInv, Identified, AdmittedOnce, Apart

LEMMA NextInv == TypeOK /\ IDInv /\ [Next]_vars => IDInv'
<1>1. TypeOK /\ IDInv /\ UNCHANGED vars => IDInv'
  BY OthersKept DEF vars, history
<1> QED
  BY <1>1, StepInv, QuietInv, UsersInv DEF Next

\* For any number of Astartes, however late the list that the webhook reads and
\* whatever is edited, deleted and restarted: two Astartes have one ID only if
\* the later was admitted when the earlier was not stored or not shown yet.
THEOREM IDsStayUnique == Spec => []UniqueIDs
  BY InitInv, NextInv, InvIs, TypeCorrect, PTL DEF Spec
-----------------------------------------------------------------------------
(* The PriorityClasses that Astartes share.                                *)

\* Each name stands for one Astarte at most, and the informer shows what is
\* stored once it has shown all it has to.
Single ==
    \A m \in Shown : \A a \in Astartes : \A r, t \in m[a] : r = t
UpToDate ==
    IF backlog["astartes"] = <<>> THEN view.astartes = api.astartes
    ELSE backlog["astartes"][Len(backlog["astartes"])] = api.astartes

\* What comes after m: an Astarte that is deleted stays so until it is gone.
Later(m, n) ==
    \A a \in Astartes :
       (\E r \in m[a] : r.deleted) => \A t \in n[a] : t.deleted
InOrder ==
    LET q == backlog["astartes"]
    IN  /\ \A m \in Shown : Later(view.astartes, m) /\ Later(m, api.astartes)
        /\ \A i, j \in DOMAIN q : i < j => Later(q[i], q[j])

\* A finalizer that is shown is still there, unless the deletion that it waits
\* for has been shown before.
FinalizerShown ==
    \A m \in Shown : \A a \in Astartes : \A r \in m[a] :
       r.finalizer /\ ~r.deleted => \E t \in api.astartes[a] : t.finalizer

DirectoryInv == Single /\ UpToDate /\ InOrder /\ FinalizerShown

\* An Astarte that is deleted and will not come back.
Doomed(a) ==
    /\ a \in created /\ admitted[a] = {}
    /\ \A m \in Shown : \A r \in m[a] : r.deleted

\* Classes are ensured under the finalizer, and the finalization of an Astarte
\* is not over before the classes that it was shown are deleted.
ClassesGuarded ==
    /\ pc # "idle" => /\ cur \in created /\ admitted[cur] = {} /\ inst # {}
                      /\ \A r, t \in inst : r = t
    /\ pc = "ensure" => \E t \in api.astartes[cur] : t.finalizer
    /\ pc \in {"list", "delete"} => Doomed(cur)
    /\ pc = "delete" =>
          \A l \in Levels : api.classes[l] # {} => l \in missed \cup rest

OrphanInv == DirectoryInv /\ ClassesGuarded /\ NoOrphanClasses

\* The informer, which shows v now and the states of q next, until it shows what
\* is stored, shows a class come or go once at most, and with one value.
Turned(c, v, l) == (c[l] = {}) <=> (v[l] # {})
Follows(q, v, stored) ==
    /\ IF q = <<>> THEN v = stored ELSE q[Len(q)] = stored
    /\ \A l \in Levels : \A i, j \in DOMAIN q :
          i < j /\ Turned(q[i], v, l) => Turned(q[j], v, l)
    /\ \A c, d \in {v} \cup {q[i] : i \in DOMAIN q} : \A l \in Levels :
          c[l] # {} /\ d[l] # {} => c[l] = d[l]

\* The finalization deletes a class only once the informer shows it.
DeletesShown ==
    pc = "delete" =>
       \A l \in rest : api.classes[l] # {} => view.classes[l] # {}
ClassesInOrder ==
    Follows(backlog["classes"], view.classes, api.classes) /\ DeletesShown

\* The values that the operator knows an Astarte to ask for.
Asked(a) ==
    UNION {r.spec.priorities : r \in {t \in view.astartes[a] : ~t.deleted}}
Prioritized(a) ==
    \A p \in Asked(a) : \A l \in Levels : api.classes[l] = {p[l]}
Prioritizing(a) ==
    /\ pc \in {"finalizer", "ensure"} /\ cur = a
    /\ \A p \in Asked(a) :
          /\ \E r \in inst : p \in r.spec.priorities
          /\ \A l \in Levels \ rest : api.classes[l] = {p[l]}
Wakeful ==
    \A a \in Astartes \ robbed :
       There(a) => a \in queue \/ Prioritizing(a) \/ Prioritized(a)

PriorityInv == OrphanInv /\ ClassesInOrder /\ Wakeful

\* How a step changes what is known of the Astartes: not at all,
Same ==
    /\ api'.astartes = api.astartes /\ view'.astartes = view.astartes
    /\ backlog'["astartes"] = backlog["astartes"]
\* the informer shows what is next, or lists all anew,
ShowsNext ==
    /\ backlog["astartes"] # <<>> /\ api'.astartes = api.astartes
    /\ view'.astartes = Head(backlog["astartes"])
    /\ backlog'["astartes"] = Tail(backlog["astartes"])
Relists ==
    /\ api'.astartes = api.astartes /\ view'.astartes = api.astartes
    /\ backlog'["astartes"] = <<>>
\* or one of them is stored anew.
Rewrites(a, records) ==
    /\ api'.astartes = [api.astartes EXCEPT ![a] = records]
    /\ view'.astartes = view.astartes
    /\ backlog'["astartes"] = Append(backlog["astartes"], api'.astartes)
    /\ \A r, t \in records : r = t

\* It comes; or what was there stays deleted and keeps its finalizer, unless it
\* is the Astarte that has been finalized.
Comes(a, records) ==
    /\ admitted[a] # {} /\ \A r \in records : ~r.finalizer
Stays(a, records) ==
    /\ \A r \in records : \E t \in api.astartes[a] : t.deleted => r.deleted
    /\ \/ (\E t \in api.astartes[a] : t.finalizer) => \E r \in records : r.finalizer
       \/ pc = "delete" /\ rest = {} /\ a = cur /\ records = {}
Turns(a, records) == Rewrites(a, records) /\ (Comes(a, records) \/ Stays(a, records))

LEMMA RecordsKept ==
  ASSUME NEW r \in Records, NEW s \in Specs
  PROVE  /\ [r EXCEPT !.finalizer = TRUE, !.rev = @ + 1].deleted = r.deleted
         /\ [r EXCEPT !.finalizer = TRUE, !.rev = @ + 1].finalizer
         /\ [r EXCEPT !.deleted = TRUE, !.rev = @ + 1].finalizer = r.finalizer
         /\ [r EXCEPT !.deleted = TRUE, !.rev = @ + 1].deleted
         /\ [r EXCEPT !.spec = s, !.rev = @ + 1].finalizer = r.finalizer
         /\ [r EXCEPT !.spec = s, !.rev = @ + 1].deleted = r.deleted
  BY DEF Records

LEMMA StepTurns ==
  ASSUME TypeOK, Single, ClassesGuarded, Steps
  PROVE  \/ Same
         \/ \E a \in Astartes : \E records \in SUBSET Records : Turns(a, records)
<1>a. view' = view
  BY DEF Steps, AddFinalizer, EnsureClass, Ensured, ListClasses, DeleteClass,
         RemoveFinalizer, Aside
<1>b. Untouched => Same
  BY <1>a DEF Untouched, Same
<1>c. ASSUME NEW l \in Levels, NEW values \in SUBSET Nat, PutClass(l, values)
      PROVE  Same
  BY <1>a, <1>c, PutClassWrites DEF Same
<1>d. \A a \in Astartes : \A records \in SUBSET Records :
        PutAstarte(a, records) /\ (\A r, t \in records : r = t)
          => Rewrites(a, records)
  BY <1>a, PutAstarteWrites DEF Rewrites
<1>1. CASE AddFinalizer
  <2>1. CASE Abort
    BY <1>b, <2>1 DEF Abort
  <2>2. CASE ~Abort
    <3> DEFINE Marked(r) == [r EXCEPT !.finalizer = TRUE, !.rev = @ + 1]
               new == {Marked(r) : r \in inst}
    <3>1. /\ inst = api.astartes[cur] /\ PutAstarte(cur, new) /\ cur \in Astartes
          /\ inst # {} /\ \A r, t \in inst : r = t
      BY <1>1, <2>2 DEF AddFinalizer, Accepted, TypeOK, ClassesGuarded
    <3>2. \A r \in inst : /\ Marked(r) \in Records /\ Marked(r).finalizer
                          /\ Marked(r).deleted = r.deleted
      <4>1. \A r \in inst : r \in Records /\ r.spec \in Specs
        BY DEF TypeOK, Records
      <4> QED
        BY <4>1, RecordsEdited, RecordsKept
    <3> HIDE DEF Marked
    <3>3. new \in SUBSET Records /\ new # {} /\ \A r, t \in new : r = t
      BY <3>1, <3>2
    <3>4. \A r \in new : r.finalizer
      BY <3>2
    <3>5. \A r \in new : \E t \in inst : t.deleted => r.deleted
      BY <3>2
    <3> HIDE DEF new
    <3>6. Stays(cur, new)
      BY <3>1, <3>3, <3>4, <3>5 DEF Stays
    <3> QED
      BY <1>d, <3>1, <3>3, <3>6 DEF Turns
  <2> QED
    BY <2>1, <2>2
<1>2. CASE EnsureClass
  <2>a. PICK r \in inst :
          \E p \in r.spec.priorities :
             Untouched \/ Abort \/ PutClass(First(rest), {p[First(rest)]})
    BY <1>2 DEF EnsureClass
  <2>1. PICK p \in r.spec.priorities :
          Untouched \/ Abort \/ PutClass(First(rest), {p[First(rest)]})
    BY <2>a
  <2>2. First(rest) \in Levels
    BY DEF First, Levels
  <2>3. p \in [Levels -> Nat]
    <3>1. r.spec \in AstarteSpecs
      BY FleetAssumption DEF TypeOK, Records
    <3> QED
      BY <3>1 DEF AstarteSpecs
  <2> QED
    BY <2>1, <2>2, <2>3, <1>b, <1>c DEF Abort
<1>3. CASE Ensured
  BY <1>3, <1>b DEF Ensured
<1>4. CASE ListClasses
  BY <1>4, <1>b DEF ListClasses
<1>5. CASE DeleteClass
  <2>1. PICK l \in rest : PutClass(l, {}) \/ Abort
    BY <1>5 DEF DeleteClass
  <2>2. l \in Levels
    BY DEF TypeOK
  <2> QED
    BY <2>1, <2>2, <1>b, <1>c DEF Abort
<1>6. CASE RemoveFinalizer
  <2>1. CASE Abort
    BY <2>1, <1>b DEF Abort
  <2>2. CASE ~Abort
    <3>1. PutAstarte(cur, {}) /\ cur \in Astartes /\ pc = "delete" /\ rest = {}
      BY <1>6, <2>2 DEF RemoveFinalizer, TypeOK
    <3> QED
      BY <3>1, <1>d DEF Turns, Stays
  <2> QED
    BY <2>1, <2>2
<1> QED
  BY <1>1, <1>2, <1>3, <1>4, <1>5, <1>6 DEF Steps

LEMMA UsersTurn ==
  ASSUME TypeOK, AdmittedOnce, Single, Users
  PROVE  \/ Same
         \/ \E a \in Astartes : \E records \in SUBSET Records : Turns(a, records)
<1>a. view' = view
  BY DEF Users, Admit, Store, Edit, Delete, EraseSecret, RestoreSecret, Unobserved
<1>b. \A a \in Astartes : \A records \in SUBSET Records :
        PutAstarte(a, records) /\ (\A r, t \in records : r = t)
          => Rewrites(a, records)
  BY <1>a, PutAstarteWrites DEF Rewrites
<1>c. api.astartes \in Shown /\ \A a \in Astartes : api.astartes[a] \subseteq Records
  BY ObjectsHave DEF Shown, TypeOK
<1>1. ASSUME NEW a \in Astartes, NEW s \in Specs, Admit(a, s) PROVE Same
  BY <1>1 DEF Admit, Untouched, Unobserved, Same
<1>2. ASSUME NEW a \in Astartes, Store(a)
      PROVE  \E records \in SUBSET Records : Turns(a, records)
  <2> DEFINE new == {[spec |-> s, finalizer |-> FALSE, deleted |-> FALSE,
                      rev |-> 1] : s \in admitted[a]}
  <2>1. admitted[a] # {} /\ PutAstarte(a, new)
    BY <1>2 DEF Store
  <2>2. new \in SUBSET Records
    <3>1. admitted[a] \subseteq Specs
      BY DEF TypeOK
    <3>2. \A s \in Specs : [spec |-> s, finalizer |-> FALSE, deleted |-> FALSE,
                            rev |-> 1] \in Records
      BY DEF Records
    <3> QED
      BY <3>1, <3>2
  <2>3. \A r, t \in new : r = t
    <3>1. \A s, t \in admitted[a] : s = t
      BY DEF AdmittedOnce
    <3> QED
      BY <3>1
  <2>4. \A r \in new : ~r.finalizer
    OBVIOUS
  <2> HIDE DEF new
  <2> QED
    BY <1>b, <2>1, <2>2, <2>3, <2>4 DEF Turns, Comes
<1>3. ASSUME NEW a \in Astartes, NEW s \in Specs, Edit(a, s)
      PROVE  \E records \in SUBSET Records : Turns(a, records)
  <2>1. PICK r \in api.astartes[a] :
          PutAstarte(a, {[r EXCEPT !.spec = s, !.rev = @ + 1]})
    BY <1>3 DEF Edit
  <2> DEFINE edited == [r EXCEPT !.spec = s, !.rev = @ + 1]
  <2>2. edited \in Records /\ edited.finalizer = r.finalizer
        /\ edited.deleted = r.deleted
    BY <1>c, RecordsEdited, RecordsKept
  <2>3. \A t \in api.astartes[a] : t = r
    BY <1>c DEF Single
  <2> HIDE DEF edited
  <2>4. PutAstarte(a, {edited})
    BY <2>1 DEF edited
  <2> QED
    BY <1>b, <2>2, <2>3, <2>4 DEF Turns, Stays
<1>4. ASSUME NEW a \in Astartes, Delete(a)
      PROVE  \E records \in SUBSET Records : Turns(a, records)
  <2>1. PICK r \in api.astartes[a] :
          PutAstarte(a, IF r.finalizer
                        THEN {[r EXCEPT !.deleted = TRUE, !.rev = @ + 1]}
                        ELSE {})
    BY <1>4 DEF Delete
  <2> DEFINE marked == [r EXCEPT !.deleted = TRUE, !.rev = @ + 1]
  <2>2. marked \in Records /\ marked.finalizer = r.finalizer /\ marked.deleted
    <3>1. r \in Records /\ r.spec \in Specs
      BY <1>c DEF Records
    <3> QED
      BY <3>1, RecordsEdited, RecordsKept
  <2>3. \A t \in api.astartes[a] : t = r
    BY <1>c DEF Single
  <2>4. PutAstarte(a, IF r.finalizer THEN {marked} ELSE {})
    BY <2>1
  <2> HIDE DEF marked
  <2>5. CASE r.finalizer
    BY <1>b, <2>2, <2>3, <2>4, <2>5 DEF Turns, Stays
  <2>6. CASE ~r.finalizer
    BY <1>b, <2>3, <2>4, <2>6 DEF Turns, Stays
  <2> QED
    BY <2>5, <2>6
<1>5. CASE EraseSecret \/ RestoreSecret
  BY <1>5, <1>a, PutSecretWrites DEF EraseSecret, RestoreSecret, Same
<1> QED
  BY <1>1, <1>2, <1>3, <1>4, <1>5 DEF Users

\* So does any step.
LEMMA Changes ==
  ASSUME TypeOK, AdmittedOnce, Single, ClassesGuarded, [Next]_vars
  PROVE  \/ Same \/ ShowsNext \/ Relists
         \/ \E a \in Astartes : \E records \in SUBSET Records : Turns(a, records)
<1>1. CASE Steps
  BY <1>1, StepTurns
<1>2. CASE Users
  BY <1>2, UsersTurn
<1>3. CASE (\E a \in Astartes : Start(a)) \/ CallFails
  BY <1>3 DEF Start, CallFails, Abort, Untouched, Aside, Same
<1>4. CASE Restart
  BY <1>4 DEF Restart, Nothing, Kinds, Relists
<1>5. ASSUME NEW kind \in Kinds, Deliver(kind) PROVE Same \/ ShowsNext
  <2>1. CASE kind = "astartes"
    BY <1>5, <2>1, DeliverShows DEF ShowsNext, Deliver
  <2>2. CASE kind # "astartes"
    BY <1>5, <2>2, DeliverShows DEF Same, Deliver, Kinds
  <2> QED
    BY <2>1, <2>2
<1>6. CASE UNCHANGED vars
  BY <1>6 DEF vars, Same
<1> QED
  BY <1>1, <1>2, <1>3, <1>4, <1>5, <1>6 DEF Next

\* What is shown after a step was shown before, or is what is stored now.
LEMMA ShownGrows ==
  ASSUME TypeOK, Same \/ ShowsNext \/ Relists
                 \/ \E a \in Astartes : \E records \in SUBSET Records :
                       Rewrites(a, records)
  PROVE  Shown' \subseteq Shown \cup {api'.astartes}
<1> DEFINE q == backlog["astartes"]
<1>a. q \in Seq(Directories)
  BY DEF TypeOK, Kinds, Values
<1>1. CASE Same
  BY <1>1 DEF Same, Shown
<1>2. CASE ShowsNext
  <2>1. Head(q) = q[1] /\ 1 \in DOMAIN q
        /\ \A i \in DOMAIN Tail(q) : i + 1 \in DOMAIN q /\ Tail(q)[i] = q[i + 1]
    BY <1>a, <1>2 DEF ShowsNext
  <2> QED
    BY <1>2, <2>1 DEF ShowsNext, Shown
<1>3. CASE Relists
  BY <1>3 DEF Relists, Shown
<1>4. ASSUME NEW a \in Astartes, NEW records \in SUBSET Records, Rewrites(a, records)
      PROVE  Shown' \subseteq Shown \cup {api'.astartes}
  <2> HIDE DEF q
  <2>1. \A i \in DOMAIN Append(q, api'.astartes) :
           \/ i \in DOMAIN q /\ Append(q, api'.astartes)[i] = q[i]
           \/ Append(q, api'.astartes)[i] = api'.astartes
    BY <1>a
  <2>2. backlog'["astartes"] = Append(q, api'.astartes) /\ view'.astartes = view.astartes
    BY <1>4 DEF Rewrites, q
  <2>3. ASSUME NEW m \in Shown' PROVE m \in Shown \cup {api'.astartes}
    <3>1. CASE m \in {api'.astartes, view'.astartes}
      BY <3>1, <2>2 DEF Shown
    <3>2. CASE \E i \in DOMAIN backlog'["astartes"] : m = backlog'["astartes"][i]
      BY <3>2, <2>1, <2>2 DEF Shown, q
    <3> QED
      BY <2>3, <3>1, <3>2 DEF Shown
  <2> QED
    BY <2>3
<1> QED
  BY <1>1, <1>2, <1>3, <1>4

\* What is stored comes after all that was stored before.
LEMMA StoredLater ==
  ASSUME TypeOK, AdmittedOnce, DirectoryInv, NEW a \in Astartes,
         NEW records \in SUBSET Records, Turns(a, records), NEW m \in Shown
  PROVE  Later(m, api'.astartes)
<1>1. /\ api'.astartes = [api.astartes EXCEPT ![a] = records]
      /\ api.astartes \in Directories
  BY ObjectsHave DEF Turns, Rewrites, TypeOK
<1>2. \A b \in Astartes : b # a => api'.astartes[b] = api.astartes[b]
  BY <1>1 DEF Directories
<1>3. api'.astartes[a] = records
  BY <1>1 DEF Directories
<1>4. Later(m, api.astartes)
  BY DEF DirectoryInv, InOrder
<1>5. ASSUME \E r \in m[a] : r.deleted, NEW t \in records PROVE t.deleted
  <2>1. CASE Comes(a, records)
    BY <1>5, <2>1 DEF Comes, AdmittedOnce
  <2>2. CASE Stays(a, records)
    BY <1>4, <1>5, <2>2 DEF Stays, Later
  <2> QED
    BY <2>1, <2>2 DEF Turns
<1> QED
  BY <1>2, <1>3, <1>4, <1>5 DEF Later

LEMMA DirectoryStep ==
  ASSUME TypeOK, AdmittedOnce, DirectoryInv, ClassesGuarded, [Next]_vars
  PROVE  DirectoryInv'
<1> DEFINE q == backlog["astartes"]
           n == api'.astartes
<1>a. q \in Seq(Directories) /\ api.astartes \in Directories
  BY ObjectsHave DEF TypeOK, Kinds, Values
<1>b. Single /\ UpToDate /\ InOrder /\ FinalizerShown
  BY DEF DirectoryInv
<1>c. \/ Same \/ ShowsNext \/ Relists
      \/ \E a \in Astartes : \E records \in SUBSET Records : Turns(a, records)
  BY <1>b, Changes
<1>d. Shown' \subseteq Shown \cup {n}
  BY <1>c, ShownGrows DEF Turns
<1>e. api.astartes \in Shown /\ view.astartes \in Shown
      /\ \A i \in DOMAIN q : q[i] \in Shown
  BY DEF Shown
<1>1. CASE Same
  <2>1. Shown' = Shown
    BY <1>1 DEF Same, Shown
  <2> QED
    BY <1>1, <1>b, <2>1
    DEF Same, DirectoryInv, Single, UpToDate, InOrder, Later, FinalizerShown
<1>2. CASE ShowsNext
  <2>1. /\ n = api.astartes /\ view'.astartes = Head(q) /\ q # <<>>
        /\ backlog'["astartes"] = Tail(q)
    BY <1>2 DEF ShowsNext
  <2>2. Shown' \subseteq Shown
    BY <1>d, <1>e, <2>1
  <2> HIDE DEF q, n
  <2>3. /\ Head(q) = q[1] /\ 1 \in DOMAIN q
        /\ \A i \in DOMAIN Tail(q) : /\ i + 1 \in DOMAIN q /\ 1 < i + 1
                                     /\ Tail(q)[i] = q[i + 1]
        /\ \A i, j \in DOMAIN Tail(q) : i < j => i + 1 < j + 1
        /\ IF Tail(q) = <<>> THEN q[1] = q[Len(q)]
           ELSE Tail(q)[Len(Tail(q))] = q[Len(q)]
    BY <1>a, <2>1, TailShifts
  <2>4. UpToDate'
    BY <1>b, <2>1, <2>3 DEF UpToDate, q, n
  <2>5. InOrder'
    <3>1. \A i, j \in DOMAIN q : i < j => Later(q[i], q[j])
      BY <1>b DEF InOrder, q
    <3>2. \A m \in Shown' : Later(m, n)
      BY <1>b, <2>1, <2>2 DEF InOrder, n
    <3>3. Later(q[1], n) /\ Later(q[1], q[1])
      BY <1>b, <1>e, <2>1, <2>3 DEF InOrder, Later, Single
    <3>4. \A i \in DOMAIN Tail(q) : Later(q[1], Tail(q)[i])
      BY <2>3, <3>1
    <3>5. \A m \in Shown' : Later(q[1], m)
      BY <2>1, <2>3, <3>3, <3>4 DEF Shown, n
    <3>6. \A i, j \in DOMAIN Tail(q) : i < j => Later(Tail(q)[i], Tail(q)[j])
      BY <2>3, <3>1
    <3> QED
      BY <2>1, <2>3, <3>2, <3>5, <3>6 DEF InOrder, Later, n
  <2> QED
    BY <1>b, <2>1, <2>2, <2>4, <2>5 DEF DirectoryInv, Single, FinalizerShown, n
<1>3. CASE Relists
  <2>1. Shown' \subseteq Shown /\ Shown' = {n} /\ n = api.astartes
    BY <1>3, <1>e DEF Relists, Shown
  <2>2. InOrder'
    <3>1. Later(n, n)
      BY <1>b, <1>e, <2>1 DEF Later, Single
    <3> QED
      BY <1>3, <2>1, <3>1 DEF InOrder, Relists, Later
  <2> QED
    BY <1>3, <1>b, <2>1, <2>2 DEF DirectoryInv, Relists, Single, UpToDate, FinalizerShown
<1>4. ASSUME NEW a \in Astartes, NEW records \in SUBSET Records, Turns(a, records)
      PROVE  DirectoryInv'
  <2>1. /\ n = [api.astartes EXCEPT ![a] = records]
        /\ view'.astartes = view.astartes
        /\ backlog'["astartes"] = Append(q, n)
        /\ \A r, t \in records : r = t
    BY <1>4 DEF Turns, Rewrites
  <2>2. n[a] = records /\ \A b \in Astartes : b # a => n[b] = api.astartes[b]
    BY <1>a, <2>1 DEF Directories
  <2>3. \A m \in Shown : Later(m, n)
    BY <1>4, StoredLater DEF n
  <2> HIDE DEF n, q
  <2>4. Single'
    <3>1. \A b \in Astartes : \A r, t \in n[b] : r = t
      BY <1>b, <1>e, <2>1, <2>2 DEF Single
    <3> QED
      BY <1>b, <1>d, <3>1 DEF Single
  <2>5. UpToDate'
    <3>1. Append(q, n) # <<>> /\ Append(q, n)[Len(Append(q, n))] = n
      BY <1>a
    <3> QED
      BY <2>1, <3>1 DEF UpToDate, n
  <2>6. InOrder'
    <3>1. Later(n, n)
      BY <2>4 DEF Later, Single, Shown, n
    <3>2. \A m \in Shown' : Later(m, n)
      BY <1>d, <2>3, <3>1
    <3>3. \A m \in Shown' : Later(view'.astartes, m)
      BY <1>b, <1>d, <1>e, <2>1, <2>3 DEF InOrder
    <3>4. /\ DOMAIN Append(q, n) = 1 .. Len(q) + 1 /\ DOMAIN q = 1 .. Len(q)
          /\ Len(q) \in Nat
          /\ \A i \in DOMAIN q : Append(q, n)[i] = q[i]
          /\ Append(q, n)[Len(q) + 1] = n
      BY <1>a
    <3>5. \A i, j \in DOMAIN q : i < j => Later(q[i], q[j])
      BY <1>b DEF InOrder, q
    <3>6. ASSUME NEW i \in DOMAIN Append(q, n), NEW j \in DOMAIN Append(q, n), i < j
          PROVE  Later(Append(q, n)[i], Append(q, n)[j])
      <4>1. i \in DOMAIN q
        BY <3>4, <3>6
      <4>2. CASE j \in DOMAIN q
        BY <3>4, <3>5, <3>6, <4>1, <4>2
      <4>3. CASE j \notin DOMAIN q
        <5>1. Append(q, n)[j] = n /\ Append(q, n)[i] = q[i]
          BY <3>4, <4>1, <4>3
        <5> QED
          BY <1>e, <2>3, <4>1, <5>1
      <4> QED
        BY <4>2, <4>3
    <3>7. \A i, j \in DOMAIN backlog'["astartes"] :
             i < j => Later(backlog'["astartes"][i], backlog'["astartes"][j])
      BY <2>1, <3>6
    <3> QED
      BY <3>2, <3>3, <3>7 DEF InOrder, n
  <2>7. FinalizerShown'
    <3> SUFFICES ASSUME NEW m \in Shown', NEW b \in Astartes, NEW r \in m[b],
                        r.finalizer, ~r.deleted
                 PROVE  \E t \in n[b] : t.finalizer
      BY Zenon DEF FinalizerShown, n
    <3>1. CASE m = n
      BY <3>1
    <3>2. CASE m \in Shown
      <4>1. PICK t \in api.astartes[b] : t.finalizer
        BY <1>b, <3>2 DEF FinalizerShown
      <4>2. CASE b # a
        BY <2>2, <4>1, <4>2
      <4>3. CASE b = a
        <5>1. ~Comes(a, records)
          BY <1>e, <4>1, <4>3 DEF Comes, AdmittedOnce
        <5>2. ~(pc = "delete" /\ a = cur)
          BY <3>2, <4>3 DEF ClassesGuarded, Doomed
        <5> QED
          BY <1>4, <2>2, <4>1, <4>3, <5>1, <5>2 DEF Turns, Stays
      <4> QED
        BY <4>2, <4>3
    <3> QED
      BY <1>d, <3>1, <3>2
  <2> QED
    BY <2>4, <2>5, <2>6, <2>7 DEF DirectoryInv
<1> QED
  BY <1>1, <1>2, <1>3, <1>4, <1>c

\* What is admitted for an Astarte is stored once.
LEMMA AdmittedKept ==
  ASSUME TypeOK, [Next]_vars, NEW a \in Astartes, a \in created, admitted[a] = {}
  PROVE  a \in created' /\ admitted'[a] = {}
<1>1. ASSUME NEW b \in Astartes, NEW s \in Specs, Admit(b, s)
      PROVE  a \in created' /\ admitted'[a] = {}
  BY <1>1 DEF Admit, TypeOK
<1>2. ASSUME NEW b \in Astartes, Store(b) PROVE a \in created' /\ admitted'[a] = {}
  BY <1>2 DEF Store, TypeOK
<1>3. UNCHANGED <<admitted, created>> => a \in created' /\ admitted'[a] = {}
  OBVIOUS
<1>4. CASE Users
  BY <1>1, <1>2, <1>3, <1>4 DEF Users, Edit, Delete, EraseSecret, RestoreSecret
<1>5. CASE Steps
  BY <1>3, <1>5 DEF Steps, AddFinalizer, EnsureClass, Ensured, ListClasses,
                    DeleteClass, RemoveFinalizer, Aside
<1>6. CASE \/ \E b \in Astartes : Start(b)
           \/ CallFails \/ Restart \/ \E kind \in Kinds : Deliver(kind)
  BY <1>3, <1>6 DEF Start, CallFails, Restart, Deliver, Aside
<1>7. CASE UNCHANGED vars
  BY <1>3, <1>7 DEF vars
<1> QED
  BY <1>4, <1>5, <1>6, <1>7 DEF Next

\* An Astarte that is deleted stays so, and goes.
LEMMA DoomedStays ==
  ASSUME TypeOK, AdmittedOnce, DirectoryInv, ClassesGuarded, [Next]_vars,
         NEW a \in Astartes, Doomed(a)
  PROVE  Doomed(a)'
<1>1. a \in created' /\ admitted'[a] = {}
  BY AdmittedKept DEF Doomed
<1>2. \/ Same \/ ShowsNext \/ Relists
      \/ \E b \in Astartes : \E records \in SUBSET Records : Turns(b, records)
  BY Changes DEF DirectoryInv
<1>3. Shown' \subseteq Shown \cup {api'.astartes}
  BY <1>2, ShownGrows DEF Turns
<1>4. /\ api.astartes \in Shown /\ api.astartes \in Directories
      /\ \A m \in Shown : \A r \in m[a] : r.deleted
  BY ObjectsHave DEF Shown, Doomed, TypeOK
<1>5. \A r \in api'.astartes[a] : r.deleted
  <2>1. CASE Same \/ ShowsNext \/ Relists
    BY <1>4, <2>1 DEF Same, ShowsNext, Relists
  <2>2. ASSUME NEW b \in Astartes, NEW records \in SUBSET Records, Turns(b, records)
        PROVE  \A r \in api'.astartes[a] : r.deleted
    <3>1. api'.astartes = [api.astartes EXCEPT ![b] = records]
      BY <2>2 DEF Turns, Rewrites
    <3>2. CASE b # a
      BY <1>4, <3>1, <3>2 DEF Directories
    <3>3. CASE b = a
      <4>1. Stays(a, records)
        BY <2>2, <3>3 DEF Turns, Comes, Doomed
      <4>2. \A r \in records : r.deleted
        BY <1>4, <4>1 DEF Stays
      <4> QED
        BY <1>4, <3>1, <3>3, <4>2 DEF Directories
    <3> QED
      BY <3>2, <3>3
  <2> QED
    BY <1>2, <2>1, <2>2
<1>6. \A m \in Shown' : \A r \in m[a] : r.deleted
  BY <1>3, <1>4, <1>5
<1> QED
  BY <1>1, <1>6 DEF Doomed

\* Only a finalization that has deleted the classes removes a finalizer.
LEMMA FinalizerStays ==
  ASSUME TypeOK, AdmittedOnce, DirectoryInv, ClassesGuarded, [Next]_vars,
         NEW a \in Astartes, \E t \in api.astartes[a] : t.finalizer
  PROVE  \/ \E t \in api'.astartes[a] : t.finalizer
         \/ pc = "delete" /\ rest = {}
<1>1. \/ Same \/ ShowsNext \/ Relists
      \/ \E b \in Astartes : \E records \in SUBSET Records : Turns(b, records)
  BY Changes DEF DirectoryInv
<1>2. api.astartes \in Shown /\ api.astartes \in Directories
  BY ObjectsHave DEF Shown, TypeOK
<1>3. CASE Same \/ ShowsNext \/ Relists
  BY <1>3 DEF Same, ShowsNext, Relists
<1>4. ASSUME NEW b \in Astartes, NEW records \in SUBSET Records, Turns(b, records)
      PROVE  \/ \E t \in api'.astartes[a] : t.finalizer
             \/ pc = "delete" /\ rest = {}
  <2>1. api'.astartes = [api.astartes EXCEPT ![b] = records]
    BY <1>4 DEF Turns, Rewrites
  <2>2. CASE b # a
    BY <1>2, <2>1, <2>2 DEF Directories
  <2>3. CASE b = a
    <3>1. Stays(a, records)
      BY <1>2, <1>4, <2>3 DEF Turns, Comes, AdmittedOnce
    <3> QED
      BY <1>2, <2>1, <2>3, <3>1 DEF Directories, Stays
  <2> QED
    BY <2>2, <2>3
<1> QED
  BY <1>1, <1>3, <1>4

\* How a step changes the classes: not at all, or it makes one under a finalizer,
\* or deletes one in a finalization.
ClassesKept == api'.classes = api.classes /\ missed \subseteq missed'
ClassMade(l, value) ==
    /\ pc = "ensure" /\ api.classes[l] = {} /\ view.classes[l] = {}
    /\ api'.classes = [api.classes EXCEPT ![l] = {value}]
    /\ api'.astartes = api.astartes /\ missed' = missed
ClassGone(l) ==
    /\ pc = "delete" /\ l \in rest /\ api.classes[l] # {}
    /\ api'.classes = [api.classes EXCEPT ![l] = {}]
    /\ api'.astartes = api.astartes /\ missed' = missed \ {l}
    /\ robbed' = robbed \cup {b \in Astartes \ {cur} : There(b)}
ClassWritten == \E l \in Levels : ClassGone(l) \/ \E v \in Nat : ClassMade(l, v)
ClassesChange == ClassesKept \/ ClassWritten

\* How it changes what is shown of them.
ClassesSame ==
    /\ api'.classes = api.classes /\ view'.classes = view.classes
    /\ backlog'["classes"] = backlog["classes"]
ClassesShowNext ==
    /\ backlog["classes"] # <<>> /\ api'.classes = api.classes
    /\ view'.classes = Head(backlog["classes"])
    /\ backlog'["classes"] = Tail(backlog["classes"])
ClassesRelist ==
    /\ api'.classes = api.classes /\ view'.classes = api.classes
    /\ backlog'["classes"] = <<>>
ClassesAppend ==
    /\ ClassWritten /\ view'.classes = view.classes
    /\ backlog'["classes"] = Append(backlog["classes"], api'.classes)
ClassesShow == ClassesSame \/ ClassesShowNext \/ ClassesRelist \/ ClassesAppend

\* What the worker does to the classes.
LEMMA StepClasses ==
  ASSUME TypeOK, Steps
  PROVE  ClassesChange /\ ClassesShow
<1>a. view' = view /\ (pc # "idle" => cur \in Astartes)
  BY DEF Steps, AddFinalizer, EnsureClass, Ensured, ListClasses, DeleteClass,
         RemoveFinalizer, Aside, TypeOK
<1>b. Untouched => ClassesSame
  BY <1>a DEF Untouched, ClassesSame
<1>c. \A a \in Astartes : \A records \in SUBSET Records :
         PutAstarte(a, records) => ClassesSame
  <2> SUFFICES ASSUME NEW a \in Astartes, NEW records \in SUBSET Records,
                      PutAstarte(a, records)
               PROVE  ClassesSame
    OBVIOUS
  <2>1. api'.classes = api.classes /\ backlog'["classes"] = backlog["classes"]
    BY PutAstarteWrites
  <2> QED
    BY <1>a, <2>1 DEF ClassesSame
<1>d. ClassesSame /\ missed \subseteq missed' => ClassesChange /\ ClassesShow
  BY DEF ClassesSame, ClassesChange, ClassesKept, ClassesShow
<1>e. ClassesAppend => ClassesChange /\ ClassesShow
  BY DEF ClassesAppend, ClassesChange, ClassesShow
<1>1. CASE AddFinalizer
  <2>1. CASE Abort
    BY <1>1, <1>b, <1>d, <2>1 DEF Abort, AddFinalizer, history
  <2>2. CASE ~Abort
    <3>1. /\ inst' = {[r EXCEPT !.finalizer = TRUE, !.rev = @ + 1] : r \in inst}
          /\ PutAstarte(cur, inst') /\ cur \in Astartes /\ UNCHANGED history
      BY <1>1, <1>a, <2>2 DEF AddFinalizer
    <3>2. \A r \in inst : [r EXCEPT !.finalizer = TRUE, !.rev = @ + 1] \in Records
      <4>1. \A r \in inst : r \in Records /\ r.spec \in Specs
        BY DEF TypeOK, Records
      <4> QED
        BY <4>1, RecordsEdited
    <3>3. inst' \in SUBSET Records
      BY <3>1, <3>2
    <3>4. PICK records \in SUBSET Records : records = inst'
      BY <3>3
    <3> QED
      BY <1>c, <1>d, <3>1, <3>4 DEF history
  <2> QED
    BY <2>1, <2>2
<1>2. CASE EnsureClass
  <2> DEFINE l == First(rest)
  <2>1. PICK r \in inst : \E p \in r.spec.priorities :
          \/ Untouched \/ Abort
          \/ view.classes[l] = {} /\ api.classes[l] = {} /\ PutClass(l, {p[l]})
    BY <1>2 DEF EnsureClass
  <2>2. PICK p \in r.spec.priorities :
          \/ Untouched \/ Abort
          \/ view.classes[l] = {} /\ api.classes[l] = {} /\ PutClass(l, {p[l]})
    BY <2>1
  <2>3. l \in Levels /\ p[l] \in Nat
    <3>1. r.spec \in AstarteSpecs
      BY FleetAssumption DEF TypeOK, Records
    <3>2. l \in Levels
      BY DEF First, Levels
    <3> QED
      BY <3>1, <3>2 DEF AstarteSpecs
  <2>4. pc = "ensure" /\ missed' = missed
    BY <1>2 DEF EnsureClass
  <2> HIDE DEF l
  <2>5. CASE Untouched \/ Abort
    BY <1>b, <1>d, <2>4, <2>5 DEF Abort
  <2>6. CASE view.classes[l] = {} /\ api.classes[l] = {} /\ PutClass(l, {p[l]})
    <3>1. /\ api'.astartes = api.astartes
          /\ api'.classes = [api.classes EXCEPT ![l] = {p[l]}]
          /\ backlog'["classes"] = Append(backlog["classes"], api'.classes)
      BY <2>3, <2>6, PutClassWrites
    <3>2. ClassMade(l, p[l])
      BY <2>4, <2>6, <3>1 DEF ClassMade
    <3> QED
      BY <1>a, <1>e, <2>3, <3>1, <3>2 DEF ClassesAppend, ClassWritten
  <2> QED
    BY <2>2, <2>5, <2>6
<1>3. CASE Ensured
  BY <1>3, <1>b, <1>d DEF Ensured, history
<1>4. CASE ListClasses
  BY <1>4, <1>b, <1>d DEF ListClasses
<1>5. CASE DeleteClass
  <2>1. PICK l \in rest :
          \/ /\ api.classes[l] # {} /\ PutClass(l, {})
             /\ robbed' = robbed \cup {b \in Astartes \ {cur} : There(b)}
             /\ missed' = missed \ {l}
          \/ Abort /\ UNCHANGED <<robbed, missed>>
    BY <1>5 DEF DeleteClass
  <2>2. l \in Levels /\ pc = "delete"
    BY <1>5 DEF TypeOK, DeleteClass
  <2>3. CASE /\ api.classes[l] # {} /\ PutClass(l, {})
             /\ robbed' = robbed \cup {b \in Astartes \ {cur} : There(b)}
             /\ missed' = missed \ {l}
    <3>1. /\ api'.astartes = api.astartes
          /\ api'.classes = [api.classes EXCEPT ![l] = {}]
          /\ backlog'["classes"] = Append(backlog["classes"], api'.classes)
      BY <2>2, <2>3, PutClassWrites
    <3>2. ClassGone(l)
      BY <2>2, <2>3, <3>1 DEF ClassGone
    <3> QED
      BY <1>a, <1>e, <2>2, <3>1, <3>2 DEF ClassesAppend, ClassWritten
  <2>4. CASE Abort /\ UNCHANGED <<robbed, missed>>
    BY <1>b, <1>d, <2>4 DEF Abort
  <2> QED
    BY <2>1, <2>3, <2>4
<1>6. CASE RemoveFinalizer
  <2>1. PutAstarte(cur, {}) \/ Abort
    BY <1>6 DEF RemoveFinalizer
  <2> QED
    BY <1>6, <1>a, <1>b, <1>c, <1>d, <2>1 DEF RemoveFinalizer, Abort, history
<1> QED
  BY <1>1, <1>2, <1>3, <1>4, <1>5, <1>6 DEF Steps

LEMMA UsersClasses ==
  ASSUME TypeOK, Users
  PROVE  ClassesKept /\ ClassesSame
<1>a. view' = view /\ missed' = missed
  BY DEF Users, Admit, Store, Edit, Delete, EraseSecret, RestoreSecret, Unobserved
<1>b. api'.classes = api.classes /\ backlog'["classes"] = backlog["classes"]
      => ClassesKept /\ ClassesSame
  BY <1>a DEF ClassesKept, ClassesSame
<1>c. \A a \in Astartes : \A records \in SUBSET Records :
         PutAstarte(a, records) => ClassesKept /\ ClassesSame
  BY <1>b, PutAstarteWrites
<1>d. \A a \in Astartes : api.astartes[a] \subseteq Records
  BY ObjectsHave DEF TypeOK
<1>1. ASSUME NEW a \in Astartes, NEW s \in Specs, Admit(a, s)
      PROVE  ClassesKept /\ ClassesSame
  BY <1>1, <1>b DEF Admit, Untouched
<1>2. ASSUME NEW a \in Astartes, Store(a)
      PROVE  ClassesKept /\ ClassesSame
  <2> DEFINE new == {[spec |-> s, finalizer |-> FALSE, deleted |-> FALSE,
                      rev |-> 1] : s \in admitted[a]}
  <2>1. PutAstarte(a, new)
    BY <1>2 DEF Store
  <2>2. new \in SUBSET Records
    <3>1. \A s \in admitted[a] : s \in Specs
      BY DEF TypeOK
    <3>2. \A s \in Specs : [spec |-> s, finalizer |-> FALSE, deleted |-> FALSE,
                            rev |-> 1] \in Records
      BY DEF Records
    <3> QED
      BY <3>1, <3>2
  <2> HIDE DEF new
  <2> QED
    BY <1>c, <2>1, <2>2
<1>3. ASSUME NEW a \in Astartes, NEW s \in Specs, Edit(a, s)
      PROVE  ClassesKept /\ ClassesSame
  <2>1. PICK r \in api.astartes[a] :
          PutAstarte(a, {[r EXCEPT !.spec = s, !.rev = @ + 1]})
    BY <1>3 DEF Edit
  <2> DEFINE edited == {[r EXCEPT !.spec = s, !.rev = @ + 1]}
  <2>2. edited \in SUBSET Records
    <3>1. r \in Records
      BY <1>d
    <3>2. [r EXCEPT !.spec = s, !.rev = @ + 1] \in Records
      BY <3>1, RecordsEdited
    <3> QED
      BY <3>2
  <2>3. PutAstarte(a, edited)
    BY <2>1
  <2> HIDE DEF edited
  <2> QED
    BY <1>c, <2>2, <2>3
<1>4. ASSUME NEW a \in Astartes, Delete(a)
      PROVE  ClassesKept /\ ClassesSame
  <2>1. PICK r \in api.astartes[a] :
          PutAstarte(a, IF r.finalizer
                        THEN {[r EXCEPT !.deleted = TRUE, !.rev = @ + 1]}
                        ELSE {})
    BY <1>4 DEF Delete
  <2> DEFINE left == IF r.finalizer
                     THEN {[r EXCEPT !.deleted = TRUE, !.rev = @ + 1]} ELSE {}
  <2>2. left \in SUBSET Records
    <3>1. r \in Records /\ r.spec \in Specs
      BY <1>d DEF Records
    <3> QED
      BY <3>1, RecordsEdited
  <2>3. PutAstarte(a, left)
    BY <2>1
  <2> HIDE DEF left
  <2> QED
    BY <1>c, <2>2, <2>3
<1>5. CASE EraseSecret \/ RestoreSecret
  BY <1>5, <1>b, PutSecretWrites DEF EraseSecret, RestoreSecret
<1> QED
  BY <1>1, <1>2, <1>3, <1>4, <1>5 DEF Users

\* Any step.
LEMMA NextClasses ==
  ASSUME TypeOK, [Next]_vars
  PROVE  ClassesChange /\ ClassesShow
<1>a. ClassesKept /\ (ClassesSame \/ ClassesShowNext \/ ClassesRelist)
      => ClassesChange /\ ClassesShow
  BY DEF ClassesChange, ClassesShow
<1>1. CASE Steps
  BY <1>1, StepClasses
<1>2. CASE Users
  BY <1>2, <1>a, UsersClasses
<1>3. CASE (\E a \in Astartes : Start(a)) \/ CallFails
  BY <1>3, <1>a DEF Start, CallFails, Abort, Untouched, Aside, history, ClassesSame,
                    ClassesKept
<1>4. CASE Restart
  BY <1>4, <1>a DEF Restart, Nothing, Kinds, history, ClassesRelist, ClassesKept
<1>5. ASSUME NEW kind \in Kinds, Deliver(kind)
      PROVE  ClassesKept /\ (ClassesSame \/ ClassesShowNext)
  <2>1. CASE kind = "classes"
    BY <1>5, <2>1, DeliverShows DEF Deliver, ClassesShowNext, history, ClassesKept
  <2>2. CASE kind # "classes"
    BY <1>5, <2>2, DeliverShows DEF Deliver, Kinds, ClassesSame, history, ClassesKept
  <2> QED
    BY <2>1, <2>2
<1>6. CASE UNCHANGED vars
  BY <1>6, <1>a DEF vars, history, ClassesSame, ClassesKept
<1> QED
  BY <1>1, <1>2, <1>3, <1>4, <1>5, <1>6, <1>a DEF Next

\* The worker's guards hold when it starts,
LEMMA StartGuarded ==
  ASSUME TypeOK, AdmittedOnce, DirectoryInv, ClassesGuarded,
         NEW a \in Astartes, Start(a)
  PROVE  ClassesGuarded'
<1>1. CASE UNCHANGED worker
  BY <1>1 DEF Start, Untouched, Aside, history, worker, ClassesGuarded
<1>2. CASE ~UNCHANGED worker
  <2> DEFINE known == view.astartes[a]
  <2>1. /\ cur' = a /\ inst' = known /\ known # {}
        /\ pc' = IF \E r \in known : r.deleted THEN "list"
                 ELSE IF \E r \in known : r.finalizer THEN "ensure" ELSE "finalizer"
        /\ UNCHANGED <<api, view, backlog, admitted, created>>
    BY <1>2 DEF Start, Untouched, Aside
  <2>2. /\ view.astartes \in Shown /\ Shown' = Shown
        /\ \A r, t \in known : r = t
    BY <2>1 DEF Shown, DirectoryInv, Single
  <2>3. a \in created /\ admitted[a] = {}
    BY <2>1, <2>2 DEF AdmittedOnce
  <2>4. pc' = "ensure" => \E t \in api.astartes[a] : t.finalizer
    BY <2>1, <2>2 DEF DirectoryInv, FinalizerShown
  <2>5. pc' = "list" => Doomed(a)
    <3>1. \A m \in Shown : Later(view.astartes, m)
      BY DEF DirectoryInv, InOrder
    <3> QED
      BY <2>1, <2>3, <3>1 DEF Doomed, Later
  <2> HIDE DEF known
  <2>6. pc' \in {"list", "ensure", "finalizer"}
    BY <2>1
  <2>7. Doomed(a) => Doomed(a)'
    BY <2>1, <2>2 DEF Doomed
  <2>8. inst' # {} /\ \A r, t \in inst' : r = t
    BY <2>1, <2>2
  <2> QED
    BY <2>1, <2>3, <2>4, <2>5, <2>6, <2>7, <2>8 DEF ClassesGuarded
<1> QED
  BY <1>1, <1>2

\* with each of its steps,
LEMMA StepGuarded ==
  ASSUME TypeOK, AdmittedOnce, DirectoryInv, ClassesGuarded, Steps
  PROVE  ClassesGuarded'
<1>a. /\ pc # "idle" /\ cur \in Astartes /\ cur \in created /\ admitted[cur] = {}
      /\ inst # {} /\ \A r, t \in inst : r = t
  BY DEF Steps, AddFinalizer, EnsureClass, Ensured, ListClasses, DeleteClass,
         RemoveFinalizer, ClassesGuarded, TypeOK
<1>b. UNCHANGED <<view, admitted, created>> /\ [Next]_vars
  BY DEF Steps, AddFinalizer, EnsureClass, Ensured, ListClasses, DeleteClass,
         RemoveFinalizer, Aside, Next
<1>c. \A a \in Astartes : Doomed(a) => Doomed(a)'
  BY <1>b, DoomedStays
<1>d. Doomed(cur) /\ cur' = cur => Doomed(cur)'
  BY <1>a, <1>c DEF Doomed
<1>e. pc' = "idle" => ClassesGuarded'
  BY DEF ClassesGuarded
<1>f. Abort \/ Finish => ClassesGuarded'
  BY <1>e DEF Abort, Fail, Finish, Forget
<1>1. CASE AddFinalizer
  <2>1. CASE Abort
    BY <2>1, <1>f
  <2>2. CASE ~Abort
    <3> DEFINE Marked(r) == [r EXCEPT !.finalizer = TRUE, !.rev = @ + 1]
               new == {Marked(r) : r \in inst}
    <3>1. /\ inst' = new /\ PutAstarte(cur, new) /\ pc' = "ensure" /\ cur' = cur
      BY <1>1, <2>2 DEF AddFinalizer
    <3>2. \A r \in inst : Marked(r) \in Records /\ Marked(r).finalizer
      <4>1. \A r \in inst : r \in Records /\ r.spec \in Specs
        BY DEF TypeOK, Records
      <4> QED
        BY <4>1, RecordsEdited, RecordsKept
    <3> HIDE DEF Marked
    <3>3. /\ new \in SUBSET Records /\ new # {} /\ \A r, t \in new : r = t
          /\ \E t \in new : t.finalizer
      BY <1>a, <3>2
    <3> HIDE DEF new
    <3>4. api'.astartes = [api.astartes EXCEPT ![cur] = new]
      BY <1>a, <3>1, <3>3, PutAstarteWrites
    <3>5. api'.astartes[cur] = new
      BY <1>a, <3>4, ObjectsHave DEF TypeOK, Directories
    <3>6. inst' # {} /\ \A r, t \in inst' : r = t
      BY <3>1, <3>3
    <3> QED
      BY <1>a, <1>b, <3>1, <3>3, <3>5, <3>6 DEF ClassesGuarded
  <2> QED
    BY <2>1, <2>2
<1>2. CASE EnsureClass
  <2>1. CASE Abort
    BY <2>1, <1>f
  <2>2. CASE ~Abort
    <3>1. pc = "ensure" /\ UNCHANGED <<pc, cur, inst>>
      BY <1>2, <2>2 DEF EnsureClass, Proceed
    <3>2. \E t \in api'.astartes[cur] : t.finalizer
      BY <1>a, <1>b, <3>1, FinalizerStays DEF ClassesGuarded
    <3> QED
      BY <1>a, <1>b, <3>1, <3>2 DEF ClassesGuarded
  <2> QED
    BY <2>1, <2>2
<1>3. CASE Ensured
  BY <1>3, <1>f DEF Ensured
<1>4. CASE ListClasses
  <2>1. /\ pc' = "delete" /\ UNCHANGED <<api, cur, inst>> /\ Doomed(cur)
        /\ rest' = {l \in Levels : view.classes[l] # {}}
        /\ missed' = missed \cup
                       {l \in Levels : view.classes[l] = {} /\ api.classes[l] # {}}
    BY <1>4 DEF ListClasses, Untouched, ClassesGuarded
  <2>2. \A l \in Levels : api'.classes[l] # {} => l \in missed' \cup rest'
    BY <2>1
  <2>3. Doomed(cur)'
    BY <1>d, <2>1
  <2> QED
    BY <1>a, <1>b, <2>1, <2>2, <2>3 DEF ClassesGuarded
<1>5. CASE DeleteClass
  <2>1. CASE Abort
    BY <2>1, <1>f
  <2>2. CASE ~Abort
    <3>1. PICK l \in rest : /\ PutClass(l, {}) /\ Proceed(rest \ {l})
                            /\ missed' = missed \ {l} /\ pc = "delete"
      BY <1>5, <2>2 DEF DeleteClass
    <3>2. l \in Levels
      BY DEF TypeOK
    <3>3. /\ api'.classes = [api.classes EXCEPT ![l] = {}]
          /\ rest' = rest \ {l} /\ UNCHANGED <<pc, cur, inst>>
      BY <3>1, <3>2, PutClassWrites DEF Proceed
    <3>4. \A k \in Levels : api'.classes[k] # {} => k \in missed' \cup rest'
      <4>1. \A k \in Levels : api.classes[k] # {} => k \in missed \cup rest
        BY <3>1 DEF ClassesGuarded
      <4>2. api.classes \in Classes
        BY ObjectsHave DEF TypeOK
      <4> QED
        BY <3>1, <3>2, <3>3, <4>1, <4>2 DEF Classes
    <3>5. Doomed(cur)'
      BY <1>d, <3>1, <3>3 DEF ClassesGuarded
    <3> QED
      BY <1>a, <1>b, <3>1, <3>3, <3>4, <3>5 DEF ClassesGuarded
  <2> QED
    BY <2>1, <2>2
<1>6. CASE RemoveFinalizer
  BY <1>6, <1>f DEF RemoveFinalizer
<1> QED
  BY <1>1, <1>2, <1>3, <1>4, <1>5, <1>6 DEF Steps

\* and whatever others do.
LEMMA GuardedStep ==
  ASSUME TypeOK, AdmittedOnce, DirectoryInv, ClassesGuarded, [Next]_vars
  PROVE  ClassesGuarded'
<1>1. ASSUME Users \/ (\E kind \in Kinds : Deliver(kind)) \/ UNCHANGED vars
      PROVE  ClassesGuarded'
  <2>1. UNCHANGED worker /\ missed' = missed
    BY <1>1 DEF Users, Admit, Store, Edit, Delete, EraseSecret, RestoreSecret,
                Unobserved, Deliver, history, vars
  <2>2. api'.classes = api.classes
    <3>1. CASE Users
      BY <3>1, UsersClasses DEF ClassesKept
    <3>2. CASE (\E kind \in Kinds : Deliver(kind)) \/ UNCHANGED vars
      BY <3>2 DEF Deliver, vars
    <3> QED
      BY <1>1, <3>1, <3>2
  <2>3. CASE pc = "idle"
    BY <2>1, <2>3 DEF worker, ClassesGuarded
  <2>4. CASE pc # "idle"
    <3>1. cur \in Astartes /\ cur \in created /\ admitted[cur] = {} /\ inst # {}
          /\ \A r, t \in inst : r = t
      BY <2>4 DEF ClassesGuarded, TypeOK
    <3>2. cur \in created' /\ admitted'[cur] = {}
      BY <3>1, AdmittedKept
    <3>3. pc = "ensure" => \E t \in api'.astartes[cur] : t.finalizer
      BY <3>1, FinalizerStays DEF ClassesGuarded
    <3>4. \A a \in Astartes : Doomed(a) => Doomed(a)'
      BY DoomedStays
    <3>5. pc \in {"list", "delete"} => Doomed(cur)'
      BY <2>1, <3>1, <3>4 DEF ClassesGuarded, worker, Doomed
    <3>6. pc = "delete" =>
             \A l \in Levels : api'.classes[l] # {} => l \in missed' \cup rest'
      BY <2>1, <2>2 DEF worker, ClassesGuarded
    <3> QED
      BY <2>1, <3>1, <3>2, <3>3, <3>5, <3>6 DEF worker, ClassesGuarded
  <2> QED
    BY <2>3, <2>4
<1>2. CASE CallFails \/ Restart
  BY <1>2 DEF CallFails, Restart, Abort, Fail, Forget, ClassesGuarded
<1> QED
  BY <1>1, <1>2, StartGuarded, StepGuarded DEF Next

\* No class is left without an Astarte that will delete it.
LEMMA OrphanStep ==
  ASSUME TypeOK, AdmittedOnce, DirectoryInv, ClassesGuarded, NoOrphanClasses,
         [Next]_vars
  PROVE  NoOrphanClasses'
<1> SUFFICES ASSUME \A a \in Astartes : \A r \in api'.astartes[a] : ~r.finalizer,
                    NEW l \in Levels, api'.classes[l] # {}
             PROVE  l \in missed'
  BY DEF NoOrphanClasses
<1>1. ClassesChange
  BY NextClasses
<1>2. api.classes \in Classes
  BY ObjectsHave DEF TypeOK
<1>3. CASE \A a \in Astartes : \A r \in api.astartes[a] : ~r.finalizer
  <2>1. pc # "ensure"
    BY <1>3 DEF ClassesGuarded, TypeOK
  <2>2. api.classes[l] # {} => l \in missed
    BY <1>3 DEF NoOrphanClasses
  <2> QED
    BY <1>1, <1>2, <2>1, <2>2
    DEF ClassesChange, ClassWritten, ClassesKept, ClassMade, ClassGone, Classes
<1>4. CASE \E a \in Astartes : \E t \in api.astartes[a] : t.finalizer
  <2>1. pc = "delete" /\ rest = {}
    BY <1>4, FinalizerStays
  <2>2. api.classes[l] # {} => l \in missed
    BY <2>1 DEF ClassesGuarded
  <2>3. ~\E k \in Levels : ClassGone(k) \/ \E v \in Nat : ClassMade(k, v)
    BY <1>4, <2>1 DEF ClassGone, ClassMade
  <2> QED
    BY <1>1, <2>2, <2>3 DEF ClassesChange, ClassWritten, ClassesKept
<1> QED
  BY <1>3, <1>4

LEMMA OrphanInit == Init => OrphanInv
<1> SUFFICES ASSUME Init PROVE OrphanInv
  OBVIOUS
<1>1. \A m \in Shown : \A a \in Astartes : m[a] = {}
  BY DEF Init, Shown, Nothing, Kinds
<1>2. backlog["astartes"] = <<>> /\ view = api /\ pc = "idle"
  BY DEF Init, Nothing, Kinds
<1>3. DirectoryInv
  <2>1. DOMAIN backlog["astartes"] = {}
    BY <1>2
  <2>2. api.astartes \in Shown /\ view.astartes \in Shown
    BY DEF Shown
  <2>3. Single /\ FinalizerShown
    BY <1>1 DEF Single, FinalizerShown
  <2>4. InOrder
    BY <1>1, <2>1, <2>2 DEF InOrder, Later
  <2> QED
    BY <1>2, <2>3, <2>4 DEF DirectoryInv, UpToDate
<1> QED
  BY <1>2, <1>3 DEF OrphanInv, ClassesGuarded, NoOrphanClasses, Init

\* The inductive invariant of what the Astartes and the classes have to do with
\* each other.
LEMMA OrphanInvHolds == Spec => [](TypeOK /\ AdmittedOnce /\ OrphanInv)
<1>1. Init => IDInv
  BY InitInv
<1>2. TypeOK /\ IDInv /\ [Next]_vars => IDInv'
  BY NextInv
<1>3. IDInv => AdmittedOnce
  BY DEF IDInv
<1>4. TypeOK /\ AdmittedOnce /\ OrphanInv /\ [Next]_vars => OrphanInv'
  BY DirectoryStep, GuardedStep, OrphanStep DEF OrphanInv
<1> QED
  BY <1>1, <1>2, <1>3, <1>4, OrphanInit, TypeCorrect, PTL DEF Spec

\* However many Astartes share the classes, whenever the lists that they are
\* finalized by were read, and whatever fails: classes outlive the last finalizer
\* only if no finalization was shown them.
THEOREM ClassesAreNotOrphaned == Spec => []NoOrphanClasses
<1>1. OrphanInv => NoOrphanClasses
  BY DEF OrphanInv
<1> QED
  BY <1>1, OrphanInvHolds, PTL

\* A class that is not to come or go once more is not shown to.
LEMMA NotTurned ==
  ASSUME NEW q \in Seq(Classes), NEW v \in Classes, NEW c \in Classes,
         Follows(q, v, c), NEW l \in Levels, ~Turned(c, v, l)
  PROVE  \A i \in DOMAIN q : ~Turned(q[i], v, l)
<1> SUFFICES ASSUME NEW i \in DOMAIN q, Turned(q[i], v, l) PROVE FALSE
  OBVIOUS
<1>1. /\ DOMAIN q = 1 .. Len(q) /\ Len(q) \in Nat
      /\ i \in 1 .. Len(q) /\ q # <<>>
  BY EmptySeq
<1>2. i = Len(q) \/ (i < Len(q) /\ Len(q) \in DOMAIN q)
  BY <1>1
<1>3. q[Len(q)] = c
  BY <1>1 DEF Follows
<1> QED
  BY <1>2, <1>3 DEF Follows

\* What is shown and what is stored of a class agree if both are there.
LEMMA OneValue ==
  ASSUME NEW q \in Seq(Classes), NEW v \in Classes, NEW c \in Classes,
         Follows(q, v, c), NEW l \in Levels, v[l] # {}, c[l] # {}
  PROVE  c[l] = v[l]
<1>1. c \in {v} \cup {q[i] : i \in DOMAIN q}
  <2>1. CASE q = <<>>
    BY <2>1 DEF Follows
  <2>2. CASE q # <<>>
    <3>1. Len(q) \in DOMAIN q
      BY <2>2, EmptySeq
    <3> QED
      BY <2>2, <3>1 DEF Follows
  <2> QED
    BY <2>1, <2>2
<1> QED
  BY <1>1 DEF Follows

\* A class is made or deleted only if the informer shows it as it is.
LEMMA FollowsWrite ==
  ASSUME NEW q \in Seq(Classes), NEW v \in Classes, NEW c \in Classes,
         Follows(q, v, c), NEW k \in Levels, NEW values \in SUBSET Nat,
         NEW new, new = [c EXCEPT ![k] = values],
         ~Turned(c, v, k), Turned(new, v, k)
  PROVE  Follows(Append(q, new), v, new)
<1> DEFINE p == Append(q, new)
<1>1. /\ new \in Classes /\ new[k] = values
      /\ \A l \in Levels \ {k} : new[l] = c[l]
  BY DEF Classes
<1>2. p # <<>> /\ p[Len(p)] = new
  BY AppendLast
<1>3. \A i \in DOMAIN p : (i \in DOMAIN q /\ p[i] = q[i]) \/ p[i] = new
  BY AppendItems
<1>4. /\ \A i \in DOMAIN p : i \in DOMAIN q \/ p[i] = new
      /\ \A i, j \in DOMAIN p : i < j /\ j \in DOMAIN q => i \in DOMAIN q
      /\ \A i \in DOMAIN q : p[i] = q[i]
  <2>1. /\ DOMAIN q = 1 .. Len(q) /\ Len(q) \in Nat
        /\ DOMAIN p = 1 .. Len(q) + 1
    BY <1>1
  <2>2. \A i \in DOMAIN q : p[i] = q[i]
    BY AppendLast
  <2> QED
    BY <1>3, <2>1, <2>2
<1> HIDE DEF p
<1>5. \A i \in DOMAIN q : ~Turned(q[i], v, k)
  BY NotTurned
<1>6. ASSUME NEW l \in Levels, NEW i \in DOMAIN p, NEW j \in DOMAIN p, i < j,
             Turned(p[i], v, l)
      PROVE  Turned(p[j], v, l)
  <2>1. CASE j \in DOMAIN q
    BY <1>4, <1>6, <2>1 DEF Follows
  <2>2. CASE j \notin DOMAIN q /\ l = k
    BY <1>4, <2>2
  <2>3. CASE j \notin DOMAIN q /\ l # k
    <3>1. p[j] = new /\ new[l] = c[l]
      BY <1>1, <1>4, <2>3
    <3>2. Turned(new, v, l) <=> Turned(c, v, l)
      BY <3>1 DEF Turned
    <3>3. CASE i \in DOMAIN q
      BY <1>4, <1>6, <3>1, <3>2, <3>3, NotTurned
    <3>4. CASE i \notin DOMAIN q
      BY <1>4, <1>6, <3>1, <3>4
    <3> QED
      BY <3>3, <3>4
  <2> QED
    BY <2>1, <2>2, <2>3
<1>7. ASSUME NEW d \in {v} \cup {p[i] : i \in DOMAIN p},
             NEW e \in {v} \cup {p[i] : i \in DOMAIN p},
             NEW l \in Levels, d[l] # {}, e[l] # {}
      PROVE  d[l] = e[l]
  <2> DEFINE Before == {v} \cup {q[i] : i \in DOMAIN q}
  <2>1. d \in Before \cup {new} /\ e \in Before \cup {new}
    BY <1>3, <1>7
  <2>2. \A f, g \in Before : f[l] # {} /\ g[l] # {} => f[l] = g[l]
    BY DEF Follows
  <2>3. CASE l # k
    <3>1. new[l] = c[l]
      BY <1>1, <2>3
    <3>2. c \in Before
      <4>1. CASE q = <<>>
        BY <4>1 DEF Follows
      <4>2. CASE q # <<>>
        BY <4>2, EmptySeq DEF Follows
      <4> QED
        BY <4>1, <4>2
    <3> HIDE DEF Before
    <3> QED
      BY <1>7, <2>1, <2>2, <3>1, <3>2
  <2>4. CASE l = k
    <3>1. \A f \in Before : f[k] # {} => v[k] # {}
      BY <1>5 DEF Turned
    <3>2. v[k] # {} => new[k] = {}
      BY DEF Turned
    <3> HIDE DEF Before
    <3> QED
      BY <1>7, <2>1, <2>2, <2>4, <3>1, <3>2
  <2> QED
    BY <2>3, <2>4
<1>8. Follows(p, v, new)
  BY <1>2, <1>6, <1>7 DEF Follows
<1> QED
  BY <1>8 DEF p

\* The informer shows the next state.
LEMMA FollowsDelivery ==
  ASSUME NEW q \in Seq(Classes), NEW v \in Classes, NEW c \in Classes,
         Follows(q, v, c), q # <<>>
  PROVE  /\ Follows(Tail(q), Head(q), c)
         /\ \A l \in Levels : v[l] # {} /\ Head(q)[l] = {} => c[l] = {}
<1> DEFINE t == Tail(q)
           h == Head(q)
<1>1. /\ h = q[1] /\ 1 \in DOMAIN q
      /\ \A i \in DOMAIN t : i + 1 \in DOMAIN q /\ 1 < i + 1 /\ t[i] = q[i + 1]
      /\ \A i, j \in DOMAIN t : i < j => i + 1 < j + 1
      /\ IF t = <<>> THEN q[1] = q[Len(q)] ELSE t[Len(t)] = q[Len(q)]
  BY TailShifts
<1>2. q[Len(q)] = c
  BY DEF Follows
<1> HIDE DEF t, h
<1>3. ASSUME NEW l \in Levels, NEW i \in DOMAIN t, NEW j \in DOMAIN t, i < j,
             Turned(t[i], h, l)
      PROVE  Turned(t[j], h, l)
  <2>1. /\ i + 1 \in DOMAIN q /\ j + 1 \in DOMAIN q /\ i + 1 < j + 1
        /\ 1 < i + 1 /\ 1 < j + 1 /\ t[i] = q[i + 1] /\ t[j] = q[j + 1]
    BY <1>1, <1>3
  <2>2. CASE Turned(q[1], v, l)
    <3>1. Turned(q[i + 1], v, l)
      BY <1>1, <2>1, <2>2 DEF Follows
    <3> QED
      BY <1>1, <1>3, <2>1, <2>2, <3>1 DEF Turned
  <2>3. CASE ~Turned(q[1], v, l)
    <3>1. \A d : Turned(d, h, l) <=> Turned(d, v, l)
      BY <1>1, <2>3 DEF Turned
    <3> QED
      BY <1>3, <2>1, <3>1 DEF Follows
  <2> QED
    BY <2>2, <2>3
<1>4. ASSUME NEW d \in {h} \cup {t[i] : i \in DOMAIN t},
             NEW e \in {h} \cup {t[i] : i \in DOMAIN t},
             NEW l \in Levels, d[l] # {}, e[l] # {}
      PROVE  d[l] = e[l]
  <2>1. d \in {q[i] : i \in DOMAIN q} /\ e \in {q[i] : i \in DOMAIN q}
    BY <1>1
  <2> QED
    BY <1>4, <2>1 DEF Follows
<1>5. Follows(t, h, c)
  BY <1>1, <1>2, <1>3, <1>4 DEF Follows
<1>6. ASSUME NEW l \in Levels, v[l] # {}, h[l] = {} PROVE c[l] = {}
  <2>1. Turned(q[1], v, l)
    BY <1>1, <1>6 DEF Turned
  <2>2. Turned(c, v, l)
    BY <1>1, <2>1, NotTurned
  <2> QED
    BY <1>6, <2>2 DEF Turned
<1> QED
  BY <1>5, <1>6 DEF t, h

\* What the finalization has listed.
LEMMA DeletesListed ==
  ASSUME TypeOK, [Next]_vars, pc' = "delete"
  PROVE  \/ pc = "delete" /\ rest' \subseteq rest
         \/ rest' = {l \in Levels : view.classes[l] # {}} /\ view' = view
<1>1. CASE Steps
  BY <1>1 DEF Steps, AddFinalizer, EnsureClass, Ensured, ListClasses, DeleteClass,
     RemoveFinalizer, Abort, Fail, Forget, Finish, Proceed, Aside
<1>2. CASE (\E a \in Astartes : Start(a)) \/ CallFails \/ Restart
  BY <1>2 DEF Start, CallFails, Abort, Fail, Forget, Restart, worker
<1>3. CASE Users \/ (\E kind \in Kinds : Deliver(kind)) \/ UNCHANGED vars
  BY <1>3 DEF Users, Admit, Store, Edit, Delete, EraseSecret, RestoreSecret,
              Unobserved, Deliver, worker, vars
<1> QED
  BY <1>1, <1>2, <1>3 DEF Next

\* Classes are made, deleted and shown in this order.
LEMMA ClassesInOrderStep ==
  ASSUME TypeOK, ClassesInOrder, [Next]_vars
  PROVE  ClassesInOrder'
<1> DEFINE q == backlog["classes"]
           v == view.classes
           c == api.classes
<1>1. /\ q \in Seq(Classes) /\ v \in Classes /\ c \in Classes
      /\ Follows(q, v, c) /\ ClassesShow
  BY NextClasses, ObjectsHave DEF TypeOK, Kinds, Values, ClassesInOrder
<1>2. rest \subseteq Levels
  BY DEF TypeOK
<1>3. CASE ClassesSame
  <2>1. Follows(q, v, c)'
    BY <1>1, <1>3 DEF ClassesSame, Follows
  <2>2. DeletesShown'
    BY <1>3, DeletesListed DEF ClassesSame, ClassesInOrder, DeletesShown
  <2> QED
    BY <2>1, <2>2 DEF ClassesInOrder
<1>4. CASE ClassesShowNext
  <2> HIDE DEF q, v, c
  <2>1. /\ q # <<>> /\ c' = c /\ v' = Head(q) /\ q' = Tail(q)
    BY <1>4 DEF ClassesShowNext, q, v, c
  <2>2. /\ Follows(Tail(q), Head(q), c)
        /\ \A l \in Levels : v[l] # {} /\ Head(q)[l] = {} => c[l] = {}
    BY <1>1, <2>1, FollowsDelivery
  <2>3. pc' = "delete" => \A l \in rest' : c'[l] # {} => v'[l] # {}
    <3>1. CASE pc = "delete" /\ rest' \subseteq rest
      BY <1>2, <2>1, <2>2, <3>1 DEF ClassesInOrder, DeletesShown, v, c
    <3>2. CASE rest' = {l \in Levels : view.classes[l] # {}} /\ view' = view
      BY <3>2 DEF v
    <3> QED
      BY <3>1, <3>2, DeletesListed
  <2>4. Follows(q', v', c')
    BY <2>1, <2>2
  <2> QED
    BY <2>3, <2>4 DEF ClassesInOrder, DeletesShown, q, v, c
<1>5. CASE ClassesRelist
  <2>1. backlog'["classes"] = <<>> /\ view'.classes = c /\ api'.classes = c
    BY <1>5 DEF ClassesRelist
  <2>2. DOMAIN <<>> = {}
    OBVIOUS
  <2>3. Follows(<<>>, c, c)
    BY <2>2 DEF Follows
  <2> QED
    BY <2>1, <2>3 DEF ClassesInOrder, DeletesShown
<1>6. CASE ClassesAppend
  <2>1. PICK l \in Levels : ClassGone(l) \/ \E x \in Nat : ClassMade(l, x)
    BY <1>6 DEF ClassesAppend, ClassWritten
  <2>2. /\ view'.classes = v /\ backlog'["classes"] = Append(q, api'.classes)
    BY <1>6 DEF ClassesAppend
  <2>3. PICK values \in SUBSET Nat :
          /\ api'.classes = [c EXCEPT ![l] = values]
          /\ \/ values = {} /\ c[l] # {} /\ v[l] # {}
             \/ values # {} /\ c[l] = {} /\ v[l] = {}
    <3>1. CASE ClassGone(l)
      BY <3>1 DEF ClassGone, ClassesInOrder, DeletesShown
    <3>2. ASSUME NEW x \in Nat, ClassMade(l, x)
          PROVE  /\ api'.classes = [c EXCEPT ![l] = {x}]
                 /\ {x} # {} /\ c[l] = {} /\ v[l] = {}
      BY <3>2 DEF ClassMade
    <3> QED
      BY <2>1, <3>1, <3>2
  <2>4. api'.classes[l] = values
    BY <1>1, <2>3 DEF Classes
  <2>5. ~Turned(c, v, l) /\ Turned(api'.classes, v, l)
    BY <2>3, <2>4 DEF Turned
  <2>6. Follows(backlog'["classes"], view'.classes, api'.classes)
    <3> DEFINE new == api'.classes
    <3>1. new = [c EXCEPT ![l] = values] /\ Turned(new, v, l)
      BY <2>3, <2>5
    <3> HIDE DEF new, q, v, c
    <3>2. Follows(Append(q, new), v, new)
      BY <1>1, <2>5, <3>1, FollowsWrite
    <3> QED
      BY <2>2, <3>2 DEF new
  <2>7. DeletesShown'
    <3>1. pc # "ensure" => \A k \in Levels : api'.classes[k] # {} => c[k] # {}
      BY <1>1, <2>1, <2>3, <2>4 DEF ClassGone, ClassMade, Classes
    <3>2. pc = "ensure" => pc' # "delete"
      BY DEF Next, Steps, AddFinalizer, EnsureClass, Ensured, ListClasses,
         DeleteClass, RemoveFinalizer, Abort, Fail, Forget, Finish, Proceed, Start,
         CallFails, Restart, Users, Admit, Store, Edit, Delete, EraseSecret,
         RestoreSecret, Unobserved, Deliver, worker, vars
    <3> QED
      BY <1>2, <2>2, <3>1, <3>2, DeletesListed DEF ClassesInOrder, DeletesShown
  <2> QED
    BY <2>6, <2>7 DEF ClassesInOrder
<1> QED
  BY <1>1, <1>3, <1>4, <1>5, <1>6 DEF ClassesShow

\* Only a Reconcile of its own makes up for what an Astarte was robbed of.
LEMMA RobbedStays ==
  ASSUME TypeOK, [Next]_vars, NEW a \in robbed, ~Start(a) PROVE a \in robbed'
<1>1. CASE Steps
  BY <1>1 DEF Steps, AddFinalizer, EnsureClass, Ensured, ListClasses, DeleteClass,
              RemoveFinalizer, history
<1>2. CASE CallFails \/ Restart \/ (\E kind \in Kinds : Deliver(kind)) \/ UNCHANGED vars
  BY <1>2 DEF CallFails, Restart, Deliver, history, vars
<1>3. CASE Users
  BY <1>3 DEF Users, Admit, Store, Edit, Delete, EraseSecret, RestoreSecret,
              Unobserved
<1>4. ASSUME NEW b \in Astartes, Start(b) PROVE a \in robbed'
  BY <1>4 DEF Start
<1> QED
  BY <1>1, <1>2, <1>3, <1>4 DEF Next

\* What the operator knows an Astarte to ask for changes with what it is shown,
\* which has it look at the Astarte again.
LEMMA AskedKept ==
  ASSUME TypeOK, [Next]_vars, NEW a \in Astartes
  PROVE  Asked(a)' = Asked(a) \/ Asked(a)' = {} \/ a \in queue'
<1>0. view' = view => Asked(a)' = Asked(a)
  BY DEF Asked
<1>1. CASE Steps \/ (\E b \in Astartes : Start(b)) \/ CallFails
  BY <1>0, <1>1 DEF Steps, AddFinalizer, EnsureClass, Ensured, ListClasses,
                    DeleteClass, RemoveFinalizer, Start, CallFails, Aside
<1>2. CASE Users \/ UNCHANGED vars
  BY <1>0, <1>2 DEF Users, Admit, Store, Edit, Delete, EraseSecret, RestoreSecret,
                    Unobserved, vars
<1>3. CASE Restart
  BY <1>3 DEF Restart, There, Asked
<1>4. ASSUME NEW kind \in Kinds, Deliver(kind), a \notin queue'
      PROVE  Asked(a)' = Asked(a)
  <2>1. CASE kind # "astartes"
    BY <1>4, <2>1, DeliverShows DEF Asked, Kinds
  <2>2. CASE kind = "astartes"
    <3> DEFINE old == view.astartes[a]
               new == view'.astartes[a]
               Key(r) == [s |-> r.spec, d |-> r.deleted]
    <3>1. {Key(r) : r \in old} = {Key(r) : r \in new}
      <4>1. view'.astartes = Head(backlog["astartes"])
        BY <1>4, <2>2, DeliverShows
      <4>2. a \notin Woken("astartes", view'.astartes)
        BY <1>4, <2>2, <4>1 DEF Deliver
      <4> QED
        BY <4>2 DEF Woken
    <3>2. \A r, t : Key(r) = Key(t) => r.spec = t.spec /\ r.deleted = t.deleted
      OBVIOUS
    <3> HIDE DEF Key
    <3>3. \A p : (\E r \in old : ~r.deleted /\ p \in r.spec.priorities)
                   <=> (\E r \in new : ~r.deleted /\ p \in r.spec.priorities)
      <4>1. \A r \in old : \E t \in new : Key(r) = Key(t)
        BY <3>1
      <4>2. \A r \in new : \E t \in old : Key(r) = Key(t)
        BY <3>1
      <4> QED
        BY <3>2, <4>1, <4>2
    <3>4. /\ \A p : p \in Asked(a) <=> \E r \in old : ~r.deleted /\ p \in r.spec.priorities
          /\ \A p : p \in Asked(a)' <=> \E r \in new : ~r.deleted /\ p \in r.spec.priorities
      BY DEF Asked
    <3> HIDE DEF old, new
    <3> QED
      BY <3>3, <3>4
  <2> QED
    BY <2>1, <2>2
<1> QED
  BY <1>1, <1>2, <1>3, <1>4 DEF Next

\* No Astarte is lost sight of before it has the classes that it asks for.
LEMMA WakefulStep ==
  ASSUME TypeOK, AdmittedOnce, DirectoryInv, ClassesGuarded, ClassesInOrder,
         Wakeful, [Next]_vars
  PROVE  Wakeful'
<1>1. /\ ClassesChange /\ api.classes \in Classes /\ view.classes \in Classes
      /\ backlog["classes"] \in Seq(Classes)
      /\ DirectoryInv' /\ ClassesGuarded'
  BY NextClasses, ObjectsHave, DirectoryStep, GuardedStep DEF TypeOK, Kinds, Values
<1> SUFFICES ASSUME NEW a \in Astartes \ robbed', There(a)', a \notin queue',
                    Asked(a)' # {}
             PROVE  Prioritizing(a)' \/ Prioritized(a)'
  BY DEF Wakeful, Prioritized
<1>2. a \in Astartes
  OBVIOUS
<1>3. ~Doomed(a)
  <2>1. Doomed(a)' => Asked(a)' = {}
    BY DEF Doomed, Asked, Shown
  <2> QED
    BY <1>2, <2>1, DoomedStays
<1>4. Asked(a)' = Asked(a)
  BY <1>2, AskedKept
<1>a. There(a)
  <2>1. \/ Same \/ ShowsNext \/ Relists
        \/ \E b \in Astartes : \E records \in SUBSET Records : Turns(b, records)
    BY Changes DEF DirectoryInv
  <2>2. admitted[a] = {}
    BY <1>2, <1>4 DEF AdmittedOnce, Shown, Asked
  <2>3. CASE Same \/ ShowsNext \/ Relists
    BY <2>3 DEF Same, ShowsNext, Relists, There
  <2>4. ASSUME NEW b \in Astartes, NEW records \in SUBSET Records, Turns(b, records)
        PROVE  There(a)
    <3>1. /\ api'.astartes = [api.astartes EXCEPT ![b] = records]
          /\ api.astartes \in Directories
      BY <2>4, ObjectsHave DEF Turns, Rewrites, TypeOK
    <3>2. b = a => Stays(b, records)
      BY <2>2, <2>4 DEF Turns, Comes
    <3> QED
      BY <1>2, <3>1, <3>2 DEF There, Directories, Stays
  <2> QED
    BY <2>1, <2>3, <2>4
<1>5. \A l \in Levels : api.classes[l] # {} => api'.classes[l] = api.classes[l]
  <2>1. ASSUME NEW l \in Levels, ClassGone(l) PROVE FALSE
    <3>1. a = cur /\ pc = "delete"
      BY <1>a, <2>1 DEF ClassGone
    <3> QED
      BY <1>3, <3>1 DEF ClassesGuarded
  <2>2. ASSUME NEW k \in Levels, NEW v \in Nat, ClassMade(k, v)
        PROVE  \A l \in Levels : api.classes[l] # {} => api'.classes[l] = api.classes[l]
    BY <1>1, <2>2 DEF ClassMade, Classes
  <2> QED
    BY <1>1, <2>1, <2>2 DEF ClassesChange, ClassWritten, ClassesKept
<1>6. Prioritized(a) => Prioritized(a)'
  BY <1>4, <1>5 DEF Prioritized
<1>7. CASE a \in queue
  <2>1. CASE Restart
    BY <1>2, <2>1 DEF Restart, Asked, There
  <2>2. CASE ~Restart
    <3>1. Start(a)
      BY <1>2, <1>7, <2>2 DEF Next, Start, Steps, AddFinalizer, EnsureClass, Ensured,
         ListClasses, DeleteClass, RemoveFinalizer, CallFails, Abort, Fail, Finish,
         Proceed, Deliver, Users, Admit, Store, Edit, Delete, EraseSecret,
         RestoreSecret, Unobserved, vars
    <3>2. PICK r \in view.astartes[a] : ~r.deleted
      BY <1>4 DEF Asked
    <3>3. \A t \in view.astartes[a] : t = r
      BY <1>2 DEF DirectoryInv, Single, Shown
    <3>4. \E p : p \in r.spec.priorities
      BY <1>4, <3>3 DEF Asked
    <3>5. /\ cur' = a /\ inst' = view.astartes[a] /\ pc' \in {"finalizer", "ensure"}
          /\ rest' = Levels
      BY <3>1, <3>2, <3>3, <3>4 DEF Start
    <3>6. \A p \in Asked(a) : \E t \in view.astartes[a] : p \in t.spec.priorities
      BY DEF Asked
    <3>7. \A p \in Asked(a)' : /\ \E t \in inst' : p \in t.spec.priorities
                               /\ \A l \in Levels \ rest' : api'.classes[l] = {p[l]}
      BY <1>4, <3>5, <3>6
    <3> QED
      BY <3>5, <3>7 DEF Prioritizing
  <2> QED
    BY <2>1, <2>2
<1>8. CASE Prioritizing(a)
  <2>1. /\ pc \in {"finalizer", "ensure"} /\ cur = a
        /\ \A p \in Asked(a) : /\ \E r \in inst : p \in r.spec.priorities
                               /\ \A l \in Levels \ rest : api.classes[l] = {p[l]}
    BY <1>8 DEF Prioritizing
  <2>2. \A p \in Asked(a) : \A l \in Levels \ rest : api'.classes[l] = {p[l]}
    BY <1>5, <2>1
  <2>3. ASSUME UNCHANGED <<pc, cur, inst, rest>> PROVE Prioritizing(a)'
    <3>1. \A p \in Asked(a)' : /\ \E r \in inst' : p \in r.spec.priorities
                               /\ \A l \in Levels \ rest' : api'.classes[l] = {p[l]}
      BY <1>4, <2>1, <2>2, <2>3
    <3> QED
      BY <2>1, <2>3, <3>1 DEF Prioritizing
  <2>4. ~Abort /\ ~CallFails
    BY <2>1 DEF Abort, Fail, CallFails
  <2>5. CASE Users \/ (\E kind \in Kinds : Deliver(kind)) \/ UNCHANGED vars
    BY <2>3, <2>5 DEF Users, Admit, Store, Edit, Delete, EraseSecret, RestoreSecret,
                      Unobserved, Deliver, worker, vars
  <2>6. CASE Restart
    BY <1>2, <2>6 DEF Restart, Asked, There
  <2>7. CASE AddFinalizer
    <3> DEFINE Marked(r) == [r EXCEPT !.finalizer = TRUE, !.rev = @ + 1]
    <3>1. /\ inst' = {Marked(r) : r \in inst} /\ pc' = "ensure"
          /\ UNCHANGED <<cur, rest>>
      BY <2>4, <2>7 DEF AddFinalizer
    <3>2. \A r \in inst : Marked(r).spec = r.spec
      <4>1. \A r \in inst : r \in Records /\ r.spec \in Specs
        BY DEF TypeOK, Records
      <4> QED
        BY <4>1, RecordsEdited
    <3> HIDE DEF Marked
    <3>3. \A p \in Asked(a)' : /\ \E r \in inst' : p \in r.spec.priorities
                               /\ \A l \in Levels \ rest' : api'.classes[l] = {p[l]}
      BY <1>4, <2>1, <2>2, <3>1, <3>2
    <3> QED
      BY <2>1, <3>1, <3>3 DEF Prioritizing
  <2>8. CASE EnsureClass
    <3> DEFINE l == First(rest)
    <3>1. PICK r \in inst : \E p \in r.spec.priorities :
            /\ Proceed(rest \ {l})
            /\ view.classes[l] # {} /\ api.classes[l] = {} => cur \in robbed'
            /\ \/ Suits(l, p[l]) /\ Untouched
               \/ PutClass(l, {p[l]})
      BY <2>4, <2>8 DEF EnsureClass
    <3>2. PICK p \in r.spec.priorities :
            /\ Proceed(rest \ {l})
            /\ view.classes[l] # {} /\ api.classes[l] = {} => cur \in robbed'
            /\ \/ Suits(l, p[l]) /\ Untouched
               \/ PutClass(l, {p[l]})
      BY <3>1
    <3>3. l \in Levels
      BY DEF First, Levels
    <3>4. p[l] \in Nat /\ \A q \in r.spec.priorities : q = p
      <4>1. r.spec \in Specs
        BY DEF TypeOK, Records
      <4> QED
        BY <3>2, <3>3, <4>1, FleetAssumption DEF AstarteSpecs
    <3> HIDE DEF l
    <3>5. api'.classes[l] = {p[l]}
      <4>1. CASE Suits(l, p[l]) /\ Untouched
        <5>1. view.classes[l] = {p[l]} /\ api' = api
          BY <4>1 DEF Suits, Untouched
        <5>2. api.classes[l] # {}
          BY <2>1, <3>2, <5>1
        <5>3. Follows(backlog["classes"], view.classes, api.classes)
          BY DEF ClassesInOrder
        <5>4. view.classes[l] # {}
          BY <5>1
        <5>5. api.classes[l] = view.classes[l]
          BY <1>1, <3>3, <5>2, <5>3, <5>4, OneValue
        <5> QED
          BY <5>1, <5>5
      <4>2. CASE PutClass(l, {p[l]})
        <5>1. {p[l]} \in SUBSET Nat
          BY <3>4
        <5>2. api'.classes = [api.classes EXCEPT ![l] = {p[l]}]
          BY <3>3, <4>2, <5>1, PutClassWrites
        <5> QED
          BY <1>1, <3>3, <5>2 DEF Classes
      <4> QED
        BY <3>2, <4>1, <4>2
    <3>6. \A q \in Asked(a) : q = p
      <4>1. \A t \in inst : t = r
        BY <2>1 DEF ClassesGuarded
      <4> QED
        BY <2>1, <3>4, <4>1
    <3>7. UNCHANGED <<pc, cur, inst>> /\ rest' = rest \ {l}
      BY <3>2 DEF Proceed
    <3>8. \A q \in Asked(a)' : /\ \E t \in inst' : q \in t.spec.priorities
                               /\ \A k \in Levels \ rest' : api'.classes[k] = {q[k]}
      BY <1>4, <2>1, <2>2, <3>5, <3>6, <3>7
    <3> QED
      BY <2>1, <3>7, <3>8 DEF Prioritizing
  <2>9. CASE Ensured
    <3>1. rest = {}
      BY <2>9 DEF Ensured
    <3>2. \A p \in Asked(a)' : \A l \in Levels : api'.classes[l] = {p[l]}
      BY <1>4, <2>2, <3>1
    <3> QED
      BY <3>2 DEF Prioritized
  <2>10. CASE \/ \E b \in Astartes : Start(b)
              \/ ListClasses \/ DeleteClass \/ RemoveFinalizer
    BY <2>1, <2>10 DEF Start, ListClasses, DeleteClass, RemoveFinalizer
  <2> QED
    BY <2>4, <2>5, <2>6, <2>7, <2>8, <2>9, <2>10 DEF Next, Steps
<1>9. a \notin queue => a \notin robbed
  BY RobbedStays DEF Start
<1> QED
  BY <1>2, <1>a, <1>6, <1>7, <1>8, <1>9 DEF Wakeful

LEMMA PriorityInit == Init => ClassesInOrder /\ Wakeful
<1> SUFFICES ASSUME Init PROVE ClassesInOrder /\ Wakeful
  OBVIOUS
<1>1. ClassesInOrder
  <2>1. backlog["classes"] = <<>> /\ view = api /\ pc = "idle"
    BY DEF Init, Nothing, Kinds
  <2>2. DOMAIN <<>> = {}
    OBVIOUS
  <2>3. Follows(<<>>, api.classes, api.classes)
    BY <2>2 DEF Follows
  <2> QED
    BY <2>1, <2>3 DEF ClassesInOrder, DeletesShown
<1>2. \A a \in Astartes : Asked(a) = {}
  BY DEF Init, Asked
<1> QED
  BY <1>1, <1>2 DEF Wakeful, Prioritized

\* The operator rests only once each Astarte has the classes that it asks for.
LEMMA PriorityInvIs == PriorityInv => QuietMeansPrioritized
<1> SUFFICES ASSUME PriorityInv, Quiet, NEW a \in Astartes \ robbed,
                    NEW r \in api.astartes[a], ~r.deleted,
                    NEW p \in r.spec.priorities, NEW l \in Levels
             PROVE  api.classes[l] = {p[l]}
  BY DEF QuietMeansPrioritized
<1>1. view.astartes = api.astartes
  BY DEF PriorityInv, OrphanInv, DirectoryInv, UpToDate, Quiet
<1>2. p \in Asked(a)
  BY <1>1 DEF Asked
<1>3. Prioritized(a)
  BY DEF PriorityInv, Wakeful, Prioritizing, Quiet, There
<1> QED
  BY <1>2, <1>3 DEF Prioritized

\* However many Astartes ensure the same three classes, with whatever values, and
\* whatever is edited, deleted, late or failing: the operator rests only once an
\* Astarte has the classes it asks for, unless another's finalization took one
\* since it was last reconciled, or before and the cache still showed it.
THEOREM RestsOncePrioritized == Spec => []QuietMeansPrioritized
<1>1. TypeOK /\ AdmittedOnce /\ OrphanInv /\ ClassesInOrder /\ Wakeful /\ [Next]_vars
      => ClassesInOrder' /\ Wakeful'
  BY ClassesInOrderStep, WakefulStep DEF OrphanInv
<1>2. OrphanInv /\ ClassesInOrder /\ Wakeful => QuietMeansPrioritized
  BY PriorityInvIs DEF PriorityInv
<1> QED
  BY <1>1, <1>2, PriorityInit, OrphanInvHolds, PTL DEF Spec

=============================================================================
