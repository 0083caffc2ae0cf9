----------------------- MODULE DataUpdaterPlant_proofs -----------------------
(***************************************************************************)
(* What is proved about the Data Updater Plant, for every number of        *)
(* replicas and of queues: its queue ranges, the types, and that prompt    *)
(* rescalings give no queue to two deployments.                            *)
(***************************************************************************)
EXTENDS DataUpdaterPlant, FiniteSetTheorems, SequenceTheorems, TLAPS

\* Integer division: the share of each replica, and what is left over is less
\* than one queue for each of them.
LEMMA DivisionBounds ==
    ASSUME NEW count \in Nat, NEW replicas \in Nat \ {0}
    PROVE  LET p == count \div replicas IN
           /\ p \in Nat
           /\ p * replicas <= count
           /\ count < p * replicas + replicas
  BY SMT

\* Products with a share keep the order of their factors.
LEMMA ProductMonotone ==
    ASSUME NEW p \in Nat, NEW i \in Nat, NEW j \in Nat, i <= j
    PROVE  p * i \in Nat /\ p * j \in Nat /\ p * i <= p * j
  BY SMT

\* A replica's range ends before that of any later replica starts.
LEMMA RangesOrdered ==
    ASSUME NEW count \in Nat, NEW replicas \in Nat \ {0},
           NEW i \in 0 .. replicas - 1, NEW j \in 0 .. replicas - 1, i < j
    PROVE  QueueRange(i, replicas, count).last < QueueRange(j, replicas, count).first
<1> DEFINE p == count \div replicas
<1>1. p \in Nat
  BY DivisionBounds
<1>2. replicas > 1 /\ i + 1 # replicas /\ i + 1 <= j /\ i \in Nat /\ j \in Nat
  OBVIOUS
<1>3. p * (i + 1) \in Nat /\ p * j \in Nat /\ p * (i + 1) <= p * j
  BY <1>1, <1>2, ProductMonotone
<1>4. QueueRange(i, replicas, count).last = p * (i + 1) - 1
  BY <1>2 DEF QueueRange
<1>5. QueueRange(j, replicas, count).first = p * j
  BY <1>2 DEF QueueRange
<1> HIDE DEF p
<1> QED
  BY <1>3, <1>4, <1>5

\* Each queue of getAstarteDataUpdaterPlantQueuesEnvVars' count is in the
\* range of some replica, whether or not the count divides evenly.
LEMMA RangesCover ==
    ASSUME NEW count \in Nat, NEW replicas \in Nat \ {0}, NEW q \in 0 .. count - 1
    PROVE  \E i \in 0 .. replicas - 1 : q \in QueuesOf(QueueRange(i, replicas, count))
<1> DEFINE p == count \div replicas
<1>1. p \in Nat
  BY DivisionBounds
<1>2. CASE replicas = 1
  <2>1. QueueRange(0, replicas, count) = [first |-> 0, last |-> count - 1]
    BY <1>2 DEF QueueRange
  <2>2. q \in QueuesOf(QueueRange(0, replicas, count))
    BY <2>1 DEF QueuesOf
  <2> QED
    BY <1>2, <2>2
<1>3. CASE replicas > 1 /\ p * (replicas - 1) <= q
  <2>1. QueueRange(replicas - 1, replicas, count)
          = [first |-> p * (replicas - 1), last |-> count - 1]
    BY <1>3 DEF QueueRange
  <2>2. q \in QueuesOf(QueueRange(replicas - 1, replicas, count))
    <3>1. p * (replicas - 1) \in Int
      BY <1>1
    <3> QED
      BY <2>1, <3>1, <1>3 DEF QueuesOf
  <2> QED
    BY <2>2
<1>4. CASE replicas > 1 /\ q < p * (replicas - 1)
  <2> DEFINE i == q \div p
  <2>1. p # 0
    BY <1>1, <1>4
  <2>2. q \in Nat /\ p \in Nat \ {0}
    BY <1>1, <2>1
  <2>3. i \in Nat /\ i * p <= q /\ q < i * p + p
    BY <2>2, DivisionBounds
  <2>4. i < replicas - 1
    <3>1. SUFFICES ASSUME replicas - 1 <= i PROVE FALSE
      BY <2>3
    <3>2. p * (replicas - 1) <= p * i
      BY <3>1, <2>2, <2>3, <1>4, ProductMonotone
    <3>3. p * i = i * p
      BY <2>2, <2>3
    <3>4. p * (replicas - 1) \in Int /\ i * p \in Int
      BY <2>2, <2>3
    <3> HIDE DEF i, p
    <3> QED
      BY <3>2, <3>3, <3>4, <2>2, <2>3, <1>4
  <2>5. QueueRange(i, replicas, count) = [first |-> p * i, last |-> p * (i + 1) - 1]
    BY <1>4, <2>4 DEF QueueRange
  <2>6. p * i = i * p /\ p * (i + 1) = i * p + p /\ i * p \in Nat
    BY <2>2, <2>3
  <2>7. q \in QueuesOf(QueueRange(i, replicas, count))
    <3> HIDE DEF i, p
    <3> QED
      BY <2>2, <2>3, <2>5, <2>6 DEF QueuesOf
  <2> QED
    BY <2>3, <2>4, <2>7
<1>5. p * (replicas - 1) \in Int
  BY <1>1
<1> QED
  BY <1>2, <1>3, <1>4, <1>5

\* What "Split data queues evenly across all replicas" amounts to: every queue
\* is consumed by exactly one replica, also when there are more replicas than
\* queues.
THEOREM QueuesPartitioned ==
    ASSUME NEW count \in Nat, NEW replicas \in Nat \ {0}, NEW q \in 0 .. count - 1
    PROVE  \E i \in 0 .. replicas - 1 :
              /\ q \in QueuesOf(QueueRange(i, replicas, count))
              /\ \A j \in 0 .. replicas - 1 :
                    q \in QueuesOf(QueueRange(j, replicas, count)) => j = i
<1>1. PICK i \in 0 .. replicas - 1 : q \in QueuesOf(QueueRange(i, replicas, count))
  BY RangesCover
<1>2. ASSUME NEW j \in 0 .. replicas - 1,
             q \in QueuesOf(QueueRange(j, replicas, count)), j # i
      PROVE  FALSE
  <2>1. \A k \in 0 .. replicas - 1 : QueueRange(k, replicas, count) \in [first : Int, last : Int]
    <3>1. TAKE k \in 0 .. replicas - 1
    <3> DEFINE p == count \div replicas
    <3>2. p \in Nat
      BY DivisionBounds
    <3>3. p * k \in Int /\ p * (k + 1) \in Int
      BY <3>2
    <3> HIDE DEF p
    <3>4. count \div replicas = p
      BY DEF p
    <3> QED
      BY <3>3, <3>4 DEF QueueRange
  <2>2. CASE i < j
    BY <2>1, <2>2, <1>1, <1>2, RangesOrdered DEF QueuesOf
  <2>3. CASE j < i
    BY <2>1, <2>3, <1>1, <1>2, RangesOrdered DEF QueuesOf
  <2> QED
    BY <1>2, <2>2, <2>3
<1> QED
  BY <1>1, <1>2

-----------------------------------------------------------------------------
(* While deployments are replaced no queue is given to two of them.        *)

\* A range is not the absence of a deployment.
LEMMA RangeType ==
    ASSUME NEW count \in Nat, NEW replicas \in Nat, NEW i \in Nat
    PROVE  /\ QueueRange(i, replicas, count) \in Ranges
           /\ QueueRange(i, replicas, count) # NotDeployed
<1>1. CASE replicas <= 1
  BY <1>1 DEF QueueRange, Ranges, NotDeployed
<1>2. CASE replicas > 1
  <2> DEFINE p == count \div replicas
  <2>1. p \in Nat
    BY <1>2, DivisionBounds
  <2>2. p * i \in Nat /\ p * (i + 1) \in Nat
    BY <2>1, ProductMonotone
  <2>3. QueueRange(i, replicas, count)
          = [first |-> p * i,
             last  |-> IF i + 1 = replicas THEN count - 1 ELSE p * (i + 1) - 1]
    BY <1>2 DEF QueueRange
  <2> HIDE DEF p
  <2> QED
    BY <2>2, <2>3 DEF Ranges, NotDeployed
<1> QED
  BY <1>1, <1>2

\* More replicas, smaller shares.
LEMMA SharesShrink ==
    ASSUME NEW count \in Nat, NEW r \in Nat \ {0}, NEW s \in Nat \ {0}, r <= s
    PROVE  count \div s <= count \div r
<1> DEFINE p == count \div r
           q == count \div s
<1>1. p \in Nat /\ count < p * r + r
  BY DivisionBounds
<1>2. q \in Nat /\ q * s <= count
  BY DivisionBounds
<1> HIDE DEF p, q
<1>3. SUFFICES ASSUME p + 1 <= q PROVE FALSE
  BY <1>1, <1>2 DEF p, q
<1>4. r * (p + 1) <= r * q /\ r * (p + 1) \in Nat /\ r * q \in Nat
  BY <1>1, <1>2, <1>3, ProductMonotone
<1>5. q * r <= q * s /\ q * r \in Nat /\ q * s \in Nat
  BY <1>2, ProductMonotone
<1>6. r * q = q * r /\ r * (p + 1) = p * r + r /\ p * r \in Nat
  BY <1>1, <1>2
<1> QED
  BY <1>1, <1>2, <1>4, <1>5, <1>6

\* While the worker goes up, what it has replaced lies below what it has not.
LEMMA ReplacedBelow ==
    ASSUME NEW count \in Nat, NEW r \in Nat, NEW s \in Nat, r <= s,
           NEW i \in Nat, NEW j \in Nat, i < j, j < r, i + 1 < s
    PROVE  QueueRange(i, s, count).last < QueueRange(j, r, count).first
<1> DEFINE p == count \div r
           q == count \div s
<1>1. r \in Nat \ {0} /\ s \in Nat \ {0} /\ r > 1 /\ s > 1 /\ i + 1 # s
  OBVIOUS
<1>2. p \in Nat /\ q \in Nat /\ q <= p
  BY <1>1, DivisionBounds, SharesShrink
<1>3. QueueRange(i, s, count).last = q * (i + 1) - 1
  BY <1>1 DEF QueueRange
<1>4. QueueRange(j, r, count).first = p * j
  BY <1>1 DEF QueueRange
<1> HIDE DEF p, q
<1>5. p * (i + 1) <= p * j /\ p * (i + 1) \in Nat /\ p * j \in Nat
  BY <1>2, ProductMonotone
<1>6. (i + 1) * q <= (i + 1) * p /\ (i + 1) * q \in Nat
  BY <1>2, ProductMonotone
<1>7. (i + 1) * q = q * (i + 1) /\ (i + 1) * p = p * (i + 1)
  BY <1>2
<1> QED
  BY <1>3, <1>4, <1>5, <1>6, <1>7


\* What is delivered last.
LEMMA LastOfTail ==
    ASSUME NEW S, NEW s \in Seq(S), s # <<>>
    PROVE  IF Tail(s) = <<>> THEN Head(s) = s[Len(s)]
           ELSE Tail(s)[Len(Tail(s))] = s[Len(s)]
<1> DEFINE t == Tail(s)
<1>1. /\ Len(s) \in Nat \ {0} /\ t \in Seq(S) /\ Len(t) = Len(s) - 1
      /\ \A i \in 1 .. Len(t) : t[i] = s[i + 1]
      /\ Head(s) = s[1]
  BY EmptySeq, HeadTailProperties
<1> HIDE DEF t
<1>2. CASE t = <<>>
  <2>1. Len(t) = 0
    BY <1>2, EmptySeq
  <2>2. \A m, n \in Int : m = n - 1 /\ m = 0 => n = 1
    OBVIOUS
  <2>3. Len(s) = 1
    BY <1>1, <2>1, <2>2
  <2>4. Head(s) = s[Len(s)]
    BY <1>1, <2>3
  <2> QED
    BY <1>2, <2>4 DEF t
<1>3. CASE t # <<>>
  <2>1. Len(t) \in Nat \ {0}
    BY <1>1, <1>3, EmptySeq
  <2>2. t[Len(t)] = s[Len(s)]
    BY <1>1, <2>1
  <2> QED
    BY <1>3, <2>2 DEF t
<1> QED
  BY <1>2, <1>3

\* Deployments that are well-formed make a well-formed backlog.
LEMMA PutType ==
    ASSUME TypeOK, Synced, NEW all \in Deployments, Put(all)
    PROVE  /\ deployments' \in Deployments /\ backlog' \in Seq(Deployments)
           /\ IF backlog' = <<>> THEN view = deployments'
              ELSE backlog'[Len(backlog')] = deployments'
<1>1. CASE all = deployments
  BY <1>1 DEF Put, TypeOK, Synced
<1>2. CASE all # deployments
  BY <1>2 DEF Put, TypeOK
<1> QED
  BY <1>1, <1>2

\* What the worker has read.
LEMMA WantType ==
    ASSUME TypeOK
    PROVE  /\ want.replicas \in Nat /\ want.replicas \in 0 .. MaxReplicas
           /\ want.queues \in Nat /\ want.queues \in QueueCounts
<1>1. want \in Specs
  BY DEF TypeOK
<1> QED
  <2>1. want.replicas \in Replicas /\ want.queues \in QueueCounts
    BY <1>1 DEF Specs
  <2>2. MaxReplicas \in Nat /\ Replicas \subseteq 0 .. MaxReplicas /\ QueueCounts \subseteq Nat
    BY DataUpdaterPlantAssumption
  <2>3. want.replicas \in 0 .. MaxReplicas /\ want.queues \in Nat
    BY <2>1, <2>2
  <2> QED
    BY <2>1, <2>2, <2>3

\* The names of an Astarte's first r deployments are r.
LEMMA FirstNames ==
    ASSUME NEW a \in Astartes, NEW r \in 0 .. MaxReplicas
    PROVE  /\ {a} \X (0 .. r - 1) \subseteq Names
           /\ Cardinality({a} \X (0 .. r - 1)) = r
<1>1. MaxReplicas \in Nat
  BY DataUpdaterPlantAssumption
<1>2. IsFiniteSet({a}) /\ Cardinality({a}) = 1
  BY FS_Singleton
<1>3. IsFiniteSet(0 .. r - 1) /\ Cardinality(0 .. r - 1) = r
  BY <1>1, FS_Interval
<1>4. Cardinality({a} \X (0 .. r - 1)) = 1 * r
  BY <1>2, <1>3, FS_Product
<1> QED
  BY <1>1, <1>4 DEF Names

LEMMA NamesFinite == IsFiniteSet(Names)
<1>1. MaxReplicas \in Nat /\ IsFiniteSet(Astartes)
  BY DataUpdaterPlantAssumption
<1>2. IsFiniteSet(0 .. MaxReplicas - 1)
  BY <1>1, FS_Interval
<1> QED
  BY <1>1, <1>2, FS_Product DEF Names

\* When the list of deployments shows no more than the replicas wanted, an
\* Astarte's deployments are those of a number that is not larger.
LEMMA NotTooMany ==
    ASSUME TypeOK, view = deployments, NEW a \in Astartes, NEW r \in 0 .. MaxReplicas,
           pc # "deployment", RolledOut(a, r), Cardinality(Deployed(view)) <= want.replicas
    PROVE  r <= want.replicas
<1> DEFINE own == {a} \X (0 .. r - 1)
<1>1. want.replicas \in Nat /\ want.queues \in Nat
  BY WantType
<1>2. own \subseteq Names /\ Cardinality(own) = r
  BY FirstNames
<1>3. own \subseteq Deployed(view)
  <2>1. SUFFICES ASSUME NEW n \in own PROVE n \in Deployed(view)
    OBVIOUS
  <2>2. n \in Names /\ n[1] = a /\ n[2] \in Nat /\ n[2] < r
    BY <1>2
  <2>3. deployments[n] = QueueRange(n[2], r, want.queues)
    BY <2>2 DEF RolledOut
  <2> QED
    BY <1>1, <2>2, <2>3, RangeType DEF Deployed
<1>4. IsFiniteSet(Deployed(view)) /\ Cardinality(own) <= Cardinality(Deployed(view))
  <2>1. IsFiniteSet(Deployed(view))
    BY NamesFinite, FS_Subset DEF Deployed
  <2> QED
    BY <1>3, <2>1, FS_Subset
<1>5. Cardinality(Deployed(view)) \in Nat
  BY <1>4, FS_CardinalityType
<1> HIDE DEF own
<1> QED
  BY <1>1, <1>2, <1>4, <1>5

\* What is known of each Astarte.
OfSomeNumber(a) ==
    \E r \in Replicas \cup {0} :
       /\ RolledOut(a, r)
       /\ a = cur /\ pc \in {"roles", "deployment"} => r <= want.replicas

LEMMA OfSomeNumberStable ==
    ASSUME TypeOK, NEW a \in Astartes, OfSomeNumber(a), UNCHANGED deployments,
           want'.queues = want.queues, index = 0, index' = 0,
           pc' \in {"roles", "deployment"} => /\ pc \in {"roles", "deployment"}
                                              /\ UNCHANGED <<cur, want>>
    PROVE  OfSomeNumber(a)'
<1>1. PICK r \in Replicas \cup {0} :
         /\ RolledOut(a, r)
         /\ a = cur /\ pc \in {"roles", "deployment"} => r <= want.replicas
  BY DEF OfSomeNumber
<1>2. \A n \in Names : n[2] \in Nat
  BY DEF Names
<1>3. RolledOut(a, r)'
  BY <1>1, <1>2 DEF RolledOut
<1> QED
  BY <1>1, <1>3 DEF OfSomeNumber

LEMMA PlantStep ==
    ASSUME MaxFaults = 0, MaxCrashes = 0, NEW Q, QueueCounts = {Q},
           PlantInv, [PromptNext]_vars
    PROVE  PlantInv'
<1> USE DataUpdaterPlantAssumption
<1>1. /\ TypeOK /\ Synced /\ \A a \in Astartes : OfSomeNumber(a)
      /\ \A a \in Astartes : specs[a].queues = Q
      /\ want.queues = Q /\ Q \in Nat /\ want.replicas \in 0 .. MaxReplicas
  BY DEF PlantInv, OfSomeNumber, TypeOK, Specs
<1>2. SUFFICES /\ TypeOK' /\ Synced'
               /\ \A a \in Astartes : OfSomeNumber(a)'
  BY DEF PlantInv, OfSomeNumber
<1>3. ~Spend("faults") /\ ~Spend("crashes")
  <2>1. spent["faults"] \in Nat /\ spent["crashes"] \in Nat
    BY <1>1 DEF TypeOK, Budgets
  <2> QED
    BY <2>1 DEF Spend, Bound
<1>4. \A n \in Names : n[1] \in Astartes /\ n[2] \in 0 .. MaxReplicas - 1
  BY DEF Names
<1>5. ASSUME NEW x \in Astartes, Start(x), backlog = <<>> PROVE <1>2!1
  <2>1. TypeOK' /\ Synced'
    BY <1>1, <1>5 DEF Start, TypeOK, Synced, cluster
  <2>2. want'.queues = want.queues
    BY <1>1, <1>5 DEF Start
  <2> QED
    BY <1>1, <1>5, <2>1, <2>2, OfSomeNumberStable DEF Start, cluster, TypeOK
<1>6. CASE List /\ backlog = <<>>
  <2>1. TypeOK' /\ Synced'
    <3>1. /\ pc' \in {"idle", "roles", "deployment", "deleteAll"}
          /\ pc' = "roles" => want.replicas = 1
          /\ pc' = "deployment" => want.replicas > 1
      BY <1>1, <1>6 DEF List, Rollout
    <3> QED
      BY <1>1, <1>6, <3>1 DEF List, TypeOK, Synced, cluster
  <2>2. ASSUME NEW a \in Astartes PROVE OfSomeNumber(a)'
    <3>1. PICK r \in Replicas \cup {0} : RolledOut(a, r)
      BY <1>1 DEF OfSomeNumber
    <3>2. RolledOut(a, r)'
      <4>1. /\ pc # "deployment" /\ index' = 0 /\ UNCHANGED <<deployments, want>>
            /\ \A n \in Names : ~(n[2] < 0)
        BY <1>1, <1>4, <1>6 DEF List, TypeOK, cluster
      <4> QED
        BY <3>1, <4>1 DEF RolledOut
    <3>3. pc' \in {"roles", "deployment"} => r <= want'.replicas
      <4>1. HAVE pc' \in {"roles", "deployment"}
      <4>2. ~(Cardinality(Deployed(view)) > want.replicas)
        BY <4>1, <1>6 DEF List
      <4>3. Cardinality(Deployed(view)) \in Nat
        BY NamesFinite, FS_Subset, FS_CardinalityType DEF Deployed
      <4>4. Cardinality(Deployed(view)) <= want.replicas
        BY <1>1, <4>2, <4>3
      <4>5. view = deployments /\ pc # "deployment" /\ r \in 0 .. MaxReplicas
        BY <1>1, <1>6 DEF Synced, List
      <4> QED
        BY <1>1, <1>6, <3>1, <4>4, <4>5, NotTooMany DEF List
    <3> QED
      BY <3>2, <3>3 DEF OfSomeNumber
  <2> QED
    BY <2>1, <2>2
<1>7. CASE DeleteAll /\ backlog = <<>>
  <2> DEFINE none == [n \in Names |-> NotDeployed]
  <2>1. /\ Put(none) /\ pc = "deleteAll"
        /\ pc' = IF want.deploy THEN Rollout ELSE "idle"
        /\ UNCHANGED <<queued, index, spent, specs, view, cur, want>>
    BY <1>3, <1>7 DEF DeleteAll
  <2>2. none \in Deployments
    BY DEF Deployments
  <2>3. TypeOK' /\ Synced'
    <3>1. /\ deployments' \in Deployments /\ backlog' \in Seq(Deployments)
          /\ IF backlog' = <<>> THEN view = deployments'
             ELSE backlog'[Len(backlog')] = deployments'
      BY <1>1, <2>1, <2>2, PutType
    <3> QED
      BY <1>1, <2>1, <3>1 DEF TypeOK, Synced, Rollout, Specs
  <2>4. ASSUME NEW a \in Astartes PROVE OfSomeNumber(a)'
    <3>1. index' = 0
      BY <2>1 DEF TypeOK, PlantInv
    <3>2. deployments' = none
      BY <2>1 DEF Put
    <3>3. RolledOut(a, 0)'
      BY <1>4, <3>1, <3>2 DEF RolledOut
    <3> QED
      BY <1>1, <2>1, <3>3 DEF OfSomeNumber
  <2> QED
    BY <2>3, <2>4
<1>8. CASE EnsureRoles /\ backlog = <<>>
  <2>1. TypeOK' /\ Synced'
    BY <1>1, <1>8 DEF EnsureRoles, TypeOK, Synced, Names
  <2> QED
    BY <1>1, <1>8, <2>1, OfSomeNumberStable DEF EnsureRoles, TypeOK
<1>9. CASE EnsureDeployment /\ backlog = <<>>
  <2> DEFINE n == <<cur, index>>
             range == QueueRange(index, want.replicas, want.queues)
             all == [deployments EXCEPT ![n] = range]
  <2>1. /\ pc = "deployment" /\ index \in Nat /\ index < want.replicas /\ n \in Names
        /\ cur \in Astartes
    BY <1>1, <1>9 DEF EnsureDeployment, TypeOK, Names
  <2>2. Current(n)
    BY <1>1, <1>9 DEF Current, Synced
  <2>3. /\ Put(all)
        /\ \/ /\ pc' = pc /\ index' = index + 1 /\ UNCHANGED queued
              /\ index + 1 < want.replicas
           \/ /\ pc' = "idle" /\ index' = 0 /\ UNCHANGED queued
              /\ index + 1 = want.replicas
        /\ UNCHANGED <<specs, view, cur, want, spent>>
    BY <1>1, <1>9, <2>1, <2>2 DEF EnsureDeployment, Done, Finish
  <2>4. all \in Deployments
    BY <1>1, <2>1, RangeType DEF Deployments, TypeOK
  <2>5. TypeOK' /\ Synced'
    <3>1. /\ deployments' \in Deployments /\ backlog' \in Seq(Deployments)
          /\ IF backlog' = <<>> THEN view = deployments'
             ELSE backlog'[Len(backlog')] = deployments'
      BY <1>1, <2>3, <2>4, PutType
    <3> QED
      BY <1>1, <2>1, <2>3, <3>1 DEF TypeOK, Synced
  <2>6. deployments' = all /\ deployments \in Deployments
    BY <1>1, <2>3 DEF Put, TypeOK
  <2>7. \A m \in Names : deployments'[m] = IF m = n THEN range ELSE deployments[m]
    BY <2>6 DEF Deployments
  <2>8. ASSUME NEW a \in Astartes PROVE OfSomeNumber(a)'
    <3>1. PICK r \in Replicas \cup {0} :
             /\ RolledOut(a, r)
             /\ a = cur => r <= want.replicas
      BY <1>1, <2>1 DEF OfSomeNumber
    <3>2. r \in Nat
      OBVIOUS
    <3>3. CASE a # cur
      <4>1. RolledOut(a, r)'
        BY <2>3, <2>7, <3>1, <3>3 DEF RolledOut
      <4> QED
        BY <2>3, <3>3, <4>1 DEF OfSomeNumber
    <3>4. \A m \in Names : m[1] = cur =>
             (m = n <=> m[2] = index) /\ m[2] \in Nat
      BY <1>4 DEF Names
    <3>5. CASE a = cur /\ pc' = pc
      <4>1. RolledOut(a, r)'
        <5>1. SUFFICES ASSUME NEW m \in Names, m[1] = a
                       PROVE  deployments'[m] =
                                 IF a = cur' /\ pc' = "deployment" /\ m[2] < index'
                                 THEN QueueRange(m[2], want'.replicas, want'.queues)
                                 ELSE IF m[2] < r THEN QueueRange(m[2], r, want'.queues)
                                 ELSE NotDeployed
          BY DEF RolledOut
        <5>2. m[1] = a
          BY <5>1
        <5>3. index' = index + 1 /\ UNCHANGED <<cur, want, pc>>
          BY <2>1, <2>3, <3>5
        <5>4. m[2] \in Nat /\ (m = n <=> m[2] = index)
          BY <3>4, <3>5, <5>2
        <5>5. CASE m[2] = index
          BY <2>1, <2>7, <3>5, <5>2, <5>3, <5>4, <5>5
        <5>6. CASE m[2] # index
          <6>1. deployments'[m] = deployments[m]
            BY <2>7, <5>4, <5>6
          <6>2. m[2] < index + 1 <=> m[2] < index
            BY <2>1, <5>4, <5>6
          <6> QED
            BY <3>1, <5>2, <5>3, <6>1, <6>2 DEF RolledOut
        <5> QED
          BY <5>5, <5>6
      <4> QED
        BY <2>3, <3>1, <3>5, <4>1 DEF OfSomeNumber
    <3>6. CASE a = cur /\ pc' # pc
      <4> DEFINE s == want.replicas
      <4>1. pc' = "idle" /\ index + 1 = s /\ UNCHANGED <<cur, want>>
        BY <2>1, <2>3, <3>6
      <4>2. s \in Replicas
        BY <1>1 DEF TypeOK, Specs
      <4>3. RolledOut(a, s)'
        <5>1. SUFFICES ASSUME NEW m \in Names, m[1] = a
                       PROVE  deployments'[m] =
                                 IF m[2] < s THEN QueueRange(m[2], s, want.queues)
                                 ELSE NotDeployed
          BY <4>1 DEF RolledOut
        <5>2. m[2] \in Nat /\ (m = n <=> m[2] = index)
          BY <3>4, <3>6, <5>1
        <5>3. CASE m[2] = index
          BY <2>1, <2>7, <5>2, <5>3
        <5>4. CASE m[2] < index
          <6>1. deployments'[m] = deployments[m]
            BY <2>1, <2>7, <5>2, <5>4
          <6>2. deployments[m] = QueueRange(m[2], s, want.queues)
            BY <2>1, <3>1, <3>6, <5>1, <5>4 DEF RolledOut
          <6> QED
            BY <1>1, <2>1, <5>2, <5>4, <6>1, <6>2
        <5>5. CASE m[2] > index
          <6>1. deployments'[m] = deployments[m]
            BY <2>1, <2>7, <5>2, <5>5
          <6>2. ~(m[2] < index) /\ ~(m[2] < s) /\ ~(m[2] < r)
            BY <1>1, <2>1, <3>1, <3>2, <3>6, <4>1, <5>2, <5>5
          <6> QED
            BY <3>1, <5>1, <6>1, <6>2 DEF RolledOut
        <5> QED
          BY <2>1, <5>2, <5>3, <5>4, <5>5
      <4> QED
        BY <4>1, <4>2, <4>3 DEF OfSomeNumber
    <3> QED
      BY <3>3, <3>5, <3>6
  <2> QED
    BY <2>5, <2>8
<1>10. CASE Deliver
  <2>1. Head(backlog) \in Deployments /\ Tail(backlog) \in Seq(Deployments)
    BY <1>1, <1>10 DEF Deliver, TypeOK
  <2>2. TypeOK'
    BY <1>1, <1>10, <2>1 DEF Deliver, TypeOK
  <2>3. Synced'
    <3>1. backlog \in Seq(Deployments) /\ backlog # <<>>
      BY <1>1, <1>10 DEF Deliver, TypeOK
    <3>2. IF Tail(backlog) = <<>> THEN Head(backlog) = backlog[Len(backlog)]
          ELSE Tail(backlog)[Len(Tail(backlog))] = backlog[Len(backlog)]
      BY <3>1, LastOfTail
    <3> QED
      BY <1>1, <1>10, <3>1, <3>2 DEF Deliver, Synced
  <2>4. ASSUME NEW a \in Astartes PROVE OfSomeNumber(a)'
    BY <1>1, <1>10 DEF Deliver, OfSomeNumber, RolledOut
  <2> QED
    BY <2>2, <2>3, <2>4
<1>11. ASSUME NEW x \in Astartes, Edit(x) PROVE <1>2!1
  <2>1. PICK s \in Specs : specs' = [specs EXCEPT ![x] = s]
    BY <1>11 DEF Edit
  <2>2. spent' \in [Budgets -> Nat]
    BY <1>1, <1>11 DEF Edit, Spend, TypeOK, Budgets
  <2>3. TypeOK'
    BY <1>1, <1>11, <2>1, <2>2 DEF Edit, TypeOK, cluster
  <2>4. UNCHANGED <<view, deployments, backlog, pc, cur, want, index>>
    BY <1>11 DEF Edit, cluster
  <2>5. Synced'
    BY <1>1, <2>4 DEF Synced
  <2>6. ASSUME NEW a \in Astartes PROVE OfSomeNumber(a)'
    BY <1>1, <2>4 DEF OfSomeNumber, RolledOut
  <2> QED
    BY <2>3, <2>5, <2>6
<1>12. CASE UNCHANGED vars
  BY <1>1, <1>12 DEF vars, cluster, TypeOK, Synced, OfSomeNumber, RolledOut
<1> QED
  BY <1>3, <1>5, <1>6, <1>7, <1>8, <1>9, <1>10, <1>11, <1>12
  DEF PromptNext, Worker, Environment, CallFails, Restart

LEMMA PlantInit == Init => PlantInv
<1> USE DataUpdaterPlantAssumption
<1> SUFFICES ASSUME Init PROVE PlantInv
  OBVIOUS
<1>1. deployments \in Deployments
  BY DEF Init, Deployments
<1>2. TypeOK
  BY <1>1 DEF Init, TypeOK
<1>3. \A a \in Astartes : RolledOut(a, 0)
  <2>1. \A n \in Names : n[2] \in Nat
    BY DEF Names
  <2> QED
    BY <2>1 DEF Init, RolledOut
<1> QED
  BY <1>2, <1>3 DEF Init, PlantInv, Synced

LEMMA PlantDisjoint ==
    ASSUME PlantInv, NEW m \in Deployed(deployments), NEW n \in Deployed(deployments),
           m[1] = n[1], m[2] < n[2]
    PROVE  deployments[m].last < deployments[n].first
<1> USE DataUpdaterPlantAssumption
<1> DEFINE s == want.replicas
           count == want.queues
           i == m[2]
           j == n[2]
<1>1. /\ m \in Names /\ n \in Names /\ m[1] \in Astartes /\ i \in Nat /\ j \in Nat
      /\ s \in Nat /\ count \in Nat
      /\ pc = "deployment" => index \in Nat /\ index < s
  <2>1. TypeOK
    BY DEF PlantInv
  <2>2. m \in Names /\ n \in Names /\ m[1] \in Astartes /\ i \in Nat /\ j \in Nat
    BY DEF Deployed, Names
  <2>3. pc = "deployment" => index \in Nat /\ index < s
    BY <2>1, WantType DEF TypeOK
  <2> QED
    BY <2>1, <2>2, <2>3, WantType
<1>2. PICK r \in Replicas \cup {0} :
         /\ RolledOut(m[1], r)
         /\ m[1] = cur /\ pc \in {"roles", "deployment"} => r <= s
  BY <1>1 DEF PlantInv
<1>3. r \in Nat
  OBVIOUS
<1> DEFINE replaced(k) == m[1] = cur /\ pc = "deployment" /\ k < index
<1>4. deployments[m] = IF replaced(i) THEN QueueRange(i, s, count) ELSE QueueRange(i, r, count)
  BY <1>1, <1>2 DEF RolledOut, Deployed
<1>5. deployments[n] = IF replaced(j) THEN QueueRange(j, s, count) ELSE QueueRange(j, r, count)
  BY <1>1, <1>2 DEF RolledOut, Deployed
<1>6. ~replaced(j) => j < r
  BY <1>1, <1>2 DEF RolledOut, Deployed
<1>7. CASE replaced(j)
  BY <1>1, <1>4, <1>5, <1>7, RangesOrdered
<1>8. CASE ~replaced(j) /\ ~replaced(i)
  BY <1>1, <1>3, <1>4, <1>5, <1>6, <1>8, RangesOrdered
<1>9. CASE ~replaced(j) /\ replaced(i)
  BY <1>1, <1>2, <1>3, <1>4, <1>5, <1>6, <1>9, ReplacedBelow
<1> QED
  BY <1>7, <1>8, <1>9

LEMMA PlantInvDisjoint == PlantInv => RangesDisjoint
<1> USE DataUpdaterPlantAssumption
<1> SUFFICES ASSUME PlantInv, NEW m \in Deployed(deployments),
                    NEW n \in Deployed(deployments), m # n, m[1] = n[1]
             PROVE  QueuesOf(deployments[m]) \cap QueuesOf(deployments[n]) = {}
  BY DEF RangesDisjoint
<1>1. /\ m[2] \in Nat /\ n[2] \in Nat /\ m[2] # n[2]
      /\ deployments[m] \in Ranges /\ deployments[n] \in Ranges
  BY DEF Deployed, Names, PlantInv, TypeOK, Deployments
<1>2. CASE m[2] < n[2]
  BY <1>1, <1>2, PlantDisjoint DEF Ranges, QueuesOf
<1>3. CASE n[2] < m[2]
  BY <1>1, <1>3, PlantDisjoint DEF Ranges, QueuesOf
<1> QED
  BY <1>1, <1>2, <1>3

\* The deployments of an Astarte are always those of one number of replicas, of
\* which a rescaling has replaced the first few by larger numbers' shares: for an
\* operator that reads its own writes, whose calls do not fail, and as long as
\* the number of queues stays.
THEOREM PlantInvariant ==
    ASSUME MaxFaults = 0, MaxCrashes = 0, NEW CONSTANT Q, QueueCounts = {Q}
    PROVE  PromptSpec => []PlantInv
<1>1. PlantInv /\ [PromptNext]_vars => PlantInv'
  BY PlantStep
<1> QED
  BY <1>1, PlantInit, PTL DEF PromptSpec

\* Whatever users make of the number of replicas, and whenever, no queue is
\* given to two deployments: for an operator that reads its own writes, whose
\* calls do not fail, and as long as the number of queues stays.
THEOREM RescalingSafe ==
    ASSUME MaxFaults = 0, MaxCrashes = 0, NEW CONSTANT Q, QueueCounts = {Q}
    PROVE  PromptSpec => []RangesDisjoint
BY PlantInvariant, PlantInvDisjoint, PTL
-----------------------------------------------------------------------------
(* The type invariant, with failures, restarts and any delay of the cache.  *)

LEMMA PutKeepsTypes ==
    ASSUME TypeOK, NEW all \in Deployments, Put(all)
    PROVE  deployments' \in Deployments /\ backlog' \in Seq(Deployments)
<1>1. CASE all = deployments
  BY <1>1 DEF Put, TypeOK
<1>2. CASE all # deployments
  BY <1>2 DEF Put, TypeOK
<1> QED
  BY <1>1, <1>2

LEMMA BudgetType ==
    ASSUME TypeOK, NEW what \in Budgets, Spend(what)
    PROVE  spent' \in [Budgets -> Nat]
  BY DEF TypeOK, Spend

\* The worker starts on what the list tells it, never with an index that the
\* number of replicas it has read does not have.
LEMMA RolloutType ==
    ASSUME TypeOK
    PROVE  /\ Rollout \in {"idle", "roles", "deployment"}
           /\ Rollout = "roles" => want.replicas = 1
           /\ Rollout = "deployment" => 0 \in 0 .. want.replicas - 1
<1>1. want.replicas \in Nat
  BY WantType
<1> QED
  BY <1>1 DEF Rollout

LEMMA TypeStep == TypeOK /\ [Next]_vars => TypeOK'
<1> SUFFICES ASSUME TypeOK, [Next]_vars PROVE TypeOK'
  OBVIOUS
<1>a. want.replicas \in Nat /\ want.queues \in Nat
  BY WantType
<1>1. ASSUME NEW a \in Astartes, Start(a) PROVE TypeOK'
  BY <1>1 DEF Start, TypeOK, cluster
<1>2. CASE List
  <2>1. /\ pc' \in {"deleteAll", Rollout} /\ index = 0
        /\ UNCHANGED <<specs, view, deployments, backlog, queued, cur, want, index, spent>>
    BY <1>2 DEF List, TypeOK, cluster
  <2> QED
    BY <2>1, RolloutType DEF TypeOK
<1>3. CASE DeleteAll
  <2>1. PICK all \in Deployments : Put(all)
    <3>1. [n \in Names |-> NotDeployed] \in Deployments
      BY DEF Deployments
    <3>2. \A deleted \in SUBSET Deployed(deployments) :
             [n \in Names |-> IF n \in deleted THEN NotDeployed ELSE deployments[n]]
               \in Deployments
      BY DEF TypeOK, Deployments
    <3> QED
      BY <1>3, <3>1, <3>2 DEF DeleteAll
  <2>2. deployments' \in Deployments /\ backlog' \in Seq(Deployments)
    BY <2>1, PutKeepsTypes
  <2>3. pc = "deleteAll" /\ index = 0 /\ UNCHANGED <<specs, view, cur, want>>
    BY <1>3 DEF DeleteAll, TypeOK
  <2>4. CASE pc' \in {"idle", Rollout} /\ UNCHANGED <<queued, index, spent>>
    BY <2>2, <2>3, <2>4, RolloutType DEF TypeOK
  <2>5. CASE Spend("faults") /\ Fail
    <3>1. spent' \in [Budgets -> Nat]
      BY <2>5, BudgetType DEF Budgets
    <3> QED
      BY <2>2, <2>3, <2>5, <3>1 DEF TypeOK, Fail, Finish
  <2> QED
    BY <1>3, <2>4, <2>5 DEF DeleteAll
<1>4. CASE EnsureRoles
  BY <1>4 DEF EnsureRoles, TypeOK
<1>5. CASE EnsureDeployment
  <2>1. pc = "deployment" /\ index \in 0 .. want.replicas - 1
        /\ UNCHANGED <<specs, view, cur, want, spent>>
    BY <1>5 DEF EnsureDeployment, TypeOK
  <2>2. CASE Fail /\ UNCHANGED <<deployments, backlog>>
    BY <2>1, <2>2 DEF Fail, Finish, TypeOK
  <2>3. CASE ~(Fail /\ UNCHANGED <<deployments, backlog>>)
    <3> DEFINE all == [deployments EXCEPT ![<<cur, index>>] =
                                  QueueRange(index, want.replicas, want.queues)]
    <3>1. all \in Deployments
      <4>1. QueueRange(index, want.replicas, want.queues) \in Ranges
        BY <1>a, <2>1, RangeType
      <4> QED
        BY <4>1 DEF TypeOK, Deployments
    <3>2. /\ Put(all)
          /\ IF index + 1 < want.replicas
             THEN pc' = pc /\ index' = index + 1 /\ UNCHANGED queued
             ELSE Done
      BY <1>5, <2>3 DEF EnsureDeployment
    <3> HIDE DEF all
    <3>3. deployments' \in Deployments /\ backlog' \in Seq(Deployments)
      BY <3>1, <3>2, PutKeepsTypes
    <3> QED
      BY <1>a, <2>1, <3>2, <3>3 DEF TypeOK, Done, Finish
  <2> QED
    BY <2>2, <2>3
<1>6. CASE CallFails
  <2>1. spent' \in [Budgets -> Nat]
    BY <1>6, BudgetType DEF CallFails, Budgets
  <2> QED
    BY <1>6, <2>1 DEF CallFails, Fail, Finish, TypeOK, cluster
<1>7. CASE Deliver
  <2>1. view' \in Deployments /\ backlog' \in Seq(Deployments)
    BY <1>7 DEF Deliver, TypeOK
  <2> QED
    BY <1>7, <2>1 DEF Deliver, TypeOK
<1>8. CASE Restart
  <2>1. spent' \in [Budgets -> Nat]
    BY <1>8, BudgetType DEF Restart, Budgets
  <2>2. backlog' \in Seq(Deployments)
    BY <1>8 DEF Restart
  <2> QED
    BY <1>8, <2>1, <2>2 DEF Restart, Finish, TypeOK
<1>9. ASSUME NEW a \in Astartes, Edit(a) PROVE TypeOK'
  <2>1. spent' \in [Budgets -> Nat]
    BY <1>9, BudgetType DEF Edit, Budgets
  <2> QED
    BY <1>9, <2>1 DEF Edit, TypeOK, cluster
<1>10. CASE UNCHANGED vars
  BY <1>10 DEF vars, cluster, TypeOK
<1> QED
  BY <1>1, <1>2, <1>3, <1>4, <1>5, <1>6, <1>7, <1>8, <1>9, <1>10
  DEF Next, Worker, Environment

\* The ranges of queues and the index of the replica stay what they are meant to
\* be, also when users rescale, calls fail and the operator restarts half way.
THEOREM TypeCorrect == Spec => []TypeOK
<1>1. Init => TypeOK
  BY PlantInit DEF PlantInv
<1> QED
  BY <1>1, TypeStep, PTL DEF Spec
=============================================================================
