--------------------------- MODULE BacklogLemmas ---------------------------
(* What happens to the states that an informer has yet to show, as the     *)
(* proofs about every controller use it: a write is appended to them, and  *)
(* a delivery takes the first.                                             *)
EXTENDS Integers, SequenceTheorems, TLAPS

\* A write comes last, behind all that was there.
LEMMA AppendLast ==
  ASSUME NEW S, NEW q \in Seq(S), NEW e
  PROVE  /\ Append(q, e) # <<>>
         /\ Append(q, e)[Len(Append(q, e))] = e
         /\ Len(Append(q, e)) \in DOMAIN Append(q, e)
         /\ \A i \in DOMAIN q : i \in DOMAIN Append(q, e) /\ Append(q, e)[i] = q[i]
<1>1. /\ Len(Append(q, e)) = Len(q) + 1 /\ Len(q) \in Nat
      /\ DOMAIN Append(q, e) = 1 .. Len(q) + 1 /\ DOMAIN q = 1 .. Len(q)
  OBVIOUS
<1>2. /\ Append(q, e)[Len(q) + 1] = e
      /\ \A i \in DOMAIN q : Append(q, e)[i] = q[i]
  OBVIOUS
<1>3. Append(q, e) # <<>>
  <2>1. 1 \in DOMAIN Append(q, e)
    BY <1>1
  <2>2. DOMAIN <<>> = {}
    OBVIOUS
  <2> QED
    BY <2>1, <2>2, Zenon
<1> QED
  BY <1>1, <1>2, <1>3

\* The items of a sequence to which one was appended.
LEMMA AppendItems ==
  ASSUME NEW S, NEW q \in Seq(S), NEW e
  PROVE  \A i \in DOMAIN Append(q, e) :
            (i \in DOMAIN q /\ Append(q, e)[i] = q[i]) \/ Append(q, e)[i] = e
  OBVIOUS

\* The rest of a sequence is the sequence moved up by one, to the same last item.
LEMMA TailShifts ==
  ASSUME NEW S, NEW q \in Seq(S), q # <<>>
  PROVE  /\ Head(q) = q[1] /\ 1 \in DOMAIN q
         /\ \A i \in DOMAIN Tail(q) : /\ i + 1 \in DOMAIN q /\ 1 < i + 1
                                      /\ Tail(q)[i] = q[i + 1]
         /\ \A i, j \in DOMAIN Tail(q) : i < j => i + 1 < j + 1
         /\ IF Tail(q) = <<>> THEN q[1] = q[Len(q)]
            ELSE Tail(q)[Len(Tail(q))] = q[Len(q)]
<1>1. /\ Len(q) \in Nat \ {0} /\ DOMAIN q = 1 .. Len(q)
      /\ Tail(q) \in Seq(S) /\ Len(Tail(q)) = Len(q) - 1
      /\ DOMAIN Tail(q) = 1 .. Len(q) - 1
      /\ \A i \in 1 .. Len(q) - 1 : Tail(q)[i] = q[i + 1]
  <2>1. /\ Len(q) \in Nat \ {0} /\ DOMAIN q = 1 .. Len(q)
        /\ Tail(q) \in Seq(S) /\ Len(Tail(q)) = Len(q) - 1
    BY EmptySeq, LenProperties, HeadTailProperties
  <2>2. DOMAIN Tail(q) = 1 .. Len(Tail(q))
    BY <2>1, LenProperties
  <2> QED
    BY <2>1, <2>2, HeadTailProperties
<1>2. Head(q) = q[1]
  OBVIOUS
<1>3. IF Tail(q) = <<>> THEN q[1] = q[Len(q)] ELSE Tail(q)[Len(Tail(q))] = q[Len(q)]
  <2>1. CASE Tail(q) = <<>>
    <3>1. Len(Tail(q)) = Len(<<>>) /\ Len(<<>>) = 0
      BY <2>1, EmptySeq, Zenon
    <3> DEFINE n == Len(q)
               m == Len(Tail(q))
    <3>a. n \in Nat /\ m = n - 1 /\ m = 0
      BY <1>1, <3>1
    <3> HIDE DEF n, m
    <3>b. n = 1
      BY <3>a
    <3>2. Len(q) = 1
      BY <3>b DEF n
    <3> QED
      BY <2>1, <3>2
  <2>2. CASE Tail(q) # <<>>
    <3>1. Len(Tail(q)) \in Nat \ {0}
      BY <1>1, <2>2, EmptySeq
    <3>2. Len(q) - 1 \in 1 .. Len(q) - 1
      BY <1>1, <3>1
    <3>3. Tail(q)[Len(q) - 1] = q[Len(q) - 1 + 1]
      BY <1>1, <3>2
    <3>4. Len(q) - 1 + 1 = Len(q)
      BY <1>1
    <3> QED
      BY <1>1, <2>2, <3>3, <3>4
  <2> QED
    BY <2>1, <2>2
<1>4. \A i \in DOMAIN Tail(q) : i + 1 \in DOMAIN q /\ 1 < i + 1
  BY <1>1
<1> QED
  BY <1>1, <1>2, <1>3, <1>4

\* What was there is the first, or among the rest.
LEMMA TailCovers ==
  ASSUME NEW S, NEW q \in Seq(S), q # <<>>
  PROVE  \A i \in DOMAIN q :
            q[i] = Head(q) \/ \E j \in DOMAIN Tail(q) : q[i] = Tail(q)[j]
<1> SUFFICES ASSUME NEW i \in DOMAIN q, q[i] # Head(q)
             PROVE  \E j \in DOMAIN Tail(q) : q[i] = Tail(q)[j]
  OBVIOUS
<1>1. /\ DOMAIN q = 1 .. Len(q) /\ Len(q) \in Nat /\ Head(q) = q[1]
      /\ Tail(q) \in Seq(S) /\ Len(Tail(q)) = Len(q) - 1
      /\ \A j \in 1 .. Len(Tail(q)) : Tail(q)[j] = q[j + 1]
  BY HeadTailProperties
<1>2. DOMAIN Tail(q) = 1 .. Len(Tail(q))
  BY <1>1, LenProperties
<1>3. i \in 2 .. Len(q)
  BY <1>1
<1>4. i - 1 \in DOMAIN Tail(q) /\ Tail(q)[i - 1] = q[i]
  BY <1>1, <1>2, <1>3
<1> QED
  BY <1>4
=============================================================================
