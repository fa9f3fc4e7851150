--------------------------- MODULE WaiterTheorems ---------------------------
(***************************************************************************)
(* The queue of a semaphore, from which waiters may also go away.          *)
(***************************************************************************)
EXTENDS QueueTheorems, SequencesExt

\* A waiter that goes away leaves the queue, the others keep their order.
LEMMA RemoveElements ==
  ASSUME NEW S, NEW q \in Seq(S), NEW x, Distinct(q)
  PROVE  /\ RemoveFirst(q, x) \in Seq(S)
         /\ Elements(RemoveFirst(q, x)) = Elements(q) \ {x}
         /\ Distinct(RemoveFirst(q, x))
<1>0. Len(q) \in Nat /\ \A i \in 1 .. Len(q) : q[i] \in S
  BY LenProperties, ElementOfSeq
<1>1. CASE ~ \E i \in 1 .. Len(q) : q[i] = x
  BY <1>1 DEF RemoveFirst, Elements
<1>2. CASE \E i \in 1 .. Len(q) : q[i] = x
  <2>1. PICK k \in 1 .. Len(q) : q[k] = x
    BY <1>2
  <2> DEFINE I == {i \in 1 .. Len(q) : q[i] = x}
             a == SubSeq(q, 1, k - 1)
             b == SubSeq(q, k + 1, Len(q))
             r == a \o b
  <2>2. I = {k}
    BY <2>1 DEF Distinct
  <2>3. Min(I) = k
    BY <2>2, <1>0 DEF Min
  <2>4. RemoveFirst(q, x) = r
    BY <1>2, <2>2, <2>3 DEF RemoveFirst, RemoveAt, SelectInSeq
  <2>5. /\ a \in Seq(S) /\ Len(a) = k - 1
        /\ \A i \in 1 .. k - 1 : a[i] = q[i]
    <3>1. \A i \in 1 .. k - 1 : q[i] \in S
      BY <1>0
    <3>2. k - 1 \in Int /\ 1 \in Int
      BY <1>0
    <3> QED BY <3>1, <3>2, SubSeqProperties
  <2>6. /\ b \in Seq(S) /\ Len(b) = Len(q) - k
        /\ \A i \in 1 .. Len(q) - k : b[i] = q[k + i]
    <3>1. \A i \in k + 1 .. Len(q) : q[i] \in S
      BY <1>0
    <3>2. k + 1 \in Int /\ Len(q) \in Int
      BY <1>0
    <3>3. /\ b \in Seq(S)
          /\ Len(b) = IF k + 1 <= Len(q) THEN Len(q) - (k + 1) + 1 ELSE 0
          /\ \A i \in 1 .. Len(q) - (k + 1) + 1 : b[i] = q[(k + 1) + i - 1]
      BY <3>1, <3>2, SubSeqProperties
    <3> HIDE DEF b
    <3> QED BY <3>3, <1>0
  <2> HIDE DEF a, b
  <2>7. /\ r \in Seq(S) /\ Len(r) = Len(q) - 1
        /\ \A i \in 1 .. Len(q) - 1 : r[i] = IF i < k THEN q[i] ELSE q[i + 1]
    <3>1. /\ r \in Seq(S) /\ Len(r) = Len(a) + Len(b)
          /\ \A i \in 1 .. Len(a) + Len(b) :
               r[i] = IF i <= Len(a) THEN a[i] ELSE b[i - Len(a)]
      BY <2>5, <2>6, ConcatProperties
    <3> HIDE DEF r
    <3>2. Len(a) + Len(b) = Len(q) - 1
      BY <2>5, <2>6, <1>0
    <3>3. ASSUME NEW i \in 1 .. Len(q) - 1, i < k PROVE r[i] = q[i]
      BY <3>1, <3>2, <3>3, <2>5, <1>0
    <3>4. ASSUME NEW i \in 1 .. Len(q) - 1, ~(i < k) PROVE r[i] = q[i + 1]
      <4>1. r[i] = b[i - (k - 1)] /\ i - (k - 1) \in 1 .. Len(q) - k
        BY <3>1, <3>2, <3>4, <2>5, <1>0
      <4>2. k + (i - (k - 1)) = i + 1
        BY <1>0
      <4> QED BY <4>1, <4>2, <2>6
    <3> QED BY <3>1, <3>2, <3>3, <3>4
  <2> HIDE DEF r
  <2>8. Elements(r) \subseteq Elements(q) \ {x}
    BY <2>7, <2>1, <1>0 DEF Elements, Distinct
  <2>9. Elements(q) \ {x} \subseteq Elements(r)
    <3> SUFFICES ASSUME NEW i \in 1 .. Len(q), q[i] # x
                 PROVE  \E j \in 1 .. Len(r) : r[j] = q[i]
      BY DEF Elements
    <3>1. CASE i < k
      <4>1. i \in 1 .. Len(r) /\ r[i] = q[i]
        BY <3>1, <2>7, <1>0
      <4> QED BY <4>1
    <3>2. CASE i > k
      <4>1. i - 1 \in 1 .. Len(r) /\ r[i - 1] = q[i]
        BY <3>2, <2>7, <1>0
      <4> QED BY <4>1
    <3> QED BY <3>1, <3>2, <2>1
  <2>10. Distinct(r)
    BY <2>7, <1>0 DEF Distinct
  <2> QED BY <2>4, <2>7, <2>8, <2>9, <2>10
<1> QED BY <1>1, <1>2
=============================================================================
