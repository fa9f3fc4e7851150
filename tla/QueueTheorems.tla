--------------------------- MODULE QueueTheorems ---------------------------
(***************************************************************************)
(* Facts about queues without repetition, as sequences: what joining and   *)
(* being served do to the elements.  The lanes' channels and the waiters   *)
(* of a semaphore are such queues.                                         *)
(***************************************************************************)
EXTENDS Integers, Sequences, SequenceTheorems, TLAPS

Elements(q) == {q[i] : i \in 1 .. Len(q)}
Distinct(q) == \A i, j \in 1 .. Len(q) : i # j => q[i] # q[j]

\* Sending to a channel, or queueing up, adds one element at the end.
LEMMA AppendElements ==
  ASSUME NEW S, NEW q \in Seq(S), NEW x \in S, x \notin Elements(q), Distinct(q)
  PROVE  /\ Append(q, x) \in Seq(S)
         /\ Len(Append(q, x)) = Len(q) + 1
         /\ Elements(Append(q, x)) = Elements(q) \cup {x}
         /\ Distinct(Append(q, x))
<1> DEFINE r == Append(q, x)
<1>1. /\ r \in Seq(S)
      /\ Len(r) = Len(q) + 1
      /\ Len(q) \in Nat
      /\ \A i \in 1 .. Len(q) : r[i] = q[i]
      /\ r[Len(q) + 1] = x
  BY AppendProperties, LenProperties
<1> HIDE DEF r
<1>2. Elements(r) = Elements(q) \cup {x}
  BY <1>1 DEF Elements
<1>3. Distinct(r)
  <2> SUFFICES ASSUME NEW i \in 1 .. Len(r), NEW j \in 1 .. Len(r), i < j
               PROVE  r[i] # r[j]
    BY <1>1 DEF Distinct
  <2>1. r[i] = q[i] /\ r[i] \in Elements(q)
    BY <1>1 DEF Elements
  <2>2. CASE j = Len(q) + 1
    BY <2>1, <2>2, <1>1
  <2>3. CASE j # Len(q) + 1
    BY <2>1, <2>3, <1>1 DEF Distinct
  <2> QED BY <2>2, <2>3
<1> QED BY <1>1, <1>2, <1>3 DEF r

\* Receiving from a channel, or being served, removes the head.
LEMMA TailElements ==
  ASSUME NEW S, NEW q \in Seq(S), q # <<>>, Distinct(q)
  PROVE  /\ Head(q) \in Elements(q)
         /\ Head(q) \in S
         /\ Tail(q) \in Seq(S)
         /\ Len(Tail(q)) = Len(q) - 1
         /\ Len(Tail(q)) \in Nat
         /\ Elements(Tail(q)) = Elements(q) \ {Head(q)}
         /\ Distinct(Tail(q))
<1> DEFINE r == Tail(q)
<1>1. /\ r \in Seq(S)
      /\ Head(q) \in S
      /\ Len(r) = Len(q) - 1
      /\ Len(q) \in Nat /\ Len(q) > 0 /\ Len(r) \in Nat
      /\ \A i \in 1 .. Len(r) : r[i] = q[i + 1]
      /\ Head(q) = q[1]
  BY HeadTailProperties, LenProperties, EmptySeq
<1> HIDE DEF r
<1>2. Elements(r) \subseteq Elements(q) \ {Head(q)}
  BY <1>1 DEF Elements, Distinct
<1>3. Elements(q) \ {Head(q)} \subseteq Elements(r)
  <2> SUFFICES ASSUME NEW i \in 1 .. Len(q), q[i] # q[1]
               PROVE  \E j \in 1 .. Len(r) : r[j] = q[i]
    BY <1>1 DEF Elements
  <2>1. i - 1 \in 1 .. Len(r) /\ r[i - 1] = q[i]
    BY <1>1
  <2> QED BY <2>1
<1>4. Distinct(r)
  BY <1>1 DEF Distinct
<1>5. Head(q) \in Elements(q)
  BY <1>1 DEF Elements
<1> QED BY <1>1, <1>2, <1>3, <1>4, <1>5 DEF r
============================================================================
