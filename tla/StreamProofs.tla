----------------------------- MODULE StreamProofs -----------------------------
(***************************************************************************)
(* The live log of a job, for any number of writers, lines, events and any  *)
(* size of the queue: the lines arrive in the order of their numbers and    *)
(* once, the end is honest, and a stream that ends has sent every persisted *)
(* line the queue did not lose.                                             *)
(***************************************************************************)
EXTENDS JobStream, Integers, FiniteSetTheorems, SequenceTheorems, TLAPS

Kinds == {"log", "progress", "status", "end"}

LEMMA EventFields ==
  /\ \A e \in Events : /\ e.kind \in Kinds /\ e.seq \in Nat
                       /\ e.kind = "log" <=> e.seq # 0
  /\ \A n \in Lines : /\ Log(n) \in Events /\ Log(n).seq = n
                      /\ Log(n).kind = "log"
  /\ \A k \in {"progress", "status", "end"} :
       Mark(k) \in Events /\ Mark(k).seq = 0 /\ Mark(k).kind = k
BY StreamAssumption DEF Events, Lines, Log, Mark, Kinds

(* A queue behind top: no line above it, and none behind a later one that   *)
(* is not accounted for.                                                    *)
QueueOK(q, top, lost) ==
  /\ q \in Seq(Events)
  /\ \A i \in 1..Len(q) : q[i].seq <= top
  /\ \A i, j \in 1..Len(q) :
       i < j /\ q[j].seq # 0 /\ q[j].seq \notin lost => q[i].seq <= q[j].seq

NoEnd(q)   == \A i \in 1..Len(q) : q[i].kind # "end"
EndLast(q) == \A i \in 1..Len(q) : q[i].kind = "end" => i = Len(q)

LEMMA SeqWider ==
  ASSUME NEW S, NEW T, S \subseteq T, NEW s \in Seq(S)
  PROVE  s \in Seq(T)
<1>1. Len(s) \in Nat /\ s \in [1..Len(s) -> S]
  BY LenProperties
<1>2. s \in [1..Len(s) -> T]
  BY <1>1
<1> QED
  BY <1>1, <1>2, SeqDef

LEMMA HeldIs ==
  ASSUME NEW q \in Seq(Events), NEW n
  PROVE  n \in Held(q) <=> n # 0 /\ \E i \in 1..Len(q) : q[i].seq = n
BY DEF Held

LEMMA QueueEmpty ==
  ASSUME NEW top \in Nat, NEW lost
  PROVE  /\ QueueOK(<<>>, top, lost) /\ NoEnd(<<>>) /\ EndLast(<<>>)
         /\ Held(<<>>) = {}
BY DEF QueueOK, NoEnd, EndLast, Held

LEMMA QueueMore ==
  ASSUME NEW q, NEW top \in Nat, NEW top2 \in Nat, top <= top2,
         NEW lost, NEW lost2, lost \subseteq lost2, QueueOK(q, top, lost)
  PROVE  QueueOK(q, top2, lost2)
<1>1. q \in Seq(Events) /\ \A i \in 1..Len(q) : q[i] \in Events /\ q[i].seq \in Nat
  BY EventFields DEF QueueOK
<1> QED
  BY <1>1 DEF QueueOK

LEMMA QueueTail ==
  ASSUME NEW q, NEW top \in Nat, NEW lost, QueueOK(q, top, lost), q # <<>>
  PROVE  /\ QueueOK(Tail(q), top, lost)
         /\ Len(Tail(q)) = Len(q) - 1 /\ Len(q) > 0
         /\ Head(q) \in Events /\ Head(q).seq <= top
         /\ Held(q) \subseteq Held(Tail(q)) \union {Head(q).seq}
         /\ Held(Tail(q)) \subseteq Held(q)
         /\ \A n \in Held(Tail(q)) \ lost : Head(q).seq <= n
         /\ NoEnd(q) => NoEnd(Tail(q)) /\ Head(q).kind # "end"
         /\ EndLast(q) =>
              EndLast(Tail(q)) /\ (Head(q).kind = "end" => Tail(q) = <<>>)
<1> DEFINE p == Tail(q)
<1>1. q \in Seq(Events)
  BY DEF QueueOK
<1>2. /\ p \in Seq(Events) /\ Len(p) = Len(q) - 1 /\ Head(q) = q[1]
      /\ \A i \in 1..Len(p) : p[i] = q[i + 1]
      /\ Len(q) \in Nat /\ Len(q) > 0 /\ Head(q) \in Events
  BY <1>1, HeadTailProperties
<1>3. (p = <<>>) <=> Len(p) = 0
  BY <1>2
<1>4. \A n : n \in Held(p) <=> n # 0 /\ \E i \in 1..Len(p) : p[i].seq = n
  BY <1>2, HeldIs
<1>5. \A n : n \in Held(q) <=> n # 0 /\ \E i \in 1..Len(q) : q[i].seq = n
  BY <1>1, HeldIs
<1> HIDE DEF p
<1>6. \A i \in 1..Len(p) : (i + 1) \in 1..Len(q) /\ 1 < i + 1 /\ p[i] = q[i + 1]
  BY <1>2
<1>7. \A i \in 1..Len(q) : i = 1 \/ ((i - 1) \in 1..Len(p) /\ p[i - 1] = q[i])
  BY <1>2
<1>8. QueueOK(p, top, lost)
  <2>1. \A i \in 1..Len(p) : p[i].seq <= top
    BY <1>6 DEF QueueOK
  <2>2. ASSUME NEW i \in 1..Len(p), NEW j \in 1..Len(p), i < j,
               p[j].seq # 0, p[j].seq \notin lost
        PROVE  p[i].seq <= p[j].seq
    <3>1. i + 1 < j + 1 /\ (i + 1) \in 1..Len(q) /\ (j + 1) \in 1..Len(q)
      BY <1>6, <2>2
    <3>2. p[i] = q[i + 1] /\ p[j] = q[j + 1]
      BY <1>6
    <3> QED
      BY <2>2, <3>1, <3>2 DEF QueueOK
  <2> QED
    BY <1>2, <2>1, <2>2 DEF QueueOK
<1>9. Head(q).seq <= top /\ 1 \in 1..Len(q)
  BY <1>2 DEF QueueOK
<1>10. Held(q) \subseteq Held(p) \union {Head(q).seq}
  <2> SUFFICES ASSUME NEW n \in Held(q), n # Head(q).seq PROVE n \in Held(p)
    OBVIOUS
  <2>1. PICK i \in 1..Len(q) : q[i].seq = n
    BY <1>5
  <2>2. i # 1
    BY <1>2, <2>1
  <2> QED
    BY <1>4, <1>5, <1>7, <2>1, <2>2
<1>11. Held(p) \subseteq Held(q)
  BY <1>4, <1>5, <1>6
<1>12. ASSUME NEW n \in Held(p), n \notin lost PROVE Head(q).seq <= n
  <2>1. n # 0 /\ \E i \in 1..Len(p) : p[i].seq = n
    BY <1>4, <1>12
  <2>2. PICK i \in 1..Len(p) : p[i].seq = n
    BY <2>1
  <2>3. (i + 1) \in 1..Len(q) /\ 1 < i + 1 /\ q[i + 1].seq = n
    BY <1>6, <2>2
  <2> QED
    BY <1>2, <1>9, <1>12, <2>1, <2>3 DEF QueueOK
<1>13. NoEnd(q) => NoEnd(p) /\ Head(q).kind # "end"
  BY <1>2, <1>6, <1>9 DEF NoEnd
<1>14. EndLast(q) => EndLast(p)
  BY <1>2, <1>6 DEF EndLast
<1>15. EndLast(q) /\ Head(q).kind = "end" => p = <<>>
  BY <1>2, <1>3, <1>9 DEF EndLast
<1> QED
  BY <1>2, <1>8, <1>9, <1>10, <1>11, <1>12, <1>13, <1>14, <1>15 DEF p

LEMMA QueueAppend ==
  ASSUME NEW q, NEW top \in Nat, NEW lost, QueueOK(q, top, lost),
         NEW e \in Events, e.seq <= top,
         e.seq # 0 /\ e.seq \notin lost => \A m \in Held(q) : m <= e.seq
  PROVE  /\ QueueOK(Append(q, e), top, lost)
         /\ Len(Append(q, e)) = Len(q) + 1 /\ Len(q) \in Nat
         /\ Held(Append(q, e)) = IF e.seq = 0 THEN Held(q)
                                 ELSE Held(q) \union {e.seq}
         /\ NoEnd(q) => /\ EndLast(Append(q, e))
                        /\ e.kind # "end" => NoEnd(Append(q, e))
<1> DEFINE p == Append(q, e)
<1>1. q \in Seq(Events)
  BY DEF QueueOK
<1>2. /\ p \in Seq(Events) /\ Len(p) = Len(q) + 1 /\ Len(q) \in Nat
      /\ p[Len(q) + 1] = e /\ \A i \in 1..Len(q) : p[i] = q[i]
  BY <1>1, AppendProperties
<1>3. \A n : n \in Held(p) <=> n # 0 /\ \E i \in 1..Len(p) : p[i].seq = n
  BY <1>2, HeldIs
<1>4. \A n : n \in Held(q) <=> n # 0 /\ \E i \in 1..Len(q) : q[i].seq = n
  BY <1>1, HeldIs
<1> HIDE DEF p
<1>5. 1..Len(p) = 1..Len(q) \union {Len(q) + 1}
  BY <1>2
<1>6. \A i \in 1..Len(q) : q[i].seq \in Nat
  BY <1>1, EventFields
<1>7. QueueOK(p, top, lost)
  <2>1. \A i \in 1..Len(p) : p[i].seq <= top
    BY <1>2, <1>5 DEF QueueOK
  <2>2. ASSUME NEW i \in 1..Len(p), NEW j \in 1..Len(p), i < j,
               p[j].seq # 0, p[j].seq \notin lost
        PROVE  p[i].seq <= p[j].seq
    <3>1. i \in 1..Len(q) /\ p[i] = q[i]
      BY <1>2, <2>2
    <3>2. CASE j \in 1..Len(q)
      BY <1>2, <2>2, <3>1, <3>2 DEF QueueOK
    <3>3. CASE j = Len(q) + 1
      <4>1. p[j] = e
        BY <1>2, <3>3
      <4>2. q[i].seq # 0 => q[i].seq \in Held(q)
        BY <1>4, <3>1
      <4>3. e.seq \in Nat /\ q[i].seq \in Nat
        BY <1>6, <3>1, EventFields
      <4> QED
        BY <2>2, <3>1, <4>1, <4>2, <4>3
    <3> QED
      BY <1>5, <3>2, <3>3
  <2> QED
    BY <1>2, <2>1, <2>2 DEF QueueOK
<1>8. \A n : n \in Held(p) <=> n \in Held(q) \/ (n # 0 /\ n = e.seq)
  <2> SUFFICES ASSUME NEW n PROVE n \in Held(p) <=> n \in Held(q) \/ (n # 0 /\ n = e.seq)
    OBVIOUS
  <2>1. (\E i \in 1..Len(p) : p[i].seq = n) <=> (\E i \in 1..Len(q) : q[i].seq = n) \/ n = e.seq
    BY <1>2, <1>5
  <2> QED
    BY <1>3, <1>4, <2>1
<1>9. NoEnd(q) => EndLast(p) /\ (e.kind # "end" => NoEnd(p))
  BY <1>2, <1>5 DEF NoEnd, EndLast
<1> QED
  BY <1>2, <1>7, <1>8, <1>9 DEF p

(* What publish leaves of the queue for an event that is not a line.        *)
LEMMA PutMark ==
  ASSUME NEW q, NEW top \in Nat, NEW lost, QueueOK(q, top, lost),
         Len(q) <= Capacity, NEW k \in {"progress", "status", "end"}
  PROVE  /\ QueueOK(Put(q, Mark(k)), top, lost)
         /\ Len(Put(q, Mark(k))) <= Capacity
         /\ Held(Put(q, Mark(k))) \subseteq Held(q)
         /\ NoEnd(q) => /\ EndLast(Put(q, Mark(k)))
                        /\ k # "end" => NoEnd(Put(q, Mark(k)))
<1>1. /\ Mark(k) \in Events /\ Mark(k).seq = 0 /\ Mark(k).kind = k
      /\ Mark(k).seq <= top
  BY EventFields
<1>2. q \in Seq(Events) /\ Len(q) \in Nat /\ Capacity \in Nat /\ Capacity > 0
  BY StreamAssumption DEF QueueOK
<1>3. CASE Len(q) < Capacity
  <2>1. Put(q, Mark(k)) = Append(q, Mark(k))
    BY <1>3 DEF Put
  <2>2. /\ QueueOK(Append(q, Mark(k)), top, lost)
        /\ Len(Append(q, Mark(k))) = Len(q) + 1
        /\ Held(Append(q, Mark(k))) = Held(q)
        /\ NoEnd(q) => /\ EndLast(Append(q, Mark(k)))
                       /\ k # "end" => NoEnd(Append(q, Mark(k)))
    BY <1>1, QueueAppend
  <2> QED
    BY <1>2, <1>3, <2>1, <2>2
<1>4. CASE ~(Len(q) < Capacity) /\ k \in {"status", "end"}
  <2>1. Put(q, Mark(k)) = Append(Tail(q), Mark(k))
    BY <1>1, <1>4 DEF Put
  <2>2. q # <<>>
    BY <1>2, <1>4
  <2>3. /\ QueueOK(Tail(q), top, lost) /\ Len(Tail(q)) = Len(q) - 1
        /\ Held(Tail(q)) \subseteq Held(q) /\ (NoEnd(q) => NoEnd(Tail(q)))
    BY <2>2, QueueTail
  <2>4. /\ QueueOK(Append(Tail(q), Mark(k)), top, lost)
        /\ Len(Append(Tail(q), Mark(k))) = Len(Tail(q)) + 1
        /\ Held(Append(Tail(q), Mark(k))) = Held(Tail(q))
        /\ NoEnd(Tail(q)) => /\ EndLast(Append(Tail(q), Mark(k)))
                             /\ k # "end" => NoEnd(Append(Tail(q), Mark(k)))
    BY <1>1, <2>3, QueueAppend
  <2> QED
    BY <1>2, <2>1, <2>3, <2>4
<1>5. CASE ~(Len(q) < Capacity) /\ k = "progress"
  <2>1. Put(q, Mark(k)) = q
    BY <1>1, <1>5 DEF Put
  <2> QED
    BY <1>5, <2>1 DEF NoEnd, EndLast
<1> QED
  BY <1>3, <1>4, <1>5

-----------------------------------------------------------------------------
(* The backlog: the numbers of a finite set, smallest first.                *)
LEMMA Ranks ==
  ASSUME NEW top \in Nat, NEW S, S \subseteq 1..top
  PROVE  /\ IsFiniteSet(S) /\ Cardinality(S) \in Nat
         /\ \A n \in S : Cardinality({m \in S : m <= n}) \in 1..Cardinality(S)
         /\ \A n, k \in S : n < k =>
              Cardinality({m \in S : m <= n}) < Cardinality({m \in S : m <= k})
         /\ \A i \in 1..Cardinality(S) :
              \E n \in S : Cardinality({m \in S : m <= n}) = i
<1>1. IsFiniteSet(1..top)
  BY FS_Interval
<1>2. IsFiniteSet(S) /\ Cardinality(S) \in Nat
  BY <1>1, FS_Subset, FS_CardinalityType
<1> DEFINE Up(n) == {m \in S : m <= n}
           rank == [n \in S |-> Cardinality(Up(n))]
<1>3. ASSUME NEW n
      PROVE  IsFiniteSet(Up(n)) /\ Cardinality(Up(n)) \in Nat
             /\ Cardinality(Up(n)) <= Cardinality(S)
  <2>1. Up(n) \in SUBSET S
    OBVIOUS
  <2> HIDE DEF Up
  <2> QED
    BY <1>2, <2>1, FS_Subset, FS_CardinalityType
<1>4. ASSUME NEW n \in S PROVE Cardinality(Up(n)) \in 1..Cardinality(S)
  <2>1. n \in Up(n)
    OBVIOUS
  <2> HIDE DEF Up
  <2>2. Cardinality(Up(n)) # 0
    BY <1>3, <2>1, FS_EmptySet
  <2> QED
    BY <1>2, <1>3, <2>2
<1>5. ASSUME NEW n \in S, NEW k \in S, n < k
      PROVE  Cardinality(Up(n)) < Cardinality(Up(k))
  <2>0. n \in Nat /\ k \in Nat /\ \A m \in S : m \in Nat
    OBVIOUS
  <2>1. Up(n) \in SUBSET Up(k) /\ k \in Up(k) /\ k \notin Up(n)
    <3>1. \A m \in S : m <= n => m <= k
      BY <1>5, <2>0
    <3>2. k <= k /\ ~(k <= n)
      BY <1>5, <2>0
    <3> QED
      BY <3>1, <3>2
  <2> HIDE DEF Up
  <2>2. /\ Cardinality(Up(n)) <= Cardinality(Up(k))
        /\ Cardinality(Up(k)) = Cardinality(Up(n)) => Up(k) = Up(n)
    BY <1>3, <2>1, FS_Subset
  <2>3. Cardinality(Up(k)) # Cardinality(Up(n))
    BY <2>1, <2>2
  <2>4. Cardinality(Up(n)) \in Nat /\ Cardinality(Up(k)) \in Nat
    BY <1>3
  <2> QED
    BY <2>2, <2>3, <2>4
<1>6. rank \in Injection(S, 1..Cardinality(S))
  <2>1. rank \in [S -> 1..Cardinality(S)]
    BY <1>4
  <2>2. ASSUME NEW n \in S, NEW k \in S, rank[n] = rank[k] PROVE n = k
    <3>1. n \in Nat /\ k \in Nat /\ Cardinality(Up(n)) = Cardinality(Up(k))
      BY <2>2
    <3>2. ~(n < k) /\ ~(k < n)
      <4>1. Cardinality(Up(n)) \in Nat /\ Cardinality(Up(k)) \in Nat
        BY <1>3
      <4> HIDE DEF Up
      <4> QED
        BY <1>5, <3>1, <4>1
    <3> QED
      BY <3>1, <3>2
  <2>3. DOMAIN rank = S
    OBVIOUS
  <2> QED
    BY <2>1, <2>2, <2>3 DEF Injection, IsInjective
<1>7. IsFiniteSet(1..Cardinality(S)) /\ Cardinality(1..Cardinality(S)) = Cardinality(S)
  <2>1. /\ IsFiniteSet(1..Cardinality(S))
        /\ Cardinality(1..Cardinality(S)) = IF 1 > Cardinality(S) THEN 0
                                            ELSE Cardinality(S) - 1 + 1
    BY <1>2, FS_Interval
  <2> QED
    BY <1>2, <2>1
<1>8. rank \in Surjection(S, 1..Cardinality(S))
  <2> HIDE DEF rank
  <2> QED
    BY <1>6, <1>7, FS_Injection
<1>9. \A i \in 1..Cardinality(S) : \E n \in S : rank[n] = i
  <2> HIDE DEF rank
  <2> QED
    BY <1>8 DEF Surjection
<1>10. \A i \in 1..Cardinality(S) : \E n \in S : Cardinality(Up(n)) = i
  BY <1>9
<1> HIDE DEF Up
<1>11. /\ \A n \in S : Cardinality(Up(n)) \in 1..Cardinality(S)
       /\ \A n, k \in S : n < k => Cardinality(Up(n)) < Cardinality(Up(k))
  BY <1>4, <1>5
<1> QED
  BY <1>2, <1>10, <1>11 DEF Up

LEMMA InOrderIs ==
  ASSUME NEW top \in Nat, NEW S, S \subseteq 1..top
  PROVE  /\ InOrder(S) \in Seq(S) /\ Len(InOrder(S)) \in Nat
         /\ \A n \in S : \E i \in 1..Len(InOrder(S)) : InOrder(S)[i] = n
         /\ \A i, k \in 1..Len(InOrder(S)) :
              i < k => InOrder(S)[i] < InOrder(S)[k]
<1> DEFINE Rank(n) == Cardinality({m \in S : m <= n})
           c == Cardinality(S)
           q == InOrder(S)
<1>0. \A n \in S : n \in Nat
  OBVIOUS
<1>1. /\ c \in Nat
      /\ \A n \in S : Rank(n) \in 1..c
      /\ \A n, k \in S : n < k => Rank(n) < Rank(k)
      /\ \A i \in 1..c : \E n \in S : Rank(n) = i
  BY Ranks
<1>2. q = [i \in 1..c |-> CHOOSE n \in S : Rank(n) = i]
  BY DEF InOrder
<1> HIDE DEF Rank, c, q
<1>3. \A i \in 1..c : q[i] \in S /\ Rank(q[i]) = i
  BY <1>1, <1>2
<1>4. q \in [1..c -> S]
  BY <1>2, <1>3
<1>5. q \in Seq(S) /\ Len(q) = c
  BY <1>1, <1>4
<1>6. ASSUME NEW n \in S PROVE \E i \in 1..Len(q) : q[i] = n
  <2>1. Rank(n) \in 1..c /\ q[Rank(n)] \in S /\ Rank(q[Rank(n)]) = Rank(n)
    BY <1>1, <1>3
  <2>2. PICK e \in S : e = q[Rank(n)] /\ Rank(e) = Rank(n)
    BY <2>1
  <2>3. n \in Nat /\ e \in Nat /\ Rank(n) \in Nat
    BY <2>1, <1>0
  <2>4. ~(n < e) /\ ~(e < n)
    BY <1>1, <2>2, <2>3
  <2>5. e = n
    BY <2>3, <2>4
  <2> QED
    BY <1>5, <2>1, <2>2, <2>5
<1>7. ASSUME NEW i \in 1..Len(q), NEW k \in 1..Len(q), i < k PROVE q[i] < q[k]
  <2>1. q[i] \in S /\ q[k] \in S /\ Rank(q[i]) = i /\ Rank(q[k]) = k
    BY <1>3, <1>5
  <2>2. PICK a \in S, b \in S : a = q[i] /\ b = q[k]
    BY <2>1
  <2>3. a \in Nat /\ b \in Nat /\ i \in Nat /\ k \in Nat
    BY <1>0
  <2>4. a # b /\ ~(b < a)
    BY <1>1, <1>7, <2>1, <2>2, <2>3
  <2> QED
    BY <2>2, <2>3, <2>4
<1> QED
  BY <1>1, <1>5, <1>6, <1>7 DEF q

LEMMA HighestIs ==
  ASSUME NEW top \in Nat, NEW S, S \subseteq 1..top
  PROVE  /\ Highest(S) \in 0..top /\ \A m \in S : m <= Highest(S)
<1>1. IsFiniteSet(S) /\ Cardinality(S) \in Nat
  BY Ranks
<1>2. \E n \in S \union {0} : \A m \in S : m <= n
  <2>1. CASE S = {}
    BY <2>1
  <2>2. CASE S # {}
    <3>1. Cardinality(S) # 0
      BY <1>1, <2>2, FS_EmptySet
    <3>2. PICK n \in S : Cardinality({m \in S : m <= n}) = Cardinality(S)
      <4>1. Cardinality(S) \in 1..Cardinality(S)
        BY <1>1, <3>1
      <4>2. \A i \in 1..Cardinality(S) :
              \E n \in S : Cardinality({m \in S : m <= n}) = i
        BY Ranks
      <4> QED
        BY <4>1, <4>2
    <3>3. {m \in S : m <= n} = S
      <4>1. {m \in S : m <= n} \in SUBSET S
        OBVIOUS
      <4> QED
        BY <1>1, <3>2, <4>1, FS_Subset
    <3> QED
      BY <3>3
  <2> QED
    BY <2>1, <2>2
<1>3. Highest(S) \in S \union {0} /\ \A m \in S : m <= Highest(S)
  BY <1>2 DEF Highest
<1>4. S \union {0} \subseteq 0..top
  OBVIOUS
<1> QED
  BY <1>3, <1>4
-----------------------------------------------------------------------------
Sent(n)    == \E i \in 1..Len(sent) : sent[i] = n
Pending(n) == \E w \in Writers : line[w] = n

(* No line is being written once the job's coroutine is over, and whoever   *)
(* has seen the row closed or the end knows that it is.                     *)
LineInv ==
  /\ \A w \in Writers : line[w] <= seq
  /\ task # "working" => \A w \in Writers : line[w] = 0
  /\ closed \/ finished \/ ws \in {"checking", "ended"} => task # "working"

(* The end is the last event of the queue, and its lines are in order but   *)
(* for those accounted for.                                                 *)
QueueInv ==
  /\ QueueOK(queue, seq, missed)
  /\ task # "over" => NoEnd(queue)
  /\ EndLast(queue)

SentInv == SentInOrder /\ \A i \in 1..Len(sent) : sent[i] <= lastSeq

(* A persisted line the queue has not lost has been sent, or is still to be *)
(* published, or waits in the queue ahead of nothing that would hide it.    *)
CoverInv ==
  /\ ws \in {"replaying", "tail", "checking"} =>
       \A n \in logs \ missed :
         Sent(n) \/ Pending(n) \/ (n \in Held(queue) /\ n > lastSeq)
  /\ ws = "replaying" /\ finished => \A n \in logs : Sent(n)
  /\ ws = "checking" => Held(queue) = {}
  /\ ws = "ended" => \A n \in logs \ missed : Sent(n)

StreamIInv == TypeOK /\ LineInv /\ QueueInv /\ SentInv /\ CoverInv

LEMMA Types ==
  ASSUME TypeOK
  PROVE  /\ seq \in Nat /\ seq <= MaxLines /\ MaxLines \in Nat
         /\ lastSeq \in Nat /\ lastSeq <= seq
         /\ queue \in Seq(Events) /\ Len(queue) \in Nat /\ Len(queue) <= Capacity
         /\ sent \in Seq(1..seq) /\ Len(sent) \in Nat
         /\ \A i \in 1..Len(sent) : sent[i] \in Nat
         /\ \A w \in Writers : line[w] \in Nat
<1>1. /\ seq \in Nat /\ seq <= MaxLines /\ MaxLines \in Nat
      /\ lastSeq \in Nat /\ lastSeq <= seq
  BY StreamAssumption DEF TypeOK
<1>2. /\ queue \in Seq(Events) /\ Len(queue) \in Nat /\ Len(queue) <= Capacity
  BY DEF TypeOK
<1>3. sent \in Seq(1..seq) /\ Len(sent) \in Nat /\ \A i \in 1..Len(sent) : sent[i] \in 1..seq
  BY DEF TypeOK
<1>4. \A w \in Writers : line[w] \in Nat
  BY DEF TypeOK
<1> QED
  BY <1>1, <1>2, <1>3, <1>4

LEMMA HeldRange ==
  ASSUME TypeOK, QueueInv
  PROVE  Held(queue) \subseteq 1..seq
<1> SUFFICES ASSUME NEW n \in Held(queue) PROVE n \in 1..seq
  OBVIOUS
<1>1. queue \in Seq(Events) /\ seq \in Nat
  BY Types
<1>2. n # 0 /\ \E i \in 1..Len(queue) : queue[i].seq = n
  BY <1>1, HeldIs
<1>3. PICK i \in 1..Len(queue) : queue[i].seq = n
  BY <1>2
<1>4. queue[i].seq \in Nat /\ queue[i].seq <= seq
  BY <1>1, EventFields DEF QueueInv, QueueOK
<1> QED
  BY <1>1, <1>2, <1>3, <1>4

LEMMA StreamStart == Init => StreamIInv
<1> SUFFICES ASSUME Init PROVE StreamIInv
  OBVIOUS
<1>1. /\ QueueOK(<<>>, 0, {}) /\ NoEnd(<<>>) /\ EndLast(<<>>)
      /\ Held(<<>>) = {}
  BY QueueEmpty
<1>2. QueueInv
  BY <1>1 DEF Init, QueueInv
<1>3. /\ <<>> \in Seq(1..0) /\ Len(<<>>) = 0 /\ <<>> \in Seq(Events)
      /\ 1..Len(<<>>) = {}
  OBVIOUS
<1>4. TypeOK
  <2>1. seq \in 0..MaxLines /\ progress \in 0..MaxProgress /\ lastSeq \in 0..seq
    BY StreamAssumption DEF Init
  <2>2. sent \in Seq(1..seq) /\ queue \in Seq(Events) /\ Len(queue) <= Capacity
    BY <1>3, StreamAssumption DEF Init
  <2>3. line \in [Writers -> 0..MaxLines] /\ stored \in [Writers -> BOOLEAN]
    BY StreamAssumption DEF Init
  <2> QED
    BY <2>1, <2>2, <2>3 DEF Init, TypeOK
<1>5. SentInv
  BY <1>3 DEF Init, SentInv, SentInOrder
<1>6. LineInv /\ CoverInv
  BY StreamAssumption DEF Init, LineInv, CoverInv
<1> QED
  BY <1>2, <1>4, <1>5, <1>6 DEF StreamIInv

(* What publishing a line leaves: it is in the queue behind no later one,   *)
(* and above what has been sent, or it is accounted for.                    *)
LEMMA LinePublished ==
  ASSUME StreamIInv, Listening, NEW n \in Lines, n <= seq, task = "working",
         PublishLog(n), UNCHANGED <<seq, task>>
  PROVE  /\ QueueInv' /\ queue' \in Seq(Events) /\ Len(queue') <= Capacity
         /\ missed \subseteq missed' /\ missed' \subseteq missed \union {n}
         /\ Held(queue) \subseteq Held(queue')
         /\ n \in missed' \/ (n \in Held(queue') /\ n > lastSeq)
<1>1. /\ seq \in Nat /\ queue \in Seq(Events) /\ Len(queue) \in Nat
      /\ Len(queue) <= Capacity /\ Capacity \in Nat /\ lastSeq \in Nat
      /\ n \in Nat /\ n # 0
  BY Types, StreamAssumption DEF StreamIInv, Lines
<1>2. QueueOK(queue, seq, missed) /\ NoEnd(queue) /\ EndLast(queue)
  BY DEF StreamIInv, QueueInv
<1>3. Held(queue) \subseteq 1..seq
  BY HeldRange DEF StreamIInv
<1>4. /\ queue' = Put(queue, Log(n))
      /\ missed' = IF Overtaken(n) \/ n \notin Held(queue')
                   THEN missed \union {n} ELSE missed
  BY DEF PublishLog
<1>5. /\ missed \subseteq missed' /\ missed' \subseteq missed \union {n}
      /\ n \in missed' \/ (n \in Held(queue') /\ ~Overtaken(n))
      /\ Overtaken(n) => n \in missed'
  BY <1>4
<1>6. ~Overtaken(n) => n > lastSeq /\ \A m \in Held(queue) : m <= n
  BY <1>1, <1>3 DEF Overtaken
<1>7. QueueOK(queue, seq, missed')
  BY <1>1, <1>2, <1>5, QueueMore
<1>8. Log(n) \in Events /\ Log(n).seq = n /\ Log(n).kind = "log"
  BY EventFields
<1>9. CASE Len(queue) < Capacity
  <2>1. queue' = Append(queue, Log(n))
    BY <1>4, <1>9 DEF Put
  <2>2. n # 0 /\ n \notin missed' => \A m \in Held(queue) : m <= n
    BY <1>5, <1>6
  <2>3. /\ QueueOK(Append(queue, Log(n)), seq, missed')
        /\ Len(Append(queue, Log(n))) = Len(queue) + 1
        /\ Held(Append(queue, Log(n))) = Held(queue) \union {n}
        /\ EndLast(Append(queue, Log(n))) /\ NoEnd(Append(queue, Log(n)))
    <3> DEFINE e == Log(n)
    <3>1. /\ e \in Events /\ e.seq = n /\ e.seq <= seq /\ e.kind # "end"
          /\ e.seq # 0 /\ e.seq \notin missed' => \A m \in Held(queue) : m <= e.seq
      BY <1>8, <2>2
    <3> HIDE DEF e
    <3>2. /\ QueueOK(Append(queue, e), seq, missed')
          /\ Len(Append(queue, e)) = Len(queue) + 1
          /\ Held(Append(queue, e)) = IF e.seq = 0 THEN Held(queue)
                                     ELSE Held(queue) \union {e.seq}
          /\ NoEnd(queue) => /\ EndLast(Append(queue, e))
                             /\ e.kind # "end" => NoEnd(Append(queue, e))
      BY <1>1, <1>7, <3>1, QueueAppend
    <3> QED
      BY <1>1, <1>2, <3>1, <3>2 DEF e
  <2>4. QueueInv' /\ queue' \in Seq(Events)
    BY <2>1, <2>3 DEF QueueInv, QueueOK
  <2>5. Len(queue') <= Capacity
    BY <1>1, <1>9, <2>1, <2>3
  <2> QED
    BY <1>5, <1>6, <2>1, <2>3, <2>4, <2>5
<1>10. CASE ~(Len(queue) < Capacity)
  <2>1. queue' = queue
    BY <1>4, <1>8, <1>10 DEF Put
  <2>2. QueueInv'
    BY <1>2, <1>7, <2>1 DEF QueueInv
  <2> QED
    BY <1>1, <1>5, <1>6, <2>1, <2>2
<1> QED
  BY <1>9, <1>10

LEMMA MarksPublished ==
  ASSUME StreamIInv, NEW q, QueueOK(q, seq, missed), Len(q) <= Capacity,
         Held(q) \subseteq Held(queue), EndLast(q),
         PublishMarks(q), UNCHANGED seq, task' # "over" => NoEnd(q),
         task' # "over" => task # "over"
  PROVE  /\ QueueInv' /\ queue' \in Seq(Events) /\ Len(queue') <= Capacity
         /\ missed \subseteq missed' /\ missed' \subseteq 1..seq
         /\ Held(queue') \subseteq Held(queue)
         /\ \A n \in Held(queue) : n \in missed' \/ n \in Held(queue')
<1>1. seq \in Nat /\ missed \subseteq 1..seq /\ Held(queue) \subseteq 1..seq
  BY Types, HeldRange DEF StreamIInv, TypeOK
<1>2. CASE Listening
  <2>1. queue' = q /\ missed' = missed \union (Held(queue) \ Held(q))
    BY <1>2 DEF PublishMarks
  <2>2. QueueOK(q, seq, missed')
    BY <1>1, <2>1, QueueMore
  <2>3. QueueInv' /\ q \in Seq(Events)
    BY <2>1, <2>2 DEF QueueInv, QueueOK
  <2> QED
    BY <1>1, <2>1, <2>3
<1>3. CASE ~Listening
  <2>1. queue' = queue /\ missed' = missed
    BY <1>3 DEF PublishMarks
  <2>2. queue \in Seq(Events) /\ Len(queue) <= Capacity
    BY Types DEF StreamIInv
  <2>3. QueueInv'
    BY <2>1 DEF StreamIInv, QueueInv
  <2> QED
    BY <1>1, <2>1, <2>2, <2>3
<1> QED
  BY <1>2, <1>3

-----------------------------------------------------------------------------
(* The job's side.                                                          *)
LEMMA TakeNumberStep ==
  ASSUME StreamIInv, NEW w \in Writers, TakeNumber(w)
  PROVE  StreamIInv'
<1>1. /\ seq \in Nat /\ seq < MaxLines /\ MaxLines \in Nat /\ seq' = seq + 1
      /\ lastSeq \in Nat /\ lastSeq <= seq
  BY Types DEF StreamIInv, TakeNumber
<1>2. /\ task = "working" /\ task' = task /\ line[w] = 0
      /\ line' = [line EXCEPT ![w] = seq + 1]
      /\ UNCHANGED <<progress, logs, closed, queue, missed, ws, finished, lastSeq, sent>>
  BY DEF TakeNumber, wsVars
<1>3. TypeOK'
  <2>1. seq' \in 0..MaxLines /\ 1..seq \subseteq 1..seq' /\ lastSeq' \in 0..seq'
    BY <1>1, <1>2
  <2>2. sent' \in Seq(1..seq')
    BY <1>2, <2>1, Types, SeqWider DEF StreamIInv
  <2>3. line' \in [Writers -> 0..MaxLines] /\ stored' \in [Writers -> BOOLEAN]
    BY <1>1, <1>2 DEF StreamIInv, TypeOK, TakeNumber
  <2> QED
    BY <1>2, <2>1, <2>2, <2>3 DEF StreamIInv, TypeOK
<1>4. LineInv'
  <2>1. \A v \in Writers : line'[v] = IF v = w THEN seq + 1 ELSE line[v]
    BY <1>2 DEF StreamIInv, TypeOK
  <2>2. \A v \in Writers : line[v] <= seq /\ line[v] \in Nat
    BY Types DEF StreamIInv, LineInv
  <2>3. \A v \in Writers : line'[v] <= seq'
    BY <1>1, <2>1, <2>2
  <2> QED
    BY <1>2, <2>3 DEF StreamIInv, LineInv
<1>5. QueueInv'
  <2>1. QueueOK(queue, seq + 1, missed)
    BY <1>1, QueueMore DEF StreamIInv, QueueInv
  <2> QED
    BY <1>1, <1>2, <2>1 DEF StreamIInv, QueueInv
<1>6. SentInv'
  BY <1>2 DEF StreamIInv, SentInv, SentInOrder
<1>7. CoverInv'
  <2>1. \A n : Sent(n)' <=> Sent(n)
    BY <1>2 DEF Sent
  <2>2. logs \subseteq 1..seq
    BY DEF StreamIInv, TypeOK
  <2>3. \A n \in logs : Pending(n) => Pending(n)'
    BY <1>1, <1>2, <2>2 DEF Pending, StreamIInv, TypeOK
  <2> QED
    BY <1>2, <2>1, <2>3 DEF StreamIInv, CoverInv
<1> QED
  BY <1>3, <1>4, <1>5, <1>6, <1>7 DEF StreamIInv

LEMMA StoreStep ==
  ASSUME StreamIInv, NEW w \in Writers, Store(w)
  PROVE  StreamIInv'
<1>1. /\ line[w] # 0 /\ logs' \subseteq logs \union {line[w]}
      /\ stored' = [stored EXCEPT ![w] = TRUE]
      /\ UNCHANGED <<seq, line, progress, closed, task, queue, missed, ws,
                     finished, lastSeq, sent>>
  BY DEF Store, wsVars
<1>2. task = "working" /\ line[w] \in 1..seq
  <2>1. line[w] \in Nat /\ seq \in Nat /\ line[w] <= seq
    BY Types DEF StreamIInv, LineInv
  <2> QED
    BY <1>1, <2>1 DEF StreamIInv, LineInv
<1>3. TypeOK'
  BY <1>1, <1>2 DEF StreamIInv, TypeOK
<1>4. LineInv' /\ QueueInv' /\ SentInv'
  BY <1>1 DEF StreamIInv, LineInv, QueueInv, SentInv, SentInOrder
<1>5. CoverInv'
  <2>1. \A n : (Sent(n)' <=> Sent(n)) /\ (Pending(n)' <=> Pending(n))
    BY <1>1 DEF Sent, Pending
  <2>2. Pending(line[w])
    BY DEF Pending
  <2>3. ws # "ended" /\ ~finished
    BY <1>2 DEF StreamIInv, LineInv
  <2> QED
    BY <1>1, <2>1, <2>2, <2>3 DEF StreamIInv, CoverInv
<1> QED
  BY <1>3, <1>4, <1>5 DEF StreamIInv

LEMMA PublishLineStep ==
  ASSUME StreamIInv, NEW w \in Writers, PublishLine(w)
  PROVE  StreamIInv'
<1>1. /\ line[w] # 0 /\ PublishLog(line[w])
      /\ line' = [line EXCEPT ![w] = 0]
      /\ UNCHANGED <<seq, stored, progress, logs, closed, task, ws, finished,
                     lastSeq, sent>>
  BY DEF PublishLine, wsVars
<1>2. task = "working" /\ line[w] \in 1..seq /\ line[w] \in Lines /\ line[w] <= seq
  <2>1. /\ line[w] \in Nat /\ seq \in Nat /\ line[w] <= seq
        /\ seq <= MaxLines /\ MaxLines \in Nat
    BY Types DEF StreamIInv, LineInv
  <2> QED
    BY <1>1, <2>1 DEF StreamIInv, LineInv, Lines
<1>3. ws # "ended" /\ ws # "checking" /\ ~finished
  BY <1>2 DEF StreamIInv, LineInv
<1>4. \A v \in Writers : line'[v] = IF v = w THEN 0 ELSE line[v]
  BY <1>1 DEF StreamIInv, TypeOK
<1>5. LineInv'
  <2>1. \A v \in Writers : line'[v] <= seq
    BY <1>4, Types DEF StreamIInv, LineInv
  <2> QED
    BY <1>1, <1>2, <2>1 DEF StreamIInv, LineInv
<1>6. SentInv'
  BY <1>1 DEF StreamIInv, SentInv, SentInOrder
<1>7. \A n : /\ Sent(n)' <=> Sent(n)
             /\ Pending(n) => Pending(n)' \/ n = line[w]
  BY <1>1, <1>4 DEF Sent, Pending
<1>8. CASE Listening
  <2>1. /\ QueueInv' /\ queue' \in Seq(Events) /\ Len(queue') <= Capacity
        /\ missed \subseteq missed' /\ missed' \subseteq missed \union {line[w]}
        /\ Held(queue) \subseteq Held(queue')
        /\ line[w] \in missed' \/ (line[w] \in Held(queue') /\ line[w] > lastSeq)
    BY <1>1, <1>2, <1>8, LinePublished
  <2>2. missed' \subseteq 1..seq'
    BY <1>1, <1>2, <2>1 DEF StreamIInv, TypeOK
  <2>3. line' \in [Writers -> 0..MaxLines]
    BY <1>1, StreamAssumption DEF StreamIInv, TypeOK
  <2>4. TypeOK'
    BY <1>1, <2>1, <2>2, <2>3 DEF StreamIInv, TypeOK
  <2>5. CoverInv'
    <3>1. ASSUME ws' \in {"replaying", "tail", "checking"}, NEW n \in logs', n \notin missed'
          PROVE  Sent(n)' \/ Pending(n)' \/ (n \in Held(queue') /\ n > lastSeq')
      <4>1. n \in logs /\ n \notin missed
        BY <1>1, <2>1, <3>1
      <4>2. Sent(n) \/ Pending(n) \/ (n \in Held(queue) /\ n > lastSeq)
        BY <1>1, <3>1, <4>1 DEF StreamIInv, CoverInv
      <4> QED
        BY <1>1, <1>7, <2>1, <3>1, <4>2
    <3> QED
      BY <1>1, <1>3, <3>1 DEF CoverInv
  <2> QED
    BY <1>5, <1>6, <2>1, <2>4, <2>5 DEF StreamIInv
<1>9. CASE ~Listening
  <2>1. queue' = queue /\ missed' = missed
    BY <1>1, <1>9 DEF PublishLog
  <2>2. line' \in [Writers -> 0..MaxLines]
    BY <1>1, StreamAssumption DEF StreamIInv, TypeOK
  <2>3. TypeOK' /\ QueueInv'
    BY <1>1, <2>1, <2>2 DEF StreamIInv, TypeOK, QueueInv
  <2>4. CoverInv'
    BY <1>1, <1>3, <1>9 DEF CoverInv, Listening
  <2> QED
    BY <1>5, <1>6, <2>3, <2>4 DEF StreamIInv
<1> QED
  BY <1>8, <1>9

LEMMA CutOffStep ==
  ASSUME StreamIInv, NEW w \in Writers, CutOff(w)
  PROVE  StreamIInv'
<1>1. /\ line[w] # 0 /\ logs \subseteq logs' /\ logs' \subseteq logs \union {line[w]}
      /\ line' = [line EXCEPT ![w] = 0]
      /\ missed' = IF Listening THEN missed \union {line[w]} ELSE missed
      /\ UNCHANGED <<seq, stored, progress, closed, task, queue, ws, finished,
                     lastSeq, sent>>
  BY DEF CutOff, wsVars
<1>2. task = "working" /\ line[w] \in 1..seq
  <2>1. line[w] \in Nat /\ seq \in Nat /\ line[w] <= seq
    BY Types DEF StreamIInv, LineInv
  <2> QED
    BY <1>1, <2>1 DEF StreamIInv, LineInv
<1>3. ws # "ended" /\ ws # "checking" /\ ~finished
  BY <1>2 DEF StreamIInv, LineInv
<1>4. \A v \in Writers : line'[v] = IF v = w THEN 0 ELSE line[v]
  BY <1>1 DEF StreamIInv, TypeOK
<1>5. LineInv'
  <2>1. \A v \in Writers : line'[v] <= seq
    BY <1>4, Types DEF StreamIInv, LineInv
  <2> QED
    BY <1>1, <1>2, <2>1 DEF StreamIInv, LineInv
<1>6. SentInv'
  BY <1>1 DEF StreamIInv, SentInv, SentInOrder
<1>7. \A n : /\ Sent(n)' <=> Sent(n)
             /\ Pending(n) => Pending(n)' \/ n = line[w]
  BY <1>1, <1>4 DEF Sent, Pending
<1>8. missed \subseteq missed' /\ missed' \subseteq 1..seq
  BY <1>1, <1>2 DEF StreamIInv, TypeOK
<1>9. TypeOK'
  <2>1. line' \in [Writers -> 0..MaxLines]
    BY <1>1, StreamAssumption DEF StreamIInv, TypeOK
  <2>2. logs' \subseteq 1..seq
    BY <1>1, <1>2 DEF StreamIInv, TypeOK
  <2> QED
    BY <1>1, <1>8, <2>1, <2>2 DEF StreamIInv, TypeOK
<1>10. QueueInv'
  <2>1. seq \in Nat /\ seq <= seq /\ QueueOK(queue, seq, missed)
    BY Types DEF StreamIInv, QueueInv
  <2>2. QueueOK(queue, seq, missed')
    BY <1>8, <2>1, QueueMore
  <2> QED
    BY <1>1, <2>2 DEF StreamIInv, QueueInv
<1>11. CoverInv'
  <2>1. ASSUME ws' \in {"replaying", "tail", "checking"}, NEW n \in logs', n \notin missed'
        PROVE  Sent(n)' \/ Pending(n)' \/ (n \in Held(queue') /\ n > lastSeq')
    <3>1. line[w] \in missed'
      BY <1>1, <2>1 DEF Listening
    <3>2. n \in logs /\ n \notin missed /\ n # line[w]
      BY <1>1, <1>8, <2>1, <3>1
    <3>3. Sent(n) \/ Pending(n) \/ (n \in Held(queue) /\ n > lastSeq)
      BY <1>1, <2>1, <3>2 DEF StreamIInv, CoverInv
    <3> QED
      BY <1>1, <1>7, <3>2, <3>3
  <2> QED
    BY <1>1, <1>3, <2>1 DEF CoverInv
<1> QED
  BY <1>5, <1>6, <1>9, <1>10, <1>11 DEF StreamIInv

(* What a mark leaves of the rest.                                          *)
LEMMA MarksKeep ==
  ASSUME StreamIInv, NEW q, QueueOK(q, seq, missed), Len(q) <= Capacity,
         Held(q) \subseteq Held(queue), EndLast(q), PublishMarks(q),
         task' # "over" => NoEnd(q) /\ task # "over",
         task' = task \/ (task # "working" /\ task' # "working"),
         progress' \in 0..MaxProgress,
         task' \in {"working", "finishing", "over", "cut"},
         UNCHANGED <<seq, line, stored, logs, closed, ws, finished, lastSeq, sent>>
  PROVE  StreamIInv'
<1>1. /\ QueueInv' /\ queue' \in Seq(Events) /\ Len(queue') <= Capacity
      /\ missed \subseteq missed' /\ missed' \subseteq 1..seq
      /\ Held(queue') \subseteq Held(queue)
      /\ \A n \in Held(queue) : n \in missed' \/ n \in Held(queue')
  BY MarksPublished
<1>2. TypeOK'
  BY <1>1 DEF StreamIInv, TypeOK
<1>3. LineInv' /\ SentInv'
  BY DEF StreamIInv, LineInv, SentInv, SentInOrder
<1>4. CoverInv'
  <2>1. \A n : (Sent(n)' <=> Sent(n)) /\ (Pending(n)' <=> Pending(n))
    BY DEF Sent, Pending
  <2> QED
    BY <1>1, <2>1 DEF StreamIInv, CoverInv
<1> QED
  BY <1>1, <1>2, <1>3, <1>4 DEF StreamIInv

LEMMA ProgressStep == ASSUME StreamIInv, Progress PROVE StreamIInv'
<1> DEFINE q == Put(queue, Mark("progress"))
<1>1. /\ task = "working" /\ PublishMarks(q) /\ progress' = progress + 1
      /\ progress < MaxProgress
      /\ UNCHANGED <<seq, line, stored, logs, closed, task, ws, finished, lastSeq, sent>>
  BY DEF Progress, wsVars
<1>2. /\ seq \in Nat /\ QueueOK(queue, seq, missed) /\ Len(queue) <= Capacity
      /\ NoEnd(queue)
  BY <1>1, Types DEF StreamIInv, QueueInv
<1>3. /\ QueueOK(q, seq, missed) /\ Len(q) <= Capacity
      /\ Held(q) \subseteq Held(queue) /\ EndLast(q) /\ NoEnd(q)
  BY <1>2, PutMark
<1>4. progress' \in 0..MaxProgress
  BY <1>1, StreamAssumption DEF StreamIInv, TypeOK
<1> HIDE DEF q
<1> QED
  BY <1>1, <1>3, <1>4, MarksKeep

LEMMA AnnounceStep == ASSUME StreamIInv, Announce PROVE StreamIInv'
<1> DEFINE p == Put(queue, Mark("status"))
           q == Put(p, Mark("end"))
<1>1. /\ task = "finishing" /\ task' = "over" /\ PublishMarks(q)
      /\ UNCHANGED <<seq, line, stored, progress, logs, closed, ws, finished, lastSeq, sent>>
  BY DEF Announce, wsVars
<1>2. /\ seq \in Nat /\ QueueOK(queue, seq, missed) /\ Len(queue) <= Capacity
      /\ NoEnd(queue)
  BY <1>1, Types DEF StreamIInv, QueueInv
<1>3. /\ QueueOK(p, seq, missed) /\ Len(p) <= Capacity
      /\ Held(p) \subseteq Held(queue) /\ NoEnd(p)
  BY <1>2, PutMark
<1> HIDE DEF p
<1>4. /\ QueueOK(q, seq, missed) /\ Len(q) <= Capacity
      /\ Held(q) \subseteq Held(p) /\ EndLast(q)
  BY <1>2, <1>3, PutMark
<1>5. progress' \in 0..MaxProgress
  BY <1>1 DEF StreamIInv, TypeOK
<1> HIDE DEF q
<1>6. Held(q) \subseteq Held(queue)
  BY <1>3, <1>4
<1> QED
  BY <1>1, <1>4, <1>5, <1>6, MarksKeep

LEMMA FinishStep == ASSUME StreamIInv, Close \/ AnnounceCut PROVE StreamIInv'
<1>1. /\ UNCHANGED <<seq, line, stored, progress, logs, queue, missed, ws, finished,
                     lastSeq, sent>>
      /\ task \in {"working", "finishing"} /\ task' \in {"finishing", "cut"}
      /\ closed' \in BOOLEAN
      /\ \A w \in Writers : line[w] = 0
  <2>1. CASE Close
    BY <2>1 DEF Close, wsVars
  <2>2. CASE AnnounceCut
    BY <2>2 DEF AnnounceCut, wsVars, StreamIInv, TypeOK, LineInv
  <2> QED
    BY <2>1, <2>2
<1>2. TypeOK' /\ LineInv' /\ SentInv'
  BY <1>1 DEF StreamIInv, TypeOK, LineInv, SentInv, SentInOrder
<1>3. QueueInv'
  BY <1>1 DEF StreamIInv, QueueInv
<1>4. \A n : (Sent(n)' <=> Sent(n)) /\ (Pending(n)' <=> Pending(n))
  BY <1>1 DEF Sent, Pending
<1>5. CoverInv'
  BY <1>1, <1>4 DEF StreamIInv, CoverInv
<1> QED
  BY <1>2, <1>3, <1>5 DEF StreamIInv

-----------------------------------------------------------------------------
(* The WebSocket handler's side.                                            *)
LEMMA ConnectStep == ASSUME StreamIInv, Connect PROVE StreamIInv'
<1>1. /\ ws = "none" /\ ws' = "connected" /\ queue' = <<>>
      /\ UNCHANGED <<seq, line, stored, progress, logs, closed, task, missed, finished,
                     lastSeq, sent>>
  BY DEF Connect, jobVars
<1>2. seq \in Nat /\ Capacity \in Nat /\ <<>> \in Seq(Events) /\ Len(<<>>) = 0
  BY Types, StreamAssumption DEF StreamIInv
<1>3. QueueOK(<<>>, seq, missed) /\ NoEnd(<<>>) /\ EndLast(<<>>)
  BY <1>2, QueueEmpty
<1>4. TypeOK' /\ QueueInv'
  BY <1>1, <1>2, <1>3 DEF StreamIInv, TypeOK, QueueInv
<1>5. LineInv' /\ SentInv' /\ CoverInv'
  BY <1>1 DEF StreamIInv, LineInv, SentInv, SentInOrder, CoverInv
<1> QED
  BY <1>4, <1>5 DEF StreamIInv

LEMMA ReadRowStep == ASSUME StreamIInv, ReadRow \/ Disconnect PROVE StreamIInv'
<1>1. /\ ws' \in {"reading", "gone"} /\ finished' \in {closed, finished}
      /\ UNCHANGED <<seq, line, stored, progress, logs, closed, task, missed, queue,
                     lastSeq, sent>>
  BY DEF ReadRow, Disconnect, jobVars
<1>2. TypeOK' /\ QueueInv'
  BY <1>1 DEF StreamIInv, TypeOK, QueueInv
<1>3. LineInv' /\ SentInv' /\ CoverInv'
  BY <1>1 DEF StreamIInv, LineInv, SentInv, SentInOrder, CoverInv
<1> QED
  BY <1>2, <1>3 DEF StreamIInv

LEMMA ReadLinesStep == ASSUME StreamIInv, ReadLines PROVE StreamIInv'
<1>1. /\ ws' = "replaying" /\ sent' = InOrder(logs) /\ lastSeq' = Highest(logs)
      /\ UNCHANGED <<seq, line, stored, progress, logs, closed, task, missed, queue, finished>>
  BY DEF ReadLines, jobVars
<1>2. seq \in Nat /\ logs \subseteq 1..seq
  BY Types DEF StreamIInv, TypeOK
<1>3. /\ sent' \in Seq(logs) /\ Len(sent') \in Nat
      /\ \A n \in logs : \E i \in 1..Len(sent') : sent'[i] = n
      /\ \A i, k \in 1..Len(sent') : i < k => sent'[i] < sent'[k]
  BY <1>1, <1>2, InOrderIs
<1>4. lastSeq' \in 0..seq /\ \A m \in logs : m <= lastSeq'
  BY <1>1, <1>2, HighestIs
<1>5. sent' \in Seq(1..seq)
  BY <1>2, <1>3, SeqWider
<1>6. TypeOK' /\ QueueInv'
  BY <1>1, <1>4, <1>5 DEF StreamIInv, TypeOK, QueueInv
<1>7. SentInv'
  BY <1>3, <1>4 DEF SentInv, SentInOrder
<1>8. LineInv'
  BY <1>1 DEF StreamIInv, LineInv
<1>9. \A n \in logs : Sent(n)'
  BY <1>3 DEF Sent
<1>10. CoverInv'
  BY <1>1, <1>9 DEF CoverInv
<1> QED
  BY <1>6, <1>7, <1>8, <1>10 DEF StreamIInv

(* Steps that only move the handler.                                        *)
LEMMA MovedStep ==
  ASSUME StreamIInv, Replayed \/ Timeout \/ Check
  PROVE  StreamIInv'
<1>1. UNCHANGED <<seq, line, stored, progress, logs, closed, task, missed, queue,
                  finished, lastSeq, sent>>
  BY DEF Replayed, Timeout, Check, jobVars
<1>2. /\ ws' \in {"tail", "checking", "ended"}
      /\ ws \in {"replaying", "tail", "checking"}
      /\ ws = "replaying" => ws' # "checking" /\ (ws' = "ended" => finished)
      /\ ws = "tail" => ws' = "checking" /\ closed /\ queue = <<>>
      /\ ws = "checking" => ws' # "checking"
  BY DEF Replayed, Timeout, Check, TerminalSeen
<1>3. TypeOK' /\ QueueInv' /\ SentInv'
  BY <1>1, <1>2 DEF StreamIInv, TypeOK, QueueInv, SentInv, SentInOrder
<1>4. LineInv'
  BY <1>1, <1>2 DEF StreamIInv, LineInv
<1>5. \A n : (Sent(n)' <=> Sent(n)) /\ (Pending(n)' <=> Pending(n))
  BY <1>1 DEF Sent, Pending
<1>6. CoverInv'
  <2>1. ws' = "checking" => Held(queue') = {}
    BY <1>1, <1>2, QueueEmpty, Types DEF StreamIInv
  <2>2. ASSUME ws' = "ended" PROVE \A n \in logs \ missed : Sent(n)
    <3>1. CASE ws = "replaying"
      BY <1>2, <2>2, <3>1 DEF StreamIInv, CoverInv
    <3>2. CASE ws = "checking"
      <4>1. \A n \in logs \ missed : Sent(n) \/ Pending(n)
        BY <3>2 DEF StreamIInv, CoverInv
      <4>2. \A w \in Writers : line[w] = 0
        BY <3>2 DEF StreamIInv, LineInv
      <4>3. \A n \in logs : n # 0
        BY Types DEF StreamIInv, TypeOK
      <4> QED
        BY <4>1, <4>2, <4>3 DEF Pending
    <3> QED
      BY <1>2, <2>2, <3>1, <3>2
  <2>3. ws' \in {"tail", "checking"} =>
          \A n \in logs \ missed :
            Sent(n) \/ Pending(n) \/ (n \in Held(queue) /\ n > lastSeq)
    BY <1>2 DEF StreamIInv, CoverInv
  <2> QED
    BY <1>1, <1>2, <1>5, <2>1, <2>2, <2>3 DEF CoverInv
<1> QED
  BY <1>3, <1>4, <1>6 DEF StreamIInv

LEMMA ReceiveStep == ASSUME StreamIInv, Receive PROVE StreamIInv'
<1> DEFINE e == Head(queue)
<1>1. /\ ws = "tail" /\ queue # <<>> /\ queue' = Tail(queue)
      /\ UNCHANGED <<seq, line, stored, progress, logs, closed, task, missed, finished>>
      /\ ws' = IF e.kind = "end" THEN "ended" ELSE "tail"
      /\ e.kind = "log" /\ Fresh(e) => sent' = Append(sent, e.seq) /\ lastSeq' = e.seq
      /\ ~(e.kind = "log" /\ Fresh(e)) => sent' = sent /\ lastSeq' = lastSeq
  BY DEF Receive, jobVars
<1>2. /\ seq \in Nat /\ lastSeq \in Nat /\ lastSeq <= seq /\ Len(queue) \in Nat
      /\ Len(queue) <= Capacity /\ Capacity \in Nat
      /\ sent \in Seq(1..seq) /\ Len(sent) \in Nat
      /\ \A i \in 1..Len(sent) : sent[i] \in Nat
  BY Types, StreamAssumption DEF StreamIInv
<1>3. /\ QueueOK(queue', seq, missed) /\ Len(queue') = Len(queue) - 1
      /\ e \in Events /\ e.seq <= seq
      /\ Held(queue) \subseteq Held(queue') \union {e.seq}
      /\ \A n \in Held(queue') \ missed : e.seq <= n
      /\ NoEnd(queue) => NoEnd(queue') /\ e.kind # "end"
      /\ EndLast(queue) => EndLast(queue') /\ (e.kind = "end" => queue' = <<>>)
  BY <1>1, <1>2, QueueTail DEF StreamIInv, QueueInv
<1> HIDE DEF e
<1>4. e.seq \in Nat /\ (e.kind = "log" <=> e.seq # 0)
  BY <1>3, EventFields
<1>5. QueueInv' /\ queue' \in Seq(Events) /\ Len(queue') <= Capacity
  BY <1>1, <1>2, <1>3 DEF StreamIInv, QueueInv, QueueOK
<1>6. LineInv'
  BY <1>1, <1>3 DEF StreamIInv, LineInv, QueueInv
<1>7. /\ lastSeq' \in 0..seq /\ lastSeq <= lastSeq' /\ sent' \in Seq(1..seq)
      /\ SentInv'
      /\ \A n : Sent(n) => Sent(n)'
      /\ lastSeq' > lastSeq => \A n : n = lastSeq' => Sent(n)'
  <2>1. CASE e.kind = "log" /\ Fresh(e)
    <3>1. e.seq > lastSeq /\ e.seq \in 1..seq
      BY <1>2, <1>3, <1>4, <2>1 DEF Fresh
    <3>0. sent' = Append(sent, e.seq) /\ sent \in Seq(1..seq)
      BY <1>1, <1>2, <2>1
    <3>2. /\ sent' \in Seq(1..seq) /\ Len(sent') = Len(sent) + 1
          /\ sent'[Len(sent) + 1] = e.seq
          /\ \A i \in 1..Len(sent) : sent'[i] = sent[i]
      BY <3>0, <3>1, AppendProperties
    <3>3. 1..Len(sent') = 1..Len(sent) \union {Len(sent) + 1}
      BY <1>2, <3>2
    <3>4. lastSeq' = e.seq
      BY <1>1, <2>1
    <3>5. \A i \in 1..Len(sent) : sent[i] <= lastSeq
      BY DEF StreamIInv, SentInv
    <3>6. \A i \in 1..Len(sent') : sent'[i] <= lastSeq'
      <4>1. ASSUME NEW i \in 1..Len(sent) PROVE sent'[i] <= lastSeq'
        <5>1. sent[i] \in Nat /\ sent[i] <= lastSeq /\ sent'[i] = sent[i]
          BY <1>2, <3>2, <3>5
        <5> QED
          BY <1>2, <1>4, <3>1, <3>4, <5>1
      <4>2. sent'[Len(sent) + 1] <= lastSeq'
        BY <1>4, <3>2, <3>4
      <4> QED
        BY <3>3, <4>1, <4>2
    <3>7. ASSUME NEW i \in 1..Len(sent'), NEW k \in 1..Len(sent'), i < k
          PROVE  sent'[i] < sent'[k]
      <4>1. i \in 1..Len(sent)
        BY <1>2, <3>2, <3>7
      <4>2. CASE k \in 1..Len(sent)
        BY <3>2, <3>7, <4>1, <4>2 DEF StreamIInv, SentInv, SentInOrder
      <4>3. CASE k = Len(sent) + 1
        <5>1. /\ sent[i] \in Nat /\ sent[i] <= lastSeq /\ sent'[i] = sent[i]
              /\ sent'[k] = e.seq
          BY <1>2, <3>2, <3>5, <4>1, <4>3
        <5> QED
          BY <1>2, <1>4, <3>1, <5>1
      <4> QED
        BY <3>3, <4>2, <4>3
    <3>8. SentInv'
      BY <3>6, <3>7 DEF SentInv, SentInOrder
    <3>9. \A n : (Sent(n) => Sent(n)') /\ (n = e.seq => Sent(n)')
      <4>1. Len(sent) + 1 \in 1..Len(sent')
        BY <3>3
      <4> QED
        BY <3>2, <3>3, <4>1 DEF Sent
    <3> QED
      <4>1. lastSeq' \in 0..seq /\ lastSeq <= lastSeq'
        BY <1>2, <1>4, <3>1, <3>4
      <4> QED
        BY <3>2, <3>4, <3>8, <3>9, <4>1
  <2>2. CASE ~(e.kind = "log" /\ Fresh(e))
    <3>1. sent' = sent /\ lastSeq' = lastSeq
      BY <1>1, <2>2
    <3>2. SentInv' /\ \A n : Sent(n) => Sent(n)'
      BY <3>1 DEF StreamIInv, SentInv, SentInOrder, Sent
    <3> QED
      BY <1>2, <3>1, <3>2
  <2> QED
    BY <2>1, <2>2
<1>8. TypeOK'
  BY <1>1, <1>5, <1>7 DEF StreamIInv, TypeOK
<1>9. ASSUME NEW n \in logs, n \notin missed
      PROVE  Sent(n)' \/ Pending(n)' \/ (n \in Held(queue') /\ n > lastSeq')
  <2>1. Sent(n) \/ Pending(n) \/ (n \in Held(queue) /\ n > lastSeq)
    BY <1>1, <1>9 DEF StreamIInv, CoverInv
  <2>2. Pending(n) => Pending(n)'
    BY <1>1 DEF Pending
  <2>3. ASSUME n \in Held(queue), n > lastSeq, ~Sent(n)'
        PROVE  n \in Held(queue') /\ n > lastSeq'
    <3>1. n \in Nat
      BY <1>2, <1>9 DEF StreamIInv, TypeOK
    <3>2. n # e.seq
      <4> SUFFICES ASSUME n = e.seq PROVE FALSE
        OBVIOUS
      <4>1. e.kind = "log" /\ Fresh(e)
        BY <1>2, <1>4, <2>3 DEF Fresh
      <4>2. lastSeq' = n
        BY <1>1, <4>1
      <4> QED
        <5>1. lastSeq' > lastSeq
          BY <2>3, <4>2
        <5>2. Sent(n)'
          BY <1>7, <4>2, <5>1
        <5> QED
          BY <2>3, <5>2
    <3>3. n \in Held(queue') /\ e.seq <= n
      BY <1>3, <1>9, <2>3, <3>2
    <3>4. lastSeq' = lastSeq \/ lastSeq' = e.seq
      BY <1>1
    <3> QED
      BY <1>2, <1>4, <2>3, <3>1, <3>2, <3>3, <3>4
  <2> QED
    BY <1>7, <2>1, <2>2, <2>3
<1>10. ASSUME ws' = "ended", NEW n \in logs, n \notin missed
       PROVE  Sent(n)'
  <2>1. e.kind = "end"
    BY <1>1, <1>10
  <2>2. Held(queue') = {}
    BY <1>2, <1>3, <2>1, QueueEmpty DEF StreamIInv, QueueInv
  <2>3. \A w \in Writers : line'[w] = 0
    BY <1>1, <1>6, <1>10 DEF LineInv
  <2>4. n # 0
    BY <1>2, <1>10 DEF StreamIInv, TypeOK
  <2> QED
    BY <1>9, <1>10, <2>2, <2>3, <2>4 DEF Pending
<1>11. CoverInv'
  <2>1. ws' \in {"tail", "ended"} /\ logs' = logs /\ missed' = missed
    BY <1>1
  <2> QED
    BY <1>9, <1>10, <2>1 DEF CoverInv
<1> QED
  BY <1>5, <1>6, <1>7, <1>8, <1>11 DEF StreamIInv

LEMMA StreamStep == StreamIInv /\ [Next]_vars => StreamIInv'
<1> SUFFICES ASSUME StreamIInv, [Next]_vars PROVE StreamIInv'
  OBVIOUS
<1>1. CASE UNCHANGED vars
  <2>1. UNCHANGED <<seq, line, stored, progress, logs, closed, task, queue, ws,
                    finished, lastSeq, sent, missed>>
    BY <1>1 DEF vars
  <2>2. \A n : (Sent(n)' <=> Sent(n)) /\ (Pending(n)' <=> Pending(n))
    BY <2>1 DEF Sent, Pending
  <2>3. TypeOK' /\ LineInv' /\ SentInv'
    BY <2>1 DEF StreamIInv, TypeOK, LineInv, SentInv, SentInOrder
  <2>4. QueueInv' /\ CoverInv'
    BY <2>1, <2>2 DEF StreamIInv, QueueInv, CoverInv
  <2> QED
    BY <2>3, <2>4 DEF StreamIInv
<1> QED
  BY <1>1, TakeNumberStep, StoreStep, PublishLineStep, CutOffStep, ProgressStep,
     AnnounceStep, FinishStep, ConnectStep, ReadRowStep, ReadLinesStep,
     MovedStep, ReceiveStep
  DEF Next

(* The lines arrive in order and once, the queue keeps its bound, and the   *)
(* client is told "end" only when the job is over, for any number of        *)
(* writers, lines and events and any capacity (services/jobs.py,            *)
(* routers/jobs.py).                                                        *)
THEOREM StreamIsKept == Spec => []StreamInv
<1>1. StreamIInv => StreamInv
  <2> SUFFICES ASSUME StreamIInv PROVE StreamInv
    OBVIOUS
  <2>1. EndIsHonest
    BY DEF StreamIInv, LineInv, EndIsHonest
  <2> QED
    BY <2>1 DEF StreamIInv, SentInv, StreamInv
<1> QED
  BY <1>1, StreamStart, StreamStep, PTL DEF Spec

(* A stream that ends has sent every persisted line except those the full   *)
(* queue lost, those published after a later one and those whose writer was *)
(* cut off between storing and publishing (_append_log): wherever the       *)
(* client connects, backlog and tail leave no gap (stream_logs).            *)
THEOREM NothingIsSkipped == Spec => []EverythingSent
<1>1. StreamIInv => EverythingSent
  BY DEF StreamIInv, CoverInv, EverythingSent, Sent
<1> QED
  BY <1>1, StreamStart, StreamStep, PTL DEF Spec
===============================================================================
