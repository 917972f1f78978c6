----------------------------- MODULE KeptProofs -----------------------------
(***************************************************************************)
(* Proofs about the bounded tables a node keeps, its deniable sessions, its *)
(* range reconciliation and its journal, each taken as an instance with the *)
(* variables it has in its own module.                                     *)
(***************************************************************************)
EXTENDS Integers, Sequences, FiniteSets, FiniteSetTheorems, SequenceTheorems, FunctionTheorems, Induction, TLAPS

-----------------------------------------------------------------------------
(* The dedup set: an id accepted lately is recognised.                     *)

CONSTANTS Id, Window, Cap, MaxNow, MaxSteps
VARIABLES entries, order, now, accepted, setBack

Seen == INSTANCE SeenSet

Stamp == Nat \union {Seen!Absent}

\* A map and a queue that hold the same ids, each once.
Paired(e, o) ==
    /\ e \in [Id -> Stamp] /\ o \in Seq(Id)
    /\ \A i \in Id : (e[i] # Seen!Absent) <=> (\E k \in 1..Len(o) : o[k] = i)
    /\ \A j, k \in 1..Len(o) : o[j] = o[k] => j = k

\* Times along the queue do not fall, and lie in the past.
Ordered(e, o) ==
    /\ \A i \in Id : e[i] <= now
    /\ \A j, k \in 1..Len(o) : j < k => e[o[j]] <= e[o[k]]

\* Whatever stands behind an id in the queue was accepted after it, each time.
Behind(o, acc) ==
    \A j, k \in 1..Len(o), n \in 1..Len(acc) :
        j < k /\ acc[n][1] = o[j] => \E l \in n + 1..Len(acc) : acc[l][1] = o[k]

\* The other ids accepted after the n-th.
Others(acc, n) == {acc[l][1] : l \in n + 1..Len(acc)} \ {acc[n][1]}

\* What was accepted stands in the map, at that time or a later one, unless its window is
\* over or enough others came.
Held(e, acc) ==
    \A n \in 1..Len(acc) :
        \/ now - acc[n][2] >= Window
        \/ Cardinality(Others(acc, n)) >= Cap
        \/ e[acc[n][1]] # Seen!Absent

NotOlder(e, acc) ==
    \A n \in 1..Len(acc) : e[acc[n][1]] # Seen!Absent => acc[n][2] <= e[acc[n][1]]

SeenTypes == now \in Nat /\ accepted \in Seq(Id \X Nat) /\ setBack \in BOOLEAN

\* What is left of the queue and of the map without the first n ids.
Rest(o, n) == SubSeq(o, n + 1, Len(o))
Without(e, o, n) == [i \in Id |-> IF \E k \in 1..n : o[k] = i THEN Seen!Absent ELSE e[i]]

\* An id stamped now, and its place in the queue.
Put(e, i) == [e EXCEPT ![i] = now]
Queued(e, o, i) == IF e[i] = Seen!Absent THEN Append(o, i) ELSE o

\* One sequence is the other with one element more.
Grew(s, s2, x) ==
    /\ Len(s) \in Nat /\ Len(s2) = Len(s) + 1 /\ s2[Len(s) + 1] = x
    /\ \A k \in 1..Len(s) : s2[k] = s[k]

Stamped(e, e2, i) == \A j \in Id : e2[j] = IF j = i THEN now ELSE e[j]
Dated(a) == \A n \in 1..Len(a) : a[n][1] \in Id /\ a[n][2] \in Nat /\ a[n][2] <= now
NotAmong(o, i) == \A k \in 1..Len(o) : o[k] \in Id /\ o[k] # i

Forward(e, o, a) == Dated(a) /\ Ordered(e, o) /\ Behind(o, a) /\ NotOlder(e, a) /\ Held(e, a)

SeenInv ==
    /\ SeenTypes
    /\ Paired(entries, order) /\ Len(order) <= Cap
    /\ ~setBack => Forward(entries, order, accepted)

-----------------------------------------------------------------------------
LEMMA SameSize == \A S : Seen!Cardinality(S) = Cardinality(S)
  BY DEF Seen!Cardinality, Cardinality

LEMMA LongestIsStale ==
    ASSUME NEW S \in SUBSET Nat, 0 \in S, NEW m \in Nat, \A n \in S : n <= m
    PROVE  Seen!Longest(S) \in S /\ \A k \in S : k <= Seen!Longest(S)
  <1> DEFINE D == {d \in Nat : m - d \in S}
             R == OpToRel(<, Nat)
  <1>1. \E d \in D : \A y \in D : ~(<<y, d>> \in R)
    <2>1. IsWellFoundedOn(R, Nat)
      BY NatLessThanWellFounded
    <2>2. D \subseteq Nat
      OBVIOUS
    <2>3. m \in D
      OBVIOUS
    <2> HIDE DEF R, D
    <2>4. QED
      BY <2>1, <2>2, <2>3, WFMin
  <1>2. PICK d \in D : \A y \in D : ~(<<y, d>> \in R)
    BY <1>1
  <1>3. ASSUME NEW k \in S PROVE k <= m - d
    <2>1. m - k \in D
      <3>1. m - k \in Nat /\ m - (m - k) = k
        OBVIOUS
      <3>2. QED
        BY <3>1
    <2>2. ~(<<m - k, d>> \in R)
      BY <1>2, <2>1
    <2>3. ~(m - k < d)
      BY <2>1, <2>2 DEF OpToRel
    <2>4. QED
      BY <2>3
  <1>4. m - d \in S
    BY <1>2
  <1> HIDE DEF D, R
  <1>5. \E n \in S : \A k \in S : k <= n
    BY <1>3, <1>4
  <1>6. QED
    BY <1>5 DEF Seen!Longest

LEMMA LongestRun ==
    ASSUME NEW s, Len(s) \in Nat
    PROVE  /\ Seen!Longest(Seen!Stale(s)) \in 0..Len(s)
           /\ \A k \in 1..Seen!Longest(Seen!Stale(s)) : Seen!Expired(entries[s[k]])
           /\ \A n \in 0..Len(s) : (\A k \in 1..n : Seen!Expired(entries[s[k]])) => n <= Seen!Longest(Seen!Stale(s))
  <1>1. Seen!Stale(s) \in SUBSET Nat /\ 0 \in Seen!Stale(s) /\ \A n \in Seen!Stale(s) : n <= Len(s)
    BY DEF Seen!Stale
  <1>2. Seen!Longest(Seen!Stale(s)) \in Seen!Stale(s) /\ \A k \in Seen!Stale(s) : k <= Seen!Longest(Seen!Stale(s))
    BY <1>1, LongestIsStale
  <1> HIDE DEF Seen!Longest
  <1>3. QED
    BY <1>2 DEF Seen!Stale

\* The map holds as many ids as the queue has places.
LEMMA PairedCount ==
    ASSUME NEW e, NEW o, Paired(e, o)
    PROVE  IsFiniteSet(Seen!Tracked(e)) /\ Cardinality(Seen!Tracked(e)) = Len(o)
  <1>1. Len(o) \in Nat
    BY DEF Paired
  <1> DEFINE f == [k \in 1..Len(o) |-> o[k]]
  <1>2. f \in Bijection(1..Len(o), Seen!Tracked(e))
    <2>1. \A k \in 1..Len(o) : o[k] \in Id
      BY DEF Paired
    <2>2. DOMAIN e = Id
      BY DEF Paired
    <2>3. f \in [1..Len(o) -> Seen!Tracked(e)]
      BY <2>1, <2>2 DEF Paired, Seen!Tracked
    <2>4. \A x \in Seen!Tracked(e) : \E k \in 1..Len(o) : f[k] = x
      BY <2>2 DEF Paired, Seen!Tracked
    <2>5. \A j, k \in 1..Len(o) : f[j] = f[k] => j = k
      BY DEF Paired
    <2> HIDE DEF f
    <2>6. QED
      BY <2>3, <2>4, <2>5 DEF Bijection, Injection, Surjection, IsInjective
  <1> HIDE DEF f
  <1>3. ExistsBijection(1..Len(o), Seen!Tracked(e))
    BY <1>2 DEF ExistsBijection
  <1>4. IsFiniteSet(1..Len(o)) /\ Cardinality(1..Len(o)) = Len(o)
    BY <1>1, FS_Interval, SMTT(30)
  <1>5. QED
    BY <1>3, <1>4, FS_Bijection, FS_SameCardinalityBij

LEMMA DropPairs ==
    ASSUME NEW e, NEW o, Paired(e, o), NEW n \in 0..Len(o),
           NEW o2, o2 = Rest(o, n),
           NEW e2, e2 = Without(e, o, n)
    PROVE  /\ Paired(e2, o2) /\ Len(o2) = Len(o) - n
           /\ \A k \in 1..Len(o2) : k + n \in 1..Len(o) /\ o2[k] = o[k + n]
           /\ \A k \in 1..Len(o2) : e2[o2[k]] = e[o2[k]]
           /\ \A i \in Id : e2[i] = e[i] \/ e2[i] = Seen!Absent
           /\ \A i \in Id : e2[i] = e[i] \/ \E k \in 1..n : o[k] = i
           /\ \A k \in 1..n : e2[o[k]] = Seen!Absent
  <1> USE DEF Rest, Without
  <1>1. o \in Seq(Id) /\ Len(o) \in Nat /\ e \in [Id -> Stamp] /\ n \in Nat /\ n <= Len(o)
    BY DEF Paired
  <1>3. /\ o2 \in Seq(Id) /\ Len(o2) = Len(o) - n
        /\ \A k \in 1..Len(o) - n : o2[k] = o[k + n]
    <2>1. SubSeq(o, n + 1, Len(o)) \in Seq(Id)
      BY <1>1
    <2>2. Len(SubSeq(o, n + 1, Len(o))) = Len(o) - n
      BY <1>1
    <2>3. \A k \in 1..Len(o) - n : SubSeq(o, n + 1, Len(o))[k] = o[k + n]
      BY <1>1
    <2>4. QED
      BY <2>1, <2>2, <2>3
  <1>4. \A k \in 1..Len(o2) : k + n \in 1..Len(o) /\ o2[k] = o[k + n]
    BY <1>1, <1>3
  <1>5. \A k \in 1..Len(o) : o[k] \in Id
    BY <1>1
  <1>6. \A k \in n + 1..Len(o) : ~(\E j \in 1..n : o[j] = o[k])
    BY <1>1 DEF Paired
  <1>7. \A k \in 1..Len(o2) : e2[o2[k]] = e[o2[k]]
    <2>1. \A k \in 1..Len(o2) : k + n \in n + 1..Len(o)
      BY <1>1, <1>3
    <2>2. ASSUME NEW k \in 1..Len(o2) PROVE e2[o2[k]] = e[o2[k]]
      <3>1. k + n \in n + 1..Len(o) /\ o2[k] = o[k + n]
        BY <1>4, <2>1
      <3>2. o2[k] \in Id /\ ~(\E j \in 1..n : o[j] = o2[k])
        BY <1>4, <1>5, <1>6, <3>1
      <3>3. QED
        BY <3>2
    <2>3. QED
      BY <2>2
  <1>8. \A i \in Id : e2[i] = IF \E k \in 1..n : o[k] = i THEN Seen!Absent ELSE e[i]
    OBVIOUS
  <1>9. \A k \in 1..n : e2[o[k]] = Seen!Absent
    BY <1>1, <1>5, <1>8
  <1>10. Paired(e2, o2)
    <2>1. e2 \in [Id -> Stamp]
      BY <1>1 DEF Stamp
    <2>2. \A i \in Id : (e2[i] # Seen!Absent) <=> (\E k \in 1..Len(o2) : o2[k] = i)
      <3> SUFFICES ASSUME NEW i \in Id
                   PROVE  (e2[i] # Seen!Absent) <=> (\E k \in 1..Len(o2) : o2[k] = i)
        OBVIOUS
      <3>1. ASSUME e2[i] # Seen!Absent PROVE \E k \in 1..Len(o2) : o2[k] = i
        <4>1. e[i] # Seen!Absent /\ ~(\E k \in 1..n : o[k] = i)
          BY <3>1, <1>8
        <4>2. PICK k \in 1..Len(o) : o[k] = i
          BY <4>1 DEF Paired
        <4>3. k > n
          BY <4>1, <4>2, <1>1
        <4>4. k - n \in 1..Len(o2) /\ (k - n) + n = k
          BY <4>3, <1>1, <1>3
        <4>5. QED
          BY <4>2, <4>4, <1>4
      <3>2. ASSUME NEW k \in 1..Len(o2), o2[k] = i PROVE e2[i] # Seen!Absent
        <4>1. e2[i] = e[i] /\ o[k + n] = i /\ k + n \in 1..Len(o)
          BY <3>2, <1>4, <1>7
        <4>2. QED
          BY <4>1 DEF Paired
      <3>3. QED
        BY <3>1, <3>2
    <2>3. \A j, k \in 1..Len(o2) : o2[j] = o2[k] => j = k
      <3> SUFFICES ASSUME NEW j \in 1..Len(o2), NEW k \in 1..Len(o2),
                          o2[j] = o2[k]
                   PROVE  j = k
        OBVIOUS
      <3>1. o[j + n] = o[k + n] /\ j + n \in 1..Len(o) /\ k + n \in 1..Len(o)
        BY <1>4
      <3>2. j + n = k + n
        BY <3>1 DEF Paired
      <3>3. QED
        BY <3>2, <1>1, <1>3
    <2>4. QED
      BY <1>3, <2>1, <2>2, <2>3 DEF Paired
  <1>11. QED
    BY <1>3, <1>4, <1>7, <1>8, <1>9, <1>10

LEMMA InsertPairs ==
    ASSUME NEW e, NEW o, Paired(e, o), now \in Nat, NEW i \in Id,
           NEW e2, e2 = Put(e, i), NEW o2, o2 = Queued(e, o, i)
    PROVE  /\ Paired(e2, o2)
           /\ \A j \in Id : e2[j] = IF j = i THEN now ELSE e[j]
           /\ Len(o2) \in {Len(o), Len(o) + 1}
  <1> USE DEF Put, Queued
  <1>1. o \in Seq(Id) /\ Len(o) \in Nat /\ e \in [Id -> Stamp]
    BY DEF Paired
  <1>3. e2 \in [Id -> Stamp] /\ e2[i] = now /\ now # Seen!Absent
        /\ \A j \in Id : j # i => e2[j] = e[j]
    BY <1>1 DEF Stamp, Seen!Absent
  <1>4. CASE e[i] = Seen!Absent
    <2>1. o2 = Append(o, i)
      BY <1>4
    <2>2. /\ o2 \in Seq(Id) /\ Len(o2) = Len(o) + 1 /\ o2[Len(o) + 1] = i
          /\ \A k \in 1..Len(o) : o2[k] = o[k]
      BY <1>1, <2>1
    <2>3. \A k \in 1..Len(o) : o[k] # i
      BY <1>4 DEF Paired
    <2>4. \A j \in Id : (e2[j] # Seen!Absent) <=> (\E k \in 1..Len(o2) : o2[k] = j)
      <3> SUFFICES ASSUME NEW j \in Id
                   PROVE  (e2[j] # Seen!Absent) <=> (\E k \in 1..Len(o2) : o2[k] = j)
        OBVIOUS
      <3>1. CASE j = i
        BY <3>1, <1>1, <1>3, <2>2
      <3>2. CASE j # i
        <4>1. e2[j] = e[j]
          BY <3>2, <1>3
        <4>2. (\E k \in 1..Len(o2) : o2[k] = j) <=> (\E k \in 1..Len(o) : o[k] = j)
          BY <3>2, <1>1, <2>2
        <4>3. QED
          BY <4>1, <4>2 DEF Paired
      <3>3. QED
        BY <3>1, <3>2
    <2>5. \A j, k \in 1..Len(o2) : o2[j] = o2[k] => j = k
      <3>1. \A j, k \in 1..Len(o) : o[j] = o[k] => j = k
        BY DEF Paired
      <3>2. \A k \in 1..Len(o2) : k \in 1..Len(o) \/ k = Len(o) + 1
        BY <1>1, <2>2
      <3>3. QED
        BY <3>1, <3>2, <2>2, <2>3
    <2>6. QED
      BY <1>3, <2>1, <2>2, <2>4, <2>5 DEF Paired
  <1>5. CASE e[i] # Seen!Absent
    <2>1. o2 = o
      BY <1>5
    <2>2. \A j \in Id : (e2[j] # Seen!Absent) <=> (e[j] # Seen!Absent)
      BY <1>3, <1>5
    <2>3. QED
      BY <1>1, <1>3, <1>5, <2>1, <2>2 DEF Paired
  <1>6. QED
    BY <1>4, <1>5

-----------------------------------------------------------------------------
(* What dropping from the front and inserting keep while the clock advances. *)

LEMMA DropKeeps ==
    ASSUME NEW e, NEW o, Paired(e, o), now \in Nat, NEW a, a \in Seq(Id \X Nat), NEW n \in 0..Len(o),
           NEW o2, o2 = Rest(o, n),
           NEW e2, e2 = Without(e, o, n)
    PROVE  /\ Ordered(e, o) => Ordered(e2, o2)
           /\ Behind(o, a) => Behind(o2, a)
           /\ NotOlder(e, a) => NotOlder(e2, a)
  <1>1. /\ Paired(e2, o2) /\ Len(o2) = Len(o) - n
        /\ \A k \in 1..Len(o2) : k + n \in 1..Len(o) /\ o2[k] = o[k + n]
        /\ \A k \in 1..Len(o2) : e2[o2[k]] = e[o2[k]]
        /\ \A i \in Id : e2[i] = e[i] \/ e2[i] = Seen!Absent
    BY DropPairs
  <1>2. Len(o) \in Nat /\ Len(o2) \in Nat /\ n \in Nat
    BY <1>1 DEF Paired
  <1>3. \A k \in 1..Len(a) : a[k][1] \in Id
    OBVIOUS
  <1>4. Ordered(e, o) => Ordered(e2, o2)
    <2> SUFFICES ASSUME Ordered(e, o) PROVE Ordered(e2, o2)
      OBVIOUS
    <2>1. \A i \in Id : e2[i] <= now
      BY <1>1 DEF Ordered, Seen!Absent
    <2>2. ASSUME NEW j \in 1..Len(o2), NEW k \in 1..Len(o2), j < k PROVE e2[o2[j]] <= e2[o2[k]]
      <3>1. j + n \in 1..Len(o) /\ k + n \in 1..Len(o) /\ j + n < k + n
        BY <1>1, <1>2, <2>2
      <3>2. e[o[j + n]] <= e[o[k + n]]
        BY <3>1 DEF Ordered
      <3>3. QED
        BY <1>1, <3>2
    <2>3. QED
      BY <2>1, <2>2 DEF Ordered
  <1>5. Behind(o, a) => Behind(o2, a)
    <2> SUFFICES ASSUME Behind(o, a), NEW j \in 1..Len(o2), NEW k \in 1..Len(o2), NEW m \in 1..Len(a),
                        j < k, a[m][1] = o2[j]
                 PROVE  \E l \in m + 1..Len(a) : a[l][1] = o2[k]
      BY DEF Behind
    <2>1. j + n \in 1..Len(o) /\ k + n \in 1..Len(o) /\ j + n < k + n /\ a[m][1] = o[j + n]
      BY <1>1, <1>2, SMTT(30)
    <2>2. \E l \in m + 1..Len(a) : a[l][1] = o[k + n]
      BY <2>1 DEF Behind
    <2>3. QED
      BY <2>2, <1>1
  <1>6. NotOlder(e, a) => NotOlder(e2, a)
    BY <1>1, <1>3 DEF NotOlder
  <1>7. QED
    BY <1>4, <1>5, <1>6

\* An entry dropped when its window is over is not missed.
LEMMA PruneKeeps ==
    ASSUME NEW e, NEW o, Paired(e, o), Seen!SeenAssumption, now \in Nat, NEW a, a \in Seq(Id \X Nat),
           Ordered(e, o), NotOlder(e, a), Held(e, a),
           NEW n \in 0..Len(o), \A k \in 1..n : Seen!Expired(e[o[k]]),
           NEW e2, e2 = Without(e, o, n)
    PROVE  Held(e2, a)
  <1> SUFFICES ASSUME NEW m \in 1..Len(a), ~(now - a[m][2] >= Window),
                      ~(Cardinality(Others(a, m)) >= Cap)
               PROVE  e2[a[m][1]] # Seen!Absent
    BY DEF Held
  <1>1. a[m][1] \in Id /\ a[m][2] \in Nat
    OBVIOUS
  <1>2. e[a[m][1]] # Seen!Absent /\ a[m][2] <= e[a[m][1]] /\ e[a[m][1]] <= now /\ e[a[m][1]] \in Nat
    BY <1>1 DEF Held, NotOlder, Ordered, Paired, Stamp
  <1>3. ~Seen!Expired(e[a[m][1]])
    BY <1>1, <1>2, SMTT(30) DEF Seen!Expired, Seen!SeenAssumption
  <1>4. \A k \in 1..n : o[k] # a[m][1]
    BY <1>3
  <1>5. e2[a[m][1]] = e[a[m][1]]
    BY <1>1, <1>4 DEF Without
  <1>6. QED
    BY <1>2, <1>5

LEMMA OthersFinite ==
    ASSUME NEW a, Len(a) \in Nat, NEW m \in Nat
    PROVE  IsFiniteSet(Others(a, m)) /\ Cardinality(Others(a, m)) \in Nat
  <1> DEFINE S == {a[l][1] : l \in m + 1..Len(a)}
  <1>1. IsFiniteSet(m + 1..Len(a))
    BY FS_Interval
  <1>2. IsFiniteSet(S)
    <2> DEFINE f == [l \in m + 1..Len(a) |-> a[l][1]]
    <2>1. f \in Surjection(m + 1..Len(a), S)
      BY DEF Surjection
    <2> HIDE DEF f, S
    <2>2. QED
      BY <1>1, <2>1, FS_Surjection DEF ExistsSurjection
  <1>3. Others(a, m) \subseteq S
    BY DEF Others
  <1> HIDE DEF S
  <1>4. QED
    BY <1>2, <1>3, FS_Subset, FS_CardinalityType

\* An id at the end of the queue is accepted after every other.
LEMMA BehindGrows ==
    ASSUME NEW o, NEW o2, NEW a, NEW a2, NEW i, Grew(o, o2, i), NotAmong(o, i),
           Grew(a, a2, <<i, now>>), Behind(o, a)
    PROVE  Behind(o2, a2)
  <1> USE DEF Grew, NotAmong, Stamped, Dated
  <1> SUFFICES ASSUME NEW j \in 1..Len(o2), NEW k \in 1..Len(o2), NEW m \in 1..Len(a2),
                      j < k, a2[m][1] = o2[j]
               PROVE  \E l \in m + 1..Len(a2) : a2[l][1] = o2[k]
    BY DEF Behind
  <1>1. j \in 1..Len(o)
    OBVIOUS
  <1>6. a2[Len(a) + 1][1] = i
    OBVIOUS
  <1>2. m \in 1..Len(a) /\ a[m][1] = o[j]
    <2>1. m \in 1..Len(a) \/ m = Len(a) + 1
      OBVIOUS
    <2>2. m # Len(a) + 1
      BY <1>1, <1>6
    <2>3. QED
      BY <1>1, <2>1, <2>2
  <1>3. CASE k \in 1..Len(o)
    <2>1. PICK l \in m + 1..Len(a) : a[l][1] = o[k]
      BY <1>1, <1>2, <1>3 DEF Behind
    <2>2. l \in 1..Len(a) /\ l \in m + 1..Len(a2)
      BY <1>2
    <2>3. QED
      BY <2>1, <2>2, <1>3
  <1>4. CASE k = Len(o) + 1
    <2>1. Len(a2) \in m + 1..Len(a2) /\ a2[Len(a2)][1] = i
      BY <1>2, <1>6
    <2>2. QED
      BY <2>1, <1>4
  <1>5. QED
    BY <1>3, <1>4

LEMMA NotOlderGrows ==
    ASSUME NEW e, NEW e2, NEW a, NEW a2, NEW i \in Id, now \in Nat, Dated(a),
           Stamped(e, e2, i), Grew(a, a2, <<i, now>>), NotOlder(e, a)
    PROVE  NotOlder(e2, a2)
  <1> USE DEF Grew, NotAmong, Stamped, Dated
  <1> SUFFICES ASSUME NEW m \in 1..Len(a2), e2[a2[m][1]] # Seen!Absent
               PROVE  a2[m][2] <= e2[a2[m][1]]
    BY DEF NotOlder
  <1>1. m \in 1..Len(a) \/ m = Len(a) + 1
    OBVIOUS
  <1>2. CASE m \in 1..Len(a)
    <2>1. a2[m] = a[m] /\ a[m][1] \in Id /\ a[m][2] <= now
      BY <1>2
    <2>2. CASE a[m][1] = i
      BY <2>1, <2>2
    <2>3. CASE a[m][1] # i
      BY <2>1, <2>3, <1>2 DEF NotOlder
    <2>4. QED
      BY <2>2, <2>3
  <1>3. CASE m = Len(a) + 1
    <2>1. a2[m][1] = i /\ a2[m][2] = now
      BY <1>3
    <2>2. QED
      BY <2>1
  <1>4. QED
    BY <1>1, <1>2, <1>3

LEMMA HeldGrows ==
    ASSUME NEW e, NEW e2, NEW a, NEW a2, NEW i \in Id, now \in Nat, Seen!SeenAssumption, Dated(a),
           Stamped(e, e2, i), Grew(a, a2, <<i, now>>), Held(e, a)
    PROVE  Held(e2, a2)
  <1> USE DEF Grew, NotAmong, Stamped, Dated
  <1> SUFFICES ASSUME NEW m \in 1..Len(a2), ~(now - a2[m][2] >= Window),
                      ~(Cardinality(Others(a2, m)) >= Cap)
               PROVE  e2[a2[m][1]] # Seen!Absent
    BY DEF Held
  <1>1. now # Seen!Absent
    BY DEF Seen!Absent
  <1>2. m \in 1..Len(a) \/ m = Len(a) + 1
    OBVIOUS
  <1>3. CASE m \in 1..Len(a)
    <2>1. a2[m] = a[m] /\ a[m][1] \in Id /\ m \in Nat /\ Len(a2) \in Nat /\ Cap \in Nat
      BY <1>3 DEF Seen!SeenAssumption
    <2>2. Others(a, m) \subseteq Others(a2, m)
      <3>1. \A l \in m + 1..Len(a) : l \in m + 1..Len(a2) /\ a2[l] = a[l]
        BY <1>3
      <3>2. QED
        BY <3>1, <2>1 DEF Others
    <2>3. /\ IsFiniteSet(Others(a2, m)) /\ Cardinality(Others(a2, m)) \in Nat
          /\ Cardinality(Others(a, m)) \in Nat
      BY <2>1, OthersFinite
    <2>4. Cardinality(Others(a, m)) <= Cardinality(Others(a2, m))
      BY <2>2, <2>3, FS_Subset
    <2>5. ~(Cardinality(Others(a, m)) >= Cap)
      BY <2>1, <2>3, <2>4
    <2>6. e[a[m][1]] # Seen!Absent
      BY <1>3, <2>1, <2>5 DEF Held
    <2>7. QED
      BY <2>1, <2>6, <1>1
  <1>4. CASE m = Len(a) + 1
    <2>1. a2[m][1] = i
      BY <1>4
    <2>2. QED
      BY <2>1, <1>1
  <1>5. QED
    BY <1>2, <1>3, <1>4

LEMMA OrderedGrows ==
    ASSUME NEW e, NEW e2, NEW o, NEW o2, NEW i \in Id, now \in Nat,
           Stamped(e, e2, i), Grew(o, o2, i), NotAmong(o, i), Ordered(e, o)
    PROVE  Ordered(e2, o2)
  <1> USE DEF Grew, NotAmong, Stamped, Dated
  <1>1. \A j \in Id : e2[j] <= now
    BY DEF Ordered
  <1>2. ASSUME NEW j \in 1..Len(o2), NEW k \in 1..Len(o2), j < k PROVE e2[o2[j]] <= e2[o2[k]]
    <2>1. j \in 1..Len(o)
      BY <1>2
    <2>2. CASE k \in 1..Len(o)
      BY <2>1, <2>2, <1>2 DEF Ordered
    <2>3. CASE k = Len(o) + 1
      BY <2>1, <2>3, <1>1
    <2>4. QED
      BY <2>2, <2>3
  <1>3. QED
    BY <1>1, <1>2 DEF Ordered

LEMMA InsertKeeps ==
    ASSUME NEW e, NEW o, Paired(e, o), Seen!SeenAssumption, now \in Nat, NEW a, Dated(a),
           Ordered(e, o), Behind(o, a), NotOlder(e, a), Held(e, a),
           NEW i \in Id, e[i] = Seen!Absent, NEW e2, Stamped(e, e2, i),
           NEW o2, Grew(o, o2, i), NEW a2, Grew(a, a2, <<i, now>>)
    PROVE  Ordered(e2, o2) /\ Behind(o2, a2) /\ NotOlder(e2, a2) /\ Held(e2, a2)
  <1>1. NotAmong(o, i)
    BY DEF Paired, NotAmong
  <1>2. QED
    BY <1>1, OrderedGrows, BehindGrows, NotOlderGrows, HeldGrows

\* The front of a queue one too long has Cap others behind it.
LEMMA EvictKeeps ==
    ASSUME NEW e, NEW o, Paired(e, o), Seen!SeenAssumption, NEW a, a \in Seq(Id \X Nat),
           Behind(o, a), Held(e, a), Len(o) = Cap + 1,
           NEW e2, e2 = Without(e, o, 1)
    PROVE  Held(e2, a)
  <1> SUFFICES ASSUME NEW m \in 1..Len(a), ~(now - a[m][2] >= Window), e2[a[m][1]] = Seen!Absent
               PROVE  Cardinality(Others(a, m)) >= Cap
    BY DEF Held
  <1>1. a[m][1] \in Id /\ Len(a) \in Nat /\ Len(o) \in Nat /\ Cap \in Nat /\ m \in Nat
    BY DEF Paired, Seen!SeenAssumption
  <1>2. CASE a[m][1] # o[1]
    <2>1. e2[a[m][1]] = e[a[m][1]]
      BY <1>1, <1>2 DEF Without
    <2>2. QED
      BY <2>1 DEF Held
  <1>3. CASE a[m][1] = o[1]
    <2> DEFINE T == {o[k] : k \in 2..Len(o)}
    <2>1. T \subseteq Others(a, m)
      <3> SUFFICES ASSUME NEW k \in 2..Len(o) PROVE o[k] \in Others(a, m)
        OBVIOUS
      <3>1. 1 \in 1..Len(o) /\ k \in 1..Len(o) /\ 1 < k
        BY <1>1
      <3>2. PICK l \in m + 1..Len(a) : a[l][1] = o[k]
        BY <1>3, <3>1 DEF Behind
      <3>3. o[k] # o[1]
        BY <3>1 DEF Paired
      <3>4. QED
        BY <1>3, <3>2, <3>3 DEF Others
    <2>2. IsFiniteSet(T) /\ Cardinality(T) = Cap
      <3> DEFINE f == [k \in 2..Len(o) |-> o[k]]
      <3>1. f \in Bijection(2..Len(o), T)
        <4>1. \A j, k \in 2..Len(o) : f[j] = f[k] => j = k
          BY <1>1 DEF Paired
        <4>2. f \in [2..Len(o) -> T] /\ \A x \in T : \E k \in 2..Len(o) : f[k] = x
          OBVIOUS
        <4> HIDE DEF f, T
        <4>3. QED
          BY <4>1, <4>2 DEF Bijection, Injection, Surjection, IsInjective
      <3>2. IsFiniteSet(2..Len(o)) /\ Cardinality(2..Len(o)) = Cap
        BY <1>1, FS_Interval
      <3> HIDE DEF f, T
      <3>3. ExistsBijection(2..Len(o), T)
        BY <3>1 DEF ExistsBijection
      <3>4. QED
        BY <3>2, <3>3, FS_Bijection
    <2>3. IsFiniteSet(Others(a, m)) /\ Cardinality(Others(a, m)) \in Nat
      BY <1>1, OthersFinite
    <2> HIDE DEF T
    <2>4. Cardinality(T) <= Cardinality(Others(a, m))
      BY <2>1, <2>3, FS_Subset
    <2>5. QED
      BY <2>2, <2>3, <2>4, <1>1
  <1>4. QED
    BY <1>2, <1>3

LEMMA RecordStep ==
    ASSUME Seen!SeenAssumption, SeenInv, NEW i \in Id, Seen!Record(i)
    PROVE  SeenInv'
  <1> DEFINE n == Seen!Longest(Seen!Stale(order))
             o1 == Rest(order, n)
             e1 == Without(entries, order, n)
             o2 == Queued(e1, o1, i)
             e2 == Put(e1, i)
             c == IF Cardinality(Seen!Tracked(e2)) > Cap THEN Cardinality(Seen!Tracked(e2)) - Cap ELSE 0
             o3 == Rest(o2, c)
             e3 == Without(e2, o2, c)
             a == accepted
             a2 == Append(accepted, <<i, now>>)
  <1>1. /\ order' = o3 /\ entries' = e3 /\ accepted' = a2
        /\ now' = now /\ setBack' = setBack
    <2>1. Seen!Prune([entries |-> entries, order |-> order]) = [order |-> o1, entries |-> e1]
      BY DEF Seen!Prune, Seen!DropFront, Rest, Without
    <2>2. Seen!Insert([order |-> o1, entries |-> e1], i) = [entries |-> e2, order |-> o2]
      BY DEF Seen!Insert, Put, Queued
    <2>3. Seen!EnforceCap([entries |-> e2, order |-> o2]) = [order |-> o3, entries |-> e3]
      BY SameSize DEF Seen!EnforceCap, Seen!DropFront, Rest, Without
    <2> HIDE DEF o1, e1, o2, e2, o3, e3
    <2>4. QED
      BY <2>1, <2>2, <2>3 DEF Seen!Record
  <1>2. /\ Paired(entries, order) /\ Len(order) \in Nat /\ Len(order) <= Cap /\ Cap \in Nat
        /\ now \in Nat /\ a \in Seq(Id \X Nat) /\ setBack \in BOOLEAN
    BY DEF SeenInv, SeenTypes, Seen!SeenAssumption, Paired
  <1>3. /\ n \in 0..Len(order)
        /\ \A k \in 1..n : Seen!Expired(entries[order[k]])
        /\ \A m \in 0..Len(order) : (\A k \in 1..m : Seen!Expired(entries[order[k]])) => m <= n
    BY <1>2, LongestRun
  <1> HIDE DEF n
  <1>4. /\ Paired(e1, o1) /\ Len(o1) = Len(order) - n
        /\ \A j \in Id : e1[j] = entries[j] \/ \E k \in 1..n : order[k] = j
        /\ \A k \in 1..n : e1[order[k]] = Seen!Absent
    <2>1. o1 = Rest(order, n) /\ e1 = Without(entries, order, n)
      OBVIOUS
    <2> HIDE DEF o1, e1
    <2>2. QED
      BY <2>1, <1>2, <1>3, DropPairs
  <1>5. /\ Paired(e2, o2) /\ Len(o2) \in {Len(o1), Len(o1) + 1}
        /\ \A j \in Id : e2[j] = IF j = i THEN now ELSE e1[j]
    <2> HIDE DEF e1, o1
    <2>1. QED
      BY <1>2, <1>4, InsertPairs
  <1>6. Len(o1) \in Nat /\ Len(o2) \in Nat /\ Len(o2) <= Cap + 1
    <2> HIDE DEF o1, o2, e1, e2
    <2>1. QED
      BY <1>2, <1>3, <1>4, <1>5
  <1>7. Cardinality(Seen!Tracked(e2)) = Len(o2)
    BY <1>5, PairedCount
  <1>8. c = (IF Len(o2) > Cap THEN 1 ELSE 0) /\ c \in 0..Len(o2) /\ (c = 1 => Len(o2) = Cap + 1)
    BY <1>2, <1>6, <1>7
  <1>9. Paired(e3, o3) /\ Len(o3) = Len(o2) - c
    <2>1. o3 = Rest(o2, c) /\ e3 = Without(e2, o2, c)
      OBVIOUS
    <2> HIDE DEF c, o2, e2, o3, e3
    <2>2. QED
      BY <2>1, <1>5, <1>8, DropPairs
  <1>10. Len(o3) <= Cap
    BY <1>2, <1>6, <1>8, <1>9
  <1>11. a2 \in Seq(Id \X Nat) /\ Grew(a, a2, <<i, now>>)
    BY <1>2 DEF Grew
  <1>12. ASSUME ~setBack PROVE Forward(e3, o3, a2)
    <2>1. Dated(a) /\ Ordered(entries, order) /\ Behind(order, a) /\ NotOlder(entries, a) /\ Held(entries, a)
      BY <1>12 DEF SeenInv, Forward
    <2>2. Ordered(e1, o1) /\ Behind(o1, a) /\ NotOlder(e1, a)
      BY <1>2, <1>3, <2>1, DropKeeps
    <2>3. Held(e1, a)
      BY <1>2, <1>3, <2>1, PruneKeeps
    <2>4. e1[i] = Seen!Absent
      <3> SUFFICES ASSUME e1[i] # Seen!Absent PROVE FALSE
        OBVIOUS
      <3>1. e1[i] = entries[i] /\ entries[i] # Seen!Absent
        BY <1>3, <1>4
      <3>2. PICK p \in 1..Len(order) : order[p] = i
        BY <1>2, <3>1 DEF Paired
      <3>3. Seen!Expired(entries[i])
        BY <3>1 DEF Seen!Record, Seen!Contains
      <3>4. \A k \in 1..Len(order) : /\ order[k] \in Id /\ entries[order[k]] \in Nat
                                     /\ entries[order[k]] <= now
        BY <1>2, <2>1 DEF Paired, Stamp, Ordered
      <3>5. ASSUME NEW k \in 1..p PROVE Seen!Expired(entries[order[k]])
        <4>1. k \in 1..Len(order) /\ (k = p \/ k < p)
          BY <1>2
        <4>2. entries[order[k]] <= entries[i]
          BY <3>2, <3>4, <4>1, <2>1 DEF Ordered
        <4>3. Window \in Nat /\ entries[i] \in Nat /\ entries[i] <= now
          BY <3>2, <3>4 DEF Seen!SeenAssumption
        <4>4. now - entries[i] >= Window
          BY <1>2, <3>3, <4>3 DEF Seen!Expired
        <4>5. QED
          BY <1>2, <3>4, <4>1, <4>2, <4>3, <4>4 DEF Seen!Expired
      <3>6. p \in 0..Len(order)
        BY <1>2
      <3>7. p <= n
        BY <1>3, <3>5, <3>6
      <3>8. p \in 1..n
        BY <1>2, <1>3, <3>7
      <3>9. QED
        BY <1>4, <3>2, <3>8
    <2>5. Stamped(e1, e2, i)
      BY <1>5 DEF Stamped
    <2>6. Grew(o1, o2, i)
      <3>1. o1 \in Seq(Id)
        BY <1>4 DEF Paired
      <3> HIDE DEF o1, e1
      <3>2. QED
        BY <2>4, <3>1 DEF Grew, Queued
    <2> HIDE DEF e1, o1, e2, o2, a2, e3, o3, c
    <2>7. Ordered(e2, o2) /\ Behind(o2, a2) /\ NotOlder(e2, a2) /\ Held(e2, a2)
      BY <1>2, <1>4, <1>11, <2>1, <2>2, <2>3, <2>4, <2>5, <2>6, InsertKeeps
    <2>8. Dated(a2)
      <3>1. \A k \in 1..Len(a2) : k \in 1..Len(a) \/ k = Len(a) + 1
        BY <1>11 DEF Grew
      <3>2. a2[Len(a) + 1][1] = i /\ a2[Len(a) + 1][2] = now
        BY <1>11 DEF Grew
      <3>3. \A k \in 1..Len(a) : a2[k] = a[k]
        BY <1>11 DEF Grew
      <3>4. ASSUME NEW k \in 1..Len(a2) PROVE a2[k][1] \in Id /\ a2[k][2] \in Nat /\ a2[k][2] <= now
        <4>1. CASE k \in 1..Len(a)
          BY <4>1, <2>1, <3>3 DEF Dated
        <4>2. CASE k = Len(a) + 1
          BY <4>2, <3>2, <1>2
        <4>3. QED
          BY <3>1, <4>1, <4>2
      <3>5. QED
        BY <3>4 DEF Dated
    <2>9. Ordered(e3, o3) /\ Behind(o3, a2) /\ NotOlder(e3, a2)
      <3> USE DEF e3, o3
      <3>1. QED
        BY <1>2, <1>5, <1>8, <1>11, <2>7, DropKeeps
    <2>10. Held(e3, a2)
      <3>1. CASE c = 0
        <4>1. e3 = e2
          <5>1. \A j \in Id : ~(\E k \in 1..c : o2[k] = j)
            BY <3>1
          <5>2. e2 \in [Id -> Stamp]
            BY <1>5 DEF Paired
          <5>3. QED
            BY <5>1, <5>2 DEF e3, Without
        <4>2. QED
          BY <4>1, <2>7
      <3>2. CASE c = 1
        <4>1. e3 = Without(e2, o2, 1)
          BY <3>2 DEF e3
        <4>2. QED
          BY <4>1, <3>2, <1>5, <1>8, <1>11, <2>7, EvictKeeps
      <3>3. QED
        BY <3>1, <3>2, <1>8
    <2>11. QED
      BY <2>7, <2>8, <2>9, <2>10 DEF Forward
  <1> HIDE DEF e1, o1, e2, o2, a2, e3, o3, c
  <1>13. SeenTypes'
    BY <1>1, <1>2, <1>11 DEF SeenTypes
  <1>14. Paired(entries, order)' /\ (Len(order) <= Cap)'
    BY <1>1, <1>9, <1>10 DEF Paired
  <1>15. ASSUME ~setBack' PROVE Forward(entries, order, accepted)'
    <2>1. Forward(e3, o3, a2)
      BY <1>1, <1>12, <1>15
    <2>2. QED
      BY <1>1, <2>1 DEF Forward, Dated, Ordered, Behind, NotOlder, Held
  <1>16. QED
    BY <1>13, <1>14, <1>15 DEF SeenInv

\* A restart stamps what is in its window anew.
LEMMA RestartStep ==
    ASSUME Seen!SeenAssumption, SeenInv, Seen!Restart
    PROVE  SeenInv'
  <1>1. /\ entries' = [i \in Id |-> IF entries[i] = Seen!Absent THEN Seen!Absent ELSE now]
        /\ order' = order /\ now' = now /\ accepted' = accepted /\ setBack' = setBack
        /\ now \in Nat /\ Paired(entries, order)
    BY DEF Seen!Restart, SeenInv, SeenTypes
  <1>2. \A i \in Id : entries'[i] = IF entries[i] = Seen!Absent THEN Seen!Absent ELSE now
    BY <1>1
  <1>3. now # Seen!Absent
    BY <1>1 DEF Seen!Absent
  <1>4. Paired(entries, order)'
    <2>1. entries' \in [Id -> Stamp]
      BY <1>1 DEF Stamp
    <2>2. QED
      BY <2>1, <1>1, <1>2, <1>3 DEF Paired
  <1>5. ASSUME ~setBack' PROVE Forward(entries, order, accepted)'
    <2>1. Forward(entries, order, accepted)
      BY <1>1, <1>5 DEF SeenInv
    <2>2. \A k \in 1..Len(order) : order[k] \in Id /\ entries'[order[k]] = now
      BY <1>1, <1>2 DEF Paired
    <2>3. Ordered(entries, order)'
      BY <2>2, <1>1, <1>2 DEF Ordered, Seen!Absent
    <2>4. NotOlder(entries, accepted)'
      <3>1. Dated(accepted)
        BY <2>1 DEF Forward
      <3>2. QED
        BY <3>1, <1>1, <1>2 DEF NotOlder, Dated
    <2>5. Held(entries, accepted)'
      <3>1. Held(entries, accepted) /\ Dated(accepted)
        BY <2>1 DEF Forward
      <3>2. QED
        BY <3>1, <1>1, <1>2, <1>3 DEF Held, Dated, Others
    <2>6. Behind(order, accepted)' /\ Dated(accepted)'
      BY <2>1, <1>1 DEF Forward, Behind, Dated
    <2>7. QED
      BY <2>3, <2>4, <2>5, <2>6 DEF Forward
  <1>6. QED
    BY <1>1, <1>4, <1>5 DEF SeenInv, SeenTypes

LEMMA TickStep ==
    ASSUME Seen!SeenAssumption, SeenInv, Seen!Tick
    PROVE  SeenInv'
  <1>1. /\ UNCHANGED <<entries, order, accepted>> /\ now \in Nat /\ now' \in Nat
        /\ (setBack' = TRUE \/ (setBack' = setBack /\ now' = now + 1))
    BY DEF Seen!Tick, SeenInv, SeenTypes
  <1>2. SeenTypes'
    BY <1>1 DEF SeenInv, SeenTypes
  <1>3. Paired(entries, order)' /\ (Len(order) <= Cap)'
    BY <1>1 DEF SeenInv, Paired
  <1>4. ASSUME ~setBack' PROVE Forward(entries, order, accepted)'
    <2>1. now' = now + 1 /\ Forward(entries, order, accepted)
      BY <1>1, <1>4 DEF SeenInv
    <2>2. Dated(accepted)'
      BY <1>1, <2>1 DEF Forward, Dated
    <2>3. Ordered(entries, order)'
      <3>1. \A i \in Id : entries[i] \in Stamp
        BY DEF SeenInv, Paired
      <3>2. QED
        BY <1>1, <2>1, <3>1 DEF Forward, Ordered, Stamp, Seen!Absent
    <2>4. Held(entries, accepted)'
      <3> SUFFICES ASSUME NEW n \in 1..Len(accepted), ~(now' - accepted[n][2] >= Window),
                          ~(Cardinality(Others(accepted, n)) >= Cap)
                   PROVE  entries[accepted[n][1]] # Seen!Absent
        BY <1>1 DEF Held, Others
      <3>1. accepted[n][2] \in Nat /\ Window \in Nat
        BY <2>1 DEF Forward, Dated, Seen!SeenAssumption
      <3>2. ~(now - accepted[n][2] >= Window)
        BY <1>1, <2>1, <3>1
      <3>3. QED
        BY <2>1, <3>2 DEF Forward, Held
    <2>5. Behind(order, accepted)' /\ NotOlder(entries, accepted)'
      BY <1>1, <2>1 DEF Forward, Behind, NotOlder
    <2>6. QED
      BY <2>2, <2>3, <2>4, <2>5 DEF Forward
  <1>5. QED
    BY <1>2, <1>3, <1>4 DEF SeenInv

\* The dedup set of a node keeps its two halves together within the cap, and recognises
\* what it accepted within the window unless the cap made room (seen.rs record,
\* contains, prune, enforce_cap, restore), for every window, cap and order of events.
THEOREM SeenIsSound == ASSUME Seen!SeenAssumption PROVE Seen!Spec => []Seen!DedupIsSound
  <1>1. Seen!Init => SeenInv
    <2> SUFFICES ASSUME Seen!Init PROVE SeenInv
      OBVIOUS
    <2>1. /\ entries = [i \in Id |-> Seen!Absent] /\ order = <<>> /\ accepted = <<>> /\ now = 0
          /\ setBack = FALSE
      BY DEF Seen!Init
    <2>2. entries \in [Id -> Stamp]
      BY <2>1 DEF Stamp
    <2>3. Len(order) = 0 /\ Len(accepted) = 0 /\ order \in Seq(Id) /\ accepted \in Seq(Id \X Nat)
      BY <2>1
    <2>4. Paired(entries, order)
      BY <2>1, <2>2, <2>3 DEF Paired
    <2>5. Ordered(entries, order)
      BY <2>1, <2>3 DEF Ordered, Seen!Absent
    <2>6. Forward(entries, order, accepted)
      BY <2>3, <2>5 DEF Forward, Dated, Behind, NotOlder, Held
    <2>7. Len(order) <= Cap
      BY <2>3 DEF Seen!SeenAssumption
    <2>8. QED
      BY <2>1, <2>3, <2>4, <2>6, <2>7 DEF SeenInv, SeenTypes
  <1>2. SeenInv /\ [Seen!Next]_Seen!vars => SeenInv'
    <2> SUFFICES ASSUME SeenInv, [Seen!Next]_Seen!vars PROVE SeenInv'
      OBVIOUS
    <2>1. CASE \E i \in Id : Seen!Record(i)
      BY <2>1, RecordStep
    <2>2. CASE Seen!Restart
      BY <2>2, RestartStep
    <2>3. CASE Seen!Tick
      BY <2>3, TickStep
    <2>4. CASE UNCHANGED Seen!vars
      <3>1. UNCHANGED <<entries, order, now, accepted, setBack>>
        BY <2>4 DEF Seen!vars
      <3>2. SeenTypes' /\ Paired(entries, order)' /\ (Len(order) <= Cap)'
        BY <3>1 DEF SeenInv, SeenTypes, Paired
      <3>3. Forward(entries, order, accepted)' <=> Forward(entries, order, accepted)
        BY <3>1 DEF Forward, Dated, Ordered, Behind, NotOlder, Held
      <3>4. QED
        BY <3>1, <3>2, <3>3 DEF SeenInv
    <2>5. QED
      BY <2>1, <2>2, <2>3, <2>4 DEF Seen!Next
  <1>3. SeenInv => Seen!DedupIsSound
    <2> SUFFICES ASSUME SeenInv PROVE Seen!DedupIsSound
      OBVIOUS
    <2>1. Seen!OrderMatchesEntries
      BY DEF SeenInv, Paired, Seen!OrderMatchesEntries
    <2>2. Seen!RecentIsRecognised
      <3> SUFFICES ASSUME ~setBack, NEW k \in 1..Len(accepted),
                          ~(now - accepted[k][2] >= Window),
                          ~(Cardinality(Others(accepted, k)) >= Cap)
                   PROVE  Seen!Contains(accepted[k][1])
        BY SameSize DEF Seen!RecentIsRecognised, Others
      <3> DEFINE i == accepted[k][1]
      <3>1. /\ Dated(accepted) /\ Ordered(entries, order) /\ NotOlder(entries, accepted)
            /\ Held(entries, accepted) /\ entries \in [Id -> Stamp] /\ now \in Nat /\ Window \in Nat
        BY DEF SeenInv, SeenTypes, Forward, Paired, Seen!SeenAssumption
      <3>2. i \in Id /\ accepted[k][2] \in Nat
        BY <3>1 DEF Dated
      <3>3. entries[i] # Seen!Absent
        BY <3>1 DEF Held
      <3>4. accepted[k][2] <= entries[i] /\ entries[i] <= now /\ entries[i] \in Nat
        BY <3>1, <3>2, <3>3 DEF NotOlder, Ordered, Stamp
      <3>5. ~Seen!Expired(entries[i])
        BY <3>1, <3>2, <3>4 DEF Seen!Expired
      <3>6. QED
        BY <3>3, <3>5 DEF Seen!Contains
    <2>3. QED
      BY <2>1, <2>2 DEF Seen!DedupIsSound
  <1>4. QED
    BY <1>1, <1>2, <1>3, PTL DEF Seen!Spec

-----------------------------------------------------------------------------
(* The proof-of-work budget: what a connection can cost.                  *)

CONSTANTS Conn, PowWindow, MaxPerWindow, MaxConns, PowNow, MaxClears
VARIABLES conns, clock, runs, cleared

Pow == INSTANCE PowBudget WITH Window <- PowWindow, MaxNow <- PowNow, now <- clock

\* What k budgets allow.
Budgets(k) == MaxPerWindow * k

\* What a connection has had in the window from t on, `work', against the windows it may
\* have had it in: one begun before t, one begun after, one for each of `drops'.
Fits(start, count, time, t, work, drops) ==
    /\ time < t => work = 0
    /\ t <= time /\ time < t + PowWindow =>
         IF start = Pow!Untracked THEN work <= Budgets(1 + drops)
         ELSE IF start < t THEN work <= count
         ELSE work <= Budgets(1 + drops) + count
    /\ t + PowWindow <= time => work <= Budgets(2 + drops)

Tracking == {c \in Conn : conns[c].start # Pow!Untracked}
Work(c, t) == SumFunctionOnSet(runs[c], Pow!Stretch(t))
Drops(t) == SumFunctionOnSet(cleared, Pow!Stretch(t))

Time == 0..PowNow

PowTypes ==
    /\ clock \in Time
    /\ conns \in [Conn -> [start : Nat \union {Pow!Untracked}, count : Nat]]
    /\ \A c \in Conn : conns[c].count <= MaxPerWindow
    /\ runs \in [Conn -> [Time -> Nat]] /\ cleared \in [Time -> Nat]

TableInv == IsFiniteSet(Tracking) /\ Cardinality(Tracking) <= MaxConns

WorkInv == \A c \in Conn, t \in Time : Fits(conns[c].start, conns[c].count, clock, t, Work(c, t), Drops(t))

PowInv == PowTypes /\ TableInv /\ WorkInv

-----------------------------------------------------------------------------
LEMMA ConnSize == \A S : Pow!Cardinality(S) = Cardinality(S)
  BY DEF Pow!Cardinality, Cardinality

LEMMA SameSum == ASSUME NEW f, NEW S PROVE Pow!SumFunctionOnSet(f, S) = SumFunctionOnSet(f, S)
  BY DEF SumFunctionOnSet, FoldFunctionOnSet, MapThenFoldSet,
         Pow!SumFunctionOnSet, Pow!FoldFunctionOnSet, Pow!MapThenFoldSet

LEMMA OneBudgetMore ==
    ASSUME Pow!PowAssumption, NEW k \in Nat
    PROVE  /\ Budgets(k) \in Nat /\ Budgets(k + 1) = Budgets(k) + MaxPerWindow
           /\ Budgets(1 + k) \in Nat /\ Budgets(2 + k) = Budgets(1 + k) + MaxPerWindow
           /\ MaxPerWindow <= Budgets(1 + k)
  <1>1. MaxPerWindow \in Nat /\ MaxPerWindow * k \in Nat
    BY DEF Pow!PowAssumption
  <1>2. /\ MaxPerWindow * (k + 1) = MaxPerWindow * k + MaxPerWindow
        /\ MaxPerWindow * (1 + k) = MaxPerWindow * k + MaxPerWindow
        /\ MaxPerWindow * (2 + k) = MaxPerWindow * k + MaxPerWindow + MaxPerWindow
    BY <1>1
  <1>3. QED
    BY <1>1, <1>2 DEF Budgets

\* Every step keeps a connection within what its windows allow.
LEMMA FitsSteps ==
    ASSUME Pow!PowAssumption, NEW start \in Nat \union {Pow!Untracked}, NEW count \in Nat, count <= MaxPerWindow,
           NEW time \in Nat, NEW t \in Nat, NEW work \in Nat, NEW drops \in Nat, NEW more \in Nat,
           Fits(start, count, time, t, work, drops),
           more = (IF t <= time /\ time < t + PowWindow THEN 1 ELSE 0)
    PROVE  /\ Fits(start, count, time + 1, t, work, drops)
           /\ Fits(Pow!Untracked, 0, time, t, work, drops + more)
           /\ start # Pow!Untracked /\ time - start >= PowWindow => Fits(Pow!Untracked, 0, time, t, work, drops)
           /\ start # Pow!Untracked /\ count < MaxPerWindow
                => /\ Fits(start, count + 1, time, t, work + more, drops)
                   /\ Fits(start, count + 1, time, t, work, drops)
           /\ start = Pow!Untracked
                => /\ Fits(time, 1, time, t, work + more, drops)
                   /\ Fits(time, 1, time, t, work, drops)
  <1>1. PowWindow \in Nat /\ PowWindow > 0 /\ MaxPerWindow \in Nat /\ MaxPerWindow > 0
    BY DEF Pow!PowAssumption
  <1>2. /\ Budgets(1 + drops) \in Nat /\ Budgets(2 + drops) = Budgets(1 + drops) + MaxPerWindow
        /\ MaxPerWindow <= Budgets(1 + drops)
    BY OneBudgetMore
  <1>3. more = 1 => Budgets(1 + (drops + more)) = Budgets(1 + drops) + MaxPerWindow
    <2>1. Budgets((1 + drops) + 1) = Budgets(1 + drops) + MaxPerWindow
      BY OneBudgetMore
    <2>2. more = 1 => 1 + (drops + more) = (1 + drops) + 1
      OBVIOUS
    <2>3. QED
      BY <2>1, <2>2
  <1>4. more = 0 => drops + more = drops
    OBVIOUS
  <1>5. Pow!Untracked = -1
    BY DEF Pow!Untracked
  <1>6. Fits(start, count, time + 1, t, work, drops)
    BY <1>1, <1>2, <1>5 DEF Fits
  <1>7. Fits(Pow!Untracked, 0, time, t, work, drops + more)
    <2>1. CASE more = 1
      <3>1. work <= Budgets(1 + (drops + more))
        BY <2>1, <1>1, <1>2, <1>3 DEF Fits
      <3>2. QED
        BY <3>1, <2>1, <1>1 DEF Fits
    <2>2. CASE more = 0
      <3>1. ~(t <= time /\ time < t + PowWindow)
        BY <2>2
      <3>2. QED
        BY <3>1, <2>2, <1>4 DEF Fits
    <2>3. QED
      BY <2>1, <2>2
  <1>8. start # Pow!Untracked /\ time - start >= PowWindow => Fits(Pow!Untracked, 0, time, t, work, drops)
    BY <1>1, <1>2, <1>5 DEF Fits
  <1>9. start # Pow!Untracked /\ count < MaxPerWindow
                => /\ Fits(start, count + 1, time, t, work + more, drops)
                   /\ Fits(start, count + 1, time, t, work, drops)
    BY <1>1, <1>2, <1>5 DEF Fits
  <1>10. start = Pow!Untracked => /\ Fits(time, 1, time, t, work + more, drops)
                              /\ Fits(time, 1, time, t, work, drops)
    BY <1>1, <1>2, <1>5 DEF Fits
  <1>11. QED
    BY <1>6, <1>7, <1>8, <1>9, <1>10

-----------------------------------------------------------------------------
LEMMA StretchFinite ==
    ASSUME Pow!PowAssumption, NEW t \in Time
    PROVE  IsFiniteSet(Pow!Stretch(t)) /\ Pow!Stretch(t) \subseteq Time
  <1>1. Pow!Stretch(t) \subseteq 0..PowNow /\ PowNow \in Nat
    BY DEF Pow!Stretch, Time, Pow!PowAssumption
  <1>2. QED
    <2>1. IsFiniteSet(0..PowNow)
      BY <1>1, FS_Interval
    <2>2. IsFiniteSet(Pow!Stretch(t))
      BY <1>1, <2>1, FS_Subset
    <2>3. QED
      BY <1>1, <2>2 DEF Time

LEMMA SumsAreNat ==
    ASSUME Pow!PowAssumption, NEW f \in [Time -> Nat], NEW t \in Time
    PROVE  SumFunctionOnSet(f, Pow!Stretch(t)) \in Nat
  BY StretchFinite, SumGrows

\* h is f with one more at the time u.
Bumped(f, h, u) == \A v \in Time : h[v] = IF v = u THEN f[v] + 1 ELSE f[v]

LEMMA SumHit ==
    ASSUME Pow!PowAssumption, NEW f \in [Time -> Nat], NEW t \in Time, NEW u \in Time,
           NEW h, Bumped(f, h, u)
    PROVE  SumFunctionOnSet(h, Pow!Stretch(t))
             = SumFunctionOnSet(f, Pow!Stretch(t)) + (IF t <= u /\ u < t + PowWindow THEN 1 ELSE 0)
  <1>1. IsFiniteSet(Pow!Stretch(t)) /\ Pow!Stretch(t) \subseteq Time /\ Integral(f, Pow!Stretch(t))
    BY StretchFinite DEF Integral
  <1>2. u \in Pow!Stretch(t) <=> t <= u /\ u < t + PowWindow
    BY DEF Pow!Stretch, Time, Pow!PowAssumption
  <1>3. \A v \in Time : h[v] = IF v = u THEN f[v] + 1 ELSE f[v]
    BY DEF Bumped
  <1>4. CASE u \in Pow!Stretch(t)
    <2>1. h[u] = f[u] + 1 /\ h[u] \in Int /\ f[u] \in Int
      BY <1>3
    <2>2. \A v \in Pow!Stretch(t) \ {u} : h[v] = f[v]
      BY <1>1, <1>3
    <2>3. SumFunctionOnSet(h, Pow!Stretch(t)) = SumFunctionOnSet(f, Pow!Stretch(t)) + (h[u] - f[u])
      BY <1>1, <1>4, <2>1, <2>2, SumChange
    <2>4. h[u] - f[u] = 1 /\ SumFunctionOnSet(f, Pow!Stretch(t)) \in Int
      BY <1>1, <2>1, SumType
    <2>5. QED
      BY <1>2, <1>4, <2>3, <2>4
  <1>5. CASE u \notin Pow!Stretch(t)
    <2>1. \A v \in Pow!Stretch(t) : f[v] = h[v]
      BY <1>1, <1>3, <1>5
    <2>2. SumFunctionOnSet(f, Pow!Stretch(t)) = SumFunctionOnSet(h, Pow!Stretch(t))
      BY <1>1, <2>1, SumSame
    <2>3. SumFunctionOnSet(f, Pow!Stretch(t)) \in Int
      BY <1>1, SumType
    <2>4. QED
      BY <1>2, <1>5, <2>2, <2>3
  <1>6. QED
    BY <1>4, <1>5

-----------------------------------------------------------------------------
\* allow() with room in the table or for a connection in it.
LEMMA CheckStep ==
    ASSUME Pow!PowAssumption, PowInv, NEW c \in Conn, NEW cheap \in BOOLEAN, Pow!Check(c, cheap)
    PROVE  PowInv'
  <1> DEFINE table == Pow!Table(c)
             w == Pow!WindowOf(table[c])
             new == IF Pow!Within(w) THEN [w EXCEPT !.count = @ + 1] ELSE w
             hit == Pow!Within(w) /\ ~cheap
  <1>1. /\ conns' = [table EXCEPT ![c] = new]
        /\ runs' = IF hit THEN [runs EXCEPT ![c][clock] = @ + 1] ELSE runs
        /\ cleared' = IF Pow!Full(c) THEN [cleared EXCEPT ![clock] = @ + 1] ELSE cleared
        /\ clock' = clock
    BY DEF Pow!Check
  <1>2. /\ clock \in Time /\ clock \in Nat /\ MaxPerWindow \in Nat /\ MaxPerWindow > 0
        /\ conns \in [Conn -> [start : Nat \union {Pow!Untracked}, count : Nat]]
        /\ \A d \in Conn : conns[d].count <= MaxPerWindow
        /\ runs \in [Conn -> [Time -> Nat]] /\ cleared \in [Time -> Nat]
    BY DEF PowInv, PowTypes, Time, Pow!PowAssumption
  <1>3. /\ table \in [Conn -> [start : Nat \union {Pow!Untracked}, count : Nat]]
        /\ \A d \in Conn : table[d] = IF Pow!Full(c) THEN [start |-> Pow!Untracked, count |-> 0] ELSE conns[d]
        /\ \A d \in Conn : table[d].count <= MaxPerWindow
    BY <1>2 DEF Pow!Table, Pow!Empty
  <1> HIDE DEF table
  <1>4. w = IF table[c].start = Pow!Untracked \/ clock - table[c].start >= PowWindow
            THEN [start |-> clock, count |-> 0] ELSE table[c]
    BY DEF Pow!WindowOf
  <1>5. /\ w.start \in Nat /\ w.count \in Nat /\ w.count <= MaxPerWindow
        /\ w \in [start : Nat \union {Pow!Untracked}, count : Nat]
    BY <1>2, <1>3, <1>4
  <1> HIDE DEF w
  <1>6. /\ new.start = w.start /\ new.count = (IF w.count < MaxPerWindow THEN w.count + 1 ELSE w.count)
        /\ new \in [start : Nat \union {Pow!Untracked}, count : Nat]
    BY <1>5 DEF Pow!Within
  <1>7. new.count \in Nat /\ new.count <= MaxPerWindow
    BY <1>2, <1>5, <1>6
  <1> HIDE DEF new
  <1>8. /\ conns' \in [Conn -> [start : Nat \union {Pow!Untracked}, count : Nat]]
        /\ conns'[c] = new /\ \A d \in Conn \ {c} : conns'[d] = table[d]
    BY <1>1, <1>3, <1>6
  <1>9. /\ runs' \in [Conn -> [Time -> Nat]]
        /\ runs'[c] = IF hit THEN [runs[c] EXCEPT ![clock] = @ + 1] ELSE runs[c]
        /\ \A d \in Conn \ {c} : runs'[d] = runs[d]
    BY <1>1, <1>2
  <1>10. cleared' \in [Time -> Nat]
    BY <1>1, <1>2
  <1>11. PowTypes'
    BY <1>1, <1>2, <1>3, <1>7, <1>8, <1>9, <1>10 DEF PowTypes
  <1>12. TableInv'
    <2>1. CASE Pow!Full(c)
      <3>1. Tracking' = {c}
        BY <2>1, <1>3, <1>5, <1>6, <1>8 DEF Tracking, Pow!Untracked
      <3>2. QED
        <4>1. IsFiniteSet({c}) /\ Cardinality({c}) = 1
          BY FS_Singleton
        <4>2. 1 <= MaxConns
          BY DEF Pow!PowAssumption
        <4>3. QED
          BY <3>1, <4>1, <4>2 DEF TableInv
    <2>2. CASE ~Pow!Full(c)
      <3>1. Tracking' = Tracking \union {c}
        BY <2>2, <1>3, <1>5, <1>6, <1>8 DEF Tracking, Pow!Untracked
      <3>2. IsFiniteSet(Tracking) /\ Cardinality(Tracking) <= MaxConns /\ Cardinality(Tracking) \in Nat
        BY FS_CardinalityType DEF PowInv, TableInv
      <3>3. CASE c \in Tracking
        BY <3>1, <3>2, <3>3 DEF TableInv
      <3>4. CASE c \notin Tracking
        <4>1. Cardinality(Tracking) < MaxConns
          BY <2>2, <3>2, <3>4, ConnSize DEF Pow!Full, Tracking, Pow!PowAssumption
        <4>2. IsFiniteSet(Tracking \union {c}) /\ Cardinality(Tracking \union {c}) = Cardinality(Tracking) + 1
          BY <3>2, <3>4, FS_AddElement
        <4>3. QED
          BY <3>1, <3>2, <4>1, <4>2 DEF TableInv, Pow!PowAssumption
      <3>5. QED
        BY <3>3, <3>4
    <2>3. QED
      BY <2>1, <2>2
  <1>13. ASSUME NEW d \in Conn, NEW t \in Time
         PROVE  Fits(conns'[d].start, conns'[d].count, clock', t, Work(d, t)', Drops(t)')
    <2> DEFINE more == IF t <= clock /\ clock < t + PowWindow THEN 1 ELSE 0
               drops == Drops(t)
               work == Work(d, t)
    <2>1. t \in Nat /\ drops \in Nat /\ work \in Nat /\ more \in Nat
      <3>1. runs[d] \in [Time -> Nat]
        BY <1>2
      <3>2. drops \in Nat /\ work \in Nat
        BY <1>2, <3>1, SumsAreNat DEF Drops, Work
      <3>3. QED
        BY <3>2 DEF Time
    <2>2. Drops(t)' = IF Pow!Full(c) THEN drops + more ELSE drops
      <3>1. CASE Pow!Full(c)
        <4>1. cleared' = [cleared EXCEPT ![clock] = @ + 1]
          BY <3>1, <1>1
        <4>2. SumFunctionOnSet(cleared', Pow!Stretch(t)) = SumFunctionOnSet(cleared, Pow!Stretch(t)) + more
          <5>1. Bumped(cleared, cleared', clock)
            BY <4>1, <1>2 DEF Bumped
          <5>2. QED
            BY <5>1, <1>2, SumHit
        <4>3. QED
          BY <3>1, <4>2 DEF Drops, Pow!Stretch
      <3>2. CASE ~Pow!Full(c)
        BY <3>2, <1>1 DEF Drops, Pow!Stretch
      <3>3. QED
        BY <3>1, <3>2
    <2>3. Work(d, t)' = IF d = c /\ hit THEN work + more ELSE work
      <3>1. CASE d = c /\ hit
        <4>1. runs'[d] = [runs[d] EXCEPT ![clock] = @ + 1] /\ runs[d] \in [Time -> Nat]
          BY <3>1, <1>2, <1>9
        <4>2. SumFunctionOnSet(runs'[d], Pow!Stretch(t)) = SumFunctionOnSet(runs[d], Pow!Stretch(t)) + more
          <5>1. Bumped(runs[d], runs'[d], clock)
            BY <4>1, <1>2 DEF Bumped
          <5>2. QED
            BY <4>1, <5>1, <1>2, SumHit
        <4>3. QED
          BY <3>1, <4>2 DEF Work, Pow!Stretch
      <3>2. CASE ~(d = c /\ hit)
        <4>1. runs'[d] = runs[d]
          BY <3>2, <1>9
        <4>2. QED
          BY <3>2, <4>1 DEF Work, Pow!Stretch
      <3>3. QED
        BY <3>1, <3>2
    <2>4. Fits(conns[d].start, conns[d].count, clock, t, work, drops)
      BY DEF PowInv, WorkInv
    <2>5. conns[d].start \in Nat \union {Pow!Untracked} /\ conns[d].count \in Nat /\ conns[d].count <= MaxPerWindow
      BY <1>2
    <2> HIDE DEF work, drops, hit, Work, Drops
    <2>6. Fits(table[d].start, table[d].count, clock, t, work, Drops(t)')
      <3>1. CASE Pow!Full(c)
        <4>1. Fits(Pow!Untracked, 0, clock, t, work, drops + more)
          BY <1>2, <2>1, <2>4, <2>5, FitsSteps
        <4>2. QED
          BY <4>1, <3>1, <1>3, <2>2
      <3>2. CASE ~Pow!Full(c)
        BY <3>2, <1>3, <2>2, <2>4
      <3>3. QED
        BY <3>1, <3>2
    <2>7. CASE d # c
      BY <2>7, <2>3, <2>6, <1>1, <1>8
    <2>8. CASE d = c
      <3> DEFINE drops2 == Drops(t)'
      <3>1. drops2 \in Nat
        BY <2>1, <2>2
      <3>2. table[c].start \in Nat \union {Pow!Untracked} /\ table[c].count \in Nat /\ table[c].count <= MaxPerWindow
        BY <1>3
      <3>3. conns'[d].start = w.start /\ conns'[d].count = (IF w.count < MaxPerWindow THEN w.count + 1 ELSE w.count)
        BY <2>8, <1>6, <1>8
      <3>4. hit => w.count < MaxPerWindow
        BY DEF hit, Pow!Within
      <3>5. Fits(table[c].start, table[c].count, clock, t, work, drops2)
        BY <2>6, <2>8
      <3> HIDE DEF drops2
      <3>6. CASE table[c].start = Pow!Untracked
        <4>1. Fits(clock, 1, clock, t, work + more, drops2) /\ Fits(clock, 1, clock, t, work, drops2)
          BY <1>2, <2>1, <3>1, <3>2, <3>5, <3>6, FitsSteps
        <4>2. w.start = clock /\ w.count = 0
          BY <3>6, <1>4
        <4>3. conns'[d].start = clock /\ conns'[d].count = 1
          BY <4>2, <3>3, <1>2
        <4>4. QED
          BY <4>1, <4>3, <2>3, <2>8, <1>1 DEF drops2
      <3>7. CASE table[c].start # Pow!Untracked /\ clock - table[c].start >= PowWindow
        <4>1. Fits(Pow!Untracked, 0, clock, t, work, drops2)
          BY <1>2, <2>1, <3>1, <3>2, <3>5, <3>7, FitsSteps
        <4>2. Fits(clock, 1, clock, t, work + more, drops2) /\ Fits(clock, 1, clock, t, work, drops2)
          <5> DEFINE none == 0
          <5>1. Pow!Untracked \in Nat \union {Pow!Untracked} /\ none \in Nat /\ none <= MaxPerWindow
            BY <1>2
          <5>2. Fits(Pow!Untracked, none, clock, t, work, drops2)
            BY <4>1
          <5> HIDE DEF none
          <5>3. QED
            BY <1>2, <2>1, <3>1, <5>1, <5>2, FitsSteps
        <4>3. w.start = clock /\ w.count = 0
          BY <3>7, <1>4
        <4>4. conns'[d].start = clock /\ conns'[d].count = 1
          BY <4>3, <3>3, <1>2
        <4>5. QED
          BY <4>2, <4>4, <2>3, <2>8, <1>1 DEF drops2
      <3>8. CASE table[c].start # Pow!Untracked /\ ~(clock - table[c].start >= PowWindow)
        <4>1. w = table[c]
          BY <3>8, <1>4
        <4>2. CASE w.count < MaxPerWindow
          <5>1. /\ Fits(w.start, w.count + 1, clock, t, work + more, drops2)
                /\ Fits(w.start, w.count + 1, clock, t, work, drops2)
            BY <4>1, <4>2, <1>2, <2>1, <3>1, <3>2, <3>5, <3>8, FitsSteps
          <5>2. QED
            BY <5>1, <4>2, <3>3, <2>3, <2>8, <1>1 DEF drops2
        <4>3. CASE ~(w.count < MaxPerWindow)
          BY <4>1, <4>3, <3>3, <3>4, <3>5, <2>3, <2>8, <1>1 DEF drops2
        <4>4. QED
          BY <4>2, <4>3
      <3>9. QED
        BY <3>6, <3>7, <3>8
    <2>9. QED
      BY <2>7, <2>8
  <1>14. WorkInv'
    BY <1>13 DEF WorkInv, Time
  <1>15. QED
    BY <1>11, <1>12, <1>14 DEF PowInv

\* What is pruned has no window left.
LEMMA PruneStep ==
    ASSUME Pow!PowAssumption, PowInv, Pow!Prune
    PROVE  PowInv'
  <1>1. /\ conns' = [c \in Conn |-> IF conns[c].start # Pow!Untracked /\ Pow!Pruned(conns[c])
                                    THEN [start |-> Pow!Untracked, count |-> 0] ELSE conns[c]]
        /\ clock' = clock /\ runs' = runs /\ cleared' = cleared
    BY DEF Pow!Prune, Pow!Empty
  <1>2. /\ clock \in Time /\ clock \in Nat /\ MaxPerWindow \in Nat
        /\ conns \in [Conn -> [start : Nat \union {Pow!Untracked}, count : Nat]]
        /\ \A d \in Conn : conns[d].count <= MaxPerWindow
        /\ runs \in [Conn -> [Time -> Nat]] /\ cleared \in [Time -> Nat]
    BY DEF PowInv, PowTypes, Time, Pow!PowAssumption
  <1>3. \A d \in Conn : \/ conns'[d] = conns[d]
                        \/ /\ conns[d].start # Pow!Untracked /\ clock - conns[d].start >= PowWindow
                           /\ conns'[d].start = Pow!Untracked /\ conns'[d].count = 0
    BY <1>1 DEF Pow!Pruned
  <1>4. PowTypes'
    <2>1. conns' \in [Conn -> [start : Nat \union {Pow!Untracked}, count : Nat]]
      BY <1>1, <1>2
    <2>2. \A d \in Conn : conns'[d].count <= MaxPerWindow
      BY <1>2, <1>3
    <2>3. QED
      BY <1>1, <1>2, <2>1, <2>2 DEF PowTypes, Time
  <1>5. TableInv'
    <2>1. Tracking' \subseteq Tracking
      BY <1>3 DEF Tracking
    <2>2. /\ IsFiniteSet(Tracking') /\ Cardinality(Tracking') <= Cardinality(Tracking)
          /\ Cardinality(Tracking') \in Nat /\ Cardinality(Tracking) \in Nat
      BY <2>1, FS_Subset, FS_CardinalityType DEF PowInv, TableInv
    <2>3. QED
      BY <2>2 DEF PowInv, TableInv, Pow!PowAssumption
  <1>6. ASSUME NEW d \in Conn, NEW t \in Time
        PROVE  Fits(conns'[d].start, conns'[d].count, clock', t, Work(d, t)', Drops(t)')
    <2>1. Work(d, t)' = Work(d, t) /\ Drops(t)' = Drops(t)
      BY <1>1 DEF Work, Drops, Pow!Stretch
    <2>2. Fits(conns[d].start, conns[d].count, clock, t, Work(d, t), Drops(t))
      BY DEF PowInv, WorkInv
    <2>3. t \in Nat /\ Drops(t) \in Nat /\ Work(d, t) \in Nat
      <3>1. runs[d] \in [Time -> Nat]
        BY <1>2
      <3>2. QED
        BY <1>2, <3>1, SumsAreNat DEF Drops, Work, Time
    <2>4. conns[d].start \in Nat \union {Pow!Untracked} /\ conns[d].count \in Nat /\ conns[d].count <= MaxPerWindow
      BY <1>2
    <2> HIDE DEF Work, Drops
    <2>5. CASE conns'[d] = conns[d]
      BY <2>5, <2>1, <2>2, <1>1
    <2>6. CASE /\ conns[d].start # Pow!Untracked /\ clock - conns[d].start >= PowWindow
               /\ conns'[d].start = Pow!Untracked /\ conns'[d].count = 0
      <3> DEFINE more == IF t <= clock /\ clock < t + PowWindow THEN 1 ELSE 0
      <3>1. more \in Nat
        OBVIOUS
      <3>2. Fits(Pow!Untracked, 0, clock, t, Work(d, t), Drops(t))
        BY <3>1, <1>2, <2>2, <2>3, <2>4, <2>6, FitsSteps
      <3>3. QED
        BY <3>2, <2>1, <2>6, <1>1
    <2>7. QED
      BY <2>5, <2>6, <1>3
  <1>7. WorkInv'
    BY <1>6 DEF WorkInv, Time
  <1>8. QED
    BY <1>4, <1>5, <1>7 DEF PowInv

LEMMA ClockStep ==
    ASSUME Pow!PowAssumption, PowInv, Pow!Tick
    PROVE  PowInv'
  <1>1. UNCHANGED <<conns, runs, cleared>> /\ clock' = clock + 1 /\ clock < PowNow
    BY DEF Pow!Tick
  <1>2. /\ clock \in Time /\ clock \in Nat /\ MaxPerWindow \in Nat
        /\ conns \in [Conn -> [start : Nat \union {Pow!Untracked}, count : Nat]]
        /\ \A d \in Conn : conns[d].count <= MaxPerWindow
        /\ runs \in [Conn -> [Time -> Nat]] /\ cleared \in [Time -> Nat]
    BY DEF PowInv, PowTypes, Time, Pow!PowAssumption
  <1>3. PowTypes'
    <2>1. clock' \in Time
      BY <1>1, <1>2 DEF Time, Pow!PowAssumption
    <2>2. QED
      BY <2>1, <1>1, <1>2 DEF PowTypes, Time
  <1>4. TableInv'
    BY <1>1 DEF PowInv, TableInv, Tracking
  <1>5. ASSUME NEW d \in Conn, NEW t \in Time
        PROVE  Fits(conns'[d].start, conns'[d].count, clock', t, Work(d, t)', Drops(t)')
    <2>1. Work(d, t)' = Work(d, t) /\ Drops(t)' = Drops(t)
      BY <1>1 DEF Work, Drops, Pow!Stretch
    <2>2. Fits(conns[d].start, conns[d].count, clock, t, Work(d, t), Drops(t))
      BY DEF PowInv, WorkInv
    <2>3. t \in Nat /\ Drops(t) \in Nat /\ Work(d, t) \in Nat
      <3>1. runs[d] \in [Time -> Nat]
        BY <1>2
      <3>2. QED
        BY <1>2, <3>1, SumsAreNat DEF Drops, Work, Time
    <2>4. conns[d].start \in Nat \union {Pow!Untracked} /\ conns[d].count \in Nat /\ conns[d].count <= MaxPerWindow
      BY <1>2
    <2> HIDE DEF Work, Drops
    <2> DEFINE more == IF t <= clock /\ clock < t + PowWindow THEN 1 ELSE 0
    <2>5. more \in Nat
      OBVIOUS
    <2>6. Fits(conns[d].start, conns[d].count, clock + 1, t, Work(d, t), Drops(t))
      BY <1>2, <2>2, <2>3, <2>4, <2>5, FitsSteps
    <2>7. QED
      BY <2>6, <2>1, <1>1
  <1>6. WorkInv'
    BY <1>5 DEF WorkInv, Time
  <1>7. QED
    BY <1>3, <1>4, <1>6 DEF PowInv

LEMMA PowStarts == ASSUME Pow!PowAssumption, Pow!Init PROVE PowInv
  <1>1. /\ conns = [c \in Conn |-> [start |-> Pow!Untracked, count |-> 0]] /\ clock = 0
        /\ runs = [c \in Conn |-> [t \in Time |-> 0]] /\ cleared = [t \in Time |-> 0]
        /\ PowNow \in Nat /\ MaxPerWindow \in Nat /\ MaxConns \in Nat
    BY DEF Pow!Init, Pow!Empty, Time, Pow!PowAssumption
  <1>2. PowTypes
    BY <1>1 DEF PowTypes, Time
  <1>3. TableInv
    <2>1. Tracking = {}
      BY <1>1 DEF Tracking
    <2>2. QED
      BY <1>1, <2>1, FS_EmptySet DEF TableInv
  <1>4. ASSUME NEW c \in Conn, NEW t \in Time
        PROVE  Fits(conns[c].start, conns[c].count, clock, t, Work(c, t), Drops(t))
    <2>1. IsFiniteSet(Pow!Stretch(t)) /\ Pow!Stretch(t) \subseteq Time
      BY StretchFinite
    <2>2. Work(c, t) = 0
      <3>1. \A u \in Pow!Stretch(t) : runs[c][u] = 0
        BY <1>1, <2>1
      <3>2. QED
        BY <2>1, <3>1, SumZero DEF Work
    <2>3. Drops(t) = 0
      <3>1. \A u \in Pow!Stretch(t) : cleared[u] = 0
        BY <1>1, <2>1
      <3>2. QED
        BY <2>1, <3>1, SumZero DEF Drops
    <2>4. Budgets(1 + 0) \in Nat /\ Budgets(2 + 0) = Budgets(1 + 0) + MaxPerWindow
      BY OneBudgetMore
    <2>5. conns[c].start = Pow!Untracked
      BY <1>1
    <2>6. QED
      BY <1>1, <2>2, <2>3, <2>4, <2>5 DEF Fits
  <1>5. WorkInv
    BY <1>4 DEF WorkInv
  <1>6. QED
    BY <1>2, <1>3, <1>5 DEF PowInv

\* In any stretch of one window allow() lets a connection cause at most two budgets of
\* memory-hard work and one more for each drop of the table, and the table stays in its
\* cap (pow.rs allow, prune), for every budget, window and cap.
THEOREM BudgetIsKept == ASSUME Pow!PowAssumption PROVE Pow!Spec => []Pow!BudgetHolds
  <1>1. Pow!Init => PowInv
    BY PowStarts
  <1>2. PowInv /\ [Pow!Next]_Pow!vars => PowInv'
    <2> SUFFICES ASSUME PowInv, [Pow!Next]_Pow!vars PROVE PowInv'
      OBVIOUS
    <2>1. CASE \E c \in Conn, cheap \in BOOLEAN : Pow!Check(c, cheap)
      BY <2>1, CheckStep
    <2>2. CASE Pow!Prune
      BY <2>2, PruneStep
    <2>3. CASE Pow!Tick
      BY <2>3, ClockStep
    <2>4. CASE UNCHANGED Pow!vars
      <3>1. UNCHANGED <<conns, clock, runs, cleared>>
        BY <2>4 DEF Pow!vars
      <3>2. PowTypes' /\ TableInv'
        BY <3>1 DEF PowInv, PowTypes, TableInv, Tracking
      <3>3. WorkInv'
        BY <3>1 DEF PowInv, WorkInv, Work, Drops, Pow!Stretch, Fits, Time
      <3>4. QED
        BY <3>2, <3>3 DEF PowInv
    <2>5. QED
      BY <2>1, <2>2, <2>3, <2>4 DEF Pow!Next
  <1>3. PowInv => Pow!BudgetHolds
    <2> SUFFICES ASSUME PowInv PROVE Pow!BudgetHolds
      OBVIOUS
    <2>1. Pow!TableBounded
      BY ConnSize DEF PowInv, TableInv, Tracking, Pow!TableBounded
    <2>2. ASSUME NEW c \in Conn, NEW t \in Time
          PROVE  Work(c, t) <= Budgets(2 + Drops(t))
      <3>1. /\ clock \in Nat /\ t \in Nat /\ PowWindow \in Nat
            /\ conns[c].start \in Nat \union {Pow!Untracked}
            /\ conns[c].count \in Nat /\ conns[c].count <= MaxPerWindow /\ MaxPerWindow \in Nat
        BY DEF PowInv, PowTypes, Time, Pow!PowAssumption
      <3>2. Work(c, t) \in Nat /\ Drops(t) \in Nat
        <4>1. runs[c] \in [Time -> Nat] /\ cleared \in [Time -> Nat]
          BY DEF PowInv, PowTypes
        <4>2. QED
          BY <4>1, SumsAreNat DEF Work, Drops
      <3>3. Fits(conns[c].start, conns[c].count, clock, t, Work(c, t), Drops(t))
        BY DEF PowInv, WorkInv
      <3> HIDE DEF Work, Drops
      <3>4. /\ Budgets(1 + Drops(t)) \in Nat /\ Budgets(2 + Drops(t)) = Budgets(1 + Drops(t)) + MaxPerWindow
            /\ MaxPerWindow <= Budgets(1 + Drops(t))
        BY <3>2, OneBudgetMore
      <3>5. QED
        BY <3>1, <3>2, <3>3, <3>4 DEF Fits
    <2>3. Pow!WorkBounded
      BY <2>2, SameSum DEF Pow!WorkBounded, Work, Drops, Budgets, Time
    <2>4. QED
      BY <2>1, <2>3 DEF Pow!BudgetHolds
  <1>4. QED
    BY <1>1, <1>2, <1>3, PTL DEF Pow!Spec

-----------------------------------------------------------------------------
(* The cell cache: what a connection holds is what it is charged.         *)

CONSTANTS
    Source, MsgId, Ladder, Lengths, Timeout, MaxMotes, MaxCells, MaxMotesPerConn, MaxCellsPerConn, CellNow
VARIABLES partials, usage, received, result

Cache == INSTANCE Reassembly WITH Conn <- Source, MaxNow <- CellNow, now <- received

\* A slot in use.
Slots ==
    [count : Nat, len : Lengths, cells : {s \in SUBSET Nat : IsFiniteSet(s)}, started : Nat, owner : Source]

\* The slots of the table p in use, and those charged to c.
InUse(p) == {m \in MsgId : p[m] # Cache!NoSlot}
Of(p, c) == {m \in MsgId : p[m].owner = c}

CacheTypes(p, u) ==
    /\ p \in [MsgId -> Slots \union {Cache!NoSlot}]
    /\ u \in [Source -> [motes : Nat, cells : Nat]]

Exact(p, u) ==
    \A c \in Source : /\ u[c].motes = Cardinality(Of(p, c))
                    /\ u[c].cells = SumFunctionOnSet(Cache!CellsHeld(p), Of(p, c))

Shares(u) == \A c \in Source : u[c].motes <= MaxMotesPerConn /\ u[c].cells <= MaxCellsPerConn

\* A cache between two steps of accept.
Sound(p, u) == CacheTypes(p, u) /\ Exact(p, u) /\ Shares(u)

\* No connection is charged more in u2 than in u.
NoMore(u, u2) == \A c \in Source : u2[c].motes <= u[c].motes /\ u2[c].cells <= u[c].cells

\* Apart from the slot of m and the count of o nothing changes.
OnlySlot(p, p2, m) == \A k \in MsgId \ {m} : p2[k] = p[k]
OnlyCount(u, u2, o) == \A c \in Source \ {o} : u2[c] = u[c]

\* What the cache can be, with any number of slots.
Caches ==
    {st \in [partials : [MsgId -> Slots \union {Cache!NoSlot}], usage : [Source -> [motes : Nat, cells : Nat]]] :
        Sound(st.partials, st.usage)}

Inside(st, all) == InUse(st.partials) \subseteq all

CacheInv == Sound(partials, usage) /\ Cardinality(InUse(partials)) <= MaxMotes /\ received \in Nat

-----------------------------------------------------------------------------
LEMMA CellSize == \A S : Cache!Cardinality(S) = Cardinality(S) /\ (Cache!IsFiniteSet(S) <=> IsFiniteSet(S))
  BY DEF Cache!Cardinality, Cardinality, Cache!IsFiniteSet, IsFiniteSet

LEMMA CellSum == ASSUME NEW f, NEW S PROVE Cache!SumFunctionOnSet(f, S) = SumFunctionOnSet(f, S)
  BY DEF SumFunctionOnSet, FoldFunctionOnSet, MapThenFoldSet,
         Cache!SumFunctionOnSet, Cache!FoldFunctionOnSet, Cache!MapThenFoldSet

\* What a table's slots and sums are.
LEMMA TableFacts ==
    ASSUME Cache!ReassemblyAssumption, NEW p, NEW u, CacheTypes(p, u)
    PROVE  /\ \A m \in MsgId : p[m] = Cache!NoSlot \/ p[m] \in Slots
           /\ \A m \in MsgId : p[m] # Cache!NoSlot => p[m].owner \in Source /\ IsFiniteSet(p[m].cells)
           /\ \A m \in MsgId : p[m] = Cache!NoSlot => p[m].owner \notin Source /\ p[m].cells = {}
           /\ \A c \in Source, m \in MsgId : m \in Of(p, c) <=> p[m] # Cache!NoSlot /\ p[m].owner = c
           /\ \A m \in MsgId : Cache!CellsHeld(p)[m] \in Nat /\ Cache!CellsHeld(p)[m] = Cardinality(p[m].cells)
           /\ IsFiniteSet(InUse(p)) /\ Cardinality(InUse(p)) \in Nat
           /\ \A c \in Source : /\ IsFiniteSet(Of(p, c)) /\ Of(p, c) \subseteq MsgId
                              /\ Cardinality(Of(p, c)) \in Nat
                              /\ Integral(Cache!CellsHeld(p), Of(p, c))
                              /\ SumFunctionOnSet(Cache!CellsHeld(p), Of(p, c)) \in Nat
  <1>1. IsFiniteSet(MsgId) /\ "none" \notin Source
    BY CellSize DEF Cache!ReassemblyAssumption
  <1>2. \A m \in MsgId : p[m] = Cache!NoSlot \/ p[m] \in Slots
    BY DEF CacheTypes
  <1>3. \A m \in MsgId : p[m] # Cache!NoSlot => p[m].owner \in Source /\ IsFiniteSet(p[m].cells)
    BY <1>2 DEF Slots
  <1>4. \A m \in MsgId : p[m] = Cache!NoSlot => p[m].owner \notin Source /\ p[m].cells = {}
    BY <1>1 DEF Cache!NoSlot
  <1>5. \A c \in Source, m \in MsgId : m \in Of(p, c) <=> p[m] # Cache!NoSlot /\ p[m].owner = c
    BY <1>4 DEF Of
  <1>6. \A m \in MsgId : Cache!CellsHeld(p)[m] \in Nat /\ Cache!CellsHeld(p)[m] = Cardinality(p[m].cells)
    <2> SUFFICES ASSUME NEW m \in MsgId PROVE Cache!CellsHeld(p)[m] \in Nat /\ Cache!CellsHeld(p)[m] = Cardinality(p[m].cells)
      OBVIOUS
    <2>1. IsFiniteSet(p[m].cells)
      BY <1>3, <1>4, FS_EmptySet
    <2>2. Cardinality(p[m].cells) \in Nat
      BY <2>1, FS_CardinalityType
    <2>3. QED
      BY <2>2, CellSize DEF Cache!CellsHeld
  <1>7. IsFiniteSet(InUse(p)) /\ Cardinality(InUse(p)) \in Nat
    <2>1. InUse(p) \subseteq MsgId
      BY DEF InUse
    <2>2. QED
      BY <1>1, <2>1, FS_Subset, FS_CardinalityType
  <1>8. ASSUME NEW c \in Source
        PROVE  /\ IsFiniteSet(Of(p, c)) /\ Of(p, c) \subseteq MsgId
               /\ Cardinality(Of(p, c)) \in Nat
               /\ Integral(Cache!CellsHeld(p), Of(p, c))
               /\ SumFunctionOnSet(Cache!CellsHeld(p), Of(p, c)) \in Nat
    <2>1. Of(p, c) \subseteq MsgId
      BY DEF Of
    <2>2. IsFiniteSet(Of(p, c)) /\ Cardinality(Of(p, c)) \in Nat
      BY <1>1, <2>1, FS_Subset, FS_CardinalityType
    <2>3. Integral(Cache!CellsHeld(p), Of(p, c))
      BY <1>6, <2>1 DEF Integral
    <2>4. SumFunctionOnSet(Cache!CellsHeld(p), Of(p, c)) \in Nat
      <3>1. \A m \in Of(p, c) : Cache!CellsHeld(p)[m] \in Nat
        BY <1>6, <2>1
      <3> DEFINE f == Cache!CellsHeld(p)
                 R == Of(p, c)
      <3>2. R \in SUBSET R /\ \A m \in R : f[m] \in Nat
        BY <3>1
      <3> HIDE DEF f, R
      <3>3. SumFunctionOnSet(f, R) \in Nat
        BY <2>2, <3>2, SumGrows DEF R
      <3>4. QED
        BY <3>3 DEF f, R
    <2>5. QED
      BY <2>1, <2>2, <2>3, <2>4
  <1>9. QED
    BY <1>2, <1>3, <1>4, <1>5, <1>6, <1>7, <1>8

\* A change of one slot leaves those alone who are not charged for it before or after.
LEMMA OthersStay ==
    ASSUME Cache!ReassemblyAssumption, NEW p, NEW u, CacheTypes(p, u), NEW p2, NEW u2, CacheTypes(p2, u2),
           NEW m \in MsgId, OnlySlot(p, p2, m), NEW c \in Source, m \notin Of(p, c), m \notin Of(p2, c)
    PROVE  /\ Of(p2, c) = Of(p, c)
           /\ SumFunctionOnSet(Cache!CellsHeld(p2), Of(p2, c)) = SumFunctionOnSet(Cache!CellsHeld(p), Of(p, c))
  <1>1. Of(p2, c) = Of(p, c)
    BY DEF Of, OnlySlot
  <1>2. \A k \in Of(p, c) : Cache!CellsHeld(p)[k] = Cache!CellsHeld(p2)[k]
    BY DEF Cache!CellsHeld, OnlySlot, Of
  <1>3. IsFiniteSet(Of(p, c)) /\ Integral(Cache!CellsHeld(p), Of(p, c))
    BY TableFacts
  <1> DEFINE f == Cache!CellsHeld(p)
             h == Cache!CellsHeld(p2)
             R == Of(p, c)
  <1>4. SumFunctionOnSet(f, R) = SumFunctionOnSet(h, R)
    <2>1. IsFiniteSet(R) /\ Integral(f, R) /\ \A k \in R : f[k] = h[k]
      BY <1>2, <1>3
    <2> HIDE DEF f, h, R
    <2>2. QED
      BY <2>1, SumSame
  <1>5. QED
    BY <1>1, <1>4

\* A slot goes, and its owner is credited.
Removed(p, p2, u, u2, m) ==
    /\ p2[m] = Cache!NoSlot /\ OnlySlot(p, p2, m)
    /\ OnlyCount(u, u2, p[m].owner)
    /\ u2[p[m].owner] = IF u[p[m].owner].motes = 1 THEN Cache!Unused
                        ELSE [motes |-> u[p[m].owner].motes - 1,
                              cells |-> u[p[m].owner].cells - Cardinality(p[m].cells)]

LEMMA RemovedSound ==
    ASSUME Cache!ReassemblyAssumption, NEW p, NEW u, Sound(p, u), NEW m \in MsgId, p[m] # Cache!NoSlot,
           NEW p2, NEW u2, p2 \in [MsgId -> Slots \union {Cache!NoSlot}], DOMAIN u2 = Source, u2 = [c \in Source |-> u2[c]],
           Removed(p, p2, u, u2, m)
    PROVE  /\ Sound(p2, u2) /\ NoMore(u, u2)
           /\ InUse(p2) = InUse(p) \ {m}
  <1> DEFINE o == p[m].owner
  <1>1. /\ CacheTypes(p, u) /\ Exact(p, u) /\ Shares(u)
        /\ OnlySlot(p, p2, m) /\ OnlyCount(u, u2, o) /\ p2[m] = Cache!NoSlot
    BY DEF Sound, Removed
  <1>2. o \in Source /\ m \in Of(p, o) /\ IsFiniteSet(Of(p, o))
    BY <1>1, TableFacts
  <1>3. /\ u[o].motes = Cardinality(Of(p, o)) /\ u[o].motes \in Nat
        /\ u[o].cells = SumFunctionOnSet(Cache!CellsHeld(p), Of(p, o)) /\ u[o].cells \in Nat
    BY <1>1, <1>2 DEF Exact, CacheTypes
  <1>4. Of(p2, o) = Of(p, o) \ {m}
    <2>1. p2[m].owner # o
      <3>1. Cache!NoSlot.owner = "none"
        BY DEF Cache!NoSlot
      <3>2. QED
        BY <3>1, <1>1, <1>2 DEF Cache!ReassemblyAssumption
    <2>2. \A k \in MsgId \ {m} : p2[k] = p[k]
      BY <1>1 DEF OnlySlot
    <2>3. \A k \in MsgId : p2[k].owner = o <=> (p[k].owner = o /\ k # m)
      BY <2>1, <2>2
    <2> HIDE DEF o
    <2>4. QED
      BY <2>3 DEF Of
  <1>5. Cardinality(Of(p2, o)) = u[o].motes - 1
    <2> DEFINE Q == Of(p, o)
    <2>1. IsFiniteSet(Q) /\ m \in Q
      BY <1>2
    <2> HIDE DEF Q
    <2>2. Cardinality(Q \ {m}) = Cardinality(Q) - 1
      BY <2>1, FS_RemoveElement
    <2>3. QED
      BY <2>2, <1>3, <1>4 DEF Q
  <1> DEFINE f == Cache!CellsHeld(p)
             h == Cache!CellsHeld(p2)
             R == Of(p, o)
             rest == SumFunctionOnSet(h, R \ {m})
  <1>6. /\ \A k \in R \ {m} : f[k] = h[k]
        /\ \A k \in R : f[k] \in Nat
        /\ Integral(f, R)
    <2>1. \A k \in R \ {m} : f[k] = h[k]
      BY <1>1 DEF Cache!CellsHeld, OnlySlot, Of
    <2>2. Integral(f, R) /\ \A k \in R : f[k] \in Nat
      BY <1>1, <1>2, TableFacts DEF Of
    <2>3. QED
      BY <2>1, <2>2
  <1>7. SumFunctionOnSet(f, R) = f[m] + rest /\ rest \in Nat /\ f[m] \in Nat
    <2>1. m \in R /\ IsFiniteSet(R) /\ IsFiniteSet(R \ {m}) /\ Integral(f, R \ {m})
      BY <1>2, <1>6, FS_RemoveElement DEF Integral
    <2> HIDE DEF f, h, R
    <2>2. SumFunctionOnSet(f, R) = f[m] + SumFunctionOnSet(f, R \ {m})
      BY <1>6, <2>1, SumWithout
    <2>3. SumFunctionOnSet(f, R \ {m}) = SumFunctionOnSet(h, R \ {m})
      BY <1>6, <2>1, SumSame
    <2>4. \A k \in R \ {m} : h[k] \in Nat
      BY <1>6
    <2>5. SumFunctionOnSet(h, R \ {m}) \in Nat
      <3> DEFINE Q == R \ {m}
      <3>1. Q \in SUBSET Q /\ IsFiniteSet(Q) /\ \A k \in Q : h[k] \in Nat
        BY <2>1, <2>4
      <3> HIDE DEF Q
      <3>2. SumFunctionOnSet(h, Q) \in Nat
        BY <3>1, SumGrows
      <3>3. QED
        BY <3>2 DEF Q
    <2>6. f[m] \in Nat
      BY <1>6, <2>1
    <2>7. QED
      BY <2>2, <2>3, <2>5, <2>6
  <1>8. f[m] = Cardinality(p[m].cells)
    BY <1>1, TableFacts
  <1>9. u2[o].motes = u[o].motes - 1 /\ u2[o].cells = rest
    <2>1. CASE u[o].motes = 1
      <3>1. R \ {m} = {}
        BY <1>2, <1>4, <1>5, <2>1, FS_RemoveElement, FS_EmptySet
      <3>2. rest = 0
        <4> HIDE DEF h, R
        <4>1. QED
          BY <3>1, SumEmpty
      <3> HIDE DEF rest
      <3>3. QED
        BY <2>1, <3>2 DEF Removed, Cache!Unused
    <2>2. CASE u[o].motes # 1
      <3> HIDE DEF rest, f
      <3>1. QED
        BY <1>3, <1>7, <1>8, <2>2 DEF Removed, f
    <2>3. QED
      BY <2>1, <2>2
  <1>10. u2[o].motes \in Nat /\ u2[o].cells \in Nat /\ u2[o] \in [motes : Nat, cells : Nat]
    <2>1. Cardinality(Of(p2, o)) \in Nat
      BY <1>2, <1>4, FS_RemoveElement, FS_CardinalityType
    <2>2. u2[o].motes \in Nat /\ u2[o].cells \in Nat
      <3> HIDE DEF rest
      <3>1. QED
        BY <1>5, <1>7, <1>9, <2>1
    <2>3. QED
      BY <2>2 DEF Removed, Cache!Unused
  <1>11. CacheTypes(p2, u2)
    BY <1>1, <1>10 DEF CacheTypes, OnlyCount
  <1>12. Exact(p2, u2)
    <2> SUFFICES ASSUME NEW c \in Source
                 PROVE  /\ u2[c].motes = Cardinality(Of(p2, c))
                        /\ u2[c].cells = SumFunctionOnSet(Cache!CellsHeld(p2), Of(p2, c))
      BY DEF Exact
    <2>1. CASE c = o
      BY <2>1, <1>4, <1>5, <1>9
    <2>2. CASE c # o
      <3>1. m \notin Of(p, c) /\ m \notin Of(p2, c)
        BY <1>1, <1>11, <2>2, TableFacts
      <3>2. /\ Of(p2, c) = Of(p, c)
            /\ SumFunctionOnSet(Cache!CellsHeld(p2), Of(p2, c)) = SumFunctionOnSet(Cache!CellsHeld(p), Of(p, c))
        BY <1>1, <1>11, <3>1, OthersStay
      <3>3. QED
        BY <1>1, <2>2, <3>2 DEF Exact, OnlyCount
    <2>3. QED
      BY <2>1, <2>2
  <1>13. NoMore(u, u2)
    <2> SUFFICES ASSUME NEW c \in Source PROVE u2[c].motes <= u[c].motes /\ u2[c].cells <= u[c].cells
      BY DEF NoMore
    <2>1. u[c].motes \in Nat /\ u[c].cells \in Nat
      BY <1>1 DEF CacheTypes
    <2>2. CASE c = o
      <3> HIDE DEF rest, f
      <3>1. QED
        BY <2>2, <1>3, <1>7, <1>9 DEF f
    <2>3. CASE c # o
      BY <2>1, <2>3, <1>1 DEF OnlyCount
    <2>4. QED
      BY <2>2, <2>3
  <1>14. Shares(u2)
    <2>1. \A c \in Source : /\ u[c].motes \in Nat /\ u[c].cells \in Nat
                          /\ u2[c].motes \in Nat /\ u2[c].cells \in Nat
      BY <1>1, <1>11 DEF CacheTypes
    <2>2. MaxMotesPerConn \in Nat /\ MaxCellsPerConn \in Nat
      BY DEF Cache!ReassemblyAssumption
    <2>3. QED
      BY <1>1, <1>13, <2>1, <2>2 DEF Shares, NoMore
  <1>15. InUse(p2) = InUse(p) \ {m}
    BY <1>1 DEF InUse, OnlySlot
  <1>16. QED
    BY <1>11, <1>12, <1>13, <1>14, <1>15 DEF Sound

-----------------------------------------------------------------------------
\* A slot opens, with no cells yet, for a connection with room for it.
Opened(p, p2, u, u2, m, c) ==
    /\ p2[m] \in Slots /\ p2[m].owner = c /\ p2[m].cells = {} /\ OnlySlot(p, p2, m)
    /\ OnlyCount(u, u2, c)
    /\ u2[c] = [motes |-> u[c].motes + 1, cells |-> u[c].cells]

LEMMA OpenedSound ==
    ASSUME Cache!ReassemblyAssumption, NEW p, NEW u, Sound(p, u), NEW m \in MsgId, p[m] = Cache!NoSlot,
           NEW o \in Source, u[o].motes < MaxMotesPerConn,
           NEW p2, NEW u2, p2 \in [MsgId -> Slots \union {Cache!NoSlot}], DOMAIN u2 = Source, u2 = [c \in Source |-> u2[c]],
           Opened(p, p2, u, u2, m, o)
    PROVE  Sound(p2, u2) /\ InUse(p2) = InUse(p) \union {m}
  <1>1. /\ CacheTypes(p, u) /\ Exact(p, u) /\ Shares(u)
        /\ OnlySlot(p, p2, m) /\ OnlyCount(u, u2, o)
        /\ p2[m] \in Slots /\ p2[m].owner = o /\ p2[m].cells = {}
        /\ u2[o].motes = u[o].motes + 1 /\ u2[o].cells = u[o].cells
    BY DEF Sound, Opened
  <1>2. m \notin Of(p, o) /\ IsFiniteSet(Of(p, o))
    BY <1>1, TableFacts
  <1>3. /\ u[o].motes = Cardinality(Of(p, o)) /\ u[o].motes \in Nat
        /\ u[o].cells = SumFunctionOnSet(Cache!CellsHeld(p), Of(p, o)) /\ u[o].cells \in Nat
    BY <1>1 DEF Exact, CacheTypes
  <1>4. CacheTypes(p2, u2)
    <2>1. u2[o] \in [motes : Nat, cells : Nat]
      BY <1>3 DEF Opened
    <2>2. QED
      BY <1>1, <2>1 DEF CacheTypes, OnlyCount
  <1>5. p2[m] # Cache!NoSlot
    <2>1. Cache!NoSlot.owner = "none" /\ "none" \notin Source
      BY DEF Cache!NoSlot, Cache!ReassemblyAssumption
    <2>2. QED
      BY <1>1, <2>1
  <1>6. Of(p2, o) = Of(p, o) \union {m}
    BY <1>1 DEF Of, OnlySlot
  <1>7. Cardinality(Of(p2, o)) = u[o].motes + 1
    BY <1>2, <1>3, <1>6, FS_AddElement, ZenonT(40)
  <1>8. SumFunctionOnSet(Cache!CellsHeld(p2), Of(p2, o)) = u[o].cells
    <2> DEFINE f == Cache!CellsHeld(p)
               h == Cache!CellsHeld(p2)
               R == Of(p, o)
    <2>1. Integral(f, R) /\ \A k \in R : f[k] = h[k]
      <3>1. Integral(f, R)
        BY <1>1, TableFacts
      <3>2. \A k \in R : f[k] = h[k]
        BY <1>1, <1>2 DEF Cache!CellsHeld, OnlySlot, Of
      <3>3. QED
        BY <3>1, <3>2
    <2>2. h[m] = 0
      BY <1>1, <1>4, TableFacts, FS_EmptySet
    <2>3. Integral(h, R \union {m})
      BY <2>1, <2>2 DEF Integral
    <2>4. m \notin R /\ IsFiniteSet(R)
      BY <1>2
    <2> HIDE DEF f, h, R
    <2>5. SumFunctionOnSet(h, R \union {m}) = h[m] + SumFunctionOnSet(h, R)
      BY <2>3, <2>4, SumWith
    <2>6. SumFunctionOnSet(f, R) = SumFunctionOnSet(h, R) /\ SumFunctionOnSet(f, R) \in Int
      BY <2>1, <2>4, SumSame, SumType
    <2>7. QED
      BY <2>2, <2>5, <2>6, <1>3, <1>6 DEF f, h, R
  <1>9. Exact(p2, u2)
    <2> SUFFICES ASSUME NEW c \in Source
                 PROVE  /\ u2[c].motes = Cardinality(Of(p2, c))
                        /\ u2[c].cells = SumFunctionOnSet(Cache!CellsHeld(p2), Of(p2, c))
      BY DEF Exact
    <2>1. CASE c = o
      BY <2>1, <1>1, <1>7, <1>8
    <2>2. CASE c # o
      <3>1. m \notin Of(p, c) /\ m \notin Of(p2, c)
        BY <1>1, <1>4, <2>2, TableFacts
      <3>2. /\ Of(p2, c) = Of(p, c)
            /\ SumFunctionOnSet(Cache!CellsHeld(p2), Of(p2, c)) = SumFunctionOnSet(Cache!CellsHeld(p), Of(p, c))
        BY <1>1, <1>4, <3>1, OthersStay
      <3>3. QED
        BY <1>1, <2>2, <3>2 DEF Exact, OnlyCount
    <2>3. QED
      BY <2>1, <2>2
  <1>10. Shares(u2)
    <2>1. MaxMotesPerConn \in Nat
      BY DEF Cache!ReassemblyAssumption
    <2>2. u2[o].motes <= MaxMotesPerConn /\ u2[o].cells <= MaxCellsPerConn
      BY <1>1, <1>3, <2>1 DEF Shares
    <2>3. QED
      BY <1>1, <2>2 DEF Shares, OnlyCount
  <1>11. InUse(p2) = InUse(p) \union {m}
    BY <1>1, <1>5 DEF InUse, OnlySlot
  <1>12. QED
    BY <1>4, <1>9, <1>10, <1>11 DEF Sound

\* A cell comes into a slot whose owner has room for it.
Grown(p, p2, u, u2, m, i) ==
    /\ p2[m] \in Slots /\ p2[m].owner = p[m].owner /\ p2[m].cells = p[m].cells \union {i}
    /\ OnlySlot(p, p2, m)
    /\ OnlyCount(u, u2, p[m].owner)
    /\ u2[p[m].owner] = [motes |-> u[p[m].owner].motes, cells |-> u[p[m].owner].cells + 1]

LEMMA GrownSound ==
    ASSUME Cache!ReassemblyAssumption, NEW p, NEW u, Sound(p, u), NEW m \in MsgId, p[m] # Cache!NoSlot,
           NEW i, i \notin p[m].cells, u[p[m].owner].cells < MaxCellsPerConn,
           NEW p2, NEW u2, p2 \in [MsgId -> Slots \union {Cache!NoSlot}], DOMAIN u2 = Source, u2 = [c \in Source |-> u2[c]],
           Grown(p, p2, u, u2, m, i)
    PROVE  Sound(p2, u2) /\ InUse(p2) = InUse(p)
  <1> DEFINE o == p[m].owner
  <1>1. /\ CacheTypes(p, u) /\ Exact(p, u) /\ Shares(u)
        /\ OnlySlot(p, p2, m) /\ OnlyCount(u, u2, o)
        /\ p2[m] \in Slots /\ p2[m].owner = o /\ p2[m].cells = p[m].cells \union {i}
        /\ u2[o].motes = u[o].motes /\ u2[o].cells = u[o].cells + 1
    BY DEF Sound, Grown
  <1>2. o \in Source /\ m \in Of(p, o) /\ IsFiniteSet(Of(p, o)) /\ IsFiniteSet(p[m].cells)
    BY <1>1, TableFacts
  <1>3. /\ u[o].motes = Cardinality(Of(p, o)) /\ u[o].motes \in Nat
        /\ u[o].cells = SumFunctionOnSet(Cache!CellsHeld(p), Of(p, o)) /\ u[o].cells \in Nat
    BY <1>1, <1>2 DEF Exact, CacheTypes
  <1>4. CacheTypes(p2, u2)
    <2>1. u2[o] \in [motes : Nat, cells : Nat]
      BY <1>3 DEF Grown
    <2>2. QED
      BY <1>1, <2>1 DEF CacheTypes, OnlyCount
  <1>5. p2[m] # Cache!NoSlot
    <2>1. Cache!NoSlot.owner = "none" /\ "none" \notin Source
      BY DEF Cache!NoSlot, Cache!ReassemblyAssumption
    <2> HIDE DEF o
    <2>2. QED
      BY <1>1, <1>2, <2>1
  <1>6. Of(p2, o) = Of(p, o)
    <2>1. \A k \in MsgId : p2[k].owner = p[k].owner
      BY <1>1 DEF OnlySlot
    <2> HIDE DEF o
    <2>2. QED
      BY <2>1 DEF Of
  <1>7. SumFunctionOnSet(Cache!CellsHeld(p2), Of(p2, o)) = u[o].cells + 1
    <2> DEFINE f == Cache!CellsHeld(p)
               h == Cache!CellsHeld(p2)
               R == Of(p, o)
    <2>1. Integral(f, R) /\ \A k \in R \ {m} : h[k] = f[k]
      <3>1. Integral(f, R)
        BY <1>1, <1>2, TableFacts
      <3>2. \A k \in R \ {m} : h[k] = f[k]
        BY <1>1, <1>2 DEF Cache!CellsHeld, OnlySlot, Of
      <3>3. QED
        BY <3>1, <3>2
    <2>2. h[m] = f[m] + 1 /\ f[m] \in Nat
      <3>1. h[m] = Cardinality(p2[m].cells)
        BY <1>4, TableFacts
      <3>2. f[m] = Cardinality(p[m].cells) /\ f[m] \in Nat
        BY <1>1, TableFacts
      <3>3. Cardinality(p[m].cells \union {i}) = Cardinality(p[m].cells) + 1
        BY <1>2, FS_AddElement
      <3> HIDE DEF f, h
      <3>4. QED
        BY <3>1, <3>2, <3>3, <1>1
    <2>3. m \in R /\ IsFiniteSet(R)
      BY <1>2
    <2> HIDE DEF f, h, R
    <2>4. h[m] \in Int
      BY <2>2
    <2>5. SumFunctionOnSet(h, R) = SumFunctionOnSet(f, R) + (h[m] - f[m])
      BY <2>1, <2>3, <2>4, SumChange
    <2>6. SumFunctionOnSet(h, R) = SumFunctionOnSet(f, R) + 1
      BY <2>2, <2>5
    <2>7. QED
      BY <2>6, <1>3, <1>6 DEF f, h, R
  <1>8. Exact(p2, u2)
    <2> SUFFICES ASSUME NEW c \in Source
                 PROVE  /\ u2[c].motes = Cardinality(Of(p2, c))
                        /\ u2[c].cells = SumFunctionOnSet(Cache!CellsHeld(p2), Of(p2, c))
      BY DEF Exact
    <2>1. CASE c = o
      BY <2>1, <1>1, <1>3, <1>6, <1>7
    <2>2. CASE c # o
      <3>1. m \notin Of(p, c) /\ m \notin Of(p2, c)
        BY <1>1, <1>4, <2>2, TableFacts
      <3>2. /\ Of(p2, c) = Of(p, c)
            /\ SumFunctionOnSet(Cache!CellsHeld(p2), Of(p2, c)) = SumFunctionOnSet(Cache!CellsHeld(p), Of(p, c))
        BY <1>1, <1>4, <3>1, OthersStay
      <3>3. QED
        BY <1>1, <2>2, <3>2 DEF Exact, OnlyCount
    <2>3. QED
      BY <2>1, <2>2
  <1>9. Shares(u2)
    <2>1. MaxCellsPerConn \in Nat
      BY DEF Cache!ReassemblyAssumption
    <2>2. u2[o].motes <= MaxMotesPerConn /\ u2[o].cells <= MaxCellsPerConn
      BY <1>1, <1>2, <1>3, <2>1 DEF Shares
    <2> HIDE DEF o
    <2>3. QED
      BY <1>1, <2>2 DEF Shares, OnlyCount
  <1>10. InUse(p2) = InUse(p)
    BY <1>1, <1>5 DEF InUse, OnlySlot
  <1>11. QED
    BY <1>4, <1>8, <1>9, <1>10 DEF Sound

-----------------------------------------------------------------------------
\* remove_partial.
LEMMA RemoveStep ==
    ASSUME Cache!ReassemblyAssumption, NEW st \in Caches, NEW m \in MsgId
    PROVE  /\ Cache!RemovePartial(st, m) \in Caches
           /\ NoMore(st.usage, Cache!RemovePartial(st, m).usage)
           /\ InUse(Cache!RemovePartial(st, m).partials) = InUse(st.partials) \ {m}
  <1> DEFINE p == st.partials
             u == st.usage
             o == p[m].owner
             after == Cache!RemovePartial(st, m)
  <1>1. Sound(p, u) /\ CacheTypes(p, u)
    BY DEF Caches, Sound
  <1>2. CASE p[m] = Cache!NoSlot
    <2>1. after = st
      BY <1>2 DEF Cache!RemovePartial
    <2>2. \A c \in Source : u[c].motes \in Nat /\ u[c].cells \in Nat
      BY <1>1 DEF CacheTypes
    <2>3. NoMore(u, u)
      BY <2>2 DEF NoMore
    <2>4. InUse(p) = InUse(p) \ {m}
      BY <1>2 DEF InUse
    <2>5. QED
      BY <2>1, <2>3, <2>4
  <1>3. CASE p[m] # Cache!NoSlot
    <2> DEFINE p2 == [p EXCEPT ![m] = Cache!NoSlot]
               left == IF u[o].motes = 1 THEN Cache!Unused
                       ELSE [motes |-> u[o].motes - 1, cells |-> u[o].cells - Cardinality(p[m].cells)]
               u2 == [u EXCEPT ![o] = left]
    <2>1. after = [partials |-> p2, usage |-> u2]
      BY <1>3, CellSize DEF Cache!RemovePartial
    <2>2. o \in Source /\ p \in [MsgId -> Slots \union {Cache!NoSlot}] /\ u \in [Source -> [motes : Nat, cells : Nat]]
      BY <1>1, <1>3, TableFacts DEF CacheTypes
    <2>3. /\ p2 \in [MsgId -> Slots \union {Cache!NoSlot}] /\ p2[m] = Cache!NoSlot /\ OnlySlot(p, p2, m)
      BY <2>2 DEF OnlySlot
    <2>4. /\ DOMAIN u2 = Source /\ u2 = [c \in Source |-> u2[c]] /\ OnlyCount(u, u2, o) /\ u2[o] = left
      <3> HIDE DEF left, o
      <3>1. QED
        BY <2>2 DEF OnlyCount
    <2>5. Removed(p, p2, u, u2, m)
      <3> HIDE DEF p2, u2
      <3>1. QED
        BY <2>3, <2>4 DEF Removed
    <2> HIDE DEF p2, u2
    <2>6. Sound(p2, u2) /\ NoMore(u, u2) /\ InUse(p2) = InUse(p) \ {m}
      BY <1>1, <1>3, <2>3, <2>4, <2>5, RemovedSound
    <2>7. after \in Caches
      BY <2>1, <2>6 DEF Caches, Sound, CacheTypes
    <2>8. QED
      BY <2>1, <2>6, <2>7
  <1>4. QED
    BY <1>2, <1>3

\* A slot for a cell of a MOTE that has none.
LEMMA OpenStep ==
    ASSUME Cache!ReassemblyAssumption, NEW st \in Caches, NEW conn \in Source, NEW cell \in Cache!Cells,
           st.partials[cell.id] = Cache!NoSlot, st.usage[conn].motes < MaxMotesPerConn, received \in Nat
    PROVE  /\ Cache!WithSlot(st, conn, cell) \in Caches
           /\ InUse(Cache!WithSlot(st, conn, cell).partials) = InUse(st.partials) \union {cell.id}
           /\ Cache!WithSlot(st, conn, cell).partials[cell.id] = Cache!Slot(conn, cell)
           /\ Cache!WithSlot(st, conn, cell).usage[conn].cells = st.usage[conn].cells
  <1> DEFINE p == st.partials
             u == st.usage
             m == cell.id
             more == [u[conn] EXCEPT !.motes = @ + 1]
             p2 == [p EXCEPT ![m] = Cache!Slot(conn, cell)]
             u2 == [u EXCEPT ![conn] = more]
             after == Cache!WithSlot(st, conn, cell)
  <1>1. /\ Sound(p, u) /\ m \in MsgId
        /\ p \in [MsgId -> Slots \union {Cache!NoSlot}] /\ u \in [Source -> [motes : Nat, cells : Nat]]
    BY DEF Caches, Cache!Cells
  <1>2. after = [partials |-> p2, usage |-> u2]
    BY DEF Cache!WithSlot
  <1>3. Cache!Slot(conn, cell) \in Slots /\ Cache!Slot(conn, cell).owner = conn /\ Cache!Slot(conn, cell).cells = {}
    <2>1. cell.count \in Nat /\ cell.len \in Lengths
      BY DEF Cache!Cells, Cache!ReassemblyAssumption
    <2>2. QED
      BY <2>1, FS_EmptySet DEF Cache!Slot, Slots
  <1>4. /\ p2 \in [MsgId -> Slots \union {Cache!NoSlot}] /\ p2[m] = Cache!Slot(conn, cell) /\ OnlySlot(p, p2, m)
    <2> HIDE DEF m
    <2>1. QED
      BY <1>1, <1>3 DEF OnlySlot
  <1>5. more = [motes |-> u[conn].motes + 1, cells |-> u[conn].cells]
    BY <1>1
  <1>6. /\ DOMAIN u2 = Source /\ u2 = [c \in Source |-> u2[c]] /\ OnlyCount(u, u2, conn) /\ u2[conn] = more
    <2> HIDE DEF more
    <2>1. QED
      BY <1>1 DEF OnlyCount
  <1> HIDE DEF p2, u2, more, m
  <1>7. Opened(p, p2, u, u2, m, conn)
    BY <1>3, <1>4, <1>5, <1>6 DEF Opened
  <1>8. p[m] = Cache!NoSlot
    BY DEF m
  <1>9. Sound(p2, u2) /\ InUse(p2) = InUse(p) \union {m}
    BY <1>1, <1>4, <1>6, <1>7, <1>8, OpenedSound
  <1>10. after \in Caches
    BY <1>2, <1>9 DEF Caches, Sound, CacheTypes
  <1>11. u2[conn].cells = u[conn].cells
    BY <1>5, <1>6
  <1>12. QED
    BY <1>2, <1>4, <1>9, <1>10, <1>11 DEF m

\* A cell comes in.
LEMMA ChargeStep ==
    ASSUME Cache!ReassemblyAssumption, NEW st \in Caches, NEW conn \in Source, NEW cell \in Cache!Cells,
           st.partials[cell.id] # Cache!NoSlot,
           \/ cell.index \in st.partials[cell.id].cells
           \/ st.usage[st.partials[cell.id].owner].cells < MaxCellsPerConn
    PROVE  /\ Cache!Charged(st, conn, cell) \in Caches
           /\ InUse(Cache!Charged(st, conn, cell).partials) = InUse(st.partials)
  <1> DEFINE p == st.partials
             u == st.usage
             m == cell.id
             i == cell.index
             o == p[m].owner
             p2 == [p EXCEPT ![m].cells = @ \union {i}]
             u2 == [u EXCEPT ![o].cells = @ + 1]
             after == Cache!Charged(st, conn, cell)
  <1>1. /\ Sound(p, u) /\ CacheTypes(p, u) /\ m \in MsgId /\ i \in Nat
        /\ p \in [MsgId -> Slots \union {Cache!NoSlot}] /\ u \in [Source -> [motes : Nat, cells : Nat]]
    <2>1. m \in MsgId /\ i \in Nat
      BY DEF Cache!Cells, Cache!ReassemblyAssumption
    <2>2. QED
      BY <2>1 DEF Caches, Sound
  <1>2. p[m] \in Slots /\ o \in Source
    BY <1>1, TableFacts
  <1>3. CASE i \in p[m].cells
    <2>1. p2 = p
      <3>1. p[m].cells \union {i} = p[m].cells
        BY <1>3
      <3>2. [p[m] EXCEPT !.cells = @ \union {i}] = p[m]
        BY <1>2, <3>1 DEF Slots
      <3> HIDE DEF m, i
      <3>3. QED
        BY <1>1, <3>2
    <2>2. after = [partials |-> p2, usage |-> u]
      BY <1>3 DEF Cache!Charged
    <2>3. after = [partials |-> p, usage |-> u]
      BY <2>1, <2>2
    <2>4. after \in Caches
      BY <1>1, <2>3 DEF Caches
    <2>5. QED
      BY <2>3, <2>4
  <1>4. CASE i \notin p[m].cells
    <2>1. after = [partials |-> p2, usage |-> u2]
      BY <1>4 DEF Cache!Charged
    <2> DEFINE slot == [p[m] EXCEPT !.cells = @ \union {i}]
               count == [u[o] EXCEPT !.cells = @ + 1]
    <2>2. slot \in Slots /\ slot.owner = o /\ slot.cells = p[m].cells \union {i}
      <3>1. IsFiniteSet(p[m].cells \union {i})
        BY <1>2, FS_AddElement, SMTT(30) DEF Slots
      <3>2. QED
        BY <1>1, <1>2, <3>1 DEF Slots
    <2>3. count = [motes |-> u[o].motes, cells |-> u[o].cells + 1]
      <3>1. u[o] \in [motes : Nat, cells : Nat]
        BY <1>1, <1>2
      <3> HIDE DEF u, o
      <3>2. QED
        BY <3>1
    <2>4. /\ p2 \in [MsgId -> Slots \union {Cache!NoSlot}] /\ p2[m] = slot /\ OnlySlot(p, p2, m)
      <3>1. p2 = [p EXCEPT ![m] = slot]
        BY <1>1
      <3> HIDE DEF p2, slot, m
      <3>2. QED
        BY <1>1, <2>2, <3>1 DEF OnlySlot
    <2>5. /\ DOMAIN u2 = Source /\ u2 = [c \in Source |-> u2[c]] /\ OnlyCount(u, u2, o) /\ u2[o] = count
      <3>1. u2 = [u EXCEPT ![o] = count]
        BY <1>1, SMTT(30)
      <3> HIDE DEF u2, count, o
      <3>2. QED
        BY <1>1, <1>2, <3>1 DEF OnlyCount
    <2> HIDE DEF p2, u2, slot, count
    <2>6. Grown(p, p2, u, u2, m, i)
      BY <2>2, <2>3, <2>4, <2>5 DEF Grown
    <2>7. p[m] # Cache!NoSlot /\ u[p[m].owner].cells < MaxCellsPerConn
      BY <1>4
    <2> HIDE DEF m, i
    <2>8. Sound(p2, u2) /\ InUse(p2) = InUse(p)
      BY <1>1, <1>4, <2>4, <2>5, <2>6, <2>7, GrownSound, SMTT(30)
    <2>9. after \in Caches
      BY <2>1, <2>8 DEF Caches, Sound, CacheTypes
    <2>10. QED
      BY <2>1, <2>8, <2>9
  <1>5. QED
    BY <1>3, <1>4

\* prune(): whichever slots timed out, in whatever order they are met.
LEMMA TimeoutStep ==
    ASSUME Cache!ReassemblyAssumption, NEW st \in Caches
    PROVE  Cache!Pruned(st) \in Caches /\ Inside(Cache!Pruned(st), InUse(st.partials))
  <1> DEFINE S == {m \in Cache!Open(st) : received - st.partials[m].started >= Timeout}
             Y == {y \in Caches : Inside(y, InUse(st.partials))}
             op == [z \in S \X Y |-> Cache!RemovePartial(z[2], z[1])]
             Step(h, s) == IF s = {} THEN st ELSE Cache!RemovePartial(h[s \ {AnyOf(s)}], AnyOf(s))
             g == CHOOSE h : h = [s \in SUBSET S |-> Step(h, s)]
  <1>1. S \subseteq MsgId /\ IsFiniteSet(S)
    <2>1. S \subseteq MsgId
      BY DEF Cache!Open
    <2> HIDE DEF S
    <2>2. QED
      BY <2>1, FS_Subset, CellSize DEF Cache!ReassemblyAssumption
  <1>2. \A x \in S, y \in Y : Cache!RemovePartial(y, x) \in Y
    <2> SUFFICES ASSUME NEW x \in S, NEW y \in Y PROVE Cache!RemovePartial(y, x) \in Y
      OBVIOUS
    <2>1. x \in MsgId /\ y \in Caches /\ InUse(y.partials) \subseteq InUse(st.partials)
      BY <1>1 DEF Inside
    <2>2. /\ Cache!RemovePartial(y, x) \in Caches
          /\ InUse(Cache!RemovePartial(y, x).partials) = InUse(y.partials) \ {x}
      BY <2>1, RemoveStep
    <2>3. QED
      BY <2>1, <2>2 DEF Inside
  <1>3. op \in [S \X Y -> Y]
    <2> HIDE DEF S, Y
    <2>1. QED
      BY <1>2
  <1>4. st \in Y
    BY DEF Inside
  <1>5. \A s \in SUBSET S : s # {} => AnyOf(s) \in s /\ AnyOf(s) \in S
    <2> HIDE DEF S
    <2>1. QED
      BY DEF AnyOf
  <1>6. \E h : h = [s \in SUBSET S |-> Step(h, s)]
    <2>1. PICK h \in [SUBSET S -> Y] : Folded(h, op, st, SUBSET S)
      <3> HIDE DEF S, Y, op
      <3>1. QED
        BY <1>1, <1>3, <1>4, FoldExists
    <2>2. h = [s \in SUBSET S |-> IF s = {} THEN st ELSE op[<<AnyOf(s), h[s \ {AnyOf(s)}]>>]]
      BY <2>1 DEF Folded
    <2>3. ASSUME NEW s \in SUBSET S, s # {}
          PROVE  op[<<AnyOf(s), h[s \ {AnyOf(s)}]>>] = Cache!RemovePartial(h[s \ {AnyOf(s)}], AnyOf(s))
      <3>1. AnyOf(s) \in S /\ h[s \ {AnyOf(s)}] \in Y
        <4> HIDE DEF S, Y, op
        <4>1. QED
          BY <1>5, <2>1, <2>3
      <3> HIDE DEF S, Y
      <3>2. QED
        BY <3>1
    <2>4. \A s \in SUBSET S : (IF s = {} THEN st ELSE op[<<AnyOf(s), h[s \ {AnyOf(s)}]>>]) = Step(h, s)
      <3> HIDE DEF op
      <3>1. QED
        BY <2>3
    <2>5. h = [s \in SUBSET S |-> Step(h, s)]
      <3> HIDE DEF S, op, Step
      <3>1. QED
        BY <2>2, <2>4
    <2>6. QED
      BY <2>5
  <1>7. g = [s \in SUBSET S |-> Step(g, s)]
    <2> HIDE DEF S, Step
    <2>1. QED
      BY <1>6
  <1>8. Cache!Pruned(st) = g[S]
    BY DEF Cache!Pruned, Cache!FoldSet, Cache!MapThenFoldSet, AnyOf
  <1> HIDE DEF g
  <1>9. g[S] \in Y
    <2> DEFINE G == {T \in SUBSET S : g[T] \in Y}
    <2>1. {} \in G
      BY <1>4, <1>7
    <2>2. ASSUME NEW T \in SUBSET S, T # {}, \A x \in T : T \ {x} \in G PROVE T \in G
      <3>1. AnyOf(T) \in T /\ AnyOf(T) \in S
        BY <1>5, <2>2
      <3>2. g[T \ {AnyOf(T)}] \in Y
        <4> HIDE DEF S, Y
        <4>1. QED
          BY <2>2, <3>1
      <3>3. g[T] = Cache!RemovePartial(g[T \ {AnyOf(T)}], AnyOf(T))
        <4> HIDE DEF S
        <4>1. QED
          BY <1>7, <2>2
      <3> HIDE DEF S, Y
      <3>4. QED
        BY <1>2, <3>1, <3>2, <3>3
    <2> HIDE DEF G, S
    <2>3. S \in G
      BY <1>1, <2>1, <2>2, SubsetInduction
    <2>4. QED
      BY <2>3 DEF G
  <1>10. QED
    BY <1>8, <1>9

-----------------------------------------------------------------------------
\* The table with at most so many slots.
Bounded(st) == st \in Caches /\ Cardinality(InUse(st.partials)) <= MaxMotes

LEMMA FewerSlots ==
    ASSUME Cache!ReassemblyAssumption, NEW st \in Caches, NEW st2 \in Caches, Inside(st2, InUse(st.partials))
    PROVE  /\ Cardinality(InUse(st2.partials)) \in Nat /\ Cardinality(InUse(st.partials)) \in Nat
           /\ IsFiniteSet(InUse(st.partials)) /\ IsFiniteSet(InUse(st2.partials))
           /\ Cardinality(InUse(st2.partials)) <= Cardinality(InUse(st.partials))
  <1>1. CacheTypes(st.partials, st.usage) /\ CacheTypes(st2.partials, st2.usage)
    BY DEF Caches, Sound
  <1>2. IsFiniteSet(InUse(st.partials)) /\ IsFiniteSet(InUse(st2.partials))
    BY <1>1, TableFacts
  <1>3. QED
    BY <1>2, FS_Subset, FS_CardinalityType DEF Inside

\* A cell is stored, and the slot goes when it was the last one missing.
LEMMA StoreStep ==
    ASSUME Cache!ReassemblyAssumption, NEW st \in Caches, NEW conn \in Source, NEW cell \in Cache!Cells, received \in Nat,
           \/ st.partials[cell.id] # Cache!NoSlot /\ Cache!FitsSlot(st, cell) /\ Bounded(st)
           \/ /\ st.partials[cell.id] = Cache!NoSlot /\ Cache!MayOpen(st, conn)
              /\ Cardinality(InUse(st.partials)) < MaxMotes,
           Cache!Store(st, conn, cell)
    PROVE  CacheInv'
  <1> DEFINE open == Cache!WithSlot(st, conn, cell)
             held == Cache!Charged(open, conn, cell)
  <1>1. cell.id \in MsgId
    BY DEF Cache!Cells
  <1>2. MaxMotes \in Nat
    BY DEF Cache!ReassemblyAssumption
  <1>3. Bounded(open) /\ open.partials[cell.id] # Cache!NoSlot
        /\ (\/ cell.index \in open.partials[cell.id].cells
            \/ open.usage[open.partials[cell.id].owner].cells < MaxCellsPerConn)
    <2>1. CASE st.partials[cell.id] # Cache!NoSlot /\ Cache!FitsSlot(st, cell) /\ Bounded(st)
      <3>1. open = st
        BY <2>1 DEF Cache!WithSlot
      <3>2. QED
        BY <2>1, <3>1 DEF Cache!FitsSlot
    <2>2. CASE st.partials[cell.id] = Cache!NoSlot /\ Cache!MayOpen(st, conn) /\ Cardinality(InUse(st.partials)) < MaxMotes
      <3>1. /\ st.usage[conn].motes < MaxMotesPerConn /\ st.usage[conn].cells < MaxCellsPerConn
        BY <2>2 DEF Cache!MayOpen
      <3>2. /\ open \in Caches /\ InUse(open.partials) = InUse(st.partials) \union {cell.id}
            /\ open.partials[cell.id] = Cache!Slot(conn, cell)
            /\ open.usage[conn].cells = st.usage[conn].cells
        BY <2>2, <3>1, OpenStep
      <3>3. cell.id \notin InUse(st.partials) /\ cell.id \in InUse(open.partials)
        BY <2>2, <3>2 DEF InUse
      <3>4. IsFiniteSet(InUse(st.partials)) /\ Cardinality(InUse(st.partials)) \in Nat
        BY FewerSlots DEF Inside
      <3>5. Cardinality(InUse(open.partials)) = Cardinality(InUse(st.partials)) + 1
        BY <3>2, <3>3, <3>4, FS_AddElement
      <3>6. Bounded(open)
        BY <1>2, <2>2, <3>2, <3>4, <3>5 DEF Bounded
      <3>7. open.partials[cell.id] # Cache!NoSlot
        BY <3>3 DEF InUse
      <3>8. open.partials[cell.id].owner = conn
        BY <3>2 DEF Cache!Slot
      <3>9. QED
        BY <3>1, <3>2, <3>6, <3>7, <3>8
    <2>3. QED
      BY <2>1, <2>2
  <1>4. open \in Caches
    BY <1>3 DEF Bounded
  <1> HIDE DEF open
  <1>5. held \in Caches /\ InUse(held.partials) = InUse(open.partials)
    BY <1>3, <1>4, ChargeStep
  <1>6. Cache!Store(st, conn, cell) <=>
          IF Cardinality(held.partials[cell.id].cells) = held.partials[cell.id].count
          THEN Cache!Becomes(Cache!RemovePartial(held, cell.id), "complete", held.partials[cell.id].cells)
          ELSE Cache!Becomes(held, "pending", {})
    BY CellSize DEF Cache!Store, open
  <1> HIDE DEF held
  <1>7. /\ Cache!RemovePartial(held, cell.id) \in Caches
        /\ InUse(Cache!RemovePartial(held, cell.id).partials) = InUse(held.partials) \ {cell.id}
    BY <1>1, <1>5, RemoveStep
  <1>8. \E st2 \in Caches : /\ Inside(st2, InUse(held.partials))
                            /\ partials' = st2.partials /\ usage' = st2.usage /\ received' = received
    <2>1. Inside(held, InUse(held.partials)) /\ Inside(Cache!RemovePartial(held, cell.id), InUse(held.partials))
      BY <1>7 DEF Inside
    <2>2. QED
      BY <1>5, <1>6, <1>7, <2>1 DEF Cache!Becomes
  <1>9. PICK st2 \in Caches : /\ Inside(st2, InUse(held.partials))
                              /\ partials' = st2.partials /\ usage' = st2.usage /\ received' = received
    BY <1>8
  <1>10. /\ Cardinality(InUse(st2.partials)) \in Nat /\ Cardinality(InUse(held.partials)) \in Nat
         /\ Cardinality(InUse(st2.partials)) <= Cardinality(InUse(held.partials))
    BY <1>5, <1>9, FewerSlots
  <1>11. Cardinality(InUse(held.partials)) <= MaxMotes
    BY <1>3, <1>5 DEF Bounded
  <1>12. Sound(st2.partials, st2.usage)
    BY DEF Caches
  <1>13. QED
    BY <1>2, <1>9, <1>10, <1>11, <1>12 DEF CacheInv, Sound, CacheTypes, Exact, Shares, InUse, Of, Cache!CellsHeld, Cache!NoSlot, Slots

\* What an answer leaves behind.
LEMMA CacheSettles ==
    ASSUME Cache!ReassemblyAssumption, received \in Nat, NEW st, Bounded(st),
           partials' = st.partials, usage' = st.usage, received' = received
    PROVE  CacheInv'
  <1>1. Sound(st.partials, st.usage) /\ Cardinality(InUse(st.partials)) <= MaxMotes
    BY DEF Bounded, Caches
  <1>2. QED
    BY <1>1 DEF CacheInv, Sound, CacheTypes, Exact, Shares, InUse, Of, Cache!CellsHeld, Cache!NoSlot, Slots

\* accept() of any cell, well formed or not.
LEMMA CellStep ==
    ASSUME Cache!ReassemblyAssumption, CacheInv, [Cache!Next]_Cache!vars
    PROVE  CacheInv'
  <1> DEFINE here == [partials |-> partials, usage |-> usage]
             st == Cache!Pruned(here)
  <1>1. here \in Caches /\ Bounded(here) /\ received \in Nat /\ MaxMotes \in Nat /\ MaxMotes > 0
    BY DEF CacheInv, Caches, Bounded, Sound, CacheTypes, Cache!ReassemblyAssumption
  <1>2. st \in Caches /\ Bounded(st)
    <2> HIDE DEF here
    <2>1. st \in Caches /\ Inside(st, InUse(here.partials))
      BY <1>1, TimeoutStep
    <2>2. /\ Cardinality(InUse(st.partials)) \in Nat /\ Cardinality(InUse(here.partials)) \in Nat
          /\ Cardinality(InUse(st.partials)) <= Cardinality(InUse(here.partials))
      BY <1>1, <2>1, FewerSlots
    <2>3. Cardinality(InUse(here.partials)) <= MaxMotes
      BY <1>1 DEF Bounded
    <2>4. QED
      BY <1>1, <2>1, <2>2, <2>3 DEF Bounded
  <1>3. ASSUME NEW m \in MsgId
        PROVE  /\ Cache!RemovePartial(st, m) \in Caches /\ Bounded(Cache!RemovePartial(st, m))
               /\ NoMore(st.usage, Cache!RemovePartial(st, m).usage)
               /\ m \in InUse(st.partials) => Cardinality(InUse(Cache!RemovePartial(st, m).partials)) < MaxMotes
               /\ InUse(Cache!RemovePartial(st, m).partials) = InUse(st.partials) \ {m}
    <2> HIDE DEF st
    <2> DEFINE gone == Cache!RemovePartial(st, m)
               R == InUse(st.partials)
    <2>1. gone \in Caches /\ NoMore(st.usage, gone.usage) /\ InUse(gone.partials) = R \ {m}
      BY <1>2, RemoveStep
    <2> HIDE DEF gone
    <2>2. Inside(gone, R)
      BY <2>1 DEF Inside
    <2>3. /\ IsFiniteSet(R) /\ Cardinality(R) \in Nat /\ Cardinality(InUse(gone.partials)) \in Nat
          /\ Cardinality(InUse(gone.partials)) <= Cardinality(R)
      BY <1>2, <2>1, <2>2, FewerSlots
    <2>4. Cardinality(R) <= MaxMotes
      BY <1>2 DEF Bounded
    <2> HIDE DEF R
    <2>5. m \in R => Cardinality(R \ {m}) = Cardinality(R) - 1
      BY <2>3, FS_RemoveElement
    <2>6. QED
      BY <1>1, <2>1, <2>3, <2>4, <2>5 DEF Bounded, gone, R
  <1>4. ASSUME NEW conn \in Source, NEW cell \in Cache!Cells, Cache!AcceptHeld(conn, cell) PROVE CacheInv'
    <2>1. st.partials[cell.id] # Cache!NoSlot /\ IF Cache!FitsSlot(st, cell) THEN Cache!Store(st, conn, cell)
                                           ELSE Cache!Becomes(st, "rejected", {})
      BY <1>4 DEF Cache!AcceptHeld
    <2> HIDE DEF st
    <2>2. CASE Cache!FitsSlot(st, cell)
      BY <1>1, <1>2, <2>1, <2>2, StoreStep
    <2>3. CASE ~Cache!FitsSlot(st, cell)
      BY <1>1, <1>2, <2>1, <2>3, CacheSettles DEF Cache!Becomes
    <2>4. QED
      BY <2>2, <2>3
  <1>5. ASSUME NEW conn \in Source, NEW cell \in Cache!Cells, Cache!AcceptNew(conn, cell) PROVE CacheInv'
    <2> DEFINE rooms == IF Cardinality(Cache!Open(st)) >= MaxMotes
                        THEN {Cache!RemovePartial(st, m) : m \in Cache!Oldest(st)} ELSE {st}
    <2>1. /\ st.partials[cell.id] = Cache!NoSlot
          /\ ~Cache!MayOpen(st, conn) => Cache!Becomes(st, "rejected", {})
          /\ Cache!MayOpen(st, conn) => \E room \in rooms :
                IF Cache!TotalCells(room) >= MaxCells THEN Cache!Becomes(room, "rejected", {})
                ELSE Cache!Store(room, conn, cell)
      BY <1>5, CellSize DEF Cache!AcceptNew
    <2>2. cell.id \in MsgId
      BY DEF Cache!Cells
    <2>3. Cache!Open(st) = InUse(st.partials)
      BY DEF Cache!Open, InUse
    <2> HIDE DEF st
    <2>4. CASE ~Cache!MayOpen(st, conn)
      BY <1>1, <1>2, <2>1, <2>4, CacheSettles DEF Cache!Becomes
    <2>5. CASE Cache!MayOpen(st, conn)
      <3>1. PICK room \in rooms : IF Cache!TotalCells(room) >= MaxCells THEN Cache!Becomes(room, "rejected", {})
                                  ELSE Cache!Store(room, conn, cell)
        BY <2>1, <2>5
      <3>2. /\ room \in Caches /\ Bounded(room) /\ room.partials[cell.id] = Cache!NoSlot /\ Cache!MayOpen(room, conn)
            /\ Cardinality(InUse(room.partials)) < MaxMotes
        <4>1. CASE Cardinality(Cache!Open(st)) >= MaxMotes
          <5>1. PICK m \in Cache!Oldest(st) : room = Cache!RemovePartial(st, m)
            BY <3>1, <4>1
          <5>2. m \in MsgId /\ m \in InUse(st.partials)
            BY <2>3 DEF Cache!Oldest, InUse
          <5>3. /\ room \in Caches /\ Bounded(room) /\ NoMore(st.usage, room.usage)
                /\ Cardinality(InUse(room.partials)) < MaxMotes
                /\ InUse(room.partials) = InUse(st.partials) \ {m}
            BY <1>3, <5>1, <5>2
          <5>4. room.partials[cell.id] = Cache!NoSlot
            BY <2>1, <2>2, <5>3 DEF InUse
          <5>5. Cache!MayOpen(room, conn)
            <6>1. /\ st.usage[conn].motes \in Nat /\ st.usage[conn].cells \in Nat
                  /\ room.usage[conn].motes \in Nat /\ room.usage[conn].cells \in Nat
              BY <1>2, <5>3 DEF Caches
            <6>2. MaxMotesPerConn \in Nat /\ MaxCellsPerConn \in Nat
              BY DEF Cache!ReassemblyAssumption
            <6>3. QED
              BY <2>5, <5>3, <6>1, <6>2 DEF Cache!MayOpen, NoMore
          <5>6. QED
            BY <5>3, <5>4, <5>5
        <4>2. CASE ~(Cardinality(Cache!Open(st)) >= MaxMotes)
          <5>1. room = st
            BY <3>1, <4>2
          <5>2. Cardinality(InUse(st.partials)) \in Nat
            BY <1>2, FewerSlots DEF Inside
          <5>3. Cardinality(InUse(st.partials)) < MaxMotes
            BY <1>1, <2>3, <4>2, <5>2, CellSize
          <5>4. QED
            BY <1>2, <2>1, <2>5, <5>1, <5>3
        <4>3. QED
          BY <4>1, <4>2
      <3>3. CASE Cache!TotalCells(room) >= MaxCells
        BY <1>1, <3>1, <3>2, <3>3, CacheSettles DEF Cache!Becomes
      <3>4. CASE ~(Cache!TotalCells(room) >= MaxCells)
        BY <1>1, <3>1, <3>2, <3>4, StoreStep
      <3>5. QED
        BY <3>3, <3>4
    <2>6. QED
      BY <2>4, <2>5
  <1>6. ASSUME NEW cell \in Cache!Cells, Cache!AcceptSingle(cell) PROVE CacheInv'
    <2>1. cell.id \in MsgId /\ Cache!Becomes(Cache!RemovePartial(st, cell.id), "complete", {0})
      BY <1>6 DEF Cache!AcceptSingle, Cache!Cells
    <2> HIDE DEF st
    <2>2. QED
      BY <1>1, <1>3, <2>1, CacheSettles DEF Cache!Becomes
  <1>7. CASE Cache!AcceptMalformed
    <2>1. Cache!Becomes(st, "rejected", {})
      BY <1>7 DEF Cache!AcceptMalformed
    <2> HIDE DEF st
    <2>2. QED
      BY <1>1, <1>2, <2>1, CacheSettles DEF Cache!Becomes
  <1>8. CASE Cache!Prune
    <2>1. partials' = st.partials /\ usage' = st.usage /\ received' = received
      BY <1>8 DEF Cache!Prune
    <2> HIDE DEF st
    <2>2. QED
      BY <1>1, <1>2, <2>1, CacheSettles
  <1>9. CASE Cache!Tick
    <2>1. partials' = partials /\ usage' = usage /\ received' \in Nat
      BY <1>1, <1>9 DEF Cache!Tick
    <2>2. QED
      BY <2>1 DEF CacheInv, Sound, CacheTypes, Exact, Shares, InUse, Of, Cache!CellsHeld, Cache!NoSlot, Slots
  <1>10. CASE UNCHANGED Cache!vars
    <2>1. partials' = partials /\ usage' = usage /\ received' = received
      BY <1>10 DEF Cache!vars
    <2>2. QED
      BY <2>1 DEF CacheInv, Sound, CacheTypes, Exact, Shares, InUse, Of, Cache!CellsHeld, Cache!NoSlot, Slots
  <1>11. QED
    BY <1>4, <1>5, <1>6, <1>7, <1>8, <1>9, <1>10 DEF Cache!Next

\* A connection is charged for exactly the slots it opened and the cells they hold, through
\* completion, supersession, timeout and eviction by others, and holds no more than its share
\* (reassembly.rs accept, prune, remove_partial), for every cap, timeout and order of cells.
THEOREM SharesAreKept == ASSUME Cache!ReassemblyAssumption PROVE Cache!Spec => []Cache!SharesHold
  <1>1. Cache!Init => CacheInv
    <2> SUFFICES ASSUME Cache!Init PROVE CacheInv
      OBVIOUS
    <2>1. partials = [m \in MsgId |-> Cache!NoSlot] /\ usage = [c \in Source |-> Cache!Unused] /\ received = 0
      BY DEF Cache!Init
    <2>2. CacheTypes(partials, usage)
      BY <2>1 DEF CacheTypes, Cache!Unused
    <2>3. InUse(partials) = {} /\ Cardinality(InUse(partials)) = 0
      BY <2>1, FS_EmptySet DEF InUse
    <2>4. \A c \in Source : Of(partials, c) = {}
      BY <2>1, <2>2, TableFacts DEF Of
    <2>5. Exact(partials, usage)
      BY <2>1, <2>4, FS_EmptySet, SumEmpty DEF Exact, Cache!Unused
    <2>6. Shares(usage)
      BY <2>1 DEF Shares, Cache!Unused, Cache!ReassemblyAssumption
    <2>7. 0 <= MaxMotes
      BY DEF Cache!ReassemblyAssumption
    <2>8. QED
      BY <2>1, <2>2, <2>3, <2>5, <2>6, <2>7 DEF CacheInv, Sound
  <1>2. CacheInv /\ [Cache!Next]_Cache!vars => CacheInv'
    BY CellStep
  <1>3. CacheInv => Cache!SharesHold
    <2> SUFFICES ASSUME CacheInv PROVE Cache!SharesHold
      OBVIOUS
    <2>1. \A c \in Source : Cache!Owned(c) = Of(partials, c)
      BY DEF Cache!Owned, Of
    <2>2. /\ Exact(partials, usage) /\ Shares(usage) /\ CacheTypes(partials, usage)
          /\ Cardinality(InUse(partials)) <= MaxMotes
      BY DEF CacheInv, Sound
    <2>3. Cache!UsageExact
      BY <2>1, <2>2, CellSize, CellSum DEF Cache!UsageExact, Exact
    <2>4. Cache!SharesBounded
      BY <2>1, <2>2, CellSize, CellSum DEF Cache!SharesBounded, Exact, Shares, InUse
    <2>5. QED
      BY <2>3, <2>4 DEF Cache!SharesHold
  <1>4. QED
    BY <1>1, <1>2, <1>3, PTL DEF Cache!Spec

-----------------------------------------------------------------------------
(* The admission gate: deniable inits keep to their rates, each accepted   *)
(* at most once.                                                           *)

CONSTANTS Initiator, GlobalBurst, GlobalRefill, SourceBurst, SourceRefill, OpkCounts,
          MaxTags, PruneAt, GateStart, GateNow, MaxCrash, MaxSaveFail, MaxOpen, MaxBundle, MaxConfigure
VARIABLES moment, global, perSource, disk, spk, opks, tags, bundles, opened, admitted,
          unsaved, given, since, boots, used, wall

Gate == INSTANCE DeniableAccept WITH
    Source <- Initiator, Start <- GateStart, MaxNow <- GateNow, now <- moment, accepted <- admitted

LEMMA DivisionIs ==
    ASSUME NEW n \in Nat \ {0}, NEW a \in Int
    PROVE  /\ a \div n \in Int /\ a % n \in Int /\ a = n * (a \div n) + (a % n)
           /\ 0 <= a % n /\ a % n < n
  <1>1. a \div n \in Int /\ a % n \in Int
    OBVIOUS
  <1>2. 0 <= a % n /\ a % n < n
    OBVIOUS
  <1>3. a = n * (a \div n) + (a % n)
    OBVIOUS
  <1>4. QED
    BY <1>1, <1>2, <1>3

\* Whole intervals of a time, which may be negative.
LEMMA WholeIntervals ==
    ASSUME NEW n \in Nat \ {0}, NEW a \in Int
    PROVE  /\ a \div n \in Int
           /\ \A e \in Int : e * n \in Int /\ (a + e * n) \div n = a \div n + e
           /\ \A b \in Int : a <= b => a \div n <= b \div n
           /\ a >= 0 => a \div n >= 0
  <1>1. a \div n \in Int /\ a % n \in Int /\ a = n * (a \div n) + (a % n) /\ 0 <= a % n /\ a % n < n
    BY DivisionIs
  <1>2. ASSUME NEW p \in Int, NEW q \in Int, NEW r \in Int, NEW u \in Int, 0 <= r, r < n, 0 <= u, u < n,
               n * p + r <= n * q + u
        PROVE  p <= q
    <2>1. SUFFICES ASSUME p > q PROVE FALSE
      OBVIOUS
    <2>2. p - (q + 1) \in Nat /\ n * (p - (q + 1)) >= 0
      BY <2>1
    <2>3. n * (p - (q + 1)) = n * p - n * q - n /\ n * p \in Int /\ n * q \in Int
      OBVIOUS
    <2>4. QED
      BY <1>2, <2>2, <2>3
  <1>3. \A b \in Int : a <= b => a \div n <= b \div n
    <2> SUFFICES ASSUME NEW b \in Int, a <= b PROVE a \div n <= b \div n
      OBVIOUS
    <2>0. b \div n \in Int /\ b % n \in Int /\ b = n * (b \div n) + (b % n) /\ 0 <= b % n /\ b % n < n
      BY DivisionIs
    <2>1. PICK p \in Int, q \in Int, r \in Int, u \in Int :
            /\ p = a \div n /\ q = b \div n /\ a = n * p + r /\ b = n * q + u
            /\ 0 <= r /\ r < n /\ 0 <= u /\ u < n
      <3> DEFINE pp == a \div n
                 qq == b \div n
                 rr == a % n
                 uu == b % n
      <3>1. pp \in Int /\ qq \in Int /\ rr \in Int /\ uu \in Int /\ a = n * pp + rr /\ b = n * qq + uu
            /\ 0 <= rr /\ rr < n /\ 0 <= uu /\ uu < n /\ pp = a \div n /\ qq = b \div n
        BY <1>1, <2>0
      <3> HIDE DEF pp, qq, rr, uu
      <3>2. QED
        BY <3>1
    <2>2. p <= q
      BY <1>2, <2>1
    <2>3. QED
      BY <2>1, <2>2
  <1>4. ASSUME NEW e \in Int PROVE e * n \in Int /\ (a + e * n) \div n = a \div n + e
    <2>0. e * n \in Int /\ a + e * n \in Int
      OBVIOUS
    <2>01. PICK b \in Int : b = a + e * n
      BY <2>0
    <2>02. b \div n \in Int /\ b % n \in Int /\ b = n * (b \div n) + (b % n) /\ 0 <= b % n /\ b % n < n
      BY DivisionIs
    <2>1. PICK p \in Int, q \in Int, r \in Int, u \in Int :
            /\ p = a \div n /\ q = (a + e * n) \div n /\ a = n * p + r /\ a + e * n = n * q + u
            /\ 0 <= r /\ r < n /\ 0 <= u /\ u < n
      <3> DEFINE pp == a \div n
                 qq == b \div n
                 rr == a % n
                 uu == b % n
      <3>1. pp \in Int /\ qq \in Int /\ rr \in Int /\ uu \in Int /\ a = n * pp + rr /\ b = n * qq + uu
            /\ 0 <= rr /\ rr < n /\ 0 <= uu /\ uu < n /\ pp = a \div n /\ qq = b \div n
        BY <1>1, <2>02
      <3> HIDE DEF pp, qq, rr, uu
      <3>2. QED
        BY <2>01, <3>1
    <2>2. n * (p + e) + r = n * q + u /\ p + e \in Int
      <3>1. n * (p + e) = n * p + e * n
        OBVIOUS
      <3>2. QED
        BY <2>1, <3>1
    <2>3. p + e <= q /\ q <= p + e
      <3>1. n * (p + e) + r <= n * q + u /\ n * q + u <= n * (p + e) + r
        BY <2>2
      <3>2. p + e <= q
        BY <1>2, <2>1, <2>2, <3>1
      <3>3. q <= p + e
        BY <1>2, <2>1, <2>2, <3>1
      <3>4. QED
        BY <3>2, <3>3
    <2>4. QED
      BY <2>0, <2>1, <2>3
  <1>5. ASSUME a >= 0 PROVE a \div n >= 0
    <2>1. PICK p \in Int, r \in Int : p = a \div n /\ a = n * p + r /\ 0 <= r /\ r < n
      BY <1>1
    <2>2. n * 0 + 0 <= n * p + r
      BY <1>5, <2>1
    <2>3. 0 <= p
      BY <1>2, <2>1, <2>2
    <2>4. QED
      BY <2>1, <2>3
  <1>6. QED
    BY <1>1, <1>3, <1>4, <1>5

-----------------------------------------------------------------------------
\* A bucket of some time up to t.  Time 0 is the boot clock.
BucketOf(burst, t) == [tokens : 0..burst, last : 0..t]

\* The intervals between two times.
Intervals(s, t, interval) == (t - s) \div interval

\* What was let through and what is left is what was there and what was credited since s,
\* and g more; or so little that the bucket may be full again at t.
Covered(b, n, burst, interval, s, t, g) ==
    \/ n + b.tokens <= burst + Intervals(s, b.last, interval) + g
    \/ n + b.tokens + 1 <= Intervals(s, t, interval) + g

\* The global bucket; k is 0 when it was not opened at the boot clock.
GlobalCovered(b, n, s, t, g, k) ==
    /\ b \in BucketOf(GlobalBurst, t) /\ (k = 0 => s <= b.last)
    /\ Covered(b, n, GlobalBurst, GlobalRefill, s, t, g)

\* An initiator's bucket is full when it is not there.
Left(b) == IF b = Gate!NoBucket THEN SourceBurst ELSE b.tokens
SourceBucket(b, t) == b = Gate!NoBucket \/ b \in BucketOf(SourceBurst, t)

\* At the boot clock it may be full again whatever is left in it.
SourceCovered(b, n, s, t, g, boot) ==
    /\ SourceBucket(b, t)
    /\ IF boot THEN n + Left(b) + 1 <= Intervals(s, t, SourceRefill) + g
       ELSE IF b = Gate!NoBucket THEN n <= Intervals(s, t, SourceRefill) + g
       ELSE Covered(b, n, SourceBurst, SourceRefill, s, t, g)

\* The same of a bucket in the journal.
SourceStored(b, n, s, t, g) ==
    SourceBucket(b, t) /\ n + Left(b) <= SourceBurst + Intervals(s, t, SourceRefill) + g

Unsaved == Cardinality(unsaved)
AcceptedOf(s) == {n \in DOMAIN admitted : admitted[n].source = s}
CountOf(s) == Cardinality(AcceptedOf(s))

\* What the rates do not account for.
Extra == given + (GlobalBurst + 1) * boots.global
SourceExtra == given + (SourceBurst + 1) * boots.source

Initial == [source : Initiator, spk : Nat \ {0}, opk : Nat, ek : Nat]

GateTypes ==
    /\ wall \in Nat \ {0} /\ moment \in {0, wall} /\ since \in 0..wall
    /\ given \in Nat /\ boots \in [global : 0..1, source : Nat]
    /\ IsFiniteSet(opened) /\ opened \subseteq Initial
    /\ admitted \in Seq(Initial)
    /\ IsFiniteSet(unsaved) /\ \A i \in unsaved : \E n \in DOMAIN admitted : admitted[n] = i
    /\ perSource = [s \in Initiator |-> perSource[s]]
    /\ disk.perSource = [s \in Initiator |-> disk.perSource[s]]

RatesCovered ==
    /\ GlobalCovered(global, Len(admitted), since, wall, Extra, boots.global)
    /\ \A s \in Initiator : SourceCovered(perSource[s], CountOf(s), since, wall, SourceExtra, moment = 0)

\* The gate in the journal, without what is not in it.
DiskCovered ==
    /\ GlobalCovered(disk.global, Len(admitted) - Unsaved, since, wall, Extra, boots.global)
    /\ \A s \in Initiator : SourceStored(disk.perSource[s], CountOf(s) - Unsaved, since, wall, SourceExtra)

\* An init of the current bundle that was accepted has left its trace.
TracesLeft ==
    /\ bundles \in Seq(Nat)
    /\ spk \in 0..Len(bundles)
    /\ \A n \in DOMAIN admitted :
         /\ admitted[n].spk <= Len(bundles)
         /\ admitted[n].spk = spk =>
              IF admitted[n].opk = 0 THEN admitted[n] \in tags ELSE admitted[n].opk \notin opks
    /\ \A i \in opened : i.spk <= Len(bundles)

GateInv == GateTypes /\ RatesCovered /\ DiskCovered /\ TracesLeft /\ Gate!NoReplay

-----------------------------------------------------------------------------
LEMMA NoBucketIs == Gate!NoBucket.tokens = -1 /\ \A burst, t : Gate!NoBucket \notin BucketOf(burst, t)
  BY DEF Gate!NoBucket, BucketOf

LEMMA IntervalsAre ==
    ASSUME NEW n \in Nat \ {0}, NEW s \in Int, NEW t \in Int
    PROVE  /\ Intervals(s, t, n) \in Int
           /\ \A u \in Int : t <= u => Intervals(s, t, n) <= Intervals(s, u, n)
           /\ s <= t => Intervals(s, t, n) >= 0
  <1>1. t - s \in Int
    OBVIOUS
  <1>2. Intervals(s, t, n) \in Int /\ (s <= t => Intervals(s, t, n) >= 0)
    <2>1. PICK a \in Int : a = t - s
      BY <1>1
    <2>2. a \div n \in Int /\ (a >= 0 => a \div n >= 0)
      BY WholeIntervals
    <2>3. QED
      BY <2>1, <2>2 DEF Intervals
  <1>3. ASSUME NEW u \in Int, t <= u PROVE Intervals(s, t, n) <= Intervals(s, u, n)
    <2>1. PICK a \in Int, b \in Int : a = t - s /\ b = u - s /\ a <= b
      BY <1>3
    <2>2. a \div n <= b \div n
      BY <2>1, WholeIntervals
    <2>3. QED
      BY <2>1, <2>2 DEF Intervals
  <1>5. QED
    BY <1>2, <1>3

\* The time e intervals after t.
After(t, e, n) == t + e * n

LEMMA LaterIntervals ==
    ASSUME NEW n \in Nat \ {0}, NEW s \in Int, NEW t \in Int, NEW e \in Int, NEW u \in Int, u = After(t, e, n)
    PROVE  Intervals(s, u, n) = Intervals(s, t, n) + e
  <1>1. PICK a \in Int : a = t - s
    OBVIOUS
  <1>2. e * n \in Int /\ (a + e * n) \div n = a \div n + e
    BY WholeIntervals
  <1>3. PICK k \in Int : k = e * n
    BY <1>2
  <1>4. u - s = a + k
    BY <1>1, <1>3 DEF After
  <1>5. QED
    BY <1>1, <1>2, <1>3, <1>4 DEF Intervals

\* What Refill does, and that it does nothing at the boot clock.
LEMMA RefillIs ==
    ASSUME NEW burst \in Nat, NEW interval \in Nat \ {0}, NEW t \in Nat, moment \in {0, t},
           NEW b \in BucketOf(burst, t)
    PROVE  /\ Gate!Refill(b, burst, interval) \in BucketOf(burst, t)
           /\ \E e \in Nat :
                /\ Gate!Refill(b, burst, interval).tokens <= b.tokens + e
                /\ e * interval \in Int /\ Gate!Refill(b, burst, interval).last = b.last + e * interval
                /\ b.last <= Gate!Refill(b, burst, interval).last
                /\ e = 0 \/ t <= Gate!Refill(b, burst, interval).last + interval
                /\ e = 0 => Gate!Refill(b, burst, interval) = b
                /\ moment = 0 => e = 0
  <1> DEFINE earned == IF moment <= b.last THEN 0 ELSE (moment - b.last) \div interval
             c == Gate!Refill(b, burst, interval)
  <1>1. b.tokens \in 0..burst /\ b.last \in 0..t /\ b = [tokens |-> b.tokens, last |-> b.last]
    BY DEF BucketOf
  <1>2. c = [tokens |-> IF b.tokens + earned > burst THEN burst ELSE b.tokens + earned,
             last |-> b.last + earned * interval]
    BY DEF Gate!Refill
  <1> HIDE DEF c
  <1>3. CASE moment <= b.last
    <2>1. earned = 0
      BY <1>3
    <2> HIDE DEF earned
    <2>2. 0 * interval = 0 /\ b.last + 0 = b.last /\ b.tokens + 0 = b.tokens /\ ~(b.tokens > burst)
      BY <1>1
    <2>3. c = b
      BY <1>1, <1>2, <2>1, <2>2
    <2>4. c.tokens <= b.tokens + 0 /\ c.last = b.last + 0 * interval /\ b.last <= c.last
      BY <1>1, <2>2, <2>3
    <2>5. QED
      BY <2>2, <2>3, <2>4 DEF c
  <1>4. CASE ~(moment <= b.last)
    <2>1. moment = t /\ moment # 0 /\ t - b.last \in Nat
      BY <1>1, <1>4
    <2>2. PICK a \in Nat : a = t - b.last
      BY <2>1
    <2>3. PICK p \in Int, r \in Int : /\ p = a \div interval /\ a = interval * p + r
                                      /\ 0 <= r /\ r < interval
      <3>1. /\ a \div interval \in Int /\ a % interval \in Int
            /\ a = interval * (a \div interval) + (a % interval)
            /\ 0 <= a % interval /\ a % interval < interval
        BY DivisionIs
      <3> DEFINE pp == a \div interval
                 rr == a % interval
      <3>2. pp \in Int /\ rr \in Int /\ a = interval * pp + rr /\ 0 <= rr /\ rr < interval
            /\ pp = a \div interval
        BY <3>1
      <3> HIDE DEF pp, rr
      <3>3. QED
        BY <3>2
    <2>4. p \in Nat
      <3>1. a \in Int /\ a >= 0
        OBVIOUS
      <3>2. a \div interval >= 0
        BY <3>1, WholeIntervals
      <3>3. QED
        BY <2>3, <3>2
    <2>5. earned = p
      BY <1>4, <2>1, <2>2, <2>3
    <2> HIDE DEF earned
    <2>6. PICK k \in Nat : k = p * interval /\ k = interval * p
      BY <2>4
    <2>7. c = [tokens |-> IF b.tokens + p > burst THEN burst ELSE b.tokens + p, last |-> b.last + k]
      BY <1>2, <2>5, <2>6
    <2>8. k <= a /\ a < k + interval
      BY <2>3, <2>6
    <2>9. /\ c.tokens \in 0..burst /\ c.tokens <= b.tokens + p
          /\ c.last = b.last + k /\ c.last \in 0..t /\ b.last <= c.last /\ t <= c.last + interval
      BY <1>1, <2>2, <2>4, <2>7, <2>8
    <2>10. c \in BucketOf(burst, t)
      BY <2>7, <2>9 DEF BucketOf
    <2>11. p = 0 => c = b
      <3> SUFFICES ASSUME p = 0 PROVE c = b
        OBVIOUS
      <3>1. k = 0
        BY <2>6
      <3>2. b.tokens + p = b.tokens /\ b.last + k = b.last /\ ~(b.tokens > burst)
        BY <1>1, <3>1
      <3>3. QED
        BY <1>1, <2>7, <3>2
    <2>12. QED
      BY <2>1, <2>4, <2>6, <2>9, <2>10, <2>11 DEF c
  <1>5. QED
    BY <1>3, <1>4

\* Crediting a bucket leaves what it covers.
LEMMA RefillCovers ==
    ASSUME NEW burst \in Nat, NEW interval \in Nat \ {0}, NEW t \in Nat, moment \in {0, t}, NEW s \in Nat,
           NEW b \in BucketOf(burst, t), NEW n \in Int, NEW g \in Nat,
           Covered(b, n, burst, interval, s, t, g)
    PROVE  /\ Gate!Refill(b, burst, interval) \in BucketOf(burst, t)
           /\ Covered(Gate!Refill(b, burst, interval), n, burst, interval, s, t, g)
           /\ b.last <= Gate!Refill(b, burst, interval).last
           /\ moment = 0 => Gate!Refill(b, burst, interval) = b
  <1>1. PICK c : c = Gate!Refill(b, burst, interval)
    OBVIOUS
  <1>2. PICK e \in Nat :
          /\ c.tokens <= b.tokens + e /\ e * interval \in Int /\ c.last = b.last + e * interval
          /\ b.last <= c.last /\ (e = 0 \/ t <= c.last + interval) /\ (e = 0 => c = b) /\ (moment = 0 => e = 0)
    BY <1>1, RefillIs
  <1>3. c \in BucketOf(burst, t)
    BY <1>1, RefillIs
  <1>4. b.tokens \in 0..burst /\ b.last \in 0..t /\ c.tokens \in 0..burst /\ c.last \in 0..t
    BY <1>3 DEF BucketOf
  <1>5. Covered(c, n, burst, interval, s, t, g)
    <2>1. CASE e = 0
      BY <1>2, <2>1
    <2>2. CASE e # 0
      <3>0. b.last \in Int /\ c.last \in Int /\ s \in Int /\ t \in Int /\ e \in Int
        BY <1>4
      <3> DEFINE x == Intervals(s, b.last, interval)
                 y == Intervals(s, c.last, interval)
                 q == Intervals(s, t, interval)
      <3>1. x \in Int /\ y \in Int /\ q \in Int
        BY <3>0, IntervalsAre
      <3>2. y = x + e
        <4>1. PICK k \in Int, l \in Int : k = b.last /\ l = c.last
          BY <3>0
        <4>2. l = After(k, e, interval)
          BY <1>2, <4>1 DEF After
        <4>3. Intervals(s, l, interval) = Intervals(s, k, interval) + e
          BY <3>0, <4>2, LaterIntervals
        <4>4. QED
          BY <4>1, <4>3
      <3>3. q <= y + 1
        <4>1. PICK l \in Int : l = c.last + interval /\ t <= l
          BY <1>2, <2>2, <3>0
        <4>2. q <= Intervals(s, l, interval)
          BY <3>0, <4>1, IntervalsAre
        <4>4. Intervals(s, l, interval) = y + 1
          <5>1. PICK k \in Int, d \in Int : k = c.last /\ d = 1
            BY <3>0
          <5>2. l = After(k, d, interval)
            BY <4>1, <5>1 DEF After
          <5>3. Intervals(s, l, interval) = Intervals(s, k, interval) + d
            BY <3>0, <5>2, LaterIntervals
          <5>4. QED
            BY <5>1, <5>3
        <4>5. QED
          BY <4>2, <4>4
      <3>4. n + b.tokens <= burst + x + g \/ n + b.tokens + 1 <= q + g
        BY DEF Covered
      <3> HIDE DEF x, y, q
      <3>5. n + c.tokens <= burst + y + g
        BY <1>2, <1>4, <3>1, <3>2, <3>3, <3>4
      <3>6. QED
        BY <3>5 DEF Covered, y
    <2>3. QED
      BY <2>1, <2>2
  <1>6. QED
    BY <1>1, <1>2, <1>3, <1>5

\* A token is spent for one more, or for nothing.
LEMMA SpendCovers ==
    ASSUME NEW burst \in Nat, NEW interval \in Nat \ {0}, NEW t \in Nat, NEW s \in Nat,
           NEW b \in BucketOf(burst, t), NEW n \in Int, NEW g \in Nat, b.tokens > 0,
           NEW m \in Int, m <= n + 1
    PROVE  /\ Gate!Spend(b) \in BucketOf(burst, t)
           /\ Gate!Spend(b).tokens = b.tokens - 1 /\ Gate!Spend(b).last = b.last
           /\ Covered(b, n, burst, interval, s, t, g) => Covered(Gate!Spend(b), m, burst, interval, s, t, g)
  <1>1. b.tokens \in 0..burst /\ b.last \in 0..t
    BY DEF BucketOf
  <1>2. Gate!Spend(b).tokens = b.tokens - 1 /\ Gate!Spend(b).last = b.last
    BY DEF Gate!Spend, BucketOf
  <1>3. Gate!Spend(b) \in BucketOf(burst, t)
    BY <1>1 DEF Gate!Spend, BucketOf
  <1> DEFINE x == Intervals(s, b.last, interval)
             q == Intervals(s, t, interval)
  <1>0. b.last \in Int /\ s \in Int /\ t \in Int
    BY <1>1
  <1>4. x \in Int /\ q \in Int
    BY <1>0, IntervalsAre
  <1>5. /\ n + b.tokens <= burst + x + g => m + (b.tokens - 1) <= burst + x + g
        /\ n + b.tokens + 1 <= q + g => m + (b.tokens - 1) + 1 <= q + g
    <2> HIDE DEF x, q
    <2>1. QED
      BY <1>1, <1>4
  <1>6. QED
    BY <1>2, <1>3, <1>5 DEF Covered

\* Time passes, more is given or less was let through: still covered.
LEMMA StaysCovered ==
    ASSUME NEW burst \in Nat, NEW interval \in Nat \ {0}, NEW s \in Nat, NEW t \in Nat, NEW u \in Nat, t <= u,
           NEW n \in Int, NEW m \in Int, NEW g \in Nat, NEW h \in Nat, m + g <= n + h,
           NEW b \in BucketOf(burst, t), Covered(b, n, burst, interval, s, t, g)
    PROVE  b \in BucketOf(burst, u) /\ Covered(b, m, burst, interval, s, u, h)
  <1>1. b.tokens \in 0..burst /\ b.last \in 0..t /\ b \in BucketOf(burst, u)
    BY DEF BucketOf
  <1> DEFINE x == Intervals(s, b.last, interval)
             q == Intervals(s, t, interval)
             v == Intervals(s, u, interval)
  <1>0. b.last \in Int /\ s \in Int /\ t \in Int /\ u \in Int
    BY <1>1
  <1>2. x \in Int /\ q \in Int /\ v \in Int
    BY <1>0, IntervalsAre
  <1>3. q <= v
    BY <1>0, IntervalsAre
  <1>4. n + b.tokens <= burst + x + g \/ n + b.tokens + 1 <= q + g
    BY DEF Covered
  <1>5. m + b.tokens <= burst + x + h \/ m + b.tokens + 1 <= v + h
    <2> HIDE DEF x, q, v
    <2>1. QED
      BY <1>1, <1>2, <1>3, <1>4
  <1>6. QED
    BY <1>1, <1>5 DEF Covered

LEMMA SourceIntervals ==
    ASSUME Gate!AcceptAssumption, NEW s \in Nat, NEW t \in Nat
    PROVE  \E q \in Int : q = Intervals(s, t, SourceRefill)
  <1>1. SourceRefill \in Nat \ {0} /\ s \in Int /\ t \in Int
    BY DEF Gate!AcceptAssumption
  <1>2. Intervals(s, t, SourceRefill) \in Int
    BY <1>1, IntervalsAre
  <1>3. QED
    BY <1>2

LEMMA GlobalStays ==
    ASSUME Gate!AcceptAssumption, NEW s \in Nat, NEW t \in Nat, NEW u \in Nat, t <= u,
           NEW n \in Int, NEW m \in Int, NEW g \in Nat, NEW h \in Nat, m + g <= n + h, NEW b, NEW k,
           GlobalCovered(b, n, s, t, g, k)
    PROVE  GlobalCovered(b, m, s, u, h, k)
  <1>1. GlobalBurst \in Nat /\ GlobalRefill \in Nat \ {0}
    BY DEF Gate!AcceptAssumption
  <1>2. QED
    BY <1>1, StaysCovered DEF GlobalCovered

\* An initiator's bucket as it is kept over time, over the first set_now, in the journal
\* and over a restart.
LEMMA SourceStays ==
    ASSUME Gate!AcceptAssumption, NEW s \in Nat, NEW t \in Nat, NEW u \in Nat, t <= u,
           NEW n \in Int, NEW m \in Int, NEW g \in Nat, NEW h \in Nat, m + g <= n + h, NEW b
    PROVE  /\ \A boot \in BOOLEAN : SourceCovered(b, n, s, t, g, boot) =>
                /\ SourceCovered(b, m, s, u, h, boot)
                /\ SourceCovered(b, m, s, u, h, FALSE)
                /\ SourceStored(b, m, s, u, h)
           /\ SourceStored(b, n, s, t, g) =>
                /\ SourceStored(b, m, s, u, h)
                /\ m + SourceBurst + 1 + g <= n + h => SourceCovered(b, m, s, u, h, TRUE)
  <1>1. SourceBurst \in Nat \ {0} /\ SourceRefill \in Nat \ {0}
    BY DEF Gate!AcceptAssumption
  <1>2. PICK q \in Int, v \in Int :
          q = Intervals(s, t, SourceRefill) /\ v = Intervals(s, u, SourceRefill) /\ q <= v
    <2> DEFINE qq == Intervals(s, t, SourceRefill)
               vv == Intervals(s, u, SourceRefill)
    <2>0. s \in Int /\ t \in Int /\ u \in Int
      OBVIOUS
    <2>1. qq \in Int /\ vv \in Int
      BY <1>1, <2>0, IntervalsAre
    <2>11. qq <= vv
      BY <1>1, <2>0, IntervalsAre
    <2> HIDE DEF qq, vv
    <2>2. QED
      BY <2>1, <2>11 DEF qq, vv
  <1>3. ASSUME SourceBucket(b, t)
        PROVE  SourceBucket(b, u) /\ Left(b) \in 0..SourceBurst
    <2>1. CASE b = Gate!NoBucket
      BY <1>1, <2>1 DEF SourceBucket, Left
    <2>2. CASE b \in BucketOf(SourceBurst, t) /\ b # Gate!NoBucket
      BY <1>1, <2>2 DEF SourceBucket, Left, BucketOf
    <2>3. QED
      BY <1>3, <2>1, <2>2 DEF SourceBucket
  <1>4. ASSUME NEW boot \in BOOLEAN, SourceCovered(b, n, s, t, g, boot)
        PROVE  /\ SourceCovered(b, m, s, u, h, boot)
               /\ SourceCovered(b, m, s, u, h, FALSE)
               /\ SourceStored(b, m, s, u, h)
    <2>1. SourceBucket(b, u) /\ SourceBucket(b, t) /\ Left(b) \in 0..SourceBurst
      BY <1>3, <1>4 DEF SourceCovered
    <2>2. CASE boot
      <3>1. n + Left(b) + 1 <= q + g
        BY <1>2, <1>4, <2>2 DEF SourceCovered
      <3>2. m + Left(b) + 1 <= v + h /\ m + Left(b) <= SourceBurst + v + h /\ m <= v + h
        BY <1>1, <1>2, <2>1, <3>1
      <3>3. b # Gate!NoBucket => Covered(b, m, SourceBurst, SourceRefill, s, u, h)
        BY <1>2, <3>2 DEF Covered, Left
      <3>4. QED
        BY <1>2, <2>1, <2>2, <3>2, <3>3 DEF SourceCovered, SourceStored
    <2>3. CASE ~boot /\ b = Gate!NoBucket
      <3>1. n <= q + g
        BY <1>2, <1>4, <2>3 DEF SourceCovered
      <3>2. m <= v + h /\ m + SourceBurst <= SourceBurst + v + h
        BY <1>1, <1>2, <3>1
      <3>3. QED
        BY <1>2, <2>1, <2>3, <3>2 DEF SourceCovered, SourceStored, Left
    <2>4. CASE ~boot /\ b # Gate!NoBucket
      <3>1. b \in BucketOf(SourceBurst, t) /\ Covered(b, n, SourceBurst, SourceRefill, s, t, g)
        BY <1>4, <2>4 DEF SourceCovered, SourceBucket
      <3>2. Covered(b, m, SourceBurst, SourceRefill, s, u, h)
        BY <1>1, <3>1, StaysCovered
      <3>3. b.last \in 0..t /\ b.tokens \in 0..SourceBurst
        BY <3>1 DEF BucketOf
      <3>4. PICK x \in Int : x = Intervals(s, b.last, SourceRefill) /\ x <= v
        <4>1. b.last \in Int /\ b.last <= u /\ s \in Int /\ u \in Int
          BY <3>3
        <4> DEFINE xx == Intervals(s, b.last, SourceRefill)
        <4>2. xx \in Int /\ xx <= v
          BY <1>1, <1>2, <4>1, IntervalsAre
        <4> HIDE DEF xx
        <4>3. QED
          BY <4>2 DEF xx
      <3>5. m + b.tokens <= SourceBurst + x + h \/ m + b.tokens + 1 <= v + h
        BY <1>2, <3>2, <3>4 DEF Covered
      <3>6. m + b.tokens <= SourceBurst + v + h
        BY <1>1, <3>3, <3>4, <3>5
      <3>7. QED
        BY <1>2, <2>1, <2>4, <3>2, <3>6 DEF SourceCovered, SourceStored, Left
    <2>5. QED
      BY <2>2, <2>3, <2>4
  <1>5. ASSUME SourceStored(b, n, s, t, g)
        PROVE  /\ SourceStored(b, m, s, u, h)
               /\ m + SourceBurst + 1 + g <= n + h => SourceCovered(b, m, s, u, h, TRUE)
    <2>1. SourceBucket(b, u) /\ Left(b) \in 0..SourceBurst
      BY <1>3, <1>5 DEF SourceStored
    <2>2. n + Left(b) <= SourceBurst + q + g
      BY <1>2, <1>5 DEF SourceStored
    <2>3. m + Left(b) <= SourceBurst + v + h
      BY <1>1, <1>2, <2>1, <2>2
    <2>4. m + SourceBurst + 1 + g <= n + h => m + Left(b) + 1 <= v + h
      BY <1>1, <1>2, <2>1, <2>2
    <2>5. QED
      BY <1>2, <2>1, <2>3, <2>4 DEF SourceStored, SourceCovered
  <1>6. QED
    BY <1>4, <1>5

LEMMA SourceKept ==
    ASSUME Gate!AcceptAssumption, NEW s \in Nat, NEW t \in Nat, NEW u \in Nat, t <= u,
           NEW n \in Int, NEW m \in Int, NEW g \in Nat, NEW h \in Nat, m + g <= n + h, NEW b, NEW v,
           SourceCovered(b, n, s, t, g, v = 0)
    PROVE  /\ SourceCovered(b, m, s, u, h, v = 0)
           /\ SourceCovered(b, m, s, u, h, FALSE)
           /\ SourceStored(b, m, s, u, h)
  <1>1. CASE v = 0
    <2>1. (v = 0) = TRUE
      BY <1>1
    <2>2. SourceCovered(b, n, s, t, g, TRUE)
      BY <2>1
    <2>3. QED
      BY <2>1, <2>2, SourceStays
  <1>2. CASE v # 0
    <2>1. (v = 0) = FALSE
      BY <1>2
    <2>2. SourceCovered(b, n, s, t, g, FALSE)
      BY <2>1
    <2>3. QED
      BY <2>1, <2>2, SourceStays
  <1>3. QED
    BY <1>1, <1>2

\* What an initiator is credited with before anything is spent.
LEMMA SourceOfCovers ==
    ASSUME Gate!AcceptAssumption, NEW t \in Nat, moment \in {0, t}, NEW s \in Nat, NEW g \in Nat,
           NEW x \in Initiator, NEW n \in Int, SourceCovered(perSource[x], n, s, t, g, moment = 0)
    PROVE  /\ Gate!SourceOf(x) \in BucketOf(SourceBurst, t)
           /\ SourceCovered(Gate!SourceOf(x), n, s, t, g, moment = 0)
  <1>1. SourceBurst \in Nat \ {0} /\ SourceRefill \in Nat \ {0}
    BY DEF Gate!AcceptAssumption
  <1>2. PICK b : b = perSource[x]
    OBVIOUS
  <1>3. PICK c : c = Gate!SourceOf(x)
    OBVIOUS
  <1>4. PICK q \in Int : q = Intervals(s, t, SourceRefill)
    BY SourceIntervals
  <1>5. CASE b = Gate!NoBucket
    <2>1. c = [tokens |-> SourceBurst, last |-> moment]
      BY <1>2, <1>3, <1>5 DEF Gate!SourceOf, Gate!Bucket
    <2>2. c \in BucketOf(SourceBurst, t) /\ c.tokens = SourceBurst /\ c.last = moment
      BY <1>1, <2>1 DEF BucketOf
    <2>3. c # Gate!NoBucket /\ SourceBucket(c, t) /\ Left(c) = SourceBurst /\ Left(b) = SourceBurst
      BY <1>5, <2>2, NoBucketIs DEF SourceBucket, Left
    <2>4. CASE moment = 0
      BY <1>2, <1>3, <2>2, <2>3, <2>4 DEF SourceCovered
    <2>5. CASE moment # 0
      <3>1. moment = t /\ n <= q + g
        BY <1>2, <1>4, <1>5, <2>5 DEF SourceCovered
      <3>2. n + SourceBurst <= SourceBurst + q + g
        BY <1>1, <3>1
      <3>3. Covered(c, n, SourceBurst, SourceRefill, s, t, g)
        BY <1>4, <2>2, <3>1, <3>2 DEF Covered
      <3>4. QED
        BY <1>3, <2>2, <2>3, <2>5, <3>3 DEF SourceCovered
    <2>6. QED
      BY <2>4, <2>5
  <1>6. CASE b # Gate!NoBucket
    <2>1. b \in BucketOf(SourceBurst, t) /\ c = Gate!Refill(b, SourceBurst, SourceRefill)
      BY <1>2, <1>3, <1>6 DEF SourceCovered, SourceBucket, Gate!SourceOf
    <2>2. c \in BucketOf(SourceBurst, t) /\ c # Gate!NoBucket /\ SourceBucket(c, t)
      BY <1>1, <2>1, RefillIs, NoBucketIs DEF SourceBucket
    <2>3. CASE moment = 0
      <3>1. c = b
        BY <1>1, <2>1, <2>3, RefillIs
      <3>2. QED
        BY <1>2, <1>3, <2>2, <3>1
    <2>4. CASE moment # 0
      <3>1. Covered(b, n, SourceBurst, SourceRefill, s, t, g)
        BY <1>2, <1>6, <2>4 DEF SourceCovered
      <3>2. Covered(c, n, SourceBurst, SourceRefill, s, t, g)
        BY <1>1, <2>1, <3>1, RefillCovers
      <3>3. QED
        BY <1>3, <2>2, <2>4, <3>2 DEF SourceCovered
    <2>5. QED
      BY <2>3, <2>4
  <1>7. QED
    BY <1>5, <1>6

LEMMA SourceSpends ==
    ASSUME Gate!AcceptAssumption, NEW t \in Nat, NEW s \in Nat, NEW g \in Nat, NEW b \in BucketOf(SourceBurst, t),
           NEW n \in Int, NEW m \in Int, m <= n + 1, b.tokens > 0, NEW boot \in BOOLEAN,
           SourceCovered(b, n, s, t, g, boot)
    PROVE  SourceCovered(Gate!Spend(b), m, s, t, g, boot)
  <1>1. SourceBurst \in Nat /\ SourceRefill \in Nat \ {0}
    BY DEF Gate!AcceptAssumption
  <1>2. b # Gate!NoBucket
    BY NoBucketIs
  <1>3. PICK c : c = Gate!Spend(b)
    OBVIOUS
  <1>4. c \in BucketOf(SourceBurst, t) /\ c.tokens = b.tokens - 1
    <2>1. b.tokens \in 0..SourceBurst /\ b.last \in 0..t
      BY DEF BucketOf
    <2>2. QED
      BY <1>1, <1>3, <2>1 DEF Gate!Spend, BucketOf
  <1>5. c # Gate!NoBucket /\ SourceBucket(c, t) /\ Left(c) = b.tokens - 1 /\ Left(b) = b.tokens /\ b.tokens \in Int
    BY <1>2, <1>4, NoBucketIs DEF SourceBucket, Left, BucketOf
  <1>6. CASE boot
    <2>1. PICK q \in Int : q = Intervals(s, t, SourceRefill)
      BY SourceIntervals
    <2>2. n + b.tokens + 1 <= q + g
      BY <1>5, <1>6, <2>1 DEF SourceCovered
    <2>3. m + (b.tokens - 1) + 1 <= q + g
      BY <1>5, <2>2
    <2>4. QED
      BY <1>3, <1>5, <1>6, <2>1, <2>3 DEF SourceCovered
  <1>7. CASE ~boot
    <2>1. Covered(b, n, SourceBurst, SourceRefill, s, t, g)
      BY <1>2, <1>7 DEF SourceCovered
    <2>2. Covered(c, m, SourceBurst, SourceRefill, s, t, g)
      BY <1>1, <1>3, <2>1, SpendCovers
    <2>3. QED
      BY <1>3, <1>5, <1>7, <2>2 DEF SourceCovered
  <1>8. QED
    BY <1>6, <1>7

\* A bucket that is dropped was full.
LEMMA PruneCovers ==
    ASSUME Gate!AcceptAssumption, NEW t \in Nat, moment \in {0, t}, NEW s \in Nat, NEW g \in Nat,
           NEW p, NEW x \in Initiator, NEW n \in Int, SourceCovered(p[x], n, s, t, g, moment = 0)
    PROVE  SourceCovered(Gate!Prune([y \in Initiator |-> p[y]])[x], n, s, t, g, moment = 0)
  <1>1. SourceBurst \in Nat \ {0} /\ SourceRefill \in Nat \ {0}
    BY DEF Gate!AcceptAssumption
  <1>2. PICK b : b = p[x]
    OBVIOUS
  <1>3. PICK d : d = Gate!Prune([y \in Initiator |-> p[y]])[x]
    OBVIOUS
  <1>4. PICK c : c = Gate!Refill(b, SourceBurst, SourceRefill)
    OBVIOUS
  <1>5. d \in {b, c} \/ (d = Gate!NoBucket /\ (b = Gate!NoBucket \/ c.tokens >= SourceBurst))
    BY <1>2, <1>3, <1>4 DEF Gate!Prune
  <1>6. CASE b = Gate!NoBucket
    <2>1. d = Gate!NoBucket
      BY <1>2, <1>3, <1>6 DEF Gate!Prune
    <2>2. QED
      BY <1>2, <1>3, <1>6, <2>1
  <1>7. CASE b # Gate!NoBucket
    <2>1. b \in BucketOf(SourceBurst, t)
      BY <1>2, <1>7 DEF SourceCovered, SourceBucket
    <2>2. c \in BucketOf(SourceBurst, t) /\ c # Gate!NoBucket /\ SourceBucket(c, t)
      BY <1>1, <1>4, <2>1, RefillIs, NoBucketIs DEF SourceBucket
    <2>3. SourceCovered(c, n, s, t, g, moment = 0)
      <3>1. CASE moment = 0
        <4>1. c = b
          BY <1>1, <1>4, <2>1, <3>1, RefillIs
        <4>2. QED
          BY <1>2, <4>1
      <3>2. CASE moment # 0
        <4>1. Covered(b, n, SourceBurst, SourceRefill, s, t, g)
          BY <1>2, <1>7, <3>2 DEF SourceCovered
        <4>2. Covered(c, n, SourceBurst, SourceRefill, s, t, g)
          BY <1>1, <1>4, <2>1, <4>1, RefillCovers
        <4>3. QED
          BY <2>2, <3>2, <4>2 DEF SourceCovered
      <3>3. QED
        BY <3>1, <3>2
    <2>4. CASE d = Gate!NoBucket /\ c.tokens >= SourceBurst
      <3>1. Left(c) = SourceBurst /\ Left(d) = SourceBurst /\ c.tokens = SourceBurst /\ SourceBucket(d, t)
        BY <1>1, <2>2, <2>4 DEF Left, BucketOf, SourceBucket
      <3>2. CASE moment = 0
        BY <1>3, <2>3, <3>1, <3>2 DEF SourceCovered
      <3>3. CASE moment # 0
        <4>1. SourceStored(c, n, s, t, g)
          <5>1. (moment = 0) \in BOOLEAN /\ t <= t /\ n + g <= n + g
            OBVIOUS
          <5>2. QED
            BY <2>3, <5>1, SourceStays
        <4>2. PICK q \in Int : q = Intervals(s, t, SourceRefill)
          BY SourceIntervals
        <4>3. n + SourceBurst <= SourceBurst + q + g
          BY <3>1, <4>1, <4>2 DEF SourceStored
        <4>4. n <= q + g
          BY <1>1, <4>3
        <4>5. QED
          BY <1>3, <2>4, <3>1, <3>3, <4>2, <4>4 DEF SourceCovered
      <3>4. QED
        BY <3>2, <3>3
    <2>5. QED
      BY <1>2, <1>3, <1>5, <1>7, <2>3, <2>4
  <1>8. QED
    BY <1>6, <1>7

LEMMA SameGateSize == \A S : Gate!Cardinality(S) = Cardinality(S)
  BY DEF Gate!Cardinality, Cardinality

LEMMA CountsIn ==
    ASSUME NEW a \in Seq(Initial)
    PROVE  /\ Len(a) \in Nat /\ DOMAIN a = 1..Len(a)
           /\ \A s : /\ IsFiniteSet({n \in DOMAIN a : a[n].source = s})
                     /\ Cardinality({n \in DOMAIN a : a[n].source = s}) \in Nat
  <1>1. Len(a) \in Nat /\ DOMAIN a = 1..Len(a)
    OBVIOUS
  <1>2. IsFiniteSet(1..Len(a))
    BY <1>1, FS_Interval
  <1>3. ASSUME NEW s
        PROVE  /\ IsFiniteSet({n \in DOMAIN a : a[n].source = s})
               /\ Cardinality({n \in DOMAIN a : a[n].source = s}) \in Nat
    <2>1. {n \in DOMAIN a : a[n].source = s} \subseteq 1..Len(a)
      BY <1>1
    <2>2. IsFiniteSet({n \in DOMAIN a : a[n].source = s})
      BY <1>2, <2>1, FS_Subset
    <2>3. QED
      BY <2>2, FS_CardinalityType
  <1>4. QED
    BY <1>1, <1>3

LEMMA CountsAre ==
    ASSUME GateTypes
    PROVE  /\ Len(admitted) \in Nat /\ DOMAIN admitted = 1..Len(admitted)
           /\ Unsaved \in Nat
           /\ \A s : CountOf(s) \in Nat
  BY CountsIn, FS_CardinalityType DEF GateTypes, Unsaved, CountOf, AcceptedOf

\* One more was accepted.
LEMMA OneMoreCounts ==
    ASSUME GateTypes, NEW i \in Initial, admitted' = Append(admitted, i)
    PROVE  /\ admitted' \in Seq(Initial)
           /\ Len(admitted') = Len(admitted) + 1
           /\ DOMAIN admitted' = 1..(Len(admitted) + 1)
           /\ admitted'[Len(admitted) + 1] = i
           /\ \A n \in DOMAIN admitted : n \in DOMAIN admitted' /\ admitted'[n] = admitted[n]
           /\ \A s : CountOf(s)' = CountOf(s) + (IF s = i.source THEN 1 ELSE 0)
  <1>1. PICK m \in Nat : m = Len(admitted)
    BY CountsAre
  <1>2. /\ admitted' \in Seq(Initial) /\ Len(admitted') = m + 1 /\ DOMAIN admitted' = 1..(m + 1)
        /\ admitted'[m + 1] = i /\ \A n \in 1..m : admitted'[n] = admitted[n]
        /\ DOMAIN admitted = 1..m
    BY <1>1 DEF GateTypes
  <1>3. ASSUME NEW s PROVE CountOf(s)' = CountOf(s) + (IF s = i.source THEN 1 ELSE 0)
    <2>1. IsFiniteSet(AcceptedOf(s))
      BY CountsIn DEF GateTypes, AcceptedOf
    <2>2. CountOf(s) \in Nat
      BY CountsAre
    <2>3. CASE s = i.source
      <3>1. AcceptedOf(s)' = AcceptedOf(s) \cup {m + 1} /\ m + 1 \notin AcceptedOf(s)
        BY <1>2, <2>3 DEF AcceptedOf
      <3>2. QED
        BY <2>1, <2>3, <3>1, FS_AddElement DEF CountOf
    <2>4. CASE s # i.source
      <3>1. AcceptedOf(s)' = AcceptedOf(s)
        BY <1>2, <2>4 DEF AcceptedOf
      <3>2. QED
        BY <2>2, <2>4, <3>1 DEF CountOf
    <2>5. QED
      BY <2>3, <2>4
  <1>4. QED
    BY <1>1, <1>2, <1>3


LEMMA ExtraIn ==
    ASSUME Gate!AcceptAssumption, NEW g \in Nat, NEW b \in [global : 0..1, source : Nat]
    PROVE  /\ g + (GlobalBurst + 1) * b.global \in Nat
           /\ g + (SourceBurst + 1) * b.source \in Nat
           /\ b.global = 1 => g + (GlobalBurst + 1) * b.global = g + GlobalBurst + 1
           /\ b.source >= 1 => g + (SourceBurst + 1) * b.source >= g + SourceBurst + 1
           /\ g + (SourceBurst + 1) * (b.source + 1) = g + (SourceBurst + 1) * b.source + SourceBurst + 1
  <1>1. PICK x \in Nat, y \in Nat, k \in Nat, n \in Nat :
          x = GlobalBurst /\ y = SourceBurst /\ k = b.global /\ n = b.source
    BY DEF Gate!AcceptAssumption
  <1>2. (x + 1) * k \in Nat /\ (y + 1) * n \in Nat
    OBVIOUS
  <1>3. k = 1 => (x + 1) * k = x + 1
    OBVIOUS
  <1>4. (y + 1) * (n + 1) = (y + 1) * n + y + 1
    OBVIOUS
  <1>5. n >= 1 => (y + 1) * n >= y + 1
    <2>1. SUFFICES ASSUME n >= 1 PROVE (y + 1) * n >= y + 1
      OBVIOUS
    <2>2. PICK e \in Nat : n = e + 1
      BY <2>1
    <2>3. (y + 1) * (e + 1) = (y + 1) * e + (y + 1) /\ (y + 1) * e \in Nat
      OBVIOUS
    <2>4. QED
      BY <2>2, <2>3
  <1>6. PICK e \in Nat, f \in Nat, d \in Nat : e = (x + 1) * k /\ f = (y + 1) * n /\ d = (y + 1) * (n + 1)
    BY <1>2, <1>4
  <1>7. /\ g + e \in Nat /\ g + f \in Nat /\ k = 1 => g + e = g + x + 1
        /\ n >= 1 => g + f >= g + y + 1
        /\ g + d = g + f + y + 1
    <2>1. (k = 1 => e = x + 1) /\ (n >= 1 => f >= y + 1) /\ d = f + y + 1
      BY <1>3, <1>4, <1>5, <1>6
    <2>2. QED
      BY <2>1
  <1>8. QED
    BY <1>1, <1>6, <1>7

LEMMA ExtrasAre ==
    ASSUME Gate!AcceptAssumption, GateTypes
    PROVE  Extra \in Nat /\ SourceExtra \in Nat
  BY ExtraIn DEF GateTypes, Extra, SourceExtra

\* What an admitted init leaves covers it as well.
LEMMA AdmitCovers ==
    ASSUME Gate!AcceptAssumption, GateTypes, RatesCovered, NEW x \in Initiator, Gate!Admit(x)
    PROVE  /\ \A m \in Int : m <= Len(admitted) + 1 =>
                GlobalCovered(global', m, since, wall, Extra, boots.global)
           /\ perSource' = [s \in Initiator |-> perSource'[s]]
           /\ \A s \in Initiator : \A m \in Int : m <= CountOf(s) + (IF s = x THEN 1 ELSE 0) =>
                SourceCovered(perSource'[s], m, since, wall, SourceExtra, moment = 0)
  <1>1. GlobalBurst \in Nat /\ GlobalRefill \in Nat \ {0}
    BY DEF Gate!AcceptAssumption
  <1>2. wall \in Nat /\ moment \in {0, wall} /\ since \in Nat
    BY DEF GateTypes
  <1>20. Extra \in Nat /\ SourceExtra \in Nat
    BY ExtrasAre
  <1>3. Len(admitted) \in Nat /\ \A s : CountOf(s) \in Nat
    BY CountsAre
  <1>30. global \in BucketOf(GlobalBurst, wall) /\ (boots.global = 0 => since <= global.last)
         /\ Covered(global, Len(admitted), GlobalBurst, GlobalRefill, since, wall, Extra)
    BY DEF RatesCovered, GlobalCovered
  <1>4. /\ Gate!Global \in BucketOf(GlobalBurst, wall) /\ global.last <= Gate!Global.last
        /\ Covered(Gate!Global, Len(admitted), GlobalBurst, GlobalRefill, since, wall, Extra)
    BY <1>1, <1>2, <1>20, <1>3, <1>30, RefillCovers DEF Gate!Global
  <1>5. Gate!Global.tokens > 0 /\ Gate!SourceOf(x).tokens > 0 /\ global' = Gate!Spend(Gate!Global)
    BY DEF Gate!Admit, Gate!Admits
  <1>6. ASSUME NEW m \in Int, m <= Len(admitted) + 1
        PROVE  GlobalCovered(global', m, since, wall, Extra, boots.global)
    <2>1. /\ global' \in BucketOf(GlobalBurst, wall) /\ global'.last = Gate!Global.last
          /\ Covered(global', m, GlobalBurst, GlobalRefill, since, wall, Extra)
      BY <1>1, <1>2, <1>20, <1>3, <1>4, <1>5, <1>6, SpendCovers
    <2>2. global.last \in Int /\ Gate!Global.last \in Int
      BY <1>30, <1>4 DEF BucketOf
    <2>3. QED
      BY <1>2, <1>30, <1>4, <2>1, <2>2 DEF GlobalCovered
  <1> DEFINE b == Gate!Spend(Gate!SourceOf(x))
             q == [perSource EXCEPT ![x] = b]
  <1>7. perSource = [s \in Initiator |-> perSource[s]] /\ perSource' = Gate!Prune(q)
    BY DEF GateTypes, Gate!Admit
  <1>8. q = [s \in Initiator |-> q[s]] /\ \A s \in Initiator : q[s] = IF s = x THEN b ELSE perSource[s]
    BY <1>7
  <1>9. Gate!Prune(q) = [s \in Initiator |-> Gate!Prune(q)[s]]
    <2> HIDE DEF q
    <2>1. QED
      BY <1>8 DEF Gate!Prune
  <1>10. ASSUME NEW s \in Initiator, NEW m \in Int, m <= CountOf(s) + (IF s = x THEN 1 ELSE 0)
         PROVE  SourceCovered(perSource'[s], m, since, wall, SourceExtra, moment = 0)
    <2>1. SourceCovered(q[s], m, since, wall, SourceExtra, moment = 0)
      <3>1. SourceCovered(perSource[s], CountOf(s), since, wall, SourceExtra, moment = 0)
        BY DEF RatesCovered
      <3>2. CASE s = x
        <4>1. /\ Gate!SourceOf(x) \in BucketOf(SourceBurst, wall)
              /\ SourceCovered(Gate!SourceOf(x), CountOf(x), since, wall, SourceExtra, moment = 0)
          BY <1>2, <1>20, <1>3, <3>1, <3>2, SourceOfCovers
        <4>2. SourceCovered(b, m, since, wall, SourceExtra, moment = 0)
          <5>1. m <= CountOf(x) + 1 /\ CountOf(x) \in Int /\ (moment = 0) \in BOOLEAN
            BY <1>3, <1>10, <3>2
          <5>2. QED
            BY <1>2, <1>20, <1>5, <4>1, <5>1, SourceSpends
        <4>3. q[s] = b
          BY <1>8, <3>2
        <4> HIDE DEF q, b
        <4>4. QED
          BY <4>2, <4>3
      <3>3. CASE s # x
        <4>1. q[s] = perSource[s] /\ m <= CountOf(s) /\ m + SourceExtra <= CountOf(s) + SourceExtra
          BY <1>20, <1>3, <1>8, <1>10, <3>3
        <4> HIDE DEF q
        <4>2. SourceCovered(perSource[s], m, since, wall, SourceExtra, moment = 0)
          <5>1. (moment = 0) \in BOOLEAN /\ wall <= wall /\ CountOf(s) \in Int
            BY <1>2, <1>3
          <5>2. QED
            BY <1>2, <1>20, <3>1, <4>1, <5>1, SourceStays
        <4>3. QED
          BY <4>1, <4>2
      <3>4. QED
        BY <3>2, <3>3
    <2> HIDE DEF q
    <2>2. SourceCovered(Gate!Prune([y \in Initiator |-> q[y]])[s], m, since, wall, SourceExtra, moment = 0)
      BY <1>2, <1>20, <2>1, PruneCovers
    <2>3. perSource' = Gate!Prune([y \in Initiator |-> q[y]])
      BY <1>7, <1>8
    <2>4. QED
      BY <2>2, <2>3
  <1>11. perSource' = [s \in Initiator |-> perSource'[s]]
    BY <1>7, <1>9
  <1>12. QED
    BY <1>6, <1>10, <1>11

LEMMA ThrottleCovers ==
    ASSUME Gate!AcceptAssumption, GateTypes, RatesCovered, NEW x \in Initiator,
           global' = Gate!Global,
           perSource' = Gate!Prune([perSource EXCEPT ![x] = Gate!SourceOf(x)])
    PROVE  /\ GlobalCovered(global', Len(admitted), since, wall, Extra, boots.global)
           /\ perSource' = [s \in Initiator |-> perSource'[s]]
           /\ \A s \in Initiator : SourceCovered(perSource'[s], CountOf(s), since, wall, SourceExtra, moment = 0)
  <1>1. GlobalBurst \in Nat /\ GlobalRefill \in Nat \ {0}
    BY DEF Gate!AcceptAssumption
  <1>2. wall \in Nat /\ moment \in {0, wall} /\ since \in Nat
    BY DEF GateTypes
  <1>20. Extra \in Nat /\ SourceExtra \in Nat
    BY ExtrasAre
  <1>3. Len(admitted) \in Nat /\ \A s : CountOf(s) \in Nat
    BY CountsAre
  <1>30. global \in BucketOf(GlobalBurst, wall) /\ (boots.global = 0 => since <= global.last)
         /\ Covered(global, Len(admitted), GlobalBurst, GlobalRefill, since, wall, Extra)
    BY DEF RatesCovered, GlobalCovered
  <1>4. /\ Gate!Global \in BucketOf(GlobalBurst, wall) /\ global.last <= Gate!Global.last
        /\ Covered(Gate!Global, Len(admitted), GlobalBurst, GlobalRefill, since, wall, Extra)
    BY <1>1, <1>2, <1>20, <1>3, <1>30, RefillCovers DEF Gate!Global
  <1>5. global.last \in Int /\ Gate!Global.last \in Int
    BY <1>30, <1>4 DEF BucketOf
  <1>6. GlobalCovered(global', Len(admitted), since, wall, Extra, boots.global)
    BY <1>2, <1>30, <1>4, <1>5 DEF GlobalCovered
  <1> DEFINE b == Gate!SourceOf(x)
             q == [perSource EXCEPT ![x] = b]
  <1>7. perSource = [s \in Initiator |-> perSource[s]] /\ perSource' = Gate!Prune(q)
    BY DEF GateTypes
  <1>8. q = [s \in Initiator |-> q[s]] /\ \A s \in Initiator : q[s] = IF s = x THEN b ELSE perSource[s]
    BY <1>7
  <1>9. Gate!Prune(q) = [s \in Initiator |-> Gate!Prune(q)[s]]
    <2> HIDE DEF q
    <2>1. QED
      BY <1>8 DEF Gate!Prune
  <1>10. ASSUME NEW s \in Initiator
         PROVE  SourceCovered(perSource'[s], CountOf(s), since, wall, SourceExtra, moment = 0)
    <2>1. SourceCovered(q[s], CountOf(s), since, wall, SourceExtra, moment = 0)
      <3>1. SourceCovered(perSource[s], CountOf(s), since, wall, SourceExtra, moment = 0)
        BY DEF RatesCovered
      <3>2. CASE s = x
        <4>1. SourceCovered(b, CountOf(x), since, wall, SourceExtra, moment = 0)
          BY <1>2, <1>20, <1>3, <3>1, <3>2, SourceOfCovers
        <4>2. q[s] = b
          BY <1>8, <3>2
        <4> HIDE DEF q, b
        <4>3. QED
          BY <3>2, <4>1, <4>2
      <3>3. CASE s # x
        <4>1. q[s] = perSource[s]
          BY <1>8, <3>3
        <4> HIDE DEF q
        <4>2. QED
          BY <3>1, <4>1
      <3>4. QED
        BY <3>2, <3>3
    <2> HIDE DEF q
    <2>2. SourceCovered(Gate!Prune([y \in Initiator |-> q[y]])[s], CountOf(s), since, wall, SourceExtra, moment = 0)
      BY <1>2, <1>20, <1>3, <2>1, PruneCovers
    <2>3. perSource' = Gate!Prune([y \in Initiator |-> q[y]])
      BY <1>7, <1>8
    <2>4. QED
      BY <2>2, <2>3
  <1>11. perSource' = [s \in Initiator |-> perSource'[s]]
    BY <1>7, <1>9
  <1>12. QED
    BY <1>6, <1>10, <1>11

-----------------------------------------------------------------------------
\* The gate in the journal as it is now.
LEMMA StoredCovers ==
    ASSUME Gate!AcceptAssumption, GateTypes', RatesCovered', disk' = Gate!Stored, unsaved' = {}
    PROVE  DiskCovered'
  <1>1. Unsaved' = 0
    BY FS_EmptySet DEF Unsaved
  <1>2. Len(admitted') \in Nat /\ \A s : CountOf(s)' \in Nat
    BY CountsIn DEF GateTypes, CountOf, AcceptedOf
  <1>3. Len(admitted') - Unsaved' = Len(admitted') /\ \A s : CountOf(s)' - Unsaved' = CountOf(s)'
    BY <1>1, <1>2
  <1>4. disk'.global = global' /\ disk'.perSource = perSource'
    BY DEF Gate!Stored
  <1>5. ASSUME NEW s \in Initiator
        PROVE  SourceStored(disk'.perSource[s], CountOf(s)' - Unsaved', since', wall', SourceExtra')
    <2>1. PICK n \in Nat, e \in Nat, u \in Nat, t \in Nat :
            n = CountOf(s)' /\ e = SourceExtra' /\ u = since' /\ t = wall'
      <3>1. SourceExtra' \in Nat
        BY ExtraIn DEF GateTypes, SourceExtra
      <3>2. since' \in Nat /\ wall' \in Nat
        BY DEF GateTypes
      <3>3. QED
        BY <1>2, <3>1, <3>2
    <2>2. SourceCovered(perSource'[s], n, u, t, e, moment' = 0)
      BY <2>1 DEF RatesCovered
    <2>3. t <= t /\ n + e <= n + e /\ n \in Int
      OBVIOUS
    <2>4. PICK d, v : d = perSource'[s] /\ v = moment'
      OBVIOUS
    <2>6. SourceCovered(d, n, u, t, e, v = 0)
      BY <2>2, <2>4
    <2>7. SourceStored(d, n, u, t, e)
      BY <2>3, <2>6, SourceKept
    <2>8. QED
      BY <1>3, <1>4, <2>1, <2>4, <2>7
  <1>6. QED
    BY <1>3, <1>4, <1>5 DEF RatesCovered, DiskCovered

\* The one in the journal stays what it is while it covers no more.
LEMMA UnstoredCovers ==
    ASSUME Gate!AcceptAssumption, GateTypes, GateTypes', DiskCovered, disk' = disk,
           wall <= wall', since' = since, boots'.global = boots.global,
           Len(admitted') - Unsaved' + Extra <= Len(admitted) - Unsaved + Extra',
           \A s \in Initiator : CountOf(s)' - Unsaved' + SourceExtra <= CountOf(s) - Unsaved + SourceExtra'
    PROVE  DiskCovered'
  <1>1. Len(admitted) - Unsaved \in Int /\ \A s \in Initiator : CountOf(s) - Unsaved \in Int
    BY CountsAre
  <1>2. Len(admitted') - Unsaved' \in Int /\ \A s \in Initiator : CountOf(s)' - Unsaved' \in Int
    <2>1. admitted' \in Seq(Initial) /\ IsFiniteSet(unsaved')
      BY DEF GateTypes
    <2>2. Unsaved' \in Nat
      BY <2>1, FS_CardinalityType DEF Unsaved
    <2>3. Len(admitted') \in Nat /\ \A s : CountOf(s)' \in Nat
      BY <2>1, CountsIn DEF CountOf, AcceptedOf
    <2>4. QED
      BY <2>2, <2>3
  <1>3. PICK x \in Nat, t \in Nat, u \in Nat, g \in Nat, h \in Nat, e \in Nat, f \in Nat :
          /\ x = since /\ t = wall /\ u = wall' /\ t <= u
          /\ g = Extra /\ h = Extra' /\ e = SourceExtra /\ f = SourceExtra'
    <2>1. since \in Nat /\ wall \in Nat /\ wall' \in Nat
      BY DEF GateTypes
    <2>2. Extra \in Nat /\ SourceExtra \in Nat
      BY ExtrasAre
    <2>3. Extra' \in Nat /\ SourceExtra' \in Nat
      BY ExtraIn DEF GateTypes, Extra, SourceExtra
    <2>4. QED
      BY <2>1, <2>2, <2>3
  <1>4. disk'.global = disk.global /\ disk'.perSource = disk.perSource
    OBVIOUS
  <1>5. GlobalCovered(disk'.global, Len(admitted') - Unsaved', since', wall', Extra', boots'.global)
    <2>1. PICK n \in Int, m \in Int : n = Len(admitted) - Unsaved /\ m = Len(admitted') - Unsaved'
      BY <1>1, <1>2
    <2>2. m + g <= n + h
      BY <1>3, <2>1
    <2>3. PICK d, k : d = disk.global /\ k = boots.global
      OBVIOUS
    <2>4. GlobalCovered(d, n, x, t, g, k)
      BY <1>3, <2>1, <2>3 DEF DiskCovered
    <2>5. GlobalCovered(d, m, x, u, h, k)
      BY <1>3, <2>2, <2>4, GlobalStays
    <2>6. QED
      BY <1>3, <1>4, <2>1, <2>3, <2>5
  <1>6. ASSUME NEW s \in Initiator
        PROVE  SourceStored(disk'.perSource[s], CountOf(s)' - Unsaved', since', wall', SourceExtra')
    <2>1. PICK n \in Int, m \in Int : n = CountOf(s) - Unsaved /\ m = CountOf(s)' - Unsaved'
      BY <1>1, <1>2
    <2>2. m + e <= n + f
      BY <1>3, <2>1
    <2>3. PICK d : d = disk.perSource[s]
      OBVIOUS
    <2>4. SourceStored(d, n, x, t, e)
      BY <1>3, <2>1, <2>3 DEF DiskCovered
    <2>5. SourceStored(d, m, x, u, f)
      BY <1>3, <2>2, <2>4, SourceStays
    <2>6. QED
      BY <1>3, <1>4, <2>1, <2>3, <2>5
  <1>7. QED
    BY <1>5, <1>6 DEF DiskCovered

LEMMA AcceptKeeps ==
    ASSUME Gate!AcceptAssumption, GateInv, NEW i \in opened, Gate!Accept(i)
    PROVE  GateInv'
  <1> DEFINE n == Len(admitted)
  <1>1. i \in Initial /\ i.source \in Initiator
    BY DEF GateInv, GateTypes, Initial
  <1>2. admitted' = Append(admitted, i)
    BY DEF Gate!Accept
  <1>3. n \in Nat /\ DOMAIN admitted = 1..n /\ Unsaved \in Nat /\ \A s : CountOf(s) \in Nat
    BY CountsAre DEF GateInv
  <1>4. /\ admitted' \in Seq(Initial) /\ Len(admitted') = n + 1
        /\ DOMAIN admitted' = 1..(n + 1) /\ admitted'[n + 1] = i
        /\ \A k \in DOMAIN admitted : k \in DOMAIN admitted' /\ admitted'[k] = admitted[k]
        /\ \A s : CountOf(s)' = CountOf(s) + (IF s = i.source THEN 1 ELSE 0)
    BY <1>1, <1>2, OneMoreCounts DEF GateInv
  <1>5. /\ UNCHANGED <<moment, wall, opened, given, since, boots>>
        /\ Gate!Accepts(i, TRUE) /\ Gate!Consume(i) /\ Gate!Admit(i.source)
    BY DEF Gate!Accept, Gate!clock
  <1>6. \A k \in DOMAIN admitted : admitted[k] # i
    <2>1. SUFFICES ASSUME NEW k \in DOMAIN admitted, admitted[k] = i PROVE FALSE
      OBVIOUS
    <2>2. i.spk = spk /\ Gate!PrekeyUsable(i)
      BY <1>5 DEF Gate!Accepts
    <2>3. IF i.opk = 0 THEN i \in tags ELSE i.opk \notin opks
      BY <2>1, <2>2 DEF GateInv, TracesLeft
    <2>4. QED
      BY <2>2, <2>3 DEF Gate!PrekeyUsable
  <1>7. i \notin unsaved
    BY <1>6 DEF GateInv, GateTypes
  <1>8. (disk' = Gate!Stored /\ unsaved' = {}) \/ (disk' = disk /\ unsaved' = unsaved \cup {i})
    BY DEF Gate!Accept, Gate!AcceptSaves, Gate!Save
  <1>9. /\ GlobalCovered(global', n + 1, since, wall, Extra, boots.global)
        /\ perSource' = [s \in Initiator |-> perSource'[s]]
        /\ \A s \in Initiator : SourceCovered(perSource'[s], CountOf(s)', since, wall, SourceExtra, moment = 0)
    <2>1. n + 1 \in Int /\ \A s : CountOf(s)' \in Int
      BY <1>3, <1>4
    <2> HIDE DEF n
    <2>2. QED
      BY <1>1, <1>4, <1>5, <2>1, AdmitCovers DEF GateInv, n
  <1>10. IsFiniteSet(unsaved') /\ \A u \in unsaved' : \E k \in DOMAIN admitted' : admitted'[k] = u
    <2>1. IsFiniteSet(unsaved) /\ \A u \in unsaved : \E k \in DOMAIN admitted : admitted[k] = u
      BY DEF GateInv, GateTypes
    <2>2. IsFiniteSet(unsaved')
      <3>1. IsFiniteSet(unsaved \cup {i})
        BY <2>1, FS_AddElement
      <3>2. QED
        BY <1>8, <3>1, FS_EmptySet
    <2>3. n + 1 \in DOMAIN admitted'
      BY <1>3, <1>4
    <2>4. QED
      BY <1>4, <1>8, <2>1, <2>2, <2>3
  <1>11. GateTypes'
    <2>1. disk'.perSource = [s \in Initiator |-> disk'.perSource[s]]
      BY <1>8, <1>9 DEF GateInv, GateTypes, Gate!Stored
    <2>2. QED
      BY <1>4, <1>5, <1>9, <1>10, <2>1 DEF GateInv, GateTypes
  <1>120. Extra' = Extra /\ SourceExtra' = SourceExtra
    BY <1>5 DEF Extra, SourceExtra
  <1>12. RatesCovered'
    BY <1>4, <1>5, <1>9, <1>120 DEF RatesCovered
  <1>13. DiskCovered'
    <2>1. CASE disk' = Gate!Stored /\ unsaved' = {}
      BY <1>11, <1>12, <2>1, StoredCovers
    <2>2. CASE disk' = disk /\ unsaved' = unsaved \cup {i}
      <3>1. Unsaved' = Unsaved + 1
        BY <1>7, <2>2, FS_AddElement DEF Unsaved, GateInv, GateTypes
      <3>2. Extra \in Nat /\ SourceExtra \in Nat /\ wall \in Nat
        BY ExtrasAre DEF GateInv, GateTypes
      <3>3. /\ Len(admitted') - Unsaved' + Extra <= Len(admitted) - Unsaved + Extra'
            /\ \A s \in Initiator : CountOf(s)' - Unsaved' + SourceExtra <= CountOf(s) - Unsaved + SourceExtra'
        BY <1>3, <1>4, <1>120, <3>1, <3>2
      <3>4. wall <= wall' /\ since' = since /\ boots'.global = boots.global
        BY <1>5, <3>2
      <3>5. QED
        BY <1>11, <2>2, <3>2, <3>3, <3>4, UnstoredCovers DEF GateInv
    <2>3. QED
      BY <1>8, <2>1, <2>2
  <1>14. TracesLeft'
    <2>1. bundles' = bundles /\ spk' = spk /\ opks' = opks \ {i.opk}
          /\ tags' = (IF i.opk = 0 THEN tags \cup {i} ELSE tags)
      BY <1>5 DEF Gate!Consume
    <2>2. i.spk <= Len(bundles)
      BY DEF GateInv, TracesLeft
    <2>3. ASSUME NEW k \in DOMAIN admitted'
          PROVE  /\ admitted'[k].spk <= Len(bundles')
                 /\ admitted'[k].spk = spk' =>
                      IF admitted'[k].opk = 0 THEN admitted'[k] \in tags' ELSE admitted'[k].opk \notin opks'
      <3>1. CASE k = n + 1
        BY <1>4, <2>1, <2>2, <3>1
      <3>2. CASE k \in DOMAIN admitted
        BY <1>4, <2>1, <3>2 DEF GateInv, TracesLeft
      <3>3. QED
        BY <1>3, <1>4, <3>1, <3>2
    <2>4. QED
      BY <1>5, <2>1, <2>3 DEF GateInv, TracesLeft
  <1>15. Gate!NoReplay'
    <2>1. SUFFICES ASSUME NEW k \in DOMAIN admitted', NEW m \in DOMAIN admitted', admitted'[k] = admitted'[m]
                   PROVE  k = m
      BY DEF Gate!NoReplay
    <2>2. k \in DOMAIN admitted \/ k = n + 1
      BY <1>3, <1>4
    <2>3. m \in DOMAIN admitted \/ m = n + 1
      BY <1>3, <1>4
    <2>4. QED
      BY <1>4, <1>6, <2>1, <2>2, <2>3 DEF GateInv, Gate!NoReplay
  <1>16. QED
    BY <1>11, <1>12, <1>13, <1>14, <1>15 DEF GateInv

\* Nothing of the gate, of what it let through or of the traces changes.
LEMMA SameRates ==
    ASSUME UNCHANGED <<Gate!clock, Gate!gate, admitted, Gate!history>>
    PROVE  /\ RatesCovered => RatesCovered'
           /\ DiskCovered => DiskCovered'
           /\ Gate!NoReplay => Gate!NoReplay'
  <1>1. /\ moment' = moment /\ wall' = wall /\ global' = global /\ perSource' = perSource /\ disk' = disk
        /\ admitted' = admitted /\ unsaved' = unsaved /\ given' = given /\ since' = since /\ boots' = boots
    BY DEF Gate!clock, Gate!gate, Gate!history
  <1>2. Unsaved' = Unsaved /\ Extra' = Extra /\ SourceExtra' = SourceExtra /\ \A s : CountOf(s)' = CountOf(s)
    BY <1>1 DEF Unsaved, CountOf, AcceptedOf, Extra, SourceExtra
  <1>3. QED
    BY <1>1, <1>2 DEF RatesCovered, DiskCovered, Gate!NoReplay

LEMMA OpenKeeps ==
    ASSUME GateInv, NEW x \in Initiator, NEW b \in DOMAIN bundles, Gate!Open(x, b)
    PROVE  GateInv'
  <1> DEFINE i == [source |-> x, spk |-> b, opk |-> IF bundles[b] > 0 THEN 1 ELSE 0,
                   ek |-> Cardinality(opened) + 1]
  <1>1. opened' = opened \cup {i} /\ UNCHANGED <<Gate!clock, Gate!gate, Gate!responder, admitted, Gate!history, used>>
    BY SameGateSize DEF Gate!Open
  <1>2. bundles \in Seq(Nat) /\ b \in 1..Len(bundles) /\ Len(bundles) \in Nat
    BY DEF GateInv, TracesLeft
  <1>3. IsFiniteSet(opened) /\ opened \subseteq Initial
    BY DEF GateInv, GateTypes
  <1>4. Cardinality(opened) \in Nat
    BY <1>3, FS_CardinalityType
  <1>5. i \in Initial
    BY <1>2, <1>4 DEF Initial
  <1>6. i.spk <= Len(bundles)
    BY <1>2
  <1> HIDE DEF i
  <1>7. IsFiniteSet(opened') /\ opened' \subseteq Initial
    <2>1. IsFiniteSet(opened \cup {i})
      BY <1>3, FS_AddElement
    <2>2. QED
      BY <1>1, <1>3, <1>5, <2>1
  <1>8. GateTypes'
    BY <1>1, <1>7 DEF GateInv, GateTypes, Gate!clock, Gate!gate, Gate!history
  <1>9. TracesLeft'
    BY <1>1, <1>6 DEF GateInv, TracesLeft, Gate!responder
  <1>10. QED
    BY <1>1, <1>8, <1>9, SameRates DEF GateInv

LEMMA PublishKeeps ==
    ASSUME GateInv, NEW k \in Nat, Gate!Publish(k)
    PROVE  GateInv'
  <1>1. /\ bundles' = Append(bundles, k) /\ spk' = Len(bundles) + 1
        /\ UNCHANGED <<Gate!clock, Gate!gate, opened, admitted, Gate!history, used>>
    BY DEF Gate!Publish
  <1>2. PICK m \in Nat : m = Len(bundles)
    BY DEF GateInv, TracesLeft
  <1>3. bundles' \in Seq(Nat) /\ Len(bundles') = m + 1 /\ spk' = m + 1
    BY <1>1, <1>2 DEF GateInv, TracesLeft
  <1>4. GateTypes'
    BY <1>1 DEF GateInv, GateTypes, Gate!clock, Gate!gate, Gate!history
  <1>5. (\A n \in DOMAIN admitted : admitted[n] \in Initial) /\ opened \subseteq Initial
    BY DEF GateInv, GateTypes
  <1>6. \A n \in DOMAIN admitted : admitted[n].spk \in Nat /\ admitted[n].spk <= m
    BY <1>2, <1>5 DEF GateInv, TracesLeft, Initial
  <1>7. \A i \in opened : i.spk \in Nat /\ i.spk <= m
    BY <1>2, <1>5 DEF GateInv, TracesLeft, Initial
  <1>8. TracesLeft'
    <2>1. admitted' = admitted /\ opened' = opened
      BY <1>1
    <2>2. \A n \in DOMAIN admitted : admitted[n].spk <= m + 1 /\ admitted[n].spk # m + 1
      BY <1>6
    <2>3. \A i \in opened : i.spk <= m + 1
      BY <1>7
    <2>4. QED
      BY <1>3, <2>1, <2>2, <2>3 DEF TracesLeft
  <1>9. QED
    BY <1>1, <1>4, <1>8, SameRates DEF GateInv

LEMMA ThrottleKeeps ==
    ASSUME Gate!AcceptAssumption, GateInv, NEW i \in opened, Gate!Throttle(i)
    PROVE  GateInv'
  <1>1. i.source \in Initiator
    BY DEF GateInv, GateTypes, Initial
  <1>2. /\ global' = Gate!Global
        /\ perSource' = Gate!Prune([perSource EXCEPT ![i.source] = Gate!SourceOf(i.source)])
        /\ UNCHANGED <<Gate!clock, disk, Gate!responder, opened, admitted, Gate!history, used>>
    BY DEF Gate!Throttle
  <1>3. Unsaved' = Unsaved /\ Extra' = Extra /\ SourceExtra' = SourceExtra /\ \A s : CountOf(s)' = CountOf(s)
    BY <1>2 DEF Unsaved, CountOf, AcceptedOf, Extra, SourceExtra, Gate!history
  <1>4. /\ GlobalCovered(global', Len(admitted), since, wall, Extra, boots.global)
        /\ perSource' = [s \in Initiator |-> perSource'[s]]
        /\ \A s \in Initiator : SourceCovered(perSource'[s], CountOf(s), since, wall, SourceExtra, moment = 0)
    BY <1>1, <1>2, ThrottleCovers DEF GateInv
  <1>5. GateTypes'
    BY <1>2, <1>4 DEF GateInv, GateTypes, Gate!clock, Gate!history
  <1>6. RatesCovered'
    BY <1>2, <1>3, <1>4 DEF RatesCovered, Gate!clock, Gate!history
  <1>7. DiskCovered'
    BY <1>2, <1>3 DEF GateInv, DiskCovered, Gate!clock, Gate!history
  <1>8. TracesLeft' /\ Gate!NoReplay'
    BY <1>2 DEF GateInv, TracesLeft, Gate!NoReplay, Gate!responder
  <1>9. QED
    BY <1>5, <1>6, <1>7, <1>8 DEF GateInv

LEMMA RefuseKeeps ==
    ASSUME Gate!AcceptAssumption, GateInv, NEW i \in opened, NEW intact, Gate!Refuse(i, intact)
    PROVE  GateInv'
  <1>1. i.source \in Initiator
    BY DEF GateInv, GateTypes, Initial
  <1>2. Gate!Admit(i.source) /\ UNCHANGED <<Gate!clock, disk, Gate!responder, opened, admitted, Gate!history, used>>
    BY DEF Gate!Refuse
  <1>3. Unsaved' = Unsaved /\ Extra' = Extra /\ SourceExtra' = SourceExtra /\ \A s : CountOf(s)' = CountOf(s)
    BY <1>2 DEF Unsaved, CountOf, AcceptedOf, Extra, SourceExtra, Gate!history
  <1>4. /\ GlobalCovered(global', Len(admitted), since, wall, Extra, boots.global)
        /\ perSource' = [s \in Initiator |-> perSource'[s]]
        /\ \A s \in Initiator : SourceCovered(perSource'[s], CountOf(s), since, wall, SourceExtra, moment = 0)
    <2>1. PICK m \in Nat : m = Len(admitted)
      BY CountsAre DEF GateInv
    <2>2. \A s : CountOf(s) \in Nat /\ CountOf(s) <= CountOf(s) + 1 /\ CountOf(s) <= CountOf(s) + 0
      BY CountsAre DEF GateInv
    <2>3. m <= m + 1
      BY <2>1
    <2>4. QED
      BY <1>1, <1>2, <2>1, <2>2, <2>3, AdmitCovers, SMTT(30) DEF GateInv
  <1>5. GateTypes'
    BY <1>2, <1>4 DEF GateInv, GateTypes, Gate!clock, Gate!history
  <1>6. RatesCovered'
    BY <1>2, <1>3, <1>4 DEF RatesCovered, Gate!clock, Gate!history
  <1>7. DiskCovered'
    BY <1>2, <1>3 DEF GateInv, DiskCovered, Gate!clock, Gate!history
  <1>8. TracesLeft' /\ Gate!NoReplay'
    BY <1>2 DEF GateInv, TracesLeft, Gate!NoReplay, Gate!responder
  <1>9. QED
    BY <1>5, <1>6, <1>7, <1>8 DEF GateInv

LEMMA CheckpointKeeps ==
    ASSUME Gate!AcceptAssumption, GateInv, Gate!Checkpoint
    PROVE  GateInv'
  <1>1. UNCHANGED <<global, perSource, moment, wall, Gate!responder, opened, admitted, given, since, boots>>
    BY DEF Gate!Checkpoint, Gate!clock
  <1>2. (disk' = Gate!Stored /\ unsaved' = {}) \/ (disk' = disk /\ unsaved' = unsaved)
    BY DEF Gate!Checkpoint, Gate!Save
  <1>3. Extra' = Extra /\ SourceExtra' = SourceExtra /\ \A s : CountOf(s)' = CountOf(s)
    BY <1>1 DEF CountOf, AcceptedOf, Extra, SourceExtra
  <1>4. RatesCovered'
    BY <1>1, <1>3 DEF GateInv, RatesCovered
  <1>5. GateTypes'
    <2>1. IsFiniteSet(unsaved') /\ \A u \in unsaved' : \E k \in DOMAIN admitted : admitted[k] = u
      BY <1>2, FS_EmptySet DEF GateInv, GateTypes
    <2>2. disk'.perSource = [s \in Initiator |-> disk'.perSource[s]]
      BY <1>1, <1>2 DEF GateInv, GateTypes, Gate!Stored
    <2>3. QED
      BY <1>1, <2>1, <2>2 DEF GateInv, GateTypes
  <1>6. DiskCovered'
    <2>1. CASE disk' = Gate!Stored /\ unsaved' = {}
      BY <1>4, <1>5, <2>1, StoredCovers
    <2>2. CASE disk' = disk /\ unsaved' = unsaved
      BY <1>1, <1>3, <2>2 DEF GateInv, DiskCovered, Unsaved
    <2>3. QED
      BY <1>2, <2>1, <2>2
  <1>7. TracesLeft' /\ Gate!NoReplay'
    BY <1>1 DEF GateInv, TracesLeft, Gate!NoReplay, Gate!responder
  <1>8. QED
    BY <1>4, <1>5, <1>6, <1>7 DEF GateInv

\* The gate in the journal is open again, and at the boot clock.
LEMMA RestartKeeps ==
    ASSUME Gate!AcceptAssumption, GateInv, Gate!Restart
    PROVE  GateInv'
  <1>1. /\ global' = disk.global /\ perSource' = disk.perSource /\ spk' = 0 /\ unsaved' = {} /\ moment' = 0
        /\ given' = given + Unsaved /\ boots' = [boots EXCEPT !.source = @ + 1]
        /\ UNCHANGED <<wall, disk, bundles, opened, admitted, since>>
    BY SameGateSize DEF Gate!Restart, Unsaved
  <1>2. \A s : CountOf(s)' = CountOf(s)
    BY <1>1 DEF CountOf, AcceptedOf
  <1>3. Unsaved \in Nat /\ Len(admitted) \in Nat /\ \A s : CountOf(s) \in Nat
    BY CountsAre DEF GateInv
  <1>4. Unsaved' = 0
    BY <1>1, FS_EmptySet DEF Unsaved
  <1>5. given \in Nat /\ given' \in Nat /\ boots \in [global : 0..1, source : Nat] /\ wall \in Nat /\ since \in Nat
    BY <1>1, <1>3 DEF GateInv, GateTypes
  <1>6. GateTypes'
    <2>1. boots' \in [global : 0..1, source : Nat]
      BY <1>1, <1>5
    <2>2. QED
      BY <1>1, <1>5, <2>1, FS_EmptySet DEF GateInv, GateTypes
  <1>7. Extra \in Nat /\ SourceExtra \in Nat
    BY ExtrasAre DEF GateInv
  <1>70. SourceBurst \in Nat
    BY DEF Gate!AcceptAssumption
  <1>8. Extra' = Extra + Unsaved /\ SourceExtra' = SourceExtra + Unsaved + SourceBurst + 1
    <2>1. boots'.global = boots.global /\ boots'.source = boots.source + 1
      BY <1>1, <1>5
    <2>2. PICK x \in Nat, y \in Nat, z \in Int : /\ x = (GlobalBurst + 1) * boots.global
                                    /\ y = (SourceBurst + 1) * boots.source
                                    /\ z = (SourceBurst + 1) * (boots.source + 1) /\ z = y + SourceBurst + 1
      <3>1. PICK a \in Nat, b \in Nat, c \in Nat, d \in Nat :
              a = GlobalBurst /\ b = SourceBurst /\ c = boots.global /\ d = boots.source
        BY <1>5 DEF Gate!AcceptAssumption
      <3>2. (a + 1) * c \in Nat /\ (b + 1) * d \in Nat /\ (b + 1) * (d + 1) = (b + 1) * d + b + 1
        OBVIOUS
      <3>3. QED
        BY <3>1, <3>2
    <2>3. Extra = given + x /\ Extra' = given' + x
      BY <2>1, <2>2 DEF Extra
    <2>4. SourceExtra = given + y /\ SourceExtra' = given' + z
      BY <2>1, <2>2 DEF SourceExtra
    <2>5. PICK g \in Nat, h \in Int, w \in Nat, b \in Nat :
            g = given /\ h = given' /\ w = Unsaved /\ b = SourceBurst /\ h = g + w
      BY <1>1, <1>3, <1>5, <1>70
    <2>6. z = y + b + 1
      BY <2>2, <2>5
    <2>7. h + x = g + x + w /\ h + z = g + y + w + b + 1
      BY <2>5, <2>6
    <2>8. QED
      BY <2>3, <2>4, <2>5, <2>7
  <1>9. Extra' \in Nat /\ SourceExtra' \in Nat
    BY <1>3, <1>7, <1>70, <1>8
  <1>10. DiskCovered'
    <2>1. /\ Len(admitted') - Unsaved' + Extra <= Len(admitted) - Unsaved + Extra'
          /\ \A s \in Initiator : CountOf(s)' - Unsaved' + SourceExtra <= CountOf(s) - Unsaved + SourceExtra'
      BY <1>1, <1>2, <1>3, <1>4, <1>7, <1>70, <1>8
    <2>2. wall <= wall' /\ boots'.global = boots.global
      BY <1>1, <1>5
    <2>3. QED
      BY <1>1, <1>6, <2>1, <2>2, UnstoredCovers DEF GateInv
  <1>11. RatesCovered'
    <2>1. GlobalCovered(global', Len(admitted'), since', wall', Extra', boots'.global)
      <3>1. Len(admitted') - Unsaved' = Len(admitted')
        BY <1>1, <1>3, <1>4
      <3>2. QED
        BY <1>1, <1>10, <3>1 DEF DiskCovered
    <2>2. ASSUME NEW s \in Initiator
          PROVE  SourceCovered(perSource'[s], CountOf(s)', since', wall', SourceExtra', moment' = 0)
      <3>0. PICK d : d = disk.perSource[s]
        OBVIOUS
      <3>1. PICK n \in Int, m \in Int : n = CountOf(s) - Unsaved /\ m = CountOf(s)
        BY <1>3
      <3>2. SourceStored(d, n, since, wall, SourceExtra)
        BY <3>0, <3>1 DEF GateInv, DiskCovered
      <3>3. m + SourceBurst + 1 + SourceExtra <= n + SourceExtra' /\ m + SourceExtra <= n + SourceExtra'
        BY <1>3, <1>7, <1>70, <1>8, <3>1
      <3>4. PICK x \in Nat, t \in Nat, g \in Nat, h \in Nat :
              x = since /\ t = wall /\ g = SourceExtra /\ h = SourceExtra'
        BY <1>5, <1>7, <1>9
      <3>50. t <= t /\ SourceStored(d, n, x, t, g)
        BY <3>2, <3>4
      <3>5. m + SourceBurst + 1 + g <= n + h /\ m + g <= n + h
        BY <3>3, <3>4
      <3>6. SourceCovered(d, m, x, t, h, TRUE)
        BY <3>50, <3>5, SourceStays
      <3>7. (moment' = 0) = TRUE
        BY <1>1
      <3>8. QED
        BY <1>1, <1>2, <3>0, <3>1, <3>4, <3>6, <3>7
    <2>3. QED
      BY <2>1, <2>2 DEF RatesCovered
  <1>12. TracesLeft'
    <2>1. \A n \in DOMAIN admitted : admitted[n].spk # 0
      <3>1. \A n \in DOMAIN admitted : admitted[n] \in Initial
        BY DEF GateInv, GateTypes
      <3>2. QED
        BY <3>1 DEF Initial
    <2>2. 0 \in 0..Len(bundles)
      BY DEF GateInv, TracesLeft
    <2>3. QED
      BY <1>1, <2>1, <2>2 DEF GateInv, TracesLeft
  <1>13. Gate!NoReplay'
    BY <1>1 DEF GateInv, Gate!NoReplay
  <1>14. QED
    BY <1>6, <1>10, <1>11, <1>12, <1>13 DEF GateInv

\* The clock is set: a bucket opened at the boot clock may be full again.
LEMMA SetNowKeeps ==
    ASSUME Gate!AcceptAssumption, GateInv, NEW t \in wall..GateNow, Gate!SetNow(t)
    PROVE  GateInv'
  <1>1. /\ moment' = t /\ wall' = t
        /\ UNCHANGED <<Gate!gate, Gate!responder, opened, admitted, Gate!history, used>>
    BY DEF Gate!SetNow
  <1>2. /\ wall \in Nat \ {0} /\ since \in 0..wall
        /\ t \in Nat \ {0} /\ wall <= t /\ since \in Nat
    <2>1. wall \in Nat \ {0} /\ since \in 0..wall
      BY DEF GateInv, GateTypes
    <2>2. GateNow \in Nat
      BY DEF Gate!AcceptAssumption
    <2>3. QED
      BY <2>1, <2>2
  <1>3. /\ Unsaved' = Unsaved /\ Extra' = Extra /\ SourceExtra' = SourceExtra
        /\ \A s : CountOf(s)' = CountOf(s)
    BY <1>1 DEF Unsaved, CountOf, AcceptedOf, Extra, SourceExtra, Gate!history
  <1>4. Unsaved \in Nat /\ Len(admitted) \in Nat /\ \A s : CountOf(s) \in Nat
    BY CountsAre DEF GateInv
  <1>5. Extra \in Nat /\ SourceExtra \in Nat
    BY ExtrasAre DEF GateInv
  <1>6. GateTypes'
    <2>1. since' \in 0..wall'
      BY <1>1, <1>2 DEF Gate!history
    <2>2. QED
      BY <1>1, <1>2, <2>1 DEF GateInv, GateTypes, Gate!gate, Gate!history
  <1>7. DiskCovered'
    <2>1. disk' = disk /\ since' = since /\ boots'.global = boots.global /\ wall <= wall'
      BY <1>1, <1>2 DEF Gate!gate, Gate!history
    <2>2. /\ Len(admitted') - Unsaved' + Extra <= Len(admitted) - Unsaved + Extra'
          /\ \A s \in Initiator : CountOf(s)' - Unsaved' + SourceExtra <= CountOf(s) - Unsaved + SourceExtra'
      BY <1>1, <1>3, <1>4, <1>5
    <2>3. QED
      BY <1>6, <2>1, <2>2, UnstoredCovers DEF GateInv
  <1>8. RatesCovered'
    <2>1. GlobalCovered(global, Len(admitted), since, t, Extra, boots.global)
      <3>1. GlobalCovered(global, Len(admitted), since, wall, Extra, boots.global)
        BY DEF GateInv, RatesCovered
      <3>2. Len(admitted) \in Int /\ Len(admitted) + Extra <= Len(admitted) + Extra
        BY <1>4, <1>5
      <3>3. QED
        BY <1>2, <1>5, <3>1, <3>2, GlobalStays
    <2>2. ASSUME NEW s \in Initiator PROVE SourceCovered(perSource[s], CountOf(s), since, t, SourceExtra, FALSE)
      <3>1. PICK n \in Int : n = CountOf(s)
        BY <1>4
      <3>2. SourceCovered(perSource[s], n, since, wall, SourceExtra, moment = 0)
        BY <3>1 DEF GateInv, RatesCovered
      <3>3. n + SourceExtra <= n + SourceExtra
        BY <1>5
      <3>4. SourceCovered(perSource[s], n, since, t, SourceExtra, FALSE)
        BY <1>2, <1>5, <3>2, <3>3, SourceKept
      <3>5. QED
        BY <3>1, <3>4
    <2>3. (moment' = 0) = FALSE
      BY <1>1, <1>2
    <2>4. QED
      BY <1>1, <1>3, <2>1, <2>2, <2>3 DEF RatesCovered, Gate!gate, Gate!history
  <1>9. TracesLeft' /\ Gate!NoReplay'
    BY <1>1 DEF GateInv, TracesLeft, Gate!NoReplay, Gate!responder
  <1>10. QED
    BY <1>6, <1>7, <1>8, <1>9 DEF GateInv

\* Nothing was let through, and the buckets are full: covered, at the boot clock by its share.
LEMMA FullCovers ==
    ASSUME Gate!AcceptAssumption, NEW t \in Nat, NEW s \in 0..t, NEW g \in Nat
    PROVE  /\ \A b \in BucketOf(GlobalBurst, t), k \in 0..1 :
                /\ k = 0 => s <= b.last
                /\ k = 1 => g >= GlobalBurst + 1
                => GlobalCovered(b, 0, s, t, g, k)
           /\ SourceCovered(Gate!NoBucket, 0, s, t, g, FALSE)
           /\ g >= SourceBurst + 1 => SourceCovered(Gate!NoBucket, 0, s, t, g, TRUE)
           /\ \A b : SourceBucket(b, t) => SourceStored(b, 0, s, t, g)
  <1>1. /\ GlobalBurst \in Nat \ {0} /\ GlobalRefill \in Nat \ {0}
        /\ SourceBurst \in Nat \ {0} /\ SourceRefill \in Nat \ {0}
    BY DEF Gate!AcceptAssumption
  <1>2. s \in Int /\ t \in Int /\ s <= t
    OBVIOUS
  <1>3. PICK q \in Nat : q = Intervals(s, t, SourceRefill)
    <2>1. Intervals(s, t, SourceRefill) \in Int
      BY <1>1, <1>2, IntervalsAre
    <2>2. Intervals(s, t, SourceRefill) >= 0
      BY <1>1, <1>2, IntervalsAre
    <2>3. QED
      BY <2>1, <2>2
  <1>4. ASSUME NEW b \in BucketOf(GlobalBurst, t), NEW k \in 0..1, k = 0 => s <= b.last,
               k = 1 => g >= GlobalBurst + 1
        PROVE  GlobalCovered(b, 0, s, t, g, k)
    <2>1. b.tokens \in 0..GlobalBurst /\ b.last \in Int
      BY DEF BucketOf
    <2>2. CASE k = 0
      <3>1. s <= b.last
        BY <1>4, <2>2
      <3>2. Intervals(s, b.last, GlobalRefill) \in Int
        BY <1>1, <1>2, <2>1, IntervalsAre
      <3>3. Intervals(s, b.last, GlobalRefill) >= 0
        BY <1>1, <1>2, <2>1, <3>1, IntervalsAre
      <3>4. 0 + b.tokens <= GlobalBurst + Intervals(s, b.last, GlobalRefill) + g
        BY <1>1, <2>1, <3>2, <3>3
      <3>5. QED
        BY <3>1, <3>4 DEF GlobalCovered, Covered
    <2>3. CASE k = 1
      <3>1. Intervals(s, t, GlobalRefill) \in Int
        BY <1>1, <1>2, IntervalsAre
      <3>2. Intervals(s, t, GlobalRefill) >= 0
        BY <1>1, <1>2, IntervalsAre
      <3>3. 0 + b.tokens + 1 <= Intervals(s, t, GlobalRefill) + g
        BY <1>1, <1>4, <2>1, <2>3, <3>1, <3>2
      <3>4. QED
        BY <2>3, <3>3 DEF GlobalCovered, Covered
    <2>4. QED
      BY <2>2, <2>3
  <1>5. SourceCovered(Gate!NoBucket, 0, s, t, g, FALSE)
    BY <1>3 DEF SourceCovered, SourceBucket
  <1>6. g >= SourceBurst + 1 => SourceCovered(Gate!NoBucket, 0, s, t, g, TRUE)
    <2>1. g >= SourceBurst + 1 => 0 + SourceBurst + 1 <= q + g
      BY <1>1
    <2>2. QED
      BY <1>3, <2>1 DEF SourceCovered, SourceBucket, Left
  <1>7. ASSUME NEW b, SourceBucket(b, t) PROVE SourceStored(b, 0, s, t, g)
    <2>1. Left(b) \in 0..SourceBurst
      BY <1>1, <1>7 DEF SourceBucket, Left, BucketOf
    <2>2. 0 + Left(b) <= SourceBurst + q + g
      BY <1>1, <2>1
    <2>3. QED
      BY <1>3, <1>7, <2>2 DEF SourceStored
  <1>8. QED
    BY <1>4, <1>5, <1>6, <1>7

\* Both buckets are full, and nothing was let through since.
LEMMA ConfigureKeeps ==
    ASSUME Gate!AcceptAssumption, GateInv, NEW saves \in BOOLEAN, Gate!Configure(saves)
    PROVE  GateInv'
  <1> DEFINE b == IF moment = 0 THEN 1 ELSE 0
  <1>1. /\ global' = Gate!Bucket(GlobalBurst) /\ perSource' = [s \in Initiator |-> Gate!NoBucket]
        /\ disk' = (IF saves THEN Gate!Stored ELSE disk)
        /\ admitted' = <<>> /\ unsaved' = {} /\ given' = 0
        /\ since' = (IF saves THEN wall ELSE since)
        /\ boots' = IF saves THEN [global |-> b, source |-> b]
                    ELSE [global |-> IF moment = 0 THEN 1 ELSE boots.global, source |-> boots.source + b]
        /\ UNCHANGED <<moment, wall, Gate!responder, opened>>
    BY DEF Gate!Configure, Gate!AtBoot, Gate!clock
  <1>2. /\ wall \in Nat \ {0} /\ moment \in {0, wall} /\ since \in 0..wall /\ since' \in 0..wall
        /\ boots \in [global : 0..1, source : Nat]
    BY <1>1 DEF GateInv, GateTypes
  <1>3. boots' \in [global : 0..1, source : Nat] /\ (moment = 0 => boots'.global = 1 /\ boots'.source >= 1)
        /\ (boots'.global = 0 => moment = wall /\ (~saves => boots.global = 0))
    BY <1>1, <1>2
  <1>4. Unsaved' = 0 /\ Len(admitted') = 0 /\ DOMAIN admitted' = {}
    BY <1>1, FS_EmptySet DEF Unsaved
  <1>5. \A s : CountOf(s)' = 0
    <2>1. \A s : AcceptedOf(s)' = {}
      BY <1>4 DEF AcceptedOf
    <2>2. QED
      BY <2>1, FS_EmptySet DEF CountOf
  <1>6. GateTypes'
    <2>1. admitted' \in Seq(Initial)
      BY <1>1
    <2>2. disk'.perSource = [s \in Initiator |-> disk'.perSource[s]]
      BY <1>1 DEF GateInv, GateTypes, Gate!Stored
    <2>3. given' \in Nat
      BY <1>1
    <2>4. QED
      BY <1>1, <1>2, <1>3, <2>1, <2>2, <2>3, FS_EmptySet DEF GateInv, GateTypes
  <1>7. PICK g \in Nat, e \in Nat : /\ g = Extra' /\ e = SourceExtra'
                                    /\ boots'.global = 1 => g >= GlobalBurst + 1
                                    /\ boots'.source >= 1 => e >= SourceBurst + 1
    <2>1. given' = 0 /\ 0 \in Nat
      BY <1>1
    <2>2. PICK d \in [global : 0..1, source : Nat] : d = boots'
      BY <1>3
    <2>3. /\ 0 + (GlobalBurst + 1) * d.global \in Nat /\ 0 + (SourceBurst + 1) * d.source \in Nat
          /\ d.global = 1 => 0 + (GlobalBurst + 1) * d.global = 0 + GlobalBurst + 1
          /\ d.source >= 1 => 0 + (SourceBurst + 1) * d.source >= 0 + SourceBurst + 1
      BY ExtraIn
    <2>4. Extra' = 0 + (GlobalBurst + 1) * d.global /\ SourceExtra' = 0 + (SourceBurst + 1) * d.source
      BY <2>1, <2>2 DEF Extra, SourceExtra
    <2>5. PICK x \in Nat, y \in Nat : x = Extra' /\ y = SourceExtra'
      BY <2>3, <2>4
    <2>6. GlobalBurst \in Nat /\ SourceBurst \in Nat
      BY DEF Gate!AcceptAssumption
    <2>7. (d.global = 1 => x = 0 + GlobalBurst + 1) /\ (d.source >= 1 => y >= 0 + SourceBurst + 1)
      BY <2>3, <2>4, <2>5
    <2>8. QED
      BY <2>2, <2>5, <2>6, <2>7
  <1>8. PICK s \in 0..wall, k \in 0..1 : s = since' /\ k = boots'.global
    BY <1>2, <1>3
  <1>9. /\ \A d \in BucketOf(GlobalBurst, wall) :
             (k = 0 => s <= d.last) => GlobalCovered(d, 0, s, wall, g, k)
        /\ SourceCovered(Gate!NoBucket, 0, s, wall, e, FALSE)
        /\ e >= SourceBurst + 1 => SourceCovered(Gate!NoBucket, 0, s, wall, e, TRUE)
        /\ \A d : SourceBucket(d, wall) => SourceStored(d, 0, s, wall, e)
    <2>1. wall \in Nat
      BY <1>2
    <2>2. k = 1 => g >= GlobalBurst + 1
      BY <1>7, <1>8
    <2>3. QED
      BY <2>1, <2>2, FullCovers
  <1>11. RatesCovered'
    <2>1. global' \in BucketOf(GlobalBurst, wall) /\ global'.last = moment
      BY <1>1, <1>2 DEF Gate!Bucket, BucketOf, Gate!AcceptAssumption
    <2>2. k = 0 => s <= global'.last
      BY <1>2, <1>3, <1>8, <2>1
    <2>3. GlobalCovered(global', Len(admitted'), since', wall', Extra', boots'.global)
      BY <1>1, <1>4, <1>7, <1>8, <1>9, <2>1, <2>2
    <2>4. ASSUME NEW x \in Initiator
          PROVE  SourceCovered(perSource'[x], CountOf(x)', since', wall', SourceExtra', moment' = 0)
      <3>1. perSource'[x] = Gate!NoBucket /\ CountOf(x)' = 0 /\ since' = s /\ wall' = wall /\ SourceExtra' = e
        BY <1>1, <1>5, <1>7, <1>8
      <3>2. CASE moment = 0
        <4>1. (moment' = 0) = TRUE /\ e >= SourceBurst + 1
          BY <1>1, <1>3, <1>7, <3>2
        <4>2. QED
          BY <1>9, <3>1, <4>1
      <3>3. CASE moment # 0
        <4>1. (moment' = 0) = FALSE
          BY <1>1, <3>3
        <4>2. QED
          BY <1>9, <3>1, <4>1
      <3>4. QED
        BY <3>2, <3>3
    <2>5. QED
      BY <2>3, <2>4 DEF RatesCovered
  <1>12. DiskCovered'
    <2>1. CASE saves
      BY <1>1, <1>6, <1>11, <2>1, StoredCovers
    <2>2. CASE ~saves
      <3>1. disk' = disk /\ since' = since /\ s = since
        BY <1>1, <1>8, <2>2
      <3>2. disk.global \in BucketOf(GlobalBurst, wall) /\ (k = 0 => s <= disk.global.last)
        BY <1>3, <1>8, <2>2, <3>1 DEF GateInv, DiskCovered, GlobalCovered
      <3>3. GlobalCovered(disk.global, 0, s, wall, g, k)
        BY <1>9, <3>2
      <3>4. \A x \in Initiator : SourceBucket(disk.perSource[x], wall)
        BY DEF GateInv, DiskCovered, SourceStored
      <3>5. \A x \in Initiator : SourceStored(disk.perSource[x], 0, s, wall, e)
        BY <1>9, <3>4
      <3>6. Len(admitted') - Unsaved' = 0 /\ \A x : CountOf(x)' - Unsaved' = 0
        BY <1>4, <1>5
      <3>7. QED
        BY <1>1, <1>7, <1>8, <3>1, <3>3, <3>5, <3>6 DEF DiskCovered
    <2>3. QED
      BY <2>1, <2>2
  <1>13. TracesLeft'
    BY <1>1, <1>4 DEF GateInv, TracesLeft, Gate!responder
  <1>14. Gate!NoReplay'
    BY <1>4 DEF Gate!NoReplay
  <1>15. QED
    BY <1>6, <1>11, <1>12, <1>13, <1>14 DEF GateInv

LEMMA GateInitially ==
    ASSUME Gate!AcceptAssumption, Gate!Init
    PROVE  GateInv
  <1>1. /\ moment = 0 /\ wall = GateStart /\ global = [tokens |-> GlobalBurst, last |-> 0]
        /\ perSource = [s \in Initiator |-> Gate!NoBucket]
        /\ disk = [global |-> global, perSource |-> perSource]
        /\ spk = 0 /\ bundles = <<>> /\ opened = {} /\ admitted = <<>>
        /\ unsaved = {} /\ given = 0 /\ since = GateStart /\ boots = [global |-> 1, source |-> 1]
    BY DEF Gate!Init
  <1>2. GlobalBurst \in Nat \ {0} /\ SourceBurst \in Nat \ {0} /\ GateStart \in Nat \ {0}
    BY DEF Gate!AcceptAssumption
  <1>3. Unsaved = 0 /\ Len(admitted) = 0 /\ DOMAIN admitted = {} /\ \A s : CountOf(s) = 0
    <2>1. DOMAIN admitted = {} /\ Len(admitted) = 0
      BY <1>1
    <2>2. \A s : AcceptedOf(s) = {}
      BY <2>1 DEF AcceptedOf
    <2>3. QED
      BY <1>1, <2>1, <2>2, FS_EmptySet DEF CountOf, Unsaved
  <1>4. GateTypes
    <2>1. admitted \in Seq(Initial) /\ boots \in [global : 0..1, source : Nat]
      BY <1>1
    <2>2. QED
      BY <1>1, <1>2, <2>1, FS_EmptySet DEF GateTypes
  <1>5. Extra = GlobalBurst + 1 /\ SourceExtra = SourceBurst + 1
    <2>1. boots.global = 1 /\ boots.source = 1
      BY <1>1
    <2>2. QED
      BY <1>1, <1>2, <2>1 DEF Extra, SourceExtra
  <1>6. /\ GlobalCovered(global, 0, since, wall, Extra, boots.global)
        /\ SourceCovered(Gate!NoBucket, 0, since, wall, SourceExtra, TRUE)
        /\ SourceStored(Gate!NoBucket, 0, since, wall, SourceExtra)
    <2>1. wall \in Nat /\ since \in 0..wall /\ Extra \in Nat /\ SourceExtra \in Nat
      BY <1>1, <1>2, <1>5
    <2>2. global \in BucketOf(GlobalBurst, wall) /\ boots.global = 1 /\ 1 \in 0..1 /\ SourceBucket(Gate!NoBucket, wall)
      BY <1>1, <1>2 DEF BucketOf, SourceBucket
    <2>3. Extra >= GlobalBurst + 1 /\ SourceExtra >= SourceBurst + 1
      BY <1>2, <1>5
    <2>4. SourceCovered(Gate!NoBucket, 0, since, wall, SourceExtra, TRUE)
          /\ SourceStored(Gate!NoBucket, 0, since, wall, SourceExtra)
      BY <2>1, <2>2, <2>3, FullCovers
    <2>5. GlobalCovered(global, 0, since, wall, Extra, 1)
      <3>1. PICK k \in 0..1 : k = 1
        OBVIOUS
      <3>2. (k = 0 => since <= global.last) /\ (k = 1 => Extra >= GlobalBurst + 1)
        BY <2>3, <3>1
      <3>20. \A d \in BucketOf(GlobalBurst, wall) :
               (k = 0 => since <= d.last) => GlobalCovered(d, 0, since, wall, Extra, k)
        BY <2>1, <3>2, FullCovers
      <3>3. QED
        BY <2>2, <3>1, <3>2, <3>20
    <2>6. QED
      BY <2>2, <2>4, <2>5
  <1>7. RatesCovered
    <2>1. (moment = 0) = TRUE
      BY <1>1
    <2>2. \A s \in Initiator : perSource[s] = Gate!NoBucket
      BY <1>1
    <2>3. QED
      BY <1>3, <1>6, <2>1, <2>2 DEF RatesCovered
  <1>8. DiskCovered
    <2>1. Len(admitted) - Unsaved = 0 /\ \A s : CountOf(s) - Unsaved = 0
      BY <1>3
    <2>2. QED
      BY <1>1, <1>6, <2>1 DEF DiskCovered
  <1>9. TracesLeft
    BY <1>1, <1>3 DEF TracesLeft
  <1>10. Gate!NoReplay
    BY <1>3 DEF Gate!NoReplay
  <1>11. QED
    BY <1>4, <1>7, <1>8, <1>9, <1>10 DEF GateInv

\* What the invariant says of the rates.
LEMMA GateHolds ==
    ASSUME Gate!AcceptAssumption, GateInv
    PROVE  Gate!AdmissionHolds
  <1>1. wall \in Nat /\ since \in Nat /\ Len(admitted) \in Nat /\ \A s : CountOf(s) \in Nat
    BY CountsAre DEF GateInv, GateTypes
  <1>2. Extra \in Nat /\ SourceExtra \in Nat /\ given \in Nat /\ boots \in [global : 0..1, source : Nat]
    BY ExtrasAre DEF GateInv, GateTypes
  <1>3. /\ GlobalBurst \in Nat /\ GlobalRefill \in Nat \ {0}
        /\ SourceBurst \in Nat \ {0} /\ SourceRefill \in Nat \ {0}
    BY DEF Gate!AcceptAssumption
  <1>4. Gate!GlobalRateHolds
    <2>1. global \in BucketOf(GlobalBurst, wall)
          /\ Covered(global, Len(admitted), GlobalBurst, GlobalRefill, since, wall, Extra)
      BY DEF GateInv, RatesCovered, GlobalCovered
    <2>2. global.tokens \in 0..GlobalBurst /\ global.last \in Int /\ global.last <= wall
      BY <1>1, <2>1 DEF BucketOf
    <2>3. PICK x \in Int, q \in Int :
            x = Intervals(since, global.last, GlobalRefill) /\ q = Intervals(since, wall, GlobalRefill) /\ x <= q
      <3> DEFINE xx == Intervals(since, global.last, GlobalRefill)
                 qq == Intervals(since, wall, GlobalRefill)
      <3>1. since \in Int /\ wall \in Int
        BY <1>1
      <3>2. xx \in Int /\ qq \in Int
        BY <1>3, <2>2, <3>1, IntervalsAre
      <3>3. xx <= qq
        BY <1>3, <2>2, <3>1, IntervalsAre
      <3> HIDE DEF xx, qq
      <3>4. QED
        BY <3>2, <3>3 DEF xx, qq
    <2>4. Len(admitted) <= GlobalBurst + q + Extra
      <3>1. \/ Len(admitted) + global.tokens <= GlobalBurst + x + Extra
            \/ Len(admitted) + global.tokens + 1 <= q + Extra
        BY <2>1, <2>3 DEF Covered
      <3>2. PICK n \in Nat, e \in Nat, b \in Nat, l \in Nat :
              n = Len(admitted) /\ e = Extra /\ b = GlobalBurst /\ l = global.tokens
        <4>1. global.tokens \in Nat
          BY <1>3, <2>2
        <4>2. Len(admitted) \in Nat /\ Extra \in Nat /\ GlobalBurst \in Nat
          BY <1>1, <1>2, <1>3
        <4>3. QED
          BY <4>1, <4>2
      <3>3. n + l <= b + x + e \/ n + l + 1 <= q + e
        BY <3>1, <3>2
      <3>4. n <= b + q + e
        BY <2>3, <3>3
      <3>5. QED
        BY <3>2, <3>4
    <2>5. PICK y \in Int : y = (GlobalBurst + 1) * boots.global /\ Extra = given + y
      BY <1>2, <1>3 DEF Extra
    <2>6. Len(admitted) <= GlobalBurst + q + given + y
      BY <1>1, <1>2, <1>3, <2>4, <2>5
    <2>7. q = (wall - since) \div GlobalRefill
      BY <2>3 DEF Intervals
    <2>8. QED
      BY <2>5, <2>6, <2>7 DEF Gate!GlobalRateHolds
  <1>5. ASSUME NEW s \in Initiator
        PROVE  CountOf(s) <= SourceBurst + (wall - since) \div SourceRefill + given
                             + (SourceBurst + 1) * boots.source
    <2>0. PICK d : d = perSource[s]
      OBVIOUS
    <2>1. PICK n \in Int : n = CountOf(s)
      BY <1>1
    <2>2. SourceCovered(d, n, since, wall, SourceExtra, moment = 0)
      BY <2>0, <2>1 DEF GateInv, RatesCovered
    <2>3. n + SourceExtra <= n + SourceExtra /\ wall <= wall
      BY <1>1, <1>2
    <2>4. SourceStored(d, n, since, wall, SourceExtra)
      BY <1>1, <1>2, <2>2, <2>3, SourceKept
    <2>5. PICK q \in Int : q = Intervals(since, wall, SourceRefill)
      BY <1>1, SourceIntervals
    <2>6. Left(d) \in Nat
      BY <1>3, <2>4 DEF SourceStored, SourceBucket, Left, BucketOf
    <2>7. n <= SourceBurst + q + SourceExtra
      <3>1. n + Left(d) <= SourceBurst + q + SourceExtra
        BY <2>4, <2>5 DEF SourceStored
      <3>2. QED
        BY <1>2, <1>3, <2>6, <3>1
    <2>8. PICK y \in Int : y = (SourceBurst + 1) * boots.source /\ SourceExtra = given + y
      BY <1>2, <1>3 DEF SourceExtra
    <2>9. n <= SourceBurst + q + given + y
      BY <1>2, <1>3, <2>7, <2>8
    <2>10. q = (wall - since) \div SourceRefill
      BY <2>5 DEF Intervals
    <2>11. QED
      BY <2>1, <2>8, <2>9, <2>10
  <1>6. Gate!SourceRateHolds
    BY <1>5, SameGateSize DEF Gate!SourceRateHolds, CountOf, AcceptedOf
  <1>7. QED
    BY <1>4, <1>6 DEF Gate!AdmissionHolds, GateInv

LEMMA GateKept ==
    ASSUME Gate!AcceptAssumption, GateInv, [Gate!Next]_Gate!vars
    PROVE  GateInv'
  <1>1. ASSUME NEW s \in Initiator, NEW b \in DOMAIN bundles, Gate!Open(s, b) PROVE GateInv'
    BY <1>1, OpenKeeps
  <1>2. ASSUME NEW i \in opened, Gate!Throttle(i) PROVE GateInv'
    BY <1>2, ThrottleKeeps
  <1>3. ASSUME NEW i \in opened, Gate!Accept(i) PROVE GateInv'
    BY <1>3, AcceptKeeps
  <1>4. ASSUME NEW i \in opened, NEW intact \in BOOLEAN, Gate!Refuse(i, intact) PROVE GateInv'
    BY <1>4, RefuseKeeps
  <1>5. ASSUME NEW k \in OpkCounts, Gate!Publish(k) PROVE GateInv'
    <2>1. k \in Nat
      BY DEF Gate!AcceptAssumption
    <2>2. QED
      BY <1>5, <2>1, PublishKeeps
  <1>6. ASSUME NEW saves \in BOOLEAN, Gate!Configure(saves) PROVE GateInv'
    BY <1>6, ConfigureKeeps
  <1>7. CASE Gate!Checkpoint
    BY <1>7, CheckpointKeeps
  <1>8. CASE Gate!Restart
    BY <1>8, RestartKeeps
  <1>9. ASSUME NEW t \in wall..GateNow, Gate!SetNow(t) PROVE GateInv'
    BY <1>9, SetNowKeeps
  <1>10. CASE UNCHANGED Gate!vars
    <2>1. UNCHANGED <<Gate!clock, Gate!gate, Gate!responder, opened, admitted, Gate!history>>
      BY <1>10 DEF Gate!vars
    <2>2. GateTypes' /\ TracesLeft'
      BY <2>1 DEF GateInv, GateTypes, TracesLeft, Gate!clock, Gate!gate, Gate!history, Gate!responder
    <2>3. QED
      BY <2>1, <2>2, SameRates DEF GateInv
  <1>11. QED
    BY <1>1, <1>2, <1>3, <1>4, <1>5, <1>6, <1>7, <1>8, <1>9, <1>10 DEF Gate!Next

\* deniable_accept keeps to its rates over restarts, the boot clock's share aside, and
\* accepts no init twice.
THEOREM AdmissionStays == Gate!AcceptAssumption => (Gate!Spec => []Gate!AdmissionHolds)
  <1> SUFFICES ASSUME Gate!AcceptAssumption PROVE Gate!Spec => []Gate!AdmissionHolds
    OBVIOUS
  <1>1. Gate!Init => GateInv
    BY GateInitially
  <1>2. GateInv /\ [Gate!Next]_Gate!vars => GateInv'
    BY GateKept
  <1>3. GateInv => Gate!AdmissionHolds
    BY GateHolds
  <1>4. QED
    BY <1>1, <1>2, <1>3, PTL DEF Gate!Spec

-----------------------------------------------------------------------------
(* The deniable session: each message opens once, under a key of its own.  *)

CONSTANTS MaxSkip, MaxSkipped, MaxSent
VARIABLES ratchet, joined, sent, read

Ratchet == INSTANCE DoubleRatchet WITH accepted <- joined, opened <- read

LEMMA SameRatchetSize == \A S : Ratchet!Cardinality(S) = Cardinality(S)
  BY DEF Ratchet!Cardinality, Cardinality

\* The ratchet keys in the order they come into use: the signed prekey, then one of a and one
\* of b in turn.
Pub(e) == <<IF e % 2 = 1 THEN "a" ELSE "b", e \div 2>>
Place(dh) == IF dh[1] = "a" THEN 2 * dh[2] + 1 ELSE 2 * dh[2]
Writer(e) == IF e % 2 = 1 THEN "a" ELSE "b"
Reader(e) == IF e % 2 = 1 THEN "b" ELSE "a"

\* The root key after e results.
Root(e) == [i \in 1..e |-> Ratchet!Dh(Pub(i), Pub(i - 1))]
Link(e, n) == [root |-> Root(e), step |-> n]

\* How many messages the writer of e sent under its ratchet key before.
Before(c, e) == IF e < 2 THEN 0 ELSE c[e - 2]

KeyOf(x) == [dh |-> x.dh, n |-> x.n, key |-> x.key]
KeysOf(S) == {KeyOf(x) : x \in S}

\* Under ratchet key e, c[e] messages were sent, numbered from 0.
Message(x, c, Q) ==
    /\ Place(x.dh) \in 1..Q[Writer(Place(x.dh))]
    /\ x.dh = Pub(Place(x.dh)) /\ x.to = Reader(Place(x.dh))
    /\ x.n \in 0..(c[Place(x.dh)] - 1)
    /\ x.key = Link(Place(x.dh), x.n)
    /\ x.pn = Before(c, Place(x.dh))
    /\ x.at \in Nat

Precedes(x, y) ==
    \/ Place(x.dh) < Place(y.dh)
    \/ Place(x.dh) = Place(y.dh) /\ x.n < y.n

Made(S, c, Q) ==
    /\ IsFiniteSet(S)
    /\ c \in [Nat -> Nat] /\ c[0] = 0 /\ \A e \in Nat : e > Q[Writer(e)] => c[e] = 0
    /\ \A x \in S : Message(x, c, Q)
    /\ \A e \in Nat : \A n \in 0..(c[e] - 1) : \E x \in S : x.dh = Pub(e) /\ x.n = n
    /\ \A x, y \in S : x.dh = y.dh /\ x.n = y.n => x = y
    /\ \A x, y \in S : x.to = y.to /\ Precedes(x, y) => x.at < y.at
    /\ \A x \in S : x.at < Cardinality({y \in S : y.to = x.to})

\* The two take turns.
Turns(Q) ==
    /\ Q \in [Ratchet!Party -> Nat] /\ Q["a"] % 2 = 1 /\ Q["b"] % 2 = 0
    /\ Q["a"] = Q["b"] + 1 \/ Q["b"] = Q["a"] + 1

\* What a party at q that has taken nr keys of its receiving chain has passed.
Past(x, q, nr) == Place(x.dh) < q - 1 \/ (Place(x.dh) = q - 1 /\ x.n < nr)
Late(p, q, nr, S, O) == {x \in S \ O : x.to = p /\ Past(x, q, nr)}

IsState(r) ==
    r = [rk |-> r.rk, dhs |-> r.dhs, dhr |-> r.dhr, cks |-> r.cks, ckr |-> r.ckr,
         ns |-> r.ns, nr |-> r.nr, pn |-> r.pn, skipped |-> r.skipped]

\* A party at q: what it can send, and what it can still open.
Sends(r, q, c) ==
    /\ IsState(r)
    /\ r.rk = Root(q) /\ r.dhs = Pub(q) /\ r.ns = c[q] /\ r.pn = Before(c, q)
    /\ r.cks = (IF q = 0 THEN Ratchet!NoChain ELSE Link(q, c[q]))

KeysBounded(r) == IsFiniteSet(r.skipped) /\ Cardinality(r.skipped) <= MaxSkipped

Receives(p, r, q, c, S, O) ==
    /\ r.dhr = (IF q = 0 THEN Ratchet!NoKey ELSE Pub(q - 1))
    /\ r.ckr = (IF q <= 1 THEN Ratchet!NoChain ELSE Link(q - 1, r.nr))
    /\ r.nr \in Nat /\ r.nr <= (IF q = 0 THEN 0 ELSE c[q - 1])
    /\ r.skipped = KeysOf(Late(p, q, r.nr, S, O))
    /\ KeysBounded(r)
    /\ \A x \in O : x.to = p => Past(x, q, r.nr)

Session(R, c, Q, S, O) ==
    /\ Turns(Q) /\ Made(S, c, Q)
    /\ \A p \in Ratchet!Party : Sends(R[p], Q[p], c) /\ Receives(p, R[p], Q[p], c, S, O)

RatchetInv ==
    /\ read \subseteq sent
    /\ ratchet = [p \in Ratchet!Party |-> ratchet[p]]
    /\ ~joined => ratchet["b"] = Ratchet!InitBob
    /\ \E c, Q : (joined <=> Q["b"] # 0) /\ Session(ratchet, c, Q, sent, read)

-----------------------------------------------------------------------------
\* The place of a ratchet key.
LEMMA PlaceOf ==
    \A e \in Nat : /\ Place(Pub(e)) = e /\ Pub(e) # Ratchet!NoKey
                   /\ Pub(e + 2) = <<Pub(e)[1], Pub(e)[2] + 1>>
                   /\ Reader(e + 1) = Writer(e) /\ Reader(e + 2) = Reader(e)
                   /\ Writer(e) # Reader(e) /\ Writer(e) \in Ratchet!Party /\ Reader(e) \in Ratchet!Party
                   /\ Ratchet!Other(Writer(e)) = Reader(e) /\ Ratchet!Other(Reader(e)) = Writer(e)
  <1> SUFFICES ASSUME NEW e \in Nat
               PROVE  /\ Place(Pub(e)) = e /\ Pub(e) # Ratchet!NoKey
                      /\ Pub(e + 2) = <<Pub(e)[1], Pub(e)[2] + 1>>
                      /\ Reader(e + 1) = Writer(e) /\ Reader(e + 2) = Reader(e)
                      /\ Writer(e) # Reader(e) /\ Writer(e) \in Ratchet!Party /\ Reader(e) \in Ratchet!Party
                      /\ Ratchet!Other(Writer(e)) = Reader(e) /\ Ratchet!Other(Reader(e)) = Writer(e)
    OBVIOUS
  <1>1. PICK d \in Nat, r \in {0, 1} : e = 2 * d + r
    <2>1. e = 2 * (e \div 2) + (e % 2) /\ e \div 2 \in Nat /\ e % 2 \in {0, 1}
      OBVIOUS
    <2>2. QED
      BY <2>1
  <1>2. e \div 2 = d /\ e % 2 = r /\ (e + 2) \div 2 = d + 1 /\ (e + 2) % 2 = r /\ (e + 1) % 2 = 1 - r
    BY <1>1
  <1>3. Pub(e) = <<IF r = 1 THEN "a" ELSE "b", d>> /\ Pub(e + 2) = <<IF r = 1 THEN "a" ELSE "b", d + 1>>
    BY <1>2 DEF Pub
  <1>4. Place(Pub(e)) = e
    BY <1>1, <1>3 DEF Place
  <1>5. Pub(e) # Ratchet!NoKey /\ Pub(e + 2) = <<Pub(e)[1], Pub(e)[2] + 1>>
    BY <1>3 DEF Ratchet!NoKey
  <1>6. QED
    BY <1>1, <1>2, <1>4, <1>5 DEF Writer, Reader, Ratchet!Party, Ratchet!Other

LEMMA Roots ==
    \A e \in Nat : /\ Root(e) \in Seq(SUBSET (Ratchet!Party \X Nat)) /\ Len(Root(e)) = e
                   /\ Append(Root(e), Ratchet!Dh(Pub(e), Pub(e + 1))) = Root(e + 1)
                   /\ Append(Root(e + 1), Ratchet!Dh(Pub(e + 2), Pub(e + 1))) = Root(e + 2)
                   /\ \A f \in Nat : Root(e) = Root(f) => e = f
  <1>1. \A e \in Nat : Pub(e) \in Ratchet!Party \X Nat
    BY DEF Pub, Ratchet!Party
  <1>2. ASSUME NEW e \in Nat
        PROVE  /\ Root(e) \in Seq(SUBSET (Ratchet!Party \X Nat)) /\ Len(Root(e)) = e
               /\ Append(Root(e), Ratchet!Dh(Pub(e), Pub(e + 1))) = Root(e + 1)
               /\ Append(Root(e), Ratchet!Dh(Pub(e + 1), Pub(e))) = Root(e + 1)
    <2>1. \A i \in 1..e : Ratchet!Dh(Pub(i), Pub(i - 1)) \in SUBSET (Ratchet!Party \X Nat)
      BY <1>1 DEF Ratchet!Dh
    <2>2. Root(e) \in Seq(SUBSET (Ratchet!Party \X Nat)) /\ Len(Root(e)) = e
      BY <2>1 DEF Root
    <2> DEFINE z == Ratchet!Dh(Pub(e + 1), Pub(e))
    <2>3. z = Ratchet!Dh(Pub(e), Pub(e + 1)) /\ z = Ratchet!Dh(Pub(e + 1), Pub((e + 1) - 1))
      BY DEF Ratchet!Dh
    <2> HIDE DEF z
    <2>4. Append(Root(e), z) = Root(e + 1)
      <3>0. z \in SUBSET (Ratchet!Party \X Nat)
        BY <1>1, <2>3 DEF Ratchet!Dh
      <3>1. Append(Root(e), z) = [i \in 1..(e + 1) |-> IF i = e + 1 THEN z ELSE Root(e)[i]]
        <4> DEFINE s == Root(e)
        <4>1. s \in Seq(SUBSET (Ratchet!Party \X Nat)) /\ Len(s) = e
          BY <2>2
        <4> HIDE DEF s
        <4>2. PICK T : T = SUBSET (Ratchet!Party \X Nat)
          OBVIOUS
        <4>3. s \in Seq(T) /\ z \in T
          BY <3>0, <4>1, <4>2
        <4>4. Append(s, z) = [i \in 1..(e + 1) |-> IF i = e + 1 THEN z ELSE s[i]]
          <5> DEFINE A == Append(s, z)
          <5>1. A \in Seq(T) /\ Len(A) = e + 1 /\ (\A i \in 1..e : A[i] = s[i]) /\ A[e + 1] = z
            BY <4>1, <4>3, AppendProperties
          <5> HIDE DEF A
          <5>2. A = [i \in 1..(e + 1) |-> A[i]]
            BY <5>1
          <5>3. \A i \in 1..(e + 1) : A[i] = IF i = e + 1 THEN z ELSE s[i]
            BY <5>1
          <5>4. QED
            BY <5>2, <5>3 DEF A
        <4>5. QED
          BY <4>4 DEF s
      <3>2. ASSUME NEW i \in 1..(e + 1)
            PROVE (IF i = e + 1 THEN z ELSE Root(e)[i]) = Ratchet!Dh(Pub(i), Pub(i - 1))
        BY <2>3 DEF Root
      <3>3. QED
        BY <3>1, <3>2 DEF Root
    <2>5. QED
      BY <2>2, <2>3, <2>4 DEF z
  <1>3. QED
    <2> SUFFICES ASSUME NEW e \in Nat
                 PROVE  /\ Root(e) \in Seq(SUBSET (Ratchet!Party \X Nat)) /\ Len(Root(e)) = e
                        /\ Append(Root(e), Ratchet!Dh(Pub(e), Pub(e + 1))) = Root(e + 1)
                        /\ Append(Root(e + 1), Ratchet!Dh(Pub(e + 2), Pub(e + 1))) = Root(e + 2)
                        /\ \A f \in Nat : Root(e) = Root(f) => e = f
      OBVIOUS
    <2>1. PICK d \in Nat : d = e + 1
      OBVIOUS
    <2>2. Append(Root(d), Ratchet!Dh(Pub(d + 1), Pub(d))) = Root(d + 1)
      BY <1>2
    <2>3. d + 1 = e + 2
      BY <2>1
    <2>4. Append(Root(e + 1), Ratchet!Dh(Pub(e + 2), Pub(e + 1))) = Root(e + 2)
      BY <2>1, <2>2, <2>3
    <2>5. \A f \in Nat : Len(Root(f)) = f
      BY <1>2
    <2>6. QED
      BY <1>2, <2>4, <2>5

\* Two links are the same only at the same place and step.
LEMMA Links ==
    \A e, f \in Nat : \A n, k : /\ Link(e, n) = Link(f, k) => e = f /\ n = k
                                /\ Link(e, n).root = Root(e) /\ Link(e, n).step = n
                                /\ Link(e, 0) = Ratchet!Chain(Root(e))
  BY Roots DEF Link, Ratchet!Chain

LEMMA LinkIsChain == \A e \in Nat, n \in Nat : Link(e, n) # Ratchet!NoChain
  BY DEF Link, Ratchet!NoChain

LEMMA KeysSize ==
    ASSUME NEW S, IsFiniteSet(S)
    PROVE  IsFiniteSet(KeysOf(S)) /\ Cardinality(KeysOf(S)) <= Cardinality(S)
  <1> DEFINE f == [x \in S |-> KeyOf(x)]
  <1>1. f \in Surjection(S, KeysOf(S))
    BY DEF Surjection, KeysOf
  <1> HIDE DEF f
  <1>2. QED
    BY <1>1, FS_Surjection

\* A set of messages that has every number from i to j - 1 is at least as large.
LEMMA StepsSize ==
    ASSUME NEW G, IsFiniteSet(G), NEW i \in Nat, NEW j \in Nat, i <= j,
           \A k \in i..(j - 1) : \E x \in G : x.n = k
    PROVE  j - i <= Cardinality(G) /\ Cardinality(G) \in Nat
  <1> DEFINE T == {x.n : x \in G}
             f == [x \in G |-> x.n]
  <1>1. f \in Surjection(G, T)
    BY DEF Surjection
  <1>2. i..(j - 1) \subseteq T
    OBVIOUS
  <1> HIDE DEF f, T
  <1>3. IsFiniteSet(T) /\ Cardinality(T) <= Cardinality(G)
    BY <1>1, FS_Surjection
  <1>4. Cardinality(i..(j - 1)) <= Cardinality(T)
    BY <1>2, <1>3, FS_Subset
  <1>5. Cardinality(i..(j - 1)) = j - i
    <2>1. i \in Int /\ j - 1 \in Int
      OBVIOUS
    <2>2. Cardinality(i..(j - 1)) = IF i > j - 1 THEN 0 ELSE (j - 1) - i + 1
      BY <2>1, FS_Interval
    <2>3. QED
      BY <2>2
  <1>6. Cardinality(G) \in Nat /\ Cardinality(T) \in Nat
    BY <1>3, FS_CardinalityType
  <1>7. QED
    BY <1>3, <1>4, <1>5, <1>6

-----------------------------------------------------------------------------
\* The keys that are kept when those of one chain are passed over.
Gap(dh, R, i, j) == {[dh |-> dh, n |-> k, key |-> [root |-> R, step |-> k]] : k \in i..(j - 1)}

LEMMA GapSize ==
    ASSUME NEW dh, NEW R, NEW i \in Nat, NEW j \in Nat, i <= j
    PROVE  IsFiniteSet(Gap(dh, R, i, j)) /\ Cardinality(Gap(dh, R, i, j)) <= j - i
  <1> DEFINE I == i..(j - 1)
             f == [k \in I |-> [dh |-> dh, n |-> k, key |-> [root |-> R, step |-> k]]]
  <1>1. f \in Surjection(I, Gap(dh, R, i, j))
    BY DEF Surjection, Gap
  <1>2. IsFiniteSet(I) /\ Cardinality(I) = j - i
    <2>1. i \in Int /\ j - 1 \in Int
      OBVIOUS
    <2>2. IsFiniteSet(i..(j - 1)) /\ Cardinality(i..(j - 1)) = IF i > j - 1 THEN 0 ELSE (j - 1) - i + 1
      BY <2>1, FS_Interval
    <2>3. QED
      BY <2>2
  <1> HIDE DEF f, I
  <1>3. QED
    BY <1>1, <1>2, FS_Surjection

SkipOf(s, r, R, u) ==
    /\ IsState(s)
    /\ s.rk = r.rk /\ s.dhs = r.dhs /\ s.dhr = r.dhr /\ s.cks = r.cks /\ s.ns = r.ns /\ s.pn = r.pn
    /\ s.nr = (IF u <= r.nr THEN r.nr ELSE u)
    /\ s.ckr = [root |-> R, step |-> s.nr]
    /\ s.skipped = r.skipped \cup Gap(r.dhr, R, r.nr, u)

Passed(r, u) ==
    {[dh |-> r.dhr, n |-> k, key |-> [r.ckr EXCEPT !.step = @ + k - r.nr]] : k \in r.nr..(u - 1)}

LEMMA SkipIs ==
    ASSUME NEW r, NEW u, ~(u <= r.nr)
    PROVE  Ratchet!Skip(r, u) = [r EXCEPT !.skipped = r.skipped \cup Passed(r, u),
                                  !.ckr.step = @ + u - r.nr, !.nr = u]
  BY DEF Ratchet!Skip, Passed

\* What Skip leaves of a state with a receiving chain.
LEMMA SkipLeaves ==
    ASSUME NEW r, IsState(r), r.nr \in Nat, NEW R, r.ckr = [root |-> R, step |-> r.nr],
           NEW u \in Nat
    PROVE  SkipOf(Ratchet!Skip(r, u), r, R, u)
  <1> DEFINE s == Ratchet!Skip(r, u)
  <1>1. CASE u <= r.nr
    <2>1. s = r
      BY <1>1 DEF Ratchet!Skip
    <2>2. Gap(r.dhr, R, r.nr, u) = {}
      BY <1>1 DEF Gap
    <2>3. QED
      BY <1>1, <2>1, <2>2 DEF SkipOf
  <1>2. CASE ~(u <= r.nr)
    <2> DEFINE K == Passed(r, u)
    <2>1. s = [r EXCEPT !.skipped = r.skipped \cup K, !.ckr.step = @ + u - r.nr, !.nr = u]
      BY <1>2, SkipIs
    <2>2. \A k \in Int : [r.ckr EXCEPT !.step = @ + k - r.nr] = [root |-> R, step |-> k]
      <3> TAKE k \in Int
      <3>1. r.nr + k - r.nr = k
        OBVIOUS
      <3>2. QED
        BY <3>1
    <2>3. K = Gap(r.dhr, R, r.nr, u)
      BY <2>2 DEF Gap, Passed
    <2>4. r.ckr.step + u - r.nr = u /\ [r.ckr EXCEPT !.step = u] = [root |-> R, step |-> u]
      OBVIOUS
    <2> HIDE DEF K, s
    <2>5. s = [r EXCEPT !.skipped = r.skipped \cup Gap(r.dhr, R, r.nr, u), !.ckr = [root |-> R, step |-> u], !.nr = u]
      <3>1. s = [r EXCEPT !.skipped = r.skipped \cup Gap(r.dhr, R, r.nr, u), !.ckr.step = u, !.nr = u]
        BY <2>1, <2>3, <2>4
      <3>2. QED
        BY <2>4, <3>1
    <2>6. s = [rk |-> r.rk, dhs |-> r.dhs, dhr |-> r.dhr, cks |-> r.cks, ckr |-> [root |-> R, step |-> u],
               ns |-> r.ns, nr |-> u, pn |-> r.pn, skipped |-> r.skipped \cup Gap(r.dhr, R, r.nr, u)]
      BY <2>5 DEF IsState
    <2>7. IsState(s)
      BY <2>6 DEF IsState
    <2>8. QED
      BY <1>2, <2>6, <2>7 DEF s, SkipOf
  <1>3. QED
    BY <1>1, <1>2

LEMMA SkipNone ==
    \A r : \A u : u <= r.nr => Ratchet!Skip(r, u) = r /\ (r.nr \in Nat /\ u \in Nat => ~Ratchet!SkipFails(r, u))
  BY DEF Ratchet!Skip, Ratchet!SkipFails

\* A gap that Skip passes keeps the bound.
LEMMA SkipBounded ==
    ASSUME Ratchet!RatchetAssumption, NEW r, IsState(r), r.nr \in Nat, NEW R,
           r.ckr = [root |-> R, step |-> r.nr], NEW u \in Nat, KeysBounded(r), ~Ratchet!SkipFails(r, u)
    PROVE  KeysBounded(Ratchet!Skip(r, u))
  <1>1. CASE u <= r.nr
    BY <1>1 DEF Ratchet!Skip
  <1>2. CASE r.nr < u
    <2>1. Ratchet!Skip(r, u).skipped = r.skipped \cup Gap(r.dhr, R, r.nr, u)
      <3>1. SkipOf(Ratchet!Skip(r, u), r, R, u)
        BY SkipLeaves
      <3>2. QED
        BY <3>1 DEF SkipOf
    <2>2. IsFiniteSet(r.skipped) /\ Cardinality(r.skipped) \in Nat
      BY FS_CardinalityType DEF KeysBounded
    <2>3. PICK i \in Nat : i = r.nr
      OBVIOUS
    <2>4. IsFiniteSet(Gap(r.dhr, R, i, u)) /\ Cardinality(Gap(r.dhr, R, i, u)) <= u - i
      BY <1>2, <2>3, GapSize
    <2>5. /\ IsFiniteSet(r.skipped \cup Gap(r.dhr, R, i, u))
          /\ Cardinality(r.skipped \cup Gap(r.dhr, R, i, u)) <= Cardinality(r.skipped) + Cardinality(Gap(r.dhr, R, i, u))
      <3>1. IsFiniteSet(r.skipped \cap Gap(r.dhr, R, i, u))
        BY <2>2, FS_Intersection
      <3>2. Cardinality(r.skipped \cap Gap(r.dhr, R, i, u)) \in Nat /\ Cardinality(Gap(r.dhr, R, i, u)) \in Nat
        BY <3>1, <2>4, FS_CardinalityType
      <3>3. /\ IsFiniteSet(r.skipped \cup Gap(r.dhr, R, i, u))
            /\ Cardinality(r.skipped \cup Gap(r.dhr, R, i, u)) =
                 Cardinality(r.skipped) + Cardinality(Gap(r.dhr, R, i, u))
                   - Cardinality(r.skipped \cap Gap(r.dhr, R, i, u))
        BY <2>2, <2>4, FS_Union
      <3>4. QED
        BY <2>2, <3>2, <3>3
    <2>6. Cardinality(r.skipped) + u - i <= MaxSkipped
      BY <1>2, <2>2, <2>3, SameRatchetSize DEF Ratchet!SkipFails, Ratchet!RatchetAssumption
    <2>7. Cardinality(Gap(r.dhr, R, i, u)) \in Nat /\ Cardinality(r.skipped \cup Gap(r.dhr, R, i, u)) \in Nat
      BY <2>4, <2>5, FS_CardinalityType
    <2>8. Cardinality(r.skipped \cup Gap(r.dhr, R, i, u)) <= MaxSkipped
      BY <2>2, <2>4, <2>5, <2>6, <2>7 DEF Ratchet!RatchetAssumption
    <2>9. QED
      BY <2>1, <2>3, <2>5, <2>8 DEF KeysBounded
  <1>3. QED
    BY <1>1, <1>2

-----------------------------------------------------------------------------
\* What one party knows of the session.
PartyView(p, r, q, c, Q, S, O) ==
    /\ p \in Ratchet!Party /\ Turns(Q) /\ q = Q[p] /\ Made(S, c, Q) /\ O \subseteq S
    /\ Sends(r, q, c) /\ Receives(p, r, q, c, S, O)

\* The places of the two, and of a message.
LEMMA PlacesAre ==
    ASSUME NEW Q, Turns(Q), NEW p \in Ratchet!Party
    PROVE  /\ Ratchet!Other(p) \in Ratchet!Party /\ Ratchet!Other(p) # p /\ Ratchet!Other(Ratchet!Other(p)) = p
           /\ Q[p] \in Nat /\ Q[Ratchet!Other(p)] \in Nat
           /\ Writer(Q[p]) = p /\ Reader(Q[p]) = Ratchet!Other(p)
           /\ (Q[Ratchet!Other(p)] = Q[p] + 1 \/ Q[p] = Q[Ratchet!Other(p)] + 1)
           /\ Q[p] = 0 => p = "b"
  BY DEF Turns, Ratchet!Party, Ratchet!Other, Writer, Reader

IsFor(x, e, q, c, Q, p) ==
    /\ e \in Nat /\ e >= 1 /\ (e = q + 1 \/ e + 1 <= q) /\ Reader(e) = p
    /\ Place(x.dh) = e /\ x.dh = Pub(e)
    /\ x.n \in Nat /\ x.n < c[e] /\ x.key = Link(e, x.n) /\ x.pn = Before(c, e)
    /\ e = q + 1 => Q[Ratchet!Other(p)] = q + 1

LEMMA MessageFor ==
    ASSUME NEW S, NEW c, NEW Q, Made(S, c, Q), Turns(Q), NEW p \in Ratchet!Party, NEW q, q = Q[p],
           NEW x \in S, x.to = p
    PROVE  \E e \in Nat : IsFor(x, e, q, c, Q, p)
  <1>1. Message(x, c, Q)
    BY DEF Made
  <1> DEFINE e == Place(x.dh)
  <1>2. /\ e \in 1..Q[Writer(e)] /\ x.dh = Pub(e) /\ p = Reader(e)
        /\ x.n \in 0..(c[e] - 1) /\ x.key = Link(e, x.n) /\ x.pn = Before(c, e)
    BY <1>1 DEF Message
  <1>3. Ratchet!Other(p) \in Ratchet!Party /\ Q[Ratchet!Other(p)] \in Nat /\ q \in Nat
        /\ (Q[Ratchet!Other(p)] = q + 1 \/ q = Q[Ratchet!Other(p)] + 1) /\ Reader(q) = Ratchet!Other(p) /\ Ratchet!Other(p) # p
    BY PlacesAre
  <1>4. Writer(e) \in Ratchet!Party /\ \A y \in Ratchet!Party : Q[y] \in Nat
    BY DEF Writer, Ratchet!Party, Turns
  <1>5. e \in Nat /\ e >= 1
    BY <1>2, <1>4
  <1>6. Writer(e) = Ratchet!Other(p)
    BY <1>2, <1>5, PlaceOf
  <1>7. c \in [Nat -> Nat] /\ c[e] \in Nat
    BY <1>5 DEF Made
  <1>8. x.n \in Nat /\ x.n < c[e]
    <2> HIDE DEF e
    <2>1. QED
      BY <1>2, <1>7
  <1>9. e <= Q[Ratchet!Other(p)]
    BY <1>2, <1>3, <1>6
  <1>10. e # q
    BY <1>2, <1>3
  <1> HIDE DEF e
  <1>11. e = q + 1 \/ e + 1 <= q
    BY <1>3, <1>5, <1>9, <1>10
  <1>12. e = q + 1 => Q[Ratchet!Other(p)] = q + 1
    BY <1>3, <1>5, <1>9
  <1>13. QED
    BY <1>2, <1>5, <1>8, <1>11, <1>12 DEF IsFor, e

\* The keys passed over are those of the messages that have them.
LEMMA GapKeys ==
    ASSUME NEW S, NEW c, NEW Q, Made(S, c, Q), NEW f \in Nat, NEW i \in Nat, NEW j \in Nat, j <= c[f]
    PROVE  Gap(Pub(f), Root(f), i, j) = KeysOf({x \in S : Place(x.dh) = f /\ i <= x.n /\ x.n < j})
  <1> DEFINE G == {x \in S : Place(x.dh) = f /\ i <= x.n /\ x.n < j}
             key(k) == [dh |-> Pub(f), n |-> k, key |-> [root |-> Root(f), step |-> k]]
  <1>1. c[f] \in Nat
    BY DEF Made
  <1>2. ASSUME NEW x \in G PROVE x.n \in i..(j - 1) /\ KeyOf(x) = key(x.n)
    <2>1. Message(x, c, Q) /\ Place(x.dh) = f
      BY <1>2 DEF Made
    <2>2. x.dh = Pub(f) /\ x.n \in 0..(c[f] - 1) /\ x.key = Link(f, x.n)
      BY <2>1 DEF Message
    <2>3. x.n \in Int
      BY <1>1, <2>2
    <2>4. QED
      BY <2>2, <2>3 DEF KeyOf, Link
  <1>3. ASSUME NEW k \in i..(j - 1) PROVE \E x \in G : KeyOf(x) = key(k)
    <2>1. k \in 0..(c[f] - 1)
      BY <1>1
    <2>2. PICK x \in S : x.dh = Pub(f) /\ x.n = k
      BY <2>1 DEF Made
    <2>3. Place(x.dh) = f
      BY <2>2, PlaceOf
    <2>4. x \in G
      BY <2>2, <2>3
    <2>5. KeyOf(x) = key(x.n)
      BY <1>2, <2>4
    <2>6. QED
      BY <2>2, <2>4, <2>5
  <1>4. Gap(Pub(f), Root(f), i, j) = {key(k) : k \in i..(j - 1)}
    BY DEF Gap
  <1>5. KeysOf(G) = {KeyOf(x) : x \in G}
    BY DEF KeysOf
  <1> HIDE DEF G, key
  <1>6. {KeyOf(x) : x \in G} = {key(k) : k \in i..(j - 1)}
    BY <1>2, <1>3
  <1>7. QED
    BY <1>4, <1>5, <1>6 DEF G

LEMMA KeysJoin == \A A, B : KeysOf(A) \cup KeysOf(B) = KeysOf(A \cup B)
  BY DEF KeysOf

\* The key kept for a message is there exactly while the message is late.
LEMMA LateIs ==
    ASSUME NEW p, NEW r, NEW q, NEW c, NEW Q, NEW S, NEW O, PartyView(p, r, q, c, Q, S, O),
           NEW m \in S, m.to = p
    PROVE  {k \in r.skipped : k.dh = m.dh /\ k.n = m.n} =
             IF m \in Late(p, q, r.nr, S, O) THEN {KeyOf(m)} ELSE {}
  <1> DEFINE L == Late(p, q, r.nr, S, O)
  <1>1. r.skipped = {KeyOf(x) : x \in L}
    BY DEF PartyView, Receives, KeysOf
  <1>2. L \subseteq S
    BY DEF Late
  <1>3. \A x \in S : x.dh = m.dh /\ x.n = m.n => x = m
    BY DEF PartyView, Made
  <1>4. \A x : KeyOf(x).dh = x.dh /\ KeyOf(x).n = x.n
    BY DEF KeyOf
  <1> HIDE DEF L
  <1>5. \A k \in r.skipped : k.dh = m.dh /\ k.n = m.n <=> k = KeyOf(m) /\ m \in L
    BY <1>1, <1>2, <1>3, <1>4
  <1>6. QED
    BY <1>1, <1>4, <1>5 DEF L

-----------------------------------------------------------------------------
\* The gap of a receiving chain that a message shows.
Reach(q, c) == IF q = 0 THEN 0 ELSE c[q - 1]

LEMMA ReachIs ==
    ASSUME NEW S, NEW c, NEW Q, Made(S, c, Q), NEW q \in Nat
    PROVE  Reach(q, c) \in Nat /\ Before(c, q + 1) = Reach(q, c) /\ (q <= 1 => Reach(q, c) = 0)
  <1>1. c \in [Nat -> Nat] /\ c[0] = 0
    BY DEF Made
  <1>2. CASE q = 0
    BY <1>2 DEF Reach, Before
  <1>3. CASE q # 0
    <2>1. q - 1 \in Nat /\ (q + 1) - 2 = q - 1 /\ ~(q + 1 < 2)
      BY <1>3
    <2>2. QED
      BY <1>1, <1>3, <2>1 DEF Reach, Before
  <1>4. QED
    BY <1>2, <1>3

\* The rest of the receiving chain is passed over.
PassedTo(s, r, u, p, S, O, q) ==
    /\ IsState(s) /\ s.rk = r.rk /\ s.dhs = r.dhs /\ s.dhr = r.dhr /\ s.cks = r.cks /\ s.ns = r.ns
    /\ s.nr \in Nat /\ s.nr = (IF u <= r.nr THEN r.nr ELSE u)
    /\ s.ckr = (IF q <= 1 THEN Ratchet!NoChain ELSE Link(q - 1, s.nr))
    /\ s.skipped = KeysOf(Late(p, q, s.nr, S, O))
    /\ ~Ratchet!SkipFails(r, u) => KeysBounded(s)

LEMMA SkipPasses ==
    ASSUME Ratchet!RatchetAssumption, NEW p, NEW r, NEW q, NEW c, NEW Q, NEW S, NEW O, PartyView(p, r, q, c, Q, S, O),
           NEW u \in Nat, u <= Reach(q, c)
    PROVE  PassedTo(Ratchet!Skip(r, u), r, u, p, S, O, q)
  <1> DEFINE s == Ratchet!Skip(r, u)
  <1>1. q \in Nat /\ p \in Ratchet!Party /\ Turns(Q) /\ Made(S, c, Q) /\ O \subseteq S /\ q = Q[p]
    BY PlacesAre DEF PartyView
  <1>2. /\ IsState(r) /\ r.nr \in Nat /\ r.nr <= Reach(q, c)
        /\ r.ckr = (IF q <= 1 THEN Ratchet!NoChain ELSE Link(q - 1, r.nr))
        /\ r.dhr = (IF q = 0 THEN Ratchet!NoKey ELSE Pub(q - 1))
        /\ r.skipped = KeysOf(Late(p, q, r.nr, S, O))
        /\ KeysBounded(r) /\ \A x \in O : x.to = p => Past(x, q, r.nr)
    BY DEF PartyView, Sends, Receives, Reach
  <1>3. CASE u <= r.nr
    <2>1. s = r
      BY <1>3, SkipNone
    <2>2. QED
      BY <1>2, <1>3, <2>1 DEF PassedTo
  <1>4. CASE ~(u <= r.nr)
    <2>1. q >= 2 /\ q - 1 \in Nat /\ Reach(q, c) = c[q - 1] /\ ~(q <= 1)
      BY <1>1, <1>2, <1>4, ReachIs DEF Reach
    <2>2. PICK f \in Nat : f = q - 1
      BY <2>1
    <2>3. r.ckr = [root |-> Root(f), step |-> r.nr] /\ r.dhr = Pub(f) /\ u <= c[f]
      BY <1>2, <2>1, <2>2 DEF Link
    <2>4. SkipOf(s, r, Root(f), u)
      BY <1>2, <2>3, SkipLeaves
    <2>5. ~Ratchet!SkipFails(r, u) => KeysBounded(s)
      BY <1>2, <2>3, SkipBounded
    <2> HIDE DEF s
    <2>6. /\ IsState(s) /\ s.rk = r.rk /\ s.dhs = r.dhs /\ s.dhr = r.dhr /\ s.cks = r.cks /\ s.ns = r.ns
          /\ s.nr = u /\ s.ckr = [root |-> Root(f), step |-> u]
          /\ s.skipped = r.skipped \cup Gap(Pub(f), Root(f), r.nr, u)
      BY <1>4, <2>3, <2>4 DEF SkipOf
    <2> DEFINE G == {x \in S : Place(x.dh) = f /\ r.nr <= x.n /\ x.n < u}
    <2>7. Gap(Pub(f), Root(f), r.nr, u) = KeysOf(G)
      BY <1>1, <1>2, <2>3, GapKeys
    <2>8. Late(p, q, r.nr, S, O) \cup G = Late(p, q, u, S, O)
      <3>1. ASSUME NEW x \in G PROVE x \in S \ O /\ x.to = p /\ Past(x, q, u)
        <4>1. Message(x, c, Q) /\ Place(x.dh) = f /\ f + 1 = q
          BY <1>1, <2>2, <3>1 DEF Made
        <4>2. x.to = Reader(f)
          BY <4>1 DEF Message
        <4>3. x.to = p
          <5>1. Writer(f + 1) = Reader(f)
            <6>1. Reader(f + 2) = Writer(f + 1) /\ Reader(f + 2) = Reader(f)
              <7>1. PICK g \in Nat : g = f + 1
                OBVIOUS
              <7>2. Reader(g + 1) = Writer(g) /\ g + 1 = f + 2
                BY <7>1, PlaceOf
              <7>3. QED
                BY <7>1, <7>2, PlaceOf
            <6>2. QED
              BY <6>1
          <5>2. Writer(q) = p
            BY <1>1, PlacesAre
          <5>3. QED
            BY <4>1, <4>2, <5>1, <5>2
        <4>4. ~Past(x, q, r.nr)
          <5>1. x.n \in Int
            <6>1. c[f] \in Nat
              BY <1>1, <2>2 DEF Made
            <6>2. QED
              BY <4>1, <6>1 DEF Message
          <5>2. QED
            BY <1>1, <1>2, <2>2, <3>1, <5>1 DEF Past
        <4>5. Past(x, q, u)
          BY <2>2, <3>1 DEF Past
        <4>6. QED
          BY <1>2, <3>1, <4>3, <4>4, <4>5
      <3>2. ASSUME NEW x \in S, Past(x, q, u), ~Past(x, q, r.nr) PROVE x \in G
        <4>1. Message(x, c, Q)
          BY <1>1 DEF Made
        <4>2. Place(x.dh) = f
          BY <2>2, <3>2 DEF Past
        <4>3. x.n \in Int
          <5>1. c[f] \in Nat
            BY <1>1, <2>2 DEF Made
          <5>2. QED
            BY <4>1, <4>2, <5>1 DEF Message
        <4>4. QED
          BY <1>2, <2>2, <3>2, <4>2, <4>3 DEF Past
      <3>3. ASSUME NEW x \in S, Past(x, q, r.nr) PROVE Past(x, q, u)
        <4>1. Message(x, c, Q)
          BY <1>1 DEF Made
        <4>2. Place(x.dh) = f => x.n \in Int
          <5>1. c[f] \in Nat
            BY <1>1, <2>2 DEF Made
          <5>2. QED
            BY <4>1, <5>1 DEF Message
        <4>3. QED
          BY <1>2, <1>4, <2>2, <3>3, <4>2 DEF Past
      <3> HIDE DEF G
      <3>4. G \subseteq S
        BY DEF G
      <3>5. QED
        BY <3>1, <3>2, <3>3, <3>4 DEF Late
    <2>9. s.skipped = KeysOf(Late(p, q, u, S, O))
      BY <1>2, <2>6, <2>7, <2>8, KeysJoin
    <2>10. s.ckr = Link(q - 1, u)
      BY <2>2, <2>6 DEF Link
    <2>11. s.nr = (IF u <= r.nr THEN r.nr ELSE u) /\ s.nr \in Nat
      BY <1>4, <2>6
    <2>12. QED
      BY <2>1, <2>5, <2>6, <2>9, <2>10, <2>11 DEF PassedTo, s
  <1>5. QED
    BY <1>3, <1>4

\* Its own ratchet key rolled, the party knows the session as before.
LEMMA TurnKeeps ==
    ASSUME Ratchet!RatchetAssumption, NEW p, NEW r, NEW q, NEW c, NEW Q, NEW S, NEW O, PartyView(p, r, q, c, Q, S, O),
           Q[Ratchet!Other(p)] = q + 1, ~Ratchet!SkipFails(r, Reach(q, c))
    PROVE  PartyView(p, Ratchet!DhRatchet(Ratchet!Skip(r, Reach(q, c)), Pub(q + 1)), q + 2, c, [Q EXCEPT ![p] = q + 2], S, O)
  <1> DEFINE u == Reach(q, c)
             s == Ratchet!Skip(r, u)
             t == Ratchet!DhRatchet(s, Pub(q + 1))
             Q2 == [Q EXCEPT ![p] = q + 2]
  <1>1. q \in Nat /\ p \in Ratchet!Party /\ Turns(Q) /\ Made(S, c, Q) /\ O \subseteq S /\ q = Q[p]
        /\ Q \in [Ratchet!Party -> Nat] /\ Ratchet!Other(p) \in Ratchet!Party /\ Ratchet!Other(p) # p /\ Writer(q) = p
    BY PlacesAre DEF PartyView, Turns
  <1>2. u \in Nat /\ u <= u
    BY <1>1, ReachIs
  <1>3. PassedTo(s, r, u, p, S, O, q)
    BY <1>2, SkipPasses
  <1>4. /\ IsState(s) /\ s.rk = Root(q) /\ s.dhs = Pub(q) /\ s.ns = c[q]
        /\ s.nr \in Nat /\ s.nr = (IF u <= r.nr THEN r.nr ELSE u)
        /\ s.skipped = KeysOf(Late(p, q, s.nr, S, O)) /\ KeysBounded(s)
    BY <1>3 DEF PassedTo, PartyView, Sends
  <1>5. r.nr \in Nat /\ r.nr <= u /\ \A x \in O : x.to = p => Past(x, q, r.nr)
    BY DEF PartyView, Receives, Reach
  <1>6. s.nr = u
    BY <1>2, <1>4, <1>5
  <1> HIDE DEF s
  <1>7. /\ IsState(t) /\ t.rk = Root(q + 2) /\ t.dhs = Pub(q + 2) /\ t.ns = 0 /\ t.pn = c[q]
        /\ t.cks = Ratchet!Chain(Root(q + 2)) /\ t.dhr = Pub(q + 1) /\ t.ckr = Ratchet!Chain(Root(q + 1))
        /\ t.nr = 0 /\ t.skipped = s.skipped
    <2>1. Append(Root(q), Ratchet!Dh(Pub(q), Pub(q + 1))) = Root(q + 1)
          /\ Append(Root(q + 1), Ratchet!Dh(Pub(q + 2), Pub(q + 1))) = Root(q + 2)
          /\ Pub(q + 2) = <<Pub(q)[1], Pub(q)[2] + 1>>
      BY <1>1, Roots, PlaceOf
    <2>2. PICK a, b, d, R, U : a = Pub(q) /\ b = Pub(q + 1) /\ d = Pub(q + 2) /\ R = Root(q + 1) /\ U = Root(q + 2)
      OBVIOUS
    <2>3. /\ Append(s.rk, Ratchet!Dh(s.dhs, b)) = R /\ <<s.dhs[1], s.dhs[2] + 1>> = d
          /\ Append(R, Ratchet!Dh(d, b)) = U
      BY <1>4, <2>1, <2>2
    <2>4. Ratchet!DhRatchet(s, b) = [s EXCEPT !.pn = s.ns, !.ns = 0, !.nr = 0, !.dhr = b, !.ckr = Ratchet!Chain(R),
                                      !.dhs = d, !.rk = U, !.cks = Ratchet!Chain(U)]
      BY <2>3 DEF Ratchet!DhRatchet
    <2>5. Ratchet!DhRatchet(s, b) = [rk |-> U, dhs |-> d, dhr |-> b, cks |-> Ratchet!Chain(U), ckr |-> Ratchet!Chain(R),
                             ns |-> 0, nr |-> 0, pn |-> s.ns, skipped |-> s.skipped]
      BY <1>4, <2>4 DEF IsState
    <2>6. t = [rk |-> U, dhs |-> d, dhr |-> b, cks |-> Ratchet!Chain(U), ckr |-> Ratchet!Chain(R),
               ns |-> 0, nr |-> 0, pn |-> s.ns, skipped |-> s.skipped]
      BY <2>2, <2>5
    <2> HIDE DEF t
    <2>7. IsState(t)
      BY <2>6 DEF IsState
    <2>8. QED
      BY <1>4, <2>2, <2>6, <2>7
  <1> HIDE DEF t
  <1>8. Q2 \in [Ratchet!Party -> Nat] /\ Q2[p] = q + 2 /\ Q2[Ratchet!Other(p)] = q + 1 /\ \A y \in Ratchet!Party : y # p => Q2[y] = Q[y]
    BY <1>1
  <1>9. \A y \in Ratchet!Party : Q[y] <= Q2[y]
    BY <1>1, <1>8
  <1>10. Turns(Q2)
    <2>1. CASE p = "a"
      BY <1>1, <1>8, <2>1 DEF Turns, Ratchet!Other, Ratchet!Party
    <2>2. CASE p = "b"
      BY <1>1, <1>8, <2>2 DEF Turns, Ratchet!Other, Ratchet!Party
    <2>3. QED
      BY <1>1, <2>1, <2>2 DEF Ratchet!Party
  <1> HIDE DEF Q2
  <1>11. c \in [Nat -> Nat] /\ c[q + 2] = 0
    <2>1. q + 2 \in Nat /\ Writer(q + 2) = p
      BY <1>1 DEF Writer
    <2>2. \A e \in Nat : e > Q[Writer(e)] => c[e] = 0
      BY <1>1 DEF Made
    <2>3. c[q + 2] = 0
      BY <1>1, <2>1, <2>2
    <2>4. QED
      BY <1>1, <2>3 DEF Made
  <1>12. Made(S, c, Q2)
    <2>1. ASSUME NEW e \in Nat, e > Q2[Writer(e)] PROVE c[e] = 0
      <3>1. Writer(e) \in Ratchet!Party
        BY DEF Writer, Ratchet!Party
      <3>2. e > Q[Writer(e)]
        BY <1>1, <1>8, <1>9, <2>1, <3>1
      <3>3. QED
        BY <1>1, <3>2 DEF Made
    <2>2. ASSUME NEW x \in S PROVE Message(x, c, Q2)
      <3>1. Message(x, c, Q)
        BY <1>1 DEF Made
      <3> DEFINE e == Place(x.dh)
      <3>2. e \in 1..Q[Writer(e)]
        BY <3>1 DEF Message
      <3>3. Writer(e) \in Ratchet!Party
        BY DEF Writer, Ratchet!Party
      <3> HIDE DEF e
      <3>4. e \in 1..Q2[Writer(e)]
        BY <1>1, <1>8, <1>9, <3>2, <3>3
      <3>5. QED
        BY <3>1, <3>4 DEF Message, e
    <2>3. QED
      BY <1>1, <2>1, <2>2 DEF Made
  <1>13. Sends(t, q + 2, c)
    <2>1. Link(q + 2, 0) = Ratchet!Chain(Root(q + 2))
      BY <1>1, Links
    <2>2. Before(c, q + 2) = c[q] /\ q + 2 # 0
      BY <1>1 DEF Before
    <2>3. QED
      BY <1>7, <1>11, <2>1, <2>2 DEF Sends
  <1>14. ASSUME NEW x \in S, x.to = p PROVE Past(x, q + 2, 0) <=> Past(x, q, u)
    <2>1. PICK e \in Nat : IsFor(x, e, q, c, Q, p)
      BY <1>1, <1>14, MessageFor
    <2>2. /\ Place(x.dh) = e /\ (e = q + 1 \/ e + 1 <= q) /\ e >= 1 /\ x.n \in Nat /\ x.n < c[e]
      BY <2>1 DEF IsFor
    <2>3. e + 1 = q => x.n < u
      <3>1. SUFFICES ASSUME e + 1 = q PROVE x.n < u
        OBVIOUS
      <3>2. e = q - 1 /\ q # 0
        BY <1>1, <3>1
      <3>3. QED
        BY <2>2, <3>2 DEF Reach
    <2> HIDE DEF u
    <2>4. QED
      BY <1>1, <2>2, <2>3 DEF Past
  <1>15. Late(p, q + 2, 0, S, O) = Late(p, q, u, S, O)
    BY <1>14 DEF Late
  <1>16. \A x \in O : x.to = p => Past(x, q + 2, 0)
    <2>1. SUFFICES ASSUME NEW x \in O, x.to = p PROVE Past(x, q, u)
      BY <1>1, <1>14
    <2>2. PICK e \in Nat : IsFor(x, e, q, c, Q, p)
      BY <1>1, <2>1, MessageFor
    <2>3. Place(x.dh) = e /\ x.n \in Nat
      BY <2>2 DEF IsFor
    <2>4. Past(x, q, r.nr)
      BY <1>5, <2>1
    <2> HIDE DEF u
    <2>5. QED
      BY <1>1, <1>2, <1>5, <2>3, <2>4 DEF Past
  <1>17. Receives(p, t, q + 2, c, S, O)
    <2>1. Link(q + 1, 0) = Ratchet!Chain(Root(q + 1)) /\ (q + 2) - 1 = q + 1 /\ q + 2 # 0 /\ ~(q + 2 <= 1)
          /\ c[q + 1] \in Nat
      BY <1>1, <1>11, Links
    <2>2. t.skipped = KeysOf(Late(p, q + 2, 0, S, O)) /\ KeysBounded(t)
      BY <1>4, <1>6, <1>7, <1>15 DEF KeysBounded
    <2>3. QED
      BY <1>7, <1>16, <2>1, <2>2 DEF Receives
  <1>18. QED
    BY <1>1, <1>8, <1>10, <1>12, <1>13, <1>17 DEF PartyView, t, s, Q2

-----------------------------------------------------------------------------
Stepped(s) == [s EXCEPT !.ckr = Ratchet!KdfCk(@), !.nr = @ + 1]

\* The key of the next message of the receiving chain is taken.
IsNext(m, p, t, q, c, Q, S, O) ==
    /\ PartyView(p, t, q, c, Q, S, O)
    /\ m \in S /\ m.to = p /\ Place(m.dh) + 1 = q /\ t.nr <= m.n

Takes(m, p, t, q, c, Q, S, O) ==
    /\ Ratchet!Skip(t, m.n).ckr = m.key
    /\ ~Ratchet!SkipFails(t, m.n) => PartyView(p, Stepped(Ratchet!Skip(t, m.n)), q, c, Q, S, O \cup {m})

LEMMA TakeKeeps ==
    ASSUME Ratchet!RatchetAssumption, NEW p, NEW t, NEW q, NEW c, NEW Q, NEW S, NEW O, NEW m,
           IsNext(m, p, t, q, c, Q, S, O)
    PROVE  Takes(m, p, t, q, c, Q, S, O)
  <1>0. /\ PartyView(p, t, q, c, Q, S, O)
        /\ m \in S /\ m.to = p /\ Place(m.dh) + 1 = q /\ t.nr <= m.n
    BY DEF IsNext
  <1> SUFFICES /\ Ratchet!Skip(t, m.n).ckr = m.key
               /\ ~Ratchet!SkipFails(t, m.n) => PartyView(p, Stepped(Ratchet!Skip(t, m.n)), q, c, Q, S, O \cup {m})
    BY DEF Takes
  <1> DEFINE s == Ratchet!Skip(t, m.n)
             n == m.n
             w == Stepped(s)
  <1>1. /\ q \in Nat /\ p \in Ratchet!Party /\ Turns(Q) /\ Made(S, c, Q) /\ O \subseteq S /\ q = Q[p]
    BY <1>0, PlacesAre DEF PartyView
  <1>2. PICK f \in Nat : IsFor(m, f, q, c, Q, p)
    BY <1>0, <1>1, MessageFor
  <1>3. f + 1 = q /\ f >= 1 /\ n \in Nat /\ n < c[f] /\ m.key = Link(f, n) /\ m.dh = Pub(f)
        /\ ~(q <= 1) /\ q - 1 = f /\ q # 0
    BY <1>0, <1>2 DEF IsFor
  <1>4. Reach(q, c) = c[f] /\ c[f] \in Nat /\ n <= Reach(q, c)
    <2>1. Reach(q, c) = c[f]
      BY <1>3 DEF Reach
    <2>2. c[f] \in Nat
      BY <1>1 DEF Made
    <2>3. QED
      BY <1>3, <2>1, <2>2
  <1>5. PassedTo(s, t, n, p, S, O, q)
    BY <1>0, <1>3, <1>4, SkipPasses
  <1>6. t.nr \in Nat /\ (\A x \in O : x.to = p => Past(x, q, t.nr)) /\ t.dhr = Pub(f)
    BY <1>0, <1>3 DEF PartyView, Receives
  <1>7. s.nr = n
    BY <1>0, <1>3, <1>5, <1>6 DEF PassedTo
  <1>8. /\ IsState(s) /\ s.rk = t.rk /\ s.dhs = t.dhs /\ s.dhr = t.dhr /\ s.cks = t.cks /\ s.ns = t.ns
        /\ s.ckr = Link(f, n) /\ s.skipped = KeysOf(Late(p, q, n, S, O))
        /\ ~Ratchet!SkipFails(t, n) => KeysBounded(s)
    BY <1>3, <1>5, <1>7 DEF PassedTo
  <1>9. s.pn = t.pn
    <2>1. CASE n <= t.nr
      BY <2>1, SkipNone
    <2>2. CASE ~(n <= t.nr)
      <3>1. t.ckr = [root |-> Root(f), step |-> t.nr] /\ IsState(t)
        BY <1>0, <1>3 DEF PartyView, Receives, Sends, Link
      <3>2. SkipOf(s, t, Root(f), n)
        BY <1>3, <1>6, <3>1, SkipLeaves
      <3>3. QED
        BY <3>2 DEF SkipOf
    <2>3. QED
      BY <2>1, <2>2
  <1> HIDE DEF s
  <1>10. SUFFICES ASSUME ~Ratchet!SkipFails(t, n) PROVE PartyView(p, w, q, c, Q, S, O \cup {m})
    BY <1>3, <1>8 DEF s
  <1>11. Ratchet!KdfCk(s.ckr) = Link(f, n + 1)
    BY <1>8 DEF Ratchet!KdfCk, Link
  <1>12. w = [rk |-> s.rk, dhs |-> s.dhs, dhr |-> s.dhr, cks |-> s.cks, ckr |-> Link(f, n + 1),
              ns |-> s.ns, nr |-> n + 1, pn |-> s.pn, skipped |-> s.skipped]
    <2>1. PICK d : d = Link(f, n + 1)
      OBVIOUS
    <2>2. w = [s EXCEPT !.ckr = d, !.nr = n + 1]
      BY <1>7, <1>11, <2>1 DEF Stepped
    <2> HIDE DEF w
    <2>3. w = [rk |-> s.rk, dhs |-> s.dhs, dhr |-> s.dhr, cks |-> s.cks, ckr |-> d,
               ns |-> s.ns, nr |-> n + 1, pn |-> s.pn, skipped |-> s.skipped]
      BY <1>8, <2>2 DEF IsState
    <2>4. QED
      BY <2>1, <2>3
  <1> HIDE DEF w, n
  <1>13. IsState(w) /\ w.rk = t.rk /\ w.dhs = t.dhs /\ w.dhr = t.dhr /\ w.cks = t.cks /\ w.ns = t.ns
         /\ w.ckr = Link(f, n + 1) /\ w.nr = n + 1 /\ w.pn = t.pn /\ w.skipped = s.skipped
    BY <1>8, <1>9, <1>12 DEF IsState
  <1>14. Sends(w, q, c)
    BY <1>0, <1>13 DEF PartyView, Sends
  <1>15. Late(p, q, n, S, O) = Late(p, q, n + 1, S, O \cup {m})
    <2>1. ASSUME NEW x \in S, x.to = p PROVE Past(x, q, n + 1) /\ x # m <=> Past(x, q, n)
      <3>1. PICK e \in Nat : IsFor(x, e, q, c, Q, p)
        BY <1>1, <2>1, MessageFor
      <3>2. Place(x.dh) = e /\ x.dh = Pub(e) /\ x.n \in Nat
        BY <3>1 DEF IsFor
      <3>3. x.dh = m.dh /\ x.n = n => x = m
        BY <1>0, <1>1 DEF Made, n
      <3>4. Place(m.dh) = f /\ m.n = n
        BY <1>2 DEF IsFor, n
      <3>5. x = m => e = f /\ x.n = n
        BY <3>2, <3>4
      <3>6. e = f /\ x.n = n => x = m
        BY <1>3, <3>2, <3>3
      <3>7. QED
        BY <1>3, <3>2, <3>5, <3>6 DEF Past
    <2>2. QED
      BY <2>1 DEF Late
  <1>16. \A x \in O \cup {m} : x.to = p => Past(x, q, n + 1)
    <2>1. SUFFICES ASSUME NEW x \in O \cup {m}, x.to = p PROVE Past(x, q, n + 1)
      OBVIOUS
    <2>2. CASE x = m
      <3>1. Place(x.dh) = f /\ x.n = n
        BY <1>2, <2>2 DEF IsFor, n
      <3>2. QED
        BY <1>3, <3>1 DEF Past
    <2>3. CASE x \in O
      <3>1. PICK e \in Nat : IsFor(x, e, q, c, Q, p)
        BY <1>1, <2>1, <2>3, MessageFor
      <3>2. Place(x.dh) = e /\ x.n \in Nat
        BY <3>1 DEF IsFor
      <3>3. Past(x, q, t.nr) /\ t.nr <= n
        BY <1>0, <1>6, <2>1, <2>3 DEF n
      <3>4. QED
        BY <1>3, <1>6, <3>2, <3>3 DEF Past
    <2>4. QED
      BY <2>2, <2>3
  <1>17. Receives(p, w, q, c, S, O \cup {m})
    <2>1. w.skipped = KeysOf(Late(p, q, n + 1, S, O \cup {m})) /\ KeysBounded(w)
      BY <1>8, <1>10, <1>13, <1>15 DEF KeysBounded, n
    <2>2. n + 1 \in Nat /\ n + 1 <= c[q - 1]
      BY <1>3, <1>4 DEF n
    <2>3. QED
      BY <1>3, <1>6, <1>13, <1>16, <2>1, <2>2 DEF Receives
  <1>18. QED
    BY <1>0, <1>1, <1>14, <1>17 DEF PartyView

\* A late message takes its key with it.
LEMMA LateKeeps ==
    ASSUME Ratchet!RatchetAssumption, NEW p, NEW r, NEW q, NEW c, NEW Q, NEW S, NEW O, PartyView(p, r, q, c, Q, S, O),
           NEW m \in S, m.to = p, m \in Late(p, q, r.nr, S, O)
    PROVE  PartyView(p, Ratchet!TakeKey(r, {KeyOf(m)}), q, c, Q, S, O \cup {m})
  <1> DEFINE w == Ratchet!TakeKey(r, {KeyOf(m)})
             L == Late(p, q, r.nr, S, O)
             K == Late(p, q, r.nr, S, O \cup {m})
  <1>1. IsState(r) /\ r.skipped = KeysOf(L) /\ KeysBounded(r) /\ O \subseteq S
    BY DEF PartyView, Sends, Receives
  <1>2. w = [rk |-> r.rk, dhs |-> r.dhs, dhr |-> r.dhr, cks |-> r.cks, ckr |-> r.ckr,
             ns |-> r.ns, nr |-> r.nr, pn |-> r.pn, skipped |-> r.skipped \ {KeyOf(m)}]
    <2>1. w = [r EXCEPT !.skipped = r.skipped \ {KeyOf(m)}]
      BY DEF Ratchet!TakeKey
    <2>2. QED
      BY <1>1, <2>1 DEF IsState
  <1> HIDE DEF w
  <1>3. IsState(w) /\ w.rk = r.rk /\ w.dhs = r.dhs /\ w.dhr = r.dhr /\ w.cks = r.cks /\ w.ckr = r.ckr
        /\ w.ns = r.ns /\ w.nr = r.nr /\ w.pn = r.pn /\ w.skipped = r.skipped \ {KeyOf(m)}
    BY <1>2 DEF IsState
  <1>4. \A x, y \in S : KeyOf(x) = KeyOf(y) => x = y
    <2>1. \A x, y \in S : x.dh = y.dh /\ x.n = y.n => x = y
      BY DEF PartyView, Made
    <2>2. \A x : KeyOf(x).dh = x.dh /\ KeyOf(x).n = x.n
      BY DEF KeyOf
    <2>3. QED
      BY <2>1, <2>2
  <1>5. L \subseteq S /\ m \in L /\ K = L \ {m}
    BY DEF Late
  <1>6. KeysOf(L) \ {KeyOf(m)} = KeysOf(K)
    <2> HIDE DEF L, K
    <2>1. QED
      BY <1>4, <1>5 DEF KeysOf
  <1>7. KeysBounded(w)
    <2>1. IsFiniteSet(r.skipped) /\ Cardinality(r.skipped) <= MaxSkipped /\ KeyOf(m) \in r.skipped
      BY <1>1, <1>5 DEF KeysBounded, KeysOf
    <2>2. /\ IsFiniteSet(r.skipped \ {KeyOf(m)})
          /\ Cardinality(r.skipped \ {KeyOf(m)}) = Cardinality(r.skipped) - 1
          /\ Cardinality(r.skipped) \in Nat
      BY <2>1, FS_RemoveElement, FS_CardinalityType
    <2>3. \A k \in Nat : k <= MaxSkipped => k - 1 <= MaxSkipped
      BY DEF Ratchet!RatchetAssumption
    <2>4. QED
      BY <1>3, <2>1, <2>2, <2>3 DEF KeysBounded
  <1>8. \A x \in O \cup {m} : x.to = p => Past(x, q, r.nr)
    BY DEF PartyView, Receives, Late
  <1>9. Sends(w, q, c)
    BY <1>3 DEF PartyView, Sends
  <1>10. Receives(p, w, q, c, S, O \cup {m})
    <2>1. w.skipped = KeysOf(K)
      BY <1>1, <1>3, <1>6
    <2>2. QED
      BY <1>3, <1>7, <1>8, <2>1 DEF PartyView, Receives
  <1>11. QED
    BY <1>9, <1>10 DEF PartyView, w

\* What is opened elsewhere, and where the other one is, is nothing to a party.
LEMMA OtherKeeps ==
    ASSUME NEW p, NEW r, NEW q, NEW c, NEW S, NEW O, Sends(r, q, c), Receives(p, r, q, c, S, O),
           NEW m, m.to # p
    PROVE  Receives(p, r, q, c, S, O \cup {m})
  <1>1. Late(p, q, r.nr, S, O) = Late(p, q, r.nr, S, O \cup {m})
    BY DEF Late
  <1>2. QED
    BY <1>1 DEF Receives

-----------------------------------------------------------------------------
\* What decrypt_staged comes to.
Turned(r, q, c) == Ratchet!DhRatchet(Ratchet!Skip(r, Reach(q, c)), Pub(q + 1))

\* A message whose key was taken, or never will be: refused.
LEMMA GoneIsRefused ==
    ASSUME NEW p, NEW r, NEW q, NEW c, NEW Q, NEW S, NEW O, PartyView(p, r, q, c, Q, S, O),
           NEW m \in S, m.to = p, Past(m, q, r.nr), m \in O
    PROVE  ~Ratchet!DecryptStaged(r, m).ok
  <1> DEFINE late == {k \in r.skipped : k.dh = m.dh /\ k.n = m.n}
             turns == r.dhr # m.dh
             turned == IF turns THEN Ratchet!DhRatchet(Ratchet!Skip(r, m.pn), m.dh) ELSE r
             there == Ratchet!Skip(turned, m.n)
  <1>1. q \in Nat /\ p \in Ratchet!Party /\ Turns(Q) /\ Made(S, c, Q) /\ q = Q[p]
    BY PlacesAre DEF PartyView
  <1>2. late = {}
    BY LateIs DEF Late
  <1>3. PICK e \in Nat : IsFor(m, e, q, c, Q, p)
    BY <1>1, MessageFor
  <1>4. e >= 1 /\ Place(m.dh) = e /\ m.dh = Pub(e) /\ m.n \in Nat /\ m.key = Link(e, m.n)
        /\ m.key.root = Root(e) /\ m.key.step = m.n
    BY <1>3, Links DEF IsFor
  <1>5. (e + 1 < q \/ (e + 1 = q /\ m.n < r.nr)) /\ q >= 2 /\ q - 1 \in Nat
    BY <1>1, <1>4 DEF Past
  <1>6. r.dhr = Pub(q - 1) /\ r.ckr = Link(q - 1, r.nr) /\ r.nr \in Nat /\ r.rk = Root(q)
    BY <1>1, <1>5 DEF PartyView, Receives, Sends
  <1>7. r.dhr = m.dh <=> e + 1 = q
    <2>1. Place(r.dhr) = q - 1
      BY <1>5, <1>6, PlaceOf
    <2>2. QED
      BY <1>1, <1>4, <1>5, <1>6, <2>1
  <1>8. CASE e + 1 = q
    <2>1. turned = r /\ m.n <= r.nr
      BY <1>4, <1>5, <1>6, <1>7, <1>8
    <2>2. there = r
      BY <2>1, SkipNone
    <2>3. r.ckr.step = r.nr
      BY <1>5, <1>6, Links
    <2>4. there.ckr # m.key
      BY <1>4, <1>5, <1>6, <1>8, <2>2, <2>3
    <2>5. QED
      BY <1>2, <2>4 DEF Ratchet!DecryptStaged
  <1>9. CASE e + 1 < q
    <2>1. turned = Ratchet!DhRatchet(Ratchet!Skip(r, m.pn), m.dh)
      BY <1>7, <1>9, <1>1
    <2>2. \A u : Ratchet!Skip(r, u).rk = r.rk
      <3> TAKE u
      <3>1. CASE u <= r.nr
        BY <3>1 DEF Ratchet!Skip
      <3>2. CASE ~(u <= r.nr)
        <4>1. IsState(r)
          BY DEF PartyView, Sends
        <4>2. Ratchet!Skip(r, u) = [r EXCEPT !.skipped = r.skipped \cup Passed(r, u),
                                     !.ckr.step = @ + u - r.nr, !.nr = u]
          BY <3>2, SkipIs
        <4>3. QED
          BY <4>1, <4>2 DEF IsState
      <3>3. QED
        BY <3>1, <3>2
    <2> DEFINE s == Ratchet!Skip(r, m.pn)
               R == Append(s.rk, Ratchet!Dh(s.dhs, m.dh))
    <2>3. s.rk = Root(q)
      BY <1>6, <2>2
    <2>4. s = [rk |-> s.rk, dhs |-> s.dhs, dhr |-> s.dhr, cks |-> s.cks, ckr |-> s.ckr,
               ns |-> s.ns, nr |-> s.nr, pn |-> s.pn, skipped |-> s.skipped]
      <3>1. IsState(r)
        BY DEF PartyView, Sends
      <3>2. CASE m.pn <= r.nr
        BY <3>1, <3>2, SkipNone DEF IsState
      <3>3. CASE ~(m.pn <= r.nr)
        <4>1. s = [r EXCEPT !.skipped = r.skipped \cup Passed(r, m.pn),
                            !.ckr.step = @ + m.pn - r.nr, !.nr = m.pn]
          BY <3>3, SkipIs
        <4> HIDE DEF s
        <4>2. PICK K, d : K = r.skipped \cup Passed(r, m.pn) /\ d = [r.ckr EXCEPT !.step = @ + m.pn - r.nr]
          OBVIOUS
        <4>3. s = [r EXCEPT !.skipped = K, !.ckr = d, !.nr = m.pn]
          BY <4>1, <4>2
        <4>4. QED
          BY <3>1, <4>3 DEF IsState
      <3>4. QED
        BY <3>2, <3>3
    <2> HIDE DEF s
    <2>5. turned.ckr = Ratchet!Chain(R) /\ turned.nr = 0
      <3>1. turned = Ratchet!DhRatchet(s, m.dh)
        BY <2>1 DEF s
      <3>2. PICK d, U, a : d = Ratchet!Chain(Append(R, Ratchet!Dh(<<s.dhs[1], s.dhs[2] + 1>>, m.dh)))
                        /\ U = Append(R, Ratchet!Dh(<<s.dhs[1], s.dhs[2] + 1>>, m.dh)) /\ a = <<s.dhs[1], s.dhs[2] + 1>>
        OBVIOUS
      <3>3. turned = [s EXCEPT !.pn = s.ns, !.ns = 0, !.nr = 0, !.dhr = m.dh,
                               !.ckr = Ratchet!Chain(R), !.dhs = a, !.rk = U, !.cks = d]
        BY <3>1, <3>2 DEF Ratchet!DhRatchet
      <3> HIDE DEF R, turned
      <3>4. QED
        BY <2>4, <3>3
    <2>6. R # Root(e)
      <3>1. s.dhs \in Ratchet!Party \X Nat
        <4>1. s.dhs = r.dhs /\ r.dhs = Pub(q)
          <5>1. CASE m.pn <= r.nr
            BY <5>1, SkipNone DEF s, PartyView, Sends
          <5>2. CASE ~(m.pn <= r.nr)
            <6>1. s = [r EXCEPT !.skipped = r.skipped \cup Passed(r, m.pn),
                                !.ckr.step = @ + m.pn - r.nr, !.nr = m.pn] /\ IsState(r) /\ r.dhs = Pub(q)
              BY <5>2, SkipIs DEF s, PartyView, Sends
            <6>2. QED
              BY <6>1 DEF IsState
          <5>3. QED
            BY <5>1, <5>2
        <4>2. QED
          BY <1>1, <4>1 DEF Pub, Ratchet!Party
      <3>2. m.dh \in Ratchet!Party \X Nat
        BY <1>4 DEF Pub, Ratchet!Party
      <3>3. Ratchet!Dh(s.dhs, m.dh) \in SUBSET (Ratchet!Party \X Nat)
        BY <3>1, <3>2 DEF Ratchet!Dh
      <3>4. Root(q) \in Seq(SUBSET (Ratchet!Party \X Nat)) /\ Len(Root(q)) = q /\ Len(Root(e)) = e
        BY <1>1, Roots
      <3>5. Len(R) = q + 1
        <4>1. PICK T, z, W : T = SUBSET (Ratchet!Party \X Nat) /\ z = Ratchet!Dh(s.dhs, m.dh) /\ W = Root(q)
          OBVIOUS
        <4>2. W \in Seq(T) /\ z \in T /\ Len(W) = q /\ R = Append(W, z)
          BY <2>3, <3>3, <3>4, <4>1
        <4>3. QED
          BY <4>2, AppendProperties
      <3>6. q + 1 # e
        BY <1>1, <1>9
      <3>7. QED
        BY <3>4, <3>5, <3>6
    <2>7. there.ckr.root = R
      <3> HIDE DEF R, turned
      <3>1. CASE m.n <= turned.nr
        BY <2>5, <3>1, SkipNone DEF Ratchet!Chain
      <3>2. CASE ~(m.n <= turned.nr)
        <4>1. there = [turned EXCEPT !.skipped = turned.skipped \cup Passed(turned, m.n),
                                     !.ckr.step = @ + m.n - turned.nr, !.nr = m.n]
          BY <3>2, SkipIs
        <4>2. turned = Ratchet!DhRatchet(s, m.dh)
          BY <2>1 DEF s, turned
        <4>3. turned = [s EXCEPT !.pn = s.ns, !.ns = 0, !.nr = 0, !.dhr = m.dh,
                                 !.ckr = turned.ckr, !.dhs = turned.dhs, !.rk = turned.rk, !.cks = turned.cks]
          <5>1. PICK a, b, d, U : turned = [s EXCEPT !.pn = s.ns, !.ns = 0, !.nr = 0, !.dhr = m.dh,
                                 !.ckr = a, !.dhs = b, !.rk = d, !.cks = U]
            BY <4>2 DEF Ratchet!DhRatchet
          <5>2. turned.ckr = a /\ turned.dhs = b /\ turned.rk = d /\ turned.cks = U
            BY <2>4, <5>1
          <5>3. QED
            BY <5>1, <5>2
        <4>4. IsState(turned)
          <5>1. PICK a, b, d, U, k : a = turned.ckr /\ b = turned.dhs /\ d = turned.rk /\ U = turned.cks /\ k = s.ns
            OBVIOUS
          <5>2. turned = [s EXCEPT !.pn = k, !.ns = 0, !.nr = 0, !.dhr = m.dh,
                                 !.ckr = a, !.dhs = b, !.rk = d, !.cks = U]
            BY <4>3, <5>1
          <5>3. QED
            BY <2>4, <5>2 DEF IsState
        <4>5. PICK K, d : K = turned.skipped \cup Passed(turned, m.n)
                       /\ d = [turned.ckr EXCEPT !.step = @ + m.n - turned.nr]
          OBVIOUS
        <4>6. there = [turned EXCEPT !.skipped = K, !.ckr = d, !.nr = m.n]
          BY <4>1, <4>5
        <4>7. there.ckr = d
          BY <4>4, <4>6 DEF IsState
        <4>8. d.root = R
          BY <2>5, <4>5 DEF Ratchet!Chain
        <4>9. QED
          BY <4>7, <4>8
      <3>3. QED
        BY <3>1, <3>2
    <2>8. there.ckr # m.key
      BY <1>4, <2>6, <2>7
    <2> HIDE DEF turned, there, R
    <2>9. QED
      BY <1>2, <2>8 DEF Ratchet!DecryptStaged, there, turned
  <1>10. QED
    BY <1>5, <1>8, <1>9


LEMMA LateOpens ==
    ASSUME NEW p, NEW r, NEW q, NEW c, NEW Q, NEW S, NEW O, PartyView(p, r, q, c, Q, S, O),
           NEW m \in S, m.to = p, m \in Late(p, q, r.nr, S, O)
    PROVE  Ratchet!DecryptStaged(r, m).ok /\ Ratchet!DecryptStaged(r, m).next = Ratchet!TakeKey(r, {KeyOf(m)})
  <1>1. {k \in r.skipped : k.dh = m.dh /\ k.n = m.n} = {KeyOf(m)}
    BY LateIs
  <1>2. KeyOf(m).key = m.key
    BY DEF KeyOf
  <1>3. PICK L : L = {k \in r.skipped : k.dh = m.dh /\ k.n = m.n}
    OBVIOUS
  <1>4. L # {} /\ (\A k \in L : k.key = m.key)
    BY <1>1, <1>2, <1>3
  <1>5. Ratchet!DecryptStaged(r, m) = [ok |-> \A k \in L : k.key = m.key, next |-> Ratchet!TakeKey(r, L)]
    BY <1>3, <1>4 DEF Ratchet!DecryptStaged
  <1>6. QED
    BY <1>1, <1>3, <1>4, <1>5, SMTT(30)

LEMMA NextOpens ==
    ASSUME Ratchet!RatchetAssumption, NEW p, NEW r, NEW q, NEW c, NEW Q, NEW S, NEW O, PartyView(p, r, q, c, Q, S, O),
           NEW m \in S, m.to = p, Place(m.dh) + 1 = q, r.nr <= m.n
    PROVE  /\ Ratchet!DecryptStaged(r, m).ok <=> ~Ratchet!SkipFails(r, m.n)
           /\ Ratchet!DecryptStaged(r, m).next = Stepped(Ratchet!Skip(r, m.n))
  <1>1. q \in Nat /\ p \in Ratchet!Party /\ Turns(Q) /\ Made(S, c, Q) /\ q = Q[p]
    BY PlacesAre DEF PartyView
  <1>2. PICK f \in Nat : IsFor(m, f, q, c, Q, p)
    BY <1>1, MessageFor
  <1>3. f + 1 = q /\ f >= 1 /\ m.dh = Pub(f) /\ m.n \in Nat /\ Place(m.dh) = f /\ r.nr \in Nat
    BY <1>2 DEF IsFor, PartyView, Receives
  <1>4. m \notin Late(p, q, r.nr, S, O)
    BY <1>3 DEF Late, Past
  <1>5. {k \in r.skipped : k.dh = m.dh /\ k.n = m.n} = {}
    BY <1>4, LateIs
  <1>6. r.dhr = m.dh
    <2>1. q - 1 = f /\ q # 0
      BY <1>3
    <2>2. QED
      BY <1>3, <2>1 DEF PartyView, Receives
  <1>7. Ratchet!Skip(r, m.n).ckr = m.key
    <2>1. IsNext(m, p, r, q, c, Q, S, O)
      BY DEF IsNext
    <2>2. Takes(m, p, r, q, c, Q, S, O)
      BY <2>1, TakeKeeps
    <2>3. QED
      BY <2>2 DEF Takes
  <1>8. Ratchet!DecryptStaged(r, m) =
          [ok |-> ~Ratchet!SkipFails(r, m.n) /\ Ratchet!Skip(r, m.n).ckr = m.key,
           next |-> Stepped(Ratchet!Skip(r, m.n))]
    <2>1. PICK L : L = {k \in r.skipped : k.dh = m.dh /\ k.n = m.n}
      OBVIOUS
    <2>2. ~(L # {}) /\ ~(r.dhr # m.dh)
      BY <1>5, <1>6, <2>1
    <2>3. QED
      BY <2>1, <2>2 DEF Ratchet!DecryptStaged, Stepped
  <1>9. Ratchet!DecryptStaged(r, m).ok <=> ~Ratchet!SkipFails(r, m.n) /\ Ratchet!Skip(r, m.n).ckr = m.key
    <2>1. PICK x : x = Ratchet!DecryptStaged(r, m)
      OBVIOUS
    <2>2. PICK z : z = Stepped(Ratchet!Skip(r, m.n))
      OBVIOUS
    <2>3. CASE ~Ratchet!SkipFails(r, m.n) /\ Ratchet!Skip(r, m.n).ckr = m.key
      <3>1. x = [ok |-> TRUE, next |-> z]
        BY <1>8, <2>1, <2>2, <2>3, Zenon
      <3>2. QED
        BY <2>1, <2>3, <3>1
    <2>4. CASE ~(~Ratchet!SkipFails(r, m.n) /\ Ratchet!Skip(r, m.n).ckr = m.key)
      <3>1. x = [ok |-> FALSE, next |-> z]
        BY <1>8, <2>1, <2>2, <2>4, Zenon
      <3>2. QED
        BY <2>1, <2>4, <3>1
    <2>5. QED
      BY <2>3, <2>4
  <1>10. Ratchet!DecryptStaged(r, m).next = Stepped(Ratchet!Skip(r, m.n))
    BY <1>8
  <1>11. QED
    BY <1>7, <1>9, <1>10

LEMMA TurnOpens ==
    ASSUME Ratchet!RatchetAssumption, NEW p, NEW r, NEW q, NEW c, NEW Q, NEW S, NEW O, PartyView(p, r, q, c, Q, S, O),
           NEW m \in S, m.to = p, Place(m.dh) = q + 1
    PROVE  /\ Ratchet!DecryptStaged(r, m).ok =>
                ~Ratchet!SkipFails(r, Reach(q, c)) /\ ~Ratchet!SkipFails(Turned(r, q, c), m.n)
           /\ ~Ratchet!SkipFails(r, Reach(q, c)) =>
                /\ PartyView(p, Turned(r, q, c), q + 2, c, [Q EXCEPT ![p] = q + 2], S, O)
                /\ ~Ratchet!SkipFails(Turned(r, q, c), m.n) => Ratchet!DecryptStaged(r, m).ok
           /\ Ratchet!DecryptStaged(r, m).next = Stepped(Ratchet!Skip(Turned(r, q, c), m.n))
           /\ Q[Ratchet!Other(p)] = q + 1
  <1>1. q \in Nat /\ p \in Ratchet!Party /\ Turns(Q) /\ Made(S, c, Q) /\ q = Q[p]
    BY PlacesAre DEF PartyView
  <1>2. PICK e \in Nat : IsFor(m, e, q, c, Q, p)
    BY <1>1, MessageFor
  <1>3. e = q + 1 /\ m.dh = Pub(q + 1) /\ m.n \in Nat /\ m.pn = Reach(q, c) /\ Q[Ratchet!Other(p)] = q + 1
    <2>1. e = q + 1
      BY <1>2 DEF IsFor
    <2>2. m.pn = Before(c, q + 1)
      BY <1>2, <2>1 DEF IsFor
    <2>3. QED
      BY <1>1, <1>2, <2>1, <2>2, ReachIs DEF IsFor
  <1>4. {k \in r.skipped : k.dh = m.dh /\ k.n = m.n} = {}
    <2>1. m \notin Late(p, q, r.nr, S, O)
      BY <1>1 DEF Late, Past
    <2>2. QED
      BY <2>1, LateIs
  <1>5. r.dhr # m.dh
    <2>1. CASE q = 0
      <3>1. r.dhr = Ratchet!NoKey /\ Pub(q + 1) # Ratchet!NoKey
        BY <1>1, <2>1, PlaceOf DEF PartyView, Receives
      <3>2. QED
        BY <1>3, <3>1
    <2>2. CASE q # 0
      <3>1. r.dhr = Pub(q - 1) /\ Place(Pub(q - 1)) = q - 1 /\ Place(Pub(q + 1)) = q + 1
        BY <1>1, <2>2, PlaceOf DEF PartyView, Receives
      <3>2. QED
        BY <1>1, <1>3, <3>1
    <2>3. QED
      BY <2>1, <2>2
  <1> DEFINE t == Turned(r, q, c)
  <1>6. t = Ratchet!DhRatchet(Ratchet!Skip(r, m.pn), m.dh)
    BY <1>3 DEF Turned
  <1> HIDE DEF t
  <1>7. Ratchet!DecryptStaged(r, m) =
          [ok |-> ~Ratchet!SkipFails(r, m.pn) /\ ~Ratchet!SkipFails(t, m.n) /\ Ratchet!Skip(t, m.n).ckr = m.key,
           next |-> Stepped(Ratchet!Skip(t, m.n))]
    BY <1>4, <1>5, <1>6 DEF Ratchet!DecryptStaged, Stepped
  <1>8. ASSUME ~Ratchet!SkipFails(r, Reach(q, c))
        PROVE  PartyView(p, t, q + 2, c, [Q EXCEPT ![p] = q + 2], S, O) /\ Ratchet!Skip(t, m.n).ckr = m.key
    <2>1. PartyView(p, t, q + 2, c, [Q EXCEPT ![p] = q + 2], S, O)
      BY <1>3, <1>8, TurnKeeps DEF Turned, t
    <2>2. t.nr <= m.n
      <3>1. t.nr = 0
        <4>1. PICK a, b, d, U, k, s : t = [s EXCEPT !.pn = k, !.ns = 0, !.nr = 0, !.dhr = m.dh,
                                 !.ckr = a, !.dhs = b, !.rk = d, !.cks = U]
                     /\ s = Ratchet!Skip(r, m.pn)
          BY <1>6 DEF Ratchet!DhRatchet
        <4>2. IsState(s)
          <5>1. PassedTo(Ratchet!Skip(r, m.pn), r, m.pn, p, S, O, q)
            BY <1>1, <1>3, ReachIs, SkipPasses
          <5>2. QED
            BY <4>1, <5>1 DEF PassedTo
        <4>3. QED
          BY <4>1, <4>2 DEF IsState
      <3>2. QED
        BY <1>3, <3>1
    <2>3. Place(m.dh) + 1 = q + 2
      BY <1>1
    <2>4. Ratchet!Skip(t, m.n).ckr = m.key
      <3>1. PICK Q2 : Q2 = [Q EXCEPT ![p] = q + 2]
        OBVIOUS
      <3>2. IsNext(m, p, t, q + 2, c, Q2, S, O)
        BY <2>1, <2>2, <2>3, <3>1 DEF IsNext
      <3>3. Takes(m, p, t, q + 2, c, Q2, S, O)
        BY <3>2, TakeKeeps
      <3>4. QED
        BY <3>3 DEF Takes
    <2>5. QED
      BY <2>1, <2>4
  <1>9. Ratchet!DecryptStaged(r, m).next = Stepped(Ratchet!Skip(t, m.n))
    BY <1>7
  <1>10. Ratchet!DecryptStaged(r, m).ok <=> ~Ratchet!SkipFails(r, Reach(q, c)) /\ ~Ratchet!SkipFails(t, m.n) /\ Ratchet!Skip(t, m.n).ckr = m.key
    <2>1. PICK x, u : x = Ratchet!DecryptStaged(r, m) /\ u = Reach(q, c) /\ u = m.pn
      BY <1>3
    <2>2. PICK z : z = Stepped(Ratchet!Skip(t, m.n))
      OBVIOUS
    <2>3. CASE ~Ratchet!SkipFails(r, u) /\ ~Ratchet!SkipFails(t, m.n) /\ Ratchet!Skip(t, m.n).ckr = m.key
      <3>1. x = [ok |-> TRUE, next |-> z]
        BY <1>7, <2>1, <2>2, <2>3, Zenon
      <3>2. QED
        BY <2>1, <2>3, <3>1
    <2>4. CASE ~(~Ratchet!SkipFails(r, u) /\ ~Ratchet!SkipFails(t, m.n) /\ Ratchet!Skip(t, m.n).ckr = m.key)
      <3>1. x = [ok |-> FALSE, next |-> z]
        BY <1>7, <2>1, <2>2, <2>4, Zenon
      <3>2. QED
        BY <2>1, <2>4, <3>1
    <2>5. QED
      BY <2>3, <2>4
  <1>11. QED
    BY <1>3, <1>8, <1>9, <1>10 DEF t

\* A message that opens: the party knows the session, with it opened.
Knows(p, r, c, Q, Q2, S, O) ==
    /\ PartyView(p, r, Q2[p], c, Q2, S, O)
    /\ Q2[Ratchet!Other(p)] = Q[Ratchet!Other(p)] /\ Q2[p] >= 2 /\ Q2 \in [Ratchet!Party -> Nat]

LEMMA OpensKeeps ==
    ASSUME Ratchet!RatchetAssumption, NEW p, NEW r, NEW q, NEW c, NEW Q, NEW S, NEW O, PartyView(p, r, q, c, Q, S, O),
           NEW m \in S, m.to = p, Ratchet!DecryptStaged(r, m).ok
    PROVE  \E Q2 \in [Ratchet!Party -> Nat] : Knows(p, Ratchet!DecryptStaged(r, m).next, c, Q, Q2, S, O \cup {m})
  <1>1. q \in Nat /\ p \in Ratchet!Party /\ Turns(Q) /\ Made(S, c, Q) /\ O \subseteq S /\ q = Q[p]
        /\ Q \in [Ratchet!Party -> Nat] /\ Ratchet!Other(p) \in Ratchet!Party /\ Ratchet!Other(p) # p
    BY PlacesAre DEF PartyView, Turns
  <1>2. PICK e \in Nat : IsFor(m, e, q, c, Q, p)
    BY <1>1, MessageFor
  <1>3. e >= 1 /\ Place(m.dh) = e /\ (e = q + 1 \/ e + 1 <= q) /\ m.n \in Nat
        /\ r.nr \in Nat
    BY <1>2 DEF IsFor, PartyView, Receives
  <1>4. CASE Past(m, q, r.nr)
    <2>1. q >= 2
      BY <1>1, <1>3, <1>4 DEF Past
    <2>2. m \notin O
      BY <1>4, GoneIsRefused
    <2>3. m \in Late(p, q, r.nr, S, O)
      BY <1>4, <2>2 DEF Late
    <2>4. PartyView(p, Ratchet!DecryptStaged(r, m).next, q, c, Q, S, O \cup {m})
      <3>1. PartyView(p, Ratchet!TakeKey(r, {KeyOf(m)}), q, c, Q, S, O \cup {m})
        BY <2>3, LateKeeps
      <3>2. Ratchet!DecryptStaged(r, m).next = Ratchet!TakeKey(r, {KeyOf(m)})
        BY <2>3, LateOpens
      <3>3. QED
        BY <3>1, <3>2
    <2>5. QED
      BY <1>1, <2>1, <2>4 DEF Knows
  <1>5. CASE e + 1 = q /\ r.nr <= m.n
    <2>1. PartyView(p, Ratchet!DecryptStaged(r, m).next, q, c, Q, S, O \cup {m})
      <3>1. IsNext(m, p, r, q, c, Q, S, O)
        BY <1>3, <1>5 DEF IsNext
      <3>2. Takes(m, p, r, q, c, Q, S, O)
        BY <3>1, TakeKeeps
      <3>3. ~Ratchet!SkipFails(r, m.n) /\ Ratchet!DecryptStaged(r, m).next = Stepped(Ratchet!Skip(r, m.n))
        BY <1>3, <1>5, NextOpens
      <3>4. QED
        BY <3>2, <3>3 DEF Takes
    <2>2. q >= 2
      BY <1>3, <1>5
    <2>3. QED
      BY <1>1, <2>1, <2>2 DEF Knows
  <1>6. CASE e = q + 1
    <2> DEFINE t == Turned(r, q, c)
               Q2 == [Q EXCEPT ![p] = q + 2]
    <2>1. /\ PartyView(p, t, q + 2, c, Q2, S, O) /\ ~Ratchet!SkipFails(t, m.n)
          /\ Ratchet!DecryptStaged(r, m).next = Stepped(Ratchet!Skip(t, m.n))
      <3>1. Place(m.dh) = q + 1
        BY <1>3, <1>6
      <3>2. ~Ratchet!SkipFails(r, Reach(q, c)) /\ ~Ratchet!SkipFails(Turned(r, q, c), m.n)
        BY <3>1, TurnOpens
      <3>3. /\ PartyView(p, Turned(r, q, c), q + 2, c, [Q EXCEPT ![p] = q + 2], S, O)
            /\ Ratchet!DecryptStaged(r, m).next = Stepped(Ratchet!Skip(Turned(r, q, c), m.n))
        BY <3>1, <3>2, TurnOpens
      <3>4. QED
        BY <3>2, <3>3
    <2>2. t.nr <= m.n
      <3>1. PICK R : R = Ratchet!DecryptStaged(r, m).next
        OBVIOUS
      <3>2. t.nr = 0
        <4>1. PassedTo(Ratchet!Skip(r, Reach(q, c)), r, Reach(q, c), p, S, O, q)
          BY <1>1, ReachIs, SkipPasses
        <4>2. PICK a, b, d, U, k, s, x : t = [s EXCEPT !.pn = k, !.ns = 0, !.nr = 0, !.dhr = x,
                                 !.ckr = a, !.dhs = b, !.rk = d, !.cks = U]
                     /\ s = Ratchet!Skip(r, Reach(q, c))
          BY DEF Ratchet!DhRatchet, Turned
        <4>3. IsState(s)
          BY <4>1, <4>2 DEF PassedTo
        <4>4. QED
          BY <4>2, <4>3 DEF IsState
      <3>3. QED
        BY <1>3, <3>2
    <2>3. Place(m.dh) + 1 = q + 2
      BY <1>1, <1>3, <1>6
    <2> HIDE DEF t, Q2
    <2>4. PartyView(p, Ratchet!DecryptStaged(r, m).next, q + 2, c, Q2, S, O \cup {m})
      <3>1. IsNext(m, p, t, q + 2, c, Q2, S, O)
        BY <2>1, <2>2, <2>3 DEF IsNext
      <3>2. Takes(m, p, t, q + 2, c, Q2, S, O)
        BY <3>1, TakeKeeps
      <3>3. QED
        BY <2>1, <3>2 DEF Takes
    <2>5. Q2 \in [Ratchet!Party -> Nat] /\ Q2[p] = q + 2 /\ Q2[Ratchet!Other(p)] = Q[Ratchet!Other(p)] /\ q + 2 >= 2
      BY <1>1 DEF Q2
    <2>6. QED
      BY <2>4, <2>5 DEF Knows
  <1>7. Past(m, q, r.nr) \/ (e + 1 = q /\ r.nr <= m.n) \/ e = q + 1
    BY <1>1, <1>3 DEF Past
  <1>8. QED
    BY <1>4, <1>5, <1>6, <1>7

-----------------------------------------------------------------------------
\* While few enough are missing, no gap is too large.
Within(M, S, O, p, q, u) ==
    /\ M \subseteq S /\ Cardinality(M) <= MaxSkipped
    /\ \A dh \in {x.dh : x \in M} : Cardinality({x \in M : x.dh = dh}) <= MaxSkip
    /\ \A x \in S \ O : x.to = p /\ Past(x, q, u) => x \in M

LEMMA LimitsSuffice ==
    ASSUME Ratchet!RatchetAssumption, NEW p, NEW r, NEW q, NEW c, NEW Q, NEW S, NEW O, PartyView(p, r, q, c, Q, S, O),
           NEW u \in Nat, u <= Reach(q, c), NEW M, Within(M, S, O, p, q, u)
    PROVE  ~Ratchet!SkipFails(r, u)
  <1> USE DEF Within
  <1>1. q \in Nat /\ p \in Ratchet!Party /\ Turns(Q) /\ Made(S, c, Q) /\ O \subseteq S /\ q = Q[p]
        /\ Writer(q) = p /\ Ratchet!Other(p) \in Ratchet!Party
    BY PlacesAre DEF PartyView
  <1>2. /\ r.nr \in Nat /\ r.nr <= Reach(q, c) /\ r.skipped = KeysOf(Late(p, q, r.nr, S, O))
        /\ r.ckr = (IF q <= 1 THEN Ratchet!NoChain ELSE Link(q - 1, r.nr))
        /\ \A x \in O : x.to = p => Past(x, q, r.nr)
    BY DEF PartyView, Receives, Reach
  <1>3. SUFFICES ASSUME r.nr < u PROVE ~Ratchet!SkipFails(r, u)
    BY <1>2, SkipNone
  <1>4. PICK f \in Nat : f + 1 = q /\ f >= 1 /\ u <= c[f] /\ ~(q <= 1) /\ q - 1 = f
    <2>1. ~(q <= 1)
      BY <1>1, <1>2, <1>3, ReachIs
    <2>2. q - 1 \in Nat /\ Reach(q, c) = c[q - 1]
      BY <1>1, <2>1 DEF Reach
    <2>3. QED
      BY <1>1, <2>1, <2>2
  <1>5. IsFiniteSet(S) /\ IsFiniteSet(M) /\ Cardinality(M) \in Nat
    BY <1>1, FS_Subset, FS_CardinalityType DEF Made
  <1> DEFINE L == Late(p, q, r.nr, S, O)
             G == {x \in M : x.dh = Pub(f) /\ r.nr <= x.n}
  <1>6. r.ckr # Ratchet!NoChain
    BY <1>2, <1>4, LinkIsChain
  <1>7. ASSUME NEW k \in r.nr..(u - 1) PROVE \E x \in G : x.n = k
    <2>1. k \in Nat /\ k \in 0..(c[f] - 1)
      <3>1. c[f] \in Nat
        BY <1>1 DEF Made
      <3>2. QED
        BY <1>2, <1>4, <3>1
    <2>2. PICK x \in S : x.dh = Pub(f) /\ x.n = k
      BY <1>1, <2>1 DEF Made
    <2>3. Place(x.dh) = f
      BY <2>2, PlaceOf
    <2>4. x.to = p
      <3>1. x.to = Reader(f)
        BY <1>1, <2>3 DEF Made, Message
      <3>2. Reader(f) \in Ratchet!Party /\ Reader(f + 1) = Writer(f) /\ Ratchet!Other(Reader(f)) = Writer(f)
        BY PlaceOf
      <3>3. Reader(q) = Ratchet!Other(p) /\ Reader(q) = Reader(f + 1)
        BY <1>1, <1>4, PlacesAre
      <3>4. QED
        BY <1>1, <3>1, <3>2, <3>3, PlacesAre DEF Ratchet!Other, Ratchet!Party
    <2>5. x \notin O
      BY <1>2, <1>4, <2>1, <2>2, <2>3, <2>4 DEF Past
    <2>6. x \in M
      BY <1>4, <2>2, <2>3, <2>4, <2>5 DEF Past
    <2>7. QED
      BY <2>2, <2>6
  <1>8. L \subseteq M /\ G \subseteq M
    <2>1. ASSUME NEW x \in L PROVE x \in M
      <3>1. x \in S \ O /\ x.to = p /\ Past(x, q, r.nr)
        BY <2>1 DEF Late
      <3>2. PICK e \in Nat : IsFor(x, e, q, c, Q, p)
        BY <1>1, <3>1, MessageFor
      <3>3. x.n \in Nat
        BY <3>2 DEF IsFor
      <3>4. Past(x, q, u)
        BY <1>2, <1>3, <3>1, <3>3 DEF Past
      <3>5. QED
        BY <3>1, <3>4
    <2>2. QED
      BY <2>1
  <1>9. L \cap G = {}
    <2>1. SUFFICES ASSUME NEW x \in L, x \in G PROVE FALSE
      OBVIOUS
    <2>2. x \in S /\ x.to = p /\ Past(x, q, r.nr) /\ x.dh = Pub(f) /\ r.nr <= x.n
      BY <2>1 DEF Late
    <2>3. Place(x.dh) = f
      BY <2>2, PlaceOf
    <2>4. PICK e \in Nat : IsFor(x, e, q, c, Q, p)
      BY <1>1, <2>2, MessageFor
    <2>5. x.n \in Nat
      BY <2>4 DEF IsFor
    <2>6. QED
      BY <1>2, <1>4, <2>2, <2>3, <2>5 DEF Past
  <1>10. G = {x \in M : x.dh = Pub(f)} \/ G \subseteq {x \in M : x.dh = Pub(f)}
    OBVIOUS
  <1> HIDE DEF L, G
  <1>11. IsFiniteSet(L) /\ IsFiniteSet(G) /\ Cardinality(L) \in Nat /\ Cardinality(G) \in Nat
    <2>1. IsFiniteSet(L)
      BY <1>5, <1>8, FS_Subset
    <2>2. IsFiniteSet(G)
      BY <1>5, <1>8, FS_Subset
    <2>3. QED
      BY <2>1, <2>2, FS_CardinalityType
  <1>12. u - r.nr <= Cardinality(G)
    <2>1. PICK i \in Nat : i = r.nr
      BY <1>2
    <2>2. i <= u /\ \A k \in i..(u - 1) : \E x \in G : x.n = k
      BY <1>3, <1>7, <2>1
    <2>3. u - i <= Cardinality(G)
      BY <1>11, <2>2, StepsSize
    <2>4. QED
      BY <2>1, <2>3
  <1>13. Cardinality(L) + Cardinality(G) <= Cardinality(M)
    <2>1. Cardinality(L \cup G) = Cardinality(L) + Cardinality(G) - Cardinality(L \cap G)
      BY <1>11, FS_Union
    <2>2. Cardinality(L \cap G) = 0
      BY <1>9, FS_EmptySet
    <2>3. Cardinality(L \cup G) <= Cardinality(M)
      BY <1>5, <1>8, FS_Subset
    <2>4. QED
      BY <1>11, <2>1, <2>2, <2>3
  <1>14. Cardinality(G) <= MaxSkip
    <2>1. \E x \in G : TRUE
      BY <1>2, <1>3, <1>7
    <2>2. Pub(f) \in {x.dh : x \in M}
      BY <2>1 DEF G
    <2> DEFINE H == {x \in M : x.dh = Pub(f)}
    <2>3. Cardinality(H) <= MaxSkip
      BY <2>2
    <2>4. G \subseteq H /\ H \subseteq M
      BY <1>10
    <2> HIDE DEF H
    <2>5. IsFiniteSet(H) /\ Cardinality(H) \in Nat
      BY <1>5, <2>4, FS_Subset, FS_CardinalityType
    <2>6. Cardinality(G) <= Cardinality(H)
      BY <2>4, <2>5, FS_Subset
    <2>7. QED
      BY <1>11, <2>3, <2>5, <2>6 DEF Ratchet!RatchetAssumption
  <1>15. Cardinality(r.skipped) <= Cardinality(L) /\ Cardinality(r.skipped) \in Nat
    <2>1. r.skipped = KeysOf(L)
      BY <1>2 DEF L
    <2>2. QED
      BY <1>11, <2>1, KeysSize, FS_CardinalityType
  <1>16. Cardinality(r.skipped) + u - r.nr <= MaxSkipped /\ u - r.nr <= MaxSkip
    BY <1>2, <1>5, <1>11, <1>12, <1>13, <1>14, <1>15 DEF Ratchet!RatchetAssumption
  <1>17. QED
    BY <1>2, <1>6, <1>15, <1>16, SameRatchetSize DEF Ratchet!SkipFails, Ratchet!RatchetAssumption
-----------------------------------------------------------------------------
\* The message that Sealed makes of a state, after those of S.
Writes(S, p, r, x) ==
    x = [to |-> Ratchet!Other(p), dh |-> r.dhs, pn |-> r.pn, n |-> r.ns, key |-> r.cks,
         at |-> Cardinality({m \in S : m.to = Ratchet!Other(p)})]

Written(S, c, p, q, x) ==
    /\ q \in Nat /\ c[q] \in Nat
    /\ x.to = Ratchet!Other(p) /\ x.dh = Pub(q) /\ Place(x.dh) = q /\ x.n = c[q] /\ x.key = Link(q, c[q])
    /\ x.pn = Before(c, q) /\ x.at = Cardinality({m \in S : m.to = Ratchet!Other(p)}) /\ x.at \in Nat
    /\ Reader(q) = Ratchet!Other(p) /\ Writer(q) = p
    /\ \A y \in S : y.to = Ratchet!Other(p) =>
         /\ y.n \in Nat /\ Place(y.dh) \in Nat /\ Place(y.dh) <= q /\ (Place(y.dh) = q => y.n < c[q])
         /\ y.dh = Pub(Place(y.dh))

LEMMA WriteIs ==
    ASSUME NEW S, NEW c, NEW Q, Made(S, c, Q), Turns(Q), NEW p \in Ratchet!Party, NEW q, q = Q[p], q >= 1,
           NEW r, Sends(r, q, c), NEW x, Writes(S, p, r, x)
    PROVE  Written(S, c, p, q, x)
  <1>1. q \in Nat /\ Reader(q) = Ratchet!Other(p) /\ Writer(q) = p /\ Ratchet!Other(p) \in Ratchet!Party /\ Ratchet!Other(Ratchet!Other(p)) = p
        /\ Ratchet!Other(p) # p
    BY PlacesAre
  <1>2. c[q] \in Nat
    BY <1>1 DEF Made
  <1>3. x.to = Ratchet!Other(p) /\ x.dh = Pub(q) /\ x.n = c[q] /\ x.key = Link(q, c[q])
        /\ x.pn = Before(c, q) /\ x.at = Cardinality({m \in S : m.to = Ratchet!Other(p)})
    BY DEF Writes, Sends
  <1>4. Place(x.dh) = q
    BY <1>1, <1>3, PlaceOf
  <1>5. x.at \in Nat
    <2>1. IsFiniteSet({m \in S : m.to = Ratchet!Other(p)})
      BY FS_Subset DEF Made
    <2>2. QED
      BY <1>3, <2>1, FS_CardinalityType
  <1>6. ASSUME NEW y \in S, y.to = Ratchet!Other(p)
        PROVE  /\ y.n \in Nat /\ Place(y.dh) \in Nat /\ Place(y.dh) <= q /\ (Place(y.dh) = q => y.n < c[q])
               /\ y.dh = Pub(Place(y.dh))
    <2>1. PICK o : o = Ratchet!Other(p)
      OBVIOUS
    <2>2. o \in Ratchet!Party /\ Ratchet!Other(o) = p /\ y.to = o
      BY <1>1, <1>6, <2>1
    <2>3. PICK e \in Nat : IsFor(y, e, Q[o], c, Q, o)
      BY <2>2, MessageFor
    <2>4. (e = Q[o] + 1 \/ e + 1 <= Q[o]) /\ Place(y.dh) = e /\ y.dh = Pub(e) /\ y.n \in Nat /\ y.n < c[e]
          /\ (e = Q[o] + 1 => Q[p] = Q[o] + 1)
      BY <2>2, <2>3 DEF IsFor
    <2>5. Q[o] \in Nat /\ (Q[o] = q + 1 \/ q = Q[o] + 1)
      BY <2>1, PlacesAre
    <2>6. e <= q
      BY <1>1, <2>4, <2>5
    <2>7. QED
      BY <2>4, <2>6
  <1>7. QED
    BY <1>1, <1>2, <1>3, <1>4, <1>5, <1>6 DEF Written

OneMore(d, c, q) == d = [c EXCEPT ![q] = c[q] + 1]

LEMMA WriteMakes ==
    ASSUME NEW S, NEW c, NEW Q, Made(S, c, Q), Turns(Q), NEW p \in Ratchet!Party, NEW q, q = Q[p], q >= 1,
           NEW r, Sends(r, q, c), NEW x, Writes(S, p, r, x),
           NEW d, OneMore(d, c, q)
    PROVE  Made(S \cup {x}, d, Q)
  <1>1. /\ q \in Nat /\ c[q] \in Nat
        /\ x.to = Ratchet!Other(p) /\ x.dh = Pub(q) /\ Place(x.dh) = q /\ x.n = c[q] /\ x.key = Link(q, c[q])
        /\ x.pn = Before(c, q) /\ x.at = Cardinality({m \in S : m.to = Ratchet!Other(p)}) /\ x.at \in Nat
        /\ Reader(q) = Ratchet!Other(p) /\ Writer(q) = p
        /\ \A y \in S : y.to = Ratchet!Other(p) =>
             /\ y.n \in Nat /\ Place(y.dh) \in Nat /\ Place(y.dh) <= q /\ (Place(y.dh) = q => y.n < c[q])
             /\ y.dh = Pub(Place(y.dh))
    <2>1. Written(S, c, p, q, x)
      BY WriteIs
    <2>2. QED
      BY <2>1 DEF Written
  <1>2. /\ IsFiniteSet(S) /\ c \in [Nat -> Nat] /\ c[0] = 0
        /\ \A e \in Nat : e > Q[Writer(e)] => c[e] = 0
        /\ \A y \in S : Message(y, c, Q)
        /\ \A e \in Nat : \A n \in 0..(c[e] - 1) : \E y \in S : y.dh = Pub(e) /\ y.n = n
        /\ \A y, z \in S : y.dh = z.dh /\ y.n = z.n => y = z
        /\ \A y, z \in S : y.to = z.to /\ Precedes(y, z) => y.at < z.at
        /\ \A y \in S : y.at < Cardinality({z \in S : z.to = y.to})
    BY DEF Made
  <1>3. /\ d \in [Nat -> Nat] /\ d[q] = c[q] + 1 /\ \A e \in Nat : e # q => d[e] = c[e]
        /\ \A e \in Nat : c[e] \in Nat /\ c[e] <= d[e]
    BY <1>1, <1>2 DEF OneMore
  <1>4. d[0] = 0
    BY <1>2, <1>3
  <1>5. ASSUME NEW e \in Nat, e > Q[Writer(e)] PROVE d[e] = 0
    <2>1. e # q
      BY <1>1, <1>5
    <2>2. QED
      BY <1>2, <1>3, <1>5, <2>1
  <1>6. \A e \in Nat : e <= Q[Writer(e)] => Before(d, e) = Before(c, e)
    <2>1. SUFFICES ASSUME NEW e \in Nat, e <= Q[Writer(e)], e >= 2 PROVE d[e - 2] = c[e - 2]
      BY DEF Before
    <2>2. e - 2 # q
      <3>1. SUFFICES ASSUME e = q + 2 PROVE FALSE
        BY <1>1
      <3>2. Writer(q + 2) = Writer(q)
        BY <1>1 DEF Writer
      <3>3. QED
        BY <1>1, <2>1, <3>1, <3>2
    <2>3. QED
      BY <1>3, <2>1, <2>2
  <1>7. ASSUME NEW y \in S PROVE Message(y, d, Q)
    <2>1. Message(y, c, Q)
      BY <1>2
    <2> DEFINE e == Place(y.dh)
    <2>2. Writer(e) \in Ratchet!Party
      BY DEF Writer, Ratchet!Party
    <2>3. /\ e \in 1..Q[Writer(e)] /\ y.dh = Pub(e) /\ y.to = Reader(e)
          /\ y.n \in 0..(c[e] - 1) /\ y.key = Link(e, y.n) /\ y.pn = Before(c, e) /\ y.at \in Nat
      BY <2>1 DEF Message
    <2>4. Q[Writer(e)] \in Nat
      BY <2>2 DEF Turns
    <2> HIDE DEF e
    <2>5. e \in Nat /\ e <= Q[Writer(e)]
      BY <2>3, <2>4
    <2>6. y.n \in 0..(d[e] - 1) /\ y.pn = Before(d, e)
      <3>1. c[e] \in Nat /\ d[e] \in Nat /\ c[e] <= d[e]
        BY <1>3, <2>5
      <3>2. Before(d, e) = Before(c, e)
        BY <1>6, <2>5
      <3>3. QED
        BY <2>3, <3>1, <3>2
    <2>7. y.n \in 0..(d[Place(y.dh)] - 1) /\ y.pn = Before(d, Place(y.dh))
      BY <2>6 DEF e
    <2>8. QED
      BY <2>1, <2>7 DEF Message
  <1>8. Message(x, d, Q)
    <2>1. q \in 1..Q[Writer(q)] /\ Before(d, q) = Before(c, q) /\ c[q] \in 0..(d[q] - 1)
      BY <1>1, <1>3, <1>6
    <2>2. QED
      BY <1>1, <2>1 DEF Message
  <1>9. ASSUME NEW e \in Nat, NEW n \in 0..(d[e] - 1)
        PROVE  \E y \in S \cup {x} : y.dh = Pub(e) /\ y.n = n
    <2>1. CASE e = q /\ n = c[q]
      BY <1>1, <2>1
    <2>2. CASE ~(e = q /\ n = c[q])
      <3>1. n \in 0..(c[e] - 1)
        BY <1>1, <1>3, <1>9, <2>2
      <3>2. QED
        BY <1>2, <3>1
    <2>3. QED
      BY <2>1, <2>2
  <1>10. ASSUME NEW y \in S PROVE ~(y.dh = x.dh /\ y.n = x.n)
    <2>1. SUFFICES ASSUME y.dh = x.dh PROVE y.n # x.n
      OBVIOUS
    <2>2. Place(y.dh) = q
      BY <1>1, <2>1
    <2>3. y.to = Ratchet!Other(p)
      BY <1>1, <1>2, <2>2 DEF Message
    <2>4. QED
      BY <1>1, <2>2, <2>3
  <1>11. \A y, z \in S \cup {x} : y.dh = z.dh /\ y.n = z.n => y = z
    BY <1>2, <1>10
  <1>12. ASSUME NEW y \in S, y.to = x.to PROVE y.at < x.at /\ ~Precedes(x, y)
    <2>1. y.at < x.at
      <3>1. {z \in S : z.to = y.to} = {m \in S : m.to = Ratchet!Other(p)}
        BY <1>1, <1>12
      <3>2. y.at < Cardinality({z \in S : z.to = y.to})
        BY <1>2
      <3>3. QED
        BY <1>1, <3>1, <3>2
    <2>2. ~Precedes(x, y)
      BY <1>1, <1>12 DEF Precedes
    <2>3. QED
      BY <2>1, <2>2
  <1>13. ~Precedes(x, x)
    BY <1>1 DEF Precedes
  <1>14. \A y, z \in S \cup {x} : y.to = z.to /\ Precedes(y, z) => y.at < z.at
    BY <1>2, <1>12, <1>13
  <1>15. ASSUME NEW y \in S \cup {x} PROVE y.at < Cardinality({z \in S \cup {x} : z.to = y.to})
    <2> DEFINE A == {z \in S : z.to = y.to}
               B == {z \in S \cup {x} : z.to = y.to}
    <2>1. IsFiniteSet(S \cup {x})
      BY <1>2, FS_AddElement
    <2>2. B \subseteq S \cup {x} /\ A \subseteq S /\ A \subseteq B
      OBVIOUS
    <2> HIDE DEF A, B
    <2>3. IsFiniteSet(A) /\ IsFiniteSet(B)
      BY <1>2, <2>1, <2>2, FS_Subset
    <2>4. Cardinality(A) \in Nat /\ Cardinality(B) \in Nat /\ Cardinality(A) <= Cardinality(B)
      BY <2>2, <2>3, FS_Subset, FS_CardinalityType
    <2>5. CASE y = x
      <3>1. A = {m \in S : m.to = Ratchet!Other(p)} /\ B = A \cup {x}
        BY <1>1, <2>5 DEF A, B
      <3>2. x \notin A
        BY <1>10 DEF A
      <3>3. Cardinality(B) = Cardinality(A) + 1
        BY <2>3, <3>1, <3>2, FS_AddElement
      <3>4. x.at = Cardinality(A)
        BY <1>1, <3>1
      <3>5. QED
        BY <2>4, <2>5, <3>3, <3>4 DEF B
    <2>6. CASE y \in S
      <3>1. y.at < Cardinality(A)
        BY <1>2, <2>6 DEF A
      <3>2. y.at \in Nat
        BY <1>2, <2>6 DEF Message
      <3>3. y.at < Cardinality(B)
        BY <2>4, <3>1, <3>2
      <3>4. QED
        BY <3>3 DEF B
    <2>7. QED
      BY <2>5, <2>6
  <1>16. IsFiniteSet(S \cup {x})
    BY <1>2, FS_AddElement
  <1>17. QED
    BY <1>3, <1>4, <1>5, <1>7, <1>8, <1>9, <1>11, <1>14, <1>15, <1>16 DEF Made
LEMMA BeforeStays ==
    ASSUME NEW S, NEW c, NEW Q, Made(S, c, Q), NEW q \in Nat, NEW d, OneMore(d, c, q),
           NEW e \in Nat, e # q + 2
    PROVE  Before(d, e) = Before(c, e)
  <1>1. c \in [Nat -> Nat]
    BY DEF Made
  <1>2. CASE e < 2
    BY <1>2 DEF Before
  <1>3. CASE e >= 2
    <2>1. e - 2 \in Nat /\ e - 2 # q
      BY <1>3
    <2>2. d[e - 2] = c[e - 2]
      BY <1>1, <2>1 DEF OneMore
    <2>3. QED
      BY <1>3, <2>2 DEF Before
  <1>4. QED
    BY <1>2, <1>3

\* The writer's own side.
LEMMA WriterKeeps ==
    ASSUME NEW S, NEW c, NEW Q, Made(S, c, Q), Turns(Q), NEW p \in Ratchet!Party, NEW q, q = Q[p], q >= 1,
           NEW r, Sends(r, q, c), NEW O, Receives(p, r, q, c, S, O), NEW x, Writes(S, p, r, x),
           NEW d, OneMore(d, c, q)
    PROVE  Sends(Ratchet!Encrypted(r), q, d) /\ Receives(p, Ratchet!Encrypted(r), q, d, S \cup {x}, O)
  <1>1. q \in Nat /\ Ratchet!Other(p) # p
    BY PlacesAre
  <1>2. c \in [Nat -> Nat] /\ c[q] \in Nat /\ d[q] = c[q] + 1 /\ q # 0
    BY <1>1 DEF Made, OneMore
  <1>3. /\ IsState(r)
        /\ r.rk = Root(q) /\ r.dhs = Pub(q) /\ r.ns = c[q] /\ r.pn = Before(c, q)
        /\ r.cks = Link(q, c[q])
    BY <1>2 DEF Sends
  <1> DEFINE w == Ratchet!Encrypted(r)
  <1>4. Ratchet!KdfCk(r.cks) = Link(q, c[q] + 1)
    BY <1>3 DEF Ratchet!KdfCk, Link
  <1>5. w = [rk |-> r.rk, dhs |-> r.dhs, dhr |-> r.dhr, cks |-> Link(q, c[q] + 1), ckr |-> r.ckr,
             ns |-> c[q] + 1, nr |-> r.nr, pn |-> r.pn, skipped |-> r.skipped]
    <2>1. PICK k : k = Link(q, c[q] + 1)
      OBVIOUS
    <2>2. w = [r EXCEPT !.ns = c[q] + 1, !.cks = k]
      BY <1>3, <1>4, <2>1 DEF Ratchet!Encrypted
    <2> HIDE DEF w
    <2>3. QED
      BY <1>3, <2>1, <2>2 DEF IsState
  <1> HIDE DEF w
  <1>6. IsState(w) /\ w.rk = r.rk /\ w.dhs = r.dhs /\ w.dhr = r.dhr /\ w.cks = Link(q, c[q] + 1) /\ w.ckr = r.ckr
        /\ w.ns = c[q] + 1 /\ w.nr = r.nr /\ w.pn = r.pn /\ w.skipped = r.skipped
    BY <1>5 DEF IsState
  <1>7. Before(d, q) = Before(c, q)
    <2>1. q # q + 2
      BY <1>1
    <2>2. QED
      BY <1>1, <2>1, BeforeStays
  <1>8. Sends(w, q, d)
    BY <1>2, <1>3, <1>6, <1>7 DEF Sends
  <1>9. Late(p, q, r.nr, S \cup {x}, O) = Late(p, q, r.nr, S, O)
    <2>1. x.to # p
      BY <1>1 DEF Writes
    <2>2. QED
      BY <2>1 DEF Late
  <1>10. d[q - 1] = c[q - 1]
    <2>1. q - 1 \in Nat /\ q - 1 # q
      BY <1>1, <1>2
    <2>2. QED
      BY <1>2, <2>1 DEF OneMore
  <1>11. Receives(p, w, q, d, S \cup {x}, O)
    <2>1. /\ r.dhr = (IF q = 0 THEN Ratchet!NoKey ELSE Pub(q - 1))
          /\ r.ckr = (IF q <= 1 THEN Ratchet!NoChain ELSE Link(q - 1, r.nr))
          /\ r.nr \in Nat /\ r.nr <= (IF q = 0 THEN 0 ELSE c[q - 1])
          /\ r.skipped = KeysOf(Late(p, q, r.nr, S, O))
          /\ KeysBounded(r)
          /\ \A y \in O : y.to = p => Past(y, q, r.nr)
      BY DEF Receives
    <2>2. KeysBounded(w)
      BY <1>6, <2>1 DEF KeysBounded
    <2>3. QED
      BY <1>6, <1>9, <1>10, <2>1, <2>2 DEF Receives
  <1>12. QED
    BY <1>8, <1>11 DEF w

\* The reader of the new message has not passed it.
LEMMA ReaderKeeps ==
    ASSUME NEW S, NEW c, NEW Q, Made(S, c, Q), Turns(Q), NEW p \in Ratchet!Party, NEW q, q = Q[p], q >= 1,
           NEW r, Sends(r, q, c), NEW x, Writes(S, p, r, x), NEW d, OneMore(d, c, q),
           NEW o, o = Ratchet!Other(p), NEW f, f = Q[o], NEW t, NEW O, Sends(t, f, c), Receives(o, t, f, c, S, O)
    PROVE  Sends(t, f, d) /\ Receives(o, t, f, d, S \cup {x}, O)
  <1>1. q \in Nat /\ f \in Nat /\ (f = q + 1 \/ q = f + 1)
    BY PlacesAre
  <1>2. /\ c[q] \in Nat /\ Place(x.dh) = q /\ x.n = c[q]
    <2>1. Written(S, c, p, q, x)
      BY WriteIs
    <2>2. QED
      BY <2>1 DEF Written
  <1>3. c \in [Nat -> Nat] /\ d[f] = c[f] /\ \A e \in Nat : c[e] \in Nat /\ d[e] \in Nat /\ c[e] <= d[e]
    BY <1>1, <1>2 DEF Made, OneMore
  <1>4. Before(d, f) = Before(c, f)
    <2>1. f # q + 2
      BY <1>1
    <2>2. QED
      BY <1>1, <2>1, BeforeStays
  <1>5. Sends(t, f, d)
    BY <1>3, <1>4 DEF Sends
  <1>6. /\ t.dhr = (IF f = 0 THEN Ratchet!NoKey ELSE Pub(f - 1))
        /\ t.ckr = (IF f <= 1 THEN Ratchet!NoChain ELSE Link(f - 1, t.nr))
        /\ t.nr \in Nat /\ t.nr <= (IF f = 0 THEN 0 ELSE c[f - 1])
        /\ t.skipped = KeysOf(Late(o, f, t.nr, S, O))
        /\ KeysBounded(t)
        /\ \A y \in O : y.to = o => Past(y, f, t.nr)
    BY DEF Receives
  <1>7. ~Past(x, f, t.nr)
    <2>1. SUFFICES ASSUME q = f - 1, c[q] < t.nr PROVE FALSE
      BY <1>1, <1>2 DEF Past
    <2>2. f # 0 /\ t.nr <= c[q]
      BY <1>1, <1>6, <2>1
    <2>3. QED
      BY <1>2, <1>6, <2>1, <2>2
  <1>8. Late(o, f, t.nr, S \cup {x}, O) = Late(o, f, t.nr, S, O)
    BY <1>7 DEF Late
  <1>9. t.nr <= (IF f = 0 THEN 0 ELSE d[f - 1])
    <2>1. CASE f = 0
      BY <1>6, <2>1
    <2>2. CASE f # 0
      <3>1. f - 1 \in Nat
        BY <1>1, <2>2
      <3>2. c[f - 1] \in Nat /\ d[f - 1] \in Nat /\ c[f - 1] <= d[f - 1]
        BY <1>3, <3>1
      <3>3. QED
        BY <1>6, <2>2, <3>2
    <2>3. QED
      BY <2>1, <2>2
  <1>10. Receives(o, t, f, d, S \cup {x}, O)
    BY <1>6, <1>8, <1>9 DEF Receives
  <1>11. QED
    BY <1>5, <1>10

LEMMA WriteKeeps ==
    ASSUME NEW S, NEW O, NEW R, NEW c, NEW Q, Session(R, c, Q, S, O), NEW p \in Ratchet!Party, Q[p] >= 1,
           NEW x, Writes(S, p, R[p], x), NEW T, T[p] = Ratchet!Encrypted(R[p]), T[Ratchet!Other(p)] = R[Ratchet!Other(p)]
    PROVE  \E d : Session(T, d, Q, S \cup {x}, O)
  <1>1. PICK q, r : q = Q[p] /\ r = R[p]
    OBVIOUS
  <1>2. PICK o : o = Ratchet!Other(p)
    OBVIOUS
  <1>3. PICK f, t : f = Q[o] /\ t = R[o]
    OBVIOUS
  <1>4. PICK d : OneMore(d, c, q)
    BY DEF OneMore
  <1>5. Turns(Q) /\ Made(S, c, Q) /\ q >= 1 /\ Writes(S, p, r, x) /\ o \in Ratchet!Party
    BY <1>1, <1>2 DEF Session, Ratchet!Other, Ratchet!Party
  <1>6. Sends(r, q, c) /\ Receives(p, r, q, c, S, O) /\ Sends(t, f, c) /\ Receives(o, t, f, c, S, O)
    BY <1>1, <1>3, <1>5 DEF Session
  <1>7. Made(S \cup {x}, d, Q)
    BY <1>1, <1>4, <1>5, <1>6, WriteMakes
  <1>8. Sends(Ratchet!Encrypted(r), q, d) /\ Receives(p, Ratchet!Encrypted(r), q, d, S \cup {x}, O)
    BY <1>1, <1>4, <1>5, <1>6, WriterKeeps
  <1>9. Sends(t, f, d) /\ Receives(o, t, f, d, S \cup {x}, O)
    BY <1>1, <1>2, <1>3, <1>4, <1>5, <1>6, ReaderKeeps
  <1>10. T[p] = Ratchet!Encrypted(r) /\ T[o] = t
    BY <1>1, <1>2, <1>3
  <1>11. \A y \in Ratchet!Party : y = p \/ y = o
    BY <1>2 DEF Ratchet!Party, Ratchet!Other
  <1>12. ASSUME NEW y \in Ratchet!Party PROVE Sends(T[y], Q[y], d) /\ Receives(y, T[y], Q[y], d, S \cup {x}, O)
    <2>1. CASE y = p
      BY <1>1, <1>8, <1>10, <2>1
    <2>2. CASE y = o
      BY <1>3, <1>9, <1>10, <2>2
    <2>3. QED
      BY <1>11, <2>1, <2>2
  <1>13. QED
    BY <1>5, <1>7, <1>12 DEF Session
LEMMA EncryptKeeps ==
    ASSUME Ratchet!RatchetAssumption, RatchetInv, NEW p \in Ratchet!Party, Ratchet!Encrypt(p)
    PROVE  RatchetInv'
  <1>1. PICK c, Q : (joined <=> Q["b"] # 0) /\ Session(ratchet, c, Q, sent, read)
    BY DEF RatchetInv
  <1>2. /\ read \subseteq sent /\ ratchet = [y \in Ratchet!Party |-> ratchet[y]]
        /\ ~joined => ratchet["b"] = Ratchet!InitBob
    BY DEF RatchetInv
  <1>3. PICK x : x = Ratchet!Sealed(p, ratchet[p])
    OBVIOUS
  <1>4. /\ p = "b" => joined
        /\ sent' = sent \cup {x} /\ ratchet' = [ratchet EXCEPT ![p] = Ratchet!Encrypted(ratchet[p])]
        /\ joined' = joined /\ read' = read
    BY <1>3 DEF Ratchet!Encrypt
  <1>5. Turns(Q)
    BY <1>1 DEF Session
  <1>6. Q[p] >= 1
    BY <1>1, <1>4, <1>5 DEF Turns, Ratchet!Party
  <1>7. Writes(sent, p, ratchet[p], x)
    BY <1>3, SameRatchetSize DEF Writes, Ratchet!Sealed
  <1>8. PICK T : T = ratchet'
    OBVIOUS
  <1>9. /\ T[p] = Ratchet!Encrypted(ratchet[p]) /\ T[Ratchet!Other(p)] = ratchet[Ratchet!Other(p)]
        /\ T = [y \in Ratchet!Party |-> T[y]]
    <2>1. PICK w : w = Ratchet!Encrypted(ratchet[p])
      OBVIOUS
    <2>2. T = [ratchet EXCEPT ![p] = w]
      BY <1>4, <1>8, <2>1
    <2>3. T = [y \in Ratchet!Party |-> IF y = p THEN w ELSE ratchet[y]]
      BY <1>2, <2>2
    <2>4. Ratchet!Other(p) \in Ratchet!Party /\ Ratchet!Other(p) # p
      BY DEF Ratchet!Other, Ratchet!Party
    <2>5. QED
      BY <2>1, <2>3, <2>4
  <1>10. PICK d : Session(T, d, Q, sent \cup {x}, read)
    BY <1>1, <1>6, <1>7, <1>9, WriteKeeps
  <1>11. ~joined' => T["b"] = Ratchet!InitBob
    <2>1. SUFFICES ASSUME ~joined PROVE T["b"] = Ratchet!InitBob
      BY <1>4
    <2>2. p = "a"
      BY <1>4, <2>1 DEF Ratchet!Party
    <2>3. QED
      BY <1>2, <1>9, <2>1, <2>2 DEF Ratchet!Other
  <1>12. (joined' <=> Q["b"] # 0) /\ Session(ratchet', d, Q, sent', read')
    BY <1>1, <1>4, <1>8, <1>10
  <1>13. /\ read' \subseteq sent' /\ ratchet' = [y \in Ratchet!Party |-> ratchet'[y]]
         /\ ~joined' => ratchet'["b"] = Ratchet!InitBob
    BY <1>2, <1>4, <1>8, <1>9, <1>11
  <1>14. QED
    BY <1>12, <1>13 DEF RatchetInv

\* What a party sees of the session.
LEMMA SessionView ==
    ASSUME NEW R, NEW c, NEW Q, NEW S, NEW O, Session(R, c, Q, S, O), O \subseteq S, NEW p \in Ratchet!Party
    PROVE  PartyView(p, R[p], Q[p], c, Q, S, O)
  BY DEF Session, PartyView

LEMMA OpenedKeeps ==
    ASSUME Ratchet!RatchetAssumption, RatchetInv, NEW m \in sent, NEW p, p = m.to,
           Ratchet!DecryptStaged(ratchet[p], m).ok,
           ratchet' = [ratchet EXCEPT ![p] = Ratchet!DecryptStaged(ratchet[p], m).next],
           read' = read \cup {m}, sent' = sent,
           p = "b" => joined', p # "b" => (joined' <=> joined)
    PROVE  RatchetInv'
  <1>1. PICK c, Q : (joined <=> Q["b"] # 0) /\ Session(ratchet, c, Q, sent, read)
    BY DEF RatchetInv
  <1>2. /\ read \subseteq sent /\ ratchet = [y \in Ratchet!Party |-> ratchet[y]]
        /\ ~joined => ratchet["b"] = Ratchet!InitBob
    BY DEF RatchetInv
  <1>3. p \in Ratchet!Party
    <2>1. Message(m, c, Q)
      BY <1>1 DEF Session, Made
    <2>2. QED
      BY <2>1 DEF Message, Reader, Ratchet!Party
  <1>4. PICK S, O, r, w, T, o : /\ S = sent /\ O = read /\ r = ratchet[p] /\ w = Ratchet!DecryptStaged(r, m).next
                                /\ T = ratchet' /\ o = Ratchet!Other(p)
    OBVIOUS
  <1>5. PartyView(p, r, Q[p], c, Q, S, O)
    <2>1. PartyView(p, ratchet[p], Q[p], c, Q, sent, read)
      BY <1>1, <1>2, <1>3, SessionView
    <2>2. QED
      BY <1>4, <2>1
  <1>6. PICK Q2 \in [Ratchet!Party -> Nat] : Knows(p, w, c, Q, Q2, S, O \cup {m})
    <2>1. \E Q2 \in [Ratchet!Party -> Nat] : Knows(p, Ratchet!DecryptStaged(r, m).next, c, Q, Q2, S, O \cup {m})
      BY <1>4, <1>5, OpensKeeps
    <2>2. QED
      BY <1>4, <2>1
  <1>7. PartyView(p, w, Q2[p], c, Q2, S, O \cup {m}) /\ Q2[o] = Q[o] /\ Q2[p] >= 2
    BY <1>4, <1>6 DEF Knows
  <1>8. o \in Ratchet!Party /\ o # p /\ (p = "b" \/ (p = "a" /\ o = "b")) /\ \A y \in Ratchet!Party : y = p \/ y = o
    BY <1>3, <1>4 DEF Ratchet!Other, Ratchet!Party
  <1>9. T = [y \in Ratchet!Party |-> IF y = p THEN w ELSE ratchet[y]]
    <2>1. T = [ratchet EXCEPT ![p] = w]
      BY <1>4
    <2>2. QED
      BY <1>2, <2>1
  <1>10. T[p] = w /\ T[o] = ratchet[o] /\ T = [y \in Ratchet!Party |-> T[y]]
    BY <1>3, <1>8, <1>9
  <1>11. Sends(T[o], Q2[o], c) /\ Receives(o, T[o], Q2[o], c, S, O \cup {m})
    <2>1. Sends(ratchet[o], Q[o], c) /\ Receives(o, ratchet[o], Q[o], c, S, O)
      BY <1>1, <1>4, <1>8 DEF Session
    <2>2. m.to # o
      BY <1>8
    <2>3. Receives(o, ratchet[o], Q[o], c, S, O \cup {m})
      BY <2>1, <2>2, OtherKeeps
    <2>4. QED
      BY <1>7, <1>10, <2>1, <2>3
  <1>12. Sends(T[p], Q2[p], c) /\ Receives(p, T[p], Q2[p], c, S, O \cup {m}) /\ Turns(Q2) /\ Made(S, c, Q2)
    BY <1>7, <1>10 DEF PartyView
  <1>13. Session(T, c, Q2, S, O \cup {m})
    BY <1>8, <1>11, <1>12 DEF Session
  <1>14. Session(ratchet', c, Q2, sent', read')
    BY <1>4, <1>13
  <1>15. joined' <=> Q2["b"] # 0
    <2>1. CASE p = "b"
      <3>1. Q2["b"] >= 2
        BY <1>7, <2>1
      <3>2. Q2["b"] # 0
        BY <3>1
      <3>3. QED
        BY <2>1, <3>2
    <2>2. CASE p = "a" /\ o = "b"
      BY <1>1, <1>7, <2>2
    <2>3. QED
      BY <1>8, <2>1, <2>2
  <1>16. ~joined' => ratchet'["b"] = Ratchet!InitBob
    <2>1. SUFFICES ASSUME ~joined', p = "a", o = "b" PROVE ratchet'["b"] = Ratchet!InitBob
      BY <1>8
    <2>2. ratchet'["b"] = ratchet["b"]
      BY <1>4, <1>10, <2>1
    <2>3. QED
      BY <1>2, <2>1, <2>2
  <1>17. read' \subseteq sent' /\ ratchet' = [y \in Ratchet!Party |-> ratchet'[y]]
    BY <1>2, <1>4, <1>10
  <1>18. QED
    BY <1>14, <1>15, <1>16, <1>17 DEF RatchetInv

LEMMA DecryptKeeps ==
    ASSUME Ratchet!RatchetAssumption, RatchetInv, NEW m \in sent, Ratchet!Decrypt(m)
    PROVE  RatchetInv'
  <1>1. PICK p, s : p = m.to /\ s = Ratchet!DecryptStaged(ratchet[p], m)
    OBVIOUS
  <1>2. /\ p = "b" => joined
        /\ ratchet' = [ratchet EXCEPT ![p] = Ratchet!Committed(ratchet[p], s)]
        /\ read' = (IF s.ok THEN read \cup {m} ELSE read)
        /\ joined' = joined /\ sent' = sent
    BY <1>1 DEF Ratchet!Decrypt
  <1>3. CASE s.ok
    <2>1. /\ ratchet' = [ratchet EXCEPT ![p] = s.next] /\ read' = read \cup {m}
      BY <1>2, <1>3 DEF Ratchet!Committed
    <2>2. QED
      BY <1>1, <1>2, <1>3, <2>1, OpenedKeeps
  <1>4. CASE ~s.ok
    <2>1. ratchet' = [ratchet EXCEPT ![p] = ratchet[p]] /\ read' = read
      BY <1>2, <1>4 DEF Ratchet!Committed
    <2>2. ratchet' = ratchet
      BY <2>1 DEF RatchetInv
    <2>3. QED
      BY <1>2, <2>1, <2>2 DEF RatchetInv
  <1>5. QED
    BY <1>3, <1>4

LEMMA FirstOpenKeeps ==
    ASSUME Ratchet!RatchetAssumption, RatchetInv, NEW m \in sent, Ratchet!Accept(m)
    PROVE  RatchetInv'
  <1>1. PICK p, s : p = "b" /\ s = Ratchet!DecryptStaged(Ratchet!InitBob, m)
    OBVIOUS
  <1>2. /\ ~joined /\ m.to = "b" /\ s.ok /\ joined'
        /\ ratchet' = [ratchet EXCEPT !["b"] = s.next]
        /\ read' = read \cup {m} /\ sent' = sent
    BY <1>1 DEF Ratchet!Accept
  <1>3. ratchet[p] = Ratchet!InitBob
    BY <1>1, <1>2 DEF RatchetInv
  <1>4. s = Ratchet!DecryptStaged(ratchet[p], m)
    BY <1>1, <1>3
  <1>5. ratchet' = [ratchet EXCEPT ![p] = s.next]
    BY <1>1, <1>2
  <1>6. QED
    BY <1>1, <1>2, <1>4, <1>5, OpenedKeeps, ZenonT(40)

LEMMA RatchetStep ==
    ASSUME Ratchet!RatchetAssumption, RatchetInv, [Ratchet!Next]_Ratchet!vars
    PROVE  RatchetInv'
  <1>1. CASE \E p \in Ratchet!Party : Ratchet!Encrypt(p)
    BY <1>1, EncryptKeeps
  <1>2. CASE \E m \in sent : Ratchet!Decrypt(m)
    BY <1>2, DecryptKeeps
  <1>3. CASE \E m \in sent : Ratchet!Accept(m)
    BY <1>3, FirstOpenKeeps
  <1>4. CASE UNCHANGED Ratchet!vars
    BY <1>4 DEF RatchetInv, Ratchet!vars
  <1>5. QED
    BY <1>1, <1>2, <1>3, <1>4 DEF Ratchet!Next

-----------------------------------------------------------------------------
\* Before the first message.
LEMMA Nothing ==
    Ratchet!RatchetAssumption =>
    \E R, c, Q : /\ Session(R, c, Q, {}, {}) /\ Q["b"] = 0 /\ Q["a"] = 1
                 /\ R["a"] = Ratchet!InitAlice /\ R["b"] = Ratchet!InitBob
  <1> SUFFICES ASSUME Ratchet!RatchetAssumption
               PROVE  \E R, c, Q : /\ Session(R, c, Q, {}, {}) /\ Q["b"] = 0 /\ Q["a"] = 1
                                   /\ R["a"] = Ratchet!InitAlice /\ R["b"] = Ratchet!InitBob
    OBVIOUS
  <1>1. PICK Q : Q = [p \in Ratchet!Party |-> IF p = "a" THEN 1 ELSE 0]
    OBVIOUS
  <1>2. PICK c : c = [e \in Nat |-> 0]
    OBVIOUS
  <1>3. PICK R : R = [p \in Ratchet!Party |-> IF p = "a" THEN Ratchet!InitAlice ELSE Ratchet!InitBob]
    OBVIOUS
  <1>4. Q["a"] = 1 /\ Q["b"] = 0 /\ Q \in [Ratchet!Party -> Nat] /\ R["a"] = Ratchet!InitAlice /\ R["b"] = Ratchet!InitBob
    BY <1>1, <1>3 DEF Ratchet!Party
  <1>5. Turns(Q)
    BY <1>4 DEF Turns
  <1>6. Made({}, c, Q)
    <2>1. c \in [Nat -> Nat] /\ \A e \in Nat : c[e] = 0
      BY <1>2
    <2>2. \A e \in Nat : 0..(c[e] - 1) = {}
      BY <2>1
    <2>3. IsFiniteSet({})
      BY FS_EmptySet
    <2>4. QED
      BY <2>1, <2>2, <2>3 DEF Made
  <1>7. Pub(0) = <<"b", 0>> /\ Pub(1) = <<"a", 0>>
    BY DEF Pub
  <1>8. Root(0) = <<>> /\ Root(1) = <<Ratchet!Dh(Pub(1), Pub(0))>>
    <2>1. Root(0) = [i \in 1..0 |-> Ratchet!Dh(Pub(i), Pub(i - 1))] /\ 1..0 = {}
      BY DEF Root
    <2>2. Root(0) = <<>>
      <3>1. Root(0) \in Seq(SUBSET (Ratchet!Party \X Nat)) /\ Len(Root(0)) = 0
        BY Roots
      <3>2. QED
        BY <3>1, EmptySeq
    <2>3. PICK z : z = Ratchet!Dh(Pub(1), Pub(0))
      OBVIOUS
    <2>4. Root(1) = [i \in 1..1 |-> z]
      <3>1. \A i \in 1..1 : Ratchet!Dh(Pub(i), Pub(i - 1)) = z
        BY <2>3
      <3>2. QED
        BY <3>1 DEF Root
    <2>5. QED
      BY <2>2, <2>3, <2>4
  <1>9. \A p : Late(p, 0, 0, {}, {}) = {} /\ Late(p, 1, 0, {}, {}) = {} /\ KeysOf({}) = {}
    BY DEF Late, KeysOf
  <1>10. ASSUME NEW r, r.skipped = {} PROVE KeysBounded(r)
    <2>1. IsFiniteSet({}) /\ Cardinality({}) = 0
      BY FS_EmptySet
    <2>2. QED
      BY <1>10, <2>1 DEF KeysBounded, Ratchet!RatchetAssumption
  <1>11. c[0] = 0 /\ c[1] = 0
    BY <1>2
  <1>12. Sends(Ratchet!InitAlice, 1, c) /\ Receives("a", Ratchet!InitAlice, 1, c, {}, {})
    <2>1. PICK r, R1 : r = Ratchet!InitAlice /\ R1 = Root(1)
      OBVIOUS
    <2>2. r = [rk |-> R1, dhs |-> Pub(1), dhr |-> Pub(0), cks |-> Ratchet!Chain(R1), ckr |-> Ratchet!NoChain,
               ns |-> 0, nr |-> 0, pn |-> 0, skipped |-> {}]
      BY <1>7, <1>8, <2>1 DEF Ratchet!InitAlice, Ratchet!Spk
    <2>3. Ratchet!Chain(R1) = Link(1, 0)
      BY <2>1 DEF Ratchet!Chain, Link
    <2>4. IsState(r)
      BY <2>2 DEF IsState
    <2>5. Before(c, 1) = 0
      BY DEF Before
    <2>6. r.rk = R1 /\ r.dhs = Pub(1) /\ r.dhr = Pub(0) /\ r.cks = Ratchet!Chain(R1) /\ r.ckr = Ratchet!NoChain
          /\ r.ns = 0 /\ r.nr = 0 /\ r.pn = 0 /\ r.skipped = {}
      BY <2>2
    <2>7. Sends(r, 1, c)
      BY <1>11, <2>1, <2>3, <2>4, <2>5, <2>6 DEF Sends
    <2>8. r.skipped = KeysOf(Late("a", 1, 0, {}, {})) /\ KeysBounded(r)
      BY <1>9, <1>10, <2>6
    <2>9. Receives("a", r, 1, c, {}, {})
      BY <1>11, <2>6, <2>8 DEF Receives
    <2>10. QED
      BY <2>1, <2>7, <2>9
  <1>13. Sends(Ratchet!InitBob, 0, c) /\ Receives("b", Ratchet!InitBob, 0, c, {}, {})
    <2>1. PICK r : r = Ratchet!InitBob
      OBVIOUS
    <2>2. r = [rk |-> <<>>, dhs |-> Pub(0), dhr |-> Ratchet!NoKey, cks |-> Ratchet!NoChain, ckr |-> Ratchet!NoChain,
               ns |-> 0, nr |-> 0, pn |-> 0, skipped |-> {}]
      BY <1>7, <2>1 DEF Ratchet!InitBob, Ratchet!Spk
    <2>3. IsState(r)
      BY <2>2 DEF IsState
    <2>4. Before(c, 0) = 0
      BY DEF Before
    <2>5. r.rk = <<>> /\ r.dhs = Pub(0) /\ r.dhr = Ratchet!NoKey /\ r.cks = Ratchet!NoChain /\ r.ckr = Ratchet!NoChain
          /\ r.ns = 0 /\ r.nr = 0 /\ r.pn = 0 /\ r.skipped = {}
      BY <2>2
    <2>6. Sends(r, 0, c)
      BY <1>8, <1>11, <2>3, <2>4, <2>5 DEF Sends
    <2>7. r.skipped = KeysOf(Late("b", 0, 0, {}, {})) /\ KeysBounded(r)
      BY <1>9, <1>10, <2>5
    <2>8. Receives("b", r, 0, c, {}, {})
      BY <2>5, <2>7 DEF Receives
    <2>9. QED
      BY <2>1, <2>6, <2>8
  <1>14. Session(R, c, Q, {}, {})
    BY <1>4, <1>5, <1>6, <1>12, <1>13 DEF Session, Ratchet!Party
  <1>15. QED
    BY <1>4, <1>14

LEMMA RatchetStart ==
    ASSUME Ratchet!RatchetAssumption, Ratchet!Init
    PROVE  RatchetInv
  <1>1. PICK R, c, Q : /\ Session(R, c, Q, {}, {}) /\ Q["b"] = 0 /\ Q["a"] = 1
                       /\ R["a"] = Ratchet!InitAlice /\ R["b"] = Ratchet!InitBob
    BY Nothing
  <1>2. PICK x : x = [to |-> "b", dh |-> Ratchet!InitAlice.dhs, pn |-> 0, n |-> 0,
                      key |-> Ratchet!InitAlice.cks, at |-> 0]
    OBVIOUS
  <1>3. sent = {x} /\ read = {} /\ ~joined
        /\ ratchet = [p \in Ratchet!Party |-> IF p = "a" THEN Ratchet!Encrypted(Ratchet!InitAlice) ELSE Ratchet!InitBob]
    BY <1>2 DEF Ratchet!Init
  <1>4. PICK p : p = "a"
    OBVIOUS
  <1>5. p \in Ratchet!Party /\ Ratchet!Other(p) = "b"
    BY <1>4 DEF Ratchet!Other, Ratchet!Party
  <1>6. Writes({}, p, R[p], x)
    <2>1. Ratchet!InitAlice.pn = 0 /\ Ratchet!InitAlice.ns = 0
      BY DEF Ratchet!InitAlice
    <2>2. {m \in {} : m.to = Ratchet!Other(p)} = {} /\ Cardinality({}) = 0
      BY FS_EmptySet
    <2>3. R[p] = Ratchet!InitAlice
      BY <1>1, <1>4
    <2>4. QED
      BY <1>2, <1>5, <2>1, <2>2, <2>3 DEF Writes
  <1>7. PICK T : T = ratchet
    OBVIOUS
  <1>8. T[p] = Ratchet!Encrypted(R[p]) /\ T[Ratchet!Other(p)] = R[Ratchet!Other(p)]
    BY <1>1, <1>3, <1>4, <1>5, <1>7 DEF Ratchet!Party
  <1>9. Q[p] >= 1
    BY <1>1, <1>4
  <1>10. PICK d : Session(T, d, Q, {} \cup {x}, {})
    BY <1>1, <1>5, <1>6, <1>8, <1>9, WriteKeeps
  <1>11. {} \cup {x} = sent
    BY <1>3
  <1>12. Session(ratchet, d, Q, sent, read)
    BY <1>3, <1>7, <1>10, <1>11
  <1>13. joined <=> Q["b"] # 0
    BY <1>1, <1>3
  <1>14. read \subseteq sent /\ ratchet = [y \in Ratchet!Party |-> ratchet[y]] /\ ratchet["b"] = Ratchet!InitBob
    BY <1>3 DEF Ratchet!Party
  <1>15. QED
    BY <1>12, <1>13, <1>14 DEF RatchetInv

-----------------------------------------------------------------------------
\* The key of a message tells which it is.
LEMMA KeyTells ==
    ASSUME NEW S, NEW c, NEW Q, Made(S, c, Q), Turns(Q), NEW x \in S, NEW y \in S, x.key = y.key
    PROVE  x = y
  <1>1. Message(x, c, Q) /\ Message(y, c, Q)
    BY DEF Made
  <1>2. PICK e, f : e = Place(x.dh) /\ f = Place(y.dh)
    OBVIOUS
  <1>3. /\ e \in 1..Q[Writer(e)] /\ x.dh = Pub(e) /\ x.key = Link(e, x.n)
        /\ f \in 1..Q[Writer(f)] /\ y.dh = Pub(f) /\ y.key = Link(f, y.n)
    BY <1>1, <1>2 DEF Message
  <1>4. Q[Writer(e)] \in Nat /\ Q[Writer(f)] \in Nat
    BY DEF Turns, Writer, Ratchet!Party
  <1>5. e \in Nat /\ f \in Nat
    BY <1>3, <1>4
  <1>6. e = f /\ x.n = y.n
    <2>1. Link(e, x.n) = Link(f, y.n)
      BY <1>3
    <2>2. QED
      BY <1>5, <2>1, Links
  <1>7. QED
    BY <1>3, <1>6 DEF Made

\* Nothing that counts as missing of m: later than m.
LEMMA MissingHas ==
    ASSUME NEW S, NEW c, NEW Q, Made(S, c, Q), NEW O, NEW p, NEW m \in S, m.to = p,
           NEW M, M = {x \in S \ O : x.to = m.to /\ x.at < m.at},
           NEW x \in S \ O, x.to = p, Precedes(x, m)
    PROVE  x \in M
  BY DEF Made

\* A message that was not opened yet opens while few enough are missing before it.
LEMMA Opens ==
    ASSUME Ratchet!RatchetAssumption, NEW p, NEW r, NEW q, NEW c, NEW Q, NEW S, NEW O, PartyView(p, r, q, c, Q, S, O),
           NEW m \in S, m \notin O, m.to = p, NEW M, M = {x \in S \ O : x.to = m.to /\ x.at < m.at},
           Cardinality(M) <= MaxSkipped,
           \A dh \in {x.dh : x \in M} : Cardinality({x \in M : x.dh = dh}) <= MaxSkip
    PROVE  Ratchet!DecryptStaged(r, m).ok
  <1>1. q \in Nat /\ p \in Ratchet!Party /\ Turns(Q) /\ Made(S, c, Q) /\ O \subseteq S /\ q = Q[p] /\ M \subseteq S
    BY PlacesAre DEF PartyView
  <1>2. PICK e \in Nat : IsFor(m, e, q, c, Q, p)
    BY <1>1, MessageFor
  <1>3. e >= 1 /\ Place(m.dh) = e /\ (e = q + 1 \/ e + 1 <= q) /\ m.n \in Nat /\ m.n < c[e]
        /\ r.nr \in Nat
    BY <1>2 DEF IsFor, PartyView, Receives
  <1>4. c[e] \in Nat
    BY <1>1 DEF Made
  <1>5. ASSUME NEW x \in S \ O, x.to = p, Precedes(x, m) PROVE x \in M
    BY <1>1, <1>5, MissingHas
  <1>6. CASE Past(m, q, r.nr)
    <2>1. m \in Late(p, q, r.nr, S, O)
      BY <1>6 DEF Late
    <2>2. QED
      BY <2>1, LateOpens
  <1>7. CASE e + 1 = q /\ r.nr <= m.n
    <2>1. Reach(q, c) = c[e]
      <3>1. q # 0 /\ q - 1 = e
        BY <1>3, <1>7
      <3>2. QED
        BY <3>1 DEF Reach
    <2>2. \A x \in S \ O : x.to = p /\ Past(x, q, m.n) => x \in M
      <3>1. SUFFICES ASSUME NEW x \in S \ O, x.to = p, Past(x, q, m.n) PROVE Precedes(x, m)
        BY <1>5
      <3>2. QED
        BY <1>3, <1>7, <3>1 DEF Precedes, Past
    <2>3. m.n <= Reach(q, c)
      BY <1>3, <1>4, <2>1
    <2>4. ~Ratchet!SkipFails(r, m.n)
      <3>1. Within(M, S, O, p, q, m.n)
        BY <1>1, <2>2 DEF Within
      <3>2. QED
        BY <1>3, <2>3, <3>1, LimitsSuffice
    <2>5. QED
      BY <1>3, <1>7, <2>4, NextOpens
  <1>8. CASE e = q + 1
    <2>1. PICK t, Q2, q2 : t = Turned(r, q, c) /\ Q2 = [Q EXCEPT ![p] = q + 2] /\ q2 = q + 2
      OBVIOUS
    <2>2. PICK u : u = Reach(q, c)
      OBVIOUS
    <2>3. u \in Nat /\ u <= u
      BY <1>1, <2>2, ReachIs
    <2>4. \A x \in S \ O : x.to = p /\ Past(x, q, u) => x \in M
      <3>1. SUFFICES ASSUME NEW x \in S \ O, x.to = p, Past(x, q, u) PROVE Precedes(x, m)
        BY <1>5
      <3>2. PICK f \in Nat : IsFor(x, f, q, c, Q, p)
        BY <1>1, <3>1, MessageFor
      <3>3. Place(x.dh) = f
        BY <3>2 DEF IsFor
      <3>4. QED
        BY <1>1, <1>3, <1>8, <3>1, <3>3 DEF Precedes, Past
    <2>5. ~Ratchet!SkipFails(r, u)
      <3>1. Within(M, S, O, p, q, u)
        BY <1>1, <2>4 DEF Within
      <3>2. QED
        BY <2>2, <2>3, <3>1, LimitsSuffice
    <2>6. PartyView(p, t, q2, c, Q2, S, O) /\ (~Ratchet!SkipFails(t, m.n) => Ratchet!DecryptStaged(r, m).ok)
      BY <1>3, <1>8, <2>1, <2>2, <2>5, TurnOpens
    <2>7. Reach(q2, c) = c[e]
      <3>1. q2 # 0 /\ q2 - 1 = e
        BY <1>1, <1>8, <2>1
      <3>2. QED
        BY <3>1 DEF Reach
    <2>8. \A x \in S \ O : x.to = p /\ Past(x, q2, m.n) => x \in M
      <3>1. SUFFICES ASSUME NEW x \in S \ O, x.to = p, Past(x, q2, m.n) PROVE Precedes(x, m)
        BY <1>5
      <3>2. q2 - 1 = e
        BY <1>1, <1>8, <2>1
      <3>3. QED
        BY <1>3, <3>1, <3>2 DEF Precedes, Past
    <2>9. m.n <= Reach(q2, c)
      BY <1>3, <1>4, <2>7
    <2>10. ~Ratchet!SkipFails(t, m.n)
      <3>1. Within(M, S, O, p, q2, m.n)
        BY <1>1, <2>8 DEF Within
      <3>2. QED
        BY <1>3, <2>6, <2>9, <3>1, LimitsSuffice
    <2>11. QED
      BY <2>6, <2>10
  <1>9. Past(m, q, r.nr) \/ (e + 1 = q /\ r.nr <= m.n) \/ e = q + 1
    BY <1>1, <1>3 DEF Past
  <1>10. QED
    BY <1>6, <1>7, <1>8, <1>9

LEMMA RatchetSound ==
    ASSUME Ratchet!RatchetAssumption, RatchetInv
    PROVE  Ratchet!RatchetIsSound
  <1>1. PICK c, Q : (joined <=> Q["b"] # 0) /\ Session(ratchet, c, Q, sent, read)
    BY DEF RatchetInv
  <1>2. read \subseteq sent /\ Turns(Q) /\ Made(sent, c, Q)
    BY <1>1 DEF RatchetInv, Session
  <1>3. ASSUME NEW m \in sent PROVE m.to \in Ratchet!Party
    <2>1. Message(m, c, Q)
      BY <1>2 DEF Made
    <2>2. QED
      BY <2>1 DEF Message, Reader, Ratchet!Party
  <1>4. ASSUME NEW p \in Ratchet!Party
        PROVE  /\ PartyView(p, ratchet[p], Q[p], c, Q, sent, read) /\ Receives(p, ratchet[p], Q[p], c, sent, read)
               /\ Q[p] \in Nat
    BY <1>1, <1>2, SessionView, PlacesAre DEF Session
  <1>5. Ratchet!ReceivingChainExists
    <2>1. SUFFICES ASSUME NEW m \in sent, ratchet[m.to].dhr = m.dh PROVE ratchet[m.to].ckr # Ratchet!NoChain
      BY DEF Ratchet!ReceivingChainExists
    <2>2. PICK p, r, q : p = m.to /\ r = ratchet[p] /\ q = Q[p]
      OBVIOUS
    <2>3. p \in Ratchet!Party /\ q \in Nat
      BY <1>3, <1>4, <2>2
    <2>4. PICK e \in Nat : IsFor(m, e, q, c, Q, p)
      BY <1>2, <2>2, <2>3, MessageFor
    <2>5. e >= 1 /\ m.dh = Pub(e) /\ r.dhr = Pub(e)
      BY <2>1, <2>2, <2>4 DEF IsFor
    <2>6. /\ r.dhr = (IF q = 0 THEN Ratchet!NoKey ELSE Pub(q - 1)) /\ r.nr \in Nat
          /\ r.ckr = (IF q <= 1 THEN Ratchet!NoChain ELSE Link(q - 1, r.nr))
      BY <1>4, <2>2, <2>3 DEF Receives
    <2>7. q # 0
      BY <2>5, <2>6, PlaceOf
    <2>8. Place(Pub(q - 1)) = q - 1 /\ Place(Pub(e)) = e /\ q - 1 \in Nat
      BY <2>3, <2>7, PlaceOf
    <2>9. q >= 2
      BY <2>3, <2>5, <2>6, <2>7, <2>8
    <2>10. r.ckr = Link(q - 1, r.nr)
      BY <2>3, <2>6, <2>9
    <2>11. QED
      BY <2>2, <2>6, <2>8, <2>10, LinkIsChain
  <1>6. Ratchet!EveryMessageOpens
    <2>1. SUFFICES ASSUME NEW m \in sent \ read, Ratchet!WithinLimits(m) PROVE Ratchet!DecryptStaged(ratchet[m.to], m).ok
      BY DEF Ratchet!EveryMessageOpens
    <2>2. PICK p, r, q, M : p = m.to /\ r = ratchet[p] /\ q = Q[p] /\ M = Ratchet!Missing(m)
      OBVIOUS
    <2>3. p \in Ratchet!Party /\ PartyView(p, r, q, c, Q, sent, read)
      BY <1>3, <1>4, <2>2
    <2>4. /\ Cardinality(M) <= MaxSkipped
          /\ \A dh \in {x.dh : x \in M} : Cardinality({x \in M : x.dh = dh}) <= MaxSkip
      BY <2>1, <2>2, SameRatchetSize DEF Ratchet!WithinLimits
    <2>5. M = {x \in sent \ read : x.to = m.to /\ x.at < m.at}
      BY <2>2 DEF Ratchet!Missing
    <2>6. Ratchet!DecryptStaged(r, m).ok
      BY <2>2, <2>3, <2>4, <2>5, Opens
    <2>7. QED
      BY <2>2, <2>6
  <1>7. Ratchet!KeysAreFresh
    BY <1>2, KeyTells DEF Ratchet!KeysAreFresh
  <1>8. Ratchet!OpenedKeysAreGone
    <2>1. SUFFICES ASSUME NEW m \in read
                   PROVE  /\ ~Ratchet!DecryptStaged(ratchet[m.to], m).ok
                          /\ \A k \in ratchet[m.to].skipped : k.key # m.key
      BY DEF Ratchet!OpenedKeysAreGone
    <2>2. PICK p, r, q : p = m.to /\ r = ratchet[p] /\ q = Q[p]
      OBVIOUS
    <2>3. p \in Ratchet!Party /\ PartyView(p, r, q, c, Q, sent, read) /\ Receives(p, r, q, c, sent, read) /\ m \in sent
      BY <1>2, <1>3, <1>4, <2>2
    <2>4. Past(m, q, r.nr) /\ r.skipped = KeysOf(Late(p, q, r.nr, sent, read))
      BY <2>2, <2>3 DEF Receives
    <2>5. ~Ratchet!DecryptStaged(r, m).ok
      BY <2>2, <2>3, <2>4, GoneIsRefused
    <2>6. ASSUME NEW k \in r.skipped PROVE k.key # m.key
      <3>1. PICK x \in sent \ read : k = KeyOf(x)
        BY <2>4, <2>6 DEF KeysOf, Late
      <3>2. k.key = x.key
        BY <3>1 DEF KeyOf
      <3>3. QED
        BY <1>2, <2>3, <3>1, <3>2, KeyTells
    <2>7. QED
      BY <2>2, <2>5, <2>6
  <1>9. Ratchet!SkippedBounded
    BY <1>4, SameRatchetSize DEF Ratchet!SkippedBounded, Receives, KeysBounded
  <1>10. QED
    BY <1>5, <1>6, <1>7, <1>8, <1>9 DEF Ratchet!RatchetIsSound

\* A session stays sound over a network that loses, repeats and reorders.
THEOREM RatchetStaysSound == Ratchet!RatchetAssumption => (Ratchet!Spec => []Ratchet!RatchetIsSound)
  <1> SUFFICES ASSUME Ratchet!RatchetAssumption PROVE Ratchet!Spec => []Ratchet!RatchetIsSound
    OBVIOUS
  <1>1. Ratchet!Init => RatchetInv
    BY RatchetStart
  <1>2. RatchetInv /\ [Ratchet!Next]_Ratchet!vars => RatchetInv'
    BY RatchetStep
  <1>3. RatchetInv => Ratchet!RatchetIsSound
    BY RatchetSound
  <1>4. QED
    BY <1>1, <1>2, <1>3, PTL DEF Ratchet!Spec

-----------------------------------------------------------------------------
(* Range reconciliation: each side is told exactly what it lacks.          *)

CONSTANTS Top, Fanout, Leaf
VARIABLES local, peer, ranges, localMissing, peerMissing

Recon == INSTANCE ClusterRecon WITH work <- ranges

\* Where the ranges that are left begin.
From(w) == IF w = <<>> THEN Top ELSE w[1][1]

\* A range begins where the one before it ends, and the last one ends at u128::MAX.
Chained(w, end) ==
    /\ w \in Seq(Nat \X Nat)
    /\ \A i \in 1..Len(w) :
        /\ w[i][1] <= w[i][2]
        /\ (i < Len(w) => w[i][2] = w[i + 1][1])
        /\ (i = Len(w) => w[i][2] = end)

\* The ids of S below n have been listed, each once.
Listed(s, S, n) ==
    /\ s \in Seq(Nat)
    /\ \A i \in 1..Len(s) : s[i] \in S /\ s[i] < n
    /\ \A x \in S : x < n => \E i \in 1..Len(s) : s[i] = x
    /\ \A i, j \in 1..Len(s) : s[i] = s[j] => i = j

ReconInv ==
    /\ local \in SUBSET (0..Top - 1) /\ peer \in SUBSET (0..Top - 1)
    /\ Chained(ranges, Top)
    /\ Listed(localMissing, peer \ local, From(ranges))
    /\ Listed(peerMissing, local \ peer, From(ranges))

\* A finite set of numbers in rising order.
Rising(g, S) ==
    /\ g \in [1..Cardinality(S) -> S]
    /\ \A x \in S : \E i \in 1..Cardinality(S) : g[i] = x
    /\ \A i, j \in 1..Cardinality(S) : i < j => g[i] < g[j]

LEMMA LargestExists ==
    ASSUME NEW S, IsFiniteSet(S), S \subseteq Int
    PROVE  S # {} => \E x \in S : \A y \in S : y <= x
  <1> DEFINE G == {T \in SUBSET S : T # {} => \E x \in T : \A y \in T : y <= x}
  <1>1. {} \in G
    OBVIOUS
  <1>2. ASSUME NEW T \in SUBSET S, T # {}, \A x \in T : T \ {x} \in G PROVE T \in G
    <2>1. PICK z \in T : TRUE
      BY <1>2
    <2>2. CASE T \ {z} = {}
      <3>1. \A y \in T : y = z
        BY <2>2
      <3>2. QED
        BY <2>1, <3>1
    <2>3. CASE T \ {z} # {}
      <3>1. PICK x \in T \ {z} : \A y \in T \ {z} : y <= x
        BY <1>2, <2>1, <2>3
      <3>2. CASE z <= x
        BY <3>1, <3>2
      <3>3. CASE x < z
        <4>1. \A y \in T : y <= z
          BY <2>1, <3>1, <3>3
        <4>2. QED
          BY <2>1, <4>1
      <3>4. QED
        BY <2>1, <3>1, <3>2, <3>3
    <2>4. QED
      BY <2>2, <2>3
  <1>3. S \in G
    <2> HIDE DEF G
    <2>1. QED
      BY <1>1, <1>2, SubsetInduction
  <1>4. QED
    BY <1>3

LEMMA RisingExists ==
    ASSUME NEW S, IsFiniteSet(S), S \subseteq Int
    PROVE  \E g : Rising(g, S)
  <1> DEFINE G == {T \in SUBSET S : \E g : Rising(g, T)}
  <1>1. {} \in G
    <2> DEFINE g == [i \in 1..0 |-> 0]
    <2>1. Cardinality({}) = 0 /\ 1..0 = {}
      BY FS_EmptySet
    <2>2. Rising(g, {})
      BY <2>1 DEF Rising
    <2> HIDE DEF g
    <2>3. QED
      BY <2>2
  <1>2. ASSUME NEW T \in SUBSET S, T # {}, \A x \in T : T \ {x} \in G PROVE T \in G
    <2>1. IsFiniteSet(T) /\ T \subseteq Int
      BY FS_Subset
    <2>2. PICK x \in T : \A y \in T : y <= x
      BY <1>2, <2>1, LargestExists
    <2> DEFINE R == T \ {x}
               n == Cardinality(R)
    <2>3. PICK h : Rising(h, R)
      BY <1>2, <2>2
    <2>4. IsFiniteSet(R) /\ n \in Nat /\ Cardinality(T) = n + 1
      <3>1. IsFiniteSet(R) /\ n \in Nat /\ Cardinality(T) \in Nat
        BY <2>1, FS_RemoveElement, FS_CardinalityType
      <3>2. n = Cardinality(T) - 1
        BY <2>1, <2>2, FS_RemoveElement
      <3> HIDE DEF n, R
      <3>3. QED
        BY <3>1, <3>2
    <2>5. \A y \in R : y \in T /\ y < x
      BY <2>1, <2>2
    <2> DEFINE g == [i \in 1..(n + 1) |-> IF i = n + 1 THEN x ELSE h[i]]
    <2>6. /\ h \in [1..n -> R]
          /\ \A y \in R : \E i \in 1..n : h[i] = y
          /\ \A i, j \in 1..n : i < j => h[i] < h[j]
      BY <2>3 DEF Rising
    <2>7. \A i \in 1..(n + 1) : i = n + 1 \/ i \in 1..n
      BY <2>4
    <2>8. \A i \in 1..n : i \in 1..(n + 1) /\ i # n + 1 /\ i < n + 1
      BY <2>4
    <2>9. n + 1 \in 1..(n + 1)
      BY <2>4
    <2> HIDE DEF n, R
    <2>10. g[n + 1] = x /\ \A i \in 1..n : g[i] = h[i]
      BY <2>8, <2>9
    <2>11. g \in [1..(n + 1) -> T]
      BY <2>2, <2>5, <2>6, <2>7
    <2> HIDE DEF g
    <2>12. \A y \in T : \E i \in 1..(n + 1) : g[i] = y
      <3> SUFFICES ASSUME NEW y \in T PROVE \E i \in 1..(n + 1) : g[i] = y
        OBVIOUS
      <3>1. CASE y = x
        BY <2>9, <2>10, <3>1
      <3>2. CASE y # x
        <4>1. y \in R
          BY <3>2 DEF R
        <4>2. PICK i \in 1..n : h[i] = y
          BY <2>6, <4>1
        <4>3. QED
          BY <2>8, <2>10, <4>2
      <3>3. QED
        BY <3>1, <3>2
    <2>13. \A i, j \in 1..(n + 1) : i < j => g[i] < g[j]
      <3> SUFFICES ASSUME NEW i \in 1..(n + 1), NEW j \in 1..(n + 1), i < j PROVE g[i] < g[j]
        OBVIOUS
      <3>1. i \in 1..n
        BY <2>4
      <3>2. g[i] = h[i] /\ h[i] \in R
        BY <2>6, <2>10, <3>1
      <3>3. CASE j = n + 1
        BY <2>5, <2>10, <3>2, <3>3
      <3>4. CASE j # n + 1
        <4>1. j \in 1..n
          BY <2>7, <3>4
        <4>2. QED
          BY <2>6, <2>10, <3>1, <4>1
      <3>5. QED
        BY <3>3, <3>4
    <2>14. Rising(g, T)
      BY <2>4, <2>11, <2>12, <2>13 DEF Rising
    <2>15. QED
      BY <2>14
  <1> HIDE DEF G
  <1>3. S \in G
    BY <1>1, <1>2, SubsetInduction
  <1>4. QED
    BY <1>3 DEF G


LEMMA SameReconSize == \A S : Recon!Cardinality(S) = Cardinality(S)
  BY DEF Recon!Cardinality, Cardinality

\* What enumerating a set of ids gives: each of them, once.
LEMMA InOrderLists ==
    ASSUME NEW S, IsFiniteSet(S), S \subseteq Nat
    PROVE  /\ Recon!InOrder(S) \in Seq(S) /\ Len(Recon!InOrder(S)) = Cardinality(S) /\ Cardinality(S) \in Nat
           /\ \A x \in S : \E i \in 1..Cardinality(S) : Recon!InOrder(S)[i] = x
           /\ \A i, j \in 1..Cardinality(S) : Recon!InOrder(S)[i] = Recon!InOrder(S)[j] => i = j
  <1> DEFINE n == Cardinality(S)
             P(s) == s \in [1..n -> S] /\ \A i, j \in DOMAIN s : i < j => s[i] < s[j]
  <1>1. n \in Nat
    BY FS_CardinalityType
  <1>2. PICK g : Rising(g, S)
    <2>1. S \subseteq Int
      OBVIOUS
    <2>2. QED
      BY <2>1, RisingExists
  <1>3. P(g)
    BY <1>2 DEF Rising
  <1>4. Recon!InOrder(S) = CHOOSE s \in [1..n -> S] : \A i, j \in DOMAIN s : i < j => s[i] < s[j]
    BY SameReconSize DEF Recon!InOrder
  <1>5. P(Recon!InOrder(S))
    BY <1>3, <1>4
  <1> DEFINE s == Recon!InOrder(S)
  <1>6. s \in [1..n -> S] /\ \A i, j \in 1..n : i < j => s[i] < s[j]
    BY <1>5
  <1> HIDE DEF s, n
  <1>7. \A i, j \in 1..n : s[i] = s[j] => i = j
    <2> SUFFICES ASSUME NEW i \in 1..n, NEW j \in 1..n, s[i] = s[j], i # j PROVE FALSE
      OBVIOUS
    <2>1. s[i] \in Int /\ s[j] \in Int
      <3>1. s[i] \in S /\ s[j] \in S
        BY <1>6
      <3>2. \A x \in S : x \in Int
        OBVIOUS
      <3>3. QED
        BY <3>1, <3>2
    <2>2. i < j \/ j < i
      BY <1>1
    <2>3. QED
      BY <1>6, <2>1, <2>2
  <1>8. \A x \in S : \E i \in 1..n : s[i] = x
    <2>1. s \in Injection(1..n, S)
      BY <1>6, <1>7 DEF Injection, IsInjective
    <2>2. IsFiniteSet(1..n) /\ Cardinality(1..n) = Cardinality(S)
      BY <1>1, FS_Interval DEF n
    <2>3. s \in Surjection(1..n, S)
      BY <2>1, <2>2, FS_Injection
    <2>4. QED
      BY <2>3 DEF Surjection
  <1>9. s \in Seq(S) /\ Len(s) = n
    BY <1>1, <1>6
  <1>10. QED
    BY <1>1, <1>7, <1>8, <1>9 DEF s, n

\* Sub-ranges of a range follow one another through it.
LEMMA SubrangesChain ==
    ASSUME Fanout \in Nat, NEW r \in Nat \X Nat, r[1] <= r[2]
    PROVE  Recon!Subranges(r) # <<>> /\ Recon!Subranges(r)[1][1] = r[1] /\ Chained(Recon!Subranges(r), r[2])
  <1> DEFINE b == IF Fanout < 2 THEN 2 ELSE Fanout
             width == r[2] - r[1]
             step == width \div b
             next(i) == IF i = b THEN r[2] ELSE r[1] + step * i
             s == [i \in 1..b |-> <<r[1] + step * (i - 1), IF i = b THEN r[2] ELSE r[1] + step * i>>]
  <1>1. Recon!Subranges(r) = IF width <= b THEN <<r>> ELSE s
    BY DEF Recon!Subranges
  <1>2. b \in Nat /\ b >= 2 /\ width \in Nat
    OBVIOUS
  <1>3. CASE width <= b
    <2>1. Recon!Subranges(r) = <<r>>
      BY <1>1, <1>3
    <2>2. QED
      BY <2>1 DEF Chained
  <1>4. CASE width > b
    <2>1. Recon!Subranges(r) = s
      BY <1>1, <1>2, <1>4
    <2> HIDE DEF width, b
    <2>2. step \in Nat /\ step * b <= width
      BY <1>2
    <2> HIDE DEF step
    <2>3. \A i \in Nat : step * i \in Nat
      BY <2>2
    <2>4. \A i \in 1..b : step * (i - 1) = step * i - step
      BY <1>2, <2>2
    <2>5. \A i \in 1..b : step * i <= step * b
      BY <1>2, <2>2
    <2>6. ASSUME NEW i \in 1..b
          PROVE  /\ s[i] = <<r[1] + step * (i - 1), next(i)>>
                 /\ step * (i - 1) \in Nat /\ next(i) \in Nat
                 /\ r[1] + step * (i - 1) <= next(i)
      <3>1. i \in Nat /\ i - 1 \in Nat
        BY <1>2
      <3>2. step * i \in Nat /\ step * (i - 1) \in Nat
        BY <2>3, <3>1
      <3>3. r[1] + step * i <= r[2]
        BY <1>2, <2>2, <2>5, <2>3, <3>2 DEF width
      <3>4. QED
        BY <1>2, <2>2, <2>4, <3>2, <3>3
    <2>7. ASSUME NEW i \in 1..b, i < b PROVE s[i][2] = s[i + 1][1]
      <3>1. i + 1 \in 1..b /\ (i + 1) - 1 = i
        BY <1>2, <2>7
      <3>2. s[i + 1][1] = r[1] + step * i
        BY <3>1, <2>6
      <3>3. s[i][2] = r[1] + step * i
        BY <2>6, <2>7
      <3>4. QED
        BY <3>2, <3>3
    <2>8. s[b][2] = r[2]
      BY <1>2, <2>6
    <2>9. s[1][1] = r[1]
      <3>1. 1 \in 1..b /\ step * 0 = 0
        BY <1>2, <2>2
      <3>2. QED
        BY <2>6, <3>1
    <2>10. s \in [1..b -> Nat \X Nat]
      BY <1>2, <2>6
    <2>11. \A i \in 1..b : s[i][1] <= s[i][2]
      BY <2>6
    <2> HIDE DEF s, next
    <2>12. s \in Seq(Nat \X Nat) /\ Len(s) = b /\ s # <<>>
      BY <1>2, <2>10
    <2>13. QED
      BY <1>2, <2>1, <2>7, <2>8, <2>9, <2>11, <2>12 DEF Chained
  <1>5. QED
    BY <1>2, <1>3, <1>4

\* A chain with its first range taken away, and with others put in its place.
LEMMA TailChained ==
    ASSUME Top \in Nat, NEW w, Chained(w, Top), w # <<>>
    PROVE  /\ w[1] \in Nat \X Nat /\ w[1] = Head(w) /\ w[1][1] <= w[1][2]
           /\ Chained(Tail(w), Top) /\ From(Tail(w)) = w[1][2] /\ From(w) = w[1][1]
  <1> DEFINE n == Len(w)
             t == Tail(w)
  <1>1. w \in Seq(Nat \X Nat) /\ n \in Nat /\ n >= 1 /\ 1 \in 1..n
    BY DEF Chained
  <1>2. w[1] \in Nat \X Nat /\ w[1] = Head(w)
    BY <1>1
  <1>3. t \in Seq(Nat \X Nat) /\ Len(t) = n - 1 /\ \A i \in 1..(n - 1) : t[i] = w[i + 1]
    BY <1>1
  <1>4. \A i \in 1..n : /\ w[i][1] <= w[i][2]
                        /\ (i < n => w[i][2] = w[i + 1][1])
                        /\ (i = n => w[i][2] = Top)
    BY DEF Chained
  <1> HIDE DEF n, t
  <1>5. t = <<>> <=> n = 1
    <2>1. t = <<>> <=> Len(t) = 0
      BY <1>3, EmptySeq
    <2>2. QED
      BY <1>1, <1>3, <2>1
  <1>6. ASSUME NEW i \in 1..(n - 1)
        PROVE  t[i][1] <= t[i][2] /\ (i < n - 1 => t[i][2] = t[i + 1][1]) /\ (i = n - 1 => t[i][2] = Top)
    <2>1. i + 1 \in 1..n /\ t[i] = w[i + 1]
      BY <1>1, <1>3
    <2>2. i < n - 1 => i + 1 < n /\ i + 1 \in 1..(n - 1) /\ t[i + 1] = w[(i + 1) + 1]
      BY <1>1, <1>3
    <2>3. i = n - 1 => i + 1 = n
      BY <1>1
    <2>4. QED
      BY <1>4, <2>1, <2>2, <2>3
  <1>7. Chained(t, Top)
    BY <1>3, <1>6 DEF Chained
  <1>8. From(t) = w[1][2]
    <2>1. CASE n = 1
      BY <1>1, <1>4, <1>5, <2>1 DEF From
    <2>2. CASE n > 1
      <3>1. t # <<>> /\ 1 \in 1..(n - 1) /\ t[1] = w[1 + 1]
        BY <1>1, <1>3, <1>5, <2>2
      <3>2. w[1][2] = w[1 + 1][1]
        BY <1>1, <1>4, <2>2
      <3>3. QED
        BY <3>1, <3>2 DEF From
    <2>3. QED
      BY <1>1, <2>1, <2>2
  <1>9. From(w) = w[1][1] /\ w[1][1] <= w[1][2]
    BY <1>1, <1>4 DEF From
  <1>10. QED
    BY <1>2, <1>7, <1>8, <1>9 DEF t

LEMMA JoinChained ==
    ASSUME Top \in Nat, NEW v, NEW w, v # <<>>, Chained(v, From(w)), Chained(w, Top)
    PROVE  Chained(v \o w, Top) /\ From(v \o w) = v[1][1]
  <1> DEFINE n == Len(v)
             m == Len(w)
             u == v \o w
  <1>1. /\ v \in Seq(Nat \X Nat) /\ w \in Seq(Nat \X Nat)
        /\ n \in Nat /\ m \in Nat /\ n >= 1 /\ (m = 0 <=> w = <<>>)
    BY DEF Chained
  <1>2. /\ u \in Seq(Nat \X Nat) /\ Len(u) = n + m
        /\ \A i \in 1..n : u[i] = v[i]
        /\ \A i \in 1..m : u[n + i] = w[i]
    BY <1>1
  <1>3. \A i \in 1..n : /\ v[i][1] <= v[i][2]
                        /\ (i < n => v[i][2] = v[i + 1][1])
                        /\ (i = n => v[i][2] = From(w))
    BY DEF Chained
  <1>4. \A i \in 1..m : /\ w[i][1] <= w[i][2]
                        /\ (i < m => w[i][2] = w[i + 1][1])
                        /\ (i = m => w[i][2] = Top)
    BY DEF Chained
  <1> HIDE DEF u, n, m
  <1>5. ASSUME NEW i \in 1..(n + m)
        PROVE  /\ u[i][1] <= u[i][2]
               /\ (i < n + m => u[i][2] = u[i + 1][1])
               /\ (i = n + m => u[i][2] = Top)
    <2>1. CASE i < n
      <3>1. i \in 1..n /\ i + 1 \in 1..n /\ i < n + m
        BY <1>1, <2>1
      <3>2. u[i] = v[i] /\ u[i + 1] = v[i + 1]
        BY <1>2, <3>1
      <3>3. v[i][1] <= v[i][2] /\ v[i][2] = v[i + 1][1]
        BY <1>3, <2>1, <3>1
      <3>4. i # n + m
        BY <1>1, <2>1
      <3>5. QED
        BY <3>2, <3>3, <3>4
    <2>2. CASE i = n /\ m = 0
      <3>1. From(w) = Top /\ i \in 1..n /\ i = n + m
        BY <1>1, <2>2 DEF From
      <3>2. u[i] = v[i]
        BY <1>2, <3>1
      <3>3. QED
        BY <1>1, <1>3, <3>1, <3>2, <2>2
    <2>3. CASE i = n /\ m >= 1
      <3>1. 1 \in 1..m /\ i \in 1..n /\ i < n + m /\ i + 1 = n + 1
        BY <1>1, <2>3
      <3>2. u[i] = v[i] /\ u[i + 1] = w[1]
        BY <1>2, <3>1
      <3>3. From(w) = w[1][1]
        BY <1>1, <2>3 DEF From
      <3>4. QED
        BY <1>1, <1>3, <3>1, <3>2, <3>3, <2>3
    <2>4. CASE i > n
      <3>1. PICK k \in 1..m : i = n + k
        <4>1. i - n \in 1..m /\ i = n + (i - n)
          BY <1>1, <2>4
        <4>2. QED
          BY <4>1
      <3>2. k < m => k + 1 \in 1..m /\ i + 1 = n + (k + 1)
        BY <1>1, <3>1
      <3>3. u[i] = w[k] /\ (k < m => u[i + 1] = w[k + 1])
        BY <1>2, <3>1, <3>2
      <3>4. (i < n + m <=> k < m) /\ (i = n + m <=> k = m)
        BY <1>1, <3>1
      <3>5. QED
        BY <1>4, <3>1, <3>3, <3>4
    <2>5. QED
      BY <1>1, <2>1, <2>2, <2>3, <2>4
  <1>6. 1 \in 1..n /\ 1 \in 1..(n + m) /\ u # <<>> /\ u[1] = v[1]
    BY <1>1, <1>2
  <1>7. Chained(u, Top)
    BY <1>2, <1>5 DEF Chained
  <1>8. From(u) = v[1][1]
    BY <1>6 DEF From
  <1>9. QED
    BY <1>7, <1>8 DEF u

\* A list that is told the ids of the next range too.
LEMMA ListsOn ==
    ASSUME NEW s, NEW S, IsFiniteSet(S), S \subseteq Nat, NEW n \in Nat, NEW m \in Nat, n <= m,
           Listed(s, S, n)
    PROVE  Listed(s \o Recon!InOrder({x \in S : n <= x /\ x < m}), S, m)
  <1> DEFINE T == {x \in S : n <= x /\ x < m}
             t == Recon!InOrder(T)
             c == Cardinality(T)
  <1>1. IsFiniteSet(T) /\ T \subseteq Nat
    BY FS_Subset
  <1>2. /\ t \in Seq(T) /\ Len(t) = c /\ c \in Nat
        /\ \A x \in T : \E i \in 1..c : t[i] = x
        /\ \A i, j \in 1..c : t[i] = t[j] => i = j
    BY <1>1, InOrderLists
  <1> HIDE DEF t, c
  <1>3. \A i \in 1..c : t[i] \in T
    BY <1>2
  <1>4. t \in Seq(Nat)
    BY <1>1, <1>2
  <1>5. s \in Seq(Nat) /\ Len(s) \in Nat
    BY DEF Listed
  <1> DEFINE u == s \o t
  <1>6. /\ u \in Seq(Nat) /\ Len(u) = Len(s) + c
        /\ \A i \in 1..Len(s) : u[i] = s[i]
        /\ \A i \in 1..c : u[Len(s) + i] = t[i] /\ Len(s) + i \in 1..Len(u)
    BY <1>2, <1>4, <1>5, SMTT(30)
  <1> HIDE DEF u
  <1>7. \A i \in 1..Len(u) : \/ i \in 1..Len(s)
                             \/ \E k \in 1..c : i = Len(s) + k
    <2> SUFFICES ASSUME NEW i \in 1..Len(u), i \notin 1..Len(s) PROVE \E k \in 1..c : i = Len(s) + k
      OBVIOUS
    <2>1. i - Len(s) \in 1..c /\ i = Len(s) + (i - Len(s))
      BY <1>2, <1>5, <1>6
    <2>2. QED
      BY <2>1
  <1>8. \A i \in 1..Len(s) : s[i] \in S /\ s[i] < n
    BY DEF Listed
  <1>9. \A i \in 1..Len(u) : u[i] \in S /\ u[i] < m
    <2> SUFFICES ASSUME NEW i \in 1..Len(u) PROVE u[i] \in S /\ u[i] < m
      OBVIOUS
    <2>1. CASE i \in 1..Len(s)
      BY <1>6, <1>8, <2>1
    <2>2. CASE \E k \in 1..c : i = Len(s) + k
      BY <1>3, <1>6, <2>2
    <2>3. QED
      BY <1>7, <2>1, <2>2
  <1>10. ASSUME NEW x \in S, x < m PROVE \E i \in 1..Len(u) : u[i] = x
    <2>1. CASE x < n
      <3>1. PICK i \in 1..Len(s) : s[i] = x
        BY <2>1 DEF Listed
      <3>2. QED
        BY <1>2, <1>5, <1>6, <3>1
    <2>2. CASE n <= x
      <3>1. PICK i \in 1..c : t[i] = x
        BY <1>2, <1>10, <2>2
      <3>2. QED
        BY <1>6, <3>1
    <2>3. QED
      BY <2>1, <2>2
  <1>11. ASSUME NEW i \in 1..Len(u), NEW j \in 1..Len(u), u[i] = u[j] PROVE i = j
    <2>1. CASE i \in 1..Len(s) /\ j \in 1..Len(s)
      BY <1>6, <1>11, <2>1 DEF Listed
    <2>2. CASE i \in 1..Len(s) /\ \E k \in 1..c : j = Len(s) + k
      <3>1. PICK k \in 1..c : j = Len(s) + k
        BY <2>2
      <3>2. s[i] = t[k] /\ s[i] < n /\ n <= t[k] /\ s[i] \in Nat
        BY <1>3, <1>6, <1>8, <1>11, <2>2, <3>1
      <3>3. QED
        BY <3>2
    <2>3. CASE j \in 1..Len(s) /\ \E k \in 1..c : i = Len(s) + k
      <3>1. PICK k \in 1..c : i = Len(s) + k
        BY <2>3
      <3>2. s[j] = t[k] /\ s[j] < n /\ n <= t[k] /\ s[j] \in Nat
        BY <1>3, <1>6, <1>8, <1>11, <2>3, <3>1
      <3>3. QED
        BY <3>2
    <2>4. CASE (\E k \in 1..c : i = Len(s) + k) /\ (\E k \in 1..c : j = Len(s) + k)
      <3>1. PICK k \in 1..c : i = Len(s) + k
        BY <2>4
      <3>2. PICK l \in 1..c : j = Len(s) + l
        BY <2>4
      <3>3. t[k] = t[l]
        BY <1>6, <1>11, <3>1, <3>2
      <3>5. k = l
        BY <1>2, <3>3
      <3>6. QED
        BY <3>1, <3>2, <3>5
    <2>5. QED
      BY <1>7, <2>1, <2>2, <2>3, <2>4
  <1>12. QED
    BY <1>6, <1>9, <1>10, <1>11 DEF Listed, u, t

LEMMA ListsNone ==
    ASSUME NEW s, NEW S, S \subseteq Nat, NEW n \in Nat, NEW m \in Nat, n <= m,
           {x \in S : n <= x /\ x < m} = {}, Listed(s, S, n)
    PROVE  Listed(s, S, m)
  <1>1. \A x \in S : x \in Nat /\ (x < m => x < n)
    OBVIOUS
  <1>2. \A i \in 1..Len(s) : s[i] < m
    <2>1. \A i \in 1..Len(s) : s[i] \in Nat /\ s[i] < n
      BY DEF Listed
    <2>2. QED
      BY <2>1
  <1>3. QED
    BY <1>1, <1>2 DEF Listed

-----------------------------------------------------------------------------
LEMMA ReconInit == Recon!ReconAssumption /\ Recon!Init => ReconInv
  <1> SUFFICES ASSUME Recon!ReconAssumption, Recon!Init PROVE ReconInv
    OBVIOUS
  <1>1. Top \in Nat /\ ranges = <<<<0, Top>>>>
    BY DEF Recon!Init, Recon!ReconAssumption
  <1>2. ranges \in Seq(Nat \X Nat) /\ Len(ranges) = 1 /\ ranges[1] = <<0, Top>> /\ ranges # <<>>
    BY <1>1
  <1>3. Chained(ranges, Top) /\ From(ranges) = 0
    BY <1>1, <1>2 DEF Chained, From
  <1>4. local \in SUBSET (0..Top - 1) /\ peer \in SUBSET (0..Top - 1)
    BY DEF Recon!Init
  <1>5. \A S \in SUBSET (0..Top - 1) : Listed(<<>>, S, 0)
    BY DEF Listed
  <1>6. QED
    BY <1>3, <1>4, <1>5 DEF ReconInv, Recon!Init

LEMMA ReconNext == Recon!ReconAssumption /\ ReconInv /\ [Recon!ReconRange]_Recon!vars => ReconInv'
  <1> SUFFICES ASSUME Recon!ReconAssumption, ReconInv, [Recon!ReconRange]_Recon!vars PROVE ReconInv'
    OBVIOUS
  <1>1. CASE UNCHANGED Recon!vars
    BY <1>1 DEF Recon!vars, ReconInv, From, Chained, Listed
  <1>2. CASE Recon!ReconRange
    <2>1. ranges # <<>> /\ local' = local /\ peer' = peer
      BY <1>2 DEF Recon!ReconRange
    <2> DEFINE r == Head(ranges)
               n == r[1]
               m == r[2]
               P == peer \ local
               L == local \ peer
    <2>2. Top \in Nat /\ Fanout \in Nat
      BY DEF Recon!ReconAssumption
    <2>3. /\ r \in Nat \X Nat /\ n \in Nat /\ m \in Nat /\ n <= m
          /\ Chained(Tail(ranges), Top) /\ From(Tail(ranges)) = m /\ From(ranges) = n
      <3>1. Chained(ranges, Top)
        BY DEF ReconInv
      <3>2. QED
        BY <2>1, <2>2, <3>1, TailChained
    <2>4. /\ IsFiniteSet(P) /\ IsFiniteSet(L) /\ P \subseteq Nat /\ L \subseteq Nat
      <3>1. IsFiniteSet(0..Top - 1)
        BY <2>2, FS_Interval
      <3>2. P \subseteq 0..Top - 1 /\ L \subseteq 0..Top - 1
        BY DEF ReconInv
      <3>3. QED
        BY <2>2, <3>1, <3>2, FS_Subset
    <2>5. Listed(localMissing, P, n) /\ Listed(peerMissing, L, n)
      BY <2>3 DEF ReconInv
    <2>6. /\ Recon!InRange(peer, r) \ local = {x \in P : n <= x /\ x < m}
          /\ Recon!InRange(local, r) \ peer = {x \in L : n <= x /\ x < m}
      BY DEF Recon!InRange
    <2> HIDE DEF n, m, P, L
    <2>7. CASE Recon!Skip(r)
      <3>1. ranges' = Tail(ranges) /\ localMissing' = localMissing /\ peerMissing' = peerMissing
        BY <2>7 DEF Recon!Skip
      <3>2. {x \in P : n <= x /\ x < m} = {} /\ {x \in L : n <= x /\ x < m} = {}
        <4>1. Recon!InRange(local, r) = Recon!InRange(peer, r)
          BY <2>7 DEF Recon!Skip
        <4>2. Recon!InRange(peer, r) \ local = {} /\ Recon!InRange(local, r) \ peer = {}
          BY <4>1 DEF Recon!InRange
        <4>3. QED
          BY <2>6, <4>2
      <3>3. Listed(localMissing, P, m) /\ Listed(peerMissing, L, m)
        BY <2>3, <2>4, <2>5, <3>2, ListsNone
      <3>4. QED
        BY <2>1, <2>3, <3>1, <3>3 DEF ReconInv, P, L
    <2>8. CASE Recon!Enumerate(r)
      <3>1. /\ ranges' = Tail(ranges)
            /\ localMissing' = localMissing \o Recon!InOrder({x \in P : n <= x /\ x < m})
            /\ peerMissing' = peerMissing \o Recon!InOrder({x \in L : n <= x /\ x < m})
        BY <2>6, <2>8 DEF Recon!Enumerate
      <3>2. Listed(localMissing', P, m) /\ Listed(peerMissing', L, m)
        BY <2>3, <2>4, <2>5, <3>1, ListsOn, ZenonT(40)
      <3>3. QED
        BY <2>1, <2>3, <3>1, <3>2 DEF ReconInv, P, L
    <2>9. CASE Recon!DrillDown(r)
      <3>1. /\ ranges' = Recon!Subranges(r) \o Tail(ranges)
            /\ localMissing' = localMissing /\ peerMissing' = peerMissing
        BY <2>9 DEF Recon!DrillDown
      <3>2. Recon!Subranges(r) # <<>> /\ Recon!Subranges(r)[1][1] = n /\ Chained(Recon!Subranges(r), m)
        BY <2>2, <2>3, SubrangesChain DEF n, m
      <3>3. Chained(ranges', Top) /\ From(ranges') = n
        BY <2>2, <2>3, <3>1, <3>2, JoinChained
      <3>4. QED
        BY <2>1, <2>5, <3>1, <3>3 DEF ReconInv, P, L
    <2>10. QED
      BY <1>2, <2>7, <2>8, <2>9 DEF Recon!ReconRange
  <1>3. QED
    BY <1>1, <1>2

LEMMA ReconExact == Recon!ReconAssumption /\ ReconInv => Recon!ReconcileExact
  <1> SUFFICES ASSUME Recon!ReconAssumption, ReconInv, Recon!Done PROVE /\ Recon!Range(localMissing) = peer \ local /\ Recon!IsInjective(localMissing)
                                           /\ Recon!Range(peerMissing) = local \ peer /\ Recon!IsInjective(peerMissing)
    BY DEF Recon!ReconcileExact
  <1>1. From(ranges) = Top
    BY DEF Recon!Done, From
  <1>2. ASSUME NEW s, NEW S \in SUBSET (0..Top - 1), Listed(s, S, Top)
        PROVE  Recon!Range(s) = S /\ Recon!IsInjective(s)
    <2>1. s \in Seq(Nat) /\ DOMAIN s = 1..Len(s)
      BY <1>2 DEF Listed
    <2>2. \A x \in S : x < Top
      BY DEF Recon!ReconAssumption
    <2>3. Recon!Range(s) = S
      <3>1. \A i \in 1..Len(s) : s[i] \in S
        BY <1>2 DEF Listed
      <3>2. \A x \in S : \E i \in 1..Len(s) : s[i] = x
        BY <1>2, <2>2 DEF Listed
      <3>3. Recon!Range(s) = {s[i] : i \in 1..Len(s)}
        BY <2>1 DEF Recon!Range
      <3>4. QED
        BY <3>1, <3>2, <3>3
    <2>4. Recon!IsInjective(s)
      BY <1>2, <2>1 DEF Listed, Recon!IsInjective
    <2>5. QED
      BY <2>3, <2>4
  <1>3. peer \ local \in SUBSET (0..Top - 1) /\ local \ peer \in SUBSET (0..Top - 1)
    BY DEF ReconInv
  <1>4. Listed(localMissing, peer \ local, Top) /\ Listed(peerMissing, local \ peer, Top)
    BY <1>1 DEF ReconInv
  <1>5. QED
    BY <1>2, <1>3, <1>4

\* When no range is left, each side has been told exactly the ids it lacks, each once
\* (recon.rs recon_range, subranges), for every pair of id sets, fan-out, leaf threshold and
\* size of the id space.
THEOREM ReconcileStaysExact == Recon!ReconAssumption => (Recon!Init /\ [][Recon!ReconRange]_Recon!vars => []Recon!ReconcileExact)
  <1> SUFFICES ASSUME Recon!ReconAssumption PROVE Recon!Init /\ [][Recon!ReconRange]_Recon!vars => []Recon!ReconcileExact
    OBVIOUS
  <1>1. Recon!Init => ReconInv
    BY ReconInit
  <1>2. ReconInv /\ [Recon!ReconRange]_Recon!vars => ReconInv'
    BY ReconNext
  <1>3. ReconInv => Recon!ReconcileExact
    BY ReconExact
  <1>4. QED
    BY <1>1, <1>2, <1>3, PTL

-----------------------------------------------------------------------------
(* The hash-chained journal and a device that replays it from its anchor.  *)

CONSTANTS Ref, MaxSeq, MaxFork
VARIABLES journal, log, anchor, learned, forks

Journal == INSTANCE ClusterJournal WITH entries <- journal

\* H[n] is the hash of a log's n-th entry, that of its whole beginning.
Hashes(l, H) ==
    /\ H[0] = Journal!Genesis
    /\ \A n \in 1..Len(l) : H[n] = <<n - 1, H[n - 1], l[n]>>

\* s is the log l with hashes H from the place a on.
EndOf(s, l, H, a) ==
    /\ a \in 0..Len(l) /\ Len(l) = a + Len(s)
    /\ \E T : s \in Seq(T)
    /\ \A m \in a + 1..Len(l) : s[m - a].seq = m - 1 /\ s[m - a].prev = H[m - 1] /\ s[m - a].reference = l[m]

\* Where the end of l that is left begins.
CutAt(l, a, from) == IF from < a THEN a ELSE IF from > Len(l) THEN Len(l) ELSE from

\* What the owner has is the end of its log, of which something is left if there was
\* anything; what the follower has replayed hashes to its anchor.
JournalInv ==
    /\ log \in Seq(Ref) /\ learned \in Seq(Ref)
    /\ log # <<>> => journal # <<>>
    /\ \E H, a : Hashes(log, H) /\ EndOf(journal, log, H, a)
    /\ \E K : Hashes(learned, K) /\ anchor = [prev |-> K[Len(learned)], seq |-> Len(learned)]

LEMMA TripleParts ==
    ASSUME NEW x, NEW y, NEW z, NEW u, NEW v, NEW w, <<x, y, z>> = <<u, v, w>>
    PROVE  x = u /\ y = v /\ z = w
  OBVIOUS

\* Equal hashes of two beginnings mean that they are equal.
LEMMA HashesCommit ==
    ASSUME NEW l, NEW m, NEW H, NEW K, Hashes(l, H), Hashes(m, K), Len(l) \in Nat, Len(m) \in Nat,
           NEW n \in Nat, n <= Len(l), n <= Len(m), H[n] = K[n]
    PROVE  \A i \in 1..n : l[i] = m[i]
  <1> DEFINE G == {k \in Nat : k <= n => (H[k] = K[k] => \A i \in 1..k : l[i] = m[i])}
  <1>1. 0 \in G
    OBVIOUS
  <1>2. \A k \in Nat : k \in G => k + 1 \in G
    <2> SUFFICES ASSUME NEW k \in Nat, k \in G, k + 1 <= n, H[k + 1] = K[k + 1]
                 PROVE  \A i \in 1..k + 1 : l[i] = m[i]
      OBVIOUS
    <2>1. k + 1 \in 1..Len(l) /\ k + 1 \in 1..Len(m) /\ (k + 1) - 1 = k
      OBVIOUS
    <2>2. H[k + 1] = <<k, H[k], l[k + 1]>> /\ K[k + 1] = <<k, K[k], m[k + 1]>>
      BY <2>1 DEF Hashes
    <2>3. <<k, H[k], l[k + 1]>> = <<k, K[k], m[k + 1]>>
      BY <2>2
    <2>4. H[k] = K[k] /\ l[k + 1] = m[k + 1]
      BY <2>3, TripleParts
    <2>5. QED
      BY <2>4
  <1> HIDE DEF G
  <1>3. n \in G
    BY <1>1, <1>2, NatSetInduction
  <1>4. QED
    BY <1>3 DEF G

\* One more entry has one more hash.
LEMMA HashesGrow ==
    ASSUME NEW l \in Seq(Ref), NEW r \in Ref, NEW H, Hashes(l, H)
    PROVE  LET n == Len(l)
               E == [i \in 0..n + 1 |-> IF i <= n THEN H[i] ELSE <<n, H[n], r>>]
           IN  Hashes(Append(l, r), E) /\ \A i \in 0..n : E[i] = H[i]
  <1> DEFINE n == Len(l)
             E == [i \in 0..n + 1 |-> IF i <= n THEN H[i] ELSE <<n, H[n], r>>]
  <1>1. n \in Nat /\ Len(Append(l, r)) = n + 1
    OBVIOUS
  <1>2. \A i \in 0..n : E[i] = H[i]
    BY <1>1
  <1>3. E[n + 1] = <<n, H[n], r>>
    BY <1>1
  <1>4. ASSUME NEW i \in 1..n + 1 PROVE E[i] = <<i - 1, E[i - 1], Append(l, r)[i]>>
    <2>1. CASE i = n + 1
      BY <1>1, <1>2, <1>3, <2>1
    <2>2. CASE i # n + 1
      <3>1. i \in 1..n /\ i - 1 \in 0..n /\ i \in 0..n
        BY <2>2, <1>1
      <3>2. E[i] = H[i] /\ E[i - 1] = H[i - 1] /\ Append(l, r)[i] = l[i]
        BY <1>2, <3>1
      <3>3. QED
        BY <3>1, <3>2 DEF Hashes
    <2>3. QED
      BY <2>1, <2>2
  <1>5. E[0] = Journal!Genesis
    BY <1>1, <1>2 DEF Hashes
  <1>6. Hashes(Append(l, r), E)
    BY <1>1, <1>4, <1>5 DEF Hashes
  <1>7. QED
    BY <1>2, <1>6

LEMMA BeginningIs ==
    ASSUME NEW T, NEW l \in Seq(T), Len(l) > 0
    PROVE  /\ SubSeq(l, 1, Len(l) - 1) \in Seq(T) /\ Len(SubSeq(l, 1, Len(l) - 1)) = Len(l) - 1
           /\ \A i \in 1..Len(l) - 1 : SubSeq(l, 1, Len(l) - 1)[i] = l[i]
  <1> DEFINE n == Len(l) - 1
  <1>1. n \in Nat /\ 1 \in Int /\ n \in Int /\ \A i \in 1..n : l[i] \in T
    OBVIOUS
  <1> HIDE DEF n
  <1>2. /\ SubSeq(l, 1, n) \in Seq(T)
        /\ Len(SubSeq(l, 1, n)) = IF 1 <= n THEN n - 1 + 1 ELSE 0
        /\ \A i \in 1..n - 1 + 1 : SubSeq(l, 1, n)[i] = l[1 + i - 1]
    BY <1>1, SubSeqProperties
  <1>3. Len(SubSeq(l, 1, n)) = n
    BY <1>1, <1>2
  <1>4. \A i \in 1..n : i \in 1..n - 1 + 1 /\ 1 + i - 1 = i
    BY <1>1
  <1>5. \A i \in 1..n : SubSeq(l, 1, n)[i] = l[i]
    BY <1>2, <1>4
  <1>6. QED
    BY <1>2, <1>3, <1>5 DEF n

\* A beginning of a log has the same hashes.
LEMMA HashesCut ==
    ASSUME NEW l \in Seq(Ref), l # <<>>, NEW H, Hashes(l, H)
    PROVE  /\ SubSeq(l, 1, Len(l) - 1) \in Seq(Ref) /\ Len(SubSeq(l, 1, Len(l) - 1)) = Len(l) - 1
           /\ \A i \in 1..Len(l) - 1 : SubSeq(l, 1, Len(l) - 1)[i] = l[i]
           /\ Hashes(SubSeq(l, 1, Len(l) - 1), H)
  <1> DEFINE n == Len(l)
             s == SubSeq(l, 1, n - 1)
  <1>1. n \in Nat /\ n > 0
    BY EmptySeq
  <1>2. s \in Seq(Ref) /\ Len(s) = n - 1 /\ \A i \in 1..n - 1 : s[i] = l[i]
    BY <1>1, BeginningIs
  <1>3. Hashes(s, H)
    BY <1>1, <1>2 DEF Hashes
  <1>4. QED
    BY <1>2, <1>3

\* The head of what the owner has is the head of its log.
LEMMA HeadIs ==
    ASSUME NEW l \in Seq(Ref), NEW H, Hashes(l, H), NEW s, NEW a, EndOf(s, l, H, a), l # <<>> => s # <<>>
    PROVE  Journal!NextSeq(s) = Len(l) /\ Journal!HeadPrev(s) = H[Len(l)]
  <1>0. PICK T : s \in Seq(T)
    BY DEF EndOf
  <1>1. Len(s) \in Nat /\ Len(l) \in Nat /\ a \in Nat
    BY <1>0 DEF EndOf
  <1>2. CASE s = <<>>
    <2>1. l = <<>> /\ Len(l) = 0
      BY <1>2
    <2>2. QED
      BY <1>2, <2>1 DEF Journal!NextSeq, Journal!HeadPrev, Hashes
  <1>3. CASE s # <<>>
    <2>1. Len(s) > 0
      BY <1>0, <1>1, <1>3, EmptySeq
    <2>2. Len(l) \in a + 1..Len(l) /\ Len(l) \in 1..Len(l) /\ Len(l) - a = Len(s)
      BY <1>1, <2>1 DEF EndOf
    <2>3. s[Len(s)].seq = Len(l) - 1 /\ s[Len(s)].prev = H[Len(l) - 1] /\ s[Len(s)].reference = l[Len(l)]
      BY <2>2 DEF EndOf
    <2>4. H[Len(l)] = <<Len(l) - 1, H[Len(l) - 1], l[Len(l)]>>
      BY <2>2 DEF Hashes
    <2>5. Journal!HeadPrev(s) = H[Len(l)]
      BY <1>3, <2>3, <2>4 DEF Journal!HeadPrev, Journal!EntryHash
    <2>6. Journal!NextSeq(s) = Len(l)
      BY <1>1, <1>3, <2>3 DEF Journal!NextSeq
    <2>7. QED
      BY <2>5, <2>6
  <1>4. QED
    BY <1>2, <1>3

\* An appended entry is the log's next.
LEMMA AppendedIs ==
    ASSUME NEW l \in Seq(Ref), NEW H, Hashes(l, H), NEW s, NEW a, EndOf(s, l, H, a), l # <<>> => s # <<>>,
           NEW r \in Ref
    PROVE  /\ Append(l, r) \in Seq(Ref) /\ Journal!Appended(s, r) # <<>>
           /\ \E E : Hashes(Append(l, r), E) /\ EndOf(Journal!Appended(s, r), Append(l, r), E, a)
  <1> DEFINE n == Len(l)
             E == [i \in 0..n + 1 |-> IF i <= n THEN H[i] ELSE <<n, H[n], r>>]
             e == [seq |-> n, prev |-> H[n], reference |-> r]
             t == Append(s, e)
             m == Append(l, r)
  <1>0. PICK T : s \in Seq(T)
    BY DEF EndOf
  <1>1. Len(s) \in Nat /\ n \in Nat /\ a \in Nat /\ n = a + Len(s)
    BY <1>0 DEF EndOf
  <1>2. Hashes(m, E) /\ \A i \in 0..n : E[i] = H[i]
    BY HashesGrow
  <1>3. Journal!Appended(s, r) = t
    BY HeadIs DEF Journal!Appended
  <1>4. t \in Seq(T \cup {e}) /\ Len(t) = Len(s) + 1 /\ t # <<>>
    <2>1. s \in Seq(T \cup {e})
      BY <1>0
    <2> HIDE DEF e
    <2>2. t \in Seq(T \cup {e}) /\ Len(t) = Len(s) + 1
      BY <2>1
    <2>3. QED
      BY <2>2, <1>1
  <1>5. m \in Seq(Ref) /\ Len(m) = n + 1 /\ m[n + 1] = r /\ \A i \in 1..n : m[i] = l[i]
    OBVIOUS
  <1>6. ASSUME NEW j \in a + 1..n + 1
        PROVE  t[j - a].seq = j - 1 /\ t[j - a].prev = E[j - 1] /\ t[j - a].reference = m[j]
    <2>1. CASE j = n + 1
      <3>1. j - a = Len(s) + 1 /\ j - 1 = n /\ E[n] = H[n] /\ m[j] = r
        BY <1>1, <1>2, <1>5, <2>1
      <3>2. t[j - a] = e
        BY <1>0, <1>1, <3>1
      <3>3. QED
        BY <3>1, <3>2
    <2>2. CASE j # n + 1
      <3>1. j \in a + 1..Len(l) /\ j - a \in 1..Len(s) /\ j - 1 \in 0..n /\ j \in 1..n
        BY <1>1, <2>2
      <3>2. t[j - a] = s[j - a]
        BY <1>0, <3>1
      <3>3. s[j - a].seq = j - 1 /\ s[j - a].prev = H[j - 1] /\ s[j - a].reference = l[j]
        BY <3>1 DEF EndOf
      <3>4. E[j - 1] = H[j - 1] /\ m[j] = l[j]
        BY <1>2, <1>5, <3>1
      <3>5. QED
        BY <3>2, <3>3, <3>4
    <2>3. QED
      BY <2>1, <2>2
  <1> HIDE DEF E, t, m, e
  <1>7. EndOf(t, m, E, a)
    BY <1>1, <1>4, <1>5, <1>6 DEF EndOf, n
  <1>8. m \in Seq(Ref) /\ t # <<>> /\ \E EE : Hashes(m, EE) /\ EndOf(t, m, EE, a)
    BY <1>2, <1>4, <1>5, <1>7
  <1>9. QED
    BY <1>3, <1>8 DEF m

\* A later end of the same log.
LEMMA EndCut ==
    ASSUME NEW l \in Seq(Ref), NEW H, NEW s, NEW a, EndOf(s, l, H, a), NEW c \in a..Len(l)
    PROVE  EndOf(SubSeq(s, c - a + 1, Len(s)), l, H, c)
  <1> DEFINE k == c - a + 1
             t == SubSeq(s, k, Len(s))
  <1>0. PICK T : s \in Seq(T)
    BY DEF EndOf
  <1>1. Len(s) \in Nat /\ Len(l) \in Nat /\ a \in Nat /\ Len(l) = a + Len(s) /\ c \in Nat /\ k \in 1..Len(s) + 1
    BY <1>0 DEF EndOf
  <1>2. t \in Seq(T) /\ Len(t) = Len(l) - c /\ \A i \in 1..Len(t) : t[i] = s[c - a + i]
    <2> DEFINE n == Len(s)
    <2>1. k \in Int /\ n \in Int /\ \A i \in k..n : s[i] \in T
      BY <1>0, <1>1
    <2>2. n - k + 1 = Len(l) - c /\ Len(l) - c \in Nat /\ (k <= n <=> Len(l) - c > 0) /\ k = c - a + 1
      BY <1>1
    <2> HIDE DEF k, n
    <2>3. /\ SubSeq(s, k, n) \in Seq(T)
          /\ Len(SubSeq(s, k, n)) = IF k <= n THEN n - k + 1 ELSE 0
          /\ \A i \in 1..n - k + 1 : SubSeq(s, k, n)[i] = s[k + i - 1]
      BY <2>1, SubSeqProperties
    <2>4. Len(SubSeq(s, k, n)) = Len(l) - c
      BY <2>2, <2>3
    <2>5. \A i \in 1..Len(l) - c : k + i - 1 = c - a + i
      BY <1>1, <2>2
    <2>6. \A i \in 1..Len(l) - c : SubSeq(s, k, n)[i] = s[c - a + i]
      BY <2>2, <2>3, <2>5
    <2>7. QED
      BY <2>3, <2>4, <2>6 DEF n
  <1> HIDE DEF t, k
  <1>3. ASSUME NEW j \in c + 1..Len(l)
        PROVE  t[j - c].seq = j - 1 /\ t[j - c].prev = H[j - 1] /\ t[j - c].reference = l[j]
    <2>1. j - c \in 1..Len(t) /\ c - a + (j - c) = j - a /\ j \in a + 1..Len(l)
      BY <1>1, <1>2, SMTT(30)
    <2>2. t[j - c] = s[j - a]
      BY <1>2, <2>1
    <2>3. QED
      BY <2>1, <2>2 DEF EndOf
  <1>4. c \in 0..Len(l) /\ Len(l) = c + Len(t)
    BY <1>1, <1>2
  <1>5. QED
    BY <1>2, <1>3, <1>4 DEF EndOf, t, k

\* What retain leaves of the end of a log is a later end of it.
LEMMA RetainedIs ==
    ASSUME NEW l \in Seq(Ref), NEW H, NEW s, NEW a, EndOf(s, l, H, a), NEW from \in Nat
    PROVE  Journal!Retained(s, from) = SubSeq(s, CutAt(l, a, from) - a + 1, Len(s))
  <1> DEFINE c == CutAt(l, a, from)
             k == c - a
             n == Len(s)
             g == [i \in 0..n |-> IF i <= k THEN <<>> ELSE SubSeq(s, k + 1, i)]
             Solves(f) == f = [i \in 0..n |-> IF i = 0 THEN <<>>
                                              ELSE IF s[i].seq >= from THEN Append(f[i - 1], s[i]) ELSE f[i - 1]]
  <1>0. PICK T : s \in Seq(T)
    BY DEF EndOf
  <1>1. n \in Nat /\ Len(l) \in Nat /\ a \in Nat /\ Len(l) = a + n /\ c \in a..Len(l) /\ k \in 0..n
    BY <1>0 DEF EndOf, CutAt
  <1>2. ASSUME NEW i \in 1..n PROVE s[i].seq = a + i - 1
    <2>1. a + i \in a + 1..Len(l) /\ (a + i) - a = i
      BY <1>1
    <2>2. QED
      BY <2>1 DEF EndOf
  <1>3. \A i \in 1..n : s[i].seq >= from <=> i > k
    BY <1>1, <1>2 DEF CutAt
  <1> HIDE DEF c, k
  <1>4. ASSUME NEW i \in 1..n PROVE g[i] = IF s[i].seq >= from THEN Append(g[i - 1], s[i]) ELSE g[i - 1]
    <2>1. CASE i <= k
      <3>1. i - 1 \in 0..n /\ i - 1 <= k /\ ~(i > k)
        BY <1>1, <2>1
      <3>2. g[i] = <<>> /\ g[i - 1] = <<>>
        BY <3>1, <2>1, <1>1
      <3>3. QED
        BY <1>3, <3>1, <3>2
    <2>2. CASE i = k + 1
      <3>1. i - 1 \in 0..n /\ i - 1 <= k /\ i > k /\ ~(i <= k)
        BY <1>1, <2>2
      <3>2. g[i] = SubSeq(s, k + 1, k + 1) /\ g[i - 1] = <<>>
        BY <3>1, <2>2, <1>1
      <3>3. SubSeq(s, k + 1, k + 1) = Append(<<>>, s[i])
        <4>1. k + 1 \in 1..Len(s) /\ k + 1 \in k + 1..Len(s) /\ (k + 1) - 1 = k /\ k \in Int /\ k + 1 \in Int /\ k < k + 1
          BY <1>1, <2>2
        <4>2. SubSeq(s, k + 1, k + 1) = SubSeq(s, k + 1, k) \o <<s[k + 1]>>
          BY <1>0, <4>1, SubSeqRecursiveSecond
        <4>3. SubSeq(s, k + 1, k) = <<>>
          BY <4>1, SubSeqEmpty
        <4>4. <<>> \in Seq(T) /\ s[k + 1] \in T
          BY <1>0, <4>1
        <4>5. QED
          BY <2>2, <4>2, <4>3, <4>4, AppendIsConcat
      <3>4. QED
        BY <1>3, <3>1, <3>2, <3>3
    <2>3. CASE i > k + 1
      <3>1. i - 1 \in 0..n /\ ~(i - 1 <= k) /\ i > k /\ ~(i <= k)
        BY <1>1, <2>3
      <3>2. g[i] = SubSeq(s, k + 1, i) /\ g[i - 1] = SubSeq(s, k + 1, i - 1)
        BY <3>1, <1>1
      <3>3. SubSeq(s, k + 1, i) = Append(SubSeq(s, k + 1, i - 1), s[i])
        <4>1. k + 1 \in 1..Len(s) /\ i \in k + 1..Len(s) /\ k + 1 \in Int /\ i - 1 \in Int
              /\ \A j \in k + 1..i - 1 : s[j] \in T
          BY <1>0, <1>1, <2>3
        <4>2. SubSeq(s, k + 1, i) = SubSeq(s, k + 1, i - 1) \o <<s[i]>>
          BY <1>0, <4>1, SubSeqRecursiveSecond
        <4>3. SubSeq(s, k + 1, i - 1) \in Seq(T) /\ s[i] \in T
          BY <1>0, <4>1, SubSeqProperties
        <4>4. QED
          BY <4>2, <4>3, AppendIsConcat
      <3>4. QED
        BY <1>3, <3>1, <3>2, <3>3
    <2>4. QED
      BY <2>1, <2>2, <2>3, <1>1
  <1>5. Solves(g)
    <2>1. g[0] = <<>>
      <3>1. 0 \in 0..n /\ 0 <= k
        BY <1>1
      <3>2. QED
        BY <3>1
    <2>2. \A i \in 0..n : g[i] = (IF i = 0 THEN <<>> ELSE IF s[i].seq >= from THEN Append(g[i - 1], s[i]) ELSE g[i - 1])
      <3> SUFFICES ASSUME NEW i \in 0..n
                   PROVE  g[i] = (IF i = 0 THEN <<>> ELSE IF s[i].seq >= from THEN Append(g[i - 1], s[i]) ELSE g[i - 1])
        OBVIOUS
      <3> HIDE DEF g
      <3>1. CASE i = 0
        BY <2>1, <3>1
      <3>2. CASE i # 0
        <4>1. i \in 1..n
          BY <1>1, <3>2
        <4>2. QED
          BY <1>4, <3>2, <4>1
      <3>3. QED
        BY <3>1, <3>2
    <2> DEFINE h == [i \in 0..n |-> IF i = 0 THEN <<>> ELSE IF s[i].seq >= from THEN Append(g[i - 1], s[i]) ELSE g[i - 1]]
    <2>3. \A i \in 0..n : h[i] = g[i]
      BY <2>2
    <2>4. DOMAIN g = 0..n /\ DOMAIN h = 0..n
      OBVIOUS
    <2>5. g = [i \in 0..n |-> g[i]] /\ h = [i \in 0..n |-> h[i]]
      OBVIOUS
    <2> HIDE DEF g, h
    <2>6. g = h
      BY <2>3, <2>5
    <2>7. QED
      BY <2>6 DEF h
  <1> HIDE DEF g
  <1>6. ASSUME NEW f, Solves(f) PROVE \A i \in 0..n : f[i] = g[i]
    <2> DEFINE G == {i \in Nat : i <= n => f[i] = g[i]}
    <2>1. f[0] = <<>> /\ g[0] = <<>>
      BY <1>1, <1>5, <1>6
    <2>2. 0 \in G
      BY <2>1
    <2>3. \A i \in Nat : i \in G => i + 1 \in G
      <3> SUFFICES ASSUME NEW i \in Nat, i \in G, i + 1 <= n PROVE f[i + 1] = g[i + 1]
        OBVIOUS
      <3>1. i + 1 \in 0..n /\ i + 1 # 0 /\ (i + 1) - 1 = i /\ f[i] = g[i]
        BY <1>1
      <3>2. f[i + 1] = IF s[i + 1].seq >= from THEN Append(f[i], s[i + 1]) ELSE f[i]
        BY <1>6, <3>1
      <3>3. g[i + 1] = IF s[i + 1].seq >= from THEN Append(g[i], s[i + 1]) ELSE g[i]
        BY <1>5, <3>1
      <3>4. QED
        BY <3>1, <3>2, <3>3
    <2> HIDE DEF G
    <2>4. \A i \in Nat : i \in G
      BY <2>2, <2>3, NatSetInduction
    <2>5. QED
      BY <2>4 DEF G
  <1>7. Journal!Retained(s, from) = (CHOOSE f : Solves(f))[n]
    BY DEF Journal!Retained
  <1> HIDE DEF Solves
  <1>8. Solves(CHOOSE f : Solves(f))
    BY <1>5
  <1>9. Journal!Retained(s, from) = g[n]
    BY <1>1, <1>6, <1>7, <1>8
  <1>10. g[n] = SubSeq(s, k + 1, n)
    <2>1. CASE n <= k
      <3>1. n = k
        BY <1>1, <2>1
      <3>2. SubSeq(s, n + 1, n) = <<>>
        BY <1>1, SubSeqEmpty
      <3>3. QED
        BY <1>1, <3>1, <3>2 DEF g
    <2>2. CASE ~(n <= k)
      BY <1>1, <2>2 DEF g
    <2>3. QED
      BY <2>1, <2>2
  <1>11. QED
    BY <1>9, <1>10 DEF k, c

LEMMA JournalStarts == Journal!Init => JournalInv
  <1> SUFFICES ASSUME Journal!Init PROVE JournalInv
    OBVIOUS
  <1> DEFINE H == [i \in {0} |-> Journal!Genesis]
  <1>1. journal = <<>> /\ log = <<>> /\ learned = <<>> /\ anchor = [prev |-> Journal!Genesis, seq |-> 0]
    BY DEF Journal!Init
  <1>2. Hashes(log, H) /\ Hashes(learned, H)
    BY <1>1 DEF Hashes
  <1>3. EndOf(journal, log, H, 0)
    <2>1. journal \in Seq({})
      BY <1>1
    <2>2. QED
      BY <1>1, <2>1 DEF EndOf
  <1>4. H[0] = Journal!Genesis /\ Len(learned) = 0
    BY <1>1
  <1> HIDE DEF H
  <1>5. \E K : Hashes(learned, K) /\ anchor = [prev |-> K[Len(learned)], seq |-> Len(learned)]
    BY <1>1, <1>2, <1>4
  <1>6. log \in Seq(Ref) /\ learned \in Seq(Ref) /\ (log # <<>> => journal # <<>>)
    BY <1>1
  <1>7. QED
    BY <1>2, <1>3, <1>5, <1>6 DEF JournalInv

\* A replay that is taken in is of this log and no other.
LEMMA ReplayGives ==
    ASSUME JournalInv, Journal!Replay, NEW H, NEW a, Hashes(log, H), EndOf(journal, log, H, a)
    PROVE  learned' = log /\ anchor' = [prev |-> H[Len(log)], seq |-> Len(log)]
  <1> DEFINE q == anchor.seq
             c == CutAt(log, a, q)
             seg == Journal!Retained(journal, q)
  <1>1. PICK K : Hashes(learned, K) /\ anchor = [prev |-> K[Len(learned)], seq |-> Len(learned)]
    BY DEF JournalInv
  <1>2. log \in Seq(Ref) /\ learned \in Seq(Ref) /\ Len(log) \in Nat /\ Len(learned) \in Nat /\ q = Len(learned)
    BY <1>1 DEF JournalInv
  <1>3. a \in 0..Len(log) /\ c \in a..Len(log)
    BY <1>2 DEF EndOf, CutAt
  <1>4. seg = SubSeq(journal, c - a + 1, Len(journal))
    BY <1>2, RetainedIs
  <1>5. /\ seg # <<>> /\ Journal!VerifySegment(seg, anchor.prev, q)
        /\ learned' = learned \o [i \in 1..Len(seg) |-> seg[i].reference]
        /\ anchor' = [prev |-> Journal!HeadPrev(seg), seq |-> Journal!NextSeq(seg)]
    BY DEF Journal!Replay
  <1> HIDE DEF seg, c, q
  <1>6. EndOf(seg, log, H, c)
    BY <1>2, <1>3, <1>4, EndCut
  <1>7. PICK T : seg \in Seq(T)
    BY <1>6 DEF EndOf
  <1>8. Len(seg) \in Nat /\ Len(seg) > 0 /\ Len(log) = c + Len(seg) /\ c \in Nat
    <2>1. Len(log) = c + Len(seg)
      BY <1>6 DEF EndOf
    <2>2. Len(seg) \in Nat \ {0}
      BY <1>5, <1>7, EmptySeq
    <2>3. QED
      BY <1>2, <1>3, <2>1, <2>2
  <1>9. seg[1].seq = c /\ seg[1].prev = H[c]
    <2>1. c + 1 \in c + 1..Len(log) /\ (c + 1) - c = 1 /\ (c + 1) - 1 = c
      BY <1>8
    <2>2. QED
      BY <1>6, <2>1 DEF EndOf
  <1>10. seg[1].prev = anchor.prev /\ seg[1].seq = q
    <2>1. 1 \in 1..Len(seg) /\ q + 1 - 1 = q
      BY <1>2, <1>8
    <2>2. QED
      BY <1>5, <2>1 DEF Journal!VerifySegment
  <1>11. q = c /\ H[c] = K[c]
    BY <1>1, <1>2, <1>9, <1>10
  <1>12. \A i \in 1..c : log[i] = learned[i]
    <2>1. c \in Nat /\ c <= Len(log) /\ c <= Len(learned)
      BY <1>2, <1>8, <1>11
    <2>2. Hashes(log, H) /\ Hashes(learned, K) /\ H[c] = K[c]
      BY <1>1, <1>11
    <2>3. QED
      BY <1>2, <2>1, <2>2, HashesCommit
  <1> DEFINE refs == [i \in 1..Len(seg) |-> seg[i].reference]
  <1>13. ASSUME NEW i \in 1..Len(seg) PROVE refs[i] = log[c + i]
    <2>1. c + i \in c + 1..Len(log) /\ (c + i) - c = i
      BY <1>8
    <2>2. QED
      BY <1>6, <2>1 DEF EndOf
  <1>14. refs \in Seq(Ref) /\ Len(refs) = Len(seg)
    <2>1. \A i \in 1..Len(seg) : log[c + i] \in Ref
      BY <1>2, <1>8
    <2>2. refs \in [1..Len(seg) -> Ref]
      BY <1>13, <2>1
    <2>3. QED
      BY <1>8, <2>2, LenProperties
  <1> HIDE DEF refs
  <1>15. learned \o refs = log
    <2> DEFINE t == learned \o refs
    <2>1. /\ t \in Seq(Ref) /\ Len(t) = Len(log)
          /\ \A i \in 1..Len(log) : t[i] = IF i <= c THEN learned[i] ELSE refs[i - c]
      <3>1. /\ t \in Seq(Ref) /\ Len(t) = Len(learned) + Len(refs)
            /\ \A i \in 1..Len(learned) + Len(refs) : t[i] = IF i <= Len(learned) THEN learned[i] ELSE refs[i - Len(learned)]
        BY <1>2, <1>14, ConcatProperties
      <3>2. Len(learned) = c /\ Len(learned) + Len(refs) = Len(log)
        BY <1>2, <1>8, <1>11, <1>14
      <3>3. QED
        BY <3>1, <3>2
    <2> HIDE DEF t
    <2>2. ASSUME NEW i \in 1..Len(log) PROVE t[i] = log[i]
      <3>1. CASE i <= c
        <4>1. i \in 1..c
          BY <1>8, <3>1
        <4>2. QED
          BY <1>12, <2>1, <3>1, <4>1
      <3>2. CASE i > c
        <4>1. i - c \in 1..Len(seg) /\ c + (i - c) = i
          BY <1>8, <3>2
        <4>2. t[i] = refs[i - c]
          BY <1>8, <2>1, <3>2
        <4>3. QED
          BY <1>13, <4>1, <4>2
      <3>3. QED
        BY <1>8, <3>1, <3>2
    <2>3. t = log
      BY <1>2, <2>1, <2>2, SeqEqual
    <2>4. QED
      BY <2>3 DEF t
  <1>16. learned' = log
    BY <1>5, <1>15 DEF refs
  <1>17. Journal!NextSeq(seg) = Len(log) /\ Journal!HeadPrev(seg) = H[Len(log)]
    BY <1>2, <1>5, <1>6, HeadIs
  <1>18. QED
    BY <1>5, <1>16, <1>17

LEMMA JournalSteps == JournalInv /\ [Journal!Next]_Journal!vars => JournalInv' /\ (Journal!Replay => learned' = log)
  <1> SUFFICES ASSUME JournalInv, [Journal!Next]_Journal!vars PROVE JournalInv' /\ (Journal!Replay => learned' = log)
    OBVIOUS
  <1>1. PICK H, a : Hashes(log, H) /\ EndOf(journal, log, H, a)
    BY DEF JournalInv
  <1>2. PICK K : Hashes(learned, K) /\ anchor = [prev |-> K[Len(learned)], seq |-> Len(learned)]
    BY DEF JournalInv
  <1>3. log \in Seq(Ref) /\ learned \in Seq(Ref) /\ (log # <<>> => journal # <<>>)
    BY DEF JournalInv
  <1>4. Journal!Replay => learned' = log
    BY <1>1, ReplayGives
  <1>5. CASE Journal!Replay
    <2>1. learned' = log /\ anchor' = [prev |-> H[Len(log)], seq |-> Len(log)] /\ log' = log /\ journal' = journal
      BY <1>1, <1>5, ReplayGives DEF Journal!Replay
    <2>2. \E KK : Hashes(learned', KK) /\ anchor' = [prev |-> KK[Len(learned')], seq |-> Len(learned')]
      BY <1>1, <2>1
    <2>3. QED
      BY <1>1, <1>3, <1>4, <2>1, <2>2 DEF JournalInv
  <1>6. ASSUME NEW ref \in Ref, Journal!AppendRef(ref) PROVE JournalInv'
    <2>1. journal' = Journal!Appended(journal, ref) /\ log' = Append(log, ref) /\ UNCHANGED <<anchor, learned>>
      BY <1>6 DEF Journal!AppendRef
    <2>2. /\ log' \in Seq(Ref) /\ journal' # <<>>
          /\ \E E : Hashes(log', E) /\ EndOf(journal', log', E, a)
      BY <1>1, <1>3, <2>1, AppendedIs
    <2>3. QED
      BY <1>2, <1>3, <2>1, <2>2 DEF JournalInv
  <1>7. ASSUME NEW ref \in Ref, Journal!Fork(ref) PROVE JournalInv'
    <2> DEFINE l == SubSeq(log, 1, Len(log) - 1)
               s == SubSeq(journal, 1, Len(journal) - 1)
    <2>1. Len(journal) > 1 /\ journal' = Journal!Appended(s, ref) /\ log' = Append(l, ref) /\ UNCHANGED <<anchor, learned>>
      BY <1>7 DEF Journal!Fork
    <2>2. PICK T : journal \in Seq(T)
      BY <1>1 DEF EndOf
    <2>3. Len(log) \in Nat /\ Len(journal) \in Nat /\ a \in Nat /\ Len(log) = a + Len(journal) /\ log # <<>>
      BY <1>1, <1>3, <2>1, <2>2, EmptySeq DEF EndOf
    <2>4. l \in Seq(Ref) /\ Len(l) = Len(log) - 1 /\ (\A i \in 1..Len(log) - 1 : l[i] = log[i]) /\ Hashes(l, H)
      BY <1>1, <1>3, <2>3, HashesCut
    <2>5. s \in Seq(T) /\ Len(s) = Len(journal) - 1 /\ \A i \in 1..Len(journal) - 1 : s[i] = journal[i]
      <3>1. Len(journal) > 0
        BY <2>1, <2>3
      <3>2. QED
        BY <2>2, <3>1, BeginningIs
    <2>6. s # <<>>
      <3>1. Len(s) > 0
        BY <2>1, <2>3, <2>5
      <3> HIDE DEF s
      <3>2. QED
        BY <3>1
    <2> HIDE DEF l, s
    <2>7. EndOf(s, l, H, a)
      <3>1. a \in 0..Len(l) /\ Len(l) = a + Len(s)
        BY <2>1, <2>3, <2>4, <2>5
      <3>2. ASSUME NEW j \in a + 1..Len(l)
            PROVE  s[j - a].seq = j - 1 /\ s[j - a].prev = H[j - 1] /\ s[j - a].reference = l[j]
        <4>1. j - a \in 1..Len(journal) - 1 /\ j \in a + 1..Len(log) /\ j \in 1..Len(log) - 1
          BY <2>3, <2>4
        <4>2. s[j - a] = journal[j - a] /\ l[j] = log[j]
          BY <2>4, <2>5, <4>1
        <4>3. QED
          BY <1>1, <4>1, <4>2 DEF EndOf
      <3>3. QED
        BY <2>5, <3>1, <3>2 DEF EndOf
    <2>8. /\ log' \in Seq(Ref) /\ journal' # <<>>
          /\ \E E : Hashes(log', E) /\ EndOf(journal', log', E, a)
      BY <2>1, <2>4, <2>6, <2>7, AppendedIs
    <2>9. QED
      BY <1>2, <1>3, <2>1, <2>8 DEF JournalInv
  <1>8. ASSUME NEW from \in 1..MaxSeq, Journal!TruncateBefore(from) PROVE JournalInv'
    <2>1. from < Journal!NextSeq(journal) /\ journal' = Journal!Retained(journal, from) /\ UNCHANGED <<log, anchor, learned>>
      BY <1>8 DEF Journal!TruncateBefore
    <2>2. Journal!NextSeq(journal) = Len(log)
      BY <1>1, <1>3, HeadIs
    <2>3. Len(log) \in Nat /\ a \in 0..Len(log) /\ from \in Nat
      BY <1>1, <1>3 DEF EndOf
    <2> DEFINE c == CutAt(log, a, from)
    <2>4. journal' = SubSeq(journal, c - a + 1, Len(journal))
      <3>1. Journal!Retained(journal, from) = SubSeq(journal, c - a + 1, Len(journal))
        <4>1. EndOf(journal, log, H, a) /\ Hashes(log, H)
          BY <1>1
        <4>2. QED
          BY <1>3, <2>3, <4>1, RetainedIs
      <3>2. QED
        BY <2>1, <3>1
    <2>5. c \in a..Len(log) /\ (from >= a => c < Len(log)) /\ (~(from >= a) => c = a)
      BY <2>1, <2>2, <2>3 DEF CutAt
    <2>6. EndOf(journal', log, H, c)
      BY <1>1, <1>3, <2>4, <2>5, EndCut
    <2>7. journal' # <<>>
      <3>1. CASE from >= a
        <4>1. Len(log) = c + Len(journal')
          BY <2>6 DEF EndOf
        <4>2. Len(journal') # 0
          BY <2>3, <2>5, <3>1, <4>1
        <4>3. QED
          BY <4>2
      <3>2. CASE ~(from >= a)
        <4>1. c = a /\ journal # <<>>
          BY <1>3, <2>1, <2>2, <2>3, <2>5, <3>2
        <4>2. PICK T : journal \in Seq(T)
          BY <1>1 DEF EndOf
        <4>3. journal' = journal
          <5>1. c - a + 1 = 1
            BY <2>3, <4>1
          <5>2. QED
            BY <2>4, <4>2, <5>1, SubSeqFull
        <4>4. QED
          BY <4>1, <4>3
      <3>3. QED
        BY <3>1, <3>2
    <2>8. \E HH, aa : Hashes(log', HH) /\ EndOf(journal', log', HH, aa)
      BY <1>1, <2>1, <2>6
    <2>9. QED
      BY <1>2, <1>3, <2>1, <2>7, <2>8 DEF JournalInv
  <1>9. CASE UNCHANGED Journal!vars
    <2>1. journal' = journal /\ log' = log /\ anchor' = anchor /\ learned' = learned
      BY <1>9 DEF Journal!vars
    <2>2. QED
      BY <1>1, <1>2, <1>3, <1>4, <2>1 DEF JournalInv
  <1>10. QED
    BY <1>4, <1>5, <1>6, <1>7, <1>8, <1>9 DEF Journal!Next

\* What the owner has is the end of its log.
LEMMA EndVerifies == JournalInv => Journal!SuffixVerifies
  <1> SUFFICES ASSUME JournalInv, journal # <<>>
               PROVE  /\ Journal!VerifySegment(journal, journal[1].prev, journal[1].seq)
                      /\ [i \in 1..Len(journal) |-> journal[i].reference]
                           = SubSeq(log, Len(log) - Len(journal) + 1, Len(log))
                      /\ journal[1].seq = Len(log) - Len(journal)
    BY DEF Journal!SuffixVerifies
  <1>1. PICK H, a : Hashes(log, H) /\ EndOf(journal, log, H, a)
    BY DEF JournalInv
  <1>2. PICK T : journal \in Seq(T)
    BY <1>1 DEF EndOf
  <1>3. /\ log \in Seq(Ref) /\ Len(log) \in Nat /\ Len(journal) \in Nat /\ Len(journal) > 0
        /\ a \in Nat /\ Len(log) = a + Len(journal)
    <2>1. log \in Seq(Ref) /\ Len(log) \in Nat
      BY DEF JournalInv
    <2>2. Len(journal) \in Nat \ {0}
      BY <1>2, EmptySeq
    <2>3. a \in Nat /\ Len(log) = a + Len(journal)
      BY <1>1, <2>1 DEF EndOf
    <2>4. QED
      BY <2>1, <2>2, <2>3
  <1>4. ASSUME NEW i \in 1..Len(journal)
        PROVE  journal[i].seq = a + i - 1 /\ journal[i].prev = H[a + i - 1] /\ journal[i].reference = log[a + i]
    <2>1. a + i \in a + 1..Len(log) /\ (a + i) - a = i
      BY <1>3
    <2>2. QED
      BY <1>1, <2>1 DEF EndOf
  <1>5. journal[1].seq = a /\ journal[1].prev = H[a]
    <2>1. 1 \in 1..Len(journal) /\ a + 1 - 1 = a
      BY <1>3
    <2>2. QED
      BY <1>4, <2>1
  <1>6. Journal!VerifySegment(journal, journal[1].prev, journal[1].seq)
    <2>1. ASSUME NEW i \in 1..Len(journal)
          PROVE  /\ journal[i].prev = (IF i = 1 THEN journal[1].prev ELSE Journal!EntryHash(journal[i - 1]))
                 /\ journal[i].seq = journal[1].seq + i - 1
      <3>1. journal[i].seq = journal[1].seq + i - 1
        BY <1>4, <1>5
      <3>2. CASE i = 1
        BY <3>1, <3>2
      <3>3. CASE i # 1
        <4>1. i - 1 \in 1..Len(journal)
          BY <1>3, <3>3
        <4> DEFINE m == a + (i - 1)
        <4>2. m \in 1..Len(log) /\ a + i - 1 = m
          BY <1>3, <3>3
        <4>3. journal[i - 1].seq = m - 1 /\ journal[i - 1].prev = H[m - 1] /\ journal[i - 1].reference = log[m]
          BY <1>3, <1>4, <4>1
        <4>4. journal[i].prev = H[m]
          BY <1>4, <4>2
        <4> HIDE DEF m
        <4>5. H[m] = <<m - 1, H[m - 1], log[m]>>
          BY <1>1, <4>2 DEF Hashes
        <4>6. Journal!EntryHash(journal[i - 1]) = H[m]
          BY <4>3, <4>5 DEF Journal!EntryHash
        <4>7. QED
          BY <3>1, <3>3, <4>4, <4>6
      <3>4. QED
        BY <3>2, <3>3
    <2>2. QED
      BY <2>1 DEF Journal!VerifySegment
  <1>7. [i \in 1..Len(journal) |-> journal[i].reference] = SubSeq(log, Len(log) - Len(journal) + 1, Len(log))
    <2> DEFINE n == Len(journal)
               k == Len(log) - n + 1
               r == [i \in 1..n |-> journal[i].reference]
               t == SubSeq(log, k, Len(log))
    <2>1. k = a + 1 /\ k \in Int /\ Len(log) \in Int /\ k <= Len(log) /\ Len(log) - k + 1 = n /\ n \in Nat
          /\ \A i \in k..Len(log) : log[i] \in Ref
      BY <1>3
    <2> HIDE DEF k
    <2>2. t \in Seq(Ref) /\ Len(t) = n /\ \A i \in 1..n : t[i] = log[k + i - 1]
      BY <2>1, SubSeqProperties
    <2>3. ASSUME NEW i \in 1..n PROVE r[i] = t[i]
      <3>1. k + i - 1 = a + i
        BY <1>3, <2>1
      <3>2. QED
        BY <1>4, <2>2, <3>1
    <2>4. r \in Seq(Ref) /\ Len(r) = n
      <3>1. \A i \in 1..n : log[a + i] \in Ref
        BY <1>3
      <3>2. r \in [1..n -> Ref]
        BY <1>4, <3>1
      <3>3. QED
        BY <2>1, <3>2, LenProperties
    <2> HIDE DEF r, t, n
    <2>5. r = t
      BY <2>2, <2>3, <2>4, SeqEqual
    <2>6. QED
      BY <2>5 DEF r, t, k, n
  <1>8. QED
    BY <1>3, <1>5, <1>6, <1>7

\* A replay that verify_segment accepts leaves the follower with the owner's log and no
\* other, and what the owner keeps is the end of its log, chained entry by entry
\* (journal.rs append_ref, truncate_before, verify_segment), for every number of entries,
\* truncations and rewrites.
THEOREM FollowersReplayOneLog == Journal!Spec => [][Journal!ReplayIsLog /\ Journal!SuffixVerifies']_Journal!vars
  <1>1. Journal!Init => JournalInv
    BY JournalStarts
  <1>2. JournalInv /\ [Journal!Next]_Journal!vars => JournalInv'
    BY JournalSteps
  <1>3. JournalInv /\ JournalInv' /\ [Journal!Next]_Journal!vars => [Journal!ReplayIsLog /\ Journal!SuffixVerifies']_Journal!vars
    <2>1. JournalInv /\ [Journal!Next]_Journal!vars => Journal!ReplayIsLog
      BY JournalSteps DEF Journal!ReplayIsLog
    <2>2. JournalInv' => Journal!SuffixVerifies'
      BY EndVerifies, PTL
    <2>3. QED
      BY <2>1, <2>2
  <1>4. QED
    BY <1>1, <1>2, <1>3, PTL DEF Journal!Spec

=============================================================================
