---------------------------- MODULE ClusterProofs ----------------------------
(***************************************************************************)
(* Proofs about the device cluster, for any devices, views, kinds of op    *)
(* and bounds.                                                             *)
(***************************************************************************)
EXTENDS ClusterSync, Induction, FiniteSetTheorems, TLAPS

-----------------------------------------------------------------------------
(* Folding a set of ops into a state is applying them one by one.          *)

Folds(f, base, S) ==
    /\ f[{}] = base
    /\ f[S] = ApplyAll(S, base)
    /\ \A T \in SUBSET S : T # {} => \E x \in T : f[T] = ApplyOp(x, f[T \ {x}])

LEMMA ApplyAllIter ==
    ASSUME NEW base, NEW S, IsFiniteSet(S)
    PROVE  \E f : Folds(f, base, S)
  <1> DEFINE Pick(s) == CHOOSE y \in s : TRUE
             Value(g, s) == IF s = {} THEN base ELSE ApplyOp(Pick(s), g[s \ {Pick(s)}])
             Small(n) == {s \in SUBSET S : Cardinality(s) <= n}
             Fixed(g, D) == g = [s \in D |-> Value(g, s)]
             G == {n \in Nat : \E g : Fixed(g, Small(n))}
             f == CHOOSE g : Fixed(g, SUBSET S)
  <1>1. \A s \in SUBSET S : /\ IsFiniteSet(s) /\ Cardinality(s) \in Nat
                            /\ Cardinality(s) <= Cardinality(S)
    BY FS_Subset, FS_CardinalityType
  <1>2. \A s \in SUBSET S : s # {} =>
           /\ Pick(s) \in s /\ s \ {Pick(s)} \in SUBSET S
           /\ Cardinality(s \ {Pick(s)}) = Cardinality(s) - 1
    BY <1>1, FS_RemoveElement
  <1>3. 0 \in G
    <2> DEFINE g == [s \in Small(0) |-> base]
    <2>1. \A s \in Small(0) : s = {}
      BY <1>1, FS_EmptySet
    <2>2. Fixed(g, Small(0))
      BY <2>1
    <2>3. QED
      BY <2>2
  <1>4. ASSUME NEW n \in Nat, n \in G PROVE n + 1 \in G
    <2>1. PICK g : Fixed(g, Small(n))
      BY <1>4
    <2> DEFINE h == [s \in Small(n + 1) |-> Value(g, s)]
    <2>2. \A s \in Small(n) : h[s] = g[s]
      <3>1. Small(n) \subseteq Small(n + 1)
        BY <1>1
      <3> HIDE DEF Value, Small
      <3>2. QED
        BY <2>1, <3>1
    <2>3. \A s \in Small(n + 1) : s # {} => s \ {Pick(s)} \in Small(n)
      BY <1>1, <1>2
    <2>4. \A s \in Small(n + 1) : Value(g, s) = Value(h, s)
      <3> SUFFICES ASSUME NEW s \in Small(n + 1) PROVE Value(g, s) = Value(h, s)
        OBVIOUS
      <3>1. CASE s = {}
        BY <3>1
      <3>2. CASE s # {}
        <4>1. h[s \ {Pick(s)}] = g[s \ {Pick(s)}]
          <5> HIDE DEF h, Pick, Small
          <5>1. QED
            BY <2>2, <2>3, <3>2
        <4> HIDE DEF h, Pick
        <4>2. QED
          BY <4>1, <3>2
      <3>3. QED
        BY <3>1, <3>2
    <2>5. Fixed(h, Small(n + 1))
      <3> HIDE DEF Value, Small
      <3>1. QED
        BY <2>4
    <2>6. n + 1 \in Nat
      OBVIOUS
    <2> HIDE DEF h, Fixed, Small
    <2>7. QED
      BY <2>5, <2>6
  <1>5. Cardinality(S) \in G
    <2> HIDE DEF G
    <2>1. Nat \subseteq G
      BY <1>3, <1>4, NatSetInduction
    <2>2. QED
      BY <2>1, <1>1
  <1>6. Small(Cardinality(S)) = SUBSET S
    BY <1>1
  <1>7. Fixed(f, SUBSET S)
    <2>1. \E g : Fixed(g, SUBSET S)
      BY <1>5, <1>6
    <2> HIDE DEF Fixed
    <2>2. QED
      BY <2>1
  <1>8. f[S] = ApplyAll(S, base)
    BY DEF ApplyAll, FoldSet, MapThenFoldSet
  <1>9. \A s \in SUBSET S : f[s] = Value(f, s)
    <2> HIDE DEF f, Value
    <2>1. QED
      BY <1>7
  <1>10. QED
    <2> HIDE DEF f
    <2>1. f[{}] = base
      BY <1>9
    <2>2. \A T \in SUBSET S : T # {} => \E x \in T : f[T] = ApplyOp(x, f[T \ {x}])
      BY <1>9, <1>2
    <2>3. Folds(f, base, S)
      BY <2>1, <2>2, <1>8 DEF Folds
    <2>4. QED
      BY <2>3

-----------------------------------------------------------------------------
(* The order of stamps.                                                    *)

Clock == Nat \X Nat \X Nat

LEMMA ClockOrder ==
    ASSUME NEW a \in Clock, NEW b \in Clock
    PROVE  /\ NotAfter(a, b) \/ Before(b, a)
           /\ ~(NotAfter(a, b) /\ Before(b, a))
           /\ NotAfter(Zero, a)
           /\ a[3] # 0 => Before(Zero, a)
  <1>1. PICK a1 \in Nat, a2 \in Nat, a3 \in Nat : a = <<a1, a2, a3>>
    BY DEF Clock
  <1>2. PICK b1 \in Nat, b2 \in Nat, b3 \in Nat : b = <<b1, b2, b3>>
    BY DEF Clock
  <1>3. a = b <=> a1 = b1 /\ a2 = b2 /\ a3 = b3
    BY <1>1, <1>2
  <1>4. /\ Before(a, b) <=> (a1 < b1 \/ (a1 = b1 /\ a2 < b2) \/ (a1 = b1 /\ a2 = b2 /\ a3 < b3))
        /\ Before(b, a) <=> (b1 < a1 \/ (b1 = a1 /\ b2 < a2) \/ (b1 = a1 /\ b2 = a2 /\ b3 < a3))
        /\ Before(Zero, a) <=> (0 < a1 \/ (0 = a1 /\ 0 < a2) \/ (0 = a1 /\ 0 = a2 /\ 0 < a3))
        /\ (Zero = a) <=> (0 = a1 /\ 0 = a2 /\ 0 = a3)
        /\ a[3] = a3
    BY <1>1, <1>2 DEF Before, Zero
  <1>5. QED
    BY <1>3, <1>4 DEF NotAfter

LEMMA ClockTransitive ==
    ASSUME NEW a \in Clock, NEW b \in Clock, NEW c \in Clock
    PROVE  /\ NotAfter(a, b) /\ NotAfter(b, c) => NotAfter(a, c)
           /\ NotAfter(a, b) /\ NotAfter(b, a) => a = b
  <1>1. PICK a1 \in Nat, a2 \in Nat, a3 \in Nat : a = <<a1, a2, a3>>
    BY DEF Clock
  <1>2. PICK b1 \in Nat, b2 \in Nat, b3 \in Nat : b = <<b1, b2, b3>>
    BY DEF Clock
  <1>3. PICK c1 \in Nat, c2 \in Nat, c3 \in Nat : c = <<c1, c2, c3>>
    BY DEF Clock
  <1>4. /\ a = b <=> a1 = b1 /\ a2 = b2 /\ a3 = b3
        /\ b = c <=> b1 = c1 /\ b2 = c2 /\ b3 = c3
        /\ a = c <=> a1 = c1 /\ a2 = c2 /\ a3 = c3
        /\ Before(a, b) <=> (a1 < b1 \/ (a1 = b1 /\ a2 < b2) \/ (a1 = b1 /\ a2 = b2 /\ a3 < b3))
        /\ Before(b, a) <=> (b1 < a1 \/ (b1 = a1 /\ b2 < a2) \/ (b1 = a1 /\ b2 = a2 /\ b3 < a3))
        /\ Before(b, c) <=> (b1 < c1 \/ (b1 = c1 /\ b2 < c2) \/ (b1 = c1 /\ b2 = c2 /\ b3 < c3))
        /\ Before(a, c) <=> (a1 < c1 \/ (a1 = c1 /\ a2 < c2) \/ (a1 = c1 /\ a2 = c2 /\ a3 < c3))
    BY <1>1, <1>2, <1>3 DEF Before
  <1>5. QED
    BY <1>4 DEF NotAfter

\* A finite set of stamps has a latest one.
LEMMA LatestIsLast ==
    ASSUME NEW S \in SUBSET Clock, IsFiniteSet(S)
    PROVE  Latest(S) \in S \cup {Zero} /\ \A b \in S : NotAfter(b, Latest(S))
  <1> DEFINE IsTop(T, a) == a \in T \cup {Zero} /\ \A b \in T : NotAfter(b, a)
             G == {T \in SUBSET S : \E a : IsTop(T, a)}
  <1>0. Zero \in Clock
    BY DEF Zero, Clock
  <1>1. {} \in G
    <2>1. IsTop({}, Zero)
      OBVIOUS
    <2>2. QED
      BY <2>1
  <1>2. ASSUME NEW T \in SUBSET S, T # {}, \A x \in T : T \ {x} \in G
        PROVE  T \in G
    <2>1. PICK x \in T : TRUE
      BY <1>2
    <2>2. PICK a : IsTop(T \ {x}, a)
      BY <1>2, <2>1
    <2>3. a \in Clock /\ x \in Clock
      BY <2>1, <2>2, <1>0
    <2>4. CASE NotAfter(x, a)
      <3>1. IsTop(T, a)
        BY <2>2, <2>4
      <3>2. QED
        BY <3>1
    <2>5. CASE Before(a, x)
      <3>1. \A b \in T : NotAfter(b, x)
        <4>1. ASSUME NEW b \in T, b # x PROVE NotAfter(b, x)
          <5>1. NotAfter(b, a) /\ b \in Clock
            BY <4>1, <2>2
          <5>2. NotAfter(a, x)
            BY <2>5 DEF NotAfter
          <5>3. QED
            BY <5>1, <5>2, <2>3, ClockTransitive
        <4>2. NotAfter(x, x)
          BY DEF NotAfter
        <4>3. QED
          BY <4>1, <4>2
      <3>2. IsTop(T, x)
        BY <3>1
      <3>3. QED
        BY <3>2
    <2>6. QED
      BY <2>3, <2>4, <2>5, ClockOrder
  <1>3. S \in G
    <2> HIDE DEF G
    <2>1. QED
      BY <1>1, <1>2, SubsetInduction
  <1>4. \E a : a \in S \cup {Zero} /\ \A b \in S : NotAfter(b, a)
    BY <1>3
  <1>5. QED
    BY <1>4 DEF Latest

-----------------------------------------------------------------------------
(* The state of one replica.                                               *)

Stamp == Nat \X Nat \X Device
Cell == [hlc : Stamp \cup {Zero}, val : Nat]
State == [adds : [Elem -> SUBSET Stamp], tombs : [Elem -> SUBSET Stamp],
          lww : [Elem -> Cell], death : [Elem -> Cell]]
ClusterOp == [kind : OpKind, target : Elem, hlc : Stamp, observed : SUBSET Stamp, val : Nat]

\* Every stamp of a state, or of an op, is one of H.
Within(s, H) ==
    \A e \in Elem : /\ s.adds[e] \subseteq H /\ s.tombs[e] \subseteq H
                    /\ s.lww[e].hlc \in H \cup {Zero} /\ s.death[e].hlc \in H \cup {Zero}
OpWithin(op, H) == op.hlc \in H /\ op.observed \subseteq H

LEMMA StampIsClock ==
    /\ Stamp \subseteq Clock /\ Zero \in Clock /\ Zero \notin Stamp
    /\ \A t \in Stamp : t[3] \in Device /\ t[3] # 0
  BY ClusterAssumption DEF Stamp, Clock, Zero

LEMMA StampsWithin ==
    ASSUME NEW s \in State, NEW H
    PROVE  Within(s, H) => Stamps(s) \subseteq H
  <1> SUFFICES ASSUME Within(s, H), NEW t \in Stamps(s) PROVE t \in H
    OBVIOUS
  <1>1. PICK e \in Elem : t \in s.adds[e] \cup s.tombs[e] \cup {s.lww[e].hlc, s.death[e].hlc}
    BY DEF Stamps
  <1>2. t # Zero
    BY DEF Stamps
  <1>3. QED
    BY <1>1, <1>2 DEF Within

LEMMA JoinType ==
    ASSUME NEW a \in Cell, NEW b \in Cell PROVE Join(a, b) \in {a, b}
  BY DEF Join

LEMMA EmptyStateType ==
    EmptyState \in State /\ \A H : Within(EmptyState, H)
  BY DEF EmptyState, NoCell, State, Cell, Within

LEMMA ApplyOpType ==
    ASSUME NEW s \in State, NEW op \in ClusterOp, NEW H
    PROVE  /\ ApplyOp(op, s) \in State
           /\ Within(s, H) /\ OpWithin(op, H) => Within(ApplyOp(op, s), H)
  <1> DEFINE e == op.target
             cell == [hlc |-> op.hlc, val |-> op.val]
  <1>0. e \in Elem /\ cell \in Cell /\ op.hlc \in Stamp /\ op.observed \subseteq Stamp
    BY DEF ClusterOp, Cell
  <1>1. CASE op.kind = "add"
    <2>1. ApplyOp(op, s) = [s EXCEPT !.adds[e] = @ \cup {op.hlc}]
      BY <1>1 DEF ApplyOp
    <2> HIDE DEF e
    <2>2. QED
      BY <2>1, <1>0 DEF State, Within, OpWithin
  <1>2. CASE op.kind = "remove"
    <2>1. ApplyOp(op, s) = [s EXCEPT !.tombs[e] = @ \cup op.observed]
      BY <1>2 DEF ApplyOp
    <2> HIDE DEF e
    <2>2. QED
      BY <2>1, <1>0 DEF State, Within, OpWithin
  <1>3. CASE op.kind = "lww"
    <2>1. ApplyOp(op, s) = [s EXCEPT !.lww[e] = Join(@, cell)]
      BY <1>3 DEF ApplyOp
    <2>2. Join(s.lww[e], cell) \in {s.lww[e], cell} /\ s.lww[e] \in Cell
      BY <1>0, JoinType DEF State
    <2>3. cell.hlc = op.hlc
      OBVIOUS
    <2> HIDE DEF e, cell
    <2>4. QED
      BY <2>1, <2>2, <2>3, <1>0 DEF State, Within, OpWithin
  <1>4. CASE op.kind = "delete"
    <2>1. ApplyOp(op, s) = [s EXCEPT !.death[e] = Join(@, cell)]
      BY <1>4 DEF ApplyOp
    <2>2. Join(s.death[e], cell) \in {s.death[e], cell} /\ s.death[e] \in Cell
      BY <1>0, JoinType DEF State
    <2>3. cell.hlc = op.hlc
      OBVIOUS
    <2> HIDE DEF e, cell
    <2>4. QED
      BY <2>1, <2>2, <2>3, <1>0 DEF State, Within, OpWithin
  <1>5. QED
    BY <1>1, <1>2, <1>3, <1>4 DEF ClusterOp, OpKind

LEMMA MergeType ==
    ASSUME NEW s \in State, NEW o \in State, NEW H
    PROVE  /\ Merge(s, o) \in State
           /\ Within(s, H) /\ Within(o, H) => Within(Merge(s, o), H)
  <1>1. \A e \in Elem : /\ Join(s.lww[e], o.lww[e]) \in {s.lww[e], o.lww[e]}
                        /\ Join(s.death[e], o.death[e]) \in {s.death[e], o.death[e]}
    BY JoinType DEF State
  <1>2. Merge(s, o) \in State
    BY <1>1 DEF Merge, State
  <1>3. QED
    BY <1>1, <1>2 DEF Merge, Within, State

LEMMA PruneType ==
    ASSUME NEW s \in State, NEW cut, NEW H
    PROVE  /\ PruneStable(s, cut) \in State
           /\ Within(s, H) => Within(PruneStable(s, cut), H)
  <1>1. /\ PruneStable(s, cut).lww = s.lww /\ PruneStable(s, cut).death = s.death
        /\ \A e \in Elem : /\ PruneStable(s, cut).adds[e] = s.adds[e] \ Reclaimable(s, e, cut)
                           /\ PruneStable(s, cut).tombs[e] = s.tombs[e] \ Reclaimable(s, e, cut)
    BY DEF PruneStable, State
  <1>2. PruneStable(s, cut) \in State
    BY DEF PruneStable, State
  <1>3. QED
    BY <1>1, <1>2 DEF Within

LEMMA FoldType ==
    ASSUME NEW s \in State, NEW S \in SUBSET ClusterOp, IsFiniteSet(S), NEW H
    PROVE  /\ ApplyAll(S, s) \in State
           /\ Within(s, H) /\ (\A op \in S : OpWithin(op, H)) => Within(ApplyAll(S, s), H)
  <1>1. PICK f : Folds(f, s, S)
    BY ApplyAllIter
  <1> DEFINE All == Within(s, H) /\ \A op \in S : OpWithin(op, H)
  <1> DEFINE G == {T \in SUBSET S : f[T] \in State /\ (All => Within(f[T], H))}
  <1>2. {} \in G
    BY <1>1 DEF Folds
  <1>3. ASSUME NEW T \in SUBSET S, T # {}, \A x \in T : T \ {x} \in G
        PROVE  T \in G
    <2>1. PICK x \in T : f[T] = ApplyOp(x, f[T \ {x}])
      BY <1>1, <1>3 DEF Folds
    <2>2. f[T \ {x}] \in State /\ (All => Within(f[T \ {x}], H)) /\ x \in ClusterOp
      BY <1>3, <2>1
    <2>3. f[T] \in State /\ (All => Within(f[T], H))
      BY <2>1, <2>2, ApplyOpType
    <2>4. QED
      BY <2>3
  <1>4. S \in G
    <2> HIDE DEF G
    <2>1. QED
      BY <1>2, <1>3, SubsetInduction
  <1>5. QED
    BY <1>1, <1>4 DEF Folds

-----------------------------------------------------------------------------
(* The inductive invariant of what replicas hold.                          *)

Clocks == {op.hlc : op \in Written}

Types ==
    /\ now \in [Device -> 1..MaxNow]
    /\ state \in [Device -> State] /\ applied \in [Device -> SUBSET ClusterOp]
    /\ objects \in [Device -> SUBSET Object] /\ journal \in [Device -> SUBSET Object]
    /\ stability \in [Device -> [Device -> Stamp \cup {Zero}]]
    /\ lastSeen \in [Device -> [Device -> {NeverSeen} \cup 1..MaxNow]]
    /\ net \subseteq [type : {"announce", "fetch", "serve"}, from : Device, ids : SUBSET Object]
                     \cup [type : {"stability"}, from : Device, marks : [Device -> Stamp \cup {Zero}]]

\* An op is known to its device, no two ops have one clock, and every stamp in a state or
\* an op is the clock of an op that was written.
OpsInv ==
    /\ IsFiniteSet(Written)
    /\ \A op \in Written : op \in applied[op.hlc[3]] /\ op.observed \subseteq Clocks
    /\ \A o, p \in Written : o.hlc = p.hlc => o = p
    /\ \A d \in Device : Within(state[d], Clocks)

Same(d) == state'[d] = state[d] /\ applied'[d] = applied[d]

Took(d) ==
    \E p \in Device : \E S \in SUBSET applied[p] :
        /\ p \in View[d] /\ IsFiniteSet(S)
        /\ state'[d] = ApplyAll(S, state[d]) /\ applied'[d] = applied[d] \cup S

Merged(d) ==
    \E p \in Device :
        /\ p \in View[d] /\ d \in View[p]
        /\ applied'[d] = applied[d] \cup applied[p]
        /\ state'[d] \in {Merge(state[d], state[p]), Merge(state[d], Merge(state[p], state[d]))}

Pruned(d) ==
    /\ Collects /\ applied'[d] = applied[d] /\ StabilityCut(d) # Zero
    /\ state'[d] = PruneStable(state[d], StabilityCut(d))

LEMMA AppliedFinite ==
    ASSUME OpsInv, NEW d \in Device, NEW S \in SUBSET applied[d]
    PROVE  IsFiniteSet(S)
  <1>1. S \subseteq Written
    BY DEF Written
  <1>2. QED
    BY <1>1, FS_Subset DEF OpsInv

LEMMA ClocksFinite ==
    ASSUME OpsInv, NEW S \in SUBSET Clocks
    PROVE  IsFiniteSet(S)
  <1>1. IsFiniteSet(Clocks)
    <2> DEFINE f == [op \in Written |-> op.hlc]
    <2>1. f \in Surjection(Written, Clocks)
      BY DEF Surjection, Clocks
    <2>2. QED
      BY <2>1, FS_Surjection DEF OpsInv
  <1>2. QED
    BY <1>1, FS_Subset

\* What a device writes is later than all it has taken in, and so unlike any op there is.
LEMMA NewOp ==
    ASSUME Types, OpsInv, NEW d \in Device, NEW op \in NewOps(d)
    PROVE  /\ op \in ClusterOp /\ op.hlc[3] = d
           /\ op.observed \subseteq state[d].adds[op.target]
           /\ \A o \in applied[d] : NotAfter(o.hlc, op.hlc)
           /\ \A o \in Written : o.hlc # op.hlc
  <1> DEFINE C == {o.hlc : o \in applied[d]}
             top == Latest(C)
  <1>1. C \subseteq Stamp /\ C \subseteq Clock
    BY StampIsClock DEF Types, ClusterOp
  <1>2. IsFiniteSet(C)
    <2>1. C \subseteq Clocks
      BY DEF Clocks, Written
    <2>2. QED
      BY <2>1, ClocksFinite
  <1>3. top \in C \cup {Zero} /\ \A b \in C : NotAfter(b, top)
    BY <1>1, <1>2, LatestIsLast
  <1>4. top \in Clock /\ d \in Nat /\ now[d] \in Nat
    <2>1. Zero \in Clock
      BY StampIsClock
    <2>2. top \in Clock
      <3> HIDE DEF top, C
      <3>1. QED
        BY <1>1, <1>3, <2>1
    <2>3. now[d] \in 1..MaxNow
      BY DEF Types
    <2>4. QED
      BY <2>2, <2>3, ClusterAssumption
  <1>5. PICK t1 \in Nat, t2 \in Nat, t3 \in Nat : top = <<t1, t2, t3>>
    <2> HIDE DEF top
    <2>1. QED
      BY <1>4 DEF Clock
  <1>6. NextHlc(d) = IF now[d] > t1 THEN <<now[d], 0, d>> ELSE <<t1, t2 + 1, d>>
    BY <1>5 DEF NextHlc
  <1>7. NextHlc(d) \in Stamp /\ NextHlc(d)[3] = d /\ Before(top, NextHlc(d))
    BY <1>4, <1>5, <1>6 DEF Stamp, Before
  <1>8. \A b \in C : Before(b, NextHlc(d))
    <2>1. ASSUME NEW b \in C PROVE Before(b, NextHlc(d))
      <3>1. b \in Clock /\ NextHlc(d) \in Clock /\ NotAfter(b, top)
        BY <1>1, <1>3, <1>7, StampIsClock
      <3>2. NotAfter(top, NextHlc(d)) /\ ~NotAfter(NextHlc(d), top)
        BY <1>4, <1>7, <3>1, ClockOrder DEF NotAfter
      <3>3. NotAfter(b, NextHlc(d)) /\ b # NextHlc(d)
        BY <1>4, <3>1, <3>2, ClockTransitive
      <3>4. QED
        BY <3>3 DEF NotAfter
    <2>2. QED
      BY <2>1
  <1>9. /\ op \in ClusterOp /\ op.hlc = NextHlc(d)
        /\ op.observed \subseteq state[d].adds[op.target]
    <2>1. PICK e \in Elem :
             \/ op = [kind |-> "add", target |-> e, hlc |-> NextHlc(d), observed |-> {}, val |-> 0]
             \/ op = [kind |-> "lww", target |-> e, hlc |-> NextHlc(d), observed |-> {}, val |-> d]
             \/ op = [kind |-> "delete", target |-> e, hlc |-> NextHlc(d), observed |-> {},
                      val |-> IF IsDeleted(state[d], e) THEN 0 ELSE 1]
             \/ op = [kind |-> "remove", target |-> e, hlc |-> NextHlc(d),
                      observed |-> state[d].adds[e] \ state[d].tombs[e], val |-> 0]
      BY DEF NewOps
    <2>2. state[d].adds[e] \subseteq Stamp
      BY DEF Types, State
    <2>3. QED
      BY <2>1, <2>2, <1>4, <1>7 DEF ClusterOp, OpKind
  <1>10. ASSUME NEW o \in Written, o.hlc = op.hlc PROVE FALSE
    <2>1. o \in applied[d]
      BY <1>7, <1>9, <1>10 DEF OpsInv
    <2>2. Before(o.hlc, o.hlc) /\ o.hlc \in Clock
      BY <2>1, <1>1, <1>8, <1>9, <1>10
    <2>3. QED
      BY <2>2, ClockOrder DEF NotAfter
  <1>11. \A o \in applied[d] : NotAfter(o.hlc, op.hlc)
    BY <1>8, <1>9 DEF NotAfter
  <1>12. QED
    BY <1>7, <1>9, <1>10, <1>11

\* Seen from one replica, a step writes an op, takes in a frame, merges, or collects.
LEMMA ReplicaStep ==
    ASSUME Types, OpsInv, [Next]_vars
    PROVE  \/ \E d \in Device : \E op \in NewOps(d) : Ingest(d, op)
           \/ Written' = Written /\ \A d \in Device : Same(d) \/ Took(d) \/ Merged(d) \/ Pruned(d)
  <1>1. CASE UNCHANGED <<state, applied>>
    BY <1>1 DEF Same, Written
  <1>2. CASE \E d \in Device : \E op \in NewOps(d) : Ingest(d, op)
    BY <1>2
  <1>3. CASE \E d \in Device : Gc(d)
    <2>1. PICK x \in Device : Gc(x)
      BY <1>3
    <2>2. /\ applied' = applied /\ Collects /\ StabilityCut(x) # Zero
          /\ state' = [state EXCEPT ![x] = PruneStable(@, StabilityCut(x))]
      BY <2>1 DEF Gc
    <2>3. ASSUME NEW d \in Device PROVE Same(d) \/ Pruned(d)
      BY <2>2 DEF Same, Pruned, Types
    <2>4. QED
      BY <2>2, <2>3 DEF Written
  <1>4. ASSUME NEW x \in Device, NEW p \in Device, NEW S \in SUBSET applied[p],
               NEW damaged \in BOOLEAN, ApplyOps(x, p, S, damaged)
        PROVE  Written' = Written /\ \A d \in Device : Same(d) \/ Took(d)
    <2> DEFINE ops == S \cup (IF damaged THEN {Malformed} ELSE {})
               ok == {op \in ops : Validates(op, now[x])}
    <2>1. /\ AcceptsFrame(x, p, ops)
          /\ state' = [state EXCEPT ![x] = ApplyAll(ok, @)]
          /\ applied' = [applied EXCEPT ![x] = @ \cup ops]
      BY <1>4 DEF ApplyOps
    <2>2. ops = S
      BY <2>1 DEF AcceptsFrame, Validates, Malformed, OpKind
    <2>3. ok = S /\ p \in View[x]
      BY <2>1, <2>2 DEF AcceptsFrame, Authorizes
    <2>4. IsFiniteSet(S)
      BY AppliedFinite
    <2>5. Took(x)
      BY <2>1, <2>2, <2>3, <2>4 DEF Took, Types
    <2>6. \A d \in Device \ {x} : Same(d)
      BY <2>1 DEF Same, Types
    <2>7. Written' = Written
      <3>1. \A d \in Device : applied'[d] = IF d = x THEN applied[d] \cup S ELSE applied[d]
        BY <2>1, <2>2 DEF Types
      <3>2. QED
        BY <3>1 DEF Written
    <2>8. QED
      BY <2>5, <2>6, <2>7
  <1>5. ASSUME NEW x \in Device, NEW p \in Device, BackfillFrom(x, p)
        PROVE  Written' = Written /\ \A d \in Device : Same(d) \/ Merged(d)
    <2>1. /\ x # p /\ p \in View[x] /\ x \in View[p]
          /\ applied' = [applied EXCEPT ![x] = @ \cup applied[p], ![p] = @ \cup applied[x]]
          /\ state' = [state EXCEPT ![x] = Merge(state[x], state[p]),
                                    ![p] = Merge(state[p], Merge(state[x], state[p]))]
      BY <1>5 DEF BackfillFrom, MergeBoth, Authorizes
    <2>2. \A d \in Device : applied'[d] = IF d = x THEN applied[x] \cup applied[p]
                                          ELSE IF d = p THEN applied[p] \cup applied[x] ELSE applied[d]
      BY <2>1 DEF Types
    <2>3. \A d \in Device : state'[d] = IF d = x THEN Merge(state[x], state[p])
                                        ELSE IF d = p THEN Merge(state[p], Merge(state[x], state[p]))
                                        ELSE state[d]
      BY <2>1 DEF Types
    <2>4. Merged(x) /\ Merged(p)
      BY <2>1, <2>2, <2>3 DEF Merged
    <2>5. \A d \in Device \ {x, p} : Same(d)
      BY <2>2, <2>3 DEF Same
    <2>6. Written' = Written
      BY <2>2 DEF Written
    <2>7. QED
      BY <2>4, <2>5, <2>6
  <1>6. CASE Next
    <2>1. \/ UNCHANGED <<state, applied>>
          \/ \E d \in Device : \E op \in NewOps(d) : Ingest(d, op)
          \/ \E d \in Device : Gc(d)
          \/ \E d, p \in Device : BackfillFrom(d, p)
          \/ \E d, p \in Device : \E S \in SUBSET applied[p], damaged \in BOOLEAN : ApplyOps(d, p, S, damaged)
      BY <1>6 DEF Next, PutObject, Announce, StabilityFrame, Tick, BackfillViaJournal, OnAnnounce,
                  ServeFetch, AcceptObject, IngestStability
    <2>2. QED
      BY <2>1, <1>1, <1>2, <1>3, <1>4, <1>5
  <1>7. QED
    BY <1>1, <1>6 DEF vars

\* state and applied keep a value for each device.
LEMMA ShapeStep ==
    ASSUME Types, [Next]_vars
    PROVE  state' = [d \in Device |-> state'[d]] /\ applied' = [d \in Device |-> applied'[d]]
  <1> DEFINE Updated(f, g) ==
               \/ g = f
               \/ \E x \in Device : \E v : g = [f EXCEPT ![x] = v]
               \/ \E x, y \in Device : \E v, w : g = [f EXCEPT ![x] = v, ![y] = w]
  <1>1. ASSUME NEW x \in Device, NEW op, Ingest(x, op) PROVE Updated(state, state') /\ Updated(applied, applied')
    BY <1>1 DEF Ingest
  <1>2. ASSUME NEW x \in Device, Gc(x) PROVE Updated(state, state') /\ Updated(applied, applied')
    BY <1>2 DEF Gc
  <1>3. ASSUME NEW x \in Device, NEW p \in Device, NEW S, NEW b, ApplyOps(x, p, S, b)
        PROVE  Updated(state, state') /\ Updated(applied, applied')
    BY <1>3 DEF ApplyOps
  <1>4. ASSUME NEW x \in Device, NEW p \in Device, BackfillFrom(x, p)
        PROVE  Updated(state, state') /\ Updated(applied, applied')
    BY <1>4 DEF BackfillFrom, MergeBoth
  <1>5. Updated(state, state') /\ Updated(applied, applied')
    <2>1. CASE UNCHANGED <<state, applied>>
      BY <2>1
    <2>2. CASE Next
      <3>1. \/ UNCHANGED <<state, applied>>
            \/ \E d \in Device : \E op \in NewOps(d) : Ingest(d, op)
            \/ \E d \in Device : Gc(d)
            \/ \E d, p \in Device : BackfillFrom(d, p)
            \/ \E d, p \in Device : \E S \in SUBSET applied[p], damaged \in BOOLEAN : ApplyOps(d, p, S, damaged)
        BY <2>2, ZenonT(40) DEF Next, PutObject, Announce, StabilityFrame, Tick, BackfillViaJournal, OnAnnounce,
                    ServeFetch, AcceptObject, IngestStability
      <3> HIDE DEF Updated
      <3>2. QED
        BY <3>1, <2>1, <1>1, <1>2, <1>3, <1>4
    <2>3. QED
      BY <2>1, <2>2 DEF vars
  <1>6. ASSUME NEW f, NEW g, f = [d \in Device |-> f[d]], Updated(f, g) PROVE g = [d \in Device |-> g[d]]
    BY <1>6
  <1>7. state = [d \in Device |-> state[d]] /\ applied = [d \in Device |-> applied[d]]
    BY DEF Types
  <1> HIDE DEF Updated
  <1>8. QED
    BY <1>5, <1>6, <1>7

LEMMA StateWithin == ASSUME NEW s \in State PROVE Within(s, Stamp)
  BY DEF State, Cell, Within

LEMMA ApplyAllType ==
    ASSUME NEW s \in State, NEW S \in SUBSET ClusterOp, IsFiniteSet(S)
    PROVE  ApplyAll(S, s) \in State
  BY FoldType

\* What a replica holds after a step that writes nothing comes from what some held before.
LEMMA ReplicaType ==
    ASSUME Types, NEW d \in Device, Same(d) \/ Took(d) \/ Merged(d) \/ Pruned(d)
    PROVE  state'[d] \in State /\ applied'[d] \in SUBSET ClusterOp
  <1>0. \A x \in Device : state[x] \in State /\ applied[x] \in SUBSET ClusterOp
    BY DEF Types
  <1>1. CASE Same(d)
    BY <1>0, <1>1 DEF Same
  <1>2. CASE Took(d)
    <2>1. PICK p \in Device : \E S \in SUBSET applied[p] :
             /\ IsFiniteSet(S)
             /\ state'[d] = ApplyAll(S, state[d]) /\ applied'[d] = applied[d] \cup S
      BY <1>2 DEF Took
    <2>2. PICK S \in SUBSET applied[p] :
             /\ IsFiniteSet(S)
             /\ state'[d] = ApplyAll(S, state[d]) /\ applied'[d] = applied[d] \cup S
      BY <2>1
    <2>3. S \in SUBSET ClusterOp
      BY <1>0
    <2>4. QED
      BY <1>0, <2>2, <2>3, ApplyAllType
  <1>3. CASE Merged(d)
    <2>1. PICK p \in Device :
             /\ applied'[d] = applied[d] \cup applied[p]
             /\ state'[d] \in {Merge(state[d], state[p]), Merge(state[d], Merge(state[p], state[d]))}
      BY <1>3 DEF Merged
    <2>2. Merge(state[d], state[p]) \in State /\ Merge(state[p], state[d]) \in State
      BY <1>0, MergeType
    <2>3. Merge(state[d], Merge(state[p], state[d])) \in State
      BY <1>0, <2>2, MergeType
    <2>4. QED
      BY <1>0, <2>1, <2>2, <2>3
  <1>4. CASE Pruned(d)
    BY <1>0, <1>4, PruneType DEF Pruned
  <1>5. QED
    BY <1>1, <1>2, <1>3, <1>4

\* Whatever H holds the stamps of what a step takes in holds those of its result.
LEMMA ReplicaWithin ==
    ASSUME Types, NEW d \in Device, Same(d) \/ Took(d) \/ Merged(d) \/ Pruned(d), NEW H,
           Within(state[d], H), \A op \in applied'[d] : OpWithin(op, H),
           \A p \in Device : p \in View[d] /\ d \in View[p] /\ applied[p] \subseteq applied'[d]
                              => Within(state[p], H)
    PROVE  Within(state'[d], H)
  <1>0. \A x \in Device : state[x] \in State /\ applied[x] \in SUBSET ClusterOp
    BY DEF Types
  <1>1. CASE Same(d)
    BY <1>1 DEF Same
  <1>2. CASE Took(d)
    <2>1. PICK p \in Device : \E S \in SUBSET applied[p] :
             /\ IsFiniteSet(S)
             /\ state'[d] = ApplyAll(S, state[d]) /\ applied'[d] = applied[d] \cup S
      BY <1>2 DEF Took
    <2>2. PICK S \in SUBSET applied[p] :
             /\ IsFiniteSet(S)
             /\ state'[d] = ApplyAll(S, state[d]) /\ applied'[d] = applied[d] \cup S
      BY <2>1
    <2>3. S \in SUBSET ClusterOp /\ \A op \in S : OpWithin(op, H)
      BY <1>0, <2>2
    <2>4. QED
      BY <1>0, <2>2, <2>3, FoldType
  <1>3. CASE Merged(d)
    <2>1. PICK p \in Device :
             /\ p \in View[d] /\ d \in View[p] /\ applied'[d] = applied[d] \cup applied[p]
             /\ state'[d] \in {Merge(state[d], state[p]), Merge(state[d], Merge(state[p], state[d]))}
      BY <1>3 DEF Merged
    <2>2. /\ Merge(state[d], state[p]) \in State /\ Merge(state[p], state[d]) \in State
          /\ Within(Merge(state[d], state[p]), H) /\ Within(Merge(state[p], state[d]), H)
      BY <1>0, <2>1, MergeType
    <2>3. Within(Merge(state[d], Merge(state[p], state[d])), H)
      BY <1>0, <2>2, MergeType
    <2>4. QED
      BY <2>1, <2>2, <2>3
  <1>4. CASE Pruned(d)
    BY <1>0, <1>4, PruneType DEF Pruned
  <1>5. QED
    BY <1>1, <1>2, <1>3, <1>4

LEMMA InitInv == Init => Types /\ OpsInv
  <1> SUFFICES ASSUME Init PROVE Types /\ OpsInv
    OBVIOUS
  <1>1. Written = {}
    BY DEF Init, Written
  <1>2. OpsInv
    <2>1. IsFiniteSet(Written)
      BY <1>1, FS_EmptySet
    <2>2. \A d \in Device : Within(state[d], Clocks)
      BY EmptyStateType DEF Init
    <2>3. QED
      BY <1>1, <2>1, <2>2 DEF OpsInv
  <1>3. state \in [Device -> State]
    BY EmptyStateType DEF Init
  <1>4. Types
    BY <1>3, ClusterAssumption DEF Init, Types
  <1>5. QED
    BY <1>2, <1>4

\* The ops and states of a step.
LEMMA OpsStep ==
    ASSUME Types, OpsInv, [Next]_vars
    PROVE  /\ OpsInv'
           /\ state' \in [Device -> State] /\ applied' \in [Device -> SUBSET ClusterOp]
  <1>0. \A x \in Device : state[x] \in State /\ applied[x] \in SUBSET ClusterOp
    BY DEF Types
  <1>1. CASE \E d \in Device : \E op \in NewOps(d) : Ingest(d, op)
    <2>1. PICK d \in Device : \E op \in NewOps(d) : Ingest(d, op)
      BY <1>1
    <2>2. PICK op \in NewOps(d) : Ingest(d, op)
      BY <2>1
    <2>3. /\ state' = [state EXCEPT ![d] = ApplyOp(op, @)]
          /\ applied' = [applied EXCEPT ![d] = @ \cup {op}]
      BY <2>2 DEF Ingest
    <2>4. /\ op \in ClusterOp /\ op.hlc[3] = d
          /\ op.observed \subseteq state[d].adds[op.target]
          /\ \A o \in Written : o.hlc # op.hlc
      BY NewOp
    <2>5. op.target \in Elem
      BY <2>4 DEF ClusterOp
    <2>6. /\ state'[d] = ApplyOp(op, state[d]) /\ applied'[d] = applied[d] \cup {op}
          /\ \A x \in Device \ {d} : state'[x] = state[x] /\ applied'[x] = applied[x]
          /\ state' \in [Device -> State] /\ applied' \in [Device -> SUBSET ClusterOp]
      BY <1>0, <2>3, <2>4, ApplyOpType DEF Types
    <2>7. Written' = Written \cup {op}
      BY <2>6 DEF Written
    <2>8. Clocks' = Clocks \cup {op.hlc}
      BY <2>7 DEF Clocks
    <2>9. IsFiniteSet(Written')
      BY <2>7, FS_AddElement DEF OpsInv
    <2>10. OpWithin(op, Clocks')
      BY <2>4, <2>5, <2>8 DEF OpsInv, Within, OpWithin
    <2>11. \A x \in Device : Within(state[x], Clocks')
      BY <2>8 DEF OpsInv, Within
    <2>12. \A x \in Device : Within(state'[x], Clocks')
      BY <1>0, <2>4, <2>6, <2>10, <2>11, ApplyOpType
    <2>13. \A o \in Written' : o \in applied'[o.hlc[3]] /\ o.observed \subseteq Clocks'
      <3>1. ASSUME NEW o \in Written PROVE o \in applied'[o.hlc[3]] /\ o.observed \subseteq Clocks'
        <4>1. o \in applied[o.hlc[3]] /\ o.observed \subseteq Clocks
          BY DEF OpsInv
        <4>2. o.hlc[3] \in Device
          <5>1. o \in ClusterOp
            BY <1>0 DEF Written
          <5>2. QED
            BY <5>1, StampIsClock DEF ClusterOp
        <4>3. QED
          BY <4>1, <4>2, <2>6, <2>8
      <3>2. QED
        BY <3>1, <2>4, <2>6, <2>7, <2>10 DEF OpWithin
    <2>14. \A o, p \in Written' : o.hlc = p.hlc => o = p
      BY <2>4, <2>7 DEF OpsInv
    <2>15. QED
      BY <2>6, <2>9, <2>12, <2>13, <2>14 DEF OpsInv
  <1>2. CASE Written' = Written /\ \A d \in Device : Same(d) \/ Took(d) \/ Merged(d) \/ Pruned(d)
    <2>1. \A d \in Device : state'[d] \in State /\ applied'[d] \in SUBSET ClusterOp
      BY <1>2, ReplicaType
    <2>2. state' = [d \in Device |-> state'[d]] /\ applied' = [d \in Device |-> applied'[d]]
      BY ShapeStep
    <2>3. Clocks' = Clocks
      BY <1>2 DEF Clocks
    <2>4. \A d \in Device : Within(state'[d], Clocks)
      <3>1. \A p \in Device : \A op \in applied'[p] : OpWithin(op, Clocks)
        BY <1>2 DEF OpsInv, OpWithin, Clocks, Written
      <3>2. QED
        BY <1>2, <3>1, ReplicaWithin DEF OpsInv
    <2>5. \A o \in Written : o \in applied'[o.hlc[3]]
      <3>1. ASSUME NEW o \in Written PROVE o \in applied'[o.hlc[3]]
        <4>1. o \in applied[o.hlc[3]]
          BY DEF OpsInv
        <4>2. o.hlc[3] \in Device
          <5>1. o \in ClusterOp
            BY <1>0 DEF Written
          <5>2. QED
            BY <5>1, StampIsClock DEF ClusterOp
        <4>3. applied[o.hlc[3]] \subseteq applied'[o.hlc[3]]
          BY <1>2, <4>2 DEF Same, Took, Merged, Pruned
        <4>4. QED
          BY <4>1, <4>3
      <3>2. QED
        BY <3>1
    <2>6. OpsInv'
      BY <1>2, <2>3, <2>4, <2>5 DEF OpsInv
    <2>7. QED
      BY <2>1, <2>2, <2>6
  <1>3. QED
    BY <1>1, <1>2, ReplicaStep

LEMMA PairFinite == \A a, b : IsFiniteSet({a, b})
  <1> SUFFICES ASSUME NEW a, NEW b PROVE IsFiniteSet({a, b})
    OBVIOUS
  <1>1. IsFiniteSet({} \cup {a})
    BY FS_EmptySet, FS_AddElement
  <1>2. IsFiniteSet(({} \cup {a}) \cup {b})
    BY <1>1, FS_AddElement
  <1>3. ({} \cup {a}) \cup {b} = {a, b}
    OBVIOUS
  <1>4. QED
    BY <1>2, <1>3

LEMMA LaterOfTwo ==
    ASSUME NEW a \in Clock, NEW b \in Clock PROVE Latest({a, b}) \in {a, b, Zero}
  <1>1. {a, b} \in SUBSET Clock /\ IsFiniteSet({a, b})
    BY PairFinite
  <1>2. QED
    BY <1>1, LatestIsLast

LEMMA MaxHlcType ==
    ASSUME Types, OpsInv, NEW d \in Device PROVE MaxHlc(state[d]) \in Stamp \cup {Zero}
  <1>1. state[d] \in State /\ Stamps(state[d]) \subseteq Stamp
    BY StateWithin, StampsWithin DEF Types
  <1>2. IsFiniteSet(Stamps(state[d]))
    <2>1. Stamps(state[d]) \subseteq Clocks
      BY <1>1, StampsWithin DEF OpsInv
    <2>2. QED
      BY <2>1, ClocksFinite
  <1>3. QED
    BY <1>1, <1>2, LatestIsLast, StampIsClock DEF MaxHlc

LEMMA TypesStep ==
    ASSUME Types, OpsInv, [Next]_vars
    PROVE  Types'
  <1>1. state' \in [Device -> State] /\ applied' \in [Device -> SUBSET ClusterOp]
    BY OpsStep
  <1> DEFINE Frames == [type : {"announce", "fetch", "serve"}, from : Device, ids : SUBSET Object]
                       \cup [type : {"stability"}, from : Device, marks : [Device -> Stamp \cup {Zero}]]
             Rest == /\ now \in [Device -> 1..MaxNow]
                     /\ objects \in [Device -> SUBSET Object] /\ journal \in [Device -> SUBSET Object]
                     /\ stability \in [Device -> [Device -> Stamp \cup {Zero}]]
                     /\ lastSeen \in [Device -> [Device -> {NeverSeen} \cup 1..MaxNow]]
                     /\ net \subseteq Frames
  <1>2. Rest
    BY DEF Types
  <1>3. ASSUME NEW d \in Device, NEW op \in NewOps(d), Ingest(d, op) PROVE Rest'
    BY <1>2, <1>3 DEF Ingest
  <1>4. ASSUME NEW d \in Device, NEW id \in Object, PutObject(d, id) PROVE Rest'
    BY <1>2, <1>4 DEF PutObject
  <1>5. ASSUME NEW d \in Device, Announce(d) PROVE Rest'
    <2>1. [type |-> "announce", from |-> d, ids |-> objects[d]] \in Frames
      BY <1>2
    <2>2. QED
      BY <1>2, <1>5, <2>1 DEF Announce
  <1>6. ASSUME NEW d \in Device, NEW relayed, StabilityFrame(d, relayed) PROVE Rest'
    <2>1. Marks(d, relayed) \in [Device -> Stamp \cup {Zero}]
      BY <1>2, MaxHlcType DEF Marks
    <2>2. [type |-> "stability", from |-> d, marks |-> Marks(d, relayed)] \in Frames
      BY <2>1
    <2>3. QED
      BY <1>2, <1>6, <2>2 DEF StabilityFrame
  <1>7. ASSUME NEW d \in Device, Gc(d) PROVE Rest'
    BY <1>2, <1>7 DEF Gc
  <1>8. ASSUME NEW d \in Device, Tick(d) PROVE Rest'
    BY <1>2, <1>8, ClusterAssumption DEF Tick
  <1>9. ASSUME NEW d \in Device, NEW p \in Device, NEW S, NEW b, ApplyOps(d, p, S, b) PROVE Rest'
    BY <1>2, <1>9 DEF ApplyOps
  <1>10. ASSUME NEW d \in Device, NEW p \in Device, BackfillFrom(d, p) PROVE Rest'
    BY <1>2, <1>10 DEF BackfillFrom, Accepted
  <1>11. ASSUME NEW d \in Device, NEW p \in Device, BackfillViaJournal(d, p) PROVE Rest'
    BY <1>2, <1>11 DEF BackfillViaJournal, Accepted, Replayed
  <1>12. ASSUME NEW d \in Device, NEW f \in net, OnAnnounce(d, f) PROVE Rest'
    <2>1. f \in Frames /\ f.type = "announce"
      BY <1>2, <1>12 DEF OnAnnounce
    <2>2. [type |-> "fetch", from |-> d, ids |-> f.ids \ objects[d]] \in Frames
      BY <2>1
    <2>3. QED
      BY <1>2, <1>12, <2>2 DEF OnAnnounce
  <1>13. ASSUME NEW d \in Device, NEW f \in net, ServeFetch(d, f) PROVE Rest'
    <2>1. [type |-> "serve", from |-> d, ids |-> f.ids \cap objects[d]] \in Frames
      BY <1>2
    <2>2. QED
      BY <1>2, <1>13, <2>1 DEF ServeFetch
  <1>14. ASSUME NEW d \in Device, NEW f \in net, NEW id \in Object, AcceptObject(d, f, id) PROVE Rest'
    BY <1>2, <1>14 DEF AcceptObject, Accepted
  <1>15. ASSUME NEW d \in Device, NEW f \in net, IngestStability(d, f) PROVE Rest'
    <2>1. f \in Frames /\ f.type = "stability"
      BY <1>2, <1>15 DEF IngestStability
    <2>2. f.from \in Device /\ f.marks \in [Device -> Stamp \cup {Zero}]
      BY <2>1
    <2> DEFINE new == [m \in Device |-> Latest({stability[d][m], f.marks[m]})]
    <2>3. new \in [Device -> Stamp \cup {Zero}]
      <3> SUFFICES ASSUME NEW m \in Device PROVE Latest({stability[d][m], f.marks[m]}) \in Stamp \cup {Zero}
        OBVIOUS
      <3>1. {stability[d][m], f.marks[m]} \subseteq Stamp \cup {Zero}
        BY <1>2, <2>2
      <3>2. QED
        BY <3>1, StampIsClock, LaterOfTwo
    <2>4. now[d] \in 1..MaxNow
      BY <1>2
    <2>5. stability' = [stability EXCEPT ![d] = new]
      BY <1>15 DEF IngestStability
    <2> HIDE DEF new
    <2>6. stability' \in [Device -> [Device -> Stamp \cup {Zero}]]
      BY <1>2, <2>3, <2>5
    <2>7. QED
      BY <1>2, <1>15, <2>2, <2>4, <2>6 DEF IngestStability
  <1>16. ASSUME UNCHANGED vars PROVE Rest'
    <2>1. /\ now' = now /\ objects' = objects /\ journal' = journal /\ stability' = stability
          /\ lastSeen' = lastSeen /\ net' = net
      BY <1>16 DEF vars
    <2>2. QED
      BY <1>2, <2>1
  <1>17. Rest'
    <2> HIDE DEF Rest
    <2>1. CASE Next
      <3>1. ASSUME NEW d \in Device,
                   \/ \E op \in NewOps(d) : Ingest(d, op)
                   \/ \E id \in Object : PutObject(d, id)
                   \/ Announce(d)
                   \/ \E relayed : StabilityFrame(d, relayed)
                   \/ Gc(d)
                   \/ Tick(d)
            PROVE  Rest'
        BY <3>1, <1>3, <1>4, <1>5, <1>6, <1>7, <1>8
      <3>2. ASSUME NEW d \in Device, NEW p \in Device,
                   \/ \E S \in {S \in SUBSET applied[p] : Cardinality(S) \in 1..MaxFrame},
                        damaged \in BOOLEAN : ApplyOps(d, p, S, damaged)
                   \/ BackfillFrom(d, p)
                   \/ Object # {} /\ BackfillViaJournal(d, p)
            PROVE  Rest'
        BY <3>2, <1>9, <1>10, <1>11
      <3>3. ASSUME NEW d \in Device, NEW f \in net,
                   \/ OnAnnounce(d, f)
                   \/ ServeFetch(d, f)
                   \/ \E id \in Object : AcceptObject(d, f, id)
                   \/ IngestStability(d, f)
            PROVE  Rest'
        BY <3>3, <1>12, <1>13, <1>14, <1>15
      <3>4. QED
        BY <2>1, <3>1, <3>2, <3>3, Zenon DEF Next
    <2>2. QED
      BY <2>1, <1>16 DEF vars
  <1>18. QED
    BY <1>1, <1>17 DEF Types

LEMMA Invariant == Spec => [](Types /\ OpsInv)
  <1>1. Init => Types /\ OpsInv
    BY InitInv
  <1>2. Types /\ OpsInv /\ [Next]_vars => Types' /\ OpsInv'
    BY TypesStep, OpsStep
  <1>3. QED
    BY <1>1, <1>2, PTL DEF Spec

\* Every replica holds well-formed stamps, marks, frames and records, whatever it took in
\* and in whatever order (cluster.rs, crdt.rs).
THEOREM ClusterTypes == Spec => []TypeOK
  <1>1. ASSUME Types, OpsInv PROVE TypeOK
    <2>1. \A d \in Device : Stamps(state[d]) \subseteq Stamp
      BY <1>1, StateWithin, StampsWithin DEF Types
    <2>2. \A op \in Written : op.kind \in OpKind
      BY <1>1 DEF Types, Written, ClusterOp
    <2>3. net \subseteq Frame
      <3>1. Stamp \cup {Zero} \subseteq Nat \X Nat \X Nat
        <4>1. Stamp \subseteq Nat \X Nat \X Nat
          <5>1. Device \subseteq Nat
            BY ClusterAssumption
          <5>2. QED
            BY <5>1 DEF Stamp
        <4>2. Zero \in Nat \X Nat \X Nat
          BY DEF Zero
        <4>3. QED
          BY <4>1, <4>2
      <3>2. \A F \in [Device -> Stamp \cup {Zero}] : F \in [Device -> Nat \X Nat \X Nat]
        BY <3>1
      <3>3. QED
        BY <1>1, <3>2 DEF Types, Frame
    <2>4. \A d, m \in Device : stability[d][m] \in Nat \X Nat \X (Device \cup {0})
      <3>1. \A t \in Stamp \cup {Zero} : t \in Nat \X Nat \X (Device \cup {0})
        BY DEF Stamp, Zero
      <3>2. QED
        BY <1>1, <3>1 DEF Types
    <2>5. QED
      BY <1>1, <2>1, <2>2, <2>3, <2>4 DEF Types, TypeOK, Stamp
  <1>2. QED
    BY <1>1, Invariant, PTL

\* A member that replays another's journal gets every object that member holds: none is
\* stored past the journal, on any way in (cluster.rs put_object, accept_object, backfill).
THEOREM JournalsReplayAll == Spec => []JournalReplayComplete
  <1> DEFINE Recorded == \A d \in Device : objects[d] \subseteq journal[d]
  <1>1. Init => Recorded
    BY DEF Init
  <1>2. ASSUME Types, Recorded, [Next]_vars PROVE Recorded'
    <2>1. ASSUME NEW d \in Device, NEW id \in Object, PutObject(d, id) PROVE Recorded'
      BY <1>2, <2>1 DEF PutObject, Types
    <2>2. ASSUME NEW d \in Device, NEW p \in Device, BackfillFrom(d, p) PROVE Recorded'
      BY <1>2, <2>2 DEF BackfillFrom, Accepted, Types
    <2>3. ASSUME NEW d \in Device, NEW p \in Device, BackfillViaJournal(d, p) PROVE Recorded'
      BY <1>2, <2>3 DEF BackfillViaJournal, Accepted, Types
    <2>4. ASSUME NEW d \in Device, NEW f \in net, NEW id \in Object, AcceptObject(d, f, id) PROVE Recorded'
      BY <1>2, <2>4 DEF AcceptObject, Accepted, Types
    <2>5. CASE UNCHANGED <<objects, journal>>
      BY <1>2, <2>5
    <2>6. QED
      BY <1>2, <2>1, <2>2, <2>3, <2>4, <2>5 DEF Next, vars, Ingest, Announce, StabilityFrame, Gc, Tick,
         ApplyOps, OnAnnounce, ServeFetch, IngestStability
  <1>3. Recorded => JournalReplayComplete
    BY DEF JournalReplayComplete, Replayed
  <1> HIDE DEF Recorded
  <1>4. QED
    BY <1>1, <1>2, <1>3, Invariant, PTL DEF Spec

-----------------------------------------------------------------------------
(* A device outside every other's view.                                    *)

NotBy(r) == {t \in Clock : t[3] # r}

\* What members' owners put.
Allowed == UNION {Puts[m] : m \in Device \ Outsiders}

\* No trace of an outsider, in what a state holds, an op cites or a member tells of others.
OutInv ==
    /\ \A r \in Outsiders, d \in Device \ Outsiders :
        /\ \A op \in applied[d] : OpWithin(op, NotBy(r))
        /\ Within(state[d], NotBy(r))
        /\ stability[d][r] = Zero /\ lastSeen[d][r] = NeverSeen
    /\ \A r \in Outsiders, f \in net :
        f.type = "stability" /\ f.from \notin Outsiders => f.marks[r] = Zero

\* What members hold and serve is what members put.
HeldInv ==
    /\ \A d \in Device \ Outsiders : objects[d] \subseteq Allowed /\ journal[d] \subseteq Allowed
    /\ \A f \in net : f.type = "serve" /\ f.from \notin Outsiders => f.ids \subseteq Allowed

LEMMA PeerIsNoOutsider ==
    ASSUME NEW d \in Device \ Outsiders, NEW p \in Device, p \in View[d]
    PROVE  p \notin Outsiders
  BY DEF Outsiders

LEMMA OutMarks ==
    ASSUME Types, OpsInv, OutInv, [Next]_vars
    PROVE  \A r \in Outsiders, f \in net' :
               f.type = "stability" /\ f.from \notin Outsiders => f.marks[r] = Zero
  <1> SUFFICES ASSUME NEW r \in Outsiders, NEW f \in net', f.type = "stability", f.from \notin Outsiders
               PROVE  f.marks[r] = Zero
    OBVIOUS
  <1>1. CASE f \in net
    BY <1>1 DEF OutInv
  <1>2. ASSUME NEW d \in Device, NEW relayed, StabilityFrame(d, relayed), f \notin net PROVE f.marks[r] = Zero
    <2>1. f = [type |-> "stability", from |-> d, marks |-> Marks(d, relayed)]
      BY <1>2 DEF StabilityFrame
    <2>2. f.from = d /\ f.marks = Marks(d, relayed) /\ r \in Device
      BY <2>1 DEF Outsiders
    <2>3. r # d /\ stability[d][r] = Zero
      BY <2>2 DEF OutInv
    <2>4. QED
      BY <2>2, <2>3 DEF Marks
  <1>3. f \in net \/ \E d \in Device : \E relayed : StabilityFrame(d, relayed)
    <2>1. \/ UNCHANGED net \/ \E d \in Device : (\E relayed : StabilityFrame(d, relayed)) \/ Announce(d)
          \/ \E d \in Device : \E g \in net : OnAnnounce(d, g) \/ ServeFetch(d, g)
      BY DEF Next, vars, Ingest, PutObject, Gc, Tick, ApplyOps,
             BackfillFrom, BackfillViaJournal, AcceptObject, IngestStability
    <2>2. ASSUME NEW d \in Device, Announce(d) PROVE f \in net
      BY <2>2 DEF Announce
    <2>3. ASSUME NEW d \in Device, NEW g \in net, OnAnnounce(d, g) \/ ServeFetch(d, g) PROVE f \in net
      BY <2>3 DEF OnAnnounce, ServeFetch
    <2>4. QED
      BY <2>1, <2>2, <2>3
  <1>4. QED
    BY <1>1, <1>2, <1>3

LEMMA HeldStep ==
    ASSUME Types, HeldInv, [Next]_vars
    PROVE  HeldInv'
  <1>0. /\ \A d \in Device \ Outsiders : Puts[d] \subseteq Allowed
        /\ \A d \in Device \ Outsiders : \A p \in Device : p \in View[d] => p \in Device \ Outsiders
        /\ \A f \in net : f.from \in Device
    BY PeerIsNoOutsider DEF Allowed, Types
  <1>1. ASSUME NEW x \in Device, NEW id \in Object, PutObject(x, id) PROVE HeldInv'
    BY <1>0, <1>1 DEF PutObject, HeldInv, Types, Outsiders, Allowed
  <1>2. ASSUME NEW x \in Device, NEW p \in Device, BackfillFrom(x, p) PROVE HeldInv'
    <2>1. \A d \in Device \ Outsiders : objects'[d] \subseteq Allowed /\ journal'[d] \subseteq Allowed
      BY <1>0, <1>2 DEF BackfillFrom, Authorizes, Accepted, HeldInv, Types
    <2>2. QED
      BY <1>2, <2>1 DEF BackfillFrom, HeldInv, Outsiders, Allowed
  <1>3. ASSUME NEW x \in Device, NEW p \in Device, BackfillViaJournal(x, p) PROVE HeldInv'
    <2>1. \A d \in Device \ Outsiders : objects'[d] \subseteq Allowed /\ journal'[d] \subseteq Allowed
      BY <1>0, <1>3 DEF BackfillViaJournal, Authorizes, Accepted, Replayed, HeldInv, Types
    <2>2. QED
      BY <1>3, <2>1 DEF BackfillViaJournal, HeldInv, Outsiders, Allowed
  <1>4. ASSUME NEW x \in Device, NEW f \in net, NEW id \in Object, AcceptObject(x, f, id) PROVE HeldInv'
    <2>1. x \notin Outsiders => id \in Allowed
      BY <1>0, <1>4 DEF AcceptObject, HeldInv
    <2>2. \A d \in Device \ Outsiders : objects'[d] \subseteq Allowed /\ journal'[d] \subseteq Allowed
      BY <1>4, <2>1 DEF AcceptObject, Accepted, HeldInv, Types
    <2>3. QED
      BY <1>4, <2>2 DEF AcceptObject, HeldInv, Outsiders, Allowed
  <1>5. CASE UNCHANGED <<objects, journal>>
    <2> SUFFICES \A f \in net' : f.type = "serve" /\ f.from \notin Outsiders => f.ids \subseteq Allowed
      BY <1>5 DEF HeldInv, Outsiders, Allowed
    <2> SUFFICES ASSUME NEW f \in net', f.type = "serve", f.from \notin Outsiders PROVE f.ids \subseteq Allowed
      OBVIOUS
    <2>1. CASE f \in net
      BY <2>1 DEF HeldInv
    <2>2. ASSUME NEW d \in Device, NEW g \in net, ServeFetch(d, g), f \notin net PROVE f.ids \subseteq Allowed
      <3>1. f = [type |-> "serve", from |-> d, ids |-> g.ids \cap objects[d]]
        BY <2>2 DEF ServeFetch
      <3>2. QED
        BY <3>1 DEF HeldInv
    <2>3. f \in net \/ \E d \in Device : \E g \in net : ServeFetch(d, g)
      <3>1. \/ UNCHANGED net \/ \E d \in Device : (\E relayed : StabilityFrame(d, relayed)) \/ Announce(d)
            \/ \E d \in Device : \E g \in net : OnAnnounce(d, g) \/ ServeFetch(d, g)
        BY DEF Next, vars, Ingest, PutObject, Gc, Tick, ApplyOps,
               BackfillFrom, BackfillViaJournal, AcceptObject, IngestStability
      <3>2. ASSUME NEW d \in Device, Announce(d) PROVE f \in net
        BY <3>2 DEF Announce
      <3>3. ASSUME NEW d \in Device, NEW relayed, StabilityFrame(d, relayed) PROVE f \in net
        BY <3>3 DEF StabilityFrame
      <3>4. ASSUME NEW d \in Device, NEW g \in net, OnAnnounce(d, g) PROVE f \in net
        BY <3>4 DEF OnAnnounce
      <3>5. QED
        BY <3>1, <3>2, <3>3, <3>4
    <2>4. QED
      BY <2>1, <2>2, <2>3
  <1>6. QED
    BY <1>1, <1>2, <1>3, <1>4, <1>5 DEF Next, vars, Ingest, Announce, StabilityFrame, Gc, Tick,
       ApplyOps, OnAnnounce, ServeFetch, IngestStability

LEMMA OutStep ==
    ASSUME Types, OpsInv, OutInv, [Next]_vars
    PROVE  OutInv'
  <1> SUFFICES ASSUME NEW r \in Outsiders, NEW d \in Device \ Outsiders
               PROVE  /\ \A op \in applied'[d] : OpWithin(op, NotBy(r))
                      /\ Within(state'[d], NotBy(r))
                      /\ stability'[d][r] = Zero /\ lastSeen'[d][r] = NeverSeen
    BY OutMarks DEF OutInv, Outsiders
  <1>0. /\ r \in Device /\ r # d /\ \A x \in Device : state[x] \in State /\ applied[x] \in SUBSET ClusterOp
        /\ \A p \in View[d] : p \in Device => p \notin Outsiders
    BY PeerIsNoOutsider DEF Outsiders, Types
  <1>1. CASE \E x \in Device : \E op \in NewOps(x) : Ingest(x, op)
    <2>1. PICK x \in Device : \E op \in NewOps(x) : Ingest(x, op)
      BY <1>1
    <2>2. PICK op \in NewOps(x) : Ingest(x, op)
      BY <2>1
    <2>3. /\ op \in ClusterOp /\ op.hlc[3] = x /\ op.observed \subseteq state[x].adds[op.target]
      BY NewOp
    <2>4. /\ state' = [state EXCEPT ![x] = ApplyOp(op, @)]
          /\ applied' = [applied EXCEPT ![x] = @ \cup {op}]
      BY <2>2 DEF Ingest
    <2>5. stability'[d][r] = Zero /\ lastSeen'[d][r] = NeverSeen
      BY <2>2 DEF Ingest, OutInv
    <2>6. CASE x # d
      <3>1. state'[d] = state[d] /\ applied'[d] = applied[d]
        BY <2>4, <2>6 DEF Types
      <3>2. QED
        BY <3>1, <2>5 DEF OutInv
    <2>7. CASE x = d
      <3>1. state'[d] = ApplyOp(op, state[d]) /\ applied'[d] = applied[d] \cup {op}
        BY <2>4, <2>7 DEF Types
      <3>2. op.hlc \in NotBy(r) /\ op.target \in Elem
        BY <2>3, <2>7, <1>0, StampIsClock DEF NotBy, ClusterOp
      <3>3. OpWithin(op, NotBy(r))
        BY <2>3, <2>7, <3>2 DEF OutInv, Within, OpWithin
      <3>4. QED
        <4>1. Within(state'[d], NotBy(r))
          BY <1>0, <2>3, <3>1, <3>3, ApplyOpType DEF OutInv
        <4>2. \A o \in applied'[d] : OpWithin(o, NotBy(r))
          BY <3>1, <3>3 DEF OutInv
        <4>3. QED
          BY <4>1, <4>2, <2>5
    <2>8. QED
      BY <2>6, <2>7
  <1>2. CASE Written' = Written /\ \A x \in Device : Same(x) \/ Took(x) \/ Merged(x) \/ Pruned(x)
    <2>1. Same(d) \/ Took(d) \/ Merged(d) \/ Pruned(d)
      BY <1>2
    <2>2. \A p \in View[d] : p \in Device => /\ \A op \in applied[p] : OpWithin(op, NotBy(r))
                                             /\ Within(state[p], NotBy(r))
      BY <1>0 DEF OutInv
    <2>3. \A op \in applied'[d] : OpWithin(op, NotBy(r))
      BY <2>1, <2>2 DEF OutInv, Same, Took, Merged, Pruned
    <2>4. Within(state'[d], NotBy(r))
      BY <2>1, <2>2, <2>3, ReplicaWithin DEF OutInv
    <2> DEFINE Unmarked == stability'[d][r] = Zero /\ lastSeen'[d][r] = NeverSeen
    <2>5. stability[d][r] = Zero /\ lastSeen[d][r] = NeverSeen
      BY DEF OutInv
    <2>6. ASSUME NEW x \in Device, NEW p \in Device, NEW S, NEW b, ApplyOps(x, p, S, b) PROVE Unmarked
      <3>1. /\ p \in View[x] /\ lastSeen' = [lastSeen EXCEPT ![x][p] = now[x]] /\ stability' = stability
        BY <2>6 DEF ApplyOps, AcceptsFrame, Authorizes
      <3>2. ~(x = d /\ p = r)
        BY <3>1, <1>0
      <3>3. QED
        BY <2>5, <3>1, <3>2 DEF Types
    <2>7. ASSUME NEW x \in Device, NEW f \in net, IngestStability(x, f) PROVE Unmarked
      <3>1. /\ f.type = "stability" /\ f.from \in View[x] /\ lastSeen' = [lastSeen EXCEPT ![x][f.from] = now[x]]
            /\ stability' = [stability EXCEPT ![x] = [m \in Device |-> Latest({@[m], f.marks[m]})]]
        BY <2>7 DEF IngestStability, Authorizes
      <3>2. ~(x = d /\ f.from = r) /\ f.from \in Device
        BY <3>1, <1>0 DEF Types
      <3>3. lastSeen'[d][r] = NeverSeen
        BY <2>5, <3>1, <3>2 DEF Types
      <3>4. CASE x # d
        BY <2>5, <3>1, <3>3, <3>4 DEF Types
      <3>5. CASE x = d
        <4>1. f.marks[r] = Zero
          BY <1>0, <3>1, <3>2, <3>5 DEF OutInv
        <4>2. stability'[d][r] = Latest({Zero, Zero})
          BY <1>0, <2>5, <3>1, <3>5, <4>1 DEF Types
        <4>3. Zero \in Clock
          BY StampIsClock
        <4>4. QED
          BY <3>3, <4>2, <4>3, LaterOfTwo
      <3>6. QED
        BY <3>4, <3>5
    <2>8. ASSUME UNCHANGED <<stability, lastSeen>> PROVE Unmarked
      BY <2>5, <2>8
    <2>9. Unmarked
      <3> HIDE DEF Unmarked
      <3>1. \/ UNCHANGED <<stability, lastSeen>>
            \/ \E x, p \in Device : \E S, b : ApplyOps(x, p, S, b)
            \/ \E x \in Device : \E f \in net : IngestStability(x, f)
        BY DEF Next, vars, Ingest, PutObject, Announce, StabilityFrame, Gc, Tick, BackfillFrom,
               BackfillViaJournal, OnAnnounce, ServeFetch, AcceptObject
      <3>2. QED
        BY <3>1, <2>6, <2>7, <2>8
    <2>10. QED
      BY <2>3, <2>4, <2>9
  <1>3. QED
    BY <1>1, <1>2, ReplicaStep

\* A device that no other's view holds, revoked and perhaps unaware of it, leaves no stamp,
\* no op, no object that only outsiders put, no mark and no sign of life on the others,
\* directly or through a member: the origin of a frame and of a backfill is looked at, and
\* a mark or an object that is passed on unchecked is one that a member had (cluster.rs
\* authorize_frame, backfill_from, backfill_via_journal, ingest_stability).
THEOREM OutsidersStayInert == Spec => []OutsiderIsInert
  <1>1. Init => OutInv /\ HeldInv
    BY EmptyStateType DEF Init, OutInv, HeldInv, Outsiders
  <1>2. Types /\ OpsInv /\ OutInv /\ HeldInv /\ [Next]_vars => OutInv' /\ HeldInv'
    BY OutStep, HeldStep
  <1>3. ASSUME Types, OutInv, HeldInv PROVE OutsiderIsInert
    <2> SUFFICES ASSUME NEW r \in Outsiders, NEW d \in Device \ Outsiders
                 PROVE  /\ objects[d] \cup journal[d] \subseteq Allowed
                        /\ \A op \in applied[d] : op.hlc[3] # r
                        /\ \A t \in Stamps(state[d]) : t[3] # r
                        /\ stability[d][r] = Zero /\ lastSeen[d][r] = NeverSeen
      BY DEF OutsiderIsInert, Allowed
    <2>1. state[d] \in State /\ Within(state[d], NotBy(r)) /\ \A op \in applied[d] : OpWithin(op, NotBy(r))
      BY <1>3 DEF Types, OutInv
    <2>2. Stamps(state[d]) \subseteq NotBy(r)
      BY <2>1, StampsWithin
    <2>3. QED
      BY <1>3, <2>1, <2>2 DEF OutInv, HeldInv, OpWithin, NotBy
  <1>4. QED
    BY <1>1, <1>2, <1>3, Invariant, PTL DEF Spec

-----------------------------------------------------------------------------
(* What a state means.                                                     *)

Unique(ops) == \A o, p \in ops : o.hlc = p.hlc => o = p

\* A cell holds the newest of the ops of its kind and target.
CellIs(c, ops, kind, e) ==
    \/ c = NoCell /\ \A o \in ops : ~(o.kind = kind /\ o.target = e)
    \/ \E op \in ops : /\ op.kind = kind /\ op.target = e
                       /\ c = [hlc |-> op.hlc, val |-> op.val]
                       /\ \A o \in ops : o.kind = kind /\ o.target = e => NotAfter(o.hlc, op.hlc)

CellsOf(s, ops) ==
    \A e \in Elem : CellIs(s.lww[e], ops, "lww", e) /\ CellIs(s.death[e], ops, "delete", e)

AddTags(ops, e) == {op.hlc : op \in {o \in ops : o.kind = "add" /\ o.target = e}}
TombTags(ops, e) == UNION {op.observed : op \in {o \in ops : o.kind = "remove" /\ o.target = e}}

TagsOf(s, ops) ==
    \A e \in Elem : s.adds[e] = AddTags(ops, e) /\ s.tombs[e] = TombTags(ops, e)

LEMMA JoinCells ==
    ASSUME NEW A \in SUBSET ClusterOp, NEW B \in SUBSET ClusterOp, Unique(A \cup B),
           NEW kind, NEW e, NEW a, NEW b, CellIs(a, A, kind, e), CellIs(b, B, kind, e)
    PROVE  CellIs(Join(a, b), A \cup B, kind, e)
  <1> DEFINE Is(o) == o.kind = kind /\ o.target = e
             Newest1(op, ops) == op \in ops /\ Is(op) /\ \A o \in ops : Is(o) => NotAfter(o.hlc, op.hlc)
             CellOf(op) == [hlc |-> op.hlc, val |-> op.val]
  <1>0. \A o \in A \cup B : o.hlc \in Stamp /\ o.hlc \in Clock /\ o.hlc[3] # 0
    BY StampIsClock DEF ClusterOp
  <1>1. CASE a = NoCell /\ (\A o \in A : ~Is(o)) /\ b = NoCell /\ (\A o \in B : ~Is(o))
    <2>1. Join(a, b) = NoCell
      BY <1>1 DEF Join
    <2>2. QED
      BY <1>1, <2>1 DEF CellIs
  <1>2. ASSUME a = NoCell, \A o \in A : ~Is(o), NEW q \in B, b = CellOf(q), Newest1(q, B)
        PROVE  CellIs(Join(a, b), A \cup B, kind, e)
    <2>1. Before(Zero, q.hlc)
      BY <1>0, ClockOrder
    <2>2. Join(a, b) = b
      BY <1>2, <2>1 DEF Join, Wins, NoCell
    <2>3. QED
      BY <1>2, <2>2 DEF CellIs
  <1>3. ASSUME NEW p \in A, a = CellOf(p), Newest1(p, A), b = NoCell, \A o \in B : ~Is(o)
        PROVE  CellIs(Join(a, b), A \cup B, kind, e)
    <2>1. ~Before(p.hlc, Zero) /\ p.hlc # Zero
      BY <1>0, ClockOrder, StampIsClock DEF Zero
    <2>2. Join(a, b) = a
      BY <1>3, <2>1 DEF Join, Wins, NoCell
    <2>3. QED
      BY <1>3, <2>2 DEF CellIs
  <1>4. ASSUME NEW p \in A, a = CellOf(p), Newest1(p, A), NEW q \in B, b = CellOf(q), Newest1(q, B)
        PROVE  CellIs(Join(a, b), A \cup B, kind, e)
    <2>1. p.hlc \in Clock /\ q.hlc \in Clock
      BY <1>0
    <2>2. CASE p.hlc = q.hlc
      <3>1. p = q
        BY <2>2 DEF Unique
      <3>2. Join(a, b) = a
        BY <1>4, <3>1 DEF Join
      <3>3. Newest1(p, A \cup B)
        BY <1>4, <3>1
      <3>4. QED
        BY <1>4, <3>2, <3>3 DEF CellIs
    <2>3. CASE Before(p.hlc, q.hlc)
      <3>1. Join(a, b) = b
        BY <1>4, <2>3 DEF Join, Wins
      <3>2. ASSUME NEW o \in A, Is(o) PROVE NotAfter(o.hlc, q.hlc)
        <4>1. NotAfter(o.hlc, p.hlc) /\ NotAfter(p.hlc, q.hlc) /\ o.hlc \in Clock
          BY <1>0, <1>4, <2>3, <3>2 DEF NotAfter
        <4>2. QED
          BY <2>1, <4>1, ClockTransitive
      <3>3. Newest1(q, A \cup B)
        BY <1>4, <3>2
      <3>4. QED
        BY <1>4, <3>1, <3>3 DEF CellIs
    <2>4. CASE Before(q.hlc, p.hlc)
      <3>1. ~Before(p.hlc, q.hlc) /\ p.hlc # q.hlc
        BY <2>1, <2>4, ClockOrder DEF NotAfter
      <3>2. Join(a, b) = a
        BY <1>4, <3>1 DEF Join, Wins
      <3>3. ASSUME NEW o \in B, Is(o) PROVE NotAfter(o.hlc, p.hlc)
        <4>1. NotAfter(o.hlc, q.hlc) /\ NotAfter(q.hlc, p.hlc) /\ o.hlc \in Clock
          BY <1>0, <1>4, <2>4, <3>3 DEF NotAfter
        <4>2. QED
          BY <2>1, <4>1, ClockTransitive
      <3>4. Newest1(p, A \cup B)
        BY <1>4, <3>3
      <3>5. QED
        BY <1>4, <3>2, <3>4 DEF CellIs
    <2>5. QED
      BY <2>1, <2>2, <2>3, <2>4, ClockOrder DEF NotAfter
  <1>5. (a = NoCell /\ \A o \in A : ~Is(o)) \/ \E p \in A : a = CellOf(p) /\ Newest1(p, A)
    BY DEF CellIs
  <1>6. (b = NoCell /\ \A o \in B : ~Is(o)) \/ \E q \in B : b = CellOf(q) /\ Newest1(q, B)
    BY DEF CellIs
  <1> HIDE DEF Is, Newest1, CellOf
  <1>7. QED
    BY <1>1, <1>2, <1>3, <1>4, <1>5, <1>6

\* The ops of other kinds and targets do not matter to a cell.
LEMMA OtherOps ==
    ASSUME NEW A, NEW op, NEW kind, NEW e, ~(op.kind = kind /\ op.target = e), NEW c,
           CellIs(c, A, kind, e)
    PROVE  CellIs(c, A \cup {op}, kind, e)
  BY DEF CellIs

LEMMA OneOp ==
    ASSUME NEW op
    PROVE  CellIs([hlc |-> op.hlc, val |-> op.val], {op}, op.kind, op.target)
  BY DEF CellIs, NotAfter

LEMMA ApplyCells ==
    ASSUME NEW s \in State, NEW A \in SUBSET ClusterOp, NEW op \in ClusterOp, Unique(A \cup {op}),
           CellsOf(s, A)
    PROVE  CellsOf(ApplyOp(op, s), A \cup {op})
  <1> DEFINE cell == [hlc |-> op.hlc, val |-> op.val]
             t == ApplyOp(op, s)
  <1>0. op.target \in Elem /\ op.kind \in OpKind
    BY DEF ClusterOp
  <1>1. CASE op.kind \in {"add", "remove"}
    <2>1. t.lww = s.lww /\ t.death = s.death
      BY <1>1, <1>0 DEF ApplyOp, State
    <2>2. QED
      BY <1>1, <2>1, OtherOps DEF CellsOf
  <1>2. CASE op.kind = "lww"
    <2>1. t = [s EXCEPT !.lww[op.target] = Join(@, cell)]
      BY <1>2 DEF ApplyOp
    <2>2. t.death = s.death /\ \A e \in Elem : t.lww[e] = IF e = op.target THEN Join(s.lww[e], cell) ELSE s.lww[e]
      BY <2>1, <1>0 DEF State
    <2>3. CellIs(cell, {op}, "lww", op.target)
      BY <1>2, OneOp
    <2>4. CellIs(Join(s.lww[op.target], cell), A \cup {op}, "lww", op.target)
      <3>1. CellIs(s.lww[op.target], A, "lww", op.target) /\ {op} \in SUBSET ClusterOp
        BY <1>0 DEF CellsOf
      <3> HIDE DEF cell
      <3>2. QED
        BY <2>3, <3>1, JoinCells
    <2> HIDE DEF cell
    <2>5. CellsOf(t, A \cup {op})
      <3> SUFFICES ASSUME NEW e \in Elem
                   PROVE  /\ CellIs(t.lww[e], A \cup {op}, "lww", e)
                          /\ CellIs(t.death[e], A \cup {op}, "delete", e)
        BY DEF CellsOf
      <3> HIDE DEF t
      <3>1. CellIs(s.lww[e], A, "lww", e) /\ CellIs(s.death[e], A, "delete", e)
        BY DEF CellsOf
      <3>2. CASE e = op.target
        BY <1>2, <2>2, <2>4, <3>1, <3>2, OtherOps
      <3>3. CASE e # op.target
        BY <2>2, <3>1, <3>3, OtherOps
      <3>4. QED
        BY <3>2, <3>3
    <2>6. QED
      BY <2>5
  <1>3. CASE op.kind = "delete"
    <2>1. t = [s EXCEPT !.death[op.target] = Join(@, cell)]
      BY <1>3 DEF ApplyOp
    <2>2. t.lww = s.lww /\ \A e \in Elem : t.death[e] = IF e = op.target THEN Join(s.death[e], cell) ELSE s.death[e]
      BY <2>1, <1>0 DEF State
    <2>3. CellIs(cell, {op}, "delete", op.target)
      BY <1>3, OneOp
    <2>4. CellIs(Join(s.death[op.target], cell), A \cup {op}, "delete", op.target)
      <3>1. CellIs(s.death[op.target], A, "delete", op.target) /\ {op} \in SUBSET ClusterOp
        BY <1>0 DEF CellsOf
      <3> HIDE DEF cell
      <3>2. QED
        BY <2>3, <3>1, JoinCells
    <2> HIDE DEF cell
    <2>5. CellsOf(t, A \cup {op})
      <3> SUFFICES ASSUME NEW e \in Elem
                   PROVE  /\ CellIs(t.lww[e], A \cup {op}, "lww", e)
                          /\ CellIs(t.death[e], A \cup {op}, "delete", e)
        BY DEF CellsOf
      <3> HIDE DEF t
      <3>1. CellIs(s.lww[e], A, "lww", e) /\ CellIs(s.death[e], A, "delete", e)
        BY DEF CellsOf
      <3>2. CASE e = op.target
        BY <1>3, <2>2, <2>4, <3>1, <3>2, OtherOps
      <3>3. CASE e # op.target
        BY <2>2, <3>1, <3>3, OtherOps
      <3>4. QED
        BY <3>2, <3>3
    <2>6. QED
      BY <2>5
  <1>4. QED
    BY <1>0, <1>1, <1>2, <1>3 DEF OpKind

LEMMA ApplyTags ==
    ASSUME NEW s \in State, NEW A \in SUBSET ClusterOp, NEW op \in ClusterOp, TagsOf(s, A)
    PROVE  TagsOf(ApplyOp(op, s), A \cup {op})
  <1> DEFINE t == ApplyOp(op, s)
  <1>0. op.target \in Elem /\ op.kind \in OpKind
    BY DEF ClusterOp
  <1>1. \A e \in Elem : /\ AddTags(A \cup {op}, e) = AddTags(A, e) \cup
                              (IF op.kind = "add" /\ op.target = e THEN {op.hlc} ELSE {})
                        /\ TombTags(A \cup {op}, e) = TombTags(A, e) \cup
                              (IF op.kind = "remove" /\ op.target = e THEN op.observed ELSE {})
    <2>1. ASSUME NEW e \in Elem
          PROVE  AddTags(A \cup {op}, e) = AddTags(A, e) \cup
                              (IF op.kind = "add" /\ op.target = e THEN {op.hlc} ELSE {})
      BY DEF AddTags
    <2>2. ASSUME NEW e \in Elem
          PROVE  TombTags(A \cup {op}, e) = TombTags(A, e) \cup
                              (IF op.kind = "remove" /\ op.target = e THEN op.observed ELSE {})
      BY DEF TombTags
    <2>3. QED
      BY <2>1, <2>2
  <1>2. \A e \in Elem : /\ t.adds[e] = s.adds[e] \cup (IF op.kind = "add" /\ op.target = e THEN {op.hlc} ELSE {})
                        /\ t.tombs[e] = s.tombs[e] \cup (IF op.kind = "remove" /\ op.target = e THEN op.observed ELSE {})
    BY <1>0 DEF ApplyOp, State, OpKind
  <1> HIDE DEF t
  <1>3. TagsOf(t, A \cup {op})
    <2>1. ASSUME NEW e \in Elem
          PROVE  t.adds[e] = AddTags(A \cup {op}, e) /\ t.tombs[e] = TombTags(A \cup {op}, e)
      <3>1. s.adds[e] = AddTags(A, e) /\ s.tombs[e] = TombTags(A, e)
        BY DEF TagsOf
      <3>2. /\ t.adds[e] = s.adds[e] \cup (IF op.kind = "add" /\ op.target = e THEN {op.hlc} ELSE {})
            /\ AddTags(A \cup {op}, e) = AddTags(A, e) \cup
                  (IF op.kind = "add" /\ op.target = e THEN {op.hlc} ELSE {})
        BY <1>1, <1>2, Zenon
      <3>3. /\ t.tombs[e] = s.tombs[e] \cup (IF op.kind = "remove" /\ op.target = e THEN op.observed ELSE {})
            /\ TombTags(A \cup {op}, e) = TombTags(A, e) \cup
                  (IF op.kind = "remove" /\ op.target = e THEN op.observed ELSE {})
        BY <1>1, <1>2, Zenon
      <3>4. QED
        BY <3>1, <3>2, <3>3
    <2>2. QED
      BY <2>1 DEF TagsOf
  <1>4. QED
    BY <1>3 DEF t

LEMMA UniqueSubset ==
    ASSUME NEW A, NEW B, B \subseteq A, Unique(A) PROVE Unique(B)
  BY DEF Unique

LEMMA ApplyAllMeans ==
    ASSUME NEW s \in State, NEW A \in SUBSET ClusterOp, NEW S \in SUBSET ClusterOp, IsFiniteSet(S),
           Unique(A \cup S), CellsOf(s, A)
    PROVE  /\ CellsOf(ApplyAll(S, s), A \cup S)
           /\ TagsOf(s, A) => TagsOf(ApplyAll(S, s), A \cup S)
  <1>1. PICK f : Folds(f, s, S)
    BY ApplyAllIter
  <1> DEFINE G == {T \in SUBSET S : /\ f[T] \in State /\ CellsOf(f[T], A \cup T)
                                    /\ TagsOf(s, A) => TagsOf(f[T], A \cup T)}
  <1>2. {} \in G
    <2>1. f[{}] = s /\ A \cup {} = A
      BY <1>1 DEF Folds
    <2>2. QED
      BY <2>1
  <1>3. ASSUME NEW T \in SUBSET S, T # {}, \A x \in T : T \ {x} \in G
        PROVE  T \in G
    <2>1. PICK x \in T : f[T] = ApplyOp(x, f[T \ {x}])
      BY <1>1, <1>3 DEF Folds
    <2> DEFINE B == A \cup (T \ {x})
    <2>2. /\ f[T \ {x}] \in State /\ x \in ClusterOp /\ B \in SUBSET ClusterOp
          /\ CellsOf(f[T \ {x}], B) /\ (TagsOf(s, A) => TagsOf(f[T \ {x}], B))
      BY <1>3, <2>1
    <2>3. B \cup {x} = A \cup T
      BY <2>1
    <2>4. Unique(B \cup {x})
      BY <2>3, UniqueSubset
    <2> HIDE DEF B
    <2>5. f[T] \in State /\ CellsOf(f[T], B \cup {x}) /\ (TagsOf(s, A) => TagsOf(f[T], B \cup {x}))
      BY <2>1, <2>2, <2>4, ApplyOpType, ApplyCells, ApplyTags
    <2>6. QED
      BY <2>3, <2>5
  <1>4. S \in G
    <2> HIDE DEF G
    <2>1. QED
      BY <1>2, <1>3, SubsetInduction
  <1>5. QED
    BY <1>1, <1>4 DEF Folds

LEMMA MergeMeans ==
    ASSUME NEW s \in State, NEW t \in State, NEW A \in SUBSET ClusterOp, NEW B \in SUBSET ClusterOp,
           Unique(A \cup B), CellsOf(s, A), CellsOf(t, B)
    PROVE  /\ CellsOf(Merge(s, t), A \cup B)
           /\ TagsOf(s, A) /\ TagsOf(t, B) => TagsOf(Merge(s, t), A \cup B)
  <1>1. CellsOf(Merge(s, t), A \cup B)
    <2>1. ASSUME NEW e \in Elem PROVE CellIs(Merge(s, t).lww[e], A \cup B, "lww", e)
      <3>1. Merge(s, t).lww[e] = Join(s.lww[e], t.lww[e])
        BY DEF Merge
      <3>2. QED
        BY <3>1, JoinCells DEF CellsOf
    <2>2. ASSUME NEW e \in Elem PROVE CellIs(Merge(s, t).death[e], A \cup B, "delete", e)
      <3>1. Merge(s, t).death[e] = Join(s.death[e], t.death[e])
        BY DEF Merge
      <3>2. QED
        BY <3>1, JoinCells DEF CellsOf
    <2>3. QED
      BY <2>1, <2>2 DEF CellsOf
  <1>2. \A e \in Elem : /\ AddTags(A \cup B, e) = AddTags(A, e) \cup AddTags(B, e)
                        /\ TombTags(A \cup B, e) = TombTags(A, e) \cup TombTags(B, e)
    BY DEF AddTags, TombTags
  <1>3. \A e \in Elem : /\ Merge(s, t).adds[e] = s.adds[e] \cup t.adds[e]
                        /\ Merge(s, t).tombs[e] = s.tombs[e] \cup t.tombs[e]
    BY DEF Merge
  <1>4. QED
    BY <1>1, <1>2, <1>3 DEF TagsOf

LEMMA PruneCells ==
    ASSUME NEW s \in State, NEW A, NEW cut, CellsOf(s, A)
    PROVE  CellsOf(PruneStable(s, cut), A)
  <1>1. PruneStable(s, cut).lww = s.lww /\ PruneStable(s, cut).death = s.death
    BY DEF PruneStable, State
  <1>2. QED
    BY <1>1 DEF CellsOf

\* Cells mean what was taken in, and tags do while nothing is collected.
MeansInv ==
    \A d \in Device : /\ CellsOf(state[d], applied[d])
                      /\ Collects = FALSE => TagsOf(state[d], applied[d])

LEMMA AppliedUnique ==
    ASSUME OpsInv, NEW d \in Device, NEW A \in SUBSET Written PROVE Unique(applied[d] \cup A)
  BY DEF OpsInv, Unique, Written

LEMMA MeansStep ==
    ASSUME Types, OpsInv, MeansInv, [Next]_vars
    PROVE  MeansInv'
  <1> SUFFICES ASSUME NEW d \in Device
               PROVE  /\ CellsOf(state'[d], applied'[d])
                      /\ Collects = FALSE => TagsOf(state'[d], applied'[d])
    BY DEF MeansInv
  <1>0. /\ \A x \in Device : state[x] \in State /\ applied[x] \in SUBSET ClusterOp
        /\ \A x \in Device : /\ CellsOf(state[x], applied[x])
                             /\ Collects = FALSE => TagsOf(state[x], applied[x])
    BY DEF Types, MeansInv
  <1>1. CASE \E x \in Device : \E op \in NewOps(x) : Ingest(x, op)
    <2>1. PICK x \in Device : \E op \in NewOps(x) : Ingest(x, op)
      BY <1>1
    <2>2. PICK op \in NewOps(x) : Ingest(x, op)
      BY <2>1
    <2>3. op \in ClusterOp /\ \A o \in Written : o.hlc # op.hlc
      BY NewOp
    <2>4. /\ state' = [state EXCEPT ![x] = ApplyOp(op, @)]
          /\ applied' = [applied EXCEPT ![x] = @ \cup {op}]
      BY <2>2 DEF Ingest
    <2>5. CASE x # d
      <3>1. state'[d] = state[d] /\ applied'[d] = applied[d]
        BY <2>4, <2>5 DEF Types
      <3>2. QED
        BY <1>0, <3>1
    <2>6. CASE x = d
      <3>1. state'[d] = ApplyOp(op, state[d]) /\ applied'[d] = applied[d] \cup {op}
        BY <2>4, <2>6 DEF Types
      <3>2. Unique(applied[d] \cup {op})
        BY <2>3 DEF OpsInv, Unique, Written
      <3>3. QED
        BY <1>0, <2>3, <3>1, <3>2, ApplyCells, ApplyTags
    <2>7. QED
      BY <2>5, <2>6
  <1>2. CASE Same(d)
    BY <1>0, <1>2 DEF Same
  <1>3. CASE Took(d)
    <2>1. PICK p \in Device : \E S \in SUBSET applied[p] :
             /\ IsFiniteSet(S)
             /\ state'[d] = ApplyAll(S, state[d]) /\ applied'[d] = applied[d] \cup S
      BY <1>3 DEF Took
    <2>2. PICK S \in SUBSET applied[p] :
             /\ IsFiniteSet(S)
             /\ state'[d] = ApplyAll(S, state[d]) /\ applied'[d] = applied[d] \cup S
      BY <2>1
    <2>3. S \in SUBSET ClusterOp /\ S \in SUBSET Written
      BY <1>0 DEF Written
    <2>4. Unique(applied[d] \cup S)
      BY <2>3, AppliedUnique
    <2>5. QED
      BY <1>0, <2>2, <2>3, <2>4, ApplyAllMeans
  <1>4. CASE Merged(d)
    <2>1. PICK p \in Device :
             /\ applied'[d] = applied[d] \cup applied[p]
             /\ state'[d] \in {Merge(state[d], state[p]), Merge(state[d], Merge(state[p], state[d]))}
      BY <1>4 DEF Merged
    <2> DEFINE A == applied[d]
               B == applied[p]
    <2>2. /\ A \in SUBSET ClusterOp /\ B \in SUBSET ClusterOp
          /\ B \cup A \in SUBSET ClusterOp /\ A \cup (B \cup A) = A \cup B
      BY <1>0
    <2>3. Unique(A \cup B) /\ Unique(B \cup A) /\ Unique(A \cup (B \cup A))
      <3>1. Unique(A \cup B)
        BY AppliedUnique DEF Written
      <3>2. B \cup A = A \cup B
        OBVIOUS
      <3> HIDE DEF A, B
      <3>3. QED
        BY <2>2, <3>1, <3>2
    <2>4. /\ CellsOf(Merge(state[d], state[p]), A \cup B)
          /\ Collects = FALSE => TagsOf(Merge(state[d], state[p]), A \cup B)
      BY <1>0, <2>2, <2>3, MergeMeans
    <2>5. /\ Merge(state[p], state[d]) \in State
          /\ CellsOf(Merge(state[p], state[d]), B \cup A)
          /\ Collects = FALSE => TagsOf(Merge(state[p], state[d]), B \cup A)
      BY <1>0, <2>2, <2>3, MergeMeans, MergeType
    <2>6. /\ CellsOf(Merge(state[d], Merge(state[p], state[d])), A \cup (B \cup A))
          /\ Collects = FALSE => TagsOf(Merge(state[d], Merge(state[p], state[d])), A \cup (B \cup A))
      <3> DEFINE C == B \cup A
      <3>1. C \in SUBSET ClusterOp /\ CellsOf(state[d], A) /\ (Collects = FALSE => TagsOf(state[d], A))
        BY <1>0, <2>2
      <3>2. CellsOf(Merge(state[p], state[d]), C) /\ Unique(A \cup C)
        BY <2>3, <2>5
      <3>3. Collects = FALSE => TagsOf(Merge(state[p], state[d]), C)
        BY <2>5
      <3> HIDE DEF C, A
      <3>4. CellsOf(Merge(state[d], Merge(state[p], state[d])), A \cup C)
        BY <1>0, <2>2, <2>5, <3>1, <3>2, MergeMeans
      <3>5. Collects = FALSE => TagsOf(Merge(state[d], Merge(state[p], state[d])), A \cup C)
        BY <1>0, <2>2, <2>5, <3>1, <3>2, <3>3, MergeMeans
      <3>6. QED
        BY <3>4, <3>5 DEF C
    <2> HIDE DEF A, B
    <2>7. applied'[d] = A \cup B
      BY <2>1 DEF A, B
    <2>8. QED
      BY <2>1, <2>2, <2>4, <2>6, <2>7
  <1>5. CASE Pruned(d)
    BY <1>0, <1>5, PruneCells DEF Pruned
  <1>6. QED
    BY <1>1, <1>2, <1>3, <1>4, <1>5, ReplicaStep

LEMMA MeansInvariant == Spec => [](Types /\ OpsInv /\ MeansInv)
  <1>1. Init => MeansInv
    BY DEF Init, MeansInv, EmptyState, CellsOf, CellIs, TagsOf, AddTags, TombTags
  <1>2. Types /\ OpsInv /\ MeansInv /\ [Next]_vars => MeansInv'
    BY MeansStep
  <1>3. QED
    BY <1>1, <1>2, Invariant, PTL DEF Spec

\* The newest op is the one in the cell.
LEMMA NewestIs ==
    ASSUME NEW ops \in SUBSET ClusterOp, Unique(ops), NEW kind, NEW e, NEW c, CellIs(c, ops, kind, e)
    PROVE  Newest(ops, kind, e) = c.val /\ c.val \in Nat
  <1> DEFINE W == {op \in ops : op.kind = kind /\ op.target = e}
             Last(op) == \A o \in W : NotAfter(o.hlc, op.hlc)
  <1>1. CASE W = {}
    <2>1. c = NoCell
      BY <1>1 DEF CellIs
    <2>2. QED
      BY <1>1, <2>1 DEF Newest, NoCell
  <1>2. CASE W # {}
    <2>1. PICK op \in W : c = [hlc |-> op.hlc, val |-> op.val] /\ Last(op)
      BY <1>2 DEF CellIs
    <2> DEFINE q == CHOOSE x \in W : Last(x)
    <2>2. q \in W /\ Last(q)
      BY <2>1
    <2>3. q.hlc \in Clock /\ op.hlc \in Clock
      BY <2>1, <2>2, StampIsClock DEF ClusterOp
    <2>4. q.hlc = op.hlc
      BY <2>1, <2>2, <2>3, ClockTransitive
    <2>5. q = op
      BY <2>1, <2>2, <2>4 DEF Unique
    <2>6. Newest(ops, kind, e) = q.val
      BY <1>2 DEF Newest
    <2>7. QED
      BY <2>1, <2>5, <2>6 DEF ClusterOp
  <1>3. QED
    BY <1>1, <1>2

\* Strong eventual consistency, for any devices and ops: what a device shows is a function
\* of the set of ops it took in, not of the order, the frames or the merges they came in
\* (crdt.rs), as long as nothing is collected.
THEOREM StateIsWhatWasTakenIn ==
    ASSUME Collects = FALSE
    PROVE  Spec => []StateIsOpSet
  <1>1. ASSUME Types, OpsInv, MeansInv PROVE StateIsOpSet
    <2> SUFFICES ASSUME NEW d \in Device PROVE Snapshot(state[d]) = Meaning(applied[d])
      BY DEF StateIsOpSet
    <2>1. applied[d] \in SUBSET ClusterOp /\ Unique(applied[d])
      BY <1>1 DEF Types, OpsInv, Unique, Written
    <2>2. CellsOf(state[d], applied[d]) /\ TagsOf(state[d], applied[d])
      BY <1>1 DEF MeansInv
    <2>3. \A e \in Elem : /\ state[d].lww[e].val = Newest(applied[d], "lww", e)
                          /\ state[d].death[e].val = Newest(applied[d], "delete", e)
                          /\ state[d].death[e].val \in Nat
      BY <2>1, <2>2, NewestIs DEF CellsOf
    <2>4. \A e \in Elem : state[d].adds[e] \ state[d].tombs[e] = LiveTags(applied[d], e)
      BY <2>2 DEF TagsOf, AddTags, TombTags, LiveTags
    <2>5. \A e \in Elem : IsPresent(state[d], e) <=>
             Newest(applied[d], "delete", e) = 0 /\ LiveTags(applied[d], e) # {}
      BY <2>3, <2>4 DEF IsPresent, IsDeleted
    <2>6. QED
      BY <2>3, <2>5 DEF Snapshot, Meaning
  <1>2. QED
    BY <1>1, MeansInvariant, PTL

\* A durable delete that a device took in holds there until a later un-delete, collection
\* or not: add-wins tags cannot bring the object back (crdt.rs is_present).
THEOREM DeletesHold == Spec => []DurableDeleteHolds
  <1>1. ASSUME Types, OpsInv, MeansInv PROVE DurableDeleteHolds
    <2> SUFFICES ASSUME NEW d \in Device, NEW e \in Elem, Newest(applied[d], "delete", e) > 0
                 PROVE  ~IsPresent(state[d], e)
      BY DEF DurableDeleteHolds
    <2>1. applied[d] \in SUBSET ClusterOp /\ Unique(applied[d])
      BY <1>1 DEF Types, OpsInv, Unique, Written
    <2>2. state[d].death[e].val = Newest(applied[d], "delete", e)
      BY <1>1, <2>1, NewestIs DEF MeansInv, CellsOf
    <2>3. QED
      BY <2>2 DEF IsPresent, IsDeleted
  <1>2. QED
    BY <1>1, MeansInvariant, PTL

-----------------------------------------------------------------------------
(* Backfill, and the collection of tombstones.                             *)

\* What a peer is handed back holds whatever the peer would win.
LEMMA JoinTwice ==
    ASSUME NEW a \in Cell, NEW b \in Cell
    PROVE  Join(b, Join(a, b)) = Join(a, b)
  <1>0. a.hlc \in Clock /\ b.hlc \in Clock /\ a.val \in Nat /\ b.val \in Nat
    BY StampIsClock DEF Cell
  <1>1. CASE Wins(b, a) \/ Wins(a, b)
    BY <1>1 DEF Join
  <1>2. CASE ~Wins(b, a) /\ ~Wins(a, b)
    <2>1. a.hlc = b.hlc
      BY <1>0, <1>2, ClockOrder DEF Wins, NotAfter
    <2>2. a.val = b.val
      BY <1>0, <1>2, <2>1 DEF Wins
    <2>3. a = b
      BY <2>1, <2>2 DEF Cell
    <2>4. QED
      BY <2>3 DEF Join
  <1>3. QED
    BY <1>1, <1>2

LEMMA MergeTwice ==
    ASSUME NEW s \in State, NEW o \in State
    PROVE  Merge(o, Merge(s, o)) = Merge(s, o)
  <1>1. \A e \in Elem : /\ Join(o.lww[e], Join(s.lww[e], o.lww[e])) = Join(s.lww[e], o.lww[e])
                        /\ Join(o.death[e], Join(s.death[e], o.death[e])) = Join(s.death[e], o.death[e])
    BY JoinTwice DEF State
  <1>2. QED
    BY <1>1 DEF Merge

\* backfill_from leaves the two replicas with the same objects and the same observable
\* metadata, whatever each held and whoever called (cluster.rs backfill_from).
THEOREM BackfillAgrees == Spec => [][BackfillEqualises]_vars
  <1>1. Types => BackfillEqualises
    <2> SUFFICES ASSUME Types, NEW d \in Device, NEW p \in Device, BackfillFrom(d, p)
                 PROVE  objects'[d] = objects'[p] /\ Snapshot(state'[d]) = Snapshot(state'[p])
      BY DEF BackfillEqualises
    <2>1. objects'[d] = objects'[p]
      BY DEF BackfillFrom, Types
    <2>2. /\ state'[d] = Merge(state[d], state[p])
          /\ state'[p] = Merge(state[p], Merge(state[d], state[p]))
      BY DEF BackfillFrom, MergeBoth, Types
    <2>3. state'[p] = state'[d]
      BY <2>2, MergeTwice DEF Types
    <2>4. QED
      BY <2>1, <2>3
  <1>2. Types => [BackfillEqualises]_vars
    BY <1>1
  <1>3. QED
    BY <1>2, Invariant, PTL

LEMMA EarliestIsFirst ==
    ASSUME NEW S \in SUBSET Clock, IsFiniteSet(S), S # {}
    PROVE  \E a \in S : \A b \in S : NotAfter(a, b)
  <1> DEFINE First(T, a) == a \in T /\ \A b \in T : NotAfter(a, b)
             G == {T \in SUBSET S : T = {} \/ \E a : First(T, a)}
  <1>1. {} \in G
    OBVIOUS
  <1>2. ASSUME NEW T \in SUBSET S, T # {}, \A x \in T : T \ {x} \in G
        PROVE  T \in G
    <2>1. PICK x \in T : T \ {x} \in G
      BY <1>2
    <2>2. CASE T = {x}
      <3>1. First(T, x)
        BY <2>2 DEF NotAfter
      <3>2. QED
        BY <3>1
    <2>3. CASE T # {x}
      <3>1. PICK a : First(T \ {x}, a)
        BY <2>1, <2>3
      <3>2. a \in Clock /\ x \in Clock /\ a \in T /\ \A b \in T \ {x} : NotAfter(a, b)
        BY <1>2, <3>1
      <3>3. CASE NotAfter(a, x)
        <4>1. First(T, a)
          BY <3>2, <3>3
        <4>2. QED
          BY <4>1
      <3>4. CASE Before(x, a)
        <4>1. NotAfter(x, a)
          BY <3>4 DEF NotAfter
        <4>2. ASSUME NEW b \in T PROVE NotAfter(x, b)
          <5>1. CASE b = x
            BY <5>1 DEF NotAfter
          <5>2. CASE b # x
            BY <5>2, <3>2, <4>1, ClockTransitive
          <5>3. QED
            BY <5>1, <5>2
        <4>3. First(T, x)
          BY <4>2
        <4>4. QED
          BY <4>3
      <3>5. QED
        BY <3>2, <3>3, <3>4, ClockOrder
    <2>4. QED
      BY <2>2, <2>3
  <1>3. S \in G
    <2> HIDE DEF G
    <2>1. QED
      BY <1>1, <1>2, SubsetInduction
  <1>4. QED
    BY <1>3

\* The clocks that something taken in has reached.
Below(ops) == {t \in Clock : \E op \in ops : NotAfter(t, op.hlc)}

\* Whatever a replica holds, cites, announces as stable or knows of a peer is no later than
\* an op that replica, or that peer, has taken in.
MarkInv ==
    /\ \A op \in Written : \A t \in op.observed : NotAfter(t, op.hlc)
    /\ \A d \in Device : Within(state[d], Below(applied[d]))
    /\ \A d, m \in Device : stability[d][m] # Zero => stability[d][m] \in Below(applied[m])
    /\ \A f \in net, m \in Device :
        f.type = "stability" /\ f.marks[m] # Zero => f.marks[m] \in Below(applied[m])

LEMMA WithinGrows ==
    ASSUME NEW s, NEW H, NEW K, H \subseteq K, Within(s, H) PROVE Within(s, K)
  BY DEF Within

LEMMA BelowGrows ==
    ASSUME NEW A, NEW B, A \subseteq B PROVE Below(A) \subseteq Below(B)
  BY DEF Below

LEMMA OpBelow ==
    ASSUME NEW A \in SUBSET ClusterOp, NEW op \in A, \A t \in op.observed : NotAfter(t, op.hlc)
    PROVE  OpWithin(op, Below(A))
  <1>1. op.hlc \in Clock /\ op.observed \subseteq Clock
    BY StampIsClock DEF ClusterOp
  <1>2. QED
    BY <1>1 DEF OpWithin, Below, NotAfter

\* Nothing taken in is lost again.
LEMMA AppliedGrows ==
    ASSUME Types, OpsInv, [Next]_vars, NEW d \in Device
    PROVE  applied[d] \subseteq applied'[d]
  <1>1. ASSUME NEW x \in Device, NEW op, Ingest(x, op) PROVE applied[d] \subseteq applied'[d]
    BY <1>1 DEF Ingest, Types
  <1>2. QED
    BY <1>1, ReplicaStep DEF Same, Took, Merged, Pruned

LEMMA MaxHlcBelow ==
    ASSUME Types, OpsInv, MarkInv, NEW d \in Device
    PROVE  MaxHlc(state[d]) \in Below(applied[d]) \cup {Zero} /\ MaxHlc(state[d]) \in Clock
  <1>1. /\ state[d] \in State /\ Within(state[d], Below(applied[d])) /\ Within(state[d], Clocks)
    BY DEF Types, OpsInv, MarkInv
  <1>2. Stamps(state[d]) \subseteq Below(applied[d]) /\ Stamps(state[d]) \subseteq Clocks
    BY <1>1, StampsWithin
  <1>3. IsFiniteSet(Stamps(state[d])) /\ Stamps(state[d]) \in SUBSET Clock
    BY <1>2, ClocksFinite DEF Below
  <1>4. Zero \in Clock
    BY StampIsClock
  <1>5. QED
    BY <1>2, <1>3, <1>4, LatestIsLast DEF MaxHlc

LEMMA MarkStep ==
    ASSUME Types, OpsInv, MarkInv, [Next]_vars
    PROVE  MarkInv'
  <1>0. /\ \A x \in Device : /\ state[x] \in State /\ applied[x] \in SUBSET ClusterOp
                             /\ Below(applied[x]) \subseteq Below(applied'[x])
                             /\ Within(state[x], Below(applied'[x]))
        /\ \A x, m \in Device : stability[x][m] \in Clock
    <2>1. \A x \in Device : Below(applied[x]) \subseteq Below(applied'[x])
      BY AppliedGrows, BelowGrows
    <2>2. \A x \in Device : Within(state[x], Below(applied'[x]))
      BY <2>1, WithinGrows DEF MarkInv
    <2>3. QED
      BY <2>1, <2>2, StampIsClock DEF Types
  <1>1. \A op \in Written' : \A t \in op.observed : NotAfter(t, op.hlc)
    <2>1. CASE \E d \in Device : \E op \in NewOps(d) : Ingest(d, op)
      <3>1. PICK d \in Device : \E op \in NewOps(d) : Ingest(d, op)
        BY <2>1
      <3>2. PICK op \in NewOps(d) : Ingest(d, op)
        BY <3>1
      <3>3. applied' = [applied EXCEPT ![d] = @ \cup {op}] /\ Validates(op, now[d])
        BY <3>2 DEF Ingest
      <3>4. op.kind = "remove" \/ op.observed = {}
        BY <3>2 DEF NewOps
      <3>5. \A t \in op.observed : NotAfter(t, op.hlc)
        BY <3>3, <3>4 DEF Validates
      <3>6. \A o \in Written' : o \in Written \cup {op}
        BY <3>3 DEF Written, Types
      <3>7. QED
        BY <3>5, <3>6 DEF MarkInv
    <2>2. CASE Written' = Written
      BY <2>2 DEF MarkInv
    <2>3. QED
      BY <2>1, <2>2, ReplicaStep
  <1>2. ASSUME NEW d \in Device PROVE Within(state'[d], Below(applied'[d]))
    <2>0. \A op \in applied'[d] : OpWithin(op, Below(applied'[d]))
      <3>1. applied'[d] \in SUBSET ClusterOp /\ applied'[d] \subseteq Written'
        BY OpsStep DEF Written
      <3>2. QED
        BY <3>1, <1>1, OpBelow
    <2>1. CASE \E x \in Device : \E op \in NewOps(x) : Ingest(x, op)
      <3>1. PICK x \in Device : \E op \in NewOps(x) : Ingest(x, op)
        BY <2>1
      <3>2. PICK op \in NewOps(x) : Ingest(x, op)
        BY <3>1
      <3>3. /\ state' = [state EXCEPT ![x] = ApplyOp(op, @)] /\ op \in ClusterOp
            /\ applied' = [applied EXCEPT ![x] = @ \cup {op}]
        BY <3>2, NewOp DEF Ingest
      <3>4. CASE x = d
        <4>1. state'[d] = ApplyOp(op, state[d]) /\ op \in applied'[d]
          BY <3>3, <3>4 DEF Types
        <4>2. QED
          BY <4>1, <3>3, <2>0, <1>0, ApplyOpType
      <3>5. CASE x # d
        <4>1. state'[d] = state[d]
          BY <3>3, <3>5 DEF Types
        <4>2. QED
          BY <4>1, <1>0
      <3>6. QED
        BY <3>4, <3>5
    <2>2. CASE Same(d) \/ Took(d) \/ Merged(d) \/ Pruned(d)
      <3>1. ASSUME NEW p \in Device, applied[p] \subseteq applied'[d]
            PROVE  Within(state[p], Below(applied'[d]))
        BY <3>1, BelowGrows, WithinGrows DEF MarkInv
      <3>2. QED
        BY <2>0, <2>2, <3>1, <1>0, ReplicaWithin
    <2>3. QED
      BY <2>1, <2>2, ReplicaStep
  <1>3. \A d, m \in Device : stability'[d][m] # Zero => stability'[d][m] \in Below(applied'[m])
    <2>1. CASE UNCHANGED stability
      BY <2>1, <1>0 DEF MarkInv
    <2>2. ASSUME NEW x \in Device, NEW f \in net, IngestStability(x, f)
          PROVE  \A d, m \in Device : stability'[d][m] # Zero => stability'[d][m] \in Below(applied'[m])
      <3>1. /\ f.type = "stability" /\ applied' = applied
            /\ stability' = [stability EXCEPT ![x] = [m \in Device |-> Latest({@[m], f.marks[m]})]]
        BY <2>2 DEF IngestStability
      <3>2. f.marks \in [Device -> Stamp \cup {Zero}]
        BY <3>1 DEF Types
      <3> SUFFICES ASSUME NEW d \in Device, NEW m \in Device, stability'[d][m] # Zero
                   PROVE  stability'[d][m] \in Below(applied[m])
        BY <3>1
      <3>3. CASE d # x
        BY <3>1, <3>3 DEF Types, MarkInv
      <3>4. CASE d = x
        <4>1. stability'[d][m] = Latest({stability[d][m], f.marks[m]})
          BY <3>1, <3>4 DEF Types
        <4>2. stability[d][m] \in Clock /\ f.marks[m] \in Clock
          BY <1>0, <3>2, StampIsClock
        <4>3. stability'[d][m] \in {stability[d][m], f.marks[m]}
          BY <4>1, <4>2, LaterOfTwo
        <4>4. QED
          BY <3>1, <4>3 DEF MarkInv
      <3>5. QED
        BY <3>3, <3>4
    <2>3. QED
      <3>1. UNCHANGED stability \/ \E x \in Device : \E f \in net : IngestStability(x, f)
        BY DEF Next, vars, Ingest, PutObject, Announce, StabilityFrame, Gc, Tick, ApplyOps,
               BackfillFrom, BackfillViaJournal, OnAnnounce, ServeFetch, AcceptObject
      <3>2. QED
        BY <3>1, <2>1, <2>2
  <1>4. \A f \in net', m \in Device :
            f.type = "stability" /\ f.marks[m] # Zero => f.marks[m] \in Below(applied'[m])
    <2>0. ASSUME NEW f \in net, NEW m \in Device, f.type = "stability", f.marks[m] # Zero
          PROVE  f.marks[m] \in Below(applied'[m])
      BY <1>0, <2>0 DEF MarkInv
    <2>1. ASSUME NEW d \in Device, NEW relayed, StabilityFrame(d, relayed), NEW f \in net', NEW m \in Device,
                 f.type = "stability", f.marks[m] # Zero
          PROVE  f.marks[m] \in Below(applied'[m])
      <3>1. CASE f \in net
        BY <2>0, <2>1, <3>1
      <3>2. CASE f \notin net
        <4>1. f = [type |-> "stability", from |-> d, marks |-> Marks(d, relayed)] /\ applied' = applied
          BY <2>1, <3>2 DEF StabilityFrame
        <4>2. CASE m = d
          <5>1. f.marks[m] = MaxHlc(state[m])
            BY <4>1, <4>2 DEF Marks
          <5>2. QED
            BY <2>1, <4>1, <5>1, MaxHlcBelow
        <4>3. CASE m # d
          <5>1. f.marks[m] = stability[d][m]
            BY <2>1, <4>1, <4>3 DEF Marks
          <5>2. QED
            BY <2>1, <4>1, <5>1 DEF MarkInv
        <4>4. QED
          BY <4>2, <4>3
      <3>3. QED
        BY <3>1, <3>2
    <2>2. CASE \A f \in net' : f.type = "stability" => f \in net
      BY <2>0, <2>2
    <2>3. QED
      <3>1. \/ UNCHANGED net \/ \E d \in Device : (\E relayed : StabilityFrame(d, relayed)) \/ Announce(d)
            \/ \E d \in Device : \E f \in net : OnAnnounce(d, f) \/ ServeFetch(d, f)
        BY DEF Next, vars, Ingest, PutObject, Gc, Tick, ApplyOps,
               BackfillFrom, BackfillViaJournal, AcceptObject, IngestStability
      <3>2. ASSUME NEW d \in Device, Announce(d) PROVE \A f \in net' : f.type = "stability" => f \in net
        BY <3>2 DEF Announce
      <3>3. ASSUME NEW d \in Device, NEW g \in net, OnAnnounce(d, g) \/ ServeFetch(d, g)
            PROVE  \A f \in net' : f.type = "stability" => f \in net
        BY <3>3 DEF OnAnnounce, ServeFetch
      <3>4. UNCHANGED net => \A f \in net' : f.type = "stability" => f \in net
        OBVIOUS
      <3>5. QED
        BY <3>1, <2>1, <2>2, <3>2, <3>3, <3>4
  <1>5. QED
    BY <1>1, <1>2, <1>3, <1>4 DEF MarkInv

\* The ops of a frame take no tombstone away.
LEMMA FoldTombs ==
    ASSUME NEW s \in State, NEW S \in SUBSET ClusterOp, IsFiniteSet(S), NEW e \in Elem
    PROVE  s.tombs[e] \subseteq ApplyAll(S, s).tombs[e]
  <1>1. PICK f : Folds(f, s, S)
    BY ApplyAllIter
  <1> DEFINE G == {T \in SUBSET S : f[T] \in State /\ s.tombs[e] \subseteq f[T].tombs[e]}
  <1>2. {} \in G
    BY <1>1 DEF Folds
  <1>3. ASSUME NEW T \in SUBSET S, T # {}, \A x \in T : T \ {x} \in G
        PROVE  T \in G
    <2>1. PICK x \in T : f[T] = ApplyOp(x, f[T \ {x}])
      BY <1>1, <1>3 DEF Folds
    <2>2. x \in ClusterOp /\ f[T \ {x}] \in State /\ s.tombs[e] \subseteq f[T \ {x}].tombs[e]
      BY <1>3
    <2>3. ASSUME NEW t \in State PROVE t.tombs[e] \subseteq ApplyOp(x, t).tombs[e]
      BY <2>3 DEF ApplyOp, State
    <2>4. f[T] \in State /\ s.tombs[e] \subseteq f[T].tombs[e]
      BY <2>1, <2>2, <2>3, ApplyOpType
    <2>5. QED
      BY <2>4
  <1>4. S \in G
    <2> HIDE DEF G
    <2>1. QED
      BY <1>2, <1>3, SubsetInduction
  <1>5. QED
    BY <1>1, <1>4 DEF Folds

LEMMA TombsKept ==
    ASSUME Types, OpsInv, [Next]_vars, NEW d \in Device, NEW e \in Elem
    PROVE  state[d].tombs[e] \subseteq state'[d].tombs[e] \/ Pruned(d)
  <1>0. \A x \in Device : state[x] \in State /\ applied[x] \in SUBSET ClusterOp
    BY DEF Types
  <1>1. ASSUME NEW x \in Device, NEW op \in NewOps(x), Ingest(x, op)
        PROVE  state[d].tombs[e] \subseteq state'[d].tombs[e]
    <2>1. state' = [state EXCEPT ![x] = ApplyOp(op, @)]
      BY <1>1 DEF Ingest
    <2>2. state'[d] = state[d] \/ state'[d] = ApplyOp(op, state[d])
      BY <2>1 DEF Types
    <2>3. state[d].tombs[e] \subseteq ApplyOp(op, state[d]).tombs[e]
      BY <1>0 DEF ApplyOp, State
    <2>4. QED
      BY <2>2, <2>3
  <1>2. ASSUME Took(d) PROVE state[d].tombs[e] \subseteq state'[d].tombs[e]
    <2>1. PICK p \in Device : \E S \in SUBSET applied[p] :
             IsFiniteSet(S) /\ state'[d] = ApplyAll(S, state[d])
      BY <1>2 DEF Took
    <2>2. PICK S \in SUBSET applied[p] : IsFiniteSet(S) /\ state'[d] = ApplyAll(S, state[d])
      BY <2>1
    <2>3. QED
      BY <1>0, <2>2, FoldTombs
  <1>3. ASSUME Merged(d) PROVE state[d].tombs[e] \subseteq state'[d].tombs[e]
    BY <1>3 DEF Merged, Merge
  <1>4. QED
    BY <1>1, <1>2, <1>3, ReplicaStep DEF Same

\* gc reclaims a tag only when every member still counted as live has taken in an op at
\* least as late, so that no add it covers can still be on its way from one of them
\* (cluster.rs stability_cut, crdt.rs gc), for every number of members and marks.
THEOREM CollectsOnlyStable == Spec => [][ReclaimsOnlyStable]_vars
  <1>1. Init => MarkInv
    BY EmptyStateType DEF Init, MarkInv, Written
  <1>2. Types /\ OpsInv /\ MarkInv /\ [Next]_vars => MarkInv'
    BY MarkStep
  <1>3. ASSUME Types, OpsInv, MarkInv, [Next]_vars PROVE ReclaimsOnlyStable
    <2> SUFFICES ASSUME NEW d \in Device, NEW e \in Elem, NEW t \in state[d].tombs[e] \ state'[d].tombs[e],
                        NEW m \in View[d] \ {d}, ~IsStale(d, m)
                 PROVE  \E op \in applied[m] : NotAfter(t, op.hlc)
      BY DEF ReclaimsOnlyStable
    <2> DEFINE cut == StabilityCut(d)
               marks == {stability[d][x] : x \in {y \in View[d] \ {d} : ~IsStale(d, y)}} \cup {MaxHlc(state[d])}
    <2>1. Pruned(d)
      BY <1>3, TombsKept
    <2>2. state[d] \in State /\ View[d] \subseteq Device /\ t \in Clock
      BY ClusterAssumption, <1>3, StampIsClock DEF Types, State
    <2>3. state'[d].tombs[e] = state[d].tombs[e] \ Reclaimable(state[d], e, cut)
      BY <2>1, <2>2 DEF Pruned, PruneStable, State
    <2>4. NotAfter(t, cut)
      BY <2>3 DEF Reclaimable
    <2>5. cut \in marks /\ \A h \in marks : NotAfter(cut, h)
      <3>1. marks \in SUBSET Clock
        BY <1>3, <2>2, MaxHlcBelow, StampIsClock DEF Types
      <3>2. IsFiniteSet(marks)
        <4> DEFINE L == {y \in View[d] \ {d} : ~IsStale(d, y)}
                   g == [x \in L |-> stability[d][x]]
                   R == {stability[d][x] : x \in L}
        <4>1. IsFiniteSet(L)
          BY <2>2, ClusterAssumption, FS_Subset
        <4>2. g \in Surjection(L, R)
          BY DEF Surjection
        <4>3. IsFiniteSet(R)
          BY <4>1, <4>2, FS_Surjection
        <4>4. QED
          BY <4>3, FS_AddElement
      <3>3. \E a \in marks : \A h \in marks : NotAfter(a, h)
        <4> HIDE DEF marks
        <4>1. marks # {}
          BY DEF marks
        <4>2. QED
          BY <3>1, <3>2, <4>1, EarliestIsFirst
      <3>4. cut = CHOOSE c \in marks : \A h \in marks : NotAfter(c, h)
        BY DEF StabilityCut
      <3> HIDE DEF marks, cut
      <3>5. QED
        BY <3>3, <3>4
    <2>6. /\ stability[d][m] \in marks /\ stability[d][m] \in Clock /\ cut \in Clock
          /\ Zero \in Clock
      BY <1>3, <2>2, <2>5, MaxHlcBelow, StampIsClock DEF Types
    <2>7. NotAfter(cut, stability[d][m]) /\ cut # Zero
      BY <2>1, <2>5, <2>6 DEF Pruned
    <2>8. stability[d][m] # Zero
      BY <2>6, <2>7, ClockOrder, ClockTransitive
    <2>9. PICK op \in applied[m] : NotAfter(stability[d][m], op.hlc)
      BY <1>3, <2>2, <2>8 DEF MarkInv, Below
    <2>10. op.hlc \in Clock
      BY <1>3, <2>2, StampIsClock DEF Types, ClusterOp
    <2>11. NotAfter(t, op.hlc)
      BY <2>2, <2>4, <2>6, <2>7, <2>9, <2>10, ClockTransitive
    <2>12. QED
      BY <2>11
  <1>4. Types /\ OpsInv /\ MarkInv /\ [Next]_vars => [ReclaimsOnlyStable]_vars
    BY <1>3
  <1>5. QED
    BY <1>1, <1>2, <1>4, Invariant, PTL DEF Spec


=============================================================================
