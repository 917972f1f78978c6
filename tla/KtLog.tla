-------------------------------- MODULE KtLog -------------------------------
(***************************************************************************)
(* The transparency log and its proofs (crates/dmtap-naming: merkle.rs,    *)
(* kt.rs): an RFC 6962 tree that grows leaf by leaf, proofs that a leaf is *)
(* in it and that it extends an older one, and a client that follows a log *)
(* which may show different branches at different times.  A hash is the    *)
(* bracketed sequence of what it hashes, so different inputs never collide.*)
(***************************************************************************)
EXTENDS Integers, Sequences, SequencesExt, FiniteSetsExt

CONSTANTS
    Leaf,               \* leaf hashes: name, key, version and content address
    Branch,             \* histories the log may show
    MaxLeaves, MaxHeads \* bounds: leaves of all branches, heads a client accepts

KtAssumption == Leaf \subseteq Nat /\ {MaxLeaves, MaxHeads} \subseteq Nat

VARIABLES
    tree,       \* MerkleTree::leaves, on every branch
    heads       \* signed tree heads the client accepted, with the leaves behind them

vars == <<tree, heads>>

Init == tree = [b \in Branch |-> <<>>] /\ heads = <<>>

Node(l, r) == <<-1>> \o l \o r \o <<-2>>

\* split_point: the largest power of two below n.
SplitPoint(n) == LET k == {2 ^ e : e \in 0..MaxLeaves} IN CHOOSE p \in k : p < n /\ 2 * p >= n

\* mth of the leaves after lo up to hi.
Mth(ls, from, to) ==
    LET h[lo \in 0..Len(ls), hi \in 0..Len(ls)] ==
            IF hi - lo = 1 THEN <<ls[hi]>>
            ELSE LET k == lo + SplitPoint(hi - lo) IN Node(h[lo, k], h[k, hi])
    IN  h[from, to]

Root(ls) == Mth(ls, 0, Len(ls))

\* audit_path of the leaf with index m.
AuditPath(m, ls) ==
    LET path[lo \in 0..Len(ls), hi \in 0..Len(ls)] ==
            IF hi - lo <= 1 THEN <<>>
            ELSE LET k == lo + SplitPoint(hi - lo)
                 IN  IF m < k THEN Append(path[lo, k], Mth(ls, k, hi))
                     ELSE Append(path[k, hi], Mth(ls, lo, k))
    IN  path[0, Len(ls)]

\* Mutant: the subtree that is the old tree is never sent.
SubproofShort(m, ls) ==
    LET sub[lo \in 0..Len(ls), hi \in 0..Len(ls)] ==
            IF m = hi THEN <<>>
            ELSE LET k == lo + SplitPoint(hi - lo)
                 IN  IF m <= k THEN Append(sub[lo, k], Mth(ls, k, hi))
                     ELSE Append(sub[k, hi], Mth(ls, lo, k))
    IN  sub[0, Len(ls)]

\* subproof: the old tree's root is the client's own, unless it became a part.
Subproof(m, ls) ==
    LET sub[lo \in 0..Len(ls), hi \in 0..Len(ls), b \in BOOLEAN] ==
            IF m = hi THEN IF b THEN <<>> ELSE <<Mth(ls, lo, hi)>>
            ELSE LET k == lo + SplitPoint(hi - lo)
                 IN  IF m <= k THEN Append(sub[lo, k, b], Mth(ls, k, hi))
                     ELSE Append(sub[k, hi, FALSE], Mth(ls, lo, k))
    IN  sub[0, Len(ls), TRUE]

-----------------------------------------------------------------------------
Odd(n) == n % 2 = 1

\* How often both indices shift until the first is odd or zero.
Shifts(i) == CHOOSE e \in 0..MaxLeaves : LET at(d) == Odd(i \div 2 ^ d) \/ i \div 2 ^ d = 0
                                         IN  at(e) /\ \A d \in 0..e - 1 : ~at(d)

\* Mutant: a node without a sibling is not lifted.
LiftsNot(i, last) == FALSE

\* The node at the right edge whose sibling is levels further up.
Lifts(i, last) == ~Odd(i) /\ i = last

\* verify_inclusion
VerifyInclusion(index, size, leaf, path, root) ==
    LET step(acc, p) ==
            LET left == Odd(acc.i) \/ acc.i = acc.last
                e == IF Lifts(acc.i, acc.last) THEN Shifts(acc.i) + 1 ELSE 1
            IN  [i |-> acc.i \div 2 ^ e, last |-> acc.last \div 2 ^ e,
                 r |-> IF left THEN Node(p, acc.r) ELSE Node(acc.r, p),
                 ok |-> acc.ok /\ acc.last # 0]
        end == FoldLeft(step, [i |-> index, last |-> size - 1, r |-> <<leaf>>, ok |-> TRUE], path)
    IN  index < size /\ end.ok /\ end.last = 0 /\ end.r = root

\* core::kt::verify_consistency, RFC 6962 section 2.1.4
VerifyConsistency(old, new, path) ==
    LET whole == old.size = 2 ^ Shifts(old.size)
        full == IF whole THEN <<old.root>> \o path ELSE path
        \* shift out the complete subtrees on the right of the old tree
        e == CHOOSE d \in 0..MaxLeaves : /\ ~Odd((old.size - 1) \div 2 ^ d)
                                         /\ \A c \in 0..d - 1 : Odd((old.size - 1) \div 2 ^ c)
        step(acc, p) ==
            LET left == Odd(acc.i) \/ acc.i = acc.last
                lift == IF left /\ ~Odd(acc.i) THEN Shifts(acc.i) + 1 ELSE 1
            IN  [i |-> acc.i \div 2 ^ lift, last |-> acc.last \div 2 ^ lift,
                 old |-> IF left THEN Node(p, acc.old) ELSE acc.old,
                 new |-> IF left THEN Node(p, acc.new) ELSE Node(acc.new, p),
                 ok |-> acc.ok /\ acc.last # 0]
        end == FoldLeft(step, [i |-> (old.size - 1) \div 2 ^ e, last |-> (new.size - 1) \div 2 ^ e,
                               old |-> Head(full), new |-> Head(full), ok |-> TRUE], Tail(full))
    IN  IF old.size = new.size THEN path = <<>> /\ old.root = new.root
        ELSE /\ old.size < new.size /\ full # <<>>
             /\ end.ok /\ end.last = 0
             /\ end.old = old.root /\ end.new = new.root

-----------------------------------------------------------------------------
\* append_leaf, also of a leaf that is there already.
AppendLeaf(b, x) ==
    /\ MapThenSumSet(LAMBDA c : Len(tree[c]), Branch) < MaxLeaves
    /\ tree' = [tree EXCEPT ![b] = Append(@, x)]
    /\ UNCHANGED heads

Sth(ls) == [size |-> Len(ls), root |-> Root(ls)]

\* prove: the proof of a leaf, at the index it was appended at last; a log that does not
\* hold it, or cannot be reached, has none.
Prove(ls, x) ==
    LET m == Max({n \in DOMAIN ls : ls[n] = x}) - 1
    IN  [size |-> Len(ls), index |-> m, leaf |-> x, path |-> AuditPath(m, ls)]

\* verify_attestation: of the leaf the client recomputes from name and identity, under
\* the head that came with the proof.
VerifyAttestation(sth, proof, x) ==
    /\ proof.size = sth.size
    /\ proof.leaf = x
    /\ VerifyInclusion(proof.index, proof.size, proof.leaf, proof.path, sth.root)

\* consistency_proof: the path from an older size, if there is one.
ConsistencyPath(m, ls) == IF m = Len(ls) THEN <<>> ELSE Subproof(m, ls)

\* detect_equivocation: two heads of one size and different roots.
Equivocates(a, b) == a.size = b.size /\ a.root # b.root

\* Mutant: only the sizes are compared.
ExtendsBySize(old, new, path) == old.size <= new.size

\* verify_sth_consistency
Extends(old, new, path) == ~Equivocates(old, new) /\ VerifyConsistency(old, new, path)

\* The first head is taken as it is, a later one only as an
\* extension of the one before.
Follow(b) ==
    LET new == Sth(tree[b])
        old == Last(heads).sth
    IN  /\ tree[b] # <<>> /\ Len(heads) < MaxHeads
        /\ heads # <<>> => /\ old.size <= new.size
                           /\ Extends(old, new, ConsistencyPath(old.size, tree[b]))
        /\ heads' = Append(heads, [sth |-> new, leaves |-> tree[b]])
        /\ UNCHANGED tree

Next ==
    \/ \E b \in Branch, x \in Leaf : AppendLeaf(b, x)
    \/ \E b \in Branch : Follow(b)

Spec == Init /\ [][Next]_vars

-----------------------------------------------------------------------------
\* Every leaf's proof is accepted under the tree's head, and what any proof of the log is
\* accepted for is a leaf at that very index.
InclusionExact ==
    \A b \in Branch :
        LET ls == tree[b]
        IN  /\ \A x \in Range(ls) : VerifyAttestation(Sth(ls), Prove(ls, x), x)
            /\ \A m \in 0..Len(ls) - 1 :
                LET path == AuditPath(m, ls)
                    accepts(j, x) == VerifyInclusion(j, Len(ls), x, path, Root(ls))
                IN  /\ accepts(m, ls[m + 1])
                    /\ \A j \in 0..Len(ls) : \A x \in Leaf : accepts(j, x) => j < Len(ls) /\ ls[j + 1] = x

\* The heads a client accepts are of trees that extend each other, whichever branches the
\* log shows it.
HeadsExtend == \A n \in DOMAIN heads : n > 1 => IsPrefix(heads[n - 1].leaves, heads[n].leaves)

\* A log that only grows is never refused: from every size it had there is a proof.
GrowthIsProvable ==
    \A b \in Branch : \A m \in 1..Len(tree[b]) :
        VerifyConsistency(Sth(SubSeq(tree[b], 1, m)), Sth(tree[b]), ConsistencyPath(m, tree[b]))

\* The log proves what it holds and that it grew, and nothing else.
LogIsSound == InclusionExact /\ HeadsExtend /\ GrowthIsProvable

=============================================================================
