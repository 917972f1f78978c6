---------------------------- MODULE ClusterRecon ----------------------------
(***************************************************************************)
(* Range reconciliation of two id sets                                     *)
(* (crates/dmtap-clustersync/src/recon.rs): a range whose fingerprints     *)
(* match is skipped, a divergent one is split or, once small, enumerated.  *)
(* The recursion is a stack of ranges; a fingerprint is the set it hashes; *)
(* an id is its 128-bit prefix, here a number below Top.  (Every id starts *)
(* with the multihash byte, so none has the prefix u128::MAX.)             *)
(***************************************************************************)
EXTENDS Integers, Sequences, FiniteSets, Functions

CONSTANTS
    Top,        \* u128::MAX: the id space is 0..Top-1
    Fanout,     \* ReconConfig::fanout
    Leaf        \* ReconConfig::leaf_threshold

ReconAssumption == Top \in Nat \ {0} /\ Fanout \in Nat /\ Leaf \in Nat

VARIABLES
    local, peer,        \* the two id sets
    work,               \* the ranges still to compare, next first
    localMissing,       \* ReconOutcome::local_missing, in the order found
    peerMissing         \* ReconOutcome::peer_missing

vars == <<local, peer, work, localMissing, peerMissing>>

Init ==
    /\ local \in SUBSET (0..Top - 1) /\ peer \in SUBSET (0..Top - 1)
    /\ work = <<<<0, Top>>>>
    /\ localMissing = <<>> /\ peerMissing = <<>>

InRange(S, r) == {id \in S : r[1] <= id /\ id < r[2]}

\* Mutant: the last sub-range loses the remainder of the division.
SubrangesShort(r) ==
    LET b == IF Fanout < 2 THEN 2 ELSE Fanout
        width == r[2] - r[1]
        step == width \div b
    IN  IF width <= b THEN <<r>>
        ELSE [i \in 1..b |-> <<r[1] + step * (i - 1), r[1] + step * i>>]

\* Mutant: a range too narrow to divide is divided all the same.
SubrangesAlways(r) ==
    LET b == IF Fanout < 2 THEN 2 ELSE Fanout
        step == (r[2] - r[1]) \div b
    IN  [i \in 1..b |-> <<r[1] + step * (i - 1), IF i = b THEN r[2] ELSE r[1] + step * i>>]

Subranges(r) ==
    LET b == IF Fanout < 2 THEN 2 ELSE Fanout
        width == r[2] - r[1]
        step == width \div b
    IN  IF width <= b THEN <<r>>
        ELSE [i \in 1..b |-> <<r[1] + step * (i - 1), IF i = b THEN r[2] ELSE r[1] + step * i>>]

Enumerates(r) ==
    \/ Cardinality(InRange(local, r)) <= Leaf /\ Cardinality(InRange(peer, r)) <= Leaf
    \/ Subranges(r) = <<r>>

Skip(r) ==
    /\ InRange(local, r) = InRange(peer, r)
    /\ work' = Tail(work)
    /\ UNCHANGED <<localMissing, peerMissing>>

\* A set of ids as the B-tree lists it.
InOrder(S) ==
    CHOOSE s \in [1..Cardinality(S) -> S] : \A i, j \in DOMAIN s : i < j => s[i] < s[j]

Enumerate(r) ==
    /\ InRange(local, r) # InRange(peer, r) /\ Enumerates(r)
    /\ work' = Tail(work)
    /\ localMissing' = localMissing \o InOrder(InRange(peer, r) \ local)
    /\ peerMissing' = peerMissing \o InOrder(InRange(local, r) \ peer)

DrillDown(r) ==
    /\ InRange(local, r) # InRange(peer, r) /\ ~Enumerates(r)
    /\ work' = Subranges(r) \o Tail(work)
    /\ UNCHANGED <<localMissing, peerMissing>>

ReconRange ==
    /\ work # <<>>
    /\ Skip(Head(work)) \/ Enumerate(Head(work)) \/ DrillDown(Head(work))
    /\ UNCHANGED <<local, peer>>

Done == work = <<>>

Spec == Init /\ [][ReconRange]_vars /\ WF_vars(ReconRange)

-----------------------------------------------------------------------------
\* When no range is left, each side has been told exactly the ids it lacks, each
\* once: no range lost between two sub-ranges, none visited twice.
ReconcileExact ==
    Done =>
        /\ Range(localMissing) = peer \ local /\ IsInjective(localMissing)
        /\ Range(peerMissing) = local \ peer /\ IsInjective(peerMissing)

=============================================================================
