---------------------------- MODULE PartsProofs -----------------------------
(***************************************************************************)
(* What MCParts checks of the parts whose theorems are proved, for every   *)
(* value of its constants: a behaviour of it that is one of such a part is *)
(* a behaviour of the part's own specification.                            *)
(***************************************************************************)
EXTENDS MCParts, TLAPS

\* A durable delete a device has taken in holds there until a later un-delete, whatever is
\* added, merged, repeated or collected (crdt.rs DeathReg::write, gc), for every number of
\* devices, targets, operations and marks.
THEOREM DeletesStay == Spec => []DurableDeleteHolds
  <1> DEFINE P == part = "gc"
  <1>1. Init /\ P => Gc!Init
    BY DEF Init
  <1>2. P /\ [Next]_vars => P' /\ [Gc!Next]_(Gc!vars)
    BY DEF Next, vars, slots, Gc!vars, ReconNext
  <1>3. ~P /\ [Next]_vars => ~P'
    BY DEF Next, vars, slots, ReconNext
  <1>4. Gc!Init /\ [][Gc!Next]_(Gc!vars) => []Gc!DurableDeleteHolds
    <2>1. Gc!ClusterStateAssumption /\ Gc!ClusterAssumption
      BY PartsAssumption DEF PartsAssumption
    <2>2. QED
      BY <2>1, Gc!DeletesHold DEF Gc!Spec
  <1>5. (P => Gc!DurableDeleteHolds) => DurableDeleteHolds
    BY DEF DurableDeleteHolds
  <1> HIDE DEF P
  <1>6. QED
    BY <1>1, <1>2, <1>3, <1>4, <1>5, PTL DEF Spec

\* backfill_from leaves two replicas with the same objects and metadata, and gc reclaims a
\* tag only when every member still counted as live has taken in an op at least as late
\* (cluster.rs backfill_from, stability_cut).
THEOREM CollectionStaysSafe == Spec => CollectionIsSafe
  <1> DEFINE P == part = "gc"
  <1>1. Init /\ P => Gc!Init
    BY DEF Init
  <1>2. P /\ [Next]_vars => P' /\ [Gc!Next]_(Gc!vars)
    BY DEF Next, vars, slots, Gc!vars, ReconNext
  <1>3. ~P /\ [Next]_vars => ~P'
    BY DEF Next, vars, slots, ReconNext
  <1>4. /\ Gc!Init /\ [][Gc!Next]_(Gc!vars) => [][Gc!BackfillEqualises]_(Gc!vars)
        /\ Gc!Init /\ [][Gc!Next]_(Gc!vars) => [][Gc!ReclaimsOnlyStable]_(Gc!vars)
    <2>1. Gc!ClusterStateAssumption /\ Gc!ClusterAssumption
      BY PartsAssumption DEF PartsAssumption
    <2>2. Gc!Spec => [][Gc!BackfillEqualises]_(Gc!vars)
      BY <2>1, Gc!BackfillAgrees
    <2>3. Gc!Spec => [][Gc!ReclaimsOnlyStable]_(Gc!vars)
      BY <2>1, Gc!CollectsOnlyStable
    <2>4. QED
      BY <2>2, <2>3 DEF Gc!Spec
  <1> DEFINE Safe == part = "gc" => Gc!BackfillEqualises /\ Gc!ReclaimsOnlyStable
  <1>5. [Gc!BackfillEqualises]_(Gc!vars) /\ [Gc!ReclaimsOnlyStable]_(Gc!vars) /\ P /\ [Next]_vars
        => [Safe]_vars
    BY DEF Next, vars, slots, Gc!vars, ReconNext
  <1>6. ~P => [Safe]_vars
    OBVIOUS
  <1>7. CollectionIsSafe <=> [][Safe]_vars
    BY DEF CollectionIsSafe
  <1> HIDE DEF P, Safe
  <1>8. QED
    BY <1>1, <1>2, <1>3, <1>4, <1>5, <1>6, <1>7, PTL DEF Spec

\* What a node accepted within the window it recognises, unless the cap made room, and
\* the two halves of its dedup set agree (seen.rs SeenSet), for every window and cap,
\* also when the clock was set back.
THEOREM DedupStaysSound == Spec => []DedupIsSound
  <1> DEFINE P == part = "seen"
  <1>1. Init /\ P => Kept!Seen!Init
    BY DEF Init
  <1>2. P /\ [Next]_vars => P' /\ [Kept!Seen!Next]_(Kept!Seen!vars)
    BY DEF Next, vars, slots, Kept!Seen!vars, ReconNext
  <1>3. ~P /\ [Next]_vars => ~P'
    BY DEF Next, vars, slots, ReconNext
  <1>4. Kept!Seen!Init /\ [][Kept!Seen!Next]_(Kept!Seen!vars) => []Kept!Seen!DedupIsSound
    <2>1. Kept!Seen!SeenAssumption
      BY PartsAssumption DEF PartsAssumption
    <2>2. QED
      BY <2>1, Kept!SeenIsSound DEF Kept!Seen!Spec
  <1>5. (P => Kept!Seen!DedupIsSound) => DedupIsSound
    BY DEF DedupIsSound
  <1> HIDE DEF P
  <1>6. QED
    BY <1>1, <1>2, <1>3, <1>4, <1>5, PTL DEF Spec

\* However MOTEs, prunings and refusals interleave, a connection costs at most two budgets
\* of memory-hard work in any window's length and one more per drop of the table, which
\* stays in its cap (pow.rs PowVerifyBudget::allow, prune), for every size of them.
THEOREM BudgetIsNeverOverdrawn == Spec => []BudgetHolds
  <1> DEFINE P == part = "pow"
  <1>1. Init /\ P => Kept!Pow!Init
    BY DEF Init
  <1>2. P /\ [Next]_vars => P' /\ [Kept!Pow!Next]_(Kept!Pow!vars)
    BY DEF Next, vars, slots, Kept!Pow!vars, ReconNext
  <1>3. ~P /\ [Next]_vars => ~P'
    BY DEF Next, vars, slots, ReconNext
  <1>4. Kept!Pow!Init /\ [][Kept!Pow!Next]_(Kept!Pow!vars) => []Kept!Pow!BudgetHolds
    <2>1. Kept!Pow!PowAssumption
      BY PartsAssumption DEF PartsAssumption
    <2>2. QED
      BY <2>1, Kept!BudgetIsKept DEF Kept!Pow!Spec
  <1>5. (P => Kept!Pow!BudgetHolds) => BudgetHolds
    BY DEF BudgetHolds
  <1> HIDE DEF P
  <1>6. QED
    BY <1>1, <1>2, <1>3, <1>4, <1>5, PTL DEF Spec

\* Every connection is charged for exactly the slots it opened and the cells they hold, and
\* holds no more than its share, whoever delivers the cells (reassembly.rs
\* ReassemblyCache::accept, prune, remove_partial), for every cap, timeout and order of cells.
THEOREM SharesAlwaysHold == Spec => []SharesHold
  <1> DEFINE P == part = "cells"
  <1>1. Init /\ P => Kept!Cache!Init
    BY DEF Init
  <1>2. P /\ [Next]_vars => P' /\ [Kept!Cache!Next]_(Kept!Cache!vars)
    BY DEF Next, vars, slots, Kept!Cache!vars, ReconNext
  <1>3. ~P /\ [Next]_vars => ~P'
    BY DEF Next, vars, slots, ReconNext
  <1>4. Kept!Cache!Init /\ [][Kept!Cache!Next]_(Kept!Cache!vars) => []Kept!Cache!SharesHold
    <2>1. Kept!Cache!ReassemblyAssumption
      BY PartsAssumption DEF PartsAssumption
    <2>2. QED
      BY <2>1, Kept!SharesAreKept DEF Kept!Cache!Spec
  <1>5. (P => Kept!Cache!SharesHold) => SharesHold
    BY DEF SharesHold
  <1> HIDE DEF P
  <1>6. QED
    BY <1>1, <1>2, <1>3, <1>4, <1>5, PTL DEF Spec

\* However inits, prunings, failed writes, restarts, set_now and reconfigurations interleave,
\* no more are accepted, in all and of each initiator, than the bursts and the refills allow,
\* besides those whose write failed before a restart and a burst and one for each time a node stood
\* at the boot clock; none is accepted twice (deniable.rs DeniableAdmission::admit, prune;
\* session.rs DeniableResponder::accept; node.rs deniable_accept, set_now), for every size of
\* the buckets and every bundle.
THEOREM AdmissionsStay == Spec => []AdmissionHolds
  <1> DEFINE P == part = "accept"
  <1>1. Init /\ P => Kept!Gate!Init
    BY DEF Init
  <1>2. P /\ [Next]_vars => P' /\ [Kept!Gate!Next]_(Kept!Gate!vars)
    BY DEF Next, vars, slots, Kept!Gate!vars, Kept!Gate!clock, Kept!Gate!gate, Kept!Gate!responder,
       Kept!Gate!history, ReconNext
  <1>3. ~P /\ [Next]_vars => ~P'
    BY DEF Next, vars, slots, ReconNext
  <1>4. Kept!Gate!Init /\ [][Kept!Gate!Next]_(Kept!Gate!vars) => []Kept!Gate!AdmissionHolds
    <2>1. Kept!Gate!AcceptAssumption
      BY PartsAssumption DEF PartsAssumption
    <2>2. QED
      BY <2>1, Kept!AdmissionStays DEF Kept!Gate!Spec
  <1>5. (P => Kept!Gate!AdmissionHolds) => AdmissionHolds
    BY DEF AdmissionHolds
  <1> HIDE DEF P
  <1>6. QED
    BY <1>1, <1>2, <1>3, <1>4, <1>5, PTL DEF Spec

\* Whatever is lost, repeated or reordered, every message not opened yet opens now unless
\* more of the earlier ones are missing than may be skipped, both parties deriving the same
\* key; an opened one never opens again and no key of it is kept; no two messages have one
\* key (ratchet.rs encrypt, decrypt_staged, skip, dh_ratchet; session.rs initiate, accept),
\* for every number of messages and every limit.
THEOREM RatchetsStaySound == Spec => []RatchetIsSound
  <1> DEFINE P == part = "ratchet"
  <1>1. Init /\ P => Kept!Ratchet!Init
    BY DEF Init
  <1>2. P /\ [Next]_vars => P' /\ [Kept!Ratchet!Next]_(Kept!Ratchet!vars)
    BY DEF Next, vars, slots, Kept!Ratchet!vars, ReconNext
  <1>3. ~P /\ [Next]_vars => ~P'
    BY DEF Next, vars, slots, ReconNext
  <1>4. Kept!Ratchet!Init /\ [][Kept!Ratchet!Next]_(Kept!Ratchet!vars) => []Kept!Ratchet!RatchetIsSound
    <2>1. Kept!Ratchet!RatchetAssumption
      BY PartsAssumption DEF PartsAssumption
    <2>2. QED
      BY <2>1, Kept!RatchetStaysSound DEF Kept!Ratchet!Spec
  <1>5. (P => Kept!Ratchet!RatchetIsSound) => RatchetIsSound
    BY DEF RatchetIsSound
  <1> HIDE DEF P
  <1>6. QED
    BY <1>1, <1>2, <1>3, <1>4, <1>5, PTL DEF Spec

\* When a reconciliation has no range left, each side has been told exactly the ids it
\* lacks, each once: no range is lost between two sub-ranges and none is visited twice
\* (recon.rs recon_range, subranges), for every pair of id sets, fan-out, leaf threshold
\* and size of the id space.
THEOREM ReconciliationsAreExact == Spec => []ReconcileExact
  <1> DEFINE P == part = "recon"
  <1>1. Init /\ P => Kept!Recon!Init
    BY DEF Init
  <1>2. P /\ [Next]_vars => P' /\ [Kept!Recon!ReconRange]_(Kept!Recon!vars)
    BY DEF Next, vars, slots, Kept!Recon!vars, ReconNext
  <1>3. ~P /\ [Next]_vars => ~P'
    BY DEF Next, vars, slots, ReconNext
  <1>4. Kept!Recon!Init /\ [][Kept!Recon!ReconRange]_(Kept!Recon!vars) => []Kept!Recon!ReconcileExact
    <2>1. Kept!Recon!ReconAssumption
      BY PartsAssumption DEF PartsAssumption
    <2>2. QED
      BY <2>1, Kept!ReconcileStaysExact
  <1>5. (P => Kept!Recon!ReconcileExact) => ReconcileExact
    BY DEF ReconcileExact
  <1> HIDE DEF P
  <1>6. QED
    BY <1>1, <1>2, <1>3, <1>4, <1>5, PTL DEF Spec

\* A replay that verify_segment accepts leaves the follower with the owner's log and no
\* other, and what the owner keeps is the end of its log, chained entry by entry
\* (journal.rs append_ref, truncate_before, verify_segment), for every number of entries,
\* truncations and rewrites.
THEOREM ReplaysFollowOneLog == Spec => ReplayFollowsOneLog
  <1> DEFINE P == part = "journal"
  <1>1. Init /\ P => Kept!Journal!Init
    BY DEF Init
  <1>2. P /\ [Next]_vars => P' /\ [Kept!Journal!Next]_(Kept!Journal!vars)
    BY DEF Next, vars, slots, Kept!Journal!vars, ReconNext
  <1>3. ~P /\ [Next]_vars => ~P'
    BY DEF Next, vars, slots, ReconNext
  <1> DEFINE OneLog == Kept!Journal!ReplayIsLog /\ Kept!Journal!SuffixVerifies'
  <1>4. Kept!Journal!Init /\ [][Kept!Journal!Next]_(Kept!Journal!vars) => [][OneLog]_(Kept!Journal!vars)
    BY Kept!FollowersReplayOneLog DEF Kept!Journal!Spec
  <1> DEFINE Followed == part = "journal" => OneLog
  <1>5. [OneLog]_(Kept!Journal!vars) /\ P /\ [Next]_vars => [Followed]_vars
    BY DEF Next, vars, slots, Kept!Journal!vars, ReconNext
  <1>6. ~P => [Followed]_vars
    OBVIOUS
  <1>7. ReplayFollowsOneLog <=> [][Followed]_vars
    BY DEF ReplayFollowsOneLog
  <1> HIDE DEF P, OneLog, Followed
  <1>8. QED
    BY <1>1, <1>2, <1>3, <1>4, <1>5, <1>6, <1>7, PTL DEF Spec

=============================================================================
