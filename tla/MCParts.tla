------------------------------- MODULE MCParts ------------------------------
(***************************************************************************)
(* Small instances of the parts that keep state of their own: a node's     *)
(* dedup set, proof-of-work budget, cell cache, deniable session and       *)
(* admission gate, and a cluster's tombstone collection, reconciliation    *)
(* and journal.  None of them reads another, so a behaviour is that of one *)
(* of them, `part'.  The parts take turns with the variables: `slots' hold *)
(* the variables of the part in the order its module declares them, and    *)
(* those it has no use for are 0.  A part about which a theorem is proved  *)
(* comes from the module of its proof and has its sizes as constants here. *)
(***************************************************************************)
EXTENDS Integers

CONSTANTS
    Device, View, Elem, Object, Kinds, Skew, Liveness, Collects,    \* devices that collect
    MaxOps, MaxMarks, MaxFrame, MaxWall,                            \* tombstones
    Id, Window, Cap, MaxNow, MaxSteps,                              \* the dedup set
    Conn, PowWindow, MaxPerWindow, MaxConns, PowNow, MaxClears,     \* the budget
    Source, MsgId, Ladder, Lengths, Timeout,                        \* the cell cache
    MaxMotes, MaxCells, MaxMotesPerConn, MaxCellsPerConn, CellNow,
    Initiator, GlobalBurst, GlobalRefill, SourceBurst, SourceRefill,  \* the admission gate
    OpkCounts, MaxTags, PruneAt, GateStart, GateNow, MaxCrash, MaxSaveFail,
    MaxOpen, MaxBundle, MaxConfigure,
    MaxSkip, MaxSkipped, MaxSent,                                   \* a deniable session
    Top, Fanout, Leaf,                                              \* the reconciliation
    Ref, MaxSeq, MaxFork                                            \* the journal

VARIABLES part, s1, s2, s3, s4, s5, s6, s7, s8, s9, s10, s11, s12, s13, s14, s15, s16

slots == <<s1, s2, s3, s4, s5, s6, s7, s8, s9, s10, s11, s12, s13, s14, s15, s16>>
vars == <<part, slots>>

\* The slots from the n-th on are out of use.
Spare(n) ==
    /\ IF n <= 5 THEN s5 = 0 ELSE TRUE
    /\ IF n <= 6 THEN s6 = 0 ELSE TRUE
    /\ IF n <= 7 THEN s7 = 0 ELSE TRUE
    /\ IF n <= 8 THEN s8 = 0 ELSE TRUE
    /\ IF n <= 9 THEN s9 = 0 ELSE TRUE
    /\ IF n <= 10 THEN s10 = 0 ELSE TRUE
    /\ IF n <= 11 THEN s11 = 0 ELSE TRUE
    /\ IF n <= 12 THEN s12 = 0 ELSE TRUE
    /\ IF n <= 13 THEN s13 = 0 ELSE TRUE
    /\ IF n <= 14 THEN s14 = 0 ELSE TRUE
    /\ IF n <= 15 THEN s15 = 0 ELSE TRUE
    /\ IF n <= 16 THEN s16 = 0 ELSE TRUE

-----------------------------------------------------------------------------
\* More ids than the cap, a clock that runs past the window; more connections than the
\* table holds, time for two windows; one MOTE more than the cache has slots, three cells
\* each, a timeout of one; two initiators, buckets that empty and refill, a first set_now
\* that fills those of the boot clock, bundles with and without prekeys; messages for several
\* turns and for gaps in two chains; a range that neither its width nor its sub-ranges divide
\* evenly; entries enough to cut off, and a fork.
Kept == INSTANCE KeptProofs WITH
    entries <- s1, order <- s2, now <- s3, accepted <- s4, setBack <- s5,
    conns <- s1, clock <- s2, runs <- s3, cleared <- s4,
    partials <- s1, usage <- s2, received <- s3, result <- s4,
    moment <- s1, global <- s2, perSource <- s3, disk <- s4, spk <- s5, opks <- s6, tags <- s7,
    bundles <- s8, opened <- s9, admitted <- s10, unsaved <- s11, given <- s12, since <- s13,
    used <- s14, wall <- s15, boots <- s16,
    ratchet <- s1, joined <- s2, sent <- s3, read <- s4,
    local <- s1, peer <- s2, ranges <- s3, localMissing <- s4, peerMissing <- s5,
    journal <- s1, log <- s2, anchor <- s3, learned <- s4, forks <- s5

\* Everyone is a member for everyone.
Everyone == [d \in Device |-> Device]

\* Every op a tombstone can come from; a member is stale one tick after it was last
\* heard of.
Gc == INSTANCE ClusterProofs WITH
    MaxNow <- MaxWall, Puts <- [d \in Device |-> Object],
    now <- s1, state <- s2, objects <- s3, journal <- s4, stability <- s5, lastSeen <-
    s6, net <- s7, applied <- s8

ASSUME PartsAssumption ==
    /\ Kept!Seen!SeenAssumption /\ Kept!Pow!PowAssumption /\ Kept!Cache!ReassemblyAssumption
    /\ Kept!Ratchet!RatchetAssumption /\ Kept!Gate!AcceptAssumption
    /\ Gc!ClusterStateAssumption /\ Gc!ClusterAssumption
    /\ Kept!Recon!ReconAssumption /\ Kept!Journal!JournalAssumption

-----------------------------------------------------------------------------
Init ==
    \/ part = "seen" /\ Kept!Seen!Init /\ Spare(6)
    \/ part = "pow" /\ Kept!Pow!Init /\ Spare(5)
    \/ part = "cells" /\ Kept!Cache!Init /\ Spare(5)
    \/ part = "ratchet" /\ Kept!Ratchet!Init /\ Spare(5)
    \/ part = "accept" /\ Kept!Gate!Init
    \/ part = "gc" /\ Gc!Init /\ Spare(9)
    \/ part = "recon" /\ Kept!Recon!Init /\ Spare(6)
    \/ part = "journal" /\ Kept!Journal!Init /\ Spare(6)

ReconNext == part = "recon" /\ Kept!Recon!ReconRange /\ UNCHANGED <<part, s6, s7, s8, s9, s10, s11, s12, s13, s14, s15, s16>>

Next ==
    \/ part = "seen" /\ Kept!Seen!Next /\ UNCHANGED <<part, s6, s7, s8, s9, s10, s11, s12, s13, s14, s15, s16>>
    \/ part = "pow" /\ Kept!Pow!Next /\ UNCHANGED <<part, s5, s6, s7, s8, s9, s10, s11, s12, s13, s14, s15, s16>>
    \/ part = "cells" /\ Kept!Cache!Next /\ UNCHANGED <<part, s5, s6, s7, s8, s9, s10, s11, s12, s13, s14, s15, s16>>
    \/ part = "ratchet" /\ Kept!Ratchet!Next /\ UNCHANGED <<part, s5, s6, s7, s8, s9, s10, s11, s12, s13, s14, s15, s16>>
    \/ part = "accept" /\ Kept!Gate!Next /\ UNCHANGED <<part>>
    \/ part = "gc" /\ Gc!Next /\ UNCHANGED <<part, s9, s10, s11, s12, s13, s14, s15, s16>>
    \/ ReconNext
    \/ part = "journal" /\ Kept!Journal!Next /\ UNCHANGED <<part, s6, s7, s8, s9, s10, s11, s12, s13, s14, s15, s16>>

\* A reconciliation that was called runs.
Spec == Init /\ [][Next]_vars /\ WF_vars(ReconNext)

-----------------------------------------------------------------------------
\* The queue of seen.rs holds exactly the ids of its map, each once, within the cap,
\* also after the clock was set back; and while the clock only advances, contains()
\* recognises an id accepted within the window unless the cap made room for Cap others.
DedupIsSound == part = "seen" => Kept!Seen!DedupIsSound

\* In any stretch of one window, allow() lets a connection cause at most two budgets of
\* memory-hard work and one more per drop of the table, and the table stays in its cap.
BudgetHolds == part = "pow" => Kept!Pow!BudgetHolds

\* conn_usage counts exactly the open slots and cells of each connection, through
\* completion, supersession, timeout and eviction by others, and no connection holds
\* more than its share, whoever delivers its cells.
SharesHold == part = "cells" => Kept!Cache!SharesHold

\* Every message sent and not yet opened can be opened now, whatever arrived before it,
\* unless more of the earlier ones are missing than the limits on skipped keys allow; none
\* is opened twice; no two are sealed under one key; kept keys stay within their limit;
\* and no message meets a session without a receiving chain (the "expect" in
\* decrypt_staged).
RatchetIsSound == part = "ratchet" => Kept!Ratchet!RatchetIsSound

\* deniable_accept takes in no more inits, in all and of each initiator, than the burst
\* and the refills since the stored gate was configured, over restarts and prunings; only
\* inits whose checkpoint failed before a restart are not counted, and one more burst and
\* token where a bucket was opened before the first set_now (of an initiator's, in each
\* life).  No init is accepted twice.
AdmissionHolds == part = "accept" => Kept!Gate!AdmissionHolds

\* A durable delete a device has taken in holds there until a later un-delete:
\* no add, merge, repeated frame or collection brings the object back.
DurableDeleteHolds == part = "gc" => Gc!DurableDeleteHolds

\* backfill_from leaves the two replicas with the same objects and observable metadata,
\* and gc reclaims a tag only when every member still counted as live has taken in an op
\* at least as late.
CollectionIsSafe == [][part = "gc" => Gc!BackfillEqualises /\ Gc!ReclaimsOnlyStable]_vars

\* When reconcile returns, each side has been told exactly the ids it lacks, each
\* once: no range lost between two sub-ranges, none visited twice.
ReconcileExact == part = "recon" => Kept!Recon!ReconcileExact

\* The drill-down ends for every pair of sets.
Terminates == <>(part = "recon" => Kept!Recon!Done)

\* A replay that verify_segment accepts leaves the follower with the owner's log and no
\* other, through truncations and rewrites, and what the owner keeps is the end of its
\* log, chained entry by entry.
ReplayFollowsOneLog ==
    [][part = "journal" => Kept!Journal!ReplayIsLog /\ Kept!Journal!SuffixVerifies']_vars

=============================================================================
