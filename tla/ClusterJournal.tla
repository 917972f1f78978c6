--------------------------- MODULE ClusterJournal ---------------------------
(***************************************************************************)
(* The hash-chained journal of a cluster account                           *)
(* (crates/dmtap-clustersync/src/journal.rs) and a device that follows it  *)
(* from the last entry it replayed.  The hash of an entry is the entry:    *)
(* it commits to everything before it.                                     *)
(***************************************************************************)
EXTENDS Integers, Sequences

CONSTANTS
    Ref,        \* object ids and op hashes
    MaxSeq,     \* bound: entries in a journal
    MaxFork     \* bound: times the owner's log is rewritten

JournalAssumption == MaxSeq \in Nat /\ MaxFork \in Nat

VARIABLES
    entries,    \* Journal::entries of the owner
    log,        \* history: the references of the owner's present log, from genesis
    anchor,     \* the follower: hash of the last entry it replayed, next seq
    learned,    \* the follower: the references it replayed
    forks

vars == <<entries, log, anchor, learned, forks>>

Genesis == <<>>

EntryHash(e) == <<e.seq, e.prev, e.reference>>

Init ==
    /\ entries = <<>> /\ log = <<>> /\ forks = 0
    /\ anchor = [prev |-> Genesis, seq |-> 0] /\ learned = <<>>

HeadPrev(s) == IF s = <<>> THEN Genesis ELSE EntryHash(s[Len(s)])

\* Mutant: the next number is the number of entries kept.
NextSeqByLength(s) == Len(s)

NextSeq(s) == IF s = <<>> THEN 0 ELSE s[Len(s)].seq + 1

Appended(s, ref) == Append(s, [seq |-> NextSeq(s), prev |-> HeadPrev(s), reference |-> ref])

AppendRef(ref) ==
    /\ Len(log) < MaxSeq
    /\ entries' = Appended(entries, ref) /\ log' = Append(log, ref)
    /\ UNCHANGED <<anchor, learned, forks>>

\* retain: the entries from a sequence number on, in their order.
Retained(s, from) ==
    LET kept[n \in 0..Len(s)] ==
            IF n = 0 THEN <<>>
            ELSE IF s[n].seq >= from THEN Append(kept[n - 1], s[n]) ELSE kept[n - 1]
    IN  kept[Len(s)]

\* The caller's obligation: the follower has replayed past the entry kept first.
TruncateBefore(from) ==
    /\ from < anchor.seq /\ from < NextSeq(entries)
    /\ entries' = Retained(entries, from)
    /\ UNCHANGED <<log, anchor, learned, forks>>

\* external: the owner's log is restored from an older copy and goes on from there.
Fork(ref) ==
    /\ forks < MaxFork /\ Len(entries) > 1
    /\ entries' = Appended(SubSeq(entries, 1, Len(entries) - 1), ref)
    /\ log' = Append(SubSeq(log, 1, Len(log) - 1), ref)
    /\ forks' = forks + 1
    /\ UNCHANGED <<anchor, learned>>

\* Mutant: only the sequence numbers are checked.
VerifySegmentSeqOnly(s, prev, seq) ==
    \A i \in 1..Len(s) : s[i].seq = seq + i - 1

VerifySegment(s, prev, seq) ==
    \A i \in 1..Len(s) : /\ s[i].prev = (IF i = 1 THEN prev ELSE EntryHash(s[i - 1]))
                         /\ s[i].seq = seq + i - 1

\* The follower takes the suffix it has not seen; a broken chain halts it.
Replay ==
    LET seg == Retained(entries, anchor.seq) IN
    /\ seg # <<>>
    /\ VerifySegment(seg, anchor.prev, anchor.seq)
    /\ learned' = learned \o [i \in 1..Len(seg) |-> seg[i].reference]
    /\ anchor' = [prev |-> HeadPrev(seg), seq |-> NextSeq(seg)]
    /\ UNCHANGED <<entries, log, forks>>

Next ==
    \/ \E ref \in Ref : AppendRef(ref) \/ Fork(ref)
    \/ \E from \in 1..MaxSeq : TruncateBefore(from)
    \/ Replay

Spec == Init /\ [][Next]_vars

-----------------------------------------------------------------------------
\* A replay that is accepted leaves the follower with the owner's log and no
\* other: after a rewrite nothing of the new branch is taken in, and truncation
\* loses nothing and repeats nothing.
ReplayIsLog == Replay => learned' = log

\* What the owner keeps is the end of its log, chained entry by entry, whatever
\* was cut off before it.
SuffixVerifies ==
    entries # <<>> =>
        /\ VerifySegment(entries, entries[1].prev, entries[1].seq)
        /\ [i \in 1..Len(entries) |-> entries[i].reference]
             = SubSeq(log, Len(log) - Len(entries) + 1, Len(log))
        /\ entries[1].seq = Len(log) - Len(entries)

=============================================================================
