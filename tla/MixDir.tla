------------------------------- MODULE MixDir -------------------------------
(***************************************************************************)
(* The mix-directory tracker (node/src/mixdir.rs) and its place in the     *)
(* node's journal (node.rs): each authority's directories are accepted in  *)
(* rising (epoch, version) only, across restarts too, as far as the        *)
(* journal holds what was accepted. A checkpoint swallows the error of a   *)
(* write that fails, so an accepted directory may be on no disk.           *)
(***************************************************************************)
EXTENDS Naturals, FiniteSets

CONSTANTS
    Authority,
    MaxEpoch, MaxVersion,   \* bounds: the directories an authority signs
    MaxFailures             \* bound: journal writes that fail

MixDirAssumption == {MaxEpoch, MaxVersion, MaxFailures} \subseteq Nat

VARIABLES
    latest,     \* MixDirectoryTracker.latest: the mark of each authority
    saved,      \* Snapshot.mix_directories in the journal
    running,    \* the process is up
    failures,
    newest,     \* the newest directory of each authority ever accepted
    unsaved     \* authorities whose newest directory was in a write that failed, and in none since

vars == <<latest, saved, running, failures, newest, unsaved>>

NoMark == [epoch |-> 0, version |-> 0]

Init ==
    /\ latest = [a \in Authority |-> NoMark] /\ saved = latest /\ newest = latest
    /\ running = TRUE /\ failures = 0 /\ unsaved = {}

-----------------------------------------------------------------------------
\* Mutant: either number may rise.
ExceedsEither(x, y) == x.epoch > y.epoch \/ x.version > y.version

\* (epoch, version) pairs are compared lexicographically.
Exceeds(x, y) == \/ x.epoch > y.epoch
                 \/ x.epoch = y.epoch /\ x.version > y.version

\* journal.save(snapshot()), which may fail; `owed' are the authorities it is to save.
Saves(owed) ==
    \/ /\ saved' = latest' /\ UNCHANGED failures
       /\ unsaved' = {a \in owed : latest'[a] # newest'[a]}
    \/ /\ failures < MaxFailures /\ failures' = failures + 1
       /\ unsaved' = owed /\ UNCHANGED saved

\* Mutant: the mark is left for a later checkpoint to write.
CheckpointLater(a) == UNCHANGED <<saved, failures, unsaved>>

\* checkpoint(): no poll is running when a directory is ingested, so it writes at once.
Checkpoint(a) == Saves(unsaved \union {a})

\* ingest_mix_directory of a directory its authority signed; the others change nothing.
Ingest(a, d) ==
    /\ running
    /\ Exceeds(d, latest[a])
    /\ latest' = [latest EXCEPT ![a] = d]
    /\ newest' = [newest EXCEPT ![a] = d]
    /\ Checkpoint(a)
    /\ UNCHANGED running

\* Any other operation that checkpoints, or flush.
Flush ==
    /\ running
    /\ UNCHANGED <<latest, running, newest>>
    /\ Saves(unsaved)

Crash ==
    /\ running
    /\ running' = FALSE
    /\ UNCHANGED <<latest, saved, failures, newest, unsaved>>

\* The journal's directories are ingested into an empty tracker.
Restore ==
    /\ ~running
    /\ running' = TRUE
    /\ latest' = [a \in Authority |-> IF Exceeds(saved[a], NoMark) THEN saved[a] ELSE NoMark]
    /\ UNCHANGED <<saved, failures, newest, unsaved>>

Next ==
    \/ \E a \in Authority, e \in 1..MaxEpoch, v \in 1..MaxVersion :
          Ingest(a, [epoch |-> e, version |-> v])
    \/ Flush \/ Crash \/ Restore

Spec == Init /\ [][Next]_vars

-----------------------------------------------------------------------------
Rank(d) == d.epoch * (MaxVersion + 1) + d.version

\* No directory replaces a newer one of its authority, restarts included, unless the
\* write that should have saved the newer one failed, and the process stopped before another.
NoRollback ==
    \A a \in Authority :
        newest'[a] # newest[a] => Rank(newest'[a]) > Rank(newest[a]) \/ a \in unsaved

=============================================================================
