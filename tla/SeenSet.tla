------------------------------ MODULE SeenSet -------------------------------
(***************************************************************************)
(* The bounded dedup set of a node (node/src/seen.rs): a map from MOTE id  *)
(* to the time it was received, and the queue of ids in the order they     *)
(* came in.  A sliding window and a hard cap both evict from its front.    *)
(***************************************************************************)
EXTENDS Integers, Sequences, FiniteSets

CONSTANTS
    Id,         \* MOTE ids
    Window,     \* DEDUP_WINDOW_MS
    Cap,        \* MAX_SEEN
    MaxNow,     \* bound: the receive clock
    MaxSteps    \* bound: MOTEs accepted

SeenAssumption == {Window, Cap, MaxNow, MaxSteps} \subseteq Nat

VARIABLES
    entries,    \* SeenSet::entries: id -> received_at, Absent where there is none
    order,      \* SeenSet::order
    now,        \* the node's receive clock
    accepted,   \* history: the ids accepted and when, in order
    setBack     \* history: the clock was set back

vars == <<entries, order, now, accepted, setBack>>

Absent == -1

Init ==
    /\ entries = [i \in Id |-> Absent]
    /\ order = <<>> /\ accepted = <<>> /\ now = 0 /\ setBack = FALSE

\* A clock set back makes the age zero (saturating_sub).
Expired(at) == (IF now > at THEN now - at ELSE 0) >= Window

Tracked(e) == {i \in DOMAIN e : e[i] # Absent}

Contains(i) == entries[i] # Absent /\ ~Expired(entries[i])

\* The length of the longest run at the front that is out of its window.
Stale(s) == {n \in 0..Len(s) : \A k \in 1..n : Expired(entries[s[k]])}
Longest(S) == CHOOSE n \in S : \A k \in S : k <= n

\* Drop the first n ids of the queue, and what the map holds of them.
DropFront(st, n) ==
    [order   |-> SubSeq(st.order, n + 1, Len(st.order)),
     entries |-> [i \in Id |-> IF \E k \in 1..n : st.order[k] = i THEN Absent ELSE st.entries[i]]]

Prune(st) == DropFront(st, Longest(Stale(st.order)))

\* Mutant: an id recorded again takes a second place in the queue.
InsertTwice(st, i) ==
    [entries |-> [st.entries EXCEPT ![i] = now], order |-> Append(st.order, i)]

\* An id recorded again is stamped anew where it stands.
Insert(st, i) ==
    [entries |-> [st.entries EXCEPT ![i] = now],
     order   |-> IF st.entries[i] = Absent THEN Append(st.order, i) ELSE st.order]

\* Mutant: the cap evicts one more than it has to.
EnforceCapOver(st) ==
    DropFront(st, IF Cardinality(Tracked(st.entries)) >= Cap
                  THEN Cardinality(Tracked(st.entries)) - Cap + 1 ELSE 0)

EnforceCap(st) ==
    DropFront(st, IF Cardinality(Tracked(st.entries)) > Cap
                  THEN Cardinality(Tracked(st.entries)) - Cap ELSE 0)

\* The node records an id only after `contains' said it is not a duplicate.
Record(i) ==
    /\ Len(accepted) < MaxSteps
    /\ ~Contains(i)
    /\ LET st == EnforceCap(Insert(Prune([entries |-> entries, order |-> order]), i))
       IN  entries' = st.entries /\ order' = st.order
    /\ accepted' = Append(accepted, <<i, now>>)
    /\ UNCHANGED <<now, setBack>>

\* persist_pairs and restore: every pair is recorded again, in queue order, at
\* the clock of the restart; here no entry is out of its window then.
Restart ==
    /\ \A i \in Tracked(entries) : ~Expired(entries[i])
    /\ entries' = [i \in Id |-> IF entries[i] = Absent THEN Absent ELSE now]
    /\ UNCHANGED <<order, now, accepted, setBack>>

Tick ==
    /\ \/ now < MaxNow /\ now' = now + 1 /\ UNCHANGED setBack
       \/ now > 0 /\ now' = now - 1 /\ setBack' = TRUE
    /\ UNCHANGED <<entries, order, accepted>>

Next == (\E i \in Id : Record(i)) \/ Restart \/ Tick

Spec == Init /\ [][Next]_vars

-----------------------------------------------------------------------------
\* The queue holds exactly the ids of the map, each once, and never more than
\* the cap: neither bound leaks, even when the clock was set back and an id is
\* recorded a second time.
OrderMatchesEntries ==
    /\ \A i \in Id : (entries[i] # Absent) <=> (\E k \in 1..Len(order) : order[k] = i)
    /\ \A j, k \in 1..Len(order) : order[j] = order[k] => j = k
    /\ Len(order) <= Cap

\* With a clock that only advances, an id accepted less than a window ago is
\* recognised unless at least Cap other ids were accepted after it.
RecentIsRecognised ==
    ~setBack => \A k \in 1..Len(accepted) :
        LET i == accepted[k][1] IN
        \/ now - accepted[k][2] >= Window
        \/ Cardinality({accepted[j][1] : j \in k + 1..Len(accepted)} \ {i}) >= Cap
        \/ Contains(i)

\* The dedup set over caps, windows and a clock that may be set back: its two halves
\* agree, and what was accepted lately is recognised.
DedupIsSound == OrderMatchesEntries /\ RecentIsRecognised

=============================================================================
