-------------------------------- MODULE Mesh --------------------------------
(***************************************************************************)
(* The libp2p transport (crates/dmtap-p2p: lib.rs, discovery.rs): a route  *)
(* book shared by callers and the swarm task, a bounded inbox, commands    *)
(* that cross to the swarm task, Kademlia calls that time out on one side  *)
(* while the query goes on on the other, and location records adopted      *)
(* under a rollback mark that has to survive a restart.                    *)
(***************************************************************************)
EXTENDS Naturals, Sequences, FiniteSets, SequencesExt

CONSTANTS
    Addr,               \* DMTAP addresses of peers
    Caller,             \* threads that adopt location records
    MaxInbox, MaxAuto,  \* MAX_INBOX_FRAMES, MAX_AUTO_PEERS
    MaxSeq, MaxCalls    \* bounds: location records of an address, Kademlia calls

MeshAssumption == {MaxInbox, MaxAuto, MaxSeq, MaxCalls} \subseteq Nat

VARIABLES
    peers,      \* the route book: the peer of each address
    inbox,      \* addresses of frames that wait to be drained
    tracker,    \* LocationTracker: the highest seq admitted for each address
    marks,      \* the marks the caller stored before a restart
    adopting,   \* the record each caller was let through with, not yet in the book
    calls,      \* Kademlia calls: what their caller knows
    commands, pending   \* calls the swarm task has not seen, and the queries it runs

vars == <<peers, inbox, tracker, marks, adopting, calls, commands, pending>>

\* A peer is named by how its address came to it: the seq of a location record, an inbound
\* frame, or the operator.
NoPeer == [from |-> "nobody", seq |-> 0]
Located(s) == [from |-> "location", seq |-> s]
Inbound == [from |-> "inbound", seq |-> 0]
Explicit == [from |-> "operator", seq |-> 0]

Idle == [addr |-> "none", seq |-> 0]

Init ==
    /\ peers = [a \in Addr |-> NoPeer] /\ inbox = <<>>
    /\ tracker = [a \in Addr |-> 0] /\ marks = [a \in Addr |-> 0]
    /\ adopting = [c \in Caller |-> Idle]
    /\ calls = <<>> /\ commands = {} /\ pending = {}

Known == {a \in Addr : peers[a] # NoPeer}

-----------------------------------------------------------------------------
\* Mutant: a frame's sender replaces the peer that is in the book.
RefreshedAlways(a) == Inbound

\* or_insert: a sender that is known keeps its peer.
Refreshed(a) == IF peers[a] = NoPeer THEN Inbound ELSE peers[a]

\* Mutant: the book is full one entry late.
MayLearnLate(a) == a \in Known \/ Cardinality(Known) <= MaxAuto

MayLearn(a) == a \in Known \/ Cardinality(Known) < MaxAuto

\* enqueue_inbound, on the swarm task; a frame that finds the inbox full is dropped, its
\* sender is learned all the same.
EnqueueInbound(a) ==
    /\ peers' = IF MayLearn(a) THEN [peers EXCEPT ![a] = Refreshed(a)] ELSE peers
    /\ inbox' = IF Len(inbox) < MaxInbox THEN Append(inbox, a) ELSE inbox
    /\ UNCHANGED <<tracker, marks, adopting, calls, commands, pending>>

Drain ==
    /\ inbox' = <<>>
    /\ UNCHANGED <<peers, tracker, marks, adopting, calls, commands, pending>>

AddPeer(a) ==
    /\ peers' = [peers EXCEPT ![a] = Explicit]
    /\ UNCHANGED <<inbox, tracker, marks, adopting, calls, commands, pending>>

\* LocationTracker::admit: only a newer record than any before.
Admits(a, s) == s > tracker[a]

\* adopt_location_bytes up to the unlock: a record bound to the key that was asked for.
Admit(c, a, s) ==
    /\ adopting[c] = Idle
    /\ Admits(a, s)
    /\ tracker' = [tracker EXCEPT ![a] = s]
    /\ adopting' = [adopting EXCEPT ![c] = [addr |-> a, seq |-> s]]
    /\ UNCHANGED <<peers, inbox, marks, calls, commands, pending>>

\* The rest: the route, with its dialable addresses or as a peer id only.
Adopt(c) ==
    /\ adopting[c] # Idle
    /\ peers' = [peers EXCEPT ![adopting[c].addr] = Located(adopting[c].seq)]
    /\ adopting' = [adopting EXCEPT ![c] = Idle]
    /\ UNCHANGED <<inbox, tracker, marks, calls, commands, pending>>

StoreMarks ==
    /\ marks' = tracker
    /\ UNCHANGED <<peers, inbox, tracker, adopting, calls, commands, pending>>

\* Mutant: what was stored replaces what has been seen since.
MergedOver(a) == marks[a]

\* The constructor keeps the higher of two marks of a key.
Merged(a) == IF marks[a] > tracker[a] THEN marks[a] ELSE tracker[a]

\* restore_location_high_water_marks, at any time.
RestoreMarks ==
    /\ tracker' = [a \in Addr |-> Merged(a)]
    /\ UNCHANGED <<peers, inbox, marks, adopting, calls, commands, pending>>

\* The process stops and starts again, and its caller restores the marks before it resolves.
Restart ==
    /\ peers' = [a \in Addr |-> NoPeer] /\ inbox' = <<>>
    /\ tracker' = marks
    /\ adopting' = [c \in Caller |-> Idle]
    /\ calls' = <<>> /\ commands' = {} /\ pending' = {}
    /\ UNCHANGED marks

-----------------------------------------------------------------------------
\* kad_put, kad_get: a command with a reply channel, then a wait of KAD_TIMEOUT.
Call ==
    /\ Len(calls) < MaxCalls
    /\ calls' = Append(calls, [state |-> "waiting", replies |-> 0])
    /\ commands' = commands \union {Len(calls) + 1}
    /\ UNCHANGED <<peers, inbox, tracker, marks, adopting, pending>>

\* A reply on the channel of call n; nobody hears it once the caller has gone.
Replied(n) == [calls EXCEPT ![n].replies = @ + 1,
                            ![n].state = IF @ = "waiting" THEN "answered" ELSE @]

\* handle_command: the query starts, or a put fails at once.
HandleCommand(n) ==
    /\ commands' = commands \ {n}
    /\ \/ pending' = pending \union {n} /\ UNCHANGED calls
       \/ UNCHANGED pending /\ calls' = Replied(n)
    /\ UNCHANGED <<peers, inbox, tracker, marks, adopting>>

\* Mutant: a query stays pending after its first result.
StillPending(n) == pending

\* resolve_kad takes the reply channel out with the first result.
Unpending(n) == pending \ {n}

\* A query's progress: a result for the caller, or a step that is neither found nor last.
ResolveKad(n) ==
    /\ pending' = Unpending(n) /\ calls' = Replied(n)
    /\ UNCHANGED <<peers, inbox, tracker, marks, adopting, commands>>

TimeOut(n) ==
    /\ calls[n].state = "waiting"
    /\ calls' = [calls EXCEPT ![n].state = "timeout"]
    /\ UNCHANGED <<peers, inbox, tracker, marks, adopting, commands, pending>>

Next ==
    \/ \E a \in Addr : EnqueueInbound(a) \/ AddPeer(a)
    \/ Drain \/ StoreMarks \/ RestoreMarks \/ Restart
    \/ \E c \in Caller, a \in Addr, s \in 1..MaxSeq : Admit(c, a, s)
    \/ \E c \in Caller : Adopt(c)
    \/ Call
    \/ \E n \in commands : HandleCommand(n)
    \/ \E n \in pending : ResolveKad(n)
    \/ \E n \in DOMAIN calls : TimeOut(n)

Spec == Init /\ [][Next]_vars

-----------------------------------------------------------------------------
\* A route that came from a location record is that of the newest record ever admitted:
\* not of one before a restart, not of one the stored marks have seen.
RoutesAreNewest ==
    (\A c \in Caller : adopting[c] = Idle) =>
        \A a \in Addr : /\ tracker[a] >= marks[a]
                        /\ peers[a].from = "location" => peers[a].seq = tracker[a]

\* Every call is answered at most once, and one that still waits is a command or a query
\* of the swarm task, so that something will answer it.
CallsAreAnsweredOnce ==
    \A n \in DOMAIN calls :
        /\ calls[n].replies <= 1
        /\ calls[n].state = "waiting" => n \in commands \union pending

\* Frames alone never fill the book or the inbox past their limits.
LearnedAreBounded ==
    /\ Len(inbox) <= MaxInbox
    /\ (\A a \in Known : peers[a] = Inbound) => Cardinality(Known) <= MaxAuto

\* Routes are the newest, calls are answered once, and frames fill no table.
MeshHolds == RoutesAreNewest /\ CallsAreAnsweredOnce /\ LearnedAreBounded

=============================================================================
