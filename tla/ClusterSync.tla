---------------------------- MODULE ClusterSync -----------------------------
(***************************************************************************)
(* The replicas of one owner's device cluster                              *)
(* (crates/dmtap-clustersync/src/cluster.rs): objects gossiped by          *)
(* announce, fetch and serve, metadata ops in frames that may be lost,     *)
(* repeated and reordered, two kinds of backfill, and the stability-cut    *)
(* collection of tombstones.                                               *)
(*                                                                         *)
(* An object is its content address: bytes that do not match the id they   *)
(* are claimed under are refused, which here is a lost frame.  A journal   *)
(* is the set of objects it records (the op hashes it records too are read *)
(* by nothing); its chain is in ClusterJournal.                            *)
(***************************************************************************)
EXTENDS ClusterState

CONSTANTS
    Device,     \* device keys, as the naturals their byte order ranks them by
    View,       \* View[d]: the membership each device derived from its identity
    Object,     \* content addresses
    Puts,       \* Puts[d]: the objects device d's owner puts there
    Kinds,      \* which kinds of op the owner's devices write
    Liveness,   \* CLUSTER_MEMBER_LIVENESS_MS
    Collects,   \* whether the devices run gc
    MaxOps,     \* bound: ops written
    MaxMarks,   \* bound: stability frames sent
    MaxFrame,   \* bound: ops in one frame
    MaxNow      \* bound: a device's clock

ASSUME ClusterAssumption ==
    /\ Device \subseteq Nat \ {0} /\ IsFiniteSet(Device)
    /\ View \in [Device -> SUBSET Device] /\ Puts \in [Device -> SUBSET Object]
    /\ Kinds \subseteq OpKind /\ Collects \in BOOLEAN
    /\ {Liveness, MaxOps, MaxMarks, MaxFrame} \subseteq Nat /\ MaxNow \in Nat \ {0}

VARIABLES
    now,        \* each device's wall clock
    state,      \* Replica::state
    objects,    \* Replica::objects, by id
    journal,    \* Replica::journal
    stability,  \* Replica::stability: stability[d][m] is the mark d knows of m
    lastSeen,   \* Replica::last_seen
    net,        \* gossip and stability frames in flight
    applied     \* history: the ops whose effect each device has taken in

vars == <<now, state, objects, journal, stability, lastSeen, net, applied>>

NeverSeen == -1

Frame == [type: {"announce", "fetch", "serve"}, from: Device, ids: SUBSET Object]
         \cup [type: {"stability"}, from: Device, marks: [Device -> Nat \X Nat \X Nat]]

Init ==
    /\ now = [d \in Device |-> 1]
    /\ state = [d \in Device |-> EmptyState]
    /\ objects = [d \in Device |-> {}]
    /\ journal = [d \in Device |-> {}]
    /\ stability = [d \in Device |-> [m \in Device |-> Zero]]
    /\ lastSeen = [d \in Device |-> [m \in Device |-> NeverSeen]]
    /\ net = {}
    /\ applied = [d \in Device |-> {}]

Written == UNION {applied[d] : d \in Device}

\* Mutant: any device that reaches this one is served.
AuthorizesAnyone(d, peer) == TRUE

Authorizes(d, peer) == peer \in View[d]

-----------------------------------------------------------------------------
\* The clock of a new op follows everything its device has taken in.
NextHlc(d) ==
    LET top == Latest({op.hlc : op \in applied[d]}) IN
    IF now[d] > top[1] THEN <<now[d], 0, d>> ELSE <<top[1], top[2] + 1, d>>

\* What the owner's app writes: a remove cites the live adds it sees, an
\* un-delete is a `live' certificate for what is deleted.
NewOps(d) ==
    LET Op(k, e, obs, v) == [kind |-> k, target |-> e, hlc |-> NextHlc(d),
                             observed |-> obs, val |-> v] IN
    {op \in UNION {{Op("add", e, {}, 0), Op("lww", e, {}, d),
                    Op("delete", e, {}, IF IsDeleted(state[d], e) THEN 0 ELSE 1),
                    Op("remove", e, state[d].adds[e] \ state[d].tombs[e], 0)} : e \in Elem} :
     op.kind \in Kinds}

\* An op written here is ingested straight into the state, past the journal.
Ingest(d, op) ==
    /\ Cardinality(Written) < MaxOps
    /\ Validates(op, now[d])
    /\ state' = [state EXCEPT ![d] = ApplyOp(op, @)]
    /\ applied' = [applied EXCEPT ![d] = @ \cup {op}]
    /\ UNCHANGED <<now, objects, journal, stability, lastSeen, net>>

Malformed == [kind |-> "malformed", target |-> "none", hlc |-> Zero, observed |-> {}, val |-> 0]

\* Mutant: the frame is accepted although one of its ops is refused.
AcceptsFrameAny(d, from, ops) ==
    Authorizes(d, from) /\ \E op \in ops : Validates(op, now[d])

\* One op that does not validate refuses the frame before any is applied.
AcceptsFrame(d, from, ops) ==
    Authorizes(d, from) /\ \A op \in ops : Validates(op, now[d])

\* A frame carries ops its sender has; it may arrive late, again, or never.
ApplyOps(d, from, S, damaged) ==
    LET ops == S \cup (IF damaged THEN {Malformed} ELSE {})
        ok  == {op \in ops : Validates(op, now[d])} IN
    /\ AcceptsFrame(d, from, ops)
    /\ state' = [state EXCEPT ![d] = ApplyAll(ok, @)]
    /\ lastSeen' = [lastSeen EXCEPT ![d][from] = now[d]]
    /\ applied' = [applied EXCEPT ![d] = @ \cup ops]
    /\ UNCHANGED <<now, objects, journal, stability, net>>

-----------------------------------------------------------------------------
PutObject(d, id) ==
    /\ id \in Puts[d] \ objects[d]
    /\ objects' = [objects EXCEPT ![d] = @ \cup {id}]
    /\ journal' = [journal EXCEPT ![d] = @ \cup {id}]
    /\ UNCHANGED <<now, state, stability, lastSeen, net, applied>>

\* Frames that offer, ask for or carry nothing are left out.
Announce(d) ==
    /\ objects[d] # {}
    /\ net' = net \cup {[type |-> "announce", from |-> d, ids |-> objects[d]]}
    /\ UNCHANGED <<now, state, objects, journal, stability, lastSeen, applied>>

OnAnnounce(d, f) ==
    /\ f.type = "announce" /\ Authorizes(d, f.from) /\ f.ids \ objects[d] # {}
    /\ net' = net \cup {[type |-> "fetch", from |-> d, ids |-> f.ids \ objects[d]]}
    /\ UNCHANGED <<now, state, objects, journal, stability, lastSeen, applied>>

ServeFetch(d, f) ==
    /\ f.type = "fetch" /\ Authorizes(d, f.from) /\ f.ids \cap objects[d] # {}
    /\ net' = net \cup {[type |-> "serve", from |-> d, ids |-> f.ids \cap objects[d]]}
    /\ UNCHANGED <<now, state, objects, journal, stability, lastSeen, applied>>

\* Mutant: an object pulled from a peer is stored but not recorded.
AcceptedUnrecorded(j, ids) == j

\* Objects already held are not recorded again.
Accepted(j, ids) == j \cup ids

\* The pulled pairs are handed over one at a time; the transfer may stop anywhere.
AcceptObject(d, f, id) ==
    /\ f.type = "serve" /\ id \in f.ids \ objects[d]
    /\ f.from \in View[d]        \* external: whom the caller asked
    /\ objects' = [objects EXCEPT ![d] = @ \cup {id}]
    /\ journal' = [journal EXCEPT ![d] = Accepted(@, {id})]
    /\ UNCHANGED <<now, state, stability, lastSeen, net, applied>>

\* Mutant: the peer's metadata is merged here but not the other way round.
MergeBothOneWay(d, p) == [state EXCEPT ![d] = Merge(state[d], state[p])]

MergeBoth(d, p) ==
    LET mine == Merge(state[d], state[p])
    IN  [state EXCEPT ![d] = mine, ![p] = Merge(state[p], mine)]

\* Range reconciliation both ways (exact, see ClusterRecon), then the metadata.
BackfillFrom(d, p) ==
    /\ d # p /\ Authorizes(d, p) /\ Authorizes(p, d)
    /\ objects' = [objects EXCEPT ![d] = @ \cup objects[p], ![p] = @ \cup objects[d]]
    /\ journal' = [journal EXCEPT ![d] = Accepted(@, objects[p]),
                                  ![p] = Accepted(@, objects[d])]
    /\ state' = MergeBoth(d, p)
    /\ applied' = [applied EXCEPT ![d] = @ \cup applied[p], ![p] = @ \cup applied[d]]
    /\ UNCHANGED <<now, stability, lastSeen, net>>

\* The objects a replay of p's journal finds.
Replayed(p) == journal[p] \cap objects[p]

\* Replaying the peer's journal brings its objects, and nothing else.
BackfillViaJournal(d, p) ==
    /\ d # p /\ Authorizes(d, p)
    /\ objects' = [objects EXCEPT ![d] = @ \cup Replayed(p)]
    /\ journal' = [journal EXCEPT ![d] = Accepted(@, Replayed(p))]
    /\ UNCHANGED <<now, state, stability, lastSeen, net, applied>>

-----------------------------------------------------------------------------
\* The marks a device knows of others.
Known(d) == {m \in Device \ {d} : stability[d][m] # Zero}

\* A frame's marks by device, Zero for one it has no mark of.
Marks(d, relayed) ==
    [m \in Device |-> IF m = d THEN MaxHlc(state[d]) ELSE IF m \in relayed THEN stability[d][m] ELSE Zero]

\* The code's own frames have no relayed marks; ingest_stability expects some ("a mark
\* relayed on behalf of some other device"), so a sender may pass on what it knows.
StabilityFrame(d, relayed) ==
    /\ Cardinality({f \in net : f.type = "stability"}) < MaxMarks
    /\ MaxHlc(state[d]) # Zero
    /\ net' = net \cup {[type |-> "stability", from |-> d, marks |-> Marks(d, relayed)]}
    /\ UNCHANGED <<now, state, objects, journal, stability, lastSeen, applied>>

\* Only the frame's origin is authorized and seen; every mark in it counts, whoever's.
IngestStability(d, f) ==
    /\ f.type = "stability" /\ f.from # d /\ Authorizes(d, f.from)
    /\ lastSeen' = [lastSeen EXCEPT ![d][f.from] = now[d]]
    /\ stability' = [stability EXCEPT ![d] = [m \in Device |-> Latest({@[m], f.marks[m]})]]
    /\ UNCHANGED <<now, state, objects, journal, net, applied>>

\* A member never seen is not stale: it blocks the cut.
IsStale(d, m) ==
    m # d /\ lastSeen[d][m] # NeverSeen /\ now[d] - lastSeen[d][m] > Liveness

\* Mutant: a live member that has sent no mark is left out of the cut.
StabilityCutSkipping(d) ==
    LET marks == {stability[d][m] : m \in {x \in View[d] \ {d} : ~IsStale(d, x) /\ stability[d][x] # Zero}}
                 \cup {MaxHlc(state[d])}
    IN  CHOOSE c \in marks : \A h \in marks : NotAfter(c, h)

\* Zero where the code has no cut: a live member without a mark, or nothing applied.
StabilityCut(d) ==
    LET marks == {stability[d][m] : m \in {x \in View[d] \ {d} : ~IsStale(d, x)}}
                 \cup {MaxHlc(state[d])}
    IN  CHOOSE c \in marks : \A h \in marks : NotAfter(c, h)

Gc(d) ==
    /\ Collects
    /\ StabilityCut(d) # Zero
    /\ state' = [state EXCEPT ![d] = PruneStable(@, StabilityCut(d))]
    /\ UNCHANGED <<now, objects, journal, stability, lastSeen, net, applied>>

Tick(d) ==
    /\ now[d] < MaxNow
    /\ now' = [now EXCEPT ![d] = @ + 1]
    /\ UNCHANGED <<state, objects, journal, stability, lastSeen, net, applied>>

Next ==
    \/ \E d \in Device : \/ \E op \in NewOps(d) : Ingest(d, op)
                         \/ \E id \in Object : PutObject(d, id)
                         \/ Announce(d)
                         \/ \E relayed \in SUBSET Known(d) : StabilityFrame(d, relayed)
                         \/ Gc(d)
                         \/ Tick(d)
    \/ \E d, p \in Device : \/ \E S \in {S \in SUBSET applied[p] : Cardinality(S) \in 1..MaxFrame},
                                  damaged \in BOOLEAN : ApplyOps(d, p, S, damaged)
                            \/ BackfillFrom(d, p)
                            \/ Object # {} /\ BackfillViaJournal(d, p)
    \/ \E d \in Device, f \in net : \/ OnAnnounce(d, f)
                                    \/ ServeFetch(d, f)
                                    \/ \E id \in Object : AcceptObject(d, f, id)
                                    \/ IngestStability(d, f)

Spec == Init /\ [][Next]_vars

-----------------------------------------------------------------------------
\* Every replica holds well-formed stamps, marks, frames and records.
TypeOK ==
    /\ now \in [Device -> 1..MaxNow]
    /\ \A d \in Device :
         /\ Stamps(state[d]) \subseteq Nat \X Nat \X Device
         /\ objects[d] \subseteq Object
         /\ journal[d] \subseteq Object
         /\ \A m \in Device : stability[d][m] \in Nat \X Nat \X (Device \cup {0})
         /\ lastSeen[d] \in [Device -> {NeverSeen} \cup 1..MaxNow]
    /\ net \subseteq Frame
    /\ \A op \in Written : op.kind \in OpKind

\* Strong eventual consistency: what a device shows is what the ops it has taken
\* in mean, in whatever order, frames or merges they came and however often.
StateIsOpSet == \A d \in Device : Snapshot(state[d]) = Meaning(applied[d])

\* A durable delete a device has taken in holds there until a later un-delete:
\* no add, merge, repeated frame or collection brings the object back.
DurableDeleteHolds ==
    \A d \in Device, e \in Elem :
        Newest(applied[d], "delete", e) > 0 => ~IsPresent(state[d], e)

\* A device outside every other device's view leaves no trace on them, directly or through
\* a member: no stamp, no object that only outsiders put, no mark and no sign of life.
\* Frames and backfills check the membership of their origin.  Marks and handed-over
\* objects are not checked one by one: of the first no member has an outsider's to relay,
\* of the second the caller asked a member (AcceptObject).
Outsiders == {r \in Device : \A d \in Device \ {r} : r \notin View[d]}
OutsiderIsInert ==
    \A r \in Outsiders, d \in Device \ Outsiders :
        /\ objects[d] \cup journal[d] \subseteq UNION {Puts[m] : m \in Device \ Outsiders}
        /\ \A op \in applied[d] : op.hlc[3] # r
        /\ \A t \in Stamps(state[d]) : t[3] # r
        /\ stability[d][r] = Zero /\ lastSeen[d][r] = NeverSeen

\* Backfill leaves the two replicas with the same objects and the same
\* observable metadata.
BackfillEqualises ==
    \A d, p \in Device :
        BackfillFrom(d, p) => /\ objects'[d] = objects'[p]
                              /\ Snapshot(state'[d]) = Snapshot(state'[p])

\* Replaying a member's journal brings every object that member holds, however
\* it came by them: put, pulled, pushed by a backfill or replayed itself.
JournalReplayComplete == \A p \in Device : objects[p] \subseteq Replayed(p)

\* A tag is reclaimed only when every member still counted as live has taken in
\* an op at least as late.
ReclaimsOnlyStable ==
    \A d \in Device, e \in Elem : \A t \in state[d].tombs[e] \ state'[d].tombs[e] :
        \A m \in View[d] \ {d} :
            IsStale(d, m) \/ \E op \in applied[m] : NotAfter(t, op.hlc)

-----------------------------------------------------------------------------
\* Views to check with: every device a member for all, or device 3 revoked: it knows
\* neither that nor of device 2, enrolled since.
AllMembers == [d \in Device |-> Device]
ThirdRevoked == [d \in Device |-> IF d = 3 THEN {1, 3} ELSE Device \ {3}]

\* Who puts what: device 3 has an object of its own, device 1 puts the others.
ThirdHasOwn ==
    [d \in Device |-> IF d = 3 THEN Object \cap {"own"} ELSE IF d = 1 THEN Object \ {"own"} ELSE {}]

=============================================================================
