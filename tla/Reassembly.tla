----------------------------- MODULE Reassembly -----------------------------
(***************************************************************************)
(* The bounded cache of half-received multi-cell MOTEs                     *)
(* (node/src/reassembly.rs): a slot per msg_id, charged to the connection  *)
(* whose cell opened it, with a timeout, global caps and caps per          *)
(* connection.  A cell is [id, count, len, index]; its bytes are left out. *)
(***************************************************************************)
EXTENDS Integers, FiniteSets, FiniteSetsExt, Functions

CONSTANTS
    Conn, MsgId,
    Ladder,             \* LADDER: how many cells a MOTE may have
    Lengths,            \* total_len values that fit their cell count
    Timeout,            \* REASSEMBLY_TIMEOUT_MS
    MaxMotes,           \* MAX_PARTIAL_MOTES
    MaxCells,           \* MAX_PARTIAL_CELLS
    MaxMotesPerConn,    \* MAX_PARTIAL_MOTES_PER_CONN
    MaxCellsPerConn,    \* MAX_PARTIAL_CELLS_PER_CONN
    MaxNow              \* bound: the receive clock

ReassemblyAssumption ==
    /\ IsFiniteSet(MsgId) /\ "none" \notin Conn
    /\ Ladder \subseteq Nat \ {0}
    /\ {Timeout, MaxMotes, MaxCells, MaxMotesPerConn, MaxCellsPerConn, MaxNow} \subseteq Nat \ {0}

VARIABLES
    partials,   \* ReassemblyCache::partials, NoSlot where there is none
    usage,      \* ReassemblyCache::conn_usage
    now,
    result      \* what the last accept answered, and the cells it completed with

vars == <<partials, usage, now, result>>

NoSlot == [count |-> 0, len |-> 0, cells |-> {}, started |-> 0, owner |-> "none"]
Unused == [motes |-> 0, cells |-> 0]

Init ==
    /\ partials = [m \in MsgId |-> NoSlot]
    /\ usage = [c \in Conn |-> Unused]
    /\ now = 0
    /\ result = [is |-> "none", cells |-> {}]

Open(st) == {m \in MsgId : st.partials[m] # NoSlot}

\* How many cells each slot holds.
CellsHeld(slots) == [m \in MsgId |-> Cardinality(slots[m].cells)]

TotalCells(st) == SumFunctionOnSet(CellsHeld(st.partials), MsgId)

\* Mutant: the owner is not credited the cells of a slot that goes.
RemovePartialKeepsCells(st, m) ==
    LET p == st.partials[m] IN
    IF p = NoSlot THEN st
    ELSE [partials |-> [st.partials EXCEPT ![m] = NoSlot],
          usage    |-> [st.usage EXCEPT ![p.owner] = [motes |-> @.motes - 1, cells |-> @.cells]]]

\* The owner's entry goes with its last slot.
RemovePartial(st, m) ==
    LET p == st.partials[m] IN
    IF p = NoSlot THEN st
    ELSE [partials |-> [st.partials EXCEPT ![m] = NoSlot],
          usage    |-> [st.usage EXCEPT ![p.owner] =
                          IF @.motes = 1 THEN Unused
                          ELSE [motes |-> @.motes - 1, cells |-> @.cells - Cardinality(p.cells)]]]

Pruned(st) ==
    FoldSet(LAMBDA m, acc : RemovePartial(acc, m), st,
            {m \in Open(st) : now - st.partials[m].started >= Timeout})

\* Any of the slots that started first: the map has no order.
Oldest(st) == {m \in Open(st) : \A k \in Open(st) : st.partials[m].started <= st.partials[k].started}

\* A cell of a MOTE that has a slot: it must agree with it, and a new index must
\* fit its owner's share.
FitsSlot(st, cell) ==
    LET p == st.partials[cell.id] IN
    /\ p.count = cell.count /\ p.len = cell.len
    /\ cell.index \in p.cells \/ st.usage[p.owner].cells < MaxCellsPerConn

\* Mutant: the share of the delivering connection is not looked at.
MayOpenAnyone(st, conn) == TRUE

MayOpen(st, conn) ==
    st.usage[conn].motes < MaxMotesPerConn /\ st.usage[conn].cells < MaxCellsPerConn

Slot(conn, cell) == [count |-> cell.count, len |-> cell.len, cells |-> {}, started |-> now, owner |-> conn]

WithSlot(st, conn, cell) ==
    IF st.partials[cell.id] # NoSlot THEN st
    ELSE [partials |-> [st.partials EXCEPT ![cell.id] = Slot(conn, cell)],
          usage    |-> [st.usage EXCEPT ![conn].motes = @ + 1]]

\* A new cell is charged to the slot's owner, whoever delivered it.
Charged(st, conn, cell) ==
    LET p == st.partials[cell.id] IN
    [partials |-> [st.partials EXCEPT ![cell.id].cells = @ \cup {cell.index}],
     usage    |-> IF cell.index \in p.cells THEN st.usage
                  ELSE [st.usage EXCEPT ![p.owner].cells = @ + 1]]

Becomes(st, is, cells) ==
    /\ partials' = st.partials /\ usage' = st.usage
    /\ result' = [is |-> is, cells |-> cells]
    /\ UNCHANGED now

Store(st, conn, cell) ==
    LET held == Charged(WithSlot(st, conn, cell), conn, cell)
        p    == held.partials[cell.id]
    IN  IF Cardinality(p.cells) = p.count
        THEN Becomes(RemovePartial(held, cell.id), "complete", p.cells)
        ELSE Becomes(held, "pending", {})

\* A malformed cell (a count off the ladder, an index beyond it, a length that
\* does not fit) is refused after the pruning and nothing else.
AcceptMalformed ==
    Becomes(Pruned([partials |-> partials, usage |-> usage]), "rejected", {})

\* A one-cell MOTE completes at once and supersedes any slot of its id.
AcceptSingle(cell) ==
    /\ cell.count = 1
    /\ Becomes(RemovePartial(Pruned([partials |-> partials, usage |-> usage]), cell.id),
               "complete", {0})

AcceptHeld(conn, cell) ==
    LET st == Pruned([partials |-> partials, usage |-> usage]) IN
    /\ cell.count > 1 /\ st.partials[cell.id] # NoSlot
    /\ IF FitsSlot(st, cell) THEN Store(st, conn, cell) ELSE Becomes(st, "rejected", {})

\* A new slot evicts the oldest before the total is looked at.
AcceptNew(conn, cell) ==
    LET st == Pruned([partials |-> partials, usage |-> usage]) IN
    /\ cell.count > 1 /\ st.partials[cell.id] = NoSlot
    /\ IF ~MayOpen(st, conn) THEN Becomes(st, "rejected", {})
       ELSE \E room \in (IF Cardinality(Open(st)) >= MaxMotes
                         THEN {RemovePartial(st, m) : m \in Oldest(st)} ELSE {st}) :
              IF TotalCells(room) >= MaxCells THEN Becomes(room, "rejected", {})
              ELSE Store(room, conn, cell)

\* The node's tick prunes too.
Prune ==
    LET st == Pruned([partials |-> partials, usage |-> usage])
    IN  partials' = st.partials /\ usage' = st.usage /\ UNCHANGED <<now, result>>

Tick == now < MaxNow /\ now' = now + 1 /\ UNCHANGED <<partials, usage, result>>

Cells == UNION {[id: MsgId, count: {n}, len: Lengths, index: 0..n - 1] : n \in Ladder}

Next ==
    \/ \E conn \in Conn, cell \in Cells : AcceptHeld(conn, cell) \/ AcceptNew(conn, cell)
    \/ \E cell \in Cells : AcceptSingle(cell)
    \/ AcceptMalformed \/ Prune \/ Tick

Spec == Init /\ [][Next]_vars

-----------------------------------------------------------------------------
Owned(c) == {m \in MsgId : partials[m].owner = c}

\* The running counts of a connection are exactly its open slots and their
\* cells, through completion, supersession, timeout and eviction by others.
UsageExact ==
    \A c \in Conn :
        /\ usage[c].motes = Cardinality(Owned(c))
        /\ usage[c].cells = SumFunctionOnSet(CellsHeld(partials), Owned(c))

\* No connection holds more than its share, whoever delivers its cells, and there
\* are never more slots than the cap.
SharesBounded ==
    /\ Cardinality({m \in MsgId : partials[m] # NoSlot}) <= MaxMotes
    /\ \A c \in Conn : /\ Cardinality(Owned(c)) <= MaxMotesPerConn
                       /\ SumFunctionOnSet(CellsHeld(partials), Owned(c)) <= MaxCellsPerConn

\* What a connection is charged is what it holds, and no more than its share.
SharesHold == UsageExact /\ SharesBounded

=============================================================================
