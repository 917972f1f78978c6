----------------------------- MODULE PowBudget ------------------------------
(***************************************************************************)
(* The verification budget in front of the memory-hard proof of work       *)
(* (node/src/pow.rs): a fixed window per delivering connection, in a table *)
(* of bounded size that is emptied when a connection too many turns up.    *)
(***************************************************************************)
EXTENDS Integers, FiniteSets, Functions

CONSTANTS
    Conn,           \* delivering connections
    Window,         \* POW_VERIFY_WINDOW_MS
    MaxPerWindow,   \* POW_VERIFY_MAX_PER_WINDOW
    MaxConns,       \* POW_MAX_TRACKED_CONNS
    MaxNow,         \* bound: the clock
    MaxClears       \* bound: times the table is dropped

PowAssumption ==
    {Window, MaxPerWindow, MaxConns, MaxNow, MaxClears} \subseteq Nat \ {0}

VARIABLES
    conns,      \* PowVerifyBudget::conns: [start, count], start Untracked if absent
    now,
    runs,       \* history: memory-hard verifications, by connection and time
    cleared     \* history: how often the whole table was dropped, by time

vars == <<conns, now, runs, cleared>>

Untracked == -1
Empty == [c \in Conn |-> [start |-> Untracked, count |-> 0]]

Init == /\ conns = Empty /\ now = 0
        /\ runs = [c \in Conn |-> [t \in 0..MaxNow |-> 0]]
        /\ cleared = [t \in 0..MaxNow |-> 0]

\* Mutant: the table is found full one connection late.
FullLate(c) ==
    /\ Cardinality({x \in Conn : conns[x].start # Untracked}) > MaxConns
    /\ conns[c].start = Untracked

Full(c) ==
    /\ Cardinality({x \in Conn : conns[x].start # Untracked}) >= MaxConns
    /\ conns[c].start = Untracked

\* The table allow() works on.
Table(c) == IF Full(c) THEN Empty ELSE conns

WindowOf(w) ==
    IF w.start = Untracked \/ now - w.start >= Window THEN [start |-> now, count |-> 0] ELSE w

\* Mutant: one verification too many.
WithinOver(w) == w.count <= MaxPerWindow

Within(w) == w.count < MaxPerWindow

\* Over budget the MOTE is deferred unverified; a solution that is not Argon2id,
\* or asks for too much memory, spends the slot but runs nothing.
Check(c, cheap) ==
    LET w == WindowOf(Table(c)[c]) IN
    /\ Full(c) => SumFunction(cleared) < MaxClears
    /\ conns' = [Table(c) EXCEPT ![c] = IF Within(w) THEN [w EXCEPT !.count = @ + 1] ELSE w]
    /\ runs' = IF Within(w) /\ ~cheap THEN [runs EXCEPT ![c][now] = @ + 1] ELSE runs
    /\ cleared' = IF Full(c) THEN [cleared EXCEPT ![now] = @ + 1] ELSE cleared
    /\ UNCHANGED now

Pruned(w) == now - w.start >= Window

Prune ==
    /\ conns' = [c \in Conn |-> IF conns[c].start # Untracked /\ Pruned(conns[c])
                                THEN Empty[c] ELSE conns[c]]
    /\ UNCHANGED <<now, runs, cleared>>

Tick == now < MaxNow /\ now' = now + 1 /\ UNCHANGED <<conns, runs, cleared>>

Next == (\E c \in Conn, cheap \in BOOLEAN : Check(c, cheap)) \/ Prune \/ Tick

Spec == Init /\ [][Next]_vars

-----------------------------------------------------------------------------
Stretch(t) == {u \in t..t + Window - 1 : u <= MaxNow}

\* In any stretch of one window a connection has at most two budgets' worth of
\* memory-hard work, and one more for each time the table was dropped in it:
\* neither pruning nor refused MOTEs buy more.
WorkBounded ==
    \A c \in Conn, t \in 0..MaxNow :
        SumFunctionOnSet(runs[c], Stretch(t))
            <= MaxPerWindow * (2 + SumFunctionOnSet(cleared, Stretch(t)))

\* The table never tracks more connections than its cap.
TableBounded == Cardinality({c \in Conn : conns[c].start # Untracked}) <= MaxConns

\* The budget bounds the memory-hard work of a connection and its own table.
BudgetHolds == WorkBounded /\ TableBounded

=============================================================================
