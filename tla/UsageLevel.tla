----------------------------- MODULE UsageLevel -----------------------------
(***************************************************************************)
(* The stored-bytes level of an account (node/src/usage.rs): the node's    *)
(* usage events folded into a level that is handed out once per billing    *)
(* period, to an operator's meter that sums what it is sent.  A bridge     *)
(* stores the two values the reporter asks it to before it sends a report, *)
(* and may stop at any point.                                              *)
(***************************************************************************)
EXTENDS Integers

CONSTANTS
    Account, Mine,  \* the accounts of the event stream, and the reporter's own
    Delta,          \* sizes of what is stored
    MaxStored,      \* bound: bytes an account stores
    MaxPeriod       \* bound: period ordinals

UsageAssumption == Mine \in Account /\ Delta \subseteq Nat /\ {MaxStored, MaxPeriod} \subseteq Nat

VARIABLES
    stored,     \* what each account's mailbox really holds
    level,      \* StoredBytesLevel::level
    last,       \* StoredBytesLevel::last_reported_period
    disk,       \* the level and last period the bridge stored
    bill        \* what the summing meter has for each period, and how often it was told

vars == <<stored, level, last, disk, bill>>

Never == -1

Init ==
    /\ stored = [a \in Account |-> 0] /\ level = 0 /\ last = Never
    /\ disk = [level |-> 0, last |-> Never]
    /\ bill = [p \in 0..MaxPeriod |-> [reports |-> 0, bytes |-> 0]]

\* Stored adds, Evicted subtracts, MessageAccepted counts nothing.
StoredDelta(kind, n) == IF kind = "stored" THEN n ELSE IF kind = "evicted" THEN -n ELSE 0

\* Mutant: everybody's events are folded in.
OwnEventAny(a) == TRUE

OwnEvent(a) == a = Mine

\* The node meters what it did, the reporter observes it.
Observe(a, kind, n) ==
    /\ stored[a] + StoredDelta(kind, n) \in 0..MaxStored
    /\ stored' = [stored EXCEPT ![a] = @ + StoredDelta(kind, n)]
    /\ level' = IF OwnEvent(a) THEN level + StoredDelta(kind, n) ELSE level
    /\ disk' = [disk EXCEPT !.level = level']
    /\ UNCHANGED <<last, bill>>

\* Mutant: only the very same period is refused.
NewPeriodEither(p) == p # last

NewPeriod(p) == p > last

\* report_for_period: the clock of the bridge may name any period, also an old one.
ReportForPeriod(p) ==
    /\ NewPeriod(p)
    /\ last' = p
    /\ disk' = [disk EXCEPT !.last = p]
    /\ \/ bill' = [bill EXCEPT ![p] = [reports |-> @.reports + 1,
                                       bytes |-> @.bytes + (IF level < 0 THEN 0 ELSE level)]]
       \/ UNCHANGED bill
    /\ UNCHANGED <<stored, level>>

\* Mutant: the period last reported is not restored.
ResumedForgetful == Never

Resumed == disk.last

Resume == level' = disk.level /\ last' = Resumed /\ UNCHANGED <<stored, disk, bill>>

Next ==
    \/ \E a \in Account, kind \in {"stored", "evicted", "accepted"}, n \in Delta : Observe(a, kind, n)
    \/ \E p \in 0..MaxPeriod : ReportForPeriod(p)
    \/ Resume

Spec == Init /\ [][Next]_vars

-----------------------------------------------------------------------------
\* No period is billed twice, over restarts and clocks that go back, and none for more
\* than the account could hold in it: a level sent to a summing meter is right only if
\* it is sent once.
BilledOncePerPeriod == \A p \in DOMAIN bill : bill[p].reports <= 1 /\ bill[p].bytes <= MaxStored

\* The level billed is that of the account's own bytes.
LevelIsStored == level = stored[Mine] /\ disk.level = level

\* Stored bytes are billed once a period, and are the account's own.
UsageIsBilledOnce == BilledOncePerPeriod /\ LevelIsStored

=============================================================================
