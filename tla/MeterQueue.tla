----------------------------- MODULE MeterQueue -----------------------------
(***************************************************************************)
(* The operator's metering queue (dmtap-operator/src/queue.rs) between the *)
(* emitters of usage events and the totals that are billed.  An emitter    *)
(* repeats an event until it hears that it was taken, and also after that, *)
(* when the answer was lost.                                               *)
(***************************************************************************)
EXTENDS Integers, Sequences, Functions

CONSTANTS
    Event,      \* what is metered: records [id, account, kind, amount, ts]
    NoId,       \* an event whose emitter names no idempotency key
    Capacity,   \* with_capacity
    Batch       \* batch sizes of drain_batch

\* An emitter gives an idempotency key to one event only; an event is its fields.
MeterAssumption ==
    /\ \A e, f \in Event : e.id = f.id /\ e.id # NoId => e = f
    /\ \A e, f \in Event : /\ e.id = f.id /\ e.account = f.account /\ e.kind = f.kind
                          /\ e.ts = f.ts /\ e.amount = f.amount
                          => e = f
    /\ \A e \in Event : e.amount \in Nat
    /\ Capacity \in Nat \ {0} /\ Batch \subseteq Nat \ {0}

VARIABLES
    buf,        \* MeteringQueue::buf
    seen,       \* MeteringQueue::seen
    totals,     \* Accumulator::totals
    billed,     \* the totals last exported to the BillingSink
    taken       \* the events an emitter was told are in: Ok(Accepted) or Ok(Duplicate)

vars == <<buf, seen, totals, billed, taken>>

Meter == {<<e.account, e.kind>> : e \in Event}
MeterOf(e) == <<e.account, e.kind>>

\* Mutant: the time is left out of the content key.
DedupKeyTimeless(e) ==
    IF e.id # NoId THEN <<"id", e.id>> ELSE <<"content", e.account, e.kind, e.amount>>

DedupKey(e) ==
    IF e.id # NoId THEN <<"id", e.id>> ELSE <<"content", e.account, e.kind, e.ts, e.amount>>

Init == buf = <<>> /\ seen = {} /\ totals = [m \in Meter |-> 0] /\ billed = totals /\ taken = {}

IsFull == Len(buf) >= Capacity

\* Mutant: the key is remembered before the room is checked.
EnqueueEager(e) ==
    /\ seen' = seen \union {DedupKey(e)}
    /\ buf' = IF DedupKey(e) \in seen \/ IsFull THEN buf ELSE Append(buf, e)
    /\ taken' = IF DedupKey(e) \in seen \/ ~IsFull THEN taken \union {e} ELSE taken
    /\ UNCHANGED <<totals, billed>>

\* A duplicate is acknowledged also by a full queue; an event handed back as Full
\* leaves no trace, so that it can be retried.
Enqueue(e) ==
    /\ \/ DedupKey(e) \in seen /\ taken' = taken \union {e} /\ UNCHANGED <<seen, buf>>
       \/ DedupKey(e) \notin seen /\ IsFull /\ UNCHANGED <<seen, buf, taken>>
       \/ /\ DedupKey(e) \notin seen /\ ~IsFull
          /\ seen' = seen \union {DedupKey(e)}
          /\ buf' = Append(buf, e)
          /\ taken' = taken \union {e}
    /\ UNCHANGED <<totals, billed>>

Amounts(q) == [i \in DOMAIN q |-> q[i].amount]

\* Accumulator::record of the first n events.
Recorded(n) ==
    [m \in Meter |-> totals[m] + SumFunctionOnSet(Amounts(buf), {i \in 1..n : MeterOf(buf[i]) = m})]

DrainBatch(max) ==
    LET n == IF max < Len(buf) THEN max ELSE Len(buf)
    IN  /\ totals' = Recorded(n)
        /\ buf' = SubSeq(buf, n + 1, Len(buf))
        /\ UNCHANGED <<seen, billed, taken>>

\* Batch after batch until the queue is empty.
DrainAll ==
    totals' = Recorded(Len(buf)) /\ buf' = <<>> /\ UNCHANGED <<seen, billed, taken>>

ExportTo == billed' = totals /\ UNCHANGED <<buf, seen, totals, taken>>

Next ==
    \/ \E e \in Event : Enqueue(e)
    \/ \E max \in Batch : DrainBatch(max)
    \/ DrainAll
    \/ ExportTo

Spec == Init /\ [][Next]_vars

-----------------------------------------------------------------------------
\* Every event an emitter was told is in is counted once, whatever was retried and
\* however full the queue was: the totals and the queue together hold the sum of the
\* events taken, and a bill never asks for more.
EachTakenCountedOnce ==
    \A m \in Meter :
        /\ Recorded(Len(buf))[m]
             = SumFunctionOnSet([e \in Event |-> e.amount], {e \in taken : MeterOf(e) = m})
        /\ billed[m] <= totals[m]

=============================================================================
