------------------------------ MODULE Outbound ------------------------------
(***************************************************************************)
(* The sender-side retry machine of one MOTE (node/src/outbound.rs) and    *)
(* the form in which the journal keeps it (node/src/journal.rs).           *)
(*                                                                         *)
(* An entry is the record [st, deadline, late, path, termAt].  The sealed  *)
(* envelope is the MOTE itself (one immutable id per MOTE), so it is not a *)
(* field; `attempts' only indexes backoff_ms, which the node never calls.  *)
(***************************************************************************)
EXTENDS Integers

CONSTANTS
    RetryDeadline,   \* RETRY_DEADLINE_MS: 72 h after QUEUED
    TerminalGrace    \* TERMINAL_GRACE_MS: how long a terminal entry is kept

ASSUME OutboundAssumption ==
    /\ RetryDeadline \in Nat \ {0}
    /\ TerminalGrace \in Nat \ {0}

\* "none" stands for an id the queue does not track.
OutState == {"none", "Queued", "Sealed", "InFlight", "Retry", "Acked", "Expired"}

OutEvent == {"SealOk", "Blocked", "DispatchOk", "AckReceived", "TierUnreachable",
             "RetryTimerFires", "DeadlineExceeded", "LateAck"}

Never == -1

OutboundEntry == [st: OutState, deadline: Nat, late: BOOLEAN, path: BOOLEAN,
                  termAt: Nat \cup {Never}]

NoEntry == [st |-> "none", deadline |-> 0, late |-> FALSE, path |-> FALSE,
            termAt |-> Never]

IsTerminal(st) == st \in {"Acked", "Expired"}

\* The transition table; an undefined pair leaves the state alone (the code
\* returns InvalidTransition).
NextState(st, ev) ==
    CASE st = "Queued"   /\ ev = "SealOk"           -> "Sealed"
      [] st = "Queued"   /\ ev = "Blocked"          -> "Retry"
      [] st = "Sealed"   /\ ev = "DispatchOk"       -> "InFlight"
      [] st = "InFlight" /\ ev = "AckReceived"      -> "Acked"
      [] st = "InFlight" /\ ev = "TierUnreachable"  -> "Retry"
      [] st = "Retry"    /\ ev = "RetryTimerFires"  -> "InFlight"
      [] st = "Retry"    /\ ev = "AckReceived"      -> "Acked"
      [] st \in {"Queued", "Sealed", "InFlight", "Retry"}
                         /\ ev = "DeadlineExceeded" -> "Expired"
      [] OTHER                                      -> st

Apply(e, ev) ==
    [e EXCEPT !.st   = NextState(e.st, ev),
              !.late = @ \/ (e.st = "Expired" /\ ev = "LateAck")]

\* `lifetime' is the draft's own expiry, relative to now.
Enqueue(now, lifetime, path) ==
    [st |-> "Queued",
     deadline |-> now + (IF lifetime < RetryDeadline THEN lifetime ELSE RetryDeadline),
     late |-> FALSE, path |-> path, termAt |-> Never]

\* Mutant: only an entry in RETRY can run out of time.
DeadlinePassedRetryOnly(e, now) == e.st = "Retry" /\ now >= e.deadline

DeadlinePassed(e, now) ==
    e.st # "none" /\ ~IsTerminal(e.st) /\ now >= e.deadline

\* The journal keeps everything but the mixnet path.
PersistedEntry(e) == [e EXCEPT !.path = FALSE]

=============================================================================
