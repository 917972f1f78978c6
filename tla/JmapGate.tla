------------------------------ MODULE JmapGate ------------------------------
(***************************************************************************)
(* The node's client listener (node/src/jmap_api.rs): the loop that serves *)
(* one connection at a time between delivery ticks, the failed-login       *)
(* throttle in front of the mail routes, and the requests that pass by it. *)
(* Time is in milliseconds of the model; what the JMAP methods do to the   *)
(* mail store is external.                                                 *)
(***************************************************************************)
EXTENDS Integers, Functions

CONSTANTS
    MaxFailures,    \* AUTH_THROTTLE_MAX_FAILURES
    Window,         \* AUTH_THROTTLE_WINDOW_MS
    Second,         \* 1000
    Timeout,        \* READ_TIMEOUT plus WRITE_TIMEOUT: the longest a connection holds the loop
    Tick,           \* the tick interval
    MaxNow          \* bound: the clock

GateAssumption ==
    /\ {MaxFailures, Window, Second, Tick} \subseteq Nat \ {0} /\ {Timeout, MaxNow} \subseteq Nat

VARIABLES
    now,
    throttle,   \* AuthThrottle
    guesses,    \* how many wrong credentials were evaluated when, since a right one was
    told,       \* until when the last 429 asked to wait, and the window it was about
    due         \* when the next tick is due

vars == <<now, throttle, guesses, told, due>>

NotTold == [until |-> MaxNow + 1, start |-> 0]
NoGuesses == [t \in 0..MaxNow |-> 0]

Init ==
    /\ now = 0 /\ throttle = [start |-> 0, failures |-> 0]
    /\ guesses = NoGuesses /\ told = NotTold /\ due = Tick

\* retry_after_secs first forgives the failures of a window that has passed.
Elapsed == throttle.failures > 0 /\ now - throttle.start >= Window
Forgiven == IF Elapsed THEN [throttle EXCEPT !.failures = 0] ELSE throttle

\* Mutant: one failure too many.
ThrottledLate == Forgiven.failures > MaxFailures

Throttled == Forgiven.failures >= MaxFailures

\* Mutant: rounded down.
RetryAfterFloor == Second * ((throttle.start + Window - now) \div Second)

\* Whole seconds, rounded up.
RetryAfter ==
    LET secs == (throttle.start + Window - now + Second - 1) \div Second
    IN  Second * (IF secs < 1 THEN 1 ELSE secs)

RecordFailure ==
    IF Forgiven.failures = 0 THEN [start |-> now, failures |-> 1]
    ELSE [Forgiven EXCEPT !.failures = @ + 1]

RecordSuccess == [Forgiven EXCEPT !.failures = 0]

\* A request: to the send API, which has its own gate, a preflight, which has none, or
\* to a mail route with a credential that is right or wrong.
Request == {"preflight", "send", "right", "wrong"}

\* handle: while throttled no credential is evaluated, not even a right one.
Handle(req) ==
    \/ req \in {"preflight", "send"} /\ UNCHANGED <<throttle, guesses, told>>
    \/ /\ req \in {"right", "wrong"} /\ Throttled
       /\ throttle' = Forgiven /\ told' = [until |-> now + RetryAfter, start |-> throttle.start] /\ UNCHANGED guesses
    \/ /\ req = "wrong" /\ ~Throttled
       /\ throttle' = RecordFailure
       /\ guesses' = [guesses EXCEPT ![now] = @ + 1] /\ UNCHANGED told
    \/ /\ req = "right" /\ ~Throttled
       /\ throttle' = RecordSuccess /\ guesses' = NoGuesses /\ UNCHANGED told

\* run_loop_with_apis: a connection is served on the loop itself, and takes time.
HandleConnection(req, t) ==
    /\ now + t <= MaxNow /\ Handle(req)
    /\ now' = now + t /\ UNCHANGED due

\* poll, pump, retry, deadlines; missed ticks are skipped.
TickNode ==
    /\ now >= due /\ due' = (now \div Tick + 1) * Tick
    /\ UNCHANGED <<now, throttle, guesses, told>>

\* Nothing to accept: the loop waits for the tick.
Wait == now < due /\ now < MaxNow /\ now' = now + 1 /\ UNCHANGED <<throttle, guesses, told, due>>

Next ==
    \/ \E req \in Request, t \in {0, Timeout} : HandleConnection(req, t)
    \/ TickNode
    \/ Wait

Spec == Init /\ [][Next]_vars

-----------------------------------------------------------------------------
\* A guesser is bounded: while nobody logs in, a span as long as a window sees fewer
\* wrong credentials evaluated than two windows' worth.
GuessesBounded ==
    \A from \in 0..MaxNow :
        SumFunctionOnSet(guesses, {t \in 0..MaxNow : from <= t /\ t < from + Window})
            <= 2 * MaxFailures - 1

\* Who waits as long as it was told to finds that window over: refused requests do not
\* prolong it, and Retry-After is never short.
WaitIsEnough == now >= told.until /\ throttle.start = told.start => ~Throttled

\* The throttle bounds guesses and says truly how long to wait.
ThrottleHolds == GuessesBounded /\ WaitIsEnough

=============================================================================
