----------------------------- MODULE SyncServe ------------------------------
(***************************************************************************)
(* The sync server (node/src/syncserve.rs): a replica of signed operations *)
(* that authors push to over HTTP, that truncates its journal behind a     *)
(* signed snapshot, and that a follower pulls from with its version        *)
(* vector.  An operation is known by its author and clock; it either adds  *)
(* an element (cancels nothing) or removes earlier additions.  The replica *)
(* state and the snapshot body are the substrate's (external): what counts *)
(* of them is which additions are live.  There is one namespace.           *)
(***************************************************************************)
EXTENDS Integers, Sequences, FiniteSets, Functions

CONSTANTS
    Author,
    AuthorOrder,    \* the authors in the order that breaks ties of clocks
    MaxHlc,         \* bound: operations of an author
    Cancels,        \* what each operation removes
    PullLimit,      \* PULL_BATCH_LIMIT
    PushLimit,      \* PUSH_BATCH_LIMIT
    Inline          \* whether a body fits INLINE_STATE_CEILING

Op == Author \X (1..MaxHlc)

SyncAssumption ==
    /\ Cancels \in [Op -> SUBSET Op] /\ \A o \in Op : \A p \in Cancels[o] : p[2] < o[2]
    /\ AuthorOrder \in Seq(Author) /\ Range(AuthorOrder) = Author
    /\ MaxHlc \in Nat /\ PullLimit \in Nat \ {0} /\ PushLimit \in Nat \ {0}
    /\ Inline \in BOOLEAN

VARIABLES
    applied,    \* what SyncState has merged: its dedup set, and so its vector
    journal,    \* SyncReplica::journal
    signed,     \* the checkpoint the operator signed last, if any
    snapshot,   \* SyncReplica::snapshot and snapshot_state, once it truncated
    answer,     \* the answer on its way to the follower
    have,       \* the follower's operations
    vector      \* the follower's version vector

server == <<applied, journal, signed, snapshot>>
follower == <<answer, have, vector>>
vars == <<server, follower>>

None == [kind |-> "none"]
Before(o, p) ==
    LET Rank(a) == CHOOSE i \in DOMAIN AuthorOrder : AuthorOrder[i] = a
    IN  o[2] < p[2] \/ (o[2] = p[2] /\ Rank(o[1]) < Rank(p[1]))

\* external: SyncState's fold, its version vector and VersionVector::lacks.
Fold(ops) == {o \in ops : Cancels[o] = {} /\ \A p \in ops : o \notin Cancels[p]}
VectorOf(ops) ==
    [a \in Author |-> LET own == {o[2] : o \in {p \in ops : p[1] = a}}
                      IN  IF own = {} THEN 0 ELSE CHOOSE t \in own : \A u \in own : u <= t]
Lacks(v, o) == o[2] > v[o[1]]

Init ==
    /\ applied = {} /\ journal = {} /\ signed = None /\ snapshot = None
    /\ answer = None /\ have = {} /\ vector = VectorOf({})

-----------------------------------------------------------------------------
\* A member of a batch: an operation, or one that is not accepted.  "bad" fails its
\* framing or signature; "stray" is outside the namespaces or the skew window, which
\* only ingest_cose finds out.
Bad == <<"bad", 0>>
Stray == <<"stray", 0>>
Item == Op \union {Bad, Stray}

\* ingest_cose, member after member until one is not accepted; a duplicate is no error
\* and is not journalled again.
Ingested(items) ==
    {items[i] : i \in {j \in DOMAIN items : \A k \in 1..j : items[k] # Stray}}

\* POST /sync/ops: every member is verified first, then they are ingested one by one.
OpsResponse(items) ==
    IF Len(items) > PushLimit \/ Bad \in Range(items)
    THEN [applied |-> applied, journal |-> journal, failed |-> TRUE]
    ELSE [applied |-> applied \union Ingested(items),
          journal |-> journal \union (Ingested(items) \ applied),
          failed |-> Stray \in Range(items)]

\* external: an author pushes its operations in the order it made them, and removes only
\* what the server has; what it pushed already may be pushed again.
InOrder(items) ==
    \A i \in DOMAIN items :
        items[i] \in Op =>
            Cancels[items[i]] \union {<<items[i][1], t>> : t \in 1..(items[i][2] - 1)}
                \subseteq applied \union {items[j] : j \in 1..(i - 1)}

Push(items) ==
    /\ InOrder(items)
    /\ applied' = OpsResponse(items).applied
    /\ journal' = OpsResponse(items).journal
    /\ UNCHANGED <<signed, snapshot, follower>>

-----------------------------------------------------------------------------
\* The operator signs a checkpoint of the state as it is.
SignSnapshot ==
    /\ signed' = [kind |-> "snapshot", covers |-> VectorOf(applied), root |-> Fold(applied)]
    /\ UNCHANGED <<applied, journal, snapshot, follower>>

\* external: retention_set, the live history.
Retained == Fold(applied)

\* Mutant: an operation the checkpoint does not know of is dropped too.
CoversAny(doomed) == TRUE

Covers(doomed) == \A o \in doomed : ~Lacks(signed.covers, o)

\* truncate_below: the body compacted from the journal has to fold to the root, and the
\* checkpoint has to cover everything that goes.
TruncateBelow(cut) ==
    LET doomed == {o \in journal : o[2] < cut /\ o \notin Retained}
    IN  /\ signed # None /\ signed.root = Fold(applied) /\ Covers(doomed)
        /\ journal' = journal \ doomed
        /\ snapshot' = signed
        /\ UNCHANGED <<applied, signed, follower>>

-----------------------------------------------------------------------------
\* Mutant: the surviving suffix is handed to everybody.
CallerIsBehindCutNever(v) == FALSE

\* Mutant: who stands at the cut is sent the snapshot too.
CallerIsBehindCutOrAt(v) == snapshot # None /\ \E a \in Author : v[a] <= snapshot.covers[a]

CallerIsBehindCut(v) == snapshot # None /\ \E a \in Author : v[a] < snapshot.covers[a]

\* Mutant: newest first.
WantedNewest(v) ==
    LET lacked == {o \in journal : Lacks(v, o)}
    IN  {o \in lacked : Cardinality({p \in lacked : Before(o, p)}) < PullLimit}

\* What the caller lacks, sorted and cut off: those before which fewer than PullLimit come.
Wanted(v) ==
    LET lacked == {o \in journal : Lacks(v, o)}
    IN  {o \in lacked : Cardinality({p \in lacked : Before(p, o)}) < PullLimit}

\* ops_after: the oldest of what the caller lacks, or the snapshot, with its body when
\* that is small enough.
OpsAfter(v) ==
    IF CallerIsBehindCut(v)
    THEN [kind |-> "join", covers |-> snapshot.covers, root |-> snapshot.root, body |-> Inline]
    ELSE [kind |-> "ops", ops |-> Wanted(v)]

PullResponse ==
    answer = None /\ answer' = OpsAfter(vector) /\ UNCHANGED <<server, have, vector>>

\* GET /sync/state/<root>: only the body of the snapshot the replica holds now.
StateResponse ==
    /\ answer.kind = "join" /\ ~answer.body
    /\ answer' = IF snapshot.root = answer.root THEN [answer EXCEPT !.body = TRUE] ELSE None
    /\ UNCHANGED <<server, have, vector>>

\* external: the follower merges a batch, or takes over the snapshot's state and its
\* vector.
Apply ==
    /\ \/ /\ answer.kind = "ops"
          /\ have' = have \union answer.ops
          /\ vector' = [a \in Author |->
                IF VectorOf(answer.ops)[a] > vector[a] THEN VectorOf(answer.ops)[a]
                ELSE vector[a]]
       \/ answer.kind = "join" /\ answer.body /\ have' = answer.root /\ vector' = answer.covers
    /\ answer' = None
    /\ UNCHANGED server

\* The answer is lost, or the connection is cut at its time limit.
Lose == answer # None /\ answer' = None /\ UNCHANGED <<server, have, vector>>

-----------------------------------------------------------------------------
\* A request is served when the surface is switched on and the bearer's capability is
\* for this operator and in its time; every handler below runs under the gateway's lock.
Request == [enabled : BOOLEAN, authorized : BOOLEAN]
Handle(req) == req.enabled /\ req.authorized

Batch == UNION {[1..n -> Item] : n \in 1..PushLimit}

Next ==
    \/ \E req \in Request : Handle(req) /\ ((\E items \in Batch : Push(items)) \/ PullResponse \/ StateResponse)
    \/ SignSnapshot
    \/ \E cut \in 1..(MaxHlc + 1) : TruncateBelow(cut)
    \/ Apply
    \/ Lose

Spec == Init /\ [][Next]_vars

-----------------------------------------------------------------------------
\* A follower's vector is honest across batches, truncations and fast joins: what it
\* says the follower has seen of the server's operations is what its state reflects.
VectorIsHonest == Fold(have) = Fold({o \in applied : ~Lacks(vector, o)})

\* A follower that is told there is nothing more agrees with the server.
CaughtUpAgrees ==
    ~CallerIsBehindCut(vector) /\ Wanted(vector) = {} => Fold(have) = Fold(applied)

\* The state property of which <>[] holds of a follower that keeps asking, if what the
\* network loses it does not lose for ever: each answer, a batch or a snapshot, takes it
\* further than the last.
CaughtUp == Fold(have) = Fold(applied)

\* "A batch is all-or-nothing on error": a push that is answered with an error leaves
\* no trace.  The operations before a bad one stay applied: the code does not keep this.
PushIsAtomic ==
    \A items \in Batch : Push(items) /\ OpsResponse(items).failed => UNCHANGED applied

\* A follower's vector never claims what its state does not reflect.
FollowerIsHonest == VectorIsHonest /\ CaughtUpAgrees

=============================================================================
