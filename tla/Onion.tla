------------------------------- MODULE Onion --------------------------------
(***************************************************************************)
(* The private tier's wrapping (node/src/onion.rs) as a sender's attempts  *)
(* use it (node.rs: wire_frame, fresh_seed). A sealed envelope is cut into *)
(* cells on the bucket ladder and every attempt wraps it anew. The entry   *)
(* mix drops a cell whose tag it has seen; behind it the cells travel one  *)
(* by one, and the recipient puts together the cells of one fragment id.   *)
(* Mixes and cells in transit are outside the program. A byte is 1 or more *)
(* in the envelope, 0 in padding.                                          *)
(***************************************************************************)
EXTENDS Naturals, Sequences, FiniteSets, SequencesExt

CONSTANTS
    Lengths,        \* how long an envelope may be
    Hops,           \* how long a path may be
    FragmentLen,    \* FRAGMENT_DATA_LEN
    RMax,           \* R_MAX
    MaxAttempts     \* bound: attempts of a send

MinPrivateHops == 3
Buckets == <<1, 4, 16, 32>>

OnionAssumption == /\ Lengths \subseteq Nat \ {0} /\ Hops \subseteq Nat
                   /\ {FragmentLen, RMax, MaxAttempts} \subseteq Nat \ {0}

VARIABLES
    inner,      \* the sealed envelope of the entry, empty before the send
    refused,    \* the send ended with an OnionError
    attempts,   \* how often it was wrapped: a seed each
    frame,      \* the cells of the last attempt, on their way to the entry mix
    tags,       \* the entry mix's replay cache
    transit,    \* cells behind the entry mix
    gathered,   \* cells the recipient holds
    opened      \* what the recipient put together

vars == <<inner, refused, attempts, frame, tags, transit, gathered, opened>>

Init == /\ inner = <<>> /\ refused = FALSE /\ attempts = 0 /\ frame = {}
        /\ tags = {} /\ transit = {} /\ gathered = {} /\ opened = {}

-----------------------------------------------------------------------------
\* ladder: the first bucket that holds the envelope; none for one above the last.
Ladder(len) == {i \in DOMAIN Buckets : len <= Buckets[i] * FragmentLen
                                       /\ \A j \in 1..(i - 1) : len > Buckets[j] * FragmentLen}

\* Mutant: a fragment ends one byte early.
SliceShort(bytes, i) ==
    [k \in 1..FragmentLen |-> IF k < FragmentLen /\ i * FragmentLen + k <= Len(bytes)
                              THEN bytes[i * FragmentLen + k] ELSE 0]

\* The i-th slice of the envelope, zero-padded.
Slice(bytes, i) ==
    [k \in 1..FragmentLen |-> IF i * FragmentLen + k <= Len(bytes)
                              THEN bytes[i * FragmentLen + k] ELSE 0]

\* Mutant: every attempt wraps with the first seed.
FreshSeedOnce(n) == 1

\* fresh_seed, named by the attempt that drew it.
FreshSeed(n) == n

\* wrap: a cell's tag and its fragment id follow from the seed, its slice does not.
Wrap(bytes, seed) ==
    LET count == Buckets[CHOOSE i \in Ladder(Len(bytes)) : TRUE] IN
    {[tag |-> <<seed, i>>, id |-> seed, index |-> i, count |-> count,
      len |-> Len(bytes), frag |-> Slice(bytes, i)] : i \in 0..(count - 1)}

Wraps(len, hops) == hops >= MinPrivateHops /\ hops <= RMax /\ Ladder(len) # {}

\* send_mail_private: the path and the envelope are tried before anything is queued.
SendMailPrivate(len, hops) ==
    /\ inner = <<>> /\ ~refused
    /\ IF Wraps(len, hops)
       THEN /\ inner' = [k \in 1..len |-> k] /\ attempts' = 1
            /\ frame' = Wrap(inner', FreshSeed(1)) /\ UNCHANGED refused
       ELSE refused' = TRUE /\ UNCHANGED <<inner, attempts, frame>>
    /\ UNCHANGED <<tags, transit, gathered, opened>>

\* retry_pending dispatches again: the retained envelope in a new wrap. The frame before
\* it has arrived or is lost.
Retry ==
    /\ inner # <<>> /\ attempts < MaxAttempts
    /\ attempts' = attempts + 1
    /\ frame' = Wrap(inner, FreshSeed(attempts'))
    /\ UNCHANGED <<inner, refused, tags, transit, gathered, opened>>

\* The entry mix takes the frame apart; a network may deliver a frame twice.
EntryMix(again) ==
    /\ frame # {}
    /\ transit' = transit \union {c \in frame : c.tag \notin tags}
    /\ tags' = tags \union {c.tag : c \in frame}
    /\ frame' = IF again THEN frame ELSE {}
    /\ UNCHANGED <<inner, refused, attempts, gathered, opened>>

LoseCell(c) ==
    /\ transit' = transit \ {c}
    /\ UNCHANGED <<inner, refused, attempts, frame, tags, gathered, opened>>

\* The cells of one fragment id, in the order of their indices, cut to the length they state.
Joined(cells) ==
    LET len == (CHOOSE c \in cells : TRUE).len
        bytes == [i \in 1..Cardinality(cells) |-> (CHOOSE c \in cells : c.index = i - 1).frag]
    IN SubSeq(FlattenSeq(bytes), 1, len)

Receive(c) ==
    LET cells == {d \in gathered : d.id = c.id} \union {c} IN
    /\ transit' = transit \ {c}
    /\ IF {d.index : d \in cells} = 0..(c.count - 1)
       THEN opened' = opened \union {Joined(cells)} /\ gathered' = gathered \ cells
       ELSE gathered' = gathered \union {c} /\ UNCHANGED opened
    /\ UNCHANGED <<inner, refused, attempts, frame, tags>>

Next ==
    \/ \E len \in Lengths, hops \in Hops : SendMailPrivate(len, hops)
    \/ Retry
    \/ \E again \in BOOLEAN : EntryMix(again)
    \/ \E c \in transit : LoseCell(c) \/ Receive(c)

Spec == Init /\ [][Next]_vars

-----------------------------------------------------------------------------
\* What the recipient puts together, from the cells of any attempts in any order, is the
\* envelope that was sealed.
OpensWhole == opened \subseteq {inner}

\* A retry that arrives is never taken for a replay: when the frame that is on its way is
\* the first delivery of its attempt, none of its cells has a tag the mix has seen. A
\* frame the network repeats is dropped as a whole.
RetriesPass ==
    \/ {c.tag : c \in frame} \intersect tags = {}
    \/ {c.tag : c \in frame} \subseteq tags /\ \E c \in frame : c.id = attempts

\* Every attempt gets through, and what is opened is what was sealed.
OpensAcrossRetries == OpensWhole /\ RetriesPass

=============================================================================
