------------------------------ MODULE Delivery ------------------------------
(***************************************************************************)
(* The delivery engine of the Envoir node (node/src/node.rs) and the       *)
(* daemon loop that drives it: a set of nodes exchange sealed MOTEs and    *)
(* acks over a transport that loses and reorders frames; each keeps a      *)
(* sender-side retry queue, a recipient-side dedup set, per-contact suite  *)
(* floors, an INBOX, a requests area and an ephemeral view, and            *)
(* checkpoints the first three to a journal; a node may crash between any  *)
(* two externally visible steps and restart from the journal.              *)
(*                                                                         *)
(* A tick of the daemon is the sequence set_now; poll (one step per        *)
(* frame); retry_pending (one step per entry); tick_deadlines.  pc[n] is   *)
(* the place node n has reached in it.  An API call runs only between two  *)
(* ticks.                                                                  *)
(***************************************************************************)
EXTENDS Outbound, FiniteSets, Sequences

CONSTANTS
    Node,          \* identity keys of the Envoir nodes
    Relay,         \* other transport addresses: mixes, peer buffers (external)
    Mote,          \* sealed MOTEs, named by their content address
    Src, Dst,      \* [Mote -> Node]: payload.from, and the recipient
    Lifetime,      \* [Mote -> Nat]: the draft's `expires', relative to now
    Suite,         \* [Mote -> Nat]: Envelope.suite
    Private,       \* MOTEs sent on the private tier (mixnet)
    Sensitive,     \* MOTEs flagged sensitive
    Proven,        \* MOTEs that carry a cold-sender challenge response
    Pow,           \* those whose challenge response is a proof of work
    Invalid,       \* MOTEs that fail the cryptographic checks
    DedupWindow,   \* DEDUP_WINDOW_MS
    MaxInbox,      \* MAX_INBOX_FRAMES
    MaxEphemeral,  \* MAX_EPHEMERAL_HELD
    BootClock,     \* the constant clock of a node just built
    StartTime,     \* the wall clock when the model starts
    Flaky,         \* addresses whose link fails and recovers
    Pins,          \* addresses the clients pin as contacts
    Floors,        \* suites the clients pin as floors
    MaxTime,       \* bound on the wall clock
    MaxCrash,      \* bound on the number of crashes and shutdowns
    MaxSaveFail,   \* bound on the number of journal writes that fail
    MaxRedeliver   \* bound on the number of late copies the network replays

Addr == Node \cup Relay

ASSUME DeliveryAssumption ==
    /\ Node \cap Relay = {}
    /\ Src \in [Mote -> Node] /\ Dst \in [Mote -> Node]
    /\ Lifetime \in [Mote -> Nat] /\ Suite \in [Mote -> Nat \ {0}]
    /\ Pow \subseteq Proven /\ Flaky \subseteq Addr /\ Pins \subseteq Addr
    /\ Floors \subseteq Nat
    /\ BootClock \in Nat /\ StartTime \in Nat /\ BootClock <= StartTime
    /\ MaxTime \in Nat /\ DedupWindow \in Nat \ {0}
    /\ MaxEphemeral \in Nat \ {0} /\ MaxSaveFail \in Nat
    \* BootClock is in November 2023: more than the window ago.
    /\ StartTime - BootClock >= DedupWindow

VARIABLES
    wall,       \* the wall clock, now_ms()
    reachable,  \* transport addresses a dial currently succeeds to
    up,         \* nodes whose process runs
    pc,         \* where node n is in its loop
    clk,        \* Node.now
    out,        \* Node.outbound of Src[m], by MOTE
    todo,       \* the RETRY ids retry_pending has enumerated
    inbox,      \* frames waiting in the transport of n
    batch,      \* frames drain() returned, not yet processed
    dirty,      \* Node.checkpoint_dirty
    contacts,   \* Node.contacts
    seen,       \* Node.seen: records [id, at]
    mark,       \* Node.suite_ratchet: [Node -> [Node -> suite, 0 for none]]
    marked,     \* Node.suite_contacts
    filed,      \* how often m lies in INBOX
    requests,   \* MOTEs with a placeholder in the requests area
    eph,        \* Node.ephemeral
    jout, jseen, jmark,           \* the journal
    journalled,                   \* history: MOTEs the journal ever held
    crashes, saveFails, replays,  \* counters for the bounds
    \* History variables:
    shipped,    \* MOTEs handed to the transport, in whatever form
    direct,     \* MOTEs whose sealed bytes went straight to their recipient
    sent,       \* MOTEs a send call was made for
    delivered,  \* MOTEs their recipient ever accepted
    ackSent,    \* MOTEs their recipient ever sent an ack for
    filedAt,    \* the receive clock at the last accept of m, or Never
    tracked     \* MOTEs whose send call returned

nodeVars == <<pc, clk, out, todo, batch, dirty, contacts, seen, mark, marked,
              filed, requests, eph>>
diskVars == <<jout, jseen, jmark, journalled, saveFails>>
netVars  == <<wall, reachable, up, inbox, crashes, replays>>
history  == <<shipped, direct, sent, delivered, ackSent, filedAt, tracked>>
vars     == <<nodeVars, diskVars, netVars, history>>

Frame == [kind: {"mote", "ack"}, id: Mote, from: Addr]

\* Everything but the journal: the nodes' memory, the network, the history.
RestOK ==
    /\ wall \in Nat /\ reachable \subseteq Addr /\ up \subseteq Node
    /\ pc \in [Node -> {"idle", "sent", "poll", "retry", "deadlines"}]
    /\ clk \in [Node -> Nat]
    /\ out \in [Mote -> OutboundEntry]
    /\ todo \in [Node -> SUBSET Mote]
    /\ inbox \in [Node -> SUBSET Frame] /\ batch \in [Node -> SUBSET Frame]
    /\ dirty \in [Node -> BOOLEAN]
    /\ contacts \in [Node -> SUBSET Addr]
    /\ seen \in [Node -> SUBSET [id: Mote, at: Nat]]
    /\ mark \in [Node -> [Node -> Nat]]
    /\ marked \in [Node -> SUBSET Node]
    /\ filed \in [Mote -> Nat]
    /\ requests \in [Node -> SUBSET Mote]
    /\ eph \in [Node -> Seq(Mote)]
    /\ crashes \in Nat /\ replays \in Nat
    /\ shipped \subseteq Mote /\ direct \subseteq Mote /\ sent \subseteq Mote
    /\ delivered \subseteq Mote
    /\ ackSent \subseteq Mote /\ tracked \subseteq Mote
    /\ filedAt \in [Mote -> Nat \cup {Never}]

TypeOK ==
    /\ RestOK
    /\ jout \in [Mote -> OutboundEntry] /\ jseen \in [Node -> SUBSET Mote]
    /\ jmark \in [Node -> [Node -> Nat]] /\ journalled \subseteq Mote
    /\ saveFails \in Nat

Mine(n) == {m \in Mote : Src[m] = n}

Init ==
    /\ wall = StartTime /\ reachable = Addr /\ up = Node
    /\ pc = [n \in Node |-> "idle"]
    /\ clk = [n \in Node |-> BootClock]
    /\ out = [m \in Mote |-> NoEntry] /\ jout = out
    /\ todo = [n \in Node |-> {}]
    /\ inbox = [n \in Node |-> {}] /\ batch = [n \in Node |-> {}]
    /\ dirty = [n \in Node |-> FALSE]
    /\ contacts = [n \in Node |-> {}]
    /\ seen = [n \in Node |-> {}] /\ jseen = [n \in Node |-> {}]
    /\ mark = [n \in Node |-> [c \in Node |-> 0]] /\ jmark = mark
    /\ marked = [n \in Node |-> {}]
    /\ filed = [m \in Mote |-> 0]
    /\ requests = [n \in Node |-> {}]
    /\ eph = [n \in Node |-> <<>>]
    /\ crashes = 0 /\ saveFails = 0 /\ replays = 0
    /\ shipped = {} /\ direct = {} /\ sent = {} /\ delivered = {} /\ ackSent = {} /\ tracked = {}
    /\ journalled = {}
    /\ filedAt = [m \in Mote |-> Never]

-----------------------------------------------------------------------------
(***************************** The transport ******************************)

\* Transport::send returns Ok iff the peer's socket accepts the dial.
Reaches(a) == a \in reachable /\ (a \in Node => a \in up)

\* A frame that arrives at a full inbox is dropped after the sender's write
\* has succeeded.
Push(box, f) == IF Cardinality(box) < MaxInbox THEN box \cup {f} ELSE box

\* The inboxes after `a' was sent f: a relay's inbox is not modelled.
Posted(a, f) ==
    IF a \in Node /\ Reaches(a) THEN [inbox EXCEPT ![a] = Push(@, f)] ELSE inbox

\* The destination and the form of an entry's frame: a private entry that
\* still holds its path goes to the entry mix as an onion, every other one
\* goes to the recipient as sealed bytes.
WireDest(m, e) == IF m \in Private /\ e.path THEN CHOOSE r \in Relay : TRUE
                                             ELSE Dst[m]

Ship(m, e) ==
    /\ inbox' = Posted(WireDest(m, e), [kind |-> "mote", id |-> m, from |-> Src[m]])
    /\ shipped' = IF Reaches(WireDest(m, e)) THEN shipped \cup {m} ELSE shipped
    /\ direct' = IF WireDest(m, e) = Dst[m] /\ Reaches(Dst[m])
                 THEN direct \cup {m} ELSE direct

-----------------------------------------------------------------------------
(****************************** The journal *******************************)

\* One journal write of node n: the snapshot of what n's state becomes, or,
\* when the write fails, nothing (checkpoint() swallows the error).
Save(n) ==
    \/ /\ jout' = [m \in Mote |-> IF Src[m] = n THEN PersistedEntry(out'[m]) ELSE jout[m]]
       /\ jseen' = [jseen EXCEPT ![n] = {r.id : r \in seen'[n]}]
       /\ jmark' = [jmark EXCEPT ![n] =
                      [c \in Node |-> IF c \in marked'[n] THEN mark'[n][c] ELSE 0]]
       /\ journalled' = journalled \cup {m \in Mine(n) : out'[m].st # "none"}
       /\ UNCHANGED saveFails
    \/ /\ saveFails < MaxSaveFail
       /\ saveFails' = saveFails + 1
       /\ UNCHANGED <<jout, jseen, jmark, journalled>>

-----------------------------------------------------------------------------
(****************************** Sending *******************************)

\* QUEUED -> SEALED -> IN_FLIGHT, and on to RETRY if the dial failed.
Dispatched(e, ok) ==
    LET f == Apply(Apply(e, "SealOk"), "DispatchOk")
    IN  IF ok THEN f ELSE Apply(f, "TierUnreachable")

\* send_mail, send_with_draft, dispatch_sealed, send_mail_private: the frame
\* leaves and the entry is queued; the checkpoint that makes it durable
\* (SendCheckpoint) comes last, before the call returns.
Send(n, m) ==
    /\ n \in up /\ pc[n] = "idle" /\ Src[m] = n
    /\ m \notin sent    \* sealing draws a fresh key: an id is never used twice
    /\ wall + RetryDeadline <= MaxTime    \* bound: the deadline is within reach
    /\ sent' = sent \cup {m}
    /\ LET e == Enqueue(wall, Lifetime[m], m \in Private)
       IN  /\ out' = [out EXCEPT ![m] = Dispatched(e, Reaches(WireDest(m, e)))]
           /\ Ship(m, e)
    /\ clk' = [clk EXCEPT ![n] = wall]
    /\ pc' = [pc EXCEPT ![n] = "sent"]
    /\ UNCHANGED <<todo, batch, dirty, contacts, seen, mark, marked, filed, requests, eph>>
    /\ UNCHANGED <<diskVars, wall, reachable, up, crashes, replays>>
    /\ UNCHANGED <<delivered, ackSent, filedAt, tracked>>

SendCheckpoint(n) ==
    /\ n \in up /\ pc[n] = "sent"
    /\ pc' = [pc EXCEPT ![n] = "idle"]
    /\ tracked' = tracked \cup {m \in Mine(n) : out[m].st # "none"}
    /\ UNCHANGED <<clk, out, todo, batch, dirty, contacts, seen, mark, marked, filed, requests, eph>>
    /\ UNCHANGED <<netVars, shipped, direct, sent, delivered, ackSent, filedAt>>
    /\ Save(n)

-----------------------------------------------------------------------------
(*************************** One daemon tick ***************************)

\* set_now(now_ms()), and the drain at the head of poll().
Tick(n) ==
    /\ n \in up /\ pc[n] = "idle"
    /\ clk' = [clk EXCEPT ![n] = wall]
    /\ batch' = [batch EXCEPT ![n] = inbox[n]]
    /\ inbox' = [inbox EXCEPT ![n] = {}]
    /\ dirty' = [dirty EXCEPT ![n] = FALSE]
    /\ pc' = [pc EXCEPT ![n] = "poll"]
    /\ UNCHANGED <<out, todo, contacts, seen, mark, marked, filed, requests, eph>>
    /\ UNCHANGED <<diskVars, wall, reachable, up, crashes, replays, history>>

\* Mutant: an ack counts whatever its return path.
HonoursAnyPath(n, f) == Src[f.id] = n /\ out[f.id].st # "none"

\* An ack counts only over the return path of the entry's tracked recipient.
Honours(n, f) == Src[f.id] = n /\ out[f.id].st # "none" /\ f.from = Dst[f.id]

\* receive_ack.
ReceiveAck(n, f) ==
    LET m == f.id
        e == Apply(out[m], IF out[m].st = "Expired" THEN "LateAck" ELSE "AckReceived")
    IN  /\ f.kind = "ack"
        /\ IF Honours(n, f)
           THEN /\ out' = [out EXCEPT ![m] = e]
                /\ dirty' = [dirty EXCEPT ![n] = @ \/ e # out[m]]
           ELSE UNCHANGED <<out, dirty>>
        /\ UNCHANGED <<inbox, contacts, seen, mark, marked, filed, requests, eph>>
        /\ UNCHANGED <<delivered, ackSent, filedAt>>

\* seen.contains(id, now) and seen.record(id, now): the sliding window.  The
\* LRU cap is the subject of SeenSet.

\* Mutant: the window ends one tick early.
SeenContainsShort(n, m) == \E r \in seen[n] : r.id = m /\ clk[n] - r.at + 1 < DedupWindow

SeenContains(n, m) == \E r \in seen[n] : r.id = m /\ clk[n] - r.at < DedupWindow
SeenRecord(n, m) ==
    {r \in seen[n] : clk[n] - r.at < DedupWindow /\ r.id # m}
        \cup {[id |-> m, at |-> clk[n]]}

SendAck(n, f) ==
    /\ inbox' = Posted(f.from, [kind |-> "ack", id |-> f.id, from |-> n])
    /\ ackSent' = ackSent \cup {f.id}

\* ADDR_OK and already held: acked again, not reprocessed.
Duplicate(n, f) ==
    /\ SeenContains(n, f.id)
    /\ SendAck(n, f)
    /\ UNCHANGED <<dirty, contacts, seen, mark, marked, filed, requests, eph>>
    /\ UNCHANGED <<delivered, filedAt>>

\* Held in the requests area, neither acked nor remembered: a proof of work
\* past the connection's budget (a choice here: the budget is PowGate's), a
\* cold sender without a challenge response, or a suite below the floor.
Deferred(n, f) ==
    /\ ~SeenContains(n, f.id)
    /\ \/ f.from \notin contacts[n] /\ f.id \in Pow
       \/ f.id \notin Invalid /\ f.from \notin contacts[n] /\ f.id \notin Proven
       \/ f.id \notin Invalid /\ Suite[f.id] < mark[n][Src[f.id]]
    /\ requests' = [requests EXCEPT ![n] = @ \cup {f.id}]
    /\ UNCHANGED <<inbox, dirty, contacts, seen, mark, marked, filed, eph>>
    /\ UNCHANGED <<delivered, ackSent, filedAt>>

\* validate_pinned accepts f, and ratchets the sender's floor.
Validates(n, f) ==
    /\ ~SeenContains(n, f.id)
    /\ f.id \notin Invalid
    /\ f.from \in contacts[n] \/ f.id \in Proven
    /\ Suite[f.id] >= mark[n][Src[f.id]]
    /\ mark' = [mark EXCEPT ![n][Src[f.id]] = Suite[f.id]]

\* The operator's storage quota refuses the MOTE (any time it likes).
StorageDenied(n, f) ==
    /\ Validates(n, f)
    /\ UNCHANGED <<inbox, dirty, contacts, seen, marked, filed, requests, eph>>
    /\ UNCHANGED <<delivered, ackSent, filedAt>>

\* A pinned contact's frame whose sealed identity is somebody else's.
PinMismatch(n, f) == f.from \in contacts[n] /\ Src[f.id] # f.from

\* Malformed or forged, or dropped by accept() after the ratchet moved.
Dropped(n, f) ==
    /\ \/ ~SeenContains(n, f.id) /\ f.id \in Invalid /\ UNCHANGED mark
       \/ Validates(n, f) /\ PinMismatch(n, f)
    /\ UNCHANGED <<inbox, dirty, contacts, seen, marked, filed, requests, eph>>
    /\ UNCHANGED <<delivered, ackSent, filedAt>>

\* The ephemeral view keeps the newest MaxEphemeral messages.
PushEphemeral(s, m) ==
    Append(IF Len(s) >= MaxEphemeral THEN Tail(s) ELSE s, m)

\* suite_contacts after an accept.
Listed(n, m) == marked[n] \cup {Src[m]}

\* accept(): pin the sender, then file (and ack) or, for a sensitive MOTE,
\* show.  The sensitive branch returns without send_ack.
Accept(n, f) ==
    LET m == f.id IN
    /\ Validates(n, f) /\ ~PinMismatch(n, f)
    /\ contacts' = [contacts EXCEPT ![n] = @ \cup {Src[m]}]
    /\ marked' = [marked EXCEPT ![n] = Listed(n, m)]
    /\ seen' = [seen EXCEPT ![n] = SeenRecord(n, m)]
    /\ dirty' = [dirty EXCEPT ![n] = TRUE]
    /\ delivered' = delivered \cup {m}
    /\ filedAt' = [filedAt EXCEPT ![m] = clk[n]]
    /\ IF m \in Sensitive
       THEN /\ eph' = [eph EXCEPT ![n] = PushEphemeral(@, m)]
            /\ UNCHANGED <<filed, inbox, ackSent>>
       ELSE /\ filed' = [filed EXCEPT ![m] = @ + 1]
            /\ SendAck(n, f)
            /\ UNCHANGED eph
    /\ UNCHANGED requests

ReceiveMote(n, f) ==
    /\ f.kind = "mote" /\ Dst[f.id] = n
    /\ \/ Duplicate(n, f)
       \/ Deferred(n, f)
       \/ StorageDenied(n, f)
       \/ Dropped(n, f)
       \/ Accept(n, f)
    /\ UNCHANGED out

\* One frame of the batch, in any order.
PollFrame(n) ==
    /\ n \in up /\ pc[n] = "poll"
    /\ \E f \in batch[n] :
          /\ batch' = [batch EXCEPT ![n] = @ \ {f}]
          /\ ReceiveAck(n, f) \/ ReceiveMote(n, f)
    /\ UNCHANGED <<pc, clk, todo, diskVars, wall, reachable, up, crashes, replays>>
    /\ UNCHANGED <<shipped, direct, sent, tracked>>

\* The batch is done: one write if anything durable changed.  Then
\* retry_pending enumerates the entries in RETRY.
PollEnd(n) ==
    /\ n \in up /\ pc[n] = "poll" /\ batch[n] = {}
    /\ pc' = [pc EXCEPT ![n] = "retry"]
    /\ todo' = [todo EXCEPT ![n] = {m \in Mine(n) : out[m].st = "Retry"}]
    /\ UNCHANGED <<clk, out, batch, dirty, contacts, seen, mark, marked, filed, requests, eph>>
    /\ UNCHANGED <<netVars, history>>
    /\ IF dirty[n] THEN Save(n) ELSE UNCHANGED diskVars

\* retry_pending, one entry: RETRY -> IN_FLIGHT, and back if the dial failed.
RetryEntry(n) ==
    /\ n \in up /\ pc[n] = "retry"
    /\ \E m \in todo[n] :
          LET e == Apply(out[m], "RetryTimerFires") IN
          /\ todo' = [todo EXCEPT ![n] = @ \ {m}]
          /\ out' = [out EXCEPT ![m] = IF Reaches(WireDest(m, e)) THEN e
                                       ELSE Apply(e, "TierUnreachable")]
          /\ Ship(m, e)
    /\ UNCHANGED <<pc, clk, batch, dirty, contacts, seen, mark, marked, filed, requests, eph>>
    /\ UNCHANGED <<diskVars, wall, reachable, up, crashes, replays>>
    /\ UNCHANGED <<sent, delivered, ackSent, filedAt, tracked>>

RetryEnd(n) ==
    /\ n \in up /\ pc[n] = "retry" /\ todo[n] = {}
    /\ pc' = [pc EXCEPT ![n] = "deadlines"]
    /\ UNCHANGED <<clk, out, todo, batch, dirty, contacts, seen, mark, marked, filed, requests, eph>>
    /\ UNCHANGED <<netVars, history>>
    /\ Save(n)

\* Mutants: the stamp is the grace left; a terminal entry is dropped at once.
CollectedCountdown(e, now) ==
    IF IsTerminal(e.st) /\ e.termAt = Never THEN [e EXCEPT !.termAt = TerminalGrace - now] ELSE e
CollectedAtOnce(e, now) == IF IsTerminal(e.st) THEN NoEntry ELSE e

\* gc_terminal_outbound on one entry: stamp it first, drop it a grace later.
Collected(e, now) ==
    IF ~IsTerminal(e.st) THEN e
    ELSE IF e.termAt = Never THEN [e EXCEPT !.termAt = now]
    ELSE IF now - e.termAt >= TerminalGrace THEN NoEntry
    ELSE e

Expire(e, now) == IF DeadlinePassed(e, now) THEN Apply(e, "DeadlineExceeded") ELSE e

\* tick_deadlines owes a checkpoint; mutant: it owes one for expiries alone.
OwesForExpiry(n) == \E m \in Mine(n) : DeadlinePassed(out[m], clk[n])
Owes(n) == \E m \in Mine(n) : Collected(Expire(out[m], clk[n]), clk[n]) # out[m]

TickDeadlines(n) ==
    /\ n \in up /\ pc[n] = "deadlines"
    /\ out' = [m \in Mote |-> IF Src[m] = n THEN Collected(Expire(out[m], clk[n]), clk[n])
                                            ELSE out[m]]
    /\ pc' = [pc EXCEPT ![n] = "idle"]
    /\ UNCHANGED <<clk, todo, batch, dirty, contacts, seen, mark, marked, filed, requests, eph>>
    /\ UNCHANGED <<netVars, history>>
    /\ IF Owes(n) THEN Save(n) ELSE UNCHANGED diskVars

-----------------------------------------------------------------------------
(************************** Other calls of the node **************************)

AddContact(n, a) ==
    /\ n \in up /\ pc[n] = "idle" /\ a \notin contacts[n]
    /\ contacts' = [contacts EXCEPT ![n] = @ \cup {a}]
    /\ UNCHANGED <<pc, clk, out, todo, batch, dirty, seen, mark, marked, filed, requests, eph>>
    /\ UNCHANGED <<diskVars, netVars, history>>

PinSuiteFloor(n, c, s) ==
    /\ n \in up /\ pc[n] = "idle"
    /\ mark' = [mark EXCEPT ![n][c] = IF @ < s THEN s ELSE @]
    /\ marked' = [marked EXCEPT ![n] = @ \cup {c}]
    /\ UNCHANGED <<pc, clk, out, todo, batch, dirty, contacts, seen, filed, requests, eph>>
    /\ UNCHANGED <<netVars, history>>
    /\ Save(n)

TakeEphemeral(n) ==
    /\ n \in up /\ pc[n] = "idle" /\ eph[n] # <<>>
    /\ eph' = [eph EXCEPT ![n] = <<>>]
    /\ UNCHANGED <<pc, clk, out, todo, batch, dirty, contacts, seen, mark, marked, filed, requests>>
    /\ UNCHANGED <<diskVars, netVars, history>>

-----------------------------------------------------------------------------
(************************ Crash, shutdown, restart ************************)

Crash(n) ==
    /\ n \in up /\ crashes < MaxCrash
    /\ up' = up \ {n}
    /\ crashes' = crashes + 1
    /\ inbox' = [inbox EXCEPT ![n] = {}]
    /\ UNCHANGED <<nodeVars, diskVars, wall, reachable, replays, history>>

\* The loop's exit: flush(), then the process ends.
Shutdown(n) ==
    /\ n \in up /\ pc[n] = "idle" /\ crashes < MaxCrash
    /\ up' = up \ {n}
    /\ crashes' = crashes + 1
    /\ inbox' = [inbox EXCEPT ![n] = {}]
    /\ UNCHANGED <<nodeVars, wall, reachable, replays, history>>
    /\ Save(n)

\* The suite floors a restart begins with; mutant: none.
RestoredNone(n) == [c \in Node |-> 0]
Restored(n) == jmark[n]

\* with_journal_bytes: the journal's queue, dedup ids and suite floors; the
\* ids are stamped with the clock of a node just built.
Restart(n) ==
    /\ n \notin up
    /\ up' = up \cup {n}
    /\ pc' = [pc EXCEPT ![n] = "idle"]
    /\ clk' = [clk EXCEPT ![n] = BootClock]
    /\ out' = [m \in Mote |-> IF Src[m] = n THEN jout[m] ELSE out[m]]
    /\ todo' = [todo EXCEPT ![n] = {}]
    /\ batch' = [batch EXCEPT ![n] = {}]
    /\ dirty' = [dirty EXCEPT ![n] = FALSE]
    /\ contacts' = [contacts EXCEPT ![n] = {}]
    /\ seen' = [seen EXCEPT ![n] = {[id |-> m, at |-> BootClock] : m \in jseen[n]}]
    /\ mark' = [mark EXCEPT ![n] = Restored(n)]
    /\ marked' = [marked EXCEPT ![n] = {c \in Node : Restored(n)[c] > 0}]
    /\ filed' = [m \in Mote |-> IF Dst[m] = n THEN 0 ELSE filed[m]]
    /\ requests' = [requests EXCEPT ![n] = {}]
    /\ eph' = [eph EXCEPT ![n] = <<>>]
    /\ UNCHANGED <<diskVars, wall, reachable, inbox, crashes, replays, history>>

-----------------------------------------------------------------------------
(************************* The network and time *************************)

\* The receiving side fails to read a frame its peer wrote (timeout, reset).
LoseFrame(n) ==
    /\ \E f \in inbox[n] : inbox' = [inbox EXCEPT ![n] = @ \ {f}]
    /\ UNCHANGED <<nodeVars, diskVars, wall, reachable, up, crashes, replays, history>>

\* An address becomes unreachable, or reachable again.
LinkDown(a) ==
    /\ a \in reachable
    /\ reachable' = reachable \ {a}
    /\ UNCHANGED <<nodeVars, diskVars, wall, up, inbox, crashes, replays, history>>

LinkUp(a) ==
    /\ a \notin reachable
    /\ reachable' = reachable \cup {a}
    /\ UNCHANGED <<nodeVars, diskVars, wall, up, inbox, crashes, replays, history>>

\* A late copy of a MOTE that was on the wire, from its sender's address or
\* from a relay that buffered it.
Redeliver(m, a) ==
    /\ m \in shipped /\ replays < MaxRedeliver
    /\ a \in Relay \/ (a = Src[m] /\ m \in direct)
    /\ Reaches(Dst[m])
    /\ replays' = replays + 1
    /\ inbox' = Posted(Dst[m], [kind |-> "mote", id |-> m, from |-> a])
    /\ UNCHANGED <<nodeVars, diskVars, wall, reachable, up, crashes, history>>

\* An ack that arrives over a return path other than the recipient's.
MisroutedAck(m, a) ==
    /\ replays < MaxRedeliver
    /\ a \in Relay /\ Reaches(Src[m])
    /\ replays' = replays + 1
    /\ inbox' = Posted(Src[m], [kind |-> "ack", id |-> m, from |-> a])
    /\ UNCHANGED <<nodeVars, diskVars, wall, reachable, up, crashes, history>>

TimePasses ==
    /\ wall < MaxTime
    /\ wall' = wall + 1
    /\ UNCHANGED <<nodeVars, diskVars, reachable, up, inbox, crashes, replays, history>>

-----------------------------------------------------------------------------
NodeStep(n) ==
    \/ SendCheckpoint(n) \/ Tick(n) \/ PollFrame(n) \/ PollEnd(n)
    \/ RetryEntry(n) \/ RetryEnd(n) \/ TickDeadlines(n)

ClientStep(n) ==
    \/ \E m \in Mote : Send(n, m)
    \/ \E a \in Pins \ {n} : AddContact(n, a)
    \/ \E c \in (Pins \cap Node) \ {n}, s \in Floors : PinSuiteFloor(n, c, s)
    \/ TakeEphemeral(n)

Environment ==
    \/ \E n \in Node : Crash(n) \/ Shutdown(n) \/ Restart(n) \/ LoseFrame(n)
    \/ \E a \in Flaky : LinkDown(a) \/ LinkUp(a)
    \/ \E m \in Mote, a \in Addr : Redeliver(m, a) \/ MisroutedAck(m, a)
    \/ TimePasses

Next == (\E n \in Node : NodeStep(n) \/ ClientStep(n)) \/ Environment

Spec == Init /\ [][Next]_vars

\* The daemon's loop keeps ticking (its select is unbiased, so connections
\* cannot starve the tick), a stopped process is restarted by its supervisor,
\* and time passes.
Fairness ==
    /\ \A n \in Node : WF_vars(NodeStep(n)) /\ WF_vars(Restart(n))
    /\ WF_vars(TimePasses)

FairSpec == Spec /\ Fairness

-----------------------------------------------------------------------------
(******************************* Properties *******************************)

\* A sender reports a MOTE delivered (ACKED, or EXPIRED with delivered_late),
\* in memory or in the journal, only if its recipient accepted it: receive_ack
\* honours the recipient's own ack alone, and the recipient acks nothing it
\* has deferred, denied or dropped, in this life of its process or an earlier.
Reported(e) == e.st = "Acked" \/ e.late
AckedImpliesDelivered ==
    \A m \in Mote : Reported(out[m]) \/ Reported(jout[m]) => m \in delivered

\* The strengthening that makes it inductive: an ack under way over its
\* recipient's own return path, and an id in the dedup set or in its journal,
\* stand for a MOTE its recipient accepted.
AckInv ==
    /\ AckedImpliesDelivered
    /\ \A n \in Node : \A f \in inbox[n] \cup batch[n] :
          f.kind = "ack" /\ f.from = Dst[f.id] => f.id \in delivered
    /\ \A n \in Node : \A r \in seen[n] : r.id \in delivered
    /\ \A n \in Node : jseen[n] \subseteq delivered

\* Whenever no call and no tick is running, the journal holds exactly the
\* queue and the dedup ids the node would need after a crash, and a floor at
\* least as high as the suite of every MOTE it remembers accepting: no path
\* through send, poll, retry_pending or tick_deadlines forgets its checkpoint
\* (journal writes succeeding).  The floor in memory may be higher: a MOTE the
\* quota refused raised it without a checkpoint.
JournalCurrent ==
    \A n \in up : (pc[n] = "idle" /\ saveFails = 0) =>
        /\ \A m \in Mine(n) : jout[m] = PersistedEntry(out[m])
        /\ jseen[n] = {r.id : r \in seen[n]}
        /\ \A r \in seen[n] : jmark[n][Src[r.id]] >= Suite[r.id]

\* Within one life of its process a node files the same MOTE twice only when
\* the dedup window has passed since it last filed it: a copy that arrives in
\* the window, over whatever return path, is re-acked and not reprocessed.
NoDoubleFiling ==
    [][\A m \in Mote : filed'[m] > filed[m] /\ filed[m] > 0
                          => clk[Dst[m]] - filedAt[m] >= DedupWindow]_vars

\* No MOTE is accepted below the suite floor the journal holds for its
\* sender, whatever crashes came between the accept (or pin) that set the
\* floor and now: a restart restores the floors before any frame is read.
FloorHolds ==
    [][\A m \in Mote : filed'[m] > filed[m] \/ (m \in delivered' /\ m \notin delivered)
                          => Suite[m] >= jmark[Dst[m]][Src[m]]]_vars

\* Every MOTE in the queue reaches a terminal state (or leaves the queue with
\* a crash that hit before its first checkpoint), however many frames are
\* lost and whenever the sender crashes: nothing waits for ever.
Settles ==
    \A m \in Mote : (out[m].st \in {"Queued", "Sealed", "InFlight", "Retry"})
                        ~> (out[m].st \in {"Acked", "Expired", "none"})

\* The journal's view of a MOTE, in the terms of DurableQueue.
DurableStatus(m) ==
    IF m \notin journalled THEN "unsent"
    ELSE CASE jout[m].st = "none"     -> "collected"
           [] jout[m].st = "Acked"    -> "acked"
           [] jout[m].st = "Expired"  -> "expired"
           [] OTHER                   -> "pending"

Abstract == INSTANCE DurableQueue
              WITH status <- [m \in Mote |-> DurableStatus(m)], returned <- tracked

\* The node implements the durable queue (journal writes succeeding): through
\* any crash, a MOTE whose send call returned is in the journal until it has
\* settled, settles once, is never confirmed before its recipient accepted
\* it, and once collected never comes back.
QueueIsDurable == Abstract!Spec

-----------------------------------------------------------------------------
(* What the repository's documents say of the node and the code does not do. *)

\* inbound.rs: a sensitive MOTE shown to its recipient is acked, because it
\* really was delivered.
DeliveredIsAcked == delivered \subseteq ackSent

\* outbound.rs: an unacked MOTE is retried until the recipient's ack comes
\* back or the deadline elapses.  If neither the frame nor an ack for it is
\* under way any more, the queue sends it again (or it was acked).
UnderWay(m) == \E n \in Node : \E f \in inbox[n] \cup batch[n] : f.id = m
UnackedIsRetried ==
    \A m \in Mote : (out[m].st = "InFlight" /\ ~UnderWay(m))
                        ~> (out[m].st \in {"Acked", "Retry"} \/ UnderWay(m))

\* seen.rs: a restored dedup entry lives a fresh window, so a copy is re-acked
\* and not reprocessed across a restart.
DedupSurvivesRestart ==
    [][\A m \in Mote : filed'[m] > filed[m] /\ m \in jseen[Dst[m]]
                          => clk[Dst[m]] - filedAt[m] >= DedupWindow]_vars
=============================================================================
