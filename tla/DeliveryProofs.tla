--------------------------- MODULE DeliveryProofs ---------------------------
(***************************************************************************)
(* Theorems about Delivery, for every set of nodes, relays and MOTEs, every *)
(* assignment of tiers, suites and challenges to MOTEs, and every bound.   *)
(***************************************************************************)
EXTENDS Delivery, TLAPS

-----------------------------------------------------------------------------
(* Lemmas on the operators: what an entry becomes is an entry.             *)

\* NextState never leaves the states of outbound.rs.
LEMMA NextStateType ==
    ASSUME NEW st \in OutState, NEW ev
    PROVE  NextState(st, ev) \in OutState
  BY DEF NextState, OutState

\* OutboundEntry::apply yields an entry.
LEMMA ApplyType ==
    ASSUME NEW e \in OutboundEntry, NEW ev
    PROVE  /\ Apply(e, ev) \in OutboundEntry
           /\ Apply(e, ev).st = NextState(e.st, ev)
           /\ Apply(e, ev).late = (e.late \/ (e.st = "Expired" /\ ev = "LateAck"))
           /\ Apply(e, ev).termAt = e.termAt
           /\ Apply(e, ev).path = e.path
  <1>1. NextState(e.st, ev) \in OutState
    BY NextStateType DEF OutboundEntry
  <1>2. QED
    BY <1>1 DEF Apply, OutboundEntry

\* A fresh entry is queued, unacked and unstamped.
LEMMA EnqueueType ==
    ASSUME NEW now \in Nat, NEW lt \in Nat, NEW p \in BOOLEAN
    PROVE  /\ Enqueue(now, lt, p) \in OutboundEntry
           /\ Enqueue(now, lt, p).st = "Queued"
           /\ Enqueue(now, lt, p).late = FALSE
           /\ Enqueue(now, lt, p).termAt = Never
  BY OutboundAssumption DEF Enqueue, OutboundEntry, OutState, Never

\* What dispatch makes of a fresh entry: IN_FLIGHT or RETRY.
LEMMA DispatchedType ==
    ASSUME NEW e \in OutboundEntry, NEW ok \in BOOLEAN,
           e.st = "Queued", e.late = FALSE, e.termAt = Never
    PROVE  /\ Dispatched(e, ok) \in OutboundEntry
           /\ Dispatched(e, ok).st \in {"InFlight", "Retry"}
           /\ Dispatched(e, ok).late = FALSE
           /\ Dispatched(e, ok).termAt = Never
  <1> DEFINE s == Apply(e, "SealOk")
  <1> DEFINE f == Apply(s, "DispatchOk")
  <1> DEFINE r == Apply(f, "TierUnreachable")
  <1>1. s \in OutboundEntry /\ s.st = "Sealed" /\ s.late = FALSE /\ s.termAt = Never
    BY ApplyType DEF NextState
  <1> HIDE DEF s
  <1>2. f \in OutboundEntry /\ f.st = "InFlight" /\ f.late = FALSE /\ f.termAt = Never
    BY <1>1, ApplyType DEF NextState
  <1> HIDE DEF f
  <1>3. r \in OutboundEntry /\ r.st = "Retry" /\ r.late = FALSE /\ r.termAt = Never
    BY <1>2, ApplyType DEF NextState
  <1> HIDE DEF r
  <1>4. Dispatched(e, ok) = IF ok THEN f ELSE r
    BY DEF Dispatched, s, f, r
  <1>5. QED
    BY <1>1, <1>2, <1>3, <1>4

\* The journal's form of an entry differs in the path alone.
LEMMA PersistedType ==
    ASSUME NEW e \in OutboundEntry
    PROVE  /\ PersistedEntry(e) \in OutboundEntry
           /\ PersistedEntry(e).st = e.st /\ PersistedEntry(e).late = e.late
           /\ PersistedEntry(e).termAt = e.termAt
  BY DEF PersistedEntry, OutboundEntry

LEMMA NoEntryType == NoEntry \in OutboundEntry /\ NoEntry.st = "none" /\ NoEntry.late = FALSE
  BY DEF NoEntry, OutboundEntry, OutState, Never

\* expire_deadlines on one entry.
LEMMA ExpireType ==
    ASSUME NEW e \in OutboundEntry, NEW now \in Nat
    PROVE  /\ Expire(e, now) \in OutboundEntry
           /\ Expire(e, now).st = e.st
              \/ (e.st \notin {"none", "Acked", "Expired"} /\ Expire(e, now).st = "Expired")
           /\ Expire(e, now).late = e.late /\ Expire(e, now).termAt = e.termAt
  BY ApplyType DEF Expire, DeadlinePassed, IsTerminal, NextState, OutboundEntry, OutState

\* gc_terminal_outbound on one entry: it stays, is stamped, or is dropped.
LEMMA CollectedType ==
    ASSUME NEW e \in OutboundEntry, NEW now \in Nat
    PROVE  /\ Collected(e, now) \in OutboundEntry
           /\ \/ Collected(e, now) = e /\ (IsTerminal(e.st) => e.termAt # Never)
              \/ /\ IsTerminal(e.st) /\ e.termAt = Never
                 /\ Collected(e, now).st = e.st /\ Collected(e, now).late = e.late
                 /\ Collected(e, now).termAt = now
              \/ IsTerminal(e.st) /\ e.termAt # Never /\ Collected(e, now) = NoEntry
  BY NoEntryType DEF Collected, OutboundEntry, Never, IsTerminal

-----------------------------------------------------------------------------
(* Typing.                                                                 *)

\* A frame pushed into an inbox leaves every inbox a set of frames.
LEMMA PostedType ==
    ASSUME inbox \in [Node -> SUBSET Frame], NEW a, NEW f \in Frame
    PROVE  Posted(a, f) \in [Node -> SUBSET Frame]
  BY DEF Posted, Push

\* A journal write keeps the journal well typed.
LEMMA SaveType ==
    ASSUME TypeOK, NEW n \in Node, Save(n),
           out' \in [Mote -> OutboundEntry], seen' \in [Node -> SUBSET [id: Mote, at: Nat]],
           mark' \in [Node -> [Node -> Nat]]
    PROVE  /\ jout' \in [Mote -> OutboundEntry] /\ jseen' \in [Node -> SUBSET Mote]
           /\ jmark' \in [Node -> [Node -> Nat]] /\ journalled' \subseteq Mote
           /\ saveFails' \in Nat
  <1>1. /\ jout \in [Mote -> OutboundEntry] /\ jseen \in [Node -> SUBSET Mote]
        /\ jmark \in [Node -> [Node -> Nat]] /\ journalled \subseteq Mote /\ saveFails \in Nat
    BY DEF TypeOK, RestOK
  <1>2. CASE saveFails' = saveFails + 1 /\ UNCHANGED <<jout, jseen, jmark, journalled>>
    BY <1>1, <1>2
  <1>3. CASE /\ jout' = [m \in Mote |-> IF Src[m] = n THEN PersistedEntry(out'[m]) ELSE jout[m]]
             /\ jseen' = [jseen EXCEPT ![n] = {r.id : r \in seen'[n]}]
             /\ jmark' = [jmark EXCEPT ![n] =
                            [c \in Node |-> IF c \in marked'[n] THEN mark'[n][c] ELSE 0]]
             /\ journalled' = journalled \cup {m \in Mine(n) : out'[m].st # "none"}
             /\ UNCHANGED saveFails
    <2>1. \A m \in Mote : PersistedEntry(out'[m]) \in OutboundEntry
      BY PersistedType
    <2>2. jout' \in [Mote -> OutboundEntry]
      BY <1>1, <1>3, <2>1
    <2>3. {r.id : r \in seen'[n]} \subseteq Mote
      OBVIOUS
    <2>4. jseen' \in [Node -> SUBSET Mote]
      BY <1>1, <1>3, <2>3
    <2>5. [c \in Node |-> IF c \in marked'[n] THEN mark'[n][c] ELSE 0] \in [Node -> Nat]
      OBVIOUS
    <2>6. jmark' \in [Node -> [Node -> Nat]]
      BY <1>1, <1>3, <2>5
    <2>7. QED
      BY <1>1, <1>3, <2>2, <2>4, <2>6 DEF Mine
  <1>4. QED
    BY <1>2, <1>3 DEF Save

\* seen.record leaves records of MOTE and clock.
LEMMA SeenRecordType ==
    ASSUME clk \in [Node -> Nat], seen \in [Node -> SUBSET [id: Mote, at: Nat]],
           NEW n \in Node, NEW m \in Mote
    PROVE  SeenRecord(n, m) \subseteq [id: Mote, at: Nat]
  BY DEF SeenRecord

\* The ephemeral view stays a sequence of MOTEs.
LEMMA PushEphemeralType ==
    ASSUME NEW s \in Seq(Mote), NEW m \in Mote
    PROVE  PushEphemeral(s, m) \in Seq(Mote)
  <1>1. CASE Len(s) >= MaxEphemeral
    <2>1. s # <<>>
      BY <1>1, DeliveryAssumption
    <2>2. Tail(s) \in Seq(Mote)
      BY <2>1
    <2>3. QED
      BY <1>1, <2>2 DEF PushEphemeral
  <1>2. CASE ~(Len(s) >= MaxEphemeral)
    BY <1>2 DEF PushEphemeral
  <1>3. QED
    BY <1>1, <1>2

LEMMA InitType == Init => TypeOK
  BY DeliveryAssumption, NoEntryType DEF Init, TypeOK, RestOK, Never

LEMMA RestSplit ==
    /\ TypeOK => RestOK
    /\ RestOK' /\ jout' \in [Mote -> OutboundEntry] /\ jseen' \in [Node -> SUBSET Mote]
         /\ jmark' \in [Node -> [Node -> Nat]] /\ journalled' \subseteq Mote
         /\ saveFails' \in Nat
       => TypeOK'
  BY DEF TypeOK, RestOK

\* An action that writes the journal last keeps TypeOK if its effect on the
\* node's memory is well typed; so does one that leaves the disk alone.
LEMMA SavedType ==
    ASSUME TypeOK, NEW n \in Node, Save(n), RestOK'
    PROVE  TypeOK'
  <1>1. /\ out' \in [Mote -> OutboundEntry] /\ seen' \in [Node -> SUBSET [id: Mote, at: Nat]]
        /\ mark' \in [Node -> [Node -> Nat]]
    BY DEF RestOK
  <1>2. QED
    BY <1>1, SaveType, RestSplit

LEMMA UnsavedType ==
    ASSUME TypeOK, UNCHANGED diskVars, RestOK'
    PROVE  TypeOK'
  BY DEF TypeOK, RestOK, diskVars

-----------------------------------------------------------------------------
(* One lemma for each group of actions.                                    *)

\* The frame of a MOTE is a frame, and handing it over keeps the inboxes.
LEMMA ShipType ==
    ASSUME RestOK, NEW m \in Mote, NEW e \in OutboundEntry, Ship(m, e)
    PROVE  /\ inbox' \in [Node -> SUBSET Frame]
           /\ shipped' \subseteq Mote /\ direct' \subseteq Mote
  <1>1. [kind |-> "mote", id |-> m, from |-> Src[m]] \in Frame
    BY DeliveryAssumption DEF Frame, Addr
  <1>2. inbox' \in [Node -> SUBSET Frame]
    BY <1>1, PostedType DEF Ship, RestOK
  <1>3. QED
    BY <1>2 DEF Ship, RestOK

LEMMA SendType ==
    ASSUME RestOK, NEW n \in Node, NEW m \in Mote, Send(n, m)
    PROVE  RestOK'
  <1> DEFINE e == Enqueue(wall, Lifetime[m], m \in Private)
  <1>1. wall \in Nat /\ Lifetime[m] \in Nat /\ (m \in Private) \in BOOLEAN
    BY DeliveryAssumption DEF RestOK
  <1>2. e \in OutboundEntry /\ e.st = "Queued" /\ e.late = FALSE /\ e.termAt = Never
    BY <1>1, EnqueueType
  <1>3. Ship(m, e) /\ out' = [out EXCEPT ![m] = Dispatched(e, Reaches(WireDest(m, e)))]
    BY DEF Send
  <1> HIDE DEF e
  <1>4. Reaches(WireDest(m, e)) \in BOOLEAN
    BY DEF Reaches
  <1>5. Dispatched(e, Reaches(WireDest(m, e))) \in OutboundEntry
    BY <1>2, <1>4, DispatchedType
  <1>6. out' \in [Mote -> OutboundEntry]
    BY <1>3, <1>5 DEF RestOK
  <1>7. inbox' \in [Node -> SUBSET Frame] /\ shipped' \subseteq Mote /\ direct' \subseteq Mote
    BY <1>2, <1>3, ShipType
  <1>8. QED
    BY <1>6, <1>7 DEF Send, RestOK

LEMMA RetryEntryType ==
    ASSUME RestOK, NEW n \in Node, RetryEntry(n)
    PROVE  RestOK'
  <1>1. PICK m \in todo[n] :
          /\ todo' = [todo EXCEPT ![n] = @ \ {m}]
          /\ out' = [out EXCEPT ![m] =
                       IF Reaches(WireDest(m, Apply(out[m], "RetryTimerFires")))
                       THEN Apply(out[m], "RetryTimerFires")
                       ELSE Apply(Apply(out[m], "RetryTimerFires"), "TierUnreachable")]
          /\ Ship(m, Apply(out[m], "RetryTimerFires"))
    BY DEF RetryEntry
  <1>2. m \in Mote /\ out[m] \in OutboundEntry
    BY DEF RestOK
  <1>3. Apply(out[m], "RetryTimerFires") \in OutboundEntry
    BY <1>2, ApplyType
  <1>4. Apply(Apply(out[m], "RetryTimerFires"), "TierUnreachable") \in OutboundEntry
    BY <1>3, ApplyType
  <1>5. out' \in [Mote -> OutboundEntry] /\ todo' \in [Node -> SUBSET Mote]
    BY <1>1, <1>3, <1>4 DEF RestOK
  <1>6. inbox' \in [Node -> SUBSET Frame] /\ shipped' \subseteq Mote /\ direct' \subseteq Mote
    BY <1>1, <1>2, <1>3, ShipType
  <1>7. QED
    BY <1>5, <1>6 DEF RetryEntry, RestOK

LEMMA TickDeadlinesType ==
    ASSUME RestOK, NEW n \in Node, TickDeadlines(n)
    PROVE  RestOK'
  <1>1. \A m \in Mote : Collected(Expire(out[m], clk[n]), clk[n]) \in OutboundEntry
    BY ExpireType, CollectedType DEF RestOK
  <1>2. out' \in [Mote -> OutboundEntry]
    BY <1>1 DEF TickDeadlines, RestOK
  <1>3. QED
    BY <1>2 DEF TickDeadlines, RestOK, netVars, history

LEMMA SendAckType ==
    ASSUME RestOK, NEW n \in Node, NEW f \in Frame, SendAck(n, f)
    PROVE  inbox' \in [Node -> SUBSET Frame] /\ ackSent' \subseteq Mote
  <1>1. [kind |-> "ack", id |-> f.id, from |-> n] \in Frame /\ f.id \in Mote
    BY DEF Frame, Addr
  <1>2. inbox' \in [Node -> SUBSET Frame]
    BY <1>1, PostedType DEF SendAck, RestOK
  <1>3. QED
    BY <1>1, <1>2 DEF SendAck, RestOK

\* What a frame changes of the node's memory, of the inboxes and of the
\* history, whichever branch it takes.
FrameOK ==
    /\ out \in [Mote -> OutboundEntry] /\ inbox \in [Node -> SUBSET Frame]
    /\ dirty \in [Node -> BOOLEAN] /\ contacts \in [Node -> SUBSET Addr]
    /\ seen \in [Node -> SUBSET [id: Mote, at: Nat]]
    /\ mark \in [Node -> [Node -> Nat]] /\ marked \in [Node -> SUBSET Node]
    /\ filed \in [Mote -> Nat] /\ requests \in [Node -> SUBSET Mote]
    /\ eph \in [Node -> Seq(Mote)]
    /\ delivered \subseteq Mote /\ ackSent \subseteq Mote
    /\ filedAt \in [Mote -> Nat \cup {Never}]

LEMMA ReceiveAckType ==
    ASSUME RestOK, NEW n \in Node, NEW f \in Frame, ReceiveAck(n, f)
    PROVE  FrameOK'
  <1> DEFINE ev == IF out[f.id].st = "Expired" THEN "LateAck" ELSE "AckReceived"
  <1>1. f.id \in Mote /\ out[f.id] \in OutboundEntry
    BY DEF Frame, RestOK
  <1>2. Apply(out[f.id], ev) \in OutboundEntry
    BY <1>1, ApplyType
  <1>3. \/ out' = [out EXCEPT ![f.id] = Apply(out[f.id], ev)]
        \/ out' = out
    BY DEF ReceiveAck
  <1>4. out' \in [Mote -> OutboundEntry]
    BY <1>1, <1>2, <1>3 DEF RestOK
  <1>5. \/ dirty' = [dirty EXCEPT ![n] = dirty[n] \/ Apply(out[f.id], ev) # out[f.id]]
        \/ dirty' = dirty
    BY DEF ReceiveAck
  <1> HIDE DEF ev
  <1>6. dirty' \in [Node -> BOOLEAN]
    BY <1>5 DEF RestOK
  <1>7. QED
    BY <1>4, <1>6 DEF ReceiveAck, RestOK, FrameOK

LEMMA ValidatesType ==
    ASSUME RestOK, NEW n \in Node, NEW f \in Frame, Validates(n, f)
    PROVE  mark' \in [Node -> [Node -> Nat]]
  <1>1. f.id \in Mote /\ Src[f.id] \in Node /\ Suite[f.id] \in Nat
    BY DeliveryAssumption DEF Frame
  <1>2. QED
    BY <1>1 DEF Validates, RestOK

LEMMA AcceptType ==
    ASSUME RestOK, NEW n \in Node, NEW f \in Frame, Accept(n, f), UNCHANGED out
    PROVE  FrameOK'
  <1>1. f.id \in Mote /\ Src[f.id] \in Node /\ Src[f.id] \in Addr
    BY DeliveryAssumption DEF Frame, Addr
  <1>2. mark' \in [Node -> [Node -> Nat]]
    BY ValidatesType DEF Accept
  <1>3. contacts' \in [Node -> SUBSET Addr] /\ marked' \in [Node -> SUBSET Node]
    BY <1>1 DEF Accept, Listed, RestOK
  <1>4. seen' \in [Node -> SUBSET [id: Mote, at: Nat]]
    <2>1. SeenRecord(n, f.id) \subseteq [id: Mote, at: Nat]
      BY <1>1, SeenRecordType DEF RestOK
    <2>2. QED
      BY <2>1 DEF Accept, RestOK
  <1>5. delivered' \subseteq Mote /\ filedAt' \in [Mote -> Nat \cup {Never}]
        /\ dirty' \in [Node -> BOOLEAN] /\ requests' \in [Node -> SUBSET Mote]
    BY <1>1 DEF Accept, RestOK
  <1>6. filed' \in [Mote -> Nat] /\ eph' \in [Node -> Seq(Mote)]
        /\ inbox' \in [Node -> SUBSET Frame] /\ ackSent' \subseteq Mote
    <2>1. CASE f.id \in Sensitive
      <3>1. PushEphemeral(eph[n], f.id) \in Seq(Mote)
        BY <1>1, PushEphemeralType DEF RestOK
      <3>2. eph' = [eph EXCEPT ![n] = PushEphemeral(eph[n], f.id)] /\ UNCHANGED <<filed, inbox, ackSent>>
        BY <2>1 DEF Accept
      <3>3. eph' \in [Node -> Seq(Mote)]
        BY <3>1, <3>2 DEF RestOK
      <3>4. QED
        BY <3>2, <3>3 DEF RestOK
    <2>2. CASE f.id \notin Sensitive
      <3>1. SendAck(n, f) /\ filed' = [filed EXCEPT ![f.id] = @ + 1] /\ UNCHANGED eph
        BY <2>2 DEF Accept
      <3>2. inbox' \in [Node -> SUBSET Frame] /\ ackSent' \subseteq Mote
        BY <3>1, SendAckType
      <3>3. filed' \in [Mote -> Nat] /\ eph' \in [Node -> Seq(Mote)]
        BY <1>1, <3>1 DEF RestOK
      <3>4. QED
        BY <3>2, <3>3
    <2>3. QED
      BY <2>1, <2>2
  <1>7. QED
    BY <1>2, <1>3, <1>4, <1>5, <1>6 DEF FrameOK, RestOK

LEMMA ReceiveMoteType ==
    ASSUME RestOK, NEW n \in Node, NEW f \in Frame, ReceiveMote(n, f)
    PROVE  FrameOK'
  <1>0. UNCHANGED out
    BY DEF ReceiveMote
  <1>1. CASE Duplicate(n, f)
    BY <1>0, <1>1, SendAckType DEF Duplicate, RestOK, FrameOK
  <1>2. CASE Deferred(n, f)
    <2>1. requests' \in [Node -> SUBSET Mote]
      BY <1>2 DEF Deferred, RestOK, Frame
    <2>2. QED
      BY <1>0, <1>2, <2>1 DEF Deferred, RestOK, FrameOK
  <1>3. CASE StorageDenied(n, f)
    BY <1>0, <1>3, ValidatesType DEF StorageDenied, RestOK, FrameOK
  <1>4. CASE Dropped(n, f)
    BY <1>0, <1>4, ValidatesType DEF Dropped, RestOK, FrameOK
  <1>5. CASE Accept(n, f)
    BY <1>0, <1>5, AcceptType
  <1>6. QED
    BY <1>1, <1>2, <1>3, <1>4, <1>5 DEF ReceiveMote

LEMMA PollFrameType ==
    ASSUME RestOK, NEW n \in Node, PollFrame(n)
    PROVE  RestOK'
  <1>1. PICK f \in batch[n] : /\ batch' = [batch EXCEPT ![n] = @ \ {f}]
                              /\ ReceiveAck(n, f) \/ ReceiveMote(n, f)
    BY DEF PollFrame
  <1>2. f \in Frame
    BY DEF RestOK
  <1>3. FrameOK'
    BY <1>1, <1>2, ReceiveAckType, ReceiveMoteType
  <1>4. batch' \in [Node -> SUBSET Frame]
    BY <1>1 DEF RestOK
  <1>5. QED
    BY <1>3, <1>4 DEF PollFrame, RestOK, FrameOK

\* The steps of the daemon's loop, of its clients and of its surroundings.
LEMMA NodeStepType ==
    ASSUME TypeOK, NEW n \in Node, NodeStep(n)
    PROVE  TypeOK'
  <1>0. RestOK
    BY RestSplit
  <1>1. CASE SendCheckpoint(n)
    <2>1. RestOK'
      BY <1>0, <1>1 DEF SendCheckpoint, RestOK, netVars, Mine
    <2>2. QED
      BY <1>1, <2>1, SavedType DEF SendCheckpoint
  <1>2. CASE Tick(n)
    <2>1. RestOK'
      BY <1>0, <1>2 DEF Tick, RestOK, history
    <2>2. QED
      BY <1>2, <2>1, UnsavedType DEF Tick
  <1>3. CASE PollFrame(n)
    <2>1. UNCHANGED diskVars
      BY <1>3 DEF PollFrame
    <2>2. QED
      BY <1>0, <1>3, <2>1, PollFrameType, UnsavedType
  <1>4. CASE PollEnd(n)
    <2>1. RestOK'
      BY <1>0, <1>4 DEF PollEnd, RestOK, netVars, history, Mine
    <2>2. Save(n) \/ UNCHANGED diskVars
      BY <1>4 DEF PollEnd
    <2>3. QED
      BY <2>1, <2>2, SavedType, UnsavedType
  <1>5. CASE RetryEntry(n)
    <2>1. UNCHANGED diskVars
      BY <1>5 DEF RetryEntry
    <2>2. QED
      BY <1>0, <1>5, <2>1, RetryEntryType, UnsavedType
  <1>6. CASE RetryEnd(n)
    <2>1. RestOK'
      BY <1>0, <1>6 DEF RetryEnd, RestOK, netVars, history
    <2>2. QED
      BY <1>6, <2>1, SavedType DEF RetryEnd
  <1>7. CASE TickDeadlines(n)
    <2>1. Save(n) \/ UNCHANGED diskVars
      BY <1>7 DEF TickDeadlines
    <2>2. QED
      BY <1>0, <1>7, <2>1, TickDeadlinesType, SavedType, UnsavedType
  <1>8. QED
    BY <1>1, <1>2, <1>3, <1>4, <1>5, <1>6, <1>7 DEF NodeStep

LEMMA ClientStepType ==
    ASSUME TypeOK, NEW n \in Node, ClientStep(n)
    PROVE  TypeOK'
  <1>0. RestOK
    BY RestSplit
  <1>1. ASSUME NEW m \in Mote, Send(n, m)
        PROVE  TypeOK'
    <2>1. UNCHANGED diskVars
      BY <1>1 DEF Send
    <2>2. QED
      BY <1>0, <1>1, <2>1, SendType, UnsavedType
  <1>2. ASSUME NEW a \in Pins \ {n}, AddContact(n, a)
        PROVE  TypeOK'
    <2>1. RestOK'
      BY <1>0, <1>2, DeliveryAssumption DEF AddContact, RestOK, netVars, history
    <2>2. QED
      BY <1>2, <2>1, UnsavedType DEF AddContact
  <1>3. ASSUME NEW c \in (Pins \cap Node) \ {n}, NEW s \in Floors, PinSuiteFloor(n, c, s)
        PROVE  TypeOK'
    <2>1. RestOK'
      BY <1>0, <1>3, DeliveryAssumption, ZenonT(40) DEF PinSuiteFloor, RestOK, netVars, history
    <2>2. QED
      BY <1>3, <2>1, SavedType DEF PinSuiteFloor
  <1>4. CASE TakeEphemeral(n)
    <2>1. RestOK'
      BY <1>0, <1>4 DEF TakeEphemeral, RestOK, netVars, history
    <2>2. QED
      BY <1>4, <2>1, UnsavedType DEF TakeEphemeral
  <1>5. QED
    BY <1>1, <1>2, <1>3, <1>4 DEF ClientStep

LEMMA EnvironmentType ==
    ASSUME TypeOK, Environment
    PROVE  TypeOK'
  <1>0. RestOK
    BY RestSplit
  <1>1. ASSUME NEW n \in Node, Crash(n)
        PROVE  TypeOK'
    <2>1. RestOK'
      BY <1>0, <1>1 DEF Crash, RestOK, nodeVars, history
    <2>2. QED
      BY <1>1, <2>1, UnsavedType DEF Crash
  <1>2. ASSUME NEW n \in Node, Shutdown(n)
        PROVE  TypeOK'
    <2>1. RestOK'
      BY <1>0, <1>2 DEF Shutdown, RestOK, nodeVars, history
    <2>2. QED
      BY <1>2, <2>1, SavedType DEF Shutdown
  <1>3. ASSUME NEW n \in Node, Restart(n)
        PROVE  TypeOK'
    <2>1. jout \in [Mote -> OutboundEntry] /\ jseen \in [Node -> SUBSET Mote]
          /\ jmark \in [Node -> [Node -> Nat]]
      BY DEF TypeOK, RestOK
    <2>2. {[id |-> m, at |-> BootClock] : m \in jseen[n]} \subseteq [id: Mote, at: Nat]
      BY <2>1, DeliveryAssumption
    <2>3. out' \in [Mote -> OutboundEntry] /\ filed' \in [Mote -> Nat]
      BY <1>0, <1>3, <2>1 DEF Restart, RestOK
    <2>4. seen' \in [Node -> SUBSET [id: Mote, at: Nat]]
      BY <1>0, <1>3, <2>2 DEF Restart, RestOK
    <2>5. mark' \in [Node -> [Node -> Nat]] /\ marked' \in [Node -> SUBSET Node]
      BY <1>0, <1>3, <2>1 DEF Restart, Restored, RestOK
    <2>6. clk' \in [Node -> Nat] /\ eph' \in [Node -> Seq(Mote)]
      BY <1>0, <1>3, DeliveryAssumption DEF Restart, RestOK
    <2>7. RestOK'
      BY <1>0, <1>3, <2>3, <2>4, <2>5, <2>6 DEF Restart, RestOK, history
    <2>8. QED
      BY <1>3, <2>7, UnsavedType DEF Restart
  <1>4. ASSUME NEW n \in Node, LoseFrame(n)
        PROVE  TypeOK'
    <2>1. RestOK'
      BY <1>0, <1>4 DEF LoseFrame, RestOK, nodeVars, history
    <2>2. QED
      BY <1>4, <2>1, UnsavedType DEF LoseFrame
  <1>5. ASSUME NEW a \in Flaky, LinkDown(a) \/ LinkUp(a)
        PROVE  TypeOK'
    <2>1. RestOK'
      BY <1>0, <1>5, DeliveryAssumption DEF LinkDown, LinkUp, RestOK, nodeVars, history
    <2>2. QED
      BY <1>5, <2>1, UnsavedType DEF LinkDown, LinkUp
  <1>6. ASSUME NEW m \in Mote, NEW a \in Addr, Redeliver(m, a) \/ MisroutedAck(m, a)
        PROVE  TypeOK'
    <2>1. [kind |-> "mote", id |-> m, from |-> a] \in Frame
          /\ [kind |-> "ack", id |-> m, from |-> a] \in Frame
      BY DEF Frame
    <2>2. inbox' \in [Node -> SUBSET Frame]
      BY <1>0, <1>6, <2>1, PostedType DEF Redeliver, MisroutedAck, RestOK
    <2>3. RestOK'
      BY <1>0, <1>6, <2>2 DEF Redeliver, MisroutedAck, RestOK, nodeVars, history
    <2>4. QED
      BY <1>6, <2>3, UnsavedType DEF Redeliver, MisroutedAck
  <1>7. CASE TimePasses
    <2>1. RestOK'
      BY <1>0, <1>7 DEF TimePasses, RestOK, nodeVars, history
    <2>2. QED
      BY <1>7, <2>1, UnsavedType DEF TimePasses
  <1>8. QED
    BY <1>1, <1>2, <1>3, <1>4, <1>5, <1>6, <1>7 DEF Environment

LEMMA TypeStep == TypeOK /\ [Next]_vars => TypeOK'
  <1> SUFFICES ASSUME TypeOK, [Next]_vars PROVE TypeOK'
    OBVIOUS
  <1>1. CASE Next
    BY <1>1, NodeStepType, ClientStepType, EnvironmentType DEF Next
  <1>2. CASE UNCHANGED vars
    BY <1>2 DEF TypeOK, RestOK, vars, nodeVars, diskVars, netVars, history
  <1>3. QED
    BY <1>1, <1>2

\* Every reachable state is well typed: in particular every deadline and
\* every clock stays a natural number, whatever crashes and restarts do.
THEOREM TypeCorrect == Spec => []TypeOK
  <1>1. QED
    BY InitType, TypeStep, PTL DEF Spec

-----------------------------------------------------------------------------
(* AckedImpliesDelivered.                                                  *)

AckFrameOK(f) == f.kind = "ack" /\ f.from = Dst[f.id] => f.id \in delivered

\* A step keeps AckInv if it forgets no delivery, and every frame, dedup id
\* and report after it either was there before, in memory or in the journal,
\* or is backed by a delivery.
LEMMA AckKept ==
    ASSUME AckInv, delivered \subseteq delivered',
           \A n \in Node : \A f \in inbox'[n] \cup batch'[n] :
              f \in inbox[n] \cup batch[n] \/ AckFrameOK(f)',
           \A n \in Node : \A r \in seen'[n] :
              r \in seen[n] \/ r.id \in jseen[n] \/ r.id \in delivered',
           \A n \in Node : \A m \in jseen'[n] :
              m \in jseen[n] \/ \E r \in seen'[n] : r.id = m,
           \A m \in Mote : Reported(out'[m]) =>
              Reported(out[m]) \/ Reported(jout[m]) \/ m \in delivered',
           \A m \in Mote : Reported(jout'[m]) => Reported(jout[m]) \/ Reported(out'[m])
    PROVE  AckInv'
  <1>1. \A n \in Node : \A f \in inbox'[n] \cup batch'[n] :
           f.kind = "ack" /\ f.from = Dst[f.id] => f.id \in delivered'
    BY DEF AckInv, AckFrameOK
  <1>2. \A n \in Node : \A r \in seen'[n] : r.id \in delivered'
    BY DEF AckInv
  <1>3. \A n \in Node : jseen'[n] \subseteq delivered'
    BY <1>2 DEF AckInv
  <1>4. \A m \in Mote : Reported(out'[m]) \/ Reported(jout'[m]) => m \in delivered'
    BY DEF AckInv, AckedImpliesDelivered
  <1>5. QED
    BY <1>1, <1>2, <1>3, <1>4 DEF AckInv, AckedImpliesDelivered, Reported

\* What a journal write puts into the journal is what memory holds.
LEMMA SaveReports ==
    ASSUME TypeOK, RestOK', NEW n \in Node, Save(n) \/ UNCHANGED diskVars
    PROVE  /\ \A k \in Node : \A m \in jseen'[k] :
                 m \in jseen[k] \/ \E r \in seen'[k] : r.id = m
           /\ \A m \in Mote : Reported(jout'[m]) => Reported(jout[m]) \/ Reported(out'[m])
  <1>1. CASE UNCHANGED <<jout, jseen>>
    BY <1>1
  <1>2. CASE /\ jout' = [m \in Mote |-> IF Src[m] = n THEN PersistedEntry(out'[m]) ELSE jout[m]]
             /\ jseen' = [jseen EXCEPT ![n] = {r.id : r \in seen'[n]}]
    <2>1. \A m \in Mote : Reported(PersistedEntry(out'[m])) = Reported(out'[m])
      BY PersistedType DEF RestOK, Reported
    <2>2. \A m \in Mote : Reported(jout'[m]) => Reported(jout[m]) \/ Reported(out'[m])
      BY <1>2, <2>1
    <2>3. jseen \in [Node -> SUBSET Mote]
      BY DEF TypeOK, RestOK
    <2>4. \A k \in Node : \A m \in jseen'[k] : m \in jseen[k] \/ \E r \in seen'[k] : r.id = m
      BY <1>2, <2>3
    <2>5. QED
      BY <2>2, <2>4
  <1>3. QED
    BY <1>1, <1>2 DEF Save, diskVars

\* An action that touches neither the inboxes nor the dedup set nor a report.
LEMMA AckQuiet ==
    ASSUME TypeOK, RestOK', AckInv, NEW n \in Node, Save(n) \/ UNCHANGED diskVars,
           UNCHANGED <<seen, delivered>>,
           \A k \in Node : inbox'[k] \cup batch'[k] \subseteq inbox[k] \cup batch[k],
           \A m \in Mote : Reported(out'[m]) => Reported(out[m])
    PROVE  AckInv'
  BY SaveReports, AckKept

\* Posting adds at most the frame posted.
LEMMA PostedAdds ==
    ASSUME inbox \in [Node -> SUBSET Frame], NEW a, NEW f
    PROVE  \A k \in Node : Posted(a, f)[k] \subseteq inbox[k] \cup {f}
  BY DEF Posted, Push

LEMMA AckSend ==
    ASSUME TypeOK, AckInv, NEW n \in Node, NEW m \in Mote, Send(n, m)
    PROVE  AckInv'
  <1> DEFINE e == Enqueue(wall, Lifetime[m], m \in Private)
  <1> DEFINE f == [kind |-> "mote", id |-> m, from |-> Src[m]]
  <1>0. RestOK /\ UNCHANGED <<jout, jseen, seen, batch, delivered>>
    BY RestSplit DEF Send, diskVars
  <1>1. wall \in Nat /\ Lifetime[m] \in Nat /\ (m \in Private) \in BOOLEAN
        /\ out \in [Mote -> OutboundEntry] /\ inbox \in [Node -> SUBSET Frame]
    BY <1>0, DeliveryAssumption, SMTT(30) DEF RestOK
  <1>2. e \in OutboundEntry /\ e.st = "Queued" /\ e.late = FALSE /\ e.termAt = Never
    BY <1>1, EnqueueType
  <1>3. /\ out' = [out EXCEPT ![m] = Dispatched(e, Reaches(WireDest(m, e)))]
        /\ inbox' = Posted(WireDest(m, e), f)
    BY DEF Send, Ship
  <1> HIDE DEF e
  <1>4. Reaches(WireDest(m, e)) \in BOOLEAN
    BY DEF Reaches
  <1>5. ~Reported(Dispatched(e, Reaches(WireDest(m, e))))
    BY <1>2, <1>4, DispatchedType DEF Reported
  <1>6. \A k \in Mote : Reported(out'[k]) => Reported(out[k])
    BY <1>1, <1>3, <1>5
  <1>7. \A k \in Node : inbox'[k] \subseteq inbox[k] \cup {f}
    BY <1>1, <1>3, PostedAdds
  <1>8. AckFrameOK(f)'
    BY DEF AckFrameOK
  <1> HIDE DEF f
  <1>9. QED
    BY <1>0, <1>6, <1>7, <1>8, AckKept

LEMMA AckRetryEntry ==
    ASSUME TypeOK, AckInv, NEW n \in Node, RetryEntry(n)
    PROVE  AckInv'
  <1>0. RestOK /\ UNCHANGED <<jout, jseen, seen, batch, delivered>>
    BY RestSplit DEF RetryEntry, diskVars
  <1>1. PICK m \in todo[n] :
          /\ out' = [out EXCEPT ![m] =
                       IF Reaches(WireDest(m, Apply(out[m], "RetryTimerFires")))
                       THEN Apply(out[m], "RetryTimerFires")
                       ELSE Apply(Apply(out[m], "RetryTimerFires"), "TierUnreachable")]
          /\ Ship(m, Apply(out[m], "RetryTimerFires"))
    BY DEF RetryEntry
  <1> DEFINE e == Apply(out[m], "RetryTimerFires")
  <1> DEFINE f == [kind |-> "mote", id |-> m, from |-> Src[m]]
  <1>2. m \in Mote /\ out[m] \in OutboundEntry /\ out \in [Mote -> OutboundEntry]
        /\ inbox \in [Node -> SUBSET Frame]
    BY <1>0 DEF RestOK
  <1>3. e \in OutboundEntry /\ (Reported(e) => Reported(out[m]))
    BY <1>2, ApplyType DEF NextState, Reported
  <1>4. inbox' = Posted(WireDest(m, e), f)
    BY <1>1 DEF Ship
  <1>5. out' = [out EXCEPT ![m] = IF Reaches(WireDest(m, e)) THEN e ELSE Apply(e, "TierUnreachable")]
    BY <1>1
  <1> HIDE DEF e
  <1>6. Reported(Apply(e, "TierUnreachable")) => Reported(e)
    BY <1>3, ApplyType DEF NextState, Reported
  <1>7. \A k \in Mote : Reported(out'[k]) => Reported(out[k])
    BY <1>2, <1>3, <1>5, <1>6
  <1>8. \A k \in Node : inbox'[k] \subseteq inbox[k] \cup {f}
    BY <1>2, <1>4, PostedAdds
  <1>9. AckFrameOK(f)'
    BY DEF AckFrameOK
  <1> HIDE DEF f
  <1>10. QED
    BY <1>0, <1>7, <1>8, <1>9, AckKept

LEMMA AckTickDeadlines ==
    ASSUME TypeOK, AckInv, NEW n \in Node, TickDeadlines(n)
    PROVE  AckInv'
  <1>0. RestOK /\ UNCHANGED <<seen, inbox, batch, delivered>> /\ (Save(n) \/ UNCHANGED diskVars)
    BY RestSplit DEF TickDeadlines, netVars, history
  <1>1. RestOK'
    BY <1>0, TickDeadlinesType
  <1>2. \A m \in Mote : Reported(Collected(Expire(out[m], clk[n]), clk[n])) => Reported(out[m])
    <2> SUFFICES ASSUME NEW m \in Mote,
                        Reported(Collected(Expire(out[m], clk[n]), clk[n]))
                 PROVE  Reported(out[m])
      OBVIOUS
    <2>1. out[m] \in OutboundEntry /\ clk[n] \in Nat
      BY <1>0 DEF RestOK
    <2>2. Expire(out[m], clk[n]) \in OutboundEntry
          /\ (Reported(Expire(out[m], clk[n])) => Reported(out[m]))
      BY <2>1, ExpireType DEF Reported
    <2>3. Reported(Collected(Expire(out[m], clk[n]), clk[n])) => Reported(Expire(out[m], clk[n]))
      BY <2>1, <2>2, CollectedType, NoEntryType DEF Reported
    <2>4. QED
      BY <2>2, <2>3
  <1>3. \A m \in Mote : Reported(out'[m]) => Reported(out[m])
    BY <1>2 DEF TickDeadlines
  <1>4. QED
    BY <1>0, <1>1, <1>3, AckQuiet

\* receive_ack reports a MOTE only on the recipient's own ack, which AckInv
\* backs by a delivery.
LEMMA AckReceiveAck ==
    ASSUME TypeOK, AckInv, NEW n \in Node, NEW f \in batch[n], ReceiveAck(n, f)
    PROVE  \A m \in Mote : Reported(out'[m]) => Reported(out[m]) \/ m \in delivered
  <1> DEFINE ev == IF out[f.id].st = "Expired" THEN "LateAck" ELSE "AckReceived"
  <1>1. out \in [Mote -> OutboundEntry]
    BY DEF TypeOK, RestOK
  <1>2. CASE Honours(n, f)
    <2>1. f.id \in delivered
      BY <1>2 DEF AckInv, ReceiveAck, Honours
    <2>2. out' = [out EXCEPT ![f.id] = Apply(out[f.id], ev)]
      BY <1>2 DEF ReceiveAck
    <2>3. QED
      BY <1>1, <2>1, <2>2
  <1>3. CASE ~Honours(n, f)
    BY <1>3 DEF ReceiveAck
  <1>4. QED
    BY <1>2, <1>3

\* The frames, dedup ids and reports a received MOTE leaves behind.
LEMMA AckReceiveMote ==
    ASSUME TypeOK, AckInv, NEW n \in Node, NEW f \in Frame, ReceiveMote(n, f)
    PROVE  /\ delivered \subseteq delivered' /\ UNCHANGED out
           /\ \A k \in Node : \A g \in inbox'[k] : g \in inbox[k] \/ AckFrameOK(g)'
           /\ \A k \in Node : \A r \in seen'[k] : r \in seen[k] \/ r.id \in delivered'
  <1> DEFINE a == [kind |-> "ack", id |-> f.id, from |-> n]
  <1>0. UNCHANGED out /\ f.id \in Mote /\ inbox \in [Node -> SUBSET Frame]
        /\ seen \in [Node -> SUBSET [id: Mote, at: Nat]]
    BY DEF ReceiveMote, Frame, TypeOK, RestOK
  <1>1. ASSUME SendAck(n, f), f.id \in delivered'
        PROVE  \A k \in Node : \A g \in inbox'[k] : g \in inbox[k] \/ AckFrameOK(g)'
    <2>1. \A k \in Node : inbox'[k] \subseteq inbox[k] \cup {a}
      BY <1>0, <1>1, PostedAdds DEF SendAck
    <2>2. AckFrameOK(a)'
      BY <1>1 DEF AckFrameOK
    <2> HIDE DEF a
    <2>3. QED
      BY <2>1, <2>2
  <1>2. CASE Duplicate(n, f)
    <2>1. f.id \in delivered
      BY <1>2 DEF Duplicate, SeenContains, AckInv
    <2>2. QED
      BY <1>0, <1>1, <1>2, <2>1 DEF Duplicate
  <1>3. CASE Deferred(n, f)
    BY <1>0, <1>3 DEF Deferred
  <1>4. CASE StorageDenied(n, f)
    BY <1>0, <1>4 DEF StorageDenied
  <1>5. CASE Dropped(n, f)
    BY <1>0, <1>5 DEF Dropped
  <1>6. CASE Accept(n, f)
    <2>1. delivered' = delivered \cup {f.id}
          /\ seen' = [seen EXCEPT ![n] = SeenRecord(n, f.id)]
          /\ (SendAck(n, f) \/ UNCHANGED inbox)
      BY <1>6 DEF Accept
    <2>2. \A k \in Node : \A g \in inbox'[k] : g \in inbox[k] \/ AckFrameOK(g)'
      BY <1>1, <2>1
    <2>3. \A r \in SeenRecord(n, f.id) : r \in seen[n] \/ r.id \in delivered'
      BY <2>1 DEF SeenRecord
    <2>4. \A k \in Node : \A r \in seen'[k] : r \in seen[k] \/ r.id \in delivered'
      BY <1>0, <2>1, <2>3
    <2>5. QED
      BY <1>0, <2>1, <2>2, <2>4
  <1>7. QED
    BY <1>2, <1>3, <1>4, <1>5, <1>6 DEF ReceiveMote

LEMMA AckPollFrame ==
    ASSUME TypeOK, AckInv, NEW n \in Node, PollFrame(n)
    PROVE  AckInv'
  <1>0. RestOK /\ UNCHANGED <<jout, jseen>>
    BY RestSplit DEF PollFrame, diskVars
  <1>1. PICK f \in batch[n] : /\ batch' = [batch EXCEPT ![n] = @ \ {f}]
                              /\ ReceiveAck(n, f) \/ ReceiveMote(n, f)
    BY DEF PollFrame
  <1>2. f \in Frame /\ batch \in [Node -> SUBSET Frame]
    BY <1>0 DEF RestOK
  <1>3. \A k \in Node : batch'[k] \subseteq batch[k]
    BY <1>1, <1>2
  <1>4. CASE ReceiveAck(n, f)
    <2>1. UNCHANGED <<inbox, seen, delivered>>
      BY <1>4 DEF ReceiveAck
    <2>2. \A m \in Mote : Reported(out'[m]) => Reported(out[m]) \/ m \in delivered
      BY <1>4, AckReceiveAck
    <2>3. QED
      BY <1>0, <1>3, <2>1, <2>2, AckKept
  <1>5. CASE ReceiveMote(n, f)
    BY <1>0, <1>2, <1>3, <1>5, AckReceiveMote, AckKept
  <1>6. QED
    BY <1>1, <1>4, <1>5

LEMMA AckRestart ==
    ASSUME TypeOK, AckInv, NEW n \in Node, Restart(n)
    PROVE  AckInv'
  <1>0. /\ UNCHANGED <<jout, jseen, inbox, delivered>>
        /\ out \in [Mote -> OutboundEntry] /\ batch \in [Node -> SUBSET Frame]
        /\ seen \in [Node -> SUBSET [id: Mote, at: Nat]]
    BY DEF Restart, diskVars, history, TypeOK, RestOK
  <1>1. batch' = [batch EXCEPT ![n] = {}]
        /\ seen' = [seen EXCEPT ![n] = {[id |-> m, at |-> BootClock] : m \in jseen[n]}]
        /\ out' = [m \in Mote |-> IF Src[m] = n THEN jout[m] ELSE out[m]]
    BY DEF Restart
  <1>2. \A k \in Node : batch'[k] \subseteq batch[k]
    BY <1>0, <1>1
  <1>3. \A k \in Node : \A r \in seen'[k] : r \in seen[k] \/ r.id \in jseen[k]
    BY <1>0, <1>1
  <1>4. \A m \in Mote : Reported(out'[m]) => Reported(out[m]) \/ Reported(jout[m])
    BY <1>1
  <1>5. QED
    BY <1>0, <1>2, <1>3, <1>4, AckKept

\* A late copy is no ack; an ack from a relay is not the recipient's.
LEMMA AckNetwork ==
    ASSUME TypeOK, AckInv, NEW m \in Mote, NEW a \in Addr, Redeliver(m, a) \/ MisroutedAck(m, a)
    PROVE  AckInv'
  <1>0. UNCHANGED <<jout, jseen, out, seen, batch, delivered>> /\ inbox \in [Node -> SUBSET Frame]
    BY DEF Redeliver, MisroutedAck, diskVars, nodeVars, history, TypeOK, RestOK
  <1>1. PICK f : (\E b : inbox' = Posted(b, f)) /\ AckFrameOK(f)'
    <2>1. CASE Redeliver(m, a)
      <3>1. AckFrameOK([kind |-> "mote", id |-> m, from |-> a])'
        BY DEF AckFrameOK
      <3>2. QED
        BY <2>1, <3>1 DEF Redeliver
    <2>2. CASE MisroutedAck(m, a)
      <3>1. a \in Relay /\ Dst[m] \in Node
        BY <2>2, DeliveryAssumption DEF MisroutedAck
      <3>2. a # Dst[m]
        BY <3>1, DeliveryAssumption
      <3>3. AckFrameOK([kind |-> "ack", id |-> m, from |-> a])'
        BY <3>2 DEF AckFrameOK
      <3>4. QED
        BY <2>2, <3>3 DEF MisroutedAck
    <2>3. QED
      BY <2>1, <2>2
  <1>2. \A k \in Node : inbox'[k] \subseteq inbox[k] \cup {f}
    BY <1>0, <1>1, PostedAdds
  <1>3. QED
    BY <1>0, <1>1, <1>2, AckKept

LEMMA AckNodeStep ==
    ASSUME TypeOK, TypeOK', AckInv, NEW n \in Node, NodeStep(n)
    PROVE  AckInv'
  <1>0. RestOK /\ RestOK'
    BY RestSplit DEF TypeOK, RestOK
  <1>1. CASE SendCheckpoint(n)
    <2>1. UNCHANGED <<out, seen, inbox, batch, delivered>> /\ Save(n)
      BY <1>1 DEF SendCheckpoint, netVars
    <2>2. QED
      BY <1>0, <2>1, AckQuiet
  <1>2. CASE Tick(n)
    <2>1. UNCHANGED <<out, seen, delivered>> /\ UNCHANGED diskVars
      BY <1>2 DEF Tick, history
    <2>2. \A k \in Node : inbox'[k] \cup batch'[k] \subseteq inbox[k] \cup batch[k]
      BY <1>0, <1>2 DEF Tick, RestOK
    <2>3. QED
      BY <1>0, <2>1, <2>2, AckQuiet
  <1>3. CASE PollFrame(n)
    BY <1>3, AckPollFrame
  <1>4. CASE PollEnd(n)
    <2>1. UNCHANGED <<out, seen, inbox, batch, delivered>> /\ (Save(n) \/ UNCHANGED diskVars)
      BY <1>4 DEF PollEnd, netVars, history
    <2>2. QED
      BY <1>0, <2>1, AckQuiet
  <1>5. CASE RetryEntry(n)
    BY <1>5, AckRetryEntry
  <1>6. CASE RetryEnd(n)
    <2>1. UNCHANGED <<out, seen, inbox, batch, delivered>> /\ Save(n)
      BY <1>6 DEF RetryEnd, netVars, history
    <2>2. QED
      BY <1>0, <2>1, AckQuiet
  <1>7. CASE TickDeadlines(n)
    BY <1>7, AckTickDeadlines
  <1>8. QED
    BY <1>1, <1>2, <1>3, <1>4, <1>5, <1>6, <1>7 DEF NodeStep

LEMMA AckClientStep ==
    ASSUME TypeOK, TypeOK', AckInv, NEW n \in Node, ClientStep(n)
    PROVE  AckInv'
  <1>0. RestOK'
    BY DEF TypeOK, RestOK
  <1>1. ASSUME NEW m \in Mote, Send(n, m)
        PROVE  AckInv'
    BY <1>1, AckSend
  <1>2. ASSUME UNCHANGED <<out, seen, inbox, batch, delivered>>, Save(n) \/ UNCHANGED diskVars
        PROVE  AckInv'
    BY <1>0, <1>2, AckQuiet
  <1>3. ASSUME NEW a \in Pins \ {n}, AddContact(n, a)
        PROVE  AckInv'
    BY <1>2, <1>3 DEF AddContact, netVars, history
  <1>4. ASSUME NEW c \in (Pins \cap Node) \ {n}, NEW s \in Floors, PinSuiteFloor(n, c, s)
        PROVE  AckInv'
    BY <1>2, <1>4 DEF PinSuiteFloor, netVars, history
  <1>5. CASE TakeEphemeral(n)
    BY <1>2, <1>5 DEF TakeEphemeral, netVars, history
  <1>6. QED
    BY <1>1, <1>3, <1>4, <1>5 DEF ClientStep

LEMMA AckEnvironment ==
    ASSUME TypeOK, TypeOK', AckInv, Environment
    PROVE  AckInv'
  <1>0. RestOK /\ RestOK'
    BY DEF TypeOK, RestOK
  <1>1. ASSUME NEW n \in Node, Crash(n) \/ Shutdown(n) \/ LoseFrame(n)
        PROVE  AckInv'
    <2>1. UNCHANGED <<out, seen, batch, delivered>> /\ (Save(n) \/ UNCHANGED diskVars)
      BY <1>1 DEF Crash, Shutdown, LoseFrame, nodeVars, history
    <2>2. \A k \in Node : inbox'[k] \subseteq inbox[k]
      <3>1. inbox \in [Node -> SUBSET Frame]
        BY <1>0 DEF RestOK
      <3>2. \/ inbox' = [inbox EXCEPT ![n] = {}]
            \/ \E f \in inbox[n] : inbox' = [inbox EXCEPT ![n] = @ \ {f}]
        BY <1>1 DEF Crash, Shutdown, LoseFrame
      <3>3. QED
        BY <3>1, <3>2
    <2>3. QED
      BY <1>0, <2>1, <2>2, AckQuiet
  <1>2. ASSUME NEW n \in Node, Restart(n)
        PROVE  AckInv'
    BY <1>2, AckRestart
  <1>3. ASSUME NEW m \in Mote, NEW a \in Addr, Redeliver(m, a) \/ MisroutedAck(m, a)
        PROVE  AckInv'
    BY <1>3, AckNetwork
  <1>4. CASE TimePasses \/ \E a \in Flaky : LinkDown(a) \/ LinkUp(a)
    <2>1. UNCHANGED <<out, jout, seen, jseen, inbox, batch, delivered>>
      BY <1>4 DEF TimePasses, LinkDown, LinkUp, nodeVars, diskVars, history
    <2>2. QED
      BY <2>1, AckKept
  <1>5. QED
    BY <1>1, <1>2, <1>3, <1>4 DEF Environment

LEMMA AckStep == TypeOK /\ TypeOK' /\ AckInv /\ [Next]_vars => AckInv'
  <1> SUFFICES ASSUME TypeOK, TypeOK', AckInv, [Next]_vars PROVE AckInv'
    OBVIOUS
  <1>1. CASE Next
    BY <1>1, AckNodeStep, AckClientStep, AckEnvironment DEF Next
  <1>2. CASE UNCHANGED vars
    <2>1. UNCHANGED <<out, jout, seen, jseen, inbox, batch, delivered>>
      BY <1>2 DEF vars, nodeVars, diskVars, netVars, history
    <2>2. QED
      BY <2>1, AckKept
  <1>3. QED
    BY <1>1, <1>2

LEMMA AckInit == Init => AckInv
  <1> SUFFICES ASSUME Init PROVE AckInv
    OBVIOUS
  <1>1. /\ \A m \in Mote : out[m] = NoEntry /\ jout[m] = NoEntry
        /\ \A n \in Node : inbox[n] = {} /\ batch[n] = {} /\ seen[n] = {} /\ jseen[n] = {}
    BY DEF Init
  <1>2. QED
    BY <1>1, NoEntryType DEF AckInv, AckedImpliesDelivered, Reported

\* A sender, or its journal, reports a MOTE delivered only if the recipient
\* accepted it, for every network, every assignment of MOTEs to nodes and
\* every interleaving of crashes, restarts, losses and late copies.
THEOREM AckedOnlyIfDelivered == Spec => []AckedImpliesDelivered
  <1>1. AckInv => AckedImpliesDelivered
    BY DEF AckInv
  <1>2. QED
    BY <1>1, AckInit, AckStep, TypeCorrect, PTL DEF Spec

-----------------------------------------------------------------------------
(* The journal of the delivery engine: that it is current whenever a crash *)
(* between two calls could need it, that suite floors and the dedup window *)
(* hold, and that seen through it the node implements DurableQueue.        *)
(*                                                                         *)
(* The inductive invariants.                                               *)

OutCurrent(n) == \A m \in Mine(n) : jout[m] = PersistedEntry(out[m])

SeenCurrent(n) ==
    /\ jseen[n] = {r.id : r \in seen[n]}
    /\ \A r \in seen[n] : jmark[n][Src[r.id]] >= Suite[r.id]

\* Where node n owes no checkpoint: at rest, behind retry_pending's write, and
\* in a poll that has changed nothing durable yet.
Clean(n) == pc[n] = "poll" => ~dirty[n]

CurrentInv ==
    \A n \in up : saveFails = 0 =>
        /\ pc[n] \in {"idle", "poll", "deadlines"} /\ Clean(n) => OutCurrent(n)
        /\ Clean(n) => SeenCurrent(n)

\* A floor in memory is no lower than the journal's, and both cover the suite
\* of every MOTE they remember; the journal keeps no mixnet path.
FloorInv ==
    /\ \A m \in Mote : jout[m].path = FALSE
    /\ \A n \in Node :
          /\ \A m \in jseen[n] : jmark[n][Src[m]] >= Suite[m]
          /\ \A r \in seen[n] : Src[r.id] \in marked[n] /\ mark[n][Src[r.id]] >= Suite[r.id]
          /\ \A c \in Node : mark[n][c] >= jmark[n][c]

\* The record of a filed MOTE stays in the dedup set for the whole window.
DedupInv ==
    /\ BootClock <= wall /\ \A n \in Node : clk[n] <= wall
    /\ \A m \in Mote : filed[m] > 0 =>
          /\ filedAt[m] \in Nat
          /\ clk[Dst[m]] - filedAt[m] < DedupWindow
                => [id |-> m, at |-> filedAt[m]] \in seen[Dst[m]]

\* The fate an entry stands for.
Fate(e) == CASE e.st = "none"    -> "collected"
             [] e.st = "Acked"   -> "acked"
             [] e.st = "Expired" -> "expired"
             [] OTHER            -> "pending"

Unstamped(e) == ~IsTerminal(e.st) => e.termAt = Never

\* Memory is at most one step of the queue's life ahead of the journal.
QueueEntry(m) ==
    /\ m \in journalled \/ out[m].st # "none" => m \in sent
    /\ Unstamped(out[m]) /\ Unstamped(jout[m])
    /\ m \notin journalled =>
          /\ jout[m].st = "none"
          /\ Src[m] \in up => \/ out[m].st = "none"
                              \/ pc[Src[m]] = "sent" /\ out[m].st \in {"InFlight", "Retry"}
    /\ m \in journalled /\ Src[m] \in up =>
          \/ Fate(out[m]) = Fate(jout[m])
          \/ pc[Src[m]] = "poll" /\ Fate(jout[m]) = "pending" /\ Fate(out[m]) = "acked"

QueueInv == saveFails = 0 /\ \A m \in Mote : QueueEntry(m)

-----------------------------------------------------------------------------
(* FloorHolds.                                                             *)

\* What one journal write leaves on disk: n's part of memory, or nothing new.
LEMMA SaveEffect ==
    ASSUME TypeOK, NEW n \in Node, Save(n) \/ UNCHANGED diskVars
    PROVE  /\ \A m \in Mote : Src[m] # n => jout'[m] = jout[m]
           /\ \A k \in Node \ {n} : jseen'[k] = jseen[k] /\ jmark'[k] = jmark[k]
           /\ \/ UNCHANGED <<jout, jseen, jmark, journalled>>
              \/ /\ \A m \in Mine(n) : jout'[m] = PersistedEntry(out'[m])
                 /\ jseen'[n] = {r.id : r \in seen'[n]}
                 /\ \A c \in Node : jmark'[n][c] = IF c \in marked'[n] THEN mark'[n][c] ELSE 0
                 /\ journalled' = journalled \cup {m \in Mine(n) : out'[m].st # "none"}
  <1>1. jout \in [Mote -> OutboundEntry] /\ jseen \in [Node -> SUBSET Mote]
        /\ jmark \in [Node -> [Node -> Nat]]
    BY DEF TypeOK
  <1>2. CASE UNCHANGED <<jout, jseen, jmark, journalled>>
    BY <1>2
  <1>3. CASE /\ jout' = [m \in Mote |-> IF Src[m] = n THEN PersistedEntry(out'[m]) ELSE jout[m]]
             /\ jseen' = [jseen EXCEPT ![n] = {r.id : r \in seen'[n]}]
             /\ jmark' = [jmark EXCEPT ![n] =
                            [c \in Node |-> IF c \in marked'[n] THEN mark'[n][c] ELSE 0]]
             /\ journalled' = journalled \cup {m \in Mine(n) : out'[m].st # "none"}
    <2>1. \A m \in Mote : Src[m] # n => jout'[m] = jout[m]
      BY <1>3
    <2>2. \A m \in Mine(n) : jout'[m] = PersistedEntry(out'[m])
      BY <1>3 DEF Mine
    <2>3. jseen'[n] = {r.id : r \in seen'[n]} /\ \A k \in Node \ {n} : jseen'[k] = jseen[k]
      BY <1>1, <1>3
    <2>4. /\ \A c \in Node : jmark'[n][c] = IF c \in marked'[n] THEN mark'[n][c] ELSE 0
          /\ \A k \in Node \ {n} : jmark'[k] = jmark[k]
      BY <1>1, <1>3
    <2>5. QED
      BY <1>3, <2>1, <2>2, <2>3, <2>4
  <1>4. QED
    BY <1>2, <1>3 DEF Save, diskVars

\* The floors of what a node remembers cover it.
Covered(n) ==
    \A r \in seen[n] : Src[r.id] \in marked[n] /\ mark[n][Src[r.id]] >= Suite[r.id]

\* A step keeps FloorInv if no floor in memory falls and each covers what the
\* dedup set holds, whether or not it ends in a journal write.
LEMMA FloorKept ==
    ASSUME TypeOK, TypeOK', FloorInv, NEW n \in Node, Save(n) \/ UNCHANGED diskVars,
           \A k \in Node : Covered(k)',
           \A k \in Node, c \in Node : mark'[k][c] >= mark[k][c]
    PROVE  FloorInv'
  <1>1. /\ jmark \in [Node -> [Node -> Nat]] /\ mark \in [Node -> [Node -> Nat]]
        /\ jmark' \in [Node -> [Node -> Nat]] /\ mark' \in [Node -> [Node -> Nat]]
        /\ out' \in [Mote -> OutboundEntry] /\ jout' \in [Mote -> OutboundEntry]
        /\ seen' \in [Node -> SUBSET [id: Mote, at: Nat]]
    BY RestSplit DEF TypeOK, RestOK
  <1>2. \A m \in Mote : jout'[m].path = FALSE
    <2>1. \A m \in Mote : PersistedEntry(out'[m]).path = FALSE
      BY <1>1 DEF PersistedEntry, OutboundEntry
    <2>2. QED
      BY <2>1, SaveEffect DEF FloorInv, Mine
  <1>3. \A k \in Node : (\A m \in jseen'[k] : jmark'[k][Src[m]] >= Suite[m])
                        /\ (\A c \in Node : mark'[k][c] >= jmark'[k][c])
    <2> SUFFICES ASSUME NEW k \in Node
                 PROVE  (\A m \in jseen'[k] : jmark'[k][Src[m]] >= Suite[m])
                        /\ (\A c \in Node : mark'[k][c] >= jmark'[k][c])
      OBVIOUS
    <2>1. CASE jseen'[k] = jseen[k] /\ jmark'[k] = jmark[k]
      BY <1>1, <2>1 DEF FloorInv
    <2>2. CASE /\ k = n
               /\ jseen'[n] = {r.id : r \in seen'[n]}
               /\ \A c \in Node : jmark'[n][c] = IF c \in marked'[n] THEN mark'[n][c] ELSE 0
      <3>1. \A r \in seen'[n] : Src[r.id] \in Node
        BY <1>1, DeliveryAssumption
      <3>2. \A r \in seen'[n] : Src[r.id] \in marked'[n] /\ mark'[n][Src[r.id]] >= Suite[r.id]
        BY DEF Covered
      <3>3. \A m \in jseen'[n] : jmark'[n][Src[m]] >= Suite[m]
        BY <2>2, <3>1, <3>2
      <3>4. \A c \in Node : mark'[n][c] >= jmark'[n][c]
        <4>1. \A c \in Node : mark'[n][c] \in Nat
          BY <1>1
        <4>2. QED
          BY <2>2, <4>1
      <3>5. QED
        BY <2>2, <3>3, <3>4
    <2>3. QED
      BY <2>1, <2>2, SaveEffect
  <1>4. QED
    BY <1>2, <1>3 DEF FloorInv, Covered

LEMMA FloorQuiet ==
    ASSUME TypeOK, TypeOK', FloorInv, NEW n \in Node, Save(n) \/ UNCHANGED diskVars,
           UNCHANGED <<seen, mark, marked>>
    PROVE  FloorInv'
  <1>1. \A k \in Node : Covered(k)'
    BY DEF FloorInv, Covered
  <1>2. \A k \in Node, c \in Node : mark'[k][c] >= mark[k][c]
    BY SMTT(30) DEF TypeOK, RestOK
  <1>3. QED
    BY <1>1, <1>2, FloorKept

\* validate_pinned lets a suite through only at or above the floor, and sets
\* the floor to it.
LEMMA ValidatesRaises ==
    ASSUME TypeOK, NEW n \in Node, NEW f \in Frame, Validates(n, f)
    PROVE  /\ Src[f.id] \in Node /\ Suite[f.id] \in Nat
           /\ Suite[f.id] >= mark[n][Src[f.id]]
           /\ mark'[n][Src[f.id]] = Suite[f.id]
           /\ \A k \in Node, c \in Node : mark'[k][c] >= mark[k][c]
  <1>1. f.id \in Mote /\ mark \in [Node -> [Node -> Nat]]
    BY DEF Frame, TypeOK, RestOK
  <1>2. Src[f.id] \in Node /\ Suite[f.id] \in Nat
    BY <1>1, DeliveryAssumption
  <1>3. Suite[f.id] >= mark[n][Src[f.id]]
        /\ mark' = [mark EXCEPT ![n][Src[f.id]] = Suite[f.id]]
    BY DEF Validates
  <1>4. QED
    BY <1>1, <1>2, <1>3

LEMMA FloorReceiveMote ==
    ASSUME TypeOK, FloorInv, NEW n \in Node, NEW f \in Frame, ReceiveMote(n, f)
    PROVE  /\ \A k \in Node : Covered(k)'
           /\ \A k \in Node, c \in Node : mark'[k][c] >= mark[k][c]
  <1>0. /\ mark \in [Node -> [Node -> Nat]] /\ marked \in [Node -> SUBSET Node]
        /\ seen \in [Node -> SUBSET [id: Mote, at: Nat]] /\ clk \in [Node -> Nat]
        /\ \A k \in Node : Covered(k)
        /\ f.id \in Mote
        /\ \A m \in Mote : Src[m] \in Node /\ Suite[m] \in Nat
    BY DeliveryAssumption DEF TypeOK, RestOK, FloorInv, Covered, Frame
  <1>1. CASE UNCHANGED <<seen, mark, marked>>
    BY <1>0, <1>1 DEF Covered
  <1>2. CASE Validates(n, f) /\ UNCHANGED <<seen, marked>>
    <2>1. \A k \in Node, c \in Node : mark'[k][c] >= mark[k][c] /\ mark'[k][c] \in Nat
      <3>1. mark' = [mark EXCEPT ![n][Src[f.id]] = Suite[f.id]]
        BY <1>2 DEF Validates
      <3>2. QED
        BY <1>0, <1>2, <3>1, ValidatesRaises
    <2>2. \A k \in Node : \A r \in seen[k] : r.id \in Mote
      BY <1>0
    <2>3. QED
      BY <1>0, <1>2, <2>1, <2>2 DEF Covered
  <1>3. CASE Accept(n, f)
    <2>1. /\ Validates(n, f)
          /\ marked' = [marked EXCEPT ![n] = marked[n] \cup {Src[f.id]}]
          /\ seen' = [seen EXCEPT ![n] = SeenRecord(n, f.id)]
          /\ mark' = [mark EXCEPT ![n][Src[f.id]] = Suite[f.id]]
      BY <1>3 DEF Accept, Listed, Validates
    <2>2. /\ \A k \in Node, c \in Node : mark'[k][c] >= mark[k][c] /\ mark'[k][c] \in Nat
          /\ mark'[n][Src[f.id]] = Suite[f.id]
      BY <1>0, <2>1, ValidatesRaises
    <2>3. \A k \in Node : marked[k] \subseteq marked'[k]
      BY <1>0, <2>1
    <2>4. Src[f.id] \in marked'[n]
      BY <1>0, <2>1
    <2>5. \A k \in Node : \A r \in seen'[k] : r \in seen[k] \/ (k = n /\ r.id = f.id)
      BY <1>0, <2>1 DEF SeenRecord
    <2>6. \A k \in Node : Covered(k)'
      <3> SUFFICES ASSUME NEW k \in Node, NEW r \in seen'[k]
                   PROVE  Src[r.id] \in marked'[k] /\ mark'[k][Src[r.id]] >= Suite[r.id]
        BY DEF Covered
      <3>1. CASE r \in seen[k]
        <4>1. r.id \in Mote
          BY <1>0, <3>1
        <4>2. Src[r.id] \in marked[k] /\ mark[k][Src[r.id]] >= Suite[r.id]
          BY <1>0, <3>1 DEF Covered
        <4>3. mark'[k][Src[r.id]] >= mark[k][Src[r.id]] /\ mark'[k][Src[r.id]] \in Nat
          BY <1>0, <2>2, <4>1
        <4>4. mark[k][Src[r.id]] \in Nat
          BY <1>0, <4>1
        <4>5. QED
          BY <1>0, <2>3, <4>1, <4>2, <4>3, <4>4
      <3>2. CASE k = n /\ r.id = f.id
        BY <1>0, <2>2, <2>4, <3>2
      <3>3. QED
        BY <2>5, <3>1, <3>2
    <2>7. QED
      BY <2>2, <2>6
  <1>4. QED
    <2>1. CASE Duplicate(n, f)
      BY <1>1, <2>1 DEF Duplicate
    <2>2. CASE Deferred(n, f)
      BY <1>1, <2>2 DEF Deferred
    <2>3. CASE StorageDenied(n, f)
      BY <1>2, <2>3 DEF StorageDenied
    <2>4. CASE Dropped(n, f)
      BY <1>1, <1>2, <2>4 DEF Dropped
    <2>5. QED
      BY <1>3, <2>1, <2>2, <2>3, <2>4 DEF ReceiveMote

LEMMA FloorNodeStep ==
    ASSUME TypeOK, TypeOK', FloorInv, NEW n \in Node, NodeStep(n)
    PROVE  FloorInv'
  <1>1. ASSUME UNCHANGED <<seen, mark, marked>>, Save(n) \/ UNCHANGED diskVars
        PROVE  FloorInv'
    BY <1>1, FloorQuiet
  <1>2. CASE PollFrame(n)
    <2>1. PICK f \in batch[n] : ReceiveAck(n, f) \/ ReceiveMote(n, f)
      BY <1>2 DEF PollFrame
    <2>2. f \in Frame /\ UNCHANGED diskVars
      BY <1>2 DEF PollFrame, TypeOK, RestOK
    <2>3. CASE ReceiveAck(n, f)
      BY <1>1, <2>2, <2>3 DEF ReceiveAck
    <2>4. CASE ReceiveMote(n, f)
      BY <2>2, <2>4, FloorReceiveMote, FloorKept
    <2>5. QED
      BY <2>1, <2>3, <2>4
  <1>3. CASE SendCheckpoint(n)
    BY <1>1, <1>3 DEF SendCheckpoint
  <1>4. CASE Tick(n)
    BY <1>1, <1>4 DEF Tick
  <1>5. CASE PollEnd(n)
    BY <1>1, <1>5 DEF PollEnd
  <1>6. CASE RetryEntry(n)
    BY <1>1, <1>6 DEF RetryEntry
  <1>7. CASE RetryEnd(n)
    BY <1>1, <1>7 DEF RetryEnd
  <1>8. CASE TickDeadlines(n)
    BY <1>1, <1>8 DEF TickDeadlines
  <1>9. QED
    BY <1>2, <1>3, <1>4, <1>5, <1>6, <1>7, <1>8 DEF NodeStep

LEMMA FloorPin ==
    ASSUME TypeOK, TypeOK', FloorInv, NEW n \in Node, NEW c \in Node, NEW s \in Floors,
           PinSuiteFloor(n, c, s)
    PROVE  FloorInv'
  <1>1. /\ mark \in [Node -> [Node -> Nat]] /\ marked \in [Node -> SUBSET Node] /\ s \in Nat
        /\ seen \in [Node -> SUBSET [id: Mote, at: Nat]] /\ UNCHANGED seen
        /\ \A m \in Mote : Src[m] \in Node /\ Suite[m] \in Nat
    BY DeliveryAssumption DEF TypeOK, RestOK, PinSuiteFloor
  <1>2. /\ mark' = [mark EXCEPT ![n][c] = IF @ < s THEN s ELSE @]
        /\ marked' = [marked EXCEPT ![n] = @ \cup {c}]
        /\ Save(n)
    BY DEF PinSuiteFloor
  <1>3. \A k \in Node, d \in Node : mark'[k][d] >= mark[k][d] /\ mark'[k][d] \in Nat
    BY <1>1, <1>2
  <1>4. \A k \in Node : marked[k] \subseteq marked'[k]
    BY <1>1, <1>2
  <1>5. \A k \in Node : Covered(k)'
    <2> SUFFICES ASSUME NEW k \in Node, NEW r \in seen[k]
                 PROVE  Src[r.id] \in marked'[k] /\ mark'[k][Src[r.id]] >= Suite[r.id]
      BY <1>1 DEF Covered
    <2>1. r.id \in Mote
      BY <1>1
    <2>2. Src[r.id] \in marked[k] /\ mark[k][Src[r.id]] >= Suite[r.id]
      BY DEF FloorInv
    <2>3. mark[k][Src[r.id]] \in Nat /\ mark'[k][Src[r.id]] \in Nat
          /\ mark'[k][Src[r.id]] >= mark[k][Src[r.id]]
      BY <1>1, <1>3, <2>1
    <2>4. QED
      BY <1>1, <1>4, <2>1, <2>2, <2>3
  <1>6. QED
    BY <1>2, <1>3, <1>5, FloorKept

\* A restart puts the journal's floors under the journal's dedup ids.
LEMMA FloorRestart ==
    ASSUME TypeOK, TypeOK', FloorInv, NEW n \in Node, Restart(n)
    PROVE  FloorInv'
  <1>1. /\ mark \in [Node -> [Node -> Nat]] /\ jmark \in [Node -> [Node -> Nat]]
        /\ marked \in [Node -> SUBSET Node] /\ jseen \in [Node -> SUBSET Mote]
        /\ seen \in [Node -> SUBSET [id: Mote, at: Nat]]
        /\ \A m \in Mote : Src[m] \in Node /\ Suite[m] \in Nat \ {0}
    BY DeliveryAssumption DEF TypeOK, RestOK
  <1>2. /\ UNCHANGED <<jout, jseen, jmark>>
        /\ seen' = [seen EXCEPT ![n] = {[id |-> m, at |-> BootClock] : m \in jseen[n]}]
        /\ mark' = [mark EXCEPT ![n] = jmark[n]]
        /\ marked' = [marked EXCEPT ![n] = {c \in Node : jmark[n][c] > 0}]
    BY DEF Restart, Restored, diskVars
  <1>3. \A k \in Node \ {n} : seen'[k] = seen[k] /\ mark'[k] = mark[k] /\ marked'[k] = marked[k]
    BY <1>1, <1>2
  <1>4. mark'[n] = jmark[n] /\ marked'[n] = {c \in Node : jmark[n][c] > 0}
        /\ \A r \in seen'[n] : r.id \in jseen[n]
    BY <1>1, <1>2
  <1>5. \A m \in jseen[n] : Src[m] \in marked'[n] /\ mark'[n][Src[m]] >= Suite[m]
    <2> SUFFICES ASSUME NEW m \in jseen[n]
                 PROVE  Src[m] \in marked'[n] /\ mark'[n][Src[m]] >= Suite[m]
      OBVIOUS
    <2>1. m \in Mote /\ Src[m] \in Node /\ Suite[m] \in Nat \ {0} /\ jmark[n][Src[m]] \in Nat
      BY <1>1
    <2>2. jmark[n][Src[m]] >= Suite[m]
      BY DEF FloorInv
    <2>3. QED
      BY <1>4, <2>1, <2>2
  <1>6. \A c \in Node : jmark[n][c] \in Nat
    BY <1>1
  <1>7. \A k \in Node :
           /\ \A m \in jseen[k] : jmark[k][Src[m]] >= Suite[m]
           /\ \A r \in seen'[k] : Src[r.id] \in marked'[k] /\ mark'[k][Src[r.id]] >= Suite[r.id]
           /\ \A c \in Node : mark'[k][c] >= jmark[k][c]
    BY <1>3, <1>4, <1>5, <1>6 DEF FloorInv
  <1>8. QED
    BY <1>2, <1>7 DEF FloorInv

LEMMA FloorUntouched ==
    ASSUME FloorInv, UNCHANGED <<jout, jseen, jmark, seen, mark, marked>>
    PROVE  FloorInv'
  BY DEF FloorInv

LEMMA FloorStep == TypeOK /\ TypeOK' /\ FloorInv /\ [Next]_vars => FloorInv'
  <1> SUFFICES ASSUME TypeOK, TypeOK', FloorInv, [Next]_vars PROVE FloorInv'
    OBVIOUS
  <1>1. ASSUME NEW n \in Node, NodeStep(n)
        PROVE  FloorInv'
    BY <1>1, FloorNodeStep
  <1>2. ASSUME NEW n \in Node, ClientStep(n)
        PROVE  FloorInv'
    <2>1. CASE (\E m \in Mote : Send(n, m)) \/ (\E a \in Pins \ {n} : AddContact(n, a))
               \/ TakeEphemeral(n)
      BY <2>1, FloorUntouched DEF Send, AddContact, TakeEphemeral, diskVars
    <2>2. ASSUME NEW c \in (Pins \cap Node) \ {n}, NEW s \in Floors, PinSuiteFloor(n, c, s)
          PROVE  FloorInv'
      BY <2>2, FloorPin
    <2>3. QED
      BY <1>2, <2>1, <2>2 DEF ClientStep
  <1>3. CASE Environment
    <2>1. ASSUME NEW n \in Node, Crash(n) \/ Shutdown(n) \/ LoseFrame(n)
          PROVE  FloorInv'
      BY <2>1, FloorQuiet DEF Crash, Shutdown, LoseFrame, nodeVars
    <2>2. ASSUME NEW n \in Node, Restart(n)
          PROVE  FloorInv'
      BY <2>2, FloorRestart
    <2>3. CASE (\E a \in Flaky : LinkDown(a) \/ LinkUp(a)) \/ TimePasses
               \/ (\E m \in Mote, a \in Addr : Redeliver(m, a) \/ MisroutedAck(m, a))
      BY <2>3, FloorUntouched
         DEF LinkDown, LinkUp, TimePasses, Redeliver, MisroutedAck, nodeVars, diskVars
    <2>4. QED
      BY <1>3, <2>1, <2>2, <2>3 DEF Environment
  <1>4. CASE UNCHANGED vars
    BY <1>4, FloorUntouched DEF vars, nodeVars, diskVars
  <1>5. QED
    BY <1>1, <1>2, <1>3, <1>4 DEF Next

LEMMA FloorInit == Init => FloorInv
  BY DeliveryAssumption DEF Init, FloorInv, NoEntry

\* The one action that files a MOTE, or delivers one for the first time.
Taken(m) == \E n \in Node : \E f \in batch[n] : f.id = m /\ Dst[m] = n /\ Accept(n, f)

LEMMA OnlyAcceptDelivers ==
    ASSUME TypeOK, [Next]_vars, NEW m \in Mote,
           filed'[m] > filed[m] \/ (m \in delivered' /\ m \notin delivered)
    PROVE  Taken(m)
  <1>0. filed \in [Mote -> Nat] /\ batch \in [Node -> SUBSET Frame]
    BY DEF TypeOK, RestOK
  <1>1. ~UNCHANGED <<filed, delivered>>
    BY <1>0
  <1>2. ~UNCHANGED vars
    BY <1>1 DEF vars, nodeVars, history
  <1>3. ASSUME NEW n \in Node, PollFrame(n)
        PROVE  Taken(m)
    <2>1. PICK f \in batch[n] : ReceiveAck(n, f) \/ ReceiveMote(n, f)
      BY <1>3 DEF PollFrame
    <2>2. ReceiveMote(n, f)
      BY <1>1, <1>3, <2>1 DEF PollFrame, ReceiveAck
    <2>3. Accept(n, f) /\ Dst[f.id] = n
      BY <1>1, <2>2 DEF ReceiveMote, Duplicate, Deferred, StorageDenied, Dropped
    <2>4. f.id = m
      <3>1. f.id \in Mote
        BY <1>0 DEF Frame
      <3>2. delivered' = delivered \cup {f.id}
            /\ (UNCHANGED filed \/ filed' = [filed EXCEPT ![f.id] = @ + 1])
        BY <2>3 DEF Accept
      <3>3. QED
        BY <1>0, <3>1, <3>2
    <2>5. QED
      BY <2>3, <2>4 DEF Taken
  <1>4. ASSUME NEW n \in Node, NodeStep(n)
        PROVE  Taken(m)
    BY <1>1, <1>3, <1>4
       DEF NodeStep, SendCheckpoint, Tick, PollEnd, RetryEntry, RetryEnd, TickDeadlines, history
  <1>5. ASSUME NEW n \in Node, ClientStep(n)
        PROVE  FALSE
    BY <1>1, <1>5 DEF ClientStep, Send, AddContact, PinSuiteFloor, TakeEphemeral, history
  <1>6. ASSUME NEW n \in Node, Restart(n)
        PROVE  FALSE
    <2>1. filed' = [k \in Mote |-> IF Dst[k] = n THEN 0 ELSE filed[k]] /\ UNCHANGED delivered
      BY <1>6 DEF Restart, history
    <2>2. QED
      BY <1>0, <2>1
  <1>7. CASE Environment
    BY <1>1, <1>6, <1>7 DEF Environment, Crash, Shutdown, LoseFrame, LinkDown, LinkUp,
       Redeliver, MisroutedAck, TimePasses, nodeVars, history
  <1>8. QED
    BY <1>2, <1>4, <1>5, <1>7 DEF Next

\* No MOTE is filed or delivered below the floor the journal holds for its sender (node.rs,
\* accept); a copy of one filed before the floor rose is only acked again.
THEOREM FloorsOutliveCrashes == Spec => FloorHolds
  <1> DEFINE A == \A m \in Mote : filed'[m] > filed[m] \/ (m \in delivered' /\ m \notin delivered)
                          => Suite[m] >= jmark[Dst[m]][Src[m]]
  <1>1. TypeOK /\ FloorInv /\ [Next]_vars => A
    <2> SUFFICES ASSUME TypeOK, FloorInv, [Next]_vars, NEW m \in Mote,
                        filed'[m] > filed[m] \/ (m \in delivered' /\ m \notin delivered)
                 PROVE  Suite[m] >= jmark[Dst[m]][Src[m]]
      OBVIOUS
    <2>1. PICK n \in Node : \E f \in batch[n] : f.id = m /\ Dst[m] = n /\ Accept(n, f)
      BY OnlyAcceptDelivers DEF Taken
    <2>2. Suite[m] >= mark[n][Src[m]] /\ Dst[m] = n
      BY <2>1 DEF Accept, Validates
    <2>3. mark[n][Src[m]] >= jmark[n][Src[m]]
      BY DeliveryAssumption DEF FloorInv
    <2>4. Suite[m] \in Nat /\ mark[n][Src[m]] \in Nat /\ jmark[n][Src[m]] \in Nat
      BY DeliveryAssumption DEF TypeOK, RestOK
    <2>5. QED
      BY <2>2, <2>3, <2>4
  <1>2. Spec => []FloorInv
    BY FloorInit, FloorStep, TypeCorrect, PTL DEF Spec
  <1>3. QED
    BY <1>1, <1>2, TypeCorrect, PTL DEF Spec, FloorHolds

-----------------------------------------------------------------------------
(* JournalCurrent.                                                         *)

\* retry_pending walks the node's own queue.
TodoInv == \A n \in Node : todo[n] \subseteq Mine(n)

LEMMA TodoStep == TypeOK /\ TodoInv /\ [Next]_vars => TodoInv'
  <1> SUFFICES ASSUME TypeOK, TodoInv, [Next]_vars PROVE TodoInv'
    OBVIOUS
  <1>0. todo \in [Node -> SUBSET Mote]
    BY DEF TypeOK, RestOK
  <1>1. CASE UNCHANGED todo
    BY <1>1 DEF TodoInv, Mine
  <1>2. ASSUME NEW n \in Node, PollEnd(n) \/ RetryEntry(n) \/ Restart(n)
        PROVE  TodoInv'
    <2>1. PICK t \in SUBSET Mine(n) : todo' = [todo EXCEPT ![n] = t]
      <3>1. CASE PollEnd(n)
        BY <3>1 DEF PollEnd
      <3>2. CASE RetryEntry(n)
        <4>1. PICK m \in todo[n] : todo' = [todo EXCEPT ![n] = @ \ {m}]
          BY <3>2 DEF RetryEntry
        <4>2. todo[n] \ {m} \in SUBSET Mine(n)
          BY DEF TodoInv
        <4>3. QED
          BY <4>1, <4>2
      <3>3. CASE Restart(n)
        BY <3>3 DEF Restart
      <3>4. QED
        BY <1>2, <3>1, <3>2, <3>3
    <2>2. QED
      BY <1>0, <2>1 DEF TodoInv, Mine
  <1>3. CASE UNCHANGED vars
    BY <1>1, <1>3 DEF vars, nodeVars
  <1>4. CASE \E n \in Node : NodeStep(n) \/ ClientStep(n)
    BY <1>1, <1>2, <1>4
       DEF NodeStep, SendCheckpoint, Tick, PollFrame, RetryEnd, TickDeadlines,
           ClientStep, Send, AddContact, PinSuiteFloor, TakeEphemeral
  <1>5. CASE Environment
    BY <1>1, <1>2, <1>5
       DEF Environment, Crash, Shutdown, LoseFrame, LinkDown, LinkUp, Redeliver,
           MisroutedAck, TimePasses, nodeVars
  <1>6. QED
    BY <1>3, <1>4, <1>5 DEF Next

LEMMA TodoCorrect == Spec => []TodoInv
  <1>1. Init => TodoInv
    BY DEF Init, TodoInv
  <1>2. QED
    BY <1>1, TodoStep, TypeCorrect, PTL DEF Spec

\* What a write that succeeded leaves behind is current.
LEMMA SavedCurrent ==
    ASSUME TypeOK, TypeOK', FloorInv', NEW n \in Node, Save(n), saveFails' = 0
    PROVE  OutCurrent(n)' /\ SeenCurrent(n)'
  <1>1. saveFails \in Nat
    BY DEF TypeOK
  <1>2. /\ jout' = [m \in Mote |-> IF Src[m] = n THEN PersistedEntry(out'[m]) ELSE jout[m]]
        /\ jseen' = [jseen EXCEPT ![n] = {r.id : r \in seen'[n]}]
    BY <1>1 DEF Save
  <1>3. OutCurrent(n)'
    BY <1>2 DEF OutCurrent, Mine
  <1>4. jseen'[n] = {r.id : r \in seen'[n]}
    BY <1>2 DEF TypeOK
  <1>5. QED
    BY <1>3, <1>4 DEF SeenCurrent, FloorInv

\* The current part of one node's journal.
Current(n) ==
    /\ pc[n] \in {"idle", "poll", "deadlines"} /\ Clean(n) => OutCurrent(n)
    /\ Clean(n) => SeenCurrent(n)

\* The nodes that take no part in a step stay current.
LEMMA CurrentKept ==
    ASSUME TypeOK, CurrentInv, NEW n \in Node, Save(n) \/ UNCHANGED diskVars,
           up' \subseteq up \cup {n},
           \A k \in Node \ {n} : pc'[k] = pc[k] /\ dirty'[k] = dirty[k] /\ seen'[k] = seen[k],
           \A m \in Mote : Src[m] # n => out'[m] = out[m],
           n \in up' /\ saveFails' = 0 => Current(n)'
    PROVE  CurrentInv'
  <1> SUFFICES ASSUME NEW k \in up', saveFails' = 0, k # n
               PROVE  Current(k)'
    BY DEF CurrentInv, Current
  <1>1. k \in up /\ k \in Node /\ saveFails \in Nat
    BY DEF TypeOK, RestOK
  <1>2. saveFails = 0
    BY <1>1 DEF Save, diskVars
  <1>3. Current(k)
    BY <1>1, <1>2 DEF CurrentInv, Current
  <1>4. /\ \A m \in Mine(k) : jout'[m] = jout[m] /\ out'[m] = out[m]
        /\ jseen'[k] = jseen[k] /\ jmark'[k] = jmark[k]
    BY <1>1, SaveEffect DEF Mine
  <1>5. pc'[k] = pc[k] /\ dirty'[k] = dirty[k] /\ seen'[k] = seen[k]
    BY <1>1
  <1>6. QED
    BY <1>3, <1>4, <1>5 DEF Current, OutCurrent, SeenCurrent, Clean, Mine

\* The steps of node n that end in a write, and those that write nothing.
LEMMA CurrentSaved ==
    ASSUME TypeOK, TypeOK', FloorInv', CurrentInv, NEW n \in Node, Save(n), up' \subseteq up,
           UNCHANGED <<out, seen, dirty>>, \A k \in Node \ {n} : pc'[k] = pc[k]
    PROVE  CurrentInv'
  <1>1. saveFails' = 0 => Current(n)'
    BY SavedCurrent DEF Current
  <1>2. QED
    BY <1>1, CurrentKept

LEMMA CurrentUnsaved ==
    ASSUME TypeOK, CurrentInv, NEW n \in Node, n \in up, UNCHANGED diskVars, UNCHANGED up,
           \A k \in Node \ {n} : pc'[k] = pc[k] /\ dirty'[k] = dirty[k] /\ seen'[k] = seen[k],
           \A m \in Mote : Src[m] # n => out'[m] = out[m],
           Current(n) => Current(n)'
    PROVE  CurrentInv'
  <1>1. saveFails' = 0 => Current(n)'
    BY DEF CurrentInv, Current, diskVars
  <1>2. QED
    BY <1>1, CurrentKept

LEMMA CurrentPollFrame ==
    ASSUME TypeOK, CurrentInv, NEW n \in Node, PollFrame(n)
    PROVE  CurrentInv'
  <1>0. /\ n \in up /\ pc[n] = "poll" /\ UNCHANGED <<pc, up>> /\ UNCHANGED diskVars
        /\ dirty \in [Node -> BOOLEAN] /\ out \in [Mote -> OutboundEntry]
        /\ seen \in [Node -> SUBSET [id: Mote, at: Nat]]
        /\ batch \in [Node -> SUBSET Frame]
    BY DEF PollFrame, TypeOK, RestOK
  <1>1. PICK f \in batch[n] : ReceiveAck(n, f) \/ ReceiveMote(n, f)
    BY DEF PollFrame
  <1>2. ASSUME \/ UNCHANGED <<out, seen, dirty>>
               \/ /\ dirty'[n] = TRUE
                  /\ \A k \in Node \ {n} : dirty'[k] = dirty[k] /\ seen'[k] = seen[k]
                  /\ \A m \in Mote : Src[m] # n => out'[m] = out[m]
        PROVE  CurrentInv'
    <2>1. Current(n) => Current(n)'
      BY <1>0, <1>2 DEF Current, Clean, OutCurrent, SeenCurrent, diskVars
    <2>2. QED
      BY <1>0, <1>2, <2>1, CurrentUnsaved
  <1>3. CASE ReceiveAck(n, f)
    <2>1. CASE Honours(n, f)
      <3> DEFINE e == Apply(out[f.id], IF out[f.id].st = "Expired" THEN "LateAck"
                                                                  ELSE "AckReceived")
      <3>1. /\ out' = [out EXCEPT ![f.id] = e]
            /\ dirty' = [dirty EXCEPT ![n] = @ \/ e # out[f.id]]
            /\ UNCHANGED seen /\ Src[f.id] = n
        BY <1>3, <2>1 DEF ReceiveAck, Honours
      <3> HIDE DEF e
      <3>2. f.id \in Mote
        BY <1>0 DEF Frame
      <3>3. CASE e = out[f.id]
        <4>1. UNCHANGED out
          BY <1>0, <3>1, <3>2, <3>3
        <4>2. UNCHANGED dirty
          BY <1>0, <3>1, <3>3
        <4>3. QED
          BY <1>2, <3>1, <4>1, <4>2
      <3>4. CASE e # out[f.id]
        <4>1. dirty'[n] = TRUE /\ \A k \in Node \ {n} : dirty'[k] = dirty[k]
          BY <1>0, <3>1, <3>4
        <4>2. \A m \in Mote : Src[m] # n => out'[m] = out[m]
          BY <1>0, <3>1
        <4>3. QED
          BY <1>2, <3>1, <4>1, <4>2
      <3>5. QED
        BY <3>3, <3>4
    <2>2. CASE ~Honours(n, f)
      BY <1>2, <1>3, <2>2 DEF ReceiveAck
    <2>3. QED
      BY <2>1, <2>2
  <1>4. CASE ReceiveMote(n, f)
    <2>1. CASE UNCHANGED <<seen, dirty>>
      BY <1>2, <1>4, <2>1 DEF ReceiveMote
    <2>2. CASE Accept(n, f)
      <3>1. /\ dirty' = [dirty EXCEPT ![n] = TRUE]
            /\ seen' = [seen EXCEPT ![n] = SeenRecord(n, f.id)] /\ UNCHANGED out
        BY <1>4, <2>2 DEF Accept, ReceiveMote
      <3>2. QED
        BY <1>0, <1>2, <3>1
    <2>3. QED
      BY <1>4, <2>1, <2>2 DEF ReceiveMote, Duplicate, Deferred, StorageDenied, Dropped
  <1>5. QED
    BY <1>1, <1>3, <1>4

LEMMA CurrentTickDeadlines ==
    ASSUME TypeOK, TypeOK', FloorInv', CurrentInv, NEW n \in Node, TickDeadlines(n)
    PROVE  CurrentInv'
  <1>0. /\ n \in up /\ pc[n] = "deadlines" /\ UNCHANGED <<up, seen, dirty>>
        /\ pc' = [pc EXCEPT ![n] = "idle"] /\ DOMAIN pc = Node
        /\ \A m \in Mote : out'[m] = IF Src[m] = n THEN Collected(Expire(out[m], clk[n]), clk[n])
                                                   ELSE out[m]
        /\ IF Owes(n) THEN Save(n) ELSE UNCHANGED diskVars
    BY DEF TickDeadlines, netVars, TypeOK, RestOK
  <1>1. pc'[n] = "idle" /\ \A k \in Node \ {n} : pc'[k] = pc[k]
    BY <1>0 DEF TypeOK, RestOK
  <1>2. CASE Owes(n)
    <2>1. saveFails' = 0 => Current(n)'
      BY <1>0, <1>2, SavedCurrent DEF Current
    <2>2. QED
      BY <1>0, <1>1, <1>2, <2>1, CurrentKept
  <1>3. CASE ~Owes(n)
    <2>1. \A m \in Mine(n) : out'[m] = out[m]
      BY <1>0, <1>3 DEF Owes, Mine
    <2>2. Current(n) => Current(n)'
      BY <1>0, <1>1, <1>3, <2>1 DEF Current, Clean, OutCurrent, SeenCurrent, diskVars, Mine
    <2>3. QED
      BY <1>0, <1>1, <1>3, <2>2, CurrentUnsaved
  <1>4. QED
    BY <1>2, <1>3

LEMMA CurrentNodeStep ==
    ASSUME TypeOK, TypeOK', TodoInv, FloorInv', CurrentInv, NEW n \in Node, NodeStep(n)
    PROVE  CurrentInv'
  <1>0. pc \in [Node -> {"idle", "sent", "poll", "retry", "deadlines"}]
        /\ dirty \in [Node -> BOOLEAN] /\ out \in [Mote -> OutboundEntry]
    BY DEF TypeOK, RestOK
  <1>1. CASE SendCheckpoint(n)
    BY <1>0, <1>1, CurrentSaved DEF SendCheckpoint, netVars
  <1>2. CASE Tick(n)
    <2>1. /\ n \in up /\ pc[n] = "idle" /\ UNCHANGED <<up, out, seen>> /\ UNCHANGED diskVars
          /\ pc' = [pc EXCEPT ![n] = "poll"] /\ dirty' = [dirty EXCEPT ![n] = FALSE]
      BY <1>2 DEF Tick
    <2>2. Current(n) => Current(n)'
      BY <1>0, <2>1 DEF Current, Clean, OutCurrent, SeenCurrent, diskVars
    <2>3. QED
      BY <1>0, <2>1, <2>2, CurrentUnsaved
  <1>3. CASE PollFrame(n)
    BY <1>3, CurrentPollFrame
  <1>4. CASE PollEnd(n)
    <2>1. /\ n \in up /\ pc[n] = "poll" /\ UNCHANGED <<up, out, seen, dirty>>
          /\ pc' = [pc EXCEPT ![n] = "retry"]
          /\ IF dirty[n] THEN Save(n) ELSE UNCHANGED diskVars
      BY <1>4 DEF PollEnd, netVars
    <2>2. CASE dirty[n]
      BY <1>0, <2>1, <2>2, CurrentSaved
    <2>3. CASE ~dirty[n]
      <3>1. Current(n) => Current(n)'
        BY <1>0, <2>1, <2>3 DEF Current, Clean, OutCurrent, SeenCurrent, diskVars
      <3>2. QED
        BY <1>0, <2>1, <2>3, <3>1, CurrentUnsaved
    <2>4. QED
      BY <2>2, <2>3
  <1>5. CASE RetryEntry(n)
    <2>1. /\ n \in up /\ pc[n] = "retry" /\ UNCHANGED <<up, pc, seen, dirty>> /\ UNCHANGED diskVars
      BY <1>5 DEF RetryEntry
    <2>2. PICK m \in todo[n] : \E e : out' = [out EXCEPT ![m] = e]
      BY <1>5 DEF RetryEntry
    <2>3. \A k \in Mote : Src[k] # n => out'[k] = out[k]
      BY <1>0, <2>2 DEF TodoInv, Mine
    <2>4. Current(n) => Current(n)'
      BY <2>1 DEF Current, Clean, SeenCurrent, diskVars
    <2>5. QED
      BY <2>1, <2>3, <2>4, CurrentUnsaved
  <1>6. CASE RetryEnd(n)
    BY <1>0, <1>6, CurrentSaved DEF RetryEnd, netVars
  <1>7. CASE TickDeadlines(n)
    BY <1>7, CurrentTickDeadlines
  <1>8. QED
    BY <1>1, <1>2, <1>3, <1>4, <1>5, <1>6, <1>7 DEF NodeStep

LEMMA CurrentClientStep ==
    ASSUME TypeOK, TypeOK', FloorInv', CurrentInv, NEW n \in Node, ClientStep(n)
    PROVE  CurrentInv'
  <1>0. pc \in [Node -> {"idle", "sent", "poll", "retry", "deadlines"}]
        /\ out \in [Mote -> OutboundEntry]
    BY DEF TypeOK, RestOK
  <1>1. ASSUME NEW m \in Mote, Send(n, m)
        PROVE  CurrentInv'
    <2>1. /\ n \in up /\ pc[n] = "idle" /\ Src[m] = n
          /\ UNCHANGED <<up, seen, dirty>> /\ UNCHANGED diskVars
          /\ pc' = [pc EXCEPT ![n] = "sent"]
      BY <1>1 DEF Send
    <2>2. PICK e : out' = [out EXCEPT ![m] = e]
      BY <1>1 DEF Send
    <2>3. Current(n) => Current(n)'
      BY <1>0, <2>1 DEF Current, Clean, SeenCurrent, diskVars
    <2>4. QED
      BY <1>0, <2>1, <2>2, <2>3, CurrentUnsaved
  <1>2. ASSUME UNCHANGED <<pc, up, out, seen, dirty>>, UNCHANGED diskVars, n \in up
        PROVE  CurrentInv'
    <2>1. Current(n) => Current(n)'
      BY <1>2 DEF Current, Clean, OutCurrent, SeenCurrent, diskVars
    <2>2. QED
      BY <1>2, <2>1, CurrentUnsaved
  <1>3. ASSUME NEW a \in Pins \ {n}, AddContact(n, a)
        PROVE  CurrentInv'
    BY <1>2, <1>3 DEF AddContact, netVars
  <1>4. ASSUME NEW c \in (Pins \cap Node) \ {n}, NEW s \in Floors, PinSuiteFloor(n, c, s)
        PROVE  CurrentInv'
    BY <1>4, CurrentSaved DEF PinSuiteFloor, netVars
  <1>5. CASE TakeEphemeral(n)
    BY <1>2, <1>5 DEF TakeEphemeral, netVars
  <1>6. QED
    BY <1>1, <1>3, <1>4, <1>5 DEF ClientStep

\* An entry that holds no path is what the journal makes of it.
LEMMA PersistedTwice == \A e \in OutboundEntry : e.path = FALSE => PersistedEntry(e) = e
  BY DEF PersistedEntry, OutboundEntry

\* A restart reads back what the journal holds, so nothing is owed.
LEMMA CurrentRestart ==
    ASSUME TypeOK, TypeOK', FloorInv', CurrentInv, NEW n \in Node, Restart(n)
    PROVE  CurrentInv'
  <1>1. /\ up' = up \cup {n} /\ UNCHANGED diskVars
        /\ pc' = [pc EXCEPT ![n] = "idle"] /\ dirty' = [dirty EXCEPT ![n] = FALSE]
        /\ out' = [m \in Mote |-> IF Src[m] = n THEN jout[m] ELSE out[m]]
        /\ seen' = [seen EXCEPT ![n] = {[id |-> m, at |-> BootClock] : m \in jseen[n]}]
    BY DEF Restart
  <1>2. /\ \A m \in Mine(n) : out'[m] = jout[m]
        /\ \A m \in Mote : Src[m] # n => out'[m] = out[m]
        /\ {r.id : r \in seen'[n]} = jseen[n]
        /\ \A k \in Node \ {n} : pc'[k] = pc[k] /\ dirty'[k] = dirty[k] /\ seen'[k] = seen[k]
    <2>1. seen'[n] = {[id |-> m, at |-> BootClock] : m \in jseen[n]}
      BY <1>1 DEF TypeOK, RestOK
    <2>2. {r.id : r \in seen'[n]} = jseen[n]
      <3>1. \A r \in seen'[n] : r.id \in jseen[n]
        <4> SUFFICES ASSUME NEW r \in seen'[n]
                     PROVE  r.id \in jseen[n]
          OBVIOUS
        <4>1. PICK m \in jseen[n] : r = [id |-> m, at |-> BootClock]
          BY <2>1
        <4>2. r.id = m
          BY <4>1
        <4>3. QED
          BY <4>1, <4>2
      <3>2. \A m \in jseen[n] : \E r \in seen'[n] : r.id = m
        <4> SUFFICES ASSUME NEW m \in jseen[n]
                     PROVE  \E r \in seen'[n] : r.id = m
          OBVIOUS
        <4>1. [id |-> m, at |-> BootClock] \in seen'[n]
          BY <2>1
        <4>2. [id |-> m, at |-> BootClock].id = m
          OBVIOUS
        <4>3. QED
          BY <4>1, <4>2
      <3>3. QED
        BY <3>1, <3>2
    <2>3. QED
      BY <1>1, <2>2 DEF TypeOK, RestOK, Mine
  <1>3. \A m \in Mine(n) : jout'[m] = PersistedEntry(jout[m])
    BY <1>1, PersistedTwice DEF FloorInv, TypeOK, Mine, diskVars
  <1>4. OutCurrent(n)'
    BY <1>2, <1>3 DEF OutCurrent, Mine
  <1>5. SeenCurrent(n)'
    BY <1>1, <1>2 DEF SeenCurrent, FloorInv, diskVars
  <1>6. QED
    BY <1>1, <1>2, <1>4, <1>5, CurrentKept DEF Current

LEMMA CurrentUntouched ==
    ASSUME CurrentInv, UNCHANGED <<pc, up, out, seen, dirty>>, UNCHANGED diskVars
    PROVE  CurrentInv'
  BY DEF CurrentInv, OutCurrent, SeenCurrent, Clean, diskVars

LEMMA CurrentStep ==
    TypeOK /\ TypeOK' /\ TodoInv /\ FloorInv' /\ CurrentInv /\ [Next]_vars => CurrentInv'
  <1> SUFFICES ASSUME TypeOK, TypeOK', TodoInv, FloorInv', CurrentInv, [Next]_vars
               PROVE  CurrentInv'
    OBVIOUS
  <1>1. ASSUME NEW n \in Node, NodeStep(n) \/ ClientStep(n)
        PROVE  CurrentInv'
    BY <1>1, CurrentNodeStep, CurrentClientStep
  <1>2. CASE Environment
    <2>1. ASSUME NEW n \in Node, Crash(n) \/ Shutdown(n)
          PROVE  CurrentInv'
      BY <2>1, CurrentKept DEF Crash, Shutdown, nodeVars
    <2>2. ASSUME NEW n \in Node, Restart(n)
          PROVE  CurrentInv'
      BY <2>2, CurrentRestart
    <2>3. CASE (\E n \in Node : LoseFrame(n)) \/ (\E a \in Flaky : LinkDown(a) \/ LinkUp(a))
               \/ TimePasses \/ (\E m \in Mote, a \in Addr : Redeliver(m, a) \/ MisroutedAck(m, a))
      BY <2>3, CurrentUntouched
         DEF LoseFrame, LinkDown, LinkUp, TimePasses, Redeliver, MisroutedAck, nodeVars
    <2>4. QED
      BY <1>2, <2>1, <2>2, <2>3 DEF Environment
  <1>3. CASE UNCHANGED vars
    BY <1>3, CurrentUntouched DEF vars, nodeVars, netVars
  <1>4. QED
    BY <1>1, <1>2, <1>3 DEF Next

LEMMA CurrentCorrect == Spec => []CurrentInv
  <1>1. Init => CurrentInv
    <2> SUFFICES ASSUME Init, NEW n \in up
                 PROVE  OutCurrent(n) /\ SeenCurrent(n)
      BY DEF CurrentInv
    <2>1. n \in Node /\ seen[n] = {} /\ jseen[n] = {}
      BY DEF Init
    <2>2. \A m \in Mote : out[m] = NoEntry /\ jout[m] = NoEntry
      BY DEF Init
    <2>3. OutCurrent(n)
      <3>1. NoEntry.path = FALSE
        BY DEF NoEntry
      <3>2. QED
        BY <2>2, <3>1, NoEntryType, PersistedTwice DEF OutCurrent, Mine
    <2>4. QED
      BY <2>1, <2>3 DEF SeenCurrent
  <1>2. Spec => []FloorInv
    BY FloorInit, FloorStep, TypeCorrect, PTL DEF Spec
  <1>3. QED
    BY <1>1, <1>2, CurrentStep, TodoCorrect, TypeCorrect, PTL DEF Spec

\* Between two calls, and so before every crash that hits no call, the journal
\* holds the queue, the dedup ids and the floors (journal writes succeeding).
THEOREM JournalIsCurrent == Spec => []JournalCurrent
  <1>1. CurrentInv => JournalCurrent
    BY DEF CurrentInv, JournalCurrent, OutCurrent, SeenCurrent, Clean
  <1>2. QED
    BY <1>1, CurrentCorrect, PTL

-----------------------------------------------------------------------------
(* NoDoubleFiling.                                                         *)

\* The clocks only move up, to the wall clock, and no record is forgotten.
LEMMA DedupKept ==
    ASSUME TypeOK, TypeOK', DedupInv, wall <= wall', UNCHANGED <<seen, filed, filedAt>>,
           \A n \in Node : clk'[n] = clk[n] \/ clk'[n] = wall
    PROVE  DedupInv'
  <1>1. /\ wall \in Nat /\ wall' \in Nat /\ clk \in [Node -> Nat] /\ clk' \in [Node -> Nat]
        /\ \A m \in Mote : Dst[m] \in Node
        /\ BootClock \in Nat /\ DedupWindow \in Nat
    BY DeliveryAssumption DEF TypeOK, RestOK
  <1>2. \A n \in Node : clk[n] <= clk'[n] /\ clk'[n] <= wall'
    <2> SUFFICES ASSUME NEW n \in Node
                 PROVE  clk[n] <= clk'[n] /\ clk'[n] <= wall'
      OBVIOUS
    <2>1. clk[n] \in Nat /\ clk'[n] \in Nat /\ clk[n] <= wall
      BY <1>1 DEF DedupInv
    <2>2. QED
      BY <1>1, <2>1
  <1>3. BootClock <= wall'
    BY <1>1 DEF DedupInv
  <1>4. ASSUME NEW m \in Mote, filed[m] > 0
        PROVE  /\ filedAt[m] \in Nat
               /\ clk'[Dst[m]] - filedAt[m] < DedupWindow
                     => [id |-> m, at |-> filedAt[m]] \in seen[Dst[m]]
    <2>1. /\ filedAt[m] \in Nat
          /\ clk[Dst[m]] - filedAt[m] < DedupWindow
                => [id |-> m, at |-> filedAt[m]] \in seen[Dst[m]]
      BY <1>4 DEF DedupInv
    <2>2. clk[Dst[m]] \in Nat /\ clk'[Dst[m]] \in Nat /\ clk[Dst[m]] <= clk'[Dst[m]]
      BY <1>1, <1>2
    <2>3. QED
      BY <1>1, <2>1, <2>2
  <1>5. QED
    BY <1>2, <1>3, <1>4 DEF DedupInv

\* seen.record prunes only what has left the window.
LEMMA SeenRecordKeeps ==
    ASSUME TypeOK, NEW n \in Node, NEW m \in Mote
    PROVE  /\ [id |-> m, at |-> clk[n]] \in SeenRecord(n, m)
           /\ \A r \in seen[n] : r.id # m /\ clk[n] - r.at < DedupWindow => r \in SeenRecord(n, m)
  BY DEF SeenRecord

LEMMA DedupAccept ==
    ASSUME TypeOK, DedupInv, NEW n \in Node, NEW f \in Frame, Dst[f.id] = n, Accept(n, f),
           UNCHANGED <<wall, clk>>
    PROVE  DedupInv'
  <1>0. /\ filed \in [Mote -> Nat] /\ filedAt \in [Mote -> Nat \cup {Never}]
        /\ seen \in [Node -> SUBSET [id: Mote, at: Nat]] /\ clk \in [Node -> Nat]
        /\ \A m \in Mote : Dst[m] \in Node
        /\ f.id \in Mote
    BY DeliveryAssumption DEF TypeOK, RestOK, Frame
  <1>1. /\ seen' = [seen EXCEPT ![n] = SeenRecord(n, f.id)]
        /\ filedAt' = [filedAt EXCEPT ![f.id] = clk[n]]
        /\ UNCHANGED filed \/ filed' = [filed EXCEPT ![f.id] = @ + 1]
    BY DEF Accept
  <1> SUFFICES ASSUME NEW m \in Mote, filed'[m] > 0
               PROVE  /\ filedAt'[m] \in Nat
                      /\ clk[Dst[m]] - filedAt'[m] < DedupWindow
                            => [id |-> m, at |-> filedAt'[m]] \in seen'[Dst[m]]
    BY DEF DedupInv
  <1>2. CASE m = f.id
    <2>1. filedAt'[m] = clk[n] /\ clk[n] \in Nat
      BY <1>0, <1>1, <1>2
    <2>2. [id |-> m, at |-> clk[n]] \in seen'[n]
      BY <1>0, <1>1, <1>2, SeenRecordKeeps
    <2>3. QED
      BY <1>2, <2>1, <2>2
  <1>3. CASE m # f.id
    <2>1. filedAt'[m] = filedAt[m] /\ filed'[m] = filed[m]
      BY <1>0, <1>1, <1>3
    <2>2. /\ filedAt[m] \in Nat
          /\ clk[Dst[m]] - filedAt[m] < DedupWindow
                => [id |-> m, at |-> filedAt[m]] \in seen[Dst[m]]
      BY <2>1 DEF DedupInv
    <2>3. CASE Dst[m] = n
      <3>1. ASSUME [id |-> m, at |-> filedAt[m]] \in seen[n],
                   clk[n] - filedAt[m] < DedupWindow
            PROVE  [id |-> m, at |-> filedAt[m]] \in SeenRecord(n, f.id)
        BY <1>0, <1>3, <3>1, SeenRecordKeeps
      <3>2. QED
        BY <1>0, <1>1, <2>1, <2>2, <2>3, <3>1
    <2>4. CASE Dst[m] # n
      BY <1>0, <1>1, <2>1, <2>2, <2>4
    <2>5. QED
      BY <2>3, <2>4
  <1>4. QED
    BY <1>2, <1>3

LEMMA DedupPollFrame ==
    ASSUME TypeOK, TypeOK', DedupInv, NEW n \in Node, PollFrame(n)
    PROVE  DedupInv'
  <1>0. UNCHANGED <<wall, clk>> /\ wall \in Nat /\ batch \in [Node -> SUBSET Frame]
    BY DEF PollFrame, TypeOK, RestOK
  <1>1. PICK f \in batch[n] : ReceiveAck(n, f) \/ ReceiveMote(n, f)
    BY DEF PollFrame
  <1>2. CASE UNCHANGED <<seen, filed, filedAt>>
    BY <1>0, <1>2, DedupKept
  <1>3. CASE ReceiveMote(n, f)
    BY <1>0, <1>2, <1>3, DedupAccept
       DEF ReceiveMote, Duplicate, Deferred, StorageDenied, Dropped
  <1>4. QED
    BY <1>1, <1>2, <1>3 DEF ReceiveAck

\* A restart files nothing again: INBOX is rebuilt empty.
LEMMA DedupRestart ==
    ASSUME TypeOK, TypeOK', DedupInv, NEW n \in Node, Restart(n)
    PROVE  DedupInv'
  <1>1. /\ UNCHANGED <<wall, filedAt>> /\ clk' = [clk EXCEPT ![n] = BootClock]
        /\ seen' = [seen EXCEPT ![n] = {[id |-> m, at |-> BootClock] : m \in jseen[n]}]
        /\ filed' = [m \in Mote |-> IF Dst[m] = n THEN 0 ELSE filed[m]]
        /\ clk \in [Node -> Nat] /\ seen \in [Node -> SUBSET [id: Mote, at: Nat]]
        /\ \A m \in Mote : Dst[m] \in Node
    BY DeliveryAssumption DEF Restart, history, TypeOK, RestOK
  <1>2. BootClock <= wall' /\ \A k \in Node : clk'[k] <= wall'
    BY <1>1 DEF DedupInv
  <1>3. ASSUME NEW m \in Mote, filed'[m] > 0
        PROVE  Dst[m] # n /\ filed[m] > 0
               /\ clk'[Dst[m]] = clk[Dst[m]] /\ seen'[Dst[m]] = seen[Dst[m]]
    <2>1. Dst[m] # n /\ filed'[m] = filed[m]
      BY <1>1, <1>3
    <2>2. QED
      BY <1>1, <1>3, <2>1
  <1>4. QED
    BY <1>1, <1>2, <1>3 DEF DedupInv

LEMMA DedupStep == TypeOK /\ TypeOK' /\ DedupInv /\ [Next]_vars => DedupInv'
  <1> SUFFICES ASSUME TypeOK, TypeOK', DedupInv, [Next]_vars PROVE DedupInv'
    OBVIOUS
  <1>0. wall \in Nat /\ clk \in [Node -> Nat]
    BY DEF TypeOK, RestOK
  <1>1. ASSUME UNCHANGED <<wall, seen, filed, filedAt>>,
               NEW n \in Node, UNCHANGED clk \/ clk' = [clk EXCEPT ![n] = wall]
        PROVE  DedupInv'
    BY <1>0, <1>1, DedupKept
  <1>2. ASSUME NEW n \in Node, NodeStep(n)
        PROVE  DedupInv'
    <2>1. CASE PollFrame(n)
      BY <2>1, DedupPollFrame
    <2>2. CASE Tick(n)
      BY <1>1, <2>2 DEF Tick, history
    <2>3. CASE SendCheckpoint(n) \/ PollEnd(n) \/ RetryEntry(n) \/ RetryEnd(n) \/ TickDeadlines(n)
      BY <1>1, <2>3
         DEF SendCheckpoint, PollEnd, RetryEntry, RetryEnd, TickDeadlines, netVars, history
    <2>4. QED
      BY <1>2, <2>1, <2>2, <2>3 DEF NodeStep
  <1>3. ASSUME NEW n \in Node, ClientStep(n)
        PROVE  DedupInv'
    BY <1>1, <1>3
       DEF ClientStep, Send, AddContact, PinSuiteFloor, TakeEphemeral, netVars, history
  <1>4. CASE Environment
    <2>1. ASSUME NEW n \in Node, Crash(n) \/ Shutdown(n) \/ LoseFrame(n)
          PROVE  DedupInv'
      BY <1>1, <2>1 DEF Crash, Shutdown, LoseFrame, nodeVars, history
    <2>2. ASSUME NEW n \in Node, Restart(n)
          PROVE  DedupInv'
      BY <2>2, DedupRestart
    <2>3. CASE (\E a \in Flaky : LinkDown(a) \/ LinkUp(a)) \/ TimePasses
               \/ (\E m \in Mote, a \in Addr : Redeliver(m, a) \/ MisroutedAck(m, a))
      <3>1. UNCHANGED <<clk, seen, filed, filedAt>> /\ wall' \in {wall, wall + 1}
        BY <2>3 DEF LinkDown, LinkUp, TimePasses, Redeliver, MisroutedAck, nodeVars, history
      <3>2. wall <= wall'
        BY <1>0, <3>1
      <3>3. QED
        BY <3>1, <3>2, DedupKept
    <2>4. QED
      BY <1>4, <2>1, <2>2, <2>3 DEF Environment
  <1>5. CASE UNCHANGED vars
    <2>1. UNCHANGED <<clk, seen, filed, filedAt>> /\ wall <= wall'
      BY <1>0, <1>5 DEF vars, nodeVars, netVars, history
    <2>2. QED
      BY <2>1, DedupKept
  <1>6. QED
    BY <1>2, <1>3, <1>4, <1>5 DEF Next

LEMMA DedupCorrect == Spec => []DedupInv
  <1>1. Init => DedupInv
    <2> SUFFICES ASSUME Init PROVE DedupInv
      OBVIOUS
    <2>1. wall = StartTime /\ clk = [n \in Node |-> BootClock] /\ filed = [m \in Mote |-> 0]
      BY DEF Init
    <2>2. QED
      BY <2>1, DeliveryAssumption DEF DedupInv
  <1>2. QED
    BY <1>1, DedupStep, TypeCorrect, PTL DEF Spec

\* Within one life of its process a node files a MOTE again only when the
\* dedup window has passed, for every window and every delay of the copy.
THEOREM CopiesAreNotFiled == Spec => NoDoubleFiling
  <1> DEFINE A == \A m \in Mote : filed'[m] > filed[m] /\ filed[m] > 0
                          => clk[Dst[m]] - filedAt[m] >= DedupWindow
  <1>1. TypeOK /\ DedupInv /\ [Next]_vars => A
    <2> SUFFICES ASSUME TypeOK, DedupInv, [Next]_vars, NEW m \in Mote,
                        filed'[m] > filed[m], filed[m] > 0
                 PROVE  clk[Dst[m]] - filedAt[m] >= DedupWindow
      OBVIOUS
    <2>1. Dst[m] \in Node /\ clk[Dst[m]] \in Nat /\ DedupWindow \in Nat
      BY DeliveryAssumption DEF TypeOK, RestOK
    <2>2. ~SeenContains(Dst[m], m)
      BY OnlyAcceptDelivers DEF Taken, Accept, Validates
    <2>3. /\ filedAt[m] \in Nat
          /\ clk[Dst[m]] - filedAt[m] < DedupWindow
                => [id |-> m, at |-> filedAt[m]] \in seen[Dst[m]]
      BY DEF DedupInv
    <2>4. ASSUME clk[Dst[m]] - filedAt[m] < DedupWindow
          PROVE  FALSE
      <3> DEFINE r == [id |-> m, at |-> filedAt[m]]
      <3>1. r \in seen[Dst[m]] /\ r.id = m /\ clk[Dst[m]] - r.at < DedupWindow
        BY <2>3, <2>4
      <3> HIDE DEF r
      <3>2. QED
        BY <2>2, <3>1 DEF SeenContains
    <2>5. QED
      BY <2>1, <2>3, <2>4
  <1>2. QED
    BY <1>1, DedupCorrect, TypeCorrect, PTL DEF Spec, NoDoubleFiling

-----------------------------------------------------------------------------
(* QueueIsDurable: what each event does to the fate of an entry.           *)

LEMMA PersistedFate ==
    ASSUME NEW e \in OutboundEntry
    PROVE  /\ Fate(PersistedEntry(e)) = Fate(e)
           /\ PersistedEntry(e).st = e.st
           /\ Unstamped(PersistedEntry(e)) <=> Unstamped(e)
  BY PersistedType DEF Fate, Unstamped

\* A retry, whether or not its dial succeeds, settles nothing.
LEMMA RetryFate ==
    ASSUME NEW e \in OutboundEntry, Unstamped(e), NEW ok \in BOOLEAN,
           NEW r, r = IF ok THEN Apply(e, "RetryTimerFires")
                            ELSE Apply(Apply(e, "RetryTimerFires"), "TierUnreachable")
    PROVE  Fate(r) = Fate(e) /\ (r.st = "none" <=> e.st = "none") /\ Unstamped(r)
  <1> DEFINE f == Apply(e, "RetryTimerFires")
  <1>1. /\ f \in OutboundEntry /\ f.termAt = e.termAt
        /\ f.st = IF e.st = "Retry" THEN "InFlight" ELSE e.st
    BY ApplyType DEF NextState
  <1> DEFINE g == Apply(f, "TierUnreachable")
  <1> HIDE DEF f
  <1>2. /\ g.termAt = f.termAt
        /\ g.st = IF f.st = "InFlight" THEN "Retry" ELSE f.st
    BY <1>1, ApplyType DEF NextState
  <1> HIDE DEF g
  <1>3. r = f \/ r = g
    BY DEF f, g
  <1>4. QED
    BY <1>1, <1>2, <1>3 DEF Fate, Unstamped, IsTerminal

\* An ack settles an entry that waits for one, and leaves any other's fate.
LEMMA AckFate ==
    ASSUME NEW e \in OutboundEntry, Unstamped(e), NEW r,
           r = Apply(e, IF e.st = "Expired" THEN "LateAck" ELSE "AckReceived")
    PROVE  /\ Fate(r) = Fate(e) \/ (Fate(e) = "pending" /\ Fate(r) = "acked")
           /\ r.st = "none" <=> e.st = "none"
           /\ Unstamped(r)
  <1>1. /\ r.termAt = e.termAt
        /\ r.st = IF e.st \in {"InFlight", "Retry"} THEN "Acked" ELSE e.st
    BY ApplyType DEF NextState
  <1>2. QED
    BY <1>1 DEF Fate, Unstamped, IsTerminal

\* tick_deadlines moves an entry one step at most: what expires now is stamped
\* and not yet dropped.
LEMMA TickFate ==
    ASSUME NEW e \in OutboundEntry, Unstamped(e), NEW now \in Nat, NEW r,
           r = Collected(Expire(e, now), now)
    PROVE  /\ r \in OutboundEntry /\ Unstamped(r)
           /\ \/ Fate(r) = Fate(e)
              \/ Fate(e) = "pending" /\ Fate(r) = "expired"
              \/ Fate(e) \in {"acked", "expired"} /\ Fate(r) = "collected"
           /\ r.st # "none" => e.st # "none"
  <1> DEFINE x == Expire(e, now)
  <1>1. /\ x \in OutboundEntry /\ x.termAt = e.termAt
        /\ x.st = e.st \/ (e.st \notin {"none", "Acked", "Expired"} /\ x.st = "Expired")
    BY ExpireType
  <1> HIDE DEF x
  <1>2. /\ r \in OutboundEntry
        /\ \/ r = x
           \/ IsTerminal(x.st) /\ r.st = x.st
           \/ IsTerminal(x.st) /\ x.termAt # Never /\ r = NoEntry
    BY <1>1, CollectedType DEF x
  <1>3. NoEntry.st = "none" /\ NoEntry.termAt = Never
    BY DEF NoEntry
  <1>4. Unstamped(r)
    BY <1>1, <1>2, <1>3 DEF Unstamped, IsTerminal
  <1>5. /\ \/ Fate(r) = Fate(e)
           \/ Fate(e) = "pending" /\ Fate(r) = "expired"
           \/ Fate(e) \in {"acked", "expired"} /\ Fate(r) = "collected"
        /\ r.st # "none" => e.st # "none"
    BY <1>1, <1>2, <1>3 DEF Unstamped, IsTerminal, Fate
  <1>6. QED
    BY <1>2, <1>4, <1>5

-----------------------------------------------------------------------------
(* QueueIsDurable: the queue in memory and the queue on disk.              *)

\* The MOTEs of other senders keep their place.
LEMMA QueueOthers ==
    ASSUME TypeOK, QueueInv, NEW n \in Node, Save(n) \/ UNCHANGED diskVars,
           up' \subseteq up \cup {n}, sent \subseteq sent',
           \A k \in Node \ {n} : pc'[k] = pc[k],
           \A m \in Mote : Src[m] # n => out'[m] = out[m]
    PROVE  \A m \in Mote : Src[m] # n => QueueEntry(m)'
  <1> SUFFICES ASSUME NEW m \in Mote, Src[m] # n
               PROVE  QueueEntry(m)'
    OBVIOUS
  <1>1. Src[m] \in Node /\ out'[m] = out[m] /\ jout'[m] = jout[m] /\ pc'[Src[m]] = pc[Src[m]]
    BY SaveEffect, DeliveryAssumption
  <1>2. m \in journalled' <=> m \in journalled
    BY SaveEffect DEF Mine, diskVars
  <1>3. QueueEntry(m)
    BY DEF QueueInv
  <1>4. QED
    BY <1>1, <1>2, <1>3 DEF QueueEntry

\* Every write succeeds, and then the journal is where memory is.
LEMMA QueueSaved ==
    ASSUME TypeOK, TypeOK', QueueInv, MaxSaveFail = 0, NEW n \in Node, Save(n),
           up' \subseteq up \cup {n}, sent' = sent,
           \A k \in Node \ {n} : pc'[k] = pc[k],
           \A m \in Mote : Src[m] # n => out'[m] = out[m],
           \A m \in Mine(n) : (out'[m].st # "none" => m \in sent) /\ Unstamped(out'[m])
    PROVE  QueueInv'
  <1>1. /\ UNCHANGED saveFails
        /\ \A m \in Mine(n) : jout'[m] = PersistedEntry(out'[m])
        /\ journalled' = journalled \cup {m \in Mine(n) : out'[m].st # "none"}
    BY DEF Save, TypeOK, Mine
  <1>2. ASSUME NEW m \in Mine(n)
        PROVE  QueueEntry(m)'
    <2>1. m \in Mote /\ out'[m] \in OutboundEntry /\ jout'[m] = PersistedEntry(out'[m])
      BY <1>1 DEF TypeOK, RestOK, Mine
    <2>2. Fate(jout'[m]) = Fate(out'[m]) /\ jout'[m].st = out'[m].st
          /\ (Unstamped(jout'[m]) <=> Unstamped(out'[m]))
      BY <2>1, PersistedFate
    <2>3. QueueEntry(m)
      BY <2>1 DEF QueueInv
    <2>4. m \in journalled' <=> m \in journalled \/ out'[m].st # "none"
      BY <1>1, <1>2
    <2>5. QED
      BY <2>2, <2>3, <2>4 DEF QueueEntry
  <1>3. QED
    BY <1>1, <1>2, QueueOthers DEF QueueInv, Mine

\* A step of n that writes nothing has to keep n's own MOTEs in their place.
LEMMA QueueUnsaved ==
    ASSUME TypeOK, QueueInv, NEW n \in Node, UNCHANGED diskVars,
           up' \subseteq up \cup {n}, sent \subseteq sent',
           \A k \in Node \ {n} : pc'[k] = pc[k],
           \A m \in Mote : Src[m] # n => out'[m] = out[m],
           \A m \in Mine(n) : QueueEntry(m)'
    PROVE  QueueInv'
  BY QueueOthers DEF QueueInv, Mine, diskVars

LEMMA QueueSend ==
    ASSUME TypeOK, QueueInv, NEW n \in Node, NEW m \in Mote, Send(n, m)
    PROVE  QueueInv'
  <1> DEFINE e == Enqueue(wall, Lifetime[m], m \in Private)
  <1>1. /\ wall \in Nat /\ Lifetime[m] \in Nat
        /\ out \in [Mote -> OutboundEntry]
        /\ pc \in [Node -> {"idle", "sent", "poll", "retry", "deadlines"}]
    BY DeliveryAssumption DEF TypeOK, RestOK
  <1>2. e \in OutboundEntry /\ e.st = "Queued" /\ e.late = FALSE /\ e.termAt = Never
    <2>1. (m \in Private) \in BOOLEAN
      OBVIOUS
    <2>2. QED
      BY <1>1, <2>1, EnqueueType
  <1>3. /\ n \in up /\ UNCHANGED up /\ pc[n] = "idle" /\ Src[m] = n /\ m \notin sent
        /\ sent' = sent \cup {m} /\ pc' = [pc EXCEPT ![n] = "sent"] /\ UNCHANGED diskVars
        /\ out' = [out EXCEPT ![m] = Dispatched(e, Reaches(WireDest(m, e)))]
    BY DEF Send
  <1> HIDE DEF e
  <1>4. Reaches(WireDest(m, e)) \in BOOLEAN
    BY DEF Reaches
  <1>5. out'[m].st \in {"InFlight", "Retry"} /\ out'[m].termAt = Never
    BY <1>1, <1>2, <1>3, <1>4, DispatchedType
  <1>6. ASSUME NEW k \in Mine(n)
        PROVE  QueueEntry(k)'
    <2>1. k \in Mote /\ Src[k] = n /\ QueueEntry(k)
      BY DEF QueueInv, Mine
    <2>2. CASE k = m
      BY <1>1, <1>3, <1>5, <2>1, <2>2 DEF QueueEntry, Unstamped, diskVars
    <2>3. CASE k # m
      BY <1>1, <1>3, <2>1, <2>3 DEF QueueEntry, diskVars
    <2>4. QED
      BY <2>2, <2>3
  <1>7. QED
    BY <1>1, <1>3, <1>6, QueueUnsaved

LEMMA QueuePollFrame ==
    ASSUME TypeOK, QueueInv, NEW n \in Node, PollFrame(n)
    PROVE  QueueInv'
  <1>0. /\ n \in up /\ pc[n] = "poll" /\ UNCHANGED <<up, pc, sent>> /\ UNCHANGED diskVars
        /\ out \in [Mote -> OutboundEntry] /\ batch \in [Node -> SUBSET Frame]
    BY DEF PollFrame, TypeOK, RestOK
  <1>1. PICK f \in batch[n] : ReceiveAck(n, f) \/ ReceiveMote(n, f)
    BY DEF PollFrame
  <1>2. CASE UNCHANGED out
    <2>1. \A k \in Mine(n) : QueueEntry(k)'
      BY <1>0, <1>2 DEF QueueInv, QueueEntry, Mine, diskVars
    <2>2. QED
      BY <1>0, <1>2, <2>1, QueueUnsaved
  <1>3. CASE ReceiveAck(n, f) /\ Honours(n, f)
    <2> DEFINE m == f.id
    <2> DEFINE r == Apply(out[m], IF out[m].st = "Expired" THEN "LateAck" ELSE "AckReceived")
    <2>1. m \in Mote /\ out[m] \in OutboundEntry /\ Src[m] = n
      BY <1>0, <1>3 DEF Frame, Honours
    <2>2. out' = [out EXCEPT ![m] = r]
      BY <1>3 DEF ReceiveAck
    <2>3. QueueEntry(m)
      BY <2>1 DEF QueueInv
    <2>4. /\ Fate(r) = Fate(out[m]) \/ (Fate(out[m]) = "pending" /\ Fate(r) = "acked")
          /\ r.st = "none" <=> out[m].st = "none"
          /\ Unstamped(r)
      BY <2>1, <2>3, AckFate DEF QueueEntry
    <2> HIDE DEF r
    <2> HIDE DEF m
    <2>5. out'[m] = r
      BY <1>0, <2>1, <2>2
    <2>6. QueueEntry(m)'
      BY <1>0, <2>1, <2>3, <2>4, <2>5 DEF QueueEntry, diskVars
    <2>7. \A k \in Mote \ {m} : QueueEntry(k)'
      BY <1>0, <2>2 DEF QueueInv, QueueEntry, diskVars
    <2>8. QED
      BY <1>0, <2>6, <2>7 DEF QueueInv, diskVars
  <1>4. QED
    BY <1>1, <1>2, <1>3 DEF ReceiveAck, ReceiveMote

LEMMA QueueRetryEntry ==
    ASSUME TypeOK, TodoInv, QueueInv, NEW n \in Node, RetryEntry(n)
    PROVE  QueueInv'
  <1>0. /\ n \in up /\ pc[n] = "retry" /\ UNCHANGED <<up, pc, sent>> /\ UNCHANGED diskVars
        /\ out \in [Mote -> OutboundEntry]
    BY DEF RetryEntry, TypeOK, RestOK
  <1>1. PICK m \in todo[n] : out' = [out EXCEPT ![m] =
             IF Reaches(WireDest(m, Apply(out[m], "RetryTimerFires")))
             THEN Apply(out[m], "RetryTimerFires")
             ELSE Apply(Apply(out[m], "RetryTimerFires"), "TierUnreachable")]
    BY DEF RetryEntry
  <1> DEFINE ok == Reaches(WireDest(m, Apply(out[m], "RetryTimerFires")))
  <1> DEFINE r == IF ok THEN Apply(out[m], "RetryTimerFires")
                        ELSE Apply(Apply(out[m], "RetryTimerFires"), "TierUnreachable")
  <1>2. m \in Mote /\ Src[m] = n /\ out[m] \in OutboundEntry /\ QueueEntry(m)
    BY <1>0 DEF TodoInv, Mine, QueueInv
  <1>3. out' = [out EXCEPT ![m] = r]
    BY <1>1
  <1>4. ok \in BOOLEAN
    BY DEF Reaches
  <1> HIDE DEF ok
  <1>5. Fate(r) = Fate(out[m]) /\ (r.st = "none" <=> out[m].st = "none") /\ Unstamped(r)
    BY <1>2, <1>4, RetryFate DEF QueueEntry
  <1> HIDE DEF r
  <1>6. out'[m] = r
    BY <1>0, <1>2, <1>3
  <1>7. QueueEntry(m)'
    BY <1>0, <1>2, <1>5, <1>6 DEF QueueEntry, diskVars
  <1>8. \A k \in Mote \ {m} : QueueEntry(k)'
    BY <1>0, <1>3 DEF QueueInv, QueueEntry, diskVars
  <1>9. QED
    BY <1>0, <1>7, <1>8 DEF QueueInv, diskVars

\* At the end of a tick the journal was current, so one write covers all.
LEMMA QueueTickDeadlines ==
    ASSUME TypeOK, TypeOK', QueueInv, MaxSaveFail = 0, NEW n \in Node, TickDeadlines(n)
    PROVE  QueueInv'
  <1>0. /\ n \in up /\ pc[n] = "deadlines" /\ UNCHANGED <<up, sent>>
        /\ pc' = [pc EXCEPT ![n] = "idle"]
        /\ \A m \in Mote : out'[m] = IF Src[m] = n THEN Collected(Expire(out[m], clk[n]), clk[n])
                                                   ELSE out[m]
        /\ IF Owes(n) THEN Save(n) ELSE UNCHANGED diskVars
        /\ out \in [Mote -> OutboundEntry] /\ clk[n] \in Nat
        /\ pc \in [Node -> {"idle", "sent", "poll", "retry", "deadlines"}]
    BY DEF TickDeadlines, netVars, history, TypeOK, RestOK
  <1>1. \A m \in Mine(n) : QueueEntry(m)
    BY DEF QueueInv, Mine
  <1>2. CASE Owes(n)
    <2>1. \A m \in Mine(n) : (out'[m].st # "none" => m \in sent) /\ Unstamped(out'[m])
      <3> SUFFICES ASSUME NEW m \in Mine(n)
                   PROVE  (out'[m].st # "none" => m \in sent) /\ Unstamped(out'[m])
        OBVIOUS
      <3>1. m \in Mote /\ Src[m] = n /\ out[m] \in OutboundEntry
        BY <1>0 DEF Mine
      <3>2. Unstamped(out[m]) /\ (out[m].st # "none" => m \in sent)
        BY <1>1 DEF QueueEntry
      <3>3. out'[m] = Collected(Expire(out[m], clk[n]), clk[n])
        BY <1>0, <3>1
      <3>4. QED
        BY <1>0, <3>1, <3>2, <3>3, TickFate
    <2>2. QED
      BY <1>0, <1>2, <2>1, QueueSaved
  <1>3. CASE ~Owes(n)
    <2>1. \A m \in Mine(n) : out'[m] = out[m]
      BY <1>0, <1>3 DEF Owes, Mine
    <2>2. \A m \in Mine(n) : QueueEntry(m)'
      BY <1>0, <1>1, <1>3, <2>1 DEF QueueEntry, Mine, diskVars
    <2>3. QED
      BY <1>0, <1>3, <2>2, QueueUnsaved
  <1>4. QED
    BY <1>2, <1>3

\* A poll that changed nothing durable writes nothing: the journal was current.
LEMMA QueuePollEnd ==
    ASSUME TypeOK, TypeOK', CurrentInv, QueueInv, MaxSaveFail = 0, NEW n \in Node, PollEnd(n)
    PROVE  QueueInv'
  <1>0. /\ n \in up /\ pc[n] = "poll" /\ UNCHANGED <<up, out, sent>>
        /\ pc' = [pc EXCEPT ![n] = "retry"]
        /\ IF dirty[n] THEN Save(n) ELSE UNCHANGED diskVars
        /\ out \in [Mote -> OutboundEntry]
        /\ pc \in [Node -> {"idle", "sent", "poll", "retry", "deadlines"}]
    BY DEF PollEnd, netVars, history, TypeOK, RestOK
  <1>1. \A m \in Mine(n) : QueueEntry(m)
    BY DEF QueueInv, Mine
  <1>2. CASE dirty[n]
    BY <1>0, <1>1, <1>2, QueueSaved DEF QueueEntry
  <1>3. CASE ~dirty[n]
    <2>1. OutCurrent(n)
      BY <1>0, <1>3 DEF CurrentInv, Clean, QueueInv
    <2>2. \A m \in Mine(n) : Fate(jout[m]) = Fate(out[m])
      BY <1>0, <2>1, PersistedFate DEF OutCurrent, Mine
    <2>3. \A m \in Mine(n) : QueueEntry(m)'
      BY <1>0, <1>1, <1>3, <2>2 DEF QueueEntry, Mine, diskVars
    <2>4. QED
      BY <1>0, <1>3, <2>3, QueueUnsaved
  <1>4. QED
    BY <1>2, <1>3

LEMMA QueueNodeStep ==
    ASSUME TypeOK, TypeOK', TodoInv, CurrentInv, QueueInv, MaxSaveFail = 0,
           NEW n \in Node, NodeStep(n)
    PROVE  QueueInv'
  <1>0. /\ pc \in [Node -> {"idle", "sent", "poll", "retry", "deadlines"}]
        /\ \A m \in Mine(n) : QueueEntry(m) /\ m \in Mote /\ Src[m] = n
    BY DEF QueueInv, Mine, TypeOK, RestOK
  <1>1. CASE SendCheckpoint(n) \/ RetryEnd(n)
    <2>1. UNCHANGED <<up, out, sent>> /\ Save(n) /\ \A k \in Node \ {n} : pc'[k] = pc[k]
      BY <1>0, <1>1 DEF SendCheckpoint, RetryEnd, netVars, history
    <2>2. QED
      BY <1>0, <2>1, QueueSaved DEF QueueEntry
  <1>2. CASE Tick(n)
    <2>1. /\ n \in up /\ pc[n] = "idle" /\ UNCHANGED <<up, out, sent>> /\ UNCHANGED diskVars
          /\ pc' = [pc EXCEPT ![n] = "poll"]
      BY <1>2 DEF Tick, history
    <2>2. \A m \in Mine(n) : QueueEntry(m)'
      BY <1>0, <2>1 DEF QueueEntry, diskVars
    <2>3. QED
      BY <1>0, <2>1, <2>2, QueueUnsaved
  <1>3. CASE PollFrame(n)
    BY <1>3, QueuePollFrame
  <1>4. CASE PollEnd(n)
    BY <1>4, QueuePollEnd
  <1>5. CASE RetryEntry(n)
    BY <1>5, QueueRetryEntry
  <1>6. CASE TickDeadlines(n)
    BY <1>6, QueueTickDeadlines
  <1>7. QED
    BY <1>1, <1>2, <1>3, <1>4, <1>5, <1>6 DEF NodeStep

LEMMA QueueClientStep ==
    ASSUME TypeOK, TypeOK', QueueInv, MaxSaveFail = 0, NEW n \in Node, ClientStep(n)
    PROVE  QueueInv'
  <1>1. ASSUME NEW m \in Mote, Send(n, m)
        PROVE  QueueInv'
    BY <1>1, QueueSend
  <1>2. CASE TakeEphemeral(n) \/ \E a \in Pins \ {n} : AddContact(n, a)
    <2>1. UNCHANGED <<pc, up, out, sent>> /\ UNCHANGED diskVars
      BY <1>2 DEF TakeEphemeral, AddContact, netVars, history
    <2>2. QED
      BY <2>1 DEF QueueInv, QueueEntry, diskVars
  <1>3. ASSUME NEW c \in (Pins \cap Node) \ {n}, NEW s \in Floors, PinSuiteFloor(n, c, s)
        PROVE  QueueInv'
    <2>1. UNCHANGED <<pc, up, out, sent>> /\ Save(n)
      BY <1>3 DEF PinSuiteFloor, netVars, history
    <2>2. QED
      BY <2>1, QueueSaved DEF QueueInv, QueueEntry, Mine
  <1>4. QED
    BY <1>1, <1>2, <1>3 DEF ClientStep

LEMMA QueueRestart ==
    ASSUME TypeOK, QueueInv, NEW n \in Node, Restart(n)
    PROVE  QueueInv'
  <1>1. /\ up' = up \cup {n} /\ UNCHANGED diskVars /\ UNCHANGED sent
        /\ pc' = [pc EXCEPT ![n] = "idle"]
        /\ out' = [m \in Mote |-> IF Src[m] = n THEN jout[m] ELSE out[m]]
        /\ pc \in [Node -> {"idle", "sent", "poll", "retry", "deadlines"}]
    BY DEF Restart, history, TypeOK, RestOK
  <1>2. ASSUME NEW m \in Mine(n)
        PROVE  QueueEntry(m)'
    <2>1. m \in Mote /\ Src[m] = n /\ QueueEntry(m) /\ out'[m] = jout[m]
      BY <1>1 DEF Mine, QueueInv
    <2>2. QED
      BY <1>1, <2>1 DEF QueueEntry, diskVars
  <1>3. QED
    BY <1>1, <1>2, QueueUnsaved

LEMMA QueueStep ==
    ASSUME TypeOK, TypeOK', TodoInv, CurrentInv, QueueInv, MaxSaveFail = 0, [Next]_vars
    PROVE  QueueInv'
  <1>1. ASSUME NEW n \in Node, NodeStep(n) \/ ClientStep(n)
        PROVE  QueueInv'
    BY <1>1, QueueNodeStep, QueueClientStep
  <1>2. ASSUME UNCHANGED <<pc, out, sent>>, UNCHANGED diskVars, up' \subseteq up
        PROVE  QueueInv'
    BY <1>2 DEF QueueInv, QueueEntry, diskVars
  <1>3. CASE Environment
    <2>1. ASSUME NEW n \in Node, Shutdown(n)
          PROVE  QueueInv'
      <3>1. UNCHANGED <<pc, out, sent>> /\ Save(n) /\ up' \subseteq up
        BY <2>1 DEF Shutdown, nodeVars, history
      <3>2. QED
        BY <3>1, QueueSaved DEF QueueInv, QueueEntry, Mine
    <2>2. ASSUME NEW n \in Node, Restart(n)
          PROVE  QueueInv'
      BY <2>2, QueueRestart
    <2>3. CASE (\E n \in Node : Crash(n) \/ LoseFrame(n)) \/ TimePasses
               \/ (\E a \in Flaky : LinkDown(a) \/ LinkUp(a))
               \/ (\E m \in Mote, a \in Addr : Redeliver(m, a) \/ MisroutedAck(m, a))
      BY <1>2, <2>3 DEF Crash, LoseFrame, LinkDown, LinkUp, TimePasses, Redeliver,
         MisroutedAck, nodeVars, history
    <2>4. QED
      BY <1>3, <2>1, <2>2, <2>3 DEF Environment
  <1>4. CASE UNCHANGED vars
    BY <1>2, <1>4 DEF vars, nodeVars, netVars, history
  <1>5. QED
    BY <1>1, <1>3, <1>4 DEF Next

LEMMA QueueInit == Init => QueueInv
  <1> SUFFICES ASSUME Init PROVE QueueInv
    OBVIOUS
  <1>1. NoEntry.st = "none" /\ NoEntry.termAt = Never
    BY DEF NoEntry
  <1>2. saveFails = 0 /\ journalled = {} /\ \A m \in Mote : out[m] = NoEntry /\ jout[m] = NoEntry
    BY DEF Init
  <1>3. QED
    BY <1>1, <1>2 DEF QueueInv, QueueEntry, Unstamped

-----------------------------------------------------------------------------
(* QueueIsDurable: every step is a step of DurableQueue, or a stutter.     *)

LEMMA StatusIsFate ==
    \A m \in Mote : DurableStatus(m) = IF m \in journalled THEN Fate(jout[m]) ELSE "unsent"
  BY DEF DurableStatus, Fate

LEMMA FateStatus == \A e : Fate(e) \in Abstract!Status
  BY DEF Fate, Abstract!Status

\* One write is one Commit: each of n's MOTEs moves by at most one step, is
\* confirmed only if it was delivered, and a call that returns is covered.
LEMMA SaveIsCommit ==
    ASSUME TypeOK, TypeOK', QueueInv, MaxSaveFail = 0, NEW n \in Node, Save(n),
           UNCHANGED delivered,
           tracked \subseteq tracked',
           \A m \in tracked' \ tracked : m \in Mine(n) /\ out'[m].st # "none",
           \A m \in Mine(n) : m \in journalled =>
              \/ Fate(out'[m]) = Fate(jout[m])
              \/ /\ <<Fate(jout[m]), Fate(out'[m])>> \in Abstract!Forward
                 /\ Fate(out'[m]) = "acked" => m \in delivered,
           \A m \in Mine(n) : m \notin journalled =>
              out'[m].st = "none" \/ Fate(out'[m]) = "pending"
    PROVE  Abstract!Commit
  <1>1. /\ \A m \in Mine(n) : jout'[m] = PersistedEntry(out'[m])
        /\ journalled' = journalled \cup {m \in Mine(n) : out'[m].st # "none"}
        /\ \A m \in Mote : Src[m] # n => jout'[m] = jout[m]
    BY DEF Save, TypeOK, Mine
  <1>2. \A m \in Mote : DurableStatus(m)' = IF m \in journalled' THEN Fate(jout'[m]) ELSE "unsent"
    BY DEF DurableStatus, Fate
  <1>3. ASSUME NEW m \in Mote
        PROVE  \/ DurableStatus(m)' = DurableStatus(m)
               \/ /\ <<DurableStatus(m), DurableStatus(m)'>> \in Abstract!Forward
                  /\ DurableStatus(m)' = "acked" => m \in delivered
    <2>1. CASE Src[m] # n
      BY <1>1, <1>2, <2>1, StatusIsFate DEF Mine
    <2>2. CASE Src[m] = n
      <3>1. m \in Mine(n) /\ Fate(jout'[m]) = Fate(out'[m])
        BY <1>1, <2>2, PersistedFate DEF Mine, TypeOK, RestOK
      <3>2. CASE m \in journalled
        BY <1>1, <1>2, <3>1, <3>2, StatusIsFate
      <3>3. CASE m \notin journalled /\ out'[m].st = "none"
        BY <1>1, <1>2, <3>1, <3>3, StatusIsFate
      <3>4. CASE m \notin journalled /\ out'[m].st # "none"
        <4>1. DurableStatus(m) = "unsent" /\ DurableStatus(m)' = "pending"
          BY <1>1, <1>2, <3>1, <3>4, StatusIsFate
        <4>2. QED
          BY <4>1 DEF Abstract!Forward
      <3>5. QED
        BY <3>2, <3>3, <3>4
    <2>3. QED
      BY <2>1, <2>2
  <1>4. \A m \in Mote : DurableStatus(m)' \in Abstract!Status
    BY <1>2, FateStatus DEF Abstract!Status
  <1>5. \A m \in tracked' : m \in tracked \/ (m \in Mote /\ DurableStatus(m)' # "unsent")
    <2> SUFFICES ASSUME NEW m \in tracked' \ tracked
                 PROVE  m \in Mote /\ DurableStatus(m)' # "unsent"
      OBVIOUS
    <2>1. m \in Mote /\ m \in journalled'
      BY <1>1 DEF Mine
    <2>2. QED
      BY <1>2, <2>1 DEF Fate
  <1>6. QED
    BY <1>3, <1>4, <1>5 DEF Abstract!Commit

\* The writes that follow a change of the queue made earlier.
LEMMA QuietSaveIsCommit ==
    ASSUME TypeOK, TypeOK', AckInv, QueueInv, MaxSaveFail = 0, NEW n \in Node, n \in up, Save(n),
           UNCHANGED <<out, delivered>>,
           tracked' = tracked \/ tracked' = tracked \cup {m \in Mine(n) : out[m].st # "none"}
    PROVE  Abstract!Commit
  <1>1. ASSUME NEW m \in Mine(n), m \in journalled
        PROVE  \/ Fate(out'[m]) = Fate(jout[m])
               \/ /\ <<Fate(jout[m]), Fate(out'[m])>> \in Abstract!Forward
                  /\ Fate(out'[m]) = "acked" => m \in delivered
    <2>1. m \in Mote /\ Src[m] = n /\ QueueEntry(m)
      BY DEF Mine, QueueInv
    <2>2. CASE Fate(jout[m]) = "pending" /\ Fate(out[m]) = "acked"
      <3>1. m \in delivered
        BY <2>1, <2>2 DEF Fate, AckInv, AckedImpliesDelivered, Reported
      <3>2. QED
        BY <2>2, <3>1 DEF Abstract!Forward
    <2>3. QED
      BY <1>1, <2>1, <2>2 DEF QueueEntry
  <1>2. ASSUME NEW m \in Mine(n), m \notin journalled
        PROVE  out'[m].st = "none" \/ Fate(out'[m]) = "pending"
    BY <1>2 DEF QueueInv, QueueEntry, Mine, Fate
  <1>3. QED
    BY <1>1, <1>2, SaveIsCommit

LEMMA TickIsCommit ==
    ASSUME TypeOK, TypeOK', QueueInv, MaxSaveFail = 0, NEW n \in Node, TickDeadlines(n), Save(n)
    PROVE  Abstract!Commit
  <1>0. /\ n \in up /\ pc[n] = "deadlines" /\ UNCHANGED <<delivered, tracked>>
        /\ \A m \in Mine(n) : out'[m] = Collected(Expire(out[m], clk[n]), clk[n])
        /\ clk[n] \in Nat /\ \A m \in Mote : out[m] \in OutboundEntry
    BY DEF TickDeadlines, history, TypeOK, RestOK, Mine
  <1>1. ASSUME NEW m \in Mine(n)
        PROVE  /\ QueueEntry(m) /\ Src[m] = n
               /\ \/ Fate(out'[m]) = Fate(out[m])
                  \/ Fate(out[m]) = "pending" /\ Fate(out'[m]) = "expired"
                  \/ Fate(out[m]) \in {"acked", "expired"} /\ Fate(out'[m]) = "collected"
               /\ out'[m].st # "none" => out[m].st # "none"
    <2>1. m \in Mote /\ QueueEntry(m) /\ Src[m] = n
      BY DEF QueueInv, Mine
    <2>2. QED
      BY <1>0, <2>1, TickFate DEF QueueEntry
  <1>2. \A m \in Mine(n) : m \in journalled =>
           \/ Fate(out'[m]) = Fate(jout[m])
           \/ /\ <<Fate(jout[m]), Fate(out'[m])>> \in Abstract!Forward
              /\ Fate(out'[m]) = "acked" => m \in delivered
    BY <1>0, <1>1 DEF QueueEntry, Abstract!Forward
  <1>3. \A m \in Mine(n) : m \notin journalled => out'[m].st = "none" \/ Fate(out'[m]) = "pending"
    BY <1>0, <1>1 DEF QueueEntry
  <1>4. QED
    BY <1>0, <1>2, <1>3, SaveIsCommit

Status == [m \in Mote |-> DurableStatus(m)]

LEMMA StatusUnchanged ==
    ASSUME UNCHANGED diskVars
    PROVE  UNCHANGED Status
  BY DEF diskVars, Status, DurableStatus

\* A received frame delivers one MOTE, or nothing that DurableQueue sees.
LEMMA PollIsDeliver ==
    ASSUME TypeOK, NEW n \in Node, PollFrame(n)
    PROVE  Abstract!Next \/ UNCHANGED <<Status, delivered, tracked>>
  <1>0. UNCHANGED Status /\ UNCHANGED tracked /\ batch \in [Node -> SUBSET Frame]
    BY StatusUnchanged DEF PollFrame, TypeOK, RestOK
  <1>1. PICK f \in batch[n] : ReceiveAck(n, f) \/ ReceiveMote(n, f)
    BY DEF PollFrame
  <1>2. f.id \in Mote
    BY <1>0 DEF Frame
  <1>3. UNCHANGED delivered \/ delivered' = delivered \cup {f.id}
    BY <1>1 DEF ReceiveAck, ReceiveMote, Duplicate, Deferred, StorageDenied, Dropped, Accept
  <1>4. CASE delivered' = delivered \cup {f.id}
    <2>1. Abstract!Deliver(f.id)
      BY <1>0, <1>4 DEF Abstract!Deliver, Status
    <2>2. QED
      BY <1>2, <2>1 DEF Abstract!Next
  <1>5. QED
    BY <1>0, <1>3, <1>4

LEMMA RefinementStep ==
    ASSUME TypeOK, TypeOK', AckInv, QueueInv, MaxSaveFail = 0, [Next]_vars
    PROVE  Abstract!Next \/ UNCHANGED <<Status, delivered, tracked>>
  <1>1. ASSUME UNCHANGED diskVars, UNCHANGED <<delivered, tracked>>
        PROVE  UNCHANGED <<Status, delivered, tracked>>
    BY <1>1, StatusUnchanged
  <1>2. ASSUME NEW n \in Node, n \in up, Save(n), UNCHANGED <<out, delivered, tracked>>
        PROVE  Abstract!Next
    BY <1>2, QuietSaveIsCommit DEF Abstract!Next
  <1>3. ASSUME NEW n \in Node, NodeStep(n)
        PROVE  Abstract!Next \/ UNCHANGED <<Status, delivered, tracked>>
    <2>1. CASE SendCheckpoint(n)
      BY <2>1, QuietSaveIsCommit DEF SendCheckpoint, Abstract!Next
    <2>2. CASE Tick(n) \/ RetryEntry(n)
      BY <1>1, <2>2 DEF Tick, RetryEntry, history
    <2>3. CASE PollFrame(n)
      BY <2>3, PollIsDeliver
    <2>4. CASE PollEnd(n) \/ RetryEnd(n)
      <3>1. n \in up /\ UNCHANGED <<out, delivered, tracked>> /\ (Save(n) \/ UNCHANGED diskVars)
        BY <2>4 DEF PollEnd, RetryEnd, history
      <3>2. QED
        BY <1>1, <1>2, <3>1
    <2>5. CASE TickDeadlines(n)
      <3>1. UNCHANGED <<delivered, tracked>> /\ (Save(n) \/ UNCHANGED diskVars)
        BY <2>5 DEF TickDeadlines, history
      <3>2. QED
        BY <1>1, <2>5, <3>1, TickIsCommit DEF Abstract!Next
    <2>6. QED
      BY <1>3, <2>1, <2>2, <2>3, <2>4, <2>5 DEF NodeStep
  <1>4. ASSUME NEW n \in Node, ClientStep(n)
        PROVE  Abstract!Next \/ UNCHANGED <<Status, delivered, tracked>>
    <2>1. n \in up /\ UNCHANGED <<delivered, tracked>>
          /\ (UNCHANGED diskVars \/ (Save(n) /\ UNCHANGED out))
      BY <1>4 DEF ClientStep, Send, AddContact, PinSuiteFloor, TakeEphemeral, history
    <2>2. QED
      BY <1>1, <1>2, <2>1
  <1>5. CASE Environment
    <2>1. ASSUME NEW n \in Node, Shutdown(n)
          PROVE  Abstract!Next
      BY <1>2, <2>1 DEF Shutdown, nodeVars, history
    <2>2. CASE (\E n \in Node : Crash(n) \/ Restart(n) \/ LoseFrame(n)) \/ TimePasses
               \/ (\E a \in Flaky : LinkDown(a) \/ LinkUp(a))
               \/ (\E m \in Mote, a \in Addr : Redeliver(m, a) \/ MisroutedAck(m, a))
      BY <1>1, <2>2 DEF Crash, Restart, LoseFrame, LinkDown, LinkUp, TimePasses, Redeliver,
         MisroutedAck, history
    <2>3. QED
      BY <1>5, <2>1, <2>2 DEF Environment
  <1>6. CASE UNCHANGED vars
    BY <1>1, <1>6 DEF vars, history
  <1>7. QED
    BY <1>3, <1>4, <1>5, <1>6 DEF Next

\* Seen through the journal the node implements DurableQueue, while journal
\* writes succeed: a MOTE whose send call returned is on disk until it has
\* settled, settles once, and never comes back once collected, through every
\* crash and restart.
THEOREM QueueOutlivesCrashes ==
    ASSUME MaxSaveFail = 0
    PROVE  Spec => QueueIsDurable
  <1>1. Spec => []QueueInv
    <2>1. TypeOK /\ TypeOK' /\ TodoInv /\ CurrentInv /\ QueueInv /\ [Next]_vars => QueueInv'
      BY QueueStep
    <2>2. QED
      BY <2>1, QueueInit, TypeCorrect, TodoCorrect, CurrentCorrect, PTL DEF Spec
  <1>2. Spec => []AckInv
    BY AckInit, AckStep, TypeCorrect, PTL DEF Spec
  <1>3. Init => Abstract!Init
    <2> SUFFICES ASSUME Init PROVE Abstract!Init
      OBVIOUS
    <2>1. \A m \in Mote : DurableStatus(m) = "unsent"
      BY DEF Init, DurableStatus
    <2>2. QED
      BY <2>1 DEF Init, Abstract!Init
  <1>4. TypeOK /\ TypeOK' /\ AckInv /\ QueueInv /\ [Next]_vars
          => [Abstract!Next]_<<Status, delivered, tracked>>
    BY RefinementStep
  <1>5. QED
    BY <1>1, <1>2, <1>3, <1>4, TypeCorrect, PTL DEF Spec, QueueIsDurable, Abstract!Spec, Status
=============================================================================
