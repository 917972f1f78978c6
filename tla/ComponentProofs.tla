-------------------------- MODULE ComponentProofs ---------------------------
(***************************************************************************)
(* Proofs about parts that stand beside the delivery engine, each taken as *)
(* an instance with the variables it has in its own module.                *)
(***************************************************************************)
EXTENDS Integers, Sequences, FiniteSets, Functions, Induction, FiniteSetTheorems,
        SequenceTheorems, TLAPS

-----------------------------------------------------------------------------
(* The mesh transport: routes, Kademlia calls, what frames may fill.       *)

CONSTANTS Addr, Caller, MaxInbox, MaxAuto, MaxSeq, MaxCalls
VARIABLES peers, inbox, tracker, marks, adopting, calls, commands, pending

Routes == INSTANCE Mesh

\* What the route book holds for an address, and what a caller may be adopting.
Peer == {Routes!NoPeer, Routes!Inbound, Routes!Explicit} \union {Routes!Located(s) : s \in Nat}
Adopting == {Routes!Idle} \union [addr : Addr, seq : Nat]

RouteTypes ==
    /\ peers \in [Addr -> Peer]
    /\ tracker \in [Addr -> Nat] /\ marks \in [Addr -> Nat]
    /\ adopting \in [Caller -> Adopting]

\* No stored mark is above the tracker's; the record a caller was let through with is the
\* newest, and only its address may still have an older route.
RouteInv ==
    /\ \A a \in Addr : marks[a] <= tracker[a]
    /\ \A c \in Caller : adopting[c] # Routes!Idle => adopting[c].seq = tracker[adopting[c].addr]
    /\ \A a \in Addr : peers[a].from = "location" =>
         \/ peers[a].seq = tracker[a]
         \/ \E c \in Caller : adopting[c] # Routes!Idle /\ adopting[c].addr = a

CallRec == [state : {"waiting", "answered", "timeout"}, replies : Nat]

\* A call the swarm task has in hand is in one place only and has had no reply.
CallInv ==
    /\ calls \in Seq(CallRec)
    /\ commands \union pending \subseteq DOMAIN calls
    /\ commands \intersect pending = {}
    /\ \A n \in commands \union pending : calls[n].replies = 0
    /\ \A n \in DOMAIN calls : calls[n].replies <= 1
    /\ \A n \in DOMAIN calls : calls[n].state = "waiting" => n \in commands \union pending

\* The book is finite; while frames alone filled it, it is no larger than they may make it.
BookInv ==
    /\ inbox \in Seq(Addr) /\ Len(inbox) <= MaxInbox
    /\ IsFiniteSet(Routes!Known)
    /\ (\A a \in Routes!Known : peers[a] = Routes!Inbound) => Cardinality(Routes!Known) <= MaxAuto

MeshInv == RouteTypes /\ RouteInv /\ CallInv /\ BookInv

-----------------------------------------------------------------------------
LEMMA PeersDiffer ==
    /\ Routes!NoPeer # Routes!Inbound /\ Routes!NoPeer # Routes!Explicit
    /\ Routes!Explicit # Routes!Inbound
    /\ \A s : Routes!Located(s) # Routes!NoPeer /\ Routes!Located(s) # Routes!Inbound
              /\ Routes!Located(s).from = "location" /\ Routes!Located(s).seq = s
    /\ Routes!NoPeer.from # "location" /\ Routes!Inbound.from # "location"
    /\ Routes!Explicit.from # "location"
BY DEF Routes!NoPeer, Routes!Inbound, Routes!Explicit, Routes!Located

LEMMA SameCardinality == \A S : Routes!Cardinality(S) = Cardinality(S)
  BY DEF Routes!Cardinality, Cardinality

LEMMA MeshStarts == ASSUME Routes!MeshAssumption PROVE Routes!Init => MeshInv
  <1> SUFFICES ASSUME Routes!Init PROVE MeshInv
    OBVIOUS
  <1> USE DEF Routes!Init
  <1>1. RouteTypes
    BY DEF RouteTypes, Peer, Adopting
  <1>2. RouteInv
    BY PeersDiffer DEF RouteInv
  <1>3. CallInv
    BY DEF CallInv
  <1>4. Routes!Known = {}
    BY DEF Routes!Known
  <1>5. BookInv
    BY <1>4, FS_EmptySet DEF BookInv, Routes!MeshAssumption
  <1> QED
    BY <1>1, <1>2, <1>3, <1>5 DEF MeshInv

\* A step that leaves the routes, the calls or the book alone keeps their part.
LEMMA RoutesKept ==
    ASSUME RouteTypes, RouteInv, UNCHANGED <<peers, tracker, marks, adopting>>
    PROVE  RouteTypes' /\ RouteInv'
  BY DEF RouteTypes, RouteInv

LEMMA CallsKept ==
    ASSUME CallInv, UNCHANGED <<calls, commands, pending>>
    PROVE  CallInv'
  BY DEF CallInv

LEMMA BookKept ==
    ASSUME BookInv, UNCHANGED <<peers, inbox>>
    PROVE  BookInv'
  BY DEF BookInv, Routes!Known

\* One address more in the book.
LEMMA KnownGrows ==
    ASSUME NEW a \in Addr, RouteTypes, IsFiniteSet(Routes!Known), NEW p, p # Routes!NoPeer,
           peers' = [peers EXCEPT ![a] = p]
    PROVE  /\ Routes!Known' = Routes!Known \union {a}
           /\ IsFiniteSet(Routes!Known')
           /\ Cardinality(Routes!Known) \in Nat
           /\ a \notin Routes!Known => Cardinality(Routes!Known') = Cardinality(Routes!Known) + 1
  <1>1. Routes!Known' = Routes!Known \union {a}
    BY DEF Routes!Known, RouteTypes
  <1>2. QED
    BY <1>1, FS_AddElement, FS_CardinalityType

LEMMA FrameArrives ==
    ASSUME Routes!MeshAssumption, MeshInv, NEW a \in Addr, Routes!EnqueueInbound(a)
    PROVE  MeshInv'
  <1>1. RouteTypes /\ RouteInv /\ CallInv /\ BookInv
    BY DEF MeshInv
  <1>2. CallInv'
    BY <1>1, CallsKept DEF Routes!EnqueueInbound
  <1>3. inbox' \in Seq(Addr) /\ Len(inbox') <= MaxInbox
    <2>1. inbox \in Seq(Addr) /\ Len(inbox) <= MaxInbox
      BY <1>1 DEF BookInv
    <2>2. MaxInbox \in Nat
      BY DEF Routes!MeshAssumption
    <2>3. CASE Len(inbox) < MaxInbox
      <3>1. inbox' = Append(inbox, a)
        BY <2>3 DEF Routes!EnqueueInbound
      <3>2. inbox' \in Seq(Addr) /\ Len(inbox') = Len(inbox) + 1
        BY <3>1, <2>1, AppendProperties
      <3>3. QED
        BY <3>2, <2>1, <2>2, <2>3, LenProperties
    <2>4. CASE ~(Len(inbox) < MaxInbox)
      BY <2>1, <2>4 DEF Routes!EnqueueInbound
    <2>5. QED
      BY <2>3, <2>4
  <1>4. CASE UNCHANGED peers
    <2>1. RouteTypes' /\ RouteInv'
      BY <1>1, <1>4, RoutesKept DEF Routes!EnqueueInbound
    <2>2. BookInv'
      BY <1>1, <1>3, <1>4 DEF BookInv, Routes!Known
    <2>3. QED
      BY <1>2, <2>1, <2>2 DEF MeshInv
  <1>5. CASE peers' # peers
    <2>1. /\ a \notin Routes!Known /\ Cardinality(Routes!Known) < MaxAuto
          /\ peers' = [peers EXCEPT ![a] = Routes!Inbound]
      <3>1. Routes!MayLearn(a) /\ peers' = [peers EXCEPT ![a] = Routes!Refreshed(a)]
        BY <1>5 DEF Routes!EnqueueInbound
      <3>2. peers[a] = Routes!NoPeer
        BY <1>1, <1>5, <3>1 DEF Routes!Refreshed, RouteTypes
      <3>3. QED
        BY <3>1, <3>2, SameCardinality DEF Routes!Refreshed, Routes!MayLearn, Routes!Known
    <2>2. RouteTypes'
      BY <1>1, <2>1 DEF RouteTypes, Routes!EnqueueInbound, Peer
    <2>3. RouteInv'
      BY <1>1, <2>1, PeersDiffer DEF RouteTypes, RouteInv, Routes!EnqueueInbound
    <2>4. /\ IsFiniteSet(Routes!Known') /\ Cardinality(Routes!Known) \in Nat
          /\ Cardinality(Routes!Known') = Cardinality(Routes!Known) + 1
      BY <1>1, <2>1, PeersDiffer, KnownGrows DEF BookInv
    <2>5. BookInv'
      BY <1>3, <2>1, <2>4 DEF BookInv, Routes!MeshAssumption
    <2>6. QED
      BY <1>2, <2>2, <2>3, <2>5 DEF MeshInv
  <1>6. QED
    BY <1>4, <1>5

LEMMA OperatorAdds ==
    ASSUME MeshInv, NEW a \in Addr, Routes!AddPeer(a)
    PROVE  MeshInv'
  <1>1. RouteTypes /\ RouteInv /\ CallInv /\ BookInv
    BY DEF MeshInv
  <1>2. peers' = [peers EXCEPT ![a] = Routes!Explicit]
    BY DEF Routes!AddPeer
  <1>3. RouteTypes'
    BY <1>1, <1>2 DEF RouteTypes, Peer, Routes!AddPeer
  <1>4. RouteInv'
    BY <1>1, <1>2, PeersDiffer DEF RouteTypes, RouteInv, Routes!AddPeer
  <1>5. CallInv'
    BY <1>1, CallsKept DEF Routes!AddPeer
  <1>6. BookInv'
    <2>1. Routes!Known' = Routes!Known \union {a} /\ IsFiniteSet(Routes!Known')
      BY <1>1, <1>2, PeersDiffer, KnownGrows DEF BookInv
    <2>2. peers'[a] # Routes!Inbound
      BY <1>1, <1>2, PeersDiffer DEF RouteTypes
    <2>3. QED
      BY <1>1, <2>1, <2>2 DEF BookInv, Routes!AddPeer
  <1>7. QED
    BY <1>3, <1>4, <1>5, <1>6 DEF MeshInv

\* The caller that adopts is the only one, so a route it sets is the newest.
LEMMA RouteAdopted ==
    ASSUME MeshInv, \A c, d \in Caller : c = d, NEW c \in Caller, Routes!Adopt(c)
    PROVE  MeshInv'
  <1>1. RouteTypes /\ RouteInv /\ CallInv /\ BookInv
    BY DEF MeshInv
  <1>2. PICK a, s : adopting[c] = [addr |-> a, seq |-> s] /\ a \in Addr /\ s \in Nat
    <2>1. adopting[c] \in [addr : Addr, seq : Nat]
      BY <1>1 DEF Routes!Adopt, RouteTypes, Adopting
    <2>2. QED
      BY <2>1
  <1>3. peers' = [peers EXCEPT ![a] = Routes!Located(s)] /\ s = tracker[a]
    BY <1>1, <1>2 DEF Routes!Adopt, RouteInv
  <1>4. RouteTypes'
    BY <1>1, <1>2, <1>3 DEF RouteTypes, Peer, Adopting, Routes!Adopt
  <1>5. RouteInv'
    <2>1. \A b \in Addr : peers'[b].from = "location" => peers'[b].seq = tracker'[b]
      <3> TAKE b \in Addr
      <3>1. CASE b = a
        BY <1>1, <1>3, <3>1, PeersDiffer DEF RouteTypes, Routes!Adopt
      <3>2. CASE b # a
        BY <1>1, <1>2, <1>3, <3>2 DEF RouteTypes, RouteInv, Routes!Adopt
      <3>3. QED
        BY <3>1, <3>2
    <2>2. \A d \in Caller : adopting'[d] = Routes!Idle
      BY <1>1 DEF RouteTypes, Routes!Adopt
    <2>3. QED
      BY <1>1, <2>1, <2>2 DEF RouteInv, Routes!Adopt
  <1>6. CallInv'
    BY <1>1, CallsKept DEF Routes!Adopt
  <1>7. BookInv'
    <2>1. Routes!Known' = Routes!Known \union {a} /\ IsFiniteSet(Routes!Known')
      BY <1>1, <1>2, <1>3, PeersDiffer, KnownGrows DEF BookInv
    <2>2. peers'[a] # Routes!Inbound
      BY <1>1, <1>2, <1>3, PeersDiffer DEF RouteTypes
    <2>3. QED
      BY <1>1, <1>2, <2>1, <2>2 DEF BookInv, Routes!Adopt
  <1>8. QED
    BY <1>4, <1>5, <1>6, <1>7 DEF MeshInv

LEMMA RecordAdmitted ==
    ASSUME MeshInv, \A c, d \in Caller : c = d,
           NEW c \in Caller, NEW a \in Addr, NEW s \in 1..MaxSeq, Routes!Admit(c, a, s)
    PROVE  MeshInv'
  <1>1. RouteTypes /\ RouteInv /\ CallInv /\ BookInv
    BY DEF MeshInv
  <1>2. /\ s \in Nat /\ s > tracker[a]
        /\ tracker' = [tracker EXCEPT ![a] = s]
        /\ adopting' = [adopting EXCEPT ![c] = [addr |-> a, seq |-> s]]
        /\ peers' = peers /\ marks' = marks
    BY DEF Routes!Admit, Routes!Admits
  <1>3. RouteTypes'
    BY <1>1, <1>2 DEF RouteTypes, Adopting
  <1>4. adopting'[c] = [addr |-> a, seq |-> s] /\ s # 0 /\ adopting'[c] # Routes!Idle
    BY <1>1, <1>2 DEF RouteTypes, Routes!Idle
  <1>5. RouteInv'
    <2>1. \A b \in Addr : marks'[b] <= tracker'[b]
      BY <1>1, <1>2 DEF RouteTypes, RouteInv
    <2>2. \A d \in Caller : adopting'[d].seq = tracker'[adopting'[d].addr]
      BY <1>1, <1>2, <1>4 DEF RouteTypes
    <2>3. \A b \in Addr : peers'[b].from = "location" =>
            peers'[b].seq = tracker'[b] \/ adopting'[c].addr = b
      BY <1>1, <1>2, <1>4 DEF RouteTypes, RouteInv, Routes!Admit
    <2>4. QED
      BY <1>4, <2>1, <2>2, <2>3 DEF RouteInv
  <1>6. CallInv' /\ BookInv'
    BY <1>1, CallsKept, BookKept DEF Routes!Admit
  <1>7. QED
    BY <1>3, <1>5, <1>6 DEF MeshInv

\* What is stored or restored is never above what the tracker has seen.
LEMMA MarksMove ==
    ASSUME Routes!MeshAssumption, MeshInv,
           Routes!StoreMarks \/ Routes!RestoreMarks \/ Routes!Drain
    PROVE  MeshInv'
  <1>1. RouteTypes /\ RouteInv /\ CallInv /\ BookInv
    BY DEF MeshInv
  <1>2. CallInv'
    BY <1>1, CallsKept DEF Routes!StoreMarks, Routes!RestoreMarks, Routes!Drain
  <1>3. CASE Routes!StoreMarks
    BY <1>1, <1>2, <1>3, BookKept DEF MeshInv, RouteTypes, RouteInv, Routes!StoreMarks
  <1>4. CASE Routes!RestoreMarks
    <2>1. \A a \in Addr : Routes!Merged(a) = tracker[a]
      BY <1>1 DEF Routes!Merged, RouteTypes, RouteInv
    <2>2. tracker' = tracker
      BY <1>1, <1>4, <2>1 DEF Routes!RestoreMarks, RouteTypes
    <2>3. QED
      BY <1>1, <1>2, <1>4, <2>2, RoutesKept, BookKept DEF MeshInv, Routes!RestoreMarks
  <1>5. CASE Routes!Drain
    <2>1. inbox' \in Seq(Addr) /\ Len(inbox') <= MaxInbox
      BY <1>1, <1>5, EmptySeq DEF BookInv, Routes!Drain, Routes!MeshAssumption
    <2>2. BookInv'
      BY <1>1, <1>5, <2>1 DEF BookInv, Routes!Known, Routes!Drain
    <2>3. QED
      BY <1>1, <1>2, <1>5, <2>2, RoutesKept DEF MeshInv, Routes!Drain
  <1>6. QED
    BY <1>3, <1>4, <1>5

LEMMA MeshRestarts ==
    ASSUME Routes!MeshAssumption, MeshInv, Routes!Restart
    PROVE  MeshInv'
  <1>1. RouteTypes
    BY DEF MeshInv
  <1>2. RouteTypes' /\ RouteInv'
    BY <1>1, PeersDiffer DEF RouteTypes, RouteInv, Peer, Adopting, Routes!Restart
  <1>3. calls' = <<>> /\ inbox' = <<>> /\ commands' = {} /\ pending' = {}
    BY DEF Routes!Restart
  <1>4. CallInv'
    BY <1>3, EmptySeq DEF CallInv
  <1>5. Routes!Known' = {}
    BY DEF Routes!Known, Routes!Restart
  <1>6. BookInv'
    BY <1>3, <1>5, EmptySeq, FS_EmptySet DEF BookInv, Routes!MeshAssumption
  <1>7. QED
    BY <1>2, <1>4, <1>6 DEF MeshInv

\* A reply on the channel of a call that had none.
LEMMA ReplyCounts ==
    ASSUME calls \in Seq(CallRec), NEW n \in DOMAIN calls, calls[n].replies = 0
    PROVE  /\ Routes!Replied(n) \in Seq(CallRec)
           /\ DOMAIN Routes!Replied(n) = DOMAIN calls
           /\ Routes!Replied(n)[n].replies = 1 /\ Routes!Replied(n)[n].state # "waiting"
           /\ \A m \in DOMAIN calls : m # n => Routes!Replied(n)[m] = calls[m]
  <1> DEFINE st == IF calls[n].state = "waiting" THEN "answered" ELSE calls[n].state
             q == [calls[n] EXCEPT !.replies = calls[n].replies + 1]
             r == [q EXCEPT !.state = st]
             half == [calls EXCEPT ![n] = q]
  <1>1. /\ calls[n] \in CallRec
        /\ n \in 1..Len(calls) /\ DOMAIN calls = 1..Len(calls)
    BY ElementOfSeq, LenProperties
  <1>2. st \in {"waiting", "answered", "timeout"} /\ st # "waiting"
    BY <1>1 DEF CallRec
  <1>3. q \in CallRec /\ q.replies = 1
    BY <1>1 DEF CallRec
  <1>4. r \in CallRec /\ r.replies = 1 /\ r.state # "waiting"
    BY <1>2, <1>3 DEF CallRec
  <1>5. half \in Seq(CallRec) /\ half[n] = q
    BY <1>1, <1>3, ExceptSeq
  <1>6. Routes!Replied(n) = [half EXCEPT ![n] = [half[n] EXCEPT !.state = st]]
    BY <1>1 DEF Routes!Replied
  <1>7. Routes!Replied(n) = [half EXCEPT ![n] = r]
    BY <1>5, <1>6
  <1>8. DOMAIN half = DOMAIN calls /\ \A m \in DOMAIN calls : m # n => half[m] = calls[m]
    OBVIOUS
  <1> HIDE DEF r, half
  <1>9. [half EXCEPT ![n] = r] \in Seq(CallRec)
    BY <1>1, <1>4, <1>5, <1>8, ExceptSeq, LenProperties
  <1>10. QED
    BY <1>1, <1>4, <1>7, <1>8, <1>9

LEMMA CallMoves ==
    ASSUME MeshInv,
           \/ Routes!Call
           \/ \E n \in commands : Routes!HandleCommand(n)
           \/ \E n \in pending : Routes!ResolveKad(n)
           \/ \E n \in DOMAIN calls : Routes!TimeOut(n)
    PROVE  MeshInv'
  <1>1. RouteTypes /\ RouteInv /\ CallInv /\ BookInv
    BY DEF MeshInv
  <1>2. UNCHANGED <<peers, inbox, tracker, marks, adopting>>
    BY DEF Routes!Call, Routes!HandleCommand, Routes!ResolveKad, Routes!TimeOut
  <1>3. ASSUME Routes!Call PROVE CallInv'
    <2> DEFINE new == [state |-> "waiting", replies |-> 0]
               k == Len(calls) + 1
    <2>1. calls \in Seq(CallRec) /\ new \in CallRec
      BY <1>1 DEF CallInv, CallRec
    <2>2. calls' = Append(calls, new) /\ commands' = commands \union {k} /\ pending' = pending
      BY <1>3 DEF Routes!Call
    <2>3. /\ calls' \in Seq(CallRec) /\ DOMAIN calls' = (DOMAIN calls) \union {k}
          /\ k \notin DOMAIN calls /\ calls'[k] = new
          /\ \A m \in DOMAIN calls : calls'[m] = calls[m]
      BY <2>1, <2>2, AppendProperties, LenProperties
    <2>4. QED
      BY <1>1, <2>2, <2>3 DEF CallInv
  <1>4. ASSUME NEW n \in commands \union pending, calls' = Routes!Replied(n),
               commands' \union pending' = (commands \union pending) \ {n},
               commands' \intersect pending' = {}
        PROVE  CallInv'
    <2>1. n \in DOMAIN calls /\ calls \in Seq(CallRec) /\ calls[n].replies = 0
      BY <1>1 DEF CallInv
    <2>2. QED
      BY <1>1, <1>4, <2>1, ReplyCounts, SMTT(30) DEF CallInv
  <1>5. ASSUME NEW n \in commands, Routes!HandleCommand(n) PROVE CallInv'
    <2>1. CASE pending' = pending \union {n} /\ UNCHANGED calls
      BY <1>1, <1>5, <2>1 DEF CallInv, Routes!HandleCommand
    <2>2. CASE UNCHANGED pending /\ calls' = Routes!Replied(n)
      <3>1. commands' = commands \ {n} /\ n \notin pending
        BY <1>1, <1>5 DEF CallInv, Routes!HandleCommand
      <3>2. commands' \intersect pending' = {}
        BY <1>1, <2>2, <3>1 DEF CallInv
      <3>3. QED
        BY <1>4, <2>2, <3>1, <3>2
    <2>3. QED
      BY <1>5, <2>1, <2>2 DEF Routes!HandleCommand
  <1>6. ASSUME NEW n \in pending, Routes!ResolveKad(n) PROVE CallInv'
    <2>1. pending' = pending \ {n} /\ calls' = Routes!Replied(n) /\ commands' = commands
          /\ n \notin commands /\ commands \intersect pending = {}
      BY <1>1, <1>6 DEF CallInv, Routes!ResolveKad, Routes!Unpending
    <2>2. QED
      BY <1>4, <2>1
  <1>7. ASSUME NEW n \in DOMAIN calls, Routes!TimeOut(n) PROVE CallInv'
    <2> DEFINE r == [calls[n] EXCEPT !.state = "timeout"]
    <2>1. calls \in Seq(CallRec) /\ calls[n] \in CallRec
      BY <1>1, ElementOfSeq, LenProperties DEF CallInv
    <2>2. r \in CallRec /\ r.replies = calls[n].replies /\ r.state = "timeout"
      BY <2>1 DEF CallRec
    <2>3. calls' = [calls EXCEPT ![n] = r] /\ commands' = commands /\ pending' = pending
      BY <1>7 DEF Routes!TimeOut
    <2>4. /\ calls' \in Seq(CallRec) /\ DOMAIN calls' = DOMAIN calls /\ calls'[n] = r
          /\ \A m \in DOMAIN calls : m # n => calls'[m] = calls[m]
      BY <2>1, <2>2, <2>3, ExceptSeq, LenProperties
    <2>5. QED
      BY <1>1, <2>2, <2>3, <2>4 DEF CallInv
  <1>8. CallInv'
    BY <1>3, <1>5, <1>6, <1>7
  <1>9. QED
    BY <1>1, <1>2, <1>8, RoutesKept, BookKept DEF MeshInv

LEMMA MeshStep ==
    ASSUME Routes!MeshAssumption, \A c, d \in Caller : c = d, MeshInv, [Routes!Next]_(Routes!vars)
    PROVE  MeshInv'
  <1>1. CASE \E a \in Addr : Routes!EnqueueInbound(a) \/ Routes!AddPeer(a)
    BY <1>1, FrameArrives, OperatorAdds
  <1>2. CASE Routes!Drain \/ Routes!StoreMarks \/ Routes!RestoreMarks
    BY <1>2, MarksMove
  <1>3. CASE Routes!Restart
    BY <1>3, MeshRestarts
  <1>4. CASE \E c \in Caller, a \in Addr, s \in 1..MaxSeq : Routes!Admit(c, a, s)
    BY <1>4, RecordAdmitted
  <1>5. CASE \E c \in Caller : Routes!Adopt(c)
    BY <1>5, RouteAdopted
  <1>6. CASE \/ Routes!Call
             \/ \E n \in commands : Routes!HandleCommand(n)
             \/ \E n \in pending : Routes!ResolveKad(n)
             \/ \E n \in DOMAIN calls : Routes!TimeOut(n)
    BY <1>6, CallMoves
  <1>7. CASE UNCHANGED Routes!vars
    BY <1>7, RoutesKept, CallsKept, BookKept DEF MeshInv, Routes!vars
  <1>8. QED
    BY <1>1, <1>2, <1>3, <1>4, <1>5, <1>6, <1>7 DEF Routes!Next

LEMMA MeshInvHolds == MeshInv => Routes!MeshHolds
  <1> SUFFICES ASSUME MeshInv PROVE Routes!MeshHolds
    OBVIOUS
  <1>1. Routes!RoutesAreNewest
    BY DEF MeshInv, RouteTypes, RouteInv, Routes!RoutesAreNewest
  <1>2. Routes!CallsAreAnsweredOnce
    BY DEF MeshInv, CallInv, Routes!CallsAreAnsweredOnce
  <1>3. Routes!LearnedAreBounded
    BY SameCardinality DEF MeshInv, BookInv, Routes!LearnedAreBounded
  <1>4. QED
    BY <1>1, <1>2, <1>3 DEF Routes!MeshHolds

\* While one thread resolves locations, whatever the operator, the frames, the swarm task
\* and restarts do in between: a route from a location record is that of the newest record
\* ever admitted, a Kademlia call is answered at most once and one that waits is in the
\* hands of the swarm task, and frames alone fill neither book nor inbox past its limit
\* (discovery.rs: adopt_location_bytes; lib.rs: enqueue_inbound, resolve_kad). Two threads
\* may set their routes in the wrong order, hence the hypothesis.
THEOREM RoutesStayNewest ==
    ASSUME Routes!MeshAssumption, \A c, d \in Caller : c = d
    PROVE  Routes!Spec => []Routes!MeshHolds
  <1>1. Routes!Init => MeshInv
    BY MeshStarts
  <1>2. MeshInv /\ [Routes!Next]_(Routes!vars) => MeshInv'
    BY MeshStep
  <1>3. MeshInv => Routes!MeshHolds
    BY MeshInvHolds
  <1>4. QED
    BY <1>1, <1>2, <1>3, PTL DEF Routes!Spec

-----------------------------------------------------------------------------
(* Mix directories: marks that survive restarts.                           *)

CONSTANTS Authority, MaxEpoch, MaxVersion, MaxFailures
VARIABLES latest, saved, running, failures, newest, unsaved

Mixes == INSTANCE MixDir

Mark == [epoch: Nat, version: 0..MaxVersion]

MixTypes ==
    /\ latest \in [Authority -> Mark] /\ saved \in [Authority -> Mark]
    /\ newest \in [Authority -> Mark]
    /\ running \in BOOLEAN /\ unsaved \subseteq Authority

\* The newest directory of an authority whose writes all succeeded is in the journal, and
\* in the tracker while the process runs.
NewestIsKept ==
    \A a \in Authority \ unsaved :
        /\ saved[a] = newest[a]
        /\ running => latest[a] = newest[a]

MixInv == MixTypes /\ NewestIsKept

\* A later epoch outweighs every version of an earlier one.
LEMMA EpochOutweighs ==
    ASSUME NEW x \in Nat, NEW y \in Nat, NEW k \in Nat, x > y
    PROVE  x * k >= y * k + k
  <1>1. PICK j \in Nat : x = y + 1 + j
    <2>1. x - y - 1 \in Nat /\ x = y + 1 + (x - y - 1)
      OBVIOUS
    <2>2. QED
      BY <2>1
  <1>2. x * k = y * k + k + j * k
    BY <1>1
  <1>3. j * k >= 0 /\ y * k \in Nat
    OBVIOUS
  <1>4. QED
    BY <1>2, <1>3

\* The lexicographic comparison of the code is the order of the ranks.
LEMMA ExceedsIsRank ==
    ASSUME Mixes!MixDirAssumption, NEW x \in Mark, NEW y \in Mark, Mixes!Exceeds(x, y)
    PROVE  Mixes!Rank(x) > Mixes!Rank(y)
  <1> DEFINE k == MaxVersion + 1
             p == x.epoch * k
             q == y.epoch * k
  <1>1. /\ MaxVersion \in Nat /\ x.epoch \in Nat /\ y.epoch \in Nat
        /\ x.version \in 0..MaxVersion /\ y.version \in 0..MaxVersion
    BY DEF Mixes!MixDirAssumption, Mark
  <1>2. k \in Nat /\ p \in Nat /\ q \in Nat /\ Mixes!Rank(x) = p + x.version /\ Mixes!Rank(y) = q + y.version
    BY <1>1 DEF Mixes!Rank
  <1>3. CASE x.epoch > y.epoch
    <2>1. p >= q + k
      BY <1>1, <1>2, <1>3, EpochOutweighs
    <2>2. k > y.version
      BY <1>1
    <2> HIDE DEF p, q, k
    <2>3. QED
      BY <1>1, <1>2, <2>1, <2>2
  <1>4. CASE x.epoch = y.epoch /\ x.version > y.version
    <2>1. p = q
      BY <1>4
    <2> HIDE DEF p, q
    <2>2. QED
      BY <1>1, <1>2, <1>4, <2>1
  <1>5. QED
    BY <1>3, <1>4 DEF Mixes!Exceeds

(* Every step keeps it.                                                    *)

LEMMA MixInit == Mixes!MixDirAssumption /\ Mixes!Init => MixInv
  <1> SUFFICES ASSUME Mixes!MixDirAssumption, Mixes!Init PROVE MixInv
    OBVIOUS
  <1>1. Mixes!NoMark \in Mark
    BY DEF Mixes!NoMark, Mark, Mixes!MixDirAssumption
  <1>2. QED
    BY <1>1 DEF Mixes!Init, MixInv, MixTypes, NewestIsKept

\* A checkpoint, whether its write succeeds or its error is swallowed: what it owed is in
\* the journal or stays owed.
LEMMA CheckpointKeeps ==
    ASSUME MixInv, NEW owed \in SUBSET Authority, unsaved \subseteq owed, Mixes!Saves(owed),
           running, running' = running,
           latest' \in [Authority -> Mark], newest' \in [Authority -> Mark],
           \A a \in Authority \ owed : latest'[a] = latest[a] /\ newest'[a] = newest[a]
    PROVE  MixInv'
  <1>1. CASE /\ saved' = latest' /\ unsaved' = {a \in owed : latest'[a] # newest'[a]}
    <2>1. MixTypes'
      BY <1>1 DEF MixInv, MixTypes
    <2>2. ASSUME NEW a \in Authority, a \notin unsaved'
          PROVE  saved'[a] = newest'[a] /\ latest'[a] = newest'[a]
      BY <1>1, <2>2 DEF MixInv, NewestIsKept
    <2>3. QED
      BY <2>1, <2>2 DEF MixInv, NewestIsKept
  <1>2. CASE unsaved' = owed /\ saved' = saved
    BY <1>2 DEF MixInv, MixTypes, NewestIsKept
  <1>3. QED
    BY <1>1, <1>2 DEF Mixes!Saves

LEMMA IngestStep ==
    ASSUME MixInv, NEW a \in Authority, NEW d \in Mark, Mixes!Ingest(a, d)
    PROVE  MixInv'
  <1>1. /\ latest' = [latest EXCEPT ![a] = d] /\ newest' = [newest EXCEPT ![a] = d]
        /\ running /\ running' = running /\ Mixes!Saves(unsaved \union {a})
    BY DEF Mixes!Ingest, Mixes!Checkpoint
  <1>2. /\ latest \in [Authority -> Mark] /\ newest \in [Authority -> Mark]
        /\ unsaved \union {a} \in SUBSET Authority
    BY DEF MixInv, MixTypes
  <1>3. /\ latest' \in [Authority -> Mark] /\ newest' \in [Authority -> Mark]
        /\ \A b \in Authority \ (unsaved \union {a}) :
              latest'[b] = latest[b] /\ newest'[b] = newest[b]
    BY <1>1, <1>2
  <1>4. QED
    BY <1>1, <1>2, <1>3, CheckpointKeeps

LEMMA RestoreStep ==
    ASSUME MixInv, Mixes!MixDirAssumption, Mixes!Restore
    PROVE  MixInv'
  <1>1. ASSUME NEW a \in Authority
        PROVE  (IF Mixes!Exceeds(saved[a], Mixes!NoMark) THEN saved[a] ELSE Mixes!NoMark) = saved[a]
    <2>1. saved[a] \in Mark
      BY DEF MixInv, MixTypes
    <2>2. CASE ~Mixes!Exceeds(saved[a], Mixes!NoMark)
      <3>1. saved[a].epoch = 0 /\ saved[a].version = 0
        BY <2>1, <2>2 DEF Mixes!Exceeds, Mixes!NoMark, Mark, Mixes!MixDirAssumption
      <3>2. saved[a] = Mixes!NoMark
        BY <2>1, <3>1 DEF Mixes!NoMark, Mark
      <3>3. QED
        BY <3>2
    <2>3. QED
      BY <2>2
  <1>2. /\ \A a \in Authority : latest'[a] = saved[a]
        /\ latest' \in [Authority -> Mark]
    BY <1>1 DEF Mixes!Restore, MixInv, MixTypes
  <1>3. QED
    BY <1>2 DEF Mixes!Restore, MixInv, MixTypes, NewestIsKept

LEMMA MixStep == Mixes!MixDirAssumption /\ MixInv /\ [Mixes!Next]_Mixes!vars => MixInv'
  <1> SUFFICES ASSUME Mixes!MixDirAssumption, MixInv, [Mixes!Next]_Mixes!vars PROVE MixInv'
    OBVIOUS
  <1>1. CASE UNCHANGED Mixes!vars
    BY <1>1 DEF Mixes!vars, MixInv, MixTypes, NewestIsKept
  <1>2. ASSUME NEW a \in Authority, NEW e \in 1..MaxEpoch, NEW v \in 1..MaxVersion,
               Mixes!Ingest(a, [epoch |-> e, version |-> v])
        PROVE  MixInv'
    <2>1. [epoch |-> e, version |-> v] \in Mark
      BY DEF Mark, Mixes!MixDirAssumption
    <2>2. QED
      BY <1>2, <2>1, IngestStep
  <1>3. CASE Mixes!Flush
    BY <1>3, CheckpointKeeps DEF Mixes!Flush, MixInv, MixTypes
  <1>4. CASE Mixes!Crash
    BY <1>4 DEF Mixes!Crash, MixInv, MixTypes, NewestIsKept
  <1>5. CASE Mixes!Restore
    BY <1>5, RestoreStep
  <1>6. QED
    BY <1>1, <1>2, <1>3, <1>4, <1>5 DEF Mixes!Next

\* A directory that is accepted is newer than every one before it, unless the write of
\* one that was newer failed and none has succeeded since.
LEMMA IngestIsNewer == Mixes!MixDirAssumption /\ MixInv /\ [Mixes!Next]_Mixes!vars => Mixes!NoRollback
  <1> SUFFICES ASSUME Mixes!MixDirAssumption, MixInv, [Mixes!Next]_Mixes!vars, NEW a \in Authority,
                      newest'[a] # newest[a], a \notin unsaved
               PROVE  Mixes!Rank(newest'[a]) > Mixes!Rank(newest[a])
    BY DEF Mixes!NoRollback
  <1>1. PICK b \in Authority, e \in 1..MaxEpoch, v \in 1..MaxVersion :
           Mixes!Ingest(b, [epoch |-> e, version |-> v])
    BY DEF Mixes!Next, Mixes!vars, Mixes!Flush, Mixes!Crash, Mixes!Restore
  <1> DEFINE d == [epoch |-> e, version |-> v]
  <1>2. newest \in [Authority -> Mark] /\ d \in Mark
    BY DEF MixInv, MixTypes, Mark, Mixes!MixDirAssumption
  <1>3. newest' = [newest EXCEPT ![b] = d] /\ Mixes!Exceeds(d, latest[b]) /\ running
    BY <1>1 DEF Mixes!Ingest
  <1> HIDE DEF d
  <1>4. a = b /\ newest'[a] = d
    BY <1>2, <1>3
  <1>5. latest[a] = newest[a]
    BY <1>3 DEF MixInv, NewestIsKept
  <1>6. QED
    BY <1>2, <1>3, <1>4, <1>5, ExceedsIsRank

\* The directories of an authority are accepted in rising (epoch, version) only, across
\* restarts too, as far as the writes of the journal succeeded (mixdir.rs ingest,
\* node.rs ingest_mix_directory, checkpoint).
THEOREM DirectoriesOnlyRise ==
    ASSUME Mixes!MixDirAssumption
    PROVE  Mixes!Spec => [][Mixes!NoRollback]_Mixes!vars
  <1>1. Mixes!Init => MixInv
    BY MixInit
  <1>2. MixInv /\ [Mixes!Next]_Mixes!vars => MixInv'
    BY MixStep
  <1>3. MixInv /\ [Mixes!Next]_Mixes!vars => [Mixes!NoRollback]_Mixes!vars
    BY IngestIsNewer
  <1>4. QED
    BY <1>1, <1>2, <1>3, PTL DEF Mixes!Spec

-----------------------------------------------------------------------------
(* Logins: challenges, assertions and sessions.                            *)

CONSTANTS Identity, Device, Cert, Origin, Ttl, Fresh, MaxNow, MaxChallenge, MaxProof, MaxUse
VARIABLES now, issued, sent, proofs, seen, sessions, used

Logins == INSTANCE Login

ChallengeOf == [origin: Origin, exp: Nat]
Assertion == [nonce: Nat, from: Logins!Keys, cnf: Nat \X Logins!Keys, observed: Origin]
Proof == [key: Nat \X Logins!Keys, htu: Origin, iat: Nat]
Use == [id: {"nonce", "jti"} \X Nat, at: Nat, exp: Nat]

LoginTypes ==
    /\ now \in Nat /\ issued \in Seq(ChallengeOf) /\ proofs \in Seq(Proof)
    /\ used \in Seq(Use) /\ sent \subseteq Assertion

\* What is used up at e: a challenge, or a proof.
Expires(id, e) ==
    \/ \E n \in DOMAIN issued : id = <<"nonce", n>> /\ e = issued[n].exp
    \/ \E j \in DOMAIN proofs : id = <<"jti", j>> /\ e = Logins!JtiExpiry(proofs[j].iat)

\* What was accepted expires when it says, and the cache knows it until then.
UseInv ==
    \A k \in 1..Len(used) :
        /\ Expires(used[k].id, used[k].exp)
        /\ used[k].exp > now => [id |-> used[k].id, exp |-> used[k].exp] \in seen

\* An assertion is for a challenge that was issued, and signed where its origin is.
SentInv ==
    \A a \in sent : a.nonce \in DOMAIN issued /\ a.observed = issued[a.nonce].origin

SessionInv == \A s \in sessions : s.login \in sent

LoginInv == LoginTypes /\ UseInv /\ SentInv /\ SessionInv /\ Logins!ReplayOnlyAtExpiry /\ Logins!SessionsAreOwned

\* A challenge or proof has one expiry.
LEMMA ExpiryIsOne ==
    ASSUME NEW id, NEW e, NEW f, Expires(id, e), Expires(id, f)
    PROVE  e = f
  BY DEF Expires

LEMMA LoginInit == Logins!Init => LoginInv
  <1> SUFFICES ASSUME Logins!Init PROVE LoginInv
    OBVIOUS
  <1>1. now = 0 /\ issued = <<>> /\ sent = {} /\ proofs = <<>> /\ seen = {} /\ sessions = {}
        /\ used = <<>> /\ Len(<<>>) = 0 /\ DOMAIN <<>> = {}
    BY DEF Logins!Init
  <1>2. LoginTypes
    BY <1>1, EmptySeq DEF LoginTypes
  <1>3. UseInv /\ SentInv /\ SessionInv /\ Logins!ReplayOnlyAtExpiry /\ Logins!SessionsAreOwned
    BY <1>1 DEF UseInv, SentInv, SessionInv, Logins!ReplayOnlyAtExpiry, Logins!SessionsAreOwned
  <1>4. QED
    BY <1>2, <1>3 DEF LoginInv

\* A step that accepts nothing: challenges and proofs are only added, time goes on, and
\* the cache forgets what has expired.
LEMMA Unused ==
    ASSUME LoginInv, used' = used, sessions' = sessions, now' \in Nat, now' >= now,
           issued' \in Seq(ChallengeOf), proofs' \in Seq(Proof),
           sent' \subseteq Assertion, sent \subseteq sent',
           \A r \in seen : r.exp > now' => r \in seen',
           \A n \in DOMAIN issued : n \in DOMAIN issued' /\ issued'[n] = issued[n],
           \A j \in DOMAIN proofs : j \in DOMAIN proofs' /\ proofs'[j] = proofs[j],
           \A a \in sent' \ sent :
              a.nonce \in DOMAIN issued /\ a.observed = issued[a.nonce].origin
    PROVE  LoginInv'
  <1>1. LoginTypes'
    BY DEF LoginInv, LoginTypes
  <1>2. UseInv'
    <2> SUFFICES ASSUME NEW k \in 1..Len(used)
                 PROVE  /\ Expires(used[k].id, used[k].exp)'
                        /\ used[k].exp > now' =>
                              [id |-> used[k].id, exp |-> used[k].exp] \in seen'
      BY DEF UseInv
    <2>1. /\ Expires(used[k].id, used[k].exp)
          /\ used[k].exp > now => [id |-> used[k].id, exp |-> used[k].exp] \in seen
      BY DEF LoginInv, UseInv
    <2>2. Expires(used[k].id, used[k].exp)'
      <3> DEFINE id == used[k].id
                 e == used[k].exp
      <3>1. CASE \E n \in DOMAIN issued : id = <<"nonce", n>> /\ e = issued[n].exp
        <4>1. \E n \in DOMAIN issued' : id = <<"nonce", n>> /\ e = issued'[n].exp
          BY <3>1
        <4>2. QED
          BY <4>1 DEF Expires
      <3>2. CASE \E j \in DOMAIN proofs : id = <<"jti", j>> /\ e = Logins!JtiExpiry(proofs[j].iat)
        <4>1. \E j \in DOMAIN proofs' : id = <<"jti", j>> /\ e = Logins!JtiExpiry(proofs'[j].iat)
          BY <3>2
        <4>2. QED
          BY <4>1 DEF Expires
      <3>3. \/ \E n \in DOMAIN issued : id = <<"nonce", n>> /\ e = issued[n].exp
            \/ \E j \in DOMAIN proofs : id = <<"jti", j>> /\ e = Logins!JtiExpiry(proofs[j].iat)
        BY <2>1 DEF Expires
      <3>4. QED
        BY <3>1, <3>2, <3>3
    <2>3. used[k].exp \in Nat /\ now \in Nat
      <3>1. used \in Seq(Use) /\ now \in Nat
        BY DEF LoginInv, LoginTypes
      <3>2. used[k] \in Use
        BY <3>1, ElementOfSeq
      <3>3. QED
        BY <3>1, <3>2 DEF Use
    <2>4. used[k].exp > now' => [id |-> used[k].id, exp |-> used[k].exp] \in seen'
      BY <2>1, <2>3
    <2>5. QED
      BY <2>2, <2>4
  <1>3. SentInv'
    BY DEF LoginInv, SentInv
  <1>4. SessionInv' /\ Logins!ReplayOnlyAtExpiry'
    BY DEF LoginInv, SessionInv, Logins!ReplayOnlyAtExpiry
  <1>5. Logins!SessionsAreOwned'
    BY DEF LoginInv, SentInv, SessionInv, Logins!SessionsAreOwned
  <1>6. QED
    BY <1>1, <1>2, <1>3, <1>4, <1>5 DEF LoginInv

\* check_and_reserve lets an identifier in again only when what was accepted expires now.
LEMMA Reserved ==
    ASSUME LoginInv, NEW id \in {"nonce", "jti"} \X Nat, NEW e \in Nat, Expires(id, e), now <= e,
           Logins!CheckAndReserve(id, e), UNCHANGED <<now, issued, proofs, sent>>
    PROVE  LoginTypes' /\ UseInv' /\ SentInv' /\ Logins!ReplayOnlyAtExpiry'
  <1> DEFINE u == [id |-> id, at |-> now, exp |-> e]
  <1>1. /\ now \in Nat /\ used \in Seq(Use) /\ u \in Use
        /\ used' = Append(used, u) /\ seen' = Logins!Kept \union {[id |-> id, exp |-> e]}
        /\ \A r \in Logins!Kept : r.id # id
    BY DEF LoginInv, LoginTypes, Use, Logins!CheckAndReserve
  <1>2. /\ u.id = id /\ u.at = now /\ u.exp = e
    OBVIOUS
  <1> HIDE DEF u
  <1>3. /\ used' \in Seq(Use) /\ Len(used') = Len(used) + 1 /\ used'[Len(used) + 1] = u
        /\ Len(used) \in Nat /\ \A k \in 1..Len(used) : used'[k] = used[k] /\ used[k] \in Use
    BY <1>1, AppendProperties, LenProperties, ElementOfSeq
  <1>4. LoginTypes' /\ SentInv'
    BY <1>3 DEF LoginInv, LoginTypes, SentInv
  <1>5. ASSUME NEW k \in 1..Len(used), used[k].id = id
        PROVE  now = used[k].exp
    <2>1. used[k].exp = e /\ (e > now => [id |-> id, exp |-> e] \in seen)
      BY <1>5, ExpiryIsOne DEF LoginInv, UseInv
    <2>2. ~(e > now)
      BY <1>1, <2>1 DEF Logins!Kept
    <2>3. QED
      BY <1>1, <2>1, <2>2
  <1>6. UseInv'
    <2> SUFFICES ASSUME NEW k \in 1..Len(used')
                 PROVE  /\ Expires(used'[k].id, used'[k].exp)
                        /\ used'[k].exp > now =>
                              [id |-> used'[k].id, exp |-> used'[k].exp] \in seen'
      BY DEF UseInv, Expires
    <2>1. CASE k = Len(used) + 1
      BY <1>1, <1>2, <1>3, <2>1
    <2>2. CASE k # Len(used) + 1
      <3>1. k \in 1..Len(used) /\ used'[k] = used[k] /\ used[k] \in Use
        BY <1>3, <2>2
      <3>2. /\ Expires(used[k].id, used[k].exp)
            /\ used[k].exp > now => [id |-> used[k].id, exp |-> used[k].exp] \in seen
        BY <3>1 DEF LoginInv, UseInv
      <3>3. QED
        BY <1>1, <3>1, <3>2 DEF Logins!Kept
    <2>3. QED
      BY <2>1, <2>2
  <1>7. Logins!ReplayOnlyAtExpiry'
    <2> SUFFICES ASSUME NEW k \in 1..Len(used'), NEW m \in 1..Len(used'),
                        k < m, used'[k].id = used'[m].id
                 PROVE  used'[m].at = used'[k].exp
      BY <1>3, LenProperties DEF Logins!ReplayOnlyAtExpiry
    <2>1. k \in 1..Len(used)
      BY <1>3
    <2>2. CASE m = Len(used) + 1
      BY <1>2, <1>3, <1>5, <2>1, <2>2
    <2>3. CASE m # Len(used) + 1
      <3>1. m \in 1..Len(used)
        BY <1>3, <2>3, SMTT(30)
      <3>2. QED
        BY <1>3, <2>1, <3>1, LenProperties DEF LoginInv, LoginTypes, Logins!ReplayOnlyAtExpiry
    <2>4. QED
      BY <2>2, <2>3
  <1>8. QED
    BY <1>4, <1>6, <1>7

LEMMA VerifyLoginStep ==
    ASSUME LoginInv, NEW ik \in Identity, NEW o \in Origin, NEW n \in DOMAIN issued, NEW a \in sent,
           Logins!VerifyLogin(ik, o, n, a)
    PROVE  LoginInv'
  <1>1. /\ UNCHANGED <<now, issued, sent, proofs>> /\ now <= issued[n].exp
        /\ Logins!IsAuthorized(ik, a.from) /\ a.nonce = n
    BY DEF Logins!VerifyLogin
  <1>2. /\ issued \in Seq(ChallengeOf) /\ proofs \in Seq(Proof) /\ now \in Nat
        /\ sent \subseteq Assertion /\ a \in Assertion
        /\ n \in Nat /\ issued[n].exp \in Nat
    <2>1. issued \in Seq(ChallengeOf) /\ n \in 1..Len(issued)
      BY LenProperties DEF LoginInv, LoginTypes
    <2>2. issued[n] \in ChallengeOf
      BY <2>1, ElementOfSeq
    <2>3. QED
      BY <2>1, <2>2 DEF LoginInv, LoginTypes, ChallengeOf
  <1>3. CASE /\ Logins!CheckAndReserve(<<"nonce", n>>, issued[n].exp)
             /\ sessions' = sessions \union {[subject |-> ik, cnf |-> a.cnf, at |-> now, login |-> a]}
    <2> DEFINE s == [subject |-> ik, cnf |-> a.cnf, at |-> now, login |-> a]
    <2>1. Expires(<<"nonce", n>>, issued[n].exp)
      BY DEF Expires
    <2>2. LoginTypes' /\ UseInv' /\ SentInv' /\ Logins!ReplayOnlyAtExpiry'
      BY <1>1, <1>2, <1>3, <2>1, Reserved
    <2>3. s.login = a /\ s.subject = ik /\ s.at = now
      OBVIOUS
    <2>4. a.observed = issued[a.nonce].origin
      BY DEF LoginInv, SentInv
    <2>5. \/ a.from = ik
          \/ \E c \in Cert : c.ik = ik /\ c.key = a.from /\ now < c.expires
      BY <1>1 DEF Logins!IsAuthorized, Logins!Certifies
    <2> HIDE DEF s
    <2>6. sessions' = sessions \union {s}
      BY <1>3 DEF s
    <2>7. SessionInv'
      BY <1>1, <2>3, <2>6 DEF LoginInv, SessionInv
    <2>8. Logins!SessionsAreOwned'
      BY <1>1, <2>3, <2>4, <2>5, <2>6 DEF LoginInv, Logins!SessionsAreOwned
    <2>9. QED
      BY <2>2, <2>7, <2>8 DEF LoginInv
  <1>4. CASE seen' = Logins!Kept /\ UNCHANGED <<sessions, used>>
    BY <1>1, <1>2, <1>4, Unused DEF Logins!Kept
  <1>5. QED
    BY <1>3, <1>4 DEF Logins!VerifyLogin

LEMMA VerifyRequestStep ==
    ASSUME Logins!LoginAssumption, LoginInv,
           NEW s \in sessions, NEW j \in DOMAIN proofs, NEW o \in Origin, Logins!VerifyRequest(s, j, o)
    PROVE  LoginInv'
  <1> DEFINE e == Logins!JtiExpiry(proofs[j].iat)
  <1>1. /\ UNCHANGED <<now, issued, sent, proofs, sessions>> /\ now - proofs[j].iat <= Fresh
        /\ Logins!CheckAndReserve(<<"jti", j>>, e)
    BY DEF Logins!VerifyRequest
  <1>2. j \in Nat /\ proofs[j].iat \in Nat
    <2>1. proofs \in Seq(Proof) /\ j \in 1..Len(proofs)
      BY LenProperties DEF LoginInv, LoginTypes
    <2>2. proofs[j] \in Proof
      BY <2>1, ElementOfSeq
    <2>3. QED
      BY <2>1, <2>2 DEF Proof
  <1>3. e \in Nat /\ now <= e /\ Expires(<<"jti", j>>, e)
    <2>1. e \in Nat /\ now <= e
      BY <1>1, <1>2, SMTT(30) DEF Logins!JtiExpiry, Logins!LoginAssumption, LoginInv, LoginTypes
    <2>2. Expires(<<"jti", j>>, e)
      BY DEF Expires
    <2>3. QED
      BY <2>1, <2>2
  <1> HIDE DEF e
  <1>4. LoginTypes' /\ UseInv' /\ SentInv' /\ Logins!ReplayOnlyAtExpiry'
    BY <1>1, <1>2, <1>3, Reserved
  <1>5. SessionInv' /\ Logins!SessionsAreOwned'
    BY <1>1 DEF LoginInv, SessionInv, Logins!SessionsAreOwned
  <1>6. QED
    BY <1>4, <1>5 DEF LoginInv

\* The operations that put something on the wire, and time.
LEMMA WireStep ==
    ASSUME Logins!LoginAssumption, LoginInv,
           \/ \E o \in Origin : Logins!Challenge(o)
           \/ \E n \in DOMAIN issued, key \in Logins!Keys, o \in Origin : Logins!CreateLogin(n, key, o)
           \/ \E a \in sent, o \in Origin : Logins!Prove(a, o)
           \/ Logins!Tick
    PROVE  LoginInv'
  <1>1. /\ now \in Nat /\ issued \in Seq(ChallengeOf) /\ proofs \in Seq(Proof)
        /\ sent \subseteq Assertion /\ Ttl \in Nat
        /\ DOMAIN issued = 1..Len(issued) /\ DOMAIN proofs = 1..Len(proofs)
        /\ Len(issued) \in Nat /\ Len(proofs) \in Nat
    BY LenProperties DEF LoginInv, LoginTypes, Logins!LoginAssumption
  <1>2. ASSUME NEW o \in Origin, Logins!Challenge(o)
        PROVE  LoginInv'
    <2>1. /\ issued' = Append(issued, Logins!NewChallenge(o)) /\ Logins!NewChallenge(o) \in ChallengeOf
          /\ UNCHANGED <<now, sent, proofs, seen, sessions, used>>
      BY <1>1, <1>2 DEF Logins!Challenge, Logins!NewChallenge, ChallengeOf
    <2>2. /\ issued' \in Seq(ChallengeOf)
          /\ \A n \in DOMAIN issued : n \in DOMAIN issued' /\ issued'[n] = issued[n]
      BY <1>1, <2>1, AppendProperties, LenProperties
    <2>3. QED
      BY <1>1, <2>1, <2>2, Unused
  <1>3. ASSUME NEW n \in DOMAIN issued, NEW key \in Logins!Keys, NEW o \in Origin, Logins!CreateLogin(n, key, o)
        PROVE  LoginInv'
    <2> DEFINE a == Logins!SignedAssertion(n, key, o)
    <2>1. /\ a \in Assertion /\ a.nonce = n /\ a.observed = issued[n].origin
          /\ sent' = sent \union {a}
          /\ UNCHANGED <<now, issued, proofs, seen, sessions, used>>
      BY <1>1, <1>3 DEF Logins!CreateLogin, Logins!OriginMatches, Logins!SignedAssertion, Assertion
    <2> HIDE DEF a
    <2>2. QED
      BY <1>1, <2>1, Unused
  <1>4. ASSUME NEW a \in sent, NEW o \in Origin, Logins!Prove(a, o)
        PROVE  LoginInv'
    <2> DEFINE p == [key |-> a.cnf, htu |-> o, iat |-> now]
    <2>1. p \in Proof /\ proofs' = Append(proofs, p)
          /\ UNCHANGED <<now, issued, sent, seen, sessions, used>>
      BY <1>1, <1>4 DEF Logins!Prove, Proof, Assertion
    <2> HIDE DEF p
    <2>2. /\ proofs' \in Seq(Proof)
          /\ \A j \in DOMAIN proofs : j \in DOMAIN proofs' /\ proofs'[j] = proofs[j]
      BY <1>1, <2>1, AppendProperties, LenProperties
    <2>3. QED
      BY <1>1, <2>1, <2>2, Unused
  <1>5. CASE Logins!Tick
    <2>1. now' = now + 1 /\ UNCHANGED <<issued, sent, proofs, seen, sessions, used>>
      BY <1>5 DEF Logins!Tick
    <2>2. now' \in Nat /\ now' >= now
      BY <1>1, <2>1
    <2>3. QED
      BY <1>1, <2>1, <2>2, Unused
  <1>6. QED
    BY <1>2, <1>3, <1>4, <1>5

LEMMA LoginStep == Logins!LoginAssumption /\ LoginInv /\ [Logins!Next]_Logins!vars => LoginInv'
  <1> SUFFICES ASSUME Logins!LoginAssumption, LoginInv, [Logins!Next]_Logins!vars PROVE LoginInv'
    OBVIOUS
  <1>1. CASE UNCHANGED Logins!vars
    BY <1>1 DEF Logins!vars, LoginInv, LoginTypes, UseInv, Expires, SentInv, SessionInv, Logins!ReplayOnlyAtExpiry,
                Logins!SessionsAreOwned
  <1>2. QED
    BY <1>1, WireStep, VerifyLoginStep, VerifyRequestStep DEF Logins!Next

\* A session is its identity's or a certified device's, made where its origin was seen,
\* and what made it, or a request of it, is accepted again at the instant it expires at
\* most (dmtap-auth verify_login, InMemoryReplayCache, BoundSession::verify_request).
THEOREM LoginsStayOwned ==
    ASSUME Logins!LoginAssumption
    PROVE  Logins!Spec => []Logins!LoginsAreOwned
  <1>1. LoginInv => Logins!LoginsAreOwned
    BY DEF LoginInv, Logins!LoginsAreOwned
  <1>2. QED
    BY <1>1, LoginInit, LoginStep, PTL DEF Logins!Spec

-----------------------------------------------------------------------------
(* The start of a node: the keystore file, init and the daemon.             *)

CONSTANTS Passphrase, NoPass, MaxIdentity
VARIABLES file, tmp, drawn, init, printed, daemon

Nodes == INSTANCE NodeStart

KeystoreFile == [id: Nat, pw: Passphrase \union {NoPass}, private: BOOLEAN, whole: BOOLEAN]

PrintedRecord == [ik: Nat]

InitCommand == [at: {"idle", "save", "written", "private", "print"}, id: Nat,
                pw: Passphrase \union {NoPass}, force: BOOLEAN]

NodeTypes ==
    /\ file \in KeystoreFile /\ tmp \in KeystoreFile /\ drawn \in Nat
    /\ init \in InitCommand /\ printed \subseteq PrintedRecord

\* What stands in the keystore file was drawn by some init that got as far as the rename.
FileInv == file # Nodes!None => file.whole /\ file.private /\ file.id \in 1..drawn

\* An init that is on its way holds the last identity drawn, which only the file of one
\* that is done has; without force there is no file before.
InitInv ==
    /\ init.at # "idle" => init.id = drawn /\ drawn > 0
    /\ init.at \in {"save", "written", "private"} =>
          /\ file.id < init.id
          /\ Nodes!Exists(file) => init.force
    /\ init.at = "written" => tmp = Nodes!Keystore(init.id, init.pw)
    /\ init.at = "private" => tmp = Nodes!Private0600(Nodes!Keystore(init.id, init.pw))
    /\ init.at = "print" => Nodes!Exists(file) /\ file.id = init.id

\* What the daemon opened belongs to the keystore it was started on.
DaemonInv ==
    /\ daemon = [at |-> daemon.at, owner |-> daemon.owner, config |-> daemon.config,
                  replaced |-> daemon.replaced, eof |-> daemon.eof]
    /\ "mesh" \in DOMAIN daemon.owner
    /\ daemon.replaced \in BOOLEAN
    /\ (daemon.at # 0 /\ ~daemon.replaced) =>
          /\ Nodes!Exists(file)
          /\ \A s \in DOMAIN daemon.owner : daemon.owner[s] = file.id

NodeInv == NodeTypes /\ FileInv /\ InitInv /\ DaemonInv /\ Nodes!PrintedIsStored

LEMMA NodeInit == Nodes!Init => NodeInv
  <1> SUFFICES ASSUME Nodes!Init PROVE NodeInv
    OBVIOUS
  <1>1. NodeTypes
    BY DEF Nodes!Init, NodeTypes, Nodes!None, Nodes!Idle, KeystoreFile, InitCommand
  <1>2. FileInv /\ InitInv /\ Nodes!PrintedIsStored
    BY DEF Nodes!Init, FileInv, InitInv, Nodes!PrintedIsStored, Nodes!Idle
  <1>3. DaemonInv
    BY DEF Nodes!Init, DaemonInv, Nodes!Off
  <1>4. QED
    BY <1>1, <1>2, <1>3 DEF NodeInv

\* What is printed and what is served does not change with the init command alone.
LEMMA ServedAsBefore ==
    ASSUME NodeInv, UNCHANGED <<file, printed, daemon>>
    PROVE  DaemonInv' /\ Nodes!PrintedIsStored'
  BY DEF NodeInv, DaemonInv, Nodes!PrintedIsStored, Nodes!Exists

LEMMA InitIdentityStep ==
    ASSUME NodeInv, NEW force \in BOOLEAN, NEW pw \in Passphrase \union {NoPass},
           Nodes!InitIdentity(force, pw)
    PROVE  NodeInv'
  <1>1. /\ file' = file /\ tmp' = tmp /\ printed' = printed /\ daemon' = daemon
        /\ drawn' = drawn + 1
        /\ Nodes!Exists(file) => force
        /\ init' = [at |-> "save", id |-> drawn + 1, pw |-> pw, force |-> force]
    BY DEF Nodes!InitIdentity, Nodes!MayReplace
  <1>2. NodeTypes'
    BY <1>1 DEF NodeInv, NodeTypes, InitCommand
  <1>3. FileInv' /\ InitInv'
    <2>1. drawn \in Nat /\ file \in KeystoreFile /\ (file # Nodes!None => file.id \in 1..drawn)
      BY DEF NodeInv, NodeTypes, FileInv
    <2>2. file.id < drawn + 1
      BY <2>1 DEF Nodes!None
    <2>3. FileInv'
      BY <1>1, <2>1 DEF NodeInv, FileInv
    <2>4. InitInv'
      BY <1>1, <2>1, <2>2 DEF InitInv, Nodes!Exists
    <2>5. QED
      BY <2>3, <2>4
  <1>4. QED
    BY <1>1, <1>2, <1>3, ServedAsBefore DEF NodeInv

LEMMA WriteTmpStep ==
    ASSUME NodeInv, Nodes!WriteTmp
    PROVE  NodeInv'
  <1>1. /\ file' = file /\ drawn' = drawn /\ printed' = printed /\ daemon' = daemon
        /\ init.at = "save" /\ init \in InitCommand
    BY DEF Nodes!WriteTmp, Nodes!Writes, NodeInv, NodeTypes
  <1>2. CASE tmp' = Nodes!Keystore(init.id, init.pw) /\ init' = [init EXCEPT !.at = "written"]
    <2>1. /\ init' \in InitCommand /\ init'.at = "written" /\ init'.id = init.id
          /\ init'.pw = init.pw /\ init'.force = init.force
      BY <1>1, <1>2 DEF InitCommand
    <2>2. tmp' \in KeystoreFile
      BY <1>1, <1>2 DEF Nodes!Keystore, KeystoreFile, InitCommand
    <2>3. NodeTypes' /\ FileInv'
      BY <1>1, <2>1, <2>2 DEF NodeInv, NodeTypes, FileInv
    <2>4. InitInv'
      BY <1>1, <1>2, <2>1 DEF NodeInv, InitInv, Nodes!Exists, Nodes!Keystore
    <2>5. QED
      BY <1>1, <2>3, <2>4, ServedAsBefore DEF NodeInv
  <1>3. CASE tmp' = [Nodes!Keystore(init.id, init.pw) EXCEPT !.whole = FALSE] /\ init' = Nodes!Idle
    <2>1. init' \in InitCommand /\ init'.at = "idle"
      BY <1>3 DEF InitCommand, Nodes!Idle
    <2>2. tmp' \in KeystoreFile
      BY <1>1, <1>3 DEF Nodes!Keystore, KeystoreFile, InitCommand
    <2>3. NodeTypes' /\ FileInv'
      BY <1>1, <2>1, <2>2 DEF NodeInv, NodeTypes, FileInv
    <2>4. InitInv'
      BY <2>1 DEF InitInv
    <2>5. QED
      BY <1>1, <2>3, <2>4, ServedAsBefore DEF NodeInv
  <1>4. QED
    BY <1>2, <1>3 DEF Nodes!WriteTmp, Nodes!Writes

LEMMA SetPermissionsStep ==
    ASSUME NodeInv, Nodes!SetPermissions
    PROVE  NodeInv'
  <1>1. /\ file' = file /\ drawn' = drawn /\ printed' = printed /\ daemon' = daemon
        /\ init.at = "written" /\ init \in InitCommand /\ tmp \in KeystoreFile
        /\ tmp' = Nodes!Private0600(tmp) /\ init' = [init EXCEPT !.at = "private"]
        /\ tmp = Nodes!Keystore(init.id, init.pw)
    BY DEF Nodes!SetPermissions, NodeInv, NodeTypes, InitInv
  <1>2. /\ init' \in InitCommand /\ init'.at = "private" /\ init'.id = init.id
        /\ init'.pw = init.pw /\ init'.force = init.force
    BY <1>1 DEF InitCommand
  <1>3. tmp' \in KeystoreFile
    BY <1>1 DEF Nodes!Private0600, KeystoreFile
  <1>4. NodeTypes' /\ FileInv'
    BY <1>1, <1>2, <1>3 DEF NodeInv, NodeTypes, FileInv
  <1>5. InitInv'
    BY <1>1, <1>2 DEF NodeInv, InitInv, Nodes!Exists, Nodes!Keystore, Nodes!Private0600
  <1>6. QED
    BY <1>1, <1>4, <1>5, ServedAsBefore DEF NodeInv

\* The rename puts a whole and private file in place; a daemon that opened the one
\* before it knows, and there is none without force.
LEMMA RenameStep ==
    ASSUME NodeInv, Nodes!Rename
    PROVE  NodeInv'
  <1>1. /\ file' = tmp /\ tmp' = Nodes!None /\ drawn' = drawn /\ printed' = printed
        /\ init.at = "private" /\ init \in InitCommand /\ init' = [init EXCEPT !.at = "print"]
        /\ daemon' = [daemon EXCEPT !.replaced = daemon.replaced \/ init.force]
        /\ drawn \in Nat /\ init.id = drawn /\ drawn > 0 /\ file.id < init.id
        /\ Nodes!Exists(file) => init.force
        /\ tmp = Nodes!Private0600(Nodes!Keystore(init.id, init.pw))
    BY DEF Nodes!Rename, NodeInv, NodeTypes, InitInv
  <1>2. /\ init' \in InitCommand /\ init'.at = "print" /\ init'.id = init.id
    BY <1>1 DEF InitCommand
  <1>3. /\ file' \in KeystoreFile /\ file'.id = drawn /\ file'.whole /\ file'.private
    BY <1>1 DEF Nodes!Private0600, Nodes!Keystore, KeystoreFile, InitCommand
  <1>4. file' # Nodes!None
    BY <1>1, <1>3 DEF Nodes!None
  <1>5. NodeTypes'
    BY <1>1, <1>2, <1>3 DEF NodeInv, NodeTypes, Nodes!None, KeystoreFile
  <1>6. FileInv' /\ InitInv'
    BY <1>1, <1>2, <1>3, <1>4 DEF FileInv, InitInv, Nodes!Exists
  <1>7. DaemonInv'
    <2> DEFINE replaced == daemon.replaced \/ init.force
    <2>1. replaced \in BOOLEAN /\ DaemonInv
      BY <1>1 DEF NodeInv, DaemonInv, InitCommand
    <2>2. daemon' = [daemon EXCEPT !.replaced = replaced]
      BY <1>1
    <2>3. replaced <=> daemon.replaced \/ init.force
      OBVIOUS
    <2> HIDE DEF replaced
    <2>4. /\ daemon' = [at |-> daemon.at, owner |-> daemon.owner, config |-> daemon.config,
                        replaced |-> replaced, eof |-> daemon.eof]
      BY <2>1, <2>2 DEF DaemonInv
    <2>5. /\ daemon'.at = daemon.at /\ daemon'.owner = daemon.owner
          /\ daemon'.replaced = replaced /\ daemon'.config = daemon.config
          /\ daemon'.eof = daemon.eof
      BY <2>4
    <2>6. (daemon.at # 0 /\ ~daemon.replaced) => replaced
      BY <1>1, <2>1, <2>3 DEF DaemonInv
    <2>7. daemon'.at = 0 \/ daemon'.replaced
      BY <2>3, <2>5, <2>6
    <2>8. QED
      BY <2>1, <2>4, <2>5, <2>7 DEF DaemonInv
  <1>8. Nodes!PrintedIsStored'
    <2> SUFFICES ASSUME NEW r \in printed PROVE Nodes!Exists(file') /\ r.ik <= file'.id
      BY <1>1 DEF Nodes!PrintedIsStored, Nodes!Exists
    <2>1. r.ik \in Nat /\ r.ik <= file.id /\ file.id \in Nat
      BY DEF NodeInv, NodeTypes, PrintedRecord, KeystoreFile, Nodes!PrintedIsStored
    <2>2. QED
      BY <1>1, <1>3, <1>4, <2>1 DEF Nodes!Exists
  <1>9. QED
    BY <1>5, <1>6, <1>7, <1>8 DEF NodeInv

\* A record that is printed is of the identity in the file.
LEMMA PrintStep ==
    ASSUME NodeInv, Nodes!PrintNew \/ \E pw \in Passphrase \union {NoPass} : Nodes!PrintRecord(pw)
    PROVE  NodeInv'
  <1>1. /\ file' = file /\ tmp' = tmp /\ drawn' = drawn /\ daemon' = daemon
        /\ printed' = printed \union {[ik |-> file.id]} /\ Nodes!Exists(file)
        /\ init' \in {init, Nodes!Idle}
    BY DEF Nodes!PrintNew, Nodes!PrintRecord, Nodes!Saved, Nodes!DmtapTxtRecord, NodeInv, InitInv
  <1>2. file.id \in Nat /\ init' \in InitCommand
    <2>1. Nodes!Idle \in InitCommand
      BY DEF Nodes!Idle, InitCommand
    <2>2. QED
      BY <1>1, <2>1 DEF NodeInv, NodeTypes, KeystoreFile
  <1>3. NodeTypes' /\ FileInv'
    BY <1>1, <1>2 DEF NodeInv, NodeTypes, FileInv, PrintedRecord
  <1>4. InitInv'
    <2>1. CASE init' = init
      BY <1>1, <2>1 DEF NodeInv, InitInv, Nodes!Exists
    <2>2. CASE init' = Nodes!Idle
      BY <2>2 DEF InitInv, Nodes!Idle
    <2>3. QED
      BY <1>1, <2>1, <2>2
  <1>5. DaemonInv'
    BY <1>1 DEF NodeInv, DaemonInv, Nodes!Exists
  <1>6. Nodes!PrintedIsStored'
    BY <1>1, <1>2 DEF NodeInv, Nodes!PrintedIsStored, Nodes!Exists
  <1>7. QED
    BY <1>3, <1>4, <1>5, <1>6 DEF NodeInv

LEMMA InitDiesStep ==
    ASSUME NodeInv, Nodes!InitDies
    PROVE  NodeInv'
  <1>1. /\ file' = file /\ tmp' = tmp /\ drawn' = drawn /\ printed' = printed
        /\ daemon' = daemon /\ init' = Nodes!Idle
    BY DEF Nodes!InitDies
  <1>2. NodeTypes' /\ FileInv' /\ InitInv'
    BY <1>1 DEF NodeInv, NodeTypes, FileInv, InitInv, Nodes!Idle, InitCommand
  <1>3. QED
    BY <1>1, <1>2, ServedAsBefore DEF NodeInv

\* A daemon that starts, opens a service, ends or sees its input close.
LEMMA DaemonStep ==
    ASSUME NodeInv, (\E c \in Nodes!Config : Nodes!LoadNode(c)) \/ Nodes!OpenService \/ Nodes!DaemonEnds \/ Nodes!StdinCloses
    PROVE  NodeInv'
  <1>1. /\ file' = file /\ tmp' = tmp /\ drawn' = drawn /\ init' = init /\ printed' = printed
    BY DEF Nodes!LoadNode, Nodes!OpenService, Nodes!DaemonEnds, Nodes!StdinCloses
  <1>2. NodeTypes' /\ FileInv' /\ InitInv' /\ Nodes!PrintedIsStored'
    BY <1>1 DEF NodeInv, NodeTypes, FileInv, InitInv, Nodes!PrintedIsStored, Nodes!Exists
  <1>3. DaemonInv
    BY DEF NodeInv
  <1>4. ASSUME NEW c \in Nodes!Config, Nodes!LoadNode(c)
        PROVE  DaemonInv'
    BY <1>1, <1>4 DEF Nodes!LoadNode, DaemonInv, Nodes!Exists
  <1>5. ASSUME Nodes!DaemonEnds
        PROVE  DaemonInv'
    <2>1. daemon' = [at |-> 0, owner |-> [s \in {"mesh"} |-> 0], config |-> <<>>,
                     replaced |-> FALSE, eof |-> FALSE]
      BY <1>5 DEF Nodes!DaemonEnds, Nodes!Off
    <2>2. daemon'.at = 0 /\ daemon'.replaced = FALSE /\ "mesh" \in DOMAIN daemon'.owner
      BY <2>1
    <2>3. daemon' = [at |-> daemon'.at, owner |-> daemon'.owner, config |-> daemon'.config,
                     replaced |-> daemon'.replaced, eof |-> daemon'.eof]
      BY <2>1
    <2>4. QED
      BY <2>2, <2>3 DEF DaemonInv
  <1>6. ASSUME Nodes!StdinCloses
        PROVE  DaemonInv'
    <2>1. daemon' = [at |-> daemon.at, owner |-> daemon.owner, config |-> daemon.config,
                     replaced |-> daemon.replaced, eof |-> TRUE]
      BY <1>3, <1>6 DEF Nodes!StdinCloses, DaemonInv
    <2>2. daemon' = [at |-> daemon'.at, owner |-> daemon'.owner, config |-> daemon'.config,
                     replaced |-> daemon'.replaced, eof |-> daemon'.eof]
      BY <2>1
    <2>3. /\ daemon'.at = daemon.at /\ daemon'.owner = daemon.owner
          /\ daemon'.replaced = daemon.replaced
      BY <2>1
    <2>4. QED
      BY <1>1, <1>3, <2>2, <2>3 DEF DaemonInv, Nodes!Exists
  <1>7. ASSUME Nodes!OpenService
        PROVE  DaemonInv'
    <2>1. daemon.at \in 1..Len(Nodes!Services)
      BY <1>7 DEF Nodes!OpenService
    <2>2. daemon.at # 0 /\ daemon.at + 1 # 0
      BY <2>1
    <2>3. ASSUME daemon' = [daemon EXCEPT !.at = daemon.at + 1]
          PROVE  DaemonInv'
      <3>1. daemon' = [at |-> daemon.at + 1, owner |-> daemon.owner, config |-> daemon.config,
                       replaced |-> daemon.replaced, eof |-> daemon.eof]
        BY <1>3, <2>3 DEF DaemonInv
      <3>2. daemon' = [at |-> daemon'.at, owner |-> daemon'.owner, config |-> daemon'.config,
                       replaced |-> daemon'.replaced, eof |-> daemon'.eof]
        BY <3>1
      <3>3. daemon'.owner = daemon.owner /\ daemon'.replaced = daemon.replaced
        BY <3>1
      <3>4. QED
        BY <1>1, <1>3, <2>2, <3>2, <3>3 DEF DaemonInv, Nodes!Exists
    <2>4. ASSUME NEW s, NEW id \in {file.id, daemon.owner["mesh"]}, daemon' = Nodes!Opened(s, id)
          PROVE  DaemonInv'
      <3>1. /\ daemon'.at = daemon.at + 1 /\ daemon'.replaced = daemon.replaced
            /\ daemon'.config = daemon.config /\ daemon'.eof = FALSE
            /\ daemon'.owner = [t \in DOMAIN daemon.owner \union {s} |->
                                  IF t = s THEN id ELSE daemon.owner[t]]
        BY <2>4 DEF Nodes!Opened
      <3>2. "mesh" \in DOMAIN daemon'.owner
        BY <1>3, <3>1 DEF DaemonInv
      <3>3. ASSUME ~daemon.replaced
            PROVE  Nodes!Exists(file) /\ \A t \in DOMAIN daemon'.owner : daemon'.owner[t] = file.id
        BY <1>3, <2>2, <3>1, <3>3 DEF DaemonInv
      <3>4. daemon' = [at |-> daemon'.at, owner |-> daemon'.owner, config |-> daemon'.config,
                       replaced |-> daemon'.replaced, eof |-> daemon'.eof]
        BY <2>4 DEF Nodes!Opened
      <3>5. QED
        BY <1>1, <1>3, <3>1, <3>2, <3>3, <3>4 DEF DaemonInv, Nodes!Exists
    <2>5. QED
      BY <1>7, <2>3, <2>4 DEF Nodes!OpenService
  <1>8. QED
    BY <1>2, <1>4, <1>5, <1>6, <1>7 DEF NodeInv

LEMMA NodeStep == NodeInv /\ [Nodes!Next]_Nodes!vars => NodeInv'
  <1> SUFFICES ASSUME NodeInv, [Nodes!Next]_Nodes!vars PROVE NodeInv'
    OBVIOUS
  <1>1. CASE UNCHANGED Nodes!vars
    BY <1>1 DEF Nodes!vars, NodeInv, NodeTypes, FileInv, InitInv, DaemonInv, Nodes!PrintedIsStored, Nodes!Exists
  <1>2. QED
    BY <1>1, InitIdentityStep, WriteTmpStep, SetPermissionsStep, RenameStep, PrintStep,
       InitDiesStep, DaemonStep DEF Nodes!Next

\* Whatever dies between two file-system calls, the keystore is whole and private, what
\* was printed is stored, and the services of a daemon belong to one identity
\* (main.rs cmd_init, keystore.rs save, daemon.rs serve).
THEOREM IdentityKept == Nodes!Spec => []Nodes!IdentityIsKept
  <1>1. NodeInv => Nodes!IdentityIsKept
    <2> SUFFICES ASSUME NodeInv PROVE Nodes!IdentityIsKept
      OBVIOUS
    <2>1. Nodes!KeystoreWhole /\ Nodes!PrintedIsStored
      BY DEF NodeInv, FileInv, Nodes!KeystoreWhole, Nodes!Exists
    <2>2. Nodes!OwnersAgree
      <3> SUFFICES ASSUME Nodes!Up, ~daemon.replaced, NEW s \in DOMAIN daemon.owner
                   PROVE  daemon.owner[s] = daemon.owner["mesh"]
        BY DEF Nodes!OwnersAgree
      <3>1. daemon.at # 0
        BY DEF Nodes!Up, Nodes!Services
      <3>2. QED
        BY <3>1 DEF NodeInv, DaemonInv
    <2>3. QED
      BY <2>1, <2>2 DEF Nodes!IdentityIsKept
  <1>2. QED
    BY <1>1, NodeInit, NodeStep, PTL DEF Nodes!Spec

-----------------------------------------------------------------------------
(* The desktop shell: secrets, the children it starts, the window's token. *)

CONSTANTS MaxLaunches, MaxTokens, Attempts
VARIABLES password, admin, keystore, stored, launch, pc, tries, token, minted, nodes, met

Shells == INSTANCE DesktopShell WITH saved <- stored

Child == [is: {"none", "starting", "serving", "gone"}, password: Nat, admin: Nat,
         keys: SUBSET Nat, supervised: BOOLEAN, eof: BOOLEAN]

BeforeChild == {"password", "admin", "init", "spawn"}    \* the steps of a launch without a child
WithChild == {"verify", "mint", "window", "running"}    \* and those with one

ShellTypes ==
    /\ password \in Nat /\ admin \in Nat /\ stored \in Nat /\ minted \in Nat
    /\ launch \in 0..MaxLaunches /\ pc \in {"off"} \union BeforeChild \union WithChild
    /\ nodes \in [1..MaxLaunches -> Child] /\ met \subseteq 1..MaxLaunches

\* A launch under way has a number, and no child before it spawns one.
LaunchInv ==
    /\ pc # "off" => launch # 0
    /\ pc \in BeforeChild => nodes[launch].is = "none"
    /\ \A n \in 1..MaxLaunches : n > launch => nodes[n].is = "none"

\* A secret that was drawn stays, and every child was given both.
SecretInv ==
    /\ pc \in {"admin", "init", "spawn"} \union WithChild => password # 0
    /\ pc \in {"init", "spawn"} \union WithChild => admin # 0
    /\ \A n \in 1..MaxLaunches : nodes[n].is # "none" =>
          /\ password # 0 /\ nodes[n].password = password
          /\ admin # 0 /\ nodes[n].admin = admin
          /\ nodes[n].supervised

\* The token is a key of a node this launch met; keys are only ever added.
TokenInv ==
    /\ Shells!Serving \subseteq met
    /\ \A n \in 1..MaxLaunches : nodes[n].is = "none" => nodes[n].keys = {}
    /\ token # 0 => \E n \in met : token \in nodes[n].keys

ShellInv == ShellTypes /\ LaunchInv /\ SecretInv /\ TokenInv /\ Shells!StrayNodesStop

(* Steps of the shell that touch no node.                                  *)

LEMMA ShellInit == Shells!ShellAssumption /\ Shells!Init => ShellInv
  <1> SUFFICES ASSUME Shells!ShellAssumption, Shells!Init PROVE ShellInv
    OBVIOUS
  <1>1. Shells!NoNode \in Child
    BY DEF Shells!NoNode, Child
  <1>2. nodes = [n \in 1..MaxLaunches |-> Shells!NoNode] /\ DOMAIN nodes = 1..MaxLaunches
        /\ nodes \in [1..MaxLaunches -> Child]
    BY <1>1 DEF Shells!Init
  <1>3. \A n \in 1..MaxLaunches : nodes[n].is = "none" /\ nodes[n].keys = {}
    BY <1>2 DEF Shells!NoNode
  <1>4. ShellTypes
    BY <1>2 DEF ShellTypes, Shells!Init, Shells!ShellAssumption
  <1>5. LaunchInv /\ SecretInv
    BY <1>3 DEF LaunchInv, SecretInv, Shells!Init, BeforeChild, WithChild
  <1>6. TokenInv /\ Shells!StrayNodesStop
    BY <1>2, <1>3 DEF TokenInv, Shells!StrayNodesStop, Shells!Serving, Shells!Alive, Shells!Init
  <1>7. QED
    BY <1>4, <1>5, <1>6 DEF ShellInv

\* What every state of the invariant says of its nodes.
LEMMA NodesTyped ==
    ASSUME ShellInv
    PROVE  /\ DOMAIN nodes = 1..MaxLaunches
           /\ \A n \in 1..MaxLaunches : nodes[n] \in Child
  BY DEF ShellInv, ShellTypes

LEMMA LaunchStep ==
    ASSUME Shells!ShellAssumption, ShellInv, Shells!Launch
    PROVE  ShellInv'
  <1>1. /\ pc = "off" /\ pc' = "password" /\ launch' = launch + 1 /\ token' = 0
        /\ met' = Shells!Serving /\ nodes' = nodes /\ password' = password /\ admin' = admin
        /\ stored' = stored /\ minted' = minted /\ launch < MaxLaunches
        /\ launch \in 0..MaxLaunches /\ MaxLaunches \in Nat
    BY DEF Shells!Launch, Shells!Goes, Shells!files, Shells!ShellAssumption, ShellInv, ShellTypes
  <1>2. ShellTypes'
    <2>1. Shells!Serving \subseteq 1..MaxLaunches
      BY NodesTyped DEF Shells!Serving
    <2>2. QED
      BY <1>1, <2>1 DEF ShellInv, ShellTypes, BeforeChild
  <1>3. LaunchInv'
    <2>1. launch + 1 \in 1..MaxLaunches /\ launch + 1 > launch /\ launch + 1 # 0
      BY <1>1
    <2>2. nodes[launch + 1].is = "none"
      BY <2>1 DEF ShellInv, LaunchInv
    <2>3. \A n \in 1..MaxLaunches : n > launch + 1 => n > launch
      BY <1>1
    <2>4. QED
      BY <1>1, <2>1, <2>2, <2>3 DEF ShellInv, LaunchInv
  <1>4. SecretInv'
    BY <1>1 DEF ShellInv, SecretInv, WithChild
  <1>5. TokenInv'
    BY <1>1 DEF ShellInv, TokenInv, Shells!Serving
  <1>6. Shells!StrayNodesStop'
    BY <1>1 DEF ShellInv, Shells!StrayNodesStop, Shells!Alive
  <1>7. QED
    BY <1>2, <1>3, <1>4, <1>5, <1>6 DEF ShellInv

\* A step of a launch under way: the secrets that are there stay.
LEMMA ShellMoves ==
    ASSUME ShellInv, UNCHANGED <<launch, minted, nodes, met>>,
           pc # "off", pc' \in BeforeChild \union WithChild, pc' \in BeforeChild => pc \in BeforeChild,
           password' \in Nat, admin' \in Nat, stored' \in Nat,
           password # 0 => password' = password, admin # 0 => admin' = admin,
           pc' # "password" => password' # 0,
           pc' \notin {"password", "admin"} => admin' # 0,
           token' = token \/ \E n \in met : token' \in nodes[n].keys
    PROVE  ShellInv'
  <1>1. ShellTypes'
    BY DEF ShellInv, ShellTypes
  <1>2. LaunchInv'
    BY DEF ShellInv, LaunchInv
  <1>3. SecretInv'
    <2>1. ASSUME NEW n \in 1..MaxLaunches, nodes[n].is # "none"
          PROVE  /\ password' # 0 /\ nodes[n].password = password'
                 /\ admin' # 0 /\ nodes[n].admin = admin'
                 /\ nodes[n].supervised
      BY <2>1 DEF ShellInv, SecretInv
    <2>2. QED
      BY <2>1 DEF SecretInv, BeforeChild, WithChild
  <1>4. TokenInv'
    BY DEF ShellInv, TokenInv, Shells!Serving
  <1>5. Shells!StrayNodesStop'
    BY DEF ShellInv, Shells!StrayNodesStop, Shells!Alive, BeforeChild, WithChild
  <1>6. QED
    BY <1>1, <1>2, <1>3, <1>4, <1>5 DEF ShellInv

LEMMA LoadStep ==
    ASSUME ShellInv, Shells!LoadPassword \/ Shells!LoadAdmin \/ Shells!RunNodeInit
    PROVE  ShellInv'
  <1>1. launch \in Nat /\ password \in Nat /\ admin \in Nat /\ stored \in Nat
        /\ (pc # "off" => launch # 0)
    BY DEF ShellInv, ShellTypes, LaunchInv
  <1>2. CASE Shells!LoadPassword
    <2>1. /\ pc = "password" /\ pc' = "admin" /\ admin' = admin /\ stored' = stored
          /\ UNCHANGED <<launch, token, minted, nodes, met>>
          /\ password' = IF password = 0 THEN launch ELSE password
      BY <1>2 DEF Shells!LoadPassword, Shells!Goes, Shells!LoadOrCreate
    <2>2. QED
      BY <1>1, <2>1, ShellMoves DEF BeforeChild, WithChild
  <1>3. CASE Shells!LoadAdmin
    <2>1. /\ pc = "admin" /\ pc' = "init" /\ password' = password /\ stored' = stored
          /\ UNCHANGED <<launch, token, minted, nodes, met>>
          /\ admin' = IF admin = 0 THEN launch ELSE admin
      BY <1>3 DEF Shells!LoadAdmin, Shells!Goes, Shells!LoadOrCreate
    <2>2. password # 0
      BY <2>1 DEF ShellInv, SecretInv
    <2>3. QED
      BY <1>1, <2>1, <2>2, ShellMoves DEF BeforeChild, WithChild
  <1>4. CASE Shells!RunNodeInit
    <2>1. /\ pc = "init" /\ pc' = "spawn" /\ password' = password /\ stored' = stored
          /\ admin' = admin /\ UNCHANGED <<launch, token, minted, nodes, met>>
      BY <1>4 DEF Shells!RunNodeInit, Shells!Goes
    <2>2. password # 0 /\ admin # 0
      BY <2>1 DEF ShellInv, SecretInv
    <2>3. QED
      BY <1>1, <2>1, <2>2, ShellMoves DEF BeforeChild, WithChild
  <1>5. QED
    BY <1>2, <1>3, <1>4

\* The file's token is used only when a node this launch met has it.
LEMMA VerifyStep ==
    ASSUME ShellInv, Shells!Verify \/ Shells!BuildWindow
    PROVE  ShellInv'
  <1>1. /\ pc \in {"verify", "window"} /\ UNCHANGED <<Shells!files, launch, minted, nodes, met>>
        /\ pc' \in {"verify", "mint", "window", "running"}
    BY DEF Shells!Verify, Shells!BuildWindow, Shells!Goes, Shells!TryAgain
  <1>2. token' = token \/ \E n \in met : token' \in nodes[n].keys
    <2>1. CASE Shells!BuildWindow
      BY <2>1 DEF Shells!BuildWindow
    <2>2. CASE Shells!Verify
      <3>1. token' = token \/ \E n \in Shells!Serving : Shells!Honoured(n) /\ token' = stored
        BY <2>2 DEF Shells!Verify
      <3>2. QED
        BY <3>1 DEF Shells!Honoured, ShellInv, TokenInv
    <2>3. QED
      BY <2>1, <2>2
  <1>3. password # 0 /\ admin # 0
    BY <1>1 DEF ShellInv, SecretInv, WithChild
  <1>4. password' = password /\ admin' = admin /\ stored' = stored
        /\ password \in Nat /\ admin \in Nat /\ stored \in Nat
    BY <1>1 DEF Shells!files, ShellInv, ShellTypes
  <1>5. QED
    BY <1>1, <1>2, <1>3, <1>4, ShellMoves DEF BeforeChild, WithChild

(* Steps that change a node.                                               *)

\* What may become of a node: it keeps what it was given and every key, and does not
\* come back.
Turned(old, new) ==
    /\ new.is = "none" <=> old.is = "none"
    /\ new.is \in {"starting", "serving"} => old.is \in {"starting", "serving"}
    /\ new.password = old.password /\ new.admin = old.admin /\ new.supervised = old.supervised
    /\ old.keys \subseteq new.keys
    /\ old.is = "none" => new.keys = old.keys
    /\ old.eof => new.eof

LEMMA NodeTurns ==
    ASSUME ShellInv, NEW k \in 1..MaxLaunches, NEW r \in Child, Turned(nodes[k], r),
           nodes' = [nodes EXCEPT ![k] = r],
           UNCHANGED <<password, admin, launch>>, stored' \in Nat, minted' \in Nat,
           met \subseteq met', met' \subseteq 1..MaxLaunches, r.is = "serving" => k \in met',
           token' = token \/ (token' \in r.keys /\ k \in met'),
           \/ pc' = pc
           \/ pc = "mint" /\ pc' = "window"
           \/ pc' = "off" /\ k = launch /\ (r.is \in {"starting", "serving"} => r.eof)
    PROVE  ShellInv'
  <1>1. /\ DOMAIN nodes = 1..MaxLaunches /\ DOMAIN nodes' = 1..MaxLaunches
        /\ \A n \in 1..MaxLaunches : nodes[n] \in Child
        /\ \A n \in 1..MaxLaunches : nodes'[n] = IF n = k THEN r ELSE nodes[n]
    BY NodesTyped
  <1>2. ShellTypes'
    BY <1>1 DEF ShellInv, ShellTypes, WithChild
  <1>3. \A n \in 1..MaxLaunches : nodes'[n].is = "none" <=> nodes[n].is = "none"
    BY <1>1 DEF Turned
  <1>4. LaunchInv'
    <2>1. pc' \in BeforeChild => pc' = pc
      BY DEF BeforeChild
    <2>2. (pc # "off" => launch # 0) /\ launch \in 0..MaxLaunches
      BY DEF ShellInv, ShellTypes, LaunchInv
    <2>3. pc' # "off" => launch' # 0
      BY <2>2
    <2>4. pc' \in BeforeChild => nodes'[launch'].is = "none"
      <3> SUFFICES ASSUME pc' \in BeforeChild PROVE nodes'[launch'].is = "none"
        OBVIOUS
      <3>1. pc # "off" /\ nodes[launch].is = "none"
        BY <2>1 DEF ShellInv, LaunchInv, BeforeChild
      <3>2. launch \in 1..MaxLaunches
        BY <2>2, <3>1
      <3>3. QED
        BY <1>3, <3>1, <3>2
    <2>5. QED
      BY <1>3, <2>3, <2>4 DEF ShellInv, LaunchInv
  <1>5. SecretInv'
    <2>1. ASSUME NEW n \in 1..MaxLaunches, nodes'[n].is # "none"
          PROVE  /\ password # 0 /\ nodes'[n].password = password
                 /\ admin # 0 /\ nodes'[n].admin = admin
                 /\ nodes'[n].supervised
      <3>1. nodes[n].is # "none"
        BY <1>3, <2>1
      <3>2. /\ nodes'[n].password = nodes[n].password /\ nodes'[n].admin = nodes[n].admin
            /\ nodes'[n].supervised = nodes[n].supervised
        BY <1>1 DEF Turned
      <3>3. QED
        BY <3>1, <3>2 DEF ShellInv, SecretInv
    <2>2. QED
      BY <2>1 DEF ShellInv, SecretInv, WithChild
  <1>6. TokenInv'
    <2>1. \A n \in 1..MaxLaunches : nodes[n].keys \subseteq nodes'[n].keys
      BY <1>1 DEF Turned
    <2>2. Shells!Serving' \subseteq met'
      <3> SUFFICES ASSUME NEW n \in 1..MaxLaunches, nodes'[n].is = "serving" PROVE n \in met'
        BY <1>1 DEF Shells!Serving
      <3>1. CASE n = k
        BY <1>1, <3>1
      <3>2. CASE n # k
        BY <1>1, <3>2 DEF ShellInv, TokenInv, Shells!Serving
      <3>3. QED
        BY <3>1, <3>2
    <2>3. \A n \in 1..MaxLaunches : nodes'[n].is = "none" => nodes'[n].keys = {}
      BY <1>1 DEF ShellInv, TokenInv, Turned
    <2>4. token' # 0 => \E n \in met' : token' \in nodes'[n].keys
      <3>1. CASE token' = token
        BY <2>1, <3>1 DEF ShellInv, TokenInv, ShellTypes
      <3>2. CASE token' \in r.keys /\ k \in met'
        BY <1>1, <3>2
      <3>3. QED
        BY <3>1, <3>2
    <2>5. QED
      BY <2>2, <2>3, <2>4 DEF TokenInv
  <1>7. Shells!StrayNodesStop'
    <2> SUFFICES ASSUME NEW n \in 1..MaxLaunches, nodes'[n].is \in {"starting", "serving"}
                 PROVE  \/ n = launch /\ pc' # "off"
                        \/ nodes'[n].eof /\ nodes'[n].supervised
      BY <1>1 DEF Shells!StrayNodesStop, Shells!Alive
    <2>1. /\ nodes[n].is \in {"starting", "serving"} /\ nodes'[n].supervised = nodes[n].supervised
          /\ nodes[n].eof => nodes'[n].eof
      BY <1>1 DEF Turned
    <2>2. (n = launch /\ pc # "off") \/ (nodes[n].eof /\ nodes[n].supervised)
      BY <1>1, <2>1 DEF ShellInv, Shells!StrayNodesStop, Shells!Alive
    <2>3. nodes[n].supervised
      BY <2>1 DEF ShellInv, SecretInv
    <2>4. CASE pc' = "off" /\ k = launch /\ (r.is \in {"starting", "serving"} => r.eof)
      BY <1>1, <2>1, <2>2, <2>3, <2>4
    <2>5. CASE pc' = pc \/ (pc = "mint" /\ pc' = "window")
      BY <2>1, <2>2, <2>5
    <2>6. QED
      BY <2>4, <2>5
  <1>8. QED
    BY <1>2, <1>4, <1>5, <1>6, <1>7 DEF ShellInv

\* The key minted at a node that serves is its, and this launch has met it.
LEMMA MintStep ==
    ASSUME ShellInv, Shells!Mint
    PROVE  ShellInv'
  <1>1. /\ pc = "mint" /\ UNCHANGED <<password, admin, launch, met>>
        /\ password \in Nat /\ admin \in Nat /\ stored \in Nat /\ minted \in Nat
        /\ met \subseteq 1..MaxLaunches /\ Shells!Serving \subseteq met
    BY DEF Shells!Mint, ShellInv, ShellTypes, TokenInv
  <1>2. CASE UNCHANGED <<stored, token, minted, nodes>> /\ pc' \in {"verify", "window"}
    <2>1. password # 0 /\ admin # 0
      BY <1>1 DEF ShellInv, SecretInv, WithChild
    <2>2. QED
      BY <1>1, <1>2, <2>1, ShellMoves DEF BeforeChild, WithChild
  <1>3. ASSUME NEW n \in Shells!Serving,
               minted' = minted + 1, nodes' = [nodes EXCEPT ![n].keys = @ \union {minted'}],
               stored' \in {stored, minted'}, token' = minted', pc' = "window"
        PROVE  ShellInv'
    <2> DEFINE more == nodes[n].keys \union {minted'}
               r == [nodes[n] EXCEPT !.keys = more]
    <2>1. n \in 1..MaxLaunches /\ nodes[n] \in Child /\ nodes[n].is = "serving"
      BY NodesTyped DEF Shells!Serving
    <2>2. minted' \in Nat /\ stored' \in Nat /\ token' \in more /\ nodes[n].keys \subseteq more
      BY <1>1, <1>3
    <2>3. more \in SUBSET Nat
      BY <2>1, <2>2 DEF Child
    <2>4. nodes' = [nodes EXCEPT ![n] = r]
      BY <1>3, <2>1, NodesTyped
    <2> HIDE DEF more
    <2>5. /\ r \in Child /\ r.is = nodes[n].is /\ r.password = nodes[n].password
          /\ r.admin = nodes[n].admin /\ r.supervised = nodes[n].supervised
          /\ r.eof = nodes[n].eof /\ r.keys = more
      BY <2>1, <2>3 DEF Child
    <2> HIDE DEF r
    <2>6. Turned(nodes[n], r)
      BY <2>1, <2>2, <2>5 DEF Turned
    <2>7. token' \in r.keys /\ n \in met'
      BY <1>1, <2>2, <2>5
    <2>8. QED
      BY <1>1, <1>3, <2>1, <2>2, <2>4, <2>5, <2>6, <2>7, NodeTurns
  <1>4. QED
    <2>1. CASE Shells!Serving = {}
      BY <1>2, <2>1 DEF Shells!Mint, Shells!TryAgain, Shells!Goes
    <2>2. ASSUME NEW n \in Shells!Serving,
                 IF nodes[n].admin # admin
                 THEN Shells!Goes("window") /\ UNCHANGED <<stored, tries, token, minted, nodes>>
                 ELSE /\ minted < MaxTokens /\ minted' = minted + 1
                      /\ nodes' = [nodes EXCEPT ![n].keys = @ \union {minted'}]
                      /\ stored' \in {stored, minted'}
                      /\ token' = minted' /\ Shells!Goes("window") /\ UNCHANGED tries
          PROVE  ShellInv'
      BY <1>2, <1>3, <2>2 DEF Shells!Goes
    <2>3. QED
      BY <2>1, <2>2 DEF Shells!Mint

\* A child is spawned with the secrets as they are.
LEMMA SpawnStep ==
    ASSUME ShellInv, Shells!SpawnNodeRun
    PROVE  ShellInv'
  <1>1. /\ pc = "spawn" /\ pc' = "verify" /\ UNCHANGED <<Shells!files, launch, token, minted, met>>
        /\ nodes' = [nodes EXCEPT ![launch] = Shells!NodeEnv(launch)]
    BY DEF Shells!SpawnNodeRun, Shells!Goes
  <1>2. /\ password' = password /\ admin' = admin /\ stored' = stored
        /\ password \in Nat /\ admin \in Nat /\ password # 0 /\ admin # 0
    BY <1>1 DEF Shells!files, ShellInv, ShellTypes, SecretInv
  <1>3. launch \in 1..MaxLaunches /\ nodes[launch].is = "none"
    BY <1>1 DEF ShellInv, ShellTypes, LaunchInv, BeforeChild
  <1> DEFINE r == Shells!NodeEnv(launch)
  <1>4. /\ r \in Child /\ r.is = "starting" /\ r.password = password /\ r.admin = admin
        /\ r.supervised
    BY <1>2 DEF Shells!NodeEnv, Shells!NoNode, Child
  <1> HIDE DEF r
  <1>5. /\ DOMAIN nodes = 1..MaxLaunches /\ DOMAIN nodes' = 1..MaxLaunches
        /\ \A n \in 1..MaxLaunches : nodes'[n] = IF n = launch THEN r ELSE nodes[n]
    BY <1>1, NodesTyped DEF r
  <1>6. ShellTypes'
    BY <1>1, <1>2, <1>4 DEF ShellInv, ShellTypes, WithChild, r
  <1>7. LaunchInv'
    BY <1>1, <1>3, <1>5 DEF ShellInv, LaunchInv, ShellTypes, BeforeChild
  <1>8. SecretInv'
    BY <1>1, <1>2, <1>4, <1>5 DEF ShellInv, SecretInv
  <1>9. TokenInv'
    <2>1. Shells!Serving' \subseteq met'
      BY <1>1, <1>4, <1>5 DEF ShellInv, TokenInv, Shells!Serving
    <2>2. \A n \in 1..MaxLaunches : nodes'[n].is = "none" => nodes'[n].keys = {}
      BY <1>4, <1>5 DEF ShellInv, TokenInv
    <2>3. nodes[launch].keys = {}
      BY <1>3 DEF ShellInv, TokenInv
    <2>4. token # 0 => \E n \in met : token \in nodes'[n].keys
      BY <1>5, <2>3 DEF ShellInv, TokenInv, ShellTypes
    <2>5. QED
      BY <1>1, <2>1, <2>2, <2>4 DEF TokenInv
  <1>10. Shells!StrayNodesStop'
    BY <1>1, <1>5 DEF ShellInv, Shells!StrayNodesStop, Shells!Alive
  <1>11. QED
    BY <1>6, <1>7, <1>8, <1>9, <1>10 DEF ShellInv

\* The shell ends: it kills its child, or the child's input closes.
LEMMA EndStep ==
    ASSUME ShellInv, Shells!Quit \/ Shells!Killed
    PROVE  ShellInv'
  <1>1. /\ pc # "off" /\ pc' = "off" /\ UNCHANGED <<Shells!files, launch, token, minted, met>>
    BY DEF Shells!Quit, Shells!Killed, Shells!Goes
  <1>2. /\ launch \in 1..MaxLaunches /\ stored' \in Nat /\ minted' \in Nat
        /\ password' = password /\ admin' = admin
        /\ met \subseteq 1..MaxLaunches /\ Shells!Serving \subseteq met
    BY <1>1 DEF Shells!files, ShellInv, ShellTypes, LaunchInv, TokenInv
  <1> DEFINE old == nodes[launch]
  <1>3. old \in Child /\ DOMAIN nodes = 1..MaxLaunches
    BY <1>2, NodesTyped
  <1>4. CASE Shells!Quit
    <2> DEFINE is == IF old.is = "none" THEN "none" ELSE "gone"
               r == [old EXCEPT !.is = is]
    <2>1. nodes' = [nodes EXCEPT ![launch] = r]
      BY <1>2, <1>3, <1>4 DEF Shells!Quit, Shells!KillNode
    <2>2. is \in {"none", "gone"} /\ (is = "none" <=> old.is = "none")
      OBVIOUS
    <2> HIDE DEF is, old
    <2>3. /\ r \in Child /\ r.is = is /\ r.password = old.password /\ r.admin = old.admin
          /\ r.supervised = old.supervised /\ r.eof = old.eof /\ r.keys = old.keys
      BY <1>3, <2>2 DEF Child
    <2> HIDE DEF r
    <2>4. Turned(old, r)
      BY <2>2, <2>3 DEF Turned
    <2>5. QED
      BY <1>1, <1>2, <2>1, <2>2, <2>3, <2>4, NodeTurns DEF old
  <1>5. CASE Shells!Killed
    <2> DEFINE r == [old EXCEPT !.eof = TRUE]
    <2>1. nodes' = [nodes EXCEPT ![launch] = r]
      BY <1>2, <1>3, <1>5 DEF Shells!Killed
    <2>2. old.is = "serving" => launch \in met
      BY <1>2, <1>3 DEF Shells!Serving
    <2> HIDE DEF old
    <2>3. /\ r \in Child /\ r.is = old.is /\ r.password = old.password /\ r.admin = old.admin
          /\ r.supervised = old.supervised /\ r.eof = TRUE /\ r.keys = old.keys
      BY <1>3 DEF Child
    <2> HIDE DEF r
    <2>4. Turned(old, r)
      BY <2>3 DEF Turned
    <2>5. QED
      BY <1>1, <1>2, <2>1, <2>2, <2>3, <2>4, NodeTurns DEF old
  <1>6. QED
    BY <1>4, <1>5

\* A child binds its ports or ends.
LEMMA NodeMoves ==
    ASSUME ShellInv, NEW n \in DOMAIN nodes, Shells!NodeBinds(n) \/ Shells!NodeSeesEof(n) \/ Shells!NodeEnds(n)
    PROVE  ShellInv'
  <1> DEFINE old == nodes[n]
  <1>1. /\ old \in Child /\ n \in 1..MaxLaunches /\ DOMAIN nodes = 1..MaxLaunches
        /\ UNCHANGED <<Shells!files, launch, pc, token, minted>>
        /\ old.is \in {"starting", "serving"}
    BY NodesTyped DEF Shells!NodeBinds, Shells!NodeSeesEof, Shells!NodeEnds
  <1>2. PICK is \in {"serving", "gone"} :
           /\ nodes' = [nodes EXCEPT ![n].is = is]
           /\ met \subseteq met' /\ met' \subseteq met \union {n}
           /\ is = "serving" => n \in met'
    <2>1. CASE Shells!NodeBinds(n)
      <3>1. CASE Shells!Serving = {}
        BY <2>1, <3>1 DEF Shells!NodeBinds
      <3>2. CASE Shells!Serving # {}
        BY <2>1, <3>2 DEF Shells!NodeBinds
      <3>3. QED
        BY <3>1, <3>2
    <2>2. CASE Shells!NodeSeesEof(n) \/ Shells!NodeEnds(n)
      BY <2>2 DEF Shells!NodeSeesEof, Shells!NodeEnds
    <2>3. QED
      BY <2>1, <2>2
  <1> DEFINE r == [old EXCEPT !.is = is]
  <1>3. nodes' = [nodes EXCEPT ![n] = r]
    BY <1>1, <1>2
  <1> HIDE DEF old
  <1>4. /\ r \in Child /\ r.is = is /\ r.password = old.password /\ r.admin = old.admin
        /\ r.supervised = old.supervised /\ r.eof = old.eof /\ r.keys = old.keys
    BY <1>1 DEF Child
  <1> HIDE DEF r
  <1>5. Turned(old, r)
    BY <1>1, <1>4 DEF Turned
  <1>6. /\ stored' \in Nat /\ minted' \in Nat /\ password' = password /\ admin' = admin
        /\ met' \subseteq 1..MaxLaunches
    BY <1>1, <1>2 DEF Shells!files, ShellInv, ShellTypes
  <1>7. QED
    BY <1>1, <1>2, <1>3, <1>4, <1>5, <1>6, NodeTurns DEF old

LEMMA ShellStep == Shells!ShellAssumption /\ ShellInv /\ [Shells!Next]_Shells!vars => ShellInv'
  <1> SUFFICES ASSUME Shells!ShellAssumption, ShellInv, [Shells!Next]_Shells!vars PROVE ShellInv'
    OBVIOUS
  <1>1. CASE UNCHANGED Shells!vars
    BY <1>1 DEF Shells!vars, ShellInv, ShellTypes, LaunchInv, SecretInv, TokenInv, Shells!StrayNodesStop, Shells!Serving, Shells!Alive
  <1>2. QED
    BY <1>1, LaunchStep, LoadStep, VerifyStep, MintStep, SpawnStep, EndStep, NodeMoves DEF Shells!Next

\* Whatever kills the shell or a child and however often it is launched again, the node
\* that has the ports takes the window's password, the window's token is one a node it met
\* minted, and a child that is left behind stops (lib.rs run, load_or_create_secret,
\* provision_send_token, kill_node).
THEOREM LaunchesAlwaysAgree ==
    ASSUME Shells!ShellAssumption
    PROVE  Shells!Spec => []Shells!LaunchesAgree
  <1>1. ShellInv => Shells!LaunchesAgree
    <2> SUFFICES ASSUME ShellInv PROVE Shells!LaunchesAgree
      OBVIOUS
    <2>1. Shells!PasswordIsStable
      BY NodesTyped DEF ShellInv, SecretInv, Shells!PasswordIsStable, Shells!Serving
    <2>2. Shells!TokenWasHonoured
      BY DEF ShellInv, TokenInv, Shells!TokenWasHonoured
    <2>3. Shells!StrayNodesStop
      BY DEF ShellInv
    <2>4. QED
      BY <2>1, <2>2, <2>3 DEF Shells!LaunchesAgree
  <1>2. QED
    BY <1>1, ShellInit, ShellStep, PTL DEF Shells!Spec

-----------------------------------------------------------------------------
(* The committers of a group on the sides of a partition.                  *)

CONSTANTS Committer, Member, MaxLog
VARIABLES branch, vote

Commits == INSTANCE CommitLog

LEMMA SameCount == \A S : /\ Commits!Cardinality(S) = Cardinality(S)
                          /\ Commits!IsFiniteSet(S) <=> IsFiniteSet(S)
  BY DEF Commits!Cardinality, Cardinality, Commits!IsFiniteSet, IsFiniteSet

Commit == Committer \X Nat

Branch == [log: Seq(Commit), links: Seq(Seq(Commit)), headLink: Seq(Commit),
           rosterSize: {0, Cardinality(Member)}, acks: [Commits!Position -> SUBSET Member],
           confirmed: SUBSET Commits!Position, suspended: BOOLEAN]

\* The links of a log: each hashes the entries up to its own.
ChainOf(log) == [i \in DOMAIN log |-> SubSeq(log, 1, i)]

\* A branch in order: its links chain its log, and it confirmed and counted acks
\* at positions its log has.
WellFormed(b) ==
    /\ b \in Branch
    /\ b.links = ChainOf(b.log) /\ b.headLink = b.log
    /\ b.confirmed \subseteq DOMAIN b.log
    /\ \A s \in Commits!Position : b.acks[s] # {} => s \in DOMAIN b.log

BranchInv ==
    /\ \A c \in Committer : WellFormed(branch[c])
    /\ DOMAIN branch = Committer
    /\ vote \in [Member -> [Commits!Position -> Commit \union {Commits!Nothing}]]

\* No committer has confirmed anything at position s yet.
Open(s) == \A c \in Committer : s \notin branch[c].confirmed

IsQuorum(Q) == Q \subseteq Member /\ Cardinality(Q) >= Cardinality(Member) \div 2 + 1

\* Q stands for x at s: its members hold x, and acked nothing else anywhere.
Backs(Q, s, x) ==
    \A m \in Q :
        /\ vote[m][s] = x
        /\ \A d \in Committer : m \in branch[d].acks[s] => branch[d].log[s] = x

\* Before anything is confirmed at s every ack there is its member's vote; after
\* that a quorum stands for whatever is confirmed there.
VoteAt(s) ==
    /\ Open(s) =>
          \A c \in Committer : \A m \in branch[c].acks[s] : vote[m][s] = branch[c].log[s]
    /\ \A c \in Committer : s \in branch[c].confirmed =>
          \E Q : IsQuorum(Q) /\ Backs(Q, s, branch[c].log[s])

VoteInv == \A s \in Commits!Position : VoteAt(s)

-----------------------------------------------------------------------------
(* LinksConsistent: what the operations make of a branch.                  *)

\* The links of a log are sequences of commits.
LEMMA ChainType ==
    ASSUME NEW log \in Seq(Commit)
    PROVE  /\ ChainOf(log) \in Seq(Seq(Commit))
           /\ Len(ChainOf(log)) = Len(log)
           /\ \A i \in 1..Len(log) : ChainOf(log)[i] = SubSeq(log, 1, i)
  <1>1. Len(log) \in Nat /\ DOMAIN log = 1..Len(log) /\ \A i \in 1..Len(log) : log[i] \in Commit
    BY LenProperties, ElementOfSeq
  <1>2. \A i \in 1..Len(log) : SubSeq(log, 1, i) \in Seq(Commit)
    BY <1>1, SubSeqProperties
  <1>3. ChainOf(log) \in [1..Len(log) -> Seq(Commit)]
    BY <1>1, <1>2 DEF ChainOf
  <1>4. QED
    BY <1>1, <1>3 DEF ChainOf

\* A prefix of a log is the same prefix of the log one commit later.
LEMMA PrefixOfAppend ==
    ASSUME NEW log \in Seq(Commit), NEW x \in Commit, NEW i \in 1..Len(log)
    PROVE  SubSeq(Append(log, x), 1, i) = SubSeq(log, 1, i)
  <1>1. <<x>> \in Seq(Commit) /\ Append(log, x) = log \o <<x>>
    BY AppendIsConcat
  <1>2. Len(log) \in Nat /\ 1 \in 1..Len(log)
    BY LenProperties
  <1>3. QED
    BY <1>1, <1>2, SubSeqOfConcat1

\* Appending a commit appends the whole log so far as its link.
LEMMA ChainAppend ==
    ASSUME NEW log \in Seq(Commit), NEW x \in Commit
    PROVE  Append(ChainOf(log), Append(log, x)) = ChainOf(Append(log, x))
  <1> DEFINE new == Append(log, x)
             L == Append(ChainOf(log), new)
  <1>1. /\ Len(log) \in Nat /\ new \in Seq(Commit) /\ Len(new) = Len(log) + 1
        /\ \A i \in 1..Len(log) : new[i] = log[i]
    BY LenProperties, AppendProperties
  <1>2. \A i \in 1..Len(log) : SubSeq(new, 1, i) = SubSeq(log, 1, i)
    BY PrefixOfAppend
  <1>3. SubSeq(new, 1, Len(new)) = new
    BY <1>1, SubSeqFull
  <1> HIDE DEF new
  <1>4. /\ L \in Seq(Seq(Commit)) /\ Len(L) = Len(log) + 1
        /\ \A i \in 1..Len(log) : L[i] = ChainOf(log)[i]
        /\ L[Len(log) + 1] = new
    BY <1>1, ChainType, AppendProperties
  <1>5. /\ ChainOf(new) \in Seq(Seq(Commit)) /\ Len(ChainOf(new)) = Len(new)
        /\ \A i \in 1..Len(new) : ChainOf(new)[i] = SubSeq(new, 1, i)
    BY <1>1, ChainType
  <1> HIDE DEF L
  <1>6. ASSUME NEW i \in 1..Len(L)
        PROVE  L[i] = ChainOf(new)[i]
    <2>1. CASE i = Len(log) + 1
      BY <1>1, <1>3, <1>4, <1>5, <2>1
    <2>2. CASE i # Len(log) + 1
      <3>1. i \in 1..Len(log) /\ i \in 1..Len(new)
        BY <1>1, <1>4, <2>2
      <3>2. L[i] = SubSeq(log, 1, i)
        BY <1>4, <3>1, ChainType
      <3>3. ChainOf(new)[i] = SubSeq(log, 1, i)
        BY <1>2, <1>5, <3>1
      <3>4. QED
        BY <3>2, <3>3
    <2>3. QED
      BY <2>1, <2>2
  <1>7. L = ChainOf(new)
    BY <1>1, <1>4, <1>5, <1>6, SeqEqual
  <1>8. QED
    BY <1>7 DEF L, new

\* Logs that agree before s have the same links before s.
LEMMA SamePrefix ==
    ASSUME NEW log \in Seq(Commit), NEW new \in Seq(Commit), NEW k \in Nat,
           k <= Len(log), k <= Len(new), \A i \in 1..k : new[i] = log[i]
    PROVE  SubSeq(new, 1, k) = SubSeq(log, 1, k)
  <1>1. /\ Len(log) \in Nat /\ Len(new) \in Nat
        /\ \A i \in 1..k : log[i] \in Commit /\ new[i] \in Commit
    BY LenProperties, ElementOfSeq
  <1>2. /\ SubSeq(log, 1, k) \in Seq(Commit) /\ SubSeq(new, 1, k) \in Seq(Commit)
        /\ Len(SubSeq(log, 1, k)) = k /\ Len(SubSeq(new, 1, k)) = k
        /\ \A i \in 1..k : SubSeq(log, 1, k)[i] = log[i]
        /\ \A i \in 1..k : SubSeq(new, 1, k)[i] = new[i]
    BY <1>1, SubSeqProperties
  <1>3. QED
    BY <1>2, SeqEqual

\* recompute_links_from: the links behind a replaced commit chain the new log.
LEMMA RelinkedChains ==
    ASSUME NEW log \in Seq(Commit), NEW new \in Seq(Commit), NEW s \in 1..Len(new),
           s <= Len(log) + 1, \A i \in 1..(s - 1) : new[i] = log[i]
    PROVE  Commits!Relinked(new, ChainOf(log), s) = ChainOf(new)
  <1>1. Len(log) \in Nat /\ Len(new) \in Nat /\ DOMAIN new = 1..Len(new)
    BY LenProperties
  <1>2. \A i \in 1..(s - 1) : ChainOf(log)[i] = SubSeq(new, 1, i)
    <2> SUFFICES ASSUME NEW i \in 1..(s - 1)
                 PROVE  ChainOf(log)[i] = SubSeq(new, 1, i)
      OBVIOUS
    <2>1. i \in 1..Len(log) /\ i \in Nat /\ i <= Len(log) /\ i <= Len(new)
      BY <1>1
    <2>2. \A j \in 1..i : new[j] = log[j]
      BY <1>1, <2>1
    <2>3. SubSeq(new, 1, i) = SubSeq(log, 1, i)
      BY <2>1, <2>2, SamePrefix
    <2>4. QED
      BY <2>1, <2>3, ChainType
  <1>3. ASSUME NEW i \in s..Len(new)
        PROVE  (IF s = 1 THEN <<>> ELSE ChainOf(log)[s - 1]) \o SubSeq(new, s, i)
                  = SubSeq(new, 1, i)
    <2>1. i \in Nat /\ SubSeq(new, s, i) \in Seq(Commit)
      <3>1. \A j \in s..i : new[j] \in Commit
        BY <1>1, ElementOfSeq
      <3>2. QED
        BY <1>1, <3>1, SubSeqProperties
    <2>2. CASE s = 1
      BY <2>1, <2>2, ConcatEmptySeq
    <2>3. CASE s # 1
      <3>1. ChainOf(log)[s - 1] = SubSeq(new, 1, s - 1)
        BY <1>1, <1>2, <2>3
      <3>2. 1 \in 1..Len(new) + 1 /\ s - 1 \in 0..Len(new) /\ i \in (s - 1)..Len(new)
            /\ (s - 1) + 1 = s
        BY <1>1
      <3>3. SubSeq(new, 1, s - 1) \o SubSeq(new, (s - 1) + 1, i) = SubSeq(new, 1, i)
        BY <3>2, ConcatAdjacentSubSeq
      <3>4. QED
        BY <2>3, <3>1, <3>2, <3>3
    <2>4. QED
      BY <2>2, <2>3
  <1>4. ASSUME NEW i \in DOMAIN new
        PROVE  (IF i < s THEN ChainOf(log)[i]
                ELSE (IF s = 1 THEN <<>> ELSE ChainOf(log)[s - 1]) \o SubSeq(new, s, i))
                   = SubSeq(new, 1, i)
    <2>1. i \in Int /\ s \in Int /\ (i < s => i \in 1..(s - 1)) /\ (~(i < s) => i \in s..Len(new))
      BY <1>1
    <2>2. CASE i < s
      BY <1>2, <2>1, <2>2
    <2>3. CASE ~(i < s)
      BY <1>3, <2>1, <2>3
    <2>4. QED
      BY <2>2, <2>3
  <1>5. QED
    BY <1>4 DEF Commits!Relinked, ChainOf

\* submit leaves a branch in order, one commit longer.
LEMMA SubmitType ==
    ASSUME NEW b, WellFormed(b), NEW x \in Commit
    PROVE  /\ WellFormed(Commits!Submit(b, x))
           /\ Commits!Submit(b, x).log = Append(b.log, x)
           /\ Commits!Submit(b, x).acks = b.acks /\ Commits!Submit(b, x).confirmed = b.confirmed
  <1> DEFINE r == Commits!Submit(b, x)
  <1>1. /\ b \in Branch /\ b.log \in Seq(Commit) /\ b.links = ChainOf(b.log)
        /\ b.headLink = b.log /\ b.confirmed \subseteq DOMAIN b.log
        /\ \A s \in Commits!Position : b.acks[s] # {} => s \in DOMAIN b.log
    BY DEF WellFormed, Branch
  <1>2. r = [b EXCEPT !.log = Append(b.log, x), !.links = Append(b.links, Append(b.headLink, x)),
                      !.headLink = Append(b.headLink, x)]
    BY DEF Commits!Submit, Commits!ChainLink
  <1>3. /\ Append(b.log, x) \in Seq(Commit) /\ DOMAIN b.log \subseteq DOMAIN Append(b.log, x)
    BY <1>1, AppendProperties, LenProperties
  <1>4. /\ Append(b.links, Append(b.headLink, x)) = ChainOf(Append(b.log, x))
        /\ ChainOf(Append(b.log, x)) \in Seq(Seq(Commit))
    BY <1>1, <1>3, ChainAppend, ChainType
  <1>5. /\ r.log = Append(b.log, x) /\ r.links = Append(b.links, Append(b.headLink, x))
        /\ r.headLink = Append(b.headLink, x)
        /\ r.acks = b.acks /\ r.confirmed = b.confirmed /\ r \in Branch
    BY <1>1, <1>2, <1>3, <1>4, ZenonT(40) DEF Branch
  <1>6. QED
    BY <1>1, <1>3, <1>4, <1>5 DEF WellFormed

\* install_confirmed leaves a branch in order, with x confirmed at s and no ack
\* counted there.
LEMMA InstallType ==
    ASSUME NEW b, WellFormed(b), NEW x \in Commit, NEW s \in Commits!Position, s <= Len(b.log) + 1
    PROVE  /\ WellFormed(Commits!InstallConfirmed(b, s, x))
           /\ Commits!InstallConfirmed(b, s, x).log[s] = x
           /\ \A i \in DOMAIN b.log : i # s => Commits!InstallConfirmed(b, s, x).log[i] = b.log[i]
           /\ Commits!InstallConfirmed(b, s, x).acks = [b.acks EXCEPT ![s] = {}]
           /\ Commits!InstallConfirmed(b, s, x).confirmed = b.confirmed \union {s}
  <1> DEFINE log == IF s \in DOMAIN b.log THEN [b.log EXCEPT ![s] = x] ELSE Append(b.log, x)
             links == Commits!Relinked(log, b.links, s)
             r == Commits!InstallConfirmed(b, s, x)
  <1>1. /\ b \in Branch /\ b.log \in Seq(Commit) /\ b.links = ChainOf(b.log)
        /\ b.confirmed \subseteq DOMAIN b.log /\ b.acks \in [Commits!Position -> SUBSET Member]
        /\ b.confirmed \subseteq Commits!Position
        /\ \A i \in Commits!Position : b.acks[i] # {} => i \in DOMAIN b.log
        /\ Len(b.log) \in Nat /\ DOMAIN b.log = 1..Len(b.log) /\ s \in Nat \ {0}
    BY LenProperties DEF WellFormed, Branch, Commits!Position
  <1>2. /\ log \in Seq(Commit) /\ s \in DOMAIN log /\ DOMAIN b.log \subseteq DOMAIN log
        /\ log[s] = x /\ \A i \in DOMAIN b.log : i # s => log[i] = b.log[i]
    <2>1. CASE s \in DOMAIN b.log
      BY <1>1, <2>1, ExceptSeq, LenProperties
    <2>2. CASE s \notin DOMAIN b.log
      <3>1. s = Len(b.log) + 1
        BY <1>1, <2>2
      <3>2. QED
        BY <1>1, <2>2, <3>1, AppendProperties, LenProperties
    <2>3. QED
      BY <2>1, <2>2
  <1>3. r = [b EXCEPT !.log = log, !.links = links, !.headLink = links[Len(links)],
                      !.confirmed = b.confirmed \union {s}, !.acks = [b.acks EXCEPT ![s] = {}]]
    BY <1>1 DEF Commits!InstallConfirmed, Branch
  <1> HIDE DEF log
  <1>4. DOMAIN log = 1..Len(log) /\ Len(log) \in Nat /\ Len(log) # 0
    BY <1>2, LenProperties
  <1>5. links = ChainOf(log)
    <2>1. s \in 1..Len(log) /\ \A i \in 1..(s - 1) : log[i] = b.log[i]
      BY <1>1, <1>2, <1>4
    <2>2. QED
      BY <1>1, <1>2, <2>1, RelinkedChains
  <1>6. links \in Seq(Seq(Commit)) /\ links[Len(links)] = log
    <2>1. /\ ChainOf(log) \in Seq(Seq(Commit)) /\ Len(ChainOf(log)) = Len(log)
          /\ ChainOf(log)[Len(log)] = SubSeq(log, 1, Len(log))
      <3>1. Len(log) \in 1..Len(log)
        BY <1>4
      <3>2. QED
        BY <1>2, <3>1, ChainType
    <2>2. SubSeq(log, 1, Len(log)) = log
      BY <1>2, SubSeqFull
    <2>3. QED
      BY <1>5, <2>1, <2>2
  <1> DEFINE acks == [b.acks EXCEPT ![s] = {}]
             confirmed == b.confirmed \union {s}
  <1>7. acks \in [Commits!Position -> SUBSET Member] /\ confirmed \in SUBSET Commits!Position
    BY <1>1
  <1>8. r = [b EXCEPT !.log = log, !.links = links, !.headLink = log,
                      !.confirmed = confirmed, !.acks = acks]
    BY <1>3, <1>6
  <1> HIDE DEF links, acks, confirmed
  <1>9. /\ r.log = log /\ r.links = links /\ r.headLink = log
        /\ r.confirmed = confirmed /\ r.acks = acks /\ r \in Branch
    BY <1>1, <1>2, <1>6, <1>7, <1>8 DEF Branch
  <1>10. \A i \in Commits!Position : r.acks[i] # {} => i \in DOMAIN log
    BY <1>1, <1>2, <1>9 DEF acks
  <1>11. WellFormed(r)
    BY <1>1, <1>2, <1>5, <1>6, <1>9, <1>10 DEF WellFormed, confirmed
  <1>12. QED
    BY <1>2, <1>9, <1>11 DEF acks, confirmed

\* Every branch but the one that moves stays as it was.
LEMMA BranchKept ==
    ASSUME BranchInv, NEW c \in Committer, NEW r, branch' = [branch EXCEPT ![c] = r],
           WellFormed(r), vote' \in [Member -> [Commits!Position -> Commit \union {Commits!Nothing}]]
    PROVE  BranchInv'
  <1>1. \A d \in Committer : branch'[d] = r \/ branch'[d] = branch[d]
    BY DEF BranchInv
  <1>2. \A d \in Committer : WellFormed(branch'[d])
    BY <1>1 DEF BranchInv
  <1>3. DOMAIN branch' = Committer
    BY DEF BranchInv
  <1>4. QED
    BY <1>2, <1>3 DEF BranchInv, WellFormed

LEMMA BranchInit == Commits!CommitLogAssumption /\ Commits!Init => BranchInv
  <1> SUFFICES ASSUME Commits!CommitLogAssumption, Commits!Init PROVE BranchInv
    OBVIOUS
  <1>1. branch = [c \in Committer |-> Commits!Fresh] /\ vote = [m \in Member |-> [s \in Commits!Position |-> Commits!Nothing]]
    BY DEF Commits!Init
  <1>2. Commits!Fresh \in Branch
    <2>1. <<>> \in Seq(Commit) /\ <<>> \in Seq(Seq(Commit))
      BY EmptySeq
    <2>2. QED
      BY <2>1 DEF Commits!Fresh, Branch
  <1>3. ChainOf(<<>>) = <<>> /\ DOMAIN <<>> = {}
    <2>1. <<>> \in Seq(Commit) /\ Len(<<>>) = 0
      BY EmptySeq
    <2>2. ChainOf(<<>>) \in Seq(Seq(Commit)) /\ Len(ChainOf(<<>>)) = 0
      BY <2>1, ChainType
    <2>3. ChainOf(<<>>) = <<>>
      BY <2>2, EmptySeq
    <2>4. QED
      BY <2>1, <2>3, LenProperties
  <1>4. WellFormed(Commits!Fresh)
    BY <1>2, <1>3 DEF WellFormed, Commits!Fresh
  <1>5. QED
    BY <1>1, <1>4 DEF BranchInv

\* What record_ack makes of a branch.
Acked(b, m, s) ==
    [b EXCEPT !.acks[s] = b.acks[s] \union {m},
              !.confirmed = IF b.rosterSize > 0 /\ Cardinality(b.acks[s] \union {m}) >= Commits!Quorum(b)
                            THEN @ \union {s} ELSE @]

LEMMA AckedType ==
    ASSUME NEW b, WellFormed(b), NEW m \in Member, NEW s \in Commits!Position, s \in DOMAIN b.log
    PROVE  /\ WellFormed(Acked(b, m, s)) /\ Acked(b, m, s).log = b.log
           /\ Acked(b, m, s).acks = [b.acks EXCEPT ![s] = @ \union {m}]
           /\ Acked(b, m, s).confirmed =
                 IF b.rosterSize > 0 /\ Cardinality(b.acks[s] \union {m}) >= Commits!Quorum(b)
                 THEN b.confirmed \union {s} ELSE b.confirmed
  <1> DEFINE r == Acked(b, m, s)
             acks == [b.acks EXCEPT ![s] = b.acks[s] \union {m}]
             confirmed == IF b.rosterSize > 0 /\ Cardinality(b.acks[s] \union {m}) >= Commits!Quorum(b)
                          THEN b.confirmed \union {s} ELSE b.confirmed
  <1>1. /\ b \in Branch /\ b.acks \in [Commits!Position -> SUBSET Member]
        /\ b.confirmed \subseteq Commits!Position /\ b.confirmed \subseteq DOMAIN b.log
        /\ \A i \in Commits!Position : b.acks[i] # {} => i \in DOMAIN b.log
    BY DEF WellFormed, Branch
  <1>2. acks \in [Commits!Position -> SUBSET Member] /\ confirmed \in SUBSET Commits!Position
        /\ confirmed \subseteq DOMAIN b.log
        /\ \A i \in Commits!Position : acks[i] # {} => i \in DOMAIN b.log
    BY <1>1
  <1>3. r = [b EXCEPT !.acks = acks, !.confirmed = confirmed]
    BY <1>1 DEF Acked, Branch
  <1> HIDE DEF acks, confirmed
  <1>4. /\ r \in Branch /\ r.acks = acks /\ r.confirmed = confirmed /\ r.log = b.log
        /\ r.links = b.links /\ r.headLink = b.headLink
    BY <1>1, <1>2, <1>3 DEF Branch
  <1>5. WellFormed(r)
    BY <1>2, <1>4 DEF WellFormed
  <1>6. QED
    BY <1>4, <1>5 DEF acks, confirmed

\* The operations that touch neither a log nor its acks.
LEMMA FlagsType ==
    ASSUME Commits!CommitLogAssumption, NEW b, WellFormed(b), NEW r,
           \/ r = [b EXCEPT !.rosterSize = Cardinality(Member)]
           \/ \E f \in BOOLEAN : r = [b EXCEPT !.suspended = f]
    PROVE  WellFormed(r) /\ r.log = b.log /\ r.acks = b.acks /\ r.confirmed = b.confirmed
  <1>1. b \in Branch
    BY DEF WellFormed
  <1>2. /\ r \in Branch /\ r.log = b.log /\ r.acks = b.acks /\ r.confirmed = b.confirmed
        /\ r.links = b.links /\ r.headLink = b.headLink
    BY <1>1 DEF Branch
  <1>3. QED
    BY <1>2 DEF WellFormed

\* adopt_confirmed: the commit the peer confirmed stands at s, and everything else
\* of the branch as it did.
LEMMA AdoptType ==
    ASSUME BranchInv, NEW c \in Committer, NEW peer \in Committer, NEW s \in Commits!Position,
           Commits!AdoptConfirmed(c, peer, s)
    PROVE  \E r : /\ branch' = [branch EXCEPT ![c] = r] /\ WellFormed(r)
                  /\ r.confirmed = branch[c].confirmed \union {s}
                  /\ r.log[s] = branch[peer].log[s]
                  /\ \A i \in DOMAIN branch[c].log : i # s => r.log[i] = branch[c].log[i]
                  /\ \/ r.acks = [branch[c].acks EXCEPT ![s] = {}]
                     \/ r.acks = branch[c].acks /\ r.log = branch[c].log
  <1> DEFINE b == branch[c]
             theirs == branch[peer].log[s]
             new == Commits!InstallConfirmed(b, s, theirs)
  <1>1. WellFormed(b) /\ WellFormed(branch[peer])
    BY DEF BranchInv
  <1>2. theirs \in Commit /\ s <= Len(b.log) + 1
    <2>1. s \in DOMAIN branch[peer].log /\ branch[peer].log \in Seq(Commit)
      BY <1>1 DEF Commits!AdoptConfirmed, WellFormed, Branch
    <2>2. QED
      BY <2>1, LenProperties, ElementOfSeq DEF Commits!AdoptConfirmed
  <1>3. /\ WellFormed(new) /\ new.log[s] = theirs
        /\ \A i \in DOMAIN b.log : i # s => new.log[i] = b.log[i]
        /\ new.acks = [b.acks EXCEPT ![s] = {}] /\ new.confirmed = b.confirmed \union {s}
    <2> HIDE DEF b, theirs
    <2>1. QED
      BY <1>1, <1>2, InstallType
  <1>4. CASE branch' = [branch EXCEPT ![c] = new]
    BY <1>3, <1>4
  <1>5. CASE s \in DOMAIN b.log /\ b.log[s] = theirs
             /\ branch' = [branch EXCEPT ![c].confirmed = @ \union {s}]
    <2> DEFINE r == [b EXCEPT !.confirmed = b.confirmed \union {s}]
    <2>1. branch' = [branch EXCEPT ![c] = r]
      BY <1>5
    <2>2. b \in Branch /\ b.confirmed \subseteq Commits!Position
      BY <1>1 DEF WellFormed, Branch
    <2>3. /\ r \in Branch /\ r.confirmed = b.confirmed \union {s} /\ r.log = b.log
          /\ r.acks = b.acks /\ r.links = b.links /\ r.headLink = b.headLink
      BY <2>2 DEF Branch
    <2>4. WellFormed(r)
      BY <1>1, <1>5, <2>3 DEF WellFormed
    <2>5. QED
      BY <1>5, <2>1, <2>3, <2>4
  <1>6. CASE branch' = [branch EXCEPT ![c] = [new EXCEPT !.suspended = FALSE]]
    <2> DEFINE r == [new EXCEPT !.suspended = FALSE]
    <2>1. new \in Branch
      BY <1>3 DEF WellFormed
    <2>2. /\ r \in Branch /\ r.log = new.log /\ r.acks = new.acks /\ r.confirmed = new.confirmed
          /\ r.links = new.links /\ r.headLink = new.headLink
      BY <2>1 DEF Branch
    <2>3. WellFormed(r)
      BY <1>3, <2>2 DEF WellFormed
    <2> HIDE DEF r
    <2>4. branch' = [branch EXCEPT ![c] = r]
      BY <1>6 DEF r
    <2> HIDE DEF new
    <2>5. QED
      BY <1>3, <2>2, <2>3, <2>4, ZenonT(40)
  <1>7. QED
    BY <1>4, <1>5, <1>6 DEF Commits!AdoptConfirmed

-----------------------------------------------------------------------------
(* LinksConsistent: every step keeps the branches in order.                *)

LEMMA TryOrderType ==
    ASSUME BranchInv, NEW c \in Committer, Commits!TryOrder(c)
    PROVE  \E r : /\ branch' = [branch EXCEPT ![c] = r] /\ WellFormed(r)
                  /\ r.confirmed = branch[c].confirmed /\ r.acks = branch[c].acks
                  /\ \A i \in DOMAIN branch[c].log : r.log[i] = branch[c].log[i]
  <1> DEFINE b == branch[c]
             x == <<c, Len(b.log) + 1>>
  <1>1. WellFormed(b) /\ b.log \in Seq(Commit)
    BY DEF BranchInv, WellFormed, Branch
  <1>2. x \in Commit /\ Len(b.log) \in Nat /\ DOMAIN b.log = 1..Len(b.log)
    BY <1>1, LenProperties DEF Commit
  <1>3. branch' = [branch EXCEPT ![c] = Commits!Submit(b, x)]
    BY DEF Commits!TryOrder
  <1> HIDE DEF b, x
  <1>4. /\ WellFormed(Commits!Submit(b, x)) /\ Commits!Submit(b, x).confirmed = b.confirmed
        /\ Commits!Submit(b, x).acks = b.acks
        /\ \A i \in DOMAIN b.log : Commits!Submit(b, x).log[i] = b.log[i]
    BY <1>1, <1>2, SubmitType, AppendProperties
  <1>5. QED
    BY <1>3, <1>4 DEF b

LEMMA FlagStepType ==
    ASSUME Commits!CommitLogAssumption, BranchInv, NEW c \in Committer,
           Commits!SetRosterSize(c) \/ \E live \in SUBSET Member : Commits!ObserveHeartbeats(c, live)
    PROVE  \E r : /\ branch' = [branch EXCEPT ![c] = r] /\ WellFormed(r)
                  /\ r.confirmed = branch[c].confirmed /\ r.acks = branch[c].acks
                  /\ \A i \in DOMAIN branch[c].log : r.log[i] = branch[c].log[i]
  <1>1. WellFormed(branch[c])
    BY DEF BranchInv
  <1>2. CASE Commits!SetRosterSize(c)
    <2> DEFINE r == [branch[c] EXCEPT !.rosterSize = Cardinality(Member)]
    <2>1. branch' = [branch EXCEPT ![c] = r]
      BY <1>2, SameCount DEF Commits!SetRosterSize
    <2>2. WellFormed(r) /\ r.log = branch[c].log /\ r.acks = branch[c].acks
          /\ r.confirmed = branch[c].confirmed
      BY <1>1, FlagsType
    <2>3. QED
      BY <2>1, <2>2
  <1>3. ASSUME NEW live \in SUBSET Member, Commits!ObserveHeartbeats(c, live)
        PROVE  \E r : /\ branch' = [branch EXCEPT ![c] = r] /\ WellFormed(r)
                      /\ r.confirmed = branch[c].confirmed /\ r.acks = branch[c].acks
                      /\ \A i \in DOMAIN branch[c].log : r.log[i] = branch[c].log[i]
    <2> DEFINE f == branch[c].rosterSize > 0 /\ Cardinality(live) < Commits!Quorum(branch[c])
               r == [branch[c] EXCEPT !.suspended = f]
    <2>1. branch' = [branch EXCEPT ![c] = r] /\ f \in BOOLEAN
      BY <1>3, SameCount DEF Commits!ObserveHeartbeats
    <2> HIDE DEF f
    <2>2. WellFormed(r) /\ r.log = branch[c].log /\ r.acks = branch[c].acks
          /\ r.confirmed = branch[c].confirmed
      BY <1>1, <2>1, FlagsType
    <2>3. QED
      BY <2>1, <2>2
  <1>4. QED
    BY <1>2, <1>3

LEMMA AckStep ==
    ASSUME BranchInv, NEW c \in Committer, NEW m \in Member, NEW s \in Commits!Position, Commits!RecordAck(c, m, s)
    PROVE  /\ branch' = [branch EXCEPT ![c] = Acked(branch[c], m, s)]
           /\ vote' = [vote EXCEPT ![m][s] = branch[c].log[s]]
           /\ vote' \in [Member -> [Commits!Position -> Commit \union {Commits!Nothing}]]
           /\ branch[c].log[s] \in Commit /\ s \in DOMAIN branch[c].log
           /\ WellFormed(Acked(branch[c], m, s))
  <1>1. WellFormed(branch[c]) /\ branch[c].log \in Seq(Commit) /\ s \in DOMAIN branch[c].log
    BY DEF BranchInv, WellFormed, Branch, Commits!RecordAck
  <1>2. branch[c].log[s] \in Commit
    BY <1>1, LenProperties, ElementOfSeq
  <1>3. vote' = [vote EXCEPT ![m][s] = branch[c].log[s]]
    BY DEF Commits!RecordAck
  <1>4. vote' \in [Member -> [Commits!Position -> Commit \union {Commits!Nothing}]]
    BY <1>2, <1>3 DEF BranchInv
  <1>5. branch' = [branch EXCEPT ![c] = Acked(branch[c], m, s)]
    BY SameCount DEF Commits!RecordAck, Acked
  <1>6. WellFormed(Acked(branch[c], m, s))
    BY <1>1, AckedType
  <1>7. QED
    BY <1>1, <1>2, <1>3, <1>4, <1>5, <1>6

LEMMA BranchStep == Commits!CommitLogAssumption /\ BranchInv /\ [Commits!Next]_Commits!vars => BranchInv'
  <1> SUFFICES ASSUME Commits!CommitLogAssumption, BranchInv, [Commits!Next]_Commits!vars PROVE BranchInv'
    OBVIOUS
  <1>1. CASE UNCHANGED Commits!vars
    BY <1>1 DEF Commits!vars, BranchInv, WellFormed
  <1>2. ASSUME NEW c \in Committer, vote' = vote,
               \E r : branch' = [branch EXCEPT ![c] = r] /\ WellFormed(r)
        PROVE  BranchInv'
    BY <1>2, BranchKept DEF BranchInv
  <1>3. ASSUME NEW c \in Committer, Commits!TryOrder(c)
        PROVE  BranchInv'
    BY <1>2, <1>3, TryOrderType DEF Commits!TryOrder
  <1>4. ASSUME NEW c \in Committer,
               Commits!SetRosterSize(c) \/ \E live \in SUBSET Member : Commits!ObserveHeartbeats(c, live)
        PROVE  BranchInv'
    BY <1>2, <1>4, FlagStepType DEF Commits!SetRosterSize, Commits!ObserveHeartbeats
  <1>5. ASSUME NEW c \in Committer, NEW m \in Member, NEW s \in Commits!Position, Commits!RecordAck(c, m, s)
        PROVE  BranchInv'
    BY <1>5, AckStep, BranchKept
  <1>6. ASSUME NEW c \in Committer, NEW peer \in Committer \ {c}, NEW s \in Commits!Position,
               Commits!AdoptConfirmed(c, peer, s)
        PROVE  BranchInv'
    BY <1>2, <1>6, AdoptType DEF Commits!AdoptConfirmed
  <1>7. QED
    BY <1>1, <1>3, <1>4, <1>5, <1>6 DEF Commits!Next

-----------------------------------------------------------------------------
(* ConfirmedAgree: quorums that share a member.                            *)

LEMMA QuorumsMeet ==
    ASSUME Commits!CommitLogAssumption, NEW P, NEW Q, IsQuorum(P), IsQuorum(Q)
    PROVE  \E m \in Member : m \in P /\ m \in Q
  <1>1. IsFiniteSet(Member) /\ P \subseteq Member /\ Q \subseteq Member
    BY SameCount DEF Commits!CommitLogAssumption, IsQuorum
  <1>2. /\ Cardinality(Member) \in Nat /\ Cardinality(P) \in Nat /\ Cardinality(Q) \in Nat
    BY <1>1, FS_CardinalityType, FS_Subset
  <1>3. Cardinality(P) + Cardinality(Q) > Cardinality(Member)
    BY <1>2 DEF IsQuorum
  <1>4. P \intersect Q # {}
    BY <1>1, <1>3, FS_MajoritiesIntersect
  <1>5. QED
    BY <1>1, <1>4

\* What is confirmed at a position is one commit.
LEMMA Agreement ==
    ASSUME Commits!CommitLogAssumption, BranchInv, NEW s \in Commits!Position, VoteAt(s),
           NEW c \in Committer, s \in branch[c].confirmed,
           NEW d \in Committer, s \in branch[d].confirmed
    PROVE  branch[c].log[s] = branch[d].log[s]
  <1>1. PICK P : IsQuorum(P) /\ Backs(P, s, branch[c].log[s])
    BY DEF VoteAt
  <1>2. PICK Q : IsQuorum(Q) /\ Backs(Q, s, branch[d].log[s])
    BY DEF VoteAt
  <1>3. PICK m \in Member : m \in P /\ m \in Q
    BY <1>1, <1>2, QuorumsMeet
  <1>4. QED
    BY <1>1, <1>2, <1>3 DEF Backs

\* A step that leaves what stands at position s alone.
LeavesAlone(s) ==
    /\ \A m \in Member : vote'[m][s] = vote[m][s]
    /\ \A c \in Committer :
          /\ s \in branch'[c].confirmed <=> s \in branch[c].confirmed
          /\ branch'[c].acks[s] = branch[c].acks[s]
          /\ s \in DOMAIN branch[c].log => branch'[c].log[s] = branch[c].log[s]

LEMMA VoteAtKept ==
    ASSUME BranchInv, NEW s \in Commits!Position, VoteAt(s), LeavesAlone(s)
    PROVE  VoteAt(s)'
  <1>1. ASSUME NEW c \in Committer
        PROVE  /\ branch[c].confirmed \subseteq DOMAIN branch[c].log
               /\ branch[c].acks[s] \subseteq Member
               /\ branch[c].acks[s] # {} => s \in DOMAIN branch[c].log
    BY DEF BranchInv, WellFormed, Branch
  <1>2. ASSUME Open(s)', NEW c \in Committer, NEW m \in branch'[c].acks[s]
        PROVE  vote'[m][s] = branch'[c].log[s]
    <2>1. Open(s)
      BY <1>2 DEF Open, LeavesAlone
    <2>2. m \in branch[c].acks[s] /\ m \in Member /\ s \in DOMAIN branch[c].log
      BY <1>1 DEF LeavesAlone
    <2>3. QED
      BY <2>1, <2>2 DEF LeavesAlone, VoteAt
  <1>3. ASSUME NEW c \in Committer, s \in branch'[c].confirmed
        PROVE  \E Q : IsQuorum(Q) /\ Backs(Q, s, branch[c].log[s])'
    <2>1. s \in branch[c].confirmed /\ branch'[c].log[s] = branch[c].log[s]
      BY <1>1, <1>3 DEF LeavesAlone
    <2>2. PICK Q : IsQuorum(Q) /\ Backs(Q, s, branch[c].log[s])
      BY <2>1 DEF VoteAt
    <2>3. ASSUME NEW m \in Q
          PROVE  /\ vote'[m][s] = branch'[c].log[s]
                 /\ \A d \in Committer : m \in branch'[d].acks[s] =>
                       branch'[d].log[s] = branch'[c].log[s]
      <3>1. m \in Member
        BY <2>2 DEF IsQuorum
      <3>2. vote'[m][s] = branch'[c].log[s]
        BY <2>1, <2>2, <3>1 DEF LeavesAlone, Backs
      <3>3. ASSUME NEW d \in Committer, m \in branch'[d].acks[s]
            PROVE  branch'[d].log[s] = branch'[c].log[s]
        <4>1. m \in branch[d].acks[s] /\ branch'[d].log[s] = branch[d].log[s]
          BY <1>1, <3>3 DEF LeavesAlone
        <4>2. QED
          BY <2>1, <2>2, <4>1 DEF Backs
      <3>4. QED
        BY <3>2, <3>3
    <2>4. Backs(Q, s, branch[c].log[s])'
      BY <2>3 DEF Backs
    <2>5. QED
      BY <2>2, <2>4
  <1>4. QED
    BY <1>2, <1>3 DEF VoteAt, IsQuorum

\* A step of one branch that orders, counts and confirms nothing below its log's end.
LEMMA QuietVotes ==
    ASSUME BranchInv, VoteInv, NEW c \in Committer, NEW r, vote' = vote,
           branch' = [branch EXCEPT ![c] = r],
           r.confirmed = branch[c].confirmed, r.acks = branch[c].acks,
           \A i \in DOMAIN branch[c].log : r.log[i] = branch[c].log[i]
    PROVE  VoteInv'
  <1>1. \A d \in Committer : branch'[d] = IF d = c THEN r ELSE branch[d]
    BY DEF BranchInv
  <1>2. ASSUME NEW s \in Commits!Position
        PROVE  LeavesAlone(s)
    BY <1>1 DEF LeavesAlone
  <1>3. QED
    BY <1>2, VoteAtKept DEF VoteInv

LEMMA CommitIsSomething ==
    ASSUME NEW x \in Commit
    PROVE  x # Commits!Nothing
  BY DEF Commit, Commits!Nothing

\* An ack counted for what the quorum at s stands for, or for nothing else, leaves
\* that quorum standing.
LEMMA AckKeepsQuorum ==
    ASSUME BranchInv, NEW c \in Committer, NEW m \in Member, NEW s \in Commits!Position,
           Commits!RecordAck(c, m, s), NEW y \in Commit, NEW Q, IsQuorum(Q), Backs(Q, s, y),
           s \in branch[c].confirmed => branch[c].log[s] = y
    PROVE  Backs(Q, s, y)'
  <1> DEFINE x == branch[c].log[s]
  <1>1. /\ branch' = [branch EXCEPT ![c] = Acked(branch[c], m, s)]
        /\ vote' = [vote EXCEPT ![m][s] = x] /\ WellFormed(branch[c])
        /\ s \in DOMAIN branch[c].log
        /\ vote[m][s] \in {Commits!Nothing, x} \/ s \in branch[c].confirmed
    <2>1. WellFormed(branch[c])
      BY DEF BranchInv
    <2>2. vote[m][s] \in {Commits!Nothing, branch[c].log[s]} \/ s \in branch[c].confirmed
      BY DEF Commits!RecordAck
    <2>3. QED
      BY <2>1, <2>2, AckStep
  <1>2. /\ Acked(branch[c], m, s).log = branch[c].log
        /\ Acked(branch[c], m, s).acks = [branch[c].acks EXCEPT ![s] = @ \union {m}]
        /\ branch[c].acks \in [Commits!Position -> SUBSET Member]
    <2>1. branch[c].acks \in [Commits!Position -> SUBSET Member]
      BY <1>1 DEF WellFormed, Branch
    <2> DEFINE b == branch[c]
    <2>2. WellFormed(b) /\ s \in DOMAIN b.log
      BY <1>1
    <2> HIDE DEF b
    <2>3. /\ Acked(b, m, s).log = b.log
          /\ Acked(b, m, s).acks = [b.acks EXCEPT ![s] = @ \union {m}]
          /\ Acked(b, m, s).confirmed =
                IF b.rosterSize > 0 /\ Cardinality(b.acks[s] \union {m}) >= Commits!Quorum(b)
                THEN b.confirmed \union {s} ELSE b.confirmed
      BY <2>2, AckedType
    <2>4. QED
      BY <2>1, <2>3 DEF b
  <1>3. \A d \in Committer : branch'[d] = IF d = c THEN Acked(branch[c], m, s) ELSE branch[d]
    BY <1>1 DEF BranchInv
  <1>4. y # Commits!Nothing
    BY CommitIsSomething
  <1>5. m \in Q => x = y
    BY <1>1, <1>4 DEF Backs
  <1>6. \A n \in Member : vote'[n][s] = IF n = m THEN x ELSE vote[n][s]
    BY <1>1 DEF BranchInv
  <1>7. ASSUME NEW n \in Q
        PROVE  /\ vote'[n][s] = y
               /\ \A d \in Committer : n \in branch'[d].acks[s] => branch'[d].log[s] = y
    <2>1. n \in Member /\ vote[n][s] = y
          /\ \A d \in Committer : n \in branch[d].acks[s] => branch[d].log[s] = y
      BY DEF IsQuorum, Backs
    <2>2. vote'[n][s] = y
      BY <1>5, <1>6, <2>1
    <2>3. ASSUME NEW d \in Committer, n \in branch'[d].acks[s]
          PROVE  branch'[d].log[s] = y
      <3>1. CASE d # c
        BY <1>3, <2>1, <2>3, <3>1
      <3>2. CASE d = c
        <4>1. n \in branch[c].acks[s] \/ n = m
          BY <1>2, <1>3, <2>3, <3>2
        <4>2. QED
          BY <1>2, <1>3, <1>5, <2>1, <3>2, <4>1
      <3>3. QED
        BY <3>1, <3>2
    <2>4. QED
      BY <2>2, <2>3
  <1>8. QED
    BY <1>7 DEF Backs

\* record_ack: the first quorum at a position is made of the members' votes; a later
\* one shares a member with it, so it is for the same commit.
LEMMA AckVotes ==
    ASSUME Commits!CommitLogAssumption, BranchInv, VoteInv,
           NEW c \in Committer, NEW m \in Member, NEW s \in Commits!Position, Commits!RecordAck(c, m, s)
    PROVE  VoteInv'
  <1> DEFINE b == branch[c]
             x == b.log[s]
             acks == b.acks[s] \union {m}
  <1>1. /\ branch' = [branch EXCEPT ![c] = Acked(b, m, s)]
        /\ vote' = [vote EXCEPT ![m][s] = x] /\ WellFormed(b) /\ x \in Commit
        /\ s \in DOMAIN b.log
        /\ vote[m][s] \in {Commits!Nothing, x} \/ s \in b.confirmed
    <2>1. WellFormed(branch[c])
      BY DEF BranchInv
    <2>2. vote[m][s] \in {Commits!Nothing, branch[c].log[s]} \/ s \in branch[c].confirmed
      BY DEF Commits!RecordAck
    <2>3. QED
      BY <2>1, <2>2, AckStep
  <1>2. /\ Acked(b, m, s).log = b.log
        /\ Acked(b, m, s).acks = [b.acks EXCEPT ![s] = acks]
        /\ b.acks \in [Commits!Position -> SUBSET Member] /\ b.rosterSize \in {0, Cardinality(Member)}
        /\ b.confirmed \subseteq Acked(b, m, s).confirmed
        /\ Acked(b, m, s).confirmed \subseteq b.confirmed \union {s}
        /\ s \in Acked(b, m, s).confirmed \ b.confirmed =>
              b.rosterSize > 0 /\ Cardinality(acks) >= Commits!Quorum(b)
    <2>1. /\ b.acks \in [Commits!Position -> SUBSET Member]
          /\ b.rosterSize \in {0, Cardinality(Member)}
      BY <1>1 DEF WellFormed, Branch
    <2>2. WellFormed(b) /\ s \in DOMAIN b.log
      BY <1>1
    <2> HIDE DEF b
    <2>3. /\ Acked(b, m, s).log = b.log
          /\ Acked(b, m, s).acks = [b.acks EXCEPT ![s] = @ \union {m}]
          /\ Acked(b, m, s).confirmed =
                IF b.rosterSize > 0 /\ Cardinality(b.acks[s] \union {m}) >= Commits!Quorum(b)
                THEN b.confirmed \union {s} ELSE b.confirmed
      BY <2>2, AckedType
    <2> HIDE DEF acks
    <2>4. Acked(b, m, s).acks = [b.acks EXCEPT ![s] = acks]
      BY <2>3 DEF acks
    <2>5. Acked(b, m, s).confirmed =
             IF b.rosterSize > 0 /\ Cardinality(acks) >= Commits!Quorum(b)
             THEN b.confirmed \union {s} ELSE b.confirmed
      BY <2>3 DEF acks
    <2>6. QED
      BY <2>1, <2>3, <2>4, <2>5
  <1>3. /\ branch'[c] = Acked(b, m, s)
        /\ \A d \in Committer : d # c => branch'[d] = branch[d]
    BY <1>1 DEF BranchInv
  <1>4. \A n \in Member : vote'[n][s] = IF n = m THEN x ELSE vote[n][s]
    BY <1>1 DEF BranchInv
  <1>5. \A d \in Committer : branch'[d].log = branch[d].log
    BY <1>2, <1>3
  <1>6. s \in branch'[c].confirmed \ b.confirmed => IsQuorum(acks)
    <2> SUFFICES ASSUME s \in branch'[c].confirmed \ b.confirmed PROVE IsQuorum(acks)
      OBVIOUS
    <2>1. b.rosterSize = Cardinality(Member) /\ Cardinality(acks) >= b.rosterSize \div 2 + 1
      BY <1>2, <1>3 DEF Commits!Quorum
    <2>2. QED
      BY <1>2, <2>1 DEF IsQuorum
  <1>7. ASSUME NEW t \in Commits!Position, t # s
        PROVE  VoteAt(t)'
    <2>1. \A n \in Member : vote'[n][t] = vote[n][t]
      BY <1>1, <1>7 DEF BranchInv
    <2>2. ASSUME NEW d \in Committer
          PROVE  /\ t \in branch'[d].confirmed <=> t \in branch[d].confirmed
                 /\ branch'[d].acks[t] = branch[d].acks[t]
                 /\ branch'[d].log = branch[d].log
      BY <1>2, <1>3, <1>7
    <2>3. LeavesAlone(t)
      BY <2>1, <2>2 DEF LeavesAlone
    <2>4. QED
      BY <2>3, VoteAtKept DEF VoteInv
  <1>8. VoteAt(s)
    BY DEF VoteInv
  <1>9. ASSUME Open(s)
        PROVE  VoteAt(s)'
    <2>1. ASSUME NEW d \in Committer, NEW n \in branch'[d].acks[s]
          PROVE  vote'[n][s] = branch'[d].log[s]
      <3>1. CASE d # c
        <4>1. n \in branch[d].acks[s] /\ vote[n][s] = branch[d].log[s]
          BY <1>3, <1>8, <1>9, <2>1, <3>1 DEF VoteAt
        <4>2. WellFormed(branch[d]) /\ n \in Member /\ s \in DOMAIN branch[d].log
          BY <4>1 DEF BranchInv, WellFormed, Branch
        <4>3. branch[d].log[s] \in Commit
          BY <4>2, LenProperties, ElementOfSeq DEF WellFormed, Branch
        <4>4. branch[d].log[s] # Commits!Nothing
          BY <4>3, CommitIsSomething
        <4>5. n = m => vote[n][s] = x
          BY <1>1, <1>9, <4>1, <4>4 DEF Open
        <4>6. QED
          BY <1>4, <1>5, <4>1, <4>2, <4>5
      <3>2. CASE d = c
        <4>1. n \in b.acks[s] \/ n = m
          BY <1>2, <1>3, <2>1, <3>2
        <4>2. n \in b.acks[s] => vote[n][s] = x /\ n \in Member
          BY <1>2, <1>8, <1>9 DEF VoteAt
        <4>3. QED
          BY <1>4, <1>5, <3>2, <4>1, <4>2
      <3>3. QED
        BY <3>1, <3>2
    <2>2. ASSUME NEW d \in Committer, s \in branch'[d].confirmed
          PROVE  \E Q : IsQuorum(Q) /\ Backs(Q, s, branch[d].log[s])'
      <3>1. d = c /\ s \notin b.confirmed
        BY <1>3, <1>9, <2>2 DEF Open
      <3>2. IsQuorum(acks)
        BY <1>6, <2>2, <3>1
      <3>3. branch'[c].acks[s] = acks /\ branch'[c].log[s] = x
        BY <1>2, <1>3
      <3>4. \A n \in acks : vote'[n][s] = x
        BY <2>1, <3>3
      <3>5. PICK Q, z : Q = acks /\ z = x
        OBVIOUS
      <3>6. Backs(Q, s, z)'
        BY <2>1, <1>5, <3>3, <3>4, <3>5 DEF Backs
      <3>7. branch[d].log[s]' = z /\ IsQuorum(Q)
        BY <1>5, <3>1, <3>2, <3>5
      <3>8. QED
        BY <3>6, <3>7 DEF Backs
    <2>3. QED
      BY <2>1, <2>2 DEF VoteAt, IsQuorum
  <1>10. ASSUME ~Open(s)
         PROVE  VoteAt(s)'
    <2>1. PICK e \in Committer : s \in branch[e].confirmed
      BY <1>10 DEF Open
    <2>2. PICK y \in Commit : y = branch[e].log[s]
      <3>1. s \in DOMAIN branch[e].log /\ branch[e].log \in Seq(Commit)
        BY <2>1 DEF BranchInv, WellFormed, Branch
      <3>2. QED
        BY <3>1, LenProperties, ElementOfSeq
    <2>3. \A d \in Committer : s \in branch[d].confirmed => branch[d].log[s] = y
      BY <1>8, <2>1, <2>2, Agreement
    <2>4. PICK Q : IsQuorum(Q) /\ Backs(Q, s, y)
      BY <1>8, <2>1, <2>2 DEF VoteAt
    <2>5. Backs(Q, s, y)'
      BY <2>3, <2>4, AckKeepsQuorum
    <2>6. ASSUME NEW d \in Committer, s \in branch'[d].confirmed
          PROVE  branch'[d].log[s] = y
      <3>1. CASE s \in branch[d].confirmed
        BY <1>5, <2>3, <3>1
      <3>2. CASE s \notin branch[d].confirmed
        <4>1. d = c /\ IsQuorum(acks)
          BY <1>3, <1>6, <2>6, <3>2
        <4>2. PICK n \in Member : n \in acks /\ n \in Q
          BY <2>4, <4>1, QuorumsMeet
        <4>3. n \in branch'[c].acks[s]
          BY <1>2, <1>3, <4>2
        <4>4. QED
          BY <2>5, <4>1, <4>2, <4>3 DEF Backs
      <3>3. QED
        BY <3>1, <3>2
    <2>7. ~Open(s)'
      <3>1. s \in branch'[e].confirmed
        BY <1>2, <1>3, <2>1
      <3>2. QED
        BY <3>1 DEF Open
    <2>8. \A d \in Committer : s \in branch'[d].confirmed =>
             IsQuorum(Q) /\ Backs(Q, s, branch[d].log[s])'
      BY <2>4, <2>5, <2>6 DEF Backs
    <2>9. QED
      BY <2>7, <2>8 DEF VoteAt, IsQuorum
  <1>11. QED
    BY <1>7, <1>9, <1>10 DEF VoteInv

\* adopt_confirmed hands over a commit together with the quorum that stands for it.
LEMMA AdoptVotes ==
    ASSUME Commits!CommitLogAssumption, BranchInv, VoteInv, NEW c \in Committer, NEW peer \in Committer,
           NEW s \in Commits!Position, Commits!AdoptConfirmed(c, peer, s)
    PROVE  VoteInv'
  <1> DEFINE b == branch[c]
             y == branch[peer].log[s]
  <1>1. PICK r : /\ branch' = [branch EXCEPT ![c] = r] /\ WellFormed(r)
                 /\ r.confirmed = b.confirmed \union {s} /\ r.log[s] = y
                 /\ \A i \in DOMAIN b.log : i # s => r.log[i] = b.log[i]
                 /\ \/ r.acks = [b.acks EXCEPT ![s] = {}]
                    \/ r.acks = b.acks /\ r.log = b.log
    BY AdoptType
  <1>2. /\ b.acks \in [Commits!Position -> SUBSET Member] /\ vote' = vote
        /\ s \in branch[peer].confirmed
    BY DEF BranchInv, WellFormed, Branch, Commits!AdoptConfirmed
  <1>3. branch'[c] = r /\ \A d \in Committer : d # c => branch'[d] = branch[d]
    BY <1>1 DEF BranchInv
  <1>4. ASSUME NEW t \in Commits!Position, t # s
        PROVE  VoteAt(t)'
    <2>1. ASSUME NEW d \in Committer
          PROVE  /\ t \in branch'[d].confirmed <=> t \in branch[d].confirmed
                 /\ branch'[d].acks[t] = branch[d].acks[t]
                 /\ t \in DOMAIN branch[d].log => branch'[d].log[t] = branch[d].log[t]
      BY <1>1, <1>2, <1>3, <1>4
    <2>2. LeavesAlone(t)
      BY <1>2, <2>1 DEF LeavesAlone
    <2>3. QED
      BY <2>2, VoteAtKept DEF VoteInv
  <1>5. VoteAt(s)
    BY DEF VoteInv
  <1>6. PICK Q : IsQuorum(Q) /\ Backs(Q, s, y)
    BY <1>2, <1>5 DEF VoteAt
  <1>7. \A d \in Committer : s \in branch[d].confirmed => branch[d].log[s] = y
    BY <1>2, <1>5, Agreement
  <1>8. ASSUME NEW d \in Committer, s \in branch'[d].confirmed
        PROVE  branch'[d].log[s] = y
    BY <1>1, <1>3, <1>7, <1>8
  <1>9. ASSUME NEW n \in Q, NEW d \in Committer, n \in branch'[d].acks[s]
        PROVE  branch'[d].log[s] = y
    BY <1>1, <1>3, <1>6, <1>9 DEF Backs
  <1>10. Backs(Q, s, y)'
    <2>1. \A n \in Q : vote'[n][s] = y
      BY <1>2, <1>6 DEF Backs
    <2>2. y' = y
      BY <1>1, <1>2, <1>3, <1>8
    <2>3. QED
      BY <1>9, <2>1, <2>2 DEF Backs
  <1>11. y' = y /\ s \in branch'[c].confirmed
    BY <1>1, <1>2, <1>3, <1>8
  <1>12. ~Open(s)'
    BY <1>11 DEF Open
  <1>13. \A d \in Committer : s \in branch'[d].confirmed =>
            IsQuorum(Q) /\ Backs(Q, s, branch[d].log[s])'
    BY <1>6, <1>8, <1>10, <1>11 DEF Backs
  <1>14. VoteAt(s)'
    BY <1>12, <1>13 DEF VoteAt, IsQuorum
  <1>15. QED
    BY <1>4, <1>14 DEF VoteInv

LEMMA VoteStep == Commits!CommitLogAssumption /\ BranchInv /\ VoteInv /\ [Commits!Next]_Commits!vars => VoteInv'
  <1> SUFFICES ASSUME Commits!CommitLogAssumption, BranchInv, VoteInv, [Commits!Next]_Commits!vars PROVE VoteInv'
    OBVIOUS
  <1>1. CASE UNCHANGED Commits!vars
    BY <1>1 DEF Commits!vars, VoteInv, VoteAt, Open, Backs, IsQuorum
  <1>2. ASSUME NEW c \in Committer, Commits!TryOrder(c)
        PROVE  VoteInv'
    BY <1>2, TryOrderType, QuietVotes DEF Commits!TryOrder
  <1>3. ASSUME NEW c \in Committer,
               Commits!SetRosterSize(c) \/ \E live \in SUBSET Member : Commits!ObserveHeartbeats(c, live)
        PROVE  VoteInv'
    BY <1>3, FlagStepType, QuietVotes DEF Commits!SetRosterSize, Commits!ObserveHeartbeats
  <1>4. ASSUME NEW c \in Committer, NEW m \in Member, NEW s \in Commits!Position, Commits!RecordAck(c, m, s)
        PROVE  VoteInv'
    BY <1>4, AckVotes
  <1>5. ASSUME NEW c \in Committer, NEW peer \in Committer \ {c}, NEW s \in Commits!Position,
               Commits!AdoptConfirmed(c, peer, s)
        PROVE  VoteInv'
    BY <1>5, AdoptVotes
  <1>6. QED
    BY <1>1, <1>2, <1>3, <1>4, <1>5 DEF Commits!Next

LEMMA VoteInit == Commits!Init => VoteInv
  <1> SUFFICES ASSUME Commits!Init, NEW s \in Commits!Position PROVE VoteAt(s)
    BY DEF VoteInv
  <1>1. \A c \in Committer : branch[c].confirmed = {} /\ branch[c].acks[s] = {}
    BY DEF Commits!Init, Commits!Fresh
  <1>2. QED
    BY <1>1 DEF VoteAt

\* Committers on the sides of a partition never confirm different commits at one
\* position, whatever each orders, counts and adopts, and their logs stay chained
\* behind what healing replaces (committer.rs record_ack, adopt_confirmed).
THEOREM CommittersNeverFork ==
    ASSUME Commits!CommitLogAssumption
    PROVE  Commits!Spec => []Commits!CommittersAgree
  <1>1. Commits!Init => BranchInv /\ VoteInv
    BY BranchInit, VoteInit
  <1>2. BranchInv /\ VoteInv /\ [Commits!Next]_Commits!vars => (BranchInv /\ VoteInv)'
    BY BranchStep, VoteStep
  <1>3. BranchInv /\ VoteInv => Commits!CommittersAgree
    <2> SUFFICES ASSUME BranchInv, VoteInv PROVE Commits!CommittersAgree
      OBVIOUS
    <2>1. Commits!LinksConsistent
      BY DEF BranchInv, WellFormed, ChainOf, Commits!LinksConsistent
    <2>2. \A c \in Committer : branch[c].confirmed \subseteq Commits!Position
      BY DEF BranchInv, WellFormed, Branch
    <2>3. Commits!ConfirmedAgree
      BY <2>2, Agreement DEF Commits!ConfirmedAgree, VoteInv
    <2>4. QED
      BY <2>1, <2>3 DEF Commits!CommittersAgree
  <1>4. QED
    BY <1>1, <1>2, <1>3, PTL DEF Commits!Spec

-----------------------------------------------------------------------------
(* The gateway's zone: runs that fail half way and are run again.          *)

CONSTANTS Version, Foreign, MaxForeign
VARIABLES zone, run, edits

Zones == INSTANCE OperatorDns

Contents == Seq(Version \union {Foreign})

ZoneTypes ==
    /\ zone \in [Zones!Slot -> Contents]
    /\ run \in [op: {"none", "upsert", "delete"}, version: Version \union {Foreign}, next: Nat,
                at: {"ended", "zone", "lookup", "write"}, ok: BOOLEAN, id: Nat]
    /\ edits \in Nat

\* What a run has done at a type and name it is past.
Settled(z, r, e, s) ==
    \/ r.op = "upsert" /\ Zones!Contains(z[s], r.version)
    \/ r.op = "delete" /\ Len(z[s]) <= (IF s = "TXT_apex" THEN e ELSE 0)

\* A run is at one of the records and has settled those before; what a lookup found is
\* there when the write is made.
RunInv ==
    /\ run.at # "ended" => /\ run.op # "none" /\ run.next \in 1..6 /\ ~run.ok
                           /\ \A j \in 1..6 : j < run.next => Settled(zone, run, edits, Zones!GatewayZoneRecords[j])
    /\ run.at = "zone" => run.next = 1
    /\ run.at = "write" => IF run.id = 0 THEN zone[Zones!Rec] = <<>> ELSE run.id \in DOMAIN zone[Zones!Rec]
    /\ run.at = "ended" /\ run.ok => \A s \in Zones!Slot : Settled(zone, run, edits, s)

ZoneInv == ZoneTypes /\ RunInv /\ Zones!NoSecondRecord

\* The six records are of six types and names.
LEMMA SixRecords ==
    /\ Len(Zones!GatewayZoneRecords) = 6 /\ \A j \in 1..6 : Zones!GatewayZoneRecords[j] \in Zones!Slot
    /\ \A s \in Zones!Slot : \E j \in 1..6 : s = Zones!GatewayZoneRecords[j]
    /\ \A i, j \in 1..6 : Zones!GatewayZoneRecords[i] = Zones!GatewayZoneRecords[j] => i = j
    /\ "TXT_apex" \in Zones!Slot
  <1> DEFINE G == <<"A_mail", "MX_apex", "TXT_apex", "TXT_dkim", "TXT_dmarc", "TXT_dmtap">>
  <1>1. /\ Len(G) = 6 /\ DOMAIN G = 1..6
        /\ G[1] = "A_mail" /\ G[2] = "MX_apex" /\ G[3] = "TXT_apex" /\ G[4] = "TXT_dkim"
        /\ G[5] = "TXT_dmarc" /\ G[6] = "TXT_dmtap"
    OBVIOUS
  <1>2. Zones!Slot = {G[j] : j \in DOMAIN G} /\ Zones!GatewayZoneRecords = G
    BY DEF Zones!Slot, Zones!Range, Zones!GatewayZoneRecords
  <1>3. \A j \in 1..6 : j = 1 \/ j = 2 \/ j = 3 \/ j = 4 \/ j = 5 \/ j = 6
    OBVIOUS
  <1> HIDE DEF G
  <1>4. \A i, j \in 1..6 : G[i] = G[j] => i = j
    BY <1>1, <1>3
  <1>5. \A j \in 1..6 : G[j] \in Zones!Slot
    BY <1>1, <1>2
  <1>6. \A s \in Zones!Slot : \E j \in 1..6 : s = G[j]
    BY <1>1, <1>2
  <1>7. "TXT_apex" \in Zones!Slot
    <2>1. 3 \in DOMAIN G
      BY <1>1
    <2>2. QED
      BY <1>1, <1>2, <2>1
  <1>8. QED
    BY <1>1, <1>2, <1>4, <1>5, <1>6, <1>7

LEMMA ZoneInit == Zones!Init => ZoneInv
  <1> SUFFICES ASSUME Zones!Init PROVE ZoneInv
    OBVIOUS
  <1>1. ZoneTypes
    BY DEF Zones!Init, ZoneTypes, Contents
  <1>2. RunInv
    BY DEF Zones!Init, RunInv
  <1>3. Zones!NoSecondRecord
    <2>1. (\A s \in Zones!Slot : Len(zone[s]) = 0) /\ edits = 0
      BY DEF Zones!Init
    <2>2. QED
      BY <2>1 DEF Zones!NoSecondRecord, Zones!Owned
  <1>4. QED
    BY <1>1, <1>2, <1>3 DEF ZoneInv

\* A run that stops where it is leaves the zone to the next.
LEMMA StopsHere ==
    ASSUME ZoneTypes, RunInv, run.at # "ended", run' = Zones!Failed,
           zone' \in [Zones!Slot -> Contents], edits' = edits
    PROVE  ZoneTypes' /\ RunInv'
  <1>1. ~run.ok
    BY DEF RunInv
  <1>2. /\ run'.at = "ended" /\ run'.ok = run.ok /\ run'.op = run.op /\ run'.version = run.version
        /\ run'.next = run.next /\ run'.id = run.id
    BY DEF ZoneTypes, Zones!Failed
  <1>3. RunInv'
    BY <1>1, <1>2 DEF RunInv
  <1>4. ZoneTypes'
    BY DEF ZoneTypes, Zones!Failed
  <1>5. QED
    BY <1>3, <1>4

LEMMA StartStep ==
    ASSUME ZoneInv, NEW op \in {"upsert", "delete"}, NEW v \in Version \union {Foreign}, Zones!Start(op, v)
    PROVE  ZoneInv'
  <1>1. /\ run' = [op |-> op, version |-> v, next |-> 1, at |-> "zone", ok |-> FALSE, id |-> 0]
        /\ zone' = zone /\ edits' = edits
    BY DEF Zones!Start
  <1>2. ZoneTypes'
    BY <1>1 DEF ZoneInv, ZoneTypes
  <1>3. /\ run'.op = op /\ run'.next = 1 /\ run'.at = "zone" /\ run'.ok = FALSE
    BY <1>1
  <1>4. RunInv'
    BY <1>3 DEF RunInv
  <1>5. QED
    BY <1>1, <1>2, <1>4 DEF ZoneInv, Zones!NoSecondRecord, Zones!Owned

\* A run goes from one of its steps to the next with the zone as it is.
LEMMA ReadStep ==
    ASSUME ZoneInv, NEW answer \in Zones!Send, Zones!ZoneId(answer) \/ Zones!ExistingRecordId(answer)
    PROVE  ZoneInv'
  <1>1. /\ zone' = zone /\ edits' = edits /\ ZoneTypes /\ RunInv /\ run.at \in {"zone", "lookup"}
        /\ zone \in [Zones!Slot -> Contents]
    BY DEF Zones!ZoneId, Zones!ExistingRecordId, ZoneInv, ZoneTypes
  <1>2. Zones!NoSecondRecord'
    BY <1>1 DEF ZoneInv, Zones!NoSecondRecord, Zones!Owned
  <1>3. CASE run' = Zones!Failed
    BY <1>1, <1>2, <1>3, StopsHere DEF ZoneInv
  <1>4. ASSUME NEW at \in {"lookup", "write"}, NEW id \in Nat, run' = [run EXCEPT !.at = at, !.id = id],
               at = "write" => IF id = 0 THEN zone[Zones!Rec] = <<>> ELSE id \in DOMAIN zone[Zones!Rec]
        PROVE  ZoneInv'
    <2>1. /\ run'.at = at /\ run'.ok = run.ok /\ run'.op = run.op /\ run'.version = run.version
          /\ run'.next = run.next /\ run'.id = id
      BY <1>1, <1>4 DEF ZoneTypes
    <2>2. ZoneTypes'
      BY <1>1, <1>4 DEF ZoneTypes
    <2>3. Zones!Rec' = Zones!Rec /\ \A s : Settled(zone', run', edits', s) <=> Settled(zone, run, edits, s)
      BY <1>1, <2>1 DEF Zones!Rec, Settled
    <2>4. RunInv'
      BY <1>1, <1>4, <2>1, <2>3 DEF RunInv
    <2>5. QED
      BY <1>2, <2>2, <2>4 DEF ZoneInv
  <1>5. CASE Zones!ZoneId(answer)
    <2>1. run' = Zones!Failed \/ run' = [run EXCEPT !.at = "lookup"]
      BY <1>5 DEF Zones!ZoneId
    <2>2. run' = [run EXCEPT !.at = "lookup"] => run' = [run EXCEPT !.at = "lookup", !.id = run.id]
      BY <1>1 DEF ZoneTypes
    <2>3. run.id \in Nat
      BY <1>1 DEF ZoneTypes
    <2>4. QED
      BY <1>3, <1>4, <2>1, <2>2, <2>3
  <1>6. CASE Zones!ExistingRecordId(answer)
    <2>1. \/ run' = Zones!Failed
          \/ zone[Zones!Rec] = <<>> /\ run' = [run EXCEPT !.at = "write", !.id = 0]
          \/ \E i \in DOMAIN zone[Zones!Rec] : run' = [run EXCEPT !.at = "write", !.id = i]
      BY <1>6 DEF Zones!ExistingRecordId
    <2>2. Zones!Rec \in Zones!Slot
      BY <1>1, SixRecords DEF RunInv, Zones!Rec
    <2>3. zone[Zones!Rec] \in Contents
      BY <1>1, <2>2
    <2>4. DOMAIN zone[Zones!Rec] \subseteq Nat \ {0}
      BY <2>3 DEF Contents
    <2>5. QED
      BY <1>3, <1>4, <2>1, <2>4
  <1>7. QED
    BY <1>5, <1>6

\* What the write makes of the records it found.
LEMMA WrittenRecord ==
    ASSUME ZoneInv, run.at = "write"
    PROVE  /\ Zones!Rec \in Zones!Slot
           /\ run.op = "upsert" =>
                 /\ Zones!PutOrPost \in Contents /\ Zones!Contains(Zones!PutOrPost, run.version)
                 /\ (Len(Zones!PutOrPost) <= Len(zone[Zones!Rec]) \/ Len(Zones!PutOrPost) <= 1)
           /\ run.op = "delete" =>
                 /\ Zones!Delete \in Contents /\ Len(Zones!Delete) <= Len(zone[Zones!Rec])
                 /\ Len(Zones!Delete) <= Zones!Owned(Zones!Rec)
  <1> DEFINE z == zone[Zones!Rec]
             C == Version \union {Foreign}
  <1>1. Zones!Rec \in Zones!Slot
    BY SixRecords DEF ZoneInv, RunInv, Zones!Rec
  <1>2. z \in Seq(C) /\ run.version \in C /\ run.id \in Nat
    BY <1>1 DEF ZoneInv, ZoneTypes, Contents
  <1>3. IF run.id = 0 THEN z = <<>> ELSE run.id \in DOMAIN z
    BY DEF ZoneInv, RunInv
  <1>4. Len(z) <= 1 + Zones!Owned(Zones!Rec) /\ Zones!Owned(Zones!Rec) \in Nat
    BY <1>1 DEF ZoneInv, ZoneTypes, Zones!NoSecondRecord, Zones!Owned
  <1> HIDE DEF z, C
  <1>5. CASE run.id = 0
    <2>1. z = <<>>
      BY <1>3, <1>5
    <2>2. Append(z, run.version) = <<run.version>>
      BY <2>1
    <2>3. /\ <<run.version>> \in Seq(C) /\ Len(<<run.version>>) = 1
          /\ <<run.version>>[1] = run.version /\ Len(z) = 0
      BY <1>2, <2>1
    <2>4. Zones!PutOrPost = <<run.version>> /\ Zones!Delete = z
      BY <1>5, <2>2 DEF Zones!PutOrPost, Zones!Delete, z
    <2>5. Zones!Contains(Zones!PutOrPost, run.version)
      BY <2>3, <2>4 DEF Zones!Contains
    <2>6. QED
      BY <1>1, <1>2, <1>4, <2>1, <2>3, <2>4, <2>5 DEF Contents, z, C
  <1>6. CASE run.id # 0
    <2>1. run.id \in 1..Len(z) /\ Len(z) \in Nat
      BY <1>2, <1>3, <1>6
    <2>2. Zones!PutOrPost = [z EXCEPT ![run.id] = run.version]
      BY <1>6 DEF Zones!PutOrPost, Zones!ReplaceAt, z
    <2>3. Zones!PutOrPost \in Seq(C) /\ Len(Zones!PutOrPost) = Len(z) /\ Zones!PutOrPost[run.id] = run.version
      BY <1>2, <2>1, <2>2, ExceptSeq
    <2>4. Zones!Contains(Zones!PutOrPost, run.version)
      BY <2>1, <2>3 DEF Zones!Contains
    <2> DEFINE a == SubSeq(z, 1, run.id - 1)
               b == SubSeq(z, run.id + 1, Len(z))
    <2>5. Zones!Delete = a \o b
      BY <1>6 DEF Zones!Delete, Zones!RemoveAt, z
    <2>6. a \in Seq(C) /\ Len(a) = run.id - 1
      BY <1>2, <2>1, SubSeqProperties
    <2>7. b \in Seq(C) /\ Len(b) = Len(z) - run.id
      BY <1>2, <2>1, SubSeqProperties
    <2> HIDE DEF a, b
    <2>8. Zones!Delete \in Seq(C) /\ Len(Zones!Delete) = Len(z) - 1
      BY <2>1, <2>5, <2>6, <2>7, ConcatProperties
    <2>9. Len(Zones!Delete) <= Zones!Owned(Zones!Rec)
      BY <1>4, <2>1, <2>8
    <2>10. /\ Zones!PutOrPost \in Contents /\ Zones!Delete \in Contents
           /\ Len(Zones!PutOrPost) <= Len(zone[Zones!Rec]) /\ Len(Zones!Delete) <= Len(zone[Zones!Rec])
      BY <2>1, <2>3, <2>8 DEF Contents, z, C
    <2>11. QED
      BY <1>1, <2>4, <2>9, <2>10
  <1>7. QED
    BY <1>5, <1>6

LEMMA WriteStep ==
    ASSUME ZoneInv, NEW answer \in Zones!Send, Zones!Write(answer)
    PROVE  ZoneInv'
  <1> DEFINE new == IF run.op = "upsert" THEN Zones!PutOrPost ELSE Zones!Delete
  <1>1. /\ run.at = "write" /\ edits' = edits /\ ZoneTypes /\ RunInv
        /\ (zone' = zone \/ zone' = [zone EXCEPT ![Zones!Rec] = new])
        /\ \/ run' = Zones!Failed
           \/ /\ run' = Zones!Ended([run EXCEPT !.next = @ + 1, !.at = "lookup"])
              /\ zone' = [zone EXCEPT ![Zones!Rec] = new]
    BY DEF Zones!Write, ZoneInv, Zones!GoesOn, Zones!Call
  <1>2. /\ Zones!Rec \in Zones!Slot /\ new \in Contents /\ run.op \in {"upsert", "delete"}
        /\ (Len(new) <= Len(zone[Zones!Rec]) \/ Len(new) <= 1)
        /\ run.next \in 1..6 /\ Zones!Rec = Zones!GatewayZoneRecords[run.next] /\ ~run.ok
    BY <1>1, WrittenRecord DEF ZoneTypes, RunInv, Zones!Rec
  <1>3. /\ zone \in [Zones!Slot -> Contents] /\ zone' \in [Zones!Slot -> Contents]
        /\ \A s \in Zones!Slot : zone'[s] = zone[s] \/ (s = Zones!Rec /\ zone'[s] = new)
    BY <1>1, <1>2 DEF ZoneTypes
  <1>4. \A s \in Zones!Slot : Len(new) \in Nat /\ Len(zone[s]) \in Nat
    BY <1>2, <1>3 DEF Contents
  <1>5. Zones!NoSecondRecord'
    <2>1. \A s \in Zones!Slot : Len(zone'[s]) <= Len(zone[s]) \/ Len(zone'[s]) <= 1
      BY <1>2, <1>3, <1>4
    <2>2. \A s \in Zones!Slot : Len(zone'[s]) \in Nat
      BY <1>3 DEF Contents
    <2>3. edits \in Nat
      BY <1>1 DEF ZoneTypes
    <2>4. \A s \in Zones!Slot : Zones!Owned(s) \in Nat /\ Zones!Owned(s)' = Zones!Owned(s)
      BY <1>1, <2>3 DEF Zones!Owned
    <2>5. \A s \in Zones!Slot : Len(zone'[s]) <= 1 + Zones!Owned(s)
      <3>1. \A s \in Zones!Slot : Len(zone[s]) <= 1 + Zones!Owned(s)
        BY DEF ZoneInv, Zones!NoSecondRecord
      <3>2. QED
        BY <1>4, <2>1, <2>2, <2>4, <3>1
    <2>6. QED
      BY <2>4, <2>5 DEF Zones!NoSecondRecord
  <1>6. CASE run' = Zones!Failed
    BY <1>1, <1>3, <1>5, <1>6, StopsHere DEF ZoneInv
  <1>7. CASE /\ run' = Zones!Ended([run EXCEPT !.next = @ + 1, !.at = "lookup"])
             /\ zone' = [zone EXCEPT ![Zones!Rec] = new]
    <2> DEFINE last == run.next + 1 > 6
    <2>1. run' = IF last THEN [run EXCEPT !.next = run.next + 1, !.at = "ended", !.ok = TRUE]
                 ELSE [run EXCEPT !.next = run.next + 1, !.at = "lookup"]
      <3>1. [run EXCEPT !.next = @ + 1, !.at = "lookup"].next = run.next + 1
        BY <1>1 DEF ZoneTypes
      <3>2. QED
        BY <1>1, <1>7, <3>1, SixRecords DEF Zones!Ended, ZoneTypes
    <2>2. /\ run'.next = run.next + 1 /\ run'.op = run.op /\ run'.version = run.version
          /\ run'.id = run.id
          /\ IF last THEN run'.at = "ended" /\ run'.ok = TRUE ELSE run'.at = "lookup" /\ run'.ok = run.ok
      BY <1>1, <2>1 DEF ZoneTypes
    <2>3. ZoneTypes'
      <3> DEFINE T == [op: {"none", "upsert", "delete"}, version: Version \union {Foreign}, next: Nat,
                       at: {"ended", "zone", "lookup", "write"}, ok: BOOLEAN, id: Nat]
      <3>1. run \in T /\ run.next + 1 \in Nat
        BY <1>1 DEF ZoneTypes
      <3>2. ASSUME NEW n \in Nat PROVE [run EXCEPT !.next = n, !.at = "lookup"] \in T
        BY <3>1
      <3>3. ASSUME NEW n \in Nat PROVE [run EXCEPT !.next = n, !.at = "ended", !.ok = TRUE] \in T
        BY <3>1
      <3>4. run' \in T
        BY <2>1, <3>1, <3>2, <3>3
      <3>5. QED
        BY <1>1, <1>3, <3>4 DEF ZoneTypes
    <2>4. Settled(zone', run', edits', Zones!Rec)
      <3>1. zone'[Zones!Rec] = new
        BY <1>2, <1>3, <1>7
      <3>2. QED
        BY <1>1, <1>2, <2>2, <3>1, WrittenRecord DEF Settled, Zones!Owned
    <2>5. \A j \in 1..6 : j <= run.next => Settled(zone', run', edits', Zones!GatewayZoneRecords[j])
      <3> SUFFICES ASSUME NEW j \in 1..6, j <= run.next PROVE Settled(zone', run', edits', Zones!GatewayZoneRecords[j])
        OBVIOUS
      <3>1. CASE j = run.next
        BY <1>2, <2>4, <3>1
      <3>2. CASE j # run.next
        <4>1. j < run.next
          BY <1>2, <3>2
        <4>2. Zones!GatewayZoneRecords[j] # Zones!Rec /\ Zones!GatewayZoneRecords[j] \in Zones!Slot
          BY <1>2, <3>2, SixRecords
        <4>3. zone'[Zones!GatewayZoneRecords[j]] = zone[Zones!GatewayZoneRecords[j]]
          BY <1>3, <4>2
        <4>4. Settled(zone, run, edits, Zones!GatewayZoneRecords[j])
          BY <1>1, <4>1 DEF RunInv
        <4>5. QED
          BY <1>1, <2>2, <4>3, <4>4 DEF Settled
      <3>3. QED
        BY <3>1, <3>2
    <2>6. RunInv'
      <3>1. CASE last
        <4>1. \A j \in 1..6 : j <= run.next
          BY <1>2, <3>1
        <4>2. \A s \in Zones!Slot : Settled(zone', run', edits', s)
          BY <2>5, <4>1, SixRecords
        <4>3. QED
          BY <2>2, <3>1, <4>2 DEF RunInv
      <3>2. CASE ~last
        <4>1. run'.next \in 1..6 /\ \A j \in 1..6 : j < run'.next => j <= run.next
          BY <1>2, <2>2, <3>2
        <4>2. run'.at = "lookup" /\ ~run'.ok /\ run'.op # "none"
          BY <1>2, <2>2, <3>2
        <4>3. QED
          BY <2>5, <4>1, <4>2 DEF RunInv
      <3>3. QED
        BY <3>1, <3>2
    <2>7. QED
      BY <1>5, <2>3, <2>6 DEF ZoneInv
  <1>8. QED
    BY <1>1, <1>6, <1>7

LEMMA OwnerStep ==
    ASSUME ZoneInv, Zones!DnsAssumption, Zones!OwnerAdds
    PROVE  ZoneInv'
  <1>1. /\ run.at = "ended" /\ run' = run /\ edits' = edits + 1 /\ edits \in Nat
        /\ zone' = [zone EXCEPT !["TXT_apex"] = Append(zone["TXT_apex"], Foreign)]
        /\ zone \in [Zones!Slot -> Contents] /\ "TXT_apex" \in Zones!Slot
    BY SixRecords DEF Zones!OwnerAdds, ZoneInv, ZoneTypes
  <1> DEFINE old == zone["TXT_apex"]
             new == Append(old, Foreign)
  <1>2. /\ old \in Contents /\ new \in Contents /\ Len(old) \in Nat /\ Len(new) = Len(old) + 1
        /\ \A i \in 1..Len(old) : new[i] = old[i]
    <2>1. old \in Seq(Version \union {Foreign}) /\ Foreign \in Version \union {Foreign}
      BY <1>1 DEF Contents
    <2>2. QED
      BY <2>1, AppendProperties, LenProperties DEF Contents
  <1> HIDE DEF new
  <1>3. zone' = [zone EXCEPT !["TXT_apex"] = new]
    BY <1>1 DEF new
  <1>4. /\ zone' \in [Zones!Slot -> Contents] /\ zone'["TXT_apex"] = new
        /\ \A s \in Zones!Slot \ {"TXT_apex"} : zone'[s] = zone[s]
    BY <1>1, <1>2, <1>3
  <1>5. ZoneTypes'
    <2>1. ZoneTypes /\ edits' \in Nat
      BY <1>1 DEF ZoneInv
    <2>2. QED
      BY <1>1, <1>4, <2>1 DEF ZoneTypes
  <1>6. Zones!NoSecondRecord'
    <2>1. Zones!NoSecondRecord
      BY DEF ZoneInv
    <2>2. Len(new) <= 1 + edits'
      BY <1>1, <1>2, <2>1 DEF Zones!NoSecondRecord, Zones!Owned
    <2>3. QED
      BY <1>4, <2>1, <2>2 DEF Zones!NoSecondRecord, Zones!Owned
  <1>7. RunInv'
    <2>1. ASSUME NEW s \in Zones!Slot, Settled(zone, run, edits, s) PROVE Settled(zone', run', edits', s)
      <3>1. CASE s # "TXT_apex"
        BY <1>1, <1>4, <2>1, <3>1 DEF Settled
      <3>2. CASE s = "TXT_apex"
        <4>1. Zones!Contains(old, run.version) => Zones!Contains(new, run.version)
          <5>1. 1..Len(old) \subseteq 1..Len(new)
            BY <1>2
          <5>2. QED
            BY <1>2, <5>1 DEF Zones!Contains
        <4>2. Len(old) <= edits => Len(new) <= edits'
          BY <1>1, <1>2
        <4>3. QED
          BY <1>1, <1>4, <2>1, <3>2, <4>1, <4>2 DEF Settled
      <3>3. QED
        BY <3>1, <3>2
    <2>2. QED
      BY <1>1, <2>1 DEF ZoneInv, RunInv
  <1>8. QED
    BY <1>5, <1>6, <1>7 DEF ZoneInv

LEMMA ZoneStep == Zones!DnsAssumption /\ ZoneInv /\ [Zones!Next]_Zones!vars => ZoneInv'
  <1> SUFFICES ASSUME Zones!DnsAssumption, ZoneInv, [Zones!Next]_Zones!vars PROVE ZoneInv'
    OBVIOUS
  <1>1. CASE UNCHANGED Zones!vars
    BY <1>1 DEF Zones!vars, ZoneInv, ZoneTypes, RunInv, Zones!NoSecondRecord, Zones!Owned, Zones!Rec
  <1>2. QED
    BY <1>1, StartStep, ReadStep, WriteStep, OwnerStep DEF Zones!Next

\* A publish that ended in Ok has left every record as asked, a delete no more of them than
\* the owner added TXT records at the apex, whichever runs before it failed half way, and no
\* run leaves a second record of a type and name, those aside (dmtap-operator dns.rs
\* upsert_records, delete_records).
THEOREM ZonesStayWhole == ASSUME Zones!DnsAssumption PROVE Zones!Spec => []Zones!ZoneIsWhole
  <1>1. ZoneInv => Zones!ZoneIsWhole
    BY DEF ZoneInv, RunInv, Settled, Zones!ZoneIsWhole, Zones!OkIsWhole, Zones!Owned
  <1>2. QED
    BY <1>1, ZoneInit, ZoneStep, PTL DEF Zones!Spec

-----------------------------------------------------------------------------
(* The public-object server, and a follower behind a cache.               *)

CONSTANTS Announce, Size, Declined, Quota, OpenRanges, MaxFeed
VARIABLES entries, announces, cachedHead, cachedRange, head, have

Pubs == INSTANCE PubServe

FeedTypes ==
    /\ entries \in Seq(Announce) /\ Len(entries) <= MaxFeed /\ announces \subseteq Announce
    /\ cachedHead \in Int /\ head \in Int
    /\ have \in Seq(Announce)
    /\ \A r \in DOMAIN cachedRange : /\ r[1] \in Nat /\ r[2] \in Int
                                     /\ cachedRange[r] \in Seq(Announce)

\* A head is of the feed as it is or was; what a cache holds for a range ends no later
\* than what the follower has, and covers the range unless `to' was left open.
FeedInv ==
    /\ FeedTypes
    /\ -1 <= cachedHead /\ cachedHead < Len(entries) /\ -1 <= head /\ head < Len(entries)
    /\ Len(have) <= Len(entries) /\ \A i \in 1..Len(have) : have[i] = entries[i]
    /\ \A r \in DOMAIN cachedRange : /\ r[1] + Len(cachedRange[r]) <= Len(have)
                                     /\ r[2] < Pubs!Open => Len(have) > r[2]
    /\ \A i \in 1..Len(entries) : entries[i] \in announces \ Declined

LEMMA FeedInit == Pubs!PubAssumption /\ Pubs!Init => FeedInv
  BY DEF Pubs!PubAssumption, Pubs!Init, FeedInv, FeedTypes, Pubs!None

LEMMA AnnounceStep ==
    ASSUME Pubs!PubAssumption, FeedInv, NEW a \in Announce, Pubs!StoreAnnounce(a) \/ Pubs!Append1(a)
    PROVE  FeedInv'
  <1>1. CASE Pubs!StoreAnnounce(a)
    BY <1>1 DEF Pubs!StoreAnnounce, FeedInv, FeedTypes, Pubs!Open
  <1>2. CASE Pubs!Append1(a)
    <2>1. /\ entries \in Seq(Announce) /\ entries' = Append(entries, a) /\ Len(entries) < MaxFeed
          /\ a \notin Declined /\ announces' = announces \union {a} /\ Len(entries) \in Nat
          /\ have \in Seq(Announce) /\ Len(have) \in Nat /\ MaxFeed \in Nat
          /\ UNCHANGED <<cachedHead, cachedRange, head, have>>
      BY <1>2 DEF Pubs!Append1, Pubs!Admit, FeedInv, FeedTypes, Pubs!PubAssumption
    <2>2. /\ entries' \in Seq(Announce) /\ Len(entries') = Len(entries) + 1
          /\ \A i \in 1..Len(entries) : entries'[i] = entries[i]
          /\ entries'[Len(entries) + 1] = a
      BY <2>1, AppendProperties
    <2>3. FeedTypes'
      BY <2>1, <2>2 DEF FeedInv, FeedTypes
    <2>4. \A i \in 1..Len(entries') : entries'[i] \in announces' \ Declined
      <3>1. \A i \in 1..Len(entries') : i \in 1..Len(entries) \/ i = Len(entries) + 1
        BY <2>1, <2>2
      <3>2. QED
        BY <2>1, <2>2, <3>1 DEF FeedInv
    <2>5. Len(have) <= Len(entries') /\ \A i \in 1..Len(have) : have[i] = entries'[i]
      BY <2>1, <2>2 DEF FeedInv
    <2>6. QED
      BY <2>1, <2>2, <2>3, <2>4, <2>5 DEF FeedInv, FeedTypes, Pubs!Open
  <1>3. QED
    BY <1>1, <1>2

\* A cache keeps a head that was the feed's, and lets it go.
LEMMA HeadStep == ASSUME FeedInv, Pubs!FeedHead \/ Pubs!Expire PROVE FeedInv'
  <1>1. /\ UNCHANGED <<entries, announces, cachedRange, have>>
        /\ cachedHead' \in {-1, cachedHead, Len(entries) - 1}
        /\ head' \in {head, cachedHead, Len(entries) - 1}
        /\ Len(entries) \in Nat
    BY DEF Pubs!FeedHead, Pubs!Expire, Pubs!None, FeedInv, FeedTypes
  <1>2. QED
    BY <1>1 DEF FeedInv, FeedTypes, Pubs!Open

\* What the next range brings: the cache's answer is empty, the server's is what follows
\* on, up to the head the follower saw.
LEMMA NextRange ==
    ASSUME Pubs!PubAssumption, FeedInv, head # Pubs!None
    PROVE  LET got == Pubs!Range(Pubs!Asked[1], Pubs!Asked[2])
           IN  /\ got \in Seq(Announce) /\ Len(have) + Len(got) <= Len(entries)
               /\ \A i \in 1..Len(got) : got[i] = entries[Len(have) + i]
               /\ Pubs!Asked[2] < Pubs!Open => Len(have) + Len(got) > Pubs!Asked[2]
               /\ Pubs!Asked[1] = Len(have) /\ Pubs!Asked[2] \in Int /\ Pubs!InBounds(Pubs!Asked[1], Pubs!Asked[2])
  <1> DEFINE to == Pubs!Asked[2]
             got == Pubs!Range(Pubs!Asked[1], to)
             h == Len(have)
             n == Len(entries)
  <1>1. /\ entries \in Seq(Announce) /\ n \in Nat /\ h \in Nat /\ h <= n /\ n <= MaxFeed
        /\ head \in Int /\ 0 <= head /\ head < n /\ MaxFeed \in Nat /\ entries # <<>>
    BY DEF FeedInv, FeedTypes, Pubs!None, Pubs!PubAssumption
  <1>2. Pubs!Asked[1] = h /\ to = IF OpenRanges THEN MaxFeed + 1 ELSE head
    BY DEF Pubs!Asked, Pubs!Open
  <1>3. to \in Int /\ Pubs!Clamp(to) \in Int /\ Pubs!Clamp(to) < n
        /\ (to = head => Pubs!Clamp(to) = head) /\ (to = MaxFeed + 1 => Pubs!Clamp(to) = n - 1)
    BY <1>1, <1>2 DEF Pubs!Clamp
  <1>4. Pubs!InBounds(Pubs!Asked[1], to)
    BY <1>1, <1>2, <1>3 DEF Pubs!InBounds, Pubs!Backwards
  <1> HIDE DEF to
  <1>5. CASE <<h, to>> \in DOMAIN cachedRange
    <2>1. got = cachedRange[<<h, to>>]
      BY <1>2, <1>5 DEF Pubs!Range, to
    <2>2. /\ <<h, to>>[1] = h /\ <<h, to>>[2] = to
          /\ got \in Seq(Announce) /\ h + Len(got) <= h /\ (to < Pubs!Open => h > to)
      BY <1>5, <2>1 DEF FeedInv, FeedTypes
    <2>3. Len(got) = 0
      BY <1>1, <2>2
    <2> HIDE DEF got, h, n
    <2>4. /\ got \in Seq(Announce) /\ h + Len(got) <= n
          /\ \A i \in 1..Len(got) : got[i] = entries[h + i]
          /\ to < Pubs!Open => h + Len(got) > to
      BY <1>1, <2>2, <2>3
    <2>5. QED
      BY <1>2, <1>3, <1>4, <2>4 DEF got, h, n, to
  <1>6. CASE <<h, to>> \notin DOMAIN cachedRange
    <2>1. got = IF h > to THEN <<>> ELSE SubSeq(entries, h + 1, Pubs!Clamp(to) + 1)
      BY <1>1, <1>2, <1>6 DEF Pubs!Range, Pubs!FeedRange, Pubs!Backwards, to
    <2> DEFINE c == Pubs!Clamp(to)
    <2> HIDE DEF got, h, n, c
    <2>2. CASE h > to
      <3>1. got = <<>> /\ <<>> \in Seq(Announce) /\ Len(<<>>) = 0
        BY <2>1, <2>2
      <3>2. /\ got \in Seq(Announce) /\ h + Len(got) <= n
            /\ \A i \in 1..Len(got) : got[i] = entries[h + i]
            /\ to < Pubs!Open => h + Len(got) > to
        BY <1>1, <1>3, <2>2, <3>1
      <3>3. QED
        BY <1>2, <1>3, <1>4, <3>2 DEF got, h, n, to
    <2>3. CASE ~(h > to)
      <3>1. got = SubSeq(entries, h + 1, c + 1) /\ c \in Int /\ c < n /\ h <= c + 1
        BY <1>1, <1>2, <1>3, <2>1, <2>3, SMTT(30) DEF c
      <3>2. /\ got \in Seq(Announce) /\ Len(got) = c + 1 - h
            /\ \A i \in 1..Len(got) : got[i] = entries[h + i]
        <4>1. h + 1 \in 1..(n + 1) /\ c + 1 \in (h..n)
          BY <1>1, <3>1
        <4>2. /\ SubSeq(entries, h + 1, c + 1) \in Seq(Announce)
              /\ Len(SubSeq(entries, h + 1, c + 1)) = IF h + 1 <= c + 1 THEN (c + 1) - (h + 1) + 1 ELSE 0
              /\ \A i \in 1..((c + 1) - (h + 1) + 1) :
                   SubSeq(entries, h + 1, c + 1)[i] = entries[(h + 1) + i - 1]
          BY <1>1, <4>1, SubSeqProperties DEF n
        <4>3. QED
          BY <1>1, <3>1, <4>2
      <3>3. to < Pubs!Open => h + Len(got) > to
        <4>1. h + Len(got) = c + 1
          BY <1>1, <3>1, <3>2
        <4>2. to < Pubs!Open => to = head
          BY <1>1, <1>2 DEF Pubs!Open
        <4>3. to = head => c = head
          BY <1>3 DEF c
        <4>4. QED
          BY <1>1, <4>1, <4>2, <4>3
      <3>4. h + Len(got) <= n
        BY <1>1, <3>1, <3>2
      <3>5. QED
        BY <1>2, <1>3, <1>4, <3>2, <3>3, <3>4 DEF got, h, n, to
    <2>4. QED
      BY <2>2, <2>3
  <1>7. QED
    BY <1>5, <1>6

LEMMA FetchStep == ASSUME Pubs!PubAssumption, FeedInv, Pubs!FetchRange PROVE FeedInv'
  <1> DEFINE got == Pubs!Range(Pubs!Asked[1], Pubs!Asked[2])
             h == Len(have)
  <1>1. /\ got \in Seq(Announce) /\ h + Len(got) <= Len(entries)
        /\ \A i \in 1..Len(got) : got[i] = entries[h + i]
        /\ Pubs!Asked[2] < Pubs!Open => h + Len(got) > Pubs!Asked[2]
        /\ Pubs!Asked[1] = h /\ Pubs!Asked[2] \in Int
    BY NextRange DEF Pubs!FetchRange
  <1>2. /\ cachedRange' = [r \in DOMAIN cachedRange \union {Pubs!Asked} |->
                             IF r = Pubs!Asked THEN got ELSE cachedRange[r]]
        /\ have' = have \o got
        /\ UNCHANGED <<entries, announces, cachedHead, head>>
    BY DEF Pubs!FetchRange
  <1> HIDE DEF got
  <1>3. have \in Seq(Announce) /\ h \in Nat /\ Len(got) \in Nat
    BY <1>1 DEF FeedInv, FeedTypes
  <1>4. /\ have' \in Seq(Announce) /\ Len(have') = h + Len(got)
        /\ \A i \in 1..h + Len(got) : have'[i] = IF i <= h THEN have[i] ELSE got[i - h]
    BY <1>1, <1>2, <1>3, ConcatProperties
  <1>5. \A i \in 1..Len(have') : have'[i] = entries[i]
    <2> SUFFICES ASSUME NEW i \in 1..h + Len(got) PROVE have'[i] = entries[i]
      BY <1>4
    <2>1. CASE i <= h
      <3>1. have'[i] = have[i] /\ i \in 1..h
        BY <1>3, <1>4, <2>1
      <3>2. QED
        BY <3>1 DEF FeedInv
    <2>2. CASE ~(i <= h)
      <3>1. have'[i] = got[i - h] /\ i - h \in 1..Len(got) /\ h + (i - h) = i
        BY <1>3, <1>4, <2>2
      <3>2. QED
        BY <1>1, <3>1
    <2>3. QED
      BY <2>1, <2>2
  <1>6. \A r \in DOMAIN cachedRange' :
          /\ r[1] \in Nat /\ r[2] \in Int /\ cachedRange'[r] \in Seq(Announce)
          /\ r[1] + Len(cachedRange'[r]) <= Len(have')
          /\ r[2] < Pubs!Open => Len(have') > r[2]
    <2> SUFFICES ASSUME NEW r \in DOMAIN cachedRange \union {Pubs!Asked}
                 PROVE  /\ r[1] \in Nat /\ r[2] \in Int /\ cachedRange'[r] \in Seq(Announce)
                        /\ r[1] + Len(cachedRange'[r]) <= Len(have')
                        /\ r[2] < Pubs!Open => Len(have') > r[2]
      BY <1>2
    <2>1. CASE r = Pubs!Asked
      <3>1. cachedRange'[r] = got
        BY <1>2, <2>1
      <3>2. QED
        BY <1>1, <1>3, <1>4, <2>1, <3>1
    <2>2. CASE r # Pubs!Asked
      <3>1. cachedRange'[r] = cachedRange[r] /\ r \in DOMAIN cachedRange
        BY <1>2, <2>2
      <3>2. /\ r[1] \in Nat /\ r[2] \in Int /\ cachedRange[r] \in Seq(Announce)
            /\ r[1] + Len(cachedRange[r]) <= h /\ (r[2] < Pubs!Open => h > r[2])
        BY <3>1 DEF FeedInv, FeedTypes
      <3>3. Len(cachedRange[r]) \in Nat /\ Len(have') \in Nat /\ h <= Len(have')
        BY <1>3, <1>4, <3>2
      <3> HIDE DEF h
      <3>4. QED
        BY <1>3, <3>1, <3>2, <3>3
    <2>3. QED
      BY <2>1, <2>2
  <1>7. FeedTypes'
    <2>1. FeedTypes
      BY DEF FeedInv
    <2>2. QED
      BY <1>2, <1>4, <1>6, <2>1 DEF FeedTypes
  <1>8. QED
    BY <1>1, <1>2, <1>4, <1>5, <1>6, <1>7 DEF FeedInv, Pubs!Open

LEMMA FeedStep == Pubs!PubAssumption /\ FeedInv /\ [Pubs!Next]_Pubs!vars => FeedInv'
  <1> SUFFICES ASSUME Pubs!PubAssumption, FeedInv, [Pubs!Next]_Pubs!vars PROVE FeedInv'
    OBVIOUS
  <1>1. CASE UNCHANGED Pubs!vars
    BY <1>1 DEF Pubs!vars, FeedInv, FeedTypes, Pubs!Open
  <1>2. QED
    BY <1>1, AnnounceStep, HeadStep, FetchStep DEF Pubs!Next

LEMMA FeedInvHolds == Pubs!PubAssumption /\ FeedInv => Pubs!FeedIsWhole
  <1> SUFFICES ASSUME Pubs!PubAssumption, FeedInv PROVE Pubs!FeedIsWhole
    OBVIOUS
  <1>1. /\ entries \in Seq(Announce) /\ have \in Seq(Announce)
        /\ Len(entries) \in Nat /\ Len(have) \in Nat /\ Len(have) <= Len(entries)
        /\ DOMAIN entries = 1..Len(entries)
    BY DEF FeedInv, FeedTypes
  <1>2. have = SubSeq(entries, 1, Len(have))
    <2> DEFINE s == SubSeq(entries, 1, Len(have))
    <2>1. /\ s \in Seq(Announce) /\ Len(s) = Len(have)
          /\ \A i \in 1..Len(have) : s[i] = entries[i]
      BY <1>1, SubSeqProperties
    <2> HIDE DEF s
    <2>2. \A i \in 1..Len(have) : have[i] = s[i]
      BY <2>1 DEF FeedInv
    <2>3. have = s
      BY <1>1, <2>1, <2>2, SeqEqual
    <2>4. QED
      BY <2>3 DEF s
  <1>3. Pubs!RangeInBounds
    BY NextRange DEF Pubs!RangeInBounds
  <1>4. QED
    BY <1>1, <1>2, <1>3 DEF FeedInv, Pubs!FeedIsWhole, Pubs!FollowerHoldsPrefix, Pubs!EntriesServed, Pubs!ServeAddressed

\* A follower behind a cache reads the feed without gaps, never asks out of bounds and can
\* fetch what it lists (pubserve.rs feed_range, append), for every number of entries,
\* declined content and quota, whether or not it leaves ranges open.
THEOREM FeedsStayWhole == ASSUME Pubs!PubAssumption PROVE Pubs!Spec => []Pubs!FeedIsWhole
  <1>1. QED
    BY FeedInit, FeedStep, FeedInvHolds, PTL DEF Pubs!Spec

-----------------------------------------------------------------------------
(* The web client's calls to its node over one mail store.                 *)

CONSTANTS Email, Op, NoToken, Patient, MaxChanges, MaxLocal, MaxConnects
VARIABLES emails, version, mode, stateToken, mail, client, session, epoch, written, ops

Clients == INSTANCE ClientSync WITH
    token <- stateToken, MaxVersion <- MaxChanges, MaxEpoch <- MaxConnects

Token == Nat \union {NoToken}
OpRec == [kind: {"none", "connect", "sync"}, at: {"none", "discover", "changes", "emails", "apply"},
          client: Nat, wasReal: BOOLEAN, token: Token, pulled: SUBSET Email]

MailTypes ==
    /\ emails \in SUBSET Email /\ version \in Nat /\ epoch \in 0..MaxConnects
    /\ stateToken \in Token /\ session \in [1..MaxConnects -> Token] /\ ops \in [Op -> OpRec]

\* A call has a client that no other call has: the one it connects with, or the one the
\* sync began on, which was connected before.  While the mode is real the newest connect
\* knows that it was.
CallsApart ==
    /\ \A o \in Op : /\ ops[o].kind # "none" => ops[o].client \in 1..epoch
                     /\ ops[o].kind = "none" <=> ops[o].at = "none"
    /\ \A o, p \in Op : o # p /\ ops[o].kind # "none" /\ ops[p].kind # "none"
                          => ops[o].client # ops[p].client
    /\ mode = "real" =>
         /\ client \in 1..epoch
         /\ \A o \in Op : ops[o].kind = "connect" =>
              ops[o].client # client /\ (ops[o].client = epoch => ops[o].wasReal)

\* A pull is the node's mailbox as long as the session it goes with is the node's.
PullsCurrent ==
    \A o \in Op : ops[o].at \in {"emails", "apply"} =>
        /\ session[ops[o].client] \in 0..version
        /\ ops[o].at = "apply" /\ session[ops[o].client] = version => ops[o].pulled = emails

ServedIds(m) == {x.id : x \in {y \in m : y.is = "served"}}

MailCurrent ==
    mode = "real" => stateToken \in 0..version /\ (stateToken = version => ServedIds(mail) = emails)

MailInv == MailTypes /\ CallsApart /\ PullsCurrent /\ MailCurrent

LEMMA NoOpIs == Clients!NoOp \in OpRec /\ Clients!NoOp.kind = "none" /\ Clients!NoOp.at = "none"
  BY DEF Clients!NoOp, OpRec, Token

\* A connect and a sync as they begin.
Connecting(c, b) == [Clients!NoOp EXCEPT !.kind = "connect", !.at = "discover", !.client = c, !.wasReal = b]
Beginning(c, t, a) == [Clients!NoOp EXCEPT !.kind = "sync", !.client = c, !.token = t, !.at = a]

LEMMA CallsBegin ==
    /\ \A c \in Nat, b \in BOOLEAN :
         LET r == Connecting(c, b)
         IN  /\ r \in OpRec /\ r.kind = "connect" /\ r.at = "discover" /\ r.client = c
             /\ (b => r.wasReal)
    /\ \A c \in Nat, t \in Token, a \in {"discover", "changes"} :
         LET r == Beginning(c, t, a)
         IN  r \in OpRec /\ r.kind = "sync" /\ r.at = a /\ r.client = c
  <1>1. ASSUME NEW c \in Nat, NEW b \in BOOLEAN
        PROVE  LET r == Connecting(c, b)
               IN  /\ r \in OpRec /\ r.kind = "connect" /\ r.at = "discover" /\ r.client = c
                   /\ (b => r.wasReal)
    BY NoOpIs DEF OpRec, Connecting
  <1>2. ASSUME NEW c \in Nat, NEW t \in Token, NEW a \in {"discover", "changes"}
        PROVE  LET r == Beginning(c, t, a)
               IN  r \in OpRec /\ r.kind = "sync" /\ r.at = a /\ r.client = c
    BY NoOpIs DEF OpRec, Beginning
  <1>3. QED
    BY <1>1, <1>2

LEMMA MailInit == Clients!ClientAssumption /\ Clients!Init => MailInv
  BY DEF Clients!ClientAssumption, Clients!Init, MailInv, MailTypes, CallsApart, PullsCurrent, MailCurrent,
         Token, OpRec, Clients!NoOp

\* What a record composed here or merged is.
LEMMA NotServed ==
    /\ \A n : Clients!Draft(n).is = "draft" /\ Clients!Local(Clients!Draft(n))
    /\ \A e, n : Clients!Sent(e, n).is = "sent" /\ Clients!Local(Clients!Sent(e, n))
    /\ \A e : Clients!Served(e).is = "served" /\ Clients!Served(e).id = e /\ ~Clients!Local(Clients!Served(e))
    /\ \A m : Clients!Local(m) => m.is # "served"
  BY DEF Clients!Draft, Clients!Sent, Clients!Served, Clients!Local

\* After a merge, what the node serves is what was pulled; what is local stays, or the
\* pull has its id.
LEMMA Merged ==
    ASSUME NEW op
    PROVE  /\ ServedIds(Clients!MergeLocalMail(op)) = op.pulled /\ ServedIds(Clients!Threads(op)) = op.pulled
           /\ \A m \in mail : Clients!Local(m) => \/ m \in Clients!MergeLocalMail(op)
                                          \/ m.id \in {x.id : x \in Clients!MergeLocalMail(op)}
  <1> DEFINE T == {Clients!Served(e) : e \in op.pulled}
             K == {m \in mail : Clients!Local(m) /\ m.id \notin op.pulled}
  <1>1. Clients!Threads(op) = T /\ Clients!MergeLocalMail(op) = T \union K
    BY DEF Clients!Threads, Clients!MergeLocalMail
  <1>2. \A x \in K : Clients!Local(x) /\ x.is # "served"
    BY NotServed
  <1>3. \A x \in T : x.is = "served" /\ x.id \in op.pulled
    BY NotServed
  <1>4. \A e \in op.pulled : \E x \in T : x.is = "served" /\ x.id = e
    BY NotServed
  <1>5. \A m \in mail : Clients!Local(m) => m \in K \/ m.id \in op.pulled
    OBVIOUS
  <1> HIDE DEF T, K
  <1>6. ServedIds(T) = op.pulled
    BY <1>3, <1>4 DEF ServedIds
  <1>7. {y \in T \union K : y.is = "served"} = {y \in T : y.is = "served"}
    BY <1>2
  <1>8. ServedIds(T \union K) = op.pulled
    BY <1>6, <1>7 DEF ServedIds
  <1>9. \A m \in mail : Clients!Local(m) => m \in T \union K \/ m.id \in {x.id : x \in T \union K}
    BY <1>4, <1>5
  <1>10. QED
    BY <1>1, <1>6, <1>8, <1>9

\* The node's mailbox changes, and with it the version: no pull and no stateToken is current.
LEMMA MailboxStep == ASSUME MailInv, NEW e \in Email, Clients!NodeChanges(e) PROVE MailInv' /\ Clients!LocalStays
  <1>1. /\ version' = version + 1 /\ emails' \in SUBSET Email /\ version \in Nat
        /\ UNCHANGED <<mode, stateToken, mail, client, session, epoch, written, ops>>
    BY DEF Clients!NodeChanges, Clients!net, MailInv, MailTypes
  <1>2. MailTypes' /\ CallsApart'
    BY <1>1 DEF MailInv, MailTypes, CallsApart
  <1>3. PullsCurrent'
    BY <1>1 DEF MailInv, PullsCurrent
  <1>4. MailCurrent'
    BY <1>1 DEF MailInv, MailCurrent
  <1>5. QED
    BY <1>1, <1>2, <1>3, <1>4 DEF MailInv, Clients!LocalStays

\* A record of this client alone is none of the node's.
LEMMA ComposeStep == ASSUME MailInv, Clients!Compose PROVE MailInv' /\ Clients!LocalStays
  <1>1. /\ UNCHANGED <<emails, version, mode, stateToken, client, session, epoch, ops>>
        /\ \E m : mail' = mail \union {m} /\ m.is # "served"
    <2>1. \A n : Clients!Draft(n).is # "served" /\ \A e : Clients!Sent(e, n).is # "served"
      BY NotServed
    <2>2. QED
      BY <2>1 DEF Clients!Compose, Clients!node
  <1>2. PICK m : mail' = mail \union {m} /\ m.is # "served"
    BY <1>1
  <1>3. {y \in mail' : y.is = "served"} = {y \in mail : y.is = "served"}
    BY <1>2
  <1>4. ServedIds(mail') = ServedIds(mail)
    BY <1>3 DEF ServedIds
  <1>5. MailTypes' /\ CallsApart' /\ PullsCurrent'
    BY <1>1 DEF MailInv, MailTypes, CallsApart, PullsCurrent
  <1>6. MailCurrent'
    BY <1>1, <1>4 DEF MailInv, MailCurrent
  <1>7. Clients!LocalStays
    BY <1>2 DEF Clients!LocalStays
  <1>8. QED
    BY <1>5, <1>6, <1>7 DEF MailInv

LEMMA ConnectStep == ASSUME Clients!ClientAssumption, MailInv, NEW o \in Op, Clients!Connect(o)
                     PROVE  MailInv' /\ Clients!LocalStays
  <1> DEFINE new == [Clients!NoOp EXCEPT !.kind = "connect", !.at = "discover", !.client = epoch',
                                 !.wasReal = (mode = "real")]
  <1>1. /\ epoch' = epoch + 1 /\ epoch < MaxConnects /\ ops[o] = Clients!NoOp
        /\ ops' = [ops EXCEPT ![o] = new]
        /\ UNCHANGED <<emails, version, mode, stateToken, mail, client, session>>
        /\ ops \in [Op -> OpRec] /\ epoch \in 0..MaxConnects /\ MaxConnects \in Nat
    BY DEF Clients!Connect, Clients!net, Clients!node, MailInv, MailTypes, Clients!ClientAssumption
  <1>2. /\ new \in OpRec /\ new.kind = "connect" /\ new.at = "discover" /\ new.client = epoch + 1
        /\ (mode = "real" => new.wasReal)
    <2>1. new = Connecting(epoch', mode = "real")
      BY DEF Connecting
    <2>2. epoch' \in Nat /\ epoch' = epoch + 1 /\ (mode = "real") \in BOOLEAN
      BY <1>1
    <2> HIDE DEF new
    <2>3. QED
      BY <2>1, <2>2, CallsBegin
  <1> HIDE DEF new
  <1>3. /\ ops' \in [Op -> OpRec] /\ ops'[o] = new /\ \A p \in Op \ {o} : ops'[p] = ops[p]
    BY <1>1, <1>2
  <1>4. MailTypes'
    BY <1>1, <1>3 DEF MailInv, MailTypes
  <1>5. CallsApart'
    <2>1. \A p \in Op : ops[p].kind # "none" => ops[p].client \in 1..epoch
      BY DEF MailInv, CallsApart
    <2>2. \A p \in Op : /\ ops'[p].kind # "none" => ops'[p].client \in 1..epoch'
                        /\ ops'[p].kind = "none" <=> ops'[p].at = "none"
      BY <1>1, <1>2, <1>3 DEF MailInv, CallsApart
    <2>3. \A p, q \in Op : p # q /\ ops'[p].kind # "none" /\ ops'[q].kind # "none"
                             => ops'[p].client # ops'[q].client
      BY <1>1, <1>2, <1>3, <2>1 DEF MailInv, CallsApart
    <2>4. mode' = "real" =>
            /\ client' \in 1..epoch'
            /\ \A p \in Op : ops'[p].kind = "connect" =>
                 ops'[p].client # client' /\ (ops'[p].client = epoch' => ops'[p].wasReal)
      BY <1>1, <1>2, <1>3, <2>1 DEF MailInv, CallsApart
    <2>5. QED
      BY <2>2, <2>3, <2>4 DEF CallsApart
  <1>6. PullsCurrent' /\ MailCurrent'
    BY <1>1, <1>2, <1>3 DEF MailInv, PullsCurrent, MailCurrent
  <1>7. QED
    BY <1>1, <1>4, <1>5, <1>6 DEF MailInv, Clients!LocalStays

LEMMA DisconnectStep == ASSUME Clients!ClientAssumption, MailInv, Clients!Disconnect PROVE MailInv' /\ Clients!LocalStays
  <1>1. /\ epoch' = epoch + 1 /\ epoch < MaxConnects /\ mode' = "sim" /\ stateToken' = NoToken
        /\ UNCHANGED <<emails, version, session, ops>>
    BY DEF Clients!Disconnect, Clients!node
  <1>2. MailTypes'
    BY <1>1 DEF MailInv, MailTypes, Token, Clients!ClientAssumption
  <1>3. CallsApart'
    BY <1>1 DEF MailInv, MailTypes, CallsApart
  <1>4. QED
    BY <1>1, <1>2, <1>3 DEF MailInv, PullsCurrent, MailCurrent, Clients!LocalStays

\* A sync begins on a client that no other call has.
LEMMA SyncStep == ASSUME Clients!ClientAssumption, Patient = TRUE, MailInv, NEW o \in Op, Clients!SyncNow(o)
                  PROVE  MailInv' /\ Clients!LocalStays
  <1> DEFINE new == [Clients!NoOp EXCEPT !.kind = "sync", !.client = client, !.token = stateToken,
                                 !.at = IF stateToken = NoToken THEN "discover" ELSE "changes"]
  <1>1. /\ mode = "real" /\ ops[o] = Clients!NoOp /\ \A p \in Op : ops[p].kind # "sync"
        /\ ops' = [ops EXCEPT ![o] = new]
        /\ UNCHANGED <<emails, version, mode, stateToken, mail, client, session, epoch>>
        /\ ops \in [Op -> OpRec] /\ epoch \in 0..MaxConnects /\ MaxConnects \in Nat /\ stateToken \in Token
        /\ client \in 1..epoch
    BY DEF Clients!SyncNow, Clients!Syncing, Clients!net, Clients!node, MailInv, MailTypes, CallsApart, Clients!ClientAssumption
  <1>2. /\ new \in OpRec /\ new.kind = "sync" /\ new.at \in {"discover", "changes"} /\ new.client = client
    <2>1. new = Beginning(client, stateToken, IF stateToken = NoToken THEN "discover" ELSE "changes")
      BY DEF Beginning
    <2>2. client \in Nat /\ (IF stateToken = NoToken THEN "discover" ELSE "changes") \in {"discover", "changes"}
      BY <1>1
    <2> HIDE DEF new
    <2>3. QED
      BY <1>1, <2>1, <2>2, CallsBegin
  <1> HIDE DEF new
  <1>3. /\ ops' \in [Op -> OpRec] /\ ops'[o] = new /\ \A p \in Op \ {o} : ops'[p] = ops[p]
    BY <1>1, <1>2
  <1>4. MailTypes'
    BY <1>1, <1>3 DEF MailInv, MailTypes
  <1>5. CallsApart'
    <2>1. \A p \in Op : ops[p].kind # "none" => ops[p].kind = "connect" /\ ops[p].client # client
      BY <1>1 DEF MailInv, CallsApart, OpRec
    <2>2. \A p \in Op : /\ ops'[p].kind # "none" => ops'[p].client \in 1..epoch'
                        /\ ops'[p].kind = "none" <=> ops'[p].at = "none"
      BY <1>1, <1>2, <1>3 DEF MailInv, CallsApart
    <2>3. \A p, q \in Op : p # q /\ ops'[p].kind # "none" /\ ops'[q].kind # "none"
                             => ops'[p].client # ops'[q].client
      BY <1>1, <1>2, <1>3, <2>1 DEF MailInv, CallsApart
    <2>4. mode' = "real" =>
            /\ client' \in 1..epoch'
            /\ \A p \in Op : ops'[p].kind = "connect" =>
                 ops'[p].client # client' /\ (ops'[p].client = epoch' => ops'[p].wasReal)
      BY <1>1, <1>2, <1>3, <2>1 DEF MailInv, CallsApart
    <2>5. QED
      BY <2>2, <2>3, <2>4 DEF CallsApart
  <1>6. PullsCurrent' /\ MailCurrent'
    BY <1>1, <1>2, <1>3 DEF MailInv, PullsCurrent, MailCurrent
  <1>7. QED
    BY <1>1, <1>4, <1>5, <1>6 DEF MailInv, Clients!LocalStays

\* A call is over, and the store as it was.
LEMMA CallEnds ==
    ASSUME MailInv, NEW o \in Op, ops' = [ops EXCEPT ![o] = Clients!NoOp],
           UNCHANGED <<emails, version, session, epoch>>
    PROVE  /\ (stateToken' \in Token => MailTypes') /\ PullsCurrent'
           /\ mode' = mode /\ client' = client => CallsApart'
           /\ mode' # "real" => CallsApart'
  <1>1. Clients!NoOp \in OpRec /\ Clients!NoOp.kind = "none" /\ Clients!NoOp.at = "none"
    BY NoOpIs
  <1>2. /\ ops \in [Op -> OpRec] /\ ops' \in [Op -> OpRec] /\ ops'[o].kind = "none" /\ ops'[o].at = "none"
        /\ \A p \in Op \ {o} : ops'[p] = ops[p]
    BY <1>1 DEF MailInv, MailTypes
  <1>3. QED
    BY <1>2 DEF MailInv, MailTypes, CallsApart, PullsCurrent

LEMMA ChangesStep == ASSUME MailInv, NEW o \in Op, Clients!AskChanges(o) PROVE MailInv' /\ Clients!LocalStays
  <1>1. /\ ops[o].at = "changes" /\ UNCHANGED <<emails, version, mode, stateToken, mail, client, session, epoch>>
    BY DEF Clients!AskChanges, Clients!node, Clients!net
  <1>2. MailCurrent' /\ Clients!LocalStays
    BY <1>1 DEF MailInv, MailCurrent, Clients!LocalStays
  <1>3. CASE ops' = [ops EXCEPT ![o] = Clients!NoOp]
    <2>1. stateToken \in Token
      BY DEF MailInv, MailTypes
    <2>2. QED
      BY <1>1, <1>2, <1>3, <2>1, CallEnds DEF MailInv
  <1>4. CASE ops' = [ops EXCEPT ![o] = [@ EXCEPT !.at = "discover"]]
    <2>1. ops \in [Op -> OpRec]
      BY DEF MailInv, MailTypes
    <2>2. /\ [ops[o] EXCEPT !.at = "discover"] \in OpRec
          /\ ops' = [ops EXCEPT ![o] = [ops[o] EXCEPT !.at = "discover"]]
      BY <1>4, <2>1 DEF OpRec
    <2>3. /\ ops' \in [Op -> OpRec] /\ ops'[o].at = "discover" /\ ops'[o].kind = ops[o].kind
          /\ ops'[o].client = ops[o].client /\ ops'[o].wasReal = ops[o].wasReal
          /\ \A p \in Op \ {o} : ops'[p] = ops[p]
      BY <2>1, <2>2 DEF OpRec
    <2>4. MailTypes' /\ CallsApart' /\ PullsCurrent'
      BY <1>1, <2>3 DEF MailInv, MailTypes, CallsApart, PullsCurrent
    <2>5. QED
      BY <1>2, <2>4 DEF MailInv
  <1>5. QED
    BY <1>3, <1>4 DEF Clients!AskChanges

\* The session goes to the client of this call, which no other call has.
LEMMA DiscoverStep == ASSUME MailInv, Clients!ClientAssumption, NEW o \in Op, Clients!Discover(o)
                      PROVE  MailInv' /\ Clients!LocalStays
  <1> DEFINE c == ops[o].client
             new == [ops[o] EXCEPT !.at = "emails"]
  <1>1. /\ ops[o].at = "discover" /\ UNCHANGED <<emails, version, mode, stateToken, mail, client, epoch>>
        /\ session' = [session EXCEPT ![c] = version]
        /\ ops \in [Op -> OpRec] /\ version \in Nat /\ session \in [1..MaxConnects -> Token]
        /\ epoch \in 0..MaxConnects /\ MaxConnects \in Nat
    BY DEF Clients!Discover, Clients!node, Clients!net, MailInv, MailTypes, Clients!ClientAssumption
  <1>2. /\ new \in OpRec /\ ops' = [ops EXCEPT ![o] = new]
    BY <1>1 DEF OpRec, Clients!Discover
  <1>3. /\ new.at = "emails" /\ new.kind = ops[o].kind /\ new.client = c /\ new.wasReal = ops[o].wasReal
    BY <1>1 DEF OpRec
  <1>4. ops[o].kind # "none" /\ c \in 1..MaxConnects
    BY <1>1 DEF MailInv, CallsApart
  <1> HIDE DEF new, c
  <1>5. /\ ops' \in [Op -> OpRec] /\ ops'[o] = new /\ \A p \in Op \ {o} : ops'[p] = ops[p]
    BY <1>1, <1>2
  <1>6. /\ session' \in [1..MaxConnects -> Token] /\ session'[c] = version
        /\ \A d \in 1..MaxConnects : d # c => session'[d] = session[d]
    BY <1>1, <1>4 DEF Token
  <1>7. MailTypes' /\ MailCurrent' /\ Clients!LocalStays
    BY <1>1, <1>5, <1>6 DEF MailInv, MailTypes, MailCurrent, Clients!LocalStays
  <1>8. CallsApart'
    BY <1>1, <1>3, <1>5, SMTT(30) DEF MailInv, CallsApart, c
  <1>9. PullsCurrent'
    <2>1. /\ ops'[o].at = "emails" /\ session'[ops'[o].client] \in 0..version
      BY <1>1, <1>3, <1>5, <1>6
    <2>2. ASSUME NEW p \in Op \ {o}, ops[p].at \in {"emails", "apply"}
          PROVE  session'[ops[p].client] = session[ops[p].client]
      <3>1. ops[p].kind # "none"
        BY <2>2 DEF MailInv, CallsApart
      <3>2. ops[p].client # c /\ ops[p].client \in 1..MaxConnects
        BY <1>1, <1>4, <3>1 DEF MailInv, CallsApart, c
      <3>3. QED
        BY <1>6, <3>2
    <2>3. QED
      BY <1>1, <1>5, <2>1, <2>2 DEF MailInv, PullsCurrent
  <1>10. QED
    BY <1>7, <1>8, <1>9 DEF MailInv

LEMMA PullStep == ASSUME MailInv, NEW o \in Op, Clients!EmailQueryGet(o) PROVE MailInv' /\ Clients!LocalStays
  <1> DEFINE new == [ops[o] EXCEPT !.pulled = emails, !.at = "apply"]
  <1>1. /\ ops[o].at = "emails" /\ UNCHANGED <<emails, version, mode, stateToken, mail, client, session, epoch>>
        /\ ops \in [Op -> OpRec] /\ emails \in SUBSET Email
    BY DEF Clients!EmailQueryGet, Clients!node, Clients!net, MailInv, MailTypes
  <1>2. new \in OpRec
    BY <1>1 DEF OpRec
  <1>3. ops' = [ops EXCEPT ![o] = new]
    BY <1>1 DEF Clients!EmailQueryGet
  <1>4. /\ new.at = "apply" /\ new.kind = ops[o].kind /\ new.client = ops[o].client
        /\ new.wasReal = ops[o].wasReal /\ new.pulled = emails
    BY <1>1 DEF OpRec
  <1> HIDE DEF new
  <1>5. /\ ops' \in [Op -> OpRec] /\ ops'[o] = new /\ \A p \in Op \ {o} : ops'[p] = ops[p]
    BY <1>1, <1>2, <1>3
  <1>6. MailTypes' /\ MailCurrent' /\ Clients!LocalStays
    BY <1>1, <1>5 DEF MailInv, MailTypes, MailCurrent, Clients!LocalStays
  <1>7. CallsApart'
    BY <1>1, <1>4, <1>5 DEF MailInv, CallsApart
  <1>8. PullsCurrent'
    BY <1>1, <1>4, <1>5 DEF MailInv, PullsCurrent
  <1>9. QED
    BY <1>6, <1>7, <1>8 DEF MailInv

\* A pull is applied: mail and stateToken come from one client, and what is local stays unless
\* the mode was not real when the connect began.
LEMMA ApplyStep == ASSUME MailInv, NEW o \in Op, Clients!ApplyConnect(o) \/ Clients!ApplySync(o)
                   PROVE  MailInv' /\ Clients!LocalStays
  <1> DEFINE op == ops[o]
  <1>1. /\ op.at = "apply" /\ op.kind # "none" /\ op.client \in 1..epoch /\ epoch \in 0..MaxConnects
        /\ ops' = [ops EXCEPT ![o] = Clients!NoOp] /\ UNCHANGED <<emails, version, session, epoch>>
        /\ session[op.client] \in 0..version /\ version \in Nat
        /\ (session[op.client] = version => op.pulled = emails)
        /\ ops \in [Op -> OpRec]
    BY DEF Clients!ApplyConnect, Clients!ApplySync, Clients!node, MailInv, MailTypes, CallsApart, PullsCurrent
  <1>2. /\ (stateToken' \in Token => MailTypes') /\ PullsCurrent'
        /\ (mode' = mode /\ client' = client => CallsApart')
    BY <1>1, CallEnds
  <1>3. CASE UNCHANGED Clients!net
    <2>1. stateToken \in Token
      BY DEF MailInv, MailTypes
    <2>2. QED
      BY <1>1, <1>2, <1>3, <2>1 DEF Clients!net, MailInv, MailCurrent, Clients!LocalStays
  <1>4. CASE /\ stateToken' = session[op.client]
             /\ (mail' = Clients!MergeLocalMail(op) \/ (mail' = Clients!Threads(op) /\ mode # "real"))
             /\ CallsApart'
    <2>1. MailTypes'
      <3>1. session[op.client] \in Token
        BY <1>1 DEF Token
      <3>2. QED
        BY <1>2, <1>4, <3>1
    <2>2. MailCurrent'
      <3>1. ServedIds(mail') = op.pulled
        BY <1>4, Merged
      <3>2. QED
        BY <1>1, <1>4, <3>1 DEF MailCurrent
    <2>3. Clients!LocalStays
      BY <1>4, Merged DEF Clients!LocalStays
    <2>4. QED
      BY <1>2, <1>4, <2>1, <2>2, <2>3 DEF MailInv
  <1>5. CASE Clients!ApplySync(o)
    <2>1. stateToken' = session[op.client] /\ mail' = Clients!MergeLocalMail(op) /\ mode' = mode /\ client' = client
      BY <1>5 DEF Clients!ApplySync, Clients!PulledToken
    <2>2. QED
      BY <1>2, <1>4, <2>1
  <1>6. CASE Clients!ApplyConnect(o) /\ Clients!Current(op)
    <2>1. /\ op.kind = "connect" /\ op.client = epoch /\ stateToken' = session[op.client]
          /\ mail' = IF op.wasReal THEN Clients!MergeLocalMail(op) ELSE Clients!Threads(op)
          /\ mode' = "real" /\ client' = op.client
      BY <1>6 DEF Clients!ApplyConnect, Clients!Current, Clients!PulledToken
    <2>2. mode = "real" => op.wasReal
      BY <2>1 DEF MailInv, CallsApart
    <2>3. Clients!NoOp.kind = "none" /\ Clients!NoOp.at = "none"
      BY NoOpIs
    <2> HIDE DEF op
    <2>4. /\ ops'[o].kind = "none" /\ ops'[o].at = "none" /\ \A p \in Op \ {o} : ops'[p] = ops[p]
      BY <1>1, <2>3
    <2>5. \A p \in Op \ {o} : ops[p].kind # "none" => ops[p].client # op.client
      BY <1>1 DEF MailInv, CallsApart, op
    <2>6. CallsApart'
      BY <1>1, <2>1, <2>4, <2>5 DEF MailInv, CallsApart
    <2>7. mail' = Clients!MergeLocalMail(op) \/ (mail' = Clients!Threads(op) /\ mode # "real")
      BY <2>1, <2>2
    <2>8. QED
      BY <1>4, <2>1, <2>6, <2>7
  <1>7. QED
    BY <1>3, <1>5, <1>6 DEF Clients!ApplyConnect

LEMMA FailStep == ASSUME MailInv, NEW o \in Op, Clients!Fails(o) PROVE MailInv' /\ Clients!LocalStays
  <1>1. /\ ops' = [ops EXCEPT ![o] = Clients!NoOp] /\ UNCHANGED <<emails, version, session, epoch>>
        /\ stateToken' = stateToken /\ mail' = mail /\ (mode' # "real" \/ (mode' = mode /\ client' = client))
    BY DEF Clients!Fails, Clients!node, Clients!net
  <1>2. MailTypes' /\ PullsCurrent' /\ CallsApart'
    <2>1. stateToken \in Token
      BY DEF MailInv, MailTypes
    <2>2. QED
      BY <1>1, <2>1, CallEnds
  <1>3. QED
    BY <1>1, <1>2 DEF MailInv, MailCurrent, Clients!LocalStays

LEMMA MailStep ==
    Clients!ClientAssumption /\ Patient = TRUE /\ MailInv /\ [Clients!Next]_Clients!vars => MailInv' /\ [Clients!LocalStays]_Clients!vars
  <1> SUFFICES ASSUME Clients!ClientAssumption, Patient = TRUE, MailInv, [Clients!Next]_Clients!vars
               PROVE  MailInv' /\ [Clients!LocalStays]_Clients!vars
    OBVIOUS
  <1>1. CASE UNCHANGED Clients!vars
    BY <1>1 DEF Clients!vars, MailInv, MailTypes, CallsApart, PullsCurrent, MailCurrent
  <1>2. CASE Clients!Next
    BY <1>2, MailboxStep, ComposeStep, ConnectStep, DisconnectStep, SyncStep, ChangesStep, DiscoverStep,
       PullStep, ApplyStep, FailStep, Zenon DEF Clients!Next
  <1>3. QED
    BY <1>1, <1>2

\* While the user waits for a sync before asking for another, the web client in real mode
\* loses no record that only it has, and its state stateToken is never ahead of its mail
\* (client sync.js connect, disconnect, syncNow), for every number of calls in flight,
\* changes of the node's mailbox, reconnects and failures.
THEOREM MailStays ==
    ASSUME Clients!ClientAssumption, Patient = TRUE
    PROVE  Clients!Spec => [][Clients!LocalStays /\ Clients!TokenNotAhead']_Clients!vars
  <1>1. MailInv' => Clients!TokenNotAhead'
    BY DEF MailInv, MailCurrent, Clients!TokenNotAhead, ServedIds
  <1>2. MailInv /\ [Clients!Next]_Clients!vars => MailInv' /\ [Clients!LocalStays /\ Clients!TokenNotAhead']_Clients!vars
    BY <1>1, MailStep
  <1>3. QED
    BY <1>2, MailInit, PTL DEF Clients!Spec

-----------------------------------------------------------------------------
(* The stored-bytes level that is billed once per period.                  *)

CONSTANTS Account, Mine, Delta, MaxStored, MaxPeriod
VARIABLES held, level, last, disk, bill

Usages == INSTANCE UsageLevel WITH stored <- held

\* A period after the last one reported was never billed, one before it at most once.
LevelInv ==
    /\ held \in [Account -> 0..MaxStored]
    /\ level = held[Mine]
    /\ last \in Int /\ disk = [level |-> level, last |-> last]
    /\ bill \in [0..MaxPeriod -> [reports : {0, 1}, bytes : 0..MaxStored]]
    /\ \A p \in 0..MaxPeriod : p > last => bill[p].reports = 0 /\ bill[p].bytes = 0

\* No period is billed twice, over restarts and clocks that go back, and none for more than
\* the account could hold (usage.rs StoredBytesLevel), for every number of accounts, sizes
\* and periods.
THEOREM LevelIsBilledOnce == ASSUME Usages!UsageAssumption PROVE Usages!Spec => []Usages!UsageIsBilledOnce
  <1>1. Usages!Init => LevelInv
    BY DEF Usages!Init, LevelInv, Usages!Never, Usages!UsageAssumption
  <1>2. LevelInv /\ [Usages!Next]_Usages!vars => LevelInv'
    <2> SUFFICES ASSUME LevelInv, [Usages!Next]_Usages!vars PROVE LevelInv'
      OBVIOUS
    <2>1. /\ MaxStored \in Nat /\ MaxPeriod \in Nat /\ Mine \in Account
          /\ held[Mine] \in Nat /\ held[Mine] <= MaxStored
      BY DEF Usages!UsageAssumption, LevelInv
    <2>2. ASSUME NEW a \in Account, NEW kind, NEW n \in Delta, Usages!Observe(a, kind, n) PROVE LevelInv'
      <3> DEFINE v == held[a] + Usages!StoredDelta(kind, n)
      <3>1. /\ v \in 0..MaxStored /\ held' = [held EXCEPT ![a] = v]
            /\ level' = (IF a = Mine THEN level + Usages!StoredDelta(kind, n) ELSE level)
            /\ disk' = [disk EXCEPT !.level = level'] /\ last' = last /\ bill' = bill
        BY <2>2 DEF Usages!Observe, Usages!OwnEvent, LevelInv
      <3>2. level' = held'[Mine]
        BY <2>1, <3>1 DEF LevelInv
      <3>3. held' \in [Account -> 0..MaxStored]
        <4> HIDE DEF v
        <4>1. QED
          BY <3>1 DEF LevelInv
      <3>4. disk' = [level |-> level', last |-> last']
        BY <3>1 DEF LevelInv
      <3>5. QED
        BY <3>1, <3>2, <3>3, <3>4 DEF LevelInv
    <2>3. ASSUME NEW p \in 0..MaxPeriod, Usages!ReportForPeriod(p) PROVE LevelInv'
      <3> DEFINE reported == [reports |-> bill[p].reports + 1, bytes |-> bill[p].bytes + level]
      <3>1. /\ p > last /\ last' = p /\ disk' = [disk EXCEPT !.last = p]
            /\ bill' = [bill EXCEPT ![p] = reported] \/ bill' = bill
            /\ held' = held /\ level' = level
        BY <2>1, <2>3 DEF Usages!ReportForPeriod, Usages!NewPeriod, LevelInv
      <3>2. reported \in [reports : {0, 1}, bytes : 0..MaxStored]
        BY <2>1, <3>1 DEF LevelInv
      <3> HIDE DEF reported
      <3>3. bill' \in [0..MaxPeriod -> [reports : {0, 1}, bytes : 0..MaxStored]]
        BY <3>1, <3>2 DEF LevelInv
      <3>4. \A q \in 0..MaxPeriod : q > last' => bill'[q].reports = 0 /\ bill'[q].bytes = 0
        <4>1. \A q \in 0..MaxPeriod : q > p => q > last /\ q # p
          BY <3>1 DEF LevelInv
        <4>2. \A q \in 0..MaxPeriod : q # p => bill'[q] = bill[q]
          BY <3>1 DEF LevelInv
        <4>3. QED
          BY <3>1, <4>1, <4>2 DEF LevelInv
      <3>5. disk' = [level |-> level', last |-> last'] /\ last' \in Int
        BY <3>1 DEF LevelInv
      <3>6. QED
        BY <3>1, <3>3, <3>4, <3>5 DEF LevelInv
    <2>4. CASE Usages!Resume
      BY <2>4 DEF Usages!Resume, Usages!Resumed, LevelInv
    <2>5. CASE UNCHANGED Usages!vars
      BY <2>5 DEF Usages!vars, LevelInv
    <2>6. QED
      BY <2>2, <2>3, <2>4, <2>5 DEF Usages!Next
  <1>3. LevelInv => Usages!UsageIsBilledOnce
    BY DEF LevelInv, Usages!UsageIsBilledOnce, Usages!BilledOncePerPeriod, Usages!LevelIsStored
  <1>4. QED
    BY <1>1, <1>2, <1>3, PTL DEF Usages!Spec

-----------------------------------------------------------------------------
(* The metering queue between the emitters of events and what is billed.   *)

CONSTANTS Event, NoId, Capacity, Batch
VARIABLES buf, known, totals, billed, taken

Meters == INSTANCE MeterQueue WITH seen <- known

\* The first n events of q on a meter, and what they come to.
OnMeter(q, n, m) == {i \in 1..n : Meters!MeterOf(q[i]) = m}
Queued(q, n, m) == SumFunctionOnSet(Meters!Amounts(q), OnMeter(q, n, m))

\* What the events taken on a meter come to.
Amount == [e \in Event |-> e.amount]
TakenOn(s, m) == {e \in s : Meters!MeterOf(e) = m}
Took(s, m) == SumFunctionOnSet(Amount, TakenOn(s, m))

MeterTypes ==
    /\ buf \in Seq(Event) /\ taken \subseteq Event /\ IsFiniteSet(taken)
    /\ known = {Meters!DedupKey(e) : e \in taken}
    /\ totals \in [Meters!Meter -> Nat] /\ billed \in [Meters!Meter -> Nat]

MeterInv ==
    /\ MeterTypes
    /\ \A m \in Meters!Meter : totals[m] + Queued(buf, Len(buf), m) = Took(taken, m) /\ billed[m] <= totals[m]

\* q2 is q and e behind it; q2 is what is left of q behind the first n.
Extends(q, q2, e) ==
    /\ q2 \in Seq(Event) /\ Len(q2) = Len(q) + 1
    /\ q2[Len(q) + 1] = e /\ \A i \in 1..Len(q) : q2[i] = q[i]
Leaves(q, q2, n) ==
    /\ q2 \in Seq(Event) /\ Len(q2) = Len(q) - n
    /\ \A i \in 1..Len(q) - n : q2[i] = q[n + i]

LEMMA MeterSum == ASSUME NEW f, NEW S PROVE Meters!SumFunctionOnSet(f, S) = SumFunctionOnSet(f, S)
  BY DEF SumFunctionOnSet, FoldFunctionOnSet, MapThenFoldSet,
         Meters!SumFunctionOnSet, Meters!FoldFunctionOnSet, Meters!MapThenFoldSet

-----------------------------------------------------------------------------
\* Events are known by their keys.
LEMMA KeysDiffer ==
    ASSUME Meters!MeterAssumption, NEW e \in Event, NEW f \in Event, Meters!DedupKey(e) = Meters!DedupKey(f)
    PROVE  e = f
  <1>1. CASE e.id # NoId
    <2>1. f.id # NoId /\ e.id = f.id
      BY <1>1 DEF Meters!DedupKey
    <2>2. QED
      BY <1>1, <2>1 DEF Meters!MeterAssumption
  <1>2. CASE e.id = NoId
    <2>1. /\ f.id = NoId /\ e.account = f.account /\ e.kind = f.kind
          /\ e.ts = f.ts /\ e.amount = f.amount
      BY <1>2 DEF Meters!DedupKey
    <2>2. QED
      BY <1>2, <2>1 DEF Meters!MeterAssumption
  <1>3. QED
    BY <1>1, <1>2

LEMMA QueuedFacts ==
    ASSUME Meters!MeterAssumption, NEW q \in Seq(Event), NEW n \in 0..Len(q), NEW m
    PROVE  /\ IsFiniteSet(OnMeter(q, n, m)) /\ OnMeter(q, n, m) \subseteq 1..Len(q)
           /\ \A i \in 1..Len(q) : Meters!Amounts(q)[i] = q[i].amount /\ q[i].amount \in Nat
           /\ Integral(Meters!Amounts(q), OnMeter(q, n, m)) /\ Queued(q, n, m) \in Nat
  <1>1. n \in Nat /\ Len(q) \in Nat /\ \A i \in 1..Len(q) : q[i] \in Event
    OBVIOUS
  <1>2. OnMeter(q, n, m) \subseteq 1..n /\ OnMeter(q, n, m) \subseteq 1..Len(q)
    BY <1>1 DEF OnMeter
  <1>3. IsFiniteSet(OnMeter(q, n, m))
    <2>1. IsFiniteSet(1..n)
      BY <1>1, FS_Interval
    <2>2. QED
      BY <1>2, <2>1, FS_Subset
  <1>4. \A i \in 1..Len(q) : Meters!Amounts(q)[i] = q[i].amount /\ q[i].amount \in Nat
    BY <1>1 DEF Meters!Amounts, Meters!MeterAssumption
  <1>5. Integral(Meters!Amounts(q), OnMeter(q, n, m)) /\ Queued(q, n, m) \in Nat
    <2> DEFINE f == Meters!Amounts(q)
               S == OnMeter(q, n, m)
    <2>1. \A i \in S : f[i] \in Nat
      BY <1>2, <1>4
    <2>2. S \in SUBSET S /\ IsFiniteSet(S)
      BY <1>3
    <2> HIDE DEF f, S
    <2>3. SumFunctionOnSet(f, S) \in Nat /\ Integral(f, S)
      BY <2>1, <2>2, SumGrows DEF Integral
    <2>4. QED
      BY <2>3 DEF f, S, Queued
  <1>6. QED
    BY <1>2, <1>3, <1>4, <1>5

LEMMA TookFacts ==
    ASSUME Meters!MeterAssumption, NEW s \in SUBSET Event, IsFiniteSet(s), NEW m
    PROVE  IsFiniteSet(TakenOn(s, m)) /\ Integral(Amount, TakenOn(s, m)) /\ Took(s, m) \in Int
  <1>1. TakenOn(s, m) \subseteq s
    BY DEF TakenOn
  <1>2. IsFiniteSet(TakenOn(s, m))
    BY <1>1, FS_Subset
  <1>3. Integral(Amount, TakenOn(s, m))
    BY <1>1 DEF Integral, Amount, Meters!MeterAssumption
  <1>4. QED
    BY <1>2, <1>3, SumType DEF Took

\* One event more in the queue.
LEMMA QueuedMore ==
    ASSUME Meters!MeterAssumption, NEW q \in Seq(Event), NEW e \in Event, NEW q2, Extends(q, q2, e), NEW m
    PROVE  Queued(q2, Len(q2), m) = Queued(q, Len(q), m) + (IF Meters!MeterOf(e) = m THEN e.amount ELSE 0)
  <1> DEFINE f == Meters!Amounts(q)
             h == Meters!Amounts(q2)
             S == OnMeter(q, Len(q), m)
             k == Len(q) + 1
  <1>1. /\ q2 \in Seq(Event) /\ Len(q2) = k /\ Len(q) \in Nat /\ k \in Nat
        /\ q2[k] = e /\ \A i \in 1..Len(q) : q2[i] = q[i]
    BY DEF Extends
  <1>2. /\ IsFiniteSet(S) /\ S \subseteq 1..Len(q) /\ Integral(f, S) /\ SumFunctionOnSet(f, S) \in Nat
        /\ \A i \in 1..Len(q) : f[i] = q[i].amount /\ q[i].amount \in Nat
    BY QueuedFacts DEF Queued
  <1>3. Integral(h, OnMeter(q2, k, m)) /\ \A i \in 1..k : h[i] = q2[i].amount
    <2>1. k \in 0..Len(q2) /\ q2 \in Seq(Event)
      BY <1>1
    <2>2. QED
      BY <1>1, <2>1, QueuedFacts
  <1>4. \A i \in S : f[i] = h[i]
    BY <1>1, <1>2, <1>3
  <1>5. SumFunctionOnSet(f, S) = SumFunctionOnSet(h, S)
    <2> HIDE DEF f, h, S
    <2>1. QED
      BY <1>2, <1>4, SumSame
  <1>6. k \notin S /\ h[k] = e.amount
    BY <1>1, <1>2, <1>3
  <1>7. CASE Meters!MeterOf(e) = m
    <2>1. OnMeter(q2, k, m) = S \union {k}
      BY <1>1, <1>7 DEF OnMeter
    <2>2. Integral(h, S \union {k})
      BY <1>3, <2>1
    <2> HIDE DEF f, h, S, k
    <2>3. SumFunctionOnSet(h, S \union {k}) = h[k] + SumFunctionOnSet(h, S)
      BY <1>2, <1>6, <2>2, SumWith
    <2>4. Queued(q2, Len(q2), m) = e.amount + SumFunctionOnSet(f, S)
      BY <1>1, <1>5, <1>6, <2>1, <2>3 DEF Queued, h
    <2>5. e.amount \in Nat
      BY DEF Meters!MeterAssumption
    <2>6. QED
      BY <1>2, <1>7, <2>4, <2>5 DEF Queued, f, S
  <1>8. CASE Meters!MeterOf(e) # m
    <2>1. OnMeter(q2, k, m) = S
      BY <1>1, <1>8 DEF OnMeter
    <2>2. Queued(q2, Len(q2), m) = SumFunctionOnSet(f, S)
      BY <1>1, <1>5, <2>1 DEF Queued
    <2>3. QED
      BY <1>2, <1>8, <2>2 DEF Queued
  <1>9. QED
    BY <1>7, <1>8

\* A batch off the queue.
LEMMA QueuedLess ==
    ASSUME Meters!MeterAssumption, NEW q \in Seq(Event), NEW n \in 0..Len(q), NEW q2, Leaves(q, q2, n), NEW m
    PROVE  Queued(q, Len(q), m) = Queued(q, n, m) + Queued(q2, Len(q2), m)
  <1> DEFINE f == Meters!Amounts(q)
             h == Meters!Amounts(q2)
             S == OnMeter(q, Len(q), m)
             R == OnMeter(q, n, m)
             T == OnMeter(q2, Len(q2), m)
             b == [i \in 1..Len(q2) |-> n + i]
  <1>1. /\ q2 \in Seq(Event) /\ Len(q2) = Len(q) - n /\ n \in Nat /\ Len(q) \in Nat /\ Len(q2) \in Nat
        /\ \A i \in 1..Len(q) - n : q2[i] = q[n + i]
    BY DEF Leaves
  <1>2. /\ IsFiniteSet(S) /\ Integral(f, S) /\ S \subseteq 1..Len(q)
        /\ \A i \in 1..Len(q) : f[i] = q[i].amount
    <2>1. Len(q) \in 0..Len(q)
      BY <1>1
    <2>2. QED
      BY <2>1, QueuedFacts
  <1>3. /\ IsFiniteSet(T) /\ Integral(h, T) /\ T \subseteq 1..Len(q2)
        /\ \A i \in 1..Len(q2) : h[i] = q2[i].amount
    <2>1. Len(q2) \in 0..Len(q2)
      BY <1>1
    <2>2. QED
      BY <1>1, <2>1, QueuedFacts
  <1>4. R \subseteq S
    BY <1>1 DEF OnMeter
  <1>5. SumFunctionOnSet(f, S) = SumFunctionOnSet(f, R) + SumFunctionOnSet(f, S \ R)
    <2>1. IsFiniteSet(S) /\ Integral(f, S) /\ R \in SUBSET S
      BY <1>2, <1>4
    <2> HIDE DEF f, S, R
    <2>2. QED
      BY <2>1, SumSplit
  <1>6. S \ R = {b[i] : i \in T}
    <2>1. \A j \in S \ R : j - n \in T /\ j = b[j - n]
      <3> TAKE j \in S \ R
      <3>1. j \in 1..Len(q) /\ j > n /\ Meters!MeterOf(q[j]) = m
        BY <1>1 DEF OnMeter
      <3>2. j - n \in 1..Len(q2) /\ n + (j - n) = j
        BY <1>1, <3>1
      <3>3. q2[j - n] = q[j]
        BY <1>1, <3>2
      <3>4. QED
        BY <3>1, <3>2, <3>3 DEF OnMeter
    <2>2. \A i \in T : b[i] \in S \ R
      <3> TAKE i \in T
      <3>1. i \in 1..Len(q2) /\ Meters!MeterOf(q2[i]) = m
        BY DEF OnMeter
      <3>2. n + i \in 1..Len(q) /\ n + i \notin 1..n /\ q[n + i] = q2[i] /\ b[i] = n + i
        BY <1>1, <3>1
      <3>3. QED
        BY <3>1, <3>2 DEF OnMeter
    <2> HIDE DEF S, R, T, b
    <2>3. QED
      BY <2>1, <2>2
  <1>7. Renames(b, T) /\ \A i \in T : f[b[i]] = h[i]
    <2>1. Renames(b, T)
      BY <1>1, <1>3 DEF Renames
    <2>2. ASSUME NEW i \in T PROVE f[b[i]] = h[i]
      <3>1. i \in 1..Len(q2) /\ b[i] = n + i /\ n + i \in 1..Len(q)
        BY <1>1, <1>3
      <3>2. q[n + i] = q2[i]
        BY <1>1, <3>1
      <3>3. QED
        BY <1>2, <1>3, <3>1, <3>2
    <2>3. QED
      BY <2>1, <2>2
  <1>8. SumFunctionOnSet(f, {b[i] : i \in T}) = SumFunctionOnSet(h, T)
    <2>1. IsFiniteSet(T) /\ Integral(h, T) /\ Renames(b, T)
      BY <1>3, <1>7
    <2>2. \A i \in T : f[b[i]] = h[i]
      BY <1>7
    <2> HIDE DEF f, h, T, b
    <2>3. QED
      BY <2>1, <2>2, SumMoved
  <1>9. QED
    BY <1>5, <1>6, <1>8 DEF Queued

-----------------------------------------------------------------------------
\* What Accumulator::record adds, batch by batch.
LEMMA DrainStep ==
    ASSUME Meters!MeterAssumption, MeterInv, NEW n \in 0..Len(buf), Leaves(buf, buf', n),
           totals' = Meters!Recorded(n), UNCHANGED <<known, billed, taken>>
    PROVE  MeterInv'
  <1>1. /\ buf \in Seq(Event) /\ totals \in [Meters!Meter -> Nat] /\ billed \in [Meters!Meter -> Nat]
        /\ taken' = taken /\ billed' = billed /\ known' = known
    BY DEF MeterInv, MeterTypes
  <1>2. ASSUME NEW m \in Meters!Meter
        PROVE  /\ totals'[m] = totals[m] + Queued(buf, n, m) /\ totals'[m] \in Nat
               /\ totals'[m] + Queued(buf', Len(buf'), m) = Took(taken', m)
               /\ billed'[m] <= totals'[m]
    <2>1. totals'[m] = totals[m] + Queued(buf, n, m)
      BY MeterSum DEF Meters!Recorded, Queued, OnMeter
    <2>2. Queued(buf, n, m) \in Nat /\ totals[m] \in Nat /\ billed[m] \in Nat
      BY <1>1, QueuedFacts
    <2>3. Queued(buf, Len(buf), m) = Queued(buf, n, m) + Queued(buf', Len(buf'), m)
      BY <1>1, QueuedLess
    <2>4. Queued(buf', Len(buf'), m) \in Nat
      <3>1. buf' \in Seq(Event) /\ Len(buf') \in 0..Len(buf')
        BY DEF Leaves
      <3>2. QED
        BY <3>1, QueuedFacts
    <2>5. totals[m] + Queued(buf, Len(buf), m) = Took(taken, m) /\ billed[m] <= totals[m]
      BY DEF MeterInv
    <2> HIDE DEF Queued, Took
    <2>6. QED
      BY <1>1, <2>1, <2>2, <2>3, <2>4, <2>5
  <1>3. totals' \in [Meters!Meter -> Nat]
    <2>1. totals' = [m \in Meters!Meter |-> totals'[m]]
      BY DEF Meters!Recorded
    <2>2. QED
      BY <1>2, <2>1
  <1>4. MeterTypes'
    BY <1>1, <1>3 DEF MeterInv, MeterTypes, Leaves, Meters!DedupKey
  <1> HIDE DEF Queued, Took, MeterTypes
  <1>5. QED
    BY <1>2, <1>4 DEF MeterInv

\* enqueue().
LEMMA EnqueueStep ==
    ASSUME Meters!MeterAssumption, MeterInv, NEW e \in Event, Meters!Enqueue(e)
    PROVE  MeterInv'
  <1>1. /\ buf \in Seq(Event) /\ totals \in [Meters!Meter -> Nat] /\ billed \in [Meters!Meter -> Nat]
        /\ taken \in SUBSET Event /\ IsFiniteSet(taken)
        /\ known = {Meters!DedupKey(f) : f \in taken} /\ totals' = totals /\ billed' = billed
    BY DEF MeterInv, MeterTypes, Meters!Enqueue
  <1>2. \A m \in Meters!Meter : totals[m] + Queued(buf, Len(buf), m) = Took(taken, m) /\ billed[m] <= totals[m]
    BY DEF MeterInv
  <1>3. Meters!DedupKey(e) \in known <=> e \in taken
    BY <1>1, KeysDiffer
  <1>4. CASE known' = known /\ buf' = buf /\ taken' = taken
    <2>1. MeterTypes'
      BY <1>1, <1>4 DEF MeterTypes, Meters!DedupKey
    <2>2. QED
      BY <1>1, <1>2, <1>4, <2>1 DEF MeterInv, Queued, Took, Meters!Amounts, OnMeter, TakenOn, Amount
  <1>5. CASE Meters!DedupKey(e) \notin known /\ known' = known \union {Meters!DedupKey(e)} /\ buf' = Append(buf, e)
             /\ taken' = taken \union {e}
    <2>1. e \notin taken /\ IsFiniteSet(taken \union {e}) /\ taken \union {e} \in SUBSET Event
      BY <1>1, <1>3, <1>5, FS_AddElement
    <2>2. Extends(buf, buf', e)
      BY <1>1, <1>5 DEF Extends
    <2>3. MeterTypes'
      <3>1. known' = {Meters!DedupKey(f) : f \in taken'}
        BY <1>1, <1>5
      <3>2. QED
        BY <1>1, <1>5, <2>1, <2>2, <3>1 DEF MeterTypes, Extends, Meters!DedupKey
    <2>4. ASSUME NEW m \in Meters!Meter
          PROVE  totals[m] + Queued(buf', Len(buf'), m) = Took(taken', m)
      <3> DEFINE more == IF Meters!MeterOf(e) = m THEN e.amount ELSE 0
                 S == TakenOn(taken, m)
      <3>1. Queued(buf', Len(buf'), m) = Queued(buf, Len(buf), m) + more
        BY <1>1, <2>2, QueuedMore
      <3>2. Queued(buf, Len(buf), m) \in Nat /\ totals[m] \in Nat /\ more \in Nat
        <4>1. Len(buf) \in 0..Len(buf)
          BY <1>1
        <4>2. more \in Nat
          BY DEF Meters!MeterAssumption
        <4>3. QED
          BY <1>1, <4>1, <4>2, QueuedFacts
      <3>3. Took(taken \union {e}, m) = Took(taken, m) + more
        <4>1. IsFiniteSet(S) /\ SumFunctionOnSet(Amount, S) \in Int
          BY <1>1, TookFacts DEF Took
        <4>2. CASE Meters!MeterOf(e) = m
          <5>1. TakenOn(taken \union {e}, m) = S \union {e} /\ e \notin S /\ Amount[e] = e.amount
            BY <2>1, <4>2 DEF TakenOn, Amount
          <5>2. Integral(Amount, S \union {e})
            BY <2>1, <5>1, TookFacts
          <5> HIDE DEF S, Amount
          <5>3. SumFunctionOnSet(Amount, S \union {e}) = Amount[e] + SumFunctionOnSet(Amount, S)
            BY <4>1, <5>1, <5>2, SumWith
          <5>4. Took(taken \union {e}, m) = Amount[e] + SumFunctionOnSet(Amount, S)
            BY <5>1, <5>3 DEF Took
          <5>5. QED
            BY <3>2, <4>1, <4>2, <5>1, <5>4 DEF Took, S
        <4>3. CASE Meters!MeterOf(e) # m
          <5>1. TakenOn(taken \union {e}, m) = S
            BY <4>3 DEF TakenOn
          <5>2. QED
            BY <4>1, <4>3, <5>1 DEF Took
        <4>4. QED
          BY <4>2, <4>3
      <3> HIDE DEF more, Queued, Took
      <3>4. QED
        BY <1>2, <1>5, <3>1, <3>2, <3>3
    <2> HIDE DEF MeterTypes, Queued, Took
    <2>5. QED
      BY <1>1, <1>2, <2>3, <2>4 DEF MeterInv
  <1>6. CASE Meters!DedupKey(e) \in known /\ taken' = taken \union {e} /\ known' = known /\ buf' = buf
    <2>1. taken' = taken
      BY <1>3, <1>6
    <2>2. QED
      BY <1>4, <1>6, <2>1
  <1>7. QED
    BY <1>4, <1>5, <1>6 DEF Meters!Enqueue

\* Every event an emitter was told is in is counted once, whatever was retried and however
\* full the queue was (dmtap-operator/src/queue.rs enqueue, drain_batch, drain_all), for
\* every capacity, batch and set of events.
THEOREM TakenAreCounted == ASSUME Meters!MeterAssumption PROVE Meters!Spec => []Meters!EachTakenCountedOnce
  <1>1. Meters!Init => MeterInv
    <2> SUFFICES ASSUME Meters!Init PROVE MeterInv
      OBVIOUS
    <2>1. buf = <<>> /\ known = {} /\ totals = [m \in Meters!Meter |-> 0] /\ billed = totals /\ taken = {}
      BY DEF Meters!Init
    <2>2. MeterTypes
      BY <2>1, FS_EmptySet DEF MeterTypes
    <2>3. ASSUME NEW m \in Meters!Meter
          PROVE  totals[m] + Queued(buf, Len(buf), m) = Took(taken, m) /\ billed[m] <= totals[m]
      <3>1. OnMeter(buf, Len(buf), m) = {} /\ TakenOn(taken, m) = {}
        BY <2>1 DEF OnMeter, TakenOn
      <3>2. Queued(buf, Len(buf), m) = 0 /\ Took(taken, m) = 0
        BY <3>1, SumEmpty DEF Queued, Took
      <3>3. QED
        BY <2>1, <3>2
    <2>4. QED
      BY <2>2, <2>3 DEF MeterInv
  <1>2. MeterInv /\ [Meters!Next]_Meters!vars => MeterInv'
    <2> SUFFICES ASSUME MeterInv, [Meters!Next]_Meters!vars PROVE MeterInv'
      OBVIOUS
    <2>1. buf \in Seq(Event) /\ Len(buf) \in Nat
      BY DEF MeterInv, MeterTypes
    <2>2. CASE \E e \in Event : Meters!Enqueue(e)
      BY <2>2, EnqueueStep
    <2>3. ASSUME NEW max \in Batch, Meters!DrainBatch(max) PROVE MeterInv'
      <3> DEFINE n == IF max < Len(buf) THEN max ELSE Len(buf)
      <3>1. totals' = Meters!Recorded(n) /\ buf' = SubSeq(buf, n + 1, Len(buf)) /\ UNCHANGED <<known, billed, taken>>
        BY <2>3 DEF Meters!DrainBatch
      <3>2. n \in 0..Len(buf)
        BY <2>1 DEF Meters!MeterAssumption
      <3> HIDE DEF n
      <3>3. Leaves(buf, buf', n)
        BY <2>1, <3>1, <3>2 DEF Leaves
      <3>4. QED
        BY <3>1, <3>2, <3>3, DrainStep
    <2>4. CASE Meters!DrainAll
      <3>1. totals' = Meters!Recorded(Len(buf)) /\ buf' = <<>> /\ UNCHANGED <<known, billed, taken>>
        BY <2>4 DEF Meters!DrainAll
      <3>2. Len(buf) \in 0..Len(buf) /\ Leaves(buf, buf', Len(buf))
        BY <2>1, <3>1 DEF Leaves
      <3>3. QED
        BY <3>1, <3>2, DrainStep
    <2>5. CASE Meters!ExportTo
      <3>1. billed' = totals /\ UNCHANGED <<buf, known, totals, taken>>
        BY <2>5 DEF Meters!ExportTo
      <3>2. MeterTypes'
        BY <3>1 DEF MeterInv, MeterTypes, Meters!DedupKey
      <3>3. \A m \in Meters!Meter : billed'[m] <= totals'[m]
        <4>1. \A m \in Meters!Meter : totals[m] \in Nat
          BY DEF MeterInv, MeterTypes
        <4>2. QED
          BY <3>1, <4>1
      <3>4. \A m \in Meters!Meter : totals'[m] + Queued(buf, Len(buf), m)' = Took(taken, m)'
        BY <3>1 DEF MeterInv, Queued, Took, Meters!Amounts, OnMeter, TakenOn, Amount
      <3>5. QED
        BY <3>2, <3>3, <3>4 DEF MeterInv
    <2>6. CASE UNCHANGED Meters!vars
      <3>1. UNCHANGED <<buf, known, totals, billed, taken>>
        BY <2>6 DEF Meters!vars
      <3>2. MeterTypes'
        BY <3>1 DEF MeterInv, MeterTypes, Meters!DedupKey
      <3>3. QED
        BY <3>1, <3>2 DEF MeterInv, Queued, Took, Meters!Amounts, OnMeter, TakenOn, Amount
    <2>7. QED
      BY <2>2, <2>3, <2>4, <2>5, <2>6 DEF Meters!Next
  <1>3. MeterInv => Meters!EachTakenCountedOnce
    <2> SUFFICES ASSUME MeterInv PROVE Meters!EachTakenCountedOnce
      OBVIOUS
    <2>1. \A m \in Meters!Meter : totals[m] + Queued(buf, Len(buf), m) = Took(taken, m) /\ billed[m] <= totals[m]
      BY DEF MeterInv
    <2>2. QED
      BY <2>1, MeterSum DEF Meters!EachTakenCountedOnce, Meters!Recorded, Queued, OnMeter, Took, TakenOn, Amount
  <1>4. QED
    BY <1>1, <1>2, <1>3, PTL DEF Meters!Spec

-----------------------------------------------------------------------------
(* Prepaid postage: balances credited from receipts.                       *)

CONSTANTS NoAccount, Receipt, Currency, Payer, Cost, Low, Full, PowBits, MaxSends
VARIABLES ledger, credited, call, reminders, allowed

Stamps == INSTANCE Postage WITH Caller <- Payer

\* credit_from_receipt is called once at a time.
OneCaller == \A c, d \in Payer : c = d

\* A call under way: a receipt that was not credited before it, and once the rail has
\* answered, one that settled.
UnderWay(call_) ==
    /\ call_.at \in {"verify", "credit", "remember"}
    /\ call_.account \in Account /\ call_.receipt \in Receipt
    /\ call_ = [at |-> call_.at, account |-> call_.account, receipt |-> call_.receipt]
    /\ call_.receipt.currency = Currency /\ call_.receipt.reference \notin credited
    /\ call_.at # "verify" => call_.receipt.settled

\* The receipts whose amount is in a balance already.
Remembering(r) == \E c \in Payer : call[c].at = "remember" /\ call[c].receipt = r
Backing == {r \in Receipt : r.reference \in credited \/ Remembering(r)}
SettledReceipts == {r \in Receipt : r.settled /\ r.currency = Currency}

\* What the balances and the sends made on them come to.
Value == Stamps!Total(ledger) + Cost * Stamps!Total(allowed)

PostInv ==
    /\ ledger \in [Account -> Nat] /\ allowed \in [Account -> Nat]
    /\ DOMAIN call = Payer /\ \A c \in Payer : call[c] = Stamps!Idle \/ UnderWay(call[c])
    /\ Backing \subseteq SettledReceipts
    /\ Value <= Stamps!Worth(Backing) /\ (Stamps!Paid <= Full => Value = Stamps!Worth(Backing))

-----------------------------------------------------------------------------
LEMMA StampSum == ASSUME NEW f, NEW S PROVE Stamps!SumFunctionOnSet(f, S) = SumFunctionOnSet(f, S)
  BY DEF SumFunctionOnSet, FoldFunctionOnSet, MapThenFoldSet,
         Stamps!SumFunctionOnSet, Stamps!FoldFunctionOnSet, Stamps!MapThenFoldSet

LEMMA StampsAre ==
    /\ \A S : Stamps!IsFiniteSet(S) <=> IsFiniteSet(S)
    /\ \A f : Stamps!Total(f) = SumFunctionOnSet(f, Account)
    /\ \A R : Stamps!Worth(R) = SumFunctionOnSet([r \in Receipt |-> r.amount], R)
  <1>1. \A S : Stamps!IsFiniteSet(S) <=> IsFiniteSet(S)
    BY DEF Stamps!IsFiniteSet, IsFiniteSet
  <1>2. ASSUME NEW f PROVE Stamps!Total(f) = SumFunctionOnSet(f, Account)
    BY StampSum DEF Stamps!Total
  <1>3. ASSUME NEW R PROVE Stamps!Worth(R) = SumFunctionOnSet([r \in Receipt |-> r.amount], R)
    BY StampSum DEF Stamps!Worth
  <1>4. QED
    BY <1>1, <1>2, <1>3

LEMMA TotalFacts ==
    ASSUME Stamps!PostageAssumption, NEW f \in [Account -> Nat], NEW a \in Account
    PROVE  /\ Stamps!Total(f) \in Nat /\ f[a] <= Stamps!Total(f) /\ Integral(f, Account) /\ IsFiniteSet(Account)
  <1>1. IsFiniteSet(Account) /\ \A b \in Account : f[b] \in Nat
    BY StampsAre DEF Stamps!PostageAssumption
  <1>2. Integral(f, Account)
    BY <1>1 DEF Integral
  <1>3. /\ SumFunctionOnSet(f, Account \ {a}) \in Nat
        /\ SumFunctionOnSet(f, Account) \in Nat
    <2>1. Account \ {a} \in SUBSET Account
      OBVIOUS
    <2>2. QED
      BY <1>1, <2>1, SumGrows
  <1>4. SumFunctionOnSet(f, Account) = f[a] + SumFunctionOnSet(f, Account \ {a})
    BY <1>1, <1>2, SumWithout
  <1>5. f[a] \in Nat
    BY <1>1
  <1>6. QED
    BY <1>1, <1>2, <1>3, <1>4, <1>5, StampsAre

\* g is f but for the account a, which has v.
Became(f, g, a, v) == g[a] = v /\ \A b \in Account \ {a} : g[b] = f[b]

LEMMA TotalChange ==
    ASSUME Stamps!PostageAssumption, NEW f \in [Account -> Nat], NEW a \in Account, NEW v \in Nat,
           NEW g, Became(f, g, a, v)
    PROVE  Stamps!Total(g) = Stamps!Total(f) + (v - f[a])
  <1>1. IsFiniteSet(Account) /\ Integral(f, Account)
    BY TotalFacts
  <1>2. g[a] = v /\ g[a] \in Int /\ \A b \in Account \ {a} : g[b] = f[b]
    BY DEF Became
  <1>3. SumFunctionOnSet(g, Account) = SumFunctionOnSet(f, Account) + (g[a] - f[a])
    BY <1>1, <1>2, SumChange
  <1>4. QED
    BY <1>2, <1>3, StampsAre

LEMMA WorthFacts ==
    ASSUME Stamps!PostageAssumption, NEW R \in SUBSET Receipt
    PROVE  /\ IsFiniteSet(R) /\ Stamps!Worth(R) \in Nat
           /\ \A S \in SUBSET R : Stamps!Worth(S) \in Nat /\ Stamps!Worth(S) <= Stamps!Worth(R)
           /\ \A r \in Receipt \ R : Stamps!Worth(R \union {r}) = Stamps!Worth(R) + r.amount
  <1> DEFINE f == [r \in Receipt |-> r.amount]
  <1>1. IsFiniteSet(R)
    BY FS_Subset, StampsAre DEF Stamps!PostageAssumption
  <1>2. \A r \in Receipt : f[r] = r.amount /\ f[r] \in Nat
    BY DEF Stamps!PostageAssumption
  <1>3. \A S \in SUBSET R : /\ SumFunctionOnSet(f, S) \in Nat /\ SumFunctionOnSet(f, R) \in Nat
                            /\ SumFunctionOnSet(f, S) <= SumFunctionOnSet(f, R)
    <2>1. \A r \in R : f[r] \in Nat
      BY <1>2
    <2> HIDE DEF f
    <2>2. QED
      BY <1>1, <2>1, SumGrows
  <1>4. ASSUME NEW r \in Receipt \ R
        PROVE  SumFunctionOnSet(f, R \union {r}) = SumFunctionOnSet(f, R) + r.amount
    <2>1. Integral(f, R \union {r}) /\ r \notin R
      BY <1>2 DEF Integral
    <2>2. SumFunctionOnSet(f, R \union {r}) = f[r] + SumFunctionOnSet(f, R)
      <3> HIDE DEF f
      <3>1. QED
        BY <1>1, <2>1, SumWith
    <2>3. R \in SUBSET R /\ f[r] = r.amount /\ f[r] \in Nat
      BY <1>2
    <2>4. SumFunctionOnSet(f, R) \in Nat
      BY <1>3, <2>3
    <2> HIDE DEF f
    <2>5. QED
      BY <2>2, <2>3, <2>4
  <1>5. QED
    BY <1>1, <1>3, <1>4, StampsAre

\* A step that moves no money and leaves the receipts behind the balances as they are.
LEMMA NothingMoved ==
    ASSUME PostInv, UNCHANGED <<ledger, allowed>>, Backing' = Backing
    PROVE  /\ ledger' \in [Account -> Nat] /\ allowed' \in [Account -> Nat]
           /\ Backing' \subseteq SettledReceipts
           /\ Value' <= Stamps!Worth(Backing') /\ (Stamps!Paid <= Full => Value' = Stamps!Worth(Backing'))
  BY DEF PostInv, Value, Stamps!Total

\* The call that is under way is the only one.
LEMMA TheCall ==
    ASSUME PostInv, OneCaller, NEW c \in Payer
    PROVE  /\ \A d \in Payer : d = c
           /\ \A r : Remembering(r) <=> call[c].at = "remember" /\ call[c].receipt = r
  BY DEF OneCaller, Remembering

LEMMA VerifyStarts ==
    ASSUME Stamps!PostageAssumption, OneCaller, PostInv,
           NEW c \in Payer, NEW a \in Account, NEW r \in Receipt, Stamps!CreditFromReceipt(c, a, r)
    PROVE  PostInv'
  <1>1. /\ call[c] = Stamps!Idle /\ r.currency = Currency /\ r.reference \notin credited
        /\ call' = [call EXCEPT ![c] = [at |-> "verify", account |-> a, receipt |-> r]]
        /\ UNCHANGED <<ledger, credited, reminders, allowed>>
    BY DEF Stamps!CreditFromReceipt, Stamps!TopUp, Stamps!AlreadyCredited
  <1>2. DOMAIN call = Payer /\ \A d \in Payer : d = c
    BY TheCall DEF PostInv
  <1>3. DOMAIN call' = Payer /\ call'[c] = [at |-> "verify", account |-> a, receipt |-> r]
    BY <1>1, <1>2
  <1>4. \A d \in Payer : UnderWay(call[d])'
    BY <1>1, <1>2, <1>3 DEF UnderWay
  <1>5. Backing' = Backing
    <2>1. call[c].at # "remember" /\ call'[c].at # "remember"
      BY <1>1, <1>3 DEF Stamps!Idle
    <2>2. QED
      BY <1>1, <1>2, <2>1 DEF Backing, Remembering
  <1>6. QED
    BY <1>1, <1>3, <1>4, <1>5, NothingMoved DEF PostInv

LEMMA AnswerStep ==
    ASSUME Stamps!PostageAssumption, OneCaller, PostInv, NEW c \in Payer, Stamps!Verified(c)
    PROVE  PostInv'
  <1> DEFINE next == IF call[c].receipt.settled THEN [call[c] EXCEPT !.at = "credit"] ELSE Stamps!Idle
  <1>1. /\ call[c].at = "verify" /\ call' = [call EXCEPT ![c] = next]
        /\ UNCHANGED <<ledger, credited, reminders, allowed>>
    BY DEF Stamps!Verified, Stamps!RailVerify
  <1>2. DOMAIN call = Payer /\ (\A d \in Payer : d = c) /\ UnderWay(call[c])
    BY <1>1, TheCall DEF PostInv, Stamps!Idle
  <1>3. DOMAIN call' = Payer /\ call'[c] = next
    <2> HIDE DEF next
    <2>1. QED
      BY <1>1, <1>2
  <1>4. next = Stamps!Idle \/ (next.at = "credit" /\ next.account = call[c].account
                          /\ next.receipt = call[c].receipt /\ next.receipt.settled
                          /\ next = [at |-> "credit", account |-> next.account, receipt |-> next.receipt])
    BY <1>2 DEF UnderWay
  <1> HIDE DEF next
  <1>5. \A d \in Payer : (call[d] = Stamps!Idle \/ UnderWay(call[d]))'
    BY <1>1, <1>2, <1>3, <1>4 DEF UnderWay
  <1>6. Backing' = Backing
    <2>1. call[c].at # "remember" /\ call'[c].at # "remember"
      BY <1>1, <1>3, <1>4 DEF Stamps!Idle
    <2>2. QED
      BY <1>1, <1>2, <2>1 DEF Backing, Remembering
  <1>7. QED
    BY <1>1, <1>3, <1>5, <1>6, NothingMoved DEF PostInv

LEMMA CreditStep ==
    ASSUME Stamps!PostageAssumption, OneCaller, PostInv, NEW c \in Payer, Stamps!Credit(c)
    PROVE  PostInv'
  <1> DEFINE a == call[c].account
             r == call[c].receipt
             v == Stamps!SaturatingAdd(ledger[a], r.amount)
  <1>1. /\ call[c].at = "credit" /\ call' = [call EXCEPT ![c].at = "remember"]
        /\ ledger' = [ledger EXCEPT ![a] = v] /\ credited' = credited /\ allowed' = allowed
    BY DEF Stamps!Credit
  <1>2. DOMAIN call = Payer /\ (\A d \in Payer : d = c) /\ UnderWay(call[c])
    BY <1>1, TheCall DEF PostInv, Stamps!Idle
  <1>3. /\ a \in Account /\ r \in Receipt /\ r.settled /\ r.currency = Currency
        /\ r.reference \notin credited
    BY <1>1, <1>2 DEF UnderWay
  <1>4. /\ DOMAIN call' = Payer
        /\ call'[c] = [at |-> "remember", account |-> a, receipt |-> r]
    BY <1>1, <1>2 DEF UnderWay
  <1> HIDE DEF a, r
  <1>5. \A d \in Payer : UnderWay(call[d])'
    BY <1>1, <1>2, <1>3, <1>4 DEF UnderWay
  <1>6. Backing' = Backing \union {r} /\ r \notin Backing
    <2>1. call[c].at # "remember" /\ call'[c].at = "remember" /\ call'[c].receipt = r
      BY <1>1, <1>4
    <2>2. \A s : ~Remembering(s) /\ (Remembering(s)' <=> s = r)
      BY <1>2, <2>1 DEF Remembering
    <2>3. QED
      BY <1>1, <1>3, <2>2 DEF Backing
  <1>7. Backing' \subseteq SettledReceipts /\ Backing \in SUBSET Backing'
    BY <1>3, <1>6 DEF PostInv, SettledReceipts
  <1>8. /\ Stamps!Worth(Backing) \in Nat /\ Stamps!Worth(Backing') = Stamps!Worth(Backing) + r.amount
        /\ Stamps!Worth(Backing') <= Stamps!Paid /\ Stamps!Paid \in Nat
    <2>1. Backing \in SUBSET Receipt /\ Backing' \in SUBSET SettledReceipts /\ SettledReceipts \in SUBSET Receipt
      BY <1>7 DEF Backing, SettledReceipts
    <2>2. Stamps!Worth(Backing) \in Nat /\ Stamps!Worth(Backing \union {r}) = Stamps!Worth(Backing) + r.amount
      BY <1>3, <1>6, <2>1, WorthFacts
    <2>3. Stamps!Worth(Backing') <= Stamps!Worth(SettledReceipts) /\ Stamps!Worth(SettledReceipts) \in Nat
      BY <2>1, WorthFacts
    <2>4. QED
      BY <1>6, <2>2, <2>3 DEF Stamps!Paid, SettledReceipts
  <1>9. ledger[a] \in Nat /\ r.amount \in Nat /\ Full \in Nat /\ Cost \in Nat
    BY <1>3 DEF PostInv, Stamps!PostageAssumption
  <1>10. /\ v \in Nat /\ v <= ledger[a] + r.amount
         /\ (ledger[a] + r.amount <= Full => v = ledger[a] + r.amount)
    BY <1>9 DEF Stamps!SaturatingAdd
  <1> HIDE DEF v
  <1>11. ledger' \in [Account -> Nat] /\ Became(ledger, ledger', a, v)
    BY <1>1, <1>3, <1>10 DEF PostInv, Became
  <1>12. /\ Stamps!Total(ledger') = Stamps!Total(ledger) + (v - ledger[a])
         /\ Stamps!Total(ledger) \in Nat /\ ledger[a] <= Stamps!Total(ledger)
    <2>1. ledger \in [Account -> Nat]
      BY DEF PostInv
    <2>2. QED
      BY <1>3, <1>10, <1>11, <2>1, TotalFacts, TotalChange
  <1>13. Cost * Stamps!Total(allowed) \in Nat
    <2>1. allowed \in [Account -> Nat]
      BY DEF PostInv
    <2>2. Stamps!Total(allowed) \in Nat
      BY <1>3, <2>1, TotalFacts
    <2>3. QED
      BY <1>9, <2>2
  <1>14. /\ Value = Stamps!Total(ledger) + Cost * Stamps!Total(allowed)
         /\ Value' = Stamps!Total(ledger') + Cost * Stamps!Total(allowed)
    BY <1>1 DEF Value, Stamps!Total
  <1>15. /\ Value' <= Stamps!Worth(Backing') /\ (Stamps!Paid <= Full => Value' = Stamps!Worth(Backing'))
    <2> DEFINE spent == Cost * Stamps!Total(allowed)
    <2>1. Value <= Stamps!Worth(Backing) /\ (Stamps!Paid <= Full => Value = Stamps!Worth(Backing))
      BY DEF PostInv
    <2>2. spent \in Nat /\ Value = Stamps!Total(ledger) + spent /\ Value' = Stamps!Total(ledger') + spent
      BY <1>13, <1>14
    <2> HIDE DEF spent
    <2>3. QED
      BY <1>8, <1>9, <1>10, <1>12, <2>1, <2>2
  <1>16. QED
    BY <1>1, <1>4, <1>5, <1>7, <1>11, <1>15 DEF PostInv

LEMMA RememberStep ==
    ASSUME Stamps!PostageAssumption, OneCaller, PostInv, NEW c \in Payer, Stamps!Remember(c)
    PROVE  PostInv'
  <1> DEFINE r == call[c].receipt
  <1>1. /\ call[c].at = "remember" /\ call' = [call EXCEPT ![c] = Stamps!Idle]
        /\ credited' = credited \union {r.reference} /\ UNCHANGED <<ledger, reminders, allowed>>
    BY DEF Stamps!Remember
  <1>2. DOMAIN call = Payer /\ (\A d \in Payer : d = c) /\ UnderWay(call[c])
    BY <1>1, TheCall DEF PostInv, Stamps!Idle
  <1>3. r \in Receipt /\ DOMAIN call' = Payer /\ call'[c] = Stamps!Idle
    BY <1>1, <1>2 DEF UnderWay
  <1>4. \A d \in Payer : call'[d] = Stamps!Idle
    BY <1>2, <1>3
  <1>5. \A s : (Remembering(s) <=> s = r) /\ ~Remembering(s)'
    BY <1>1, <1>2, <1>4 DEF Remembering, Stamps!Idle
  <1> HIDE DEF r
  <1>6. \A s \in Receipt : s.reference = r.reference <=> s = r
    BY <1>3 DEF Stamps!PostageAssumption
  <1>7. Backing' = Backing
    BY <1>1, <1>3, <1>5, <1>6 DEF Backing
  <1>8. QED
    BY <1>1, <1>3, <1>4, <1>7, NothingMoved DEF PostInv

LEMMA SendStep ==
    ASSUME Stamps!PostageAssumption, OneCaller, PostInv, NEW cred \in Stamps!SendCredential, Stamps!Authorize(cred)
    PROVE  PostInv'
  <1> DEFINE a == cred.account
  <1>1. /\ a \in Account /\ ledger[a] >= Cost
        /\ ledger' = [ledger EXCEPT ![a] = ledger[a] - Cost]
        /\ allowed' = [allowed EXCEPT ![a] = IF Stamps!AuthorizeGateway(cred) THEN allowed[a] + 1 ELSE allowed[a]]
        /\ credited' = credited /\ call' = call
    BY DEF Stamps!Authorize, Stamps!Spends
  <1>2. Stamps!AuthorizeGateway(cred)
    BY <1>1 DEF Stamps!AuthorizeGateway, Stamps!PostageAssumption
  <1> HIDE DEF a
  <1>3. /\ ledger \in [Account -> Nat] /\ allowed \in [Account -> Nat]
        /\ ledger[a] \in Nat /\ allowed[a] \in Nat /\ Cost \in Nat
    BY <1>1 DEF PostInv, Stamps!PostageAssumption
  <1> DEFINE left == ledger[a] - Cost
             more == allowed[a] + 1
  <1>4. left \in Nat /\ more \in Nat /\ left - ledger[a] = -Cost /\ more - allowed[a] = 1
    BY <1>1, <1>3
  <1>5. ledger' = [ledger EXCEPT ![a] = left] /\ allowed' = [allowed EXCEPT ![a] = more]
    BY <1>1, <1>2
  <1> HIDE DEF left, more
  <1>6. /\ ledger' \in [Account -> Nat] /\ Became(ledger, ledger', a, left)
        /\ allowed' \in [Account -> Nat] /\ Became(allowed, allowed', a, more)
    BY <1>1, <1>3, <1>4, <1>5 DEF Became
  <1>7. Stamps!Total(ledger') = Stamps!Total(ledger) + (left - ledger[a]) /\ Stamps!Total(ledger) \in Nat
    BY <1>1, <1>3, <1>4, <1>6, TotalFacts, TotalChange
  <1>8. Stamps!Total(allowed') = Stamps!Total(allowed) + (more - allowed[a]) /\ Stamps!Total(allowed) \in Nat
    BY <1>1, <1>3, <1>4, <1>6, TotalFacts, TotalChange
  <1>9. Stamps!Total(ledger') = Stamps!Total(ledger) - Cost /\ Stamps!Total(allowed') = Stamps!Total(allowed) + 1
    BY <1>3, <1>4, <1>7, <1>8
  <1>10. Cost * (Stamps!Total(allowed) + 1) = Cost * Stamps!Total(allowed) + Cost /\ Cost * Stamps!Total(allowed) \in Nat
    BY <1>3, <1>8
  <1>11. Stamps!Total(ledger') + Cost * Stamps!Total(allowed') = Stamps!Total(ledger) + Cost * Stamps!Total(allowed)
    <2>1. Cost * Stamps!Total(allowed') = Cost * Stamps!Total(allowed) + Cost
      BY <1>9, <1>10
    <2>2. QED
      BY <1>3, <1>7, <1>9, <1>10, <2>1
  <1>12. Value' = Value
    BY <1>11 DEF Value, Stamps!Total
  <1>13. Backing' = Backing /\ \A d \in Payer : (UnderWay(call[d]) => UnderWay(call[d])')
    BY <1>1 DEF Backing, Remembering, UnderWay
  <1>14. DOMAIN call' = Payer /\ \A d \in Payer : (call[d] = Stamps!Idle \/ UnderWay(call[d]))'
    BY <1>1, <1>13 DEF PostInv
  <1>15. /\ Backing' \subseteq SettledReceipts
         /\ Value' <= Stamps!Worth(Backing') /\ (Stamps!Paid <= Full => Value' = Stamps!Worth(Backing'))
    BY <1>12, <1>13 DEF PostInv
  <1>16. QED
    BY <1>6, <1>14, <1>15 DEF PostInv

\* No receipt is credited twice, no balance overdrawn and nobody charged for a send that is
\* refused (dmtap-postage-patala credit_from_receipt, dmtap-seam/src/postage.rs authorize),
\* for every set of accounts, receipts, prices and sends, with one call of
\* credit_from_receipt at a time.
THEOREM PostageIsPaidFor == ASSUME Stamps!PostageAssumption, OneCaller PROVE Stamps!Spec => []Stamps!PostageBalances
  <1>1. Stamps!Init => PostInv
    <2> SUFFICES ASSUME Stamps!Init PROVE PostInv
      OBVIOUS
    <2>1. /\ ledger = [a \in Account |-> 0] /\ allowed = [a \in Account |-> 0]
          /\ credited = {} /\ call = [c \in Payer |-> Stamps!Idle]
      BY DEF Stamps!Init
    <2>2. Backing = {}
      BY <2>1 DEF Backing, Remembering, Stamps!Idle
    <2>3. Stamps!Total(ledger) = 0 /\ Stamps!Total(allowed) = 0
      BY <2>1, SumZero, StampsAre DEF Stamps!PostageAssumption
    <2>4. Stamps!Worth({}) = 0
      BY SumEmpty, StampsAre
    <2>5. Cost * 0 = 0
      BY DEF Stamps!PostageAssumption
    <2>6. Value = 0
      BY <2>3, <2>5 DEF Value
    <2>7. /\ Backing \subseteq SettledReceipts
          /\ Value <= Stamps!Worth(Backing) /\ (Stamps!Paid <= Full => Value = Stamps!Worth(Backing))
      BY <2>2, <2>4, <2>6
    <2>8. QED
      BY <2>1, <2>7 DEF PostInv
  <1>2. Stamps!PostageAssumption /\ OneCaller /\ PostInv /\ [Stamps!Next]_Stamps!vars => PostInv'
    <2> SUFFICES ASSUME Stamps!PostageAssumption, OneCaller, PostInv, [Stamps!Next]_Stamps!vars PROVE PostInv'
      OBVIOUS
    <2>1. CASE \E c \in Payer, a \in Account, r \in Receipt : Stamps!CreditFromReceipt(c, a, r)
      BY <2>1, VerifyStarts
    <2>2. CASE \E c \in Payer : Stamps!Verified(c) \/ Stamps!Credit(c) \/ Stamps!Remember(c)
      BY <2>2, AnswerStep, CreditStep, RememberStep
    <2>3. CASE \E cred \in Stamps!SendCredential : Stamps!Authorize(cred)
      BY <2>3, SendStep
    <2>4. CASE UNCHANGED Stamps!vars
      <3>1. UNCHANGED <<ledger, credited, call, allowed>>
        BY <2>4 DEF Stamps!vars
      <3>2. Backing' = Backing /\ \A d \in Payer : (UnderWay(call[d]) => UnderWay(call[d])')
        BY <3>1 DEF Backing, Remembering, UnderWay
      <3>3. DOMAIN call' = Payer /\ \A d \in Payer : (call[d] = Stamps!Idle \/ UnderWay(call[d]))'
        BY <3>1, <3>2 DEF PostInv
      <3>4. QED
        BY <3>1, <3>2, <3>3, NothingMoved DEF PostInv
    <2>5. QED
      BY <2>1, <2>2, <2>3, <2>4 DEF Stamps!Next
  <1>3. Stamps!PostageAssumption /\ PostInv => Stamps!PostageBalances
    <2> SUFFICES ASSUME Stamps!PostageAssumption, PostInv PROVE Stamps!PostageBalances
      OBVIOUS
    <2>1. Backing \in SUBSET SettledReceipts /\ SettledReceipts \in SUBSET Receipt
      BY DEF PostInv, SettledReceipts
    <2>2. Stamps!Worth(Backing) \in Nat /\ Stamps!Worth(Backing) <= Stamps!Paid /\ Stamps!Paid \in Nat
      BY <2>1, WorthFacts DEF Stamps!Paid, SettledReceipts
    <2>3. Value <= Stamps!Worth(Backing) /\ (Stamps!Paid <= Full => Value = Stamps!Worth(Backing))
      BY DEF PostInv
    <2>4. /\ Value = Stamps!Total(ledger) + Cost * Stamps!Total(allowed)
          /\ \A a \in Account : ledger[a] \in Nat
      BY DEF PostInv, Value
    <2>5. Value <= Stamps!Paid
      <3>1. CASE Account = {}
        <4>1. Stamps!Total(ledger) = 0 /\ Stamps!Total(allowed) = 0
          BY <3>1, SumEmpty, StampsAre
        <4>2. Cost * 0 = 0
          BY DEF Stamps!PostageAssumption
        <4>3. QED
          BY <2>2, <2>4, <4>1, <4>2
      <3>2. ASSUME NEW a \in Account PROVE Value <= Stamps!Paid
        <4>1. Stamps!Total(ledger) \in Nat /\ Stamps!Total(allowed) \in Nat
          BY TotalFacts DEF PostInv
        <4>2. Cost * Stamps!Total(allowed) \in Nat
          BY <4>1 DEF Stamps!PostageAssumption
        <4>3. QED
          BY <2>2, <2>3, <2>4, <4>1, <4>2
      <3>3. QED
        BY <3>1, <3>2
    <2>6. Stamps!BalanceIsPaidFor
      BY <2>4, <2>5 DEF Stamps!BalanceIsPaidFor
    <2>7. ASSUME Stamps!Paid <= Full, \A c \in Payer : call[c] = Stamps!Idle
          PROVE  Value = Stamps!Worth({r \in Receipt : r.reference \in credited})
      <3>1. Backing = {r \in Receipt : r.reference \in credited}
        BY <2>7 DEF Backing, Remembering, Stamps!Idle
      <3>2. QED
        BY <2>3, <2>7, <3>1
    <2>8. Stamps!ChargedIsAllowed
      BY <2>4, <2>7 DEF Stamps!ChargedIsAllowed
    <2>9. QED
      BY <2>6, <2>8 DEF Stamps!PostageBalances
  <1>4. QED
    BY <1>1, <1>2, <1>3, PTL DEF Stamps!Spec

-----------------------------------------------------------------------------
(* The JMAP listener: guesses at a credential, and who is told to wait.    *)

CONSTANTS MaxGuesses, GuessSpan, WholeSecond, LongestCall, TickEvery, LastMoment
VARIABLES throttle, guesses, told, due

Jmaps == INSTANCE JmapGate WITH
    MaxFailures <- MaxGuesses, Window <- GuessSpan, Second <- WholeSecond, Timeout <- LongestCall,
    Tick <- TickEvery, MaxNow <- LastMoment

Moments == 0..LastMoment
WindowStart == throttle.start
During(a, b) == {t \in Moments : a <= t /\ t < b}
Guessed(a, b) == SumFunctionOnSet(guesses, During(a, b))

GateTypes ==
    /\ now \in Moments /\ guesses \in [Moments -> Nat]
    /\ throttle \in [start : Moments, failures : 0..MaxGuesses]
    /\ told.until \in Nat /\ told.start \in Nat

\* The failures counted are the guesses since the window began, the first of which is at
\* its beginning.
WindowCounts ==
    /\ WindowStart <= now
    /\ \A t \in Moments : guesses[t] > 0 => t <= now /\ t < WindowStart + GuessSpan
    /\ throttle.failures = 0 => \A t \in Moments : guesses[t] = 0
    /\ throttle.failures > 0 => guesses[WindowStart] > 0 /\ Guessed(WindowStart, LastMoment + 1) = throttle.failures

\* A span that reaches into the window has missed the first guess of the one before it.
SpansHold ==
    \A from \in Moments :
        /\ from + GuessSpan > WindowStart => Guessed(from, WindowStart) <= MaxGuesses - 1
        /\ Guessed(from, from + GuessSpan) <= 2 * MaxGuesses - 1

\* Who was told to wait was told at least until the window ends.
ToldEnough == told = Jmaps!NotTold \/ told.until >= told.start + GuessSpan

GateInv == GateTypes /\ WindowCounts /\ SpansHold /\ ToldEnough

-----------------------------------------------------------------------------
LEMMA GuessSum == ASSUME NEW f, NEW S PROVE Jmaps!SumFunctionOnSet(f, S) = SumFunctionOnSet(f, S)
  BY DEF SumFunctionOnSet, FoldFunctionOnSet, MapThenFoldSet,
         Jmaps!SumFunctionOnSet, Jmaps!FoldFunctionOnSet, Jmaps!MapThenFoldSet

\* Whole seconds, rounded up, are enough.
LEMMA RoundedUp ==
    ASSUME NEW n \in Nat \ {0}, NEW x \in Int
    PROVE  n * ((x + n - 1) \div n) >= x /\ (x + n - 1) \div n \in Int
  <1> DEFINE y == x + n - 1
             q == y \div n
             r == y % n
  <1>1. y \in Int /\ q \in Int /\ y = n * q + r /\ 0 <= r /\ r < n /\ r \in Int
    OBVIOUS
  <1>2. QED
    BY <1>1

\* What a sum of guesses over a stretch is.
LEMMA MadeFacts ==
    ASSUME Jmaps!GateAssumption, NEW f \in [Moments -> Nat], NEW A \in SUBSET Moments
    PROVE  /\ IsFiniteSet(A) /\ Integral(f, A) /\ SumFunctionOnSet(f, A) \in Nat
           /\ \A B \in SUBSET A : /\ SumFunctionOnSet(f, B) \in Nat
                                  /\ SumFunctionOnSet(f, B) <= SumFunctionOnSet(f, A)
                                  /\ SumFunctionOnSet(f, A)
                                       = SumFunctionOnSet(f, B) + SumFunctionOnSet(f, A \ B)
  <1>1. LastMoment \in Nat
    BY DEF Jmaps!GateAssumption
  <1>2. IsFiniteSet(A)
    <2>1. IsFiniteSet(Moments)
      BY <1>1, FS_Interval DEF Moments
    <2>2. QED
      BY <2>1, FS_Subset
  <1>3. \A x \in A : f[x] \in Nat
    OBVIOUS
  <1>4. Integral(f, A)
    BY <1>3 DEF Integral
  <1>5. \A B \in SUBSET A : /\ SumFunctionOnSet(f, B) \in Nat /\ SumFunctionOnSet(f, A) \in Nat
                            /\ SumFunctionOnSet(f, B) <= SumFunctionOnSet(f, A)
    BY <1>2, <1>3, SumGrows
  <1>6. \A B \in SUBSET A : SumFunctionOnSet(f, A)
                              = SumFunctionOnSet(f, B) + SumFunctionOnSet(f, A \ B)
    BY <1>2, <1>4, SumSplit
  <1>7. A \in SUBSET A
    OBVIOUS
  <1>8. QED
    BY <1>2, <1>4, <1>5, <1>6, <1>7

\* A guess more at a moment adds one to the stretches it is in.
Once(f, g, n) == g[n] = f[n] + 1 /\ \A t \in Moments \ {n} : g[t] = f[t]

LEMMA MadeOneMore ==
    ASSUME Jmaps!GateAssumption, NEW f \in [Moments -> Nat], NEW g \in [Moments -> Nat], NEW n \in Moments,
           Once(f, g, n), NEW A \in SUBSET Moments
    PROVE  SumFunctionOnSet(g, A) = SumFunctionOnSet(f, A) + (IF n \in A THEN 1 ELSE 0)
  <1>1. IsFiniteSet(A) /\ Integral(f, A) /\ Integral(g, A)
    BY MadeFacts
  <1>2. CASE n \in A
    <2>1. g[n] \in Int /\ f[n] \in Int /\ g[n] - f[n] = 1 /\ \A t \in A \ {n} : g[t] = f[t]
      BY DEF Once
    <2>2. SumFunctionOnSet(g, A) = SumFunctionOnSet(f, A) + (g[n] - f[n])
      BY <1>1, <1>2, <2>1, SumChange
    <2>3. QED
      BY <1>2, <2>1, <2>2
  <1>3. CASE n \notin A
    <2>1. \A t \in A : f[t] = g[t]
      BY <1>3 DEF Once
    <2>2. SumFunctionOnSet(f, A) = SumFunctionOnSet(g, A)
      BY <1>1, <2>1, SumSame
    <2>3. SumFunctionOnSet(f, A) \in Nat
      BY MadeFacts
    <2>4. QED
      BY <1>3, <2>2, <2>3
  <1>4. QED
    BY <1>2, <1>3

LEMMA GateStarts == ASSUME Jmaps!GateAssumption, Jmaps!Init PROVE GateInv
  <1>1. /\ now = 0 /\ throttle = [start |-> 0, failures |-> 0] /\ told = Jmaps!NotTold
        /\ guesses \in [Moments -> Nat] /\ \A t \in Moments : guesses[t] = 0
    BY DEF Jmaps!Init, Jmaps!NoGuesses, Moments
  <1>2. /\ LastMoment \in Nat /\ MaxGuesses \in Nat /\ MaxGuesses >= 1 /\ GuessSpan \in Nat
        /\ Jmaps!NotTold.until \in Nat /\ Jmaps!NotTold.start \in Nat
    BY DEF Jmaps!GateAssumption, Jmaps!NotTold
  <1>3. GateTypes
    BY <1>1, <1>2 DEF GateTypes, Moments
  <1>4. WindowCounts
    BY <1>1, <1>2 DEF WindowCounts, WindowStart
  <1>5. \A a, b : Guessed(a, b) = 0
    <2> SUFFICES ASSUME NEW a, NEW b PROVE Guessed(a, b) = 0
      OBVIOUS
    <2>1. During(a, b) \in SUBSET Moments
      BY DEF During
    <2>2. IsFiniteSet(During(a, b)) /\ \A t \in During(a, b) : guesses[t] = 0
      BY <1>1, <2>1, MadeFacts
    <2>3. QED
      BY <2>2, SumZero DEF Guessed
  <1>6. SpansHold
    BY <1>2, <1>5 DEF SpansHold
  <1>7. QED
    BY <1>1, <1>3, <1>4, <1>6 DEF GateInv, ToldEnough

\* Time that passes, and requests that guess nothing, leave guesses and window alone.
LEMMA NothingGuessed ==
    ASSUME Jmaps!GateAssumption, GateInv, now' \in Moments, now <= now', UNCHANGED <<throttle, guesses>>
    PROVE  /\ WindowCounts' /\ SpansHold' /\ guesses' \in [Moments -> Nat]
           /\ throttle' \in [start : Moments, failures : 0..MaxGuesses]
  <1>1. now \in Int /\ now' \in Int /\ \A t \in Moments : t <= now => t <= now'
    BY DEF GateInv, GateTypes, Moments, Jmaps!GateAssumption
  <1>2. WindowStart <= now'
    <2>1. WindowStart \in Int
      BY DEF GateInv, GateTypes, WindowStart, Moments, Jmaps!GateAssumption
    <2>2. QED
      BY <1>1, <2>1 DEF GateInv, WindowCounts
  <1>3. WindowCounts'
    BY <1>1, <1>2 DEF GateInv, WindowCounts, WindowStart, Guessed
  <1>4. SpansHold'
    BY DEF GateInv, SpansHold, WindowStart, Guessed
  <1>5. QED
    BY <1>3, <1>4 DEF GateInv, GateTypes

\* A wrong credential after the window: it begins the next one.
LEMMA WindowBegins ==
    ASSUME Jmaps!GateAssumption, GateInv, now' \in Moments, now <= now', Jmaps!Forgiven.failures = 0,
           throttle' = [start |-> now, failures |-> 1],
           guesses' \in [Moments -> Nat], Once(guesses, guesses', now)
    PROVE  WindowCounts' /\ SpansHold'
  <1> DEFINE F == guesses
             G == guesses'
  <1>1. /\ MaxGuesses \in Nat /\ MaxGuesses >= 1 /\ GuessSpan \in Nat /\ GuessSpan >= 1
        /\ LastMoment \in Nat /\ Moments \subseteq Int
    BY DEF Jmaps!GateAssumption, Moments
  <1>2. /\ now \in Moments /\ now' \in Moments /\ F \in [Moments -> Nat] /\ G \in [Moments -> Nat]
        /\ throttle.failures \in 0..MaxGuesses /\ WindowStart \in Moments /\ WindowStart <= now
    BY DEF GateInv, GateTypes, WindowCounts, WindowStart
  <1>3. throttle.failures = 0 \/ (throttle.failures > 0 /\ now - WindowStart >= GuessSpan)
    BY <1>1, <1>2 DEF Jmaps!Forgiven, Jmaps!Elapsed, WindowStart
  <1>4. \A t \in Moments : F[t] > 0 => t < now
    BY <1>1, <1>2, <1>3 DEF GateInv, WindowCounts
  <1>5. WindowStart' = now /\ throttle'.failures = 1
    BY DEF WindowStart
  <1>6. G[now] = F[now] + 1 /\ \A t \in Moments \ {now} : G[t] = F[t]
    BY DEF Once
  <1>7. \A A \in SUBSET Moments : /\ SumFunctionOnSet(F, A) \in Nat
                                /\ SumFunctionOnSet(G, A) = SumFunctionOnSet(F, A) + (IF now \in A THEN 1 ELSE 0)
    BY <1>2, MadeFacts, MadeOneMore
  <1>8. \A A \in SUBSET Moments : (\A t \in A : t >= now) => SumFunctionOnSet(F, A) = 0
    <2> SUFFICES ASSUME NEW A \in SUBSET Moments, \A t \in A : t >= now PROVE SumFunctionOnSet(F, A) = 0
      OBVIOUS
    <2>1. \A t \in A : F[t] = 0
      <3>1. ASSUME NEW t \in A PROVE F[t] = 0
        <4>1. t \in Moments /\ F[t] \in Nat /\ ~(t < now)
          BY <1>1, <1>2
        <4>2. QED
          BY <1>4, <4>1
      <3>2. QED
        BY <3>1
    <2>2. IsFiniteSet(A)
      BY <1>2, MadeFacts
    <2>3. QED
      BY <2>1, <2>2, SumZero
  <1>9. WindowCounts'
    <2>1. \A t \in Moments : G[t] > 0 => t <= now /\ t < now + GuessSpan
      <3> SUFFICES ASSUME NEW t \in Moments, G[t] > 0 PROVE t <= now /\ t < now + GuessSpan
        OBVIOUS
      <3>1. t = now \/ t < now
        BY <1>4, <1>6
      <3>2. QED
        BY <1>1, <1>2, <3>1
    <2>2. \A t \in Moments : G[t] > 0 => t <= now' /\ t < now + GuessSpan
      BY <1>1, <1>2, <2>1
    <2>3. G[now] > 0
      <3>1. F[now] \in Nat
        BY <1>2
      <3>2. QED
        BY <1>6, <3>1
    <2>4. SumFunctionOnSet(G, During(now, LastMoment + 1)) = 1
      <3>1. /\ During(now, LastMoment + 1) \in SUBSET Moments /\ now \in During(now, LastMoment + 1)
            /\ \A t \in During(now, LastMoment + 1) : t >= now
        BY <1>1, <1>2 DEF During, Moments
      <3>2. SumFunctionOnSet(F, During(now, LastMoment + 1)) = 0
        BY <1>8, <3>1
      <3>3. QED
        BY <1>7, <3>1, <3>2
    <2>5. Guessed(WindowStart, LastMoment + 1)' = 1
      BY <1>5, <2>4 DEF Guessed
    <2>6. QED
      BY <1>5, <2>2, <2>3, <2>5 DEF WindowCounts
  <1>10. ASSUME NEW from \in Moments, from + GuessSpan > now
         PROVE  SumFunctionOnSet(F, During(from, now)) <= MaxGuesses - 1
    <2>1. During(from, now) \in SUBSET Moments
      BY DEF During
    <2>2. CASE throttle.failures = 0
      <3>1. IsFiniteSet(During(from, now)) /\ \A t \in During(from, now) : F[t] = 0
        BY <1>2, <2>1, <2>2, MadeFacts DEF GateInv, WindowCounts
      <3>2. QED
        BY <1>1, <3>1, SumZero
    <2>3. CASE throttle.failures > 0 /\ now - WindowStart >= GuessSpan
      <3> DEFINE S == During(WindowStart, LastMoment + 1)
      <3>1. S \in SUBSET Moments /\ WindowStart \in S
        BY <1>1, <1>2 DEF During, Moments
      <3>2. SumFunctionOnSet(F, S) = throttle.failures /\ F[WindowStart] \in Nat /\ F[WindowStart] > 0
        BY <1>2, <2>3 DEF GateInv, WindowCounts, Guessed
      <3>3. During(from, now) \in SUBSET (S \ {WindowStart})
        <4>1. from > WindowStart
          BY <1>1, <1>2, <1>10, <2>3
        <4>2. \A t \in Moments : from <= t => WindowStart <= t /\ t # WindowStart /\ t < LastMoment + 1
          BY <1>1, <1>2, <4>1 DEF Moments
        <4>3. QED
          BY <4>2 DEF During
      <3> HIDE DEF S
      <3>4. IsFiniteSet(S) /\ Integral(F, S)
        BY <1>2, <3>1, MadeFacts
      <3>5. SumFunctionOnSet(F, S) = F[WindowStart] + SumFunctionOnSet(F, S \ {WindowStart})
        BY <3>1, <3>4, SumWithout
      <3>6. S \ {WindowStart} \in SUBSET Moments
        BY <3>1
      <3>7. /\ SumFunctionOnSet(F, S \ {WindowStart}) \in Nat
            /\ SumFunctionOnSet(F, During(from, now)) \in Nat
            /\ SumFunctionOnSet(F, During(from, now)) <= SumFunctionOnSet(F, S \ {WindowStart})
        BY <1>2, <3>3, <3>6, MadeFacts
      <3>8. QED
        BY <1>1, <1>2, <3>2, <3>5, <3>7
    <2>4. QED
      BY <1>3, <2>2, <2>3
  <1>11. SpansHold'
    <2> SUFFICES ASSUME NEW from \in Moments
                 PROVE  /\ from + GuessSpan > now => SumFunctionOnSet(G, During(from, now)) <= MaxGuesses - 1
                        /\ SumFunctionOnSet(G, During(from, from + GuessSpan)) <= 2 * MaxGuesses - 1
      BY <1>5 DEF SpansHold, Guessed
    <2>1. /\ During(from, now) \in SUBSET Moments /\ now \notin During(from, now)
          /\ During(from, from + GuessSpan) \in SUBSET Moments
      BY <1>1, <1>2 DEF During
    <2>2. SumFunctionOnSet(G, During(from, now)) = SumFunctionOnSet(F, During(from, now))
      BY <1>7, <2>1
    <2>3. CASE now \in During(from, from + GuessSpan)
      <3> DEFINE A == During(from, from + GuessSpan)
                 B == During(from, now)
      <3>1. from + GuessSpan > now /\ B \in SUBSET A /\ \A t \in A \ B : t >= now
        <4>1. from \in Int /\ now \in Int /\ from + GuessSpan > now
          BY <1>1, <1>2, <2>3 DEF During
        <4>2. \A t \in Moments : t < now => t < from + GuessSpan
          BY <1>1, <4>1
        <4>3. \A t \in Moments : ~(t < now) => t >= now
          BY <1>1, <4>1
        <4>4. QED
          BY <4>1, <4>2, <4>3 DEF During
      <3>2. A \in SUBSET Moments /\ A \ B \in SUBSET Moments /\ now \in A
        BY <2>1, <2>3
      <3>3. SumFunctionOnSet(F, B) <= MaxGuesses - 1
        BY <1>10, <3>1
      <3> HIDE DEF A, B
      <3>4. SumFunctionOnSet(F, A) = SumFunctionOnSet(F, B) + SumFunctionOnSet(F, A \ B)
        BY <1>2, <3>1, <3>2, MadeFacts
      <3>5. SumFunctionOnSet(F, A \ B) = 0
        BY <1>8, <3>1, <3>2
      <3>6. SumFunctionOnSet(G, A) = SumFunctionOnSet(F, A) + 1 /\ SumFunctionOnSet(F, A) \in Nat
        BY <1>7, <3>2
      <3>7. SumFunctionOnSet(F, B) \in Nat
        BY <1>2, <3>1, <3>2, MadeFacts
      <3>8. SumFunctionOnSet(G, A) <= 2 * MaxGuesses - 1
        BY <1>1, <3>3, <3>4, <3>5, <3>6, <3>7
      <3>9. QED
        BY <1>10, <2>2, <3>1, <3>8 DEF A
    <2>4. CASE now \notin During(from, from + GuessSpan)
      <3>1. SumFunctionOnSet(G, During(from, from + GuessSpan)) = SumFunctionOnSet(F, During(from, from + GuessSpan))
        BY <1>7, <2>1, <2>4
      <3>2. SumFunctionOnSet(F, During(from, from + GuessSpan)) <= 2 * MaxGuesses - 1
        BY DEF GateInv, SpansHold, Guessed
      <3>3. QED
        BY <1>10, <2>2, <3>1, <3>2
    <2>5. QED
      BY <2>3, <2>4
  <1>12. QED
    BY <1>9, <1>11

\* A wrong credential within the window.
LEMMA WindowFills ==
    ASSUME Jmaps!GateAssumption, GateInv, now' \in Moments, now <= now',
           throttle.failures > 0, throttle.failures < MaxGuesses, now - WindowStart < GuessSpan,
           WindowStart' = WindowStart, throttle'.failures = throttle.failures + 1,
           guesses' \in [Moments -> Nat], Once(guesses, guesses', now)
    PROVE  WindowCounts' /\ SpansHold'
  <1> DEFINE F == guesses
             G == guesses'
             S == During(WindowStart, LastMoment + 1)
  <1>1. /\ MaxGuesses \in Nat /\ MaxGuesses >= 1 /\ GuessSpan \in Nat /\ GuessSpan >= 1
        /\ LastMoment \in Nat /\ Moments \subseteq Int
    BY DEF Jmaps!GateAssumption, Moments
  <1>2. /\ now \in Moments /\ now' \in Moments /\ F \in [Moments -> Nat] /\ G \in [Moments -> Nat]
        /\ throttle.failures \in 0..MaxGuesses /\ WindowStart \in Moments /\ WindowStart <= now
    BY DEF GateInv, GateTypes, WindowCounts, WindowStart
  <1>3. G[now] = F[now] + 1 /\ \A t \in Moments \ {now} : G[t] = F[t]
    BY DEF Once
  <1>4. \A A \in SUBSET Moments : /\ SumFunctionOnSet(F, A) \in Nat
                                /\ SumFunctionOnSet(G, A) = SumFunctionOnSet(F, A) + (IF now \in A THEN 1 ELSE 0)
    BY <1>2, MadeFacts, MadeOneMore
  <1>5. S \in SUBSET Moments /\ now \in S
    BY <1>1, <1>2 DEF During, Moments
  <1>6. SumFunctionOnSet(F, S) = throttle.failures
    BY DEF GateInv, WindowCounts, Guessed
  <1>7. SumFunctionOnSet(G, S) = throttle.failures + 1
    <2> HIDE DEF S
    <2>1. QED
      BY <1>4, <1>5, <1>6
  <1>8. WindowCounts'
    <2>1. ASSUME NEW t \in Moments, G[t] > 0 PROVE t <= now' /\ t < WindowStart + GuessSpan
      <3>1. t <= now /\ t < WindowStart + GuessSpan
        <4>1. CASE t = now
          BY <1>1, <1>2, <4>1
        <4>2. CASE t # now
          <5>1. F[t] > 0
            BY <1>3, <2>1, <4>2
          <5>2. QED
            BY <5>1 DEF GateInv, WindowCounts
        <4>3. QED
          BY <4>1, <4>2
      <3>2. QED
        BY <1>1, <1>2, <3>1
    <2>2. G[WindowStart] > 0
      <3>1. F[WindowStart] \in Nat /\ F[now] \in Nat /\ F[WindowStart] > 0
        BY <1>2 DEF GateInv, WindowCounts
      <3>2. QED
        BY <1>2, <1>3, <3>1
    <2>3. Guessed(WindowStart, LastMoment + 1)' = throttle.failures + 1
      BY <1>7 DEF Guessed
    <2>4. WindowStart <= now' /\ throttle.failures + 1 > 0 /\ throttle.failures + 1 # 0
      BY <1>1, <1>2
    <2>5. QED
      BY <2>1, <2>2, <2>3, <2>4 DEF WindowCounts
  <1>9. SpansHold'
    <2> SUFFICES ASSUME NEW from \in Moments
                 PROVE  /\ from + GuessSpan > WindowStart => SumFunctionOnSet(G, During(from, WindowStart)) <= MaxGuesses - 1
                        /\ SumFunctionOnSet(G, During(from, from + GuessSpan)) <= 2 * MaxGuesses - 1
      BY DEF SpansHold, Guessed
    <2> DEFINE A == During(from, from + GuessSpan)
               B == During(from, WindowStart)
    <2>1. A \in SUBSET Moments /\ B \in SUBSET Moments /\ now \notin B /\ A \ B \in SUBSET Moments
      BY <1>1, <1>2 DEF During
    <2>2. SumFunctionOnSet(G, B) = SumFunctionOnSet(F, B)
      <3> HIDE DEF A, B
      <3>1. QED
        BY <1>4, <2>1
    <2>3. /\ from + GuessSpan > WindowStart => SumFunctionOnSet(F, B) <= MaxGuesses - 1
          /\ SumFunctionOnSet(F, A) <= 2 * MaxGuesses - 1
      BY DEF GateInv, SpansHold, Guessed
    <2>4. CASE now \in A
      <3>1. from + GuessSpan > now /\ from + GuessSpan > WindowStart
        BY <1>1, <1>2, <2>4 DEF During
      <3>2. B \in SUBSET A /\ A \ B \in SUBSET S
        <4>1. from \in Int /\ WindowStart \in Int
          BY <1>1, <1>2
        <4>2. \A t \in Moments : t < WindowStart => t < from + GuessSpan
          BY <1>1, <3>1, <4>1
        <4>3. \A t \in Moments : t < LastMoment + 1 /\ (~(t < WindowStart) => WindowStart <= t)
          BY <1>1, <4>1 DEF Moments
        <4>4. QED
          BY <4>2, <4>3 DEF During
      <3> HIDE DEF A, B, S
      <3>3. /\ SumFunctionOnSet(G, A) = SumFunctionOnSet(G, B) + SumFunctionOnSet(G, A \ B)
            /\ SumFunctionOnSet(G, B) \in Nat
        BY <1>2, <2>1, <3>2, MadeFacts
      <3>4. /\ SumFunctionOnSet(G, A \ B) \in Nat
            /\ SumFunctionOnSet(G, A \ B) <= SumFunctionOnSet(G, S)
        BY <1>2, <1>5, <3>2, MadeFacts
      <3>5. throttle.failures + 1 <= MaxGuesses
        BY <1>1, <1>2
      <3>6. SumFunctionOnSet(G, B) <= MaxGuesses - 1
        BY <2>2, <2>3, <3>1
      <3>7. SumFunctionOnSet(G, A) <= 2 * MaxGuesses - 1
        BY <1>1, <1>2, <1>7, <3>3, <3>4, <3>5, <3>6
      <3>8. QED
        BY <3>6, <3>7 DEF A, B
    <2>5. CASE now \notin A
      <3> HIDE DEF A, B
      <3>1. SumFunctionOnSet(G, A) = SumFunctionOnSet(F, A)
        BY <1>4, <2>1, <2>5
      <3>2. QED
        BY <2>2, <2>3, <3>1 DEF A, B
    <2>6. QED
      BY <2>4, <2>5
  <1>10. QED
    BY <1>8, <1>9

\* A request while the throttle stands is told how long to wait, and that is enough.
LEMMA ToldTruly ==
    ASSUME Jmaps!GateAssumption, GateInv
    PROVE  now + Jmaps!RetryAfter \in Nat /\ now + Jmaps!RetryAfter >= WindowStart + GuessSpan
  <1> DEFINE x == WindowStart + GuessSpan - now
             secs == (x + WholeSecond - 1) \div WholeSecond
  <1>1. /\ now \in Nat /\ WindowStart \in Nat /\ GuessSpan \in Nat /\ WholeSecond \in Nat \ {0}
    BY DEF GateInv, GateTypes, Jmaps!GateAssumption, WindowStart, Moments
  <1>2. x \in Int /\ WholeSecond * secs >= x /\ secs \in Int
    BY <1>1, RoundedUp
  <1>3. Jmaps!RetryAfter = WholeSecond * (IF secs < 1 THEN 1 ELSE secs)
    BY DEF Jmaps!RetryAfter, WindowStart
  <1> HIDE DEF secs
  <1>4. CASE secs < 1
    <2>1. WholeSecond * secs <= 0
      BY <1>1, <1>2, <1>4
    <2>2. Jmaps!RetryAfter = WholeSecond
      BY <1>1, <1>3, <1>4
    <2>3. QED
      BY <1>1, <1>2, <2>1, <2>2
  <1>5. CASE ~(secs < 1)
    <2>1. WholeSecond * secs \in Nat /\ Jmaps!RetryAfter = WholeSecond * secs
      BY <1>1, <1>2, <1>3, <1>5
    <2>2. QED
      BY <1>1, <1>2, <2>1
  <1>6. QED
    BY <1>4, <1>5

LEMMA RequestStep ==
    ASSUME Jmaps!GateAssumption, GateInv, NEW req, NEW t \in {0, LongestCall}, Jmaps!HandleConnection(req, t)
    PROVE  GateInv'
  <1>1. /\ now \in Moments /\ now' \in Moments /\ now <= now' /\ MaxGuesses \in Nat /\ MaxGuesses >= 1
        /\ GuessSpan \in Nat /\ GuessSpan >= 1 /\ Moments \subseteq Nat
    BY SMTT(30) DEF Jmaps!HandleConnection, GateInv, GateTypes, Jmaps!GateAssumption, Moments
  <1>2. /\ throttle \in [start : Moments, failures : 0..MaxGuesses] /\ guesses \in [Moments -> Nat]
        /\ throttle.failures \in 0..MaxGuesses /\ throttle.start \in Moments
        /\ told.until \in Nat /\ told.start \in Nat /\ ToldEnough
    BY DEF GateInv, GateTypes
  <1>3. CASE UNCHANGED <<throttle, guesses, told>>
    <2>1. UNCHANGED <<throttle, guesses>>
      BY <1>3
    <2>2. GateTypes' /\ ToldEnough'
      BY <1>1, <1>2, <1>3 DEF GateTypes, ToldEnough
    <2>3. QED
      BY <1>1, <2>1, <2>2, NothingGuessed DEF GateInv
  <1>4. CASE /\ Jmaps!Throttled /\ throttle' = Jmaps!Forgiven /\ guesses' = guesses
             /\ told' = [until |-> now + Jmaps!RetryAfter, start |-> throttle.start]
    <2>1. ~Jmaps!Elapsed
      BY <1>1, <1>4 DEF Jmaps!Throttled, Jmaps!Forgiven
    <2>2. UNCHANGED <<throttle, guesses>>
      BY <1>4, <2>1 DEF Jmaps!Forgiven
    <2>3. now + Jmaps!RetryAfter \in Nat /\ now + Jmaps!RetryAfter >= throttle.start + GuessSpan
      BY ToldTruly DEF WindowStart
    <2>4. ToldEnough' /\ told'.until \in Nat /\ told'.start \in Nat
      BY <1>1, <1>2, <1>4, <2>3 DEF ToldEnough
    <2>5. WindowCounts' /\ SpansHold' /\ GateTypes'
      BY <1>1, <1>2, <2>2, <2>4, NothingGuessed DEF GateTypes
    <2>6. QED
      BY <2>4, <2>5 DEF GateInv
  <1>5. CASE /\ ~Jmaps!Throttled /\ throttle' = Jmaps!RecordFailure /\ told' = told
             /\ guesses' = [guesses EXCEPT ![now] = guesses[now] + 1]
    <2>1. guesses' \in [Moments -> Nat] /\ Once(guesses, guesses', now)
      BY <1>1, <1>2, <1>5 DEF Once
    <2>2. ToldEnough' /\ told'.until \in Nat /\ told'.start \in Nat
      BY <1>2, <1>5 DEF ToldEnough
    <2>3. CASE Jmaps!Forgiven.failures = 0
      <3>1. throttle' = [start |-> now, failures |-> 1]
        BY <1>5, <2>3 DEF Jmaps!RecordFailure
      <3>2. throttle' \in [start : Moments, failures : 0..MaxGuesses]
        BY <1>1, <3>1
      <3>3. WindowCounts' /\ SpansHold'
        BY <1>1, <2>1, <2>3, <3>1, WindowBegins
      <3>4. QED
        BY <1>1, <2>1, <2>2, <3>2, <3>3 DEF GateInv, GateTypes
    <2>4. CASE Jmaps!Forgiven.failures # 0
      <3>1. ~Jmaps!Elapsed /\ Jmaps!Forgiven = throttle
        BY <1>2, <2>4 DEF Jmaps!Forgiven
      <3>2. throttle.failures > 0 /\ throttle.failures < MaxGuesses /\ now - WindowStart < GuessSpan
        <4>1. throttle.failures # 0 /\ ~(throttle.failures >= MaxGuesses)
          BY <1>5, <2>4, <3>1 DEF Jmaps!Throttled
        <4>2. throttle.failures > 0 /\ throttle.failures < MaxGuesses
          <5>1. throttle.failures \in Nat /\ MaxGuesses \in Nat
            BY <1>1, <1>2
          <5>2. QED
            BY <4>1, <5>1
        <4>3. ~(now - WindowStart >= GuessSpan)
          <5>1. throttle.failures > 0
            BY <4>2
          <5>2. QED
            BY <3>1, <5>1 DEF Jmaps!Elapsed, WindowStart
        <4>4. now \in Int /\ WindowStart \in Int /\ GuessSpan \in Int
          <5>1. now \in Nat /\ GuessSpan \in Nat
            BY <1>1
          <5>2. WindowStart \in Nat
            BY <1>1, <1>2 DEF WindowStart
          <5>3. QED
            BY <5>1, <5>2
        <4>5. QED
          BY <4>2, <4>3, <4>4
      <3>3. throttle' = [throttle EXCEPT !.failures = throttle.failures + 1]
        BY <1>5, <2>4, <3>1 DEF Jmaps!RecordFailure
      <3>4. /\ throttle' \in [start : Moments, failures : 0..MaxGuesses]
            /\ WindowStart' = WindowStart /\ throttle'.failures = throttle.failures + 1
        BY <1>1, <1>2, <3>2, <3>3 DEF WindowStart
      <3>5. WindowCounts' /\ SpansHold'
        BY <1>1, <2>1, <3>2, <3>4, WindowFills
      <3>6. QED
        BY <1>1, <2>1, <2>2, <3>4, <3>5 DEF GateInv, GateTypes
    <2>5. QED
      BY <2>3, <2>4
  <1>6. CASE /\ ~Jmaps!Throttled /\ throttle' = Jmaps!RecordSuccess /\ guesses' = Jmaps!NoGuesses /\ told' = told
    <2>1. guesses' \in [Moments -> Nat] /\ \A u \in Moments : guesses'[u] = 0
      BY <1>6 DEF Jmaps!NoGuesses, Moments
    <2>2. /\ throttle' \in [start : Moments, failures : 0..MaxGuesses]
          /\ throttle'.failures = 0 /\ throttle'.start = throttle.start
      <3>1. Jmaps!Forgiven = throttle \/ Jmaps!Forgiven = [throttle EXCEPT !.failures = 0]
        BY DEF Jmaps!Forgiven
      <3>2. Jmaps!RecordSuccess = [throttle EXCEPT !.failures = 0]
        BY <1>2, <3>1 DEF Jmaps!RecordSuccess
      <3>3. 0 \in 0..MaxGuesses
        BY <1>1
      <3>4. throttle' = [throttle EXCEPT !.failures = 0]
        BY <1>6, <3>2
      <3>5. throttle' = [start |-> throttle.start, failures |-> 0]
        BY <1>2, <3>4
      <3>6. QED
        BY <1>2, <3>3, <3>5
    <2>3. WindowStart' <= now'
      <3>1. WindowStart <= now /\ WindowStart' = WindowStart
        BY <2>2 DEF GateInv, WindowCounts, WindowStart
      <3>2. WindowStart \in Nat /\ now \in Nat /\ now' \in Nat
        BY <1>1, <1>2 DEF WindowStart
      <3>3. QED
        BY <1>1, <3>1, <3>2
    <2>4. WindowCounts'
      BY <1>1, <2>1, <2>2, <2>3 DEF WindowCounts
    <2>5. \A a, b : Guessed(a, b)' = 0
      <3> SUFFICES ASSUME NEW a, NEW b PROVE SumFunctionOnSet(guesses', During(a, b)) = 0
        BY DEF Guessed
      <3>1. During(a, b) \in SUBSET Moments
        BY DEF During
      <3>2. IsFiniteSet(During(a, b)) /\ \A u \in During(a, b) : guesses'[u] = 0
        BY <2>1, <3>1, MadeFacts
      <3>3. QED
        BY <3>2, SumZero
    <2>6. SpansHold'
      BY <1>1, <2>5 DEF SpansHold
    <2>7. ToldEnough' /\ GateTypes'
      BY <1>1, <1>2, <1>6, <2>1, <2>2 DEF GateTypes, ToldEnough
    <2>8. QED
      BY <2>4, <2>6, <2>7 DEF GateInv
  <1>7. QED
    BY <1>3, <1>4, <1>5, <1>6 DEF Jmaps!HandleConnection, Jmaps!Handle

\* While nobody logs in, a span as long as a window sees fewer wrong credentials evaluated
\* than two windows' worth, and who waits as long as it was told finds the window over
\* (jmap_api.rs AuthThrottle), for every limit, window, rounding and clock.
THEOREM ThrottleIsKept == ASSUME Jmaps!GateAssumption PROVE Jmaps!Spec => []Jmaps!ThrottleHolds
  <1>1. Jmaps!Init => GateInv
    BY GateStarts
  <1>2. GateInv /\ [Jmaps!Next]_Jmaps!vars => GateInv'
    <2> SUFFICES ASSUME GateInv, [Jmaps!Next]_Jmaps!vars PROVE GateInv'
      OBVIOUS
    <2>1. CASE \E req \in Jmaps!Request, t \in {0, LongestCall} : Jmaps!HandleConnection(req, t)
      BY <2>1, RequestStep
    <2>2. ASSUME now' \in Moments, now <= now', UNCHANGED <<throttle, guesses, told>>
          PROVE  GateInv'
      <3>1. UNCHANGED <<throttle, guesses>>
        BY <2>2
      <3>2. GateTypes' /\ ToldEnough'
        BY <2>2 DEF GateInv, GateTypes, ToldEnough
      <3>3. QED
        BY <2>2, <3>1, <3>2, NothingGuessed DEF GateInv
    <2>3. now \in Moments /\ now \in Int /\ LastMoment \in Nat
      BY DEF GateInv, GateTypes, Moments, Jmaps!GateAssumption
    <2>4. CASE Jmaps!TickNode
      BY <2>2, <2>3, <2>4 DEF Jmaps!TickNode
    <2>5. CASE Jmaps!Wait
      <3>1. now' \in Moments /\ now <= now'
        BY <2>3, <2>5 DEF Jmaps!Wait, Moments
      <3>2. QED
        BY <2>2, <2>5, <3>1 DEF Jmaps!Wait
    <2>6. CASE UNCHANGED Jmaps!vars
      BY <2>2, <2>3, <2>6 DEF Jmaps!vars
    <2>7. QED
      BY <2>1, <2>4, <2>5, <2>6 DEF Jmaps!Next
  <1>3. GateInv => Jmaps!ThrottleHolds
    <2> SUFFICES ASSUME GateInv PROVE Jmaps!ThrottleHolds
      OBVIOUS
    <2>1. Jmaps!GuessesBounded
      BY GuessSum DEF GateInv, SpansHold, Guessed, During, Moments, Jmaps!GuessesBounded
    <2>2. ASSUME now >= told.until, throttle.start = told.start PROVE ~Jmaps!Throttled
      <3>1. /\ now \in Nat /\ now <= LastMoment /\ LastMoment \in Nat /\ MaxGuesses \in Nat /\ MaxGuesses >= 1
            /\ GuessSpan \in Nat /\ throttle.start \in Nat /\ throttle.failures \in Nat
            /\ told.until \in Nat
        BY DEF GateInv, GateTypes, Jmaps!GateAssumption, Moments
      <3>2. told # Jmaps!NotTold
        BY <2>2, <3>1 DEF Jmaps!NotTold
      <3>3. now - throttle.start >= GuessSpan
        BY <2>2, <3>1, <3>2 DEF GateInv, ToldEnough
      <3>4. Jmaps!Forgiven.failures = 0
        <4>1. CASE throttle.failures = 0
          BY <4>1 DEF Jmaps!Forgiven, Jmaps!Elapsed
        <4>2. CASE throttle.failures > 0
          BY <3>1, <3>3, <4>2 DEF Jmaps!Forgiven, Jmaps!Elapsed, GateInv, GateTypes
        <4>3. QED
          BY <3>1, <4>1, <4>2
      <3>5. QED
        BY <3>1, <3>4 DEF Jmaps!Throttled
    <2>3. QED
      BY <2>1, <2>2 DEF Jmaps!ThrottleHolds, Jmaps!WaitIsEnough
  <1>4. QED
    BY <1>1, <1>2, <1>3, PTL DEF Jmaps!Spec

-----------------------------------------------------------------------------
(* The send API: keys and what they were delegated from.                   *)

CONSTANTS SendDomain, AnyDomain, Rate, Unlimited, KeyTtl, Year, Minute, MaxKeys, MaxMotes, LastTick
VARIABLES keys, revocations, dispatched, time

Sends == INSTANCE SendKeys WITH
    Domain <- SendDomain, Account <- AnyDomain, Ttl <- KeyTtl, MaxSends <- MaxMotes,
    MaxNow <- LastTick, now <- time

TokenRec == [scope : Sends!Scope, nbf : Nat, exp : Nat]
KeyRec == [token : TokenRec, chain : Seq(Nat), revoked : BOOLEAN, window : Nat, count : Nat]
MoteRec == [key : Nat, domain : SendDomain, at : Nat]

SendTypes ==
    /\ keys \in Seq(KeyRec) /\ dispatched \in Seq(MoteRec) /\ time \in Nat
    /\ revocations \subseteq DOMAIN keys
    /\ \A i \in DOMAIN dispatched : dispatched[i].key \in DOMAIN keys

\* The chain of a key is its delegator followed by that one's chain, and everything it
\* descends from allows what it does.
Rooted(k) ==
    /\ keys[k].chain = <<>> \/ /\ keys[k].chain[1] \in DOMAIN keys /\ keys[k].chain[1] < k
                               /\ keys[k].chain = Sends!DelegatedFrom(keys[k].chain[1])
    /\ \A j \in DOMAIN keys[k].chain :
          keys[k].chain[j] \in DOMAIN keys /\ Sends!Attenuates(Sends!Token(k), Sends!Token(keys[k].chain[j]))
    /\ Sends!VerifyChain(Sends!Token(k), keys[k].chain)

SentIn(k, w) == {i \in DOMAIN dispatched : dispatched[i].key = k /\ dispatched[i].at \div Minute = w}

\* The counter of a key is that of the last minute it was charged in, after which it has
\* sent nothing.
Metered(k) ==
    Sends!Token(k).scope.rate # Unlimited =>
        /\ keys[k].window <= Sends!Window /\ keys[k].count <= Sends!Token(k).scope.rate
        /\ Cardinality(SentIn(k, keys[k].window)) <= keys[k].count
        /\ \A w \in Nat : /\ Cardinality(SentIn(k, w)) <= Sends!Token(k).scope.rate
                          /\ w > keys[k].window => SentIn(k, w) = {}

SendInv ==
    /\ SendTypes
    /\ \A k \in DOMAIN keys : Rooted(k) /\ Metered(k) /\ (keys[k].revoked <=> k \in revocations)

-----------------------------------------------------------------------------
LEMMA AttenuatesOn ==
    ASSUME NEW t \in TokenRec, NEW p \in TokenRec, NEW q \in TokenRec, Sends!SendAssumption,
           Sends!Attenuates(t, p), Sends!Attenuates(p, q)
    PROVE  Sends!Attenuates(t, q)
  <1>1. /\ t.nbf \in Nat /\ p.nbf \in Nat /\ q.nbf \in Nat /\ t.exp \in Nat /\ p.exp \in Nat
        /\ q.exp \in Nat /\ t.scope.rate \in Nat /\ p.scope.rate \in Nat /\ q.scope.rate \in Nat
    BY DEF TokenRec, Sends!Scope, Sends!SendAssumption
  <1>2. q.scope.domain \in {AnyDomain, t.scope.domain}
    BY DEF Sends!Attenuates
  <1>3. t.scope.rate <= q.scope.rate /\ t.nbf >= q.nbf /\ t.exp <= q.exp
    BY <1>1 DEF Sends!Attenuates
  <1>4. QED
    BY <1>2, <1>3 DEF Sends!Attenuates

LEMMA KeyFacts ==
    ASSUME Sends!SendAssumption, SendTypes, NEW k \in DOMAIN keys
    PROVE  /\ k \in Nat /\ k >= 1 /\ k <= Len(keys) /\ Len(keys) \in Nat /\ DOMAIN keys = 1..Len(keys)
           /\ keys[k] \in KeyRec /\ Sends!Token(k) \in TokenRec /\ keys[k].chain \in Seq(Nat)
           /\ keys[k].window \in Nat /\ keys[k].count \in Nat /\ Sends!Token(k).scope.rate \in Nat
           /\ Sends!Token(k).nbf \in Nat /\ Sends!Token(k).exp \in Nat /\ Sends!Token(k).scope \in Sends!Scope
  <1>1. keys \in Seq(KeyRec)
    BY DEF SendTypes
  <1>2. k \in 1..Len(keys) /\ Len(keys) \in Nat /\ DOMAIN keys = 1..Len(keys) /\ keys[k] \in KeyRec
    BY <1>1
  <1>3. Sends!Token(k) \in TokenRec
    BY <1>2 DEF KeyRec, Sends!Token
  <1>4. keys[k].chain \in Seq(Nat) /\ keys[k].window \in Nat /\ keys[k].count \in Nat
    BY <1>2 DEF KeyRec
  <1>5. /\ Sends!Token(k).nbf \in Nat /\ Sends!Token(k).exp \in Nat /\ Sends!Token(k).scope \in Sends!Scope
        /\ Sends!Token(k).scope.rate \in Nat
    BY <1>3 DEF TokenRec, Sends!Scope, Sends!SendAssumption
  <1>6. QED
    BY <1>2, <1>3, <1>4, <1>5

\* Put before a chain, a delegator is first and the rest moves on by one.
LEMMA DelegatedFacts ==
    ASSUME Sends!SendAssumption, SendTypes, NEW p \in DOMAIN keys
    PROVE  /\ Sends!DelegatedFrom(p) \in Seq(Nat) /\ Sends!DelegatedFrom(p) # <<>> /\ Sends!DelegatedFrom(p)[1] = p
           /\ 1 \in DOMAIN Sends!DelegatedFrom(p)
           /\ \A j \in DOMAIN Sends!DelegatedFrom(p) :
                 j # 1 => j - 1 \in DOMAIN keys[p].chain /\ Sends!DelegatedFrom(p)[j] = keys[p].chain[j - 1]
           /\ \A j \in DOMAIN keys[p].chain :
                 j + 1 \in DOMAIN Sends!DelegatedFrom(p) /\ Sends!DelegatedFrom(p)[j + 1] = keys[p].chain[j]
  <1> DEFINE c == keys[p].chain
  <1>1. c \in Seq(Nat) /\ <<p>> \in Seq(Nat) /\ Len(c) \in Nat /\ DOMAIN c = 1..Len(c)
    BY KeyFacts
  <1>2. Sends!DelegatedFrom(p) = <<p>> \o c
    BY DEF Sends!DelegatedFrom
  <1> HIDE DEF c
  <1>3. /\ <<p>> \o c \in Seq(Nat) /\ Len(<<p>> \o c) = 1 + Len(c)
        /\ \A i \in 1..(1 + Len(c)) : (<<p>> \o c)[i] = IF i <= 1 THEN <<p>>[i] ELSE c[i - 1]
    BY <1>1
  <1>4. DOMAIN (<<p>> \o c) = 1..(1 + Len(c))
    BY <1>1, <1>3
  <1>5. /\ \A j \in 1..(1 + Len(c)) : j # 1 => j - 1 \in 1..Len(c) /\ ~(j <= 1)
        /\ \A j \in 1..Len(c) : j + 1 \in 1..(1 + Len(c)) /\ ~(j + 1 <= 1) /\ (j + 1) - 1 = j
        /\ 1 \in 1..(1 + Len(c)) /\ 1 <= 1
    BY <1>1
  <1>6. (<<p>> \o c)[1] = p
    BY <1>3, <1>5
  <1>7. <<p>> \o c # <<>>
    BY <1>1, <1>3
  <1>8. QED
    BY <1>1, <1>2, <1>3, <1>4, <1>5, <1>6, <1>7, SMTT(30) DEF c

\* What a key descends from is itself and its chain.
Family(k) == {k} \union {keys[k].chain[j] : j \in DOMAIN keys[k].chain}

LEMMA FamilyStep ==
    ASSUME Sends!SendAssumption, SendTypes, NEW k \in DOMAIN keys, Rooted(k)
    PROVE  Family(k) = {k} \union (IF keys[k].chain = <<>> THEN {} ELSE Family(keys[k].chain[1]))
  <1>1. CASE keys[k].chain = <<>>
    BY <1>1 DEF Family
  <1>2. CASE keys[k].chain # <<>>
    <2> DEFINE p == keys[k].chain[1]
               c == keys[p].chain
               d == Sends!DelegatedFrom(p)
    <2>1. p \in DOMAIN keys /\ keys[k].chain = d
      BY <1>2 DEF Rooted
    <2> HIDE DEF p
    <2>2. /\ 1 \in DOMAIN d /\ d[1] = p
          /\ \A j \in DOMAIN d : j # 1 => j - 1 \in DOMAIN c /\ d[j] = c[j - 1]
          /\ \A j \in DOMAIN c : j + 1 \in DOMAIN d /\ d[j + 1] = c[j]
      BY <2>1, DelegatedFacts
    <2> HIDE DEF c, d
    <2>3. \A j \in DOMAIN d : d[j] \in {p} \union {c[i] : i \in DOMAIN c}
      BY <2>2
    <2>4. \A x \in {p} \union {c[i] : i \in DOMAIN c} : x \in {d[j] : j \in DOMAIN d}
      BY <2>2
    <2>5. {d[j] : j \in DOMAIN d} = {p} \union {c[i] : i \in DOMAIN c}
      BY <2>3, <2>4
    <2>6. Family(k) = {k} \union {d[j] : j \in DOMAIN d}
      BY <2>1 DEF Family
    <2>7. Family(p) = {p} \union {c[i] : i \in DOMAIN c}
      BY DEF Family, c
    <2>8. Family(k) = {k} \union Family(p)
      BY <2>5, <2>6, <2>7
    <2>9. QED
      BY <1>2, <2>8 DEF p
  <1>3. QED
    BY <1>1, <1>2

LEMMA LineageIsFamily ==
    ASSUME Sends!SendAssumption, SendTypes, \A i \in DOMAIN keys : Rooted(i), NEW k \in DOMAIN keys
    PROVE  Sends!Lineage(k) = Family(k)
  <1> DEFINE Above(h, i) == {i} \union (IF keys[i].chain = <<>> THEN {} ELSE h[keys[i].chain[1]])
             Fixed(h) == h = [i \in 1..k |-> Above(h, i)]
             line == CHOOSE h : Fixed(h)
             F == [i \in 1..k |-> Family(i)]
             G == {n \in Nat : \A i \in 1..k : i <= n => line[i] = Family(i)}
  <1>1. /\ k \in Nat /\ k >= 1 /\ k \in 1..k
        /\ \A i \in 1..k : i \in DOMAIN keys /\ i \in Nat /\ i >= 1
    BY KeyFacts
  <1>2. \A i \in 1..k : keys[i].chain # <<>> =>
           keys[i].chain[1] \in 1..k /\ keys[i].chain[1] < i
    <2>1. ASSUME NEW i \in 1..k, keys[i].chain # <<>>
          PROVE  keys[i].chain[1] \in 1..k /\ keys[i].chain[1] < i
      <3>1. keys[i].chain[1] \in DOMAIN keys /\ keys[i].chain[1] < i
        BY <1>1, <2>1 DEF Rooted
      <3>2. keys[i].chain[1] \in Nat /\ keys[i].chain[1] >= 1
        BY <3>1, KeyFacts
      <3>3. QED
        BY <1>1, <3>1, <3>2
    <2>2. QED
      BY <2>1
  <1>3. \A i \in 1..k :
           Family(i) = {i} \union (IF keys[i].chain = <<>> THEN {} ELSE Family(keys[i].chain[1]))
    BY <1>1, FamilyStep
  <1>4. \A i \in 1..k : Family(i) = Above(F, i)
    <2>1. ASSUME NEW i \in 1..k PROVE Family(i) = Above(F, i)
      <3>1. CASE keys[i].chain = <<>>
        BY <1>3, <3>1
      <3>2. CASE keys[i].chain # <<>>
        <4>1. F[keys[i].chain[1]] = Family(keys[i].chain[1])
          BY <1>2, <3>2
        <4> HIDE DEF F
        <4>2. QED
          BY <1>3, <3>2, <4>1
      <3>3. QED
        BY <3>1, <3>2
    <2>2. QED
      BY <2>1
  <1>5. Fixed(F)
    <2> HIDE DEF Above
    <2>1. QED
      BY <1>4
  <1>6. Fixed(line)
    <2> HIDE DEF Fixed, F
    <2>1. QED
      BY <1>5
  <1>7. Sends!Lineage(k) = line[k]
    BY DEF Sends!Lineage
  <1>8. \A i \in 1..k : line[i] = Above(line, i)
    <2> HIDE DEF line, Above
    <2>1. QED
      BY <1>6
  <1> HIDE DEF line
  <1>9. 0 \in G
    BY <1>1
  <1>10. ASSUME NEW n \in Nat, n \in G PROVE n + 1 \in G
    <2>1. ASSUME NEW i \in 1..k, i <= n + 1 PROVE line[i] = Family(i)
      <3>1. CASE keys[i].chain = <<>>
        BY <1>3, <1>8, <3>1
      <3>2. CASE keys[i].chain # <<>>
        <4>1. keys[i].chain[1] \in 1..k /\ keys[i].chain[1] <= n
          BY <1>1, <1>2, <2>1, <3>2
        <4>2. line[keys[i].chain[1]] = Family(keys[i].chain[1])
          BY <1>10, <4>1
        <4>3. QED
          BY <1>3, <1>8, <3>2, <4>2
      <3>3. QED
        BY <3>1, <3>2
    <2>2. QED
      BY <2>1
  <1>11. k \in G
    <2> HIDE DEF G
    <2>1. Nat \subseteq G
      BY <1>9, <1>10, NatSetInduction
    <2>2. QED
      BY <1>1, <2>1
  <1>12. QED
    BY <1>1, <1>7, <1>11

\* A key allows no more than any it descends from.
LEMMA FamilyAttenuates ==
    ASSUME Sends!SendAssumption, SendTypes, NEW k \in DOMAIN keys, Rooted(k), NEW a \in Family(k)
    PROVE  /\ a \in DOMAIN keys /\ Sends!Attenuates(Sends!Token(k), Sends!Token(a))
           /\ a = k \/ \E j \in DOMAIN keys[k].chain : a = keys[k].chain[j]
  <1>1. a = k \/ \E j \in DOMAIN keys[k].chain : a = keys[k].chain[j]
    BY DEF Family
  <1>2. CASE a = k
    <2>1. Sends!Token(k).nbf \in Nat /\ Sends!Token(k).exp \in Nat /\ Sends!Token(k).scope.rate \in Nat
      BY KeyFacts
    <2>2. QED
      BY <1>2, <2>1 DEF Sends!Attenuates
  <1>3. CASE \E j \in DOMAIN keys[k].chain : a = keys[k].chain[j]
    BY <1>3 DEF Rooted
  <1>4. QED
    BY <1>1, <1>2, <1>3

-----------------------------------------------------------------------------
\* Whole minutes only pass.
LEMMA WindowsPass ==
    ASSUME NEW m \in Nat, m > 0, NEW a \in Nat, NEW b \in Nat, a <= b
    PROVE  a \div m \in Nat /\ b \div m \in Nat /\ a \div m <= b \div m
  <1> DEFINE p == a \div m
             q == b \div m
             r == a % m
             u == b % m
  <1>1. p \in Int /\ a = m * p + r /\ 0 <= r /\ r < m /\ r \in Int
    OBVIOUS
  <1>2. q \in Int /\ b = m * q + u /\ 0 <= u /\ u < m /\ u \in Int
    OBVIOUS
  <1> HIDE DEF p, q, r, u
  <1>3. p >= 0 /\ q >= 0
    <2>1. \A x \in Int : x < 0 => m * x <= 0 - m
      OBVIOUS
    <2>2. QED
      BY <1>1, <1>2, <2>1
  <1>4. p <= q
    <2>1. SUFFICES ASSUME p > q PROVE FALSE
      BY <1>1, <1>2
    <2>2. p - (q + 1) \in Nat /\ m * (p - (q + 1)) >= 0
      BY <1>1, <1>2, <2>1
    <2>3. m * (p - (q + 1)) = m * p - m * q - m
      BY <1>1, <1>2
    <2>4. m * p \in Int /\ m * q \in Int
      BY <1>1, <1>2
    <2>5. QED
      BY <1>1, <1>2, <2>2, <2>3, <2>4
  <1>5. QED
    BY <1>1, <1>2, <1>3, <1>4 DEF p, q

\* A token that its whole chain allows.
LEMMA ChainAllows ==
    ASSUME Sends!SendAssumption, SendTypes, \A i \in DOMAIN keys : Rooted(i), NEW t \in TokenRec,
           NEW p \in DOMAIN keys, Sends!VerifyChain(t, Sends!DelegatedFrom(p))
    PROVE  \A j \in DOMAIN Sends!DelegatedFrom(p) :
              /\ Sends!DelegatedFrom(p)[j] \in DOMAIN keys
              /\ Sends!Attenuates(t, Sends!Token(Sends!DelegatedFrom(p)[j]))
  <1> DEFINE d == Sends!DelegatedFrom(p)
             c == keys[p].chain
  <1>1. /\ 1 \in DOMAIN d /\ d[1] = p
        /\ \A j \in DOMAIN d : j # 1 => j - 1 \in DOMAIN c /\ d[j] = c[j - 1]
    BY DelegatedFacts
  <1>2. Sends!Attenuates(t, Sends!Token(p))
    BY <1>1 DEF Sends!VerifyChain
  <1>3. \A j \in DOMAIN c : c[j] \in DOMAIN keys /\ Sends!Attenuates(Sends!Token(p), Sends!Token(c[j]))
    BY DEF Rooted
  <1> HIDE DEF c, d
  <1>4. \A j \in DOMAIN c : c[j] \in DOMAIN keys /\ Sends!Attenuates(t, Sends!Token(c[j]))
    <2>1. ASSUME NEW j \in DOMAIN c PROVE c[j] \in DOMAIN keys /\ Sends!Attenuates(t, Sends!Token(c[j]))
      <3>1. c[j] \in DOMAIN keys /\ Sends!Attenuates(Sends!Token(p), Sends!Token(c[j]))
        BY <1>3, <2>1
      <3>2. Sends!Token(p) \in TokenRec /\ Sends!Token(c[j]) \in TokenRec
        BY <3>1, KeyFacts
      <3>3. QED
        BY <1>2, <3>1, <3>2, AttenuatesOn
    <2>2. QED
      BY <2>1
  <1>5. \A j \in DOMAIN d : d[j] \in DOMAIN keys /\ Sends!Attenuates(t, Sends!Token(d[j]))
    <2>1. ASSUME NEW j \in DOMAIN d PROVE d[j] \in DOMAIN keys /\ Sends!Attenuates(t, Sends!Token(d[j]))
      <3>1. CASE j = 1
        BY <1>1, <1>2, <3>1
      <3>2. CASE j # 1
        BY <1>1, <1>4, <2>1, <3>2
      <3>3. QED
        BY <3>1, <3>2
    <2>2. QED
      BY <2>1
  <1>6. QED
    BY <1>5 DEF d

\* No key that is there loses its token or its chain.
KeysStay ==
    /\ DOMAIN keys \subseteq DOMAIN keys'
    /\ \A i \in DOMAIN keys : keys'[i].token = keys[i].token /\ keys'[i].chain = keys[i].chain

LEMMA ChainStays ==
    ASSUME Sends!SendAssumption, SendTypes, KeysStay, NEW t, NEW ch \in Seq(Nat),
           \A j \in DOMAIN ch : ch[j] \in DOMAIN keys
    PROVE  /\ Sends!VerifyChain(t, ch)' <=> Sends!VerifyChain(t, ch)
           /\ \A j \in DOMAIN ch : Sends!Token(ch[j])' = Sends!Token(ch[j])
  <1>1. DOMAIN ch = 1..Len(ch) /\ Len(ch) \in Nat
    OBVIOUS
  <1>2. \A j \in DOMAIN ch : Sends!Token(ch[j])' = Sends!Token(ch[j])
    BY DEF KeysStay, Sends!Token
  <1>3. \A j \in DOMAIN ch : j # 1 => j - 1 \in DOMAIN ch
    BY <1>1
  <1>4. QED
    BY <1>2, <1>3 DEF Sends!VerifyChain

LEMMA RootStays ==
    ASSUME Sends!SendAssumption, SendTypes, KeysStay, NEW k \in DOMAIN keys, Rooted(k)
    PROVE  Rooted(k)'
  <1>1. keys[k].chain \in Seq(Nat) /\ \A j \in DOMAIN keys[k].chain : keys[k].chain[j] \in DOMAIN keys
    BY KeyFacts DEF Rooted
  <1>2. keys'[k].chain = keys[k].chain /\ Sends!Token(k)' = Sends!Token(k)
    BY DEF KeysStay, Sends!Token
  <1>3. /\ Sends!VerifyChain(Sends!Token(k), keys[k].chain)' <=> Sends!VerifyChain(Sends!Token(k)', keys[k].chain)
        /\ \A j \in DOMAIN keys[k].chain : Sends!Token(keys[k].chain[j])' = Sends!Token(keys[k].chain[j])
    BY <1>1, <1>2, ChainStays
  <1>4. QED
    BY <1>1, <1>2, <1>3 DEF Rooted, KeysStay, Sends!DelegatedFrom

\* What was sent is a finite set of places.
LEMMA SentIsFinite ==
    ASSUME Sends!SendAssumption, SendTypes, NEW k, NEW w
    PROVE  IsFiniteSet(SentIn(k, w)) /\ Cardinality(SentIn(k, w)) \in Nat
  <1>1. DOMAIN dispatched = 1..Len(dispatched) /\ Len(dispatched) \in Nat
    BY DEF SendTypes
  <1>2. IsFiniteSet(1..Len(dispatched))
    BY <1>1, FS_Interval
  <1>3. SentIn(k, w) \subseteq 1..Len(dispatched)
    BY <1>1 DEF SentIn
  <1>4. QED
    BY <1>2, <1>3, FS_Subset, FS_CardinalityType

LEMMA MeterStays ==
    ASSUME Sends!SendAssumption, SendTypes, NEW k \in DOMAIN keys, Metered(k), dispatched' = dispatched,
           Sends!Window' \in Nat, Sends!Window \in Nat, Sends!Window <= Sends!Window', Sends!Token(k)' = Sends!Token(k),
           keys'[k].window = keys[k].window, keys'[k].count = keys[k].count
    PROVE  Metered(k)'
  <1>1. \A w : SentIn(k, w)' = SentIn(k, w)
    BY DEF SentIn
  <1>2. keys[k].window \in Nat
    BY KeyFacts
  <1>3. CASE Sends!Token(k).scope.rate = Unlimited
    BY <1>3 DEF Metered
  <1>4. CASE Sends!Token(k).scope.rate # Unlimited
    <2>1. keys[k].window <= Sends!Window
      BY <1>4 DEF Metered
    <2>2. keys[k].window <= Sends!Window'
      BY <1>2, <2>1
    <2>3. /\ keys[k].count <= Sends!Token(k).scope.rate
          /\ Cardinality(SentIn(k, keys[k].window)) <= keys[k].count
          /\ \A w \in Nat : /\ Cardinality(SentIn(k, w)) <= Sends!Token(k).scope.rate
                            /\ w > keys[k].window => SentIn(k, w) = {}
      BY <1>4 DEF Metered
    <2>4. QED
      BY <1>1, <2>2, <2>3 DEF Metered
  <1>5. QED
    BY <1>3, <1>4

\* A key joins the store, and one may be revoked with it.
KeyAdded(t, ch) ==
    /\ keys' \in Seq(KeyRec) /\ DOMAIN keys' = 1..(Len(keys) + 1) /\ KeysStay
    /\ \A i \in DOMAIN keys : keys'[i].window = keys[i].window /\ keys'[i].count = keys[i].count
    /\ keys'[Len(keys) + 1].token = t /\ keys'[Len(keys) + 1].chain = ch
    /\ keys'[Len(keys) + 1].window = 0 /\ keys'[Len(keys) + 1].count = 0
    /\ revocations' \subseteq DOMAIN keys
    /\ \A i \in DOMAIN keys' : keys'[i].revoked <=> i \in revocations'
    /\ dispatched' = dispatched /\ time' = time

LEMMA NewKeyIsKept ==
    ASSUME Sends!SendAssumption, SendInv, NEW t \in TokenRec, NEW ch \in Seq(Nat),
           ch = <<>> \/ \E p \in DOMAIN keys : ch = Sends!DelegatedFrom(p), Sends!VerifyChain(t, ch),
           KeyAdded(t, ch)
    PROVE  SendInv'
  <1>11. /\ keys' \in Seq(KeyRec) /\ DOMAIN keys' = 1..(Len(keys) + 1) /\ KeysStay
         /\ \A i \in DOMAIN keys : keys'[i].window = keys[i].window /\ keys'[i].count = keys[i].count
         /\ keys'[Len(keys) + 1].token = t /\ keys'[Len(keys) + 1].chain = ch
         /\ keys'[Len(keys) + 1].window = 0 /\ keys'[Len(keys) + 1].count = 0
         /\ revocations' \subseteq DOMAIN keys
         /\ \A i \in DOMAIN keys' : keys'[i].revoked <=> i \in revocations'
         /\ dispatched' = dispatched /\ time' = time
    BY DEF KeyAdded
  <1> USE <1>11
  <1>1. /\ SendTypes /\ \A i \in DOMAIN keys : Rooted(i) /\ Metered(i)
        /\ keys \in Seq(KeyRec) /\ Len(keys) \in Nat /\ DOMAIN keys = 1..Len(keys)
    BY DEF SendInv, SendTypes
  <1>10. PICK n \in Nat : n = Len(keys) + 1
    BY <1>1
  <1>2. n \in DOMAIN keys' /\ n \notin DOMAIN keys /\ DOMAIN keys' = DOMAIN keys \union {n}
    BY <1>1, <1>10
  <1>3. SendTypes'
    BY <1>1, <1>2 DEF SendTypes
  <1>4. Sends!Window' = Sends!Window /\ Sends!Window \in Nat
    <2>1. time \in Nat
      BY <1>1 DEF SendTypes
    <2>4. Minute \in Nat /\ Minute > 0
      BY DEF Sends!SendAssumption
    <2>2. time \div Minute \in Nat
      BY <2>1, <2>4, WindowsPass
    <2>3. QED
      BY <2>2 DEF Sends!Window
  <1>5. ASSUME NEW i \in DOMAIN keys PROVE Rooted(i)' /\ Metered(i)'
    <2>1. Rooted(i)'
      BY <1>1, RootStays
    <2>2. Sends!Token(i)' = Sends!Token(i)
      BY DEF KeysStay, Sends!Token
    <2>3. Sends!Window' \in Nat /\ Sends!Window <= Sends!Window'
      BY <1>4
    <2>4. Metered(i) /\ keys'[i].window = keys[i].window /\ keys'[i].count = keys[i].count
      BY <1>1
    <2>5. Metered(i)'
      BY <1>1, <1>4, <2>2, <2>3, <2>4, MeterStays
    <2>6. QED
      BY <2>1, <2>5
  <1>6. Rooted(n)'
    <2>1. Sends!Token(n)' = t /\ keys'[n].chain = ch
      BY <1>10 DEF Sends!Token
    <2>2. CASE ch = <<>>
      BY <2>1, <2>2 DEF Rooted, Sends!VerifyChain
    <2>3. CASE ch # <<>>
      <3>1. PICK p \in DOMAIN keys : ch = Sends!DelegatedFrom(p)
        BY <2>3
      <3>2. Sends!VerifyChain(t, Sends!DelegatedFrom(p))
        BY <3>1
      <3>3. \A j \in DOMAIN ch : ch[j] \in DOMAIN keys /\ Sends!Attenuates(t, Sends!Token(ch[j]))
        BY <1>1, <3>1, <3>2, ChainAllows
      <3>4. /\ Sends!VerifyChain(t, ch)' <=> Sends!VerifyChain(t, ch)
            /\ \A j \in DOMAIN ch : Sends!Token(ch[j])' = Sends!Token(ch[j])
        BY <1>1, <3>3, ChainStays
      <3>5. ch[1] = p /\ p < n /\ p \in DOMAIN keys'
        <4>1. p \in Nat /\ p <= Len(keys)
          BY <1>1, KeyFacts
        <4>2. QED
          BY <1>1, <1>2, <1>10, <3>1, <4>1, DelegatedFacts
      <3>6. Sends!DelegatedFrom(p)' = ch
        BY <3>1 DEF Sends!DelegatedFrom, KeysStay
      <3>7. \A j \in DOMAIN ch : ch[j] \in DOMAIN keys' /\ Sends!Attenuates(t, Sends!Token(ch[j])')
        BY <1>2, <3>3, <3>4
      <3>8. Sends!VerifyChain(t, ch)'
        BY <3>4
      <3>9. QED
        BY <2>1, <3>5, <3>6, <3>7, <3>8 DEF Rooted
    <2>4. QED
      BY <2>2, <2>3
  <1>7. Metered(n)'
    <2>1. \A w : SentIn(n, w)' = {}
      BY <1>1, <1>2 DEF SentIn, SendTypes
    <2>2. keys'[n].window = 0 /\ keys'[n].count = 0 /\ Sends!Token(n)' = t /\ t.scope.rate \in Nat
      BY <1>10 DEF Sends!Token, TokenRec, Sends!Scope, Sends!SendAssumption
    <2>3. Cardinality({}) = 0
      BY FS_EmptySet
    <2>4. \A w : Cardinality(SentIn(n, w))' = 0
      BY <2>1, <2>3
    <2>5. keys'[n].window <= Sends!Window' /\ keys'[n].count <= t.scope.rate /\ 0 <= t.scope.rate
      BY <1>4, <2>2
    <2>6. 0 <= keys'[n].count
      BY <2>2
    <2>7. QED
      BY <2>1, <2>2, <2>4, <2>5, <2>6 DEF Metered
  <1>8. \A i \in DOMAIN keys' : Rooted(i)' /\ Metered(i)'
    <2>1. QED
      BY <1>2, <1>5, <1>6, <1>7
  <1>9. QED
    BY <1>3, <1>8 DEF SendInv

\* What stands in the store when a key is put there.
LEMMA Stored ==
    ASSUME Sends!SendAssumption, SendTypes, NEW t \in TokenRec, NEW ch \in Seq(Nat)
    PROVE  /\ Sends!StoreKey(keys, t, ch) \in Seq(KeyRec)
           /\ DOMAIN Sends!StoreKey(keys, t, ch) = 1..(Len(keys) + 1)
           /\ \A i \in DOMAIN keys : Sends!StoreKey(keys, t, ch)[i] = keys[i]
           /\ Sends!StoreKey(keys, t, ch)[Len(keys) + 1]
                = [token |-> t, chain |-> ch, revoked |-> FALSE, window |-> 0, count |-> 0]
  <1> DEFINE r == [token |-> t, chain |-> ch, revoked |-> FALSE, window |-> 0, count |-> 0]
  <1>1. r \in KeyRec
    BY DEF KeyRec
  <1>2. keys \in Seq(KeyRec) /\ DOMAIN keys = 1..Len(keys) /\ Len(keys) \in Nat
    BY DEF SendTypes
  <1> HIDE DEF r
  <1>3. /\ Append(keys, r) \in Seq(KeyRec) /\ Len(Append(keys, r)) = Len(keys) + 1
        /\ \A i \in 1..Len(keys) : Append(keys, r)[i] = keys[i]
        /\ Append(keys, r)[Len(keys) + 1] = r
    BY <1>1, <1>2
  <1>4. QED
    BY <1>2, <1>3 DEF Sends!StoreKey, r

\* What revoking does to the store.
LEMMA RevokedIs ==
    ASSUME NEW store \in Seq(KeyRec), NEW k \in DOMAIN store
    PROVE  /\ Sends!Revoked(store, k) \in Seq(KeyRec) /\ DOMAIN Sends!Revoked(store, k) = DOMAIN store
           /\ \A i \in DOMAIN store :
                 /\ Sends!Revoked(store, k)[i].token = store[i].token
                 /\ Sends!Revoked(store, k)[i].chain = store[i].chain
                 /\ Sends!Revoked(store, k)[i].window = store[i].window
                 /\ Sends!Revoked(store, k)[i].count = store[i].count
                 /\ (Sends!Revoked(store, k)[i].revoked <=> (i = k \/ store[i].revoked))
  <1> DEFINE r == [store[k] EXCEPT !.revoked = TRUE]
             s == [store EXCEPT ![k] = r]
  <1>1. Sends!Revoked(store, k) = s
    BY DEF Sends!Revoked
  <1>2. store[k] \in KeyRec /\ DOMAIN store = 1..Len(store)
    OBVIOUS
  <1>3. r \in KeyRec /\ r.token = store[k].token /\ r.chain = store[k].chain
        /\ r.window = store[k].window /\ r.count = store[k].count /\ r.revoked = TRUE
    BY <1>2 DEF KeyRec
  <1> HIDE DEF r
  <1>4. s \in Seq(KeyRec) /\ DOMAIN s = DOMAIN store
        /\ s[k] = r /\ \A i \in DOMAIN store : i # k => s[i] = store[i]
    <2>1. r \in KeyRec
      BY <1>3
    <2>2. QED
      BY <2>1
  <1> HIDE DEF s
  <1>6. \A i \in DOMAIN store : s[i].revoked <=> (i = k \/ store[i].revoked)
    BY <1>3, <1>4
  <1>7. QED
    BY <1>1, <1>3, <1>4, <1>6

LEMMA StoringAdds ==
    ASSUME Sends!SendAssumption, SendInv, NEW t \in TokenRec, NEW ch \in Seq(Nat),
           keys' = Sends!StoreKey(keys, t, ch), UNCHANGED <<revocations, dispatched, time>>
    PROVE  KeyAdded(t, ch)
  <1>1. /\ SendTypes /\ Len(keys) \in Nat /\ DOMAIN keys = 1..Len(keys)
        /\ revocations \subseteq DOMAIN keys /\ \A i \in DOMAIN keys : keys[i].revoked <=> i \in revocations
    BY DEF SendInv, SendTypes
  <1>2. /\ keys' \in Seq(KeyRec) /\ DOMAIN keys' = 1..(Len(keys) + 1)
        /\ \A i \in DOMAIN keys : keys'[i] = keys[i]
        /\ keys'[Len(keys) + 1]
             = [token |-> t, chain |-> ch, revoked |-> FALSE, window |-> 0, count |-> 0]
    BY <1>1, Stored
  <1>3. DOMAIN keys' = DOMAIN keys \union {Len(keys) + 1} /\ Len(keys) + 1 \notin DOMAIN keys
    BY <1>1, <1>2
  <1>4. /\ keys'[Len(keys) + 1].token = t /\ keys'[Len(keys) + 1].chain = ch
        /\ keys'[Len(keys) + 1].window = 0 /\ keys'[Len(keys) + 1].count = 0
        /\ keys'[Len(keys) + 1].revoked = FALSE
    BY <1>2
  <1>5. \A i \in DOMAIN keys' : keys'[i].revoked <=> i \in revocations'
    BY <1>1, <1>2, <1>3, <1>4
  <1>6. QED
    BY <1>1, <1>2, <1>3, <1>4, <1>5 DEF KeyAdded, KeysStay

LEMMA RotatingAdds ==
    ASSUME Sends!SendAssumption, SendInv, NEW t \in TokenRec, NEW ch \in Seq(Nat), NEW k \in DOMAIN keys,
           keys' = Sends!Revoked(Sends!StoreKey(keys, t, ch), k), revocations' = revocations \union {k},
           UNCHANGED <<dispatched, time>>
    PROVE  KeyAdded(t, ch)
  <1> DEFINE s == Sends!StoreKey(keys, t, ch)
  <1>1. /\ SendTypes /\ Len(keys) \in Nat /\ DOMAIN keys = 1..Len(keys)
        /\ revocations \subseteq DOMAIN keys /\ \A i \in DOMAIN keys : keys[i].revoked <=> i \in revocations
    BY DEF SendInv, SendTypes
  <1>2. /\ s \in Seq(KeyRec) /\ DOMAIN s = 1..(Len(keys) + 1)
        /\ \A i \in DOMAIN keys : s[i] = keys[i]
        /\ s[Len(keys) + 1]
             = [token |-> t, chain |-> ch, revoked |-> FALSE, window |-> 0, count |-> 0]
    BY <1>1, Stored
  <1>3. keys' = Sends!Revoked(s, k)
    OBVIOUS
  <1> HIDE DEF s
  <1>4. DOMAIN s = DOMAIN keys \union {Len(keys) + 1} /\ Len(keys) + 1 \notin DOMAIN keys /\ k \in DOMAIN s
    BY <1>1, <1>2
  <1>5. /\ keys' \in Seq(KeyRec) /\ DOMAIN keys' = DOMAIN s
        /\ \A i \in DOMAIN s :
              /\ keys'[i].token = s[i].token /\ keys'[i].chain = s[i].chain
              /\ keys'[i].window = s[i].window /\ keys'[i].count = s[i].count
              /\ keys'[i].revoked <=> (i = k \/ s[i].revoked)
    BY <1>2, <1>3, <1>4, RevokedIs
  <1>6. /\ s[Len(keys) + 1].token = t /\ s[Len(keys) + 1].chain = ch
        /\ s[Len(keys) + 1].window = 0 /\ s[Len(keys) + 1].count = 0
        /\ s[Len(keys) + 1].revoked = FALSE
    <2>1. s[Len(keys) + 1]
            = [token |-> t, chain |-> ch, revoked |-> FALSE, window |-> 0, count |-> 0]
      BY <1>2
    <2>2. QED
      BY <2>1
  <1>7. \A i \in DOMAIN keys' : keys'[i].revoked <=> i \in revocations'
    <2>1. \A i \in DOMAIN keys : keys'[i].revoked <=> i \in revocations'
      BY <1>1, <1>2, <1>4, <1>5
    <2>2. ~keys'[Len(keys) + 1].revoked
      BY <1>4, <1>5, <1>6
    <2>3. Len(keys) + 1 \notin revocations'
      BY <1>1, <1>4
    <2>4. QED
      BY <1>4, <1>5, <2>1, <2>2, <2>3
  <1>8. KeysStay /\ \A i \in DOMAIN keys : keys'[i].window = keys[i].window /\ keys'[i].count = keys[i].count
    BY <1>2, <1>4, <1>5 DEF KeysStay
  <1>9. QED
    BY <1>1, <1>2, <1>4, <1>5, <1>6, <1>7, <1>8 DEF KeyAdded

-----------------------------------------------------------------------------
LEMMA TokenFits ==
    ASSUME NEW scope \in Sends!Scope, NEW x \in Nat, NEW y \in Nat
    PROVE  Sends!TokenOf(scope, x, y) \in TokenRec
  BY DEF Sends!TokenOf, TokenRec

LEMMA KeyIsIssued ==
    ASSUME Sends!SendAssumption, SendInv, NEW scope \in Sends!Scope, NEW ttl \in KeyTtl, Sends!IssueKey(scope, ttl)
    PROVE  SendInv'
  <1> DEFINE until == time + ttl
  <1>1. time \in Nat /\ until \in Nat
    BY DEF SendInv, SendTypes, Sends!SendAssumption
  <1>2. PICK t \in TokenRec : t = Sends!TokenOf(scope, time, until)
    BY <1>1, TokenFits
  <1>3. keys' = Sends!StoreKey(keys, t, <<>>) /\ UNCHANGED <<revocations, dispatched, time>>
    BY <1>2 DEF Sends!IssueKey
  <1>8. <<>> \in Seq(Nat)
    OBVIOUS
  <1>4. PICK ch \in Seq(Nat) : ch = <<>>
    BY <1>8, Zenon
  <1>5. Sends!VerifyChain(t, ch)
    BY <1>4 DEF Sends!VerifyChain
  <1>6. KeyAdded(t, ch)
    BY <1>3, <1>4, StoringAdds
  <1>7. QED
    BY <1>4, <1>5, <1>6, NewKeyIsKept

LEMMA KeyIsAttenuated ==
    ASSUME Sends!SendAssumption, SendInv, NEW k \in DOMAIN keys, NEW scope \in Sends!Scope, NEW ttl \in KeyTtl,
           Sends!AttenuateKey(k, scope, ttl)
    PROVE  SendInv'
  <1> DEFINE from == Sends!Max2(time, Sends!Token(k).nbf)
             until == Sends!Min2(time + ttl, Sends!Token(k).exp)
  <1>1. SendTypes /\ time \in Nat /\ time + ttl \in Nat
    BY DEF SendInv, SendTypes, Sends!SendAssumption
  <1>2. from \in Nat /\ until \in Nat
    <2>1. Sends!Token(k).nbf \in Nat /\ Sends!Token(k).exp \in Nat
      BY <1>1, KeyFacts
    <2>2. QED
      BY <1>1, <2>1 DEF Sends!Max2, Sends!Min2
  <1>3. PICK t \in TokenRec : t = Sends!TokenOf(scope, from, until)
    BY <1>2, TokenFits
  <1>4. Sends!DelegatedFrom(k) \in Seq(Nat)
    BY <1>1, DelegatedFacts
  <1>5. PICK ch \in Seq(Nat) : ch = Sends!DelegatedFrom(k)
    BY <1>4
  <1>6. /\ keys' = Sends!StoreKey(keys, t, ch) /\ UNCHANGED <<revocations, dispatched, time>>
        /\ Sends!VerifyChain(t, ch)
    BY <1>3, <1>5 DEF Sends!AttenuateKey
  <1>7. KeyAdded(t, ch)
    BY <1>6, StoringAdds
  <1>8. QED
    BY <1>5, <1>6, <1>7, NewKeyIsKept

\* What replaces a key is a token that its delegators allow.
LEMMA ReplacementFits ==
    ASSUME Sends!SendAssumption, SendInv, NEW k \in DOMAIN keys
    PROVE  Sends!Replacement(k) \in TokenRec /\ Sends!VerifyChain(Sends!Replacement(k), keys[k].chain)
  <1>1. /\ SendTypes /\ time \in Nat /\ time + Year \in Nat /\ Rooted(k)
        /\ keys[k].chain \in Seq(Nat) /\ Sends!Token(k).scope \in Sends!Scope
    <2>1. SendTypes /\ time \in Nat /\ Year \in Nat /\ Rooted(k)
      BY DEF SendInv, SendTypes, Sends!SendAssumption
    <2>2. QED
      BY <2>1, KeyFacts
  <1>2. CASE keys[k].chain = <<>>
    <2>1. Sends!Replacement(k) = Sends!TokenOf(Sends!Token(k).scope, time, time + Year)
      BY <1>2 DEF Sends!Replacement
    <2>2. QED
      BY <1>1, <1>2, <2>1, TokenFits DEF Sends!VerifyChain
  <1>3. CASE keys[k].chain # <<>>
    <2> DEFINE p == keys[k].chain[1]
               ch == keys[k].chain
               from == Sends!Max2(time, Sends!Token(p).nbf)
               until == Sends!Min2(time + Year, Sends!Token(p).exp)
    <2>1. p \in DOMAIN keys /\ 1 \in DOMAIN ch
      BY <1>1, <1>3 DEF Rooted
    <2>2. Sends!Replacement(k) = Sends!TokenOf(Sends!Token(k).scope, from, until)
      BY <1>3 DEF Sends!Replacement
    <2>3. /\ from \in Nat /\ until \in Nat
          /\ from >= Sends!Token(p).nbf /\ until <= Sends!Token(p).exp
      <3>1. Sends!Token(p).nbf \in Nat /\ Sends!Token(p).exp \in Nat
        BY <1>1, <2>1, KeyFacts
      <3>2. QED
        BY <1>1, <3>1 DEF Sends!Max2, Sends!Min2
    <2>4. Sends!Attenuates(Sends!Token(k), Sends!Token(p))
      BY <2>1, <1>1 DEF Rooted
    <2> HIDE DEF from, until
    <2>5. Sends!Attenuates(Sends!Replacement(k), Sends!Token(p))
      <3>1. /\ Sends!Replacement(k).scope = Sends!Token(k).scope /\ Sends!Replacement(k).nbf = from
            /\ Sends!Replacement(k).exp = until
        BY <2>2 DEF Sends!TokenOf
      <3> HIDE DEF p
      <3>2. QED
        BY <2>3, <2>4, <3>1 DEF Sends!Attenuates
    <2>6. \A i \in DOMAIN ch : i # 1 => Sends!Attenuates(Sends!Token(ch[i - 1]), Sends!Token(ch[i]))
      BY <1>1 DEF Rooted, Sends!VerifyChain
    <2>7. Sends!VerifyChain(Sends!Replacement(k), ch)
      <3> HIDE DEF ch
      <3>1. ASSUME NEW i \in DOMAIN ch
            PROVE  Sends!Attenuates(IF i = 1 THEN Sends!Replacement(k) ELSE Sends!Token(ch[i - 1]), Sends!Token(ch[i]))
        <4>1. CASE i = 1
          BY <2>5, <4>1 DEF ch
        <4>2. CASE i # 1
          BY <2>6, <4>2
        <4>3. QED
          BY <4>1, <4>2
      <3>2. QED
        BY <3>1 DEF Sends!VerifyChain
    <2>8. Sends!Replacement(k) \in TokenRec
      BY <1>1, <2>2, <2>3, TokenFits
    <2>9. QED
      BY <2>7, <2>8 DEF ch
  <1>4. QED
    BY <1>2, <1>3

LEMMA KeyIsRotated ==
    ASSUME Sends!SendAssumption, SendInv, NEW k \in DOMAIN keys, Sends!RotateKey(k)
    PROVE  SendInv'
  <1>1. SendTypes /\ Rooted(k) /\ keys[k].chain \in Seq(Nat)
    <2>1. SendTypes /\ Rooted(k)
      BY DEF SendInv
    <2>2. QED
      BY <2>1, KeyFacts
  <1>2. PICK t \in TokenRec : t = Sends!Replacement(k)
    BY ReplacementFits
  <1>3. PICK ch \in Seq(Nat) : ch = keys[k].chain
    BY <1>1
  <1>4. /\ keys' = Sends!Revoked(Sends!StoreKey(keys, t, ch), k) /\ revocations' = revocations \union {k}
        /\ UNCHANGED <<dispatched, time>> /\ Sends!VerifyChain(t, ch)
    BY <1>2, <1>3 DEF Sends!RotateKey
  <1>5. KeyAdded(t, ch)
    BY <1>4, RotatingAdds
  <1>6. ch = <<>> \/ \E p \in DOMAIN keys : ch = Sends!DelegatedFrom(p)
    BY <1>1, <1>3 DEF Rooted
  <1>7. QED
    BY <1>4, <1>5, <1>6, NewKeyIsKept

\* The clock is within some minute.
LEMMA WindowIs ==
    ASSUME Sends!SendAssumption, SendTypes
    PROVE  Sends!Window \in Nat
  <1>1. time \in Nat
    BY DEF SendTypes
  <1>2. Minute \in Nat /\ Minute > 0
    BY DEF Sends!SendAssumption
  <1>3. time \div Minute \in Nat
    BY <1>1, <1>2, WindowsPass
  <1>4. QED
    BY <1>3 DEF Sends!Window

LEMMA KeyIsRevoked ==
    ASSUME Sends!SendAssumption, SendInv, NEW k \in DOMAIN keys, Sends!RevokeKey(k)
    PROVE  SendInv'
  <1>1. /\ SendTypes /\ keys \in Seq(KeyRec) /\ revocations \subseteq DOMAIN keys
        /\ \A i \in DOMAIN keys : Rooted(i) /\ Metered(i) /\ (keys[i].revoked <=> i \in revocations)
    BY DEF SendInv, SendTypes
  <1>2. keys' = Sends!Revoked(keys, k) /\ revocations' = revocations \union {k} /\ UNCHANGED <<dispatched, time>>
    BY DEF Sends!RevokeKey
  <1>3. /\ keys' \in Seq(KeyRec) /\ DOMAIN keys' = DOMAIN keys
        /\ \A i \in DOMAIN keys :
              /\ keys'[i].token = keys[i].token /\ keys'[i].chain = keys[i].chain
              /\ keys'[i].window = keys[i].window /\ keys'[i].count = keys[i].count
              /\ keys'[i].revoked <=> (i = k \/ keys[i].revoked)
    BY <1>1, <1>2, RevokedIs
  <1>4. KeysStay
    BY <1>3 DEF KeysStay
  <1>5. SendTypes'
    BY <1>1, <1>2, <1>3 DEF SendTypes
  <1>6. Sends!Window' = Sends!Window /\ Sends!Window \in Nat
    BY <1>1, <1>2, WindowIs DEF Sends!Window
  <1>7. Sends!Window' \in Nat /\ Sends!Window <= Sends!Window' /\ dispatched' = dispatched
    BY <1>2, <1>6
  <1>8. ASSUME NEW i \in DOMAIN keys
        PROVE  Rooted(i)' /\ Metered(i)' /\ (keys'[i].revoked <=> i \in revocations')
    <2>1. Rooted(i)'
      BY <1>1, <1>4, RootStays
    <2>2. Sends!Token(i)' = Sends!Token(i) /\ keys'[i].window = keys[i].window /\ keys'[i].count = keys[i].count
      BY <1>3 DEF Sends!Token
    <2>3. Metered(i)'
      BY <1>1, <1>6, <1>7, <2>2, MeterStays
    <2>4. QED
      BY <1>1, <1>2, <1>3, <2>1, <2>3
  <1>9. QED
    BY <1>3, <1>5, <1>8 DEF SendInv

LEMMA TickKeeps ==
    ASSUME Sends!SendAssumption, SendInv, Sends!Tick
    PROVE  SendInv'
  <1>1. /\ SendTypes /\ time \in Nat
        /\ \A i \in DOMAIN keys : Rooted(i) /\ Metered(i) /\ (keys[i].revoked <=> i \in revocations)
    BY DEF SendInv, SendTypes
  <1>2. keys' = keys /\ revocations' = revocations /\ dispatched' = dispatched /\ time' = time + 1
    BY DEF Sends!Tick
  <1>3. KeysStay
    BY <1>2 DEF KeysStay
  <1>4. SendTypes'
    BY <1>1, <1>2 DEF SendTypes
  <1>5. Sends!Window \in Nat /\ Sends!Window' \in Nat /\ Sends!Window <= Sends!Window'
    <2>1. time + 1 \in Nat /\ time <= time + 1
      BY <1>1
    <2>2. Minute \in Nat /\ Minute > 0
      BY DEF Sends!SendAssumption
    <2>3. /\ time \div Minute \in Nat /\ (time + 1) \div Minute \in Nat
          /\ time \div Minute <= (time + 1) \div Minute
      BY <1>1, <2>1, <2>2, WindowsPass
    <2>4. QED
      BY <1>2, <2>3 DEF Sends!Window
  <1>6. ASSUME NEW i \in DOMAIN keys PROVE Rooted(i)' /\ Metered(i)'
    <2>1. Rooted(i)'
      BY <1>1, <1>3, RootStays
    <2>2. Sends!Token(i)' = Sends!Token(i) /\ keys'[i].window = keys[i].window /\ keys'[i].count = keys[i].count
      BY <1>2 DEF Sends!Token
    <2>3. Metered(i)'
      BY <1>1, <1>2, <1>5, <2>2, MeterStays
    <2>4. QED
      BY <2>1, <2>3
  <1>7. QED
    BY <1>1, <1>2, <1>4, <1>6 DEF SendInv

\* What a send leaves of the keys.
LEMMA ChargedIs ==
    ASSUME Sends!SendAssumption, SendTypes, NEW k \in DOMAIN keys
    PROVE  /\ Sends!Charged(k) \in Seq(KeyRec) /\ DOMAIN Sends!Charged(k) = DOMAIN keys
           /\ \A i \in DOMAIN keys :
                 /\ Sends!Charged(k)[i].token = keys[i].token /\ Sends!Charged(k)[i].chain = keys[i].chain
                 /\ Sends!Charged(k)[i].revoked = keys[i].revoked
                 /\ i # k => Sends!Charged(k)[i] = keys[i]
           /\ Sends!Token(k).scope.rate # Unlimited =>
                 /\ Sends!Charged(k)[k].window = Sends!Window
                 /\ Sends!Charged(k)[k].count = Sends!Counted(k) + (IF Sends!HasRate(k) THEN 1 ELSE 0)
           /\ Sends!Counted(k) \in Nat
  <1>1. keys \in Seq(KeyRec) /\ keys[k] \in KeyRec /\ keys[k].count \in Nat /\ Sends!Window \in Nat
    BY KeyFacts, WindowIs DEF SendTypes
  <1>2. Sends!Counted(k) \in Nat
    BY <1>1 DEF Sends!Counted
  <1> DEFINE n == Sends!Counted(k) + (IF Sends!HasRate(k) THEN 1 ELSE 0)
             r == [keys[k] EXCEPT !.window = Sends!Window, !.count = n]
  <1>3. n \in Nat
    BY <1>2
  <1> HIDE DEF n
  <1>4. /\ r \in KeyRec /\ r.token = keys[k].token /\ r.chain = keys[k].chain
        /\ r.revoked = keys[k].revoked /\ r.window = Sends!Window /\ r.count = n
    BY <1>1, <1>3 DEF KeyRec
  <1>5. CASE Sends!Token(k).scope.rate = Unlimited
    <2>1. Sends!Charged(k) = keys
      BY <1>5 DEF Sends!Charged
    <2>2. QED
      BY <1>1, <1>2, <1>5, <2>1
  <1>6. CASE Sends!Token(k).scope.rate # Unlimited
    <2>1. Sends!Charged(k) = [keys EXCEPT ![k] = r]
      BY <1>1, <1>6 DEF Sends!Charged, n
    <2> HIDE DEF r
    <2>2. /\ [keys EXCEPT ![k] = r] \in Seq(KeyRec) /\ DOMAIN [keys EXCEPT ![k] = r] = DOMAIN keys
          /\ [keys EXCEPT ![k] = r][k] = r
          /\ \A i \in DOMAIN keys : i # k => [keys EXCEPT ![k] = r][i] = keys[i]
      <3>1. r \in KeyRec
        BY <1>4
      <3>2. QED
        BY <1>1, <3>1
    <2>3. PICK c : c = [keys EXCEPT ![k] = r]
      OBVIOUS
    <2>4. /\ c \in Seq(KeyRec) /\ DOMAIN c = DOMAIN keys /\ c[k] = r
          /\ \A i \in DOMAIN keys : i # k => c[i] = keys[i]
      BY <2>2, <2>3
    <2>5. /\ \A i \in DOMAIN keys : /\ c[i].token = keys[i].token /\ c[i].chain = keys[i].chain
                                    /\ c[i].revoked = keys[i].revoked
          /\ c[k].window = Sends!Window /\ c[k].count = n
      BY <1>4, <2>4
    <2>6. Sends!Charged(k) = c
      BY <2>1, <2>3
    <2>7. QED
      BY <1>2, <2>4, <2>5, <2>6 DEF n
  <1>7. QED
    BY <1>5, <1>6

\* A message more in the minute that runs.
LEMMA SentGrows ==
    ASSUME Sends!SendAssumption, SendTypes, NEW k, NEW domain, NEW i, NEW w,
           dispatched' = Append(dispatched, [key |-> k, domain |-> domain, at |-> time])
    PROVE  /\ SentIn(i, w)' = IF i = k /\ w = Sends!Window THEN SentIn(i, w) \union {Len(dispatched) + 1}
                               ELSE SentIn(i, w)
           /\ Cardinality(SentIn(i, w)') = Cardinality(SentIn(i, w)) + (IF i = k /\ w = Sends!Window THEN 1 ELSE 0)
  <1> DEFINE m == [key |-> k, domain |-> domain, at |-> time]
             n == Len(dispatched)
  <1>1. dispatched \in Seq(MoteRec) /\ n \in Nat /\ DOMAIN dispatched = 1..n
    BY DEF SendTypes
  <1>2. /\ DOMAIN dispatched' = DOMAIN dispatched \union {n + 1} /\ n + 1 \notin DOMAIN dispatched
        /\ dispatched'[n + 1] = m /\ \A j \in DOMAIN dispatched : dispatched'[j] = dispatched[j]
    BY <1>1
  <1>3. m.key = k /\ m.at = time
    OBVIOUS
  <1> HIDE DEF m, n
  <1>4. SentIn(i, w)' = IF i = k /\ w = Sends!Window THEN SentIn(i, w) \union {n + 1} ELSE SentIn(i, w)
    BY <1>2, <1>3 DEF SentIn, Sends!Window
  <1>5. n + 1 \notin SentIn(i, w)
    BY <1>2 DEF SentIn
  <1>6. IsFiniteSet(SentIn(i, w)) /\ Cardinality(SentIn(i, w)) \in Nat
    BY SentIsFinite
  <1>7. Cardinality(SentIn(i, w) \union {n + 1}) = Cardinality(SentIn(i, w)) + 1
    BY <1>5, <1>6, FS_AddElement
  <1>8. QED
    BY <1>4, <1>6, <1>7 DEF n

LEMMA MessageIsSent ==
    ASSUME Sends!SendAssumption, SendInv, NEW k \in DOMAIN keys, NEW domain \in SendDomain, NEW resolves \in BOOLEAN,
           Sends!Send(k, domain, resolves)
    PROVE  SendInv'
  <1> DEFINE goes == Sends!HasRate(k) /\ resolves
  <1>1. /\ SendTypes /\ dispatched \in Seq(MoteRec) /\ time \in Nat /\ revocations \subseteq DOMAIN keys
        /\ \A i \in DOMAIN dispatched : dispatched[i].key \in DOMAIN keys
        /\ \A i \in DOMAIN keys : Rooted(i) /\ Metered(i) /\ (keys[i].revoked <=> i \in revocations)
    BY DEF SendInv, SendTypes
  <1>2. /\ keys' = Sends!Charged(k) /\ revocations' = revocations /\ time' = time
        /\ goes => dispatched' = Append(dispatched, [key |-> k, domain |-> domain, at |-> time])
        /\ ~goes => dispatched' = dispatched
    BY DEF Sends!Send, Sends!Dispatched
  <1> HIDE DEF goes
  <1>3. /\ keys' \in Seq(KeyRec) /\ DOMAIN keys' = DOMAIN keys
        /\ \A i \in DOMAIN keys : /\ keys'[i].token = keys[i].token /\ keys'[i].chain = keys[i].chain
                                  /\ keys'[i].revoked = keys[i].revoked
                                  /\ i # k => keys'[i] = keys[i]
    BY <1>1, <1>2, ChargedIs
  <1>4. Sends!Token(k).scope.rate # Unlimited =>
           /\ keys'[k].window = Sends!Window
           /\ keys'[k].count = Sends!Counted(k) + (IF Sends!HasRate(k) THEN 1 ELSE 0)
    BY <1>1, <1>2, ChargedIs
  <1>5. KeysStay
    BY <1>3 DEF KeysStay
  <1>6. Sends!Window' = Sends!Window /\ Sends!Window \in Nat
    BY <1>1, <1>2, WindowIs DEF Sends!Window
  <1>7. SendTypes'
    <2>1. dispatched' \in Seq(MoteRec) /\ \A i \in DOMAIN dispatched' : dispatched'[i].key \in DOMAIN keys
      <3>1. CASE goes
        <4>1. k \in Nat
          BY <1>1, KeyFacts
        <4> DEFINE m == [key |-> k, domain |-> domain, at |-> time]
        <4>2. m \in MoteRec /\ m.key = k
          BY <1>1, <4>1 DEF MoteRec
        <4>3. dispatched' = Append(dispatched, m)
          BY <1>2, <3>1
        <4> HIDE DEF m
        <4>4. QED
          BY <1>1, <4>2, <4>3
      <3>2. CASE ~goes
        BY <1>1, <1>2, <3>2
      <3>3. QED
        BY <3>1, <3>2
    <2>2. QED
      BY <1>1, <1>2, <1>3, <2>1 DEF SendTypes
  <1>8. \A i, w : /\ SentIn(i, w)' = SentIn(i, w) \/ (goes /\ i = k /\ w = Sends!Window)
                  /\ Cardinality(SentIn(i, w)') \in Nat /\ Cardinality(SentIn(i, w)) \in Nat
                  /\ Cardinality(SentIn(i, w)')
                       = Cardinality(SentIn(i, w)) + (IF goes /\ i = k /\ w = Sends!Window THEN 1 ELSE 0)
    <2> SUFFICES ASSUME NEW i, NEW w
                 PROVE  /\ SentIn(i, w)' = SentIn(i, w) \/ (goes /\ i = k /\ w = Sends!Window)
                        /\ Cardinality(SentIn(i, w)') \in Nat /\ Cardinality(SentIn(i, w)) \in Nat
                        /\ Cardinality(SentIn(i, w)')
                             = Cardinality(SentIn(i, w)) + (IF goes /\ i = k /\ w = Sends!Window THEN 1 ELSE 0)
      OBVIOUS
    <2>1. Cardinality(SentIn(i, w)) \in Nat
      BY <1>1, SentIsFinite
    <2>2. CASE goes
      BY <1>1, <1>2, <2>1, <2>2, SentGrows
    <2>3. CASE ~goes
      <3>1. SentIn(i, w)' = SentIn(i, w)
        BY <1>2, <2>3 DEF SentIn
      <3>2. QED
        BY <2>1, <2>3, <3>1
    <2>4. QED
      BY <2>2, <2>3
  <1>9. ASSUME NEW i \in DOMAIN keys, i # k PROVE Metered(i)'
    <2>1. Metered(i) /\ keys'[i] = keys[i] /\ Sends!Token(i)' = Sends!Token(i)
      BY <1>1, <1>3, <1>9 DEF Sends!Token
    <2>2. \A w : SentIn(i, w)' = SentIn(i, w)
      BY <1>8, <1>9
    <2>3. QED
      BY <1>6, <2>1, <2>2 DEF Metered
  <1>10. Metered(k)'
    <2>1. Sends!Token(k)' = Sends!Token(k)
      BY <1>3 DEF Sends!Token
    <2>2. CASE Sends!Token(k).scope.rate = Unlimited
      BY <2>1, <2>2 DEF Metered
    <2>3. CASE Sends!Token(k).scope.rate # Unlimited
      <3> DEFINE rate == Sends!Token(k).scope.rate
                 C(w) == Cardinality(SentIn(k, w))
                 D(w) == Cardinality(SentIn(k, w)')
      <3>1. /\ keys[k].window <= Sends!Window /\ keys[k].count <= rate /\ C(keys[k].window) <= keys[k].count
            /\ \A w \in Nat : C(w) <= rate /\ (w > keys[k].window => SentIn(k, w) = {})
        BY <1>1, <2>3 DEF Metered
      <3>2. /\ keys[k].window \in Nat /\ keys[k].count \in Nat /\ rate \in Nat /\ Sends!Counted(k) \in Nat
        BY <1>1, KeyFacts, ChargedIs
      <3>3. Sends!HasRate(k) <=> Sends!Counted(k) < rate
        BY <2>3 DEF Sends!HasRate
      <3>4. \A w : C(w) \in Nat /\ D(w) \in Nat /\ D(w) = C(w) + (IF goes /\ w = Sends!Window THEN 1 ELSE 0)
        BY <1>8
      <3>5. keys'[k].window = Sends!Window /\ keys'[k].count = Sends!Counted(k) + (IF Sends!HasRate(k) THEN 1 ELSE 0)
        BY <1>4, <2>3
      <3>6. goes => Sends!HasRate(k)
        BY DEF goes
      <3> HIDE DEF rate, C, D
      <3>7. C(Sends!Window) <= Sends!Counted(k) /\ Sends!Counted(k) <= rate
        <4>1. CASE keys[k].window = Sends!Window
          BY <3>1, <4>1 DEF Sends!Counted
        <4>2. CASE keys[k].window # Sends!Window
          <5>1. Sends!Window > keys[k].window
            BY <1>6, <3>1, <3>2, <4>2
          <5>2. SentIn(k, Sends!Window) = {}
            BY <1>6, <3>1, <5>1
          <5>3. C(Sends!Window) = 0
            BY <5>2, FS_EmptySet DEF C
          <5>4. QED
            BY <3>2, <4>2, <5>3 DEF Sends!Counted
        <4>3. QED
          BY <4>1, <4>2
      <3>8. keys'[k].count <= rate
        BY <3>2, <3>3, <3>5, <3>7
      <3>9. D(Sends!Window) <= keys'[k].count
        <4>1. C(Sends!Window) \in Nat /\ D(Sends!Window) = C(Sends!Window) + (IF goes THEN 1 ELSE 0)
          BY <3>4
        <4>2. QED
          BY <3>2, <3>5, <3>6, <3>7, <4>1
      <3>10. \A w \in Nat : D(w) <= rate
        <4>1. ASSUME NEW w \in Nat PROVE D(w) <= rate
          <5>1. CASE w = Sends!Window
            <6>1. D(Sends!Window) \in Nat /\ keys'[k].count \in Nat
              BY <3>2, <3>4, <3>5
            <6>2. QED
              BY <3>2, <3>8, <3>9, <5>1, <6>1
          <5>2. CASE w # Sends!Window
            BY <3>1, <3>4, <5>2
          <5>3. QED
            BY <5>1, <5>2
        <4>2. QED
          BY <4>1
      <3>11. \A w \in Nat : w > Sends!Window => SentIn(k, w)' = {}
        <4>1. \A w \in Nat : w > Sends!Window => w > keys[k].window /\ w # Sends!Window
          BY <1>6, <3>1, <3>2
        <4>2. QED
          BY <1>8, <3>1, <4>1
      <3>12. QED
        BY <1>6, <2>1, <3>5, <3>8, <3>9, <3>10, <3>11 DEF Metered, rate, C, D
    <2>4. QED
      BY <2>2, <2>3
  <1>11. \A i \in DOMAIN keys : Rooted(i)'
    BY <1>1, <1>5, RootStays
  <1>12. \A i \in DOMAIN keys : keys'[i].revoked <=> i \in revocations'
    BY <1>1, <1>2, <1>3
  <1>13. QED
    BY <1>3, <1>7, <1>9, <1>10, <1>11, <1>12 DEF SendInv

-----------------------------------------------------------------------------
LEMMA SendStarts == ASSUME Sends!SendAssumption, Sends!Init PROVE SendInv
  <1>1. keys = <<>> /\ dispatched = <<>> /\ revocations = {} /\ time = 0
    BY DEF Sends!Init
  <1>2. DOMAIN keys = {} /\ DOMAIN dispatched = {} /\ keys \in Seq(KeyRec) /\ dispatched \in Seq(MoteRec)
    BY <1>1
  <1>3. QED
    BY <1>1, <1>2 DEF SendInv, SendTypes

LEMMA SendSteps ==
    ASSUME Sends!SendAssumption, SendInv, [Sends!Next]_Sends!vars
    PROVE  SendInv'
  <1>1. CASE \E req \in Sends!Request : Sends!HandleIssue(req)
    <2>1. PICK scope \in Sends!Scope, ttl \in KeyTtl : Sends!IssueKey(scope, ttl)
      BY <1>1 DEF Sends!HandleIssue
    <2>2. QED
      BY <2>1, KeyIsIssued
  <1>2. CASE \E req \in Sends!Request : Sends!HandleRotate(req)
    <2>1. PICK k \in DOMAIN keys : Sends!RotateKey(k)
      BY <1>2 DEF Sends!HandleRotate
    <2>2. QED
      BY <2>1, KeyIsRotated
  <1>3. CASE \E req \in Sends!Request : Sends!HandleRevoke(req)
    <2>1. PICK k \in DOMAIN keys : Sends!RevokeKey(k)
      BY <1>3 DEF Sends!HandleRevoke
    <2>2. QED
      BY <2>1, KeyIsRevoked
  <1>4. CASE \E req \in Sends!Request : Sends!HandleSend(req)
    <2>1. PICK k \in DOMAIN keys, domain \in SendDomain, resolves \in BOOLEAN : Sends!Send(k, domain, resolves)
      BY <1>4 DEF Sends!HandleSend
    <2>2. QED
      BY <2>1, MessageIsSent
  <1>5. CASE Sends!Delegate
    <2>1. PICK k \in DOMAIN keys, scope \in Sends!Scope, ttl \in KeyTtl : Sends!AttenuateKey(k, scope, ttl)
      BY <1>5 DEF Sends!Delegate
    <2>2. QED
      BY <2>1, KeyIsAttenuated
  <1>6. CASE Sends!Tick
    BY <1>6, TickKeeps
  <1>7. CASE UNCHANGED Sends!vars
    <2>1. keys' = keys /\ revocations' = revocations /\ dispatched' = dispatched /\ time' = time
      BY <1>7 DEF Sends!vars
    <2>2. SendTypes' /\ \A i, w : SentIn(i, w)' = SentIn(i, w)
      BY <2>1 DEF SendInv, SendTypes, SentIn
    <2>3. Sends!Window' = Sends!Window /\ \A i : Sends!Token(i)' = Sends!Token(i) /\ Sends!DelegatedFrom(i)' = Sends!DelegatedFrom(i)
      BY <2>1 DEF Sends!Window, Sends!Token, Sends!DelegatedFrom
    <2>4. SendTypes /\ KeysStay
      BY <2>1 DEF SendInv, KeysStay
    <2>5. \A i \in DOMAIN keys : Rooted(i)'
      BY <2>4, RootStays DEF SendInv
    <2>6. \A i \in DOMAIN keys : Metered(i)'
      BY <2>1, <2>2, <2>3 DEF SendInv, Metered
    <2>7. QED
      BY <2>1, <2>2, <2>5, <2>6 DEF SendInv
  <1>8. QED
    BY <1>1, <1>2, <1>3, <1>4, <1>5, <1>6, <1>7 DEF Sends!Next

\* A message leaves under a key that was verified with all it descends from.
LEMMA SendsAreLive ==
    ASSUME Sends!SendAssumption, SendInv, [Sends!Next]_Sends!vars
    PROVE  Sends!SentUnderLiveLineage
  <1>1. SUFFICES ASSUME dispatched' # dispatched PROVE Sends!SentUnderLiveLineage
    BY DEF Sends!SentUnderLiveLineage
  <1>2. PICK k \in DOMAIN keys, domain \in SendDomain, resolves \in BOOLEAN : Sends!Send(k, domain, resolves)
    BY <1>1 DEF Sends!Next, Sends!vars, Sends!HandleIssue, Sends!HandleRotate, Sends!HandleRevoke, Sends!HandleSend, Sends!Delegate, Sends!IssueKey,
                Sends!RotateKey, Sends!RevokeKey, Sends!AttenuateKey, Sends!Tick
  <1>3. /\ SendTypes /\ \A i \in DOMAIN keys : Rooted(i)
        /\ \A i \in DOMAIN keys : keys[i].revoked <=> i \in revocations
    BY DEF SendInv
  <1>4. dispatched' = Append(dispatched, [key |-> k, domain |-> domain, at |-> time])
    BY <1>1, <1>2 DEF Sends!Send, Sends!Dispatched
  <1>5. dispatched'[Len(dispatched')].key = k /\ dispatched'[Len(dispatched')].domain = domain
    <2> DEFINE m == [key |-> k, domain |-> domain, at |-> time]
    <2>1. dispatched \in Seq(MoteRec) /\ dispatched' = Append(dispatched, m) /\ m.key = k /\ m.domain = domain
      BY <1>3, <1>4 DEF SendTypes
    <2> HIDE DEF m
    <2>2. dispatched'[Len(dispatched')] = m
      BY <2>1
    <2>3. QED
      BY <2>1, <2>2
  <1>6. Sends!Lineage(k) = Family(k)
    BY <1>3, LineageIsFamily
  <1>7. ASSUME NEW a \in Family(k)
        PROVE  /\ ~keys[a].revoked /\ Sends!Token(a).nbf <= time /\ time < Sends!Token(a).exp
               /\ Sends!AuthorizesFrom(Sends!Token(a).scope, domain)
    <2>1. /\ a \in DOMAIN keys /\ Sends!Attenuates(Sends!Token(k), Sends!Token(a))
          /\ a = k \/ \E j \in DOMAIN keys[k].chain : a = keys[k].chain[j]
      BY <1>3, <1>7, FamilyAttenuates
    <2>2. Sends!VerifyAt(a)
      BY <1>2, <2>1 DEF Sends!Send, Sends!VerifyKey
    <2>3. Sends!AuthorizesFrom(Sends!Token(k).scope, domain)
      BY <1>2 DEF Sends!Send
    <2>4. Sends!AuthorizesFrom(Sends!Token(a).scope, domain)
      BY <2>1, <2>3 DEF Sends!Attenuates, Sends!AuthorizesFrom
    <2>5. QED
      BY <1>3, <2>1, <2>2, <2>4 DEF Sends!VerifyAt
  <1>8. QED
    BY <1>5, <1>6, <1>7 DEF Sends!SentUnderLiveLineage

LEMMA SendCardinality == \A S : Sends!Cardinality(S) = Cardinality(S)
  BY DEF Sends!Cardinality, Cardinality

LEMMA RatesHold ==
    ASSUME Sends!SendAssumption, SendInv
    PROVE  Sends!KeyRateHolds
  <1>1. SendTypes /\ \A i \in DOMAIN keys : Rooted(i) /\ Metered(i)
    BY DEF SendInv
  <1>2. SUFFICES ASSUME NEW k \in DOMAIN keys, NEW w \in 0..(LastTick \div Minute), NEW a \in Sends!Lineage(k),
                        Sends!Token(a).scope.rate # Unlimited
                 PROVE  Cardinality(SentIn(k, w)) <= Sends!Token(a).scope.rate
    BY SendCardinality DEF Sends!KeyRateHolds, SentIn
  <1>3. a \in Family(k)
    BY <1>1, LineageIsFamily
  <1>4. a \in DOMAIN keys /\ Sends!Token(k).scope.rate <= Sends!Token(a).scope.rate
    <2>1. a \in DOMAIN keys /\ Sends!Attenuates(Sends!Token(k), Sends!Token(a))
      BY <1>1, <1>3, FamilyAttenuates
    <2>2. QED
      BY <2>1 DEF Sends!Attenuates
  <1>5. /\ Sends!Token(k).scope.rate \in Nat /\ Sends!Token(a).scope.rate \in Nat
        /\ Sends!Token(a).scope.rate \in Rate \union {Unlimited}
    <2>1. Sends!Token(a).scope \in Sends!Scope /\ Sends!Token(a).scope.rate \in Nat /\ Sends!Token(k).scope.rate \in Nat
      BY <1>1, <1>4, KeyFacts
    <2>2. QED
      BY <2>1 DEF Sends!Scope
  <1>6. Sends!Token(k).scope.rate # Unlimited
    <2>1. Sends!Token(a).scope.rate < Unlimited /\ Unlimited \in Nat
      BY <1>2, <1>5 DEF Sends!SendAssumption
    <2>2. QED
      BY <1>4, <1>5, <2>1
  <1>7. w \in Nat
    OBVIOUS
  <1>8. Cardinality(SentIn(k, w)) <= Sends!Token(k).scope.rate
    BY <1>1, <1>6, <1>7 DEF Metered
  <1>9. Cardinality(SentIn(k, w)) \in Nat
    BY <1>1, SentIsFinite
  <1>10. QED
    BY <1>4, <1>5, <1>8, <1>9

\* A message leaves only under a key none of whose delegators is revoked, out of its time
\* or for another domain, no key passes its own ceiling or theirs, and a key that is not
\* revoked can be rotated (dmtap-send key.rs, pipeline.rs), for every number of keys.
THEOREM SendKeysStay ==
    ASSUME Sends!SendAssumption
    PROVE  Sends!Spec =>
             [][/\ Sends!SentUnderLiveLineage
                /\ Sends!KeyRateHolds' /\ Sends!RotationNeverRefused']_Sends!vars
  <1>1. Sends!Init => SendInv
    BY SendStarts
  <1>2. SendInv /\ [Sends!Next]_Sends!vars => SendInv'
    BY SendSteps
  <1>3. SendInv => Sends!KeyRateHolds
    BY RatesHold
  <1>4. SendInv => Sends!RotationNeverRefused
    BY ReplacementFits DEF Sends!RotationNeverRefused
  <1>5. SendInv /\ [Sends!Next]_Sends!vars => Sends!SentUnderLiveLineage
    BY SendsAreLive
  <1>6. QED
    BY <1>1, <1>2, <1>3, <1>4, <1>5, PTL DEF Sends!Spec

-----------------------------------------------------------------------------
(* The sync server, and a follower that pulls from it.                     *)

CONSTANTS Author, AuthorOrder, MaxHlc, Cancels, PullLimit, PushLimit, Inline
VARIABLES applied, journal, signed, snapshot, answer, pulled, vector

Syncs == INSTANCE SyncServe WITH have <- pulled

\* What a version vector says was seen of some operations.
Seen(done, v) == {o \in done : ~Syncs!Lacks(v, o)}

\* Nobody's operation is there without those it made before and those it cancels.
Chained(done) ==
    \A o \in done : /\ Cancels[o] \subseteq done
                   /\ \A t \in 1..(o[2] - 1) : <<o[1], t>> \in done

\* A vector and a state that stand for one another.
Honest(done, v, h) ==
    /\ v \in [Author -> Nat]
    /\ h \subseteq Seen(done, v)
    /\ Syncs!Fold(h) = Syncs!Fold(Seen(done, v))
    /\ \A o \in Seen(done, v) : Cancels[o] \subseteq Seen(done, v)
    /\ \A a \in Author : v[a] = 0 \/ <<a, v[a]>> \in done

Checkpoint(c) == c = Syncs!None \/ (c.kind = "snapshot" /\ Honest(applied, c.covers, c.root))

JournalIsWhole ==
    IF snapshot = Syncs!None THEN journal = applied
    ELSE /\ signed # Syncs!None
         /\ \A a \in Author : snapshot.covers[a] <= signed.covers[a]
         /\ \A o \in applied : Syncs!Lacks(snapshot.covers, o) => o \in journal

Join == [kind : {"join"}, covers : [Author -> Nat], root : SUBSET Syncs!Op, body : BOOLEAN]

\* Of the operations an answer carries none is left out that belongs before them.
Complete(done, v, batch) ==
    \A b \in batch : \A o \in done :
        Syncs!Lacks(v, o) /\ ((o[1] = b[1] /\ o[2] <= b[2]) \/ o \in Cancels[b]) => o \in batch

AnswerIsSound ==
    \/ answer = Syncs!None
    \/ answer \in Join /\ Honest(applied, answer.covers, answer.root)
    \/ /\ answer.kind = "ops"
       /\ answer.ops \subseteq applied
       /\ \A o \in answer.ops : Syncs!Lacks(vector, o)
       /\ Complete(applied, vector, answer.ops)

SyncInv ==
    /\ applied \subseteq Syncs!Op /\ journal \subseteq applied /\ Chained(applied)
    /\ Honest(applied, vector, pulled)
    /\ Checkpoint(signed) /\ Checkpoint(snapshot)
    /\ JournalIsWhole
    /\ AnswerIsSound

-----------------------------------------------------------------------------
LEMMA OpsAre ==
    ASSUME Syncs!SyncAssumption, NEW o \in Syncs!Op
    PROVE  /\ o[1] \in Author /\ o[2] \in 1..MaxHlc /\ o = <<o[1], o[2]>>
           /\ Cancels[o] \subseteq Syncs!Op
           /\ \A p \in Cancels[o] : p[2] < o[2]
           /\ MaxHlc \in Nat
  <1>1. o[1] \in Author /\ o[2] \in 1..MaxHlc /\ o = <<o[1], o[2]>>
    BY DEF Syncs!Op
  <1>2. QED
    BY <1>1 DEF Syncs!SyncAssumption

LEMMA BeforeOrders ==
    ASSUME Syncs!SyncAssumption
    PROVE  /\ \A o \in Syncs!Op : ~Syncs!Before(o, o)
           /\ \A o, p \in Syncs!Op : o = p \/ Syncs!Before(o, p) \/ Syncs!Before(p, o)
           /\ \A o, p, q \in Syncs!Op : Syncs!Before(o, p) /\ Syncs!Before(p, q) => Syncs!Before(o, q)
           /\ \A o, p \in Syncs!Op : o[2] < p[2] => Syncs!Before(o, p)
  <1> DEFINE R == [a \in Author |-> CHOOSE i \in DOMAIN AuthorOrder : AuthorOrder[i] = a]
  <1>1. \A a \in Author : R[a] \in DOMAIN AuthorOrder /\ AuthorOrder[R[a]] = a
    BY DEF Syncs!SyncAssumption, Syncs!Range
  <1>2. DOMAIN AuthorOrder \subseteq Nat
    <2>1. DOMAIN AuthorOrder = 1..Len(AuthorOrder) /\ Len(AuthorOrder) \in Nat
      BY DEF Syncs!SyncAssumption
    <2>2. QED
      BY <2>1
  <1>3. \A a \in Author : R[a] \in Nat
    BY <1>1, <1>2
  <1>4. \A a, b \in Author : R[a] = R[b] => a = b
    BY <1>1
  <1>5. \A o, p \in Syncs!Op :
           Syncs!Before(o, p) <=> o[2] < p[2] \/ (o[2] = p[2] /\ R[o[1]] < R[p[1]])
    <2> SUFFICES ASSUME NEW o \in Syncs!Op, NEW p \in Syncs!Op
                 PROVE  Syncs!Before(o, p) <=> o[2] < p[2] \/ (o[2] = p[2] /\ R[o[1]] < R[p[1]])
      OBVIOUS
    <2>1. o[1] \in Author /\ p[1] \in Author
      BY OpsAre
    <2>2. /\ R[o[1]] = CHOOSE i \in DOMAIN AuthorOrder : AuthorOrder[i] = o[1]
          /\ R[p[1]] = CHOOSE i \in DOMAIN AuthorOrder : AuthorOrder[i] = p[1]
      BY <2>1
    <2> HIDE DEF R
    <2>3. QED
      BY <2>2 DEF Syncs!Before
  <1>6. \A o \in Syncs!Op : R[o[1]] \in Nat /\ o[2] \in Nat
    BY <1>3, OpsAre
  <1> HIDE DEF R
  <1>7. \A o \in Syncs!Op : ~Syncs!Before(o, o)
    BY <1>5, <1>6
  <1>8. ASSUME NEW o \in Syncs!Op, NEW p \in Syncs!Op
        PROVE  o = p \/ Syncs!Before(o, p) \/ Syncs!Before(p, o)
    <2>1. CASE o[2] = p[2] /\ R[o[1]] = R[p[1]]
      <3>1. o[1] = p[1]
        BY <2>1, <1>4, OpsAre
      <3>2. QED
        BY <3>1, <2>1, OpsAre
    <2>2. CASE ~(o[2] = p[2] /\ R[o[1]] = R[p[1]])
      BY <2>2, <1>5, <1>6
    <2>3. QED
      BY <2>1, <2>2
  <1>9. ASSUME NEW o \in Syncs!Op, NEW p \in Syncs!Op, NEW q \in Syncs!Op,
               Syncs!Before(o, p), Syncs!Before(p, q)
        PROVE  Syncs!Before(o, q)
    BY <1>5, <1>6, <1>9
  <1>10. \A o, p \in Syncs!Op : o[2] < p[2] => Syncs!Before(o, p)
    BY <1>5
  <1>11. QED
    BY <1>7, <1>8, <1>9, <1>10

LEMMA LeastOf == ASSUME NEW G, G \subseteq Nat, G # {} PROVE \E m \in G : \A k \in G : m <= k
  <1> DEFINE R == OpToRel(<, Nat)
  <1>1. \A x, y \in Nat : x < y => <<x, y>> \in R
    BY DEF OpToRel
  <1>2. IsWellFoundedOn(R, Nat)
    BY NatLessThanWellFounded
  <1> HIDE DEF R
  <1>3. PICK m \in G : \A k \in G : <<k, m>> \notin R
    BY <1>2, WFMin
  <1>4. ASSUME NEW k \in G PROVE m <= k
    <2>1. k \in Nat /\ m \in Nat
      OBVIOUS
    <2>2. ~(k < m)
      BY <1>1, <1>3, <2>1
    <2>3. QED
      BY <2>1, <2>2
  <1>5. QED
    BY <1>4

LEMMA GreatestOf ==
    ASSUME NEW S, NEW n \in Nat, S \subseteq 0..n, S # {}
    PROVE  \E t \in S : \A u \in S : u <= t
  <1> DEFINE G == {m \in 0..n : \E t \in S : t + m = n}
  <1>1. G \subseteq Nat
    OBVIOUS
  <1>2. PICK t \in S : TRUE
    OBVIOUS
  <1>3. n - t \in G
    BY <1>2
  <1>4. PICK m \in G : \A k \in G : m <= k
    <2> HIDE DEF G
    <2>1. QED
      BY <1>1, <1>3, LeastOf
  <1>5. PICK s \in S : s + m = n
    BY <1>4
  <1>6. ASSUME NEW u \in S PROVE u <= s
    <2>1. n - u \in G
      OBVIOUS
    <2>2. m <= n - u
      BY <1>4, <2>1
    <2>3. m \in Nat /\ s \in Nat /\ u \in Nat
      BY <1>4, <1>5
    <2>4. QED
      BY <2>2, <2>3, <1>5
  <1>7. QED
    BY <1>6

LEMMA VectorOfIsGreatest ==
    ASSUME Syncs!SyncAssumption, NEW done \in SUBSET Syncs!Op, NEW a \in Author
    PROVE  /\ Syncs!VectorOf(done)[a] \in Nat
           /\ \A o \in done : o[1] = a => o[2] <= Syncs!VectorOf(done)[a]
           /\ Syncs!VectorOf(done)[a] = 0 \/ <<a, Syncs!VectorOf(done)[a]>> \in done
  <1> DEFINE own == {o[2] : o \in {p \in done : p[1] = a}}
             best == CHOOSE t \in own : \A u \in own : u <= t
  <1>1. own \subseteq 0..MaxHlc /\ MaxHlc \in Nat
    <2>1. MaxHlc \in Nat
      BY DEF Syncs!SyncAssumption
    <2>2. \A o \in done : o[2] \in 1..MaxHlc
      BY OpsAre
    <2>3. QED
      BY <2>1, <2>2
  <1>2. Syncs!VectorOf(done)[a] = IF own = {} THEN 0 ELSE best
    BY DEF Syncs!VectorOf
  <1>3. \A o \in done : o[1] = a => o[2] \in own
    OBVIOUS
  <1>4. CASE own = {}
    <2>1. Syncs!VectorOf(done)[a] = 0
      BY <1>2, <1>4
    <2>2. \A o \in done : o[1] # a
      BY <1>3, <1>4
    <2>3. QED
      BY <2>1, <2>2
  <1>5. CASE own # {}
    <2>1. best \in own /\ \A u \in own : u <= best
      <3> HIDE DEF own
      <3>1. \E t \in own : \A u \in own : u <= t
        BY <1>1, <1>5, GreatestOf
      <3>2. QED
        BY <3>1
    <2>2. PICK o \in done : o[1] = a /\ o[2] = best
      BY <2>1
    <2>3. <<a, best>> \in done
      <3>1. o = <<o[1], o[2]>>
        BY OpsAre
      <3>2. QED
        BY <3>1, <2>2
    <2>4. best \in Nat
      <3>1. \A u \in 0..MaxHlc : u \in Nat
        BY <1>1
      <3>2. QED
        BY <3>1, <2>1, <1>1
    <2> HIDE DEF own, best
    <2>5. Syncs!VectorOf(done)[a] = best
      BY <1>2, <1>5
    <2>6. QED
      BY <2>1, <2>3, <2>4, <2>5, <1>3
  <1>6. QED
    BY <1>4, <1>5

LEMMA VectorOfType ==
    ASSUME NEW done
    PROVE  /\ DOMAIN Syncs!VectorOf(done) = Author
           /\ Syncs!VectorOf(done) = [a \in Author |-> Syncs!VectorOf(done)[a]]
  BY DEF Syncs!VectorOf

LEMMA FoldIsLive ==
    ASSUME NEW done, NEW o
    PROVE  o \in Syncs!Fold(done) <=>
              o \in done /\ Cancels[o] = {} /\ \A p \in done : o \notin Cancels[p]
  BY DEF Syncs!Fold

LEMMA FoldOfFold ==
    ASSUME NEW done
    PROVE  Syncs!Fold(done) \subseteq done /\ Syncs!Fold(Syncs!Fold(done)) = Syncs!Fold(done)
  <1>1. Syncs!Fold(done) \subseteq done
    BY DEF Syncs!Fold
  <1>2. ASSUME NEW o \in Syncs!Fold(done) PROVE o \in Syncs!Fold(Syncs!Fold(done))
    <2>1. Cancels[o] = {} /\ \A p \in done : o \notin Cancels[p]
      BY FoldIsLive
    <2>2. \A p \in Syncs!Fold(done) : o \notin Cancels[p]
      BY <2>1, <1>1
    <2>3. QED
      BY <2>1, <2>2, FoldIsLive
  <1>3. Syncs!Fold(Syncs!Fold(done)) \subseteq Syncs!Fold(done)
    BY DEF Syncs!Fold
  <1>4. QED
    BY <1>1, <1>2, <1>3

\* Nothing of s cancels any of b.
Spares(s, b) == \A o \in s : \A p \in b : p \notin Cancels[o]

\* What folds alike folds alike with more of it, if nothing seen cancels what is new.
LEMMA FoldTakesMore ==
    ASSUME NEW h, NEW s, NEW b, h \subseteq s, Syncs!Fold(h) = Syncs!Fold(s), Spares(s, b)
    PROVE  Syncs!Fold(h \union b) = Syncs!Fold(s \union b)
  <1> USE DEF Spares
  <1>1. ASSUME NEW o \in Syncs!Fold(s \union b) PROVE o \in Syncs!Fold(h \union b)
    <2>1. /\ o \in s \union b /\ Cancels[o] = {}
          /\ \A p \in s \union b : o \notin Cancels[p]
      BY FoldIsLive
    <2>2. CASE o \in s
      <3>1. o \in Syncs!Fold(s)
        BY <2>1, <2>2, FoldIsLive
      <3>2. o \in h
        BY <3>1, FoldIsLive
      <3>3. QED
        BY <3>2, <2>1, FoldIsLive
    <2>3. CASE o \in b
      BY <2>1, <2>3, FoldIsLive
    <2>4. QED
      BY <2>1, <2>2, <2>3
  <1>2. ASSUME NEW o \in Syncs!Fold(h \union b) PROVE o \in Syncs!Fold(s \union b)
    <2>1. /\ o \in h \union b /\ Cancels[o] = {}
          /\ \A p \in h \union b : o \notin Cancels[p]
      BY FoldIsLive
    <2>2. CASE o \in h
      <3>1. o \in Syncs!Fold(h)
        BY <2>1, <2>2, FoldIsLive
      <3>2. \A p \in s : o \notin Cancels[p]
        BY <3>1, FoldIsLive
      <3>3. QED
        BY <3>2, <2>1, FoldIsLive
    <2>3. CASE o \in b
      BY <2>1, <2>3, FoldIsLive
    <2>4. QED
      BY <2>1, <2>2, <2>3
  <1>3. QED
    BY <1>1, <1>2

\* What a vector says was seen does not grow when an author adds to what it made before.
LEMMA SeenStays ==
    ASSUME Syncs!SyncAssumption, NEW done, NEW more, done \subseteq more, more \subseteq Syncs!Op,
           Chained(done), NEW v \in [Author -> Nat],
           \A a \in Author : v[a] = 0 \/ <<a, v[a]>> \in done
    PROVE  Seen(more, v) = Seen(done, v)
  <1>1. Seen(done, v) \subseteq Seen(more, v)
    BY DEF Seen
  <1>2. ASSUME NEW o \in Seen(more, v) PROVE o \in Seen(done, v)
    <2>1. o \in more /\ ~(o[2] > v[o[1]])
      BY DEF Seen, Syncs!Lacks
    <2>2. o[1] \in Author /\ o[2] \in 1..MaxHlc /\ o = <<o[1], o[2]>> /\ MaxHlc \in Nat
      BY <2>1, OpsAre
    <2>3. v[o[1]] \in Nat
      BY <2>2
    <2>4. o[2] <= v[o[1]] /\ v[o[1]] # 0 /\ o[2] \in Nat /\ o[2] >= 1
      BY <2>1, <2>2, <2>3
    <2> DEFINE top == <<o[1], v[o[1]]>>
    <2>5. top \in done
      BY <2>2, <2>4
    <2>6. top[1] = o[1] /\ top[2] = v[o[1]]
      OBVIOUS
    <2>7. \A t \in 1..(top[2] - 1) : <<top[1], t>> \in done
      <3> HIDE DEF top
      <3>1. QED
        BY <2>5 DEF Chained
    <2>8. o \in done
      <3>1. CASE o[2] = v[o[1]]
        BY <3>1, <2>2, <2>5
      <3>2. CASE o[2] # v[o[1]]
        <4>1. o[2] \in 1..(top[2] - 1)
          BY <3>2, <2>3, <2>4, <2>6
        <4>2. <<top[1], o[2]>> \in done
          BY <4>1, <2>7
        <4>3. QED
          BY <4>2, <2>2, <2>6
      <3>3. QED
        BY <3>1, <3>2
    <2>9. QED
      BY <2>1, <2>8 DEF Seen, Syncs!Lacks
  <1>3. QED
    BY <1>1, <1>2

LEMMA HonestStays ==
    ASSUME Syncs!SyncAssumption, NEW done, NEW more, done \subseteq more, more \subseteq Syncs!Op,
           Chained(done), NEW v, NEW h, Honest(done, v, h)
    PROVE  Honest(more, v, h)
  <1>1. v \in [Author -> Nat] /\ \A a \in Author : v[a] = 0 \/ <<a, v[a]>> \in done
    BY DEF Honest
  <1>2. Seen(more, v) = Seen(done, v)
    BY <1>1, SeenStays
  <1>3. QED
    BY <1>1, <1>2 DEF Honest

LEMMA CompleteStays ==
    ASSUME Syncs!SyncAssumption, NEW done, NEW more, done \subseteq more, more \subseteq Syncs!Op,
           Chained(done), NEW v, NEW batch, batch \subseteq done, Complete(done, v, batch)
    PROVE  Complete(more, v, batch)
  <1> SUFFICES ASSUME NEW b \in batch, NEW o \in more, Syncs!Lacks(v, o),
                      (o[1] = b[1] /\ o[2] <= b[2]) \/ o \in Cancels[b]
               PROVE  o \in batch
    BY DEF Complete
  <1>1. /\ b \in Syncs!Op /\ o \in Syncs!Op /\ b \in done
        /\ o[2] \in 1..MaxHlc /\ o = <<o[1], o[2]>>
        /\ b[2] \in 1..MaxHlc /\ b = <<b[1], b[2]>> /\ MaxHlc \in Nat
    BY OpsAre
  <1>2. o \in done
    <2>1. CASE o \in Cancels[b]
      BY <2>1, <1>1 DEF Chained
    <2>2. CASE o[1] = b[1] /\ o[2] = b[2]
      BY <2>2, <1>1
    <2>3. CASE o[1] = b[1] /\ o[2] < b[2]
      <3>1. o[2] \in 1..(b[2] - 1)
        BY <2>3, <1>1
      <3>2. <<b[1], o[2]>> \in done
        BY <3>1, <1>1 DEF Chained
      <3>3. QED
        BY <3>2, <2>3, <1>1
    <2>4. QED
      BY <2>1, <2>2, <2>3, <1>1
  <1>3. QED
    BY <1>2 DEF Complete

LEMMA OpIsFinite == ASSUME Syncs!SyncAssumption PROVE IsFiniteSet(Syncs!Op)
  <1>1. AuthorOrder \in Seq(Author) /\ Author = {AuthorOrder[i] : i \in DOMAIN AuthorOrder}
    BY DEF Syncs!SyncAssumption, Syncs!Range
  <1>2. IsFiniteSet(DOMAIN AuthorOrder)
    <2>1. DOMAIN AuthorOrder = 1..Len(AuthorOrder) /\ Len(AuthorOrder) \in Nat
      BY <1>1
    <2>2. QED
      BY <2>1, FS_Interval
  <1>3. IsFiniteSet(Author)
    <2>1. AuthorOrder \in Surjection(DOMAIN AuthorOrder, Author)
      BY <1>1 DEF Surjection
    <2>2. QED
      BY <2>1, <1>2, FS_Surjection
  <1>4. IsFiniteSet(1..MaxHlc)
    BY FS_Interval DEF Syncs!SyncAssumption
  <1>5. QED
    BY <1>3, <1>4, FS_Product DEF Syncs!Op

LEMMA SyncCardinality == \A S : Syncs!Cardinality(S) = Cardinality(S)
  BY DEF Syncs!Cardinality, Cardinality

\* Whoever lacks anything is sent something, and nothing before what it is sent is left out.
LEMMA WantedIsOldest ==
    ASSUME Syncs!SyncAssumption, journal \subseteq Syncs!Op, NEW v
    PROVE  /\ Syncs!Wanted(v) \subseteq {o \in journal : Syncs!Lacks(v, o)}
           /\ \A o \in Syncs!Wanted(v) : \A p \in journal :
                 Syncs!Lacks(v, p) /\ Syncs!Before(p, o) => p \in Syncs!Wanted(v)
           /\ Syncs!Wanted(v) = {} => \A o \in journal : ~Syncs!Lacks(v, o)
  <1> DEFINE L == {o \in journal : Syncs!Lacks(v, o)}
             Earlier(o) == {p \in L : Syncs!Before(p, o)}
  <1>1. Syncs!Wanted(v) = {o \in L : Cardinality(Earlier(o)) < PullLimit}
    BY SyncCardinality DEF Syncs!Wanted
  <1>2. L \subseteq Syncs!Op /\ IsFiniteSet(L)
    <2>1. L \subseteq Syncs!Op
      OBVIOUS
    <2>2. QED
      BY <2>1, OpIsFinite, FS_Subset
  <1>3. \A o \in L : IsFiniteSet(Earlier(o)) /\ Cardinality(Earlier(o)) \in Nat
    <2> SUFFICES ASSUME NEW o \in L
                 PROVE  IsFiniteSet(Earlier(o)) /\ Cardinality(Earlier(o)) \in Nat
      OBVIOUS
    <2>1. Earlier(o) \subseteq L
      OBVIOUS
    <2> HIDE DEF Earlier, L
    <2>2. IsFiniteSet(Earlier(o))
      BY <2>1, <1>2, FS_Subset
    <2>3. QED
      BY <2>2, FS_CardinalityType
  <1>4. \A o \in L : \A p \in L : Syncs!Before(p, o) =>
           Cardinality(Earlier(p)) < Cardinality(Earlier(o))
    <2> SUFFICES ASSUME NEW o \in L, NEW p \in L, Syncs!Before(p, o)
                 PROVE  Cardinality(Earlier(p)) < Cardinality(Earlier(o))
      OBVIOUS
    <2>1. Earlier(p) \subseteq Earlier(o)
      BY <1>2, BeforeOrders
    <2>2. p \in Earlier(o) /\ p \notin Earlier(p)
      BY <1>2, BeforeOrders
    <2> HIDE DEF Earlier, L
    <2>3. /\ Cardinality(Earlier(p)) <= Cardinality(Earlier(o))
          /\ Cardinality(Earlier(p)) = Cardinality(Earlier(o)) => Earlier(p) = Earlier(o)
      BY <2>1, <1>3, FS_Subset
    <2>4. Cardinality(Earlier(p)) \in Nat /\ Cardinality(Earlier(o)) \in Nat
      BY <1>3
    <2>5. QED
      BY <2>2, <2>3, <2>4
  <1>5. PullLimit \in Nat /\ PullLimit > 0
    BY DEF Syncs!SyncAssumption
  <1> HIDE DEF Earlier
  <1>6. \A o \in Syncs!Wanted(v) : \A p \in L : Syncs!Before(p, o) => p \in Syncs!Wanted(v)
    BY <1>1, <1>3, <1>4, <1>5
  <1>7. ASSUME L # {} PROVE Syncs!Wanted(v) # {}
    <2> DEFINE C == {Cardinality(Earlier(o)) : o \in L}
    <2>1. C \subseteq Nat /\ C # {}
      BY <1>3, <1>7
    <2>2. PICK m \in C : \A k \in C : m <= k
      <3> HIDE DEF C
      <3>1. QED
        BY <2>1, LeastOf
    <2>3. PICK o \in L : m = Cardinality(Earlier(o))
      BY <2>2
    <2>4. \A p \in L : ~Syncs!Before(p, o)
      <3> SUFFICES ASSUME NEW p \in L, Syncs!Before(p, o) PROVE FALSE
        OBVIOUS
      <3>1. Cardinality(Earlier(p)) < m /\ Cardinality(Earlier(p)) \in C
        BY <1>4, <2>3
      <3>2. m <= Cardinality(Earlier(p)) /\ m \in Nat /\ Cardinality(Earlier(p)) \in Nat
        BY <3>1, <2>1, <2>2
      <3>3. QED
        BY <3>1, <3>2
    <2>5. Earlier(o) = {}
      BY <2>4 DEF Earlier
    <2>6. Cardinality(Earlier(o)) = 0
      BY <2>5, FS_EmptySet
    <2>7. QED
      BY <2>3, <2>6, <1>1, <1>5
  <1>8. Syncs!Wanted(v) \subseteq L
    BY <1>1
  <1>9. QED
    BY <1>6, <1>7, <1>8

-----------------------------------------------------------------------------
LEMMA SyncInvInit == ASSUME Syncs!SyncAssumption PROVE Syncs!Init => SyncInv
  <1> SUFFICES ASSUME Syncs!Init PROVE SyncInv
    OBVIOUS
  <1>1. /\ applied = {} /\ journal = {} /\ signed = Syncs!None /\ snapshot = Syncs!None
        /\ answer = Syncs!None /\ pulled = {} /\ vector = Syncs!VectorOf({})
    BY DEF Syncs!Init
  <1>2. vector = [a \in Author |-> 0]
    <2>1. \A a \in Author : Syncs!VectorOf({})[a] = 0
      <3>1. \A a \in Author : Syncs!VectorOf({})[a] = 0 \/ <<a, Syncs!VectorOf({})[a]>> \in {}
        BY VectorOfIsGreatest
      <3>2. QED
        BY <3>1
    <2>2. QED
      BY <1>1, <2>1, VectorOfType
  <1>3. Honest(applied, vector, pulled)
    BY <1>1, <1>2 DEF Honest, Seen
  <1>4. Chained(applied)
    BY <1>1 DEF Chained
  <1>5. QED
    BY <1>1, <1>3, <1>4 DEF SyncInv, Checkpoint, JournalIsWhole, AnswerIsSound

\* What a push adds is again chained.
LEMMA PushChains ==
    ASSUME Syncs!SyncAssumption, SyncInv, NEW items \in Syncs!Batch, Syncs!Push(items)
    PROVE  /\ applied \subseteq applied' /\ applied' \subseteq Syncs!Op /\ Chained(applied')
           /\ journal' \subseteq applied' /\ journal \subseteq journal'
           /\ \A o \in applied' : o \in applied \/ o \in journal'
           /\ UNCHANGED <<signed, snapshot, answer, pulled, vector>>
  <1>1. /\ UNCHANGED <<signed, snapshot, answer, pulled, vector>>
        /\ applied' = Syncs!OpsResponse(items).applied /\ journal' = Syncs!OpsResponse(items).journal
        /\ Syncs!InOrder(items)
    BY DEF Syncs!Push, Syncs!follower
  <1>2. applied \subseteq Syncs!Op /\ journal \subseteq applied /\ Chained(applied)
    BY DEF SyncInv
  <1>3. CASE Len(items) > PushLimit \/ Syncs!Bad \in Syncs!Range(items)
    <2>1. applied' = applied /\ journal' = journal
      BY <1>1, <1>3 DEF Syncs!OpsResponse
    <2>2. QED
      BY <2>1, <1>1, <1>2
  <1>4. CASE ~(Len(items) > PushLimit \/ Syncs!Bad \in Syncs!Range(items))
    <2>1. /\ applied' = applied \union Syncs!Ingested(items)
          /\ journal' = journal \union (Syncs!Ingested(items) \ applied)
      BY <1>1, <1>4 DEF Syncs!OpsResponse
    <2>2. PICK n \in 1..PushLimit : items \in [1..n -> Syncs!Item]
      BY DEF Syncs!Batch
    <2>3. n \in Nat /\ DOMAIN items = 1..n
      BY <2>2 DEF Syncs!SyncAssumption
    <2> DEFINE Kept == {j \in DOMAIN items : \A k \in 1..j : items[k] # Syncs!Stray}
    <2>4. Syncs!Ingested(items) = {items[i] : i \in Kept}
      BY DEF Syncs!Ingested
    <2>5. \A j \in Kept : items[j] \in Syncs!Op
      <3> SUFFICES ASSUME NEW j \in Kept PROVE items[j] \in Syncs!Op
        OBVIOUS
      <3>1. j \in 1..n /\ j \in 1..j
        BY <2>3
      <3>2. items[j] # Syncs!Stray /\ items[j] \in Syncs!Item
        BY <3>1, <2>2
      <3>3. items[j] # Syncs!Bad
        BY <3>1, <2>3, <1>4 DEF Syncs!Range
      <3>4. QED
        BY <3>2, <3>3 DEF Syncs!Item
    <2>6. \A j \in Kept : \A k \in 1..(j - 1) : k \in Kept
      BY <2>3
    <2>7. \A j \in Kept :
             /\ Cancels[items[j]] \subseteq applied'
             /\ \A t \in 1..(items[j][2] - 1) : <<items[j][1], t>> \in applied'
      <3> SUFFICES ASSUME NEW j \in Kept
                   PROVE  /\ Cancels[items[j]] \subseteq applied'
                          /\ \A t \in 1..(items[j][2] - 1) : <<items[j][1], t>> \in applied'
        OBVIOUS
      <3> DEFINE needs == Cancels[items[j]] \union {<<items[j][1], t>> : t \in 1..(items[j][2] - 1)}
      <3>1. j \in DOMAIN items /\ items[j] \in Syncs!Op
        BY <2>5
      <3>2. needs \subseteq applied \union {items[k] : k \in 1..(j - 1)}
        BY <3>1, <1>1 DEF Syncs!InOrder
      <3>3. {items[k] : k \in 1..(j - 1)} \subseteq Syncs!Ingested(items)
        <4> HIDE DEF Kept
        <4>1. QED
          BY <2>4, <2>6
      <3>4. needs \subseteq applied'
        <4> HIDE DEF needs
        <4>1. QED
          BY <3>2, <3>3, <2>1
      <3>5. QED
        BY <3>4
    <2> HIDE DEF Kept
    <2>8. applied' \subseteq Syncs!Op
      BY <2>1, <2>4, <2>5, <1>2
    <2>9. Chained(applied')
      <3> SUFFICES ASSUME NEW o \in applied'
                   PROVE  /\ Cancels[o] \subseteq applied'
                          /\ \A t \in 1..(o[2] - 1) : <<o[1], t>> \in applied'
        BY DEF Chained
      <3>1. CASE o \in applied
        <4>1. Cancels[o] \subseteq applied /\ \A t \in 1..(o[2] - 1) : <<o[1], t>> \in applied
          BY <3>1, <1>2 DEF Chained
        <4>2. applied \subseteq applied'
          BY <2>1
        <4>3. QED
          BY <4>1, <4>2
      <3>2. CASE o \in Syncs!Ingested(items)
        BY <3>2, <2>4, <2>7
      <3>3. QED
        BY <3>1, <3>2, <2>1
    <2>10. QED
      BY <1>1, <1>2, <2>1, <2>8, <2>9
  <1>5. QED
    BY <1>3, <1>4

LEMMA PushKeeps ==
    ASSUME Syncs!SyncAssumption, SyncInv, NEW items \in Syncs!Batch, Syncs!Push(items)
    PROVE  SyncInv'
  <1>1. /\ applied \subseteq applied' /\ applied' \subseteq Syncs!Op /\ Chained(applied')
        /\ journal' \subseteq applied' /\ journal \subseteq journal'
        /\ \A o \in applied' : o \in applied \/ o \in journal'
        /\ signed' = signed /\ snapshot' = snapshot /\ answer' = answer
        /\ pulled' = pulled /\ vector' = vector
    BY PushChains
  <1>2. /\ Chained(applied) /\ Honest(applied, vector, pulled) /\ Checkpoint(signed)
        /\ Checkpoint(snapshot) /\ JournalIsWhole /\ AnswerIsSound
    BY DEF SyncInv
  <1>3. \A v, h : Honest(applied, v, h) => Honest(applied', v, h)
    BY <1>1, <1>2, HonestStays
  <1>4. Honest(applied', vector', pulled')
    BY <1>1, <1>2, <1>3
  <1>5. Checkpoint(signed)' /\ Checkpoint(snapshot)'
    BY <1>1, <1>2, <1>3 DEF Checkpoint
  <1>6. JournalIsWhole'
    BY <1>1, <1>2 DEF JournalIsWhole
  <1>7. AnswerIsSound'
    <2>1. CASE answer = Syncs!None
      BY <2>1, <1>1 DEF AnswerIsSound
    <2>2. CASE answer \in Join /\ Honest(applied, answer.covers, answer.root)
      BY <2>2, <1>1, <1>3 DEF AnswerIsSound
    <2>3. CASE /\ answer.kind = "ops" /\ answer.ops \subseteq applied
               /\ \A o \in answer.ops : Syncs!Lacks(vector, o)
               /\ Complete(applied, vector, answer.ops)
      <3>1. Complete(applied', vector, answer.ops)
        BY <2>3, <1>1, <1>2, CompleteStays
      <3>2. QED
        BY <2>3, <3>1, <1>1 DEF AnswerIsSound
    <2>4. QED
      BY <1>2, <2>1, <2>2, <2>3 DEF AnswerIsSound
  <1>8. QED
    BY <1>1, <1>4, <1>5, <1>6, <1>7 DEF SyncInv

LEMMA SignKeeps == ASSUME Syncs!SyncAssumption, SyncInv, Syncs!SignSnapshot PROVE SyncInv'
  <1> DEFINE covers == Syncs!VectorOf(applied)
  <1>1. /\ signed' = [kind |-> "snapshot", covers |-> covers, root |-> Syncs!Fold(applied)]
        /\ UNCHANGED <<applied, journal, snapshot, answer, pulled, vector>>
    BY DEF Syncs!SignSnapshot, Syncs!follower
  <1>2. /\ applied \subseteq Syncs!Op /\ Chained(applied) /\ Honest(applied, vector, pulled)
        /\ Checkpoint(snapshot) /\ JournalIsWhole /\ AnswerIsSound
    BY DEF SyncInv
  <1>3. /\ \A a \in Author : covers[a] \in Nat
        /\ \A a \in Author : covers[a] = 0 \/ <<a, covers[a]>> \in applied
        /\ \A o \in applied : o[2] <= covers[o[1]]
    BY <1>2, VectorOfIsGreatest, OpsAre
  <1>4. covers \in [Author -> Nat]
    BY <1>3, VectorOfType
  <1>5. Seen(applied, covers) = applied
    <2>1. \A o \in applied : ~Syncs!Lacks(covers, o)
      <3> SUFFICES ASSUME NEW o \in applied PROVE ~Syncs!Lacks(covers, o)
        OBVIOUS
      <3>1. o[1] \in Author /\ o[2] \in 1..MaxHlc /\ MaxHlc \in Nat
        BY <1>2, OpsAre
      <3>2. QED
        BY <3>1, <1>3 DEF Syncs!Lacks
    <2>2. QED
      BY <2>1 DEF Seen
  <1> HIDE DEF covers
  <1>6. Honest(applied, covers, Syncs!Fold(applied))
    <2>1. Syncs!Fold(applied) \subseteq applied /\ Syncs!Fold(Syncs!Fold(applied)) = Syncs!Fold(applied)
      BY FoldOfFold
    <2>2. \A o \in applied : Cancels[o] \subseteq applied
      BY <1>2 DEF Chained
    <2>3. QED
      BY <2>1, <2>2, <1>3, <1>4, <1>5 DEF Honest
  <1>7. Checkpoint(signed)'
    BY <1>1, <1>6 DEF Checkpoint
  <1>8. JournalIsWhole'
    <2>1. CASE snapshot = Syncs!None
      BY <2>1, <1>1, <1>2 DEF JournalIsWhole
    <2>2. CASE snapshot # Syncs!None
      <3>1. Honest(applied, snapshot.covers, snapshot.root)
        BY <2>2, <1>2 DEF Checkpoint
      <3>2. \A a \in Author : snapshot.covers[a] <= covers[a]
        <4> SUFFICES ASSUME NEW a \in Author PROVE snapshot.covers[a] <= covers[a]
          OBVIOUS
        <4>1. snapshot.covers[a] = 0 \/ <<a, snapshot.covers[a]>> \in applied
          BY <3>1 DEF Honest
        <4>2. <<a, snapshot.covers[a]>> \in applied => snapshot.covers[a] <= covers[a]
          BY <1>3
        <4>3. QED
          BY <4>1, <4>2, <1>3
      <3>3. signed' # Syncs!None /\ signed'.covers = covers
        BY <1>1 DEF Syncs!None
      <3>4. QED
        BY <2>2, <3>2, <3>3, <1>1, <1>2 DEF JournalIsWhole
    <2>3. QED
      BY <2>1, <2>2
  <1>9. Checkpoint(snapshot)'
    BY <1>1, <1>2 DEF Checkpoint
  <1>10. AnswerIsSound'
    BY <1>1, <1>2 DEF AnswerIsSound
  <1>11. QED
    BY <1>1, <1>2, <1>7, <1>8, <1>9, <1>10 DEF SyncInv

LEMMA TruncateKeeps ==
    ASSUME Syncs!SyncAssumption, SyncInv, NEW cut \in Nat, Syncs!TruncateBelow(cut)
    PROVE  SyncInv'
  <1> DEFINE doomed == {o \in journal : o[2] < cut /\ o \notin Syncs!Retained}
  <1>1. /\ signed # Syncs!None /\ Syncs!Covers(doomed)
        /\ journal' = journal \ doomed /\ snapshot' = signed
        /\ UNCHANGED <<applied, signed, answer, pulled, vector>>
    BY DEF Syncs!TruncateBelow, Syncs!follower
  <1>2. /\ applied \subseteq Syncs!Op /\ journal \subseteq applied /\ Chained(applied)
        /\ Honest(applied, vector, pulled) /\ Checkpoint(signed)
        /\ Checkpoint(snapshot) /\ JournalIsWhole /\ AnswerIsSound
    BY DEF SyncInv
  <1> HIDE DEF doomed
  <1>3. \A o \in doomed : ~Syncs!Lacks(signed.covers, o)
    BY <1>1 DEF Syncs!Covers
  <1>4. signed.covers \in [Author -> Nat]
    BY <1>1, <1>2 DEF Checkpoint, Honest
  <1>5. \A o \in applied : Syncs!Lacks(signed.covers, o) => o \in journal
    <2> SUFFICES ASSUME NEW o \in applied, Syncs!Lacks(signed.covers, o) PROVE o \in journal
      OBVIOUS
    <2>1. CASE snapshot = Syncs!None
      BY <2>1, <1>2 DEF JournalIsWhole
    <2>2. CASE snapshot # Syncs!None
      <3>1. /\ \A a \in Author : snapshot.covers[a] <= signed.covers[a]
            /\ \A p \in applied : Syncs!Lacks(snapshot.covers, p) => p \in journal
        BY <2>2, <1>2 DEF JournalIsWhole
      <3>2. snapshot.covers \in [Author -> Nat]
        BY <2>2, <1>2 DEF Checkpoint, Honest
      <3>3. o[1] \in Author /\ o[2] \in 1..MaxHlc /\ MaxHlc \in Nat
        BY <1>2, OpsAre
      <3>4. Syncs!Lacks(snapshot.covers, o)
        <4>1. snapshot.covers[o[1]] \in Nat /\ signed.covers[o[1]] \in Nat
          BY <3>2, <3>3, <1>4
        <4>2. QED
          BY <3>1, <3>3, <4>1 DEF Syncs!Lacks
      <3>5. QED
        BY <3>1, <3>4
    <2>3. QED
      BY <2>1, <2>2
  <1>6. JournalIsWhole'
    <2>1. \A a \in Author : signed.covers[a] <= signed.covers[a]
      BY <1>4
    <2>2. QED
      BY <1>1, <1>3, <1>5, <2>1 DEF JournalIsWhole
  <1>7. Checkpoint(signed)' /\ Checkpoint(snapshot)'
    BY <1>1, <1>2 DEF Checkpoint
  <1>8. AnswerIsSound'
    BY <1>1, <1>2 DEF AnswerIsSound
  <1>9. QED
    BY <1>1, <1>2, <1>6, <1>7, <1>8 DEF SyncInv

\* Who is not behind the cut lacks nothing that was truncated.
LEMMA LackedIsJournalled ==
    ASSUME Syncs!SyncAssumption, SyncInv, ~Syncs!CallerIsBehindCut(vector)
    PROVE  \A o \in applied : Syncs!Lacks(vector, o) => o \in journal
  <1> SUFFICES ASSUME NEW o \in applied, Syncs!Lacks(vector, o) PROVE o \in journal
    OBVIOUS
  <1>1. /\ applied \subseteq Syncs!Op /\ Honest(applied, vector, pulled)
        /\ Checkpoint(snapshot) /\ JournalIsWhole
    BY DEF SyncInv
  <1>2. CASE snapshot = Syncs!None
    BY <1>2, <1>1 DEF JournalIsWhole
  <1>3. CASE snapshot # Syncs!None
    <2>1. snapshot.covers \in [Author -> Nat] /\ vector \in [Author -> Nat]
      BY <1>3, <1>1 DEF Checkpoint, Honest
    <2>2. o[1] \in Author /\ o[2] \in 1..MaxHlc /\ MaxHlc \in Nat
      BY <1>1, OpsAre
    <2>3. ~(vector[o[1]] < snapshot.covers[o[1]])
      BY <1>3, <2>2 DEF Syncs!CallerIsBehindCut
    <2>4. snapshot.covers[o[1]] \in Nat /\ vector[o[1]] \in Nat
      BY <2>1, <2>2
    <2>5. Syncs!Lacks(snapshot.covers, o)
      BY <2>2, <2>3, <2>4 DEF Syncs!Lacks
    <2>6. QED
      BY <2>5, <1>1, <1>3 DEF JournalIsWhole
  <1>4. QED
    BY <1>2, <1>3

LEMMA PullKeeps == ASSUME Syncs!SyncAssumption, SyncInv, Syncs!PullResponse PROVE SyncInv'
  <1>1. /\ answer' = Syncs!OpsAfter(vector)
        /\ UNCHANGED <<applied, journal, signed, snapshot, pulled, vector>>
    BY DEF Syncs!PullResponse, Syncs!server
  <1>2. /\ applied \subseteq Syncs!Op /\ journal \subseteq applied /\ Chained(applied)
        /\ Honest(applied, vector, pulled) /\ Checkpoint(signed)
        /\ Checkpoint(snapshot) /\ JournalIsWhole
    BY DEF SyncInv
  <1>3. AnswerIsSound'
    <2>1. CASE Syncs!CallerIsBehindCut(vector)
      <3>1. Honest(applied, snapshot.covers, snapshot.root)
        BY <2>1, <1>2 DEF Syncs!CallerIsBehindCut, Checkpoint
      <3>2. answer' = [kind |-> "join", covers |-> snapshot.covers, root |-> snapshot.root,
                       body |-> Inline]
        BY <2>1, <1>1 DEF Syncs!OpsAfter
      <3>3. snapshot.covers \in [Author -> Nat] /\ snapshot.root \subseteq Syncs!Op /\ Inline \in BOOLEAN
        BY <3>1, <1>2 DEF Honest, Seen, Syncs!SyncAssumption
      <3>4. answer' \in Join
        BY <3>2, <3>3 DEF Join
      <3>5. answer'.covers = snapshot.covers /\ answer'.root = snapshot.root
        BY <3>2
      <3>6. QED
        BY <3>1, <3>4, <3>5, <1>1 DEF AnswerIsSound
    <2>2. CASE ~Syncs!CallerIsBehindCut(vector)
      <3>1. answer' = [kind |-> "ops", ops |-> Syncs!Wanted(vector)]
        BY <2>2, <1>1 DEF Syncs!OpsAfter
      <3>2. /\ Syncs!Wanted(vector) \subseteq {o \in journal : Syncs!Lacks(vector, o)}
            /\ \A o \in Syncs!Wanted(vector) : \A p \in journal :
                  Syncs!Lacks(vector, p) /\ Syncs!Before(p, o) => p \in Syncs!Wanted(vector)
        BY <1>2, WantedIsOldest
      <3>3. \A o \in applied : Syncs!Lacks(vector, o) => o \in journal
        BY <2>2, <1>2, LackedIsJournalled
      <3>4. Complete(applied, vector, Syncs!Wanted(vector))
        <4> SUFFICES ASSUME NEW b \in Syncs!Wanted(vector), NEW o \in applied, Syncs!Lacks(vector, o),
                            (o[1] = b[1] /\ o[2] <= b[2]) \/ o \in Cancels[b]
                     PROVE  o \in Syncs!Wanted(vector)
          BY DEF Complete
        <4>1. /\ b \in Syncs!Op /\ o \in Syncs!Op /\ o \in journal
              /\ o = <<o[1], o[2]>> /\ b = <<b[1], b[2]>>
              /\ o[2] \in 1..MaxHlc /\ b[2] \in 1..MaxHlc /\ MaxHlc \in Nat
              /\ \A p \in Cancels[b] : p[2] < b[2]
          BY <1>2, <3>2, <3>3, OpsAre
        <4>2. o = b \/ o[2] < b[2]
          BY <4>1
        <4>3. o = b \/ Syncs!Before(o, b)
          BY <4>1, <4>2, BeforeOrders
        <4>4. QED
          BY <4>1, <4>3, <3>2
      <3>5. /\ answer'.kind = "ops" /\ answer'.ops = Syncs!Wanted(vector)
        BY <3>1
      <3>6. QED
        BY <3>2, <3>4, <3>5, <1>1, <1>2 DEF AnswerIsSound
    <2>3. QED
      BY <2>1, <2>2
  <1>4. Checkpoint(signed)' /\ Checkpoint(snapshot)' /\ JournalIsWhole'
    BY <1>1, <1>2 DEF Checkpoint, JournalIsWhole
  <1>5. QED
    BY <1>1, <1>2, <1>3, <1>4 DEF SyncInv

LEMMA StateKeeps == ASSUME Syncs!SyncAssumption, SyncInv, Syncs!StateResponse PROVE SyncInv'
  <1>1. /\ answer.kind = "join"
        /\ answer' = Syncs!None \/ answer' = [answer EXCEPT !.body = TRUE]
        /\ UNCHANGED <<applied, journal, signed, snapshot, pulled, vector>>
    BY DEF Syncs!StateResponse, Syncs!server
  <1>2. /\ applied \subseteq Syncs!Op /\ journal \subseteq applied /\ Chained(applied)
        /\ Honest(applied, vector, pulled) /\ Checkpoint(signed)
        /\ Checkpoint(snapshot) /\ JournalIsWhole /\ AnswerIsSound
    BY DEF SyncInv
  <1>3. answer \in Join /\ Honest(applied, answer.covers, answer.root)
    BY <1>1, <1>2 DEF AnswerIsSound, Syncs!None
  <1>4. AnswerIsSound'
    <2>1. CASE answer' = Syncs!None
      BY <2>1 DEF AnswerIsSound
    <2>2. CASE answer' = [answer EXCEPT !.body = TRUE]
      <3>1. answer' \in Join /\ answer'.covers = answer.covers /\ answer'.root = answer.root
        BY <2>2, <1>3 DEF Join
      <3>2. QED
        BY <3>1, <1>1, <1>3 DEF AnswerIsSound
    <2>3. QED
      BY <1>1, <2>1, <2>2
  <1>5. Checkpoint(signed)' /\ Checkpoint(snapshot)' /\ JournalIsWhole'
    BY <1>1, <1>2 DEF Checkpoint, JournalIsWhole
  <1>6. QED
    BY <1>1, <1>2, <1>4, <1>5 DEF SyncInv

\* A batch takes the follower's vector to just what it then has.
LEMMA BatchIsTakenIn ==
    ASSUME Syncs!SyncAssumption, SyncInv, NEW batch, batch \subseteq applied,
           \A o \in batch : Syncs!Lacks(vector, o), Complete(applied, vector, batch),
           NEW v, v = [a \in Author |-> IF Syncs!VectorOf(batch)[a] > vector[a]
                                        THEN Syncs!VectorOf(batch)[a] ELSE vector[a]]
    PROVE  Honest(applied, v, pulled \union batch)
  <1> DEFINE S == Seen(applied, vector)
  <1>1. /\ applied \subseteq Syncs!Op /\ Chained(applied) /\ batch \subseteq Syncs!Op
        /\ vector \in [Author -> Nat] /\ pulled \subseteq S /\ Syncs!Fold(pulled) = Syncs!Fold(S)
        /\ \A o \in S : Cancels[o] \subseteq S
        /\ \A a \in Author : vector[a] = 0 \/ <<a, vector[a]>> \in applied
    BY DEF SyncInv, Honest
  <1>2. /\ \A a \in Author : Syncs!VectorOf(batch)[a] \in Nat
        /\ \A a \in Author : Syncs!VectorOf(batch)[a] = 0 \/ <<a, Syncs!VectorOf(batch)[a]>> \in batch
        /\ \A a \in Author : \A o \in batch : o[1] = a => o[2] <= Syncs!VectorOf(batch)[a]
    BY <1>1, VectorOfIsGreatest
  <1>3. v \in [Author -> Nat] /\ \A a \in Author : v[a] = 0 \/ <<a, v[a]>> \in applied
    BY <1>1, <1>2
  <1>4. \A o \in applied : Syncs!Lacks(v, o) <=> o \notin batch /\ Syncs!Lacks(vector, o)
    <2> SUFFICES ASSUME NEW o \in applied
                 PROVE  Syncs!Lacks(v, o) <=> o \notin batch /\ Syncs!Lacks(vector, o)
      OBVIOUS
    <2> DEFINE a == o[1]
    <2>1. a \in Author /\ o[2] \in 1..MaxHlc /\ MaxHlc \in Nat /\ o = <<o[1], o[2]>>
      BY <1>1, OpsAre
    <2>2. v[a] = IF Syncs!VectorOf(batch)[a] > vector[a] THEN Syncs!VectorOf(batch)[a] ELSE vector[a]
      BY <2>1
    <2>3. vector[a] \in Nat /\ Syncs!VectorOf(batch)[a] \in Nat
      BY <2>1, <1>1, <1>2
    <2>4. o \in batch => o[2] <= Syncs!VectorOf(batch)[a]
      BY <2>1, <1>2
    <2>5. ASSUME o[2] <= Syncs!VectorOf(batch)[a], o[2] > vector[a] PROVE o \in batch
      <3> DEFINE top == <<a, Syncs!VectorOf(batch)[a]>>
      <3>1. top \in batch
        BY <2>5, <2>1, <2>3, <1>2
      <3>2. top[1] = a /\ top[2] = Syncs!VectorOf(batch)[a] /\ Syncs!Lacks(vector, o)
        BY <2>5 DEF Syncs!Lacks
      <3> HIDE DEF top
      <3>3. QED
        BY <3>1, <3>2, <2>5 DEF Complete
    <2>6. QED
      BY <2>1, <2>2, <2>3, <2>4, <2>5 DEF Syncs!Lacks
  <1>5. Seen(applied, v) = S \union batch
    BY <1>4 DEF Seen
  <1>6. batch \intersect S = {}
    BY DEF Seen
  <1>7. Spares(S, batch)
    BY <1>1, <1>6 DEF Spares
  <1>8. \A o \in S \union batch : Cancels[o] \subseteq S \union batch
    <2> SUFFICES ASSUME NEW o \in batch, NEW p \in Cancels[o] PROVE p \in S \union batch
      BY <1>1
    <2>1. p \in applied
      BY <1>1 DEF Chained
    <2>2. Syncs!Lacks(vector, p) => p \in batch
      BY <2>1 DEF Complete
    <2>3. QED
      BY <2>1, <2>2 DEF Seen
  <1> HIDE DEF S
  <1>9. Syncs!Fold(pulled \union batch) = Syncs!Fold(S \union batch)
    <2>1. pulled \subseteq S /\ Syncs!Fold(pulled) = Syncs!Fold(S)
      BY <1>1
    <2>2. QED
      BY <2>1, <1>7, FoldTakesMore
  <1>10. QED
    BY <1>1, <1>3, <1>5, <1>8, <1>9 DEF Honest

LEMMA ApplyKeeps == ASSUME Syncs!SyncAssumption, SyncInv, Syncs!Apply PROVE SyncInv'
  <1>1. /\ \/ /\ answer.kind = "ops"
              /\ pulled' = pulled \union answer.ops
              /\ vector' = [a \in Author |->
                    IF Syncs!VectorOf(answer.ops)[a] > vector[a] THEN Syncs!VectorOf(answer.ops)[a]
                    ELSE vector[a]]
           \/ answer.kind = "join" /\ pulled' = answer.root /\ vector' = answer.covers
        /\ answer' = Syncs!None
        /\ UNCHANGED <<applied, journal, signed, snapshot>>
    BY DEF Syncs!Apply, Syncs!server
  <1>2. /\ applied \subseteq Syncs!Op /\ journal \subseteq applied /\ Chained(applied)
        /\ Checkpoint(signed) /\ Checkpoint(snapshot) /\ JournalIsWhole /\ AnswerIsSound
    BY DEF SyncInv
  <1>3. Honest(applied, vector', pulled')
    <2>1. CASE answer.kind = "ops"
      <3>1. /\ answer.ops \subseteq applied /\ \A o \in answer.ops : Syncs!Lacks(vector, o)
            /\ Complete(applied, vector, answer.ops)
        BY <2>1, <1>2 DEF AnswerIsSound, Join, Syncs!None
      <3>2. QED
        BY <2>1, <3>1, <1>1, BatchIsTakenIn
    <2>2. CASE answer.kind = "join"
      <3>1. Honest(applied, answer.covers, answer.root)
        BY <2>2, <1>2 DEF AnswerIsSound, Syncs!None
      <3>2. QED
        BY <2>2, <3>1, <1>1
    <2>3. QED
      BY <1>1, <2>1, <2>2
  <1>4. Checkpoint(signed)' /\ Checkpoint(snapshot)' /\ JournalIsWhole'
    BY <1>1, <1>2 DEF Checkpoint, JournalIsWhole
  <1>5. AnswerIsSound'
    BY <1>1 DEF AnswerIsSound
  <1>6. QED
    BY <1>1, <1>2, <1>3, <1>4, <1>5 DEF SyncInv

LEMMA SyncInvStep == ASSUME Syncs!SyncAssumption, SyncInv, [Syncs!Next]_Syncs!vars PROVE SyncInv'
  <1>1. ASSUME NEW items \in Syncs!Batch, Syncs!Push(items) PROVE SyncInv'
    BY <1>1, PushKeeps
  <1>2. CASE Syncs!PullResponse
    BY <1>2, PullKeeps
  <1>3. CASE Syncs!StateResponse
    BY <1>3, StateKeeps
  <1>4. CASE Syncs!SignSnapshot
    BY <1>4, SignKeeps
  <1>5. ASSUME NEW cut \in 1..(MaxHlc + 1), Syncs!TruncateBelow(cut) PROVE SyncInv'
    <2>1. cut \in Nat
      BY DEF Syncs!SyncAssumption
    <2>2. QED
      BY <2>1, <1>5, TruncateKeeps
  <1>6. CASE Syncs!Apply
    BY <1>6, ApplyKeeps
  <1>7. CASE Syncs!Lose
    <2>1. answer' = Syncs!None /\ UNCHANGED <<applied, journal, signed, snapshot, pulled, vector>>
      BY <1>7 DEF Syncs!Lose, Syncs!server
    <2>2. QED
      BY <2>1 DEF SyncInv, Honest, Checkpoint, JournalIsWhole, AnswerIsSound
  <1>8. CASE UNCHANGED Syncs!vars
    <2>1. UNCHANGED <<applied, journal, signed, snapshot, answer, pulled, vector>>
      BY <1>8 DEF Syncs!vars, Syncs!server, Syncs!follower
    <2>2. QED
      BY <2>1 DEF SyncInv, Honest, Checkpoint, JournalIsWhole, AnswerIsSound
  <1>9. QED
    BY <1>1, <1>2, <1>3, <1>4, <1>5, <1>6, <1>7, <1>8 DEF Syncs!Next

LEMMA SyncInvSuffices == ASSUME Syncs!SyncAssumption, SyncInv PROVE Syncs!FollowerIsHonest
  <1>1. applied \subseteq Syncs!Op /\ journal \subseteq applied /\ Checkpoint(snapshot) /\ JournalIsWhole
    BY DEF SyncInv
  <1>2. Syncs!VectorIsHonest
    BY DEF SyncInv, Honest, Seen, Syncs!VectorIsHonest
  <1>3. ASSUME ~Syncs!CallerIsBehindCut(vector), Syncs!Wanted(vector) = {}
        PROVE  Syncs!Fold(pulled) = Syncs!Fold(applied)
    <2>1. \A o \in journal : ~Syncs!Lacks(vector, o)
      BY <1>1, <1>3, WantedIsOldest
    <2>2. \A o \in applied : ~Syncs!Lacks(vector, o)
      BY <2>1, <1>1, <1>3, LackedIsJournalled
    <2>3. {o \in applied : ~Syncs!Lacks(vector, o)} = applied
      BY <2>2
    <2>4. QED
      BY <2>3, <1>2 DEF Syncs!VectorIsHonest
  <1>4. QED
    BY <1>2, <1>3 DEF Syncs!FollowerIsHonest, Syncs!CaughtUpAgrees

\* A follower's vector says no more and no less than its state reflects, across batches,
\* truncations and fast joins, and one that is told there is nothing more agrees with the
\* server (syncserve.rs, truncate_below and ops_after), for every number of operations.
THEOREM FollowersStayHonest ==
    ASSUME Syncs!SyncAssumption
    PROVE  Syncs!Spec => []Syncs!FollowerIsHonest
  <1>1. Syncs!Init => SyncInv
    BY SyncInvInit
  <1>2. SyncInv /\ [Syncs!Next]_Syncs!vars => SyncInv'
    BY SyncInvStep
  <1>3. SyncInv => Syncs!FollowerIsHonest
    BY SyncInvSuffices
  <1>4. QED
    BY <1>1, <1>2, <1>3, PTL DEF Syncs!Spec

-----------------------------------------------------------------------------
(* From a name to a pinned key.                                            *)

CONSTANTS NameAddr, NameKey, Looks(_), Log, NeedQuorum, MaxNames, MaxResolve
VARIABLES identities, pins, directory, resolved

Names == INSTANCE Naming WITH
    Addr <- NameAddr, Key <- NameKey, Skeleton <- Looks, Quorum <- NeedQuorum, MaxIdentity <- MaxNames

IdentityVersion == [ik : NameKey, names : SUBSET NameAddr, prev : Nat]
NameEnd == {"mismatch", "revoked", "unverified", "quorum", "confusable", "ok", "chain"}
NameAnswer == [addr : NameAddr, id : Nat, end : NameEnd, by : SUBSET Log]

IdentitiesChained ==
    /\ identities \in Seq(IdentityVersion)
    /\ \A i \in Names!Ids : identities[i].prev # Names!None =>
           /\ identities[i].prev \in Names!Ids /\ identities[i].prev < i
           /\ identities[identities[i].prev].ik = identities[i].ik

\* What is known of an answer that was given.
AnswerStands(r) ==
    /\ r.id \in Names!Ids /\ r.by \subseteq Log
    /\ r.end \in {"ok", "chain"} => r.addr \in identities[r.id].names
    /\ r.end = "ok" => Names!KtVerified(r.by) /\ r.addr \in pins
    /\ r.end = "revoked" => \E j \in Names!Ids : /\ identities[j].ik = identities[r.id].ik
                                           /\ j < r.id /\ r.addr \in identities[j].names

PinsApart == \A p, q \in pins : Looks(p) = Looks(q) => p = q

SealsResolved ==
    /\ directory \in [NameKey -> Nat]
    /\ Names!SealedToResolved

NamingInv ==
    /\ IdentitiesChained /\ PinsApart /\ SealsResolved
    /\ resolved \in Seq(NameAnswer)
    /\ \A r \in Names!Past : AnswerStands(r)

\* One more hop from a set of identity versions.
HopFrom(S, mesh) == S \union ({identities[j].prev : j \in S} \intersect mesh)

\* What a walk along the predecessors holds after each hop.
HopRun(h, i, mesh, m) == [n \in 0..m |-> IF n = 0 THEN {i} ELSE HopFrom(h[n - 1], mesh)]

LEMMA HopRunExists ==
    ASSUME NEW i, NEW mesh, NEW m \in Nat
    PROVE  \E h : h = HopRun(h, i, mesh, m)
  <1> DEFINE F(h, k) == HopRun(h, i, mesh, k)
             G == {k \in Nat : \E h : h = F(h, k)}
  <1>1. 0 \in G
    <2> DEFINE z == [n \in 0..0 |-> {i}]
    <2>1. z = F(z, 0)
      <3>1. \A n \in 0..0 : n = 0
        OBVIOUS
      <3>2. QED
        BY <3>1 DEF HopRun
    <2>2. QED
      BY <2>1
  <1>2. \A k \in Nat : k \in G => k + 1 \in G
    <2> SUFFICES ASSUME NEW k \in Nat, NEW h, h = F(h, k)
                 PROVE  \E g : g = F(g, k + 1)
      OBVIOUS
    <2> DEFINE g == [n \in 0..(k + 1) |-> IF n = k + 1 THEN HopFrom(h[k], mesh) ELSE h[n]]
    <2>1. \A n \in 0..k : h[n] = IF n = 0 THEN {i} ELSE HopFrom(h[n - 1], mesh)
      BY DEF HopRun
    <2>2. \A n \in 0..k : g[n] = h[n]
      OBVIOUS
    <2>3. g[k + 1] = HopFrom(h[k], mesh)
      OBVIOUS
    <2>4. g = [n \in 0..(k + 1) |-> g[n]]
      OBVIOUS
    <2> HIDE DEF g
    <2>5. \A n \in 0..(k + 1) : g[n] = IF n = 0 THEN {i} ELSE HopFrom(g[n - 1], mesh)
      <3> SUFFICES ASSUME NEW n \in 0..(k + 1)
                   PROVE  g[n] = IF n = 0 THEN {i} ELSE HopFrom(g[n - 1], mesh)
        OBVIOUS
      <3>1. CASE n = k + 1
        <4>1. n # 0 /\ n - 1 = k /\ k \in 0..k
          BY <3>1
        <4>2. QED
          BY <4>1, <3>1, <2>2, <2>3
      <3>2. CASE n = 0
        <4>1. n \in 0..k
          BY <3>2
        <4>2. QED
          BY <4>1, <3>2, <2>1, <2>2
      <3>3. CASE n # 0 /\ n # k + 1
        <4>1. n \in 0..k /\ n - 1 \in 0..k
          BY <3>3
        <4>2. QED
          BY <4>1, <3>3, <2>1, <2>2
      <3>4. QED
        BY <3>1, <3>2, <3>3
    <2>6. g = F(g, k + 1)
      BY <2>4, <2>5 DEF HopRun
    <2>7. QED
      BY <2>6
  <1> HIDE DEF G
  <1>3. Nat \subseteq G
    BY <1>1, <1>2, NatSetInduction
  <1>4. m \in G
    BY <1>3
  <1>5. QED
    BY <1>4 DEF G

LEMMA WalkGoesBack ==
    ASSUME Names!NamingAssumption, IdentitiesChained, NEW i \in Names!Ids, NEW mesh \in SUBSET Names!Ids,
           NEW j \in Names!Walk(i, mesh)
    PROVE  j \in Names!Ids /\ j < i /\ identities[j].ik = identities[i].ik
  <1> DEFINE N == 0..MaxNames
             F(h) == HopRun(h, i, mesh, MaxNames)
             hop == CHOOSE h : h = F(h)
             Back == {k \in Names!Ids : k = i \/ (k < i /\ identities[k].ik = identities[i].ik)}
  <1>0. MaxNames \in Nat
    BY DEF Names!NamingAssumption
  <1>1. Names!Walk(i, mesh) = hop[MaxNames] \ {i}
    BY DEF Names!Walk, HopFrom, HopRun
  <1>2. hop = F(hop)
    <2>1. \E h : h = F(h)
      BY <1>0, HopRunExists
    <2> HIDE DEF F
    <2>2. QED
      BY <2>1
  <1>3. \A n \in N : hop[n] = IF n = 0 THEN {i} ELSE HopFrom(hop[n - 1], mesh)
    <2> HIDE DEF hop
    <2>1. QED
      BY <1>2 DEF HopRun
  <1>4. Names!Ids \subseteq Nat
    BY SeqIs DEF IdentitiesChained, Names!Ids
  <1>5. i \in Back
    OBVIOUS
  <1>6. \A S \in SUBSET Back : HopFrom(S, mesh) \subseteq Back
    <2> SUFFICES ASSUME NEW S \in SUBSET Back, NEW k \in S, identities[k].prev \in mesh
                 PROVE  identities[k].prev \in Back
      BY DEF HopFrom
    <2>1. identities[k].prev \in Names!Ids /\ identities[k].prev # Names!None
      <3>1. 0 \notin Names!Ids
        BY SeqIs DEF IdentitiesChained, Names!Ids
      <3>2. QED
        BY <3>1 DEF Names!None
    <2>2. k \in Names!Ids
      OBVIOUS
    <2>3. /\ identities[k].prev < k
          /\ identities[identities[k].prev].ik = identities[k].ik
      BY <2>1, <2>2 DEF IdentitiesChained
    <2>4. identities[k].prev \in Nat /\ k \in Nat /\ i \in Nat
      BY <2>1, <2>2, <1>4
    <2>5. k = i \/ (k < i /\ identities[k].ik = identities[i].ik)
      OBVIOUS
    <2>6. identities[k].prev < i /\ identities[identities[k].prev].ik = identities[i].ik
      BY <2>3, <2>4, <2>5
    <2>7. QED
      BY <2>1, <2>6
  <1> HIDE DEF Back, hop, F
  <1>7. \A n \in Nat : n \in N => hop[n] \subseteq Back
    <2> DEFINE G == {n \in Nat : n \in N => hop[n] \subseteq Back}
    <2>1. 0 \in G
      BY <1>0, <1>3, <1>5
    <2>2. \A n \in Nat : n \in G => n + 1 \in G
      <3> SUFFICES ASSUME NEW n \in Nat, n \in G, n + 1 \in N PROVE hop[n + 1] \subseteq Back
        <4> HIDE DEF N
        <4>1. QED
          OBVIOUS
      <3>1. n \in N /\ (n + 1) - 1 = n /\ n + 1 # 0
        BY <1>0
      <3>2. hop[n] \subseteq Back
        BY <3>1
      <3>3. hop[n + 1] = HopFrom(hop[n], mesh)
        BY <3>1, <1>3
      <3>4. QED
        BY <3>2, <3>3, <1>6
    <2> HIDE DEF G
    <2>3. Nat \subseteq G
      BY <2>1, <2>2, NatSetInduction
    <2>4. QED
      BY <2>3 DEF G
  <1>8. j \in Back /\ j # i
    <2>1. MaxNames \in N
      BY <1>0
    <2>2. QED
      BY <2>1, <1>0, <1>1, <1>7
  <1>9. QED
    BY <1>8 DEF Back

LEMMA LastOfIs ==
    ASSUME IdentitiesChained, NEW k
    PROVE  /\ Names!LastOf(k) \in Nat
           /\ Names!LastOf(k) # Names!None => Names!LastOf(k) \in Names!Ids /\ identities[Names!LastOf(k)].ik = k
  <1> DEFINE mine == {i \in Names!Ids : identities[i].ik = k}
  <1>1. PICK m \in Nat : Names!Ids = 1..m
    BY SeqIs DEF IdentitiesChained, Names!Ids
  <1>2. CASE mine = {}
    BY <1>2 DEF Names!LastOf, Names!None
  <1>3. CASE mine # {}
    <2>1. \E i \in mine : \A j \in mine : j <= i
      <3>1. mine \subseteq 0..m
        BY <1>1
      <3> HIDE DEF mine
      <3>2. QED
        BY <1>3, <3>1, GreatestOf
    <2>2. Names!LastOf(k) \in mine
      <3>1. Names!LastOf(k) = CHOOSE i \in mine : \A j \in mine : j <= i
        BY <1>3 DEF Names!LastOf
      <3> HIDE DEF mine
      <3>2. QED
        BY <2>1, <3>1
    <2>3. QED
      BY <1>1, <2>2
  <1>4. QED
    BY <1>2, <1>3

\* A sequence with one more entry.
LEMMA OneMore ==
    ASSUME NEW S, NEW s \in Seq(S), NEW e \in S
    PROVE  /\ Append(s, e) \in Seq(S)
           /\ DOMAIN Append(s, e) = DOMAIN s \union {Len(s) + 1}
           /\ \A n \in DOMAIN s : Append(s, e)[n] = s[n] /\ n < Len(s) + 1
           /\ Append(s, e)[Len(s) + 1] = e
           /\ Len(s) + 1 \in Nat \ {0} /\ Len(s) + 1 \notin DOMAIN s
  BY AppendProperties, LenProperties

LEMMA OneMoreAnswer ==
    ASSUME NEW e \in NameAnswer, resolved \in Seq(NameAnswer), resolved' = Append(resolved, e)
    PROVE  resolved' \in Seq(NameAnswer) /\ Names!Past' = Names!Past \union {e}
  <1>1. /\ resolved' \in Seq(NameAnswer)
        /\ DOMAIN resolved' = DOMAIN resolved \union {Len(resolved) + 1}
        /\ \A n \in DOMAIN resolved : resolved'[n] = resolved[n]
        /\ resolved'[Len(resolved) + 1] = e
    BY OneMore
  <1>2. QED
    BY <1>1 DEF Names!Past

LEMMA SignIdentityKeeps ==
    ASSUME NamingInv, NEW k \in NameKey, NEW names \in SUBSET NameAddr, Names!SignIdentity(k, names)
    PROVE  NamingInv'
  <1> DEFINE e == [ik |-> k, names |-> names, prev |-> Names!LastOf(k)]
             m == Len(identities) + 1
  <1>1. identities' = Append(identities, e) /\ UNCHANGED <<pins, directory, resolved>>
    BY DEF Names!SignIdentity
  <1>2. Names!LastOf(k) \in Nat /\ (Names!LastOf(k) # Names!None => Names!LastOf(k) \in Names!Ids /\ identities[Names!LastOf(k)].ik = k)
    BY LastOfIs DEF NamingInv
  <1>3. e \in IdentityVersion /\ e.ik = k /\ e.prev = Names!LastOf(k)
    BY <1>2 DEF IdentityVersion
  <1>4. identities \in Seq(IdentityVersion)
    BY DEF NamingInv, IdentitiesChained
  <1> HIDE DEF e, m
  <1>5. /\ identities' \in Seq(IdentityVersion) /\ Names!Ids' = Names!Ids \union {m}
        /\ \A n \in Names!Ids : identities'[n] = identities[n] /\ n < m
        /\ identities'[m] = e /\ m \notin Names!Ids
    BY <1>1, <1>3, <1>4, OneMore DEF Names!Ids, m
  <1>6. IdentitiesChained'
    <2>1. ASSUME NEW i \in Names!Ids', identities'[i].prev # Names!None
          PROVE  /\ identities'[i].prev \in Names!Ids' /\ identities'[i].prev < i
                 /\ identities'[identities'[i].prev].ik = identities'[i].ik
      <3>1. CASE i \in Names!Ids
        <4>1. identities[i].prev \in Names!Ids /\ identities[i].prev < i
              /\ identities[identities[i].prev].ik = identities[i].ik
          BY <3>1, <2>1, <1>5 DEF NamingInv, IdentitiesChained
        <4>2. QED
          BY <4>1, <3>1, <1>5
      <3>2. CASE i = m
        BY <3>2, <2>1, <1>2, <1>3, <1>5
      <3>3. QED
        BY <3>1, <3>2, <1>5
    <2>2. QED
      BY <1>5, <2>1 DEF IdentitiesChained
  <1>7. \A r \in Names!Past : AnswerStands(r)'
    <2> SUFFICES ASSUME NEW r \in Names!Past PROVE AnswerStands(r)'
      OBVIOUS
    <2>1. AnswerStands(r)
      BY DEF NamingInv
    <2>2. r.id \in Names!Ids /\ r.by \subseteq Log /\ r.id \in Names!Ids'
      BY <2>1, <1>5 DEF AnswerStands
    <2>3. (r.end \in {"ok", "chain"} => r.addr \in identities'[r.id].names)
      BY <2>1, <2>2, <1>5 DEF AnswerStands
    <2>4. (r.end = "ok" => Names!KtVerified(r.by)' /\ r.addr \in pins')
      BY <2>1, <1>1 DEF AnswerStands, Names!KtVerified, Names!QuorumMet
    <2>5. (r.end = "revoked" => \E j \in Names!Ids' : /\ identities'[j].ik = identities'[r.id].ik
                                                /\ j < r.id /\ r.addr \in identities'[j].names)
      <3>1. SUFFICES ASSUME r.end = "revoked"
                     PROVE  \E j \in Names!Ids' : /\ identities'[j].ik = identities'[r.id].ik
                                            /\ j < r.id /\ r.addr \in identities'[j].names
        OBVIOUS
      <3>2. PICK j \in Names!Ids : /\ identities[j].ik = identities[r.id].ik
                             /\ j < r.id /\ r.addr \in identities[j].names
        BY <2>1, <3>1 DEF AnswerStands
      <3>3. QED
        BY <3>2, <2>2, <1>5
    <2>6. QED
      BY <2>2, <2>3, <2>4, <2>5 DEF AnswerStands
  <1>8. Names!Past' = Names!Past /\ resolved' = resolved
    BY <1>1 DEF Names!Past
  <1>9. PinsApart' /\ SealsResolved'
    <2>1. PinsApart'
      BY <1>1 DEF NamingInv, PinsApart
    <2>2. directory' = directory
      BY <1>1
    <2>3. SealsResolved'
      BY <1>8, <2>2 DEF NamingInv, SealsResolved, Names!SealedToResolved
    <2>4. QED
      BY <2>1, <2>3
  <1>10. QED
    BY <1>6, <1>7, <1>8, <1>9 DEF NamingInv

LEMMA ResolveKeeps ==
    ASSUME Names!NamingAssumption, NamingInv, NEW a \in NameAddr, NEW txt \in [ik : NameKey, id : Names!Ids],
           NEW mesh \in SUBSET Names!Ids, NEW by \in SUBSET Log, NEW bundle \in Names!Ids \union {Names!None},
           Names!ResolveAndPin(a, txt, mesh, by, bundle)
    PROVE  NamingInv'
  <1> PICK ended : ended = Names!Outcome(a, txt, mesh, by)
    OBVIOUS
  <1> PICK e : e = [addr |-> a, id |-> txt.id, end |-> ended, by |-> by]
    OBVIOUS
  <1>0. /\ resolved' = Append(resolved, e)
        /\ pins' = IF ended = "ok" THEN pins \union {a} ELSE pins
        /\ directory' = IF ended = "ok" /\ Names!BundleMatches(txt.id, bundle)
                        THEN [directory EXCEPT ![txt.ik] = bundle] ELSE directory
    BY DEF Names!ResolveAndPin
  <1>1. identities' = identities /\ Names!Ids' = Names!Ids
    BY DEF Names!ResolveAndPin, Names!Ids
  <1>2. txt.ik \in NameKey /\ txt.id \in Names!Ids /\ Names!Ids \subseteq Nat
    <2>1. Names!Ids \subseteq Nat
      BY SeqIs DEF NamingInv, IdentitiesChained, Names!Ids
    <2>2. QED
      BY <2>1
  <1>3. ended \in NameEnd
    BY DEF Names!Outcome, NameEnd
  <1>4. e \in NameAnswer /\ e.addr = a /\ e.id = txt.id /\ e.end = ended /\ e.by = by
    BY <1>2, <1>3 DEF NameAnswer
  <1>5. ended = "ok" => Names!Claims(txt.id, a) /\ Names!KtVerified(by) /\ ~Names!Confusable(a)
    BY DEF Names!Outcome
  <1>6. ended = "revoked" => Names!AliasWasRevoked(txt.id, a, mesh)
    BY DEF Names!Outcome
  <1>7. ended # "chain"
    BY DEF Names!Outcome
  <1>8. resolved' \in Seq(NameAnswer) /\ Names!Past' = Names!Past \union {e}
    BY <1>0, <1>4, OneMoreAnswer DEF NamingInv
  <1>9. IdentitiesChained'
    BY <1>1, <1>2 DEF NamingInv, IdentitiesChained
  <1>10. \A r \in Names!Past : AnswerStands(r)'
    <2> SUFFICES ASSUME NEW r \in Names!Past PROVE AnswerStands(r)'
      OBVIOUS
    <2>1. AnswerStands(r)
      BY DEF NamingInv
    <2>2. (r.end = "ok" => Names!KtVerified(r.by)' /\ r.addr \in pins')
      BY <2>1, <1>0 DEF AnswerStands, Names!KtVerified, Names!QuorumMet
    <2>3. QED
      BY <2>1, <2>2, <1>1, <1>2 DEF AnswerStands
  <1>11. AnswerStands(e)'
    <2>1. e.id \in Names!Ids' /\ e.by \subseteq Log
      BY <1>1, <1>2, <1>4
    <2>2. e.end \in {"ok", "chain"} => e.addr \in identities'[e.id].names
      BY <1>1, <1>4, <1>5, <1>7 DEF Names!Claims
    <2>3. e.end = "ok" => Names!KtVerified(e.by)' /\ e.addr \in pins'
      BY <1>0, <1>4, <1>5 DEF Names!KtVerified, Names!QuorumMet
    <2>4. e.end = "revoked" => \E j \in Names!Ids' : /\ identities'[j].ik = identities'[e.id].ik
                                               /\ j < e.id /\ e.addr \in identities'[j].names
      <3>1. SUFFICES ASSUME ended = "revoked"
                     PROVE  \E j \in Names!Ids : /\ identities[j].ik = identities[txt.id].ik
                                           /\ j < txt.id /\ a \in identities[j].names
        BY <1>1, <1>2, <1>4
      <3>2. PICK j \in Names!Walk(txt.id, mesh) : Names!Claims(j, a)
        BY <1>6, <3>1 DEF Names!AliasWasRevoked
      <3>3. j \in Names!Ids /\ j < txt.id /\ identities[j].ik = identities[txt.id].ik
        BY <1>2, <3>2, WalkGoesBack DEF NamingInv
      <3>4. QED
        BY <3>2, <3>3 DEF Names!Claims
    <2>5. QED
      BY <2>1, <2>2, <2>3, <2>4 DEF AnswerStands
  <1>12. PinsApart'
    BY <1>0, <1>5 DEF NamingInv, PinsApart, Names!Confusable
  <1>13. SealsResolved'
    <2>1. directory \in [NameKey -> Nat] /\ Names!SealedToResolved
      BY DEF NamingInv, SealsResolved
    <2>2. CASE ended = "ok" /\ Names!BundleMatches(txt.id, bundle)
      <3>1. bundle = txt.id /\ bundle \in Nat
        BY <1>2, <2>2 DEF Names!BundleMatches
      <3>2. directory' = [directory EXCEPT ![txt.ik] = bundle]
        BY <1>0, <2>2
      <3>3. directory' \in [NameKey -> Nat]
        BY <2>1, <3>1, <3>2
      <3>4. \A k \in NameKey : k # txt.ik => directory'[k] = directory[k]
        BY <2>1, <3>2
      <3>5. directory'[txt.ik] = e.id /\ e.end = "ok"
        BY <1>2, <1>4, <2>1, <2>2, <3>1, <3>2
      <3>6. \A k \in NameKey : directory'[k] # Names!None =>
              \E r \in Names!Past' : r.end \in {"ok", "chain"} /\ r.id = directory'[k]
        BY <1>8, <2>1, <3>4, <3>5 DEF Names!SealedToResolved
      <3>7. QED
        BY <3>3, <3>6 DEF SealsResolved, Names!SealedToResolved
    <2>3. CASE ~(ended = "ok" /\ Names!BundleMatches(txt.id, bundle))
      <3>1. directory' = directory
        BY <1>0, <2>3
      <3>2. QED
        BY <1>8, <2>1, <3>1 DEF SealsResolved, Names!SealedToResolved
    <2>4. QED
      BY <2>2, <2>3
  <1>14. QED
    BY <1>8, <1>9, <1>10, <1>11, <1>12, <1>13 DEF NamingInv

LEMMA ChainKeeps ==
    ASSUME NamingInv, NEW a \in NameAddr, NEW record \in NameKey, NEW i \in Names!Ids,
           Names!ResolveNameChain(a, record, i)
    PROVE  NamingInv'
  <1> PICK e : e = [addr |-> a, id |-> i, end |-> "chain", by |-> {}]
    OBVIOUS
  <1> PICK k : k = identities[i].ik
    OBVIOUS
  <1>1. /\ resolved' = Append(resolved, e) /\ Names!Claims(i, a)
        /\ directory' = [directory EXCEPT ![k] = i]
        /\ identities' = identities /\ pins' = pins
    BY DEF Names!ResolveNameChain, Names!ChainBinds
  <1>2. k \in NameKey /\ Names!Ids \subseteq Nat /\ Names!Ids' = Names!Ids
    <2>1. identities \in Seq(IdentityVersion)
      BY DEF NamingInv, IdentitiesChained
    <2>2. identities[i] \in IdentityVersion /\ Names!Ids \subseteq Nat
      BY <2>1, SeqIs DEF Names!Ids
    <2>3. Names!Ids' = Names!Ids
      BY <1>1 DEF Names!Ids
    <2>4. k \in NameKey
      BY <2>2 DEF IdentityVersion
    <2>5. QED
      BY <2>2, <2>3, <2>4
  <1>3. e \in NameAnswer /\ e.addr = a /\ e.id = i /\ e.end = "chain" /\ e.by = {}
    BY <1>2 DEF NameAnswer, NameEnd
  <1>4. resolved' \in Seq(NameAnswer) /\ Names!Past' = Names!Past \union {e}
    BY <1>1, <1>3, OneMoreAnswer DEF NamingInv
  <1>5. IdentitiesChained'
    BY <1>1, <1>2 DEF NamingInv, IdentitiesChained
  <1>6. \A r \in Names!Past : AnswerStands(r)'
    <2> SUFFICES ASSUME NEW r \in Names!Past PROVE AnswerStands(r)'
      OBVIOUS
    <2>1. AnswerStands(r)
      BY DEF NamingInv
    <2>2. (r.end = "ok" => Names!KtVerified(r.by)' /\ r.addr \in pins')
      BY <2>1, <1>1 DEF AnswerStands, Names!KtVerified, Names!QuorumMet
    <2>3. QED
      BY <2>1, <2>2, <1>1, <1>2 DEF AnswerStands
  <1>7. AnswerStands(e)'
    BY <1>1, <1>2, <1>3 DEF AnswerStands, Names!Claims
  <1>8. PinsApart'
    BY <1>1 DEF NamingInv, PinsApart
  <1>9. SealsResolved'
    <2>1. directory \in [NameKey -> Nat] /\ Names!SealedToResolved
      BY DEF NamingInv, SealsResolved
    <2>2. directory' \in [NameKey -> Nat] /\ directory'[k] = i
      BY <1>1, <1>2, <2>1
    <2>3. \A j \in NameKey : j # k => directory'[j] = directory[j]
      BY <1>1, <2>1
    <2>4. \A j \in NameKey : directory'[j] # Names!None =>
            \E r \in Names!Past' : r.end \in {"ok", "chain"} /\ r.id = directory'[j]
      BY <1>3, <1>4, <2>1, <2>2, <2>3 DEF Names!SealedToResolved
    <2>5. QED
      BY <2>2, <2>4 DEF SealsResolved, Names!SealedToResolved
  <1>10. QED
    BY <1>4, <1>5, <1>6, <1>7, <1>8, <1>9 DEF NamingInv

LEMMA NamingStep == ASSUME Names!NamingAssumption, NamingInv, [Names!Next]_Names!vars PROVE NamingInv'
  <1>1. ASSUME NEW k \in NameKey, NEW names \in SUBSET NameAddr, Names!SignIdentity(k, names) PROVE NamingInv'
    BY <1>1, SignIdentityKeeps
  <1>2. ASSUME NEW a \in NameAddr, NEW txt \in [ik : NameKey, id : Names!Ids], NEW mesh \in SUBSET Names!Ids,
               NEW by \in SUBSET Log, NEW bundle \in Names!Ids \union {Names!None},
               Names!ResolveAndPin(a, txt, mesh, by, bundle)
        PROVE  NamingInv'
    BY <1>2, ResolveKeeps
  <1>3. ASSUME NEW a \in NameAddr, NEW record \in NameKey, NEW i \in Names!Ids, Names!ResolveNameChain(a, record, i)
        PROVE  NamingInv'
    BY <1>3, ChainKeeps
  <1>4. CASE UNCHANGED Names!vars
    <2>1. UNCHANGED <<identities, pins, directory, resolved>>
      BY <1>4 DEF Names!vars
    <2>2. Names!Ids' = Names!Ids /\ Names!Past' = Names!Past
      BY <2>1 DEF Names!Ids, Names!Past
    <2>3. IdentitiesChained' /\ PinsApart'
      BY <2>1, <2>2 DEF NamingInv, IdentitiesChained, PinsApart
    <2>4. SealsResolved'
      BY <2>1, <2>2 DEF NamingInv, SealsResolved, Names!SealedToResolved
    <2>5. \A r \in Names!Past' : AnswerStands(r)'
      BY <2>1, <2>2 DEF NamingInv, AnswerStands, Names!KtVerified, Names!QuorumMet
    <2>6. QED
      BY <2>1, <2>3, <2>4, <2>5 DEF NamingInv
  <1>5. QED
    BY <1>1, <1>2, <1>3, <1>4 DEF Names!Next

LEMMA SameLogCardinality ==
    \A S : Names!Cardinality(S) = Cardinality(S) /\ (Names!IsFiniteSet(S) <=> IsFiniteSet(S))
  BY DEF Names!Cardinality, Cardinality, Names!IsFiniteSet, IsFiniteSet

\* Two quorums of the pinned logs share one.
LEMMA LogQuorumsMeet ==
    ASSUME IsFiniteSet(Log), NEW S \in SUBSET Log, NEW T \in SUBSET Log,
           Names!QuorumMet(S), Names!QuorumMet(T)
    PROVE  S \intersect T # {}
  BY FS_MajoritiesIntersect, FS_CardinalityType, FS_Subset, SameLogCardinality DEF Names!QuorumMet

LEMMA NamingFollows == ASSUME Names!NamingAssumption, NamingInv PROVE Names!NamesAreSound
  <1>1. Names!ConflictsAreVisible
    <2>1. ASSUME NeedQuorum, NEW r \in Names!Past, NEW s \in Names!Past, Names!Ok(r), Names!Ok(s)
          PROVE  r.by \intersect s.by # {}
      <3>1. Names!QuorumMet(r.by) /\ Names!QuorumMet(s.by) /\ r.by \subseteq Log /\ s.by \subseteq Log
        BY <2>1 DEF NamingInv, AnswerStands, Names!Ok, Names!KtVerified
      <3>2. QED
        BY <3>1, LogQuorumsMeet, SameLogCardinality DEF Names!NamingAssumption
    <2>2. QED
      BY <2>1 DEF Names!ConflictsAreVisible
  <1>2. Names!NoLookAlikes
    BY DEF Names!NoLookAlikes, NamingInv, PinsApart, AnswerStands, Names!Ok
  <1>3. Names!AnswersAreClaimed
    BY DEF Names!AnswersAreClaimed, NamingInv, AnswerStands
  <1>4. Names!SealedToResolved
    BY DEF NamingInv, SealsResolved
  <1>5. QED
    BY <1>1, <1>2, <1>3, <1>4 DEF Names!NamesAreSound

LEMMA NamingStarts == ASSUME Names!Init PROVE NamingInv
  <1>1. Names!Ids = {} /\ Names!Past = {} /\ identities \in Seq(IdentityVersion) /\ resolved \in Seq(NameAnswer)
    BY DEF Names!Init, Names!Ids, Names!Past
  <1>2. directory \in [NameKey -> Nat] /\ \A k \in NameKey : directory[k] = Names!None
    BY DEF Names!Init, Names!None
  <1>3. IdentitiesChained /\ PinsApart
    BY <1>1 DEF IdentitiesChained, PinsApart, Names!Init
  <1>4. SealsResolved
    BY <1>2 DEF SealsResolved, Names!SealedToResolved
  <1>5. QED
    BY <1>1, <1>3, <1>4 DEF NamingInv

\* What a name gives is attested by a quorum of the pinned logs, listed by the identity it is
\* of and unlike any other pinned name, and mail is sealed to a version that was resolved
\* (resolver.rs, kt.rs, Node::resolve_and_pin), for all logs, keys and numbers of versions.
THEOREM NamesStaySound ==
    ASSUME Names!NamingAssumption
    PROVE  Names!Spec => []Names!NamesAreSound
  <1>1. Names!Init => NamingInv
    BY NamingStarts
  <1>2. NamingInv /\ [Names!Next]_Names!vars => NamingInv'
    BY NamingStep
  <1>3. NamingInv => Names!NamesAreSound
    BY NamingFollows
  <1>4. QED
    BY <1>1, <1>2, <1>3, PTL DEF Names!Spec

-----------------------------------------------------------------------------
(* The kinds of name, petnames and what several resolvers answer.          *)

CONSTANTS Spelling, Canonical(_), Unspellable, Skeleton(_), Form(_), Key, KeyName(_), MaxAnswers
VARIABLES book, enabled, keyring, contacts, answers

Sources == INSTANCE NameSources WITH Bad <- Unspellable, directory <- keyring

\* The keys that vote in the first n answers.
VotedIn(as, n) == {as[i].key : i \in {j \in 1..n : Sources!Votes(as[j])}}

AnswerRec == [key : Key \union {Sources!NoKey}, verified : BOOLEAN]

SourceTypes ==
    /\ answers \in Seq(AnswerRec)
    /\ \A c \in contacts : \E s \in Spelling : Canonical(s) = KeyName(c) /\ Form(s) = "self"
    /\ \A e, f \in book : Skeleton(e.pet) = Skeleton(f.pet) => e = f

\* What a reconciliation comes to, by the keys that voted.
Verdict(voted) ==
    IF voted = {} THEN [end |-> "miss", ik |-> Sources!NoKey]
    ELSE IF \E k \in voted : voted = {k} THEN [end |-> "ok", ik |-> CHOOSE k \in voted : TRUE]
    ELSE [end |-> "disagree", ik |-> Sources!NoKey]

LEMMA VerdictIs ==
    ASSUME NEW voted, Sources!NoKey \notin voted
    PROVE  /\ Verdict(voted).end = "miss" <=> voted = {}
           /\ \A k : voted = {k} <=> Verdict(voted).end = "ok" /\ Verdict(voted).ik = k
           /\ Verdict(voted).end = "disagree" <=> voted # {} /\ \A k : voted # {k}
           /\ Verdict(voted).end \in {"miss", "ok", "disagree"}
           /\ voted = {} => Verdict(voted) = [end |-> "miss", ik |-> Sources!NoKey]
           /\ \A k : voted = {k} => Verdict(voted) = [end |-> "ok", ik |-> k]
           /\ voted # {} /\ (\A k : voted # {k}) => Verdict(voted) = [end |-> "disagree", ik |-> Sources!NoKey]
  <1>1. CASE voted = {}
    BY <1>1 DEF Verdict
  <1>2. ASSUME NEW k, voted = {k} PROVE Verdict(voted) = [end |-> "ok", ik |-> k]
    <2>1. \E j \in voted : voted = {j}
      BY <1>2
    <2>2. (CHOOSE j \in voted : TRUE) = k
      BY <1>2
    <2>3. QED
      BY <2>1, <2>2, <1>2 DEF Verdict
  <1>3. ASSUME voted # {}, \A k : voted # {k}
        PROVE  Verdict(voted) = [end |-> "disagree", ik |-> Sources!NoKey]
    BY <1>3 DEF Verdict
  <1>4. (\E k : voted = {k}) \/ voted = {} \/ (voted # {} /\ \A k : voted # {k})
    OBVIOUS
  <1>5. CASE \E k : voted = {k}
    <2>1. PICK k : voted = {k}
      BY <1>5
    <2>2. Verdict(voted) = [end |-> "ok", ik |-> k]
      BY <2>1, <1>2
    <2>3. \A j : voted = {j} <=> j = k
      BY <2>1
    <2>4. voted # {} /\ Verdict(voted).end = "ok" /\ Verdict(voted).ik = k
      BY <2>1, <2>2
    <2> HIDE DEF Verdict
    <2>5. QED
      BY <2>2, <2>3, <2>4
  <1>6. CASE voted # {} /\ \A k : voted # {k}
    BY <1>3, <1>6
  <1>7. QED
    BY <1>1, <1>4, <1>5, <1>6

\* One more answer.
OneVote(acc, a) ==
    IF acc.end = "disagree" \/ ~Sources!Votes(a) THEN acc
    ELSE IF acc.end = "ok" /\ acc.ik # a.key THEN [end |-> "disagree", ik |-> Sources!NoKey]
    ELSE [end |-> "ok", ik |-> a.key]

LEMMA OneMoreVote ==
    ASSUME NEW as, NEW n \in Nat, n > 0
    PROVE  Verdict(VotedIn(as, n)) = OneVote(Verdict(VotedIn(as, n - 1)), as[n])
  <1> DEFINE old == VotedIn(as, n - 1)
             new == VotedIn(as, n)
  <1>1. Sources!NoKey \notin old /\ Sources!NoKey \notin new
    BY DEF VotedIn, Sources!Votes
  <1>2. \A j : j \in 1..n <=> j \in 1..(n - 1) \/ j = n
    OBVIOUS
  <1>3. ~Sources!Votes(as[n]) => new = old
    BY <1>2 DEF VotedIn
  <1>4. Sources!Votes(as[n]) => new = old \union {as[n].key}
    BY <1>2 DEF VotedIn
  <1> SUFFICES Verdict(new) = OneVote(Verdict(old), as[n])
    OBVIOUS
  <1> HIDE DEF old, new
  <1>5. CASE ~Sources!Votes(as[n])
    BY <1>5, <1>3 DEF OneVote
  <1>6. CASE Sources!Votes(as[n])
    <2> DEFINE k == as[n].key
    <2>1. CASE old = {}
      <3>1. new = {k} /\ Verdict(old) = [end |-> "miss", ik |-> Sources!NoKey]
        BY <2>1, <1>1, <1>4, <1>6, VerdictIs
      <3>2. Verdict(new) = [end |-> "ok", ik |-> k]
        BY <3>1, <1>1, VerdictIs
      <3>3. QED
        BY <3>1, <3>2, <1>6 DEF OneVote
    <2>2. CASE \E j : old = {j}
      <3>1. PICK j : old = {j}
        BY <2>2
      <3>2. Verdict(old) = [end |-> "ok", ik |-> j]
        BY <3>1, <1>1, VerdictIs
      <3>3. CASE j = k
        <4>1. new = {k}
          BY <3>1, <3>3, <1>4, <1>6
        <4>2. Verdict(new) = [end |-> "ok", ik |-> k]
          BY <4>1, <1>1, VerdictIs
        <4>3. QED
          BY <3>2, <3>3, <4>2, <1>6 DEF OneVote
      <3>4. CASE j # k
        <4>1. new = {j, k}
          BY <3>1, <1>4, <1>6
        <4>2. new # {} /\ \A i : new # {i}
          <5>1. j \in new /\ k \in new
            BY <4>1
          <5> HIDE DEF k
          <5>2. \A i : new = {i} => j = i /\ k = i
            BY <5>1
          <5>3. QED
            BY <5>1, <5>2, <3>4
        <4>3. Verdict(new) = [end |-> "disagree", ik |-> Sources!NoKey]
          BY <4>2, <1>1, VerdictIs
        <4>4. QED
          BY <3>2, <3>4, <4>3, <1>6 DEF OneVote
      <3>5. QED
        BY <3>3, <3>4
    <2>3. CASE old # {} /\ \A j : old # {j}
      <3>1. Verdict(old) = [end |-> "disagree", ik |-> Sources!NoKey]
        BY <2>3, <1>1, VerdictIs
      <3>2. new # {} /\ \A i : new # {i}
        <4>1. PICK i \in old : TRUE
          BY <2>3
        <4>2. PICK j \in old : j # i
          BY <2>3, <4>1, SMTT(30)
        <4>3. i \in new /\ j \in new
          BY <4>1, <4>2, <1>4, <1>6
        <4>4. QED
          BY <4>2, <4>3
      <3>3. Verdict(new) = [end |-> "disagree", ik |-> Sources!NoKey]
        BY <3>2, <1>1, VerdictIs
      <3>4. QED
        BY <3>1, <3>3, <1>6 DEF OneVote
    <2>4. QED
      BY <2>1, <2>2, <2>3
  <1>7. QED
    BY <1>5, <1>6

\* The recursion over the answers has the verdict on those that voted.
LEMMA ReconcileIsVerdict ==
    ASSUME NEW as, NEW m \in Nat, Len(as) = m
    PROVE  Sources!Reconcile(as) = Verdict(VotedIn(as, m))
  <1> DEFINE N == 0..m
             F(h) == [n \in N |->
                        IF n = 0 THEN [end |-> "miss", ik |-> Sources!NoKey]
                        ELSE IF h[n - 1].end = "disagree" \/ ~Sources!Votes(as[n]) THEN h[n - 1]
                        ELSE IF h[n - 1].end = "ok" /\ h[n - 1].ik # as[n].key
                             THEN [end |-> "disagree", ik |-> Sources!NoKey]
                        ELSE [end |-> "ok", ik |-> as[n].key]]
             V == [n \in N |-> Verdict(VotedIn(as, n))]
             upTo == CHOOSE h : h = F(h)
  <1>1. Sources!Reconcile(as) = upTo[m]
    BY DEF Sources!Reconcile
  <1>2. \A h : \A n \in N : F(h)[n] = IF n = 0 THEN [end |-> "miss", ik |-> Sources!NoKey]
                                      ELSE OneVote(h[n - 1], as[n])
    BY DEF OneVote
  <1>3. V[0] = [end |-> "miss", ik |-> Sources!NoKey]
    <2>1. VotedIn(as, 0) = {}
      BY DEF VotedIn
    <2>2. 0 \in N
      OBVIOUS
    <2>3. QED
      BY <2>1, <2>2 DEF Verdict
  <1>4. \A n \in N : n # 0 => n - 1 \in N /\ V[n] = OneVote(V[n - 1], as[n])
    <2> SUFFICES ASSUME NEW n \in N, n # 0
                 PROVE  n - 1 \in N /\ V[n] = OneVote(V[n - 1], as[n])
      OBVIOUS
    <2>1. n \in Nat /\ n > 0 /\ n - 1 \in N
      OBVIOUS
    <2>2. Verdict(VotedIn(as, n)) = OneVote(Verdict(VotedIn(as, n - 1)), as[n])
      BY <2>1, OneMoreVote
    <2>3. QED
      BY <2>1, <2>2
  <1>5. V = F(V)
    <2>1. \A n \in N : V[n] = F(V)[n]
      <3> SUFFICES ASSUME NEW n \in N PROVE V[n] = F(V)[n]
        OBVIOUS
      <3> HIDE DEF V, F, N
      <3>1. QED
        BY <1>2, <1>3, <1>4
    <2>2. DOMAIN V = N /\ DOMAIN F(V) = N
      OBVIOUS
    <2>3. V = [n \in N |-> V[n]]
      OBVIOUS
    <2>4. F(V) = [n \in N |-> F(V)[n]]
      <3> HIDE DEF V
      <3>1. QED
        OBVIOUS
    <2> HIDE DEF V, F
    <2>5. QED
      BY <2>1, <2>3, <2>4
  <1>6. upTo = F(upTo)
    <2> HIDE DEF V, F
    <2>1. QED
      BY <1>5
  <1>7. \A n \in Nat : n \in N => upTo[n] = V[n]
    <2> DEFINE G == {n \in Nat : n \in N => upTo[n] = V[n]}
    <2>0. \A n \in N : upTo[n] = F(upTo)[n]
      BY <1>6
    <2> HIDE DEF V, F, upTo
    <2>1. 0 \in G
      <3>1. 0 \in N
        OBVIOUS
      <3> HIDE DEF N
      <3>2. QED
        BY <3>1, <2>0, <1>2, <1>3
    <2>2. \A n \in Nat : n \in G => n + 1 \in G
      <3> SUFFICES ASSUME NEW n \in Nat, n \in G, n + 1 \in N PROVE upTo[n + 1] = V[n + 1]
        OBVIOUS
      <3>1. n \in N /\ (n + 1) - 1 = n /\ n + 1 # 0
        OBVIOUS
      <3>2. upTo[n] = V[n]
        BY <3>1
      <3> HIDE DEF N, G
      <3>3. upTo[n + 1] = OneVote(upTo[n], as[n + 1])
        BY <3>1, <2>0, <1>2
      <3>4. V[n + 1] = OneVote(V[n], as[n + 1])
        BY <3>1, <1>4
      <3>5. QED
        BY <3>2, <3>3, <3>4
    <2> HIDE DEF G
    <2>3. Nat \subseteq G
      BY <2>1, <2>2, NatSetInduction
    <2>4. QED
      BY <2>3, SMTT(30) DEF G
  <1>8. V[m] = Verdict(VotedIn(as, m))
    OBVIOUS
  <1>9. m \in N
    OBVIOUS
  <1> HIDE DEF V, upTo, N, F
  <1>10. QED
    BY <1>1, <1>7, <1>8, <1>9

LEMMA FunSeq ==
    ASSUME NEW S, NEW m \in Nat, NEW f \in [1..m -> S]
    PROVE  f \in Seq(S) /\ Len(f) = m
  BY IsASeq, LenProperties

LEMMA VotersAre ==
    ASSUME NEW as \in Seq(AnswerRec)
    PROVE  {as[n].key : n \in {m \in DOMAIN as : as[m].verified}} \ {Sources!NoKey} = VotedIn(as, Len(as))
  <1>1. PICK k \in Nat : k = Len(as) /\ DOMAIN as = 1..k
    BY SeqIs
  <1>2. {as[n].key : n \in {m \in 1..k : as[m].verified}} \ {Sources!NoKey} = VotedIn(as, k)
    BY DEF VotedIn, Sources!Votes
  <1>3. QED
    BY <1>1, <1>2

LEMMA SwappedVoteAlike ==
    ASSUME NEW as \in Seq(AnswerRec), NEW m \in DOMAIN as, NEW n \in DOMAIN as
    PROVE  Sources!Reconcile([as EXCEPT ![m] = as[n], ![n] = as[m]]) = Sources!Reconcile(as)
  <1> DEFINE bs == [as EXCEPT ![m] = as[n], ![n] = as[m]]
  <1>1. PICK k \in Nat : k = Len(as) /\ DOMAIN as = 1..k /\ as \in [1..k -> AnswerRec]
    BY SeqIs
  <1>2. bs \in [1..k -> AnswerRec]
    BY <1>1
  <1>3. \A i \in 1..k : bs[i] = IF i = n THEN as[m] ELSE IF i = m THEN as[n] ELSE as[i]
    BY <1>1
  <1> HIDE DEF bs
  <1>4. Len(bs) = k
    BY <1>2, FunSeq
  <1>5. VotedIn(bs, k) = VotedIn(as, k)
    <2>1. \A i \in 1..k : \E j \in 1..k : bs[i] = as[j]
      BY <1>1, <1>3
    <2>2. \A i \in 1..k : \E j \in 1..k : as[i] = bs[j]
      BY <1>1, <1>3
    <2>3. VotedIn(bs, k) \subseteq VotedIn(as, k)
      BY <2>1 DEF VotedIn
    <2>4. VotedIn(as, k) \subseteq VotedIn(bs, k)
      BY <2>2 DEF VotedIn
    <2>5. QED
      BY <2>3, <2>4
  <1>6. Sources!Reconcile(bs) = Verdict(VotedIn(bs, k)) /\ Sources!Reconcile(as) = Verdict(VotedIn(as, k))
    BY <1>1, <1>4, ReconcileIsVerdict
  <1>7. Sources!Reconcile(bs) = Sources!Reconcile(as)
    BY <1>5, <1>6
  <1>8. QED
    BY <1>7 DEF bs

LEMMA SourceStep == ASSUME Sources!SourcesAssumption, SourceTypes, [Sources!Next]_Sources!vars PROVE SourceTypes'
  <1>1. CASE Sources!EnableNameChain
    BY <1>1 DEF Sources!EnableNameChain, SourceTypes
  <1>2. ASSUME NEW s \in Spelling, NEW k \in Key, Sources!Assign(s, k) PROVE SourceTypes'
    <2> DEFINE pet == Canonical(s)
               new == [pet |-> pet, ik |-> k]
    <2>1. /\ Sources!FindConfusable(pet) = {}
          /\ book' = {e \in book : e.pet # pet} \union {new}
          /\ UNCHANGED <<contacts, answers>>
      BY <1>2 DEF Sources!Assign
    <2>2. \A e \in book : e.pet # pet => Skeleton(e.pet) # Skeleton(pet)
      BY <2>1 DEF Sources!FindConfusable, Sources!Petnames
    <2>3. new.pet = pet
      OBVIOUS
    <2> HIDE DEF pet, new
    <2>4. \A e, f \in book' : Skeleton(e.pet) = Skeleton(f.pet) => e = f
      BY <2>1, <2>2, <2>3 DEF SourceTypes
    <2>5. QED
      BY <2>1, <2>4 DEF SourceTypes
  <1>3. ASSUME NEW s \in Spelling, Sources!ResolveKeyName(s) PROVE SourceTypes'
    <2>1. PICK k \in keyring : KeyName(k) = Canonical(s) /\ contacts' = contacts \union {k}
      BY <1>3 DEF Sources!ResolveKeyName
    <2>2. Form(s) = "self" /\ UNCHANGED <<book, answers>>
      BY <1>3 DEF Sources!ResolveKeyName, Sources!Routes
    <2>3. \A c \in contacts' : \E t \in Spelling : Canonical(t) = KeyName(c) /\ Form(t) = "self"
      BY <2>1, <2>2 DEF SourceTypes
    <2>4. QED
      BY <2>2, <2>3 DEF SourceTypes
  <1>4. ASSUME NEW k \in Key, Sources!LearnKey(k) PROVE SourceTypes'
    BY <1>4 DEF Sources!LearnKey, SourceTypes
  <1>5. ASSUME NEW k \in Key \union {Sources!NoKey}, NEW v \in BOOLEAN, Sources!Answer(k, v) PROVE SourceTypes'
    <2>1. [key |-> k, verified |-> v] \in AnswerRec
      BY DEF AnswerRec
    <2>2. answers' = Append(answers, [key |-> k, verified |-> v]) /\ UNCHANGED <<book, contacts>>
      BY <1>5 DEF Sources!Answer
    <2>3. answers' \in Seq(AnswerRec)
      BY <2>1, <2>2 DEF SourceTypes
    <2>4. QED
      BY <2>2, <2>3 DEF SourceTypes
  <1>6. CASE UNCHANGED Sources!vars
    BY <1>6 DEF Sources!vars, SourceTypes
  <1>7. QED
    BY <1>1, <1>2, <1>3, <1>4, <1>5, <1>6 DEF Sources!Next

LEMMA SourcesFollow == ASSUME SourceTypes PROVE Sources!SourcesAreSound
  <1>1. Sources!NamesAreUnambiguous
    <2>1. \A p, q \in Sources!Petnames : Skeleton(p) = Skeleton(q) => p = q
      BY DEF SourceTypes, Sources!Petnames
    <2>2. ASSUME NEW s \in Spelling, NEW t \in Spelling,
                 Skeleton(Canonical(s)) = Skeleton(Canonical(t)), Sources!ResolvePetname(t) # {}
          PROVE  Sources!ResolvePetname(s) \subseteq Sources!ResolvePetname(t)
      <3>1. PICK f \in book : f.pet = Canonical(t)
        BY <2>2 DEF Sources!ResolvePetname
      <3>2. \A e \in book : e.pet = Canonical(s) => e = f
        BY <3>1, <2>2 DEF SourceTypes
      <3>3. QED
        BY <3>1, <3>2 DEF Sources!ResolvePetname
    <2>3. \A c \in contacts : \E s \in Spelling : Canonical(s) = KeyName(c) /\ Form(s) = "self"
      BY DEF SourceTypes
    <2>4. QED
      BY <2>1, <2>2, <2>3 DEF Sources!NamesAreUnambiguous
  <1>2. Sources!ReconcileIsOrderFree
    <2> DEFINE voted == {answers[n].key : n \in {m \in DOMAIN answers : answers[m].verified}} \ {Sources!NoKey}
    <2>1. answers \in Seq(AnswerRec) /\ Len(answers) \in Nat
      BY DEF SourceTypes
    <2>2. voted = VotedIn(answers, Len(answers))
      BY <2>1, VotersAre
    <2>3. Sources!NoKey \notin voted
      OBVIOUS
    <2> HIDE DEF voted
    <2>4. Sources!Reconcile(answers) = Verdict(voted)
      BY <2>1, <2>2, ReconcileIsVerdict
    <2>5. (voted = {}) <=> (Sources!Reconcile(answers).end = "miss")
      BY <2>3, <2>4, VerdictIs
    <2>6. (Sources!Reconcile(answers).end = "ok") <=> (voted = {Sources!Reconcile(answers).ik})
      <3>1. CASE voted = {}
        BY <3>1, <2>3, <2>4, VerdictIs
      <3>2. ASSUME NEW k, voted = {k} PROVE (Sources!Reconcile(answers).end = "ok") <=> (voted = {Sources!Reconcile(answers).ik})
        <4>1. Verdict(voted) = [end |-> "ok", ik |-> k]
          BY <3>2, <2>3, VerdictIs
        <4>2. QED
          BY <4>1, <2>4, <3>2
      <3>3. CASE voted # {} /\ \A k : voted # {k}
        <4>1. Verdict(voted) = [end |-> "disagree", ik |-> Sources!NoKey]
          BY <3>3, <2>3, VerdictIs
        <4>2. QED
          BY <4>1, <2>4, <3>3, SMTT(30)
      <3>4. QED
        BY <3>1, <3>2, <3>3
    <2>7. \A m, n \in DOMAIN answers :
             Sources!Reconcile([answers EXCEPT ![m] = answers[n], ![n] = answers[m]]) = Sources!Reconcile(answers)
      BY <2>1, SwappedVoteAlike
    <2> USE DEF voted
    <2>8. QED
      BY <2>5, <2>6, <2>7 DEF Sources!ReconcileIsOrderFree
  <1>3. QED
    BY <1>1, <1>2 DEF Sources!SourcesAreSound

\* No two petnames look alike, a petname gives the key that was assigned to what the user
\* sees, and what several resolvers answered comes to the verdict on the verified keys,
\* whatever their order (reconcile.rs, restype.rs), for all spellings and answers.
THEOREM SourcesStaySound ==
    ASSUME Sources!SourcesAssumption
    PROVE  Sources!Spec => []Sources!SourcesAreSound
  <1>1. Sources!Init => SourceTypes
    BY DEF Sources!Init, SourceTypes
  <1>2. SourceTypes /\ [Sources!Next]_Sources!vars => SourceTypes'
    BY SourceStep
  <1>3. SourceTypes => Sources!SourcesAreSound
    BY SourcesFollow
  <1>4. QED
    BY <1>1, <1>2, <1>3, PTL DEF Sources!Spec

-----------------------------------------------------------------------------
(* The name-chain clients.                                                 *)

CONSTANTS EmptyRecord, Resolver, NoResolver, MaxWrites
VARIABLES registry, text, vouched, account, writes, step, asked, reply, result, moments, moved

Chain == INSTANCE ChainRead WITH NoKey <- EmptyRecord, pc <- step, signed <- vouched

ChainTypes ==
    /\ registry \in Resolver \union {NoResolver}
    /\ text \in [Resolver -> [on : BOOLEAN, key : Key \union {EmptyRecord}]]
    /\ vouched \in [Resolver -> Key \union {EmptyRecord}]
    /\ step \in {"idle", "registry", "text", "gateway", "callback", "account"}
    /\ asked \in Resolver \union {NoResolver}

\* While a resolution runs, what its next call will find is a key the name has had since.
ChainInv ==
    /\ ChainTypes
    /\ step # "idle" => Chain!Now(registry, text, vouched, account) \subseteq moments
    /\ step \in {"text", "gateway", "callback"} => asked # NoResolver /\ (~moved => registry = asked)
    /\ step \in {"registry", "account"} => asked = NoResolver
    /\ step \in {"gateway", "callback"} /\ ~moved => <<"eth", vouched[asked]>> \in moments
    /\ result.found => step = "idle"
    /\ Chain!AnswerWasCurrent

LEMMA NowIs ==
    ASSUME NEW reg, NEW txt, NEW sig, NEW acc
    PROVE  /\ <<"eth", Chain!EthKey(reg, txt, sig)>> \in Chain!Now(reg, txt, sig, acc)
           /\ <<"sol", acc>> \in Chain!Now(reg, txt, sig, acc)
  BY DEF Chain!Now

LEMMA EthKeyIs ==
    ASSUME NEW reg, NEW txt, NEW sig, reg # NoResolver
    PROVE  /\ txt[reg].on = TRUE => Chain!EthKey(reg, txt, sig) = txt[reg].key
           /\ txt[reg].on = FALSE => Chain!EthKey(reg, txt, sig) = sig[reg]
  BY DEF Chain!EthKey

LEMMA ChainInvInit == ASSUME Chain!ChainAssumption PROVE Chain!Init => ChainInv
  BY DEF Chain!Init, ChainInv, ChainTypes, Chain!AnswerWasCurrent, Chain!Nothing, Chain!OnChain, Chain!ChainAssumption

LEMMA WritesAreSeen == ASSUME Chain!ChainAssumption, ChainInv, Chain!Write PROVE ChainInv'
  <1>1. /\ moments' = moments \union Chain!Now(registry', text', vouched', account')
        /\ moved' = (moved \/ registry' # registry)
        /\ UNCHANGED <<step, asked, reply, result>>
    BY DEF Chain!Write, Chain!client
  <1>2. ChainTypes'
    <2>1. /\ registry' \in Resolver \union {NoResolver}
          /\ text' \in [Resolver -> [on : BOOLEAN, key : Key \union {EmptyRecord}]]
          /\ vouched' \in [Resolver -> Key \union {EmptyRecord}]
      <3> DEFINE Rec == [on : BOOLEAN, key : Key \union {EmptyRecord}]
      <3>1. /\ \A k \in Key \union {EmptyRecord} : Chain!OnChain(k) \in Rec
            /\ Chain!OffChain \in Rec
        BY DEF Chain!OnChain, Chain!OffChain
      <3> HIDE DEF Rec
      <3>2. registry \in Resolver \union {NoResolver} /\ text \in [Resolver -> Rec]
            /\ vouched \in [Resolver -> Key \union {EmptyRecord}]
        BY DEF ChainInv, ChainTypes, Rec
      <3>3. /\ registry' \in Resolver \union {NoResolver} /\ text' \in [Resolver -> Rec]
            /\ vouched' \in [Resolver -> Key \union {EmptyRecord}]
        <4>1. CASE \E r \in Resolver : registry' = r /\ UNCHANGED <<text, vouched, account>>
          BY <3>2, <4>1
        <4>2. CASE \E r \in Resolver, k \in Key \union {EmptyRecord} :
                      text' = [text EXCEPT ![r] = Chain!OnChain(k)] /\ UNCHANGED <<registry, vouched, account>>
          BY <3>1, <3>2, <4>2
        <4>3. CASE \E r \in Resolver, k \in Key : /\ text' = [text EXCEPT ![r] = Chain!OffChain]
                                                  /\ vouched' = [vouched EXCEPT ![r] = k]
                                                  /\ UNCHANGED <<registry, account>>
          BY <3>1, <3>2, <4>3
        <4>4. CASE \E k \in Key : account' = k /\ UNCHANGED <<registry, text, vouched>>
          BY <3>2, <4>4
        <4>5. QED
          BY <4>1, <4>2, <4>3, <4>4 DEF Chain!Write
      <3>4. QED
        BY <3>3 DEF Rec
    <2>2. QED
      BY <2>1, <1>1 DEF ChainInv, ChainTypes
  <1>3. ASSUME step \in {"gateway", "callback"}, ~moved' PROVE <<"eth", vouched'[asked]>> \in moments'
    <2>1. /\ ~moved /\ registry' = registry /\ registry = asked /\ asked # NoResolver
          /\ <<"eth", vouched[asked]>> \in moments
          /\ asked \in Resolver
      BY <1>1, <1>3 DEF ChainInv, ChainTypes
    <2>2. CASE vouched' = vouched
      BY <2>1, <2>2, <1>1
    <2>3. CASE vouched' # vouched
      <3>1. PICK r \in Resolver, k \in Key :
              text' = [text EXCEPT ![r] = Chain!OffChain] /\ vouched' = [vouched EXCEPT ![r] = k]
        BY <2>3 DEF Chain!Write
      <3>2. CASE r = asked
        <4>1. text'[asked].on = FALSE
          BY <3>1, <3>2 DEF ChainInv, ChainTypes, Chain!OffChain
        <4>2. Chain!EthKey(registry', text', vouched') = vouched'[asked]
          BY <4>1, <2>1, EthKeyIs
        <4>3. QED
          BY <4>2, <1>1, NowIs
      <3>3. CASE r # asked
        <4>1. vouched'[asked] = vouched[asked]
          BY <3>1, <3>3, <2>1 DEF ChainInv, ChainTypes
        <4>2. QED
          BY <4>1, <2>1, <1>1
      <3>4. QED
        BY <3>2, <3>3
    <2>4. QED
      BY <2>2, <2>3
  <1>4. Chain!AnswerWasCurrent'
    BY <1>1 DEF ChainInv, Chain!AnswerWasCurrent
  <1>5. QED
    BY <1>1, <1>2, <1>3, <1>4 DEF ChainInv

LEMMA ChainInvStep == ASSUME Chain!ChainAssumption, ChainInv, [Chain!Next]_Chain!vars PROVE ChainInv'
  <1>1. CASE Chain!Write
    BY <1>1, WritesAreSeen
  <1>2. ASSUME NEW kind \in {"registry", "account"}, Chain!Begin(kind) PROVE ChainInv'
    BY <1>2 DEF Chain!Begin, Chain!chain, ChainInv, ChainTypes, Chain!AnswerWasCurrent, Chain!Nothing
  <1>3. CASE Chain!CallFails
    BY <1>3 DEF Chain!CallFails, Chain!Ends, Chain!chain, ChainInv, ChainTypes, Chain!AnswerWasCurrent, Chain!Nothing
  <1>4. CASE Chain!AskRegistry
    BY <1>4 DEF Chain!AskRegistry, Chain!Ends, Chain!chain, ChainInv, ChainTypes, Chain!AnswerWasCurrent, Chain!Nothing
  <1>5. CASE Chain!AskText
    <2>1. /\ step = "text" /\ asked \in Resolver /\ asked # NoResolver
          /\ ~moved => registry = asked
          /\ Chain!Now(registry, text, vouched, account) \subseteq moments
          /\ text[asked].on \in BOOLEAN /\ ~result.found
      BY <1>5 DEF Chain!AskText, ChainInv, ChainTypes
    <2>2. UNCHANGED <<registry, text, vouched, account, asked, reply, moments, moved>>
      BY <1>5 DEF Chain!AskText, Chain!chain
    <2>3. CASE text[asked].on = TRUE
      <3>1. step' = "idle" /\ result' = Chain!Parsed(text[asked].key)
        BY <2>3, <1>5 DEF Chain!AskText, Chain!Ends
      <3>2. ~moved => <<"eth", text[asked].key>> \in moments
        BY <2>1, <2>3, NowIs, EthKeyIs
      <3>3. Chain!AnswerWasCurrent'
        BY <3>1, <3>2, <2>1, <2>2 DEF Chain!AnswerWasCurrent, Chain!Parsed, Chain!Nothing
      <3>4. QED
        BY <3>1, <3>3, <2>2 DEF ChainInv, ChainTypes
    <2>4. CASE text[asked].on = FALSE
      <3>1. step' = "gateway" /\ result' = result
        BY <2>4, <1>5 DEF Chain!AskText
      <3>2. ~moved => <<"eth", vouched[asked]>> \in moments
        BY <2>1, <2>4, NowIs, EthKeyIs
      <3>3. Chain!AnswerWasCurrent'
        BY <3>1, <2>1 DEF Chain!AnswerWasCurrent
      <3>4. QED
        BY <3>1, <3>2, <3>3, <2>1, <2>2 DEF ChainInv, ChainTypes
    <2>5. QED
      BY <2>1, <2>3, <2>4
  <1>6. ASSUME NEW k \in Key, Chain!AskGateway(k) PROVE ChainInv'
    BY <1>6 DEF Chain!AskGateway, Chain!chain, ChainInv, ChainTypes, Chain!AnswerWasCurrent
  <1>7. CASE Chain!AskCallback
    <2>1. /\ step = "callback" /\ asked \in Resolver /\ asked # NoResolver
          /\ ~moved => <<"eth", vouched[asked]>> \in moments
      BY <1>7 DEF Chain!AskCallback, ChainInv, ChainTypes
    <2>2. /\ step' = "idle"
          /\ UNCHANGED <<registry, text, vouched, account, asked, reply, moments, moved>>
          /\ result' = IF vouched[asked] = reply THEN Chain!Parsed(reply) ELSE Chain!Nothing
      BY <1>7 DEF Chain!AskCallback, Chain!Ends, Chain!chain, Chain!Accepts
    <2>3. Chain!AnswerWasCurrent'
      BY <2>1, <2>2 DEF Chain!AnswerWasCurrent, Chain!Parsed, Chain!Nothing
    <2>4. QED
      BY <2>2, <2>3 DEF ChainInv, ChainTypes
  <1>8. CASE Chain!AskAccount
    <2>1. /\ step = "account" /\ asked = NoResolver
          /\ Chain!Now(registry, text, vouched, account) \subseteq moments
      BY <1>8 DEF Chain!AskAccount, ChainInv, ChainTypes
    <2>2. /\ step' = "idle" /\ result' = Chain!Parsed(account)
          /\ UNCHANGED <<registry, text, vouched, account, asked, reply, moments, moved>>
      BY <1>8 DEF Chain!AskAccount, Chain!Ends, Chain!chain, Chain!AccountInfo
    <2>3. <<"sol", account>> \in moments
      BY <2>1, NowIs
    <2>4. Chain!AnswerWasCurrent'
      BY <2>1, <2>2, <2>3 DEF Chain!AnswerWasCurrent, Chain!Parsed, Chain!Nothing
    <2>5. QED
      BY <2>2, <2>4 DEF ChainInv, ChainTypes
  <1>9. CASE UNCHANGED Chain!vars
    BY <1>9 DEF Chain!vars, ChainInv, ChainTypes, Chain!AnswerWasCurrent
  <1>10. QED
    BY <1>1, <1>2, <1>3, <1>4, <1>5, <1>6, <1>7, <1>8, <1>9 DEF Chain!Next

\* A key that an ENS or SNS lookup answers is one the name had at a moment of the lookup,
\* if it kept its resolver (ens.rs, sns.rs), for every number of writes between its calls.
THEOREM AnswersWereCurrent ==
    ASSUME Chain!ChainAssumption
    PROVE  Chain!Spec => []Chain!AnswerWasCurrent
  <1>1. Chain!Init => ChainInv
    BY ChainInvInit
  <1>2. ChainInv /\ [Chain!Next]_Chain!vars => ChainInv'
    BY ChainInvStep
  <1>3. ChainInv => Chain!AnswerWasCurrent
    BY DEF ChainInv
  <1>4. QED
    BY <1>1, <1>2, <1>3, PTL DEF Chain!Spec

=============================================================================
