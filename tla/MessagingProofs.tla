-------------------------- MODULE MessagingProofs ---------------------------
(***************************************************************************)
(* Proofs about what peers agree on when they write to each other: the     *)
(* epochs and suites of a group, and the wrapping of the private tier.     *)
(* Each part is taken as an instance with the variables of its own module. *)
(***************************************************************************)
EXTENDS Integers, Sequences, FiniteSets, Functions, Induction, FiniteSetTheorems,
        SequenceTheorems, TLAPS

-----------------------------------------------------------------------------
(* Groups: the epochs of their members, and the suites of their handshakes. *)

CONSTANTS GroupNode, Founder, RtcCall, LateJoins, MaxFrames, MaxOrdered, MaxLeaves, MaxSaid
VARIABLES leaf, published, sess, commits, welcomes, frames, said, filed

Groups == INSTANCE MlsGroup WITH
    Member <- GroupNode, Call <- RtcCall, MaxInbox <- MaxFrames, MaxLog <- MaxOrdered, MaxSent <- MaxSaid,
    inbox <- frames, sent <- said

LogEntry == [author : Groups!Leaf, base : Seq(Nat), op : {"add", "remove"}, who : Groups!Leaf]
GroupMessage == [chain : Seq(Nat), from : Groups!Leaf, nr : Nat]
GroupSession == [leaf : Groups!Leaf, chain : Seq(Nat), applied : Nat, pendingSeq : Nat, pending : BOOLEAN]

\* What the log makes of the epochs: an entry built in the epoch it meets is merged,
\* any other changes nothing.
EpochsOf(log, K) ==
    /\ K \in [0..Len(log) -> Seq(Nat)]
    /\ K[0] = <<>>
    /\ \A n \in 1..Len(log) :
           K[n] = IF log[n].base = K[n - 1] THEN Append(K[n - 1], n) ELSE K[n - 1]

\* An epoch names entries up to its own, and of two one starts the other.
EpochsGrow(log, K) ==
    /\ \A n \in 0..Len(log) : \A i \in 1..Len(K[n]) : K[n][i] \in 1..n
    /\ \A i, j \in 0..Len(log) : i <= j => Groups!Prefix(K[i], K[j])

\* A session is in the epoch of its place.  A commit it waits for is of that epoch
\* while it is pending and of an earlier one when it is not.
SessionFits(log, K, s) ==
    /\ s \in GroupSession
    /\ s.applied \in 0..Len(log) /\ s.pendingSeq \in 0..Len(log)
    /\ s.chain = K[s.applied]
    /\ s.pending => /\ s.pendingSeq > s.applied
                    /\ log[s.pendingSeq].author = s.leaf /\ log[s.pendingSeq].base = s.chain
    /\ ~s.pending /\ s.pendingSeq # 0 => Len(log[s.pendingSeq].base) < Len(s.chain)

WelcomeFits(log, K, w) ==
    /\ w \in [leaf : Groups!Leaf, chain : Seq(Nat)] /\ w.chain # <<>>
    /\ w.chain[Len(w.chain)] \in 1..Len(log) /\ w.chain = K[w.chain[Len(w.chain)]]

\* A message is of an epoch of the log.
MessageFits(log, msg) ==
    msg \in GroupMessage /\ \A i \in 1..Len(msg.chain) : msg.chain[i] \in 1..Len(log)

GroupTypes ==
    /\ leaf \in [GroupNode -> 0..MaxLeaves] /\ published \in [GroupNode -> 0..MaxLeaves]
    /\ commits \in Seq(LogEntry)
    /\ IsFiniteSet(said) /\ frames \in [GroupNode -> Seq(GroupMessage)]

GroupInv ==
    /\ GroupTypes
    /\ \E K : /\ EpochsOf(commits, K) /\ EpochsGrow(commits, K)
              /\ DOMAIN sess = GroupNode
              /\ \A m \in GroupNode : sess[m] = Groups!NoSession \/ SessionFits(commits, K, sess[m])
              /\ \A w \in welcomes : WelcomeFits(commits, K, w)
    /\ \A m \in GroupNode : \A i \in DOMAIN frames[m] : MessageFits(commits, frames[m][i])
    /\ \A f \in filed : MessageFits(commits, f.msg) /\ f.leaf \in Groups!Roster(commits, f.msg.chain)

LEMMA PrefixIs ==
    ASSUME NEW c \in Seq(Nat), NEW d \in Seq(Nat)
    PROVE  Groups!Prefix(c, d) <=> Len(c) <= Len(d) /\ \A i \in 1..Len(c) : c[i] = d[i]
  <1>1. Len(c) \in Nat /\ Len(d) \in Nat /\ DOMAIN c = 1..Len(c) /\ DOMAIN d = 1..Len(d)
    BY SeqIs
  <1>2. ASSUME Len(c) <= Len(d) PROVE (SubSeq(d, 1, Len(c)) = c) <=> \A i \in 1..Len(c) : c[i] = d[i]
    <2> DEFINE e == SubSeq(d, 1, Len(c))
    <2>1. e \in Seq(Nat) /\ Len(e) = Len(c) /\ \A i \in 1..Len(c) : e[i] = d[i]
      <3>1. 1 \in 1..(Len(d) + 1) /\ Len(c) \in (1 - 1)..Len(d)
        BY <1>1, <1>2
      <3>2. \A i \in 1..Len(d) : d[i] \in Nat
        BY SeqIs
      <3>3. QED
        BY <3>1, <3>2, <1>1, <1>2, SubSeqProperties
    <2> HIDE DEF e
    <2>2. ASSUME \A i \in 1..Len(c) : c[i] = d[i] PROVE e = c
      <3>1. e \in [1..Len(c) -> Nat] /\ c \in [1..Len(c) -> Nat]
        BY <2>1, SeqIs
      <3>2. \A i \in 1..Len(c) : e[i] = c[i]
        BY <2>1, <2>2
      <3>3. QED
        BY <3>1, <3>2
    <2>3. QED
      BY <2>1, <2>2 DEF e
  <1>3. QED
    BY <1>2 DEF Groups!Prefix

LEMMA AppendExtends ==
    ASSUME NEW c \in Seq(Nat), NEW n \in Nat
    PROVE  Append(c, n) \in Seq(Nat) /\ Len(Append(c, n)) = Len(c) + 1 /\ Groups!Prefix(c, Append(c, n))
  <1>1. /\ Append(c, n) \in Seq(Nat) /\ Len(Append(c, n)) = Len(c) + 1
        /\ \A i \in 1..Len(c) : Append(c, n)[i] = c[i]
    BY AppendProperties, SeqIs
  <1>2. Len(c) <= Len(Append(c, n))
    BY <1>1, SeqIs
  <1>3. QED
    BY <1>1, <1>2, PrefixIs

LEMMA PrefixSelf ==
    ASSUME NEW c \in Seq(Nat) PROVE Groups!Prefix(c, c)
  BY PrefixIs, SeqIs

LEMMA PrefixTrans ==
    ASSUME NEW c \in Seq(Nat), NEW d \in Seq(Nat), NEW e \in Seq(Nat), Groups!Prefix(c, d), Groups!Prefix(d, e)
    PROVE  Groups!Prefix(c, e)
  <1>1. Len(c) <= Len(d) /\ Len(d) <= Len(e) /\ Len(c) \in Nat /\ Len(d) \in Nat /\ Len(e) \in Nat
    BY PrefixIs, SeqIs
  <1>2. (\A i \in 1..Len(c) : c[i] = d[i]) /\ (\A i \in 1..Len(d) : d[i] = e[i])
    BY PrefixIs
  <1>3. \A i \in 1..Len(c) : c[i] = e[i]
    BY <1>1, <1>2
  <1>4. QED
    BY <1>1, <1>3, PrefixIs

LEMMA PrefixSameLength ==
    ASSUME NEW c \in Seq(Nat), NEW d \in Seq(Nat), Groups!Prefix(c, d) \/ Groups!Prefix(d, c), Len(c) = Len(d)
    PROVE  c = d
  <1>1. c \in [1..Len(c) -> Nat] /\ d \in [1..Len(c) -> Nat]
    BY SeqIs
  <1>2. \A i \in 1..Len(c) : c[i] = d[i]
    BY PrefixIs
  <1>3. QED
    BY <1>1, <1>2

\* One more entry in the log leaves the epochs before it what they were.
LEMMA LogGrows ==
    ASSUME NEW log \in Seq(LogEntry), NEW e \in LogEntry
    PROVE  /\ Append(log, e) \in Seq(LogEntry) /\ Len(Append(log, e)) = Len(log) + 1
           /\ Append(log, e)[Len(log) + 1] = e
           /\ \A i \in 1..Len(log) : Append(log, e)[i] = log[i]
           /\ Len(log) \in Nat
  BY AppendProperties, SeqIs

LEMMA EpochsExtend ==
    ASSUME NEW log \in Seq(LogEntry), NEW e \in LogEntry, NEW K, EpochsOf(log, K), EpochsGrow(log, K)
    PROVE  \E L : /\ EpochsOf(Append(log, e), L) /\ EpochsGrow(Append(log, e), L)
                 /\ \A n \in 0..Len(log) : L[n] = K[n]
  <1> DEFINE N == Len(log)
             new == Append(log, e)
             next == IF e.base = K[N] THEN Append(K[N], N + 1) ELSE K[N]
             L == [n \in 0..(N + 1) |-> IF n = N + 1 THEN next ELSE K[n]]
  <1>1. N \in Nat /\ Len(new) = N + 1 /\ new[N + 1] = e /\ \A i \in 1..N : new[i] = log[i]
    BY LogGrows
  <1>2. /\ \A n \in 0..N : K[n] \in Seq(Nat)
        /\ K[0] = <<>>
        /\ \A n \in 1..N : K[n] = IF log[n].base = K[n - 1] THEN Append(K[n - 1], n) ELSE K[n - 1]
    BY DEF EpochsOf
  <1>3. /\ \A n \in 0..N : \A i \in 1..Len(K[n]) : K[n][i] \in 1..n
        /\ \A i, j \in 0..N : i <= j => Groups!Prefix(K[i], K[j])
    BY DEF EpochsGrow
  <1>4. next \in Seq(Nat) /\ Groups!Prefix(K[N], next) /\ \A i \in 1..Len(next) : next[i] \in 1..(N + 1)
    <2>1. N \in 0..N /\ K[N] \in Seq(Nat) /\ N + 1 \in Nat
      BY <1>1, <1>2
    <2>2. \A i \in 1..Len(K[N]) : K[N][i] \in 1..(N + 1)
      BY <1>1, <1>3
    <2>3. CASE e.base = K[N]
      <3>1. next = Append(K[N], N + 1)
        BY <2>3
      <3>2. /\ Len(next) = Len(K[N]) + 1 /\ next[Len(K[N]) + 1] = N + 1
            /\ \A i \in 1..Len(K[N]) : next[i] = K[N][i]
        BY <2>1, <3>1, AppendProperties
      <3>3. Len(K[N]) \in Nat
        BY <2>1
      <3> HIDE DEF next
      <3>4. \A i \in 1..Len(next) : next[i] \in 1..(N + 1)
        BY <1>1, <2>2, <3>2, <3>3
      <3>5. next \in Seq(Nat) /\ Groups!Prefix(K[N], next)
        BY <2>1, <3>1, AppendExtends
      <3>6. QED
        BY <3>4, <3>5
    <2>4. CASE e.base # K[N]
      BY <2>1, <2>2, <2>4, PrefixSelf
    <2>5. QED
      BY <2>3, <2>4
  <1>5. L \in [0..(N + 1) -> Seq(Nat)] /\ (\A n \in 0..N : L[n] = K[n]) /\ L[N + 1] = next
    <2> HIDE DEF next
    <2>1. QED
      BY <1>1, <1>2, <1>4
  <1> HIDE DEF L
  <1>6. EpochsOf(new, L)
    <2>1. L[0] = <<>>
      BY <1>1, <1>2, <1>5
    <2>2. ASSUME NEW n \in 1..(N + 1)
          PROVE  L[n] = IF new[n].base = L[n - 1] THEN Append(L[n - 1], n) ELSE L[n - 1]
      <3>1. CASE n = N + 1
        <4>1. L[n] = next /\ new[n] = e /\ n - 1 = N /\ L[n - 1] = K[N]
          BY <1>1, <1>5, <3>1
        <4>2. QED
          BY <3>1, <4>1
      <3>2. CASE n # N + 1
        <4>1. n \in 1..N /\ n \in 0..N /\ n - 1 \in 0..N
          BY <1>1, <3>2
        <4>2. L[n] = K[n] /\ L[n - 1] = K[n - 1] /\ new[n] = log[n]
          BY <1>1, <1>5, <4>1
        <4>3. QED
          BY <1>2, <4>1, <4>2
      <3>3. QED
        BY <3>1, <3>2
    <2>3. QED
      BY <1>1, <1>5, <2>1, <2>2 DEF EpochsOf
  <1> HIDE DEF next, new
  <1>7. EpochsGrow(new, L)
    <2>1. ASSUME NEW n \in 0..(N + 1) PROVE \A i \in 1..Len(L[n]) : L[n][i] \in 1..n
      <3>1. CASE n = N + 1
        BY <1>4, <1>5, <3>1
      <3>2. CASE n # N + 1
        <4>1. n \in 0..N
          BY <1>1, <3>2
        <4>2. QED
          BY <1>3, <1>5, <4>1
      <3>3. QED
        BY <3>1, <3>2
    <2>2. ASSUME NEW i \in 0..(N + 1), NEW j \in 0..(N + 1), i <= j PROVE Groups!Prefix(L[i], L[j])
      <3>1. CASE j # N + 1
        <4>1. i \in 0..N /\ j \in 0..N
          BY <1>1, <2>2, <3>1
        <4>2. QED
          BY <1>3, <1>5, <4>1, <2>2
      <3>2. CASE i = N + 1
        <4>1. i = j /\ L[i] = next
          BY <1>1, <1>5, <2>2, <3>2
        <4>2. QED
          BY <1>4, <4>1, PrefixSelf
      <3>3. CASE i # N + 1 /\ j = N + 1
        <4>1. i \in 0..N /\ N \in 0..N /\ i <= N
          BY <1>1, <3>3
        <4>2. L[i] = K[i] /\ L[j] = next /\ Groups!Prefix(K[i], K[N])
          BY <1>3, <1>5, <3>3, <4>1
        <4>3. K[i] \in Seq(Nat) /\ K[N] \in Seq(Nat)
          BY <1>2, <4>1
        <4>4. QED
          BY <1>4, <4>2, <4>3, PrefixTrans
      <3>4. QED
        BY <3>1, <3>2, <3>3
    <2>3. QED
      BY <1>1, <2>1, <2>2 DEF EpochsGrow
  <1>8. QED
    BY <1>5, <1>6, <1>7 DEF new

\* A session that fits the log still fits it when an entry is added.
LEMMA FitsLonger ==
    ASSUME NEW log \in Seq(LogEntry), NEW e \in LogEntry, NEW K, NEW L,
           \A n \in 0..Len(log) : L[n] = K[n], NEW s, SessionFits(log, K, s)
    PROVE  SessionFits(Append(log, e), L, s)
  <1>1. /\ s \in GroupSession
        /\ s.applied \in 0..Len(log) /\ s.pendingSeq \in 0..Len(log)
        /\ s.chain = K[s.applied]
        /\ s.pending => /\ s.pendingSeq > s.applied
                        /\ log[s.pendingSeq].author = s.leaf /\ log[s.pendingSeq].base = s.chain
        /\ ~s.pending /\ s.pendingSeq # 0 => Len(log[s.pendingSeq].base) < Len(s.chain)
    BY DEF SessionFits
  <1>2. /\ Len(Append(log, e)) = Len(log) + 1 /\ Len(log) \in Nat
        /\ \A i \in 1..Len(log) : Append(log, e)[i] = log[i]
    BY LogGrows
  <1>3. s.applied \in 0..(Len(log) + 1) /\ s.pendingSeq \in 0..(Len(log) + 1) /\ s.chain = L[s.applied]
    BY <1>1, <1>2
  <1>4. s.pendingSeq # 0 => Append(log, e)[s.pendingSeq] = log[s.pendingSeq]
    BY <1>1, <1>2
  <1>5. s.pending => s.pendingSeq # 0
    BY <1>1
  <1>6. QED
    BY <1>1, <1>2, <1>3, <1>4, <1>5 DEF SessionFits

LEMMA WelcomeFitsLonger ==
    ASSUME NEW log \in Seq(LogEntry), NEW e \in LogEntry, NEW K, NEW L,
           \A n \in 0..Len(log) : L[n] = K[n], NEW w, WelcomeFits(log, K, w)
    PROVE  WelcomeFits(Append(log, e), L, w)
  <1>1. Len(Append(log, e)) = Len(log) + 1 /\ Len(log) \in Nat
    BY LogGrows
  <1>2. w.chain[Len(w.chain)] \in 1..Len(log)
    BY DEF WelcomeFits
  <1>3. w.chain[Len(w.chain)] \in 0..Len(log) /\ w.chain[Len(w.chain)] \in 1..(Len(log) + 1)
    BY <1>1, <1>2
  <1>4. QED
    BY <1>1, <1>3 DEF WelcomeFits

LEMMA RosterStays ==
    ASSUME NEW log \in Seq(LogEntry), NEW e \in LogEntry, NEW c \in Seq(Nat),
           \A i \in 1..Len(c) : c[i] \in 1..Len(log)
    PROVE  Groups!Roster(Append(log, e), c) = Groups!Roster(log, c)
  <1>1. DOMAIN c = 1..Len(c)
    BY SeqIs
  <1>2. \A i \in DOMAIN c : Append(log, e)[c[i]] = log[c[i]]
    BY <1>1, LogGrows
  <1> DEFINE Of(l, op) == {l[c[i]].who : i \in {j \in DOMAIN c : l[c[j]].op = op}}
  <1>3. \A op : Of(Append(log, e), op) = Of(log, op)
    BY <1>2
  <1>4. \A l : Groups!Roster(l, c) = ({<<Founder, 0>>} \union Of(l, "add")) \ Of(l, "remove")
    BY DEF Groups!Roster
  <1> HIDE DEF Of
  <1>5. QED
    BY <1>3, <1>4

\* What merging the entry i makes of a session.
MergedSession(s, i) ==
    [s EXCEPT !.chain = Append(@, i), !.applied = i, !.pending = FALSE,
              !.pendingSeq = IF @ = i THEN 0 ELSE @]

LEMMA MergeFits ==
    ASSUME NEW log \in Seq(LogEntry), NEW K, EpochsOf(log, K), NEW s, SessionFits(log, K, s),
           NEW i \in 1..Len(log), i = s.applied + 1, log[i].base = s.chain
    PROVE  SessionFits(log, K, MergedSession(s, i))
  <1> DEFINE m == MergedSession(s, i)
             p == s.pendingSeq
  <1>1. /\ s \in GroupSession
        /\ s.applied \in 0..Len(log) /\ p \in 0..Len(log)
        /\ s.chain = K[s.applied]
        /\ s.pending => log[p].base = s.chain
        /\ ~s.pending /\ p # 0 => Len(log[p].base) < Len(s.chain)
    BY DEF SessionFits
  <1>2. s.chain \in Seq(Nat) /\ Len(s.chain) \in Nat /\ i \in Nat /\ i - 1 = s.applied
    BY <1>1, SeqIs DEF GroupSession
  <1>3. Append(s.chain, i) \in Seq(Nat) /\ Len(Append(s.chain, i)) = Len(s.chain) + 1
    BY <1>2, AppendExtends
  <1>4. /\ m.chain = Append(s.chain, i) /\ m.applied = i /\ m.pending = FALSE
        /\ m.pendingSeq = IF p = i THEN 0 ELSE p
        /\ m.leaf = s.leaf
    BY <1>1 DEF MergedSession, GroupSession
  <1>5. m \in GroupSession
    BY <1>1, <1>2, <1>3 DEF MergedSession, GroupSession
  <1> HIDE DEF m
  <1>6. K[i] = Append(s.chain, i)
    BY <1>1, <1>2 DEF EpochsOf
  <1>7. m.applied \in 0..Len(log) /\ m.pendingSeq \in 0..Len(log) /\ m.chain = K[m.applied]
    BY <1>1, <1>4, <1>6
  <1>8. ASSUME m.pendingSeq # 0 PROVE Len(log[m.pendingSeq].base) < Len(m.chain)
    <2>1. m.pendingSeq = p /\ p # 0
      BY <1>4, <1>8
    <2>2. Len(m.chain) = Len(s.chain) + 1
      BY <1>3, <1>4
    <2>3. CASE s.pending
      BY <1>1, <1>2, <2>1, <2>2, <2>3
    <2>4. CASE ~s.pending
      <3>1. log[p] \in LogEntry
        <4>1. p \in 1..Len(log)
          BY <1>1, <2>1
        <4>2. QED
          BY <4>1, SeqIs
      <3>2. Len(log[p].base) \in Nat
        BY <3>1, SeqIs DEF LogEntry
      <3>3. QED
        BY <1>1, <1>2, <2>1, <2>2, <2>4, <3>2
    <2>5. QED
      BY <2>3, <2>4
  <1>9. SessionFits(log, K, m)
    BY <1>4, <1>5, <1>7, <1>8 DEF SessionFits
  <1>10. QED
    BY <1>9 DEF m

\* Applying one entry.
LEMMA EntryFits ==
    ASSUME NEW log \in Seq(LogEntry), NEW K, EpochsOf(log, K), NEW s, SessionFits(log, K, s),
           NEW i \in 1..Len(log), i = s.applied + 1
    PROVE  LET r == Groups!ApplyEntry(log, s, i)
           IN  /\ SessionFits(log, K, r.s) /\ r.s.leaf = s.leaf
               /\ r.ok \in BOOLEAN /\ (r.ok => r.s.applied = i)
               /\ s.pendingSeq # i => r.s.pendingSeq = s.pendingSeq
               /\ r.ok /\ s.pendingSeq = i => log[i].base = K[i - 1]
  <1> DEFINE r == Groups!ApplyEntry(log, s, i)
  <1>1. /\ s \in GroupSession
        /\ s.applied \in 0..Len(log) /\ s.pendingSeq \in 0..Len(log)
        /\ s.chain = K[s.applied]
        /\ s.pending => log[s.pendingSeq].base = s.chain
        /\ ~s.pending /\ s.pendingSeq # 0 => Len(log[s.pendingSeq].base) < Len(s.chain)
    BY DEF SessionFits
  <1>2. i \in Nat /\ i - 1 = s.applied /\ i # 0 /\ s.chain = K[i - 1]
    BY <1>1
  <1>3. /\ MergedSession(s, i).leaf = s.leaf /\ MergedSession(s, i).applied = i
        /\ s.pendingSeq # i => MergedSession(s, i).pendingSeq = s.pendingSeq
    BY <1>1 DEF MergedSession, GroupSession
  <1>4. CASE s.pendingSeq = i /\ s.pending
    <2>1. r = [s |-> MergedSession(s, i), ok |-> TRUE]
      BY <1>4 DEF Groups!ApplyEntry, MergedSession
    <2>2. log[i].base = s.chain
      BY <1>1, <1>4
    <2>3. SessionFits(log, K, MergedSession(s, i))
      BY <2>2, MergeFits
    <2> HIDE DEF r
    <2>4. r.s = MergedSession(s, i) /\ r.ok = TRUE
      BY <2>1
    <2>5. QED
      BY <1>2, <1>3, <1>4, <2>2, <2>3, <2>4 DEF r
  <1>5. CASE s.pendingSeq = i /\ ~s.pending
    <2> DEFINE t == [s EXCEPT !.pendingSeq = 0, !.applied = i]
    <2>1. r = [s |-> t, ok |-> FALSE]
      BY <1>5 DEF Groups!ApplyEntry
    <2>2. /\ t \in GroupSession /\ t.leaf = s.leaf /\ t.applied = i /\ t.pendingSeq = 0
          /\ t.chain = s.chain /\ t.pending = s.pending
      BY <1>1, <1>2 DEF GroupSession
    <2>3. K[i] = s.chain
      <3>1. log[i].base # s.chain
        BY <1>1, <1>2, <1>5
      <3>2. QED
        BY <1>2, <3>1 DEF EpochsOf
    <2> HIDE DEF t, r
    <2>4. ~t.pending
      BY <1>5, <2>2
    <2>5. SessionFits(log, K, t)
      BY <1>1, <1>2, <2>2, <2>3, <2>4 DEF SessionFits
    <2>6. r.s = t /\ r.ok = FALSE
      BY <2>1
    <2>7. QED
      BY <1>5, <2>2, <2>5, <2>6 DEF r
  <1>6. CASE s.pendingSeq # i /\ Groups!Processes(log, s, i)
    <2>1. r = [s |-> MergedSession(s, i), ok |-> TRUE]
      BY <1>6 DEF Groups!ApplyEntry, MergedSession
    <2>2. log[i].base = s.chain
      BY <1>6 DEF Groups!Processes
    <2>3. SessionFits(log, K, MergedSession(s, i))
      BY <2>2, MergeFits
    <2> HIDE DEF r
    <2>4. r.s = MergedSession(s, i) /\ r.ok = TRUE
      BY <2>1
    <2>5. QED
      BY <1>3, <1>6, <2>3, <2>4 DEF r
  <1>7. CASE s.pendingSeq # i /\ ~Groups!Processes(log, s, i)
    <2>1. r = [s |-> s, ok |-> FALSE]
      BY <1>7 DEF Groups!ApplyEntry
    <2> HIDE DEF r
    <2>2. r.s = s /\ r.ok = FALSE
      BY <2>1
    <2>3. QED
      BY <1>7, <2>2 DEF r
  <1>8. QED
    BY <1>4, <1>5, <1>6, <1>7

\* What a session makes of the log up to each entry.
RunOf(h, log, s, m) ==
    [i \in s.applied..m |->
        IF i = s.applied THEN [s |-> s, ok |-> TRUE]
        ELSE IF h[i - 1].ok THEN Groups!ApplyEntry(log, h[i - 1].s, i) ELSE h[i - 1]]

LEMMA RunExists ==
    ASSUME NEW log, NEW s, s.applied \in Nat, NEW m \in Nat, s.applied <= m
    PROVE  \E h : h = RunOf(h, log, s, m)
  <1> DEFINE a == s.applied
             G == {k \in Nat : \E h : h = RunOf(h, log, s, a + k)}
  <1>1. 0 \in G
    <2> DEFINE z == [i \in a..(a + 0) |-> [s |-> s, ok |-> TRUE]]
    <2>1. z = RunOf(z, log, s, a + 0)
      <3>1. \A i \in a..(a + 0) : i = a
        OBVIOUS
      <3>2. QED
        BY <3>1 DEF RunOf
    <2>2. QED
      BY <2>1
  <1>2. \A k \in Nat : k \in G => k + 1 \in G
    <2> SUFFICES ASSUME NEW k \in Nat, k \in G PROVE k + 1 \in G
      <3> HIDE DEF G
      <3>1. QED
        OBVIOUS
    <2>0. PICK h : h = RunOf(h, log, s, a + k)
      OBVIOUS
    <2> DEFINE Step(f, i) == IF i = a THEN [s |-> s, ok |-> TRUE]
                             ELSE IF f[i - 1].ok THEN Groups!ApplyEntry(log, f[i - 1].s, i) ELSE f[i - 1]
               M == a + (k + 1)
               g == [i \in a..M |-> IF i = M THEN Step(h, i) ELSE h[i]]
    <2>1. \A i \in a..(a + k) : h[i] = Step(h, i)
      BY <2>0 DEF RunOf
    <2>2. \A i \in a..(a + k) : i \in a..M /\ i # M
      OBVIOUS
    <2>3. \A i \in a..(a + k) : g[i] = h[i]
      <3> HIDE DEF Step, M
      <3>1. QED
        BY <2>2
    <2>4. M \in a..M /\ M # a /\ M - 1 \in a..(a + k)
      OBVIOUS
    <2>5. g[M] = Step(h, M)
      <3> HIDE DEF Step, M
      <3>1. QED
        BY <2>4
    <2>6. g = [i \in a..M |-> g[i]]
      <3> HIDE DEF Step, M
      <3>1. QED
        OBVIOUS
    <2>7. \A i \in a..M : i = M \/ (i \in a..(a + k) /\ (i # a => i - 1 \in a..(a + k)))
      OBVIOUS
    <2> HIDE DEF g
    <2>8. \A i \in a..M : g[i] = Step(g, i)
      <3> SUFFICES ASSUME NEW i \in a..M PROVE g[i] = Step(g, i)
        OBVIOUS
      <3>1. CASE i = M
        <4>1. g[i - 1] = h[i - 1]
          BY <2>3, <2>4, <3>1
        <4> HIDE DEF M
        <4>2. QED
          BY <4>1, <2>4, <2>5, <3>1
      <3>2. CASE i # M
        <4>1. i \in a..(a + k) /\ (i # a => i - 1 \in a..(a + k))
          BY <2>7, <3>2
        <4>2. g[i] = h[i] /\ (i # a => g[i - 1] = h[i - 1])
          BY <4>1, <2>3
        <4>3. h[i] = Step(h, i)
          BY <4>1, <2>1
        <4>4. QED
          BY <4>2, <4>3
      <3>3. QED
        BY <3>1, <3>2
    <2>9. g = RunOf(g, log, s, M)
      <3> HIDE DEF M
      <3>1. QED
        BY <2>6, <2>8 DEF RunOf
    <2>10. k + 1 \in Nat /\ M = a + (k + 1)
      OBVIOUS
    <2> HIDE DEF M
    <2>11. QED
      BY <2>9, <2>10
  <1> HIDE DEF G
  <1>3. Nat \subseteq G
    BY <1>1, <1>2, NatSetInduction
  <1>4. m - a \in G /\ a + (m - a) = m
    BY <1>3
  <1>5. QED
    BY <1>4 DEF G

\* What a session is like once it applied the log up to entry i.
RunFits(log, K, s, r, i) ==
    /\ SessionFits(log, K, r.s) /\ r.s.leaf = s.leaf /\ r.ok \in BOOLEAN
    /\ r.ok => r.s.applied = i /\ (s.pendingSeq > i => r.s.pendingSeq = s.pendingSeq)

LEMMA StepFits ==
    ASSUME NEW log \in Seq(LogEntry), NEW K, EpochsOf(log, K), NEW s, SessionFits(log, K, s),
           NEW q, NEW r, NEW i \in 1..Len(log), RunFits(log, K, s, q, i - 1),
           r = IF q.ok THEN Groups!ApplyEntry(log, q.s, i) ELSE q
    PROVE  /\ RunFits(log, K, s, r, i)
           /\ r.ok /\ s.pendingSeq = i => log[i].base = K[i - 1]
  <1>1. CASE q.ok = TRUE
    <2>1. SessionFits(log, K, q.s) /\ q.s.leaf = s.leaf /\ q.s.applied = i - 1
      BY <1>1 DEF RunFits
    <2>2. s.pendingSeq > i - 1 => q.s.pendingSeq = s.pendingSeq
      BY <1>1 DEF RunFits
    <2>3. i = q.s.applied + 1
      BY <2>1
    <2>4. r = Groups!ApplyEntry(log, q.s, i)
      BY <1>1
    <2>5. /\ SessionFits(log, K, r.s) /\ r.s.leaf = q.s.leaf
          /\ r.ok \in BOOLEAN /\ (r.ok => r.s.applied = i)
          /\ q.s.pendingSeq # i => r.s.pendingSeq = q.s.pendingSeq
          /\ r.ok /\ q.s.pendingSeq = i => log[i].base = K[i - 1]
      BY <2>1, <2>3, <2>4, EntryFits
    <2>6. s.pendingSeq \in Nat
      BY DEF SessionFits, GroupSession
    <2>7. s.pendingSeq > i => r.s.pendingSeq = s.pendingSeq
      BY <2>2, <2>5, <2>6
    <2>8. s.pendingSeq = i => q.s.pendingSeq = i
      BY <2>2, <2>6
    <2>9. QED
      BY <2>1, <2>5, <2>7, <2>8 DEF RunFits
  <1>2. CASE q.ok = FALSE
    <2>1. r = q
      BY <1>2
    <2>2. QED
      BY <1>2, <2>1 DEF RunFits
  <1>3. QED
    BY <1>1, <1>2 DEF RunFits

\* Session::advance leaves a session in the epoch of its place, and one that merged its
\* own commit last met it in the epoch it was built in.
LEMMA AdvanceFits ==
    ASSUME NEW log \in Seq(LogEntry), NEW K, EpochsOf(log, K), NEW s, SessionFits(log, K, s)
    PROVE  LET out == Groups!Advance(log, s)
           IN  /\ SessionFits(log, K, out.s) /\ out.s.leaf = s.leaf
               /\ out.ok /\ s.pendingSeq = Len(log) /\ s.applied < Len(log)
                    => log[Len(log)].base = K[Len(log) - 1]
  <1> DEFINE N == Len(log)
             a == s.applied
             F(h) == RunOf(h, log, s, N)
             went == CHOOSE h : h = F(h)
             Fits(i) == RunFits(log, K, s, went[i], i)
             G == {k \in Nat : a + k <= N => Fits(a + k)}
  <1>1. N \in Nat /\ a \in 0..N /\ a \in Nat /\ s.pendingSeq \in Nat
    BY SeqIs DEF SessionFits, GroupSession
  <1>2. Groups!Advance(log, s) = went[N]
    BY DEF Groups!Advance, RunOf
  <1>3. went = F(went)
    <2>1. a <= N
      BY <1>1
    <2>2. \E h : h = F(h)
      <3> HIDE DEF N
      <3>1. QED
        BY <1>1, <2>1, RunExists
    <2> HIDE DEF F
    <2>3. QED
      BY <2>2
  <1> HIDE DEF went
  <1>4. \A i \in a..N : went[i] = IF i = a THEN [s |-> s, ok |-> TRUE]
                            ELSE IF went[i - 1].ok THEN Groups!ApplyEntry(log, went[i - 1].s, i) ELSE went[i - 1]
    BY <1>3 DEF RunOf
  <1> HIDE DEF F
  <1>5. Fits(a)
    <2>1. went[a] = [s |-> s, ok |-> TRUE]
      <3>1. a \in a..N
        BY <1>1
      <3> HIDE DEF a, N
      <3>2. QED
        BY <1>4, <3>1
    <2>2. went[a].s = s /\ went[a].ok = TRUE
      BY <2>1
    <2>3. QED
      BY <2>2 DEF RunFits
  <1>6. ASSUME NEW i \in (a + 1)..N, Fits(i - 1)
        PROVE  Fits(i) /\ (went[i].ok /\ s.pendingSeq = i => log[i].base = K[i - 1])
    <2>1. i \in 1..N /\ i \in a..N /\ i # a
      BY <1>1
    <2>2. went[i] = IF went[i - 1].ok THEN Groups!ApplyEntry(log, went[i - 1].s, i) ELSE went[i - 1]
      BY <1>4, <2>1
    <2>3. QED
      BY <1>6, <2>1, <2>2, StepFits
  <1> HIDE DEF Fits
  <1>7. 0 \in G
    BY <1>1, <1>5
  <1>8. \A k \in Nat : k \in G => k + 1 \in G
    <2> SUFFICES ASSUME NEW k \in Nat, k \in G, a + (k + 1) <= N PROVE Fits(a + (k + 1))
      OBVIOUS
    <2>1. a + (k + 1) \in (a + 1)..N /\ (a + (k + 1)) - 1 = a + k /\ a + k <= N
      BY <1>1
    <2>2. Fits(a + k)
      BY <2>1
    <2>3. QED
      BY <1>6, <2>1, <2>2
  <1>9. \A i \in a..N : Fits(i)
    <2> SUFFICES ASSUME NEW i \in a..N PROVE Fits(i)
      OBVIOUS
    <2>1. i - a \in Nat /\ a + (i - a) = i /\ i <= N
      BY <1>1
    <2>2. i - a \in G
      <3> HIDE DEF G
      <3>1. Nat \subseteq G
        BY <1>7, <1>8, NatSetInduction
      <3>2. QED
        BY <2>1, <3>1
    <2>3. QED
      BY <2>1, <2>2
  <1>10. Fits(N)
    BY <1>1, <1>9
  <1>11. ASSUME a < N PROVE went[N].ok /\ s.pendingSeq = N => log[N].base = K[N - 1]
    <2>1. N \in (a + 1)..N /\ N - 1 \in a..N
      BY <1>1, <1>11
    <2>2. QED
      BY <1>6, <1>9, <2>1
  <1>12. SessionFits(log, K, went[N].s) /\ went[N].s.leaf = s.leaf
    BY <1>10 DEF Fits, RunFits
  <1>13. QED
    BY <1>2, <1>11, <1>12

\* Building, submitting and applying a commit.
LEMMA CommitFits ==
    ASSUME NEW log \in Seq(LogEntry), NEW K, EpochsOf(log, K), EpochsGrow(log, K),
           NEW s, SessionFits(log, K, s), NEW op \in {"add", "remove"}, NEW l \in Groups!Leaf,
           NEW e, e = [author |-> s.leaf, base |-> s.chain, op |-> op, who |-> l],
           NEW L, EpochsOf(Append(log, e), L), \A n \in 0..Len(log) : L[n] = K[n],
           NEW out, out = Groups!Advance(Append(log, e), [s EXCEPT !.pending = TRUE, !.pendingSeq = Len(Append(log, e))])
    PROVE  /\ SessionFits(Append(log, e), L, out.s)
           /\ out.ok => WelcomeFits(Append(log, e), L, [leaf |-> l, chain |-> Append(e.base, Len(Append(log, e)))])
  <1> DEFINE N == Len(log)
             new == Append(log, e)
             t == [s EXCEPT !.pending = TRUE, !.pendingSeq = Len(new)]
  <1>1. s \in GroupSession /\ s.applied \in 0..N /\ s.chain = K[s.applied]
    BY DEF SessionFits
  <1>2. e \in LogEntry
    BY <1>1 DEF LogEntry, GroupSession
  <1>3. new \in Seq(LogEntry) /\ Len(new) = N + 1 /\ new[N + 1] = e /\ N \in Nat
    BY <1>2, LogGrows
  <1>4. SessionFits(new, L, s)
    BY <1>2, FitsLonger
  <1>5. /\ t \in GroupSession /\ t.leaf = s.leaf /\ t.chain = s.chain /\ t.applied = s.applied
        /\ t.pending = TRUE /\ t.pendingSeq = N + 1
    <2>1. N + 1 \in Nat
      BY <1>3
    <2> HIDE DEF new
    <2>2. QED
      BY <1>1, <1>3, <2>1 DEF GroupSession
  <1>6. e.author = s.leaf /\ e.base = s.chain
    OBVIOUS
  <1> HIDE DEF t, new
  <1>7. SessionFits(new, L, t)
    <2>1. t.applied \in 0..(N + 1) /\ t.pendingSeq > t.applied /\ t.pendingSeq \in 0..(N + 1)
      BY <1>1, <1>3, <1>5
    <2>2. s.chain = L[s.applied]
      BY <1>1
    <2>3. QED
      BY <1>3, <1>5, <1>6, <2>1, <2>2 DEF SessionFits
  <1>8. /\ SessionFits(new, L, out.s)
        /\ out.ok /\ t.pendingSeq = Len(new) /\ t.applied < Len(new)
              => new[Len(new)].base = L[Len(new) - 1]
    <2>1. out = Groups!Advance(new, t)
      BY DEF new, t
    <2>2. EpochsOf(new, L)
      BY DEF new
    <2>3. QED
      BY <1>3, <1>7, <2>1, <2>2, AdvanceFits
  <1>9. ASSUME out.ok PROVE WelcomeFits(new, L, [leaf |-> l, chain |-> Append(e.base, Len(new))])
    <2>1. e.base = L[N] /\ e.base \in Seq(Nat)
      <3>1. t.applied < N + 1 /\ (N + 1) - 1 = N
        BY <1>1, <1>3, <1>5
      <3>2. QED
        BY <1>1, <1>3, <1>5, <1>6, <1>8, <1>9, <3>1 DEF GroupSession
    <2> DEFINE c == Append(e.base, N + 1)
    <2>2. L[N + 1] = c
      <3>1. N + 1 \in 1..Len(new) /\ (N + 1) - 1 = N
        BY <1>3
      <3>2. EpochsOf(new, L)
        BY DEF new
      <3>3. \A n \in 1..Len(new) :
                L[n] = IF new[n].base = L[n - 1] THEN Append(L[n - 1], n) ELSE L[n - 1]
        BY <3>2 DEF EpochsOf
      <3> HIDE DEF N
      <3>4. L[N + 1] = IF new[N + 1].base = L[N] THEN Append(L[N], N + 1) ELSE L[N]
        BY <3>1, <3>3
      <3>5. QED
        BY <1>3, <2>1, <3>4
    <2>3. c \in Seq(Nat) /\ Len(c) = Len(e.base) + 1 /\ c[Len(e.base) + 1] = N + 1
      BY <1>3, <2>1, AppendProperties
    <2>4. Len(e.base) \in Nat
      BY <2>1, SeqIs
    <2> HIDE DEF c
    <2>5. c[Len(c)] = N + 1 /\ c # <<>> /\ N + 1 \in 1..Len(new)
      <3>1. Len(<<>>) = 0
        OBVIOUS
      <3>2. QED
        BY <1>3, <2>3, <2>4, <3>1
    <2>6. WelcomeFits(new, L, [leaf |-> l, chain |-> c])
      BY <1>3, <2>2, <2>3, <2>5 DEF WelcomeFits
    <2>7. QED
      BY <1>3, <2>6 DEF c
  <1>10. QED
    BY <1>8, <1>9 DEF new

-----------------------------------------------------------------------------
LEMMA GroupInitOK == Groups!GroupAssumption /\ Groups!Init => GroupInv
  <1> SUFFICES ASSUME Groups!GroupAssumption, Groups!Init PROVE GroupInv
    OBVIOUS
  <1>1. <<Founder, 0>> \in Groups!Leaf /\ 0 \in 0..MaxLeaves
    BY DEF Groups!GroupAssumption, Groups!Leaf
  <1>2. GroupTypes
    <2>1. IsFiniteSet({})
      BY FS_EmptySet
    <2>2. QED
      BY <1>1, <2>1 DEF Groups!Init, GroupTypes
  <1> DEFINE K == [n \in 0..0 |-> <<>>]
  <1>3. EpochsOf(<<>>, K) /\ EpochsGrow(<<>>, K)
    <2>1. \A n \in 0..0 : n = 0 /\ K[n] = <<>>
      OBVIOUS
    <2>2. Groups!Prefix(<<>>, <<>>) /\ Len(<<>>) = 0
      BY PrefixSelf, EmptySeq
    <2>3. 0 \in 0..0 /\ 1..0 = {} /\ K \in [0..0 -> Seq(Nat)]
      OBVIOUS
    <2> HIDE DEF K
    <2>4. EpochsOf(<<>>, K)
      BY <2>1, <2>2, <2>3 DEF EpochsOf
    <2>5. EpochsGrow(<<>>, K)
      BY <2>1, <2>2, <2>3 DEF EpochsGrow
    <2>6. QED
      BY <2>4, <2>5
  <1>4. \A m \in GroupNode : sess[m] = Groups!NoSession \/ SessionFits(<<>>, K, sess[m])
    <2> DEFINE s == Groups!Session(<<Founder, 0>>, <<>>, 0)
    <2>1. K[0] = <<>> /\ Len(<<>>) = 0 /\ 0 \in 0..0
      OBVIOUS
    <2> HIDE DEF K
    <2>2. s \in GroupSession /\ s.applied = 0 /\ s.pendingSeq = 0 /\ s.chain = <<>> /\ s.pending = FALSE
      BY <1>1 DEF Groups!Session, GroupSession
    <2> HIDE DEF s
    <2>3. SessionFits(<<>>, K, s)
      BY <2>1, <2>2 DEF SessionFits
    <2>4. \A m \in GroupNode : sess[m] = Groups!NoSession \/ sess[m] = s
      BY DEF Groups!Init, s
    <2>5. QED
      BY <2>3, <2>4
  <1> HIDE DEF K
  <1>5. commits = <<>> /\ welcomes = {} /\ filed = {} /\ DOMAIN sess = GroupNode
    BY DEF Groups!Init
  <1>6. \A m \in GroupNode : frames[m] = <<>>
    BY DEF Groups!Init
  <1>7. \E L : /\ EpochsOf(commits, L) /\ EpochsGrow(commits, L)
               /\ DOMAIN sess = GroupNode
               /\ \A m \in GroupNode : sess[m] = Groups!NoSession \/ SessionFits(commits, L, sess[m])
               /\ \A w \in welcomes : WelcomeFits(commits, L, w)
    BY <1>3, <1>4, <1>5
  <1>8. \A m \in GroupNode : DOMAIN frames[m] = {}
    BY <1>6
  <1>9. QED
    BY <1>2, <1>5, <1>7, <1>8 DEF GroupInv

LEMMA SameGroupSize ==
    \A S : Groups!Cardinality(S) = Cardinality(S)
  BY DEF Groups!Cardinality, Cardinality

\* Messages and what was read, when the log grows or stays.
MailFits ==
    /\ \A m \in GroupNode : \A i \in DOMAIN frames[m] : MessageFits(commits, frames[m][i])
    /\ \A f \in filed : MessageFits(commits, f.msg) /\ f.leaf \in Groups!Roster(commits, f.msg.chain)

LEMMA CommitKeeps ==
    ASSUME GroupInv, NEW m \in GroupNode, Groups!MayCommit(m), NEW op \in {"add", "remove"}, NEW l \in Groups!Leaf,
           Groups!Commit(m, op, l)
    PROVE  GroupInv'
  <1> DEFINE e == [author |-> sess[m].leaf, base |-> sess[m].chain, op |-> op, who |-> l]
             log == Append(commits, e)
             out == Groups!Advance(log, [sess[m] EXCEPT !.pending = TRUE, !.pendingSeq = Len(log)])
             w == [leaf |-> l, chain |-> Append(e.base, Len(log))]
  <1>1. PICK K : /\ EpochsOf(commits, K) /\ EpochsGrow(commits, K)
                 /\ DOMAIN sess = GroupNode
                 /\ \A n \in GroupNode : sess[n] = Groups!NoSession \/ SessionFits(commits, K, sess[n])
                 /\ \A v \in welcomes : WelcomeFits(commits, K, v)
    BY DEF GroupInv
  <1>2. SessionFits(commits, K, sess[m])
    BY <1>1 DEF Groups!MayCommit, Groups!HasSession
  <1>3. commits \in Seq(LogEntry)
    BY DEF GroupInv, GroupTypes
  <1>4. e \in LogEntry
    BY <1>2 DEF SessionFits, GroupSession, LogEntry
  <1>5. PICK L : /\ EpochsOf(log, L) /\ EpochsGrow(log, L) /\ \A n \in 0..Len(commits) : L[n] = K[n]
    BY <1>1, <1>3, <1>4, EpochsExtend
  <1>6. commits' = log /\ sess' = [sess EXCEPT ![m] = out.s]
    BY DEF Groups!Commit
  <1>7. (welcomes' = welcomes) \/ (out.ok /\ welcomes' = welcomes \union {w})
    BY DEF Groups!Commit
  <1>8. UNCHANGED <<leaf, published, frames, said, filed>>
    BY DEF Groups!Commit
  <1>9. SessionFits(log, L, out.s) /\ (out.ok => WelcomeFits(log, L, w))
    BY <1>1, <1>2, <1>3, <1>5, CommitFits
  <1>10. log \in Seq(LogEntry)
    BY <1>3, <1>4, LogGrows
  <1>11. \A n \in GroupNode : sess[n] = Groups!NoSession \/ SessionFits(log, L, sess[n])
    BY <1>1, <1>3, <1>4, <1>5, FitsLonger
  <1>12. \A v \in welcomes : WelcomeFits(log, L, v)
    BY <1>1, <1>3, <1>4, <1>5, WelcomeFitsLonger
  <1>13. ASSUME NEW msg, MessageFits(commits, msg)
         PROVE  MessageFits(log, msg) /\ Groups!Roster(log, msg.chain) = Groups!Roster(commits, msg.chain)
    <2>1. msg.chain \in Seq(Nat) /\ \A i \in 1..Len(msg.chain) : msg.chain[i] \in 1..Len(commits)
      BY <1>13 DEF MessageFits, GroupMessage
    <2>2. Len(log) = Len(commits) + 1 /\ Len(commits) \in Nat
      BY <1>3, <1>4, LogGrows
    <2>3. Groups!Roster(log, msg.chain) = Groups!Roster(commits, msg.chain)
      BY <1>3, <1>4, <2>1, RosterStays
    <2> HIDE DEF log
    <2>4. MessageFits(log, msg)
      BY <1>13, <2>1, <2>2 DEF MessageFits
    <2>5. QED
      BY <2>3, <2>4
  <1>14. MailFits
    BY DEF GroupInv, MailFits
  <1>15. GroupTypes
    BY DEF GroupInv
  <1> HIDE DEF e, log, out, w
  <1>16. GroupTypes'
    BY <1>6, <1>8, <1>10, <1>15 DEF GroupTypes
  <1>17. \A n \in GroupNode : sess'[n] = Groups!NoSession \/ SessionFits(log, L, sess'[n])
    BY <1>1, <1>6, <1>9, <1>11
  <1>18. DOMAIN sess' = GroupNode
    BY <1>1, <1>6
  <1>19. \A v \in welcomes' : WelcomeFits(log, L, v)
    BY <1>7, <1>9, <1>12
  <1>20. /\ \A n \in GroupNode : \A i \in DOMAIN frames'[n] : MessageFits(commits', frames'[n][i])
         /\ \A f \in filed' : MessageFits(commits', f.msg) /\ f.leaf \in Groups!Roster(commits', f.msg.chain)
    BY <1>6, <1>8, <1>13, <1>14 DEF MailFits
  <1>21. \E J : /\ EpochsOf(commits', J) /\ EpochsGrow(commits', J)
                /\ DOMAIN sess' = GroupNode
                /\ \A n \in GroupNode : sess'[n] = Groups!NoSession \/ SessionFits(commits', J, sess'[n])
                /\ \A v \in welcomes' : WelcomeFits(commits', J, v)
    BY <1>5, <1>6, <1>17, <1>18, <1>19
  <1>22. QED
    BY <1>16, <1>20, <1>21 DEF GroupInv

\* Steps that leave the log and the Welcomes alone.
LEMMA SessionsKept ==
    ASSUME GroupInv, UNCHANGED <<commits, welcomes>>, DOMAIN sess' = GroupNode,
           \A K : EpochsOf(commits, K) /\ EpochsGrow(commits, K)
                   /\ (\A n \in GroupNode : sess[n] = Groups!NoSession \/ SessionFits(commits, K, sess[n]))
                   /\ (\A w \in welcomes : WelcomeFits(commits, K, w))
                => \A n \in GroupNode : sess'[n] = Groups!NoSession \/ SessionFits(commits, K, sess'[n]),
           GroupTypes', MailFits'
    PROVE  GroupInv'
  <1>1. PICK K : /\ EpochsOf(commits, K) /\ EpochsGrow(commits, K)
                 /\ DOMAIN sess = GroupNode
                 /\ \A n \in GroupNode : sess[n] = Groups!NoSession \/ SessionFits(commits, K, sess[n])
                 /\ \A w \in welcomes : WelcomeFits(commits, K, w)
    BY DEF GroupInv
  <1>2. \A n \in GroupNode : sess'[n] = Groups!NoSession \/ SessionFits(commits, K, sess'[n])
    BY <1>1
  <1>3. commits' = commits /\ welcomes' = welcomes
    OBVIOUS
  <1>4. \E J : /\ EpochsOf(commits', J) /\ EpochsGrow(commits', J)
               /\ DOMAIN sess' = GroupNode
               /\ \A n \in GroupNode : sess'[n] = Groups!NoSession \/ SessionFits(commits', J, sess'[n])
               /\ \A w \in welcomes' : WelcomeFits(commits', J, w)
    BY <1>1, <1>2, <1>3
  <1>5. QED
    BY <1>4 DEF GroupInv, MailFits

LEMMA PublishKeeps == Groups!GroupAssumption /\ GroupInv /\ (\E m \in GroupNode : Groups!PublishKeyPackage(m)) => GroupInv'
  <1> SUFFICES ASSUME Groups!GroupAssumption, GroupInv, NEW m \in GroupNode, Groups!PublishKeyPackage(m)
               PROVE  GroupInv'
    OBVIOUS
  <1>1. GroupTypes'
    <2>1. published[m] \in Nat /\ MaxLeaves \in Nat /\ published[m] < MaxLeaves
      BY DEF Groups!GroupAssumption, GroupInv, GroupTypes, Groups!PublishKeyPackage
    <2>2. published[m] + 1 \in 0..MaxLeaves
      BY <2>1
    <2>3. published' \in [GroupNode -> 0..MaxLeaves]
      BY <2>2 DEF GroupInv, GroupTypes, Groups!PublishKeyPackage
    <2>4. leaf' \in [GroupNode -> 0..MaxLeaves]
      BY <2>3 DEF GroupInv, GroupTypes, Groups!PublishKeyPackage
    <2>5. QED
      BY <2>3, <2>4 DEF GroupInv, GroupTypes, Groups!PublishKeyPackage
  <1>2. UNCHANGED <<commits, welcomes, sess, frames, filed>>
    BY DEF Groups!PublishKeyPackage
  <1>3. MailFits'
    BY <1>2 DEF GroupInv, MailFits
  <1>4. DOMAIN sess' = GroupNode
    BY <1>2 DEF GroupInv
  <1>5. QED
    BY <1>1, <1>2, <1>3, <1>4, SessionsKept

LEMMA ApplyCommittedKeeps == GroupInv /\ (\E m \in GroupNode : Groups!ApplyCommitted(m)) => GroupInv'
  <1> SUFFICES ASSUME GroupInv, NEW m \in GroupNode, Groups!ApplyCommitted(m)
               PROVE  GroupInv'
    OBVIOUS
  <1>1. UNCHANGED <<leaf, published, commits, welcomes, said, frames, filed>>
    BY DEF Groups!ApplyCommitted
  <1>2. GroupTypes'
    BY <1>1 DEF GroupInv, GroupTypes
  <1>3. MailFits'
    BY <1>1 DEF GroupInv, MailFits
  <1>4. DOMAIN sess' = GroupNode
    BY DEF GroupInv, Groups!ApplyCommitted
  <1>5. commits \in Seq(LogEntry) /\ DOMAIN sess = GroupNode
    BY DEF GroupInv, GroupTypes
  <1>6. ASSUME NEW K, EpochsOf(commits, K),
               \A n \in GroupNode : sess[n] = Groups!NoSession \/ SessionFits(commits, K, sess[n]),
               NEW n \in GroupNode
        PROVE  sess'[n] = Groups!NoSession \/ SessionFits(commits, K, sess'[n])
    <2>1. CASE n # m
      BY <1>5, <1>6, <2>1 DEF Groups!ApplyCommitted
    <2>2. CASE n = m
      <3>1. SessionFits(commits, K, sess[m])
        BY <1>6 DEF Groups!ApplyCommitted, Groups!HasSession
      <3>2. SessionFits(commits, K, Groups!Advance(commits, sess[m]).s)
        BY <1>5, <1>6, <3>1, AdvanceFits
      <3>3. sess'[m] = Groups!Advance(commits, sess[m]).s
        BY <1>5 DEF Groups!ApplyCommitted
      <3>4. QED
        BY <2>2, <3>2, <3>3
    <2>3. QED
      BY <2>1, <2>2
  <1>7. QED
    BY <1>1, <1>2, <1>3, <1>4, <1>6, SessionsKept

LEMMA JoinKeeps ==
    LateJoins = FALSE /\ Groups!GroupAssumption /\ GroupInv
        /\ (\E m \in GroupNode, w \in welcomes : Groups!JoinGroup(m, w)) => GroupInv'
  <1> SUFFICES ASSUME LateJoins = FALSE, Groups!GroupAssumption, GroupInv,
                      NEW m \in GroupNode, NEW w \in welcomes, Groups!JoinGroup(m, w)
               PROVE  GroupInv'
    OBVIOUS
  <1>1. UNCHANGED <<published, commits, welcomes, said, frames, filed>>
    BY DEF Groups!JoinGroup
  <1>2. GroupTypes'
    <2>1. 0 \in 0..MaxLeaves
      BY DEF Groups!GroupAssumption
    <2>2. leaf' \in [GroupNode -> 0..MaxLeaves]
      BY <2>1 DEF GroupInv, GroupTypes, Groups!JoinGroup
    <2>3. QED
      BY <1>1, <2>2 DEF GroupInv, GroupTypes
  <1>3. MailFits'
    BY <1>1 DEF GroupInv, MailFits
  <1>4. DOMAIN sess' = GroupNode
    BY DEF GroupInv, Groups!JoinGroup
  <1>5. commits \in Seq(LogEntry) /\ DOMAIN sess = GroupNode
    BY DEF GroupInv, GroupTypes
  <1>6. ASSUME NEW K, \A n \in GroupNode : sess[n] = Groups!NoSession \/ SessionFits(commits, K, sess[n]),
               \A v \in welcomes : WelcomeFits(commits, K, v),
               NEW n \in GroupNode
        PROVE  sess'[n] = Groups!NoSession \/ SessionFits(commits, K, sess'[n])
    <2> DEFINE s == Groups!Session(w.leaf, w.chain, Len(commits))
    <2>1. w \in [leaf : Groups!Leaf, chain : Seq(Nat)] /\ w.chain = K[w.chain[Len(w.chain)]]
      BY <1>6 DEF WelcomeFits
    <2>2. w.chain[Len(w.chain)] = Len(commits) /\ Len(commits) \in Nat
      BY <1>5, SeqIs DEF Groups!JoinGroup
    <2>3. /\ s \in GroupSession /\ s.applied = Len(commits) /\ s.pendingSeq = 0 /\ s.pending = FALSE
          /\ s.chain = w.chain
      BY <2>1, <2>2 DEF Groups!Session, GroupSession
    <2> HIDE DEF s
    <2>4. SessionFits(commits, K, s)
      BY <2>1, <2>2, <2>3 DEF SessionFits
    <2>5. sess' = sess \/ sess' = [sess EXCEPT ![m] = s]
      BY DEF Groups!JoinGroup, s
    <2>6. QED
      BY <1>5, <1>6, <2>4, <2>5
  <1>7. QED
    BY <1>1, <1>2, <1>3, <1>4, <1>6, SessionsKept

LEMMA BroadcastKeeps == GroupInv /\ (\E m \in GroupNode : Groups!Broadcast(m)) => GroupInv'
  <1> SUFFICES ASSUME GroupInv, NEW m \in GroupNode, Groups!Broadcast(m)
               PROVE  GroupInv'
    OBVIOUS
  <1> DEFINE msg == [chain |-> sess[m].chain, from |-> sess[m].leaf, nr |-> Cardinality(said)]
  <1>1. UNCHANGED <<leaf, published, sess, commits, welcomes, filed>>
    BY DEF Groups!Broadcast
  <1>2. said' = said \union {msg}
    BY SameGroupSize DEF Groups!Broadcast
  <1>3. PICK reached : frames' = [n \in GroupNode |->
                                   IF n \in reached /\ Len(frames[n]) < MaxFrames
                                   THEN Append(frames[n], msg) ELSE frames[n]]
    <2>1. PICK reached : frames' = [n \in GroupNode |->
                                   IF n \in reached /\ Len(frames[n]) < MaxFrames
                                   THEN Append(frames[n], [chain |-> sess[m].chain, from |-> sess[m].leaf,
                                                           nr |-> Groups!Cardinality(said)])
                                   ELSE frames[n]]
      BY Zenon DEF Groups!Broadcast
    <2>2. Groups!Cardinality(said) = Cardinality(said)
      BY SameGroupSize
    <2>3. QED
      BY <2>1, <2>2
  <1>4. MessageFits(commits, msg)
    <2>1. PICK K : EpochsOf(commits, K) /\ EpochsGrow(commits, K) /\ SessionFits(commits, K, sess[m])
      BY DEF GroupInv, Groups!Broadcast, Groups!HasSession
    <2> DEFINE s == sess[m]
    <2>2. s \in GroupSession /\ s.applied \in 0..Len(commits) /\ s.chain = K[s.applied]
      BY <2>1 DEF SessionFits
    <2>3. Len(commits) \in Nat
      BY SeqIs DEF GroupInv, GroupTypes
    <2>4. \A i \in 1..Len(s.chain) : s.chain[i] \in 1..Len(commits)
      <3>1. \A i \in 1..Len(K[s.applied]) : K[s.applied][i] \in 1..s.applied
        BY <2>1, <2>2 DEF EpochsGrow
      <3> HIDE DEF s
      <3>2. QED
        BY <2>2, <2>3, <3>1
    <2>5. Cardinality(said) \in Nat
      BY FS_CardinalityType DEF GroupInv, GroupTypes
    <2>6. msg \in GroupMessage
      BY <2>2, <2>5 DEF GroupMessage, GroupSession
    <2>7. msg.chain = s.chain
      OBVIOUS
    <2> HIDE DEF msg, s
    <2>8. QED
      BY <2>4, <2>6, <2>7 DEF MessageFits
  <1> HIDE DEF msg
  <1>5. IsFiniteSet(said')
    BY <1>2, FS_AddElement DEF GroupInv, GroupTypes
  <1>6. ASSUME NEW n \in GroupNode
        PROVE  /\ frames'[n] \in Seq(GroupMessage)
               /\ \A i \in DOMAIN frames'[n] : MessageFits(commits, frames'[n][i])
    <2>1. frames[n] \in Seq(GroupMessage) /\ \A i \in DOMAIN frames[n] : MessageFits(commits, frames[n][i])
      BY DEF GroupInv, GroupTypes
    <2>2. frames'[n] = frames[n] \/ frames'[n] = Append(frames[n], msg)
      BY <1>3
    <2>3. msg \in GroupMessage
      BY <1>4 DEF MessageFits
    <2>4. /\ Append(frames[n], msg) \in Seq(GroupMessage)
          /\ DOMAIN Append(frames[n], msg) = 1..(Len(frames[n]) + 1)
          /\ \A i \in 1..Len(frames[n]) : Append(frames[n], msg)[i] = frames[n][i]
          /\ Append(frames[n], msg)[Len(frames[n]) + 1] = msg
          /\ DOMAIN frames[n] = 1..Len(frames[n]) /\ Len(frames[n]) \in Nat
      <3>1. Append(frames[n], msg) \in Seq(GroupMessage) /\ Len(Append(frames[n], msg)) = Len(frames[n]) + 1
        BY <2>1, <2>3, AppendProperties
      <3>2. /\ \A i \in 1..Len(frames[n]) : Append(frames[n], msg)[i] = frames[n][i]
            /\ Append(frames[n], msg)[Len(frames[n]) + 1] = msg
        BY <2>1, <2>3, AppendProperties
      <3>3. DOMAIN Append(frames[n], msg) = 1..Len(Append(frames[n], msg))
        BY <3>1, SeqIs
      <3>4. DOMAIN frames[n] = 1..Len(frames[n]) /\ Len(frames[n]) \in Nat
        BY <2>1, SeqIs
      <3>5. QED
        BY <3>1, <3>2, <3>3, <3>4
    <2>5. \A i \in DOMAIN Append(frames[n], msg) : i = Len(frames[n]) + 1 \/ i \in 1..Len(frames[n])
      BY <2>4
    <2>6. \A i \in DOMAIN Append(frames[n], msg) : MessageFits(commits, Append(frames[n], msg)[i])
      BY <1>4, <2>1, <2>4, <2>5
    <2>7. QED
      BY <2>1, <2>2, <2>4, <2>6
  <1>7. frames' \in [GroupNode -> Seq(GroupMessage)]
    <2>1. frames' = [n \in GroupNode |-> frames'[n]]
      BY <1>3
    <2>2. QED
      BY <1>6, <2>1
  <1>8. GroupTypes'
    BY <1>1, <1>5, <1>7 DEF GroupInv, GroupTypes
  <1>9. MailFits'
    BY <1>1, <1>6 DEF GroupInv, MailFits
  <1>10. DOMAIN sess' = GroupNode
    BY <1>1 DEF GroupInv
  <1>11. QED
    BY <1>1, <1>8, <1>9, <1>10, SessionsKept

LEMMA PumpKeeps == GroupInv /\ (\E m \in GroupNode : Groups!PumpGroupInbox(m)) => GroupInv'
  <1> SUFFICES ASSUME GroupInv, NEW m \in GroupNode, Groups!PumpGroupInbox(m)
               PROVE  GroupInv'
    OBVIOUS
  <1>1. UNCHANGED <<leaf, published, sess, commits, welcomes, said>>
    BY DEF Groups!PumpGroupInbox
  <1>2. frames' = [frames EXCEPT ![m] = <<>>]
    BY DEF Groups!PumpGroupInbox
  <1>3. GroupTypes'
    <2>1. frames' \in [GroupNode -> Seq(GroupMessage)]
      BY <1>2 DEF GroupInv, GroupTypes
    <2>2. QED
      BY <1>1, <2>1 DEF GroupInv, GroupTypes
  <1>4. ASSUME NEW f \in filed' PROVE MessageFits(commits, f.msg) /\ f.leaf \in Groups!Roster(commits, f.msg.chain)
    <2>1. CASE f \in filed
      BY <2>1 DEF GroupInv
    <2>2. CASE f \notin filed
      <3>1. PICK i \in DOMAIN frames[m] : Groups!Readable(m, frames[m][i]) /\ f = [leaf |-> sess[m].leaf, msg |-> frames[m][i]]
        BY <1>4, <2>2 DEF Groups!PumpGroupInbox
      <3>2. f.leaf = sess[m].leaf /\ f.msg = frames[m][i]
        BY <3>1
      <3>3. MessageFits(commits, frames[m][i])
        BY DEF GroupInv
      <3>4. sess[m].leaf \in Groups!Roster(commits, frames[m][i].chain)
        BY <3>1 DEF Groups!Readable, Groups!Active
      <3>5. QED
        BY <3>2, <3>3, <3>4
    <2>3. QED
      BY <2>1, <2>2
  <1>5. MailFits'
    <2>1. ASSUME NEW n \in GroupNode, NEW i \in DOMAIN frames'[n] PROVE MessageFits(commits, frames'[n][i])
      <3>1. n = m => frames'[n] = <<>>
        BY <1>2 DEF GroupInv, GroupTypes
      <3>2. n # m
        BY <3>1
      <3>3. frames'[n] = frames[n]
        BY <1>2, <3>2 DEF GroupInv, GroupTypes
      <3>4. QED
        BY <3>3 DEF GroupInv
    <2>2. QED
      BY <1>1, <1>4, <2>1 DEF MailFits
  <1>6. DOMAIN sess' = GroupNode
    BY <1>1 DEF GroupInv
  <1>7. QED
    BY <1>1, <1>3, <1>5, <1>6, SessionsKept

LEMMA GroupStep ==
    LateJoins = FALSE /\ Groups!GroupAssumption /\ GroupInv /\ [Groups!Next]_Groups!vars => GroupInv'
  <1> SUFFICES ASSUME LateJoins = FALSE, Groups!GroupAssumption, GroupInv, [Groups!Next]_Groups!vars PROVE GroupInv'
    OBVIOUS
  <1>1. CASE \E m \in GroupNode, l \in Groups!Leaf : Groups!GroupAddMember(m, l) \/ Groups!GroupRemoveMember(m, l)
    <2>1. PICK m \in GroupNode, l \in Groups!Leaf : Groups!GroupAddMember(m, l) \/ Groups!GroupRemoveMember(m, l)
      BY <1>1
    <2>2. CASE Groups!GroupAddMember(m, l)
      BY <2>2, CommitKeeps DEF Groups!GroupAddMember
    <2>3. CASE Groups!GroupRemoveMember(m, l)
      BY <2>3, CommitKeeps DEF Groups!GroupRemoveMember
    <2>4. QED
      BY <2>1, <2>2, <2>3
  <1>2. CASE UNCHANGED Groups!vars
    <2>1. UNCHANGED <<leaf, published, sess, commits, welcomes, frames, said, filed>>
      BY <1>2 DEF Groups!vars
    <2>2. GroupTypes' /\ MailFits' /\ DOMAIN sess' = GroupNode
      BY <2>1 DEF GroupInv, GroupTypes, MailFits
    <2>3. QED
      BY <2>1, <2>2, SessionsKept
  <1>3. CASE \E m \in GroupNode : Groups!PublishKeyPackage(m)
    BY <1>3, PublishKeeps
  <1>4. CASE \E m \in GroupNode : Groups!ApplyCommitted(m)
    BY <1>4, ApplyCommittedKeeps
  <1>5. CASE \E m \in GroupNode : Groups!Broadcast(m)
    BY <1>5, BroadcastKeeps
  <1>6. CASE \E m \in GroupNode : Groups!PumpGroupInbox(m)
    BY <1>6, PumpKeeps
  <1>7. CASE \E m \in GroupNode, w \in welcomes : Groups!JoinGroup(m, w)
    BY <1>7, JoinKeeps
  <1>8. QED
    BY <1>1, <1>2, <1>3, <1>4, <1>5, <1>6, <1>7 DEF Groups!Next

\* The epochs of sessions that fit one log.
LEMMA GroupInvAgrees == GroupInv => Groups!GroupsAgree
  <1> SUFFICES ASSUME GroupInv PROVE Groups!GroupsAgree
    OBVIOUS
  <1>1. PICK K : /\ EpochsOf(commits, K) /\ EpochsGrow(commits, K)
                 /\ \A m \in GroupNode : sess[m] = Groups!NoSession \/ SessionFits(commits, K, sess[m])
    BY DEF GroupInv
  <1>2. ASSUME NEW m \in Groups!Sessions
        PROVE  /\ SessionFits(commits, K, sess[m])
               /\ sess[m].applied \in 0..Len(commits) /\ sess[m].chain = K[sess[m].applied]
               /\ sess[m].chain \in Seq(Nat) /\ sess[m].applied \in Nat
    <2>1. SessionFits(commits, K, sess[m])
      BY <1>1 DEF Groups!Sessions, Groups!HasSession
    <2>2. QED
      BY <2>1 DEF SessionFits, GroupSession
  <1>3. Groups!PlaceTellsEpoch
    <2> SUFFICES ASSUME NEW m \in Groups!Sessions, NEW n \in Groups!Sessions, sess[m].applied <= sess[n].applied
                 PROVE  Groups!Prefix(sess[m].chain, sess[n].chain)
      BY DEF Groups!PlaceTellsEpoch
    <2>1. QED
      BY <1>1, <1>2 DEF EpochsGrow
  <1>4. Groups!ChainsAgree
    <2> SUFFICES ASSUME NEW m \in Groups!Sessions, NEW n \in Groups!Sessions
                 PROVE  Groups!Prefix(sess[m].chain, sess[n].chain) \/ Groups!Prefix(sess[n].chain, sess[m].chain)
      BY DEF Groups!ChainsAgree
    <2>1. sess[m].applied <= sess[n].applied \/ sess[n].applied <= sess[m].applied
      BY <1>2
    <2>2. QED
      BY <1>3, <2>1 DEF Groups!PlaceTellsEpoch
  <1>5. Groups!PendingIsNext
    <2> SUFFICES ASSUME NEW m \in Groups!Sessions, sess[m].pending
                 PROVE  /\ sess[m].pendingSeq \in (sess[m].applied + 1)..Len(commits)
                        /\ commits[sess[m].pendingSeq].author = sess[m].leaf
                        /\ commits[sess[m].pendingSeq].base = sess[m].chain
      BY DEF Groups!PendingIsNext
    <2>1. SessionFits(commits, K, sess[m])
      BY <1>2
    <2> DEFINE s == sess[m]
    <2>2. /\ s.pending /\ s.applied \in 0..Len(commits) /\ s.pendingSeq \in 0..Len(commits)
          /\ s.pendingSeq > s.applied
          /\ commits[s.pendingSeq].author = s.leaf /\ commits[s.pendingSeq].base = s.chain
      BY <2>1 DEF SessionFits
    <2> HIDE DEF s
    <2>3. s.pendingSeq \in (s.applied + 1)..Len(commits)
      BY <2>2
    <2>4. QED
      BY <2>2, <2>3 DEF s
  <1>6. Groups!SframeKeysAgree
    <2> SUFFICES ASSUME NEW m \in Groups!Sessions, NEW n \in Groups!Sessions, NEW c \in RtcCall, NEW d \in RtcCall
                 PROVE  LET x == Groups!SframeEpochSecret(m, c)
                            y == Groups!SframeEpochSecret(n, d)
                        IN  x.secret = y.secret <=> (x.epoch = y.epoch /\ c = d)
      BY DEF Groups!SframeKeysAgree
    <2> DEFINE x == Groups!SframeEpochSecret(m, c)
               y == Groups!SframeEpochSecret(n, d)
    <2>1. /\ x.secret = <<sess[m].chain, <<c>>>> /\ x.epoch = Len(sess[m].chain)
          /\ y.secret = <<sess[n].chain, <<d>>>> /\ y.epoch = Len(sess[n].chain)
      BY DEF Groups!SframeEpochSecret, Groups!SframeContext
    <2> HIDE DEF x, y
    <2>2. Len(sess[m].chain) = Len(sess[n].chain) => sess[m].chain = sess[n].chain
      BY <1>2, <1>4, PrefixSameLength DEF Groups!ChainsAgree
    <2>3. x.secret = y.secret <=> (sess[m].chain = sess[n].chain /\ c = d)
      BY <2>1
    <2>4. x.secret = y.secret <=> (x.epoch = y.epoch /\ c = d)
      BY <2>1, <2>2, <2>3
    <2>5. QED
      BY <2>4 DEF x, y
  <1>7. Groups!ReadByMembers
    BY DEF GroupInv, Groups!ReadByMembers
  <1>8. QED
    BY <1>3, <1>4, <1>5, <1>6, <1>7 DEF Groups!GroupsAgree

\* Whatever commits race each other to the committer, and while a Welcome is used before
\* the next commit is ordered, the sessions of a group (Session::advance) are on one chain
\* of epochs told by their place in the log, a pending commit is of its session's epoch,
\* an epoch and a call name one SFrame secret, and who files a message held a leaf of its
\* epoch; for all nodes, calls, key packages and lengths of the log.
THEOREM GroupsStayAgreed ==
    Groups!GroupAssumption /\ LateJoins = FALSE => (Groups!Spec => []Groups!GroupsAgree)
  <1> SUFFICES ASSUME Groups!GroupAssumption, LateJoins = FALSE PROVE Groups!Spec => []Groups!GroupsAgree
    OBVIOUS
  <1>1. Groups!Init => GroupInv
    BY GroupInitOK
  <1>2. GroupInv /\ [Groups!Next]_Groups!vars => GroupInv'
    BY GroupStep
  <1>3. GroupInv => Groups!GroupsAgree
    BY GroupInvAgrees
  <1>4. QED
    BY <1>1, <1>2, <1>3, PTL DEF Groups!Spec

CONSTANTS Group, Suite, XWing, MaxSteps
VARIABLES highest, passed

Suites == INSTANCE MlsSuite WITH marks <- highest, history <- passed

Handshake == [suite : Suite, how : {"accept", "observe"}]

\* The mark of a group is no lower than anything it saw since it was last retired.
SuiteInv ==
    /\ highest \in [Group -> {Suites!Unset} \union (0..2)]
    /\ passed \in [Group -> Seq(Handshake)]
    /\ \A g \in Group : \A i \in DOMAIN passed[g] : Suites!SecurityLevel(passed[g][i].suite) <= highest[g]
    /\ Suites!NoSuiteDowngrade

LEMMA LevelRange == \A cs : Suites!SecurityLevel(cs) \in 0..2
  BY DEF Suites!SecurityLevel

LEMMA RaisedBounds ==
    ASSUME NEW mark \in {Suites!Unset} \union (0..2), NEW cs
    PROVE  /\ Suites!Raised(mark, cs) \in 0..2
           /\ Suites!Raised(mark, cs) >= mark /\ Suites!Raised(mark, cs) >= Suites!SecurityLevel(cs)
  BY LevelRange DEF Suites!Raised, Suites!Unset

LEMMA ObserveKeeps ==
    ASSUME SuiteInv, NEW g \in Group, NEW cs \in Suite, NEW how \in {"accept", "observe"},
           Suites!Observe(g, cs, how), how = "accept" => Suites!SecurityLevel(cs) >= highest[g]
    PROVE  SuiteInv'
  <1> DEFINE e == [suite |-> cs, how |-> how]
             h == passed[g]
             n == Len(h) + 1
  <1>1. h \in Seq(Handshake) /\ highest[g] \in {Suites!Unset} \union (0..2) /\ e \in Handshake
    BY DEF SuiteInv, Handshake
  <1>2. /\ highest' = [highest EXCEPT ![g] = Suites!Raised(highest[g], cs)]
        /\ passed' = [passed EXCEPT ![g] = Append(h, e)]
    BY DEF Suites!Observe
  <1>3. /\ Suites!Raised(highest[g], cs) \in 0..2
        /\ Suites!Raised(highest[g], cs) >= highest[g] /\ Suites!Raised(highest[g], cs) >= Suites!SecurityLevel(cs)
    BY <1>1, RaisedBounds
  <1>4. /\ Append(h, e) \in Seq(Handshake) /\ Len(Append(h, e)) = n
        /\ Append(h, e)[n] = e /\ \A i \in 1..Len(h) : Append(h, e)[i] = h[i]
    BY <1>1, AppendProperties
  <1>5. Len(h) \in Nat /\ DOMAIN h = 1..Len(h) /\ DOMAIN Append(h, e) = 1..n
    BY <1>1, <1>4, LenProperties
  <1>6. e.suite = cs /\ e.how = how
    OBVIOUS
  <1>7. highest[g] \in Int /\ Suites!SecurityLevel(cs) \in Int
    BY <1>1, LevelRange DEF Suites!Unset
  <1>8. \A i \in 1..Len(h) : Suites!SecurityLevel(h[i].suite) <= highest[g] /\ Suites!SecurityLevel(h[i].suite) \in Int
    BY <1>5, LevelRange DEF SuiteInv
  <1> DEFINE new == Append(h, e)
             mark == Suites!Raised(highest[g], cs)
  <1>9. \A i \in 1..n : i = n \/ i \in 1..Len(h)
    BY <1>5
  <1> HIDE DEF e, n, new, mark
  <1>10. ASSUME NEW i \in 1..n PROVE Suites!SecurityLevel(new[i].suite) <= mark
    <2>1. CASE i = n
      BY <1>3, <1>4, <1>6, <2>1 DEF new, mark
    <2>2. CASE i \in 1..Len(h)
      <3>1. new[i] = h[i]
        BY <1>4, <2>2 DEF new
      <3>2. Suites!SecurityLevel(h[i].suite) <= highest[g] /\ Suites!SecurityLevel(h[i].suite) \in Int
        BY <1>8, <2>2
      <3>3. mark \in Int /\ mark >= highest[g]
        BY <1>3 DEF mark
      <3>4. QED
        BY <1>7, <3>1, <3>2, <3>3
    <2>3. QED
      BY <1>9, <2>1, <2>2
  <1>11. ASSUME NEW i \in 1..n, NEW j \in 1..n, i < j, new[j].how = "accept"
         PROVE  Suites!SecurityLevel(new[j].suite) >= Suites!SecurityLevel(new[i].suite)
    <2>1. i \in 1..Len(h)
      BY <1>5, <1>11 DEF n
    <2>2. new[i] = h[i]
      BY <1>4, <2>1 DEF new
    <2>3. CASE j = n
      <3>1. new[j] = e
        BY <1>4, <2>3 DEF new
      <3>2. Suites!SecurityLevel(cs) >= highest[g]
        BY <1>6, <1>11, <3>1
      <3>3. QED
        BY <1>6, <1>7, <1>8, <2>1, <2>2, <3>1, <3>2
    <2>4. CASE j \in 1..Len(h)
      <3>1. new[j] = h[j]
        BY <1>4, <2>4 DEF new
      <3>2. i \in DOMAIN h /\ j \in DOMAIN h
        BY <1>5, <2>1, <2>4
      <3>3. QED
        BY <1>11, <2>2, <3>1, <3>2 DEF SuiteInv, Suites!NoSuiteDowngrade
    <2>5. QED
      BY <1>9, <2>3, <2>4
  <1>12. DOMAIN new = 1..n /\ new \in Seq(Handshake) /\ mark \in 0..2
    BY <1>3, <1>4, <1>5 DEF new, mark
  <1>13. highest' = [highest EXCEPT ![g] = mark] /\ passed' = [passed EXCEPT ![g] = new]
    BY <1>2 DEF new, mark
  <1>14. highest' \in [Group -> {Suites!Unset} \union (0..2)] /\ passed' \in [Group -> Seq(Handshake)]
    BY <1>12, <1>13 DEF SuiteInv
  <1>15. ASSUME NEW k \in Group
         PROVE  (k = g /\ highest'[k] = mark /\ passed'[k] = new)
                \/ (k # g /\ highest'[k] = highest[k] /\ passed'[k] = passed[k])
    BY <1>13 DEF SuiteInv
  <1>16. \A k \in Group : \A i \in DOMAIN passed'[k] : Suites!SecurityLevel(passed'[k][i].suite) <= highest'[k]
    BY <1>10, <1>12, <1>15 DEF SuiteInv
  <1>17. \A k \in Group : \A i, j \in DOMAIN passed'[k] :
            i < j /\ passed'[k][j].how = "accept"
                => Suites!SecurityLevel(passed'[k][j].suite) >= Suites!SecurityLevel(passed'[k][i].suite)
    <2> SUFFICES ASSUME NEW k \in Group, NEW i \in DOMAIN passed'[k], NEW j \in DOMAIN passed'[k],
                        i < j, passed'[k][j].how = "accept"
                 PROVE  Suites!SecurityLevel(passed'[k][j].suite) >= Suites!SecurityLevel(passed'[k][i].suite)
      OBVIOUS
    <2>1. CASE k = g
      <3>1. passed'[k] = new
        BY <1>15, <2>1
      <3>2. QED
        BY <1>11, <1>12, <3>1
    <2>2. CASE k # g
      <3>1. passed'[k] = passed[k]
        BY <1>15, <2>2
      <3>2. QED
        BY <3>1 DEF SuiteInv, Suites!NoSuiteDowngrade
    <2>3. QED
      BY <2>1, <2>2
  <1>18. Suites!NoSuiteDowngrade'
    BY <1>17 DEF Suites!NoSuiteDowngrade, Suites!SecurityLevel, Suites!IsPq
  <1>19. QED
    BY <1>14, <1>16, <1>18 DEF SuiteInv, Suites!SecurityLevel, Suites!IsPq

LEMMA RetireKeeps ==
    ASSUME SuiteInv, NEW g \in Group, NEW cs \in Suite, Suites!RetireTo(g, cs)
    PROVE  SuiteInv'
  <1>1. highest' = [highest EXCEPT ![g] = Suites!SecurityLevel(cs)] /\ passed' = [passed EXCEPT ![g] = <<>>]
    BY DEF Suites!RetireTo
  <1>2. highest' \in [Group -> {Suites!Unset} \union (0..2)] /\ passed' \in [Group -> Seq(Handshake)]
    BY <1>1, LevelRange DEF SuiteInv
  <1>3. ASSUME NEW k \in Group, NEW i \in DOMAIN passed'[k]
        PROVE  k # g /\ highest'[k] = highest[k] /\ passed'[k] = passed[k]
    BY <1>1, <1>3 DEF SuiteInv
  <1>4. \A k \in Group : \A i \in DOMAIN passed'[k] : Suites!SecurityLevel(passed'[k][i].suite) <= highest'[k]
    BY <1>3 DEF SuiteInv
  <1>5. \A k \in Group : \A i, j \in DOMAIN passed'[k] :
            i < j /\ passed'[k][j].how = "accept"
                => Suites!SecurityLevel(passed'[k][j].suite) >= Suites!SecurityLevel(passed'[k][i].suite)
    BY <1>3 DEF SuiteInv, Suites!NoSuiteDowngrade
  <1>6. QED
    BY <1>2, <1>4, <1>5 DEF SuiteInv, Suites!NoSuiteDowngrade, Suites!SecurityLevel, Suites!IsPq

\* MlsCiphersuiteRatchet accepts no handshake below a suite its group accepted or
\* observed since it was last retired, for all groups, suites and interleavings.
THEOREM SuitesNeverFall == Suites!Spec => []Suites!NoSuiteDowngrade
  <1>1. Suites!Init => SuiteInv
    <2> SUFFICES ASSUME Suites!Init PROVE SuiteInv
      OBVIOUS
    <2>1. \A g \in Group : passed[g] = <<>>
      BY DEF Suites!Init
    <2>2. \A g \in Group : DOMAIN passed[g] = {}
      <3>1. DOMAIN <<>> = {}
        OBVIOUS
      <3>2. QED
        BY <2>1, <3>1, Zenon
    <2>3. highest \in [Group -> {Suites!Unset} \union (0..2)] /\ passed \in [Group -> Seq(Handshake)]
      BY DEF Suites!Init
    <2>4. Suites!NoSuiteDowngrade
      BY <2>2 DEF Suites!NoSuiteDowngrade
    <2>5. QED
      BY <2>2, <2>3, <2>4 DEF SuiteInv
  <1>2. SuiteInv /\ [Suites!Next]_Suites!vars => SuiteInv'
    <2> SUFFICES ASSUME SuiteInv, [Suites!Next]_Suites!vars PROVE SuiteInv'
      OBVIOUS
    <2>1. CASE UNCHANGED Suites!vars
      BY <2>1 DEF Suites!vars, SuiteInv, Suites!NoSuiteDowngrade, Suites!SecurityLevel, Suites!IsPq
    <2>2. CASE Suites!Next
      <3>1. PICK g \in Group, cs \in Suite :
                \/ \E members \in SUBSET Suites!Capability : Suites!Accept(g, cs, members)
                \/ Suites!Observe(g, cs, "observe")
                \/ Suites!RetireTo(g, cs)
        BY <2>2 DEF Suites!Next
      <3>2. CASE \E members \in SUBSET Suites!Capability : Suites!Accept(g, cs, members)
        <4>1. Suites!Observe(g, cs, "accept") /\ Suites!SecurityLevel(cs) >= highest[g]
          BY <3>2 DEF Suites!Accept, Suites!Check
        <4>2. QED
          BY <4>1, ObserveKeeps
      <3>3. CASE Suites!Observe(g, cs, "observe")
        BY <3>3, ObserveKeeps
      <3>4. CASE Suites!RetireTo(g, cs)
        BY <3>4, RetireKeeps
      <3>5. QED
        BY <3>1, <3>2, <3>3, <3>4
    <2>3. QED
      BY <2>1, <2>2
  <1>3. SuiteInv => Suites!NoSuiteDowngrade
    BY DEF SuiteInv
  <1>4. QED
    BY <1>1, <1>2, <1>3, PTL DEF Suites!Spec

-----------------------------------------------------------------------------
(* The private tier's wrapping: what is put together is what was sealed.   *)

CONSTANTS EnvelopeLengths, PathLengths, FragmentLen, RMax, MaxWraps
VARIABLES envelope, unwrapped, wraps, outgoing, mixTags, underway, collected, rebuilt

Onions == INSTANCE Onion WITH
    Lengths <- EnvelopeLengths, Hops <- PathLengths, MaxAttempts <- MaxWraps,
    inner <- envelope, refused <- unwrapped, attempts <- wraps, frame <- outgoing,
    tags <- mixTags, transit <- underway, gathered <- collected, opened <- rebuilt

\* How many cells an envelope takes, and the i-th of an attempt.
Count(b) == Onions!Buckets[CHOOSE i \in Onions!Ladder(Len(b)) : TRUE]
Cell(b, s, i) == [tag |-> <<s, i>>, id |-> s, index |-> i, count |-> Count(b),
                  len |-> Len(b), frag |-> Onions!Slice(b, i)]

\* The envelope fits into its cells.
FitsCells(b) ==
    /\ b \in Seq(Nat) /\ b # <<>> /\ Count(b) \in Nat \ {0}
    /\ Len(b) <= Count(b) * FragmentLen

\* What the attempts so far put on their way.
Wrapped(b, n) == UNION {Onions!Wrap(b, s) : s \in 1..n}

\* A mix has seen all tags of an attempt or none.
AllOrNone(b, n, had) ==
    \/ \A i \in 0..(Count(b) - 1) : <<n, i>> \in had
    \/ \A i \in 0..(Count(b) - 1) : <<n, i>> \notin had

OnionInv ==
    /\ wraps \in Nat
    /\ envelope = <<>> => outgoing = {} /\ mixTags = {} /\ underway = {} /\ collected = {} /\ rebuilt = {}
    /\ envelope # <<>> =>
        /\ FitsCells(envelope) /\ wraps >= 1
        /\ outgoing = {} \/ outgoing = Onions!Wrap(envelope, wraps)
        /\ underway \subseteq Wrapped(envelope, wraps)
        /\ collected \subseteq Wrapped(envelope, wraps)
        /\ mixTags \subseteq (1..wraps) \X Nat
        /\ AllOrNone(envelope, wraps, mixTags)
        /\ rebuilt \subseteq {envelope}

LEMMA WrapIsCells ==
    ASSUME NEW b, NEW s
    PROVE  Onions!Wrap(b, s) = {Cell(b, s, i) : i \in 0..(Count(b) - 1)}
  BY DEF Onions!Wrap, Cell, Count

LEMMA CellIs ==
    ASSUME NEW b, NEW s, NEW i
    PROVE  LET c == Cell(b, s, i)
           IN  /\ c.tag = <<s, i>> /\ c.id = s /\ c.index = i /\ c.count = Count(b)
               /\ c.len = Len(b) /\ c.frag = Onions!Slice(b, i)
  BY DEF Cell

\* Slices joined in order are the envelope and zeros behind it.
Padded(b, n) == [j \in 1..n |-> IF j <= Len(b) THEN b[j] ELSE 0]

LEMMA SliceJoins ==
    ASSUME FragmentLen \in Nat \ {0}, NEW b, NEW i \in Nat
    PROVE  Padded(b, i * FragmentLen) \o Onions!Slice(b, i) = Padded(b, (i + 1) * FragmentLen)
  <1> DEFINE F == FragmentLen
             m == i * F
             p == Padded(b, m)
             q == Onions!Slice(b, i)
             Byte(j) == IF j <= Len(b) THEN b[j] ELSE 0
  <1>1. m \in Nat /\ F \in Nat /\ F >= 1 /\ (i + 1) * F = m + F
    OBVIOUS
  <1>2. p = [j \in 1..m |-> Byte(j)]
    BY DEF Padded
  <1>3. q = [k \in 1..F |-> Byte(m + k)]
    BY DEF Onions!Slice
  <1>4. Padded(b, (i + 1) * F) = [j \in 1..(m + F) |-> Byte(j)]
    BY <1>1 DEF Padded
  <1> HIDE DEF F, m, p, q, Byte
  <1> DEFINE B == {Byte(j) : j \in Nat}
  <1>5. p \in Seq(B) /\ Len(p) = m
    <2>1. p \in [1..m -> B]
      BY <1>1, <1>2
    <2>2. QED
      BY <1>1, <2>1
  <1>6. q \in Seq(B) /\ Len(q) = F
    <2>1. q \in [1..F -> B]
      BY <1>1, <1>3
    <2>2. QED
      BY <1>1, <2>1
  <1>7. p \o q = [j \in 1..(m + F) |-> IF j <= m THEN p[j] ELSE q[j - m]]
    <2> HIDE DEF B
    <2>1. p \o q \in Seq(B) /\ Len(p \o q) = m + F
      BY <1>5, <1>6, ConcatProperties
    <2>2. \A j \in 1..(m + F) : (p \o q)[j] = IF j <= m THEN p[j] ELSE q[j - m]
      BY <1>5, <1>6, ConcatProperties
    <2>3. p \o q = [j \in 1..(m + F) |-> (p \o q)[j]]
      <3> DEFINE r == p \o q
      <3>1. r \in Seq(B) /\ Len(r) = m + F
        BY <2>1
      <3> HIDE DEF r
      <3>2. r \in [1..(m + F) -> B]
        BY <3>1, LenProperties
      <3>3. r = [j \in 1..(m + F) |-> r[j]]
        BY <3>2
      <3>4. QED
        BY <3>3 DEF r
    <2>4. QED
      BY <2>2, <2>3
  <1>8. \A j \in 1..(m + F) : (IF j <= m THEN p[j] ELSE q[j - m]) = Byte(j)
    <2> SUFFICES ASSUME NEW j \in 1..(m + F) PROVE (IF j <= m THEN p[j] ELSE q[j - m]) = Byte(j)
      OBVIOUS
    <2>1. CASE j <= m
      <3>1. j \in 1..m
        BY <1>1, <2>1
      <3>2. QED
        BY <1>2, <2>1, <3>1
    <2>2. CASE ~(j <= m)
      <3>1. j - m \in 1..F /\ m + (j - m) = j
        BY <1>1, <2>2
      <3>2. q[j - m] = Byte(m + (j - m))
        BY <1>3, <3>1
      <3>3. QED
        BY <2>2, <3>1, <3>2
    <2>3. QED
      BY <2>1, <2>2
  <1>9. p \o q = [j \in 1..(m + F) |-> Byte(j)]
    BY <1>7, <1>8
  <1>10. QED
    BY <1>4, <1>9 DEF p, q, m, F

\* All slices joined, up to the length of the envelope, are the envelope.
LEMMA SlicesJoin ==
    ASSUME Onions!OnionAssumption, NEW b, FitsCells(b), NEW n, n = Count(b)
    PROVE  SubSeq(Onions!FlattenSeq([i \in 1..n |-> Onions!Slice(b, i - 1)]), 1, Len(b)) = b
  <1> DEFINE seqs == [i \in 1..n |-> Onions!Slice(b, i - 1)]
             F == FragmentLen
             flat == [i \in 1..n |-> Padded(b, i * F)]
             Eq(f) == f = [i \in 1..Len(seqs) |-> IF i = 1 THEN seqs[i] ELSE f[i - 1] \o seqs[i]]
  <1>1. F \in Nat \ {0} /\ n \in Nat \ {0} /\ b \in Seq(Nat) /\ Len(b) \in Nat /\ Len(b) <= n * F
    BY DEF Onions!OnionAssumption, FitsCells
  <1>2. seqs = [i \in 1..n |-> Onions!Slice(b, i - 1)] /\ Len(seqs) = n
    <2> DEFINE S == {Onions!Slice(b, i - 1) : i \in 1..n}
    <2>1. seqs \in Seq(S) /\ Len(seqs) = n
      <3>1. seqs \in [1..n -> S]
        OBVIOUS
      <3> HIDE DEF seqs, S
      <3>2. QED
        BY <1>1, <3>1
    <2>2. QED
      BY <2>1
  <1> HIDE DEF seqs
  <1>3. Onions!FlattenSeq(seqs) = (CHOOSE f : Eq(f))[n]
    <2>1. Len(seqs) # 0
      BY <1>1, <1>2
    <2>2. QED
      BY <1>2, <2>1 DEF Onions!FlattenSeq
  <1>4. \A i \in 1..n : seqs[i] = Onions!Slice(b, i - 1)
    BY <1>2
  <1>5. Padded(b, 0) = <<>>
    BY DEF Padded
  <1>6. Onions!Slice(b, 0) = Padded(b, F)
    <2>1. 0 * F = 0 /\ \A k \in 1..F : 0 * F + k = k
      BY <1>1
    <2>2. QED
      BY <2>1 DEF Onions!Slice, Padded
  <1>7. ASSUME NEW i \in 1..n, i # 1 PROVE Padded(b, (i - 1) * F) \o Onions!Slice(b, i - 1) = Padded(b, i * F)
    <2>1. i - 1 \in Nat /\ (i - 1) + 1 = i
      BY <1>1
    <2>2. Padded(b, (i - 1) * F) \o Onions!Slice(b, i - 1) = Padded(b, ((i - 1) + 1) * F)
      BY <1>1, <2>1, SliceJoins
    <2>3. QED
      BY <2>1, <2>2
  <1>8. Eq(flat)
    <2>1. ASSUME NEW i \in 1..n PROVE flat[i] = IF i = 1 THEN seqs[i] ELSE flat[i - 1] \o seqs[i]
      <3>1. CASE i = 1
        <4>1. flat[1] = Padded(b, 1 * F) /\ 1 * F = F /\ seqs[1] = Onions!Slice(b, 0)
          BY <1>1, <1>4, <3>1
        <4>2. QED
          BY <1>6, <3>1, <4>1
      <3>2. CASE i # 1
        <4>1. i - 1 \in 1..n
          BY <1>1, <3>2
        <4>2. flat[i - 1] = Padded(b, (i - 1) * F) /\ flat[i] = Padded(b, i * F)
          BY <4>1
        <4>3. QED
          BY <1>4, <1>7, <3>2, <4>2
      <3>3. QED
        BY <3>1, <3>2
    <2>2. flat = [i \in 1..n |-> flat[i]]
      OBVIOUS
    <2> HIDE DEF flat
    <2>3. QED
      BY <1>2, <2>1, <2>2
  <1>9. ASSUME NEW f, Eq(f) PROVE f[n] = Padded(b, n * F)
    <2> DEFINE G == {i \in Nat : i + 1 \in 1..n => f[i + 1] = Padded(b, (i + 1) * F)}
    <2>0. \A i \in 1..n : f[i] = IF i = 1 THEN seqs[i] ELSE f[i - 1] \o seqs[i]
      BY <1>2, <1>9
    <2>1. 0 \in G
      <3>1. 0 + 1 = 1 /\ (0 + 1) * F = F /\ 1 \in 1..n
        BY <1>1
      <3>2. f[1] = Onions!Slice(b, 0)
        BY <1>4, <2>0, <3>1
      <3>3. QED
        BY <1>6, <3>1, <3>2
    <2>2. ASSUME NEW i \in Nat, i \in G PROVE i + 1 \in G
      <3> SUFFICES ASSUME (i + 1) + 1 \in 1..n PROVE f[(i + 1) + 1] = Padded(b, ((i + 1) + 1) * F)
        OBVIOUS
      <3> DEFINE k == (i + 1) + 1
      <3>1. k \in 1..n /\ k # 1 /\ k - 1 = i + 1 /\ i + 1 \in 1..n
        BY <1>1
      <3>2. f[k] = f[k - 1] \o seqs[k]
        BY <2>0, <3>1
      <3>3. f[k - 1] = Padded(b, (k - 1) * F)
        BY <2>2, <3>1
      <3> HIDE DEF k
      <3>4. f[k] = Padded(b, k * F)
        BY <1>4, <1>7, <3>1, <3>2, <3>3
      <3>5. QED
        BY <3>4 DEF k
    <2>3. n - 1 \in Nat /\ (n - 1) + 1 = n /\ n \in 1..n
      BY <1>1
    <2>4. G \in SUBSET Nat
      OBVIOUS
    <2>5. n - 1 \in G
      <3> HIDE DEF G
      <3>1. QED
        BY <2>1, <2>2, <2>3, <2>4, NatSetInduction
    <2>6. QED
      BY <2>3, <2>5
  <1>10. Onions!FlattenSeq(seqs) = Padded(b, n * F)
    <2> HIDE DEF Eq, flat
    <2>1. Eq(CHOOSE f : Eq(f))
      BY <1>8
    <2>2. QED
      BY <1>3, <1>9, <2>1
  <1>11. SubSeq(Padded(b, n * F), 1, Len(b)) = b
    <2> DEFINE m == n * F
               p == Padded(b, m)
    <2>1. m \in Nat /\ Len(b) <= m
      BY <1>1
    <2> HIDE DEF m
    <2>2. p = [j \in 1..m |-> IF j <= Len(b) THEN b[j] ELSE 0]
      BY DEF Padded
    <2> HIDE DEF p
    <2>3. p \in [1..m -> Nat]
      <3>1. \A j \in 1..m : (IF j <= Len(b) THEN b[j] ELSE 0) \in Nat
        BY <1>1, <2>1
      <3>2. QED
        BY <2>2, <3>1
    <2>4. p \in Seq(Nat) /\ Len(p) = m
      BY <2>1, <2>3
    <2>5. \A j \in 1..Len(b) : j \in 1..m /\ j <= Len(b)
      BY <1>1, <2>1
    <2>6. \A j \in 1..Len(b) : p[j] = b[j]
      BY <2>2, <2>5
    <2>7. SubSeq(p, 1, Len(b)) = [j \in 1..Len(b) |-> p[j]]
      BY <1>1, <2>1, <2>4
    <2>8. b = [j \in 1..Len(b) |-> b[j]]
      BY <1>1
    <2>9. QED
      BY <2>6, <2>7, <2>8 DEF p, m
  <1>12. QED
    BY <1>10, <1>11 DEF seqs

LEMMA SameCellCount == \A S : Onions!Cardinality(S) = Cardinality(S)
  BY DEF Onions!Cardinality, Cardinality

\* All cells of one attempt, put together, are the envelope.
LEMMA JoinedIsInner ==
    ASSUME Onions!OnionAssumption, NEW b, FitsCells(b), NEW s
    PROVE  Onions!Joined(Onions!Wrap(b, s)) = b
  <1> DEFINE n == Count(b)
             W == Onions!Wrap(b, s)
             h == [i \in 1..n |-> Cell(b, s, i - 1)]
  <1>1. n \in Nat \ {0}
    BY DEF FitsCells
  <1>2. W = {Cell(b, s, i) : i \in 0..(n - 1)}
    BY WrapIsCells
  <1> HIDE DEF W
  <1>3. h \in [1..n -> W]
    <2>1. \A i \in 1..n : i - 1 \in 0..(n - 1)
      BY <1>1
    <2>2. QED
      BY <1>2, <2>1
  <1>4. \A i, j \in 1..n : h[i] = h[j] => i = j
    <2> SUFFICES ASSUME NEW i \in 1..n, NEW j \in 1..n, h[i] = h[j] PROVE i = j
      OBVIOUS
    <2>1. Cell(b, s, i - 1).index = Cell(b, s, j - 1).index
      OBVIOUS
    <2>2. i - 1 = j - 1
      BY <2>1, CellIs
    <2>3. QED
      BY <2>2
  <1>5. \A c \in W : \E i \in 1..n : h[i] = c
    <2> SUFFICES ASSUME NEW c \in W PROVE \E i \in 1..n : h[i] = c
      OBVIOUS
    <2>1. PICK k \in 0..(n - 1) : c = Cell(b, s, k)
      BY <1>2
    <2>2. k + 1 \in 1..n /\ (k + 1) - 1 = k
      BY <1>1
    <2>3. h[k + 1] = c
      BY <2>1, <2>2
    <2>4. QED
      BY <2>2, <2>3
  <1>6. Cardinality(W) = n
    <2>1. h \in Bijection(1..n, W)
      BY <1>3, <1>4, <1>5 DEF Bijection, Injection, Surjection, IsInjective
    <2>2. ExistsBijection(1..n, W)
      BY <2>1 DEF ExistsBijection
    <2>3. QED
      BY <1>1, <2>2, FS_CountingElements
  <1> HIDE DEF h
  <1>7. (CHOOSE c \in W : TRUE).len = Len(b)
    <2>1. W # {}
      BY <1>1, <1>2
    <2>2. \A c \in W : c.len = Len(b)
      BY <1>2, CellIs
    <2>3. QED
      BY <2>1, <2>2
  <1>8. ASSUME NEW i \in 1..n PROVE (CHOOSE c \in W : c.index = i - 1).frag = Onions!Slice(b, i - 1)
    <2>1. i - 1 \in 0..(n - 1)
      BY <1>1
    <2>2. Cell(b, s, i - 1) \in W /\ Cell(b, s, i - 1).index = i - 1
      BY <1>2, <2>1, CellIs
    <2> DEFINE c == CHOOSE c \in W : c.index = i - 1
    <2>3. c \in W /\ c.index = i - 1
      BY <2>2
    <2> HIDE DEF c
    <2>4. PICK k \in 0..(n - 1) : c = Cell(b, s, k)
      BY <1>2, <2>3
    <2>5. k = i - 1 /\ c.frag = Onions!Slice(b, k)
      BY <2>3, <2>4, CellIs
    <2>6. QED
      BY <2>5 DEF c
  <1>9. [i \in 1..Cardinality(W) |-> (CHOOSE c \in W : c.index = i - 1).frag] = [i \in 1..n |-> Onions!Slice(b, i - 1)]
    BY <1>6, <1>8
  <1>10. Onions!Joined(W) = SubSeq(Onions!FlattenSeq([i \in 1..n |-> Onions!Slice(b, i - 1)]), 1, Len(b))
    BY <1>7, <1>9, SameCellCount DEF Onions!Joined
  <1>11. QED
    BY <1>10, SlicesJoin DEF W

-----------------------------------------------------------------------------
LEMMA WrappedCell ==
    ASSUME NEW b, NEW n, NEW c \in Wrapped(b, n)
    PROVE  \E s \in 1..n, i \in 0..(Count(b) - 1) : c = Cell(b, s, i)
  BY WrapIsCells DEF Wrapped

LEMMA WrappedGrows ==
    ASSUME NEW b, NEW n \in Nat
    PROVE  /\ Wrapped(b, n) \subseteq Wrapped(b, n + 1)
           /\ Onions!Wrap(b, n + 1) \subseteq Wrapped(b, n + 1)
           /\ n >= 1 => Onions!Wrap(b, n) \subseteq Wrapped(b, n)
  <1>1. \A s \in 1..n : s \in 1..(n + 1)
    OBVIOUS
  <1>2. n + 1 \in 1..(n + 1) /\ (n >= 1 => n \in 1..n)
    OBVIOUS
  <1>3. QED
    BY <1>1, <1>2 DEF Wrapped

\* send_mail_private: a new envelope is cut into cells that hold it.
LEMMA SendFits ==
    ASSUME Onions!OnionAssumption, NEW len \in EnvelopeLengths, NEW hops, Onions!Wraps(len, hops)
    PROVE  FitsCells([k \in 1..len |-> k])
  <1> DEFINE b == [k \in 1..len |-> k]
  <1>1. len \in Nat \ {0} /\ FragmentLen \in Nat \ {0}
    BY DEF Onions!OnionAssumption
  <1>2. b \in Seq(Nat) /\ Len(b) = len /\ b # <<>>
    <2>1. b \in [1..len -> Nat]
      BY <1>1
    <2>2. b \in Seq(Nat) /\ Len(b) = len
      BY <1>1, <2>1
    <2>3. QED
      BY <1>1, <2>2
  <1> HIDE DEF b
  <1>3. Onions!Ladder(len) # {}
    BY DEF Onions!Wraps
  <1> DEFINE i == CHOOSE i \in Onions!Ladder(len) : TRUE
  <1>4. i \in Onions!Ladder(len)
    BY <1>3
  <1>5. Count(b) = Onions!Buckets[i]
    BY <1>2 DEF Count
  <1> HIDE DEF i
  <1>6. i \in {1, 2, 3, 4} /\ len <= Onions!Buckets[i] * FragmentLen
    BY <1>4 DEF Onions!Ladder, Onions!Buckets
  <1>7. Onions!Buckets[i] \in {1, 4, 16, 32}
    BY <1>6 DEF Onions!Buckets
  <1>8. Count(b) \in Nat \ {0} /\ Len(b) <= Count(b) * FragmentLen
    BY <1>2, <1>5, <1>6, <1>7
  <1>9. QED
    BY <1>2, <1>8 DEF FitsCells, b

LEMMA OnionInit == Onions!Init => OnionInv
  BY DEF Onions!Init, OnionInv

LEMMA OnionSend ==
    ASSUME Onions!OnionAssumption, OnionInv, NEW len \in EnvelopeLengths, NEW hops, Onions!SendMailPrivate(len, hops)
    PROVE  OnionInv'
  <1>1. envelope = <<>> /\ mixTags = {} /\ underway = {} /\ collected = {} /\ rebuilt = {} /\ outgoing = {}
    BY DEF Onions!SendMailPrivate, OnionInv
  <1>2. mixTags' = {} /\ underway' = {} /\ collected' = {} /\ rebuilt' = {}
    BY <1>1 DEF Onions!SendMailPrivate
  <1>3. CASE Onions!Wraps(len, hops)
    <2>1. /\ envelope' = [k \in 1..len |-> k] /\ wraps' = 1
          /\ outgoing' = Onions!Wrap(envelope', 1)
      BY <1>3 DEF Onions!SendMailPrivate, Onions!FreshSeed
    <2>2. FitsCells(envelope')
      BY <1>3, <2>1, SendFits
    <2>3. envelope' # <<>>
      BY <2>2 DEF FitsCells
    <2>4. QED
      BY <1>2, <2>1, <2>2, <2>3 DEF OnionInv, AllOrNone
  <1>4. CASE ~Onions!Wraps(len, hops)
    <2>1. UNCHANGED <<envelope, wraps, outgoing>>
      BY <1>4 DEF Onions!SendMailPrivate
    <2>2. QED
      BY <1>1, <1>2, <2>1 DEF OnionInv
  <1>5. QED
    BY <1>3, <1>4

LEMMA OnionRetry == ASSUME OnionInv, Onions!Retry PROVE OnionInv'
  <1>1. /\ envelope # <<>> /\ wraps' = wraps + 1 /\ outgoing' = Onions!Wrap(envelope, wraps + 1)
        /\ UNCHANGED <<envelope, mixTags, underway, collected, rebuilt>>
    BY DEF Onions!Retry, Onions!FreshSeed
  <1>2. /\ wraps \in Nat /\ FitsCells(envelope) /\ wraps >= 1
        /\ underway \subseteq Wrapped(envelope, wraps) /\ collected \subseteq Wrapped(envelope, wraps)
        /\ mixTags \subseteq (1..wraps) \X Nat /\ rebuilt \subseteq {envelope}
    BY <1>1 DEF OnionInv
  <1>3. Wrapped(envelope, wraps) \subseteq Wrapped(envelope, wraps + 1)
    BY <1>2, WrappedGrows
  <1>4. mixTags \subseteq (1..wraps + 1) \X Nat /\ \A i : <<wraps + 1, i>> \notin mixTags
    BY <1>2
  <1>5. AllOrNone(envelope, wraps + 1, mixTags)
    BY <1>4 DEF AllOrNone
  <1>6. QED
    BY <1>1, <1>2, <1>3, <1>4, <1>5 DEF OnionInv

LEMMA OnionMix == ASSUME OnionInv, NEW again \in BOOLEAN, Onions!EntryMix(again) PROVE OnionInv'
  <1>1. /\ outgoing # {} /\ UNCHANGED <<envelope, wraps, collected, rebuilt>>
        /\ underway' \subseteq underway \union outgoing
        /\ mixTags' = mixTags \union {c.tag : c \in outgoing}
        /\ outgoing' = outgoing \/ outgoing' = {}
    BY DEF Onions!EntryMix
  <1>2. envelope # <<>>
    BY <1>1 DEF OnionInv
  <1>3. /\ wraps \in Nat /\ FitsCells(envelope) /\ wraps >= 1 /\ outgoing = Onions!Wrap(envelope, wraps)
        /\ underway \subseteq Wrapped(envelope, wraps) /\ collected \subseteq Wrapped(envelope, wraps)
        /\ mixTags \subseteq (1..wraps) \X Nat /\ rebuilt \subseteq {envelope}
    BY <1>1, <1>2 DEF OnionInv
  <1>4. {c.tag : c \in outgoing} = {<<wraps, i>> : i \in 0..(Count(envelope) - 1)}
    <2>1. outgoing = {Cell(envelope, wraps, i) : i \in 0..(Count(envelope) - 1)}
      BY <1>3, WrapIsCells
    <2>2. \A i : Cell(envelope, wraps, i).tag = <<wraps, i>>
      BY CellIs
    <2>3. QED
      BY <2>1, <2>2
  <1>5. Count(envelope) \in Nat /\ wraps \in 1..wraps
    BY <1>3 DEF FitsCells
  <1>6. mixTags' \subseteq (1..wraps) \X Nat
    BY <1>1, <1>3, <1>4, <1>5
  <1>7. AllOrNone(envelope, wraps, mixTags')
    BY <1>1, <1>4 DEF AllOrNone
  <1>8. underway' \subseteq Wrapped(envelope, wraps)
    <2>1. Onions!Wrap(envelope, wraps) \subseteq Wrapped(envelope, wraps)
      BY <1>3, WrappedGrows
    <2>2. QED
      BY <1>1, <1>3, <2>1
  <1>9. QED
    BY <1>1, <1>2, <1>3, <1>6, <1>7, <1>8 DEF OnionInv

LEMMA OnionLose == ASSUME OnionInv, NEW c \in underway, Onions!LoseCell(c) PROVE OnionInv'
  BY DEF Onions!LoseCell, OnionInv

LEMMA OnionReceive == ASSUME Onions!OnionAssumption, OnionInv, NEW c \in underway, Onions!Receive(c) PROVE OnionInv'
  <1> DEFINE cells == {d \in collected : d.id = c.id} \union {c}
  <1>1. envelope # <<>>
    BY DEF OnionInv
  <1>2. /\ wraps \in Nat /\ FitsCells(envelope)
        /\ underway \subseteq Wrapped(envelope, wraps) /\ collected \subseteq Wrapped(envelope, wraps)
        /\ rebuilt \subseteq {envelope}
    BY <1>1 DEF OnionInv
  <1>3. /\ UNCHANGED <<envelope, wraps, outgoing, mixTags>> /\ underway' \subseteq underway
        /\ collected' \subseteq collected \union {c}
    BY DEF Onions!Receive
  <1>4. underway' \subseteq Wrapped(envelope, wraps) /\ collected' \subseteq Wrapped(envelope, wraps)
    BY <1>2, <1>3
  <1>5. rebuilt' \subseteq {envelope}
    <2>1. CASE {d.index : d \in cells} = 0..(c.count - 1)
      <3>1. rebuilt' = rebuilt \union {Onions!Joined(cells)}
        BY <2>1 DEF Onions!Receive
      <3>2. PICK s \in 1..wraps, k \in 0..(Count(envelope) - 1) : c = Cell(envelope, s, k)
        BY <1>2, WrappedCell
      <3>3. c.id = s /\ c.count = Count(envelope)
        BY <3>2, CellIs
      <3>4. cells = Onions!Wrap(envelope, s)
        <4>1. ASSUME NEW d \in cells PROVE \E i \in 0..(Count(envelope) - 1) : d = Cell(envelope, s, i) /\ d.index = i
          <5>1. d \in Wrapped(envelope, wraps) /\ d.id = s
            BY <1>2, <3>3
          <5>2. PICK t \in 1..wraps, i \in 0..(Count(envelope) - 1) : d = Cell(envelope, t, i)
            BY <5>1, WrappedCell
          <5>3. d.id = t /\ d.index = i
            BY <5>2, CellIs
          <5>4. QED
            BY <5>1, <5>2, <5>3
        <4>2. ASSUME NEW i \in 0..(Count(envelope) - 1) PROVE Cell(envelope, s, i) \in cells
          <5>1. i \in {d.index : d \in cells}
            BY <2>1, <3>3
          <5>2. PICK d \in cells : d.index = i
            BY <5>1
          <5>3. QED
            BY <4>1, <5>2
        <4> HIDE DEF cells
        <4>3. cells = {Cell(envelope, s, i) : i \in 0..(Count(envelope) - 1)}
          BY <4>1, <4>2
        <4>4. QED
          BY <4>3, WrapIsCells
      <3> HIDE DEF cells
      <3>5. Onions!Joined(cells) = envelope
        BY <1>2, <3>4, JoinedIsInner
      <3>6. QED
        BY <1>2, <3>1, <3>5
    <2>2. CASE {d.index : d \in cells} # 0..(c.count - 1)
      BY <1>2, <2>2 DEF Onions!Receive
    <2>3. QED
      BY <2>1, <2>2
  <1>6. QED
    BY <1>1, <1>3, <1>4, <1>5 DEF OnionInv

LEMMA OnionNext == Onions!OnionAssumption /\ OnionInv /\ [Onions!Next]_Onions!vars => OnionInv'
  <1> SUFFICES ASSUME Onions!OnionAssumption, OnionInv, [Onions!Next]_Onions!vars PROVE OnionInv'
    OBVIOUS
  <1>1. CASE UNCHANGED Onions!vars
    BY <1>1 DEF Onions!vars, OnionInv
  <1>2. CASE \E len \in EnvelopeLengths, hops \in PathLengths : Onions!SendMailPrivate(len, hops)
    BY <1>2, OnionSend
  <1>3. CASE Onions!Retry
    BY <1>3, OnionRetry
  <1>4. CASE \E again \in BOOLEAN : Onions!EntryMix(again)
    BY <1>4, OnionMix
  <1>5. CASE \E c \in underway : Onions!LoseCell(c) \/ Onions!Receive(c)
    BY <1>5, OnionLose, OnionReceive
  <1>6. QED
    BY <1>1, <1>2, <1>3, <1>4, <1>5 DEF Onions!Next

LEMMA OnionOpens == OnionInv => Onions!OpensAcrossRetries
  <1> SUFFICES ASSUME OnionInv PROVE Onions!OpensWhole /\ Onions!RetriesPass
    BY DEF Onions!OpensAcrossRetries
  <1>1. CASE envelope = <<>> \/ outgoing = {}
    BY <1>1 DEF OnionInv, Onions!OpensWhole, Onions!RetriesPass
  <1>2. CASE envelope # <<>> /\ outgoing # {}
    <2>1. outgoing = Onions!Wrap(envelope, wraps) /\ AllOrNone(envelope, wraps, mixTags) /\ rebuilt \subseteq {envelope}
      BY <1>2 DEF OnionInv
    <2>2. outgoing = {Cell(envelope, wraps, i) : i \in 0..(Count(envelope) - 1)}
      BY <2>1, WrapIsCells
    <2>3. \A i : Cell(envelope, wraps, i).tag = <<wraps, i>> /\ Cell(envelope, wraps, i).id = wraps
      BY CellIs
    <2>4. {c.tag : c \in outgoing} = {<<wraps, i>> : i \in 0..(Count(envelope) - 1)}
      BY <2>2, <2>3
    <2>5. \E c \in outgoing : c.id = wraps
      BY <1>2, <2>2, <2>3
    <2>6. Onions!RetriesPass
      BY <2>1, <2>4, <2>5 DEF Onions!RetriesPass, AllOrNone
    <2>7. QED
      BY <2>1, <2>6 DEF Onions!OpensWhole
  <1>3. QED
    BY <1>1, <1>2

\* What the recipient puts together, from the cells of any attempts in any order, is the
\* envelope that was sealed, and a retry that arrives is not taken for a replay (onion.rs
\* wrap, slice, unwrap; node.rs wire_frame, fresh_seed), for every length of envelope,
\* fragment and path and every number of attempts.
THEOREM RetriesStayOpen == Onions!OnionAssumption => (Onions!Spec => []Onions!OpensAcrossRetries)
  <1> SUFFICES ASSUME Onions!OnionAssumption PROVE Onions!Spec => []Onions!OpensAcrossRetries
    OBVIOUS
  <1>1. Onions!Init => OnionInv
    BY OnionInit
  <1>2. OnionInv /\ [Onions!Next]_Onions!vars => OnionInv'
    BY OnionNext
  <1>3. OnionInv => Onions!OpensAcrossRetries
    BY OnionOpens
  <1>4. QED
    BY <1>1, <1>2, <1>3, PTL DEF Onions!Spec

=============================================================================
