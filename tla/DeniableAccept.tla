--------------------------- MODULE DeniableAccept ---------------------------
(***************************************************************************)
(* Opening and accepting deniable sessions: the admission gate of          *)
(* node/src/deniable.rs (a global and a per-source token bucket, spent     *)
(* together before a prekey is touched and kept in the journal), the       *)
(* responder of crates/dmtap-deniable/src/session.rs (one-time prekeys,    *)
(* the last-resort replay cache) and deniable_accept of node/src/node.rs,  *)
(* which joins them.  Inits may be lost, repeated, delayed or damaged.     *)
(*                                                                         *)
(* A node that was just built stands at the boot clock, a constant of the  *)
(* code that is 0 here, until the first set_now; the time it is really     *)
(* then is `wall'.                                                         *)
(***************************************************************************)
EXTENDS Integers, FiniteSets, Sequences

CONSTANTS
    Source,         \* initiators, by their claimed root identity key
    GlobalBurst, GlobalRefill, SourceBurst, SourceRefill,   \* DeniableAcceptLimits
    OpkCounts,      \* num_opks of a bundle: DEFAULT_OPKS, or 0 for last resort only
    MaxTags,        \* MAX_LASTRESORT_REPLAY
    PruneAt,        \* PRUNE_AT
    Start,          \* the time when the first node is built, after the boot clock
    MaxNow, MaxCrash, MaxSaveFail, MaxOpen, MaxBundle, MaxConfigure   \* bounds

AcceptAssumption ==
    /\ {GlobalBurst, GlobalRefill, SourceBurst, SourceRefill} \subseteq Nat \ {0}
    /\ OpkCounts \subseteq Nat /\ Start \in Nat \ {0}
    /\ {MaxTags, PruneAt, MaxNow, MaxCrash, MaxSaveFail, MaxOpen,
        MaxBundle, MaxConfigure} \subseteq Nat

VARIABLES
    now,        \* Node::now
    wall,       \* the time
    global,     \* DeniableAdmission::global
    perSource,  \* DeniableAdmission::per_source, NoBucket where there is none
    disk,       \* the gate as the journal last stored it
    spk,        \* the responder's signed prekey, 0 before a bundle is published
    opks,       \* DeniableResponder::opks
    tags,       \* DeniableResponder::consumed_lastresort
    bundles,    \* how many one-time prekeys each bundle published so far lists
    opened,     \* inits that initiators have made
    accepted,   \* history: inits accepted since the gate was configured
    unsaved,    \* history: inits accepted since the journal was last written
    given,      \* history: unsaved inits forgotten by restarts
    since,      \* history: when the gate in the journal was configured
    boots,      \* history: how often since then a node at the boot clock could open the
                \* global bucket, or an initiator's
    used        \* bounds already used

gate == <<global, perSource, disk>>
responder == <<spk, opks, tags, bundles>>
clock == <<now, wall>>
history == <<unsaved, given, since, boots>>
vars == <<clock, gate, responder, opened, accepted, history, used>>

NoBucket == [tokens |-> -1, last |-> 0]
Bucket(burst) == [tokens |-> burst, last |-> now]

AtBoot == now = 0

Init ==
    /\ now = 0 /\ wall = Start
    /\ global = [tokens |-> GlobalBurst, last |-> 0]
    /\ perSource = [s \in Source |-> NoBucket]
    /\ disk = [global |-> global, perSource |-> perSource]
    /\ spk = 0 /\ opks = {} /\ tags = {} /\ bundles = <<>>
    /\ opened = {} /\ accepted = <<>>
    /\ unsaved = {} /\ given = 0 /\ since = Start /\ boots = [global |-> 1, source |-> 1]
    /\ used = [crash |-> 0, fail |-> 0, configure |-> 0]

-----------------------------------------------------------------------------
\* The token buckets.

\* Whole intervals are credited; the remainder keeps counting.
Refill(b, burst, interval) ==
    LET earned == IF now <= b.last THEN 0 ELSE (now - b.last) \div interval
        tokens == b.tokens + earned
    IN  [tokens |-> IF tokens > burst THEN burst ELSE tokens,
         last   |-> b.last + earned * interval]

Spend(b) == [b EXCEPT !.tokens = @ - 1]

Global == Refill(global, GlobalBurst, GlobalRefill)

SourceOf(s) ==
    IF perSource[s] = NoBucket THEN Bucket(SourceBurst)
    ELSE Refill(perSource[s], SourceBurst, SourceRefill)

\* Mutant: everything is forgotten when there are too many buckets.
PruneAll(p) ==
    IF Cardinality({s \in Source : p[s] # NoBucket}) <= PruneAt THEN p
    ELSE [s \in Source |-> NoBucket]

\* Buckets that are full again are dropped once there are too many.
Prune(p) ==
    IF Cardinality({s \in Source : p[s] # NoBucket}) <= PruneAt THEN p
    ELSE [s \in Source |->
            LET b == Refill(p[s], SourceBurst, SourceRefill)
            IN  IF p[s] = NoBucket \/ b.tokens >= SourceBurst THEN NoBucket ELSE b]

Admits(s) == Global.tokens > 0 /\ SourceOf(s).tokens > 0

\* An init that is not admitted costs nothing and is not stored.
Throttle(i) ==
    /\ i \in opened
    /\ ~Admits(i.source)
    /\ global' = Global
    /\ perSource' = Prune([perSource EXCEPT ![i.source] = SourceOf(i.source)])
    /\ UNCHANGED <<clock, disk, responder, opened, accepted, history, used>>

Admit(s) ==
    /\ Admits(s)
    /\ global' = Spend(Global)
    /\ perSource' = Prune([perSource EXCEPT ![s] = Spend(SourceOf(s))])

-----------------------------------------------------------------------------
\* The responder.

\* A bundle's one-time prekeys are numbered in the order it lists them.
Publish(k) ==
    /\ Len(bundles) < MaxBundle
    /\ bundles' = Append(bundles, k)
    /\ spk' = Len(bundles) + 1 /\ opks' = 1..k /\ tags' = {}
    /\ UNCHANGED <<clock, gate, opened, accepted, history, used>>

\* An initiator takes the first prekey its copy of the bundle lists, if any.
Open(s, b) ==
    /\ Cardinality(opened) < MaxOpen
    /\ opened' = opened \cup {[source |-> s, spk |-> b, opk |-> IF bundles[b] > 0 THEN 1 ELSE 0,
                               ek |-> Cardinality(opened) + 1]}
    /\ UNCHANGED <<clock, gate, responder, accepted, history, used>>

PrekeyUsable(i) ==
    IF i.opk # 0 THEN i.opk \in opks
    ELSE opks = {} /\ i \notin tags /\ Cardinality(tags) < MaxTags

Accepts(i, intact) == spk # 0 /\ i.spk = spk /\ PrekeyUsable(i) /\ intact

\* Mutant: only the last-resort path leaves a trace.
ConsumeTagOnly(i) ==
    tags' = (IF i.opk = 0 THEN tags \cup {i} ELSE tags) /\ UNCHANGED <<spk, opks, bundles>>

\* Prekey and replay tag are spent only once the init has authenticated.
Consume(i) ==
    /\ opks' = opks \ {i.opk}
    /\ tags' = IF i.opk = 0 THEN tags \cup {i} ELSE tags
    /\ UNCHANGED <<spk, bundles>>

-----------------------------------------------------------------------------
\* deniable_accept of the node.

Stored == [global |-> global', perSource |-> perSource']

\* checkpoint(): a failed write is only logged.
Save(saves, fresh) ==
    IF saves
    THEN disk' = Stored /\ unsaved' = {} /\ UNCHANGED used
    ELSE /\ used.fail < MaxSaveFail
         /\ used' = [used EXCEPT !.fail = @ + 1]
         /\ unsaved' = unsaved \cup fresh
         /\ UNCHANGED disk

\* Mutant: an accepted init does not reach the journal.
NotSaved(i) ==
    UNCHANGED <<disk, unsaved, used>>

\* Accepted: stored in the journal, as every checkpoint of the node is.
AcceptSaves(i) == \E saves \in BOOLEAN : Save(saves, {i})

Accept(i) ==
    /\ i \in opened
    /\ Admit(i.source)
    /\ Accepts(i, TRUE)
    /\ Consume(i)
    /\ accepted' = Append(accepted, i)
    /\ AcceptSaves(i)
    /\ UNCHANGED <<clock, opened, given, since, boots>>

\* Admitted but refused by the responder: the tokens are gone, the rest and
\* the journal are as before.
Refuse(i, intact) ==
    /\ i \in opened
    /\ Admit(i.source)
    /\ ~Accepts(i, intact)
    /\ UNCHANGED <<clock, disk, responder, opened, accepted, history, used>>

\* configure_deniable_accept_gate with the same limits: both buckets full again.
Configure(saves) ==
    /\ used.configure < MaxConfigure
    /\ saves \/ used.fail < MaxSaveFail
    /\ used' = [used EXCEPT !.configure = @ + 1, !.fail = IF saves THEN @ ELSE @ + 1]
    /\ global' = Bucket(GlobalBurst)
    /\ perSource' = [s \in Source |-> NoBucket]
    /\ disk' = IF saves THEN Stored ELSE disk
    /\ accepted' = <<>> /\ unsaved' = {} /\ given' = 0
    /\ since' = IF saves THEN wall ELSE since
    /\ LET b == IF AtBoot THEN 1 ELSE 0 IN
       boots' = IF saves THEN [global |-> b, source |-> b]
                ELSE [global |-> IF AtBoot THEN 1 ELSE boots.global, source |-> boots.source + b]
    /\ UNCHANGED <<clock, responder, opened>>

\* Any other change of the node writes the gate too.
Checkpoint ==
    /\ UNCHANGED <<global, perSource>>
    /\ \E saves \in BOOLEAN : Save(saves, {})
    /\ UNCHANGED <<clock, responder, opened, accepted, given, since, boots>>

\* The gate comes back as stored; the responder does not, and the clock stands at the boot
\* clock again.
Restart ==
    /\ used.crash < MaxCrash
    /\ used' = [used EXCEPT !.crash = @ + 1]
    /\ global' = disk.global /\ perSource' = disk.perSource
    /\ now' = 0
    /\ spk' = 0 /\ opks' = {} /\ tags' = {}
    /\ given' = given + Cardinality(unsaved) /\ unsaved' = {}
    /\ boots' = [boots EXCEPT !.source = @ + 1]
    /\ UNCHANGED <<wall, disk, bundles, opened, accepted, since>>

SetNow(t) ==
    /\ t # now /\ now' = t /\ wall' = t
    /\ UNCHANGED <<gate, responder, opened, accepted, history, used>>

Next ==
    \/ \E s \in Source, b \in DOMAIN bundles : Open(s, b)
    \/ \E i \in opened : Throttle(i) \/ Accept(i) \/ \E intact \in BOOLEAN : Refuse(i, intact)
    \/ (\E k \in OpkCounts : Publish(k)) \/ (\E saves \in BOOLEAN : Configure(saves)) \/ Checkpoint \/ Restart
    \/ \E t \in wall..MaxNow : SetNow(t)

Spec == Init /\ [][Next]_vars

-----------------------------------------------------------------------------
\* At any time no more inits have been accepted than the burst and the intervals since
\* the stored gate was configured allow, over any number of restarts.  Not counted are
\* inits whose checkpoint failed before a restart, and what a bucket opened at the boot
\* clock gives: it is full at the first set_now, and gains one more token up to an
\* interval early, its time having begun before.
GlobalRateHolds ==
    Len(accepted) <= GlobalBurst + (wall - since) \div GlobalRefill + given
                     + (GlobalBurst + 1) * boots.global

\* The same of each initiator, also when its bucket was pruned in between.
SourceRateHolds ==
    \A s \in Source :
        Cardinality({n \in DOMAIN accepted : accepted[n].source = s})
            <= SourceBurst + (wall - since) \div SourceRefill + given
               + (SourceBurst + 1) * boots.source

\* No init is accepted twice, whatever is repeated, published or restarted
\* (session.rs: "a replayed *successful* init still finds the prekey gone").
NoReplay ==
    \A m, n \in DOMAIN accepted : accepted[m] = accepted[n] => m = n

\* An undamaged, unused init for the current bundle succeeds once it is
\* admitted (node.rs: "a genuine init retried after the bucket refills still
\* succeeds").  Of two initiators with one bundle the second is refused for good:
\* the code does not keep this.
GenuineInitSucceeds ==
    [][\A i \in opened :
         i.spk = spk /\ (\A n \in DOMAIN accepted : accepted[n] # i)
         => ~Refuse(i, TRUE)]_vars

\* deniable_accept keeps to its rates over restarts, the boot clock's share aside, and
\* accepts no init twice.
AdmissionHolds == GlobalRateHolds /\ SourceRateHolds /\ NoReplay

=============================================================================
