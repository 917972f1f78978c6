------------------------------ MODULE MlsGroup ------------------------------
(***************************************************************************)
(* One MLS group of a node (node/src/node.rs, "MLS groups") over the       *)
(* sessions of dmtap-mls (session.rs, member.rs, sframe.rs) and the log    *)
(* one committer orders.  An epoch is named by the commits merged to reach *)
(* it; openmls merges a commit only in the epoch it was built in.          *)
(***************************************************************************)
EXTENDS Integers, Sequences, FiniteSets

CONSTANTS
    Member,     \* nodes
    Founder,    \* the node that founds the group
    Call,       \* call ids of the right length
    LateJoins,  \* whether a Welcome may be used after further commits were ordered
    MaxInbox,   \* MAX_GROUP_INBOX
    MaxLog,     \* bound: commits ordered
    MaxLeaves,  \* bound: key packages a node publishes
    MaxSent     \* bound: messages broadcast

GroupAssumption ==
    /\ Founder \in Member /\ LateJoins \in BOOLEAN
    /\ {MaxInbox, MaxLog, MaxLeaves, MaxSent} \subseteq Nat

VARIABLES
    leaf,       \* Node::pending_leaf: the number of the leaf, 0 for none
    published,  \* how many key packages each node has published
    sess,       \* Node::groups of this group, NoSession where there is none
    commits,    \* Committer::log
    welcomes,   \* the Welcomes that group_add_member returned
    inbox,      \* Node::group_inbox
    sent,       \* history: broadcast messages
    filed       \* the store: which leaf read which message

vars == <<leaf, published, sess, commits, welcomes, inbox, sent, filed>>

NoSession == [leaf |-> <<>>, chain |-> <<>>, applied |-> 0, pendingSeq |-> 0, pending |-> FALSE]
HasSession(m) == sess[m] # NoSession

Leaf == Member \X (0..MaxLeaves)

Session(l, ch, at) ==
    [leaf |-> l, chain |-> ch, applied |-> at, pendingSeq |-> 0, pending |-> FALSE]

Init ==
    /\ leaf = [m \in Member |-> 0]
    /\ published = [m \in Member |-> 0]
    /\ sess = [m \in Member |-> IF m = Founder THEN Session(<<m, 0>>, <<>>, 0) ELSE NoSession]
    /\ commits = <<>> /\ welcomes = {} /\ sent = {} /\ filed = {}
    /\ inbox = [m \in Member |-> <<>>]

\* The leaves of an epoch.  A leaf is provisioned once and never comes back.
Roster(log, ch) ==
    LET Of(op) == {log[ch[i]].who : i \in {j \in DOMAIN ch : log[ch[j]].op = op}}
    IN  ({<<Founder, 0>>} \union Of("add")) \ Of("remove")

Active(log, s) == s.leaf \in Roster(log, s.chain)

Prefix(c, d) == Len(c) <= Len(d) /\ SubSeq(d, 1, Len(c)) = c

-----------------------------------------------------------------------------
\* openmls takes another's commit in the epoch it was built in; everything else,
\* one's own commit and a panic included, is an error.
Processes(log, s, i) == Active(log, s) /\ log[i].author # s.leaf /\ log[i].base = s.chain

\* One entry of the log: our own commit is merged if it is still pending and
\* reported stale if an earlier entry displaced it; anyone else's is processed.
\* Only an applied entry moves applied_seq, except the stale one of our own.
ApplyEntry(log, s, i) ==
    LET merged == [s EXCEPT !.chain = Append(@, i), !.applied = i, !.pending = FALSE,
                            !.pendingSeq = IF @ = i THEN 0 ELSE @]
    IN  CASE s.pendingSeq = i /\ s.pending -> [s |-> merged, ok |-> TRUE]
          [] s.pendingSeq = i /\ ~s.pending ->
                [s |-> [s EXCEPT !.pendingSeq = 0, !.applied = i], ok |-> FALSE]
          [] s.pendingSeq # i /\ Processes(log, s, i) ->
                [s |-> merged, ok |-> TRUE]
          [] OTHER -> [s |-> s, ok |-> FALSE]

\* Mutant: every entry is processed as someone else's.
AdvanceForeign(log, s) ==
    LET run[i \in s.applied..Len(log)] ==
            IF i = s.applied THEN [s |-> s, ok |-> TRUE]
            ELSE IF run[i - 1].ok /\ log[i].author # s.leaf
                 THEN ApplyEntry(log, run[i - 1].s, i) ELSE [run[i - 1] EXCEPT !.ok = FALSE]
    IN  [run[Len(log)] EXCEPT !.s.pendingSeq = 0]

\* Mutant: the outcome of advance is not looked at before the Welcome is returned.
AdvanceAlwaysOk(log, s) ==
    LET run[i \in s.applied..Len(log)] ==
            IF i = s.applied THEN [s |-> s, ok |-> TRUE]
            ELSE IF run[i - 1].ok THEN ApplyEntry(log, run[i - 1].s, i) ELSE run[i - 1]
    IN  [s |-> run[Len(log)].s, ok |-> TRUE]

\* Session::advance: the entries after applied_seq in order, up to the first that fails.
Advance(log, s) ==
    LET run[i \in s.applied..Len(log)] ==
            IF i = s.applied THEN [s |-> s, ok |-> TRUE]
            ELSE IF run[i - 1].ok THEN ApplyEntry(log, run[i - 1].s, i) ELSE run[i - 1]
    IN  run[Len(log)]

-----------------------------------------------------------------------------
\* publish_group_keypackage: a new leaf replaces the one that was waiting.
PublishKeyPackage(m) ==
    /\ published[m] < MaxLeaves
    /\ published' = [published EXCEPT ![m] = @ + 1]
    /\ leaf' = [leaf EXCEPT ![m] = published'[m]]
    /\ UNCHANGED <<sess, commits, welcomes, inbox, sent, filed>>

\* A session that is active and has no commit pending may build another.
MayCommit(m) ==
    /\ HasSession(m) /\ Active(commits, sess[m]) /\ ~sess[m].pending
    /\ Len(commits) < MaxLog

\* Build, submit, note_authored, advance.
Commit(m, op, l) ==
    LET hs == [author |-> sess[m].leaf, base |-> sess[m].chain, op |-> op, who |-> l]
        log == Append(commits, hs)
    IN  /\ commits' = log
        /\ LET out == Advance(log, [sess[m] EXCEPT !.pending = TRUE, !.pendingSeq = Len(log)])
           IN  /\ sess' = [sess EXCEPT ![m] = out.s]
               /\ welcomes' = IF out.ok /\ op = "add"
                              THEN welcomes \union {[leaf |-> l, chain |-> Append(hs.base, Len(log))]}
                              ELSE welcomes
        /\ UNCHANGED <<leaf, published, inbox, sent, filed>>

\* A key package may be tried again after its commit lost the race; that of a leaf
\* that was removed is not used a second time (the code would, see Roster).
GroupAddMember(m, l) ==
    /\ MayCommit(m)
    /\ l[2] \in 1..published[l[1]]
    /\ \A i \in DOMAIN sess[m].chain : commits[sess[m].chain[i]].who # l
    /\ Commit(m, "add", l)

GroupRemoveMember(m, l) ==
    /\ MayCommit(m)
    /\ l \in Roster(commits, sess[m].chain) \ {sess[m].leaf}
    /\ Commit(m, "remove", l)

ApplyCommitted(m) ==
    /\ HasSession(m)
    /\ sess' = [sess EXCEPT ![m] = Advance(commits, sess[m]).s]
    /\ UNCHANGED <<leaf, published, commits, welcomes, inbox, sent, filed>>

OpensWelcome(m, w) == w.leaf = <<m, leaf[m]>>

\* join_group takes the waiting leaf whether or not the Welcome is for it, and
\* starts the new session at the head of the log.
JoinGroup(m, w) ==
    /\ leaf[m] # 0 /\ w.leaf[1] = m
    /\ LateJoins \/ w.chain[Len(w.chain)] = Len(commits)
    /\ leaf' = [leaf EXCEPT ![m] = 0]
    /\ sess' = IF OpensWelcome(m, w)
               THEN [sess EXCEPT ![m] = Session(w.leaf, w.chain, Len(commits))]
               ELSE sess
    /\ UNCHANGED <<published, commits, welcomes, inbox, sent, filed>>

\* group_broadcast reaches some of the roster's other owners; nothing is retried.
Broadcast(m) ==
    /\ HasSession(m) /\ Active(commits, sess[m])
    /\ Cardinality(sent) < MaxSent
    /\ LET msg == [chain |-> sess[m].chain, from |-> sess[m].leaf, nr |-> Cardinality(sent)]
           owners == {l[1] : l \in Roster(commits, sess[m].chain)} \ {m}
       IN  /\ sent' = sent \union {msg}
           /\ \E reached \in SUBSET owners :
                 inbox' = [n \in Member |->
                             IF n \in reached /\ Len(inbox[n]) < MaxInbox
                             THEN Append(inbox[n], msg) ELSE inbox[n]]
    /\ UNCHANGED <<leaf, published, sess, commits, welcomes, filed>>

\* Mutant: the epoch is told by its number.
ReadableByNumber(m, msg) == HasSession(m) /\ Len(msg.chain) <= Len(sess[m].chain) + 1

\* decrypt_group_frame: openmls opens messages of the session's own epoch.
Readable(m, msg) == HasSession(m) /\ Active(commits, sess[m]) /\ msg.chain = sess[m].chain

\* pump_group_inbox takes every frame and files those it can read.
PumpGroupInbox(m) ==
    /\ inbox[m] # <<>>
    /\ inbox' = [inbox EXCEPT ![m] = <<>>]
    /\ filed' = filed \union {[leaf |-> sess[m].leaf, msg |-> inbox[m][i]] :
                               i \in {j \in DOMAIN inbox[m] : Readable(m, inbox[m][j])}}
    /\ UNCHANGED <<leaf, published, sess, commits, welcomes, sent>>

\* Mutant: the exporter context leaves out the call id.
SframeContextFixed(call) == <<>>

\* sframe_epoch_secret: the exporter's secret of the epoch for one call, and the
\* epoch number that labels it.
SframeContext(call) == <<call>>
SframeEpochSecret(m, call) ==
    [secret |-> <<sess[m].chain, SframeContext(call)>>, epoch |-> Len(sess[m].chain)]

Next ==
    \/ \E m \in Member : PublishKeyPackage(m) \/ ApplyCommitted(m) \/ Broadcast(m) \/ PumpGroupInbox(m)
    \/ \E m \in Member, l \in Leaf : GroupAddMember(m, l) \/ GroupRemoveMember(m, l)
    \/ \E m \in Member, w \in welcomes : JoinGroup(m, w)

Spec == Init /\ [][Next]_vars

-----------------------------------------------------------------------------
Sessions == {m \in Member : HasSession(m)}

\* All sessions are on one chain of epochs: of two, one is a prefix of the other,
\* whatever commits raced each other to the committer (session.rs, advance: "so
\* every member converges on the same epoch chain").
ChainsAgree ==
    \A m, n \in Sessions : Prefix(sess[m].chain, sess[n].chain) \/ Prefix(sess[n].chain, sess[m].chain)

\* Of two sessions the one further in the log is the further on the chain: how far
\* a session applied the log tells its epoch, whatever it committed, lost or joined by.
PlaceTellsEpoch ==
    \A m, n \in Sessions :
        sess[m].applied <= sess[n].applied => Prefix(sess[m].chain, sess[n].chain)

\* A commit that is still pending is of the session's present epoch and is awaited at
\* the entry that orders it, so merging it is what processing it is for the others.
PendingIsNext ==
    \A m \in Sessions :
        LET i == sess[m].pendingSeq
        IN  sess[m].pending =>
                /\ i \in (sess[m].applied + 1)..Len(commits)
                /\ commits[i].author = sess[m].leaf /\ commits[i].base = sess[m].chain

\* Whoever files a message held a leaf of the epoch it was sent in: members added
\* later and members removed before never read it.
ReadByMembers == \A f \in filed : f.leaf \in Roster(commits, f.msg.chain)

\* An epoch number and a call name one SFrame secret among all members, and two
\* calls never share one.
SframeKeysAgree ==
    \A m, n \in Sessions, c, d \in Call :
        LET x == SframeEpochSecret(m, c)
            y == SframeEpochSecret(n, d)
        IN  x.secret = y.secret <=> (x.epoch = y.epoch /\ c = d)

\* The members of a group agree on its epochs and on who is in them.
GroupsAgree ==
    ChainsAgree /\ PlaceTellsEpoch /\ PendingIsNext /\ SframeKeysAgree /\ ReadByMembers

=============================================================================
