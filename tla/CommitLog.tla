------------------------------ MODULE CommitLog -----------------------------
(***************************************************************************)
(* The committers of one group on the sides of a partition                 *)
(* (dmtap-mls/src/committer.rs): each orders commits in a hash-chained     *)
(* log, confirms them by a quorum of apply-acks, suspends itself without a *)
(* quorum of heartbeats, and adopts the other's confirmed commits once the *)
(* partition heals.  A link stands for the commits it hashes.              *)
(***************************************************************************)
EXTENDS Integers, Sequences, FiniteSets

CONSTANTS
    Committer,
    Member,     \* the roster
    MaxLog      \* bound: positions of a log

CommitLogAssumption == IsFiniteSet(Member) /\ MaxLog \in Nat

VARIABLES
    branch,     \* what each Committer holds
    vote        \* external: the commit each member has applied at each position

vars == <<branch, vote>>

Nothing == <<>>
Position == 1..MaxLog

Fresh ==
    [log |-> <<>>, links |-> <<>>, headLink |-> <<>>, rosterSize |-> 0,
     acks |-> [s \in Position |-> {}], confirmed |-> {}, suspended |-> FALSE]

Init ==
    /\ branch = [c \in Committer |-> Fresh]
    /\ vote = [m \in Member |-> [s \in Position |-> Nothing]]

\* Mutant: half of the roster is enough.
HalfQuorum(b) == b.rosterSize \div 2

Quorum(b) == b.rosterSize \div 2 + 1

ChainLink(prev, commit) == Append(prev, commit)

\* submit; try_order is the same behind the suspension check.
Submit(b, commit) ==
    [b EXCEPT !.log = Append(@, commit), !.links = Append(@, ChainLink(b.headLink, commit)),
              !.headLink = ChainLink(@, commit)]

\* The commits of two committers are different ones.
TryOrder(c) ==
    LET b == branch[c] IN
    /\ ~b.suspended /\ Len(b.log) < MaxLog
    /\ branch' = [branch EXCEPT ![c] = Submit(b, <<c, Len(b.log) + 1>>)]
    /\ UNCHANGED vote

SetRosterSize(c) ==
    /\ branch' = [branch EXCEPT ![c].rosterSize = Cardinality(Member)]
    /\ UNCHANGED vote

\* A member acks the commit that stands at the position here; it leaves a commit
\* it acked before only for one that is confirmed.
RecordAck(c, m, s) ==
    LET b == branch[c]
        acks == b.acks[s] \union {m}
    IN  /\ s \in DOMAIN b.log
        /\ vote[m][s] \in {Nothing, b.log[s]} \/ s \in b.confirmed
        /\ vote' = [vote EXCEPT ![m][s] = b.log[s]]
        /\ branch' = [branch EXCEPT
              ![c].acks[s] = acks,
              ![c].confirmed = IF b.rosterSize > 0 /\ Cardinality(acks) >= Quorum(b)
                               THEN @ \union {s} ELSE @]

ObserveHeartbeats(c, live) ==
    /\ branch' = [branch EXCEPT ![c].suspended =
                    branch[c].rosterSize > 0 /\ Cardinality(live) < Quorum(branch[c])]
    /\ UNCHANGED vote

\* Mutant: only the replaced position gets a new link.
RelinkedOnce(log, links, s) ==
    [i \in DOMAIN log |-> IF i = s THEN ChainLink(IF s = 1 THEN <<>> ELSE links[s - 1], log[s])
                          ELSE links[i]]

\* The links from position s on, over the link before it.
Relinked(log, links, s) ==
    [i \in DOMAIN log |-> IF i < s THEN links[i]
                          ELSE (IF s = 1 THEN <<>> ELSE links[s - 1]) \o SubSeq(log, s, i)]

InstallConfirmed(b, s, commit) ==
    LET log == IF s \in DOMAIN b.log THEN [b.log EXCEPT ![s] = commit] ELSE Append(b.log, commit)
        links == Relinked(log, b.links, s)
    IN  [b EXCEPT !.log = log, !.links = links, !.headLink = links[Len(links)],
                  !.confirmed = @ \union {s}, !.acks[s] = {}]

\* Healing hands over the peer's confirmed commits in order.  A position that is
\* empty here takes the commit, the same commit is confirmed, an unconfirmed
\* other is rolled back; a confirmed other is ForkEvidence and changes nothing.
AdoptConfirmed(c, peer, s) ==
    LET b == branch[c]
        theirs == branch[peer].log[s]
    IN  /\ s \in branch[peer].confirmed /\ s <= Len(b.log) + 1
        /\ \/ /\ s \notin DOMAIN b.log
              /\ branch' = [branch EXCEPT ![c] = InstallConfirmed(b, s, theirs)]
           \/ /\ s \in DOMAIN b.log /\ b.log[s] = theirs
              /\ branch' = [branch EXCEPT ![c].confirmed = @ \union {s}]
           \/ /\ s \in DOMAIN b.log /\ b.log[s] # theirs /\ s \notin b.confirmed
              /\ branch' = [branch EXCEPT ![c] =
                              [InstallConfirmed(b, s, theirs) EXCEPT !.suspended = FALSE]]
        /\ UNCHANGED vote

Next ==
    \E c \in Committer :
        \/ TryOrder(c) \/ SetRosterSize(c)
        \/ \E m \in Member, s \in Position : RecordAck(c, m, s)
        \/ \E live \in SUBSET Member : ObserveHeartbeats(c, live)
        \/ \E peer \in Committer \ {c}, s \in Position : AdoptConfirmed(c, peer, s)

Spec == Init /\ [][Next]_vars

-----------------------------------------------------------------------------
\* No two committers confirm different commits at one position, so adopt_confirmed
\* never meets its fork arm (committer.rs: "the fork branch is reached only if a
\* committer confirmed a Commit it had no quorum for").
ConfirmedAgree ==
    \A c, d \in Committer : \A s \in branch[c].confirmed \intersect branch[d].confirmed :
        branch[c].log[s] = branch[d].log[s]

\* Every link hashes exactly the entries up to its own, also behind a commit that
\* healing replaced, and the head link is the last of them.
LinksConsistent ==
    \A c \in Committer :
        LET b == branch[c] IN
        /\ b.links = [i \in DOMAIN b.log |-> SubSeq(b.log, 1, i)]
        /\ b.headLink = b.log

\* Committers that were parted agree on what was confirmed, and their logs are chained.
CommittersAgree == ConfirmedAgree /\ LinksConsistent

=============================================================================
