------------------------------ MODULE PubServe ------------------------------
(***************************************************************************)
(* The public-object server (node/src/pubserve.rs): feeds that publishers  *)
(* append announces to, objects pinned under a holder's policy, and the    *)
(* read-only HTTP surface, with a follower that reads a feed through a     *)
(* cache that keeps what the Cache-Control headers allow it to keep.       *)
(* Entries are numbered from 0; an entry is known by its announce.         *)
(***************************************************************************)
EXTENDS Integers, Sequences

CONSTANTS
    Announce,       \* announces a publisher may append
    Size,           \* the size of each
    Declined,       \* content the holder's policy declines
    Quota,          \* per_publisher_quota
    OpenRanges,     \* whether the follower leaves `to` open (parse_range: u64::MAX)
    MaxFeed         \* bound: entries of the feed

PubAssumption ==
    Size \in [Announce -> Nat] /\ Declined \subseteq Announce /\ {Quota, MaxFeed} \subseteq Nat
    /\ OpenRanges \in BOOLEAN

VARIABLES
    entries,    \* FeedState::entries
    announces,  \* PubStore::announces
    cachedHead, \* the head the cache holds: the sequence number it commits
    cachedRange,\* the ranges the cache holds
    head,       \* the head the follower saw last
    have        \* the follower's entries

vars == <<entries, announces, cachedHead, cachedRange, head, have>>

None == -1
Open == MaxFeed + 1

Init ==
    /\ entries = <<>> /\ announces = {}
    /\ cachedHead = None /\ cachedRange = [r \in {} |-> <<>>]
    /\ head = None /\ have = <<>>

\* stored_per_pub, which nothing adds to.
StoredPerPub == 0

\* Mutant: only the quota is looked at.
AdmitAnything(a) == StoredPerPub + Size[a] <= Quota

\* ServePolicy::admit: declined content and what does not fit the quota.
Admit(a) == a \notin Declined /\ StoredPerPub + Size[a] <= Quota

StoreAnnounce(a) ==
    /\ Admit(a) /\ announces' = announces \union {a}
    /\ UNCHANGED <<entries, cachedHead, cachedRange, head, have>>

\* The sequence number the next head signs: one more than the prior head's.
NextSeq == Len(entries)

\* check_anti_rollback against the prior head.
AntiRollback == entries # <<>> => NextSeq > Len(entries) - 1

Append1(a) ==
    /\ Len(entries) < MaxFeed
    /\ AntiRollback /\ Admit(a)
    /\ announces' = announces \union {a}
    /\ entries' = Append(entries, a)
    /\ UNCHANGED <<cachedHead, cachedRange, head, have>>

\* Mutant: a range that is the wrong way round is not caught.
BackwardsNever(from, to) == FALSE

Backwards(from, to) == from > to

\* Mutant: the last entry asked for is left out.
ClampShort(to) == (IF to < Len(entries) - 1 THEN to ELSE Len(entries) - 1) - 1

Clamp(to) == IF to < Len(entries) - 1 THEN to ELSE Len(entries) - 1

\* Rust's slice entries[from..=hi] panics when it starts beyond its end.
InBounds(from, to) == Backwards(from, to) \/ entries = <<>> \/ from <= Clamp(to) + 1

FeedRange(from, to) ==
    IF Backwards(from, to) \/ entries = <<>> THEN <<>> ELSE SubSeq(entries, from + 1, Clamp(to) + 1)

-----------------------------------------------------------------------------
\* GET feed/{pub}/head: each cache on the way may keep it for a few seconds.
FeedHead ==
    /\ \/ entries # <<>> /\ head' = Len(entries) - 1 /\ cachedHead' \in {cachedHead, head'}
       \/ cachedHead # None /\ head' = cachedHead /\ UNCHANGED cachedHead
    /\ UNCHANGED <<entries, announces, cachedRange, have>>

Expire == cachedHead' = None /\ UNCHANGED <<entries, announces, cachedRange, head, have>>

\* The follower's next range: what it lacks up to the head it saw.
Asked == <<Len(have), IF OpenRanges THEN Open ELSE head>>

\* GET feed/{pub}/range: immutable, so that the cache answers from then on.
Range(from, to) ==
    IF <<from, to>> \in DOMAIN cachedRange THEN cachedRange[<<from, to>>] ELSE FeedRange(from, to)

\* Entries chain by `prev`: the follower takes those that follow on from its own.
FetchRange ==
    /\ head # None /\ InBounds(Asked[1], Asked[2])
    /\ LET got == Range(Asked[1], Asked[2])
       IN  /\ cachedRange' = [r \in DOMAIN cachedRange \union {Asked} |->
                                 IF r = Asked THEN got ELSE cachedRange[r]]
           /\ have' = have \o got
    /\ UNCHANGED <<entries, announces, cachedHead, head>>

\* GET announce/{id}: declined content is not served even when it is held.
ServeAddressed(a) == a \in announces /\ a \notin Declined

Next ==
    \/ \E a \in Announce : StoreAnnounce(a) \/ Append1(a)
    \/ FeedHead \/ Expire \/ FetchRange

Spec == Init /\ [][Next]_vars

-----------------------------------------------------------------------------
\* A follower holds the feed up to some head: no entry is missing in between, repeated
\* or of another feed, whichever heads and ranges came from a cache.  A head it fetched
\* the range of is one it holds all of.
FollowerHoldsPrefix ==
    /\ \A r \in DOMAIN cachedRange : r[2] < Open => Len(have) > r[2]
    /\ Len(have) <= Len(entries) /\ have = SubSeq(entries, 1, Len(have))

\* No range a follower asks for is out of the slice's bounds, however old its head is.
RangeInBounds == head # None => InBounds(Asked[1], Asked[2])

\* Every entry of a feed a follower reads about can be fetched.
EntriesServed == \A i \in DOMAIN entries : ServeAddressed(entries[i])

\* "A range is derived data (...) safe to cache immutably keyed by (pub, from, to)":
\* what the cache holds for a range is what the server would answer.  Kept only while no
\* follower leaves `to` open.
CachedRangeCurrent == \A r \in DOMAIN cachedRange : cachedRange[r] = FeedRange(r[1], r[2])

\* A follower behind a cache reads the feed without gaps and can fetch what it lists.
FeedIsWhole == FollowerHoldsPrefix /\ RangeInBounds /\ EntriesServed

=============================================================================
