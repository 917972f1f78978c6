----------------------------- MODULE MCServices -----------------------------
(***************************************************************************)
(* Small instances of what surrounds the delivery engine and the cluster:  *)
(* groups, names and their logs, mesh and mix routes, login, the node's    *)
(* entry points and servers, the operator's metering and zone, and the     *)
(* clients.  None of them reads another, so a behaviour is that of one of  *)
(* them, `part'.  The parts take turns with the variables: `slots' hold    *)
(* the variables of the part in the order its module declares them, and    *)
(* those it has no use for are 0.  A part about which a theorem is proved  *)
(* comes from the module of its proof and has its sizes as constants here; *)
(* the other parts have theirs where they are instantiated.                *)
(***************************************************************************)
EXTENDS Integers, Sequences

CONSTANTS
    Nil,                                                \* an absent key, id, token or passphrase
    GroupNode, Founder, RtcCall, LateJoins, MaxFrames, MaxOrdered, MaxLeaves, MaxSaid, \* MLS groups
    Group, Suite, XWing, MaxSteps,                      \* the suites of their handshakes
    Committer, Voter, MaxCommits,                       \* the committers' log
    Addr, MaxInbox, MaxAuto, MaxRecords, MaxCalls,      \* the mesh transport
    Authority, MaxEpoch, MaxVersion, MaxFailures,       \* mix directories
    Identity, Device, Cert, Origin, Ttl, DpopFresh, MaxClock, MaxChallenge, MaxProof, MaxUse, \* logins
    Passphrase, MaxIdentity,                            \* start-up
    MaxLaunches, MaxTokens, Attempts,                   \* the desktop shell
    Version, Foreign, MaxForeign,                       \* the gateway's zone
    Announce, Declined, Quota, MaxFeed,                 \* feeds of public objects
    Email, ClientOp, MaxChanges, MaxLocal, MaxConnects, \* the web client
    Account, Mine, Delta, MaxStored, MaxPeriod,         \* the stored-bytes level
    Event, Capacity, DrainSize,                         \* the metering queue
    Receipt, Currency, Cost, Low, Full, PowBits, MaxSends, \* prepaid postage
    MaxGuesses, GuessSpan, WholeSecond, LongestCall, TickEvery, LastMoment, \* the JMAP listener
    SendDomain, AnyDomain, Rate, Unlimited, KeyTtl, Year, Minute, MaxKeys, MaxMotes, LastTick, \* the send API
    Author, AuthorOrder, MaxHlc, Cancels, PullLimit, PushLimit, Inline, \* the sync server
    NameAddr, NameKey, Looks(_), Log, NeedQuorum, MaxNames, MaxResolve,   \* names and pinned keys
    Spelling, Canonical(_), Unspellable, Skeleton(_), Form(_), Key, KeyName(_), MaxAnswers, \* kinds of name
    EmptyRecord, Resolver, NoResolver, MaxWrites,       \* the name-chain clients
    EnvelopeLengths, PathLengths, FragmentLen, RMax, MaxWraps \* onion wrapping

VARIABLES part, s1, s2, s3, s4, s5, s6, s7, s8, s9, s10, s11

slots == <<s1, s2, s3, s4, s5, s6, s7, s8, s9, s10, s11>>
vars == <<part, slots>>

\* The slots from the n-th on are out of use.
Spare(n) ==
    /\ IF n <= 3 THEN s3 = 0 ELSE TRUE
    /\ IF n <= 4 THEN s4 = 0 ELSE TRUE
    /\ IF n <= 5 THEN s5 = 0 ELSE TRUE
    /\ IF n <= 6 THEN s6 = 0 ELSE TRUE
    /\ IF n <= 7 THEN s7 = 0 ELSE TRUE
    /\ IF n <= 8 THEN s8 = 0 ELSE TRUE
    /\ IF n <= 9 THEN s9 = 0 ELSE TRUE
    /\ IF n <= 10 THEN s10 = 0 ELSE TRUE
    /\ IF n <= 11 THEN s11 = 0 ELSE TRUE

LookAlike(address) == 0

CanonicalName(s) == IF s = "Bob" THEN "bob" ELSE IF s = "mix" THEN "bad" ELSE s
SkeletonOf(name) == IF name = "b0b" THEN "bob" ELSE name
FormOf(s) == IF s = "k-words" THEN "self" ELSE "petname"
KeyNameOf(key) == IF key = "k" THEN "k-words" ELSE "j-words"

Certs == {[ik |-> "i", key |-> "d", expires |-> 2], [ik |-> "j", key |-> "d", expires |-> 1]}

\* Each author's second or third operation takes back one that came before.
Authors == <<"a", "b">>

CancelledBy ==
    [o \in {"a", "b"} \X (1..3) |-> IF o \in {<<"a", 2>>, <<"b", 2>>} THEN {<<"a", 1>>}
                                   ELSE IF o = <<"b", 3>> THEN {<<"b", 1>>} ELSE {}]

Events ==
    {[id |-> Nil, account |-> "acc", kind |-> "k", amount |-> 1, ts |-> t] : t \in 0..1}
    \union {[id |-> "i", account |-> "acc", kind |-> "k", amount |-> 2, ts |-> 0],
            [id |-> "j", account |-> "bcc", kind |-> "k", amount |-> 2, ts |-> 0]}

Receipts ==
    {[reference |-> 1, amount |-> 3, currency |-> "USDC", settled |-> TRUE],
     [reference |-> 2, amount |-> 2, currency |-> "USDC", settled |-> TRUE],
     [reference |-> 3, amount |-> 2, currency |-> "USDC", settled |-> FALSE],
     [reference |-> 4, amount |-> 2, currency |-> "EUR", settled |-> TRUE]}

-----------------------------------------------------------------------------
\* Three nodes, enough commits for two to race and a third to order them; two classical
\* suites and the post-quantum one;
\* committers on the sides of a partition; the mesh transport with one thread that
\* resolves locations; mix directories; logins; an identity and those that replace it;
\* launches of the shell and the children of those that were killed; records before and
\* after a change of the gateway's keys, and an owner who edits once; a
\* quota of two, content the policy declines and followers behind a cache; two calls in
\* flight, a local record, a reconnect and a disconnect; two accounts in one event stream,
\* two periods and a clock that may go back; more events than the queue holds, with and
\* without an idempotency key; receipts of the right and a wrong currency, one of them not
\* settled, taken in one call at a time; a throttle's window longer than the rounding of
\* Retry-After, and time for two and a half; a key of the send API, one it delegates to
\* and one that replaces either, and two minutes; two authors who cancel each other's
\* operations, and batches shorter than the journal; two addresses that look alike, two pinned
\* logs and two versions of an identity; spellings of one petname, one that looks like it, a
\* refused one and a key-name; two resolvers and two keys, and time for three writes
\* between the calls to a name chain; and envelopes of less than one fragment, one, two, and
\* more than the ladder takes, on paths of both limits and past them.
Proved == INSTANCE ComponentProofs WITH
    Member <- Voter, MaxLog <- MaxCommits, Op <- ClientOp, Caller <- {"c"}, MaxSeq <- MaxRecords,
    MaxNow <- MaxClock, Fresh <- DpopFresh, NoPass <- Nil,
    Size <- [a \in Announce |-> 1], OpenRanges <- FALSE, NoToken <- Nil, Patient <- TRUE,
    Batch <- DrainSize, NoId <- Nil, NoAccount <- Nil, Payer <- {"c"},
    branch <- s1, vote <- s2,
    peers <- s1, inbox <- s2, tracker <- s3, marks <- s4, adopting <- s5, calls <- s6,
    commands <- s7, pending <- s8,
    latest <- s1, saved <- s2, running <- s3, failures <- s4, newest <- s5, unsaved <- s6,
    now <- s1, issued <- s2, sent <- s3, proofs <- s4, seen <- s5, sessions <- s6, used <- s7,
    file <- s1, tmp <- s2, drawn <- s3, init <- s4, printed <- s5, daemon <- s6,
    password <- s1, admin <- s2, keystore <- s3, stored <- s4, launch <- s5, pc <- s6,
    tries <- s7, token <- s8, minted <- s9, nodes <- s10, met <- s11,
    zone <- s1, run <- s2, edits <- s3,
    entries <- s1, announces <- s2, cachedHead <- s3, cachedRange <- s4, head <- s5, have <- s6,
    emails <- s1, version <- s2, mode <- s3, stateToken <- s4, mail <- s5, client <- s6,
    session <- s7, epoch <- s8, written <- s9, ops <- s10,
    held <- s1, level <- s2, last <- s3, disk <- s4, bill <- s5,
    buf <- s1, known <- s2, totals <- s3, billed <- s4, taken <- s5,
    ledger <- s1, credited <- s2, call <- s3, reminders <- s4, allowed <- s5,
    throttle <- s2, guesses <- s3, told <- s4, due <- s5,
    keys <- s1, revocations <- s2, dispatched <- s3, time <- s4,
    applied <- s1, journal <- s2, signed <- s3, snapshot <- s4, answer <- s5, pulled <- s6,
    vector <- s7,
    identities <- s1, pins <- s2, directory <- s3, resolved <- s4,
    book <- s1, enabled <- s2, keyring <- s3, contacts <- s4, answers <- s5,
    registry <- s1, text <- s2, vouched <- s3, account <- s4, writes <- s5, step <- s6,
    asked <- s7, reply <- s8, result <- s9, moments <- s10, moved <- s11

Messaging == INSTANCE MessagingProofs WITH
    leaf <- s1, published <- s2, sess <- s3, commits <- s4, welcomes <- s5, frames <- s6,
    said <- s7, filed <- s8,
    highest <- s1, passed <- s2,
    envelope <- s1, unwrapped <- s2, wraps <- s3, outgoing <- s4, mixTags <- s5,
    underway <- s6, collected <- s7, rebuilt <- s8

\* Trees of up to six leaves on two branches, so that the log can show either.
Kt == INSTANCE KtLog WITH
    Leaf <- {1, 2}, Branch <- {1, 2}, MaxLeaves <- 6, MaxHeads <- 2,
    tree <- s1, heads <- s2

\* Bytes and symbols at the ends and in the middle, every length of the rest.
Text == INSTANCE Codecs WITH
    Byte <- {0, 1, 128, 255}, Symbol32 <- {0, 1, 16, 31}, Symbol64 <- {0, 1, 32, 63},
    KeyLen <- 3, MaxBytes <- 5, MaxText <- 6,
    bytes <- s1, text32 <- s2, text64 <- s3

ASSUME ServicesAssumption ==
    /\ Messaging!Groups!GroupAssumption /\ Proved!Commits!CommitLogAssumption /\ Messaging!Suites!SuiteAssumption
    /\ Proved!Routes!MeshAssumption /\ Proved!Mixes!MixDirAssumption /\ Messaging!Onions!OnionAssumption
    /\ Proved!Names!NamingAssumption /\ Proved!Sources!SourcesAssumption /\ Kt!KtAssumption
    /\ Text!CodecAssumption /\ Proved!Chain!ChainAssumption /\ Proved!Logins!LoginAssumption
    /\ Proved!Nodes!StartAssumption /\ Proved!Sends!SendAssumption /\ Proved!Jmaps!GateAssumption
    /\ Proved!Syncs!SyncAssumption /\ Proved!Pubs!PubAssumption /\ Proved!Usages!UsageAssumption
    /\ Proved!Meters!MeterAssumption /\ Proved!Stamps!PostageAssumption /\ Proved!Zones!DnsAssumption
    /\ Proved!Shells!ShellAssumption /\ Proved!Clients!ClientAssumption

-----------------------------------------------------------------------------
Init ==
    \/ part = "group" /\ Messaging!Groups!Init /\ Spare(9)
    \/ part = "commits" /\ Proved!Commits!Init /\ Spare(3)
    \/ part = "suite" /\ Messaging!Suites!Init /\ Spare(3)
    \/ part = "mesh" /\ Proved!Routes!Init /\ Spare(9)
    \/ part = "mixdir" /\ Proved!Mixes!Init /\ Spare(7)
    \/ part = "onion" /\ Messaging!Onions!Init /\ Spare(9)
    \/ part = "names" /\ Proved!Names!Init /\ Spare(5)
    \/ part = "sources" /\ Proved!Sources!Init /\ Spare(6)
    \/ part = "log" /\ Kt!Init /\ Spare(3)
    \/ part = "codec" /\ Text!Init /\ Spare(4)
    \/ part = "chain" /\ Proved!Chain!Init
    \/ part = "login" /\ Proved!Logins!Init /\ Spare(8)
    \/ part = "start" /\ Proved!Nodes!Init /\ Spare(7)
    \/ part = "send" /\ Proved!Sends!Init /\ Spare(5)
    \/ part = "jmap" /\ Proved!Jmaps!Init /\ Spare(6)
    \/ part = "sync" /\ Proved!Syncs!Init /\ Spare(8)
    \/ part = "pub" /\ Proved!Pubs!Init /\ Spare(7)
    \/ part = "usage" /\ Proved!Usages!Init /\ Spare(6)
    \/ part = "meter" /\ Proved!Meters!Init /\ Spare(6)
    \/ part = "postage" /\ Proved!Stamps!Init /\ Spare(6)
    \/ part = "dns" /\ Proved!Zones!Init /\ Spare(4)
    \/ part = "shell" /\ Proved!Shells!Init
    \/ part = "client" /\ Proved!Clients!Init /\ Spare(11)

Next ==
    \/ part = "group" /\ Messaging!Groups!Next /\ UNCHANGED <<part, s9, s10, s11>>
    \/ part = "commits" /\ Proved!Commits!Next /\ UNCHANGED <<part, s3, s4, s5, s6, s7, s8, s9, s10, s11>>
    \/ part = "suite" /\ Messaging!Suites!Next /\ UNCHANGED <<part, s3, s4, s5, s6, s7, s8, s9, s10, s11>>
    \/ part = "mesh" /\ Proved!Routes!Next /\ UNCHANGED <<part, s9, s10, s11>>
    \/ part = "mixdir" /\ Proved!Mixes!Next /\ UNCHANGED <<part, s7, s8, s9, s10, s11>>
    \/ part = "onion" /\ Messaging!Onions!Next /\ UNCHANGED <<part, s9, s10, s11>>
    \/ part = "names" /\ Proved!Names!Next /\ UNCHANGED <<part, s5, s6, s7, s8, s9, s10, s11>>
    \/ part = "sources" /\ Proved!Sources!Next /\ UNCHANGED <<part, s6, s7, s8, s9, s10, s11>>
    \/ part = "log" /\ Kt!Next /\ UNCHANGED <<part, s3, s4, s5, s6, s7, s8, s9, s10, s11>>
    \/ part = "codec" /\ Text!Next /\ UNCHANGED <<part, s4, s5, s6, s7, s8, s9, s10, s11>>
    \/ part = "chain" /\ Proved!Chain!Next /\ UNCHANGED <<part>>
    \/ part = "login" /\ Proved!Logins!Next /\ UNCHANGED <<part, s8, s9, s10, s11>>
    \/ part = "start" /\ Proved!Nodes!Next /\ UNCHANGED <<part, s7, s8, s9, s10, s11>>
    \/ part = "send" /\ Proved!Sends!Next /\ UNCHANGED <<part, s5, s6, s7, s8, s9, s10, s11>>
    \/ part = "jmap" /\ Proved!Jmaps!Next /\ UNCHANGED <<part, s6, s7, s8, s9, s10, s11>>
    \/ part = "sync" /\ Proved!Syncs!Next /\ UNCHANGED <<part, s8, s9, s10, s11>>
    \/ part = "pub" /\ Proved!Pubs!Next /\ UNCHANGED <<part, s7, s8, s9, s10, s11>>
    \/ part = "usage" /\ Proved!Usages!Next /\ UNCHANGED <<part, s6, s7, s8, s9, s10, s11>>
    \/ part = "meter" /\ Proved!Meters!Next /\ UNCHANGED <<part, s6, s7, s8, s9, s10, s11>>
    \/ part = "postage" /\ Proved!Stamps!Next /\ UNCHANGED <<part, s6, s7, s8, s9, s10, s11>>
    \/ part = "dns" /\ Proved!Zones!Next /\ UNCHANGED <<part, s4, s5, s6, s7, s8, s9, s10, s11>>
    \/ part = "shell" /\ Proved!Shells!Next /\ UNCHANGED <<part>>
    \/ part = "client" /\ Proved!Clients!Next /\ UNCHANGED <<part, s11>>

\* A follower of the sync server polls, and is not cut off for ever.
Polls == part = "sync" /\ Proved!Syncs!PullResponse /\ UNCHANGED <<part, s8, s9, s10, s11>>
FetchesBody == part = "sync" /\ Proved!Syncs!StateResponse /\ UNCHANGED <<part, s8, s9, s10, s11>>
Receives == part = "sync" /\ Proved!Syncs!Apply /\ UNCHANGED <<part, s8, s9, s10, s11>>

Spec ==
    /\ Init /\ [][Next]_vars
    /\ WF_vars(Polls) /\ SF_vars(FetchesBody) /\ SF_vars(Receives)

-----------------------------------------------------------------------------
\* The members of a group are on one chain of epochs whatever commits raced each
\* other to the committer (while a Welcome is used before the next commit is
\* ordered); how far a session applied the log tells its epoch, and a pending commit
\* is of its session's present epoch; an epoch and a call name one SFrame secret; who
\* files a message held a leaf of its epoch. And accept lets no handshake below a
\* suite its group accepted or observed since that one was retired.
GroupsAgree ==
    /\ part = "group" => Messaging!Groups!GroupsAgree
    /\ part = "suite" => Messaging!Suites!NoSuiteDowngrade

\* Two committers never confirm different commits at one position, so healing never
\* meets adopt_confirmed's fork arm, and every link hashes the entries up to its own,
\* behind a replaced entry too.
CommittersAgree == part = "commits" => Proved!Commits!CommittersAgree

\* A route from a location record is that of the newest record ever admitted, over
\* restarts and re-adoptions; a Kademlia call is answered at most once and none is
\* forgotten; inbound frames fill neither the route book nor the inbox past their
\* limits.
MeshHolds == part = "mesh" => Proved!Routes!MeshHolds

\* What the recipient reassembles from the cells of any attempts, in any order, is
\* the envelope that was sealed, and no retry carries a tag the entry mix has seen.
OpensAcrossRetries == part = "onion" => Messaging!Onions!OpensAcrossRetries

\* Two answers for one address share a log that attested both; no two addresses that
\* look alike are resolved for one user; an address resolves only to an identity that
\* lists it; mail is sealed to a resolved version; petnames are unambiguous and
\* reconcile is order free; an ENS or SNS answer is a key the name had during the
\* resolution.
NamesAreSound ==
    /\ part = "names" => Proved!Names!NamesAreSound
    /\ part = "sources" => Proved!Sources!SourcesAreSound
    /\ part = "chain" => Proved!Chain!AnswerWasCurrent

\* The log's inclusion proofs are accepted for the leaf at their index and no other;
\* the tree heads a client accepts extend one another, whichever branch it is shown;
\* from every size a log had there is a consistency proof that is accepted.
LogIsSound == part = "log" => Kt!LogIsSound

\* What the base32 and base64url encoders write is read back at every length of the
\* rest, a key has one gateway alias, and the strict and the lenient decoder agree.
CodecsAreExact == part = "codec" => Text!CodecsAreExact

\* A challenge or request proof that was accepted is accepted again only at the
\* instant it expires, and a session belongs to the identity or a device it had
\* certified and was asked for from the relying party's own origin.
LoginsAreOwned == part = "login" => Proved!Logins!LoginsAreOwned

\* Whatever dies when, the keystore is absent, or whole and private; every service of
\* a running daemon belongs to the identity of its mesh address, unless a forced init
\* replaced it meanwhile; a printed identity is one the keystore holds, or held
\* before a later one.
IdentityIsKept == part = "start" => Proved!Nodes!IdentityIsKept

\* While nobody logs in, a span as long as a throttle window sees fewer wrong
\* credentials evaluated than two windows' worth, and who waits as long as Retry-
\* After says finds the window over.
ThrottleHolds == part = "jmap" => Proved!Jmaps!ThrottleHolds

\* What a follower's vector says it has seen is what its state reflects, across
\* batches, truncations and fast joins, and one that is told there is nothing more
\* agrees with the server.
FollowerIsHonest == part = "sync" => Proved!Syncs!FollowerIsHonest

\* A follower holds the feed up to some head whichever heads and ranges a cache gave
\* it, asks for no range out of bounds, and can fetch every entry it reads about.
FeedIsWhole == part = "pub" => Proved!Pubs!FeedIsWhole

\* No period's level is billed twice, over restarts and clocks that go back, and it
\* is the account's own bytes; an event its emitter was told is in is counted once,
\* whatever was retried; postage balances and the sends made on them are the settled
\* receipts, each once.
BilledOnce ==
    /\ part = "usage" => Proved!Usages!UsageIsBilledOnce
    /\ part = "meter" => Proved!Meters!EachTakenCountedOnce
    /\ part = "postage" => Proved!Stamps!PostageBalances

\* A publish or delete that ends in Ok has left no record out, and runs that fail
\* half way and run again leave no second record of a type and name.
ZoneIsWhole == part = "dns" => Proved!Zones!ZoneIsWhole

\* Whichever node has the ports takes the window's password; the window has no send
\* token but one a node honoured during this launch; a node whose shell is gone has
\* seen its stdin close and obeys it.
LaunchesAgree == part = "shell" => Proved!Shells!LaunchesAgree

\* No mix directory replaces a newer one of its authority, restarts included, unless
\* the write that should have saved the newer one failed.
NoRollback == [][part = "mixdir" => Proved!Mixes!NoRollback]_vars

\* A message leaves only under a key none of whose delegators, however far up, is
\* revoked, out of its time or for another domain; no key sends more in a minute than
\* its own ceiling and those of its delegators; and every key that is not revoked can
\* be rotated.
SendKeysHold ==
    [][part = "send" => /\ Proved!Sends!SentUnderLiveLineage
                        /\ Proved!Sends!KeyRateHolds' /\ Proved!Sends!RotationNeverRefused']_vars

\* While the web client stays in real mode it loses no record that only it has, and
\* its state token is never ahead of the mail it stands beside, so that "nothing
\* changed" may be believed.
MailIsKept == [][part = "client" => Proved!Clients!LocalStays /\ Proved!Clients!TokenNotAhead']_vars

\* A follower that keeps asking agrees with the server once the pushes are over: each
\* batch or snapshot takes it further than the last, through every truncation.
FollowerCatchesUp == <>[](part = "sync" => Proved!Syncs!CaughtUp)

=============================================================================
