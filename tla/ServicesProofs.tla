--------------------------- MODULE ServicesProofs ---------------------------
(***************************************************************************)
(* What MCServices checks of the parts whose theorems are proved, for      *)
(* every value of its constants: a behaviour of it that is one of such a   *)
(* part is a behaviour of the part's own specification.                    *)
(***************************************************************************)
EXTENDS MCServices, TLAPS

\* Committers on the sides of a partition never confirm different commits at one
\* position, whatever each orders, counts and adopts (committer.rs record_ack,
\* adopt_confirmed), for every number of committers, members and positions.
THEOREM CommittersNeverFork == Spec => []CommittersAgree
  <1> DEFINE P == part = "commits"
  <1>1. Init /\ P => Proved!Commits!Init
    BY DEF Init
  <1>2. P /\ [Next]_vars => P' /\ [Proved!Commits!Next]_(Proved!Commits!vars)
    BY DEF Next, vars, slots, Proved!Commits!vars
  <1>3. ~P /\ [Next]_vars => ~P'
    BY DEF Next, vars, slots
  <1>4. Proved!Commits!Init /\ [][Proved!Commits!Next]_(Proved!Commits!vars) => []Proved!Commits!CommittersAgree
    <2>1. Proved!Commits!CommitLogAssumption
      BY ServicesAssumption DEF ServicesAssumption
    <2>2. QED
      BY <2>1, Proved!CommittersNeverFork DEF Proved!Commits!Spec
  <1>5. (P => Proved!Commits!CommittersAgree) => CommittersAgree
    BY DEF CommittersAgree
  <1> HIDE DEF P
  <1>6. QED
    BY <1>1, <1>2, <1>3, <1>4, <1>5, PTL DEF Spec

\* While one thread resolves locations, routes are those of the newest records, calls are
\* answered once and frames fill neither book nor inbox (discovery.rs, lib.rs of dmtap-p2p),
\* for every number of addresses, records and calls.
THEOREM RoutesStayNewest == Spec => []MeshHolds
  <1> DEFINE P == part = "mesh"
  <1>1. Init /\ P => Proved!Routes!Init
    BY DEF Init
  <1>2. P /\ [Next]_vars => P' /\ [Proved!Routes!Next]_(Proved!Routes!vars)
    BY DEF Next, vars, slots, Proved!Routes!vars
  <1>3. ~P /\ [Next]_vars => ~P'
    BY DEF Next, vars, slots
  <1>4. Proved!Routes!Init /\ [][Proved!Routes!Next]_(Proved!Routes!vars) => []Proved!Routes!MeshHolds
    <2>1. Proved!Routes!MeshAssumption /\ (\A c, d \in {"c"} : c = d)
      BY ServicesAssumption DEF ServicesAssumption
    <2>2. QED
      BY <2>1, Proved!RoutesStayNewest DEF Proved!Routes!Spec
  <1>5. (P => Proved!Routes!MeshHolds) => MeshHolds
    BY DEF MeshHolds
  <1> HIDE DEF P
  <1>6. QED
    BY <1>1, <1>2, <1>3, <1>4, <1>5, PTL DEF Spec

\* The directories of an authority are accepted in rising order only, across restarts, as
\* far as the writes of the journal succeeded (mixdir.rs ingest, node.rs checkpoint).
THEOREM DirectoriesOnlyRise == Spec => NoRollback
  <1> DEFINE P == part = "mixdir"
  <1>1. Init /\ P => Proved!Mixes!Init
    BY DEF Init
  <1>2. P /\ [Next]_vars => P' /\ [Proved!Mixes!Next]_(Proved!Mixes!vars)
    BY DEF Next, vars, slots, Proved!Mixes!vars
  <1>3. ~P /\ [Next]_vars => ~P'
    BY DEF Next, vars, slots
  <1>4. Proved!Mixes!Init /\ [][Proved!Mixes!Next]_(Proved!Mixes!vars) => [][Proved!Mixes!NoRollback]_(Proved!Mixes!vars)
    <2>1. Proved!Mixes!MixDirAssumption
      BY ServicesAssumption DEF ServicesAssumption
    <2>2. QED
      BY <2>1, Proved!DirectoriesOnlyRise DEF Proved!Mixes!Spec
  <1>5. [Proved!Mixes!NoRollback]_(Proved!Mixes!vars) /\ P /\ [Next]_vars => [part = "mixdir" => Proved!Mixes!NoRollback]_vars
    BY DEF Next, vars, slots, Proved!Mixes!vars
  <1>6. ~P => [part = "mixdir" => Proved!Mixes!NoRollback]_vars
    OBVIOUS
  <1> HIDE DEF P
  <1>7. QED
    BY <1>1, <1>2, <1>3, <1>4, <1>5, <1>6, PTL DEF Spec, NoRollback

\* A session is its identity's or a certified device's, made where its origin was seen, and
\* nothing is accepted again before the instant it expires (dmtap-auth verify_login).
THEOREM LoginsStayOwned == Spec => []LoginsAreOwned
  <1> DEFINE P == part = "login"
  <1>1. Init /\ P => Proved!Logins!Init
    BY DEF Init
  <1>2. P /\ [Next]_vars => P' /\ [Proved!Logins!Next]_(Proved!Logins!vars)
    BY DEF Next, vars, slots, Proved!Logins!vars
  <1>3. ~P /\ [Next]_vars => ~P'
    BY DEF Next, vars, slots
  <1>4. Proved!Logins!Init /\ [][Proved!Logins!Next]_(Proved!Logins!vars) => []Proved!Logins!LoginsAreOwned
    <2>1. Proved!Logins!LoginAssumption
      BY ServicesAssumption DEF ServicesAssumption
    <2>2. QED
      BY <2>1, Proved!LoginsStayOwned DEF Proved!Logins!Spec
  <1>5. (P => Proved!Logins!LoginsAreOwned) => LoginsAreOwned
    BY DEF LoginsAreOwned
  <1> HIDE DEF P
  <1>6. QED
    BY <1>1, <1>2, <1>3, <1>4, <1>5, PTL DEF Spec

\* Whatever dies between two file-system calls, the keystore is whole and private and the
\* services of a daemon belong to one identity (main.rs, keystore.rs, daemon.rs).
THEOREM IdentityKept == Spec => []IdentityIsKept
  <1> DEFINE P == part = "start"
  <1>1. Init /\ P => Proved!Nodes!Init
    BY DEF Init
  <1>2. P /\ [Next]_vars => P' /\ [Proved!Nodes!Next]_(Proved!Nodes!vars)
    BY DEF Next, vars, slots, Proved!Nodes!vars
  <1>3. ~P /\ [Next]_vars => ~P'
    BY DEF Next, vars, slots
  <1>4. Proved!Nodes!Init /\ [][Proved!Nodes!Next]_(Proved!Nodes!vars) => []Proved!Nodes!IdentityIsKept
    BY Proved!IdentityKept DEF Proved!Nodes!Spec
  <1>5. (P => Proved!Nodes!IdentityIsKept) => IdentityIsKept
    BY DEF IdentityIsKept
  <1> HIDE DEF P
  <1>6. QED
    BY <1>1, <1>2, <1>3, <1>4, <1>5, PTL DEF Spec

\* The node that has the ports takes the window's password, the window's token is one that
\* a node it met minted, and a child left behind stops (desktop lib.rs run), for every
\* number of launches.
THEOREM LaunchesAlwaysAgree == Spec => []LaunchesAgree
  <1> DEFINE P == part = "shell"
  <1>1. Init /\ P => Proved!Shells!Init
    BY DEF Init
  <1>2. P /\ [Next]_vars => P' /\ [Proved!Shells!Next]_(Proved!Shells!vars)
    BY DEF Next, vars, slots, Proved!Shells!vars
  <1>3. ~P /\ [Next]_vars => ~P'
    BY DEF Next, vars, slots
  <1>4. Proved!Shells!Init /\ [][Proved!Shells!Next]_(Proved!Shells!vars) => []Proved!Shells!LaunchesAgree
    <2>1. Proved!Shells!ShellAssumption
      BY ServicesAssumption DEF ServicesAssumption
    <2>2. QED
      BY <2>1, Proved!LaunchesAlwaysAgree DEF Proved!Shells!Spec
  <1>5. (P => Proved!Shells!LaunchesAgree) => LaunchesAgree
    BY DEF LaunchesAgree
  <1> HIDE DEF P
  <1>6. QED
    BY <1>1, <1>2, <1>3, <1>4, <1>5, PTL DEF Spec

\* A publish of the gateway's records that ended in Ok is whole, a delete leaves no more of
\* them than the owner added TXT records at the apex (one of which may be what it took), and
\* runs that fail half way and are run again leave nothing twice, those aside
\* (dmtap-operator dns.rs).
THEOREM ZonesStayWhole == Spec => []ZoneIsWhole
  <1> DEFINE P == part = "dns"
  <1>1. Init /\ P => Proved!Zones!Init
    BY DEF Init
  <1>2. P /\ [Next]_vars => P' /\ [Proved!Zones!Next]_(Proved!Zones!vars)
    BY DEF Next, vars, slots, Proved!Zones!vars
  <1>3. ~P /\ [Next]_vars => ~P'
    BY DEF Next, vars, slots
  <1>4. Proved!Zones!Init /\ [][Proved!Zones!Next]_(Proved!Zones!vars) => []Proved!Zones!ZoneIsWhole
    <2>1. Proved!Zones!DnsAssumption
      BY ServicesAssumption DEF ServicesAssumption
    <2>2. QED
      BY <2>1, Proved!ZonesStayWhole DEF Proved!Zones!Spec
  <1>5. (P => Proved!Zones!ZoneIsWhole) => ZoneIsWhole
    BY DEF ZoneIsWhole
  <1> HIDE DEF P
  <1>6. QED
    BY <1>1, <1>2, <1>3, <1>4, <1>5, PTL DEF Spec

\* A follower behind a cache reads a feed without gaps, asks for nothing out of bounds
\* and can fetch what it lists (pubserve.rs feed_range, append).
THEOREM FeedsStayWhole == Spec => []FeedIsWhole
  <1> DEFINE P == part = "pub"
  <1>1. Init /\ P => Proved!Pubs!Init
    BY DEF Init
  <1>2. P /\ [Next]_vars => P' /\ [Proved!Pubs!Next]_(Proved!Pubs!vars)
    BY DEF Next, vars, slots, Proved!Pubs!vars
  <1>3. ~P /\ [Next]_vars => ~P'
    BY DEF Next, vars, slots
  <1>4. Proved!Pubs!Init /\ [][Proved!Pubs!Next]_(Proved!Pubs!vars) => []Proved!Pubs!FeedIsWhole
    <2>1. Proved!Pubs!PubAssumption
      BY ServicesAssumption DEF ServicesAssumption
    <2>2. QED
      BY <2>1, Proved!FeedsStayWhole DEF Proved!Pubs!Spec
  <1>5. (P => Proved!Pubs!FeedIsWhole) => FeedIsWhole
    BY DEF FeedIsWhole
  <1> HIDE DEF P
  <1>6. QED
    BY <1>1, <1>2, <1>3, <1>4, <1>5, PTL DEF Spec

\* While a user waits for one sync before the next, the web client in real mode loses no
\* record that only it has and its token is not ahead of its mail (sync.js).
THEOREM MailStays == Spec => MailIsKept
  <1> DEFINE P == part = "client"
  <1>1. Init /\ P => Proved!Clients!Init
    BY DEF Init
  <1>2. P /\ [Next]_vars => P' /\ [Proved!Clients!Next]_(Proved!Clients!vars)
    BY DEF Next, vars, slots, Proved!Clients!vars
  <1>3. ~P /\ [Next]_vars => ~P'
    BY DEF Next, vars, slots
  <1>4. Proved!Clients!Init /\ [][Proved!Clients!Next]_(Proved!Clients!vars) => [][Proved!Clients!LocalStays /\ Proved!Clients!TokenNotAhead']_(Proved!Clients!vars)
    <2>1. Proved!Clients!ClientAssumption
      BY ServicesAssumption DEF ServicesAssumption
    <2>2. QED
      BY <2>1, Proved!MailStays DEF Proved!Clients!Spec
  <1>5. [Proved!Clients!LocalStays /\ Proved!Clients!TokenNotAhead']_(Proved!Clients!vars) /\ P /\ [Next]_vars => [part = "client" => Proved!Clients!LocalStays /\ Proved!Clients!TokenNotAhead']_vars
    BY DEF Next, vars, slots, Proved!Clients!vars
  <1>6. ~P => [part = "client" => Proved!Clients!LocalStays /\ Proved!Clients!TokenNotAhead']_vars
    OBVIOUS
  <1> HIDE DEF P
  <1>7. QED
    BY <1>1, <1>2, <1>3, <1>4, <1>5, <1>6, PTL DEF Spec, MailIsKept

\* A guesser is held to fewer than two windows' worth of evaluated credentials in any span
\* as long as a window, and who waits as long as Retry-After said is let in (jmap_api.rs
\* AuthThrottle), for all limits, windows and clocks.
THEOREM ThrottleStays == Spec => []ThrottleHolds
  <1> DEFINE P == part = "jmap"
  <1>1. Init /\ P => Proved!Jmaps!Init
    BY DEF Init
  <1>2. P /\ [Next]_vars => P' /\ [Proved!Jmaps!Next]_(Proved!Jmaps!vars)
    BY DEF Next, vars, slots, Proved!Jmaps!vars
  <1>3. ~P /\ [Next]_vars => ~P'
    BY DEF Next, vars, slots
  <1>4. Proved!Jmaps!Init /\ [][Proved!Jmaps!Next]_(Proved!Jmaps!vars) => []Proved!Jmaps!ThrottleHolds
    <2>1. Proved!Jmaps!GateAssumption
      BY ServicesAssumption DEF ServicesAssumption
    <2>2. QED
      BY <2>1, Proved!ThrottleIsKept DEF Proved!Jmaps!Spec
  <1>5. (P => Proved!Jmaps!ThrottleHolds) => ThrottleHolds
    BY DEF ThrottleHolds
  <1> HIDE DEF P
  <1>6. QED
    BY <1>1, <1>2, <1>3, <1>4, <1>5, PTL DEF Spec

\* What a follower's vector says it has seen is what its state reflects, across batches,
\* truncations and fast joins, and one that is told there is nothing more agrees with the
\* server (syncserve.rs, truncate_below and ops_after).
THEOREM FollowersStayHonest == Spec => []FollowerIsHonest
  <1> DEFINE P == part = "sync"
  <1>1. Init /\ P => Proved!Syncs!Init
    BY DEF Init
  <1>2. P /\ [Next]_vars => P' /\ [Proved!Syncs!Next]_(Proved!Syncs!vars)
    BY DEF Next, vars, slots, Proved!Syncs!vars, Proved!Syncs!server, Proved!Syncs!follower
  <1>3. ~P /\ [Next]_vars => ~P'
    BY DEF Next, vars, slots
  <1>4. Proved!Syncs!Init /\ [][Proved!Syncs!Next]_(Proved!Syncs!vars) => []Proved!Syncs!FollowerIsHonest
    <2>1. Proved!Syncs!SyncAssumption
      BY ServicesAssumption DEF ServicesAssumption
    <2>2. QED
      BY <2>1, Proved!FollowersStayHonest DEF Proved!Syncs!Spec
  <1>5. (P => Proved!Syncs!FollowerIsHonest) => FollowerIsHonest
    BY DEF FollowerIsHonest
  <1> HIDE DEF P
  <1>6. QED
    BY <1>1, <1>2, <1>3, <1>4, <1>5, PTL DEF Spec

\* A message leaves only under a key none of whose delegators is revoked, out of its time
\* or for another domain; no key sends more in a minute than its own ceiling and theirs;
\* and every key that is not revoked can be rotated (dmtap-send key.rs, pipeline.rs).
THEOREM SendKeysStay == Spec => SendKeysHold
  <1> DEFINE P == part = "send"
  <1>1. Init /\ P => Proved!Sends!Init
    BY DEF Init
  <1>2. P /\ [Next]_vars => P' /\ [Proved!Sends!Next]_(Proved!Sends!vars)
    BY DEF Next, vars, slots, Proved!Sends!vars
  <1>3. ~P /\ [Next]_vars => ~P'
    BY DEF Next, vars, slots
  <1>4. Proved!Sends!Init /\ [][Proved!Sends!Next]_(Proved!Sends!vars)
          => [][/\ Proved!Sends!SentUnderLiveLineage
                /\ Proved!Sends!KeyRateHolds' /\ Proved!Sends!RotationNeverRefused']_(Proved!Sends!vars)
    <2>1. Proved!Sends!SendAssumption
      BY ServicesAssumption DEF ServicesAssumption
    <2>2. QED
      BY <2>1, Proved!SendKeysStay DEF Proved!Sends!Spec
  <1>5. [/\ Proved!Sends!SentUnderLiveLineage
         /\ Proved!Sends!KeyRateHolds' /\ Proved!Sends!RotationNeverRefused']_(Proved!Sends!vars)
        /\ P /\ [Next]_vars
          => [part = "send" => /\ Proved!Sends!SentUnderLiveLineage
                               /\ Proved!Sends!KeyRateHolds' /\ Proved!Sends!RotationNeverRefused']_vars
    BY DEF Next, vars, slots, Proved!Sends!vars
  <1>6. ~P => [part = "send" => /\ Proved!Sends!SentUnderLiveLineage
                               /\ Proved!Sends!KeyRateHolds' /\ Proved!Sends!RotationNeverRefused']_vars
    OBVIOUS
  <1> HIDE DEF P
  <1>7. QED
    BY <1>1, <1>2, <1>3, <1>4, <1>5, <1>6, PTL DEF Spec, SendKeysHold

\* No period is billed twice, no event an emitter was told is in counted twice or left out,
\* and no receipt credited twice or balance overdrawn (usage.rs report_for_period,
\* dmtap-operator queue.rs enqueue, dmtap-postage-patala credit_from_receipt with one call
\* of it at a time), for all accounts, events, receipts and sizes.
THEOREM NothingIsBilledTwice == Spec => []BilledOnce
  <1> DEFINE OfUsages == part = "usage" => Proved!Usages!UsageIsBilledOnce
             OfMeters == part = "meter" => Proved!Meters!EachTakenCountedOnce
             OfStamps == part = "postage" => Proved!Stamps!PostageBalances
  <1>1. Spec => []OfUsages
    <2> DEFINE P == part = "usage"
    <2>1. Init /\ P => Proved!Usages!Init
      BY DEF Init
    <2>2. P /\ [Next]_vars => P' /\ [Proved!Usages!Next]_(Proved!Usages!vars)
      BY DEF Next, vars, slots, Proved!Usages!vars
    <2>3. ~P /\ [Next]_vars => ~P'
      BY DEF Next, vars, slots
    <2>4. Proved!Usages!Init /\ [][Proved!Usages!Next]_(Proved!Usages!vars) => []Proved!Usages!UsageIsBilledOnce
      <3>1. Proved!Usages!UsageAssumption
        BY ServicesAssumption DEF ServicesAssumption
      <3>2. QED
        BY <3>1, Proved!LevelIsBilledOnce DEF Proved!Usages!Spec
    <2>5. (P => Proved!Usages!UsageIsBilledOnce) => OfUsages
      OBVIOUS
    <2> HIDE DEF P, OfUsages
    <2>6. QED
      BY <2>1, <2>2, <2>3, <2>4, <2>5, PTL DEF Spec
  <1>2. Spec => []OfMeters
    <2> DEFINE P == part = "meter"
    <2>1. Init /\ P => Proved!Meters!Init
      BY DEF Init
    <2>2. P /\ [Next]_vars => P' /\ [Proved!Meters!Next]_(Proved!Meters!vars)
      BY DEF Next, vars, slots, Proved!Meters!vars
    <2>3. ~P /\ [Next]_vars => ~P'
      BY DEF Next, vars, slots
    <2>4. Proved!Meters!Init /\ [][Proved!Meters!Next]_(Proved!Meters!vars) => []Proved!Meters!EachTakenCountedOnce
      <3>1. Proved!Meters!MeterAssumption
        BY ServicesAssumption DEF ServicesAssumption
      <3>2. QED
        BY <3>1, Proved!TakenAreCounted DEF Proved!Meters!Spec
    <2>5. (P => Proved!Meters!EachTakenCountedOnce) => OfMeters
      OBVIOUS
    <2> HIDE DEF P, OfMeters
    <2>6. QED
      BY <2>1, <2>2, <2>3, <2>4, <2>5, PTL DEF Spec
  <1>3. Spec => []OfStamps
    <2> DEFINE P == part = "postage"
    <2>1. Init /\ P => Proved!Stamps!Init
      BY DEF Init
    <2>2. P /\ [Next]_vars => P' /\ [Proved!Stamps!Next]_(Proved!Stamps!vars)
      BY DEF Next, vars, slots, Proved!Stamps!vars
    <2>3. ~P /\ [Next]_vars => ~P'
      BY DEF Next, vars, slots
    <2>4. Proved!Stamps!Init /\ [][Proved!Stamps!Next]_(Proved!Stamps!vars) => []Proved!Stamps!PostageBalances
      <3>1. Proved!Stamps!PostageAssumption /\ (\A c, d \in {"c"} : c = d)
        BY ServicesAssumption DEF ServicesAssumption
      <3>2. QED
        BY <3>1, Proved!PostageIsPaidFor DEF Proved!Stamps!Spec, Proved!OneCaller
    <2>5. (P => Proved!Stamps!PostageBalances) => OfStamps
      OBVIOUS
    <2> HIDE DEF P, OfStamps
    <2>6. QED
      BY <2>1, <2>2, <2>3, <2>4, <2>5, PTL DEF Spec
  <1>4. OfUsages /\ OfMeters /\ OfStamps => BilledOnce
    BY DEF BilledOnce
  <1> HIDE DEF OfUsages, OfMeters, OfStamps
  <1>5. QED
    BY <1>1, <1>2, <1>3, <1>4, PTL

\* Two answers for one address were attested by a common log, no two that look alike are
\* resolved, an address gives only an identity that lists it, and mail is sealed to a resolved
\* version; petnames are apart and answers reconciled whatever their order; a name chain's
\* answer was current during the lookup if the name kept its resolver meanwhile (dmtap-naming
\* resolver.rs, kt.rs, reconcile.rs, dmtap-namechain-rpc), for all names, keys, logs, skeletons
\* and numbers of versions, answers and writes.
THEOREM NamesStaySound == Spec => []NamesAreSound
  <1> DEFINE OfNames == part = "names" => Proved!Names!NamesAreSound
             OfSources == part = "sources" => Proved!Sources!SourcesAreSound
             OfChain == part = "chain" => Proved!Chain!AnswerWasCurrent
  <1>1. Spec => []OfNames
    <2> DEFINE P == part = "names"
    <2>1. Init /\ P => Proved!Names!Init
      BY DEF Init
    <2>2. P /\ [Next]_vars => P' /\ [Proved!Names!Next]_(Proved!Names!vars)
      BY DEF Next, vars, slots, Proved!Names!vars
    <2>3. ~P /\ [Next]_vars => ~P'
      BY DEF Next, vars, slots
    <2>4. Proved!Names!Init /\ [][Proved!Names!Next]_(Proved!Names!vars) => []Proved!Names!NamesAreSound
      <3>1. Proved!Names!NamingAssumption
        BY ServicesAssumption DEF ServicesAssumption
      <3>2. QED
        BY <3>1, Proved!NamesStaySound DEF Proved!Names!Spec
    <2>5. (P => Proved!Names!NamesAreSound) => OfNames
      OBVIOUS
    <2> HIDE DEF P, OfNames
    <2>6. QED
      BY <2>1, <2>2, <2>3, <2>4, <2>5, PTL DEF Spec
  <1>2. Spec => []OfSources
    <2> DEFINE P == part = "sources"
    <2>1. Init /\ P => Proved!Sources!Init
      BY DEF Init
    <2>2. P /\ [Next]_vars => P' /\ [Proved!Sources!Next]_(Proved!Sources!vars)
      BY DEF Next, vars, slots, Proved!Sources!vars
    <2>3. ~P /\ [Next]_vars => ~P'
      BY DEF Next, vars, slots
    <2>4. Proved!Sources!Init /\ [][Proved!Sources!Next]_(Proved!Sources!vars) => []Proved!Sources!SourcesAreSound
      <3>1. Proved!Sources!SourcesAssumption
        BY ServicesAssumption DEF ServicesAssumption
      <3>2. QED
        BY <3>1, Proved!SourcesStaySound DEF Proved!Sources!Spec
    <2>5. (P => Proved!Sources!SourcesAreSound) => OfSources
      OBVIOUS
    <2> HIDE DEF P, OfSources
    <2>6. QED
      BY <2>1, <2>2, <2>3, <2>4, <2>5, PTL DEF Spec
  <1>3. Spec => []OfChain
    <2> DEFINE P == part = "chain"
    <2>1. Init /\ P => Proved!Chain!Init
      BY DEF Init
    <2>2. P /\ [Next]_vars => P' /\ [Proved!Chain!Next]_(Proved!Chain!vars)
      BY DEF Next, vars, slots, Proved!Chain!vars
    <2>3. ~P /\ [Next]_vars => ~P'
      BY DEF Next, vars, slots
    <2>4. Proved!Chain!Init /\ [][Proved!Chain!Next]_(Proved!Chain!vars) => []Proved!Chain!AnswerWasCurrent
      <3>1. Proved!Chain!ChainAssumption
        BY ServicesAssumption DEF ServicesAssumption
      <3>2. QED
        BY <3>1, Proved!AnswersWereCurrent DEF Proved!Chain!Spec
    <2>5. (P => Proved!Chain!AnswerWasCurrent) => OfChain
      OBVIOUS
    <2> HIDE DEF P, OfChain
    <2>6. QED
      BY <2>1, <2>2, <2>3, <2>4, <2>5, PTL DEF Spec
  <1>4. OfNames /\ OfSources /\ OfChain => NamesAreSound
    BY DEF NamesAreSound
  <1> HIDE DEF OfNames, OfSources, OfChain
  <1>5. QED
    BY <1>1, <1>2, <1>3, <1>4, PTL

\* Whatever commits race each other to the committer, and while a Welcome is used before the
\* next commit is ordered, the members of a group (Session::advance, Node::join_group) are on
\* one chain of epochs told by their place in the log and agree on keys and readers; and
\* MlsCiphersuiteRatchet accepts nothing below what a group has seen; for all nodes, calls,
\* suites and lengths of the log.
THEOREM GroupsStayAgreed == LateJoins = FALSE => (Spec => []GroupsAgree)
  <1> SUFFICES ASSUME LateJoins = FALSE PROVE Spec => []GroupsAgree
    OBVIOUS
  <1> DEFINE OfGroups == part = "group" => Messaging!Groups!GroupsAgree
             OfSuites == part = "suite" => Messaging!Suites!NoSuiteDowngrade
  <1>1. Spec => []OfGroups
    <2> DEFINE P == part = "group"
    <2>1. Init /\ P => Messaging!Groups!Init
      BY DEF Init
    <2>2. P /\ [Next]_vars => P' /\ [Messaging!Groups!Next]_(Messaging!Groups!vars)
      BY DEF Next, vars, slots, Messaging!Groups!vars
    <2>3. ~P /\ [Next]_vars => ~P'
      BY DEF Next, vars, slots
    <2>4. Messaging!Groups!Init /\ [][Messaging!Groups!Next]_(Messaging!Groups!vars) => []Messaging!Groups!GroupsAgree
      <3>1. Messaging!Groups!GroupAssumption
        BY ServicesAssumption DEF ServicesAssumption
      <3>2. QED
        BY <3>1, Messaging!GroupsStayAgreed DEF Messaging!Groups!Spec
    <2>5. (P => Messaging!Groups!GroupsAgree) => OfGroups
      OBVIOUS
    <2> HIDE DEF P, OfGroups
    <2>6. QED
      BY <2>1, <2>2, <2>3, <2>4, <2>5, PTL DEF Spec
  <1>2. Spec => []OfSuites
    <2> DEFINE P == part = "suite"
    <2>1. Init /\ P => Messaging!Suites!Init
      BY DEF Init
    <2>2. P /\ [Next]_vars => P' /\ [Messaging!Suites!Next]_(Messaging!Suites!vars)
      BY DEF Next, vars, slots, Messaging!Suites!vars
    <2>3. ~P /\ [Next]_vars => ~P'
      BY DEF Next, vars, slots
    <2>4. Messaging!Suites!Init /\ [][Messaging!Suites!Next]_(Messaging!Suites!vars) => []Messaging!Suites!NoSuiteDowngrade
      BY Messaging!SuitesNeverFall DEF Messaging!Suites!Spec
    <2>5. (P => Messaging!Suites!NoSuiteDowngrade) => OfSuites
      OBVIOUS
    <2> HIDE DEF P, OfSuites
    <2>6. QED
      BY <2>1, <2>2, <2>3, <2>4, <2>5, PTL DEF Spec
  <1>3. OfGroups /\ OfSuites => GroupsAgree
    BY DEF GroupsAgree
  <1> HIDE DEF OfGroups, OfSuites
  <1>4. QED
    BY <1>1, <1>2, <1>3, PTL

\* What the recipient puts together, from the cells of any attempts in any order, is the
\* envelope that was sealed, and no retry that arrives is taken for a replay (onion.rs slice,
\* wrap, unwrap; node.rs wire_frame, fresh_seed; reassembly at the recipient), for every
\* length of envelope, fragment and path and every number of attempts.
THEOREM RetriesAlwaysOpen == Spec => []OpensAcrossRetries
  <1> DEFINE P == part = "onion"
  <1>1. Init /\ P => Messaging!Onions!Init
    BY DEF Init
  <1>2. P /\ [Next]_vars => P' /\ [Messaging!Onions!Next]_(Messaging!Onions!vars)
    BY DEF Next, vars, slots, Messaging!Onions!vars
  <1>3. ~P /\ [Next]_vars => ~P'
    BY DEF Next, vars, slots
  <1>4. Messaging!Onions!Init /\ [][Messaging!Onions!Next]_(Messaging!Onions!vars) => []Messaging!Onions!OpensAcrossRetries
    <2>1. Messaging!Onions!OnionAssumption
      BY ServicesAssumption DEF ServicesAssumption
    <2>2. QED
      BY <2>1, Messaging!RetriesStayOpen DEF Messaging!Onions!Spec
  <1>5. (P => Messaging!Onions!OpensAcrossRetries) => OpensAcrossRetries
    BY DEF OpensAcrossRetries
  <1> HIDE DEF P
  <1>6. QED
    BY <1>1, <1>2, <1>3, <1>4, <1>5, PTL DEF Spec

=============================================================================
