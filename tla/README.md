# Envoir: a TLA+ verification project

Envoir is a reference implementation of the DMTAP mesh-mail protocol: a Rust
node (`node/`), a family of protocol crates (`crates/`), web clients and a
desktop shell.  This directory models the parts of it that carry its own logic,
checks them with TLC on small instances and proves theorems about them with
TLAPS.  `PROJECT.json` lists every component, every run with its properties,
every definition with the source lines it models ("map"), the mutations each
property was tried against, the hazards of the code with the properties that
would catch them, and the theorems.

Paths below are relative to the repository.  A *MOTE* is a sealed message.

## 1. The system

Nothing between two nodes holds a message for them.  Durability is the sender's
outbound queue and its journal; deduplication is the recipient's; both processes
may stop between any two externally visible steps.  An owner's devices form a
cluster whose replicas converge by gossip and backfill.  Deniable sessions,
groups, names, authentication and the provider seam hang off the node.

| component | state | operations | interacts with |
|---|---|---|---|
| delivery engine `node/src/node.rs`, `inbound.rs` | outbound queue, dedup set, contacts, suite floors, INBOX, requests area, ephemeral view | send, poll, retry_pending, tick_deadlines, pin, checkpoint, restore | transport, journal, PoW gate, reassembly, quota |
| outbound machine `node/src/outbound.rs` | state, deadline, late flag, mix path of a MOTE | apply(event), deadline, collection | delivery engine |
| journal `node/src/journal.rs` | the last snapshot | save, load | delivery engine, admission gate |
| transport `node/src/transport.rs` | peers, a bounded inbox | send, drain | other nodes |
| daemon `node/src/daemon.rs` | the loop | tick, shutdown, start | everything in `node/` |
| dedup set `node/src/seen.rs` | id to time, order of arrival | record, contains, prune, restore | delivery engine |
| PoW gate `node/src/pow.rs` | a window per connection | allow, prune | delivery engine |
| cell cache `node/src/reassembly.rs` | half-received MOTEs, use per connection | accept, prune | delivery engine |
| deniable admission `node/src/deniable.rs`, `crates/dmtap-deniable/src/session.rs` | token buckets, prekeys, replay cache, session tables | publish, open, accept, configure, checkpoint | journal, ratchet |
| double ratchet `crates/dmtap-deniable/src/ratchet.rs` | root key, two chains, skipped keys | encrypt, decrypt | deniable sessions |
| cluster `crates/dmtap-clustersync/src/` | CRDT state, objects, journal, stability marks | ingest, gossip, apply, backfill, gc, reconcile | the owner's other devices |
| groups `crates/dmtap-mls/`, `node/src/group.rs` | ordered log of commits, acks, sessions, suite marks | submit, confirm, advance, adopt, join, broadcast | delivery engine |
| private tier `node/src/mixdir.rs`, `onion.rs` | directories and marks; cells of an envelope | ingest, restore; slice, wrap, retry | journal, mixes, cell cache |
| libp2p mesh `crates/dmtap-p2p/` | route book, marks, inbox, Kademlia calls | dial, admit and adopt a location, call, time out | swarm task |
| names and KT `crates/dmtap-naming/`, `crates/dmtap-namechain-rpc/`, `node/src/naming.rs` | pins, petnames, tree heads | resolve, reconcile, rotate, verify | sending, chains, logs |
| auth `crates/dmtap-auth/`, `node/src/auth.rs` | challenges, replay cache, sessions | issue, verify, prove | HTTP APIs |
| send API `crates/dmtap-send/`, `node/src/send_api.rs` | API keys, revocations, use per minute | issue, delegate, rotate, revoke, send | delivery engine |
| JMAP `node/src/jmap_api.rs` | the failed-login throttle | serve between ticks | daemon, mail store |
| sync server `node/src/syncserve.rs` | operations, journal cut, snapshot | push, pull, state, truncate | followers |
| publication `node/src/pubserve.rs` | announces, feeds, quota | store, append, head, range | followers behind caches |
| usage and operator `node/src/usage.rs`, `crates/dmtap-operator/`, `crates/dmtap-seam/`, `crates/dmtap-postage-patala/` | level and period, metering queue, ledger, zone | report, enqueue, export, credit, charge, publish | billing, payment rail, DNS provider |
| start-up `node/src/main.rs`, `keystore.rs`, `daemon.rs` | the keystore file, the services' owners | init, record, run | everything in `node/` |
| desktop shell `desktop/src-tauri/src/lib.rs` | secrets, the child node, the send token | launch, verify, mint, quit | node, window |
| web client `client/js/net/sync.js` | mail, mode, state token | connect, syncNow, disconnect | JMAP |

### What is hard, and what makes each part correct

* **Delivery.**  Frames are lost after the dial succeeded; copies arrive over
  other return paths; acks race deadlines, retries and restarts; a journal write
  may fail and only be logged.  Correct: a sender reports delivery only of what
  was accepted; a MOTE whose send call returned is in the journal until it
  settles, settles once and stays settled; a suite floor survives every crash;
  nothing waits for ever; a copy inside the window is not filed twice.
* **Bounded tables** (dedup set, PoW budget, cell cache).  Two limits work
  against each other (window and cap, share and total), and accounts must
  balance over every way an entry leaves.
* **Deniable sessions.**  Rates must hold over restarts and failed writes; an
  init must not be accepted twice; out-of-order messages must open and their
  keys must go.
* **Cluster.**  Ops come in any order, repeated, and mixed with whole-state
  merges under drifting clocks; tombstones are collected on marks that may be
  stale; a revoked device does not know that it is one; range splitting has
  remainders; a follower of a journal must notice a rewritten log.
* **Groups.**  Commits race; two sides of a partition order different commits
  under one number; a joiner reads its baseline late.  Correct: one chain of
  epochs, nothing confirmed twice, nobody reads what its leaf was not part of.
* **Private tier and mesh.**  Retries pass mixes that remember; rollback marks
  must survive restarts and failed writes; a query outlives its caller's timeout.
* **Names.**  Zone, mesh, logs and chains are each believed only together, and
  each may change between two reads of one resolution; proofs in trees of odd
  sizes and text of odd lengths have remainders.
* **Services.**  Delegated keys outlive their delegators; batches, truncations
  and caches hide what a follower has not seen; retried events count twice;
  windows end at an instant both sides must agree on; a publish stops half way.
* **Start-up and clients.**  Any process may die between two file-system calls
  and start again beside the one before it; every `await` of the client lets
  another of its functions change what it read.

## 2. Modules

### Delivery

* `Outbound` is the transition table of `outbound.rs` and the record of one
  entry: `Apply`, `DeadlinePassed`, `PersistedEntry` (what the journal keeps;
  the mix path is not in it).
* `Delivery` composes the engine of any number of nodes with the network and the
  journal.  Each node has a program counter through one daemon tick
  (`idle`, `poll`, `retry`, ...), because sending an ack and writing the journal
  are different points at which it can crash: `Send` and `SendCheckpoint`,
  `PollFrame` for each frame and `PollEnd`, `RetryEntry`/`RetryEnd`,
  `TickDeadlines`.  `Accept`, `Deferred`, `Duplicate`, `StorageDenied` and
  `Dropped` are the exits of receiving; `Restart` is `with_journal_bytes`, which
  stamps restored dedup ids with the boot clock.  The environment crashes nodes,
  loses frames, breaks links, replays copies and misroutes acks.  `clk` is the
  node's clock, `wall` the real one; they differ between a restart and the first
  `set_now`.
* `DurableQueue` is the abstract promise: seen through the journal, the fate of
  a MOTE only moves forward.  `Delivery!Abstract` is the refinement mapping.

### Tables of a node and deniable sessions

* `SeenSet`, `PowBudget`, `Reassembly` model one file each, with the order of
  operations of the code (prune, insert, enforce the cap; evict, then refuse).
  `Delivery` uses the dedup set without its cap, and the PoW budget and the
  quota as a choice.
* `DeniableAccept` joins the admission gate, the responder's prekeys and replay
  cache, the initiators' choice of prekey, the journal and restarts.  A node just
  built stands at a boot clock (`node.rs:297`) until its first `set_now`; the model
  has that clock and the time (`now` and `wall`), and buckets are stamped with the
  first.
* `DoubleRatchet` uses keys as terms (a root key is the list of Diffie-Hellman
  results it came from), so equality of keys is equality of derivations, and
  messages are decrypted in every order.  Decryption is staged and committed
  only if the message opens, as in the code.

### Cluster

* `ClusterState` is the CRDT: adds and tombstones, last-writer-wins fields,
  durable deletes, collection, and `Meaning`, the reference definition of what a
  set of ops means.
* `ClusterSync` is the replicas: writing, gossip, frames, both backfills,
  stability marks and `Gc`, with a clock and a membership view per device.  A
  stability frame may carry marks its sender has of others: `stability_frame` builds
  none with such, but `ingest_stability` takes them, and records every mark of a frame
  whose origin is a member.  `Puts` says which objects each owner puts where, so that an
  object only an outsider had can be told.
* `ClusterRecon` is the range reconciliation, its recursion as a stack of
  ranges.  `ClusterJournal` is the hash chain and a follower.

### Groups

* `MlsGroup` is one group of several nodes: key packages, Add and Remove commits
  that race to the committer, Welcomes, joins, application messages and SFrame
  secrets.  An epoch is the sequence of commits merged to reach it, so two
  sessions are in one epoch exactly if their histories are equal.  `LateJoins`
  says whether a Welcome may be used after the next commit was ordered.
* `CommitLog` is the committer's hash-chained log on the sides of a partition:
  acks, quorum, suspension, adoption and relinking.  `MlsSuite` is the
  ciphersuite ratchet.

### Private tier and mesh

* `MixDir` composes the directory tracker with the journal and its failing
  writes.  `Onion` follows an envelope from slicing through the mix's replay
  cache to reassembly, over several attempts.
* `Mesh` has callers, the swarm task and a restart; `Admit` (under the lock) and
  `Adopt` (after it) are separate steps, as in `discovery.rs`.

### Names

* `Naming` is a resolution and a pin against an environment that answers
  anything at any time; `NameSources` the kinds of names, petnames and
  `reconcile`; `ChainRead` the calls of an ENS or SNS resolution interleaved with
  writes to the chain.
* `KtLog` is RFC 6962 as `merkle.rs` writes it, over symbolic hashes, with a log
  that may show two branches.  `Codecs` is base32 and base64url bit by bit.

### Services, start-up and clients

* `Login`, `SendKeys`, `JmapGate`, `SyncServe`, `PubServe`, `UsageLevel`,
  `MeterQueue`, `Postage` and `OperatorDns` model one service each, together with
  the peer that makes it hard: a client that repeats assertions, a delegate, an
  impatient guesser, a follower over a losing network, a follower behind a cache,
  a bridge that stops, an emitter that retries, concurrent callers, an owner who
  edits the zone.
* `NodeStart` is `init`, `record` and `run` as processes over one file system.
  `DesktopShell` is the launches of the shell and the nodes they leave behind.
  `ClientSync` has one program counter per call in flight of the web client.

### Instances

`MCDelivery` gives `Delivery` its constants; `ClusterSync` and `MlsGroup` are checked as
they stand, the membership views by name.
`MCParts` (the tables, the deniable sessions, the cluster's collection,
reconciliation and journal: eight parts) and `MCServices` (the rest: twenty-three
parts) hold components that do not read one another.  A variable `part`, chosen
in `Init`, says which one moves; the variables `s1`, `s2`, ... are lent to it in
the order its module declares its own.  Every behaviour of one component alone is
a behaviour of the instance, and the states are the sum of the parts' states, not
their product.  A part about which a theorem is proved is an instance in the module
of its proof (`Proved`, `Messaging`, `Kept`, `Gc`) and has its sizes as constants of `MCServices` or
`MCParts`, set in the cfg; the bounds of the other parts stand in their
`INSTANCE` lines.  A property of the
instance is the conjunction of a part's own properties, each of which is stated
and explained in the part's module (`GroupsAgree` is `ChainsAgree`, `PlaceTellsEpoch`,
`PendingIsNext`, `SframeKeysAgree` and `ReadByMembers`, and so on), and the
mutations of `PROJECT.json` break it in different parts.

### Proofs

* `Induction` has what the other proofs need beyond the library: induction over
  numbers and over the subsets of a finite set, sums over finite sets, and folds
  whose order does not matter.
* `DeliveryProofs` is about `Delivery`, its journal and the refinement;
  `ClusterProofs` about `ClusterSync` over `ClusterState`.
* `KeptProofs` is about what a node keeps between calls, `SeenSet`, `PowBudget`,
  `Reassembly`, `DeniableAccept` and `DoubleRatchet`, and about `ClusterRecon` and
  `ClusterJournal`.
  `ComponentProofs` is about `Mesh`, `MixDir`, `Login`, `NodeStart`, `DesktopShell`,
  `CommitLog`, `OperatorDns`, `PubServe`, `ClientSync`, `UsageLevel`, `MeterQueue`,
  `Postage`, `JmapGate`, `SendKeys`, `SyncServe`, `Naming`, `NameSources` and `ChainRead`,
  `MessagingProofs` about `MlsGroup`, `MlsSuite` and `Onion`, one section each.
* `PartsProofs` and `ServicesProofs` carry these over to what the runs `parts` and
  `services` check.

## 3. Runs

| run | shows | bounds, and why they are enough |
|---|---|---|
| `delivery_core` | types; receipts are honest; the journal is current between calls; no copy within the window is filed twice | one MOTE, one relay, one crash, one replayed or misrouted frame, four ticks with a window and a deadline of two: an ack, a copy and a crash can meet in every order, before and after the deadline |
| `delivery_suite` | the suite floor holds over restarts; the node implements `DurableQueue` | three MOTEs of two suites, one private, sensitive and with a proof of work, one invalid; a client pinning contact and floor; a crash and a replay.  Two suites are all that a floor compares |
| `delivery_live` | every queued MOTE settles | one MOTE, a flaky link, a crash, a failed journal write, under `FairSpec` |
| `cluster_ops` | types; what a device shows is what its ops mean | two devices, three ops of every kind, one-op frames, repeated, reordered and damaged, merges, two clock values: three ops give every pair of concurrent ops and one that saw them |
| `cluster_members` | an outsider leaves no stamp, op, mark or sign of life on the members, and no object that only it put; a member's journal replays all its objects | three devices, one revoked and unaware of it, one op, an object of a member's and one of the outsider's, two stability frames with own and relayed marks: enough for every path by which a trace could spread, directly or through the other member |
| `parts` | dedup set: queue and map agree, recent ids are recognised.  PoW budget: work and table bounded.  Cells: accounts balance, shares hold.  Ratchet: messages open in any order, keys are fresh and go.  Admission: rates hold over restarts, the boot clock's share apart; no replay.  Collection: durable deletes hold, backfill equalises, only stable tags go.  Reconciliation is exact and ends.  A follower keeps to one log | each table one entry larger than its cap and a clock past its window; five messages of each party with one key to skip per step and two in all, which fill the store over two chains; two initiators, two inits, two bundles with or without a one-time prekey, a gate that prunes every full bucket, a restart at the boot clock, a failed write, a reconfiguration; three ops and two marks of two devices, one going stale; all pairs of subsets of seven ids with fan-out three, so that remainders of both sizes occur; four journal entries, two rewrites |
| `services` | one property per part or group of parts: members of a group agree; committers agree; routes are newest and calls answered once; no mix directory is rolled back; retries pass and open; names are attested, claimed and unambiguous; logs prove what they hold; text is exact; sessions are owned; the identity is kept; send keys stop with their delegators; the throttle holds; followers are honest and catch up; feeds are whole; everything is billed once; zones are whole; launches agree; mail is kept | each part has the smallest numbers with which its race can happen: two of whatever races and a third to order or observe them (three commits, three members; three launches, so that a node outlives the launch after its own; two calls in flight, three connection epochs), a table or batch one smaller than what is put in it (pull limit two and push limit one for six operations, a metering queue of two for four events, a quota of two for three announces), and a clock that passes every expiry.  Trees of up to six leaves contain every shape of a lifted last node; texts of up to six symbols every rest of base32 short of a full group and of base64 beyond one |
| `delivery_sensitive`, `delivery_retry`, `delivery_dedup`, `cluster_resurrect`, `mls_join` | the code does not do what a comment says (section 5) | the smallest instance that shows it |

`CHECK_DEADLOCK FALSE` stands where a system may stop: the bounded histories
of the cluster and of the parts run out.  The delivery runs check for deadlock.

Each property of a passing run is tried against a mutation of the modelled code
(a dropped guard, an off-by-one, a missing write), a definition beside the
original; it must then fail.

### Fairness

`FairSpec` assumes that a running node's loop goes on (`daemon.rs`: the loop's
select is unbiased, so a stream of connections cannot starve the tick), that a
stopped process is restarted (the deployment's supervisor), and that time
passes.  Nothing is assumed of the network or of the user: frames may be lost
for ever and links stay down.  `Terminates` assumes that a called function runs.
`FollowerCatchesUp` assumes that a follower of the sync server polls, and that
the network, which may lose any answer, does not lose every one: weak fairness of
a poll, strong fairness of fetching a snapshot's body and of an answer's arrival.
It says nothing of a server that is pushed to for ever, since pushes are bounded.

## 4. Proofs

TLC checks the instances above; the theorems below hold for every value of the
constants, under the assumptions the modules name (`DeliveryAssumption`,
`ClusterAssumption`, and one per part).  These say that bounds are naturals, sets
whose size matters are finite, and MOTEs, amounts and the like are of their kinds.
Where a theorem needs more, it says so in its `ASSUME`:

| theorem | needs | because |
|---|---|---|
| `QueueOutlivesCrashes` | `MaxSaveFail = 0` | after a failed write the journal is behind, and a crash then loses what it lacks |
| `StateIsWhatWasTakenIn` | `Collects = FALSE` | `cluster_resurrect` shows that collection can bring an element back |
| `RoutesStayNewest` | one resolving thread | two threads may set a route in the other order (section 5) |
| `MailStays` | `Patient = TRUE` | overlapping syncs share a session (section 5) |
| `GroupsStayAgreed` | `LateJoins = FALSE` | `mls_join` shows that a Welcome used after the next commit was ordered starts its session at the wrong place |
| `PostageIsPaidFor` | one call of `credit_from_receipt` at a time | two may credit one receipt twice (section 5) |

### What is proved, and along which argument

An invariant that TLC checks is seldom inductive.  For each, the proof module
defines the stronger one that is, proves that it holds at first and is kept by
every action (a lemma per action), and derives the property.

Delivery (`DeliveryProofs`):

* `TypeCorrect`: `RestOK`, the part of `TypeOK` without the journal, is proved per
  action; one lemma about `Save` adds the journal for every checkpointing action.
* `AckedOnlyIfDelivered`: `AckInv` adds that an ack over its recipient's own return
  path, an id in the dedup set and an id in its journal each stand for an accepted
  MOTE.  Otherwise a restart could bring back an id that stands for nothing and is
  re-acked.
* `FloorsOutliveCrashes`: `FloorInv` says that a floor in memory is no lower than the
  journal's, and that both cover the suite of every MOTE they remember.
* `JournalIsCurrent`: `CurrentInv` says at which program counters queue, ids and
  floors equal the journal; inside a call only what that call has yet to save
  differs (`TodoInv` bounds what the retry loop still has in hand).
* `CopiesAreNotFiled`: `DedupInv` ties the recorded filing time of a MOTE to its
  entry in the dedup set within one life of the process.
* `QueueOutlivesCrashes`: Init maps to Init, and each action to the one abstract
  step `DurableQueue` allows or to a stutter.  `QueueInv` gives, per entry, which
  pairs of (memory, journal) occur.

Cluster (`ClusterProofs`):

* `ClusterTypes`, `JournalsReplayAll` (objects; operations written on a device are not
  in its journal), `OutsidersStayInert` (`OutInv`: nothing that another's state holds,
  an op cites, a mark stands for or a frame of a member carries is of a device outside
  every view, and no member holds or offers an object only such devices put; so
  passing any of it on, which nobody checks, leaves no trace either).
* `StateIsWhatWasTakenIn`: `MeansInv` says, per element and field, that the replica
  is the fold of the ops in `applied`.  The fold's order does not matter since the
  merges are joins (commutative, associative, idempotent); these are the lemmas
  before it.  From the same invariant `DeletesHold`, with collection.
* `BackfillAgrees`, `CollectsOnlyStable` (`MarkInv`: whatever a replica
  holds, cites or announces as stable is no later than an op it has taken in).

Tables of a node (`KeptProofs`):

* `SeenIsSound`: the queue lists exactly the ids of the map, each once and in the
  order of their times, and behind an id stands whatever was accepted after it.  So
  what the cap evicted had that many newer ids behind it.
* `BudgetIsKept`: a fixed window counter lets through at most two budgets in any
  stretch of one window's length; `Fits` says how many are still open at each
  moment of the stretch, given the counter's start.  Pruning forgets a counter only
  when its window is over, and a drop of the whole table costs one budget more.
* `SharesAreKept`: a connection's accounts are the count of its slots and the sum of
  their cells; each step of `Accept` (prune, supersede, evict, open, add, complete)
  changes both sides alike.

* `AdmissionStays`: the inits accepted since the stored gate was configured and the
  tokens still in the bucket come to at most its burst and one refill for each full
  step of the time since (`RatesCovered`), in memory and, without
  what no write reached, in the journal (`DiskCovered`), so that a restart may go back to
  the latter.  A bucket that `prune` drops was full, so dropping it gives nothing away.
  A bucket opened at the boot clock is full again at the first `set_now`, so for each time
  a node stood there the rates allow one burst more, and one token, as such a bucket's
  intervals began before.  `Covered` therefore has a second case: so little was let
  through that the bucket may be full at any time.  An initiator's bucket can be opened
  after any restart, as `prune` may have dropped it; the global one is stored whole and
  stands at the boot clock only in a first node or one configured there.
  `NoReplay` needs what an accepted init leaves behind for good (`TracesLeft`): its
  one-time prekey is gone, its tag is kept, or its bundle is no longer the one served.
* `RatchetStaysSound`: keys are terms, so what a party holds is a function of its
  place (how many ratchet steps it took) and of how far it took its chains; the
  invariant names that function.  The n-th message under the k-th ratchet key is
  sealed with a key determined by k and n alone; the two parties take turns and are at
  most one place apart; the kept keys are exactly those of late messages.  A message
  is late, next or turning, and in each case opens to the same view.
* `ReconcileStaysExact`: the ranges that are left follow one another without a gap up to
  the end of the id space (`Chained`), and below the first of them everything that differs
  has been listed once (`Listed`).  A range is split into a chain of sub-ranges whatever
  the remainder (`SubrangesChain`).
* `FollowersReplayOneLog`: what the owner keeps is a chained end of its log, and the
  follower's anchor is the hash of what it replayed (`JournalInv`).  An entry's hash
  determines everything before it (`HashesCommit`), so an entry that follows the anchor
  has the follower's own past behind it.

Services, names, start-up and clients (`ComponentProofs`):

* `CommittersNeverFork`: each branch's links chain its log (`WellFormed`), and
  behind every confirmed commit stands a quorum whose members hold it and acked
  nothing else at that position (`VoteInv`).  Two quorums meet (`QuorumsMeet`, from the
  cardinalities), so two sides of a partition cannot confirm different ones.
* `RoutesStayNewest`: the tracker is never below a stored mark; the record under
  adoption is the newest; a call is in one place of the swarm task at most.
* `DirectoriesOnlyRise`: what runs is at least what is saved, unless writes failed,
  and (epoch, version) compares as a number because versions are bounded.
* `LoginsStayOwned`: a nonce or proof id that was used is in the table of used ones
  until it has expired itself.
* `IdentityKept`: whatever stands in the keystore was drawn by an `init` that got as far
  as the rename; what the temporary file holds at each program counter of `init`;
  what a daemon opened belongs to the keystore it was started on.
* `LaunchesAlwaysAgree`: a secret that was drawn stays and every child was given both; the
  token is a key of a node this launch met, and keys are only added.
* `ZonesStayWhole`: a run has dealt with every slot before its cursor; a slot has at
  most one record beside those the owner added, and after a delete none beside as many.
* `FeedsStayWhole`: what a follower has is a prefix of the feed; cached heads are
  those of earlier feeds; what is listed is stored.
* `ThrottleIsKept`: the failures counted are the guesses since the window began, whose
  first guess is at its beginning.  A span that reaches into the current window has
  therefore missed the first guess of the one before, hence one guess less than two
  windows' worth (`SpansHold`).  What a refused caller was told is rounded up by whole
  seconds (`RoundedUp`) and so never falls short of the window's end.
* `SendKeysStay`: a key's chain is its delegator followed by that one's chain, and every
  link attenuates, so a key allows no more than anything it descends from (`Rooted`).
  What `Lineage` computes by recursion is the key and its chain (`LineageIsFamily`):
  that solves its equation, and the solution is unique.  The counter of a limited key
  is that of the last minute it was charged in and covers what was sent in it
  (`Metered`); minutes only pass forward (`WindowsPass`).
* `FollowersStayHonest`: a vector and a state stand for one another when the state folds
  to what the vector says was seen and that is closed under cancellation (`Honest`);
  signed and served checkpoints and answers on their way are such pairs.  No later
  operation gets below a vector, because authors add to what they made (`SeenStays`).  A
  batch leaves nothing out that belongs before one of its operations, since fewer than
  the limit come before those that are sent (`WantedIsOldest`), and what a caller that
  is not behind the cut lacks has not been truncated (`LackedIsJournalled`).
* `NamesStaySound` (its part on ENS and SNS is for lookups during which the name kept its
  resolver), `SourcesStaySound`, `AnswersWereCurrent`: the first is an invariant of
  the answers given (`AnswerStands`: the identity was signed, lists the address, the logs
  that attested are a quorum, the address is pinned) beside pins without look-alikes and
  identity versions whose predecessors are older ones of the same key
  (`IdentitiesChained`), so that `Walk` finds only such (`WalkGoesBack`).  Two quorums of
  logs meet.  The second: `Reconcile` is the verdict on the set of keys that voted
  (`ReconcileIsVerdict`), and exchanging two answers leaves that set alone.  The third:
  at each call of an ENS lookup, what the next call will find is a key the name has had
  since the lookup began, or the name has changed resolvers.
* `MailStays`: calls in flight have clients of their own, and a pull is the node's
  mailbox as long as the session it goes with is the node's.
* `LevelIsBilledOnce`: no period after the last one reported has been billed, and the
  stored values are those in memory.
* `TakenAreCounted`: for each meter, what is counted and what is still queued come to
  the sum over the events taken.  A drain moves a prefix of the queue from the one
  to the other; the sums over shifted indices are `SumMoved`.
* `PostageIsPaidFor`: balances plus the cost of the sends let through come to the
  worth of the receipts credited or being remembered, each of which settled.

Messages between peers (`MessagingProofs`):

* `GroupsStayAgreed`: for each position of the log there is one epoch the entries before it
  lead to, whoever applies them (an entry is merged exactly if it was built in the epoch
  before it).  Every session's chain is that of the position it has applied up to, a
  Welcome's that of its entry; a pending commit was built in its session's present epoch,
  and one that is no longer ahead was built in a shorter one.  `advance` keeps this entry
  by entry.  Secrets and readers are functions of the chain.  For the suites, a mark is no
  lower than anything seen since the last retirement.
* `RetriesStayOpen`: every cell on its way, gathered or in a frame is a cell of one wrap of
  the one envelope, and a wrap's cells differ in their index.  So cells of one fragment id
  that have all indices are a whole wrap, and its slices joined are the envelope and zeros
  (`SlicesJoin`, by induction along the library's `FlattenSeq`).  The mix has seen all tags
  of the last wrap or none.

`PartsProofs` and `ServicesProofs` state these of the definitions the runs check: in
`MCParts` and `MCServices` a behaviour whose `part` is that of a component moves by
the component's `Next` and leaves `part` alone, so it satisfies the component's
specification, and any other behaviour satisfies `part = ... => ...` vacuously.

### Induction

The library's induction theorems take an operator, which the provers cannot
instantiate.  `Induction` states induction with a set in the operator's place (a set
of numbers with 0 and closed under successor has all numbers; a set of subsets of a
finite set, closed under adding elements, has the whole set) and proves it from
well-foundedness by the least counterexample.  From it come the facts about the
community modules' `SumFunctionOnSet` (empty, one more, one changed, split, moved,
monotone) and about folds whose operator commutes.

### Only model-checked

Liveness (`Settles`, `Terminates`, `FollowerCatchesUp`) is out of the prover's reach.
So are `LogIsSound` and `CodecsAreExact`: the first is about hashes of trees of every
shape, the second about the bits of a buffer (division by variable powers of two), each
computed by a recursion or fold along its input.  Both are checked for every input up to
the bounds of `services`, which contain each shape of remainder.

## 5. What the code does otherwise than its comments say

Shown by a run:

1. `delivery_retry`: an IN_FLIGHT entry whose frame was lost after the dial is
   never sent again; `outbound.rs:4` says an unacked MOTE is retried.
2. `delivery_sensitive`: the first delivery of a sensitive MOTE is not acked;
   `inbound.rs:61` and `node.rs:1215` say it is.  With 1., its sender reports
   EXPIRED for a message that was read.
3. `delivery_dedup`: restored dedup ids carry the built-in boot clock and have
   expired before the first frame is read; `seen.rs:21` says they live a fresh
   window.
4. `cluster_resurrect`: tombstone collection can bring a removed element back;
   `crdt.rs:210` says that observable state never changes.
5. `mls_join`: `join_group` starts a joiner at the log's head
   (`node.rs:1364`), not behind the entry that added it.  A commit ordered in
   between is skipped, and the joiner's next one branches from the group's chain;
   `dmtap-mls/src/session.rs:208` says every member converges on one.

Met while modelling, without a run.  Where a module is named, it states the
property the comment asks for, or has the constant that lets it happen:

* `reassembly.rs:231` compares the total of cells with its ceiling only when a
  slot opens, so open slots fill past it (the comment at 55 calls it absolute),
  and at 229 evicts a slot before it may refuse the cell (the comment at 198 says
  a rejection changes nothing).
* Two initiators holding one bundle take the same one-time prekey, and the second
  is refused for good; `node.rs:1562` says a genuine init retried after the refill
  succeeds (`DeniableAccept!GenuineInitSucceeds`).
* A bucket of the admission gate that is opened before a node's first `set_now` is
  stamped with the boot clock (`node.rs:297`, `deniable.rs:435`) and full again at that
  call, so that a source may get a second burst after a restart (`deniable.rs:315` says the
  bucket keeps one identity from dominating; `DeniableAccept!boots` counts these).
* A revoked device that does not know it is one may still replay a member's journal:
  `backfill_via_journal` looks at the membership in its own replica only
  (`cluster.rs:279`), and the other side is not asked.  `ingest_stability` checks the
  origin of a frame, not the devices its marks are of (`cluster.rs:316`).
* A record is found by the first one of its type and name (`dns.rs:315`).  At the apex
  that may be another TXT record of the owner's: a publish overwrites it with the
  gateway's SPF, a delete (`dns.rs:362`) removes it, leaves the SPF and returns Ok
  (`OperatorDns!OnlyOwnersStay`); "the records matching `records`" are to go (`dns.rs:216`).
* `group_add_member` does not keep a key package from being used again.  In `MlsGroup` it
  is, when its commit lost the race, but not when its leaf was removed: a leaf that left
  a roster never comes back there.
* A backfill merges states without the skew check of `validate_op`
  (`cluster.rs:238`, `crdt.rs:55`).
* A private MOTE restored from the journal is sent straight to its recipient
  (`node.rs:826`); `journal.rs:119` says it is wrapped again.  A path that is kept
  is never renewed by a retry (`node.rs:799`, `outbound.rs:29`).
* A group commit that lost its race stops every member but its author: `advance` fails
  at it without passing it (`dmtap-mls/src/session.rs:240`; the comment at 208 says every
  member converges); the test `groups.rs:330` shows the halt.  A member that is stopped
  and commits again overwrites the position it was waiting for (`note_authored`), which
  does no more harm, as it cannot get there.
* A login challenge or request proof is accepted a second time at exactly its
  expiry (`dmtap-auth/src/seam.rs:63` against `verify.rs:74`; `verify.rs:27` says
  once).
* Two concurrent calls with one receipt credit it twice
  (`dmtap-postage-patala/src/lib.rs:140`; the comment at 29 says never): give
  `Postage` a second `Caller`.
* The desktop shell may mint its token at the dying node of the launch before
  (`lib.rs:261`; `DesktopShell!TokenIsHonoured`).
* The web client, after a reconnect that failed, replaces its local mail at the
  next connect (`sync.js:311`, `320`; `ClientSync!LocalSurvivesReconnect`); two
  overlapping syncs share a session, and `syncNow` does not look at the
  connection epoch (`ClientSync` with `Patient <- FALSE`).
* A push of several operations that fails at one leaves the earlier ones applied
  (`syncserve.rs:704`; the comment at 657 says all or nothing;
  `SyncServe!PushIsAtomic`).
* A range of a feed without an upper end is served as immutable and goes stale
  in caches (`pubserve.rs:409`; `PubServe!CachedRangeCurrent`), a range that
  starts past the end makes the slice at 213 panic, and `stored_per_pub` is
  compared with its limit but never counted up (85, 185).
* Two `init` at once share `keystore.tmp`; the file is renamed without an fsync; a
  forced `init` leaves the old identity's journal; each service reads the keystore
  again at its start.
* The resolver keeps no memory of identity versions, so an older one may be
  answered again; a log pinned twice counts twice in the quorum.
* Two threads adopting one address take the mark under the lock and set the route
  after it, so the older route may stay (`discovery.rs:229`).
* The calls of one ENS resolution each read the newest block, so when the name
  changes its resolver the answer may never have been current (`ens.rs:107`).

## 6. Not modelled, and why

* `crates/conformance-runner`, `crates/netsim`, `crates/downgrade-tests`,
  `integration/` and `fuzz/` are tests and test tools; `crates/conformance-runner`
  alone is a fifth of the Rust code, and replays fixed vectors.
* Encodings (CBOR, ABI, account layouts, DNS record grammar), cryptography,
  HTTP parsing, request signing, the guard on outgoing addresses and
  configuration parsing: pure functions of bytes.  Base32, base64url and the
  Merkle proofs are the exception (`Codecs`, `KtLog`), because their remainders
  are where they go wrong.
* `SyncServe` has one namespace: the filter of `pull` by namespace
  (`syncserve.rs:398`) is left out.  That an author pushes its operations in the order it
  made them is assumed of the authors (`InOrder`); the server does not enforce it, and a
  vector counts everything below its newest operation as seen.
* The JMAP methods, the CRDT behind the sync server and openmls are crates
  outside the repository: they are modelled by what the code here relies on.
* Certificates are assumed to verify (a membership view per device, a claimed
  source per init).  `backoff_ms` is not called by the node.
* The web clients' views, the site and the packaging.

## 7. Plan

1. Proofs: `LogIsSound` for trees of any size, by induction on the split.
2. Compositions: the deniable session tables with the ratchet; `MlsGroup` over
   the log of `CommitLog`; the dedup set's cap inside `Delivery`.
