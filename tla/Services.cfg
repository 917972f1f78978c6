SPECIFICATION Spec
CHECK_DEADLOCK FALSE
CONSTANTS
    Nil = Nil
    GroupNode = {"a", "b", "c"}
    Founder = "a"
    RtcCall = {"x", "y"}
    LateJoins = FALSE
    MaxFrames = 1
    MaxOrdered = 3
    MaxLeaves = 1
    MaxSaid = 1
    Group = {"g"}
    Suite = {1, 5, 8}
    XWing = 8
    MaxSteps = 3
    Committer = {"p", "q"}
    Voter = {"a", "b"}
    MaxCommits = 2
    Addr = {"a", "b"}
    MaxInbox = 1
    MaxAuto = 1
    MaxRecords = 2
    MaxCalls = 1
    Authority = {"a", "b"}
    MaxEpoch = 2
    MaxVersion = 2
    MaxFailures = 1
    Identity = {"i", "j"}
    Device = {"d"}
    Cert <- Certs
    Origin = {"o", "q"}
    Ttl = 1
    DpopFresh = 1
    MaxClock = 2
    MaxChallenge = 1
    MaxProof = 1
    MaxUse = 3
    Passphrase = {"x"}
    MaxIdentity = 2
    MaxLaunches = 3
    MaxTokens = 2
    Attempts = 2
    Version = {"old", "new"}
    Foreign = Foreign
    MaxForeign = 1
    Announce = {"x", "y", "z"}
    Declined = {"z"}
    Quota = 2
    MaxFeed = 3
    Email = {"e"}
    ClientOp = {"o", "p"}
    MaxChanges = 2
    MaxLocal = 1
    MaxConnects = 3
    Account = {"a", "b"}
    Mine = "a"
    Delta = {1}
    MaxStored = 2
    MaxPeriod = 2
    Event <- Events
    Capacity = 2
    DrainSize = {1}
    Receipt <- Receipts
    Currency = "USDC"
    Cost = 2
    Low = 1
    Full = 9
    PowBits = 1
    MaxSends = 3
    MaxGuesses = 2
    GuessSpan = 3
    WholeSecond = 2
    LongestCall = 2
    TickEvery = 2
    LastMoment = 8
    SendDomain = {"d1"}
    AnyDomain = "account"
    Rate = {1}
    Unlimited = 9
    KeyTtl = {1}
    Year = 2
    Minute = 1
    MaxKeys = 3
    MaxMotes = 2
    LastTick = 1
    Author = {"a", "b"}
    AuthorOrder <- Authors
    MaxHlc = 3
    Cancels <- CancelledBy
    PullLimit = 2
    PushLimit = 1
    Inline = FALSE
    NameAddr = {"a", "b"}
    NameKey = {"k"}
    Looks <- LookAlike
    Log = {"l", "m"}
    NeedQuorum = TRUE
    MaxNames = 2
    MaxResolve = 2
    Spelling = {"Bob", "bob", "b0b", "mix", "k-words"}
    Canonical <- CanonicalName
    Unspellable = "bad"
    Skeleton <- SkeletonOf
    Form <- FormOf
    Key = {"k", "j"}
    KeyName <- KeyNameOf
    MaxAnswers = 3
    EmptyRecord = EmptyRecord
    Resolver = {"r", "s"}
    NoResolver = NoResolver
    MaxWrites = 3
    EnvelopeLengths = {1, 2, 3, 65}
    PathLengths = {2, 3, 6}
    FragmentLen = 2
    RMax = 5
    MaxWraps = 2
INVARIANTS
    GroupsAgree
    CommittersAgree
    MeshHolds
    OpensAcrossRetries
    NamesAreSound
    LogIsSound
    CodecsAreExact
    LoginsAreOwned
    IdentityIsKept
    ThrottleHolds
    FollowerIsHonest
    FeedIsWhole
    BilledOnce
    ZoneIsWhole
    LaunchesAgree
PROPERTIES
    NoRollback
    SendKeysHold
    MailIsKept
    FollowerCatchesUp
