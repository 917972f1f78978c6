SPECIFICATION Spec
CONSTANTS
    alice = alice
    bob = bob
    mix = mix
    m1 = m1
    m2 = m2
    m3 = m3
    high = {}
    Node = {alice, bob}
    Relay = {mix}
    Mote = {m1}
    Src <- MCSrc
    Dst <- MCDst
    Lifetime <- MCLifetime
    Suite <- MCSuite
    Private = {}
    Sensitive = {}
    Proven = {m1}
    Pow = {}
    Invalid = {}
    RetryDeadline = 2
    TerminalGrace = 1
    DedupWindow = 2
    MaxInbox = 2
    MaxEphemeral = 1
    BootClock = 0
    StartTime = 2
    Flaky = {bob}
    Pins = {mix}
    Floors = {}
    MaxTime = 4
    MaxCrash = 1
    MaxSaveFail = 0
    MaxRedeliver = 1
INVARIANT TypeOK
INVARIANT AckedImpliesDelivered
INVARIANT JournalCurrent
PROPERTY NoDoubleFiling
