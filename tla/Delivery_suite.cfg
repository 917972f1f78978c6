SPECIFICATION Spec
CONSTANTS
    alice = alice
    bob = bob
    mix = mix
    m1 = m1
    m2 = m2
    m3 = m3
    high = {m2}
    Node = {alice, bob}
    Relay = {mix}
    Mote = {m1, m2, m3}
    Src <- MCSrc
    Dst <- MCDst
    Lifetime <- MCLifetime
    Suite <- MCSuite
    Private = {m2}
    Sensitive = {m2}
    Proven = {m2}
    Pow = {m2}
    Invalid = {m3}
    RetryDeadline = 1
    TerminalGrace = 1
    DedupWindow = 2
    MaxInbox = 2
    MaxEphemeral = 1
    BootClock = 0
    StartTime = 2
    Flaky = {}
    Pins = {alice}
    Floors = {2}
    MaxTime = 3
    MaxCrash = 1
    MaxSaveFail = 0
    MaxRedeliver = 1
PROPERTY FloorHolds
PROPERTY QueueIsDurable
