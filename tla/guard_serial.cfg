\* One submission at a time, with a crash and an envelope that expires.
CONSTANTS
    None = None
    BadNumber = BadNumber
    NaN = NaN
    NoEnvelope = NoEnvelope
    NoNonce = NoNonce
    Absent = Absent
    Empty = Empty
    Torn = Torn
    alice1 = alice1
    alice2 = alice2
    bob1 = bob1
    over = over
    shadow1 = shadow1
    nanAmount = nanAmount
    junk = junk
    cli1 = cli1
    cliMissing = cliMissing
    n1 = n1
    n2 = n2
    Nonces = {n1, n2}
    Requests = {alice1, shadow1, bob1, nanAmount, cliMissing, junk}
    Body <- MCBody
    Policy <- MCPolicy
    ConfigStrict = FALSE
    MaxInFlight = 1
    MaxCrashes = 1
    MaxClock = 1
SPECIFICATION FairSpec
INVARIANTS
    NonceAcceptedOnce
    ChainIsLinear
    HashesNameTheDecision
PROPERTIES
    EveryRequestAnswered
    ImplementsSingleUse
