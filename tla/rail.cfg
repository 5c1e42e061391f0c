\* The ASB-01 scenario, the adapter run again in shadow mode, under another envelope and held, and two faults.
CONSTANTS
    agent = agent
    again = again
    second = second
    rival = rival
    undo = undo
    held = held
    n1 = n1
    n2 = n2
    NoNonce = NoNonce
    Nobody = Nobody
    Adapters = {agent, again, second, held}
    Payers = {rival}
    Agent = agent
    Rival = rival
    Undo = undo
    Policy <- MCPolicy
    Mode <- MCMode
    NonceOf <- MCNonceOf
    IntentOf <- MCIntent
    MaxFaults = 2
SPECIFICATION FairSpec
INVARIANTS
    PaidOnceAndOnlyIfAccepted
    LedgerLosesNoPayment
    OnlyTheDuplicateIsCancelled
PROPERTIES
    PaymentsAreSingleUse
    ScenarioReachesTarget
