\* An accepted request whose client leaves.
CONSTANTS
    Missing = Missing
    Genesis = Genesis
    Nobody = Nobody
    NoAnswer = NoAnswer
    WriteFailed = WriteFailed
    pay = pay
    read = read
    destroy = destroy
    vague = vague
    Requests = {pay, destroy}
    Headers <- MCHeaders
    MaxCrashes = 0
    MaxDisconnects = 1
    MaxFailures = 0
SPECIFICATION Spec
INVARIANTS
    EveryActionLeavesATrail
