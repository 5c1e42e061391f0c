\* Three requests, one crash, one departure and one failure.
CONSTANTS
    Missing = Missing
    Genesis = Genesis
    Nobody = Nobody
    NoAnswer = NoAnswer
    WriteFailed = WriteFailed
    pay = pay
    read = read
    destroy = destroy
    vague = vague
    Requests = {pay, read, destroy}
    Headers <- MCHeaders
    MaxCrashes = 1
    MaxDisconnects = 1
    MaxFailures = 1
SPECIFICATION FairSpec
INVARIANTS
    RecordsAreTruthful
    AnswerIsOnFile
    LinksPointBack
    OneChainPerLife
PROPERTIES
    EveryRequestEnds
