\* The shared files: one hook, two approvals, two submissions, two exports.
CONSTANTS
    Hooks = {"h1"}
    Approvers = {"a1", "a2"}
    Nonces = {"n1", "n2"}
    Casts <- MCCasts
    Rules <- MCRules
    DefaultDecision = "ALLOW"
    Payloads <- MCPayloads
    Modes = {"generic", "claude"}
    Ttls <- MCTtls
    MaxClock = 1
    MaxExports = 2
    MaxKills = 1
    MayTamper = TRUE
SPECIFICATION Spec
CHECK_DEADLOCK FALSE
INVARIANTS
    ReportDescribesTheCopy
    ForeignRecordsBreakTheChain
    PassesOnlyApproved
    ApprovalsAreKept
