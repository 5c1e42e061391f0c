\* Two calls of the guard, overlapping, one of them killed.
CONSTANTS
    c1 = c1
    c2 = c2
    Calls <- MCCalls
    SpanChoices <- MCSpanChoices
    Defaults <- MCDefaults
    Elapsed <- MCElapsed
    AllowedScopes <- MCAllowedScopes
    NetworkAllowlist <- MCNetworkAllowlist
    IrreversibleActions <- MCIrreversible
    ApprovalScopes <- MCApprovalScopes
    MaxInFlight = 2
    MaxKills = 1
SPECIFICATION Spec
INVARIANTS
    EffectIsAuthorized
    ObservationIsTruthful
    NonceUsedOnce
    BundleExplainsTheCall
