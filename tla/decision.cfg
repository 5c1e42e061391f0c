\* Every submission at most three edits away from an accepted one.
CONSTANTS
    None = None
    BadNumber = BadNumber
    NaN = NaN
    NoEnvelope = NoEnvelope
    NoNonce = NoNonce
    BaseProposal <- MCProposal
    BaseEnvelope <- MCEnvelope
    BasePolicy <- MCPolicy
    ProposalValues <- MCProposalValues
    EnvelopeValues <- MCEnvelopeValues
    PolicyValues <- MCPolicyValues
    Times = {0, 1, 2, 3}
    MaxEdits = 3
SPECIFICATION Spec
INVARIANTS
    EnvelopeOnlyNarrows
    TighterPolicyNeverAdmits
    HoldWaitsOnlyForApproval
    SpentAnswerIsStable
    AcceptanceIsMonotone
