\* At most two mutations of each document.
\* Nothing is left to edit once a trace has no event and no seal.
CHECK_DEADLOCK FALSE
SPECIFICATION Spec
CONSTANT MaxEdits = 2
INVARIANTS
    SealedTraceIsTheHistory
    AcceptedWorkIsAChain
    ExecutionStaysUnderAuthority
