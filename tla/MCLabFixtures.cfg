\* One caller with every kind of fixture, no hook raised.
SPECIFICATION Spec
CONSTANTS
    r1 = r1
    Requests = {r1}
    Evidence <- Varied
    FlagSets <- NoFlags
    Start = 4
    MaxTime = 6
    MaxSlotVersion = 8
    MaxStateVersion = 14
    None = None
    PolicyOf <- LabPolicyOf
    ClosureOf <- LabClosureOf
    Evaluate <- LabEvaluate
    ActivationAuthority <- LabActivationAuthority
    InterpretationBinds <- LabInterpretationBinds
    TargetInScope <- LabTargetInScope
    IncumbentStanding <- LabIncumbentStanding
    FallbackStanding <- LabFallbackStanding
    Now = 4
    MaxAge = 2
    Span = 4
CHECK_DEADLOCK FALSE
INVARIANTS
    DecidedIsSwappedIn
PROPERTIES
    ConsequenceUnderFreshEvidence
