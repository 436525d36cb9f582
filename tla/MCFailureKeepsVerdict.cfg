\* Every test hook against one sound candidate.
SPECIFICATION Spec
CONSTANTS
    r1 = r1
    Requests = {r1}
    Evidence <- Alone
    FlagSets <- EachFlag
    Start = 4
    MaxTime = 4
    MaxSlotVersion = 9
    MaxStateVersion = 15
    None = None
    PolicyOf <- LabPolicyOf
    ClosureOf <- LabClosureOf
    Evaluate <- LabEvaluate
    ActivationAuthority <- LabActivationAuthority
    InterpretationBinds <- LabInterpretationBinds
    TargetInScope <- LabTargetInScope
    IncumbentStanding <- LabIncumbentStanding
    FallbackStanding <- LabFallbackStanding
    Now = 4
    MaxAge = 2
    Span = 4
CHECK_DEADLOCK FALSE
INVARIANT FailureKeepsVerdict
