\* What mode the engine is in, against the mode of each row.
SPECIFICATION RegisterSpec
CONSTANTS
    r1 = r1
    Caller = r1
    Requests = {r1}
    Evidence <- Fixed
    FlagSets <- NoFlags
    Start = 4
    MaxTime = 6
    MaxSlotVersion = 9
    MaxStateVersion = 16
    None = None
    PolicyOf <- LabPolicyOf
    ClosureOf <- LabClosureOf
    Evaluate <- LabEvaluate
    ActivationAuthority <- LabActivationAuthority
    InterpretationBinds <- LabInterpretationBinds
    TargetInScope <- LabTargetInScope
    IncumbentStanding <- LabIncumbentStanding
    FallbackStanding <- LabFallbackStanding
    Now = 4
    MaxAge = 2
    Span = 4
INVARIANT
    EngineIsAsDemanded
