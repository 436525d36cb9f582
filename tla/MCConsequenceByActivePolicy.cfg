\* One caller decides, another takes the slot, the first commits.
SPECIFICATION Spec
CONSTANTS
    r1 = r1
    r2 = r2
    Requests = {r1, r2}
    Evidence <- Pair
    FlagSets <- NoFlags
    Start = 4
    MaxTime = 4
    MaxSlotVersion = 9
    MaxStateVersion = 15
    None = None
    PolicyOf <- LabPolicyOf
    ClosureOf <- LabClosureOf
    Evaluate <- LabEvaluate
    ActivationAuthority <- LabActivationAuthority
    InterpretationBinds <- LabInterpretationBinds
    TargetInScope <- LabTargetInScope
    IncumbentStanding <- LabIncumbentStanding
    FallbackStanding <- LabFallbackStanding
    Now = 4
    MaxAge = 2
    Span = 4
CHECK_DEADLOCK FALSE
PROPERTY ConsequenceByActivePolicy
