\* The issuer's grant or the obligation is withdrawn between admission and commit.
SPECIFICATION Spec
CONSTANTS
    r1 = r1
    Requests = {r1}
    Evidence <- Withdrawn
    FlagSets <- NoFlags
    Start = 4
    MaxTime = 4
    MaxSlotVersion = 8
    MaxStateVersion = 14
    None = None
    PolicyOf <- LabPolicyOf
    ClosureOf <- LabClosureOf
    Evaluate <- LabEvaluate
    ActivationAuthority <- LabActivationAuthority
    InterpretationBinds <- LabInterpretationBinds
    TargetInScope <- LabTargetInScope
    IncumbentStanding <- LabIncumbentStanding
    FallbackStanding <- LabFallbackStanding
    Now = 4
    MaxAge = 2
    Span = 4
CHECK_DEADLOCK FALSE
PROPERTY ConsequenceUnderBoundAuthority
