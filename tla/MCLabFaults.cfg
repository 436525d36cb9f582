\* One caller and every test hook: activations and commits that fail half way.
SPECIFICATION Spec
CONSTANTS
    r1 = r1
    Requests = {r1}
    Evidence <- Troubled
    FlagSets <- EachFlag
    Start = 4
    MaxTime = 5
    MaxSlotVersion = 9
    MaxStateVersion = 15
    None = None
    PolicyOf <- LabPolicyOf
    ClosureOf <- LabClosureOf
    Evaluate <- LabEvaluate
    ActivationAuthority <- LabActivationAuthority
    InterpretationBinds <- LabInterpretationBinds
    TargetInScope <- LabTargetInScope
    IncumbentStanding <- LabIncumbentStanding
    FallbackStanding <- LabFallbackStanding
    Now = 4
    MaxAge = 2
    Span = 4
CHECK_DEADLOCK FALSE
INVARIANTS
    TypeOK
    UnadmittedNeverRuns
    ActiveIsRecorded
    AllowIsEstablished
PROPERTIES
    ResumedOnlyByActivation
    ReportedConsequenceIsReal
    ChangesAreReported
