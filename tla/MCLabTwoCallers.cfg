\* Two callers, two candidates, one slot.
SPECIFICATION Spec
CONSTANTS
    r1 = r1
    r2 = r2
    Requests = {r1, r2}
    Evidence <- Pair
    FlagSets <- SlotFlags
    Start = 4
    MaxTime = 5
    MaxSlotVersion = 9
    MaxStateVersion = 14
    None = None
    PolicyOf <- LabPolicyOf
    ClosureOf <- LabClosureOf
    Evaluate <- LabEvaluate
    ActivationAuthority <- LabActivationAuthority
    InterpretationBinds <- LabInterpretationBinds
    TargetInScope <- LabTargetInScope
    IncumbentStanding <- LabIncumbentStanding
    FallbackStanding <- LabFallbackStanding
    Now = 4
    MaxAge = 2
    Span = 4
SYMMETRY Symmetric
CHECK_DEADLOCK FALSE
INVARIANTS
    RecordsIdentifySlot
PROPERTIES
    ConsequenceIsGoverned
