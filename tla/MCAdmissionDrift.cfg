\* One fixture, every pair of mutations, every order of signing again, and
\* up to three minutes of waiting: past the evidence's next update.
SPECIFICATION Spec
CONSTANTS
    None = None
    Now = 4
    MaxAge = 3
    Span = 4
    MaxDrifts = 2
    MaxWait = 3
CHECK_DEADLOCK FALSE
INVARIANTS
    TypeOK
    ReasonIsEarned
    ApprovalPinsContent
    RuntimeIsApproved
    HorizonIsSound
