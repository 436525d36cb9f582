CONSTANTS
    Inputs <- Graphs
    MaxFrames = 5
    None = None
SPECIFICATION Spec
INVARIANTS
    TypeOK
    AnswerIsRight
    ValidNeverOverflows
PROPERTIES
    NoWorkTwice
    SmallGraphsAreAnswered
CHECK_DEADLOCK FALSE
