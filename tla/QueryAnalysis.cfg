SPECIFICATION Spec
CONSTANTS
    MaxCalls = 3
    Parallel = 2
    Results <- MCResults
    GroupSize = 2
    NoFile = NoFile
    Null = Null
INVARIANTS FileIsSound AnswerIsWhole
PROPERTIES KeepsProgress CallsEnd
CHECK_DEADLOCK FALSE
