\* Seven files, one of them too many, and deadlines that can be met together.
SPECIFICATION Spec
CONSTANTS
    Inputs <- MCInputs
    MaxInputs = 6
    MaxBytes = 7
    MaxFileBytes = 2
    StartTime = 6
    FileTime = 2
    ProfileTime = 8
CHECK_DEADLOCK FALSE
INVARIANTS WithinProfileTime AnswerIsUsed
PROPERTY ParsingEnds
