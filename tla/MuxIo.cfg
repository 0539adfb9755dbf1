CONSTANTS
    Period1 = 2
    Period2 = 3
    Limit = 13
    MaxDelay = 4
    BufMsgs = 3
SPECIFICATION Spec
INVARIANTS ChildNotKilled PipesDrained
PROPERTIES StepsRunOut ProgramEnds
CHECK_DEADLOCK FALSE
