\* Three lines through pipes of two and one, three warnings of which two are kept.
CONSTANTS
    N = 3
    Lines <- MCLines
    StdoutPipe = 2
    StderrPipe = 1
    MaxWarnings = 3
    KeptLines = 2
SPECIFICATION FairSpec
INVARIANTS CompleteIsWhole KillIsTold NoOrphan
PROPERTY RunEnds
\* The call ends.
CHECK_DEADLOCK FALSE
