\* Two uploads of up to two chunks, one worker thread, one restart; no symmetry,
\* because JobsAreABoard holds the liveness of the abstract service too.
CONSTANTS
    Ids = {a, b}
    MaxChunks = 2
    MaxWorkers = 1
    MaxRestarts = 1
    None = None
SPECIFICATION FairSpec
INVARIANTS ServesOwnReport CaptureOnDisk NoJobAbandoned
PROPERTY JobsAreABoard
\* Every job may be over and every restart used up.
CHECK_DEADLOCK FALSE
