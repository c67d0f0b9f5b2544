\* Three 4-tuples compete for two places in the pool.
CONSTANTS
    Keys = {k1, k2, k3}
    FlagSets <- MCFlagSets
    MaxActiveStreams = 2
    MaxPackets = 4
SPECIFICATION Spec
SYMMETRY MCSymmetry
INVARIANTS
    StreamsAccounted
    FramesAccounted
    HandshakeIsReal
PROPERTIES
    EvictsLeastRecent
    RefinesLedger
\* The capture ends.
CHECK_DEADLOCK FALSE
