\* Flows with and without their SYN; one's numbers wrap after its third byte.
CONSTANTS
    NoSeq = NoSeq
    ISNs = {3, 12}
    Sent <- MCSent
    Opening <- MCOpening
    Segments <- MCSegments
    SeqSpace = 16
    MaxBytes = 4
    MaxBufferedSegments = 2
    MaxPackets = 4
SPECIFICATION Spec
INVARIANTS
    DeliversSent
    NothingLost
    NothingWithheld
    HolesReported
    ConflictIsReal
PROPERTY
    RepeatsAreHarmless
\* The capture ends.
CHECK_DEADLOCK FALSE
