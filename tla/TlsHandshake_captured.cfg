\* Every part of a connection that a capture may hold.
CONSTANT
    Connections <- MCHandshakes
SPECIFICATION Spec
INVARIANTS
    CompleteIsReal
    WholeIsReported
    ForwardSecrecyIsReal
\* The capture ends.
CHECK_DEADLOCK FALSE
