\* Every pair of connections with at most one fault in their capture.
CONSTANTS
    Connections <- MCConnections
    Anchors <- MCAnchors
    Now <- MCNow
    MaxConnections = 2
    MaxFaults = 1
SPECIFICATION Spec
INVARIANTS
    
    PraiseIsTrue
    PlaintextIsCharged
    EachFaultIsChargedOnce
    
    SummaryIsOfOneConnection
\* The report is the end.
CHECK_DEADLOCK FALSE
