\* Every sequence of up to five lines and records, on every kind of stream.
CONSTANTS
    Protocols = {"SMTP", "IMAP", "POP3"}
    Tags = {t1, t2}
    NoTag = NoTag
    MaxEvents = 5
SPECIFICATION Spec
SYMMETRY MCSymmetry
INVARIANTS
    SuccessIsOrdered
    SuspicionIsGrounded
PROPERTY
    RefusalIsFinal
\* The connection ends after the last event.
CHECK_DEADLOCK FALSE
