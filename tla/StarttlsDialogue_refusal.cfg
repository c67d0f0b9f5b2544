\* A whole capture of a refusal.
CONSTANTS
    Protocols = {"SMTP", "IMAP", "POP3"}
    Tags = {t1}
    NoTag = NoTag
    MaxEvents = 7
    MaxLost = 0
SPECIFICATION DialogueSpec
INVARIANTS RefusalIsReported
\* The connection ends after the last message.
CHECK_DEADLOCK FALSE
