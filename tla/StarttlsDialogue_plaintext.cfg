\* A whole capture up to the server's consent.
CONSTANTS
    Protocols = {"IMAP"}
    Tags = {t1}
    NoTag = NoTag
    MaxEvents = 7
    MaxLost = 0
SPECIFICATION DialogueSpec
INVARIANTS PlaintextWasAfterConsent
\* The connection ends after the last message.
CHECK_DEADLOCK FALSE
