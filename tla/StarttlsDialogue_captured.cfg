\* Dialogues of up to eight messages, two of which the capture may lose.
CONSTANTS
    Protocols = {"SMTP", "IMAP", "POP3"}
    Tags = {t1}
    NoTag = NoTag
    MaxEvents = 8
    MaxLost = 2
SPECIFICATION DialogueSpec
INVARIANTS UpgradeIsReported FallbackIsReal
\* The connection ends after the last message.
CHECK_DEADLOCK FALSE
