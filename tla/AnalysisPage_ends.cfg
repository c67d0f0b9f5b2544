\* Liveness: one capture, two questions of the panel on their way, one call of fetchReport.
CONSTANTS
    Ids = {a}
    Slots = {1, 2}
    MAX_ATTEMPTS = 2
    NetworkAttempts = 2
    MaxFetches = 1
    None = None
SPECIFICATION FairAllSpec
PROPERTIES
    LoadingEnds
    EndIsTold
    PartsAreAsAlone
