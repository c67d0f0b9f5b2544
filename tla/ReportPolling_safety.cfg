\* Two analyses, two calls of fetchReport, two attempts each of which the first
\* may lose its answer.
CONSTANTS
    Ids = {a, b}
    MAX_ATTEMPTS = 2
    NetworkAttempts = 2
    MaxFetches = 2
    None = None
SPECIFICATION PollSpec
SYMMETRY MCSymmetry
INVARIANTS NoStaleReport OnePollerAtWork NotFoundIsTrue
PROPERTY OutcomeStays
\* All jobs and all calls may be over.
CHECK_DEADLOCK FALSE
