CONSTANTS
    MaxTexts = 2
    MaxChunks = 2
    TokenCounts = {0, 1, 3, 4}
    PackLimit = 2
    RequestTokenLimit = 3
    MaxPool = 2
SPECIFICATION FairSpec
INVARIANTS TypeOK PackedAndPooled RootCauseReported
PROPERTIES EmbedReturns
CHECK_DEADLOCK FALSE
