\* Three commits, before, during and between reads of every kind.  A reader
\* whose last read failed or found nothing may stop, hence no deadlock check.
CONSTANTS
    Types <- MCTypes
    Tags <- MCTags
    Batches <- MCBatches
    MaxVersion = 3
    Queries <- MCQueries
    Limits = {0, 1, 2}
    ReadRetryLimit = 1
SPECIFICATION ReadSpec
INVARIANTS
    ReadTypeOK
    MergeIsPrefix
    ExactAnswer
    PagesAddUp
    ReadInv
PROPERTIES
    EveryReadReturns
CHECK_DEADLOCK FALSE
