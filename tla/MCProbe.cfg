CONSTANTS
    MaxEvents = 1
    MaxRecords = 3
    Terms = 1
SPECIFICATION FairSpec
INVARIANTS
    TypeOK
    StreamsSealed
    AsyncAccounted
    CutExplained
PROPERTIES
    StopObeyed
CHECK_DEADLOCK FALSE
