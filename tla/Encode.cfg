CONSTANTS
    Lo = 16
    Hi = 20
    Sources <- MCSources
    Jobs <- MCJobs
    Capacity = 2
SPECIFICATION FairSpec
INVARIANTS
    SearchExact
    NoStreamLost
    KeptIsGood
    QualitySettled
    NoWriterLeft
    OutcomeHonest
PROPERTIES
    JobEnds
