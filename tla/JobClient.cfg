\* A client that is destroyed at the end, two runs of the server with two jobs each, two failing socket operations.
SPECIFICATION FairSpec
CONSTANTS
    CLIENT_RETRY_COUNT = 2
    CLIENT_JOB_INITIAL = 1
    CLIENT_JOB_LIMIT = 2
    MaxExperiments = 2
    Destroyed = TRUE
    MaxRuns = 2
    MaxID = 2
    MaxFaults = 2
INVARIANTS
    TypeOK
    ResultsOfOwnRun
    JobsAccountedFor
    GivesUpLate
PROPERTIES
    JobAnswered
    MinionEnds
