SPECIFICATION FairSpec
CONSTANTS
  Metrics = {"a", "b", "x"}
  Stored = {"a", "b"}
  Rows <- MCRows
  Aggregates <- MCAggregates
  MaxRequests = 2
  MaxCrashes = 2
INVARIANT TypeOK
INVARIANT NoRequestLost
INVARIANT TrueAnswers
INVARIANT DuplicatesNeedCrash
PROPERTY Answered
\* The client ends when its connections are closed.
CHECK_DEADLOCK FALSE
