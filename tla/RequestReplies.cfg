CONSTANTS
  Callers = {"c1", "c2"}
  MaxAsked = 2
  MaxReplies = 2
SPECIFICATION FairSpec
CHECK_DEADLOCK FALSE
INVARIANTS PendingExact OwnAnswer StoredReplyWins
PROPERTIES KeepsPromise EveryRequestEnds
