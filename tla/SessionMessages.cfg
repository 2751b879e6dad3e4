CONSTANTS
  Kinds = {"request", "pooled", "notification", "initialized", "ignored", "exit"}
  MaxMessages = 2
  MaxRebuilds = 2
  MaxBeats = 1
SPECIFICATION FairSpec
CHECK_DEADLOCK FALSE
INVARIANTS AnswersInOrder ReadyAfterInitialized
PROPERTIES EveryRequestAnswered SessionEnds EveryRebuildAnnounced
