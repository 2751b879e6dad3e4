CONSTANTS
  Sessions = {"s1", "s2"}
  Coroutines = {"c1", "c2", "c3"}
  Caster = "c3"
  Frames = {"m1", "m2", "n1"}
  News = {"n1"}
  MaxUpdates = 3
SPECIFICATION MCFairSpec
CHECK_DEADLOCK FALSE
INVARIANTS OneWriter NothingLost
PROPERTIES KeepsChannel FiresOnlyWhenIdle IdleIsReported EverythingGoesOut
