CONSTANTS
  ConfigKey = {1, 2, 3}
  nil = nil
  After = 2
  Max = 3
  ChanCap = 1
  Producers = 2
SPECIFICATION FairSpec
INVARIANTS PushesCounted NoLostWakeup ReadyImpliesPushed
PROPERTIES DelayBounded EventuallyPushed
CHECK_DEADLOCK FALSE
