CONSTANTS
  t1 = t1
  t2 = t2
  w1 = w1
  w2 = w2
  Timers = {t1, t2}
  Workers = {w1, w2}
  TimerWorker = w1
  MAX_TIMERS = 2
  Intervals = {1}
  MaxTime = 2
  MaxArms <- OwnArms
  SpawnFailures = 1
SPECIFICATION FairSpec
INVARIANT TimersAccounted
PROPERTY ArmedFires
