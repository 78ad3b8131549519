CONSTANTS
  Threads = {t1, t2}
  Timeout = 1
  Ops = {"lock", "timedlock"}
SPECIFICATION FairSpec
PROPERTIES TimedlockReturns
