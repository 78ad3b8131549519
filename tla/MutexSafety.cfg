CONSTANTS
  Threads = {t1, t2}
  Timeout = 2
  Ops = {"lock", "trylock", "timedlock"}
SPECIFICATION OTimedSpec
INVARIANTS TypeOK Exclusion NoDataRace
PROPERTIES TimedlockWaitsItOut ImplementsSharedMutex TimedlockGivesUp LockGranted
