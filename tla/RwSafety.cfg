CONSTANTS
  Threads = {t1, t2, t3}
  MaxReads = 1
  TopBit = 4
  Ops = {"rdlock", "wrlock", "timedwrlock", "trylock", "trylock_shared"}
SPECIFICATION FairSpec
INVARIANTS TypeOK Exclusion WordCountsHolds NeverTraps
PROPERTIES NoSpuriousTryFail ImplementsSharedMutex LockFree CallsReturn
