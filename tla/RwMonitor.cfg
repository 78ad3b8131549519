CONSTANTS
  Threads = {t1, t2, t3}
  MaxReads = 1
  TopBit = 4
  Clamp = 1
  Ops = {"rdlock", "wrlock", "trylock", "trylock_shared"}
  Backends = {"spin", "wfe", "mwaitx"}
  Readers = {t1}
  Writers = {t2, t3}
SPECIFICATION WFairSpec
INVARIANT SleepersHaveHolder
PROPERTIES ImplementsRwLock LockFreeOnWaits
