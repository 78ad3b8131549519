CONSTANTS
  Threads = {t1, t2}
  MaxReads = 2
  TopBit = 8
  Timeout = 1
  Ops = {"rdlock", "wrlock", "timedwrlock", "trylock", "trylock_shared"}
SPECIFICATION OSpec
INVARIANTS UnlockSynchronizes
