CONSTANTS
  Threads = {t1, t2, t3}
  Clamp = 1
  Ops = {"lock", "trylock"}
  Backends = {"spin", "wfe", "wfet", "waitpkg", "mwaitx"}
SPECIFICATION FairSpec
INVARIANT SleepersHaveHolder
PROPERTIES ImplementsMutexLock LockGranted
