CONSTANTS
  Waiters = {w1}
  Bits = {b0, b1}
  Budgets = {0, 2}
  Backoff = 1
  Clamp = 1
  Backends = {"spin", "wfe", "wfet", "waitpkg", "mwaitx"}
  Kinds = {"value", "bit_set", "bit_not_set", "timeout", "oneshot"}
SPECIFICATION FairSpec
INVARIANTS TypeOK NoLostWakeup TrueIsSeen FalseIsSeen NoEarlyTimeout
PROPERTIES AnswerEndsWait TimerEndsWait EventsEndWait
