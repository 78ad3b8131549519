CONSTANTS
  Threads = {t1}
  t1 = t1
  Second = 4
  Millisecond = 2
  Rounds = 2
  Longest = 4
  Scale = 16
  Word = 128
  Rates = {3, 5}
  Junk = {TRUE}
  Timeouts = {7, 9}
  Begins = {5, 118}
SPECIFICATION FSpec
INVARIANTS TimeoutHonoured
