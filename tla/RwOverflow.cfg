CONSTANTS
  Threads = {t1, t2}
  MaxReads = 2
  TopBit = 4
  Ops = {"rdlock", "wrlock"}
SPECIFICATION Spec
INVARIANTS TopBitMeansWriter
