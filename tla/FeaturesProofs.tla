--------------------------- MODULE FeaturesProofs ---------------------------
(***************************************************************************)
(* Proofs about Features, for every processor, scale and word: what a wait *)
(* may load from the table while init stores it, and how long a timeout    *)
(* becomes.                                                                *)
(***************************************************************************)
EXTENDS Features, TLAPS

-----------------------------------------------------------------------------
(***************************************************************************)
(* The calibration on its own, as in Calibrate: whatever the length of a   *)
(* second, a millisecond and the number of rounds, it never keeps a count  *)
(* of cycles too small for a millisecond.                                  *)
(***************************************************************************)
(* The cycles since rdtsc_start, against the way of the clock since        *)
(* ts_start: the clock moved on within the second, or it wrapped.  Of a    *)
(* clock that went around more than once less is known, and enough.        *)
CountCoversClock ==
  pc = "loop" =>
    /\ now >= start => cycles >= now - start
    /\ now < start => cycles >= now + Second - start

\* What LeaveLoop saw, until the round ends.
RoundIsLong == pc = "rdtsc_end" => cycles >= Millisecond

RoundsLeft == pc # "done" => i < Rounds

IInv ==
  /\ TypeOK
  /\ CountCoversClock
  /\ RoundIsLong
  /\ RoundsLeft
  /\ NeverTooFew

LEMMA InitInv == Init => IInv
  BY CalibrateAssumption
  DEF Init, IInv, TypeOK, CountCoversClock, RoundIsLong, RoundsLeft,
            NeverTooFew

LEMMA NextInv == IInv /\ [Next]_vars => IInv'
<1> SUFFICES ASSUME IInv, [Next]_vars PROVE IInv'
  OBVIOUS
<1> USE CalibrateAssumption
        DEF IInv, TypeOK, CountCoversClock, RoundIsLong, RoundsLeft,
            NeverTooFew
<1>1. CASE Tick
  <2>1. now' \in 0..(Second - 1) /\ cycles' \in 0..Longest
    BY <1>1 DEF Tick
  <2>2. TypeOK'
    BY <1>1, <2>1 DEF Tick
  <2>3. CountCoversClock'
    <3>1. CASE now + 1 = Second
      BY <1>1, <3>1 DEF Tick
    <3>2. CASE now + 1 # Second
      BY <1>1, <3>2 DEF Tick
    <3> QED
      BY <3>1, <3>2
  <2>4. RoundIsLong' /\ RoundsLeft' /\ NeverTooFew'
    BY <1>1 DEF Tick
  <2> QED
    BY <2>2, <2>3, <2>4
<1>2. CASE RdtscStart
  BY <1>2 DEF RdtscStart
<1>3. CASE TsStart
  BY <1>3 DEF TsStart
<1>4. CASE LeaveLoop
  \* Leaving takes now >= start + Millisecond: the clock has not wrapped.
  BY <1>4 DEF LeaveLoop, Elapsed
<1>5. CASE RdtscEnd
  BY <1>5 DEF RdtscEnd
<1>6. CASE UNCHANGED vars
  BY <1>6 DEF vars
<1> QED
  BY <1>1, <1>2, <1>3, <1>4, <1>5, <1>6 DEF Next

LEMMA Invariance == Spec => []IInv
  BY InitInv, NextInv, PTL DEF Spec

(* The calibration's variables keep their types; in particular it does no  *)
(* more rounds than it is told to.                                         *)
THEOREM TypeCorrect == Spec => []TypeOK
<1>1. IInv => TypeOK
  BY DEF IInv
<1> QED
  BY <1>1, Invariance, PTL

(* The cycle count the frequency is derived from is never below that of a  *)
(* millisecond, wherever in the second a round starts and however long the *)
(* thread is kept off the processor during it.                             *)
THEOREM CountIsLongEnough == Spec => []NeverTooFew
<1>1. IInv => NeverTooFew
  BY DEF IInv
<1> QED
  BY <1>1, Invariance, PTL

-----------------------------------------------------------------------------
(* detect.c:329, "Spin-loop until one millisecond has elapsed", where it   *)
(* is not true.  The end of the loop is a number of nanoseconds that       *)
(* tv_nsec never has.                                                      *)
Hung == pc = "loop" /\ start + Millisecond >= Second

\* The steps of a thread in the loop.
LEMMA HungStays == TypeOK /\ Hung /\ [Next]_vars => Hung'
<1> SUFFICES ASSUME TypeOK, Hung, [Next]_vars PROVE Hung'
  OBVIOUS
<1>1. ~Elapsed
  BY CalibrateAssumption DEF TypeOK, Hung, Elapsed
<1> QED
  BY <1>1 DEF Hung, Next, vars, Tick, RdtscStart, TsStart, LeaveLoop, RdtscEnd

(* A round that takes its start in the last millisecond of a second never  *)
(* ends, and wfe_mutex_init does not return: not for a second of 4 ticks,  *)
(* as in a small instance, but for every length of a second and of a       *)
(* millisecond, 10^9 and 10^6 nanoseconds among them.                      *)
THEOREM LateStartHangs == Spec => [](Hung => []Hung)
<1>1. TypeOK /\ Hung /\ [Next]_vars => Hung'
  BY HungStays
<1> QED
  BY <1>1, TypeCorrect, PTL DEF Spec

-----------------------------------------------------------------------------
(* Arithmetic. *)

\* A scale of at least the true rate cuts no timeout short.
LEMMA ScaledNotShort ==
  ASSUME NEW n \in Nat, NEW m \in Nat, NEW d \in Nat \ {0}, NEW r \in Nat,
         NEW s \in Nat \ {0}, d * r <= m * s
  PROVE  (n * m) \div d >= (n * r) \div s
  OBVIOUS

\* A scale of less than twice the true rate does not double a timeout.
LEMMA ScaledNotDouble ==
  ASSUME NEW n \in Nat \ {0}, NEW m \in Nat, NEW d \in Nat \ {0}, NEW r \in Nat,
         NEW s \in Nat \ {0}, s * m < 2 * (d * r), NEW w \in Nat, w <= n * m
  PROVE  (w \div d) * s < 2 * n * r
<1> DEFINE q == w \div d
<1>1. q \in Nat /\ q * d <= n * m
  OBVIOUS
<1>2. (q * d) * s <= (n * m) * s
  BY <1>1
<1>3. (n * m) * s < (2 * n * r) * d
  OBVIOUS
<1>4. (q * s) * d < (2 * n * r) * d
  BY <1>1, <1>2, <1>3
<1> HIDE DEF q
<1> QED
  BY <1>1, <1>4

\* The divisor of a frequency below the dividend.
LEMMA DivisorFacts ==
  ASSUME NEW n \in Nat, NEW h \in Nat \ {0}, h <= n
  PROVE  /\ n \div h \in Nat \ {0}
         /\ (n \div h) * h <= n
         /\ n < 2 * ((n \div h) * h)
  OBVIOUS

LEMMA ModFacts ==
  ASSUME NEW a \in Nat, NEW b \in Nat \ {0}
  PROVE  a % b \in Nat /\ a % b <= a /\ (a < b => a % b = a)
  OBVIOUS

\* What the code knows of a frequency is not more than it is.
LEMMA KnownFacts ==
  ASSUME NEW r \in Nat, NEW p \in Nat \ {0}
  PROVE  (r \div p) * p \in Nat /\ (r \div p) * p <= r /\ (r >= p => r \div p >= 1)
  OBVIOUS

\* A whole number below a quotient is below what the division makes of it.
LEMMA DivBounds ==
  ASSUME NEW q \in Nat, NEW n \in Nat, NEW s \in Nat \ {0}
  PROVE  /\ n \div s \in Nat
         /\ q * s <= n => q <= n \div s
  OBVIOUS

LEMMA DivMonotone ==
  ASSUME NEW m \in Nat, NEW n \in Nat, NEW s \in Nat \ {0}, m <= n
  PROVE  m \div s \in Nat /\ n \div s \in Nat /\ m \div s <= n \div s
<1>1. m \div s \in Nat /\ (m \div s) * s <= m
  OBVIOUS
<1> DEFINE q == m \div s
<1> HIDE DEF q
<1>2. q \in Nat /\ q * s <= n
  BY <1>1 DEF q
<1> QED
  BY <1>2, DivBounds DEF q

(* A frequency that was measured is that of the counter in whole kilohertz *)
(* or more, and the divisor made of it is not zero: a round counts at      *)
(* least the whole cycles of a millisecond.                                *)
LEMMA MeasuredRate ==
  ASSUME cpu.rate \in Rates, cpu.rate >= PerSecond, TypeOK, NeverTooFew,
         NEW count \in Counts(rdtscMin)
  PROVE  LET hz == count * PerSecond
         IN  /\ hz \in Nat \ {0} /\ hz <= Second * Scale
             /\ (cpu.rate \div PerSecond) * PerSecond <= hz
<1> DEFINE rate == cpu.rate
           q == rate \div PerSecond
           top == (Longest * rate + Second - 1) \div Second
<1>1. Second \in Nat \ {0} /\ Millisecond \in Nat \ {0} /\ Longest \in Nat
  BY CalibrateAssumption
<1>2. rate \in Nat \ {0} /\ Scale \in Nat \ {0}
      /\ Second = PerSecond * Millisecond
  <2>1. Rates \subseteq Nat \ {0}
    BY FeaturesAssumption
  <2>2. Scale \in Nat \ {0} /\ Second = PerSecond * Millisecond
    BY FeaturesAssumption
  <2> QED
    BY <2>1, <2>2
<1>3. top * PerSecond <= Second * Scale
  BY FeaturesAssumption
<1>4. PerSecond \in Nat \ {0}
  <2>1. PerSecond \in Nat
    BY <1>1 DEF PerSecond
  <2>2. PerSecond # 0
    BY <1>1, <1>2
  <2> QED
    BY <2>1, <2>2
<1>5. rdtscMin \in Nat /\ rdtscMin <= Longest /\ Millisecond <= rdtscMin
  BY <1>1 DEF TypeOK, NeverTooFew
<1>6. q \in Nat \ {0} /\ q * PerSecond <= rate
  BY <1>2, <1>4, KnownFacts
<1> HIDE DEF rate, q, top
<1>7. rdtscMin * rate \in Nat /\ Longest * rate \in Nat /\ rdtscMin * rate <= Longest * rate
  BY <1>1, <1>2, <1>5
<1> DEFINE low == (rdtscMin * rate) \div Second
           high == (rdtscMin * rate + Second - 1) \div Second
<1>8. count = low \/ count = high
  BY DEF Counts, rate
<1>9. low \in Nat /\ high \in Nat /\ top \in Nat /\ low <= high /\ high <= top
  <2>1. rdtscMin * rate + Second - 1 \in Nat /\ Longest * rate + Second - 1 \in Nat
        /\ rdtscMin * rate <= rdtscMin * rate + Second - 1
        /\ rdtscMin * rate + Second - 1 <= Longest * rate + Second - 1
    BY <1>1, <1>7
  <2>2. low \in Nat /\ high \in Nat /\ low <= high
    BY <1>1, <1>7, <2>1, DivMonotone
  <2>3. top \in Nat /\ high <= top
    BY <1>1, <2>1, DivMonotone DEF top
  <2> QED
    BY <2>2, <2>3
<1>10. q <= low
  <2>1. q * Second = (q * PerSecond) * Millisecond
    BY <1>1, <1>2, <1>4, <1>6
  <2>2. (q * PerSecond) * Millisecond <= rate * Millisecond
    BY <1>1, <1>2, <1>4, <1>6
  <2>3. rate * Millisecond <= rdtscMin * rate
    BY <1>1, <1>2, <1>5
  <2>4. q * Second <= rdtscMin * rate
    <3> DEFINE a == (q * PerSecond) * Millisecond
               b == rate * Millisecond
               c == rdtscMin * rate
    <3>1. a \in Nat /\ b \in Nat /\ c \in Nat
      BY <1>1, <1>2, <1>4, <1>6, <1>7
    <3>2. a <= b /\ b <= c
      BY <2>2, <2>3
    <3> HIDE DEF a, b, c
    <3>3. a <= c
      BY <3>1, <3>2
    <3> QED
      BY <2>1, <3>3 DEF a, c
  <2> QED
    BY <1>1, <1>6, <1>7, <2>4, DivBounds
<1> HIDE DEF low, high
<1>11. count \in Nat /\ q <= count /\ count <= top
  BY <1>6, <1>8, <1>9, <1>10
<1>12. count * PerSecond \in Nat /\ count * PerSecond # 0
  BY <1>4, <1>6, <1>11
<1>13. q * PerSecond <= count * PerSecond
  BY <1>4, <1>6, <1>11
<1>14. count * PerSecond <= Second * Scale
  <2>1. count * PerSecond <= top * PerSecond
    BY <1>4, <1>9, <1>11
  <2> DEFINE a == count * PerSecond
             b == top * PerSecond
             c == Second * Scale
  <2>2. a \in Nat /\ b \in Nat /\ c \in Nat
    BY <1>1, <1>2, <1>4, <1>9, <1>12
  <2>3. a <= b /\ b <= c
    BY <1>3, <2>1
  <2> HIDE DEF a, b, c
  <2>4. a <= c
    BY <2>2, <2>3
  <2> QED
    BY <2>4 DEF a, c
<1> QED
  BY <1>12, <1>13, <1>14 DEF q, rate

-----------------------------------------------------------------------------
(* The invariant. *)

Pointers == Slots \cup Types
TimedPointers == Timed \cup {"wait_type_timeout"}

\* The functions detect() chooses first, and those it has chosen by now.
Base ==
  CASE cpu.arch \in {"arm64", "arm32"} -> "wfe"
    [] HasMonitorx -> "mwaitx"
    [] ~HasMonitorx /\ HasWaitpkg -> "waitpkg"
    [] OTHER -> "spin"

Expected(f) ==
  IF cpu.arch = "arm32" /\ f \in Wide THEN "spin"
  ELSE IF cpu.wfxt /\ stage # "detect" /\ f \in TimedPointers THEN "wfet"
  ELSE Base

\* The functions that have nothing better on this processor.
Spins(f) == Executable(cpu) = {"spin"} \/ (cpu.arch = "arm32" /\ f \in Wide)

\* The multiplier does not depend on a measurement, the divisor may.
Multiplier ==
  IF cpu.arch = "other" \/ (cpu.arch # "x86" /\ cpu.rate <= Second) THEN 1 ELSE Scale

GoodDivisor(d) ==
  /\ d \in Nat \ {0}
  /\ d * KnownRate <= Multiplier * Second
  /\ TellsFrequency => Second * Multiplier < 2 * (d * cpu.rate)

(* Where init is, and what it may have on the way. *)
StageInv ==
  /\ cpu \in Processor /\ Exists(cpu)
  /\ stage \in {"idle", "detect", "wfxt", "calibrate", "scale"}
  /\ inited \in BOOLEAN
  /\ features = [f \in Fields |-> features[f]]
  /\ DOMAIN pending \subseteq Fields
  /\ stage \in {"idle", "calibrate"} => DOMAIN pending = {}
  /\ stage \in {"detect", "wfxt"} => DOMAIN pending \subseteq Pointers
  /\ stage = "wfxt" => cpu.wfxt
  /\ stage = "calibrate" => ~TellsFrequency
  /\ stage = "scale" => DOMAIN pending \cap Pointers = {}

(* What is stored is what the stage stores, and what was stored before     *)
(* stays until then.                                                       *)
TableInv ==
  \A f \in Pointers :
    /\ f \in DOMAIN pending => pending[f] = Expected(f)
    /\ f \notin DOMAIN pending /\ (inited \/ stage # "idle") => features[f] = Expected(f)
    /\ ~inited /\ stage = "idle" => features[f] = "spin"
    /\ features[f] \in Executable(cpu)
    /\ inited /\ features[f] = "spin" => Spins(f)

(* Whatever pair of a multiplier and a divisor a thread loads once init    *)
(* has returned is a good one.                                             *)
ScaleInv ==
  /\ "multiplier" \in DOMAIN pending => pending["multiplier"] = Multiplier
  /\ "divisor" \in DOMAIN pending => GoodDivisor(pending["divisor"])
  /\ stage = "scale" /\ "multiplier" \notin DOMAIN pending
       => features["multiplier"] = Multiplier
  /\ stage = "scale" /\ "divisor" \notin DOMAIN pending => GoodDivisor(features["divisor"])
  /\ inited => features["multiplier"] = Multiplier /\ GoodDivisor(features["divisor"])
  /\ cpu.arch = "other" =>
       /\ features["multiplier"] = 1 /\ features["divisor"] = 1
       /\ "multiplier" \notin DOMAIN pending /\ "divisor" \notin DOMAIN pending
  /\ ~inited /\ stage # "scale" => features["multiplier"] = 1 /\ features["divisor"] = 1

CallFields == {"at", "slot", "impl", "asked", "multiplier", "divisor", "after", "lasts", "fits"}

\* A call that began after init.
CallInv ==
  \A t \in Threads :
    /\ call[t] = [f \in CallFields |-> call[t][f]]
    /\ call[t].slot \in Slots
    /\ call[t].impl \in Executable(cpu)
    /\ call[t].after => inited
    /\ call[t].after /\ call[t].impl = "spin" => Spins(call[t].slot)
    /\ call[t].asked \in Nat
    /\ call[t].after /\ call[t].at = "convert" =>
         /\ call[t].multiplier \in {0, Multiplier}
         /\ call[t].divisor = 0 \/ GoodDivisor(call[t].divisor)
    /\ Deadlined(t) =>
         /\ call[t].fits => call[t].lasts >= (call[t].asked * KnownRate) \div Second
         /\ TellsFrequency /\ call[t].asked # 0
              => call[t].lasts * Second < 2 * call[t].asked * cpu.rate

FInv ==
  /\ IInv
  /\ stage # "calibrate" => pc = "rdtsc_start" /\ i = 0 /\ rdtscMin = Longest
  /\ call = [t \in Threads |-> call[t]]
  /\ StageInv /\ TableInv /\ ScaleInv /\ CallInv

(* The properties of the runs follow from it. *)
LEMMA FInvImplies ==
  FInv => RunsHere /\ NeverSpinsAgain /\ TypesNameFunctions /\ NeverShort /\ NeverTwiceAsLong
<1> SUFFICES ASSUME FInv
             PROVE  RunsHere /\ NeverSpinsAgain /\ TypesNameFunctions /\ NeverShort
                    /\ NeverTwiceAsLong
  OBVIOUS
<1>1. RunsHere
  BY DEF FInv, CallInv, RunsHere
<1>2. NeverSpinsAgain
  BY DEF FInv, CallInv, NeverSpinsAgain, Spins
<1>3. TypesNameFunctions
  <2> SUFFICES ASSUME inited, stage = "idle",
                      NEW s \in IF cpu.arch = "arm32" THEN Narrow ELSE Slots
               PROVE  features[s] =
                        features[IF s \in Timed THEN "wait_type_timeout" ELSE "wait_type"]
    BY DEF TypesNameFunctions
  <2> DEFINE n == IF s \in Timed THEN "wait_type_timeout" ELSE "wait_type"
  <2>1. s \in Pointers /\ n \in Pointers /\ (cpu.arch = "arm32" => s \notin Wide)
        /\ n \notin Wide /\ (s \in TimedPointers <=> n \in TimedPointers)
    BY DEF Pointers, Slots, Narrow, Wide, Types, Timed, TimedPointers
  <2>2. features[s] = Expected(s) /\ features[n] = Expected(n)
    BY <2>1 DEF FInv, StageInv, TableInv
  <2> QED
    BY <2>1, <2>2 DEF Expected
<1>4. NeverShort /\ NeverTwiceAsLong
  BY DEF FInv, CallInv, NeverShort, NeverTwiceAsLong
<1> QED
  BY <1>1, <1>2, <1>3, <1>4

-----------------------------------------------------------------------------
(* The invariant holds initially and is kept. *)

LEMMA FInitInv == FInit => FInv
<1> SUFFICES ASSUME FInit PROVE FInv
  OBVIOUS
<1> USE DEF FInit
<1>1. IInv
  BY InitInv
<1>2. pc = "rdtsc_start" /\ i = 0 /\ rdtscMin = Longest
  BY DEF Init
<1>3. DOMAIN pending = {}
  OBVIOUS
<1>4. StageInv
  <2>1. cpu \in Processor /\ Exists(cpu)
    OBVIOUS
  <2>2. features = [f \in Fields |-> features[f]]
    BY DEF Uninitialised
  <2> QED
    BY <1>3, <2>1, <2>2 DEF StageInv
<1>5. TableInv
  <2> SUFFICES ASSUME NEW f \in Pointers PROVE features[f] = "spin"
    BY <1>3 DEF TableInv, Executable
  <2> QED
    <3>1. f \in Fields /\ f \in Slots \cup Types
      BY DEF Pointers, Fields
    <3> QED
      BY <3>1 DEF Uninitialised
<1>6. ScaleInv
  <2>1. features["multiplier"] = 1 /\ features["divisor"] = 1
    BY DEF Uninitialised, Fields, Slots, Narrow, Wide, Types
  <2> QED
    BY <1>3, <2>1 DEF ScaleInv
<1>7. CallInv
  BY DEF CallInv, CallFields, Idle, Deadlined, Slots, Narrow, Executable
<1> QED
  BY <1>1, <1>2, <1>4, <1>5, <1>6, <1>7 DEF FInv

\* What does not touch the calls keeps what is known of them.
LEMMA CallsKept ==
  ASSUME CallInv, UNCHANGED <<cpu, call>>, inited => inited'
  PROVE  CallInv'
BY DEF CallInv, Executable, Deadlined, Multiplier, GoodDivisor, KnownRate, TellsFrequency,
       Cpuid, Spins

\* What the code finds out about a processor.
LEMMA CpuFacts ==
  ASSUME StageInv
  PROVE  /\ cpu.rate \in Nat \ {0}
         /\ cpu.arch # "other" => cpu.rate \in Rates
         /\ cpu.arch \in {"x86", "arm64", "arm32", "other"}
         /\ HasMonitorx <=> cpu.monitorx = TRUE
         /\ HasWaitpkg <=> cpu.waitpkg = TRUE
         /\ cpu.arch # "x86" => cpu.monitorx = FALSE /\ cpu.waitpkg = FALSE
         /\ cpu.wfxt \in BOOLEAN /\ (cpu.wfxt => cpu.arch = "arm64")
         /\ cpu.arch = "other" => cpu.rate = Second
         /\ ~TellsFrequency => cpu.arch = "x86" /\ cpu.rate >= PerSecond
<1>1. cpu \in Processor /\ Exists(cpu)
  BY DEF StageInv
<1>2. Rates \subseteq Nat \ {0}
  BY FeaturesAssumption
<1>3. CASE cpu.arch = "x86"
  <2>1. /\ cpu.rate \in Rates /\ cpu.limit \in {6, 7, 21} /\ cpu.wfxt = FALSE
        /\ cpu.extended \in BOOLEAN /\ cpu.monitorx \in BOOLEAN
        /\ cpu.waitpkg \in BOOLEAN /\ cpu.told \in BOOLEAN
    BY <1>1, <1>3 DEF Processor
  <2> QED
    BY <1>1, <1>2, <1>3, <2>1
    DEF Exists, HasMonitorx, HasWaitpkg, TellsFrequency, Cpuid
<1>4. CASE cpu.arch # "x86"
  <2>1. /\ cpu.arch # "other" => cpu.rate \in Rates
        /\ cpu.arch = "other" => cpu.rate = Second
        /\ cpu.limit = 0 /\ cpu.wfxt \in BOOLEAN
        /\ cpu.extended = FALSE /\ cpu.monitorx = FALSE /\ cpu.waitpkg = FALSE
        /\ cpu.arch \in {"arm64", "arm32", "other"}
    BY <1>1, <1>4 DEF Processor
  <2>2. cpu.rate \in Nat \ {0}
    <3>1. Second \in Nat \ {0}
      BY CalibrateAssumption
    <3>2. CASE cpu.arch = "other"
      BY <2>1, <3>1, <3>2
    <3>3. CASE cpu.arch # "other"
      BY <1>2, <2>1, <3>3
    <3> QED
      BY <3>2, <3>3
  <2> QED
    BY <1>1, <1>4, <2>1, <2>2
    DEF Exists, HasMonitorx, HasWaitpkg, TellsFrequency, Cpuid
<1> QED
  BY <1>3, <1>4

\* What the code can know of the frequency.
LEMMA KnownRateFacts ==
  ASSUME StageInv
  PROVE  KnownRate \in Nat /\ KnownRate <= cpu.rate
<1>1. cpu.rate \in Nat
  BY CpuFacts
<1>2. PerSecond \in Nat \ {0}
  BY CalibrateAssumption, FeaturesAssumption DEF PerSecond
<1> QED
  BY <1>1, <1>2, KnownFacts DEF KnownRate

\* What detect() stores is what its stage expects; the rest spins.
LEMMA DetectedFacts ==
  ASSUME StageInv
  PROVE  /\ DOMAIN Detected \subseteq Pointers
         /\ \A f \in DOMAIN Detected : Detected[f] = Base
         /\ \A f \in DOMAIN Detected : cpu.arch = "arm32" => f \notin Wide
         /\ \A f \in Pointers \ DOMAIN Detected :
              Base = "spin" \/ (cpu.arch = "arm32" /\ f \in Wide)
<1> USE CpuFacts DEF Pointers
<1>1. CASE cpu.arch = "arm64"
  <2>1. Detected = [f \in Types \cup Slots |-> "wfe"] /\ Base = "wfe"
    BY <1>1 DEF Detected, Base, Fill
  <2> QED
    BY <1>1, <2>1
<1>2. CASE cpu.arch = "arm32"
  <2>1. Narrow \cap Wide = {} /\ Types \cap Wide = {}
    BY DEF Narrow, Wide, Types
  <2>2. Detected = [f \in Types \cup Narrow |-> "wfe"] /\ Base = "wfe"
    BY <1>2 DEF Detected, Base, Fill
  <2> QED
    BY <1>2, <2>1, <2>2 DEF Slots
<1>3. CASE HasMonitorx
  <2>1. Detected = [f \in Types \cup Slots |-> "mwaitx"] /\ Base = "mwaitx"
    BY <1>3 DEF Detected, Base, Fill
  <2> QED
    BY <1>3, <2>1
<1>4. CASE HasWaitpkg /\ ~HasMonitorx
  <2>1. Detected = [f \in Types \cup Slots |-> "waitpkg"] /\ Base = "waitpkg"
    BY <1>4 DEF Detected, Base, Fill
  <2> QED
    BY <1>4, <2>1
<1>5. CASE cpu.arch \notin {"arm64", "arm32"} /\ ~HasMonitorx /\ ~HasWaitpkg
  <2>1. Detected = << >> /\ Base = "spin"
    BY <1>5 DEF Detected, Base
  <2> QED
    BY <2>1
<1> QED
  BY <1>1, <1>2, <1>3, <1>4, <1>5

\* Every function that init may expect can be executed, and spins only
\* where nothing else can.
LEMMA ExpectedRuns ==
  ASSUME StageInv, NEW f \in Pointers
  PROVE  Expected(f) \in Executable(cpu) /\ (Expected(f) = "spin" => Spins(f))
<1> USE CpuFacts
<1>1. CASE cpu.arch \in {"arm64", "arm32"}
  <2>1. Base = "wfe" /\ "wfe" \in Executable(cpu) /\ "spin" \in Executable(cpu)
    BY <1>1 DEF Base, Executable
  <2>2. cpu.wfxt => "wfet" \in Executable(cpu)
    BY DEF Executable
  <2> QED
    BY <1>1, <2>1, <2>2 DEF Expected, Spins
<1>2. CASE cpu.arch \notin {"arm64", "arm32"}
  <2>1. Expected(f) = Base /\ cpu.wfxt = FALSE
    BY <1>2 DEF Expected
  <2>2. Base \in Executable(cpu) /\ (Base = "spin" => Executable(cpu) = {"spin"})
    BY <1>2, <2>1 DEF Base, Executable
  <2> QED
    BY <2>1, <2>2 DEF Spins
<1> QED
  BY <1>1, <1>2

\* The scale of a frequency that is not underestimated.
LEMMA ScaleFacts ==
  ASSUME StageInv, cpu.arch # "other", NEW hz \in Nat \ {0},
         KnownRate <= hz, hz <= Second * Scale, TellsFrequency => hz = cpu.rate,
         cpu.arch # "x86" => hz = cpu.rate
  PROVE  /\ DOMAIN ScaleFor(hz) = {"cycle_hz", "multiplier", "divisor"}
         /\ ScaleFor(hz)["multiplier"] = Multiplier
         /\ GoodDivisor(ScaleFor(hz)["divisor"])
<1> USE DEF Divisor
<1>1. cpu.rate \in Nat \ {0} /\ Second \in Nat \ {0} /\ Scale \in Nat \ {0}
  BY CpuFacts, CalibrateAssumption, FeaturesAssumption
<1>2. Second * Multiplier = Multiplier * Second /\ Multiplier \in Nat \ {0}
  BY <1>1 DEF Multiplier
<1>3. hz <= Second * Multiplier
  BY <1>1 DEF Multiplier
<1>4. ScaleFor(hz) = [cycle_hz |-> hz, multiplier |-> Multiplier,
                      divisor |-> (Second * Multiplier) \div hz]
  BY <1>1 DEF ScaleFor, Multiplier
<1> DEFINE d == (Second * Multiplier) \div hz
<1>5. d \in Nat \ {0} /\ d * hz <= Second * Multiplier /\ Second * Multiplier < 2 * (d * hz)
  BY <1>1, <1>2, <1>3, DivisorFacts
<1> HIDE DEF d
<1>6. d * KnownRate <= d * hz /\ d * KnownRate \in Nat
  BY <1>1, <1>5, KnownRateFacts
<1>7. GoodDivisor(d)
  BY <1>1, <1>2, <1>5, <1>6 DEF GoodDivisor
<1> QED
  BY <1>4, <1>7 DEF d

(* The steps of init. *)

LEMMA DetectInv == FInv /\ Detect => FInv'
<1> SUFFICES ASSUME FInv, Detect PROVE FInv'
  OBVIOUS
<1> USE DEF FInv, Detect
<1>1. IInv' /\ pc' = "rdtsc_start" /\ i' = 0 /\ rdtscMin' = Longest
  BY DEF calVars, vars, IInv, TypeOK, CountCoversClock, RoundIsLong, RoundsLeft, NeverTooFew
<1>2. StageInv'
  BY DetectedFacts DEF StageInv, Exists, Fields, Pointers, TellsFrequency, Cpuid
<1>3. TableInv'
  <2> SUFFICES ASSUME NEW f \in Pointers
               PROVE  /\ f \in DOMAIN Detected => Detected[f] = Expected(f)'
                      /\ f \notin DOMAIN Detected => features[f] = Expected(f)'
                      /\ features[f] \in Executable(cpu)
                      /\ inited /\ features[f] = "spin" => Spins(f)
    BY DEF TableInv, Executable, Spins
  <2>1. Expected(f)' = IF cpu.arch = "arm32" /\ f \in Wide THEN "spin" ELSE Base
    BY DEF Expected, Base, HasMonitorx, HasWaitpkg, Cpuid
  <2>2. f \in DOMAIN Detected => Detected[f] = Expected(f)'
    BY <2>1, DetectedFacts
  <2>3. f \notin DOMAIN Detected => features[f] = Expected(f)'
    <3> SUFFICES ASSUME f \notin DOMAIN Detected PROVE features[f] = "spin"
      BY <2>1, DetectedFacts
    <3>1. CASE ~inited
      BY <3>1 DEF TableInv
    <3>2. CASE inited
      <4>1. features[f] = Expected(f)
        BY <3>2 DEF TableInv, StageInv
      <4>2. Base = "spin" => ~cpu.wfxt
        BY CpuFacts DEF Base
      <4> QED
        BY <4>1, <4>2, DetectedFacts DEF Expected
    <3> QED
      BY <3>1, <3>2
  <2> QED
    BY <2>2, <2>3 DEF TableInv
<1>4. ScaleInv'
  <2>1. "multiplier" \notin Pointers /\ "divisor" \notin Pointers
    BY DEF Pointers, Slots, Narrow, Wide, Types
  <2> QED
    BY <2>1, DetectedFacts
    DEF StageInv, ScaleInv, Multiplier, GoodDivisor, KnownRate, TellsFrequency, Cpuid
<1>5. CallInv'
  BY CallsKept
<1> QED
  BY <1>1, <1>2, <1>3, <1>4, <1>5

LEMMA DetectWfxtInv == FInv /\ DetectWfxt => FInv'
<1> SUFFICES ASSUME FInv, DetectWfxt PROVE FInv'
  OBVIOUS
<1> USE DEF FInv, DetectWfxt, Stored
<1>1. IInv' /\ pc' = "rdtsc_start" /\ i' = 0 /\ rdtscMin' = Longest
  BY DEF calVars, vars, IInv, TypeOK, CountCoversClock, RoundIsLong, RoundsLeft, NeverTooFew
<1>2. DOMAIN pending' = TimedPointers /\ TimedPointers \subseteq Pointers
  BY DEF Fill, TimedPointers, Pointers, Slots, Narrow, Wide, Types, Timed
<1>3. StageInv'
  BY <1>2 DEF StageInv, Exists, Fields, Pointers, TellsFrequency, Cpuid
<1>4. TableInv'
  <2>1. cpu.arch = "arm64"
    BY CpuFacts DEF StageInv
  <2> SUFFICES ASSUME NEW f \in Pointers
               PROVE  /\ f \in TimedPointers => pending'[f] = Expected(f)'
                      /\ f \notin TimedPointers => features[f] = Expected(f)'
                      /\ features[f] \in Executable(cpu)
                      /\ inited /\ features[f] = "spin" => Spins(f)
    BY <1>2 DEF TableInv, Executable, Spins
  <2>2. features[f] = Expected(f)
    BY DEF TableInv
  <2>3. f \in TimedPointers => pending'[f] = "wfet" /\ Expected(f)' = "wfet"
    BY <2>1 DEF Fill, TimedPointers, Expected
  <2>4. f \notin TimedPointers => Expected(f)' = Expected(f)
    <3>1. Base' = Base
      BY DEF Base, HasMonitorx, HasWaitpkg, Cpuid
    <3> QED
      BY <3>1 DEF Expected
  <2> QED
    BY <2>2, <2>3, <2>4 DEF TableInv
<1>5. ScaleInv'
  <2>1. "multiplier" \notin Pointers /\ "divisor" \notin Pointers
    BY DEF Pointers, Slots, Narrow, Wide, Types
  <2> QED
    BY <1>2, <2>1 DEF ScaleInv, Multiplier, GoodDivisor, KnownRate, TellsFrequency, Cpuid
<1>6. CallInv'
  BY CallsKept
<1> QED
  BY <1>1, <1>3, <1>4, <1>5, <1>6

\* detect() is over: its table is what the later stages expect.
LEMMA DetectedTable ==
  ASSUME StageInv, TableInv, DetectDone, UNCHANGED <<cpu, features, inited>>,
         stage' \in {"calibrate", "scale"}, DOMAIN pending' \cap Pointers = {}
  PROVE  TableInv'
<1>1. ASSUME NEW f \in Pointers
      PROVE  features[f] = Expected(f) /\ Expected(f)' = Expected(f)
  <2>1. features[f] = Expected(f)
    BY DEF TableInv, DetectDone, Stored
  <2>2. Expected(f)' = Expected(f)
    BY DEF Expected, Base, HasMonitorx, HasWaitpkg, Cpuid, DetectDone, Stored
  <2> QED
    BY <2>1, <2>2
<1> QED
  BY <1>1 DEF TableInv, Executable, Spins

LEMMA FrequencyInv == FInv /\ Frequency => FInv'
<1> SUFFICES ASSUME FInv, Frequency PROVE FInv'
  OBVIOUS
<1> USE DEF FInv, Frequency
<1>1. IInv' /\ pc' = "rdtsc_start" /\ i' = 0 /\ rdtscMin' = Longest
  BY DEF calVars, vars, IInv, TypeOK, CountCoversClock, RoundIsLong, RoundsLeft, NeverTooFew,
         DetectDone, Stored
<1>2. Pointers \cap {"cycle_hz", "multiplier", "divisor"} = {}
  BY DEF Pointers, Slots, Narrow, Wide, Types
<1>3. CASE cpu.arch = "other"
  <2>1. DOMAIN pending' = {}
    BY <1>3
  <2>2. StageInv'
    BY <2>1 DEF StageInv, Exists, TellsFrequency, Cpuid
  <2>3. TableInv'
    BY <2>1, DetectedTable
  <2>4. ScaleInv'
    <3>1. Multiplier = 1 /\ features["multiplier"] = 1 /\ features["divisor"] = 1
          /\ cpu.rate = Second
      BY <1>3, CpuFacts DEF ScaleInv, Multiplier
    <3>2. Second \in Nat \ {0}
      BY CalibrateAssumption
    <3>3. GoodDivisor(1)
      BY <1>3, <3>1, <3>2 DEF GoodDivisor, KnownRate, TellsFrequency
    <3> QED
      BY <2>1, <3>1, <3>3 DEF ScaleInv, Multiplier, GoodDivisor, KnownRate, TellsFrequency, Cpuid
  <2>5. CallInv'
    BY CallsKept
  <2> QED
    BY <1>1, <2>2, <2>3, <2>4, <2>5
<1>4. CASE cpu.arch # "other"
  <2>1. cpu.rate \in Nat \ {0} /\ cpu.rate <= Second * Scale /\ KnownRate <= cpu.rate
    BY CpuFacts, FeaturesAssumption, KnownRateFacts
  <2>2. /\ DOMAIN pending' = {"cycle_hz", "multiplier", "divisor"}
        /\ pending'["multiplier"] = Multiplier
        /\ GoodDivisor(pending'["divisor"])
    BY <1>4, <2>1, ScaleFacts
  <2>3. StageInv'
    BY <1>2, <2>2 DEF StageInv, Exists, Fields, TellsFrequency, Cpuid
  <2>4. TableInv'
    BY <1>2, <2>2, DetectedTable
  <2>5. ScaleInv'
    BY <1>4, <2>2 DEF ScaleInv, Multiplier, GoodDivisor, KnownRate, TellsFrequency, Cpuid
  <2>6. CallInv'
    BY CallsKept
  <2> QED
    BY <1>1, <2>3, <2>4, <2>5, <2>6
<1> QED
  BY <1>3, <1>4

LEMMA CalibrationInv == FInv /\ (StartCalibration \/ Calibration) => FInv'
<1> SUFFICES ASSUME FInv, StartCalibration \/ Calibration PROVE FInv'
  OBVIOUS
<1> USE DEF FInv
<1>1. CASE StartCalibration
  <2> USE <1>1 DEF StartCalibration
  <2>1. IInv'
    BY DEF IInv, TypeOK, CountCoversClock, RoundIsLong, RoundsLeft, NeverTooFew,
           DetectDone, Stored
  <2>2. DOMAIN pending' = {}
    BY DEF DetectDone, Stored
  <2>3. StageInv'
    BY <2>2 DEF StageInv, Exists, TellsFrequency, Cpuid
  <2>4. TableInv'
    BY <2>2, DetectedTable
  <2>5. ScaleInv'
    BY <2>2
    DEF ScaleInv, Multiplier, GoodDivisor, KnownRate, TellsFrequency, Cpuid, DetectDone,
        Stored
  <2>6. CallInv'
    BY CallsKept
  <2> QED
    BY <2>1, <2>3, <2>4, <2>5, <2>6
<1>2. CASE Calibration
  <2> USE <1>2 DEF Calibration, initVars
  <2>1. IInv'
    BY NextInv
  <2>2. StageInv' /\ TableInv' /\ ScaleInv'
    BY DEF StageInv, TableInv, ScaleInv, Exists, Expected, Base, Executable, Spins, HasMonitorx,
           HasWaitpkg, TellsFrequency, Cpuid, Multiplier, GoodDivisor, KnownRate
  <2>3. CallInv'
    BY CallsKept
  <2> QED
    BY <2>1, <2>2, <2>3
<1> QED
  BY <1>1, <1>2

LEMMA MeasuredInv == FInv /\ Measured => FInv'
<1> SUFFICES ASSUME FInv, Measured PROVE FInv'
  OBVIOUS
<1> USE DEF FInv, Measured
<1>1. IInv' /\ pc' = "rdtsc_start" /\ i' = 0 /\ rdtscMin' = Longest
  BY CalibrateAssumption
  DEF IInv, TypeOK, CountCoversClock, RoundIsLong, RoundsLeft, NeverTooFew
<1>2. Pointers \cap {"cycle_hz", "multiplier", "divisor"} = {}
  BY DEF Pointers, Slots, Narrow, Wide, Types
<1>3. ~TellsFrequency /\ cpu.arch = "x86" /\ cpu.rate \in Rates /\ cpu.rate >= PerSecond
  BY CpuFacts DEF StageInv
<1>4. PICK hz \in Nat \ {0} :
        KnownRate <= hz /\ hz <= Second * Scale /\ pending' = ScaleFor(hz)
  <2>1. PICK count \in Counts(rdtscMin) : pending' = ScaleFor(count * PerSecond)
    OBVIOUS
  <2> QED
    BY <1>3, <2>1, MeasuredRate DEF IInv, KnownRate
<1>6. /\ DOMAIN pending' = {"cycle_hz", "multiplier", "divisor"}
      /\ pending'["multiplier"] = Multiplier
      /\ GoodDivisor(pending'["divisor"])
  BY <1>3, <1>4, ScaleFacts
<1>7. StageInv'
  BY <1>2, <1>6 DEF StageInv, Exists, Fields, TellsFrequency, Cpuid
<1>8. TableInv'
  <2> SUFFICES ASSUME NEW f \in Pointers
               PROVE  features[f] = Expected(f) /\ Expected(f)' = Expected(f)
    BY <1>2, <1>6 DEF TableInv, Executable, Spins
  <2>1. Base' = Base
    BY DEF Base, HasMonitorx, HasWaitpkg, Cpuid
  <2>2. features[f] = Expected(f)
    BY DEF TableInv, StageInv
  <2> QED
    BY <2>1, <2>2 DEF Expected
<1>9. ScaleInv'
  BY <1>3, <1>6 DEF ScaleInv, Multiplier, GoodDivisor, KnownRate, TellsFrequency, Cpuid
<1>10. CallInv'
  BY CallsKept
<1> QED
  BY <1>1, <1>7, <1>8, <1>9, <1>10

LEMMA InitReturnsInv == FInv /\ InitReturns => FInv'
<1> SUFFICES ASSUME FInv, InitReturns PROVE FInv'
  OBVIOUS
<1> USE DEF FInv, InitReturns, Stored
<1>1. IInv' /\ pc' = "rdtsc_start" /\ i' = 0 /\ rdtscMin' = Longest
  BY DEF calVars, vars, IInv, TypeOK, CountCoversClock, RoundIsLong, RoundsLeft, NeverTooFew
<1>2. StageInv'
  BY DEF StageInv, Exists, TellsFrequency, Cpuid
<1>3. TableInv'
  <2> SUFFICES ASSUME NEW f \in Pointers
               PROVE  /\ features[f] = Expected(f) /\ Expected(f)' = Expected(f)
                      /\ Expected(f) \in Executable(cpu)
                      /\ Expected(f) = "spin" => Spins(f)
    BY DEF TableInv, Executable, Spins
  <2>1. Base' = Base
    BY DEF Base, HasMonitorx, HasWaitpkg, Cpuid
  <2>2. features[f] = Expected(f)
    BY DEF TableInv
  <2> QED
    BY <2>1, <2>2, ExpectedRuns DEF Expected
<1>4. ScaleInv'
  BY DEF ScaleInv, Multiplier, GoodDivisor, KnownRate, TellsFrequency, Cpuid
<1>5. CallInv'
  BY CallsKept
<1> QED
  BY <1>1, <1>2, <1>3, <1>4, <1>5

LEMMA StoreInv == ASSUME FInv, NEW f \in DOMAIN pending, Store(f) PROVE FInv'
<1> USE DEF FInv, Store
<1>1. IInv' /\ (stage' # "calibrate" => pc' = "rdtsc_start" /\ i' = 0 /\ rdtscMin' = Longest)
  BY DEF calVars, vars, IInv, TypeOK, CountCoversClock, RoundIsLong, RoundsLeft, NeverTooFew
<1>2. /\ DOMAIN pending' = DOMAIN pending \ {f}
      /\ \A g \in DOMAIN pending' : pending'[g] = pending[g]
  BY DEF Restrict
<1>3. /\ f \in Fields /\ features'[f] = pending[f]
      /\ \A g \in Fields \ {f} : features'[g] = features[g]
      /\ features' = [g \in Fields |-> features'[g]]
  BY DEF StageInv
<1>4. StageInv'
  BY <1>2, <1>3 DEF StageInv, Exists, TellsFrequency, Cpuid
<1>5. TableInv'
  <2> SUFFICES ASSUME NEW g \in Pointers
               PROVE  /\ g \in DOMAIN pending' => pending'[g] = Expected(g)
                      /\ g \notin DOMAIN pending' /\ (inited \/ stage # "idle")
                           => features'[g] = Expected(g)
                      /\ ~inited /\ stage = "idle" => features'[g] = "spin"
                      /\ features'[g] \in Executable(cpu)
                      /\ inited /\ features'[g] = "spin" => Spins(g)
    BY DEF TableInv, Executable, Spins, Expected, Base, HasMonitorx, HasWaitpkg, Cpuid
  <2>1. g \in Fields
    BY DEF Pointers, Fields
  <2>2. CASE g = f
    <3>1. features'[g] = Expected(g)
      BY <1>3, <2>2 DEF TableInv
    <3>2. stage # "idle"
      BY DEF StageInv
    <3> QED
      BY <1>2, <2>2, <3>1, <3>2, ExpectedRuns
  <2>3. CASE g # f
    BY <1>2, <1>3, <2>1, <2>3 DEF TableInv
  <2> QED
    BY <2>2, <2>3
<1>6. ScaleInv'
  <2>1. "multiplier" \in Fields /\ "divisor" \in Fields
    BY DEF Fields
  <2>2. stage \in {"detect", "wfxt", "scale"}
    BY DEF StageInv
  <2>3. f \in {"multiplier", "divisor"} => stage = "scale"
    <3>1. "multiplier" \notin Pointers /\ "divisor" \notin Pointers
      BY DEF Pointers, Slots, Narrow, Wide, Types
    <3> QED
      BY <2>2, <3>1 DEF StageInv
  <2>4. cpu.arch = "other" => f \notin {"multiplier", "divisor"}
    BY DEF ScaleInv
  <2> QED
    BY <1>2, <1>3, <2>1, <2>2, <2>3, <2>4
    DEF ScaleInv, Multiplier, GoodDivisor, KnownRate, TellsFrequency, Cpuid
<1>7. CallInv'
  BY CallsKept
<1> QED
  BY <1>1, <1>4, <1>5, <1>6, <1>7

-----------------------------------------------------------------------------
(* The steps of a wait. *)

\* What is known of a call, to be shown of the thread that takes a step.
CallOK(c) ==
  /\ c = [f \in CallFields |-> c[f]]
  /\ c.slot \in Slots
  /\ c.impl \in Executable(cpu)
  /\ c.after => inited
  /\ c.after /\ c.impl = "spin" => Spins(c.slot)
  /\ c.asked \in Nat
  /\ c.after /\ c.at = "convert" =>
       /\ c.multiplier \in {0, Multiplier}
       /\ c.divisor = 0 \/ GoodDivisor(c.divisor)
  /\ c.at = "wait" /\ c.slot \in Timed /\ c.after =>
       /\ c.fits => c.lasts >= (c.asked * KnownRate) \div Second
       /\ TellsFrequency /\ c.asked # 0 => c.lasts * Second < 2 * c.asked * cpu.rate

LEMMA CallStep ==
  ASSUME FInv, NEW t \in Threads, NEW c, CallOK(c),
         call' = [call EXCEPT ![t] = c], UNCHANGED <<initVars, calVars>>
  PROVE  FInv'
<1> USE DEF FInv, initVars, calVars, vars
<1>1. IInv' /\ (stage' # "calibrate" => pc' = "rdtsc_start" /\ i' = 0 /\ rdtscMin' = Longest)
  BY DEF IInv, TypeOK, CountCoversClock, RoundIsLong, RoundsLeft, NeverTooFew
<1> HIDE DEF calVars, vars
<1>2. StageInv' /\ TableInv' /\ ScaleInv'
  <2>1. StageInv'
    BY DEF StageInv, Exists, TellsFrequency, Cpuid
  <2>2. TableInv'
    BY DEF TableInv, Expected, Base, Executable, Spins, HasMonitorx, HasWaitpkg, Cpuid
  <2>3. ScaleInv'
    BY DEF ScaleInv, TellsFrequency, Cpuid, Multiplier, GoodDivisor, KnownRate
  <2> QED
    BY <2>1, <2>2, <2>3
<1>3. CallInv'
  <2>1. \A u \in Threads : CallOK(call'[u])
    <3> SUFFICES ASSUME NEW u \in Threads PROVE CallOK(call'[u])
      OBVIOUS
    <3>1. CASE u = t
      BY <3>1
    <3>2. CASE u # t
      <4>1. call'[u] = call[u]
        BY <3>2
      <4>2. CallOK(call[u])
        BY DEF CallInv, CallOK, Deadlined
      <4> QED
        BY <4>1, <4>2
    <3> QED
      BY <3>1, <3>2
  <2>2. ASSUME NEW u \in Threads PROVE CallOK(call[u])'
    <3>1. CallOK(call'[u])
      BY <2>1
    <3> QED
      BY <3>1
      DEF CallOK, Executable, Spins, Multiplier, GoodDivisor, KnownRate, TellsFrequency, Cpuid
  <2> QED
    BY <2>2 DEF CallInv, CallOK, Deadlined
<1>4. call' = [u \in Threads |-> call'[u]]
  OBVIOUS
<1> QED
  BY <1>1, <1>2, <1>3, <1>4

LEMMA OldCallOK == ASSUME FInv, NEW t \in Threads PROVE CallOK(call[t])
BY DEF FInv, CallInv, CallOK, Deadlined

\* The deadline of a call that began after init.
LEMMA LastsLongEnough ==
  ASSUME FInv, NEW n \in Nat, NEW m, NEW d, NEW begin \in Begins,
         m = Multiplier, GoodDivisor(d)
  PROVE  LET total == CyclesFor(n, m, d)
             end == (begin + total) % Word
             lasts == IF end > begin THEN end - begin ELSE 0
         IN /\ n * m < Word /\ begin + total < Word => lasts >= (n * KnownRate) \div Second
            /\ TellsFrequency /\ n # 0 => lasts * Second < 2 * n * cpu.rate
<1> DEFINE product == (n * m) % Word
           total == product \div d
           end == (begin + total) % Word
           lasts == IF end > begin THEN end - begin ELSE 0
<1>1. cpu.rate \in Nat \ {0} /\ KnownRate \in Nat
  BY CpuFacts, KnownRateFacts DEF FInv
<1>2. Word \in Nat \ {0} /\ begin \in Nat
  BY FeaturesAssumption
<1>3. Second \in Nat \ {0}
  BY CalibrateAssumption
<1>4. m \in Nat /\ d \in Nat \ {0} /\ d * KnownRate <= m * Second
      /\ (TellsFrequency => Second * m < 2 * (d * cpu.rate))
  BY FeaturesAssumption DEF GoodDivisor, Multiplier
<1>5. n * m \in Nat
  BY <1>4
<1>6. product \in Nat /\ product <= n * m /\ (n * m < Word => product = n * m)
  BY <1>2, <1>5, ModFacts
<1> HIDE DEF product
<1>7. total \in Nat
  BY <1>4, <1>6
<1>8. ASSUME n * m < Word, begin + total < Word PROVE lasts >= (n * KnownRate) \div Second
  <2>1. total = (n * m) \div d
    BY <1>6, <1>8
  <2>2. total >= (n * KnownRate) \div Second
    BY <1>1, <1>3, <1>4, <2>1, ScaledNotShort
  <2> HIDE DEF total
  <2>3. end = begin + total
    BY <1>2, <1>7, <1>8, ModFacts
  <2>4. lasts = total
    BY <1>2, <1>7, <2>3
  <2> QED
    BY <2>2, <2>4
<1>9. ASSUME TellsFrequency, n # 0 PROVE lasts * Second < 2 * n * cpu.rate
  <2>1. total * Second < 2 * n * cpu.rate
    BY <1>1, <1>3, <1>4, <1>6, <1>9, ScaledNotDouble
  <2> HIDE DEF total
  <2>2. end \in Nat /\ end <= begin + total
    BY <1>2, <1>7, ModFacts
  <2>3. lasts \in Nat /\ lasts <= total
    BY <1>2, <1>7, <2>2
  <2> HIDE DEF lasts
  <2>4. lasts * Second <= total * Second
    BY <1>3, <1>7, <2>3
  <2>5. lasts * Second \in Nat /\ total * Second \in Nat /\ 2 * n * cpu.rate \in Nat
    BY <1>1, <1>3, <1>7, <2>3
  <2> QED
    BY <2>1, <2>4, <2>5
<1> QED
  BY <1>8, <1>9 DEF CyclesFor, product

LEMMA WaitInv == ASSUME FInv, NEW t \in Threads, Wait(t) PROVE FInv'
<1>1. ASSUME NEW slot \in Slots, NEW ns \in Nat, Call(t, slot, ns) PROVE FInv'
  <2> DEFINE c == [Idle EXCEPT !.at = IF slot \in Timed THEN "convert" ELSE "wait",
                               !.slot = slot, !.impl = features[slot], !.asked = ns,
                               !.after = inited]
  <2>1. call' = [call EXCEPT ![t] = c] /\ UNCHANGED <<initVars, calVars>>
    BY <1>1 DEF Call
  <2>2. /\ c.slot = slot /\ c.impl = features[slot] /\ c.asked = ns /\ c.after = inited
        /\ c.multiplier = 0 /\ c.divisor = 0
        /\ c.at = IF slot \in Timed THEN "convert" ELSE "wait"
    BY DEF Idle
  <2>5. c = [f \in CallFields |-> c[f]]
    BY DEF Idle, CallFields
  <2>3. features[slot] \in Executable(cpu) /\ (inited /\ features[slot] = "spin" => Spins(slot))
    BY DEF FInv, TableInv, Pointers
  <2> HIDE DEF c
  <2>4. CallOK(c)
    BY <1>1, <2>2, <2>3, <2>5 DEF CallOK
  <2> QED
    BY <2>1, <2>4, CallStep
<1>2. ASSUME NEW f \in {"multiplier", "divisor"}, Load(t, f) PROVE FInv'
  <2> DEFINE c == [call[t] EXCEPT ![f] = features[f]]
  <2>1. call' = [call EXCEPT ![t] = c] /\ UNCHANGED <<initVars, calVars>>
    BY <1>2 DEF Load
  <2>2. /\ c = [g \in CallFields |-> c[g]]
        /\ c[f] = features[f]
        /\ \A g \in CallFields \ {f} : c[g] = call[t][g]
    BY OldCallOK DEF CallOK, CallFields
  <2>3. call[t].after => inited
    BY OldCallOK DEF CallOK
  <2>4. inited => features["multiplier"] = Multiplier /\ GoodDivisor(features["divisor"])
    BY DEF FInv, ScaleInv
  <2>5. call[t].at = "convert"
    BY <1>2 DEF Load
  <2> HIDE DEF c
  <2>6. CallOK(c)
    BY <2>2, <2>3, <2>4, <2>5, OldCallOK DEF CallOK, CallFields
  <2> QED
    BY <2>1, <2>6, CallStep
<1>3. ASSUME NEW begin \in Begins, SetDeadline(t, begin) PROVE FInv'
  <2> DEFINE o == call[t]
             total == CyclesFor(o.asked, o.multiplier, o.divisor)
             end == (begin + total) % Word
             lasts == IF end > begin THEN end - begin ELSE 0
             fits == o.asked * o.multiplier < Word /\ begin + total < Word
             c == [o EXCEPT !.at = "wait", !.multiplier = 0, !.divisor = 0,
                            !.lasts = lasts, !.fits = fits]
  <2>1. call' = [call EXCEPT ![t] = c] /\ UNCHANGED <<initVars, calVars>>
    BY <1>3 DEF SetDeadline
  <2>2. o.at = "convert" /\ o.multiplier # 0 /\ o.divisor # 0
    BY <1>3 DEF SetDeadline
  <2>3. CallOK(o)
    BY OldCallOK
  <2>4. o.after =>
          /\ fits => lasts >= (o.asked * KnownRate) \div Second
          /\ TellsFrequency /\ o.asked # 0 => lasts * Second < 2 * o.asked * cpu.rate
    BY <2>2, <2>3, LastsLongEnough DEF CallOK
  <2> HIDE DEF lasts, fits
  <2>5. /\ c = [g \in CallFields |-> c[g]]
        /\ c.at = "wait" /\ c.lasts = lasts /\ c.fits = fits
        /\ \A g \in CallFields \ {"at", "multiplier", "divisor", "lasts", "fits"} : c[g] = o[g]
    BY <2>3 DEF CallOK, CallFields
  <2> HIDE DEF c, o
  <2>6. CallOK(c)
    BY <2>3, <2>4, <2>5 DEF CallOK, CallFields
  <2> QED
    BY <2>1, <2>6, CallStep
<1>4. ASSUME Return(t) PROVE FInv'
  <2>1. CallOK(Idle)
    BY DEF CallOK, CallFields, Idle, Slots, Narrow, Executable
  <2> QED
    BY <1>4, <2>1, CallStep DEF Return
<1>5. Timeouts \subseteq Nat
  BY FeaturesAssumption
<1>6. CASE \E slot \in Slots \ Timed : Call(t, slot, 0)
  BY <1>1, <1>6
<1>7. CASE \E slot \in Timed, ns \in Timeouts : Call(t, slot, ns)
  <2>1. Timed \subseteq Slots
    BY DEF Timed, Slots, Narrow, Wide
  <2> QED
    BY <1>1, <1>5, <1>7, <2>1
<1> QED
  BY <1>2, <1>3, <1>4, <1>6, <1>7 DEF Wait

-----------------------------------------------------------------------------
LEMMA FNextInv == FInv /\ [FNext]_featuresVars => FInv'
<1> SUFFICES ASSUME FInv, [FNext]_featuresVars PROVE FInv'
  OBVIOUS
<1>1. CASE UNCHANGED featuresVars
  <2>1. /\ UNCHANGED <<cpu, features, pending, stage, inited, call>>
        /\ UNCHANGED <<pc, now, start, cycles, rdtscMin, i>>
    BY <1>1 DEF featuresVars, initVars, calVars, vars
  <2>2. IInv /\ StageInv /\ TableInv /\ ScaleInv /\ CallInv
    BY DEF FInv
  <2>3. IInv'
    BY <2>1, <2>2 DEF IInv, TypeOK, CountCoversClock, RoundIsLong, RoundsLeft, NeverTooFew
  <2>4. StageInv'
    BY <2>1, <2>2 DEF StageInv, Exists, TellsFrequency, Cpuid
  <2>5. TableInv'
    BY <2>1, <2>2 DEF TableInv, Expected, Base, Executable, Spins, HasMonitorx, HasWaitpkg, Cpuid
  <2>6. ScaleInv'
    BY <2>1, <2>2 DEF ScaleInv, TellsFrequency, Cpuid, Multiplier, GoodDivisor, KnownRate
  <2>7. CallInv'
    BY <2>1, <2>2, CallsKept
  <2> QED
    BY <2>1, <2>3, <2>4, <2>5, <2>6, <2>7 DEF FInv
<1> QED
  BY <1>1, DetectInv, DetectWfxtInv, FrequencyInv, CalibrationInv, MeasuredInv, InitReturnsInv,
     StoreInv, WaitInv
  DEF FNext

LEMMA FInvariance == FSpec => []FInv
  BY FInitInv, FNextInv, PTL DEF FSpec

(* Within wfe_mutex_init, however often it is called, the calibration      *)
(* keeps its promise: no measured count is below a millisecond's.          *)
THEOREM CalibratesInInit == FSpec => []NeverTooFew
<1>1. FInv => NeverTooFew
  BY DEF FInv, IInv
<1> QED
  BY <1>1, FInvariance, PTL

(* The calibration's variables keep their types there too: its locals      *)
(* start anew with each call of wfe_mutex_init.                            *)
THEOREM TypesInInit == FSpec => []TypeOK
<1>1. FInv => TypeOK
  BY DEF FInv, IInv
<1> QED
  BY <1>1, FInvariance, PTL

(* While init fills the table, and fills it again, in whatever order its   *)
(* stores are seen, a wait loads a function of this processor.             *)
THEOREM WaitsRunHere == FSpec => []RunsHere
  BY FInvariance, FInvImplies, PTL

(* After the first init no wait loads a spin loop where the processor has  *)
(* something better, not even while a second init stores the table again.  *)
THEOREM NeverBackToSpinning == FSpec => []NeverSpinsAgain
  BY FInvariance, FInvImplies, PTL

(* The names of the backends are right whenever init is not running.       *)
THEOREM NamesAreRight == FSpec => []TypesNameFunctions
  BY FInvariance, FInvImplies, PTL

(* For every frequency, told or measured by whatever rounds, and every     *)
(* timeout that fits in a word, a wait is at least as long as asked: of a  *)
(* told frequency to the cycle, of a measured one to the whole kilohertz   *)
(* below it, as a count of the cycles in a millisecond gives it.           *)
THEOREM TimeoutsKeepScale == FSpec => []NeverShort
  BY FInvariance, FInvImplies, PTL

(* Where the frequency is told, no timeout becomes twice as long by the    *)
(* rounding of the divisor, nor by the wrapping of product and deadline.   *)
THEOREM TimeoutsNotDoubled == FSpec => []NeverTwiceAsLong
  BY FInvariance, FInvImplies, PTL

-----------------------------------------------------------------------------
(***************************************************************************)
(* USAGE.md:63 for those timeouts for which it is true.  Its hypothesis is *)
(* about what is asked and when, not about what the conversion makes of    *)
(* it: a timeout times the scale, and the counter, together fit in a word. *)
(***************************************************************************)
Modest == \A ns \in Timeouts, begin \in Begins : begin + ns * Scale < Word

\* Every deadline of a call that began after init fits.
AllFit ==
  \A t \in Threads :
    /\ call[t].asked \in Timeouts \cup {0}
    /\ call[t].at = "convert" => call[t].asked \in Timeouts
    /\ Deadlined(t) => call[t].fits

\* A product and the deadline made of it do not exceed those of the scale.
LEMMA ModestFits ==
  ASSUME FInv, Modest, NEW n \in Timeouts, NEW m, NEW d, NEW begin \in Begins,
         m = Multiplier, GoodDivisor(d)
  PROVE  n * m < Word /\ begin + CyclesFor(n, m, d) < Word
<1>1. n \in Nat /\ begin \in Nat /\ Scale \in Nat \ {0} /\ Word \in Nat \ {0}
  BY FeaturesAssumption
<1>2. m \in {1, Scale} /\ d \in Nat \ {0}
  BY DEF Multiplier, GoodDivisor
<1>3. n * m \in Nat /\ n * m <= n * Scale /\ n * Scale \in Nat
  BY <1>1, <1>2
<1>4. begin + n * Scale < Word
  BY DEF Modest
<1> DEFINE product == n * m
           total == product \div d
<1>5. product < Word /\ product \in Nat
  BY <1>1, <1>3, <1>4
<1>6. product % Word = product
  BY <1>1, <1>5, ModFacts
<1>7. begin + product < Word
  BY <1>1, <1>3, <1>4
<1> HIDE DEF product
<1>8. total \in Nat /\ total <= product
  BY <1>2, <1>5
<1>9. begin + total < Word
  BY <1>1, <1>5, <1>7, <1>8
<1> QED
  BY <1>5, <1>6, <1>9 DEF product, CyclesFor

LEMMA AllFitKept ==
  ASSUME Modest, FInv, AllFit, [FNext]_featuresVars
  PROVE  AllFit'
<1>1. ASSUME UNCHANGED call PROVE AllFit'
  BY <1>1 DEF AllFit, Deadlined
<1>2. ASSUME NEW t \in Threads, NEW c, call' = [call EXCEPT ![t] = c],
             c.asked \in Timeouts \cup {0},
             c.at = "convert" => c.asked \in Timeouts,
             c.at = "wait" /\ c.slot \in Timed /\ c.after => c.fits
      PROVE  AllFit'
  <2>1. call' = [u \in Threads |-> IF u = t THEN c ELSE call[u]]
    BY <1>2 DEF FInv
  <2> QED
    BY <1>2, <2>1 DEF AllFit, Deadlined
<1>3. ASSUME NEW t \in Threads, NEW slot \in Slots, NEW ns \in Timeouts \cup {0},
             slot \in Timed => ns \in Timeouts, Call(t, slot, ns)
      PROVE  AllFit'
  <2> DEFINE c == [Idle EXCEPT !.at = IF slot \in Timed THEN "convert" ELSE "wait",
                               !.slot = slot, !.impl = features[slot], !.asked = ns,
                               !.after = inited]
  <2>1. call' = [call EXCEPT ![t] = c]
    BY <1>3 DEF Call
  <2>2. c.slot = slot /\ c.asked = ns /\ c.at = IF slot \in Timed THEN "convert" ELSE "wait"
    BY DEF Idle
  <2> HIDE DEF c
  <2> QED
    BY <1>2, <1>3, <2>1, <2>2
<1>4. ASSUME NEW t \in Threads, NEW f \in {"multiplier", "divisor"}, Load(t, f)
      PROVE  AllFit'
  <2> DEFINE c == [call[t] EXCEPT ![f] = features[f]]
  <2>1. call' = [call EXCEPT ![t] = c] /\ call[t].at = "convert"
    BY <1>4 DEF Load
  <2>2. c.at = call[t].at /\ c.asked = call[t].asked
    BY OldCallOK DEF CallOK, CallFields
  <2> HIDE DEF c
  <2> QED
    BY <1>2, <2>1, <2>2 DEF AllFit
<1>5. ASSUME NEW t \in Threads, NEW begin \in Begins, SetDeadline(t, begin) PROVE AllFit'
  <2> DEFINE o == call[t]
             total == CyclesFor(o.asked, o.multiplier, o.divisor)
             end == (begin + total) % Word
             lasts == IF end > begin THEN end - begin ELSE 0
             fits == o.asked * o.multiplier < Word /\ begin + total < Word
             c == [o EXCEPT !.at = "wait", !.multiplier = 0, !.divisor = 0,
                            !.lasts = lasts, !.fits = fits]
  <2>1. /\ call' = [call EXCEPT ![t] = c]
        /\ o.at = "convert" /\ o.multiplier # 0 /\ o.divisor # 0
    BY <1>5 DEF SetDeadline
  <2>2. CallOK(o)
    BY OldCallOK
  <2>3. o.asked \in Timeouts
    BY <2>1 DEF AllFit
  <2>4. o.after => fits
    BY <2>1, <2>2, <2>3, ModestFits DEF CallOK
  <2> HIDE DEF lasts, fits
  <2>5. c.at = "wait" /\ c.fits = fits /\ c.asked = o.asked /\ c.after = o.after
    BY <2>2 DEF CallOK, CallFields
  <2> HIDE DEF c, o
  <2> QED
    BY <1>2, <2>1, <2>3, <2>4, <2>5
<1>6. ASSUME NEW t \in Threads, Return(t) PROVE AllFit'
  BY <1>2, <1>6 DEF Return, Idle
<1>7. Timed \subseteq Slots
  BY DEF Timed, Slots, Narrow, Wide
<1>8. ASSUME NEW t \in Threads, Wait(t) PROVE AllFit'
  BY <1>3, <1>4, <1>5, <1>6, <1>7, <1>8 DEF Wait
<1>9. CASE UNCHANGED featuresVars
  BY <1>1, <1>9 DEF featuresVars
<1> QED
  BY <1>1, <1>8, <1>9
  DEF FNext, Detect, DetectWfxt, Frequency, StartCalibration, Calibration, Measured,
      InitReturns, Store

(* A timeout that was given after init is never cut short, as far as the   *)
(* frequency is known, if its product with the scale and the counter fit   *)
(* in a word: with the scale of 10000, ten days on a counter that is below *)
(* 2^63, 97 years at 3 GHz.                                                *)
THEOREM ModestTimeoutsHonoured ==
  ASSUME Modest
  PROVE  FSpec => []TimeoutHonoured
<1>1. FInit => AllFit
  BY DEF FInit, AllFit, Idle, Deadlined
<1>2. FInv /\ AllFit /\ [FNext]_featuresVars => AllFit'
  BY AllFitKept
<1>3. FInv /\ AllFit => TimeoutHonoured
  BY FInvImplies DEF AllFit, NeverShort, TimeoutHonoured
<1> QED
  BY <1>1, <1>2, <1>3, FInvariance, PTL DEF FSpec
=============================================================================
