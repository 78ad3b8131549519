------------------------------ MODULE Features ------------------------------
(***************************************************************************)
(* wfe_mutex_init and the table it fills, Features (src/detect.c), used by *)
(* threads that wait while it runs.  The table holds a wait function for   *)
(* each operation and width, the names of the backend, and the scale from  *)
(* nanoseconds to cycles (src/detect.h).  Nothing orders its plain stores  *)
(* for the threads that read it, so those of a stage of init are seen one  *)
(* by one in any order.                                                    *)
(*                                                                         *)
(* Calibrate is the part of init that measures the counter where the       *)
(* processor does not tell its frequency.  A tick of its clock is a        *)
(* nanosecond here.  The code treats the widths below 64 bits alike, and   *)
(* all the waits without a timeout: i32 and value stand for them.          *)
(***************************************************************************)
EXTENDS Calibrate, Functions

CONSTANTS Threads,
          Scale,      \* 10000 in the code
          Word,       \* 2^64
          Rates,      \* true frequencies of cycle counters
          Junk,       \* what cpuid may answer for a leaf it does not know
          Timeouts,   \* bound: the nanoseconds asked for
          Begins      \* bound: the counter when a timed wait begins

PerSecond == Second \div Millisecond  \* 1000 in the code

ASSUME FeaturesAssumption ==
  /\ Scale \in Nat \ {0}
  /\ Word \in Nat \ {0}
  /\ Rates \subseteq 1..(Second * Scale)   (* the divisor is not zero   *)
  /\ Junk \subseteq BOOLEAN
  /\ Timeouts \subseteq 0..(Word - 1)
  /\ Begins \subseteq 0..(Word - 1)
  /\ Second = PerSecond * Millisecond
  (* One round in five is not interrupted for seconds: no divisor of zero. *)
  /\ \A rate \in Rates :
       ((Longest * rate + Second - 1) \div Second) * PerSecond <= Second * Scale

VARIABLES cpu,       \* the processor
          features,  \* the table
          pending,   \* stores of init that are not yet seen
          stage,     \* of init
          inited,    \* init has returned once
          call       \* each thread's wait

initVars == <<cpu, features, pending, stage, inited>>
calVars == vars
featuresVars == <<initVars, call, calVars>>

Narrow == {"value_i32", "timeout_i32"}
Wide == {"value_i64", "timeout_i64"}
Slots == Narrow \cup Wide
Timed == {"timeout_i32", "timeout_i64"}
Types == {"wait_type", "wait_type_timeout"}
Fields == Slots \cup Types \cup {"cycle_hz", "multiplier", "divisor"}

(***************************************************************************)
(* A processor: its features, whether it tells the frequency of its        *)
(* counter, the largest leaves cpuid knows, and the bit that cpuid answers *)
(* for a leaf beyond them.  A counter that must be measured has at least a *)
(* cycle in a millisecond; that of other architectures is the clock.       *)
(***************************************************************************)
Processor ==
  [arch : {"x86"}, limit : {6, 7, 21}, extended : BOOLEAN, junk : Junk,
   monitorx : BOOLEAN, waitpkg : BOOLEAN, wfxt : {FALSE}, told : BOOLEAN,
   rate : Rates]
  \cup
  [arch : {"arm64", "arm32"}, limit : {0}, extended : {FALSE},
   junk : {FALSE}, monitorx : {FALSE}, waitpkg : {FALSE}, wfxt : BOOLEAN,
   told : {TRUE}, rate : Rates]
  \cup
  [arch : {"other"}, limit : {0}, extended : {FALSE},
   junk : {FALSE}, monitorx : {FALSE}, waitpkg : {FALSE}, wfxt : {FALSE},
   told : {TRUE}, rate : {Second}]

Exists(p) ==
  /\ p.monitorx => p.extended
  /\ p.waitpkg => p.limit >= 7
  /\ p.arch = "x86" /\ p.told => p.limit >= 21
  /\ ~p.told => p.rate >= PerSecond
  /\ p.wfxt => p.arch = "arm64"

\* The wait functions a processor can execute.
Executable(p) ==
  {"spin"}
  \cup (IF p.monitorx THEN {"mwaitx"} ELSE {})
  \cup (IF p.waitpkg THEN {"waitpkg"} ELSE {})
  \cup (IF p.arch \in {"arm64", "arm32"} THEN {"wfe"} ELSE {})
  \cup (IF p.wfxt THEN {"wfet"} ELSE {})

-----------------------------------------------------------------------------
(* The steps of wfe_mutex_init. *)

Uninitialised ==
  [f \in Fields |-> IF f \in Slots \cup Types THEN "spin"
                    ELSE IF f = "cycle_hz" THEN 0 ELSE 1]

Idle == [at |-> "idle", slot |-> "value_i32", impl |-> "spin", asked |-> 0,
         multiplier |-> 0, divisor |-> 0, after |-> FALSE, lasts |-> 0,
         fits |-> TRUE]

FInit ==
  /\ Init
  /\ now = 0
  /\ cpu \in {p \in Processor : Exists(p)}
  /\ features = Uninitialised
  /\ pending = << >>
  /\ stage = "idle"
  /\ inited = FALSE
  /\ call = [t \in Threads |-> Idle]

\* What cpuid says of a feature whose leaf the processor may not know.
Cpuid(known, bit) == IF known THEN bit ELSE cpu.junk

HasMonitorx == cpu.extended /\ Cpuid(cpu.extended, cpu.monitorx)

\* Mutant: asks for leaf 7 without a look at the limit.
HasWaitpkgUnlimited == Cpuid(cpu.limit >= 7, cpu.waitpkg)

HasWaitpkg == cpu.limit >= 7 /\ Cpuid(cpu.limit >= 7, cpu.waitpkg)

TellsFrequency ==
  \/ cpu.arch # "x86"
  \/ cpu.limit >= 21 /\ Cpuid(cpu.limit >= 21, cpu.told)

Fill(fields, backend) == [f \in fields |-> backend]

\* Mutant: a first draft of the ARM table, without a 64-bit wait.
DetectedSome ==
  CASE cpu.arch = "arm64" -> Fill(Types \cup (Slots \ {"value_i64"}), "wfe")
    [] cpu.arch = "arm32" -> Fill(Types \cup Narrow, "wfe")
    [] HasMonitorx -> Fill(Types \cup Slots, "mwaitx")
    [] ~HasMonitorx /\ HasWaitpkg -> Fill(Types \cup Slots, "waitpkg")
    [] OTHER -> << >>

\* What detect() stores.
Detected ==
  CASE cpu.arch = "arm64" -> Fill(Types \cup Slots, "wfe")
    [] cpu.arch = "arm32" -> Fill(Types \cup Narrow, "wfe")
    [] HasMonitorx -> Fill(Types \cup Slots, "mwaitx")
    [] ~HasMonitorx /\ HasWaitpkg -> Fill(Types \cup Slots, "waitpkg")
    [] OTHER -> << >>

\* Mutant: init starts from a clean table.
DetectClean ==
  /\ stage = "idle"
  /\ stage' = "detect"
  /\ pending' = Detected
  /\ features' = Uninitialised
  /\ UNCHANGED <<cpu, inited, call, calVars>>

Detect ==
  /\ stage = "idle"
  /\ stage' = "detect"
  /\ pending' = Detected
  /\ UNCHANGED <<cpu, features, inited, call, calVars>>

\* A store of init is seen.
Store(f) ==
  /\ features' = [features EXCEPT ![f] = pending[f]]
  /\ pending' = Restrict(pending, DOMAIN pending \ {f})
  /\ UNCHANGED <<cpu, stage, inited, call, calVars>>

Stored(s) == stage = s /\ DOMAIN pending = {}

\* The second half of detect() on ARM: waits with a timeout of their own.
DetectWfxt ==
  /\ Stored("detect")
  /\ cpu.wfxt
  /\ stage' = "wfxt"
  /\ pending' = Fill(Timed \cup {"wait_type_timeout"}, "wfet")
  /\ UNCHANGED <<cpu, features, inited, call, calVars>>

\* Mutant: the divisor is rounded up.
DivisorUp(n, hz) == (n + hz - 1) \div hz

Divisor(n, hz) == n \div hz

\* Mutant: the dividend is not scaled as the multiplier is.
ScaleForUnscaled(hz) ==
  [cycle_hz |-> hz, multiplier |-> Scale, divisor |-> Divisor(Second, hz)]

\* The scale of a counter, and whether it is the fine one.
ScaleFor(hz) ==
  IF cpu.arch = "x86" \/ hz > Second
  THEN [cycle_hz |-> hz, multiplier |-> Scale, divisor |-> Divisor(Second * Scale, hz)]
  ELSE [cycle_hz |-> hz, multiplier |-> 1, divisor |-> Divisor(Second, hz)]

DetectDone == Stored("wfxt") \/ (Stored("detect") /\ ~cpu.wfxt)

Frequency ==
  /\ DetectDone
  /\ TellsFrequency
  /\ stage' = "scale"
  /\ pending' = IF cpu.arch = "other" THEN << >> ELSE ScaleFor(cpu.rate)
  /\ UNCHANGED <<cpu, features, inited, call, calVars>>

StartCalibration ==
  /\ DetectDone
  /\ ~TellsFrequency
  /\ stage' = "calibrate"
  /\ now' \in 0..(Second - 1)
  /\ UNCHANGED <<cpu, features, pending, inited, call>>
  /\ UNCHANGED <<pc, start, cycles, rdtscMin, i>>

Calibration ==
  /\ stage = "calibrate"
  /\ pc # "done"
  /\ Next
  /\ UNCHANGED <<initVars, call>>

\* What two reads of the counter differ by: the whole cycles between them,
\* one more or less as the first of them falls within a cycle.
Counts(ticks) ==
  {(ticks * cpu.rate) \div Second, (ticks * cpu.rate + Second - 1) \div Second}

\* The frequency of a counter that was measured; the locals go.
Measured ==
  /\ stage = "calibrate"
  /\ pc = "done"
  /\ stage' = "scale"
  /\ \E count \in Counts(rdtscMin) : pending' = ScaleFor(count * PerSecond)
  /\ pc' = "rdtsc_start" /\ now' = 0 /\ start' = 0 /\ cycles' = 0
  /\ rdtscMin' = Longest /\ i' = 0
  /\ UNCHANGED <<cpu, features, inited, call>>

InitReturns ==
  /\ Stored("scale")
  /\ stage' = "idle"
  /\ inited' = TRUE
  /\ UNCHANGED <<cpu, features, pending, call, calVars>>

-----------------------------------------------------------------------------
(* A wait: the inline function loads a pointer and calls it; with a        *)
(* timeout, the wait function turns it into a deadline.                    *)

Call(t, slot, ns) ==
  /\ call[t].at = "idle"
  /\ call' = [call EXCEPT ![t] =
       [Idle EXCEPT !.at = IF slot \in Timed THEN "convert" ELSE "wait",
                    !.slot = slot, !.impl = features[slot], !.asked = ns,
                    !.after = inited]]
  /\ UNCHANGED <<initVars, calVars>>

\* The two loads of the conversion, in the order the compiler likes.
Load(t, f) ==
  /\ call[t].at = "convert"
  /\ call[t][f] = 0
  /\ call' = [call EXCEPT ![t][f] = features[f]]
  /\ UNCHANGED <<initVars, calVars>>

\* Mutant: divides first.
CyclesForDivided(ns, mul, div) == (ns \div div) * mul

\* wfe_mutex_detect_calculate_cycles_for_nanoseconds.
CyclesFor(ns, mul, div) == ((ns * mul) % Word) \div div

\* The deadline, and the cycles until the counter is past it.
SetDeadline(t, begin) ==
  LET c == call[t]
      total == CyclesFor(c.asked, c.multiplier, c.divisor)
      end == (begin + total) % Word
  IN /\ c.at = "convert"
     /\ c.multiplier # 0 /\ c.divisor # 0
     /\ call' = [call EXCEPT ![t] =
          [c EXCEPT !.at = "wait", !.multiplier = 0, !.divisor = 0,
                    !.lasts = IF end > begin THEN end - begin ELSE 0,
                    !.fits = c.asked * c.multiplier < Word /\ begin + total < Word]]
     /\ UNCHANGED <<initVars, calVars>>

Return(t) ==
  /\ call[t].at = "wait"
  /\ call' = [call EXCEPT ![t] = Idle]
  /\ UNCHANGED <<initVars, calVars>>

Wait(t) ==
  \/ \E slot \in Slots \ Timed : Call(t, slot, 0)
  \/ \E slot \in Timed, ns \in Timeouts : Call(t, slot, ns)
  \/ \E f \in {"multiplier", "divisor"} : Load(t, f)
  \/ \E begin \in Begins : SetDeadline(t, begin)
  \/ Return(t)

FNext ==
  \/ Detect \/ DetectWfxt \/ Frequency \/ StartCalibration \/ Calibration
  \/ Measured \/ InitReturns
  \/ \E f \in DOMAIN pending : Store(f)
  \/ \E t \in Threads : Wait(t)

FSpec == FInit /\ [][FNext]_featuresVars

-----------------------------------------------------------------------------
(* Properties. *)

(* A wait loads a pointer while init stores the table, and never one to a  *)
(* function of instructions this processor does not have.                  *)
RunsHere == \A t \in Threads : call[t].impl \in Executable(cpu)

(* USAGE.md:52: init is called, "otherwise only spin-locks are used".      *)
(* After it no wait spins on a processor that can sleep, not even while    *)
(* init runs again.  On 32-bit ARM the 64-bit waits still do.              *)
NeverSpinsAgain ==
  \A t \in Threads :
    call[t].after /\ call[t].impl = "spin"
      => \/ Executable(cpu) = {"spin"}
         \/ cpu.arch = "arm32" /\ call[t].slot \in Wide

(* Between calls of init the names in the table are those of the functions *)
(* that it holds.                                                          *)
TypesNameFunctions ==
  inited /\ stage = "idle" =>
    \A s \in IF cpu.arch = "arm32" THEN Narrow ELSE Slots :
      features[s] = features[IF s \in Timed THEN "wait_type_timeout" ELSE "wait_type"]

\* The frequency, as well as init can know it: a count of the cycles of a
\* millisecond gives it in whole kilohertz.
KnownRate == IF TellsFrequency THEN cpu.rate ELSE (cpu.rate \div PerSecond) * PerSecond

Deadlined(t) == call[t].at = "wait" /\ call[t].slot \in Timed /\ call[t].after

(* A timeout given after init is not cut short, but for the fraction of a  *)
(* kilohertz that a measured counter may have more than the code knows,    *)
(* although the scale is rounded twice, the shortest of five noisy rounds  *)
(* was taken, and another call of init may store the scale again while it  *)
(* is read: provided its product and its deadline fit in a word.           *)
NeverShort ==
  \A t \in Threads :
    Deadlined(t) /\ call[t].fits => call[t].lasts >= (call[t].asked * KnownRate) \div Second

(* Where the frequency is told, rounding the divisor down never doubles a  *)
(* timeout.                                                                *)
NeverTwiceAsLong ==
  \A t \in Threads :
    Deadlined(t) /\ TellsFrequency /\ call[t].asked # 0
      => call[t].lasts * Second < 2 * call[t].asked * cpu.rate

(* USAGE.md:63: a timedlock "Spins until acquired or timeout".  So no      *)
(* timeout that a caller can ask for is cut short, as far as the frequency *)
(* is known.                                                               *)
TimeoutHonoured ==
  \A t \in Threads :
    Deadlined(t) => call[t].lasts >= (call[t].asked * KnownRate) \div Second
=============================================================================
