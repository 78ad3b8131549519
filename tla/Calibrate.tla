----------------------------- MODULE Calibrate -----------------------------
(***************************************************************************)
(* How wfe_mutex_init finds the frequency of the x86 cycle counter when    *)
(* cpuid does not tell it (src/detect.c, detect_cycle_counter_frequency):  *)
(* five times it counts the cycles of a loop that is to last one           *)
(* millisecond, and keeps the smallest count.  The loop compares only the  *)
(* nanoseconds within the second, tv_nsec, of the monotonic clock.         *)
(*                                                                         *)
(* The cycle counter runs at a constant rate, so cycles are counted in the *)
(* ticks of the clock.  clock_gettime does not fail here: it is given a    *)
(* clock that exists and a valid address.                                  *)
(***************************************************************************)
EXTENDS Integers

CONSTANTS Second,        \* ticks in a second; tv_nsec is below it
          Millisecond,   \* ticks in a millisecond
          Rounds,        \* 5 in the code
          Longest        \* bound: cycle counts saturate here (~0ULL)

ASSUME CalibrateAssumption ==
  /\ Second \in Nat
  /\ Millisecond \in 1..Second    (* a part of a second               *)
  /\ Rounds \in Nat \ {0}
  /\ Longest \in Nat
  /\ Second <= Longest            (* no count of a round is cut short *)

VARIABLES pc,
          now,         \* tv_nsec of the monotonic clock
          start,       \* ts_start.tv_nsec
          cycles,      \* cycles since rdtsc_start, in a round
          rdtscMin,    \* rdtsc_min
          i            \* rounds done

vars == <<pc, now, start, cycles, rdtscMin, i>>

Init ==
  /\ pc = "rdtsc_start"
  /\ now \in 0..(Second - 1)
  /\ start = 0
  /\ cycles = 0
  /\ rdtscMin = Longest
  /\ i = 0

\* Time passes, between any two steps of the loop.
Tick ==
  /\ now' = IF now + 1 = Second THEN 0 ELSE now + 1
  /\ cycles' = IF pc = "rdtsc_start" \/ cycles = Longest THEN cycles ELSE cycles + 1
  /\ UNCHANGED <<pc, start, rdtscMin, i>>

RdtscStart ==
  /\ pc = "rdtsc_start"
  /\ cycles' = 0
  /\ pc' = "ts_start"
  /\ UNCHANGED <<now, start, rdtscMin, i>>

TsStart ==
  /\ pc = "ts_start"
  /\ start' = now
  /\ pc' = "loop"
  /\ UNCHANGED <<now, cycles, rdtscMin, i>>

\* Mutant: carries the end of the millisecond into the next second, and
\* forgets that the clock is still in this one.
ElapsedModulo == now >= (start + Millisecond) % Second

\* The loop reads the clock until this lets it go.
Elapsed == now >= start + Millisecond

LeaveLoop ==
  /\ pc = "loop"
  /\ Elapsed
  /\ pc' = "rdtsc_end"
  /\ UNCHANGED <<now, start, cycles, rdtscMin, i>>

\* Mutant: i <= 5.
RdtscEndOnceMore ==
  /\ pc = "rdtsc_end"
  /\ rdtscMin' = IF cycles <= rdtscMin THEN cycles ELSE rdtscMin
  /\ i' = i + 1
  /\ pc' = IF i = Rounds THEN "done" ELSE "rdtsc_start"
  /\ start' = 0 /\ cycles' = 0
  /\ UNCHANGED now

RdtscEnd ==
  /\ pc = "rdtsc_end"
  /\ rdtscMin' = IF cycles <= rdtscMin THEN cycles ELSE rdtscMin
  /\ i' = i + 1
  /\ pc' = IF i + 1 = Rounds THEN "done" ELSE "rdtsc_start"
  /\ start' = 0 /\ cycles' = 0
  /\ UNCHANGED now

Next == Tick \/ RdtscStart \/ TsStart \/ LeaveLoop \/ RdtscEnd

Spec == Init /\ [][Next]_vars

-----------------------------------------------------------------------------
(* Properties. *)

(* The types of the variables. *)
TypeOK ==
  /\ pc \in {"rdtsc_start", "ts_start", "loop", "rdtsc_end", "done"}
  /\ now \in 0..(Second - 1)
  /\ start \in 0..(Second - 1)
  /\ cycles \in 0..Longest
  /\ rdtscMin \in 0..Longest
  /\ i \in 0..Rounds

(* The count kept is never below a true millisecond's, though the loop     *)
(* looks at the nanoseconds only and may be descheduled across the end of  *)
(* a second: the frequency is underestimated by the fraction of a cycle in *)
(* a millisecond at most, which a count does not show.                     *)
NeverTooFew == rdtscMin >= Millisecond

(* detect.c:329: "Spin-loop until one millisecond has elapsed."  So once a *)
(* millisecond has elapsed the loop ends, and with it wfe_mutex_init.      *)
CalibrationEnds == <>(pc = "done")

(***************************************************************************)
(* Fairness: time passes and the thread runs.  LeaveLoop has strong        *)
(* fairness, so that the loop sees every clock value that keeps recurring: *)
(* scheduling alone never keeps it in.                                     *)
(***************************************************************************)
FairSpec ==
  /\ Spec
  /\ WF_vars(Tick) /\ WF_vars(RdtscStart) /\ WF_vars(TsStart) /\ WF_vars(RdtscEnd)
  /\ SF_vars(LeaveLoop)
=============================================================================
