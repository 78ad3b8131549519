---------------------------- MODULE MonitorWait ----------------------------
(***************************************************************************)
(* The wait functions (src/implementations*.c, *.cpp): wait_for_value,     *)
(* wait_for_bit_set, wait_for_bit_not_set, wait_for_value_timeout and      *)
(* wait_for_value_spurious_oneshot, on the five backends: a spin loop,     *)
(* ARM's WFE and WFET, and x86's umonitor/umwait (waitpkg) and             *)
(* monitorx/mwaitx.  Loads, reads of the clock and waiting instructions    *)
(* are steps of their own; other threads store to the word at any moment.  *)
(*                                                                         *)
(* The 8, 16, 32 and 64-bit variants are one function.  What is awaited is *)
(* a set of words: one value, or the words with a given bit set or clear.  *)
(* Deadlines are countdowns, so the cycle counter itself need not be kept. *)
(*                                                                         *)
(* seen and owed are history: the words memory has held since the call and *)
(* the part of the timeout that has not passed since.  "Mutant" marks      *)
(* slips no specification uses.                                            *)
(***************************************************************************)
EXTENDS Integers

CONSTANTS Waiters,    \* the waiting threads
          Bits,       \* the bits of the word
          Budgets,    \* timeouts the callers ask for, in cycles
          Backoff,    \* SPURIOUS_WAKEUP_CYCLES
          Clamp,      \* the largest 32-bit count, mwaitx's longest timer
          Backends,   \* the backends checked
          Kinds       \* the functions called

AllBackends == {"spin", "wfe", "wfet", "waitpkg", "mwaitx"}
AllKinds == {"value", "bit_set", "bit_not_set", "timeout", "oneshot"}

ASSUME WaitAssumption ==
  /\ Budgets \subseteq Nat             (* uint64_t, no larger than fits     *)
  /\ Backoff \in Nat                   (* 10000 in the code                 *)
  /\ Clamp \in Nat \ {0}               (* a timer can run                   *)
  /\ Backends \subseteq AllBackends    (* only what detect.c can choose     *)
  /\ Kinds \subseteq AllKinds          (* only functions the header has     *)

VARIABLES backend,    \* Features.wait_type, fixed by wfe_mutex_init
          mem,        \* the word
          armed,      \* whether each waiter's monitor is armed and untouched
          pc,         \* each waiter's next step
          kind, want, total,   \* the function called and its arguments
          left,       \* cycles to each waiter's deadline
          timer,      \* cycles left of mwaitx's own timer (cycles_remaining)
          result,     \* the last word loaded
          ok,         \* the boolean the last call returned
          seen, owed  \* history

vars == <<backend, mem, armed, pc, kind, want, total, left, timer, result, ok,
          seen, owed>>

-----------------------------------------------------------------------------
Words == SUBSET Bits    \* a word is the set of its bits that are 1

\* What a function of this kind can be asked to wait for.
Targets(k) ==
  CASE k = "bit_set" -> {{x \in Words : b \in x} : b \in Bits}
    [] k = "bit_not_set" -> {{x \in Words : b \notin x} : b \in Bits}
    [] OTHER -> {{x} : x \in Words}

Spin == backend = "spin"
Arm == backend \in {"wfe", "wfet"}
X86 == backend \in {"waitpkg", "mwaitx"}

\* The spin loop's oneshot is a timed wait of its own; the other backends'
\* oneshot executes its waiting instruction once.
Timed(w) == kind[w] = "timeout" \/ (Spin /\ kind[w] = "oneshot")
Cycles(w) == IF kind[w] = "timeout" THEN total[w] ELSE Backoff

\* Mutant: hands mwaitx the 64-bit count as it is.
Unclamped(n, m) == n
AtMost(n, m) == IF n <= m THEN n ELSE m
Down(n) == IF n = 0 THEN 0 ELSE n - 1

Goto(w, label) == pc' = [pc EXCEPT ![w] = label]
Args == <<backend, kind, want, total>>

\* The call returns the boolean b after a last look at the word v.
Finish(w, b, v) ==
  /\ Goto(w, "idle")
  /\ ok' = [ok EXCEPT ![w] = b]
  /\ result' = [result EXCEPT ![w] = v]
  /\ UNCHANGED timer

\* The call goes on, having seen v.
Continue(w, v, label) ==
  /\ Goto(w, label)
  /\ result' = [result EXCEPT ![w] = v]
  /\ UNCHANGED <<ok, timer>>
-----------------------------------------------------------------------------
(* Steps of the functions. *)

\* The spin loops take the clock first, the others look at the word first.
Call(w, k, s, n) ==
  /\ pc[w] = "idle"
  /\ kind' = [kind EXCEPT ![w] = k]
  /\ want' = [want EXCEPT ![w] = s]
  /\ total' = [total EXCEPT ![w] = n]
  /\ Goto(w, IF Spin /\ k \in {"timeout", "oneshot"} THEN "clock" ELSE "load")
  /\ seen' = [seen EXCEPT ![w] = {mem}]
  /\ owed' = [owed EXCEPT ![w] = n]
  /\ UNCHANGED <<backend, mem, armed, left, timer, result, ok>>

\* The early return, or one load of a spin loop.
Load(w) ==
  /\ pc[w] = "load"
  /\ \/ mem \in want[w] /\ Finish(w, TRUE, mem)
     \/ /\ mem \notin want[w]
        /\ Continue(w, mem, IF Spin THEN IF Timed(w) THEN "check" ELSE "load"
                            ELSE IF Timed(w) THEN "clock" ELSE "arm")
  /\ UNCHANGED <<Args, mem, armed, left, seen, owed>>

\* Mutant: a spin loop that looks at the clock before it looks at the word.
ClockFirst(w) ==
  /\ pc[w] = "clock"
  /\ left' = [left EXCEPT ![w] = Cycles(w)]
  /\ timer' = [timer EXCEPT ![w] = AtMost(Cycles(w), Clamp)]
  /\ Goto(w, IF Spin THEN "check" ELSE "arm")
  /\ UNCHANGED <<Args, mem, armed, result, ok, seen, owed>>

\* cycles_end = begin_cycles + total_cycles; mwaitx will sleep for what is
\* left of it, as far as 32 bits go.
Clock(w) ==
  /\ pc[w] = "clock"
  /\ left' = [left EXCEPT ![w] = Cycles(w)]
  /\ timer' = [timer EXCEPT ![w] = AtMost(Cycles(w), Clamp)]
  /\ Goto(w, IF Spin THEN "load" ELSE "arm")
  /\ UNCHANGED <<Args, mem, armed, result, ok, seen, owed>>

\* ldaxr arms the exclusive monitor and loads the word in one instruction;
\* umonitor and monitorx only arm.
ArmMonitor(w) ==
  /\ pc[w] = "arm"
  /\ armed' = [armed EXCEPT ![w] = TRUE]
  /\ \/ X86 /\ Goto(w, "recheck") /\ UNCHANGED <<result, ok, timer>>
     \/ Arm /\ mem \in want[w] /\ Finish(w, TRUE, mem)
     \/ Arm /\ mem \notin want[w] /\ Continue(w, mem, "sleep")
  /\ UNCHANGED <<Args, mem, left, seen, owed>>

\* Mutant: sleeps without a second look at the word.
RecheckNothing(w) ==
  /\ pc[w] = "recheck"
  /\ Continue(w, mem, "sleep")
  /\ UNCHANGED <<Args, mem, armed, left, seen, owed>>

\* x86 looks again between arming and waiting.
Recheck(w) ==
  /\ pc[w] = "recheck"
  /\ \/ mem \in want[w] /\ Finish(w, TRUE, mem)
     \/ mem \notin want[w] /\ Continue(w, mem, "sleep")
  /\ UNCHANGED <<Args, mem, armed, left, seen, owed>>

\* The waiting instruction ends.  ARM's assembly loads the word right after
\* it; the x86 timed wait reads the clock first.
Wake(w) ==
  /\ pc[w] = "sleep"
  /\ armed' = [armed EXCEPT ![w] = FALSE]
  /\ Goto(w, IF X86 /\ Timed(w) THEN "check" ELSE "reload")
  /\ UNCHANGED <<Args, mem, left, timer, result, ok, seen, owed>>

\* Mutant: takes the wake-up for the answer.
ReloadTrusting(w) ==
  /\ pc[w] = "reload"
  /\ Finish(w, TRUE, mem)
  /\ UNCHANGED <<Args, mem, armed, left, seen, owed>>

\* Mutant: a oneshot that goes round again.
ReloadAgain(w) ==
  /\ pc[w] = "reload"
  /\ \/ Arm /\ Timed(w) /\ Continue(w, mem, "check")
     \/ /\ ~(Arm /\ Timed(w))
        /\ \/ mem \in want[w] /\ Finish(w, TRUE, mem)
           \/ mem \notin want[w] /\ Continue(w, mem, "arm")
  /\ UNCHANGED <<Args, mem, armed, left, seen, owed>>

\* The load after the wake-up; a timed wait on ARM compares what it loaded
\* only after a look at the clock, a oneshot returns the comparison.
Reload(w) ==
  /\ pc[w] = "reload"
  /\ \/ Arm /\ Timed(w) /\ Continue(w, mem, "check")
     \/ kind[w] = "oneshot" /\ Finish(w, mem \in want[w], mem)
     \/ /\ ~(Arm /\ Timed(w)) /\ kind[w] # "oneshot"
        /\ \/ mem \in want[w] /\ Finish(w, TRUE, mem)
           \/ mem \notin want[w] /\ Continue(w, mem, "arm")
  /\ UNCHANGED <<Args, mem, armed, left, seen, owed>>

\* Mutant: takes the end of mwaitx's timer for the deadline.
TimerDone(w) == left[w] = 0 \/ (backend = "mwaitx" /\ timer[w] = 0)

\* Mutant: a loop that never gives up.
NeverPast(w) == FALSE

\* read_cycle_counter() >= cycles_end
PastDeadline(w) == left[w] = 0

\* The look at the clock of a timed wait.  Past the deadline it returns
\* false, whatever the word holds by then.
Check(w) ==
  /\ pc[w] = "check"
  /\ \/ PastDeadline(w) /\ Finish(w, FALSE, result[w])
     \/ ~PastDeadline(w) /\ Spin /\ Continue(w, result[w], "load")
     \/ /\ ~PastDeadline(w) /\ X86
        /\ timer' = [timer EXCEPT ![w] = AtMost(left[w], Clamp)]
        /\ Goto(w, "reload")
        /\ UNCHANGED <<result, ok>>
     \/ /\ ~PastDeadline(w) /\ Arm
        /\ \/ result[w] \in want[w] /\ Finish(w, TRUE, result[w])
           \/ result[w] \notin want[w] /\ Continue(w, result[w], "arm")
  /\ UNCHANGED <<Args, mem, armed, left, seen, owed>>

-----------------------------------------------------------------------------
(* The processor and the other threads (the semantics of the instructions, *)
(* as the code relies on them).                                            *)

\* A store to the monitored line triggers the monitor.
WakeMonitor(w) == ~armed[w] /\ Wake(w)

\* umwait and wfet end at the deadline they were given, mwaitx when its own
\* timer has run down; wfe has no timer.  Of a timeout of zero cycles mwaitx
\* gets a count of zero, which to the processor is no timer; later turns and
\* other timeouts have a count of at least one to start from.
WakeTimer(w) ==
  /\ kind[w] = "timeout"
  /\ \/ backend \in {"waitpkg", "wfet"} /\ left[w] = 0
     \/ backend = "mwaitx" /\ total[w] # 0 /\ timer[w] = 0
  /\ Wake(w)

\* An interrupt, the event stream, IA32_UMWAIT_CONTROL, another word on the
\* same line: a wake-up for no reason of the waiter's.
WakeSpurious(w) == Wake(w)

\* Another thread stores v to the word.
Store(v) ==
  /\ mem' = v
  /\ armed' = [w \in Waiters |-> FALSE]
  /\ seen' = [w \in Waiters |-> IF pc[w] = "idle" THEN seen[w] ELSE seen[w] \cup {v}]
  /\ UNCHANGED <<Args, pc, left, timer, result, ok, owed>>

\* A cycle passes; mwaitx's timer runs while it sleeps.
Tick ==
  /\ left' = [w \in Waiters |-> Down(left[w])]
  /\ owed' = [w \in Waiters |-> IF pc[w] = "idle" THEN owed[w] ELSE Down(owed[w])]
  /\ timer' = [w \in Waiters |-> IF pc[w] = "sleep" THEN Down(timer[w]) ELSE timer[w]]
  /\ UNCHANGED <<Args, mem, armed, pc, result, ok, seen>>

-----------------------------------------------------------------------------
Init ==
  /\ backend \in Backends
  /\ mem = {}
  /\ armed = [w \in Waiters |-> FALSE]
  /\ pc = [w \in Waiters |-> "idle"]
  /\ kind = [w \in Waiters |-> "value"]
  /\ want = [w \in Waiters |-> {{}}]
  /\ total = [w \in Waiters |-> 0]
  /\ left = [w \in Waiters |-> 0]
  /\ timer = [w \in Waiters |-> 0]
  /\ result = [w \in Waiters |-> {}]
  /\ ok = [w \in Waiters |-> TRUE]
  /\ seen = [w \in Waiters |-> {{}}]
  /\ owed = [w \in Waiters |-> 0]

Run(w) ==
  Load(w) \/ Clock(w) \/ ArmMonitor(w) \/ Recheck(w) \/ Reload(w) \/ Check(w)

CallAny(w) ==
  \E k \in Kinds : \E s \in Targets(k) :
    \E n \in (IF k = "timeout" THEN Budgets ELSE {0}) : Call(w, k, s, n)

Next ==
  \/ Tick
  \/ \E v \in Words : Store(v)
  \/ \E w \in Waiters :
       CallAny(w) \/ Run(w) \/ WakeMonitor(w) \/ WakeTimer(w) \/ WakeSpurious(w)

Spec == Init /\ [][Next]_vars

-----------------------------------------------------------------------------
(* Properties. *)

Labels == {"idle", "load", "clock", "arm", "recheck", "sleep", "reload", "check"}

(* The types of the variables: every wait is at a step its backend has. *)
TypeOK ==
  /\ backend \in AllBackends
  /\ mem \in Words
  /\ armed \in [Waiters -> BOOLEAN]
  /\ pc \in [Waiters -> Labels]
  /\ kind \in [Waiters -> AllKinds]
  /\ want \in [Waiters -> SUBSET Words]
  /\ total \in [Waiters -> Nat]
  /\ left \in [Waiters -> Nat]
  /\ timer \in [Waiters -> 0..Clamp]
  /\ result \in [Waiters -> Words]
  /\ ok \in [Waiters -> BOOLEAN]
  /\ seen \in [Waiters -> SUBSET Words]
  /\ owed \in [Waiters -> Nat]

(* A waiter never sleeps on an armed monitor while the word already holds  *)
(* what it waits for: the store came before the look that follows the      *)
(* arming, or triggers the monitor.                                        *)
NoLostWakeup ==
  \A w \in Waiters : pc[w] = "sleep" /\ armed[w] => mem \notin want[w]

(* A call that returns true, or a word, returns what was really in memory  *)
(* at some moment of the call, and is what it was asked to wait for, after *)
(* any spurious wake-ups.                                                  *)
TrueIsSeen ==
  \A w \in Waiters :
    pc[w] = "idle" /\ ok[w] => result[w] \in want[w] /\ result[w] \in seen[w]

(* A call that returns false has at some moment found the word different   *)
(* from what it waits for, even when the timeout is zero; only timed waits *)
(* and oneshots return false.                                              *)
FalseIsSeen ==
  \A w \in Waiters :
    pc[w] = "idle" /\ ~ok[w] =>
      /\ ~(seen[w] \subseteq want[w])
      /\ kind[w] \in {"timeout", "oneshot"}

(* A timed wait that returns false has let its whole timeout pass, also    *)
(* when mwaitx's 32-bit timer is shorter than the timeout, and however     *)
(* often it is woken before.                                               *)
NoEarlyTimeout ==
  \A w \in Waiters :
    pc[w] = "idle" /\ kind[w] = "timeout" /\ ~ok[w] => owed[w] = 0

-----------------------------------------------------------------------------
(***************************************************************************)
(* Fairness: the waiting thread keeps running, time passes, a triggered    *)
(* monitor and an expired timer end the waiting instruction.  A spurious   *)
(* wake-up is not promised.                                                *)
(***************************************************************************)
FairSpec ==
  /\ Spec
  /\ WF_vars(Tick)
  /\ \A w \in Waiters : WF_vars(Run(w)) /\ WF_vars(WakeMonitor(w)) /\ WF_vars(WakeTimer(w))

(* A wait whose word comes to hold what it waits for, and keeps it, ends,  *)
(* without any help from spurious wake-ups.                                *)
AnswerEndsWait ==
  \A w \in Waiters : ~ <>[](pc[w] # "idle" /\ mem \in want[w])

\* wfe has no timer, and mwaitx with a count of zero is given none.
HasTimer(w) == backend # "wfe" /\ ~(backend = "mwaitx" /\ total[w] = 0)

(* Where the waiting instruction has a timer, that alone ends a timed      *)
(* wait, whatever the other threads store.  It is not so on mwaitx for a   *)
(* timeout of zero, which sleeps until something else ends it, although    *)
(* detect.c:203 says that the instruction "always supports waiting with a  *)
(* maximum wait time".                                                     *)
TimerEndsWait ==
  \A w \in Waiters :
    pc[w] # "idle" /\ kind[w] = "timeout" /\ HasTimer(w) ~> pc[w] = "idle"

(* Where the instruction has no timer, the code counts on the system for   *)
(* its end: on interrupts, and on ARM on the event stream of the kernel.   *)
Events(w) == []<>(pc[w] # "sleep")

(* Where they come, every timed wait ends, on wfe too, and every oneshot,  *)
(* whatever is stored or not stored meanwhile.                             *)
EventsEndWait ==
  \A w \in Waiters :
    Events(w) => (pc[w] # "idle" /\ kind[w] \in {"timeout", "oneshot"} ~> pc[w] = "idle")
=============================================================================
