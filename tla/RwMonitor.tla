----------------------------- MODULE RwMonitor -----------------------------
(***************************************************************************)
(* The readers-writer lock on the real waits: the calls of RwLock, but for *)
(* timedwrlock, with the wait_for_bit_not_set and wait_for_value of        *)
(* MonitorWait on the lock's own word.  Readers wait for the top bit to    *)
(* go, writers for the whole word; every CAS that succeeds, every store    *)
(* and every decrement triggers the monitors of both, and most of what     *)
(* wakes a waiter is not what it waits for.                                *)
(***************************************************************************)
EXTENDS RwLock

CONSTANTS Clamp,      \* mwaitx's longest timer
          Backends,   \* the backends checked
          Readers,    \* bound: threads that make no write calls
          Writers     \* bound: threads that make no read calls

ASSUME RwMonitorAssumption ==
  /\ Readers \subseteq Threads /\ Writers \subseteq Threads \ Readers
  /\ Clamp \in Nat \ {0}                                      (* a timer can run     *)
  /\ Backends \subseteq {"spin", "wfe", "wfet", "waitpkg", "mwaitx"}
  /\ Ops \subseteq AllOps \ {"timedwrlock"}                   (* without its deadline *)

VARIABLES
  backend, armed, phase, kind, want, total, left, timer, result, ok,
  seen, owed                   \* of the waits, phase being MonitorWait's pc

(***************************************************************************)
(* A word as MonitorWait has it, a set of bits.  TopBit stands for the top *)
(* bit; the count is in the lower bits as a tally, which like its binary   *)
(* form is another set for every count.                                    *)
(***************************************************************************)
Word(v) == IF HasTop(v) THEN {TopBit} \cup (1..ClearTop(v)) ELSE 1..v
WordValues == 0..(2 * TopBit - 1)

M == INSTANCE MonitorWait WITH
       mem <- Word(mutex), Waiters <- Threads, Bits <- 1..TopBit, Budgets <- {},
       Backoff <- 0, Kinds <- {"value", "bit_not_set"}, pc <- phase

waitVars == <<backend, armed, phase, kind, want, total, left, timer, result, ok,
              seen, owed>>
allVars == <<vars, waitVars>>

-----------------------------------------------------------------------------
Waiting(t) == phase[t] # "idle"

\* The accesses of a call, but for the waits.
Access(t) ==
  \/ RdEnter(t) \/ RdCasFree(t) \/ RdCas(t) \/ WrEnter(t) \/ WrCas(t)
  \/ Trylock(t) \/ TrylockShared(t) \/ Unlock(t) \/ ReadUnlock(t)

Look(t) == Access(t) /\ mutex' = mutex /\ UNCHANGED waitVars

\* A write to the word triggers monitors; none writes the value that is there.
Change(t) == Access(t) /\ mutex' # mutex /\ M!Store(Word(mutex'))

TopClear == {w \in M!Words : TopBit \notin w}
Zero == {{}}

\* wait_ptr(&lock->mutex, 31, low_power) in rdlock
RdStart(t) ==
  /\ pc[t] = "rd_wait"
  /\ ~Waiting(t)
  /\ UNCHANGED vars
  /\ M!Call(t, "bit_not_set", TopClear, 0)

\* Mutant: a writer that waits for the top bit alone.
WrStartBit(t) ==
  /\ pc[t] = "wr_wait"
  /\ ~Waiting(t)
  /\ UNCHANGED vars
  /\ M!Call(t, "bit_not_set", TopClear, 0)

\* wait_ptr(&lock->mutex, 0, low_power) in wrlock
WrStart(t) ==
  /\ pc[t] = "wr_wait"
  /\ ~Waiting(t)
  /\ UNCHANGED vars
  /\ M!Call(t, "value", Zero, 0)

\* What the lock makes of a wait that has returned: rdlock goes on with the
\* value it returned, wrlock with a look of its own.
Over(t) ==
  \/ /\ pc[t] = "rd_wait"
     /\ \E v \in WordValues :
          /\ Word(v) = result'[t]
          /\ Expect(t, v, IF Consistent(v) THEN "rd_cas" ELSE "trap")
  \/ pc[t] = "wr_wait" /\ Check(t, TRUE, "wrlock")

\* A step of the wait, by its thread or by the processor.
InWait(t, A) ==
  /\ mutex' = mutex
  /\ A
  /\ IF phase'[t] = "idle" THEN Over(t) ELSE UNCHANGED vars

WStep(t) == Look(t) \/ Change(t) \/ RdStart(t) \/ WrStart(t) \/ InWait(t, M!Run(t))
Woken(t) == InWait(t, M!WakeMonitor(t)) \/ InWait(t, M!WakeSpurious(t))

\* The rdlock and try_rdlock of the header.  A thread that is neither a reader
\* nor a writer makes every call.
ReadOps == {"rdlock", "trylock_shared"}

WCallLock(t) ==
  /\ CallLock(t)
  /\ t \in Readers => pc'[t] \in ReadOps
  /\ t \in Writers => pc'[t] \notin ReadOps
  /\ UNCHANGED waitVars

WCallRelease(t) == CallRelease(t) /\ UNCHANGED waitVars

WInit == Init /\ M!Init

WNext == \E t \in Threads : WCallLock(t) \/ WCallRelease(t) \/ WStep(t) \/ Woken(t)

WSpec == WInit /\ [][WNext]_allVars

\* As in RwLock and MonitorWait: threads in a call run, holders give back
\* what they hold, triggered monitors wake.
WFairSpec ==
  /\ WSpec
  /\ \A t \in Threads :
       /\ WF_allVars(WStep(t)) /\ WF_allVars(WCallRelease(t))
       /\ WF_allVars(InWait(t, M!WakeMonitor(t)))

-----------------------------------------------------------------------------
(* The lock on its waits does what RwLock's does on their promise: a       *)
(* reader goes on with a word that was in memory without the top bit, a    *)
(* writer after a free one, however often other holds' comings and goings  *)
(* woke them before.                                                       *)
ImplementsRwLock == Spec

(* A thread sleeps with nothing to wake it only while somebody's unlock is *)
(* to come: a reader while a writer is in, a writer while anybody is.      *)
SleepersHaveHolder ==
  \A t \in Threads :
    phase[t] = "sleep" /\ armed[t] =>
      writers # {} \/ (pc[t] = "wr_wait" /\ reads # {})

(* While there are calls some call returns, without spurious wake-ups: no  *)
(* write to the word is lost on everybody that it lets go on, though       *)
(* readers and writers watch the word for different things, and are woken  *)
(* for each other's.                                                       *)
LockFreeOnWaits == LockFree
=============================================================================
