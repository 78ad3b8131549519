---------------------------- MODULE MutexMonitor ----------------------------
(***************************************************************************)
(* The plain lock on the real waits: lock, trylock and unlock of MutexLock *)
(* whose wait_for_value is that of MonitorWait, on the lock's own word.    *)
(* The lock's CASes and its unlock are the stores that trigger the         *)
(* waiters' monitors; a wait that returns sends its thread back to the     *)
(* lock's loop.                                                            *)
(*                                                                         *)
(* MutexLock replaces a wait by what it promises, one look at a free lock. *)
(* Here it is its loads, its arming and its sleep, with the other threads' *)
(* accesses in between.                                                    *)
(***************************************************************************)
EXTENDS Integers

CONSTANTS Threads,    \* the client threads
          Clamp,      \* mwaitx's longest timer
          Backends,   \* the backends checked
          Ops         \* the lock operations the clients call

ASSUME MonitorAssumption ==
  /\ Clamp \in Nat \ {0}                                      (* a timer can run        *)
  /\ Backends \subseteq {"spin", "wfe", "wfet", "waitpkg", "mwaitx"}
  /\ Ops \subseteq {"lock", "trylock"}                        (* the untimed operations *)

VARIABLES
  pc, writers,                      \* of the lock, as in MutexLock
  backend, mem, armed, phase, kind, want, total, left, timer, result, ok,
  seen, owed                        \* of the waits, phase being
                                    \* MonitorWait's pc

Held == {0}   \* bit 0 alone is set: the word is 1
Free == {}

M == INSTANCE MonitorWait WITH
       Waiters <- Threads, Bits <- {0}, Budgets <- {}, Backoff <- 0,
       Kinds <- {"value"}, pc <- phase

L == INSTANCE MutexLock WITH
       Timeout <- 0, mutex <- IF mem = Free THEN 0 ELSE 1

waitVars == <<backend, mem, armed, phase, kind, want, total, left, timer, result,
              ok, seen, owed>>
vars == <<pc, writers, waitVars>>

-----------------------------------------------------------------------------
Waiting(t) == phase[t] # "idle"

\* Accesses of the lock that leave the word alone.
Look(t) ==
  /\ UNCHANGED waitVars
  /\ \/ L!LkEnter(t) \/ L!TryEnter(t) \/ L!UnEnter(t) \/ L!UnCheck(t)
     \/ mem # Free /\ (L!LkCas(t) \/ L!TryCas(t))

\* The CAS takes the lock.
Take(t) ==
  /\ mem = Free
  /\ M!Store(Held)
  /\ L!LkCas(t) \/ L!TryCas(t)

\* The unlock's store of zero wakes who waits.
GiveBack(t) == M!Store(Free) /\ L!UnStore(t)

\* Mutant: waits for the lock to be held.
StartWaitHeld(t) ==
  /\ pc[t] = "lk_wait"
  /\ ~Waiting(t)
  /\ M!Call(t, "value", {Held}, 0)
  /\ UNCHANGED <<pc, writers>>

\* wait_ptr(&lock->mutex, 0, low_power)
StartWait(t) ==
  /\ pc[t] = "lk_wait"
  /\ ~Waiting(t)
  /\ M!Call(t, "value", {Free}, 0)
  /\ UNCHANGED <<pc, writers>>

\* Mutant: the wait is over when its thread is woken.
InWaitOnce(t, A) ==
  /\ A
  /\ pc' = IF phase'[t] = "reload" THEN [pc EXCEPT ![t] = "lock"] ELSE pc
  /\ UNCHANGED writers

\* A step of the wait, by its thread or by the processor; when it is over
\* the lock's loop goes round.
InWait(t, A) ==
  /\ A
  /\ pc' = IF phase'[t] = "idle" THEN [pc EXCEPT ![t] = "lock"] ELSE pc
  /\ UNCHANGED writers

Step(t) == Look(t) \/ Take(t) \/ GiveBack(t) \/ StartWait(t) \/ InWait(t, M!Run(t))
Woken(t) == InWait(t, M!WakeMonitor(t)) \/ InWait(t, M!WakeSpurious(t))
Client(t) == UNCHANGED waitVars /\ (L!CallLock(t) \/ L!CallUnlock(t))

Init == M!Init /\ L!Init

Next == \E t \in Threads : Client(t) \/ Step(t) \/ Woken(t)

Spec == Init /\ [][Next]_vars

\* Threads in a call run and triggered monitors wake; spurious wake-ups are
\* not promised.
FairSpec ==
  /\ Spec
  /\ \A t \in Threads : WF_vars(Step(t)) /\ WF_vars(InWait(t, M!WakeMonitor(t)))

-----------------------------------------------------------------------------
(* The lock on its waits does what MutexLock's does on their promise: one  *)
(* holder at a time, and a wait is over only when its last look at the     *)
(* word found the lock free, however it was woken.                         *)
ImplementsMutexLock == L!Spec

(* A thread sleeps with nothing to wake it only while somebody has the     *)
(* lock, whose unlock is to come.                                          *)
SleepersHaveHolder ==
  \A t \in Threads : phase[t] = "sleep" /\ armed[t] => writers # {}

(* While threads are in lock and holders keep unlocking, the lock is given *)
(* to somebody again and again, without spurious wake-ups: the store that  *)
(* frees the lock reaches a waiter, whatever it is doing when it comes,    *)
(* even if another thread takes the lock at once.                          *)
LockGranted == L!LockGranted
=============================================================================
