---------------------------- MODULE RwLockTimed ----------------------------
(***************************************************************************)
(* RwLock with the clock of timedwrlock's wait: as in MutexLock, a         *)
(* countdown that starts when the wait computes its deadline, and the part *)
(* of the timeout its caller is still owed.                                *)
(***************************************************************************)
EXTENDS RwLock

CONSTANT Timeout   \* the timeout of a timedwrlock, in ticks of the clock

ASSUME TimeoutAssumption == Timeout \in Nat

VARIABLES left,    \* time left before each thread's deadline
          owed     \* history: what a timedwrlock still has to wait out

timedVars == <<mutex, pc, expected, reads, writers, left, owed>>

TInit ==
  /\ Init
  /\ left = [t \in Threads |-> 0]
  /\ owed = [t \in Threads |-> 0]

TCall(t) ==
  /\ CallLock(t)
  /\ owed' = [owed EXCEPT ![t] = IF pc'[t] = "timedwrlock" THEN Timeout ELSE 0]
  /\ UNCHANGED left

\* Mutant: the wait gets no time of its own.
TwTimerNone(t) == TwWait(t) /\ pc'[t] = "tw_busy" /\ UNCHANGED <<left, owed>>

\* The wait found the lock held: it starts, with the whole timeout.
TwTimer(t) ==
  /\ TwWait(t)
  /\ pc'[t] = "tw_busy"
  /\ left' = [left EXCEPT ![t] = Timeout]
  /\ UNCHANGED owed

\* Mutant: returns only on a lock that is free.
TwDeadlineFree(t) == left[t] = 0 /\ mutex = 0 /\ TwTimeout(t) /\ UNCHANGED <<left, owed>>

\* The clock is past the deadline: false, whatever the word holds by now.
TwDeadline(t) == left[t] = 0 /\ TwTimeout(t) /\ UNCHANGED <<left, owed>>

\* Every other step of a call.
Untimed(t) ==
  /\ \/ Rdlock(t) \/ Wrlock(t) \/ Trylock(t) \/ TrylockShared(t)
     \/ TwEnter(t) \/ TwCas(t) \/ (TwWait(t) /\ pc'[t] = "timedwrlock")
     \/ Unlock(t) \/ ReadUnlock(t)
  /\ UNCHANGED <<left, owed>>

TStep(t) == TwTimer(t) \/ TwDeadline(t) \/ Untimed(t)
TRelease(t) == CallRelease(t) /\ UNCHANGED <<left, owed>>

(* The clock.  Time passes whatever the threads do. *)
Down(n) == IF n = 0 THEN 0 ELSE n - 1

Tick ==
  /\ left' = [t \in Threads |-> Down(left[t])]
  /\ owed' = [t \in Threads |-> Down(owed[t])]
  /\ UNCHANGED vars

TNext == Tick \/ \E t \in Threads : TCall(t) \/ TRelease(t) \/ TStep(t)

TSpec == TInit /\ [][TNext]_timedVars

-----------------------------------------------------------------------------
InTimedwrlock(t) == pc[t] \in {"timedwrlock", "tw_cas", "tw_wait", "tw_busy"}

(* A timedwrlock that returns false has let its whole timeout pass, on     *)
(* whatever mixture of readers and writers it found the lock held by, and  *)
(* however often it saw the lock free and lost it to another thread.       *)
TimedwrlockWaitsItOut ==
  [][\A t \in Threads :
       InTimedwrlock(t) /\ pc'[t] = "idle" /\ writers' = writers
         => owed[t] = 0]_timedVars

(* A timedwrlock does not stay in its wait while others keep the lock: the *)
(* timeout ends it, although every reader that comes or goes changes the   *)
(* word it watches.                                                        *)
TimedwrlockGivesUp == \A t \in Threads : ~ <>[](mutex # 0 /\ InTimedwrlock(t))

(* Threads in a call keep running and time passes; holders may keep their  *)
(* holds for ever.                                                         *)
TFairSpec == TSpec /\ WF_timedVars(Tick) /\ \A t \in Threads : WF_timedVars(TStep(t))
=============================================================================
