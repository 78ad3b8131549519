------------------------- MODULE MutexMonitorProofs -------------------------
(***************************************************************************)
(* That the lock on its real waits is the lock of MutexLock, for any       *)
(* number of threads and on every backend.  A thread that waits does so    *)
(* for a free lock, in lk_wait, and its wait returns on the load that saw  *)
(* the lock free: that load is MutexLock's LkWait, and every other step of *)
(* the wait is invisible.                                                  *)
(***************************************************************************)
EXTENDS MutexMonitor, TLAPS

\* A thread in lk_wait is calling the wait or in it, for the word 0.
WaitsForFree(t) ==
  phase[t] # "idle" =>
    /\ pc[t] = "lk_wait"
    /\ kind[t] = "value"
    /\ want[t] = {Free}
    /\ phase[t] \in {"load", "arm", "recheck", "sleep", "reload"}

WaitInv ==
  /\ pc \in [Threads -> L!Labels]
  /\ phase \in [Threads -> M!Labels]
  /\ kind \in [Threads -> {"value"}]
  /\ DOMAIN want = Threads
  /\ owed = [t \in Threads |-> 0]
  /\ \A t \in Threads : WaitsForFree(t)

\* The tuple of the lock's variables, as the lock sees them.
LockSame == UNCHANGED <<pc, writers, mem, left, owed>>

-----------------------------------------------------------------------------
LEMMA LockStutters == LockSame => UNCHANGED L!vars
BY DEF LockSame, L!vars

\* Steps of the lock leave the waits as they are, but for the word.
LEMMA LockKeeps ==
  ASSUME WaitInv, NEW t \in Threads, NEW label \in L!Labels, phase[t] = "idle",
         pc' = [pc EXCEPT ![t] = label], UNCHANGED <<phase, kind, want, owed>>
  PROVE  WaitInv'
BY DEF WaitInv, WaitsForFree

LEMMA NotInWait ==
  ASSUME WaitInv, NEW t \in Threads, pc[t] # "lk_wait"
  PROVE  phase[t] = "idle"
BY DEF WaitInv, WaitsForFree

LEMMA ClientStep ==
  ASSUME WaitInv, NEW t \in Threads, Client(t)
  PROVE  WaitInv' /\ L!Next
<1>1. L!Next
  BY DEF Client, L!Next
<1>2. PICK label \in L!Labels : pc[t] = "idle" /\ pc' = [pc EXCEPT ![t] = label]
  BY MonitorAssumption DEF Client, L!CallLock, L!Call, L!CallUnlock, L!Check, L!Goto,
     L!Labels, L!AllOps
<1>3. WaitInv'
  BY <1>2, NotInWait, LockKeeps DEF Client, waitVars
<1>. QED BY <1>1, <1>3

\* The accesses of lock, trylock and unlock but for the wait.
LEMMA AccessStep ==
  ASSUME WaitInv, NEW t \in Threads, Look(t) \/ Take(t) \/ GiveBack(t)
  PROVE  WaitInv' /\ L!Next
<1>. USE DEF L!Labels, L!AllOps
<1>1. L!Step(t)
  BY DEF Look, Take, GiveBack, L!Step, L!Lock, L!Trylock, L!Unlock
<1>2. \E label \in L!Labels : pc[t] # "lk_wait" /\ pc' = [pc EXCEPT ![t] = label]
  <2>1. CASE Look(t)
    BY <2>1 DEF Look, L!LkEnter, L!TryEnter, L!UnEnter, L!UnCheck, L!LkCas, L!TryCas,
       L!Grant, L!Return, L!Check, L!Goto
  <2>2. CASE Take(t)
    BY <2>2 DEF Take, L!LkCas, L!TryCas, L!Grant, L!Return, L!Check, L!Goto
  <2>3. CASE GiveBack(t)
    BY <2>3 DEF GiveBack, L!UnStore, L!Goto
  <2>. QED BY <2>1, <2>2, <2>3
<1>3. UNCHANGED <<phase, kind, want, owed>>
  BY DEF Look, Take, GiveBack, waitVars, M!Store, M!Args
<1>4. WaitInv'
  BY <1>2, <1>3, NotInWait, LockKeeps
<1>. QED BY <1>1, <1>4 DEF L!Next

LEMMA StartStep ==
  ASSUME WaitInv, NEW t \in Threads, StartWait(t)
  PROVE  WaitInv' /\ LockSame
<1>1. /\ phase' = [phase EXCEPT ![t] = "load"]
      /\ kind' = [kind EXCEPT ![t] = "value"]
      /\ want' = [want EXCEPT ![t] = {Free}]
      /\ owed' = [owed EXCEPT ![t] = 0]
      /\ pc[t] = "lk_wait" /\ UNCHANGED <<pc, writers, mem, left>>
  BY DEF StartWait, M!Call, M!Goto, M!Spin
<1>2. owed' = owed
  BY <1>1 DEF WaitInv
<1>3. WaitInv'
  BY <1>1, <1>2 DEF WaitInv, WaitsForFree, M!Labels
<1>. QED BY <1>1, <1>2, <1>3 DEF LockSame

-----------------------------------------------------------------------------
(* The steps of a wait. *)

Ongoing == {"load", "arm", "recheck", "sleep", "reload"}

\* Where a step of a value wait leads: on, or out after a look at the word
\* that found it free.
LEMMA WaitLeads ==
  ASSUME WaitInv, NEW t \in Threads,
         M!Run(t) \/ M!WakeMonitor(t) \/ M!WakeSpurious(t)
  PROVE  /\ phase[t] # "idle"
         /\ UNCHANGED <<mem, kind, want, left, owed>>
         /\ \/ \E label \in Ongoing : phase' = [phase EXCEPT ![t] = label]
            \/ mem = Free /\ phase' = [phase EXCEPT ![t] = "idle"]
<1>. USE DEF Ongoing, M!Goto, M!Finish, M!Continue, M!Args
<1>1. ASSUME phase[t] # "idle"
      PROVE  kind[t] = "value" /\ want[t] = {Free} /\ phase[t] \in Ongoing /\ ~M!Timed(t)
  BY <1>1 DEF WaitInv, WaitsForFree, M!Timed
<1>2. CASE M!Load(t)
  BY <1>1, <1>2 DEF M!Load
<1>3. CASE M!ArmMonitor(t)
  BY <1>1, <1>3 DEF M!ArmMonitor
<1>4. CASE M!Recheck(t)
  BY <1>1, <1>4 DEF M!Recheck
<1>5. CASE M!Reload(t)
  BY <1>1, <1>5 DEF M!Reload
<1>6. CASE M!WakeMonitor(t) \/ M!WakeSpurious(t)
  BY <1>1, <1>6 DEF M!WakeMonitor, M!WakeSpurious, M!Wake
<1>7. ~ M!Clock(t) /\ ~ M!Check(t)
  BY <1>1 DEF M!Clock, M!Check
<1>. QED BY <1>2, <1>3, <1>4, <1>5, <1>6, <1>7 DEF M!Run

LEMMA InWaitStep ==
  ASSUME WaitInv, NEW t \in Threads,
         NEW A, A => M!Run(t) \/ M!WakeMonitor(t) \/ M!WakeSpurious(t),
         InWait(t, A)
  PROVE  WaitInv' /\ (L!Next \/ LockSame)
<1>1. /\ phase[t] # "idle" /\ UNCHANGED <<mem, kind, want, left, owed>>
      /\ \/ \E label \in Ongoing : phase' = [phase EXCEPT ![t] = label]
         \/ mem = Free /\ phase' = [phase EXCEPT ![t] = "idle"]
  BY WaitLeads DEF InWait
<1>2. pc[t] = "lk_wait" /\ t \in DOMAIN phase
  BY <1>1 DEF WaitInv, WaitsForFree
<1>3. ASSUME NEW label \in Ongoing, phase' = [phase EXCEPT ![t] = label]
      PROVE  WaitInv' /\ LockSame
  <2>1. pc' = pc /\ writers' = writers
    BY <1>2, <1>3 DEF InWait, Ongoing
  <2>2. WaitInv'
    BY <1>1, <1>2, <1>3, <2>1 DEF WaitInv, WaitsForFree, Ongoing, M!Labels
  <2>. QED BY <1>1, <2>1, <2>2 DEF LockSame
<1>4. ASSUME mem = Free, phase' = [phase EXCEPT ![t] = "idle"]
      PROVE  WaitInv' /\ L!Next
  <2>1. pc' = [pc EXCEPT ![t] = "lock"] /\ writers' = writers
    BY <1>2, <1>4 DEF InWait
  <2>2. WaitInv'
    BY <1>1, <1>4, <2>1 DEF WaitInv, WaitsForFree, M!Labels, L!Labels, L!AllOps
  <2>3. L!LkWait(t)
    BY <1>1, <1>2, <1>4, <2>1 DEF L!LkWait, L!Check, L!Goto
  <2>. QED BY <2>2, <2>3 DEF L!Next, L!Step, L!Lock
<1>. QED BY <1>1, <1>3, <1>4

-----------------------------------------------------------------------------
LEMMA NextWait == WaitInv /\ [Next]_vars => WaitInv' /\ [L!Next]_(L!vars)
<1>. SUFFICES ASSUME WaitInv, [Next]_vars PROVE WaitInv' /\ [L!Next]_(L!vars)
  OBVIOUS
<1>1. CASE UNCHANGED vars
  <2>1. WaitInv'
    BY <1>1 DEF vars, waitVars, WaitInv, WaitsForFree
  <2>. QED BY <1>1, <2>1, LockStutters DEF vars, waitVars, LockSame
<1>2. ASSUME NEW t \in Threads, Client(t) PROVE WaitInv' /\ L!Next
  BY <1>2, ClientStep
<1>3. ASSUME NEW t \in Threads, Step(t) PROVE WaitInv' /\ (L!Next \/ LockSame)
  BY <1>3, AccessStep, StartStep, InWaitStep DEF Step
<1>4. ASSUME NEW t \in Threads, Woken(t) PROVE WaitInv' /\ (L!Next \/ LockSame)
  BY <1>4, InWaitStep DEF Woken
<1>. QED BY <1>1, <1>2, <1>3, <1>4, LockStutters DEF Next

(* The lock with its waits in full implements the lock that takes them at  *)
(* their word, and so has all that is proved of MutexLock.                 *)
THEOREM Implements == Spec => ImplementsMutexLock
<1>1. Init => WaitInv /\ L!Init
  BY DEF Init, M!Init, L!Init, WaitInv, WaitsForFree, L!Labels, M!Labels
<1>. QED BY <1>1, NextWait, PTL DEF Spec, ImplementsMutexLock, L!Spec

-----------------------------------------------------------------------------
(***************************************************************************)
(* What is proved of the two halves, of the whole.  LP has the theorems of *)
(* MutexLockProofs for the lock of this module, WP those of                *)
(* MonitorWaitProofs for its waits; SameLock and SameWaits say that they   *)
(* speak of L and of M.                                                    *)
(***************************************************************************)
LP == INSTANCE MutexLockProofs WITH
        Timeout <- 0, mutex <- IF mem = Free THEN 0 ELSE 1

WP == INSTANCE MonitorWaitProofs WITH
        Waiters <- Threads, Bits <- {0}, Budgets <- {}, Backoff <- 0,
        Kinds <- {"value"}, pc <- phase

LEMMA SameLock ==
  /\ L!Init <=> LP!Init
  /\ [L!Next]_(L!vars) <=> [LP!Next]_(LP!vars)
<1>1. ASSUME NEW t \in Threads
      PROVE  /\ L!Step(t) <=> LP!Step(t)
             /\ L!CallLock(t) <=> LP!CallLock(t)
             /\ L!CallUnlock(t) <=> LP!CallUnlock(t)
  BY DEF L!Goto, LP!Goto, L!Check, LP!Check, L!Consistent, LP!Consistent,
         L!Grant, LP!Grant, L!Return, LP!Return, L!Call, LP!Call,
         L!CallUnlock, LP!CallUnlock, L!CallLock, LP!CallLock,
         L!LkEnter, LP!LkEnter, L!LkCas, LP!LkCas, L!LkWait, LP!LkWait,
         L!TryEnter, LP!TryEnter, L!TryCas, LP!TryCas,
         L!TlEnter, LP!TlEnter, L!TlCas, LP!TlCas, L!TlLoad, LP!TlLoad,
         L!TlWait, LP!TlWait, L!TlTimeout, LP!TlTimeout,
         L!UnEnter, LP!UnEnter, L!UnCheck, LP!UnCheck,
         L!UnStore, LP!UnStore, L!Lock, LP!Lock, L!Trylock, LP!Trylock,
         L!Timedlock, LP!Timedlock, L!Unlock, LP!Unlock, L!Step, LP!Step
<1>2. L!Tick <=> LP!Tick
  BY DEF L!Tick, LP!Tick, L!Down, LP!Down
<1>3. L!Next <=> LP!Next
  BY <1>1, <1>2 DEF L!Next, LP!Next
<1>. QED BY <1>3 DEF L!Init, LP!Init, L!vars, LP!vars

(* One holder at a time, with every load, arming and sleep of the waits in *)
(* full, on every backend; and the word tells whether there is one.        *)
THEOREM RealMutualExclusion == Spec => []L!Exclusion
<1>1. L!Spec => LP!Spec
  BY SameLock, PTL DEF L!Spec, LP!Spec
<1>2. LP!Spec => []LP!Exclusion
  BY LP!MutualExclusion, MonitorAssumption DEF LP!AllOps
<1>3. LP!Exclusion => L!Exclusion
  BY DEF LP!Exclusion, L!Exclusion
<1>. QED BY <1>1, <1>2, <1>3, Implements, PTL DEF ImplementsMutexLock

LEMMA SameWaits ==
  ASSUME NEW t \in Threads
  PROVE  /\ M!Run(t) <=> WP!Run(t)
         /\ M!WakeMonitor(t) <=> WP!WakeMonitor(t)
         /\ M!WakeSpurious(t) <=> WP!WakeSpurious(t)
         /\ \A s : M!Call(t, "value", s, 0) <=> WP!Call(t, "value", s, 0)
         /\ \A v : M!Store(v) <=> WP!Store(v)
BY DEF M!vars, WP!vars, M!Goto, WP!Goto, M!Args, WP!Args,
       M!Words, WP!Words, M!Spin, WP!Spin, M!Arm, WP!Arm, M!X86, WP!X86,
       M!Timed, WP!Timed, M!Cycles, WP!Cycles, M!AtMost, WP!AtMost,
       M!Finish, WP!Finish, M!Continue, WP!Continue, M!Call, WP!Call,
       M!Load, WP!Load, M!Clock, WP!Clock, M!ArmMonitor, WP!ArmMonitor,
       M!Recheck, WP!Recheck, M!Wake, WP!Wake, M!Reload, WP!Reload,
       M!PastDeadline, WP!PastDeadline, M!Check, WP!Check,
       M!WakeMonitor, WP!WakeMonitor, M!WakeSpurious, WP!WakeSpurious,
       M!Store, WP!Store, M!Run, WP!Run, M!Init, WP!Init

LEMMA NextWaits == [Next]_vars => [WP!Next]_(WP!vars)
<1>. SUFFICES ASSUME [Next]_vars PROVE WP!Next \/ UNCHANGED WP!vars
  OBVIOUS
<1>1. ASSUME UNCHANGED waitVars PROVE UNCHANGED WP!vars
  BY <1>1 DEF waitVars, WP!vars
<1>2. ASSUME NEW t \in Threads, Client(t) \/ Step(t) \/ Woken(t)
      PROVE  WP!Next \/ UNCHANGED WP!vars
  <2>1. CASE Client(t) \/ Look(t)
    BY <1>1, <2>1 DEF Client, Look
  <2>2. CASE Take(t) \/ GiveBack(t)
    <3>1. Held \in WP!Words /\ Free \in WP!Words
      BY DEF Held, Free, WP!Words
    <3>. QED BY <2>2, <3>1, SameWaits DEF Take, GiveBack, WP!Next
  <2>3. CASE StartWait(t)
    <3>1. {Free} \in WP!Targets("value")
      BY DEF Free, WP!Words, WP!Targets
    <3>. QED BY <2>3, <3>1, SameWaits DEF StartWait, WP!CallAny, WP!Next
  <2>4. CASE InWait(t, M!Run(t)) \/ InWait(t, M!WakeMonitor(t)) \/ InWait(t, M!WakeSpurious(t))
    BY <2>4, SameWaits DEF InWait, WP!Next
  <2>. QED BY <1>2, <2>1, <2>2, <2>3, <2>4 DEF Step, Woken
<1>3. CASE UNCHANGED vars
  BY <1>1, <1>3 DEF vars
<1>. QED BY <1>2, <1>3 DEF Next

(* The lock calls the waits as any caller of MonitorWait does, and its     *)
(* CASes and its unlock are that module's stores.                          *)
LEMMA WaitsImplement == Spec => WP!Spec
<1>1. Init => WP!Init
  BY DEF Init, M!Init, WP!Init
<1>. QED BY <1>1, NextWaits, PTL DEF Spec, WP!Spec

(* No thread sleeps on an armed monitor when the unlock it sleeps for has  *)
(* already happened, for any number of threads and on every backend: the   *)
(* lock is held, so the store that wakes it is still to come.              *)
THEOREM RealSleepersHaveHolder == Spec => []SleepersHaveHolder
<1>1. Spec => []WP!NoLostWakeup
  <2>1. WP!WaitAssumption
    BY MonitorAssumption DEF WP!WaitAssumption, WP!AllBackends, WP!AllKinds
  <2>. QED BY <2>1, WaitsImplement, WP!WakeupNotLost, PTL DEF WP!WaitAssumption
<1>2. Spec => []WaitInv
  <2>1. Init => WaitInv
    BY DEF Init, M!Init, L!Init, WaitInv, WaitsForFree, L!Labels, M!Labels
  <2>. QED BY <2>1, NextWait, PTL DEF Spec
<1>3. WaitInv /\ WP!NoLostWakeup /\ L!Exclusion => SleepersHaveHolder
  BY DEF WaitInv, WaitsForFree, WP!NoLostWakeup, L!Exclusion, SleepersHaveHolder
<1>. QED BY <1>1, <1>2, <1>3, RealMutualExclusion, PTL
=============================================================================
