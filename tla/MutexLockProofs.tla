-------------------------- MODULE MutexLockProofs --------------------------
(***************************************************************************)
(* Theorems about MutexLock, for any set of threads and any timeout.  The  *)
(* invariant adds to Exclusion that a thread in unlock is the one that has *)
(* the lock (the store of zero is blind, so only its caller's ownership    *)
(* keeps it from giving away somebody else's lock), and that the deadline  *)
(* of a timed wait is not before the end of the timeout its caller asked.  *)
(***************************************************************************)
EXTENDS MutexLock, TLAPS

MayStand(t) ==
  /\ pc[t] \in {"unlock", "un_check", "un_store"} => t \in writers
  /\ pc[t] = "tl_busy" => owed[t] <= left[t]

IInv == TypeOK /\ Exclusion /\ \A t \in Threads : MayStand(t)

-----------------------------------------------------------------------------
LEMMA InitIInv == Init => IInv
BY MutexAssumption DEF Init, IInv, TypeOK, Exclusion, MayStand, Labels

\* A step that leaves the word and the holder alone, and at most the
\* countdowns of its own thread different.
LEMMA QuietStep ==
  ASSUME IInv, NEW t \in Threads, NEW label \in Labels \ {"trap"},
         label \in {"unlock", "un_check", "un_store"} => t \in writers,
         Goto(t, label), UNCHANGED <<mutex, writers>>,
         label = "tl_busy" => owed'[t] <= left'[t],
         left' \in [Threads -> 0..Timeout], owed' \in [Threads -> 0..Timeout],
         \A u \in Threads \ {t} : left'[u] = left[u] /\ owed'[u] = owed[u]
  PROVE  IInv'
<1>1. TypeOK'
  BY DEF IInv, TypeOK, Goto
<1>2. Exclusion'
  BY DEF IInv, TypeOK, Exclusion, Goto
<1>3. \A u \in Threads : MayStand(u)'
  BY DEF IInv, TypeOK, MayStand, Goto
<1>. QED BY <1>1, <1>2, <1>3 DEF IInv

\* The same for the steps that change pc only, when their check passes.
LEMMA CheckStep ==
  ASSUME IInv, NEW t \in Threads, NEW ok, ok = TRUE,
         NEW label \in Labels \ {"trap", "tl_busy"},
         label \in {"unlock", "un_check", "un_store"} => t \in writers,
         Check(t, ok, label)
  PROVE  IInv'
<1>1. Goto(t, label) /\ UNCHANGED <<mutex, left, writers, owed>>
  BY DEF Check
<1>2. left' \in [Threads -> 0..Timeout] /\ owed' \in [Threads -> 0..Timeout]
  BY <1>1 DEF IInv, TypeOK
<1>. QED BY <1>1, <1>2, QuietStep

\* The CAS that takes the lock finds it free, hence held by nobody.
LEMMA GrantStep ==
  ASSUME IInv, NEW t \in Threads, Grant(t)
  PROVE  IInv'
<1>1. writers = {} /\ writers' = {t} /\ mutex' = 1 /\ UNCHANGED <<left, owed>>
  BY DEF Grant, IInv, TypeOK, Exclusion
<1>2. TypeOK'
  BY <1>1 DEF Grant, Goto, IInv, TypeOK, Labels
<1>3. Exclusion'
  BY <1>1 DEF Grant, Goto, IInv, TypeOK, Exclusion
<1>4. \A u \in Threads : MayStand(u)'
  BY <1>1 DEF Grant, Goto, IInv, TypeOK, MayStand
<1>. QED BY <1>2, <1>3, <1>4 DEF IInv

\* The store of zero is the holder's own.
LEMMA UnStoreStep ==
  ASSUME IInv, NEW t \in Threads, UnStore(t)
  PROVE  IInv'
<1>1. /\ writers = {t} /\ writers' = {} /\ mutex' = 0 /\ UNCHANGED <<left, owed>>
      /\ pc' = [pc EXCEPT ![t] = "idle"]
  BY DEF UnStore, Goto, IInv, TypeOK, Exclusion, MayStand
<1>2. TypeOK'
  BY <1>1 DEF IInv, TypeOK, Labels
<1>3. Exclusion'
  BY <1>1 DEF IInv, TypeOK, Exclusion
<1>4. \A u \in Threads : MayStand(u)'
  BY <1>1 DEF IInv, TypeOK, MayStand
<1>. QED BY <1>2, <1>3, <1>4 DEF IInv

-----------------------------------------------------------------------------
LEMMA CallStep ==
  ASSUME IInv, NEW t \in Threads, CallLock(t) \/ CallUnlock(t)
  PROVE  IInv'
<1>1. ASSUME NEW op \in Ops, Call(t, op) PROVE IInv'
  <2>1. /\ op \in Labels \ {"trap", "tl_busy"}
        /\ op \notin {"unlock", "un_check", "un_store"}
    BY MutexAssumption DEF Labels, AllOps
  <2>2. /\ left' \in [Threads -> 0..Timeout] /\ owed' \in [Threads -> 0..Timeout]
        /\ \A u \in Threads \ {t} : left'[u] = left[u] /\ owed'[u] = owed[u]
    BY <1>1, MutexAssumption DEF Call, IInv, TypeOK
  <2>. QED BY <1>1, <2>1, <2>2, QuietStep DEF Call
<1>2. CASE CallUnlock(t)
  BY <1>2, CheckStep DEF CallUnlock, Labels
<1>. QED BY <1>1, <1>2 DEF CallLock

LEMMA LockStep ==
  ASSUME IInv, NEW t \in Threads, Lock(t) \/ Trylock(t)
  PROVE  IInv'
<1>. USE DEF Labels, AllOps
<1>1. Consistent(mutex)
  BY DEF IInv, TypeOK, Consistent
<1>2. CASE LkEnter(t) \/ TryEnter(t)
  BY <1>1, <1>2, CheckStep DEF LkEnter, TryEnter
<1>3. CASE LkCas(t) \/ LkWait(t) \/ TryCas(t)
  BY <1>3, CheckStep, GrantStep DEF LkCas, LkWait, TryCas, Return
<1>. QED BY <1>2, <1>3 DEF Lock, Trylock

LEMMA TimedlockStep ==
  ASSUME IInv, NEW t \in Threads, Timedlock(t)
  PROVE  IInv'
<1>. USE DEF Labels, AllOps
<1>1. Consistent(mutex)
  BY DEF IInv, TypeOK, Consistent
<1>2. CASE TlEnter(t) \/ TlWait(t) \/ TlTimeout(t)
  BY <1>1, <1>2, CheckStep DEF TlEnter, TlWait, TlTimeout, Return
<1>3. CASE TlCas(t)
  BY <1>3, CheckStep, GrantStep DEF TlCas
<1>4. CASE TlLoad(t)
  <2>1. /\ left' \in [Threads -> 0..Timeout] /\ owed' \in [Threads -> 0..Timeout]
        /\ owed'[t] <= left'[t]
        /\ \A u \in Threads \ {t} : left'[u] = left[u] /\ owed'[u] = owed[u]
    BY <1>4, MutexAssumption DEF TlLoad, IInv, TypeOK
  <2>. QED BY <1>4, <2>1, QuietStep DEF TlLoad
<1>. QED BY <1>2, <1>3, <1>4 DEF Timedlock

LEMMA UnlockStep ==
  ASSUME IInv, NEW t \in Threads, Unlock(t)
  PROVE  IInv'
<1>1. Consistent(mutex)
  BY DEF IInv, TypeOK, Consistent
<1>2. CASE UnEnter(t) \/ UnCheck(t)
  <2>1. t \in writers /\ mutex = 1
    BY <1>2 DEF UnEnter, UnCheck, IInv, MayStand, Exclusion
  <2>. QED BY <1>1, <1>2, <2>1, CheckStep DEF UnEnter, UnCheck, Labels
<1>. QED BY <1>2, UnStoreStep DEF Unlock

LEMMA TickStep == IInv /\ Tick => IInv'
<1>. SUFFICES ASSUME IInv, Tick PROVE IInv'
  OBVIOUS
<1>1. \A n \in 0..Timeout : Down(n) \in 0..Timeout
  BY MutexAssumption DEF Down
<1>2. TypeOK'
  BY <1>1 DEF Tick, IInv, TypeOK
<1>3. \A t \in Threads : MayStand(t)'
  BY MutexAssumption DEF Tick, Down, IInv, TypeOK, MayStand
<1>. QED BY <1>2, <1>3 DEF Tick, IInv, Exclusion

LEMMA NextIInv == IInv /\ [Next]_vars => IInv'
<1>1. IInv /\ UNCHANGED vars => IInv'
  BY DEF vars, IInv, TypeOK, Exclusion, MayStand
<1>. QED BY <1>1, TickStep, CallStep, LockStep, TimedlockStep, UnlockStep
         DEF Next, Step

THEOREM Invariance == Spec => []IInv
BY InitIInv, NextIInv, PTL DEF Spec

-----------------------------------------------------------------------------
(* At most one thread has a wfe_mutex_lock, and the word says so. *)
THEOREM MutualExclusion == Spec => []Exclusion
BY Invariance, PTL DEF IInv

(* The word and the countdowns keep their types. *)
THEOREM TypeCorrect == Spec => []TypeOK
BY Invariance, PTL DEF IInv

(* A timedlock returns false only when its whole timeout has passed. *)
THEOREM NoEarlyTimeout == Spec => TimedlockWaitsItOut
<1>. DEFINE InTime == \A t \in Threads :
       pc[t] \in {"tl_cas", "tl_wait", "tl_busy"} /\ pc'[t] = "idle"
       /\ writers' = writers => owed[t] = 0
<1>1. ASSUME IInv, Next PROVE InTime
  <2>. SUFFICES ASSUME NEW u \in Threads,
                       pc[u] \in {"tl_cas", "tl_wait", "tl_busy"},
                       pc'[u] = "idle", writers' = writers
                PROVE  owed[u] = 0
    OBVIOUS
  <2>1. ASSUME NEW t \in Threads, t # u, NEW label, Goto(t, label) PROVE FALSE
    BY <1>1, <2>1 DEF Goto, IInv, TypeOK
  <2>2. ~ Tick
    BY DEF Tick
  <2>3. PICK t \in Threads : CallLock(t) \/ CallUnlock(t) \/ Step(t)
    BY <1>1, <2>2 DEF Next
  <2>4. \E label : Goto(t, label)
    <3>1. CASE CallLock(t) \/ CallUnlock(t)
      BY <3>1 DEF CallLock, Call, CallUnlock, Check
    <3>2. CASE Lock(t) \/ Trylock(t)
      BY <3>2 DEF Lock, LkEnter, LkCas, LkWait, Trylock, TryEnter, TryCas, Grant,
         Return, Check
    <3>3. CASE Timedlock(t) \/ Unlock(t)
      BY <3>3 DEF Timedlock, TlEnter, TlCas, TlLoad, TlWait, TlTimeout, Unlock,
         UnEnter, UnCheck, UnStore, Grant, Return, Check
    <3>. QED BY <2>3, <3>1, <3>2, <3>3 DEF Step
  <2>5. t = u
    BY <2>1, <2>4
  <2>6. ~ Grant(u)
    BY <1>1 DEF Grant, IInv, Exclusion
  <2>7. TlTimeout(u)
    BY <1>1, <2>3, <2>5, <2>6 DEF CallLock, Call, CallUnlock, Step, Lock, LkEnter,
       LkCas, LkWait, Trylock, TryEnter, TryCas, Timedlock, TlEnter, TlCas, TlLoad,
       TlWait, TlTimeout, Unlock, UnEnter, UnCheck, UnStore, Check, Goto, IInv, TypeOK
  <2>8. owed[u] <= left[u] /\ left[u] = 0 /\ owed[u] \in 0..Timeout
    BY <1>1, <2>7 DEF TlTimeout, IInv, MayStand, TypeOK
  <2>. QED BY <2>8, MutexAssumption
<1>2. UNCHANGED vars => InTime
  BY DEF vars
<1>3. IInv /\ [Next]_vars => [InTime]_vars
  BY <1>1, <1>2
<1>. QED BY <1>3, Invariance, PTL DEF Spec, TimedlockWaitsItOut
(* Each successful CAS is one AcquireWrite of the abstract lock, each store *)
(* of zero one ReleaseWrite, and nothing else changes who has it.           *)
THEOREM Implements == Spec => ImplementsSharedMutex
<1>. USE DEF Abs!absVars
<1>1. Init => Abs!Init
  BY DEF Init, Abs!Init
<1>2. ASSUME IInv, NEW t \in Threads, Grant(t) PROVE Abs!Next
  <2>1. Abs!AcquireWrite(t)
    BY <1>2 DEF Grant, IInv, TypeOK, Exclusion, Abs!AcquireWrite
  <2>. QED BY <2>1 DEF Abs!Next
<1>3. ASSUME IInv, NEW t \in Threads, UnStore(t) PROVE Abs!Next
  <2>1. Abs!ReleaseWrite(t)
    BY <1>3 DEF UnStore, IInv, TypeOK, Exclusion, MayStand, Abs!ReleaseWrite
  <2>. QED BY <2>1 DEF Abs!Next
<1>4. ASSUME IInv, Next PROVE Abs!Next \/ UNCHANGED writers
  <2>1. CASE Tick
    BY <2>1 DEF Tick
  <2>2. ASSUME NEW t \in Threads, CallLock(t) \/ CallUnlock(t)
        PROVE  UNCHANGED writers
    BY <2>2 DEF CallLock, Call, CallUnlock, Check
  <2>3. ASSUME NEW t \in Threads, Lock(t) \/ Trylock(t)
        PROVE  Abs!Next \/ UNCHANGED writers
    BY <1>2, <1>4, <2>3 DEF Lock, LkEnter, LkCas, LkWait, Trylock, TryEnter,
       TryCas, Return, Check
  <2>4. ASSUME NEW t \in Threads, Timedlock(t)
        PROVE  Abs!Next \/ UNCHANGED writers
    BY <1>2, <1>4, <2>4 DEF Timedlock, TlEnter, TlCas, TlLoad, TlWait, TlTimeout,
       Return, Check
  <2>5. ASSUME NEW t \in Threads, Unlock(t) PROVE Abs!Next \/ UNCHANGED writers
    BY <1>3, <1>4, <2>5 DEF Unlock, UnEnter, UnCheck, Check
  <2>. QED BY <1>4, <2>1, <2>2, <2>3, <2>4, <2>5 DEF Next, Step
<1>5. IInv /\ [Next]_vars => [Abs!Next]_(Abs!absVars)
  BY <1>4 DEF vars
<1>. QED BY <1>1, <1>5, Invariance, PTL DEF Spec, Abs!Spec, ImplementsSharedMutex
=============================================================================
