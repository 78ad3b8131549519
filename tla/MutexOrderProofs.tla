-------------------------- MODULE MutexOrderProofs --------------------------
(***************************************************************************)
(* That data guarded by a wfe_mutex_lock is never raced for, whatever the  *)
(* number of threads.  The knowledge of all accesses travels from holder   *)
(* to holder: it is with the holder, or in the word while there is none.   *)
(***************************************************************************)
EXTENDS MutexOrder, MutexLockProofs

Travels ==
  /\ known \in [Threads -> SUBSET Threads]
  /\ carried \in SUBSET Threads
  /\ writers = {} => carried = Threads
  /\ NoDataRace

\* The steps of this module are steps of MutexLock, or leave it alone.
LEMMA RefinesLock == ONext => [Next]_vars
<1>1. ASSUME NEW t \in Threads, OrderedStep(t) PROVE Step(t)
  BY <1>1 DEF OrderedStep, Step, Lock, Trylock, Timedlock, Unlock
<1>2. ASSUME NEW t \in Threads, Access(t) PROVE UNCHANGED vars
  BY <1>2 DEF Access
<1>. QED BY <1>1, <1>2 DEF ONext, Next

LEMMA StillLock == OSpec => Spec
<1>1. OInit => Init
  BY DEF OInit
<1>2. UNCHANGED orderVars => UNCHANGED vars
  BY DEF orderVars, vars
<1>. QED BY <1>1, <1>2, RefinesLock, PTL DEF OSpec, Spec

-----------------------------------------------------------------------------
\* What happens to the knowledge when the holder does not change.
LEMMA SameHolder ==
  ASSUME Travels, UNCHANGED <<writers, known, carried>>
  PROVE  Travels'
BY DEF Travels, NoDataRace

\* An acquire by a thread that does not get the lock, or does and so finds
\* it free: it learns what the word carries, and forgets nothing.
LEMMA AcquireStep ==
  ASSUME IInv, Travels, NEW t \in Threads, Acquire(t),
         writers' = writers \/ (writers = {} /\ writers' = {t})
  PROVE  Travels'
<1>1. \A u \in Threads : known[u] \subseteq known'[u]
  BY DEF Travels, Acquire
<1>2. known' \in [Threads -> SUBSET Threads] /\ carried' = carried
  BY DEF Travels, Acquire
<1>3. writers = {} => known'[t] = Threads
  BY DEF Travels, Acquire
<1>4. \A u \in writers' : known'[u] = Threads
  <2>1. CASE writers' = writers
    <3>1. writers \subseteq Threads
      BY DEF IInv, TypeOK
    <3>. QED BY <1>1, <1>2, <2>1, <3>1 DEF Travels, NoDataRace
  <2>2. CASE writers = {} /\ writers' = {t}
    BY <1>3, <2>2
  <2>. QED BY <2>1, <2>2
<1>. QED BY <1>2, <1>4 DEF Travels, NoDataRace

LEMMA ReleaseStep ==
  ASSUME IInv, Travels, NEW t \in Threads, UnStore(t), Release(t)
  PROVE  Travels'
<1>1. t \in writers /\ writers' = {}
  BY DEF UnStore, IInv, MayStand, TypeOK, Exclusion
<1>2. carried' = Threads /\ known' = known
  BY <1>1 DEF Release, Travels, NoDataRace
<1>. QED BY <1>1, <1>2 DEF Travels, NoDataRace

\* Only the holder's access makes the others' knowledge old.
LEMMA AccessStep ==
  ASSUME IInv, Travels, NEW t \in Threads, Access(t)
  PROVE  Travels'
<1>1. writers = {t} /\ writers' = writers
  BY DEF Access, IInv, TypeOK, Exclusion, vars
<1>2. known' \in [Threads -> SUBSET Threads] /\ carried' \in SUBSET Threads
  BY DEF Access, Travels
<1>3. known'[t] = Threads
  BY <1>1 DEF Access, Travels, NoDataRace
<1>. QED BY <1>1, <1>2, <1>3 DEF Travels, NoDataRace

LEMMA OrderedTravels ==
  ASSUME IInv, Travels, NEW t \in Threads, OrderedStep(t)
  PROVE  Travels'
<1>1. CASE (LkCas(t) \/ LkWait(t) \/ TryCas(t) \/ TlCas(t) \/ TlLoad(t) \/ TlWait(t))
           /\ Acquire(t)
  <2>1. writers' = writers \/ (writers = {} /\ writers' = {t})
    BY <1>1 DEF LkCas, LkWait, TryCas, TlCas, TlLoad, TlWait, Grant, Return, Check,
       IInv, Exclusion
  <2>. QED BY <1>1, <2>1, AcquireStep
<1>2. CASE UnStore(t) /\ Release(t)
  BY <1>2, ReleaseStep
<1>3. CASE (LkEnter(t) \/ TryEnter(t) \/ TlEnter(t) \/ TlTimeout(t) \/ UnEnter(t)
            \/ UnCheck(t)) /\ UNCHANGED <<known, carried>>
  BY <1>3, SameHolder DEF LkEnter, TryEnter, TlEnter, TlTimeout, UnEnter, UnCheck,
     Return, Check
<1>. QED BY <1>1, <1>2, <1>3 DEF OrderedStep

LEMMA NextTravels == IInv /\ Travels /\ [ONext]_orderVars => Travels'
<1>. SUFFICES ASSUME IInv, Travels, [ONext]_orderVars PROVE Travels'
  OBVIOUS
<1>1. CASE UNCHANGED orderVars
  BY <1>1, SameHolder DEF orderVars
<1>2. CASE Tick /\ UNCHANGED <<known, carried>>
  BY <1>2, SameHolder DEF Tick
<1>3. ASSUME NEW t \in Threads, CallLock(t) \/ CallUnlock(t),
             UNCHANGED <<known, carried>>
      PROVE  Travels'
  BY <1>3, SameHolder DEF CallLock, Call, CallUnlock, Check
<1>. QED BY <1>1, <1>2, <1>3, OrderedTravels, AccessStep DEF ONext

-----------------------------------------------------------------------------
(* Whoever has the lock knows every earlier access to what it guards.      *)
THEOREM RaceFree == OSpec => []NoDataRace
<1>1. OInit => Travels
  BY DEF OInit, Init, Travels, NoDataRace
<1>2. OSpec => []IInv
  BY StillLock, Invariance, PTL
<1>. QED BY <1>1, <1>2, NextTravels, PTL DEF OSpec, Travels
=============================================================================
