-------------------------- MODULE RwLockOrderProofs --------------------------
(***************************************************************************)
(* Theorems about RwLockTimed and RwLockOrder, for any finite set of       *)
(* threads, any timeout and any position of the top bit: that timedwrlock  *)
(* waits its timeout out, and that whoever is inside knows every write.    *)
(* Both rest on the invariant of RwLockProofs, which the steps of these    *)
(* modules keep because they are steps of RwLock.                          *)
(***************************************************************************)
EXTENDS RwLockOrder, RwLockProofs

LEMMA TimedIsStep == TNext => [Next]_vars
<1>1. ASSUME NEW t \in Threads, TStep(t) PROVE Step(t)
  BY <1>1 DEF TStep, TwTimer, TwDeadline, Untimed, Step, Timedwrlock
<1>2. ASSUME NEW t \in Threads, TCall(t) \/ TRelease(t)
      PROVE  CallLock(t) \/ CallRelease(t)
  BY <1>2 DEF TCall, TRelease
<1>. QED BY <1>1, <1>2 DEF TNext, Next, Tick

LEMMA StillLock == TSpec => Spec
<1>1. TInit => Init
  BY DEF TInit
<1>2. UNCHANGED timedVars => UNCHANGED vars
  BY DEF timedVars, vars
<1>. QED BY <1>1, <1>2, TimedIsStep, PTL DEF TSpec, Spec

-----------------------------------------------------------------------------
(* The timeout. *)

\* The deadline of a wait is not before the end of what its caller is owed.
DeadlineLate ==
  /\ left \in [Threads -> 0..Timeout]
  /\ owed \in [Threads -> 0..Timeout]
  /\ \A t \in Threads : pc[t] = "tw_busy" => owed[t] <= left[t]

\* A step that sends its thread anywhere but into the wait, the times kept.
LEMMA LateElsewhere ==
  ASSUME TypeOK, DeadlineLate, NEW t \in Threads, NEW label,
         label # "tw_busy", Goto(t, label), UNCHANGED <<left, owed>>
  PROVE  DeadlineLate'
BY DEF DeadlineLate, Goto, TypeOK

\* Where a step that is not the start of the wait goes.
LEMMA UntimedGoes ==
  ASSUME TypeOK, NEW t \in Threads, Untimed(t) \/ TwDeadline(t) \/ TRelease(t)
  PROVE  \E label : label # "tw_busy" /\ Goto(t, label)
<1>1. CASE Rdlock(t) \/ TrylockShared(t)
  BY <1>1 DEF Rdlock, RdEnter, RdCasFree, RdCas, RdWait, TrylockShared, TsEnter,
     TsLoad, TsCas, Check, Expect, GrantRead, Return
<1>2. CASE Wrlock(t) \/ Trylock(t) \/ TwEnter(t) \/ TwCas(t)
  BY <1>2 DEF Wrlock, WrEnter, WrCas, WrWait, Trylock, TryEnter, TryCas, TwEnter,
     TwCas, Check, GrantWrite, Return
<1>3. CASE Unlock(t) \/ ReadUnlock(t)
  BY <1>3 DEF Unlock, UnEnter, UnCheck, UnStore, ReadUnlock, RuEnter, RuCheck,
     RuSub, Check
<1>4. CASE CallRelease(t)
  BY <1>4 DEF CallRelease, CallUnlock, CallReadUnlock
<1>5. CASE TwTimeout(t)
  BY <1>5 DEF TwTimeout, Return
<1>6. CASE TwWait(t) /\ pc'[t] = "timedwrlock"
  <2>1. CASE mutex = 0 /\ Check(t, TRUE, "timedwrlock")
    BY <2>1 DEF Check
  <2>2. CASE pc[t] = "tw_wait" /\ Check(t, TRUE, "tw_busy")
    BY <1>6, <2>2 DEF Check, Goto, TypeOK
  <2>. QED BY <1>6, <2>1, <2>2 DEF TwWait
<1>. QED BY <1>1, <1>2, <1>3, <1>4, <1>5, <1>6 DEF Untimed, TwDeadline, TRelease

LEMMA NextLate == TypeOK /\ DeadlineLate /\ [TNext]_timedVars => DeadlineLate'
<1>. SUFFICES ASSUME TypeOK, DeadlineLate, [TNext]_timedVars PROVE DeadlineLate'
  OBVIOUS
<1>1. CASE UNCHANGED timedVars
  BY <1>1 DEF timedVars, DeadlineLate
<1>2. CASE Tick
  <2>1. \A n \in 0..Timeout : Down(n) \in 0..Timeout
    BY TimeoutAssumption DEF Down
  <2>2. \A m, n \in 0..Timeout : m <= n => Down(m) <= Down(n)
    BY TimeoutAssumption DEF Down
  <2>. QED BY <1>2, <2>1, <2>2 DEF Tick, vars, DeadlineLate
<1>3. ASSUME NEW t \in Threads, TCall(t) PROVE DeadlineLate'
  <2>1. PICK op \in Ops : Goto(t, op)
    BY <1>3 DEF TCall, CallLock, Call
  <2>2. op # "tw_busy" /\ pc' = [pc EXCEPT ![t] = op]
    BY <2>1, RwAssumption DEF AllOps, Goto
  <2>3. owed' \in [Threads -> 0..Timeout]
    BY <1>3, TimeoutAssumption DEF TCall, DeadlineLate
  <2>4. \A u \in Threads \ {t} : owed'[u] = owed[u]
    BY <1>3 DEF TCall, DeadlineLate
  <2>. QED BY <1>3, <2>2, <2>3, <2>4 DEF TCall, DeadlineLate, TypeOK
<1>4. ASSUME NEW t \in Threads, TwTimer(t) PROVE DeadlineLate'
  <2>1. \E label : Goto(t, label)
    BY <1>4 DEF TwTimer, TwWait, Check
  <2>2. \A u \in Threads \ {t} : pc'[u] = pc[u]
    BY <2>1 DEF Goto, TypeOK
  <2>. QED BY <1>4, <2>2, TimeoutAssumption DEF TwTimer, DeadlineLate
<1>5. ASSUME NEW t \in Threads, Untimed(t) \/ TwDeadline(t) \/ TRelease(t)
      PROVE  DeadlineLate'
  <2>1. UNCHANGED <<left, owed>>
    BY <1>5 DEF Untimed, TwDeadline, TRelease
  <2>. QED BY <1>5, <2>1, UntimedGoes, LateElsewhere
<1>. QED BY <1>1, <1>2, <1>3, <1>4, <1>5 DEF TNext, TStep

LEMMA TimedInvariance == TSpec => [](IInv /\ DeadlineLate)
<1>1. TInit => DeadlineLate
  BY TimeoutAssumption DEF TInit, Init, DeadlineLate
<1>2. TSpec => []IInv
  BY StillLock, Invariance, PTL
<1>3. IInv => TypeOK
  BY DEF IInv
<1>. QED BY <1>1, <1>2, <1>3, NextLate, PTL DEF TSpec
\* What a step that ends a timedwrlock without the lock can be.
LEMMA GivingUp ==
  ASSUME IInv, TNext, NEW u \in Threads,
         InTimedwrlock(u), pc'[u] = "idle", writers' = writers
  PROVE  TwDeadline(u)
<1>1. ASSUME NEW t \in Threads, NEW label, Goto(t, label) PROVE t = u
  BY <1>1 DEF Goto, IInv, TypeOK, InTimedwrlock
<1>2. ~ Tick
  BY DEF Tick, vars, InTimedwrlock
<1>3. PICK t \in Threads : TCall(t) \/ TRelease(t) \/ TStep(t)
  BY <1>2 DEF TNext
<1>4. CASE TCall(t)
  BY <1>1, <1>4 DEF TCall, CallLock, Call, InTimedwrlock
<1>5. CASE TRelease(t) \/ Untimed(t)
  <2>1. t = u
    BY <1>1, <1>5, UntimedGoes DEF IInv
  <2>2. TwEnter(u) \/ TwCas(u) \/ (TwWait(u) /\ pc'[u] = "timedwrlock")
    BY <1>5, <2>1 DEF TRelease, CallRelease, CallUnlock, CallReadUnlock, Untimed,
       InTimedwrlock, Rdlock, RdEnter, RdCasFree, RdCas, RdWait, Wrlock, WrEnter,
       WrCas, WrWait, Trylock, TryEnter, TryCas, TrylockShared, TsEnter, TsLoad,
       TsCas, Unlock, UnEnter, UnCheck, UnStore, ReadUnlock, RuEnter, RuCheck, RuSub
  <2>3. CASE TwEnter(u)
    BY <2>3 DEF TwEnter, Check, Goto, IInv, TypeOK
  <2>4. CASE TwCas(u) /\ mutex = 0
    <3>1. writers = {} /\ writers' = writers \cup {u}
      BY <2>4, WordTells DEF TwCas, GrantWrite, IInv
    <3>. QED BY <3>1
  <2>5. CASE TwCas(u) /\ mutex # 0
    BY <2>5 DEF TwCas, Check, Goto, IInv, TypeOK
  <2>. QED BY <2>2, <2>3, <2>4, <2>5
<1>6. CASE TwTimer(t)
  <2>1. \E label : Goto(t, label)
    BY <1>6 DEF TwTimer, TwWait, Check
  <2>2. t = u
    BY <1>1, <2>1
  <2>. QED BY <1>6, <2>2 DEF TwTimer
<1>7. CASE TwDeadline(t)
  BY <1>1, <1>7, UntimedGoes DEF IInv
<1>. QED BY <1>3, <1>4, <1>5, <1>6, <1>7 DEF TStep

(* A timedwrlock returns false only when its whole timeout has passed.     *)
THEOREM WaitsItOut == TSpec => TimedwrlockWaitsItOut
<1>. DEFINE InTime == \A t \in Threads :
       InTimedwrlock(t) /\ pc'[t] = "idle" /\ writers' = writers => owed[t] = 0
<1>1. ASSUME IInv, DeadlineLate, TNext PROVE InTime
  <2>. SUFFICES ASSUME NEW u \in Threads, InTimedwrlock(u), pc'[u] = "idle",
                       writers' = writers
                PROVE  owed[u] = 0
    OBVIOUS
  <2>1. TwDeadline(u)
    BY <1>1, GivingUp
  <2>2. owed[u] <= left[u] /\ left[u] = 0 /\ owed[u] \in 0..Timeout
    BY <1>1, <2>1 DEF TwDeadline, TwTimeout, DeadlineLate
  <2>. QED BY <2>2, TimeoutAssumption
<1>2. UNCHANGED timedVars => InTime
  BY DEF timedVars, InTimedwrlock
<1>3. IInv /\ DeadlineLate /\ [TNext]_timedVars => [InTime]_timedVars
  BY <1>1, <1>2
<1>. QED BY <1>3, TimedInvariance, PTL DEF TSpec, TimedwrlockWaitsItOut
-----------------------------------------------------------------------------
(* The order.  The knowledge of all writes is with everybody inside, and   *)
(* in the word as long as no writer is.                                    *)
Seen ==
  /\ known \in [Threads -> SUBSET Accesses]
  /\ carried \in SUBSET Accesses
  /\ writers = {} => Writes \subseteq carried
  /\ WritesAreSeen

LEMMA OrderedIsStep == ONext => [TNext]_timedVars
<1>1. ASSUME NEW t \in Threads, OrderedStep(t) PROVE TStep(t)
  BY <1>1 DEF OrderedStep, TStep
<1>2. ASSUME NEW t \in Threads, NEW a, Access(t, a) PROVE UNCHANGED timedVars
  BY <1>2 DEF Access
<1>. QED BY <1>1, <1>2 DEF ONext, TNext

LEMMA StillTimed == OSpec => TSpec
<1>1. OInit => TInit
  BY DEF OInit
<1>2. UNCHANGED orderVars => UNCHANGED timedVars
  BY DEF orderVars, timedVars
<1>. QED BY <1>1, <1>2, OrderedIsStep, PTL DEF OSpec, TSpec

\* Nobody comes in, no writer leaves, nothing is learnt.
LEMMA SilentStep ==
  ASSUME Seen, Silent, reads' = reads, writers' = writers
  PROVE  Seen'
BY DEF Seen, Silent, WritesAreSeen, Inside, HasRead

\* What an acquire access does to the holds: only its own thread comes in,
\* while no writer is, and no writer leaves.
LEMMA WhoComesIn ==
  ASSUME IInv, NEW t \in Threads, pc[t] \in Acquires, Untimed(t) \/ TwTimer(t)
  PROVE  /\ writers' = {} => writers = {}
         /\ \A u \in Threads : Inside(u)' => Inside(u) \/ (u = t /\ writers = {})
<1>. USE DEF Inside, HasRead
<1>0. MayStand(t, pc[t], expected[t])
  BY DEF IInv, Local
<1>1. ASSUME NEW v, GrantRead(t, v), mutex < TopBit
      PROVE  /\ writers' = writers /\ writers = {}
             /\ \A u \in Threads : Inside(u)' => Inside(u) \/ u = t
  BY <1>1, WordTells DEF GrantRead, NewHold, IInv
<1>2. ASSUME GrantWrite(t), mutex = 0
      PROVE  /\ writers' # {} /\ writers = {}
             /\ \A u \in Threads : Inside(u)' => Inside(u) \/ u = t
  BY <1>2, WordTells DEF GrantWrite, IInv
<1>3. CASE RdCasFree(t) \/ RdCas(t) \/ RdWait(t) \/ TsLoad(t) \/ TsCas(t)
  <2>1. mutex = 0 => mutex < TopBit
    BY RwAssumption
  <2>. QED BY <1>0, <1>1, <1>3, <2>1 DEF RdCasFree, RdCas, RdWait, TsLoad, TsCas,
           MayStand, Expect, Return
<1>4. CASE WrCas(t) \/ WrWait(t) \/ TwCas(t) \/ TwWait(t) \/ TryCas(t)
  BY <1>2, <1>4 DEF WrCas, WrWait, TwCas, TwWait, TryCas, Check, Return
<1>5. CASE RuSub(t)
  BY <1>5 DEF RuSub
<1>6. RdCasFree(t) \/ RdCas(t) \/ RdWait(t) \/ TsLoad(t) \/ TsCas(t) \/ WrCas(t)
      \/ WrWait(t) \/ TwCas(t) \/ TwWait(t) \/ TryCas(t) \/ RuSub(t)
  BY DEF Acquires, Untimed, TwTimer, Rdlock, RdEnter, Wrlock, WrEnter, Trylock,
     TryEnter, TrylockShared, TsEnter, TwEnter, Unlock, UnEnter, UnCheck, UnStore,
     ReadUnlock, RuEnter, RuCheck
<1>. QED BY <1>3, <1>4, <1>5, <1>6

LEMMA AcquireSeen ==
  ASSUME IInv, Seen, NEW t \in Threads, pc[t] \in Acquires,
         Untimed(t) \/ TwTimer(t), Acquire(t)
  PROVE  Seen'
<1>1. known' \in [Threads -> SUBSET Accesses] /\ carried' = carried
  BY DEF Seen, Acquire
<1>2. \A u \in Threads : known[u] \subseteq known'[u]
  BY DEF Seen, Acquire
<1>3. writers = {} => Writes \subseteq known'[t]
  BY DEF Seen, Acquire
<1>4. WritesAreSeen'
  BY <1>2, <1>3, WhoComesIn DEF Seen, WritesAreSeen
<1>. QED BY <1>1, <1>4, WhoComesIn DEF Seen

LEMMA ReleaseSeen ==
  ASSUME IInv, Seen, NEW t \in Threads, pc[t] = "un_store", Untimed(t), Release(t)
  PROVE  Seen'
<1>1. UnStore(t)
  BY DEF Untimed, Rdlock, RdEnter, RdCasFree, RdCas, RdWait, Wrlock, WrEnter, WrCas,
     WrWait, Trylock, TryEnter, TryCas, TrylockShared, TsEnter, TsLoad, TsCas,
     TwEnter, TwCas, TwWait, Unlock, UnEnter, UnCheck, ReadUnlock, RuEnter, RuCheck,
     RuSub
<1>2. t \in writers
  BY DEF IInv, Local, MayStand
<1>3. \A u \in Threads : Inside(u)' => Inside(u)
  BY <1>1 DEF UnStore, Inside, HasRead
<1>4. Writes \subseteq carried' /\ carried' \in SUBSET Accesses /\ known' = known
  BY <1>2 DEF Release, Seen, WritesAreSeen, Inside
<1>. QED BY <1>3, <1>4 DEF Seen, WritesAreSeen

\* A read of the data is no write; a writer that writes is alone inside.
LEMMA AccessSeen ==
  ASSUME IInv, Seen, NEW t \in Threads, NEW a \in {"read", "write"}, Access(t, a)
  PROVE  Seen'
<1>1. UNCHANGED <<reads, writers>> /\ \A u \in Threads : Inside(u)' <=> Inside(u)
  BY DEF Access, timedVars, Inside, HasRead
<1>2. known' \in [Threads -> SUBSET Accesses] /\ carried' \in SUBSET Accesses
  BY DEF Access, Seen, Accesses
<1>3. CASE a = "read"
  <2>1. <<t, a>> \notin Writes
    BY <1>3 DEF Writes
  <2>2. \A u \in Threads : Writes \subseteq known[u] => Writes \subseteq known'[u]
    BY <2>1 DEF Access
  <2>3. Writes \subseteq carried => Writes \subseteq carried'
    BY <2>1 DEF Access
  <2>. QED BY <1>1, <1>2, <2>2, <2>3 DEF Seen, WritesAreSeen
<1>4. CASE a = "write"
  <2>1. t \in writers /\ \A u \in Threads : Inside(u) => u = t
    BY <1>4 DEF Access, IInv, TypeOK, Account, Exclusion, Inside, HasRead
  <2>2. Writes \subseteq known[t] => Writes \subseteq known'[t]
    BY DEF Access
  <2>. QED BY <1>1, <1>2, <2>1, <2>2 DEF Seen, WritesAreSeen
<1>. QED BY <1>3, <1>4

LEMMA NextSeen == IInv /\ Seen /\ [ONext]_orderVars => Seen'
<1>. SUFFICES ASSUME IInv, Seen, [ONext]_orderVars PROVE Seen'
  OBVIOUS
<1>1. CASE UNCHANGED orderVars
  BY <1>1, SilentStep DEF orderVars, Silent
<1>2. CASE Tick /\ Silent
  BY <1>2, SilentStep DEF Tick, vars
<1>3. ASSUME NEW t \in Threads, TCall(t) \/ TRelease(t), Silent PROVE Seen'
  BY <1>3, SilentStep DEF TCall, CallLock, Call, TRelease, CallRelease, CallUnlock,
     CallReadUnlock
<1>4. ASSUME NEW t \in Threads, pc[t] \in Checks, Untimed(t), Silent PROVE Seen'
  <2>1. RdEnter(t) \/ WrEnter(t) \/ TwEnter(t) \/ TryEnter(t) \/ TsEnter(t)
        \/ UnEnter(t) \/ UnCheck(t) \/ RuEnter(t) \/ RuCheck(t)
    BY <1>4 DEF Checks, AllOps, Untimed, Rdlock, RdCasFree, RdCas, RdWait, Wrlock,
       WrCas, WrWait, Trylock, TryCas, TrylockShared, TsLoad, TsCas, TwCas, TwWait,
       Unlock, UnStore, ReadUnlock, RuSub
  <2>. QED BY <1>4, <2>1, SilentStep DEF RdEnter, WrEnter, TwEnter, TryEnter, TsEnter,
           UnEnter, UnCheck, RuEnter, RuCheck, Check
<1>5. ASSUME NEW t \in Threads, TwDeadline(t), Silent PROVE Seen'
  BY <1>5, SilentStep DEF TwDeadline, TwTimeout, Return
<1>. QED BY <1>1, <1>2, <1>3, <1>4, <1>5, AcquireSeen, ReleaseSeen, AccessSeen
         DEF ONext, OrderedStep

(* Whoever is inside, to read or to write, knows every earlier write.      *)
THEOREM WritesSeen == OSpec => []WritesAreSeen
<1>1. OInit => Seen
  BY DEF OInit, TInit, Init, Seen, WritesAreSeen, Writes, Accesses
<1>2. OSpec => []IInv
  BY StillTimed, TimedInvariance, PTL
<1>. QED BY <1>1, <1>2, NextSeen, PTL DEF OSpec, Seen
=============================================================================
