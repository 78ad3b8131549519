-------------------------- MODULE RwMonitorProofs --------------------------
(***************************************************************************)
(* That the readers-writer lock on its real waits is the lock of RwLock,   *)
(* for any number of threads, any width of the count and on every backend. *)
(* A waiting thread is in rd_wait or wr_wait and waits for what that place *)
(* of the code waits for (WaitInv); its wait returns on a load that saw    *)
(* it, which is RwLock's RdWait or WrWait, and every other step of the     *)
(* wait leaves the lock alone.  That rdlock goes on with the value that    *)
(* was loaded takes that different words are different sets of bits        *)
(* (WordOneToOne), and that the word is one of them (IInv of RwLock).      *)
(***************************************************************************)
EXTENDS RwMonitor, RwLockProofs

-----------------------------------------------------------------------------
(* Words. *)

LEMMA WordMember ==
  ASSUME NEW v \in WordValues
  PROVE  /\ Word(v) \subseteq 1..TopBit
         /\ TopBit \in Word(v) <=> HasTop(v)
         /\ \A n \in 1..(TopBit - 1) : n \in Word(v) <=> n <= ClearTop(v)
         /\ ClearTop(v) \in 0..(TopBit - 1)
BY RwAssumption DEF Word, WordValues, HasTop, ClearTop

LEMMA WordOneToOne ==
  ASSUME NEW v \in WordValues, NEW u \in WordValues, Word(v) = Word(u)
  PROVE  v = u
<1>1. HasTop(v) <=> HasTop(u)
  BY WordMember
<1>2. ClearTop(v) = ClearTop(u)
  <2>1. ASSUME NEW a \in WordValues, NEW b \in WordValues, Word(a) = Word(b)
        PROVE  ~(ClearTop(a) < ClearTop(b))
    <3>1. SUFFICES ASSUME ClearTop(a) < ClearTop(b) PROVE FALSE
      OBVIOUS
    <3>2. ClearTop(a) \in 0..(TopBit - 1) /\ ClearTop(b) \in 0..(TopBit - 1)
      BY WordMember
    <3>3. ClearTop(b) \in 1..(TopBit - 1) /\ ~(ClearTop(b) <= ClearTop(a))
      BY <3>1, <3>2, RwAssumption
    <3>4. ClearTop(b) \in Word(b) /\ ClearTop(b) \notin Word(a)
      BY <3>2, <3>3, WordMember, RwAssumption
    <3>. QED BY <2>1, <3>4
  <2>2. ClearTop(v) \in Int /\ ClearTop(u) \in Int
    BY WordMember
  <2>. QED BY <2>1, <2>2
<1>. QED BY <1>1, <1>2, RwAssumption DEF ClearTop, WordValues

LEMMA WordIsZero ==
  ASSUME NEW v \in WordValues
  PROVE  Word(v) = {} <=> v = 0
<1>1. 0 \in WordValues /\ Word(0) = {}
  BY RwAssumption DEF WordValues, Word, HasTop
<1>. QED BY <1>1, WordOneToOne

-----------------------------------------------------------------------------
(* The invariant. *)

Ongoing == {"load", "arm", "recheck", "sleep", "reload"}

\* A thread in a wait is where the lock waits, for what it waits for there.
WaitsRightly(t) ==
  phase[t] # "idle" =>
    /\ phase[t] \in Ongoing
    /\ \/ pc[t] = "rd_wait" /\ kind[t] = "bit_not_set" /\ want[t] = TopClear
       \/ pc[t] = "wr_wait" /\ kind[t] = "value" /\ want[t] = Zero

WaitInv ==
  /\ phase \in [Threads -> M!Labels]
  /\ kind \in [Threads -> {"value", "bit_not_set"}]
  /\ DOMAIN want = Threads
  /\ DOMAIN result = Threads
  /\ \A t \in Threads : WaitsRightly(t)

\* The word has what the thread waits for exactly if the lock may go on.
LEMMA WantIsMet ==
  ASSUME TypeOK
  PROVE  /\ Word(mutex) \in TopClear <=> ~HasTop(mutex)
         /\ Word(mutex) \in Zero <=> mutex = 0
<1>1. mutex \in WordValues
  BY DEF TypeOK, WordValues
<1>. QED BY <1>1, WordMember, WordIsZero DEF TopClear, Zero, M!Words

-----------------------------------------------------------------------------
(* The steps of the lock. *)

\* A step of the lock leaves the waits as they are, but for the word.
LEMMA LockKeeps ==
  ASSUME WaitInv, pc \in [Threads -> Labels], NEW t \in Threads, NEW label,
         phase[t] = "idle", pc' = [pc EXCEPT ![t] = label],
         UNCHANGED <<phase, kind, want, result>>
  PROVE  WaitInv'
<1>. SUFFICES ASSUME NEW u \in Threads PROVE WaitsRightly(u)'
  BY DEF WaitInv
<1>1. CASE u = t
  BY <1>1 DEF WaitsRightly
<1>2. CASE u # t
  BY <1>2 DEF WaitInv, WaitsRightly
<1>. QED BY <1>1, <1>2

LEMMA NotInWait ==
  ASSUME WaitInv, NEW t \in Threads, pc[t] \notin {"rd_wait", "wr_wait"}
  PROVE  phase[t] = "idle"
BY DEF WaitInv, WaitsRightly

LEMMA AccessGoes ==
  ASSUME NEW t \in Threads, Access(t)
  PROVE  /\ Step(t)
         /\ pc[t] \notin {"rd_wait", "wr_wait"}
         /\ \E label : pc' = [pc EXCEPT ![t] = label]
<1>1. Step(t)
  BY DEF Access, Step, Rdlock, Wrlock
<1>2. CASE RdEnter(t) \/ RdCasFree(t) \/ RdCas(t) \/ WrEnter(t) \/ WrCas(t)
  BY <1>1, <1>2 DEF RdEnter, RdCasFree, RdCas, WrEnter, WrCas, GrantRead, GrantWrite,
     Check, Expect, Goto
<1>3. CASE Trylock(t) \/ TrylockShared(t)
  BY <1>1, <1>3 DEF Trylock, TryEnter, TryCas, TrylockShared, TsEnter, TsLoad, TsCas,
     GrantRead, GrantWrite, Return, Check, Expect, Goto
<1>4. CASE Unlock(t) \/ ReadUnlock(t)
  BY <1>1, <1>4 DEF Unlock, UnEnter, UnCheck, UnStore, ReadUnlock, RuEnter, RuCheck, RuSub,
     Check, Goto
<1>. QED BY <1>2, <1>3, <1>4 DEF Access

LEMMA LockStep ==
  ASSUME IInv, WaitInv, NEW t \in Threads,
         WCallLock(t) \/ WCallRelease(t) \/ Look(t) \/ Change(t)
  PROVE  WaitInv' /\ Next
<1>1. UNCHANGED <<phase, kind, want, result>>
  BY DEF WCallLock, WCallRelease, Look, Change, waitVars, M!Store, M!Args
<1>2. CASE WCallLock(t) \/ WCallRelease(t)
  <2>1. pc[t] = "idle" /\ \E label : pc' = [pc EXCEPT ![t] = label]
    BY <1>2 DEF WCallLock, WCallRelease, CallLock, Call, CallRelease, CallUnlock,
       CallReadUnlock, Goto
  <2>2. phase[t] = "idle"
    BY <2>1, NotInWait
  <2>. QED BY <1>1, <1>2, <2>1, <2>2, LockKeeps
           DEF WCallLock, WCallRelease, Next, IInv, TypeOK
<1>3. CASE Look(t) \/ Change(t)
  <2>1. Access(t)
    BY <1>3 DEF Look, Change
  <2>2. phase[t] = "idle"
    BY <2>1, AccessGoes, NotInWait
  <2>. QED BY <1>1, <2>1, <2>2, AccessGoes, LockKeeps DEF Next, IInv, TypeOK
<1>. QED BY <1>2, <1>3

-----------------------------------------------------------------------------
(* The steps of the waits. *)

LEMMA StartStep ==
  ASSUME WaitInv, NEW t \in Threads, RdStart(t) \/ WrStart(t)
  PROVE  WaitInv' /\ UNCHANGED vars
<1>1. /\ phase' = [phase EXCEPT ![t] = "load"]
      /\ UNCHANGED <<pc, result>>
      /\ \/ /\ pc[t] = "rd_wait" /\ kind' = [kind EXCEPT ![t] = "bit_not_set"]
            /\ want' = [want EXCEPT ![t] = TopClear]
         \/ /\ pc[t] = "wr_wait" /\ kind' = [kind EXCEPT ![t] = "value"]
            /\ want' = [want EXCEPT ![t] = Zero]
  BY DEF RdStart, WrStart, M!Call, M!Goto, M!Spin, vars
<1>2. UNCHANGED vars
  BY DEF RdStart, WrStart
<1>3. WaitInv'
  BY <1>1 DEF WaitInv, WaitsRightly, M!Labels, Ongoing, TopClear, M!Words
<1>. QED BY <1>2, <1>3

\* Where a step of a wait leads: on, or out with the word it saw.
LEMMA WaitLeads ==
  ASSUME WaitInv, NEW t \in Threads,
         M!Run(t) \/ M!WakeMonitor(t) \/ M!WakeSpurious(t)
  PROVE  /\ phase[t] # "idle"
         /\ UNCHANGED <<kind, want>> /\ DOMAIN result' = Threads
         /\ \/ \E label \in Ongoing : phase' = [phase EXCEPT ![t] = label]
            \/ /\ Word(mutex) \in want[t]
               /\ phase' = [phase EXCEPT ![t] = "idle"]
               /\ result' = [result EXCEPT ![t] = Word(mutex)]
<1>. USE DEF Ongoing, M!Goto, M!Finish, M!Continue, M!Args
<1>1. ASSUME phase[t] # "idle"
      PROVE  kind[t] \in {"value", "bit_not_set"} /\ phase[t] \in Ongoing /\ ~M!Timed(t)
  BY <1>1 DEF WaitInv, WaitsRightly, M!Timed
<1>2. DOMAIN result = Threads
  BY DEF WaitInv
<1>3. CASE M!Load(t)
  BY <1>1, <1>2, <1>3 DEF M!Load
<1>4. CASE M!ArmMonitor(t)
  BY <1>1, <1>2, <1>4 DEF M!ArmMonitor
<1>5. CASE M!Recheck(t)
  BY <1>1, <1>2, <1>5 DEF M!Recheck
<1>6. CASE M!Reload(t)
  BY <1>1, <1>2, <1>6 DEF M!Reload
<1>7. CASE M!WakeMonitor(t) \/ M!WakeSpurious(t)
  BY <1>1, <1>2, <1>7 DEF M!WakeMonitor, M!WakeSpurious, M!Wake
<1>8. ~ M!Clock(t) /\ ~ M!Check(t)
  BY <1>1 DEF M!Clock, M!Check
<1>. QED BY <1>3, <1>4, <1>5, <1>6, <1>7, <1>8 DEF M!Run

LEMMA InWaitStep ==
  ASSUME IInv, WaitInv, NEW t \in Threads,
         NEW A, A => M!Run(t) \/ M!WakeMonitor(t) \/ M!WakeSpurious(t),
         InWait(t, A)
  PROVE  WaitInv' /\ (Next \/ UNCHANGED vars)
<1>1. /\ phase[t] # "idle" /\ UNCHANGED <<kind, want>> /\ DOMAIN result' = Threads
      /\ \/ \E label \in Ongoing : phase' = [phase EXCEPT ![t] = label]
         \/ /\ Word(mutex) \in want[t]
            /\ phase' = [phase EXCEPT ![t] = "idle"]
            /\ result' = [result EXCEPT ![t] = Word(mutex)]
  BY WaitLeads DEF InWait
<1>2. t \in DOMAIN phase /\ pc \in [Threads -> Labels] /\ mutex \in WordValues
  BY DEF WaitInv, IInv, TypeOK, WordValues
<1>3. \/ pc[t] = "rd_wait" /\ want[t] = TopClear
      \/ pc[t] = "wr_wait" /\ want[t] = Zero
  BY <1>1 DEF WaitInv, WaitsRightly
<1>4. ASSUME NEW label \in Ongoing, phase' = [phase EXCEPT ![t] = label]
      PROVE  WaitInv' /\ UNCHANGED vars
  <2>1. UNCHANGED vars
    BY <1>2, <1>4 DEF InWait, Ongoing
  <2>2. WaitInv'
    BY <1>1, <1>4, <2>1 DEF WaitInv, WaitsRightly, Ongoing, M!Labels, vars, TopClear, M!Words
  <2>. QED BY <2>1, <2>2
<1>5. ASSUME Word(mutex) \in want[t], phase' = [phase EXCEPT ![t] = "idle"],
             result' = [result EXCEPT ![t] = Word(mutex)]
      PROVE  WaitInv' /\ Next
  <2>1. Over(t) /\ result'[t] = Word(mutex)
    BY <1>2, <1>5 DEF InWait, WaitInv
  <2>2. \E label : pc' = [pc EXCEPT ![t] = label]
    BY <2>1 DEF Over, Expect, Check, Goto
  <2>3. WaitInv'
    <3>. SUFFICES ASSUME NEW u \in Threads PROVE WaitsRightly(u)'
      BY <1>1, <1>5 DEF WaitInv, M!Labels
    <3>1. CASE u = t
      BY <1>2, <1>5, <3>1 DEF WaitsRightly, WaitInv
    <3>2. CASE u # t
      BY <1>1, <1>2, <1>5, <2>2, <3>2 DEF WaitInv, WaitsRightly, TopClear, M!Words
    <3>. QED BY <3>1, <3>2
  <2>4. CASE pc[t] = "rd_wait"
    <3>1. PICK v \in WordValues :
            Word(v) = result'[t] /\ Expect(t, v, IF Consistent(v) THEN "rd_cas" ELSE "trap")
      BY <2>1, <2>4 DEF Over
    <3>2. v = mutex
      BY <1>2, <2>1, <3>1, WordOneToOne
    <3>3. ~HasTop(mutex)
      BY <1>3, <1>5, <2>4, WantIsMet DEF IInv
    <3>4. RdWait(t)
      BY <2>4, <3>1, <3>2, <3>3 DEF RdWait
    <3>. QED BY <2>3, <3>4 DEF Next, Step, Rdlock
  <2>5. CASE pc[t] = "wr_wait"
    <3>1. mutex = 0
      BY <1>3, <1>5, <2>5, WantIsMet DEF IInv
    <3>2. WrWait(t)
      BY <2>1, <2>5, <3>1 DEF Over, WrWait
    <3>. QED BY <2>3, <3>2 DEF Next, Step, Wrlock
  <2>. QED BY <1>3, <2>4, <2>5
<1>. QED BY <1>1, <1>4, <1>5

-----------------------------------------------------------------------------
LEMMA InitWait == WInit => Init /\ WaitInv
BY DEF WInit, M!Init, WaitInv, WaitsRightly, M!Labels

LEMMA NextWait == IInv /\ WaitInv /\ [WNext]_allVars => WaitInv' /\ [Next]_vars
<1>. SUFFICES ASSUME IInv, WaitInv, [WNext]_allVars PROVE WaitInv' /\ [Next]_vars
  OBVIOUS
<1>1. CASE UNCHANGED allVars
  BY <1>1 DEF allVars, waitVars, vars, WaitInv, WaitsRightly, TopClear, M!Words
<1>2. ASSUME NEW t \in Threads,
             WCallLock(t) \/ WCallRelease(t) \/ WStep(t) \/ Woken(t)
      PROVE  WaitInv' /\ [Next]_vars
  <2>1. CASE WCallLock(t) \/ WCallRelease(t) \/ Look(t) \/ Change(t)
    BY <2>1, LockStep
  <2>2. CASE RdStart(t) \/ WrStart(t)
    BY <2>2, StartStep
  <2>3. CASE InWait(t, M!Run(t)) \/ InWait(t, M!WakeMonitor(t)) \/ InWait(t, M!WakeSpurious(t))
    BY <2>3, InWaitStep
  <2>. QED BY <1>2, <2>1, <2>2, <2>3 DEF WStep, Woken
<1>. QED BY <1>1, <1>2 DEF WNext

LEMMA WInvariance == WSpec => [](IInv /\ WaitInv) /\ [][Next]_vars
<1>1. WInit => IInv /\ WaitInv
  BY InitWait, InitIInv
<1>2. IInv /\ WaitInv /\ [WNext]_allVars => (IInv /\ WaitInv)' /\ [Next]_vars
  BY NextWait, NextIInv
<1>. QED BY <1>1, <1>2, PTL DEF WSpec

(* The readers-writer lock with its waits in full implements the lock that *)
(* takes them at their word, so all that is proved of RwLock is true of    *)
(* it.                                                                     *)
THEOREM WImplements == WSpec => ImplementsRwLock
BY InitWait, WInvariance, PTL DEF WSpec, ImplementsRwLock, Spec

(* On the real waits too: one writer or several readers, never both.       *)
THEOREM WMutualExclusion == WSpec => []Exclusion
BY WInvariance, PTL DEF IInv, Account

-----------------------------------------------------------------------------
(***************************************************************************)
(* The other half of the composition: what the waits do is what they do in *)
(* MonitorWait.  WP has the theorems of MonitorWaitProofs for the words of *)
(* the lock; the lemmas SameWaits say that it speaks of M.                 *)
(***************************************************************************)
WP == INSTANCE MonitorWaitProofs WITH
        mem <- Word(mutex), Waiters <- Threads, Bits <- 1..TopBit, Budgets <- {},
        Backoff <- 0, Kinds <- {"value", "bit_not_set"}, pc <- phase

LEMMA SameWaits ==
  ASSUME NEW t \in Threads
  PROVE  /\ M!Run(t) <=> WP!Run(t)
         /\ M!WakeMonitor(t) <=> WP!WakeMonitor(t)
         /\ M!WakeSpurious(t) <=> WP!WakeSpurious(t)
         /\ \A k, s : M!Call(t, k, s, 0) <=> WP!Call(t, k, s, 0)
         /\ \A v : M!Store(v) <=> WP!Store(v)
         /\ M!Init <=> WP!Init
BY DEF M!vars, WP!vars, M!Goto, WP!Goto, M!Args, WP!Args, M!Words, WP!Words,
            M!Spin, WP!Spin, M!Arm, WP!Arm, M!X86, WP!X86, M!Timed,
            WP!Timed, M!Cycles, WP!Cycles, M!AtMost, WP!AtMost,
            M!Finish, WP!Finish, M!Continue, WP!Continue, M!Call,
            WP!Call, M!Load, WP!Load, M!Clock, WP!Clock, M!ArmMonitor,
            WP!ArmMonitor, M!Recheck, WP!Recheck, M!Wake, WP!Wake,
            M!Reload, WP!Reload, M!PastDeadline, WP!PastDeadline,
            M!Check, WP!Check, M!WakeMonitor, WP!WakeMonitor,
            M!WakeSpurious, WP!WakeSpurious, M!Store, WP!Store, M!Run,
            WP!Run, M!Targets, WP!Targets,
       M!Init, WP!Init

LEMMA NextWaits ==
  ASSUME IInv, IInv', [WNext]_allVars
  PROVE  [WP!Next]_(WP!vars)
<1>1. ASSUME UNCHANGED <<mutex, waitVars>> PROVE UNCHANGED WP!vars
  BY <1>1 DEF waitVars, WP!vars
<1>2. CASE UNCHANGED allVars
  BY <1>1, <1>2 DEF allVars, vars
<1>3. ASSUME NEW t \in Threads,
             WCallLock(t) \/ WCallRelease(t) \/ WStep(t) \/ Woken(t)
      PROVE  WP!Next \/ UNCHANGED WP!vars
  <2>1. CASE WCallLock(t) \/ WCallRelease(t) \/ Look(t)
    BY <1>1, <2>1 DEF WCallLock, WCallRelease, CallLock, Call, CallRelease, CallUnlock,
       CallReadUnlock, Look
  <2>2. CASE Change(t)
    <3>1. Word(mutex') \in WP!Words
      BY WordMember DEF IInv, TypeOK, WordValues, WP!Words
    <3>. QED BY <2>2, <3>1, SameWaits DEF Change, WP!Next
  <2>3. CASE RdStart(t)
    <3>1. TopClear \in WP!Targets("bit_not_set")
      BY RwAssumption DEF TopClear, M!Words, WP!Words, WP!Targets
    <3>2. WP!CallAny(t)
      BY <2>3, <3>1, SameWaits DEF RdStart, WP!CallAny
    <3>. QED BY <3>2 DEF WP!Next
  <2>4. CASE WrStart(t)
    <3>1. Zero \in WP!Targets("value")
      BY DEF Zero, WP!Words, WP!Targets
    <3>2. WP!CallAny(t)
      BY <2>4, <3>1, SameWaits DEF WrStart, WP!CallAny
    <3>. QED BY <3>2 DEF WP!Next
  <2>5. CASE InWait(t, M!Run(t)) \/ InWait(t, M!WakeMonitor(t)) \/ InWait(t, M!WakeSpurious(t))
    BY <2>5, SameWaits DEF InWait, WP!Next
  <2>. QED BY <1>3, <2>1, <2>2, <2>3, <2>4, <2>5 DEF WStep, Woken
<1>. QED BY <1>2, <1>3 DEF WNext

\* The lock uses the waits as MonitorWait's callers do.
LEMMA WaitsImplement == WSpec => WP!Spec
<1>1. WInit => WP!Init
  BY SameWaits DEF WInit, M!Init, WP!Init
<1>2. IInv /\ IInv' /\ [WNext]_allVars => [WP!Next]_(WP!vars)
  BY NextWaits
<1>. QED BY <1>1, <1>2, WInvariance, PTL DEF WSpec, WP!Spec

(* No thread of the readers-writer lock sleeps on an armed monitor while   *)
(* the unlock that would let it go on has already happened: as long as the *)
(* holds fit below the top bit, whose unlock it sleeps for is still in.    *)
THEOREM WSleepersHaveHolder ==
  ASSUME Cardinality(Holds) < TopBit
  PROVE  WSpec => []SleepersHaveHolder
<1>1. WSpec => []WP!NoLostWakeup
  <2>1. WP!WaitAssumption
    BY RwMonitorAssumption DEF WP!WaitAssumption, WP!AllBackends, WP!AllKinds
  <2>. QED BY <2>1, WaitsImplement, WP!WakeupNotLost, PTL DEF WP!WaitAssumption
<1>2. WSpec => []TopBitMeansWriter
  BY TopBitTellsWriter, WImplements, PTL DEF ImplementsRwLock
<1>3. IInv /\ WaitInv /\ TopBitMeansWriter /\ WP!NoLostWakeup => SleepersHaveHolder
  <2>. SUFFICES ASSUME IInv, WaitInv, TopBitMeansWriter, WP!NoLostWakeup,
                       NEW t \in Threads, phase[t] = "sleep", armed[t]
                PROVE  writers # {} \/ (pc[t] = "wr_wait" /\ reads # {})
    BY DEF SleepersHaveHolder
  <2>1. Word(mutex) \notin want[t]
    BY DEF WP!NoLostWakeup
  <2>2. CASE pc[t] = "rd_wait" /\ want[t] = TopClear
    BY <2>1, <2>2, WantIsMet DEF IInv, TopBitMeansWriter
  <2>3. CASE pc[t] = "wr_wait" /\ want[t] = Zero
    <3>1. mutex # 0
      BY <2>1, <2>3, WantIsMet DEF IInv
    <3>2. Cardinality(reads) = 0 <=> reads = {}
      BY CountReads DEF IInv, TypeOK
    <3>. QED BY <2>3, <3>1, <3>2 DEF IInv, Account, WordCountsHolds
  <2>. QED BY <2>2, <2>3 DEF WaitInv, WaitsRightly
<1>. QED BY <1>1, <1>2, <1>3, WInvariance, PTL
=============================================================================
