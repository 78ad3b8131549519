---------------------------- MODULE RwLockProofs ----------------------------
(***************************************************************************)
(* Theorems about RwLock, for any finite set of threads, any number of     *)
(* read holds a thread may take and any position of the top bit.           *)
(*                                                                         *)
(* Exclusion alone is not inductive: that a CAS from 0 takes the write     *)
(* lock safely needs to know that 0 means nobody holds, so the word's      *)
(* account of the holds (WordCountsHolds) goes into the invariant; that a  *)
(* reader's CAS is safe needs its expected value to lack the top bit, and  *)
(* that an unlock is safe needs its caller to hold the lock (MayStand).    *)
(***************************************************************************)
EXTENDS RwLock, TLAPS, FiniteSetTheorems

\* Where a thread may be, and with which expected value: a reader's CAS can
\* only succeed on a word without the top bit, a thread that takes a read
\* lock has room to remember it, a thread in an unlock holds what it gives up.
ReadLabels == {"rdlock", "rd_cas_free", "rd_cas", "rd_wait",
               "trylock_shared", "ts_load", "ts_cas"}

MayStand(t, label, v) ==
  /\ label \in {"rd_cas", "ts_cas"} => v < TopBit
  /\ label \in ReadLabels => HasRoom(t)
  /\ label \in {"unlock", "un_check", "un_store"} => t \in writers
  /\ label \in {"read_unlock", "ru_check", "ru_sub"} => HasRead(t)

Local == \A t \in Threads : MayStand(t, pc[t], expected[t])
Account == Exclusion /\ WordCountsHolds

IInv == TypeOK /\ Account /\ Local
-----------------------------------------------------------------------------
(* The holds are finitely many, so they can be counted. *)
LEMMA HoldsFinite ==
  /\ IsFiniteSet(Holds)
  /\ Cardinality(Holds) \in Nat
<1>1. IsFiniteSet(Slots)
  BY FS_Interval, RwAssumption DEF Slots
<1>2. IsFiniteSet(Holds)
  BY <1>1, FS_Product, RwAssumption DEF Holds
<1>. QED BY <1>2, FS_CardinalityType

(* What a set of read holds counts, and how one more or one less changes it. *)
LEMMA CountReads ==
  ASSUME NEW R \in SUBSET Holds
  PROVE  /\ IsFiniteSet(R)
         /\ Cardinality(R) \in Nat
         /\ Cardinality(R) <= Cardinality(Holds)
         /\ Cardinality(R) = 0 <=> R = {}
         /\ \A h \in Holds \ R : Cardinality(R \cup {h}) = Cardinality(R) + 1
         /\ \A h \in R : Cardinality(R \ {h}) = Cardinality(R) - 1
<1>1. /\ IsFiniteSet(R)
      /\ Cardinality(R) <= Cardinality(Holds)
  BY HoldsFinite, FS_Subset
<1>2. Cardinality(R) \in Nat
  BY <1>1, FS_CardinalityType
<1>3. Cardinality(R) = 0 <=> R = {}
  BY <1>1, FS_EmptySet
<1>4. \A h \in Holds \ R : Cardinality(R \cup {h}) = Cardinality(R) + 1
  BY <1>1, FS_AddElement
<1>5. \A h \in R : Cardinality(R \ {h}) = Cardinality(R) - 1
  BY <1>1, FS_RemoveElement
<1>. QED BY <1>1, <1>2, <1>3, <1>4, <1>5

(* A thread with room gets a hold it does not have yet. *)
LEMMA NewHoldIsNew ==
  ASSUME NEW t \in Threads, HasRoom(t)
  PROVE  NewHold(t) \in Holds \ reads
<1>. DEFINE k == CHOOSE j \in Slots : <<t, j>> \notin reads
<1>1. k \in Slots /\ <<t, k>> \notin reads
  BY DEF HasRoom
<1>2. NewHold(t) = <<t, k>>
  BY DEF NewHold
<1>. HIDE DEF k
<1>. QED BY <1>1, <1>2 DEF Holds

(* A thread with read holds gives back one of its own. *)
LEMMA OldHoldIsOwn ==
  ASSUME NEW t \in Threads, HasRead(t)
  PROVE  OldHold(t) \in reads /\ \E k \in Slots : OldHold(t) = <<t, k>>
<1>. DEFINE k == CHOOSE j \in Slots : <<t, j>> \in reads
<1>1. k \in Slots /\ <<t, k>> \in reads
  BY DEF HasRead
<1>. QED BY <1>1 DEF OldHold

(* Below the top bit the word counts readers and nobody writes; at zero    *)
(* nobody holds at all.                                                    *)
LEMMA WordTells ==
  ASSUME TypeOK, Account
  PROVE  /\ mutex < TopBit => writers = {} /\ mutex = Cardinality(reads)
         /\ mutex = 0 => writers = {} /\ reads = {}
         /\ writers # {} => mutex = TopBit
         /\ mutex <= TopBit \/ writers = {}
  BY RwAssumption, CountReads DEF TypeOK, Account, WordCountsHolds

-----------------------------------------------------------------------------
(* The five kinds of step, each with what it needs to keep IInv. *)

\* A step that leaves the word and the holds alone.
LEMMA QuietStep ==
  ASSUME IInv, NEW t \in Threads, NEW label \in Labels,
         NEW v \in 0..(2 * TopBit - 1),
         MayStand(t, label, v),
         pc' = [pc EXCEPT ![t] = label],
         expected' = [expected EXCEPT ![t] = v],
         UNCHANGED <<mutex, reads, writers>>
  PROVE  IInv'
<1>1. TypeOK'
  BY DEF IInv, TypeOK
<1>2. Account'
  BY DEF IInv, Account, Exclusion, WordCountsHolds
<1>3. Local'
  <2>. SUFFICES ASSUME NEW u \in Threads PROVE MayStand(u, pc[u], expected[u])'
    BY DEF Local
  <2>1. CASE u = t
    BY <2>1 DEF IInv, TypeOK, MayStand, HasRoom, HasRead
  <2>2. CASE u # t
    BY <2>2 DEF IInv, TypeOK, Local, MayStand, HasRoom, HasRead
  <2>. QED BY <2>1, <2>2
<1>. QED BY <1>1, <1>2, <1>3 DEF IInv

\* The same for a step that leaves expected alone too.
LEMMA CheckStep ==
  ASSUME IInv, NEW t \in Threads, NEW ok, NEW label \in Labels,
         MayStand(t, label, expected[t]), Check(t, ok, label)
  PROVE  IInv'
<1>. DEFINE dest == IF ok THEN label ELSE "trap"
<1>1. expected[t] \in 0..(2 * TopBit - 1)
  BY DEF IInv, TypeOK
<1>2. dest \in Labels /\ MayStand(t, dest, expected[t])
  BY DEF Labels, MayStand, ReadLabels
<1>3. /\ pc' = [pc EXCEPT ![t] = dest]
      /\ expected' = [expected EXCEPT ![t] = expected[t]]
      /\ UNCHANGED <<mutex, reads, writers>>
  BY DEF Check, Goto, IInv, TypeOK
<1>. HIDE DEF dest
<1>. QED BY <1>1, <1>2, <1>3, QuietStep

\* A failed CAS or a wait that keeps the word it read.
LEMMA ExpectStep ==
  ASSUME IInv, NEW t \in Threads, NEW label \in Labels,
         NEW v \in 0..(2 * TopBit - 1),
         MayStand(t, label, v), Expect(t, v, label)
  PROVE  IInv'
BY QuietStep DEF Expect, Goto

\* A call that gives up.
LEMMA ReturnStep ==
  ASSUME IInv, NEW t \in Threads, Return(t)
  PROVE  IInv'
<1>1. /\ "idle" \in Labels
      /\ 0 \in 0..(2 * TopBit - 1)
      /\ MayStand(t, "idle", 0)
  BY RwAssumption DEF Labels, MayStand, ReadLabels
<1>. QED BY <1>1, QuietStep DEF Return, Goto
\* A reader's successful CAS: no writer is in, and one more is counted.
LEMMA GrantReadStep ==
  ASSUME IInv, NEW t \in Threads, HasRoom(t), mutex < TopBit,
         GrantRead(t, mutex + 1)
  PROVE  IInv'
<1>. DEFINE h == NewHold(t)
<1>1. h \in Holds \ reads
  BY NewHoldIsNew
<1>2. writers = {} /\ mutex = Cardinality(reads)
  BY WordTells DEF IInv
<1>3. /\ mutex' = mutex + 1 /\ writers' = writers /\ reads' = reads \cup {h}
      /\ pc' = [pc EXCEPT ![t] = "idle"] /\ expected' = [expected EXCEPT ![t] = 0]
  BY DEF GrantRead, Goto
<1>. HIDE DEF h
<1>4. TypeOK'
  BY <1>1, <1>3, RwAssumption DEF IInv, TypeOK, Labels
<1>5. Account'
  <2>1. Cardinality(reads') = Cardinality(reads) + 1
    BY <1>1, <1>3, CountReads DEF IInv, TypeOK
  <2>. QED BY <1>2, <1>3, <2>1 DEF Account, Exclusion, WordCountsHolds
<1>6. Local'
  <2>. SUFFICES ASSUME NEW u \in Threads PROVE MayStand(u, pc[u], expected[u])'
    BY DEF Local
  <2>1. CASE u = t
    BY <1>3, <2>1 DEF IInv, TypeOK, MayStand, ReadLabels
  <2>2. CASE u # t
    <3>1. MayStand(u, pc[u], expected[u]) /\ pc'[u] = pc[u] /\ expected'[u] = expected[u]
      BY <1>3, <2>2 DEF IInv, TypeOK, Local
    <3>2. HasRead(u) => HasRead(u)'
      BY <1>3 DEF HasRead
    <3>3. HasRoom(u) => HasRoom(u)'
      <4>1. \A k \in Slots : <<u, k>> # h
        <5>1. \E k \in Slots : h = <<t, k>>
          BY <1>3, NewHoldIsNew DEF h, NewHold, HasRoom
        <5>. QED BY <2>2, <5>1
      <4>. QED BY <1>3, <4>1 DEF HasRoom
    <3>. QED BY <1>3, <3>1, <3>2, <3>3 DEF MayStand
  <2>. QED BY <2>1, <2>2
<1>. QED BY <1>4, <1>5, <1>6 DEF IInv

\* A writer's successful CAS from zero: nobody else holds.
LEMMA GrantWriteStep ==
  ASSUME IInv, NEW t \in Threads, mutex = 0, GrantWrite(t)
  PROVE  IInv'
<1>1. writers = {} /\ reads = {}
  BY WordTells DEF IInv
<1>2. /\ mutex' = TopBit /\ writers' = {t} /\ reads' = reads
      /\ pc' = [pc EXCEPT ![t] = "idle"] /\ expected' = expected
  BY <1>1 DEF GrantWrite, Goto
<1>3. TypeOK'
  BY <1>2, RwAssumption DEF IInv, TypeOK, Labels
<1>4. Account'
  BY <1>1, <1>2 DEF Account, Exclusion, WordCountsHolds
<1>5. Local'
  <2>. SUFFICES ASSUME NEW u \in Threads PROVE MayStand(u, pc[u], expected[u])'
    BY DEF Local
  <2>1. CASE u = t
    BY <1>2, <2>1 DEF IInv, TypeOK, MayStand, ReadLabels
  <2>2. CASE u # t
    BY <1>1, <1>2, <2>2 DEF IInv, TypeOK, Local, MayStand, HasRoom, HasRead
  <2>. QED BY <2>1, <2>2
<1>. QED BY <1>3, <1>4, <1>5 DEF IInv

\* The store of zero that gives the write lock back.
LEMMA UnStoreStep ==
  ASSUME IInv, NEW t \in Threads, UnStore(t)
  PROVE  IInv'
<1>1. t \in writers
  BY DEF UnStore, IInv, Local, MayStand
<1>2. writers = {t} /\ reads = {}
  BY <1>1 DEF IInv, TypeOK, Account, Exclusion
<1>3. /\ mutex' = 0 /\ writers' = {} /\ reads' = reads
      /\ pc' = [pc EXCEPT ![t] = "idle"] /\ expected' = expected
  BY <1>2 DEF UnStore, Goto
<1>4. TypeOK'
  BY <1>3, RwAssumption DEF IInv, TypeOK, Labels
<1>5. Account'
  <2>1. Cardinality(reads') = 0
    BY <1>2, <1>3, CountReads
  <2>. QED BY <1>3, <2>1 DEF Account, Exclusion, WordCountsHolds
<1>6. Local'
  <2>. SUFFICES ASSUME NEW u \in Threads PROVE MayStand(u, pc[u], expected[u])'
    BY DEF Local
  <2>1. CASE u = t
    BY <1>3, <2>1 DEF IInv, TypeOK, MayStand, ReadLabels
  <2>2. CASE u # t
    BY <1>2, <1>3, <2>2 DEF IInv, TypeOK, Local, MayStand, HasRoom, HasRead
  <2>. QED BY <2>1, <2>2
<1>. QED BY <1>4, <1>5, <1>6 DEF IInv

\* The decrement that gives a read lock back: it counts down from at least one.
LEMMA RuSubStep ==
  ASSUME IInv, NEW t \in Threads, RuSub(t)
  PROVE  IInv'
<1>. DEFINE h == OldHold(t)
<1>1. HasRead(t)
  BY DEF RuSub, IInv, Local, MayStand
<1>2. h \in reads /\ \E k \in Slots : h = <<t, k>>
  BY <1>1, OldHoldIsOwn
<1>3. /\ mutex' = Decrement(mutex) /\ writers' = writers /\ reads' = reads \ {h}
      /\ pc' = [pc EXCEPT ![t] = "idle"] /\ expected' = expected
  BY DEF RuSub, Goto
<1>. HIDE DEF h
<1>4. writers = {} /\ mutex = Cardinality(reads) /\ mutex # 0
  BY <1>2, CountReads DEF IInv, TypeOK, Account, Exclusion, WordCountsHolds
<1>5. mutex' = mutex - 1
  BY <1>3, <1>4 DEF Decrement
<1>6. TypeOK'
  BY <1>3, <1>4, <1>5, RwAssumption DEF IInv, TypeOK, Labels
<1>7. Account'
  <2>1. Cardinality(reads') = Cardinality(reads) - 1
    BY <1>2, <1>3, CountReads DEF IInv, TypeOK
  <2>. QED BY <1>3, <1>4, <1>5, <2>1 DEF Account, Exclusion, WordCountsHolds
<1>8. Local'
  <2>. SUFFICES ASSUME NEW u \in Threads PROVE MayStand(u, pc[u], expected[u])'
    BY DEF Local
  <2>1. CASE u = t
    BY <1>3, <2>1 DEF IInv, TypeOK, MayStand, ReadLabels
  <2>2. CASE u # t
    <3>1. MayStand(u, pc[u], expected[u]) /\ pc'[u] = pc[u] /\ expected'[u] = expected[u]
      BY <1>3, <2>2 DEF IInv, TypeOK, Local
    <3>2. HasRead(u) => HasRead(u)'
      BY <1>2, <1>3, <2>2 DEF HasRead
    <3>3. HasRoom(u) => HasRoom(u)'
      BY <1>3 DEF HasRoom
    <3>. QED BY <1>3, <3>1, <3>2, <3>3 DEF MayStand
  <2>. QED BY <2>1, <2>2
<1>. QED BY <1>6, <1>7, <1>8 DEF IInv
-----------------------------------------------------------------------------
(* Every step of every call keeps IInv. *)

LEMMA InitIInv == Init => IInv
<1>. SUFFICES ASSUME Init PROVE IInv
  OBVIOUS
<1>1. TypeOK
  BY RwAssumption DEF Init, TypeOK, Labels
<1>2. Account
  <2>1. Cardinality(reads) = 0
    BY FS_EmptySet DEF Init
  <2>. QED BY <2>1 DEF Init, Account, Exclusion, WordCountsHolds
<1>3. Local
  BY DEF Init, Local, MayStand, ReadLabels
<1>. QED BY <1>1, <1>2, <1>3 DEF IInv

LEMMA CallStep ==
  ASSUME IInv, NEW t \in Threads, CallLock(t) \/ CallRelease(t)
  PROVE  IInv'
<1>1. ASSUME NEW op \in Ops, Call(t, op) PROVE IInv'
  <2>1. op \in Labels /\ MayStand(t, op, expected[t])
    BY <1>1, RwAssumption DEF Call, Labels, AllOps, MayStand, ReadLabels
  <2>2. Check(t, TRUE, op)
    BY <1>1 DEF Call, Check, Goto
  <2>. QED BY <2>1, <2>2, CheckStep
<1>2. CASE CallUnlock(t)
  <2>1. "unlock" \in Labels /\ MayStand(t, "unlock", expected[t])
    BY <1>2 DEF CallUnlock, Labels, MayStand, ReadLabels
  <2>2. Check(t, TRUE, "unlock")
    BY <1>2 DEF CallUnlock, Check, Goto
  <2>. QED BY <2>1, <2>2, CheckStep
<1>3. CASE CallReadUnlock(t)
  <2>1. "read_unlock" \in Labels /\ MayStand(t, "read_unlock", expected[t])
    BY <1>3 DEF CallReadUnlock, Labels, MayStand, ReadLabels
  <2>2. Check(t, TRUE, "read_unlock")
    BY <1>3 DEF CallReadUnlock, Check, Goto
  <2>. QED BY <2>1, <2>2, CheckStep
<1>. QED BY <1>1, <1>2, <1>3 DEF CallLock, CallRelease

LEMMA RdlockStep ==
  ASSUME IInv, NEW t \in Threads, Rdlock(t)
  PROVE  IInv'
<1>. USE DEF Labels, MayStand, ReadLabels
<1>0. MayStand(t, pc[t], expected[t]) /\ mutex \in 0..(2 * TopBit - 1)
  BY DEF IInv, Local, TypeOK
<1>1. CASE RdEnter(t)
  BY <1>0, <1>1, CheckStep DEF RdEnter
<1>2. CASE RdCasFree(t)
  <2>1. HasRoom(t)
    BY <1>0, <1>2 DEF RdCasFree
  <2>2. CASE mutex = 0 /\ GrantRead(t, 1)
    BY <2>1, <2>2, GrantReadStep, RwAssumption
  <2>3. CASE mutex # 0 /\ Expect(t, ClearTop(mutex), "rd_cas")
    <3>1. ClearTop(mutex) \in 0..(2 * TopBit - 1) /\ ClearTop(mutex) < TopBit
      BY <1>0, RwAssumption DEF ClearTop, HasTop
    <3>. QED BY <2>1, <2>3, <3>1, ExpectStep
  <2>. QED BY <1>2, <2>2, <2>3 DEF RdCasFree
<1>3. CASE RdCas(t)
  <2>1. HasRoom(t) /\ expected[t] < TopBit
    BY <1>0, <1>3 DEF RdCas
  <2>2. CASE mutex = expected[t] /\ GrantRead(t, expected[t] + 1)
    BY <2>1, <2>2, GrantReadStep
  <2>3. CASE mutex # expected[t] /\ Expect(t, mutex, "rd_wait")
    BY <1>0, <2>1, <2>3, ExpectStep
  <2>. QED BY <1>3, <2>2, <2>3 DEF RdCas
<1>4. CASE RdWait(t)
  <2>1. HasRoom(t) /\ mutex < TopBit /\ Consistent(mutex)
    BY <1>0, <1>4, RwAssumption DEF RdWait, HasTop, Consistent
  <2>. QED BY <1>0, <1>4, <2>1, ExpectStep DEF RdWait
<1>. QED BY <1>1, <1>2, <1>3, <1>4 DEF Rdlock

LEMMA WriterStep ==
  ASSUME IInv, NEW t \in Threads, Wrlock(t) \/ Timedwrlock(t) \/ Trylock(t)
  PROVE  IInv'
<1>. USE DEF Labels, MayStand, ReadLabels
<1>1. CASE WrEnter(t) \/ TwEnter(t) \/ TryEnter(t)
  BY <1>1, CheckStep DEF WrEnter, TwEnter, TryEnter
<1>2. CASE WrCas(t)
  BY <1>2, CheckStep, GrantWriteStep DEF WrCas
<1>3. CASE WrWait(t)
  BY <1>3, CheckStep DEF WrWait, AllOps
<1>4. CASE TwCas(t)
  BY <1>4, CheckStep, GrantWriteStep DEF TwCas
<1>5. CASE TwWait(t)
  BY <1>5, CheckStep DEF TwWait, AllOps
<1>6. CASE TwTimeout(t)
  BY <1>6, ReturnStep DEF TwTimeout
<1>7. CASE TryCas(t)
  BY <1>7, GrantWriteStep, ReturnStep DEF TryCas
<1>. QED BY <1>1, <1>2, <1>3, <1>4, <1>5, <1>6, <1>7
         DEF Wrlock, Timedwrlock, Trylock

LEMMA TrylockSharedStep ==
  ASSUME IInv, NEW t \in Threads, TrylockShared(t)
  PROVE  IInv'
<1>. USE DEF Labels, MayStand, ReadLabels
<1>0. MayStand(t, pc[t], expected[t]) /\ mutex \in 0..(2 * TopBit - 1)
  BY DEF IInv, Local, TypeOK
<1>1. CASE TsEnter(t)
  BY <1>0, <1>1, CheckStep DEF TsEnter
<1>2. CASE TsLoad(t)
  <2>1. ClearTop(mutex) \in 0..(2 * TopBit - 1) /\ ClearTop(mutex) < TopBit
    BY <1>0, RwAssumption DEF ClearTop, HasTop
  <2>2. HasRoom(t)
    BY <1>0, <1>2 DEF TsLoad
  <2>. QED BY <1>2, <2>1, <2>2, ExpectStep DEF TsLoad
<1>3. CASE TsCas(t)
  <2>1. HasRoom(t) /\ expected[t] < TopBit
    BY <1>0, <1>3 DEF TsCas
  <2>. QED BY <1>3, <2>1, GrantReadStep, ReturnStep DEF TsCas
<1>. QED BY <1>1, <1>2, <1>3 DEF TrylockShared

LEMMA UnlockStep ==
  ASSUME IInv, NEW t \in Threads, Unlock(t) \/ ReadUnlock(t)
  PROVE  IInv'
<1>. USE DEF Labels, MayStand, ReadLabels
<1>0. MayStand(t, pc[t], expected[t])
  BY DEF IInv, Local
<1>1. CASE UnEnter(t) \/ UnCheck(t)
  BY <1>0, <1>1, CheckStep DEF UnEnter, UnCheck
<1>2. CASE RuEnter(t) \/ RuCheck(t)
  BY <1>0, <1>2, CheckStep DEF RuEnter, RuCheck
<1>. QED BY <1>1, <1>2, UnStoreStep, RuSubStep DEF Unlock, ReadUnlock

LEMMA NextIInv == IInv /\ [Next]_vars => IInv'
<1>. SUFFICES ASSUME IInv, [Next]_vars PROVE IInv'
  OBVIOUS
<1>1. CASE UNCHANGED vars
  BY <1>1 DEF vars, IInv, TypeOK, Account, Exclusion, WordCountsHolds, Local,
              MayStand, HasRoom, HasRead
<1>2. ASSUME NEW t \in Threads, CallLock(t) \/ CallRelease(t) \/ Step(t)
      PROVE  IInv'
  BY <1>2, CallStep, RdlockStep, WriterStep, TrylockSharedStep, UnlockStep DEF Step
<1>. QED BY <1>1, <1>2 DEF Next

THEOREM Invariance == Spec => []IInv
BY InitIInv, NextIInv, PTL DEF Spec
-----------------------------------------------------------------------------
(* What the invariant gives. *)

(* The word of a rwlock stays a 32-bit word and every call stays within    *)
(* its own accesses.                                                       *)
THEOREM TypeCorrect == Spec => []TypeOK
BY Invariance, PTL DEF IInv

(* One writer or several readers, never both, for every number of threads  *)
(* and of recursive read locks, even when the readers' count reaches the   *)
(* writer's bit.                                                           *)
THEOREM MutualExclusion == Spec => []Exclusion
BY Invariance, PTL DEF IInv, Account

(* The word accounts for the holds: no CAS, store or decrement loses one.  *)
THEOREM WordIsAccount == Spec => []WordCountsHolds
BY Invariance, PTL DEF IInv, Account

(* A failed wfe_mutex_rwlock_trylock met a holder.                         *)
THEOREM TryFailsForAReason == Spec => NoSpuriousTryFail
<1>. DEFINE Reason == \A t \in Threads :
       pc[t] = "try_cas" /\ pc'[t] = "idle" /\ writers' = writers
         => writers # {} \/ reads # {}
<1>1. ASSUME IInv, Next PROVE Reason
  <2>. SUFFICES ASSUME NEW u \in Threads,
                       pc[u] = "try_cas", pc'[u] = "idle", writers' = writers,
                       writers = {}, reads = {}
                PROVE  FALSE
    OBVIOUS
  <2>1. mutex = 0
    <3>1. Cardinality(reads) = 0
      BY CountReads
    <3>. QED BY <3>1, <1>1 DEF IInv, Account, WordCountsHolds
  <2>2. ASSUME NEW t \in Threads, NEW label, Goto(t, label), t # u PROVE FALSE
    BY <1>1, <2>2 DEF Goto, IInv, TypeOK
  <2>3. ~ GrantWrite(u)
    BY DEF GrantWrite
  <2>. USE <2>2, <1>1 DEF Next, Step, CallLock, CallRelease, Call, CallUnlock,
         CallReadUnlock, Check, Expect, GrantRead, GrantWrite, Return
  <2>4. PICK t \in Threads : CallLock(t) \/ CallRelease(t) \/ Step(t)
    OBVIOUS
  <2>5. t = u
    <3>1. ASSUME CallLock(t) \/ CallRelease(t) PROVE \E label : Goto(t, label)
      BY <3>1
    <3>2. ASSUME Rdlock(t) PROVE \E label : Goto(t, label)
      BY <3>2 DEF Rdlock, RdEnter, RdCasFree, RdCas, RdWait
    <3>3. ASSUME Wrlock(t) \/ Timedwrlock(t) \/ Trylock(t)
          PROVE  \E label : Goto(t, label)
      BY <3>3 DEF Wrlock, WrEnter, WrCas, WrWait, Timedwrlock, TwEnter, TwCas,
           TwWait, TwTimeout, Trylock, TryEnter, TryCas
    <3>4. ASSUME TrylockShared(t) \/ Unlock(t) \/ ReadUnlock(t)
          PROVE  \E label : Goto(t, label)
      BY <3>4 DEF TrylockShared, TsEnter, TsLoad, TsCas, Unlock, UnEnter,
           UnCheck, UnStore, ReadUnlock, RuEnter, RuCheck, RuSub
    <3>. QED BY <2>4, <3>1, <3>2, <3>3, <3>4
  <2>6. TryCas(u)
    BY <2>4, <2>5 DEF Rdlock, RdEnter, RdCasFree, RdCas, RdWait, Wrlock, WrEnter,
         WrCas, WrWait, Timedwrlock, TwEnter, TwCas, TwWait, TwTimeout, Trylock,
         TryEnter, TrylockShared, TsEnter, TsLoad, TsCas, Unlock, UnEnter,
         UnCheck, UnStore, ReadUnlock, RuEnter, RuCheck, RuSub
  <2>. QED BY <2>1, <2>3, <2>6 DEF TryCas
<1>2. UNCHANGED vars => Reason
  BY DEF vars
<1>3. IInv /\ [Next]_vars => [Reason]_vars
  BY <1>1, <1>2
<1>. QED BY <1>3, Invariance, PTL DEF Spec, NoSpuriousTryFail
(* A CAS, store or decrement of the word is one grant or return of the     *)
(* abstract lock; every other step changes no hold.                        *)
LEMMA StepImplements ==
  ASSUME IInv, Next
  PROVE  [Abs!Next]_(Abs!absVars)
<1>. USE DEF Abs!absVars
<1>1. ASSUME NEW t \in Threads, HasRoom(t), mutex < TopBit, NEW v, GrantRead(t, v)
      PROVE  Abs!Next
  <2>1. writers = {}
    BY <1>1, WordTells DEF IInv
  <2>2. NewHold(t) \in Holds \ reads
    BY <1>1, NewHoldIsNew
  <2>3. Abs!AcquireRead(NewHold(t))
    BY <1>1, <2>1, <2>2 DEF GrantRead, Abs!AcquireRead
  <2>. QED BY <2>2, <2>3 DEF Abs!Next, Abs!Holds, Holds, Slots
<1>2. ASSUME NEW t \in Threads, mutex = 0, GrantWrite(t) PROVE Abs!Next
  <2>1. writers = {} /\ reads = {}
    BY <1>2, WordTells DEF IInv
  <2>2. Abs!AcquireWrite(t)
    BY <1>2, <2>1 DEF GrantWrite, Abs!AcquireWrite
  <2>. QED BY <2>2 DEF Abs!Next
<1>3. ASSUME NEW t \in Threads, UnStore(t) PROVE Abs!Next
  <2>1. writers = {t}
    BY <1>3 DEF UnStore, IInv, TypeOK, Local, MayStand, Account, Exclusion
  <2>2. Abs!ReleaseWrite(t)
    BY <1>3, <2>1 DEF UnStore, Abs!ReleaseWrite
  <2>. QED BY <2>2 DEF Abs!Next
<1>4. ASSUME NEW t \in Threads, RuSub(t) PROVE Abs!Next
  <2>1. HasRead(t)
    BY <1>4 DEF RuSub, IInv, Local, MayStand
  <2>2. OldHold(t) \in reads /\ OldHold(t) \in Holds
    BY <2>1, OldHoldIsOwn DEF IInv, TypeOK
  <2>3. Abs!ReleaseRead(OldHold(t))
    BY <1>4, <2>2 DEF RuSub, Abs!ReleaseRead
  <2>. QED BY <2>2, <2>3 DEF Abs!Next, Abs!Holds, Holds, Slots
<1>5. ASSUME NEW t \in Threads, CallLock(t) \/ CallRelease(t)
      PROVE  UNCHANGED <<reads, writers>>
  BY <1>5 DEF CallLock, CallRelease, Call, CallUnlock, CallReadUnlock
<1>6. ASSUME NEW t \in Threads, Rdlock(t) PROVE [Abs!Next]_<<reads, writers>>
  <2>1. MayStand(t, pc[t], expected[t])
    BY DEF IInv, Local
  <2>2. CASE RdCasFree(t)
    BY <1>1, <2>1, <2>2, RwAssumption DEF RdCasFree, Expect, MayStand, ReadLabels
  <2>3. CASE RdCas(t)
    BY <1>1, <2>1, <2>3 DEF RdCas, Expect, MayStand, ReadLabels
  <2>. QED BY <1>6, <2>2, <2>3 DEF Rdlock, RdEnter, RdWait, Check, Expect
<1>7. ASSUME NEW t \in Threads, Wrlock(t) \/ Timedwrlock(t) \/ Trylock(t)
      PROVE  [Abs!Next]_<<reads, writers>>
  BY <1>2, <1>7 DEF Wrlock, WrEnter, WrCas, WrWait, Timedwrlock, TwEnter, TwCas,
     TwWait, TwTimeout, Trylock, TryEnter, TryCas, Check, Return
<1>8. ASSUME NEW t \in Threads, TrylockShared(t) PROVE [Abs!Next]_<<reads, writers>>
  <2>1. MayStand(t, pc[t], expected[t])
    BY DEF IInv, Local
  <2>. QED BY <1>1, <1>8, <2>1 DEF TrylockShared, TsEnter, TsLoad, TsCas, Check,
         Expect, Return, MayStand, ReadLabels
<1>9. ASSUME NEW t \in Threads, Unlock(t) \/ ReadUnlock(t)
      PROVE  [Abs!Next]_<<reads, writers>>
  BY <1>3, <1>4, <1>9 DEF Unlock, UnEnter, UnCheck, ReadUnlock, RuEnter, RuCheck, Check
<1>. QED BY <1>5, <1>6, <1>7, <1>8, <1>9 DEF Next, Step

(* The rwlock of the header implements the lock USAGE.md describes.        *)
THEOREM Implements == Spec => ImplementsSharedMutex
<1>1. Init => Abs!Init
  BY DEF Init, Abs!Init
<1>2. IInv /\ [Next]_vars => [Abs!Next]_(Abs!absVars)
  BY StepImplements DEF vars, Abs!absVars
<1>. QED BY <1>1, <1>2, Invariance, PTL DEF Spec, Abs!Spec, ImplementsSharedMutex

(***************************************************************************)
(* The sanity checks of a debug build, when the threads together take      *)
(* fewer read locks than the lower bits can count.  Without that bound a   *)
(* read_unlock of the 2^31st reader traps.                                 *)
(***************************************************************************)
LEMMA ChecksPass ==
  ASSUME IInv, Cardinality(Holds) < TopBit, NEW t \in Threads
  PROVE  /\ Consistent(mutex)
         /\ t \in writers => WriteUnlockable(mutex)
         /\ HasRead(t) => ReadUnlockable(mutex)
<1>. USE RwAssumption DEF HasTop, ClearTop
<1>1. mutex = (IF writers # {} THEN TopBit ELSE Cardinality(reads))
  BY DEF IInv, Account, WordCountsHolds
<1>2. /\ Cardinality(reads) \in Nat
      /\ Cardinality(reads) <= Cardinality(Holds)
      /\ Cardinality(reads) = 0 <=> reads = {}
      /\ Cardinality(Holds) \in Nat
  BY CountReads, HoldsFinite DEF IInv, TypeOK
<1>3. Consistent(mutex)
  BY <1>1, <1>2 DEF Consistent
<1>4. ASSUME t \in writers PROVE WriteUnlockable(mutex)
  BY <1>1, <1>4 DEF WriteUnlockable
<1>5. ASSUME HasRead(t) PROVE ReadUnlockable(mutex)
  <2>1. reads # {} /\ writers = {}
    BY <1>5 DEF HasRead, IInv, Account, Exclusion
  <2>. QED BY <1>1, <1>2, <2>1 DEF ReadUnlockable
<1>. QED BY <1>3, <1>4, <1>5

LEMMA StepDoesNotTrap ==
  ASSUME IInv, NeverTraps, Cardinality(Holds) < TopBit, Next
  PROVE  NeverTraps'
<1>1. ASSUME NEW t \in Threads, NEW label, label # "trap", Goto(t, label)
      PROVE  NeverTraps'
  BY <1>1 DEF Goto, IInv, TypeOK, NeverTraps
<1>2. ASSUME NEW t \in Threads, NEW ok, ok = TRUE, NEW label, label # "trap",
             Check(t, ok, label)
      PROVE  NeverTraps'
  BY <1>1, <1>2 DEF Check
<1>3. PICK t \in Threads : CallLock(t) \/ CallRelease(t) \/ Step(t)
  BY DEF Next
<1>4. MayStand(t, pc[t], expected[t]) /\ Consistent(mutex)
  BY ChecksPass DEF IInv, Local
<1>5. CASE CallLock(t) \/ CallRelease(t)
  BY <1>1, <1>5, RwAssumption
     DEF CallLock, CallRelease, Call, CallUnlock, CallReadUnlock, AllOps
<1>6. CASE Rdlock(t)
  BY <1>1, <1>2, <1>4, <1>6
     DEF Rdlock, RdEnter, RdCasFree, RdCas, RdWait, GrantRead, Expect
<1>7. CASE Wrlock(t) \/ Timedwrlock(t) \/ Trylock(t)
  BY <1>1, <1>2, <1>4, <1>7 DEF Wrlock, WrEnter, WrCas, WrWait, Timedwrlock,
     TwEnter, TwCas, TwWait, TwTimeout, Trylock, TryEnter, TryCas, GrantWrite, Return
<1>8. CASE TrylockShared(t)
  BY <1>1, <1>2, <1>4, <1>8
     DEF TrylockShared, TsEnter, TsLoad, TsCas, GrantRead, Expect, Return
<1>9. CASE Unlock(t) \/ ReadUnlock(t)
  <2>1. pc[t] = "un_check" => WriteUnlockable(mutex)
    BY <1>4, ChecksPass DEF MayStand
  <2>2. pc[t] = "ru_check" => ReadUnlockable(mutex)
    BY <1>4, ChecksPass DEF MayStand
  <2>. QED BY <1>1, <1>2, <1>4, <1>9, <2>1, <2>2
           DEF Unlock, UnEnter, UnCheck, UnStore, ReadUnlock, RuEnter, RuCheck, RuSub
<1>. QED BY <1>3, <1>5, <1>6, <1>7, <1>8, <1>9 DEF Step

(* No check of a debug build fires on clients that give back what they     *)
(* hold, whatever the other threads do between its loads.                  *)
THEOREM NoTrap ==
  ASSUME Cardinality(Holds) < TopBit
  PROVE  Spec => []NeverTraps
<1>1. Init => NeverTraps
  BY DEF Init, NeverTraps
<1>2. IInv /\ NeverTraps /\ [Next]_vars => NeverTraps'
  BY StepDoesNotTrap DEF vars, NeverTraps
<1>. QED BY <1>1, <1>2, Invariance, PTL DEF Spec

(* wfe_mutex.h:278-279, "Top-bit determines write-lock", where it is true: *)
(* while the read holds of all threads are fewer than the lower bits       *)
(* count, the top bit is set exactly while a writer is in.                 *)
THEOREM TopBitTellsWriter ==
  ASSUME Cardinality(Holds) < TopBit
  PROVE  Spec => []TopBitMeansWriter
<1>1. IInv => TopBitMeansWriter
  <2>. SUFFICES ASSUME IInv PROVE TopBitMeansWriter
    OBVIOUS
  <2>1. /\ Cardinality(reads) \in Nat
        /\ Cardinality(reads) <= Cardinality(Holds)
        /\ Cardinality(Holds) \in Nat
    BY CountReads, HoldsFinite DEF IInv, TypeOK
  <2>2. mutex = IF writers # {} THEN TopBit ELSE Cardinality(reads)
    BY DEF IInv, Account, WordCountsHolds
  <2>. QED BY <2>1, <2>2, RwAssumption DEF TopBitMeansWriter, HasTop
<1>. QED BY <1>1, Invariance, PTL
=============================================================================
