------------------------------- MODULE RwLock -------------------------------
(***************************************************************************)
(* wfe_mutex_rwlock (include/wfe_mutex/wfe_mutex.h): a readers-writer lock *)
(* in one 32-bit word.  Every atomic access of a call is one step; the     *)
(* sanity checks of a debug build are steps of their own, which load the   *)
(* word and go to "trap" where the code calls print_error.                 *)
(*                                                                         *)
(* The wait functions are used through their contract: they return after   *)
(* a load that saw the awaited value (module MonitorWait has the loops).   *)
(*                                                                         *)
(* reads and writers are history: what the calls told their callers.  A    *)
(* hold starts with the successful CAS and ends with the unlock's access.  *)
(*                                                                         *)
(* A definition whose comment starts with "Mutant" is a plausible slip in  *)
(* the definition that follows it; no specification uses it.               *)
(***************************************************************************)
EXTENDS Integers, FiniteSets

CONSTANTS Threads,   \* the client threads
          MaxReads,  \* bound: read holds one thread has at most
          TopBit,    \* 1U << 31 in the code, scaled down for TLC
          Ops        \* the lock operations the clients call

AllOps == {"rdlock", "wrlock", "timedwrlock", "trylock", "trylock_shared"}

ASSUME RwAssumption ==
  /\ IsFiniteSet(Threads)        (* finitely many threads               *)
  /\ MaxReads \in Nat \ {0}      (* a thread can take a read lock       *)
  /\ TopBit \in Nat \ {0}        (* there is a bit for the writer       *)
  /\ Ops \subseteq AllOps        (* only operations the header declares *)

VARIABLES mutex,     \* the uint32_t
          pc,        \* each thread's next access
          expected,  \* each thread's local `expected'
          reads,     \* history: read holds <<thread, slot>>
          writers    \* history: threads that were given the write lock

vars == <<mutex, pc, expected, reads, writers>>

-----------------------------------------------------------------------------
(* The word. *)

HasTop(v) == v >= TopBit
\* Mutant: takes the bit away without looking whether it is set.
ClearTopAlways(v) == v - TopBit
ClearTop(v) == IF HasTop(v) THEN v - TopBit ELSE v
Decrement(v) == IF v = 0 THEN 2 * TopBit - 1 ELSE v - 1   \* uint32_t wraps

Consistent(v) == HasTop(v) => ClearTop(v) = 0
WriteUnlockable(v) == HasTop(v) /\ ClearTop(v) = 0
ReadUnlockable(v) == ~HasTop(v) /\ ClearTop(v) # 0

(* The holds. *)

Slots == 1..MaxReads
Holds == Threads \X Slots
HasRead(t) == \E k \in Slots : <<t, k>> \in reads
HasRoom(t) == \E k \in Slots : <<t, k>> \notin reads
NewHold(t) == <<t, CHOOSE k \in Slots : <<t, k>> \notin reads>>
OldHold(t) == <<t, CHOOSE k \in Slots : <<t, k>> \in reads>>

-----------------------------------------------------------------------------
(* Pieces of a call. *)

Goto(t, label) == pc' = [pc EXCEPT ![t] = label]

Check(t, ok, label) ==
  /\ Goto(t, IF ok THEN label ELSE "trap")
  /\ UNCHANGED <<mutex, expected, reads, writers>>

Expect(t, v, label) ==
  /\ expected' = [expected EXCEPT ![t] = v]
  /\ Goto(t, label)
  /\ UNCHANGED <<mutex, reads, writers>>

GrantRead(t, v) ==
  /\ mutex' = v
  /\ reads' = reads \cup {NewHold(t)}
  /\ expected' = [expected EXCEPT ![t] = 0]
  /\ Goto(t, "idle")
  /\ UNCHANGED writers

GrantWrite(t) ==
  /\ mutex' = TopBit
  /\ writers' = writers \cup {t}
  /\ Goto(t, "idle")
  /\ UNCHANGED <<expected, reads>>

Return(t) ==
  /\ expected' = [expected EXCEPT ![t] = 0]
  /\ Goto(t, "idle")
  /\ UNCHANGED <<mutex, reads, writers>>

(***************************************************************************)
(* A client calls.  It gives back only what it has (USAGE.md lists the     *)
(* misuses the lock does not detect), and makes no blocking call that its  *)
(* own holds block; recursive read locks are allowed.                      *)
(***************************************************************************)
Call(t, op) ==
  /\ pc[t] = "idle"
  /\ op \in {"rdlock", "trylock_shared"} => HasRoom(t)
  /\ op = "rdlock" => t \notin writers
  /\ op = "wrlock" => t \notin writers /\ ~HasRead(t)
  /\ Goto(t, op)
  /\ UNCHANGED <<mutex, expected, reads, writers>>

CallUnlock(t) ==
  /\ pc[t] = "idle"
  /\ t \in writers
  /\ Goto(t, "unlock")
  /\ UNCHANGED <<mutex, expected, reads, writers>>

CallReadUnlock(t) ==
  /\ pc[t] = "idle"
  /\ HasRead(t)
  /\ Goto(t, "read_unlock")
  /\ UNCHANGED <<mutex, expected, reads, writers>>

-----------------------------------------------------------------------------
(* wfe_mutex_rwlock_rdlock *)

\* Mutant: the read-ready check is for values the wait returned.
RdEnterReady(t) == pc[t] = "rdlock" /\ Check(t, ~HasTop(mutex), "rd_cas_free")

RdEnter(t) == pc[t] = "rdlock" /\ Check(t, Consistent(mutex), "rd_cas_free")

\* Mutant: forgets to mask the top bit of the value the failed CAS left.
RdCasFreeUnmasked(t) ==
  /\ pc[t] = "rd_cas_free"
  /\ \/ mutex = 0 /\ GrantRead(t, 1)
     \/ mutex # 0 /\ Expect(t, mutex, "rd_cas")

\* The uncontended CAS; a failed one leaves the word in expected.
RdCasFree(t) ==
  /\ pc[t] = "rd_cas_free"
  /\ \/ mutex = 0 /\ GrantRead(t, 1)
     \/ mutex # 0 /\ Expect(t, ClearTop(mutex), "rd_cas")

\* Mutant: retries with the expected value it already has.
RdCasStale(t) ==
  /\ pc[t] = "rd_cas"
  /\ \/ mutex = expected[t] /\ GrantRead(t, expected[t] + 1)
     \/ mutex # expected[t] /\ Check(t, TRUE, "rd_cas")

\* The read-only CAS and the CAS of the loop.
RdCas(t) ==
  /\ pc[t] = "rd_cas"
  /\ \/ mutex = expected[t] /\ GrantRead(t, expected[t] + 1)
     \/ mutex # expected[t] /\ Expect(t, mutex, "rd_wait")

\* wait_for_bit_not_set_i32(31) and the two checks of what it returned.
RdWait(t) ==
  /\ pc[t] = "rd_wait"
  /\ ~HasTop(mutex)
  /\ Expect(t, mutex, IF Consistent(mutex) THEN "rd_cas" ELSE "trap")

(* wfe_mutex_rwlock_wrlock *)

WrEnter(t) == pc[t] = "wrlock" /\ Check(t, Consistent(mutex), "wr_cas")

WrCas(t) ==
  /\ pc[t] = "wr_cas"
  /\ \/ mutex = 0 /\ GrantWrite(t)
     \/ mutex # 0 /\ Check(t, TRUE, "wr_wait")

\* wait_for_value_i32(0); the loop checks the word again before its CAS.
WrWait(t) == pc[t] = "wr_wait" /\ mutex = 0 /\ Check(t, TRUE, "wrlock")

(* wfe_mutex_rwlock_timedwrlock *)

TwEnter(t) == pc[t] = "timedwrlock" /\ Check(t, Consistent(mutex), "tw_cas")

TwCas(t) ==
  /\ pc[t] = "tw_cas"
  /\ \/ mutex = 0 /\ GrantWrite(t)
     \/ mutex # 0 /\ Check(t, TRUE, "tw_wait")

\* wait_for_value_timeout_i32(0): it loads at least once before it gives up.
TwWait(t) ==
  /\ pc[t] \in {"tw_wait", "tw_busy"}
  /\ \/ mutex = 0 /\ Check(t, TRUE, "timedwrlock")
     \/ mutex # 0 /\ pc[t] = "tw_wait" /\ Check(t, TRUE, "tw_busy")

TwTimeout(t) == pc[t] = "tw_busy" /\ Return(t)

(* wfe_mutex_rwlock_trylock *)

TryEnter(t) == pc[t] = "trylock" /\ Check(t, Consistent(mutex), "try_cas")

\* Mutant: a weak CAS, which may fail on a free lock.
TryCasWeak(t) ==
  /\ pc[t] = "try_cas"
  /\ \/ mutex = 0 /\ GrantWrite(t)
     \/ Return(t)

TryCas(t) ==
  /\ pc[t] = "try_cas"
  /\ \/ mutex = 0 /\ GrantWrite(t)
     \/ mutex # 0 /\ Return(t)

(* wfe_mutex_rwlock_trylock_shared *)

TsEnter(t) == pc[t] = "trylock_shared" /\ Check(t, Consistent(mutex), "ts_load")

\* Mutant: expects the word as it is, top bit included.
TsLoadUnmasked(t) == pc[t] = "ts_load" /\ Expect(t, mutex, "ts_cas")

TsLoad(t) == pc[t] = "ts_load" /\ Expect(t, ClearTop(mutex), "ts_cas")

TsCas(t) ==
  /\ pc[t] = "ts_cas"
  /\ \/ mutex = expected[t] /\ GrantRead(t, expected[t] + 1)
     \/ mutex # expected[t] /\ Return(t)

(* wfe_mutex_rwlock_unlock *)

UnEnter(t) == pc[t] = "unlock" /\ Check(t, Consistent(mutex), "un_check")

UnCheck(t) == pc[t] = "un_check" /\ Check(t, WriteUnlockable(mutex), "un_store")

\* Mutant: gives a write lock back like a read lock.
UnStoreDecrement(t) ==
  /\ pc[t] = "un_store"
  /\ mutex' = Decrement(mutex)
  /\ writers' = writers \ {t}
  /\ Goto(t, "idle")
  /\ UNCHANGED <<expected, reads>>

UnStore(t) ==
  /\ pc[t] = "un_store"
  /\ mutex' = 0
  /\ writers' = writers \ {t}
  /\ Goto(t, "idle")
  /\ UNCHANGED <<expected, reads>>

(* wfe_mutex_rwlock_read_unlock *)

RuEnter(t) == pc[t] = "read_unlock" /\ Check(t, Consistent(mutex), "ru_check")

RuCheck(t) == pc[t] = "ru_check" /\ Check(t, ReadUnlockable(mutex), "ru_sub")

\* Mutant: gives a read lock back like a write lock.
RuSubStore(t) ==
  /\ pc[t] = "ru_sub"
  /\ mutex' = 0
  /\ reads' = reads \ {OldHold(t)}
  /\ Goto(t, "idle")
  /\ UNCHANGED <<expected, writers>>

RuSub(t) ==
  /\ pc[t] = "ru_sub"
  /\ mutex' = Decrement(mutex)
  /\ reads' = reads \ {OldHold(t)}
  /\ Goto(t, "idle")
  /\ UNCHANGED <<expected, writers>>

-----------------------------------------------------------------------------
Init ==
  /\ mutex = 0                              \* WFE_MUTEX_RWLOCK_INITIALIZER
  /\ pc = [t \in Threads |-> "idle"]
  /\ expected = [t \in Threads |-> 0]
  /\ reads = {}
  /\ writers = {}

Rdlock(t) == RdEnter(t) \/ RdCasFree(t) \/ RdCas(t) \/ RdWait(t)
Wrlock(t) == WrEnter(t) \/ WrCas(t) \/ WrWait(t)
Timedwrlock(t) == TwEnter(t) \/ TwCas(t) \/ TwWait(t) \/ TwTimeout(t)
Trylock(t) == TryEnter(t) \/ TryCas(t)
TrylockShared(t) == TsEnter(t) \/ TsLoad(t) \/ TsCas(t)
Unlock(t) == UnEnter(t) \/ UnCheck(t) \/ UnStore(t)
ReadUnlock(t) == RuEnter(t) \/ RuCheck(t) \/ RuSub(t)

\* The steps of a call in progress.
Step(t) ==
  \/ Rdlock(t) \/ Wrlock(t) \/ Timedwrlock(t) \/ Trylock(t) \/ TrylockShared(t)
  \/ Unlock(t) \/ ReadUnlock(t)

CallRelease(t) == CallUnlock(t) \/ CallReadUnlock(t)
CallLock(t) == \E op \in Ops : Call(t, op)

Next == \E t \in Threads : CallLock(t) \/ CallRelease(t) \/ Step(t)

Spec == Init /\ [][Next]_vars

-----------------------------------------------------------------------------
(* Properties. *)

Labels ==
  {"idle", "trap", "rd_cas_free", "rd_cas", "rd_wait", "wr_cas", "wr_wait",
   "tw_cas", "tw_wait", "tw_busy", "try_cas", "ts_load", "ts_cas",
   "unlock", "un_check", "un_store", "read_unlock", "ru_check", "ru_sub"}
  \cup AllOps

(* The types of the variables: the word stays within its 32 bits and every *)
(* thread is at an access of the code.                                     *)
TypeOK ==
  /\ mutex \in 0..(2 * TopBit - 1)
  /\ pc \in [Threads -> Labels]
  /\ expected \in [Threads -> 0..(2 * TopBit - 1)]
  /\ reads \subseteq Holds
  /\ writers \subseteq Threads

(* USAGE.md: one writer or several readers at a time, never both, whatever *)
(* the interleaving of the CASes, stores and decrements of all the calls.  *)
Exclusion ==
  /\ \A t, u \in writers : t = u
  /\ writers # {} => reads = {}

(* The word is exactly the account of the holds: the top bit alone while a *)
(* writer is in, the number of read holds otherwise.  A lost or doubled    *)
(* increment, or a store of zero over somebody's hold, breaks it.          *)
WordCountsHolds == mutex = IF writers # {} THEN TopBit ELSE Cardinality(reads)

(* The sanity checks of a debug build never fire on a client that gives    *)
(* back only what it holds, although each of them loads the word at a      *)
(* moment of its own, while other threads change it.                       *)
NeverTraps == \A t \in Threads : pc[t] # "trap"

(* A write trylock that returns false was refused because some thread held *)
(* the lock at that moment: it does not fail spuriously.                   *)
NoSpuriousTryFail ==
  [][\A t \in Threads :
       pc[t] = "try_cas" /\ pc'[t] = "idle" /\ writers' = writers
         => writers # {} \/ reads # {}]_vars

(* wfe_mutex.h:278-279: "Top-bit determines write-lock.  Lower 31-bits     *)
(* gives the number of shared locks."                                      *)
TopBitMeansWriter == HasTop(mutex) <=> writers # {}

(* The code implements the lock it promises: each step grants or gives     *)
(* back one hold as the abstract lock allows, or changes no hold at all.   *)
Abs == INSTANCE SharedMutex
ImplementsSharedMutex == Abs!Spec

-----------------------------------------------------------------------------
(***************************************************************************)
(* Fairness: a thread inside a call keeps running (the calls loop without  *)
(* blocking in the kernel, so preemption only delays them), and a holder   *)
(* eventually gives its hold back.  Nothing makes a CAS win: no strong     *)
(* fairness.                                                               *)
(***************************************************************************)
Fairness ==
  \A t \in Threads : WF_vars(Step(t)) /\ WF_vars(CallRelease(t))

FairSpec == Spec /\ Fairness

(* However often the threads defeat each other's CAS, some call returns: a *)
(* failed CAS or a wait that is not over is always another thread's        *)
(* progress.                                                               *)
LockFree ==
  []<>(\E t \in Threads : pc[t] # "idle")
    => []<><<\E t \in Threads : pc[t] # "idle" /\ pc'[t] = "idle">>_vars

(* Every call returns once the other threads stop making calls, and every  *)
(* hold is given back: no wake-up is lost, no reader that holds the lock   *)
(* already is stopped by a waiting writer, no count is left in the word.   *)
(* USAGE.md:73: "Once all readers are unlocked, a single waiting blocked   *)
(* write-lock will continue."                                              *)
CallsReturn ==
  <>[][\A t \in Threads : pc[t] = "idle" => pc'[t] \notin Ops]_vars
    => /\ \A t \in Threads : pc[t] # "idle" ~> pc[t] = "idle"
       /\ <>[](mutex = 0)
=============================================================================
