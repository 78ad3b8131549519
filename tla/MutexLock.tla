----------------------------- MODULE MutexLock -----------------------------
(***************************************************************************)
(* wfe_mutex_lock (include/wfe_mutex/wfe_mutex.h): 0 is free, 1 is held.   *)
(* As in RwLock, each atomic access of a call is one step and the waits    *)
(* stand for their contract; here the timed wait has its time, a countdown *)
(* from the moment the wait computes its deadline.  "Mutant" marks slips   *)
(* no specification uses, as in RwLock.                                    *)
(*                                                                         *)
(* writers is history (who was told it has the lock), and owed is too: the *)
(* part of the timeout that has not passed since timedlock was called.     *)
(***************************************************************************)
EXTENDS Integers

CONSTANTS Threads,   \* the client threads
          Timeout,   \* the timeout of a timedlock, in ticks of the clock
          Ops        \* the lock operations the clients call

AllOps == {"lock", "trylock", "timedlock"}

ASSUME MutexAssumption ==
  /\ Timeout \in Nat             (* an unsigned number of nanoseconds     *)
  /\ Ops \subseteq AllOps        (* only operations the header declares   *)

VARIABLES mutex,     \* the uint32_t
          pc,        \* each thread's next access
          left,      \* time left before each thread's deadline
          writers,   \* history: threads that were given the lock
          owed       \* history: what a timedlock still has to wait out

vars == <<mutex, pc, left, writers, owed>>

-----------------------------------------------------------------------------
Goto(t, label) == pc' = [pc EXCEPT ![t] = label]

Check(t, ok, label) ==
  /\ Goto(t, IF ok THEN label ELSE "trap")
  /\ UNCHANGED <<mutex, left, writers, owed>>

Consistent(v) == v \in {0, 1}

\* Mutant: an exchange where the code has a compare-and-exchange.
GrantStore(t) ==
  /\ mutex' = 1
  /\ writers' = writers \cup {t}
  /\ Goto(t, "idle")
  /\ UNCHANGED <<left, owed>>

\* The CAS from 0 to 1.
Grant(t) ==
  /\ mutex = 0
  /\ mutex' = 1
  /\ writers' = writers \cup {t}
  /\ Goto(t, "idle")
  /\ UNCHANGED <<left, owed>>

Return(t) == Check(t, TRUE, "idle")

(* A client calls; it unlocks only what it has locked, and does not lock   *)
(* again what it holds (USAGE.md: "or deadlock itself with double write    *)
(* lock") except to try.                                                   *)
Call(t, op) ==
  /\ pc[t] = "idle"
  /\ op = "lock" => t \notin writers
  /\ Goto(t, op)
  /\ owed' = [owed EXCEPT ![t] = IF op = "timedlock" THEN Timeout ELSE 0]
  /\ UNCHANGED <<mutex, left, writers>>

CallUnlock(t) ==
  /\ pc[t] = "idle"
  /\ t \in writers
  /\ Check(t, TRUE, "unlock")

-----------------------------------------------------------------------------
(* wfe_mutex_lock_lock *)

LkEnter(t) == pc[t] = "lock" /\ Check(t, Consistent(mutex), "lk_cas")

LkCas(t) ==
  /\ pc[t] = "lk_cas"
  /\ \/ Grant(t)
     \/ mutex # 0 /\ Check(t, TRUE, "lk_wait")

\* Mutant: waits for the value that means held.
LkWaitHeld(t) == pc[t] = "lk_wait" /\ mutex = 1 /\ Check(t, TRUE, "lock")

\* wait_for_value_i32(0); the loop checks the word again before its CAS.
LkWait(t) == pc[t] = "lk_wait" /\ mutex = 0 /\ Check(t, TRUE, "lock")

(* wfe_mutex_lock_trylock *)

TryEnter(t) == pc[t] = "trylock" /\ Check(t, Consistent(mutex), "try_cas")

TryCas(t) ==
  /\ pc[t] = "try_cas"
  /\ \/ Grant(t)
     \/ mutex # 0 /\ Return(t)

(* wfe_mutex_lock_timedlock *)

TlEnter(t) == pc[t] = "timedlock" /\ Check(t, Consistent(mutex), "tl_cas")

TlCas(t) ==
  /\ pc[t] = "tl_cas"
  /\ \/ Grant(t)
     \/ mutex # 0 /\ Check(t, TRUE, "tl_wait")

\* Mutant: the wait gets no time of its own.
TlLoadNoTimeout(t) ==
  /\ pc[t] = "tl_wait"
  /\ mutex # 0
  /\ Check(t, TRUE, "tl_busy")

\* The first load of wait_for_value_timeout_i32(0, nanoseconds): the lock is
\* still held, so the wait starts, with the whole timeout, on every retry.
TlLoad(t) ==
  /\ pc[t] = "tl_wait"
  /\ mutex # 0
  /\ left' = [left EXCEPT ![t] = Timeout]
  /\ Goto(t, "tl_busy")
  /\ UNCHANGED <<mutex, writers, owed>>

\* A load of the wait sees the lock free.
TlWait(t) == pc[t] \in {"tl_wait", "tl_busy"} /\ mutex = 0 /\ Check(t, TRUE, "timedlock")

\* Mutant: goes round without looking at the clock.
TlTimeoutNever(t) == pc[t] = "tl_busy" /\ left[t] = 0 /\ mutex = 0 /\ Return(t)

\* The clock is past the deadline: false, whatever the word holds by now.
TlTimeout(t) == pc[t] = "tl_busy" /\ left[t] = 0 /\ Return(t)

(* wfe_mutex_lock_unlock *)

UnEnter(t) == pc[t] = "unlock" /\ Check(t, Consistent(mutex), "un_check")

UnCheck(t) == pc[t] = "un_check" /\ Check(t, mutex = 1, "un_store")

\* Mutant: adds one where it should store zero.
UnStoreIncrement(t) ==
  /\ pc[t] = "un_store"
  /\ mutex' = mutex + 1
  /\ writers' = writers \ {t}
  /\ Goto(t, "idle")
  /\ UNCHANGED <<left, owed>>

UnStore(t) ==
  /\ pc[t] = "un_store"
  /\ mutex' = 0
  /\ writers' = writers \ {t}
  /\ Goto(t, "idle")
  /\ UNCHANGED <<left, owed>>

(* The clock.  Time passes whatever the threads do. *)
Down(n) == IF n = 0 THEN 0 ELSE n - 1

Tick ==
  /\ left' = [t \in Threads |-> Down(left[t])]
  /\ owed' = [t \in Threads |-> Down(owed[t])]
  /\ UNCHANGED <<mutex, pc, writers>>

-----------------------------------------------------------------------------
Init ==
  /\ mutex = 0                             \* WFE_MUTEX_LOCK_INITIALIZER
  /\ pc = [t \in Threads |-> "idle"]
  /\ left = [t \in Threads |-> 0]
  /\ writers = {}
  /\ owed = [t \in Threads |-> 0]

Lock(t) == LkEnter(t) \/ LkCas(t) \/ LkWait(t)
Trylock(t) == TryEnter(t) \/ TryCas(t)
Timedlock(t) ==
  TlEnter(t) \/ TlCas(t) \/ TlLoad(t) \/ TlWait(t) \/ TlTimeout(t)
Unlock(t) == UnEnter(t) \/ UnCheck(t) \/ UnStore(t)

Step(t) == Lock(t) \/ Trylock(t) \/ Timedlock(t) \/ Unlock(t)

CallLock(t) == \E op \in Ops : Call(t, op)

Next == Tick \/ \E t \in Threads : CallLock(t) \/ CallUnlock(t) \/ Step(t)

Spec == Init /\ [][Next]_vars

-----------------------------------------------------------------------------
(* Properties. *)

Labels == AllOps \cup {"idle", "trap", "lk_cas", "lk_wait", "try_cas", "tl_cas",
                       "tl_wait", "tl_busy", "unlock", "un_check", "un_store"}

(* The types of the variables: the word is 0 or 1 and every thread is at   *)
(* an access of the code.                                                  *)
TypeOK ==
  /\ mutex \in {0, 1}
  /\ pc \in [Threads -> Labels]
  /\ left \in [Threads -> 0..Timeout]
  /\ writers \subseteq Threads
  /\ owed \in [Threads -> 0..Timeout]

(* USAGE.md: "A mutex object that can only ever have one 'unique' or       *)
(* 'writer' at a time"; and the word is 1 exactly while somebody has it,   *)
(* so that a debug build's checks of the word never fire.                  *)
Exclusion ==
  /\ \A t, u \in writers : t = u
  /\ mutex = 1 <=> writers # {}
  /\ \A t \in Threads : pc[t] # "trap"

(* A timedlock that returns false has let its whole timeout pass, however  *)
(* many times it found the lock free and lost it to another thread.        *)
TimedlockWaitsItOut ==
  [][\A t \in Threads :
       pc[t] \in {"tl_cas", "tl_wait", "tl_busy"} /\ pc'[t] = "idle"
       /\ writers' = writers => owed[t] = 0]_vars

(* The lock is the abstract lock with no read holds. *)
Abs == INSTANCE SharedMutex WITH MaxReads <- 0, reads <- {}
ImplementsSharedMutex == Abs!Spec

-----------------------------------------------------------------------------
(***************************************************************************)
(* Fairness: threads in a call keep running and time passes.  In FairSpec  *)
(* a holder also unlocks sooner or later, strong fairness because it may   *)
(* make other calls first; in TimedSpec it may keep the lock for ever,     *)
(* which is what a timeout is for.                                         *)
(***************************************************************************)
TimedSpec == Spec /\ WF_vars(Tick) /\ \A t \in Threads : WF_vars(Step(t))
FairSpec == TimedSpec /\ \A t \in Threads : SF_vars(CallUnlock(t))

(* A timedlock does not stay in its wait while another thread keeps the    *)
(* lock: the timeout ends it.                                              *)
TimedlockGivesUp ==
  \A t \in Threads :
    ~ <>[](mutex = 1 /\ pc[t] \in {"timedlock", "tl_cas", "tl_wait", "tl_busy"})

(* While threads are in lock and holders keep unlocking, the lock is given *)
(* to somebody again and again: no unlock goes unseen by all the waiters.  *)
LockGranted ==
  []<>(\E t \in Threads : pc[t] \in {"lock", "lk_cas", "lk_wait"}) /\ []<>(mutex = 0)
    => []<><<\E t \in Threads : t \notin writers /\ t \in writers'>>_vars

(* USAGE.md:63: "Tries to lock the mutex, Spins until acquired or          *)
(* timeout, returning the result".                                         *)
TimedlockReturns == \A t \in Threads : pc[t] = "timedlock" ~> pc[t] = "idle"
=============================================================================
