----------------------------- MODULE RwLockOrder -----------------------------
(***************************************************************************)
(* The readers-writer lock with data that its holders read and write, and  *)
(* the memory order of the accesses to the word, kept as knowledge as in   *)
(* MutexOrder.  Reads and writes of the data are told apart, since readers *)
(* may read together but a write must be ordered with everything.          *)
(***************************************************************************)
EXTENDS RwLockTimed

VARIABLES known,     \* the accesses each thread knows to have happened
          carried    \* those the word's release sequence tells an acquire

orderVars == <<mutex, pc, expected, reads, writers, left, owed, known, carried>>

Writes == Threads \X {"write"}
Accesses == Threads \X {"read", "write"}

Silent == UNCHANGED <<known, carried>>

\* Mutant: __ATOMIC_RELAXED.
Relaxed(t) == Silent

\* __ATOMIC_ACQUIRE: a compare-and-exchange that succeeds or fails, a load,
\* and also the fetch_sub of read_unlock.
Acquire(t) ==
  /\ known' = [known EXCEPT ![t] = @ \cup carried]
  /\ UNCHANGED carried

\* __ATOMIC_RELEASE, of the store of zero.
Release(t) ==
  /\ carried' = known[t]
  /\ UNCHANGED known

\* A holder accesses the data: everybody's knowledge of its last access of
\* that kind is old now.
Access(t, a) ==
  /\ pc[t] = "idle"
  /\ t \in writers \/ (HasRead(t) /\ a = "read")
  /\ known' = [u \in Threads |-> IF u = t THEN known[t] \cup {<<t, a>>}
                                 ELSE known[u] \ {<<t, a>>}]
  /\ carried' = carried \ {<<t, a>>}
  /\ UNCHANGED timedVars

\* Where a thread makes an acquire access to the word, and where a debug
\* build looks at the word first.
Acquires ==
  {"rd_cas_free", "rd_cas", "rd_wait", "wr_cas", "wr_wait", "tw_cas", "tw_wait",
   "tw_busy", "try_cas", "ts_load", "ts_cas", "ru_sub"}
Checks == AllOps \cup {"unlock", "un_check", "read_unlock", "ru_check"}

OrderedStep(t) ==
  \/ pc[t] \in Acquires /\ (Untimed(t) \/ TwTimer(t)) /\ Acquire(t)
  \/ pc[t] = "un_store" /\ Untimed(t) /\ Release(t)
  \/ pc[t] \in Checks /\ Untimed(t) /\ Silent
  \/ TwDeadline(t) /\ Silent

OInit ==
  /\ TInit
  /\ known = [t \in Threads |-> Accesses]
  /\ carried = Accesses

ONext ==
  \/ Tick /\ Silent
  \/ \E t \in Threads :
       \/ (TCall(t) \/ TRelease(t)) /\ Silent
       \/ OrderedStep(t)
       \/ \E a \in {"read", "write"} : Access(t, a)

OSpec == OInit /\ [][ONext]_orderVars

OFairSpec ==
  OSpec /\ WF_orderVars(Tick /\ Silent) /\ \A t \in Threads : WF_orderVars(OrderedStep(t))

-----------------------------------------------------------------------------
Inside(t) == t \in writers \/ HasRead(t)

(* Whoever holds the lock, to read or to write, knows every write made     *)
(* under it before, although read locks and failed attempts of any number  *)
(* of threads come between the writer's unlock and its own acquire: the    *)
(* release sequence of the unlock is not broken by them.                   *)
WritesAreSeen == \A t \in Threads : Inside(t) => Writes \subseteq known[t]

(* USAGE.md:57, of the locks: "These only synchronize memory on unlock".   *)
(* So a writer's accesses come after the accesses of the readers that have *)
(* unlocked before it locked.                                              *)
UnlockSynchronizes == \A t \in writers : known[t] = Accesses
=============================================================================
