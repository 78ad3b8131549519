----------------------------- MODULE MutexOrder -----------------------------
(***************************************************************************)
(* MutexLock with data that its holders access, and the memory order of    *)
(* the accesses to the word: what is known of other threads' accesses is   *)
(* passed on by the release store of an unlock and learnt by an acquire.   *)
(*                                                                         *)
(* The order is C11's happens-before, kept as knowledge: u is in known[t]  *)
(* when u's latest access to the data happens before whatever t does next, *)
(* and in carried when an acquire that reads the word as it is learns it.  *)
(* A compare-and-exchange with acquire order alone leaves carried as it    *)
(* is: it continues the release sequence.  A single word is coherent, so   *)
(* its own accesses interleave as in MutexLock.  The loads of the debug    *)
(* checks are not counted on: a release build has none.                    *)
(***************************************************************************)
EXTENDS MutexLock

VARIABLES known,     \* whose latest access each thread knows of
          carried    \* what the word's release sequence tells an acquire

orderVars == <<mutex, pc, left, writers, owed, known, carried>>

\* Mutant: __ATOMIC_RELAXED.
Relaxed(t) == UNCHANGED <<known, carried>>

\* __ATOMIC_ACQUIRE, whether the compare-and-exchange succeeds or not.
Acquire(t) ==
  /\ known' = [known EXCEPT ![t] = @ \cup carried]
  /\ UNCHANGED carried

\* __ATOMIC_RELEASE, of a plain store.
Release(t) ==
  /\ carried' = known[t]
  /\ UNCHANGED known

\* A holder reads or writes the data: everybody's knowledge of it is old now.
Access(t) ==
  /\ pc[t] = "idle"
  /\ t \in writers
  /\ known' = [u \in Threads |-> IF u = t THEN known[t] \cup {t} ELSE known[u] \ {t}]
  /\ carried' = carried \ {t}
  /\ UNCHANGED vars

OrderedStep(t) ==
  \/ (LkCas(t) \/ LkWait(t) \/ TryCas(t)) /\ Acquire(t)
  \/ (TlCas(t) \/ TlLoad(t) \/ TlWait(t)) /\ Acquire(t)
  \/ UnStore(t) /\ Release(t)
  \/ (LkEnter(t) \/ TryEnter(t) \/ TlEnter(t) \/ TlTimeout(t) \/ UnEnter(t) \/ UnCheck(t))
       /\ UNCHANGED <<known, carried>>

OInit ==
  /\ Init
  /\ known = [t \in Threads |-> Threads]
  /\ carried = Threads

ONext ==
  \/ Tick /\ UNCHANGED <<known, carried>>
  \/ \E t \in Threads :
       \/ (CallLock(t) \/ CallUnlock(t)) /\ UNCHANGED <<known, carried>>
       \/ OrderedStep(t)
       \/ Access(t)

OSpec == OInit /\ [][ONext]_orderVars

\* The fairness of TimedSpec: threads in a call keep running, time passes.
OTimedSpec ==
  /\ OSpec
  /\ WF_orderVars(Tick /\ UNCHANGED <<known, carried>>)
  /\ \A t \in Threads : WF_orderVars(OrderedStep(t))

-----------------------------------------------------------------------------
(* USAGE.md: "These only synchronize memory on unlock".  Whoever holds the *)
(* lock knows every access made under it before, through however many      *)
(* holders, failed attempts and timed-out waits it was handed on: accesses *)
(* to the guarded data never race.                                         *)
NoDataRace == \A t \in writers : known[t] = Threads
=============================================================================
