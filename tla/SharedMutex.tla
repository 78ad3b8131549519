---------------------------- MODULE SharedMutex ----------------------------
(***************************************************************************)
(* What a lock of wfe_mutex.h promises its clients, without the word of    *)
(* memory that implements it: USAGE.md, "A mutex object that can have one  *)
(* writer or multiple readers at a time, never both".  A hold is a pair    *)
(* <<thread, slot>>, because one thread may hold several read locks.       *)
(* wfe_mutex_lock is the same object with no read holds at all.            *)
(***************************************************************************)
EXTENDS Integers

CONSTANTS Threads,   \* the client threads
          MaxReads   \* read holds a thread has at most (0 for wfe_mutex_lock)

VARIABLES reads,     \* the read holds granted and not given up
          writers    \* the threads granted the write lock

absVars == <<reads, writers>>

Holds == Threads \X (1..MaxReads)

Init == reads = {} /\ writers = {}

AcquireRead(h) ==
  /\ writers = {}
  /\ h \notin reads
  /\ reads' = reads \cup {h}
  /\ UNCHANGED writers

AcquireWrite(t) ==
  /\ writers = {}
  /\ reads = {}
  /\ writers' = {t}
  /\ UNCHANGED reads

ReleaseRead(h) ==
  /\ h \in reads
  /\ reads' = reads \ {h}
  /\ UNCHANGED writers

ReleaseWrite(t) ==
  /\ writers = {t}
  /\ writers' = {}
  /\ UNCHANGED reads

Next ==
  \/ \E h \in Holds : AcquireRead(h) \/ ReleaseRead(h)
  \/ \E t \in Threads : AcquireWrite(t) \/ ReleaseWrite(t)

Spec == Init /\ [][Next]_absVars
=============================================================================
