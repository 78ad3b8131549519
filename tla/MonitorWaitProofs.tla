------------------------- MODULE MonitorWaitProofs -------------------------
(***************************************************************************)
(* Theorems about MonitorWait, for any number of waiters, any width of the *)
(* word, any timeouts and any 32-bit limit of mwaitx's timer.              *)
(*                                                                         *)
(* What a call returns depends on what it did on the way, so the invariant *)
(* says, per waiter, what each step of the code may rely on: the word it   *)
(* last loaded was in memory since the call (Loaded), a step behind a      *)
(* failed comparison has seen a word that is not awaited (Missed), and the *)
(* deadline is no earlier than the timeout asks (InTime).                  *)
(***************************************************************************)
EXTENDS MonitorWait, TLAPS

\* The steps a call reaches only after a look at the word that failed.
BehindLook(w) ==
  \/ pc[w] \in {"arm", "recheck", "sleep", "reload", "check"}
  \/ pc[w] = "clock" /\ ~Spin

\* The steps at which the deadline is known.
DeadlineSet(w) ==
  \/ pc[w] \in {"arm", "recheck", "sleep", "reload", "check"}
  \/ pc[w] = "load" /\ Spin

Loaded(w) ==
  /\ pc[w] # "idle" => mem \in seen[w]
  /\ pc[w] \in {"sleep", "check"} => result[w] \in seen[w]
Missed(w) == BehindLook(w) => ~(seen[w] \subseteq want[w])
InTime(w) ==
  /\ pc[w] \in {"clock", "check"} => Timed(w)
  /\ pc[w] = "clock" \/ (pc[w] = "load" /\ ~Spin) => owed[w] <= total[w]
  /\ DeadlineSet(w) /\ kind[w] = "timeout" => owed[w] <= left[w]

Returned(w) ==
  pc[w] = "idle" =>
    /\ ok[w] => result[w] \in want[w] /\ result[w] \in seen[w]
    /\ ~ok[w] => ~(seen[w] \subseteq want[w]) /\ kind[w] \in {"timeout", "oneshot"}
    /\ ~ok[w] /\ kind[w] = "timeout" => owed[w] = 0

Local(w) == Loaded(w) /\ Missed(w) /\ InTime(w) /\ Returned(w)

IInv == TypeOK /\ NoLostWakeup /\ \A w \in Waiters : Local(w)
-----------------------------------------------------------------------------
(* Types. *)

LEMMA TargetsAreWords ==
  ASSUME NEW k \in AllKinds, NEW s, s \in Targets(k)
  PROVE  s \in SUBSET Words
<1>1. CASE k = "bit_set"
  BY <1>1 DEF Targets
<1>2. CASE k = "bit_not_set"
  BY <1>2 DEF Targets
<1>3. CASE k \notin {"bit_set", "bit_not_set"}
  BY <1>3 DEF Targets
<1>. QED BY <1>1, <1>2, <1>3

LEMMA AtMostType ==
  ASSUME NEW n \in Nat
  PROVE  AtMost(n, Clamp) \in 0..Clamp
BY WaitAssumption DEF AtMost

LEMMA InitType == Init => TypeOK
BY WaitAssumption DEF Init, TypeOK, Labels, AllKinds, Words

LEMMA CallType ==
  ASSUME TypeOK, NEW w \in Waiters, CallAny(w)
  PROVE  TypeOK'
<1>0. PICK k \in Kinds : \E s \in Targets(k) : \E n \in Nat : Call(w, k, s, n)
  BY WaitAssumption DEF CallAny
<1>1. PICK s \in Targets(k), n \in Nat : Call(w, k, s, n)
  BY <1>0
<1>2. k \in AllKinds /\ s \in SUBSET Words
  BY TargetsAreWords, WaitAssumption
<1>. QED BY <1>1, <1>2 DEF Call, Goto, TypeOK, Labels

\* The part of the types a call's own step writes.
StepType ==
  /\ pc' \in [Waiters -> Labels]
  /\ ok' \in [Waiters -> BOOLEAN]
  /\ result' \in [Waiters -> Words]
  /\ timer' \in [Waiters -> 0..Clamp]

LEMMA FinishType ==
  ASSUME TypeOK, NEW w \in Waiters, NEW b \in BOOLEAN, NEW v \in Words, Finish(w, b, v)
  PROVE  StepType
<1>1. ok' \in [Waiters -> BOOLEAN]
  BY Zenon DEF Finish, TypeOK
<1>. QED BY <1>1 DEF Finish, Goto, TypeOK, Labels, StepType

LEMMA ContinueType ==
  ASSUME TypeOK, NEW w \in Waiters, NEW v \in Words, NEW label \in Labels,
         Continue(w, v, label)
  PROVE  StepType
BY DEF Continue, Goto, TypeOK, StepType

LEMMA RunType ==
  ASSUME TypeOK, NEW w \in Waiters, Run(w)
  PROVE  TypeOK'
<1>. USE DEF Args, Labels
<1>1. mem \in Words /\ result[w] \in Words /\ (mem \in want[w]) \in BOOLEAN
  BY DEF TypeOK
<1>2. StepType /\ UNCHANGED <<backend, mem, kind, want, total, seen, owed>>
      /\ UNCHANGED <<armed, left>> => TypeOK'
  BY DEF StepType, TypeOK
<1>3. CASE Load(w) \/ Recheck(w)
  BY <1>1, <1>2, <1>3, FinishType, ContinueType DEF Load, Recheck
<1>4. CASE Clock(w)
  <2>1. Cycles(w) \in Nat
    BY WaitAssumption DEF Cycles, TypeOK
  <2>2. AtMost(Cycles(w), Clamp) \in 0..Clamp
    BY <2>1, AtMostType
  <2>. QED BY <1>4, <2>1, <2>2 DEF TypeOK, Clock, Goto
<1>5. CASE ArmMonitor(w)
  <2>1. StepType
    <3>1. CASE X86 /\ Goto(w, "recheck") /\ UNCHANGED <<result, ok, timer>>
      BY <3>1 DEF StepType, Goto, TypeOK
    <3>. QED BY <1>1, <1>5, <3>1, FinishType, ContinueType DEF ArmMonitor
  <2>. QED BY <1>5, <2>1 DEF ArmMonitor, StepType, TypeOK
<1>6. CASE Reload(w)
  BY <1>1, <1>2, <1>6, FinishType, ContinueType DEF Reload
<1>7. CASE Check(w)
  <2>1. AtMost(left[w], Clamp) \in 0..Clamp
    BY AtMostType DEF TypeOK
  <2>2. ASSUME timer' = [timer EXCEPT ![w] = AtMost(left[w], Clamp)],
               Goto(w, "reload"), UNCHANGED <<result, ok>>
        PROVE  StepType
    BY <2>1, <2>2 DEF Goto, StepType, TypeOK
  <2>. QED BY <1>1, <1>2, <1>7, <2>2, FinishType, ContinueType DEF Check
<1>. QED BY <1>3, <1>4, <1>5, <1>6, <1>7 DEF Run

LEMMA WorldType ==
  ASSUME TypeOK, Tick \/ (\E v \in Words : Store(v)) \/ (\E w \in Waiters : Wake(w))
  PROVE  TypeOK'
<1>. USE DEF Args, Labels
<1>1. CASE Tick
  <2>1. /\ \A n \in Nat : Down(n) \in Nat
        /\ \A n \in 0..Clamp : Down(n) \in 0..Clamp
    BY WaitAssumption DEF Down
  <2>. QED BY <1>1, <2>1 DEF Tick, TypeOK
<1>2. ASSUME NEW v \in Words, Store(v) PROVE TypeOK'
  BY <1>2 DEF Store, TypeOK
<1>3. ASSUME NEW w \in Waiters, Wake(w) PROVE TypeOK'
  BY <1>3 DEF Wake, Goto, TypeOK
<1>. QED BY <1>1, <1>2, <1>3

\* Every step is one of these.
LEMMA NextCases ==
  ASSUME Next
  PROVE  \/ Tick
         \/ \E v \in Words : Store(v)
         \/ \E w \in Waiters : CallAny(w) \/ Run(w) \/ Wake(w)
BY DEF Next, WakeMonitor, WakeTimer, WakeSpurious

LEMMA NextType == TypeOK /\ [Next]_vars => TypeOK'
<1>1. TypeOK /\ UNCHANGED vars => TypeOK'
  BY DEF vars, TypeOK
<1>. QED BY <1>1, NextCases, CallType, RunType, WorldType

(* The variables of a wait keep their types: a label its function has, a   *)
(* word of memory, a timer of 32 bits.                                     *)
THEOREM TypeCorrect == Spec => []TypeOK
BY InitType, NextType, PTL DEF Spec

-----------------------------------------------------------------------------
(* The monitor. *)

LEMMA NextWakeup == TypeOK /\ NoLostWakeup /\ [Next]_vars => NoLostWakeup'
<1>. SUFFICES ASSUME TypeOK, NoLostWakeup, [Next]_vars,
                     NEW u \in Waiters, pc'[u] = "sleep", armed'[u]
              PROVE  mem' \notin want'[u]
  BY DEF NoLostWakeup
<1>1. CASE UNCHANGED vars
  BY <1>1 DEF vars, NoLostWakeup
<1>2. CASE Tick
  BY <1>2 DEF Tick, Args, NoLostWakeup
<1>3. ASSUME NEW v \in Words, Store(v) PROVE FALSE
  BY <1>3 DEF Store
<1>4. ASSUME NEW w \in Waiters, Wake(w) PROVE mem' \notin want'[u]
  BY <1>4 DEF Wake, Goto, Args, TypeOK, NoLostWakeup
<1>5. ASSUME NEW w \in Waiters, CallAny(w) PROVE mem' \notin want'[u]
  BY <1>5 DEF CallAny, Call, Goto, TypeOK, NoLostWakeup
<1>6. ASSUME NEW w \in Waiters, Run(w) PROVE mem' \notin want'[u]
  <2>1. UNCHANGED <<mem, want>>
    BY <1>6 DEF Run, Load, Clock, ArmMonitor, Recheck, Reload, Check, Args
  <2>2. CASE u = w
    BY <1>6, <2>1, <2>2 DEF Run, Load, Clock, ArmMonitor, Recheck, Reload, Check,
       Goto, Finish, Continue, TypeOK, NoLostWakeup
  <2>3. CASE u # w
    BY <1>6, <2>1, <2>3 DEF Run, Load, Clock, ArmMonitor, Recheck, Reload, Check,
       Goto, Finish, Continue, TypeOK, NoLostWakeup
  <2>. QED BY <2>2, <2>3
<1>. QED BY <1>1, <1>2, <1>3, <1>4, <1>5, <1>6, NextCases

(* No waiter sleeps through the store it waits for, on any backend. *)
THEOREM WakeupNotLost == Spec => []NoLostWakeup
<1>1. Init => NoLostWakeup
  BY DEF Init, NoLostWakeup
<1>. QED BY <1>1, NextWakeup, TypeCorrect, PTL DEF Spec
-----------------------------------------------------------------------------
(* What the calls return. *)

\* A waiter is not disturbed by the steps of another.
LEMMA LocalFrame ==
  ASSUME NEW u \in Waiters, Local(u), UNCHANGED <<backend, mem>>,
         pc'[u] = pc[u], kind'[u] = kind[u], want'[u] = want[u],
         total'[u] = total[u], left'[u] = left[u], result'[u] = result[u],
         ok'[u] = ok[u], seen'[u] = seen[u], owed'[u] = owed[u]
  PROVE  Local(u)'
BY DEF Local, Loaded, Missed, InTime, Returned, BehindLook, DeadlineSet, Timed, Spin

\* The steps of w leave the others as they are.
LEMMA OthersKeep ==
  ASSUME IInv, NEW w \in Waiters, CallAny(w) \/ Run(w) \/ Wake(w),
         NEW u \in Waiters, u # w
  PROVE  Local(u)'
<1>. USE DEF Goto, Finish, Continue, Args, IInv, TypeOK
<1>1. UNCHANGED <<backend, mem>>
  BY DEF CallAny, Call, Run, Load, Clock, ArmMonitor, Recheck, Reload, Check, Wake
<1>2. ASSUME CallAny(w) PROVE Local(u)'
  BY <1>1, <1>2, LocalFrame DEF CallAny, Call
<1>3. ASSUME Wake(w) PROVE Local(u)'
  BY <1>1, <1>3, LocalFrame DEF Wake
<1>4. ASSUME Load(w) \/ Clock(w) PROVE Local(u)'
  BY <1>1, <1>4, LocalFrame DEF Load, Clock
<1>5. ASSUME ArmMonitor(w) \/ Recheck(w) PROVE Local(u)'
  BY <1>1, <1>5, LocalFrame DEF ArmMonitor, Recheck
<1>6. ASSUME Reload(w) \/ Check(w) PROVE Local(u)'
  BY <1>1, <1>6, LocalFrame DEF Reload, Check
<1>. QED BY <1>2, <1>3, <1>4, <1>5, <1>6 DEF Run

LEMMA CallLocal ==
  ASSUME IInv, NEW w \in Waiters, CallAny(w)
  PROVE  Local(w)'
<1>0. PICK k \in Kinds : \E s \in Targets(k) : \E n \in Nat : Call(w, k, s, n)
  BY WaitAssumption DEF CallAny
<1>1. PICK s \in Targets(k), n \in Nat : Call(w, k, s, n)
  BY <1>0
<1>. QED BY <1>1 DEF Call, Goto, IInv, TypeOK, Local, Loaded, Missed, InTime,
            Returned, BehindLook, DeadlineSet, Timed, Spin

\* Returning true with an awaited word that was seen.
LEMMA FinishTrue ==
  ASSUME TypeOK, NEW w \in Waiters, NEW v \in Words, Finish(w, TRUE, v),
         UNCHANGED <<mem, want, seen>>, v \in want[w], v \in seen[w]
  PROVE  Local(w)'
BY DEF Finish, Goto, TypeOK, Local, Loaded, Missed, InTime, Returned, BehindLook,
   DeadlineSet

\* Returning false from a timed wait or a oneshot, in time.
LEMMA FinishFalse ==
  ASSUME TypeOK, NEW w \in Waiters, NEW v \in Words, Finish(w, FALSE, v),
         UNCHANGED <<mem, kind, want, seen, owed>>, ~(seen[w] \subseteq want[w]),
         kind[w] \in {"timeout", "oneshot"}, kind[w] = "timeout" => owed[w] = 0
  PROVE  Local(w)'
BY DEF Finish, Goto, TypeOK, Local, Loaded, Missed, InTime, Returned, BehindLook,
   DeadlineSet

\* Going on behind a look that failed.
LEMMA ContinueBehind ==
  ASSUME TypeOK, NEW w \in Waiters, NEW v \in Words, v \in seen[w], mem \in seen[w],
         NEW label \in {"arm", "sleep", "reload", "check"},
         ~(seen[w] \subseteq want[w]), label = "check" => Timed(w),
         kind[w] = "timeout" => owed[w] <= left[w],
         Continue(w, v, label), UNCHANGED <<Args, mem, left, seen, owed>>
  PROVE  Local(w)'
BY DEF Continue, Goto, Args, TypeOK, Local, Loaded, Missed, InTime, Returned,
   BehindLook, DeadlineSet, Timed, Spin

LEMMA LoadLocal ==
  ASSUME IInv, NEW w \in Waiters, Load(w)
  PROVE  Local(w)'
<1>1. mem \in Words /\ mem \in seen[w] /\ Local(w) /\ TypeOK
  BY DEF Load, IInv, TypeOK, Local, Loaded
<1>2. CASE mem \in want[w] /\ Finish(w, TRUE, mem)
  BY <1>1, <1>2, FinishTrue DEF Load, Args
<1>3. CASE /\ mem \notin want[w]
           /\ Continue(w, mem, IF Spin THEN IF Timed(w) THEN "check" ELSE "load"
                               ELSE IF Timed(w) THEN "clock" ELSE "arm")
  BY <1>1, <1>3 DEF Load, Continue, Goto, Args, TypeOK, Local, Loaded, Missed,
     InTime, Returned, BehindLook, DeadlineSet, Timed, Spin
<1>. QED BY <1>2, <1>3 DEF Load

LEMMA ClockLocal ==
  ASSUME IInv, NEW w \in Waiters, Clock(w)
  PROVE  Local(w)'
<1>1. Local(w) /\ TypeOK
  BY DEF IInv
<1>. QED BY <1>1 DEF Clock, Goto, Args, Cycles, TypeOK, Local, Loaded, Missed,
            InTime, Returned, BehindLook, DeadlineSet, Timed, Spin

LEMMA ArmLocal ==
  ASSUME IInv, NEW w \in Waiters, ArmMonitor(w)
  PROVE  Local(w)'
<1>1. /\ mem \in Words /\ mem \in seen[w] /\ Local(w) /\ TypeOK
      /\ ~(seen[w] \subseteq want[w])
      /\ kind[w] = "timeout" => owed[w] <= left[w]
  BY DEF ArmMonitor, IInv, TypeOK, Local, Loaded, Missed, InTime, BehindLook,
     DeadlineSet
<1>2. CASE X86 /\ Goto(w, "recheck") /\ UNCHANGED <<result, ok, timer>>
  BY <1>1, <1>2 DEF ArmMonitor, Goto, Args, TypeOK, Local, Loaded, Missed, InTime,
     Returned, BehindLook, DeadlineSet, Timed, Spin
<1>3. CASE mem \in want[w] /\ Finish(w, TRUE, mem)
  BY <1>1, <1>3, FinishTrue DEF ArmMonitor, Args
<1>4. CASE mem \notin want[w] /\ Continue(w, mem, "sleep")
  BY <1>1, <1>4, ContinueBehind DEF ArmMonitor
<1>. QED BY <1>2, <1>3, <1>4 DEF ArmMonitor

LEMMA RecheckLocal ==
  ASSUME IInv, NEW w \in Waiters, Recheck(w)
  PROVE  Local(w)'
<1>1. /\ mem \in Words /\ mem \in seen[w] /\ TypeOK
      /\ ~(seen[w] \subseteq want[w])
      /\ kind[w] = "timeout" => owed[w] <= left[w]
  BY DEF Recheck, IInv, TypeOK, Local, Loaded, Missed, InTime, BehindLook,
     DeadlineSet
<1>2. CASE mem \in want[w] /\ Finish(w, TRUE, mem)
  BY <1>1, <1>2, FinishTrue DEF Recheck, Args
<1>3. CASE mem \notin want[w] /\ Continue(w, mem, "sleep")
  BY <1>1, <1>3, ContinueBehind DEF Recheck
<1>. QED BY <1>2, <1>3 DEF Recheck

LEMMA ReloadLocal ==
  ASSUME IInv, NEW w \in Waiters, Reload(w)
  PROVE  Local(w)'
<1>1. /\ mem \in Words /\ mem \in seen[w] /\ TypeOK
      /\ ~(seen[w] \subseteq want[w])
      /\ kind[w] = "timeout" => owed[w] <= left[w]
  BY DEF Reload, IInv, TypeOK, Local, Loaded, Missed, InTime, BehindLook,
     DeadlineSet
<1>2. CASE Timed(w) /\ Continue(w, mem, "check")
  BY <1>1, <1>2, ContinueBehind DEF Reload
<1>3. CASE kind[w] = "oneshot" /\ Finish(w, mem \in want[w], mem)
  <2>1. CASE mem \in want[w]
    <3>1. Finish(w, TRUE, mem)
      BY <1>3, <2>1 DEF Finish
    <3>. QED BY <1>1, <2>1, <3>1, FinishTrue DEF Reload, Args
  <2>2. CASE mem \notin want[w]
    <3>1. (mem \in want[w]) = FALSE
      BY <2>2
    <3>2. Finish(w, FALSE, mem)
      BY <1>3, <3>1, Zenon
    <3>. QED BY <1>1, <1>3, <2>2, <3>2, FinishFalse DEF Reload, Args
  <2>. QED BY <2>1, <2>2
<1>4. CASE mem \in want[w] /\ Finish(w, TRUE, mem)
  BY <1>1, <1>4, FinishTrue DEF Reload, Args
<1>5. CASE mem \notin want[w] /\ Continue(w, mem, "arm")
  BY <1>1, <1>5, ContinueBehind DEF Reload
<1>. QED BY <1>2, <1>3, <1>4, <1>5 DEF Reload

LEMMA CheckLocal ==
  ASSUME IInv, NEW w \in Waiters, Check(w)
  PROVE  Local(w)'
<1>1. /\ result[w] \in Words /\ result[w] \in seen[w] /\ mem \in seen[w]
      /\ Timed(w) /\ Local(w) /\ TypeOK
      /\ ~(seen[w] \subseteq want[w])
      /\ kind[w] = "timeout" => owed[w] <= left[w]
  BY DEF Check, IInv, TypeOK, Local, Loaded, Missed, InTime, BehindLook,
     DeadlineSet
<1>2. CASE PastDeadline(w) /\ Finish(w, FALSE, result[w])
  <2>1. kind[w] = "timeout" => owed[w] = 0
    BY <1>1, <1>2 DEF PastDeadline, TypeOK
  <2>2. kind[w] \in {"timeout", "oneshot"}
    BY <1>1 DEF Timed
  <2>. QED BY <1>1, <1>2, <2>1, <2>2, FinishFalse DEF Check, Args
<1>3. CASE Spin /\ Continue(w, result[w], "load")
  BY <1>1, <1>3 DEF Check, Continue, Goto, Args, TypeOK, Local, Loaded, Missed,
     InTime, Returned, BehindLook, DeadlineSet, Timed, Spin
<1>4. CASE X86 /\ Goto(w, "reload") /\ UNCHANGED <<result, ok>>
  BY <1>1, <1>4 DEF Check, Goto, Args, TypeOK, Local, Loaded, Missed,
     InTime, Returned, BehindLook, DeadlineSet, Timed, Spin
<1>5. CASE result[w] \in want[w] /\ Finish(w, TRUE, result[w])
  BY <1>1, <1>5, FinishTrue DEF Check, Args
<1>6. CASE result[w] \notin want[w] /\ Continue(w, result[w], "arm")
  BY <1>1, <1>6, ContinueBehind DEF Check
<1>. QED BY <1>2, <1>3, <1>4, <1>5, <1>6 DEF Check
LEMMA WakeLocal ==
  ASSUME IInv, NEW w \in Waiters, Wake(w)
  PROVE  Local(w)'
<1>1. Local(w) /\ TypeOK
  BY DEF IInv
<1>2. ~(X86 /\ Arm)
  BY DEF X86, Arm
<1>3. pc[w] = "sleep" /\ mem \in seen[w]
  BY <1>1 DEF Wake, Local, Loaded
<1>4. CASE X86 /\ Timed(w)
  <2>1. result[w] \in seen[w]
    BY <1>1, <1>3 DEF Local, Loaded
  <2>. QED BY <1>1, <1>3, <1>4, <2>1 DEF Wake, Goto, Args, TypeOK, Local, Loaded,
         Missed, InTime, Returned, BehindLook, DeadlineSet, Timed, Spin
<1>5. CASE ~(X86 /\ Timed(w))
  BY <1>1, <1>5 DEF Wake, Goto, Args, TypeOK, Local, Loaded, Missed, InTime,
     Returned, BehindLook, DeadlineSet, Timed, Spin
<1>. QED BY <1>4, <1>5

LEMMA StoreLocal ==
  ASSUME IInv, NEW v \in Words, Store(v), NEW u \in Waiters
  PROVE  Local(u)'
<1>1. Local(u) /\ TypeOK
  BY DEF IInv
<1>2. /\ UNCHANGED <<backend, kind, want, total, pc, left, result, ok, owed>>
      /\ mem' = v
      /\ seen'[u] = IF pc[u] = "idle" THEN seen[u] ELSE seen[u] \cup {v}
  BY DEF Store, Args
<1>. QED BY <1>1, <1>2 DEF TypeOK, Local, Loaded, Missed, InTime, Returned,
            BehindLook, DeadlineSet, Timed, Spin

LEMMA TickLocal ==
  ASSUME IInv, Tick, NEW u \in Waiters
  PROVE  Local(u)'
<1>1. Local(u) /\ left[u] \in Nat /\ owed[u] \in Nat /\ total[u] \in Nat
  BY DEF IInv, TypeOK
<1>2. /\ UNCHANGED <<backend, mem, kind, want, total, pc, result, ok, seen>>
      /\ left'[u] = Down(left[u])
      /\ owed'[u] = IF pc[u] = "idle" THEN owed[u] ELSE Down(owed[u])
  BY DEF Tick, Args
<1>. QED BY <1>1, <1>2 DEF Down, Local, Loaded, Missed, InTime, Returned,
            BehindLook, DeadlineSet, Timed, Spin

LEMMA InitIInv == Init => IInv
<1>. SUFFICES ASSUME Init PROVE IInv
  OBVIOUS
<1>1. NoLostWakeup
  BY DEF Init, NoLostWakeup
<1>2. ASSUME NEW w \in Waiters PROVE Local(w)
  BY DEF Init, Local, Loaded, Missed, InTime, Returned, BehindLook, DeadlineSet
<1>. QED BY InitType, <1>1, <1>2 DEF IInv

LEMMA NextIInv == IInv /\ [Next]_vars => IInv'
<1>. SUFFICES ASSUME IInv, [Next]_vars PROVE IInv'
  OBVIOUS
<1>1. TypeOK' /\ NoLostWakeup'
  BY NextType, NextWakeup DEF IInv
<1>2. ASSUME NEW u \in Waiters PROVE Local(u)'
  <2>0. Local(u)
    BY DEF IInv
  <2>1. CASE UNCHANGED vars
    BY <2>0, <2>1, LocalFrame DEF vars
  <2>2. CASE Tick
    BY <2>2, TickLocal
  <2>3. ASSUME NEW v \in Words, Store(v) PROVE Local(u)'
    BY <2>3, StoreLocal
  <2>4. ASSUME NEW w \in Waiters, CallAny(w) \/ Run(w) \/ Wake(w) PROVE Local(u)'
    <3>1. CASE u # w
      BY <2>4, <3>1, OthersKeep
    <3>2. CASE u = w
      BY <2>4, <3>2, CallLocal, WakeLocal, LoadLocal, ClockLocal, ArmLocal,
         RecheckLocal, ReloadLocal, CheckLocal DEF Run
    <3>. QED BY <3>1, <3>2
  <2>. QED BY <2>1, <2>2, <2>3, <2>4, NextCases
<1>. QED BY <1>1, <1>2 DEF IInv

THEOREM Invariance == Spec => []IInv
BY InitIInv, NextIInv, PTL DEF Spec

(* A wait that reports success returns an awaited word that was in memory  *)
(* during the call.                                                        *)
THEOREM TrueIsTrue == Spec => []TrueIsSeen
<1>1. IInv => TrueIsSeen
  BY DEF IInv, Local, Returned, TrueIsSeen
<1>. QED BY <1>1, Invariance, PTL

(* A wait that reports failure has looked at the word and missed; only the *)
(* functions that may fail do.                                             *)
THEOREM FalseIsTrue == Spec => []FalseIsSeen
<1>1. IInv => FalseIsSeen
  BY DEF IInv, Local, Returned, FalseIsSeen
<1>. QED BY <1>1, Invariance, PTL

(* No timed wait gives up before its timeout, on any backend. *)
THEOREM NotEarly == Spec => []NoEarlyTimeout
<1>1. IInv => NoEarlyTimeout
  BY DEF IInv, Local, Returned, NoEarlyTimeout
<1>. QED BY <1>1, Invariance, PTL
=============================================================================
