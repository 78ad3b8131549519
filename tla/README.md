# wfe_mutex in TLA+

wfe_mutex is a small C library: a plain lock and a readers-writer lock, each one
32-bit word, and the functions they wait with. A waiting thread watches the
word with the processor's own means (ARM's WFE and WFET, Intel's umonitor and
umwait, AMD's monitorx and mwaitx) or, where there are none, spins.
This directory models the library in TLA+, checks the models with TLC on small
instances, and proves their safety properties with TLAPS for all instances.

Source files are named as in the repository (`src/detect.c`,
`include/wfe_mutex/wfe_mutex.h`, `USAGE.md`).

## The system

| part | state | operations | who uses it |
|---|---|---|---|
| `wfe_mutex_rwlock` (wfe_mutex.h:277-281, 462-570) | one `uint32_t`: top bit a writer, lower bits the number of readers | rdlock, wrlock, timedwrlock, trylock, trylock_shared, unlock, read_unlock | clients |
| `wfe_mutex_lock` (wfe_mutex.h:273-275, 405-460) | one `uint32_t`: 0 or 1 | lock, trylock, timedlock, unlock | clients |
| debug checks (wfe_mutex.h:289-403) | none; they load the word again | one or two in every lock operation when `WFE_MUTEX_DEBUG` is 1 | the locks |
| wait functions (src/implementations*) | none of their own but the word, the processor's monitor, the cycle counter | wait_for_value, wait_for_bit_set, wait_for_bit_not_set, wait_for_value_timeout, wait_for_value_spurious_oneshot; 8 to 64 bits; five backends | the locks, clients |
| `Features` (src/detect.c) | one global table: the backend's functions, the cycle counter's frequency, multiplier and divisor | `wfe_mutex_init` fills it, `wfe_mutex_get_features` returns it | every wait goes through it |
| time conversion (src/detect.h, detect.c:159-180, 297-350) | multiplier and divisor | calibration; nanoseconds to cycles | the timed waits |
| C++ classes (wfe_mutex.hpp) | a lock of the C part | forward | clients |

The locks share nothing but their word. A lock operation tries a
compare-and-exchange, calls a wait function of the table when it fails, and
tries again with what the wait saw. Threads interact only through the word;
there is no queue and no owner. What makes it hard:

- readers, writers and unlocks change the word between any two accesses of a
  call, and the expected value of a CAS comes from an earlier load;
- a store may come between the look at the word and the arming of the monitor,
  and a wake-up may come for no reason;
- a timeout races the answer it is waiting for, the lock loops restart the
  timed wait, and mwaitx's own timer may be shorter than the timeout;
- nothing is fair: progress depends on other threads' progress;
- counts and clocks have edges: 31 bits of readers, 32 bits of timer, the
  nanoseconds that start again with every second, 64 bits of a product;
- the table of wait functions and the scale of the clock are filled by plain stores,
  beside threads that use them, and perhaps more than once;
- the data a lock guards is ordered only by the memory order of accesses to the word.

What makes each part correct: the locks grant and take back holds as an abstract
lock does and every call returns when it should; a wait returns only what it
really saw, loses no wake-up and does not give up early; a holder's accesses to
the guarded data come after those of earlier holders; the calibration ends and underestimates
the counter by no more than the fraction of a kilohertz that a count of whole cycles leaves out; the table
never holds a function the processor cannot execute or a scale that shortens a timeout further.

## Modules

| module | models | proofs |
|---|---|---|
| `SharedMutex` | the abstract lock: read holds and writers, no word | |
| `RwLock` | `wfe_mutex_rwlock` and its debug checks | `RwLockProofs` |
| `RwLockTimed` | `RwLock` with the clock of timedwrlock | `RwLockOrderProofs` |
| `RwLockOrder` | `RwLockTimed` with guarded data and memory order | `RwLockOrderProofs` |
| `MutexLock` | `wfe_mutex_lock`, its debug checks, the clock of its timed wait | `MutexLockProofs` |
| `MutexOrder` | `MutexLock` with guarded data and memory order | `MutexOrderProofs` |
| `MonitorWait` | the five wait functions on the five backends | `MonitorWaitProofs` |
| `MutexMonitor` | `MutexLock` composed with `MonitorWait` | `MutexMonitorProofs` |
| `RwMonitor` | `RwLock` without timedwrlock composed with `MonitorWait` | `RwMonitorProofs` |
| `Calibrate` | the measuring loop of `detect_cycle_counter_frequency` (x86) | `FeaturesProofs` |
| `Features` | `wfe_mutex_init`, the table it fills, the threads that wait through it; contains `Calibrate` | `FeaturesProofs` |

**How they fit.** `RwLock` and `MutexLock` both refine `SharedMutex` (the latter with no
read holds). They use the waits by contract: a wait ends after a load that saw the awaited
value, and a timed wait may also end at its deadline. `MonitorWait` has the waits in full.
`MutexMonitor` puts the two together: it instantiates `MutexLock` with the word of
`MonitorWait`, the lock's CASes and its unlock are the stores that trigger monitors,
and `lk_wait` is a whole wait with its arming, sleep and spurious wake-ups. That composition
refines `MutexLock`, whose `LkWait` is the load of the wait that saw the lock free; so the
contract is not an assumption of the plain lock. `RwMonitor` does the same for the readers-writer lock and
refines `RwLock`: there two kinds of waiters, `wait_for_bit_not_set` of rdlock and
`wait_for_value` of wrlock, watch one word and are woken for each other's reasons, and rdlock goes
on with the word its wait returned. Both leave out the timed operation, whose wait may end for two reasons.
`Features` gives `MonitorWait` its
backend (`RunsHere`: one the processor can execute) and its timeout in cycles (`NeverShort`), and runs
the steps of `Calibrate` inside `wfe_mutex_init`.

**State and code.** In the lock modules `mutex` is the word and `pc[t]` the next
atomic access of thread `t`, named after the function (`rd_`, `wr_`, `tw_`, `try_`,
`ts_`, `un_`, `ru_`; `lk_`, `tl_` in `MutexLock`). Every load, CAS, store and
fetch_sub is one action: `RdCasFree`, `RdCas` and `RdWait` are the three accesses of
`wfe_mutex_rwlock_rdlock`, and the checks at the head of a function are its
`...Enter`. `expected` is the C local. `reads` and `writers` are history: what the calls
told their callers, a hold lasting from its CAS to the access that gives it back.

In `MonitorWait` the word is the set of its bits, and `want` is the set of words a call
waits for, so that all five functions are one. Loads, clock reads, arming and
the waiting instruction are separate actions in each backend's order;
`WakeMonitor`, `WakeTimer`, `WakeSpurious`, `Store` and `Tick` are the processor
and the other threads. A count of zero cycles is no timer for mwaitx, and the code hands it one on the first turn of a
timeout of zero cycles (implementations_mwaitx.cpp:95-119): `WakeTimer` does not end that sleep. Deadlines are countdowns. `seen` and `owed` are
history: the words memory held during the call, and the timeout still owed.

In `MutexOrder` and `RwLockOrder` the order of accesses is kept as knowledge: `known[t]` are
the accesses to the guarded data that happen before whatever `t` does next, `carried` those that an
acquire of the word as it is would learn. An acquire adds `carried` to `known[t]`, a release store
sets `carried` to `known[t]`, and an access makes what everybody else knew of its thread's latest one old.
A read-modify-write with acquire order alone leaves `carried` as it is (C11: it continues the
release sequence). The accesses to the word itself interleave, as they do for one atomic
object. Loads of the debug checks are not counted on, since a release build has none.

In `Features` the functions of `wfe_mutex_init` are stages (`Detect`, `DetectWfxt`, `Frequency` or
the calibration, `Measured`, `InitReturns`), and what a stage stores is in `pending` until `Store` makes
it visible, field by field in any order: the compiler and the processor may reorder plain stores.
The stages themselves come one after the other, which the code's cpuid, clock and register reads
between them give in practice, although nothing in C promises it to another thread. A wait
function is the name of its backend; `i32` stands for the widths below 64 bits,
which only 32-bit ARM treats differently, and `value` for all waits without a timeout.
`call[t]` is a wait: the pointer it loaded, the two loads of the scale at moments of
their own, and the deadline, of which `lasts` is the number of cycles until the counter is past it.
`Processor` ranges over the architectures, the cpuid limits below, at and above the leaves that are read,
and what cpuid answers for a leaf beyond its limit (`junk`, one of `Junk`). `Calibrate` counts a round in ticks of the clock;
`Counts` turns them into what two reads of a counter of the true rate differ by, whole cycles with either
phase, and that number times 1000 is the frequency. It is the true one in whole kilohertz (`KnownRate`), or more. The clock's ticks cut real time
down to whole nanoseconds, but the reads of the counter enclose those of the clock, so at least the millisecond passes between them but for
the last tick, and calling the clock takes longer than a tick.

Definitions marked "Mutant" are slips a programmer could make. No specification
uses them; each shows that a property notices the slip.

**Debug and release.** A release build has no sanity checks. They only load the
word and stop on an error, and the models show that they never do, so dropping
them removes steps that change nothing.

## Runs

| run | shows | instance |
|---|---|---|
| `RwSafety` | `Exclusion`, `WordCountsHolds`, `NeverTraps`, `NoSpuriousTryFail`, refinement of `SharedMutex`; `LockFree`: some call always returns; `CallsReturn`: every call returns, and the word ends at 0, once the threads stop calling | 3 threads that lock for ever, all operations, `TopBit` 4, one read hold each: two readers and a writer compete, a reader can be at every access while two others come and go |
| `RwUse` | `WritesAreSeen`: a holder knows every earlier write; `TimedwrlockWaitsItOut`, `TimedwrlockGivesUp` | 2 threads, all operations, 2 read holds each (recursive reads), timeout 1 |
| `RwReadUnlock` | violation: a writer that does not know the accesses of the reader before it | the same |
| `RwOverflow` | violation: readers set the writer's bit | 2 threads with 2 holds, `TopBit` 4 |
| `MutexSafety` | `Exclusion`, `NoDataRace`, `TimedlockWaitsItOut`, refinement of `SharedMutex`; `TimedlockGivesUp`: a timedlock leaves a lock nobody gives back; `LockGranted`: where unlocks come, the lock is handed on while threads are in lock | 2 threads, timeout 2 |
| `MutexTimedRetry` | violation: a timedlock may neither acquire nor time out | 2 threads, timeout 1 |
| `MonitorWait` | `NoLostWakeup`, `TrueIsSeen`, `FalseIsSeen`, `NoEarlyTimeout`; without promised spurious wake-ups, `AnswerEndsWait`: a wait whose answer stays ends; `TimerEndsWait`: a timed wait ends by its timer, where it has one; `EventsEndWait`: where events come, every timed wait and oneshot ends | all backends and functions, 2 bits, timeouts 0 and 2, a timer of 1 |
| `MutexMonitor` | refinement of `MutexLock`, `SleepersHaveHolder`: who sleeps on an armed monitor has an unlock to come; `LockGranted` without spurious wake-ups | 3 threads, all backends |
| `RwMonitor` | refinement of `RwLock`, `SleepersHaveHolder`; `LockFreeOnWaits`: `LockFree` without spurious wake-ups | 3 threads, a reader and two writers, `TopBit` 4, the backends spin, wfe and mwaitx |
| `Features` | `RunsHere`, `NeverSpinsAgain`, `TypesNameFunctions`: what a wait finds in the table; `NeverTooFew`, `NeverShort`, `NeverTwiceAsLong`: the scale from calibration to deadline | one waiting thread beside init, every processor, a second of 4, a millisecond of 2, two rounds, scale 16, a word of 128, one timeout of 7, rates 3 and 5: below and above one cycle a nanosecond (at one on other architectures), with every rounding inexact, also that of the measurement; deadlines far below the end of the word and at it |
| `TimeoutWraps` | violation: a timeout that is cut short | the same, with a timeout of 9 too, whose product with the scale does not fit |
| `CalibrationHang` | violation: the loop may never end | 8 ticks a second, 2 a millisecond, 1 round |

**Bounds.** `MaxReads` bounds the read holds of a thread, `TopBit` and `Word` scale the words down,
`Timeout`, `Timeouts`, `Budgets`, `Backoff` and `Clamp` scale time,
`Longest` caps a cycle count that would otherwise grow for ever; in `Features` it also says that of
the five rounds of a calibration one is not interrupted for so long that the measured frequency makes the
divisor zero. `Junk` has only the answer that claims a feature: the other one is the answer of a processor that has the leaf and not the
feature. `Begins` are the counter values at which timed waits begin: from 118 the exact deadline still fits in the word of
128, and one that was made with a measured frequency that is too high does not. Three threads
are one that holds, one that waits and one that gets in between; every hazard of the locks
takes no more. Two are enough for the memory order, where a third only passes on what it was told,
and the theorems `RaceFree` and `WritesSeen` are for any number. One waiter is enough in `MonitorWait`
and `Features`, since a waiter writes nothing that another one reads.
The three threads of `RwMonitor` are clients of one kind each (`Readers`, `Writers`): while one writer holds the lock, a reader
sleeps until the top bit is clear and a writer until the word is zero, on one line, and each is woken by what the others do. Two readers at once
and clients of both kinds are left to `RwSafety`, on ideal waits, and to the theorems. For a wait without a timeout wfet is wfe and
waitpkg is mwaitx, step for step, so three backends stand for the five. Its theorems are for any number
of threads and all backends.
The theorems do not depend on any of the values.

**Clients.** They give back only what they hold and make no blocking call that
their own holds block. Read locks are taken recursively. USAGE.md:109-114 lists
misuses that the library does not detect; they are not modelled.

## Fairness

- A thread inside a call keeps running (weak fairness of its steps): the calls do
  not block in the kernel. No strong fairness for a CAS: nothing in the code makes one win.
- In `RwLock` and `RwMonitor` a holder gives its hold back (`CallRelease`, weakly fair). `MutexSafety` and `RwUse` do not
  assume it: a holder may keep the lock for ever, which is what a timeout is for. `MutexTimedRetry` does,
  strongly because a holder may make other calls first.
- Time passes. A triggered monitor and an expired timer end the waiting instruction.
- Spurious wake-ups are never assumed. `EventsEndWait` alone has them as its antecedent (`Events`): an
  instruction without a timer (wfe in a timed wait, mwaitx with a timeout of zero, any oneshot) depends on interrupts and, on ARM,
  on the event stream the kernel programs. So a wfe_mutex_lock_timedlock with a timeout of zero may sleep on AMD until the next interrupt,
  although detect.c:203 says that "Monitorx always supports waiting with a maximum wait time". `TimerEndsWait` is violated
  without the exception that its `HasTimer` makes for this.
- `CallsReturn` has the end of contention as its antecedent: while others keep locking, a writer
  may wait for ever (USAGE.md:73), and a reader may lose every CAS to other readers. rdlock is lock-free, not
  wait-free; that somebody gets through is `LockFree`. `LockGranted` has as its antecedent that the lock
  is free again and again.
- In `Calibrate` leaving the loop is strongly fair: the loop sees every clock value
  that keeps coming back, so its hang is not one of scheduling.

## What the violations show

- `RwOverflow`. wfe_mutex.h:278-279 says the top bit is the writer. `expected + 1`
  (wfe_mutex.h:484) carries into it when the count is full. With the real
  width that takes 2^31 read holds. Exclusion still holds then.
- `MutexTimedRetry`. USAGE.md:63 says timedlock spins "until acquired or timeout".
  Each turn of its loop (wfe_mutex.h:452-457) waits with the whole timeout again; a caller that
  sees the lock free and loses it every time does neither. timedwrlock has the same loop.
- `CalibrationHang`. detect.c:329 says "Spin-loop until one millisecond has
  elapsed." The loop compares `tv_nsec` alone (detect.c:332). In a round that starts in the last
  millisecond of a second the bound is a value `tv_nsec` never has, and `wfe_mutex_init` does not
  return. The loop runs on x86 processors whose cpuid leaf 0x15 does not give the frequency.
- `RwReadUnlock`. USAGE.md:57 says the locks "only synchronize memory on unlock". read_unlock decrements
  with acquire order (wfe_mutex.h:569), which orders nothing that comes before it. A writer that
  locks next is not ordered after the reader's accesses: formally a data race, and on a weakly ordered processor the
  reader may see the writer's data. Writes are not affected (`WritesAreSeen`): they are published by the release store of unlock.
- `TimeoutWraps`. USAGE.md:63 again. The product in detect.h:12 and the sum `begin_cycles + total_cycles` (such as
  implementations_waitpkg.cpp:96) wrap. On x86 the multiplier is 10000, so timeouts from 2^64 / 10000
  nanoseconds, about 21 days, are cut short; a caller that passes `UINT64_MAX` for "no timeout" meets it.
  Each of the two is enough: of the run's values the timeout 9 alone violates it by the product at the counter 5, and the timeout 7 by the sum
  at the counter 118. On ARM, where the multiplier is 1, it is the sum that wraps for `UINT64_MAX` if the counter runs at 1 GHz.
  `NeverShort` shows that nothing is lost where both fit and the frequency is told. A measured frequency is known to the whole
  kilohertz below, so a timeout may be short by that fraction, 0.4 ppm at most at the 2.7 GHz of detect.c:343, and by no whole cycle more.

## Proofs

All theorems follow from one inductive invariant per module (`IInv`, `FInv` for `Features`) and are
proved from the module's named assumptions on its constants.

- `RwLockProofs`: `IInv` is the types, the account of the word (`WordCountsHolds` and
  `Exclusion`) and, per thread, what its position promises: at a CAS `expected` has no top bit,
  at an unlock the thread has a hold to give back, in a read lock it has room for one. The account needs the
  promise: without it an unlock could give back somebody else's hold. The
  steps fall into five kinds (quiet, granting a read, granting a write, giving back each), with one
  lemma each. `MutualExclusion`, `WordIsAccount` and `Implements` hold even where the count
  overflows. `NoTrap` assumes that the holds fit below the top bit (`Cardinality(Holds) < TopBit`): a debug build does
  trap after an overflow.
- `MutexLockProofs`: `IInv` is the types, `Exclusion` and, per thread, that an unlock is the
  owner's and that a running timed wait has at least as much time left as its
  caller is still owed. The last part is what carries `NoEarlyTimeout` through the retries.
- `MonitorWaitProofs`: `IInv` is the types, `NoLostWakeup` and, per waiter, that the word last loaded was
  in memory during the call (`Loaded`), that a step behind a failed comparison has seen a
  word that is not awaited (`Missed`), that the deadline is not earlier than what is owed
  (`InTime`), and what a call returned.
- `RwLockOrderProofs`: every step of `RwLockTimed` and `RwLockOrder` is a step of `RwLock`, so its `IInv` holds. `WaitsItOut`
  adds that a running timed wait ends no earlier than what its caller is owed (`DeadlineLate`), also after a
  retry. `WritesSeen` adds that the word carries every write whenever no writer is in (`Seen`): a writer knows all when it
  gets in, hands all on when it unlocks, and nobody else writes or takes away from the release sequence.
- `MutexOrderProofs`: the knowledge of all accesses is with the holder or, while there is none, in the word (`Travels`).
- `RwMonitorProofs`: `WaitInv` says which word each waiting thread waits for, and that it waits only at `rd_wait` and `wr_wait`. `MonitorWait`
  has words as sets of bits, `RwLock` as numbers; `Word` is one-to-one (`WordOneToOne`), so the word that `rdlock` gets back is
  the number in memory at that load. The end of a wait is then `RdWait` or `WrWait`, every other step of it is invisible
  (`WImplements`), and all of `RwLockProofs` holds there, `WMutualExclusion` for one.
- `MutexMonitorProofs`: a thread that waits is in `lk_wait` and waits for the word 0 (`WaitInv`); so the end of its wait is
  `LkWait`, every other step of the wait leaves the lock's variables alone, and the accesses of the lock are
  those of `MutexLock` (`Implements`).
- `FeaturesProofs` begins with the calibration on its own: `IInv` relates the count to the way the clock has gone since the
  round started, wrapped or not. `LateStartHangs` is the hang of the `CalibrationHang` run for every length of a second and of a
  millisecond: a loop that begins too late (`Hung`) has no step but the clock's.
  For all of `wfe_mutex_init`, `FInv` is `Calibrate`'s `IInv`, and, per stage, which fields are pending and with what; per field, that
  it holds what detection chose or has not been stored yet; that the multiplier is the same in every init
  and every divisor that may ever be stored is good (`GoodDivisor`: not zero, divisor times `KnownRate` at most the dividend, and more than half of
  it where the frequency is told), which makes mixtures of two inits harmless; and that a call's copies are of that
  kind. `FeaturesAssumption` is what the code relies on: the divisor of a frequency is not zero (a counter is not above
  10000 GHz, nor is what a round may measure). A measured counter has at least a cycle in a millisecond (`Exists`); that it needs no whole number of
  cycles a nanosecond is `MeasuredRate`: whole cycles of a millisecond, times 1000, are the true rate to the kilohertz.
- Both compositions are also used the other way round: `WP` instantiates `MonitorWaitProofs` with the lock's word, threads and
  calls, and `WaitsImplement` shows that the composition is a run of `MonitorWait`; so its `WakeupNotLost` is theirs. Together
  with what the lock's invariant says of the word this gives `SleepersHaveHolder` (`RealSleepersHaveHolder`, `WSleepersHaveHolder`):
  neither half has it alone. `LP` does the same with `MutexLockProofs` for `RealMutualExclusion`.
  The lemmas `SameWaits` and `SameLock` say that two instances of one module with the same substitution are the same.
- Theorems with a hypothesis. `NoTrap`, `TopBitTellsWriter` and `WSleepersHaveHolder` assume `Cardinality(Holds) < TopBit`, fewer than
  2^31 read holds at the real width: after an overflow the top bit is set with no writer in, and a
  reader may sleep on it. `ModestTimeoutsHonoured` assumes `Modest`, that every timeout times the scale, added to the counter, fits in
  the word. `TopBitMeansWriter` and `TimeoutHonoured` are violated without these (`RwOverflow`, `TimeoutWraps`): the
  theorems say where the documented promise does hold.

Only model-checked: liveness under fairness (`LockFree`, `CallsReturn`, `LockGranted`, `TimedlockGivesUp`,
`TimedwrlockGivesUp`, `LockFreeOnWaits`, `AnswerEndsWait`, `TimerEndsWait`, `EventsEndWait`), which is out of the prover's reach.
The refinements of `MutexMonitor` and `RwMonitor` are the safety part.
The calls of wfe_mutex_rwlock in the theorems of `RwMonitorProofs` are all but timedwrlock.

## Not modelled

- Misuse: unlocking in another way than locking, a double write lock. USAGE.md:109-114 excludes it; nothing is promised.
- timedlock and timedwrlock on the real waits. On ARM a timed wait loads the word, looks at the clock and compares only then, so whether its load was
  the one that ends the wait is known later than the load: a refinement of `TlWait` would need a prophecy variable.
  `FalseIsSeen`, `TrueIsSeen` and `NoEarlyTimeout` are what the locks need of it.
- `low_power`, which changes power states and the number of yields but no result.
- The monitor granule size and the `supports_` flags of the table: stored, never read by the library.
- `clock_gettime` failing during calibration: clock and address are valid there.
- The floating-point frequency from cpuid leaf 0x15: the processor's true rate.
- A frequency of zero, from a firmware that left CNTFRQ_EL0 unset: the division by it is undefined.
- The C++ wrappers, whose methods are one call each; the microbenchmarks and unit tests, which are clients that
  measure and print.

## Plan

1. Done: the locks, the waits, the calibration, with the invariants proved.
2. Done: the plain lock on its real waits, the memory order of both locks, the clock of timedwrlock, `wfe_mutex_init` and the
   conversion of timeouts, with their refinements and invariants proved.
3. Done: the readers-writer lock on the real waits, and what is proved of locks and waits carried over to both compositions.
4. Misuse: which debug check notices which of the mistakes of USAGE.md:109-114, and when.
5. A release build, without the checks, shown to implement the same abstract locks.
