# YRmx in TLA+

YRmx is a small real-time kernel in the style of Intel's iRMX, rebuilt over
pthreads: tasks are threads, and they meet at *exchanges*, where messages are
sent (`rqsend`) and waited for (`rqwait`), possibly with a time limit. This
directory holds TLA+ models of it, the TLC configurations that check them on
small instances, and proofs, checked by TLAPS, of what holds for any number of
tasks, exchanges and messages.

There are two kernels. The one that the Makefile builds into the library is
`ycore.c` with `ycore.h`, modelled without its optional parts
(`WITH_READY_LIST`, `EARLY_RUN`, `BY_STEP`, `DEL_FROM_LIST` are not defined);
there tasks are threads on as many processors as there are. The other,
`yalrt.c` with `yalrt.h`, is the older kernel module that has the same calls on
one processor and schedules its tasks itself, with Linux as its idle task. The
test program `ytest.c` is a client of either. Everything is translated from
these files. References such as `1095` are line numbers of `ycore.c`; those into
the other files name the file.

## 1. The system

| Part | State | Operations | Interacts with |
|---|---|---|---|
| Exchanges | per exchange: message queue, task queue, mutex; per message: `link` (queue link, owner, or itself); per task: `message`, `sema` | `rqcmsg`, `rqsend`, `rqisnd`, `rqacpt`, `rqwait` | the freeze, the delay list, the task's status |
| Delay list | doubly linked list of tasks, each delay relative to the task before; `delay_list_mutex`; the message of `rq_delay_exchange` | timed `rqwait`, `cancel_delay`, threads `rqtimer`, `rqdelaytask` | the exchanges' task queues |
| Freeze | `rqfrozen`, `fmutex`, condition `unfreeze` | `rqfreeze`, `rqbake`, the end of `exit_region` | every call that ends in `exit_region` |
| Suspension | `suspended` and `needpost` in a task's status, its semaphore | `rqsusp`, `rqresm`, the start of `exit_region` | the status that `rqwait` and `rqsend` overwrite, and the same semaphore |
| Tasks | the task list, the start barrier | `rqctsk`, `rqdtsk`, `rqstart`, `reqrun`, `active_task` | all calls find their caller in the list |
| Exchange registry | list of exchanges, `mutex1` | `rqcxch`, `rqdxch` | |
| Displays | nothing of their own | `display_task_list`, `display_exchange_list`, by key in `ytest.c` | walk both lists with no lock while they change |
| Time | nothing | `tsAdd`, `tsSubtract`, `tsCompare`, `Ts2Ms`, `Ms2Ts`, `linux_priority` | `rqtimer` |
| `yalrt.c` | ready and suspend lists, task list, queues and delay list as above, `critical_region_flag`, `isnd_queue`, `rqfrozen` with the saved ready list | the same calls; `reqisnd`, `reqssnd` and `yalrt_timer_handler` from interrupts; `reqelvl`, `reqdlvl`, `reqsetv`; `exit_region`, which hands out interrupts and switches tasks | interrupts, Linux |
| `ytest.c` | one message, `cycles`, `s_cycles`, `max_cycles` | the tasks frank, sinatra and watchdog, and `main`, which reads keys | all of the above as a client |

What is hard in it:

* The calls run in parallel threads, and several are cut in the middle:
  `rqsend` posts a semaphore after it has unlocked the exchange, `rqwait` locks
  again after it has been woken, `rqisnd` tests before it locks.
* Each exchange has a mutex and the delay list has another. A message and a
  time-out for one task race across the two.
* A freeze can fall between any two steps, and a system error freezes from
  within a critical section.
* The delay list keeps differences in unsigned shorts, with 0 and 0xFFFF set
  apart, and is counted down by one thread and collected by another.
* Status bits of a task are written by several threads, without a lock.
* The list of tasks has no lock, the list of exchanges has one that only one of
  its two writers takes, and a task runs before it is listed.
* In `yalrt.c` an interrupt comes between any two regions, and at points inside
  of them; what it brings is handed out by whoever leaves the region.

What makes each part correct:

* Exchanges: messages are neither lost, doubled nor reordered; a message
  belongs to one task at a time and only its owner gives it away; wake-ups are
  neither lost nor doubled; a task does not sleep beside a message.
* Delay list: each task's time is its own; no time-out comes early; with
  prompt system threads none comes late; each comes in the end.
* Freeze: after `rqbake` all run again. Suspension: `rqresm` ends what `rqsusp`
  began, and neither disturbs a wait. Tasks: those of the table start together
  and all run, and a call finds its caller. Registry: the list holds what was
  created and not deleted. Time: sums and differences are exact, the clock does
  not go back, a more urgent task does not get a lower priority.
* `yalrt.c`: the most urgent task that can run has the processor, an equal does
  not take it; every task is in the one list its status tells; no dead task is
  woken; interrupt messages are queued once, and a missed one is remembered.
* `ytest.c`: no message is sent by one who does not own it, nobody divides by
  zero, the program ends when it is told to.

The hazards, one by one and with their lines, are in `PROJECT.json`.

## 2. The modules

| Module | What it is |
|---|---|
| `Exchange` | the calls on exchanges, cut where the code synchronises |
| `Mailbox` | what they promise: every call takes effect at once |
| `ExchangeProofs` | the inductive invariant and the safety theorems of `Exchange`, and that it implements `Mailbox` |
| `Deltas` | a list of delays, each relative to the one before: what `DelayList` and `Nucleus` insert into and remove from |
| `DeltasProofs` | what insertion, removal and a tick do to the delays that such a list tells |
| `DelayList` | the timed waits with the timer and the delay task |
| `Timeouts` | what the delay list promises: a count of its own for each task |
| `DelayListProofs` | no wait ends early, those that saw every tick dealt with end in time, and `DelayList` implements `Timeouts` |
| `FreezeGate` | the freeze with its mutex and its condition variable |
| `FreezeGateProofs` | its inductive invariant and safety theorems |
| `Suspend` | the status byte of a task, and the calls that change it |
| `SuspendProofs` | what holds of it for any program: what is lost, who is woken, who can be resumed |
| `TaskTable` | how tasks and exchanges come into being and go: the barrier, the two lists, their displays |
| `TaskTableProofs` | the tasks of the table start together; under `Serial`, the list of exchanges stays sound, and if descriptors are not used again, tasks that run are found, the task list stays sound and displays show everything |
| `Time` | the arithmetic of time and priorities |
| `Nucleus` | the single-processor kernel `yalrt.c`; implements `Timeouts` too |
| `NucleusProofs` | who has the processor and which list each task and each message is in, and that implementation |
| `Session` | the test program over `Mailbox` |
| `SessionProofs` | that its players keep to the rules, and that the arithmetic of `Time` is exact |
| `MCExchange`, `MCDelayList`, `MCFreezeGate`, `MCSuspend`, `MCTaskTable`, `MCNucleus`, `MCSession` | instances for TLC |

### Exchange

The state is the code's: `msgq` and `taskq` are the two lists of an
`EXCHANGE_DESCRIPTOR` as sequences, `link`, `message`, `sema` and `rqfrozen` the
fields and the flag of that name, `mutex` the holder of an exchange's mutex
between two steps, and `exch`, `msg` and `peer` the arguments and the local
`task` of the call that a thread is making. `pc` says where it stands.

A critical section that unlocks what it locked is one step, because all that
it reads and writes belongs to the exchange, to a task that is asleep in its
queue, or to the caller. So `reqsend` is: the call (`CallSend`); then its
section, which rejects the message (`SendReject`), queues it (`SendQueue`) or
hands it to the first task (`SendHand`); then, after the unlock, the post
(`SendPost`). `reqwait` is: the call; its section, with a message (`WaitTake`)
or without (`WaitBlock`); the return of `sem_wait` (`Awake`); the second lock
(`Relock`); the test for NULL (`Check`); `exit_region` (`Gate`). The error
branches of `reqsend` return without an unlock, and so the mutex stays taken.

What is abstracted:

* `link` is not a pointer chain. For a queued message it is `Chained`, whether
  it holds the next message or the null of the last one: all that the code
  tests is whether it is the caller or the message itself. `Self` is the latter,
  the state of an interrupt message outside of a queue.
* An interrupt message is a part of its exchange and carries its name. Its
  type, `int_type` or `missed_int_type`, is left out, and so is a missed
  interrupt, which changes nothing else. One task runs the handler of each
  interrupt exchange.
* `rqcmsg` is called once for each message. Waits have no delay, and no task is
  suspended; those belong to other modules.
* `reqwait` keeps the tail of the queue in a static variable that nobody else
  names; it is a local of the section here.
* A freeze is the flag: a task passes its test when the flag is down. The root
  task freezes and bakes and makes no other call.
* Tasks in `Careless` send messages that they do not own.

### Mailbox

Four variables: the mail in each box, the tasks in line, the message that a
call will return, the owner of each letter. `Send` and `Ring` leave a message or
hand it to the first in line, `Take` and `Join` are the two halves of a receive,
`Return` ends a call. There are no threads, locks, semaphores or freezes. The
mapping reads the inbox of a task as `message` while it is `Receiving`, that is
from the moment it was handed a message until its call returns.

### DelayList

`dlist` is the list without its two sentinels and `delay` each task's field; the
operations on the two are in `Deltas`, as `Nucleus` has the same list. A task's
`state` says whether it is in its exchange's queue and the delay list
(`delayed`), taken from the first but not from the second (`taken`), or out of
both. Every operation on the list holds `delay_list_mutex` and is one step,
except `rqdelaytask`, which keeps the mutex through a loop of `DelayExpire`
steps that ends in `DelayUnlock`. `rqtimer` is `Tick` and, after the unlock,
`Isnd`. `rqsend` to a waiting task is `SendTake`, which holds the exchange, and
`SendCancel`, which needs the list.

`Never` stands for 0xFFFF: it is the largest value of the field, the delay of
the tail sentinel, and the modulus of the addition in `cancel_delay_unsafe` is
`Never + 1`. `fault` is set when `rqdelaytask` runs off the end of an exchange's
queue: the process is dead, and nothing moves after that. (This is why these
runs do not check for deadlock.) `want` and `age` are history variables, used by
no guard. The freeze is left out, and the queue of an exchange is only in or
out of it: unlinking pointer by pointer is another module's matter.

`late`, the third history variable, holds the tasks in whose wait a tick came
before the two system threads had done with the one before. Nothing is assumed
of the speed of these threads; their priorities, 98 and 97 above every user task
(225-230), aim at keeping `late` empty, and `OnTime` speaks of the waits that
are not in it.

### Timeouts

One count for each task, and a tick that takes one off all of them, unless one
is at zero. That exception is the code's: when rqtimer finds an expired task
that was not collected yet (1292), it counts nothing.

### FreezeGate

`Exchange` has the freeze as a flag and one step, `Gate`. `FreezeGate` has each
access to `rqfrozen` and each call on `fmutex` and `unfreeze`. A task that ends
a call tests the flag (`Test`), locks, and loops; one that freezes the system
tests, sets the flag (`Freeze`) and goes into the same loop, except the root
task. `pthread_cond_wait` gives up the mutex and begins to wait in one step
(`Sleep`), waits for the condition, possibly ends unasked (`WakeUnasked`), and
takes the mutex again (`Relock`). `reqbake` tests, clears and broadcasts, three
steps, with no mutex. `barred`, a history variable, holds the threads that met
or made the freeze there is. The model stops where all threads are frozen and
nobody is left to bake, so its run does not check for deadlock.

### Suspend

`status` is the set of bits of a task's status byte. `task->status |= bit` and
`&= ~bit` are a load and a store, since nothing makes them one, and a plain
assignment is one step. `reqsusp` of oneself sets `suspended`, sets `needpost`,
waits for the task's semaphore and clears both; of another task, it only sets
`suspended`. `reqresm` tests and clears `suspended`, tests and clears
`needpost`, and posts. `reqwait` overwrites the status when it queues the task,
when it is back, and in `exit_region`. `reqsend` clears `waiting` and, if any
bit is left, calls `cancel_delay`. The semaphore is the one that `reqwait` and
`reqsend` use too, so a wake-up meant for the one can end the other.

The exchange is what the module `Exchange` shows it to be, a set of waiting
tasks from which one sender takes each; its mutex, which `reqsend` holds until
the post, keeps nobody else from a status, so it is left out. Delays do not
expire. `corrupt` is set when a task that is not in the delay list is unlinked
from it through old pointers, and the model stops there. `SemMax` is the value
at which `sem_post` fails. `Suspend` stops where all tasks sleep, or where
memory is corrupt, so its runs do not check for deadlock.

Any of the `Suspenders` may suspend and any of the `Resumers` resume any of the
`Sleepers` at any moment, as often as it likes. What this spoils is real, and is
told by history variables instead of being excluded:

* `current` holds the threads whose last reading of their target's status (the
  load of a change, or a test in `reqresm`) is still true. `stale` holds the
  tasks whose status was changed after a reading that was not. `WakesDeserved`
  says that a wake-up meets a sleeper who is owed one, until then.
* `early` holds the tasks that were resumed between 910 and 915, before they had
  asked for a post. `Resumable` says that nobody else sleeps for good.
* `marked` holds the tasks that another suspended since they began to wait, the
  case that `status && delayed` (1088) gets wrong, and `OnlyListedCancelled` says
  that it is the only one.
* `meddled` holds the tasks that another suspended, that two resumed at once, or
  that were resumed too early; `NothingLost` says that of all others no bit is
  lost: a task's own `reqwait` and `reqsusp`, a sender and one resumer never
  change its status at once.
* `asked` serves `SuspendedStops`, which is false.

### TaskTable

Each thread has a place (`pc`: before the barrier, at it, behind it, in its
body) and, while it is in a call that changes a list, a step of that call (`op`)
with the call's argument. `link`, `tail` and `extail` are the links and the two
tail pointers; each access is a step, since the task list has no lock and
`reqdxch` takes none. `active_task` is what the code does: find the caller by
its thread from the head of the list. The root thread creates the tasks of
`Table` while those already created come to the barrier, and afterwards the
`Creators` create and delete tasks and exchanges. A cancelled thread ends where
it sleeps, waits or prints, which is also between `pthread_create` and the
listing. Entries of the table that are NULL are passed over (`Skip`) and not
counted by the barrier (`Count`); a thread that has found `rqstarting` set comes
to the barrier in a step of its own (`Arrive`).

`reqcxch` is three accesses under `mutex1` (`ExLink`, `ExTail`, `ExEnd`, the last
with the unlock). `reqdxch` is its test, which may go either way because what is
in an exchange's queues belongs to `Exchange` (`DxTest`), the walk, two steps a
link (`DxWalk`, `DxStep`), the read of the link again (`DxCurr`) and of the one
behind it (`DxNext`), the unlinking (`DxLink`), and the test and the change of
the tail (`DxTail`, `DxSet`). The model stops where `reqdxch` would read through
a null pointer.

`Serial` says which calls do not overlap, because the code has no lock between
them: those of `reqctsk` each other, and those of `reqdxch` each other or
`reqcxch`. Creations of exchanges by several tasks, which `ytest.c` makes
(168, 363), overlap all the same, and so do a creation of a task and one of an
exchange, or a removal. `Recreate` says that descriptors of deleted tasks are
used again.

A display (`display_task_list`, `display_exchange_list`) is a walk with no lock,
one link a step, while the others go on: `at` is its place, `seen` what it has
shown and `due` what it found in the list and is there still. An exchange that is
removed keeps its link, so that a display that is just at it comes back into the
list, and `WalkWhole` holds. It says nothing of a display that is at an exchange
while that is removed and created again: the exchange goes to the end with its
link cleared, and the display stops there.

### Time

Timespecs as records, arithmetic in C's order, division that drops the
fraction also below zero, milliseconds in an unsigned int. The numbers of
nanoseconds in a millisecond and so on are constants, which lets TLC check the
theorems on seconds of six nanoseconds before they are proved for all.

### Nucleus

One processor: `rqactv` is the active task as the kernel sees it and `cpu` the
task whose context the processor is in; `context` tells whose context each task's
saved stack pointer leads to. A call does its work in the critical region in one
step and leaves the region by `exit_region`, which is cut where interrupts make a
difference: `DrainLoad` and `DrainStore` for `--queue_index`, `Drain` for the
entry read and handed out with the pipeline stalled, `Drained` for the end of the
loop, and `Leave` for the switch. An interrupt between `DrainStore` and `Drain`
takes the place of the entry being taken out; `slot` keeps what is in it
otherwise. An interrupt (`reqisnd`, `reqssnd`, the timer) outside of a region
enters it in the context of the interrupted task, which gets the bit `maskint`;
inside, it only adds to `isnd_queue`. The branch of `exit_region` for a flag above
100 (yalrt.c:869) is not there: handlers keep the interrupts off until the
outermost `exit_region`, and calls nest regions only a few deep.

`assigned` are the irqs given to the kernel by `rqelvl`, `virtual` those whose
interrupts come to its handlers; `rqsetv` takes an irq from the first only. `Own`
are those with a handler of the user's that calls `rqisnd` without asking
`assigned`, as the default handler `reqsxx` does. `DelayEx` stands for the timer's
irq as well, so that `assigned` and `virtual` tell whether ticks come. Handlers
that call `rqsend` are not modelled. A tick in the middle of a walk along the
delay list, in `rqwait` or `cancel_delay`, is a tick before or after it.

`after` is what a task does when it runs again: test the message that it waited
for, freeze, collect expired delays. Lists with a tail pointer keep it as a field,
and `stray` says that something was appended through a tail that pointed outside
of the list, or unlinked from the delay list while not in it; the model stops
there, as it does where `rqbake` makes a context active that the processor is not
in, because what the program does then is not defined by its code. While the
system is frozen, the only call considered is Linux's `rqbake`.

In the passing run tasks suspend only themselves (`Suspenders` is empty), Linux
alone bakes, only Linux and the error branches of the calls freeze, and a
descriptor is given to `rqctsk` only when its task does not exist. After a freeze
by an error branch and a bake `rqactv` and `cpu` are not the same task
(`MCNucleus_bake.cfg`): `HighestRuns` and `NoEqualSwitch` say something only where
they are. `OwnContext`, that they always are, holds where tasks send only what is
theirs; `MCNucleus_agree.cfg` checks it and `ProcessorAgrees` proves it.

### Session

`ytest.c` compiled with `USE_FIFO`. The three tasks step from call to call over
`Mailbox`, whose operations take effect at once, which is what `Exchange`
implements. `FrankRound` and `SinatraGets` are the work between two calls.
`rqdtsk` of the watchdog is a step for each time that it looks: the test of the
status (`FrankTests`, 813), of the exchange's head (`FrankLooks`, 500), the walk
(`FrankWalks`), the unlink (`FrankDequeues`) and the end of the delay
(`FrankCancels`, 816), because `rqdelaytask` (`Expire`) may come between any two.
What either does to a list from which the other has just taken the watchdog, a
walk off its end, ends the program (`main` is `crashed`). `main` reads a
key at a time; on `q` it reads `cycles`, stores it as `max_cycles`, and joins the
threads in turn. A freeze stops the tasks at their next step.

## 3. The runs

| Run | Instance | Shows |
|---|---|---|
| `exchange_careful` | 3 tasks, 2 messages, a user and an interrupt exchange, nobody careless, fair | `TypeOK`, `NoSystemError`, `ImplementsMailbox`, `Served` |
| `exchange_careless` | 3 tasks, 1 message, the same exchanges, one careless task | `OneQueue`, `OneHome`, `NoLostWakeup`, `ReceiverOwns`, `OwnerGives` |
| `exchange_bake` | 2 tasks, one careless, fair | violates `BakeRestores` |
| `delay_list` | 3 tasks, delays 2 and 3, `Never` = 3 | `TypeOK`, `NeverEarly`, `OnTime`, `Called`, `ImplementsTimeouts` |
| `delay_live` | 2 tasks, delays 1, 2 and 4, `Never` = 4, fair | `EveryDelayEnds` |
| `delay_fault` | 2 tasks | violates `NoFault` |
| `freeze_gate` | 3 tasks and the root task, two of which bake, fair | `TypeOK`, `OneMissed`, `StaysFrozen`, `OneOfTwoThaws` |
| `suspend` | 3 tasks, two of which suspend and resume, two of which sleep and wait, one of them both; not explored beyond the first change made on a stale reading | `TypeOK`, `NothingLost`, `WakesDeserved`, `OnlyListedCancelled`, `Resumable` |
| `nucleus` | 2 tasks of priorities 1 and 2, the delay task at 1, Linux at 3, 1 message, an irq's exchange and the delay exchange, `MaxIsnd` = 2, delays 0 and 2, `Never` = 3, one task that misuses messages, the default handler (`Own` empty) | `TypeOK`, `HighestRuns`, `OnePlace`, `WaitersReal`, `OneHome`, `MissedStays`, `NoEqualSwitch`, `ImplementsTimeouts` |
| `task_table` | a table of a system task, an empty entry and a creator, one more task that can be created and creates too, 2 exchanges, `Serial`, fair | `StartTogether`, `Unlisted`, `ListsSound`, `WalkWhole`, `EveryTaskRuns` |
| `table_conflict` | the same with two creators at once | violates `NoConflict` |
| `session` | a game of at most 3 rounds, fair; the theorems of `SessionProofs` about `Time` as assumptions over small times | `SendersOwn`, `SameRounds`, `QuitEnds` |

Why these bounds: two tasks can be in line while a third sends, two messages can
be in order or out of it, and an interrupt exchange takes user messages as well
as its own. In the delay list, three tasks give a wait that begins, ends or
expires before, between and after two others, and with `Never` = 3 a delay of
`Never` meets shorter ones. A broadcast that misses one of three tasks can miss
it beside one that it wakes and one that comes late, and two that bake can
overlap. A status has its task, a sender that took the task from its exchange,
and those that suspend or resume it as writers: with three tasks all of them
meet, and with two the search needs no constraint (`MCSuspend_all.cfg`, by
hand). The constraint of `suspend` cuts what follows a change on a stale
reading; of such a task only `TypeOK` says anything. In `Nucleus` a user's task
is more urgent than another and equal to the delay task, so that switches,
non-switches and a wait behind an equal all happen, and two queued interrupts
are enough to hand out one while the other is queued or lost. Three rounds let
`q` come before the first, in the middle and at the last. Two bounds stand in
guards or constants of the models: `MaxIsnd`, the length of `isnd_queue` (256 in
the code), and `MaxCycles`, the rounds of a game. Nothing else that the passing
runs reach grows without a bound; the age of a wait is counted to one past its
delay, which is enough to tell early, exact and late apart.

TLC compares states through a VIEW in some runs: `Live` leaves out the
arguments of calls that have returned, and the two named `Read` what the code
writes before it reads it again: the delay of a task that is in no list and, in
the nucleus, what tasks and messages have left behind and whether an irq is
virtual whose handler passes every interrupt on. Tasks are interchangeable in
`DelayList`, and symmetric there in the run without fairness.

### What was found

* `exchange_bake`: a task sends a message that it does not own; `rqsend` reports
  it, freezes the system and returns with the exchange locked (1054). After
  `rqbake` every task that uses that exchange hangs. The manual says that the
  tasks "are made running again".
* `delay_fault`: the delay of a task expires while `rqsend` has taken it from
  its exchange (1081) but not yet from the delay list (1089). `rqdelaytask`
  holds the list, not the exchange, walks the exchange's queue for the task
  (1338) and reads through the null link at its end.
* `table_conflict`: `rqcxch` appends to the list of exchanges with `mutex1` held
  ("avoid conflicts"), `rqdxch` unlinks from it without (874-876). An exchange
  that is appended behind one that is being unlinked is then in no list, and
  the tail pointer stands outside of the list for all that follow.

More counterexamples have no run in `PROJECT.json`, but a configuration to run by
hand, each with one property that TLC finds violated. (Three more configurations
pass: `MCSuspend_all.cfg` and `MCNucleus_own.cfg` are the runs `suspend` with two
tasks and no constraint and `nucleus` with a user's handler, and
`MCNucleus_agree.cfg` checks `OwnContext`.)

* `MCFreezeGate_thaw.cfg`: `rqbake` does not hold `fmutex` when it clears the
  flag and broadcasts (993). A task that tested the flag (972, 1023) and is about
  to wait misses the broadcast. `OneMissed` and `OneOfTwoThaws` show the limit of
  the damage: the task between its test and its wait holds the mutex, so there is
  only one.
* `MCSuspend_lost.cfg` (`Resumed`): `rqsusp` sets `suspended` before `needpost`
  (910, 915). An `rqresm` in between clears the first, does not see the second
  and does not post; the task sleeps, and no `rqresm` will find it suspended.
* `MCSuspend_cancel.cfg`: `task->status && delayed` (1088) is a logical and. For a
  task that was suspended while it waited without a delay it calls
  `cancel_delay`, which writes through the task's old `next` and `prev`.
* `MCSuspend_twice.cfg` (`NoEffect`): two calls of `rqresm` for one task both see
  `needpost` and post (944-946), and the second post ends the task's next `rqwait`
  without a message, though "resuming a task which is not suspended ... has no
  effect whatsoever" (925).
* `MCSuspend_later.cfg`: `task->status & needpost == 0` (1015) is read by C as
  `task->status & (needpost == 0)`, which is 0. A task that was suspended while
  it waited is never stopped.
* `MCNucleus_bake.cfg`: when a task freezes the system, or Linux does so in the
  middle of a task, `rqbake` sets `rqactv` to the task that was active then, while
  Linux's context runs (yalrt.c:818-820). The next switch saves Linux's context
  as that task's.
* `MCNucleus_resume.cfg`: `enterlist` tests `status && suspended` (yalrt.c:393),
  so a resumed task with any other bit set goes back to the suspend list.
* `MCTaskTable_recreate.cfg`: `rqdtsk` leaves the task in the task list, and
  `rqctsk` of the same descriptor appends it once more and cuts the list behind
  it (748): tasks created in between are no longer found, though `rqdtsk.8` says
  that "The task is removed from the system".
* `MCSession_quit.cfg`: frank's `rqdtsk(&watchdogTd)` finds the watchdog waiting,
  its delay expires, and `reqdqtsk` finds no task at its exchange and freezes the
  system (502): after `q` the program hangs.

Read in the code, and found by variations of these models, without a
configuration of their own:

* A wait of 0xFFFF ticks is not counted while it is first in the list (1291),
  though the manual gives only zero the meaning "no limit"; `OnTime` and
  `EveryDelayEnds` except that delay, and without the exception TLC refutes both.
* A task that creates another after `rqstart` has returned, while `rqstarting`
  is still set, brings one thread too many to the barrier, which waits for ever.
  A creator that is cancelled between `pthread_create` and the append leaves a
  task that runs and is in no list (`Unlisted` excepts it). The last task of the
  table may run before it is listed, because it comes to the barrier last. Two
  calls of `reqctsk` that overlap leave the tail of the task list before its end
  (741-748), which TLC finds with `Serial` false and a second creator. `rqdxch`
  never removes the first exchange.
* In `yalrt.c`: the tail of the suspend list and of the task list is left stale
  when the last task is taken; `rqsend` has the logical and of 1088 too
  (yalrt.c:1002); `queue_index` is loaded, decremented and stored with interrupts
  on (880), so an interrupt in between is lost; an interrupt between
  `enter_region` and the barrier of `rqfreeze` (760-761) lets a task run in a frozen
  system; one that comes between the end of the loop and the clearing of the
  flag waits for the next tick; `rqelvl` with a message queued leaves it unlinked;
  `rqctsk` without memory for a stack returns in silence (493-497).
* `linux_priority`: priorities 3 to 129 get 97, the priority that the comment
  (224-231) reserves for the delay task.

`EveryDelayEnds` counts the fault of `delay_fault` as an end of the wait, so that
`delay_live` speaks of the countdown and of nothing else.

### Fairness

`Exchange` assumes weak fairness of each thread inside a call, and `DelayList`
of the clock, of the two system threads and of a sender's `cancel_delay`;
`FreezeGate` and `Suspend` of each thread inside a call, though no wait on the
condition has to end unasked; `TaskTable` of each thread inside a call or on its
way to its body, and of `rqstart` until its table is done; `Session` of the
tasks, of `main` after `q`, of delays and of cancellations, but of no key. This is
what the Linux scheduler gives to threads that can run, as long as real-time
threads leave it a processor. Weak fairness
is enough at a lock: in `Exchange` no step leaves a mutex taken, except where
the code never unlocks it, and in `FreezeGate` a thread that holds `fmutex` goes
to sleep or leaves. Nothing is assumed of what tasks do outside of calls, or of
anybody's calling `rqbake`.

## 4. The proofs

The theorems of `ExchangeProofs` are about any set of tasks, exchanges and
messages under `ExchangeAssumption`: user messages and exchanges are different
things, each interrupt exchange has one handler, and the null pointer and the
two marks of `link` differ from tasks and from each other. Tasks may be
infinitely many.

`ExchangeProofs` proves `Invariance`, `Spec => []IInv`. The properties are not
inductive by themselves, and `IInv` adds:

* `QueuedMessages`: what is in a queue is `Chained`, and an interrupt message is
  in no other exchange's. Needed for `OneHome`: a message about to be queued,
  linked to its sender or to itself, is then in no queue.
* `QueuedTasks`: a task in a queue is asleep, at that exchange, once, and not
  posted. Needed for `NoLostWakeup`: the task that `SendHand` takes leaves every
  queue at once and has no other post pending.
* `Posts`: a post under way is for a sleeping task with its semaphore at zero,
  and is the only one. This is why a semaphore never passes one.
* `Sleepers`: a sleeping task is queued, about to be posted, or posted.
* `Senders`: what a call of `rqsend` found when it began still holds at the
  lock. For a careful task the message is still its own; an interrupt message
  is still linked to itself, because only its handler sends it.

A lemma for each group of steps shows that `IInv` is kept, each invariant in a
step of its own; `Invariance` puts them together, and `TypeCorrect`,
`QueuesExclusive`, `MessagesConserved`, `WakeupsConserved`, `ReceptionOwned`,
`DisciplinedTasksSafe` and `OwnershipGiven` follow.

It also proves `Refinement`, `Spec => ImplementsMailbox`: the initial
states correspond, and under `IInv` every step of a thread is a step of
`Mailbox` or leaves it alone. `NoLostWakeup` and `ReceiverOwns` are what it
rests on: they say that a task with a message in its inbox waits nowhere, and
that the owner of a letter is busy with nothing else.

`FreezeGateProofs` proves `GateInvariance`, `Spec => []IInv`, for any threads.
`OneMissed` needs that the mutex is held exactly in the loop and before the wait
(in `TypeOK`): while the flag is down nobody comes to stand before the wait, the
broadcast empties the wait itself, and before it stands only the holder of the
mutex. `StaysFrozen` needs `Barred`: the freeze that a thread met is still
there, and the thread is in the loop, not past it. `BakeMissesOne` and
`FreezeHolds` follow.

`GateTypeCorrect` states the rest of that invariant: the mutex is held exactly
by the thread between its lock and its unlock or wait.

`SuspendProofs` assumes nothing of the program: any tasks suspend and resume any
others at any moment. It proves `SuspendInvariance`, `Spec => []IInv`, and from it
`TypeCorrect`, `ChangesKept` (`NothingLost`), `PostsDeserved` (`WakesDeserved`),
`CancelsListed` (`OnlyListedCancelled`) and `SleepersResumable` (`Resumable`). What
the history variables except is excepted in the invariant too, task by task, so
that each part is inductive for the tasks of which it speaks:

* `Tokens`, until a task is `stale`: there is one wake-up for each sleep, in
  `needpost`, in the queue, with one who gives it, or in the semaphore. It
  survives overlapping calls of `rqresm`, because the second to act on `needpost`
  acts on a reading that the first has outdated.
* `Delays`, until then: the delay list has a queued task when its status says so,
  and unless it is `marked` its status has no other bit when `rqsend` looks.
* `Marks`, until a task is `stale` or `early`: one that sleeps in `rqsusp` is marked
  and has asked, or is on its way back.
* `Calm`, until a task is `meddled`: it has one writer at a time, because a resumer
  acts only on one that sleeps, and a sender only on one that waits.

`TaskTableProofs` proves `TasksStartTogether` for any table and any other tasks,
even infinitely many. Its invariant says that until `reqstart` is over there are
only tasks that it has created, all at the barrier or before it; then fewer than
`Count` have come, since the created ones are the image of `1..todo - 1`, and
nobody is released.

`ExchangesStaySound` (`ExchangesSound`, a part of `ListsSound`) assumes `Serial`,
as described above, and finitely many descriptors: several tasks may create
exchanges at once, and anybody create and delete tasks, also with descriptors used
again. `mutex1` is what its proof rests on. `RunningAreFound` (`Unlisted`),
`ListsStaySound` (`ListsSound`) and `DisplaysAreWhole` (`WalkWhole`) assume in
addition that descriptors of deleted tasks are not used again (`~Recreate`). The
code enforces neither: `MCTaskTable_conflict.cfg` and `MCTaskTable_recreate.cfg`
show what happens without. Finitely many, because
`Along`, which collects what a chain of links meets, is a recursive function that
ends when everything has been met. `AlongFacts` shows, by well-founded induction
on what has not been met, that it is the least set that holds the head and is
closed under links. From then on the proofs use only that, through lemmas on what
an append, a removal and a cleared link do to it (`AlongAppend`, `AlongRemoves`,
`AlongSkips`, `AlongGrows`), on a chain that ends (`AlongAcyclic`) and on who
stands before whom (`AlongBefore`). The invariant for exchanges is `EInv`, with
`Callers` and `ExList`; that for tasks and displays adds `TInv`, with the others:

* `Callers` and `Births`: one thread is in `reqctsk`, one is in `reqdxch` or holds
  `mutex1`, and a task is created once.
* `TaskList`: a task that is not yet linked on has a clear link and is reached
  from nowhere; the last link is clear but for the step between the link and the
  tail.
* `ExList`: the list of exchanges holds those registered and ends in the tail
  pointer (`Steady`), but for the last steps of each call, and then it says what
  is missing; and what a `reqdxch` under way has read of the list is still so.
* `Shown`: what a display owes is shown or still to come, and would be if the
  stale link of an exchange just appended were cut. A removed exchange keeps its
  link, so that a display standing at it comes back into the list.

`SessionProofs` proves `SendersAlwaysOwn` and `RoundsAreTheSame` for any number of
rounds. `PInv` says where the message is: not made, at frank, on its way to
sinatra (in his exchange or in his hands), at sinatra, on its way to frank, or
over; and for each what stands in both exchanges and by how much the counts
differ. The mailbox calls are three lemmas, `Sending`, `Receiving` and
`Returning`. `Spared` is needed too: sinatra is cancelled only when frank is
past his last message.

Of `Time` it assumes only that a second has a positive number of milliseconds, and
so on: `AddExact`, `SubtractExact` and `CompareExact` say that timespecs behave as
their nanoseconds, `RoundTrip` that milliseconds survive the conversion,
`SystemTimeExact` that the system time is off by less than a millisecond though
seconds and nanoseconds are rounded each for itself, `SystemTimeGrows` that it
does not go back before it wraps, `PrioritiesKeepOrder` that `linux_priority` is
monotone and stays in 1..99.

`DeltasProofs` gives `Sums`, a list's delays added up from its head, the two
equations that define it (`SumsExist`, `SumsFacts`, `SumsUnique`), and from them
what the code's operations do to the delay that each task has left: an insertion
sets the one of the new task and no other (`InsertionFacts`), though the walk
stops behind equals and the next one's difference is cut; a removal, with its
sum modulo 2^16 and its tail sentinel, clears one and leaves the others
(`RemovalFacts`), because no sum is above `Never`; a tick takes one from all of
them (`CountingFacts`). The library's induction rules take an
operator and cannot be instantiated here; `SetInduction` says the same of a set
that holds 0 and the successor of each of its members, and comes from the
library's statement on minima of well-founded relations.

`DelayListProofs` proves `Invariance`, `Spec => []DInv`, for any tasks, delays
and `Never`. Beside the properties themselves `DInv` has `Counts`: the ticks that
a listed task has seen and those left make up at least what it asked for, and
exactly that unless it is late or waits for `Never`. The step that needs care is
a tick that is not counted, because the head is expired or there is nothing to
count: `Called` then says that the delay task has not finished with an earlier
tick, so that all who wait are late from here on. `TypesHold`, `NobodyEarly`,
`EverybodyOnTime` and `DelayerCalled` follow, and `Refinement`, `Spec =>
ImplementsTimeouts`, by the lemmas on insertion, removal and ticks.

`NucleusProofs` has two kinds of theorems. About any program, also one that
sends what it does not own or suspends whom it likes: `MessagesInOnePlace`
(`OneHome`), by induction on `MailInv`, which says how a message's link, its
queue and the queue's waiters belong together, and `MissedRemembered`
(`MissedStays`). Under the hypothesis `Suspenders = {}`, that tasks suspend only
themselves, lemma `Always` proves `SInv`, whose parts are:

* `Readies`: the ready list, and the one that a freeze has set aside, are sorted
  by priority, name nobody twice, end with the idle task and share only that.
* `Places`: a task has one of five statuses, which tells if it is ready, delayed
  or in an exchange's queue; and the lists hold nobody else.
* `Suspended`: the same for the suspend list, until the stale tail pointer that
  `Intact` speaks of has been written through.
* `Processor`: outside of a region the active task heads the ready list; whom an
  interrupt has stopped is marked, is still in the list, and has only more urgent
  ones before it (`Ahead`). That is what the walk of `enterlist`, which puts
  equals behind, keeps up through every entry that one region makes.
* `Timed`: the delay list is one, nobody is unlinked from it who is not in it, and
  what is left of each delay stays within the field.

`MostUrgentRuns`, `InOneList`, `WaitersExist`, `OnlyForMoreUrgent` and `TypesHold`
follow, the first and the fourth for moments at which the active task is the one in
the processor, as `HighestRuns` and `NoEqualSwitch` say. `ProcessorAgrees`
(`OwnContext`) shows that this is always so where, besides, tasks send only what is
theirs and only Linux freezes the system: its invariant `Agrees` says that then
each task's saved context is its own, that nobody comes to an error (`Served`:
whoever goes on from `reqwait` has a message), and that a freeze was made by Linux
running in its own context. From `SInv` there follows also
`CountsImplemented`, `Spec => ImplementsTimeouts`, which uses
`DeltasProofs` once more. The hypothesis is needed: a task that another suspends
while an interrupt has stopped it has two bits in its status, and what
`enterlist` then does takes it to the suspend list for good; `MCNucleus_resume.cfg`
has a counterexample. `enterlist` itself is `SelectInSeq` and `InsertAt` of the
community modules, whose `CHOOSE` and folds are first brought into the form of
a position and a comprehension (`EnterFacts`, `RemoveFirstFacts` and the like).

Every safety invariant and every refinement that a passing run checks is stated by
a theorem, some under the hypotheses named above. Only model-checked: `Served` of
`Exchange`, `OneOfTwoThaws`, `EveryDelayEnds`, `EveryTaskRuns` and `QuitEnds`,
because liveness under fairness is out of the prover's reach. No theorem covers
what programs do outside those hypotheses: tasks of `Nucleus` that suspend others,
task lists of `TaskTable` to which two threads append at once or a descriptor
comes twice, a `reqdxch` that overlaps a `reqcxch`. For each of these there is a
counterexample among those named above.

## 5. Not modelled

* `rqdelaytask`'s unlink from an exchange's queue pointer by pointer, with the
  append of an `rqwait` that it races with; `delay_fault` shows that the lock is
  missing, but not everything that follows from it. The static variables of
  `rqwait` (1129-1130), which two tasks at different exchanges share.
* `rqdtsk` of a thread that holds an exchange's mutex; what `reqctsk` does with
  scheduling attributes, stacks and names.
* In `yalrt.c`: creation and deletion of exchanges, `reqendi`, `user_error`, the
  queries for `/proc`, loading the kernel module, more than one processor.
* `ycore.orig.c`, a copy of the core that no rule of the Makefile builds.
* What the displays print, and their walks along queues and the delay list; the
  logs, `ymain.c` and `prova.c`, which only print; the measures of `ytest.c`;
  scheduling by priority in `ycore.c`, which is Linux's.

## 6. Running

    tlc -config MCExchange_careful.cfg MCExchange
    tlapm ExchangeProofs.tla
    tlapm DeltasProofs.tla
    tlapm DelayListProofs.tla
    tlapm FreezeGateProofs.tla
    tlapm SuspendProofs.tla
    tlapm TaskTableProofs.tla
    tlapm SessionProofs.tla
    tlapm NucleusProofs.tla
    tlc -config MCSession_quit.cfg MCSession    (a counterexample)

`PROJECT.json` lists the components, the runs, a mutant for each property (a
plausible mistake in the code that the property catches), the lines that each
definition models, the hazards and the theorems. The mutated forms stand in the
modules before the definitions they belong to; nothing else uses them.
