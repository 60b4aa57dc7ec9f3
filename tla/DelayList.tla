----------------------------- MODULE DelayList ------------------------------
(***************************************************************************)
(* The timed waits of YRmx (ycore.c): the delay list, in which each task's *)
(* delay counts from the task before it, the thread rqtimer that counts    *)
(* the first one down at every tick, and the thread rqdelaytask, woken by  *)
(* an interrupt message, that collects the tasks whose delay is zero.      *)
(*                                                                         *)
(* Every operation on the list holds delay_list_mutex and is one step,     *)
(* except the loop of rqdelaytask, which is a step per task.  A sender     *)
(* takes a waiting task from its exchange in one step and out of the delay *)
(* list in another (cancel_delay): the exchange has another mutex.         *)
(*                                                                         *)
(* SendForget, cancelForget, InsertWhole, TickPast and ExpireOne are       *)
(* plausible mistakes in the definitions after them; nothing uses them.    *)
(***************************************************************************)
EXTENDS Deltas

CONSTANTS
  Tasks,    \* tasks that make timed waits
  Delays,   \* the delays they ask for
  Never     \* 0xFFFF, the largest unsigned short and the delay of the tail

ASSUME DelayAssumption ==
  /\ Never \in Nat \ {0}
  /\ Delays \subseteq 1..Never

VARIABLES
  dlist,    \* from rq_delay_list_head.next to rq_delay_list_tail.prev
  delay,    \* task->delay
  state,    \* of each task in reqwait, see States
  timer,    \* rqtimer: "sleep", or "isnd" before it calls reqisnd
  queued,   \* the message of rq_delay_exchange waits in its queue
  delayer,  \* rqdelaytask: "wait", "lock" before the mutex, "loop" with it
  fault,    \* rqdelaytask has followed a null pointer
  want,     \* history: the delay a task asked for
  age,      \* history: ticks since then, counted to one past want
  late      \* history: waits that saw a tick before the last was dealt with

vars == <<dlist, delay, state, timer, queued, delayer, fault, want, age, late>>
history == <<want, age, late>>

States ==
  {"running",
   "delayed",  \* in the exchange's queue and in the delay list
   "taken",    \* out of the queue, by a sender that will cancel the delay
   "sent",     \* with a message, out of both
   "timedout"} \* with the time-out message, out of both

Init ==
  /\ dlist = << >>
  /\ delay = [t \in Tasks |-> 0]
  /\ state = [t \in Tasks |-> "running"]
  /\ timer = "sleep"
  /\ queued = FALSE
  /\ delayer = "wait"
  /\ fault = FALSE
  /\ want = [t \in Tasks |-> 0]
  /\ age = [t \in Tasks |-> 0]
  /\ late = {}

(* Nobody holds delay_list_mutex.                                          *)
Unlocked == delayer # "loop" /\ ~fault

(* The delay rq_delay_list_head.next shows: an empty list shows its tail's. *)
FirstDelay == First(dlist, delay, Never)

-----------------------------------------------------------------------------
(* The task goes before the first that is not earlier (see Deltas).        *)
InsertWhole(t, d) ==
  LET k == Place(dlist, delay, d) IN
  /\ dlist' = InsertAt(dlist, k + 1, t)
  /\ delay' = [delay EXCEPT ![t] = d - Sums(dlist, delay)[k]]
Insert(t, d) ==
  /\ dlist' = Insertion(dlist, delay, t, d)
  /\ delay' = Inserted(dlist, delay, t, d)

reqwait(t, d) ==
  /\ Unlocked
  /\ state[t] = "running"
  /\ Insert(t, d)
  /\ state' = [state EXCEPT ![t] = "delayed"]
  /\ want' = [want EXCEPT ![t] = d]
  /\ age' = [age EXCEPT ![t] = 0]
  /\ late' = late \ {t}
  /\ UNCHANGED <<timer, queued, delayer, fault>>

(* cancel_delay_unsafe: the task's delay is added to the one that follows  *)
(* (an unsigned short); the tail's is set to Never again.                  *)
cancelForget(t) ==
  /\ dlist' = RemoveAt(dlist, Position(dlist, t))
  /\ UNCHANGED delay
cancel_delay_unsafe(t) ==
  /\ dlist' = RemoveAt(dlist, Position(dlist, t))
  /\ delay' = Removed(dlist, delay, t, Never + 1)

(* reqsend to the exchange of a task in timed wait: the hand-over, in the  *)
(* exchange's critical section, ...                                        *)
SendTake(t) ==
  /\ ~fault
  /\ state[t] = "delayed"
  /\ state' = [state EXCEPT ![t] = "taken"]
  /\ UNCHANGED <<dlist, delay, timer, queued, delayer, fault, history>>

(* ... then cancel_delay, and the post of the task's semaphore.            *)
SendForget(t) ==
  /\ Unlocked
  /\ state[t] = "taken"
  /\ state' = [state EXCEPT ![t] = "sent"]
  /\ UNCHANGED <<dlist, delay, timer, queued, delayer, fault, history>>
SendCancel(t) ==
  /\ Unlocked
  /\ state[t] = "taken"
  /\ cancel_delay_unsafe(t)
  /\ state' = [state EXCEPT ![t] = "sent"]
  /\ UNCHANGED <<timer, queued, delayer, fault, history>>

Return(t) ==
  /\ ~fault
  /\ state[t] \in {"sent", "timedout"}
  /\ state' = [state EXCEPT ![t] = "running"]
  /\ want' = [want EXCEPT ![t] = 0]
  /\ age' = [age EXCEPT ![t] = 0]
  /\ late' = late \ {t}
  /\ UNCHANGED <<dlist, delay, timer, queued, delayer, fault>>

-----------------------------------------------------------------------------
Settled == delayer = "wait" /\ ~queued
Older ==
  [t \in Tasks |->
     IF t \in Range(dlist) /\ age[t] <= want[t] THEN age[t] + 1 ELSE age[t]]

(* A tick of rqtimer.  A first delay of Never is left alone, one of zero   *)
(* waits for rqdelaytask, which is called again; otherwise it is counted,  *)
(* and rqdelaytask called at zero.                                         *)
TickPast ==
  /\ Unlocked
  /\ timer = "sleep"
  /\ IF FirstDelay \notin {0, Never}
     THEN delay' = [delay EXCEPT ![Head(dlist)] = @ - 1]
     ELSE UNCHANGED delay
  /\ timer' = IF FirstDelay = 0 THEN "isnd" ELSE "sleep"
  /\ age' = Older
  /\ late' = IF Settled THEN late ELSE late \cup Range(dlist)
  /\ UNCHANGED <<dlist, state, queued, delayer, fault, want>>
Tick ==
  /\ Unlocked
  /\ timer = "sleep"
  /\ IF FirstDelay \notin {0, Never}
     THEN delay' = [delay EXCEPT ![Head(dlist)] = @ - 1]
     ELSE UNCHANGED delay
  /\ timer' = IF FirstDelay \in {0, 1} \ {Never}
              THEN "isnd" ELSE "sleep"
  /\ age' = Older
  /\ late' = IF Settled THEN late ELSE late \cup Range(dlist)
  /\ UNCHANGED <<dlist, state, queued, delayer, fault, want>>

(* reqisnd: a message still queued is a missed interrupt; otherwise it is  *)
(* handed to rqdelaytask, when that waits, or queued.                      *)
Isnd ==
  /\ ~fault
  /\ timer = "isnd"
  /\ timer' = "sleep"
  /\ IF ~queued /\ delayer = "wait"
     THEN delayer' = "lock" /\ UNCHANGED queued
     ELSE queued' = TRUE /\ UNCHANGED delayer
  /\ UNCHANGED <<dlist, delay, state, fault, history>>

-----------------------------------------------------------------------------
(* rqdelaytask: reqwait at rq_delay_exchange finds the message queued.     *)
DelayTake ==
  /\ ~fault
  /\ delayer = "wait"
  /\ queued
  /\ queued' = FALSE
  /\ delayer' = "lock"
  /\ UNCHANGED <<dlist, delay, state, timer, fault, history>>

DelayLock ==
  /\ ~fault
  /\ delayer = "lock"
  /\ delayer' = "loop"
  /\ UNCHANGED <<dlist, delay, state, timer, queued, fault, history>>

(* The first task has no delay left: it is looked for in its exchange's    *)
(* queue, taken from there and from the list, and given the time-out       *)
(* message.  The walk through the queue has no end but the task itself.    *)
ExpireOne ==
  /\ ~fault
  /\ delayer = "loop"
  /\ FirstDelay = 0
  /\ state[Head(dlist)] = "delayed"
  /\ cancel_delay_unsafe(Head(dlist))
  /\ state' = [state EXCEPT ![Head(dlist)] = "timedout"]
  /\ delayer' = "wait"
  /\ UNCHANGED <<timer, queued, fault, history>>
DelayExpire ==
  /\ ~fault
  /\ delayer = "loop"
  /\ FirstDelay = 0
  /\ LET t == Head(dlist) IN
       IF state[t] = "delayed"
       THEN /\ cancel_delay_unsafe(t)
            /\ state' = [state EXCEPT ![t] = "timedout"]
            /\ UNCHANGED fault
       ELSE /\ fault' = TRUE
            /\ UNCHANGED <<dlist, delay, state>>
  /\ UNCHANGED <<timer, queued, delayer, history>>

DelayUnlock ==
  /\ ~fault
  /\ delayer = "loop"
  /\ FirstDelay # 0
  /\ delayer' = "wait"
  /\ UNCHANGED <<dlist, delay, state, timer, queued, fault, history>>

delaytask == DelayTake \/ DelayLock \/ DelayExpire \/ DelayUnlock

Next ==
  \/ \E t \in Tasks :
       \/ \E d \in Delays : reqwait(t, d)
       \/ SendTake(t)
       \/ SendCancel(t)
       \/ Return(t)
  \/ Tick
  \/ Isnd
  \/ delaytask

Spec == Init /\ [][Next]_vars

(* The clock goes on, and a thread that can run is not abandoned; nothing  *)
(* is assumed of the users.                                                *)
FairSpec ==
  /\ Spec
  /\ WF_vars(Tick) /\ WF_vars(Isnd) /\ WF_vars(delaytask)
  /\ \A t \in Tasks : WF_vars(SendCancel(t))

-----------------------------------------------------------------------------
(* TypeOK: no delay leaves its unsigned short, no task is listed twice, a  *)
(* task is listed exactly while it is in a timed wait.                     *)
TypeOK ==
  /\ dlist \in Seq(Tasks)
  /\ IsInjective(dlist)
  /\ delay \in [Tasks -> 0..Never]
  /\ state \in [Tasks -> States]
  /\ Range(dlist) = {t \in Tasks : state[t] \in {"delayed", "taken"}}
  /\ timer \in {"sleep", "isnd"}
  /\ queued \in BOOLEAN
  /\ delayer \in {"wait", "lock", "loop"}
  /\ fault \in BOOLEAN
  /\ want \in [Tasks -> 0..Never]
  /\ age \in [Tasks -> 0..Never + 1]
  /\ late \subseteq Tasks

(* NeverEarly: a task is given the time-out message only after as many     *)
(* ticks as it asked for (rqwait.8), however the waits of the other tasks  *)
(* began, ended and expired meanwhile.                                     *)
NeverEarly == \A t \in Tasks : state[t] = "timedout" => age[t] >= want[t]

(* OnTime: when rqtimer and rqdelaytask keep up with the clock during the  *)
(* wait, as their priorities intend, it is given exactly then, unless the  *)
(* delay is the one that rqtimer does not count.                           *)
OnTime ==
  \A t \in Tasks :
    state[t] = "timedout" /\ t \notin late /\ want[t] < Never
      => age[t] = want[t]

(* Called: an expired task is never forgotten by both threads: rqtimer     *)
(* will see it at its next tick, and until then rqdelaytask has a message, *)
(* or is at work, unless rqtimer is about to send it one.                  *)
Called ==
  FirstDelay = 0 => timer = "isnd" \/ queued \/ delayer # "wait"

(* EveryDelayEnds: a timed wait ends, by a message or by the time-out,     *)
(* unless its delay is the one that rqtimer does not count.                *)
EveryDelayEnds ==
  \A t \in Tasks :
    (state[t] = "delayed" /\ want[t] < Never)
      ~> (state[t] # "delayed" \/ fault)

(* NoFault: rqdelaytask finds every expired task in its exchange's queue   *)
(* ("a mutex ensure mutual exclusion when dealing with exchange            *)
(* structures", ycore.h).                                                  *)
NoFault == ~fault

-----------------------------------------------------------------------------
(* ImplementsTimeouts: the differences in the list stand for independent   *)
(* counts, one for each task.                                              *)
TO == INSTANCE Timeouts WITH
  Waiters <- Tasks, Longest <- Never, left <- Left(dlist, delay, Tasks)

ImplementsTimeouts == TO!TSpec
=============================================================================
