------------------------------ MODULE Suspend -------------------------------
(***************************************************************************)
(* The status byte of the tasks of YRmx (ycore.c) and the calls that use   *)
(* it: reqsusp, reqresm, reqwait, reqsend and exit_region.  They share one *)
(* semaphore for each task, and no lock.                                   *)
(*                                                                         *)
(* A change of a bit (`|=', `&=') is a load and a store, two steps that    *)
(* other threads can come between; an assignment is one.  The exchange is  *)
(* in one step what Exchange shows it to be: a task is in the queue or was *)
(* taken from it by one sender.  Delays are too long to expire.            *)
(*                                                                         *)
(* Any task may suspend and resume any other at any moment.  What this can *)
(* spoil is told by history variables, not excluded.                       *)
(*                                                                         *)
(* UnaskLate, AskNever, WaitAdd, TakeKeep and UnwaitNot are plausible      *)
(* mistakes in the definitions after them; nothing uses them.              *)
(***************************************************************************)
EXTENDS Naturals

CONSTANTS
  Tasks,
  Suspenders,  \* tasks that suspend other tasks
  Resumers,    \* tasks that resume other tasks
  Sleepers,    \* tasks that wait, and that these and they themselves suspend
  SemMax       \* SEM_VALUE_MAX: at this value sem_post fails

ASSUME SuspendAssumption ==
  /\ Suspenders \subseteq Tasks
  /\ Resumers \subseteq Tasks
  /\ Sleepers \subseteq Tasks
  /\ SemMax \in Nat \ {0}

VARIABLES
  pc,      \* where each thread is, see Locations
  target,  \* the task whose status the call is about
  loaded,  \* the thread is between the load and the store of a change
  reg,     \* what it loaded
  status,  \* task->status
  sema,    \* task->sema
  queue,   \* tasks in the task queue of an exchange
  list,    \* tasks in the delay list
  corrupt, \* a task that is not in the delay list was unlinked from it
  \* The history variables.
  current, \* threads whose reading of their target's status still holds
  stale,   \* tasks whose status was changed after a reading that did not
  early,   \* tasks whose mark was cleared before they had asked for a post
  marked,  \* tasks suspended by another since they last began to wait
  asked,   \* tasks suspended by another while they were queued
  meddled  \* tasks that others did not leave alone, see Meddled

program == <<pc, target, loaded, reg>>
places == <<queue, list, corrupt>>
history == <<current, stale, early, marked, asked, meddled>>
vars == <<program, status, sema, places, history>>

Bits == {"delayed", "suspended", "running", "needpost", "waiting"}

Locations ==
  {"user",
   "mark", "ask", "asleep", "awake",         \* reqsusp
   "resume", "clear", "needed", "unask",     \* reqresm
   "unwait", "timed", "cancel", "undelay",   \* reqsend
   "post",                                   \* reqresm and reqsend
   "blocked", "reset", "exit"}               \* reqwait, reqacpt

(* Where the call changes a bit of a status.                               *)
Changes == {"mark", "ask", "awake", "clear", "unask", "unwait", "undelay"}

(* Where reqresm is up to its post.                                        *)
Resuming == {"resume", "clear", "needed", "unask"}

Init ==
  /\ pc = [t \in Tasks |-> "user"]
  /\ target = [t \in Tasks |-> t]
  /\ loaded = [t \in Tasks |-> FALSE]
  /\ reg = [t \in Tasks |-> {}]
  /\ status = [t \in Tasks |-> {"running"}]
  /\ sema = [t \in Tasks |-> 0]
  /\ queue = {} /\ list = {} /\ corrupt = FALSE
  /\ current = {} /\ stale = {} /\ early = {} /\ marked = {} /\ asked = {}
  /\ meddled = {}

(* What is undone after the delay list was corrupted does not matter.      *)
At(c, here) == ~corrupt /\ pc[c] = here /\ ~loaded[c]
Goto(c, there) == pc' = [pc EXCEPT ![c] = there]

(* A store makes what others have read of that status stale.               *)
Outdated(t) == {d \in Tasks : target[d] = t}

(* status = (status & ~off) | on, for the target of c.  Where reqresm has  *)
(* tested the status the reading on which it acts is that test.            *)
Load(c, here) ==
  /\ At(c, here)
  /\ loaded' = [loaded EXCEPT ![c] = TRUE]
  /\ reg' = [reg EXCEPT ![c] = status[target[c]]]
  /\ current' = IF here \in Resuming THEN current ELSE current \cup {c}
  /\ UNCHANGED <<pc, target, status, sema, places, stale, early, marked, asked,
                 meddled>>

Store(c, here, off, on, there) ==
  /\ ~corrupt
  /\ pc[c] = here
  /\ loaded[c]
  /\ status' = [status EXCEPT ![target[c]] = (reg[c] \ off) \cup on]
  /\ loaded' = [loaded EXCEPT ![c] = FALSE]
  /\ reg' = [reg EXCEPT ![c] = {}]
  /\ current' = current \ Outdated(target[c])
  /\ stale' = IF c \in current THEN stale ELSE stale \cup {target[c]}
  /\ Goto(c, there)
  /\ UNCHANGED <<target, sema, places, meddled>>

Change(c, here, off, on, there) ==
  \/ Load(c, here)
  \/ Store(c, here, off, on, there) /\ UNCHANGED <<early, marked, asked>>

(* A test of the target's status, or any other step to a place.            *)
Step(c, here, there) ==
  /\ At(c, here)
  /\ Goto(c, there)
  /\ UNCHANGED <<target, loaded, reg, status, stale, early, marked, asked>>

Call(c, t, there) ==
  /\ At(c, "user")
  /\ Goto(c, there)
  /\ target' = [target EXCEPT ![c] = t]
  /\ UNCHANGED <<loaded, reg, stale>>

-----------------------------------------------------------------------------
(* reqsusp: a task that suspends itself sleeps; another is only marked.    *)
reqsusp(c, t) ==
  /\ t \in Sleepers
  /\ t # c => c \in Suspenders
  /\ Call(c, t, "mark")
  /\ early' = IF t = c THEN early \ {t} ELSE early
  /\ meddled' = IF t = c THEN meddled ELSE meddled \cup {t}
  /\ UNCHANGED <<status, sema, places, current, marked, asked>>

SuspMark(c) ==
  LET t == target[c] IN
  \/ Load(c, "mark")
  \/ /\ Store(c, "mark", {}, {"suspended"}, IF t = c THEN "ask" ELSE "user")
     /\ marked' = IF t = c THEN marked ELSE marked \cup {t}
     /\ asked' = IF t \in queue THEN asked \cup {t} ELSE asked
     /\ UNCHANGED early

AskNever(c) == Change(c, "ask", {}, {}, "asleep")
SuspAsk(c) == Change(c, "ask", {}, {"needpost"}, "asleep")

SuspWake(c) ==
  /\ sema[c] > 0
  /\ Step(c, "asleep", "awake")
  /\ sema' = [sema EXCEPT ![c] = @ - 1]
  /\ UNCHANGED <<places, current, meddled>>

SuspClear(c) == Change(c, "awake", {"suspended", "needpost"}, {}, "user")

-----------------------------------------------------------------------------
(* reqresm: it posts a task that is suspended and has asked for it.        *)
(* Meddled: two resume a task at once, or one comes before it has asked.   *)
reqresm(c, t) ==
  /\ c \in Resumers
  /\ t \in Sleepers \ {c}
  /\ Call(c, t, "resume")
  /\ asked' = asked \ {t}
  /\ meddled' = IF \E d \in Tasks : pc[d] \in Resuming /\ target[d] = t
                THEN meddled \cup {t} ELSE meddled
  /\ UNCHANGED <<status, sema, places, current, early, marked>>

ResmTest(c) ==
  LET t == target[c] IN
  /\ Step(c, "resume", IF "suspended" \in status[t] THEN "clear" ELSE "user")
  /\ current' = IF "suspended" \in status[t] THEN current \cup {c} ELSE current
  /\ meddled' = IF "suspended" \in status[t] /\ "needpost" \notin status[t]
                THEN meddled \cup {t} ELSE meddled
  /\ UNCHANGED <<sema, places>>

ResmClear(c) ==
  \/ Load(c, "clear")
  \/ /\ Store(c, "clear", {"suspended"}, {}, "needed")
     /\ early' = IF pc[target[c]] = "ask" THEN early \cup {target[c]} ELSE early
     /\ UNCHANGED <<marked, asked>>

ResmNeeded(c) ==
  LET needed == "needpost" \in status[target[c]] IN
  /\ Step(c, "needed", IF needed THEN "unask" ELSE "user")
  /\ current' = IF needed THEN current \cup {c} ELSE current
  /\ UNCHANGED <<sema, places, meddled>>

(* sem_post                                                                *)
Posted(t) == [sema EXCEPT ![t] = IF @ < SemMax THEN @ + 1 ELSE @]

UnaskLate(c) ==
  \/ /\ At(c, "unask")
     /\ loaded' = [loaded EXCEPT ![c] = TRUE]
     /\ reg' = [reg EXCEPT ![c] = status[target[c]]]
     /\ sema' = Posted(target[c])
     /\ UNCHANGED <<pc, target, status, places, history>>
  \/ /\ Store(c, "unask", {"needpost"}, {}, "user")
     /\ UNCHANGED <<early, marked, asked>>
ResmUnask(c) == Change(c, "unask", {"needpost"}, {}, "post")

(* The end of reqresm and of reqsend.                                      *)
Post(c) ==
  /\ Step(c, "post", "user")
  /\ sema' = Posted(target[c])
  /\ UNCHANGED <<places, current, meddled>>

-----------------------------------------------------------------------------
(* Of reqacpt, and of reqwait when there is a message, only the end.       *)
reqacpt(t) ==
  /\ t \in Sleepers
  /\ Call(t, t, "exit")
  /\ UNCHANGED <<status, sema, places, current, early, marked, asked, meddled>>

(* reqwait without a message, timed or not: the status is overwritten when *)
(* the task is queued, when it is back, and in exit_region.  There a task  *)
(* that is marked as suspended should stop, but the test that follows,     *)
(* `status & needpost == 0', is 0 for every status.                        *)
WaitAdd(t, timed) ==
  /\ t \in Sleepers
  /\ Call(t, t, "blocked")
  /\ queue' = queue \cup {t}
  /\ list' = IF timed THEN list \cup {t} ELSE list
  /\ status' = [status EXCEPT ![t] =
                 @ \cup IF timed THEN {"delayed"} ELSE {"waiting"}]
  /\ current' = current \ Outdated(t)
  /\ marked' = marked \ {t}
  /\ UNCHANGED <<sema, corrupt, early, asked, meddled>>
reqwait(t, timed) ==
  /\ t \in Sleepers
  /\ Call(t, t, "blocked")
  /\ queue' = queue \cup {t}
  /\ list' = IF timed THEN list \cup {t} ELSE list
  /\ status' = [status EXCEPT ![t] = IF timed THEN {"delayed"} ELSE {"waiting"}]
  /\ current' = current \ Outdated(t)
  /\ marked' = marked \ {t}
  /\ UNCHANGED <<sema, corrupt, early, asked, meddled>>

WaitWake(t) ==
  /\ sema[t] > 0
  /\ Step(t, "blocked", "reset")
  /\ sema' = [sema EXCEPT ![t] = @ - 1]
  /\ UNCHANGED <<places, current, meddled>>

Assign(t, here, bits, there) ==
  /\ At(t, here)
  /\ Goto(t, there)
  /\ status' = [status EXCEPT ![t] = bits]
  /\ current' = current \ Outdated(t)
  /\ UNCHANGED <<target, loaded, reg, sema, places, stale, early, marked,
                 meddled>>

WaitReset(t) == Assign(t, "reset", {}, "exit") /\ UNCHANGED asked

exit_region(t) ==
  /\ Assign(t, "exit", {"running"}, "user")
  /\ asked' = asked \ {t}

(* reqsend to an exchange where t waits, from the moment t was taken.      *)
TakeKeep(c, t) ==
  /\ t \in queue
  /\ Call(c, t, "unwait")
  /\ UNCHANGED <<status, sema, places, current, early, marked, asked, meddled>>
reqsend(c, t) ==
  /\ t \in queue
  /\ Call(c, t, "unwait")
  /\ queue' = queue \ {t}
  /\ UNCHANGED <<status, sema, list, corrupt, current, early, marked, asked,
                 meddled>>

UnwaitNot(c) ==
  Step(c, "unwait", "timed") /\ UNCHANGED <<sema, places, current, meddled>>
SendUnwait(c) == Change(c, "unwait", {"waiting"}, {}, "timed")

(* `task->status && delayed' is true of every status but 0.                *)
SendTimed(c) ==
  /\ Step(c, "timed", IF status[target[c]] # {} THEN "cancel" ELSE "post")
  /\ UNCHANGED <<sema, places, current, meddled>>

(* cancel_delay unlinks the task from its neighbours in the delay list.    *)
SendCancel(c) ==
  /\ Step(c, "cancel", "undelay")
  /\ list' = list \ {target[c]}
  /\ corrupt' = (target[c] \notin list)
  /\ UNCHANGED <<sema, queue, current, meddled>>

SendUndelay(c) == Change(c, "undelay", {"delayed"}, {}, "post")

-----------------------------------------------------------------------------
Inside(c) ==
  \/ SuspMark(c) \/ SuspAsk(c) \/ SuspWake(c) \/ SuspClear(c)
  \/ ResmTest(c) \/ ResmClear(c) \/ ResmNeeded(c) \/ ResmUnask(c)
  \/ WaitWake(c) \/ WaitReset(c) \/ exit_region(c)
  \/ SendUnwait(c) \/ SendTimed(c) \/ SendCancel(c) \/ SendUndelay(c)
  \/ Post(c)

Next ==
  \E c \in Tasks :
    \/ Inside(c)
    \/ reqacpt(c)
    \/ \E timed \in BOOLEAN : reqwait(c, timed)
    \/ \E t \in Tasks : reqsusp(c, t) \/ reqresm(c, t) \/ reqsend(c, t)

Spec == Init /\ [][Next]_vars

(* The scheduler does not abandon a thread that can run.                   *)
FairSpec == Spec /\ \A c \in Tasks : WF_vars(Inside(c))

-----------------------------------------------------------------------------
(* TypeOK: no status, stored or loaded, holds two of running, waiting and  *)
(* delayed; a thread has loaded a status only where its call changes one;  *)
(* the semaphore does not pass its limit.                                  *)
OneOf(bits) ==
  \A a, b \in bits \cap {"delayed", "running", "waiting"} : a = b

TypeOK ==
  /\ pc \in [Tasks -> Locations]
  /\ target \in [Tasks -> Tasks]
  /\ loaded \in [Tasks -> BOOLEAN]
  /\ reg \in [Tasks -> SUBSET Bits]
  /\ status \in [Tasks -> SUBSET Bits]
  /\ sema \in [Tasks -> 0..SemMax]
  /\ queue \subseteq Tasks /\ list \subseteq Tasks /\ corrupt \in BOOLEAN
  /\ current \subseteq Tasks /\ stale \subseteq Tasks /\ early \subseteq Tasks
  /\ marked \subseteq Tasks /\ asked \subseteq Tasks /\ meddled \subseteq Tasks
  /\ \A t \in Tasks : OneOf(status[t]) /\ OneOf(reg[t])
  /\ \A c \in Tasks : loaded[c] => pc[c] \in Changes

(* NothingLost: between the load and the store of a change of a bit nobody *)
(* else changes that status, so that no change is lost: unless another     *)
(* task suspended that task, two resumed it at once, or one resumed it     *)
(* before it had asked for a post (ycore.c:910-915).                       *)
NothingLost ==
  \A c \in Tasks :
    loaded[c] /\ target[c] \notin meddled => reg[c] = status[target[c]]

(* WakesDeserved: the semaphore that reqsusp and reqwait share counts at   *)
(* most one, for a task that sleeps; a post from reqresm never wakes a     *)
(* task from reqwait before a sender has taken it from its exchange        *)
(* (rqresm.8, "Resuming a task which was not suspended has no effect"):    *)
(* whoever suspends and resumes, how often and in whatever order, as long  *)
(* as no thread has changed the task's status after a reading that was no  *)
(* longer true, a load or the test of suspended or needpost in reqresm.    *)
WakesDeserved ==
  \A t \in Tasks \ stale : sema[t] > 0 =>
    /\ sema[t] = 1
    /\ pc[t] \in {"asleep", "blocked"}
    /\ t \notin queue

(* OnlyListedCancelled: cancel_delay is called for tasks in the delay list *)
(* ("Dequeue a task from the double linked delay list when the task is     *)
(* made active before the delay expires", ycore.c), although reqsend tests *)
(* the whole status: but for a task that another suspended in its wait, or *)
(* whose status is stale.                                                  *)
OnlyListedCancelled ==
  \A c \in Tasks :
    pc[c] = "cancel" /\ target[c] \notin stale \cup marked =>
      target[c] \in list

(* Resumable: a task that sleeps in reqsusp can be resumed: it is marked   *)
(* and has asked for the post that reqresm gives it then, or that reqresm  *)
(* is under way, or the post has come.  Only a reqresm that came before it *)
(* had asked, in ycore.c:910-915, or a stale status can leave it there for *)
(* good.                                                                   *)
Resumable ==
  \A t \in Tasks \ (stale \cup early) : pc[t] = "asleep" =>
    \/ "needpost" \in status[t]
       /\ \/ "suspended" \in status[t]
          \/ \E c \in Tasks : pc[c] \in {"needed", "unask"} /\ target[c] = t
    \/ \E c \in Tasks : pc[c] = "post" /\ target[c] = t
    \/ sema[t] > 0

(* Resumed: when reqresm finds a task suspended that sleeps in reqsusp, or *)
(* is on its way there, the task comes back (rqresm.8, "If the task had    *)
(* been prevoulsly suspended, it is made again runnable").                 *)
Resumed ==
  \A c, t \in Tasks :
    (pc[c] = "clear" /\ target[c] = t /\ pc[t] \in {"ask", "asleep"})
      ~> (pc[t] \notin {"ask", "asleep"} \/ corrupt)

(* NoEffect: a task is woken from reqwait only when a sender has taken it  *)
(* from its exchange (ycore.c:895, "suspending an already suspended task   *)
(* is legal, but has no effect whatsoever").                               *)
NoEffect == \A t \in Tasks : pc[t] = "blocked" /\ sema[t] > 0 => t \notin queue

(* NoCorruption: only a task that is in the delay list is unlinked there.  *)
NoCorruption == ~corrupt

(* SuspendedStops: a task that was suspended while it was in a queue does  *)
(* not return from reqwait before it is resumed (rqsusp.8, "If the         *)
(* required task is waiting, it is suspended as soon as it becomes         *)
(* runnable").                                                             *)
SuspendedStops ==
  [][\A t \in asked : pc[t] = "exit" => pc'[t] = "exit"]_vars
=============================================================================
