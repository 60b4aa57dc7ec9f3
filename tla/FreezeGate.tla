----------------------------- MODULE FreezeGate -----------------------------
(***************************************************************************)
(* The freeze of YRmx (ycore.c) at the level of its mutex and condition:   *)
(* reqfreeze, reqbake and the end of exit_region, where the tasks of a     *)
(* frozen system wait.  In Exchange this is one step, Gate.                *)
(*                                                                         *)
(* A step is one access to rqfrozen or one call on fmutex or unfreeze:     *)
(* reqfreeze tests and sets the flag without the mutex, and reqbake tests  *)
(* it, clears it and broadcasts without the mutex.                         *)
(*                                                                         *)
(* LockFree, RelockOnce and Signal are plausible mistakes in the           *)
(* definitions after them; nothing uses them.                              *)
(***************************************************************************)
CONSTANTS
  Tasks,   \* the threads that end their calls in exit_region
  Root,    \* the root task, which reqfreeze does not stop
  Bakers,  \* the threads that call reqbake
  NULL     \* holder of a mutex that is free

Threads == Tasks \cup {Root}

ASSUME FreezeAssumption ==
  /\ Root \notin Tasks
  /\ Bakers \subseteq Threads
  /\ NULL \notin Threads

VARIABLES
  pc,        \* where each thread is, see Locations
  fmutex,    \* its holder
  rqfrozen,
  barred     \* history: threads that found, or made, the freeze there is

vars == <<pc, fmutex, rqfrozen, barred>>

Locations ==
  {"user",
   "gate",      \* at the first test of rqfrozen in exit_region
   "freeze",    \* in reqfreeze, past its test
   "lock",      \* at the lock of fmutex
   "loop",      \* at the test of the loop, fmutex held
   "about",     \* about to call pthread_cond_wait, fmutex held
   "asleep",    \* in pthread_cond_wait, waiting for the condition
   "woken",     \* in pthread_cond_wait, waiting for fmutex
   "bake",      \* in reqbake, past its test
   "broadcast"} \* in reqbake, rqfrozen cleared

Init ==
  /\ pc = [t \in Threads |-> "user"]
  /\ fmutex = NULL
  /\ rqfrozen = FALSE
  /\ barred = {}

Go(t, from, to) ==
  /\ pc[t] = from
  /\ pc' = [pc EXCEPT ![t] = to]

-----------------------------------------------------------------------------
(* A task reaches the end of a call.                                       *)
Enter(t) ==
  /\ Go(t, "user", "gate")
  /\ UNCHANGED <<fmutex, rqfrozen, barred>>

Test(t) ==
  /\ Go(t, "gate", IF rqfrozen THEN "lock" ELSE "user")
  /\ barred' = IF rqfrozen THEN barred \cup {t} ELSE barred
  /\ UNCHANGED <<fmutex, rqfrozen>>

(* reqfreeze has no effect when the system is frozen.                      *)
CallFreeze(t) ==
  /\ ~rqfrozen
  /\ Go(t, "user", "freeze")
  /\ UNCHANGED <<fmutex, rqfrozen, barred>>

Freeze(t) ==
  /\ Go(t, "freeze", IF t = Root THEN "user" ELSE "lock")
  /\ rqfrozen' = TRUE
  /\ barred' = IF t = Root THEN barred ELSE barred \cup {t}
  /\ UNCHANGED fmutex

(* Both wait in the same loop.                                             *)
LockFree(t) ==
  /\ Go(t, "lock", "loop")
  /\ UNCHANGED <<fmutex, rqfrozen, barred>>
Lock(t) ==
  /\ fmutex = NULL
  /\ Go(t, "lock", "loop")
  /\ fmutex' = t
  /\ UNCHANGED <<rqfrozen, barred>>

LoopWait(t) ==
  /\ rqfrozen
  /\ Go(t, "loop", "about")
  /\ UNCHANGED <<fmutex, rqfrozen, barred>>

LoopLeave(t) ==
  /\ ~rqfrozen
  /\ Go(t, "loop", "user")
  /\ fmutex' = NULL
  /\ UNCHANGED <<rqfrozen, barred>>

(* pthread_cond_wait: the release of the mutex and the start of the wait   *)
(* are one step; the wait may end without a broadcast; the mutex is taken  *)
(* again before it returns to the test of the loop.                        *)
Sleep(t) ==
  /\ Go(t, "about", "asleep")
  /\ fmutex' = NULL
  /\ UNCHANGED <<rqfrozen, barred>>

WakeUnasked(t) ==
  /\ Go(t, "asleep", "woken")
  /\ UNCHANGED <<fmutex, rqfrozen, barred>>

RelockOnce(t) ==
  /\ fmutex = NULL
  /\ Go(t, "woken", "user")
  /\ UNCHANGED <<fmutex, rqfrozen, barred>>
Relock(t) ==
  /\ fmutex = NULL
  /\ Go(t, "woken", "loop")
  /\ fmutex' = t
  /\ UNCHANGED <<rqfrozen, barred>>

-----------------------------------------------------------------------------
(* reqbake                                                                 *)
CallBake(t) ==
  /\ rqfrozen
  /\ Go(t, "user", "bake")
  /\ UNCHANGED <<fmutex, rqfrozen, barred>>

Clear(t) ==
  /\ Go(t, "bake", "broadcast")
  /\ rqfrozen' = FALSE
  /\ barred' = {}
  /\ UNCHANGED fmutex

Signal(t) ==
  /\ pc[t] = "broadcast"
  /\ LET asleep == {s \in Threads : pc[s] = "asleep"} IN
     IF asleep = {} THEN pc' = [pc EXCEPT ![t] = "user"]
     ELSE \E s \in asleep : pc' = [pc EXCEPT ![t] = "user", ![s] = "woken"]
  /\ UNCHANGED <<fmutex, rqfrozen, barred>>
Broadcast(t) ==
  /\ pc[t] = "broadcast"
  /\ pc' = [s \in Threads |-> CASE s = t -> "user"
                                [] pc[s] = "asleep" -> "woken"
                                [] OTHER -> pc[s]]
  /\ UNCHANGED <<fmutex, rqfrozen, barred>>

(* What a thread does in a call, once there.                               *)
Inside(t) ==
  \/ Test(t) \/ Freeze(t)
  \/ Lock(t) \/ LoopWait(t) \/ LoopLeave(t) \/ Sleep(t) \/ Relock(t)
  \/ Clear(t) \/ Broadcast(t)

Next ==
  \/ \E t \in Threads : Inside(t) \/ WakeUnasked(t) \/ CallFreeze(t)
  \/ \E t \in Tasks : Enter(t)
  \/ \E t \in Bakers : CallBake(t)

Spec == Init /\ [][Next]_vars

(* The scheduler does not abandon a thread that can run; nobody has to     *)
(* freeze or bake, and no wait has to end without a broadcast.             *)
FairSpec == Spec /\ \A t \in Threads : WF_vars(Inside(t))

-----------------------------------------------------------------------------
(* TypeOK: in particular fmutex is held exactly by a thread that is        *)
(* between its lock and its wait or its unlock.                            *)
TypeOK ==
  /\ pc \in [Threads -> Locations]
  /\ fmutex \in Threads \cup {NULL}
  /\ rqfrozen \in BOOLEAN
  /\ barred \subseteq Threads
  /\ \A t \in Threads : pc[t] \in {"loop", "about"} <=> fmutex = t

Baking == \E t \in Threads : pc[t] = "broadcast"
Stuck(t) == pc[t] \in {"about", "asleep"}

(* OneMissed: the broadcast of reqbake, which does not hold fmutex, can    *)
(* miss a task, but never two: once the system runs again and every        *)
(* broadcast is done, at most one thread is in pthread_cond_wait.          *)
OneMissed ==
  ~rqfrozen /\ ~Baking
    => \A s, t \in Threads : Stuck(s) /\ Stuck(t) => s = t

(* StaysFrozen: a thread that found the system frozen, or froze it, does   *)
(* not return before reqbake has cleared that freeze (rqfreeze.8), even if *)
(* its wait ends unasked.                                                  *)
StaysFrozen ==
  [][\A t \in Threads : t \in barred => pc'[t] # "user"]_vars

(* OneOfTwoThaws: when the last freeze is over, of any two tasks one comes *)
(* back to the user's code again and again.                                *)
Thaws(t) == <>[]~rqfrozen => []<>(pc[t] = "user")
OneOfTwoThaws == \A s, t \in Tasks : s = t \/ Thaws(s) \/ Thaws(t)

(* AllThaw: they all do (rqbake.8, "The tasks running when rqfreeze was    *)
(* called are made running again").                                        *)
AllThaw == \A t \in Tasks : Thaws(t)

-----------------------------------------------------------------------------
(* What a thread in barred stands for: the freeze is still the one it met, *)
(* and it is in the loop.                                                  *)
Barred ==
  \A t \in barred :
    rqfrozen /\ pc[t] \in {"lock", "loop", "about", "asleep", "woken"}

IInv == TypeOK /\ OneMissed /\ Barred
=============================================================================
