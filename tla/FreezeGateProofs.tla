-------------------------- MODULE FreezeGateProofs --------------------------
(* Proofs that the safety properties of FreezeGate hold for any threads,   *)
(* tasks and bakers: IInv is inductive.                                    *)
EXTENDS FreezeGate, TLAPS

(* Before any call the invariant holds.                                    *)
LEMMA InitInv == Init => IInv
BY FreezeAssumption DEF Init, IInv, TypeOK, OneMissed, Barred, Stuck, Locations

(* A step of one thread that leaves the flag alone, wakes nobody and lets  *)
(* nobody be stuck that was not.                                           *)
LEMMA PassInv ==
  ASSUME IInv, NEW t \in Threads,
         \/ Enter(t) \/ Test(t) \/ CallFreeze(t) \/ Lock(t) \/ LoopLeave(t)
         \/ WakeUnasked(t) \/ Relock(t) \/ CallBake(t)
  PROVE  IInv'
<1>1. TypeOK'
  BY FreezeAssumption
  DEF IInv, TypeOK, Locations, Threads, Go, Enter, Test, CallFreeze, Lock,
      LoopLeave, WakeUnasked, Relock, CallBake
<1>2. /\ UNCHANGED rqfrozen
      /\ Baking' <=> Baking
      /\ \A s \in Threads : Stuck(s)' => Stuck(s)
  BY DEF IInv, TypeOK, Go, Enter, Test, CallFreeze, Lock, LoopLeave,
         WakeUnasked, Relock, CallBake, Baking, Stuck
<1>3. OneMissed'
  BY <1>2 DEF IInv, OneMissed
<1>4. Barred'
  BY <1>2
  DEF IInv, TypeOK, Barred, Go, Enter, Test, CallFreeze, Lock, LoopLeave,
      WakeUnasked, Relock, CallBake
<1> QED
  BY <1>1, <1>3, <1>4 DEF IInv

(* A frozen system has nothing to show for OneMissed.                      *)
LEMMA FreezeInv ==
  ASSUME IInv, NEW t \in Threads, Freeze(t) \/ LoopWait(t)
  PROVE  IInv'
<1>1. TypeOK'
  BY FreezeAssumption DEF IInv, TypeOK, Locations, Threads, Go, Freeze, LoopWait
<1>2. OneMissed'
  BY DEF Freeze, LoopWait, OneMissed
<1>3. Barred'
  BY DEF IInv, TypeOK, Barred, Go, Freeze, LoopWait
<1> QED
  BY <1>1, <1>2, <1>3 DEF IInv

(* A thread that falls asleep was about to, and stuck already.             *)
LEMMA SleepInv ==
  ASSUME IInv, NEW t \in Threads, Sleep(t)
  PROVE  IInv'
<1>1. TypeOK'
  BY FreezeAssumption DEF IInv, TypeOK, Locations, Threads, Go, Sleep
<1>2. /\ UNCHANGED rqfrozen
      /\ Baking' <=> Baking
      /\ \A s \in Threads : Stuck(s)' => Stuck(s)
  BY DEF IInv, TypeOK, Go, Sleep, Baking, Stuck
<1>3. OneMissed'
  BY <1>2 DEF IInv, OneMissed
<1>4. Barred'
  BY DEF IInv, TypeOK, Barred, Go, Sleep
<1> QED
  BY <1>1, <1>3, <1>4 DEF IInv

(* Once the flag is cleared a broadcast is to come.                        *)
LEMMA ClearInv ==
  ASSUME IInv, NEW t \in Threads, Clear(t)
  PROVE  IInv'
<1>1. TypeOK'
  BY FreezeAssumption DEF IInv, TypeOK, Locations, Threads, Go, Clear
<1>2. Baking'
  BY DEF IInv, TypeOK, Go, Clear, Baking
<1>3. OneMissed' /\ Barred'
  BY <1>2 DEF OneMissed, Barred, Clear
<1> QED
  BY <1>1, <1>3 DEF IInv

(* The broadcast wakes all that sleep: only the holder of fmutex can be    *)
(* about to.                                                               *)
LEMMA BroadcastInv ==
  ASSUME IInv, NEW t \in Threads, Broadcast(t)
  PROVE  IInv'
<1>1. /\ pc[t] = "broadcast" /\ UNCHANGED <<fmutex, rqfrozen, barred>>
      /\ pc' \in [Threads -> Locations]
      /\ \A s \in Threads :
           pc'[s] = IF s = t THEN "user"
                    ELSE IF pc[s] = "asleep" THEN "woken" ELSE pc[s]
  BY DEF IInv, TypeOK, Broadcast, Locations
<1>2. TypeOK'
  BY <1>1 DEF IInv, TypeOK
<1>3. \A s \in Threads : Stuck(s)' => fmutex = s
  BY <1>1 DEF IInv, TypeOK, Stuck
<1>4. OneMissed'
  BY <1>3 DEF OneMissed
<1>5. Barred'
  BY <1>1 DEF IInv, TypeOK, Barred
<1> QED
  BY <1>2, <1>4, <1>5 DEF IInv

(* IInv is inductive, for any number of threads.                           *)
THEOREM GateInvariance == Spec => []IInv
<1>1. IInv /\ [Next]_vars => IInv'
  <2> SUFFICES ASSUME IInv, [Next]_vars PROVE IInv'
    OBVIOUS
  <2>1. CASE UNCHANGED vars
    BY <2>1 DEF vars, IInv, TypeOK, OneMissed, Baking, Stuck, Barred
  <2>2. ASSUME NEW t \in Threads, Inside(t) \/ WakeUnasked(t) \/ CallFreeze(t)
        PROVE  IInv'
    BY <2>2, PassInv, FreezeInv, SleepInv, ClearInv, BroadcastInv DEF Inside
  <2>3. ASSUME NEW t \in Tasks, Enter(t) PROVE IInv'
    BY <2>3, PassInv DEF Threads
  <2>4. ASSUME NEW t \in Bakers, CallBake(t) PROVE IInv'
    BY <2>4, FreezeAssumption, PassInv
  <2> QED
    BY <2>1, <2>2, <2>3, <2>4 DEF Next
<1> QED
  BY <1>1, InitInv, PTL DEF Spec

(* fmutex is held exactly between a lock and the wait or the unlock that   *)
(* ends it, and by one thread.                                             *)
THEOREM GateTypeCorrect == Spec => []TypeOK
BY GateInvariance, PTL DEF IInv

(* The broadcast of reqbake misses at most one thread, because a thread    *)
(* holds fmutex from its test of rqfrozen to its wait.                     *)
THEOREM BakeMissesOne == Spec => []OneMissed
BY GateInvariance, PTL DEF IInv

(* A thread stopped by a freeze stays until a reqbake clears that freeze.  *)
THEOREM FreezeHolds == Spec => StaysFrozen
<1> DEFINE Held == \A t \in Threads : t \in barred => pc'[t] # "user"
<1>1. IInv /\ [Next]_vars => [Held]_vars
  <2> SUFFICES ASSUME IInv, Next, NEW t \in Threads, t \in barred
               PROVE  pc'[t] # "user"
    BY DEF Held
  <2>1. rqfrozen /\ pc[t] \in {"lock", "loop", "about", "asleep", "woken"}
    BY DEF IInv, Barred
  <2>2. ASSUME NEW s \in Threads, Broadcast(s) PROVE pc'[t] # "user"
    BY <2>1, <2>2 DEF Broadcast, IInv, TypeOK
  <2>3. ASSUME NEW s \in Threads,
               \/ Inside(s) /\ ~Broadcast(s)
               \/ WakeUnasked(s) \/ CallFreeze(s) \/ Enter(s) \/ CallBake(s)
        PROVE  pc'[t] # "user"
    <3>1. CASE s = t
      BY <2>1, <2>3, <3>1
      DEF Inside, Go, IInv, TypeOK, Test, Freeze, Lock, LoopWait, LoopLeave,
          Sleep, Relock, Clear, WakeUnasked, CallFreeze, Enter, CallBake
    <3>2. CASE s # t
      BY <2>1, <2>3, <3>2
      DEF Inside, Go, IInv, TypeOK, Test, Freeze, Lock, LoopWait, LoopLeave,
          Sleep, Relock, Clear, WakeUnasked, CallFreeze, Enter, CallBake
    <3> QED
      BY <3>1, <3>2
  <2> QED
    BY <2>2, <2>3, FreezeAssumption DEF Next, Inside, Threads
<1> QED
  BY <1>1, GateInvariance, PTL DEF Spec, StaysFrozen, Held
=============================================================================
