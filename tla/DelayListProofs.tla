-------------------------- MODULE DelayListProofs ---------------------------
(***************************************************************************)
(* Proofs about the timed waits, for any number of tasks, any delays and   *)
(* any longest one: what the sums of the list's differences are tells, in  *)
(* every state, what is left of each delay, and together with the ticks    *)
(* that a task has seen that is never less than what it asked for.         *)
(***************************************************************************)
EXTENDS DelayList, DeltasProofs

L == Left(dlist, delay, Tasks)

(* The ticks seen and those left make up the delay, or more, when a tick   *)
(* came that was not counted.                                              *)
Counts ==
  \A t \in Range(dlist) :
    /\ L[t] \in 0..want[t]
    /\ L[t] + age[t] >= want[t]
    /\ t \notin late /\ want[t] < Never => L[t] + age[t] = want[t]

DInv == TypeOK /\ Called /\ Counts /\ NeverEarly /\ OnTime

-----------------------------------------------------------------------------
LEMMA TheList ==
  ASSUME TypeOK, DelayAssumption
  PROVE  /\ IsList(dlist, delay, Tasks, Never)
         /\ Range(dlist) \subseteq Tasks
         /\ L = [t \in Tasks |-> L[t]]
         /\ \A t \in Tasks : t \notin Range(dlist) => L[t] = -1
<1>1. IsList(dlist, delay, Tasks, Never)
  BY DEF TypeOK, DelayAssumption, IsList
<1>2. Range(dlist) \subseteq Tasks
  BY DEF TypeOK
<1> QED
  BY <1>1, <1>2, LeftFacts DEF L

(* What each operation on the list does to what is left.                   *)
LEMMA Inserting ==
  ASSUME DInv, DelayAssumption, NEW t \in Tasks, NEW d \in Delays, reqwait(t, d)
  PROVE  /\ IsList(dlist', delay', Tasks, Never)
         /\ t \notin Range(dlist) /\ Range(dlist') = Range(dlist) \cup {t}
         /\ L' = [L EXCEPT ![t] = d]
<1>1. t \notin Range(dlist)
  BY DEF DInv, TypeOK, reqwait
<1>2. d \in 0..Never
  BY DEF DelayAssumption
<1>3. IsList(dlist, delay, Tasks, Never)
  BY TheList DEF DInv
<1>4. dlist' = Insertion(dlist, delay, t, d) /\ delay' = Inserted(dlist, delay, t, d)
  BY DEF reqwait, Insert
<1> QED
  BY <1>1, <1>2, <1>3, <1>4, InsertionFacts DEF L

LEMMA Removing ==
  ASSUME DInv, DelayAssumption, NEW t \in Range(dlist), cancel_delay_unsafe(t)
  PROVE  /\ IsList(dlist', delay', Tasks, Never)
         /\ Range(dlist') = Range(dlist) \ {t}
         /\ L' = [L EXCEPT ![t] = -1]
<1>1. IsList(dlist, delay, Tasks, Never)
  BY TheList DEF DInv
<1>2. ASSUME NEW u \in Range(dlist) PROVE L[u] <= Never
  <2>1. u \in Tasks
    BY TheList DEF DInv
  <2>2. want[u] \in 0..Never /\ L[u] \in 0..want[u] /\ Never \in Nat
    BY <2>1 DEF DInv, TypeOK, Counts, DelayAssumption
  <2> QED
    BY <2>2
<1>3. /\ dlist' = RemoveAt(dlist, Position(dlist, t))
      /\ delay' = Removed(dlist, delay, t, Never + 1)
  BY DEF cancel_delay_unsafe
<1> QED
  BY <1>1, <1>2, <1>3, RemovalFacts DEF L

LEMMA Ticking ==
  ASSUME DInv, DelayAssumption, Tick
  PROVE  /\ IsList(dlist', delay', Tasks, Never) /\ dlist' = dlist
         /\ L' = IF FirstDelay \in {0, Never} THEN L
                 ELSE [u \in Tasks |-> IF u \in Range(dlist) THEN L[u] - 1 ELSE -1]
<1>1. IsList(dlist, delay, Tasks, Never) /\ dlist' = dlist
  BY TheList DEF DInv, Tick
<1>2. CASE FirstDelay \in {0, Never}
  BY <1>1, <1>2 DEF Tick, L
<1>3. CASE FirstDelay \notin {0, Never}
  <2>1. dlist # << >> /\ delay[Head(dlist)] # 0
    BY <1>1, <1>3, FirstLeft DEF FirstDelay, DelayAssumption
  <2>2. delay' = [delay EXCEPT ![Head(dlist)] = @ - 1]
    BY <1>3 DEF Tick
  <2> DEFINE w == [delay EXCEPT ![Head(dlist)] = @ - 1]
  <2>3. /\ IsList(dlist, w, Tasks, Never)
        /\ Left(dlist, w, Tasks) =
             [u \in Tasks |-> IF u \in Range(dlist)
                              THEN Left(dlist, delay, Tasks)[u] - 1 ELSE -1]
    BY <1>1, <2>1, CountingFacts
  <2>4. delay' = w
    BY <2>2
  <2> HIDE DEF w
  <2> QED
    BY <1>1, <1>3, <2>3, <2>4 DEF L
<1> QED
  BY <1>2, <1>3

-----------------------------------------------------------------------------
LEMMA InitDInv == DelayAssumption /\ Init => DInv
<1> SUFFICES ASSUME DelayAssumption, Init PROVE DInv
  OBVIOUS
<1>1. dlist = << >> /\ Range(dlist) = {} /\ FirstDelay = Never
  BY DEF Init, Range, FirstDelay, First
<1>2. TypeOK
  <2>1. dlist \in Seq(Tasks) /\ IsInjective(dlist)
    BY <1>1 DEF IsInjective
  <2>2. \A t \in Tasks : state[t] = "running"
    BY DEF Init
  <2>3. Range(dlist) = {t \in Tasks : state[t] \in {"delayed", "taken"}}
    BY <1>1, <2>2
  <2>4. 0 \in 0..Never /\ 0 \in 0..Never + 1
    BY DEF DelayAssumption
  <2> QED
    BY <2>1, <2>3, <2>4 DEF Init, TypeOK, States
<1>3. Called /\ Counts /\ NeverEarly /\ OnTime
  BY <1>1 DEF Init, Called, Counts, NeverEarly, OnTime, DelayAssumption
<1> QED
  BY <1>2, <1>3 DEF DInv

(* A list and what is left that are those of before.                       *)
LEMMA SameList ==
  ASSUME UNCHANGED <<dlist, delay>>
  PROVE  Range(dlist') = Range(dlist) /\ L' = L /\ FirstDelay' = FirstDelay
BY DEF L, FirstDelay

(* After a step, too, the first delay is zero when somebody has nothing    *)
(* left.                                                                   *)
LEMMA FirstAfter ==
  ASSUME DelayAssumption, IsList(dlist', delay', Tasks, Never)
  PROVE  FirstDelay' = 0 <=> \E u \in Range(dlist') : L'[u] = 0
BY FirstLeft DEF DelayAssumption, FirstDelay, L

(* Called, when somebody who has nothing left had nothing left before.     *)
LEMMA StillCalled ==
  ASSUME DInv, DelayAssumption, IsList(dlist', delay', Tasks, Never),
         (\E u \in Range(dlist') : L'[u] = 0) => \E u \in Range(dlist) : L[u] = 0,
         UNCHANGED <<timer, queued, delayer>>
  PROVE  Called'
<1>1. FirstDelay = 0 <=> \E u \in Range(dlist) : L[u] = 0
  BY TheList, FirstLeft DEF DInv, DelayAssumption, FirstDelay, L
<1>2. FirstDelay' = 0 <=> \E u \in Range(dlist') : L'[u] = 0
  BY FirstAfter
<1> QED
  BY <1>1, <1>2 DEF DInv, Called

LEMMA ReqwaitStep ==
  ASSUME DInv, DelayAssumption, NEW t \in Tasks, NEW d \in Delays, reqwait(t, d)
  PROVE  DInv'
<1>1. /\ IsList(dlist', delay', Tasks, Never)
      /\ t \notin Range(dlist) /\ Range(dlist') = Range(dlist) \cup {t}
      /\ L' = [L EXCEPT ![t] = d]
  BY Inserting
<1>2. d \in 1..Never /\ d \in 0..Never /\ Never \in Nat /\ 0 \in 0..Never + 1
  BY DEF DelayAssumption
<1>3. Range(dlist) \subseteq Tasks /\ L = [u \in Tasks |-> L[u]]
  BY TheList DEF DInv
<1>4. TypeOK'
  <2>1. Range(dlist') = {u \in Tasks : state'[u] \in {"delayed", "taken"}}
    BY <1>1 DEF DInv, TypeOK, reqwait
  <2>2. dlist' \in Seq(Tasks) /\ IsInjective(dlist') /\ delay' \in [Tasks -> 0..Never]
    BY <1>1 DEF IsList
  <2>3. state' \in [Tasks -> States]
    BY DEF DInv, TypeOK, reqwait, States
  <2> QED
    BY <1>2, <2>1, <2>2, <2>3 DEF DInv, TypeOK, reqwait
<1>5. Called'
  BY <1>1, <1>2, <1>3, StillCalled DEF reqwait
<1>6. Counts'
  <2>1. /\ L'[t] = d /\ want'[t] = d /\ age'[t] = 0
    BY <1>1, <1>3 DEF DInv, TypeOK, reqwait
  <2>2. ASSUME NEW u \in Range(dlist), u # t
        PROVE  /\ u \in Tasks /\ L'[u] = L[u]
               /\ want'[u] = want[u] /\ age'[u] = age[u] /\ (u \in late <=> u \in late')
    BY <1>1, <1>3, <2>2 DEF DInv, TypeOK, reqwait
  <2>3. ASSUME NEW u \in Range(dlist), u # t
        PROVE  /\ L'[u] \in 0..want'[u] /\ L'[u] + age'[u] >= want'[u]
               /\ u \notin late' /\ want'[u] < Never => L'[u] + age'[u] = want'[u]
    BY <2>2, <2>3 DEF DInv, Counts
  <2>4. /\ L'[t] \in 0..want'[t] /\ L'[t] + age'[t] >= want'[t]
        /\ L'[t] + age'[t] = want'[t]
    BY <1>2, <2>1
  <2> QED
    BY <1>1, <2>3, <2>4 DEF Counts
<1>7. NeverEarly' /\ OnTime'
  BY DEF DInv, TypeOK, NeverEarly, OnTime, reqwait
<1> QED
  BY <1>4, <1>5, <1>6, <1>7 DEF DInv

LEMMA SendTakeStep ==
  ASSUME DInv, DelayAssumption, NEW t \in Tasks, SendTake(t) PROVE DInv'
<1>1. Range(dlist') = Range(dlist) /\ L' = L /\ FirstDelay' = FirstDelay
  BY SameList DEF SendTake
<1>2. TypeOK'
  BY DEF DInv, TypeOK, States, SendTake, history
<1>3. Called' /\ Counts'
  BY <1>1 DEF DInv, Called, Counts, SendTake, history
<1>4. NeverEarly' /\ OnTime'
  BY DEF DInv, TypeOK, NeverEarly, OnTime, SendTake, history
<1> QED
  BY <1>2, <1>3, <1>4 DEF DInv

LEMMA ReturnStep ==
  ASSUME DInv, DelayAssumption, NEW t \in Tasks, Return(t) PROVE DInv'
<1>1. Range(dlist') = Range(dlist) /\ L' = L /\ FirstDelay' = FirstDelay
  BY SameList DEF Return
<1>2. TypeOK'
  BY DEF DInv, TypeOK, States, Return, DelayAssumption
<1>3. Called'
  BY <1>1 DEF DInv, Called, Return
<1>4. Counts'
  <2>1. t \notin Range(dlist) /\ Range(dlist) \subseteq Tasks
    BY DEF DInv, TypeOK, Return
  <2>2. \A u \in Range(dlist) :
          want'[u] = want[u] /\ age'[u] = age[u] /\ (u \in late <=> u \in late')
    BY <2>1 DEF DInv, TypeOK, Return
  <2> QED
    BY <1>1, <2>2 DEF DInv, Counts
<1>5. NeverEarly' /\ OnTime'
  BY DEF DInv, TypeOK, NeverEarly, OnTime, Return
<1> QED
  BY <1>2, <1>3, <1>4, <1>5 DEF DInv

(* A task that leaves the list takes nobody's count with it.               *)
LEMMA RemovingCounts ==
  ASSUME DInv, DelayAssumption, NEW t \in Range(dlist), cancel_delay_unsafe(t),
         UNCHANGED history
  PROVE  Counts'
<1>1. /\ Range(dlist') = Range(dlist) \ {t}
      /\ L' = [L EXCEPT ![t] = -1]
  BY Removing
<1>2. L = [u \in Tasks |-> L[u]] /\ Range(dlist) \subseteq Tasks
  BY TheList DEF DInv
<1>3. \A u \in Range(dlist') : L'[u] = L[u] /\ u \in Range(dlist)
  BY <1>1, <1>2
<1> QED
  BY <1>3 DEF DInv, Counts, history

LEMMA SendCancelStep ==
  ASSUME DInv, DelayAssumption, NEW t \in Tasks, SendCancel(t) PROVE DInv'
<1>1. t \in Range(dlist) /\ cancel_delay_unsafe(t)
  BY DEF DInv, TypeOK, SendCancel
<1>2. /\ IsList(dlist', delay', Tasks, Never)
      /\ Range(dlist') = Range(dlist) \ {t}
      /\ L' = [L EXCEPT ![t] = -1]
  BY <1>1, Removing
<1>3. L = [u \in Tasks |-> L[u]] /\ Range(dlist) \subseteq Tasks
  BY TheList DEF DInv
<1>4. TypeOK'
  <2>1. state' \in [Tasks -> States]
    BY DEF DInv, TypeOK, SendCancel, States
  <2>2. Range(dlist') = {u \in Tasks : state'[u] \in {"delayed", "taken"}}
    BY <1>2 DEF DInv, TypeOK, SendCancel
  <2> QED
    BY <1>2, <2>1, <2>2 DEF DInv, TypeOK, SendCancel, IsList, history
<1>5. Called'
  <2>1. \A u \in Range(dlist') : L'[u] = L[u] /\ u \in Range(dlist)
    BY <1>2, <1>3
  <2> QED
    BY <1>2, <2>1, StillCalled DEF SendCancel
<1>6. Counts'
  BY <1>1, RemovingCounts DEF SendCancel
<1>7. NeverEarly' /\ OnTime'
  BY DEF DInv, TypeOK, NeverEarly, OnTime, SendCancel, history
<1> QED
  BY <1>4, <1>5, <1>6, <1>7 DEF DInv

(* The first task expires: it has nothing left, so it has seen enough ticks. *)
LEMMA DelayExpireStep ==
  ASSUME DInv, DelayAssumption, DelayExpire PROVE DInv'
<1> DEFINE t == Head(dlist)
<1>1. /\ dlist # << >> /\ t \in Range(dlist) /\ t \in Tasks /\ L[t] = 0
  <2>1. FirstDelay # Never
    BY DEF DelayExpire, DelayAssumption
  <2>2. IsList(dlist, delay, Tasks, Never)
    BY TheList DEF DInv
  <2>3. dlist # << >> /\ t \in Range(dlist) /\ L[t] = FirstDelay
    BY <2>1, <2>2, FirstLeft DEF FirstDelay, L, DelayAssumption
  <2> QED
    BY <2>3, TheList DEF DelayExpire, DInv
<1> HIDE DEF t
<1>2. CASE state[t] # "delayed"
  <2>1. UNCHANGED <<dlist, delay, state, timer, queued, delayer, history>> /\ fault' = TRUE
    BY <1>2 DEF DelayExpire, t
  <2>2. Range(dlist') = Range(dlist) /\ L' = L /\ FirstDelay' = FirstDelay
    BY <2>1, SameList
  <2> QED
    BY <2>1, <2>2
    DEF DInv, TypeOK, Called, Counts, NeverEarly, OnTime, history
<1>3. CASE state[t] = "delayed"
  <2>1. /\ cancel_delay_unsafe(t) /\ state' = [state EXCEPT ![t] = "timedout"]
        /\ UNCHANGED <<timer, queued, delayer, fault, history>>
    BY <1>3 DEF DelayExpire, t
  <2>2. /\ IsList(dlist', delay', Tasks, Never)
        /\ Range(dlist') = Range(dlist) \ {t}
        /\ L' = [L EXCEPT ![t] = -1]
    BY <1>1, <2>1, Removing
  <2>3. L = [u \in Tasks |-> L[u]] /\ Range(dlist) \subseteq Tasks
    BY TheList DEF DInv
  <2>4. TypeOK'
    <3>1. state' \in [Tasks -> States]
      BY <2>1 DEF DInv, TypeOK, States
    <3>2. Range(dlist') = {u \in Tasks : state'[u] \in {"delayed", "taken"}}
      BY <1>1, <2>1, <2>2 DEF DInv, TypeOK
    <3> QED
      BY <2>1, <2>2, <3>1, <3>2 DEF DInv, TypeOK, IsList, history
  <2>5. Called'
    <3>1. \A u \in Range(dlist') : L'[u] = L[u] /\ u \in Range(dlist)
      BY <2>2, <2>3
    <3> QED
      BY <2>1, <2>2, <3>1, StillCalled
  <2>6. Counts'
    BY <1>1, <2>1, RemovingCounts
  <2>7. /\ age[t] >= want[t]
        /\ t \notin late /\ want[t] < Never => age[t] = want[t]
    <3>1. age[t] \in Int
      BY <1>1 DEF DInv, TypeOK, DelayAssumption
    <3> QED
      BY <1>1, <3>1 DEF DInv, Counts
  <2>8. NeverEarly' /\ OnTime'
    BY <1>1, <2>1, <2>7 DEF DInv, TypeOK, NeverEarly, OnTime, history
  <2> QED
    BY <2>4, <2>5, <2>6, <2>8 DEF DInv
<1> QED
  BY <1>2, <1>3

(* A tick: counted for all, or for none of those that can expire; in that  *)
(* case the last expiry has not been dealt with, so all of them are late.  *)
LEMMA TickStep ==
  ASSUME DInv, DelayAssumption, Tick PROVE DInv'
<1>1. /\ IsList(dlist', delay', Tasks, Never) /\ dlist' = dlist
      /\ L' = IF FirstDelay \in {0, Never} THEN L
              ELSE [u \in Tasks |-> IF u \in Range(dlist) THEN L[u] - 1 ELSE -1]
  BY Ticking
<1>2. /\ IsList(dlist, delay, Tasks, Never)
      /\ L = [u \in Tasks |-> L[u]] /\ Range(dlist) \subseteq Tasks
  BY TheList DEF DInv
<1>3. /\ FirstDelay \in 0..Never /\ Never \in Nat /\ Never # 0
      /\ \A u \in Range(dlist) : L[u] \in Nat /\ L[u] >= FirstDelay
  BY <1>2, FirstLeft DEF FirstDelay, L, DelayAssumption
<1>4. /\ age' = Older /\ want' = want /\ state' = state
      /\ late' = IF Settled THEN late ELSE late \cup Range(dlist)
      /\ UNCHANGED <<queued, delayer, fault>> /\ timer = "sleep"
      /\ timer' = IF FirstDelay \in {0, 1} \ {Never} THEN "isnd" ELSE "sleep"
  BY DEF Tick
<1>5. ASSUME NEW u \in Tasks
      PROVE  /\ want[u] \in 0..Never /\ age[u] \in 0..Never + 1
             /\ age'[u] = IF u \in Range(dlist) /\ age[u] <= want[u]
                          THEN age[u] + 1 ELSE age[u]
  BY <1>4 DEF DInv, TypeOK, Older
<1>6. TypeOK'
  <2>1. \A u \in Tasks : age'[u] \in 0..Never + 1
    BY <1>3, <1>5
  <2>2. age' \in [Tasks -> 0..Never + 1]
    BY <1>4, <2>1 DEF Older
  <2>3. late' \subseteq Tasks
    BY <1>2, <1>4 DEF DInv, TypeOK
  <2> QED
    BY <1>1, <1>4, <2>2, <2>3 DEF DInv, TypeOK, IsList
<1>7. Called'
  <2>1. ASSUME FirstDelay' = 0 PROVE timer' = "isnd"
    <3>1. FirstDelay' = 0 <=> \E u \in Range(dlist') : L'[u] = 0
      BY <1>1, FirstAfter
    <3>2. PICK u \in Range(dlist) : L'[u] = 0
      BY <1>1, <2>1, <3>1
    <3>3. CASE FirstDelay \in {0, Never}
      BY <1>1, <1>3, <1>4, <3>2, <3>3
    <3>4. CASE FirstDelay \notin {0, Never}
      <4>1. L[u] = 1
        BY <1>1, <1>2, <1>3, <3>2, <3>4
      <4>2. FirstDelay = 1
        BY <1>3, <3>4, <4>1
      <4> QED
        BY <1>4, <3>4, <4>2
    <3> QED
      BY <3>3, <3>4
  <2> QED
    BY <2>1 DEF Called
<1>8. Counts'
  <2> SUFFICES ASSUME NEW u \in Range(dlist)
               PROVE  /\ L'[u] \in 0..want[u] /\ L'[u] + age'[u] >= want[u]
                      /\ u \notin late' /\ want[u] < Never
                           => L'[u] + age'[u] = want[u]
    BY <1>1, <1>4 DEF Counts
  <2>1. /\ u \in Tasks /\ want[u] \in 0..Never /\ age[u] \in 0..Never + 1
        /\ age'[u] = IF age[u] <= want[u] THEN age[u] + 1 ELSE age[u]
    BY <1>2, <1>5
  <2>2. /\ L[u] \in 0..want[u] /\ L[u] + age[u] >= want[u] /\ L[u] >= FirstDelay
        /\ u \notin late /\ want[u] < Never => L[u] + age[u] = want[u]
    BY <1>3 DEF DInv, Counts
  <2>3. CASE FirstDelay = 0
    <3>1. u \in late'
      BY <1>4, <2>3 DEF DInv, Called, Settled
    <3> QED
      BY <1>1, <2>1, <2>2, <2>3, <3>1
  <2>4. CASE FirstDelay = Never
    <3>1. want[u] = Never
      BY <1>3, <2>1, <2>2, <2>4
    <3> QED
      BY <1>1, <1>3, <2>1, <2>2, <2>4, <3>1
  <2>5. CASE FirstDelay \notin {0, Never}
    <3>1. L'[u] = L[u] - 1 /\ L[u] >= 1
      BY <1>1, <1>3, <2>1, <2>2, <2>5
    <3>2. u \notin late' => u \notin late
      BY <1>4
    <3> QED
      BY <1>3, <2>1, <2>2, <3>1, <3>2
  <2> QED
    BY <2>3, <2>4, <2>5
<1>9. NeverEarly' /\ OnTime'
  <2>1. ASSUME NEW u \in Tasks, state[u] = "timedout"
        PROVE  age'[u] = age[u] /\ (u \in late' <=> u \in late)
    <3>1. u \notin Range(dlist)
      BY <2>1 DEF DInv, TypeOK
    <3> QED
      BY <1>4, <1>5, <3>1
  <2> QED
    BY <1>4, <2>1 DEF DInv, NeverEarly, OnTime
<1> QED
  BY <1>6, <1>7, <1>8, <1>9 DEF DInv

(* The rest of the threads' steps leave the list alone.                    *)
LEMMA CalledStep ==
  ASSUME DInv, DelayAssumption, Isnd \/ DelayTake \/ DelayLock \/ DelayUnlock
  PROVE  DInv'
<1>1. Range(dlist') = Range(dlist) /\ L' = L /\ FirstDelay' = FirstDelay
  BY SameList DEF Isnd, DelayTake, DelayLock, DelayUnlock
<1>2. UNCHANGED <<dlist, delay, state, fault, want, age, late>>
  BY DEF Isnd, DelayTake, DelayLock, DelayUnlock, history
<1>3. TypeOK'
  <2>1. /\ timer' \in {"sleep", "isnd"} /\ queued' \in BOOLEAN
        /\ delayer' \in {"wait", "lock", "loop"}
    BY DEF DInv, TypeOK, Isnd, DelayTake, DelayLock, DelayUnlock
  <2> QED
    BY <1>2, <2>1 DEF DInv, TypeOK
<1>4. Called'
  BY <1>1 DEF DInv, Called, Isnd, DelayTake, DelayLock, DelayUnlock
<1>5. Counts' /\ NeverEarly' /\ OnTime'
  BY <1>1, <1>2 DEF DInv, Counts, NeverEarly, OnTime
<1> QED
  BY <1>3, <1>4, <1>5 DEF DInv

-----------------------------------------------------------------------------
THEOREM Invariance == Spec => []DInv
<1>1. Init => DInv
  BY InitDInv, DelayAssumption
<1>2. DInv /\ [Next]_vars => DInv'
  <2> SUFFICES ASSUME DInv, [Next]_vars PROVE DInv'
    OBVIOUS
  <2> USE DelayAssumption
  <2>1. ASSUME NEW t \in Tasks, NEW d \in Delays, reqwait(t, d) PROVE DInv'
    BY <2>1, ReqwaitStep
  <2>2. ASSUME NEW t \in Tasks, SendTake(t) PROVE DInv'
    BY <2>2, SendTakeStep
  <2>3. ASSUME NEW t \in Tasks, SendCancel(t) PROVE DInv'
    BY <2>3, SendCancelStep
  <2>4. ASSUME NEW t \in Tasks, Return(t) PROVE DInv'
    BY <2>4, ReturnStep
  <2>5. CASE Tick
    BY <2>5, TickStep
  <2>6. CASE DelayExpire
    BY <2>6, DelayExpireStep
  <2>7. CASE Isnd \/ DelayTake \/ DelayLock \/ DelayUnlock
    BY <2>7, CalledStep
  <2>8. CASE UNCHANGED vars
    <3>1. Range(dlist') = Range(dlist) /\ L' = L /\ FirstDelay' = FirstDelay
      BY <2>8, SameList DEF vars
    <3> QED
      BY <2>8, <3>1 DEF DInv, TypeOK, Called, Counts, NeverEarly, OnTime, vars
  <2> QED
    BY <2>1, <2>2, <2>3, <2>4, <2>5, <2>6, <2>7, <2>8 DEF Next, delaytask
<1> QED
  BY <1>1, <1>2, PTL DEF Spec

(* No delay leaves its unsigned short, and nobody is listed twice or while *)
(* not in a timed wait.                                                    *)
THEOREM TypesHold == Spec => []TypeOK
BY Invariance, PTL DEF DInv

(* No timed wait ends before its time (rqwait.8).                          *)
THEOREM NobodyEarly == Spec => []NeverEarly
BY Invariance, PTL DEF DInv

(* None ends after it, when rqtimer and rqdelaytask keep up.               *)
THEOREM EverybodyOnTime == Spec => []OnTime
BY Invariance, PTL DEF DInv

(* rqdelaytask is called for every expired task.                           *)
THEOREM DelayerCalled == Spec => []Called
BY Invariance, PTL DEF DInv

-----------------------------------------------------------------------------
(* Each step is one of the independent counts, or none.                    *)
LEMMA InitTimeouts == Init => TO!TInit
<1> SUFFICES ASSUME Init PROVE L = [t \in Tasks |-> -1]
  BY DEF TO!TInit, TO!Out, L
<1>1. IsList(dlist, delay, Tasks, Never) /\ Range(dlist) = {}
  BY InitDInv, TheList, DelayAssumption DEF DInv, Init, Range
<1>2. /\ L = [t \in Tasks |-> L[t]]
      /\ \A t \in Tasks : t \notin Range(dlist) => L[t] = -1
  BY InitDInv, TheList, DelayAssumption DEF DInv
<1> QED
  BY <1>1, <1>2

LEMMA StepTimeouts ==
  ASSUME DInv, DInv', [Next]_vars PROVE [TO!TNext]_L
<1> USE DelayAssumption
<1>1. /\ L = [u \in Tasks |-> L[u]] /\ Range(dlist) \subseteq Tasks
      /\ IsList(dlist, delay, Tasks, Never)
      /\ \A u \in Tasks : u \notin Range(dlist) => L[u] = -1
  BY TheList DEF DInv
<1>2. /\ \A u \in Range(dlist) : L[u] \in Nat /\ L[u] >= FirstDelay
      /\ FirstDelay = 0 <=> \E u \in Range(dlist) : L[u] = 0
  BY <1>1, FirstLeft DEF FirstDelay, L, DelayAssumption
<1>3. \A u \in Tasks : L[u] # -1 <=> u \in Range(dlist)
  BY <1>1, <1>2
<1>4. ASSUME NEW t \in Tasks, NEW d \in Delays, reqwait(t, d) PROVE TO!Begin(t, d)
  <2>1. L' = [L EXCEPT ![t] = d] /\ t \notin Range(dlist)
    BY <1>4, Inserting
  <2> QED
    BY <1>1, <2>1 DEF TO!Begin, TO!Waits, TO!Out, L
<1>5. ASSUME NEW t \in Tasks, SendCancel(t) PROVE TO!End(t)
  <2>1. t \in Range(dlist) /\ cancel_delay_unsafe(t)
    BY <1>5 DEF DInv, TypeOK, SendCancel
  <2>2. L' = [L EXCEPT ![t] = -1]
    BY <2>1, Removing
  <2> QED
    BY <1>3, <2>1, <2>2 DEF TO!End, TO!Waits, TO!Out, L
<1>6. CASE DelayExpire
  <2>1. Head(dlist) \in Range(dlist) /\ L[Head(dlist)] = 0
    <3>1. FirstDelay = 0 /\ Never # 0
      BY <1>6 DEF DelayExpire, DelayAssumption
    <3> QED
      BY <1>1, <3>1, FirstLeft DEF FirstDelay, L
  <2>2. CASE state[Head(dlist)] # "delayed"
    BY <1>6, <2>2, SameList DEF DelayExpire
  <2>3. CASE state[Head(dlist)] = "delayed"
    <3>1. cancel_delay_unsafe(Head(dlist))
      BY <1>6, <2>3 DEF DelayExpire
    <3>2. L' = [L EXCEPT ![Head(dlist)] = -1]
      BY <2>1, <3>1, Removing
    <3>3. TO!Expired(Head(dlist))
      BY <2>1, <3>2 DEF TO!Expired, TO!Out, L
    <3> QED
      BY <1>1, <2>1, <3>3 DEF TO!TNext
  <2> QED
    BY <2>2, <2>3
<1>7. CASE Tick
  <2>1. L' = IF FirstDelay \in {0, Never} THEN L
             ELSE [u \in Tasks |-> IF u \in Range(dlist) THEN L[u] - 1 ELSE -1]
    BY <1>7, Ticking
  <2>2. ASSUME FirstDelay \notin {0, Never} PROVE TO!Count
    <3>1. \A u \in Tasks : L[u] # 0
      BY <1>1, <1>2, <2>2
    <3>2. L' = [u \in Tasks |-> IF L[u] # -1 THEN L[u] - 1 ELSE -1]
      BY <1>3, <2>1, <2>2
    <3> QED
      BY <3>1, <3>2 DEF TO!Count, TO!Waits, TO!Out, L
  <2> QED
    BY <2>1, <2>2 DEF TO!TNext
<1>8. ASSUME \/ \E t \in Tasks : SendTake(t) \/ Return(t)
             \/ Isnd \/ DelayTake \/ DelayLock \/ DelayUnlock
             \/ UNCHANGED vars
      PROVE  L' = L
  BY <1>8, SameList
  DEF SendTake, Return, Isnd, DelayTake, DelayLock, DelayUnlock, vars
<1>9. ASSUME NEW t \in Tasks, NEW d \in Delays, TO!Begin(t, d) PROVE TO!TNext
  BY <1>9 DEF TO!TNext, DelayAssumption
<1>10. ASSUME NEW t \in Tasks, TO!End(t) PROVE TO!TNext
  BY <1>10 DEF TO!TNext
<1> QED
  BY <1>4, <1>5, <1>6, <1>7, <1>8, <1>9, <1>10 DEF Next, delaytask

(* The list of differences implements a count for each task.               *)
THEOREM Refinement == Spec => ImplementsTimeouts
<1>1. Init => TO!TInit
  BY InitTimeouts
<1>2. DInv /\ DInv' /\ [Next]_vars => [TO!TNext]_L
  BY StepTimeouts
<1> QED
  BY <1>1, <1>2, Invariance, PTL DEF Spec, ImplementsTimeouts, TO!TSpec, L
=============================================================================
