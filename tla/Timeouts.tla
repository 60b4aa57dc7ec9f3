------------------------------ MODULE Timeouts ------------------------------
(* What the delay list of YRmx promises: every task in a timed wait has    *)
(* its own count of ticks left; beginning, ending or expiring one wait     *)
(* never touches the count of another, and only a count of zero expires.   *)
(* A tick that finds an expired wait, which is still to be collected, or   *)
(* that comes when nothing counts, is lost for all of them.                *)
EXTENDS Integers

CONSTANTS
  Waiters,  \* the tasks
  Longest   \* the longest delay

VARIABLE left  \* ticks left of each wait; Out outside of one

Out == -1
Waits(w) == left[w] # Out

TInit == left = [w \in Waiters |-> Out]

Begin(w, d) ==
  /\ ~Waits(w)
  /\ left' = [left EXCEPT ![w] = d]

(* A message came.                                                         *)
End(w) ==
  /\ Waits(w)
  /\ left' = [left EXCEPT ![w] = Out]

Expired(w) ==
  /\ left[w] = 0
  /\ left' = [left EXCEPT ![w] = Out]

Count ==
  /\ \A w \in Waiters : left[w] # 0
  /\ left' = [w \in Waiters |-> IF Waits(w) THEN left[w] - 1 ELSE Out]

TNext ==
  \/ \E w \in Waiters :
       \/ \E d \in 1..Longest : Begin(w, d)
       \/ End(w)
       \/ Expired(w)
  \/ Count

TSpec == TInit /\ [][TNext]_left
=============================================================================
