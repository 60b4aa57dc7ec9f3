---------------------------- MODULE MCDelayList -----------------------------
(* Small instances of DelayList for TLC: two or three tasks and a short    *)
(* unsigned short.                                                         *)
EXTENDS DelayList, TLC

CONSTANTS t1, t2, t3

Symmetry == Permutations({t1, t2, t3})

(* The delay of a task outside of the list is never read: reqwait sets it. *)
Read == <<dlist, [i \in 1..Len(dlist) |-> delay[dlist[i]]], state, timer,
          queued, delayer, fault, want, age,
          late>>
=============================================================================
