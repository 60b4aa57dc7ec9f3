------------------------------- MODULE Deltas -------------------------------
(***************************************************************************)
(* Lists in which each element's delay counts from the element before it,  *)
(* as both nuclei of YRmx keep their timed waits: s is the list, w the     *)
(* delays of its elements and of others.                                   *)
(***************************************************************************)
EXTENDS Integers, SequencesExt

(* The sums of the first delays: the ticks left for the k-th element.      *)
Sums(s, w) ==
  LET sum[k \in 0..Len(s)] == IF k = 0 THEN 0 ELSE sum[k - 1] + w[s[k]]
  IN sum

(* The first delay, or that of the tail.                                   *)
First(s, w, longest) == IF s = << >> THEN longest ELSE w[Head(s)]

Position(s, t) == CHOOSE i \in 1..Len(s) : s[i] = t

(* What is left for each of T, -1 for one that is not in the list.         *)
Left(s, w, T) ==
  [t \in T |-> IF \E i \in 1..Len(s) : s[i] = t
               THEN Sums(s, w)[Position(s, t)] ELSE -1]

(* reqwait walks the list while the rest of its delay is longer than the   *)
(* delay it finds, so it stops before the first element that is not        *)
(* earlier; the tail, with the longest delay, stops every walk.            *)
Place(s, w, d) ==
  CHOOSE k \in 0..Len(s) :
    /\ k = Len(s) \/ Sums(s, w)[k + 1] >= d
    /\ \A j \in 1..k : Sums(s, w)[j] < d

Insertion(s, w, t, d) == InsertAt(s, Place(s, w, d) + 1, t)

(* The rest is the delay of t, and is taken off the element that follows.  *)
Inserted(s, w, t, d) ==
  LET k == Place(s, w, d)
      rest == d - Sums(s, w)[k]
  IN [u \in DOMAIN w |->
        CASE u = t -> rest
          [] k < Len(s) /\ u = s[k + 1] -> w[u] - rest
          [] OTHER -> w[u]]

(* When t is taken out, its delay is added to the one that follows, below  *)
(* the limit; the tail's does not change.                                  *)
Removed(s, w, t, limit) ==
  LET p == Position(s, t)
  IN IF p = Len(s) THEN w
     ELSE [w EXCEPT ![s[p + 1]] = (@ + w[t]) % limit]
=============================================================================
