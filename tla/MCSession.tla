----------------------------- MODULE MCSession ------------------------------
(* A game of a few rounds for TLC, and the arithmetic of time, which       *)
(* ytest.c uses for its measures, over times of a few short seconds.       *)
EXTENDS Session, Time

Times == [tv_sec : 0..3, tv_nsec : 0..NsPerS - 1]

(* The theorems of SessionProofs that are about two times, on small ones.     *)
ASSUME TimesChecked ==
  \A a, b \in Times :
    /\ tsAdd(a, b) \in Timespecs /\ Ns(tsAdd(a, b)) = Ns(a) + Ns(b)
    /\ tsSubtract(a, b) \in Timespecs
    /\ Ns(tsSubtract(a, b)) = IF Ns(a) > Ns(b) THEN Ns(a) - Ns(b) ELSE 0
    /\ tsCompare(a, b) = -1 <=> Ns(a) < Ns(b)
    /\ tsCompare(a, b) = 0 <=> a = b
    /\ Ns(a) <= Ns(b) =>
         \A s \in Times : Elapsed(s, a) <= Elapsed(s, b)

ASSUME MillisecondsChecked ==
  \A t \in 0..Words - 1 : Ts2Ms(Ms2Ts(t)) = t
=============================================================================
