------------------------------ MODULE MCSuspend -----------------------------
(* Small instances of Suspend for TLC.                                     *)
EXTENDS Suspend

CONSTANTS t1, t2, t3

(* What comes after a status has become stale is not explored: of such a   *)
(* task only TypeOK says anything.                                         *)
NothingStale == stale = {}
=============================================================================
