-------------------------------- MODULE Time --------------------------------
(***************************************************************************)
(* The arithmetic of time and of priorities in YRmx (ycore.c).  A timespec *)
(* is seconds and nanoseconds; the system time is in milliseconds, in an   *)
(* unsigned int.  C's division drops the fraction, also below zero.        *)
(***************************************************************************)
EXTENDS Integers

CONSTANTS
  NsPerMs, MsPerS,  \* 1000000 and 1000
  Words             \* 2^32, the values of an unsigned int

ASSUME TimeAssumption ==
  NsPerMs \in Nat \ {0} /\ MsPerS \in Nat \ {0} /\ Words \in Nat \ {0}

NsPerS == NsPerMs * MsPerS

Timespecs == [tv_sec : Nat, tv_nsec : 0..NsPerS - 1]

(* The same time, in nanoseconds.                                          *)
Ns(t) == t.tv_sec * NsPerS + t.tv_nsec

Quotient(a, b) == IF a >= 0 THEN a \div b ELSE -((-a) \div b)
Unsigned(n) == n % Words

-----------------------------------------------------------------------------
tsAdd(time1, time2) ==
  LET sec == time1.tv_sec + time2.tv_sec
      nsec == time1.tv_nsec + time2.tv_nsec
  IN IF nsec >= NsPerS
     THEN [tv_sec |-> sec + 1, tv_nsec |-> nsec - NsPerS]
     ELSE [tv_sec |-> sec, tv_nsec |-> nsec]

(* Less than nothing is nothing.                                           *)
tsSubtract(time1, time2) ==
  IF \/ time1.tv_sec < time2.tv_sec
     \/ time1.tv_sec = time2.tv_sec /\ time1.tv_nsec <= time2.tv_nsec
  THEN [tv_sec |-> 0, tv_nsec |-> 0]
  ELSE IF time1.tv_nsec < time2.tv_nsec
  THEN [tv_sec |-> time1.tv_sec - time2.tv_sec - 1,
        tv_nsec |-> time1.tv_nsec + NsPerS - time2.tv_nsec]
  ELSE [tv_sec |-> time1.tv_sec - time2.tv_sec,
        tv_nsec |-> time1.tv_nsec - time2.tv_nsec]

tsCompare(time1, time2) ==
  IF time1.tv_sec < time2.tv_sec THEN -1
  ELSE IF time1.tv_sec > time2.tv_sec THEN 1
  ELSE IF time1.tv_nsec < time2.tv_nsec THEN -1
  ELSE IF time1.tv_nsec > time2.tv_nsec THEN 1
  ELSE 0

Ts2Ms(ts) == Unsigned(ts.tv_sec * MsPerS + Quotient(ts.tv_nsec, NsPerMs))

Ms2Ts(t) == [tv_sec |-> t \div MsPerS, tv_nsec |-> (t % MsPerS) * NsPerMs]

-----------------------------------------------------------------------------
(* The two parts of the difference are converted each for itself: where    *)
(* the nanoseconds have wrapped around, theirs is negative.                *)
Elapsed(StartTime, CurrTime) ==
  (CurrTime.tv_sec - StartTime.tv_sec) * MsPerS
    + Quotient(CurrTime.tv_nsec - StartTime.tv_nsec, NsPerMs)

reqsystime(StartTime, CurrTime) == Unsigned(Elapsed(StartTime, CurrTime))

-----------------------------------------------------------------------------
(* From RMX's priorities, 0 the highest, to those of SCHED_FIFO, 99 the    *)
(* highest.                                                                *)
linux_priority(priority) ==
  IF priority = 0 THEN 99
  ELSE IF priority = 1 THEN 98
  ELSE IF priority <= 128 THEN 97
  ELSE LET above == IF priority - 128 > 127 THEN 127 ELSE priority - 128
       IN 97 - (above * 96) \div 127
=============================================================================
