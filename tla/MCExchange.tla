----------------------------- MODULE MCExchange -----------------------------
(* Small instances of Exchange for TLC: one user exchange, the interrupt   *)
(* exchange of the first task, two or three tasks.                         *)
EXTENDS Exchange, TLC

CONSTANTS t1, t2, t3, ex, ix, m1, m2

MCHandler == ix :> t1
MCCareless == {t2}

(* The arguments of a call are read only inside that call, and a task's    *)
(* message only by a call that has set it: what they hold at other times   *)
(* does not distinguish states.                                            *)
Live ==
  LET inCall(t) == pc[t] \notin {"user", "stopped", "gate"} IN
  <<pc,
    [t \in Tasks |-> IF inCall(t) THEN exch[t] ELSE NULL],
    [t \in Tasks |-> IF pc[t] = "send" THEN msg[t] ELSE NULL],
    [t \in Tasks |-> IF pc[t] = "post" THEN peer[t] ELSE NULL],
    [t \in Tasks |-> IF Receiving(t) THEN message[t] ELSE NULL],
    link, msgq, taskq, sema, mutex, rqfrozen>>
=============================================================================
