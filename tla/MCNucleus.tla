----------------------------- MODULE MCNucleus ------------------------------
(* A small instance of Nucleus for TLC: two users' tasks, the more urgent  *)
(* as urgent as the delay task, and one of everything else.                *)
EXTENDS Nucleus

CONSTANTS t1, t2

MCPrio == [t \in AllTasks |-> CASE t = Idle -> 3
                                [] t = t2 -> 2
                                [] OTHER -> 1]

(* What the code still reads: not the message of a task that has it, the   *)
(* exchange of one that does not wait, the delay of one outside of the     *)
(* list, the type of a message that is not queued, what a task that no     *)
(* longer exists has left, or whether an irq is virtual whose handler      *)
(* passes every interrupt on.                                              *)
Read ==
  <<lists, rqactv, cpu, link, msgq, taskq, pending, assigned,
    virtual \cap (assigned \cup Own), frozen, objects, region, dl.stray,
    {t \in stacks \cup {Idle} : context[t] # t},
    [k \in DOMAIN dl.seq |-> <<dl.seq[k], dl.delay[dl.seq[k]]>>],
    [t \in stacks \cup {Idle} |->
       <<status[t], after[t],
         after[t] = "check" /\ ~Blocked(t) /\ message[t] = NULL,
         IF Blocked(t) THEN exchange[t] ELSE NULL>>],
    {x \in IntExchanges : link[x] = Chained /\ type[x] = "missed"}>>
=============================================================================
