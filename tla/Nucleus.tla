------------------------------ MODULE Nucleus -------------------------------
(***************************************************************************)
(* The single-processor nucleus of yalrt.c.  One task runs at a time, the  *)
(* first of the ready list.  A call raises critical_region_flag, works on  *)
(* the lists, and ends in exit_region, which hands out the interrupts that *)
(* came meanwhile and switches to the task that is now the first.          *)
(* Interrupts come at any moment: outside of a region the handler ends in  *)
(* an exit_region of its own, in the context of the task it interrupted;   *)
(* inside, it only adds to isnd_queue.                                     *)
(*                                                                         *)
(* What a call does between enter_region and exit_region is one step,      *)
(* since handlers look at none of it but the first delay; exit_region is   *)
(* cut wherever an interrupt makes a difference.  The model stops where    *)
(* the code writes through a stale pointer (stray) or resumes a context    *)
(* that is not the active task's (cpu # rqactv).                           *)
(*                                                                         *)
(* The definitions whose names end in an X are plausible mistakes in those *)
(* of the same name; nothing uses them.                                    *)
(***************************************************************************)
EXTENDS Deltas, FiniteSets

CONSTANTS
  Tasks,      \* the users' tasks
  Idle,       \* IdleTask: Linux runs in its context
  DelayTask,  \* rqdelaytaskTd
  Prio,       \* priorities: the lower, the more urgent
  Exchanges,  \* the users' exchanges
  Irqs,       \* rqlintex: an exchange with a message of its own for each irq
  Own,        \* those that the users handle themselves, with reqisnd
  DelayEx,    \* rq_delay_exchange; stands for the timer's irq as well
  Messages,   \* the users' messages
  Delays,     \* delays that tasks wait for; 0 is no limit
  Never,      \* 0xFFFF
  MaxIsnd,    \* bound on the interrupts waiting in isnd_queue
  Freezers,   \* those of the tasks and Linux that call reqfreeze
  Suspenders, \* those that suspend others than themselves
  Misusers,   \* tasks that send messages that are not theirs
  NULL, Self, Chained, TimeOut

AllTasks == Tasks \cup {DelayTask, Idle}
IntExchanges == Irqs \cup {DelayEx}
AllExchanges == Exchanges \cup IntExchanges
AllMessages == Messages \cup IntExchanges

ASSUME NucleusAssumption ==
  /\ Prio \in [AllTasks -> 0..255]
  /\ \A t \in AllTasks \ {Idle} : Prio[t] < Prio[Idle]
  /\ Idle \notin Tasks /\ DelayTask \notin Tasks \cup {Idle}
  /\ Never \in Nat \ {0} /\ Delays \subseteq 0..Never
  /\ DelayEx \notin Irqs /\ Own \subseteq Irqs
  /\ (Exchanges \cup Messages) \cap IntExchanges = {}
  /\ {NULL, Self, Chained} \cap AllTasks = {}
  /\ NULL \notin AllExchanges \cup Messages \cup {TimeOut}
  /\ Chained \notin {NULL, Self}

VARIABLES
  lists,     \* the ready list and the suspend list
  taskl,     \* the list of all tasks, from rq_task_head
  stacks,    \* tasks with a stack: marker # NULL
  rqactv,    \* the active task, as the nucleus sees it
  cpu,       \* the task whose context the processor is in
  context,   \* the task whose context task->sp points to
  region,    \* where the context in the critical region stands
  isnd,      \* isnd_queue up to queue_index
  index,     \* queue_index as exit_region has loaded it, or 0
  slot,      \* what it leaves in isnd_queue above the index it stores
  status,    \* the bits of a task's status
  exchange,  \* task->exchange
  message,   \* task->message
  link,      \* of a message: Chained in a queue, Self, or its owner
  type,      \* of an interrupt message: "int" or "missed"
  msgq, taskq,  \* the two queues of an exchange
  dl,        \* the delay list and task->delay
  assigned,  \* the irqs that are given to yalrt
  virtual,   \* the irqs whose interrupts come to their yalrt_handler
  rqfrozen, saved,  \* saved_ready and saved_rqactv
  after      \* what a task does when the call it is in has left its region

sched == <<lists, rqactv, cpu, context, status>>
queues == <<exchange, message, link, type, msgq, taskq>>
given == <<assigned, virtual>>
pending == <<isnd, index, slot>>
ints == <<pending, given>>
frozen == <<rqfrozen, saved>>
objects == <<taskl, stacks>>
vars == <<sched, queues, ints, frozen, objects, region, dl, after>>

-----------------------------------------------------------------------------
(* The suspend list and the task list keep a pointer to their last task.   *)
(* In an empty list it points to the head pointer (NULL here), and so it   *)
(* does when the last task is taken from a longer list.  Appending then    *)
(* writes a link into the memory beside the head pointer.                  *)
NoList == [seq |-> << >>, tail |-> NULL, stray |-> FALSE]

Append1(l, t) ==
  IF t \in Range(l.seq) THEN  \* its link is cleared: the list ends there
    [l EXCEPT !.seq = SubSeq(@, 1, SelectInSeq(@, LAMBDA u : u = t)), !.tail = t]
  ELSE IF l.seq = << >> THEN [l EXCEPT !.seq = <<t>>, !.tail = t]
  ELSE IF l.tail = Last(l.seq) THEN [l EXCEPT !.seq = Append(@, t), !.tail = t]
  ELSE [l EXCEPT !.tail = t, !.stray = TRUE]

Unlink(l, t) ==
  IF t \notin Range(l.seq) THEN l
  ELSE [l EXCEPT !.seq = RemoveFirst(@, t),
                 !.tail = IF t = Last(l.seq) THEN NULL ELSE @]

(* enterlist: before the first task that is less urgent, or, with any bit  *)
(* in its status (status && suspended), to the suspend list.               *)
enterlistX(ls, bits, t) ==
  LET k == SelectInSeq(ls.ready, LAMBDA u : Prio[u] >= Prio[t]) IN
  IF bits = {} THEN [ls EXCEPT !.ready = InsertAt(@, k, t)]
  ELSE [ls EXCEPT !.susp = Append1(@, t)]
enterlist(ls, bits, t) ==
  LET k == SelectInSeq(ls.ready, LAMBDA u : Prio[u] > Prio[t]) IN
  IF bits = {} THEN [ls EXCEPT !.ready = InsertAt(@, k, t)]
  ELSE [ls EXCEPT !.susp = Append1(@, t)]

removelist(ls, bits, t) ==
  IF "suspended" \notin bits THEN [ls EXCEPT !.ready = RemoveFirst(@, t)]
  ELSE [ls EXCEPT !.susp = Unlink(@, t)]

(* The delay list: differences, as in the multiprocessor core (see Deltas). *)
FirstDelay == First(dl.seq, dl.delay, Never)

cancel_delayX(d, t) == [d EXCEPT !.seq = RemoveFirst(@, t)]
cancel_delay(d, t) ==
  IF t \notin Range(d.seq) THEN [d EXCEPT !.stray = TRUE]
  ELSE [d EXCEPT !.seq = RemoveAt(@, Position(@, t)),
                 !.delay = Removed(d.seq, @, t, Never + 1)]

(* reqwait's walk.                                                         *)
insert_delay(d, t, n) ==
  [d EXCEPT !.seq = Insertion(@, d.delay, t, n),
            !.delay = Inserted(d.seq, @, t, n)]

-----------------------------------------------------------------------------
(* Nothing has been written through a stale pointer.                       *)
Intact == ~(lists.susp.stray \/ taskl.stray \/ dl.stray)

(* t runs, outside of any region.  While the system is frozen the only     *)
(* call considered is that of reqbake by Linux.                            *)
Runs(t) ==
  /\ region = "out" /\ Intact /\ ~rqfrozen
  /\ rqactv = t /\ cpu = t
Call(t) == Runs(t) /\ after[t] = "none"

(* reqnucl, up to its exit_region: interrupt messages are not linked yet,  *)
(* the timer is yalrt's, the delay task is ready, and so is Linux, which   *)
(* runs.                                                                   *)
Init ==
  /\ lists = [ready |-> <<DelayTask, Idle>>, susp |-> NoList]
  /\ taskl = Append1(NoList, DelayTask)
  /\ stacks = {DelayTask}
  /\ rqactv = Idle /\ cpu = Idle
  /\ context = [t \in AllTasks |-> t]
  /\ region = "exit"
  /\ isnd = << >> /\ index = 0 /\ slot = NULL
  /\ status = [t \in AllTasks |-> {}]
  /\ exchange = [t \in AllTasks |-> NULL]
  /\ message = [t \in AllTasks |-> NULL]
  /\ link = [m \in AllMessages |-> NULL]
  /\ type = [x \in IntExchanges |-> "int"]
  /\ msgq = [e \in AllExchanges |-> << >>]
  /\ taskq = [e \in AllExchanges |-> << >>]
  /\ dl = [seq |-> << >>, delay |-> [t \in Tasks |-> 0], stray |-> FALSE]
  /\ assigned = {DelayEx} /\ virtual = {DelayEx}
  /\ rqfrozen = FALSE
  /\ saved = [ready |-> << >>, actv |-> NULL]
  /\ after = [t \in AllTasks |-> "none"]

-----------------------------------------------------------------------------
(* Interrupts.  One that finds the message not linked to itself is only    *)
(* marked as missed; the timer does not look.  Outside of a region the     *)
(* handler's exit_region begins: the interrupted task's context will have  *)
(* to be restored as a handler's (maskint).  In a region it returns at     *)
(* once.  Handlers run with the interrupts off until their exit_region is  *)
(* the outermost, so critical_region_flag stays far below 100.             *)
Interrupted ==
  IF region = "out"
  THEN /\ region' = "exit"
       /\ status' = [status EXCEPT ![rqactv] = @ \cup {"maskint"}]
  ELSE UNCHANGED <<region, status>>

Notify(x) ==
  /\ Intact /\ cpu = rqactv
  /\ IF link[x] = Self
     THEN /\ Len(isnd) < MaxIsnd
          /\ isnd' = Append(isnd, x)
          /\ UNCHANGED type
     ELSE /\ type' = [type EXCEPT ![x] = "missed"]
          /\ UNCHANGED isnd
  /\ Interrupted
  /\ UNCHANGED <<lists, rqactv, cpu, context, exchange, message, link, msgq,
                 taskq, index, slot, given, frozen, objects, dl, after>>

(* reqsxx passes on the interrupts of an irq that is not given to yalrt;   *)
(* a handler of the users' does not look.                                  *)
reqisnd(x) == x \in virtual /\ (x \in assigned \/ x \in Own) /\ Notify(x)

(* The same from a service request of Linux, whose handler raises the flag *)
(* before it touches the queue.  It asks neither whose the irq is nor      *)
(* whether the system is frozen.  (An interrupt between the two would only *)
(* be ahead of it in the queue.)                                           *)
reqssnd(x) == cpu = Idle /\ region = "out" /\ Notify(x)

(* A tick counts the first delay, or finds it at zero, and asks for the    *)
(* delay task; it also brings out interrupts that were left in the queue.  *)
yalrt_timer_handlerX ==
  LET due == FirstDelay \in {0, 1} \ {Never} IN
  /\ Intact /\ cpu = rqactv /\ DelayEx \in virtual \cap assigned
  /\ due => Len(isnd) < MaxIsnd
  /\ dl' = IF FirstDelay = Never THEN dl
           ELSE [dl EXCEPT !.delay[Head(dl.seq)] = @ - 1]
  /\ isnd' = IF due THEN Append(isnd, DelayEx) ELSE isnd
  /\ IF due \/ isnd # << >> THEN Interrupted ELSE UNCHANGED <<region, status>>
  /\ UNCHANGED <<lists, rqactv, cpu, context, queues, index, slot, given,
                 frozen, objects, after>>
yalrt_timer_handler ==
  LET due == FirstDelay \in {0, 1} \ {Never} IN
  /\ Intact /\ cpu = rqactv /\ DelayEx \in virtual \cap assigned
  /\ due => Len(isnd) < MaxIsnd
  /\ dl' = IF FirstDelay \in {0, Never} THEN dl
           ELSE [dl EXCEPT !.delay[Head(dl.seq)] = @ - 1]
  /\ isnd' = IF due THEN Append(isnd, DelayEx) ELSE isnd
  /\ IF due \/ isnd # << >> THEN Interrupted ELSE UNCHANGED <<region, status>>
  /\ UNCHANGED <<lists, rqactv, cpu, context, queues, index, slot, given,
                 frozen, objects, after>>

(* reqelvl gives an irq to yalrt, and sets up the interrupt message if     *)
(* nothing is queued at the exchange (the timer's message is not that of   *)
(* its irq); reqdlvl gives it back.  reqsetv only forgets that it was      *)
(* given: the interrupts still come to the handler there was.              *)
Enable(x) ==
  /\ assigned' = assigned \cup {x}
  /\ virtual' = IF x \in assigned THEN virtual ELSE virtual \cup {x}

reqelvl(t, x) ==
  LET fresh == x \in Irqs /\ msgq[x] = << >> IN
  /\ Call(t) /\ x \notin assigned
  /\ Enable(x)
  /\ link' = IF fresh THEN [link EXCEPT ![x] = Self] ELSE link
  /\ type' = IF fresh THEN [type EXCEPT ![x] = "int"] ELSE type
  /\ UNCHANGED <<sched, exchange, message, msgq, taskq, pending, frozen,
                 objects, region, dl, after>>

reqdlvl(t, x) ==
  /\ Call(t) /\ x \in assigned
  /\ assigned' = assigned \ {x} /\ virtual' = virtual \ {x}
  /\ UNCHANGED <<sched, queues, pending, frozen, objects, region, dl, after>>

reqsetv(t, x) ==
  /\ Call(t) /\ x \in assigned
  /\ assigned' = assigned \ {x}
  /\ UNCHANGED <<sched, queues, pending, virtual, frozen, objects, region, dl,
                 after>>

-----------------------------------------------------------------------------
(* exit_region.  Loading queue_index and storing it decremented are not    *)
(* one instruction: the interrupts that come in between are lost.          *)
DrainLoad ==
  /\ Intact
  /\ region = "exit" /\ index = 0 /\ isnd # << >>
  /\ index' = Len(isnd)
  /\ UNCHANGED <<sched, queues, isnd, slot, given, frozen, objects, region, dl,
                 after>>

DrainStore ==
  /\ index > 0 /\ slot = NULL
  /\ slot' = isnd[index]
  /\ isnd' = SubSeq(isnd, 1, index - 1)
  /\ UNCHANGED <<sched, queues, index, given, frozen, objects, region, dl, after>>

(* The first task that waits at e is given m and enters a list.            *)
HandOver(e, m, cancel) ==
  LET w == Head(taskq[e])
      bits == status[w] \ {"waiting", "delayed"}
  IN /\ taskq' = [taskq EXCEPT ![e] = Tail(@)]
     /\ dl' = IF cancel THEN cancel_delay(dl, w) ELSE dl
     /\ status' = [status EXCEPT ![w] = bits]
     /\ lists' = enterlist(lists, bits, w)
     /\ message' = [message EXCEPT ![w] = m]
     /\ link' = [link EXCEPT ![m] = IF m \in IntExchanges THEN Self ELSE w]
     /\ UNCHANGED msgq

(* An interrupt message joins the queue unless it is in it already.        *)
PostX(x) ==
  /\ msgq' = [msgq EXCEPT ![x] = Append(@, x)]
  /\ link' = [link EXCEPT ![x] = Chained]
  /\ type' = [type EXCEPT ![x] = "int"]
  /\ UNCHANGED <<lists, status, message, taskq, dl>>
PostForget(x) ==
  /\ msgq' = IF link[x] = Self THEN [msgq EXCEPT ![x] = Append(@, x)] ELSE msgq
  /\ link' = IF link[x] = Self THEN [link EXCEPT ![x] = Chained] ELSE link
  /\ type' = [type EXCEPT ![x] = "int"]
  /\ UNCHANGED <<lists, status, message, taskq, dl>>
Post(x) ==
  /\ msgq' = IF link[x] = Self THEN [msgq EXCEPT ![x] = Append(@, x)] ELSE msgq
  /\ link' = IF link[x] = Self THEN [link EXCEPT ![x] = Chained] ELSE link
  /\ type' = [type EXCEPT ![x] = IF link[x] = Self THEN "int" ELSE "missed"]
  /\ UNCHANGED <<lists, status, message, taskq, dl>>

(* What is read above the stored index may be an interrupt that has come   *)
(* there since: it will be read again, and the one that was there is lost. *)
Popped == IF index \in DOMAIN isnd THEN isnd[index] ELSE slot

(* It is handed out, with the pipeline stalled.                            *)
Drain ==
  LET x == Popped IN
  /\ slot # NULL
  /\ index' = 0 /\ slot' = NULL
  /\ \/ taskq[x] = << >> /\ Post(x)
     \/ /\ taskq[x] # << >>
        /\ HandOver(x, x, "delayed" \in status[Head(taskq[x])])
        /\ type' = [type EXCEPT ![x] = "int"]
  /\ UNCHANGED <<rqactv, cpu, context, region, exchange, isnd, given, frozen,
                 objects, after>>

(* The loop has found the queue empty.                                     *)
Drained ==
  /\ Intact
  /\ region = "exit" /\ index = 0 /\ isnd = << >>
  /\ region' = "leave"
  /\ UNCHANGED <<sched, queues, ints, frozen, objects, dl, after>>

(* The switch: the first ready task continues where it left off, here or   *)
(* as the handler's exit_region had interrupted it (maskint).  What the    *)
(* processor was in is saved as the active task's context.  The stack of a *)
(* task that deleted itself can now be freed.                              *)
LeaveX ==  \* as if only a task that stops could be switched from
  LET next == IF rqactv \in Range(lists.ready) THEN rqactv ELSE Head(lists.ready)
  IN
  /\ region = "leave"
  /\ region' = "out"
  /\ rqactv' = next
  /\ IF next = rqactv THEN UNCHANGED <<cpu, context>>
     ELSE /\ cpu' = context[next]
          /\ context' = [context EXCEPT ![rqactv] = cpu]
  /\ stacks' = IF next # rqactv /\ "deleted" \in status[rqactv]
               THEN stacks \ {rqactv} ELSE stacks
  /\ status' = [status EXCEPT ![next] = @ \ {"maskint"}]
  /\ UNCHANGED <<lists, queues, ints, frozen, taskl, dl, after>>
Leave ==
  LET next == Head(lists.ready) IN
  /\ region = "leave"
  /\ region' = "out"
  /\ rqactv' = next
  /\ IF next = rqactv THEN UNCHANGED <<cpu, context>>
     ELSE /\ cpu' = context[next]
          /\ context' = [context EXCEPT ![rqactv] = cpu]
  /\ stacks' = IF next # rqactv /\ "deleted" \in status[rqactv]
               THEN stacks \ {rqactv} ELSE stacks
  /\ status' = [status EXCEPT ![next] = @ \ {"maskint"}]
  /\ UNCHANGED <<lists, queues, ints, frozen, taskl, dl, after>>

-----------------------------------------------------------------------------
(* Messages.                                                               *)
reqcmsg(t, m) ==
  /\ Call(t) /\ link[m] = NULL
  /\ link' = [link EXCEPT ![m] = t]
  /\ UNCHANGED <<sched, exchange, message, type, msgq, taskq, ints, frozen,
                 objects, region, dl, after>>

(* A task that waits with any other bit in its status (status && delayed)  *)
(* is taken from the delay list, where it may not be.                      *)
reqsend(t, e, m) ==
  LET error == link[m] # t \/ (taskq[e] # << >> /\ msgq[e] # << >>) IN
  /\ Call(t)
  /\ link[m] = t \/ (t \in Misusers /\ link[m] # NULL)
  /\ region' = "exit"
  /\ after' = [after EXCEPT ![t] = IF error THEN "freeze" ELSE "none"]
  /\ \/ error /\ UNCHANGED <<lists, status, message, link, msgq, taskq, dl>>
     \/ /\ ~error /\ taskq[e] = << >>
        /\ msgq' = [msgq EXCEPT ![e] = Append(@, m)]
        /\ link' = [link EXCEPT ![m] = Chained]
        /\ UNCHANGED <<lists, status, message, taskq, dl>>
     \/ /\ ~error /\ taskq[e] # << >>
        /\ HandOver(e, m, status[Head(taskq[e])] # {"waiting"})
  /\ UNCHANGED <<rqactv, cpu, context, exchange, type, ints, frozen, objects>>

(* The caller takes the first message of e; an interrupt message is linked *)
(* to itself again.  With tasks waiting as well, it gets none.             *)
reqdqmsg(t, e) ==
  LET m == Head(msgq[e]) IN
  IF taskq[e] # << >>
  THEN /\ message' = [message EXCEPT ![t] = NULL]
       /\ UNCHANGED <<link, msgq>>
  ELSE /\ message' = [message EXCEPT ![t] = m]
       /\ link' = [link EXCEPT ![m] = IF m \in IntExchanges THEN Self ELSE t]
       /\ msgq' = [msgq EXCEPT ![e] = Tail(@)]

reqacpt(t, e) ==
  /\ Call(t)
  /\ exchange' = [exchange EXCEPT ![t] = e]
  /\ region' = "exit"
  /\ IF msgq[e] # << >> THEN reqdqmsg(t, e)
     ELSE /\ message' = [message EXCEPT ![t] = NULL]
          /\ UNCHANGED <<link, msgq>>
  /\ UNCHANGED <<sched, type, taskq, ints, frozen, objects, dl, after>>

reqwait(t, e, n) ==
  /\ Call(t)
  /\ exchange' = [exchange EXCEPT ![t] = e]
  /\ region' = "exit"
  /\ after' = [after EXCEPT ![t] = "check"]
  /\ \/ /\ msgq[e] = << >>
        /\ lists' = [lists EXCEPT !.ready = Tail(@)]
        /\ taskq' = [taskq EXCEPT ![e] = Append(@, t)]
        /\ IF n = 0 THEN UNCHANGED <<dl, given>>
           ELSE dl' = insert_delay(dl, t, n) /\ Enable(DelayEx)
        /\ status' = [status EXCEPT ![t] =
                        @ \cup {IF n = 0 THEN "waiting" ELSE "delayed"}]
        /\ UNCHANGED <<message, link, msgq>>
     \/ /\ msgq[e] # << >> /\ reqdqmsg(t, e)
        /\ UNCHANGED <<lists, status, taskq, dl, given>>
  /\ UNCHANGED <<rqactv, cpu, context, type, pending, frozen, objects>>

(* reqwait returns: without a message it freezes the system.               *)
Return(t) ==
  /\ Runs(t) /\ after[t] = "check"
  /\ after' = [after EXCEPT ![t] = IF message[t] = NULL THEN "freeze"
                                   ELSE IF t = DelayTask THEN "collect"
                                   ELSE "none"]
  /\ UNCHANGED <<sched, queues, ints, frozen, objects, region, dl>>

-----------------------------------------------------------------------------
(* rqdelaytask: the tasks at the head of the list whose delay is zero are  *)
(* taken from their exchange.  Ticks may come between them.                *)
DelayEnter ==
  /\ Runs(DelayTask) /\ after[DelayTask] = "collect"
  /\ region' = "delay"
  /\ UNCHANGED <<sched, queues, ints, frozen, objects, dl, after>>

DelayExpire ==
  LET w == Head(dl.seq)
      bits == status[w] \ {"delayed"}
  IN
  /\ region = "delay" /\ FirstDelay = 0
  /\ taskq' = [taskq EXCEPT ![exchange[w]] = RemoveFirst(@, w)]
  /\ dl' = cancel_delay(dl, w)
  /\ status' = [status EXCEPT ![w] = bits]
  /\ lists' = enterlist(lists, bits, w)
  /\ message' = [message EXCEPT ![w] = TimeOut]
  /\ UNCHANGED <<rqactv, cpu, context, region, exchange, link, type, msgq, ints,
                 frozen, objects, after>>

DelayDone ==
  /\ region = "delay" /\ FirstDelay # 0
  /\ region' = "exit"
  /\ after' = [after EXCEPT ![DelayTask] = "none"]
  /\ UNCHANGED <<sched, queues, ints, frozen, objects, dl>>

-----------------------------------------------------------------------------
(* Tasks.  A descriptor is not given to reqctsk again while its task       *)
(* exists.  Without memory for the stack there is no task, and no error.   *)
reqctsk(t, u) ==
  /\ Call(t) /\ u \notin stacks
  /\ region' = "exit"
  /\ status' = [status EXCEPT ![u] = {}]
  /\ exchange' = [exchange EXCEPT ![u] = NULL]
  /\ \/ UNCHANGED <<lists, context, taskl, stacks>>
     \/ /\ stacks' = stacks \cup {u}
        /\ context' = [context EXCEPT ![u] = u]
        /\ lists' = enterlist(lists, {}, u)
        /\ taskl' = Append1(taskl, u)
  /\ after' = [after EXCEPT ![u] = "none"]
  /\ UNCHANGED <<rqactv, cpu, message, link, type, msgq, taskq, ints, frozen, dl>>

(* A task leaves the exchange and the delay list where it waits, the task  *)
(* list, and the list it is in.  Its own stack has to wait for exit_region.*)
reqdtskX(t, u) ==  \* a timed waiter stays in its exchange's queue
  /\ Call(t) /\ u \in stacks
  /\ region' = "exit"
  /\ taskl' = Unlink(taskl, u)
  /\ lists' = removelist(lists, status[u], u)
  /\ status' = [status EXCEPT ![u] =
                  IF u = t THEN (@ \ {"delayed"}) \cup {"deleted"}
                  ELSE @ \ {"delayed"}]
  /\ stacks' = IF u = t THEN stacks ELSE stacks \ {u}
  /\ taskq' = IF "waiting" \in status[u]
              THEN [taskq EXCEPT ![exchange[u]] = RemoveFirst(@, u)] ELSE taskq
  /\ dl' = IF "delayed" \in status[u] THEN cancel_delay(dl, u) ELSE dl
  /\ UNCHANGED <<rqactv, cpu, context, exchange, message, link, type, msgq, ints,
                 frozen, after>>
reqdtsk(t, u) ==
  /\ Call(t) /\ u \in stacks
  /\ region' = "exit"
  /\ taskl' = Unlink(taskl, u)
  /\ lists' = removelist(lists, status[u], u)
  /\ status' = [status EXCEPT ![u] =
                  IF u = t THEN (@ \ {"delayed"}) \cup {"deleted"}
                  ELSE @ \ {"delayed"}]
  /\ stacks' = IF u = t THEN stacks ELSE stacks \ {u}
  /\ taskq' = IF status[u] \cap {"waiting", "delayed"} # {}
              THEN [taskq EXCEPT ![exchange[u]] = RemoveFirst(@, u)] ELSE taskq
  /\ dl' = IF "delayed" \in status[u] THEN cancel_delay(dl, u) ELSE dl
  /\ UNCHANGED <<rqactv, cpu, context, exchange, message, link, type, msgq, ints,
                 frozen, after>>

reqsusp(t, u) ==
  LET bits == status[u] \cup {"suspended"} IN
  /\ Call(t) /\ u \in stacks /\ (u = t \/ t \in Suspenders)
  /\ region' = "exit"
  /\ lists' = IF u \in Range(lists.ready)
              THEN enterlist(removelist(lists, status[u], u), bits, u)
              ELSE lists
  /\ status' = [status EXCEPT ![u] = bits]
  /\ UNCHANGED <<rqactv, cpu, context, queues, ints, frozen, objects, dl, after>>

reqresm(t, u) ==
  LET bits == status[u] \ {"suspended"} IN
  /\ Call(t) /\ u \in stacks
  /\ region' = "exit"
  /\ lists' = IF u \in Range(lists.susp.seq)
              THEN enterlist(removelist(lists, status[u], u), bits, u)
              ELSE lists
  /\ status' = [status EXCEPT ![u] = bits]
  /\ UNCHANGED <<rqactv, cpu, context, queues, ints, frozen, objects, dl, after>>

-----------------------------------------------------------------------------
(* Freezing gives the processor to Linux: the irqs are handed back, the    *)
(* ready list is set aside.  An interrupt may come after enter_region.     *)
FreezeEnter(t) ==
  /\ Runs(t)
  /\ after[t] = "freeze" \/ (t \in Freezers /\ after[t] = "none")
  /\ region' = "freeze"
  /\ after' = [after EXCEPT ![t] = "none"]
  /\ UNCHANGED <<sched, queues, ints, frozen, objects, dl>>

FreezeSet ==
  /\ region = "freeze"
  /\ rqfrozen' = TRUE
  /\ saved' = [ready |-> lists.ready, actv |-> rqactv]
  /\ lists' = [lists EXCEPT !.ready = <<Idle>>]
  /\ region' = "exit"
  /\ virtual' = virtual \ assigned
  /\ UNCHANGED <<rqactv, cpu, context, status, queues, pending, assigned, objects,
                 dl, after>>

reqbakeX ==
  /\ region = "out" /\ rqfrozen /\ rqactv = Idle /\ cpu = Idle
  /\ rqfrozen' = FALSE
  /\ rqactv' = saved.actv
  /\ saved' = [ready |-> << >>, actv |-> NULL]
  /\ region' = "exit"
  /\ virtual' = virtual \cup assigned
  /\ UNCHANGED <<lists, cpu, context, status, queues, pending, assigned, objects,
                 dl, after>>
reqbake ==
  /\ region = "out" /\ rqfrozen /\ rqactv = Idle /\ cpu = Idle
  /\ rqfrozen' = FALSE
  /\ lists' = [lists EXCEPT !.ready = saved.ready]
  /\ rqactv' = saved.actv
  /\ saved' = [ready |-> << >>, actv |-> NULL]
  /\ region' = "exit"
  /\ virtual' = virtual \cup assigned
  /\ UNCHANGED <<cpu, context, status, queues, pending, assigned, objects, dl,
                 after>>

-----------------------------------------------------------------------------
Interrupt ==
  \/ \E x \in Irqs : reqisnd(x) \/ reqssnd(x)
  \/ yalrt_timer_handler

Scheduler == DrainLoad \/ DrainStore \/ Drain \/ Drained \/ Leave

CallOf(t) ==
  \/ \E x \in IntExchanges : reqelvl(t, x) \/ reqdlvl(t, x)
  \/ \E x \in Irqs : reqsetv(t, x)
  \/ \E m \in Messages :
       reqcmsg(t, m) \/ \E e \in Exchanges \cup Irqs : reqsend(t, e, m)
  \/ \E e \in Exchanges \cup Irqs : reqacpt(t, e)
  \/ \E u \in Tasks :
       reqctsk(t, u) \/ reqdtsk(t, u) \/ reqsusp(t, u) \/ reqresm(t, u)

Wait(t) == \E e \in Exchanges \cup Irqs, n \in Delays : reqwait(t, e, n)

Freeze == (\E t \in Tasks \cup {Idle} : FreezeEnter(t)) \/ FreezeSet \/ reqbake

Delayer ==
  \/ reqwait(DelayTask, DelayEx, 0)
  \/ DelayEnter \/ DelayExpire \/ DelayDone

Next ==
  \/ Interrupt \/ Scheduler \/ Freeze \/ Delayer
  \/ \E t \in Tasks \cup {Idle} : CallOf(t)
  \/ \E t \in Tasks : Wait(t)
  \/ \E t \in Tasks \cup {DelayTask} : Return(t)

Spec == Init /\ [][Next]_vars

-----------------------------------------------------------------------------
(* Properties.                                                             *)
Existing == {t \in stacks \cup {Idle} : "deleted" \notin status[t]}
Blocked(t) == status[t] \cap {"waiting", "delayed"} # {}
List(S) == [seq : Seq(S), tail : AllTasks \cup {NULL}, stray : BOOLEAN]
Bits == {"waiting", "delayed", "suspended", "maskint", "deleted"}

TypeOK ==
  /\ lists \in [ready : Seq(AllTasks), susp : List(Tasks)]
  /\ taskl \in List(AllTasks) /\ stacks \subseteq AllTasks
  /\ rqactv \in AllTasks /\ cpu \in AllTasks
  /\ context \in [AllTasks -> AllTasks]
  /\ region \in {"out", "exit", "leave", "freeze", "delay"}
  /\ isnd \in Seq(IntExchanges) /\ slot \in IntExchanges \cup {NULL}
  /\ index \in 0..(Len(isnd) + IF slot = NULL THEN 0 ELSE 1)
  /\ status \in [AllTasks -> SUBSET Bits]
  /\ exchange \in [AllTasks -> AllExchanges \cup {NULL}]
  /\ message \in [AllTasks -> AllMessages \cup {NULL, TimeOut}]
  /\ link \in [AllMessages -> AllTasks \cup {NULL, Chained, Self}]
  /\ type \in [IntExchanges -> {"int", "missed"}]
  /\ msgq \in [AllExchanges -> Seq(AllMessages)]
  /\ taskq \in [AllExchanges -> Seq(AllTasks)]
  /\ dl \in [seq : Seq(Tasks), delay : [Tasks -> 0..Never], stray : BOOLEAN]
  /\ assigned \subseteq IntExchanges /\ virtual \subseteq IntExchanges
  /\ rqfrozen \in BOOLEAN
  /\ saved \in [ready : Seq(AllTasks), actv : AllTasks \cup {NULL}]
  /\ after \in [AllTasks -> {"none", "check", "freeze", "collect"}]

(* Outside of a critical region no task that could run is more urgent than *)
(* the one that has the processor, whatever interrupts, expiries,          *)
(* resumptions and thaws came before (exit_region, yalrt.c:917).  Nothing  *)
(* is said of a processor in a context that is not the active task's.      *)
HighestRuns ==
  region = "out" /\ Intact /\ ~rqfrozen /\ cpu = rqactv =>
    \A t \in Existing : status[t] \subseteq {"maskint"} => Prio[cpu] <= Prio[t]

(* Every task is in exactly one list, the one its status tells: the queue  *)
(* of its exchange, the suspend list, or the ready list, also when that is *)
(* set aside.  An interrupted task must not lose its bit maskint too late: *)
(* enterlist takes any bit for suspended (yalrt.c:393).                    *)
OnePlace ==
  Intact =>
    \A t \in Existing :
      LET In(s) == Cardinality({k \in DOMAIN s : s[k] = t})
          ready == In(lists.ready) + IF t = Idle THEN 0 ELSE In(saved.ready)
          q == IF exchange[t] = NULL THEN << >> ELSE taskq[exchange[t]]
      IN <<ready, In(lists.susp.seq), In(q)>> =
           CASE Blocked(t) -> <<0, 0, 1>>
             [] ~Blocked(t) /\ "suspended" \in status[t] -> <<0, 1, 0>>
             [] OTHER -> <<1, 0, 0>>

(* Whoever is in a queue exists and waits there, and who has a delay is in *)
(* the delay list: else reqsend wakes a dead task, and rqdelaytask walks a *)
(* queue for a task that is not in it (yalrt.c:1222).                      *)
WaitersReal ==
  /\ \A e \in AllExchanges : \A t \in Range(taskq[e]) :
       t \in Existing /\ Blocked(t) /\ exchange[t] = e
  /\ Intact => \A t \in Tasks \cap Existing :
       t \in Range(dl.seq) <=> "delayed" \in status[t]

(* A message is in one queue, once, and its link tells whether it is; and  *)
(* nobody waits where a message is queued.                                 *)
OneHome ==
  /\ \A e \in AllExchanges : msgq[e] = << >> \/ taskq[e] = << >>
  /\ \A m \in AllMessages :
       Cardinality(UNION {{<<e, k>> : k \in {i \in DOMAIN msgq[e] : msgq[e][i] = m}} :
                          e \in AllExchanges})
         = IF link[m] = Chained THEN 1 ELSE 0

(* While an interrupt message stays queued, the mark that an interrupt was *)
(* missed stays on it for the task that will receive it.                   *)
MissedStays ==
  [][\A x \in IntExchanges :
       type[x] = "missed" /\ link[x] = Chained /\ link'[x] = Chained
         => type'[x] = "missed"]_vars

(* An interrupt takes the processor from the task it interrupts only in    *)
(* favour of a more urgent one, never of an equal (enterlist, yalrt.c:400).*)
NoEqualSwitch ==
  [][rqactv' # cpu /\ cpu = rqactv /\ "maskint" \in status[cpu]
       => Prio[rqactv'] < Prio[cpu]]_vars

(* The delay list keeps each timed wait's own count (see Timeouts).        *)
left == Left(dl.seq, dl.delay, Tasks)
Promised == INSTANCE Timeouts WITH Waiters <- Tasks, Longest <- Never, left <- left
ImplementsTimeouts == Promised!TSpec

(* rqbake.8: "The tasks running when rqfreeze was called are made running  *)
(* again."  The nucleus and the processor agree about who runs.            *)
OwnContext == region = "out" => cpu = rqactv

(* rqresm.8: a suspended task "is made again runnable": the suspend list   *)
(* holds only suspended tasks.                                             *)
OnlySuspended ==
  \A t \in Range(lists.susp.seq) : "suspended" \in status[t]
=============================================================================
