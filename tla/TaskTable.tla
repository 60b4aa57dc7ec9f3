----------------------------- MODULE TaskTable ------------------------------
(***************************************************************************)
(* How YRmx (ycore.c) brings tasks and exchanges into being and removes    *)
(* them: reqstart and the barrier, reqctsk and the list of tasks in which  *)
(* every call looks for its caller (active_task), reqdtsk, which only      *)
(* cancels the thread, and the list of exchanges.                          *)
(*                                                                         *)
(* Both lists are chained and have a pointer to the last; each access to a *)
(* link or to that pointer is a step.  The list of exchanges has a mutex   *)
(* (mutex1) that only reqcxch takes; the list of tasks has none.           *)
(*                                                                         *)
(* What reqdtsk does to a task that waits (ycore.c:812-817) is in Session. *)
(*                                                                         *)
(* The definitions whose names end in X or Y are plausible mistakes in     *)
(* those after them; nothing uses them.                                    *)
(***************************************************************************)
EXTENDS Integers, Sequences, FiniteSets

CONSTANTS
  Tasks,      \* descriptors of tasks, but for Root's
  Root,       \* RootTaskTd: the thread that calls rqstart
  System,     \* the tasks of the system, which nobody deletes
  Table,      \* what reqstart creates, in order: tasks, and NULL entries
  Exchanges,  \* descriptors of exchanges, but for the first
  DelayEx,    \* rq_delay_exchange, which reqstart puts first in the list
  Creators,   \* those that create and delete, once reqstart is over
  Serial,     \* calls of reqctsk do not overlap each other, nor those of
              \* reqdxch each other or those of reqcxch
  Recreate,   \* they create deleted tasks again
  NULL

ASSUME TaskTableAssumption ==
  /\ Root \notin Tasks /\ DelayEx \notin Exchanges
  /\ System \subseteq Tasks /\ Table \in Seq(Tasks \cup {NULL})
  /\ \A i, j \in DOMAIN Table : Table[i] = Table[j] /\ Table[i] # NULL => i = j
  /\ (Tasks \cup {Root}) \cap (Exchanges \cup {DelayEx}) = {}
  /\ NULL \notin Tasks \cup {Root} \cup Exchanges \cup {DelayEx}
  /\ Serial \in BOOLEAN /\ Recreate \in BOOLEAN

Threads == Tasks \cup {Root}
Nodes == Threads \cup Exchanges \cup {DelayEx}
Filled == {i \in DOMAIN Table : Table[i] # NULL}
Initial == {Table[i] : i \in Filled}

VARIABLES
  pc,          \* of a task's thread, see States
  op, arg,     \* where it is in a call, and the call's argument
  prev, curr, nxt,  \* reqdxch: prev, curr and curr->exchange_link, once read
  thread,      \* tasks whose td->thread is their thread
  cancelled,   \* threads with a pthread_cancel pending
  deleted,     \* tasks that have been deleted
  link,        \* tasklink and exchange_link
  tail,        \* rq_task_tail
  extail,      \* rq_exchange_tail
  mutex1,      \* its holder
  registered,  \* history: exchanges created and not removed
  rqstarting,
  todo,        \* reqstart: the index in Table of the next task
  at,          \* this_task or this_exch of a display, NULL when it is done
  seen,        \* history: what it has shown
  due          \* history: what it found in the list and is there still

walk == <<at, seen, due>>
lists == <<link, tail, extail, mutex1, registered>>
dx == <<prev, curr, nxt>>
vars == <<pc, op, arg, dx, thread, cancelled, deleted, lists, rqstarting, todo,
          walk>>

States ==
  {"none",
   "new",       \* created: reqrun has not tested rqstarting
   "arriving",  \* it has, and is on its way to the barrier
   "barrier", "released", "sleep",
   "body",      \* thread_start(), or reqstart's caller
   "dead"}

Init ==
  /\ pc = [t \in Threads |-> IF t = Root THEN "body" ELSE "none"]
  /\ op = [t \in Threads |-> "idle"]
  /\ arg = [t \in Threads |-> NULL]
  /\ prev = [t \in Threads |-> NULL] /\ curr = [t \in Threads |-> NULL]
  /\ nxt = [t \in Threads |-> NULL]
  /\ thread = {Root}
  /\ cancelled = {} /\ deleted = {}
  /\ link = [n \in Nodes |-> NULL]
  /\ tail = Root /\ extail = DelayEx
  /\ mutex1 = NULL
  /\ registered = {DelayEx}
  /\ rqstarting = TRUE
  /\ todo = 1
  /\ at = NULL /\ seen = {} /\ due = {}

-----------------------------------------------------------------------------
(* The nodes met from a node on.                                           *)
Along(links, head) ==
  LET from[met \in SUBSET Nodes] ==
        [n \in Nodes \cup {NULL} |->
           IF n = NULL \/ n \in met THEN met ELSE from[met \cup {n}][links[n]]]
  IN from[{}][head]
Reach(head) == Along(link, head)

(* active_task finds the caller by the thread in its descriptor.  A call   *)
(* of a task that is not found follows a null pointer (exit_region(NULL)). *)
active_task(t) == t \in Reach(Root) \cap thread

At(t, label) == pc[t] = "body" /\ op[t] = label
Goto(t, label) == op' = [op EXCEPT ![t] = label]
Forget(t) ==
  /\ arg' = [arg EXCEPT ![t] = NULL]
  /\ prev' = [prev EXCEPT ![t] = NULL] /\ curr' = [curr EXCEPT ![t] = NULL]
  /\ nxt' = [nxt EXCEPT ![t] = NULL]

(* Where reqctsk, reqcxch and reqdxch stand, and who stands there.         *)
TaskOps == {"setthread", "linktail", "settail", "endlist"}
CxOps == {"exlink", "extail", "exend"}
DxOps == {"dxtest", "dxwalk", "dxstep", "dxcurr", "dxnext", "dxlink", "dxtail",
          "dxset"}
In(ops) == {t \in Threads : pc[t] # "dead" /\ op[t] \in ops}

(* t may begin a call that creates or deletes, but for Serial.             *)
Free(t) ==
  /\ At(t, "idle") /\ t \in Creators /\ (t = Root => todo > Len(Table))
  /\ active_task(t)

-----------------------------------------------------------------------------
(* reqstart's loop passes over the entries that are NULL.                  *)
Skip ==
  /\ At(Root, "idle")
  /\ todo <= Len(Table) /\ Table[todo] = NULL
  /\ todo' = todo + 1
  /\ UNCHANGED <<pc, op, arg, dx, thread, cancelled, deleted, lists, rqstarting,
                 walk>>

(* reqctsk, in reqstart or by a task: pthread_create ...                   *)
Create(t, u) ==
  /\ \/ /\ t = Root /\ At(Root, "idle")
        /\ todo <= Len(Table) /\ u = Table[todo]
        /\ todo' = todo + 1
     \/ /\ Free(t) /\ (Serial => In(TaskOps) = {})
        /\ pc[u] = "none" \/ (Recreate /\ pc[u] = "dead")
        /\ UNCHANGED todo
  /\ pc' = [pc EXCEPT ![u] = "new"]
  /\ op' = [op EXCEPT ![t] = "setthread", ![u] = "idle"]
  /\ arg' = [arg EXCEPT ![t] = u]
  /\ thread' = thread \ {u}  \* that of its former thread at best
  /\ cancelled' = cancelled \ {u} /\ deleted' = deleted \ {u}
  /\ UNCHANGED <<dx, lists, rqstarting, walk>>

(* ... then the descriptor gets the thread, and goes to the list's end.    *)
SetThreadX(t) ==
  /\ At(t, "setthread")
  /\ Goto(t, "linktail")
  /\ UNCHANGED <<pc, arg, dx, thread, cancelled, deleted, lists,
                 rqstarting, todo, walk>>
SetThread(t) ==
  /\ At(t, "setthread")
  /\ thread' = thread \cup {arg[t]}
  /\ Goto(t, "linktail")
  /\ UNCHANGED <<pc, arg, dx, cancelled, deleted, lists, rqstarting,
                 todo, walk>>

LinkTail(t) ==
  /\ At(t, "linktail")
  /\ link' = [link EXCEPT ![tail] = arg[t]]
  /\ Goto(t, "settail")
  /\ UNCHANGED <<pc, arg, dx, thread, cancelled, deleted, tail, extail,
                 mutex1, registered, rqstarting, todo, walk>>

SetTail(t) ==
  /\ At(t, "settail")
  /\ tail' = arg[t]
  /\ Goto(t, "endlist")
  /\ UNCHANGED <<pc, arg, dx, thread, cancelled, deleted, link, extail,
                 mutex1, registered, rqstarting, todo, walk>>

EndList(t) ==
  /\ At(t, "endlist")
  /\ link' = [link EXCEPT ![arg[t]] = NULL]
  /\ Goto(t, "idle") /\ Forget(t)
  /\ UNCHANGED <<pc, thread, cancelled, deleted, tail, extail,
                 mutex1, registered, rqstarting, todo, walk>>

-----------------------------------------------------------------------------
(* reqrun: a thread created while the system is starting waits until the   *)
(* two system tasks and all those of the table have come to the barrier.   *)
CountX == Len(Table)  \* NULL entries too
CountY == Cardinality(Filled) - 1
Count == Cardinality(Filled)

Start(u) ==
  /\ pc[u] = "new"
  /\ pc' = [pc EXCEPT ![u] = IF rqstarting THEN "arriving" ELSE "body"]
  /\ UNCHANGED <<op, arg, dx, thread, cancelled, deleted, lists, rqstarting,
                 todo, walk>>

Arrive(u) ==
  /\ pc[u] = "arriving"
  /\ LET waiting == {v \in Tasks : pc[v] = "barrier"} \cup {u} IN
     pc' = [v \in Threads |->
              IF v \notin waiting THEN pc[v]
              ELSE IF Cardinality(waiting) = Count THEN "released"
              ELSE "barrier"]
  /\ UNCHANGED <<op, arg, dx, thread, cancelled, deleted, lists, rqstarting,
                 todo, walk>>

Released(u) ==
  /\ pc[u] = "released"
  /\ rqstarting' = FALSE
  /\ pc' = [pc EXCEPT ![u] = "sleep"]
  /\ UNCHANGED <<op, arg, dx, thread, cancelled, deleted, lists,
                 todo, walk>>

Slept(u) ==
  /\ pc[u] = "sleep"
  /\ pc' = [pc EXCEPT ![u] = "body"]
  /\ UNCHANGED <<op, arg, dx, thread, cancelled, deleted, lists,
                 rqstarting, todo, walk>>

-----------------------------------------------------------------------------
(* reqdtsk (DEL_FROM_LIST is not defined): the task stays in the list.     *)
reqdtsk(t, u) ==
  /\ Free(t) /\ u \in (thread \cap Tasks) \ System
  /\ deleted' = deleted \cup {u}
  /\ IF t = u
     THEN /\ pc' = [pc EXCEPT ![t] = "dead"]
          /\ UNCHANGED cancelled
     ELSE /\ cancelled' = cancelled \cup (IF pc[u] = "dead" THEN {} ELSE {u})
          /\ UNCHANGED pc
  /\ UNCHANGED <<op, arg, dx, thread, lists, rqstarting, todo, walk>>

(* The thread ends where it next sleeps or waits, or prints: also between  *)
(* pthread_create and the moment the new task is in the list.              *)
Cancelled(u) ==
  /\ u \in cancelled
  /\ \/ pc[u] = "sleep"
     \/ At(u, "idle") \/ At(u, "setthread")
  /\ pc' = [pc EXCEPT ![u] = "dead"]
  /\ cancelled' = cancelled \ {u}
  /\ UNCHANGED <<op, arg, dx, thread, deleted, lists, rqstarting,
                 todo, walk>>

-----------------------------------------------------------------------------
(* reqcxch, all of it with mutex1: the exchange goes to the list's end.    *)
(* The unlock is one step with the last access before it.                  *)
CreateExchange(t, e) ==
  /\ Free(t) /\ e \notin registered
  /\ Serial => In(DxOps) = {}
  /\ mutex1 = NULL /\ mutex1' = t
  /\ arg' = [arg EXCEPT ![t] = e]
  /\ Goto(t, "exlink")
  /\ due' = IF at # NULL /\ e \in Reach(at) THEN {} ELSE due
  /\ UNCHANGED <<pc, dx, thread, cancelled, deleted, link, tail, extail,
                 registered, rqstarting, todo, at, seen>>

ExLink(t) ==
  /\ At(t, "exlink")
  /\ link' = [link EXCEPT ![extail] = arg[t]]
  /\ Goto(t, "extail")
  /\ UNCHANGED <<pc, arg, dx, thread, cancelled, deleted, tail, extail, mutex1,
                 registered, rqstarting, todo, walk>>

ExTail(t) ==
  /\ At(t, "extail")
  /\ extail' = arg[t]
  /\ Goto(t, "exend")
  /\ UNCHANGED <<pc, arg, dx, thread, cancelled, deleted, link, tail, mutex1,
                 registered, rqstarting, todo, walk>>

ExEnd(t) ==
  /\ At(t, "exend")
  /\ link' = [link EXCEPT ![arg[t]] = NULL]
  /\ mutex1' = NULL
  /\ registered' = registered \cup {arg[t]}
  /\ Goto(t, "idle") /\ Forget(t)
  /\ UNCHANGED <<pc, thread, cancelled, deleted, tail, extail, rqstarting, todo,
                 walk>>

(* reqdxch, without mutex1: if the exchange is not in use (what is in its  *)
(* queues is not modelled here), find the one before it, read what comes   *)
(* after it, and join these two.  The head of the list is never found.     *)
DeleteExchange(t, e) ==
  /\ Free(t) /\ e \in registered
  /\ Serial => In(CxOps \cup DxOps) = {}
  /\ arg' = [arg EXCEPT ![t] = e]
  /\ Goto(t, "dxtest")
  /\ UNCHANGED <<pc, dx, thread, cancelled, deleted, lists, rqstarting, todo,
                 walk>>

DxTest(t) ==
  /\ At(t, "dxtest")
  /\ \/ Goto(t, "idle") /\ Forget(t)
     \/ /\ Goto(t, "dxwalk")
        /\ prev' = [prev EXCEPT ![t] = DelayEx]
        /\ UNCHANGED <<arg, curr, nxt>>
  /\ UNCHANGED <<pc, thread, cancelled, deleted, lists, rqstarting, todo, walk>>

DxWalk(t) ==
  /\ At(t, "dxwalk")
  /\ \/ prev[t] = NULL /\ Goto(t, "idle") /\ Forget(t)
     \/ /\ prev[t] # NULL
        /\ Goto(t, IF link[prev[t]] = arg[t] THEN "dxcurr" ELSE "dxstep")
        /\ UNCHANGED <<arg, dx>>
  /\ UNCHANGED <<pc, thread, cancelled, deleted, lists, rqstarting, todo, walk>>

DxStep(t) ==
  /\ At(t, "dxstep") /\ Goto(t, "dxwalk")
  /\ prev' = [prev EXCEPT ![t] = link[prev[t]]]
  /\ UNCHANGED <<pc, arg, curr, nxt, thread, cancelled, deleted, lists,
                 rqstarting, todo, walk>>

DxCurr(t) ==
  /\ At(t, "dxcurr") /\ Goto(t, "dxnext")
  /\ curr' = [curr EXCEPT ![t] = link[prev[t]]]
  /\ UNCHANGED <<pc, arg, prev, nxt, thread, cancelled, deleted, lists,
                 rqstarting, todo, walk>>

(* The model stops where the code reads through a null pointer.            *)
DxNext(t) ==
  /\ At(t, "dxnext") /\ Goto(t, "dxlink")
  /\ curr[t] # NULL
  /\ nxt' = [nxt EXCEPT ![t] = link[curr[t]]]
  /\ UNCHANGED <<pc, arg, prev, curr, thread, cancelled, deleted, lists,
                 rqstarting, todo, walk>>

DxLinkX(t) ==
  /\ At(t, "dxlink")
  /\ link' = [link EXCEPT ![prev[t]] = nxt[t], ![arg[t]] = NULL]
  /\ registered' = registered \ {arg[t]}
  /\ due' = due \ {arg[t]}
  /\ Goto(t, "dxtail")
  /\ UNCHANGED <<pc, arg, dx, thread, cancelled, deleted, tail, extail,
                 mutex1, rqstarting, todo, at, seen>>
DxLink(t) ==
  /\ At(t, "dxlink")
  /\ link' = [link EXCEPT ![prev[t]] = nxt[t]]
  /\ registered' = registered \ {arg[t]}
  /\ due' = due \ {arg[t]}
  /\ Goto(t, "dxtail")
  /\ UNCHANGED <<pc, arg, dx, thread, cancelled, deleted, tail, extail,
                 mutex1, rqstarting, todo, at, seen>>

DxTailX(t) ==
  /\ At(t, "dxtail")
  /\ Goto(t, "idle") /\ Forget(t)
  /\ UNCHANGED <<pc, thread, cancelled, deleted, lists, rqstarting, todo, walk>>
DxTail(t) ==
  /\ At(t, "dxtail")
  /\ \/ extail = curr[t] /\ Goto(t, "dxset") /\ UNCHANGED <<arg, dx>>
     \/ extail # curr[t] /\ Goto(t, "idle") /\ Forget(t)
  /\ UNCHANGED <<pc, thread, cancelled, deleted, lists, rqstarting, todo, walk>>

DxSet(t) ==
  /\ At(t, "dxset")
  /\ extail' = prev[t]
  /\ Goto(t, "idle") /\ Forget(t)
  /\ UNCHANGED <<pc, thread, cancelled, deleted, link, tail, mutex1, registered,
                 rqstarting, todo, walk>>

-----------------------------------------------------------------------------
(* The displays, by the root task: a walk along the tasks or along the     *)
(* exchanges, a step for each, without a lock.                             *)
Begin(head) ==
  /\ at = NULL /\ rqstarting = FALSE
  /\ at' = head /\ seen' = {}
  /\ due' = Reach(head) \cap (Threads \cup registered)
  /\ UNCHANGED <<pc, op, arg, dx, thread, cancelled, deleted, lists,
                 rqstarting, todo>>
display_task_list == Begin(Root)
display_exchange_list == Begin(DelayEx)

Walk ==
  /\ at # NULL
  /\ at' = link[at]
  /\ seen' = seen \cup {at}
  /\ UNCHANGED <<pc, op, arg, dx, thread, cancelled, deleted, lists,
                 rqstarting, todo, due>>

-----------------------------------------------------------------------------
Reqrun(u) == Start(u) \/ Arrive(u) \/ Released(u) \/ Slept(u)
Going(t) ==
  \/ SetThread(t) \/ LinkTail(t) \/ SetTail(t) \/ EndList(t)
  \/ ExLink(t) \/ ExTail(t) \/ ExEnd(t)
  \/ DxTest(t) \/ DxWalk(t) \/ DxStep(t) \/ DxCurr(t) \/ DxNext(t)
  \/ DxLink(t) \/ DxTail(t) \/ DxSet(t)

Next ==
  \/ \E t \in Threads :
       \/ Going(t)
       \/ \E u \in Tasks : Create(t, u) \/ reqdtsk(t, u)
       \/ \E e \in Exchanges : CreateExchange(t, e) \/ DeleteExchange(t, e)
  \/ \E u \in Tasks : Reqrun(u) \/ Cancelled(u)
  \/ Skip
  \/ display_task_list \/ display_exchange_list \/ Walk

Spec == Init /\ [][Next]_vars

(* Threads run on; reqstart goes on to the end of its table.               *)
Fairness ==
  /\ \A t \in Threads : WF_vars(Going(t))
  /\ \A u \in Tasks :
       WF_vars(Reqrun(u)) /\ WF_vars(Create(Root, u) /\ todo' # todo)
  /\ WF_vars(Skip)

FairSpec == Spec /\ Fairness

-----------------------------------------------------------------------------
(* ycore.c:1410: "avoid starting tasks before all have been created".      *)
StartTogether ==
  (\E u \in Initial : pc[u] \in {"released", "sleep", "body"}) =>
    \A u \in Initial : pc[u] # "none"

(* A task that runs is found by active_task, which all its calls need,     *)
(* unless its creator is, or was when it was cancelled, between its        *)
(* pthread_create and the end of the list (ycore.c:716-748).               *)
Unlisted ==
  \A u \in Tasks :
    pc[u] = "body" /\ ~active_task(u) =>
      \E t \in Threads : arg[t] = u /\ op[t] \in {"setthread", "linktail"}

(* When nobody is in reqctsk, the last task is the end of the list: what   *)
(* is appended next is not lost.                                           *)
TasksSound == In(TaskOps) = {} => tail \in Reach(Root) /\ link[tail] = NULL

(* Nor is an exchange lost, when nobody is in reqcxch or reqdxch; and the  *)
(* list holds what was created and not removed, whichever tasks create     *)
(* exchanges, and tasks, at once.                                          *)
ExchangesSound ==
  In(CxOps \cup DxOps) = {} =>
    /\ extail \in Reach(DelayEx) /\ link[extail] = NULL
    /\ Reach(DelayEx) = registered

ListsSound == TasksSound /\ ExchangesSound

(* Every task that is created comes to run, unless it is cancelled before. *)
EveryTaskRuns ==
  \A u \in Tasks : pc[u] = "new" ~> pc[u] \in {"body", "dead"}

(* A display that is done has shown everything that was in the list from   *)
(* its beginning to its end, whatever was appended and removed meanwhile,  *)
(* also under its feet: unless an exchange to which it came, or was to     *)
(* come, was removed and created again, and so put at the end.             *)
WalkWhole == at = NULL => due \subseteq seen

(* ycore.c:764, at reqcxch's mutex1: "avoid conflicts".                    *)
NoConflict ==
  In(CxOps \cup DxOps) = {} => Reach(DelayEx) = registered

(* rqdtsk.8: "The task is removed from the system", so that its descriptor *)
(* can be given to rqctsk again; no other task may be lost by that, but    *)
(* for one whose creator was cancelled in the middle.                      *)
NobodyLost ==
  In(TaskOps) = {} =>
    \A u \in Tasks :
      pc[u] = "body" /\ ~active_task(u) =>
        \E t \in Tasks : pc[t] = "dead" /\ arg[t] = u
=============================================================================
