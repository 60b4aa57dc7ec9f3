------------------------------ MODULE Exchange ------------------------------
(***************************************************************************)
(* The message passing core of YRmx (ycore.c): exchanges, and the tasks    *)
(* that call reqsend, reqisnd, reqacpt and reqwait (with delay 0) on them, *)
(* as pthreads that share memory.                                          *)
(*                                                                         *)
(* Each call is cut where the code synchronises: at the lock of the        *)
(* exchange's mutex, at sem_post, at the return of sem_wait, at the second *)
(* lock in reqwait and at the freeze test of exit_region.  A critical      *)
(* section that ends with the unlock of the same mutex is one step; the    *)
(* section of reqsend's error path, which returns without unlocking,       *)
(* leaves the mutex taken.                                                 *)
(*                                                                         *)
(* RejectedSystem, RejectedNull, RejectedQueued, SendHandKeep,             *)
(* SendHandLast, SendPostFirst, SendPostGated, LinkAfterSystem and         *)
(* WaitBlockBlind are plausible mistakes in the definitions after them;    *)
(* nothing uses them.                                                      *)
(***************************************************************************)
EXTENDS Naturals, Sequences

CONSTANTS
  Tasks,        \* threads with a TASK_DESCRIPTOR, the root task excluded
  Exchanges,    \* initialised EXCHANGE_DESCRIPTORs
  IntExchanges, \* the INT_EXCHANGE_DESCRIPTORs among them
  Handler,      \* the one task that runs an interrupt exchange's handler
  Messages,     \* user messages (MSG_DESCRIPTOR)
  Careless,     \* tasks that may send a message they do not own
  NULL,         \* the null pointer
  Self,         \* link of an interrupt message that is not queued
  Chained       \* link of a queued message: next message, or end of queue

(***************************************************************************)
(* The message of an interrupt exchange is part of the exchange            *)
(* descriptor (&exch->link), so it is named by the exchange itself.        *)
(***************************************************************************)
AllMessages == Messages \cup IntExchanges

ASSUME ExchangeAssumption ==
  /\ Exchanges # {}
  /\ IntExchanges \subseteq Exchanges
  /\ Messages \cap Exchanges = {}
  /\ Handler \in [IntExchanges -> Tasks]
  /\ Careless \subseteq Tasks
  /\ NULL \notin Tasks \cup AllMessages
  /\ {Self, Chained} \cap (Tasks \cup {NULL}) = {}
  /\ Self # Chained

VARIABLES
  pc,       \* where each task's thread stands in the call it is making
  exch,     \* the call's exchange argument
  msg,      \* reqsend's message argument
  peer,     \* reqsend's local `task', the waiting task it made ready
  link,     \* msg->link of every message
  msgq,     \* message_head .. message_tail of every exchange
  taskq,    \* task_head .. task_tail of every exchange
  message,  \* task->message
  sema,     \* value of task->sema
  mutex,    \* holder of exch->mutex between two steps
  rqfrozen

vars == <<pc, exch, msg, peer, link, msgq, taskq, message, sema, mutex,
          rqfrozen>>

args == <<exch, msg, peer>>
queues == <<link, msgq, taskq, message>>

Locations ==
  {"user",    \* outside of YRmx
   "send", "accept", "wait",  \* at the lock of the exchange's mutex
   "senderr", \* in reqsend's error branch, before rqfreeze
   "stopped", \* at the freeze test of rqfreeze, or out of that branch
   "post",    \* exchange unlocked, before sem_post of the receiver
   "blocked", \* in sem_wait
   "relock",  \* back from sem_wait, at the second lock of the mutex
   "check",   \* before the test for a NULL message
   "gate"}    \* at the freeze test of exit_region

InTaskQueue(t, e) == \E i \in 1..Len(taskq[e]) : taskq[e][i] = t
Enqueued(t) == \E e \in Exchanges : InTaskQueue(t, e)
InMessageQueue(m, e) == \E i \in 1..Len(msgq[e]) : msgq[e][i] = m

(***************************************************************************)
(* Static descriptors before any call: exchanges initialised by reqcxch,   *)
(* interrupt messages linked to themselves, user messages not yet created. *)
(***************************************************************************)
Init ==
  /\ pc = [t \in Tasks |-> "user"]
  /\ exch = [t \in Tasks |-> CHOOSE e \in Exchanges : TRUE]
  /\ msg = [t \in Tasks |-> NULL]
  /\ peer = [t \in Tasks |-> NULL]
  /\ link = [m \in AllMessages |-> IF m \in IntExchanges THEN Self ELSE NULL]
  /\ msgq = [e \in Exchanges |-> << >>]
  /\ taskq = [e \in Exchanges |-> << >>]
  /\ message = [t \in Tasks |-> NULL]
  /\ sema = [t \in Tasks |-> 0]
  /\ mutex = [e \in Exchanges |-> NULL]
  /\ rqfrozen = FALSE

-----------------------------------------------------------------------------
(* reqcmsg: the task that initialises a message becomes its owner.         *)
reqcmsg(t, m) ==
  /\ pc[t] = "user"
  /\ link[m] = NULL
  /\ link' = [link EXCEPT ![m] = t]
  /\ UNCHANGED <<pc, args, msgq, taskq, message, sema, mutex, rqfrozen>>

(* A thread enters a call; the arguments are its locals from here on.      *)
Call(t, where, e, m) ==
  /\ pc[t] = "user"
  /\ pc' = [pc EXCEPT ![t] = where]
  /\ exch' = [exch EXCEPT ![t] = e]
  /\ msg' = [msg EXCEPT ![t] = m]
  /\ UNCHANGED <<peer, queues, sema, mutex, rqfrozen>>

CallSend(t, e, m) ==
  /\ link[m] = t \/ t \in Careless
  /\ Call(t, "send", e, m)

(* reqisnd: sends the exchange's own message when it is linked to itself;  *)
(* otherwise the interrupt is only marked as missed in the message's type. *)
CallIsnd(t, e) ==
  /\ Handler[e] = t
  /\ link[e] = Self
  /\ Call(t, "send", e, e)

CallAccept(t, e) == Call(t, "accept", e, NULL)
CallWait(t, e) == Call(t, "wait", e, NULL)

(* reqfreeze by a task: it stops itself as well.  When the system is frozen *)
(* already the call has no effect.                                         *)
CallFreeze(t) ==
  /\ pc[t] = "user"
  /\ ~rqfrozen
  /\ rqfrozen' = TRUE
  /\ pc' = [pc EXCEPT ![t] = "stopped"]
  /\ UNCHANGED <<args, queues, sema, mutex>>

-----------------------------------------------------------------------------
(* reqsend.  The message must be owned by the caller or be linked to       *)
(* itself, and an exchange never has tasks and messages queued at once.    *)
RejectedSystem(t) ==
  link[msg[t]] # t \/ (taskq[exch[t]] # << >> /\ msgq[exch[t]] # << >>)
RejectedNull(t) == link[msg[t]] = NULL
RejectedQueued(t) == link[msg[t]] \in {NULL, Chained}

Rejected(t) ==
  \/ link[msg[t]] \notin {t, Self}
  \/ taskq[exch[t]] # << >> /\ msgq[exch[t]] # << >>

(* user_error is printed with the exchange's mutex held, and the branch    *)
(* has no unlock.                                                          *)
SendReject(t) ==
  /\ pc[t] = "send"
  /\ mutex[exch[t]] = NULL
  /\ Rejected(t)
  /\ mutex' = [mutex EXCEPT ![exch[t]] = t]
  /\ pc' = [pc EXCEPT ![t] = "senderr"]
  /\ UNCHANGED <<args, queues, sema, rqfrozen>>

(* rqfreeze: whether or not the system is frozen already, the caller ends  *)
(* up waiting for rqbake.                                                  *)
SendFreeze(t) ==
  /\ pc[t] = "senderr"
  /\ rqfrozen' = TRUE
  /\ pc' = [pc EXCEPT ![t] = "stopped"]
  /\ UNCHANGED <<args, queues, sema, mutex>>

(* No task waits: the message goes to the tail, and the call returns.      *)
SendQueue(t) ==
  LET e == exch[t] IN
  /\ pc[t] = "send"
  /\ mutex[e] = NULL
  /\ ~Rejected(t)
  /\ taskq[e] = << >>
  /\ msgq' = [msgq EXCEPT ![e] = Append(@, msg[t])]
  /\ link' = [link EXCEPT ![msg[t]] = Chained]
  /\ pc' = [pc EXCEPT ![t] = "user"]
  /\ UNCHANGED <<args, taskq, message, sema, mutex, rqfrozen>>

(* The waiting task w gets the message and the rest of the queue remains;  *)
(* a system message stays linked to itself.                                *)
HandTo(t, w, rest) ==
  /\ pc[t] = "send"
  /\ mutex[exch[t]] = NULL
  /\ ~Rejected(t)
  /\ taskq[exch[t]] # << >>
  /\ taskq' = [taskq EXCEPT ![exch[t]] = rest]
  /\ link' = [link EXCEPT ![msg[t]] = IF msg[t] \in IntExchanges
                                      THEN Self ELSE w]
  /\ message' = [message EXCEPT ![w] = msg[t]]
  /\ peer' = [peer EXCEPT ![t] = w]
  /\ pc' = [pc EXCEPT ![t] = "post"]
  /\ UNCHANGED <<exch, msg, msgq, sema, mutex, rqfrozen>>

SendHandKeep(t) == HandTo(t, Head(taskq[exch[t]]), taskq[exch[t]])
SendHandLast(t) == LET q == taskq[exch[t]]
                   IN  HandTo(t, q[Len(q)], SubSeq(q, 1, Len(q) - 1))

(* It is the first of the queue; sem_post comes after the unlock.          *)
SendHand(t) == HandTo(t, Head(taskq[exch[t]]), Tail(taskq[exch[t]]))

SendPostFirst(t) ==
  LET q == taskq[exch[t]]
      w == IF q = << >> THEN peer[t] ELSE Head(q)
  IN
  /\ pc[t] = "post"
  /\ sema' = [sema EXCEPT ![w] = @ + 1]
  /\ pc' = [pc EXCEPT ![t] = "user"]
  /\ UNCHANGED <<args, queues, mutex, rqfrozen>>

SendPostGated(t) ==
  /\ pc[t] = "post"
  /\ ~rqfrozen
  /\ sema' = [sema EXCEPT ![peer[t]] = @ + 1]
  /\ pc' = [pc EXCEPT ![t] = "user"]
  /\ UNCHANGED <<args, queues, mutex, rqfrozen>>

SendPost(t) ==
  /\ pc[t] = "post"
  /\ sema' = [sema EXCEPT ![peer[t]] = @ + 1]
  /\ pc' = [pc EXCEPT ![t] = "user"]
  /\ UNCHANGED <<args, queues, mutex, rqfrozen>>

-----------------------------------------------------------------------------
(* reqdqmsg: the head message goes to the calling task, which owns it from *)
(* now on; the exchange's own interrupt message is linked to itself again. *)
(* With tasks queued as well it reports EXCH_ERR and hands out NULL.       *)
LinkAfterSystem(t, e, m) == Self
LinkAfter(t, e, m) == IF m = e THEN Self ELSE t

reqdqmsg(t, e) ==
  LET m == Head(msgq[e]) IN
  IF taskq[e] # << >>
  THEN /\ message' = [message EXCEPT ![t] = NULL]
       /\ UNCHANGED <<link, msgq>>
  ELSE /\ message' = [message EXCEPT ![t] = m]
       /\ link' = [link EXCEPT ![m] = LinkAfter(t, e, m)]
       /\ msgq' = [msgq EXCEPT ![e] = Tail(@)]

(* reqacpt                                                                 *)
Accept(t) ==
  LET e == exch[t] IN
  /\ pc[t] = "accept"
  /\ mutex[e] = NULL
  /\ IF msgq[e] = << >>
     THEN /\ message' = [message EXCEPT ![t] = NULL]
          /\ UNCHANGED <<link, msgq>>
     ELSE reqdqmsg(t, e)
  /\ pc' = [pc EXCEPT ![t] = "gate"]
  /\ UNCHANGED <<args, taskq, sema, mutex, rqfrozen>>

(* reqwait with a message at hand                                          *)
WaitTake(t) ==
  LET e == exch[t] IN
  /\ pc[t] = "wait"
  /\ mutex[e] = NULL
  /\ msgq[e] # << >>
  /\ reqdqmsg(t, e)
  /\ pc' = [pc EXCEPT ![t] = "check"]
  /\ UNCHANGED <<args, taskq, sema, mutex, rqfrozen>>

(* reqwait without: the task is queued and blocks on its semaphore.        *)
Block(t) ==
  /\ taskq' = [taskq EXCEPT ![exch[t]] = Append(@, t)]
  /\ pc' = [pc EXCEPT ![t] = "blocked"]
  /\ UNCHANGED <<args, link, msgq, message, sema, mutex, rqfrozen>>

WaitBlockBlind(t) == pc[t] = "wait" /\ Block(t)

WaitBlock(t) ==
  /\ pc[t] = "wait"
  /\ mutex[exch[t]] = NULL
  /\ msgq[exch[t]] = << >>
  /\ Block(t)

Awake(t) ==
  /\ pc[t] = "blocked"
  /\ sema[t] > 0
  /\ sema' = [sema EXCEPT ![t] = @ - 1]
  /\ pc' = [pc EXCEPT ![t] = "relock"]
  /\ UNCHANGED <<args, queues, mutex, rqfrozen>>

Relock(t) ==
  /\ pc[t] = "relock"
  /\ mutex[exch[t]] = NULL
  /\ pc' = [pc EXCEPT ![t] = "check"]
  /\ UNCHANGED <<args, queues, sema, mutex, rqfrozen>>

(* A NULL message here is a system error that freezes YRmx.                *)
Check(t) ==
  /\ pc[t] = "check"
  /\ rqfrozen' = (rqfrozen \/ message[t] = NULL)
  /\ pc' = [pc EXCEPT ![t] = "gate"]
  /\ UNCHANGED <<args, queues, sema, mutex>>

(* exit_region: the call returns when the system is not frozen.            *)
Gate(t) ==
  /\ pc[t] \in {"gate", "stopped"}
  /\ ~rqfrozen
  /\ pc' = [pc EXCEPT ![t] = "user"]
  /\ UNCHANGED <<args, queues, sema, mutex, rqfrozen>>

-----------------------------------------------------------------------------
(* The root task (the program's main thread) may freeze, which does not    *)
(* stop it, and bake.                                                      *)
reqfreeze ==
  /\ ~rqfrozen
  /\ rqfrozen' = TRUE
  /\ UNCHANGED <<pc, args, queues, sema, mutex>>

reqbake ==
  /\ rqfrozen
  /\ rqfrozen' = FALSE
  /\ UNCHANGED <<pc, args, queues, sema, mutex>>

(* What a thread does once it is inside a call.                            *)
Inside(t) ==
  \/ SendReject(t) \/ SendFreeze(t) \/ SendQueue(t) \/ SendHand(t)
  \/ SendPost(t)
  \/ Accept(t) \/ WaitTake(t) \/ WaitBlock(t)
  \/ Awake(t) \/ Relock(t) \/ Check(t) \/ Gate(t)

User(t) ==
  \/ \E m \in Messages : reqcmsg(t, m)
  \/ \E e \in Exchanges, m \in Messages : CallSend(t, e, m)
  \/ \E e \in IntExchanges : CallIsnd(t, e)
  \/ \E e \in Exchanges : CallAccept(t, e) \/ CallWait(t, e)
  \/ CallFreeze(t)

Next ==
  \/ \E t \in Tasks : User(t) \/ Inside(t)
  \/ reqfreeze
  \/ reqbake

Spec == Init /\ [][Next]_vars

(* The scheduler does not abandon a thread that can run.                   *)
FairSpec == Spec /\ \A t \in Tasks : WF_vars(Inside(t))

-----------------------------------------------------------------------------
(* TypeOK: every variable ranges over what the code can store in it; in    *)
(* particular a task's semaphore never counts above one.                   *)
TypeOK ==
  /\ pc \in [Tasks -> Locations]
  /\ exch \in [Tasks -> Exchanges]
  /\ msg \in [Tasks -> AllMessages \cup {NULL}]
  /\ peer \in [Tasks -> Tasks \cup {NULL}]
  /\ link \in [AllMessages -> Tasks \cup {NULL, Self, Chained}]
  /\ msgq \in [Exchanges -> Seq(AllMessages)]
  /\ taskq \in [Exchanges -> Seq(Tasks)]
  /\ message \in [Tasks -> AllMessages \cup {NULL}]
  /\ sema \in [Tasks -> {0, 1}]
  /\ mutex \in [Exchanges -> Tasks \cup {NULL}]
  /\ rqfrozen \in BOOLEAN

(* OneQueue: an exchange never has a waiting task and a waiting message at *)
(* the same time ("only one of the two lists can be non-empty", the        *)
(* EXCHANGE_DESCRIPTOR comment of ycore.h), so no task sleeps beside a     *)
(* message it could have had.                                              *)
OneQueue == \A e \in Exchanges : taskq[e] = << >> \/ msgq[e] = << >>

(* OneHome: a message linked as queued is in one place of one exchange's   *)
(* queue, and a message in a queue is linked as queued: reqsend and        *)
(* reqdqmsg neither lose a message nor hand it out twice.                  *)
OneHome ==
  /\ \A m \in AllMessages :
       link[m] = Chained <=> \E e \in Exchanges : InMessageQueue(m, e)
  /\ \A d, e \in Exchanges : \A i \in 1..Len(msgq[d]), j \in 1..Len(msgq[e]) :
       msgq[d][i] = msgq[e][j] => d = e /\ i = j

Posting(s, t) == pc[s] = "post" /\ peer[s] = t
Posted(t) == \E s \in Tasks : Posting(s, t)

(* NoLostWakeup: a task blocked in reqwait is still in the queue of the    *)
(* exchange it waits at, or the one sender that took it out is about to    *)
(* post its semaphore, or the semaphore is up: never none of these, and    *)
(* never two, which would wake it from a later wait.                       *)
NoLostWakeup ==
  \A t \in Tasks : pc[t] = "blocked" =>
    /\ \/ InTaskQueue(t, exch[t]) /\ ~Posted(t) /\ sema[t] = 0
       \/ ~Enqueued(t) /\ Posted(t) /\ sema[t] = 0
       \/ ~Enqueued(t) /\ ~Posted(t) /\ sema[t] = 1
    /\ \A r, s \in Tasks : Posting(r, t) /\ Posting(s, t) => r = s

(* A task that has been handed a message, from the send on until it is     *)
(* back in the user's code.                                                *)
Receiving(t) ==
  \/ pc[t] = "blocked" /\ ~Enqueued(t)
  \/ pc[t] \in {"relock", "check"}
  \/ pc[t] = "gate" /\ message[t] # NULL

(* ReceiverOwns: whatever the other tasks do meanwhile, a user message     *)
(* that a task is about to get is linked to that task (ycore.h, "the link  *)
(* points to the task descriptor, and establishes message ownership"), and *)
(* reqwait never returns NULL.                                             *)
ReceiverOwns ==
  \A t \in Tasks : Receiving(t) =>
    /\ message[t] # NULL
    /\ message[t] \in Messages => link[message[t]] = t

(* OwnerGives: the ownership of a user message leaves a task only by a     *)
(* reqsend of that task, even when other tasks try to send the message.    *)
OwnerGives ==
  [][\A m \in Messages, t \in Tasks :
       link[m] = t /\ link'[m] # t =>
         pc[t] = "send" /\ msg[t] = m /\ pc'[t] \in {"user", "post"}]_vars

(* NoSystemError: tasks that send only their own messages never freeze     *)
(* YRmx by a system error and never leave an exchange locked.              *)
NoSystemError ==
  Careless = {} =>
    /\ \A t \in Tasks : pc[t] # "senderr"
    /\ \A e \in Exchanges : mutex[e] = NULL

(* Served: a task that was handed a message gets out of reqwait, up to the *)
(* freeze test, whatever the other tasks and the freeze do.                *)
Served ==
  \A t \in Tasks :
    (pc[t] = "blocked" /\ ~Enqueued(t)) ~> (pc[t] = "gate")

(* BakeRestores: a call that is waiting for the exchange's mutex goes on,  *)
(* unless the system is frozen (rqbake.8, "The tasks running when rqfreeze *)
(* was called are made running again").                                    *)
BakeRestores ==
  \A t \in Tasks :
    (pc[t] \in {"send", "accept", "wait"})
      ~> (pc[t] \notin {"send", "accept", "wait"} \/ rqfrozen)

-----------------------------------------------------------------------------
(* The exchanges implement the mailboxes.                                  *)
inboxOf == [t \in Tasks |-> IF Receiving(t) THEN message[t] ELSE NULL]
ownerOf == [m \in Messages |-> link[m]]

MB == INSTANCE Mailbox WITH
        Clients <- Tasks, Boxes <- Exchanges, Letters <- Messages,
        Bells <- IntExchanges, Nothing <- NULL, InTransit <- Chained,
        mail <- msgq, line <- taskq, inbox <- inboxOf, owner <- ownerOf

(* ImplementsMailbox: seen through the queues, the links and the messages  *)
(* about to be returned, every step of the calls is a step of Mailbox.     *)
ImplementsMailbox == MB!MSpec

-----------------------------------------------------------------------------
(* The inductive invariant behind these properties.                        *)

(* A queued message is linked as queued, is queued once, and an interrupt  *)
(* message only at its own exchange; only interrupt messages are linked to *)
(* themselves, and they always are when they are not queued.               *)
QueuedMessages ==
  /\ \A e \in Exchanges : \A i \in 1..Len(msgq[e]) :
       /\ link[msgq[e][i]] = Chained
       /\ msgq[e][i] \in IntExchanges => msgq[e][i] = e
  /\ \A m \in IntExchanges : link[m] \in {Self, Chained}
  /\ \A m \in Messages : link[m] # Self

(* A queued task is asleep in reqwait at that exchange, queued once, and   *)
(* nobody has posted it or is about to.                                    *)
QueuedTasks ==
  \A e \in Exchanges : \A i \in 1..Len(taskq[e]) :
    /\ pc[taskq[e][i]] = "blocked"
    /\ exch[taskq[e][i]] = e
    /\ sema[taskq[e][i]] = 0
    /\ \A s \in Tasks : ~Posting(s, taskq[e][i])
    /\ \A j \in 1..Len(taskq[e]) : taskq[e][i] = taskq[e][j] => i = j

(* A semaphore is posted once for a task that is asleep.                   *)
Posts ==
  /\ \A s \in Tasks : pc[s] = "post" =>
       /\ peer[s] \in Tasks
       /\ pc[peer[s]] = "blocked"
       /\ sema[peer[s]] = 0
       /\ \A r \in Tasks : Posting(r, peer[s]) => r = s
  /\ \A t \in Tasks : sema[t] = 1 => pc[t] = "blocked"

(* Nobody sleeps without somebody to wake it.                              *)
Sleepers ==
  \A t \in Tasks : pc[t] = "blocked" =>
    InTaskQueue(t, exch[t]) \/ Posted(t) \/ sema[t] = 1

(* What a call to reqsend may rely on.                                     *)
Senders ==
  \A t \in Tasks : pc[t] = "send" =>
    /\ msg[t] \in AllMessages
    /\ msg[t] \in IntExchanges => /\ exch[t] = msg[t]
                                  /\ Handler[msg[t]] = t
                                  /\ link[msg[t]] = Self
    /\ msg[t] \in Messages /\ t \notin Careless => link[msg[t]] = t

IInv ==
  /\ TypeOK
  /\ OneQueue
  /\ OneHome
  /\ QueuedMessages
  /\ QueuedTasks
  /\ Posts
  /\ Sleepers
  /\ Senders
  /\ ReceiverOwns
  /\ NoSystemError
=============================================================================
