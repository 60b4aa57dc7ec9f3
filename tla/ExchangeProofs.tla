--------------------------- MODULE ExchangeProofs ---------------------------
(***************************************************************************)
(* Proofs that the properties of Exchange hold for any number of tasks,    *)
(* exchanges and messages, and that it implements Mailbox.                 *)
(***************************************************************************)
EXTENDS Exchange, TLAPS

USE ExchangeAssumption

(* The invariant holds before any call.                                    *)
LEMMA InitInv == Init => IInv
<1> SUFFICES ASSUME Init PROVE IInv
  OBVIOUS
<1>1. TypeOK
  <2>1. exch \in [Tasks -> Exchanges]
    BY DEF Init
  <2>2. /\ msgq \in [Exchanges -> Seq(AllMessages)]
        /\ taskq \in [Exchanges -> Seq(Tasks)]
    BY DEF Init
  <2> QED
    BY <2>1, <2>2 DEF Init, TypeOK, Locations, AllMessages
<1>2. \A t \in Tasks : ~Receiving(t) /\ ~Posted(t)
  BY DEF Init, Receiving, Posted, Posting
<1> QED
  BY <1>1, <1>2 DEF IInv, Init, OneQueue, OneHome, QueuedMessages,
     QueuedTasks, Posts, Sleepers, Senders, ReceiverOwns, NoSystemError,
     InMessageQueue, AllMessages

(***************************************************************************)
(* Frames: what an invariant's conjunct depends on.                        *)
(***************************************************************************)
LEMMA QueueFrame ==
  ASSUME OneQueue, OneHome, QueuedMessages, UNCHANGED <<link, msgq, taskq>>
  PROVE  OneQueue' /\ OneHome' /\ QueuedMessages'
BY DEF OneQueue, OneHome, QueuedMessages, InMessageQueue

(* A step of t that neither starts nor ends a sleep or a post.             *)
LEMMA SleepFrame ==
  ASSUME TypeOK, QueuedTasks, Posts, Sleepers,
         NEW t \in Tasks, NEW x \in Locations \ {"blocked", "post"},
         pc[t] \notin {"blocked", "post"}, pc' = [pc EXCEPT ![t] = x],
         \A s \in Tasks \ {t} : exch'[s] = exch[s],
         UNCHANGED <<peer, taskq, sema>>
  PROVE  QueuedTasks' /\ Posts' /\ Sleepers'
<1>1. \A s \in Tasks : pc[s] = "blocked" => s # t /\ pc'[s] = "blocked"
  BY DEF TypeOK
<1>2. \A r, s \in Tasks : Posting(r, s)' <=> Posting(r, s)
  BY DEF TypeOK, Posting
<1>3. QueuedTasks'
  BY <1>1, <1>2 DEF QueuedTasks, TypeOK
<1>4. Posts'
  BY <1>1, <1>2 DEF Posts, TypeOK
<1>5. Sleepers'
  BY <1>1, <1>2 DEF Sleepers, TypeOK, InTaskQueue, Posted
<1> QED
  BY <1>3, <1>4, <1>5

(* With OneQueue, reqdqmsg never takes its error branch: it moves the head *)
(* message from the queue to the task.                                     *)
Dequeued(t, e, m, q) ==
  /\ 1 \in 1..Len(msgq[e]) /\ m = msgq[e][1]
  /\ Len(q) = Len(msgq[e]) - 1
  /\ \A i \in 1..Len(q) : q[i] = msgq[e][i + 1]
  /\ message' = [message EXCEPT ![t] = m]
  /\ link' = [link EXCEPT ![m] = IF m = e THEN Self ELSE t]
  /\ msgq' = [msgq EXCEPT ![e] = q]

(* reqdqmsg takes the head: with OneQueue its error branch is never taken. *)
LEMMA Dequeue ==
  ASSUME TypeOK, OneQueue, NEW t \in Tasks, NEW e \in Exchanges,
         msgq[e] # << >>, reqdqmsg(t, e)
  PROVE  \E m \in AllMessages, q \in Seq(AllMessages) : Dequeued(t, e, m, q)
<1>1. msgq[e] \in Seq(AllMessages)
  BY DEF TypeOK
<1>2. /\ Head(msgq[e]) = msgq[e][1] /\ Head(msgq[e]) \in AllMessages
      /\ 1 \in 1..Len(msgq[e])
  BY <1>1
<1>3. /\ Tail(msgq[e]) \in Seq(AllMessages)
      /\ Len(Tail(msgq[e])) = Len(msgq[e]) - 1
      /\ \A i \in 1..Len(Tail(msgq[e])) : Tail(msgq[e])[i] = msgq[e][i + 1]
  BY <1>1
<1>4. taskq[e] = << >>
  BY DEF OneQueue
<1>5. /\ message' = [message EXCEPT ![t] = Head(msgq[e])]
      /\ link' = [link EXCEPT ![Head(msgq[e])] =
                    IF Head(msgq[e]) = e THEN Self ELSE t]
      /\ msgq' = [msgq EXCEPT ![e] = Tail(msgq[e])]
  BY <1>4 DEF reqdqmsg, LinkAfter
<1> QED
  BY <1>2, <1>3, <1>5 DEF Dequeued

(* The types are kept by every step: a semaphore is only posted at zero.   *)
LEMMA TypeStep == IInv /\ [Next]_vars => TypeOK'
<1> SUFFICES ASSUME IInv, [Next]_vars PROVE TypeOK'
  OBVIOUS
<1> USE DEF Locations, AllMessages
<1>1. CASE UNCHANGED vars
  BY <1>1 DEF IInv, TypeOK, vars, args, queues
<1>2. CASE reqfreeze \/ reqbake
  BY <1>2 DEF IInv, TypeOK, reqfreeze, reqbake, args, queues
<1>3. ASSUME NEW t \in Tasks, User(t) PROVE TypeOK'
  <2>1. CASE \E m \in Messages : reqcmsg(t, m)
    BY <2>1 DEF IInv, TypeOK, reqcmsg, args
  <2>2. ASSUME NEW where \in {"send", "accept", "wait"}, NEW e \in Exchanges,
               NEW m \in AllMessages \cup {NULL}, Call(t, where, e, m)
        PROVE  TypeOK'
    BY <2>2 DEF IInv, TypeOK, Call, queues
  <2>3. CASE CallFreeze(t)
    BY <2>3 DEF IInv, TypeOK, CallFreeze, args, queues
  <2> QED
    BY <1>3, <2>1, <2>2, <2>3
    DEF User, CallSend, CallIsnd, CallAccept, CallWait
<1>4. ASSUME NEW t \in Tasks, Inside(t) PROVE TypeOK'
  <2>1. CASE SendReject(t)
    BY <2>1 DEF IInv, TypeOK, SendReject, args, queues
  <2>2. CASE SendFreeze(t)
    BY <2>2 DEF IInv, TypeOK, SendFreeze, args, queues
  <2>3. CASE SendQueue(t)
    BY <2>3 DEF IInv, TypeOK, Senders, SendQueue, args
  <2>4. CASE SendHand(t)
    BY <2>4 DEF IInv, TypeOK, Senders, SendHand, HandTo
  <2>5. CASE SendPost(t)
    BY <2>5 DEF IInv, TypeOK, Posts, SendPost, args, queues
  <2>6. CASE Accept(t) \/ WaitTake(t)
    <3>1. ASSUME NEW e \in Exchanges, msgq[e] # << >>, reqdqmsg(t, e)
          PROVE  /\ message' \in [Tasks -> AllMessages \cup {NULL}]
                 /\ link' \in [AllMessages -> Tasks \cup {NULL, Self, Chained}]
                 /\ msgq' \in [Exchanges -> Seq(AllMessages)]
      <4>1. PICK m \in AllMessages, q \in Seq(AllMessages) :
              Dequeued(t, e, m, q)
        BY <3>1, Dequeue DEF IInv
      <4> QED
        BY <4>1 DEF IInv, TypeOK, Dequeued
    <3>2. CASE Accept(t)
      BY <2>6, <3>1, <3>2 DEF IInv, TypeOK, Accept, args
    <3>3. CASE WaitTake(t)
      BY <2>6, <3>1, <3>3 DEF IInv, TypeOK, WaitTake, args
    <3> QED
      BY <2>6, <3>2, <3>3
  <2>7. CASE WaitBlock(t)
    BY <2>7 DEF IInv, TypeOK, WaitBlock, Block, args
  <2>8. CASE Awake(t)
    BY <2>8 DEF IInv, TypeOK, Awake, args, queues
  <2>9. CASE Relock(t) \/ Check(t) \/ Gate(t)
    BY <2>9 DEF IInv, TypeOK, Relock, Check, Gate, args, queues
  <2> QED
    BY <1>4, <2>1, <2>2, <2>3, <2>4, <2>5, <2>6, <2>7, <2>8, <2>9 DEF Inside
<1> QED
  BY <1>1, <1>2, <1>3, <1>4 DEF Next

(***************************************************************************)
(* The calls by the user's code, and the freeze.                           *)
(***************************************************************************)
Queues == OneQueue /\ OneHome /\ QueuedMessages
Sleep == QueuedTasks /\ Posts /\ Sleepers
Ownership == Senders /\ ReceiverOwns /\ NoSystemError

(* A task outside of the calls makes a message, or enters a call.          *)
LEMMA UserStep ==
  ASSUME IInv, TypeOK', NEW t \in Tasks, User(t)
  PROVE  Queues' /\ Sleep' /\ Ownership'
<1> USE DEF IInv, Queues, Sleep, Ownership
<1>1. CASE \E m \in Messages : reqcmsg(t, m)
  <2> PICK m \in Messages : reqcmsg(t, m)
    BY <1>1
  <2> USE DEF reqcmsg, args
  <2>1. link[m] = NULL /\ m \in AllMessages /\ link' = [link EXCEPT ![m] = t]
    BY DEF AllMessages
  <2>2. \A n \in AllMessages : link'[n] = Chained <=> link[n] = Chained
    BY <2>1 DEF TypeOK
  <2>3. Queues'
    <3>1. \A n \in IntExchanges : n # m /\ n \in AllMessages
      BY DEF AllMessages
    <3>2. \A e \in Exchanges : \A i \in 1..Len(msgq[e]) : msgq[e][i] \in AllMessages
      BY DEF TypeOK
    <3> QED
      BY <2>1, <2>2, <3>1, <3>2
      DEF OneQueue, OneHome, QueuedMessages, InMessageQueue, TypeOK
  <2>4. Sleep'
    BY DEF QueuedTasks, Posts, Sleepers, InTaskQueue, Posted, Posting
  <2>5. Ownership'
    <3>1. \A s \in Tasks : Receiving(s)' <=> Receiving(s)
      BY DEF Receiving, Enqueued, InTaskQueue
    <3>2. \A n \in AllMessages : link[n] # NULL => link'[n] = link[n]
      BY <2>1 DEF TypeOK
    <3>3. Senders'
      BY <3>2 DEF Senders, TypeOK, AllMessages
    <3>4. ReceiverOwns'
      BY <3>1, <3>2 DEF ReceiverOwns, TypeOK, AllMessages
    <3> QED
      BY <3>3, <3>4 DEF NoSystemError
  <2> QED
    BY <2>3, <2>4, <2>5
<1>2. ASSUME NEW where \in {"send", "accept", "wait"}, NEW e \in Exchanges,
             NEW m, Call(t, where, e, m),
             where = "send" =>
               /\ m \in AllMessages
               /\ m \in IntExchanges => e = m /\ Handler[m] = t /\ link[m] = Self
               /\ m \in Messages /\ t \notin Careless => link[m] = t
      PROVE  Queues' /\ Sleep' /\ Ownership'
  <2> USE <1>2 DEF Call, queues
  <2>1. Queues'
    BY QueueFrame
  <2>2. Sleep'
    BY SleepFrame DEF Locations, TypeOK
  <2>3. Senders'
    BY DEF Senders, TypeOK
  <2>4. \A s \in Tasks : Receiving(s)' => Receiving(s)
    BY DEF Receiving, Enqueued, InTaskQueue, TypeOK
  <2>5. ReceiverOwns'
    BY <2>4 DEF ReceiverOwns
  <2>6. NoSystemError'
    BY DEF NoSystemError, TypeOK
  <2> QED
    BY <2>1, <2>2, <2>3, <2>5, <2>6
<1>3. CASE \E e \in Exchanges, m \in Messages : CallSend(t, e, m)
  BY <1>2, <1>3 DEF CallSend, AllMessages
<1>4. CASE \E e \in IntExchanges : CallIsnd(t, e)
  BY <1>2, <1>4 DEF CallIsnd, AllMessages
<1>5. CASE \E e \in Exchanges : CallAccept(t, e) \/ CallWait(t, e)
  BY <1>2, <1>5 DEF CallAccept, CallWait
<1>6. CASE CallFreeze(t)
  <2> USE <1>6 DEF CallFreeze, args, queues
  <2>1. Queues'
    BY QueueFrame
  <2>2. Sleep'
    BY SleepFrame DEF Locations
  <2>3. \A s \in Tasks : Receiving(s)' => Receiving(s)
    BY DEF Receiving, Enqueued, InTaskQueue, TypeOK
  <2>4. Ownership'
    BY <2>3 DEF Senders, ReceiverOwns, NoSystemError, TypeOK
  <2> QED
    BY <2>1, <2>2, <2>4
<1> QED
  BY <1>1, <1>3, <1>4, <1>5, <1>6 DEF User

(* The freeze flag alone says nothing about the queues.                    *)
LEMMA RootStep ==
  ASSUME IInv, (reqfreeze \/ reqbake) \/ UNCHANGED vars
  PROVE  Queues' /\ Sleep' /\ Ownership'
<1> USE DEF IInv, Queues, Sleep, Ownership
<1>1. UNCHANGED <<pc, args, queues, sema, mutex>>
  BY DEF reqfreeze, reqbake, vars, args, queues
<1> USE <1>1 DEF args, queues
<1>2. Queues'
  BY QueueFrame
<1>3. Sleep'
  BY DEF QueuedTasks, Posts, Sleepers, InTaskQueue, Posted, Posting
<1>4. Ownership'
  BY DEF Senders, ReceiverOwns, NoSystemError, Receiving, Enqueued, InTaskQueue
<1> QED
  BY <1>2, <1>3, <1>4

(***************************************************************************)
(* The steps inside a call.                                                *)
(***************************************************************************)
(* A message that passes reqsend's test is in no queue and, if it is a     *)
(* user's, on its way to nobody.                                           *)
LEMMA Accepted ==
  ASSUME IInv, NEW t \in Tasks, pc[t] = "send", ~Rejected(t)
  PROVE  /\ msg[t] \in AllMessages
         /\ link[msg[t]] \in {t, Self}
         /\ \A e \in Exchanges : ~InMessageQueue(msg[t], e)
         /\ \A s \in Tasks : Receiving(s) /\ msg[t] \in Messages =>
              message[s] # msg[t]
<1> USE DEF IInv
<1>1. msg[t] \in AllMessages /\ link[msg[t]] \in {t, Self}
  BY DEF Senders, Rejected
<1>2. \A e \in Exchanges : ~InMessageQueue(msg[t], e)
  BY <1>1 DEF OneHome
<1>3. ~Receiving(t)
  BY DEF Receiving
<1> QED
  BY <1>1, <1>2, <1>3 DEF ReceiverOwns

(* reqsend's error branch, up to the freeze: only a careless task gets     *)
(* into it.                                                                *)
LEMMA RejectStep ==
  ASSUME IInv, TypeOK', NEW t \in Tasks, SendReject(t) \/ SendFreeze(t)
  PROVE  Queues' /\ Sleep' /\ Ownership'
<1> USE DEF IInv, Queues, Sleep, Ownership, args, queues
<1>1. Careless # {}
  <2>1. CASE SendReject(t)
    <3>1. link[msg[t]] \notin {t, Self}
      BY <2>1 DEF SendReject, Rejected, OneQueue, TypeOK
    <3> QED
      BY <2>1, <3>1 DEF SendReject, Senders, AllMessages
  <2>2. CASE SendFreeze(t)
    BY <2>2 DEF SendFreeze, NoSystemError
  <2> QED
    BY <2>1, <2>2
<1>2. PICK x \in {"senderr", "stopped"} : pc' = [pc EXCEPT ![t] = x]
  BY DEF SendReject, SendFreeze
<1>3. pc[t] \in {"send", "senderr"} /\ UNCHANGED <<args, queues, sema>>
  BY DEF SendReject, SendFreeze
<1>4. Queues'
  BY <1>3, QueueFrame
<1>5. Sleep'
  BY <1>2, <1>3, SleepFrame DEF Locations
<1>6. \A s \in Tasks : Receiving(s)' => Receiving(s)
  BY <1>2, <1>3 DEF Receiving, Enqueued, InTaskQueue, TypeOK
<1>7. Ownership'
  BY <1>1, <1>2, <1>3, <1>6 DEF Senders, ReceiverOwns, NoSystemError, TypeOK
<1> QED
  BY <1>4, <1>5, <1>7

(* The message goes to the tail of a queue that it was not in.             *)
LEMMA SendQueueStep ==
  ASSUME IInv, TypeOK', NEW t \in Tasks, SendQueue(t)
  PROVE  Queues' /\ Sleep' /\ Ownership'
<1> DEFINE e == exch[t]
           m == msg[t]
<1> USE DEF IInv, Queues, Sleep, Ownership, args
<1>1. /\ m \in AllMessages /\ link[m] \in {t, Self} /\ e \in Exchanges
      /\ \A d \in Exchanges : ~InMessageQueue(m, d)
      /\ \A s \in Tasks : Receiving(s) /\ m \in Messages => message[s] # m
  BY Accepted DEF SendQueue, TypeOK
<1>2. /\ taskq[e] = << >> /\ taskq' = taskq
      /\ msgq' = [msgq EXCEPT ![e] = Append(msgq[e], m)]
      /\ link' = [link EXCEPT ![m] = Chained]
      /\ pc[t] = "send" /\ pc' = [pc EXCEPT ![t] = "user"]
      /\ UNCHANGED <<exch, msg, peer, message, sema, mutex, rqfrozen>>
  BY DEF SendQueue
<1> HIDE DEF e, m
<1>3. \A d \in Exchanges : \A i \in 1..Len(msgq[d]) :
        msgq[d][i] \in AllMessages /\ msgq[d][i] # m
  BY <1>1 DEF TypeOK, InMessageQueue
<1>4. /\ Len(msgq'[e]) = Len(msgq[e]) + 1 /\ Len(msgq[e]) \in Nat
      /\ msgq'[e][Len(msgq[e]) + 1] = m
      /\ \A i \in 1..Len(msgq[e]) : msgq'[e][i] = msgq[e][i]
      /\ \A d \in Exchanges \ {e} : msgq'[d] = msgq[d]
  BY <1>1, <1>2 DEF TypeOK
<1>5. /\ link'[m] = Chained
      /\ \A n \in AllMessages \ {m} : link'[n] = link[n]
  BY <1>1, <1>2 DEF TypeOK
<1>6. Queues'
  <2>1. OneQueue'
    BY <1>1, <1>2, <1>4 DEF OneQueue
  <2>2. \A n \in AllMessages, d \in Exchanges :
          InMessageQueue(n, d)' <=> InMessageQueue(n, d) \/ (n = m /\ d = e)
    BY <1>1, <1>3, <1>4 DEF InMessageQueue
  <2>3. OneHome'
    <3>1. ASSUME NEW n \in AllMessages
          PROVE  link'[n] = Chained <=> \E d \in Exchanges : InMessageQueue(n, d)'
      BY <1>1, <1>5, <2>2 DEF OneHome
    <3>2. ASSUME NEW c \in Exchanges, NEW d \in Exchanges,
                 NEW i \in 1..Len(msgq'[c]), NEW j \in 1..Len(msgq'[d]),
                 msgq'[c][i] = msgq'[d][j]
          PROVE  c = d /\ i = j
      <4>1. \A b \in Exchanges : \A k \in 1..Len(msgq'[b]) :
              \/ /\ k \in 1..Len(msgq[b])
                 /\ msgq'[b][k] = msgq[b][k]
                 /\ msgq'[b][k] # m
              \/ b = e /\ k = Len(msgq[e]) + 1 /\ msgq'[b][k] = m
        BY <1>3, <1>4
      <4>2. CASE msgq'[c][i] = m
        BY <3>2, <4>1, <4>2
      <4>3. CASE msgq'[c][i] # m
        BY <3>2, <4>1, <4>3 DEF OneHome
      <4> QED
        BY <4>2, <4>3
    <3> QED
      BY <3>1, <3>2 DEF OneHome
  <2>4. m \in IntExchanges => m = e
    BY <1>2 DEF Senders, m, e
  <2>5. QueuedMessages'
    <3>1. /\ \A n \in IntExchanges : link'[n] \in {Self, Chained}
          /\ \A n \in Messages : link'[n] # Self
      BY <1>5 DEF QueuedMessages, AllMessages
    <3>2. ASSUME NEW d \in Exchanges, NEW i \in 1..Len(msgq'[d])
          PROVE  /\ link'[msgq'[d][i]] = Chained
                 /\ msgq'[d][i] \in IntExchanges => msgq'[d][i] = d
      BY <1>1, <1>3, <1>4, <1>5, <2>4 DEF QueuedMessages
    <3> QED
      BY <3>1, <3>2 DEF QueuedMessages
  <2> QED
    BY <2>1, <2>3, <2>5
<1>7. Sleep'
  BY <1>2, SleepFrame DEF Locations
<1>8. Ownership'
  <2>1. \A s \in Tasks : Receiving(s)' => Receiving(s)
    BY <1>2 DEF Receiving, Enqueued, InTaskQueue, TypeOK
  <2>2. ReceiverOwns'
    BY <1>1, <1>2, <1>5, <2>1 DEF ReceiverOwns, AllMessages, TypeOK
  <2>3. ASSUME NEW s \in Tasks, s # t, pc[s] = "send", msg[s] = m
        PROVE  m \in Messages /\ s \in Careless
    BY <1>1, <1>2, <2>3 DEF Senders, m, AllMessages
  <2>4. Senders'
    BY <1>1, <1>2, <1>5, <2>3 DEF Senders, TypeOK, AllMessages
  <2> QED
    BY <1>2, <2>2, <2>4 DEF NoSystemError, TypeOK
<1> QED
  BY <1>6, <1>7, <1>8

(* The hand-over to the task that waits longest: it leaves the queue and   *)
(* becomes the one that this sender is about to post.                      *)
LEMMA SendHandStep ==
  ASSUME IInv, TypeOK', NEW t \in Tasks, SendHand(t)
  PROVE  Queues' /\ Sleep' /\ Ownership'
<1> SUFFICES ASSUME NEW e, e = exch[t], NEW m, m = msg[t],
                    NEW w, w = Head(taskq[e])
             PROVE  Queues' /\ Sleep' /\ Ownership'
  OBVIOUS
<1> USE DEF IInv, Queues, Sleep, Ownership
<1>1. /\ m \in AllMessages /\ link[m] \in {t, Self} /\ e \in Exchanges
      /\ \A d \in Exchanges : ~InMessageQueue(m, d)
      /\ \A s \in Tasks : Receiving(s) /\ m \in Messages => message[s] # m
  BY Accepted DEF SendHand, HandTo, TypeOK
<1>2. /\ taskq[e] # << >> /\ msgq[e] = << >> /\ msgq' = msgq
      /\ taskq' = [taskq EXCEPT ![e] = Tail(taskq[e])]
      /\ link' = [link EXCEPT ![m] = IF m \in IntExchanges THEN Self ELSE w]
      /\ message' = [message EXCEPT ![w] = m]
      /\ peer' = [peer EXCEPT ![t] = w]
      /\ pc[t] = "send" /\ pc' = [pc EXCEPT ![t] = "post"]
      /\ UNCHANGED <<exch, msg, sema, mutex, rqfrozen>>
  BY <1>1 DEF SendHand, HandTo, OneQueue
<1>3. /\ w \in Tasks /\ w = taskq[e][1] /\ 1 \in 1..Len(taskq[e])
      /\ Len(taskq'[e]) = Len(taskq[e]) - 1
      /\ \A i \in 1..Len(taskq'[e]) : taskq'[e][i] = taskq[e][i + 1]
      /\ \A d \in Exchanges \ {e} : taskq'[d] = taskq[d]
  BY <1>1, <1>2 DEF TypeOK
<1>20. w \in Tasks /\ pc[t] = "send" /\ UNCHANGED <<exch, msg, sema, mutex>>
  BY <1>2, <1>3
<1>4. /\ pc[w] = "blocked" /\ exch[w] = e /\ sema[w] = 0 /\ w # t
      /\ \A s \in Tasks : ~Posting(s, w)
  BY <1>1, <1>2, <1>3 DEF QueuedTasks
<1>0. \A d \in Exchanges : /\ Len(taskq[d]) \in Nat
                           /\ \A i \in 1..Len(taskq[d]) : taskq[d][i] \in Tasks
  <2>1. \A d \in Exchanges : taskq[d] \in Seq(Tasks)
    BY DEF TypeOK
  <2> QED
    BY <2>1
<1>5. /\ link'[m] = IF m \in IntExchanges THEN Self ELSE w
      /\ \A n \in AllMessages \ {m} : link'[n] = link[n]
      /\ link[m] # Chained /\ link'[m] # Chained
  BY <1>1, <1>2, <1>3 DEF TypeOK
<1>6. Queues'
  <2>1. OneQueue'
    BY <1>1, <1>2, <1>3 DEF OneQueue
  <2>2. \A d \in Exchanges : \A i \in 1..Len(msgq[d]) :
          msgq[d][i] \in AllMessages /\ msgq[d][i] # m
    <3>1. \A d \in Exchanges : msgq[d] \in Seq(AllMessages)
      BY DEF TypeOK
    <3> QED
      BY <1>1, <3>1 DEF InMessageQueue
  <2>3. OneHome'
    BY <1>1, <1>2, <1>5 DEF OneHome, InMessageQueue
  <2>4. QueuedMessages'
    <3>1. w # Self
      BY <1>20
    <3>2. /\ \A n \in IntExchanges : link'[n] \in {Self, Chained}
          /\ \A n \in Messages : link'[n] # Self
      BY <1>5, <3>1 DEF QueuedMessages, AllMessages
    <3>3. ASSUME NEW d \in Exchanges, NEW i \in 1..Len(msgq[d])
          PROVE  link'[msgq[d][i]] = Chained
      BY <1>5, <2>2 DEF QueuedMessages
    <3>4. msgq' = msgq
      BY <1>2
    <3> QED
      BY <3>2, <3>3, <3>4 DEF QueuedMessages
  <2> QED
    BY <2>1, <2>3, <2>4
<1>7. /\ \A s \in Tasks \ {t} : pc'[s] = pc[s] /\ peer'[s] = peer[s]
      /\ pc'[t] = "post" /\ peer'[t] = w
  BY <1>2 DEF TypeOK
<1>8. \A r, s \in Tasks : Posting(r, s)' <=> Posting(r, s) \/ (r = t /\ s = w)
  BY <1>2, <1>7 DEF Posting
<1>9. \A d \in Exchanges : \A i \in 1..Len(taskq'[d]) :
        \E k \in 1..Len(taskq[d]) : /\ taskq'[d][i] = taskq[d][k]
                                   /\ k = IF d = e THEN i + 1 ELSE i
  <2>1. \A i \in 1..Len(taskq'[e]) : i + 1 \in 1..Len(taskq[e])
    BY <1>1, <1>3
  <2> QED
    BY <1>1, <1>3, <2>1
<1>10. /\ \A d \in Exchanges : \A i \in 1..Len(taskq'[d]) :
            taskq'[d][i] \in Tasks /\ taskq'[d][i] # w /\ taskq'[d][i] # t
       /\ \A s \in Tasks \ {w}, d \in Exchanges :
            InTaskQueue(s, d)' <=> InTaskQueue(s, d)
  <2>1. ASSUME NEW d \in Exchanges, NEW i \in 1..Len(taskq'[d])
        PROVE  taskq'[d][i] # w
    <3>1. PICK k \in 1..Len(taskq[d]) : /\ taskq'[d][i] = taskq[d][k]
                                        /\ k = IF d = e THEN i + 1 ELSE i
      BY <1>9
    <3>2. CASE d = e
      <4>1. k # 1
        BY <3>1, <3>2
      <4> QED
        BY <1>1, <1>3, <3>1, <3>2, <4>1 DEF QueuedTasks
    <3>3. CASE d # e
      BY <1>4, <3>1, <3>3 DEF QueuedTasks
    <3> QED
      BY <3>2, <3>3
  <2>2. ASSUME NEW d \in Exchanges, NEW i \in 1..Len(taskq'[d])
        PROVE  taskq'[d][i] \in Tasks /\ taskq'[d][i] # t
    <3>1. PICK k \in 1..Len(taskq[d]) : taskq'[d][i] = taskq[d][k]
      BY <1>9
    <3> QED
      BY <1>0, <1>2, <3>1 DEF QueuedTasks
  <2>3. \A i \in 1..Len(taskq[e]) : i = 1 \/ i - 1 \in 1..Len(taskq'[e])
    BY <1>1, <1>3
  <2>4. ASSUME NEW s \in Tasks \ {w}, InTaskQueue(s, e) PROVE InTaskQueue(s, e)'
    <3>1. PICK i \in 1..Len(taskq[e]) : taskq[e][i] = s
      BY <2>4 DEF InTaskQueue
    <3>2. PICK j \in 1..Len(taskq'[e]) : j + 1 = i
      BY <1>0, <1>1, <1>3, <2>3, <3>1
    <3>3. taskq'[e][j] = s
      BY <1>3, <3>1, <3>2
    <3> QED
      BY <3>3 DEF InTaskQueue
  <2>5. \A s \in Tasks, d \in Exchanges : InTaskQueue(s, d)' => InTaskQueue(s, d)
    BY <1>9 DEF InTaskQueue
  <2> QED
    BY <1>3, <2>1, <2>2, <2>4, <2>5 DEF InTaskQueue
<1>11. Sleep'
  <2>1. QueuedTasks'
    <3>1. ASSUME NEW d \in Exchanges, NEW i \in 1..Len(taskq'[d])
          PROVE  /\ pc'[taskq'[d][i]] = "blocked"
                 /\ exch'[taskq'[d][i]] = d
                 /\ sema'[taskq'[d][i]] = 0
                 /\ (\A s \in Tasks : ~Posting(s, taskq[d][i]))'
      <4>1. PICK k \in 1..Len(taskq[d]) : taskq'[d][i] = taskq[d][k]
        BY <1>9
      <4> QED
        BY <1>20, <1>7, <1>8, <1>10, <4>1 DEF QueuedTasks
    <3>2. ASSUME NEW d \in Exchanges, NEW i \in 1..Len(taskq'[d]),
                 NEW j \in 1..Len(taskq'[d]), taskq'[d][i] = taskq'[d][j]
          PROVE  i = j
      <4>1. PICK k \in 1..Len(taskq[d]) : /\ taskq'[d][i] = taskq[d][k]
                                          /\ k = IF d = e THEN i + 1 ELSE i
        BY <1>9
      <4>2. PICK l \in 1..Len(taskq[d]) : /\ taskq'[d][j] = taskq[d][l]
                                          /\ l = IF d = e THEN j + 1 ELSE j
        BY <1>9
      <4>3. taskq[d][k] = taskq[d][l]
        BY <3>2, <4>1, <4>2
      <4>4. k = l
        BY <4>3 DEF QueuedTasks
      <4> QED
        BY <4>1, <4>2, <4>4
    <3> QED
      BY <3>1, <3>2 DEF QueuedTasks
  <2>2. Posts'
    <3>1. ASSUME NEW s \in Tasks, pc'[s] = "post"
          PROVE  /\ peer'[s] \in Tasks /\ peer'[s] # t
                 /\ pc'[peer'[s]] = "blocked" /\ sema'[peer'[s]] = 0
                 /\ (\A r \in Tasks : Posting(r, peer[s]) => r = s)'
      <4>1. CASE s = t
        BY <1>20, <1>4, <1>7, <1>8, <4>1
      <4>2. CASE s # t
        BY <1>20, <1>4, <1>7, <1>8, <3>1, <4>2 DEF Posts, Posting
      <4> QED
        BY <4>1, <4>2
    <3> QED
      BY <1>20, <1>7, <3>1 DEF Posts
  <2>3. Sleepers'
    <3>1. ASSUME NEW s \in Tasks, pc'[s] = "blocked"
          PROVE  (InTaskQueue(s, exch[s]) \/ Posted(s) \/ sema[s] = 1)'
      <4>1. CASE s = w
        BY <1>8, <4>1 DEF Posted
      <4>2. CASE s # w
        BY <1>20, <1>7, <1>8, <1>10, <3>1, <4>2 DEF Sleepers, Posted, TypeOK
      <4> QED
        BY <4>1, <4>2
    <3> QED
      BY <3>1 DEF Sleepers
  <2> QED
    BY <2>1, <2>2, <2>3
<1>12. Ownership'
  <2>1. \A s \in Tasks \ {w} : Receiving(s)' => Receiving(s) /\ message'[s] = message[s]
    BY <1>2, <1>7, <1>10 DEF Receiving, Enqueued, TypeOK
  <2>2. message'[w] = m /\ m # NULL /\ (m \in Messages => link'[m] = w)
    BY <1>1, <1>2, <1>3, <1>5 DEF TypeOK, AllMessages
  <2>3. ReceiverOwns'
    BY <1>1, <1>5, <2>1, <2>2 DEF ReceiverOwns, AllMessages
  <2>4. ASSUME NEW s \in Tasks, s # t, pc[s] = "send", msg[s] = m
        PROVE  m \in Messages /\ s \in Careless
    BY <1>1, <1>2, <2>4 DEF Senders, AllMessages
  <2>5. ASSUME NEW s \in Tasks, pc'[s] = "send"
        PROVE  /\ pc[s] = "send" /\ s # t /\ exch'[s] = exch[s] /\ msg'[s] = msg[s]
               /\ msg[s] \in AllMessages
               /\ msg[s] # m => link'[msg[s]] = link[msg[s]]
    BY <1>2, <1>5, <1>7, <2>5 DEF Senders
  <2>6. Senders'
    BY <2>4, <2>5 DEF Senders, AllMessages
  <2> QED
    BY <1>2, <1>7, <2>3, <2>6 DEF NoSystemError
<1> QED
  BY <1>6, <1>11, <1>12

(* The task that was taken out of its queue can wake up.                   *)
LEMMA SendPostStep ==
  ASSUME IInv, TypeOK', NEW t \in Tasks, SendPost(t)
  PROVE  Queues' /\ Sleep' /\ Ownership'
<1> SUFFICES ASSUME NEW w, w = peer[t]
             PROVE  Queues' /\ Sleep' /\ Ownership'
  OBVIOUS
<1> USE DEF IInv, Queues, Sleep, Ownership
<1>1. /\ w \in Tasks /\ pc[w] = "blocked" /\ sema[w] = 0 /\ w # t
      /\ pc[t] = "post" /\ pc' = [pc EXCEPT ![t] = "user"]
      /\ \A r \in Tasks : Posting(r, w) => r = t
      /\ UNCHANGED <<args, queues, mutex, rqfrozen>>
  BY DEF SendPost, Posts
<1>2. /\ sema'[w] = 1 /\ \A s \in Tasks \ {w} : sema'[s] = sema[s]
      /\ pc'[t] = "user" /\ \A s \in Tasks \ {t} : pc'[s] = pc[s]
  BY <1>1 DEF SendPost, TypeOK
<1>3. \A r, s \in Tasks : Posting(r, s)' <=> Posting(r, s) /\ r # t
  BY <1>1, <1>2 DEF Posting, args
<1>4. Queues'
  BY <1>1, QueueFrame DEF queues
<1>5. QueuedTasks'
  <2>1. \A e \in Exchanges : taskq[e] \in Seq(Tasks)
    BY DEF TypeOK
  <2>2. \A e \in Exchanges : \A i \in 1..Len(taskq[e]) :
          taskq[e][i] \in Tasks \ {t, w}
    BY <1>1, <2>1 DEF QueuedTasks, Posting
  <2> QED
    BY <1>1, <1>2, <1>3, <2>2 DEF QueuedTasks, args, queues
<1>6. Posts'
  <2>1. ASSUME NEW s \in Tasks, pc'[s] = "post"
        PROVE  peer[s] # w /\ s # t /\ pc[s] = "post" /\ peer'[s] = peer[s]
    BY <1>1, <1>2, <2>1 DEF Posting, args
  <2> QED
    BY <1>1, <1>2, <1>3, <2>1 DEF Posts
<1>7. Sleepers'
  BY <1>1, <1>2, <1>3 DEF Sleepers, Posted, Posting, InTaskQueue, args, queues
<1>8. Ownership'
  <2>1. \A s \in Tasks : Receiving(s)' => Receiving(s)
    BY <1>1, <1>2 DEF Receiving, Enqueued, InTaskQueue, queues
  <2> QED
    BY <1>1, <1>2, <2>1 DEF Senders, ReceiverOwns, NoSystemError, args, queues
<1> QED
  BY <1>4, <1>5, <1>6, <1>7, <1>8

(* A task takes the message at the head of an exchange's queue.            *)
LEMMA TakeStep ==
  ASSUME IInv, TypeOK', NEW t \in Tasks, NEW e \in Exchanges,
         NEW m \in AllMessages, NEW q \in Seq(AllMessages), Dequeued(t, e, m, q),
         pc[t] \in {"accept", "wait"},
         NEW x \in {"gate", "check"}, pc' = [pc EXCEPT ![t] = x],
         UNCHANGED <<args, taskq, sema, mutex, rqfrozen>>
  PROVE  Queues' /\ Sleep' /\ Ownership'
<1> USE DEF IInv, Queues, Sleep, Ownership
<1>1. /\ msgq'[e] = q /\ \A d \in Exchanges \ {e} : msgq'[d] = msgq[d]
      /\ link'[m] = IF m = e THEN Self ELSE t
      /\ \A n \in AllMessages \ {m} : link'[n] = link[n]
      /\ message'[t] = m /\ \A s \in Tasks \ {t} : message'[s] = message[s]
      /\ pc'[t] = x /\ \A s \in Tasks \ {t} : pc'[s] = pc[s]
  BY DEF Dequeued, TypeOK
<1>2. /\ 1 \in 1..Len(msgq[e]) /\ m = msgq[e][1] /\ link[m] = Chained
      /\ m \in IntExchanges => m = e
      /\ \A d \in Exchanges : msgq[d] \in Seq(AllMessages)
  <2>1. 1 \in 1..Len(msgq[e]) /\ m = msgq[e][1]
    BY DEF Dequeued
  <2>2. \A d \in Exchanges : msgq[d] \in Seq(AllMessages)
    BY DEF TypeOK
  <2> QED
    BY <2>1, <2>2 DEF QueuedMessages
<1>3. \A d \in Exchanges : \A i \in 1..Len(msgq'[d]) :
        \E k \in 1..Len(msgq[d]) : /\ msgq'[d][i] = msgq[d][k]
                                  /\ k = IF d = e THEN i + 1 ELSE i
  <2>1. \A i \in 1..Len(q) : i + 1 \in 1..Len(msgq[e]) /\ q[i] = msgq[e][i + 1]
    BY <1>2 DEF Dequeued
  <2> QED
    BY <1>1, <2>1
<1>4. \A d \in Exchanges : \A i \in 1..Len(msgq'[d]) :
        msgq'[d][i] \in AllMessages /\ msgq'[d][i] # m
  <2>1. ASSUME NEW d \in Exchanges, NEW i \in 1..Len(msgq'[d])
        PROVE  msgq'[d][i] \in AllMessages /\ msgq'[d][i] # m
    <3>1. PICK k \in 1..Len(msgq[d]) : /\ msgq'[d][i] = msgq[d][k]
                                       /\ k = IF d = e THEN i + 1 ELSE i
      BY <1>3
    <3>2. d # e \/ k # 1
      BY <3>1
    <3> QED
      BY <1>2, <3>1, <3>2 DEF OneHome
  <2> QED
    BY <2>1
<1>5. \A n \in AllMessages \ {m}, d \in Exchanges :
        InMessageQueue(n, d)' <=> InMessageQueue(n, d)
  <2>1. ASSUME NEW n \in AllMessages \ {m}, InMessageQueue(n, e)
        PROVE  \E j \in 1..Len(q) : q[j] = n
    <3>1. PICK i \in 1..Len(msgq[e]) : msgq[e][i] = n
      BY <2>1 DEF InMessageQueue
    <3>2. PICK j \in 1..Len(q) : j + 1 = i
      BY <1>2, <3>1 DEF Dequeued
    <3> QED
      BY <3>1, <3>2 DEF Dequeued
  <2>2. \A n \in AllMessages, d \in Exchanges :
          InMessageQueue(n, d)' => InMessageQueue(n, d)
    BY <1>3 DEF InMessageQueue
  <2> QED
    BY <1>1, <2>1, <2>2 DEF InMessageQueue
<1>6. Queues'
  <2>1. OneQueue'
    BY <1>1, <1>2 DEF OneQueue, args
  <2>2. OneHome'
    <3>1. \A n \in AllMessages :
            link'[n] = Chained <=> \E d \in Exchanges : InMessageQueue(n, d)'
      BY <1>1, <1>4, <1>5 DEF OneHome, InMessageQueue
    <3>2. ASSUME NEW c \in Exchanges, NEW d \in Exchanges,
                 NEW i \in 1..Len(msgq'[c]), NEW j \in 1..Len(msgq'[d]),
                 msgq'[c][i] = msgq'[d][j]
          PROVE  c = d /\ i = j
      <4>1. PICK k \in 1..Len(msgq[c]) : /\ msgq'[c][i] = msgq[c][k]
                                         /\ k = IF c = e THEN i + 1 ELSE i
        BY <1>3
      <4>2. PICK l \in 1..Len(msgq[d]) : /\ msgq'[d][j] = msgq[d][l]
                                         /\ l = IF d = e THEN j + 1 ELSE j
        BY <1>3
      <4>3. msgq[c][k] = msgq[d][l]
        BY <3>2, <4>1, <4>2
      <4>4. c = d /\ k = l
        BY <4>3 DEF OneHome
      <4> QED
        BY <4>1, <4>2, <4>4
    <3> QED
      BY <3>1, <3>2 DEF OneHome
  <2>3. QueuedMessages'
    <3>1. /\ \A n \in IntExchanges : link'[n] \in {Self, Chained}
          /\ \A n \in Messages : link'[n] # Self
      <4>1. /\ m \in Messages => link'[m] # Self
            /\ m \in IntExchanges => link'[m] = Self
        BY <1>1, <1>2
      <4>2. \A n \in AllMessages \ {m} : link'[n] = link[n]
        BY <1>1
      <4> QED
        BY <4>1, <4>2 DEF QueuedMessages, AllMessages
    <3>2. ASSUME NEW d \in Exchanges, NEW i \in 1..Len(msgq'[d])
          PROVE  /\ link'[msgq'[d][i]] = Chained
                 /\ msgq'[d][i] \in IntExchanges => msgq'[d][i] = d
      <4>1. PICK k \in 1..Len(msgq[d]) : msgq'[d][i] = msgq[d][k]
        BY <1>3
      <4> QED
        BY <1>1, <1>4, <4>1 DEF QueuedMessages
    <3> QED
      BY <3>1, <3>2 DEF QueuedMessages
  <2> QED
    BY <2>1, <2>2, <2>3
<1>7. Sleep'
  BY SleepFrame DEF Locations, args
<1>8. Ownership'
  <2>1. \A s \in Tasks \ {t} : Receiving(s)' => Receiving(s) /\ message'[s] = message[s]
    BY <1>1 DEF Receiving, Enqueued, InTaskQueue
  <2>2. message'[t] = m /\ m # NULL /\ (m \in Messages => link'[m] = t)
    BY <1>1
  <2>3. \A s \in Tasks : Receiving(s) /\ m \in Messages => message[s] # m
    BY <1>2 DEF ReceiverOwns
  <2>4. ReceiverOwns'
    BY <1>1, <2>1, <2>2, <2>3 DEF ReceiverOwns, AllMessages
  <2>5. ASSUME NEW s \in Tasks, pc'[s] = "send", msg[s] = m
        PROVE  m \in Messages /\ s \in Careless
    BY <1>1, <1>2, <2>5 DEF Senders, AllMessages
  <2>6. Senders'
    BY <1>1, <2>5 DEF Senders, AllMessages, args
  <2> QED
    BY <1>1, <2>4, <2>6 DEF NoSystemError
<1> QED
  BY <1>6, <1>7, <1>8

(* The task goes to sleep in the queue of an exchange with no message.     *)
LEMMA WaitBlockStep ==
  ASSUME IInv, TypeOK', NEW t \in Tasks, WaitBlock(t)
  PROVE  Queues' /\ Sleep' /\ Ownership'
<1> SUFFICES ASSUME NEW e \in Exchanges, e = exch[t]
             PROVE  Queues' /\ Sleep' /\ Ownership'
  BY DEF IInv, TypeOK
<1> USE DEF IInv, Queues, Sleep, Ownership
<1>1. /\ pc[t] = "wait" /\ pc' = [pc EXCEPT ![t] = "blocked"]
      /\ msgq[e] = << >> /\ taskq' = [taskq EXCEPT ![e] = Append(taskq[e], t)]
      /\ UNCHANGED <<args, link, msgq, message, sema, mutex, rqfrozen>>
  BY DEF WaitBlock, Block
<1>2. /\ pc'[t] = "blocked" /\ \A s \in Tasks \ {t} : pc'[s] = pc[s]
      /\ UNCHANGED <<exch, peer, msg, link, msgq, message, sema, mutex>>
  BY <1>1 DEF TypeOK, args
<1>3. \A d \in Exchanges : /\ taskq[d] \in Seq(Tasks) /\ Len(taskq[d]) \in Nat
                           /\ \A i \in 1..Len(taskq[d]) : taskq[d][i] \in Tasks \ {t}
  <2>1. \A d \in Exchanges : taskq[d] \in Seq(Tasks)
    BY DEF TypeOK
  <2> QED
    BY <1>1, <2>1 DEF QueuedTasks
<1>4. /\ Len(taskq'[e]) = Len(taskq[e]) + 1 /\ taskq'[e][Len(taskq[e]) + 1] = t
      /\ \A i \in 1..Len(taskq[e]) : taskq'[e][i] = taskq[e][i]
      /\ \A d \in Exchanges \ {e} : taskq'[d] = taskq[d]
  BY <1>1, <1>3 DEF TypeOK
<1>5. \A d \in Exchanges : \A k \in 1..Len(taskq'[d]) :
        \/ k \in 1..Len(taskq[d]) /\ taskq'[d][k] = taskq[d][k] /\ taskq'[d][k] # t
        \/ d = e /\ k = Len(taskq[e]) + 1 /\ taskq'[d][k] = t
  BY <1>3, <1>4
<1>6. InTaskQueue(t, e)' /\ \A s \in Tasks, d \in Exchanges :
                              InTaskQueue(s, d) => InTaskQueue(s, d)'
  BY <1>3, <1>4 DEF InTaskQueue
<1>7. \A r, s \in Tasks : Posting(r, s)' <=> Posting(r, s)
  BY <1>1, <1>2 DEF Posting
<1>8. sema[t] = 0 /\ \A s \in Tasks : ~Posting(s, t)
  BY <1>1 DEF Posts, Posting, TypeOK
<1>9. Queues'
  <2>1. OneQueue'
    BY <1>1, <1>2, <1>4 DEF OneQueue
  <2> QED
    BY <1>2, <2>1 DEF OneHome, QueuedMessages, InMessageQueue
<1>10. QueuedTasks'
  <2>1. ASSUME NEW d \in Exchanges, NEW i \in 1..Len(taskq'[d])
        PROVE  /\ pc'[taskq'[d][i]] = "blocked"
               /\ exch'[taskq'[d][i]] = d
               /\ sema'[taskq'[d][i]] = 0
               /\ (\A s \in Tasks : ~Posting(s, taskq[d][i]))'
    <3>1. CASE i \in 1..Len(taskq[d]) /\ taskq'[d][i] = taskq[d][i]
      BY <1>2, <1>3, <1>7, <3>1 DEF QueuedTasks
    <3>2. CASE d = e /\ taskq'[d][i] = t
      BY <1>2, <1>7, <1>8, <3>2
    <3> QED
      BY <1>5, <3>1, <3>2
  <2>2. ASSUME NEW d \in Exchanges, NEW i \in 1..Len(taskq'[d]),
               NEW j \in 1..Len(taskq'[d]), taskq'[d][i] = taskq'[d][j]
        PROVE  i = j
    <3>1. CASE taskq'[d][i] = t
      BY <1>5, <2>2, <3>1
    <3>2. CASE taskq'[d][i] # t
      BY <1>5, <2>2, <3>2 DEF QueuedTasks
    <3> QED
      BY <3>1, <3>2
  <2> QED
    BY <2>1, <2>2 DEF QueuedTasks
<1>11. Posts'
  BY <1>1, <1>2, <1>7 DEF Posts, TypeOK
<1>12. Sleepers'
  BY <1>2, <1>6, <1>7 DEF Sleepers, Posted, TypeOK
<1>13. Ownership'
  <2>1. ~Receiving(t)'
    BY <1>2, <1>6 DEF Receiving, Enqueued
  <2>2. \A s \in Tasks : Receiving(s)' => Receiving(s)
    BY <1>2, <1>6, <2>1 DEF Receiving, Enqueued
  <2> QED
    BY <1>2, <2>2 DEF Senders, ReceiverOwns, NoSystemError
<1> QED
  BY <1>9, <1>10, <1>11, <1>12, <1>13

(* The task that wakes up was posted, once.                                *)
LEMMA AwakeStep ==
  ASSUME IInv, TypeOK', NEW t \in Tasks, Awake(t)
  PROVE  Queues' /\ Sleep' /\ Ownership'
<1> USE DEF IInv, Queues, Sleep, Ownership
<1>1. /\ pc[t] = "blocked" /\ sema[t] = 1 /\ sema'[t] = 0
      /\ \A s \in Tasks \ {t} : pc'[s] = pc[s] /\ sema'[s] = sema[s]
      /\ pc'[t] = "relock" /\ UNCHANGED <<args, queues, mutex, rqfrozen>>
  BY DEF Awake, TypeOK
<1>2. ~Enqueued(t)
  BY <1>1 DEF QueuedTasks, Enqueued, InTaskQueue
<1>3. Queues'
  BY <1>1, QueueFrame DEF queues
<1>4. \A r, s \in Tasks : (Posting(r, s)' <=> Posting(r, s)) /\ ~Posting(r, t)
  BY <1>1 DEF Posting, Posts, args
<1>5. QueuedTasks'
  <2>1. \A e \in Exchanges : taskq[e] \in Seq(Tasks)
    BY DEF TypeOK
  <2>2. \A e \in Exchanges : \A i \in 1..Len(taskq[e]) :
          taskq[e][i] \in Tasks \ {t}
    BY <1>1, <2>1 DEF QueuedTasks
  <2> QED
    BY <1>1, <1>4, <2>2 DEF QueuedTasks, args, queues
<1>6. Posts'
  <2>1. ASSUME NEW s \in Tasks, pc'[s] = "post"
        PROVE  peer[s] # t /\ s # t /\ pc[s] = "post" /\ peer'[s] = peer[s]
    BY <1>1, <1>4, <2>1 DEF Posting, Posts, args
  <2> QED
    BY <1>1, <1>4, <2>1 DEF Posts
<1>7. Sleepers'
  BY <1>1, <1>4 DEF Sleepers, Posted, InTaskQueue, args, queues
<1>8. Ownership'
  <2>1. \A s \in Tasks : Receiving(s)' => Receiving(s)
    BY <1>1, <1>2 DEF Receiving, Enqueued, InTaskQueue, queues
  <2> QED
    BY <1>1, <2>1 DEF Senders, ReceiverOwns, NoSystemError, args, queues
<1> QED
  BY <1>3, <1>5, <1>6, <1>7, <1>8

(* The rest of the calls: past the queues, or with nothing to take.        *)
LEMMA TailStep ==
  ASSUME IInv, TypeOK', NEW t \in Tasks,
         \/ Relock(t) \/ Check(t) \/ Gate(t)
         \/ Accept(t) /\ msgq[exch[t]] = << >>
  PROVE  Queues' /\ Sleep' /\ Ownership'
<1> USE DEF IInv, Queues, Sleep, Ownership
<1>1. PICK x \in {"check", "gate", "user"} : pc' = [pc EXCEPT ![t] = x]
  BY DEF Relock, Check, Gate, Accept
<1>2. /\ pc[t] \in {"relock", "check", "gate", "stopped", "accept"}
      /\ UNCHANGED <<args, link, msgq, taskq, sema, mutex>>
  BY DEF Relock, Check, Gate, Accept, queues
<1>3. Queues'
  BY <1>2, QueueFrame
<1>4. Sleep'
  BY <1>1, <1>2, SleepFrame DEF Locations, args
<1>5. \A s \in Tasks : Receiving(s)' => Receiving(s) /\ message'[s] = message[s]
  <2>1. CASE Accept(t) /\ msgq[exch[t]] = << >>
    BY <1>2, <2>1 DEF Receiving, Enqueued, InTaskQueue, Accept, TypeOK
  <2>2. CASE Relock(t) \/ Check(t) \/ Gate(t)
    BY <1>2, <2>2
    DEF Receiving, Enqueued, InTaskQueue, Relock, Check, Gate, TypeOK, queues
  <2> QED
    BY <2>1, <2>2
<1>6. Ownership'
  BY <1>1, <1>2, <1>5 DEF Senders, ReceiverOwns, NoSystemError, TypeOK, args
<1> QED
  BY <1>3, <1>4, <1>6

(* Whatever a thread does inside a call keeps the invariant.               *)
LEMMA InsideStep ==
  ASSUME IInv, TypeOK', NEW t \in Tasks, Inside(t)
  PROVE  Queues' /\ Sleep' /\ Ownership'
<1>1. CASE SendReject(t) \/ SendFreeze(t)
  BY <1>1, RejectStep
<1>2. CASE SendQueue(t)
  BY <1>2, SendQueueStep
<1>3. CASE SendHand(t)
  BY <1>3, SendHandStep
<1>4. CASE SendPost(t)
  BY <1>4, SendPostStep
<1>5. CASE (Accept(t) /\ msgq[exch[t]] # << >>) \/ WaitTake(t)
  <2>1. PICK e \in Exchanges : e = exch[t]
    BY DEF IInv, TypeOK
  <2>2. /\ msgq[e] # << >> /\ reqdqmsg(t, e) /\ pc[t] \in {"accept", "wait"}
        /\ \E x \in {"gate", "check"} : pc' = [pc EXCEPT ![t] = x]
        /\ UNCHANGED <<args, taskq, sema, mutex, rqfrozen>>
    BY <1>5, <2>1 DEF Accept, WaitTake
  <2>3. PICK m \in AllMessages, q \in Seq(AllMessages) : Dequeued(t, e, m, q)
    BY <2>2, Dequeue DEF IInv
  <2> QED
    BY <2>2, <2>3, TakeStep
<1>6. CASE WaitBlock(t)
  BY <1>6, WaitBlockStep
<1>7. CASE Awake(t)
  BY <1>7, AwakeStep
<1>8. CASE Relock(t) \/ Check(t) \/ Gate(t) \/ (Accept(t) /\ msgq[exch[t]] = << >>)
  BY <1>8, TailStep
<1> QED
  BY <1>1, <1>2, <1>3, <1>4, <1>5, <1>6, <1>7, <1>8 DEF Inside

-----------------------------------------------------------------------------
(* IInv is inductive.                                                      *)
THEOREM Invariance == Spec => []IInv
<1>1. IInv /\ [Next]_vars => IInv'
  <2> SUFFICES ASSUME IInv, [Next]_vars PROVE IInv'
    OBVIOUS
  <2>1. TypeOK'
    BY TypeStep
  <2>2. Queues' /\ Sleep' /\ Ownership'
    BY <2>1, UserStep, RootStep, InsideStep DEF Next
  <2> QED
    BY <2>1, <2>2 DEF IInv, Queues, Sleep, Ownership
<1> QED
  BY <1>1, InitInv, PTL DEF Spec

(* For any number of tasks, exchanges and messages, every variable keeps   *)
(* its type; no semaphore counts above one.                                *)
THEOREM TypeCorrect == Spec => []TypeOK
BY Invariance, PTL DEF IInv

(* No exchange ever has both a message and a task in its queues (ycore.h). *)
THEOREM QueuesExclusive == Spec => []OneQueue
BY Invariance, PTL DEF IInv

(* No message is lost by a queue, duplicated in it, or in two of them.     *)
THEOREM MessagesConserved == Spec => []OneHome
BY Invariance, PTL DEF IInv

(* A sleeping task has exactly one thing that will wake it.                *)
THEOREM WakeupsConserved == Spec => []NoLostWakeup
<1>1. IInv => NoLostWakeup
  <2> SUFFICES ASSUME IInv, NEW t \in Tasks, pc[t] = "blocked"
               PROVE  /\ \/ InTaskQueue(t, exch[t]) /\ ~Posted(t) /\ sema[t] = 0
                         \/ ~Enqueued(t) /\ Posted(t) /\ sema[t] = 0
                         \/ ~Enqueued(t) /\ ~Posted(t) /\ sema[t] = 1
                      /\ \A r, s \in Tasks : Posting(r, t) /\ Posting(s, t) => r = s
    BY DEF NoLostWakeup
  <2> USE DEF IInv
  <2>1. sema[t] \in {0, 1} /\ exch[t] \in Exchanges
    BY DEF TypeOK
  <2>2. Enqueued(t) => ~Posted(t) /\ sema[t] = 0 /\ InTaskQueue(t, exch[t])
    BY DEF QueuedTasks, Enqueued, InTaskQueue, Posted
  <2>3. Posted(t) => sema[t] = 0
    BY DEF Posts, Posted, Posting
  <2>4. InTaskQueue(t, exch[t]) \/ Posted(t) \/ sema[t] = 1
    BY DEF Sleepers
  <2>5. InTaskQueue(t, exch[t]) => Enqueued(t)
    BY <2>1 DEF Enqueued
  <2>6. \A r, s \in Tasks : Posting(r, t) /\ Posting(s, t) => r = s
    BY DEF Posts, Posting
  <2> QED
    BY <2>1, <2>2, <2>3, <2>4, <2>5, <2>6
<1> QED
  BY <1>1, Invariance, PTL

(* The task that is about to get a user message owns it.                   *)
THEOREM ReceptionOwned == Spec => []ReceiverOwns
BY Invariance, PTL DEF IInv

(* Tasks that send only their own messages meet no system error.           *)
THEOREM DisciplinedTasksSafe == Spec => []NoSystemError
BY Invariance, PTL DEF IInv

(* Only the owner's reqsend takes a user message from a task.              *)
THEOREM OwnershipGiven == Spec => OwnerGives
<1> DEFINE Gives == \A m \in Messages, t \in Tasks :
              link[m] = t /\ link'[m] # t =>
                pc[t] = "send" /\ msg[t] = m /\ pc'[t] \in {"user", "post"}
<1>1. IInv /\ [Next]_vars => [Gives]_vars
  <2> SUFFICES ASSUME IInv, [Next]_vars, NEW m \in Messages, NEW o \in Tasks,
                      link[m] = o, link'[m] # o
               PROVE  pc[o] = "send" /\ msg[o] = m /\ pc'[o] \in {"user", "post"}
    BY DEF vars
  <2> USE DEF IInv
  <2>1. m \in AllMessages /\ m \notin IntExchanges /\ link' # link
    BY DEF AllMessages
  <2>2. PICK t \in Tasks : User(t) \/ Inside(t)
    BY <2>1 DEF Next, vars, reqfreeze, reqbake, args, queues, AllMessages
  <2>3. ASSUME NEW n \in Messages, reqcmsg(t, n) PROVE FALSE
    BY <2>3 DEF reqcmsg, TypeOK, AllMessages
  <2>4. ~User(t)
    BY <2>3 DEF User, CallSend, CallIsnd, CallAccept, CallWait, Call,
                CallFreeze, queues
  <2>5. CASE SendQueue(t) \/ SendHand(t)
    <3>1. pc[t] = "send" /\ link[msg[t]] \in {t, Self}
      BY <2>5, Accepted DEF SendQueue, SendHand, HandTo
    <3>2. m = msg[t]
      BY <2>5 DEF SendQueue, SendHand, HandTo, TypeOK, AllMessages
    <3>3. pc'[t] \in {"user", "post"}
      BY <2>5 DEF SendQueue, SendHand, HandTo, TypeOK
    <3> QED
      BY <3>1, <3>2, <3>3
  <2>6. CASE WaitTake(t) \/ Accept(t)
    <3>1. ASSUME NEW e \in Exchanges, msgq[e] # << >>, reqdqmsg(t, e) PROVE FALSE
      <4>1. PICK n \in AllMessages, q \in Seq(AllMessages) : Dequeued(t, e, n, q)
        BY <3>1, Dequeue
      <4>2. link[n] = Chained
        BY <4>1 DEF Dequeued, QueuedMessages
      <4> QED
        BY <4>1, <4>2 DEF Dequeued, TypeOK, AllMessages
    <3> QED
      BY <2>6, <3>1 DEF WaitTake, Accept, TypeOK
  <2> QED
    BY <2>2, <2>4, <2>5, <2>6
    DEF Inside, SendReject, SendFreeze, SendPost, WaitBlock, Block, Awake, Relock,
        Check, Gate, queues
<1> QED
  BY <1>1, Invariance, PTL DEF Spec, OwnerGives


-----------------------------------------------------------------------------
(***************************************************************************)
(* The exchanges of YRmx implement the mailboxes of Mailbox.               *)
(***************************************************************************)

(* What the refinement sees of a task does not change.                     *)
SameInbox(s) == (Receiving(s)' <=> Receiving(s)) /\ message'[s] = message[s]

(* What the mailbox sees depends on the places and on the queues only.     *)
LEMMA Stutter ==
  ASSUME UNCHANGED <<link, msgq, taskq>>,
         \A s \in Tasks : SameInbox(s) \/ (~Receiving(s)' /\ ~Receiving(s))
  PROVE  UNCHANGED MB!mvars
<1>1. inboxOf' = inboxOf
  BY DEF inboxOf, SameInbox
<1>2. ownerOf' = ownerOf
  BY DEF ownerOf
<1> QED
  BY <1>1, <1>2 DEF MB!mvars

(* A task in user code, or about to call, is idle in the mailbox.          *)
LEMMA IdleTask ==
  ASSUME IInv, NEW t \in Tasks, pc[t] \in {"user", "send", "accept", "wait"}
  PROVE  MB!Idle(t)
<1>1. ~Receiving(t) /\ ~Enqueued(t)
  BY DEF Receiving, IInv, QueuedTasks, Enqueued, InTaskQueue
<1> QED
  BY <1>1 DEF MB!Idle, MB!Waiting, inboxOf, Enqueued, InTaskQueue

(* The first state of the exchanges is the first of the mailbox.           *)
LEMMA InitMap == Init => MB!MInit
<1> SUFFICES ASSUME Init PROVE MB!MInit
  OBVIOUS
<1>1. \A t \in Tasks : ~Receiving(t)
  BY DEF Init, Receiving
<1>2. \A m \in Messages : m \in AllMessages /\ m \notin IntExchanges
  BY DEF AllMessages
<1> QED
  BY <1>1, <1>2 DEF Init, MB!MInit, inboxOf, ownerOf

(* The start of a call.                                                    *)
Enters(t) ==
  \/ \E where \in {"send", "accept", "wait"}, e \in Exchanges,
        m \in AllMessages \cup {NULL} : Call(t, where, e, m)
  \/ CallFreeze(t)

(* A step that only the thread of a call sees is nothing to the mailbox.   *)
LEMMA QuietMap ==
  ASSUME IInv, NEW t \in Tasks,
         \/ SendReject(t) \/ SendFreeze(t) \/ SendPost(t)
         \/ Awake(t) \/ Relock(t) \/ Check(t)
         \/ Enters(t)
  PROVE  UNCHANGED MB!mvars
<1> USE DEF IInv
<1>1. UNCHANGED queues
  BY DEF SendReject, SendFreeze, SendPost, Awake, Relock, Check, Enters,
         Call, CallFreeze
<1>2. \A s \in Tasks : Enqueued(s)' <=> Enqueued(s)
  BY <1>1 DEF queues, Enqueued, InTaskQueue
<1>3. \A s \in Tasks \ {t} : pc'[s] = pc[s]
  BY DEF SendReject, SendFreeze, SendPost, Awake, Relock, Check, Enters,
         Call, CallFreeze, TypeOK
<1>4. ASSUME NEW s \in Tasks \ {t} PROVE SameInbox(s)
  BY <1>1, <1>2, <1>3 DEF SameInbox, Receiving, queues
<1>5. CASE Awake(t)
  <2>1. ~Enqueued(t)
    BY <1>5 DEF Awake, QueuedTasks, Enqueued, InTaskQueue
  <2> QED
    BY <1>1, <1>4, <1>5, <2>1, Stutter
    DEF Awake, Receiving, SameInbox, TypeOK, queues
<1>6. CASE Relock(t) \/ Check(t)
  <2>1. Receiving(t) /\ message[t] # NULL
    BY <1>6 DEF Relock, Check, Receiving, ReceiverOwns
  <2> QED
    BY <1>1, <1>4, <1>6, <2>1, Stutter
    DEF Relock, Check, Receiving, SameInbox, TypeOK, queues
<1>7. CASE \/ SendReject(t) \/ SendFreeze(t) \/ SendPost(t) \/ Enters(t)
  <2>1. ~Receiving(t) /\ ~Receiving(t)'
    BY <1>7 DEF SendReject, SendFreeze, SendPost, Enters, CallFreeze, Call,
                Receiving, TypeOK
  <2> QED
    BY <1>1, <1>4, <2>1, Stutter DEF queues
<1> QED
  BY <1>5, <1>6, <1>7

(* The end of a call is the return of what the call was given.             *)
LEMMA GateMap ==
  ASSUME IInv, NEW t \in Tasks, Gate(t)
  PROVE  MB!Return(t) \/ UNCHANGED MB!mvars
<1> USE DEF IInv
<1>1. /\ UNCHANGED <<link, msgq, taskq, message>>
      /\ pc[t] \in {"gate", "stopped"} /\ pc'[t] = "user"
      /\ \A s \in Tasks \ {t} : pc'[s] = pc[s]
  BY DEF Gate, queues, TypeOK
<1>2. \A s \in Tasks : Enqueued(s)' <=> Enqueued(s)
  BY <1>1 DEF Enqueued, InTaskQueue
<1>3. ~Receiving(t)' /\ \A s \in Tasks \ {t} : SameInbox(s)
  BY <1>1, <1>2 DEF SameInbox, Receiving
<1>4. CASE Receiving(t)
  <2>1. inboxOf[t] # NULL
    BY <1>4 DEF inboxOf, ReceiverOwns
  <2>2. inboxOf' = [inboxOf EXCEPT ![t] = NULL]
    BY <1>3 DEF inboxOf, SameInbox
  <2>3. ownerOf' = ownerOf
    BY <1>1 DEF ownerOf
  <2> QED
    BY <1>1, <2>1, <2>2, <2>3 DEF MB!Return
<1>5. CASE ~Receiving(t)
  BY <1>1, <1>3, <1>5, Stutter
<1> QED
  BY <1>4, <1>5

(* reqcmsg makes its caller the owner of a letter.                         *)
LEMMA CreateMap ==
  ASSUME IInv, NEW t \in Tasks, NEW m \in Messages, reqcmsg(t, m)
  PROVE  MB!Create(t, m)
<1>1. MB!Idle(t)
  BY IdleTask DEF reqcmsg
<1>2. /\ link[m] = NULL /\ link' = [link EXCEPT ![m] = t]
      /\ UNCHANGED <<pc, msgq, taskq, message>>
  BY DEF reqcmsg
<1>3. inboxOf' = inboxOf
  BY <1>2 DEF inboxOf, Receiving, Enqueued, InTaskQueue
<1>4. ownerOf[m] = NULL /\ ownerOf' = [ownerOf EXCEPT ![m] = t]
  BY <1>2 DEF ownerOf, IInv, TypeOK, AllMessages
<1> QED
  BY <1>1, <1>2, <1>3, <1>4 DEF MB!Create

(* Whose step a hand-over or a queued message is, in the mailbox.          *)
LEMMA Sender ==
  ASSUME IInv, NEW t \in Tasks, NEW e \in Exchanges, NEW m, pc[t] = "send",
         ~Rejected(t), e = exch[t], m = msg[t],
         MB!Leave(e, m) \/ MB!Hand(e, m)
  PROVE  MB!MNext
<1>1. m \in AllMessages /\ link[m] \in {t, Self} /\ ~InMessageQueue(m, e)
  BY Accepted
<1>2. CASE m \in Messages
  <2>1. ownerOf[m] = t
    BY <1>1, <1>2 DEF ownerOf, IInv, QueuedMessages
  <2>2. MB!Send(t, e, m)
    BY <2>1, IdleTask DEF MB!Send
  <2> QED
    BY <1>2, <2>2 DEF MB!MNext
<1>3. CASE m \in IntExchanges
  <2>1. e = m
    BY <1>3 DEF IInv, Senders
  <2>2. MB!Ring(e)
    BY <1>1, <2>1 DEF MB!Ring, InMessageQueue
  <2> QED
    BY <1>3, <2>1, <2>2 DEF MB!MNext
<1> QED
  BY <1>1, <1>2, <1>3 DEF AllMessages

(* A new link of one message is a new owner of that message, and only of   *)
(* that one, when it is a user message.                                    *)
LEMMA OwnerUpdate ==
  ASSUME IInv, NEW m \in AllMessages, NEW v, NEW o,
         link' = [link EXCEPT ![m] = v], m \in Messages => v = o
  PROVE  ownerOf' = IF m \in Messages THEN [ownerOf EXCEPT ![m] = o] ELSE ownerOf
<1>1. /\ DOMAIN link = AllMessages /\ link = [x \in AllMessages |-> link[x]]
      /\ Messages \subseteq AllMessages
  BY DEF IInv, TypeOK, AllMessages
<1>2. /\ link'[m] = v
      /\ \A x \in AllMessages \ {m} : link'[x] = link[x]
  BY <1>1
<1>3. CASE m \in Messages
  <2>1. \A x \in Messages : link'[x] = IF x = m THEN o ELSE link[x]
    BY <1>1, <1>2, <1>3
  <2> QED
    BY <1>3, <2>1 DEF ownerOf
<1>4. CASE m \notin Messages
  <2>1. \A x \in Messages : link'[x] = link[x]
    BY <1>1, <1>2, <1>4
  <2> QED
    BY <1>4, <2>1 DEF ownerOf
<1> QED
  BY <1>3, <1>4

(* A message that is queued is left in the box.                            *)
LEMMA SendQueueMap ==
  ASSUME IInv, NEW t \in Tasks, SendQueue(t)
  PROVE  MB!MNext
<1> SUFFICES ASSUME NEW e \in Exchanges, e = exch[t], NEW m, m = msg[t]
             PROVE  MB!MNext
  BY DEF IInv, TypeOK
<1>1. /\ pc[t] = "send" /\ ~Rejected(t) /\ taskq[e] = << >>
      /\ msgq' = [msgq EXCEPT ![e] = Append(@, m)]
      /\ link' = [link EXCEPT ![m] = Chained]
      /\ UNCHANGED <<taskq, message>>
      /\ pc'[t] = "user" /\ \A s \in Tasks \ {t} : pc'[s] = pc[s]
  BY DEF SendQueue, IInv, TypeOK
<1>2. inboxOf' = inboxOf
  BY <1>1 DEF inboxOf, Receiving, Enqueued, InTaskQueue
<1>3. m \in AllMessages
  BY <1>1, Accepted
<1>4. ownerOf' = IF m \in Messages THEN [ownerOf EXCEPT ![m] = Chained] ELSE ownerOf
  BY <1>1, <1>3, OwnerUpdate
<1>5. MB!Leave(e, m)
  BY <1>1, <1>2, <1>4 DEF MB!Leave
<1> QED
  BY <1>1, <1>5, Sender

(* A message that is handed over goes to the first in line.                *)
LEMMA SendHandMap ==
  ASSUME IInv, NEW t \in Tasks, SendHand(t)
  PROVE  MB!MNext
<1> SUFFICES ASSUME NEW e \in Exchanges, e = exch[t], NEW m, m = msg[t],
                    NEW w, w = Head(taskq[e])
             PROVE  MB!MNext
  BY DEF IInv, TypeOK
<1>1. /\ pc[t] = "send" /\ ~Rejected(t) /\ taskq[e] # << >>
      /\ taskq' = [taskq EXCEPT ![e] = Tail(@)]
      /\ link' = [link EXCEPT ![m] = IF m \in IntExchanges THEN Self ELSE w]
      /\ message' = [message EXCEPT ![w] = m]
      /\ pc'[t] = "post" /\ \A s \in Tasks \ {t} : pc'[s] = pc[s]
      /\ UNCHANGED <<msgq>>
  BY DEF SendHand, HandTo, IInv, TypeOK
<1>2. /\ \A d \in Exchanges : taskq[d] \in Seq(Tasks)
      /\ m \in AllMessages
  BY <1>1, Accepted DEF IInv, TypeOK
<1>3. /\ w \in Tasks /\ w = taskq[e][1] /\ 1 \in 1..Len(taskq[e])
      /\ Len(taskq[e]) \in Nat
      /\ Len(taskq'[e]) = Len(taskq[e]) - 1
      /\ \A i \in 1..Len(taskq'[e]) : taskq'[e][i] = taskq[e][i + 1]
      /\ \A d \in Exchanges \ {e} : taskq'[d] = taskq[d]
  BY <1>1, <1>2 DEF IInv, TypeOK
<1>4. /\ pc[w] = "blocked" /\ w # t
      /\ \A d \in Exchanges : \A i \in 1..Len(taskq[d]) :
           taskq[d][i] = w => d = e /\ i = 1
  BY <1>1, <1>3 DEF IInv, QueuedTasks
<1>5. ~Enqueued(w)' /\ Enqueued(w)
  <2>1. ASSUME NEW d \in Exchanges, NEW i \in 1..Len(taskq'[d])
        PROVE  taskq'[d][i] # w
    <3>1. CASE d = e
      <4>1. i \in Nat /\ i + 1 \in 1..Len(taskq[e]) /\ i + 1 # 1
        BY <1>3, <3>1
      <4> QED
        BY <1>3, <1>4, <3>1, <4>1
    <3>2. CASE d # e
      <4>1. taskq'[d] = taskq[d]
        BY <1>3, <3>2
      <4>2. i \in 1..Len(taskq[d])
        BY <4>1
      <4> QED
        BY <1>4, <3>2, <4>1, <4>2
    <3> QED
      BY <3>1, <3>2
  <2>2. InTaskQueue(w, e)
    BY <1>3 DEF InTaskQueue
  <2> QED
    BY <2>1, <2>2 DEF Enqueued, InTaskQueue
<1>6. \A s \in Tasks \ {w} : Enqueued(s)' <=> Enqueued(s)
  <2>1. ASSUME NEW s \in Tasks \ {w}, NEW i \in 1..Len(taskq[e]), taskq[e][i] = s
        PROVE  \E j \in 1..Len(taskq'[e]) : taskq'[e][j] = s
    <3>1. i # 1
      BY <1>3, <2>1
    <3>2. PICK j \in 1..Len(taskq'[e]) : j + 1 = i
      BY <1>3, <3>1
    <3> QED
      BY <1>3, <2>1, <3>2
  <2>2. ASSUME NEW s \in Tasks \ {w}, NEW j \in 1..Len(taskq'[e]), taskq'[e][j] = s
        PROVE  \E i \in 1..Len(taskq[e]) : taskq[e][i] = s
    BY <1>3, <2>2
  <2>3. \A s \in Tasks \ {w}, d \in Exchanges :
          InTaskQueue(s, d)' <=> InTaskQueue(s, d)
    <3>1. \A s \in Tasks \ {w} : InTaskQueue(s, e)' <=> InTaskQueue(s, e)
      BY <2>1, <2>2 DEF InTaskQueue
    <3>2. \A s \in Tasks, d \in Exchanges \ {e} :
            InTaskQueue(s, d)' <=> InTaskQueue(s, d)
      BY <1>3 DEF InTaskQueue
    <3> QED
      BY <3>1, <3>2
  <2> QED
    BY <2>3 DEF Enqueued
<1>7. /\ Receiving(w)' /\ ~Receiving(w) /\ message'[w] = m
      /\ \A s \in Tasks \ {w} :
           (Receiving(s)' <=> Receiving(s)) /\ message'[s] = message[s]
  BY <1>1, <1>3, <1>4, <1>5, <1>6 DEF Receiving, IInv, TypeOK
<1>8. inboxOf[w] = NULL /\ inboxOf' = [inboxOf EXCEPT ![w] = m]
  BY <1>3, <1>7 DEF inboxOf
<1>9. ownerOf' = IF m \in Messages THEN [ownerOf EXCEPT ![m] = w] ELSE ownerOf
  <2>1. m \in Messages => m \notin IntExchanges
    BY ExchangeAssumption
  <2> QED
    BY <1>1, <1>2, <2>1, OwnerUpdate
<1>10. MB!Hand(e, m)
  BY <1>1, <1>8, <1>9 DEF MB!Hand
<1> QED
  BY <1>1, <1>10, Sender

(* A call that takes the head message takes the oldest of the box.         *)
LEMMA TakeMap ==
  ASSUME IInv, NEW t \in Tasks, WaitTake(t) \/ Accept(t)
  PROVE  MB!MNext \/ UNCHANGED MB!mvars
<1> SUFFICES ASSUME NEW e \in Exchanges, e = exch[t]
             PROVE  MB!MNext \/ UNCHANGED MB!mvars
  BY DEF IInv, TypeOK
<1>1. /\ pc[t] \in {"wait", "accept"} /\ UNCHANGED taskq
      /\ pc'[t] \in {"check", "gate"}
      /\ \A s \in Tasks \ {t} : pc'[s] = pc[s] /\ message'[s] = message[s]
  BY DEF WaitTake, Accept, reqdqmsg, LinkAfter, IInv, TypeOK
<1>2. \A s \in Tasks \ {t} : Receiving(s)' <=> Receiving(s)
  BY <1>1 DEF Receiving, Enqueued, InTaskQueue
<1>3. CASE msgq[e] # << >>
  <2>1. reqdqmsg(t, e) /\ taskq[e] = << >>
    BY <1>3 DEF WaitTake, Accept, IInv, OneQueue
  <2> SUFFICES ASSUME NEW m, m = Head(msgq[e])
               PROVE  MB!MNext \/ UNCHANGED MB!mvars
    OBVIOUS
  <2>2. /\ message' = [message EXCEPT ![t] = m]
        /\ link' = [link EXCEPT ![m] = IF m = e THEN Self ELSE t]
        /\ msgq' = [msgq EXCEPT ![e] = Tail(@)]
    BY <2>1 DEF reqdqmsg, LinkAfter
  <2>3. m \in AllMessages
    BY <1>3 DEF IInv, TypeOK
  <2>4. m # NULL /\ message'[t] = m
        /\ \A s \in Tasks \ {t} : message'[s] = message[s]
    BY <2>2, <2>3 DEF IInv, TypeOK
  <2>5. Receiving(t)'
    BY <1>1, <2>4 DEF Receiving
  <2>6. inboxOf' = [inboxOf EXCEPT ![t] = m]
    BY <1>2, <2>4, <2>5 DEF inboxOf
  <2>7. ownerOf' = IF m \in Messages THEN [ownerOf EXCEPT ![m] = t] ELSE ownerOf
    <3>1. m \in Messages => m # e
      BY ExchangeAssumption
    <3> QED
      BY <2>2, <2>3, <3>1, OwnerUpdate
  <2>8. MB!Take(t, e)
    BY <1>1, <1>3, <2>2, <2>6, <2>7, IdleTask DEF MB!Take
  <2> QED
    BY <2>8 DEF MB!MNext
<1>4. CASE msgq[e] = << >>
  <2>1. /\ UNCHANGED <<link, msgq>> /\ pc'[t] = "gate"
        /\ message' = [message EXCEPT ![t] = NULL]
    BY <1>4 DEF WaitTake, Accept, IInv, TypeOK
  <2>2. ~Receiving(t)' /\ ~Receiving(t)
    BY <1>1, <2>1 DEF Receiving, IInv, TypeOK
  <2> QED
    BY <1>1, <1>2, <2>1, <2>2, Stutter DEF SameInbox
<1> QED
  BY <1>3, <1>4

(* A call that sleeps joins the line.                                      *)
LEMMA JoinMap ==
  ASSUME IInv, NEW t \in Tasks, WaitBlock(t)
  PROVE  MB!MNext
<1> SUFFICES ASSUME NEW e \in Exchanges, e = exch[t]
             PROVE  MB!MNext
  BY DEF IInv, TypeOK
<1>1. /\ pc[t] = "wait" /\ msgq[e] = << >> /\ pc'[t] = "blocked"
      /\ taskq' = [taskq EXCEPT ![e] = Append(@, t)]
      /\ UNCHANGED <<link, msgq, message>>
      /\ \A s \in Tasks \ {t} : pc'[s] = pc[s]
  BY DEF WaitBlock, Block, IInv, TypeOK
<1>2. \A d \in Exchanges : taskq[d] \in Seq(Tasks)
  BY DEF IInv, TypeOK
<1>3. /\ Len(taskq[e]) \in Nat /\ Len(taskq'[e]) = Len(taskq[e]) + 1
      /\ taskq'[e][Len(taskq[e]) + 1] = t
      /\ \A i \in 1..Len(taskq[e]) : taskq'[e][i] = taskq[e][i]
      /\ \A d \in Exchanges \ {e} : taskq'[d] = taskq[d]
  BY <1>1, <1>2 DEF IInv, TypeOK
<1>4. Enqueued(t)'
  <2>1. InTaskQueue(t, e)'
    BY <1>3 DEF InTaskQueue
  <2> QED
    BY <2>1 DEF Enqueued
<1>5. \A s \in Tasks \ {t} : Enqueued(s)' <=> Enqueued(s)
  <2>1. ASSUME NEW s \in Tasks \ {t}, NEW d \in Exchanges \ {e}
        PROVE  InTaskQueue(s, d)' <=> InTaskQueue(s, d)
    BY <1>3 DEF InTaskQueue
  <2>2. ASSUME NEW s \in Tasks \ {t}
        PROVE  InTaskQueue(s, e)' <=> InTaskQueue(s, e)
    BY <1>3 DEF InTaskQueue
  <2> QED
    BY <2>1, <2>2 DEF Enqueued
<1>6. inboxOf' = inboxOf
  BY <1>1, <1>4, <1>5 DEF inboxOf, Receiving
<1>7. ownerOf' = ownerOf
  BY <1>1 DEF ownerOf
<1>8. MB!Join(t, e)
  BY <1>1, <1>6, <1>7, IdleTask DEF MB!Join
<1> QED
  BY <1>8 DEF MB!MNext

(* Every behaviour of the calls, with their locks, semaphores and freezes, *)
(* is a behaviour of the mailboxes: each message goes to one task, in the  *)
(* order of sending and of waiting, and reqwait returns what was handed.   *)
THEOREM Refinement == Spec => ImplementsMailbox
<1>1. IInv /\ [Next]_vars => [MB!MNext]_(MB!mvars)
  <2> SUFFICES ASSUME IInv, [Next]_vars
               PROVE  MB!MNext \/ UNCHANGED MB!mvars
    OBVIOUS
  <2>1. CASE UNCHANGED vars \/ reqfreeze \/ reqbake
    <3>1. UNCHANGED <<pc, queues>>
      BY <2>1 DEF vars, reqfreeze, reqbake, queues
    <3> QED
      BY <3>1, Stutter DEF SameInbox, Receiving, Enqueued, InTaskQueue, queues
  <2>2. ASSUME NEW t \in Tasks, User(t) PROVE MB!MNext \/ UNCHANGED MB!mvars
    <3>1. CASE \E m \in Messages : reqcmsg(t, m)
      BY <3>1, CreateMap DEF MB!MNext
    <3>2. CASE Enters(t)
      BY <3>2, QuietMap
    <3> QED
      BY <2>2, <3>1, <3>2
      DEF User, CallSend, CallIsnd, CallAccept, CallWait, Enters, AllMessages
  <2>3. ASSUME NEW t \in Tasks, Inside(t) PROVE MB!MNext \/ UNCHANGED MB!mvars
    <3>1. CASE Gate(t)
      BY <3>1, GateMap DEF MB!MNext
    <3> QED
      BY <2>3, <3>1, QuietMap, SendQueueMap, SendHandMap, TakeMap, JoinMap
      DEF Inside
  <2> QED
    BY <2>1, <2>2, <2>3 DEF Next
<1> QED
  BY <1>1, InitMap, Invariance, PTL DEF Spec, ImplementsMailbox, MB!MSpec

=============================================================================
