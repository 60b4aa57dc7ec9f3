------------------------------- MODULE Mailbox -------------------------------
(***************************************************************************)
(* What the exchanges of YRmx promise, without threads, locks, semaphores  *)
(* or the freeze: every call takes effect at once.  A message goes to one  *)
(* task, the task that waits longest; messages that no task waits for are  *)
(* taken in the order in which they were sent; a task gets the message it  *)
(* was given, and only that one, when its call returns.                    *)
(***************************************************************************)
EXTENDS Naturals, Sequences

CONSTANTS
  Clients,    \* the tasks
  Boxes,      \* the exchanges
  Letters,    \* user messages
  Bells,      \* the exchanges with an interrupt message of their own
  Nothing,    \* no message, no owner
  InTransit   \* owner of a letter that waits in a box

VARIABLES
  mail,   \* the letters and rings in each box, oldest first
  line,   \* the tasks that wait at each box, in order of arrival
  inbox,  \* what the call that a task is making will return
  owner   \* of each letter

mvars == <<mail, line, inbox, owner>>

Waiting(c) == \E b \in Boxes : \E i \in 1..Len(line[b]) : line[b][i] = c
Idle(c) == inbox[c] = Nothing /\ ~Waiting(c)

MInit ==
  /\ mail = [b \in Boxes |-> << >>]
  /\ line = [b \in Boxes |-> << >>]
  /\ inbox = [c \in Clients |-> Nothing]
  /\ owner = [m \in Letters |-> Nothing]

Create(c, m) ==
  /\ Idle(c)
  /\ owner[m] = Nothing
  /\ owner' = [owner EXCEPT ![m] = c]
  /\ UNCHANGED <<mail, line, inbox>>

(* m is left in box b, or goes to the first task in line.                  *)
Leave(b, m) ==
  /\ line[b] = << >>
  /\ mail' = [mail EXCEPT ![b] = Append(@, m)]
  /\ owner' = IF m \in Letters THEN [owner EXCEPT ![m] = InTransit] ELSE owner
  /\ UNCHANGED <<line, inbox>>

Hand(b, m) ==
  /\ line[b] # << >>
  /\ inbox[Head(line[b])] = Nothing
  /\ line' = [line EXCEPT ![b] = Tail(@)]
  /\ inbox' = [inbox EXCEPT ![Head(line[b])] = m]
  /\ owner' = IF m \in Letters THEN [owner EXCEPT ![m] = Head(line[b])]
                               ELSE owner
  /\ UNCHANGED mail

(* Only the owner of a letter, busy with no other call, can send it.       *)
Send(c, b, m) ==
  /\ Idle(c)
  /\ owner[m] = c
  /\ Leave(b, m) \/ Hand(b, m)

(* A bell has at most one ring in its box.                                 *)
Ring(b) ==
  /\ \A i \in 1..Len(mail[b]) : mail[b][i] # b
  /\ Leave(b, b) \/ Hand(b, b)

(* Of a letter in the box, the oldest is taken.                            *)
Take(c, b) ==
  LET m == Head(mail[b]) IN
  /\ Idle(c)
  /\ mail[b] # << >>
  /\ mail' = [mail EXCEPT ![b] = Tail(@)]
  /\ inbox' = [inbox EXCEPT ![c] = m]
  /\ owner' = IF m \in Letters THEN [owner EXCEPT ![m] = c] ELSE owner
  /\ UNCHANGED line

Join(c, b) ==
  /\ Idle(c)
  /\ mail[b] = << >>
  /\ line' = [line EXCEPT ![b] = Append(@, c)]
  /\ UNCHANGED <<mail, inbox, owner>>

(* The call returns what was given to the task.                            *)
Return(c) ==
  /\ inbox[c] # Nothing
  /\ inbox' = [inbox EXCEPT ![c] = Nothing]
  /\ UNCHANGED <<mail, line, owner>>

MNext ==
  \/ \E c \in Clients :
       \/ \E m \in Letters : Create(c, m)
       \/ \E b \in Boxes, m \in Letters : Send(c, b, m)
       \/ \E b \in Boxes : Take(c, b) \/ Join(c, b)
       \/ Return(c)
  \/ \E b \in Bells : Ring(b)

MSpec == MInit /\ [][MNext]_mvars
=============================================================================
