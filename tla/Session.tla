------------------------------ MODULE Session -------------------------------
(***************************************************************************)
(* The test program ytest.c, a client of the mailboxes: frank and sinatra  *)
(* send one message to and fro, a watchdog waits for one time-out after    *)
(* another, and main reads keys, ends the game and collects the threads.   *)
(* The exchanges that frank, for his pause, and the watchdog wait at are   *)
(* their own: nothing is ever sent there, and a wait there is a delay.     *)
(*                                                                         *)
(* A task that is cancelled ends where it next waits or prints.  Freezing  *)
(* stops the tasks at their next call, here at once.                       *)
(*                                                                         *)
(* The definitions whose names end in X are plausible mistakes in those    *)
(* after them; nothing uses them.                                          *)
(***************************************************************************)
EXTENDS Mailbox

CONSTANTS
  frank, sinatra, watchdog,
  frank_exch, sinatra_exch,
  a_message,
  MaxCycles  \* max_cycles, as set from the command line

ASSUME SessionAssumption ==
  /\ Clients = {frank, sinatra} /\ frank # sinatra /\ watchdog \notin Clients
  /\ Boxes = {frank_exch, sinatra_exch} /\ frank_exch # sinatra_exch
  /\ Letters = {a_message} /\ a_message # Nothing /\ Bells = {}
  /\ MaxCycles \in Nat

VARIABLES
  pc,          \* of the three tasks
  type,        \* of a_message
  cycles, s_cycles, max_cycles,
  delay,       \* the watchdog's wait: "out", "delayed" and in its exchange's
               \* queue, "unqueued" but delayed, or "expired"
  cancelled,   \* threads with a pthread_cancel pending
  rqfrozen,
  main,        \* where main stands, or "crashed"
  seen         \* the value of cycles that main has read

post == <<mail, line, inbox, owner>>
counts == <<cycles, s_cycles, max_cycles>>
vars == <<pc, type, post, counts, delay, cancelled, rqfrozen, main, seen>>

Init ==
  /\ MInit
  /\ pc = [t \in {frank, sinatra, watchdog} |->
             CASE t = frank -> "create" [] t = sinatra -> "wait" [] OTHER -> "arf"]
  /\ type = "none"
  /\ cycles = 0 /\ s_cycles = 0 /\ max_cycles = MaxCycles
  /\ delay = "out"
  /\ cancelled = {}
  /\ rqfrozen = FALSE
  /\ main = "keys" /\ seen = 0

At(t, label) == pc[t] = label /\ ~rqfrozen /\ main # "crashed"
Goto(t, label) == pc' = [pc EXCEPT ![t] = label]

(* The calls of a task: rqsend to e, rqwait at e, and rqwait's return.     *)
DoSendX(t, from, e, to) ==
  /\ At(t, from)
  /\ Goto(t, to) \/ Goto(t, from)
  /\ Send(t, e, a_message)
  /\ UNCHANGED <<type, counts, delay, cancelled, rqfrozen, main, seen>>
DoSend(t, from, e, to) ==
  /\ At(t, from) /\ Goto(t, to)
  /\ Send(t, e, a_message)
  /\ UNCHANGED <<type, counts, delay, cancelled, rqfrozen, main, seen>>
DoWait(t, from, e, to) ==
  /\ At(t, from) /\ Goto(t, to)
  /\ Take(t, e) \/ Join(t, e)
  /\ UNCHANGED <<type, counts, delay, cancelled, rqfrozen, main, seen>>

-----------------------------------------------------------------------------
(* frank: a first exchange of greetings, then rounds, each followed by a   *)
(* pause, until there were more than max_cycles; then the last message,    *)
(* the deletion of both other tasks and his own.                           *)
FrankCreates ==
  /\ At(frank, "create") /\ Goto(frank, "begin")
  /\ Create(frank, a_message)
  /\ type' = "begin"
  /\ UNCHANGED <<counts, delay, cancelled, rqfrozen, main, seen>>

FrankGets(from, to) ==
  /\ At(frank, from) /\ Goto(frank, to)
  /\ Return(frank)
  /\ type' = "start"
  /\ UNCHANGED <<counts, delay, cancelled, rqfrozen, main, seen>>

FrankRound ==
  /\ At(frank, "startgot")
  /\ Return(frank)
  /\ cycles' = cycles + 1
  /\ IF cycles + 1 > max_cycles
     THEN Goto(frank, "stop") /\ type' = "stop"
     ELSE Goto(frank, "pause") /\ type' = "start"
  /\ UNCHANGED <<s_cycles, max_cycles, delay, cancelled, rqfrozen, main, seen>>

FrankRests ==
  /\ At(frank, "pause") /\ Goto(frank, "start")
  /\ UNCHANGED <<type, post, counts, delay, cancelled, rqfrozen, main, seen>>

(* rqdtsk(&sinatraTd), who has answered and is about to end, or has ended. *)
FrankDeletesSinatra ==
  /\ At(frank, "delsinatra") /\ Goto(frank, "delwatchdog")
  /\ cancelled' = IF pc[sinatra] = "dead" THEN cancelled ELSE cancelled \cup {sinatra}
  /\ UNCHANGED <<type, post, counts, delay, rqfrozen, main, seen>>

(* rqdtsk(&watchdogTd) reads the status (ycore.c:812), and then takes the  *)
(* task from its exchange with no lock: an empty queue is a system error,  *)
(* but one that becomes empty after that test ends the walk along it at a  *)
(* null pointer.  A delay that is still running is cancelled at last.      *)
FrankTests ==
  /\ At(frank, "delwatchdog")
  /\ Goto(frank, IF delay \in {"delayed", "unqueued"} THEN "head" ELSE "cancel")
  /\ UNCHANGED <<type, post, counts, delay, cancelled, rqfrozen, main, seen>>
FrankLooks ==
  /\ At(frank, "head")
  /\ Goto(frank, IF delay = "delayed" THEN "walk" ELSE "undelay")
  /\ rqfrozen' = (delay # "delayed")
  /\ UNCHANGED <<type, post, counts, delay, cancelled, main, seen>>
FrankWalks ==
  /\ At(frank, "walk") /\ Goto(frank, "unlink")
  /\ main' = IF delay = "delayed" THEN main ELSE "crashed"
  /\ UNCHANGED <<type, post, counts, delay, cancelled, rqfrozen, seen>>
FrankDequeues ==
  /\ At(frank, "unlink") /\ Goto(frank, "undelay")
  /\ delay' = IF delay = "delayed" THEN "unqueued" ELSE delay
  /\ UNCHANGED <<type, post, counts, cancelled, rqfrozen, main, seen>>
FrankCancels ==
  /\ At(frank, "undelay") /\ Goto(frank, "cancel")
  /\ delay' = IF delay \in {"delayed", "unqueued"} THEN "out" ELSE delay
  /\ UNCHANGED <<type, post, counts, cancelled, rqfrozen, main, seen>>
FrankEnds ==
  /\ At(frank, "cancel") /\ Goto(frank, "dead")
  /\ cancelled' = IF pc[watchdog] = "dead" THEN cancelled ELSE cancelled \cup {watchdog}
  /\ UNCHANGED <<type, post, counts, delay, rqfrozen, main, seen>>

Frank ==
  \/ FrankCreates
  \/ DoSend(frank, "begin", sinatra_exch, "beginwait")
  \/ DoWait(frank, "beginwait", frank_exch, "begingot")
  \/ FrankGets("begingot", "start")
  \/ DoSend(frank, "start", sinatra_exch, "startwait")
  \/ DoWait(frank, "startwait", frank_exch, "startgot")
  \/ FrankRound \/ FrankRests
  \/ DoSend(frank, "stop", sinatra_exch, "stopwait")
  \/ DoWait(frank, "stopwait", frank_exch, "stopgot")
  \/ FrankGets("stopgot", "delsinatra")
  \/ FrankDeletesSinatra \/ FrankTests \/ FrankLooks \/ FrankWalks
  \/ FrankDequeues \/ FrankCancels \/ FrankEnds

-----------------------------------------------------------------------------
(* sinatra answers whatever comes, counts the rounds, and after the last   *)
(* message prints Tot_ns/s_cycles and deletes himself.                     *)
SinatraGetsX ==
  /\ At(sinatra, "got")
  /\ Return(sinatra)
  /\ s_cycles' = IF type = "begin" THEN s_cycles + 1 ELSE s_cycles
  /\ Goto(sinatra, IF type = "stop" THEN "last" ELSE "answer")
  /\ UNCHANGED <<type, cycles, max_cycles, delay, cancelled, rqfrozen, main, seen>>
SinatraGetsY ==
  /\ At(sinatra, "got")
  /\ Return(sinatra)
  /\ s_cycles' = IF type = "start" THEN s_cycles + 1 ELSE s_cycles
  /\ Goto(sinatra, CASE type = "stop" -> "last" [] type = "begin" -> "wait"
                     [] OTHER -> "answer")
  /\ UNCHANGED <<type, cycles, max_cycles, delay, cancelled, rqfrozen, main, seen>>
SinatraGets ==
  /\ At(sinatra, "got")
  /\ Return(sinatra)
  /\ s_cycles' = IF type = "start" THEN s_cycles + 1 ELSE s_cycles
  /\ Goto(sinatra, IF type = "stop" THEN "last" ELSE "answer")
  /\ UNCHANGED <<type, cycles, max_cycles, delay, cancelled, rqfrozen, main, seen>>

SinatraEnds ==
  /\ At(sinatra, "end") /\ Goto(sinatra, "dead")
  /\ cancelled' = cancelled \ {sinatra}
  /\ UNCHANGED <<type, post, counts, delay, rqfrozen, main, seen>>

Sinatra ==
  \/ DoWait(sinatra, "wait", sinatra_exch, "got")
  \/ SinatraGets
  \/ DoSend(sinatra, "answer", frank_exch, "wait")
  \/ DoSend(sinatra, "last", frank_exch, "end")
  \/ SinatraEnds

-----------------------------------------------------------------------------
(* The watchdog's timed waits.  rqdelaytask looks for him in his exchange  *)
(* before it wakes him, and follows a null pointer if he is not there.     *)
WatchdogWaits ==
  /\ At(watchdog, "arf") /\ Goto(watchdog, "wait")
  /\ delay' = "delayed"
  /\ UNCHANGED <<type, post, counts, cancelled, rqfrozen, main, seen>>
Expire ==
  /\ ~rqfrozen /\ main # "crashed"
  /\ \/ delay = "delayed" /\ delay' = "expired" /\ UNCHANGED main
     \/ delay = "unqueued" /\ main' = "crashed" /\ UNCHANGED delay
  /\ UNCHANGED <<pc, type, post, counts, cancelled, rqfrozen, seen>>
WatchdogWakes ==
  /\ At(watchdog, "wait") /\ delay = "expired"
  /\ Goto(watchdog, "arf")
  /\ delay' = "out"
  /\ UNCHANGED <<type, post, counts, cancelled, rqfrozen, main, seen>>
Watchdog == WatchdogWaits \/ Expire \/ WatchdogWakes

(* pthread_cancel takes effect, also on a frozen task.                     *)
Cancel(t) ==
  /\ t \in cancelled /\ main # "crashed"
  /\ cancelled' = cancelled \ {t}
  /\ Goto(t, "dead")
  /\ UNCHANGED <<type, post, counts, delay, rqfrozen, main, seen>>

-----------------------------------------------------------------------------
(* main: rqfreeze and rqbake by key, 'q' to end.  A game that is not over  *)
(* is cut short by setting max_cycles to the cycles done.                  *)
Key ==
  /\ main = "keys"
  /\ \/ rqfrozen' = TRUE /\ UNCHANGED main
     \/ rqfrozen' = FALSE /\ UNCHANGED main
     \/ main' = "quit" /\ UNCHANGED rqfrozen
  /\ UNCHANGED <<pc, type, post, counts, delay, cancelled, seen>>

ReadCycles ==
  /\ main = "quit" /\ main' = "store"
  /\ seen' = cycles
  /\ UNCHANGED <<pc, type, post, counts, delay, cancelled, rqfrozen>>

Store ==
  /\ main = "store" /\ main' = "joinfrank"
  /\ max_cycles' = seen
  /\ UNCHANGED <<pc, type, post, cycles, s_cycles, delay, cancelled, rqfrozen, seen>>

Collect(t, from, next, to) ==
  /\ main = from /\ main' = to
  /\ pc[t] = "dead"
  /\ cancelled' = IF next = t \/ pc[next] = "dead" THEN cancelled
                  ELSE cancelled \cup {next}
  /\ UNCHANGED <<pc, type, post, counts, delay, rqfrozen, seen>>

Main ==
  \/ ReadCycles \/ Store
  \/ Collect(frank, "joinfrank", sinatra, "joinsinatra")
  \/ Collect(sinatra, "joinsinatra", watchdog, "joinwatchdog")
  \/ Collect(watchdog, "joinwatchdog", watchdog, "exited")

Next ==
  \/ Frank \/ Sinatra \/ Watchdog \/ Key \/ Main
  \/ \E t \in {sinatra, watchdog} : Cancel(t)

(* Every thread runs, and delays expire; nobody need press a key.          *)
Spec ==
  /\ Init /\ [][Next]_vars
  /\ WF_vars(Frank) /\ WF_vars(Sinatra) /\ WF_vars(Watchdog) /\ WF_vars(Main)
  /\ \A t \in {sinatra, watchdog} : WF_vars(Cancel(t))

-----------------------------------------------------------------------------
(* Whoever is about to send owns the message: the game never ends in a     *)
(* system error of rqsend, whenever it is frozen, thawed or cut short.     *)
SendersOwn ==
  /\ pc[frank] \in {"begin", "start", "stop"} => owner[a_message] = frank
  /\ pc[sinatra] \in {"answer", "last"} => owner[a_message] = sinatra

(* Both have counted the same rounds when frank stops, and at least one,   *)
(* since both divide by their count (ytest.c:242, 246, 335, 339).          *)
SameRounds ==
  /\ pc[frank] \in {"start", "pause", "stop"} => s_cycles = cycles
  /\ pc[sinatra] = "last" => s_cycles = cycles /\ cycles > 0

(* After 'q' the program ends, if only by the null pointer, unless it is   *)
(* frozen by then, by key or by the system error of rqdtsk.                *)
QuitEnds == main = "quit" ~> main \in {"exited", "crashed"} \/ rqfrozen

(* ytest.c:528: "Enter d,r,x,t,n to debug, q to terminate".                *)
QuitTerminates == main = "quit" /\ ~rqfrozen ~> main = "exited"
=============================================================================
