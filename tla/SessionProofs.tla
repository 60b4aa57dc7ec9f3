--------------------------- MODULE SessionProofs ----------------------------
(***************************************************************************)
(* Proofs about the game of ytest.c, for any number of rounds: wherever    *)
(* the message is, one of the two has it or will get it next, the other    *)
(* waits, and the counts of the rounds differ by at most the one that is   *)
(* on.  Then proofs about the arithmetic of Time.                          *)
(***************************************************************************)
EXTENDS Session, Time, TLAPS

FrankHas == {"begin", "start", "pause", "stop"}
FrankWait == {"beginwait", "startwait", "stopwait"}
FrankGot == {"begingot", "startgot", "stopgot"}
FrankDone ==
  {"delsinatra", "delwatchdog", "head", "walk", "unlink", "undelay", "cancel",
   "dead"}
SinatraDone == {"end", "dead"}
Labels == FrankHas \cup FrankWait \cup FrankGot \cup FrankDone \cup SinatraDone
          \cup {"create", "wait", "got", "answer", "last", "arf"}

(* What there is for task t, whose exchange is e.                          *)
Clear(t, e) == mail[e] = << >> /\ line[e] = << >> /\ inbox[t] = Nothing
InLine(t, e) == mail[e] = << >> /\ line[e] = <<t>> /\ inbox[t] = Nothing
Mailed(t, e) == mail[e] = <<a_message>> /\ line[e] = << >> /\ inbox[t] = Nothing
Given(t, e) ==
  /\ mail[e] = << >> /\ line[e] = << >> /\ inbox[t] = a_message
  /\ owner[a_message] = t

FrankWaits ==
  \/ pc[frank] \in FrankWait /\ Clear(frank, frank_exch)
  \/ pc[frank] \in FrankGot /\ InLine(frank, frank_exch)
FrankGetsIt ==
  \/ pc[frank] \in FrankWait /\ Mailed(frank, frank_exch)
  \/ pc[frank] \in FrankGot /\ Given(frank, frank_exch)
SinatraWaits ==
  \/ pc[sinatra] = "wait" /\ Clear(sinatra, sinatra_exch)
  \/ pc[sinatra] = "got" /\ InLine(sinatra, sinatra_exch)
SinatraGetsIt ==
  \/ pc[sinatra] = "wait" /\ Mailed(sinatra, sinatra_exch)
  \/ pc[sinatra] = "got" /\ Given(sinatra, sinatra_exch)

(* What s_cycles is after sinatra has had the message.                     *)
Counted == IF type = "start" THEN cycles + 1 ELSE cycles

(* Before the message, frank has it, sinatra gets it, has it, frank gets   *)
(* it, and it is over.                                                     *)
Unmade ==
  /\ pc[frank] = "create" /\ Clear(frank, frank_exch) /\ SinatraWaits
  /\ s_cycles = cycles
AtFrank ==
  /\ pc[frank] \in FrankHas /\ Clear(frank, frank_exch) /\ SinatraWaits
  /\ owner[a_message] = frank /\ s_cycles = cycles
ToSinatra == FrankWaits /\ SinatraGetsIt /\ s_cycles = cycles
AtSinatra ==
  /\ FrankWaits /\ Clear(sinatra, sinatra_exch)
  /\ pc[sinatra] = IF type = "stop" THEN "last" ELSE "answer"
  /\ owner[a_message] = sinatra /\ s_cycles = Counted
ToFrank ==
  /\ FrankGetsIt /\ s_cycles = Counted
  /\ IF type = "stop" THEN pc[sinatra] \in SinatraDone ELSE SinatraWaits
Over == pc[frank] \in FrankDone /\ pc[sinatra] \in SinatraDone

Types ==
  /\ pc \in [{frank, sinatra, watchdog} -> Labels]
  /\ mail \in [Boxes -> Seq(Letters)]
  /\ line \in [Boxes -> Seq(Clients)]
  /\ inbox \in [Clients -> Letters \cup {Nothing}]
  /\ owner \in [Letters -> Clients \cup {Nothing, InTransit}]
  /\ cycles \in Nat /\ s_cycles \in Nat /\ max_cycles \in Nat /\ seen \in Nat

(* The message says what frank said last.                                  *)
Told ==
  /\ pc[frank] \in {"begin", "beginwait", "begingot"} => type = "begin"
  /\ pc[frank] \in {"start", "startwait", "startgot", "pause"} => type = "start"
  /\ pc[frank] \in {"stop", "stopwait", "stopgot"} => type = "stop"
  /\ type = "stop" => cycles > 0

(* Nobody is cancelled before the end.                                     *)
Spared == sinatra \in cancelled => pc[frank] \in FrankDone

Game == Unmade \/ AtFrank \/ ToSinatra \/ AtSinatra \/ ToFrank \/ Over
PInv == Types /\ Told /\ Spared /\ Game

-----------------------------------------------------------------------------
(* The calls, for a task t whose exchange is e: what it is sent waits in   *)
(* the exchange or goes to it, and nothing else changes for the other.     *)
Apart(t, e) ==
  /\ \A d \in Boxes \ {e} : mail'[d] = mail[d] /\ line'[d] = line[d]
  /\ \A u \in Clients \ {t} : inbox'[u] = inbox[u]

PostTypes ==
  /\ mail \in [Boxes -> Seq(Letters)]
  /\ line \in [Boxes -> Seq(Clients)]
  /\ inbox \in [Clients -> Letters \cup {Nothing}]
  /\ owner \in [Letters -> Clients \cup {Nothing, InTransit}]

LEMMA Sending ==
  ASSUME SessionAssumption, PostTypes, NEW c \in Clients, NEW t \in Clients,
         NEW e \in Boxes, Send(c, e, a_message)
  PROVE  /\ owner[a_message] = c
         /\ Clear(t, e) => PostTypes' /\ Apart(t, e) /\ Mailed(t, e)'
         /\ InLine(t, e) => PostTypes' /\ Apart(t, e) /\ Given(t, e)'
<1> USE DEF SessionAssumption, PostTypes
<1>1. owner[a_message] = c /\ (Leave(e, a_message) \/ Hand(e, a_message))
  BY DEF Send
<1>2. ASSUME Clear(t, e) PROVE PostTypes' /\ Apart(t, e) /\ Mailed(t, e)'
  <2>1. Leave(e, a_message)
    BY <1>1, <1>2 DEF Clear, Hand
  <2> QED
    BY <1>2, <2>1 DEF Leave, Clear, Apart, Mailed
<1>3. ASSUME InLine(t, e) PROVE PostTypes' /\ Apart(t, e) /\ Given(t, e)'
  <2>1. Hand(e, a_message) /\ Head(line[e]) = t /\ Tail(line[e]) = << >>
    BY <1>1, <1>3 DEF InLine, Leave
  <2> QED
    BY <1>3, <2>1 DEF Hand, InLine, Apart, Given
<1> QED
  BY <1>1, <1>2, <1>3

LEMMA Receiving ==
  ASSUME SessionAssumption, PostTypes, NEW t \in Clients, NEW e \in Boxes,
         Take(t, e) \/ Join(t, e)
  PROVE  /\ Clear(t, e) =>
              PostTypes' /\ Apart(t, e) /\ InLine(t, e)' /\ owner' = owner
         /\ Mailed(t, e) => PostTypes' /\ Apart(t, e) /\ Given(t, e)'
<1> USE DEF SessionAssumption, PostTypes
<1>1. ASSUME Clear(t, e)
      PROVE  PostTypes' /\ Apart(t, e) /\ InLine(t, e)' /\ owner' = owner
  <2>1. Join(t, e)
    BY <1>1 DEF Clear, Take
  <2> QED
    BY <1>1, <2>1 DEF Join, Clear, Apart, InLine
<1>2. ASSUME Mailed(t, e)
      PROVE  PostTypes' /\ Apart(t, e) /\ Given(t, e)'
  <2>1. Take(t, e) /\ Head(mail[e]) = a_message /\ Tail(mail[e]) = << >>
    BY <1>2 DEF Mailed, Join
  <2> QED
    BY <1>2, <2>1 DEF Take, Mailed, Apart, Given
<1> QED
  BY <1>1, <1>2

LEMMA Returning ==
  ASSUME SessionAssumption, PostTypes, NEW t \in Clients, NEW e \in Boxes,
         Return(t)
  PROVE  /\ PostTypes' /\ Apart(t, e) /\ owner' = owner
         /\ inbox[t] = a_message
         /\ Given(t, e) => Clear(t, e)'
BY DEF SessionAssumption, PostTypes, Return, Apart, Given, Clear

-----------------------------------------------------------------------------
(* What each task does to the game.                                        *)
LEMMA FrankCreatesSafe ==
  ASSUME SessionAssumption, PInv, FrankCreates
  PROVE  PInv'
<1> USE DEF SessionAssumption
<1>1. /\ pc[frank] = "create" /\ pc' = [pc EXCEPT ![frank] = "begin"]
      /\ type' = "begin"
      /\ owner' = [owner EXCEPT ![a_message] = frank]
      /\ UNCHANGED <<mail, line, inbox, counts, cancelled, seen>>
  BY DEF FrankCreates, At, Goto, Create
<1>2. Unmade
  BY <1>1 DEF PInv, Game, AtFrank, ToSinatra, AtSinatra, ToFrank, Over,
     FrankWaits, FrankGetsIt, FrankHas, FrankWait, FrankGot, FrankDone
<1>3. Types'
  BY <1>1 DEF PInv, Types, Labels, FrankHas, counts
<1>4. Told' /\ Spared'
  BY <1>1 DEF PInv, Types, Told, Spared, FrankDone
<1>5. AtFrank'
  BY <1>1, <1>2 DEF PInv, Types, Unmade, AtFrank, FrankHas, Clear,
     SinatraWaits, InLine, counts
<1> QED
  BY <1>3, <1>4, <1>5 DEF PInv, Game

LEMMA FrankSendsSafe ==
  ASSUME SessionAssumption, PInv, NEW from, NEW to,
         <<from, to>> \in {<<"begin", "beginwait">>, <<"start", "startwait">>,
                           <<"stop", "stopwait">>},
         DoSend(frank, from, sinatra_exch, to)
  PROVE  PInv'
<1> USE DEF SessionAssumption
<1>1. /\ pc[frank] = from /\ pc' = [pc EXCEPT ![frank] = to]
      /\ Send(frank, sinatra_exch, a_message)
      /\ UNCHANGED <<type, cycles, s_cycles, max_cycles, cancelled, seen>>
  BY DEF DoSend, At, Goto, counts
<1>2. from \in {"begin", "start", "stop"} /\ to \in FrankWait
  BY DEF FrankWait
<1>3. AtFrank
  BY <1>1, <1>2 DEF PInv, Game, Unmade, ToSinatra, AtSinatra, ToFrank, Over,
     FrankWaits, FrankGetsIt, FrankHas, FrankWait, FrankGot, FrankDone
<1>4. PostTypes
  BY DEF PInv, Types, PostTypes
<1>5. PostTypes' /\ Apart(sinatra, sinatra_exch)
  BY <1>1, <1>3, <1>4, Sending DEF AtFrank, SinatraWaits
<1>6. Types'
  BY <1>1, <1>2, <1>5 DEF PInv, Types, PostTypes, Labels
<1>7. Told' /\ Spared'
  BY <1>1, <1>2 DEF PInv, Types, Told, Spared, FrankDone
<1>8. FrankWaits'
  BY <1>1, <1>2, <1>3, <1>5 DEF PInv, Types, AtFrank, FrankWaits, Clear, Apart
<1>9. SinatraGetsIt'
  <2>1. pc'[sinatra] = pc[sinatra]
    BY <1>1 DEF PInv, Types
  <2> QED
    BY <2>1, <1>1, <1>3, <1>4, Sending DEF AtFrank, SinatraWaits, SinatraGetsIt
<1>10. s_cycles' = cycles'
  BY <1>1, <1>3 DEF AtFrank
<1> QED
  BY <1>6, <1>7, <1>8, <1>9, <1>10 DEF PInv, Game, ToSinatra

LEMMA FrankReceivesSafe ==
  ASSUME SessionAssumption, PInv, NEW from, NEW to,
         <<from, to>> \in {<<"beginwait", "begingot">>,
                           <<"startwait", "startgot">>,
                           <<"stopwait", "stopgot">>},
         DoWait(frank, from, frank_exch, to)
  PROVE  PInv'
<1> USE DEF SessionAssumption
<1>1. /\ pc[frank] = from /\ pc' = [pc EXCEPT ![frank] = to]
      /\ Take(frank, frank_exch) \/ Join(frank, frank_exch)
      /\ UNCHANGED <<type, cycles, s_cycles, max_cycles, cancelled, seen>>
  BY DEF DoWait, At, Goto, counts
<1>2. from \in FrankWait /\ to \in FrankGot
  BY DEF FrankWait, FrankGot
<1>3. PostTypes
  BY DEF PInv, Types, PostTypes
<1>4. \/ FrankWaits /\ Clear(frank, frank_exch) /\ (ToSinatra \/ AtSinatra)
      \/ FrankGetsIt /\ Mailed(frank, frank_exch) /\ ToFrank
  BY <1>1, <1>2 DEF PInv, Game, Unmade, AtFrank, ToSinatra, AtSinatra, ToFrank,
     Over, FrankWaits, FrankGetsIt, FrankHas, FrankWait, FrankGot, FrankDone
<1>5. PostTypes' /\ Apart(frank, frank_exch)
  BY <1>1, <1>3, <1>4, Receiving
<1>6. Types'
  BY <1>1, <1>2, <1>5 DEF PInv, Types, PostTypes, Labels
<1>7. Told' /\ Spared'
  BY <1>1 DEF PInv, Types, Told, Spared, FrankDone
<1>8. pc'[frank] \in FrankGot /\ pc'[sinatra] = pc[sinatra]
  BY <1>1, <1>2 DEF PInv, Types
<1>9. CASE Clear(frank, frank_exch) /\ (ToSinatra \/ AtSinatra)
  <2>1. InLine(frank, frank_exch)' /\ owner' = owner
    BY <1>1, <1>3, <1>9, Receiving
  <2>2. FrankWaits'
    BY <1>8, <2>1 DEF FrankWaits
  <2>3. ToSinatra => ToSinatra'
    BY <1>1, <1>5, <1>8, <2>1, <2>2 DEF ToSinatra, SinatraGetsIt, Mailed, Given,
       Apart
  <2>4. AtSinatra => AtSinatra'
    BY <1>1, <1>5, <1>8, <2>1, <2>2 DEF AtSinatra, Clear, Counted, Apart
  <2> QED
    BY <1>6, <1>7, <1>9, <2>3, <2>4 DEF PInv, Game
<1>10. CASE Mailed(frank, frank_exch) /\ ToFrank
  <2>1. Given(frank, frank_exch)'
    BY <1>1, <1>3, <1>10, Receiving
  <2>2. FrankGetsIt'
    BY <1>8, <2>1 DEF FrankGetsIt
  <2>3. ToFrank'
    BY <1>1, <1>5, <1>8, <1>10, <2>2 DEF ToFrank, SinatraWaits, Clear, InLine,
       Counted, Apart
  <2> QED
    BY <1>6, <1>7, <2>3 DEF PInv, Game
<1> QED
  BY <1>4, <1>9, <1>10

LEMMA FrankGetsSafe ==
  ASSUME SessionAssumption, PInv, NEW from, NEW to,
         <<from, to>> \in {<<"begingot", "start">>, <<"stopgot", "delsinatra">>},
         FrankGets(from, to)
  PROVE  PInv'
<1> USE DEF SessionAssumption
<1>1. /\ pc[frank] = from /\ pc' = [pc EXCEPT ![frank] = to]
      /\ Return(frank) /\ type' = "start"
      /\ UNCHANGED <<cycles, s_cycles, max_cycles, cancelled, seen>>
  BY DEF FrankGets, At, Goto, counts
<1>2. PostTypes
  BY DEF PInv, Types, PostTypes
<1>3. /\ PostTypes' /\ Apart(frank, frank_exch) /\ owner' = owner
      /\ inbox[frank] = a_message
  BY <1>1, <1>2, Returning
<1>4. ToFrank /\ Given(frank, frank_exch)
  BY <1>1, <1>3 DEF PInv, Game, Unmade, AtFrank, ToSinatra, AtSinatra, ToFrank,
     Over, FrankWaits, FrankGetsIt, FrankHas, FrankWait, FrankGot, FrankDone,
     InLine
<1>5. Clear(frank, frank_exch)'
  BY <1>1, <1>2, <1>4, Returning
<1>6. Types'
  BY <1>1, <1>3 DEF PInv, Types, PostTypes, Labels, FrankHas, FrankDone
<1>7. Told' /\ Spared'
  BY <1>1 DEF PInv, Types, Told, Spared, FrankDone
<1>8. pc'[frank] = to /\ pc'[sinatra] = pc[sinatra]
  BY <1>1 DEF PInv, Types
<1>9. CASE from = "begingot"
  <2>1. type = "begin" /\ to = "start"
    BY <1>1, <1>9 DEF PInv, Told
  <2>2. AtFrank'
    BY <1>1, <1>3, <1>4, <1>5, <1>8, <2>1 DEF ToFrank, AtFrank, Given,
       SinatraWaits, Clear, InLine, Counted, Apart, FrankHas
  <2> QED
    BY <1>6, <1>7, <2>2 DEF PInv, Game
<1>10. CASE from = "stopgot"
  <2>1. type = "stop" /\ to = "delsinatra"
    BY <1>1, <1>10 DEF PInv, Told
  <2>2. Over'
    BY <1>4, <1>8, <2>1 DEF ToFrank, Over, FrankDone
  <2> QED
    BY <1>6, <1>7, <2>2 DEF PInv, Game
<1> QED
  BY <1>9, <1>10

LEMMA FrankRoundSafe ==
  ASSUME SessionAssumption, PInv, FrankRound
  PROVE  PInv'
<1> USE DEF SessionAssumption
<1>1. /\ pc[frank] = "startgot" /\ Return(frank) /\ cycles' = cycles + 1
      /\ \/ /\ pc' = [pc EXCEPT ![frank] = "stop"] /\ type' = "stop"
         \/ /\ pc' = [pc EXCEPT ![frank] = "pause"] /\ type' = "start"
      /\ UNCHANGED <<s_cycles, max_cycles, cancelled, seen>>
  BY DEF FrankRound, At, Goto
<1>2. PostTypes
  BY DEF PInv, Types, PostTypes
<1>3. /\ PostTypes' /\ Apart(frank, frank_exch) /\ owner' = owner
      /\ inbox[frank] = a_message
  BY <1>1, <1>2, Returning
<1>4. ToFrank /\ Given(frank, frank_exch) /\ type = "start"
  BY <1>1, <1>3 DEF PInv, Told, Game, Unmade, AtFrank, ToSinatra, AtSinatra,
     ToFrank, Over, FrankWaits, FrankGetsIt, FrankHas, FrankWait, FrankGot,
     FrankDone, InLine
<1>5. Clear(frank, frank_exch)'
  BY <1>1, <1>2, <1>4, Returning
<1>6. Types'
  BY <1>1, <1>3 DEF PInv, Types, PostTypes, Labels, FrankHas
<1>7. pc'[frank] \in {"stop", "pause"} /\ pc'[sinatra] = pc[sinatra]
  BY <1>1 DEF PInv, Types
<1>8. Told' /\ Spared'
  BY <1>1 DEF PInv, Types, Told, Spared, FrankDone
<1>9. AtFrank'
  BY <1>1, <1>3, <1>4, <1>5, <1>7 DEF ToFrank, AtFrank, Given, SinatraWaits,
     Clear, InLine, Counted, Apart, FrankHas
<1> QED
  BY <1>6, <1>8, <1>9 DEF PInv, Game

(* Frank alone moves, and neither the message nor the counts change.       *)
LEMMA FrankMovesSafe ==
  ASSUME SessionAssumption, PInv, NEW to,
         \/ pc[frank] = "pause" /\ to = "start"
         \/ pc[frank] \in FrankDone /\ to \in FrankDone,
         pc' = [pc EXCEPT ![frank] = to],
         pc[frank] = "pause" => cancelled' = cancelled,
         UNCHANGED <<type, post, counts, seen>>
  PROVE  PInv'
<1> USE DEF SessionAssumption
<1>1. /\ to \in Labels /\ pc'[frank] = to /\ pc'[sinatra] = pc[sinatra]
      /\ UNCHANGED <<type, mail, line, inbox, owner, cycles, s_cycles,
                     max_cycles, seen>>
  BY DEF PInv, Types, Labels, FrankHas, FrankDone, post, counts
<1>2. Types'
  BY <1>1 DEF PInv, Types
<1>3. Told'
  BY <1>1 DEF PInv, Told, FrankDone
<1>4. CASE pc[frank] = "pause" /\ to = "start"
  <2>1. AtFrank /\ sinatra \notin cancelled
    BY <1>4 DEF PInv, Spared, Game, Unmade, ToSinatra, AtSinatra, ToFrank, Over,
       FrankWaits, FrankGetsIt, FrankWait, FrankGot, FrankDone
  <2>2. AtFrank'
    BY <1>1, <1>4, <2>1 DEF AtFrank, FrankHas, SinatraWaits, Clear, InLine
  <2> QED
    BY <1>2, <1>3, <1>4, <2>1, <2>2 DEF PInv, Game, Spared
<1>5. CASE pc[frank] \in FrankDone /\ to \in FrankDone
  <2>1. Over
    BY <1>5 DEF PInv, Game, Unmade, AtFrank, ToSinatra, AtSinatra, ToFrank,
       FrankWaits, FrankGetsIt, FrankHas, FrankWait, FrankGot, FrankDone
  <2>2. Over' /\ Spared'
    BY <1>1, <1>5, <2>1 DEF Over, Spared
  <2> QED
    BY <1>2, <1>3, <2>2 DEF PInv, Game
<1> QED
  BY <1>4, <1>5

LEMMA FrankSafe ==
  ASSUME SessionAssumption, PInv, Frank
  PROVE  PInv'
<1>1. ASSUME FrankRests PROVE PInv'
  <2>1. /\ pc[frank] = "pause" /\ pc' = [pc EXCEPT ![frank] = "start"]
        /\ UNCHANGED <<type, post, counts, cancelled, seen>>
    BY <1>1 DEF FrankRests, At, Goto
  <2> QED
    BY <2>1, FrankMovesSafe
<1>2. ASSUME \/ FrankDeletesSinatra \/ FrankTests \/ FrankLooks \/ FrankWalks
             \/ FrankDequeues \/ FrankCancels \/ FrankEnds
      PROVE  PInv'
  <2>1. /\ pc[frank] \in FrankDone
        /\ \E to \in FrankDone : pc' = [pc EXCEPT ![frank] = to]
        /\ UNCHANGED <<type, post, counts, seen>>
    BY <1>2 DEF FrankDeletesSinatra, FrankTests, FrankLooks, FrankWalks,
       FrankDequeues, FrankCancels, FrankEnds, At, Goto, FrankDone
  <2> QED
    BY <2>1, FrankMovesSafe DEF FrankDone
<1>3. ASSUME \/ DoSend(frank, "begin", sinatra_exch, "beginwait")
             \/ DoSend(frank, "start", sinatra_exch, "startwait")
             \/ DoSend(frank, "stop", sinatra_exch, "stopwait")
      PROVE  PInv'
  BY <1>3, FrankSendsSafe
<1>4. ASSUME \/ DoWait(frank, "beginwait", frank_exch, "begingot")
             \/ DoWait(frank, "startwait", frank_exch, "startgot")
             \/ DoWait(frank, "stopwait", frank_exch, "stopgot")
      PROVE  PInv'
  BY <1>4, FrankReceivesSafe
<1>5. ASSUME FrankGets("begingot", "start") \/ FrankGets("stopgot", "delsinatra")
      PROVE  PInv'
  BY <1>5, FrankGetsSafe
<1> QED
  BY <1>1, <1>2, <1>3, <1>4, <1>5, FrankCreatesSafe, FrankRoundSafe DEF Frank

-----------------------------------------------------------------------------
LEMMA SinatraReceivesSafe ==
  ASSUME SessionAssumption, PInv, DoWait(sinatra, "wait", sinatra_exch, "got")
  PROVE  PInv'
<1> USE DEF SessionAssumption
<1>1. /\ pc[sinatra] = "wait" /\ pc' = [pc EXCEPT ![sinatra] = "got"]
      /\ Take(sinatra, sinatra_exch) \/ Join(sinatra, sinatra_exch)
      /\ UNCHANGED <<type, cycles, s_cycles, max_cycles, cancelled, seen>>
  BY DEF DoWait, At, Goto, counts
<1>2. PostTypes
  BY DEF PInv, Types, PostTypes
<1>3. pc'[frank] = pc[frank] /\ pc'[sinatra] = "got"
  BY <1>1 DEF PInv, Types
<1>4. \/ Clear(sinatra, sinatra_exch) /\ (Unmade \/ AtFrank \/ ToFrank)
      \/ Mailed(sinatra, sinatra_exch) /\ ToSinatra
  BY <1>1 DEF PInv, Game, Unmade, AtFrank, ToSinatra, AtSinatra, ToFrank, Over,
     SinatraWaits, SinatraGetsIt, SinatraDone
<1>5. PostTypes' /\ Apart(sinatra, sinatra_exch)
  BY <1>1, <1>2, <1>4, Receiving
<1>6. Types'
  BY <1>1, <1>5 DEF PInv, Types, PostTypes, Labels
<1>7. Told' /\ Spared'
  BY <1>1, <1>3 DEF PInv, Told, Spared
<1>8. CASE Clear(sinatra, sinatra_exch) /\ (Unmade \/ AtFrank \/ ToFrank)
  <2>1. InLine(sinatra, sinatra_exch)' /\ owner' = owner
    BY <1>1, <1>2, <1>8, Receiving
  <2>2. SinatraWaits'
    BY <1>3, <2>1 DEF SinatraWaits
  <2>3. Unmade => Unmade'
    BY <1>1, <1>3, <1>5, <2>2 DEF Unmade, Clear, Apart
  <2>4. AtFrank => AtFrank'
    BY <1>1, <1>3, <1>5, <2>1, <2>2 DEF AtFrank, Clear, Apart
  <2>5. ToFrank => ToFrank'
    BY <1>1, <1>3, <1>5, <2>1, <2>2 DEF ToFrank, FrankGetsIt, Mailed, Given,
       Counted, Apart, SinatraDone
  <2> QED
    BY <1>6, <1>7, <1>8, <2>3, <2>4, <2>5 DEF PInv, Game
<1>9. CASE Mailed(sinatra, sinatra_exch) /\ ToSinatra
  <2>1. Given(sinatra, sinatra_exch)'
    BY <1>1, <1>2, <1>9, Receiving
  <2>2. SinatraGetsIt'
    BY <1>3, <2>1 DEF SinatraGetsIt
  <2>3. ToSinatra'
    BY <1>1, <1>3, <1>5, <1>9, <2>2 DEF ToSinatra, FrankWaits, Clear, InLine,
       Apart
  <2> QED
    BY <1>6, <1>7, <2>3 DEF PInv, Game
<1> QED
  BY <1>4, <1>8, <1>9

LEMMA SinatraGetsSafe ==
  ASSUME SessionAssumption, PInv, SinatraGets
  PROVE  PInv'
<1> USE DEF SessionAssumption
<1>1. /\ pc[sinatra] = "got" /\ Return(sinatra)
      /\ s_cycles' = IF type = "start" THEN s_cycles + 1 ELSE s_cycles
      /\ pc' = [pc EXCEPT ![sinatra] = IF type = "stop" THEN "last" ELSE "answer"]
      /\ UNCHANGED <<type, cycles, max_cycles, cancelled, seen>>
  BY DEF SinatraGets, At, Goto
<1>2. PostTypes
  BY DEF PInv, Types, PostTypes
<1>3. /\ PostTypes' /\ Apart(sinatra, sinatra_exch) /\ owner' = owner
      /\ inbox[sinatra] = a_message
  BY <1>1, <1>2, Returning
<1>4. /\ pc'[frank] = pc[frank]
      /\ pc'[sinatra] = IF type = "stop" THEN "last" ELSE "answer"
  BY <1>1 DEF PInv, Types
<1>5. ToSinatra /\ Given(sinatra, sinatra_exch)
  BY <1>1, <1>3 DEF PInv, Game, Unmade, AtFrank, ToSinatra, AtSinatra, ToFrank,
     Over, SinatraWaits, SinatraGetsIt, SinatraDone, Clear, InLine, Mailed
<1>6. Clear(sinatra, sinatra_exch)'
  BY <1>1, <1>2, <1>5, Returning
<1>7. Types'
  BY <1>1, <1>3 DEF PInv, Types, PostTypes, Labels
<1>8. Told' /\ Spared'
  BY <1>1, <1>4 DEF PInv, Told, Spared
<1>9. FrankWaits'
  BY <1>3, <1>4, <1>5 DEF ToSinatra, FrankWaits, Clear, InLine, Apart
<1>10. AtSinatra'
  BY <1>1, <1>3, <1>4, <1>5, <1>6, <1>9 DEF ToSinatra, AtSinatra, Given, Counted,
     PInv, Types
<1> QED
  BY <1>7, <1>8, <1>10 DEF PInv, Game

LEMMA SinatraSendsSafe ==
  ASSUME SessionAssumption, PInv, NEW from, NEW to,
         <<from, to>> \in {<<"answer", "wait">>, <<"last", "end">>},
         DoSend(sinatra, from, frank_exch, to)
  PROVE  PInv'
<1> USE DEF SessionAssumption
<1>1. /\ pc[sinatra] = from /\ pc' = [pc EXCEPT ![sinatra] = to]
      /\ Send(sinatra, frank_exch, a_message)
      /\ UNCHANGED <<type, cycles, s_cycles, max_cycles, cancelled, seen>>
  BY DEF DoSend, At, Goto, counts
<1>2. PostTypes
  BY DEF PInv, Types, PostTypes
<1>3. pc'[frank] = pc[frank] /\ pc'[sinatra] = to
  BY <1>1 DEF PInv, Types
<1>4. AtSinatra
  BY <1>1 DEF PInv, Game, Unmade, AtFrank, ToSinatra, AtSinatra, ToFrank, Over,
     SinatraWaits, SinatraGetsIt, SinatraDone
<1>5. PostTypes' /\ Apart(frank, frank_exch)
  BY <1>1, <1>2, <1>4, Sending DEF AtSinatra, FrankWaits
<1>6. Types'
  BY <1>1, <1>5 DEF PInv, Types, PostTypes, Labels, SinatraDone
<1>7. Told' /\ Spared'
  BY <1>1, <1>3 DEF PInv, Told, Spared
<1>8. FrankGetsIt'
  BY <1>1, <1>2, <1>3, <1>4, Sending DEF AtSinatra, FrankWaits, FrankGetsIt
<1>9. IF type = "stop" THEN to \in SinatraDone ELSE to = "wait"
  BY <1>1, <1>4 DEF AtSinatra, SinatraDone
<1>10. Clear(sinatra, sinatra_exch)'
  BY <1>4, <1>5 DEF AtSinatra, Clear, Apart
<1>11. ToFrank'
  BY <1>1, <1>3, <1>4, <1>8, <1>9, <1>10 DEF AtSinatra, ToFrank, Counted,
     SinatraWaits
<1> QED
  BY <1>6, <1>7, <1>11 DEF PInv, Game

LEMMA SinatraEndsSafe ==
  ASSUME SessionAssumption, PInv, SinatraEnds
  PROVE  PInv'
<1> USE DEF SessionAssumption
<1>1. /\ pc[sinatra] = "end" /\ pc' = [pc EXCEPT ![sinatra] = "dead"]
      /\ cancelled' = cancelled \ {sinatra}
      /\ UNCHANGED <<type, mail, line, inbox, owner, cycles, s_cycles,
                     max_cycles, seen>>
  BY DEF SinatraEnds, At, Goto, post, counts
<1>2. pc'[frank] = pc[frank] /\ pc'[sinatra] = "dead"
  BY <1>1 DEF PInv, Types
<1>3. (ToFrank /\ type = "stop") \/ Over
  BY <1>1 DEF PInv, Game, Unmade, AtFrank, ToSinatra, AtSinatra, ToFrank,
     SinatraWaits, SinatraGetsIt, SinatraDone
<1>4. Types' /\ Told' /\ Spared'
  BY <1>1, <1>2 DEF PInv, Types, Told, Spared, Labels, SinatraDone
<1>5. ToFrank' \/ Over'
  BY <1>1, <1>2, <1>3 DEF ToFrank, Over, FrankGetsIt, Mailed, Given, Counted,
     SinatraDone
<1> QED
  BY <1>4, <1>5 DEF PInv, Game

-----------------------------------------------------------------------------
(* Steps that leave both players, the message and their counts alone.      *)
LEMMA OthersSafe ==
  ASSUME SessionAssumption, PInv,
         pc'[frank] = pc[frank], pc'[sinatra] = pc[sinatra],
         pc' \in [{frank, sinatra, watchdog} -> Labels],
         sinatra \in cancelled' => sinatra \in cancelled \/ pc[frank] = "dead",
         max_cycles' \in Nat, seen' \in Nat,
         UNCHANGED <<type, mail, line, inbox, owner, cycles, s_cycles>>
  PROVE  PInv'
<1>1. Types'
  BY DEF PInv, Types
<1>2. Told' /\ Spared'
  BY DEF PInv, Told, Spared, FrankDone
<1>3. /\ Clear(frank, frank_exch)' = Clear(frank, frank_exch)
      /\ Clear(sinatra, sinatra_exch)' = Clear(sinatra, sinatra_exch)
      /\ FrankWaits' = FrankWaits /\ FrankGetsIt' = FrankGetsIt
      /\ SinatraWaits' = SinatraWaits /\ SinatraGetsIt' = SinatraGetsIt
      /\ Counted' = Counted
  BY DEF Clear, InLine, Mailed, Given, FrankWaits, FrankGetsIt, SinatraWaits,
     SinatraGetsIt, Counted
<1>4. Game'
  BY <1>3 DEF PInv, Game, Unmade, AtFrank, ToSinatra, AtSinatra, ToFrank, Over
<1> QED
  BY <1>1, <1>2, <1>4 DEF PInv

LEMMA CancelSafe ==
  ASSUME SessionAssumption, PInv, NEW t \in {sinatra, watchdog}, Cancel(t)
  PROVE  PInv'
<1> USE DEF SessionAssumption
<1>1. /\ t \in cancelled /\ cancelled' = cancelled \ {t}
      /\ pc' = [pc EXCEPT ![t] = "dead"]
      /\ UNCHANGED <<type, mail, line, inbox, owner, cycles, s_cycles,
                     max_cycles, seen>>
  BY DEF Cancel, Goto, post, counts
<1>2. pc' \in [{frank, sinatra, watchdog} -> Labels]
  BY <1>1 DEF PInv, Types, Labels, SinatraDone
<1>3. CASE t = watchdog
  BY <1>1, <1>2, <1>3, OthersSafe DEF PInv, Types
<1>4. CASE t = sinatra
  <2>1. Over
    BY <1>1, <1>4 DEF PInv, Spared, Game, Unmade, AtFrank, ToSinatra, AtSinatra,
       ToFrank, FrankWaits, FrankGetsIt, FrankHas, FrankWait, FrankGot, FrankDone
  <2>2. pc'[frank] = pc[frank] /\ pc'[sinatra] = "dead"
    BY <1>1, <1>4 DEF PInv, Types
  <2>3. Over' /\ Told' /\ Spared'
    BY <1>1, <2>1, <2>2 DEF PInv, Over, Told, Spared, SinatraDone
  <2> QED
    BY <1>1, <1>2, <2>3 DEF PInv, Types, Game
<1> QED
  BY <1>3, <1>4

LEMMA NextSafe ==
  ASSUME SessionAssumption, PInv, [Next]_vars
  PROVE  PInv'
<1> USE DEF SessionAssumption
<1>1. ASSUME Sinatra PROVE PInv'
  BY <1>1, SinatraReceivesSafe, SinatraGetsSafe, SinatraSendsSafe,
     SinatraEndsSafe DEF Sinatra
<1>2. ASSUME Watchdog PROVE PInv'
  <2>1. /\ \E to \in {"arf", "wait"} :
             pc' = [pc EXCEPT ![watchdog] = to] \/ pc' = pc
        /\ UNCHANGED <<type, mail, line, inbox, owner, cycles, s_cycles,
                       max_cycles, cancelled, seen>>
    BY <1>2 DEF Watchdog, WatchdogWaits, Expire, WatchdogWakes, At, Goto, post,
       counts
  <2>2. /\ pc'[frank] = pc[frank] /\ pc'[sinatra] = pc[sinatra]
        /\ pc' \in [{frank, sinatra, watchdog} -> Labels]
    BY <2>1 DEF PInv, Types, Labels
  <2> QED
    BY <2>1, <2>2, OthersSafe DEF PInv, Types
<1>3. ASSUME Key \/ Main \/ UNCHANGED vars PROVE PInv'
  <2>1. /\ pc' = pc /\ max_cycles' \in {max_cycles, seen}
        /\ seen' \in {seen, cycles}
        /\ sinatra \in cancelled' => sinatra \in cancelled \/ pc[frank] = "dead"
        /\ UNCHANGED <<type, mail, line, inbox, owner, cycles, s_cycles>>
    BY <1>3 DEF Key, Main, ReadCycles, Store, Collect, vars, post, counts
  <2>2. pc' \in [{frank, sinatra, watchdog} -> Labels] /\ max_cycles' \in Nat
        /\ seen' \in Nat
    BY <2>1 DEF PInv, Types
  <2> QED
    BY <2>1, <2>2, OthersSafe
<1> QED
  BY <1>1, <1>2, <1>3, FrankSafe, CancelSafe DEF Next

LEMMA GameInvariant == Spec => []PInv
<1> USE SessionAssumption
<1>1. Init => PInv
  <2> SUFFICES ASSUME Init PROVE PInv
    OBVIOUS
  <2>1. Types
    BY DEF Init, MInit, Types, Labels, SessionAssumption
  <2>2. pc[frank] = "create" /\ pc[sinatra] = "wait"
    BY DEF Init, SessionAssumption
  <2>3. Unmade
    BY <2>2 DEF Init, MInit, Unmade, SinatraWaits, Clear, SessionAssumption
  <2>4. Told /\ Spared
    BY <2>2 DEF Init, Told, Spared
  <2> QED
    BY <2>1, <2>3, <2>4 DEF PInv, Game
<1>2. PInv /\ [Next]_vars => PInv'
  BY NextSafe
<1> QED
  BY <1>1, <1>2, PTL DEF Spec

(* rqsend never meets a message that is not its sender's (ycore.c's        *)
(* "system error"), however long the game and whenever it is cut short.    *)
THEOREM SendersAlwaysOwn == Spec => []SendersOwn
<1>1. PInv => SendersOwn
  BY DEF PInv, Game, Unmade, AtFrank, ToSinatra, AtSinatra, ToFrank, Over,
     SendersOwn, FrankWaits, FrankGetsIt, SinatraWaits, SinatraGetsIt, FrankHas,
     FrankWait, FrankGot, FrankDone, SinatraDone
<1> QED
  BY <1>1, GameInvariant, PTL

(* Both players divide by the same positive number of rounds.              *)
THEOREM RoundsAreTheSame == Spec => []SameRounds
<1>1. PInv => SameRounds
  BY DEF PInv, Types, Told, Game, Unmade, AtFrank, ToSinatra, AtSinatra,
     ToFrank, Over, SameRounds, FrankWaits, FrankGetsIt, SinatraWaits,
     SinatraGetsIt, FrankHas, FrankWait, FrankGot, FrankDone, SinatraDone,
     Counted
<1> QED
  BY <1>1, GameInvariant, PTL

-----------------------------------------------------------------------------
(***************************************************************************)
(* What the arithmetic of Time computes, for all times: sums, differences  *)
(* and comparisons are those of whole nanoseconds, the deadlines of        *)
(* rqtimer do not drift, the system time is right to a millisecond and     *)
(* never goes back while the clock does not, and priorities keep order.    *)
(***************************************************************************)

(* A second has nanoseconds.                                               *)
LEMMA Scale ==
  /\ NsPerMs \in Nat /\ NsPerMs > 0 /\ MsPerS \in Nat /\ MsPerS > 0
  /\ Words \in Nat /\ Words > 0
  /\ NsPerS \in Nat /\ NsPerS > 0 /\ NsPerS = NsPerMs * MsPerS
<1>1. /\ NsPerMs \in Nat /\ NsPerMs > 0 /\ MsPerS \in Nat /\ MsPerS > 0
      /\ Words \in Nat /\ Words > 0
  BY TimeAssumption
<1>2. NsPerMs * MsPerS \in Nat /\ NsPerMs * MsPerS > 0
  BY <1>1
<1> QED BY <1>1, <1>2 DEF NsPerS

(* What the fields of a timespec are.                                      *)
LEMMA Fields ==
  ASSUME NEW t \in Timespecs
  PROVE  /\ t.tv_sec \in Nat
         /\ t.tv_nsec \in Nat /\ t.tv_nsec < NsPerS
         /\ Ns(t) \in Nat
         /\ t = [tv_sec |-> t.tv_sec, tv_nsec |-> t.tv_nsec]
<1>1. /\ t.tv_sec \in Nat /\ t.tv_nsec \in 0..NsPerS - 1
      /\ t = [tv_sec |-> t.tv_sec, tv_nsec |-> t.tv_nsec]
  BY DEF Timespecs
<1>2. t.tv_nsec \in Nat /\ t.tv_nsec < NsPerS
  BY <1>1, Scale
<1>3. t.tv_sec * NsPerS \in Nat
  BY <1>1, Scale
<1> QED BY <1>1, <1>2, <1>3 DEF Ns

(* Seconds come first.                                                     *)
LEMMA Order ==
  ASSUME NEW s \in Nat, NEW r \in Nat, NEW x \in Nat, NEW y \in Nat,
         NEW N \in Nat, x < N, y < N, s < r
  PROVE  s * N + x < r * N + y
<1>1. (s + 1) * N <= r * N
  OBVIOUS
<1>2. (s + 1) * N = s * N + N /\ s * N \in Nat /\ r * N \in Nat
  OBVIOUS
<1> QED BY <1>1, <1>2

(* tsAdd adds, and its result is normalised.                               *)
THEOREM AddExact ==
  ASSUME NEW a \in Timespecs, NEW b \in Timespecs
  PROVE  /\ tsAdd(a, b) \in Timespecs
         /\ Ns(tsAdd(a, b)) = Ns(a) + Ns(b)
<1> DEFINE sec == a.tv_sec + b.tv_sec
           nsec == a.tv_nsec + b.tv_nsec
<1>1. /\ a.tv_sec \in Nat /\ b.tv_sec \in Nat
      /\ a.tv_nsec \in Nat /\ b.tv_nsec \in Nat
      /\ a.tv_nsec < NsPerS /\ b.tv_nsec < NsPerS
  BY Fields
<1>2. /\ sec \in Nat /\ nsec \in Nat /\ nsec < NsPerS + NsPerS
      /\ NsPerS \in Nat
  BY <1>1, Scale
<1>3. Ns(a) + Ns(b) = sec * NsPerS + nsec
  BY <1>1, <1>2 DEF Ns
<1> HIDE DEF sec, nsec
<1>4. CASE nsec >= NsPerS
  <2>1. tsAdd(a, b) = [tv_sec |-> sec + 1, tv_nsec |-> nsec - NsPerS]
    BY <1>4 DEF tsAdd, sec, nsec
  <2>2. nsec - NsPerS \in 0..NsPerS - 1
    BY <1>2, <1>4
  <2>3. (sec + 1) * NsPerS + (nsec - NsPerS) = sec * NsPerS + nsec
    BY <1>2
  <2> QED BY <1>2, <1>3, <2>1, <2>2, <2>3 DEF Timespecs, Ns
<1>5. CASE ~(nsec >= NsPerS)
  <2>1. tsAdd(a, b) = [tv_sec |-> sec, tv_nsec |-> nsec]
    BY <1>5 DEF tsAdd, sec, nsec
  <2>2. nsec \in 0..NsPerS - 1
    BY <1>2, <1>5
  <2> QED BY <1>2, <1>3, <2>1, <2>2 DEF Timespecs, Ns
<1> QED BY <1>4, <1>5

(* tsSubtract is the difference, or zero where that would be negative.     *)
THEOREM SubtractExact ==
  ASSUME NEW a \in Timespecs, NEW b \in Timespecs
  PROVE  /\ tsSubtract(a, b) \in Timespecs
         /\ Ns(tsSubtract(a, b)) = IF Ns(a) > Ns(b) THEN Ns(a) - Ns(b) ELSE 0
<1>1. /\ a.tv_sec \in Nat /\ b.tv_sec \in Nat
      /\ a.tv_nsec \in Nat /\ b.tv_nsec \in Nat
      /\ a.tv_nsec < NsPerS /\ b.tv_nsec < NsPerS
      /\ Ns(a) \in Nat /\ Ns(b) \in Nat
  BY Fields
<1>2. NsPerS \in Nat /\ NsPerS > 0
  BY Scale
<1>3. CASE \/ a.tv_sec < b.tv_sec
           \/ a.tv_sec = b.tv_sec /\ a.tv_nsec <= b.tv_nsec
  <2>1. tsSubtract(a, b) = [tv_sec |-> 0, tv_nsec |-> 0]
    BY <1>3 DEF tsSubtract
  <2>2. Ns(a) <= Ns(b)
    <3>1. CASE a.tv_sec < b.tv_sec
      BY <3>1, <1>1, <1>2, Order DEF Ns
    <3>2. CASE a.tv_sec = b.tv_sec /\ a.tv_nsec <= b.tv_nsec
      <4>1. a.tv_sec * NsPerS \in Nat
        BY <1>1, <1>2
      <4> QED BY <3>2, <4>1, <1>1 DEF Ns
    <3> QED BY <3>1, <3>2, <1>3
  <2>3. Ns([tv_sec |-> 0, tv_nsec |-> 0]) = 0
    BY <1>2 DEF Ns
  <2>4. 0 \in 0..NsPerS - 1
    BY <1>2
  <2> QED BY <1>1, <2>1, <2>2, <2>3, <2>4 DEF Timespecs
<1>4. CASE ~(\/ a.tv_sec < b.tv_sec
             \/ a.tv_sec = b.tv_sec /\ a.tv_nsec <= b.tv_nsec)
  <2>1. Ns(a) > Ns(b)
    <3>1. CASE b.tv_sec < a.tv_sec
      BY <3>1, <1>1, <1>2, Order DEF Ns
    <3>2. CASE a.tv_sec = b.tv_sec /\ a.tv_nsec > b.tv_nsec
      <4>1. a.tv_sec * NsPerS \in Nat
        BY <1>1, <1>2
      <4> QED BY <3>2, <4>1, <1>1 DEF Ns
    <3> QED BY <3>1, <3>2, <1>4, <1>1
  <2>2. CASE a.tv_nsec < b.tv_nsec
    <3> DEFINE s == a.tv_sec - b.tv_sec - 1
               n == a.tv_nsec + NsPerS - b.tv_nsec
    <3>1. s \in Nat /\ n \in 0..NsPerS - 1
      BY <1>1, <1>2, <1>4, <2>2
    <3>2. s * NsPerS + n = Ns(a) - Ns(b)
      BY <1>1, <1>2 DEF Ns
    <3>3. tsSubtract(a, b) = [tv_sec |-> s, tv_nsec |-> n]
      BY <1>4, <2>2 DEF tsSubtract
    <3> HIDE DEF s, n
    <3> QED BY <2>1, <3>1, <3>2, <3>3 DEF Timespecs, Ns
  <2>3. CASE ~(a.tv_nsec < b.tv_nsec)
    <3> DEFINE s == a.tv_sec - b.tv_sec
               n == a.tv_nsec - b.tv_nsec
    <3>1. s \in Nat /\ n \in 0..NsPerS - 1
      BY <1>1, <1>2, <1>4, <2>3
    <3>2. s * NsPerS + n = Ns(a) - Ns(b)
      BY <1>1, <1>2 DEF Ns
    <3>3. tsSubtract(a, b) = [tv_sec |-> s, tv_nsec |-> n]
      BY <1>4, <2>3 DEF tsSubtract
    <3> HIDE DEF s, n
    <3> QED BY <2>1, <3>1, <3>2, <3>3 DEF Timespecs, Ns
  <2> QED BY <2>2, <2>3
<1> QED BY <1>3, <1>4

(* tsCompare tells what comes first, and equal times only are the same.    *)
THEOREM CompareExact ==
  ASSUME NEW a \in Timespecs, NEW b \in Timespecs
  PROVE  \/ tsCompare(a, b) = -1 /\ Ns(a) < Ns(b)
         \/ tsCompare(a, b) = 1 /\ Ns(a) > Ns(b)
         \/ tsCompare(a, b) = 0 /\ a = b
<1>1. /\ a.tv_sec \in Nat /\ b.tv_sec \in Nat
      /\ a.tv_nsec \in Nat /\ b.tv_nsec \in Nat
      /\ a.tv_nsec < NsPerS /\ b.tv_nsec < NsPerS
      /\ a = [tv_sec |-> a.tv_sec, tv_nsec |-> a.tv_nsec]
      /\ b = [tv_sec |-> b.tv_sec, tv_nsec |-> b.tv_nsec]
  BY Fields
<1>2. NsPerS \in Nat
  BY Scale
<1>3. CASE a.tv_sec < b.tv_sec
  BY <1>1, <1>2, <1>3, Order DEF tsCompare, Ns
<1>4. CASE a.tv_sec > b.tv_sec
  <2>1. Ns(a) > Ns(b)
    BY <1>1, <1>2, <1>4, Order DEF Ns
  <2> QED BY <1>1, <1>4, <2>1 DEF tsCompare
<1>5. CASE a.tv_sec = b.tv_sec
  <2>1. a.tv_sec * NsPerS \in Nat
    BY <1>1, <1>2
  <2>2. /\ a.tv_nsec < b.tv_nsec => Ns(a) < Ns(b)
        /\ a.tv_nsec > b.tv_nsec => Ns(a) > Ns(b)
    BY <1>1, <1>5, <2>1 DEF Ns
  <2>3. a.tv_nsec = b.tv_nsec => a = b
    BY <1>1, <1>5
  <2> QED BY <1>1, <1>5, <2>2, <2>3 DEF tsCompare
<1> QED BY <1>1, <1>3, <1>4, <1>5

(* rqtimer adds rqtick to the deadline before, not to the time at which it *)
(* woke up: a deadline that is k ticks after TimeOrigin is followed by one *)
(* that is k + 1 ticks after it, however late the thread runs.             *)
THEOREM NoDrift ==
  ASSUME NEW TimeOrigin \in Timespecs, NEW rqtick \in Timespecs,
         NEW tnext \in Timespecs, NEW k \in Nat,
         Ns(tnext) = Ns(TimeOrigin) + k * Ns(rqtick)
  PROVE  Ns(tsAdd(tnext, rqtick)) = Ns(TimeOrigin) + (k + 1) * Ns(rqtick)
<1>1. Ns(TimeOrigin) \in Nat /\ Ns(rqtick) \in Nat
  BY Fields
<1>2. Ns(tsAdd(tnext, rqtick)) = Ns(tnext) + Ns(rqtick)
  BY AddExact
<1> QED BY <1>1, <1>2

(* Ts2Ms undoes Ms2Ts, for every unsigned int.                             *)
THEOREM RoundTrip ==
  ASSUME NEW t \in 0..Words - 1
  PROVE  Ms2Ts(t) \in Timespecs /\ Ts2Ms(Ms2Ts(t)) = t
<1> DEFINE q == t \div MsPerS
           r == t % MsPerS
<1>1. /\ q \in Nat /\ r \in Nat /\ r < MsPerS
      /\ t = q * MsPerS + r
  BY Scale
<1>2. Ms2Ts(t) = [tv_sec |-> q, tv_nsec |-> r * NsPerMs]
  BY DEF Ms2Ts
<1> HIDE DEF q, r
<1>3. /\ r * NsPerMs \in Nat
      /\ (r * NsPerMs) \div NsPerMs = r
  BY <1>1, Scale
<1>4. r * NsPerMs < NsPerS
  BY <1>1, Scale
<1>5. Ms2Ts(t) \in Timespecs
  BY <1>1, <1>2, <1>3, <1>4, Scale DEF Timespecs
<1>6. Ts2Ms(Ms2Ts(t)) = (q * MsPerS + r) % Words
  BY <1>2, <1>3 DEF Ts2Ms, Quotient, Unsigned
<1>7. t % Words = t
  BY Scale
<1> QED BY <1>1, <1>5, <1>6, <1>7

-----------------------------------------------------------------------------
(* C's division, by its remainder.                                         *)
LEMMA QuotientOf ==
  ASSUME NEW a \in Int
  PROVE  /\ Quotient(a, NsPerMs) \in Int
         /\ a >= 0 => /\ Quotient(a, NsPerMs) * NsPerMs <= a
                      /\ a < Quotient(a, NsPerMs) * NsPerMs + NsPerMs
         /\ a < 0 => /\ Quotient(a, NsPerMs) * NsPerMs >= a
                     /\ a > Quotient(a, NsPerMs) * NsPerMs - NsPerMs
<1>1. ASSUME NEW n \in Nat
      PROVE  /\ n \div NsPerMs \in Nat
             /\ (n \div NsPerMs) * NsPerMs <= n
             /\ n < (n \div NsPerMs) * NsPerMs + NsPerMs
  BY Scale
<1>2. CASE a >= 0
  BY <1>1, <1>2 DEF Quotient
<1>3. CASE a < 0
  <2>1. -a \in Nat
    BY <1>3
  <2> DEFINE q == (-a) \div NsPerMs
  <2>2. q \in Nat /\ q * NsPerMs <= -a /\ -a < q * NsPerMs + NsPerMs
    BY <1>1, <2>1
  <2>3. Quotient(a, NsPerMs) = -q
    BY <1>3 DEF Quotient
  <2> HIDE DEF q
  <2>4. (-q) * NsPerMs = -(q * NsPerMs) /\ q * NsPerMs \in Nat
    BY <2>2, Scale
  <2> QED BY <1>3, <2>2, <2>3, <2>4, Scale
<1> QED BY <1>2, <1>3

(* The time since the start, before it wraps around, is less than a        *)
(* millisecond from the truth, in either direction.                        *)
THEOREM SystemTimeExact ==
  ASSUME NEW StartTime \in Timespecs, NEW CurrTime \in Timespecs
  PROVE  LET off == Ns(CurrTime) - Ns(StartTime)
                      - Elapsed(StartTime, CurrTime) * NsPerMs
         IN -NsPerMs < off /\ off < NsPerMs
<1>1. /\ StartTime.tv_sec \in Nat /\ StartTime.tv_nsec \in Nat
      /\ CurrTime.tv_sec \in Nat /\ CurrTime.tv_nsec \in Nat
  BY Fields
<1> DEFINE n == CurrTime.tv_nsec - StartTime.tv_nsec
           s == CurrTime.tv_sec - StartTime.tv_sec
           q == Quotient(n, NsPerMs)
<1>2. n \in Int /\ s \in Int
  BY <1>1
<1>3. Ns(CurrTime) - Ns(StartTime) = s * NsPerS + n
  BY <1>1, Scale DEF Ns
<1>4. Elapsed(StartTime, CurrTime) = s * MsPerS + q
  BY DEF Elapsed
<1> HIDE DEF n, s
<1>5. q \in Int /\ -NsPerMs < n - q * NsPerMs /\ n - q * NsPerMs < NsPerMs
  <2>1. q \in Int /\ q * NsPerMs \in Int
    BY <1>2, Scale, QuotientOf
  <2> QED BY <1>2, <2>1, Scale, QuotientOf
<1> HIDE DEF q
<1>6. (s * MsPerS + q) * NsPerMs = s * NsPerS + q * NsPerMs
  BY <1>2, <1>5, Scale
<1>7. s * NsPerS \in Int /\ q * NsPerMs \in Int
  BY <1>2, <1>5, Scale
<1> QED BY <1>2, <1>3, <1>4, <1>5, <1>6, <1>7, Scale

(* The system time does not go back while the clock does not: not even at  *)
(* the turn of a second, where the nanoseconds start again from zero.      *)
THEOREM SystemTimeGrows ==
  ASSUME NEW StartTime \in Timespecs,
         NEW early \in Timespecs, NEW later \in Timespecs,
         Ns(early) <= Ns(later)
  PROVE  Elapsed(StartTime, early) <= Elapsed(StartTime, later)
<1> DEFINE m == early.tv_nsec - StartTime.tv_nsec
           n == later.tv_nsec - StartTime.tv_nsec
           p == Quotient(m, NsPerMs)
           q == Quotient(n, NsPerMs)
<1>1. /\ StartTime.tv_sec \in Nat /\ StartTime.tv_nsec \in Nat
      /\ early.tv_sec \in Nat /\ early.tv_nsec \in Nat
      /\ later.tv_sec \in Nat /\ later.tv_nsec \in Nat
      /\ early.tv_nsec < NsPerS /\ later.tv_nsec < NsPerS
  BY Fields
<1>2. m \in Int /\ n \in Int /\ m < n + NsPerS
  BY <1>1, Scale
<1>3. \/ early.tv_sec < later.tv_sec
      \/ early.tv_sec = later.tv_sec /\ m <= n
  <2>1. CASE later.tv_sec < early.tv_sec
    <3>1. Ns(later) < Ns(early)
      BY <1>1, <2>1, Scale, Order DEF Ns
    <3>2. Ns(later) \in Nat /\ Ns(early) \in Nat
      BY Fields
    <3> QED BY <3>1, <3>2
  <2>2. CASE early.tv_sec = later.tv_sec
    <3>1. early.tv_sec * NsPerS \in Nat
      BY <1>1, Scale
    <3>2. early.tv_nsec <= later.tv_nsec
      BY <1>1, <2>2, <3>1 DEF Ns
    <3> QED BY <1>1, <2>2, <3>2
  <2> QED BY <1>1, <2>1, <2>2
<1>4. /\ Elapsed(StartTime, early)
           = (early.tv_sec - StartTime.tv_sec) * MsPerS + p
      /\ Elapsed(StartTime, later)
           = (later.tv_sec - StartTime.tv_sec) * MsPerS + q
  BY DEF Elapsed
<1> HIDE DEF m, n
<1>5. /\ p \in Int /\ q \in Int
      /\ m < 0 => p * NsPerMs < m + NsPerMs /\ m <= p * NsPerMs
      /\ m >= 0 => p * NsPerMs <= m /\ m < p * NsPerMs + NsPerMs
      /\ n < 0 => q * NsPerMs < n + NsPerMs /\ n <= q * NsPerMs
      /\ n >= 0 => q * NsPerMs <= n /\ n < q * NsPerMs + NsPerMs
  BY <1>2, Scale, QuotientOf
<1> HIDE DEF p, q
<1>6. ASSUME NEW k \in Nat, p * NsPerMs < q * NsPerMs + NsPerMs + k * NsPerMs
      PROVE  p <= q + k
  <2>1. q * NsPerMs + NsPerMs + k * NsPerMs = (q + k + 1) * NsPerMs
    BY <1>5, Scale
  <2>2. p >= q + k + 1 => p * NsPerMs >= (q + k + 1) * NsPerMs
    BY <1>5, Scale
  <2>3. p * NsPerMs \in Int /\ (q + k + 1) * NsPerMs \in Int
    BY <1>5, Scale
  <2> QED BY <1>5, <1>6, <2>1, <2>2, <2>3
<1>7. p * NsPerMs \in Int /\ q * NsPerMs \in Int
  BY <1>5, Scale
<1>8. ASSUME m <= n
      PROVE  p <= q
  <2>1. p * NsPerMs < q * NsPerMs + NsPerMs
    BY <1>2, <1>5, <1>7, <1>8, Scale
  <2>2. p * NsPerMs < q * NsPerMs + NsPerMs + 0 * NsPerMs
    BY <2>1, <1>7, Scale
  <2> QED BY <2>2, <1>6, <1>5
<1>9. p <= q + MsPerS
  <2>1. CASE m <= n
    BY <2>1, <1>5, <1>8, Scale
  <2>2. CASE ~(m <= n)
    <3>1. p * NsPerMs < q * NsPerMs + NsPerMs + NsPerS
      BY <1>2, <1>5, <1>7, <2>2, Scale
    <3>2. MsPerS * NsPerMs = NsPerS
      BY Scale
    <3> QED BY <3>1, <3>2, <1>6, Scale
  <2> QED BY <2>1, <2>2
<1>10. CASE early.tv_sec = later.tv_sec /\ m <= n
  BY <1>1, <1>4, <1>5, <1>8, <1>10, Scale
<1>11. CASE early.tv_sec < later.tv_sec
  <2> DEFINE s == early.tv_sec - StartTime.tv_sec
             r == later.tv_sec - StartTime.tv_sec
  <2>1. s \in Int /\ r \in Int /\ s + 1 <= r
    BY <1>1, <1>11
  <2> HIDE DEF s, r
  <2>2. (s + 1) * MsPerS <= r * MsPerS
    BY <2>1, Scale
  <2>3. (s + 1) * MsPerS = s * MsPerS + MsPerS
    BY <2>1, Scale
  <2>4. s * MsPerS + p <= r * MsPerS + q
    <3>1. s * MsPerS \in Int /\ r * MsPerS \in Int
      BY <2>1, Scale
    <3> QED BY <3>1, <2>2, <2>3, <1>5, <1>9, Scale
  <2> QED BY <2>4, <1>4 DEF s, r
<1> QED BY <1>3, <1>10, <1>11
-----------------------------------------------------------------------------
(* Every RMX priority has a legal Linux one; only Root and rqtimer are     *)
(* above 97; and what comes first in RMX never comes later in Linux.       *)
THEOREM PrioritiesKeepOrder ==
  ASSUME NEW p \in Nat, NEW q \in Nat, p <= q, q <= 255
  PROVE  /\ linux_priority(q) >= 1 /\ linux_priority(q) <= 99
         /\ q >= 2 => linux_priority(q) <= 97
         /\ linux_priority(q) <= linux_priority(p)
BY DEF linux_priority
=============================================================================
