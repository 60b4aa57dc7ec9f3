--------------------------- MODULE SuspendProofs ----------------------------
(***************************************************************************)
(* Proofs about suspension, for any tasks that suspend and resume each     *)
(* other in any way: what is lost, who is woken, who can be resumed.       *)
(*                                                                         *)
(* Each step has an actor c and a subject t, the task whose status,        *)
(* semaphore and places it may change.  The invariant says of each task    *)
(* what holds until its status is stale (Tokens, Delays), until it was     *)
(* resumed too early (Marks) and until it is meddled with (Calm).          *)
(***************************************************************************)
EXTENDS Suspend, TLAPS

(* A thread that sends or resumes is about to post t: it has taken t from  *)
(* its exchange, or has found it suspended and asking for a post.          *)
Giving == {"unwait", "timed", "cancel", "undelay", "post"}
Gives(c, t) == pc[c] \in Giving /\ target[c] = t
On(c, t, where) == pc[c] \in where /\ target[c] = t

(* There is one wake-up for each sleep: it lies in needpost, or in the     *)
(* queue, or with one who gives it, or in the semaphore.                   *)
Tokens(t) ==
  /\ sema[t] \in {0, 1}
  /\ pc[t] # "blocked" => t \notin queue /\ t \notin list
  /\ pc[t] \notin {"asleep", "blocked"} => sema[t] = 0
  /\ t \in queue \/ "needpost" \in status[t] => sema[t] = 0
  /\ "needpost" \in status[t] => pc[t] = "asleep"
  /\ \A c \in Tasks : Gives(c, t) =>
       /\ pc[t] = "blocked" \/ (pc[c] = "post" /\ pc[t] = "asleep")
       /\ sema[t] = 0 /\ t \notin queue /\ "needpost" \notin status[t]
  /\ \A c, d \in Tasks : Gives(c, t) /\ Gives(d, t) => c = d

(* The delay list has a queued task when its status says so.               *)
Listed(t, bits) ==
  /\ t \in list <=> "delayed" \in status[t]
  /\ t \notin marked => status[t] \subseteq bits

Delays(t) ==
  /\ sema[t] > 0 => t \notin list
  /\ t \in queue => Listed(t, {"waiting", "delayed"})
  /\ \A c \in Tasks :
       /\ On(c, t, {"unwait"}) => Listed(t, {"waiting", "delayed"})
       /\ On(c, t, {"timed"}) => Listed(t, {"delayed"})
       /\ On(c, t, {"cancel"}) => t \in list \cup marked
       /\ On(c, t, {"undelay", "post"}) => t \notin list

(* A task that suspends itself can be resumed.                             *)
Marks(t) ==
  /\ pc[t] = "ask" => "suspended" \in status[t]
  /\ pc[t] = "asleep" =>
       \/ "needpost" \in status[t]
          /\ ("suspended" \in status[t] \/ \E c \in Tasks : On(c, t, {"needed", "unask"}))
       \/ \E c \in Tasks : On(c, t, {"post"})
       \/ sema[t] > 0

(* Nobody changes the status of a task that is left alone under another.   *)
Calm(t) ==
  /\ t \notin stale
  /\ \A c \in Tasks :
       /\ On(c, t, {"mark"}) => c = t
       /\ On(c, t, {"clear", "needed", "unask"}) =>
            pc[t] = "asleep" /\ "needpost" \in status[t]
       /\ (loaded[c] \/ pc[c] \in {"clear", "unask"}) /\ target[c] = t =>
            c \in current
  /\ \A c, d \in Tasks : On(c, t, Resuming) /\ On(d, t, Resuming) => c = d

Good(t) ==
  /\ t \notin stale => Tokens(t) /\ Delays(t)
  /\ t \notin stale \cup early => Marks(t)
  /\ t \notin meddled => Calm(t)

(* What a thread has read and has not been told is stale is so.            *)
Reads(c) ==
  c \in current =>
    /\ loaded[c] => reg[c] = status[target[c]]
    /\ pc[c] = "unask" => "needpost" \in status[target[c]]

(* In the calls in which a task sleeps or returns it is its own target.    *)
Own == {"ask", "asleep", "awake", "blocked", "reset", "exit"}

IInv ==
  /\ TypeOK
  /\ \A t \in Tasks : Good(t) /\ Reads(t) /\ (pc[t] \in Own => target[t] = t)

-----------------------------------------------------------------------------
(* A step of c about t.                                                    *)
Frame(c, t) ==
  /\ target'[c] = t /\ (pc[c] = "user" \/ target[c] = t)
  /\ c # t => pc[c] \notin Own /\ pc'[c] \notin Own
  /\ \A x \in Tasks \ {c} :
       /\ pc'[x] = pc[x] /\ target'[x] = target[x]
       /\ loaded'[x] = loaded[x] /\ reg'[x] = reg[x]
  /\ \A x \in Tasks \ {t} :
       /\ status'[x] = status[x] /\ sema'[x] = sema[x]
       /\ x \in queue' <=> x \in queue
       /\ x \in list' <=> x \in list
       /\ x \in stale' <=> x \in stale
       /\ x \in early' <=> x \in early
       /\ x \in marked' <=> x \in marked
       /\ x \in meddled' <=> x \in meddled
  /\ \A d \in Tasks \ {c} :
       /\ d \in current' =>
            d \in current /\ (target[d] # t \/ status'[t] = status[t])
       /\ d \in current /\ target[d] # t => d \in current'

(* What a step of c about t leaves of another task's.                      *)
LEMMA Others ==
  ASSUME IInv, NEW c \in Tasks, NEW t \in Tasks, Frame(c, t),
         NEW x \in Tasks, x # t
  PROVE  Good(x)'
<1>1. Good(x) /\ TypeOK
  BY DEF IInv
<1>2. \A d \in Tasks : pc'[d] # pc[d] \/ target'[d] # target[d] =>
        d = c /\ target'[d] # x /\ (pc[d] = "user" \/ target[d] # x)
  BY DEF Frame
<1>3. x = c => pc[x] \notin Own /\ pc'[x] \notin Own
  BY DEF Frame
<1>4. x # c => pc'[x] = pc[x]
  BY DEF Frame
<1>5. /\ status'[x] = status[x] /\ sema'[x] = sema[x]
      /\ x \in queue' <=> x \in queue
      /\ x \in list' <=> x \in list
      /\ x \in stale' <=> x \in stale
      /\ x \in early' <=> x \in early
      /\ x \in marked' <=> x \in marked
      /\ x \in meddled' <=> x \in meddled
  BY DEF Frame
<1>6. \A d \in Tasks : (Gives(d, x)' <=> Gives(d, x))
      /\ (Gives(d, x) => pc'[d] = pc[d])
  <2> SUFFICES ASSUME NEW d \in Tasks
               PROVE  (Gives(d, x)' <=> Gives(d, x))
                      /\ (Gives(d, x) => pc'[d] = pc[d])
    OBVIOUS
  <2> QED
    BY <1>2 DEF Gives, Giving
<1>7. \A d \in Tasks :
        /\ On(d, x, {"unwait"})' <=> On(d, x, {"unwait"})
        /\ On(d, x, {"timed"})' <=> On(d, x, {"timed"})
        /\ On(d, x, {"cancel"})' <=> On(d, x, {"cancel"})
        /\ On(d, x, {"undelay", "post"})' <=> On(d, x, {"undelay", "post"})
        /\ On(d, x, {"needed", "unask"})' <=> On(d, x, {"needed", "unask"})
        /\ On(d, x, {"post"})' <=> On(d, x, {"post"})
        /\ On(d, x, {"mark"})' <=> On(d, x, {"mark"})
        /\ On(d, x, {"clear", "needed", "unask"})' <=>
             On(d, x, {"clear", "needed", "unask"})
        /\ On(d, x, Resuming)' <=> On(d, x, Resuming)
  BY <1>2 DEF On, Resuming
<1>8. x \notin stale' => Tokens(x)' /\ Delays(x)'
  <2> SUFFICES ASSUME x \notin stale PROVE Tokens(x)' /\ Delays(x)'
    BY <1>5
  <2>1. Tokens(x) /\ Delays(x)
    BY <1>1 DEF Good
  <2>2. Tokens(x)'
    BY <2>1, <1>3, <1>4, <1>5, <1>6 DEF Tokens, Own
  <2>3. Delays(x)'
    BY <2>1, <1>5, <1>7 DEF Delays, Listed
  <2> QED
    BY <2>2, <2>3
<1>9. x \notin stale' \cup early' => Marks(x)'
  BY <1>1, <1>3, <1>4, <1>5, <1>7 DEF Good, Marks, Own
<1>10. x \notin meddled' => Calm(x)'
  <2> SUFFICES ASSUME x \notin meddled PROVE Calm(x)'
    BY <1>5
  <2>1. Calm(x)
    BY <1>1 DEF Good
  <2>2. \A d \in Tasks : (loaded'[d] \/ pc'[d] \in {"clear", "unask"}) /\ target'[d] = x
          => d \in current'
    <3> SUFFICES ASSUME NEW d \in Tasks, target'[d] = x,
                        loaded'[d] \/ pc'[d] \in {"clear", "unask"}
                 PROVE  d \in current'
      OBVIOUS
    <3>1. d # c
      BY DEF Frame
    <3> QED
      BY <2>1, <3>1 DEF Frame, Calm
  <2>3. \A d \in Tasks : On(d, x, {"clear", "needed", "unask"}) => x # c
    BY <1>3, <2>1 DEF Calm, Own
  <2> QED
    BY <2>1, <2>2, <2>3, <1>4, <1>5, <1>7 DEF Calm
<1> QED
  BY <1>8, <1>9, <1>10 DEF Good

(* So a step keeps the invariant when it does so for its subject, and for  *)
(* what its actor has read.                                                *)
LEMMA StepInv ==
  ASSUME IInv, NEW c \in Tasks, NEW t \in Tasks, Frame(c, t), TypeOK',
         Good(t)', Reads(c)'
  PROVE  IInv'
<1> SUFFICES ASSUME NEW x \in Tasks
             PROVE  Good(x)' /\ Reads(x)' /\ (pc'[x] \in Own => target'[x] = x)
  BY DEF IInv
<1>1. Good(x)'
  BY Others
<1>2. Reads(x)'
  <2> SUFFICES ASSUME x # c PROVE Reads(x)'
    OBVIOUS
  <2>1. Reads(x) /\ target[x] \in Tasks
    BY DEF IInv, TypeOK
  <2> QED
    BY <2>1 DEF Frame, Reads
<1>3. pc'[x] \in Own => target'[x] = x
  BY DEF IInv, Frame
<1> QED
  BY <1>1, <1>2, <1>3

-----------------------------------------------------------------------------
(* The two halves of a change of a bit.                                    *)
LEMMA Loading ==
  ASSUME IInv, NEW c \in Tasks, NEW here \in Changes, Load(c, here)
  PROVE  IInv'
<1>0. PICK t \in Tasks : t = target[c]
  BY DEF IInv, TypeOK
<1>1. TypeOK /\ Good(t) /\ Reads(c) /\ t = target[c]
  BY <1>0 DEF IInv
<1>2. c # t => pc[c] \notin Own
  BY <1>0 DEF IInv
<1>3. Frame(c, t)
  <2>1. \A d \in Tasks \ {c} : loaded'[d] = loaded[d] /\ reg'[d] = reg[d]
    BY <1>1 DEF Load, TypeOK
  <2>2. \A d \in Tasks \ {c} : d \in current' <=> d \in current
    BY DEF Load
  <2>3. UNCHANGED <<pc, target, status, sema, queue, list, stale, early, marked,
                    meddled>>
    BY DEF Load, places
  <2> QED
    BY <1>1, <1>2, <2>1, <2>2, <2>3 DEF Frame
<1>4. TypeOK'
  BY <1>1 DEF Load, At, TypeOK, places, OneOf
<1>5. Reads(c)'
  BY <1>1 DEF Load, At, Reads, TypeOK, Resuming
<1>6. \A d \in Tasks \ {c} : loaded'[d] = loaded[d]
  BY <1>1 DEF Load, TypeOK
<1>7. Good(t)'
  <2>1. (t \notin stale => Tokens(t) /\ Delays(t))'
    BY <1>1 DEF Load, Good, Tokens, Delays, Listed, Gives, On, places
  <2>2. (t \notin stale \cup early => Marks(t))'
    BY <1>1 DEF Load, Good, Marks, On, places
  <2>3. (t \notin meddled => Calm(t))'
    <3> SUFFICES ASSUME t \notin meddled PROVE Calm(t)'
      BY DEF Load
    <3>1. Calm(t)
      BY <1>1 DEF Good
    <3>2. c \in current'
      <4>1. pc[c] = here /\ (pc[c] \in {"clear", "unask"} => c \in current)
        BY <1>1, <3>1 DEF Load, At, Calm
      <4> QED
        BY <4>1 DEF Load, Changes, Resuming
    <3> QED
      BY <3>1, <3>2, <1>6 DEF Load, Calm, On
  <2> QED
    BY <2>1, <2>2, <2>3 DEF Good
<1> QED
  BY <1>1, <1>3, <1>4, <1>5, <1>7, StepInv

(* Nobody but t changes the status of a task that is not meddled with,     *)
(* while another thread is between its reading and its store.              *)
LEMMA NobodyReads ==
  ASSUME IInv, NEW t \in Tasks, t \notin meddled, NEW c \in Tasks,
         \/ c = t /\ pc[t] \notin {"asleep", "blocked"}
         \/ c # t /\ target[c] = t /\ loaded[c] /\ pc[c] # "mark",
         NEW d \in Tasks \ {c}, target[d] = t
  PROVE  ~loaded[d] /\ pc[d] \notin {"clear", "needed", "unask"}
<1>1. Calm(t) /\ Tokens(t) /\ TypeOK
  BY DEF IInv, Good, Calm
<1>2. (pc[d] \in Own => d = t) /\ (pc[c] \in Own => c = t)
  BY DEF IInv
<1> SUFFICES ASSUME loaded[d] \/ pc[d] \in {"clear", "needed", "unask"} PROVE FALSE
  OBVIOUS
<1>3. pc[d] \in {"mark", "ask", "awake", "clear", "needed", "unask", "unwait", "undelay"}
  BY <1>1 DEF TypeOK, Changes
<1>4. CASE c = t
  <2>1. pc[d] \in {"clear", "needed", "unask", "unwait", "undelay"}
    BY <1>1, <1>2, <1>3, <1>4 DEF Calm, On, Own
  <2>2. pc[d] \in {"clear", "needed", "unask"} => pc[t] = "asleep"
    BY <1>1 DEF Calm, On
  <2>3. pc[d] \in {"unwait", "undelay"} => pc[t] = "blocked"
    BY <1>1 DEF Tokens, Gives, Giving
  <2> QED
    BY <1>4, <2>1, <2>2, <2>3
<1>5. CASE c # t
  <2>0. target[c] = t
    BY <1>5
  <2>1. pc[c] \in {"clear", "needed", "unask", "unwait", "undelay"}
    BY <1>1, <1>2, <1>5 DEF TypeOK, Changes, Own
  <2>2. \A e \in {c, d} : pc[e] \in {"clear", "needed", "unask"} => pc[t] = "asleep"
    BY <1>1, <2>0 DEF Calm, On
  <2>3. \A e \in {c, d} : pc[e] \in {"unwait", "undelay"} => pc[t] = "blocked"
    BY <1>1, <2>0 DEF Tokens, Gives, Giving
  <2>4. pc[d] \in {"mark", "ask", "awake"} => pc[d] = pc[t]
    BY <1>1, <1>2 DEF Calm, On, Own
  <2>5. pc[d] \in {"clear", "needed", "unask", "unwait", "undelay"}
    BY <1>3, <2>1, <2>2, <2>3, <2>4
  <2>6. ~(pc[c] \in {"clear", "needed", "unask"}
          /\ pc[d] \in {"clear", "needed", "unask"})
    BY <1>1, <2>0 DEF Calm, On, Resuming
  <2>7. ~(pc[c] \in {"unwait", "undelay"} /\ pc[d] \in {"unwait", "undelay"})
    BY <1>1, <2>0 DEF Tokens, Gives, Giving
  <2> QED
    BY <2>1, <2>2, <2>3, <2>5, <2>6, <2>7
<1> QED
  BY <1>4, <1>5

(* What the second half does to its subject.                              *)
Stored(c, t, here, off, on, there) ==
  /\ Frame(c, t) /\ TypeOK' /\ Reads(c)'
  /\ pc' = [pc EXCEPT ![c] = there]
  /\ t \notin stale' => t \notin stale /\ status'[t] = (status[t] \ off) \cup on
  /\ \A d \in Tasks \ {c} : loaded'[d] = loaded[d] /\ pc'[d] = pc[d]
  /\ pc[c] = here /\ pc'[c] = there /\ ~loaded'[c] /\ c \notin current'
  /\ UNCHANGED <<sema, queue, list, target, meddled>>
  /\ t \notin meddled => Calm(t)'

LEMMA Storing ==
  ASSUME IInv, NEW c \in Tasks, NEW t \in Tasks, t = target[c],
         NEW here \in Changes, NEW there \in {"user", "ask", "asleep", "needed", "timed", "post"},
         NEW off, NEW on \in SUBSET {"suspended", "needpost"},
         there = "needed" => here = "clear" /\ off = {"suspended"},
         Store(c, here, off, on, there), c # t => there \notin Own,
         early' \subseteq Tasks, marked' \subseteq Tasks, asked' \subseteq Tasks,
         \A x \in Tasks \ {t} :
           (x \in early' <=> x \in early) /\ (x \in marked' <=> x \in marked)
  PROVE  Stored(c, t, here, off, on, there)
<1>1. TypeOK /\ Good(t) /\ Reads(c)
  BY DEF IInv
<1>2. c # t => pc[c] \notin Own
  BY DEF IInv
<1>3. /\ pc[c] = here /\ pc' = [pc EXCEPT ![c] = there]
      /\ UNCHANGED <<sema, queue, list, corrupt, target, meddled>>
  BY DEF Store, Goto, places
<1>4. \A d \in Tasks \ {c} :
        loaded'[d] = loaded[d] /\ pc'[d] = pc[d] /\ reg'[d] = reg[d]
  BY <1>1, <1>3 DEF Store, TypeOK
<1>5. pc'[c] = there /\ ~loaded'[c] /\ c \notin current'
  BY <1>1, <1>3 DEF Store, TypeOK, Outdated
<1>6. status'[t] = (reg[c] \ off) \cup on
      /\ \A x \in Tasks \ {t} : status'[x] = status[x]
  BY <1>1 DEF Store, TypeOK
<1>7. stale' = IF c \in current THEN stale ELSE stale \cup {t}
  BY DEF Store
<1>8. current' = current \ Outdated(t)
  BY DEF Store
<1>9. Frame(c, t)
  BY <1>1, <1>2, <1>3, <1>4, <1>5, <1>6, <1>7, <1>8 DEF Frame, Outdated
<1>10. TypeOK'
  <2>1. OneOf(status'[t]) /\ status' \in [Tasks -> SUBSET Bits]
    <3>1. OneOf(reg[c]) /\ reg[c] \in SUBSET Bits
      BY <1>1 DEF TypeOK
    <3>2. on \in SUBSET Bits
      BY DEF Bits
    <3> QED
      BY <1>1, <1>6, <3>1, <3>2 DEF Store, TypeOK, OneOf
  <2>2. \A x \in Tasks : OneOf(status'[x])
    BY <1>1, <1>6, <2>1 DEF TypeOK
  <2>3. reg' \in [Tasks -> SUBSET Bits] /\ \A x \in Tasks : OneOf(reg'[x])
    BY <1>1 DEF Store, TypeOK, OneOf
  <2>4. \A d \in Tasks : loaded'[d] => pc'[d] \in Changes
    BY <1>1, <1>4, <1>5 DEF TypeOK
  <2>5. pc' \in [Tasks -> Locations] /\ loaded' \in [Tasks -> BOOLEAN]
    BY <1>1, <1>3 DEF Store, TypeOK, Locations
  <2> QED
    BY <1>1, <1>3, <1>7, <1>8, <2>1, <2>2, <2>3, <2>4, <2>5 DEF TypeOK
<1>11. Reads(c)'
  BY <1>5 DEF Reads
<1>12. t \notin stale' => t \notin stale /\ status'[t] = (status[t] \ off) \cup on
  BY <1>1, <1>6, <1>7 DEF Store, Reads
<1>13. t \notin meddled => t \notin stale'
  BY <1>1, <1>7 DEF Store, Good, Calm
<1>14. t \notin meddled => Calm(t)'
  <2> SUFFICES ASSUME t \notin meddled PROVE Calm(t)'
    OBVIOUS
  <2>1. Calm(t)
    BY <1>1 DEF Good
  <2>2. pc[c] = "mark" => c = t
    BY <2>1, <1>3 DEF Calm, On
  <2>3. ASSUME NEW d \in Tasks \ {c}, target[d] = t
        PROVE  ~loaded[d] /\ pc[d] \notin {"clear", "needed", "unask"}
    <3>1. c = t => pc[t] \notin {"asleep", "blocked"}
      BY <1>3 DEF Changes
    <3>2. c # t => loaded[c] /\ pc[c] # "mark"
      BY <2>2 DEF Store
    <3> QED
      BY <2>3, <3>1, <3>2, NobodyReads
  <2>4. there = "needed" =>
          pc'[t] = "asleep" /\ "needpost" \in status'[t] /\ pc[c] \in Resuming
    <3> SUFFICES ASSUME there = "needed"
                 PROVE  pc'[t] = "asleep" /\ "needpost" \in status'[t]
                        /\ pc[c] \in Resuming
      OBVIOUS
    <3>1. pc[c] = "clear" /\ pc[t] = "asleep" /\ "needpost" \in status[t]
      BY <2>1, <1>3 DEF Calm, On
    <3>2. pc'[t] = "asleep"
      BY <3>1, <1>4
    <3>3. "needpost" \in status'[t]
      BY <3>1, <2>1, <1>12, <1>13 DEF Calm
    <3> QED
      BY <3>1, <3>2, <3>3 DEF Resuming
  <2>5. \A d \in Tasks : On(d, t, Resuming)' => On(d, t, Resuming)
    BY <1>3, <1>4, <1>5, <2>4 DEF On, Resuming
  <2>6. \A d \in Tasks :
          /\ On(d, t, {"mark"})' => d = t
          /\ On(d, t, {"clear", "needed", "unask"})' => d = c /\ there = "needed"
          /\ ~((loaded'[d] \/ pc'[d] \in {"clear", "unask"}) /\ target'[d] = t)
    <3> SUFFICES ASSUME NEW d \in Tasks, target[d] = t
                 PROVE  /\ pc'[d] = "mark" => d = t
                        /\ pc'[d] \in {"clear", "needed", "unask"} =>
                             d = c /\ there = "needed"
                        /\ ~loaded'[d] /\ pc'[d] \notin {"clear", "unask"}
      BY <1>3 DEF On
    <3>1. CASE d = c
      BY <3>1, <1>5
    <3>2. CASE d # c
      BY <3>2, <2>1, <2>3, <1>4 DEF Calm, On
    <3> QED
      BY <3>1, <3>2
  <2>7. t \notin stale'
    BY <1>13
  <2> QED
    BY <2>1, <2>4, <2>5, <2>6, <2>7 DEF Calm
<1> QED
  BY <1>14, <1>3, <1>4, <1>5, <1>9, <1>10, <1>11, <1>12, <1>13 DEF Stored

(* The changes, one by one.                                                *)
LEMMA MarkInv ==
  ASSUME IInv, NEW c \in Tasks, SuspMark(c)
  PROVE  IInv'
<1> SUFFICES ASSUME ~Load(c, "mark") PROVE IInv'
  BY Loading DEF Changes
<1>0. PICK t \in Tasks : t = target[c]
  BY DEF IInv, TypeOK
<1>1. Good(t) /\ (pc[c] \in Own => c = t) /\ TypeOK
  BY <1>0 DEF IInv
<1>2. Store(c, "mark", {}, {"suspended"}, (IF t = c THEN "ask" ELSE "user"))
  BY <1>0 DEF SuspMark, Change
<1>3. /\ marked' = (IF t = c THEN marked ELSE marked \cup {t})
      /\ asked' = (IF t \in queue THEN asked \cup {t} ELSE asked)
      /\ early' = early
  BY <1>0, <1>1, <1>2 DEF SuspMark, Change, Load, Store, TypeOK
<1>4. /\ Frame(c, t) /\ TypeOK' /\ Reads(c)'
      /\ pc[c] = "mark" /\ pc' = [pc EXCEPT ![c] = (IF t = c THEN "ask" ELSE "user")]
      /\ \A d \in Tasks \ {c} : pc'[d] = pc[d]
      /\ pc'[c] = (IF t = c THEN "ask" ELSE "user")
      /\ t \notin stale' => /\ t \notin stale
                            /\ status'[t] = (status[t] \ {}) \cup {"suspended"}
      /\ UNCHANGED <<sema, queue, list, target>>
      /\ t \notin meddled' => Calm(t)'
  <2>0. PICK off, there : off = {} /\ there = (IF t = c THEN "ask" ELSE "user")
    OBVIOUS
  <2>1. "mark" \in Changes
        /\ there \in {"user", "ask", "asleep", "needed", "timed", "post"}
        /\ {"suspended"} \in SUBSET {"suspended", "needpost"}
    BY <2>0 DEF Changes
  <2>2. c # t => there \notin Own
    BY <1>1, <1>2, <2>0 DEF Store, Own
  <2>3. early' \subseteq Tasks /\ marked' \subseteq Tasks /\ asked' \subseteq Tasks
    BY <1>1, <1>2, <1>3 DEF TypeOK
  <2>4. meddled' = meddled
    BY <1>2 DEF Store
  <2>5. \A x \in Tasks \ {t} :
          (x \in early' <=> x \in early) /\ (x \in marked' <=> x \in marked)
    BY <1>3
  <2>6. there = "needed" => "mark" = "clear" /\ off = {"suspended"}
    BY <2>0
  <2>7. Store(c, "mark", off, {"suspended"}, there)
    BY <1>2, <2>0
  <2>8. Stored(c, t, "mark", off, {"suspended"}, there)
    BY <1>0, <2>1, <2>2, <2>3, <2>5, <2>6, <2>7, Storing
  <2> QED
    BY <2>0, <2>4, <2>8 DEF Stored
<1>5. ASSUME t \notin stale' PROVE Tokens(t)' /\ Delays(t)'
  <2>1. Tokens(t) /\ Delays(t)
    BY <1>1, <1>4, <1>5 DEF Good
  <2>2. Tokens(t)'
    BY <1>0, <1>1, <1>4, <1>5, <2>1 DEF Tokens, Gives, Giving, Own
  <2>3. Delays(t)'
    BY <1>0, <1>1, <1>3, <1>4, <1>5, <2>1 DEF Delays, Listed, On, Own, Tokens,
       Gives, Giving
  <2> QED
    BY <2>2, <2>3
<1>6. ASSUME t \notin stale' \cup early' PROVE Marks(t)'
  BY <1>0, <1>1, <1>3, <1>4, <1>6 DEF Good, Marks, On, Own
<1>7. Good(t)'
  BY <1>4, <1>5, <1>6 DEF Good
<1> QED
  BY <1>4, <1>7, StepInv

LEMMA AskInv ==
  ASSUME IInv, NEW c \in Tasks, SuspAsk(c)
  PROVE  IInv'
<1> SUFFICES ASSUME ~Load(c, "ask") PROVE IInv'
  BY Loading DEF Changes
<1>0. PICK t \in Tasks : t = target[c]
  BY DEF IInv, TypeOK
<1>1. Good(t) /\ (pc[c] \in Own => c = t) /\ TypeOK
  BY <1>0 DEF IInv
<1>2. Store(c, "ask", {}, {"needpost"}, "asleep")
  BY <1>0 DEF SuspAsk, Change
<1>3. UNCHANGED <<early, marked, asked>>
  BY <1>0, <1>1, <1>2 DEF SuspAsk, Change, Load, Store, TypeOK
<1>4. /\ Frame(c, t) /\ TypeOK' /\ Reads(c)'
      /\ pc[c] = "ask" /\ pc' = [pc EXCEPT ![c] = "asleep"]
      /\ \A d \in Tasks \ {c} : pc'[d] = pc[d]
      /\ pc'[c] = "asleep"
      /\ t \notin stale' => /\ t \notin stale
                            /\ status'[t] = (status[t] \ {}) \cup {"needpost"}
      /\ UNCHANGED <<sema, queue, list, target>>
      /\ t \notin meddled' => Calm(t)'
  <2>0. PICK off, there : off = {} /\ there = "asleep"
    OBVIOUS
  <2>1. "ask" \in Changes
        /\ there \in {"user", "ask", "asleep", "needed", "timed", "post"}
        /\ {"needpost"} \in SUBSET {"suspended", "needpost"}
    BY <2>0 DEF Changes
  <2>2. c # t => there \notin Own
    BY <1>1, <1>2, <2>0 DEF Store, Own
  <2>3. early' \subseteq Tasks /\ marked' \subseteq Tasks /\ asked' \subseteq Tasks
    BY <1>1, <1>2, <1>3 DEF TypeOK
  <2>4. meddled' = meddled
    BY <1>2 DEF Store
  <2>5. \A x \in Tasks \ {t} :
          (x \in early' <=> x \in early) /\ (x \in marked' <=> x \in marked)
    BY <1>3
  <2>6. there = "needed" => "ask" = "clear" /\ off = {"suspended"}
    BY <2>0
  <2>7. Store(c, "ask", off, {"needpost"}, there)
    BY <1>2, <2>0
  <2>8. Stored(c, t, "ask", off, {"needpost"}, there)
    BY <1>0, <2>1, <2>2, <2>3, <2>5, <2>6, <2>7, Storing
  <2> QED
    BY <2>0, <2>4, <2>8 DEF Stored
<1>5. ASSUME t \notin stale' PROVE Tokens(t)' /\ Delays(t)'
  <2>1. Tokens(t) /\ Delays(t)
    BY <1>1, <1>4, <1>5 DEF Good
  <2>2. Tokens(t)'
    BY <1>0, <1>1, <1>4, <1>5, <2>1 DEF Tokens, Gives, Giving, Own
  <2>3. Delays(t)'
    BY <1>0, <1>1, <1>3, <1>4, <1>5, <2>1 DEF Delays, Listed, On, Own, Tokens,
       Gives, Giving
  <2> QED
    BY <2>2, <2>3
<1>6. ASSUME t \notin stale' \cup early' PROVE Marks(t)'
  BY <1>0, <1>1, <1>3, <1>4, <1>6 DEF Good, Marks, On, Own
<1>7. Good(t)'
  BY <1>4, <1>5, <1>6 DEF Good
<1> QED
  BY <1>4, <1>7, StepInv

LEMMA SuspClearInv ==
  ASSUME IInv, NEW c \in Tasks, SuspClear(c)
  PROVE  IInv'
<1> SUFFICES ASSUME ~Load(c, "awake") PROVE IInv'
  BY Loading DEF Changes
<1>0. PICK t \in Tasks : t = target[c]
  BY DEF IInv, TypeOK
<1>1. Good(t) /\ (pc[c] \in Own => c = t) /\ TypeOK
  BY <1>0 DEF IInv
<1>2. Store(c, "awake", {"suspended", "needpost"}, {}, "user")
  BY <1>0 DEF SuspClear, Change
<1>3. UNCHANGED <<early, marked, asked>>
  BY <1>0, <1>1, <1>2 DEF SuspClear, Change, Load, Store, TypeOK
<1>4. /\ Frame(c, t) /\ TypeOK' /\ Reads(c)'
      /\ pc[c] = "awake" /\ pc' = [pc EXCEPT ![c] = "user"]
      /\ \A d \in Tasks \ {c} : pc'[d] = pc[d]
      /\ pc'[c] = "user"
      /\ t \notin stale' => /\ t \notin stale
                            /\ status'[t] = (status[t] \ {"suspended", "needpost"}) \cup {}
      /\ UNCHANGED <<sema, queue, list, target>>
      /\ t \notin meddled' => Calm(t)'
  <2>0. PICK off, there : off = {"suspended", "needpost"} /\ there = "user"
    OBVIOUS
  <2>1. "awake" \in Changes
        /\ there \in {"user", "ask", "asleep", "needed", "timed", "post"}
        /\ {} \in SUBSET {"suspended", "needpost"}
    BY <2>0 DEF Changes
  <2>2. c # t => there \notin Own
    BY <1>1, <1>2, <2>0 DEF Store, Own
  <2>3. early' \subseteq Tasks /\ marked' \subseteq Tasks /\ asked' \subseteq Tasks
    BY <1>1, <1>2, <1>3 DEF TypeOK
  <2>4. meddled' = meddled
    BY <1>2 DEF Store
  <2>5. \A x \in Tasks \ {t} :
          (x \in early' <=> x \in early) /\ (x \in marked' <=> x \in marked)
    BY <1>3
  <2>6. there = "needed" => "awake" = "clear" /\ off = {"suspended"}
    BY <2>0
  <2>7. Store(c, "awake", off, {}, there)
    BY <1>2, <2>0
  <2>8. Stored(c, t, "awake", off, {}, there)
    BY <1>0, <2>1, <2>2, <2>3, <2>5, <2>6, <2>7, Storing
  <2> QED
    BY <2>0, <2>4, <2>8 DEF Stored
<1>5. ASSUME t \notin stale' PROVE Tokens(t)' /\ Delays(t)'
  <2>1. Tokens(t) /\ Delays(t)
    BY <1>1, <1>4, <1>5 DEF Good
  <2>2. Tokens(t)'
    BY <1>0, <1>1, <1>4, <1>5, <2>1 DEF Tokens, Gives, Giving, Own
  <2>3. Delays(t)'
    BY <1>0, <1>1, <1>3, <1>4, <1>5, <2>1 DEF Delays, Listed, On, Own, Tokens,
       Gives, Giving
  <2> QED
    BY <2>2, <2>3
<1>6. ASSUME t \notin stale' \cup early' PROVE Marks(t)'
  BY <1>0, <1>1, <1>3, <1>4, <1>6 DEF Good, Marks, On, Own
<1>7. Good(t)'
  BY <1>4, <1>5, <1>6 DEF Good
<1> QED
  BY <1>4, <1>7, StepInv

LEMMA ClearInv ==
  ASSUME IInv, NEW c \in Tasks, ResmClear(c)
  PROVE  IInv'
<1> SUFFICES ASSUME ~Load(c, "clear") PROVE IInv'
  BY Loading DEF Changes
<1>0. PICK t \in Tasks : t = target[c]
  BY DEF IInv, TypeOK
<1>1. Good(t) /\ (pc[c] \in Own => c = t) /\ TypeOK
  BY <1>0 DEF IInv
<1>2. Store(c, "clear", {"suspended"}, {}, "needed")
  BY <1>0 DEF ResmClear, Change
<1>3. /\ early' = (IF pc[t] = "ask" THEN early \cup {t} ELSE early)
      /\ UNCHANGED <<marked, asked>>
  BY <1>0, <1>1, <1>2 DEF ResmClear, Change, Load, Store, TypeOK
<1>4. /\ Frame(c, t) /\ TypeOK' /\ Reads(c)'
      /\ pc[c] = "clear" /\ pc' = [pc EXCEPT ![c] = "needed"]
      /\ \A d \in Tasks \ {c} : pc'[d] = pc[d]
      /\ pc'[c] = "needed"
      /\ t \notin stale' => /\ t \notin stale
                            /\ status'[t] = (status[t] \ {"suspended"}) \cup {}
      /\ UNCHANGED <<sema, queue, list, target>>
      /\ t \notin meddled' => Calm(t)'
  <2>0. PICK off, there : off = {"suspended"} /\ there = "needed"
    OBVIOUS
  <2>1. "clear" \in Changes
        /\ there \in {"user", "ask", "asleep", "needed", "timed", "post"}
        /\ {} \in SUBSET {"suspended", "needpost"}
    BY <2>0 DEF Changes
  <2>2. c # t => there \notin Own
    BY <1>1, <1>2, <2>0 DEF Store, Own
  <2>3. early' \subseteq Tasks /\ marked' \subseteq Tasks /\ asked' \subseteq Tasks
    BY <1>1, <1>2, <1>3 DEF TypeOK
  <2>4. meddled' = meddled
    BY <1>2 DEF Store
  <2>5. \A x \in Tasks \ {t} :
          (x \in early' <=> x \in early) /\ (x \in marked' <=> x \in marked)
    BY <1>3
  <2>6. there = "needed" => "clear" = "clear" /\ off = {"suspended"}
    BY <2>0
  <2>7. Store(c, "clear", off, {}, there)
    BY <1>2, <2>0
  <2>8. Stored(c, t, "clear", off, {}, there)
    BY <1>0, <2>1, <2>2, <2>3, <2>5, <2>6, <2>7, Storing
  <2> QED
    BY <2>0, <2>4, <2>8 DEF Stored
<1>5. ASSUME t \notin stale' PROVE Tokens(t)' /\ Delays(t)'
  <2>1. Tokens(t) /\ Delays(t)
    BY <1>1, <1>4, <1>5 DEF Good
  <2>2. Tokens(t)'
    BY <1>0, <1>1, <1>4, <1>5, <2>1 DEF Tokens, Gives, Giving, Own
  <2>3. Delays(t)'
    BY <1>0, <1>1, <1>3, <1>4, <1>5, <2>1 DEF Delays, Listed, On, Own, Tokens,
       Gives, Giving
  <2> QED
    BY <2>2, <2>3
<1>6. ASSUME t \notin stale' \cup early' PROVE Marks(t)'
  BY <1>0, <1>1, <1>3, <1>4, <1>6 DEF Good, Marks, On, Own
<1>7. Good(t)'
  BY <1>4, <1>5, <1>6 DEF Good
<1> QED
  BY <1>4, <1>7, StepInv

LEMMA UnaskInv ==
  ASSUME IInv, NEW c \in Tasks, ResmUnask(c)
  PROVE  IInv'
<1> SUFFICES ASSUME ~Load(c, "unask") PROVE IInv'
  BY Loading DEF Changes
<1>0. PICK t \in Tasks : t = target[c]
  BY DEF IInv, TypeOK
<1>1. Good(t) /\ (pc[c] \in Own => c = t) /\ TypeOK
  BY <1>0 DEF IInv
<1>2. Store(c, "unask", {"needpost"}, {}, "post")
  BY <1>0 DEF ResmUnask, Change
<1>3. UNCHANGED <<early, marked, asked>>
  BY <1>0, <1>1, <1>2 DEF ResmUnask, Change, Load, Store, TypeOK
<1>4. /\ Frame(c, t) /\ TypeOK' /\ Reads(c)'
      /\ pc[c] = "unask" /\ pc' = [pc EXCEPT ![c] = "post"]
      /\ \A d \in Tasks \ {c} : pc'[d] = pc[d]
      /\ pc'[c] = "post"
      /\ t \notin stale' => /\ t \notin stale
                            /\ status'[t] = (status[t] \ {"needpost"}) \cup {}
      /\ UNCHANGED <<sema, queue, list, target>>
      /\ t \notin meddled' => Calm(t)'
  <2>0. PICK off, there : off = {"needpost"} /\ there = "post"
    OBVIOUS
  <2>1. "unask" \in Changes
        /\ there \in {"user", "ask", "asleep", "needed", "timed", "post"}
        /\ {} \in SUBSET {"suspended", "needpost"}
    BY <2>0 DEF Changes
  <2>2. c # t => there \notin Own
    BY <1>1, <1>2, <2>0 DEF Store, Own
  <2>3. early' \subseteq Tasks /\ marked' \subseteq Tasks /\ asked' \subseteq Tasks
    BY <1>1, <1>2, <1>3 DEF TypeOK
  <2>4. meddled' = meddled
    BY <1>2 DEF Store
  <2>5. \A x \in Tasks \ {t} :
          (x \in early' <=> x \in early) /\ (x \in marked' <=> x \in marked)
    BY <1>3
  <2>6. there = "needed" => "unask" = "clear" /\ off = {"suspended"}
    BY <2>0
  <2>7. Store(c, "unask", off, {}, there)
    BY <1>2, <2>0
  <2>8. Stored(c, t, "unask", off, {}, there)
    BY <1>0, <2>1, <2>2, <2>3, <2>5, <2>6, <2>7, Storing
  <2> QED
    BY <2>0, <2>4, <2>8 DEF Stored
<1>5. ASSUME t \notin stale' PROVE Tokens(t)' /\ Delays(t)'
  <2>1. Tokens(t) /\ Delays(t)
    BY <1>1, <1>4, <1>5 DEF Good
  <2>2. Tokens(t)'
    <3>1. "needpost" \in status[t]
      BY <1>0, <1>1, <1>2, <1>4, <1>5 DEF IInv, Reads, Store
    <3>2. /\ pc[t] = "asleep" /\ sema[t] = 0 /\ t \notin queue /\ t \notin list
          /\ \A d \in Tasks : ~Gives(d, t)
      BY <2>1, <3>1 DEF Tokens
    <3>3. \A d \in Tasks : Gives(d, t)' => d = c
      BY <1>4, <3>2 DEF Gives
    <3>4. pc'[t] = "asleep" /\ "needpost" \notin status'[t] /\ c # t
      BY <1>4, <1>5, <3>2
    <3> QED
      BY <1>4, <3>2, <3>3, <3>4 DEF Tokens
  <2>3. Delays(t)'
    <3>1. "needpost" \in status[t]
      BY <1>0, <1>1, <1>2, <1>4, <1>5 DEF IInv, Reads, Store
    <3>2. /\ sema[t] = 0 /\ t \notin queue /\ t \notin list
          /\ \A d \in Tasks : ~Gives(d, t)
      BY <2>1, <3>1 DEF Tokens
    <3>3. \A d \in Tasks : Gives(d, t)' => pc'[d] = "post"
      BY <1>4, <3>2 DEF Gives
    <3> QED
      BY <1>4, <3>2, <3>3 DEF Delays, On, Gives, Giving
  <2> QED
    BY <2>2, <2>3
<1>6. ASSUME t \notin stale' \cup early' PROVE Marks(t)'
  BY <1>0, <1>1, <1>3, <1>4, <1>6 DEF Good, Marks, On, Own
<1>7. Good(t)'
  BY <1>4, <1>5, <1>6 DEF Good
<1> QED
  BY <1>4, <1>7, StepInv

LEMMA UnwaitInv ==
  ASSUME IInv, NEW c \in Tasks, SendUnwait(c)
  PROVE  IInv'
<1> SUFFICES ASSUME ~Load(c, "unwait") PROVE IInv'
  BY Loading DEF Changes
<1>0. PICK t \in Tasks : t = target[c]
  BY DEF IInv, TypeOK
<1>1. Good(t) /\ (pc[c] \in Own => c = t) /\ TypeOK
  BY <1>0 DEF IInv
<1>2. Store(c, "unwait", {"waiting"}, {}, "timed")
  BY <1>0 DEF SendUnwait, Change
<1>3. UNCHANGED <<early, marked, asked>>
  BY <1>0, <1>1, <1>2 DEF SendUnwait, Change, Load, Store, TypeOK
<1>4. /\ Frame(c, t) /\ TypeOK' /\ Reads(c)'
      /\ pc[c] = "unwait" /\ pc' = [pc EXCEPT ![c] = "timed"]
      /\ \A d \in Tasks \ {c} : pc'[d] = pc[d]
      /\ pc'[c] = "timed"
      /\ t \notin stale' => /\ t \notin stale
                            /\ status'[t] = (status[t] \ {"waiting"}) \cup {}
      /\ UNCHANGED <<sema, queue, list, target>>
      /\ t \notin meddled' => Calm(t)'
  <2>0. PICK off, there : off = {"waiting"} /\ there = "timed"
    OBVIOUS
  <2>1. "unwait" \in Changes
        /\ there \in {"user", "ask", "asleep", "needed", "timed", "post"}
        /\ {} \in SUBSET {"suspended", "needpost"}
    BY <2>0 DEF Changes
  <2>2. c # t => there \notin Own
    BY <1>1, <1>2, <2>0 DEF Store, Own
  <2>3. early' \subseteq Tasks /\ marked' \subseteq Tasks /\ asked' \subseteq Tasks
    BY <1>1, <1>2, <1>3 DEF TypeOK
  <2>4. meddled' = meddled
    BY <1>2 DEF Store
  <2>5. \A x \in Tasks \ {t} :
          (x \in early' <=> x \in early) /\ (x \in marked' <=> x \in marked)
    BY <1>3
  <2>6. there = "needed" => "unwait" = "clear" /\ off = {"suspended"}
    BY <2>0
  <2>7. Store(c, "unwait", off, {}, there)
    BY <1>2, <2>0
  <2>8. Stored(c, t, "unwait", off, {}, there)
    BY <1>0, <2>1, <2>2, <2>3, <2>5, <2>6, <2>7, Storing
  <2> QED
    BY <2>0, <2>4, <2>8 DEF Stored
<1>5. ASSUME t \notin stale' PROVE Tokens(t)' /\ Delays(t)'
  <2>1. Tokens(t) /\ Delays(t)
    BY <1>1, <1>4, <1>5 DEF Good
  <2>2. Tokens(t)'
    BY <1>0, <1>1, <1>4, <1>5, <2>1 DEF Tokens, Gives, Giving, Own
  <2>3. Delays(t)'
    BY <1>0, <1>1, <1>3, <1>4, <1>5, <2>1 DEF Delays, Listed, On, Own, Tokens,
       Gives, Giving
  <2> QED
    BY <2>2, <2>3
<1>6. ASSUME t \notin stale' \cup early' PROVE Marks(t)'
  BY <1>0, <1>1, <1>3, <1>4, <1>6 DEF Good, Marks, On, Own
<1>7. Good(t)'
  BY <1>4, <1>5, <1>6 DEF Good
<1> QED
  BY <1>4, <1>7, StepInv

LEMMA UndelayInv ==
  ASSUME IInv, NEW c \in Tasks, SendUndelay(c)
  PROVE  IInv'
<1> SUFFICES ASSUME ~Load(c, "undelay") PROVE IInv'
  BY Loading DEF Changes
<1>0. PICK t \in Tasks : t = target[c]
  BY DEF IInv, TypeOK
<1>1. Good(t) /\ (pc[c] \in Own => c = t) /\ TypeOK
  BY <1>0 DEF IInv
<1>2. Store(c, "undelay", {"delayed"}, {}, "post")
  BY <1>0 DEF SendUndelay, Change
<1>3. UNCHANGED <<early, marked, asked>>
  BY <1>0, <1>1, <1>2 DEF SendUndelay, Change, Load, Store, TypeOK
<1>4. /\ Frame(c, t) /\ TypeOK' /\ Reads(c)'
      /\ pc[c] = "undelay" /\ pc' = [pc EXCEPT ![c] = "post"]
      /\ \A d \in Tasks \ {c} : pc'[d] = pc[d]
      /\ pc'[c] = "post"
      /\ t \notin stale' => /\ t \notin stale
                            /\ status'[t] = (status[t] \ {"delayed"}) \cup {}
      /\ UNCHANGED <<sema, queue, list, target>>
      /\ t \notin meddled' => Calm(t)'
  <2>0. PICK off, there : off = {"delayed"} /\ there = "post"
    OBVIOUS
  <2>1. "undelay" \in Changes
        /\ there \in {"user", "ask", "asleep", "needed", "timed", "post"}
        /\ {} \in SUBSET {"suspended", "needpost"}
    BY <2>0 DEF Changes
  <2>2. c # t => there \notin Own
    BY <1>1, <1>2, <2>0 DEF Store, Own
  <2>3. early' \subseteq Tasks /\ marked' \subseteq Tasks /\ asked' \subseteq Tasks
    BY <1>1, <1>2, <1>3 DEF TypeOK
  <2>4. meddled' = meddled
    BY <1>2 DEF Store
  <2>5. \A x \in Tasks \ {t} :
          (x \in early' <=> x \in early) /\ (x \in marked' <=> x \in marked)
    BY <1>3
  <2>6. there = "needed" => "undelay" = "clear" /\ off = {"suspended"}
    BY <2>0
  <2>7. Store(c, "undelay", off, {}, there)
    BY <1>2, <2>0
  <2>8. Stored(c, t, "undelay", off, {}, there)
    BY <1>0, <2>1, <2>2, <2>3, <2>5, <2>6, <2>7, Storing
  <2> QED
    BY <2>0, <2>4, <2>8 DEF Stored
<1>5. ASSUME t \notin stale' PROVE Tokens(t)' /\ Delays(t)'
  <2>1. Tokens(t) /\ Delays(t)
    BY <1>1, <1>4, <1>5 DEF Good
  <2>2. Tokens(t)'
    BY <1>0, <1>1, <1>4, <1>5, <2>1 DEF Tokens, Gives, Giving, Own
  <2>3. Delays(t)'
    BY <1>0, <1>1, <1>3, <1>4, <1>5, <2>1 DEF Delays, Listed, On, Own, Tokens,
       Gives, Giving
  <2> QED
    BY <2>2, <2>3
<1>6. ASSUME t \notin stale' \cup early' PROVE Marks(t)'
  BY <1>0, <1>1, <1>3, <1>4, <1>6 DEF Good, Marks, On, Own
<1>7. Good(t)'
  BY <1>4, <1>5, <1>6 DEF Good
<1> QED
  BY <1>4, <1>7, StepInv

-----------------------------------------------------------------------------
(* The other steps.                                                        *)
LEMMA SuspInv ==
  ASSUME IInv, NEW c \in Tasks, NEW t \in Tasks, reqsusp(c, t)
  PROVE  IInv'
<1>0. reqsusp(c, t)
  OBVIOUS
<1>1. TypeOK /\ Good(t) /\ Reads(c) /\ (pc[c] \in Own => target[c] = c)
  BY DEF IInv
<1>2. Frame(c, t)
  BY <1>0, <1>1 DEF At, Goto, places, Call, reqsusp, Frame, TypeOK, Own
<1>3. TypeOK'
  BY <1>0, <1>1 DEF At, Goto, places, Call, reqsusp, TypeOK, Locations, Changes
<1>4. Reads(c)'
  BY <1>0, <1>1 DEF At, Goto, places, Call, reqsusp, Reads, TypeOK, Changes
<1>5. ASSUME t \notin stale' PROVE Tokens(t)' /\ Delays(t)'
  <2>1. Tokens(t) /\ Delays(t) /\ t \notin stale
    BY <1>0, <1>1, <1>5 DEF Good, At, Goto, places, Call, reqsusp
  <2>2. Tokens(t)'
    BY <1>0, <1>1, <2>1 DEF At, Goto, places, Call, reqsusp, Tokens, Gives,
       Giving, Own, TypeOK
  <2>3. Delays(t)'
    BY <1>0, <1>1, <2>1 DEF At, Goto, places, Call, reqsusp, Delays, Listed,
       On, Own, Tokens, Gives, Giving, TypeOK
  <2> QED
    BY <2>2, <2>3
<1>6. ASSUME t \notin stale' \cup early' PROVE Marks(t)'
  BY <1>0, <1>1, <1>6 DEF At, Goto, places, Call, reqsusp, Good, Marks, On,
     Own, TypeOK
<1>7. ASSUME t \notin meddled' PROVE Calm(t)'
  BY <1>0, <1>1, <1>7 DEF At, Goto, places, Call, reqsusp, Good, Calm, On,
     Resuming, Own, TypeOK
<1> QED
  BY <1>1, <1>2, <1>3, <1>4, <1>5, <1>6, <1>7, StepInv DEF Good

LEMMA SuspWakeInv ==
  ASSUME IInv, NEW c \in Tasks, SuspWake(c)
  PROVE  IInv'
<1>0. PICK t \in Tasks : t = c /\ SuspWake(c)
  OBVIOUS
<1>1. TypeOK /\ Good(t) /\ Reads(c) /\ (pc[c] \in Own => target[c] = c)
  BY DEF IInv
<1>2. Frame(c, t)
  BY <1>0, <1>1 DEF At, Goto, places, Step, SuspWake, Frame, TypeOK, Own
<1>3. TypeOK'
  <2>1. sema' \in [Tasks -> 0..SemMax]
    BY <1>0, <1>1, SuspendAssumption DEF SuspWake, Posted, TypeOK
  <2> QED
    BY <1>0, <1>1, <2>1 DEF At, Step, Goto, places, SuspWake, TypeOK,
       Locations, Changes
<1>4. Reads(c)'
  BY <1>0, <1>1 DEF At, Goto, places, Step, SuspWake, Reads, TypeOK, Changes
<1>5. ASSUME t \notin stale' PROVE Tokens(t)' /\ Delays(t)'
  <2>1. Tokens(t) /\ Delays(t) /\ t \notin stale
    BY <1>0, <1>1, <1>5 DEF Good, At, Goto, places, Step, SuspWake
  <2>2. Tokens(t)'
    BY <1>0, <1>1, <2>1 DEF At, Goto, places, Step, SuspWake, Tokens, Gives,
       Giving, Own, TypeOK
  <2>3. Delays(t)'
    BY <1>0, <1>1, <2>1 DEF At, Goto, places, Step, SuspWake, Delays, Listed,
       On, Own, Tokens, Gives, Giving, TypeOK
  <2> QED
    BY <2>2, <2>3
<1>6. ASSUME t \notin stale' \cup early' PROVE Marks(t)'
  BY <1>0, <1>1, <1>6 DEF At, Goto, places, Step, SuspWake, Good, Marks, On,
     Own, TypeOK
<1>7. ASSUME t \notin meddled' PROVE Calm(t)'
  <2>1. Calm(t) /\ Tokens(t) /\ sema[t] > 0
    BY <1>0, <1>1, <1>7 DEF Good, Calm, Step, SuspWake
  <2>2. \A d \in Tasks : ~On(d, t, {"clear", "needed", "unask"})
    BY <1>1, <2>1 DEF Calm, Tokens, TypeOK
  <2> QED
    BY <1>0, <1>1, <2>1, <2>2 DEF At, Step, Goto, SuspWake, Calm, On,
       Resuming, Own, TypeOK
<1> QED
  BY <1>1, <1>2, <1>3, <1>4, <1>5, <1>6, <1>7, StepInv DEF Good

LEMMA ResmInv ==
  ASSUME IInv, NEW c \in Tasks, NEW t \in Tasks, reqresm(c, t)
  PROVE  IInv'
<1>0. reqresm(c, t)
  OBVIOUS
<1>1. TypeOK /\ Good(t) /\ Reads(c) /\ (pc[c] \in Own => target[c] = c)
  BY DEF IInv
<1>2. Frame(c, t)
  BY <1>0, <1>1 DEF At, Goto, places, Call, reqresm, Frame, TypeOK, Own
<1>3. TypeOK'
  BY <1>0, <1>1 DEF At, Goto, places, Call, reqresm, TypeOK, Locations, Changes
<1>4. Reads(c)'
  BY <1>0, <1>1 DEF At, Goto, places, Call, reqresm, Reads, TypeOK, Changes
<1>5. ASSUME t \notin stale' PROVE Tokens(t)' /\ Delays(t)'
  <2>1. Tokens(t) /\ Delays(t) /\ t \notin stale
    BY <1>0, <1>1, <1>5 DEF Good, At, Goto, places, Call, reqresm
  <2>2. Tokens(t)'
    BY <1>0, <1>1, <2>1 DEF At, Goto, places, Call, reqresm, Tokens, Gives,
       Giving, Own, TypeOK
  <2>3. Delays(t)'
    BY <1>0, <1>1, <2>1 DEF At, Goto, places, Call, reqresm, Delays, Listed,
       On, Own, Tokens, Gives, Giving, TypeOK
  <2> QED
    BY <2>2, <2>3
<1>6. ASSUME t \notin stale' \cup early' PROVE Marks(t)'
  BY <1>0, <1>1, <1>6 DEF At, Goto, places, Call, reqresm, Good, Marks, On,
     Own, TypeOK
<1>7. ASSUME t \notin meddled' PROVE Calm(t)'
  BY <1>0, <1>1, <1>7 DEF At, Goto, places, Call, reqresm, Good, Calm, On,
     Resuming, Own, TypeOK
<1> QED
  BY <1>1, <1>2, <1>3, <1>4, <1>5, <1>6, <1>7, StepInv DEF Good

LEMMA TestInv ==
  ASSUME IInv, NEW c \in Tasks, ResmTest(c)
  PROVE  IInv'
<1>0. PICK t \in Tasks : t = target[c] /\ ResmTest(c)
  BY DEF IInv, TypeOK
<1>1. TypeOK /\ Good(t) /\ Reads(c) /\ (pc[c] \in Own => target[c] = c)
  BY DEF IInv
<1>2. Frame(c, t)
  BY <1>0, <1>1 DEF At, Goto, places, Step, ResmTest, Frame, TypeOK, Own
<1>3. TypeOK'
  BY <1>0, <1>1 DEF At, Goto, places, Step, ResmTest, TypeOK, Locations,
     Changes
<1>4. Reads(c)'
  BY <1>0, <1>1 DEF At, Goto, places, Step, ResmTest, Reads, TypeOK, Changes
<1>5. ASSUME t \notin stale' PROVE Tokens(t)' /\ Delays(t)'
  <2>1. Tokens(t) /\ Delays(t) /\ t \notin stale
    BY <1>0, <1>1, <1>5 DEF Good, At, Goto, places, Step, ResmTest
  <2>2. Tokens(t)'
    BY <1>0, <1>1, <2>1 DEF At, Goto, places, Step, ResmTest, Tokens, Gives,
       Giving, Own, TypeOK
  <2>3. Delays(t)'
    BY <1>0, <1>1, <2>1 DEF At, Goto, places, Step, ResmTest, Delays, Listed,
       On, Own, Tokens, Gives, Giving, TypeOK
  <2> QED
    BY <2>2, <2>3
<1>6. ASSUME t \notin stale' \cup early' PROVE Marks(t)'
  BY <1>0, <1>1, <1>6 DEF At, Goto, places, Step, ResmTest, Good, Marks, On,
     Own, TypeOK
<1>7. ASSUME t \notin meddled' PROVE Calm(t)'
  <2>1. Calm(t) /\ Tokens(t)
    BY <1>0, <1>1, <1>7 DEF Good, Calm, ResmTest
  <2>2. "suspended" \in status[t] => "needpost" \in status[t] /\ pc[t] = "asleep"
    BY <1>0, <1>7, <2>1 DEF ResmTest, Tokens
  <2> QED
    BY <1>0, <1>1, <2>1, <2>2 DEF At, Step, Goto, ResmTest, Calm, On,
       Resuming, Own, TypeOK
<1> QED
  BY <1>1, <1>2, <1>3, <1>4, <1>5, <1>6, <1>7, StepInv DEF Good

LEMMA NeededInv ==
  ASSUME IInv, NEW c \in Tasks, ResmNeeded(c)
  PROVE  IInv'
<1>0. PICK t \in Tasks : t = target[c] /\ ResmNeeded(c)
  BY DEF IInv, TypeOK
<1>1. TypeOK /\ Good(t) /\ Reads(c) /\ (pc[c] \in Own => target[c] = c)
  BY DEF IInv
<1>2. Frame(c, t)
  BY <1>0, <1>1 DEF At, Goto, places, Step, ResmNeeded, Frame, TypeOK, Own
<1>3. TypeOK'
  BY <1>0, <1>1 DEF At, Goto, places, Step, ResmNeeded, TypeOK, Locations,
     Changes
<1>4. Reads(c)'
  BY <1>0, <1>1 DEF At, Goto, places, Step, ResmNeeded, Reads, TypeOK, Changes
<1>5. ASSUME t \notin stale' PROVE Tokens(t)' /\ Delays(t)'
  <2>1. Tokens(t) /\ Delays(t) /\ t \notin stale
    BY <1>0, <1>1, <1>5 DEF Good, At, Goto, places, Step, ResmNeeded
  <2>2. Tokens(t)'
    BY <1>0, <1>1, <2>1 DEF At, Goto, places, Step, ResmNeeded, Tokens, Gives,
       Giving, Own, TypeOK
  <2>3. Delays(t)'
    BY <1>0, <1>1, <2>1 DEF At, Goto, places, Step, ResmNeeded, Delays,
       Listed, On, Own, Tokens, Gives, Giving, TypeOK
  <2> QED
    BY <2>2, <2>3
<1>6. ASSUME t \notin stale' \cup early' PROVE Marks(t)'
  BY <1>0, <1>1, <1>6 DEF At, Goto, places, Step, ResmNeeded, Good, Marks, On,
     Own, TypeOK
<1>7. ASSUME t \notin meddled' PROVE Calm(t)'
  BY <1>0, <1>1, <1>7 DEF At, Goto, places, Step, ResmNeeded, Good, Calm, On,
     Resuming, Own, TypeOK
<1> QED
  BY <1>1, <1>2, <1>3, <1>4, <1>5, <1>6, <1>7, StepInv DEF Good

LEMMA PostInv ==
  ASSUME IInv, NEW c \in Tasks, Post(c)
  PROVE  IInv'
<1>0. PICK t \in Tasks : t = target[c] /\ Post(c)
  BY DEF IInv, TypeOK
<1>1. TypeOK /\ Good(t) /\ Reads(c) /\ (pc[c] \in Own => target[c] = c)
  BY DEF IInv
<1>2. Frame(c, t)
  BY <1>0, <1>1 DEF At, Goto, places, Step, Posted, Post, Frame, TypeOK, Own
<1>3. TypeOK'
  <2>1. sema' \in [Tasks -> 0..SemMax]
    BY <1>0, <1>1, SuspendAssumption DEF Post, Posted, TypeOK
  <2> QED
    BY <1>0, <1>1, <2>1 DEF At, Step, Goto, places, Post, TypeOK, Locations,
       Changes
<1>4. Reads(c)'
  BY <1>0, <1>1 DEF At, Goto, places, Step, Posted, Post, Reads, TypeOK,
     Changes
<1>5. ASSUME t \notin stale' PROVE Tokens(t)' /\ Delays(t)'
  <2>1. Tokens(t) /\ Delays(t) /\ t \notin stale
    BY <1>0, <1>1, <1>5 DEF Good, At, Goto, places, Step, Posted, Post
  <2>2. Tokens(t)'
    BY <1>0, <1>1, <2>1 DEF At, Goto, places, Step, Posted, Post, Tokens,
       Gives, Giving, Own, TypeOK
  <2>3. Delays(t)'
    BY <1>0, <1>1, <2>1 DEF At, Goto, places, Step, Posted, Post, Delays,
       Listed, On, Own, Tokens, Gives, Giving, TypeOK
  <2> QED
    BY <2>2, <2>3
<1>6. ASSUME t \notin stale' \cup early' PROVE Marks(t)'
  <2>1. Tokens(t)
    BY <1>0, <1>1, <1>6 DEF Good, Post, Step
  <2>2. sema[t] = 0 /\ sema'[t] > 0
    BY <1>0, <1>1, <2>1, SuspendAssumption
       DEF Post, Step, At, Posted, Tokens, Gives, Giving, TypeOK
  <2>3. pc[t] = "ask" => "suspended" \in status[t]
    BY <1>0, <1>1, <1>6 DEF Good, Marks, Post, Step
  <2> QED
    BY <1>0, <1>1, <2>2, <2>3 DEF Post, Step, At, Goto, Marks, TypeOK
<1>7. ASSUME t \notin meddled' PROVE Calm(t)'
  BY <1>0, <1>1, <1>7 DEF At, Goto, places, Step, Posted, Post, Good, Calm,
     On, Resuming, Own, TypeOK
<1> QED
  BY <1>1, <1>2, <1>3, <1>4, <1>5, <1>6, <1>7, StepInv DEF Good

LEMMA AcptInv ==
  ASSUME IInv, NEW c \in Tasks, reqacpt(c)
  PROVE  IInv'
<1>0. PICK t \in Tasks : t = c /\ reqacpt(c)
  OBVIOUS
<1>1. TypeOK /\ Good(t) /\ Reads(c) /\ (pc[c] \in Own => target[c] = c)
  BY DEF IInv
<1>2. Frame(c, t)
  BY <1>0, <1>1 DEF At, Goto, places, Call, reqacpt, Frame, TypeOK, Own
<1>3. TypeOK'
  BY <1>0, <1>1 DEF At, Goto, places, Call, reqacpt, TypeOK, Locations, Changes
<1>4. Reads(c)'
  BY <1>0, <1>1 DEF At, Goto, places, Call, reqacpt, Reads, TypeOK, Changes
<1>5. ASSUME t \notin stale' PROVE Tokens(t)' /\ Delays(t)'
  <2>1. Tokens(t) /\ Delays(t) /\ t \notin stale
    BY <1>0, <1>1, <1>5 DEF Good, At, Goto, places, Call, reqacpt
  <2>2. Tokens(t)'
    BY <1>0, <1>1, <2>1 DEF At, Goto, places, Call, reqacpt, Tokens, Gives,
       Giving, Own, TypeOK
  <2>3. Delays(t)'
    BY <1>0, <1>1, <2>1 DEF At, Goto, places, Call, reqacpt, Delays, Listed,
       On, Own, Tokens, Gives, Giving, TypeOK
  <2> QED
    BY <2>2, <2>3
<1>6. ASSUME t \notin stale' \cup early' PROVE Marks(t)'
  BY <1>0, <1>1, <1>6 DEF At, Goto, places, Call, reqacpt, Good, Marks, On,
     Own, TypeOK
<1>7. ASSUME t \notin meddled' PROVE Calm(t)'
  BY <1>0, <1>1, <1>7 DEF At, Goto, places, Call, reqacpt, Good, Calm, On,
     Resuming, Own, TypeOK
<1> QED
  BY <1>1, <1>2, <1>3, <1>4, <1>5, <1>6, <1>7, StepInv DEF Good

LEMMA WaitInv ==
  ASSUME IInv, NEW c \in Tasks, NEW timed \in BOOLEAN, reqwait(c, timed)
  PROVE  IInv'
<1>0. PICK t \in Tasks : t = c /\ reqwait(c, timed)
  OBVIOUS
<1>1. TypeOK /\ Good(t) /\ Reads(c) /\ (pc[c] \in Own => target[c] = c)
  BY DEF IInv
<1>2. Frame(c, t)
  BY <1>0, <1>1 DEF At, Goto, places, Call, Outdated, reqwait, Frame, TypeOK,
     Own
<1>3. TypeOK'
  <2>1. OneOf(status'[t]) /\ status' \in [Tasks -> SUBSET Bits]
    BY <1>0, <1>1 DEF reqwait, Assign, TypeOK, OneOf, Bits
  <2>2. \A x \in Tasks : OneOf(status'[x]) /\ OneOf(reg'[x])
    BY <1>0, <1>1, <2>1 DEF reqwait, Assign, Call, TypeOK
  <2> QED
    BY <1>0, <1>1, <2>1, <2>2 DEF At, Call, Assign, Goto, places, reqwait,
       TypeOK, Locations, Changes
<1>4. Reads(c)'
  BY <1>0, <1>1 DEF At, Goto, places, Call, Outdated, reqwait, Reads, TypeOK,
     Changes
<1>5. ASSUME t \notin stale' PROVE Tokens(t)' /\ Delays(t)'
  <2>1. Tokens(t) /\ Delays(t) /\ t \notin stale
    BY <1>0, <1>1, <1>5 DEF Good, At, Goto, places, Call, Outdated, reqwait
  <2>2. Tokens(t)'
    BY <1>0, <1>1, <2>1 DEF At, Goto, places, Call, Outdated, reqwait, Tokens,
       Gives, Giving, Own, TypeOK
  <2>3. Delays(t)'
    BY <1>0, <1>1, <2>1 DEF At, Goto, places, Call, Outdated, reqwait, Delays,
       Listed, On, Own, Tokens, Gives, Giving, TypeOK
  <2> QED
    BY <2>2, <2>3
<1>6. ASSUME t \notin stale' \cup early' PROVE Marks(t)'
  BY <1>0, <1>1, <1>6 DEF At, Goto, places, Call, Outdated, reqwait, Good,
     Marks, On, Own, TypeOK
<1>7. ASSUME t \notin meddled' PROVE Calm(t)'
  <2>1. Calm(t) /\ t \notin meddled /\ pc[t] \notin {"asleep", "blocked"} /\ ~loaded[t]
    BY <1>0, <1>1, <1>7 DEF Good, Calm, At, Call, Assign, reqwait
  <2>2. \A d \in Tasks \ {t} : target[d] = t =>
          ~loaded[d] /\ pc[d] \notin {"clear", "needed", "unask"}
    BY <2>1, NobodyReads
  <2>3. \A d \in Tasks \ {t} : pc'[d] = pc[d] /\ target'[d] = target[d] /\ loaded'[d] = loaded[d]
    BY <1>0, <1>2 DEF Frame
  <2>4. pc'[t] \in {"blocked", "exit", "user"} /\ ~loaded'[t] /\ stale' = stale
    BY <1>0, <1>1, <2>1 DEF At, Call, Assign, Goto, reqwait, TypeOK
  <2> QED
    BY <2>1, <2>2, <2>3, <2>4 DEF Calm, On, Resuming
<1> QED
  BY <1>1, <1>2, <1>3, <1>4, <1>5, <1>6, <1>7, StepInv DEF Good

LEMMA WaitWakeInv ==
  ASSUME IInv, NEW c \in Tasks, WaitWake(c)
  PROVE  IInv'
<1>0. PICK t \in Tasks : t = c /\ WaitWake(c)
  OBVIOUS
<1>1. TypeOK /\ Good(t) /\ Reads(c) /\ (pc[c] \in Own => target[c] = c)
  BY DEF IInv
<1>2. Frame(c, t)
  BY <1>0, <1>1 DEF At, Goto, places, Step, WaitWake, Frame, TypeOK, Own
<1>3. TypeOK'
  <2>1. sema' \in [Tasks -> 0..SemMax]
    BY <1>0, <1>1, SuspendAssumption DEF WaitWake, Posted, TypeOK
  <2> QED
    BY <1>0, <1>1, <2>1 DEF At, Step, Goto, places, WaitWake, TypeOK,
       Locations, Changes
<1>4. Reads(c)'
  BY <1>0, <1>1 DEF At, Goto, places, Step, WaitWake, Reads, TypeOK, Changes
<1>5. ASSUME t \notin stale' PROVE Tokens(t)' /\ Delays(t)'
  <2>1. Tokens(t) /\ Delays(t) /\ t \notin stale
    BY <1>0, <1>1, <1>5 DEF Good, At, Goto, places, Step, WaitWake
  <2>2. Tokens(t)'
    <3>1. sema[t] = 1 /\ pc[t] = "blocked" /\ sema'[t] = 0 /\ pc'[t] = "reset"
      BY <1>0, <1>1, <2>1 DEF WaitWake, Step, At, Goto, Tokens, TypeOK
    <3>2. t \notin queue /\ t \notin list /\ "needpost" \notin status[t]
          /\ \A d \in Tasks : ~Gives(d, t)
      BY <2>1, <3>1 DEF Tokens, Delays
    <3>3. \A d \in Tasks : ~Gives(d, t)'
      BY <1>0, <1>1, <3>2 DEF WaitWake, Step, Goto, Gives, Giving, TypeOK
    <3> QED
      BY <1>0, <3>1, <3>2, <3>3 DEF WaitWake, Step, places, Tokens
  <2>3. Delays(t)'
    BY <1>0, <1>1, <2>1 DEF At, Goto, places, Step, WaitWake, Delays, Listed,
       On, Own, Tokens, Gives, Giving, TypeOK
  <2> QED
    BY <2>2, <2>3
<1>6. ASSUME t \notin stale' \cup early' PROVE Marks(t)'
  BY <1>0, <1>1, <1>6 DEF At, Goto, places, Step, WaitWake, Good, Marks, On,
     Own, TypeOK
<1>7. ASSUME t \notin meddled' PROVE Calm(t)'
  <2>1. Calm(t) /\ Tokens(t) /\ sema[t] > 0
    BY <1>0, <1>1, <1>7 DEF Good, Calm, Step, WaitWake
  <2>2. \A d \in Tasks : ~On(d, t, {"clear", "needed", "unask"})
    BY <1>1, <2>1 DEF Calm, Tokens, TypeOK
  <2> QED
    BY <1>0, <1>1, <2>1, <2>2 DEF At, Step, Goto, WaitWake, Calm, On,
       Resuming, Own, TypeOK
<1> QED
  BY <1>1, <1>2, <1>3, <1>4, <1>5, <1>6, <1>7, StepInv DEF Good

LEMMA ResetInv ==
  ASSUME IInv, NEW c \in Tasks, WaitReset(c)
  PROVE  IInv'
<1>0. PICK t \in Tasks : t = c /\ WaitReset(c)
  OBVIOUS
<1>1. TypeOK /\ Good(t) /\ Reads(c) /\ (pc[c] \in Own => target[c] = c)
  BY DEF IInv
<1>2. Frame(c, t)
  BY <1>0, <1>1 DEF At, Goto, places, Assign, Outdated, WaitReset, Frame,
     TypeOK, Own
<1>3. TypeOK'
  <2>1. OneOf(status'[t]) /\ status' \in [Tasks -> SUBSET Bits]
    BY <1>0, <1>1 DEF WaitReset, Assign, TypeOK, OneOf, Bits
  <2>2. \A x \in Tasks : OneOf(status'[x]) /\ OneOf(reg'[x])
    BY <1>0, <1>1, <2>1 DEF WaitReset, Assign, Call, TypeOK
  <2> QED
    BY <1>0, <1>1, <2>1, <2>2 DEF At, Call, Assign, Goto, places, WaitReset,
       TypeOK, Locations, Changes
<1>4. Reads(c)'
  BY <1>0, <1>1 DEF At, Goto, places, Assign, Outdated, WaitReset, Reads,
     TypeOK, Changes
<1>5. ASSUME t \notin stale' PROVE Tokens(t)' /\ Delays(t)'
  <2>1. Tokens(t) /\ Delays(t) /\ t \notin stale
    BY <1>0, <1>1, <1>5 DEF Good, At, Goto, places, Assign, Outdated, WaitReset
  <2>2. Tokens(t)'
    BY <1>0, <1>1, <2>1 DEF At, Goto, places, Assign, Outdated, WaitReset,
       Tokens, Gives, Giving, Own, TypeOK
  <2>3. Delays(t)'
    BY <1>0, <1>1, <2>1 DEF At, Goto, places, Assign, Outdated, WaitReset,
       Delays, Listed, On, Own, Tokens, Gives, Giving, TypeOK
  <2> QED
    BY <2>2, <2>3
<1>6. ASSUME t \notin stale' \cup early' PROVE Marks(t)'
  BY <1>0, <1>1, <1>6 DEF At, Goto, places, Assign, Outdated, WaitReset, Good,
     Marks, On, Own, TypeOK
<1>7. ASSUME t \notin meddled' PROVE Calm(t)'
  <2>1. Calm(t) /\ t \notin meddled /\ pc[t] \notin {"asleep", "blocked"} /\ ~loaded[t]
    BY <1>0, <1>1, <1>7 DEF Good, Calm, At, Call, Assign, WaitReset
  <2>2. \A d \in Tasks \ {t} : target[d] = t =>
          ~loaded[d] /\ pc[d] \notin {"clear", "needed", "unask"}
    BY <2>1, NobodyReads
  <2>3. \A d \in Tasks \ {t} : pc'[d] = pc[d] /\ target'[d] = target[d] /\ loaded'[d] = loaded[d]
    BY <1>0, <1>2 DEF Frame
  <2>4. pc'[t] \in {"blocked", "exit", "user"} /\ ~loaded'[t] /\ stale' = stale
    BY <1>0, <1>1, <2>1 DEF At, Call, Assign, Goto, WaitReset, TypeOK
  <2> QED
    BY <2>1, <2>2, <2>3, <2>4 DEF Calm, On, Resuming
<1> QED
  BY <1>1, <1>2, <1>3, <1>4, <1>5, <1>6, <1>7, StepInv DEF Good

LEMMA ExitInv ==
  ASSUME IInv, NEW c \in Tasks, exit_region(c)
  PROVE  IInv'
<1>0. PICK t \in Tasks : t = c /\ exit_region(c)
  OBVIOUS
<1>1. TypeOK /\ Good(t) /\ Reads(c) /\ (pc[c] \in Own => target[c] = c)
  BY DEF IInv
<1>2. Frame(c, t)
  BY <1>0, <1>1 DEF At, Goto, places, Assign, Outdated, exit_region, Frame,
     TypeOK, Own
<1>3. TypeOK'
  <2>1. OneOf(status'[t]) /\ status' \in [Tasks -> SUBSET Bits]
    BY <1>0, <1>1 DEF exit_region, Assign, TypeOK, OneOf, Bits
  <2>2. \A x \in Tasks : OneOf(status'[x]) /\ OneOf(reg'[x])
    BY <1>0, <1>1, <2>1 DEF exit_region, Assign, Call, TypeOK
  <2> QED
    BY <1>0, <1>1, <2>1, <2>2 DEF At, Call, Assign, Goto, places, exit_region,
       TypeOK, Locations, Changes
<1>4. Reads(c)'
  BY <1>0, <1>1 DEF At, Goto, places, Assign, Outdated, exit_region, Reads,
     TypeOK, Changes
<1>5. ASSUME t \notin stale' PROVE Tokens(t)' /\ Delays(t)'
  <2>1. Tokens(t) /\ Delays(t) /\ t \notin stale
    BY <1>0, <1>1, <1>5 DEF Good, At, Goto, places, Assign, Outdated,
       exit_region
  <2>2. Tokens(t)'
    BY <1>0, <1>1, <2>1 DEF At, Goto, places, Assign, Outdated, exit_region,
       Tokens, Gives, Giving, Own, TypeOK
  <2>3. Delays(t)'
    BY <1>0, <1>1, <2>1 DEF At, Goto, places, Assign, Outdated, exit_region,
       Delays, Listed, On, Own, Tokens, Gives, Giving, TypeOK
  <2> QED
    BY <2>2, <2>3
<1>6. ASSUME t \notin stale' \cup early' PROVE Marks(t)'
  BY <1>0, <1>1, <1>6 DEF At, Goto, places, Assign, Outdated, exit_region,
     Good, Marks, On, Own, TypeOK
<1>7. ASSUME t \notin meddled' PROVE Calm(t)'
  <2>1. Calm(t) /\ t \notin meddled /\ pc[t] \notin {"asleep", "blocked"} /\ ~loaded[t]
    BY <1>0, <1>1, <1>7 DEF Good, Calm, At, Call, Assign, exit_region
  <2>2. \A d \in Tasks \ {t} : target[d] = t =>
          ~loaded[d] /\ pc[d] \notin {"clear", "needed", "unask"}
    BY <2>1, NobodyReads
  <2>3. \A d \in Tasks \ {t} : pc'[d] = pc[d] /\ target'[d] = target[d] /\ loaded'[d] = loaded[d]
    BY <1>0, <1>2 DEF Frame
  <2>4. pc'[t] \in {"blocked", "exit", "user"} /\ ~loaded'[t] /\ stale' = stale
    BY <1>0, <1>1, <2>1 DEF At, Call, Assign, Goto, exit_region, TypeOK
  <2> QED
    BY <2>1, <2>2, <2>3, <2>4 DEF Calm, On, Resuming
<1> QED
  BY <1>1, <1>2, <1>3, <1>4, <1>5, <1>6, <1>7, StepInv DEF Good

LEMMA SendInv ==
  ASSUME IInv, NEW c \in Tasks, NEW t \in Tasks, reqsend(c, t)
  PROVE  IInv'
<1>0. reqsend(c, t)
  OBVIOUS
<1>1. TypeOK /\ Good(t) /\ Reads(c) /\ (pc[c] \in Own => target[c] = c)
  BY DEF IInv
<1>2. Frame(c, t)
  BY <1>0, <1>1 DEF At, Goto, places, Call, reqsend, Frame, TypeOK, Own
<1>3. TypeOK'
  BY <1>0, <1>1 DEF At, Goto, places, Call, reqsend, TypeOK, Locations, Changes
<1>4. Reads(c)'
  BY <1>0, <1>1 DEF At, Goto, places, Call, reqsend, Reads, TypeOK, Changes
<1>5. ASSUME t \notin stale' PROVE Tokens(t)' /\ Delays(t)'
  <2>1. Tokens(t) /\ Delays(t) /\ t \notin stale
    BY <1>0, <1>1, <1>5 DEF Good, At, Goto, places, Call, reqsend
  <2>2. Tokens(t)'
    BY <1>0, <1>1, <2>1 DEF At, Goto, places, Call, reqsend, Tokens, Gives,
       Giving, Own, TypeOK
  <2>3. Delays(t)'
    BY <1>0, <1>1, <2>1 DEF At, Goto, places, Call, reqsend, Delays, Listed,
       On, Own, Tokens, Gives, Giving, TypeOK
  <2> QED
    BY <2>2, <2>3
<1>6. ASSUME t \notin stale' \cup early' PROVE Marks(t)'
  BY <1>0, <1>1, <1>6 DEF At, Goto, places, Call, reqsend, Good, Marks, On,
     Own, TypeOK
<1>7. ASSUME t \notin meddled' PROVE Calm(t)'
  BY <1>0, <1>1, <1>7 DEF At, Goto, places, Call, reqsend, Good, Calm, On,
     Resuming, Own, TypeOK
<1> QED
  BY <1>1, <1>2, <1>3, <1>4, <1>5, <1>6, <1>7, StepInv DEF Good

LEMMA TimedInv ==
  ASSUME IInv, NEW c \in Tasks, SendTimed(c)
  PROVE  IInv'
<1>0. PICK t \in Tasks : t = target[c] /\ SendTimed(c)
  BY DEF IInv, TypeOK
<1>1. TypeOK /\ Good(t) /\ Reads(c) /\ (pc[c] \in Own => target[c] = c)
  BY DEF IInv
<1>2. Frame(c, t)
  BY <1>0, <1>1 DEF At, Goto, places, Step, SendTimed, Frame, TypeOK, Own
<1>3. TypeOK'
  BY <1>0, <1>1 DEF At, Goto, places, Step, SendTimed, TypeOK, Locations,
     Changes
<1>4. Reads(c)'
  BY <1>0, <1>1 DEF At, Goto, places, Step, SendTimed, Reads, TypeOK, Changes
<1>5. ASSUME t \notin stale' PROVE Tokens(t)' /\ Delays(t)'
  <2>1. Tokens(t) /\ Delays(t) /\ t \notin stale
    BY <1>0, <1>1, <1>5 DEF Good, At, Goto, places, Step, SendTimed
  <2>2. Tokens(t)'
    BY <1>0, <1>1, <2>1 DEF At, Goto, places, Step, SendTimed, Tokens, Gives,
       Giving, Own, TypeOK
  <2>3. Delays(t)'
    BY <1>0, <1>1, <2>1 DEF At, Goto, places, Step, SendTimed, Delays, Listed,
       On, Own, Tokens, Gives, Giving, TypeOK
  <2> QED
    BY <2>2, <2>3
<1>6. ASSUME t \notin stale' \cup early' PROVE Marks(t)'
  BY <1>0, <1>1, <1>6 DEF At, Goto, places, Step, SendTimed, Good, Marks, On,
     Own, TypeOK
<1>7. ASSUME t \notin meddled' PROVE Calm(t)'
  BY <1>0, <1>1, <1>7 DEF At, Goto, places, Step, SendTimed, Good, Calm, On,
     Resuming, Own, TypeOK
<1> QED
  BY <1>1, <1>2, <1>3, <1>4, <1>5, <1>6, <1>7, StepInv DEF Good

LEMMA CancelInv ==
  ASSUME IInv, NEW c \in Tasks, SendCancel(c)
  PROVE  IInv'
<1>0. PICK t \in Tasks : t = target[c] /\ SendCancel(c)
  BY DEF IInv, TypeOK
<1>1. TypeOK /\ Good(t) /\ Reads(c) /\ (pc[c] \in Own => target[c] = c)
  BY DEF IInv
<1>2. Frame(c, t)
  BY <1>0, <1>1 DEF At, Goto, places, Step, SendCancel, Frame, TypeOK, Own
<1>3. TypeOK'
  BY <1>0, <1>1 DEF At, Goto, places, Step, SendCancel, TypeOK, Locations,
     Changes
<1>4. Reads(c)'
  BY <1>0, <1>1 DEF At, Goto, places, Step, SendCancel, Reads, TypeOK, Changes
<1>5. ASSUME t \notin stale' PROVE Tokens(t)' /\ Delays(t)'
  <2>1. Tokens(t) /\ Delays(t) /\ t \notin stale
    BY <1>0, <1>1, <1>5 DEF Good, At, Goto, places, Step, SendCancel
  <2>2. Tokens(t)'
    BY <1>0, <1>1, <2>1 DEF At, Goto, places, Step, SendCancel, Tokens, Gives,
       Giving, Own, TypeOK
  <2>3. Delays(t)'
    BY <1>0, <1>1, <2>1 DEF At, Goto, places, Step, SendCancel, Delays,
       Listed, On, Own, Tokens, Gives, Giving, TypeOK
  <2> QED
    BY <2>2, <2>3
<1>6. ASSUME t \notin stale' \cup early' PROVE Marks(t)'
  BY <1>0, <1>1, <1>6 DEF At, Goto, places, Step, SendCancel, Good, Marks, On,
     Own, TypeOK
<1>7. ASSUME t \notin meddled' PROVE Calm(t)'
  BY <1>0, <1>1, <1>7 DEF At, Goto, places, Step, SendCancel, Good, Calm, On,
     Resuming, Own, TypeOK
<1> QED
  BY <1>1, <1>2, <1>3, <1>4, <1>5, <1>6, <1>7, StepInv DEF Good

-----------------------------------------------------------------------------
LEMMA NextInv ==
  ASSUME IInv, Next
  PROVE  IInv'
<1>1. ASSUME NEW c \in Tasks, Inside(c) PROVE IInv'
  BY <1>1, MarkInv, AskInv, SuspWakeInv, SuspClearInv, TestInv, ClearInv,
     NeededInv, UnaskInv, WaitWakeInv, ResetInv, ExitInv, UnwaitInv, TimedInv,
     CancelInv, UndelayInv, PostInv DEF Inside
<1>2. ASSUME NEW c \in Tasks, reqacpt(c) PROVE IInv'
  BY <1>2, AcptInv
<1>3. ASSUME NEW c \in Tasks, NEW timed \in BOOLEAN, reqwait(c, timed)
      PROVE  IInv'
  BY <1>3, WaitInv
<1>4. ASSUME NEW c \in Tasks, NEW t \in Tasks,
             reqsusp(c, t) \/ reqresm(c, t) \/ reqsend(c, t)
      PROVE  IInv'
  BY <1>4, SuspInv, ResmInv, SendInv
<1> QED
  BY <1>1, <1>2, <1>3, <1>4 DEF Next

(* IInv holds in every state of every program: whichever tasks suspend and *)
(* resume each other, in whatever order (ycore.c:903-949, 1041-1098,       *)
(* 1122-1221).                                                             *)
THEOREM SuspendInvariance == Spec => []IInv
<1>1. Init => IInv
  <2> SUFFICES ASSUME Init PROVE IInv
    OBVIOUS
  <2>1. TypeOK
    <3>1. OneOf({}) /\ OneOf({"running"}) /\ {"running"} \in SUBSET Bits
      BY DEF OneOf, Bits
    <3>2. 0 \in 0..SemMax
      BY SuspendAssumption
    <3> QED
      BY <3>1, <3>2 DEF Init, TypeOK, Locations
  <2>2. ASSUME NEW t \in Tasks PROVE Good(t) /\ Reads(t) /\ (pc[t] \in Own => target[t] = t)
    BY DEF Init, Good, Tokens, Delays, Marks, Calm, Reads, Own, Gives, Giving,
       On,
           Resuming
  <2> QED
    BY <2>1, <2>2 DEF IInv
<1>2. IInv /\ UNCHANGED vars => IInv'
  BY DEF vars, program, places, history, IInv, TypeOK, OneOf, Good, Tokens,
     Delays,
         Listed, Marks, Calm, Reads, Gives, On
<1> QED
  BY <1>1, <1>2, NextInv, PTL DEF Spec

(* The type invariant.                                                     *)
THEOREM TypeCorrect == Spec => []TypeOK
<1>1. IInv => TypeOK
  BY DEF IInv
<1> QED
  BY <1>1, SuspendInvariance, PTL

(* No change of a status bit is lost, however reqsusp, reqresm, reqwait    *)
(* and reqsend overlap, but of a task that another suspended, that two     *)
(* resumed at once, or that was resumed before it had asked for its post.  *)
THEOREM ChangesKept == Spec => []NothingLost
<1>1. IInv => NothingLost
  BY DEF IInv, Good, Calm, Reads, NothingLost, TypeOK
<1> QED
  BY <1>1, SuspendInvariance, PTL

(* However often and in whatever order tasks are suspended and resumed, a  *)
(* post comes only for a task that sleeps, once, and to reqwait only from  *)
(* a sender, as long as the task's status was not changed after a reading  *)
(* that was stale.                                                         *)
THEOREM PostsDeserved == Spec => []WakesDeserved
<1>1. IInv => WakesDeserved
  BY DEF IInv, Good, Tokens, WakesDeserved
<1> QED
  BY <1>1, SuspendInvariance, PTL

(* reqsend takes a task out of the delay list only when it is there, but   *)
(* for one that another suspended in its wait, or whose status is stale.   *)
THEOREM CancelsListed == Spec => []OnlyListedCancelled
<1>1. IInv => OnlyListedCancelled
  <2> SUFFICES ASSUME IInv, NEW c \in Tasks, pc[c] = "cancel",
                      target[c] \notin stale \cup marked
               PROVE  target[c] \in list
    BY DEF OnlyListedCancelled
  <2>1. PICK t \in Tasks : t = target[c]
    BY DEF IInv, TypeOK
  <2> QED
    BY <2>1 DEF IInv, Good, Delays, On
<1> QED
  BY <1>1, SuspendInvariance, PTL

(* A task that suspended itself can be resumed, or is being resumed, but   *)
(* for one whose mark was cleared in the window of ycore.c:910-915, or     *)
(* whose status is stale.                                                  *)
THEOREM SleepersResumable == Spec => []Resumable
<1>1. IInv => Resumable
  BY DEF IInv, Good, Marks, On, Resumable
<1> QED
  BY <1>1, SuspendInvariance, PTL
=============================================================================
