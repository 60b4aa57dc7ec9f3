--------------------------- MODULE NucleusProofs ----------------------------
(***************************************************************************)
(* The safety of the single-processor nucleus, for any tasks, priorities,  *)
(* exchanges, messages and delays.  What is proved of messages holds of    *)
(* any program, the rest of those in which tasks suspend only themselves   *)
(* (Suspenders is empty): a task that another suspends while it is marked  *)
(* as interrupted goes to the suspend list for good.                       *)
(***************************************************************************)
EXTENDS Nucleus, DeltasProofs, FiniteSetTheorems

-----------------------------------------------------------------------------
(* The inductive invariant, for tasks that suspend only themselves.        *)
Ahead(s, c) == \A i, j \in 1..Len(s) : s[j] = c /\ i < j => Prio[s[i]] < Prio[c]

Ordered(s) ==
  /\ s # << >> /\ s[Len(s)] = Idle
  /\ IsInjective(s)
  /\ \A i, j \in 1..Len(s) : i < j => Prio[s[i]] <= Prio[s[j]]

(* Both ready lists are sorted and end with the idle task, all that they   *)
(* share.                                                                  *)
Readies ==
  /\ Ordered(lists.ready)
  /\ rqfrozen => Ordered(saved.ready) /\ saved.actv \in Existing
  /\ ~rqfrozen => saved.ready = << >>
  /\ Range(lists.ready) \cap Range(saved.ready) \subseteq {Idle}

(* A task's status tells where it is, and the lists hold nobody else.      *)
Kinds == {{}, {"maskint"}, {"suspended"}, {"waiting"}, {"delayed"}}
Placed(t) ==
  /\ t \in Existing => status[t] \in Kinds /\ (Blocked(t) => exchange[t] # NULL)
  /\ t \in Range(lists.ready) \cup Range(saved.ready)
       <=> t \in Existing /\ status[t] \subseteq {"maskint"}
  /\ t \in Range(dl.seq) <=> t \in Existing /\ "delayed" \in status[t]
  /\ \A e \in AllExchanges :
       t \in Range(taskq[e]) <=> t \in Existing /\ Blocked(t) /\ exchange[t] = e
Places ==
  /\ \A t \in AllTasks : Placed(t)
  /\ \A e \in AllExchanges : IsInjective(taskq[e])

(* So do the suspended ones, until a stale tail has been written through.  *)
Listed(t) ==
  t \in Range(lists.susp.seq) <=> t \in Existing /\ status[t] = {"suspended"}
Suspended ==
  Intact => IsInjective(lists.susp.seq) /\ \A t \in AllTasks : Listed(t)

(* Where the processor is, and whom an interrupt has stopped: only tasks   *)
(* more urgent than that one have come before it.                          *)
Marked(t) == "maskint" \in status[t]
Processor ==
  /\ region \in {"out", "freeze"} =>
       rqactv = Head(lists.ready) /\ ~Marked(rqactv)
  /\ region = "freeze" => ~rqfrozen
  /\ index > 0 => region = "exit"
  /\ ~Intact => region = "exit" /\ index = 0
  /\ \A t \in stacks : "deleted" \in status[t] =>
       t = rqactv /\ region \in {"exit", "leave"}
  /\ cpu = rqactv /\ Marked(cpu) =>
       cpu \in Range(lists.ready) /\ Ahead(lists.ready, cpu)

(* The delay list.                                                         *)
Timed ==
  /\ IsList(dl.seq, dl.delay, Tasks, Never)
  /\ ~dl.stray
  /\ \A t \in Range(dl.seq) : left[t] <= Never

(* The messages.                                                           *)
Mail ==
  /\ \A e \in AllExchanges : msgq[e] = << >> \/ taskq[e] = << >>
  /\ \A m \in AllMessages :
       link[m] = Chained <=> \E e \in AllExchanges : m \in Range(msgq[e])
  /\ \A e \in AllExchanges : IsInjective(msgq[e])
  /\ \A d, e \in AllExchanges : \A m \in Range(msgq[d]) \cap Range(msgq[e]) : d = e
  /\ \A e \in AllExchanges : \A x \in Range(msgq[e]) \cap IntExchanges : x = e

(* The types of what these speak of.                                       *)
Types ==
  /\ lists \in [ready : Seq(AllTasks), susp : List(Tasks)]
  /\ taskl \in List(AllTasks) /\ stacks \subseteq AllTasks
  /\ rqactv \in AllTasks /\ cpu \in AllTasks
  /\ region \in {"out", "exit", "leave", "freeze", "delay"}
  /\ status \in [AllTasks -> SUBSET Bits]
  /\ exchange \in [AllTasks -> AllExchanges \cup {NULL}]
  /\ dl \in [seq : Seq(Tasks), delay : [Tasks -> 0..Never], stray : BOOLEAN]
  /\ rqfrozen \in BOOLEAN
  /\ saved \in [ready : Seq(AllTasks), actv : AllTasks \cup {NULL}]
  /\ taskq \in [AllExchanges -> Seq(AllTasks)]
  /\ index \in Nat

(* What the tasks' stack pointers point to.                                *)
Contexts == context \in [AllTasks -> AllTasks]

SInv == Types /\ Readies /\ Places /\ Suspended /\ Processor /\ Timed
-----------------------------------------------------------------------------
(* What the helpers on lists do.                                           *)
LEMMA MinFacts ==
  ASSUME NEW I, I \subseteq Nat, I # {}
  PROVE  Min(I) \in I /\ \A i \in I : Min(I) <= i
<1>1. PICK x \in I : \A y \in I : <<y, x>> \notin Less
  <2>1. OpToRel(<, Nat) = Less
    BY DEF OpToRel, Less
  <2>2. IsWellFoundedOn(Less, Nat)
    BY <2>1, NatLessThanWellFounded
  <2> QED
    BY <2>2, WFMin
<1>2. ASSUME NEW y \in I PROVE x <= y
  <2>1. x \in Nat /\ y \in Nat
    OBVIOUS
  <2>2. y < x => <<y, x>> \in Less
    BY <2>1 DEF Less
  <2> QED
    BY <1>1, <2>1, <2>2
<1> QED
  BY <1>1, <1>2 DEF Min

(* The first of s for which a test holds, given the places where it does.  *)
LEMMA FirstOf ==
  ASSUME NEW s, NEW I, I \subseteq 1..Len(s), I # {}, Len(s) \in Nat,
         NEW k, k = IF I # {} THEN Min(I) ELSE 0
  PROVE  k \in I /\ \A j \in 1..Len(s) : j < k => j \notin I
<1>1. I \subseteq Nat
  OBVIOUS
<1>2. k \in I /\ \A i \in I : k <= i
  BY <1>1, MinFacts
<1> QED
  BY <1>2

LEMMA WhereFacts ==
  ASSUME NEW s, NEW S, s \in Seq(S), NEW t \in Range(s)
  PROVE  LET k == SelectInSeq(s, LAMBDA u : u = t)
         IN k \in 1..Len(s) /\ s[k] = t /\ \A j \in 1..Len(s) : j < k => s[j] # t
<1> DEFINE I == {i \in 1..Len(s) : s[i] = t}
           k == SelectInSeq(s, LAMBDA u : u = t)
<1>1. Len(s) \in Nat /\ I \subseteq 1..Len(s) /\ I # {}
  BY DEF Range
<1>2. k = IF I # {} THEN Min(I) ELSE 0
  BY DEF SelectInSeq
<1>3. k \in I /\ \A j \in 1..Len(s) : j < k => j \notin I
  <2> HIDE DEF k, I
  <2> QED
    BY <1>1, <1>2, FirstOf
<1> QED
  BY <1>3

LEMMA RemoveFirstFacts ==
  ASSUME NEW S, NEW s \in Seq(S), IsInjective(s), NEW t
  PROVE  /\ RemoveFirst(s, t) \in Seq(S)
         /\ IsInjective(RemoveFirst(s, t))
         /\ Range(RemoveFirst(s, t)) = Range(s) \ {t}
         /\ Len(RemoveFirst(s, t)) \in Nat
         /\ t \in Range(s) => Len(RemoveFirst(s, t)) = Len(s) - 1
         /\ \A i, j \in 1..Len(RemoveFirst(s, t)) :
              \E a, b \in 1..Len(s) : /\ RemoveFirst(s, t)[i] = s[a]
                                      /\ RemoveFirst(s, t)[j] = s[b]
                                      /\ i < j => a < b
<1>1. CASE t \notin Range(s)
  <2>1. RemoveFirst(s, t) = s
    BY <1>1 DEF RemoveFirst, Range
  <2> QED
    BY <1>1, <2>1
<1>2. CASE t \in Range(s)
  <2> DEFINE p == SelectInSeq(s, LAMBDA u : u = t)
             r == RemoveAt(s, p)
  <2>1. p \in 1..Len(s) /\ s[p] = t
    BY <1>2, WhereFacts
  <2>2. RemoveFirst(s, t) = r
    BY <1>2 DEF RemoveFirst, Range
  <2> HIDE DEF p
  <2>3. /\ r \in Seq(S) /\ Len(r) = Len(s) - 1
        /\ \A i \in 1..Len(s) - 1 : r[i] = IF i < p THEN s[i] ELSE s[i + 1]
    BY <2>1, RemoveAtFacts
  <2> HIDE DEF r
  <2> DEFINE to(i) == IF i < p THEN i ELSE i + 1
  <2>4. Len(s) \in Nat /\ DOMAIN s = 1..Len(s) /\ DOMAIN r = 1..Len(r)
    BY <2>3
  <2>5. \A i \in 1..Len(r) : to(i) \in 1..Len(s) /\ to(i) # p /\ r[i] = s[to(i)]
    BY <2>1, <2>3, <2>4
  <2>6. \A i, j \in 1..Len(r) : i < j => to(i) < to(j)
    BY <2>1, <2>3, <2>4
  <2>7. IsInjective(r)
    <3>1. ASSUME NEW i \in 1..Len(r), NEW j \in 1..Len(r), r[i] = r[j] PROVE i = j
      <4>1. to(i) = to(j)
        BY <2>4, <2>5, <3>1 DEF IsInjective
      <4> QED
        BY <2>1, <2>3, <2>4, <4>1
    <3> QED
      BY <2>4, <3>1 DEF IsInjective
  <2>8. \A k \in 1..Len(s) : k # p => \E i \in 1..Len(r) : to(i) = k
    <3> SUFFICES ASSUME NEW k \in 1..Len(s), k # p
                 PROVE  \E i \in 1..Len(r) : to(i) = k
      OBVIOUS
    <3>1. CASE k < p
      BY <2>1, <2>3, <2>4, <3>1
    <3>2. CASE k > p
      <4>1. k - 1 \in 1..Len(r) /\ to(k - 1) = k
        BY <2>1, <2>3, <2>4, <3>2
      <4> QED
        BY <4>1
    <3> QED
      BY <2>1, <2>4, <3>1, <3>2
  <2>9. Range(r) = Range(s) \ {t}
    <3>1. \A i \in 1..Len(r) : r[i] \in Range(s) /\ r[i] # t
      BY <2>1, <2>4, <2>5 DEF IsInjective, Range
    <3>2. ASSUME NEW x \in Range(s), x # t PROVE x \in Range(r)
      <4>1. PICK k \in 1..Len(s) : s[k] = x
        BY <2>4 DEF Range
      <4>2. PICK i \in 1..Len(r) : to(i) = k
        BY <2>1, <2>8, <3>2, <4>1
      <4> QED
        BY <2>4, <2>5, <4>1, <4>2 DEF Range
    <3> QED
      BY <2>4, <3>1, <3>2 DEF Range
  <2>10. \A i, j \in 1..Len(r) :
           \E a, b \in 1..Len(s) : r[i] = s[a] /\ r[j] = s[b] /\ (i < j => a < b)
    <3> SUFFICES ASSUME NEW i \in 1..Len(r), NEW j \in 1..Len(r)
                 PROVE  \E a, b \in 1..Len(s) :
                          r[i] = s[a] /\ r[j] = s[b] /\ (i < j => a < b)
      OBVIOUS
    <3> QED
      BY <2>5, <2>6
  <2> QED
    BY <1>2, <2>2, <2>3, <2>4, <2>7, <2>9, <2>10
<1> QED
  BY <1>1, <1>2

LEMMA TailFacts ==
  ASSUME NEW S, NEW s \in Seq(S), IsInjective(s), s # << >>
  PROVE  /\ Tail(s) \in Seq(S) /\ Len(Tail(s)) = Len(s) - 1
         /\ \A i \in 1..Len(s) - 1 : Tail(s)[i] = s[i + 1]
         /\ IsInjective(Tail(s))
         /\ Head(s) = s[1] /\ Head(s) \in Range(s) /\ Head(s) \in S
         /\ Range(Tail(s)) = Range(s) \ {Head(s)}
<1> DEFINE r == Tail(s)
<1>1. /\ Len(s) \in Nat \ {0} /\ DOMAIN s = 1..Len(s)
      /\ Head(s) = s[1] /\ s[1] \in S
      /\ r \in Seq(S) /\ Len(r) = Len(s) - 1 /\ DOMAIN r = 1..Len(r)
      /\ \A i \in 1..Len(s) - 1 : r[i] = s[i + 1]
  OBVIOUS
<1> HIDE DEF r
<1>2. IsInjective(r)
  <2>1. ASSUME NEW i \in 1..Len(r), NEW j \in 1..Len(r), r[i] = r[j] PROVE i = j
    <3>1. i + 1 \in DOMAIN s /\ j + 1 \in DOMAIN s /\ s[i + 1] = s[j + 1]
      BY <1>1, <2>1
    <3>2. i + 1 = j + 1
      BY <3>1 DEF IsInjective
    <3> QED
      BY <1>1, <3>2
  <2> QED
    BY <1>1, <2>1 DEF IsInjective
<1>3. Range(r) = Range(s) \ {s[1]}
  <2>1. \A i \in 1..Len(r) : r[i] \in Range(s) /\ r[i] # s[1]
    <3> SUFFICES ASSUME NEW i \in 1..Len(r) PROVE r[i] \in Range(s) /\ r[i] # s[1]
      OBVIOUS
    <3>1. i + 1 \in 1..Len(s) /\ i + 1 # 1 /\ 1 \in 1..Len(s) /\ r[i] = s[i + 1]
      BY <1>1
    <3> QED
      BY <1>1, <3>1 DEF IsInjective, Range
  <2>2. ASSUME NEW k \in 1..Len(s), s[k] # s[1] PROVE s[k] \in Range(r)
    <3>1. k - 1 \in 1..Len(r) /\ r[k - 1] = s[k]
      <4>1. k # 1
        BY <2>2
      <4>2. k - 1 \in 1..Len(s) - 1 /\ (k - 1) + 1 = k
        BY <1>1, <4>1
      <4> QED
        BY <1>1, <4>2
    <3> QED
      BY <1>1, <3>1 DEF Range
  <2> QED
    BY <1>1, <2>1, <2>2 DEF Range
<1> QED
  BY <1>1, <1>2, <1>3 DEF r, Range

LEMMA AppendFacts ==
  ASSUME NEW S, NEW s \in Seq(S), IsInjective(s), NEW t \in S, t \notin Range(s)
  PROVE  /\ Append(s, t) \in Seq(S)
         /\ IsInjective(Append(s, t))
         /\ Range(Append(s, t)) = Range(s) \cup {t}
<1> DEFINE r == Append(s, t)
<1>1. /\ Len(s) \in Nat /\ DOMAIN s = 1..Len(s)
      /\ r \in Seq(S) /\ Len(r) = Len(s) + 1 /\ DOMAIN r = 1..Len(r)
      /\ \A i \in 1..Len(s) : r[i] = s[i]
      /\ r[Len(s) + 1] = t
  OBVIOUS
<1> HIDE DEF r
<1>2. \A i \in 1..Len(r) : i \in 1..Len(s) \/ i = Len(s) + 1
  BY <1>1
<1>3. \A i \in 1..Len(s) : s[i] # t
  BY <1>1 DEF Range
<1>4. IsInjective(r)
  BY <1>1, <1>2, <1>3 DEF IsInjective
<1>5. Range(r) = Range(s) \cup {t}
  <2>1. Len(s) + 1 \in 1..Len(r) /\ 1..Len(s) \subseteq 1..Len(r)
    BY <1>1
  <2> QED
    BY <1>1, <1>2, <2>1 DEF Range
<1> QED
  BY <1>1, <1>4, <1>5 DEF r

LEMMA Priorities == \A t \in AllTasks : Prio[t] \in Nat
<1>1. Prio \in [AllTasks -> 0..255]
  BY NucleusAssumption
<1>2. ASSUME NEW t \in AllTasks PROVE Prio[t] \in 0..255
  BY <1>1
<1>3. ASSUME NEW n \in 0..255 PROVE n \in Nat
  OBVIOUS
<1> QED
  BY <1>2, <1>3

(* A sorted list that ends with the idle task.                             *)
LEMMA OrderedFacts ==
  ASSUME NEW s \in Seq(AllTasks), Ordered(s)
  PROVE  /\ Len(s) \in Nat \ {0} /\ DOMAIN s = 1..Len(s)
         /\ Head(s) = s[1] /\ Head(s) \in Range(s) /\ Range(s) \subseteq AllTasks
         /\ Idle \in Range(s)
         /\ \A t \in Range(s) : Prio[Head(s)] <= Prio[t]
         /\ Head(s) = Idle => s = <<Idle>>
<1>1. /\ Len(s) \in Nat \ {0} /\ DOMAIN s = 1..Len(s) /\ Head(s) = s[1]
      /\ \A i \in 1..Len(s) : s[i] \in AllTasks
  BY DEF Ordered
<1>2. \A t \in AllTasks : Prio[t] \in Nat
  BY Priorities
<1>3. ASSUME NEW i \in 1..Len(s) PROVE Prio[s[1]] <= Prio[s[i]]
  <2>1. 1 \in 1..Len(s) /\ (i = 1 \/ 1 < i)
    BY <1>1
  <2>2. Prio[s[1]] \in Nat
    BY <1>1, <1>2, <2>1
  <2>3. CASE i = 1
    BY <2>2, <2>3
  <2>4. CASE 1 < i
    BY <2>1, <2>4 DEF Ordered
  <2> QED
    BY <2>1, <2>3, <2>4
<1>4. s[1] = Idle => s = <<Idle>>
  <2> SUFFICES ASSUME s[1] = Idle PROVE s = <<Idle>>
    OBVIOUS
  <2>1. Len(s) = 1
    BY <1>1 DEF Ordered, IsInjective
  <2> QED
    BY <1>1, <2>1
<1> QED
  BY <1>1, <1>3, <1>4 DEF Ordered, Range

LEMMA IdleList == Ordered(<<Idle>>) /\ <<Idle>> \in Seq(AllTasks)
                  /\ Range(<<Idle>>) = {Idle} /\ Head(<<Idle>>) = Idle
<1>1. Prio[Idle] <= Prio[Idle]
  BY NucleusAssumption DEF AllTasks
<1> QED
  BY <1>1 DEF Ordered, IsInjective, Range, AllTasks

LEMMA EnterAt ==
  ASSUME NEW s \in Seq(AllTasks), Ordered(s),
         NEW t \in AllTasks, t \notin Range(s),
         NEW q \in Nat, q < Len(s), Prio[t] < Prio[s[q + 1]],
         \A j \in 1..q : Prio[s[j]] <= Prio[t],
         NEW r, r = InsertAt(s, q + 1, t)
  PROVE  /\ r \in Seq(AllTasks) /\ Ordered(r)
         /\ Range(r) = Range(s) \cup {t}
         /\ \A c \in Range(s) : Ahead(s, c) => Ahead(r, c)
<1>1. /\ Len(s) \in Nat \ {0} /\ DOMAIN s = 1..Len(s) /\ s[Len(s)] = Idle
      /\ \A i \in 1..Len(s) : s[i] \in AllTasks /\ s[i] # t
  BY DEF Ordered, Range
<1>2. /\ Prio[t] \in Nat
      /\ \A i \in 1..Len(s) : Prio[s[i]] \in Nat
  BY <1>1, Priorities
<1>3. /\ r \in Seq(AllTasks) /\ Len(r) = Len(s) + 1 /\ DOMAIN r = 1..Len(r)
      /\ \A i \in 1..Len(r) :
           r[i] = IF i <= q THEN s[i] ELSE IF i = q + 1 THEN t ELSE s[i - 1]
  <2>1. q \in 0..Len(s)
    BY <1>1
  <2>2. /\ r \in Seq(AllTasks) /\ Len(r) = Len(s) + 1
        /\ \A i \in 1..Len(s) + 1 :
             r[i] = IF i <= q THEN s[i] ELSE IF i = q + 1 THEN t ELSE s[i - 1]
    BY <2>1, InsertAtFacts
  <2> QED
    BY <2>2
(* Where an element of the new list was.                                   *)
<1> DEFINE from == [i \in 1..Len(r) |-> IF i <= q THEN i ELSE i - 1]
<1>4. \A i \in 1..Len(r) : i # q + 1 =>
        from[i] \in 1..Len(s) /\ r[i] = s[from[i]] /\ r[i] # t
  <2> SUFFICES ASSUME NEW i \in 1..Len(r), i # q + 1
               PROVE  from[i] \in 1..Len(s) /\ r[i] = s[from[i]] /\ r[i] # t
    OBVIOUS
  <2>1. from[i] \in 1..Len(s)
    BY <1>1, <1>3
  <2>2. r[i] = s[from[i]]
    BY <1>1, <1>3
  <2> QED
    BY <1>1, <2>1, <2>2
<1>5. \A i, j \in 1..Len(r) : i # q + 1 /\ j # q + 1 =>
        (i < j => from[i] < from[j]) /\ (from[i] = from[j] => i = j)
  BY <1>1, <1>3
<1>6. /\ q + 1 \in 1..Len(r) /\ r[q + 1] = t
      /\ \A i \in 1..Len(r) : i < q + 1 => from[i] \in 1..q
      /\ \A i \in 1..Len(r) : q + 1 < i => q + 1 <= from[i]
  BY <1>1, <1>3
<1>7. \A i \in 1..Len(s) : \E j \in 1..Len(r) : j # q + 1 /\ from[j] = i
  <2> SUFFICES ASSUME NEW i \in 1..Len(s)
               PROVE  \E j \in 1..Len(r) : j # q + 1 /\ from[j] = i
    OBVIOUS
  <2>1. CASE i <= q
    <3>1. i \in 1..Len(r) /\ i # q + 1 /\ from[i] = i
      BY <1>1, <1>3, <2>1
    <3> QED
      BY <3>1
  <2>2. CASE i > q
    <3>1. i + 1 \in 1..Len(r) /\ i + 1 # q + 1 /\ from[i + 1] = i
      BY <1>1, <1>3, <2>2
    <3> QED
      BY <3>1
  <2> QED
    BY <1>1, <2>1, <2>2
<1> HIDE DEF from
<1>8. \A i \in 1..Len(s) : q + 1 <= i => Prio[t] < Prio[s[i]]
  <2> SUFFICES ASSUME NEW i \in 1..Len(s), q + 1 <= i PROVE Prio[t] < Prio[s[i]]
    OBVIOUS
  <2>1. q + 1 \in 1..Len(s) /\ (i = q + 1 \/ q + 1 < i)
    BY <1>1
  <2>2. Prio[s[q + 1]] <= Prio[s[i]]
    BY <1>2, <2>1 DEF Ordered
  <2> QED
    BY <1>2, <2>1, <2>2
<1>9. IsInjective(r)
  <2>1. ASSUME NEW i \in 1..Len(r), NEW j \in 1..Len(r), r[i] = r[j] PROVE i = j
    <3>1. CASE i = q + 1 \/ j = q + 1
      BY <1>4, <1>6, <2>1, <3>1
    <3>2. CASE i # q + 1 /\ j # q + 1
      <4>1. s[from[i]] = s[from[j]] /\ from[i] \in 1..Len(s) /\ from[j] \in 1..Len(s)
        BY <1>4, <2>1, <3>2
      <4>2. from[i] = from[j]
        BY <1>1, <4>1 DEF Ordered, IsInjective
      <4> QED
        BY <1>5, <3>2, <4>2
    <3> QED
      BY <3>1, <3>2
  <2> QED
    BY <1>3, <2>1 DEF IsInjective
<1>10. Range(r) = Range(s) \cup {t}
  <2>1. \A i \in 1..Len(r) : r[i] \in Range(s) \cup {t}
    BY <1>1, <1>4, <1>6 DEF Range
  <2>2. ASSUME NEW i \in 1..Len(s) PROVE s[i] \in Range(r)
    <3>1. PICK j \in 1..Len(r) : j # q + 1 /\ from[j] = i
      BY <1>7
    <3> QED
      BY <1>3, <1>4, <3>1 DEF Range
  <2>3. t \in Range(r)
    BY <1>3, <1>6 DEF Range
  <2> QED
    BY <1>1, <1>3, <2>1, <2>2, <2>3 DEF Range
<1>11. \A i, j \in 1..Len(r) : i < j => Prio[r[i]] <= Prio[r[j]]
  <2> SUFFICES ASSUME NEW i \in 1..Len(r), NEW j \in 1..Len(r), i < j
               PROVE  Prio[r[i]] <= Prio[r[j]]
    OBVIOUS
  <2>1. CASE i # q + 1 /\ j # q + 1
    <3>1. /\ from[i] \in 1..Len(s) /\ from[j] \in 1..Len(s) /\ from[i] < from[j]
          /\ r[i] = s[from[i]] /\ r[j] = s[from[j]]
      BY <1>4, <1>5, <2>1
    <3> QED
      BY <3>1 DEF Ordered
  <2>2. CASE j = q + 1
    <3>1. i # q + 1 /\ i < q + 1
      BY <1>3, <2>2
    <3>2. from[i] \in 1..q /\ r[i] = s[from[i]] /\ r[j] = t
      BY <1>4, <1>6, <2>2, <3>1
    <3> QED
      BY <3>2
  <2>3. CASE i = q + 1
    <3>1. j # q + 1 /\ q + 1 < j
      BY <1>3, <2>3
    <3>2. /\ from[j] \in 1..Len(s) /\ q + 1 <= from[j]
          /\ r[j] = s[from[j]] /\ r[i] = t
      BY <1>4, <1>6, <2>3, <3>1
    <3>3. Prio[t] < Prio[s[from[j]]]
      BY <1>8, <3>2
    <3> QED
      BY <1>2, <3>2, <3>3
  <2> QED
    BY <2>1, <2>2, <2>3
<1>12. r # << >> /\ r[Len(r)] = Idle
  <2>1. /\ Len(r) \in 1..Len(r) /\ Len(r) # q + 1 /\ ~(Len(r) <= q)
        /\ Len(r) - 1 = Len(s)
    BY <1>1, <1>3
  <2>2. r[Len(r)] = s[Len(s)]
    BY <1>3, <2>1
  <2> QED
    BY <1>1, <1>3, <2>1, <2>2
<1>13. ASSUME NEW c \in Range(s), Ahead(s, c) PROVE Ahead(r, c)
  <2> SUFFICES ASSUME NEW i \in 1..Len(r), NEW j \in 1..Len(r), r[j] = c, i < j
               PROVE  Prio[r[i]] < Prio[c]
    BY DEF Ahead
  <2>1. c # t
    BY <1>1 DEF Range
  <2>2. j # q + 1 /\ from[j] \in 1..Len(s) /\ s[from[j]] = c
    BY <1>4, <1>6, <2>1
  <2>3. CASE i # q + 1
    <3>1. from[i] \in 1..Len(s) /\ from[i] < from[j] /\ r[i] = s[from[i]]
      BY <1>4, <1>5, <2>2, <2>3
    <3> QED
      BY <1>13, <2>2, <3>1 DEF Ahead
  <2>4. CASE i = q + 1
    <3>1. q + 1 <= from[j] /\ r[i] = t
      BY <1>6, <2>2, <2>4
    <3> QED
      BY <1>8, <2>2, <3>1
  <2> QED
    BY <2>3, <2>4
<1> QED
  BY <1>3, <1>9, <1>10, <1>11, <1>12, <1>13 DEF Ordered

(* A task that enters it goes behind its equals.                           *)
Entered(s, t) == InsertAt(s, SelectInSeq(s, LAMBDA u : Prio[u] > Prio[t]), t)

LEMMA EnterFacts ==
  ASSUME NEW s \in Seq(AllTasks), Ordered(s),
         NEW t \in AllTasks \ {Idle}, t \notin Range(s),
         NEW r, r = Entered(s, t)
  PROVE  /\ r \in Seq(AllTasks) /\ Ordered(r)
         /\ Range(r) = Range(s) \cup {t}
         /\ \A c \in Range(s) : Ahead(s, c) => Ahead(r, c)
<1> DEFINE I == {i \in 1..Len(s) : Prio[s[i]] > Prio[t]}
           k == SelectInSeq(s, LAMBDA u : Prio[u] > Prio[t])
<1>1. /\ Len(s) \in Nat \ {0} /\ s[Len(s)] = Idle
      /\ \A i \in 1..Len(s) : s[i] \in AllTasks
  BY DEF Ordered
<1>2. \A u \in AllTasks : Prio[u] \in Nat
  BY Priorities
<1>3. Prio[t] < Prio[Idle]
  BY NucleusAssumption
<1>4. I \subseteq 1..Len(s) /\ Len(s) \in I
  BY <1>1, <1>2, <1>3 DEF AllTasks
<1>5. k = IF I # {} THEN Min(I) ELSE 0
  BY DEF SelectInSeq
<1>6. k \in I /\ \A j \in 1..Len(s) : j < k => j \notin I
  <2> HIDE DEF k, I
  <2> QED
    BY <1>1, <1>4, <1>5, FirstOf
<1>7. r = InsertAt(s, k, t)
  BY DEF Entered
<1> HIDE DEF k
<1>8. PICK q \in Nat : q < Len(s) /\ k = q + 1
  <2>1. k \in 1..Len(s)
    BY <1>6
  <2>2. k - 1 \in Nat /\ k - 1 < Len(s) /\ k = (k - 1) + 1
    BY <1>1, <2>1
  <2> QED
    BY <2>2
<1>9. Prio[t] < Prio[s[q + 1]]
  <2>1. s[q + 1] \in AllTasks /\ Prio[s[q + 1]] > Prio[t]
    BY <1>1, <1>6, <1>8
  <2> QED
    BY <1>2, <2>1
<1>10. ASSUME NEW j \in 1..q PROVE Prio[s[j]] <= Prio[t]
  <2>1. j \in 1..Len(s) /\ j < k
    BY <1>1, <1>8
  <2>2. s[j] \in AllTasks /\ ~(Prio[s[j]] > Prio[t])
    BY <1>1, <1>6, <2>1
  <2> QED
    BY <1>2, <2>2
<1>11. r = InsertAt(s, q + 1, t)
  BY <1>7, <1>8
<1> HIDE DEF I
<1> QED
  BY <1>8, <1>9, <1>10, <1>11, EnterAt

(* Taking out another than the idle task.                                  *)
LEMMA LeaveFacts ==
  ASSUME NEW s \in Seq(AllTasks), Ordered(s), NEW t, t # Idle
  PROVE  /\ RemoveFirst(s, t) \in Seq(AllTasks) /\ Ordered(RemoveFirst(s, t))
         /\ Range(RemoveFirst(s, t)) = Range(s) \ {t}
<1> DEFINE r == RemoveFirst(s, t)
<1>1. /\ r \in Seq(AllTasks) /\ IsInjective(r) /\ Range(r) = Range(s) \ {t}
      /\ Len(r) \in Nat
      /\ \A i, j \in 1..Len(r) : \E a, b \in 1..Len(s) :
           r[i] = s[a] /\ r[j] = s[b] /\ (i < j => a < b)
  BY RemoveFirstFacts DEF Ordered
<1> HIDE DEF r
<1>2. Len(s) \in Nat \ {0} /\ DOMAIN s = 1..Len(s) /\ DOMAIN r = 1..Len(r)
  BY <1>1 DEF Ordered
<1>3. ASSUME NEW i \in 1..Len(r), NEW j \in 1..Len(r), i < j
      PROVE  Prio[r[i]] <= Prio[r[j]]
  <2>1. PICK a, b \in 1..Len(s) : r[i] = s[a] /\ r[j] = s[b] /\ a < b
    BY <1>1, <1>3
  <2> QED
    BY <2>1 DEF Ordered
<1>4. PICK k \in 1..Len(r) : r[k] = Idle
  <2>1. Idle \in Range(s)
    BY <1>2 DEF Range, Ordered
  <2>2. Idle \in Range(r)
    BY <1>1, <2>1
  <2> QED
    BY <1>2, <2>2 DEF Range
<1>5. k = Len(r)
  <2> SUFFICES ASSUME k < Len(r) PROVE FALSE
    BY <1>1, <1>4
  <2>1. Len(r) \in 1..Len(r)
    BY <1>1
  <2>2. PICK a, b \in 1..Len(s) : s[a] = Idle /\ r[Len(r)] = s[b] /\ a < b
    BY <1>1, <1>4, <2>1
  <2>3. a = Len(s)
    <3>1. Len(s) \in DOMAIN s /\ a \in DOMAIN s /\ s[Len(s)] = s[a]
      BY <1>2, <2>2 DEF Ordered
    <3>2. IsInjective(s)
      BY DEF Ordered
    <3> QED
      BY <3>1, <3>2 DEF IsInjective
  <2> QED
    BY <1>2, <2>2, <2>3
<1>6. r # << >>
  BY <1>4
<1> QED
  BY <1>1, <1>3, <1>4, <1>5, <1>6 DEF Ordered, r

LEMMA OrderedTail ==
  ASSUME NEW s \in Seq(AllTasks), Ordered(s), Head(s) # Idle
  PROVE  /\ Tail(s) \in Seq(AllTasks) /\ Ordered(Tail(s))
         /\ Range(Tail(s)) = Range(s) \ {Head(s)}
<1> DEFINE r == Tail(s)
<1>1. /\ r \in Seq(AllTasks) /\ Len(r) = Len(s) - 1
      /\ \A i \in 1..Len(s) - 1 : r[i] = s[i + 1]
      /\ IsInjective(r) /\ Head(s) = s[1]
      /\ Range(r) = Range(s) \ {Head(s)}
  BY TailFacts DEF Ordered
<1> HIDE DEF r
<1>2. Len(s) \in Nat \ {0} /\ Len(s) # 1
  BY <1>1 DEF Ordered
<1>3. \A i, j \in 1..Len(r) : i < j => Prio[r[i]] <= Prio[r[j]]
  <2> SUFFICES ASSUME NEW i \in 1..Len(r), NEW j \in 1..Len(r), i < j
               PROVE  Prio[r[i]] <= Prio[r[j]]
    OBVIOUS
  <2>1. /\ i + 1 \in 1..Len(s) /\ j + 1 \in 1..Len(s) /\ i + 1 < j + 1
        /\ r[i] = s[i + 1] /\ r[j] = s[j + 1]
    BY <1>1, <1>2
  <2> QED
    BY <2>1 DEF Ordered
<1>4. r # << >> /\ r[Len(r)] = Idle
  BY <1>1, <1>2 DEF Ordered
<1> QED
  BY <1>1, <1>3, <1>4 DEF Ordered, r

LEMMA RemoveFirstType ==
  ASSUME NEW S, NEW s \in Seq(S), NEW t
  PROVE  RemoveFirst(s, t) \in Seq(S)
<1>1. CASE t \notin Range(s)
  <2>1. RemoveFirst(s, t) = s
    BY <1>1 DEF RemoveFirst, Range
  <2> QED
    BY <2>1
<1>2. CASE t \in Range(s)
  <2> DEFINE p == SelectInSeq(s, LAMBDA u : u = t)
  <2>1. p \in 1..Len(s)
    BY <1>2, WhereFacts
  <2>2. RemoveFirst(s, t) = RemoveAt(s, p)
    BY <1>2 DEF RemoveFirst, Range
  <2> HIDE DEF p
  <2> QED
    BY <2>1, <2>2, RemoveAtFacts
<1> QED
  BY <1>1, <1>2

(* The lists with a tail.                                                  *)
LEMMA UnlinkType ==
  ASSUME NEW S, NEW l \in List(S), NEW t
  PROVE  /\ Unlink(l, t) \in List(S)
         /\ Unlink(l, t).stray = l.stray
         /\ Unlink(l, t).seq = RemoveFirst(l.seq, t)
<1>1. l.seq \in Seq(S) /\ l.stray \in BOOLEAN
  BY DEF List
<1>2. CASE t \notin Range(l.seq)
  <2>1. RemoveFirst(l.seq, t) = l.seq
    BY <1>1, <1>2 DEF RemoveFirst, Range
  <2> QED
    BY <1>2, <2>1 DEF Unlink
<1>3. CASE t \in Range(l.seq)
  <2> DEFINE s == RemoveFirst(l.seq, t)
             z == IF t = Last(l.seq) THEN NULL ELSE l.tail
  <2>1. Unlink(l, t) = [l EXCEPT !.seq = s, !.tail = z]
    BY <1>3 DEF Unlink
  <2>2. s \in Seq(S)
    BY <1>1, RemoveFirstType
  <2>3. z \in AllTasks \cup {NULL}
    BY DEF List
  <2> HIDE DEF s, z
  <2> QED
    BY <2>1, <2>2, <2>3 DEF List, s
<1> QED
  BY <1>2, <1>3

LEMMA Append1Facts ==
  ASSUME NEW S, S \subseteq AllTasks, NEW l \in List(S), NEW t \in S
  PROVE  /\ Append1(l, t) \in List(S)
         /\ l.stray => Append1(l, t).stray
         /\ IsInjective(l.seq) /\ t \notin Range(l.seq) /\ ~Append1(l, t).stray
              => /\ IsInjective(Append1(l, t).seq)
                 /\ Range(Append1(l, t).seq) = Range(l.seq) \cup {t}
<1> DEFINE r == Append1(l, t)
<1>1. l.seq \in Seq(S) /\ l.stray \in BOOLEAN /\ l.tail \in AllTasks \cup {NULL}
  BY DEF List
<1>2. CASE t \in Range(l.seq)
  <2> DEFINE s == SubSeq(l.seq, 1, SelectInSeq(l.seq, LAMBDA u : u = t))
  <2>1. r = [l EXCEPT !.seq = s, !.tail = t]
    BY <1>2 DEF Append1
  <2>2. SelectInSeq(l.seq, LAMBDA u : u = t) \in 1..Len(l.seq)
    BY <1>1, <1>2, WhereFacts
  <2>3. \A k \in 1..Len(l.seq) : SubSeq(l.seq, 1, k) \in Seq(S)
    BY <1>1
  <2>4. s \in Seq(S)
    BY <2>2, <2>3
  <2> HIDE DEF s
  <2> QED
    BY <1>2, <2>1, <2>4 DEF List
<1>3. CASE t \notin Range(l.seq) /\ l.seq = << >>
  <2>1. r = [l EXCEPT !.seq = <<t>>, !.tail = t]
    BY <1>3 DEF Append1
  <2>2. <<t>> \in Seq(S) /\ IsInjective(<<t>>) /\ Range(<<t>>) = {t}
    BY DEF IsInjective, Range
  <2>3. Range(l.seq) = {}
    BY <1>3 DEF Range
  <2> QED
    BY <2>1, <2>2, <2>3 DEF List
<1>4. CASE t \notin Range(l.seq) /\ l.seq # << >> /\ l.tail = Last(l.seq)
  <2>1. r = [l EXCEPT !.seq = Append(@, t), !.tail = t]
    BY <1>4 DEF Append1
  <2>2. IsInjective(l.seq) => /\ IsInjective(Append(l.seq, t))
                              /\ Range(Append(l.seq, t)) = Range(l.seq) \cup {t}
    BY <1>1, <1>4, AppendFacts
  <2>3. Append(l.seq, t) \in Seq(S)
    BY <1>1
  <2> QED
    BY <2>1, <2>2, <2>3 DEF List
<1>5. CASE t \notin Range(l.seq) /\ l.seq # << >> /\ l.tail # Last(l.seq)
  <2>1. r = [l EXCEPT !.tail = t, !.stray = TRUE]
    BY <1>5 DEF Append1
  <2> QED
    BY <2>1 DEF List
<1> QED
  BY <1>2, <1>3, <1>4, <1>5

(* enterlist, of a task that is not suspended.                             *)
LEMMA Entering ==
  ASSUME NEW ls \in [ready : Seq(AllTasks), susp : List(Tasks)],
         Ordered(ls.ready),
         NEW t \in AllTasks \ {Idle}, t \notin Range(ls.ready),
         NEW r, r = enterlist(ls, {}, t)
  PROVE  /\ r \in [ready : Seq(AllTasks), susp : List(Tasks)]
         /\ r.susp = ls.susp /\ Ordered(r.ready)
         /\ Range(r.ready) = Range(ls.ready) \cup {t}
         /\ \A c \in Range(ls.ready) : Ahead(ls.ready, c) => Ahead(r.ready, c)
<1> DEFINE q == Entered(ls.ready, t)
<1>1. r = [ls EXCEPT !.ready = q]
  BY DEF enterlist, Entered
<1>2. ls.ready \in Seq(AllTasks)
  OBVIOUS
<1>3. /\ q \in Seq(AllTasks) /\ Ordered(q)
      /\ Range(q) = Range(ls.ready) \cup {t}
      /\ \A c \in Range(ls.ready) : Ahead(ls.ready, c) => Ahead(q, c)
  BY <1>2, EnterFacts
<1> HIDE DEF q
<1>4. r.ready = q /\ r.susp = ls.susp
      /\ r \in [ready : Seq(AllTasks), susp : List(Tasks)]
  BY <1>1, <1>3
<1> QED
  BY <1>3, <1>4

-----------------------------------------------------------------------------
(* The messages, in any program.                                           *)
MailTypes ==
  /\ link \in [AllMessages -> AllTasks \cup {NULL, Chained, Self}]
  /\ msgq \in [AllExchanges -> Seq(AllMessages)]
  /\ taskq \in [AllExchanges -> Seq(AllTasks)]
  /\ isnd \in Seq(IntExchanges) /\ slot \in IntExchanges \cup {NULL}
  /\ index \in 0..(Len(isnd) + IF slot = NULL THEN 0 ELSE 1)
  /\ slot # NULL => index > 0
MailInv == MailTypes /\ Mail

LEMMA Distinct ==
  /\ Exchanges \cap IntExchanges = {} /\ Messages \cap IntExchanges = {}
  /\ NULL \notin AllTasks /\ Chained \notin AllTasks /\ Self \notin AllTasks
  /\ Chained # NULL /\ Chained # Self /\ NULL \notin AllExchanges
  /\ IntExchanges \subseteq AllExchanges /\ IntExchanges \subseteq AllMessages
  /\ Idle \in AllTasks /\ DelayTask \in AllTasks /\ Tasks \subseteq AllTasks
  /\ Idle # DelayTask /\ Idle \notin Tasks /\ DelayTask \notin Tasks
BY NucleusAssumption DEF AllExchanges, AllMessages, AllTasks

(* A message that is in no queue joins one.                                *)
LEMMA Queueing ==
  ASSUME MailInv, NEW e \in AllExchanges, NEW m \in AllMessages,
         link[m] # Chained, taskq[e] = << >>, m \in IntExchanges => m = e,
         link' = [link EXCEPT ![m] = Chained],
         msgq' = [msgq EXCEPT ![e] = Append(@, m)], taskq' = taskq
  PROVE  /\ link' \in [AllMessages -> AllTasks \cup {NULL, Chained, Self}]
         /\ msgq' \in [AllExchanges -> Seq(AllMessages)]
         /\ Mail'
<1>1. /\ link \in [AllMessages -> AllTasks \cup {NULL, Chained, Self}]
      /\ msgq \in [AllExchanges -> Seq(AllMessages)] /\ msgq[e] \in Seq(AllMessages)
  BY DEF MailInv, MailTypes
<1>2. \A d \in AllExchanges : m \notin Range(msgq[d])
  BY DEF MailInv, Mail
<1>3. /\ msgq'[e] \in Seq(AllMessages) /\ IsInjective(msgq'[e])
      /\ Range(msgq'[e]) = Range(msgq[e]) \cup {m}
  <2>1. IsInjective(msgq[e])
    BY DEF MailInv, Mail
  <2>2. msgq'[e] = Append(msgq[e], m)
    BY <1>1
  <2> QED
    BY <1>1, <1>2, <2>1, <2>2, AppendFacts
<1>4. \A d \in AllExchanges : d # e => msgq'[d] = msgq[d]
  BY <1>1
<1>5. link'[m] = Chained /\ \A n \in AllMessages : n # m => link'[n] = link[n]
  BY <1>1
<1>6. /\ link' \in [AllMessages -> AllTasks \cup {NULL, Chained, Self}]
      /\ msgq' \in [AllExchanges -> Seq(AllMessages)]
  BY <1>1, <1>3
<1>7. \A d \in AllExchanges : msgq'[d] = << >> \/ taskq'[d] = << >>
  BY <1>4 DEF MailInv, Mail
<1>8. \A n \in AllMessages :
        link'[n] = Chained <=> \E d \in AllExchanges : n \in Range(msgq'[d])
  <2> SUFFICES ASSUME NEW n \in AllMessages
               PROVE  link'[n] = Chained <=>
                        \E d \in AllExchanges : n \in Range(msgq'[d])
    OBVIOUS
  <2>1. CASE n = m
    BY <1>3, <1>5, <2>1
  <2>2. CASE n # m
    <3>1. link'[n] = link[n]
      BY <1>5, <2>2
    <3>2. \A d \in AllExchanges : n \in Range(msgq'[d]) <=> n \in Range(msgq[d])
      BY <1>3, <1>4, <2>2
    <3> QED
      BY <3>1, <3>2 DEF MailInv, Mail
  <2> QED
    BY <2>1, <2>2
<1>9. \A d \in AllExchanges : IsInjective(msgq'[d])
  BY <1>3, <1>4 DEF MailInv, Mail
<1>10. \A c, d \in AllExchanges : \A n \in Range(msgq'[c]) \cap Range(msgq'[d]) : c = d
  BY <1>2, <1>3, <1>4 DEF MailInv, Mail
<1>11. \A d \in AllExchanges : \A x \in Range(msgq'[d]) \cap IntExchanges : x = d
  BY <1>3, <1>4 DEF MailInv, Mail
<1> QED
  BY <1>6, <1>7, <1>8, <1>9, <1>10, <1>11 DEF Mail

(* A message that is in no queue gets another link.                        *)
LEMMA Handing ==
  ASSUME MailInv, NEW m \in AllMessages, link[m] # Chained,
         NEW v \in AllTasks \cup {NULL, Self},
         link' = [link EXCEPT ![m] = v], msgq' = msgq,
         \A e \in AllExchanges : taskq[e] = << >> => taskq'[e] = << >>
  PROVE  /\ link' \in [AllMessages -> AllTasks \cup {NULL, Chained, Self}]
         /\ msgq' \in [AllExchanges -> Seq(AllMessages)]
         /\ Mail'
<1>1. /\ link \in [AllMessages -> AllTasks \cup {NULL, Chained, Self}]
      /\ msgq \in [AllExchanges -> Seq(AllMessages)]
  BY DEF MailInv, MailTypes
<1>2. v # Chained
  BY Distinct
<1>3. \A n \in AllMessages : link'[n] = Chained <=> link[n] = Chained
  BY <1>1, <1>2
<1>4. link' \in [AllMessages -> AllTasks \cup {NULL, Chained, Self}]
  BY <1>1
<1> QED
  BY <1>1, <1>3, <1>4 DEF MailInv, Mail

(* The first message of a queue is taken.                                  *)
LEMMA Taking ==
  ASSUME MailInv, NEW e \in AllExchanges, msgq[e] # << >>,
         NEW m, m = Head(msgq[e]), NEW v \in AllTasks \cup {NULL, Self},
         link' = [link EXCEPT ![m] = v],
         msgq' = [msgq EXCEPT ![e] = Tail(@)], taskq' = taskq
  PROVE  /\ link' \in [AllMessages -> AllTasks \cup {NULL, Chained, Self}]
         /\ msgq' \in [AllExchanges -> Seq(AllMessages)]
         /\ Mail'
<1>1. /\ link \in [AllMessages -> AllTasks \cup {NULL, Chained, Self}]
      /\ msgq \in [AllExchanges -> Seq(AllMessages)] /\ msgq[e] \in Seq(AllMessages)
  BY DEF MailInv, MailTypes
<1>2. /\ msgq'[e] \in Seq(AllMessages) /\ IsInjective(msgq'[e])
      /\ m \in Range(msgq[e]) /\ m \in AllMessages
      /\ Range(msgq'[e]) = Range(msgq[e]) \ {m}
  <2>1. IsInjective(msgq[e])
    BY DEF MailInv, Mail
  <2>2. msgq'[e] = Tail(msgq[e])
    BY <1>1
  <2> QED
    BY <1>1, <2>1, <2>2, TailFacts
<1>3. \A d \in AllExchanges : d # e => msgq'[d] = msgq[d] /\ m \notin Range(msgq[d])
  BY <1>1, <1>2 DEF MailInv, Mail
<1>4. link'[m] # Chained /\ \A n \in AllMessages : n # m => link'[n] = link[n]
  BY <1>1, <1>2, Distinct
<1>5. /\ link' \in [AllMessages -> AllTasks \cup {NULL, Chained, Self}]
      /\ msgq' \in [AllExchanges -> Seq(AllMessages)]
  BY <1>1, <1>2
<1>6. \A d \in AllExchanges : msgq'[d] = << >> \/ taskq'[d] = << >>
  BY <1>3 DEF MailInv, Mail
<1>7. \A n \in AllMessages :
        link'[n] = Chained <=> \E d \in AllExchanges : n \in Range(msgq'[d])
  <2> SUFFICES ASSUME NEW n \in AllMessages
               PROVE  link'[n] = Chained <=>
                        \E d \in AllExchanges : n \in Range(msgq'[d])
    OBVIOUS
  <2>1. CASE n = m
    BY <1>2, <1>3, <1>4, <2>1
  <2>2. CASE n # m
    <3>1. link'[n] = link[n]
      BY <1>4, <2>2
    <3>2. \A d \in AllExchanges : n \in Range(msgq'[d]) <=> n \in Range(msgq[d])
      BY <1>2, <1>3, <2>2
    <3> QED
      BY <3>1, <3>2 DEF MailInv, Mail
  <2> QED
    BY <2>1, <2>2
<1>8. \A d \in AllExchanges : IsInjective(msgq'[d])
  BY <1>2, <1>3 DEF MailInv, Mail
<1>9. \A c, d \in AllExchanges : \A n \in Range(msgq'[c]) \cap Range(msgq'[d]) : c = d
  BY <1>2, <1>3 DEF MailInv, Mail
<1>10. \A d \in AllExchanges : \A x \in Range(msgq'[d]) \cap IntExchanges : x = d
  BY <1>2, <1>3 DEF MailInv, Mail
<1> QED
  BY <1>5, <1>6, <1>7, <1>8, <1>9, <1>10 DEF Mail

(* Nothing but the queues of tasks changes.                                *)
LEMMA Lining ==
  ASSUME MailInv, UNCHANGED <<link, msgq>>,
         \A e \in AllExchanges :
           taskq[e] = << >> /\ msgq[e] # << >> => taskq'[e] = << >>
  PROVE  Mail'
BY DEF MailInv, Mail

LEMMA InitMail == Init => MailInv
<1> SUFFICES ASSUME Init PROVE MailInv
  OBVIOUS
<1>1. MailTypes
  BY Distinct DEF Init, MailTypes
<1>2. \A e \in AllExchanges : Range(msgq[e]) = {}
  BY DEF Init, Range
<1>3. \A m \in AllMessages : link[m] # Chained
  BY Distinct DEF Init
<1>4. \A e \in AllExchanges : IsInjective(msgq[e]) /\ taskq[e] = << >>
  BY DEF Init, IsInjective
<1>5. Mail
  BY <1>2, <1>3, <1>4 DEF Mail
<1> QED
  BY <1>1, <1>5 DEF MailInv

(* A waiting task is given a message that is in no queue.                  *)
LEMMA HandOverMail ==
  ASSUME MailInv, NEW e \in AllExchanges, NEW m \in AllMessages, NEW c,
         link[m] # Chained, taskq[e] # << >>, HandOver(e, m, c)
  PROVE  /\ link' \in [AllMessages -> AllTasks \cup {NULL, Chained, Self}]
         /\ msgq' \in [AllExchanges -> Seq(AllMessages)]
         /\ taskq' \in [AllExchanges -> Seq(AllTasks)]
         /\ Mail'
<1> DEFINE w == Head(taskq[e])
           v == IF m \in IntExchanges THEN Self ELSE w
<1>1. /\ taskq \in [AllExchanges -> Seq(AllTasks)] /\ taskq[e] \in Seq(AllTasks)
      /\ w \in AllTasks /\ Tail(taskq[e]) \in Seq(AllTasks)
  BY DEF MailInv, MailTypes
<1>2. /\ taskq' = [taskq EXCEPT ![e] = Tail(@)] /\ msgq' = msgq
      /\ link' = [link EXCEPT ![m] = v]
  BY DEF HandOver
<1>3. v \in AllTasks \cup {NULL, Self}
  BY <1>1
<1> HIDE DEF v, w
<1>4. taskq' \in [AllExchanges -> Seq(AllTasks)]
  BY <1>1, <1>2
<1>5. \A d \in AllExchanges : taskq[d] = << >> => taskq'[d] = << >>
  BY <1>1, <1>2
<1> QED
  BY <1>2, <1>3, <1>4, <1>5, Handing

(* What the loop reads above the stored index.                             *)
LEMMA PoppedFacts ==
  ASSUME MailInv, slot # NULL
  PROVE  Popped \in IntExchanges /\ index > 0
<1>1. isnd \in Seq(IntExchanges) /\ slot \in IntExchanges /\ index > 0
  BY DEF MailInv, MailTypes
<1>2. \A k \in DOMAIN isnd : isnd[k] \in IntExchanges
  BY <1>1
<1> QED
  BY <1>1, <1>2 DEF Popped

LEMMA StoreMail == MailInv /\ DrainStore => MailInv'
<1> SUFFICES ASSUME MailInv, DrainStore PROVE MailInv'
  OBVIOUS
<1>1. /\ index > 0 /\ slot = NULL /\ slot' = isnd[index] /\ index' = index
      /\ isnd' = SubSeq(isnd, 1, index - 1)
      /\ UNCHANGED <<link, msgq, taskq>>
  BY DEF DrainStore, queues
<1>2. isnd \in Seq(IntExchanges) /\ index \in 1..Len(isnd)
  BY <1>1 DEF MailInv, MailTypes
<1>3. slot' \in IntExchanges /\ slot' # NULL
  <2>1. slot' \in IntExchanges
    BY <1>1, <1>2
  <2> QED
    BY <2>1, NucleusAssumption DEF AllExchanges
<1>4. isnd' \in Seq(IntExchanges) /\ Len(isnd') = index - 1
  <2>1. \A k \in 0..Len(isnd) : /\ SubSeq(isnd, 1, k) \in Seq(IntExchanges)
                                /\ Len(SubSeq(isnd, 1, k)) = k
    BY <1>2
  <2>2. index - 1 \in 0..Len(isnd)
    BY <1>2
  <2> QED
    BY <1>1, <2>1, <2>2
<1>5. index' \in 0..(Len(isnd') + IF slot' = NULL THEN 0 ELSE 1)
  BY <1>1, <1>2, <1>3, <1>4
<1>6. Mail'
  BY <1>1, Lining
<1> QED
  BY <1>1, <1>3, <1>4, <1>5, <1>6 DEF MailInv, MailTypes

LEMMA DrainMail == MailInv /\ Drain => MailInv'
<1> SUFFICES ASSUME MailInv, Drain PROVE MailInv'
  OBVIOUS
<1> DEFINE x == Popped
<1>1. /\ slot # NULL /\ index' = 0 /\ slot' = NULL /\ isnd' = isnd
      /\ \/ taskq[x] = << >> /\ Post(x)
         \/ /\ taskq[x] # << >>
            /\ HandOver(x, x, "delayed" \in status[Head(taskq[x])])
  BY DEF Drain
<1>3. x \in IntExchanges /\ x \in AllExchanges /\ x \in AllMessages
  BY <1>1, PoppedFacts, Distinct
<1>4. /\ isnd' \in Seq(IntExchanges) /\ slot' = NULL
      /\ index' \in 0..(Len(isnd') + IF slot' = NULL THEN 0 ELSE 1)
  BY <1>1 DEF MailInv, MailTypes
<1>5. CASE taskq[x] = << >> /\ Post(x)
  <2>1. taskq' = taskq
    BY <1>5 DEF Post
  <2>2. CASE link[x] = Self
    <3>1. link[x] # Chained
      BY <2>2, Distinct
    <3>2. /\ msgq' = [msgq EXCEPT ![x] = Append(@, x)]
          /\ link' = [link EXCEPT ![x] = Chained]
      BY <1>5, <2>2 DEF Post
    <3> HIDE DEF x
    <3>3. /\ link' \in [AllMessages -> AllTasks \cup {NULL, Chained, Self}]
          /\ msgq' \in [AllExchanges -> Seq(AllMessages)]
          /\ Mail'
      BY <1>3, <1>5, <2>1, <3>1, <3>2, Queueing
    <3> QED
      BY <1>4, <2>1, <3>3 DEF MailInv, MailTypes
  <2>3. CASE link[x] # Self
    <3>1. link' = link /\ msgq' = msgq
      BY <1>5, <2>3 DEF Post
    <3>2. Mail'
      BY <2>1, <3>1, Lining
    <3> QED
      BY <1>4, <2>1, <3>1, <3>2 DEF MailInv, MailTypes
  <2> QED
    BY <2>2, <2>3
<1>6. CASE taskq[x] # << >> /\ HandOver(x, x, "delayed" \in status[Head(taskq[x])])
  <2>1. link[x] # Chained
    <3> HIDE DEF x
    <3> QED
      BY <1>3, <1>6 DEF MailInv, Mail, Range
  <2> HIDE DEF x
  <2>2. /\ link' \in [AllMessages -> AllTasks \cup {NULL, Chained, Self}]
        /\ msgq' \in [AllExchanges -> Seq(AllMessages)]
        /\ taskq' \in [AllExchanges -> Seq(AllTasks)]
        /\ Mail'
    BY <1>3, <1>6, <2>1, HandOverMail
  <2> QED
    BY <1>4, <2>2 DEF MailInv, MailTypes
<1> QED
  BY <1>1, <1>5, <1>6

LEMMA reqsendMail ==
  ASSUME MailInv, NEW t \in AllTasks, NEW e \in Exchanges \cup Irqs,
         NEW m \in Messages, reqsend(t, e, m)
  PROVE  MailInv'
<1>1. /\ e \in AllExchanges /\ m \in AllMessages /\ m \notin IntExchanges
      /\ t # Chained
  BY Distinct DEF AllExchanges, IntExchanges, AllMessages
<1>2. UNCHANGED <<isnd, index, slot>>
  BY DEF reqsend, ints, pending, given
<1>3. CASE UNCHANGED <<lists, status, message, link, msgq, taskq, dl>>
  <2>1. Mail'
    BY <1>3, Lining
  <2> QED
    BY <1>2, <1>3, <2>1 DEF MailInv, MailTypes
<1>4. CASE /\ link[m] = t /\ taskq[e] = << >>
           /\ msgq' = [msgq EXCEPT ![e] = Append(@, m)]
           /\ link' = [link EXCEPT ![m] = Chained]
           /\ taskq' = taskq
  <2>1. /\ link' \in [AllMessages -> AllTasks \cup {NULL, Chained, Self}]
        /\ msgq' \in [AllExchanges -> Seq(AllMessages)]
        /\ Mail'
    BY <1>1, <1>4, Queueing
  <2> QED
    BY <1>2, <1>4, <2>1 DEF MailInv, MailTypes
<1>5. CASE /\ link[m] = t /\ taskq[e] # << >>
           /\ HandOver(e, m, status[Head(taskq[e])] # {"waiting"})
  <2>1. /\ link' \in [AllMessages -> AllTasks \cup {NULL, Chained, Self}]
        /\ msgq' \in [AllExchanges -> Seq(AllMessages)]
        /\ taskq' \in [AllExchanges -> Seq(AllTasks)]
        /\ Mail'
    BY <1>1, <1>5, HandOverMail
  <2> QED
    BY <1>2, <2>1 DEF MailInv, MailTypes
<1> QED
  BY <1>3, <1>4, <1>5 DEF reqsend

(* The caller's message, where nobody waits.                               *)
LEMMA reqdqmsgMail ==
  ASSUME MailInv, NEW t \in AllTasks, NEW e \in AllExchanges, msgq[e] # << >>,
         reqdqmsg(t, e), taskq' = taskq
  PROVE  /\ link' \in [AllMessages -> AllTasks \cup {NULL, Chained, Self}]
         /\ msgq' \in [AllExchanges -> Seq(AllMessages)]
         /\ Mail'
<1> DEFINE m == Head(msgq[e])
           v == IF m \in IntExchanges THEN Self ELSE t
<1>1. taskq[e] = << >>
  BY DEF MailInv, Mail
<1>2. link' = [link EXCEPT ![m] = v] /\ msgq' = [msgq EXCEPT ![e] = Tail(@)]
  BY <1>1 DEF reqdqmsg
<1>3. v \in AllTasks \cup {NULL, Self}
  OBVIOUS
<1> HIDE DEF v
<1> QED
  BY <1>2, <1>3, Taking

LEMMA reqacptMail ==
  ASSUME MailInv, NEW t \in AllTasks, NEW e \in Exchanges \cup Irqs, reqacpt(t, e)
  PROVE  MailInv'
<1>1. e \in AllExchanges
  BY DEF AllExchanges, IntExchanges
<1>2. UNCHANGED <<isnd, index, slot>> /\ taskq' = taskq
  BY DEF reqacpt, ints, pending, given
<1>3. CASE msgq[e] # << >>
  <2>1. reqdqmsg(t, e)
    BY <1>3 DEF reqacpt
  <2>2. /\ link' \in [AllMessages -> AllTasks \cup {NULL, Chained, Self}]
        /\ msgq' \in [AllExchanges -> Seq(AllMessages)]
        /\ Mail'
    BY <1>1, <1>2, <1>3, <2>1, reqdqmsgMail
  <2> QED
    BY <1>2, <2>2 DEF MailInv, MailTypes
<1>4. CASE msgq[e] = << >>
  <2>1. link' = link /\ msgq' = msgq
    BY <1>4 DEF reqacpt
  <2>2. Mail'
    BY <1>2, <2>1, Lining
  <2> QED
    BY <1>2, <2>1, <2>2 DEF MailInv, MailTypes
<1> QED
  BY <1>3, <1>4

LEMMA reqwaitMail ==
  ASSUME MailInv, NEW t \in AllTasks, NEW e \in AllExchanges, NEW n, reqwait(t, e, n)
  PROVE  MailInv'
<1>1. UNCHANGED <<isnd, index, slot>>
  BY DEF reqwait, ints, pending, given
<1>2. CASE msgq[e] # << >> /\ reqdqmsg(t, e) /\ taskq' = taskq
  <2>1. /\ link' \in [AllMessages -> AllTasks \cup {NULL, Chained, Self}]
        /\ msgq' \in [AllExchanges -> Seq(AllMessages)]
        /\ Mail'
    BY <1>2, reqdqmsgMail
  <2> QED
    BY <1>1, <1>2, <2>1 DEF MailInv, MailTypes
<1>3. CASE /\ msgq[e] = << >> /\ UNCHANGED <<message, link, msgq>>
           /\ taskq' = [taskq EXCEPT ![e] = Append(@, t)]
  <2>1. /\ taskq \in [AllExchanges -> Seq(AllTasks)] /\ taskq[e] \in Seq(AllTasks)
        /\ Append(taskq[e], t) \in Seq(AllTasks)
    BY DEF MailInv, MailTypes
  <2>2. /\ taskq' \in [AllExchanges -> Seq(AllTasks)]
        /\ \A d \in AllExchanges : d # e => taskq'[d] = taskq[d]
    BY <1>3, <2>1
  <2>3. \A d \in AllExchanges :
          taskq[d] = << >> /\ msgq[d] # << >> => taskq'[d] = << >>
    BY <1>3, <2>2
  <2>4. Mail'
    BY <1>3, <2>3, Lining
  <2> QED
    BY <1>1, <1>3, <2>2, <2>4 DEF MailInv, MailTypes
<1> QED
  BY <1>2, <1>3 DEF reqwait

(* One task is taken from a queue, or none.                                *)
LEMMA Quitting ==
  ASSUME MailInv, UNCHANGED <<link, msgq, isnd, index, slot>>, NEW e, NEW u,
         \/ taskq' = [taskq EXCEPT ![e] = RemoveFirst(@, u)]
         \/ taskq' = taskq
  PROVE  MailInv'
<1>1. CASE taskq' = taskq
  <2>1. Mail'
    BY <1>1, Lining
  <2> QED
    BY <1>1, <2>1 DEF MailInv, MailTypes
<1>2. CASE taskq' = [taskq EXCEPT ![e] = RemoveFirst(@, u)]
  <2>1. taskq \in [AllExchanges -> Seq(AllTasks)]
    BY DEF MailInv, MailTypes
  <2>2. \A d \in AllExchanges : RemoveFirst(taskq[d], u) \in Seq(AllTasks)
    BY <2>1, RemoveFirstType
  <2>3. RemoveFirst(<< >>, u) = << >>
    BY DEF RemoveFirst
  <2>4. taskq' \in [AllExchanges -> Seq(AllTasks)]
    BY <1>2, <2>1, <2>2
  <2>5. \A d \in AllExchanges : taskq[d] = << >> => taskq'[d] = << >>
    BY <1>2, <2>1, <2>3
  <2>6. Mail'
    BY <2>5, Lining
  <2> QED
    BY <2>4, <2>6 DEF MailInv, MailTypes
<1> QED
  BY <1>1, <1>2

LEMMA reqelvlMail ==
  ASSUME MailInv, NEW t, NEW x \in IntExchanges, reqelvl(t, x)
  PROVE  MailInv'
<1>1. UNCHANGED <<isnd, index, slot>> /\ msgq' = msgq /\ taskq' = taskq
  BY DEF reqelvl, Enable, pending
<1>2. CASE x \in Irqs /\ msgq[x] = << >>
  <2>1. x \in IntExchanges /\ x \in AllExchanges /\ x \in AllMessages
    BY Distinct
  <2>2. link[x] # Chained
    BY <1>2, <2>1 DEF MailInv, Mail, Range
  <2>3. link' = [link EXCEPT ![x] = Self]
    BY <1>2 DEF reqelvl, Enable, pending
  <2>4. /\ link' \in [AllMessages -> AllTasks \cup {NULL, Chained, Self}]
        /\ msgq' \in [AllExchanges -> Seq(AllMessages)]
        /\ Mail'
    BY <1>1, <2>1, <2>2, <2>3, Handing
  <2> QED
    BY <1>1, <2>4 DEF MailInv, MailTypes
<1>3. CASE ~(x \in Irqs /\ msgq[x] = << >>)
  <2>1. link' = link
    BY <1>3 DEF reqelvl, Enable, pending
  <2>2. Mail'
    BY <1>1, <2>1, Lining
  <2> QED
    BY <1>1, <2>1, <2>2 DEF MailInv, MailTypes
<1> QED
  BY <1>2, <1>3

LEMMA reqcmsgMail ==
  ASSUME MailInv, NEW t \in AllTasks, NEW m \in Messages, reqcmsg(t, m)
  PROVE  MailInv'
<1>1. /\ UNCHANGED <<isnd, index, slot>> /\ msgq' = msgq /\ taskq' = taskq
      /\ link[m] = NULL /\ link' = [link EXCEPT ![m] = t]
  BY DEF reqcmsg, ints, pending, given
<1>2. m \in AllMessages /\ link[m] # Chained
  BY <1>1, Distinct DEF AllMessages
<1>3. /\ link' \in [AllMessages -> AllTasks \cup {NULL, Chained, Self}]
      /\ msgq' \in [AllExchanges -> Seq(AllMessages)]
      /\ Mail'
  BY <1>1, <1>2, Handing
<1> QED
  BY <1>1, <1>3 DEF MailInv, MailTypes

(* Interrupts only join the queue of interrupts.                           *)
LEMMA InterruptMail ==
  ASSUME MailInv, UNCHANGED <<link, msgq, taskq, slot>>,
         NEW x \in IntExchanges,
         \/ isnd' \in {isnd, Append(isnd, x)} /\ index' = index
         \/ isnd' = isnd /\ index = 0 /\ index' = Len(isnd)
  PROVE  MailInv'
<1>1. /\ isnd \in Seq(IntExchanges) /\ slot \in IntExchanges \cup {NULL}
      /\ index \in 0..(Len(isnd) + IF slot = NULL THEN 0 ELSE 1)
      /\ slot # NULL => index > 0
  BY DEF MailInv, MailTypes
<1>2. /\ isnd' \in Seq(IntExchanges) /\ slot' \in IntExchanges \cup {NULL}
      /\ index' \in 0..(Len(isnd') + IF slot' = NULL THEN 0 ELSE 1)
      /\ slot' # NULL => index' > 0
  <2>1. CASE isnd' = Append(isnd, x) /\ index' = index
    BY <1>1, <2>1
  <2>2. CASE isnd' = isnd /\ index' = index
    BY <1>1, <2>2
  <2>3. CASE isnd' = isnd /\ index = 0 /\ index' = Len(isnd)
    BY <1>1, <2>3
  <2> QED
    BY <2>1, <2>2, <2>3
<1>3. Mail'
  BY Lining
<1> QED
  BY <1>2, <1>3 DEF MailInv, MailTypes

LEMMA MailStep == MailInv /\ [Next]_vars => MailInv'
<1> SUFFICES ASSUME MailInv, [Next]_vars PROVE MailInv'
  OBVIOUS
<1>1. ASSUME UNCHANGED <<link, msgq, taskq, isnd, index, slot>> PROVE MailInv'
  BY <1>1, Quitting
<1>2. CASE Interrupt
  <2>1. ASSUME NEW x \in Irqs, Notify(x) PROVE MailInv'
    <3>1. x \in IntExchanges
      BY DEF IntExchanges
    <3>2. UNCHANGED <<link, msgq, taskq, index, slot>>
      BY <2>1 DEF Notify
    <3>3. isnd' \in {isnd, Append(isnd, x)}
      BY <2>1 DEF Notify
    <3> QED
      BY <3>1, <3>2, <3>3, InterruptMail
  <2>2. CASE yalrt_timer_handler
    <3>1. DelayEx \in IntExchanges
      BY DEF IntExchanges
    <3>2. UNCHANGED <<link, msgq, taskq, index, slot>>
      BY <2>2 DEF yalrt_timer_handler, queues
    <3>3. isnd' \in {isnd, Append(isnd, DelayEx)}
      BY <2>2 DEF yalrt_timer_handler
    <3> QED
      BY <3>1, <3>2, <3>3, InterruptMail
  <2> QED
    BY <1>2, <2>1, <2>2 DEF Interrupt, reqisnd, reqssnd
<1>3. CASE Scheduler
  <2>1. CASE DrainLoad
    <3>1. DelayEx \in IntExchanges
      BY DEF IntExchanges
    <3>2. UNCHANGED <<link, msgq, taskq, isnd, slot>> /\ index = 0
          /\ index' = Len(isnd)
      BY <2>1 DEF DrainLoad, queues
    <3> QED
      BY <3>1, <3>2, InterruptMail
  <2>2. CASE Drained
    BY <1>1, <2>2 DEF Drained, queues, ints, pending, given
  <2>3. CASE Leave
    BY <1>1, <2>3 DEF Leave, queues, ints, pending, given
  <2> QED
    BY <1>3, <2>1, <2>2, <2>3, StoreMail, DrainMail DEF Scheduler
<1>4. CASE Freeze
  <2>1. ASSUME NEW t, FreezeEnter(t) PROVE MailInv'
    BY <1>1, <2>1 DEF FreezeEnter, queues, ints, pending, given
  <2>2. CASE FreezeSet
    BY <1>1, <2>2 DEF FreezeSet, queues, ints, pending, given
  <2>3. CASE reqbake
    BY <1>1, <2>3 DEF reqbake, queues, ints, pending, given
  <2> QED
    BY <1>4, <2>1, <2>2, <2>3 DEF Freeze
<1>5. CASE Delayer
  <2>1. CASE reqwait(DelayTask, DelayEx, 0)
    <3>1. DelayTask \in AllTasks /\ DelayEx \in AllExchanges
      BY Distinct DEF AllExchanges, IntExchanges
    <3> QED
      BY <2>1, <3>1, reqwaitMail
  <2>2. CASE DelayEnter
    BY <1>1, <2>2 DEF DelayEnter, queues, ints, pending, given
  <2>3. CASE DelayExpire
    BY <2>3, Quitting DEF DelayExpire, ints, pending, given
  <2>4. CASE DelayDone
    BY <1>1, <2>4 DEF DelayDone, queues, ints, pending, given
  <2> QED
    BY <1>5, <2>1, <2>2, <2>3, <2>4 DEF Delayer
<1>6. ASSUME NEW t \in Tasks \cup {Idle}, CallOf(t) PROVE MailInv'
  <2>1. t \in AllTasks
    BY DEF AllTasks
  <2>2. ASSUME NEW x \in IntExchanges, reqelvl(t, x) PROVE MailInv'
    BY <2>2, reqelvlMail
  <2>3. ASSUME NEW x, reqdlvl(t, x) \/ reqsetv(t, x) PROVE MailInv'
    BY <1>1, <2>3 DEF reqdlvl, reqsetv, pending, queues
  <2>4. ASSUME NEW m \in Messages, reqcmsg(t, m) PROVE MailInv'
    BY <2>1, <2>4, reqcmsgMail
  <2>5. ASSUME NEW m \in Messages, NEW e \in Exchanges \cup Irqs, reqsend(t, e, m)
        PROVE  MailInv'
    BY <2>1, <2>5, reqsendMail
  <2>6. ASSUME NEW e \in Exchanges \cup Irqs, reqacpt(t, e) PROVE MailInv'
    BY <2>1, <2>6, reqacptMail
  <2>7. ASSUME NEW u \in Tasks, reqctsk(t, u) PROVE MailInv'
    BY <1>1, <2>7 DEF reqctsk, ints, pending, given
  <2>8. ASSUME NEW u \in Tasks, reqdtsk(t, u) PROVE MailInv'
    BY <2>8, Quitting DEF reqdtsk, ints, pending, given
  <2>9. ASSUME NEW u \in Tasks, reqsusp(t, u) \/ reqresm(t, u) PROVE MailInv'
    BY <1>1, <2>9 DEF reqsusp, reqresm, queues, ints, pending, given
  <2> QED
    BY <1>6, <2>2, <2>3, <2>4, <2>5, <2>6, <2>7, <2>8, <2>9 DEF CallOf
<1>7. ASSUME NEW t \in Tasks, Wait(t) PROVE MailInv'
  <2>1. t \in AllTasks /\ Exchanges \cup Irqs \subseteq AllExchanges
    BY DEF AllTasks, AllExchanges, IntExchanges
  <2> QED
    BY <1>7, <2>1, reqwaitMail DEF Wait
<1>8. ASSUME NEW t, Return(t) PROVE MailInv'
  BY <1>1, <1>8 DEF Return, queues, ints, pending, given
<1>9. CASE UNCHANGED vars
  BY <1>1, <1>9 DEF vars, queues, ints, pending, given
<1> QED
  BY <1>2, <1>3, <1>4, <1>5, <1>6, <1>7, <1>8, <1>9 DEF Next

(* A message is in one queue, once, and its link tells whether it is, and  *)
(* nobody waits where a message is queued: in any program, also one that   *)
(* sends what it does not own (reqsend, reqdqmsg, exit_region).            *)
THEOREM MessagesInOnePlace == Spec => []OneHome
<1>1. Init => MailInv
  BY InitMail
<1>2. MailInv /\ [Next]_vars => MailInv'
  BY MailStep
<1>3. MailInv => OneHome
  <2> SUFFICES ASSUME MailInv PROVE OneHome
    OBVIOUS
  <2>1. \A e \in AllExchanges : msgq[e] = << >> \/ taskq[e] = << >>
    BY DEF MailInv, Mail
  <2>2. ASSUME NEW m \in AllMessages
        PROVE  Cardinality(UNION {{<<e, k>> : k \in {i \in DOMAIN msgq[e] :
                                                   msgq[e][i] = m}} :
                                  e \in AllExchanges})
                 = IF link[m] = Chained THEN 1 ELSE 0
    <3> DEFINE at == UNION {{<<e, k>> : k \in {i \in DOMAIN msgq[e] :
                                             msgq[e][i] = m}} : e \in AllExchanges}
    <3>1. CASE link[m] = Chained
      <4>1. PICK e \in AllExchanges : m \in Range(msgq[e])
        BY <3>1 DEF MailInv, Mail
      <4>2. PICK k \in DOMAIN msgq[e] : msgq[e][k] = m
        BY <4>1 DEF Range
      <4>3. \A d \in AllExchanges : \A i \in DOMAIN msgq[d] :
              msgq[d][i] = m => d = e /\ i = k
        <5> SUFFICES ASSUME NEW d \in AllExchanges, NEW i \in DOMAIN msgq[d],
                            msgq[d][i] = m
                     PROVE  d = e /\ i = k
          OBVIOUS
        <5>1. m \in Range(msgq[d]) \cap Range(msgq[e])
          BY <4>1 DEF Range
        <5>2. d = e
          BY <5>1 DEF MailInv, Mail
        <5> QED
          BY <4>2, <5>2 DEF MailInv, Mail, IsInjective
      <4>4. at = {<<e, k>>}
        BY <4>2, <4>3
      <4>5. Cardinality({<<e, k>>}) = 1
        BY FS_Singleton
      <4> QED
        BY <3>1, <4>4, <4>5
    <3>2. CASE link[m] # Chained
      <4>1. \A e \in AllExchanges : m \notin Range(msgq[e])
        BY <3>2 DEF MailInv, Mail
      <4>2. at = {}
        BY <4>1 DEF Range
      <4> QED
        BY <3>2, <4>2, FS_EmptySet
    <3> QED
      BY <3>1, <3>2
  <2> QED
    BY <2>1, <2>2 DEF OneHome
<1> QED
  BY <1>1, <1>2, <1>3, PTL DEF Spec

(* While an interrupt message stays queued, the mark that an interrupt was *)
(* missed stays on it, in any program (reqisnd, exit_region).              *)
LEMMA MarkStays ==
  ASSUME [Next]_vars, MailInv, DOMAIN type = IntExchanges,
         NEW x \in IntExchanges,
         type[x] = "missed", link[x] = Chained, link'[x] = Chained
  PROVE  type'[x] = "missed"
<1>1. x \in AllMessages /\ x \in AllExchanges /\ Self # Chained
  BY Distinct
<1>2. ASSUME type' = type PROVE type'[x] = "missed"
  BY <1>2
<1>3. link \in [AllMessages -> AllTasks \cup {NULL, Chained, Self}]
  BY DEF MailInv, MailTypes
<1>4. ASSUME NEW y \in Irqs, Notify(y) PROVE type'[x] = "missed"
  BY <1>2, <1>4 DEF Notify
<1>5. CASE Drain
  <2> DEFINE y == Popped
  <2>1. CASE Post(y)
    <3>1. type' = [type EXCEPT ![y] = IF link[y] = Self THEN "int" ELSE "missed"]
      BY <2>1 DEF Post
    <3> QED
      BY <1>1, <3>1
  <2>2. CASE /\ HandOver(y, y, "delayed" \in status[Head(taskq[y])])
             /\ type' = [type EXCEPT ![y] = "int"]
    <3>1. CASE y = x
      <4>1. link' = [link EXCEPT ![x] = Self]
        BY <2>2, <3>1 DEF HandOver
      <4> QED
        BY <1>1, <1>3, <4>1
    <3>2. CASE y # x
      BY <2>2, <3>2
    <3> QED
      BY <3>1, <3>2
  <2> QED
    BY <1>5, <2>1, <2>2 DEF Drain
<1>6. ASSUME NEW t, NEW y \in IntExchanges, reqelvl(t, y) PROVE type'[x] = "missed"
  <2>1. CASE y \in Irqs /\ msgq[y] = << >>
    <3>1. type' = [type EXCEPT ![y] = "int"] /\ link' = [link EXCEPT ![y] = Self]
      BY <1>6, <2>1 DEF reqelvl, Enable, pending
    <3>2. y # x
      BY <1>1, <1>3, <3>1
    <3> QED
      BY <3>1, <3>2
  <2>2. CASE ~(y \in Irqs /\ msgq[y] = << >>)
    BY <1>2, <1>6, <2>2 DEF reqelvl, Enable, pending
  <2> QED
    BY <2>1, <2>2
<1>7. CASE Scheduler
  <2>1. CASE DrainLoad \/ DrainStore \/ Drained \/ Leave
    BY <1>2, <2>1 DEF DrainLoad, DrainStore, Drained, Leave, queues
  <2> QED
    BY <1>5, <1>7, <2>1 DEF Scheduler
<1>8. CASE Interrupt
  <2>1. CASE yalrt_timer_handler
    BY <1>2, <2>1 DEF yalrt_timer_handler, queues
  <2> QED
    BY <1>4, <1>8, <2>1 DEF Interrupt, reqisnd, reqssnd
<1>9. CASE Freeze
  <2>1. ASSUME NEW t, FreezeEnter(t) PROVE type'[x] = "missed"
    BY <1>2, <2>1 DEF FreezeEnter, queues
  <2>2. CASE FreezeSet \/ reqbake
    BY <1>2, <2>2 DEF FreezeSet, reqbake, queues
  <2> QED
    BY <1>9, <2>1, <2>2 DEF Freeze
<1>10. ASSUME NEW t, NEW e, NEW n, reqwait(t, e, n) PROVE type'[x] = "missed"
  BY <1>2, <1>10 DEF reqwait
<1>11. CASE Delayer
  <2>1. CASE DelayEnter \/ DelayExpire \/ DelayDone
    BY <1>2, <2>1 DEF DelayEnter, DelayExpire, DelayDone, queues
  <2> QED
    BY <1>10, <1>11, <2>1 DEF Delayer
<1>12. ASSUME NEW t \in Tasks \cup {Idle}, CallOf(t) PROVE type'[x] = "missed"
  <2>1. ASSUME NEW y, reqdlvl(t, y) \/ reqsetv(t, y)
        PROVE  type'[x] = "missed"
    BY <1>2, <2>1 DEF reqdlvl, reqsetv, queues
  <2>2. ASSUME NEW m \in Messages, reqcmsg(t, m) PROVE type'[x] = "missed"
    BY <1>2, <2>2 DEF reqcmsg
  <2>3. ASSUME NEW m \in Messages, NEW e \in Exchanges \cup Irqs, reqsend(t, e, m)
        PROVE  type'[x] = "missed"
    BY <1>2, <2>3 DEF reqsend
  <2>4. ASSUME NEW e \in Exchanges \cup Irqs, reqacpt(t, e)
        PROVE  type'[x] = "missed"
    BY <1>2, <2>4 DEF reqacpt
  <2>5. ASSUME NEW u \in Tasks,
               reqctsk(t, u) \/ reqdtsk(t, u) \/ reqsusp(t, u) \/ reqresm(t, u)
        PROVE  type'[x] = "missed"
    BY <1>2, <2>5 DEF reqctsk, reqdtsk, reqsusp, reqresm, queues
  <2> QED
    BY <1>6, <1>12, <2>1, <2>2, <2>3, <2>4, <2>5 DEF CallOf
<1>13. ASSUME NEW t, Return(t) PROVE type'[x] = "missed"
  BY <1>2, <1>13 DEF Return, queues
<1>14. ASSUME NEW t, Wait(t) PROVE type'[x] = "missed"
  BY <1>10, <1>14 DEF Wait
<1>15. CASE UNCHANGED vars
  BY <1>2, <1>15 DEF vars, queues
<1> QED
  BY <1>7, <1>8, <1>9, <1>11, <1>12, <1>13, <1>14, <1>15 DEF Next

LEMMA TypeDomain == Spec => [](DOMAIN type = IntExchanges)
<1>1. Init => DOMAIN type = IntExchanges
  BY DEF Init
<1>2. (DOMAIN type = IntExchanges) /\ [Next]_vars => (DOMAIN type = IntExchanges)'
  <2> SUFFICES ASSUME DOMAIN type = IntExchanges, [Next]_vars
               PROVE  DOMAIN type' = IntExchanges
    OBVIOUS
  <2>1. CASE Interrupt
    BY <2>1 DEF Interrupt, reqisnd, reqssnd, Notify, yalrt_timer_handler, queues
  <2>2. CASE Scheduler
    <3>1. ASSUME NEW x, Post(x) PROVE DOMAIN type' = IntExchanges
      BY <3>1 DEF Post
    <3>2. CASE Drain
      BY <3>1, <3>2 DEF Drain
    <3>3. CASE DrainLoad \/ DrainStore \/ Drained \/ Leave
      BY <3>3 DEF DrainLoad, DrainStore, Drained, Leave, queues
    <3> QED
      BY <2>2, <3>2, <3>3 DEF Scheduler
  <2>3. CASE Freeze
    BY <2>3 DEF Freeze, FreezeEnter, FreezeSet, reqbake, queues
  <2>4. CASE Delayer
    BY <2>4 DEF Delayer, reqwait, DelayEnter, DelayExpire, DelayDone, queues
  <2>5. ASSUME NEW t \in Tasks \cup {Idle}, CallOf(t)
        PROVE  DOMAIN type' = IntExchanges
    BY <2>5 DEF CallOf, reqelvl, Enable, pending, reqdlvl, reqsetv, reqcmsg, reqsend, reqacpt,
                reqctsk, reqdtsk, reqsusp, reqresm, queues
  <2>6. ASSUME NEW t, Wait(t) \/ Return(t) PROVE DOMAIN type' = IntExchanges
    BY <2>6 DEF Wait, Return, reqwait, queues
  <2>7. CASE UNCHANGED vars
    BY <2>7 DEF vars, queues
  <2> QED
    BY <2>1, <2>2, <2>3, <2>4, <2>5, <2>6, <2>7 DEF Next
<1> QED
  BY <1>1, <1>2, PTL DEF Spec

THEOREM MissedRemembered == Spec => MissedStays
<1>1. Init => MailInv
  BY InitMail
<1>2. MailInv /\ [Next]_vars => MailInv'
  BY MailStep
<1>3. MailInv /\ DOMAIN type = IntExchanges /\ [Next]_vars
        => [\A x \in IntExchanges :
              type[x] = "missed" /\ link[x] = Chained /\ link'[x] = Chained
                => type'[x] = "missed"]_vars
  BY MarkStays
<1> QED
  BY <1>1, <1>2, <1>3, TypeDomain, PTL DEF Spec, MissedStays

-----------------------------------------------------------------------------
(* What holds of a task that nothing happens to.                           *)
LEMMA StillPlaced ==
  ASSUME NEW t \in AllTasks, Placed(t),
         status'[t] = status[t], exchange'[t] = exchange[t],
         (t \in Existing)' <=> t \in Existing,
         (t \in Range(lists.ready) \cup Range(saved.ready))'
           <=> t \in Range(lists.ready) \cup Range(saved.ready),
         (t \in Range(dl.seq))' <=> t \in Range(dl.seq),
         \A e \in AllExchanges : (t \in Range(taskq[e]))' <=> t \in Range(taskq[e])
  PROVE  Placed(t)'
BY DEF Placed, Blocked

LEMMA StillListed ==
  ASSUME NEW t \in AllTasks, Listed(t), status'[t] = status[t],
         (t \in Existing)' <=> t \in Existing,
         (t \in Range(lists.susp.seq))' <=> t \in Range(lists.susp.seq)
  PROVE  Listed(t)'
BY DEF Listed

(* Who is in a ready list, or in a queue.                                  *)
LEMMA ReadyFacts ==
  ASSUME SInv, NEW t \in Range(lists.ready)
  PROVE  t \in AllTasks /\ t \in Existing /\ status[t] \in {{}, {"maskint"}}
<1>1. t \in AllTasks
  BY DEF SInv, Types, Range
<1> QED
  BY <1>1 DEF SInv, Places, Placed, Kinds

LEMMA IdleReady ==
  ASSUME SInv
  PROVE  /\ Idle \in Range(lists.ready) /\ status[Idle] \in {{}, {"maskint"}}
         /\ Idle \in Existing
<1>1. lists.ready \in Seq(AllTasks) /\ Ordered(lists.ready)
  BY DEF SInv, Types, Readies
<1>2. Idle \in Range(lists.ready)
  BY <1>1, OrderedFacts
<1> QED
  BY <1>2, ReadyFacts

LEMMA WaiterFacts ==
  ASSUME SInv, NEW e \in AllExchanges, NEW w \in Range(taskq[e])
  PROVE  /\ w \in AllTasks /\ w # Idle /\ w \in Existing
         /\ status[w] = {"waiting"} \/ status[w] = {"delayed"}
         /\ exchange[w] = e
         /\ w \notin Range(lists.ready) /\ w \notin Range(saved.ready)
         /\ w \notin Range(lists.susp.seq) \/ ~Intact
         /\ w \in Range(dl.seq) <=> status[w] = {"delayed"}
         /\ \A d \in AllExchanges : d # e => w \notin Range(taskq[d])
<1>1. taskq[e] \in Seq(AllTasks)
  BY DEF SInv, Types
<1>2. w \in AllTasks
  BY <1>1 DEF Range
<1>3. Placed(w)
  BY <1>2 DEF SInv, Places
<1>4. w \in Existing /\ Blocked(w) /\ exchange[w] = e
  BY <1>3 DEF Placed
<1>5. status[w] = {"waiting"} \/ status[w] = {"delayed"}
  BY <1>3, <1>4 DEF Placed, Kinds, Blocked
<1>6. Intact => w \notin Range(lists.susp.seq)
  BY <1>2, <1>5 DEF SInv, Suspended, Listed
<1>7. w \notin Range(lists.ready) /\ w \notin Range(saved.ready)
  BY <1>3, <1>5 DEF Placed
<1>8. w # Idle
  BY <1>7, IdleReady
<1> QED
  BY <1>2, <1>3, <1>4, <1>5, <1>6, <1>7, <1>8 DEF Placed

(* Who runs, and what holds outside of a region.                           *)
LEMMA Running ==
  ASSUME SInv, NEW t, Runs(t)
  PROVE  /\ t \in AllTasks /\ t = Head(lists.ready) /\ t \in Range(lists.ready)
         /\ t \in Existing /\ status[t] = {} /\ Intact
         /\ ~rqfrozen /\ saved.ready = << >> /\ index = 0 /\ region = "out"
         /\ rqactv = t /\ cpu = t
         /\ \A u \in stacks : "deleted" \notin status[u]
         /\ ~Blocked(t)
<1>1. lists.ready \in Seq(AllTasks) /\ Ordered(lists.ready)
  BY DEF SInv, Types, Readies
<1>2. t = Head(lists.ready) /\ ~Marked(t) /\ region = "out" /\ Intact /\ ~rqfrozen
      /\ rqactv = t /\ cpu = t
  BY DEF SInv, Processor, Runs
<1>3. t \in Range(lists.ready)
  BY <1>1, <1>2, OrderedFacts
<1>4. t \in AllTasks /\ t \in Existing /\ status[t] \in {{}, {"maskint"}}
  BY <1>3, ReadyFacts
<1>5. status[t] = {}
  BY <1>2, <1>4 DEF Marked
<1>6. saved.ready = << >> /\ index = 0
  BY <1>2 DEF SInv, Readies, Processor, Types
<1>7. \A u \in stacks : "deleted" \notin status[u]
  BY <1>2 DEF SInv, Processor
<1> QED
  BY <1>2, <1>3, <1>4, <1>5, <1>6, <1>7 DEF Blocked

(* Outside of the lists and statuses the processor can be anywhere.        *)
LEMMA Framing ==
  ASSUME SInv, UNCHANGED <<lists, taskl, stacks, rqactv, cpu, status, exchange,
                           dl, rqfrozen, saved, taskq>>,
         region' \in {"out", "exit", "leave", "freeze", "delay"}, index' \in Nat,
         Processor'
  PROVE  SInv'
<1>1. Intact' <=> Intact
  BY DEF Intact
<1>2. Types' /\ Readies' /\ Timed'
  BY DEF SInv, Types, Readies, Timed, Existing, left
<1>3. Places'
  BY DEF SInv, Places, Placed, Blocked, Existing
<1>4. Suspended'
  BY <1>1 DEF SInv, Suspended, Listed, Existing
<1> QED
  BY <1>2, <1>3, <1>4 DEF SInv

(* A step that leaves all of this alone but the region.                    *)
LEMMA Moving ==
  ASSUME SInv, UNCHANGED <<lists, taskl, stacks, rqactv, cpu, status, exchange,
                           dl, rqfrozen, saved, taskq>>,
         Intact, index' \in {0, index} \/ (region' = "exit" /\ index' \in Nat),
         \/ region' = region
         \/ region = "out" /\ region' \in {"exit", "delay"}
         \/ region = "out" /\ region' = "freeze" /\ ~rqfrozen
         \/ region = "delay" /\ region' = "exit"
         \/ region = "exit" /\ region' = "leave" /\ index' = 0
  PROVE  SInv'
<1>1. Intact'
  BY DEF Intact
<1>2. region \in {"out", "exit", "leave", "freeze", "delay"} /\ index \in Nat
  BY DEF SInv, Types
<1>3. region' \in {"out", "exit", "leave", "freeze", "delay"} /\ index' \in Nat
  BY <1>2
<1>4. /\ index' > 0 => region' = "exit"
      /\ region' = "freeze" => ~rqfrozen'
  BY <1>2 DEF SInv, Processor
<1>5. Processor'
  BY <1>1, <1>2, <1>4 DEF SInv, Processor, Marked
<1> QED
  BY <1>3, <1>5, Framing

-----------------------------------------------------------------------------
(* The delay list after a task has left or joined it.                      *)
Ticks == 0..Never
Counts(s, w) ==
  /\ IsList(s, w, Tasks, Never)
  /\ \A u \in Range(s) : Left(s, w, Tasks)[u] <= Never

LEMMA Shortened ==
  ASSUME NEW s, NEW w, Counts(s, w),
         NEW t \in Range(s),
         NEW s2, s2 = RemoveAt(s, Position(s, t)),
         NEW w2, w2 = Removed(s, w, t, Never + 1)
  PROVE  /\ s2 \in Seq(Tasks) /\ w2 \in [Tasks -> 0..Never]
         /\ Counts(s2, w2)
         /\ Range(s2) = Range(s) \ {t}
         /\ Left(s2, w2, Tasks) = [Left(s, w, Tasks) EXCEPT ![t] = -1]
<1>0. /\ IsList(s, w, Tasks, Never)
      /\ \A u \in Range(s) : Left(s, w, Tasks)[u] <= Never
  BY DEF Counts
<1>1. /\ IsList(s2, w2, Tasks, Never)
      /\ Range(s2) = Range(s) \ {t}
      /\ Left(s2, w2, Tasks) = [Left(s, w, Tasks) EXCEPT ![t] = -1]
  BY <1>0, RemovalFacts
<1>2. s \in Seq(Tasks) /\ s2 \in Seq(Tasks) /\ w2 \in [Tasks -> 0..Never]
  BY <1>0, <1>1 DEF IsList
<1>3. Left(s, w, Tasks) = [u \in Tasks |-> Left(s, w, Tasks)[u]]
  BY <1>0, LeftFacts
<1>4. \A u \in Range(s2) : Left(s2, w2, Tasks)[u] <= Never
  <2> SUFFICES ASSUME NEW u \in Range(s2) PROVE Left(s2, w2, Tasks)[u] <= Never
    OBVIOUS
  <2>1. u \in Range(s) /\ u # t
    BY <1>1
  <2>2. u \in Tasks
    BY <1>2, <2>1 DEF Range
  <2>3. Left(s2, w2, Tasks)[u] = Left(s, w, Tasks)[u]
    BY <1>1, <1>3, <2>1, <2>2
  <2> QED
    BY <1>0, <2>1, <2>3
<1> QED
  BY <1>1, <1>2, <1>4 DEF Counts

LEMMA Lengthened ==
  ASSUME NEW s, NEW w, Counts(s, w),
         NEW t \in Tasks, t \notin Range(s), NEW n \in Ticks,
         NEW s2, s2 = Insertion(s, w, t, n),
         NEW w2, w2 = Inserted(s, w, t, n)
  PROVE  /\ s2 \in Seq(Tasks) /\ w2 \in [Tasks -> 0..Never]
         /\ Counts(s2, w2)
         /\ Range(s2) = Range(s) \cup {t}
         /\ Left(s2, w2, Tasks) = [Left(s, w, Tasks) EXCEPT ![t] = n]
<1>0. /\ IsList(s, w, Tasks, Never)
      /\ \A u \in Range(s) : Left(s, w, Tasks)[u] <= Never
  BY DEF Counts
<1>1. /\ IsList(s2, w2, Tasks, Never)
      /\ Range(s2) = Range(s) \cup {t}
      /\ Left(s2, w2, Tasks) = [Left(s, w, Tasks) EXCEPT ![t] = n]
  BY <1>0, InsertionFacts DEF Ticks
<1>2. s \in Seq(Tasks) /\ s2 \in Seq(Tasks) /\ w2 \in [Tasks -> 0..Never]
  BY <1>0, <1>1 DEF IsList
<1>3. Left(s, w, Tasks) = [u \in Tasks |-> Left(s, w, Tasks)[u]]
  BY <1>0, LeftFacts
<1>4. \A u \in Range(s2) : Left(s2, w2, Tasks)[u] <= Never
  <2> SUFFICES ASSUME NEW u \in Range(s2) PROVE Left(s2, w2, Tasks)[u] <= Never
    OBVIOUS
  <2>1. CASE u = t
    <3>1. Left(s2, w2, Tasks)[u] = n
      BY <1>1, <1>3, <2>1
    <3> QED
      BY <3>1, NucleusAssumption DEF Ticks
  <2>2. CASE u # t
    <3>1. u \in Range(s)
      BY <1>1, <2>2
    <3>2. u \in Tasks
      BY <1>2, <3>1 DEF Range
    <3>3. Left(s2, w2, Tasks)[u] = Left(s, w, Tasks)[u]
      BY <1>1, <1>3, <2>2, <3>2
    <3> QED
      BY <1>0, <3>1, <3>3
  <2> QED
    BY <2>1, <2>2
<1> QED
  BY <1>1, <1>2, <1>4 DEF Counts

LEMMA DelayType ==
  ASSUME SInv
  PROVE  /\ dl \in [seq : Seq(Tasks), delay : [Tasks -> 0..Never], stray : BOOLEAN]
         /\ IsList(dl.seq, dl.delay, Tasks, Never) /\ dl.stray = FALSE
         /\ \A u \in Range(dl.seq) : Left(dl.seq, dl.delay, Tasks)[u] <= Never
BY DEF SInv, Types, Timed, left

LEMMA Cancelling ==
  ASSUME SInv, NEW w \in Range(dl.seq), dl' = cancel_delay(dl, w)
  PROVE  /\ dl' \in [seq : Seq(Tasks), delay : [Tasks -> 0..Never], stray : BOOLEAN]
         /\ Timed' /\ dl'.stray = dl.stray
         /\ Range(dl'.seq) = Range(dl.seq) \ {w}
         /\ left' = [left EXCEPT ![w] = -1]
<1>1. PICK s, d : s = dl.seq /\ d = dl.delay
  OBVIOUS
<1> PICK s2, w2 : /\ s2 = RemoveAt(s, Position(s, w))
                 /\ w2 = Removed(s, d, w, Never + 1)
  OBVIOUS
<1>2. dl' = [dl EXCEPT !.seq = s2, !.delay = w2]
  BY <1>1 DEF cancel_delay
<1>0. Counts(s, d)
  BY <1>1, DelayType DEF Counts
<1>3. /\ s2 \in Seq(Tasks) /\ w2 \in [Tasks -> 0..Never]
      /\ Counts(s2, w2)
      /\ Range(s2) = Range(s) \ {w}
      /\ Left(s2, w2, Tasks) = [Left(s, d, Tasks) EXCEPT ![w] = -1]
  BY <1>0, <1>1, Shortened
<1>4. dl'.seq = s2 /\ dl'.delay = w2 /\ dl'.stray = FALSE /\ dl.stray = FALSE
      /\ dl' \in [seq : Seq(Tasks), delay : [Tasks -> 0..Never], stray : BOOLEAN]
  BY <1>2, <1>3, DelayType
<1>5. Timed'
  BY <1>3, <1>4 DEF Timed, left, Counts
<1> QED
  BY <1>1, <1>3, <1>4, <1>5 DEF left

LEMMA Delaying ==
  ASSUME SInv, NEW w \in Tasks, w \notin Range(dl.seq), NEW n \in Ticks,
         dl' = insert_delay(dl, w, n)
  PROVE  /\ dl' \in [seq : Seq(Tasks), delay : [Tasks -> 0..Never], stray : BOOLEAN]
         /\ Timed' /\ dl'.stray = dl.stray
         /\ Range(dl'.seq) = Range(dl.seq) \cup {w}
         /\ left' = [left EXCEPT ![w] = n]
<1>1. PICK s, d : s = dl.seq /\ d = dl.delay
  OBVIOUS
<1> PICK s2, w2 : /\ s2 = Insertion(s, d, w, n)
                 /\ w2 = Inserted(s, d, w, n)
  OBVIOUS
<1>2. dl' = [dl EXCEPT !.seq = s2, !.delay = w2]
  BY <1>1 DEF insert_delay
<1>0. Counts(s, d)
  BY <1>1, DelayType DEF Counts
<1>00. w \notin Range(s)
  BY <1>1
<1>3. /\ s2 \in Seq(Tasks) /\ w2 \in [Tasks -> 0..Never]
      /\ Counts(s2, w2)
      /\ Range(s2) = Range(s) \cup {w}
      /\ Left(s2, w2, Tasks) = [Left(s, d, Tasks) EXCEPT ![w] = n]
  BY <1>0, <1>00, Lengthened
<1>4. dl'.seq = s2 /\ dl'.delay = w2 /\ dl'.stray = FALSE /\ dl.stray = FALSE
      /\ dl' \in [seq : Seq(Tasks), delay : [Tasks -> 0..Never], stray : BOOLEAN]
  BY <1>2, <1>3, DelayType
<1>5. Timed'
  BY <1>3, <1>4 DEF Timed, left, Counts
<1> QED
  BY <1>1, <1>3, <1>4, <1>5 DEF left

(* A tick.                                                                 *)
LEMMA Ticking ==
  ASSUME SInv, yalrt_timer_handler
  PROVE  /\ dl' \in [seq : Seq(Tasks), delay : [Tasks -> 0..Never], stray : BOOLEAN]
         /\ Timed' /\ dl'.stray = dl.stray
         /\ dl'.seq = dl.seq
         /\ \/ left' = left
            \/ /\ \A t \in Tasks : left[t] # 0
               /\ left' = [t \in Tasks |-> IF left[t] # -1 THEN left[t] - 1 ELSE -1]
<1>1. CASE FirstDelay \in {0, Never}
  <2>1. dl' = dl
    BY <1>1 DEF yalrt_timer_handler
  <2> QED
    BY <2>1, DelayType DEF SInv, Timed, left
<1>2. CASE FirstDelay \notin {0, Never}
  <2>1. IsList(dl.seq, dl.delay, Tasks, Never) /\ Never \in Nat \ {0}
    BY DelayType, NucleusAssumption
  <2>2. dl.seq # << >>
    BY <1>2 DEF FirstDelay, First
  <2>3. FirstDelay = dl.delay[Head(dl.seq)]
    BY <2>2 DEF FirstDelay, First
  <2>4. PICK s, w, w2 : /\ s = dl.seq /\ w = dl.delay
                        /\ w2 = [w EXCEPT ![Head(s)] = @ - 1]
    OBVIOUS
  <2>5. /\ IsList(s, w2, Tasks, Never)
        /\ Left(s, w2, Tasks) =
             [u \in Tasks |-> IF u \in Range(s) THEN Left(s, w, Tasks)[u] - 1 ELSE -1]
    BY <1>2, <2>1, <2>2, <2>3, <2>4, CountingFacts
  <2>6. dl' = [dl EXCEPT !.delay = w2]
    BY <1>2, <2>4, DelayType DEF yalrt_timer_handler
  <2>7. dl'.seq = s /\ dl'.delay = w2 /\ dl'.stray = FALSE /\ dl.stray = FALSE
        /\ dl' \in [seq : Seq(Tasks), delay : [Tasks -> 0..Never], stray : BOOLEAN]
    BY <2>4, <2>5, <2>6, DelayType DEF IsList
  <2>8. \A u \in Tasks : u \notin Range(s) => Left(s, w, Tasks)[u] = -1
    BY <2>1, <2>4, LeftFacts
  <2>9. /\ \A u \in Range(s) : Left(s, w, Tasks)[u] \in Nat /\ Left(s, w, Tasks)[u] # 0
    BY <1>2, <2>1, <2>3, <2>4, FirstLeft DEF FirstDelay
  <2>10. Range(s) \subseteq Tasks
    BY <2>1, <2>4 DEF IsList, Range
  <2>11. left = Left(s, w, Tasks) /\ left' = Left(s, w2, Tasks)
    BY <2>4, <2>7 DEF left
  <2>12. \A t \in Tasks : left[t] # 0
    BY <2>8, <2>9, <2>11
  <2>13. left' = [t \in Tasks |-> IF left[t] # -1 THEN left[t] - 1 ELSE -1]
    BY <2>5, <2>8, <2>9, <2>11
  <2>14. \A u \in Range(s) : left'[u] <= Never
    <3> SUFFICES ASSUME NEW u \in Range(s) PROVE left'[u] <= Never
      OBVIOUS
    <3>1. left[u] \in Nat /\ left[u] <= Never /\ u \in Tasks
      BY <2>4, <2>9, <2>10, <2>11, DelayType
    <3>2. left'[u] = left[u] - 1
      BY <2>13, <3>1
    <3> QED
      BY <2>1, <3>1, <3>2
  <2>15. Timed'
    BY <2>5, <2>7, <2>14 DEF Timed
  <2> QED
    BY <2>4, <2>7, <2>12, <2>13, <2>15
<1> QED
  BY <1>1, <1>2
-----------------------------------------------------------------------------
(* A step moves at most one task, u: all that is to be shown of places is  *)
(* that u's is right.                                                      *)
LEMMA Others ==
  ASSUME SInv, NEW u,
         \A t \in AllTasks \ {u} : /\ status'[t] = status[t]
                                   /\ exchange'[t] = exchange[t]
                                   /\ t \in Existing' <=> t \in Existing,
         (Range(lists.ready) \cup Range(saved.ready))' \ {u}
           = (Range(lists.ready) \cup Range(saved.ready)) \ {u},
         Range(dl'.seq) \ {u} = Range(dl.seq) \ {u},
         \A e \in AllExchanges : /\ IsInjective(taskq'[e])
                                 /\ Range(taskq'[e]) \ {u} = Range(taskq[e]) \ {u},
         u \in AllTasks => Placed(u)',
         Intact' => /\ Intact /\ IsInjective(lists'.susp.seq)
                    /\ Range(lists'.susp.seq) \ {u} = Range(lists.susp.seq) \ {u}
                    /\ u \in AllTasks => Listed(u)'
  PROVE  Places' /\ Suspended'
<1>1. \A t \in AllTasks : Placed(t)'
  <2> SUFFICES ASSUME NEW t \in AllTasks, t # u PROVE Placed(t)'
    OBVIOUS
  <2>1. Placed(t)
    BY DEF SInv, Places
  <2>2. (t \in Range(lists.ready) \cup Range(saved.ready))'
          <=> t \in Range(lists.ready) \cup Range(saved.ready)
    OBVIOUS
  <2>3. (t \in Range(dl.seq))' <=> t \in Range(dl.seq)
    OBVIOUS
  <2>4. \A e \in AllExchanges : (t \in Range(taskq[e]))' <=> t \in Range(taskq[e])
    OBVIOUS
  <2> QED
    BY <2>1, <2>2, <2>3, <2>4, StillPlaced
<1>2. ASSUME Intact' PROVE IsInjective(lists'.susp.seq) /\ \A t \in AllTasks : Listed(t)'
  <2> SUFFICES ASSUME NEW t \in AllTasks, t # u PROVE Listed(t)'
    BY <1>2
  <2>1. Listed(t)
    BY <1>2 DEF SInv, Suspended
  <2>2. (t \in Range(lists.susp.seq))' <=> t \in Range(lists.susp.seq)
    BY <1>2
  <2> QED
    BY <2>1, <2>2, StillListed
<1> QED
  BY <1>1, <1>2 DEF Places, Suspended

(* The parts of the invariant without the definitions around them.         *)
LEMMA Parts ==
  ASSUME SInv
  PROVE  /\ lists \in [ready : Seq(AllTasks), susp : List(Tasks)]
         /\ lists.ready \in Seq(AllTasks) /\ Ordered(lists.ready)
         /\ lists.susp \in List(Tasks)
         /\ status \in [AllTasks -> SUBSET Bits]
         /\ exchange \in [AllTasks -> AllExchanges \cup {NULL}]
         /\ taskq \in [AllExchanges -> Seq(AllTasks)]
         /\ \A e \in AllExchanges : taskq[e] \in Seq(AllTasks) /\ IsInjective(taskq[e])
         /\ saved.ready \in Seq(AllTasks)
         /\ Range(lists.ready) \cap Range(saved.ready) \subseteq {Idle}
         /\ \A t \in AllTasks : Placed(t)
         /\ Intact => IsInjective(lists.susp.seq) /\ \A t \in AllTasks : Listed(t)
<1>1. /\ lists \in [ready : Seq(AllTasks), susp : List(Tasks)]
      /\ status \in [AllTasks -> SUBSET Bits]
      /\ exchange \in [AllTasks -> AllExchanges \cup {NULL}]
      /\ taskq \in [AllExchanges -> Seq(AllTasks)]
      /\ saved.ready \in Seq(AllTasks)
  BY DEF SInv, Types
<1>2. /\ lists.ready \in Seq(AllTasks) /\ lists.susp \in List(Tasks)
      /\ \A e \in AllExchanges : taskq[e] \in Seq(AllTasks)
  BY <1>1
<1>3. Ordered(lists.ready) /\ Range(lists.ready) \cap Range(saved.ready) \subseteq {Idle}
  BY DEF SInv, Readies
<1>4. /\ \A e \in AllExchanges : IsInjective(taskq[e])
      /\ \A t \in AllTasks : Placed(t)
      /\ Intact => IsInjective(lists.susp.seq) /\ \A t \in AllTasks : Listed(t)
  BY DEF SInv, Places, Suspended
<1> QED
  BY <1>1, <1>2, <1>3, <1>4

(* A task that waits at e is made ready.                                   *)
LEMMA Waking ==
  ASSUME SInv, Intact, NEW e \in AllExchanges, NEW w \in Range(taskq[e]),
         NEW q, taskq' = [taskq EXCEPT ![e] = q],
         q \in Seq(AllTasks), IsInjective(q), Range(q) = Range(taskq[e]) \ {w},
         status' = [status EXCEPT ![w] = {}],
         lists' = enterlist(lists, {}, w),
         dl' = IF status[w] = {"delayed"} THEN cancel_delay(dl, w) ELSE dl,
         UNCHANGED <<exchange, taskl, stacks, rqactv, cpu, rqfrozen, saved>>,
         index' \in {0, index}, region # "exit" => index' = 0,
         \/ region' = region /\ region \in {"exit", "delay"}
         \/ region' = "exit" /\ region = "out"
  PROVE  SInv'
<1>1. /\ w \in AllTasks /\ w # Idle /\ w \in Existing
      /\ status[w] = {"waiting"} \/ status[w] = {"delayed"}
      /\ exchange[w] = e
      /\ w \notin Range(lists.ready) /\ w \notin Range(saved.ready)
      /\ w \notin Range(lists.susp.seq)
      /\ w \in Range(dl.seq) <=> status[w] = {"delayed"}
      /\ \A d \in AllExchanges : d # e => w \notin Range(taskq[d])
  BY WaiterFacts
<1>2. /\ lists' \in [ready : Seq(AllTasks), susp : List(Tasks)]
      /\ lists'.susp = lists.susp /\ Ordered(lists'.ready)
      /\ Range(lists'.ready) = Range(lists.ready) \cup {w}
      /\ \A c \in Range(lists.ready) : Ahead(lists.ready, c) => Ahead(lists'.ready, c)
  BY <1>1, Entering, Parts
<1>3. /\ dl' \in [seq : Seq(Tasks), delay : [Tasks -> 0..Never], stray : BOOLEAN]
      /\ Timed' /\ dl'.stray = dl.stray
      /\ Range(dl'.seq) = Range(dl.seq) \ {w}
  <2>1. CASE status[w] = {"delayed"}
    BY <1>1, <2>1, Cancelling
  <2>2. CASE status[w] # {"delayed"}
    <3>1. dl' = dl
      BY <2>2
    <3> QED
      BY <1>1, <2>2, <3>1, DelayType DEF SInv, Timed, left
  <2> QED
    BY <2>1, <2>2
<1>4. \A t \in AllTasks : status'[t] = IF t = w THEN {} ELSE status[t]
  BY Parts
<1>5. \A d \in AllExchanges : taskq'[d] = IF d = e THEN q ELSE taskq[d]
  BY Parts
<1>6. Intact' /\ Existing' = Existing
  <2>1. Intact'
    BY <1>2, <1>3 DEF Intact
  <2>2. \A t : t \in stacks \cup {Idle} => t \in AllTasks
    BY DEF SInv, Types, AllTasks
  <2>3. Existing' = Existing
    BY <1>1, <1>4, <2>2 DEF Existing
  <2> QED
    BY <2>1, <2>3
<1>7. Types'
  <2>1. status' \in [AllTasks -> SUBSET Bits]
    BY <1>1, Parts
  <2>2. taskq' \in [AllExchanges -> Seq(AllTasks)]
    BY Parts
  <2>3. index' \in Nat /\ region' \in {"out", "exit", "leave", "freeze", "delay"}
    BY DEF SInv, Types
  <2> QED
    BY <1>2, <1>3, <2>1, <2>2, <2>3 DEF SInv, Types
<1>8. Readies'
  BY <1>1, <1>2, <1>6 DEF SInv, Readies
<1>9. Places' /\ Suspended'
  <2>1. Placed(w)'
    <3>1. status'[w] = {} /\ w \in Existing'
      BY <1>1, <1>4, <1>6
    <3>2. \A d \in AllExchanges : w \notin Range(taskq'[d])
      BY <1>1, <1>5
    <3>3. w \in Range(lists'.ready) /\ w \notin Range(dl'.seq)
      BY <1>2, <1>3
    <3> QED
      BY <3>1, <3>2, <3>3 DEF Placed, Kinds, Blocked
  <2>2. Listed(w)'
    <3>1. status'[w] = {} /\ w \notin Range(lists'.susp.seq)
      BY <1>1, <1>2, <1>4
    <3> QED
      BY <3>1 DEF Listed
  <2>3. \A d \in AllExchanges : /\ IsInjective(taskq'[d])
                                /\ Range(taskq'[d]) \ {w} = Range(taskq[d]) \ {w}
    BY <1>5, Parts
  <2>4. Range(dl'.seq) \ {w} = Range(dl.seq) \ {w}
    BY <1>3
  <2>5. (Range(lists.ready) \cup Range(saved.ready))' \ {w}
           = (Range(lists.ready) \cup Range(saved.ready)) \ {w}
    BY <1>2
  <2>6. \A t \in AllTasks \ {w} : /\ status'[t] = status[t]
                                  /\ exchange'[t] = exchange[t]
                                  /\ t \in Existing' <=> t \in Existing
    BY <1>4, <1>6
  <2>7. /\ IsInjective(lists'.susp.seq)
        /\ Range(lists'.susp.seq) \ {w} = Range(lists.susp.seq) \ {w}
    BY <1>2, Parts
  <2> QED
    BY <2>1, <2>2, <2>3, <2>4, <2>5, <2>6, <2>7, Others
<1>10. Processor'
  <2>1. cpu \in AllTasks /\ stacks \subseteq AllTasks
    BY DEF SInv, Types
  <2>2. \A t \in AllTasks : Marked(t)' => t # w /\ Marked(t)
    BY <1>4 DEF Marked
  <2>3. cpu = rqactv /\ Marked(cpu)' =>
          cpu \in Range(lists'.ready) /\ Ahead(lists'.ready, cpu)
    BY <1>2, <2>1, <2>2 DEF SInv, Processor
  <2>4. \A t \in stacks : "deleted" \in status'[t] => "deleted" \in status[t]
    BY <1>4, <2>1
  <2>5. \A t \in stacks : "deleted" \in status'[t] => t = rqactv /\ region' = "exit"
    BY <2>4 DEF SInv, Processor
  <2>6. index' > 0 => region' = "exit"
    OBVIOUS
  <2> QED
    BY <1>6, <2>3, <2>5, <2>6 DEF Processor
<1> QED
  BY <1>3, <1>7, <1>8, <1>9, <1>10 DEF SInv

(* An interrupt in the context of the task that runs, or in a region.      *)
LEMMA Interrupting ==
  ASSUME SInv, Intact, cpu = rqactv, Interrupted \/ UNCHANGED <<region, status>>,
         UNCHANGED <<lists, taskl, stacks, rqactv, cpu, exchange, rqfrozen, saved,
                     taskq, index>>,
         dl' \in [seq : Seq(Tasks), delay : [Tasks -> 0..Never], stray : BOOLEAN],
         Timed', dl'.seq = dl.seq, dl'.stray = dl.stray
  PROVE  SInv'
<1>0. Intact'
  BY DEF Intact
<1>1. CASE UNCHANGED <<region, status>>
  <2>1. Types' /\ Readies'
    BY <1>1 DEF SInv, Types, Readies, Existing
  <2>2. Places'
    BY <1>1 DEF SInv, Places, Placed, Blocked, Existing
  <2>3. Suspended'
    BY <1>1 DEF SInv, Suspended, Listed, Existing
  <2>4. Processor'
    BY <1>0, <1>1 DEF SInv, Processor, Marked
  <2> QED
    BY <2>1, <2>2, <2>3, <2>4 DEF SInv
<1>2. CASE /\ region = "out" /\ region' = "exit"
           /\ status' = [status EXCEPT ![rqactv] = @ \cup {"maskint"}]
  <2>1. rqactv = Head(lists.ready) /\ ~Marked(rqactv) /\ index = 0
        /\ \A t \in stacks : "deleted" \notin status[t]
    BY <1>2 DEF SInv, Processor, Types
  <2>2. rqactv \in Range(lists.ready)
    BY <2>1, OrderedFacts, Parts
  <2>3. rqactv \in AllTasks /\ rqactv \in Existing /\ status[rqactv] = {}
    BY <2>1, <2>2, ReadyFacts DEF Marked
  <2>4. \A t \in AllTasks : status'[t] = IF t = rqactv THEN {"maskint"} ELSE status[t]
    BY <1>2, <2>3, Parts
  <2>5. Existing' = Existing /\ stacks \subseteq AllTasks
    <3>1. \A t : t \in stacks \cup {Idle} => t \in AllTasks
      BY DEF SInv, Types, AllTasks
    <3> QED
      BY <2>3, <2>4, <3>1 DEF Existing
  <2>6. Types'
    <3>1. status' \in [AllTasks -> SUBSET Bits]
      BY <1>2, Parts DEF Bits
    <3> QED
      BY <1>2, <3>1 DEF SInv, Types
  <2>7. Readies'
    BY <2>5 DEF SInv, Readies
  <2>8. Places' /\ Suspended'
    <3>1. Placed(rqactv)
      BY <2>3, Parts
    <3>2. Placed(rqactv)'
      BY <2>2, <2>3, <2>4, <2>5, <3>1 DEF Placed, Kinds, Blocked
    <3>3. Listed(rqactv)'
      BY <2>3, <2>4, Parts DEF Listed
    <3>4. \A t \in AllTasks \ {rqactv} : /\ status'[t] = status[t]
                                         /\ exchange'[t] = exchange[t]
                                         /\ t \in Existing' <=> t \in Existing
      BY <2>4, <2>5
    <3>5. \A e \in AllExchanges : IsInjective(taskq'[e])
      BY Parts
    <3>6. IsInjective(lists'.susp.seq)
      BY Parts
    <3> QED
      BY <3>2, <3>3, <3>4, <3>5, <3>6, Others
  <2>9. Processor'
    <3>1. Ahead(lists.ready, cpu)
      <4>1. Len(lists.ready) \in Nat \ {0} /\ lists.ready[1] = cpu
            /\ DOMAIN lists.ready = 1..Len(lists.ready)
        BY <2>1, OrderedFacts, Parts
      <4>2. \A i \in 1..Len(lists.ready) : lists.ready[i] = cpu => i = 1
        <5>1. IsInjective(lists.ready)
          BY Parts DEF Ordered
        <5>2. \A i, j \in 1..Len(lists.ready) :
                lists.ready[i] = lists.ready[j] => i = j
          BY <4>1, <5>1 DEF IsInjective
        <5> QED
          BY <4>1, <5>2
      <4> QED
        BY <4>1, <4>2 DEF Ahead
    <3>2. \A t \in stacks : "deleted" \notin status'[t]
      BY <2>1, <2>4, <2>5
    <3> QED
      BY <1>0, <1>2, <2>1, <2>2, <3>1, <3>2 DEF Processor
  <2> QED
    BY <2>6, <2>7, <2>8, <2>9 DEF SInv
<1> QED
  BY <1>1, <1>2 DEF Interrupted
-----------------------------------------------------------------------------
(* The switch at the end of exit_region.                                   *)
LEMMA Leaving ==
  ASSUME SInv, Contexts, Leave
  PROVE  SInv'
<1>0. PICK next : next = Head(lists.ready)
  OBVIOUS
<1>1. /\ Intact /\ index = 0
      /\ region = "leave" /\ region' = "out" /\ rqactv' = next
      /\ cpu' = IF next = rqactv THEN cpu ELSE context[next]
      /\ stacks' = IF next # rqactv /\ "deleted" \in status[rqactv]
                   THEN stacks \ {rqactv} ELSE stacks
      /\ status' = [status EXCEPT ![next] = @ \ {"maskint"}]
      /\ UNCHANGED <<lists, exchange, taskq, index, rqfrozen, saved, taskl, dl>>
  BY <1>0 DEF SInv, Types, Processor, Leave, queues, ints, pending, given, frozen
<1>2. next \in Range(lists.ready)
  BY <1>0, OrderedFacts, Parts
<1>3. next \in AllTasks /\ next \in Existing /\ status[next] \in {{}, {"maskint"}}
  BY <1>2, ReadyFacts
<1>4. \A t \in AllTasks : status'[t] = IF t = next THEN {} ELSE status[t]
  BY <1>1, <1>3, Parts
<1>5. stacks \subseteq AllTasks /\ rqactv \in AllTasks /\ cpu \in AllTasks
  BY DEF SInv, Types
<1>6. Existing' = Existing
  <2>1. Idle \in AllTasks /\ next \in stacks \cup {Idle} /\ "deleted" \notin status[next]
    BY <1>3 DEF AllTasks, Existing
  <2>2. \A t \in AllTasks : "deleted" \in status'[t] <=> "deleted" \in status[t]
    BY <1>4, <2>1
  <2>3. \A t \in AllTasks : t \in stacks' <=> /\ t \in stacks
                              /\ ~(next # rqactv /\ "deleted" \in status[rqactv] /\ t = rqactv)
    BY <1>1
  <2>4. \A t \in AllTasks : t \in Existing' <=> t \in Existing
    BY <1>1, <2>2, <2>3 DEF Existing
  <2>5. Existing \subseteq AllTasks /\ Existing' \subseteq AllTasks
    BY <1>1, <1>5, <2>1 DEF Existing
  <2> QED
    BY <2>4, <2>5
<1>7. Types'
  <2>1. status' \in [AllTasks -> SUBSET Bits]
    BY <1>1, <1>3, Parts
  <2>2. cpu' \in AllTasks /\ rqactv' \in AllTasks /\ stacks' \subseteq AllTasks
    BY <1>1, <1>3, <1>5 DEF Contexts
  <2> QED
    BY <1>1, <2>1, <2>2 DEF SInv, Types
<1>8. Readies'
  BY <1>1, <1>6 DEF SInv, Readies
<1>9. Places' /\ Suspended'
  <2>1. Placed(next)'
    <3>1. Placed(next)
      BY <1>3, Parts
    <3>2. status'[next] = {} /\ "delayed" \notin status[next] /\ ~Blocked(next)
      BY <1>3, <1>4 DEF Blocked
    <3>3. status'[next] = {} /\ next \in Existing'
      BY <1>3, <1>6, <3>2
    <3> QED
      BY <1>1, <1>2, <1>3, <3>1, <3>2, <3>3 DEF Placed, Kinds, Blocked
  <2>2. Intact' => Listed(next)'
    <3>1. next \notin Range(lists.susp.seq)
      BY <1>1, <1>3, Parts DEF Listed
    <3> QED
      BY <1>1, <1>3, <1>4, <3>1 DEF Listed
  <2>3. \A t \in AllTasks \ {next} : /\ status'[t] = status[t]
                                     /\ exchange'[t] = exchange[t]
                                     /\ t \in Existing' <=> t \in Existing
    BY <1>1, <1>4, <1>6
  <2>4. /\ \A e \in AllExchanges : IsInjective(taskq'[e])
        /\ IsInjective(lists'.susp.seq)
    BY <1>1, Parts
  <2> QED
    BY <1>1, <2>1, <2>2, <2>3, <2>4, Others
<1>10. Processor'
  <2>1. \A t \in AllTasks : Marked(t)' => t # next /\ Marked(t)
    BY <1>4 DEF Marked
  <2>2. ~Marked(rqactv)' /\ rqactv' = Head(lists'.ready)
    BY <1>0, <1>1, <1>3, <1>4 DEF Marked
  <2>4. \A t \in stacks' : "deleted" \notin status'[t]
    <3> SUFFICES ASSUME NEW t \in stacks', "deleted" \in status'[t] PROVE FALSE
      OBVIOUS
    <3>1. t \in stacks /\ t \in AllTasks
      BY <1>1, <1>5
    <3>2. t # next /\ "deleted" \in status[t]
      BY <1>4, <3>1
    <3>3. t = rqactv
      BY <3>1, <3>2 DEF SInv, Processor
    <3> QED
      BY <1>1, <3>2, <3>3
  <2>5. Intact'
    BY <1>1 DEF Intact
  <2> QED
    BY <1>1, <2>2, <2>4, <2>5 DEF Processor
<1>11. Timed'
  BY <1>1 DEF SInv, Timed, left
<1> QED
  BY <1>7, <1>8, <1>9, <1>10, <1>11 DEF SInv

-----------------------------------------------------------------------------
LEMMA Nobody == Range(<< >>) = {}
BY DEF Range

LEMMA NoExchange == NULL \notin AllExchanges
BY NucleusAssumption

(* The calls.  While t is in one, nobody else's record tells that it was   *)
(* deleted, and t's own was not marked.                                    *)
LEMMA Calling ==
  ASSUME SInv, NEW t, Runs(t),
         region' = "exit", UNCHANGED <<rqactv, cpu, index>>,
         ~Marked(t)',
         \A u \in stacks' : "deleted" \in status'[u] => u = t
  PROVE  Processor'
<1>1. rqactv = t /\ cpu = t /\ index = 0
  BY Running
<1>2. ~Marked(cpu)'
  BY <1>1 DEF Marked
<1> QED
  BY <1>1, <1>2 DEF Processor

(* reqwait or reqacpt that gets a message, or reqacpt that gets none: only *)
(* the caller's exchange is another.                                       *)
LEMMA Accepting ==
  ASSUME SInv, NEW t, Runs(t), NEW e \in AllExchanges,
         exchange' = [exchange EXCEPT ![t] = e], region' = "exit",
         UNCHANGED <<lists, rqactv, cpu, status, taskq, index, rqfrozen, saved,
                     taskl, stacks, dl>>
  PROVE  SInv'
<1>1. /\ t \in AllTasks /\ t \in Existing /\ status[t] = {} /\ ~Blocked(t)
      /\ \A u \in stacks : "deleted" \notin status[u]
  BY Running
<1>2. Existing' = Existing
  BY DEF Existing
<1>3. Types'
  <2>1. exchange' \in [AllTasks -> AllExchanges \cup {NULL}]
    BY Parts
  <2> QED
    BY <2>1 DEF SInv, Types
<1>4. Readies' /\ Timed'
  BY <1>2 DEF SInv, Readies, Timed, left
<1>5. Places' /\ Suspended'
  <2>1. Placed(t)'
    <3>1. Placed(t)
      BY <1>1, Parts
    <3>2. ~Blocked(t)'
      BY <1>1 DEF Blocked
    <3> QED
      BY <1>1, <1>2, <3>1, <3>2 DEF Placed
  <2>2. Intact' => Intact /\ Listed(t)'
    BY <1>1, <1>2, Parts DEF Listed, Intact
  <2>3. \A u \in AllTasks \ {t} : /\ status'[u] = status[u]
                                  /\ exchange'[u] = exchange[u]
                                  /\ u \in Existing' <=> u \in Existing
    BY <1>2, Parts
  <2>4. /\ \A d \in AllExchanges : IsInjective(taskq'[d])
        /\ Intact => IsInjective(lists'.susp.seq)
    BY Parts
  <2> QED
    BY <2>1, <2>2, <2>3, <2>4, Others
<1>6. Processor'
  BY <1>1, Calling DEF Marked
<1> QED
  BY <1>3, <1>4, <1>5, <1>6 DEF SInv

(* reqwait that gets none.                                                 *)
LEMMA Blocking ==
  ASSUME SInv, NEW t, Runs(t), t # Idle, NEW e \in AllExchanges, NEW n \in Ticks,
         n # 0 => t \in Tasks,
         exchange' = [exchange EXCEPT ![t] = e], region' = "exit",
         lists' = [lists EXCEPT !.ready = Tail(@)],
         taskq' = [taskq EXCEPT ![e] = Append(@, t)],
         dl' = IF n = 0 THEN dl ELSE insert_delay(dl, t, n),
         status' = [status EXCEPT ![t] = @ \cup {IF n = 0 THEN "waiting" ELSE "delayed"}],
         UNCHANGED <<rqactv, cpu, index, rqfrozen, saved, taskl, stacks>>
  PROVE  SInv'
<1>1. /\ t \in AllTasks /\ t \in Existing /\ status[t] = {} /\ ~Blocked(t)
      /\ \A u \in stacks : "deleted" \notin status[u]
      /\ t = Head(lists.ready) /\ t \in Range(lists.ready)
      /\ ~rqfrozen /\ saved.ready = << >> /\ Intact
  BY Running
<1>2. /\ lists' \in [ready : Seq(AllTasks), susp : List(Tasks)]
      /\ lists'.susp = lists.susp /\ lists'.ready \in Seq(AllTasks) /\ Ordered(lists'.ready)
      /\ Range(lists'.ready) = Range(lists.ready) \ {t}
  <2>1. /\ Tail(lists.ready) \in Seq(AllTasks) /\ Ordered(Tail(lists.ready))
        /\ Range(Tail(lists.ready)) = Range(lists.ready) \ {t}
    BY <1>1, OrderedTail, Parts
  <2> QED
    BY <2>1, Parts
<1>3. Placed(t) /\ Listed(t)
  BY <1>1, Parts
<1>4. t \notin Range(dl.seq) /\ (\A d \in AllExchanges : t \notin Range(taskq[d]))
      /\ t \notin Range(lists.susp.seq)
  BY <1>1, <1>3 DEF Placed, Listed
<1>5. /\ dl' \in [seq : Seq(Tasks), delay : [Tasks -> 0..Never], stray : BOOLEAN]
      /\ Timed' /\ dl'.stray = dl.stray
      /\ Range(dl'.seq) = IF n = 0 THEN Range(dl.seq) ELSE Range(dl.seq) \cup {t}
  <2>1. CASE n = 0
    BY <2>1, DelayType DEF SInv, Timed, left
  <2>2. CASE n # 0
    BY <1>4, <2>2, Delaying
  <2> QED
    BY <2>1, <2>2
<1>6. /\ Append(taskq[e], t) \in Seq(AllTasks) /\ IsInjective(Append(taskq[e], t))
      /\ Range(Append(taskq[e], t)) = Range(taskq[e]) \cup {t}
  BY <1>1, <1>4, AppendFacts, Parts
<1>7. PICK q : q = Append(taskq[e], t)
  OBVIOUS
<1>8. \A d \in AllExchanges : taskq'[d] = IF d = e THEN q ELSE taskq[d]
  BY <1>7, Parts
<1>9. PICK b \in {"waiting", "delayed"} : /\ b = "delayed" <=> n # 0
          /\ \A u \in AllTasks : status'[u] = IF u = t THEN {b} ELSE status[u]
  <2>1. CASE n = 0
    BY <1>1, <2>1, Parts
  <2>2. CASE n # 0
    BY <1>1, <2>2, Parts
  <2> QED
    BY <2>1, <2>2
<1>10. Existing' = Existing /\ Intact'
  <2>1. \A u : u \in stacks \cup {Idle} => u \in AllTasks
    BY DEF SInv, Types, AllTasks
  <2> QED
    BY <1>1, <1>2, <1>5, <1>9, <2>1 DEF Existing, Intact
<1>11. Types'
  <2>1. exchange' \in [AllTasks -> AllExchanges \cup {NULL}]
    BY Parts
  <2>2. taskq' \in [AllExchanges -> Seq(AllTasks)]
    BY <1>6, Parts
  <2>3. status' \in [AllTasks -> SUBSET Bits]
    BY <1>1, Parts DEF Bits
  <2> QED
    BY <1>2, <1>5, <2>1, <2>2, <2>3 DEF SInv, Types
<1>12. Readies'
  BY <1>1, <1>2, <1>10 DEF SInv, Readies
<1>13. Places' /\ Suspended'
  <2>1. Placed(t)'
    <3>1. status'[t] = {b} /\ t \in Existing' /\ exchange'[t] = e /\ e # NULL
      <4>1. status'[t] = {b} /\ t \in Existing'
        BY <1>1, <1>9, <1>10
      <4>2. exchange'[t] = e
        BY <1>1, Parts
      <4> QED
        BY <4>1, <4>2, NoExchange
    <3>2. t \notin Range(lists'.ready) \cup Range(saved'.ready)
      BY <1>1, <1>2, Nobody
    <3>3. t \in Range(dl'.seq) <=> b = "delayed"
      BY <1>4, <1>5, <1>9
    <3>4. \A d \in AllExchanges : t \in Range(taskq'[d]) <=> d = e
      BY <1>4, <1>6, <1>7, <1>8
    <3>5. Blocked(t)' /\ status'[t] \in Kinds /\ ~(status'[t] \subseteq {"maskint"})
      BY <3>1 DEF Blocked, Kinds
    <3>6. "delayed" \in status'[t] <=> b = "delayed"
      BY <3>1
    <3> QED
      BY <3>1, <3>2, <3>3, <3>4, <3>5, <3>6 DEF Placed
  <2>2. Listed(t)'
    <3>1. status'[t] = {b} /\ b # "suspended"
      BY <1>1, <1>9
    <3> QED
      BY <1>2, <1>4, <3>1 DEF Listed
  <2>3. \A u \in AllTasks \ {t} : /\ status'[u] = status[u]
                                  /\ exchange'[u] = exchange[u]
                                  /\ u \in Existing' <=> u \in Existing
    BY <1>9, <1>10, Parts
  <2>4. /\ \A d \in AllExchanges : /\ IsInjective(taskq'[d])
                                   /\ Range(taskq'[d]) \ {t} = Range(taskq[d]) \ {t}
        /\ IsInjective(lists'.susp.seq)
    BY <1>1, <1>2, <1>6, <1>7, <1>8, Parts
  <2>5. (Range(lists.ready) \cup Range(saved.ready))' \ {t}
           = (Range(lists.ready) \cup Range(saved.ready)) \ {t}
    BY <1>2
  <2>6. Range(dl'.seq) \ {t} = Range(dl.seq) \ {t}
    BY <1>5
  <2> QED
    BY <1>1, <1>2, <2>1, <2>2, <2>3, <2>4, <2>5, <2>6, Others
<1>14. Processor'
  <2>1. ~Marked(t)'
    BY <1>1, <1>9 DEF Marked
  <2>2. \A u \in stacks' : "deleted" \notin status'[u]
    BY <1>1, <1>9 DEF SInv, Types
  <2> QED
    BY <2>1, <2>2, Calling
<1> QED
  BY <1>5, <1>11, <1>12, <1>13, <1>14 DEF SInv
-----------------------------------------------------------------------------
(* reqctsk.                                                                *)
LEMMA Creating ==
  ASSUME SInv, NEW t, Runs(t), NEW u \in Tasks, u \notin stacks,
         region' = "exit",
         status' = [status EXCEPT ![u] = {}],
         exchange' = [exchange EXCEPT ![u] = NULL],
         \/ UNCHANGED <<lists, taskl, stacks>>
         \/ /\ stacks' = stacks \cup {u}
            /\ lists' = enterlist(lists, {}, u)
            /\ taskl' = Append1(taskl, u),
         UNCHANGED <<rqactv, cpu, taskq, index, rqfrozen, saved, dl>>
  PROVE  SInv'
<1>1. /\ t \in AllTasks /\ t \in Existing /\ status[t] = {} /\ Intact
      /\ \A v \in stacks : "deleted" \notin status[v]
      /\ ~rqfrozen /\ saved.ready = << >>
  BY Running
<1>2. u # Idle /\ u \in AllTasks /\ stacks \subseteq AllTasks
  BY NucleusAssumption DEF AllTasks, SInv, Types
<1>3. u \notin Existing /\ u # t
  BY <1>1, <1>2 DEF Existing
<1>4. Placed(u) /\ Listed(u)
  BY <1>1, <1>2, Parts
<1>5. /\ u \notin Range(lists.ready) /\ u \notin Range(lists.susp.seq)
      /\ u \notin Range(dl.seq) /\ \A d \in AllExchanges : u \notin Range(taskq[d])
      /\ u \notin Range(saved.ready)
  BY <1>3, <1>4 DEF Placed, Listed
<1>6. \A v \in AllTasks : status'[v] = IF v = u THEN {} ELSE status[v]
  BY <1>2, Parts
<1>7. \A v \in AllTasks : exchange'[v] = IF v = u THEN NULL ELSE exchange[v]
  BY <1>2, Parts
<1>8. /\ status' \in [AllTasks -> SUBSET Bits]
      /\ exchange' \in [AllTasks -> AllExchanges \cup {NULL}]
  BY <1>2, Parts
<1>9. PICK new \in BOOLEAN :
        /\ stacks' = IF new THEN stacks \cup {u} ELSE stacks
        /\ lists' \in [ready : Seq(AllTasks), susp : List(Tasks)]
        /\ lists'.susp = lists.susp /\ Ordered(lists'.ready)
        /\ Range(lists'.ready) = IF new THEN Range(lists.ready) \cup {u} ELSE Range(lists.ready)
        /\ taskl' \in List(AllTasks) /\ (Intact' => Intact)
  <2>1. CASE UNCHANGED <<lists, taskl, stacks>>
    <3>1. taskl' \in List(AllTasks)
      BY <2>1 DEF SInv, Types
    <3>2. PICK new \in BOOLEAN : new = FALSE
      OBVIOUS
    <3> QED
      BY <1>1, <2>1, <3>1, <3>2, Parts
  <2>2. CASE /\ stacks' = stacks \cup {u}
             /\ lists' = enterlist(lists, {}, u)
             /\ taskl' = Append1(taskl, u)
    <3>1. /\ lists' \in [ready : Seq(AllTasks), susp : List(Tasks)]
          /\ lists'.susp = lists.susp /\ Ordered(lists'.ready)
          /\ Range(lists'.ready) = Range(lists.ready) \cup {u}
      BY <1>2, <1>5, <2>2, Entering, Parts
    <3>2. taskl \in List(AllTasks)
      BY DEF SInv, Types
    <3>3. taskl' \in List(AllTasks)
      BY <1>2, <2>2, <3>2, Append1Facts
    <3>4. PICK new \in BOOLEAN : new = TRUE
      OBVIOUS
    <3> QED
      BY <1>1, <2>2, <3>1, <3>3, <3>4
  <2> QED
    BY <2>1, <2>2
<1>10. \A v \in AllTasks : v # u => (v \in Existing' <=> v \in Existing)
  BY <1>6, <1>9 DEF Existing
<1>11. u \in Existing' <=> new
  BY <1>2, <1>6, <1>9 DEF Existing
<1>12. Types'
  <2>1. stacks' \subseteq AllTasks
    BY <1>2, <1>9
  <2> QED
    BY <1>8, <1>9, <2>1 DEF SInv, Types
<1>13. Readies'
  BY <1>1, <1>9, Nobody DEF SInv, Readies
<1>14. Places' /\ Suspended'
  <2>1. Placed(u)'
    <3>1. status'[u] = {} /\ ~Blocked(u)' /\ "delayed" \notin status'[u]
      BY <1>2, <1>6 DEF Blocked
    <3>2. u \in Range(lists'.ready) \cup Range(saved'.ready) <=> new
      BY <1>5, <1>9
    <3> QED
      BY <1>5, <1>11, <3>1, <3>2 DEF Placed, Kinds
  <2>2. Listed(u)'
    BY <1>2, <1>5, <1>6, <1>9 DEF Listed
  <2>3. \A v \in AllTasks \ {u} : /\ status'[v] = status[v]
                                  /\ exchange'[v] = exchange[v]
                                  /\ v \in Existing' <=> v \in Existing
    BY <1>6, <1>7, <1>10
  <2>4. (Range(lists.ready) \cup Range(saved.ready))' \ {u}
           = (Range(lists.ready) \cup Range(saved.ready)) \ {u}
    BY <1>9
  <2>5. /\ \A d \in AllExchanges : IsInjective(taskq'[d])
        /\ IsInjective(lists'.susp.seq)
    BY <1>1, <1>9, Parts
  <2> QED
    BY <1>1, <1>9, <2>1, <2>2, <2>3, <2>4, <2>5, Others
<1>15. Processor'
  <2>1. ~Marked(t)'
    BY <1>1, <1>3, <1>6 DEF Marked
  <2>2. \A v \in stacks' : "deleted" \notin status'[v]
    BY <1>1, <1>2, <1>6, <1>9
  <2> QED
    BY <2>1, <2>2, Calling
<1>16. Timed'
  BY DEF SInv, Timed, left
<1> QED
  BY <1>12, <1>13, <1>14, <1>15, <1>16 DEF SInv

(* The task that another call takes out of the lists.                      *)
LEMMA Removing ==
  ASSUME SInv, Intact, NEW u \in Tasks, u \in Existing, NEW ls,
         ls = removelist(lists, status[u], u)
  PROVE  /\ ls \in [ready : Seq(AllTasks), susp : List(Tasks)]
         /\ ls.susp.stray = FALSE /\ IsInjective(ls.susp.seq)
         /\ Ordered(ls.ready)
         /\ u \notin Range(saved.ready) => u \notin Range(ls.ready)
         /\ u \notin Range(ls.susp.seq)
         /\ Range(ls.ready) \ {u} = Range(lists.ready) \ {u}
         /\ Range(ls.susp.seq) \ {u} = Range(lists.susp.seq) \ {u}
         /\ \A c \in Range(lists.ready) \ {u} : Ahead(lists.ready, c) => c \in Range(ls.ready)
<1>1. u # Idle /\ u \in AllTasks
  BY NucleusAssumption DEF AllTasks
<1>2. Placed(u) /\ Listed(u) /\ IsInjective(lists.susp.seq) /\ lists.susp.stray = FALSE
  BY <1>1, Parts DEF Intact, List
<1>3. status[u] \in Kinds
  BY <1>2 DEF Placed
<1>4. CASE "suspended" \notin status[u]
  <2>1. ls = [lists EXCEPT !.ready = RemoveFirst(@, u)]
    BY <1>4 DEF removelist
  <2>2. /\ RemoveFirst(lists.ready, u) \in Seq(AllTasks)
        /\ Ordered(RemoveFirst(lists.ready, u))
        /\ Range(RemoveFirst(lists.ready, u)) = Range(lists.ready) \ {u}
    BY <1>1, LeaveFacts, Parts
  <2>3. /\ ls \in [ready : Seq(AllTasks), susp : List(Tasks)]
        /\ ls.susp = lists.susp /\ ls.ready = RemoveFirst(lists.ready, u)
    BY <2>1, <2>2, Parts
  <2>4. u \notin Range(lists.susp.seq)
    BY <1>2, <1>4 DEF Listed
  <2> QED
    BY <1>2, <2>2, <2>3, <2>4
<1>5. CASE "suspended" \in status[u]
  <2>1. ls = [lists EXCEPT !.susp = Unlink(@, u)]
    BY <1>5 DEF removelist
  <2>2. lists.susp \in List(Tasks) /\ lists.susp.seq \in Seq(Tasks)
    BY Parts DEF List
  <2>3. /\ Unlink(lists.susp, u) \in List(Tasks)
        /\ Unlink(lists.susp, u).stray = lists.susp.stray
        /\ Unlink(lists.susp, u).seq = RemoveFirst(lists.susp.seq, u)
    BY <2>2, UnlinkType
  <2>4. /\ IsInjective(RemoveFirst(lists.susp.seq, u))
        /\ Range(RemoveFirst(lists.susp.seq, u)) = Range(lists.susp.seq) \ {u}
    BY <1>2, <2>2, RemoveFirstFacts
  <2>5. /\ ls \in [ready : Seq(AllTasks), susp : List(Tasks)]
        /\ ls.susp = Unlink(lists.susp, u) /\ ls.ready = lists.ready
    BY <2>1, <2>3, Parts
  <2>6. u \notin Range(lists.ready)
    BY <1>2, <1>3, <1>5 DEF Placed, Kinds
  <2> QED
    BY <1>2, <2>3, <2>4, <2>5, <2>6, Parts
<1> QED
  BY <1>4, <1>5

(* reqdtsk.                                                                *)
LEMMA Deleting ==
  ASSUME SInv, NEW t, NEW u \in Tasks, reqdtsk(t, u), UNCHANGED index
  PROVE  SInv'
<1>0. /\ Runs(t) /\ u \in stacks /\ region' = "exit"
      /\ taskl' = Unlink(taskl, u)
      /\ lists' = removelist(lists, status[u], u)
      /\ status' = [status EXCEPT ![u] =
                      IF u = t THEN (@ \ {"delayed"}) \cup {"deleted"}
                      ELSE @ \ {"delayed"}]
      /\ stacks' = IF u = t THEN stacks ELSE stacks \ {u}
      /\ taskq' = IF status[u] \cap {"waiting", "delayed"} # {}
                  THEN [taskq EXCEPT ![exchange[u]] = RemoveFirst(@, u)] ELSE taskq
      /\ dl' = IF "delayed" \in status[u] THEN cancel_delay(dl, u) ELSE dl
      /\ UNCHANGED <<rqactv, cpu, exchange, rqfrozen, saved>>
  BY DEF reqdtsk, Call, frozen
<1>1. /\ t \in AllTasks /\ status[t] = {} /\ Intact
      /\ \A v \in stacks : "deleted" \notin status[v]
      /\ ~rqfrozen /\ saved.ready = << >>
  BY <1>0, Running
<1>2. u # Idle /\ u \in AllTasks /\ stacks \subseteq AllTasks
  BY NucleusAssumption DEF AllTasks, SInv, Types
<1>3. u \in Existing
  BY <1>0, <1>1 DEF Existing
<1>4. Placed(u) /\ status[u] \in Kinds /\ exchange[u] \in AllExchanges \cup {NULL}
  BY <1>2, <1>3, Parts DEF Placed
<1>5. /\ lists' \in [ready : Seq(AllTasks), susp : List(Tasks)]
      /\ lists'.susp.stray = FALSE /\ IsInjective(lists'.susp.seq)
      /\ Ordered(lists'.ready)
      /\ u \notin Range(lists'.ready)
      /\ u \notin Range(lists'.susp.seq)
      /\ Range(lists'.ready) \ {u} = Range(lists.ready) \ {u}
      /\ Range(lists'.susp.seq) \ {u} = Range(lists.susp.seq) \ {u}
  <2>1. u \notin Range(saved.ready)
    BY <1>1, Nobody
  <2> QED
    BY <1>0, <1>1, <1>3, <2>1, Removing
<1>6. /\ dl' \in [seq : Seq(Tasks), delay : [Tasks -> 0..Never], stray : BOOLEAN]
      /\ Timed' /\ dl'.stray = dl.stray
      /\ Range(dl'.seq) = Range(dl.seq) \ {u}
  <2>1. u \in Range(dl.seq) <=> "delayed" \in status[u]
    BY <1>3, <1>4 DEF Placed
  <2>2. CASE "delayed" \in status[u]
    BY <1>0, <2>1, <2>2, Cancelling
  <2>3. CASE "delayed" \notin status[u]
    <3>1. dl' = dl
      BY <1>0, <2>3
    <3> QED
      BY <2>1, <2>3, <3>1, DelayType DEF SInv, Timed, left
  <2> QED
    BY <2>2, <2>3
<1>7. /\ taskq' \in [AllExchanges -> Seq(AllTasks)]
      /\ \A d \in AllExchanges : /\ IsInjective(taskq'[d])
                                 /\ Range(taskq'[d]) = Range(taskq[d]) \ {u}
  <2>1. \A d \in AllExchanges : u \in Range(taskq[d]) <=> Blocked(u) /\ exchange[u] = d
    BY <1>3, <1>4 DEF Placed
  <2>2. CASE Blocked(u)
    <3>1. PICK e \in AllExchanges : exchange[u] = e
      BY <1>3, <1>4, <2>2 DEF Placed
    <3>2. /\ RemoveFirst(taskq[e], u) \in Seq(AllTasks)
          /\ IsInjective(RemoveFirst(taskq[e], u))
          /\ Range(RemoveFirst(taskq[e], u)) = Range(taskq[e]) \ {u}
      BY RemoveFirstFacts, Parts
    <3>3. PICK q : q = RemoveFirst(taskq[e], u)
      OBVIOUS
    <3>4. taskq' = [taskq EXCEPT ![e] = q]
      BY <1>0, <2>2, <3>1, <3>3 DEF Blocked
    <3>5. \A d \in AllExchanges : taskq'[d] = IF d = e THEN q ELSE taskq[d]
      BY <3>4, Parts
    <3> QED
      BY <2>1, <3>1, <3>2, <3>3, <3>4, <3>5, Parts
  <2>3. CASE ~Blocked(u)
    <3>1. taskq' = taskq
      BY <1>0, <2>3 DEF Blocked
    <3> QED
      BY <2>1, <2>3, <3>1, Parts
  <2> QED
    BY <2>2, <2>3
<1>8. /\ status' \in [AllTasks -> SUBSET Bits]
      /\ \A v \in AllTasks : v # u => status'[v] = status[v]
  <2>1. PICK bits \in SUBSET Bits : status' = [status EXCEPT ![u] = bits]
    <3>1. status[u] \in SUBSET Bits
      BY <1>2, Parts
    <3>2. "deleted" \in Bits
      BY DEF Bits
    <3> QED
      BY <1>0, <3>1, <3>2
  <2> QED
    BY <1>2, <2>1, Parts
<1>9. u \notin Existing'
  <2>1. CASE u = t
    <3>1. "deleted" \in status'[u]
      BY <1>0, <1>2, <2>1, Parts
    <3> QED
      BY <3>1 DEF Existing
  <2>2. CASE u # t
    BY <1>0, <1>2, <2>2 DEF Existing
  <2> QED
    BY <2>1, <2>2
<1>10. \A v \in AllTasks : v # u => (v \in Existing' <=> v \in Existing)
  BY <1>0, <1>8 DEF Existing
<1>11. taskl' \in List(AllTasks) /\ taskl'.stray = taskl.stray
  <2>1. taskl \in List(AllTasks)
    BY DEF SInv, Types
  <2> QED
    BY <1>0, <2>1, UnlinkType
<1>12. Intact'
  BY <1>1, <1>5, <1>6, <1>11 DEF Intact
<1>13. Types'
  <2>1. stacks' \subseteq AllTasks
    BY <1>0, <1>2
  <2> QED
    BY <1>0, <1>5, <1>6, <1>7, <1>8, <1>11, <2>1 DEF SInv, Types
<1>14. Readies'
  BY <1>0, <1>1, <1>5, Nobody DEF SInv, Readies
<1>15. Places' /\ Suspended'
  <2>1. Placed(u)'
    <3>1. u \notin Range(lists'.ready) \cup Range(saved'.ready)
      BY <1>0, <1>1, <1>5, Nobody
    <3>2. u \notin Range(dl'.seq) /\ \A d \in AllExchanges : u \notin Range(taskq'[d])
      BY <1>6, <1>7
    <3> QED
      BY <1>9, <3>1, <3>2 DEF Placed
  <2>2. Listed(u)'
    BY <1>5, <1>9 DEF Listed
  <2>3. \A v \in AllTasks \ {u} : /\ status'[v] = status[v]
                                  /\ exchange'[v] = exchange[v]
                                  /\ v \in Existing' <=> v \in Existing
    BY <1>0, <1>8, <1>10
  <2>4. (Range(lists.ready) \cup Range(saved.ready))' \ {u}
           = (Range(lists.ready) \cup Range(saved.ready)) \ {u}
    BY <1>0, <1>5
  <2>5. Range(dl'.seq) \ {u} = Range(dl.seq) \ {u}
    BY <1>6
  <2>6. \A d \in AllExchanges : /\ IsInjective(taskq'[d])
                                /\ Range(taskq'[d]) \ {u} = Range(taskq[d]) \ {u}
    BY <1>7
  <2> QED
    BY <1>1, <1>5, <2>1, <2>2, <2>3, <2>4, <2>5, <2>6, Others
<1>16. Processor'
  <2>1. ~Marked(t)'
    <3>1. CASE u = t
      <4>1. status'[t] = {"deleted"}
        BY <1>0, <1>1, <1>2, <3>1, Parts
      <4> QED
        BY <4>1 DEF Marked
    <3>2. CASE u # t
      BY <1>1, <1>8, <3>2 DEF Marked
    <3> QED
      BY <3>1, <3>2
  <2>2. \A v \in stacks' : "deleted" \in status'[v] => v = t
    BY <1>0, <1>1, <1>2, <1>8
  <2> QED
    BY <1>0, <2>1, <2>2, Calling
<1> QED
  BY <1>6, <1>13, <1>14, <1>15, <1>16 DEF SInv

(* reqsusp, of the caller itself.                                          *)
LEMMA Suspending ==
  ASSUME SInv, NEW t, t \in Tasks, reqsusp(t, t), UNCHANGED index
  PROVE  SInv'
<1>0. PICK ls : ls = removelist(lists, {}, t)
  OBVIOUS
<1>1. /\ Runs(t) /\ t \in stacks /\ region' = "exit"
      /\ UNCHANGED <<rqactv, cpu, exchange, taskq, rqfrozen, saved, taskl, stacks, dl>>
  BY DEF reqsusp, Call, queues, frozen, objects
<1>2. /\ t \in AllTasks /\ t \in Existing /\ status[t] = {} /\ Intact /\ ~Blocked(t)
      /\ \A v \in stacks : "deleted" \notin status[v]
      /\ ~rqfrozen /\ saved.ready = << >> /\ t \in Range(lists.ready)
  BY <1>1, Running
<1>3. status' = [status EXCEPT ![t] = {"suspended"}]
  BY <1>2 DEF reqsusp
<1>4. lists' = enterlist(ls, {"suspended"}, t)
  BY <1>0, <1>2 DEF reqsusp
<1>5. /\ ls \in [ready : Seq(AllTasks), susp : List(Tasks)]
      /\ ls.susp.stray = FALSE /\ IsInjective(ls.susp.seq)
      /\ Ordered(ls.ready)
      /\ t \notin Range(ls.ready)
      /\ t \notin Range(ls.susp.seq)
      /\ Range(ls.ready) \ {t} = Range(lists.ready) \ {t}
      /\ Range(ls.susp.seq) \ {t} = Range(lists.susp.seq) \ {t}
  <2>1. t \notin Range(saved.ready)
    BY <1>2, Nobody
  <2>2. ls = removelist(lists, status[t], t)
    BY <1>0, <1>2
  <2> QED
    BY <1>2, <2>1, <2>2, Removing
<1>6. /\ lists' \in [ready : Seq(AllTasks), susp : List(Tasks)]
      /\ lists'.ready = ls.ready
      /\ Intact' => /\ IsInjective(lists'.susp.seq)
                    /\ Range(lists'.susp.seq) = Range(ls.susp.seq) \cup {t}
  <2>1. ls.susp \in List(Tasks) /\ Tasks \subseteq AllTasks
    BY <1>5 DEF AllTasks
  <2>2. /\ Append1(ls.susp, t) \in List(Tasks)
        /\ ~Append1(ls.susp, t).stray =>
             /\ IsInjective(Append1(ls.susp, t).seq)
             /\ Range(Append1(ls.susp, t).seq) = Range(ls.susp.seq) \cup {t}
    BY <1>5, <2>1, Append1Facts
  <2>3. lists' = [ls EXCEPT !.susp = Append1(@, t)]
    BY <1>4 DEF enterlist
  <2>4. lists'.ready = ls.ready /\ lists'.susp = Append1(ls.susp, t)
        /\ lists' \in [ready : Seq(AllTasks), susp : List(Tasks)]
    BY <1>5, <2>2, <2>3
  <2> QED
    BY <2>2, <2>4 DEF Intact
<1>7. \A v \in AllTasks : status'[v] = IF v = t THEN {"suspended"} ELSE status[v]
  BY <1>2, <1>3, Parts
<1>8. Existing' = Existing
  <2>1. \A v : v \in stacks \cup {Idle} => v \in AllTasks
    BY DEF SInv, Types, AllTasks
  <2> QED
    BY <1>1, <1>2, <1>7, <2>1 DEF Existing
<1>9. Types'
  <2>1. status' \in [AllTasks -> SUBSET Bits]
    BY <1>2, <1>3, Parts DEF Bits
  <2> QED
    BY <1>1, <1>6, <2>1 DEF SInv, Types
<1>10. Readies'
  BY <1>1, <1>2, <1>5, <1>6, Nobody DEF SInv, Readies
<1>11. Places' /\ Suspended'
  <2>1. Placed(t)'
    <3>1. Placed(t)
      BY <1>2, Parts
    <3>2. status'[t] = {"suspended"} /\ t \in Existing' /\ ~Blocked(t)'
      BY <1>2, <1>7, <1>8 DEF Blocked
    <3>3. t \notin Range(lists'.ready) \cup Range(saved'.ready)
      BY <1>1, <1>2, <1>5, <1>6, Nobody
    <3>4. status'[t] \in Kinds /\ ~(status'[t] \subseteq {"maskint"})
          /\ "delayed" \notin status'[t] /\ "delayed" \notin status[t]
      BY <1>2, <3>2 DEF Kinds
    <3> QED
      BY <1>1, <1>2, <3>1, <3>2, <3>3, <3>4 DEF Placed
  <2>2. Intact' => Listed(t)'
    BY <1>2, <1>6, <1>7, <1>8 DEF Listed
  <2>3. \A v \in AllTasks \ {t} : /\ status'[v] = status[v]
                                  /\ exchange'[v] = exchange[v]
                                  /\ v \in Existing' <=> v \in Existing
    BY <1>1, <1>7, <1>8
  <2>4. (Range(lists.ready) \cup Range(saved.ready))' \ {t}
           = (Range(lists.ready) \cup Range(saved.ready)) \ {t}
    BY <1>1, <1>5, <1>6
  <2>5. \A d \in AllExchanges : IsInjective(taskq'[d])
    BY <1>1, Parts
  <2> QED
    BY <1>1, <1>2, <1>5, <1>6, <2>1, <2>2, <2>3, <2>4, <2>5, Others
<1>12. Processor'
  <2>1. ~Marked(t)'
    BY <1>2, <1>7 DEF Marked
  <2>2. stacks \subseteq AllTasks
    BY DEF SInv, Types
  <2>3. \A v \in stacks' : "deleted" \notin status'[v]
    BY <1>1, <1>2, <1>7, <2>2
  <2> QED
    BY <1>1, <2>1, <2>3, Calling
<1>13. Timed'
  BY <1>1 DEF SInv, Timed, left
<1> QED
  BY <1>9, <1>10, <1>11, <1>12, <1>13 DEF SInv

(* reqresm.                                                                *)
LEMMA Resuming ==
  ASSUME SInv, NEW t, NEW u \in Tasks, reqresm(t, u), UNCHANGED index
  PROVE  SInv'
<1>1. /\ Runs(t) /\ u \in stacks /\ region' = "exit"
      /\ UNCHANGED <<rqactv, cpu, exchange, taskq, rqfrozen, saved, taskl, stacks, dl>>
  BY DEF reqresm, Call, queues, frozen, objects
<1>2. /\ t \in AllTasks /\ t \in Existing /\ status[t] = {} /\ Intact /\ t \in Range(lists.ready)
      /\ \A v \in stacks : "deleted" \notin status[v]
      /\ ~rqfrozen /\ saved.ready = << >> /\ index = 0
  BY <1>1, Running
<1>3. u # Idle /\ u \in AllTasks /\ stacks \subseteq AllTasks
  BY NucleusAssumption DEF AllTasks, SInv, Types
<1>4. u \in Existing
  BY <1>1, <1>2 DEF Existing
<1>5. Placed(u) /\ Listed(u) /\ status[u] \in Kinds
  BY <1>2, <1>3, <1>4, Parts DEF Placed
<1>6. CASE u \notin Range(lists.susp.seq)
  <2>1. "suspended" \notin status[u]
    BY <1>4, <1>5, <1>6 DEF Listed, Kinds
  <2>2. lists' = lists
    BY <1>6 DEF reqresm
  <2>3. status' = status
    BY <1>3, <2>1, Parts DEF reqresm
  <2> QED
    BY <1>1, <1>2, <2>2, <2>3, Moving DEF Runs
<1>7. CASE u \in Range(lists.susp.seq)
  <2>1. status[u] = {"suspended"} /\ u # t
    BY <1>2, <1>5, <1>7 DEF Listed
  <2>2. PICK ls : ls = removelist(lists, status[u], u)
    OBVIOUS
  <2>3. status' = [status EXCEPT ![u] = {}] /\ lists' = enterlist(ls, {}, u)
    BY <1>7, <2>1, <2>2 DEF reqresm
  <2>4. /\ ls \in [ready : Seq(AllTasks), susp : List(Tasks)]
        /\ ls.susp.stray = FALSE /\ IsInjective(ls.susp.seq)
        /\ Ordered(ls.ready) /\ ls.ready \in Seq(AllTasks)
        /\ u \notin Range(ls.ready)
        /\ u \notin Range(ls.susp.seq)
        /\ Range(ls.ready) \ {u} = Range(lists.ready) \ {u}
        /\ Range(ls.susp.seq) \ {u} = Range(lists.susp.seq) \ {u}
    <3>1. u \notin Range(saved.ready)
      BY <1>2, Nobody
    <3>2. /\ ls \in [ready : Seq(AllTasks), susp : List(Tasks)]
          /\ ls.susp.stray = FALSE /\ IsInjective(ls.susp.seq)
          /\ Ordered(ls.ready)
          /\ u \notin Range(ls.ready)
          /\ u \notin Range(ls.susp.seq)
          /\ Range(ls.ready) \ {u} = Range(lists.ready) \ {u}
          /\ Range(ls.susp.seq) \ {u} = Range(lists.susp.seq) \ {u}
      BY <1>2, <1>4, <2>2, <3>1, Removing
    <3> QED
      BY <3>2
  <2>5. /\ lists' \in [ready : Seq(AllTasks), susp : List(Tasks)]
        /\ lists'.susp = ls.susp /\ Ordered(lists'.ready)
        /\ Range(lists'.ready) = Range(ls.ready) \cup {u}
    BY <1>3, <2>3, <2>4, Entering
  <2>6. \A v \in AllTasks : status'[v] = IF v = u THEN {} ELSE status[v]
    BY <1>3, <2>3, Parts
  <2>7. Existing' = Existing /\ Intact'
    <3>1. \A v : v \in stacks \cup {Idle} => v \in AllTasks
      BY <1>3 DEF AllTasks
    <3> QED
      BY <1>1, <1>2, <1>4, <2>4, <2>5, <2>6, <3>1 DEF Existing, Intact
  <2>8. Types'
    <3>1. status' \in [AllTasks -> SUBSET Bits]
      BY <1>3, <2>3, Parts
    <3> QED
      BY <1>1, <2>5, <3>1 DEF SInv, Types
  <2>9. Readies'
    BY <1>1, <1>2, <2>5, Nobody DEF SInv, Readies
  <2>10. Places' /\ Suspended'
    <3>1. Placed(u)'
      <4>1. status'[u] = {} /\ u \in Existing' /\ ~Blocked(u)' /\ ~Blocked(u)
        BY <1>3, <1>4, <2>1, <2>6, <2>7 DEF Blocked
      <4>2. u \in Range(lists'.ready)
        BY <2>5
      <4>3. status'[u] \in Kinds /\ "delayed" \notin status'[u] /\ "delayed" \notin status[u]
            /\ status'[u] \subseteq {"maskint"}
        BY <2>1, <4>1 DEF Kinds
      <4> QED
        BY <1>1, <1>5, <4>1, <4>2, <4>3 DEF Placed
    <3>2. Listed(u)'
      BY <1>3, <2>4, <2>5, <2>6 DEF Listed
    <3>3. \A v \in AllTasks \ {u} : /\ status'[v] = status[v]
                                    /\ exchange'[v] = exchange[v]
                                    /\ v \in Existing' <=> v \in Existing
      BY <1>1, <2>6, <2>7
    <3>4. (Range(lists.ready) \cup Range(saved.ready))' \ {u}
             = (Range(lists.ready) \cup Range(saved.ready)) \ {u}
      BY <1>1, <2>4, <2>5
    <3>5. \A d \in AllExchanges : IsInjective(taskq'[d])
      BY <1>1, Parts
    <3> QED
      BY <1>1, <1>2, <2>4, <2>5, <3>1, <3>2, <3>3, <3>4, <3>5, Others
  <2>11. Processor'
    <3>1. ~Marked(t)'
      BY <1>2, <2>1, <2>6 DEF Marked
    <3>2. \A v \in stacks' : "deleted" \notin status'[v]
      BY <1>1, <1>2, <1>3, <2>6
    <3> QED
      BY <1>1, <3>1, <3>2, Calling
  <2>12. Timed'
    BY <1>1 DEF SInv, Timed, left
  <2> QED
    BY <2>8, <2>9, <2>10, <2>11, <2>12 DEF SInv
<1> QED
  BY <1>6, <1>7

-----------------------------------------------------------------------------
(* The ready list is set aside, and brought back.                          *)
LEMMA Freezing ==
  ASSUME SInv, FreezeSet
  PROVE  SInv'
<1>1. /\ region = "freeze" /\ rqfrozen' = TRUE /\ region' = "exit"
      /\ saved' = [ready |-> lists.ready, actv |-> rqactv]
      /\ lists' = [lists EXCEPT !.ready = <<Idle>>]
      /\ UNCHANGED <<rqactv, cpu, status, exchange, taskq, index, taskl, stacks, dl>>
  BY DEF FreezeSet, queues, ints, pending, given, objects
<1>2. /\ ~rqfrozen /\ saved.ready = << >> /\ Intact /\ index = 0
      /\ rqactv = Head(lists.ready) /\ ~Marked(rqactv)
      /\ \A v \in stacks : "deleted" \notin status[v]
  BY <1>1 DEF SInv, Types, Processor, Readies
<1>3. rqactv \in Range(lists.ready) /\ rqactv \in Existing /\ Idle \in Range(lists.ready)
  <2>1. rqactv \in Range(lists.ready)
    BY <1>2, OrderedFacts, Parts
  <2> QED
    BY <2>1, ReadyFacts, IdleReady
<1>4. /\ lists' \in [ready : Seq(AllTasks), susp : List(Tasks)]
      /\ lists'.ready = <<Idle>> /\ lists'.susp = lists.susp
      /\ Ordered(lists'.ready) /\ Range(lists'.ready) = {Idle}
      /\ saved'.ready = lists.ready /\ saved'.actv = rqactv
  BY <1>1, IdleList, Parts
<1>5. Existing' = Existing /\ Intact'
  BY <1>1, <1>2, <1>4 DEF Existing, Intact
<1>6. Types'
  <2>1. saved' \in [ready : Seq(AllTasks), actv : AllTasks \cup {NULL}]
    <3>1. rqactv \in AllTasks
      BY DEF SInv, Types
    <3> QED
      BY <1>1, <3>1, Parts
  <2> QED
    BY <1>1, <1>4, <2>1 DEF SInv, Types
<1>7. Readies'
  BY <1>1, <1>3, <1>4, <1>5, Parts DEF Readies
<1>8. Places' /\ Suspended'
  <2>1. (Range(lists.ready) \cup Range(saved.ready))'
          = Range(lists.ready) \cup Range(saved.ready)
    BY <1>2, <1>3, <1>4, Nobody
  <2>2. \A v \in AllTasks : Placed(v)'
    <3> SUFFICES ASSUME NEW v \in AllTasks PROVE Placed(v)'
      OBVIOUS
    <3>1. Placed(v)
      BY Parts
    <3> QED
      BY <1>1, <1>5, <2>1, <3>1, StillPlaced
  <2>3. \A v \in AllTasks : Listed(v)'
    <3> SUFFICES ASSUME NEW v \in AllTasks PROVE Listed(v)'
      OBVIOUS
    <3>1. Listed(v)
      BY <1>2, Parts
    <3> QED
      BY <1>1, <1>4, <1>5, <3>1, StillListed
  <2>4. /\ \A d \in AllExchanges : IsInjective(taskq'[d])
        /\ IsInjective(lists'.susp.seq)
    BY <1>1, <1>2, <1>4, Parts
  <2> QED
    BY <2>2, <2>3, <2>4 DEF Places, Suspended
<1>9. Processor'
  BY <1>1, <1>2, <1>5 DEF Processor, Marked
<1>10. Timed'
  BY <1>1 DEF SInv, Timed, left
<1> QED
  BY <1>6, <1>7, <1>8, <1>9, <1>10 DEF SInv

LEMMA Baking ==
  ASSUME SInv, reqbake
  PROVE  SInv'
<1>1. /\ region = "out" /\ rqfrozen /\ rqactv = Idle /\ cpu = Idle
      /\ rqfrozen' = FALSE
      /\ lists' = [lists EXCEPT !.ready = saved.ready]
      /\ rqactv' = saved.actv /\ saved' = [ready |-> << >>, actv |-> NULL]
      /\ region' = "exit"
      /\ UNCHANGED <<cpu, status, exchange, taskq, index, taskl, stacks, dl>>
  BY DEF reqbake, queues, ints, pending, given, objects
<1>2. /\ Intact /\ index = 0
      /\ rqactv = Head(lists.ready) /\ ~Marked(rqactv)
      /\ \A v \in stacks : "deleted" \notin status[v]
      /\ Ordered(saved.ready) /\ saved.actv \in Existing
  BY <1>1 DEF SInv, Types, Processor, Readies
<1>3. saved.ready \in Seq(AllTasks) /\ stacks \subseteq AllTasks
  BY DEF SInv, Types
<1>4. Range(lists.ready) = {Idle} /\ Idle \in Range(saved.ready)
  BY <1>1, <1>2, <1>3, OrderedFacts, IdleList, Parts
<1>5. /\ lists' \in [ready : Seq(AllTasks), susp : List(Tasks)]
      /\ lists'.ready = saved.ready /\ lists'.susp = lists.susp
      /\ saved'.ready = << >> /\ saved'.actv = NULL
  BY <1>1, <1>3, Parts
<1>6. Existing' = Existing /\ Intact'
  BY <1>1, <1>2, <1>5 DEF Existing, Intact
<1>7. Types'
  <2>1. saved' \in [ready : Seq(AllTasks), actv : AllTasks \cup {NULL}]
    BY <1>1
  <2>2. saved.actv \in AllTasks
    BY <1>2, <1>3 DEF Existing, AllTasks
  <2> QED
    BY <1>1, <1>5, <2>1, <2>2 DEF SInv, Types
<1>8. Readies'
  BY <1>1, <1>2, <1>5, Nobody DEF Readies
<1>9. Places' /\ Suspended'
  <2>1. (Range(lists.ready) \cup Range(saved.ready))'
          = Range(lists.ready) \cup Range(saved.ready)
    BY <1>4, <1>5, Nobody
  <2>2. \A v \in AllTasks : Placed(v)'
    <3> SUFFICES ASSUME NEW v \in AllTasks PROVE Placed(v)'
      OBVIOUS
    <3>1. Placed(v)
      BY Parts
    <3> QED
      BY <1>1, <1>6, <2>1, <3>1, StillPlaced
  <2>3. \A v \in AllTasks : Listed(v)'
    <3> SUFFICES ASSUME NEW v \in AllTasks PROVE Listed(v)'
      OBVIOUS
    <3>1. Listed(v)
      BY <1>2, Parts
    <3> QED
      BY <1>1, <1>5, <1>6, <3>1, StillListed
  <2>4. /\ \A d \in AllExchanges : IsInjective(taskq'[d])
        /\ IsInjective(lists'.susp.seq)
    BY <1>1, <1>2, <1>5, Parts
  <2> QED
    BY <2>2, <2>3, <2>4 DEF Places, Suspended
<1>10. Processor'
  BY <1>1, <1>2, <1>6 DEF Processor, Marked
<1>11. Timed'
  BY <1>1 DEF SInv, Timed, left
<1> QED
  BY <1>7, <1>8, <1>9, <1>10, <1>11 DEF SInv
-----------------------------------------------------------------------------
(* The invariant holds at the start, and each action keeps it.             *)
LEMMA InitScheduling == Init => SInv
<1> SUFFICES ASSUME Init PROVE SInv
  OBVIOUS
<1>1. /\ lists = [ready |-> <<DelayTask, Idle>>, susp |-> NoList]
      /\ taskl = Append1(NoList, DelayTask)
      /\ stacks = {DelayTask} /\ rqactv = Idle /\ cpu = Idle
      /\ region = "exit" /\ index = 0
      /\ status = [t \in AllTasks |-> {}]
      /\ exchange = [t \in AllTasks |-> NULL]
      /\ taskq = [e \in AllExchanges |-> << >>]
      /\ dl = [seq |-> << >>, delay |-> [t \in Tasks |-> 0], stray |-> FALSE]
      /\ rqfrozen = FALSE
      /\ saved = [ready |-> << >>, actv |-> NULL]
  BY DEF Init
<1>2. /\ Idle \in AllTasks /\ DelayTask \in AllTasks /\ Tasks \subseteq AllTasks
      /\ Idle # DelayTask /\ Idle \notin Tasks /\ DelayTask \notin Tasks
  BY Distinct
<1>3. Prio[DelayTask] < Prio[Idle] /\ \A t \in AllTasks : Prio[t] \in Nat
  BY <1>2, Priorities, NucleusAssumption
<1>4. PICK s : s = <<DelayTask, Idle>>
  OBVIOUS
<1>5. /\ s \in Seq(AllTasks) /\ Len(s) = 2 /\ s[1] = DelayTask /\ s[2] = Idle
      /\ DOMAIN s = 1..2
  BY <1>2, <1>4
<1>6. Range(s) = {DelayTask, Idle}
  BY <1>5 DEF Range
<1>7. Ordered(s)
  <2>1. IsInjective(s)
    BY <1>2, <1>5 DEF IsInjective
  <2>2. \A i, j \in 1..Len(s) : i < j => Prio[s[i]] <= Prio[s[j]]
    BY <1>3, <1>5
  <2>3. s # << >> /\ s[Len(s)] = Idle
    BY <1>5
  <2> QED
    BY <2>1, <2>2, <2>3 DEF Ordered
<1>8. NoList \in List(Tasks) /\ NoList \in List(AllTasks) /\ NoList.stray = FALSE
      /\ NoList.seq = << >> /\ IsInjective(NoList.seq)
  BY DEF NoList, List, IsInjective
<1>9. taskl \in List(AllTasks)
  BY <1>1, <1>2, <1>8, Append1Facts
<1>10. taskl.stray = FALSE
  BY <1>1, <1>8, Nobody DEF Append1
<1>11. lists.ready = s /\ lists.susp = NoList /\ saved.ready = << >> /\ dl.seq = << >>
       /\ dl.delay = [t \in Tasks |-> 0] /\ dl.stray = FALSE
  BY <1>1, <1>4
<1>12. Existing = {DelayTask, Idle}
  BY <1>1, <1>2 DEF Existing
<1>13. Never \in Nat
  BY NucleusAssumption
<1>14. Types
  <2>1. lists \in [ready : Seq(AllTasks), susp : List(Tasks)]
    BY <1>1, <1>4, <1>5, <1>8
  <2>2. dl \in [seq : Seq(Tasks), delay : [Tasks -> 0..Never], stray : BOOLEAN]
    BY <1>1, <1>13
  <2>3. saved \in [ready : Seq(AllTasks), actv : AllTasks \cup {NULL}]
    BY <1>1
  <2>4. taskq \in [AllExchanges -> Seq(AllTasks)]
    BY <1>1
  <2>5. /\ status \in [AllTasks -> SUBSET Bits]
        /\ exchange \in [AllTasks -> AllExchanges \cup {NULL}]
    BY <1>1
  <2> QED
    BY <1>1, <1>2, <1>9, <2>1, <2>2, <2>3, <2>4, <2>5 DEF Types
<1>15. Readies
  BY <1>1, <1>7, <1>11, Nobody DEF Readies
<1>16. Places
  <2>1. ASSUME NEW t \in AllTasks PROVE Placed(t)
    <3>1. status[t] = {} /\ ~Blocked(t)
      BY <1>1 DEF Blocked
    <3>2. t \in Range(lists.ready) \cup Range(saved.ready) <=> t \in Existing
      BY <1>6, <1>11, <1>12, Nobody
    <3>3. t \notin Range(dl.seq) /\ \A e \in AllExchanges : t \notin Range(taskq[e])
      BY <1>1, <1>11, Nobody
    <3>4. status[t] \in Kinds /\ status[t] \subseteq {"maskint"}
      BY <3>1 DEF Kinds
    <3> QED
      BY <3>1, <3>2, <3>3, <3>4 DEF Placed
  <2>2. \A e \in AllExchanges : IsInjective(taskq[e])
    BY <1>1 DEF IsInjective
  <2> QED
    BY <2>1, <2>2 DEF Places
<1>17. Suspended
  BY <1>1, <1>8, <1>11, Nobody DEF Suspended, Listed
<1>18. Processor
  <2>1. Intact
    BY <1>8, <1>10, <1>11 DEF Intact
  <2>2. \A t \in AllTasks : ~Marked(t) /\ "deleted" \notin status[t]
    BY <1>1 DEF Marked
  <2> QED
    BY <1>1, <1>2, <2>1, <2>2 DEF Processor
<1>19. Timed
  <2>1. IsList(dl.seq, dl.delay, Tasks, Never)
    BY <1>11, <1>13 DEF IsList, IsInjective
  <2> QED
    BY <1>11, <2>1, Nobody DEF Timed
<1> QED
  BY <1>14, <1>15, <1>16, <1>17, <1>18, <1>19 DEF SInv

LEMMA StepInterrupt == SInv /\ Interrupt => SInv'
<1>1. ASSUME SInv, NEW x, Notify(x) PROVE SInv'
  <2>1. /\ Intact /\ cpu = rqactv /\ Interrupted /\ dl' = dl
        /\ UNCHANGED <<lists, taskl, stacks, rqactv, cpu, exchange, rqfrozen, saved,
                       taskq, index>>
    BY <1>1 DEF Notify, frozen, objects
  <2>2. Timed'
    BY <1>1, <2>1 DEF SInv, Timed, left
  <2> QED
    BY <1>1, <2>1, <2>2, DelayType, Interrupting
<1>2. ASSUME SInv, yalrt_timer_handler PROVE SInv'
  <2>1. /\ Intact /\ cpu = rqactv /\ (Interrupted \/ UNCHANGED <<region, status>>)
        /\ UNCHANGED <<lists, taskl, stacks, rqactv, cpu, exchange, rqfrozen, saved,
                       taskq, index>>
    BY <1>2 DEF yalrt_timer_handler, frozen, objects, queues
  <2> QED
    BY <1>2, <2>1, Ticking, Interrupting
<1> QED
  BY <1>1, <1>2 DEF Interrupt, reqisnd, reqssnd

(* The first of a queue, as HandOver finds it.                             *)
LEMMA Handed ==
  ASSUME SInv, Intact, NEW e \in AllExchanges, taskq[e] # << >>,
         NEW w, w = Head(taskq[e]),
         taskq' = [taskq EXCEPT ![e] = Tail(@)],
         status' = [status EXCEPT ![w] = @ \ {"waiting", "delayed"}],
         lists' = enterlist(lists, status[w] \ {"waiting", "delayed"}, w),
         dl' = IF status[w] = {"delayed"} THEN cancel_delay(dl, w) ELSE dl,
         UNCHANGED <<exchange, taskl, stacks, rqactv, cpu, rqfrozen, saved>>,
         index' \in {0, index}, region # "exit" => index' = 0,
         \/ region' = region /\ region \in {"exit", "delay"}
         \/ region' = "exit" /\ region = "out"
  PROVE  SInv'
<1>2. taskq[e] \in Seq(AllTasks) /\ IsInjective(taskq[e])
  BY Parts
<1>3. PICK q : q = Tail(taskq[e])
  OBVIOUS
<1>4. /\ q \in Seq(AllTasks) /\ IsInjective(q) /\ w \in Range(taskq[e])
      /\ Range(q) = Range(taskq[e]) \ {w}
  BY <1>2, <1>3, TailFacts
<1>5. status[w] = {"waiting"} \/ status[w] = {"delayed"}
  BY <1>4, WaiterFacts
<1>6. status[w] \ {"waiting", "delayed"} = {}
  BY <1>5
<1>7. /\ taskq' = [taskq EXCEPT ![e] = q]
      /\ status' = [status EXCEPT ![w] = {}]
      /\ lists' = enterlist(lists, {}, w)
  BY <1>3, <1>6
<1> QED
  BY <1>4, <1>7, Waking

LEMMA StepScheduler == SInv /\ MailInv /\ Contexts /\ Scheduler => SInv'
<1> SUFFICES ASSUME SInv, MailInv, Contexts, Scheduler PROVE SInv'
  OBVIOUS
<1>1. Len(isnd) \in Nat
  BY DEF MailInv, MailTypes
<1>2. CASE DrainLoad
  BY <1>1, <1>2, Moving DEF DrainLoad, sched, queues, frozen, objects
<1>6. CASE DrainStore
  <2>1. index > 0 /\ index' = index /\ region' = region
        /\ UNCHANGED <<lists, taskl, stacks, rqactv, cpu, status, exchange, dl,
                       rqfrozen, saved, taskq>>
    BY <1>6 DEF DrainStore, sched, queues, frozen, objects
  <2>2. Intact
    BY <2>1 DEF SInv, Processor
  <2> QED
    BY <2>1, <2>2, Moving
<1>3. CASE Drained
  BY <1>3, Moving DEF Drained, sched, queues, frozen, objects, ints, pending, given
<1>4. CASE Leave
  BY <1>4, Leaving
<1>5. CASE Drain
  <2>1. PICK x : x = Popped
    OBVIOUS
  <2>2. x \in AllExchanges /\ index > 0
    BY <1>5, <2>1, PoppedFacts, Distinct DEF Drain
  <2>3. /\ region' = region /\ index' = 0
        /\ UNCHANGED <<exchange, taskl, stacks, rqactv, cpu, rqfrozen, saved>>
    BY <1>5 DEF Drain, frozen, objects
  <2>4. Intact /\ region = "exit" /\ index \in Nat
    BY <2>2 DEF SInv, Processor, Types
  <2>5. CASE Post(x)
    BY <2>3, <2>4, <2>5, Moving DEF Post
  <2>6. CASE /\ taskq[x] # << >>
             /\ HandOver(x, x, "delayed" \in status[Head(taskq[x])])
    <3>1. PICK w : w = Head(taskq[x])
      OBVIOUS
    <3>2. w \in Range(taskq[x])
      BY <2>2, <2>6, <3>1, TailFacts, Parts
    <3>3. status[w] = {"waiting"} \/ status[w] = {"delayed"}
      BY <2>2, <3>2, WaiterFacts
    <3>4. /\ taskq' = [taskq EXCEPT ![x] = Tail(@)]
          /\ status' = [status EXCEPT ![w] = @ \ {"waiting", "delayed"}]
          /\ lists' = enterlist(lists, status[w] \ {"waiting", "delayed"}, w)
          /\ dl' = IF "delayed" \in status[w] THEN cancel_delay(dl, w) ELSE dl
      BY <2>6, <3>1 DEF HandOver
    <3>5. dl' = IF status[w] = {"delayed"} THEN cancel_delay(dl, w) ELSE dl
      BY <3>3, <3>4
    <3> QED
      BY <2>2, <2>3, <2>4, <2>6, <3>1, <3>4, <3>5, Handed
  <2> QED
    BY <1>5, <2>1, <2>5, <2>6 DEF Drain
<1> QED
  BY <1>2, <1>3, <1>4, <1>5, <1>6 DEF Scheduler

LEMMA StepSend ==
  ASSUME SInv, NEW t, NEW e \in AllExchanges, NEW m, reqsend(t, e, m)
  PROVE  SInv'
<1>1. /\ Runs(t) /\ region' = "exit"
      /\ UNCHANGED <<exchange, taskl, stacks, rqactv, cpu, rqfrozen, saved, index>>
  BY DEF reqsend, Call, frozen, objects, ints, pending, given
<1>2. Intact /\ index = 0 /\ region = "out"
  BY <1>1, Running
<1>3. CASE UNCHANGED <<lists, status, taskq, dl>>
  BY <1>1, <1>2, <1>3, Moving
<1>4. CASE /\ taskq[e] # << >>
           /\ HandOver(e, m, status[Head(taskq[e])] # {"waiting"})
  <2>1. PICK w : w = Head(taskq[e])
    OBVIOUS
  <2>2. w \in Range(taskq[e])
    BY <1>4, <2>1, TailFacts, Parts
  <2>3. status[w] = {"waiting"} \/ status[w] = {"delayed"}
    BY <2>2, WaiterFacts
  <2>4. /\ taskq' = [taskq EXCEPT ![e] = Tail(@)]
        /\ status' = [status EXCEPT ![w] = @ \ {"waiting", "delayed"}]
        /\ lists' = enterlist(lists, status[w] \ {"waiting", "delayed"}, w)
        /\ dl' = IF status[w] # {"waiting"} THEN cancel_delay(dl, w) ELSE dl
    BY <1>4, <2>1 DEF HandOver
  <2>5. dl' = IF status[w] = {"delayed"} THEN cancel_delay(dl, w) ELSE dl
    BY <2>3, <2>4
  <2> QED
    BY <1>1, <1>2, <1>4, <2>1, <2>4, <2>5, Handed
<1> QED
  BY <1>3, <1>4 DEF reqsend

LEMMA StepAccept ==
  ASSUME SInv, NEW t, NEW e \in AllExchanges, reqacpt(t, e)
  PROVE  SInv'
<1>1. /\ Runs(t) /\ exchange' = [exchange EXCEPT ![t] = e] /\ region' = "exit"
      /\ UNCHANGED <<lists, rqactv, cpu, status, taskq, index, rqfrozen, saved,
                     taskl, stacks, dl>>
  BY DEF reqacpt, Call, sched, frozen, objects, ints, pending, given
<1> QED
  BY <1>1, Accepting

LEMMA StepWait ==
  ASSUME SInv, NEW t, t # Idle, NEW e \in AllExchanges, NEW n \in Ticks,
         n # 0 => t \in Tasks, reqwait(t, e, n)
  PROVE  SInv'
<1>1. /\ Runs(t) /\ exchange' = [exchange EXCEPT ![t] = e] /\ region' = "exit"
      /\ UNCHANGED <<rqactv, cpu, index, rqfrozen, saved, taskl, stacks>>
  BY DEF reqwait, Call, frozen, objects, ints, pending, given
<1>2. CASE UNCHANGED <<lists, status, taskq, dl>>
  BY <1>1, <1>2, Accepting
<1>3. CASE /\ lists' = [lists EXCEPT !.ready = Tail(@)]
           /\ taskq' = [taskq EXCEPT ![e] = Append(@, t)]
           /\ dl' = IF n = 0 THEN dl ELSE insert_delay(dl, t, n)
           /\ status' = [status EXCEPT ![t] =
                           @ \cup {IF n = 0 THEN "waiting" ELSE "delayed"}]
  BY <1>1, <1>3, Blocking
<1> QED
  BY <1>2, <1>3 DEF reqwait

LEMMA StepExpire ==
  ASSUME SInv, DelayExpire
  PROVE  SInv'
<1>1. PICK w : w = Head(dl.seq)
  OBVIOUS
<1>2. /\ region = "delay" /\ region' = region /\ index' = index
      /\ UNCHANGED <<exchange, taskl, stacks, rqactv, cpu, rqfrozen, saved>>
      /\ FirstDelay = 0
  BY DEF DelayExpire, frozen, objects, ints, pending, given
<1>3. Intact /\ index = 0
  BY <1>2 DEF SInv, Processor, Types
<1>4. dl.seq # << >>
  BY <1>2, NucleusAssumption DEF FirstDelay, First
<1>5. w \in Range(dl.seq) /\ w \in AllTasks
  <2>1. dl.seq \in Seq(Tasks) /\ IsInjective(dl.seq)
    BY DelayType DEF IsList
  <2>2. w \in Range(dl.seq) /\ w \in Tasks
    BY <1>1, <1>4, <2>1, TailFacts
  <2> QED
    BY <2>2 DEF AllTasks
<1>6. Placed(w)
  BY <1>5, Parts
<1>7. status[w] = {"delayed"} /\ w \in Existing /\ Blocked(w) /\ exchange[w] # NULL
  BY <1>5, <1>6 DEF Placed, Kinds, Blocked
<1>8. PICK e \in AllExchanges : e = exchange[w]
  <2>1. exchange[w] \in AllExchanges \cup {NULL}
    BY <1>5, Parts
  <2> QED
    BY <1>7, <2>1
<1>9. w \in Range(taskq[e])
  BY <1>6, <1>7, <1>8 DEF Placed
<1>10. PICK q : q = RemoveFirst(taskq[e], w)
  OBVIOUS
<1>11. q \in Seq(AllTasks) /\ IsInjective(q) /\ Range(q) = Range(taskq[e]) \ {w}
  BY <1>10, RemoveFirstFacts, Parts
<1>12. status[w] \ {"delayed"} = {}
  BY <1>7
<1>13. /\ taskq' = [taskq EXCEPT ![e] = q]
       /\ status' = [status EXCEPT ![w] = {}]
       /\ lists' = enterlist(lists, {}, w)
       /\ dl' = cancel_delay(dl, w)
  BY <1>1, <1>8, <1>10, <1>12 DEF DelayExpire
<1>14. dl' = IF status[w] = {"delayed"} THEN cancel_delay(dl, w) ELSE dl
  BY <1>7, <1>13
<1> QED
  BY <1>2, <1>3, <1>9, <1>11, <1>13, <1>14, Waking

LEMMA ExchangeFacts ==
  /\ \A e \in Exchanges \cup Irqs : e \in AllExchanges
  /\ DelayEx \in AllExchanges
  /\ \A n \in Delays : n \in Ticks
  /\ 0 \in Ticks /\ Idle # DelayTask /\ Idle \notin Tasks
BY NucleusAssumption DEF AllExchanges, IntExchanges, Ticks

LEMMA StepCall ==
  ASSUME Suspenders = {}, SInv, NEW t \in Tasks \cup {Idle}, CallOf(t)
  PROVE  SInv'
<1>1. ASSUME NEW x, reqelvl(t, x) \/ reqdlvl(t, x) \/ reqsetv(t, x)
      PROVE  SInv'
  <2>1. /\ Intact /\ index' = index /\ region' = region
        /\ UNCHANGED <<lists, taskl, stacks, rqactv, cpu, status, exchange,
                       dl, rqfrozen, saved, taskq>>
    BY <1>1 DEF reqelvl, Enable, pending, reqdlvl, reqsetv, Call, Runs, sched, queues, frozen, objects
  <2> QED
    BY <2>1, Moving
<1>2. ASSUME NEW m \in Messages, reqcmsg(t, m) PROVE SInv'
  BY <1>2, Moving DEF reqcmsg, Call, Runs, sched, frozen, objects, ints, pending, given
<1>3. ASSUME NEW m \in Messages, NEW e \in Exchanges \cup Irqs, reqsend(t, e, m)
      PROVE  SInv'
  BY <1>3, StepSend, ExchangeFacts
<1>4. ASSUME NEW e \in Exchanges \cup Irqs, reqacpt(t, e) PROVE SInv'
  BY <1>4, StepAccept, ExchangeFacts
<1>5. ASSUME NEW u \in Tasks, reqctsk(t, u) PROVE SInv'
  <2>1. /\ Runs(t) /\ u \notin stacks /\ region' = "exit"
        /\ status' = [status EXCEPT ![u] = {}]
        /\ exchange' = [exchange EXCEPT ![u] = NULL]
        /\ \/ UNCHANGED <<lists, taskl, stacks>>
           \/ /\ stacks' = stacks \cup {u}
              /\ lists' = enterlist(lists, {}, u)
              /\ taskl' = Append1(taskl, u)
        /\ UNCHANGED <<rqactv, cpu, taskq, index, rqfrozen, saved, dl>>
    BY <1>5 DEF reqctsk, Call, frozen, ints, pending, given
  <2> QED
    BY <2>1, Creating
<1>6. ASSUME NEW u \in Tasks, reqdtsk(t, u) PROVE SInv'
  BY <1>6, Deleting DEF reqdtsk, ints, pending, given
<1>7. ASSUME NEW u \in Tasks, reqsusp(t, u) PROVE SInv'
  <2>1. u = t /\ UNCHANGED index
    BY <1>7 DEF reqsusp, ints, pending, given
  <2> QED
    BY <1>7, <2>1, Suspending
<1>8. ASSUME NEW u \in Tasks, reqresm(t, u) PROVE SInv'
  BY <1>8, Resuming DEF reqresm, ints, pending, given
<1> QED
  BY <1>1, <1>2, <1>3, <1>4, <1>5, <1>6, <1>7, <1>8 DEF CallOf

LEMMA StepScheduling ==
  ASSUME Suspenders = {}, MailInv, Contexts, SInv, [Next]_vars
  PROVE  SInv'
<1>1. ASSUME NEW t \in Tasks, Wait(t) PROVE SInv'
  BY <1>1, StepWait, ExchangeFacts DEF Wait
<1>2. ASSUME NEW t, Return(t) PROVE SInv'
  BY <1>2, Moving DEF Return, Runs, sched, queues, ints, pending, given, frozen, objects
<1>3. CASE Freeze
  <2>1. ASSUME NEW t, FreezeEnter(t) PROVE SInv'
    BY <2>1, Moving DEF FreezeEnter, Runs, sched, queues, ints, pending, given, frozen, objects
  <2> QED
    BY <1>3, <2>1, Freezing, Baking DEF Freeze
<1>4. CASE Delayer
  <2>1. CASE reqwait(DelayTask, DelayEx, 0)
    BY <2>1, StepWait, ExchangeFacts
  <2>2. CASE DelayEnter
    BY <2>2, Moving DEF DelayEnter, Runs, sched, queues, ints, pending, given, frozen, objects
  <2>3. CASE DelayDone
    <3>1. region = "delay" => Intact
      BY DEF SInv, Processor
    <3> QED
      BY <2>3, <3>1, Moving DEF DelayDone, sched, queues, ints, pending, given, frozen, objects
  <2> QED
    BY <1>4, <2>1, <2>2, <2>3, StepExpire DEF Delayer
<1>5. CASE UNCHANGED vars
  <2>1. UNCHANGED <<lists, taskl, stacks, rqactv, cpu, status, exchange, dl,
                    rqfrozen, saved, taskq, region, index>>
    BY <1>5 DEF vars, sched, queues, ints, pending, given, frozen, objects
  <2>2. Processor'
    BY <2>1 DEF SInv, Processor, Marked, Intact
  <2>3. region \in {"out", "exit", "leave", "freeze", "delay"} /\ index \in Nat
    BY DEF SInv, Types
  <2> QED
    BY <2>1, <2>2, <2>3, Framing
<1> QED
  BY <1>1, <1>2, <1>3, <1>4, <1>5, StepInterrupt, StepScheduler, StepCall DEF Next
-----------------------------------------------------------------------------
(* What follows from the invariant.                                        *)
LEMMA StepContexts ==
  ASSUME SInv, Contexts, [Next]_vars
  PROVE  Contexts'
<1>1. ASSUME context' = context PROVE Contexts'
  BY <1>1 DEF Contexts
<1>2. CASE Leave
  <2>1. cpu \in AllTasks
    BY DEF SInv, Types
  <2> QED
    BY <1>2, <2>1 DEF Leave, Contexts
<1>3. ASSUME NEW t, NEW u \in Tasks, reqctsk(t, u) PROVE Contexts'
  BY <1>3 DEF reqctsk, Contexts, AllTasks
<1>4. CASE Interrupt
  BY <1>1, <1>4 DEF Interrupt, reqisnd, reqssnd, Notify, yalrt_timer_handler
<1>5. CASE DrainLoad \/ DrainStore \/ Drain \/ Drained
  BY <1>1, <1>5 DEF DrainLoad, DrainStore, Drain, Drained, sched
<1>6. CASE Freeze
  BY <1>1, <1>6 DEF Freeze, FreezeEnter, FreezeSet, reqbake, sched
<1>7. CASE Delayer
  BY <1>1, <1>7 DEF Delayer, reqwait, DelayEnter, DelayExpire, DelayDone, sched
<1>8. ASSUME NEW t \in Tasks \cup {Idle}, CallOf(t) PROVE Contexts'
  BY <1>1, <1>3, <1>8 DEF CallOf, reqelvl, reqdlvl, reqsetv, reqcmsg, reqsend,
     reqacpt, reqdtsk, reqsusp, reqresm, sched
<1>9. ASSUME NEW t, Wait(t) \/ Return(t) PROVE Contexts'
  BY <1>1, <1>9 DEF Wait, Return, reqwait, sched
<1>10. CASE UNCHANGED vars
  BY <1>1, <1>10 DEF vars, sched
<1> QED
  BY <1>2, <1>4, <1>5, <1>6, <1>7, <1>8, <1>9, <1>10 DEF Next, Scheduler

LEMMA Always ==
  ASSUME Suspenders = {}
  PROVE  Spec => [](SInv /\ MailInv /\ Contexts)
<1>1. Init => SInv /\ MailInv /\ Contexts
  BY InitScheduling, InitMail DEF Init, Contexts
<1>2. SInv /\ MailInv /\ Contexts /\ [Next]_vars => (SInv /\ MailInv /\ Contexts)'
  BY StepScheduling, MailStep, StepContexts
<1> QED
  BY <1>1, <1>2, PTL DEF Spec

(* In tasks that suspend only themselves the first ready task is the most  *)
(* urgent of all that could run, outside of a region (exit_region).        *)
THEOREM MostUrgentRuns ==
  ASSUME Suspenders = {}
  PROVE  Spec => []HighestRuns
<1>1. SInv => HighestRuns
  <2> SUFFICES ASSUME SInv, region = "out", ~rqfrozen, cpu = rqactv,
                      NEW t \in Existing, status[t] \subseteq {"maskint"}
               PROVE  Prio[cpu] <= Prio[t]
    BY DEF HighestRuns
  <2>1. rqactv = Head(lists.ready) /\ saved.ready = << >>
    BY DEF SInv, Processor, Readies
  <2>2. t \in AllTasks
    BY DEF Existing, SInv, Types, AllTasks
  <2>3. t \in Range(lists.ready)
    BY <2>1, <2>2, Parts, Nobody DEF Placed
  <2> QED
    BY <2>1, <2>3, OrderedFacts, Parts
<1> QED
  BY <1>1, Always, PTL

(* Whoever is in a queue or in the delay list exists and waits there, so   *)
(* that a message wakes no dead task and an expiry finds its waiter        *)
(* (reqdtsk, reqdqtsk, rqdelaytask).                                       *)
THEOREM WaitersExist ==
  ASSUME Suspenders = {}
  PROVE  Spec => []WaitersReal
<1>1. SInv => WaitersReal
  <2> SUFFICES ASSUME SInv PROVE WaitersReal
    OBVIOUS
  <2>1. ASSUME NEW e \in AllExchanges, NEW t \in Range(taskq[e])
        PROVE  t \in Existing /\ Blocked(t) /\ exchange[t] = e
    <3>1. t \in AllTasks
      BY WaiterFacts
    <3> QED
      BY <3>1, Parts DEF Placed
  <2>2. ASSUME NEW t \in Tasks \cap Existing
        PROVE  t \in Range(dl.seq) <=> "delayed" \in status[t]
    <3>1. t \in AllTasks
      BY DEF AllTasks
    <3> QED
      BY <3>1, Parts DEF Placed
  <2> QED
    BY <2>1, <2>2 DEF WaitersReal
<1> QED
  BY <1>1, Always, PTL

(* An interrupt takes the processor only for a more urgent task (enterlist *)
(* puts a task behind its equals, and the interrupted one stays first).    *)
THEOREM OnlyForMoreUrgent ==
  ASSUME Suspenders = {}
  PROVE  Spec => NoEqualSwitch
<1>1. ASSUME SInv, [Next]_vars, rqactv' # cpu, cpu = rqactv, "maskint" \in status[cpu]
      PROVE  Prio[rqactv'] < Prio[cpu]
  <2>1. CASE Leave
    <3>1. rqactv' = Head(lists.ready) /\ Marked(cpu)
      BY <1>1, <2>1 DEF Leave, Marked
    <3>2. cpu \in Range(lists.ready) /\ Ahead(lists.ready, cpu)
      BY <1>1, <3>1 DEF SInv, Processor
    <3>3. /\ lists.ready[1] = rqactv' /\ Len(lists.ready) \in Nat \ {0}
          /\ DOMAIN lists.ready = 1..Len(lists.ready)
      BY <1>1, <3>1, OrderedFacts, Parts
    <3>4. PICK j \in 1..Len(lists.ready) : lists.ready[j] = cpu
      BY <3>2, <3>3 DEF Range
    <3>5. 1 < j /\ 1 \in 1..Len(lists.ready)
      BY <1>1, <3>3, <3>4
    <3> QED
      BY <3>2, <3>3, <3>4, <3>5 DEF Ahead
  <2>2. CASE reqbake
    BY <1>1, <2>2 DEF reqbake, SInv, Processor, Marked
  <2>3. ASSUME ~Leave, ~reqbake PROVE rqactv' = rqactv
    <3>1. CASE Interrupt
      BY <3>1 DEF Interrupt, reqisnd, reqssnd, Notify, yalrt_timer_handler
    <3>2. CASE Scheduler
      BY <2>3, <3>2 DEF Scheduler, DrainLoad, DrainStore, Drain, Drained, sched
    <3>3. CASE Freeze
      BY <2>3, <3>3 DEF Freeze, FreezeEnter, FreezeSet, sched
    <3>4. CASE Delayer
      BY <3>4 DEF Delayer, reqwait, DelayEnter, DelayExpire, DelayDone, sched
    <3>5. ASSUME NEW t \in Tasks \cup {Idle}, CallOf(t) PROVE rqactv' = rqactv
      BY <3>5 DEF CallOf, reqelvl, reqdlvl, reqsetv, reqcmsg, reqsend, reqacpt,
                  reqctsk, reqdtsk, reqsusp, reqresm, sched
    <3>6. ASSUME NEW t, Wait(t) \/ Return(t) PROVE rqactv' = rqactv
      BY <3>6 DEF Wait, Return, reqwait, sched
    <3>7. CASE UNCHANGED vars
      BY <3>7 DEF vars, sched
    <3> QED
      BY <1>1, <3>1, <3>2, <3>3, <3>4, <3>5, <3>6, <3>7 DEF Next
  <2> QED
    BY <1>1, <2>1, <2>2, <2>3
<1>2. SInv /\ MailInv /\ [Next]_vars
        => [rqactv' # cpu /\ cpu = rqactv /\ "maskint" \in status[cpu]
              => Prio[rqactv'] < Prio[cpu]]_vars
  BY <1>1
<1> QED
  BY <1>2, Always, PTL DEF Spec, NoEqualSwitch

-----------------------------------------------------------------------------
(* A task is in one list, once.                                            *)
LEMMA Once ==
  ASSUME NEW s, IsInjective(s), NEW t, NEW n,
         n = Cardinality({k \in DOMAIN s : s[k] = t})
  PROVE  n = IF t \in Range(s) THEN 1 ELSE 0
<1> DEFINE at == {k \in DOMAIN s : s[k] = t}
<1>1. CASE t \in Range(s)
  <2>1. PICK k \in DOMAIN s : s[k] = t
    BY <1>1 DEF Range
  <2>2. at = {k}
    BY <2>1 DEF IsInjective
  <2>3. Cardinality({k}) = 1
    BY FS_Singleton
  <2> QED
    BY <1>1, <2>2, <2>3
<1>2. CASE t \notin Range(s)
  <2>1. at = {}
    BY <1>2 DEF Range
  <2> QED
    BY <1>2, <2>1, FS_EmptySet
<1> QED
  BY <1>1, <1>2

(* Every task is in the one list that its status tells, also while the     *)
(* ready list is set aside (enterlist, removelist, reqfreeze).             *)
THEOREM InOneList ==
  ASSUME Suspenders = {}
  PROVE  Spec => []OnePlace
<1>1. SInv => OnePlace
  <2> SUFFICES
        ASSUME SInv, Intact, NEW t \in Existing
        PROVE
          LET In(s) == Cardinality({k \in DOMAIN s : s[k] = t})
              ready == In(lists.ready) + IF t = Idle THEN 0 ELSE In(saved.ready)
              q == IF exchange[t] = NULL THEN << >> ELSE taskq[exchange[t]]
          IN <<ready, In(lists.susp.seq), In(q)>> =
               CASE Blocked(t) -> <<0, 0, 1>>
                 [] ~Blocked(t) /\ "suspended" \in status[t] -> <<0, 1, 0>>
                 [] OTHER -> <<1, 0, 0>>
    BY DEF OnePlace
  <2>1. t \in AllTasks
    BY DEF Existing, SInv, Types, AllTasks
  <2>2. Placed(t) /\ Listed(t) /\ status[t] \in Kinds
    BY <2>1, Parts DEF Placed
  <2>3. IsInjective(lists.ready) /\ IsInjective(lists.susp.seq)
    BY Parts DEF Ordered
  <2>4. IsInjective(saved.ready)
    <3>1. CASE rqfrozen
      BY <3>1 DEF SInv, Readies, Ordered
    <3>2. CASE ~rqfrozen
      <4>1. saved.ready = << >>
        BY <3>2 DEF SInv, Readies
      <4> QED
        BY <4>1 DEF IsInjective
    <3> QED
      BY <3>1, <3>2
  <2>5. PICK q : q = IF exchange[t] = NULL THEN << >> ELSE taskq[exchange[t]]
    OBVIOUS
  <2>6. exchange[t] \in AllExchanges \cup {NULL}
    BY <2>1, Parts
  <2>7. IsInjective(q)
    <3>1. CASE exchange[t] = NULL
      BY <2>5, <3>1 DEF IsInjective
    <3>2. CASE exchange[t] # NULL
      BY <2>5, <2>6, <3>2, Parts
    <3> QED
      BY <3>1, <3>2
  <2>8. t \in Range(q) <=> Blocked(t)
    <3>1. CASE exchange[t] = NULL
      BY <2>2, <2>5, <3>1, Nobody DEF Placed
    <3>2. CASE exchange[t] # NULL
      BY <2>2, <2>5, <2>6, <3>2 DEF Placed
    <3> QED
      BY <3>1, <3>2
  <2> DEFINE In(s) == Cardinality({k \in DOMAIN s : s[k] = t})
  <2>9. PICK a, b, c, d : /\ a = In(lists.ready) /\ b = In(saved.ready)
                          /\ c = In(lists.susp.seq) /\ d = In(q)
    OBVIOUS
  <2>10. /\ a = IF t \in Range(lists.ready) THEN 1 ELSE 0
         /\ b = IF t \in Range(saved.ready) THEN 1 ELSE 0
         /\ c = IF t \in Range(lists.susp.seq) THEN 1 ELSE 0
         /\ d = IF t \in Range(q) THEN 1 ELSE 0
    BY <2>3, <2>4, <2>7, <2>9, Once
  <2>11. t # Idle => t \notin Range(lists.ready) \cap Range(saved.ready)
    BY Parts
  <2>12. t = Idle => t \in Range(lists.ready)
    BY IdleReady
  <2>13. CASE Blocked(t)
    <3>1. status[t] = {"waiting"} \/ status[t] = {"delayed"}
      BY <2>2, <2>13 DEF Kinds, Blocked
    <3>2. /\ t \notin Range(lists.ready) /\ t \notin Range(saved.ready)
          /\ t \notin Range(lists.susp.seq)
      BY <2>2, <3>1 DEF Placed, Listed
    <3>3. a + (IF t = Idle THEN 0 ELSE b) = 0 /\ c = 0 /\ d = 1
      BY <2>8, <2>10, <2>13, <3>2
    <3> QED
      BY <2>5, <2>9, <2>13, <3>3
  <2>14. CASE ~Blocked(t) /\ "suspended" \in status[t]
    <3>1. status[t] = {"suspended"}
      BY <2>2, <2>14 DEF Kinds
    <3>2. /\ t \notin Range(lists.ready) /\ t \notin Range(saved.ready)
          /\ t \in Range(lists.susp.seq)
      BY <2>2, <3>1 DEF Placed, Listed
    <3>3. a + (IF t = Idle THEN 0 ELSE b) = 0 /\ c = 1 /\ d = 0
      BY <2>8, <2>10, <2>14, <3>2
    <3> QED
      BY <2>5, <2>9, <2>14, <3>3
  <2>15. CASE ~Blocked(t) /\ "suspended" \notin status[t]
    <3>1. status[t] \subseteq {"maskint"}
      BY <2>2, <2>15 DEF Kinds, Blocked
    <3>2. /\ t \in Range(lists.ready) \cup Range(saved.ready)
          /\ t \notin Range(lists.susp.seq)
      BY <2>2, <2>15 , <3>1 DEF Placed, Listed
    <3>3. a + (IF t = Idle THEN 0 ELSE b) = 1 /\ c = 0 /\ d = 0
      BY <2>8, <2>10, <2>11, <2>12, <2>15, <3>2
    <3> QED
      BY <2>5, <2>9, <2>15, <3>3
  <2> QED
    BY <2>13, <2>14, <2>15
<1> QED
  BY <1>1, Always, PTL
-----------------------------------------------------------------------------
(* The parts of the state that no other invariant speaks of.               *)
Records ==
  /\ message \in [AllTasks -> AllMessages \cup {NULL, TimeOut}]
  /\ type \in [IntExchanges -> {"int", "missed"}]
  /\ assigned \subseteq IntExchanges /\ virtual \subseteq IntExchanges
  /\ after \in [AllTasks -> {"none", "check", "freeze", "collect"}]

LEMMA StepRecords ==
  ASSUME MailInv, Records, [Next]_vars
  PROVE  Records'
<1>1. /\ \A x \in Irqs : x \in IntExchanges
      /\ \A m \in Messages \cup IntExchanges : m \in AllMessages
      /\ \A e \in Exchanges \cup Irqs : e \in AllExchanges
      /\ DelayEx \in AllExchanges
  BY DEF AllMessages, AllExchanges, IntExchanges
<1>2. msgq \in [AllExchanges -> Seq(AllMessages)]
  BY DEF MailInv, MailTypes
<1>3. ASSUME NEW e, NEW m \in AllMessages, NEW c, HandOver(e, m, c)
      PROVE  message' \in [AllTasks -> AllMessages \cup {NULL, TimeOut}]
  BY <1>3 DEF HandOver, Records
<1>4. ASSUME NEW t, NEW e \in AllExchanges, msgq[e] # << >>, reqdqmsg(t, e)
      PROVE  message' \in [AllTasks -> AllMessages \cup {NULL, TimeOut}]
  <2>1. PICK m : m = Head(msgq[e])
    OBVIOUS
  <2>2. m \in AllMessages
    BY <1>2, <1>4, <2>1
  <2>3. PICK n \in AllMessages \cup {NULL} : message' = [message EXCEPT ![t] = n]
    BY <1>4, <2>1, <2>2 DEF reqdqmsg
  <2> QED
    BY <2>3 DEF Records
<1>5. ASSUME NEW t, NEW e \in AllExchanges, NEW n, reqwait(t, e, n) PROVE Records'
  <2>1. message' \in [AllTasks -> AllMessages \cup {NULL, TimeOut}]
    BY <1>4, <1>5 DEF reqwait, Records
  <2>2. after' \in [AllTasks -> {"none", "check", "freeze", "collect"}]
    BY <1>5 DEF reqwait, Records
  <2>3. assigned' \subseteq IntExchanges /\ virtual' \subseteq IntExchanges
    BY <1>5 DEF reqwait, Enable, IntExchanges, Records, given
  <2> QED
    BY <1>5, <2>1, <2>2, <2>3 DEF reqwait, Records
<1>6. CASE Interrupt
  <2>1. ASSUME NEW x, Notify(x) PROVE Records'
    BY <2>1 DEF Notify, Records, given
  <2>2. CASE yalrt_timer_handler
    BY <2>2 DEF yalrt_timer_handler, Records, queues, given
  <2> QED
    BY <1>6, <2>1, <2>2 DEF Interrupt, reqisnd, reqssnd
<1>7. CASE Scheduler
  <2>1. CASE Drain
    <3>1. PICK x : x = Popped
      OBVIOUS
    <3>2. x \in IntExchanges /\ x \in AllMessages
      BY <1>1, <2>1, <3>1, PoppedFacts DEF Drain
    <3>3. CASE Post(x)
      BY <2>1, <3>3 DEF Post, Drain, Records, given
    <3>4. CASE /\ HandOver(x, x, "delayed" \in status[Head(taskq[x])])
               /\ type' = [type EXCEPT ![x] = "int"]
      <4>1. message' \in [AllTasks -> AllMessages \cup {NULL, TimeOut}]
        BY <1>3, <3>2, <3>4
      <4> QED
        BY <2>1, <3>4, <4>1 DEF Drain, Records, given
    <3> QED
      BY <2>1, <3>1, <3>3, <3>4 DEF Drain
  <2>2. CASE DrainLoad \/ DrainStore \/ Drained \/ Leave
    BY <2>2 DEF DrainLoad, DrainStore, Drained, Leave, Records, queues, ints, pending, given
  <2> QED
    BY <1>7, <2>1, <2>2 DEF Scheduler
<1>8. CASE Freeze
  BY <1>8 DEF Freeze, FreezeEnter, FreezeSet, reqbake, Records, queues, ints, pending, given
<1>9. CASE Delayer
  <2>1. CASE DelayEnter \/ DelayExpire \/ DelayDone
    BY <2>1 DEF DelayEnter, DelayExpire, DelayDone, Records, queues, ints, pending, given
  <2> QED
    BY <1>1, <1>5, <1>9, <2>1 DEF Delayer
<1>10. ASSUME NEW t \in Tasks \cup {Idle}, CallOf(t) PROVE Records'
  <2>1. ASSUME NEW x \in IntExchanges, reqelvl(t, x) PROVE Records'
    <3>1. type' \in [IntExchanges -> {"int", "missed"}]
      BY <2>1 DEF reqelvl, Enable, pending, Records
    <3> QED
      BY <2>1, <3>1 DEF reqelvl, Enable, pending, Records
  <2>2. ASSUME NEW x, reqdlvl(t, x) \/ reqsetv(t, x) PROVE Records'
    BY <2>2 DEF reqdlvl, reqsetv, Records, queues
  <2>3. ASSUME NEW m \in Messages, reqcmsg(t, m) PROVE Records'
    BY <2>3 DEF reqcmsg, Records, ints, pending, given
  <2>4. ASSUME NEW m \in Messages, NEW e \in Exchanges \cup Irqs, reqsend(t, e, m)
        PROVE  Records'
    <3>1. message' \in [AllTasks -> AllMessages \cup {NULL, TimeOut}]
      BY <1>1, <1>3, <2>4 DEF reqsend, Records
    <3>2. PICK a \in {"freeze", "none"} : after' = [after EXCEPT ![t] = a]
      BY <2>4 DEF reqsend
    <3>3. after' \in [AllTasks -> {"none", "check", "freeze", "collect"}]
      BY <3>2 DEF Records
    <3> QED
      BY <2>4, <3>1, <3>3 DEF reqsend, Records, ints, pending, given
  <2>5. ASSUME NEW e \in Exchanges \cup Irqs, reqacpt(t, e) PROVE Records'
    <3>1. message' \in [AllTasks -> AllMessages \cup {NULL, TimeOut}]
      <4>1. CASE msgq[e] # << >>
        BY <1>1, <1>4, <2>5, <4>1 DEF reqacpt
      <4>2. CASE msgq[e] = << >>
        BY <2>5, <4>2 DEF reqacpt, Records
      <4> QED
        BY <4>1, <4>2
    <3> QED
      BY <2>5, <3>1 DEF reqacpt, Records, ints, pending, given
  <2>6. ASSUME NEW u \in Tasks,
               reqctsk(t, u) \/ reqdtsk(t, u) \/ reqsusp(t, u) \/ reqresm(t, u)
        PROVE  Records'
    BY <2>6 DEF reqctsk, reqdtsk, reqsusp, reqresm, Records, queues, ints, pending, given
  <2> QED
    BY <1>10, <2>1, <2>2, <2>3, <2>4, <2>5, <2>6 DEF CallOf
<1>11. ASSUME NEW t \in Tasks, Wait(t) PROVE Records'
  BY <1>1, <1>5, <1>11 DEF Wait
<1>12. ASSUME NEW t, Return(t) PROVE Records'
  BY <1>12 DEF Return, Records, queues, ints, pending, given
<1>13. CASE UNCHANGED vars
  BY <1>13 DEF vars, Records, queues, ints, pending, given
<1> QED
  BY <1>6, <1>7, <1>8, <1>9, <1>10, <1>11, <1>12, <1>13 DEF Next

(* Every variable keeps its type.                                          *)
THEOREM TypesHold ==
  ASSUME Suspenders = {}
  PROVE  Spec => []TypeOK
<1>1. Init => Records
  BY DEF Init, Records, IntExchanges
<1>2. SInv /\ MailInv /\ Records /\ Contexts => TypeOK
  BY DEF SInv, Types, MailInv, MailTypes, Records, Contexts, TypeOK
<1> QED
  BY <1>1, <1>2, StepRecords, Always, PTL DEF Spec

-----------------------------------------------------------------------------
(* The delay list implements a count for each task (Timeouts).             *)
LEMMA Lefts ==
  ASSUME SInv
  PROVE  /\ left = [u \in Tasks |-> left[u]] /\ Range(dl.seq) \subseteq Tasks
         /\ \A u \in Range(dl.seq) : left[u] \in Nat
         /\ \A u \in Tasks : left[u] # -1 <=> u \in Range(dl.seq)
         /\ FirstDelay = 0 => dl.seq # << >> /\ left[Head(dl.seq)] = 0
<1>1. /\ dl.seq \in Seq(Tasks) /\ IsList(dl.seq, dl.delay, Tasks, Never) /\ Never # 0
  BY DelayType, NucleusAssumption DEF IsList
<1>2. PICK s, d : s = dl.seq /\ d = dl.delay
  OBVIOUS
<1>3. /\ \A u \in Range(s) : Left(s, d, Tasks)[u] \in Nat
      /\ First(s, d, Never) = 0 =>
           s # << >> /\ Left(s, d, Tasks)[Head(s)] = 0
  BY <1>1, <1>2, FirstLeft DEF First
<1>4. /\ Left(s, d, Tasks) = [u \in Tasks |-> Left(s, d, Tasks)[u]]
      /\ \A u \in Tasks : u \notin Range(s) => Left(s, d, Tasks)[u] = -1
  BY <1>1, <1>2, LeftFacts
<1>5. left = Left(s, d, Tasks) /\ FirstDelay = First(s, d, Never)
  BY <1>2 DEF left, FirstDelay
<1>6. Range(s) \subseteq Tasks
  BY <1>1, <1>2 DEF Range
<1>7. left = [u \in Tasks |-> left[u]]
  BY <1>4, <1>5
<1>8. /\ \A u \in Range(s) : left[u] \in Nat
      /\ \A u \in Tasks : u \notin Range(s) => left[u] = -1
  BY <1>3, <1>4, <1>5
<1>9. \A u \in Tasks : left[u] # -1 <=> u \in Range(s)
  BY <1>8
<1>10. FirstDelay = 0 => s # << >> /\ left[Head(s)] = 0
  BY <1>3, <1>5
<1> QED
  BY <1>2, <1>6, <1>7, <1>8, <1>9, <1>10

LEMMA StepTimeouts ==
  ASSUME Suspenders = {}, SInv, MailInv, [Next]_vars
  PROVE  [Promised!TNext]_left
<1>1. ASSUME dl' = dl PROVE left' = left
  BY <1>1 DEF left
<1>2. ASSUME NEW w \in Range(dl.seq), dl' = cancel_delay(dl, w)
      PROVE  Promised!TNext
  <2>1. left' = [left EXCEPT ![w] = -1] /\ w \in Tasks /\ left[w] # -1
    BY <1>2, Cancelling, Lefts
  <2>2. Promised!End(w)
    BY <2>1 DEF Promised!End, Promised!Waits, Promised!Out
  <2> QED
    BY <2>1, <2>2 DEF Promised!TNext
<1>3. ASSUME NEW e \in AllExchanges, taskq[e] # << >>, NEW m, NEW w, w = Head(taskq[e]),
             \/ HandOver(e, m, "delayed" \in status[w])
             \/ HandOver(e, m, status[w] # {"waiting"})
      PROVE  [Promised!TNext]_left
  <2>1. w \in Range(taskq[e])
    BY <1>3, TailFacts, Parts
  <2>2. /\ status[w] = {"waiting"} \/ status[w] = {"delayed"}
        /\ w \in Range(dl.seq) <=> status[w] = {"delayed"}
    BY <2>1, WaiterFacts
  <2>3. CASE status[w] = {"waiting"}
    <3>1. dl' = dl
      BY <1>3, <2>3 DEF HandOver
    <3> QED
      BY <1>1, <3>1
  <2>4. CASE status[w] = {"delayed"}
    <3>1. dl' = cancel_delay(dl, w)
      BY <1>3, <2>4 DEF HandOver
    <3> QED
      BY <1>2, <2>2, <2>4, <3>1
  <2> QED
    BY <2>2, <2>3, <2>4
<1>4. CASE Interrupt
  <2>1. CASE yalrt_timer_handler
    <3>1. \/ left' = left
          \/ /\ \A t \in Tasks : left[t] # 0
             /\ left' = [t \in Tasks |-> IF left[t] # -1 THEN left[t] - 1 ELSE -1]
      BY <2>1, Ticking
    <3> QED
      BY <3>1 DEF Promised!TNext, Promised!Count, Promised!Waits, Promised!Out
  <2>2. ASSUME NEW x, Notify(x) PROVE dl' = dl
    BY <2>2 DEF Notify
  <2> QED
    BY <1>1, <1>4, <2>1, <2>2 DEF Interrupt, reqisnd, reqssnd
<1>5. CASE Scheduler
  <2>1. CASE Drain
    <3>1. PICK x : x = Popped
      OBVIOUS
    <3>2. x \in AllExchanges
      BY <2>1, <3>1, PoppedFacts, Distinct DEF Drain
    <3>3. CASE Post(x)
      BY <1>1, <3>3 DEF Post
    <3>4. CASE taskq[x] # << >> /\ HandOver(x, x, "delayed" \in status[Head(taskq[x])])
      BY <1>3, <3>2, <3>4
    <3> QED
      BY <2>1, <3>1, <3>3, <3>4 DEF Drain
  <2>2. CASE DrainLoad \/ DrainStore \/ Drained \/ Leave
    BY <1>1, <2>2 DEF DrainLoad, DrainStore, Drained, Leave
  <2> QED
    BY <1>5, <2>1, <2>2 DEF Scheduler
<1>6. CASE Freeze
  BY <1>1, <1>6 DEF Freeze, FreezeEnter, FreezeSet, reqbake
<1>7. ASSUME NEW t, NEW e \in AllExchanges, NEW n \in Ticks, n # 0 => t \in Tasks,
             reqwait(t, e, n)
      PROVE  [Promised!TNext]_left
  <2>1. CASE dl' = dl
    BY <1>1, <2>1
  <2>2. CASE n # 0 /\ dl' = insert_delay(dl, t, n)
    <3>1. t \in AllTasks /\ status[t] = {} /\ Runs(t)
      BY <1>7, Running DEF reqwait, Call
    <3>2. t \notin Range(dl.seq) /\ t \in Tasks
      BY <1>7, <2>2, <3>1, Parts DEF Placed
    <3>3. left' = [left EXCEPT ![t] = n] /\ left[t] = -1
      BY <2>2, <3>2, Delaying, Lefts
    <3>4. n \in 1..Never
      BY <2>2, NucleusAssumption DEF Ticks
    <3>5. Promised!Begin(t, n)
      BY <3>3 DEF Promised!Begin, Promised!Waits, Promised!Out
    <3> QED
      BY <3>2, <3>4, <3>5 DEF Promised!TNext
  <2> QED
    BY <1>7, <2>1, <2>2 DEF reqwait
<1>8. CASE Delayer
  <2>1. CASE DelayExpire
    <3>1. PICK w : w = Head(dl.seq)
      OBVIOUS
    <3>2. FirstDelay = 0 /\ dl' = cancel_delay(dl, w)
      BY <2>1, <3>1 DEF DelayExpire
    <3>3. left[w] = 0 /\ dl.seq # << >>
      BY <3>1, <3>2, Lefts
    <3>4. w \in Range(dl.seq) /\ w \in Tasks
      <4>1. dl.seq \in Seq(Tasks) /\ IsInjective(dl.seq)
        BY DelayType DEF IsList
      <4> QED
        BY <3>1, <3>3, <4>1, TailFacts
    <3>5. left' = [left EXCEPT ![w] = -1]
      BY <3>2, <3>4, Cancelling
    <3>6. Promised!Expired(w)
      BY <3>3, <3>5 DEF Promised!Expired, Promised!Out
    <3> QED
      BY <3>4, <3>6 DEF Promised!TNext
  <2>2. CASE DelayEnter \/ DelayDone
    BY <1>1, <2>2 DEF DelayEnter, DelayDone
  <2>3. CASE reqwait(DelayTask, DelayEx, 0)
    BY <1>7, <2>3, ExchangeFacts
  <2> QED
    BY <1>8, <2>1, <2>2, <2>3 DEF Delayer
<1>9. ASSUME NEW t \in Tasks \cup {Idle}, CallOf(t) PROVE [Promised!TNext]_left
  <2>1. ASSUME NEW m \in Messages, NEW e \in Exchanges \cup Irqs, reqsend(t, e, m)
        PROVE  [Promised!TNext]_left
    <3>1. e \in AllExchanges
      BY ExchangeFacts
    <3>2. CASE taskq[e] # << >> /\ HandOver(e, m, status[Head(taskq[e])] # {"waiting"})
      BY <1>3, <3>1, <3>2
    <3>3. CASE dl' = dl
      BY <1>1, <3>3
    <3> QED
      BY <2>1, <3>2, <3>3 DEF reqsend
  <2>2. ASSUME NEW u \in Tasks, reqdtsk(t, u) PROVE [Promised!TNext]_left
    <3>1. CASE "delayed" \notin status[u]
      BY <1>1, <2>2, <3>1 DEF reqdtsk
    <3>2. CASE "delayed" \in status[u]
      <4>1. u \in Existing /\ u \in AllTasks
        BY <2>2, Running DEF reqdtsk, Call, Existing, AllTasks
      <4>2. u \in Range(dl.seq)
        BY <3>2, <4>1, Parts DEF Placed
      <4>3. dl' = cancel_delay(dl, u)
        BY <2>2, <3>2 DEF reqdtsk
      <4> QED
        BY <1>2, <4>2, <4>3
    <3> QED
      BY <3>1, <3>2
  <2>3. ASSUME \/ \E x \in IntExchanges : reqelvl(t, x) \/ reqdlvl(t, x)
               \/ \E x \in Irqs : reqsetv(t, x)
               \/ \E m \in Messages : reqcmsg(t, m)
               \/ \E e \in Exchanges \cup Irqs : reqacpt(t, e)
               \/ \E u \in Tasks : reqctsk(t, u) \/ reqsusp(t, u) \/ reqresm(t, u)
        PROVE  dl' = dl
    BY <2>3 DEF reqelvl, Enable, pending, reqdlvl, reqsetv, reqcmsg, reqacpt, reqctsk, reqsusp, reqresm
  <2> QED
    BY <1>1, <1>9, <2>1, <2>2, <2>3 DEF CallOf
<1>10. ASSUME NEW t \in Tasks, Wait(t) PROVE [Promised!TNext]_left
  BY <1>7, <1>10, ExchangeFacts DEF Wait
<1>11. ASSUME (\E t \in Tasks \cup {DelayTask} : Return(t)) \/ UNCHANGED vars
       PROVE  dl' = dl
  BY <1>11 DEF Return, vars
<1> QED
  BY <1>1, <1>4, <1>5, <1>6, <1>8, <1>9, <1>10, <1>11 DEF Next

(* No wait that begins, ends or expires touches the count of another, and  *)
(* none expires before its count is zero (reqwait, cancel_delay,           *)
(* rqdelaytask, yalrt_timer_handler).                                      *)
THEOREM CountsImplemented ==
  ASSUME Suspenders = {}
  PROVE  Spec => ImplementsTimeouts
<1>1. Init => Promised!TInit
  <2> SUFFICES ASSUME Init PROVE left = [w \in Tasks |-> -1]
    BY DEF Promised!TInit, Promised!Out
  <2>1. SInv /\ dl.seq = << >>
    BY InitScheduling DEF Init
  <2> QED
    BY <2>1, Lefts, Nobody
<1>2. SInv /\ MailInv /\ [Next]_vars => [Promised!TNext]_left
  BY StepTimeouts
<1> QED
  BY <1>1, <1>2, Always, PTL DEF Spec, ImplementsTimeouts, Promised!TSpec
-----------------------------------------------------------------------------
(* Where only Linux freezes the system and tasks send what is theirs,      *)
(* nobody comes to an error, so that the system freezes and thaws in       *)
(* Linux's own context.                                                    *)
Served(t) ==
  /\ after[t] # "freeze"
  /\ t \in Existing /\ after[t] = "check" /\ ~Blocked(t) => message[t] # NULL

Agrees ==
  /\ cpu = rqactv /\ context = [t \in AllTasks |-> t]
  /\ region = "freeze" => rqactv = Idle
  /\ rqfrozen => saved.actv = Idle
  /\ \A t \in AllTasks : Served(t)

LEMMA StillServed ==
  ASSUME NEW t \in AllTasks, Served(t), (t \in Existing)' => t \in Existing,
         Blocked(t)' <=> Blocked(t), message'[t] = message[t],
         after'[t] \in {after[t], "none"}
  PROVE  Served(t)'
BY DEF Served

LEMMA Nothing == NULL \notin AllMessages /\ NULL # TimeOut
BY NucleusAssumption DEF AllMessages, AllExchanges

(* Tasks that have got a message, and one that waits for it.               *)
LEMMA HandedServed ==
  ASSUME SInv, Records, NEW e \in AllExchanges, NEW m, m # NULL, NEW c,
         taskq[e] # << >>, HandOver(e, m, c), UNCHANGED stacks,
         NEW u \in AllTasks, Served(u), after'[u] \in {after[u], "none"}
  PROVE  Served(u)'
<1>1. PICK w : w = Head(taskq[e])
  OBVIOUS
<1>2. w \in AllTasks
  BY <1>1, TailFacts, Parts, WaiterFacts
<1>3. /\ status' = [status EXCEPT ![w] = @ \ {"waiting", "delayed"}]
      /\ message' = [message EXCEPT ![w] = m]
  BY <1>1 DEF HandOver
<1>4. status \in [AllTasks -> SUBSET Bits] /\ DOMAIN message = AllTasks
  BY Parts DEF Records
<1>5. CASE u = w
  BY <1>2, <1>3, <1>4, <1>5 DEF Served
<1>6. CASE u # w
  <2>1. status'[u] = status[u] /\ message'[u] = message[u]
    BY <1>3, <1>4, <1>6
  <2>2. (u \in Existing)' => u \in Existing
    BY <2>1 DEF Existing
  <2>3. Blocked(u)' <=> Blocked(u)
    BY <2>1 DEF Blocked
  <2> QED
    BY <2>1, <2>2, <2>3, StillServed
<1> QED
  BY <1>5, <1>6

LEMMA ReceivedServed ==
  ASSUME SInv, MailInv, Records, NEW t \in AllTasks, NEW e \in AllExchanges,
         msgq[e] # << >>, reqdqmsg(t, e)
  PROVE  \E m \in AllMessages : message' = [message EXCEPT ![t] = m]
<1>1. taskq[e] = << >> /\ msgq[e] \in Seq(AllMessages)
  BY DEF MailInv, MailTypes, Mail
<1>2. PICK m : m = Head(msgq[e])
  OBVIOUS
<1>3. m \in AllMessages
  BY <1>1, <1>2
<1> QED
  BY <1>1, <1>2, <1>3 DEF reqdqmsg

LEMMA WaitServed ==
  ASSUME SInv, MailInv, Records, NEW t \in AllTasks, NEW e \in AllExchanges, NEW n,
         reqwait(t, e, n), \A u \in AllTasks : Served(u), NEW u \in AllTasks
  PROVE  Served(u)'
<1>1. /\ after' = [after EXCEPT ![t] = "check"] /\ stacks' = stacks
  BY DEF reqwait, objects
<1>2. /\ status \in [AllTasks -> SUBSET Bits] /\ DOMAIN message = AllTasks
      /\ DOMAIN after = AllTasks /\ DOMAIN status = AllTasks
  BY Parts DEF Records
<1>3. CASE msgq[e] # << >> /\ reqdqmsg(t, e) /\ status' = status
  <2>1. PICK m \in AllMessages : message' = [message EXCEPT ![t] = m]
    BY <1>3, ReceivedServed
  <2>2. m # NULL
    BY Nothing
  <2>3. (u \in Existing)' => u \in Existing
    BY <1>1, <1>3 DEF Existing
  <2>4. Blocked(u)' <=> Blocked(u)
    BY <1>3 DEF Blocked
  <2>5. CASE u # t
    BY <1>1, <1>2, <2>1, <2>3, <2>4, <2>5, StillServed
  <2>6. CASE u = t
    BY <1>1, <1>2, <2>1, <2>2, <2>6 DEF Served
  <2> QED
    BY <2>5, <2>6
<1>4. CASE /\ status' = [status EXCEPT ![t] =
                           @ \cup {IF n = 0 THEN "waiting" ELSE "delayed"}]
           /\ message' = message
  <2>1. CASE u # t
    <3>1. status'[u] = status[u]
      BY <1>2, <1>4, <2>1
    <3>2. (u \in Existing)' => u \in Existing
      BY <1>1, <3>1 DEF Existing
    <3>3. Blocked(u)' <=> Blocked(u)
      BY <3>1 DEF Blocked
    <3> QED
      BY <1>1, <1>2, <1>4, <2>1, <3>2, <3>3, StillServed
  <2>2. CASE u = t
    <3>1. Blocked(u)'
      BY <1>2, <1>4, <2>2 DEF Blocked
    <3> QED
      BY <1>1, <1>2, <2>2, <3>1 DEF Served
  <2> QED
    BY <2>1, <2>2
<1> QED
  BY <1>3, <1>4 DEF reqwait

LEMMA QuietServed ==
  ASSUME NEW u \in AllTasks, Served(u), UNCHANGED <<status, stacks, message>>,
         after'[u] \in {after[u], "none"}
  PROVE  Served(u)'
<1>1. (u \in Existing)' => u \in Existing
  BY DEF Existing
<1>2. Blocked(u)' <=> Blocked(u)
  BY DEF Blocked
<1> QED
  BY <1>1, <1>2, StillServed

(* Only bits that say nothing of waiting come or go.                       *)
LEMMA MarkedServed ==
  ASSUME NEW u \in AllTasks, Served(u), stacks' \subseteq stacks,
         \A b \in {"deleted", "waiting", "delayed"} : b \in status'[u] <=> b \in status[u],
         UNCHANGED <<message, after>>
  PROVE  Served(u)'
<1>1. (u \in Existing)' => u \in Existing
  BY DEF Existing
<1>2. Blocked(u)' <=> Blocked(u)
  BY DEF Blocked
<1> QED
  BY <1>1, <1>2, StillServed

(* Whoever creates, deletes, suspends or resumes tasks.                    *)
LEMMA ManageServed ==
  ASSUME SInv, Records, NEW t \in AllTasks, NEW w \in Tasks, NEW u \in AllTasks,
         \A v \in AllTasks : Served(v),
         reqctsk(t, w) \/ reqdtsk(t, w) \/ reqsusp(t, w) \/ reqresm(t, w)
  PROVE  Served(u)'
<1>1. status \in [AllTasks -> SUBSET Bits] /\ w \in AllTasks /\ w # Idle
      /\ DOMAIN after = AllTasks
  BY Parts, Distinct DEF Records
<1>2. CASE reqctsk(t, w)
  <2>1. /\ status' = [status EXCEPT ![w] = {}] /\ after' = [after EXCEPT ![w] = "none"]
        /\ message' = message /\ stacks' \subseteq stacks \cup {w}
    BY <1>2 DEF reqctsk, objects
  <2>2. CASE u = w
    BY <1>1, <2>1, <2>2 DEF Served
  <2>3. CASE u # w
    <3>1. status'[u] = status[u] /\ after'[u] = after[u]
      BY <1>1, <2>1, <2>3
    <3>2. (u \in Existing)' => u \in Existing
      BY <2>1, <2>3, <3>1 DEF Existing
    <3>3. Blocked(u)' <=> Blocked(u)
      BY <3>1 DEF Blocked
    <3> QED
      BY <2>1, <3>1, <3>2, <3>3, StillServed
  <2> QED
    BY <2>2, <2>3
<1>3. CASE reqdtsk(t, w)
  <2>1. /\ status' = [status EXCEPT ![w] = IF w = t THEN (@ \ {"delayed"}) \cup {"deleted"}
                                          ELSE @ \ {"delayed"}]
        /\ stacks' = IF w = t THEN stacks ELSE stacks \ {w}
        /\ UNCHANGED <<message, after>>
    BY <1>3 DEF reqdtsk
  <2>2. CASE u = w
    <3>1. (u \notin Existing)'
      BY <1>1, <2>1, <2>2 DEF Existing
    <3> QED
      BY <2>1, <3>1 DEF Served
  <2>3. CASE u # w
    <3>1. status'[u] = status[u]
      BY <1>1, <2>1, <2>3
    <3>2. (u \in Existing)' => u \in Existing
      BY <2>1, <3>1 DEF Existing
    <3>3. Blocked(u)' <=> Blocked(u)
      BY <3>1 DEF Blocked
    <3> QED
      BY <2>1, <3>2, <3>3, StillServed
  <2> QED
    BY <2>2, <2>3
<1>4. CASE reqsusp(t, w)
  <2>1. /\ status' = [status EXCEPT ![w] = @ \cup {"suspended"}]
        /\ stacks' \subseteq stacks /\ UNCHANGED <<message, after>>
    BY <1>1, <1>4 DEF reqsusp, queues, objects
  <2>2. \A b \in {"deleted", "waiting", "delayed"} : b \in status'[u] <=> b \in status[u]
    BY <1>1, <2>1
  <2> QED
    BY <2>1, <2>2, MarkedServed
<1>5. CASE reqresm(t, w)
  <2>1. /\ status' = [status EXCEPT ![w] = @ \ {"suspended"}]
        /\ stacks' \subseteq stacks /\ UNCHANGED <<message, after>>
    BY <1>1, <1>5 DEF reqresm, queues, objects
  <2>2. \A b \in {"deleted", "waiting", "delayed"} : b \in status'[u] <=> b \in status[u]
    BY <1>1, <2>1
  <2> QED
    BY <2>1, <2>2, MarkedServed
<1> QED
  BY <1>2, <1>3, <1>4, <1>5

LEMMA CallServed ==
  ASSUME Misusers = {}, SInv, MailInv, Records, \A v \in AllTasks : Served(v),
         NEW t \in Tasks \cup {Idle}, CallOf(t), NEW u \in AllTasks
  PROVE  Served(u)'
<1>1. t \in AllTasks /\ Served(u) /\ DOMAIN after = AllTasks /\ DOMAIN message = AllTasks
  BY Distinct DEF Records
<1>2. ASSUME NEW x, reqelvl(t, x) \/ reqdlvl(t, x) \/ reqsetv(t, x) PROVE Served(u)'
  BY <1>1, <1>2, QuietServed DEF reqelvl, reqdlvl, reqsetv, sched, queues, objects
<1>3. ASSUME NEW m, reqcmsg(t, m) PROVE Served(u)'
  BY <1>1, <1>3, QuietServed DEF reqcmsg, sched, objects
<1>4. ASSUME NEW m \in Messages, NEW e \in Exchanges \cup Irqs, reqsend(t, e, m)
      PROVE  Served(u)'
  <2>1. e \in AllExchanges /\ m # NULL
    BY ExchangeFacts, Nothing DEF AllMessages
  <2>2. link[m] = t /\ (taskq[e] = << >> \/ msgq[e] = << >>)
    BY <1>4, <2>1 DEF reqsend, MailInv, Mail
  <2>3. after' = [after EXCEPT ![t] = "none"] /\ stacks' = stacks
    BY <1>4, <2>2 DEF reqsend, objects
  <2>4. after'[u] \in {after[u], "none"}
    BY <1>1, <2>3
  <2>5. CASE taskq[e] = << >>
    <3>1. UNCHANGED <<status, message>>
      BY <1>4, <2>2, <2>5 DEF reqsend
    <3> QED
      BY <1>1, <2>3, <2>4, <3>1, QuietServed
  <2>6. CASE taskq[e] # << >>
    <3>1. PICK c : c = (status[Head(taskq[e])] # {"waiting"})
      OBVIOUS
    <3>2. HandOver(e, m, c)
      BY <1>4, <2>2, <2>6, <3>1 DEF reqsend
    <3> QED
      BY <1>1, <2>1, <2>3, <2>4, <2>6, <3>2, HandedServed
  <2> QED
    BY <2>5, <2>6
<1>5. ASSUME NEW e, reqacpt(t, e) PROVE Served(u)'
  <2>1. /\ after[t] = "none" /\ UNCHANGED <<status, stacks, after>>
    BY <1>5 DEF reqacpt, Call, sched, objects
  <2>2. u # t => message'[u] = message[u]
    BY <1>1, <1>5 DEF reqacpt, reqdqmsg
  <2>3. CASE u = t
    BY <1>1, <2>1, <2>3 DEF Served
  <2>4. CASE u # t
    <3>1. (u \in Existing)' => u \in Existing
      BY <2>1 DEF Existing
    <3>2. Blocked(u)' <=> Blocked(u)
      BY <2>1 DEF Blocked
    <3> QED
      BY <1>1, <2>1, <2>2, <2>4, <3>1, <3>2, StillServed
  <2> QED
    BY <2>3, <2>4
<1>6. ASSUME NEW w \in Tasks,
             reqctsk(t, w) \/ reqdtsk(t, w) \/ reqsusp(t, w) \/ reqresm(t, w)
      PROVE  Served(u)'
  BY <1>1, <1>6, ManageServed
<1> QED
  BY <1>2, <1>3, <1>4, <1>5, <1>6 DEF CallOf

LEMMA StepServed ==
  ASSUME Misusers = {}, SInv, MailInv, Records, \A v \in AllTasks : Served(v),
         [Next]_vars, NEW u \in AllTasks
  PROVE  Served(u)'
<1>1. Served(u) /\ DOMAIN after = AllTasks /\ DOMAIN message = AllTasks
  BY DEF Records
<1>2. CASE Interrupt
  <2>1. UNCHANGED <<message, after, stacks>>
    BY <1>2 DEF Interrupt, reqisnd, reqssnd, Notify, yalrt_timer_handler, queues,
       objects
  <2>2. CASE status' = status
    BY <1>1, <2>1, <2>2, QuietServed
  <2>3. CASE status' = [status EXCEPT ![rqactv] = @ \cup {"maskint"}]
    <3>1. \A b \in {"deleted", "waiting", "delayed"} : b \in status'[u] <=> b \in status[u]
      BY <2>3, Parts
    <3> QED
      BY <1>1, <2>1, <3>1, MarkedServed
  <2> QED
    BY <1>2, <2>2, <2>3 DEF Interrupt, reqisnd, reqssnd, Notify, Interrupted,
       yalrt_timer_handler
<1>3. CASE DrainLoad \/ DrainStore \/ Drained
  BY <1>1, <1>3, QuietServed DEF DrainLoad, DrainStore, Drained, sched, queues, objects
<1>4. CASE Drain
  <2>1. PICK x : x = Popped
    OBVIOUS
  <2>2. x \in AllExchanges /\ x \in AllMessages
    BY <1>4, <2>1, PoppedFacts, Distinct DEF Drain
  <2>3. UNCHANGED <<stacks, after>>
    BY <1>4 DEF Drain, objects
  <2>4. CASE Post(x)
    BY <1>1, <2>3, <2>4, QuietServed DEF Post
  <2>5. CASE taskq[x] # << >> /\ HandOver(x, x, "delayed" \in status[Head(taskq[x])])
    <3>1. PICK c : c = ("delayed" \in status[Head(taskq[x])])
      OBVIOUS
    <3>2. HandOver(x, x, c) /\ x # NULL
      BY <2>2, <2>5, <3>1, Nothing
    <3> QED
      BY <1>1, <2>2, <2>3, <2>5, <3>2, HandedServed
  <2> QED
    BY <1>4, <2>1, <2>4, <2>5 DEF Drain
<1>5. CASE Leave
  <2>1. PICK t : t = Head(lists.ready)
    OBVIOUS
  <2>2. /\ status' = [status EXCEPT ![t] = @ \ {"maskint"}]
        /\ stacks' \subseteq stacks /\ UNCHANGED <<message, after>>
    BY <1>5, <2>1 DEF Leave, queues
  <2>3. \A b \in {"deleted", "waiting", "delayed"} : b \in status'[u] <=> b \in status[u]
    BY <2>2, Parts
  <2> QED
    BY <1>1, <2>2, <2>3, MarkedServed
<1>6. CASE Freeze
  <2>1. UNCHANGED <<status, stacks, message>> /\ after'[u] \in {after[u], "none"}
    BY <1>1, <1>6 DEF Freeze, FreezeEnter, FreezeSet, reqbake, sched, queues, objects
  <2> QED
    BY <1>1, <2>1, QuietServed
<1>7. CASE reqwait(DelayTask, DelayEx, 0)
  BY <1>7, WaitServed, Distinct, ExchangeFacts
<1>8. CASE DelayEnter \/ DelayDone
  <2>1. UNCHANGED <<status, stacks, message>> /\ after'[u] \in {after[u], "none"}
    BY <1>1, <1>8 DEF DelayEnter, DelayDone, sched, queues, objects
  <2> QED
    BY <1>1, <2>1, QuietServed
<1>9. CASE DelayExpire
  <2>1. PICK w : w = Head(dl.seq)
    OBVIOUS
  <2>2. /\ status' = [status EXCEPT ![w] = @ \ {"delayed"}]
        /\ message' = [message EXCEPT ![w] = TimeOut]
        /\ UNCHANGED <<stacks, after>>
    BY <1>9, <2>1 DEF DelayExpire, objects
  <2>3. status \in [AllTasks -> SUBSET Bits]
    BY Parts
  <2>4. CASE u = w
    BY <1>1, <2>2, <2>4, Nothing DEF Served
  <2>5. CASE u # w
    <3>1. status'[u] = status[u] /\ message'[u] = message[u]
      BY <1>1, <2>2, <2>3, <2>5
    <3>2. (u \in Existing)' => u \in Existing
      BY <2>2, <3>1 DEF Existing
    <3>3. Blocked(u)' <=> Blocked(u)
      BY <3>1 DEF Blocked
    <3> QED
      BY <1>1, <2>2, <3>1, <3>2, <3>3, StillServed
  <2> QED
    BY <2>4, <2>5
<1>10. ASSUME NEW t \in Tasks \cup {Idle}, CallOf(t) PROVE Served(u)'
  BY <1>10, CallServed
<1>11. ASSUME NEW t \in Tasks, Wait(t) PROVE Served(u)'
  BY <1>11, WaitServed, Distinct, ExchangeFacts DEF Wait
<1>12. ASSUME NEW t \in Tasks \cup {DelayTask}, Return(t) PROVE Served(u)'
  <2>1. t \in AllTasks /\ t \in Existing /\ ~Blocked(t) /\ after[t] = "check"
    BY <1>12, Running DEF Return
  <2>2. message[t] # NULL
    BY <2>1 DEF Served
  <2>3. /\ UNCHANGED <<status, stacks, message>>
        /\ \E a \in {"collect", "none"} : after' = [after EXCEPT ![t] = a]
    BY <1>12, <2>2 DEF Return, sched, queues, objects
  <2>4. CASE u = t
    BY <1>1, <2>3, <2>4 DEF Served
  <2>5. CASE u # t
    BY <1>1, <2>3, <2>5, QuietServed
  <2> QED
    BY <2>4, <2>5
<1>13. CASE UNCHANGED vars
  BY <1>1, <1>13, QuietServed DEF vars, sched, queues, objects
<1> QED
  BY <1>2, <1>3, <1>4, <1>5, <1>6, <1>7, <1>8, <1>9, <1>10, <1>11, <1>12, <1>13
     DEF Next, Scheduler, Delayer

LEMMA StepAgrees ==
  ASSUME Misusers = {}, Freezers \subseteq {Idle}, SInv, MailInv, Records, Agrees,
         [Next]_vars
  PROVE  Agrees'
<1>1. \A u \in AllTasks : Served(u)'
  BY StepServed DEF Agrees
<1>2. ASSUME UNCHANGED <<cpu, rqactv, context, rqfrozen, saved>>,
             region' # "freeze" \/ region' = region
      PROVE  Agrees'
  BY <1>1, <1>2 DEF Agrees
<1>3. CASE Leave
  <2>1. Head(lists.ready) \in AllTasks /\ rqactv \in AllTasks
    BY Parts DEF SInv, Types, Ordered
  <2>2. cpu' = rqactv' /\ context' = context
    BY <1>3, <2>1 DEF Leave, Agrees
  <2> QED
    BY <1>1, <1>3, <2>2 DEF Leave, Agrees, frozen
<1>4. CASE Freeze
  <2>1. ASSUME NEW t \in Tasks \cup {Idle}, FreezeEnter(t) PROVE Agrees'
    <3>1. t = Idle /\ rqactv = Idle
      BY <2>1, Distinct DEF FreezeEnter, Runs, Agrees, Served, AllTasks
    <3> QED
      BY <1>1, <2>1, <3>1 DEF FreezeEnter, Agrees, sched, frozen
  <2>2. CASE FreezeSet
    <3>1. saved'.actv = Idle
      BY <2>2 DEF FreezeSet, Agrees
    <3> QED
      BY <1>1, <2>2, <3>1 DEF FreezeSet, Agrees
  <2>3. CASE reqbake
    BY <1>1, <2>3 DEF reqbake, Agrees
  <2> QED
    BY <1>4, <2>1, <2>2, <2>3 DEF Freeze
<1>5. ASSUME NEW t \in Tasks \cup {Idle}, NEW w \in Tasks, reqctsk(t, w) PROVE Agrees'
  <2>1. context' = context
    BY <1>5, Distinct DEF reqctsk, Agrees
  <2> QED
    BY <1>2, <1>5, <2>1 DEF reqctsk, frozen
<1>6. CASE Interrupt
  BY <1>2, <1>6 DEF Interrupt, reqisnd, reqssnd, Notify, yalrt_timer_handler,
     Interrupted, frozen
<1>7. CASE DrainLoad \/ DrainStore \/ Drain \/ Drained
  BY <1>2, <1>7 DEF DrainLoad, DrainStore, Drain, Drained, sched, frozen
<1>8. CASE Delayer
  BY <1>2, <1>8 DEF Delayer, reqwait, DelayEnter, DelayExpire, DelayDone, sched, frozen
<1>9. ASSUME NEW t \in Tasks \cup {Idle}, CallOf(t) PROVE Agrees'
  BY <1>2, <1>5, <1>9 DEF CallOf, reqelvl, reqdlvl, reqsetv, reqcmsg, reqsend,
     reqacpt, reqdtsk, reqsusp, reqresm, sched, frozen
<1>10. ASSUME NEW t, Wait(t) \/ Return(t) PROVE Agrees'
  BY <1>2, <1>10 DEF Wait, Return, reqwait, sched, frozen
<1>11. CASE UNCHANGED vars
  BY <1>2, <1>11 DEF vars, sched, frozen
<1> QED
  BY <1>3, <1>4, <1>6, <1>7, <1>8, <1>9, <1>10, <1>11 DEF Next, Scheduler

(* The processor is in the context of the task that the nucleus holds      *)
(* active, so that what MostUrgentRuns says is true of every state outside *)
(* of a region: whenever tasks send only what is theirs, suspend only      *)
(* themselves, and leave reqfreeze to Linux (reqfreeze, rqbake, swtch).    *)
THEOREM ProcessorAgrees ==
  ASSUME Suspenders = {}, Misusers = {}, Freezers \subseteq {Idle}
  PROVE  Spec => []OwnContext
<1>1. Init => Records /\ Agrees
  BY DEF Init, Records, IntExchanges, Agrees, Served
<1>2. Agrees => OwnContext
  BY DEF Agrees, OwnContext
<1> QED
  BY <1>1, <1>2, StepRecords, StepAgrees, Always, PTL DEF Spec

=============================================================================
