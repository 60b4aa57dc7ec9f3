-------------------------- MODULE TaskTableProofs ---------------------------
(***************************************************************************)
(* Proofs about the table of tasks and the two lists, for any table, any   *)
(* other tasks and exchanges, and whatever creates and deletes afterwards. *)
(*                                                                         *)
(* The tasks of the table start together: as long as one is missing, fewer *)
(* than Count come to the barrier.  The list of exchanges stays whole      *)
(* whichever tasks call reqcxch at once, when no call of reqdxch overlaps  *)
(* theirs or another.  When calls of reqctsk do not overlap each other     *)
(* either, and descriptors of deleted tasks are not used again, every task *)
(* that runs is found, nothing is lost from the list of tasks, and a       *)
(* display shows all that stays in its list.                               *)
(***************************************************************************)
EXTENDS TaskTable, FiniteSetTheorems, TLAPS

-----------------------------------------------------------------------------
Types ==
  /\ pc \in [Threads -> States]
  /\ todo \in 1..Len(Table) + 1

(* As long as tasks of the table are to be created, only its tasks are     *)
(* there, none past the barrier.                                           *)
Missing == \E i \in Filled : i >= todo
Early ==
  Missing =>
    /\ rqstarting
    /\ \A u \in Tasks :
         /\ pc[u] \in {"none", "new", "arriving", "barrier"}
         /\ pc[u] # "none" => u \in Initial

(* reqstart has created what comes before todo, and nobody what follows.   *)
Made == \A i \in Filled : pc[Table[i]] = "none" <=> i >= todo

SInv == Types /\ Early /\ Made

LEMMA TableFacts ==
  ASSUME TaskTableAssumption
  PROVE  /\ Len(Table) \in Nat /\ DOMAIN Table = 1..Len(Table)
         /\ Filled \subseteq 1..Len(Table)
         /\ \A i \in Filled : Table[i] \in Tasks /\ Table[i] \in Initial
         /\ \A i, j \in Filled : Table[i] = Table[j] => i = j
         /\ Initial \subseteq Tasks
BY DEF TaskTableAssumption, Filled, Initial

(* A table has as many tasks as places that are not NULL.                  *)
LEMMA InitialCount ==
  ASSUME TaskTableAssumption
  PROVE  IsFiniteSet(Initial) /\ Cardinality(Initial) = Count
<1>1. IsFiniteSet(Filled)
  BY TableFacts, FS_Interval, FS_Subset
<1> DEFINE f == [i \in Filled |-> Table[i]]
<1>2. f \in Bijection(Filled, Initial)
  BY TableFacts DEF Bijection, Injection, IsInjective, Surjection, Initial
<1> HIDE DEF f
<1> QED
  BY <1>1, <1>2, FS_Bijection DEF Count, ExistsBijection

(* Those at the barrier, with one that comes, are fewer than Count before  *)
(* all have been created.                                                  *)
LEMMA NotYet ==
  ASSUME TaskTableAssumption, SInv, Missing, NEW u \in Tasks,
         pc[u] = "arriving"
  PROVE  Cardinality({v \in Tasks : pc[v] = "barrier"} \cup {u}) # Count
<1> DEFINE W == {v \in Tasks : pc[v] = "barrier"} \cup {u}
<1>1. PICK i \in Filled : i >= todo
  BY DEF Missing
<1>2. Table[i] \in Initial /\ pc[Table[i]] = "none"
  BY <1>1, TableFacts DEF SInv, Made
<1>3. W \subseteq Initial \ {Table[i]}
  BY <1>2 DEF SInv, Early
<1>4. /\ IsFiniteSet(Initial \ {Table[i]})
      /\ Cardinality(Initial \ {Table[i]}) = Count - 1 /\ Count \in Nat
  BY <1>2, InitialCount, FS_RemoveElement, FS_CardinalityType
<1>5. IsFiniteSet(W) /\ Cardinality(W) <= Cardinality(Initial \ {Table[i]})
  BY <1>3, <1>4, FS_Subset
<1>6. Cardinality(W) \in Nat
  BY <1>5, FS_CardinalityType
<1> HIDE DEF W
<1>7. Cardinality(W) # Count
  BY <1>4, <1>5, <1>6
<1> QED
  BY <1>7 DEF W

(* Steps of threads that are in a call change neither pc nor todo.         *)
LEMMA GoingKeeps ==
  ASSUME NEW t \in Threads, Going(t)
  PROVE  UNCHANGED <<pc, rqstarting, todo>>
BY DEF Going, SetThread, LinkTail, SetTail, EndList, ExLink, ExTail, ExEnd,
       DxTest, DxWalk, DxStep, DxCurr, DxNext, DxLink, DxTail, DxSet

(* Nobody creates or deletes tasks before all of the table are there.      *)
LEMMA FreeLate ==
  ASSUME TaskTableAssumption, SInv, NEW t \in Threads, Free(t)
  PROVE  ~Missing
<1>1. pc[t] = "body" /\ (t = Root => todo > Len(Table))
  BY DEF Free, At
<1>2. CASE t = Root
  BY <1>1, <1>2, TableFacts DEF Missing, SInv, Types
<1>3. CASE t \in Tasks
  BY <1>1, <1>3 DEF SInv, Early
<1> QED
  BY <1>2, <1>3 DEF Threads

(* reqctsk: either the next of the table, or a task when all are there.    *)
LEMMA CreateSafe ==
  ASSUME TaskTableAssumption, SInv, NEW t \in Threads, NEW u \in Tasks,
         Create(t, u)
  PROVE  SInv'
<1>1. /\ pc' = [pc EXCEPT ![u] = "new"] /\ rqstarting' = rqstarting
      /\ \/ todo <= Len(Table) /\ u = Table[todo] /\ todo' = todo + 1
         \/ Free(t) /\ UNCHANGED todo
  BY DEF Create
<1>2. Types'
  BY <1>1, TableFacts DEF SInv, Types, States, Threads
<1>3. /\ pc'[u] = "new" /\ \A v \in Threads : v # u => pc'[v] = pc[v]
      /\ \A v \in Tasks : v \in Threads
  BY <1>1 DEF SInv, Types, Threads
<1>4. CASE todo <= Len(Table) /\ u = Table[todo] /\ todo' = todo + 1
  <2>1. todo \in Nat /\ todo \in DOMAIN Table
    BY <1>4, TableFacts DEF SInv, Types
  <2>2. todo \in Filled
    BY <1>4, <2>1 DEF Filled, TaskTableAssumption
  <2>3. Missing /\ u \in Initial
    BY <1>4, <2>1, <2>2, TableFacts DEF Missing
  <2>4. Early'
    BY <1>1, <1>3, <2>3 DEF SInv, Early
  <2>5. ASSUME NEW i \in Filled PROVE pc'[Table[i]] = "none" <=> i >= todo'
    <3>1. i \in Nat /\ Table[i] \in Threads
      BY <1>3, TableFacts
    <3>2. CASE i = todo
      BY <1>3, <1>4, <2>1, <3>2
    <3>3. CASE i # todo
      <4>1. Table[i] # u
        BY <1>4, <2>2, <3>3, TableFacts
      <4> QED
        BY <1>3, <1>4, <2>1, <3>1, <3>3, <4>1 DEF SInv, Made
    <3> QED
      BY <3>2, <3>3
  <2> QED
    BY <1>2, <2>4, <2>5 DEF SInv, Made
<1>5. CASE Free(t) /\ UNCHANGED todo
  <2>1. ~Missing /\ ~Missing'
    BY <1>5, FreeLate DEF Missing
  <2>2. \A i \in Filled : pc[Table[i]] # "none" /\ pc'[Table[i]] # "none"
    BY <1>3, <2>1, TableFacts DEF Missing, SInv, Made
  <2>3. Made'
    BY <2>1, <2>2 DEF Made, Missing
  <2> QED
    BY <1>2, <2>1, <2>3 DEF SInv, Early
<1> QED
  BY <1>1, <1>4, <1>5

(* A thread that moves on, or ends, has been created; all of the table are *)
(* there, or it stays before the barrier.                                  *)
LEMMA MoveSafe ==
  ASSUME TaskTableAssumption, SInv, NEW W \in SUBSET Threads,
         NEW place \in States, place # "none", \A t \in W : pc[t] # "none",
         pc' = [t \in Threads |-> IF t \in W THEN place ELSE pc[t]],
         todo' = todo,
         ~Missing \/ (place \in {"arriving", "barrier"} /\ rqstarting' = rqstarting)
  PROVE  SInv'
<1>1. Types'
  BY DEF SInv, Types
<1>2. Missing' = Missing
  BY DEF Missing
<1>3. \A t \in Threads : pc'[t] = "none" <=> pc[t] = "none"
  OBVIOUS
<1>4. Early'
  <2> SUFFICES ASSUME Missing
               PROVE  /\ rqstarting'
                      /\ \A u \in Tasks :
                           /\ pc'[u] \in {"none", "new", "arriving", "barrier"}
                           /\ pc'[u] # "none" => u \in Initial
    BY <1>2 DEF Early
  <2> QED
    BY <1>3 DEF SInv, Early, Threads
<1>5. Made'
  BY <1>3, TableFacts DEF SInv, Made, Threads
<1> QED
  BY <1>1, <1>4, <1>5 DEF SInv

(* reqrun: the test of rqstarting, the barrier, and what follows it.       *)
LEMMA RunSafe ==
  ASSUME TaskTableAssumption, SInv, NEW u \in Tasks, Reqrun(u)
  PROVE  SInv'
<1>1. u \in Threads /\ pc \in [Threads -> States] /\ todo' = todo
  BY DEF SInv, Types, Threads, Reqrun, Start, Arrive, Released, Slept
<1>2. CASE Start(u)
  <2> DEFINE place == IF rqstarting THEN "arriving" ELSE "body"
  <2>1. pc[u] = "new" /\ rqstarting' = rqstarting /\ pc' = [pc EXCEPT ![u] = place]
    BY <1>2 DEF Start
  <2>2. pc' = [t \in Threads |-> IF t \in {u} THEN place ELSE pc[t]]
    BY <1>1, <2>1
  <2>3. ~Missing \/ place = "arriving"
    BY DEF SInv, Early
  <2>4. place \in States /\ place # "none"
    BY DEF States
  <2> HIDE DEF place
  <2> QED
    BY <1>1, <2>1, <2>2, <2>3, <2>4, MoveSafe
<1>3. CASE Arrive(u)
  <2> DEFINE W == {v \in Tasks : pc[v] = "barrier"} \cup {u}
             place == IF Cardinality(W) = Count THEN "released" ELSE "barrier"
  <2>1. /\ pc[u] = "arriving" /\ rqstarting' = rqstarting
        /\ pc' = [v \in Threads |-> IF v \notin W THEN pc[v] ELSE place]
    BY <1>3 DEF Arrive
  <2>2. pc' = [v \in Threads |-> IF v \in W THEN place ELSE pc[v]]
    BY <2>1
  <2>3. ~Missing \/ place = "barrier"
    BY <2>1, NotYet
  <2>4. place \in States /\ place # "none"
    BY DEF States
  <2>5. W \subseteq Threads /\ \A v \in W : pc[v] # "none"
    BY <2>1 DEF Threads
  <2> HIDE DEF place, W
  <2> QED
    BY <1>1, <2>1, <2>2, <2>3, <2>4, <2>5, MoveSafe
<1>4. CASE Released(u) \/ Slept(u)
  <2>1. PICK place \in {"sleep", "body"} :
          pc[u] \in {"released", "sleep"} /\ pc' = [pc EXCEPT ![u] = place]
    BY <1>4 DEF Released, Slept
  <2>2. pc' = [t \in Threads |-> IF t \in {u} THEN place ELSE pc[t]]
    BY <1>1, <2>1
  <2>3. ~Missing
    BY <2>1 DEF SInv, Early
  <2>4. place \in States /\ place # "none"
    BY DEF States
  <2> QED
    BY <1>1, <2>1, <2>2, <2>3, <2>4, MoveSafe
<1> QED
  BY <1>2, <1>3, <1>4 DEF Reqrun

(* Creation and start preserve the invariant, and so does deletion, which  *)
(* leaves the dead in the list.                                            *)
LEMMA NextSafe ==
  ASSUME TaskTableAssumption, SInv, [Next]_vars
  PROVE  SInv'
<1> DEFINE Still == UNCHANGED <<pc, rqstarting, todo>>
<1>1. ASSUME Still PROVE SInv'
  BY <1>1 DEF SInv, Types, Early, Made, Missing
<1>2. ASSUME NEW t \in Threads, NEW u \in Tasks, reqdtsk(t, u) PROVE SInv'
  <2>1. Free(t) /\ todo' = todo /\ rqstarting' = rqstarting
    BY <1>2 DEF reqdtsk
  <2>2. pc[t] = "body" /\ ~Missing
    BY <2>1, FreeLate DEF Free, At
  <2>3. CASE t = u
    <3>1. pc' = [pc EXCEPT ![t] = "dead"] /\ pc \in [Threads -> States]
      BY <1>2, <2>3 DEF reqdtsk, SInv, Types
    <3>2. /\ pc' = [v \in Threads |-> IF v \in {t} THEN "dead" ELSE pc[v]]
          /\ todo' = todo /\ pc[t] # "none" /\ "dead" \in States
      BY <2>1, <2>2, <3>1 DEF States
    <3> HIDE DEF Still
    <3>3. {t} \in SUBSET Threads /\ \A v \in {t} : pc[v] # "none"
      BY <1>2, <3>2
    <3> QED
      BY <2>2, <3>2, <3>3, MoveSafe
  <2>4. CASE t # u
    <3>1. Still
      BY <1>2, <2>1, <2>4 DEF reqdtsk
    <3> QED
      BY <1>1, <3>1
  <2> QED
    BY <2>3, <2>4
<1>3. ASSUME NEW u \in Tasks, Cancelled(u) PROVE SInv'
  <2>1. /\ pc[u] \in {"sleep", "body"} /\ pc' = [pc EXCEPT ![u] = "dead"]
        /\ todo' = todo /\ pc \in [Threads -> States] /\ u \in Threads
    BY <1>3 DEF Cancelled, At, SInv, Types, Threads
  <2>2. pc' = [v \in Threads |-> IF v \in {u} THEN "dead" ELSE pc[v]]
    BY <2>1
  <2>3. ~Missing
    BY <2>1 DEF SInv, Early
  <2> QED
    BY <2>1, <2>2, <2>3, MoveSafe DEF States
<1>4. CASE Skip
  <2>1. /\ UNCHANGED <<pc, rqstarting>> /\ todo' = todo + 1
        /\ todo <= Len(Table) /\ Table[todo] = NULL
    BY <1>4 DEF Skip
  <2>2. todo \in Nat /\ todo' \in 1..Len(Table) + 1 /\ todo \notin Filled
    BY <2>1, TableFacts DEF SInv, Types, Filled
  <2>3. \A i \in Filled : i >= todo' <=> i >= todo
    BY <2>1, <2>2, TableFacts
  <2>4. Missing' <=> Missing
    BY <2>3 DEF Missing
  <2> QED
    BY <2>1, <2>2, <2>3, <2>4 DEF SInv, Types, Early, Made
<1>5. ASSUME NEW t \in Threads, NEW e \in Exchanges,
             CreateExchange(t, e) \/ DeleteExchange(t, e)
      PROVE  Still
  BY <1>5 DEF CreateExchange, DeleteExchange
<1>6. ASSUME display_task_list \/ display_exchange_list \/ Walk
      PROVE  Still
  BY <1>6 DEF display_task_list, display_exchange_list, Begin, Walk
<1>7. UNCHANGED vars => Still
  BY DEF vars
<1> HIDE DEF Still
<1>8. ASSUME NEW t \in Threads, Going(t) PROVE Still
  BY <1>8, GoingKeeps DEF Still
<1> QED
  BY <1>1, <1>2, <1>3, <1>4, <1>5, <1>6, <1>7, <1>8, CreateSafe, RunSafe DEF Next

LEMMA InitStarted == Init => SInv
<1> SUFFICES ASSUME Init PROVE SInv
  OBVIOUS
<1>1. /\ pc = [t \in Threads |-> IF t = Root THEN "body" ELSE "none"]
      /\ rqstarting /\ todo = 1 /\ Root \notin Tasks
  BY TaskTableAssumption DEF Init, TaskTableAssumption
<1>2. Types
  BY <1>1, TaskTableAssumption, TableFacts DEF Types, States
<1>3. Early
  BY <1>1 DEF Early, Threads
<1>4. \A i \in Filled : Table[i] \in Tasks /\ i >= 1
  BY TaskTableAssumption, TableFacts
<1>5. Made
  BY <1>1, <1>4 DEF Made, Threads
<1> QED
  BY <1>2, <1>3, <1>5 DEF SInv

LEMMA Started == Spec => []SInv
<1>1. Init => SInv
  BY InitStarted
<1>2. SInv /\ [Next]_vars => SInv'
  BY TaskTableAssumption, NextSafe
<1> QED
  BY <1>1, <1>2, PTL DEF Spec

(* "avoid starting tasks before all have been created" (ycore.c:1410): no  *)
(* task of the table passes the barrier before each of them is there,      *)
(* whichever entries of the table are NULL.                                *)
THEOREM TasksStartTogether == Spec => []StartTogether
<1> USE TaskTableAssumption
<1>1. SInv => StartTogether
  <2> SUFFICES ASSUME SInv, NEW u \in Initial,
                      pc[u] \in {"released", "sleep", "body"}
               PROVE  \A v \in Initial : pc[v] # "none"
    BY DEF StartTogether
  <2>1. ~Missing
    BY TableFacts DEF SInv, Early
  <2> QED
    BY <2>1 DEF SInv, Made, Missing, Initial
<1> QED
  BY <1>1, Started, PTL
-----------------------------------------------------------------------------
(* What Along finds is the least set that holds the head and, with a node, *)
(* the next one.                                                           *)
Linked(lk) == lk \in [Nodes -> Nodes \cup {NULL}]
Closed(lk, C) == \A n \in C : lk[n] \in Nodes => lk[n] \in C
Finite == IsFiniteSet(Nodes) /\ NULL \notin Nodes

Met(f, lk, met, n) ==
  IF n = NULL \/ n \in met THEN met ELSE f[met \cup {n}][lk[n]]
Walks(f, lk) ==
  f = [met \in SUBSET Nodes |->
         [n \in Nodes \cup {NULL} |-> Met(f, lk, met, n)]]

(* The same with nothing recursive: all sets that hold n and are closed,   *)
(* but for what has been met, hold these.                                  *)
ClosedBut(lk, met, C) ==
  \A n \in C : lk[n] \in Nodes \ met => lk[n] \in C
Least(lk, met, n) ==
  {m \in Nodes : \A C \in SUBSET Nodes :
                   n \in C /\ ClosedBut(lk, met, C) => m \in C}
Whole(lk, met, n) ==
  IF n = NULL \/ n \in met THEN met ELSE met \cup Least(lk, met, n)

LEMMA WholeStep ==
  ASSUME Finite, NEW lk, Linked(lk), NEW met \in SUBSET Nodes,
         NEW n \in Nodes, n \notin met
  PROVE  Whole(lk, met, n) = Whole(lk, met \cup {n}, lk[n])
<1> DEFINE also == met \cup {n}
<1>1. n # NULL /\ lk[n] \in Nodes \cup {NULL}
  BY DEF Finite, Linked
<1>2. Whole(lk, met, n) = met \cup Least(lk, met, n)
  BY <1>1 DEF Whole
<1>3. n \in Least(lk, met, n)
  BY DEF Least
<1>4. CASE lk[n] = NULL \/ lk[n] \in also
  <2>1. ClosedBut(lk, met, {n})
    BY <1>4 DEF ClosedBut, Finite
  <2>2. Least(lk, met, n) \subseteq {n}
    BY <2>1 DEF Least
  <2>3. Whole(lk, also, lk[n]) = also
    BY <1>4 DEF Whole
  <2> QED
    BY <1>2, <1>3, <2>2, <2>3
<1>5. CASE ~(lk[n] = NULL \/ lk[n] \in also)
  <2>1. lk[n] \in Nodes \ also
    BY <1>1, <1>5
  <2>2. Whole(lk, also, lk[n]) = also \cup Least(lk, also, lk[n])
    BY <1>5 DEF Whole
  <2>3. Least(lk, met, n) \subseteq {n} \cup Least(lk, also, lk[n])
    <3> SUFFICES ASSUME NEW m \in Least(lk, met, n), m # n,
                        NEW C \in SUBSET Nodes, lk[n] \in C,
                        ClosedBut(lk, also, C)
                 PROVE  m \in C
      BY DEF Least
    <3>1. ClosedBut(lk, met, C \cup {n})
      BY DEF ClosedBut
    <3>2. m \in C \cup {n}
      BY <3>1 DEF Least
    <3> QED
      BY <3>2
  <2>4. Least(lk, also, lk[n]) \subseteq Least(lk, met, n)
    <3> SUFFICES ASSUME NEW m \in Least(lk, also, lk[n]),
                        NEW C \in SUBSET Nodes, n \in C, ClosedBut(lk, met, C)
                 PROVE  m \in C
      BY DEF Least
    <3>1. lk[n] \in C
      BY <2>1 DEF ClosedBut
    <3>2. ClosedBut(lk, also, C)
      BY DEF ClosedBut
    <3> QED
      BY <3>1, <3>2 DEF Least
  <2> QED
    BY <1>2, <1>3, <2>2, <2>3, <2>4
<1> QED
  BY <1>4, <1>5

LEMMA WalksExist ==
  ASSUME Finite, NEW lk, Linked(lk)
  PROVE  \E f : Walks(f, lk)
<1> DEFINE f == [met \in SUBSET Nodes |->
                   [n \in Nodes \cup {NULL} |-> Whole(lk, met, n)]]
<1>1. ASSUME NEW met \in SUBSET Nodes, NEW n \in Nodes \cup {NULL}
      PROVE  f[met][n] = Met(f, lk, met, n)
  <2>1. f[met][n] = Whole(lk, met, n)
    OBVIOUS
  <2>2. CASE n = NULL \/ n \in met
    BY <2>1, <2>2 DEF Whole, Met
  <2>3. CASE ~(n = NULL \/ n \in met)
    <3>1. n \in Nodes /\ met \cup {n} \in SUBSET Nodes
      BY <2>3
    <3>2. lk[n] \in Nodes \cup {NULL}
      BY <3>1 DEF Linked
    <3>3. f[met \cup {n}][lk[n]] = Whole(lk, met \cup {n}, lk[n])
      BY <3>1, <3>2
    <3>4. Whole(lk, met, n) = Whole(lk, met \cup {n}, lk[n])
      BY <2>3, <3>1, WholeStep
    <3> HIDE DEF f
    <3> QED
      BY <2>1, <2>3, <3>3, <3>4 DEF Met
  <2> QED
    BY <2>2, <2>3
<1>2. f = [met \in SUBSET Nodes |-> [n \in Nodes \cup {NULL} |-> f[met][n]]]
  OBVIOUS
<1> HIDE DEF f
<1>3. ASSUME NEW met \in SUBSET Nodes
      PROVE  f[met] = [n \in Nodes \cup {NULL} |-> Met(f, lk, met, n)]
  <2>1. f[met] = [n \in Nodes \cup {NULL} |-> f[met][n]]
    BY <1>2
  <2> QED
    BY <1>1, <2>1
<1>4. f = [met \in SUBSET Nodes |-> f[met]]
  BY <1>2
<1>5. Walks(f, lk)
  BY <1>3, <1>4 DEF Walks
<1> QED
  BY <1>5

LEMMA WalksWhole ==
  ASSUME Finite, NEW lk, Linked(lk), NEW f, Walks(f, lk)
  PROVE  \A met \in SUBSET Nodes : \A n \in Nodes \cup {NULL} :
           f[met][n] = Whole(lk, met, n)
<1> DEFINE Bad == {rest \in SUBSET Nodes : \E n \in Nodes \cup {NULL} :
                     f[Nodes \ rest][n] # Whole(lk, Nodes \ rest, n)}
<1>1. SUFFICES ASSUME Bad # {} PROVE FALSE
  <2> SUFFICES ASSUME NEW met \in SUBSET Nodes, NEW n \in Nodes \cup {NULL},
                      f[met][n] # Whole(lk, met, n)
               PROVE  FALSE
    OBVIOUS
  <2>1. Nodes \ (Nodes \ met) = met
    OBVIOUS
  <2>2. Nodes \ met \in Bad
    BY <2>1
  <2> QED
    BY <1>1, <2>2
<1>2. IsWellFoundedOn(StrictSubsetOrdering(Nodes), FiniteSubsetsOf(Nodes))
  BY FS_StrictSubsetOrderingWellFounded
<1>3. Bad \subseteq FiniteSubsetsOf(Nodes)
  BY FS_Subset DEF Finite, FiniteSubsetsOf
<1>4. PICK rest \in Bad :
        \A other \in Bad : <<other, rest>> \notin StrictSubsetOrdering(Nodes)
  <2> HIDE DEF Bad
  <2> QED
    BY <1>1, <1>2, <1>3, WFMin
<1>5. PICK n \in Nodes \cup {NULL} :
        f[Nodes \ rest][n] # Whole(lk, Nodes \ rest, n)
  OBVIOUS
<1> DEFINE met == Nodes \ rest
<1>6. f[met][n] = Met(f, lk, met, n)
  BY DEF Walks
<1>7. n \in Nodes /\ n \notin met
  BY <1>5, <1>6 DEF Met, Whole
<1>8. n \in rest /\ rest \in SUBSET Nodes
  BY <1>7
<1>9. f[met][n] = f[met \cup {n}][lk[n]]
  BY <1>6, <1>7 DEF Met, Finite
<1>10. met \cup {n} = Nodes \ (rest \ {n})
  BY <1>8
<1>11. <<rest \ {n}, rest>> \in StrictSubsetOrdering(Nodes)
  BY <1>8 DEF StrictSubsetOrdering
<1>12. rest \ {n} \notin Bad
  BY <1>4, <1>11
<1>13. lk[n] \in Nodes \cup {NULL}
  BY <1>7 DEF Linked
<1>14. f[met \cup {n}][lk[n]] = Whole(lk, met \cup {n}, lk[n])
  BY <1>8, <1>10, <1>12, <1>13
<1>15. Whole(lk, met, n) = Whole(lk, met \cup {n}, lk[n])
  BY <1>7, WholeStep
<1> QED
  BY <1>5, <1>9, <1>14, <1>15

LEMMA AlongFacts ==
  ASSUME Finite, NEW lk, Linked(lk)
  PROVE  /\ Along(lk, NULL) = {}
         /\ \A n \in Nodes :
              /\ n \in Along(lk, n) /\ Along(lk, n) \subseteq Nodes
              /\ Closed(lk, Along(lk, n))
              /\ \A C : n \in C /\ Closed(lk, C) => Along(lk, n) \subseteq C
<1> DEFINE c == CHOOSE f : Walks(f, lk)
<1>1. Walks(c, lk)
  BY WalksExist
<1>2. ASSUME NEW n PROVE Along(lk, n) = c[{}][n]
  BY DEF Along, Walks, Met
<1> HIDE DEF c
<1>3. ASSUME NEW n \in Nodes \cup {NULL} PROVE Along(lk, n) = Whole(lk, {}, n)
  BY <1>1, <1>2, WalksWhole
<1>4. Along(lk, NULL) = {}
  BY <1>3 DEF Whole
<1>5. ASSUME NEW n \in Nodes
      PROVE  /\ n \in Along(lk, n) /\ Along(lk, n) \subseteq Nodes
             /\ Closed(lk, Along(lk, n))
             /\ \A C : n \in C /\ Closed(lk, C) => Along(lk, n) \subseteq C
  <2>1. Along(lk, n) = Least(lk, {}, n)
    BY <1>3 DEF Whole, Finite
  <2>2. n \in Least(lk, {}, n) /\ Least(lk, {}, n) \subseteq Nodes
    BY DEF Least
  <2>3. Closed(lk, Least(lk, {}, n))
    <3> SUFFICES ASSUME NEW m \in Least(lk, {}, n), lk[m] \in Nodes,
                        NEW C \in SUBSET Nodes, n \in C, ClosedBut(lk, {}, C)
                 PROVE  lk[m] \in C
      BY DEF Closed, Least
    <3>1. m \in C
      BY DEF Least
    <3> QED
      BY <3>1 DEF ClosedBut
  <2>4. ASSUME NEW C, n \in C, Closed(lk, C)
        PROVE  Least(lk, {}, n) \subseteq C
    <3>1. ClosedBut(lk, {}, C \cap Nodes)
      BY <2>4 DEF Closed, ClosedBut
    <3>2. Least(lk, {}, n) \subseteq C \cap Nodes
      BY <2>4, <3>1 DEF Least
    <3> QED
      BY <3>2
  <2> QED
    BY <2>1, <2>2, <2>3, <2>4
<1> QED
  BY <1>4, <1>5

LEMMA AlongNext ==
  ASSUME Finite, NEW lk, Linked(lk), NEW n \in Nodes
  PROVE  Along(lk, n) = {n} \cup Along(lk, lk[n])
<1>1. /\ n \in Along(lk, n) /\ Closed(lk, Along(lk, n))
      /\ \A C : n \in C /\ Closed(lk, C) => Along(lk, n) \subseteq C
  BY AlongFacts
<1>2. CASE lk[n] = NULL
  <2>1. Along(lk, lk[n]) = {}
    BY <1>2, AlongFacts
  <2>2. Closed(lk, {n})
    BY <1>2 DEF Closed, Finite
  <2> QED
    BY <1>1, <2>1, <2>2
<1>3. CASE lk[n] # NULL
  <2>1. lk[n] \in Nodes
    BY <1>3 DEF Linked
  <2>2. /\ lk[n] \in Along(lk, lk[n]) /\ Closed(lk, Along(lk, lk[n]))
        /\ \A C : lk[n] \in C /\ Closed(lk, C) => Along(lk, lk[n]) \subseteq C
    BY <2>1, AlongFacts
  <2>3. Closed(lk, {n} \cup Along(lk, lk[n]))
    BY <2>2 DEF Closed
  <2>4. lk[n] \in Along(lk, n)
    BY <1>1, <2>1 DEF Closed
  <2> QED
    BY <1>1, <2>2, <2>3, <2>4
<1> QED
  BY <1>2, <1>3

(* Other links of other nodes make no difference.                          *)
LEMMA AlongSame ==
  ASSUME Finite, NEW lk, NEW lk2, Linked(lk), Linked(lk2),
         NEW n \in Nodes \cup {NULL}, \A m \in Along(lk, n) : lk2[m] = lk[m]
  PROVE  Along(lk2, n) = Along(lk, n)
<1>1. CASE n = NULL
  BY <1>1, AlongFacts
<1>2. CASE n \in Nodes
  <2>1. /\ n \in Along(lk, n) /\ Closed(lk, Along(lk, n))
        /\ \A C : n \in C /\ Closed(lk, C) => Along(lk, n) \subseteq C
    BY <1>2, AlongFacts
  <2>2. /\ n \in Along(lk2, n) /\ Closed(lk2, Along(lk2, n))
        /\ \A C : n \in C /\ Closed(lk2, C) => Along(lk2, n) \subseteq C
    BY <1>2, AlongFacts
  <2>3. Closed(lk2, Along(lk, n))
    BY <2>1 DEF Closed
  <2>4. Closed(lk, Along(lk, n) \cap Along(lk2, n))
    BY <2>1, <2>2 DEF Closed
  <2> QED
    BY <2>1, <2>2, <2>3, <2>4
<1> QED
  BY <1>1, <1>2

(* What is linked to a last node adds to what is met, whatever comes after *)
(* that.                                                                   *)
LEMMA AlongGrows ==
  ASSUME Finite, NEW lk, NEW lk2, Linked(lk), Linked(lk2),
         NEW n \in Nodes \cup {NULL}, NEW z, lk[z] = NULL,
         \A m \in Along(lk, n) \ {z} : lk2[m] = lk[m]
  PROVE  Along(lk, n) \subseteq Along(lk2, n)
<1>1. CASE n = NULL
  BY <1>1, AlongFacts
<1>2. CASE n \in Nodes
  <2>1. /\ n \in Along(lk, n) /\ Closed(lk, Along(lk, n))
        /\ \A C : n \in C /\ Closed(lk, C) => Along(lk, n) \subseteq C
    BY <1>2, AlongFacts
  <2>2. n \in Along(lk2, n) /\ Closed(lk2, Along(lk2, n))
    BY <1>2, AlongFacts
  <2>3. Closed(lk, Along(lk, n) \cap Along(lk2, n))
    BY <2>1, <2>2 DEF Closed, Finite
  <2> QED
    BY <2>1, <2>2, <2>3
<1> QED
  BY <1>1, <1>2

(* Appending to a list.                                                    *)
LEMMA AlongAppend ==
  ASSUME Finite, NEW lk, NEW lk2, Linked(lk), Linked(lk2), NEW h \in Nodes,
         NEW z \in Along(lk, h), lk[z] = NULL, NEW e \in Nodes,
         lk2[z] = e, lk2[e] = NULL,
         \A m \in Along(lk, h) \ {z} : lk2[m] = lk[m]
  PROVE  Along(lk2, h) = Along(lk, h) \cup {e}
<1>1. /\ h \in Along(lk, h) /\ Closed(lk, Along(lk, h))
  BY AlongFacts
<1>2. /\ h \in Along(lk2, h) /\ Closed(lk2, Along(lk2, h))
      /\ \A C : h \in C /\ Closed(lk2, C) => Along(lk2, h) \subseteq C
  BY AlongFacts
<1>3. Closed(lk2, Along(lk, h) \cup {e})
  BY <1>1 DEF Closed, Finite
<1>4. Along(lk, h) \subseteq Along(lk2, h)
  BY AlongGrows
<1>5. e \in Along(lk2, h)
  BY <1>2, <1>4 DEF Closed
<1> QED
  BY <1>1, <1>2, <1>3, <1>4, <1>5

(* Of two nodes that are met one is met from the other.                    *)
LEMMA AlongLinear ==
  ASSUME Finite, NEW lk, Linked(lk), NEW h \in Nodes,
         NEW a \in Along(lk, h), NEW b \in Along(lk, h)
  PROVE  a \in Along(lk, b) \/ b \in Along(lk, a)
<1>1. /\ h \in Along(lk, h) /\ Closed(lk, Along(lk, h))
      /\ Along(lk, h) \subseteq Nodes
      /\ \A C : h \in C /\ Closed(lk, C) => Along(lk, h) \subseteq C
  BY AlongFacts
<1> DEFINE C == {n \in Along(lk, h) : a \in Along(lk, n) \/ n \in Along(lk, a)}
<1>2. h \in C
  BY <1>1
<1>3. ASSUME NEW n \in C, lk[n] \in Nodes PROVE lk[n] \in C
  <2>1. n \in Nodes /\ lk[n] \in Along(lk, h)
    BY <1>1, <1>3 DEF Closed
  <2>2. Along(lk, n) = {n} \cup Along(lk, lk[n])
    BY <2>1, AlongNext
  <2>3. Closed(lk, Along(lk, a)) /\ a \in Along(lk, a)
    BY <1>1, AlongFacts
  <2>4. CASE n \in Along(lk, a)
    BY <1>3, <2>1, <2>3, <2>4 DEF Closed
  <2>5. CASE a \in Along(lk, n) /\ n \notin Along(lk, a)
    BY <2>1, <2>2, <2>3, <2>5
  <2> QED
    BY <2>4, <2>5
<1>4. Closed(lk, C)
  BY <1>3 DEF Closed
<1>5. Along(lk, h) \subseteq C
  BY <1>1, <1>2, <1>4
<1> QED
  BY <1>5

(* A list that ends has no cycle ...                                       *)
LEMMA AlongAcyclic ==
  ASSUME Finite, NEW lk, Linked(lk), NEW h \in Nodes,
         NEW z \in Along(lk, h), lk[z] = NULL, NEW p \in Along(lk, h)
  PROVE  p \notin Along(lk, lk[p])
<1>1. /\ h \in Along(lk, h) /\ Closed(lk, Along(lk, h))
      /\ Along(lk, h) \subseteq Nodes
      /\ \A C : h \in C /\ Closed(lk, C) => Along(lk, h) \subseteq C
  BY AlongFacts
<1>2. z \in Along(lk, p)
  <2> DEFINE C == {n \in Along(lk, h) : z \in Along(lk, n)}
  <2>1. ASSUME NEW n \in C, lk[n] \in Nodes PROVE lk[n] \in C
    <3>1. n \in Nodes /\ n # z /\ lk[n] \in Along(lk, h)
      BY <1>1, <2>1 DEF Closed, Finite
    <3>2. Along(lk, n) = {n} \cup Along(lk, lk[n])
      BY <3>1, AlongNext
    <3> QED
      BY <3>1, <3>2
  <2>2. Closed(lk, C)
    BY <2>1 DEF Closed
  <2>3. h \in C
    BY <1>1
  <2>4. Along(lk, h) \subseteq C
    BY <1>1, <2>2, <2>3
  <2> QED
    BY <2>4
<1>3. SUFFICES ASSUME p \in Along(lk, lk[p]) PROVE FALSE
  OBVIOUS
<1>4. /\ p \in Along(lk, p) /\ Closed(lk, Along(lk, p))
      /\ Along(lk, p) \subseteq Nodes
      /\ \A C : p \in C /\ Closed(lk, C) => Along(lk, p) \subseteq C
  BY <1>1, AlongFacts
<1> DEFINE D == {n \in Along(lk, p) : p \in Along(lk, n)}
<1>5. ASSUME NEW n \in D, lk[n] \in Nodes PROVE lk[n] \in D
  <2>1. n \in Nodes /\ lk[n] \in Along(lk, p)
    BY <1>4, <1>5 DEF Closed
  <2>2. Along(lk, n) = {n} \cup Along(lk, lk[n])
    BY <2>1, AlongNext
  <2> QED
    BY <1>3, <2>1, <2>2
<1>6. Closed(lk, D)
  BY <1>5 DEF Closed
<1>7. p \in D
  BY <1>4
<1>8. Along(lk, p) \subseteq D
  BY <1>4, <1>6, <1>7
<1>9. p \in Along(lk, z)
  BY <1>2, <1>8
<1>10. Along(lk, z) = {z} \cup Along(lk, NULL) /\ Along(lk, NULL) = {}
  BY <1>1, AlongNext, AlongFacts
<1> QED
  BY <1>3, <1>9, <1>10

(* ... and each of its nodes comes after one only.                         *)
LEMMA AlongBefore ==
  ASSUME Finite, NEW lk, Linked(lk), NEW h \in Nodes,
         NEW z \in Along(lk, h), lk[z] = NULL,
         NEW p \in Along(lk, h), NEW q \in Along(lk, h), lk[p] = lk[q],
         lk[p] \in Nodes
  PROVE  p = q
<1>1. p \in Nodes /\ q \in Nodes
  BY AlongFacts
<1>2. /\ Along(lk, p) = {p} \cup Along(lk, lk[p])
      /\ Along(lk, q) = {q} \cup Along(lk, lk[q])
  BY <1>1, AlongNext
<1>3. p \notin Along(lk, lk[p]) /\ q \notin Along(lk, lk[q])
  BY AlongAcyclic
<1>4. p \in Along(lk, q) \/ q \in Along(lk, p)
  BY AlongLinear
<1> QED
  BY <1>2, <1>3, <1>4

(* Passing one node by: from wherever one comes, nothing else is lost, and *)
(* nothing at all for who is at the node itself.                           *)
LEMMA AlongSkips ==
  ASSUME Finite, NEW lk, Linked(lk), NEW n \in Nodes \cup {NULL},
         NEW p \in Nodes, NEW e \in Nodes, lk[p] = e,
         Linked([lk EXCEPT ![p] = lk[e]])
  PROVE  Along(lk, n) \ {e} \subseteq Along([lk EXCEPT ![p] = lk[e]], n)
<1> DEFINE lk2 == [lk EXCEPT ![p] = lk[e]]
<1>1. lk2[p] = lk[e] /\ \A m \in Nodes \ {p} : lk2[m] = lk[m]
  BY DEF Linked
<1>2. CASE n = NULL
  BY <1>2, AlongFacts
<1>3. CASE n \in Nodes
  <2>1. \A C : n \in C /\ Closed(lk, C) => Along(lk, n) \subseteq C
    BY <1>3, AlongFacts
  <2> HIDE DEF lk2
  <2>2. n \in Along(lk2, n) /\ Closed(lk2, Along(lk2, n))
    BY <1>3, AlongFacts DEF lk2
  <2>3. Along(lk2, n) \subseteq Nodes
    BY <1>3, AlongFacts DEF lk2
  <2>4. CASE p \in Along(lk2, n)
    <3>1. Closed(lk, Along(lk2, n) \cup {e})
      BY <1>1, <2>2, <2>3, <2>4 DEF Closed
    <3> QED
      BY <2>1, <2>2, <3>1 DEF lk2
  <2>5. CASE p \notin Along(lk2, n)
    <3>1. Closed(lk, Along(lk2, n))
      BY <1>1, <2>2, <2>3, <2>5 DEF Closed
    <3> QED
      BY <2>1, <2>2, <3>1 DEF lk2
  <2> QED
    BY <2>4, <2>5
<1> QED
  BY <1>2, <1>3

(* Removing from a list.                                                   *)
LEMMA AlongRemoves ==
  ASSUME Finite, NEW lk, Linked(lk), NEW h \in Nodes,
         NEW z \in Along(lk, h), lk[z] = NULL,
         NEW p \in Along(lk, h), NEW e \in Nodes, lk[p] = e, e # h,
         Linked([lk EXCEPT ![p] = lk[e]])
  PROVE  Along([lk EXCEPT ![p] = lk[e]], h) = Along(lk, h) \ {e}
<1> DEFINE lk2 == [lk EXCEPT ![p] = lk[e]]
           R == Along(lk, h)
<1>1. h \in R /\ Closed(lk, R) /\ R \subseteq Nodes
  BY AlongFacts
<1>2. lk2[p] = lk[e] /\ \A m \in Nodes \ {p} : lk2[m] = lk[m]
  BY <1>1 DEF Linked
<1>3. R \ {e} \subseteq Along(lk2, h)
  BY <1>1, AlongSkips
<1>4. \A C : h \in C /\ Closed(lk2, C) => Along(lk2, h) \subseteq C
  BY AlongFacts
<1>5. e \in R
  BY <1>1 DEF Closed
<1>6. ASSUME NEW k \in R \ {e}, lk2[k] \in Nodes PROVE lk2[k] \in R \ {e}
  <2>1. CASE k = p
    <3>1. lk[e] \in R
      BY <1>1, <1>2, <1>5, <1>6, <2>1 DEF Closed
    <3>2. e \notin Along(lk, lk[e])
      BY <1>5, AlongAcyclic
    <3>3. lk[e] \in Along(lk, lk[e])
      BY <1>2, <1>6, <2>1, AlongFacts
    <3> QED
      BY <1>2, <2>1, <3>1, <3>2, <3>3
  <2>2. CASE k # p
    <3>1. lk2[k] = lk[k] /\ lk[k] \in R
      BY <1>1, <1>2, <1>6, <2>2 DEF Closed
    <3>2. lk[k] # e
      BY <2>2, AlongBefore
    <3> QED
      BY <3>1, <3>2
  <2> QED
    BY <2>1, <2>2
<1> HIDE DEF lk2, R
<1>7. Closed(lk2, R \ {e})
  BY <1>6 DEF Closed
<1> QED
  BY <1>1, <1>3, <1>4, <1>7 DEF lk2, R


-----------------------------------------------------------------------------
(* The lists, when calls of reqctsk do not overlap each other, nor those   *)
(* of reqdxch each other or those of reqcxch; these may overlap each other,*)
(* and all of them those of reqctsk.                                       *)
Discipline == Serial /\ IsFiniteSet(Nodes)

ExOps == CxOps \cup DxOps
Exs == Exchanges \cup {DelayEx}

Fields ==
  /\ op \in [Threads -> {"idle"} \cup TaskOps \cup ExOps]
  /\ arg \in [Threads -> Nodes \cup {NULL}]
  /\ prev \in [Threads -> Nodes \cup {NULL}]
  /\ curr \in [Threads -> Nodes \cup {NULL}]
  /\ nxt \in [Threads -> Nodes \cup {NULL}]
  /\ thread \subseteq Threads /\ registered \subseteq Exs
  /\ link \in [Nodes -> Nodes \cup {NULL}]
  /\ \A n \in Threads : link[n] \in Threads \cup {NULL}
  /\ \A n \in Exs : link[n] \in Exs \cup {NULL}
  /\ tail \in Threads /\ extail \in Exs
  /\ \A t \in Threads : op[t] \in TaskOps => arg[t] \in Tasks
  /\ at \in Nodes \cup {NULL}

(* Who is in a call runs; who was cancelled in a call was creating a task. *)
(* One thread is in reqctsk, and one in reqcxch, which holds mutex1, or in *)
(* reqdxch.                                                                *)
Callers ==
  /\ \A t \in Threads :
       op[t] # "idle" =>
         pc[t] = "body" \/ (pc[t] = "dead" /\ op[t] = "setthread")
  /\ \A t, u \in In(TaskOps) : t = u
  /\ \A t \in Threads : op[t] \in CxOps => mutex1 = t
  /\ \A t, u \in Threads : op[t] \in DxOps /\ op[u] \in ExOps => t = u

(* The list of exchanges holds the registered ones and ends in z.          *)
Ends(links, z) ==
  /\ Along(links, DelayEx) = registered
  /\ z \in registered /\ links[z] = NULL

(* So it does, with rq_exchange_tail at the end, but for the last steps of *)
(* each call: a new exchange has a stale link before that is cleared, and  *)
(* one that was last stays rq_exchange_tail until its predecessor is.      *)
Steady == \A t \in Threads : op[t] \notin {"extail", "exend", "dxtail", "dxset"}
Linking(t, z) ==
  /\ arg[t] \in Exchanges \ registered /\ link[z] = arg[t]
  /\ Ends([link EXCEPT ![z] = NULL], z)
ExAt(t) ==
  /\ op[t] = "exlink" => arg[t] \in Exchanges \ registered
  /\ op[t] = "extail" => Linking(t, extail)
  /\ op[t] = "exend" => extail = arg[t] /\ \E z \in registered : Linking(t, z)
  /\ op[t] \in DxOps \ {"dxtail", "dxset"} => arg[t] \in registered \cap Exchanges
  /\ op[t] = "dxwalk" => prev[t] \in registered \cup {NULL}
  /\ op[t] \in {"dxstep", "dxcurr", "dxnext", "dxlink"} => prev[t] \in registered
  /\ op[t] \in {"dxcurr", "dxnext", "dxlink"} => link[prev[t]] = arg[t]
  /\ op[t] \in {"dxnext", "dxlink"} => curr[t] = arg[t]
  /\ op[t] = "dxlink" => nxt[t] = link[arg[t]]
  /\ op[t] = "dxtail" => Ends(link, IF extail = curr[t] THEN prev[t] ELSE extail)
  /\ op[t] = "dxset" => Ends(link, prev[t])
ExList ==
  /\ Steady => Ends(link, extail)
  /\ \A t \in Threads : ExAt(t)

EInv == Fields /\ Callers /\ ExList

(* When the descriptors of deleted tasks are not used again, a task is     *)
(* created once, by one thread.                                            *)
Births ==
  /\ \A t \in Threads : op[t] \in TaskOps => pc[arg[t]] # "none"
  /\ \A t \in Threads : op[t] = "linktail" => arg[t] \in thread
  /\ \A t, u \in Threads :
       op[t] \in TaskOps /\ op[u] \in TaskOps /\ arg[t] = arg[u] => t = u

(* The list of tasks holds those created, from the step that links them    *)
(* on; the others have a clear link, and so has the last one.              *)
Outside(u) ==
  \/ pc[u] = "none"
  \/ \E t \in Threads : arg[t] = u /\ op[t] \in {"setthread", "linktail"}
TaskList ==
  /\ tail \in Reach(Root)
  /\ \A u \in Tasks :
       /\ Outside(u) => u \notin Reach(Root) /\ link[u] = NULL
       /\ ~Outside(u) => u \in Reach(Root) /\ u \in thread
  /\ (\A t \in Threads : op[t] # "settail") => link[tail] = NULL
  /\ \A t \in Threads :
       op[t] = "settail" => link[tail] = arg[t] /\ link[arg[t]] = NULL
  /\ \A t \in Threads : op[t] = "endlist" => tail = arg[t]

(* What a display owes is shown or still to come, also when the stale link *)
(* of a new exchange is cleared.                                           *)
Cut(t) == [link EXCEPT ![arg[t]] = NULL]
Shown ==
  /\ due \subseteq seen \cup Reach(at)
  /\ at \in Exs =>
       \A t \in Threads :
         /\ op[t] = "exlink" => due = {} \/ arg[t] \notin Reach(at)
         /\ op[t] \in {"extail", "exend"} => due \subseteq seen \cup Along(Cut(t), at)

TInv == Births /\ TaskList /\ Shown

-----------------------------------------------------------------------------
LEMMA Constants ==
  ASSUME Discipline
  PROVE  /\ Finite /\ Root \in Threads /\ Root \notin Tasks
         /\ Tasks \subseteq Threads /\ Threads = Tasks \cup {Root}
         /\ Threads \subseteq Nodes /\ Exs \subseteq Nodes
         /\ DelayEx \in Exs /\ DelayEx \notin Exchanges /\ Exchanges \subseteq Exs
         /\ Threads \cap Exs = {} /\ NULL \notin Nodes
         /\ Nodes = Threads \cup Exs
BY TaskTableAssumption
   DEF TaskTableAssumption, Discipline, Finite, Threads, Exs, Nodes

LEMMA Ops ==
  /\ "idle" \notin TaskOps \cup ExOps /\ TaskOps \cap ExOps = {}
  /\ CxOps \cap DxOps = {} /\ ExOps = CxOps \cup DxOps
  /\ CxOps = {"exlink", "extail", "exend"}
  /\ DxOps = {"dxtest", "dxwalk", "dxstep", "dxcurr", "dxnext", "dxlink",
              "dxtail", "dxset"}
BY DEF TaskOps, ExOps, CxOps, DxOps

(* The lists are apart.                                                    *)
LEMMA Apart ==
  ASSUME Discipline, NEW lk, Linked(lk)
  PROVE  /\ (\A n \in Threads : lk[n] \in Threads \cup {NULL}) =>
              \A n \in Threads : Along(lk, n) \subseteq Threads
         /\ (\A n \in Exs : lk[n] \in Exs \cup {NULL}) =>
              \A n \in Exs : Along(lk, n) \subseteq Exs
<1>1. ASSUME \A n \in Threads : lk[n] \in Threads \cup {NULL}
      PROVE  \A n \in Threads : Along(lk, n) \subseteq Threads
  <2>1. Closed(lk, Threads)
    BY <1>1, Constants DEF Closed
  <2> QED
    BY <2>1, AlongFacts, Constants
<1>2. ASSUME \A n \in Exs : lk[n] \in Exs \cup {NULL}
      PROVE  \A n \in Exs : Along(lk, n) \subseteq Exs
  <2>1. Closed(lk, Exs)
    BY <1>2, Constants DEF Closed
  <2> QED
    BY <2>1, AlongFacts, Constants
<1> QED
  BY <1>1, <1>2

LEMMA LinksTyped ==
  ASSUME Discipline, Fields
  PROVE  /\ Linked(link) /\ Reach(Root) \subseteq Threads
         /\ Reach(DelayEx) \subseteq Exs
         /\ \A n \in Threads : Reach(n) \subseteq Threads
         /\ \A n \in Exs : Reach(n) \subseteq Exs
         /\ \A t \in Threads : Linked(Cut(t))
BY Constants, Apart DEF Fields, Linked, Reach, Cut

(* While a thread is in reqctsk, and alive, no other one is.               *)
LEMMA OnlyCreator ==
  ASSUME EInv, NEW t \in Threads, op[t] \in TaskOps, pc[t] = "body"
  PROVE  \A u \in Threads : u # t /\ op[u] \in TaskOps => op[u] = "setthread"
<1> SUFFICES ASSUME NEW u \in Threads, u # t, op[u] \in TaskOps
             PROVE  op[u] = "setthread"
  OBVIOUS
<1>1. op[u] # "idle"
  BY Ops
<1>2. pc[u] # "body"
  BY DEF EInv, Callers, In
<1> QED
  BY <1>1, <1>2 DEF EInv, Callers

(* While a thread is in reqcxch, past mutex1, or in reqdxch, no other is.  *)
LEMMA OnlyLinker ==
  ASSUME EInv, NEW t \in Threads, op[t] \in ExOps
  PROVE  \A u \in Threads : u # t => op[u] \notin ExOps
BY Ops DEF EInv, Callers

LEMMA FreeToBegin ==
  ASSUME Discipline, SInv, EInv, NEW t \in Threads, Free(t)
  PROVE  /\ op[t] = "idle" /\ pc[t] = "body"
         /\ \A ops : In(ops) = {} =>
              \A u \in Threads : op[u] \in ops => op[u] \in {"idle", "setthread"}
<1>1. op[t] = "idle" /\ pc[t] = "body"
  BY DEF Free, At
<1>2. ASSUME NEW ops, In(ops) = {}, NEW u \in Threads, op[u] \in ops
      PROVE  op[u] \in {"idle", "setthread"}
  <2>1. pc[u] = "dead"
    BY <1>2 DEF In
  <2> QED
    BY <2>1 DEF EInv, Callers
<1> QED
  BY <1>1, <1>2

(* The list of exchanges is as before, when the step is about tasks.       *)
LEMMA ExsKept ==
  ASSUME Discipline, EInv, Fields', UNCHANGED <<extail, registered>>,
         \A n \in Exs : link'[n] = link[n],
         \A t \in Threads :
           op[t] \in ExOps \/ op'[t] \in ExOps =>
             /\ op'[t] = op[t] /\ arg'[t] = arg[t] /\ prev'[t] = prev[t]
             /\ curr'[t] = curr[t] /\ nxt'[t] = nxt[t]
  PROVE  ExList'
<1>1. Linked(link) /\ Linked(link') /\ extail \in Exs /\ registered \subseteq Exs
  BY DEF EInv, Fields, Linked
<1>2. ASSUME NEW lk, NEW lk2, Linked(lk), Linked(lk2), NEW z,
             \A n \in Exs : lk2[n] = lk[n] /\ lk[n] \in Exs \cup {NULL},
             Ends(lk, z)
      PROVE  Ends(lk2, z)
  <2>1. Along(lk, DelayEx) \subseteq Exs
    BY <1>2, Apart, Constants
  <2>2. Along(lk2, DelayEx) = Along(lk, DelayEx)
    BY <1>2, <2>1, AlongSame, Constants
  <2> QED
    BY <1>1, <1>2, <2>2 DEF Ends
<1>3. Steady' <=> Steady
  <2>1. \A t \in Threads :
          op'[t] \in {"extail", "exend", "dxtail", "dxset"}
            <=> op[t] \in {"extail", "exend", "dxtail", "dxset"}
    BY Ops
  <2> QED
    BY <2>1 DEF Steady
<1>4. \A n \in Exs : link'[n] = link[n] /\ link[n] \in Exs \cup {NULL}
  BY DEF EInv, Fields
<1>5. \A z : Ends(link, z) => Ends(link, z)'
  <2> SUFFICES ASSUME NEW z, Ends(link, z) PROVE Ends(link', z)
    BY DEF Ends
  <2> QED
    BY <1>1, <1>2, <1>4
<1>6. ASSUME NEW t \in Threads, op[t] \in ExOps, NEW z \in registered, Linking(t, z)
      PROVE  Linking(t, z)'
  <2>1. /\ arg'[t] = arg[t] /\ z \in Exs /\ z \in Nodes
        /\ z \in registered' /\ link'[z] = link[z]
    BY <1>1, <1>4, <1>6, Constants
  <2> DEFINE lk == [link EXCEPT ![z] = NULL]
             lk2 == [link' EXCEPT ![z] = NULL]
  <2>2. Linked(lk) /\ Linked(lk2)
    BY <1>1 DEF Linked
  <2>3. \A n \in Exs : lk2[n] = lk[n] /\ lk[n] \in Exs \cup {NULL}
    BY <1>1, <1>4, Constants DEF Linked
  <2>4. Ends(lk, z)
    BY <1>6 DEF Linking
  <2> HIDE DEF lk, lk2
  <2>5. Ends(lk2, z)
    BY <1>2, <2>2, <2>3, <2>4
  <2> QED
    BY <1>6, <2>1, <2>5 DEF Linking, lk2, Ends
<1>7. ASSUME NEW t \in Threads PROVE ExAt(t)'
  <2>1. CASE op'[t] \notin ExOps
    BY <2>1, Ops DEF ExAt
  <2>2. CASE op'[t] \in ExOps
    <3>1. /\ op[t] \in ExOps /\ op'[t] = op[t] /\ arg'[t] = arg[t]
          /\ prev'[t] = prev[t] /\ curr'[t] = curr[t] /\ nxt'[t] = nxt[t]
          /\ ExAt(t)
      BY <2>2 DEF EInv, ExList
    <3>2. CASE op[t] = "exlink" \/ op[t] = "dxtest" \/ op[t] = "dxwalk"
      BY <3>1, <3>2, Ops DEF ExAt
    <3>3. CASE op[t] = "extail"
      <4>1. Linking(t, extail) /\ extail \in registered
        BY <3>1, <3>3 DEF ExAt, Linking, Ends
      <4>2. PICK z \in registered : z = extail
        BY <4>1
      <4>3. Linking(t, z)' /\ extail' = z
        BY <1>6, <3>1, <4>1, <4>2
      <4>4. Linking(t, extail)'
        BY <4>3 DEF Linking, Ends
      <4> QED
        BY <3>1, <3>3, <4>4, Ops DEF ExAt
    <3>4. CASE op[t] = "exend"
      <4>1. extail = arg[t] /\ \E z \in registered : Linking(t, z)
        BY <3>1, <3>4 DEF ExAt
      <4>2. \E z \in registered' : Linking(t, z)'
        BY <1>6, <3>1, <4>1
      <4> QED
        BY <3>1, <3>4, <4>1, <4>2, Ops DEF ExAt
    <3>5. CASE op[t] \in {"dxstep", "dxcurr", "dxnext", "dxlink"}
      <4>1. prev[t] \in Exs /\ arg[t] \in Exs
        BY <1>1, <3>1, <3>5, Ops, Constants DEF ExAt
      <4> QED
        BY <1>4, <3>1, <3>5, <4>1, Ops DEF ExAt
    <3>6. CASE op[t] \in {"dxtail", "dxset"}
      BY <1>5, <3>1, <3>6, Ops DEF ExAt
    <3> QED
      BY <3>1, <3>2, <3>3, <3>4, <3>5, <3>6, Ops
  <2> QED
    BY <2>1, <2>2
<1>8. Steady => Ends(link, extail)'
  BY <1>5 DEF EInv, ExList, Ends
<1> QED
  BY <1>3, <1>7, <1>8 DEF ExList

(* A step within a call, or to its end, leaves the callers apart.          *)
LEMMA CallersKept ==
  ASSUME EInv, UNCHANGED pc, NEW t \in Threads, op[t] # "idle", pc[t] = "body",
         \A u \in Threads : u # t => op'[u] = op[u],
         \/ op'[t] = "idle" /\ (mutex1' = mutex1 \/ op[t] \in CxOps)
         \/ /\ mutex1' = mutex1
            /\ \/ op[t] \in TaskOps /\ op'[t] \in TaskOps
               \/ op[t] \in CxOps /\ op'[t] \in CxOps
               \/ op[t] \in DxOps /\ op'[t] \in DxOps
  PROVE  Callers'
<1>1. Callers
  BY DEF EInv
<1>2. \A u \in Threads :
        op'[u] # "idle" =>
          pc'[u] = "body" \/ (pc'[u] = "dead" /\ op'[u] = "setthread")
  BY <1>1 DEF Callers
<1>3. In(TaskOps)' \subseteq In(TaskOps)
  BY Ops DEF In
<1>4. \A u \in In(TaskOps)', v \in In(TaskOps)' : u = v
  BY <1>1, <1>3 DEF Callers
<1>5. \A u \in Threads : op'[u] \in CxOps => op[u] \in CxOps
  BY Ops
<1>6. \A u \in Threads : op'[u] \in CxOps => mutex1' = u
  <2> SUFFICES ASSUME NEW u \in Threads, op'[u] \in CxOps PROVE mutex1' = u
    OBVIOUS
  <2>1. op[u] \in CxOps /\ mutex1 = u
    BY <1>1, <1>5 DEF Callers
  <2>2. CASE u = t
    BY <2>1, <2>2, Ops
  <2>3. CASE u # t
    <3>1. op[t] \notin CxOps
      BY <1>1, <2>1, <2>3 DEF Callers
    <3> QED
      BY <2>1, <3>1
  <2> QED
    BY <2>2, <2>3
<1>7. \A u \in Threads : /\ op'[u] \in DxOps => op[u] \in DxOps
                         /\ op'[u] \in ExOps => op[u] \in ExOps
  BY Ops
<1> QED
  BY <1>1, <1>2, <1>4, <1>6, <1>7 DEF Callers

(* The steps of reqctsk leave the list of exchanges as it is.              *)
LEMMA TaskStepsApart ==
  ASSUME Discipline, EInv, NEW t \in Threads,
         SetThread(t) \/ LinkTail(t) \/ SetTail(t) \/ EndList(t)
  PROVE  EInv'
<1>1. /\ pc[t] = "body" /\ op[t] \in TaskOps
      /\ UNCHANGED <<pc, extail, mutex1, registered, at>>
      /\ \E o \in TaskOps \cup {"idle"} : op' = [op EXCEPT ![t] = o]
  BY DEF SetThread, LinkTail, SetTail, EndList, At, Goto, TaskOps, lists, walk
<1>2. /\ \A u \in Threads : u # t => op'[u] = op[u]
      /\ op'[t] \in TaskOps \cup {"idle"} /\ op[t] # "idle"
  BY <1>1, Ops DEF EInv, Fields
<1>3. arg[t] \in Tasks /\ arg[t] \in Threads /\ arg[t] \in Nodes /\ arg[t] \notin Exs
  BY <1>1, Constants DEF EInv, Fields
<1>4. /\ arg' = arg \/ (op'[t] = "idle" /\ arg' = [arg EXCEPT ![t] = NULL])
      /\ prev' = prev \/ prev' = [prev EXCEPT ![t] = NULL]
      /\ curr' = curr \/ curr' = [curr EXCEPT ![t] = NULL]
      /\ nxt' = nxt \/ nxt' = [nxt EXCEPT ![t] = NULL]
      /\ thread' = thread \/ thread' = thread \cup {arg[t]}
      /\ tail' = tail \/ tail' = arg[t]
      /\ \/ link' = link \/ link' = [link EXCEPT ![tail] = arg[t]]
         \/ link' = [link EXCEPT ![arg[t]] = NULL]
  BY DEF SetThread, LinkTail, SetTail, EndList, Goto, Forget, lists, dx, EInv, Fields
<1>5. /\ link' \in [Nodes -> Nodes \cup {NULL}]
      /\ \A n \in Threads : link'[n] \in Threads \cup {NULL}
      /\ \A n \in Exs : link'[n] = link[n] /\ link[n] \in Exs \cup {NULL}
  BY <1>3, <1>4, Constants DEF EInv, Fields
<1>6. \A u \in Threads : u # t => /\ arg'[u] = arg[u] /\ prev'[u] = prev[u]
                                  /\ curr'[u] = curr[u] /\ nxt'[u] = nxt[u]
  BY <1>4 DEF EInv, Fields
<1>7. Fields'
  <2>1. op' \in [Threads -> {"idle"} \cup TaskOps \cup ExOps]
    BY <1>1 DEF EInv, Fields
  <2>2. \A u \in Threads : op'[u] \in TaskOps => arg'[u] \in Tasks
    BY <1>2, <1>3, <1>4, <1>6, Ops DEF EInv, Fields
  <2>3. /\ arg' \in [Threads -> Nodes \cup {NULL}]
        /\ prev' \in [Threads -> Nodes \cup {NULL}]
        /\ curr' \in [Threads -> Nodes \cup {NULL}]
        /\ nxt' \in [Threads -> Nodes \cup {NULL}]
        /\ thread' \subseteq Threads /\ tail' \in Threads
    BY <1>3, <1>4 DEF EInv, Fields
  <2> QED
    BY <1>1, <1>5, <2>1, <2>2, <2>3 DEF EInv, Fields
<1>8. Callers'
  BY <1>1, <1>2, CallersKept
<1>9. ExList'
  <2>1. op[t] \notin ExOps /\ op'[t] \notin ExOps
    BY <1>1, <1>2, Ops
  <2> QED
    BY <1>1, <1>2, <1>5, <1>6, <1>7, <2>1, ExsKept
<1> QED
  BY <1>7, <1>8, <1>9 DEF EInv

(* So does a new call of reqctsk, whose task may have been one before.     *)
LEMMA CreateApart ==
  ASSUME Discipline, SInv, EInv, NEW t \in Threads, NEW u \in Tasks,
         Create(t, u)
  PROVE  /\ EInv'
         /\ pc[u] \in {"none", "dead"} /\ (~Recreate => pc[u] = "none")
         /\ pc[t] = "body" /\ op[t] = "idle" /\ t # u
         /\ op'[t] = "setthread" /\ arg'[t] = u /\ op'[u] = "idle"
         /\ \A v \in Threads : v \notin {t, u} => op'[v] = op[v]
         /\ \A v \in Threads : v # t => arg'[v] = arg[v]
         /\ \A v \in Threads : op[v] \in TaskOps => op[v] = "setthread"
<1>1. /\ pc' = [pc EXCEPT ![u] = "new"]
      /\ op' = [op EXCEPT ![t] = "setthread", ![u] = "idle"]
      /\ arg' = [arg EXCEPT ![t] = u] /\ thread' = thread \ {u}
      /\ UNCHANGED <<prev, curr, nxt, link, tail, extail, mutex1, registered, at>>
  BY DEF Create, lists, walk, dx
<1>2. u \in Threads /\ pc \in [Threads -> States] /\ u \in Nodes
  BY Constants DEF SInv, Types
<1>3. /\ pc[u] \in {"none", "dead"} /\ (~Recreate => pc[u] = "none")
      /\ pc[t] = "body" /\ op[t] = "idle" /\ In(TaskOps) = {}
  <2>1. CASE /\ Free(t) /\ (Serial => In(TaskOps) = {})
             /\ pc[u] = "none" \/ (Recreate /\ pc[u] = "dead")
    BY <2>1 DEF Discipline, Free, At
  <2>2. CASE t = Root /\ At(Root, "idle") /\ todo <= Len(Table) /\ u = Table[todo]
    <3>1. todo \in Filled
      BY <2>2, TaskTableAssumption, TableFacts
         DEF SInv, Types, Filled, TaskTableAssumption
    <3>2. Missing /\ pc[u] = "none"
      BY <2>2, <3>1, TaskTableAssumption, TableFacts DEF SInv, Made, Missing
    <3>3. \A v \in Tasks : pc[v] \notin {"body", "dead"}
      BY <3>2 DEF SInv, Early
    <3>4. \A v \in Threads : op[v] = "idle"
      BY <2>2, <3>3, Constants DEF EInv, Callers, At
    <3> QED
      BY <2>2, <3>2, <3>4, Ops DEF At, In
  <2> QED
    BY <2>1, <2>2 DEF Create
<1>4. t # u /\ op[u] \in {"idle", "setthread"}
  BY <1>2, <1>3 DEF EInv, Callers
<1>5. /\ op'[t] = "setthread" /\ arg'[t] = u /\ op'[u] = "idle"
      /\ \A v \in Threads : v \notin {t, u} => op'[v] = op[v]
      /\ \A v \in Threads : v # t => arg'[v] = arg[v]
      /\ pc'[u] = "new" /\ \A v \in Threads : v # u => pc'[v] = pc[v]
  BY <1>1, <1>2, <1>4 DEF EInv, Fields
<1>6. \A v \in Threads : op[v] \in TaskOps => op[v] = "setthread"
  BY <1>3, Ops DEF EInv, Callers, In
<1>7. "setthread" \in TaskOps
  BY DEF TaskOps
<1>8. Fields'
  <2>1. op' \in [Threads -> {"idle"} \cup TaskOps \cup ExOps]
    BY <1>1, <1>7 DEF EInv, Fields
  <2>2. \A v \in Threads : op'[v] \in TaskOps => arg'[v] \in Tasks
    BY <1>5, Ops DEF EInv, Fields
  <2> QED
    BY <1>1, <1>2, <2>1, <2>2 DEF EInv, Fields
<1>9. Callers'
  <2>1. \A v \in Threads :
          op'[v] # "idle" =>
            pc'[v] = "body" \/ (pc'[v] = "dead" /\ op'[v] = "setthread")
    BY <1>3, <1>4, <1>5 DEF EInv, Callers
  <2>2. In(TaskOps)' \subseteq {t}
    <3> SUFFICES ASSUME NEW v \in Threads, v # t, pc'[v] # "dead", op'[v] \in TaskOps
                 PROVE  FALSE
      BY DEF In
    <3>1. v # u /\ op[v] \in TaskOps /\ pc[v] # "dead"
      BY <1>5, Ops
    <3> QED
      BY <1>3, <3>1 DEF In
  <2>3. \A v \in Threads : op'[v] \in ExOps => op[v] = op'[v]
    BY <1>5, <1>7, Ops
  <2>4. \A v \in Threads : op'[v] \in CxOps => mutex1' = v
    BY <1>1, <2>3, Ops DEF EInv, Callers
  <2>5. \A v, w \in Threads : op'[v] \in DxOps /\ op'[w] \in ExOps => v = w
    BY <2>3, Ops DEF EInv, Callers
  <2>6. \A v, w \in In(TaskOps)' : v = w
    BY <2>2
  <2> QED
    BY <2>1, <2>4, <2>5, <2>6 DEF Callers
<1>10. ExList'
  <2>1. \A v \in Threads : op[v] \in ExOps => v \notin {t, u}
    BY <1>3, <1>4, <1>7, Ops
  <2>2. \A v \in Threads : op'[v] \in ExOps => v \notin {t, u}
    BY <1>5, <1>7, Ops
  <2> QED
    BY <1>1, <1>5, <1>8, <2>1, <2>2, ExsKept
<1> QED
  BY <1>3, <1>4, <1>5, <1>6, <1>8, <1>9, <1>10 DEF EInv

(* Steps of reqrun, deletion and cancellation: threads move on, or end.    *)
Moves ==
  /\ UNCHANGED <<op, arg, dx, thread, lists, walk>>
  /\ \A t \in Threads :
       \/ pc'[t] = pc[t]
       \/ /\ pc[t] # "none" /\ pc'[t] # "none"
          /\ \/ op[t] = "idle"
             \/ pc[t] # "dead" /\ pc'[t] = "dead" /\ op[t] = "setthread"

LEMMA MovesApart ==
  ASSUME EInv, Moves
  PROVE  EInv'
<1>1. UNCHANGED <<op, arg, prev, curr, nxt, thread, link, tail, extail, mutex1,
                  registered, at, seen, due>>
  BY DEF lists, walk, dx, Moves
<1>2. Fields'
  BY <1>1 DEF EInv, Fields
<1>3. Callers'
  <2>1. \A t \in Threads :
          op'[t] # "idle" =>
            pc'[t] = "body" \/ (pc'[t] = "dead" /\ op'[t] = "setthread")
    BY <1>1 DEF EInv, Callers, Moves
  <2>2. In(TaskOps)' \subseteq In(TaskOps)
    <3> SUFFICES ASSUME NEW t \in Threads, pc'[t] # "dead", op[t] \in TaskOps
                 PROVE  pc[t] # "dead"
      BY <1>1 DEF In
    <3> QED
      BY Ops DEF Moves
  <2> QED
    BY <1>1, <2>1, <2>2 DEF EInv, Callers
<1>4. ExList'
  <2>1. Steady' <=> Steady
    BY <1>1 DEF Steady
  <2>2. \A z : Ends(link, z)' <=> Ends(link, z)
    BY <1>1 DEF Ends
  <2>3. Ends(link, extail)' <=> Ends(link, extail)
    BY <1>1 DEF Ends
  <2>4. \A t \in Threads : ExAt(t) => ExAt(t)'
    BY <1>1 DEF ExAt, Linking, Ends
  <2> QED
    BY <2>1, <2>3, <2>4 DEF EInv, ExList
<1> QED
  BY <1>2, <1>3, <1>4 DEF EInv

LEMMA Moving ==
  ASSUME Discipline, SInv, EInv, NEW t \in Threads, NEW u \in Tasks,
         Reqrun(u) \/ reqdtsk(t, u) \/ Cancelled(u)
  PROVE  Moves
<1>1. /\ UNCHANGED <<op, arg, dx, thread, lists, walk>>
      /\ u \in Threads /\ pc \in [Threads -> States]
  BY Constants
     DEF Reqrun, Start, Arrive, Released, Slept, reqdtsk, Cancelled, SInv, Types
<1>2. \A v \in Threads : pc[v] \notin {"body", "dead"} => op[v] = "idle"
  BY DEF EInv, Callers
<1>3. CASE Reqrun(u)
  <2>1. \A v \in Threads :
          pc'[v] = pc[v] \/ (pc[v] \notin {"none", "body", "dead"} /\ pc'[v] # "none")
    <3>1. CASE Arrive(u)
      <4> DEFINE W == {v \in Tasks : pc[v] = "barrier"} \cup {u}
                 to == IF Cardinality(W) = Count THEN "released" ELSE "barrier"
      <4>1. /\ pc' = [v \in Threads |-> IF v \notin W THEN pc[v] ELSE to]
            /\ \A v \in W : pc[v] \in {"barrier", "arriving"}
        BY <3>1 DEF Arrive
      <4>2. to # "none"
        OBVIOUS
      <4> HIDE DEF W, to
      <4> QED
        BY <4>1, <4>2
    <3>2. CASE Start(u) \/ Released(u) \/ Slept(u)
      BY <1>1, <3>2 DEF Start, Released, Slept
    <3> QED
      BY <1>3, <3>1, <3>2 DEF Reqrun
  <2> QED
    BY <1>1, <1>2, <2>1 DEF Moves
<1>4. CASE reqdtsk(t, u)
  <2>1. /\ pc' = pc \/ pc' = [pc EXCEPT ![t] = "dead"]
        /\ pc[t] = "body" /\ op[t] = "idle"
    BY <1>4 DEF reqdtsk, Free, At
  <2> QED
    BY <1>1, <2>1 DEF Moves
<1>5. CASE Cancelled(u)
  <2>1. /\ pc' = [pc EXCEPT ![u] = "dead"] /\ pc[u] \in {"sleep", "body"}
        /\ pc[u] = "sleep" \/ op[u] \in {"idle", "setthread"}
    BY <1>5 DEF Cancelled, At
  <2> QED
    BY <1>1, <1>2, <2>1 DEF Moves
<1> QED
  BY <1>3, <1>4, <1>5

-----------------------------------------------------------------------------
LEMMA OneLinker ==
  ASSUME NEW t \in Threads, \A u \in Threads : u # t => op'[u] \notin ExOps,
         ExAt(t)',
         op'[t] \notin {"extail", "exend", "dxtail", "dxset"} => Ends(link, extail)'
  PROVE  ExList'
<1>1. ASSUME NEW u \in Threads PROVE ExAt(u)'
  <2>1. CASE u # t
    <3>1. op'[u] \notin ExOps
      BY <2>1
    <3> QED
      BY <3>1, Ops DEF ExAt
  <2> QED
    BY <2>1
<1>2. Steady' => op'[t] \notin {"extail", "exend", "dxtail", "dxset"}
  BY DEF Steady
<1> QED
  BY <1>1, <1>2 DEF ExList

(* reqcxch and reqdxch begin when no other thread is in one of them.       *)
LEMMA BeginLinking ==
  ASSUME Discipline, SInv, EInv, NEW t \in Threads, NEW e \in Exchanges,
         CreateExchange(t, e) \/ DeleteExchange(t, e)
  PROVE  /\ EInv' /\ op[t] = "idle" /\ op'[t] \in ExOps /\ arg'[t] = e
         /\ \A u \in Threads : u # t => op'[u] = op[u] /\ arg'[u] = arg[u]
         /\ \A u \in Threads : op[u] \notin ExOps
         /\ UNCHANGED <<pc, thread, link, tail, extail, registered, at, seen>>
<1>1. /\ arg' = [arg EXCEPT ![t] = e] /\ Free(t)
      /\ \/ CreateExchange(t, e) /\ op' = [op EXCEPT ![t] = "exlink"]
         \/ DeleteExchange(t, e) /\ op' = [op EXCEPT ![t] = "dxtest"]
      /\ UNCHANGED <<pc, prev, curr, nxt, thread, link, tail, extail, registered,
                     at, seen>>
  BY DEF CreateExchange, DeleteExchange, Goto, lists, walk, dx
<1>2. op[t] = "idle" /\ pc[t] = "body"
  BY <1>1, FreeToBegin
<1>3. /\ \A u \in Threads : op[u] \notin ExOps
      /\ CreateExchange(t, e) => mutex1' = t
  <2>1. CASE CreateExchange(t, e)
    <3>1. In(DxOps) = {} /\ mutex1 = NULL /\ mutex1' = t
      BY <2>1 DEF CreateExchange, Discipline
    <3>2. \A u \in Threads : op[u] \notin DxOps
      BY <1>1, <3>1, FreeToBegin, Ops
    <3>3. \A u \in Threads : op[u] \notin CxOps
      BY <3>1, Constants DEF EInv, Callers
    <3> QED
      BY <3>1, <3>2, <3>3, Ops
  <2>2. CASE DeleteExchange(t, e)
    <3>1. In(CxOps \cup DxOps) = {}
      BY <2>2 DEF DeleteExchange, Discipline
    <3>2. \A u \in Threads : op[u] \notin ExOps
      BY <1>1, <3>1, FreeToBegin, Ops
    <3>3. ~CreateExchange(t, e)
      BY <2>2 DEF CreateExchange, DeleteExchange
    <3> QED
      BY <3>2, <3>3
  <2> QED
    BY <1>1, <2>1, <2>2
<1>4. /\ op'[t] \in ExOps /\ arg'[t] = e
      /\ \A u \in Threads : u # t => op'[u] = op[u] /\ arg'[u] = arg[u]
  BY <1>1, Ops DEF EInv, Fields
<1>5. Fields'
  <2>1. e \in Nodes
    BY Constants
  <2>2. op' \in [Threads -> {"idle"} \cup TaskOps \cup ExOps]
    BY <1>1, <1>4, Ops DEF EInv, Fields
  <2>3. \A u \in Threads : op'[u] \in TaskOps => arg'[u] \in Tasks
    BY <1>4, Ops DEF EInv, Fields
  <2> QED
    BY <1>1, <2>1, <2>2, <2>3 DEF EInv, Fields
<1>6. Callers'
  <2>1. \A u \in Threads :
          op'[u] # "idle" =>
            pc'[u] = "body" \/ (pc'[u] = "dead" /\ op'[u] = "setthread")
    BY <1>1, <1>2, <1>4 DEF EInv, Callers
  <2>2. In(TaskOps)' \subseteq In(TaskOps)
    BY <1>1, <1>4, Ops DEF In
  <2>3. \A u \in Threads : op'[u] \in ExOps => u = t
    BY <1>3, <1>4
  <2>4. op'[t] \in CxOps => mutex1' = t
    <3>1. op'[t] = "exlink" \/ op'[t] = "dxtest"
      BY <1>1 DEF EInv, Fields
    <3>2. op'[t] = "exlink" => CreateExchange(t, e)
      BY <1>1 DEF EInv, Fields
    <3> QED
      BY <1>3, <3>1, <3>2, Ops
  <2> QED
    BY <2>1, <2>2, <2>3, <2>4, Ops DEF EInv, Callers
<1>7. ExList'
  <2>1. Ends(link, extail)
    <3>1. Steady
      BY <1>3, Ops DEF Steady
    <3> QED
      BY <3>1 DEF EInv, ExList
  <2>2. Ends(link, extail)'
    BY <1>1, <2>1 DEF Ends
  <2>3. ExAt(t)'
    <3>1. CASE CreateExchange(t, e) /\ op' = [op EXCEPT ![t] = "exlink"]
      <4>1. op'[t] = "exlink" /\ e \in Exchanges \ registered'
        BY <1>1, <3>1 DEF CreateExchange, EInv, Fields
      <4> QED
        BY <1>4, <4>1, Ops DEF ExAt
    <3>2. CASE DeleteExchange(t, e) /\ op' = [op EXCEPT ![t] = "dxtest"]
      <4>1. op'[t] = "dxtest" /\ e \in registered' \cap Exchanges
        BY <1>1, <3>2 DEF DeleteExchange, EInv, Fields
      <4> QED
        BY <1>4, <4>1, Ops DEF ExAt
    <3> QED
      BY <1>1, <3>1, <3>2
  <2>4. \A u \in Threads : u # t => op'[u] \notin ExOps
    BY <1>3, <1>4
  <2> QED
    BY <2>2, <2>3, <2>4, OneLinker
<1> QED
  BY <1>1, <1>2, <1>3, <1>4, <1>5, <1>6, <1>7 DEF EInv

(* The links of exchanges stay such, whichever of them a step changes.     *)
LEMMA Relinked ==
  ASSUME Discipline, Fields, NEW n \in Exs, NEW m \in Exs \cup {NULL},
         link' = [link EXCEPT ![n] = m]
  PROVE  /\ link' \in [Nodes -> Nodes \cup {NULL}] /\ link'[n] = m
         /\ \A k \in Nodes : k # n => link'[k] = link[k]
         /\ \A k \in Threads : link'[k] = link[k]
         /\ \A k \in Threads : link'[k] \in Threads \cup {NULL}
         /\ \A k \in Exs : link'[k] \in Exs \cup {NULL}
BY Constants DEF Fields

(* reqcxch.                                                                *)
LEMMA ExLinkApart ==
  ASSUME Discipline, EInv, NEW t \in Threads, ExLink(t)
  PROVE  /\ EInv' /\ Ends(link, extail)
         /\ extail \in Nodes /\ extail \notin Threads /\ link'[extail] = arg[t]
         /\ \A n \in Nodes : n # extail => link'[n] = link[n]
         /\ op'[t] = "extail" /\ \A u \in Threads : u # t => op'[u] = op[u]
<1>1. /\ pc[t] = "body" /\ op[t] = "exlink"
      /\ op' = [op EXCEPT ![t] = "extail"]
      /\ link' = [link EXCEPT ![extail] = arg[t]]
      /\ UNCHANGED <<pc, arg, prev, curr, nxt, thread, tail, extail, mutex1,
                     registered, at>>
  BY DEF ExLink, At, Goto, dx, walk
<1>2. op'[t] = "extail" /\ \A u \in Threads : u # t => op'[u] = op[u]
  BY <1>1 DEF EInv, Fields
<1>3. \A u \in Threads : u # t => op[u] \notin ExOps
  BY <1>1, OnlyLinker, Ops
<1>4. arg[t] \in Exchanges \ registered /\ arg[t] \in Exs /\ extail \in Exs
  BY <1>1, Constants DEF EInv, Fields, ExList, ExAt
<1>5. Ends(link, extail)
  <2>1. Steady
    BY <1>1, <1>3, Ops DEF Steady
  <2> QED
    BY <2>1 DEF EInv, ExList
<1>6. /\ link' \in [Nodes -> Nodes \cup {NULL}] /\ link'[extail] = arg[t]
      /\ \A n \in Nodes : n # extail => link'[n] = link[n]
      /\ \A n \in Threads : link'[n] \in Threads \cup {NULL}
      /\ \A n \in Exs : link'[n] \in Exs \cup {NULL}
  BY <1>1, <1>4, Relinked DEF EInv
<1>7. Fields'
  <2>1. op' \in [Threads -> {"idle"} \cup TaskOps \cup ExOps]
    BY <1>1, Ops DEF EInv, Fields
  <2>2. \A u \in Threads : op'[u] \in TaskOps => arg'[u] \in Tasks
    BY <1>1, <1>2, Ops DEF EInv, Fields
  <2> QED
    BY <1>1, <1>6, <2>1, <2>2 DEF EInv, Fields
<1>8. Callers'
  BY <1>1, <1>2, CallersKept, Ops
<1>9. ExList'
  <2>1. [link' EXCEPT ![extail] = NULL] = link
    BY <1>1, <1>5 DEF EInv, Fields, Ends
  <2>2. Linking(t, extail)'
    BY <1>1, <1>4, <1>5, <1>6, <2>1 DEF Linking, Ends
  <2>3. ExAt(t)'
    BY <1>2, <2>2, Ops DEF ExAt
  <2>4. \A u \in Threads : u # t => op'[u] \notin ExOps
    BY <1>2, <1>3
  <2> QED
    BY <1>2, <2>3, <2>4, OneLinker
<1> QED
  BY <1>2, <1>4, <1>5, <1>6, <1>7, <1>8, <1>9, Constants DEF EInv

LEMMA ExTailApart ==
  ASSUME Discipline, EInv, NEW t \in Threads, ExTail(t)
  PROVE  /\ EInv' /\ op[t] = "extail" /\ op'[t] = "exend"
         /\ \A u \in Threads : u # t => op'[u] = op[u]
<1>1. /\ pc[t] = "body" /\ op[t] = "extail"
      /\ op' = [op EXCEPT ![t] = "exend"] /\ extail' = arg[t]
      /\ UNCHANGED <<pc, arg, prev, curr, nxt, thread, link, tail, mutex1,
                     registered, at>>
  BY DEF ExTail, At, Goto, dx, walk
<1>2. op'[t] = "exend" /\ \A u \in Threads : u # t => op'[u] = op[u]
  BY <1>1 DEF EInv, Fields
<1>3. \A u \in Threads : u # t => op[u] \notin ExOps
  BY <1>1, OnlyLinker, Ops
<1>4. Linking(t, extail) /\ arg[t] \in Exs
  BY <1>1, Constants DEF EInv, Fields, ExList, ExAt, Linking
<1>5. Fields'
  <2>1. op' \in [Threads -> {"idle"} \cup TaskOps \cup ExOps]
    BY <1>1, Ops DEF EInv, Fields
  <2>2. \A u \in Threads : op'[u] \in TaskOps => arg'[u] \in Tasks
    BY <1>1, <1>2, Ops DEF EInv, Fields
  <2> QED
    BY <1>1, <1>4, <2>1, <2>2 DEF EInv, Fields
<1>6. Callers'
  BY <1>1, <1>2, CallersKept, Ops
<1>7. ExList'
  <2>1. PICK z \in registered : z = extail
    BY <1>4 DEF Linking, Ends
  <2>2. Linking(t, z)'
    BY <1>1, <1>4, <2>1 DEF Linking, Ends
  <2>3. ExAt(t)'
    BY <1>1, <1>2, <2>2, Ops DEF ExAt
  <2>4. \A u \in Threads : u # t => op'[u] \notin ExOps
    BY <1>2, <1>3
  <2> QED
    BY <1>2, <2>3, <2>4, OneLinker
<1> QED
  BY <1>1, <1>2, <1>5, <1>6, <1>7 DEF EInv

LEMMA ExEndApart ==
  ASSUME Discipline, EInv, NEW t \in Threads, ExEnd(t)
  PROVE  /\ EInv' /\ op[t] = "exend" /\ op'[t] = "idle" /\ link' = Cut(t)
         /\ arg[t] \in Exs
         /\ \A u \in Threads : u # t => op'[u] = op[u] /\ arg'[u] = arg[u]
         /\ \A n \in Threads : link'[n] = link[n]
<1>1. /\ pc[t] = "body" /\ op[t] = "exend"
      /\ op' = [op EXCEPT ![t] = "idle"] /\ arg' = [arg EXCEPT ![t] = NULL]
      /\ prev' = [prev EXCEPT ![t] = NULL] /\ curr' = [curr EXCEPT ![t] = NULL]
      /\ nxt' = [nxt EXCEPT ![t] = NULL]
      /\ link' = [link EXCEPT ![arg[t]] = NULL]
      /\ registered' = registered \cup {arg[t]}
      /\ UNCHANGED <<pc, thread, tail, extail, at>>
  BY DEF ExEnd, At, Goto, Forget, walk
<1>2. /\ op'[t] = "idle"
      /\ \A u \in Threads : u # t => op'[u] = op[u] /\ arg'[u] = arg[u]
  BY <1>1 DEF EInv, Fields
<1>3. \A u \in Threads : u # t => op[u] \notin ExOps
  BY <1>1, OnlyLinker, Ops
<1>4. PICK z \in registered : Linking(t, z)
  BY <1>1 DEF EInv, ExList, ExAt
<1> DEFINE e == arg[t]
           was == [link EXCEPT ![z] = NULL]
<1>5. /\ e \in Exchanges \ registered /\ e \in Exs /\ e \in Nodes /\ extail = e
      /\ link[z] = e /\ Along(was, DelayEx) = registered
      /\ z \in registered /\ z \in Nodes /\ z # e /\ registered \subseteq Nodes
  BY <1>1, <1>4, Constants DEF EInv, Fields, ExList, ExAt, Linking, Ends
<1>6. /\ link' \in [Nodes -> Nodes \cup {NULL}] /\ link'[e] = NULL
      /\ \A n \in Nodes : n # e => link'[n] = link[n]
      /\ \A n \in Threads : link'[n] = link[n]
      /\ \A n \in Threads : link'[n] \in Threads \cup {NULL}
      /\ \A n \in Exs : link'[n] \in Exs \cup {NULL}
  BY <1>1, <1>5, Relinked DEF EInv
<1>7. Fields'
  <2>1. op' \in [Threads -> {"idle"} \cup TaskOps \cup ExOps]
    BY <1>1, Ops DEF EInv, Fields
  <2>2. \A u \in Threads : op'[u] \in TaskOps => arg'[u] \in Tasks
    BY <1>2, Ops DEF EInv, Fields
  <2> QED
    BY <1>1, <1>5, <1>6, <2>1, <2>2 DEF EInv, Fields
<1>8. Callers'
  BY <1>1, <1>2, CallersKept, Ops
<1>9. ExList'
  <2>1. Linked(was) /\ Linked(link') /\ Finite /\ DelayEx \in Nodes
    BY <1>6, Constants DEF EInv, Fields, Linked
  <2>2. /\ was[z] = NULL /\ link'[z] = e
        /\ \A n \in Nodes \ {z} : was[n] = link[n]
    BY <1>5, <1>6 DEF EInv, Fields
  <2> HIDE DEF was
  <2>3. \A m \in Along(was, DelayEx) \ {z} : link'[m] = was[m]
    BY <1>5, <1>6, <2>2
  <2>4. Along(link', DelayEx) = registered \cup {e}
    BY <1>5, <1>6, <2>1, <2>2, <2>3, AlongAppend
  <2>5. Ends(link, extail)'
    BY <1>1, <1>5, <1>6, <2>4 DEF Ends
  <2>6. ExAt(t)'
    BY <1>2, Ops DEF ExAt
  <2>7. \A u \in Threads : u # t => op'[u] \notin ExOps
    BY <1>2, <1>3
  <2> QED
    BY <2>5, <2>6, <2>7, OneLinker
<1> QED
  BY <1>1, <1>2, <1>5, <1>6, <1>7, <1>8, <1>9 DEF EInv, Cut

(* reqdxch: its reads ...                                                  *)
LEMMA DxReads ==
  ASSUME Discipline, EInv, NEW t \in Threads,
         DxTest(t) \/ DxWalk(t) \/ DxStep(t) \/ DxCurr(t) \/ DxNext(t) \/ DxTail(t)
  PROVE  /\ EInv' /\ UNCHANGED <<pc, thread, lists, walk>>
         /\ op[t] \in DxOps /\ op'[t] \in DxOps \cup {"idle"}
         /\ \A u \in Threads : u # t => op'[u] = op[u] /\ arg'[u] = arg[u]
<1>1. /\ pc[t] = "body" /\ op[t] \in DxOps \ {"dxlink", "dxset"}
      /\ UNCHANGED <<pc, thread, lists, walk>>
  BY Ops DEF DxTest, DxWalk, DxStep, DxCurr, DxNext, DxTail, At
<1>2. UNCHANGED <<link, tail, extail, mutex1, registered, at>>
  BY <1>1 DEF lists, walk
<1>3. \A u \in Threads : u # t => op[u] \notin ExOps
  BY <1>1, OnlyLinker, Ops
<1>4. /\ Linked(link) /\ Finite /\ DelayEx \in Nodes /\ DelayEx \in Exs
      /\ registered \subseteq Exs /\ registered \subseteq Nodes
      /\ NULL \notin Nodes
  BY Constants, LinksTyped DEF EInv, Fields
<1>5. ExAt(t) /\ (op[t] # "dxtail" => Ends(link, extail))
  <2>1. op[t] # "dxtail" => Steady
    BY <1>1, <1>3, Ops DEF Steady
  <2> QED
    BY <2>1 DEF EInv, ExList
<1> DEFINE Ended == op' = [op EXCEPT ![t] = "idle"] /\ Forget(t)
           Goes(o) == op' = [op EXCEPT ![t] = o] /\ UNCHANGED arg
<1>6. \A z : Ends(link, z)' <=> Ends(link, z)
  BY <1>2 DEF Ends
<1>7. Ends(link, extail)' <=> Ends(link, extail)
  BY <1>2 DEF Ends
<1>8. ASSUME NEW o \in DxOps, Goes(o), ExAt(t)',
             prev' \in [Threads -> Nodes \cup {NULL}],
             curr' \in [Threads -> Nodes \cup {NULL}],
             nxt' \in [Threads -> Nodes \cup {NULL}],
             o \in {"dxtail", "dxset"} \/ Ends(link, extail)
      PROVE  /\ EInv' /\ op'[t] \in DxOps \cup {"idle"}
             /\ \A u \in Threads : u # t => op'[u] = op[u] /\ arg'[u] = arg[u]
  <2>1. op'[t] = o /\ \A u \in Threads : u # t => op'[u] = op[u] /\ arg'[u] = arg[u]
    BY <1>8 DEF EInv, Fields
  <2>2. Fields'
    <3>1. op' \in [Threads -> {"idle"} \cup TaskOps \cup ExOps]
      BY <1>8, Ops DEF EInv, Fields
    <3>2. \A u \in Threads : op'[u] \in TaskOps => arg'[u] \in Tasks
      BY <1>8, <2>1, Ops DEF EInv, Fields
    <3> QED
      BY <1>1, <1>2, <1>8, <3>1, <3>2 DEF EInv, Fields
  <2>3. Callers'
    BY <1>1, <1>2, <1>8, <2>1, CallersKept, Ops
  <2>4. ExList'
    BY <1>3, <1>7, <1>8, <2>1, OneLinker
  <2> QED
    BY <1>8, <2>1, <2>2, <2>3, <2>4 DEF EInv
<1>9. ASSUME Ended, Ends(link, extail)
      PROVE  /\ EInv' /\ op'[t] \in DxOps \cup {"idle"}
             /\ \A u \in Threads : u # t => op'[u] = op[u] /\ arg'[u] = arg[u]
  <2>1. op'[t] = "idle" /\ \A u \in Threads : u # t => op'[u] = op[u] /\ arg'[u] = arg[u]
    BY <1>9 DEF EInv, Fields, Forget
  <2>2. Fields'
    <3>1. op' \in [Threads -> {"idle"} \cup TaskOps \cup ExOps]
      BY <1>9 DEF EInv, Fields
    <3>2. \A u \in Threads : op'[u] \in TaskOps => arg'[u] \in Tasks
      BY <2>1, Ops DEF EInv, Fields
    <3>3. /\ arg' \in [Threads -> Nodes \cup {NULL}]
          /\ prev' \in [Threads -> Nodes \cup {NULL}]
          /\ curr' \in [Threads -> Nodes \cup {NULL}]
          /\ nxt' \in [Threads -> Nodes \cup {NULL}]
      BY <1>9 DEF EInv, Fields, Forget
    <3> QED
      BY <1>1, <1>2, <3>1, <3>2, <3>3 DEF EInv, Fields
  <2>3. Callers'
    BY <1>1, <1>2, <2>1, CallersKept, Ops
  <2>4. ExAt(t)'
    BY <2>1, Ops DEF ExAt
  <2>5. ExList'
    BY <1>3, <1>7, <1>9, <2>1, <2>4, OneLinker
  <2> QED
    BY <2>1, <2>2, <2>3, <2>5 DEF EInv
<1> HIDE DEF Ended, Goes
<1>10. CASE DxTest(t)
  <2>1. CASE Ended
    BY <1>1, <1>5, <1>9, <1>10, <2>1 DEF DxTest, At
  <2>2. CASE /\ Goes("dxwalk") /\ prev' = [prev EXCEPT ![t] = DelayEx]
             /\ UNCHANGED <<curr, nxt>>
    <3>1. /\ arg[t] \in registered \cap Exchanges /\ Ends(link, extail)
          /\ DelayEx \in registered
      <4>1. op[t] = "dxtest" /\ Ends(link, extail)
        BY <1>5, <1>10 DEF DxTest, At
      <4> QED
        BY <1>4, <1>5, <4>1, AlongFacts, Ops DEF ExAt, Ends
    <3>2. op'[t] = "dxwalk" /\ prev'[t] = DelayEx /\ arg'[t] = arg[t]
      BY <2>2 DEF Goes, EInv, Fields
    <3>3. ExAt(t)'
      BY <1>2, <3>1, <3>2, Ops DEF ExAt
    <3>4. /\ prev' \in [Threads -> Nodes \cup {NULL}]
          /\ curr' \in [Threads -> Nodes \cup {NULL}]
          /\ nxt' \in [Threads -> Nodes \cup {NULL}]
      BY <1>4, <2>2 DEF EInv, Fields
    <3> QED
      BY <1>1, <1>8, <2>2, <3>1, <3>3, <3>4, Ops
  <2> QED
    BY <1>10, <2>1, <2>2 DEF DxTest, Ended, Goes, Goto
<1>11. CASE DxWalk(t)
  <2>0. op[t] = "dxwalk" /\ Ends(link, extail)
    BY <1>5, <1>11 DEF DxWalk, At
  <2>1. CASE Ended
    BY <1>1, <1>9, <2>0, <2>1
  <2>2. CASE /\ Goes(IF link[prev[t]] = arg[t] THEN "dxcurr" ELSE "dxstep")
             /\ prev[t] # NULL /\ UNCHANGED <<prev, curr, nxt>>
    <3> DEFINE o == IF link[prev[t]] = arg[t] THEN "dxcurr" ELSE "dxstep"
    <3>1. arg[t] \in registered \cap Exchanges /\ prev[t] \in registered
      BY <1>5, <2>0, <2>2, Ops DEF ExAt
    <3>2. op'[t] = o /\ arg'[t] = arg[t]
      BY <2>2 DEF Goes, EInv, Fields
    <3>3. ExAt(t)'
      BY <1>2, <2>2, <3>1, <3>2, Ops DEF ExAt
    <3>4. o \in DxOps
      BY Ops
    <3>5. /\ prev' \in [Threads -> Nodes \cup {NULL}]
          /\ curr' \in [Threads -> Nodes \cup {NULL}]
          /\ nxt' \in [Threads -> Nodes \cup {NULL}]
      BY <2>2 DEF EInv, Fields
    <3> HIDE DEF o
    <3>6. Goes(o)
      BY <2>2 DEF o
    <3> QED
      BY <1>1, <1>8, <2>0, <3>3, <3>4, <3>5, <3>6
  <2> QED
    BY <1>11, <2>1, <2>2 DEF DxWalk, Ended, Goes, Goto, dx
<1>12. CASE DxStep(t)
  <2>1. /\ op[t] = "dxstep" /\ Ends(link, extail) /\ Goes("dxwalk")
        /\ prev' = [prev EXCEPT ![t] = link[prev[t]]] /\ UNCHANGED <<curr, nxt>>
    BY <1>5, <1>12 DEF DxStep, At, Goes, Goto
  <2>2. arg[t] \in registered \cap Exchanges /\ prev[t] \in registered
    BY <1>5, <2>1, Ops DEF ExAt
  <2>3. link[prev[t]] \in registered \cup {NULL}
    <3>1. Closed(link, registered)
      BY <1>4, <2>1, AlongFacts DEF Ends
    <3> QED
      BY <1>4, <2>2, <3>1 DEF Closed, Linked
  <2>4. op'[t] = "dxwalk" /\ prev'[t] = link[prev[t]] /\ arg'[t] = arg[t]
    BY <2>1 DEF Goes, EInv, Fields
  <2>5. ExAt(t)'
    BY <1>2, <2>2, <2>3, <2>4, Ops DEF ExAt
  <2>6. /\ prev' \in [Threads -> Nodes \cup {NULL}]
        /\ curr' \in [Threads -> Nodes \cup {NULL}]
        /\ nxt' \in [Threads -> Nodes \cup {NULL}]
    BY <1>4, <2>1, <2>3 DEF EInv, Fields
  <2> QED
    BY <1>1, <1>8, <2>1, <2>5, <2>6, Ops
<1>13. CASE DxCurr(t) \/ DxNext(t)
  <2>1. /\ Ends(link, extail) /\ prev' = prev
        /\ \/ /\ op[t] = "dxcurr" /\ Goes("dxnext") /\ UNCHANGED nxt
              /\ curr' = [curr EXCEPT ![t] = link[prev[t]]]
           \/ /\ op[t] = "dxnext" /\ Goes("dxlink") /\ UNCHANGED curr
              /\ nxt' = [nxt EXCEPT ![t] = link[curr[t]]]
    BY <1>5, <1>13 DEF DxCurr, DxNext, At, Goes, Goto
  <2>2. /\ arg[t] \in registered \cap Exchanges /\ prev[t] \in registered
        /\ link[prev[t]] = arg[t] /\ (op[t] = "dxnext" => curr[t] = arg[t])
    BY <1>5, <2>1, Ops DEF ExAt
  <2>3. arg[t] \in Nodes /\ link[arg[t]] \in Nodes \cup {NULL}
    BY <1>4, <2>2 DEF Linked
  <2>4. /\ arg'[t] = arg[t] /\ prev'[t] = prev[t] /\ curr'[t] = arg[t]
        /\ op'[t] = "dxnext" \/ (op'[t] = "dxlink" /\ nxt'[t] = link[arg[t]])
    BY <2>1, <2>2 DEF Goes, EInv, Fields
  <2>5. ExAt(t)'
    BY <1>2, <2>2, <2>4, Ops DEF ExAt
  <2>6. /\ prev' \in [Threads -> Nodes \cup {NULL}]
        /\ curr' \in [Threads -> Nodes \cup {NULL}]
        /\ nxt' \in [Threads -> Nodes \cup {NULL}]
    BY <2>1, <2>2, <2>3 DEF EInv, Fields
  <2> QED
    BY <1>1, <1>8, <2>1, <2>5, <2>6, Ops
<1>14. CASE DxTail(t)
  <2>0. op[t] = "dxtail" /\ Ends(link, IF extail = curr[t] THEN prev[t] ELSE extail)
    BY <1>5, <1>14, Ops DEF DxTail, At, ExAt
  <2>1. CASE Ended /\ extail # curr[t]
    BY <1>1, <1>9, <2>0, <2>1
  <2>2. CASE Goes("dxset") /\ extail = curr[t] /\ UNCHANGED <<prev, curr, nxt>>
    <3>1. op'[t] = "dxset" /\ prev'[t] = prev[t]
      BY <2>2 DEF Goes, EInv, Fields
    <3>2. Ends(link, prev[t])
      BY <2>0, <2>2
    <3>3. ExAt(t)'
      BY <1>2, <3>1, <3>2, Ops DEF ExAt, Ends
    <3>4. /\ prev' \in [Threads -> Nodes \cup {NULL}]
          /\ curr' \in [Threads -> Nodes \cup {NULL}]
          /\ nxt' \in [Threads -> Nodes \cup {NULL}]
      BY <2>2 DEF EInv, Fields
    <3> QED
      BY <1>1, <1>8, <2>2, <3>3, <3>4, Ops
  <2> QED
    BY <1>14, <2>1, <2>2 DEF DxTail, Ended, Goes, Goto, dx
<1> QED
  BY <1>1, <1>10, <1>11, <1>12, <1>13, <1>14

(* ... the step that takes the exchange from the list ...                  *)
LEMMA DxLinkApart ==
  ASSUME Discipline, EInv, NEW t \in Threads, DxLink(t)
  PROVE  /\ EInv' /\ op[t] = "dxlink" /\ op'[t] = "dxtail"
         /\ \A u \in Threads : u # t => op'[u] = op[u]
         /\ prev[t] \in Nodes /\ arg[t] \in Nodes /\ link[prev[t]] = arg[t]
         /\ link' = [link EXCEPT ![prev[t]] = link[arg[t]]]
         /\ \A n \in Threads : link'[n] = link[n]
<1> DEFINE e == arg[t]
           p == prev[t]
<1>1. /\ pc[t] = "body" /\ op[t] = "dxlink"
      /\ op' = [op EXCEPT ![t] = "dxtail"]
      /\ link' = [link EXCEPT ![p] = nxt[t]]
      /\ registered' = registered \ {e}
      /\ UNCHANGED <<pc, arg, prev, curr, nxt, thread, tail, extail, mutex1, at>>
  BY DEF DxLink, At, Goto, dx
<1>2. op'[t] = "dxtail" /\ \A u \in Threads : u # t => op'[u] = op[u]
  BY <1>1 DEF EInv, Fields
<1>3. \A u \in Threads : u # t => op[u] \notin ExOps
  BY <1>1, OnlyLinker, Ops
<1>4. /\ e \in registered /\ e \in Exchanges /\ p \in registered
      /\ link[p] = e /\ nxt[t] = link[e] /\ curr[t] = e
  BY <1>1, Ops DEF EInv, ExList, ExAt
<1>5. /\ Along(link, DelayEx) = registered
      /\ extail \in registered /\ link[extail] = NULL
  <2>1. Steady
    BY <1>1, <1>3, Ops DEF Steady
  <2> QED
    BY <2>1 DEF EInv, ExList, Ends
<1>6. p \in Exs /\ e \in Exs /\ p \in Nodes /\ e \in Nodes
  BY <1>4, Constants DEF EInv, Fields
<1>7. link' = [link EXCEPT ![p] = link[e]] /\ link[e] \in Exs \cup {NULL}
  BY <1>1, <1>4, <1>6 DEF EInv, Fields
<1>8. /\ link' \in [Nodes -> Nodes \cup {NULL}] /\ link'[p] = link[e]
      /\ \A n \in Nodes : n # p => link'[n] = link[n]
      /\ \A n \in Threads : link'[n] = link[n]
      /\ \A n \in Threads : link'[n] \in Threads \cup {NULL}
      /\ \A n \in Exs : link'[n] \in Exs \cup {NULL}
  <2> HIDE DEF p, e
  <2> QED
    BY <1>6, <1>7, Relinked DEF EInv
<1>9. Fields'
  <2>1. op' \in [Threads -> {"idle"} \cup TaskOps \cup ExOps]
    BY <1>1, Ops DEF EInv, Fields
  <2>2. \A u \in Threads : op'[u] \in TaskOps => arg'[u] \in Tasks
    BY <1>1, <1>2, Ops DEF EInv, Fields
  <2> QED
    BY <1>1, <1>8, <2>1, <2>2 DEF EInv, Fields
<1>10. Callers'
  BY <1>1, <1>2, CallersKept, Ops
<1>11. /\ Linked(link) /\ Linked([link EXCEPT ![p] = link[e]]) /\ Finite
       /\ DelayEx \in Nodes /\ e # DelayEx
  <2>1. Linked(link) /\ Linked(link')
    BY <1>8 DEF EInv, Fields, Linked
  <2> QED
    BY <1>4, <1>7, <2>1, Constants
<1>12. ExList'
  <2>1. Along(link', DelayEx) = registered \ {e}
    <3>1. p \in Along(link, DelayEx) /\ extail \in Along(link, DelayEx)
      BY <1>4, <1>5
    <3> HIDE DEF e, p
    <3>2. Along([link EXCEPT ![p] = link[e]], DelayEx) = Along(link, DelayEx) \ {e}
      BY <1>4, <1>5, <1>6, <1>11, <3>1, AlongRemoves
    <3> QED
      BY <1>5, <1>7, <3>2
  <2>2. p # e
    <3>1. e \notin Along(link, link[e])
      BY <1>4, <1>5, <1>11, AlongAcyclic
    <3>2. e \in Along(link, e)
      BY <1>6, <1>11, AlongFacts
    <3> QED
      BY <1>4, <3>1, <3>2
  <2>3. extail # p
    BY <1>4, <1>5, <1>6, Constants
  <2>4. extail \in Nodes
    BY Constants DEF EInv, Fields
  <2>5. Ends(link, IF extail = curr[t] THEN prev[t] ELSE extail)'
    <3>1. CASE extail = e
      BY <1>1, <1>4, <1>5, <1>8, <2>1, <2>2, <3>1 DEF Ends
    <3>2. CASE extail # e
      BY <1>1, <1>4, <1>5, <1>8, <2>1, <2>3, <2>4, <3>2 DEF Ends
    <3> QED
      BY <3>1, <3>2
  <2>6. ExAt(t)'
    BY <1>2, <2>5, Ops DEF ExAt
  <2>7. \A u \in Threads : u # t => op'[u] \notin ExOps
    BY <1>2, <1>3
  <2> QED
    BY <1>2, <2>6, <2>7, OneLinker
<1> QED
  BY <1>1, <1>2, <1>4, <1>6, <1>7, <1>8, <1>9, <1>10, <1>12 DEF EInv

(* ... and that of rq_exchange_tail.                                       *)
LEMMA DxSetApart ==
  ASSUME Discipline, EInv, NEW t \in Threads, DxSet(t)
  PROVE  /\ EInv' /\ op[t] = "dxset" /\ op'[t] = "idle"
         /\ \A u \in Threads : u # t => op'[u] = op[u] /\ arg'[u] = arg[u]
<1>1. /\ pc[t] = "body" /\ op[t] = "dxset"
      /\ op' = [op EXCEPT ![t] = "idle"] /\ arg' = [arg EXCEPT ![t] = NULL]
      /\ prev' = [prev EXCEPT ![t] = NULL] /\ curr' = [curr EXCEPT ![t] = NULL]
      /\ nxt' = [nxt EXCEPT ![t] = NULL] /\ extail' = prev[t]
      /\ UNCHANGED <<pc, thread, link, tail, mutex1, registered, at>>
  BY DEF DxSet, At, Goto, Forget, walk
<1>2. /\ op'[t] = "idle"
      /\ \A u \in Threads : u # t => op'[u] = op[u] /\ arg'[u] = arg[u]
  BY <1>1 DEF EInv, Fields
<1>3. \A u \in Threads : u # t => op[u] \notin ExOps
  BY <1>1, OnlyLinker, Ops
<1>4. Ends(link, prev[t])
  BY <1>1, Ops DEF EInv, ExList, ExAt
<1>5. Fields'
  <2>1. op' \in [Threads -> {"idle"} \cup TaskOps \cup ExOps]
    BY <1>1 DEF EInv, Fields
  <2>2. \A u \in Threads : op'[u] \in TaskOps => arg'[u] \in Tasks
    BY <1>2, Ops DEF EInv, Fields
  <2>3. extail' \in Exs
    BY <1>1, <1>4 DEF Ends, EInv, Fields
  <2> QED
    BY <1>1, <2>1, <2>2, <2>3 DEF EInv, Fields
<1>6. Callers'
  BY <1>1, <1>2, CallersKept, Ops
<1>7. ExList'
  <2>1. Ends(link, extail)'
    BY <1>1, <1>4 DEF Ends
  <2>2. ExAt(t)'
    BY <1>2, Ops DEF ExAt
  <2>3. \A u \in Threads : u # t => op'[u] \notin ExOps
    BY <1>2, <1>3
  <2> QED
    BY <2>1, <2>2, <2>3, OneLinker
<1> QED
  BY <1>1, <1>2, <1>5, <1>6, <1>7 DEF EInv

(* The displays read.                                                      *)
LEMMA WalksApart ==
  ASSUME EInv, at' \in Nodes \cup {NULL},
         UNCHANGED <<pc, op, arg, dx, thread, lists>>
  PROVE  EInv'
<1>1. UNCHANGED <<prev, curr, nxt, link, tail, extail, mutex1, registered>>
  BY DEF lists, dx
<1>2. Fields'
  BY <1>1 DEF EInv, Fields
<1>3. Callers'
  BY <1>1 DEF EInv, Callers, In
<1>4. ExList'
  <2>1. Steady' <=> Steady
    BY <1>1 DEF Steady
  <2>2. Ends(link, extail)' <=> Ends(link, extail)
    BY <1>1 DEF Ends
  <2>3. \A t \in Threads : ExAt(t) => ExAt(t)'
    BY <1>1 DEF ExAt, Linking, Ends
  <2> QED
    BY <2>1, <2>2, <2>3 DEF EInv, ExList
<1> QED
  BY <1>2, <1>3, <1>4 DEF EInv

LEMMA WalkTyped ==
  ASSUME Discipline, EInv, display_task_list \/ display_exchange_list \/ Walk
  PROVE  at' \in Nodes \cup {NULL} /\ UNCHANGED <<pc, op, arg, dx, thread, lists>>
BY Constants
   DEF display_task_list, display_exchange_list, Begin, Walk, EInv, Fields

LEMMA InitExchanges ==
  ASSUME Discipline, Init
  PROVE  EInv
<1>1. /\ pc = [t \in Threads |-> IF t = Root THEN "body" ELSE "none"]
      /\ op = [t \in Threads |-> "idle"] /\ arg = [t \in Threads |-> NULL]
      /\ prev = [t \in Threads |-> NULL] /\ curr = [t \in Threads |-> NULL]
      /\ nxt = [t \in Threads |-> NULL]
      /\ thread = {Root} /\ link = [n \in Nodes |-> NULL]
      /\ tail = Root /\ extail = DelayEx /\ registered = {DelayEx}
      /\ at = NULL
  BY DEF Init
<1>2. Fields
  BY <1>1, Constants, Ops DEF Fields
<1>3. Callers
  BY <1>1, Ops DEF Callers, In
<1>4. Linked(link) /\ Finite /\ DelayEx \in Nodes
  BY <1>2, Constants DEF Fields, Linked
<1>5. Along(link, DelayEx) = {DelayEx}
  <2>1. Closed(link, {DelayEx})
    BY <1>1, Constants DEF Closed
  <2> QED
    BY <1>4, <2>1, AlongFacts
<1>6. Ends(link, extail)
  BY <1>1, <1>4, <1>5 DEF Ends
<1>7. \A t \in Threads : op[t] \notin ExOps
  BY <1>1, Ops
<1>8. ExList
  BY <1>6, <1>7, Ops DEF ExList, ExAt
<1> QED
  BY <1>2, <1>3, <1>8 DEF EInv

LEMMA ExchangesStep ==
  ASSUME Discipline, SInv, EInv, [Next]_vars
  PROVE  EInv'
<1>1. CASE UNCHANGED vars
  <2>1. UNCHANGED <<pc, op, arg, dx, thread, lists, at>>
    BY <1>1 DEF vars, walk
  <2>2. at' \in Nodes \cup {NULL}
    BY <2>1 DEF EInv, Fields
  <2> QED
    BY <2>1, <2>2, WalksApart
<1>2. ASSUME NEW t \in Threads, Going(t) PROVE EInv'
  BY <1>2, TaskStepsApart, ExLinkApart, ExTailApart, ExEndApart, DxReads,
     DxLinkApart, DxSetApart DEF Going
<1>3. ASSUME NEW t \in Threads, NEW u \in Tasks, Create(t, u) PROVE EInv'
  BY <1>3, CreateApart
<1>4. ASSUME NEW t \in Threads, NEW u \in Tasks,
             Reqrun(u) \/ reqdtsk(t, u) \/ Cancelled(u)
      PROVE  EInv'
  BY <1>4, Moving, MovesApart
<1>5. ASSUME NEW t \in Threads, NEW e \in Exchanges,
             CreateExchange(t, e) \/ DeleteExchange(t, e)
      PROVE  EInv'
  BY <1>5, BeginLinking
<1>6. CASE display_task_list \/ display_exchange_list \/ Walk
  BY <1>6, WalkTyped, WalksApart
<1>7. CASE Skip
  <2>1. UNCHANGED <<pc, op, arg, dx, thread, lists, walk>>
    BY <1>7 DEF Skip
  <2>2. at' \in Nodes \cup {NULL}
    BY <2>1 DEF walk, EInv, Fields
  <2> QED
    BY <2>1, <2>2, WalksApart
<1>8. ASSUME NEW u \in Tasks, Reqrun(u) \/ Cancelled(u) PROVE EInv'
  BY <1>4, <1>8, Constants
<1> QED
  BY <1>1, <1>2, <1>3, <1>4, <1>5, <1>6, <1>7, <1>8 DEF Next

LEMMA ExchangesInvariant ==
  ASSUME Discipline
  PROVE  Spec => [](SInv /\ EInv)
<1>1. Init => SInv /\ EInv
  BY InitExchanges, InitStarted
<1>2. SInv /\ EInv /\ [Next]_vars => (SInv /\ EInv)'
  BY ExchangesStep, NextSafe, TaskTableAssumption
<1> QED
  BY <1>1, <1>2, PTL DEF Spec

LEMMA ExchangesEnd ==
  ASSUME EInv
  PROVE  ExchangesSound
<1> SUFFICES ASSUME In(CxOps \cup DxOps) = {} PROVE Ends(link, extail)
  BY DEF ExchangesSound, Ends, Reach
<1>1. \A t \in Threads : op[t] \notin ExOps
  BY Ops DEF EInv, Callers, In
<1>2. Steady
  BY <1>1, Ops DEF Steady
<1> QED
  BY <1>2 DEF EInv, ExList

(* Whichever tasks create exchanges at once, and create and delete tasks:  *)
(* when no call of reqcxch or reqdxch is under way, the list of exchanges  *)
(* holds those created and not removed, and rq_exchange_tail is its last   *)
(* (reqcxch and reqdxch, ycore.c:774-785, 855-882).                        *)
THEOREM ExchangesStaySound ==
  ASSUME Serial, IsFiniteSet(Nodes)
  PROVE  Spec => []ExchangesSound
<1>1. Discipline
  BY DEF Discipline
<1> QED
  BY <1>1, ExchangesInvariant, ExchangesEnd, PTL

-----------------------------------------------------------------------------
(* The list of tasks, when descriptors are not used again, and the         *)
(* displays.                                                               *)
Once == Discipline /\ ~Recreate

(* The list of tasks is as before, when the step is about exchanges.       *)
LEMMA TasksKept ==
  ASSUME Discipline, EInv, Births, TaskList, UNCHANGED <<pc, thread, tail>>,
         link' \in [Nodes -> Nodes \cup {NULL}],
         \A n \in Threads : link'[n] = link[n],
         \A t \in Threads :
           op[t] \in TaskOps \/ op'[t] \in TaskOps =>
             op'[t] = op[t] /\ arg'[t] = arg[t]
  PROVE  Births' /\ TaskList'
<1>1. Linked(link) /\ Linked(link')
  BY DEF EInv, Fields, Linked
<1>2. Reach(Root) \subseteq Threads
  BY LinksTyped DEF EInv
<1>3. Reach(Root)' = Reach(Root)
  BY <1>1, <1>2, AlongSame, Constants DEF Reach
<1>4. Births'
  <2>1. \A t \in Threads :
          op'[t] \in TaskOps => op[t] = op'[t] /\ arg'[t] = arg[t]
    OBVIOUS
  <2>2. \A t \in Threads : op'[t] \in TaskOps => pc'[arg'[t]] # "none"
    BY <2>1 DEF Births
  <2>3. \A t \in Threads : op'[t] = "linktail" => arg'[t] \in thread'
    BY <2>1 DEF Births, TaskOps
  <2>4. \A t, u \in Threads :
          op'[t] \in TaskOps /\ op'[u] \in TaskOps /\ arg'[t] = arg'[u] => t = u
    BY <2>1 DEF Births
  <2> QED
    BY <2>2, <2>3, <2>4 DEF Births
<1>5. \A u \in Tasks : Outside(u)' <=> Outside(u)
  BY DEF Outside, TaskOps
<1>6. tail \in Threads /\ \A u \in Tasks : u \in Threads
  BY Constants DEF EInv, Fields
<1>7. \A u \in Tasks :
        /\ Outside(u)' => u \notin Reach(Root)' /\ link'[u] = NULL
        /\ ~Outside(u)' => u \in Reach(Root)' /\ u \in thread'
  BY <1>3, <1>5, <1>6 DEF TaskList
<1>8. (\A t \in Threads : op'[t] # "settail") => link'[tail'] = NULL
  BY <1>6 DEF TaskList, TaskOps
<1>9. ASSUME NEW t \in Threads, op'[t] = "settail"
      PROVE  link'[tail'] = arg'[t] /\ link'[arg'[t]] = NULL
  <2>1. op[t] = "settail" /\ arg'[t] = arg[t]
    BY <1>9 DEF TaskOps
  <2>2. arg[t] \in Threads
    BY <2>1, <1>6 DEF EInv, Fields, TaskOps
  <2> QED
    BY <1>6, <2>1, <2>2 DEF TaskList
<1>10. \A t \in Threads : op'[t] = "endlist" => tail' = arg'[t]
  BY DEF TaskList, TaskOps
<1> QED
  BY <1>3, <1>4, <1>7, <1>8, <1>9, <1>10 DEF TaskList

(* What a display owes is as before, when the links of exchanges are, and  *)
(* those of tasks grow.                                                    *)
LEMMA ShownKept ==
  ASSUME Discipline, EInv, EInv', Shown, UNCHANGED <<at, seen, due>>,
         \A n \in Exs : link'[n] = link[n],
         Reach(at) \subseteq Reach(at)',
         \A t \in Threads :
           /\ op'[t] \in CxOps => op[t] \in CxOps /\ arg'[t] = arg[t]
           /\ op'[t] = "exlink" => op[t] = "exlink"
           /\ op'[t] \in {"extail", "exend"} => op[t] \in {"extail", "exend"}
  PROVE  Shown'
<1>1. due' \subseteq seen' \cup Reach(at)'
  BY DEF Shown
<1>2. ASSUME at \in Exs, NEW t \in Threads
      PROVE  /\ op'[t] = "exlink" => due' = {} \/ arg'[t] \notin Reach(at)'
             /\ op'[t] \in {"extail", "exend"} =>
                  due' \subseteq seen' \cup Along(Cut(t)', at')
  <2>1. /\ Linked(link) /\ Linked(link') /\ Reach(at) \subseteq Exs /\ at \in Nodes
        /\ Finite /\ at \in Nodes \cup {NULL} /\ Exs \subseteq Nodes
        /\ Linked(Cut(t)) /\ Linked(Cut(t)')
    BY <1>2, LinksTyped, Constants DEF EInv, Fields, Linked, Cut
  <2>2. Reach(at)' = Reach(at)
    BY <2>1, AlongSame DEF Reach
  <2>3. op'[t] \in {"extail", "exend"} => Along(Cut(t)', at') = Along(Cut(t), at)
    <3> SUFFICES ASSUME op'[t] \in {"extail", "exend"}
                 PROVE  Along(Cut(t)', at) = Along(Cut(t), at)
      OBVIOUS
    <3>1. arg'[t] = arg[t] /\ arg[t] \in Nodes \cup {NULL}
      BY Ops DEF EInv, Fields
    <3>2. \A n \in Exs : Cut(t)[n] \in Exs \cup {NULL} /\ Cut(t)'[n] = Cut(t)[n]
      BY <2>1, <3>1 DEF Cut, Linked, EInv, Fields
    <3>3. Along(Cut(t), at) \subseteq Exs
      BY <1>2, <2>1, <3>2, Apart
    <3> QED
      BY <2>1, <3>2, <3>3, AlongSame
  <2>4. op'[t] = "exlink" => arg'[t] = arg[t]
    BY Ops
  <2> QED
    BY <1>2, <2>2, <2>3, <2>4 DEF Shown
<1> QED
  BY <1>1, <1>2 DEF Shown

(* Nothing is owed otherwise when no link changes.                         *)
LEMMA ShownSame ==
  ASSUME Shown, UNCHANGED <<link, at, seen, due>>,
         \A t \in Threads :
           /\ op'[t] = "exlink" => op[t] = "exlink" /\ arg'[t] = arg[t]
           /\ op'[t] \in {"extail", "exend"} =>
                op[t] \in {"extail", "exend"} /\ arg'[t] = arg[t]
  PROVE  Shown'
BY DEF Shown, Reach, Cut

(* reqctsk: the thread of the new task is in its descriptor ...            *)
LEMMA SetThreadStep ==
  ASSUME Discipline, EInv, TInv, NEW t \in Threads, SetThread(t)
  PROVE  TInv'
<1>1. /\ pc[t] = "body" /\ op[t] = "setthread"
      /\ op' = [op EXCEPT ![t] = "linktail"] /\ thread' = thread \cup {arg[t]}
      /\ UNCHANGED <<pc, arg, link, tail, at, seen, due>>
  BY DEF SetThread, At, Goto, lists, walk
<1>2. op'[t] = "linktail" /\ \A u \in Threads : u # t => op'[u] = op[u]
  BY <1>1 DEF EInv, Fields
<1>3. \A u \in Threads : u # t /\ op[u] \in TaskOps => op[u] = "setthread"
  BY <1>1, OnlyCreator DEF TaskOps
<1>4. Births'
  BY <1>1, <1>2 DEF TInv, Births, TaskOps
<1>5. \A u \in Tasks : Outside(u)' <=> Outside(u)
  BY <1>1, <1>2 DEF Outside
<1>6. \A u \in Threads : /\ op'[u] \notin {"settail", "endlist"}
                         /\ op[u] \notin {"settail", "endlist"}
  BY <1>1, <1>2, <1>3 DEF TaskOps
<1>7. TaskList'
  <2>1. Reach(Root)' = Reach(Root)
    BY <1>1 DEF Reach
  <2> QED
    BY <1>1, <1>5, <1>6, <2>1 DEF TInv, TaskList
<1>8. Shown'
  BY <1>1, <1>2, ShownSame DEF TInv
<1> QED
  BY <1>4, <1>7, <1>8 DEF TInv

(* ... and the task is linked to the last one.                             *)
LEMMA LinkTailStep ==
  ASSUME Discipline, EInv, EInv', TInv, NEW t \in Threads, LinkTail(t)
  PROVE  TInv'
<1>1. /\ pc[t] = "body" /\ op[t] = "linktail"
      /\ op' = [op EXCEPT ![t] = "settail"] /\ link' = [link EXCEPT ![tail] = arg[t]]
      /\ UNCHANGED <<pc, arg, thread, tail, extail, registered, at, seen, due>>
  BY DEF LinkTail, At, Goto, walk
<1>2. op'[t] = "settail" /\ \A u \in Threads : u # t => op'[u] = op[u]
  BY <1>1 DEF EInv, Fields
<1> DEFINE u == arg[t]
<1>3. u \in Tasks /\ u \in Threads /\ u \in Nodes /\ pc[u] # "none" /\ u \in thread
  BY <1>1, Constants DEF EInv, Fields, TInv, Births, TaskOps
<1>4. tail \in Threads /\ tail \in Nodes /\ tail \notin Exs
  BY Constants DEF EInv, Fields
<1>5. /\ link'[tail] = u
      /\ \A n \in Nodes : n # tail => link'[n] = link[n]
  BY <1>1, <1>4 DEF EInv, Fields
<1>6. \A v \in Threads : v # t /\ op[v] \in TaskOps => op[v] = "setthread"
  BY <1>1, OnlyCreator DEF TaskOps
<1>7. Births'
  BY <1>1, <1>2, <1>6 DEF TInv, Births, TaskOps
<1>8. /\ \A v \in Tasks : v # u => (Outside(v)' <=> Outside(v))
      /\ ~Outside(u)' /\ Outside(u)
  <2>1. \A v \in Tasks : v # u => (Outside(v)' <=> Outside(v))
    BY <1>1, <1>2 DEF Outside
  <2>2. Outside(u)
    BY <1>1 DEF Outside
  <2>3. \A v \in Threads : v # t => ~(op[v] \in TaskOps /\ arg[v] = u)
    BY <1>1 DEF TInv, Births, TaskOps
  <2>4. ~Outside(u)'
    BY <1>1, <1>2, <1>3, <2>3 DEF Outside, TaskOps
  <2> QED
    BY <2>1, <2>2, <2>4
<1>9. /\ tail \in Reach(Root) /\ link[tail] = NULL
      /\ u \notin Reach(Root) /\ link[u] = NULL
  <2>1. link[tail] = NULL
    BY <1>1, <1>6 DEF TInv, TaskList, TaskOps
  <2> QED
    BY <1>3, <1>8, <2>1 DEF TInv, TaskList
<1>10. Linked(link) /\ Linked(link')
  BY DEF EInv, Fields, Linked
<1>11. link'[u] = NULL
  BY <1>3, <1>5, <1>9
<1>12. Reach(Root)' = Reach(Root) \cup {u}
  <2>1. Reach(Root) \subseteq Nodes /\ Root \in Nodes /\ Finite
    BY LinksTyped, Constants DEF EInv
  <2>2. \A m \in Along(link, Root) \ {tail} : link'[m] = link[m]
    BY <1>5, <2>1 DEF Reach
  <2>3. Along(link', Root) = Along(link, Root) \cup {u}
    BY <1>3, <1>5, <1>9, <1>10, <1>11, <2>1, <2>2, AlongAppend DEF Reach
  <2> QED
    BY <2>3 DEF Reach
<1>13. TaskList'
  <2>1. ASSUME NEW v \in Tasks
        PROVE  /\ Outside(v)' => v \notin Reach(Root)' /\ link'[v] = NULL
               /\ ~Outside(v)' => v \in Reach(Root)' /\ v \in thread'
    <3>1. CASE v = u
      BY <1>1, <1>3, <1>8, <1>12, <3>1
    <3>2. CASE v # u /\ Outside(v)
      <4>1. v \notin Reach(Root) /\ link[v] = NULL
        BY <3>2 DEF TInv, TaskList
      <4>2. v # tail /\ v \in Nodes
        BY <1>9, <4>1, Constants
      <4> QED
        BY <1>5, <1>8, <1>12, <3>2, <4>1, <4>2
    <3>3. CASE v # u /\ ~Outside(v)
      <4>1. v \in Reach(Root) /\ v \in thread
        BY <3>3 DEF TInv, TaskList
      <4> QED
        BY <1>1, <1>8, <1>12, <3>3, <4>1
    <3> QED
      BY <3>1, <3>2, <3>3
  <2>2. \A v \in Threads : v # t => op'[v] \notin {"settail", "endlist"}
    BY <1>2, <1>6 DEF TaskOps
  <2> QED
    BY <1>1, <1>2, <1>5, <1>9, <1>11, <1>12, <2>1, <2>2 DEF TaskList
<1>14. Shown'
  <2>1. at \in Nodes \cup {NULL} /\ Finite
    BY Constants DEF EInv, Fields
  <2>2. Along(link, at) \subseteq Nodes
    BY <1>10, <2>1, AlongFacts
  <2>3. \A m \in Along(link, at) \ {tail} : link'[m] = link[m]
    BY <1>5, <2>2
  <2>4. Along(link, at) \subseteq Along(link', at)
    BY <1>9, <1>10, <2>1, <2>3, AlongGrows
  <2>5. Reach(at) \subseteq Reach(at)'
    BY <1>1, <2>4 DEF Reach
  <2>6. \A n \in Exs : link'[n] = link[n]
    BY <1>4, <1>5, Constants
  <2>7. \A v \in Threads :
          /\ op'[v] \in CxOps => op[v] \in CxOps /\ arg'[v] = arg[v]
          /\ op'[v] = "exlink" => op[v] = "exlink"
          /\ op'[v] \in {"extail", "exend"} => op[v] \in {"extail", "exend"}
    BY <1>1, <1>2, Ops
  <2> QED
    BY <1>1, <2>5, <2>6, <2>7, ShownKept DEF TInv
<1> QED
  BY <1>7, <1>13, <1>14 DEF TInv

LEMMA SetTailStep ==
  ASSUME Discipline, EInv, TInv, NEW t \in Threads, SetTail(t)
  PROVE  TInv'
<1>1. /\ pc[t] = "body" /\ op[t] = "settail"
      /\ op' = [op EXCEPT ![t] = "endlist"] /\ tail' = arg[t]
      /\ UNCHANGED <<pc, arg, thread, link, at, seen, due>>
  BY DEF SetTail, At, Goto, walk
<1>2. op'[t] = "endlist" /\ \A u \in Threads : u # t => op'[u] = op[u]
  BY <1>1 DEF EInv, Fields
<1>3. arg[t] \in Tasks /\ arg[t] \in Threads /\ pc[arg[t]] # "none"
  BY <1>1, Constants DEF EInv, Fields, TInv, Births, TaskOps
<1>4. \A u \in Threads : u # t /\ op[u] \in TaskOps => op[u] = "setthread"
  BY <1>1, OnlyCreator DEF TaskOps
<1>5. Births'
  BY <1>1, <1>2, <1>4 DEF TInv, Births, TaskOps
<1>6. \A u \in Tasks : Outside(u)' <=> Outside(u)
  BY <1>1, <1>2 DEF Outside
<1>7. ~Outside(arg[t])
  <2>1. \A u \in Threads : u # t => ~(op[u] \in TaskOps /\ arg[u] = arg[t])
    BY <1>1 DEF TInv, Births, TaskOps
  <2> QED
    BY <1>1, <1>3, <2>1 DEF Outside, TaskOps
<1>8. Reach(Root)' = Reach(Root)
  BY <1>1 DEF Reach
<1>9. /\ \A u \in Threads : op'[u] # "settail"
      /\ \A u \in Threads : op'[u] = "endlist" => u = t
  BY <1>1, <1>2, <1>4 DEF TaskOps
<1>10. TaskList'
  <2>1. arg[t] \in Reach(Root) /\ link[arg[t]] = NULL
    BY <1>1, <1>3, <1>7 DEF TInv, TaskList
  <2>2. \A u \in Tasks :
          /\ Outside(u)' => u \notin Reach(Root)' /\ link'[u] = NULL
          /\ ~Outside(u)' => u \in Reach(Root)' /\ u \in thread'
    BY <1>1, <1>6, <1>8 DEF TInv, TaskList
  <2> QED
    BY <1>1, <1>8, <1>9, <2>1, <2>2 DEF TaskList
<1>11. Shown'
  BY <1>1, <1>2, ShownSame DEF TInv
<1> QED
  BY <1>5, <1>10, <1>11 DEF TInv

LEMMA EndListStep ==
  ASSUME Discipline, EInv, TInv, NEW t \in Threads, EndList(t)
  PROVE  TInv'
<1>1. /\ pc[t] = "body" /\ op[t] = "endlist"
      /\ op' = [op EXCEPT ![t] = "idle"] /\ arg' = [arg EXCEPT ![t] = NULL]
      /\ link' = [link EXCEPT ![arg[t]] = NULL]
      /\ UNCHANGED <<pc, thread, tail, at, seen, due>>
  BY DEF EndList, At, Goto, Forget, walk
<1>2. /\ op'[t] = "idle"
      /\ \A u \in Threads : u # t => op'[u] = op[u] /\ arg'[u] = arg[u]
  BY <1>1 DEF EInv, Fields
<1>3. \A u \in Threads : u # t /\ op[u] \in TaskOps => op[u] = "setthread"
  BY <1>1, OnlyCreator DEF TaskOps
<1>4. \A u \in Threads : /\ op'[u] \notin {"settail", "endlist"}
                         /\ op[u] # "settail"
  BY <1>1, <1>2, <1>3 DEF TaskOps
<1>5. link' = link /\ link[tail] = NULL
  <2>1. tail = arg[t] /\ link[tail] = NULL
    BY <1>1, <1>4 DEF TInv, TaskList
  <2> QED
    BY <1>1, <2>1 DEF EInv, Fields
<1>6. Births'
  <2>1. \A u \in Threads : op'[u] \in TaskOps => u # t
    BY <1>2, Ops
  <2> QED
    BY <1>1, <1>2, <2>1 DEF TInv, Births, TaskOps
<1>7. \A u \in Tasks : Outside(u)' <=> Outside(u)
  BY <1>1, <1>2 DEF Outside
<1>8. Reach(Root)' = Reach(Root)
  BY <1>5 DEF Reach
<1>9. TaskList'
  <2>1. \A u \in Tasks :
          /\ Outside(u)' => u \notin Reach(Root)' /\ link'[u] = NULL
          /\ ~Outside(u)' => u \in Reach(Root)' /\ u \in thread'
    BY <1>1, <1>5, <1>7, <1>8 DEF TInv, TaskList
  <2>2. tail' \in Reach(Root)'
    BY <1>1, <1>8 DEF TInv, TaskList
  <2> QED
    BY <1>1, <1>4, <1>5, <2>1, <2>2 DEF TaskList
<1>10. Shown'
  BY <1>1, <1>2, <1>5, ShownSame DEF TInv
<1> QED
  BY <1>6, <1>9, <1>10 DEF TInv

(* A task is created that never was before, by a thread that is alone.     *)
LEMMA CreateStep ==
  ASSUME Once, SInv, EInv, TInv, NEW t \in Threads, NEW u \in Tasks,
         Create(t, u)
  PROVE  TInv'
<1> USE DEF Once
<1>1. /\ pc' = [pc EXCEPT ![u] = "new"] /\ thread' = thread \ {u}
      /\ UNCHANGED <<link, tail, at, seen, due>>
  BY DEF Create, lists, walk
<1>2. /\ pc[u] = "none" /\ pc[t] = "body" /\ op[t] = "idle" /\ t # u
      /\ op'[t] = "setthread" /\ arg'[t] = u /\ op'[u] = "idle"
      /\ \A v \in Threads : v \notin {t, u} => op'[v] = op[v]
      /\ \A v \in Threads : v # t => arg'[v] = arg[v]
      /\ \A v \in Threads : op[v] \in TaskOps => op[v] = "setthread"
  BY CreateApart
<1>3. op[u] = "idle" /\ u \in Threads
  BY <1>2, Constants DEF EInv, Callers
<1>4. /\ \A v \in Threads : v # t => op'[v] = op[v]
      /\ pc'[u] = "new" /\ \A v \in Threads : v # u => pc'[v] = pc[v]
  BY <1>1, <1>2, <1>3 DEF SInv, Types
<1>5. \A v \in Threads : op[v] \in TaskOps => arg[v] # u /\ v # t
  BY <1>2, Ops DEF TInv, Births
<1>6. Births'
  <2>1. ASSUME NEW v \in Threads, op'[v] \in TaskOps
        PROVE  pc'[arg'[v]] # "none"
    <3>1. CASE v = t
      BY <1>2, <1>4, <3>1
    <3>2. CASE v # t
      <4>1. arg[v] \in Tasks /\ pc[arg[v]] # "none" /\ arg[v] # u
        BY <1>4, <1>5, <2>1, <3>2 DEF EInv, Fields, TInv, Births
      <4> QED
        BY <1>2, <1>4, <3>2, <4>1, Constants
    <3> QED
      BY <3>1, <3>2
  <2>2. \A v \in Threads : op'[v] # "linktail"
    <3>1. "linktail" \in TaskOps
      BY DEF TaskOps
    <3> QED
      BY <1>2, <1>4, <3>1
  <2>3. ASSUME NEW v \in Threads, NEW w \in Threads, op'[v] \in TaskOps,
               op'[w] \in TaskOps, arg'[v] = arg'[w]
        PROVE  v = w
    BY <1>2, <1>4, <1>5, <2>3 DEF TInv, Births
  <2> QED
    BY <2>1, <2>2, <2>3 DEF Births
<1>7. \A v \in Tasks : Outside(v)' <=> Outside(v)
  <2>1. Outside(u) /\ Outside(u)'
    BY <1>2 DEF Outside
  <2>2. ASSUME NEW v \in Tasks, v # u PROVE Outside(v)' <=> Outside(v)
    <3>1. pc'[v] = pc[v]
      BY <1>4, <2>2, Constants
    <3>2. ASSUME NEW w \in Threads
          PROVE  (arg'[w] = v /\ op'[w] \in {"setthread", "linktail"})
                   <=> (arg[w] = v /\ op[w] \in {"setthread", "linktail"})
      BY <1>2, <1>4, <2>2
    <3> QED
      BY <3>1, <3>2 DEF Outside
  <2> QED
    BY <2>1, <2>2
<1>8. Reach(Root)' = Reach(Root)
  BY <1>1 DEF Reach
<1>9. \A v \in Threads : /\ op'[v] \notin {"settail", "endlist"}
                         /\ op[v] \notin {"settail", "endlist"}
  BY <1>2, <1>4 DEF TaskOps
<1>10. TaskList'
  <2>1. ASSUME NEW v \in Tasks
        PROVE  /\ Outside(v)' => v \notin Reach(Root)' /\ link'[v] = NULL
               /\ ~Outside(v)' => v \in Reach(Root)' /\ v \in thread'
    <3>1. ~Outside(v) => v # u
      BY <1>2 DEF Outside
    <3> QED
      BY <1>1, <1>7, <1>8, <3>1 DEF TInv, TaskList
  <2> QED
    BY <1>1, <1>8, <1>9, <2>1 DEF TInv, TaskList
<1>11. Shown'
  <2>1. \A v \in Threads : op'[v] \in CxOps => op'[v] = op[v] /\ arg'[v] = arg[v]
    BY <1>2, <1>4, Ops
  <2> QED
    BY <1>1, <2>1, ShownSame, Ops DEF TInv
<1> QED
  BY <1>6, <1>10, <1>11 DEF TInv

LEMMA MovesStep ==
  ASSUME Discipline, SInv, EInv, TInv, Moves
  PROVE  TInv'
<1>1. UNCHANGED <<op, arg, thread, link, tail, at, seen, due>>
  BY DEF lists, walk, Moves
<1>2. \A t \in Threads : pc'[t] = "none" <=> pc[t] = "none"
  BY DEF Moves
<1>3. \A u \in Tasks : pc'[u] = "none" <=> pc[u] = "none"
  BY <1>2, Constants
<1>4. Births'
  <2>1. \A t \in Threads : op'[t] \in TaskOps => pc'[arg'[t]] # "none"
    BY <1>1, <1>3 DEF TInv, Births, EInv, Fields
  <2> QED
    BY <1>1, <2>1 DEF TInv, Births
<1>5. \A u \in Tasks : Outside(u)' <=> Outside(u)
  BY <1>1, <1>3 DEF Outside
<1>6. Reach(Root)' = Reach(Root) /\ Reach(at)' = Reach(at)
  BY <1>1 DEF Reach
<1>7. TaskList'
  BY <1>1, <1>5, <1>6 DEF TInv, TaskList
<1>8. Shown'
  BY <1>1, ShownSame DEF TInv
<1> QED
  BY <1>4, <1>7, <1>8 DEF TInv

(* reqcxch and reqdxch begin.                                              *)
LEMMA BeginLinkingStep ==
  ASSUME Discipline, SInv, EInv, TInv, NEW t \in Threads, NEW e \in Exchanges,
         CreateExchange(t, e) \/ DeleteExchange(t, e)
  PROVE  TInv'
<1>1. /\ EInv' /\ op[t] = "idle" /\ op'[t] \in ExOps /\ arg'[t] = e
      /\ \A u \in Threads : u # t => op'[u] = op[u] /\ arg'[u] = arg[u]
      /\ \A u \in Threads : op[u] \notin ExOps
      /\ UNCHANGED <<pc, thread, link, tail, extail, registered, at, seen>>
  BY BeginLinking
<1>2. Births' /\ TaskList'
  BY <1>1, TasksKept, Ops DEF TInv, EInv, Fields
<1>3. Reach(at)' = Reach(at)
  BY <1>1 DEF Reach
<1>4. /\ due' = due \/ due' = {}
      /\ op'[t] = "exlink" => due' = {} \/ e \notin Reach(at)
      /\ op'[t] \notin {"extail", "exend"}
  <2>1. CASE CreateExchange(t, e)
    <3>1. /\ due' = (IF at # NULL /\ e \in Reach(at) THEN {} ELSE due)
          /\ op'[t] = "exlink"
      BY <2>1 DEF CreateExchange, Goto, EInv, Fields
    <3>2. at = NULL => Reach(at) = {}
      BY Constants, LinksTyped, AlongFacts DEF EInv, Reach
    <3> QED
      BY <3>1, <3>2
  <2>2. CASE DeleteExchange(t, e)
    BY <2>2 DEF DeleteExchange, Goto, EInv, Fields, walk
  <2> QED
    BY <2>1, <2>2
<1>5. Shown'
  <2>1. due' \subseteq seen' \cup Reach(at)'
    BY <1>1, <1>3, <1>4 DEF TInv, Shown
  <2>2. \A u \in Threads :
          /\ op'[u] = "exlink" => due' = {} \/ arg'[u] \notin Reach(at)'
          /\ op'[u] \notin {"extail", "exend"}
    BY <1>1, <1>3, <1>4, Ops
  <2> QED
    BY <2>1, <2>2 DEF Shown
<1> QED
  BY <1>2, <1>5 DEF TInv

LEMMA ExLinkStep ==
  ASSUME Discipline, EInv, TInv, NEW t \in Threads, ExLink(t)
  PROVE  TInv'
<1>1. /\ EInv' /\ Ends(link, extail)
      /\ extail \in Nodes /\ extail \notin Threads /\ link'[extail] = arg[t]
      /\ \A n \in Nodes : n # extail => link'[n] = link[n]
      /\ op'[t] = "extail" /\ \A u \in Threads : u # t => op'[u] = op[u]
  BY ExLinkApart
<1>2. /\ op[t] = "exlink"
      /\ UNCHANGED <<pc, arg, thread, tail, extail, registered, at, seen, due>>
  BY DEF ExLink, At, walk
<1>3. \A u \in Threads : u # t => op[u] \notin ExOps
  BY <1>2, OnlyLinker, Ops
<1> DEFINE e == arg[t]
<1>4. e \in Nodes /\ e # NULL
  BY <1>2, Constants DEF EInv, ExList, ExAt
<1>5. Births' /\ TaskList'
  <2>1. \A n \in Threads : link'[n] = link[n]
    BY <1>1, Constants
  <2>2. \A u \in Threads :
          op[u] \in TaskOps \/ op'[u] \in TaskOps => op'[u] = op[u] /\ arg'[u] = arg[u]
    BY <1>1, <1>2, Ops
  <2> QED
    BY <1>1, <1>2, <2>1, <2>2, TasksKept DEF TInv, EInv, Fields
<1>6. Shown'
  <2>1. at \in Nodes \cup {NULL} /\ Finite /\ link[extail] = NULL
    BY <1>1, Constants DEF EInv, Fields, Ends
  <2>2. Linked(link) /\ Linked(link') /\ Linked(Cut(t)')
    BY <1>1, <1>2, <1>4 DEF EInv, Fields, Linked, Cut
  <2>3. Along(link, at) \subseteq Nodes
    BY <2>1, <2>2, AlongFacts
  <2>4. Along(link, at) \subseteq Along(link', at)
    BY <1>1, <2>1, <2>2, <2>3, AlongGrows
  <2>5. due \subseteq seen \cup Along(link, at)
    BY DEF TInv, Shown, Reach
  <2>6. ASSUME e \notin Along(link, at)
        PROVE  Along(link, at) \subseteq Along(Cut(t)', at)
    <3>1. \A m \in Nodes : m # e /\ m # extail => Cut(t)'[m] = link[m]
      BY <1>1, <1>2, <2>2 DEF Cut, Linked
    <3>2. \A m \in Along(link, at) \ {extail} : Cut(t)'[m] = link[m]
      BY <2>3, <2>6, <3>1
    <3> QED
      BY <2>1, <2>2, <3>2, AlongGrows
  <2>7. at \in Exs => due = {} \/ e \notin Along(link, at)
    BY <1>2 DEF TInv, Shown, Reach
  <2>8. at \in Exs => due' \subseteq seen' \cup Along(Cut(t)', at')
    BY <1>2, <2>5, <2>6, <2>7
  <2>9. due' \subseteq seen' \cup Reach(at)'
    BY <1>2, <2>4, <2>5 DEF Reach
  <2> QED
    BY <1>1, <1>2, <1>3, <2>8, <2>9, Ops DEF Shown
<1> QED
  BY <1>5, <1>6 DEF TInv

(* The rest of reqcxch, and the reads and the end of reqdxch.              *)
LEMMA ExTailStep ==
  ASSUME Discipline, EInv, TInv, NEW t \in Threads, ExTail(t)
  PROVE  TInv'
<1>1. /\ EInv' /\ op[t] = "extail" /\ op'[t] = "exend"
      /\ \A u \in Threads : u # t => op'[u] = op[u]
      /\ UNCHANGED <<pc, arg, thread, link, tail, at, seen, due>>
  BY ExTailApart DEF ExTail, walk
<1>2. Births' /\ TaskList'
  <2>1. \A u \in Threads :
          op[u] \in TaskOps \/ op'[u] \in TaskOps => op'[u] = op[u] /\ arg'[u] = arg[u]
    BY <1>1, Ops
  <2> QED
    BY <1>1, <2>1, TasksKept DEF TInv, EInv, Fields
<1>3. Shown'
  BY <1>1, ShownSame DEF TInv
<1> QED
  BY <1>2, <1>3 DEF TInv

LEMMA ExEndStep ==
  ASSUME Discipline, EInv, TInv, NEW t \in Threads, ExEnd(t)
  PROVE  TInv'
<1>1. /\ EInv' /\ op[t] = "exend" /\ op'[t] = "idle" /\ link' = Cut(t)
      /\ arg[t] \in Exs
      /\ \A u \in Threads : u # t => op'[u] = op[u] /\ arg'[u] = arg[u]
      /\ \A n \in Threads : link'[n] = link[n]
      /\ UNCHANGED <<pc, thread, tail, at, seen, due>>
  BY ExEndApart DEF ExEnd, walk
<1>2. \A u \in Threads : u # t => op[u] \notin ExOps
  BY <1>1, OnlyLinker, Ops
<1>3. Births' /\ TaskList'
  <2>1. \A u \in Threads :
          op[u] \in TaskOps \/ op'[u] \in TaskOps => op'[u] = op[u] /\ arg'[u] = arg[u]
    BY <1>1, Ops
  <2> QED
    BY <1>1, <2>1, TasksKept DEF TInv, EInv, Fields
<1>4. Shown'
  <2>1. CASE at \in Exs
    <3>1. due \subseteq seen \cup Along(link', at)
      BY <1>1, <2>1 DEF TInv, Shown
    <3> QED
      BY <1>1, <1>2, <3>1, Ops DEF Shown, Reach
  <2>2. CASE at \notin Exs
    <3>1. Along(link', at) = Along(link, at)
      <4>1. Linked(link) /\ Linked(link') /\ Finite /\ at \in Threads \cup {NULL}
        BY <1>1, <2>2, Constants DEF EInv, Fields, Linked
      <4>2. at = NULL => Along(link, at) = {} /\ Along(link', at) = {}
        BY <4>1, AlongFacts
      <4>3. at \in Threads => Along(link, at) \subseteq Threads
        BY LinksTyped DEF EInv, Reach
      <4> QED
        BY <1>1, <4>1, <4>2, <4>3, AlongSame, Constants
    <3> QED
      BY <1>1, <2>2, <3>1 DEF TInv, Shown, Reach
  <2> QED
    BY <2>1, <2>2
<1> QED
  BY <1>3, <1>4 DEF TInv

LEMMA DxReadsStep ==
  ASSUME Discipline, EInv, TInv, NEW t \in Threads,
         \/ DxTest(t) \/ DxWalk(t) \/ DxStep(t) \/ DxCurr(t) \/ DxNext(t)
         \/ DxTail(t) \/ DxSet(t)
  PROVE  TInv'
<1>1. /\ EInv' /\ UNCHANGED <<pc, thread, link, tail, at, seen, due>>
      /\ op[t] \in DxOps /\ op'[t] \in DxOps \cup {"idle"}
      /\ \A u \in Threads : u # t => op'[u] = op[u] /\ arg'[u] = arg[u]
  <2>1. CASE DxSet(t)
    BY <2>1, DxSetApart, Ops DEF DxSet, walk
  <2>2. CASE \/ DxTest(t) \/ DxWalk(t) \/ DxStep(t) \/ DxCurr(t) \/ DxNext(t)
             \/ DxTail(t)
    BY <2>2, DxReads DEF walk, lists
  <2> QED
    BY <2>1, <2>2
<1>2. Births' /\ TaskList'
  <2>1. \A u \in Threads :
          op[u] \in TaskOps \/ op'[u] \in TaskOps => op'[u] = op[u] /\ arg'[u] = arg[u]
    BY <1>1, Ops
  <2> QED
    BY <1>1, <2>1, TasksKept DEF TInv, EInv, Fields
<1>3. Shown'
  BY <1>1, ShownSame, Ops DEF TInv
<1> QED
  BY <1>2, <1>3 DEF TInv

LEMMA DxLinkStep ==
  ASSUME Discipline, EInv, TInv, NEW t \in Threads, DxLink(t)
  PROVE  TInv'
<1> DEFINE e == arg[t]
           p == prev[t]
<1>1. /\ EInv' /\ op[t] = "dxlink" /\ op'[t] = "dxtail"
      /\ \A u \in Threads : u # t => op'[u] = op[u]
      /\ p \in Nodes /\ e \in Nodes /\ link[p] = e
      /\ link' = [link EXCEPT ![p] = link[e]]
      /\ \A n \in Threads : link'[n] = link[n]
  BY DxLinkApart
<1>2. /\ due' = due \ {e} /\ UNCHANGED <<pc, arg, thread, tail, at, seen>>
  BY DEF DxLink
<1>3. \A u \in Threads : u # t => op[u] \notin ExOps
  BY <1>1, OnlyLinker, Ops
<1>4. Births' /\ TaskList'
  <2>1. \A u \in Threads :
          op[u] \in TaskOps \/ op'[u] \in TaskOps => op'[u] = op[u] /\ arg'[u] = arg[u]
    BY <1>1, <1>2, Ops
  <2> QED
    BY <1>1, <1>2, <2>1, TasksKept DEF TInv, EInv, Fields
<1>5. Shown'
  <2>1. /\ at \in Nodes \cup {NULL} /\ Finite /\ Linked(link)
        /\ Linked([link EXCEPT ![p] = link[e]])
    <3>1. Linked(link) /\ Linked(link')
      BY <1>1 DEF EInv, Fields, Linked
    <3> QED
      BY <1>1, <3>1, Constants DEF EInv, Fields
  <2>2. Along(link, at) \ {e} \subseteq Along(link', at)
    <3> HIDE DEF e, p
    <3> QED
      BY <1>1, <2>1, AlongSkips
  <2>3. due' \subseteq seen' \cup Along(link', at')
    BY <1>2, <2>2 DEF TInv, Shown, Reach
  <2>4. \A u \in Threads : op'[u] \notin CxOps
    BY <1>1, <1>3, Ops
  <2> QED
    BY <2>3, <2>4, Ops DEF Shown, Reach
<1> QED
  BY <1>4, <1>5 DEF TInv

(* The displays: what a walk begins with it owes, ...                      *)
LEMMA OnlyWalks ==
  ASSUME EInv, TInv, UNCHANGED <<pc, op, arg, dx, thread, lists>>, Shown'
  PROVE  TInv'
<1>1. UNCHANGED <<link, tail, extail, registered>>
  BY DEF lists
<1>2. Births'
  BY DEF TInv, Births
<1>3. TaskList'
  BY <1>1 DEF TInv, TaskList, Outside, Reach
<1> QED
  BY <1>2, <1>3 DEF TInv

LEMMA BeginStep ==
  ASSUME Discipline, EInv, TInv, NEW head \in {Root, DelayEx}, Begin(head)
  PROVE  TInv'
<1>1. /\ at' = head /\ seen' = {} /\ due' = Reach(head) \cap (Threads \cup registered)
      /\ UNCHANGED <<pc, op, arg, dx, thread, lists>>
      /\ UNCHANGED <<link, extail, registered>>
  BY DEF Begin, lists
<1>2. due' \subseteq seen' \cup Reach(at)'
  BY <1>1 DEF Reach
<1>3. /\ Reach(DelayEx) \subseteq Exs
      /\ Linked(link) /\ \A t \in Threads : Linked(Cut(t))
  BY LinksTyped DEF EInv
<1>4. registered \subseteq Exs
  BY DEF EInv, Fields
<1>5. ASSUME NEW t \in Threads, op'[t] = "exlink", at' \in Exs
      PROVE  due' = {} \/ arg'[t] \notin Reach(at)'
  <2>1. op[t] = "exlink" /\ arg[t] \in Exchanges \ registered
    BY <1>1, <1>5 DEF EInv, ExList, ExAt
  <2>2. Reach(DelayEx) = registered
    <3>1. Steady
      BY <2>1, OnlyLinker, Ops DEF Steady
    <3> QED
      BY <3>1 DEF EInv, ExList, Ends, Reach
  <2>3. at' = DelayEx
    BY <1>1, <1>5, Constants
  <2> QED
    BY <1>1, <2>1, <2>2, <2>3 DEF Reach
<1>6. ASSUME NEW t \in Threads, op'[t] \in {"extail", "exend"}, at' \in Exs
      PROVE  due' \subseteq seen' \cup Along(Cut(t)', at')
  <2>1. op[t] \in {"extail", "exend"} /\ Cut(t)' = Cut(t) /\ head = DelayEx
    BY <1>1, <1>6, Constants DEF Cut
  <2>2. PICK z \in registered : Linking(t, z)
    BY <2>1 DEF EInv, ExList, ExAt, Linking, Ends
  <2> DEFINE e == arg[t]
             was == [link EXCEPT ![z] = NULL]
  <2>3. /\ e \in Exchanges \ registered /\ e \in Exs /\ e \in Nodes
        /\ link[z] = e /\ z \in registered /\ z \in Nodes /\ z # e
        /\ Along(was, DelayEx) = registered /\ was[z] = NULL
        /\ registered \subseteq Nodes
    BY <2>2, <1>4, Constants DEF Linking, Ends
  <2>4. /\ Linked(was) /\ Linked(Cut(t)) /\ Finite /\ DelayEx \in Nodes
    BY <1>3, Constants DEF Linked
  <2>5. /\ Cut(t)[e] = NULL /\ Cut(t)[z] = e
        /\ \A n \in Nodes : n # e => Cut(t)[n] = link[n]
        /\ \A n \in Nodes : n # z => was[n] = link[n]
    BY <1>3, <2>3, <2>4 DEF Cut, Linked
  <2> HIDE DEF was
  <2>6. \A m \in Along(was, DelayEx) \ {z} : Cut(t)[m] = was[m]
    BY <2>3, <2>5
  <2>7. Along(Cut(t), DelayEx) = registered \cup {e}
    BY <2>3, <2>4, <2>5, <2>6, AlongAppend
  <2>8. due' \subseteq registered
    BY <1>1, <1>3, <2>1, Constants
  <2> QED
    BY <1>1, <2>1, <2>7, <2>8
<1>7. Shown'
  BY <1>2, <1>5, <1>6 DEF Shown
<1> QED
  BY <1>1, <1>7, OnlyWalks

(* ... and it shows one node a step.                                       *)
LEMMA WalkStep ==
  ASSUME Discipline, EInv, TInv, Walk
  PROVE  TInv'
<1>1. /\ at # NULL /\ at' = link[at] /\ seen' = seen \cup {at} /\ due' = due
      /\ UNCHANGED <<pc, op, arg, dx, thread, lists, link>>
  BY DEF Walk, lists
<1>2. at \in Nodes /\ link[at] \in Nodes \cup {NULL}
  BY <1>1 DEF EInv, Fields
<1>3. Finite /\ Linked(link) /\ \A t \in Threads : Linked(Cut(t))
  BY Constants, LinksTyped DEF EInv
<1>4. Reach(at) = {at} \cup Along(link, link[at])
  BY <1>2, <1>3, AlongNext DEF Reach
<1>5. Reach(at)' = Along(link, link[at])
  BY <1>1 DEF Reach
<1>6. due' \subseteq seen' \cup Reach(at)'
  BY <1>1, <1>4, <1>5 DEF TInv, Shown
<1>7. at' \in Exs => at \in Exs
  BY <1>1, <1>2, Constants DEF EInv, Fields
<1>8. ASSUME NEW t \in Threads, op'[t] = "exlink", at' \in Exs
      PROVE  due' = {} \/ arg'[t] \notin Reach(at)'
  BY <1>1, <1>4, <1>5, <1>7, <1>8 DEF TInv, Shown
<1>9. ASSUME NEW t \in Threads, op'[t] \in {"extail", "exend"}, at' \in Exs
      PROVE  due' \subseteq seen' \cup Along(Cut(t)', at')
  <2>1. Cut(t)' = Cut(t) /\ due \subseteq seen \cup Along(Cut(t), at)
    BY <1>1, <1>7, <1>9 DEF TInv, Shown, Cut
  <2>2. Along(Cut(t), at) = {at} \cup Along(Cut(t), Cut(t)[at])
    BY <1>2, <1>3, AlongNext
  <2>3. CASE at = arg[t]
    <3>1. Cut(t)[at] = NULL
      BY <1>2, <1>3, <2>3 DEF Cut, Linked
    <3>2. Along(Cut(t), at) = {at}
      BY <1>3, <2>2, <3>1, AlongFacts
    <3> QED
      BY <1>1, <2>1, <3>2
  <2>4. CASE at # arg[t]
    <3>1. Cut(t)[at] = link[at]
      BY <1>2, <1>3, <2>4 DEF Cut, Linked
    <3> QED
      BY <1>1, <2>1, <2>2, <3>1
  <2> QED
    BY <2>3, <2>4
<1>10. Shown'
  BY <1>6, <1>8, <1>9 DEF Shown
<1> QED
  BY <1>1, <1>10, OnlyWalks

LEMMA InitTasks ==
  ASSUME Discipline, EInv, Init
  PROVE  TInv
<1>1. /\ pc = [t \in Threads |-> IF t = Root THEN "body" ELSE "none"]
      /\ op = [t \in Threads |-> "idle"]
      /\ thread = {Root} /\ link = [n \in Nodes |-> NULL]
      /\ tail = Root /\ at = NULL /\ due = {}
  BY DEF Init
<1>2. Births
  BY <1>1 DEF Births, TaskOps
<1>3. Linked(link) /\ Finite /\ Root \in Nodes
  BY Constants DEF EInv, Fields, Linked
<1>4. Reach(Root) = {Root}
  <2>1. Closed(link, {Root})
    BY <1>1, Constants DEF Closed
  <2> QED
    BY <1>3, <2>1, AlongFacts DEF Reach
<1>5. TaskList
  <2>1. \A u \in Tasks : Outside(u) /\ u # Root /\ link[u] = NULL
    BY <1>1, Constants DEF Outside
  <2> QED
    BY <1>1, <1>3, <1>4, <2>1 DEF TaskList
<1>6. Shown
  BY <1>1 DEF Shown
<1> QED
  BY <1>2, <1>5, <1>6 DEF TInv

LEMMA TasksStep ==
  ASSUME Once, SInv, EInv, EInv', TInv, [Next]_vars
  PROVE  TInv'
<1> USE DEF Once
<1>1. CASE UNCHANGED vars \/ Skip
  <2>1. UNCHANGED <<pc, op, arg, dx, thread, lists, at, seen, due>>
    BY <1>1 DEF vars, walk, Skip
  <2>2. UNCHANGED link
    BY <2>1 DEF lists
  <2>3. Shown'
    BY <2>1, <2>2, ShownSame DEF TInv
  <2> QED
    BY <2>1, <2>3, OnlyWalks
<1>2. ASSUME NEW t \in Threads, Going(t) PROVE TInv'
  <2>1. CASE SetThread(t) \/ LinkTail(t) \/ SetTail(t) \/ EndList(t)
    BY <2>1, SetThreadStep, LinkTailStep, SetTailStep, EndListStep
  <2>2. CASE ExLink(t) \/ ExTail(t) \/ ExEnd(t)
    BY <2>2, ExLinkStep, ExTailStep, ExEndStep
  <2>3. CASE DxLink(t)
    BY <2>3, DxLinkStep
  <2>4. CASE \/ DxTest(t) \/ DxWalk(t) \/ DxStep(t) \/ DxCurr(t) \/ DxNext(t)
             \/ DxTail(t) \/ DxSet(t)
    BY <2>4, DxReadsStep
  <2> QED
    BY <1>2, <2>1, <2>2, <2>3, <2>4 DEF Going
<1>3. ASSUME NEW t \in Threads, NEW u \in Tasks, Create(t, u) PROVE TInv'
  BY <1>3, CreateStep
<1>4. ASSUME NEW t \in Threads, NEW u \in Tasks,
             Reqrun(u) \/ reqdtsk(t, u) \/ Cancelled(u)
      PROVE  TInv'
  BY <1>4, Moving, MovesStep
<1>5. ASSUME NEW t \in Threads, NEW e \in Exchanges,
             CreateExchange(t, e) \/ DeleteExchange(t, e)
      PROVE  TInv'
  BY <1>5, BeginLinkingStep
<1>6. CASE display_task_list \/ display_exchange_list
  BY <1>6, BeginStep DEF display_task_list, display_exchange_list
<1>7. CASE Walk
  BY <1>7, WalkStep
<1>8. ASSUME NEW u \in Tasks, Reqrun(u) \/ Cancelled(u) PROVE TInv'
  BY <1>4, <1>8, Constants
<1> QED
  BY <1>1, <1>2, <1>3, <1>4, <1>5, <1>6, <1>7, <1>8 DEF Next

(* The invariant of the lists, when no task is created twice.              *)
LEMMA ListsInvariant ==
  ASSUME Once
  PROVE  Spec => [](SInv /\ EInv /\ TInv)
<1> USE DEF Once
<1>1. Init => SInv /\ EInv /\ TInv
  BY InitExchanges, InitTasks, InitStarted
<1>2. SInv /\ EInv /\ TInv /\ [Next]_vars => (SInv /\ EInv /\ TInv)'
  BY ExchangesStep, TasksStep, NextSafe, TaskTableAssumption
<1> QED
  BY <1>1, <1>2, PTL DEF Spec

(* active_task finds every task that runs, unless its creator is, or was   *)
(* when it was cancelled, still before the end of the list                 *)
(* (ycore.c:716-748).                                                      *)
THEOREM RunningAreFound ==
  ASSUME Serial, ~Recreate, IsFiniteSet(Nodes)
  PROVE  Spec => []Unlisted
<1>1. Once
  BY DEF Once, Discipline
<1>2. EInv /\ TInv => Unlisted
  <2> SUFFICES ASSUME EInv, TInv, NEW u \in Tasks, pc[u] = "body", ~active_task(u)
               PROVE  \E t \in Threads :
                        arg[t] = u /\ op[t] \in {"setthread", "linktail"}
    BY DEF Unlisted
  <2>1. Outside(u)
    BY DEF TInv, TaskList, active_task
  <2> QED
    BY <2>1 DEF Outside
<1> QED
  BY <1>1, <1>2, ListsInvariant, PTL

(* When also no descriptor of a deleted task is used again, neither list   *)
(* loses anything, whichever calls of rqctsk and rqcxch, and displays,     *)
(* overlap: between the calls both tail pointers are at the ends of their  *)
(* lists (reqctsk, reqcxch and reqdxch, ycore.c:741-748, 774-785, 855-882).*)
THEOREM ListsStaySound ==
  ASSUME Serial, ~Recreate, IsFiniteSet(Nodes)
  PROVE  Spec => []ListsSound
<1>1. Once
  BY DEF Once, Discipline
<1>2. EInv /\ TInv => ListsSound
  <2> SUFFICES ASSUME EInv, TInv, In(TaskOps) = {}
               PROVE  tail \in Reach(Root) /\ link[tail] = NULL
    BY ExchangesEnd DEF ListsSound, TasksSound
  <2>1. \A t \in Threads : op[t] # "settail"
    BY DEF EInv, Callers, In, TaskOps
  <2> QED
    BY <2>1 DEF TInv, TaskList
<1> QED
  BY <1>1, <1>2, ListsInvariant, PTL

(* A display that has come to its end has shown all that was in its list   *)
(* from its beginning on, whatever was appended and removed on its way     *)
(* (display_task_list and display_exchange_list, ycore.c:1535-1588).       *)
THEOREM DisplaysAreWhole ==
  ASSUME Serial, ~Recreate, IsFiniteSet(Nodes)
  PROVE  Spec => []WalkWhole
<1>1. Once
  BY DEF Once, Discipline
<1>2. EInv /\ TInv => WalkWhole
  <2> SUFFICES ASSUME EInv, TInv, at = NULL PROVE due \subseteq seen
    BY DEF WalkWhole
  <2>1. Reach(at) = {}
    BY <1>1, Constants, LinksTyped, AlongFacts DEF EInv, Reach, Once
  <2> QED
    BY <2>1 DEF TInv, Shown
<1> QED
  BY <1>1, <1>2, ListsInvariant, PTL
=============================================================================
