------------------------ MODULE CoroSchedulerProofs -------------------------
(***************************************************************************)
(* Proofs about CoroScheduler for any finite set of workers, any tasks,    *)
(* condition variables and bound: type correctness, that a task is in one  *)
(* place at a time, that ready work is not left beside a sleeping worker,  *)
(* that a worker leaves only when every task is done, and that task_cond   *)
(* implements Condvar.                                                     *)
(***************************************************************************)
EXTENDS CoroScheduler, Counting, SequenceTheorems

-----------------------------------------------------------------------------
(* Sequences: what the lists of tasks become.                              *)

LEMMA QueueOps ==
  ASSUME NEW S, NEW q \in Seq(S), NEW x \in S
  PROVE  /\ Append(q, x) \in Seq(S) /\ Len(Append(q, x)) = Len(q) + 1
         /\ <<x>> \o q \in Seq(S) /\ Len(<<x>> \o q) = Len(q) + 1
         /\ q # << >> => /\ Head(q) \in S
                         /\ Tail(q) \in Seq(S)
                         /\ Len(Tail(q)) = Len(q) - 1
<1>1. <<x>> \in Seq(S) /\ Len(<<x>>) = 1
  OBVIOUS
<1>2. <<x>> \o q \in Seq(S) /\ Len(<<x>> \o q) = Len(q) + 1
  BY <1>1, ConcatProperties
<1> QED BY <1>2, AppendProperties, HeadTailProperties

\* The task a notification wakes comes off the wait list.
LEMMA WakeTypes ==
  ASSUME TypeOK, NEW c \in Conds, wl[c] # << >>, WakeFirst(c)
  PROVE  /\ waiting_on' \in [Tasks -> Conds \cup {Free}]
         /\ p_waiting' \in SUBSET Tasks
         /\ p_available' \in Seq(Tasks)
         /\ Len(p_available') = Len(p_available) + 1
         /\ wl' \in [Conds -> Seq(Tasks)]
<1>1. Head(wl[c]) \in Tasks /\ Tail(wl[c]) \in Seq(Tasks)
  BY QueueOps, HeadTailProperties DEF TypeOK
<1>2. /\ <<Head(wl[c])>> \o p_available \in Seq(Tasks)
      /\ Len(<<Head(wl[c])>> \o p_available) = Len(p_available) + 1
  BY <1>1, QueueOps DEF TypeOK
<1> QED BY <1>1, <1>2 DEF WakeFirst, TypeOK
-----------------------------------------------------------------------------
\* Every reachable state of the scheduler has the shape TypeOK gives it.
THEOREM TypeCorrect == SafetySpec => []TypeOK
<1>1. Init => TypeOK
  BY EmptySeq, MainAssumption, MaxCallsAssumption
     DEF Init, TypeOK, PCs, RunStates, CondStates
<1>2. TypeOK /\ [Next]_vars => TypeOK'
  <2> SUFFICES ASSUME TypeOK, [Next]_vars PROVE TypeOK'
    OBVIOUS
  <2> USE FreeAssumption, MaxCallsAssumption
      DEF TypeOK, PCs, RunStates, CondStates, Goto, lists
  <2>1. ASSUME NEW th \in Threads, Take(th) PROVE TypeOK'
    <3>1. Head(p_available) \in Tasks /\ Tail(p_available) \in Seq(Tasks)
      BY <2>1, HeadTailProperties DEF Take
    <3> QED BY <2>1, <3>1 DEF Take
  <2>2. ASSUME NEW th \in Threads, Sleep(th) PROVE TypeOK'
    BY <2>2 DEF Sleep
  <2>3. ASSUME NEW th \in Threads, Exit(th) PROVE TypeOK'
    BY <2>3 DEF Exit
  <2>4. ASSUME NEW th \in Threads, SpuriousWake(th) PROVE TypeOK'
    BY <2>4 DEF SpuriousWake
  <2>5. ASSUME NEW th \in Threads, Poke(th) PROVE TypeOK'
    <3>1. /\ AfterPoke(pc[th]) \in PCs
          /\ pc[th] = "poke" => AfterPoke(pc[th]) = "top"
          /\ pc[th] # "poke" => /\ AfterPoke(pc[th]) \in RunStates
                                /\ pc[th] \in RunStates
          /\ AfterPoke(pc[th]) \in CondStates => pc[th] \in CondStates
      BY <2>5 DEF Poke, PokeStates, AfterPoke
    <3>2. CASE Goto(th, AfterPoke(pc[th]))
      BY <2>5, <3>1, <3>2 DEF Poke
    <3>3. ASSUME NEW s \in Sleepers,
                 pc' = [pc EXCEPT ![th] = AfterPoke(pc[th]), ![s] = "top"]
          PROVE  TypeOK'
      <4>1. s \in Threads /\ pc[s] = "sleep" /\ s # th
        BY <2>5 DEF Poke, PokeStates, Sleepers, At
      <4>2. pc' \in [Threads -> PCs]
        BY <3>1, <3>3
      <4>3. /\ pc'[th] = AfterPoke(pc[th]) /\ pc'[s] = "top"
            /\ \A u \in Threads \ {th, s} : pc'[u] = pc[u]
        BY <3>3, <4>1
      <4>4. /\ \A u \in Threads : pc'[u] \in RunStates <=> pc[u] \in RunStates
            /\ \A u \in Threads : pc'[u] \in CondStates => pc[u] \in CondStates
        BY <2>5, <3>1, <4>1, <4>3 DEF Poke, PokeStates
      <4> QED BY <2>5, <4>2, <4>4 DEF Poke
    <3> QED BY <2>5, <3>2, <3>3 DEF Poke
  <2>6. ASSUME NEW th \in Threads, LastNotify(th) PROVE TypeOK'
    BY <2>6 DEF LastNotify
  <2>7. ASSUME NEW th \in Threads, Finish(th) PROVE TypeOK'
    BY <2>7 DEF Finish, StopsRunning
  <2>8. ASSUME NEW th \in Threads, Requeue(th) PROVE TypeOK'
    <3>1. cur[th] \in Tasks BY <2>8 DEF Requeue
    <3>2. Append(p_available, cur[th]) \in Seq(Tasks) BY <3>1, QueueOps
    <3> QED BY <2>8, <3>1, <3>2 DEF Requeue, StopsRunning
  <2>9. ASSUME NEW th \in Threads, Park(th) PROVE TypeOK'
    <3>1. cur[th] \in Tasks /\ waiting_on[cur[th]] \in Conds BY <2>9 DEF Park
    <3>2. <<cur[th]>> \o wl[waiting_on[cur[th]]] \in Seq(Tasks)
      BY <3>1, QueueOps
    <3> QED BY <2>9, <3>1, <3>2 DEF Park, StopsRunning
  <2>10. ASSUME NEW th \in Threads, NEW u \in Tasks, Spawn(th, u) PROVE TypeOK'
    <3>1. Append(p_available, u) \in Seq(Tasks) BY QueueOps
    <3> QED BY <2>10, <3>1 DEF Spawn, Calls
  <2>11. ASSUME NEW th \in Threads, NEW c \in Conds, Lock(th, c) PROVE TypeOK'
    BY <2>11 DEF Lock, Calls
  <2>12. ASSUME NEW th \in Threads, NEW c \in Conds, NEW kind \in Notifies,
                CallNotify(th, c, kind)
         PROVE  TypeOK'
    BY <2>12, NotifiesAssumption DEF CallNotify, Calls
  <2>13. ASSUME NEW th \in Threads, Unlock(th) PROVE TypeOK'
    BY <2>13 DEF Unlock
  <2>14. ASSUME NEW th \in Threads, WaitLock(th) PROVE TypeOK'
    BY <2>14 DEF WaitLock
  <2>15. ASSUME NEW th \in Threads, WaitRelease(th) PROVE TypeOK'
    BY <2>15 DEF WaitRelease
  <2>16. ASSUME NEW th \in Threads, Relock(th) PROVE TypeOK'
    BY <2>16 DEF Relock
  <2>17. ASSUME NEW th \in Threads, NotifyOneEmpty(th) PROVE TypeOK'
    BY <2>17 DEF NotifyOneEmpty
  <2>18. ASSUME NEW th \in Threads, NotifyOneWake(th) PROVE TypeOK'
    <3>1. arg[cur[th]] \in Conds BY <2>18 DEF NotifyOneWake
    <3>2. \A t \in Tasks : waiting_on'[t] # Free => waiting_on[t] # Free
      BY <2>18 DEF NotifyOneWake, WakeFirst
    <3> QED BY <2>18, <3>1, <3>2, WakeTypes DEF NotifyOneWake
  <2>19. ASSUME NEW th \in Threads, NotifyAllWake(th) PROVE TypeOK'
    <3>1. arg[cur[th]] \in Conds BY <2>19 DEF NotifyAllWake
    <3>2. \A t \in Tasks : waiting_on'[t] # Free => waiting_on[t] # Free
      BY <2>19 DEF NotifyAllWake, WakeFirst
    <3> QED BY <2>19, <3>1, <3>2, WakeTypes DEF NotifyAllWake
  <2>20. ASSUME NEW th \in Threads, NotifyAllDone(th) PROVE TypeOK'
    BY <2>20 DEF NotifyAllDone
  <2>21. CASE Terminating \/ UNCHANGED vars
    BY <2>21 DEF Terminating, vars
  <2> QED
    BY <2>1, <2>2, <2>3, <2>4, <2>5, <2>6, <2>7, <2>8, <2>9, <2>10, <2>11,
       <2>12, <2>13, <2>14, <2>15, <2>16, <2>17, <2>18, <2>19, <2>20, <2>21
       DEF Next, Step, Dispatch, Return, Call, InCall
<1> QED BY <1>1, <1>2, PTL DEF SafetySpec
-----------------------------------------------------------------------------
(* Ready tasks against the workers that will look for them.                *)

Wakers == PokeStates \cup {"top"}

LEMMA WakersForm ==
  /\ At(Wakers) = Among(Threads, pc, Wakers)
  /\ At(Wakers)' = Among(Threads, pc', Wakers)
  /\ Cardinality(Among(Threads, pc, Wakers)) \in Nat
  /\ Cardinality(Among(Threads, pc', Wakers)) \in Nat
<1>1. /\ Cardinality(Among(Threads, pc, Wakers)) \in Nat
      /\ Cardinality(Among(Threads, pc', Wakers)) \in Nat
  BY FiniteAssumption, AmongFinite
<1>2. At(Wakers) = Among(Threads, pc, Wakers) BY DEF At, Among
<1>3. At(Wakers)' = Among(Threads, pc', Wakers)
  BY DEF At, Among, Wakers, PokeStates
<1> QED BY <1>1, <1>2, <1>3

\* A worker that goes from one place to another.
LEMMA WorkerMoves ==
  ASSUME TypeOK, NEW th \in Threads, NEW l, Goto(th, l)
  PROVE  /\ Cardinality(Among(Threads, pc', Wakers)) =
              Moved(pc[th], l, Wakers, Cardinality(Among(Threads, pc, Wakers)))
         /\ l # "sleep" => Sleepers' \subseteq Sleepers
<1>1. OnlyMoves(Threads, pc, pc', th) /\ pc'[th] = l
  BY DEF TypeOK, Goto, OnlyMoves
<1>2. Cardinality(Among(Threads, pc', Wakers)) =
        Moved(pc[th], pc'[th], Wakers, Cardinality(Among(Threads, pc, Wakers)))
  BY <1>1, FiniteAssumption, OneMoves
<1>3. l # "sleep" => Sleepers' \subseteq Sleepers
  BY DEF TypeOK, Goto, Sleepers, At
<1> QED BY <1>1, <1>2, <1>3

LEMMA WorkConservingStep ==
  ASSUME TypeOK, WorkConserving, Next
  PROVE  WorkConserving'
<1> DEFINE K == Cardinality(Among(Threads, pc, Wakers))
           Kp == Cardinality(Among(Threads, pc', Wakers))
<1>0. K \in Nat /\ Kp \in Nat /\ Len(p_available) \in Nat
  BY WakersForm DEF TypeOK
<1>1. Sleepers # {} => Len(p_available) <= K
  BY WakersForm DEF WorkConserving, Wakers
<1>2. SUFFICES ASSUME Sleepers' # {} PROVE Len(p_available') <= Kp
  BY WakersForm DEF WorkConserving, Wakers
<1>3. ASSUME NEW th \in Threads, NEW l, Goto(th, l)
      PROVE  /\ Kp = Moved(pc[th], l, Wakers, K)
             /\ l # "sleep" => Sleepers # {}
  BY <1>2, <1>3, WorkerMoves
<1> HIDE DEF K, Kp
<1> USE DEF Wakers, PokeStates, Moved
<1>4. ASSUME NEW th \in Threads, Take(th) PROVE Len(p_available') <= Kp
  <2> DEFINE t == Head(p_available)
  <2>1. t \in Tasks /\ Len(p_available') = Len(p_available) - 1
    BY <1>4, HeadTailProperties DEF Take, TypeOK
  <2>2. pc[th] = "top" /\ resume[t] \in {"user", "relock"} /\ Goto(th, resume[t])
    BY <1>4, <2>1 DEF Take, TypeOK
  <2>3. Kp = K - 1 /\ Sleepers # {} BY <1>3, <2>2
  <2> QED BY <1>0, <1>1, <2>1, <2>3
<1>5. ASSUME NEW th \in Threads, Sleep(th) \/ Exit(th)
      PROVE  Len(p_available') <= Kp
  <2>1. p_available' = << >> BY <1>5 DEF Sleep, Exit, ListsEmpty, lists
  <2> QED BY <1>0, <2>1
<1>6. ASSUME NEW th \in Threads, SpuriousWake(th)
      PROVE  Len(p_available') <= Kp
  <2>1. Kp = K + 1 /\ Sleepers # {} BY <1>3, <1>6 DEF SpuriousWake
  <2> QED BY <1>0, <1>1, <1>6, <2>1 DEF SpuriousWake, lists
<1>7. ASSUME NEW th \in Threads, Poke(th) PROVE Len(p_available') <= Kp
  <2>1. AfterPoke(pc[th]) # "sleep" /\ pc[th] # "sleep"
    BY <1>7 DEF Poke, AfterPoke
  <2>2. Sleepers # {}
    BY <1>2, <1>3, <1>7, <2>1 DEF Poke, Sleepers, At, TypeOK
  <2>3. PICK s \in Sleepers :
          pc' = [pc EXCEPT ![th] = AfterPoke(pc[th]), ![s] = "top"]
    BY <1>7, <1>3, <2>1, <1>2, <2>2 DEF Poke, Goto, Sleepers, At, TypeOK
  <2> DEFINE mid == [pc EXCEPT ![th] = AfterPoke(pc[th])]
             Km == Cardinality(Among(Threads, mid, Wakers))
  <2>4. /\ OnlyMoves(Threads, pc, mid, th) /\ OnlyMoves(Threads, mid, pc', s)
        /\ s \in Threads /\ s # th /\ mid[s] = "sleep" /\ pc'[s] = "top"
        /\ mid[th] = AfterPoke(pc[th])
    BY <2>1, <2>3 DEF OnlyMoves, TypeOK, Sleepers, At
  <2> HIDE DEF mid
  <2>5. Km = Moved(pc[th], mid[th], Wakers, K)
    BY <2>4, FiniteAssumption, OneMoves DEF K
  <2>6. Kp = Moved("sleep", "top", Wakers, Km)
    BY <2>4, FiniteAssumption, OneMoves DEF Kp
  <2>7. Km \in Nat BY FiniteAssumption, AmongFinite
  <2> HIDE DEF Km
  <2>8. Km >= K - 1 BY <1>0, <2>5
  <2>9. Kp = Km + 1 BY <2>6
  <2> QED BY <1>0, <1>1, <1>7, <2>2, <2>7, <2>8, <2>9 DEF Poke, lists
<1>8. ASSUME NEW th \in Threads, LastNotify(th) PROVE FALSE
  BY <1>2, <1>8 DEF LastNotify, Sleepers, At
<1>9. ASSUME NEW th \in Threads, Finish(th) PROVE Len(p_available') <= Kp
  <2>1. PICK l \in {"last", "top"} : Goto(th, l) BY <1>9 DEF Finish
  <2>2. Kp >= K /\ Sleepers # {}
    BY <1>0, <1>3, <1>9, <2>1 DEF Finish
  <2> QED BY <1>0, <1>1, <1>9, <2>2 DEF Finish
<1>10. ASSUME NEW th \in Threads, Requeue(th) PROVE Len(p_available') <= Kp
  <2>1. cur[th] \in Tasks BY <1>10 DEF Requeue, TypeOK, RunStates
  <2>2. Len(p_available') = Len(p_available) + 1
    BY <1>10, <2>1, QueueOps DEF Requeue, TypeOK
  <2>3. Kp = K + 1 /\ Sleepers # {} BY <1>0, <1>3, <1>10 DEF Requeue
  <2> QED BY <1>0, <1>1, <2>2, <2>3
<1>11. ASSUME NEW th \in Threads, Park(th) PROVE Len(p_available') <= Kp
  <2>1. Kp = K + 1 /\ Sleepers # {} BY <1>3, <1>11 DEF Park
  <2> QED BY <1>0, <1>1, <1>11, <2>1 DEF Park
<1>12. ASSUME NEW th \in Threads, NEW u \in Tasks, Spawn(th, u)
       PROVE  Len(p_available') <= Kp
  <2>1. Len(p_available') = Len(p_available) + 1
    BY <1>12, QueueOps DEF Spawn, TypeOK
  <2>2. Kp = K + 1 /\ Sleepers # {} BY <1>3, <1>12 DEF Spawn, Calls
  <2> QED BY <1>0, <1>1, <2>1, <2>2
<1>13. ASSUME NEW th \in Threads, NotifyOneWake(th) \/ NotifyAllWake(th)
       PROVE  Len(p_available') <= Kp
  <2>1. arg[cur[th]] \in Conds
    BY <1>13 DEF NotifyOneWake, NotifyAllWake, TypeOK, CondStates, RunStates
  <2>2. Len(p_available') = Len(p_available) + 1
    BY <1>13, <2>1, WakeTypes DEF NotifyOneWake, NotifyAllWake
  <2>3. PICK l \in {"woke", "woke_all"} : Goto(th, l)
    BY <1>13 DEF NotifyOneWake, NotifyAllWake
  <2>4. pc[th] \in {"notify_one", "notify_all"}
    BY <1>13 DEF NotifyOneWake, NotifyAllWake
  <2>5. Kp = K + 1 /\ Sleepers # {} BY <1>3, <2>3, <2>4
  <2> QED BY <1>0, <1>1, <2>2, <2>5
\* The steps in the middle of a call: no list changes, and the worker is at
\* no place that counts, before or after.
<1>14. ASSUME NEW th \in Threads, NEW l \in RunStates \ PokeStates, Goto(th, l),
              pc[th] \in RunStates \ PokeStates, UNCHANGED p_available
       PROVE  Len(p_available') <= Kp
  <2>1. Kp = K /\ Sleepers # {} BY <1>3, <1>14 DEF RunStates
  <2> QED BY <1>0, <1>1, <1>14, <2>1
<1>15. ASSUME NEW th \in Threads, NEW c \in Conds, NEW kind \in Notifies,
              CallNotify(th, c, kind)
       PROVE  Len(p_available') <= Kp
  BY <1>14, <1>15, NotifiesAssumption
     DEF CallNotify, Calls, RunStates, lists
<1>16. ASSUME NEW th \in Threads,
              \/ Unlock(th) \/ WaitLock(th) \/ WaitRelease(th) \/ Relock(th)
              \/ NotifyOneEmpty(th) \/ NotifyAllDone(th)
       PROVE  Len(p_available') <= Kp
  BY <1>14, <1>16 DEF Unlock, WaitLock, WaitRelease, Relock, NotifyOneEmpty,
                      NotifyAllDone, RunStates, lists
<1>17. ASSUME Terminating PROVE FALSE
  BY <1>2, <1>17 DEF Terminating, vars, Sleepers, At
<1>18. ASSUME NEW th \in Threads, NEW c \in Conds, Lock(th, c)
       PROVE  Len(p_available') <= Kp
  BY <1>14, <1>18 DEF Lock, Calls, RunStates, lists
<1> QED
  BY <1>4, <1>5, <1>6, <1>7, <1>8, <1>9, <1>10, <1>11, <1>12, <1>13, <1>15,
     <1>16, <1>17, <1>18 DEF Next, Step, Dispatch, Return, Call, InCall

\* Every task made ready is answered for by a worker that is not asleep, for
\* any number of workers and tasks.
THEOREM WorkIsConserved == SafetySpec => []WorkConserving
<1>1. Init => WorkConserving
  BY DEF Init, WorkConserving, Sleepers, At
<1>2. TypeOK /\ WorkConserving /\ [Next]_vars => WorkConserving'
  <2>1. CASE UNCHANGED vars
    BY <2>1 DEF vars, lists, WorkConserving, Sleepers, At
  <2> QED BY <2>1, WorkConservingStep
<1> QED BY <1>1, <1>2, TypeCorrect, PTL DEF SafetySpec
-----------------------------------------------------------------------------
(* Every task in one place.                                                *)

LEMMA ElementsOps ==
  ASSUME NEW S, NEW q \in Seq(S), NEW x \in S
  PROVE  /\ Elements(Append(q, x)) = Elements(q) \cup {x}
         /\ Elements(<<x>> \o q) = Elements(q) \cup {x}
         /\ NoDuplicates(q) /\ x \notin Elements(q) =>
              NoDuplicates(Append(q, x)) /\ NoDuplicates(<<x>> \o q)
         /\ q # << >> =>
              /\ Head(q) \in Elements(q)
              /\ NoDuplicates(q) =>
                   /\ Elements(Tail(q)) = Elements(q) \ {Head(q)}
                   /\ NoDuplicates(Tail(q))
<1> USE DEF Elements, NoDuplicates
<1>0. Len(q) \in Nat /\ \A i \in 1..Len(q) : q[i] \in S
  BY ElementOfSeq, LenProperties
<1>1. /\ Len(Append(q, x)) = Len(q) + 1
      /\ \A i \in 1..Len(q) : Append(q, x)[i] = q[i]
      /\ Append(q, x)[Len(q) + 1] = x
  BY AppendProperties
<1>2. /\ Elements(Append(q, x)) = Elements(q) \cup {x}
      /\ NoDuplicates(q) /\ x \notin Elements(q) => NoDuplicates(Append(q, x))
  <2>1. 1..(Len(q) + 1) = 1..Len(q) \cup {Len(q) + 1} BY <1>0
  <2> QED BY <1>0, <1>1, <2>1
<1>3. /\ Len(<<x>> \o q) = Len(q) + 1
      /\ (<<x>> \o q)[1] = x
      /\ \A i \in 1..Len(q) : (<<x>> \o q)[i + 1] = q[i]
      /\ \A i \in 2..(Len(q) + 1) : (<<x>> \o q)[i] = q[i - 1]
  BY <1>0
<1>4. /\ Elements(<<x>> \o q) = Elements(q) \cup {x}
      /\ NoDuplicates(q) /\ x \notin Elements(q) => NoDuplicates(<<x>> \o q)
  <2>1. 1..(Len(q) + 1) = {1} \cup 2..(Len(q) + 1) BY <1>0
  <2>2. \A i \in 2..(Len(q) + 1) : i - 1 \in 1..Len(q) BY <1>0
  <2>3. \A i \in 1..Len(q) : i + 1 \in 2..(Len(q) + 1) BY <1>0
  <2>4. Elements(<<x>> \o q) = Elements(q) \cup {x}
    <3>1. ASSUME NEW y \in Elements(<<x>> \o q) PROVE y \in Elements(q) \cup {x}
      BY <1>0, <1>3, <2>1, <2>2
    <3>2. ASSUME NEW y \in Elements(q) \cup {x} PROVE y \in Elements(<<x>> \o q)
      <4>1. CASE y = x BY <1>0, <1>3, <2>1, <4>1
      <4>2. CASE y # x
        <5>1. PICK i \in 1..Len(q) : y = q[i] BY <3>2, <4>2
        <5>2. y = (<<x>> \o q)[i + 1] /\ i + 1 \in 1..(Len(q) + 1)
          BY <1>0, <1>3, <5>1
        <5> QED BY <1>3, <5>2
      <4> QED BY <4>1, <4>2
    <3> QED BY <3>1, <3>2
  <2>5. ASSUME NoDuplicates(q), x \notin Elements(q)
        PROVE  NoDuplicates(<<x>> \o q)
    BY <1>0, <1>3, <2>1, <2>2, <2>5
  <2> QED BY <2>4, <2>5
<1>5. ASSUME q # << >>
      PROVE  /\ Head(q) \in Elements(q)
             /\ NoDuplicates(q) => /\ Elements(Tail(q)) = Elements(q) \ {Head(q)}
                                   /\ NoDuplicates(Tail(q))
  <2>1. /\ Len(q) >= 1 /\ Head(q) = q[1] /\ Len(Tail(q)) = Len(q) - 1
        /\ \A i \in 1..Len(Tail(q)) : Tail(q)[i] = q[i + 1]
    BY <1>0, <1>5, HeadTailProperties
  <2>2. \A i \in 1..Len(Tail(q)) : i + 1 \in 1..Len(q) BY <1>0, <2>1
  <2>3. \A i \in 1..Len(q) : i # 1 => i - 1 \in 1..Len(Tail(q)) /\ (i - 1) + 1 = i
    BY <1>0, <2>1
  <2>4. ASSUME NoDuplicates(q) PROVE Elements(Tail(q)) = Elements(q) \ {Head(q)}
    <3>1. ASSUME NEW y \in Elements(Tail(q)) PROVE y \in Elements(q) \ {Head(q)}
      <4>1. PICK i \in 1..Len(Tail(q)) : y = q[i + 1] BY <2>1, <3>1
      <4>2. i + 1 # 1 /\ i + 1 \in 1..Len(q) /\ 1 \in 1..Len(q)
        BY <1>0, <2>1, <2>2
      <4> QED BY <2>1, <2>4, <4>1, <4>2
    <3>2. ASSUME NEW y \in Elements(q) \ {Head(q)} PROVE y \in Elements(Tail(q))
      <4>1. PICK i \in 1..Len(q) : y = q[i] BY <3>2
      <4>2. i # 1 BY <2>1, <3>2, <4>1
      <4> QED BY <2>1, <2>3, <4>1, <4>2
    <3> QED BY <3>1, <3>2
  <2>5. ASSUME NoDuplicates(q) PROVE NoDuplicates(Tail(q))
    BY <1>0, <2>1, <2>2, <2>5
  <2>6. Head(q) \in Elements(q) BY <1>0, <2>1
  <2> QED BY <2>4, <2>5, <2>6
<1> QED BY <1>2, <1>4, <1>5

\* The first task of a list is a task of the list.
LEMMA HeadIn ==
  ASSUME NEW q \in Seq(Tasks), q # << >>
  PROVE  /\ Head(q) \in Tasks /\ Head(q) \in Elements(q)
         /\ NoDuplicates(q) => /\ Elements(Tail(q)) = Elements(q) \ {Head(q)}
                               /\ NoDuplicates(Tail(q))
<1>1. Head(q) \in Tasks BY HeadTailProperties
<1> QED BY <1>1, ElementsOps

\* The task of a worker is on p_running and nowhere else; when the worker
\* leaves it, the others still run theirs.
LEMMA RunningTask ==
  ASSUME TypeOK, OnePlace, NEW th \in Threads, cur[th] # Free
  PROVE  /\ cur[th] \in Tasks /\ cur[th] \in p_running
         /\ cur[th] \notin Elements(p_available) /\ cur[th] \notin p_waiting
         /\ cur[th] \notin unborn
         /\ StopsRunning(th) => RunByOne'
<1>1. cur[th] \in Tasks /\ cur[th] \in p_running
  BY DEF TypeOK, OnePlace, RunByOne
<1>2. /\ cur[th] \notin Elements(p_available) /\ cur[th] \notin p_waiting
      /\ cur[th] \notin unborn
  BY <1>1 DEF OnePlace, ListedOnce
<1>3. ASSUME StopsRunning(th) PROVE RunByOne'
  <2>1. \A x \in Threads : cur'[x] = IF x = th THEN Free ELSE cur[x]
    BY <1>3 DEF StopsRunning, TypeOK
  <2>2. p_running' = {cur'[x] : x \in Threads} \ {Free}
    BY <1>3, <2>1 DEF StopsRunning, OnePlace, RunByOne
  <2> QED BY <2>1, <2>2 DEF OnePlace, RunByOne
<1> QED BY <1>1, <1>2, <1>3

\* A notification moves one task from its wait list and p_waiting to
\* p_available.
LEMMA WakeOnePlace ==
  ASSUME TypeOK, OnePlace, NEW c \in Conds, wl[c] # << >>, WakeFirst(c),
         UNCHANGED <<p_running, cur, unborn>>
  PROVE  OnePlace'
<1> DEFINE w == Head(wl[c])
<1>1. /\ w \in Tasks /\ w \in Elements(wl[c])
      /\ Elements(Tail(wl[c])) = Elements(wl[c]) \ {w}
      /\ NoDuplicates(Tail(wl[c]))
  BY HeadIn DEF TypeOK, OnePlace, LinkedOnce
<1>2. w \in p_waiting /\ waiting_on[w] = c
  BY <1>1 DEF OnePlace, LinkedOnce
<1>3. /\ waiting_on' = [waiting_on EXCEPT ![w] = Free]
      /\ p_waiting' = p_waiting \ {w}
      /\ p_available' = <<w>> \o p_available
      /\ wl' = [wl EXCEPT ![c] = Tail(@)]
  BY DEF WakeFirst
<1> HIDE DEF w
<1>4. ListedOnce'
  <2>1. w \notin Elements(p_available) BY <1>2 DEF OnePlace, ListedOnce
  <2>2. /\ Elements(p_available') = Elements(p_available) \cup {w}
        /\ NoDuplicates(p_available')
    BY <1>1, <1>3, <2>1, ElementsOps DEF TypeOK, OnePlace, ListedOnce
  <2> QED BY <1>2, <1>3, <2>2 DEF OnePlace, ListedOnce
<1>5. RunByOne' BY DEF OnePlace, RunByOne
<1>6. LinkedOnce'
  <2>1. \A t \in Tasks : waiting_on'[t] = IF t = w THEN Free ELSE waiting_on[t]
    BY <1>3 DEF TypeOK
  <2>2. wl'[c] = Tail(wl[c]) /\ \A d \in Conds \ {c} : wl'[d] = wl[d]
    BY <1>3 DEF w, TypeOK
  <2>3. p_waiting \subseteq Tasks BY DEF TypeOK
  <2>4. ASSUME NEW d \in Conds
        PROVE  /\ NoDuplicates(wl'[d])
               /\ Elements(wl'[d]) = {t \in p_waiting' : waiting_on'[t] = d}
    <3>1. CASE d = c
      BY <1>1, <1>2, <1>3, <2>1, <2>2, <2>3, <3>1, FreeAssumption
         DEF OnePlace, LinkedOnce
    <3>2. CASE d # c
      BY <1>2, <1>3, <2>1, <2>2, <2>3, <3>2, FreeAssumption
         DEF OnePlace, LinkedOnce
    <3> QED BY <3>1, <3>2
  <2>5. \A t \in p_waiting' : waiting_on'[t] # Free
    BY <1>3, <2>1, <2>3 DEF OnePlace, LinkedOnce
  <2> QED BY <2>4, <2>5 DEF LinkedOnce
<1> QED BY <1>4, <1>5, <1>6 DEF OnePlace

LEMMA OnePlaceStep ==
  ASSUME TypeOK, OnePlace, Next
  PROVE  OnePlace'
<1> USE FreeAssumption DEF Goto, lists
\* No list, link or task of a worker changes.
<1>c. ASSUME UNCHANGED <<p_available, p_waiting, p_running, wl, waiting_on, cur,
                         unborn>>
      PROVE  OnePlace'
  BY <1>c DEF OnePlace, ListedOnce, RunByOne, LinkedOnce
<1>1. ASSUME NEW th \in Threads, Take(th) PROVE OnePlace'
  <2> DEFINE t == Head(p_available)
  <2>1. /\ t \in Tasks /\ t \in Elements(p_available)
        /\ Elements(Tail(p_available)) = Elements(p_available) \ {t}
        /\ NoDuplicates(Tail(p_available))
    BY <1>1, HeadIn DEF Take, TypeOK, OnePlace, ListedOnce
  <2>2. /\ p_available' = Tail(p_available)
        /\ p_running' = p_running \cup {t}
        /\ cur' = [cur EXCEPT ![th] = t]
        /\ UNCHANGED <<p_waiting, wl, waiting_on, unborn>>
        /\ cur[th] = Free
    BY <1>1 DEF Take, TypeOK, RunStates
  <2> HIDE DEF t
  <2>3. ListedOnce' BY <2>1, <2>2 DEF OnePlace, ListedOnce
  <2>4. RunByOne'
    <3>1. \A x \in Threads : cur'[x] = IF x = th THEN t ELSE cur[x]
      BY <2>2 DEF TypeOK
    <3>2. t \notin p_running /\ t # Free
      BY <2>1 DEF OnePlace, ListedOnce
    <3>3. p_running' = {cur'[x] : x \in Threads} \ {Free}
      BY <2>2, <3>1, <3>2 DEF OnePlace, RunByOne
    <3>4. \A x \in Threads : cur[x] # t
      BY <3>2 DEF OnePlace, RunByOne
    <3> QED BY <3>1, <3>3, <3>4 DEF OnePlace, RunByOne
  <2>5. LinkedOnce' BY <2>2 DEF OnePlace, LinkedOnce
  <2> QED BY <2>3, <2>4, <2>5 DEF OnePlace
<1>2. ASSUME NEW th \in Threads, Finish(th) PROVE OnePlace'
  <2>1. cur[th] # Free BY <1>2 DEF Finish, TypeOK, RunStates
  <2>2. RunByOne' BY <1>2, <2>1, RunningTask DEF Finish
  <2>3. ListedOnce' BY <1>2 DEF Finish, StopsRunning, OnePlace, ListedOnce
  <2>4. LinkedOnce' BY <1>2 DEF Finish, OnePlace, LinkedOnce
  <2> QED BY <2>2, <2>3, <2>4 DEF OnePlace
<1>3. ASSUME NEW th \in Threads, Requeue(th) PROVE OnePlace'
  <2>1. cur[th] # Free BY <1>3 DEF Requeue, TypeOK, RunStates
  <2>2. RunByOne' BY <1>3, <2>1, RunningTask DEF Requeue
  <2>3. /\ Elements(p_available') = Elements(p_available) \cup {cur[th]}
        /\ NoDuplicates(p_available')
    BY <1>3, <2>1, RunningTask, ElementsOps
       DEF Requeue, TypeOK, OnePlace, ListedOnce
  <2>4. ListedOnce'
    <3>1. cur[th] \notin p_waiting /\ cur[th] \notin unborn
      BY <2>1, RunningTask
    <3>2. p_running' = p_running \ {cur[th]} /\ UNCHANGED <<p_waiting, unborn>>
      BY <1>3 DEF Requeue, StopsRunning
    <3> QED BY <2>3, <3>1, <3>2 DEF OnePlace, ListedOnce
  <2>5. LinkedOnce' BY <1>3 DEF Requeue, OnePlace, LinkedOnce
  <2> QED BY <2>2, <2>4, <2>5 DEF OnePlace
<1>4. ASSUME NEW th \in Threads, Park(th) PROVE OnePlace'
  <2> DEFINE t == cur[th]
             c == waiting_on[t]
  <2>1. t # Free BY <1>4 DEF Park, TypeOK, RunStates
  <2>2. /\ t \in Tasks /\ t \in p_running /\ t \notin Elements(p_available)
        /\ t \notin p_waiting /\ t \notin unborn
    BY <2>1, RunningTask
  <2>3. c \in Conds BY <1>4, <2>2 DEF Park, TypeOK
  <2>4. /\ p_running' = p_running \ {t} /\ p_waiting' = p_waiting \cup {t}
        /\ wl' = [wl EXCEPT ![c] = <<t>> \o @]
        /\ UNCHANGED <<p_available, waiting_on, unborn>>
    BY <1>4 DEF Park, StopsRunning
  <2>5. RunByOne' BY <1>4, <2>1, RunningTask DEF Park
  <2>6. waiting_on[t] = c OBVIOUS
  <2> HIDE DEF t, c
  <2>7. ListedOnce' BY <2>2, <2>4 DEF OnePlace, ListedOnce
  <2>8. LinkedOnce'
    <3>1. wl'[c] = <<t>> \o wl[c] /\ \A d \in Conds \ {c} : wl'[d] = wl[d]
      BY <2>3, <2>4 DEF TypeOK
    <3>2. NoDuplicates(wl[c]) /\ t \notin Elements(wl[c]) /\ wl[c] \in Seq(Tasks)
      BY <2>2, <2>3 DEF OnePlace, LinkedOnce, TypeOK
    <3>3. Elements(wl'[c]) = Elements(wl[c]) \cup {t} /\ NoDuplicates(wl'[c])
      BY <2>2, <3>1, <3>2, ElementsOps
    <3>4. ASSUME NEW d \in Conds
          PROVE  /\ NoDuplicates(wl'[d])
                 /\ Elements(wl'[d]) = {u \in p_waiting' : waiting_on'[u] = d}
      <4>1. CASE d = c
        BY <2>3, <2>4, <2>6, <3>3, <4>1 DEF OnePlace, LinkedOnce
      <4>2. CASE d # c
        BY <2>3, <2>4, <2>6, <3>1, <4>2 DEF OnePlace, LinkedOnce
      <4> QED BY <4>1, <4>2
    <3>5. \A u \in p_waiting' : waiting_on'[u] # Free
      BY <2>3, <2>4, <2>6 DEF OnePlace, LinkedOnce
    <3> QED BY <3>4, <3>5 DEF LinkedOnce
  <2> QED BY <2>5, <2>7, <2>8 DEF OnePlace
<1>5. ASSUME NEW th \in Threads, NEW u \in Tasks, Spawn(th, u) PROVE OnePlace'
  <2>1. u \notin Elements(p_available)
    BY <1>5 DEF Spawn, OnePlace, ListedOnce
  <2>2. /\ Elements(p_available') = Elements(p_available) \cup {u}
        /\ NoDuplicates(p_available')
    BY <1>5, <2>1, ElementsOps DEF Spawn, TypeOK, OnePlace, ListedOnce
  <2>3. ListedOnce' BY <1>5, <2>2 DEF Spawn, OnePlace, ListedOnce
  <2> QED BY <1>5, <2>3 DEF Spawn, OnePlace, RunByOne, LinkedOnce
<1>6. ASSUME NEW th \in Threads, WaitRelease(th) PROVE OnePlace'
  <2> DEFINE t == cur[th]
  <2>1. t # Free BY <1>6 DEF WaitRelease, TypeOK, RunStates
  <2>2. t \notin p_waiting BY <2>1, RunningTask
  <2>3. /\ \A u \in p_waiting : waiting_on'[u] = waiting_on[u]
        /\ UNCHANGED <<p_available, p_waiting, p_running, wl, cur, unborn>>
    BY <1>6, <2>2 DEF WaitRelease, TypeOK
  <2> HIDE DEF t
  <2>4. LinkedOnce' BY <2>3 DEF OnePlace, LinkedOnce
  <2> QED BY <2>3, <2>4 DEF OnePlace, ListedOnce, RunByOne
<1>7. ASSUME NEW th \in Threads, NotifyOneWake(th) \/ NotifyAllWake(th)
      PROVE  OnePlace'
  <2>1. arg[cur[th]] \in Conds
    BY <1>7 DEF NotifyOneWake, NotifyAllWake, TypeOK, CondStates, RunStates
  <2> QED BY <1>7, <2>1, WakeOnePlace DEF NotifyOneWake, NotifyAllWake
<1>8. ASSUME NEW th \in Threads,
             \/ Sleep(th) \/ Exit(th) \/ SpuriousWake(th) \/ Poke(th)
             \/ LastNotify(th) \/ Unlock(th) \/ WaitLock(th) \/ Relock(th)
             \/ NotifyOneEmpty(th) \/ NotifyAllDone(th)
      PROVE  OnePlace'
  BY <1>8, <1>c DEF Sleep, Exit, SpuriousWake, Poke, LastNotify, Unlock,
                    WaitLock, Relock, NotifyOneEmpty, NotifyAllDone
<1>9. ASSUME NEW th \in Threads, NEW c \in Conds,
             Lock(th, c) \/ \E kind \in Notifies : CallNotify(th, c, kind)
      PROVE  OnePlace'
  BY <1>9, <1>c DEF Lock, CallNotify
<1>10. CASE Terminating BY <1>10, <1>c DEF Terminating, vars
<1> QED
  BY <1>1, <1>2, <1>3, <1>4, <1>5, <1>6, <1>7, <1>8, <1>9, <1>10
     DEF Next, Step, Dispatch, Return, Call, InCall

\* However the workers interleave, a task is on one list, once, run by one
\* worker, and linked to the condition variable it waits on.
THEOREM TasksAreInOnePlace == SafetySpec => []OnePlace
<1>1. Init => OnePlace
  <2> SUFFICES ASSUME Init PROVE OnePlace OBVIOUS
  <2>1. Len(<<Main>>) = 1 /\ <<Main>>[1] = Main /\ Len(<< >>) = 0 OBVIOUS
  <2>2. Elements(<<Main>>) = {Main} /\ NoDuplicates(<<Main>>)
    BY <2>1 DEF Elements, NoDuplicates
  <2>3. Elements(<< >>) = {} /\ NoDuplicates(<< >>)
    BY <2>1 DEF Elements, NoDuplicates
  <2> QED BY <2>2, <2>3, FreeAssumption, MainAssumption
          DEF Init, OnePlace, ListedOnce, RunByOne, LinkedOnce
<1>2. TypeOK /\ OnePlace /\ [Next]_vars => OnePlace'
  <2>1. CASE UNCHANGED vars BY <2>1 DEF vars, lists, OnePlace, ListedOnce, RunByOne, LinkedOnce
  <2> QED BY <2>1, OnePlaceStep
<1> QED BY <1>1, <1>2, TypeCorrect, PTL DEF SafetySpec
-----------------------------------------------------------------------------
\* A worker leaves only when every list is empty, and they stay empty: what
\* could fill them again is done by a running task.
THEOREM WorkersLeaveLast == SafetySpec => []ExitsWhenDone
<1>1. Init => ExitsWhenDone
  BY DEF Init, ExitsWhenDone
<1>2. TypeOK /\ OnePlace /\ ExitsWhenDone /\ [Next]_vars => ExitsWhenDone'
  <2> SUFFICES ASSUME TypeOK, OnePlace, ExitsWhenDone, [Next]_vars,
                      NEW x \in Threads, pc'[x] = "exit"
               PROVE  ListsEmpty'
    BY DEF ExitsWhenDone
  <2> USE DEF ListsEmpty, lists
  <2>1. CASE UNCHANGED vars BY <2>1 DEF vars, ExitsWhenDone
  <2>2. ASSUME NEW th \in Threads, Exit(th) PROVE ListsEmpty'
    BY <2>2 DEF Exit
  \* Any other step leaves the workers that have left where they are; so one
  \* had left before, the lists were empty and no worker was inside a task.
  <2>3. ASSUME Next, \A th \in Threads : ~Exit(th) PROVE ListsEmpty'
    <3>1. pc[x] = "exit"
      <4>1. ASSUME NEW th \in Threads, Poke(th) PROVE pc[x] = "exit"
        <5>1. AfterPoke(pc[th]) # "exit" BY <4>1 DEF Poke, AfterPoke, PokeStates
        <5> QED BY <4>1, <5>1 DEF Poke, Goto, Sleepers, At, TypeOK
      <4>2. ASSUME NEW th \in Threads, Take(th) PROVE pc[x] = "exit"
        <5>1. Head(p_available) \in Tasks
          BY <4>2, HeadTailProperties DEF Take, TypeOK
        <5> QED BY <4>2, <5>1 DEF Take, Goto, TypeOK
      <4>3. ASSUME NEW th \in Threads, NEW l, Goto(th, l), l # "exit"
            PROVE  pc[x] = "exit"
        BY <4>3 DEF Goto, TypeOK
      <4>4. ASSUME NEW th \in Threads, Sleep(th) \/ SpuriousWake(th)
            PROVE  pc[x] = "exit"
        BY <4>3, <4>4 DEF Sleep, SpuriousWake
      <4>5. ASSUME NEW th \in Threads, LastNotify(th) PROVE pc[x] = "exit"
        BY <4>5 DEF LastNotify, TypeOK
      <4>6. ASSUME NEW th \in Threads, Return(th) PROVE pc[x] = "exit"
        <5>1. PICK l \in {"last", "top", "poke"} : Goto(th, l)
          BY <4>6 DEF Return, Finish, Requeue, Park
        <5> QED BY <4>3, <5>1
      <4>7. ASSUME NEW th \in Threads, Call(th) PROVE pc[x] = "exit"
        <5>1. PICK l \in RunStates : Goto(th, l)
          BY <4>7, NotifiesAssumption
             DEF Call, Spawn, Lock, CallNotify, Unlock, WaitLock, RunStates
        <5> QED BY <4>3, <5>1 DEF RunStates
      <4>8. ASSUME NEW th \in Threads, InCall(th) PROVE pc[x] = "exit"
        <5>1. PICK l \in RunStates : Goto(th, l)
          BY <4>8 DEF InCall, WaitRelease, Relock, NotifyOneEmpty, NotifyOneWake,
                      NotifyAllWake, NotifyAllDone, RunStates
        <5> QED BY <4>3, <5>1 DEF RunStates
      <4>9. CASE Terminating BY <4>9 DEF Terminating, vars
      <4> QED
        BY <2>3, <4>1, <4>2, <4>4, <4>5, <4>6, <4>7, <4>8, <4>9
           DEF Next, Step, Dispatch
    <3>2. ListsEmpty BY <3>1 DEF ExitsWhenDone
    <3>3. \A th \in Threads : pc[th] \notin RunStates
      <4>1. \A th \in Threads : cur[th] = Free BY <3>2 DEF OnePlace, RunByOne
      <4> QED BY <4>1 DEF TypeOK
    <3>4. \A th \in Threads : ~Return(th) /\ ~Call(th) /\ ~InCall(th)
      <4> TAKE th \in Threads
      <4>1. ~Return(th)
        BY <3>3 DEF Return, Finish, Requeue, Park, RunStates
      <4>2. ~Call(th)
        BY <3>3 DEF Call, Spawn, Lock, Calls, Unlock, WaitLock, CallNotify, RunStates
      <4>3. ~InCall(th)
        BY <3>3 DEF InCall, WaitRelease, Relock, NotifyOneEmpty, NotifyOneWake,
                    NotifyAllWake, NotifyAllDone, RunStates
      <4> QED BY <4>1, <4>2, <4>3
    <3>5. ASSUME NEW th \in Threads,
                 \/ Dispatch(th) \/ Poke(th) \/ LastNotify(th)
                 \/ SpuriousWake(th) \/ Terminating
          PROVE  UNCHANGED lists
      BY <3>2, <3>5 DEF Dispatch, Take, Sleep, Exit, Poke, LastNotify,
                        SpuriousWake, Terminating, vars
    <3> QED BY <2>3, <3>2, <3>4, <3>5 DEF Next, Step
  <2> QED BY <2>1, <2>2, <2>3
<1> QED BY <1>1, <1>2, TypeCorrect, TasksAreInOnePlace, PTL DEF SafetySpec
-----------------------------------------------------------------------------
(* The condition variable that tasks see: task_cond implements Condvar.    *)

\* A task that has begun to wait and is not linked yet is inside the critical
\* section that wait opened; only tasks that wait or were woken go on with the
\* mutex to lock.
WaitsWell ==
  /\ \A t \in Tasks : waiting_on[t] # Free =>
       /\ waiting_on[t] = arg[t]
       /\ \/ t \in p_waiting
          \/ \E th \in Threads : cur[th] = t /\ pc[th] = "yield" /\ p_lock = th
  /\ \A th \in Threads : pc[th] = "wait_locked" => p_lock = th
  /\ \A t \in p_waiting : resume[t] = "relock"
  /\ \A t \in p_running \cup unborn : resume[t] = "user"

\* A task that is run waits for nothing, unless wait has just released its mutex.
LEMMA NotWaiting ==
  ASSUME TypeOK, OnePlace, WaitsWell, NEW th \in Threads, cur[th] # Free
  PROVE  /\ cur[th] \in Tasks /\ cur[th] \in p_running /\ cur[th] \notin p_waiting
         /\ resume[cur[th]] = "user"
         /\ waiting_on[cur[th]] # Free => pc[th] = "yield" /\ p_lock = th
<1>1. cur[th] \in Tasks /\ cur[th] \in p_running /\ cur[th] \notin p_waiting
  BY RunningTask
<1>2. resume[cur[th]] = "user"
  BY <1>1 DEF WaitsWell
<1>3. ASSUME waiting_on[cur[th]] # Free PROVE pc[th] = "yield" /\ p_lock = th
  <2>1. PICK x \in Threads : cur[x] = cur[th] /\ pc[x] = "yield" /\ p_lock = x
    BY <1>1, <1>3 DEF WaitsWell
  <2>2. x = th
    BY <2>1 DEF OnePlace, RunByOne
  <2> QED BY <2>1, <2>2
<1> QED BY <1>1, <1>2, <1>3

\* A step that neither blocks nor wakes a task.
LEMMA WaitsKept ==
  ASSUME TypeOK, OnePlace, WaitsWell,
         waiting_on' = waiting_on, p_waiting' = p_waiting, resume' = resume,
         p_running' \cup unborn' \subseteq p_running \cup unborn,
         \A t \in Tasks : waiting_on[t] # Free => arg'[t] = arg[t],
         \A x \in Threads : pc'[x] = "wait_locked" => p_lock' = x,
         \A x \in Threads :
           cur[x] # Free /\ waiting_on[cur[x]] # Free /\ pc[x] = "yield" /\ p_lock = x =>
             cur'[x] = cur[x] /\ pc'[x] = "yield" /\ p_lock' = x
  PROVE  WaitsWell'
<1>1. \A t \in Tasks : t # Free
  BY FreeAssumption
<1>2. ASSUME NEW t \in Tasks, waiting_on[t] # Free
      PROVE  /\ waiting_on[t] = arg'[t]
             /\ t \in p_waiting \/ \E th \in Threads : cur'[th] = t /\ pc'[th] = "yield" /\ p_lock' = th
  BY <1>1, <1>2 DEF WaitsWell
<1>3. \A t \in p_running' \cup unborn' : resume'[t] = "user"
  BY DEF WaitsWell
<1> QED BY <1>2, <1>3 DEF WaitsWell

LEMMA WaitsWellStep ==
  ASSUME TypeOK, OnePlace, WaitsWell, [Next]_vars
  PROVE  WaitsWell'
<1> USE DEF Goto, lists
<1>f. \A x \in Threads : x # Free
  BY FreeAssumption
<1>1. ASSUME NEW th \in Threads, Take(th) PROVE WaitsWell'
  <2> DEFINE t == Head(p_available)
  <2>1. t \in Tasks /\ t \in Elements(p_available)
    BY <1>1, HeadIn DEF Take, TypeOK
  <2>2. /\ p_running' = p_running \cup {t} /\ cur' = [cur EXCEPT ![th] = t]
        /\ resume' = [resume EXCEPT ![t] = "user"] /\ pc' = [pc EXCEPT ![th] = resume[t]]
        /\ UNCHANGED <<p_lock, p_waiting, waiting_on, arg, unborn>> /\ pc[th] = "top"
    BY <1>1 DEF Take
  <2> HIDE DEF t
  <2>3. t \notin p_waiting /\ resume[t] \in {"user", "relock"}
    BY <2>1 DEF OnePlace, ListedOnce, TypeOK
  <2>4. \A x \in Threads : pc[x] \in {"yield", "wait_locked"} =>
                             pc'[x] = pc[x] /\ cur'[x] = cur[x]
    BY <2>2 DEF TypeOK
  <2>5. \A x \in Threads : pc'[x] = "wait_locked" => pc[x] = "wait_locked"
    BY <2>2, <2>3 DEF TypeOK
  <2>6. \A u \in Tasks : resume'[u] = IF u = t THEN "user" ELSE resume[u]
    BY <2>2 DEF TypeOK
  <2>7. ASSUME NEW u \in Tasks, waiting_on'[u] # Free
        PROVE  /\ waiting_on'[u] = arg'[u]
               /\ u \in p_waiting' \/ \E x \in Threads : cur'[x] = u /\ pc'[x] = "yield" /\ p_lock' = x
    BY <2>2, <2>4, <2>7 DEF WaitsWell
  <2>8. \A u \in p_waiting' : resume'[u] = "relock"
    BY <2>2, <2>3, <2>6 DEF WaitsWell, TypeOK
  <2>9. \A u \in p_running' \cup unborn' : resume'[u] = "user"
    BY <2>1, <2>2, <2>6 DEF WaitsWell, TypeOK
  <2>10. \A x \in Threads : pc'[x] = "wait_locked" => p_lock' = x
    BY <2>2, <2>5 DEF WaitsWell
  <2> QED BY <2>7, <2>8, <2>9, <2>10 DEF WaitsWell
<1>2. ASSUME NEW th \in Threads, Park(th) PROVE WaitsWell'
  <2> DEFINE t == cur[th]
  <2>1. t # Free
    BY <1>2 DEF Park, TypeOK, RunStates
  <2>2. t \in Tasks /\ t \in p_running /\ t \notin unborn /\ p_lock = th
    BY <1>2, <2>1, NotWaiting, RunningTask DEF Park
  <2>3. /\ p_running' = p_running \ {t} /\ p_waiting' = p_waiting \cup {t}
        /\ resume' = [resume EXCEPT ![t] = "relock"] /\ pc' = [pc EXCEPT ![th] = "top"]
        /\ cur' = [cur EXCEPT ![th] = Free]
        /\ UNCHANGED <<waiting_on, arg, unborn>>
    BY <1>2 DEF Park, StopsRunning
  <2> HIDE DEF t
  <2>4. \A u \in Tasks : resume'[u] = IF u = t THEN "relock" ELSE resume[u]
    BY <2>3 DEF TypeOK
  <2>5. ASSUME NEW u \in Tasks, waiting_on'[u] # Free
        PROVE  waiting_on'[u] = arg'[u] /\ u \in p_waiting'
    <3>1. ASSUME NEW x \in Threads, cur[x] = u, p_lock = x PROVE u = t
      BY <2>2, <3>1 DEF t
    <3> QED BY <2>3, <2>5, <3>1 DEF WaitsWell
  <2>6. \A x \in Threads : pc'[x] # "wait_locked"
    BY <2>2, <2>3 DEF WaitsWell, TypeOK
  <2>7. \A u \in p_waiting' : resume'[u] = "relock"
    BY <2>2, <2>3, <2>4 DEF WaitsWell, TypeOK
  <2>8. \A u \in p_running' \cup unborn' : resume'[u] = "user"
    BY <2>2, <2>3, <2>4 DEF WaitsWell, TypeOK
  <2> QED BY <2>5, <2>6, <2>7, <2>8 DEF WaitsWell
<1>3. ASSUME NEW th \in Threads, WaitRelease(th) PROVE WaitsWell'
  <2> DEFINE t == cur[th]
  <2>1. t \in Tasks /\ t \in p_running /\ p_lock = th /\ arg[t] # Free
    BY <1>3, RunningTask DEF WaitRelease, TypeOK, RunStates, CondStates, WaitsWell
  <2>2. /\ waiting_on' = [waiting_on EXCEPT ![t] = arg[t]] /\ pc' = [pc EXCEPT ![th] = "yield"]
        /\ UNCHANGED <<p_lock, p_waiting, p_running, cur, resume, arg, unborn>>
    BY <1>3 DEF WaitRelease
  <2>3. cur'[th] = t
    BY <2>2
  <2> HIDE DEF t
  <2>4. /\ \A u \in Tasks : waiting_on'[u] = IF u = t THEN arg[t] ELSE waiting_on[u]
        /\ \A x \in Threads : pc'[x] = IF x = th THEN "yield" ELSE pc[x]
    BY <2>2 DEF TypeOK
  <2>5. ASSUME NEW u \in Tasks, waiting_on'[u] # Free
        PROVE  /\ waiting_on'[u] = arg'[u]
               /\ u \in p_waiting' \/ \E x \in Threads : cur'[x] = u /\ pc'[x] = "yield" /\ p_lock' = x
    <3>1. CASE u = t
      BY <2>1, <2>2, <2>3, <2>4, <3>1
    <3>2. CASE u # t
      BY <2>2, <2>4, <2>5, <3>2 DEF WaitsWell
    <3> QED BY <3>1, <3>2
  <2> QED BY <2>2, <2>4, <2>5 DEF WaitsWell
<1>4. ASSUME NEW th \in Threads, NotifyOneWake(th) \/ NotifyAllWake(th) PROVE WaitsWell'
  <2> DEFINE c == arg[cur[th]]
             w == Head(wl[c])
  <2>1. c \in Conds /\ wl[c] # << >> /\ WakeFirst(c)
    BY <1>4 DEF NotifyOneWake, NotifyAllWake, TypeOK, CondStates, RunStates
  <2>2. w \in Tasks /\ w \in Elements(wl[c])
    BY <2>1, HeadIn DEF TypeOK
  <2>3. w \in p_waiting
    BY <2>1, <2>2 DEF OnePlace, LinkedOnce
  <2>4. /\ waiting_on' = [waiting_on EXCEPT ![w] = Free] /\ p_waiting' = p_waiting \ {w}
        /\ UNCHANGED <<p_lock, p_running, cur, resume, arg, unborn>>
    BY <1>4, <2>1 DEF WakeFirst, NotifyOneWake, NotifyAllWake
  <2>5. /\ pc[th] # "yield"
        /\ \A x \in Threads : (x # th => pc'[x] = pc[x]) /\ pc'[th] \notin {"yield", "wait_locked"}
    BY <1>4 DEF NotifyOneWake, NotifyAllWake, TypeOK
  <2> HIDE DEF c, w
  <2>6. \A u \in Tasks : waiting_on'[u] = IF u = w THEN Free ELSE waiting_on[u]
    BY <2>4 DEF TypeOK
  <2>7. ASSUME NEW u \in Tasks, waiting_on'[u] # Free
        PROVE  /\ waiting_on'[u] = arg'[u]
               /\ u \in p_waiting' \/ \E x \in Threads : cur'[x] = u /\ pc'[x] = "yield" /\ p_lock' = x
    BY <2>4, <2>5, <2>6, <2>7 DEF WaitsWell
  <2> QED BY <2>4, <2>5, <2>7 DEF WaitsWell
<1>5. ASSUME NEW th \in Threads, Finish(th) \/ Requeue(th) PROVE WaitsWell'
  <2>1. /\ p_running' \subseteq p_running /\ waiting_on[cur[th]] = Free
        /\ UNCHANGED <<waiting_on, p_waiting, resume, unborn, arg, p_lock>>
        /\ cur' = [cur EXCEPT ![th] = Free]
        /\ \E l \in {"last", "top", "poke"} : pc' = [pc EXCEPT ![th] = l]
    <3>1. CASE Finish(th)
      <4>1. pc[th] = "user" /\ cur[th] # Free
        BY <3>1 DEF Finish, TypeOK, RunStates
      <4> QED BY <3>1, <4>1, NotWaiting DEF Finish, StopsRunning
    <3>2. CASE Requeue(th)
      BY <3>2 DEF Requeue, StopsRunning
    <3> QED BY <1>5, <3>1, <3>2
  <2>2. \A x \in Threads : x # th => pc'[x] = pc[x] /\ cur'[x] = cur[x]
    BY <2>1 DEF TypeOK
  <2>3. pc'[th] # "wait_locked"
    BY <2>1 DEF TypeOK
  <2>4. \A x \in Threads : pc'[x] = "wait_locked" => p_lock' = x
    BY <2>1, <2>2, <2>3 DEF WaitsWell
  <2> QED BY <2>1, <2>2, <2>4, WaitsKept
<1>7. ASSUME NEW th \in Threads, NEW l \in PCs \ {"wait_locked"}, Goto(th, l), pc[th] # "yield",
             UNCHANGED <<waiting_on, p_waiting, p_running, resume, cur, p_lock>>,
             unborn' \subseteq unborn,
             arg' = arg \/ (cur[th] # Free /\ \E c \in Conds : arg' = [arg EXCEPT ![cur[th]] = c])
      PROVE  WaitsWell'
  <2>1. \A x \in Threads : pc'[x] = IF x = th THEN l ELSE pc[x]
    BY <1>7 DEF TypeOK
  <2>2. \A t \in Tasks : waiting_on[t] # Free => arg'[t] = arg[t]
    BY <1>7, NotWaiting DEF TypeOK
  <2>3. \A x \in Threads : pc'[x] = "wait_locked" => p_lock' = x
    BY <1>7, <2>1 DEF WaitsWell
  <2> QED BY <1>7, <2>1, <2>2, <2>3, WaitsKept
<1>8. ASSUME NEW th \in Threads,
             \/ Sleep(th) \/ Exit(th) \/ SpuriousWake(th) \/ Unlock(th) \/ Relock(th)
             \/ NotifyOneEmpty(th)
      PROVE  WaitsWell'
  <2>1. PICK l \in {"sleep", "exit", "top", "user", "locked"} :
          /\ Goto(th, l) /\ pc[th] # "yield"
          /\ UNCHANGED <<waiting_on, p_waiting, p_running, resume, cur, p_lock, unborn, arg>>
    BY <1>8 DEF Sleep, Exit, SpuriousWake, Unlock, Relock, NotifyOneEmpty
  <2>2. l \in PCs \ {"wait_locked"}
    BY DEF PCs, RunStates
  <2> QED BY <1>7, <2>1, <2>2
<1>9. ASSUME NEW th \in Threads, NotifyAllDone(th) PROVE WaitsWell'
  <2>1. "yield" \in PCs \ {"wait_locked"}
    BY DEF PCs, RunStates
  <2>2. /\ Goto(th, "yield") /\ pc[th] # "yield"
        /\ UNCHANGED <<waiting_on, p_waiting, p_running, resume, cur, p_lock, unborn, arg>>
    BY <1>9 DEF NotifyAllDone
  <2> QED BY <1>7, <2>1, <2>2
<1>10. ASSUME NEW th \in Threads, WaitLock(th) PROVE WaitsWell'
  <2>1. /\ p_lock = Free /\ p_lock' = th /\ pc' = [pc EXCEPT ![th] = "wait_locked"]
        /\ UNCHANGED <<waiting_on, p_waiting, p_running, resume, cur, unborn, arg>>
    BY <1>10 DEF WaitLock
  <2>2. \A x \in Threads : x # th => pc'[x] = pc[x]
    BY <2>1 DEF TypeOK
  <2>3. \A x \in Threads : pc'[x] = "wait_locked" => p_lock' = x
    BY <1>f, <2>1, <2>2 DEF WaitsWell
  <2> QED BY <1>f, <2>1, <2>3, WaitsKept
<1>11. ASSUME NEW th \in Threads, NEW u \in Tasks, Spawn(th, u) PROVE WaitsWell'
  <2>1. "spawned" \in PCs \ {"wait_locked"}
    BY DEF PCs, RunStates
  <2>2. /\ Goto(th, "spawned") /\ pc[th] # "yield" /\ unborn' \subseteq unborn
        /\ UNCHANGED <<waiting_on, p_waiting, p_running, resume, cur, p_lock, arg>>
    BY <1>11 DEF Spawn, Calls
  <2> QED BY <1>7, <2>1, <2>2
<1>12. ASSUME NEW th \in Threads, NEW c \in Conds,
              Lock(th, c) \/ \E kind \in Notifies : CallNotify(th, c, kind)
       PROVE  WaitsWell'
  <2>1. PICK l \in {"locked", "notify_one", "notify_all"} :
          /\ Goto(th, l) /\ pc[th] = "user" /\ arg' = [arg EXCEPT ![cur[th]] = c]
          /\ UNCHANGED <<waiting_on, p_waiting, p_running, resume, cur, p_lock, unborn>>
    BY <1>12, NotifiesAssumption DEF Lock, CallNotify, Calls
  <2>2. l \in PCs \ {"wait_locked"} /\ cur[th] # Free
    BY <2>1 DEF PCs, RunStates, TypeOK
  <2> QED BY <1>7, <2>1, <2>2
<1>13. ASSUME NEW th \in Threads, Poke(th) \/ LastNotify(th) PROVE WaitsWell'
  <2>1. UNCHANGED <<waiting_on, p_waiting, p_running, resume, cur, p_lock, unborn, arg>>
    BY <1>13 DEF Poke, LastNotify
  <2>2. \A x \in Threads : /\ pc'[x] = "wait_locked" => pc[x] = "wait_locked"
                           /\ pc[x] = "yield" => pc'[x] = "yield"
    <3>1. CASE LastNotify(th)
      BY <3>1 DEF LastNotify
    <3>2. CASE Poke(th)
      <4>1. AfterPoke(pc[th]) # "wait_locked" /\ pc[th] # "yield"
        BY <3>2 DEF Poke, PokeStates, AfterPoke
      <4> QED BY <3>2, <4>1 DEF Poke, Sleepers, At, TypeOK
    <3> QED BY <1>13, <3>1, <3>2
  <2>3. \A x \in Threads : pc'[x] = "wait_locked" => p_lock' = x
    BY <2>1, <2>2 DEF WaitsWell
  <2> QED BY <2>1, <2>2, <2>3, WaitsKept
<1>14. CASE Terminating \/ UNCHANGED vars
  BY <1>14 DEF Terminating, vars, WaitsWell
<1> QED
  BY <1>1, <1>2, <1>3, <1>4, <1>5, <1>8, <1>9, <1>10, <1>11, <1>12, <1>13, <1>14
     DEF Next, Step, Dispatch, Return, Call, InCall

\* A task waits on the condition variable it named, from the release of its mutex
\* on, and goes on with that mutex to lock.
THEOREM WaitsAreWell == SafetySpec => []WaitsWell
<1>1. Init => WaitsWell
  BY FreeAssumption DEF Init, WaitsWell
<1>2. TypeOK /\ OnePlace /\ WaitsWell /\ [Next]_vars => WaitsWell'
  BY WaitsWellStep
<1> QED BY <1>1, <1>2, TypeCorrect, TasksAreInOnePlace, PTL DEF SafetySpec

\* What a task is doing that is run by a worker at l and is linked, or about to
\* be, to the condition variable c.
Doing(l, c) == CASE l \in {"locked", "wait_locked"} -> "in"
                 [] l = "yield" /\ c # Free -> "waiting"
                 [] l = "relock" -> "woken"
                 [] l = "notify_one" -> "notify_one"
                 [] l \in {"notify_all", "woke_all"} -> "notify_all"
                 [] OTHER -> "out"

\* Standing, by where a task is.
Stands ==
  /\ \A t \in p_waiting : Standing(t) = "waiting"
  /\ \A t \in Tasks \ (p_waiting \cup p_running) :
       Standing(t) = IF resume[t] = "relock" THEN "woken" ELSE "out"
  /\ \A th \in Threads : cur[th] # Free =>
       Standing(cur[th]) = Doing(pc[th], waiting_on[cur[th]])

LEMMA TasksStand ==
  ASSUME TypeOK, OnePlace
  PROVE  Stands
<1>1. \A t \in p_waiting : Standing(t) = "waiting"
  BY DEF Standing
<1>2. ASSUME NEW t \in Tasks, t \notin p_waiting, t \notin p_running
      PROVE  Standing(t) = IF resume[t] = "relock" THEN "woken" ELSE "out"
  <2>1. t # Free
    BY FreeAssumption
  <2>2. {th \in Threads : cur[th] = t} = {}
    BY <1>2, <2>1 DEF OnePlace, RunByOne
  <2> QED BY <1>2, <2>2 DEF Standing
<1>3. ASSUME NEW th \in Threads, cur[th] # Free
      PROVE  Standing(cur[th]) = Doing(pc[th], waiting_on[cur[th]])
  <2> DEFINE t == cur[th]
             ths == {x \in Threads : cur[x] = t}
  <2>1. t \notin p_waiting
    BY <1>3, RunningTask
  <2>2. ths = {th}
    BY <1>3 DEF OnePlace, RunByOne
  <2>3. (CHOOSE x \in ths : TRUE) = th
    <3> HIDE DEF ths
    <3> QED BY <2>2
  <2> QED BY <2>1, <2>2, <2>3 DEF Standing, Doing
<1> QED BY <1>1, <1>2, <1>3 DEF Stands

\* The tasks that a step does not touch stand as they did.
LEMMA OthersStand ==
  ASSUME OnePlace, Stands, OnePlace', Stands', NEW T,
         p_waiting' \ T = p_waiting \ T, p_running' \ T = p_running \ T,
         \A u \in Tasks \ T : resume'[u] = resume[u] /\ waiting_on'[u] = waiting_on[u],
         \A x \in Threads : cur[x] \notin T \cup {Free} =>
           /\ cur'[x] = cur[x]
           /\ Doing(pc'[x], waiting_on[cur[x]]) = Doing(pc[x], waiting_on[cur[x]])
  PROVE  \A u \in Tasks \ T : Standing(u)' = Standing(u)
<1> SUFFICES ASSUME NEW u \in Tasks \ T PROVE Standing(u)' = Standing(u)
  OBVIOUS
<1>1. CASE u \in p_waiting
  <2>1. u \in p_waiting'
    BY <1>1
  <2> QED BY <1>1, <2>1 DEF Stands
<1>2. CASE u \in p_running
  <2>1. PICK x \in Threads : cur[x] = u /\ u # Free
    BY <1>2 DEF OnePlace, RunByOne
  <2>2. cur'[x] = u /\ Doing(pc'[x], waiting_on'[u]) = Doing(pc[x], waiting_on[u])
    BY <2>1
  <2>3. Standing(u) = Doing(pc[x], waiting_on[u])
    BY <2>1 DEF Stands
  <2>4. Standing(u)' = Doing(pc'[x], waiting_on'[u])
    BY <2>1, <2>2 DEF Stands
  <2> QED BY <2>2, <2>3, <2>4
<1>3. CASE u \notin p_waiting \cup p_running
  <2>1. u \notin p_waiting' \cup p_running'
    BY <1>3
  <2>2. Standing(u) = IF resume[u] = "relock" THEN "woken" ELSE "out"
    BY <1>3 DEF Stands
  <2>3. Standing(u)' = IF resume'[u] = "relock" THEN "woken" ELSE "out"
    BY <2>1 DEF Stands
  <2> QED BY <2>2, <2>3
<1> QED BY <1>1, <1>2, <1>3

LEMMA DoingAt ==
  ASSUME NEW c
  PROVE  /\ \A l \in {"user", "spawned", "woke"} : Doing(l, c) = "out"
         /\ Doing("yield", c) = IF c = Free THEN "out" ELSE "waiting"
         /\ Doing("locked", c) = "in" /\ Doing("wait_locked", c) = "in"
         /\ Doing("relock", c) = "woken" /\ Doing("notify_one", c) = "notify_one"
         /\ Doing("notify_all", c) = "notify_all" /\ Doing("woke_all", c) = "notify_all"
BY DEF Doing

\* What Condvar sees of the tasks.
View == [t \in Tasks |-> Standing(t)]

\* A worker goes on in the code of its task.
LEMMA OwnStep ==
  ASSUME TypeOK, OnePlace, Stands, OnePlace', Stands', NEW th \in Threads, cur[th] # Free,
         NEW l, Goto(th, l), UNCHANGED <<p_waiting, p_running, cur, resume>>,
         \A u \in Tasks \ {cur[th]} : waiting_on'[u] = waiting_on[u]
  PROVE  /\ View[cur[th]] = Doing(pc[th], waiting_on[cur[th]])
         /\ View' = [View EXCEPT ![cur[th]] = Doing(l, waiting_on'[cur[th]])]
<1> DEFINE t == cur[th]
<1>1. t \in Tasks /\ \A x \in Threads : cur[x] = t => x = th
  BY RunningTask DEF OnePlace, RunByOne
<1>2. pc'[th] = l /\ \A x \in Threads : x # th => pc'[x] = pc[x]
  BY DEF Goto, TypeOK
<1>3. Standing(t) = Doing(pc[th], waiting_on[t]) /\ Standing(t)' = Doing(l, waiting_on'[t])
  BY <1>2 DEF Stands
<1>4. \A u \in Tasks \ {t} : Standing(u)' = Standing(u)
  <2>1. \A x \in Threads : cur[x] \notin {t} \cup {Free} =>
          /\ cur'[x] = cur[x]
          /\ Doing(pc'[x], waiting_on[cur[x]]) = Doing(pc[x], waiting_on[cur[x]])
    BY <1>2
  <2> QED BY <2>1, OthersStand
<1> QED BY <1>1, <1>3, <1>4 DEF View

\* Which tasks wait, for Condvar and in the lists, when no critical section is
\* open.
LEMMA Waiters ==
  ASSUME TypeOK, OnePlace, WaitsWell, Stands, p_lock = Free, NEW c \in Conds
  PROVE  {t \in Tasks : View[t] = "waiting" /\ arg[t] = c} = Elements(wl[c])
<1>1. Elements(wl[c]) = {t \in p_waiting : waiting_on[t] = c} /\ p_waiting \subseteq Tasks
  BY DEF OnePlace, LinkedOnce, TypeOK
<1>2. \A t \in p_waiting : waiting_on[t] = arg[t] /\ View[t] = "waiting"
  BY <1>1 DEF OnePlace, LinkedOnce, WaitsWell, Stands, View
<1>3. ASSUME NEW t \in Tasks, t \notin p_waiting PROVE View[t] # "waiting"
  <2>1. CASE t \in p_running
    <3>1. PICK th \in Threads : cur[th] = t /\ cur[th] # Free
      BY <2>1 DEF OnePlace, RunByOne
    <3>2. waiting_on[t] = Free
      BY <3>1, NotWaiting, FreeAssumption
    <3>3. View[t] = Doing(pc[th], Free)
      BY <3>1, <3>2 DEF Stands, View
    <3> QED BY <3>3 DEF Doing
  <2>2. CASE t \notin p_running
    BY <1>3, <2>2 DEF Stands, View
  <2> QED BY <2>1, <2>2
<1> QED BY <1>1, <1>2, <1>3

\* A notification: the task that is woken is one of the waiters.
LEMMA WakeStands ==
  ASSUME TypeOK, OnePlace, WaitsWell, Stands, OnePlace', Stands', NEW th \in Threads,
         NotifyOneWake(th) \/ NotifyAllWake(th)
  PROVE  \E w \in {t \in Tasks : View[t] = "waiting" /\ arg[t] = arg[cur[th]]} :
           View' = [View EXCEPT ![cur[th]] = IF NotifyOneWake(th) THEN "out" ELSE "notify_all",
                                ![w] = "woken"]
<1> DEFINE l == IF NotifyOneWake(th) THEN "woke" ELSE "woke_all"
<1> PICK t : t = cur[th]
  OBVIOUS
<1> PICK c : c = arg[t]
  OBVIOUS
<1> PICK w : w = Head(wl[c])
  OBVIOUS
<1>1. /\ t # Free /\ c \in Conds /\ wl[c] # << >> /\ WakeFirst(c) /\ p_lock = Free
      /\ Goto(th, l) /\ UNCHANGED <<p_running, cur, resume>>
  BY DEF NotifyOneWake, NotifyAllWake, TypeOK, CondStates, RunStates
<1>2. /\ t \in Tasks /\ t \notin p_waiting /\ t \in p_running
      /\ \A x \in Threads : cur[x] = t => x = th
  BY <1>1, RunningTask DEF OnePlace, RunByOne
<1>3. w \in Elements(wl[c]) /\ w \in Tasks
  BY <1>1, HeadIn DEF TypeOK
<1>4. w \in {u \in Tasks : View[u] = "waiting" /\ arg[u] = c}
  BY <1>1, <1>3, Waiters
<1>5. w \in p_waiting /\ w # t /\ w \notin p_running
  BY <1>2, <1>1, <1>3 DEF OnePlace, LinkedOnce, ListedOnce
<1>6. /\ waiting_on' = [waiting_on EXCEPT ![w] = Free] /\ p_waiting' = p_waiting \ {w}
      /\ p_running' = p_running /\ cur' = cur /\ resume' = resume
  BY <1>1 DEF WakeFirst
<1>7. pc'[th] = l /\ \A x \in Threads : x # th => pc'[x] = pc[x]
  BY <1>1 DEF Goto, TypeOK
<1>8. Standing(w)' = "woken"
  <2>1. w \notin p_waiting' \cup p_running' /\ resume'[w] = "relock"
    BY <1>5, <1>6 DEF WaitsWell
  <2> QED BY <1>3, <2>1 DEF Stands
<1>9. Standing(t)' = IF NotifyOneWake(th) THEN "out" ELSE "notify_all"
  <2>1. Standing(t)' = Doing(l, waiting_on'[t])
    BY <1>1, <1>6, <1>7 DEF Stands
  <2> QED BY <2>1, DoingAt
<1>10. \A u \in Tasks \ {t, w} : Standing(u)' = Standing(u)
  <2>1. \A u \in Tasks \ {t, w} : resume'[u] = resume[u] /\ waiting_on'[u] = waiting_on[u]
    BY <1>6 DEF TypeOK
  <2>2. \A x \in Threads : cur[x] \notin {t, w} \cup {Free} =>
          /\ cur'[x] = cur[x]
          /\ Doing(pc'[x], waiting_on[cur[x]]) = Doing(pc[x], waiting_on[cur[x]])
    BY <1>6, <1>7
  <2>3. p_waiting' \ {t, w} = p_waiting \ {t, w} /\ p_running' \ {t, w} = p_running \ {t, w}
    BY <1>6
  <2> QED BY <2>1, <2>2, <2>3, OthersStand
<1>11. View' = [View EXCEPT ![t] = IF NotifyOneWake(th) THEN "out" ELSE "notify_all",
                            ![w] = "woken"]
  <2>1. \A u \in Tasks : View'[u] = IF u = w THEN "woken"
                                   ELSE IF u = t THEN IF NotifyOneWake(th) THEN "out" ELSE "notify_all"
                                   ELSE View[u]
    BY <1>2, <1>3, <1>5, <1>8, <1>9, <1>10 DEF View
  <2>2. View = [u \in Tasks |-> View[u]] /\ View' = [u \in Tasks |-> View'[u]]
    BY DEF View
  <2> QED BY <1>5, <2>1, <2>2
<1> QED BY <1>4, <1>11

\* What a step of the scheduler is to those who use the condition variables: a
\* step that Condvar allows, or none.
LEMMA MonitorStep ==
  ASSUME TypeOK, OnePlace, WaitsWell, Stands, OnePlace', Stands', [Next]_vars
  PROVE  [Monitor!Next]_(Monitor!vars)
<1> USE DEF lists
<1>s. ASSUME mutex' = mutex, arg' = arg, View' = View PROVE UNCHANGED Monitor!vars
  BY <1>s DEF Monitor!vars, View
<1>t. View = [t \in Tasks |-> View[t]]
  BY DEF View
\* A worker whose task goes on, and what it says of that task.
<1>o. ASSUME NEW th \in Threads, cur[th] # Free, NEW l, Goto(th, l),
             UNCHANGED <<p_waiting, p_running, cur, resume, waiting_on>>
      PROVE  /\ cur[th] \in Tasks /\ (waiting_on[cur[th]] = Free \/ pc[th] = "yield")
             /\ View[cur[th]] = Doing(pc[th], waiting_on[cur[th]])
             /\ View' = [View EXCEPT ![cur[th]] = Doing(l, waiting_on[cur[th]])]
  BY <1>o, OwnStep, NotWaiting
<1>1. ASSUME NEW th \in Threads, Take(th) PROVE UNCHANGED Monitor!vars
  <2> PICK t : t = Head(p_available)
    OBVIOUS
  <2>1. t \in Tasks /\ t \in Elements(p_available)
    BY <1>1, HeadIn DEF Take, TypeOK
  <2>2. /\ p_running' = p_running \cup {t} /\ cur' = [cur EXCEPT ![th] = t]
        /\ resume' = [resume EXCEPT ![t] = "user"] /\ pc' = [pc EXCEPT ![th] = resume[t]]
        /\ UNCHANGED <<p_waiting, waiting_on, arg, mutex>> /\ pc[th] = "top"
    BY <1>1 DEF Take, Goto
  <2>3. /\ t \notin p_waiting /\ t \notin p_running /\ resume[t] \in {"user", "relock"} /\ t # Free
        /\ cur[th] = Free
    BY <2>1, <2>2, FreeAssumption DEF OnePlace, ListedOnce, TypeOK, RunStates
  <2>4. \A x \in Threads : x # th => pc'[x] = pc[x] /\ cur'[x] = cur[x]
    BY <2>2 DEF TypeOK
  <2>5. cur'[th] = t /\ pc'[th] = resume[t]
    BY <2>2 DEF TypeOK
  <2>6. Standing(t)' = Standing(t)
    <3>1. Standing(t) = IF resume[t] = "relock" THEN "woken" ELSE "out"
      BY <2>1, <2>3 DEF Stands
    <3>2. Standing(t)' = Doing(resume[t], waiting_on'[t])
      BY <2>3, <2>5 DEF Stands
    <3> QED BY <2>3, <3>1, <3>2, DoingAt
  <2>7. \A u \in Tasks \ {t} : Standing(u)' = Standing(u)
    <3>1. \A u \in Tasks \ {t} : resume'[u] = resume[u] /\ waiting_on'[u] = waiting_on[u]
      BY <2>2 DEF TypeOK
    <3>2. \A x \in Threads : cur[x] \notin {t} \cup {Free} =>
            /\ cur'[x] = cur[x]
            /\ Doing(pc'[x], waiting_on[cur[x]]) = Doing(pc[x], waiting_on[cur[x]])
      BY <2>3, <2>4
    <3>3. p_waiting' \ {t} = p_waiting \ {t} /\ p_running' \ {t} = p_running \ {t}
      BY <2>2
    <3> QED BY <3>1, <3>2, <3>3, OthersStand
  <2>8. View' = View
    BY <2>6, <2>7 DEF View
  <2> QED BY <1>s, <2>2, <2>8
<1>2. ASSUME NEW th \in Threads, Return(th) PROVE UNCHANGED Monitor!vars
  <2> PICK t : t = cur[th]
    OBVIOUS
  <2>1. t # Free /\ pc[th] \in {"user", "yield"}
    BY <1>2 DEF Return, Finish, Requeue, Park, TypeOK, RunStates
  <2>2. /\ t \in Tasks /\ t \in p_running /\ t \notin p_waiting /\ resume[t] = "user"
        /\ waiting_on[t] # Free => pc[th] = "yield"
    BY <2>1, NotWaiting
  <2>3. /\ p_running' = p_running \ {t} /\ cur' = [cur EXCEPT ![th] = Free]
        /\ UNCHANGED <<waiting_on, arg, mutex>> /\ \E l \in PCs : Goto(th, l)
    BY <1>2 DEF Return, Finish, Requeue, Park, StopsRunning, PCs
  <2>4. Standing(t) = IF waiting_on[t] = Free THEN "out" ELSE "waiting"
    <3>1. Standing(t) = Doing(pc[th], waiting_on[t])
      BY <2>1 DEF Stands
    <3> QED BY <2>1, <2>2, <3>1, DoingAt
  <2>5. IF waiting_on[t] = Free THEN p_waiting' = p_waiting /\ resume' = resume
        ELSE p_waiting' = p_waiting \cup {t} /\ resume' = [resume EXCEPT ![t] = "relock"]
    <3>1. CASE Finish(th)
      BY <2>2, <3>1 DEF Finish
    <3>2. CASE Requeue(th)
      BY <3>2 DEF Requeue
    <3>3. CASE Park(th)
      BY <3>3 DEF Park
    <3> QED BY <1>2, <3>1, <3>2, <3>3 DEF Return
  <2>6. Standing(t)' = Standing(t)
    <3>1. CASE waiting_on[t] = Free
      <4>1. t \notin p_waiting' \cup p_running' /\ resume'[t] = "user"
        BY <2>2, <2>3, <2>5, <3>1
      <4> QED BY <2>2, <2>4, <3>1, <4>1 DEF Stands
    <3>2. CASE waiting_on[t] # Free
      <4>1. t \in p_waiting'
        BY <2>5, <3>2
      <4> QED BY <2>4, <3>2, <4>1 DEF Stands
    <3> QED BY <3>1, <3>2
  <2>7. \A u \in Tasks \ {t} : Standing(u)' = Standing(u)
    <3>1. \A u \in Tasks \ {t} : resume'[u] = resume[u] /\ waiting_on'[u] = waiting_on[u]
      BY <2>3, <2>5 DEF TypeOK
    <3>2. \A x \in Threads : cur[x] \notin {t} \cup {Free} =>
            /\ cur'[x] = cur[x]
            /\ Doing(pc'[x], waiting_on[cur[x]]) = Doing(pc[x], waiting_on[cur[x]])
      BY <2>3 DEF TypeOK, Goto
    <3>3. p_waiting' \ {t} = p_waiting \ {t} /\ p_running' \ {t} = p_running \ {t}
      BY <2>3, <2>5
    <3> QED BY <3>1, <3>2, <3>3, OthersStand
  <2>8. View' = View
    BY <2>6, <2>7 DEF View
  <2> QED BY <1>s, <2>3, <2>8
<1>3. ASSUME NEW th \in Threads, NEW u \in Tasks, Spawn(th, u) PROVE UNCHANGED Monitor!vars
  <2>1. /\ pc[th] = "user" /\ cur[th] # Free /\ Goto(th, "spawned")
        /\ UNCHANGED <<p_waiting, cur, resume, waiting_on, p_running, arg, mutex>>
    BY <1>3 DEF Spawn, Calls, TypeOK, RunStates
  <2> QED BY <1>o, <1>s, <1>t, <2>1, DoingAt
<1>4. ASSUME NEW th \in Threads, NEW c \in Conds, Lock(th, c) PROVE Monitor!Next
  <2>1. /\ pc[th] = "user" /\ cur[th] # Free /\ Goto(th, "locked")
        /\ mutex[c] = Free /\ mutex' = [mutex EXCEPT ![c] = cur[th]]
        /\ arg' = [arg EXCEPT ![cur[th]] = c]
        /\ UNCHANGED <<p_waiting, p_running, cur, resume, waiting_on>>
    BY <1>4 DEF Lock, Calls, TypeOK, RunStates
  <2>2. /\ cur[th] \in Tasks /\ View[cur[th]] = "out"
        /\ View' = [View EXCEPT ![cur[th]] = "in"]
    BY <1>o, <2>1, DoingAt, RunningTask
  <2>3. Monitor!Enter(cur[th], c)
    BY <2>1, <2>2 DEF Monitor!Enter, View
  <2> QED BY <2>2, <2>3 DEF Monitor!Next
<1>5. ASSUME NEW th \in Threads, NEW c \in Conds, NEW kind \in Notifies, CallNotify(th, c, kind)
      PROVE  Monitor!Next
  <2>1. /\ pc[th] = "user" /\ cur[th] # Free /\ Goto(th, kind) /\ kind \in {"notify_one", "notify_all"}
        /\ mutex' = mutex /\ arg' = [arg EXCEPT ![cur[th]] = c]
        /\ UNCHANGED <<p_waiting, p_running, cur, resume, waiting_on>>
    BY <1>5, NotifiesAssumption DEF CallNotify, Calls, TypeOK, RunStates
  <2>2. /\ cur[th] \in Tasks /\ View[cur[th]] = "out"
        /\ View' = [View EXCEPT ![cur[th]] = kind]
    BY <1>o, <2>1, DoingAt, RunningTask
  <2>3. Monitor!Call(cur[th], c, kind)
    BY <2>1, <2>2 DEF Monitor!Call, View
  <2> QED BY <2>1, <2>2, <2>3 DEF Monitor!Next
<1>6. ASSUME NEW th \in Threads, Unlock(th) PROVE Monitor!Next
  <2>1. /\ pc[th] = "locked" /\ cur[th] # Free /\ Goto(th, "user")
        /\ mutex' = [mutex EXCEPT ![arg[cur[th]]] = Free] /\ arg' = arg
        /\ UNCHANGED <<p_waiting, p_running, cur, resume, waiting_on>>
    BY <1>6 DEF Unlock, TypeOK, RunStates
  <2>2. /\ cur[th] \in Tasks /\ View[cur[th]] = "in"
        /\ View' = [View EXCEPT ![cur[th]] = "out"]
    BY <1>o, <2>1, DoingAt, RunningTask
  <2>3. Monitor!Leave(cur[th])
    BY <2>1, <2>2 DEF Monitor!Leave, Monitor!Release, View
  <2> QED BY <2>2, <2>3 DEF Monitor!Next
<1>7. ASSUME NEW th \in Threads, WaitLock(th) PROVE UNCHANGED Monitor!vars
  <2>1. /\ pc[th] = "locked" /\ cur[th] # Free /\ Goto(th, "wait_locked")
        /\ UNCHANGED <<p_waiting, p_running, cur, resume, waiting_on, arg, mutex>>
    BY <1>7 DEF WaitLock, TypeOK, RunStates
  <2> QED BY <1>o, <1>s, <1>t, <2>1, DoingAt
<1>8. ASSUME NEW th \in Threads, WaitRelease(th) PROVE Monitor!Next
  <2>1. /\ pc[th] = "wait_locked" /\ cur[th] # Free /\ Goto(th, "yield") /\ arg[cur[th]] # Free
        /\ mutex' = [mutex EXCEPT ![arg[cur[th]]] = Free] /\ arg' = arg
        /\ waiting_on' = [waiting_on EXCEPT ![cur[th]] = arg[cur[th]]]
        /\ UNCHANGED <<p_waiting, p_running, cur, resume>>
    BY <1>8 DEF WaitRelease, TypeOK, RunStates, CondStates
  <2>2. cur[th] \in Tasks
    BY <2>1, RunningTask
  <2>3. /\ waiting_on'[cur[th]] = arg[cur[th]]
        /\ \A u \in Tasks \ {cur[th]} : waiting_on'[u] = waiting_on[u]
    BY <2>1, <2>2 DEF TypeOK
  <2>4. /\ View[cur[th]] = "in" /\ View' = [View EXCEPT ![cur[th]] = "waiting"]
    BY <2>1, <2>3, OwnStep, DoingAt
  <2>5. Monitor!Wait(cur[th])
    BY <2>1, <2>4, <2>2 DEF Monitor!Wait, Monitor!Release, View
  <2> QED BY <2>2, <2>5 DEF Monitor!Next
<1>9. ASSUME NEW th \in Threads, Relock(th) PROVE Monitor!Next
  <2>1. /\ pc[th] = "relock" /\ cur[th] # Free /\ Goto(th, "locked")
        /\ mutex[arg[cur[th]]] = Free
        /\ mutex' = [mutex EXCEPT ![arg[cur[th]]] = cur[th]] /\ arg' = arg
        /\ UNCHANGED <<p_waiting, p_running, cur, resume, waiting_on>>
    BY <1>9 DEF Relock, TypeOK, RunStates
  <2>2. /\ cur[th] \in Tasks /\ View[cur[th]] = "woken"
        /\ View' = [View EXCEPT ![cur[th]] = "in"]
    BY <1>o, <2>1, DoingAt, RunningTask
  <2>3. Monitor!Reenter(cur[th])
    BY <2>1, <2>2 DEF Monitor!Reenter, View
  <2> QED BY <2>2, <2>3 DEF Monitor!Next
<1>10. ASSUME NEW th \in Threads, NotifyOneEmpty(th) \/ NotifyAllDone(th) PROVE Monitor!Next
  <2>1. /\ pc[th] \in {"notify_one", "notify_all"} /\ cur[th] # Free /\ arg[cur[th]] \in Conds
        /\ wl[arg[cur[th]]] = << >> /\ p_lock = Free
        /\ Goto(th, IF pc[th] = "notify_one" THEN "user" ELSE "yield")
        /\ UNCHANGED <<p_waiting, p_running, cur, resume, waiting_on, arg, mutex>>
    BY <1>10 DEF NotifyOneEmpty, NotifyAllDone, TypeOK, RunStates, CondStates
  <2>2. cur[th] \in Tasks /\ waiting_on[cur[th]] = Free
    BY <2>1, NotWaiting
  <2>3. View[cur[th]] = pc[th] /\ View' = [View EXCEPT ![cur[th]] = "out"]
    BY <1>o, <2>1, <2>2, DoingAt
  <2>4. {t \in Tasks : View[t] = "waiting" /\ arg[t] = arg[cur[th]]} = {}
    <3>1. Elements(<< >>) = {}
      BY DEF Elements
    <3> QED BY <2>1, <3>1, Waiters
  <2>5. Monitor!NotifyOne(cur[th]) \/ Monitor!NotifyAll(cur[th])
    BY <2>1, <2>3, <2>4 DEF Monitor!NotifyOne, Monitor!NotifyAll, Monitor!WaitingOn, View
  <2> QED BY <2>2, <2>5 DEF Monitor!Next
<1>11. ASSUME NEW th \in Threads, NotifyOneWake(th) \/ NotifyAllWake(th) PROVE Monitor!Next
  <2>1. /\ pc[th] = (IF NotifyOneWake(th) THEN "notify_one" ELSE "notify_all") /\ cur[th] # Free
        /\ UNCHANGED <<arg, mutex>>
    BY <1>11 DEF NotifyOneWake, NotifyAllWake, TypeOK, RunStates
  <2>2. cur[th] \in Tasks /\ View[cur[th]] = pc[th]
    BY <2>1, RunningTask, DoingAt DEF Stands, View
  <2>3. PICK w \in {t \in Tasks : View[t] = "waiting" /\ arg[t] = arg[cur[th]]} :
          View' = [View EXCEPT ![cur[th]] = IF NotifyOneWake(th) THEN "out" ELSE "notify_all",
                               ![w] = "woken"]
    BY <1>11, WakeStands
  <2>4. CASE NotifyOneWake(th)
    <3>1. Monitor!NotifyOne(cur[th])
      BY <2>1, <2>2, <2>3, <2>4 DEF Monitor!NotifyOne, Monitor!WaitingOn, View
    <3> QED BY <2>2, <3>1 DEF Monitor!Next
  <2>5. CASE ~NotifyOneWake(th)
    <3>1. View' = [View EXCEPT ![w] = "woken"]
      BY <1>t, <2>1, <2>2, <2>3, <2>5
    <3>2. Monitor!NotifyAll(cur[th])
      BY <2>1, <2>2, <2>3, <2>5, <3>1 DEF Monitor!NotifyAll, Monitor!WaitingOn, View
    <3> QED BY <2>2, <3>2 DEF Monitor!Next
  <2> QED BY <2>4, <2>5
<1>12. ASSUME NEW th \in Threads,
              Sleep(th) \/ Exit(th) \/ SpuriousWake(th) \/ Poke(th) \/ LastNotify(th)
       PROVE  UNCHANGED Monitor!vars
  <2>1. UNCHANGED <<p_waiting, p_running, cur, resume, waiting_on, arg, mutex>>
    BY <1>12 DEF Sleep, Exit, SpuriousWake, Poke, LastNotify
  <2>2. ASSUME NEW x \in Threads, cur[x] # Free
        PROVE  Doing(pc'[x], waiting_on[cur[x]]) = Doing(pc[x], waiting_on[cur[x]])
    <3>1. pc[x] \in RunStates
      BY <2>2 DEF TypeOK
    <3>2. pc'[x] = pc[x] \/ (Poke(th) /\ x = th /\ pc'[x] = AfterPoke(pc[x]))
      BY <1>12, <3>1 DEF Sleep, Exit, SpuriousWake, Poke, LastNotify, Goto, Sleepers, At, TypeOK, RunStates
    <3>3. CASE Poke(th) /\ x = th /\ pc'[x] = AfterPoke(pc[x])
      <4>1. /\ pc[x] \in {"spawned", "woke", "woke_all"}
            /\ pc'[x] = IF pc[x] = "spawned" THEN "user"
                        ELSE IF pc[x] = "woke" THEN "yield" ELSE "notify_all"
        BY <3>1, <3>3 DEF Poke, PokeStates, AfterPoke, RunStates
      <4>2. waiting_on[cur[x]] = Free
        BY <2>2, <4>1, NotWaiting
      <4> QED BY <4>1, <4>2, DoingAt
    <3> QED BY <3>2, <3>3
  <2>3. \A u \in Tasks \ {} : Standing(u)' = Standing(u)
    BY <2>1, <2>2, OthersStand
  <2>4. View' = View
    BY <2>3 DEF View
  <2> QED BY <1>s, <2>1, <2>4
<1>13. CASE Terminating \/ UNCHANGED vars
  <2>1. UNCHANGED <<p_waiting, p_running, cur, pc, resume, waiting_on, arg, mutex>>
    BY <1>13 DEF Terminating, vars
  <2>2. \A u \in Tasks \ {} : Standing(u)' = Standing(u)
    BY <2>1, OthersStand
  <2>3. View' = View
    BY <2>2 DEF View
  <2> QED BY <1>s, <2>1, <2>3
<1> QED
  BY <1>1, <1>2, <1>3, <1>4, <1>5, <1>6, <1>7, <1>8, <1>9, <1>10, <1>11, <1>12, <1>13
     DEF Next, Step, Dispatch, Call, InCall

\* To the tasks of any program, task_cond is the condition variable whose
\* promises generic_condvar documents, however many workers run them: initial
\* states are initial states of Condvar and every step is one of its steps or none.
THEOREM TaskCondImplementsCondvar == SafetySpec => ImplementsCondvar
<1>1. Init => Monitor!Init
  <2> SUFFICES ASSUME Init PROVE Monitor!Init
    OBVIOUS
  <2>1. /\ p_waiting = {} /\ resume = [t \in Tasks |-> "user"]
        /\ cur = [th \in Threads |-> Free]
    BY DEF Init
  <2>2. ASSUME NEW t \in Tasks PROVE Standing(t) = "out"
    <3>1. {th \in Threads : cur[th] = t} = {}
      BY <2>1, FreeAssumption
    <3> QED BY <2>1, <3>1 DEF Standing
  <2> QED BY <2>2 DEF Init, Monitor!Init
<1>2. TypeOK /\ OnePlace => Stands
  BY TasksStand
<1>3. /\ TypeOK /\ OnePlace /\ WaitsWell /\ Stands /\ OnePlace' /\ Stands' /\ [Next]_vars
      => [Monitor!Next]_(Monitor!vars)
  BY MonitorStep
<1> QED BY <1>1, <1>2, <1>3, TypeCorrect, TasksAreInOnePlace, WaitsAreWell, PTL
        DEF SafetySpec, ImplementsCondvar, Monitor!Spec
=============================================================================
