-------------------------- MODULE SchedulerProofs ---------------------------
(***************************************************************************)
(* Proofs about the schedulers of which every task, or none, has a thread  *)
(* of its own, for any tasks. ThreadScheduler: that every thread that was  *)
(* started has one std::thread until it is joined, and that start returns  *)
(* only after every thread was joined. SimpleScheduler: that the iterator  *)
(* of dispatch stays in the list, that the list has every task that was    *)
(* spawned and has not returned once, and that no notification is lost on  *)
(* a task that waits.                                                      *)
(***************************************************************************)
EXTENDS ThreadScheduler, SimpleScheduler, FiniteSetTheorems, SequenceTheorems, TLAPS
-----------------------------------------------------------------------------
(* The 1:1 scheduler *)

\* The thread of start() keeps to its part of the code, the tasks to theirs.
Roles ==
  /\ pc[Main] \in {"func", "join_all", "join_dead", "join_threads", "returned"}
  /\ \A t \in Tasks :
       pc[t] \in {"unborn", "func", "remove", "reap", "leaving", "ended", "joined"}

\* A thread has its node until it has left remove_thread, and its handle is in
\* it until it enters.
Nodes ==
  \A t \in Tasks :
    /\ t \in p_threads <=> pc[t] \in {"func", "remove", "reap"}
    /\ handle[t] = IF pc[t] \in {"func", "remove"} THEN t ELSE None

\* After that the handle is in p_dead, until the next one to leave takes it to
\* join it; by then its own is in p_dead.
Leavers ==
  /\ \A t, u \in Tasks :
       old[t] = u => /\ pc[t] = "reap" /\ p_dead = t /\ u # t
                     /\ pc[u] \in {"leaving", "ended"}
  /\ \A u \in Tasks :
       /\ pc[u] \in {"reap", "leaving", "ended"} => p_dead = u \/ \E t \in Tasks : old[t] = u
       /\ pc[u] = "reap" => p_dead = u
       /\ p_dead = u => pc[u] \in {"reap", "leaving", "ended"}

\* What join_all has done.
Joined ==
  /\ pc[Main] \in {"join_threads", "returned"} => p_dead = None
  /\ pc[Main] = "returned" => p_threads = {}

IInv == TypeOK /\ Roles /\ Nodes /\ Leavers /\ Joined
-----------------------------------------------------------------------------
\* When join_all comes to the nodes, every one is of a thread that has yet to
\* get p_lock: the loop gets through only if there is none.
LEMMA NobodyLeft ==
  ASSUME IInv, JoinThreads
  PROVE  p_threads = {}
<1>1. p_lock = Main
  BY DEF IInv, TypeOK, JoinThreads, Threads
<1>2. ASSUME NEW t \in p_threads PROVE FALSE
  <2>1. t \in Tasks /\ pc[t] # "reap"
    BY <1>1, MainAssumption DEF IInv, TypeOK, Threads
  <2>2. pc[t] \in {"func", "remove"} /\ handle[t] = t
    BY <2>1 DEF IInv, Nodes
  <2> QED BY <2>2 DEF JoinThreads
<1> QED BY <1>2

\* A step keeps the shape of the state, and the lock with whoever is in a
\* critical section.
LEMMA TypeStep ==
  ASSUME IInv, [Next]_vars
  PROVE  TypeOK'
<1> USE MainAssumption, NoneAssumption DEF IInv, TypeOK, Threads, PCs, Goto
<1>1. ASSUME NEW t \in Threads, Return(t) PROVE TypeOK'
  BY <1>1 DEF Return
<1>2. ASSUME NEW t \in Threads, NEW u \in Tasks, Spawn(t, u) PROVE TypeOK'
  BY <1>2 DEF Spawn
<1>3. ASSUME NEW t \in Tasks, RemoveThread(t) PROVE TypeOK'
  BY <1>3 DEF RemoveThread
<1>4. ASSUME NEW t \in Tasks, Reap(t) PROVE TypeOK'
  <2>1. pc[t] = "reap" /\ p_lock = t /\ old[t] \in Tasks \cup {None} /\ t # None /\ t # Main
    BY <1>4 DEF Reap
  <2>2. pc' \in [Threads -> PCs]
    BY <1>4 DEF Reap, Joins
  <2>3. \A x \in Threads : pc'[x] \notin {"reap", "join_dead", "join_threads"}
    BY <1>4, <2>1 DEF Reap, Joins
  <2> QED BY <1>4, <2>2, <2>3 DEF Reap
<1>5. ASSUME NEW t \in Tasks, ThreadExit(t) PROVE TypeOK'
  BY <1>5 DEF ThreadExit
<1>6. CASE JoinAll
  BY <1>6 DEF JoinAll
<1>7. CASE JoinDead
  <2>1. p_lock = Main /\ p_dead # Main
    BY <1>7 DEF JoinDead
  <2>2. pc' \in [Threads -> PCs]
    BY <1>7 DEF JoinDead, Joins
  <2>3. \A x \in Threads : pc'[x] \in {"reap", "join_dead", "join_threads"} <=> x = Main
    BY <1>7, <2>1 DEF JoinDead, Joins
  <2> QED BY <1>7, <2>1, <2>2, <2>3 DEF JoinDead
<1>8. CASE JoinThreads
  <2>1. p_lock = Main /\ p_threads = {}
    BY <1>8, NobodyLeft DEF JoinThreads
  <2> QED BY <1>8, <2>1 DEF JoinThreads
<1>9. CASE UNCHANGED vars
  BY <1>9 DEF vars
<1> QED BY <1>1, <1>2, <1>3, <1>4, <1>5, <1>6, <1>7, <1>8, <1>9
        DEF Next, Leave, Join, Terminating

\* A step keeps the threads in their parts of the code, and the nodes with
\* the threads they were made for.
LEMMA NodesStep ==
  ASSUME IInv, [Next]_vars
  PROVE  Roles' /\ Nodes'
<1> USE MainAssumption, NoneAssumption DEF IInv, TypeOK, Threads, Roles, Nodes, Goto
<1>1. ASSUME NEW t \in Threads, Return(t) PROVE Roles' /\ Nodes'
  BY <1>1 DEF Return
<1>2. ASSUME NEW t \in Threads, NEW u \in Tasks, Spawn(t, u) PROVE Roles' /\ Nodes'
  BY <1>2 DEF Spawn
<1>3. ASSUME NEW t \in Tasks, RemoveThread(t) PROVE Roles' /\ Nodes'
  BY <1>3 DEF RemoveThread
<1>4. ASSUME NEW t \in Tasks, Reap(t) PROVE Roles' /\ Nodes'
  <2>1. \A x \in Threads : pc'[x] = IF x = t THEN "leaving"
                                    ELSE IF x = old[t] THEN "joined" ELSE pc[x]
    BY <1>4 DEF Reap, Joins
  <2>2. pc[t] = "reap" /\ p_threads' = p_threads \ {t} /\ handle' = handle
    BY <1>4 DEF Reap
  <2>3. old[t] # Main /\ (old[t] # None => pc[old[t]] = "ended" /\ old[t] \in Tasks)
    BY <1>4 DEF Reap, Joins
  <2> QED BY <2>1, <2>2, <2>3
<1>5. ASSUME NEW t \in Tasks, ThreadExit(t) PROVE Roles' /\ Nodes'
  BY <1>5 DEF ThreadExit
<1>6. CASE JoinAll
  BY <1>6 DEF JoinAll
<1>7. CASE JoinDead
  BY <1>7 DEF JoinDead, Joins
<1>8. CASE JoinThreads
  <2>1. p_threads = {}
    BY <1>8, NobodyLeft
  <2> QED BY <1>8, <2>1 DEF JoinThreads
<1>9. CASE UNCHANGED vars
  BY <1>9 DEF vars
<1> QED BY <1>1, <1>2, <1>3, <1>4, <1>5, <1>6, <1>7, <1>8, <1>9
        DEF Next, Leave, Join, Terminating

\* A step keeps the handle of a thread that is leaving in one place.
LEMMA LeaversStep ==
  ASSUME IInv, [Next]_vars
  PROVE  Leavers'
<1> USE MainAssumption, NoneAssumption DEF IInv, TypeOK, Threads, Roles, Leavers, Goto
<1>1. ASSUME NEW t \in Threads, Return(t) PROVE Leavers'
  BY <1>1 DEF Return
<1>2. ASSUME NEW t \in Threads, NEW u \in Tasks, Spawn(t, u) PROVE Leavers'
  BY <1>2 DEF Spawn
<1>3. ASSUME NEW t \in Tasks, RemoveThread(t) PROVE Leavers'
  <2>1. /\ pc[t] = "remove" /\ handle[t] = t /\ p_dead # t
        /\ \A u \in Tasks : pc[u] # "reap" /\ old[u] = None
    BY <1>3 DEF RemoveThread, Nodes
  <2>2. /\ p_dead' = t /\ old' = [old EXCEPT ![t] = p_dead]
        /\ pc' = [pc EXCEPT ![t] = "reap"]
    BY <1>3, <2>1 DEF RemoveThread
  <2>3. \A u \in Tasks : old'[t] = u <=> p_dead = u
    BY <2>2
  <2>4. \A u \in Tasks \ {t} : old'[u] = None /\ pc'[u] = pc[u]
    BY <2>1, <2>2
  <2> QED BY <2>1, <2>2, <2>3, <2>4
<1>4. ASSUME NEW t \in Tasks, Reap(t) PROVE Leavers'
  <2>1. \A x \in Threads : pc'[x] = IF x = t THEN "leaving"
                                    ELSE IF x = old[t] THEN "joined" ELSE pc[x]
    BY <1>4 DEF Reap, Joins
  <2>2. pc[t] = "reap" /\ p_dead = t /\ p_dead' = t
    BY <1>4 DEF Reap
  <2>3. \A u \in Tasks : (u # t => pc[u] # "reap" /\ old[u] = None) /\ old'[u] = None
    BY <1>4, <2>2 DEF Reap
  <2> QED BY <2>1, <2>2, <2>3
<1>5. ASSUME NEW t \in Tasks, ThreadExit(t) PROVE Leavers'
  BY <1>5 DEF ThreadExit
<1>6. CASE JoinAll
  BY <1>6 DEF JoinAll
<1>7. CASE JoinDead
  <2>1. /\ p_lock = Main /\ \A u \in Tasks : pc[u] # "reap" /\ old[u] = None
    BY <1>7 DEF JoinDead
  <2>2. /\ p_dead' = None /\ old' = old
        /\ \A u \in Tasks : pc'[u] = IF u = p_dead THEN "joined" ELSE pc[u]
    BY <1>7 DEF JoinDead, Joins
  <2> QED BY <2>1, <2>2
<1>8. CASE JoinThreads
  <2>1. p_threads = {}
    BY <1>8, NobodyLeft
  <2> QED BY <1>8, <2>1 DEF JoinThreads
<1>9. CASE UNCHANGED vars
  BY <1>9 DEF vars
<1> QED BY <1>1, <1>2, <1>3, <1>4, <1>5, <1>6, <1>7, <1>8, <1>9
        DEF Next, Leave, Join, Terminating

\* After join_all has come to the end nothing is spawned or left to leave.
LEMMA JoinedStep ==
  ASSUME IInv, [Next]_vars
  PROVE  Joined'
<1> USE MainAssumption, NoneAssumption
    DEF IInv, TypeOK, Threads, Roles, Nodes, Joined, Goto
<1>1. ASSUME NEW t \in Threads, Return(t) PROVE Joined'
  BY <1>1 DEF Return
<1>2. ASSUME NEW t \in Threads, NEW u \in Tasks, Spawn(t, u) PROVE Joined'
  BY <1>2 DEF Spawn
<1>3. ASSUME NEW t \in Tasks, Leave(t) PROVE Joined'
  BY <1>3 DEF Leave, RemoveThread, Reap, ThreadExit, Joins
<1>4. CASE Join
  BY <1>4, NobodyLeft DEF Join, JoinAll, JoinDead, JoinThreads, Joins
<1>5. CASE UNCHANGED vars
  BY <1>5 DEF vars
<1> QED BY <1>1, <1>2, <1>3, <1>4, <1>5 DEF Next, Terminating
-----------------------------------------------------------------------------
\* Every reachable state satisfies the inductive invariant.
THEOREM Inductive == SafetySpec => []IInv
<1>1. Init => IInv
  BY MainAssumption, NoneAssumption
     DEF Init, IInv, TypeOK, Threads, PCs, Roles, Nodes, Leavers, Joined
<1>2. IInv /\ [Next]_vars => IInv'
  BY TypeStep, NodesStep, LeaversStep, JoinedStep DEF IInv
<1> QED BY <1>1, <1>2, PTL DEF SafetySpec

\* The state keeps its shape, p_lock included.
THEOREM TypeCorrect == SafetySpec => []TypeOK
BY Inductive, PTL DEF IInv
-----------------------------------------------------------------------------
\* The handle of a thread is in its node, in p_dead or with the thread that is
\* about to join it, according to where the thread is.
LEMMA WhereHeld ==
  ASSUME IInv, NEW u \in Tasks
  PROVE  /\ Holders(u) = IF pc[u] \in {"func", "remove"} THEN {u} ELSE {}
         /\ LET H == {t \in Tasks : old[t] = u} IN
              /\ H = {} \/ (H = {p_dead} /\ p_dead # u)
              /\ H # {} \/ p_dead = u <=> pc[u] \in {"reap", "leaving", "ended"}
<1> USE MainAssumption, NoneAssumption DEF IInv, TypeOK, Threads, Nodes, Leavers
<1>1. Holders(u) = IF pc[u] \in {"func", "remove"} THEN {u} ELSE {}
  BY DEF Holders
<1> DEFINE H == {t \in Tasks : old[t] = u}
<1>2. /\ H = {} \/ (H = {p_dead} /\ p_dead # u)
      /\ H # {} \/ p_dead = u <=> pc[u] \in {"reap", "leaving", "ended"}
  <2>1. CASE \E t \in Tasks : old[t] = u
    <3>1. PICK t \in Tasks : old[t] = u
      BY <2>1
    <3>2. p_dead = t /\ p_dead # u /\ pc[u] \in {"leaving", "ended"}
      BY <3>1
    <3>3. t \in H /\ \A x \in H : x = t
      BY <3>1, <3>2
    <3> HIDE DEF H
    <3>4. H = {p_dead} /\ H # {}
      BY <3>2, <3>3
    <3> QED BY <3>2, <3>4
  <2>2. CASE ~\E t \in Tasks : old[t] = u
    <3>1. H = {}
      BY <2>2
    <3> QED BY <2>2, <3>1
  <2> QED BY <2>1, <2>2
<1> QED BY <1>1, <1>2

\* No std::thread is lost or joined twice: a thread that was started has one
\* until it is joined, whatever the order in which threads leave, spawn others
\* and are joined (do_spawn, remove_thread, join_all).
THEOREM OneHandleEach == SafetySpec => []OneHandle
<1>1. IInv => OneHandle
  <2> SUFFICES ASSUME IInv, NEW u \in Tasks
               PROVE  Held(u) = IF pc[u] \in {"unborn", "joined"} THEN 0 ELSE 1
    BY DEF OneHandle
  <2>1. pc[u] \in {"unborn", "func", "remove", "reap", "leaving", "ended", "joined"}
    BY DEF IInv, Roles
  <2> DEFINE H == {t \in Tasks : old[t] = u}
  <2>2. /\ H = {} \/ (H = {p_dead} /\ p_dead # u)
        /\ H # {} \/ p_dead = u <=> pc[u] \in {"reap", "leaving", "ended"}
    BY WhereHeld
  <2>3. Cardinality({}) = 0 /\ Cardinality({p_dead}) = 1 /\ Cardinality({u}) = 1
    BY FS_EmptySet, FS_Singleton, Zenon
  <2>4. Holders(u) = IF pc[u] \in {"func", "remove"} THEN {u} ELSE {}
    BY WhereHeld
  <2>5. Held(u) = Cardinality(Holders(u)) + Cardinality(H) + IF p_dead = u THEN 1 ELSE 0
    BY DEF Held
  <2> HIDE DEF H
  <2> QED BY <2>1, <2>2, <2>3, <2>4, <2>5
<1> QED BY <1>1, Inductive, PTL

\* start returns only when every thread that was ever started has ended and was
\* joined: the last ones are in p_dead and in the nodes, and join_all joins both.
THEOREM StartReturnsLast == SafetySpec => []ReturnsLast
<1>1. IInv => ReturnsLast
  <2> SUFFICES ASSUME IInv, pc[Main] = "returned", NEW u \in Tasks
               PROVE  pc[u] \in {"unborn", "joined"}
    BY DEF ReturnsLast
  <2>1. p_dead = None /\ p_threads = {}
    BY DEF IInv, Joined
  <2>2. \A t \in Tasks : old[t] # u
    BY <2>1, NoneAssumption DEF IInv, Leavers
  <2> QED BY <2>1, <2>2, NoneAssumption DEF IInv, Roles, Nodes, Leavers
<1> QED BY <1>1, Inductive, PTL
-----------------------------------------------------------------------------
(* The N:1 scheduler *)

\* The list has every task that was spawned and has not returned, once.
ListedOnce ==
  /\ IsInjective(p_coros)
  /\ \A t \in Coros : t \in Range(p_coros) <=> place[t] \notin {"unborn", "dead"}

\* A list without its i-th element: erase leaves the others as they were.
LEMMA OneErased ==
  ASSUME NEW S, NEW s \in Seq(S), NEW i \in 1..Len(s)
  PROVE  LET e == SubSeq(s, 1, i - 1) \o SubSeq(s, i + 1, Len(s))
         IN  /\ e \in Seq(S) /\ Len(e) = Len(s) - 1
             /\ \A k \in 1..(Len(s) - 1) : e[k] = IF k < i THEN s[k] ELSE s[k + 1]
<1> DEFINE n == Len(s)
           a == SubSeq(s, 1, i - 1)
           b == SubSeq(s, i + 1, n)
<1>1. n \in Nat /\ i \in 1..n
  BY LenProperties
<1>2. /\ a \in Seq(S) /\ Len(a) = i - 1
      /\ \A k \in 1..(i - 1) : a[k] = s[k]
  BY <1>1, SubSeqProperties
<1>3. /\ b \in Seq(S) /\ Len(b) = n - i
      /\ \A k \in 1..(n - i) : b[k] = s[i + k]
  BY <1>1, SubSeqProperties
<1> HIDE DEF n, a, b
<1>4. /\ a \o b \in Seq(S) /\ Len(a \o b) = Len(a) + Len(b)
      /\ \A k \in 1..(Len(a) + Len(b)) :
           (a \o b)[k] = IF k <= Len(a) THEN a[k] ELSE b[k - Len(a)]
  BY <1>2, <1>3, ConcatProperties
<1>5. Len(a) + Len(b) = n - 1
  BY <1>1, <1>2, <1>3
<1>6. ASSUME NEW k \in 1..(n - 1) PROVE (a \o b)[k] = IF k < i THEN s[k] ELSE s[k + 1]
  <2>1. (a \o b)[k] = IF k <= i - 1 THEN a[k] ELSE b[k - (i - 1)]
    BY <1>2, <1>4, <1>5
  <2>2. CASE k < i
    <3>1. k \in 1..(i - 1) /\ k <= i - 1
      BY <1>1, <2>2
    <3> QED BY <2>1, <2>2, <3>1, <1>2
  <2>3. CASE ~(k < i)
    <3>1. k - (i - 1) \in 1..(n - i) /\ ~(k <= i - 1) /\ i + (k - (i - 1)) = k + 1
      BY <1>1, <2>3
    <3> QED BY <2>1, <2>3, <3>1, <1>3
  <2> QED BY <2>2, <2>3
<1> QED BY <1>4, <1>5, <1>6 DEF a, b, n

\* A list without repetitions has lost that element, and has still none.
LEMMA ErasedRange ==
  ASSUME NEW S, NEW s \in Seq(S), IsInjective(s), NEW i \in 1..Len(s)
  PROVE  LET e == SubSeq(s, 1, i - 1) \o SubSeq(s, i + 1, Len(s))
         IN  IsInjective(e) /\ Range(e) = Range(s) \ {s[i]}
<1> DEFINE e == SubSeq(s, 1, i - 1) \o SubSeq(s, i + 1, Len(s))
<1>0. /\ e \in Seq(S) /\ Len(e) = Len(s) - 1
      /\ \A k \in 1..(Len(s) - 1) : e[k] = IF k < i THEN s[k] ELSE s[k + 1]
  BY OneErased
<1> HIDE DEF e
<1> DEFINE n == Len(s)
           At(k) == IF k < i THEN k ELSE k + 1
<1>1. /\ n \in Nat /\ i \in 1..n /\ DOMAIN s = 1..n /\ DOMAIN e = 1..(n - 1)
      /\ \A k, m \in 1..n : s[k] = s[m] => k = m
  BY <1>0, LenProperties DEF IsInjective
<1>2. \A k \in 1..(n - 1) : At(k) \in 1..n /\ At(k) # i /\ e[k] = s[At(k)]
  BY <1>0, <1>1
<1>3. \A k, m \in 1..(n - 1) : At(k) = At(m) => k = m
  BY <1>1
<1>4. \A m \in 1..n : m # i => \E k \in 1..(n - 1) : At(k) = m
  <2> SUFFICES ASSUME NEW m \in 1..n, m # i PROVE \E k \in 1..(n - 1) : At(k) = m
    OBVIOUS
  <2>1. CASE m < i
    BY <1>1, <2>1
  <2>2. CASE i < m
    <3>1. m - 1 \in 1..(n - 1) /\ At(m - 1) = m
      BY <1>1, <2>2
    <3> QED BY <3>1
  <2> QED BY <1>1, <2>1, <2>2
<1> HIDE DEF n, At
<1>5. IsInjective(e)
  BY <1>1, <1>2, <1>3 DEF IsInjective
<1>6. ASSUME NEW x \in Range(e) PROVE x \in Range(s) \ {s[i]}
  <2>1. PICK k \in 1..(n - 1) : x = e[k]
    BY <1>1 DEF Range
  <2>2. x = s[At(k)] /\ At(k) \in 1..n /\ s[At(k)] # s[i]
    BY <1>1, <1>2, <2>1
  <2> QED BY <1>1, <2>2 DEF Range
<1>7. ASSUME NEW x \in Range(s) \ {s[i]} PROVE x \in Range(e)
  <2>1. PICK m \in 1..n : x = s[m] /\ m # i
    BY <1>1 DEF Range
  <2>2. PICK k \in 1..(n - 1) : At(k) = m
    BY <1>4, <2>1
  <2> QED BY <1>1, <1>2, <2>1, <2>2 DEF Range
<1> QED BY <1>5, <1>6, <1>7 DEF e

\* spawn puts a task at the end of the list.
LEMMA AppendedRange ==
  ASSUME NEW S, NEW s \in Seq(S), IsInjective(s), NEW x \in S, x \notin Range(s)
  PROVE  /\ IsInjective(Append(s, x))
         /\ Range(Append(s, x)) = Range(s) \cup {x}
<1> DEFINE n == Len(s)
           e == Append(s, x)
<1>1. /\ n \in Nat /\ DOMAIN s = 1..n /\ DOMAIN e = 1..(n + 1)
      /\ e[n + 1] = x /\ \A k \in 1..n : e[k] = s[k]
  BY LenProperties, AppendProperties
<1> HIDE DEF n, e
<1>2. \A k \in 1..(n + 1) : k \in 1..n \/ k = n + 1
  BY <1>1
<1>3. \A k \in 1..n : k \in 1..(n + 1) /\ s[k] # x
  BY <1>1 DEF Range
<1>4. n + 1 \in 1..(n + 1)
  BY <1>1
<1>5. IsInjective(e)
  BY <1>1, <1>2, <1>3 DEF IsInjective
<1>6. Range(e) = Range(s) \cup {x}
  BY <1>1, <1>2, <1>3, <1>4 DEF Range
<1> QED BY <1>5, <1>6 DEF e
-----------------------------------------------------------------------------
\* The iterator stays in the list, and at the task that runs, though tasks are
\* added to the list and erased from it meanwhile.
LEMMA SimpleTypeStep ==
  ASSUME SimpleTypeOK, [SimpleNext]_simpleVars
  PROVE  SimpleTypeOK'
<1> USE DEF SimpleTypeOK, Places, GoesTo, InUser, Yields
<1>1. CASE Resume
  <2>1. Turn \in 1..Len(p_coros)
    BY <1>1, LenProperties, EmptySeq DEF Resume, Turn
  <2>2. p_coros[Turn] \in Coros
    BY <2>1, ElementOfSeq
  <2> QED BY <1>1, <2>1, <2>2 DEF Resume
<1>2. CASE Yield \/ WaitGoesOn \/ Notify
  <2>1. cur # Nobody /\ cur' = Nobody /\ p_idx' = p_idx + 1 /\ p_coros' = p_coros /\ arg' = arg
    BY <1>2 DEF Yield, WaitGoesOn, Notify
  <2>2. p_idx' \in 1..(Len(p_coros') + 1)
    BY <2>1, LenProperties
  <2>3. p_notified' \in [Conds -> BOOLEAN] /\ place' \in [Coros -> Places]
    BY <1>2 DEF Yield, WaitGoesOn, Notify
  <2> QED BY <2>1, <2>2, <2>3
<1>3. CASE Finish
  <2>1. p_idx \in 1..Len(p_coros)
    BY <1>3 DEF Finish
  <2>2. p_coros' \in Seq(Coros) /\ Len(p_coros') = Len(p_coros) - 1
    BY <1>3, <2>1, OneErased DEF Finish, Erased
  <2>3. p_idx' \in 1..(Len(p_coros') + 1)
    BY <1>3, <2>1, <2>2, LenProperties DEF Finish
  <2>4. place' \in [Coros -> Places] /\ cur' = Nobody /\ UNCHANGED <<p_notified, arg>>
    BY <1>3 DEF Finish
  <2> QED BY <2>2, <2>3, <2>4
<1>4. ASSUME NEW u \in Coros, SpawnCoro(u) PROVE SimpleTypeOK'
  <2>1. p_coros' \in Seq(Coros) /\ Len(p_coros') = Len(p_coros) + 1
    BY <1>4, AppendProperties DEF SpawnCoro
  <2>2. p_idx' \in 1..(Len(p_coros') + 1)
    BY <1>4, <2>1, LenProperties DEF SpawnCoro
  <2>3. place' \in [Coros -> Places] /\ cur' = Nobody /\ UNCHANGED <<p_notified, arg>>
    BY <1>4 DEF SpawnCoro
  <2> QED BY <2>1, <2>2, <2>3
<1>5. ASSUME NEW c \in Conds, NEW l \in Notifies \cup {"wait"}, Call(c, l)
      PROVE  SimpleTypeOK'
  BY <1>5, NotifiesAssumption DEF Call
<1>6. CASE WaitEnds
  BY <1>6 DEF WaitEnds
<1>7. CASE UNCHANGED simpleVars
  BY <1>7 DEF simpleVars
<1> QED BY <1>1, <1>2, <1>3, <1>4, <1>5, <1>6, <1>7 DEF SimpleNext, SimpleStep, SimpleEnds

\* Only a spawn and a return change the list, each by the task they are about.
LEMMA ListedStep ==
  ASSUME SimpleTypeOK, ListedOnce, [SimpleNext]_simpleVars
  PROVE  ListedOnce'
<1> USE DEF SimpleTypeOK, Places, GoesTo, InUser
<1>1. ASSUME p_coros' = p_coros,
             \A t \in Coros : place'[t] \in {"unborn", "dead"} <=> place[t] \in {"unborn", "dead"}
      PROVE  ListedOnce'
  BY <1>1 DEF ListedOnce
<1>2. CASE Resume \/ Yield \/ WaitGoesOn \/ UNCHANGED simpleVars
  BY <1>1, <1>2 DEF Resume, Yield, WaitGoesOn, simpleVars
<1>3. CASE WaitEnds \/ Notify
  <2>1. /\ p_coros' = p_coros /\ cur \in Coros /\ place' = [place EXCEPT ![cur] = "user"]
        /\ place[cur] \in {"wait", "notify_one", "notify_all"}
    BY <1>3 DEF WaitEnds, Notify
  <2> QED BY <1>1, <2>1
<1>4. ASSUME NEW c \in Conds, NEW l \in Notifies \cup {"wait"}, Call(c, l)
      PROVE  ListedOnce'
  <2>1. /\ p_coros' = p_coros /\ cur \in Coros /\ place' = [place EXCEPT ![cur] = l]
        /\ place[cur] = "user" /\ l \notin {"unborn", "dead"}
    BY <1>4, NotifiesAssumption DEF Call
  <2> QED BY <1>1, <2>1
<1>5. ASSUME NEW u \in Coros, SpawnCoro(u) PROVE ListedOnce'
  <2>1. /\ u \notin Range(p_coros) /\ p_coros' = Append(p_coros, u)
        /\ place' = [place EXCEPT ![u] = "user"]
    BY <1>5 DEF ListedOnce, SpawnCoro
  <2>2. IsInjective(p_coros') /\ Range(p_coros') = Range(p_coros) \cup {u}
    BY <2>1, AppendedRange DEF ListedOnce
  <2> QED BY <2>1, <2>2 DEF ListedOnce
<1>6. CASE Finish
  <2>1. p_idx \in 1..Len(p_coros) /\ p_coros[p_idx] = cur /\ cur \in Coros
    BY <1>6 DEF Finish
  <2>2. place' = [place EXCEPT ![cur] = "dead"] /\ p_coros' = Erased
    BY <1>6 DEF Finish
  <2>3. IsInjective(p_coros) /\ p_coros \in Seq(Coros)
    BY DEF ListedOnce
  <2>4. IsInjective(Erased) /\ Range(Erased) = Range(p_coros) \ {p_coros[p_idx]}
    BY <2>1, <2>3, ErasedRange DEF Erased
  <2> QED BY <2>1, <2>2, <2>4 DEF ListedOnce
<1> QED BY <1>2, <1>3, <1>4, <1>5, <1>6 DEF SimpleNext, SimpleStep, SimpleEnds

\* dispatch's iterator is never left dangling and start has, to the end, every
\* task to come back to: the list has each that was spawned and has not
\* returned, once, and the iterator is in it, at the task that runs.
THEOREM IteratorStays == SimpleSpec => [](SimpleTypeOK /\ ListedOnce)
<1>1. SimpleInit => SimpleTypeOK /\ ListedOnce
  <2> SUFFICES ASSUME SimpleInit PROVE SimpleTypeOK /\ ListedOnce
    OBVIOUS
  <2>1. /\ p_coros \in Seq(Coros) /\ Len(p_coros) = 1 /\ p_coros[1] = First
        /\ DOMAIN p_coros = 1..1
    BY FirstAssumption DEF SimpleInit
  <2>2. SimpleTypeOK
    BY <2>1, FirstAssumption DEF SimpleInit, SimpleTypeOK, Places
  <2>3. IsInjective(p_coros) /\ Range(p_coros) = {First}
    BY <2>1 DEF IsInjective, Range
  <2> QED BY <2>2, <2>3 DEF SimpleInit, ListedOnce
<1>2. SimpleTypeOK /\ ListedOnce /\ [SimpleNext]_simpleVars => (SimpleTypeOK /\ ListedOnce)'
  BY SimpleTypeStep, ListedStep
<1> QED BY <1>1, <1>2, PTL DEF SimpleSpec

\* A notification is not lost on a task that waits: a step that takes the flag
\* of a coro_cond down is of a task that leaves wait by it.
THEOREM NotificationsAreTaken == SimpleSpec => TakenByWaiter
<1>1. SimpleTypeOK /\ [SimpleNext]_simpleVars
        => [\A c \in Conds : p_notified[c] /\ ~p_notified'[c] =>
              \E t \in Coros : Waits(t, c) /\ place'[t] = "user"]_simpleVars
  <2> SUFFICES ASSUME SimpleTypeOK, SimpleNext, NEW c \in Conds, p_notified[c], ~p_notified'[c]
               PROVE  \E t \in Coros : Waits(t, c) /\ place'[t] = "user"
    OBVIOUS
  <2>1. WaitEnds
    BY DEF SimpleNext, SimpleStep, SimpleEnds, simpleVars, Resume, Yield, Finish, WaitGoesOn,
           Notify, SpawnCoro, Call, SimpleTypeOK
  <2>2. cur \in Coros /\ arg[cur] = c /\ place[cur] = "wait" /\ place'[cur] = "user"
    BY <2>1 DEF WaitEnds, SimpleTypeOK, GoesTo
  <2> QED BY <2>2 DEF Waits
<1> QED BY <1>1, IteratorStays, PTL DEF SimpleSpec, TakenByWaiter
=============================================================================
