-------------------------- MODULE ThreadPoolProofs --------------------------
(***************************************************************************)
(* Proofs about ThreadPool for any number of threads, any clients and any  *)
(* jobs: that an accepted job is in one place, and that destroy returns    *)
(* only when no job is left.                                               *)
(***************************************************************************)
EXTENDS ThreadPool, SequenceTheorems, TLAPS

\* Each thread keeps to its own part of the code.
Roles ==
  /\ pc[Owner] \in {"down", "starting", "up", "notify_all", "joining", "joined"}
  /\ \A w \in Workers : pc[w] \in {"unborn", "top", "sleep", "run", "exit", "pushed"}
  /\ \A c \in Clients : pc[c] \in {"user", "pushed"}

Ending == pc[Owner] \in {"notify_all", "joining", "joined"}

\* What the owner's place says of the flag and of thrs, and which workers are
\* there: they are started, and joined, in the order of p_thrs.
Phases ==
  /\ p_running <=> pc[Owner] \in {"starting", "up"}
  /\ pc[Owner] = "down" => thrs = 0
  /\ pc[Owner] = "starting" => thrs < Size
  /\ pc[Owner] \in {"up", "notify_all"} => thrs = Size
  /\ pc[Owner] = "joining" => thrs > 0
  /\ \A w \in Workers :
       pc[w] = "unborn" <=> (IF Ending THEN w <= Size - thrs ELSE w > thrs)

\* Once a worker has left, the queue is empty, and stays so as push refuses.
Drained ==
  (\E w \in Workers : pc[w] = "exit") \/ (Ending /\ thrs < Size) \/ pc[Owner] = "down"
    => ~p_running /\ p_tasks = << >>

IInv == TypeOK /\ Roles /\ Phases /\ Drained
-----------------------------------------------------------------------------
\* The owner, the workers and the clients are different threads.
LEMMA Distinct ==
  /\ Owner \in Threads /\ Workers \subseteq Threads /\ Clients \subseteq Threads
  /\ Owner \notin Workers /\ Owner \notin Clients /\ Workers \cap Clients = {}
  /\ Workers \subseteq Int
BY SizeAssumption, ClientsAssumption DEF Owner, Workers, Threads

\* The thread that start() creates next, and the one that destroy() joins next.
LEMMA NextThread ==
  ASSUME TypeOK, Phases
  PROVE  /\ pc[Owner] = "starting" => thrs + 1 \in Workers
         /\ pc[Owner] = "joining" => Size - thrs + 1 \in Workers /\ thrs - 1 \in 0..Size
BY SizeAssumption DEF TypeOK, Phases, Workers

\* A step keeps the shape of the state; that thrs stays in bounds depends on
\* where the owner is.
LEMMA TypeStep ==
  ASSUME TypeOK, Phases, [Next]_vars
  PROVE  TypeOK'
<1> USE Distinct, SizeAssumption DEF TypeOK, PCs, Goto
<1>1. CASE Start
  BY <1>1 DEF Start
<1>2. CASE StartThread
  <2>1. thrs + 1 \in Workers /\ thrs + 1 \in 0..Size
    BY <1>2, NextThread DEF StartThread, Workers
  <2>2. pc[thrs + 1] = "unborn" /\ task[thrs + 1] = {}
    BY <1>2, <2>1 DEF StartThread, Phases, Ending
  <2>3. pc' \in [Threads -> PCs]
    BY <1>2, <2>1 DEF StartThread
  <2>4. \A w \in Workers : task'[w] # {} => pc'[w] \in {"run", "pushed"}
    BY <1>2, <2>1, <2>2 DEF StartThread
  <2> QED BY <1>2, <2>1, <2>3, <2>4 DEF StartThread
<1>3. CASE NotifyAll
  BY <1>3 DEF NotifyAll
<1>4. CASE Join
  <2>1. Size - thrs + 1 \in Workers /\ thrs - 1 \in 0..Size
    BY <1>4, NextThread DEF Join
  <2> QED BY <1>4, <2>1 DEF Join
<1>5. CASE Destroy
  BY <1>5 DEF Destroy
<1>6. ASSUME NEW w \in Workers, Take(w) PROVE TypeOK'
  <2>1. Head(p_tasks) \in Jobs /\ Tail(p_tasks) \in Seq(Jobs)
    BY <1>6, HeadTailProperties DEF Take
  <2> QED BY <1>6, <2>1 DEF Take
<1>7. ASSUME NEW w \in Workers, Sleep(w) \/ Exit(w) \/ SpuriousWake(w) PROVE TypeOK'
  BY <1>7 DEF Sleep, Exit, SpuriousWake
<1>8. ASSUME NEW w \in Workers, Done(w) PROVE TypeOK'
  BY <1>8 DEF Done
<1>9. ASSUME NEW x \in Workers \cup Clients, NotifyOne(x) PROVE TypeOK'
  BY <1>9 DEF NotifyOne, Sleepers, At
<1>10. ASSUME NEW x \in Workers \cup Clients, NEW j \in Jobs, Push(x, j) PROVE TypeOK'
  BY <1>10, AppendProperties DEF Push, NewJob
<1>11. ASSUME NEW x \in Workers \cup Clients, NEW j \in Jobs, PushRefused(x, j)
       PROVE TypeOK'
  BY <1>11 DEF PushRefused, NewJob
<1>12. CASE UNCHANGED vars
  BY <1>12 DEF vars
<1> QED BY <1>1, <1>2, <1>3, <1>4, <1>5, <1>6, <1>7, <1>8, <1>9, <1>10, <1>11, <1>12
        DEF Next, OwnerStep, WorkerStep

-----------------------------------------------------------------------------
\* A step keeps every accepted job in one place.
LEMMA RunsOnceStep ==
  ASSUME TypeOK, RunsOnce, [Next]_vars
  PROVE  RunsOnce'
<1> USE Distinct DEF TypeOK, RunsOnce, Goto
<1>1. ASSUME NEW w \in Workers, Take(w) PROVE RunsOnce'
  <2> DEFINE h == Head(p_tasks)
             n == Len(p_tasks)
  <2>1. /\ n \in Nat /\ n > 0 /\ h = p_tasks[1] /\ h \in Jobs /\ task[w] = {}
        /\ Len(Tail(p_tasks)) = n - 1
        /\ \A i \in 1..(n - 1) : Tail(p_tasks)[i] = p_tasks[i + 1]
    BY <1>1, HeadTailProperties DEF Take
  <2>2. st[h] = "queued" /\ \A v \in Workers : h \notin task[v]
    BY <2>1
  <2>3. \A i \in 1..(n - 1) : Tail(p_tasks)[i] # h
    BY <2>1
  <2>4. \A j \in Jobs \ {h} : (\E i \in 1..n : p_tasks[i] = j)
                               <=> \E i \in 1..(n - 1) : Tail(p_tasks)[i] = j
    <3> SUFFICES ASSUME NEW j \in Jobs \ {h}, NEW i \in 1..n, p_tasks[i] = j
                 PROVE  \E k \in 1..(n - 1) : Tail(p_tasks)[k] = j
      BY <2>1
    <3>1. i # 1 /\ i - 1 \in 1..(n - 1) /\ Tail(p_tasks)[i - 1] = j
      BY <2>1
    <3> QED BY <3>1
  <2>5. /\ p_tasks' = Tail(p_tasks) /\ task' = [task EXCEPT ![w] = {h}]
        /\ st' = [st EXCEPT ![h] = "running"]
    BY <1>1 DEF Take
  <2> HIDE DEF h, n
  <2>6. \A i, k \in 1..Len(p_tasks') : p_tasks'[i] = p_tasks'[k] => i = k
    BY <2>1, <2>5 DEF n
  <2>7. \A j \in Jobs : st'[j] = "queued" <=> \E i \in 1..Len(p_tasks') : p_tasks'[i] = j
    BY <2>1, <2>2, <2>3, <2>4, <2>5 DEF n
  <2>8. \A j \in Jobs : st'[j] = "running" <=> \E v \in Workers : j \in task'[v]
    <3> TAKE j \in Jobs
    <3>1. \A v \in Workers : task'[v] = IF v = w THEN {h} ELSE task[v]
      BY <2>5
    <3>2. CASE j = h
      BY <2>5, <3>1, <3>2
    <3>3. CASE j # h
      BY <2>1, <2>5, <3>1, <3>3
    <3> QED BY <3>2, <3>3
  <2>9. \A u, v \in Workers : task'[u] \cap task'[v] # {} => u = v
    BY <2>2, <2>5
  <2> QED BY <2>6, <2>7, <2>8, <2>9
<1>2. ASSUME NEW x \in Workers \cup Clients, NEW j \in Jobs, Push(x, j) PROVE RunsOnce'
  <2> DEFINE n == Len(p_tasks)
  <2>1. /\ n \in Nat /\ Len(p_tasks') = n + 1 /\ p_tasks'[n + 1] = j
        /\ \A i \in 1..n : p_tasks'[i] = p_tasks[i]
    BY <1>2, AppendProperties DEF Push
  <2>2. /\ st[j] = "new" /\ st' = [st EXCEPT ![j] = "queued"] /\ UNCHANGED task
        /\ \A i \in 1..n : p_tasks[i] # j
    BY <1>2 DEF Push, NewJob
  <2> HIDE DEF n
  <2>3. \A i, k \in 1..Len(p_tasks') : p_tasks'[i] = p_tasks'[k] => i = k
    BY <2>1, <2>2 DEF n
  <2>4. \A k \in Jobs : st'[k] = "queued" <=> \E i \in 1..Len(p_tasks') : p_tasks'[i] = k
    <3> TAKE k \in Jobs
    <3>1. CASE k = j
      BY <2>1, <2>2, <3>1
    <3>2. CASE k # j
      <4>1. st'[k] = st[k]
        BY <2>2, <3>2
      <4>2. (\E i \in 1..Len(p_tasks) : p_tasks[i] = k)
              <=> \E i \in 1..Len(p_tasks') : p_tasks'[i] = k
        BY <2>1, <3>2 DEF n
      <4> QED BY <4>1, <4>2
    <3> QED BY <3>1, <3>2
  <2>5. \A k \in Jobs : st'[k] = "running" <=> \E v \in Workers : k \in task'[v]
    BY <2>2
  <2> QED BY <2>2, <2>3, <2>4, <2>5
<1>3. ASSUME NEW w \in Workers, Done(w) PROVE RunsOnce'
  BY <1>3 DEF Done
<1>4. ASSUME NEW x \in Workers \cup Clients, NEW j \in Jobs, PushRefused(x, j)
      PROVE RunsOnce'
  BY <1>4 DEF PushRefused, NewJob
<1>5. CASE UNCHANGED <<p_tasks, task, st>>
  BY <1>5
<1> QED BY <1>1, <1>2, <1>3, <1>4, <1>5
        DEF Next, OwnerStep, WorkerStep, Start, Destroy, StartThread, NotifyAll, Join,
            Sleep, Exit, SpuriousWake, NotifyOne, vars

-----------------------------------------------------------------------------
\* Nobody gets into the code of another.
LEMMA RolesStep ==
  ASSUME TypeOK, Roles, Phases, [Next]_vars
  PROVE  Roles'
<1> USE Distinct, SizeAssumption DEF TypeOK, Roles, Goto
<1>1. CASE Start \/ Destroy
  BY <1>1 DEF Start, Destroy
<1>2. CASE StartThread
  BY <1>2, NextThread DEF StartThread, Workers
<1>3. CASE NotifyAll
  BY <1>3 DEF NotifyAll
<1>4. CASE Join
  BY <1>4, NextThread DEF Join, Workers
<1>5. ASSUME NEW w \in Workers, WorkerStep(w) \/ SpuriousWake(w) PROVE Roles'
  BY <1>5 DEF WorkerStep, Take, Sleep, Exit, Done, SpuriousWake
<1>6. ASSUME NEW x \in Workers \cup Clients, NotifyOne(x) PROVE Roles'
  BY <1>6 DEF NotifyOne, Sleepers, At, Threads
<1>7. ASSUME NEW x \in Workers \cup Clients, NEW j \in Jobs, Push(x, j) \/ PushRefused(x, j)
      PROVE Roles'
  BY <1>7 DEF Push, PushRefused, NewJob
<1>8. CASE UNCHANGED vars
  BY <1>8 DEF vars
<1> QED BY <1>1, <1>2, <1>3, <1>4, <1>5, <1>6, <1>7, <1>8 DEF Next, OwnerStep

\* Starting and joining go through the workers in order.
LEMMA PhasesStep ==
  ASSUME TypeOK, Roles, Phases, [Next]_vars
  PROVE  Phases'
<1> USE Distinct, SizeAssumption DEF TypeOK, Roles, Phases, Ending, Goto
<1>1. CASE Start \/ Destroy
  BY <1>1 DEF Start, Destroy, Workers
<1>2. CASE StartThread
  BY <1>2, NextThread DEF StartThread, Workers
<1>3. CASE NotifyAll
  BY <1>3 DEF NotifyAll, Workers
<1>4. CASE Join
  BY <1>4, NextThread DEF Join, Workers
<1>5. ASSUME NEW w \in Workers, WorkerStep(w) \/ SpuriousWake(w) PROVE Phases'
  BY <1>5 DEF WorkerStep, Take, Sleep, Exit, Done, SpuriousWake
<1>6. ASSUME NEW x \in Workers \cup Clients, NotifyOne(x) PROVE Phases'
  BY <1>6 DEF NotifyOne, Sleepers, At, Threads
<1>7. ASSUME NEW x \in Workers \cup Clients, NEW j \in Jobs, Push(x, j) \/ PushRefused(x, j)
      PROVE Phases'
  BY <1>7 DEF Push, PushRefused, NewJob
<1>8. CASE UNCHANGED vars
  BY <1>8 DEF vars
<1> QED BY <1>1, <1>2, <1>3, <1>4, <1>5, <1>6, <1>7, <1>8 DEF Next, OwnerStep

\* The first worker to leave finds the queue empty, and nothing is pushed then
\* until the pool is started again.
LEMMA DrainedStep ==
  ASSUME TypeOK, Roles, Phases, Drained, [Next]_vars
  PROVE  Drained'
<1> USE Distinct, SizeAssumption DEF TypeOK, Roles, Phases, Drained, Ending, Goto
<1>1. CASE Start \/ Destroy
  BY <1>1 DEF Start, Destroy, Workers
<1>2. CASE StartThread
  BY <1>2, NextThread DEF StartThread, Workers
<1>3. CASE NotifyAll
  BY <1>3 DEF NotifyAll
<1>4. CASE Join
  BY <1>4, NextThread DEF Join, Workers
<1>5. ASSUME NEW w \in Workers, WorkerStep(w) \/ SpuriousWake(w) PROVE Drained'
  BY <1>5 DEF WorkerStep, Take, Sleep, Exit, Done, SpuriousWake
<1>6. ASSUME NEW x \in Workers \cup Clients, NotifyOne(x) PROVE Drained'
  BY <1>6 DEF NotifyOne, Sleepers, At, Threads
<1>7. ASSUME NEW x \in Workers \cup Clients, NEW j \in Jobs, Push(x, j) \/ PushRefused(x, j)
      PROVE Drained'
  BY <1>7 DEF Push, PushRefused, NewJob
<1>8. CASE UNCHANGED vars
  BY <1>8 DEF vars
<1> QED BY <1>1, <1>2, <1>3, <1>4, <1>5, <1>6, <1>7, <1>8 DEF Next, OwnerStep

-----------------------------------------------------------------------------
\* The inductive invariant holds of every reachable state.
THEOREM Inductive == SafetySpec => []IInv
<1>1. Init => TypeOK
  <2>1. Init => pc \in [Threads -> PCs] /\ task \in [Workers -> SUBSET Jobs]
    BY DEF Init, PCs
  <2>2. << >> \in Seq(Jobs) /\ 0 \in 0..Size
    BY EmptySeq, SizeAssumption
  <2> QED BY <2>1, <2>2 DEF Init, TypeOK
<1>2. Init => Roles /\ Phases /\ Drained
  BY Distinct, SizeAssumption DEF Init, Roles, Phases, Drained, Ending, Workers
<1>3. IInv /\ [Next]_vars => IInv'
  BY TypeStep, RolesStep, PhasesStep, DrainedStep DEF IInv
<1> QED BY <1>1, <1>2, <1>3, PTL DEF SafetySpec, IInv

\* Every reachable state of the pool has the shape TypeOK gives it.
THEOREM TypeCorrect == SafetySpec => []TypeOK
BY Inductive, PTL DEF IInv

\* An accepted job is in the queue or with one worker, never both or twice,
\* whatever the owner, the workers and the clients do (push, thread_run).
THEOREM JobsRunOnce == SafetySpec => []RunsOnce
<1>1. Init => RunsOnce
  BY DEF Init, RunsOnce, TypeOK
<1>2. TypeOK /\ RunsOnce /\ [Next]_vars => RunsOnce'
  BY RunsOnceStep
<1> QED BY <1>1, <1>2, TypeCorrect, PTL DEF SafetySpec

\* destroy returns only when every accepted job has run: the queue was empty
\* when the first worker left, no push came after that, and every worker has
\* ended its job before it is joined (destroy, thread_run).
THEOREM DestroyingDrains == SafetySpec => []DestroyDrains
<1>1. IInv /\ RunsOnce => DestroyDrains
  <2> SUFFICES ASSUME TypeOK, RunsOnce, Roles, Phases, Drained, pc[Owner] = "down",
                      NEW j \in Jobs
               PROVE  st[j] \notin {"queued", "running"}
    BY DEF DestroyDrains, IInv
  <2>1. p_tasks = << >>
    BY DEF Drained
  <2>2. \A w \in Workers : pc[w] = "unborn"
    BY Distinct DEF Phases, Ending, Workers
  <2>3. \A w \in Workers : task[w] = {}
    BY <2>2 DEF TypeOK
  <2> QED BY <2>1, <2>3 DEF RunsOnce
<1> QED BY <1>1, Inductive, JobsRunOnce, PTL
=============================================================================
