----------------------------- MODULE TidProofs ------------------------------
(***************************************************************************)
(* Proofs about Tid for any tasks and any number of workers: that no task  *)
(* sleeps through a result that was stored.  Set_value notifies one, and   *)
(* that is enough because a tid has one owner.                             *)
(***************************************************************************)
EXTENDS Tid, FiniteSetTheorems, TLAPS

\* A task asks only about a task it spawned, and each was spawned once.
OwnersAsk ==
  \A t \in Tasks : target[t] # None => parent[target[t]] = t

\* Whoever was spawned has begun, or is about to.
SpawnedAreBorn ==
  \A t \in Tasks : parent[t] # None => pc[t] # "unborn"

\* A result is there only after the function has returned.
StoredAtTheEnd ==
  \A t \in Tasks : p_stor[t] => pc[t] \in {"notify", "ended"}

IInv == /\ TypeOK /\ IsFiniteSet(on)
        /\ OwnersAsk /\ SpawnedAreBorn /\ StoredAtTheEnd /\ NoLostResult

\* The steps that leave the tasks where they are.
Scheduling == \E t \in Tasks : Resume(t) \/ Yield(t)
-----------------------------------------------------------------------------
\* Giving a worker up leaves no more tasks on a worker than there were, and
\* taking one that is free leaves no more than there are workers.
LEMMA Occupied ==
  ASSUME IsFiniteSet(on), Cardinality(on) <= Workers, NEW t \in Tasks
  PROVE  /\ IsFiniteSet(on \ {t}) /\ Cardinality(on \ {t}) <= Workers
         /\ IsFiniteSet(on \cup {t})
         /\ t \notin on /\ Cardinality(on) < Workers => Cardinality(on \cup {t}) <= Workers
<1>1. IsFiniteSet(on \ {t}) /\ Cardinality(on \ {t}) <= Cardinality(on)
  BY FS_Subset
<1>2. /\ Cardinality(on) \in Nat /\ Cardinality(on \ {t}) \in Nat
      /\ IsFiniteSet(on \cup {t})
      /\ t \notin on => Cardinality(on \cup {t}) = Cardinality(on) + 1
  BY <1>1, FS_CardinalityType, FS_AddElement
<1> QED BY <1>1, <1>2, WorkersAssumption

\* A step keeps the shape of the state and the number of occupied workers.
LEMMA TypeStep ==
  ASSUME TypeOK, IsFiniteSet(on), [Next]_vars
  PROVE  TypeOK' /\ IsFiniteSet(on')
<1>1. CASE Scheduling
  <2> SUFFICES ASSUME NEW t \in Tasks, Resume(t) \/ Yield(t)
               PROVE  TypeOK' /\ IsFiniteSet(on')
    BY <1>1 DEF Scheduling
  <2> QED BY Occupied DEF TypeOK, Resume, Yield
<1> USE MainAssumption DEF TypeOK, PCs, InFunc, Goto
<1>2. ASSUME NEW t \in Tasks, Begin(t) \/ End(t) \/ LookFound(t) \/ SpuriousWake(t)
      PROVE  TypeOK' /\ IsFiniteSet(on')
  <2>1. CASE Begin(t)
    BY <2>1 DEF Begin
  <2>2. CASE SpuriousWake(t)
    BY <2>2 DEF SpuriousWake
  <2>3. CASE Return(t)
    BY <2>3 DEF Return
  <2>4. CASE Throw(t)
    BY <2>4 DEF Throw
  <2>5. CASE LookFound(t)
    BY <2>5 DEF LookFound, Looking
  <2> QED BY <1>2, <2>1, <2>2, <2>3, <2>4, <2>5 DEF End
<1>3. ASSUME NEW t \in Tasks, Notify(t) PROVE TypeOK' /\ IsFiniteSet(on')
  <2>1. on' = on \ {t} /\ Cardinality(on') <= Workers /\ IsFiniteSet(on')
    BY <1>3, Occupied DEF Notify
  <2> QED BY <1>3, <2>1 DEF Notify
<1>4. ASSUME NEW t \in Tasks, LookWait(t) PROVE TypeOK' /\ IsFiniteSet(on')
  <2>1. on' = on \ {t} /\ Cardinality(on') <= Workers /\ IsFiniteSet(on')
    BY <1>4, Occupied DEF LookWait
  <2> QED BY <1>4, <2>1 DEF LookWait, Looking
<1>5. ASSUME NEW t \in Tasks, NEW u \in Tasks, Spawn(t, u) \/ Call(t, u)
      PROVE  TypeOK' /\ IsFiniteSet(on')
  BY <1>5 DEF Spawn, Call
<1>6. CASE UNCHANGED vars
  BY <1>6 DEF vars
<1> QED BY <1>1, <1>2, <1>3, <1>4, <1>5, <1>6
        DEF Next, Scheduling, Look, Terminating

\* A step keeps a tid with the task that spawned, and a result unset until then.
LEMMA OwnersStep ==
  ASSUME TypeOK, OwnersAsk, SpawnedAreBorn, StoredAtTheEnd, [Next]_vars
  PROVE  OwnersAsk' /\ SpawnedAreBorn' /\ StoredAtTheEnd'
<1> USE MainAssumption DEF TypeOK, OwnersAsk, SpawnedAreBorn, StoredAtTheEnd, Goto
<1>1. CASE Scheduling
  BY <1>1 DEF Scheduling, Resume, Yield
<1>2. ASSUME NEW t \in Tasks, Begin(t) \/ End(t) \/ Look(t) \/ SpuriousWake(t)
      PROVE  OwnersAsk' /\ SpawnedAreBorn' /\ StoredAtTheEnd'
  BY <1>2 DEF Begin, End, Return, Throw, Look, LookFound, LookWait, Looking, SpuriousWake
<1>3. ASSUME NEW t \in Tasks, Notify(t)
      PROVE  OwnersAsk' /\ SpawnedAreBorn' /\ StoredAtTheEnd'
  BY <1>3 DEF Notify
<1>4. ASSUME NEW t \in Tasks, NEW u \in Tasks, Spawn(t, u)
      PROVE  OwnersAsk' /\ SpawnedAreBorn' /\ StoredAtTheEnd'
  BY <1>4 DEF Spawn
<1>5. ASSUME NEW t \in Tasks, NEW u \in Tasks, Call(t, u)
      PROVE  OwnersAsk' /\ SpawnedAreBorn' /\ StoredAtTheEnd'
  BY <1>5 DEF Call
<1>6. CASE UNCHANGED vars
  BY <1>6 DEF vars
<1> QED BY <1>1, <1>2, <1>3, <1>4, <1>5, <1>6 DEF Next, Scheduling, Look, Terminating

\* A step leaves no sleeper without its result or a notification to come.
LEMMA NoLostStep ==
  ASSUME TypeOK, OwnersAsk, SpawnedAreBorn, StoredAtTheEnd, NoLostResult, [Next]_vars
  PROVE  NoLostResult'
<1> USE MainAssumption DEF TypeOK, NoLostResult, Goto
<1>1. CASE Scheduling
  BY <1>1 DEF Scheduling, Resume, Yield
<1>2. ASSUME NEW t \in Tasks, Begin(t) \/ End(t) \/ LookFound(t) \/ SpuriousWake(t)
      PROVE  NoLostResult'
  BY <1>2 DEF Begin, End, Return, Throw, LookFound, Looking, SpuriousWake
<1>3. ASSUME NEW t \in Tasks, LookWait(t) PROVE NoLostResult'
  BY <1>3 DEF LookWait, Looking
\* The only task that can sleep on t is its parent, so waking one wakes all.
<1>4. ASSUME NEW t \in Tasks, Notify(t) PROVE NoLostResult'
  <2>1. \A u, v \in Tasks : pc[u] = "wait" /\ pc[v] = "wait" /\ target[u] = t /\ target[v] = t
                              => u = v
    BY DEF OwnersAsk
  <2>2. \A u \in Tasks : pc'[u] = "wait" => pc[u] = "wait" /\ target[u] # t
    BY <1>4, <2>1 DEF Notify
  <2>3. \A u \in Tasks : pc[u] = "notify" /\ u # t => pc'[u] = "notify"
    BY <1>4 DEF Notify
  <2> QED BY <1>4, <2>2, <2>3 DEF Notify
<1>5. ASSUME NEW t \in Tasks, NEW u \in Tasks, Spawn(t, u) PROVE NoLostResult'
  BY <1>5 DEF Spawn
<1>6. ASSUME NEW t \in Tasks, NEW u \in Tasks, Call(t, u) PROVE NoLostResult'
  BY <1>6 DEF Call
<1>7. CASE UNCHANGED vars
  BY <1>7 DEF vars
<1> QED BY <1>1, <1>2, <1>3, <1>4, <1>5, <1>6, <1>7 DEF Next, Scheduling, Look, Terminating
-----------------------------------------------------------------------------
\* Every reachable state satisfies the inductive invariant.
THEOREM Inductive == Spec => []IInv
<1>1. Init => IInv
  BY MainAssumption, WorkersAssumption, FS_EmptySet
     DEF Init, IInv, TypeOK, PCs, InFunc, OwnersAsk, SpawnedAreBorn, StoredAtTheEnd,
         NoLostResult
<1>2. IInv /\ [Next]_vars => IInv'
  BY TypeStep, OwnersStep, NoLostStep DEF IInv
<1> QED BY <1>1, <1>2, PTL DEF Spec

\* The state keeps its shape; no more tasks run than there are workers.
THEOREM TypeCorrect == Spec => []TypeOK
BY Inductive, PTL DEF IInv

\* A task never sleeps on a result that is there and whose notification is
\* over, although the result is stored first and notify_one comes later and
\* outside p_lock (set_value, get, wait).
THEOREM ResultsAreNotLost == Spec => []NoLostResult
BY Inductive, PTL DEF IInv
=============================================================================
