--------------------------- MODULE CoroScheduler ----------------------------
(***************************************************************************)
(* The M:N scheduler (ostd/concurrency.hh, basic_coroutine_scheduler):     *)
(* worker threads in thread_run take tasks from p_available, run each      *)
(* until it yields, waits or ends, and put it back on one of the lists.    *)
(* task_cond is its condition variable.                                    *)
(*                                                                         *)
(* pc[th] is where a worker is: in the dispatcher, or in the code of the   *)
(* task cur[th] it runs.  A critical section of p_lock is one action,      *)
(* except the one that task_cond::wait opens and task_run closes, during   *)
(* which the other threads go on; each p_cond.notify_one that follows a    *)
(* critical section is an action of its own.  The tasks are any program    *)
(* that spawns tasks, uses condition variables each with one mutex, yields *)
(* without holding a mutex, notifies without holding one, and ends.        *)
(***************************************************************************)
EXTENDS Sequences, Integers, FiniteSets

CONSTANTS Threads,   \* the workers that init() starts
          Tasks,
          Main,      \* the task that start() adds
          Conds,     \* condition variables, each with the mutex used with it
          Notifies,  \* which of "notify_one", "notify_all" the tasks call
          MaxCalls,  \* bound: calls of a task between two switches
          Free       \* nobody: no owner, no task, no condition variable

ASSUME FiniteAssumption == IsFiniteSet(Threads)
ASSUME MainAssumption == Main \in Tasks
ASSUME NotifiesAssumption == Notifies \subseteq {"notify_one", "notify_all"}
ASSUME MaxCallsAssumption == MaxCalls \in Nat
ASSUME FreeAssumption == Free \notin Threads \cup Tasks \cup Conds

VARIABLES p_lock,       \* the worker that owns the scheduler's mutex
          p_available,  \* the tasks ready to run, next one first
          p_waiting,    \* the tasks blocked on a condition variable
          p_running,    \* the tasks being run
          wl,           \* task_cond::p_waiting of each condition variable
          waiting_on,   \* task::waiting_on
          pc, cur,      \* of each worker
          calls,        \* what the task of each worker has spent of MaxCalls
          resume,       \* where a task that is not running goes on
          arg,          \* the condition variable a task is using
          mutex,        \* the task that owns the mutex of each of Conds
          unborn        \* the tasks not spawned yet

lists == <<p_available, p_waiting, p_running>>
vars == <<p_lock, lists, wl, waiting_on, pc, cur, calls, resume, arg, mutex,
          unborn>>

\* Where a worker is in the code of a task.
RunStates == {"user", "spawned", "locked", "wait_locked", "relock",
              "notify_one", "woke", "notify_all", "woke_all", "yield"}
\* Those in which it uses a condition variable or its mutex.
CondStates == {"locked", "wait_locked", "relock", "notify_one", "woke",
               "notify_all", "woke_all"}
PCs == RunStates \cup {"top", "sleep", "poke", "last", "exit"}

\* A p_cond.notify_one is due next.
PokeStates == {"spawned", "woke", "woke_all", "poke"}

At(S) == {th \in Threads : pc[th] \in S}
Sleepers == At({"sleep"})

Goto(th, l) == pc' = [pc EXCEPT ![th] = l]

ListsEmpty == p_available = << >> /\ p_waiting = {} /\ p_running = {}

Init ==
  /\ p_lock = Free
  /\ p_available = <<Main>>
  /\ p_waiting = {} /\ p_running = {}
  /\ wl = [d \in Conds |-> << >>]
  /\ waiting_on = [t \in Tasks |-> Free]
  /\ pc = [th \in Threads |-> "top"]
  /\ cur = [th \in Threads |-> Free]
  /\ calls = [th \in Threads |-> 0]
  /\ resume = [t \in Tasks |-> "user"]
  /\ arg = [t \in Tasks |-> Free]
  /\ mutex = [d \in Conds |-> Free]
  /\ unborn = Tasks \ {Main}
-----------------------------------------------------------------------------
(* thread_run: the dispatcher, with p_lock held *)

Take(th) ==
  /\ pc[th] = "top" /\ p_lock = Free
  /\ p_available # << >>
  /\ LET t == Head(p_available) IN
       /\ p_available' = Tail(p_available)
       /\ p_running' = p_running \cup {t}
       /\ cur' = [cur EXCEPT ![th] = t]
       /\ resume' = [resume EXCEPT ![t] = "user"]
       /\ Goto(th, resume[t])
  /\ UNCHANGED <<p_lock, p_waiting, wl, waiting_on, calls, arg, mutex, unborn>>

Sleep(th) ==
  /\ pc[th] = "top" /\ p_lock = Free
  /\ p_available = << >> /\ ~ListsEmpty
  /\ Goto(th, "sleep")
  /\ UNCHANGED <<p_lock, lists, wl, waiting_on, cur, calls, resume, arg, mutex,
                 unborn>>

\* Mutant: running tasks are not looked at.
ExitIgnoresRunning(th) ==
  /\ pc[th] = "top" /\ p_lock = Free
  /\ p_available = << >> /\ p_waiting = {}
  /\ Goto(th, "exit")
  /\ UNCHANGED <<p_lock, lists, wl, waiting_on, cur, calls, resume, arg, mutex,
                 unborn>>

Exit(th) ==
  /\ pc[th] = "top" /\ p_lock = Free
  /\ ListsEmpty
  /\ Goto(th, "exit")
  /\ UNCHANGED <<p_lock, lists, wl, waiting_on, cur, calls, resume, arg, mutex,
                 unborn>>

SpuriousWake(th) ==
  /\ pc[th] = "sleep"
  /\ Goto(th, "top")
  /\ UNCHANGED <<p_lock, lists, wl, waiting_on, cur, calls, resume, arg, mutex,
                 unborn>>

\* p_cond.notify_one(), and where the worker goes next.
AfterPoke(l) == CASE l = "spawned"  -> "user"
                  [] l = "woke"     -> "yield"
                  [] l = "woke_all" -> "notify_all"
                  [] l = "poke"     -> "top"

Poke(th) ==
  /\ pc[th] \in PokeStates
  /\ \/ Sleepers = {} /\ Goto(th, AfterPoke(pc[th]))
     \/ \E s \in Sleepers :
          pc' = [pc EXCEPT ![th] = AfterPoke(pc[th]), ![s] = "top"]
  /\ UNCHANGED <<p_lock, lists, wl, waiting_on, cur, calls, resume, arg, mutex,
                 unborn>>

\* The p_cond.notify_all() of the worker that buried the last task.
LastNotify(th) ==
  /\ pc[th] = "last"
  /\ pc' = [x \in Threads |-> IF x = th \/ pc[x] = "sleep" THEN "top" ELSE pc[x]]
  /\ UNCHANGED <<p_lock, lists, wl, waiting_on, cur, calls, resume, arg, mutex,
                 unborn>>
-----------------------------------------------------------------------------
(* task_run, after the task has switched back *)

\* Mutant: the worker keeps its reference to the task.
KeepsTask(th) == /\ p_running' = p_running \ {cur[th]}
                 /\ calls' = [calls EXCEPT ![th] = 0]
                 /\ UNCHANGED cur

StopsRunning(th) == /\ p_running' = p_running \ {cur[th]}
                    /\ cur' = [cur EXCEPT ![th] = Free]
                    /\ calls' = [calls EXCEPT ![th] = 0]

\* Mutant: the worker that buries the last task tells nobody.
FinishQuietly(th) ==
  /\ pc[th] = "user" /\ p_lock = Free
  /\ StopsRunning(th)
  /\ Goto(th, "top")
  /\ UNCHANGED <<p_lock, p_available, p_waiting, wl, waiting_on, resume, arg,
                 mutex, unborn>>

\* The task's function returns: it is erased.
Finish(th) ==
  /\ pc[th] = "user" /\ p_lock = Free
  /\ StopsRunning(th)
  /\ Goto(th, IF p_available = << >> /\ p_waiting = {} /\ p_running' = {}
              THEN "last" ELSE "top")
  /\ UNCHANGED <<p_lock, p_available, p_waiting, wl, waiting_on, resume, arg,
                 mutex, unborn>>

\* A task that yields in its own code, or at the end of a notification, goes
\* to the end of the queue.
Requeue(th) ==
  /\ pc[th] \in {"user", "yield"} /\ p_lock = Free
  /\ waiting_on[cur[th]] = Free
  /\ StopsRunning(th)
  /\ p_available' = Append(p_available, cur[th])
  /\ Goto(th, "poke")
  /\ UNCHANGED <<p_lock, p_waiting, wl, waiting_on, resume, arg, mutex, unborn>>

\* A task that waits is linked to its condition variable, last one first, and
\* the p_lock that wait() took is released.
Park(th) ==
  /\ pc[th] = "yield"
  /\ waiting_on[cur[th]] # Free
  /\ StopsRunning(th)
  /\ p_waiting' = p_waiting \cup {cur[th]}
  /\ wl' = [wl EXCEPT ![waiting_on[cur[th]]] = <<cur[th]>> \o @]
  /\ resume' = [resume EXCEPT ![cur[th]] = "relock"]
  /\ p_lock' = Free
  /\ Goto(th, "top")
  /\ UNCHANGED <<p_available, waiting_on, arg, mutex, unborn>>
-----------------------------------------------------------------------------
(* What a running task calls *)

Calls(th) == /\ pc[th] = "user" /\ calls[th] < MaxCalls
             /\ calls' = [calls EXCEPT ![th] = @ + 1]

\* do_spawn: the critical section; the notification follows.
Spawn(th, u) ==
  /\ Calls(th) /\ p_lock = Free
  /\ u \in unborn
  /\ unborn' = unborn \ {u}
  /\ p_available' = Append(p_available, u)
  /\ Goto(th, "spawned")
  /\ UNCHANGED <<p_lock, p_waiting, p_running, wl, waiting_on, cur, resume, arg,
                 mutex>>

Lock(th, c) ==
  /\ Calls(th)
  /\ mutex[c] = Free
  /\ mutex' = [mutex EXCEPT ![c] = cur[th]]
  /\ arg' = [arg EXCEPT ![cur[th]] = c]
  /\ Goto(th, "locked")
  /\ UNCHANGED <<p_lock, lists, wl, waiting_on, cur, resume, unborn>>

Unlock(th) ==
  /\ pc[th] = "locked"
  /\ mutex' = [mutex EXCEPT ![arg[cur[th]]] = Free]
  /\ Goto(th, "user")
  /\ UNCHANGED <<p_lock, lists, wl, waiting_on, cur, calls, resume, arg, unborn>>

\* Mutant: wait() does not take p_lock.
WaitUnprotected(th) ==
  /\ pc[th] = "locked"
  /\ Goto(th, "wait_locked")
  /\ UNCHANGED <<p_lock, lists, wl, waiting_on, cur, calls, resume, arg, mutex,
                 unborn>>

\* task_cond::wait: p_lock first, then the caller's mutex is released, then
\* the switch to task_run with p_lock still held.
WaitLock(th) ==
  /\ pc[th] = "locked" /\ p_lock = Free
  /\ p_lock' = th
  /\ Goto(th, "wait_locked")
  /\ UNCHANGED <<lists, wl, waiting_on, cur, calls, resume, arg, mutex, unborn>>

WaitRelease(th) ==
  /\ pc[th] = "wait_locked"
  /\ LET t == cur[th] IN
       /\ mutex' = [mutex EXCEPT ![arg[t]] = Free]
       /\ waiting_on' = [waiting_on EXCEPT ![t] = arg[t]]
  /\ Goto(th, "yield")
  /\ UNCHANGED <<p_lock, lists, wl, cur, calls, resume, arg, unborn>>

\* The end of wait: l.lock().
Relock(th) ==
  /\ pc[th] = "relock"
  /\ mutex[arg[cur[th]]] = Free
  /\ mutex' = [mutex EXCEPT ![arg[cur[th]]] = cur[th]]
  /\ Goto(th, "locked")
  /\ UNCHANGED <<p_lock, lists, wl, waiting_on, cur, calls, resume, arg, unborn>>

CallNotify(th, c, kind) ==
  /\ Calls(th)
  /\ arg' = [arg EXCEPT ![cur[th]] = c]
  /\ Goto(th, kind)
  /\ UNCHANGED <<p_lock, lists, wl, waiting_on, cur, resume, mutex, unborn>>

\* Mutant: next_waiting is not followed.
WakeKeepsLink(c) ==
  LET w == Head(wl[c]) IN
    /\ waiting_on' = [waiting_on EXCEPT ![w] = Free]
    /\ p_waiting' = p_waiting \ {w}
    /\ p_available' = <<w>> \o p_available
    /\ UNCHANGED wl

\* The first task of the wait list goes to the front of the queue.
WakeFirst(c) ==
  LET w == Head(wl[c]) IN
    /\ waiting_on' = [waiting_on EXCEPT ![w] = Free]
    /\ p_waiting' = p_waiting \ {w}
    /\ p_available' = <<w>> \o p_available
    /\ wl' = [wl EXCEPT ![c] = Tail(@)]

NotifyOneEmpty(th) ==
  /\ pc[th] = "notify_one" /\ p_lock = Free
  /\ wl[arg[cur[th]]] = << >>
  /\ Goto(th, "user")
  /\ UNCHANGED <<p_lock, lists, wl, waiting_on, cur, calls, resume, arg, mutex,
                 unborn>>

\* Mutant: the notifier goes on without a yield.
NotifyOneGoesOn(th) ==
  /\ pc[th] = "notify_one" /\ p_lock = Free
  /\ wl[arg[cur[th]]] # << >>
  /\ WakeFirst(arg[cur[th]])
  /\ Goto(th, "spawned")
  /\ UNCHANGED <<p_lock, p_running, cur, calls, resume, arg, mutex, unborn>>

NotifyOneWake(th) ==
  /\ pc[th] = "notify_one" /\ p_lock = Free
  /\ wl[arg[cur[th]]] # << >>
  /\ WakeFirst(arg[cur[th]])
  /\ Goto(th, "woke")
  /\ UNCHANGED <<p_lock, p_running, cur, calls, resume, arg, mutex, unborn>>

\* Mutant: the workers are poked once, after the loop.
NotifyAllPokesLast(th) ==
  /\ pc[th] = "notify_all" /\ p_lock = Free
  /\ wl[arg[cur[th]]] # << >>
  /\ WakeFirst(arg[cur[th]])
  /\ Goto(th, IF Len(wl[arg[cur[th]]]) = 1 THEN "woke_all" ELSE "notify_all")
  /\ UNCHANGED <<p_lock, p_running, cur, calls, resume, arg, mutex, unborn>>

\* One turn of the loop in notify_all, which gives p_lock up for the poke.
NotifyAllWake(th) ==
  /\ pc[th] = "notify_all" /\ p_lock = Free
  /\ wl[arg[cur[th]]] # << >>
  /\ WakeFirst(arg[cur[th]])
  /\ Goto(th, "woke_all")
  /\ UNCHANGED <<p_lock, p_running, cur, calls, resume, arg, mutex, unborn>>

NotifyAllDone(th) ==
  /\ pc[th] = "notify_all" /\ p_lock = Free
  /\ wl[arg[cur[th]]] = << >>
  /\ Goto(th, "yield")
  /\ UNCHANGED <<p_lock, lists, wl, waiting_on, cur, calls, resume, arg, mutex,
                 unborn>>
-----------------------------------------------------------------------------
\* init() has joined every worker and start() returns.
Terminating == /\ \A th \in Threads : pc[th] = "exit"
               /\ UNCHANGED vars

Dispatch(th) == Take(th) \/ Sleep(th) \/ Exit(th)

Return(th) == Finish(th) \/ Requeue(th) \/ Park(th)

Call(th) == \/ \E u \in Tasks : Spawn(th, u)
            \/ \E c \in Conds : \/ Lock(th, c)
                                \/ \E kind \in Notifies : CallNotify(th, c, kind)
            \/ Unlock(th) \/ WaitLock(th)

InCall(th) == \/ WaitRelease(th) \/ Relock(th)
              \/ NotifyOneEmpty(th) \/ NotifyOneWake(th)
              \/ NotifyAllWake(th) \/ NotifyAllDone(th)

\* What a worker does when the operating system runs it.
Step(th) == \/ Dispatch(th) \/ Poke(th) \/ LastNotify(th)
            \/ Return(th) \/ Call(th) \/ InCall(th)

Next == \/ \E th \in Threads : Step(th) \/ SpuriousWake(th)
        \/ Terminating

SafetySpec == Init /\ [][Next]_vars

\* The operating system runs every worker, and a worker that finds a mutex
\* free again and again gets it in the end.  A task may take any of its
\* steps: that it gives up the thread at all is the bound MaxCalls.
Spec == SafetySpec /\ \A th \in Threads : SF_vars(Step(th))
-----------------------------------------------------------------------------
\* The state has the shape the code gives it.
TypeOK ==
  /\ p_lock \in Threads \cup {Free}
  /\ p_available \in Seq(Tasks)
  /\ p_waiting \in SUBSET Tasks /\ p_running \in SUBSET Tasks
  /\ wl \in [Conds -> Seq(Tasks)]
  /\ waiting_on \in [Tasks -> Conds \cup {Free}]
  /\ pc \in [Threads -> PCs]
  /\ cur \in [Threads -> Tasks \cup {Free}]
  /\ \A th \in Threads : pc[th] \in RunStates <=> cur[th] # Free
  /\ calls \in [Threads -> 0..MaxCalls]
  /\ resume \in [Tasks -> {"user", "relock"}]
  /\ arg \in [Tasks -> Conds \cup {Free}]
  /\ \A th \in Threads : pc[th] \in CondStates => arg[cur[th]] # Free
  /\ \A t \in Tasks :
       resume[t] = "relock" \/ waiting_on[t] # Free => arg[t] # Free
  /\ mutex \in [Conds -> Tasks \cup {Free}]
  /\ unborn \in SUBSET Tasks

Elements(q) == {q[i] : i \in 1..Len(q)}
NoDuplicates(q) == \A i, j \in 1..Len(q) : q[i] = q[j] => i = j

\* A list holds a task once, and no two lists hold the same task.
ListedOnce ==
  /\ NoDuplicates(p_available)
  /\ Elements(p_available) \cap (p_waiting \cup p_running) = {}
  /\ p_waiting \cap p_running = {}
  /\ unborn \cap (Elements(p_available) \cup p_waiting \cup p_running) = {}

\* The running tasks are those that workers are inside, each of one worker.
RunByOne ==
  /\ p_running = {cur[th] : th \in Threads} \ {Free}
  /\ \A x, y \in Threads : cur[x] = cur[y] /\ cur[x] # Free => x = y

\* A waiting task is linked once, to the condition variable it waits on.
LinkedOnce ==
  /\ \A c \in Conds :
       /\ NoDuplicates(wl[c])
       /\ Elements(wl[c]) = {t \in p_waiting : waiting_on[t] = c}
  /\ \A t \in p_waiting : waiting_on[t] # Free

\* Every task is in one place, whatever the workers do at the same time (its
\* iterator pos and its link next_waiting are used on that ground).
OnePlace == ListedOnce /\ RunByOne /\ LinkedOnce

\* Work is not left beside a sleeping worker: while one sleeps, the ready
\* tasks are no more than the workers about to look for one or to wake one.
\* Every critical section that makes a task ready is followed by a wakeup,
\* and none of those is used up by something else.
WorkConserving ==
  Sleepers # {} =>
    Len(p_available) <= Cardinality(At(PokeStates \cup {"top"}))

\* A worker leaves, and start() can return, only when no task is left that
\* could still run or wake another.
ExitsWhenDone == (\E th \in Threads : pc[th] = "exit") => ListsEmpty

\* Once no task is left, every worker leaves: none sleeps through the end.
AllExit == ListsEmpty ~> \A th \in Threads : pc[th] = "exit"

\* A ready task gets to run, although notified tasks are put before it, as long
\* as every call of notify_all ends: the notifier goes behind it.
NoStarvation ==
  (\A th \in Threads : []<>(pc[th] \notin {"notify_all", "woke_all"})) =>
    \A t \in Tasks : (t \in Elements(p_available)) ~> (t \in p_running)

\* What the task t is doing, as a user of condition variables sees it.
Standing(t) ==
  LET ths == {th \in Threads : cur[th] = t}
      l == pc[CHOOSE th \in ths : TRUE]
  IN IF t \in p_waiting THEN "waiting"
     ELSE IF ths = {} THEN IF resume[t] = "relock" THEN "woken" ELSE "out"
     ELSE CASE l \in {"locked", "wait_locked"} -> "in"
            [] l = "yield" /\ waiting_on[t] # Free -> "waiting"
            [] l = "relock" -> "woken"
            [] l = "notify_one" -> "notify_one"
            [] l \in {"notify_all", "woke_all"} -> "notify_all"
            [] OTHER -> "out"

Monitor == INSTANCE Condvar WITH holder <- mutex,
                                 st <- [t \in Tasks |-> Standing(t)],
                                 on <- arg,
                                 Nobody <- Free

\* task_cond is the condition variable that generic_condvar documents: the
\* release of the mutex and the block are one step to everybody else, a
\* notify_one that finds nobody is one that nobody was waiting for, and a
\* notify_all leaves nobody waiting.
ImplementsCondvar == Monitor!Spec
=============================================================================
