----------------------------- MODULE ThreadPool -----------------------------
(***************************************************************************)
(* ostd::thread_pool (ostd/thread_pool.hh): an owner starts and destroys   *)
(* the pool, worker threads take jobs from a queue, and clients, or jobs   *)
(* that are running, push jobs.  A critical section of p_lock is one       *)
(* action; the notifications come after it, as actions of their own.       *)
(* A job is the packaged_task of one push: it is refused, or it is queued  *)
(* and its future becomes ready when it has run, thrown or not.            *)
(***************************************************************************)
EXTENDS Sequences, Integers, FiniteSets

CONSTANTS Size,     \* how many threads start() is asked for
          Clients,
          Jobs      \* bound: the jobs that are ever pushed, each once

Workers == 1..Size
Owner == 0
Threads == {Owner} \cup Workers \cup Clients

ASSUME SizeAssumption == Size \in Nat \ {0}
ASSUME ClientsAssumption == IsFiniteSet(Clients) /\ Clients \cap (0..Size) = {}

VARIABLES p_running,
          p_tasks,   \* the queue
          pc,        \* where each thread is
          task,      \* the job a worker is running
          st,        \* what became of each job
          thrs       \* how many of p_thrs are started, or still to be joined

vars == <<p_running, p_tasks, pc, task, st, thrs>>

PCs == {"down", "starting", "up", "notify_all", "joining", "joined",  \* owner
        "user",                                                       \* client
        "unborn", "top", "sleep", "run", "exit",                      \* worker
        "pushed"}                                          \* client or worker

At(S) == {x \in Threads : pc[x] \in S}
Sleepers == At({"sleep"})

Goto(x, l) == pc' = [pc EXCEPT ![x] = l]

Init == /\ p_running = FALSE
        /\ p_tasks = << >>
        /\ pc = [x \in Threads |-> IF x = Owner THEN "down"
                                   ELSE IF x \in Workers THEN "unborn" ELSE "user"]
        /\ task = [w \in Workers |-> {}]
        /\ st = [j \in Jobs |-> "new"]
        /\ thrs = 0
-----------------------------------------------------------------------------
(* start: the flag is set, then the threads are created one by one.        *)

Start == /\ pc[Owner] = "down"
         /\ p_running' = TRUE
         /\ Goto(Owner, "starting")
         /\ UNCHANGED <<p_tasks, task, st, thrs>>

StartThread == /\ pc[Owner] = "starting"
               /\ thrs' = thrs + 1
               /\ pc' = [pc EXCEPT ![thrs'] = "top",
                                   ![Owner] = IF thrs' = Size THEN "up" ELSE @]
               /\ UNCHANGED <<p_running, p_tasks, task, st>>
-----------------------------------------------------------------------------
(* push, by a client or by the job a worker is running *)

NewJob(x, j) == pc[x] \in {"user", "run"} /\ st[j] = "new"

\* Mutant: push does not look at p_running.
PushAnyway(x, j) == /\ NewJob(x, j)
                    /\ p_tasks' = Append(p_tasks, j)
                    /\ st' = [st EXCEPT ![j] = "queued"]
                    /\ Goto(x, "pushed")
                    /\ UNCHANGED <<p_running, task, thrs>>

Push(x, j) == /\ NewJob(x, j)
              /\ p_running
              /\ p_tasks' = Append(p_tasks, j)
              /\ st' = [st EXCEPT ![j] = "queued"]
              /\ Goto(x, "pushed")
              /\ UNCHANGED <<p_running, task, thrs>>

\* std::runtime_error: "push on stopped thread_pool".
PushRefused(x, j) == /\ NewJob(x, j)
                     /\ ~p_running
                     /\ st' = [st EXCEPT ![j] = "refused"]
                     /\ UNCHANGED <<p_running, p_tasks, pc, task, thrs>>

\* p_cond.notify_one() at the end of push.
NotifyOne(x) ==
  /\ pc[x] = "pushed"
  /\ LET back == IF x \in Workers THEN "run" ELSE "user" IN
       \/ Sleepers = {} /\ Goto(x, back)
       \/ \E s \in Sleepers : pc' = [pc EXCEPT ![x] = back, ![s] = "top"]
  /\ UNCHANGED <<p_running, p_tasks, task, st, thrs>>
-----------------------------------------------------------------------------
(* thread_run *)

\* Mutant: the front is read, but popped only after the job has run.
TakeWithoutPop(w) == /\ pc[w] = "top"
                     /\ p_tasks # << >>
                     /\ task' = [task EXCEPT ![w] = {Head(p_tasks)}]
                     /\ st' = [st EXCEPT ![Head(p_tasks)] = "running"]
                     /\ Goto(w, "run")
                     /\ UNCHANGED <<p_running, p_tasks, thrs>>

Take(w) == /\ pc[w] = "top"
           /\ p_tasks # << >>
           /\ p_tasks' = Tail(p_tasks)
           /\ task' = [task EXCEPT ![w] = {Head(p_tasks)}]
           /\ st' = [st EXCEPT ![Head(p_tasks)] = "running"]
           /\ Goto(w, "run")
           /\ UNCHANGED <<p_running, thrs>>

Sleep(w) == /\ pc[w] = "top"
            /\ p_running /\ p_tasks = << >>
            /\ Goto(w, "sleep")
            /\ UNCHANGED <<p_running, p_tasks, task, st, thrs>>

\* Mutant: a worker that is told to stop does not drain the queue.
ExitAtOnce(w) == /\ pc[w] = "top"
                 /\ ~p_running
                 /\ Goto(w, "exit")
                 /\ UNCHANGED <<p_running, p_tasks, task, st, thrs>>

Exit(w) == /\ pc[w] = "top"
           /\ ~p_running /\ p_tasks = << >>
           /\ Goto(w, "exit")
           /\ UNCHANGED <<p_running, p_tasks, task, st, thrs>>

SpuriousWake(w) == /\ pc[w] = "sleep"
                   /\ Goto(w, "top")
                   /\ UNCHANGED <<p_running, p_tasks, task, st, thrs>>

\* The job returns and its future is ready.
Done(w) == /\ pc[w] = "run"
           /\ st' = [j \in Jobs |-> IF j \in task[w] THEN "done" ELSE st[j]]
           /\ task' = [task EXCEPT ![w] = {}]
           /\ Goto(w, "top")
           /\ UNCHANGED <<p_running, p_tasks, thrs>>
-----------------------------------------------------------------------------
(* destroy, and the destructor: the flag, notify_all, then every thread is *)
(* joined in the order of p_thrs with a notify_all after each.             *)

Destroy == /\ pc[Owner] = "up"
           /\ p_running' = FALSE
           /\ Goto(Owner, "notify_all")
           /\ UNCHANGED <<p_tasks, task, st, thrs>>

\* Mutant: one worker is told, and after it is joined the next.
NotifiesOneWorker ==
  /\ pc[Owner] \in {"notify_all", "joined"}
  /\ LET next == IF thrs = 0 THEN "down" ELSE "joining" IN
       \/ Sleepers = {} /\ Goto(Owner, next)
       \/ \E s \in Sleepers : pc' = [pc EXCEPT ![Owner] = next, ![s] = "top"]
  /\ UNCHANGED <<p_running, p_tasks, task, st, thrs>>

NotifyAll == /\ pc[Owner] \in {"notify_all", "joined"}
             /\ pc' = [x \in Threads |->
                         IF x = Owner THEN IF thrs = 0 THEN "down" ELSE "joining"
                         ELSE IF pc[x] = "sleep" THEN "top" ELSE pc[x]]
             /\ UNCHANGED <<p_running, p_tasks, task, st, thrs>>

Join == /\ pc[Owner] = "joining"
        /\ LET w == Size - thrs + 1 IN
             /\ pc[w] = "exit"
             /\ pc' = [pc EXCEPT ![w] = "unborn", ![Owner] = "joined"]
        /\ thrs' = thrs - 1
        /\ UNCHANGED <<p_running, p_tasks, task, st>>
-----------------------------------------------------------------------------
WorkerStep(w) == Take(w) \/ Sleep(w) \/ Exit(w) \/ Done(w)

OwnerStep == StartThread \/ NotifyAll \/ Join

Next == \/ Start \/ Destroy \/ OwnerStep
        \/ \E w \in Workers : WorkerStep(w) \/ SpuriousWake(w)
        \/ \E x \in Workers \cup Clients :
             \/ NotifyOne(x)
             \/ \E j \in Jobs : Push(x, j) \/ PushRefused(x, j)

SafetySpec == Init /\ [][Next]_vars

\* The threads of the pool and those inside one of its calls are run by the
\* operating system, and a job returns.  Nobody is obliged to call anything.
Fairness == /\ WF_vars(OwnerStep)
            /\ \A w \in Workers : WF_vars(WorkerStep(w))
            /\ \A x \in Workers \cup Clients : WF_vars(NotifyOne(x))

Spec == SafetySpec /\ Fairness
-----------------------------------------------------------------------------
\* The state has the shape the code gives it.
TypeOK == /\ p_running \in BOOLEAN
          /\ p_tasks \in Seq(Jobs)
          /\ pc \in [Threads -> PCs]
          /\ task \in [Workers -> SUBSET Jobs]
          /\ \A w \in Workers : task[w] # {} => pc[w] \in {"run", "pushed"}
          /\ st \in [Jobs -> {"new", "refused", "queued", "running", "done"}]
          /\ thrs \in 0..Size

\* An accepted job is in one place: in the queue, once, or with the one worker
\* that runs it; and a job that was refused or has run is in neither.
RunsOnce ==
  /\ \A i, k \in 1..Len(p_tasks) : p_tasks[i] = p_tasks[k] => i = k
  /\ \A j \in Jobs :
       /\ st[j] = "queued" <=> \E i \in 1..Len(p_tasks) : p_tasks[i] = j
       /\ st[j] = "running" <=> \E w \in Workers : j \in task[w]
  /\ \A v, w \in Workers : task[v] \cap task[w] # {} => v = w

\* destroy() returns only after every job that was accepted has run: while the
\* pool is down there is no job waiting or running.
DestroyDrains ==
  pc[Owner] = "down" => \A j \in Jobs : st[j] \notin {"queued", "running"}

\* A job that push() accepted is run to its end, whatever happens to the pool.
AcceptedJobsRun == \A j \in Jobs : (st[j] = "queued") ~> (st[j] = "done")

\* destroy() returns.
DestroyReturns ==
  (pc[Owner] \in {"notify_all", "joining", "joined"}) ~> (pc[Owner] = "down")
=============================================================================
