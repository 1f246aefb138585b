-------------------------------- MODULE Make --------------------------------
(***************************************************************************)
(* ostd::build::make (ostd/build/make.hh, src/build_make.cc): exec walks   *)
(* the graph of targets depth first; the body of a target runs in the      *)
(* owner's thread when its dependencies are done, and pushes jobs to the   *)
(* thread pool.  A task is the body of a target together with the futures  *)
(* of its jobs (make_task_simple); wait_rest resumes the tasks of a        *)
(* wait_for until they are done, between waits for p_avail, a flag that    *)
(* each job raises under p_mtx before its future becomes ready.            *)
(*                                                                         *)
(* The stack holds the wait_for calls, innermost first.  The pool is what  *)
(* ThreadPool.tla shows of it: an accepted job is run to its end.          *)
(***************************************************************************)
EXTENDS Sequences, Integers, FiniteSets

CONSTANTS Targets, Root,
          Deps,  \* of each target, in order
          Jobs,  \* how many jobs the body of each target pushes
          None

ASSUME RootAssumption == Root \in Targets /\ None \notin Targets
\* A tree: no target is needed twice.  (One that is runs twice.)
ASSUME DepsAssumption ==
  /\ Deps \in [Targets -> Seq(Targets)]
  /\ \A t, u \in Targets : \A i \in 1..Len(Deps[t]), j \in 1..Len(Deps[u]) :
       Deps[t][i] # Root /\ (Deps[t][i] = Deps[u][j] => t = u /\ i = j)
ASSUME JobsAssumption == Jobs \in [Targets -> Nat]

JobsOf(t) == {<<t, i>> : i \in 1..Jobs[t]}
AllJobs == UNION {JobsOf(t) : t \in Targets}

VARIABLES stack,    \* of wait_for: its target, the dependencies to do, its
                    \* queue tasks, and the queue atasks of wait_rest
          pc, task, \* the owner, and its p_current
          look,     \* the future that resume is at
          from,     \* who called resume: "body", "round", "drain"
          futures,  \* make_task_simple::p_futures of each target
          st,       \* where each job is
          p_avail

owner == <<stack, pc, task, look, from, futures>>
vars == <<owner, st, p_avail>>

PCs == {"exec", "body", "scan", "sleep", "wait", "round", "drain",
        "returned", "failed", "undefined"}

Frame(t, deps) == [target |-> t, todo |-> deps, tasks |-> << >>, atasks |-> << >>]

Top == Head(stack)
Update(frame) == stack' = <<frame>> \o Tail(stack)

Init == /\ stack = <<Frame(None, <<Root>>)>>
        /\ pc = "exec" /\ task = None
        /\ look = 1 /\ from = "body"
        /\ futures = [t \in Targets |-> {}]
        /\ st = [j \in AllJobs |-> "new"]
        /\ p_avail = FALSE
-----------------------------------------------------------------------------
(* exec_rule and exec_rlist: the next dependency of the innermost wait_for *)

Dependency(t) == pc = "exec" /\ Top.todo # << >> /\ t = Head(Top.todo)

\* A target with dependencies opens a wait_for of its own.
Descend(t) ==
  /\ Dependency(t) /\ Deps[t] # << >>
  /\ stack' = <<Frame(t, Deps[t]), [Top EXCEPT !.todo = Tail(@)]>> \o Tail(stack)
  /\ UNCHANGED <<pc, task, look, from, futures, st, p_avail>>

Leaf(t) == /\ Dependency(t) /\ Deps[t] = << >>
           /\ Update([Top EXCEPT !.todo = Tail(@)])
           /\ task' = t /\ pc' = "body"
           /\ UNCHANGED <<look, from, futures, st, p_avail>>

\* An exception leaves every wait_for.
Fails == pc' = "failed" /\ stack' = << >>

\* No rule, and no such file.
Missing(t) == /\ Dependency(t)
              /\ Fails
              /\ UNCHANGED <<task, look, from, futures, st, p_avail>>

\* The target is up to date, or has no rule with a body.
Skip == /\ pc = "body"
        /\ pc' = "exec"
        /\ UNCHANGED <<stack, task, look, from, futures, st, p_avail>>

Pushes(t) == st' = [j \in AllJobs |-> IF j \in JobsOf(t) THEN "func" ELSE st[j]]

\* The body runs and pushes its jobs; resume goes on to its futures.
Body == /\ pc = "body"
        /\ Pushes(task)
        /\ futures' = [futures EXCEPT ![task] = JobsOf(task)]
        /\ pc' = "scan" /\ look' = 1 /\ from' = "body"
        /\ UNCHANGED <<stack, task, p_avail>>

\* The body throws after its pushes; its task is destroyed.
BodyThrows == /\ pc = "body"
              /\ Pushes(task)
              /\ Fails
              /\ UNCHANGED <<task, look, from, futures, p_avail>>
-----------------------------------------------------------------------------
(* make_task_simple::resume: one future after the other                    *)

Future == <<task, look>>
Scans == pc = "scan" /\ look <= Jobs[task]

ScanPast == /\ Scans
            /\ Future \in futures[task] => st[Future] \notin {"ready", "failed"}
            /\ look' = look + 1
            /\ UNCHANGED <<stack, pc, task, from, futures, st, p_avail>>

ScanErase == /\ Scans
             /\ Future \in futures[task] /\ st[Future] = "ready"
             /\ futures' = [futures EXCEPT ![task] = @ \ {Future}]
             /\ look' = look + 1
             /\ UNCHANGED <<stack, pc, task, from, st, p_avail>>

\* The tasks.pop() of the drain loop, the second one of its turn.
DrainPop == IF Top.tasks = << >>
            THEN pc' = "undefined" /\ UNCHANGED stack
            ELSE pc' = "drain" /\ Update([Top EXCEPT !.tasks = Tail(@)])

\* get() of a future throws: the rest is cleared.  wait_rest catches make_error.
ScanThrow ==
  /\ Scans
  /\ Future \in futures[task] /\ st[Future] = "failed"
  /\ futures' = [futures EXCEPT ![task] = {}]
  /\ \/ Fails
     \/ from = "round" /\ pc' = "drain" /\ UNCHANGED stack
     \/ from = "drain" /\ DrainPop
  /\ UNCHANGED <<task, look, from, st, p_avail>>

\* exec_rlist keeps a task that is not done for its wait_for.
BodyScanned ==
  /\ pc = "scan" /\ look > Jobs[task] /\ from = "body"
  /\ IF futures[task] = {} THEN UNCHANGED stack
     ELSE Update([Top EXCEPT !.tasks = Append(@, task)])
  /\ pc' = "exec"
  /\ UNCHANGED <<task, look, from, futures, st, p_avail>>

RoundScanned ==
  /\ pc = "scan" /\ look > Jobs[task] /\ from = "round"
  /\ IF futures[task] = {} THEN UNCHANGED stack
     ELSE Update([Top EXCEPT !.atasks = Append(@, task)])
  /\ pc' = "round"
  /\ UNCHANGED <<task, look, from, futures, st, p_avail>>

DrainScanned ==
  /\ pc = "scan" /\ look > Jobs[task] /\ from = "drain"
  /\ IF futures[task] = {} THEN DrainPop /\ UNCHANGED look
     ELSE look' = 1 /\ UNCHANGED <<pc, stack>>
  /\ UNCHANGED <<task, from, futures, st, p_avail>>
-----------------------------------------------------------------------------
(* wait_rest, which holds p_mtx whenever it does not wait                  *)

\* while (!p_avail) wait, and the p_avail = false at the start of a round.
Waits == IF p_avail THEN pc' = "round" /\ p_avail' = FALSE
         ELSE pc' = "sleep" /\ UNCHANGED p_avail

WaitRest == /\ pc = "exec" /\ Top.todo = << >> /\ Top.tasks # << >>
            /\ Waits
            /\ UNCHANGED <<stack, task, look, from, futures, st>>

Rewake == /\ pc = "wait"
          /\ Waits
          /\ UNCHANGED <<stack, task, look, from, futures, st>>

SpuriousWake == /\ pc = "sleep"
                /\ pc' = "wait"
                /\ UNCHANGED <<stack, task, look, from, futures, st, p_avail>>

RoundPick == /\ pc = "round" /\ Top.tasks # << >>
             /\ task' = Head(Top.tasks)
             /\ Update([Top EXCEPT !.tasks = Tail(@)])
             /\ pc' = "scan" /\ look' = 1 /\ from' = "round"
             /\ UNCHANGED <<futures, st, p_avail>>

\* Mutant: the queues are not swapped, one is copied.
RoundKeepsTasks ==
  /\ pc = "round" /\ Top.tasks = << >> /\ Top.atasks # << >>
  /\ Update([Top EXCEPT !.tasks = Top.atasks])
  /\ Waits
  /\ UNCHANGED <<task, look, from, futures, st>>

\* Mutant: the loop starts again without a wait.
RoundAgainAtOnce ==
  /\ pc = "round" /\ Top.tasks = << >> /\ Top.atasks # << >>
  /\ Update([Top EXCEPT !.tasks = Top.atasks, !.atasks = << >>])
  /\ UNCHANGED <<pc, task, look, from, futures, st, p_avail>>

RoundAgain == /\ pc = "round" /\ Top.tasks = << >> /\ Top.atasks # << >>
              /\ Update([Top EXCEPT !.tasks = Top.atasks, !.atasks = << >>])
              /\ Waits
              /\ UNCHANGED <<task, look, from, futures, st>>

AllDone == \/ pc = "exec" /\ Top.todo = << >> /\ Top.tasks = << >>
           \/ pc = "round" /\ Top.tasks = << >> /\ Top.atasks = << >>

\* Mutant: wait_rest is through after one round.
WaitForOneRound ==
  /\ pc \in {"exec", "round"} /\ Top.todo = << >> /\ Top.tasks = << >>
  /\ stack' = Tail(stack)
  /\ IF Top.target = None THEN pc' = "returned" /\ UNCHANGED task
     ELSE pc' = "body" /\ task' = Top.target
  /\ UNCHANGED <<look, from, futures, st, p_avail>>

\* wait_for returns, and its target's own body is next.
Ascend == /\ AllDone
          /\ stack' = Tail(stack)
          /\ IF Top.target = None THEN pc' = "returned" /\ UNCHANGED task
             ELSE pc' = "body" /\ task' = Top.target
          /\ UNCHANGED <<look, from, futures, st, p_avail>>

\* The loop of catch (make_error): the tasks that were left in the round.
DrainPick == /\ pc = "drain" /\ Top.tasks # << >>
             /\ task' = Head(Top.tasks)
             /\ Update([Top EXCEPT !.tasks = Tail(@)])
             /\ pc' = "scan" /\ look' = 1 /\ from' = "drain"
             /\ UNCHANGED <<futures, st, p_avail>>

DrainEnd == /\ pc = "drain" /\ Top.tasks = << >>
            /\ Fails
            /\ UNCHANGED <<task, look, from, futures, st, p_avail>>
-----------------------------------------------------------------------------
(* A job, as push_task wraps it, on a thread of the pool                   *)

Held == pc \in {"round", "drain"} \/ (pc = "scan" /\ from \in {"round", "drain"})

Becomes(j, s) == st' = [st EXCEPT ![j] = s]

FuncReturns(j) == /\ st[j] = "func"
                  /\ Becomes(j, "flag")
                  /\ UNCHANGED <<owner, p_avail>>

\* The packaged_task takes the exception, and nobody is told.
FuncThrows(j) == /\ st[j] = "func"
                 /\ Becomes(j, "failed")
                 /\ UNCHANGED <<owner, p_avail>>

Flag(j) == /\ st[j] = "flag" /\ ~Held
           /\ p_avail' = TRUE
           /\ Becomes(j, "notify")
           /\ UNCHANGED owner

Notify(j) == /\ st[j] = "notify"
             /\ pc' = IF pc = "sleep" THEN "wait" ELSE pc
             /\ Becomes(j, "ending")
             /\ UNCHANGED <<stack, task, look, from, futures, p_avail>>

\* The packaged_task ends.
Ready(j) == /\ st[j] = "ending"
            /\ Becomes(j, "ready")
            /\ UNCHANGED <<owner, p_avail>>
-----------------------------------------------------------------------------
Ended == pc \in {"returned", "failed", "undefined"}

Terminating == /\ Ended
               /\ \A j \in AllJobs : st[j] \in {"new", "ready", "failed"}
               /\ UNCHANGED vars

Resume == \/ ScanPast \/ ScanErase \/ ScanThrow
          \/ BodyScanned \/ RoundScanned \/ DrainScanned

OwnerStep == \/ \E t \in Targets : Descend(t) \/ Leaf(t) \/ Missing(t)
             \/ Skip \/ Body \/ BodyThrows \/ Resume
             \/ WaitRest \/ Rewake \/ RoundPick \/ RoundAgain \/ Ascend
             \/ DrainPick \/ DrainEnd

JobStep(j) == \/ FuncReturns(j) \/ FuncThrows(j)
              \/ Flag(j) \/ Notify(j) \/ Ready(j)

Next == \/ OwnerStep \/ SpuriousWake
        \/ \E j \in AllJobs : JobStep(j)
        \/ Terminating

\* The owner and the threads of the pool run, and every job ends.
Spec == /\ Init /\ [][Next]_vars
        /\ WF_vars(OwnerStep) /\ \A j \in AllJobs : WF_vars(JobStep(j))
-----------------------------------------------------------------------------
\* The state has the shape that the code gives it; in particular the stack of
\* wait_for calls (p_waiting) is empty exactly when exec has been left.
TypeOK ==
  /\ stack \in Seq([target : Targets \cup {None}, todo : Seq(Targets),
                    tasks : Seq(Targets), atasks : Seq(Targets)])
  /\ stack = << >> <=> Ended /\ pc # "undefined"
  /\ pc \in PCs /\ task \in Targets \cup {None}
  /\ pc \in {"body", "scan"} => task # None
  /\ look \in Nat /\ from \in {"body", "round", "drain"}
  /\ futures \in [Targets -> SUBSET AllJobs]
  /\ st \in [AllJobs -> {"new", "func", "flag", "notify", "ending", "ready",
                         "failed"}]
  /\ p_avail \in BOOLEAN

\* The body of a target runs only when its dependencies are done: their bodies
\* were skipped or have run, and every job that they pushed has ended well.
BodyAfterDeps ==
  \A t \in Targets : (\E j \in JobsOf(t) : st[j] # "new") =>
    \A i \in 1..Len(Deps[t]) : \A j \in JobsOf(Deps[t][i]) : st[j] \in {"new", "ready"}

\* The tasks that a wait_for has to wait for, and the places of one of them.
Queued(frame) == frame.tasks \o frame.atasks
Places(t) == UNION {{<<k, i>> : i \in {i \in DOMAIN Queued(stack[k]) : Queued(stack[k])[i] = t}} :
                      k \in 1..Len(stack)}

\* Until something fails no task gets lost: one with futures left is in one
\* queue of one wait_for, or is the one that is resumed, and no other is.
TasksKept ==
  pc \notin {"failed", "undefined", "drain"} /\ ~(pc = "scan" /\ from = "drain") =>
    \A t \in Targets :
      IF (pc = "scan" /\ t = task) \/ futures[t] = {} THEN Places(t) = {}
      ELSE \E p \in Places(t) : Places(t) = {p}

NothingThrown == [](pc # "failed" /\ \A j \in AllJobs : st[j] # "failed")

\* No future is looked at between its job's flag and its becoming ready.
NoEarlyLook == [](Scans => st[Future] \notin {"notify", "ending"})

\* While a target waits for its dependencies, no other task is left to wait for.
NoOuterTasks == [](\A k \in 2..Len(stack) : stack[k].tasks = << >>)

\* exec returns, if the flag is not used up by a look that comes too early or
\* by the wait_rest of an inner wait_for: these are the ways to hang.
ReturnsUnlessUsedUp ==
  NothingThrown /\ NoEarlyLook /\ NoOuterTasks => <>(pc = "returned")

\* "cycle until tasks are done" (wait_rest): exec returns.
ExecReturns == NothingThrown => <>(pc = "returned")
=============================================================================
