-------------------------------- MODULE Tid ---------------------------------
(***************************************************************************)
(* ostd::tid and detail::tid_impl (ostd/concurrency.hh): the state that a  *)
(* spawned task shares with the task that spawned it.  set_value runs the  *)
(* task's function and stores its result, both with p_lock held, and then  *)
(* notifies; get and wait take p_lock and wait on p_cond until p_stor.     *)
(*                                                                         *)
(* Tasks run on worker threads: a task that waits on p_cond or yields      *)
(* gives its worker up (scheduler::yield and the scheduler's condition     *)
(* variable), one that blocks on p_lock, a std::mutex, keeps it.  With as  *)
(* many workers as tasks this is the 1:1 scheduler.  A tid cannot be       *)
(* copied: the task that spawned t is the one that asks for its result.    *)
(***************************************************************************)
EXTENDS Integers, FiniteSets

CONSTANTS Tasks, Main,
          Workers,   \* how many worker threads there are
          Outcomes,  \* how a function may end: "return", "throw"
          None

ASSUME WorkersAssumption == Workers \in Nat \ {0}
ASSUME OutcomesAssumption == Outcomes \subseteq {"return", "throw"}
ASSUME MainAssumption == Main \in Tasks /\ None \notin Tasks

VARIABLES pc,      \* where each task is
          on,      \* the tasks that occupy a worker
          parent,  \* who spawned a task, and owns its tid
          target,  \* the task whose tid a task is asking
          p_stor, p_eptr

vars == <<pc, on, parent, target, p_stor, p_eptr>>

\* The places of a task that is in the middle of its function.
InFunc == {"func", "call", "wait", "woken"}
PCs == InFunc \cup {"unborn", "start", "notify", "ended"}

\* set_value holds p_lock from before func() until after it; the sections of
\* get and wait are single actions.
Locked(t) == pc[t] \in InFunc

Goto(t, l) == pc' = [pc EXCEPT ![t] = l]

Init == /\ pc = [t \in Tasks |-> IF t = Main THEN "start" ELSE "unborn"]
        /\ on = {}
        /\ parent = [t \in Tasks |-> None]
        /\ target = [t \in Tasks |-> None]
        /\ p_stor = [t \in Tasks |-> FALSE]
        /\ p_eptr = [t \in Tasks |-> FALSE]
-----------------------------------------------------------------------------
(* The scheduler: any task that is not blocked may get a free worker.      *)

Resume(t) == /\ t \notin on
             /\ pc[t] \notin {"unborn", "wait", "ended"}
             /\ Cardinality(on) < Workers
             /\ on' = on \cup {t}
             /\ UNCHANGED <<pc, parent, target, p_stor, p_eptr>>

Yield(t) == /\ t \in on /\ pc[t] = "func"
            /\ on' = on \ {t}
            /\ UNCHANGED <<pc, parent, target, p_stor, p_eptr>>

\* scheduler::spawn: a tid, and a task that will call set_value.
Spawn(t, u) == /\ t \in on /\ pc[t] = "func"
               /\ pc[u] = "unborn"
               /\ Goto(u, "start")
               /\ parent' = [parent EXCEPT ![u] = t]
               /\ UNCHANGED <<on, target, p_stor, p_eptr>>
-----------------------------------------------------------------------------
(* set_value *)

Begin(t) == /\ t \in on /\ pc[t] = "start"
            /\ Goto(t, "func")
            /\ UNCHANGED <<on, parent, target, p_stor, p_eptr>>

\* The function returns: the result is stored.
Return(t) == /\ t \in on /\ pc[t] = "func"
             /\ "return" \in Outcomes
             /\ p_stor' = [p_stor EXCEPT ![t] = TRUE]
             /\ Goto(t, "notify")
             /\ UNCHANGED <<on, parent, target, p_eptr>>

\* The function throws: catch (...) stores the exception, and only that.
Throw(t) == /\ t \in on /\ pc[t] = "func"
            /\ "throw" \in Outcomes
            /\ p_eptr' = [p_eptr EXCEPT ![t] = TRUE]
            /\ Goto(t, "notify")
            /\ UNCHANGED <<on, parent, target, p_stor>>

\* Mutant: nobody is notified.
NotifyNobody(t) == /\ t \in on /\ pc[t] = "notify"
                   /\ Goto(t, "ended")
                   /\ on' = on \ {t}
                   /\ UNCHANGED <<parent, target, p_stor, p_eptr>>

Notify(t) ==
  /\ t \in on /\ pc[t] = "notify"
  /\ LET asleep == {u \in Tasks : pc[u] = "wait" /\ target[u] = t} IN
       \/ asleep = {} /\ Goto(t, "ended")
       \/ \E u \in asleep : pc' = [pc EXCEPT ![t] = "ended", ![u] = "woken"]
  /\ on' = on \ {t}
  /\ UNCHANGED <<parent, target, p_stor, p_eptr>>
-----------------------------------------------------------------------------
(* get and wait, which look at the same things *)

Call(t, u) == /\ t \in on /\ pc[t] = "func"
              /\ parent[u] = t
              /\ target' = [target EXCEPT ![t] = u]
              /\ Goto(t, "call")
              /\ UNCHANGED <<on, parent, p_stor, p_eptr>>

\* A look at p_stor, with p_lock of the tid.
Looking(t) == t \in on /\ pc[t] \in {"call", "woken"} /\ ~Locked(target[t])

LookFound(t) == /\ Looking(t)
                /\ p_stor[target[t]]
                /\ Goto(t, "func")
                /\ target' = [target EXCEPT ![t] = None]
                /\ UNCHANGED <<on, parent, p_stor, p_eptr>>

LookWait(t) == /\ Looking(t)
               /\ ~p_stor[target[t]]
               /\ Goto(t, "wait")
               /\ on' = on \ {t}
               /\ UNCHANGED <<parent, target, p_stor, p_eptr>>

SpuriousWake(t) == /\ pc[t] = "wait"
                   /\ Goto(t, "woken")
                   /\ UNCHANGED <<on, parent, target, p_stor, p_eptr>>
-----------------------------------------------------------------------------
Terminating == /\ \A t \in Tasks : pc[t] \in {"unborn", "ended"}
               /\ UNCHANGED vars

End(t) == Return(t) \/ Throw(t)
Look(t) == LookFound(t) \/ LookWait(t)

Next == \/ \E t \in Tasks :
             \/ Resume(t) \/ Yield(t) \/ Begin(t) \/ End(t) \/ Notify(t)
             \/ Look(t) \/ SpuriousWake(t)
             \/ \E u \in Tasks : Spawn(t, u) \/ Call(t, u)
        \/ Terminating

\* A ready task gets a worker (no task is passed over for ever), runs while it
\* has one, and every function ends: it does not yield, spawn or ask for ever.
Fairness == \A t \in Tasks : /\ SF_vars(Resume(t))
                             /\ WF_vars(Begin(t))
                             /\ SF_vars(End(t))
                             /\ WF_vars(Notify(t))
                             /\ WF_vars(Look(t))

Spec == Init /\ [][Next]_vars /\ Fairness
-----------------------------------------------------------------------------
\* The state has the shape the code gives it.
TypeOK == /\ pc \in [Tasks -> PCs]
          /\ on \in SUBSET Tasks /\ Cardinality(on) <= Workers
          /\ parent \in [Tasks -> Tasks \cup {None}]
          /\ target \in [Tasks -> Tasks \cup {None}]
          /\ \A t \in Tasks :
               target[t] # None <=> pc[t] \in {"call", "wait", "woken"}
          /\ p_stor \in [Tasks -> BOOLEAN] /\ p_eptr \in [Tasks -> BOOLEAN]

\* A stored result is not slept through: a task that sleeps on the tid of a
\* task whose result is there has that task's notification coming.
NoLostResult == \A t \in Tasks :
                  pc[t] = "wait" /\ p_stor[target[t]] => pc[target[t]] = "notify"

\* A result that was stored is seen: whoever asks for it, before or after, goes
\* on, although it may look, and sleep, between the store and the notification.
ResultIsSeen == \A t \in Tasks :
  (pc[t] \in {"call", "wait", "woken"} /\ p_stor[target[t]]) ~> (pc[t] = "func")

\* tid.get() and tid.wait() return (or throw) once the task they ask about
\* has ended: the documentation says they wait for it to finish.
AskingEnds == \A t \in Tasks :
                (pc[t] \in {"call", "wait", "woken"}) ~> (pc[t] = "func")
=============================================================================
