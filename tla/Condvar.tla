------------------------------ MODULE Condvar -------------------------------
(***************************************************************************)
(* What ostd::generic_condvar documents (ostd/generic_condvar.hh 99-136)   *)
(* for tasks that use condition variables, each with one mutex: wait       *)
(* releases the mutex, blocks and joins the waiters in one step, so a      *)
(* notification that follows cannot miss the waiter; notify_one unblocks   *)
(* exactly one waiter if there is any; notify_all returns only when it has *)
(* left nobody waiting; an unblocked task holds the mutex again before it  *)
(* goes on.  CoroScheduler.tla implements this specification.              *)
(***************************************************************************)
CONSTANTS Tasks, Conds, Nobody

VARIABLES holder,  \* the task inside the mutex of each condition variable
          st,      \* what each task is doing
          on       \* the condition variable a task is using

vars == <<holder, st, on>>

WaitingOn(c) == {t \in Tasks : st[t] = "waiting" /\ on[t] = c}

Init == /\ holder = [c \in Conds |-> Nobody]
        /\ st = [t \in Tasks |-> "out"]
        /\ on = [t \in Tasks |-> Nobody]

Enter(t, c) == /\ st[t] = "out"
               /\ holder[c] = Nobody
               /\ holder' = [holder EXCEPT ![c] = t]
               /\ st' = [st EXCEPT ![t] = "in"]
               /\ on' = [on EXCEPT ![t] = c]

Release(t, s) == /\ st[t] = "in"
                 /\ holder' = [holder EXCEPT ![on[t]] = Nobody]
                 /\ st' = [st EXCEPT ![t] = s]
                 /\ UNCHANGED on

Leave(t) == Release(t, "out")
Wait(t) == Release(t, "waiting")

Reenter(t) == /\ st[t] = "woken"
              /\ holder[on[t]] = Nobody
              /\ holder' = [holder EXCEPT ![on[t]] = t]
              /\ st' = [st EXCEPT ![t] = "in"]
              /\ UNCHANGED on

Call(t, c, kind) == /\ st[t] = "out"
                    /\ st' = [st EXCEPT ![t] = kind]
                    /\ on' = [on EXCEPT ![t] = c]
                    /\ UNCHANGED holder

NotifyOne(t) ==
  /\ st[t] = "notify_one"
  /\ \/ WaitingOn(on[t]) = {} /\ st' = [st EXCEPT ![t] = "out"]
     \/ \E w \in WaitingOn(on[t]) :
          st' = [st EXCEPT ![t] = "out", ![w] = "woken"]
  /\ UNCHANGED <<holder, on>>

NotifyAll(t) ==
  /\ st[t] = "notify_all"
  /\ \/ WaitingOn(on[t]) = {} /\ st' = [st EXCEPT ![t] = "out"]
     \/ \E w \in WaitingOn(on[t]) : st' = [st EXCEPT ![w] = "woken"]
  /\ UNCHANGED <<holder, on>>

Next == \E t \in Tasks :
          \/ \E c \in Conds : \/ Enter(t, c)
                              \/ Call(t, c, "notify_one")
                              \/ Call(t, c, "notify_all")
          \/ Leave(t) \/ Wait(t) \/ Reenter(t)
          \/ NotifyOne(t) \/ NotifyAll(t)

Spec == Init /\ [][Next]_vars
=============================================================================
