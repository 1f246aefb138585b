-------------------------- MODULE SimpleScheduler ---------------------------
(***************************************************************************)
(* The N:1 scheduler (ostd/concurrency.hh,                                 *)
(* basic_simple_coroutine_scheduler): dispatch, on the one thread, resumes *)
(* the coroutines of the list p_coros in turn; coro_cond is its condition  *)
(* variable, a single flag.  An action is what the thread does without     *)
(* switching: cur is the coroutine it is in, or Nobody in dispatch.  As    *)
(* nothing else runs meanwhile, a call that ends in a yield is one action  *)
(* with the switch back to dispatch and dispatch's step after it.          *)
(*                                                                         *)
(* The tasks are any program that spawns, waits, notifies, yields and      *)
(* ends.  The mutex of a wait is not modelled: tasks do not yield inside   *)
(* it, so it is always free.                                               *)
(***************************************************************************)
EXTENDS Sequences, Integers

CONSTANTS Coros,     \* the tasks
          First,     \* the one that start() adds
          Conds,     \* the condition variables
          Notifies,  \* which of "notify_one", "notify_all" the tasks call
          Nobody

ASSUME FirstAssumption == First \in Coros
ASSUME NobodyAssumption == Nobody \notin Coros \cup Conds
ASSUME NotifiesAssumption == Notifies \subseteq {"notify_one", "notify_all"}

VARIABLES p_coros,     \* the list
          p_idx,       \* the iterator: its position, Len(p_coros) + 1 for end()
          p_notified,  \* of each coro_cond
          cur,
          place,       \* where each task goes on
          arg          \* the condition variable a task is using

simpleVars == <<p_coros, p_idx, p_notified, cur, place, arg>>

Places == {"unborn", "user", "wait", "notify_one", "notify_all", "dead"}

GoesTo(t, l) == place' = [place EXCEPT ![t] = l]

\* start: the list was empty, and p_idx its end(), when the first came.
SimpleInit ==
  /\ p_coros = <<First>>
  /\ p_idx = 2
  /\ p_notified = [c \in Conds |-> FALSE]
  /\ cur = Nobody
  /\ place = [t \in Coros |-> IF t = First THEN "user" ELSE "unborn"]
  /\ arg = [t \in Coros |-> Nobody]
-----------------------------------------------------------------------------
(* dispatch *)

\* Where the turn goes: the start of the list after its end.
Turn == IF p_idx = Len(p_coros) + 1 THEN 1 ELSE p_idx

Resume == /\ cur = Nobody
          /\ p_coros # << >>
          /\ p_idx' = Turn
          /\ cur' = p_coros[Turn]
          /\ UNCHANGED <<p_coros, p_notified, place, arg>>

\* Mutant: dispatch resumes the same task again.
YieldsToNobody == cur' = Nobody /\ UNCHANGED p_idx

\* csched_task::yield back to dispatch, which goes on to the next task.
Yields == cur' = Nobody /\ p_idx' = p_idx + 1

Erased == SubSeq(p_coros, 1, p_idx - 1) \o SubSeq(p_coros, p_idx + 1, Len(p_coros))

\* The function of the current task returns: its coroutine is dead, and is
\* erased; p_idx is the one after it.
Finish == /\ cur # Nobody /\ place[cur] = "user"
          /\ GoesTo(cur, "dead")
          /\ p_coros' = Erased
          /\ cur' = Nobody
          /\ UNCHANGED <<p_idx, p_notified, arg>>
-----------------------------------------------------------------------------
(* What the current task calls *)

InUser == cur # Nobody /\ place[cur] = "user"

Yield == /\ InUser
         /\ Yields
         /\ UNCHANGED <<p_coros, p_notified, place, arg>>

SpawnCoro(u) == /\ InUser
                /\ place[u] = "unborn"
                /\ p_coros' = Append(p_coros, u)
                /\ GoesTo(u, "user")
                /\ Yields
                /\ UNCHANGED <<p_notified, arg>>

\* Mutant: a wait starts with the flag down.
CallResets(c, l) == /\ InUser
                    /\ arg' = [arg EXCEPT ![cur] = c]
                    /\ GoesTo(cur, l)
                    /\ p_notified' = [p_notified EXCEPT ![c] = @ /\ l # "wait"]
                    /\ UNCHANGED <<p_coros, p_idx, cur>>

Call(c, l) == /\ InUser
              /\ arg' = [arg EXCEPT ![cur] = c]
              /\ GoesTo(cur, l)
              /\ UNCHANGED <<p_coros, p_idx, p_notified, cur>>

\* coro_cond::wait: the test of its loop, when called and at every turn.
WaitEnds == /\ cur # Nobody /\ place[cur] = "wait"
            /\ p_notified[arg[cur]]
            /\ p_notified' = [p_notified EXCEPT ![arg[cur]] = FALSE]
            /\ GoesTo(cur, "user")
            /\ UNCHANGED <<p_coros, p_idx, cur, arg>>

WaitGoesOn == /\ cur # Nobody /\ place[cur] = "wait"
              /\ ~p_notified[arg[cur]]
              /\ Yields
              /\ UNCHANGED <<p_coros, p_notified, place, arg>>

\* coro_cond::notify_one and notify_all, which are the same.
Notify == /\ cur # Nobody /\ place[cur] \in {"notify_one", "notify_all"}
          /\ p_notified' = [p_notified EXCEPT ![arg[cur]] = TRUE]
          /\ GoesTo(cur, "user")
          /\ Yields
          /\ UNCHANGED <<p_coros, arg>>
-----------------------------------------------------------------------------
\* p_coros is empty: start() returns.
SimpleEnds == cur = Nobody /\ p_coros = << >> /\ UNCHANGED simpleVars

SimpleStep ==
  \/ Resume \/ Yield \/ Finish \/ WaitEnds \/ WaitGoesOn \/ Notify
  \/ \E u \in Coros : SpawnCoro(u)
  \/ \E c \in Conds, l \in Notifies \cup {"wait"} : Call(c, l)

SimpleNext == SimpleStep \/ SimpleEnds

\* The thread runs.  (It is the tasks that may do without a switch for ever,
\* and of these calls only waits on a flag that is up do, once each.)
SimpleSpec == SimpleInit /\ [][SimpleNext]_simpleVars /\ WF_simpleVars(SimpleStep)
-----------------------------------------------------------------------------
Elements(q) == {q[i] : i \in 1..Len(q)}

\* The state has the shape the code gives it; the iterator never leaves the
\* list, and is at the task that runs.
SimpleTypeOK ==
  /\ p_coros \in Seq(Coros)
  /\ p_idx \in 1..(Len(p_coros) + 1)
  /\ p_notified \in [Conds -> BOOLEAN]
  /\ cur \in Coros \cup {Nobody}
  /\ cur # Nobody => p_idx <= Len(p_coros) /\ p_coros[p_idx] = cur
  /\ place \in [Coros -> Places]
  /\ arg \in [Coros -> Conds \cup {Nobody}]

\* Every coroutine of the list gets its turn again, though tasks are added to
\* the list and erased from it under the iterator.
TurnsComeRound ==
  \A t \in Coros : (t \in Elements(p_coros)) ~> (cur = t \/ place[t] = "dead")

Waits(t, c) == place[t] = "wait" /\ arg[t] = c

\* A notification is not lost on a task that waits: the flag goes down only when
\* a waiting task goes on.  (It may be one that came after the notification.)
TakenByWaiter ==
  [][\A c \in Conds : p_notified[c] /\ ~p_notified'[c] =>
       \E t \in Coros : Waits(t, c) /\ place'[t] = "user"]_simpleVars
=============================================================================
