-------------------------- MODULE ThreadScheduler ---------------------------
(***************************************************************************)
(* The 1:1 scheduler (ostd/concurrency.hh, basic_thread_scheduler): each   *)
(* task is a std::thread of its own.  p_threads is a list of nodes, one    *)
(* made by each do_spawn and erased by the thread that it was made for.  A *)
(* thread cannot join itself, so on its way out it leaves its handle in  *)
(* p_dead and joins the one that it finds there.  The thread that called   *)
(* start joins what is left, in join_all.                                  *)
(*                                                                         *)
(* A node is named for the task it was made for.  p_lock is held by        *)
(* remove_thread and join_all while they join.                             *)
(***************************************************************************)
EXTENDS Integers, FiniteSets

CONSTANTS Tasks,
          Main,  \* the thread that calls start()
          None

ASSUME MainAssumption == Main \notin Tasks
ASSUME NoneAssumption == None \notin Tasks \cup {Main}

Threads == Tasks \cup {Main}

VARIABLES p_lock,     \* the thread that owns it
          p_threads,  \* the nodes of the list (their order shows nowhere)
          handle,     \* the std::thread in the node of each task
          p_dead,     \* a std::thread, as are the handles: a task, or None
          old,        \* the local t of remove_thread, in each thread
          pc

vars == <<p_lock, p_threads, handle, p_dead, old, pc>>

\* "ended": the thread has exited; "joined": and has been joined.
PCs == {"unborn", "func", "remove", "reap", "leaving", "ended", "joined",
        "join_all", "join_dead", "join_threads", "returned"}

Goto(t, l) == pc' = [pc EXCEPT ![t] = l]

Init == /\ p_lock = None
        /\ p_threads = {}
        /\ handle = [t \in Tasks |-> None]
        /\ p_dead = None
        /\ old = [t \in Tasks |-> None]
        /\ pc = [t \in Threads |-> IF t = Main THEN "func" ELSE "unborn"]
-----------------------------------------------------------------------------
(* do_spawn, by a task or by the function that start() was given *)

Spawn(t, u) == /\ pc[t] = "func" /\ pc[u] = "unborn"
               /\ p_lock = None
               /\ p_threads' = p_threads \cup {u}
               /\ handle' = [handle EXCEPT ![u] = u]
               /\ Goto(u, "func")
               /\ UNCHANGED <<p_lock, p_dead, old>>

\* The function of a task, or of start, returns.
Return(t) == /\ pc[t] = "func"
             /\ Goto(t, IF t = Main THEN "join_all" ELSE "remove")
             /\ UNCHANGED <<p_lock, p_threads, handle, p_dead, old>>
-----------------------------------------------------------------------------
(* remove_thread: the handles are exchanged, the old one is joined and the *)
(* node erased; then the thread exits.                                     *)

\* Mutant: what p_dead held is not kept.
RemoveForgets(t) == /\ pc[t] = "remove" /\ p_lock = None
                    /\ p_lock' = t
                    /\ p_dead' = handle[t]
                    /\ handle' = [handle EXCEPT ![t] = None]
                    /\ Goto(t, "reap")
                    /\ UNCHANGED <<p_threads, old>>

RemoveThread(t) == /\ pc[t] = "remove" /\ p_lock = None
                   /\ p_lock' = t
                   /\ old' = [old EXCEPT ![t] = p_dead]
                   /\ p_dead' = handle[t]
                   /\ handle' = [handle EXCEPT ![t] = None]
                   /\ Goto(t, "reap")
                   /\ UNCHANGED p_threads

\* Join of h in the thread t, which goes to l: nothing to do for an empty one.
Joins(t, h, l) == /\ h # None => pc[h] = "ended"
                  /\ pc' = [x \in Threads |-> IF x = t THEN l
                                              ELSE IF x = h THEN "joined" ELSE pc[x]]

\* Mutant: the thread joins the handle it has just put in p_dead, its own.
ReapDead(t) == /\ pc[t] = "reap"
               /\ Joins(t, p_dead, "leaving")
               /\ p_dead' = old[t]
               /\ old' = [old EXCEPT ![t] = None]
               /\ p_threads' = p_threads \ {t}
               /\ p_lock' = None
               /\ UNCHANGED handle

Reap(t) == /\ pc[t] = "reap"
           /\ Joins(t, old[t], "leaving")
           /\ old' = [old EXCEPT ![t] = None]
           /\ p_threads' = p_threads \ {t}
           /\ p_lock' = None
           /\ UNCHANGED <<handle, p_dead>>

ThreadExit(t) == /\ pc[t] = "leaving"
                 /\ Goto(t, "ended")
                 /\ UNCHANGED <<p_lock, p_threads, handle, p_dead, old>>
-----------------------------------------------------------------------------
(* join_all *)

JoinAll == /\ pc[Main] = "join_all" /\ p_lock = None
           /\ p_lock' = Main
           /\ Goto(Main, "join_dead")
           /\ UNCHANGED <<p_threads, handle, p_dead, old>>

\* Mutant: p_dead is left for its destructor.
JoinDeadSkipped == /\ pc[Main] = "join_dead"
                   /\ Goto(Main, "join_threads")
                   /\ UNCHANGED <<p_lock, p_threads, handle, p_dead, old>>

JoinDead == /\ pc[Main] = "join_dead"
            /\ Joins(Main, p_dead, "join_threads")
            /\ p_dead' = None
            /\ UNCHANGED <<p_lock, p_threads, handle, old>>

\* The loop joins the threads in their order: it is through when all have
\* ended.  (That it pops the list it iterates over makes no difference: it
\* does not survive its first join, see StartReturns.)
JoinThreads == /\ pc[Main] = "join_threads"
               /\ \A t \in p_threads : pc[handle[t]] = "ended"
               /\ p_threads' = {}
               /\ p_lock' = None
               /\ pc' = [x \in Threads |-> IF x = Main THEN "returned"
                                           ELSE IF x \in p_threads THEN "joined"
                                           ELSE pc[x]]
               /\ UNCHANGED <<handle, p_dead, old>>
-----------------------------------------------------------------------------
Terminating == pc[Main] = "returned" /\ UNCHANGED vars

Leave(t) == RemoveThread(t) \/ Reap(t) \/ ThreadExit(t)
Join == JoinAll \/ JoinDead \/ JoinThreads

Next == \/ \E t \in Threads : Return(t) \/ \E u \in Tasks : Spawn(t, u)
        \/ \E t \in Tasks : Leave(t)
        \/ Join \/ Terminating

SafetySpec == Init /\ [][Next]_vars

\* The operating system runs the threads and a mutex is given in the end to a
\* thread that waits for it; a function is not obliged to return.
Spec == SafetySpec /\ SF_vars(Join) /\ \A t \in Tasks : SF_vars(Leave(t))
-----------------------------------------------------------------------------
\* The state has the shape the code gives it.
TypeOK == /\ p_lock \in Threads \cup {None}
          /\ p_threads \in SUBSET Tasks
          /\ handle \in [Tasks -> Tasks \cup {None}]
          /\ p_dead \in Tasks \cup {None}
          /\ old \in [Tasks -> Tasks \cup {None}]
          /\ pc \in [Threads -> PCs]
          /\ \A t \in Threads :
               p_lock = t <=> pc[t] \in {"reap", "join_dead", "join_threads"}

\* How many std::thread objects there are for the thread of u.
Holders(u) == {t \in p_threads : handle[t] = u}
Held(u) == Cardinality(Holders(u)) + Cardinality({t \in Tasks : old[t] = u})
           + IF p_dead = u THEN 1 ELSE 0

\* A thread that was started and has not been joined has one std::thread, and
\* no other has any: none is erased, overwritten or destroyed while joinable,
\* which would end the program, and none is joined twice.
OneHandle == \A u \in Tasks :
               Held(u) = IF pc[u] \in {"unborn", "joined"} THEN 0 ELSE 1

\* start() returns only when no thread is left: each has ended and was joined.
ReturnsLast ==
  pc[Main] = "returned" => \A u \in Tasks : pc[u] \in {"unborn", "joined"}

\* A thread that joins another in remove_thread is not held up by it, although
\* it keeps p_lock meanwhile: the one in p_dead needs p_lock no more.
RemovalEnds == \A t \in Tasks :
                 (pc[t] = "reap") ~> (pc[t] \in {"ended", "joined"})

\* "Then it waits for all threads (tasks) it spawned to finish and returns"
\* (start): if every task's function returns in the end, so does start.
StartReturns == (\A t \in Tasks : WF_vars(Return(t))) =>
                  ((pc[Main] = "join_all") ~> (pc[Main] = "returned"))
=============================================================================
