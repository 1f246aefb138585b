-------------------------------- MODULE Fifo --------------------------------
(***************************************************************************)
(* What an ostd::channel promises to the tasks that share it, with no      *)
(* mutex and no condition variable: values come out once each and in the   *)
(* order they went in, a get with nothing to return stays pending, and a   *)
(* pending get ends once there is a value for it or the channel is closed. *)
(* Channel.tla implements this specification.                              *)
(***************************************************************************)
EXTENDS Sequences, Integers

CONSTANTS Threads,  \* the tasks that call the channel
          Msgs,     \* the values put in it
          MaxLen    \* bound: nobody puts into a queue of this length

VARIABLES queue,    \* the values put and not yet returned, oldest first
          closed,   \* close() was called
          pending,  \* the tasks inside a get that has nothing to return yet
          ret       \* what the last finished get of each task gave it

Error == "channel_error"
Nothing == "nullopt"
Replies == Msgs \cup {Error, Nothing}

vars == <<queue, closed, pending, ret>>

Init == /\ queue = << >>
        /\ closed = FALSE
        /\ pending = {}
        /\ ret = [t \in Threads |-> Nothing]

Reply(t, r) == /\ pending' = pending \ {t}
               /\ ret' = [ret EXCEPT ![t] = r]

Put(t, m) == /\ t \notin pending
             /\ ~closed
             /\ Len(queue) < MaxLen
             /\ queue' = Append(queue, m)
             /\ UNCHANGED <<closed, pending, ret>>

\* A put or a get on a closed channel that has nothing left to return.
Refuse(t) == /\ closed
             /\ Reply(t, Error)
             /\ UNCHANGED <<queue, closed>>

Deliver(t) == /\ queue # << >>
              /\ Reply(t, Head(queue))
              /\ queue' = Tail(queue)
              /\ UNCHANGED closed

Block(t) == /\ queue = << >> /\ ~closed
            /\ pending' = pending \cup {t}
            /\ UNCHANGED <<queue, closed, ret>>

\* try_get on an empty open channel.
Miss(t) == /\ t \notin pending
           /\ queue = << >> /\ ~closed
           /\ Reply(t, Nothing)
           /\ UNCHANGED <<queue, closed>>

Close(t) == /\ t \notin pending
            /\ closed' = TRUE
            /\ UNCHANGED <<queue, pending, ret>>

Next == \E t \in Threads : \/ \E m \in Msgs : Put(t, m)
                           \/ Refuse(t)
                           \/ Deliver(t)
                           \/ Block(t)
                           \/ Miss(t)
                           \/ Close(t)

SafetySpec == Init /\ [][Next]_vars

\* A get that pends ends: some one while there is a value, each one once closed.
Finish(t) == t \in pending /\ (Deliver(t) \/ (queue = << >> /\ Refuse(t)))

Spec == /\ SafetySpec
        /\ WF_vars(\E t \in Threads : Finish(t))
        /\ \A t \in Threads : WF_vars(closed /\ Finish(t))
=============================================================================
