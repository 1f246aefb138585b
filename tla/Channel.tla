------------------------------ MODULE Channel -------------------------------
(***************************************************************************)
(* ostd::channel (ostd/channel.hh, struct impl): a list of messages and a  *)
(* closed flag under p_lock, and the condition variable p_cond on which    *)
(* get() waits.                                                            *)
(*                                                                         *)
(* A critical section of p_lock is one action; everything the code does    *)
(* after releasing it, the notifications in particular, is another, so     *)
(* other tasks run in between.  p_cond is what generic_condvar.hh          *)
(* documents: wait releases the lock and blocks in one step, notify_one    *)
(* unblocks one waiter if there is one, notify_all every one, and a waiter *)
(* may also unblock spuriously.  An unblocked waiter has to take p_lock    *)
(* again (pc "woken") before it sees the messages.                         *)
(***************************************************************************)
EXTENDS Sequences, Integers, FiniteSets

CONSTANTS Threads,  \* the tasks that share the channel
          Msgs,     \* the values they put
          MaxLen    \* bound: no task calls put on a queue of this length

ASSUME ThreadsAssumption == IsFiniteSet(Threads)
ASSUME MaxLenAssumption == MaxLen \in Nat

VARIABLES p_messages,  \* std::list<T>
          p_closed,    \* bool
          pc,          \* where each task is in the channel's code
          ret          \* what each task's last finished call gave it

vars == <<p_messages, p_closed, pc, ret>>

Error == "channel_error"
Nothing == "nullopt"
ASSUME MsgsAssumption == Error \notin Msgs /\ Nothing \notin Msgs
Replies == Msgs \cup {Error, Nothing}

\* "notify", "notify_all": the lock is released, the notification is to come.
PCs == {"idle", "notify", "notify_all", "waiting", "woken"}

At(l) == {t \in Threads : pc[t] = l}

Goto(t, l) == pc' = [pc EXCEPT ![t] = l]

Init == /\ p_messages = << >>
        /\ p_closed = FALSE
        /\ pc = [t \in Threads |-> "idle"]
        /\ ret = [t \in Threads |-> Nothing]
-----------------------------------------------------------------------------
(* put and emplace *)

\* Mutant: notify only when the queue was empty before.
PutNotifiesFirstOnly(t, m) ==
  /\ pc[t] = "idle"
  /\ ~p_closed
  /\ Len(p_messages) < MaxLen
  /\ p_messages' = Append(p_messages, m)
  /\ IF p_messages = << >> THEN Goto(t, "notify") ELSE UNCHANGED pc
  /\ UNCHANGED <<p_closed, ret>>

Put(t, m) == /\ pc[t] = "idle"
             /\ ~p_closed
             /\ Len(p_messages) < MaxLen
             /\ p_messages' = Append(p_messages, m)
             /\ Goto(t, "notify")
             /\ UNCHANGED <<p_closed, ret>>

PutClosed(t) == /\ pc[t] = "idle"
                /\ p_closed
                /\ ret' = [ret EXCEPT ![t] = Error]
                /\ UNCHANGED <<p_messages, p_closed, pc>>

\* notify_one after the lock is released.
NotifyOne(t) == /\ pc[t] = "notify"
                /\ \/ At("waiting") = {} /\ Goto(t, "idle")
                   \/ \E w \in At("waiting") :
                        pc' = [pc EXCEPT ![t] = "idle", ![w] = "woken"]
                /\ UNCHANGED <<p_messages, p_closed, ret>>
-----------------------------------------------------------------------------
(* get and try_get: a get looks at the messages when it is called and      *)
(* again each time it is woken.                                            *)

Looking(t) == pc[t] \in {"idle", "woken"}

Finish(t, r) == /\ ret' = [ret EXCEPT ![t] = r]
                /\ Goto(t, "idle")

\* Mutant: a get that was woken takes front() without another look at the list.
TakeUnchecked(t) ==
  /\ Looking(t)
  /\ p_messages # << >> \/ pc[t] = "woken"
  /\ Finish(t, IF p_messages = << >> THEN "indeterminate" ELSE Head(p_messages))
  /\ p_messages' = IF p_messages = << >> THEN << >> ELSE Tail(p_messages)
  /\ UNCHANGED p_closed

GetTake(t) == /\ Looking(t)
              /\ p_messages # << >>
              /\ Finish(t, Head(p_messages))
              /\ p_messages' = Tail(p_messages)
              /\ UNCHANGED p_closed

GetClosed(t) == /\ Looking(t)
                /\ p_messages = << >> /\ p_closed
                /\ Finish(t, Error)
                /\ UNCHANGED <<p_messages, p_closed>>

\* Mutant: "if" in place of "while" around the wait.
GetWaitOnce(t) == /\ Looking(t)
                  /\ p_messages = << >> /\ ~p_closed
                  /\ IF pc[t] = "idle"
                     THEN Goto(t, "waiting") /\ UNCHANGED ret
                     ELSE Finish(t, Nothing)
                  /\ UNCHANGED <<p_messages, p_closed>>

GetWait(t) == /\ Looking(t)
              /\ p_messages = << >> /\ ~p_closed
              /\ Goto(t, "waiting")
              /\ UNCHANGED <<p_messages, p_closed, ret>>

TryGetNone(t) == /\ pc[t] = "idle"
                 /\ p_messages = << >> /\ ~p_closed
                 /\ Finish(t, Nothing)
                 /\ UNCHANGED <<p_messages, p_closed>>

SpuriousWake(t) == /\ pc[t] = "waiting"
                   /\ Goto(t, "woken")
                   /\ UNCHANGED <<p_messages, p_closed, ret>>
-----------------------------------------------------------------------------
(* close *)

Close(t) == /\ pc[t] = "idle"
            /\ p_closed' = TRUE
            /\ Goto(t, "notify_all")
            /\ UNCHANGED <<p_messages, ret>>

NotifyAll(t) == /\ pc[t] = "notify_all"
                /\ pc' = [u \in Threads |->
                            IF u = t THEN "idle"
                            ELSE IF pc[u] = "waiting" THEN "woken" ELSE pc[u]]
                /\ UNCHANGED <<p_messages, p_closed, ret>>
-----------------------------------------------------------------------------
Get(t) == GetTake(t) \/ GetClosed(t) \/ GetWait(t)

Next == \E t \in Threads :
          \/ \E m \in Msgs : Put(t, m)
          \/ PutClosed(t)
          \/ NotifyOne(t)
          \/ GetTake(t)
          \/ GetClosed(t)
          \/ GetWait(t)
          \/ TryGetNone(t)
          \/ SpuriousWake(t)
          \/ Close(t)
          \/ NotifyAll(t)

\* A task that is inside a call and not blocked keeps running; no task is
\* obliged to make a call, and no waiter may count on a spurious wake.
Fairness == \A t \in Threads : /\ WF_vars(NotifyOne(t))
                               /\ WF_vars(NotifyAll(t))
                               /\ WF_vars(pc[t] = "woken" /\ Get(t))

SafetySpec == Init /\ [][Next]_vars

Spec == SafetySpec /\ Fairness
-----------------------------------------------------------------------------
\* The state has the shape the code gives it.
TypeOK == /\ p_messages \in Seq(Msgs)
          /\ p_closed \in BOOLEAN
          /\ pc \in [Threads -> PCs]
          /\ ret \in [Threads -> Replies]

\* No wakeup is lost: while a get sleeps on an open channel, there are at most
\* as many messages as tasks on their way to take or announce one, although
\* the notification comes after the lock is released and tasks that never
\* slept may take the message first.  Once the channel is closed, a sleeper
\* has a notify_all coming.
NoLostWakeup ==
  At("waiting") # {} =>
    IF p_closed
    THEN At("notify_all") # {}
    ELSE Len(p_messages) <= Cardinality(At("notify")) + Cardinality(At("woken"))

\* The channel implements the abstract queue: a get is pending from the moment
\* it first sleeps until it returns.
Abstract == INSTANCE Fifo WITH queue <- p_messages,
                               closed <- p_closed,
                               pending <- At("waiting") \cup At("woken"),
                               ret <- ret

\* Values come out once, in order, and no pending get is forgotten while there
\* is a value for it or after close (the queue of channel.hh, whole).
ImplementsFifo == Abstract!Spec
=============================================================================
