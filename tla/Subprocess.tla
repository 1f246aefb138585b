----------------------------- MODULE Subprocess -----------------------------
(* ostd::subprocess on POSIX: objects that own a child process and the ends   *)
(* of the pipes to it. What matters of a descriptor is who holds which end of  *)
(* which pipe: a child gets a copy of everything its parent has open, and a    *)
(* pipe ends for its reader when nobody holds the end to write.                *)
EXTENDS Naturals, FiniteSets

CONSTANTS Objects, \* the subprocess objects
          Pids,    \* the children, one for each fork
          Caller,  \* the process that uses the objects
          Streams, \* those of "in", "out" and "err" that may be piped
          Nobody

ASSUME ProcsAssumption == Caller \notin Pids /\ Nobody \notin Pids \cup Objects

Procs == Pids \cup {Caller}
VARIABLES child,   \* the children, each with how far it has come
          held,    \* who holds which end: <<process, pid, stream, side>>
          owner,   \* the child that p_current of an object stands for
          stream,  \* the child that the open streams of an object lead to
          waiting, \* the object whose close waits, or Nobody
          status   \* what close returned of a child: nothing, zero or not

subVars == <<child, held, owner, stream, waiting, status>>

\* piped: the streams that are; reads: the program reads its input to the end;
\* failed: it, or exec, did not end well; kept: it was not detached;
\* ran: it got past exec.
Absent == [st |-> "none", piped |-> {}, reads |-> FALSE, failed |-> FALSE,
           kept |-> TRUE, ran |-> FALSE]

SubInit == /\ child = [p \in Pids |-> Absent]
           /\ held = {}
           /\ owner = [o \in Objects |-> Nobody]
           /\ stream = [o \in Objects |-> [s \in Streams |-> Nobody]]
           /\ waiting = Nobody
           /\ status = [p \in Pids |-> "none"]

Ends(proc) == {h \in held : h[1] = proc}
InheritedBy(p, ends) == {<<p, h[2], h[3], h[4]>> : h \in ends}

\* The end of a stream that stays with the parent, and the one for the child.
Ours(s) == IF s = "in" THEN "w" ELSE "r"
Piped(p) == child[p].piped

\* open_impl up to the fork and on in the parent. A stream that is still open
\* from an earlier child stays as it is, and the new end is held for good.
Open(o, p, piped, reads) ==
  /\ waiting = Nobody
  /\ owner[o] = Nobody
  /\ child[p].st = "none"
  /\ reads => "in" \in piped
  /\ LET pipes == piped \cup {"errno"} IN
     held' = held
       \cup {<<Caller, p, s, Ours(s)>> : s \in piped}
       \cup InheritedBy(p, Ends(Caller))
       \cup {<<p, p, s, side>> : s \in pipes, side \in {"r", "w"}}
  /\ child' = [child EXCEPT ![p] = [Absent EXCEPT
                 !.st = "forked", !.piped = piped, !.reads = reads]]
  /\ owner' = [owner EXCEPT ![o] = p]
  /\ stream' = [stream EXCEPT ![o] = [s \in Streams |->
                  IF s \in piped /\ stream[o][s] = Nobody THEN p
                  ELSE stream[o][s]]]
  /\ UNCHANGED <<waiting, status>>

\* The ends that a child closes before it calls exec, and those that exec does.
ClosedByChild(p) ==
  {<<p, p, "errno", "r">>} \cup {<<p, p, s, Ours(s)>> : s \in Piped(p)}

Exec(p) ==
  /\ child[p].st = "forked"
  /\ child' = [child EXCEPT ![p].st = "runs", ![p].ran = TRUE]
  /\ held' = held \ (ClosedByChild(p) \cup {<<p, p, "errno", "w">>})
  /\ UNCHANGED <<owner, stream, waiting, status>>

\* Mutant: the child that could not be replaced exits with 0.
ExecFailsQuietly(p) ==
  /\ child[p].st = "forked"
  /\ child' = [child EXCEPT ![p].st = "exited"]
  /\ held' = held \ Ends(p)
  /\ UNCHANGED <<owner, stream, waiting, status>>

\* A system call or exec fails: write_errno prints to the standard output, as
\* write is ostd::write there, and the child exits with 1.
ExecFails(p) ==
  /\ child[p].st = "forked"
  /\ child' = [child EXCEPT ![p].st = "exited", ![p].failed = TRUE]
  /\ held' = held \ Ends(p)
  /\ UNCHANGED <<owner, stream, waiting, status>>

\* A program that reads its input to the end waits for that.
Exits(p, failed) ==
  /\ child[p].st = "runs"
  /\ child[p].reads => \A h \in held : <<h[2], h[3], h[4]>> # <<p, "in", "w">>
  /\ child' = [child EXCEPT ![p].st = "exited", ![p].failed = failed]
  /\ held' = held \ Ends(p)
  /\ UNCHANGED <<owner, stream, waiting, status>>

\* file_stream::close of one of the members.
CloseStream(o, s) ==
  /\ waiting = Nobody
  /\ stream[o][s] # Nobody
  /\ held' = held \ {<<Caller, stream[o][s], s, Ours(s)>>}
  /\ stream' = [stream EXCEPT ![o][s] = Nobody]
  /\ UNCHANGED <<child, owner, waiting, status>>

\* close, and the destructor, wait for the child.
Close(o) ==
  /\ waiting = Nobody
  /\ owner[o] # Nobody
  /\ waiting' = o
  /\ UNCHANGED <<child, held, owner, stream, status>>

\* The status is returned as waitpid gives it: the pipe that might tell why
\* exec failed has no reader any more, so that errno_fd is -1.
CloseReturns ==
  /\ waiting # Nobody
  /\ LET p == owner[waiting] IN
     /\ child[p].st = "exited"
     /\ child' = [child EXCEPT ![p].st = "reaped"]
     /\ status' = [status EXCEPT ![p] = IF child[p].failed THEN "nonzero" ELSE "zero"]
  /\ owner' = [owner EXCEPT ![waiting] = Nobody]
  /\ waiting' = Nobody
  /\ UNCHANGED <<held, stream>>

Detach(o) ==
  /\ waiting = Nobody
  /\ owner[o] # Nobody
  /\ child' = [child EXCEPT ![owner[o]].kept = FALSE]
  /\ owner' = [owner EXCEPT ![o] = Nobody]
  /\ UNCHANGED <<held, stream, waiting, status>>

\* swap and the move assignment; move_data and swap_data empty one of the two
\* when only the other owns a child.
SwapData(o, q) ==
  /\ waiting = Nobody /\ o # q
  /\ owner' = [owner EXCEPT ![o] = owner[q], ![q] = owner[o]]
  /\ stream' = [stream EXCEPT ![o] = stream[q], ![q] = stream[o]]
  /\ UNCHANGED <<child, held, waiting, status>>

SubNext ==
  \/ \E o \in Objects, p \in Pids, piped \in SUBSET Streams, reads \in BOOLEAN :
       Open(o, p, piped, reads)
  \/ \E p \in Pids : Exec(p) \/ ExecFails(p) \/ \E f \in BOOLEAN : Exits(p, f)
  \/ \E o \in Objects, s \in Streams : CloseStream(o, s)
  \/ \E o \in Objects : Close(o) \/ Detach(o)
  \/ CloseReturns
  \/ \E o, q \in Objects : SwapData(o, q)

SubSpec == SubInit /\ [][SubNext]_subVars
----------------------------------------------------------------------------
(* A child that is neither reaped nor detached belongs to exactly one object, *)
(* and no object has one of the others: moves and swaps neither lose a child  *)
(* nor let it be waited for twice (move_data, swap_data, reset).              *)
OneOwner ==
  \A p \in Pids :
    Cardinality({o \in Objects : owner[o] = p}) =
      IF child[p].st \in {"none", "reaped"} \/ ~child[p].kept THEN 0 ELSE 1

(* A program never holds our end of one of its own pipes: its input ends and  *)
(* its output breaks when the others let go, and not when it ends itself.     *)
NoOwnEnds ==
  \A p \in Pids, s \in Streams : child[p].st = "runs" =>
    <<p, p, s, Ours(s)>> \notin held

(* close never takes a program that could not be started for one that went    *)
(* well, although the reason is lost on the way (write_errno, errno_fd).      *)
FailureIsSeen ==
  \A p \in Pids : status[p] = "zero" => child[p].ran /\ ~child[p].failed

(* The three together, whatever is done to the objects in whatever order.     *)
ChildrenAreKept == OneOwner /\ NoOwnEnds /\ FailureIsSeen
=============================================================================
