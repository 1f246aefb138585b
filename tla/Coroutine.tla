----------------------------- MODULE Coroutine -----------------------------
(* ostd::coroutine_context with its heirs coroutine and generator, on stacks *)
(* of a pool. One thread runs contexts, each on a stack of its own; a step is *)
(* what the code that runs does next to a coroutine: construct it, resume it, *)
(* destroy it, or leave its own by a yield, a return or an exception. Whoever *)
(* constructs a coroutine holds it as a local object and destroys it before  *)
(* it ends. Anybody may resume it. The machine contexts are abstract: orig    *)
(* says to whom a jump would go.                                             *)
EXTENDS StackPool

CONSTANTS Coros,      \* the coroutine objects
          Generators, \* those that are generators
          Main,       \* the thread's own context
          Null

ASSUME CoroAssumption ==
  Generators \subseteq Coros /\ Main \notin Coros /\ Null \notin Coros \cup {Main}

VARIABLES state,     \* p_state, or "none" when there is no such object
          orig,      \* p_orig
          chain,     \* the contexts that wait for each other, who runs last
          current,   \* detail::coro_current
          saved,     \* curr, the local variable of call
          result,    \* p_result of a generator: Null, or the yield it points to
          holder,    \* in whose function the object lives
          making,    \* generators whose constructor has not returned
          unwinding, \* coroutines that are destroyed while suspended
          stack,     \* p_stack
          sfree,     \* p_sfree: whether it was ever set
          undefined  \* the program has gone out of bounds

vars == <<state, orig, chain, current, saved, result, holder, making,
          unwinding, stack, sfree, undefined, poolVars>>
contexts == <<state, orig, chain, current, saved, result>>
objects == <<holder, making, unwinding, stack, sfree, undefined>>

Init == /\ state = [c \in Coros |-> "none"]
        /\ orig = [c \in Coros |-> Null]
        /\ chain = <<Main>>
        /\ current = Null
        /\ saved = [c \in Coros |-> Null]
        /\ result = [c \in Coros |-> Null]
        /\ holder = [c \in Coros |-> Null]
        /\ making = {} /\ unwinding = {}
        /\ stack = [c \in Coros |-> Null]
        /\ sfree = [c \in Coros |-> FALSE]
        /\ undefined = FALSE
        /\ PoolInit

Running == Last(chain)
Holds(x) == {c \in Coros : holder[c] = x}
Suspended(c) == state[c] = "HOLD" /\ c \notin unwinding

\* Mutant: only the entry function notes who resumed the coroutine.
EnterFirstOnly(c) ==
  /\ state' = [state EXCEPT ![c] = "EXEC"]
  /\ saved' = [saved EXCEPT ![c] = current]
  /\ current' = c
  /\ chain' = Append(chain, c)
  /\ orig' = [orig EXCEPT ![c] = IF @ = Null THEN Running ELSE @]

\* call: the entry function, or the yield that goes on, notes who resumed it.
Enter(c) ==
  /\ state' = [state EXCEPT ![c] = "EXEC"]
  /\ saved' = [saved EXCEPT ![c] = current]
  /\ current' = c
  /\ chain' = Append(chain, c)
  /\ orig' = [orig EXCEPT ![c] = Running]

\* The constructor with a null pointer or an empty function: dead at once.
CreateDead(c) ==
  /\ state[c] = "none"
  /\ state' = [state EXCEPT ![c] = "TERM"]
  /\ holder' = [holder EXCEPT ![c] = Running]
  /\ UNCHANGED <<orig, chain, current, saved, result, making, unwinding,
                 stack, sfree, undefined, poolVars>>

\* make_context.
MakeContext(c) ==
  \E p \in Pools, s \in Stacks :
    /\ Allocate(p, s)
    /\ stack' = [stack EXCEPT ![c] = s]
    /\ sfree' = [sfree EXCEPT ![c] = TRUE]

CreateCoroutine(c) ==
  /\ c \notin Generators
  /\ state[c] = "none"
  /\ MakeContext(c)
  /\ state' = [state EXCEPT ![c] = "HOLD"]
  /\ holder' = [holder EXCEPT ![c] = Running]
  /\ UNCHANGED <<orig, chain, current, saved, result, making, unwinding,
                 undefined>>

\* A generator's constructor resumes it, to have a first value.
CreateGenerator(c) ==
  /\ c \in Generators
  /\ state[c] = "none"
  /\ MakeContext(c)
  /\ Enter(c)
  /\ holder' = [holder EXCEPT ![c] = Running]
  /\ making' = making \cup {c}
  /\ UNCHANGED <<result, unwinding, undefined>>

\* Resuming a dead one throws and changes nothing; one that executes must not
\* be resumed (no code checks).
Resume(c) ==
  /\ Suspended(c)
  /\ Enter(c)
  /\ UNCHANGED <<result, objects, poolVars>>

\* Mutant: coro_current stays with the coroutine that was left.
LeaveCurrent(s) ==
  /\ Running \in Coros \ unwinding
  /\ state' = [state EXCEPT ![Running] = s]
  /\ chain' = Front(chain)
  /\ UNCHANGED <<orig, saved, current>>

\* How the function that runs leaves: the jump goes to p_orig, and call there
\* takes over the state and puts coro_current back.
Leave(s) ==
  /\ Running \in Coros \ unwinding
  /\ state' = [state EXCEPT ![Running] = s]
  /\ chain' = Front(chain)
  /\ current' = saved[Running]
  /\ UNCHANGED <<orig, saved>>

Yield ==
  /\ Leave("HOLD")
  /\ result' = [result EXCEPT ![Running] = IF Running \in Generators THEN "yielded" ELSE Null]
  /\ making' = making \ {Running}
  /\ UNCHANGED <<holder, unwinding, stack, sfree, undefined, poolVars>>

\* resume_call returns.
Return ==
  /\ Leave("TERM")
  /\ Holds(Running) = {}
  /\ result' = [result EXCEPT ![Running] = Null]
  /\ making' = making \ {Running}
  /\ UNCHANGED <<holder, unwinding, stack, sfree, undefined, poolVars>>

\* What is left of an object: free_stack destroys the deallocator and does not
\* call it, and does so through a pointer nobody set if there is no context.
\* What such a pointer does is for the memory to say that it was made of.
Gone(c) ==
  /\ holder' = [holder EXCEPT ![c] = Null]
  /\ stack' = [stack EXCEPT ![c] = Null]
  /\ sfree' = [sfree EXCEPT ![c] = FALSE]
  /\ undefined' \in (IF sfree[c] THEN {FALSE} ELSE BOOLEAN)
  /\ result' = [result EXCEPT ![c] = Null]
  /\ saved' = [saved EXCEPT ![c] = Null]
  /\ orig' = [orig EXCEPT ![c] = Null]
  /\ UNCHANGED poolVars

\* The function throws: call throws it again in the context that resumed. If
\* that is the constructor of a generator, there is no object.
Throw ==
  /\ Running \notin making
  /\ Leave("TERM")
  /\ Holds(Running) = {}
  /\ UNCHANGED <<result, objects, poolVars>>

ThrowFirst ==
  /\ Running \in making
  /\ Holds(Running) = {}
  /\ state' = [state EXCEPT ![Running] = "none"]
  /\ chain' = Front(chain)
  /\ current' = saved[Running]
  /\ making' = making \ {Running}
  /\ Gone(Running)
  /\ UNCHANGED unwinding

Destroyable(c) ==
  /\ holder[c] = Running
  /\ state[c] # "EXEC"
  /\ c \notin making \cup unwinding

DestroyIdle(c) ==
  /\ Destroyable(c)
  /\ state[c] = "TERM" \/ orig[c] = Null
  /\ state' = [state EXCEPT ![c] = "none"]
  /\ Gone(c)
  /\ UNCHANGED <<chain, current, making, unwinding>>

\* unwind: an exception is thrown on top of the suspended function, whose
\* destructors run then; p_state and coro_current stay as they are.
Unwind(c) ==
  /\ Destroyable(c)
  /\ state[c] = "HOLD" /\ orig[c] # Null
  /\ chain' = Append(chain, c)
  /\ unwinding' = unwinding \cup {c}
  /\ UNCHANGED <<state, orig, current, saved, result, holder, making, stack,
                 sfree, undefined, poolVars>>

Unwound ==
  /\ Running \in unwinding
  /\ Holds(Running) = {}
  /\ state' = [state EXCEPT ![Running] = "none"]
  /\ chain' = Front(chain)
  /\ unwinding' = unwinding \ {Running}
  /\ Gone(Running)
  /\ UNCHANGED <<current, making>>

\* The pool lives longer than the coroutines that have a stack of it.
PoolScope ==
  /\ \E p \in Pools : Construct(p) \/ (Range(stack) = {Null} /\ Destroy(p))
  /\ UNCHANGED <<contexts, objects>>

Next ==
  /\ ~undefined
  /\ \/ \E c \in Coros : \/ CreateDead(c) \/ CreateCoroutine(c) \/ CreateGenerator(c)
                         \/ Resume(c) \/ DestroyIdle(c) \/ Unwind(c)
     \/ Yield \/ Return \/ Throw \/ ThrowFirst \/ Unwound
     \/ PoolScope

Spec == Init /\ [][Next]_vars
----------------------------------------------------------------------------
(* A yield, a return and an exception lead to the context that resumed this *)
(* coroutine last, whoever that was, and only what is on that chain executes *)
(* (call, coro_jump, yield_jump, yield_done).                                *)
JumpsBack ==
  /\ Head(chain) = Main
  /\ IsInjective(chain)
  /\ \A i \in 2..Len(chain) : chain[i] \notin unwinding =>
       orig[chain[i]] = chain[i - 1]
  /\ {c \in Coros : state[c] = "EXEC"} = Range(chain) \ (unwinding \cup {Main})

\* Of the first n contexts of the chain ch, the last that is not being
\* destroyed is x, or it is the thread's own and x is Null.
Executes(ch, gone, n, x) ==
  \E i \in 1..n : /\ ch[i] \notin gone
                  /\ \A j \in (i + 1)..n : ch[j] \in gone
                  /\ x = IF ch[i] = Main THEN Null ELSE ch[i]

(* current() is the coroutine that executes, as its documentation has it,    *)
(* however they resume and destroy one another. Destructors that run while a *)
(* suspended coroutine is destroyed see the one that destroys it.            *)
CurrentIsExecuting == Executes(chain, unwinding, Len(chain), current)

(* No coroutine runs on a stack that another one, the free list or the       *)
(* system has (make_context, basic_stack_pool).                              *)
OwnStack ==
  /\ \A c, d \in Coros : c # d /\ stack[c] # Null => stack[c] # stack[d]
  /\ \A c \in Coros : stack[c] # Null =>
       /\ stack[c] \in taken
       /\ stack[c][1] \in mapped
       /\ \A p \in Pools : stack[c] \notin Range(pool[p].unused)
=============================================================================
