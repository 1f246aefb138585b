----------------------------- MODULE MakeProofs -----------------------------
(***************************************************************************)
(* Proofs about make. For any tree of targets and any number of jobs       *)
(* (Make): that the body of a target runs after its dependencies are done, *)
(* and that no task gets lost between the queues of the wait_for calls.    *)
(* For any rules, targets and files (MakeRules): that the best rule is     *)
(* found and what is made is not made again.                               *)
(*                                                                         *)
(* What the walk has left to do is spread over the stack: each wait_for    *)
(* has the dependencies it has not come to, one that is in the works       *)
(* (below it on the stack, or the body or task at hand), and those that    *)
(* are done or have a task in its queues.  The lemmas about one frame are  *)
(* stated for the values of a frame, of p_futures and of the jobs, so that *)
(* they hold of a state and of the next one.                               *)
(***************************************************************************)
EXTENDS Make, MakeRules, Counting, SequenceTheorems

FrameType == [target : Targets \cup {None}, todo : Seq(Targets),
              tasks : Seq(Targets), atasks : Seq(Targets)]

\* What a wait_for waits for; the outermost one is exec's and waits for Root.
Needs(t) == IF t = None THEN {Root} ELSE Range(Deps[t])

\* Everything that is needed for t, itself included.
Below(t) == {d \in Targets : \A S \in SUBSET Targets :
               t \in S /\ (\A u \in S : Range(Deps[u]) \subseteq S) => d \in S}

\* With s for st: t has pushed no job; nothing needed for t has; the jobs that
\* t has pushed have ended well.
Fresh(t, s) == \A j \in JobsOf(t) : s[j] = "new"
Untouched(t, s) == \A u \in Below(t) : Fresh(u, s)
Quiet(t, s) == \A j \in JobsOf(t) : s[j] \in {"new", "ready"}

\* One wait_for f, cur being what it has in the works, with fut for futures.
FrameOK(f, cur, fut, s) ==
  /\ Range(f.todo) \cup Range(Queued(f)) \cup cur \subseteq Needs(f.target)
  /\ IsInjective(f.todo) /\ IsInjective(Queued(f))
  /\ cur \cap (Range(f.todo) \cup Range(Queued(f))) = {}
  /\ \A d \in Needs(f.target) :
       d \in Range(f.todo) \cup Range(Queued(f)) \cup cur \/ fut[d] = {}
  /\ \A d \in Range(f.todo) : Untouched(d, s)
  /\ \A d \in Range(Queued(f)) : fut[d] # {}
  /\ f.target # None => Fresh(f.target, s)

Current(k) == IF k > 1 THEN {stack[k - 1].target}
              ELSE IF pc \in {"body", "scan"} THEN {task} ELSE {}

\* Nothing has failed yet.
Going == pc \notin {"failed", "undefined", "drain"} /\ ~(pc = "scan" /\ from = "drain")

Frames == \A k \in 1..Len(stack) : FrameOK(stack[k], Current(k), futures, st)

\* The stack is a path of the tree that ends in exec's own wait_for.
Path == \A k \in 1..Len(stack) :
          /\ stack[k].target = None <=> k = Len(stack)
          /\ \A l \in 1..Len(stack) : stack[k].target = stack[l].target => k = l

\* wait_rest begins when all dependencies were looked at, and the queue atasks
\* is in use only in the middle of a round.
Rounds == pc \in {"sleep", "wait", "round"} \/ (pc = "scan" /\ from = "round")
Queues ==
  /\ Rounds => Top.todo = << >>
  /\ \A k \in 1..Len(stack) :
       stack[k].atasks # << >> => k = 1 /\ Rounds /\ pc \notin {"sleep", "wait"}

\* A future belongs to a job that was pushed.
Pushed == \A t \in Targets : futures[t] \subseteq {j \in JobsOf(t) : st[j] # "new"}

\* A job is watched until it has ended well.
Watched == \A t \in Targets : \A j \in JobsOf(t) :
             st[j] \notin {"new", "ready"} => j \in futures[t]

\* So is a task that has futures: it is in a queue, or it is resumed.
Kept == \A t \in Targets :
          \/ futures[t] = {}
          \/ pc = "scan" /\ t = task
          \/ \E k \in 1..Len(stack) : t \in Range(Queued(stack[k]))

\* The body that is about to run has not run, and its dependencies are done.
AtBody == pc = "body" => /\ Fresh(task, st)
                         /\ \A d \in Range(Deps[task]) : Quiet(d, st)

GoingWell == Path /\ Frames /\ Queues /\ Watched /\ Kept /\ AtBody

IInv == /\ TypeOK /\ Pushed /\ BodyAfterDeps
        /\ Going => GoingWell
-----------------------------------------------------------------------------
(* Sequences: the stack, the list of dependencies and the queues           *)

\* A front that is replaced leaves the rest where it was.
LEMMA FrontReplaced ==
  ASSUME NEW S, NEW s \in Seq(S), s # << >>, NEW x \in S
  PROVE  LET r == <<x>> \o Tail(s) IN
           /\ r \in Seq(S) /\ Len(r) = Len(s) /\ Len(s) \in Nat \ {0} /\ r[1] = x
           /\ \A k \in 2..Len(s) : r[k] = s[k]
BY HeadTailProperties, ConcatProperties

\* Two elements for the front: the rest moves by one.
LEMMA FrontPushed ==
  ASSUME NEW S, NEW s \in Seq(S), s # << >>, NEW x \in S, NEW y \in S
  PROVE  LET r == <<x, y>> \o Tail(s) IN
           /\ r \in Seq(S) /\ Len(r) = Len(s) + 1 /\ Len(s) \in Nat \ {0}
           /\ r[1] = x /\ r[2] = y
           /\ \A k \in 3..Len(r) : r[k] = s[k - 1]
BY HeadTailProperties, ConcatProperties

\* The front taken away: the rest moves by one.
LEMMA FrontPopped ==
  ASSUME NEW S, NEW s \in Seq(S), s # << >>
  PROVE  /\ Tail(s) \in Seq(S) /\ Len(Tail(s)) = Len(s) - 1 /\ Len(s) \in Nat \ {0}
         /\ Head(s) \in S /\ Head(s) = s[1]
         /\ \A k \in 1..(Len(s) - 1) : Tail(s)[k] = s[k + 1]
BY HeadTailProperties

\* The front of a queue without repetitions is not in the rest of it.
LEMMA Dequeued ==
  ASSUME NEW S, NEW q \in Seq(S), q # << >>, IsInjective(q)
  PROVE  /\ IsInjective(Tail(q)) /\ Range(q) = Range(Tail(q)) \cup {Head(q)}
         /\ Head(q) \notin Range(Tail(q))
<1> DEFINE n == Len(q)
           r == Tail(q)
<1>1. /\ n \in Nat \ {0} /\ DOMAIN q = 1..n /\ DOMAIN r = 1..(n - 1)
      /\ Head(q) = q[1] /\ \A k \in 1..(n - 1) : r[k] = q[k + 1]
  BY HeadTailProperties, LenProperties
<1> HIDE DEF n, r
<1>2. \A k \in 1..(n - 1) : k + 1 \in 1..n /\ k + 1 # 1
  BY <1>1
<1>3. \A k \in 1..n : k = 1 \/ (k - 1 \in 1..(n - 1) /\ q[k] = r[k - 1])
  BY <1>1
<1>4. IsInjective(r)
  BY <1>1, <1>2 DEF IsInjective
<1>5. Head(q) \notin Range(r)
  BY <1>1, <1>2 DEF IsInjective, Range
<1>6. Range(q) = Range(r) \cup {Head(q)}
  <2>1. ASSUME NEW x \in Range(q) PROVE x \in Range(r) \cup {Head(q)}
    BY <1>1, <1>3, <2>1 DEF Range
  <2>2. Range(r) \subseteq Range(q) /\ Head(q) \in Range(q)
    BY <1>1, <1>2 DEF Range
  <2> QED BY <2>1, <2>2
<1> QED BY <1>4, <1>5, <1>6 DEF r

\* What is appended to a queue comes to what was in it.
LEMMA Enqueued ==
  ASSUME NEW S, NEW q \in Seq(S), NEW x \in S, x \notin Range(q), IsInjective(q)
  PROVE  IsInjective(Append(q, x)) /\ Range(Append(q, x)) = Range(q) \cup {x}
<1> DEFINE n == Len(q)
           r == Append(q, x)
<1>1. /\ n \in Nat /\ DOMAIN q = 1..n /\ DOMAIN r = 1..(n + 1)
      /\ r[n + 1] = x /\ \A k \in 1..n : r[k] = q[k]
  BY AppendProperties, LenProperties
<1> HIDE DEF n, r
<1>2. \A k \in 1..(n + 1) : k \in 1..n \/ k = n + 1
  BY <1>1
<1>3. \A k \in 1..n : r[k] # x
  BY <1>1 DEF Range
<1>4. IsInjective(r)
  BY <1>1, <1>2, <1>3 DEF IsInjective
<1>5. Range(r) = Range(q) \cup {x}
  BY <1>1, <1>2 DEF Range
<1> QED BY <1>4, <1>5 DEF r

\* The two queues of a wait_for are used as one, which loses its front with the
\* front of the first and grows with the second.
LEMMA OneQueue ==
  ASSUME NEW S, NEW a \in Seq(S), NEW b \in Seq(S)
  PROVE  a \o b \in Seq(S) /\ a \o << >> = a /\ << >> \o b = b
BY ConcatProperties, ConcatEmptySeq

LEMMA QueueFront ==
  ASSUME NEW S, NEW a \in Seq(S), NEW b \in Seq(S), a # << >>
  PROVE  /\ a \o b # << >> /\ Head(a \o b) = Head(a)
         /\ Tail(a \o b) = Tail(a) \o b
BY ConcatProperties, HeadTailProperties, SeqEqual

LEMMA QueueBack ==
  ASSUME NEW S, NEW a \in Seq(S), NEW b \in Seq(S), NEW x \in S
  PROVE  a \o Append(b, x) = Append(a \o b, x)
<1>1. b \o <<x>> = Append(b, x) /\ (a \o b) \o <<x>> = Append(a \o b, x)
  BY ConcatProperties, AppendIsConcat
<1>2. <<x>> \in Seq(S)
  OBVIOUS
<1>3. a \o (b \o <<x>>) = (a \o b) \o <<x>>
  BY <1>2, ConcatAssociative
<1> QED BY <1>1, <1>3
-----------------------------------------------------------------------------
(* The tree                                                                *)

\* Every dependency is needed for one target, in one place of its list.
LEMMA Tree ==
  /\ \A t \in Targets : Deps[t] \in Seq(Targets) /\ IsInjective(Deps[t])
  /\ \A t \in Targets \cup {None} : Needs(t) \subseteq Targets
  /\ \A t, u \in Targets \cup {None} : \A d \in Needs(t) : d \in Needs(u) => t = u
<1>1. \A t \in Targets : Deps[t] \in Seq(Targets) /\ DOMAIN Deps[t] = 1..Len(Deps[t])
  BY DepsAssumption, LenProperties
<1>2. ASSUME NEW t \in Targets PROVE IsInjective(Deps[t])
  <2>1. \A i, j \in 1..Len(Deps[t]) : Deps[t][i] = Deps[t][j] => i = j
    BY DepsAssumption
  <2> QED BY <1>1, <2>1 DEF IsInjective
<1>3. \A t \in Targets \cup {None} : Needs(t) \subseteq Targets
  BY <1>1, RangeOfSeq, RootAssumption DEF Needs
<1>4. ASSUME NEW t \in Targets \cup {None}, NEW u \in Targets \cup {None},
             NEW d \in Needs(t), d \in Needs(u)
      PROVE  t = u
  <2>1. \A v \in Targets : \A x \in Range(Deps[v]) : \E i \in 1..Len(Deps[v]) : Deps[v][i] = x
    BY <1>1 DEF Range
  <2>2. \A v \in Targets : Root \notin Range(Deps[v])
    BY <2>1, DepsAssumption
  <2>3. CASE t = None \/ u = None
    BY <1>4, <2>2, <2>3 DEF Needs
  <2>4. CASE t # None /\ u # None
    <3>1. t \in Targets /\ u \in Targets /\ d \in Range(Deps[t]) /\ d \in Range(Deps[u])
      BY <1>4, <2>4 DEF Needs
    <3>2. PICK i \in 1..Len(Deps[t]), j \in 1..Len(Deps[u]) : Deps[t][i] = d /\ Deps[u][j] = d
      BY <2>1, <3>1
    <3> QED BY <3>1, <3>2, DepsAssumption
  <2> QED BY <2>3, <2>4
<1> QED BY <1>2, <1>1, <1>3, <1>4

\* Everything needed for a dependency of t is needed for t.
LEMMA BelowClosed ==
  ASSUME NEW t \in Targets
  PROVE  /\ t \in Below(t)
         /\ \A d \in Range(Deps[t]) : Below(d) \subseteq Below(t)
BY DEF Below
-----------------------------------------------------------------------------
(* One frame, for any values of p_futures and of the jobs                  *)

\* exec_rlist takes the next dependency.
LEMMA DependencyTaken ==
  ASSUME NEW f \in FrameType, NEW fut, NEW s, FrameOK(f, {}, fut, s), f.todo # << >>,
         fut[Head(f.todo)] = {}
  PROVE  /\ [f EXCEPT !.todo = Tail(@)] \in FrameType
         /\ FrameOK([f EXCEPT !.todo = Tail(@)], {Head(f.todo)}, fut, s)
<1> DEFINE h == Head(f.todo)
           g == [f EXCEPT !.todo = Tail(@)]
<1>1. f.todo \in Seq(Targets) /\ g.todo = Tail(f.todo) /\ g.target = f.target
      /\ g.tasks = f.tasks /\ g.atasks = f.atasks
  BY DEF FrameType
<1>2. /\ g \in FrameType /\ IsInjective(g.todo) /\ h \notin Range(g.todo)
      /\ Range(f.todo) = Range(g.todo) \cup {h}
  BY <1>1, Dequeued, HeadTailProperties DEF FrameOK, FrameType
<1>3. Queued(g) = Queued(f)
  BY <1>1 DEF Queued
<1> HIDE DEF g, h
<1>4. h \notin Range(Queued(f)) /\ h \in Needs(f.target)
  BY <1>2 DEF FrameOK, h
<1>5. FrameOK(g, {h}, fut, s)
  BY <1>1, <1>2, <1>3, <1>4 DEF FrameOK
<1> QED BY <1>2, <1>5 DEF g, h

\* What was in the works is done.
LEMMA DependencyDone ==
  ASSUME NEW f \in FrameType, NEW fut, NEW s, NEW d, FrameOK(f, {d}, fut, s), fut[d] = {}
  PROVE  FrameOK(f, {}, fut, s)
BY DEF FrameOK

\* What was in the works has futures left and gets to the end of a queue.
LEMMA TaskQueued ==
  ASSUME NEW f \in FrameType, NEW fut, NEW s, NEW d \in Targets, FrameOK(f, {d}, fut, s),
         fut[d] # {}, NEW g \in FrameType, g.target = f.target, g.todo = f.todo,
         Queued(g) = Append(Queued(f), d)
  PROVE  FrameOK(g, {}, fut, s)
<1>1. Queued(f) \in Seq(Targets) /\ d \notin Range(Queued(f)) /\ IsInjective(Queued(f))
  BY OneQueue DEF FrameOK, FrameType, Queued
<1>2. IsInjective(Queued(g)) /\ Range(Queued(g)) = Range(Queued(f)) \cup {d}
  BY <1>1, Enqueued
<1> QED BY <1>2 DEF FrameOK

\* The front of the queues is resumed.
LEMMA TaskTaken ==
  ASSUME NEW f \in FrameType, NEW fut, NEW s, FrameOK(f, {}, fut, s), Queued(f) # << >>,
         NEW g \in FrameType, g.target = f.target, g.todo = f.todo, Range(f.todo) = {},
         Queued(g) = Tail(Queued(f))
  PROVE  FrameOK(g, {Head(Queued(f))}, fut, s)
<1>1. Queued(f) \in Seq(Targets) /\ IsInjective(Queued(f))
  BY OneQueue DEF FrameOK, FrameType, Queued
<1>2. /\ IsInjective(Queued(g)) /\ Head(Queued(f)) \notin Range(Queued(g))
      /\ Range(Queued(f)) = Range(Queued(g)) \cup {Head(Queued(f))}
  BY <1>1, Dequeued
<1> QED BY <1>2 DEF FrameOK

\* The wait_for of a target nothing of which has begun.
LEMMA NewFrame ==
  ASSUME NEW t \in Targets, NEW fut, NEW s, Untouched(t, s)
  PROVE  Frame(t, Deps[t]) \in FrameType /\ FrameOK(Frame(t, Deps[t]), {}, fut, s)
<1> DEFINE f == Frame(t, Deps[t])
<1>1. /\ f \in FrameType /\ f.target = t /\ f.todo = Deps[t]
      /\ f.tasks = << >> /\ f.atasks = << >>
  BY Tree, EmptySeq DEF Frame, FrameType
<1>2. Queued(f) = << >> /\ Range(<< >>) = {} /\ IsInjective(<< >>)
  BY <1>1, EmptySeq, ConcatEmptySeq DEF Queued, Range, IsInjective
<1>3. \A d \in Range(Deps[t]) : Untouched(d, s)
  BY BelowClosed DEF Untouched
<1>4. t # None /\ Fresh(t, s) /\ Needs(t) = Range(Deps[t])
  BY BelowClosed, RootAssumption DEF Untouched, Needs
<1> HIDE DEF f
<1> QED BY <1>1, <1>2, <1>3, <1>4, Tree DEF FrameOK, f

\* A step that leaves a frame alone, and the futures it depends on, keeps it.
LEMMA FrameKept ==
  ASSUME NEW f \in FrameType, NEW cur, NEW fut, NEW s, FrameOK(f, cur, fut, s),
         NEW fut2, NEW s2,
         \A d \in Needs(f.target) \ cur : fut2[d] = {} <=> fut[d] = {},
         \A d \in Range(f.todo) : Untouched(d, s2),
         f.target # None => Fresh(f.target, s2)
  PROVE  FrameOK(f, cur, fut2, s2)
BY DEF FrameOK
-----------------------------------------------------------------------------
(* The shape of the state                                                  *)

\* What is on the stack, and at its front.
LEMMA OnStack ==
  ASSUME TypeOK
  PROVE  /\ stack \in Seq(FrameType) /\ Len(stack) \in Nat
         /\ stack # << >> => Len(stack) > 0
         /\ \A k \in 1..Len(stack) :
              /\ stack[k] \in FrameType /\ Queued(stack[k]) \in Seq(Targets)
              /\ stack[k].target \in Targets \cup {None} /\ stack[k].todo \in Seq(Targets)
              /\ stack[k].tasks \in Seq(Targets) /\ stack[k].atasks \in Seq(Targets)
         /\ stack # << >> => Top = stack[1] /\ 1 \in 1..Len(stack)
<1>1. stack \in Seq(FrameType) /\ Len(stack) \in Nat
  BY DEF TypeOK, FrameType
<1>2. \A k \in 1..Len(stack) : stack[k] \in FrameType
  BY <1>1
<1>3. \A f \in FrameType : /\ f.target \in Targets \cup {None} /\ f.todo \in Seq(Targets)
                           /\ f.tasks \in Seq(Targets) /\ f.atasks \in Seq(Targets)
                           /\ Queued(f) \in Seq(Targets)
  BY OneQueue, ConcatProperties DEF FrameType, Queued
<1>4. stack # << >> => Len(stack) > 0 /\ Top = stack[1]
  BY <1>1 DEF Top
<1> QED BY <1>1, <1>2, <1>3, <1>4

\* A front of the right shape leaves the stack in its shape.
LEMMA Updated ==
  ASSUME TypeOK, stack # << >>, NEW g \in FrameType, Update(g)
  PROVE  /\ stack' \in Seq(FrameType) /\ stack' # << >> /\ Len(stack') = Len(stack)
         /\ Head(stack') = g /\ stack'[1] = g
         /\ \A k \in 2..Len(stack) : stack'[k] = stack[k]
<1>1. stack \in Seq(FrameType)
  BY OnStack
<1>2. LET r == <<g>> \o Tail(stack) IN
        /\ r \in Seq(FrameType) /\ Len(r) = Len(stack) /\ Len(stack) \in Nat \ {0} /\ r[1] = g
        /\ \A k \in 2..Len(stack) : r[k] = stack[k]
  BY <1>1, FrontReplaced
<1> QED BY <1>2 DEF Update

\* The fronts that the owner's steps write have the right shape.
LEMMA Fronts ==
  ASSUME TypeOK, stack # << >>
  PROVE  /\ Top \in FrameType
         /\ Top.todo # << >> => /\ [Top EXCEPT !.todo = Tail(@)] \in FrameType
                                /\ Head(Top.todo) \in Targets
         /\ Top.tasks # << >> => /\ [Top EXCEPT !.tasks = Tail(@)] \in FrameType
                                 /\ Head(Top.tasks) \in Targets
         /\ \A t \in Targets : /\ [Top EXCEPT !.tasks = Append(@, t)] \in FrameType
                               /\ [Top EXCEPT !.atasks = Append(@, t)] \in FrameType
         /\ [Top EXCEPT !.tasks = Top.atasks, !.atasks = << >>] \in FrameType
<1>1. Top \in FrameType
  BY OnStack
<1>2. << >> \in Seq(Targets)
  BY EmptySeq
<1> HIDE DEF Top
<1>3. /\ Top.todo \in Seq(Targets) /\ Top.tasks \in Seq(Targets)
      /\ Top.atasks \in Seq(Targets)
  BY <1>1 DEF FrameType
<1>4. /\ Top.todo # << >> => Tail(Top.todo) \in Seq(Targets) /\ Head(Top.todo) \in Targets
      /\ Top.tasks # << >> => Tail(Top.tasks) \in Seq(Targets) /\ Head(Top.tasks) \in Targets
  BY <1>3, HeadTailProperties
<1>5. \A t \in Targets : /\ Append(Top.tasks, t) \in Seq(Targets)
                         /\ Append(Top.atasks, t) \in Seq(Targets)
  BY <1>3, AppendProperties
<1> QED BY <1>1, <1>2, <1>3, <1>4, <1>5 DEF FrameType

\* A wait_for opened or closed leaves the stack in its shape.
LEMMA OpenedClosed ==
  ASSUME TypeOK, stack # << >>
  PROVE  /\ Tail(stack) \in Seq(FrameType) /\ Len(Tail(stack)) = Len(stack) - 1
         /\ Tail(stack) = << >> <=> Len(stack) = 1
         /\ \A k \in 1..(Len(stack) - 1) : Tail(stack)[k] = stack[k + 1]
         /\ \A f, g \in FrameType :
              LET r == <<f, g>> \o Tail(stack) IN
                /\ r \in Seq(FrameType) /\ Len(r) = Len(stack) + 1 /\ r # << >>
                /\ r[1] = f /\ r[2] = g /\ Head(r) = f
                /\ \A k \in 3..Len(r) : r[k] = stack[k - 1]
<1>1. stack \in Seq(FrameType) /\ Len(stack) \in Nat
  BY OnStack
<1>2. /\ Tail(stack) \in Seq(FrameType) /\ Len(Tail(stack)) = Len(stack) - 1
      /\ \A k \in 1..(Len(stack) - 1) : Tail(stack)[k] = stack[k + 1]
  BY <1>1, FrontPopped
<1>3. Tail(stack) = << >> <=> Len(stack) = 1
  <2>1. \A r \in Seq(FrameType) : r = << >> <=> Len(r) = 0
    BY EmptySeq
  <2>2. Tail(stack) = << >> <=> Len(Tail(stack)) = 0
    BY <1>2, <2>1, Zenon
  <2>3. Len(Tail(stack)) = 0 <=> Len(stack) = 1
    BY <1>1, <1>2
  <2> QED BY <2>2, <2>3, Zenon
<1>4. ASSUME NEW f \in FrameType, NEW g \in FrameType
      PROVE  LET r == <<f, g>> \o Tail(stack) IN
                /\ r \in Seq(FrameType) /\ Len(r) = Len(stack) + 1 /\ r # << >>
                /\ r[1] = f /\ r[2] = g /\ Head(r) = f
                /\ \A k \in 3..Len(r) : r[k] = stack[k - 1]
  <2> DEFINE r == <<f, g>> \o Tail(stack)
  <2>1. /\ r \in Seq(FrameType) /\ Len(r) = Len(stack) + 1 /\ Len(stack) \in Nat \ {0}
        /\ r[1] = f /\ r[2] = g
        /\ \A k \in 3..Len(r) : r[k] = stack[k - 1]
    BY <1>1, FrontPushed
  <2> HIDE DEF r
  <2>2. r # << >> /\ Head(r) = f
    BY <2>1
  <2> QED BY <2>1, <2>2 DEF r
<1> QED BY <1>2, <1>3, <1>4

\* A step keeps the shape of the state; that the stack is empty only when exec
\* has been left depends on where its last frame is.
LEMMA TypeStep ==
  ASSUME TypeOK, Going => Path, [Next]_vars
  PROVE  TypeOK'
<1>1. stack \in Seq(FrameType) /\ (~Ended => stack # << >>)
  BY OnStack DEF TypeOK
<1>2. \A t \in Targets : JobsOf(t) \subseteq AllJobs
  BY DEF AllJobs
<1> USE RootAssumption DEF PCs, Ended
<1>3. ASSUME NEW t \in Targets, Descend(t) PROVE TypeOK'
  <2>1. Frame(t, Deps[t]) \in FrameType /\ [Top EXCEPT !.todo = Tail(@)] \in FrameType
    BY <1>1, <1>3, Tree, EmptySeq, Fronts DEF Descend, Dependency, Frame, FrameType
  <2>2. stack' \in Seq(FrameType) /\ stack' # << >>
    BY <1>1, <1>3, <2>1, OpenedClosed DEF Descend, Dependency
  <2> QED BY <1>3, <2>2 DEF Descend, Dependency, TypeOK, FrameType
<1>4. ASSUME NEW t \in Targets, Leaf(t) PROVE TypeOK'
  <2>1. stack' \in Seq(FrameType) /\ stack' # << >>
    BY <1>1, <1>4, Fronts, Updated DEF Leaf, Dependency
  <2> QED BY <1>4, <2>1 DEF Leaf, Dependency, TypeOK, FrameType
<1>5. CASE Skip \/ Body \/ BodyThrows \/ \E t \in Targets : Missing(t)
  <2>1. \A t \in Targets : Pushes(t) => st' \in [AllJobs -> {"new", "func", "flag", "notify",
                                                 "ending", "ready", "failed"}]
    BY DEF Pushes, TypeOK
  <2>2. << >> \in Seq(FrameType)
    BY EmptySeq
  <2>3. CASE Skip
    BY <1>1, <2>3 DEF Skip, TypeOK, FrameType
  <2>4. CASE Body
    BY <1>1, <1>2, <2>1, <2>4 DEF Body, TypeOK, FrameType
  <2>5. CASE BodyThrows
    BY <2>1, <2>2, <2>5 DEF BodyThrows, Fails, TypeOK, FrameType
  <2>6. CASE \E t \in Targets : Missing(t)
    BY <2>2, <2>6 DEF Missing, Fails, TypeOK, FrameType
  <2> QED BY <1>5, <2>3, <2>4, <2>5, <2>6
<1>6. CASE ScanPast \/ ScanErase
  <2>1. /\ pc = "scan" /\ task \in Targets /\ look' \in Nat
        /\ UNCHANGED <<stack, pc, task, from, st, p_avail>>
    BY <1>6 DEF ScanPast, ScanErase, Scans, TypeOK
  <2>2. futures' \in [Targets -> SUBSET AllJobs]
    BY <1>6 DEF ScanPast, ScanErase, TypeOK
  <2> QED BY <2>1, <2>2 DEF TypeOK
<1>7. CASE ScanThrow
  <2>1. /\ pc = "scan" /\ stack # << >> /\ UNCHANGED <<task, look, from, st, p_avail>>
        /\ futures' \in [Targets -> SUBSET AllJobs]
    BY <1>1, <1>7 DEF ScanThrow, Scans, TypeOK
  <2>2. /\ stack' \in Seq(FrameType) /\ pc' \in PCs \ {"body", "scan", "returned"}
        /\ stack' = << >> <=> pc' = "failed"
    BY <1>1, <1>7, <2>1, Fronts, Updated, EmptySeq DEF ScanThrow, Fails, DrainPop
  <2> QED BY <2>1, <2>2 DEF TypeOK, FrameType
<1>8. CASE BodyScanned \/ RoundScanned
  <2>1. /\ pc = "scan" /\ task \in Targets /\ pc' \in {"exec", "round"}
        /\ UNCHANGED <<task, look, from, futures, st, p_avail>>
    BY <1>8 DEF BodyScanned, RoundScanned, TypeOK
  <2>2. stack' \in Seq(FrameType) /\ stack' # << >>
    BY <1>1, <1>8, <2>1, Fronts, Updated DEF BodyScanned, RoundScanned
  <2> QED BY <2>1, <2>2 DEF TypeOK, FrameType
<1>9. CASE DrainScanned
  <2>1. /\ pc = "scan" /\ task \in Targets /\ look' \in Nat
        /\ UNCHANGED <<task, from, futures, st, p_avail>>
    BY <1>9 DEF DrainScanned, TypeOK
  <2>2. /\ stack' \in Seq(FrameType) /\ stack' # << >>
        /\ pc' \in {"scan", "drain", "undefined"}
    BY <1>1, <1>9, <2>1, Fronts, Updated DEF DrainScanned, DrainPop
  <2> QED BY <2>1, <2>2 DEF TypeOK, FrameType
<1>10. CASE WaitRest \/ Rewake \/ SpuriousWake
  BY <1>1, <1>10 DEF WaitRest, Rewake, SpuriousWake, Waits, TypeOK, FrameType
<1>11. CASE RoundPick \/ DrainPick
  <2>1. stack' \in Seq(FrameType) /\ stack' # << >> /\ task' \in Targets
    BY <1>1, <1>11, Fronts, Updated DEF RoundPick, DrainPick
  <2>2. /\ pc \in {"round", "drain"} /\ pc' = "scan" /\ look' = 1 /\ from' \in {"round", "drain"}
        /\ UNCHANGED <<futures, st, p_avail>>
    BY <1>11 DEF RoundPick, DrainPick
  <2> QED BY <2>1, <2>2 DEF TypeOK, FrameType
<1>12. CASE RoundAgain
  <2>1. stack' \in Seq(FrameType) /\ stack' # << >>
    BY <1>1, <1>12, Fronts, Updated DEF RoundAgain
  <2> QED BY <1>12, <2>1 DEF RoundAgain, Waits, TypeOK, FrameType
<1>13. CASE Ascend
  <2>1. /\ pc \in {"exec", "round"} /\ stack # << >> /\ Going
        /\ UNCHANGED <<look, from, futures, st, p_avail>>
    BY <1>1, <1>13 DEF Ascend, AllDone, Going
  <2>2. stack' \in Seq(FrameType) /\ (stack' = << >> <=> Top.target = None)
    <3>1. 1 \in 1..Len(stack) /\ Top = stack[1]
      BY <2>1, OnStack
    <3> QED BY <1>13, <2>1, <3>1, OpenedClosed DEF Ascend, Path
  <2>3. Top.target \in Targets \cup {None}
    BY <2>1, OnStack
  <2> QED BY <1>13, <2>1, <2>2, <2>3 DEF Ascend, TypeOK, FrameType
<1>14. CASE DrainEnd
  BY <1>14, EmptySeq DEF DrainEnd, Fails, TypeOK, FrameType
<1>15. ASSUME NEW j \in AllJobs, JobStep(j) PROVE TypeOK'
  BY <1>1, <1>15 DEF JobStep, FuncReturns, FuncThrows, Flag, Notify, Ready, Becomes, owner,
                     TypeOK, FrameType
<1>16. CASE UNCHANGED vars
  BY <1>16 DEF vars, owner, TypeOK
<1> QED BY <1>3, <1>4, <1>5, <1>6, <1>7, <1>8, <1>9, <1>10, <1>11, <1>12, <1>13, <1>14,
           <1>15, <1>16 DEF Next, OwnerStep, Resume, Terminating
-----------------------------------------------------------------------------
(* What holds until something fails, when the owner does not move a task    *)

\* After a failure the walk does not go on.
LEMMA NeverAgain ==
  ASSUME TypeOK, [Next]_vars, Going'
  PROVE  Going
<1>1. ASSUME ~Going PROVE ~Going'
  <2>1. pc \in {"failed", "undefined", "drain"} \/ (pc = "scan" /\ from = "drain")
    BY <1>1 DEF Going
  <2>2. CASE OwnerStep
    BY <2>1, <2>2
       DEF Going, OwnerStep, Descend, Leaf, Missing, Dependency, Skip, Body, BodyThrows, Fails,
           Resume, ScanPast, ScanErase, ScanThrow, DrainPop, BodyScanned, RoundScanned,
           DrainScanned, Scans, WaitRest, Rewake, RoundPick, RoundAgain, Ascend, AllDone,
           DrainPick, DrainEnd
  <2>3. CASE SpuriousWake
    BY <2>1, <2>3 DEF SpuriousWake
  <2>4. ASSUME NEW j \in AllJobs, JobStep(j) PROVE ~Going'
    BY <2>1, <2>4
       DEF Going, JobStep, FuncReturns, FuncThrows, Flag, Notify, Ready, owner
  <2>5. CASE UNCHANGED vars
    BY <2>1, <2>5 DEF Going, vars, owner
  <2> QED BY <2>2, <2>3, <2>4, <2>5 DEF Next, Terminating
<1> QED BY <1>1

\* Two targets have no job in common.
LEMMA OwnJobs ==
  /\ \A t \in Targets : JobsOf(t) \subseteq AllJobs
  /\ \A t, u \in Targets : \A j \in JobsOf(t) : j \in JobsOf(u) => t = u
BY DEF JobsOf, AllJobs

\* A step pushes the jobs of the target at hand, or none; a job that has begun
\* has not become new again, and one that has ended well has not begun again.
LEMMA JobsGoOn ==
  ASSUME TypeOK, [Next]_vars
  PROVE  \/ /\ Body \/ BodyThrows
            /\ \A j \in AllJobs : st'[j] = IF j \in JobsOf(task) THEN "func" ELSE st[j]
         \/ /\ ~(Body \/ BodyThrows)
            /\ \A j \in AllJobs : /\ st[j] = "new" <=> st'[j] = "new"
                                  /\ st[j] = "ready" => st'[j] = "ready"
<1>1. CASE Body \/ BodyThrows
  BY <1>1 DEF Body, BodyThrows, Pushes
<1>2. CASE OwnerStep /\ ~(Body \/ BodyThrows)
  <2>1. UNCHANGED st
    BY <1>2
       DEF OwnerStep, Descend, Leaf, Missing, Skip, Resume, ScanPast, ScanErase, ScanThrow,
           BodyScanned, RoundScanned, DrainScanned, WaitRest, Rewake, RoundPick, RoundAgain,
           Ascend, DrainPick, DrainEnd
  <2> QED BY <1>2, <2>1
<1>3. CASE SpuriousWake
  BY <1>3 DEF SpuriousWake, Body, BodyThrows
<1>4. ASSUME NEW j \in AllJobs, JobStep(j)
      PROVE  /\ ~(Body \/ BodyThrows)
             /\ \A i \in AllJobs : /\ st[i] = "new" <=> st'[i] = "new"
                                   /\ st[i] = "ready" => st'[i] = "ready"
  <2>1. /\ pc' \in {pc, "wait"} /\ st[j] \notin {"new", "ready"} /\ st'[j] # "new"
        /\ st' = [st EXCEPT ![j] = st'[j]]
    BY <1>4 DEF JobStep, FuncReturns, FuncThrows, Flag, Notify, Ready, Becomes, owner, TypeOK
  <2>2. ~(Body \/ BodyThrows)
    BY <2>1 DEF Body, BodyThrows, Fails
  <2> QED BY <2>1, <2>2 DEF TypeOK
<1>5. CASE UNCHANGED vars
  BY <1>5 DEF vars, Body, BodyThrows, Fails, owner
<1> QED BY <1>1, <1>2, <1>3, <1>4, <1>5 DEF Next, Terminating

\* A future is there only for a job that was pushed.
LEMMA PushedStep ==
  ASSUME TypeOK, Pushed, [Next]_vars
  PROVE  Pushed'
<1>1. futures \in [Targets -> SUBSET AllJobs]
  BY DEF TypeOK
<1>2. CASE Body
  <2>1. task \in Targets /\ futures' = [futures EXCEPT ![task] = JobsOf(task)]
    BY <1>2 DEF Body, TypeOK
  <2>2. \A j \in AllJobs : st'[j] = IF j \in JobsOf(task) THEN "func" ELSE st[j]
    BY <1>2 DEF Body, Pushes
  <2> QED BY <1>1, <2>1, <2>2, OwnJobs DEF Pushed
<1>3. CASE ~Body
  <2>1. \A j \in AllJobs : st[j] # "new" => st'[j] # "new"
    BY JobsGoOn
  <2>2. \A t \in Targets : futures'[t] \subseteq futures[t]
    BY <1>1, <1>3
       DEF Next, OwnerStep, Descend, Leaf, Missing, Skip, Resume, ScanPast, ScanErase, ScanThrow,
           BodyThrows, BodyScanned, RoundScanned, DrainScanned, WaitRest, Rewake, RoundPick,
           RoundAgain, Ascend, DrainPick, DrainEnd, SpuriousWake, JobStep, FuncReturns,
           FuncThrows, Flag, Notify, Ready, Terminating, owner, vars
  <2> QED BY <2>1, <2>2, OwnJobs DEF Pushed
<1> QED BY <1>2, <1>3
-----------------------------------------------------------------------------
(* The target at hand, the open ones and those still to come               *)

\* The target of every wait_for is needed by the one that is next on the stack.
LEMMA OpenOnes ==
  ASSUME TypeOK, Path, Frames, NEW k \in 1..Len(stack), stack[k].target # None
  PROVE  /\ k + 1 \in 1..Len(stack) /\ stack[k].target \in Targets
         /\ stack[k].target \in Needs(stack[k + 1].target)
<1>1. k + 1 \in 1..Len(stack) /\ k + 1 > 1 /\ (k + 1) - 1 = k /\ stack[k].target \in Targets
  BY OnStack DEF Path
<1>2. Current(k + 1) = {stack[k].target}
  BY <1>1 DEF Current
<1>3. FrameOK(stack[k + 1], Current(k + 1), futures, st)
  BY <1>1 DEF Frames
<1> QED BY <1>1, <1>2, <1>3 DEF FrameOK

\* The target at hand is needed by the innermost wait_for, and is not open.
LEMMA AtHand ==
  ASSUME TypeOK, Path, Frames, pc \in {"body", "scan"}
  PROVE  /\ stack # << >> /\ 1 \in 1..Len(stack) /\ Top = stack[1] /\ task \in Targets
         /\ task \in Needs(Top.target)
         /\ \A k \in 1..Len(stack) : stack[k].target # task
<1>1. /\ stack # << >> /\ 1 \in 1..Len(stack) /\ Top = stack[1] /\ task \in Targets
  BY OnStack DEF TypeOK, Ended
<1>2. task \in Needs(Top.target)
  BY <1>1 DEF Frames, FrameOK, Current
<1>3. ASSUME NEW k \in 1..Len(stack), stack[k].target = task PROVE FALSE
  <2>1. k + 1 \in 1..Len(stack) /\ task \in Needs(stack[k + 1].target)
    BY <1>1, <1>3, OpenOnes, RootAssumption
  <2>2. Top.target = stack[k + 1].target
    BY <1>1, <1>2, <2>1, OnStack, Tree
  <2>3. k + 1 = 1
    BY <1>1, <2>1, <2>2 DEF Path
  <2> QED BY <2>3
<1> QED BY <1>1, <1>2, <1>3

\* What is to come is not open either: its list goes on after the open one.
LEMMA NotOpen ==
  ASSUME TypeOK, Path, Frames, NEW k \in 1..Len(stack), NEW d \in Range(stack[k].todo)
  PROVE  /\ d \in Needs(stack[k].target) /\ d \in Targets /\ d \notin Current(k)
         /\ \A l \in 1..Len(stack) : stack[l].target # d
<1>1. d \in Needs(stack[k].target) /\ d \in Targets /\ d \notin Current(k)
  BY OnStack, Tree DEF Frames, FrameOK
<1>2. ASSUME NEW l \in 1..Len(stack), stack[l].target = d PROVE FALSE
  <2>1. l + 1 \in 1..Len(stack) /\ d \in Needs(stack[l + 1].target)
    BY <1>1, <1>2, OpenOnes, RootAssumption
  <2>2. stack[k].target = stack[l + 1].target
    BY <1>1, <2>1, OnStack, Tree
  <2>3. k = l + 1 /\ l \in Nat \ {0}
    BY <2>1, <2>2 DEF Path
  <2> QED BY <1>1, <1>2, <2>3 DEF Current
<1> QED BY <1>1, <1>2

\* What is to come needs neither the target at hand nor an open one: no body
\* that runs now belongs to a dependency that the walk has yet to come to.
LEMMA NotBelow ==
  ASSUME TypeOK, Path, Frames, pc \in {"body", "scan"},
         NEW k \in 1..Len(stack), NEW d \in Range(stack[k].todo)
  PROVE  task \notin Below(d)
<1> DEFINE Open == {stack[l].target : l \in 1..Len(stack)}
           S == Targets \ ({task} \cup Open)
<1>1. /\ 1 \in 1..Len(stack) /\ Top = stack[1] /\ task \in Targets
      /\ task \in Needs(Top.target) /\ task \notin Open
  BY AtHand
<1>2. \A l \in 1..Len(stack) : stack[l].target \in Targets \cup {None}
  BY OnStack
<1>3. \A u \in Targets \cup {None} : task \in Needs(u) => u \in Open
  BY <1>1, <1>2, Tree
<1>4. \A u \in Targets \cup {None} : \A x \in Needs(u) : x \in Open => u \in Open
  <2> SUFFICES ASSUME NEW u \in Targets \cup {None}, NEW l \in 1..Len(stack),
                      stack[l].target \in Needs(u)
               PROVE  u \in Open
    OBVIOUS
  <2>1. stack[l].target # None
    BY Tree, RootAssumption
  <2>2. l + 1 \in 1..Len(stack) /\ stack[l].target \in Needs(stack[l + 1].target)
    BY <2>1, OpenOnes
  <2>3. u = stack[l + 1].target
    BY <1>2, <2>2, Tree
  <2> QED BY <2>2, <2>3
<1>5. /\ d \in Needs(stack[k].target) /\ d \in Targets /\ d \notin Current(k)
      /\ d \notin Open
  BY NotOpen
<1>6. d # task
  <2> SUFFICES ASSUME d = task PROVE FALSE
    OBVIOUS
  <2>1. stack[k].target = Top.target
    BY <1>1, <1>2, <1>5, Tree
  <2>2. k = 1
    BY <1>1, <2>1 DEF Path
  <2> QED BY <1>5, <2>2 DEF Current
<1>7. \A u \in S : Range(Deps[u]) \subseteq S
  <2> SUFFICES ASSUME NEW u \in S, NEW x \in Range(Deps[u]) PROVE x \in S
    OBVIOUS
  <2>1. u \in Targets /\ x \in Needs(u) /\ x \in Targets /\ u \notin Open
    BY Tree, RootAssumption DEF Needs
  <2> QED BY <1>3, <1>4, <2>1
<1>8. S \in SUBSET Targets /\ d \in S /\ task \notin S
  BY <1>1, <1>5, <1>6
<1> HIDE DEF S
<1> QED BY <1>7, <1>8 DEF Below

\* A body that runs finds its dependencies done, and nobody is done that needs
\* the target it belongs to.
LEMMA BodyAfterDepsStep ==
  ASSUME TypeOK, Going => GoingWell, BodyAfterDeps, [Next]_vars
  PROVE  BodyAfterDeps'
<1>1. CASE ~(Body \/ BodyThrows)
  <2>1. \A j \in AllJobs : /\ st[j] = "new" <=> st'[j] = "new"
                           /\ st[j] = "ready" => st'[j] = "ready"
    BY <1>1, JobsGoOn
  <2> SUFFICES ASSUME NEW t \in Targets, NEW j \in JobsOf(t), st'[j] # "new",
                      NEW i \in 1..Len(Deps[t]), NEW k \in JobsOf(Deps[t][i])
               PROVE  st'[k] \in {"new", "ready"}
    BY DEF BodyAfterDeps
  <2>2. Deps[t][i] \in Targets
    BY DepsAssumption
  <2>3. j \in AllJobs /\ k \in AllJobs
    BY <2>2, OwnJobs
  <2>4. st[j] # "new" /\ st[k] \in {"new", "ready"}
    BY <2>1, <2>3 DEF BodyAfterDeps
  <2> QED BY <2>1, <2>3, <2>4
<1>2. CASE Body \/ BodyThrows
  <2>1. pc = "body" /\ GoingWell
    BY <1>2 DEF Body, BodyThrows, Going
  <2>2. \A j \in AllJobs : st'[j] = IF j \in JobsOf(task) THEN "func" ELSE st[j]
    BY <1>2, JobsGoOn
  <2>3. /\ task \in Targets /\ 1 \in 1..Len(stack) /\ Top = stack[1]
        /\ task \in Needs(Top.target) /\ \A k \in 1..Len(stack) : stack[k].target # task
    BY <2>1, AtHand DEF GoingWell
  <2>4. Top.target \in Targets \cup {None} /\ (Top.target # None => Fresh(Top.target, st))
    BY <2>1, <2>3, OnStack DEF GoingWell, Frames, FrameOK
  <2>5. \A t \in Targets : \A i \in 1..Len(Deps[t]) :
          Deps[t][i] \in Targets /\ Deps[t][i] \in Range(Deps[t]) /\ Range(Deps[t]) = Needs(t)
    BY DepsAssumption, RootAssumption, LenProperties DEF Range, Needs
  <2> SUFFICES ASSUME NEW t \in Targets, NEW j \in JobsOf(t), st'[j] # "new",
                      NEW i \in 1..Len(Deps[t]), NEW k \in JobsOf(Deps[t][i])
               PROVE  st'[k] \in {"new", "ready"}
    BY DEF BodyAfterDeps
  <2> DEFINE d == Deps[t][i]
  <2>6. d \in Targets /\ d \in Range(Deps[t]) /\ Range(Deps[t]) = Needs(t)
    BY <2>5
  <2>7. d # task
    <3> SUFFICES ASSUME d = task PROVE FALSE
      OBVIOUS
    <3>1. t = Top.target /\ t # task /\ Fresh(t, st)
      BY <2>3, <2>4, <2>6, Tree, RootAssumption
    <3>2. j \in AllJobs /\ j \notin JobsOf(task)
      BY <2>3, <3>1, OwnJobs
    <3> QED BY <2>2, <3>1, <3>2 DEF Fresh
  <2>8. st'[k] = st[k]
    BY <2>2, <2>3, <2>6, <2>7, OwnJobs
  <2>9. CASE t = task
    BY <2>1, <2>6, <2>8, <2>9 DEF GoingWell, AtBody, Quiet
  <2>10. CASE t # task
    <3>1. st[j] # "new"
      BY <2>2, <2>3, <2>10, OwnJobs
    <3> QED BY <2>8, <3>1 DEF BodyAfterDeps
  <2> QED BY <2>9, <2>10
<1> QED BY <1>1, <1>2
-----------------------------------------------------------------------------
(* What holds until something fails, step by step                          *)

\* A step that leaves the stack, and whatever does not belong to the target at
\* hand.
LEMMA StackAlone ==
  ASSUME TypeOK, Path, Frames, UNCHANGED stack,
         \A k \in 1..Len(stack) : Current(k)' = Current(k),
         \A t \in Targets : (futures'[t] = {} <=> futures[t] = {})
                            \/ (pc \in {"body", "scan"} /\ t = task),
         \A j \in AllJobs : st[j] = "new" => st'[j] = "new"
                                          \/ (pc \in {"body", "scan"} /\ j \in JobsOf(task))
  PROVE  Path' /\ Frames'
<1>1. Path'
  BY DEF Path
<1>2. ASSUME NEW k \in 1..Len(stack)
      PROVE  FrameOK(stack[k], Current(k), futures', st')
  <2>1. FrameOK(stack[k], Current(k), futures, st) /\ stack[k] \in FrameType
    BY OnStack DEF Frames
  <2>2. \A d \in Needs(stack[k].target) \ Current(k) : futures'[d] = {} <=> futures[d] = {}
    <3> SUFFICES ASSUME NEW d \in Needs(stack[k].target) \ Current(k),
                        ~(futures'[d] = {} <=> futures[d] = {})
                 PROVE  FALSE
      OBVIOUS
    <3>1. d \in Targets /\ stack[k].target \in Targets \cup {None}
      BY OnStack, Tree
    <3>2. pc \in {"body", "scan"} /\ d = task
      BY <3>1
    <3>3. k = 1
      BY <3>1, <3>2, AtHand, OnStack, Tree DEF Path
    <3> QED BY <3>2, <3>3 DEF Current
  <2>3. ASSUME NEW u \in Targets, pc \in {"body", "scan"} => u # task, Fresh(u, st)
        PROVE  Fresh(u, st')
    <3> SUFFICES ASSUME NEW j \in JobsOf(u) PROVE st'[j] = "new"
      BY DEF Fresh
    <3>1. j \in AllJobs /\ (pc \in {"body", "scan"} => task \in Targets)
      BY OwnJobs, AtHand
    <3> QED BY <2>3, <3>1, OwnJobs DEF Fresh
  <2>4. ASSUME NEW d \in Range(stack[k].todo) PROVE Untouched(d, st')
    <3>1. Untouched(d, st)
      BY <2>1 DEF FrameOK
    <3>2. \A u \in Below(d) : u \in Targets /\ (pc \in {"body", "scan"} => u # task)
      BY NotBelow DEF Below
    <3> QED BY <2>3, <3>1, <3>2 DEF Untouched
  <2>5. stack[k].target # None => Fresh(stack[k].target, st')
    BY <2>1, <2>3, OnStack, AtHand DEF FrameOK
  <2> QED BY <2>1, <2>2, <2>4, <2>5, FrameKept
<1>3. Frames'
  BY <1>2 DEF Frames
<1> QED BY <1>1, <1>3

\* A step that writes g over the front of the stack, for a g that takes over
\* what the front had in its queues and in the works.
LEMMA FrontChanged ==
  ASSUME TypeOK, GoingWell, stack # << >>, NEW g,
         Len(stack') = Len(stack), stack'[1] = g, Head(stack') = g,
         \A k \in 2..Len(stack) : stack'[k] = stack[k],
         UNCHANGED <<futures, st>>,
         g.target = Top.target, FrameOK(g, Current(1)', futures, st),
         Rounds' => g.todo = << >>,
         g.atasks # << >> => Rounds' /\ pc' \notin {"sleep", "wait"},
         \A t \in Targets :
           futures[t] # {} /\ (t \in Range(Queued(Top)) \/ (pc = "scan" /\ t = task))
             => t \in Range(Queued(g)) \/ (pc' = "scan" /\ t = task'),
         AtBody'
  PROVE  GoingWell'
<1>1. Len(stack) \in Nat /\ Len(stack) > 0 /\ Top = stack[1]
  BY OnStack
<1>2. \A k \in 1..Len(stack) : stack'[k].target = stack[k].target
  <2>1. \A k \in 1..Len(stack) : k = 1 \/ k \in 2..Len(stack)
    BY <1>1
  <2> QED BY <1>1, <2>1
<1>3. Path'
  BY <1>2 DEF GoingWell, Path
<1>4. ASSUME NEW k \in 2..Len(stack)
      PROVE  stack'[k] = stack[k] /\ Current(k)' = Current(k) /\ k \in 1..Len(stack)
  <2>1. k > 1 /\ k - 1 \in 1..Len(stack) /\ k \in 1..Len(stack)
    BY <1>1
  <2> QED BY <1>2, <2>1 DEF Current
<1>5. \A k \in 1..Len(stack) : k = 1 \/ k \in 2..Len(stack)
  BY <1>1
<1>6. Frames'
  BY <1>4, <1>5 DEF GoingWell, Frames
<1>7. Queues'
  <2>1. \A k \in 2..Len(stack) : stack[k].atasks = << >>
    BY <1>4 DEF GoingWell, Queues
  <2> QED BY <1>4, <1>5, <2>1 DEF Queues, Top
<1>8. Watched'
  BY DEF GoingWell, Watched
<1>9. Kept'
  <2> SUFFICES ASSUME NEW t \in Targets, futures[t] # {}, ~(pc' = "scan" /\ t = task')
               PROVE  \E k \in 1..Len(stack) : t \in Range(Queued(stack'[k]))
    BY DEF Kept
  <2>1. CASE t \in Range(Queued(Top)) \/ (pc = "scan" /\ t = task)
    <3>1. t \in Range(Queued(stack'[1]))
      BY <2>1
    <3> QED BY <1>1, <3>1
  <2>2. CASE ~(t \in Range(Queued(Top)) \/ (pc = "scan" /\ t = task))
    <3>1. PICK k \in 1..Len(stack) : t \in Range(Queued(stack[k]))
      BY <2>2 DEF GoingWell, Kept
    <3>2. k # 1
      BY <1>1, <2>2, <3>1
    <3> QED BY <1>4, <1>5, <3>1, <3>2
  <2> QED BY <2>1, <2>2
<1> QED BY <1>3, <1>6, <1>7, <1>8, <1>9 DEF GoingWell

\* A target nothing of which has begun has no futures.
LEMMA FreshHasNone ==
  ASSUME Pushed, NEW t \in Targets, Fresh(t, st)
  PROVE  futures[t] = {}
BY DEF Pushed, Fresh

\* What exec_rlist comes to next has not begun, nor has anything it needs.
LEMMA NextDependency ==
  ASSUME TypeOK, Pushed, GoingWell, NEW t \in Targets, Dependency(t)
  PROVE  /\ stack # << >> /\ Top = stack[1] /\ 1 \in 1..Len(stack) /\ Top \in FrameType
         /\ pc = "exec" /\ Top.todo # << >> /\ t = Head(Top.todo)
         /\ t \in Range(Top.todo) /\ t \in Needs(Top.target)
         /\ Untouched(t, st) /\ Fresh(t, st) /\ futures[t] = {}
         /\ Current(1) = {} /\ FrameOK(Top, {}, futures, st)
<1>1. /\ stack # << >> /\ Top = stack[1] /\ 1 \in 1..Len(stack) /\ Top \in FrameType
      /\ pc = "exec" /\ Top.todo # << >> /\ t = Head(Top.todo)
  BY OnStack DEF Dependency, TypeOK, Ended
<1>2. Current(1) = {}
  BY <1>1 DEF Current
<1>3. FrameOK(Top, {}, futures, st)
  BY <1>1, <1>2 DEF GoingWell, Frames
<1>4. t \in Range(Top.todo)
  <2>1. Top.todo \in Seq(Targets) /\ IsInjective(Top.todo)
    BY <1>1, <1>3, OnStack DEF FrameOK
  <2> QED BY <1>1, <2>1, Dequeued
<1>5. Untouched(t, st) /\ t \in Needs(Top.target)
  BY <1>3, <1>4 DEF FrameOK
<1>6. Fresh(t, st)
  BY <1>5, BelowClosed DEF Untouched
<1> QED BY <1>1, <1>2, <1>3, <1>4, <1>5, <1>6, FreshHasNone

\* exec_rlist comes to a dependency that needs nothing: its body is next.
LEMMA LeafStep ==
  ASSUME TypeOK, Pushed, GoingWell, NEW t \in Targets, Leaf(t)
  PROVE  GoingWell'
<1> DEFINE g == [Top EXCEPT !.todo = Tail(@)]
<1>1. /\ stack # << >> /\ Top = stack[1] /\ Top \in FrameType /\ pc = "exec"
      /\ Top.todo # << >> /\ t = Head(Top.todo) /\ Fresh(t, st) /\ futures[t] = {}
      /\ FrameOK(Top, {}, futures, st)
  BY NextDependency DEF Leaf
<1>2. /\ pc' = "body" /\ task' = t /\ Update(g) /\ Deps[t] = << >>
      /\ UNCHANGED <<look, from, futures, st, p_avail>>
  BY DEF Leaf
<1>3. g \in FrameType /\ FrameOK(g, {t}, futures, st)
  BY <1>1, DependencyTaken
<1>4. /\ g.target = Top.target /\ g.tasks = Top.tasks /\ g.atasks = Top.atasks
      /\ Queued(g) = Queued(Top)
  BY <1>1 DEF FrameType, Queued
<1> HIDE DEF g
<1>5. Current(1)' = {t} /\ ~Rounds' /\ ~Rounds
  BY <1>1, <1>2 DEF Current, Rounds
<1>6. g.atasks = << >>
  BY <1>1, <1>4, <1>5, OnStack DEF GoingWell, Queues
<1>7. AtBody'
  <2>1. Range(Deps[t]) = {}
    BY <1>2 DEF Range
  <2> QED BY <1>1, <1>2, <2>1 DEF AtBody
<1>8. /\ Len(stack') = Len(stack) /\ stack'[1] = g /\ Head(stack') = g
      /\ \A k \in 2..Len(stack) : stack'[k] = stack[k]
  BY <1>1, <1>2, <1>3, Updated
<1> QED BY <1>1, <1>2, <1>3, <1>4, <1>5, <1>6, <1>7, <1>8, FrontChanged

\* The target at hand, in the frame of the wait_for that needs it.
LEMMA InTheWorks ==
  ASSUME TypeOK, GoingWell, pc \in {"body", "scan"}
  PROVE  /\ stack # << >> /\ Top = stack[1] /\ 1 \in 1..Len(stack) /\ Top \in FrameType
         /\ task \in Targets /\ FrameOK(Top, {task}, futures, st) /\ Queued(Top) \in Seq(Targets)
         /\ Top.tasks \in Seq(Targets) /\ Top.atasks \in Seq(Targets)
<1>1. stack # << >> /\ Top = stack[1] /\ 1 \in 1..Len(stack) /\ task \in Targets
  BY AtHand DEF GoingWell
<1>2. Current(1) = {task}
  BY DEF Current
<1> QED BY <1>1, <1>2, OnStack DEF GoingWell, Frames

\* The body of an up-to-date target is skipped.
LEMMA SkipStep ==
  ASSUME TypeOK, Pushed, GoingWell, Skip
  PROVE  GoingWell'
<1>1. pc = "body" /\ pc' = "exec" /\ UNCHANGED <<stack, task, look, from, futures, st, p_avail>>
  BY DEF Skip
<1>2. /\ stack # << >> /\ Top = stack[1] /\ 1 \in 1..Len(stack) /\ Top \in FrameType
      /\ task \in Targets /\ FrameOK(Top, {task}, futures, st)
  BY <1>1, InTheWorks
<1>3. futures[task] = {}
  BY <1>1, <1>2, FreshHasNone DEF GoingWell, AtBody
<1>4. FrameOK(Top, {}, futures, st)
  BY <1>2, <1>3, DependencyDone
<1>5. Current(1)' = {} /\ ~Rounds' /\ ~Rounds /\ AtBody' /\ Head(stack') = Top
  BY <1>1 DEF Current, Rounds, AtBody, Top
<1>6. Top.atasks = << >>
  BY <1>2, <1>5 DEF GoingWell, Queues
<1> HIDE DEF Top
<1> QED BY <1>1, <1>2, <1>4, <1>5, <1>6, FrontChanged

\* The task of the body has been resumed once: it is done, or it is queued.
LEMMA BodyScannedStep ==
  ASSUME TypeOK, Pushed, GoingWell, BodyScanned
  PROVE  GoingWell'
<1>1. /\ pc = "scan" /\ from = "body" /\ pc' = "exec"
      /\ UNCHANGED <<task, look, from, futures, st, p_avail>>
  BY DEF BodyScanned
<1>2. /\ stack # << >> /\ Top = stack[1] /\ 1 \in 1..Len(stack) /\ Top \in FrameType
      /\ task \in Targets /\ FrameOK(Top, {task}, futures, st)
      /\ Top.tasks \in Seq(Targets) /\ Top.atasks \in Seq(Targets)
      /\ Queued(Top) \in Seq(Targets)
  BY <1>1, InTheWorks
<1>3. Current(1)' = {} /\ ~Rounds' /\ ~Rounds /\ AtBody'
  BY <1>1 DEF Current, Rounds, AtBody
<1>4. Top.atasks = << >>
  BY <1>2, <1>3 DEF GoingWell, Queues
<1>5. CASE futures[task] = {}
  <2>1. UNCHANGED stack /\ Head(stack') = Top
    BY <1>5 DEF BodyScanned, Top
  <2>2. FrameOK(Top, {}, futures, st)
    BY <1>2, <1>5, DependencyDone
  <2> HIDE DEF Top
  <2> QED BY <1>1, <1>2, <1>3, <1>4, <1>5, <2>1, <2>2, FrontChanged
<1>6. CASE futures[task] # {}
  <2> DEFINE g == [Top EXCEPT !.tasks = Append(@, task)]
  <2>1. Update(g) /\ g \in FrameType
    BY <1>2, <1>6, Fronts DEF BodyScanned
  <2>2. /\ g.target = Top.target /\ g.todo = Top.todo /\ g.atasks = << >>
        /\ g.tasks = Append(Top.tasks, task)
    BY <1>2, <1>4 DEF FrameType
  <2> HIDE DEF g
  <2>3. Queued(g) = Append(Queued(Top), task)
    BY <1>2, <1>4, <2>2, OneQueue, AppendProperties DEF Queued
  <2>4. FrameOK(g, {}, futures, st)
    BY <1>2, <1>6, <2>1, <2>2, <2>3, TaskQueued
  <2>5. Range(Queued(g)) = Range(Queued(Top)) \cup {task}
    BY <1>2, <2>3, Enqueued DEF FrameOK
  <2>6. /\ Len(stack') = Len(stack) /\ stack'[1] = g /\ Head(stack') = g
        /\ \A k \in 2..Len(stack) : stack'[k] = stack[k]
    BY <1>2, <2>1, Updated
  <2> QED BY <1>1, <1>2, <1>3, <2>1, <2>2, <2>4, <2>5, <2>6, FrontChanged
<1> QED BY <1>5, <1>6

\* A task of wait_rest's round has been resumed: it is done, or it is queued for
\* the next round.
LEMMA RoundScannedStep ==
  ASSUME TypeOK, Pushed, GoingWell, RoundScanned
  PROVE  GoingWell'
<1>1. /\ pc = "scan" /\ from = "round" /\ pc' = "round"
      /\ UNCHANGED <<task, look, from, futures, st, p_avail>>
  BY DEF RoundScanned
<1>2. /\ stack # << >> /\ Top = stack[1] /\ 1 \in 1..Len(stack) /\ Top \in FrameType
      /\ task \in Targets /\ FrameOK(Top, {task}, futures, st)
      /\ Top.tasks \in Seq(Targets) /\ Top.atasks \in Seq(Targets)
      /\ Queued(Top) \in Seq(Targets)
  BY <1>1, InTheWorks
<1>3. Current(1)' = {} /\ Rounds' /\ Rounds /\ AtBody' /\ pc' \notin {"sleep", "wait"}
  BY <1>1 DEF Current, Rounds, AtBody
<1>4. Top.todo = << >>
  BY <1>3 DEF GoingWell, Queues
<1>5. CASE futures[task] = {}
  <2>1. UNCHANGED stack /\ Head(stack') = Top
    BY <1>5 DEF RoundScanned, Top
  <2>2. FrameOK(Top, {}, futures, st)
    BY <1>2, <1>5, DependencyDone
  <2> HIDE DEF Top
  <2> QED BY <1>1, <1>2, <1>3, <1>4, <1>5, <2>1, <2>2, FrontChanged
<1>6. CASE futures[task] # {}
  <2> DEFINE g == [Top EXCEPT !.atasks = Append(@, task)]
  <2>1. Update(g) /\ g \in FrameType
    BY <1>2, <1>6, Fronts DEF RoundScanned
  <2>2. /\ g.target = Top.target /\ g.todo = Top.todo /\ g.tasks = Top.tasks
        /\ g.atasks = Append(Top.atasks, task)
    BY <1>2 DEF FrameType
  <2> HIDE DEF g
  <2>3. Queued(g) = Append(Queued(Top), task)
    <3> DEFINE a == Top.tasks
               b == Top.atasks
    <3>1. a \in Seq(Targets) /\ b \in Seq(Targets) /\ task \in Targets
      BY <1>2
    <3>2. Queued(Top) = a \o b /\ Queued(g) = a \o Append(b, task)
      BY <2>2 DEF Queued
    <3> HIDE DEF a, b
    <3> QED BY <3>1, <3>2, QueueBack
  <2>4. FrameOK(g, {}, futures, st)
    BY <1>2, <1>6, <2>1, <2>2, <2>3, TaskQueued
  <2>5. Range(Queued(g)) = Range(Queued(Top)) \cup {task}
    BY <1>2, <2>3, Enqueued DEF FrameOK
  <2>6. /\ Len(stack') = Len(stack) /\ stack'[1] = g /\ Head(stack') = g
        /\ \A k \in 2..Len(stack) : stack'[k] = stack[k]
    BY <1>2, <2>1, Updated
  <2> QED BY <1>1, <1>2, <1>3, <1>4, <2>1, <2>2, <2>4, <2>5, <2>6, FrontChanged
<1> QED BY <1>5, <1>6

\* wait_rest resumes the task at the front of its queue.
LEMMA RoundPickStep ==
  ASSUME TypeOK, Pushed, GoingWell, RoundPick
  PROVE  GoingWell'
<1> DEFINE g == [Top EXCEPT !.tasks = Tail(@)]
<1>1. /\ pc = "round" /\ pc' = "scan" /\ from' = "round" /\ Top.tasks # << >>
      /\ task' = Head(Top.tasks) /\ Update(g) /\ UNCHANGED <<futures, st, p_avail>>
  BY DEF RoundPick
<1>2. /\ stack # << >> /\ Top = stack[1] /\ 1 \in 1..Len(stack) /\ Top \in FrameType
      /\ Top.tasks \in Seq(Targets) /\ Top.atasks \in Seq(Targets)
      /\ Queued(Top) \in Seq(Targets)
  BY <1>1, OnStack DEF TypeOK, Ended
<1>3. Current(1) = {} /\ Current(1)' = {task'} /\ Rounds /\ Rounds' /\ AtBody'
  BY <1>1 DEF Current, Rounds, AtBody
<1>4. FrameOK(Top, {}, futures, st) /\ Top.todo = << >>
  BY <1>2, <1>3 DEF GoingWell, Frames, Queues
<1>5. g \in FrameType /\ task' \in Targets
  BY <1>1, <1>2, Fronts
<1>6. /\ g.target = Top.target /\ g.todo = << >> /\ g.atasks = Top.atasks
      /\ g.tasks = Tail(Top.tasks)
  BY <1>2, <1>4 DEF FrameType
<1> HIDE DEF g
<1>7. /\ Queued(Top) # << >> /\ Queued(g) = Tail(Queued(Top)) /\ task' = Head(Queued(Top))
  <2>1. /\ Top.tasks \o Top.atasks # << >>
        /\ Head(Top.tasks \o Top.atasks) = Head(Top.tasks)
        /\ Tail(Top.tasks \o Top.atasks) = Tail(Top.tasks) \o Top.atasks
    BY <1>1, <1>2, QueueFront
  <2> QED BY <1>1, <1>6, <2>1 DEF Queued
<1>8. FrameOK(g, {task'}, futures, st)
  <2>1. Range(Top.todo) = {}
    BY <1>4 DEF Range
  <2> QED BY <1>2, <1>4, <1>5, <1>6, <1>7, <2>1, TaskTaken
<1>9. Range(Queued(Top)) = Range(Queued(g)) \cup {task'}
  BY <1>2, <1>4, <1>7, Dequeued DEF FrameOK
<1>10. /\ Len(stack') = Len(stack) /\ stack'[1] = g /\ Head(stack') = g
       /\ \A k \in 2..Len(stack) : stack'[k] = stack[k]
  BY <1>1, <1>2, <1>5, Updated
<1> QED BY <1>1, <1>2, <1>3, <1>5, <1>6, <1>8, <1>9, <1>10, FrontChanged

\* A round is over: what was queued in it makes the next one.
LEMMA RoundAgainStep ==
  ASSUME TypeOK, Pushed, GoingWell, RoundAgain
  PROVE  GoingWell'
<1> DEFINE g == [Top EXCEPT !.tasks = Top.atasks, !.atasks = << >>]
<1>1. /\ pc = "round" /\ pc' \in {"round", "sleep"} /\ Top.tasks = << >>
      /\ Update(g) /\ UNCHANGED <<task, look, from, futures, st>>
  BY DEF RoundAgain, Waits
<1>2. /\ stack # << >> /\ Top = stack[1] /\ 1 \in 1..Len(stack) /\ Top \in FrameType
      /\ Top.tasks \in Seq(Targets) /\ Top.atasks \in Seq(Targets)
  BY <1>1, OnStack DEF TypeOK, Ended
<1>3. Current(1) = {} /\ Current(1)' = {} /\ Rounds /\ Rounds' /\ AtBody'
  BY <1>1 DEF Current, Rounds, AtBody
<1>4. FrameOK(Top, {}, futures, st) /\ Top.todo = << >>
  BY <1>2, <1>3 DEF GoingWell, Frames, Queues
<1>5. g \in FrameType
  BY <1>2, Fronts
<1>6. /\ g.target = Top.target /\ g.todo = Top.todo /\ g.atasks = << >>
      /\ g.tasks = Top.atasks
  BY <1>2 DEF FrameType
<1> HIDE DEF g
<1>7. Queued(g) = Queued(Top)
  <2>1. Top.atasks \o << >> = Top.atasks /\ << >> \o Top.atasks = Top.atasks
    BY <1>2, ConcatEmptySeq
  <2> QED BY <1>1, <1>6, <2>1 DEF Queued
<1>8. FrameOK(g, {}, futures, st)
  BY <1>4, <1>6, <1>7 DEF FrameOK
<1>9. /\ Len(stack') = Len(stack) /\ stack'[1] = g /\ Head(stack') = g
      /\ \A k \in 2..Len(stack) : stack'[k] = stack[k]
  BY <1>1, <1>2, <1>5, Updated
<1> QED BY <1>1, <1>2, <1>3, <1>4, <1>6, <1>7, <1>8, <1>9, FrontChanged

\* A wait_for returns: its dependencies are done, and its target is next.
LEMMA AscendStep ==
  ASSUME TypeOK, Pushed, GoingWell, Ascend
  PROVE  GoingWell'
<1> DEFINE t == Top.target
<1>1. /\ pc \in {"exec", "round"} /\ stack' = Tail(stack) /\ Top.tasks = << >>
      /\ UNCHANGED <<look, from, futures, st, p_avail>>
      /\ IF t = None THEN pc' = "returned" ELSE pc' = "body" /\ task' = t
  BY DEF Ascend, AllDone
<1>2. /\ stack # << >> /\ Top = stack[1] /\ 1 \in 1..Len(stack) /\ Top \in FrameType
      /\ Len(stack) \in Nat /\ Len(stack) > 0
  BY <1>1, OnStack DEF TypeOK, Ended
<1>3. Top.todo = << >> /\ Top.atasks = << >>
  <2>1. CASE pc = "exec"
    BY <1>2, <2>1 DEF Ascend, AllDone, GoingWell, Queues, Rounds
  <2>2. CASE pc = "round"
    BY <2>2 DEF Ascend, AllDone, GoingWell, Queues, Rounds
  <2> QED BY <1>1, <2>1, <2>2
<1>4. Current(1) = {} /\ FrameOK(Top, {}, futures, st)
  <2>1. pc \notin {"body", "scan"} /\ ~(1 > 1)
    BY <1>1
  <2>2. Current(1) = {}
    BY <2>1 DEF Current
  <2> QED BY <1>2, <2>2 DEF GoingWell, Frames
<1>5. Range(Top.todo) = {} /\ Range(Queued(Top)) = {}
  <2>1. << >> \o << >> = << >>
    BY EmptySeq, ConcatEmptySeq
  <2> QED BY <1>1, <1>3, <2>1 DEF Queued, Range
<1>6. \A d \in Needs(t) : futures[d] = {}
  BY <1>4, <1>5 DEF FrameOK
<1>7. AtBody'
  <2> SUFFICES ASSUME t # None, pc' = "body", task' = t
               PROVE  Fresh(t, st) /\ \A d \in Range(Deps[t]) : Quiet(d, st)
    BY <1>1 DEF AtBody
  <2>1. t \in Targets /\ Range(Deps[t]) \subseteq Targets
    BY <1>2, OnStack, Tree DEF Needs
  <2>2. Fresh(t, st)
    BY <1>4 DEF FrameOK
  <2>3. \A d \in Range(Deps[t]) : futures[d] = {}
    BY <1>6 DEF Needs
  <2> QED BY <2>1, <2>2, <2>3 DEF GoingWell, Watched, Quiet
<1>8. /\ Len(stack') = Len(stack) - 1
      /\ \A k \in 1..(Len(stack) - 1) : stack'[k] = stack[k + 1]
  BY <1>1, <1>2, OpenedClosed
<1>9. \A k \in 1..Len(stack') : /\ k + 1 \in 1..Len(stack) /\ stack'[k] = stack[k + 1]
                                /\ k + 1 > 1 /\ (k > 1 => k - 1 \in 1..Len(stack'))
                                /\ (k + 1) - 1 = k
  BY <1>2, <1>8
<1>10. Path'
  <2>1. ASSUME NEW k \in 1..Len(stack')
        PROVE  stack'[k].target = None <=> k = Len(stack')
    <3>1. k + 1 = Len(stack) <=> k = Len(stack')
      BY <1>2, <1>8
    <3> QED BY <1>9, <3>1 DEF GoingWell, Path
  <2>2. ASSUME NEW k \in 1..Len(stack'), NEW l \in 1..Len(stack'),
               stack'[k].target = stack'[l].target
        PROVE  k = l
    <3>1. k + 1 = l + 1
      BY <1>9, <2>2 DEF GoingWell, Path
    <3> QED BY <3>1
  <2> QED BY <2>1, <2>2 DEF Path
<1>11. \A k \in 1..Len(stack') : Current(k)' = Current(k + 1)
  <2> SUFFICES ASSUME NEW k \in 1..Len(stack') PROVE Current(k)' = Current(k + 1)
    OBVIOUS
  <2>1. Current(k + 1) = {stack[k].target}
    BY <1>9 DEF Current
  <2>2. CASE k = 1
    <3>1. t # None
      BY <1>2, <1>8, <2>2 DEF GoingWell, Path
    <3> QED BY <1>1, <1>2, <2>1, <2>2, <3>1 DEF Current
  <2>3. CASE k # 1
    <3>1. k > 1 /\ stack'[k - 1] = stack[k]
      BY <1>2, <1>8, <2>3
    <3> QED BY <2>1, <3>1 DEF Current
  <2> QED BY <2>2, <2>3
<1>12. Frames'
  BY <1>1, <1>9, <1>11 DEF GoingWell, Frames
<1>13. Queues'
  <2>1. \A k \in 1..Len(stack') : stack'[k].atasks = << >>
    BY <1>2, <1>9 DEF GoingWell, Queues
  <2>2. ~Rounds'
    BY <1>1 DEF Rounds
  <2> QED BY <2>1, <2>2 DEF Queues
<1>14. Watched'
  BY <1>1 DEF GoingWell, Watched
<1>15. Kept'
  <2> SUFFICES ASSUME NEW u \in Targets, futures[u] # {}
               PROVE  \E k \in 1..Len(stack') : u \in Range(Queued(stack'[k]))
    BY <1>1 DEF Kept
  <2>1. PICK k \in 1..Len(stack) : u \in Range(Queued(stack[k]))
    BY <1>1 DEF GoingWell, Kept
  <2>2. k # 1
    BY <1>2, <1>5, <2>1
  <2>3. k - 1 \in 1..Len(stack') /\ stack'[k - 1] = stack[k]
    BY <1>2, <1>8, <2>2
  <2> QED BY <2>1, <2>3
<1> QED BY <1>7, <1>10, <1>12, <1>13, <1>14, <1>15 DEF GoingWell

\* A target with dependencies opens a wait_for.
LEMMA DescendStep ==
  ASSUME TypeOK, Pushed, GoingWell, NEW t \in Targets, Descend(t)
  PROVE  GoingWell'
<1> DEFINE f == Frame(t, Deps[t])
           g == [Top EXCEPT !.todo = Tail(@)]
           n == Len(stack)
<1>1. /\ stack # << >> /\ Top = stack[1] /\ 1 \in 1..n /\ Top \in FrameType /\ pc = "exec"
      /\ Top.todo # << >> /\ t = Head(Top.todo) /\ t \in Range(Top.todo)
      /\ Untouched(t, st) /\ futures[t] = {} /\ FrameOK(Top, {}, futures, st)
  BY NextDependency DEF Descend
<1>2. /\ stack' = <<f, g>> \o Tail(stack)
      /\ UNCHANGED <<pc, task, look, from, futures, st, p_avail>>
  BY DEF Descend
<1>3. f \in FrameType /\ FrameOK(f, {}, futures, st)
  BY <1>1, NewFrame
<1>4. g \in FrameType /\ FrameOK(g, {t}, futures, st)
  BY <1>1, DependencyTaken
<1>5. /\ f.target = t /\ f.atasks = << >>
      /\ g.target = Top.target /\ g.atasks = Top.atasks /\ Queued(g) = Queued(Top)
  BY <1>1 DEF Frame, FrameType, Queued
<1>6. /\ Len(stack') = n + 1 /\ stack'[1] = f /\ stack'[2] = g
      /\ \A k \in 3..(n + 1) : stack'[k] = stack[k - 1]
  <2> HIDE DEF f, g
  <2>1. /\ Len(<<f, g>> \o Tail(stack)) = n + 1
        /\ (<<f, g>> \o Tail(stack))[1] = f /\ (<<f, g>> \o Tail(stack))[2] = g
        /\ \A k \in 3..(n + 1) : (<<f, g>> \o Tail(stack))[k] = stack[k - 1]
    BY <1>1, <1>3, <1>4, OpenedClosed
  <2>2. stack' = <<f, g>> \o Tail(stack)
    BY <1>2
  <2> QED BY <2>1, <2>2
<1>7. n \in Nat /\ n > 0
  BY <1>1, OnStack
<1> HIDE DEF f, g
<1>8. t # None /\ \A l \in 1..n : stack[l].target # t
  BY <1>1, NotOpen, RootAssumption DEF GoingWell
<1>9. \A k \in 1..(n + 1) :
        \/ k = 1
        \/ /\ k > 1 /\ k - 1 \in 1..n /\ stack'[k].target = stack[k - 1].target
           /\ stack'[k].atasks = stack[k - 1].atasks
           /\ Queued(stack'[k]) = Queued(stack[k - 1])
  <2> SUFFICES ASSUME NEW k \in 2..(n + 1)
               PROVE  /\ k > 1 /\ k - 1 \in 1..n /\ stack'[k].target = stack[k - 1].target
                      /\ stack'[k].atasks = stack[k - 1].atasks
                      /\ Queued(stack'[k]) = Queued(stack[k - 1])
    BY <1>7
  <2>1. CASE k = 2
    BY <1>1, <1>5, <1>6, <2>1
  <2>2. CASE k \in 3..(n + 1)
    BY <1>6, <1>7, <2>2
  <2> QED BY <1>7, <2>1, <2>2
<1> HIDE DEF n
<1>10. Path'
  <2>1. ASSUME NEW k \in 1..(n + 1) PROVE stack'[k].target = None <=> k = n + 1
    BY <1>5, <1>6, <1>7, <1>8, <1>9, <2>1 DEF GoingWell, Path, n
  <2>2. ASSUME NEW k \in 1..(n + 1), NEW l \in 1..(n + 1), stack'[k].target = stack'[l].target
        PROVE  k = l
    <3>1. CASE k = 1 \/ l = 1
      BY <1>5, <1>6, <1>8, <1>9, <2>2, <3>1
    <3>2. CASE k # 1 /\ l # 1
      <4>1. k - 1 = l - 1
        BY <1>9, <2>2, <3>2 DEF GoingWell, Path, n
      <4> QED BY <1>7, <4>1
    <3> QED BY <3>1, <3>2
  <2> QED BY <1>6, <2>1, <2>2 DEF Path
<1>11. Frames'
  <2> SUFFICES ASSUME NEW k \in 1..(n + 1)
               PROVE  FrameOK(stack'[k], Current(k)', futures, st)
    BY <1>2, <1>6 DEF Frames
  <2>1. CASE k = 1
    <3>1. Current(1)' = {}
      BY <1>1, <1>2 DEF Current
    <3> QED BY <1>3, <1>6, <2>1, <3>1
  <2>2. CASE k = 2
    <3>1. Current(2)' = {t}
      BY <1>5, <1>6 DEF Current
    <3> QED BY <1>4, <1>6, <2>2, <3>1
  <2>3. CASE k \in 3..(n + 1)
    <3>1. /\ k > 1 /\ k - 1 > 1 /\ k - 1 \in 1..(n + 1) /\ k - 1 \in 1..n
          /\ (k - 1) - 1 \in 1..n
      BY <1>7, <2>3
    <3>2. stack'[k - 1].target = stack[(k - 1) - 1].target
      BY <1>9, <3>1
    <3>3. Current(k)' = Current(k - 1)
      BY <3>1, <3>2 DEF Current
    <3>4. stack'[k] = stack[k - 1]
      BY <1>6, <2>3
    <3> QED BY <3>1, <3>3, <3>4 DEF GoingWell, Frames, n
  <2> QED BY <1>7, <2>1, <2>2, <2>3
<1>12. Queues'
  <2>1. ~Rounds /\ ~Rounds'
    BY <1>1, <1>2 DEF Rounds
  <2>2. \A k \in 1..n : stack[k].atasks = << >>
    BY <2>1 DEF GoingWell, Queues, n
  <2>3. \A k \in 1..(n + 1) : stack'[k].atasks = << >>
    BY <1>5, <1>6, <1>9, <2>2
  <2> QED BY <1>6, <2>1, <2>3 DEF Queues
<1>13. Watched' /\ AtBody'
  BY <1>1, <1>2 DEF GoingWell, Watched, AtBody
<1>14. Kept'
  <2> SUFFICES ASSUME NEW u \in Targets, futures[u] # {}
               PROVE  \E k \in 1..(n + 1) : u \in Range(Queued(stack'[k]))
    BY <1>2, <1>6 DEF Kept
  <2>1. PICK k \in 1..n : u \in Range(Queued(stack[k]))
    BY <1>1 DEF GoingWell, Kept, n
  <2>2. k + 1 \in 1..(n + 1) /\ k + 1 # 1 /\ (k + 1) - 1 = k
    BY <1>7
  <2>3. Queued(stack'[k + 1]) = Queued(stack[k])
    BY <1>9, <2>2
  <2> QED BY <2>1, <2>2, <2>3
<1> QED BY <1>10, <1>11, <1>12, <1>13, <1>14 DEF GoingWell

\* A step that neither moves the owner between bodies and queues nor pushes a job.
LEMMA StillStep ==
  ASSUME TypeOK, GoingWell, [Next]_vars, ~(Body \/ BodyThrows),
         UNCHANGED <<stack, task, from, futures>>,
         pc' = pc \/ (pc \notin {"body", "scan"} /\ pc' \notin {"body", "scan"}), Queues'
  PROVE  GoingWell'
<1>1. \A j \in AllJobs : /\ st[j] = "new" <=> st'[j] = "new"
                         /\ st[j] = "ready" => st'[j] = "ready"
  BY JobsGoOn
<1>2. \A k \in 1..Len(stack) : Current(k)' = Current(k)
  BY DEF Current
<1>3. Path' /\ Frames'
  BY <1>1, <1>2, StackAlone DEF GoingWell
<1>4. Watched'
  <2> SUFFICES ASSUME NEW t \in Targets, NEW j \in JobsOf(t), st'[j] \notin {"new", "ready"}
               PROVE  j \in futures[t]
    BY DEF Watched
  <2>1. st[j] \notin {"new", "ready"}
    BY <1>1, OwnJobs
  <2> QED BY <2>1 DEF GoingWell, Watched
<1>5. Kept'
  BY DEF GoingWell, Kept
<1>6. AtBody'
  <2> SUFFICES ASSUME pc' = "body"
               PROVE  Fresh(task, st') /\ \A d \in Range(Deps[task]) : Quiet(d, st')
    BY DEF AtBody
  <2>1. pc = "body" /\ task \in Targets /\ Range(Deps[task]) \subseteq Targets
    BY Tree, RangeOfSeq DEF TypeOK
  <2>2. Fresh(task, st) /\ \A d \in Range(Deps[task]) : Quiet(d, st)
    BY <2>1 DEF GoingWell, AtBody
  <2>3. Fresh(task, st')
    BY <1>1, <2>1, <2>2, OwnJobs DEF Fresh
  <2>4. \A d \in Range(Deps[task]) : Quiet(d, st')
    BY <1>1, <2>1, <2>2, OwnJobs DEF Quiet
  <2> QED BY <2>3, <2>4
<1> QED BY <1>3, <1>4, <1>5, <1>6 DEF GoingWell

\* wait_rest waits, a thread of the pool goes on, resume passes a future by, or
\* nothing happens.
LEMMA StillSteps ==
  ASSUME TypeOK, GoingWell, [Next]_vars,
         \/ WaitRest \/ Rewake \/ SpuriousWake \/ ScanPast \/ UNCHANGED vars
         \/ \E j \in AllJobs : JobStep(j)
  PROVE  GoingWell'
<1>1. /\ UNCHANGED <<stack, task, from, futures>>
      /\ \/ pc' = pc
         \/ pc \in {"exec", "wait", "sleep"} /\ pc' \in {"round", "sleep", "wait"}
      /\ pc = "exec" /\ pc' # pc => Top.todo = << >>
      /\ pc = "sleep" /\ pc' # pc => pc' = "wait"
  BY DEF WaitRest, Rewake, SpuriousWake, Waits, ScanPast, vars, owner, JobStep, FuncReturns,
         FuncThrows, Flag, Notify, Ready
<1>2. ~(Body \/ BodyThrows)
  <2>1. pc' = pc \/ pc # "body"
    BY <1>1
  <2> QED BY <2>1 DEF Body, BodyThrows, Fails
<1>3. Queues'
  <2>1. Top' = Top
    BY <1>1 DEF Top
  <2>2. CASE pc' = pc
    BY <1>1, <2>1, <2>2 DEF GoingWell, Queues, Rounds
  <2>3. CASE pc' # pc
    <3>1. \A k \in 1..Len(stack) : stack[k].atasks = << >>
      BY <1>1, <2>3 DEF GoingWell, Queues, Rounds
    <3>2. Top.todo = << >>
      BY <1>1, <2>3 DEF GoingWell, Queues, Rounds
    <3> QED BY <1>1, <2>1, <3>1, <3>2 DEF Queues
  <2> QED BY <2>2, <2>3
<1>4. pc' = pc \/ (pc \notin {"body", "scan"} /\ pc' \notin {"body", "scan"})
  BY <1>1
<1> QED BY <1>1, <1>2, <1>3, <1>4, StillStep

\* resume takes out a future that is ready.
LEMMA ScanEraseStep ==
  ASSUME TypeOK, GoingWell, ScanErase
  PROVE  GoingWell'
<1>1. /\ pc = "scan" /\ UNCHANGED <<stack, pc, task, from, st, p_avail>>
      /\ st[Future] = "ready" /\ task \in Targets
  BY DEF ScanErase, Scans, TypeOK
<1>2. \A t \in Targets : futures'[t] = IF t = task THEN futures[t] \ {Future} ELSE futures[t]
  BY DEF ScanErase, TypeOK
<1>3. \A k \in 1..Len(stack) : Current(k)' = Current(k)
  BY <1>1 DEF Current
<1>4. Path' /\ Frames'
  <2>1. \A t \in Targets : (futures'[t] = {} <=> futures[t] = {}) \/ t = task
    BY <1>2
  <2> QED BY <1>1, <1>3, <2>1, StackAlone DEF GoingWell
<1>5. Queues'
  BY <1>1 DEF GoingWell, Queues, Rounds, Top
<1>6. Watched'
  BY <1>1, <1>2 DEF GoingWell, Watched
<1>7. Kept'
  BY <1>1, <1>2 DEF GoingWell, Kept
<1>8. AtBody'
  BY <1>1 DEF AtBody
<1> QED BY <1>4, <1>5, <1>6, <1>7, <1>8 DEF GoingWell

\* The body at hand runs and pushes its jobs.
LEMMA BodyStep ==
  ASSUME TypeOK, GoingWell, [Next]_vars, Body
  PROVE  GoingWell'
<1>1. /\ pc = "body" /\ pc' = "scan" /\ from' = "body" /\ UNCHANGED <<stack, task>>
      /\ task \in Targets
  BY DEF Body, TypeOK
<1>2. \A t \in Targets : futures'[t] = IF t = task THEN JobsOf(t) ELSE futures[t]
  BY DEF Body, TypeOK
<1>3. \A j \in AllJobs : st'[j] = IF j \in JobsOf(task) THEN "func" ELSE st[j]
  BY DEF Body, Pushes
<1>4. \A k \in 1..Len(stack) : Current(k)' = Current(k)
  BY <1>1 DEF Current
<1>5. Path' /\ Frames'
  <2>1. \A t \in Targets : (futures'[t] = {} <=> futures[t] = {}) \/ t = task
    BY <1>2
  <2> QED BY <1>1, <1>3, <1>4, <2>1, StackAlone DEF GoingWell
<1>6. Queues'
  <2>1. ~Rounds /\ ~Rounds'
    BY <1>1 DEF Rounds
  <2> QED BY <1>1, <2>1 DEF GoingWell, Queues
<1>7. Watched'
  <2> SUFFICES ASSUME NEW t \in Targets, NEW j \in JobsOf(t), st'[j] \notin {"new", "ready"}
               PROVE  j \in futures'[t]
    BY DEF Watched
  <2>1. CASE t = task
    BY <1>2, <2>1
  <2>2. CASE t # task
    <3>1. st'[j] = st[j]
      BY <1>1, <1>3, <2>2, OwnJobs
    <3> QED BY <1>2, <2>2, <3>1 DEF GoingWell, Watched
  <2> QED BY <2>1, <2>2
<1>8. Kept'
  BY <1>1, <1>2 DEF GoingWell, Kept
<1>9. AtBody'
  BY <1>1 DEF AtBody
<1> QED BY <1>5, <1>6, <1>7, <1>8, <1>9 DEF GoingWell

\* Every step but those after a failure, and those that fail.
LEMMA GoingStep ==
  ASSUME TypeOK, Pushed, GoingWell, Going, Going', [Next]_vars
  PROVE  GoingWell'
<1>1. ~(\E t \in Targets : Missing(t)) /\ ~BodyThrows /\ ~ScanThrow /\ ~DrainEnd
  <2>1. ~Fails
    BY DEF Going, Fails
  <2>2. ~ScanThrow
    BY <2>1 DEF Going, ScanThrow, Scans
  <2> QED BY <2>1, <2>2 DEF Missing, BodyThrows, DrainEnd
<1>2. ~DrainScanned /\ ~DrainPick
  BY DEF Going, DrainScanned, DrainPick
<1>3. CASE OwnerStep
  BY <1>1, <1>2, <1>3, DescendStep, LeafStep, SkipStep, BodyStep, ScanEraseStep,
     BodyScannedStep, RoundScannedStep, RoundPickStep, RoundAgainStep, AscendStep, StillSteps
     DEF OwnerStep, Resume
<1>4. CASE ~OwnerStep
  BY <1>4, StillSteps DEF Next, Terminating
<1> QED BY <1>3, <1>4
-----------------------------------------------------------------------------
(* The theorems                                                            *)

\* exec begins with Root to do.
LEMMA AtFirst ==
  ASSUME Init
  PROVE  IInv
<1> DEFINE f == Frame(None, <<Root>>)
<1>1. /\ stack = <<f>> /\ pc = "exec" /\ task = None /\ look = 1 /\ from = "body"
      /\ futures = [t \in Targets |-> {}] /\ st = [j \in AllJobs |-> "new"]
      /\ p_avail = FALSE
  BY DEF Init
<1>2. /\ f \in FrameType /\ f.target = None /\ f.todo = <<Root>>
      /\ f.tasks = << >> /\ f.atasks = << >>
  BY RootAssumption, EmptySeq DEF Frame, FrameType
<1> HIDE DEF f
<1>3. /\ stack \in Seq(FrameType) /\ stack # << >> /\ Len(stack) = 1 /\ stack[1] = f
      /\ Top = f
  BY <1>1, <1>2 DEF Top
<1>4. TypeOK
  BY <1>1, <1>3 DEF TypeOK, PCs, Ended, FrameType
<1>5. Pushed /\ BodyAfterDeps
  <2>1. \A t \in Targets : JobsOf(t) \subseteq AllJobs
    BY OwnJobs
  <2>2. BodyAfterDeps
    BY <1>1, <2>1 DEF BodyAfterDeps
  <2> QED BY <1>1, <2>2 DEF Pushed
<1>6. \A d \in Targets : Fresh(d, st)
  BY <1>1, OwnJobs DEF Fresh
<1>7. Queued(f) = << >> /\ Range(<< >>) = {} /\ IsInjective(<< >>)
  BY <1>2, EmptySeq, ConcatEmptySeq DEF Queued, Range, IsInjective
<1>8. Range(<<Root>>) = {Root} /\ IsInjective(<<Root>>)
  BY DEF Range, IsInjective
<1>9. FrameOK(f, {}, futures, st)
  <2>1. Untouched(Root, st)
    BY <1>6 DEF Untouched, Below
  <2> QED BY <1>2, <1>7, <1>8, <2>1 DEF FrameOK, Needs
<1>10. Current(1) = {}
  BY <1>1 DEF Current
<1>11. Path /\ Frames
  <2>1. \A k \in 1..Len(stack) : k = 1
    BY <1>3
  <2>2. Path
    BY <1>2, <1>3, <2>1 DEF Path
  <2>3. Frames
    BY <1>3, <1>9, <1>10, <2>1 DEF Frames
  <2> QED BY <2>2, <2>3
<1>12. Queues /\ AtBody
  BY <1>1, <1>2, <1>3 DEF Queues, Rounds, AtBody
<1>13. Watched /\ Kept
  BY <1>1, OwnJobs DEF Watched, Kept
<1> QED BY <1>4, <1>5, <1>11, <1>12, <1>13 DEF IInv, GoingWell

\* The inductive invariant.
THEOREM Inductive == Spec => []IInv
<1>1. Init => IInv
  BY AtFirst
<1>2. IInv /\ [Next]_vars => IInv'
  <2> SUFFICES ASSUME IInv, [Next]_vars PROVE IInv'
    OBVIOUS
  <2>1. TypeOK /\ Pushed /\ BodyAfterDeps /\ (Going => GoingWell)
    BY DEF IInv
  <2>2. TypeOK'
    BY <2>1, TypeStep DEF GoingWell
  <2>3. Pushed' /\ BodyAfterDeps'
    BY <2>1, PushedStep, BodyAfterDepsStep
  <2>4. Going' => GoingWell'
    BY <2>1, NeverAgain, GoingStep
  <2> QED BY <2>2, <2>3, <2>4 DEF IInv
<1> QED BY <1>1, <1>2, PTL DEF Spec

\* The state always has its shape; the stack of wait_for calls is empty exactly
\* when exec has been left.
THEOREM TypeCorrect == Spec => []TypeOK
<1>1. IInv => TypeOK
  BY DEF IInv
<1> QED BY <1>1, Inductive, PTL

\* Whatever fails, and however the pool runs the jobs: a body that has run found
\* every job of its dependencies ended well (or never pushed).
THEOREM BodiesComeAfter == Spec => []BodyAfterDeps
<1>1. IInv => BodyAfterDeps
  BY DEF IInv
<1> QED BY <1>1, Inductive, PTL

\* A task is in one place of one queue, and one that is resumed is in none.
LEMMA OnePlace ==
  ASSUME TypeOK, Path, Frames, NEW t \in Targets
  PROVE  /\ \A p, q \in Places(t) : p = q
         /\ Places(t) # {} => futures[t] # {} /\ ~(pc = "scan" /\ t = task)
<1>1. \A p \in Places(t) : \E k \in 1..Len(stack) : \E i \in DOMAIN Queued(stack[k]) :
        p = <<k, i>> /\ Queued(stack[k])[i] = t
  BY DEF Places
<1>2. ASSUME NEW k \in 1..Len(stack), NEW i \in DOMAIN Queued(stack[k]),
             Queued(stack[k])[i] = t
      PROVE  /\ t \in Range(Queued(stack[k])) /\ t \in Needs(stack[k].target)
             /\ futures[t] # {} /\ t \notin Current(k) /\ IsInjective(Queued(stack[k]))
  <2>1. t \in Range(Queued(stack[k]))
    BY <1>2 DEF Range
  <2> QED BY <2>1 DEF Frames, FrameOK
<1>3. ASSUME NEW k \in 1..Len(stack), NEW l \in 1..Len(stack),
             t \in Needs(stack[k].target), t \in Needs(stack[l].target)
      PROVE  k = l
  <2>1. stack[k].target = stack[l].target
    BY <1>3, OnStack, Tree
  <2> QED BY <2>1 DEF Path
<1>4. ASSUME NEW p \in Places(t), NEW q \in Places(t)
      PROVE  p = q
  <2>1. PICK k \in 1..Len(stack) : \E i \in DOMAIN Queued(stack[k]) :
               p = <<k, i>> /\ Queued(stack[k])[i] = t
    BY <1>1
  <2>2. PICK l \in 1..Len(stack) : \E i \in DOMAIN Queued(stack[l]) :
               q = <<l, i>> /\ Queued(stack[l])[i] = t
    BY <1>1
  <2>3. k = l
    BY <1>2, <1>3, <2>1, <2>2
  <2> QED BY <1>2, <2>1, <2>2, <2>3 DEF IsInjective
<1>5. ASSUME NEW p \in Places(t)
      PROVE  futures[t] # {} /\ ~(pc = "scan" /\ t = task)
  <2>1. PICK k \in 1..Len(stack) : \E i \in DOMAIN Queued(stack[k]) :
               p = <<k, i>> /\ Queued(stack[k])[i] = t
    BY <1>1
  <2>2. t \in Needs(stack[k].target) /\ futures[t] # {} /\ t \notin Current(k)
    BY <1>2, <2>1
  <2>3. ASSUME pc = "scan", t = task PROVE FALSE
    <3>1. 1 \in 1..Len(stack) /\ t \in Needs(stack[1].target)
      BY <2>3, AtHand
    <3>2. k = 1
      BY <1>3, <2>2, <3>1
    <3> QED BY <2>2, <2>3, <3>2 DEF Current
  <2> QED BY <2>2, <2>3
<1> QED BY <1>4, <1>5

\* Until something fails, a task with futures left is in one place of one queue
\* or is the one that is resumed: wait_for neither loses one nor resumes one
\* twice in a round.
THEOREM TasksAreKept == Spec => []TasksKept
<1>1. ASSUME IInv PROVE TasksKept
  <2> SUFFICES ASSUME Going, NEW t \in Targets
               PROVE  IF (pc = "scan" /\ t = task) \/ futures[t] = {} THEN Places(t) = {}
                      ELSE \E p \in Places(t) : Places(t) = {p}
    BY DEF TasksKept, Going
  <2>1. /\ TypeOK /\ GoingWell
        /\ \A p, q \in Places(t) : p = q
        /\ Places(t) # {} => futures[t] # {} /\ ~(pc = "scan" /\ t = task)
    BY <1>1, OnePlace DEF IInv, GoingWell
  <2>2. CASE (pc = "scan" /\ t = task) \/ futures[t] = {}
    BY <2>1, <2>2
  <2>3. CASE ~((pc = "scan" /\ t = task) \/ futures[t] = {})
    <3>1. PICK k \in 1..Len(stack) : t \in Range(Queued(stack[k]))
      BY <2>1, <2>3 DEF GoingWell, Kept
    <3>2. PICK i \in DOMAIN Queued(stack[k]) : Queued(stack[k])[i] = t
      BY <3>1 DEF Range
    <3>3. <<k, i>> \in Places(t)
      BY <3>2 DEF Places
    <3> QED BY <2>1, <2>3, <3>3
  <2> QED BY <2>2, <2>3
<1> QED BY <1>1, Inductive, PTL
-----------------------------------------------------------------------------
(* The rules of a target                                                   *)

\* A string in two pieces.
LEMMA Pieces ==
  ASSUME NEW C, NEW s \in Seq(C), NEW i \in 0..Len(s)
  PROVE  /\ Upto(s, i) \in Seq(C) /\ Len(Upto(s, i)) = i
         /\ \A k \in 1..i : Upto(s, i)[k] = s[k]
         /\ Behind(s, i) \in Seq(C) /\ Len(Behind(s, i)) = Len(s) - i
         /\ \A k \in 1..(Len(s) - i) : Behind(s, i)[k] = s[i + k]
<1> DEFINE n == Len(s)
<1>1. n \in Nat /\ \A k \in 1..n : s[k] \in C
  OBVIOUS
<1>2. /\ Upto(s, i) \in Seq(C) /\ Len(Upto(s, i)) = IF 1 <= i THEN i - 1 + 1 ELSE 0
      /\ \A k \in 1..(i - 1 + 1) : Upto(s, i)[k] = s[1 + k - 1]
  <2>1. \A k \in 1..i : s[k] \in C
    BY <1>1
  <2> QED BY <2>1, SubSeqProperties DEF Upto
<1>3. /\ Behind(s, i) \in Seq(C) /\ Len(Behind(s, i)) = IF i + 1 <= n THEN n - (i + 1) + 1 ELSE 0
      /\ \A k \in 1..(n - (i + 1) + 1) : Behind(s, i)[k] = s[i + 1 + k - 1]
  <2>1. \A k \in (i + 1)..n : s[k] \in C
    BY <1>1
  <2> QED BY <1>1, <2>1, SubSeqProperties DEF Behind
<1>4. \A k \in 1..i : k \in 1..(i - 1 + 1) /\ 1 + k - 1 = k
  BY <1>1
<1>5. \A k \in 1..(n - i) : k \in 1..(n - (i + 1) + 1) /\ i + 1 + k - 1 = i + k
  BY <1>1
<1> HIDE DEF n
<1>6. (IF 1 <= i THEN i - 1 + 1 ELSE 0) = i /\ (IF i + 1 <= n THEN n - (i + 1) + 1 ELSE 0) = n - i
  BY <1>1 DEF n
<1> QED BY <1>2, <1>3, <1>4, <1>5, <1>6 DEF n

\* The first "%" of a string, or the end.
LEMMA StemIsFirst ==
  ASSUME NEW C, NEW s \in Seq(C)
  PROVE  /\ StemAt(s) \in 1..(Len(s) + 1)
         /\ StemAt(s) <= Len(s) => s[StemAt(s)] = Stem
         /\ \A j \in 1..(StemAt(s) - 1) : s[j] # Stem
<1> DEFINE n == Len(s)
           First(i) == (i <= n => s[i] = Stem) /\ \A j \in 1..(i - 1) : s[j] # Stem
           S == {m \in Nat : m <= n => \A j \in 1..m : s[j] # Stem}
<1>1. n \in Nat
  OBVIOUS
<1> HIDE DEF n
<1>2. \E i \in 1..(n + 1) : First(i)
  <2> SUFFICES ASSUME \A i \in 1..(n + 1) : ~First(i) PROVE FALSE
    OBVIOUS
  <2>1. ASSUME NEW m \in Nat, m \in S PROVE m + 1 \in S
    <3> SUFFICES ASSUME m + 1 <= n PROVE \A j \in 1..(m + 1) : s[j] # Stem
      OBVIOUS
    <3>1. m <= n /\ m + 1 \in 1..(n + 1) /\ (m + 1) - 1 = m
      BY <1>1
    <3>2. \A j \in 1..m : s[j] # Stem
      BY <2>1, <3>1
    <3>3. s[m + 1] # Stem
      BY <3>1, <3>2
    <3>4. \A j \in 1..(m + 1) : j \in 1..m \/ j = m + 1
      OBVIOUS
    <3> QED BY <3>2, <3>3, <3>4
  <2>2. n \in S
    <3>1. 0 \in S
      OBVIOUS
    <3> HIDE DEF S
    <3> QED BY <1>1, <2>1, <3>1, FromZeroOn
  <2>3. First(n + 1) /\ n + 1 \in 1..(n + 1)
    BY <1>1, <2>2
  <2> QED BY <2>3
<1>3. StemAt(s) = CHOOSE i \in 1..(n + 1) : First(i)
  BY DEF StemAt, n
<1>4. StemAt(s) \in 1..(n + 1) /\ First(StemAt(s))
  <2> HIDE DEF First
  <2> QED BY <1>2, <1>3
<1> QED BY <1>4 DEF n

\* Two strings one after the other, item by item.
LEMMA Both ==
  ASSUME NEW C, NEW a \in Seq(C), NEW b \in Seq(C)
  PROVE  /\ a \o b \in Seq(C) /\ Len(a \o b) = Len(a) + Len(b)
         /\ \A k \in 1..Len(a) : (a \o b)[k] = a[k]
         /\ \A k \in 1..Len(b) : (a \o b)[Len(a) + k] = b[k]
<1> DEFINE n == Len(a)
           m == Len(b)
           ab == a \o b
<1>1. n \in Nat /\ m \in Nat
  OBVIOUS
<1>2. /\ ab \in Seq(C) /\ Len(ab) = n + m
      /\ \A k \in 1..(n + m) : ab[k] = IF k <= n THEN a[k] ELSE b[k - n]
  BY ConcatProperties
<1> HIDE DEF n, m, ab
<1>3. ASSUME NEW k \in 1..n PROVE ab[k] = a[k]
  <2>1. k \in 1..(n + m) /\ k <= n
    BY <1>1, <1>3
  <2> QED BY <1>2, <2>1
<1>4. ASSUME NEW k \in 1..m PROVE ab[n + k] = b[k]
  <2> DEFINE j == n + k
  <2>1. j \in 1..(n + m) /\ ~(j <= n) /\ j - n = k
    BY <1>1, <1>4
  <2> HIDE DEF j
  <2>2. ab[j] = b[j - n]
    BY <1>2, <2>1
  <2> QED BY <2>1, <2>2 DEF j
<1> QED BY <1>2, <1>3, <1>4 DEF n, m, ab

\* A string that is the same as three pieces one after the other.
LEMMA ThreePieces ==
  ASSUME NEW C, NEW a \in Seq(C), NEW b \in Seq(C), NEW c \in Seq(C), NEW t \in Seq(C),
         Len(t) = Len(a) + Len(b) + Len(c),
         \A k \in 1..Len(a) : a[k] = t[k],
         \A k \in 1..Len(b) : b[k] = t[Len(a) + k],
         \A k \in 1..Len(c) : c[k] = t[Len(a) + Len(b) + k]
  PROVE  a \o b \o c = t
<1> DEFINE n == Len(a)
           m == Len(b)
           l == Len(c)
           ab == a \o b
           abc == ab \o c
<1>1. /\ ab \in Seq(C) /\ Len(ab) = n + m
      /\ \A k \in 1..n : ab[k] = a[k]
      /\ \A k \in 1..m : ab[n + k] = b[k]
  BY Both
<1> HIDE DEF ab
<1>2. /\ abc \in Seq(C) /\ Len(abc) = Len(ab) + l
      /\ \A k \in 1..Len(ab) : abc[k] = ab[k]
      /\ \A k \in 1..l : abc[Len(ab) + k] = c[k]
  <2>1. ab \in Seq(C)
    BY <1>1
  <2> QED BY <2>1, Both
<1>3. /\ n \in Nat /\ m \in Nat /\ l \in Nat /\ Len(t) = n + m + l
      /\ \A k \in 1..n : a[k] = t[k]
      /\ \A k \in 1..m : b[k] = t[n + k]
      /\ \A k \in 1..l : c[k] = t[n + m + k]
  OBVIOUS
<1> HIDE DEF abc, n, m, l
<1>4. ASSUME NEW k \in 1..Len(abc) PROVE abc[k] = t[k]
  <2>1. CASE k <= n
    <3>1. k \in 1..n /\ k \in 1..Len(ab)
      BY <1>1, <1>3, <1>4, <2>1
    <3> QED BY <1>1, <1>2, <1>3, <3>1
  <2>2. CASE n < k /\ k <= n + m
    <3> DEFINE j == k - n
    <3>1. j \in 1..m /\ k \in 1..Len(ab) /\ k = n + j
      BY <1>1, <1>3, <1>4, <2>2
    <3> HIDE DEF j
    <3> QED BY <1>1, <1>2, <1>3, <3>1
  <2>3. CASE n + m < k
    <3> DEFINE j == k - (n + m)
    <3>1. j \in 1..l /\ k = n + m + j
      BY <1>1, <1>2, <1>3, <1>4, <2>3
    <3> HIDE DEF j
    <3> QED BY <1>1, <1>2, <1>3, <3>1
  <2> QED BY <1>1, <1>3, <1>4, <2>1, <2>2, <2>3
<1>5. Len(abc) = Len(t)
  BY <1>1, <1>2, <1>3
<1>6. abc = t
  BY <1>2, <1>4, <1>5, SeqEqual, Zenon
<1> QED BY <1>6 DEF abc, ab

\* What a match is: the whole target, or a part of it between the two pieces of
\* the pattern.
LEMMA MatchIs ==
  ASSUME NEW C, NEW target \in Seq(C), NEW pattern \in Seq(C),
         MatchPattern(target, pattern) # << >>
  PROVE  LET sub == MatchPattern(target, pattern)
             i == StemAt(pattern)
             rest == Behind(target, i - 1)
             n == Len(target) - (i - 1) - (Len(pattern) - i)
         IN  \/ i > Len(pattern) /\ target = pattern /\ sub = target
             \/ /\ i <= Len(pattern) /\ n \in Nat \ {0} /\ n <= Len(rest) /\ i - 1 <= Len(target)
                /\ Upto(target, i - 1) = Upto(pattern, i - 1)
                /\ Behind(rest, n) = Behind(pattern, i)
                /\ sub = Upto(rest, n)
<1> DEFINE i == StemAt(pattern)
           front == Upto(pattern, i - 1)
           back == Behind(pattern, i)
           rest == Behind(target, i - 1)
           n == Len(target) - (i - 1) - (Len(pattern) - i)
           sub == MatchPattern(target, pattern)
<1>1. i \in 1..(Len(pattern) + 1) /\ Len(pattern) \in Nat /\ Len(target) \in Nat
  BY StemIsFirst
<1>2. sub = IF i > Len(pattern) THEN (IF target = pattern THEN target ELSE << >>)
            ELSE IF /\ Len(target) > Len(front) + Len(back)
                    /\ Upto(target, Len(front)) = front /\ Behind(rest, Len(rest) - Len(back)) = back
            THEN Upto(rest, Len(rest) - Len(back))
            ELSE << >>
  BY DEF MatchPattern
<1>3. CASE i > Len(pattern)
  <2>1. sub = IF target = pattern THEN target ELSE << >>
    BY <1>1, <1>2, <1>3
  <2> HIDE DEF sub, i
  <2>2. sub # << >>
    BY DEF sub
  <2> QED BY <1>3, <2>1, <2>2 DEF i, sub
<1>4. CASE i <= Len(pattern)
  <2>1. Len(front) = i - 1 /\ Len(back) = Len(pattern) - i
    <3>1. i - 1 \in 0..Len(pattern) /\ i \in 0..Len(pattern)
      BY <1>1, <1>4
    <3> HIDE DEF i
    <3> QED BY <3>1, Pieces
  <2> HIDE DEF i, front, back, rest, sub
  <2>2. ~(i > Len(pattern)) /\ sub # << >>
    BY <1>1, <1>4 DEF sub
  <2>3. /\ Len(target) > Len(front) + Len(back)
        /\ Upto(target, Len(front)) = front /\ Behind(rest, Len(rest) - Len(back)) = back
        /\ sub = Upto(rest, Len(rest) - Len(back))
    BY <1>2, <2>2
  <2>4. i - 1 \in 0..Len(target) /\ n \in Nat \ {0}
    BY <1>1, <1>4, <2>1, <2>3
  <2>5. Len(rest) = Len(target) - (i - 1)
    BY <2>4, Pieces DEF rest
  <2>6. Len(rest) - Len(back) = n /\ n <= Len(rest)
    BY <1>1, <1>4, <2>1, <2>4, <2>5
  <2>7. /\ Upto(target, i - 1) = front /\ Behind(rest, n) = back /\ sub = Upto(rest, n)
    BY <2>1, <2>3, <2>6
  <2> QED BY <1>4, <2>4, <2>6, <2>7 DEF i, front, back, rest, sub
<1> QED BY <1>1, <1>3, <1>4

\* What matches is a part of the target, and gives the target back when it is
\* put in the place of the stem.
LEMMA MatchGivesBack ==
  ASSUME NEW C, NEW target \in Seq(C), NEW pattern \in Seq(C),
         MatchPattern(target, pattern) # << >>
  PROVE  LET sub == MatchPattern(target, pattern)
         IN  /\ sub \in Seq(C) /\ Len(sub) <= Len(target) /\ Len(sub) > 0
             /\ \A k \in 1..Len(sub) : \E l \in 1..Len(target) : sub[k] = target[l]
             /\ Len(sub) # Len(target) => StemAt(pattern) <= Len(pattern)
             /\ Replace(pattern, sub) = target
<1> DEFINE i == StemAt(pattern)
           rest == Behind(target, i - 1)
           n == Len(target) - (i - 1) - (Len(pattern) - i)
           sub == MatchPattern(target, pattern)
<1>1. i \in 1..(Len(pattern) + 1) /\ Len(pattern) \in Nat /\ Len(target) \in Nat /\ sub # << >>
  BY StemIsFirst
<1>2. Replace(pattern, sub) = IF sub = << >> \/ i > Len(pattern) THEN pattern
                              ELSE Upto(pattern, i - 1) \o sub \o Behind(pattern, i)
  BY DEF Replace
<1>3. \/ i > Len(pattern) /\ target = pattern /\ sub = target
      \/ /\ i <= Len(pattern) /\ n \in Nat \ {0} /\ n <= Len(rest) /\ i - 1 <= Len(target)
         /\ Upto(target, i - 1) = Upto(pattern, i - 1)
         /\ Behind(rest, n) = Behind(pattern, i)
         /\ sub = Upto(rest, n)
  BY MatchIs
<1> HIDE DEF i, sub
<1>4. CASE i > Len(pattern)
  <2>1. target = pattern /\ sub = target /\ Replace(pattern, sub) = target
    BY <1>1, <1>2, <1>3, <1>4
  <2>2. Len(sub) > 0 /\ \A k \in 1..Len(sub) : sub[k] = target[k] /\ k \in 1..Len(target)
    BY <1>1, <2>1
  <2> QED BY <1>1, <1>4, <2>1, <2>2 DEF i, sub
<1>5. CASE i <= Len(pattern)
  <2> DEFINE m == Len(target)
             a == Upto(target, i - 1)
             c == Behind(rest, n)
  <2>1. /\ n \in Nat \ {0} /\ n <= Len(rest) /\ i - 1 \in 0..m /\ m \in Nat /\ i \in Nat
        /\ sub = Upto(rest, n) /\ Upto(pattern, i - 1) = a /\ Behind(pattern, i) = c
    <3> HIDE DEF n, rest
    <3>1. ~(i > Len(pattern))
      BY <1>1, <1>5
    <3> QED BY <1>1, <1>3, <3>1
  <2>0. Replace(pattern, sub) = a \o sub \o c
    <3> HIDE DEF a, c
    <3> QED BY <1>1, <1>2, <1>5, <2>1
  <2> HIDE DEF n
  <2>2. /\ a \in Seq(C) /\ Len(a) = i - 1 /\ \A k \in 1..(i - 1) : a[k] = target[k]
        /\ rest \in Seq(C) /\ Len(rest) = m - (i - 1)
        /\ \A k \in 1..(m - (i - 1)) : rest[k] = target[i - 1 + k]
    <3> DEFINE h == i - 1
    <3>1. h \in 0..Len(target)
      BY <2>1
    <3> HIDE DEF h
    <3>2. /\ Upto(target, h) \in Seq(C) /\ Len(Upto(target, h)) = h
          /\ \A k \in 1..h : Upto(target, h)[k] = target[k]
      BY <3>1, Pieces
    <3>3. /\ Behind(target, h) \in Seq(C) /\ Len(Behind(target, h)) = Len(target) - h
          /\ \A k \in 1..(Len(target) - h) : Behind(target, h)[k] = target[h + k]
      BY <3>1, Pieces
    <3> QED BY <3>2, <3>3 DEF h
  <2> HIDE DEF rest, a, m
  <2>3. n \in 0..Len(rest)
    BY <2>1, <2>2
  <2>4. /\ Upto(rest, n) \in Seq(C) /\ Len(Upto(rest, n)) = n /\ \A k \in 1..n : Upto(rest, n)[k] = rest[k]
        /\ c \in Seq(C) /\ Len(c) = Len(rest) - n /\ \A k \in 1..(Len(rest) - n) : c[k] = rest[n + k]
    <3>1. rest \in Seq(C)
      BY <2>2
    <3>2. /\ Upto(rest, n) \in Seq(C) /\ Len(Upto(rest, n)) = n
          /\ \A k \in 1..n : Upto(rest, n)[k] = rest[k]
      BY <2>3, <3>1, Pieces
    <3>3. /\ Behind(rest, n) \in Seq(C) /\ Len(Behind(rest, n)) = Len(rest) - n
          /\ \A k \in 1..(Len(rest) - n) : Behind(rest, n)[k] = rest[n + k]
      BY <2>3, <3>1, Pieces
    <3> QED BY <3>2, <3>3 DEF c
  <2> HIDE DEF c
  <2>5. sub \in Seq(C) /\ Len(sub) = n /\ \A k \in 1..n : sub[k] = rest[k]
    BY <2>1, <2>4
  <2>6. Len(c) = m - (i - 1) - n
    BY <2>2, <2>4
  <2>7. \A k \in 1..n : k \in 1..(m - (i - 1)) /\ i - 1 + k \in 1..m
    BY <2>1, <2>2
  <2>8. \A k \in 1..n : sub[k] = target[i - 1 + k]
    BY <2>2, <2>5, <2>7
  <2>9. ASSUME NEW k \in 1..Len(c) PROVE c[k] = target[i - 1 + n + k]
    <3>1. n + k \in 1..(m - (i - 1)) /\ i - 1 + (n + k) = i - 1 + n + k /\ k \in 1..(Len(rest) - n)
      <4> DEFINE l == Len(c)
                 o == Len(rest)
      <4>1. /\ n \in Nat /\ m \in Nat /\ i \in Nat /\ k \in 1..l
            /\ l = m - (i - 1) - n /\ o = m - (i - 1)
        BY <2>1, <2>2, <2>6, <2>9
      <4> HIDE DEF l, o
      <4>2. /\ n + k \in 1..(m - (i - 1)) /\ i - 1 + (n + k) = i - 1 + n + k
            /\ k \in 1..(o - n)
        BY <4>1
      <4> QED BY <4>2 DEF o
    <3>2. c[k] = rest[n + k]
      BY <2>4, <3>1
    <3>3. rest[n + k] = target[i - 1 + (n + k)]
      BY <2>2, <3>1
    <3> QED BY <3>1, <3>2, <3>3
  <2>10. Len(target) = i - 1 + n + Len(c)
    BY <2>1, <2>6 DEF m
  <2>11. a \o sub \o c = target
    <3>1. /\ Len(target) = Len(a) + Len(sub) + Len(c)
          /\ \A k \in 1..Len(a) : a[k] = target[k]
          /\ \A k \in 1..Len(sub) : sub[k] = target[Len(a) + k]
          /\ \A k \in 1..Len(c) : c[k] = target[Len(a) + Len(sub) + k]
      BY <2>2, <2>5, <2>8, <2>9, <2>10
    <3>2. a \in Seq(C) /\ sub \in Seq(C) /\ c \in Seq(C)
      BY <2>2, <2>4, <2>5
    <3> HIDE DEF a
    <3> QED BY <3>1, <3>2, ThreePieces
  <2>12. Len(sub) <= m /\ Len(sub) > 0
    BY <2>1, <2>2, <2>5
  <2> QED BY <1>5, <2>0, <2>1, <2>5, <2>7, <2>8, <2>11, <2>12 DEF i, sub, m
<1> QED BY <1>1, <1>4, <1>5

\* What is in two strings one after the other.
LEMMA BothRange ==
  ASSUME NEW C, NEW a \in Seq(C), NEW b \in Seq(C)
  PROVE  a \o b \in Seq(C) /\ Range(a \o b) = Range(a) \cup Range(b)
<1>1. a \o b \in Seq(C)
  BY Both
<1>2. Range(a \o b) = Range(a) \cup Range(b)
  BY RangeConcatenation
<1> QED BY <1>1, <1>2

\* The part of a target for the stem of a dependency: no stem is left.
LEMMA StemIsGone ==
  ASSUME NEW C, NEW dep \in Seq(C), NEW sub \in Seq(C), Len(sub) > 0,
         \A k \in 1..Len(sub) : sub[k] # Stem,
         \A k, l \in 1..Len(dep) : dep[k] = Stem /\ dep[l] = Stem => k = l
  PROVE  Replace(dep, sub) \in Seq(C) /\ Stem \notin Range(Replace(dep, sub))
<1> DEFINE i == StemAt(dep)
           a == Upto(dep, i - 1)
           c == Behind(dep, i)
           r == Replace(dep, sub)
<1>1. /\ i \in 1..(Len(dep) + 1) /\ Len(dep) \in Nat /\ sub # << >>
      /\ i <= Len(dep) => dep[i] = Stem
      /\ \A j \in 1..(i - 1) : dep[j] # Stem
  BY StemIsFirst
<1>2. r = IF sub = << >> \/ i > Len(dep) THEN dep ELSE a \o sub \o c
  BY DEF Replace
<1>3. CASE i > Len(dep)
  <2>1. r = dep /\ i - 1 = Len(dep)
    BY <1>1, <1>2, <1>3
  <2> HIDE DEF r, i
  <2>2. DOMAIN dep = 1..Len(dep)
    OBVIOUS
  <2> QED BY <1>1, <2>1, <2>2 DEF Range, r
<1>4. CASE i <= Len(dep)
  <2>1. i - 1 \in 0..Len(dep) /\ i \in 0..Len(dep) /\ dep[i] = Stem
    BY <1>1, <1>4
  <2> HIDE DEF i, r
  <2>2. /\ a \in Seq(C) /\ Len(a) = i - 1 /\ \A k \in 1..(i - 1) : a[k] = dep[k]
        /\ c \in Seq(C) /\ Len(c) = Len(dep) - i /\ \A k \in 1..(Len(dep) - i) : c[k] = dep[i + k]
    <3> DEFINE h == i - 1
    <3>1. h \in 0..Len(dep)
      BY <2>1
    <3> HIDE DEF h
    <3>2. /\ Upto(dep, h) \in Seq(C) /\ Len(Upto(dep, h)) = h
          /\ \A k \in 1..h : Upto(dep, h)[k] = dep[k]
      BY <3>1, Pieces
    <3>3. /\ Behind(dep, i) \in Seq(C) /\ Len(Behind(dep, i)) = Len(dep) - i
          /\ \A k \in 1..(Len(dep) - i) : Behind(dep, i)[k] = dep[i + k]
      BY <2>1, Pieces
    <3> QED BY <3>2, <3>3 DEF h
  <2> HIDE DEF a, c
  <2>3. \A k \in 1..Len(a) : a[k] # Stem
    BY <1>1, <2>2
  <2>4. ASSUME NEW k \in 1..Len(c) PROVE c[k] # Stem
    <3> DEFINE j == i + k
    <3>1. j \in 1..Len(dep) /\ i \in 1..Len(dep) /\ i # j /\ c[k] = dep[j]
      BY <1>1, <2>1, <2>2, <2>4
    <3> HIDE DEF j
    <3> QED BY <2>1, <3>1
  <2>5. Stem \notin Range(a) /\ Stem \notin Range(c) /\ Stem \notin Range(sub)
    <3>1. DOMAIN a = 1..Len(a) /\ DOMAIN c = 1..Len(c) /\ DOMAIN sub = 1..Len(sub)
      BY <2>2
    <3> QED BY <2>3, <2>4, <3>1 DEF Range
  <2>6. a \o sub \in Seq(C) /\ Range(a \o sub) = Range(a) \cup Range(sub)
    <3>1. a \in Seq(C) /\ sub \in Seq(C)
      BY <2>2
    <3> QED BY <3>1, BothRange, Zenon
  <2>7. a \o sub \o c \in Seq(C) /\ Range(a \o sub \o c) = Range(a \o sub) \cup Range(c)
    <3> DEFINE as == a \o sub
    <3>1. as \in Seq(C) /\ c \in Seq(C)
      BY <2>2, <2>6
    <3> HIDE DEF as
    <3>2. as \o c \in Seq(C) /\ Range(as \o c) = Range(as) \cup Range(c)
      BY <3>1, BothRange, Zenon
    <3> QED BY <3>2 DEF as
  <2>8. r = a \o sub \o c
    BY <1>1, <1>2, <1>4, <2>1
  <2> QED BY <2>5, <2>6, <2>7, <2>8 DEF r
<1> QED BY <1>1, <1>3, <1>4

\* What is in a sequence of sequences that is flattened is in one of them.
LEMMA FlattenedItems ==
  ASSUME NEW S, NEW ss \in Seq(Seq(S)), NEW x \in Range(FlattenSeq(ss))
  PROVE  \E i \in 1..Len(ss) : x \in Range(ss[i])
<1>1. CASE ss = << >>
  BY <1>1 DEF FlattenSeq, Range
<1>2. CASE ss # << >>
  <2> DEFINE n == Len(ss)
  <2>1. n \in Nat \ {0} /\ \A i \in 1..n : ss[i] \in Seq(S)
    BY <1>2
  <2>2. PICK f : /\ FlattenSeq(ss) = f[n]
                 /\ \A m \in 1..n : f[m] = IF m = 1 THEN ss[m] ELSE f[m - 1] \o ss[m]
    BY <1>2, FlattenSteps
  <2> DEFINE Good(m) == /\ f[m] \in Seq(S)
                        /\ \A y \in Range(f[m]) : \E i \in 1..m : y \in Range(ss[i])
             G == {m \in Nat : m \in 1..n => Good(m)}
  <2> HIDE DEF n
  <2>3. ASSUME NEW m \in Nat, m \in G, m + 1 \in 1..n PROVE Good(m + 1)
    <3>1. CASE m = 0
      <4>1. f[m + 1] = ss[1] /\ 1 \in 1..n
        BY <2>2, <2>3, <3>1
      <4> QED BY <2>1, <3>1, <4>1
    <3>2. CASE m # 0
      <4>1. m \in 1..n /\ m + 1 # 1 /\ (m + 1) - 1 = m
        BY <2>1, <2>3, <3>2
      <4>2. f[m + 1] = f[m] \o ss[m + 1] /\ ss[m + 1] \in Seq(S)
        BY <2>1, <2>2, <2>3, <4>1
      <4>3. Good(m)
        BY <2>3, <4>1
      <4>4. f[m + 1] \in Seq(S) /\ Range(f[m + 1]) = Range(f[m]) \cup Range(ss[m + 1])
        BY <4>2, <4>3, RangeConcatenation
      <4>5. m + 1 \in 1..(m + 1) /\ \A i \in 1..m : i \in 1..(m + 1)
        OBVIOUS
      <4> QED BY <4>3, <4>4, <4>5
    <3> QED BY <3>1, <3>2
  <2>4. n \in G
    <3> HIDE DEF Good
    <3>1. 0 \in G /\ \A m \in Nat : m \in G => m + 1 \in G
      BY <2>3
    <3> HIDE DEF G
    <3> QED BY <2>1, <3>1, FromZeroOn
  <2>5. Good(n)
    BY <2>1, <2>4
  <2> QED BY <2>2, <2>5 DEF n
<1> QED BY <1>1, <1>2

\* The rules a makefile may have, with strings over C.
RuleSet(C) == [target : Seq(C), deps : Seq(Seq(C)), body : BOOLEAN, cond : BOOLEAN]

Rank(target, rules, i) == Match(target, rules[i].target)
Bodies(target, rules) == {i \in 1..Len(rules) : Matched(target, rules, i) /\ rules[i].body}
Instances(target, rules) == {Instance(target, rules, i) : i \in 1..Len(rules)}

\* rlist has the first i rules that match but for the bodies that were replaced
\* by a better one, in their order; frule is the first of them with a body, and
\* the best.
RulesKept(target, rules, i, s) ==
  /\ \A k \in 1..Len(s.rlist) :
       /\ s.rlist[k].rule \in 1..i /\ Matched(target, rules, s.rlist[k].rule)
       /\ s.rlist[k] = Instance(target, rules, s.rlist[k].rule)
  /\ \A j \in 1..i : Matched(target, rules, j) /\ ~rules[j].body
       => \E k \in 1..Len(s.rlist) : s.rlist[k].rule = j
BestKept(target, rules, i, s) ==
  IF s.frule = 0 THEN \A j \in 1..i : Matched(target, rules, j) => ~rules[j].body
  ELSE LET best == s.rlist[s.frule].rule
       IN  /\ s.frule \in 1..Len(s.rlist) /\ rules[best].body
           /\ s.fnl = Rank(target, rules, best).fnl /\ s.subl = Rank(target, rules, best).subl
           /\ \A j \in 1..i : j \in Bodies(target, rules) => ~Better(s, Rank(target, rules, j))
           /\ \A k \in 1..(s.frule - 1) : ~rules[s.rlist[k].rule].body

\* What find_rules has found by the first i rules.
FoundOK(target, rules, i, s) ==
  /\ s \in [rlist : Seq(Instances(target, rules)), frule : Nat, stale : BOOLEAN, fnl : Nat, subl : Nat,
            error : {"none", "no_body", "redefined", "undefined"}]
  /\ s.error = "none" => RulesKept(target, rules, i, s) /\ BestKept(target, rules, i, s)
  /\ s.error = "redefined" => \E a, b \in Bodies(target, rules) :
       /\ a # b /\ Rank(target, rules, a).fnl = Rank(target, rules, b).fnl
       /\ Rank(target, rules, a).subl = Rank(target, rules, b).subl
  /\ s.error = "undefined" => \E a, b \in Bodies(target, rules) : a # b

\* A match is measured in numbers; what matches at all gives a part of the target.
LEMMA RankType ==
  ASSUME NEW C, NEW target \in Seq(C), NEW rules \in Seq(RuleSet(C)), NEW i \in 1..Len(rules)
  PROVE  LET m == Rank(target, rules, i)
         IN  /\ m.fnl \in Nat /\ m.subl \in Nat /\ m.sub = MatchPattern(target, rules[i].target)
             /\ Matched(target, rules, i) => m.sub # << >> /\ rules[i].cond
             /\ rules[i] \in RuleSet(C) /\ rules[i].target \in Seq(C) /\ rules[i].deps \in Seq(Seq(C))
<1> DEFINE m == Rank(target, rules, i)
           pattern == rules[i].target
           sub == MatchPattern(target, pattern)
           stem == StemAt(pattern)
<1>1. rules[i] \in RuleSet(C)
  OBVIOUS
<1>2. pattern \in Seq(C) /\ rules[i].deps \in Seq(Seq(C))
  BY <1>1 DEF RuleSet
<1>3. m = IF sub = << >> THEN [fnl |-> 0, subl |-> 0, sub |-> sub]
          ELSE IF Len(sub) = Len(target) THEN [fnl |-> Len(sub), subl |-> 0, sub |-> sub]
          ELSE [fnl |-> Len(pattern) - stem, subl |-> Len(sub), sub |-> sub]
  BY DEF Rank, Match
<1>4. Matched(target, rules, i) <=> rules[i].cond /\ m.fnl + m.subl > 0
  BY DEF Matched, Rank
<1>5. stem \in Nat /\ Len(pattern) \in Nat
  BY <1>2, StemIsFirst
<1>6. sub # << >> => /\ Len(sub) \in Nat
                     /\ Len(sub) # Len(target) => stem <= Len(pattern)
  <2> HIDE DEF pattern
  <2> QED BY <1>2, MatchGivesBack
<1> HIDE DEF m, pattern, sub, stem
<1>7. m.fnl \in Nat /\ m.subl \in Nat /\ m.sub = sub /\ (m.fnl + m.subl > 0 => sub # << >>)
  <2>1. CASE sub = << >>
    BY <1>3, <2>1
  <2>2. CASE sub # << >> /\ Len(sub) = Len(target)
    BY <1>3, <1>6, <2>2
  <2>3. CASE sub # << >> /\ Len(sub) # Len(target)
    <3>1. m = [fnl |-> Len(pattern) - stem, subl |-> Len(sub), sub |-> sub] /\ Len(pattern) - stem \in Nat
      BY <1>3, <1>5, <1>6, <2>3
    <3> QED BY <1>6, <2>3, <3>1
  <2> QED BY <2>1, <2>2, <2>3
<1> QED BY <1>1, <1>2, <1>4, <1>7 DEF m, pattern, sub

\* Of three the best is better than the worst.
LEMMA BetterStill ==
  ASSUME NEW a, NEW b, NEW c, a.fnl \in Nat, a.subl \in Nat, b.fnl \in Nat, b.subl \in Nat,
         c.fnl \in Nat, c.subl \in Nat
  PROVE  /\ Better(a, b) /\ Better(b, c) => Better(a, c)
         /\ ~Better(a, a)
         /\ a.fnl = b.fnl /\ a.subl = b.subl => ~Better(a, b)
BY DEF Better

\* A rule that matches is added to what was found, or takes the place of the
\* best, or ends the search.
LEMMA AddRuleKeeps ==
  ASSUME NEW C, NEW target \in Seq(C), NEW rules \in Seq(RuleSet(C)), NEW i \in 1..Len(rules),
         NEW s, FoundOK(target, rules, i - 1, s), s.error = "none", Matched(target, rules, i)
  PROVE  FoundOK(target, rules, i, AddRule(s, target, rules, i))
<1> DEFINE m == Rank(target, rules, i)
           new == Instance(target, rules, i)
           I == Instances(target, rules)
           B == Bodies(target, rules)
           n == Len(s.rlist)
           rl == Append(s.rlist, new)
           Errors == {"none", "no_body", "redefined", "undefined"}
           T == [rlist : Seq(I), frule : Nat, stale : BOOLEAN, fnl : Nat, subl : Nat, error : Errors]
           t == [s EXCEPT !.rlist = Append(@, new), !.stale = @ \/ (s.frule > 0 /\ Moves(Len(s.rlist)))]
           r == AddRule(s, target, rules, i)
<1>1. /\ s \in T /\ RulesKept(target, rules, i - 1, s) /\ BestKept(target, rules, i - 1, s)
      /\ n \in Nat /\ s.rlist \in Seq(I) /\ s.frule \in Nat /\ s.fnl \in Nat /\ s.subl \in Nat
  <2>1. s \in T /\ RulesKept(target, rules, i - 1, s) /\ BestKept(target, rules, i - 1, s)
    BY DEF FoundOK
  <2> QED BY <2>1
<1>2. /\ new \in I /\ new.rule = i /\ m.fnl \in Nat /\ m.subl \in Nat
      /\ rules[i].body \in BOOLEAN /\ (rules[i].body <=> i \in B) /\ B \subseteq 1..Len(rules)
  <2>1. new \in I /\ new.rule = i
    BY DEF Instances, Instance
  <2>2. rules[i] \in RuleSet(C) /\ m.fnl \in Nat /\ m.subl \in Nat
    BY RankType
  <2> QED BY <2>1, <2>2 DEF RuleSet, Bodies
<1>3. i \in Nat /\ i - 1 \in Nat /\ Len(rules) \in Nat /\ \A j \in 1..i : j \in 1..(i - 1) \/ j = i
  OBVIOUS
<1>4. r = IF ~rules[i].body THEN (IF m.fnl # Len(target) THEN [t EXCEPT !.error = "no_body"] ELSE t)
          ELSE IF s.frule = 0 THEN [t EXCEPT !.frule = Len(t.rlist), !.fnl = m.fnl, !.subl = m.subl]
          ELSE IF s.fnl = m.fnl /\ s.subl = m.subl THEN [t EXCEPT !.error = "redefined"]
          ELSE IF ~Better(s, m) THEN t
          ELSE IF t.stale THEN [t EXCEPT !.error = "undefined"]
          ELSE [s EXCEPT !.rlist[s.frule] = new, !.fnl = m.fnl, !.subl = m.subl]
  BY DEF AddRule, Rank
<1> HIDE DEF m, new, I, B, r
<1>5. /\ t \in T /\ t.rlist = rl /\ t.frule = s.frule /\ t.fnl = s.fnl /\ t.subl = s.subl
      /\ t.error = "none" /\ t.stale \in BOOLEAN
  <2>1. rl \in Seq(I)
    BY <1>1, <1>2
  <2> QED BY <1>1, <2>1
<1>6. /\ rl \in Seq(I) /\ Len(rl) = n + 1 /\ rl[n + 1] = new
      /\ \A k \in 1..n : rl[k] = s.rlist[k]
      /\ \A k \in 1..(n + 1) : k \in 1..n \/ k = n + 1
  <2>1. s.rlist \in Seq(I) /\ new \in I /\ n \in Nat
    BY <1>1, <1>2
  <2>2. /\ rl \in Seq(I) /\ Len(rl) = Len(s.rlist) + 1 /\ rl[Len(s.rlist) + 1] = new
        /\ \A k \in 1..Len(s.rlist) : rl[k] = s.rlist[k]
    BY <2>1, AppendProperties
  <2> QED BY <2>1, <2>2
<1> HIDE DEF t, rl
<1>7. /\ \A k \in 1..n : /\ s.rlist[k].rule \in 1..(i - 1) /\ Matched(target, rules, s.rlist[k].rule)
                         /\ s.rlist[k] = Instance(target, rules, s.rlist[k].rule)
      /\ \A j \in 1..(i - 1) : Matched(target, rules, j) /\ ~rules[j].body
           => \E k \in 1..n : s.rlist[k].rule = j
  BY <1>1 DEF RulesKept
<1> HIDE DEF n
<1>8. \A u : u.rlist = rl => RulesKept(target, rules, i, u)
  <2> SUFFICES ASSUME NEW u, u.rlist = rl PROVE RulesKept(target, rules, i, u)
    OBVIOUS
  <2>1. ASSUME NEW k \in 1..Len(rl)
        PROVE  /\ rl[k].rule \in 1..i /\ Matched(target, rules, rl[k].rule)
               /\ rl[k] = Instance(target, rules, rl[k].rule)
    <3>1. CASE k \in 1..n
      BY <1>3, <1>6, <1>7, <3>1
    <3>2. CASE k = n + 1
      BY <1>2, <1>3, <1>6, <3>2 DEF new
    <3> QED BY <1>6, <2>1, <3>1, <3>2
  <2>2. ASSUME NEW j \in 1..i, Matched(target, rules, j), ~rules[j].body
        PROVE  \E k \in 1..Len(rl) : rl[k].rule = j
    <3>1. CASE j = i
      <4>1. n + 1 \in 1..Len(rl) /\ rl[n + 1].rule = j
        BY <1>1, <1>2, <1>6, <3>1 DEF n
      <4> QED BY <4>1
    <3>2. CASE j \in 1..(i - 1)
      <4>1. PICK k \in 1..n : s.rlist[k].rule = j
        BY <1>7, <2>2, <3>2
      <4>2. k \in 1..Len(rl) /\ rl[k].rule = j
        BY <1>1, <1>6, <4>1 DEF n
      <4> QED BY <4>2
    <3> QED BY <1>3, <3>1, <3>2
  <2> QED BY <2>1, <2>2 DEF RulesKept
\* What is added in front of nothing better leaves the best the best.
<1>9. ASSUME rules[i].body => s.frule # 0 /\ ~Better(s, m) PROVE BestKept(target, rules, i, t)
  <2>1. CASE s.frule = 0
    <3>1. \A j \in 1..(i - 1) : Matched(target, rules, j) => ~rules[j].body
      BY <1>1, <2>1 DEF BestKept
    <3>2. \A j \in 1..i : Matched(target, rules, j) => ~rules[j].body
      BY <1>3, <1>9, <2>1, <3>1
    <3> QED BY <1>5, <2>1, <3>2 DEF BestKept
  <2>2. CASE s.frule # 0
    <3> DEFINE best == s.rlist[s.frule].rule
    <3>1. /\ s.frule \in 1..n /\ rules[best].body
          /\ s.fnl = Rank(target, rules, best).fnl /\ s.subl = Rank(target, rules, best).subl
          /\ \A j \in 1..(i - 1) : j \in B => ~Better(s, Rank(target, rules, j))
          /\ \A k \in 1..(s.frule - 1) : ~rules[s.rlist[k].rule].body
      BY <1>1, <2>2 DEF BestKept, B, n
    <3>2. /\ rl[s.frule].rule = best /\ s.frule \in 1..Len(rl) /\ n \in Nat
          /\ \A k \in 1..(s.frule - 1) : rl[k] = s.rlist[k]
      <4>1. n \in Nat /\ Len(rl) = n + 1 /\ s.frule \in 1..n
        BY <1>1, <1>6, <3>1
      <4>2. s.frule \in 1..Len(rl) /\ \A k \in 1..(s.frule - 1) : k \in 1..n
        BY <4>1
      <4> QED BY <1>6, <4>1, <4>2
    <3>3. \A j \in 1..i : j \in B => ~Better(s, Rank(target, rules, j))
      BY <1>2, <1>3, <1>9, <3>1 DEF m
    <3>4. \A j : Better(t, Rank(target, rules, j)) <=> Better(s, Rank(target, rules, j))
      BY <1>5 DEF Better
    <3>5. rules[rl[s.frule].rule].body /\ \A k \in 1..(s.frule - 1) : ~rules[rl[k].rule].body
      BY <3>1, <3>2
    <3>6. t.frule # 0 /\ t.frule \in 1..Len(t.rlist) /\ t.rlist[t.frule].rule = best
      BY <1>5, <2>2, <3>2
    <3>7. t.fnl = Rank(target, rules, best).fnl /\ t.subl = Rank(target, rules, best).subl
      BY <1>5, <3>1
    <3>8. /\ \A j \in 1..i : j \in Bodies(target, rules) => ~Better(t, Rank(target, rules, j))
          /\ rules[best].body /\ \A k \in 1..(t.frule - 1) : ~rules[t.rlist[k].rule].body
      BY <1>5, <3>1, <3>3, <3>4, <3>5 DEF B
    <3> HIDE DEF best
    <3> QED BY <3>6, <3>7, <3>8 DEF BestKept
  <2> QED BY <2>1, <2>2
<1>10. \A e \in Errors : /\ [t EXCEPT !.error = e] \in T /\ [t EXCEPT !.error = e].error = e
  BY <1>5
<1>11. CASE ~rules[i].body
  <2>1. r = [t EXCEPT !.error = "no_body"] \/ r = t
    BY <1>4, <1>11
  <2>2. RulesKept(target, rules, i, t) /\ BestKept(target, rules, i, t)
    BY <1>5, <1>8, <1>9, <1>11
  <2> QED BY <1>5, <1>10, <2>1, <2>2 DEF FoundOK, I, r
<1>12. CASE rules[i].body /\ s.frule = 0
  <2>1. r = [t EXCEPT !.frule = Len(t.rlist), !.fnl = m.fnl, !.subl = m.subl]
    BY <1>4, <1>12
  <2>2. /\ r \in T /\ r.rlist = rl /\ r.frule = n + 1 /\ r.fnl = m.fnl /\ r.subl = m.subl /\ r.error = "none"
    <3>1. Len(t.rlist) = n + 1 /\ n + 1 \in Nat
      BY <1>1, <1>5, <1>6 DEF n
    <3> QED BY <1>2, <1>5, <2>1, <3>1
  <2>3. \A j \in 1..(i - 1) : Matched(target, rules, j) => ~rules[j].body
    BY <1>1, <1>12 DEF BestKept
  <2>4. \A j \in 1..i : j \in B => ~Better(r, Rank(target, rules, j))
    <3>1. ~Better(r, m)
      BY <1>2, <2>2 DEF Better
    <3> QED BY <1>3, <2>3, <3>1 DEF B, Bodies, m
  <2>5. \A k \in 1..n : ~rules[rl[k].rule].body
    BY <1>6, <1>7, <2>3
  <2>6. rl[n + 1].rule = i /\ n + 1 \in 1..Len(rl) /\ n + 1 # 0 /\ (n + 1) - 1 = n
    BY <1>1, <1>2, <1>6 DEF n
  <2>7. BestKept(target, rules, i, r)
    BY <1>12, <2>2, <2>4, <2>5, <2>6 DEF BestKept, B, m
  <2> QED BY <1>8, <2>2, <2>7 DEF FoundOK, I, r
<1>13. CASE rules[i].body /\ s.frule # 0
  <2> DEFINE best == s.rlist[s.frule].rule
  <2>1. /\ s.frule \in 1..n /\ rules[best].body
        /\ s.fnl = Rank(target, rules, best).fnl /\ s.subl = Rank(target, rules, best).subl
        /\ \A j \in 1..(i - 1) : j \in B => ~Better(s, Rank(target, rules, j))
        /\ \A k \in 1..(s.frule - 1) : ~rules[s.rlist[k].rule].body
    BY <1>1, <1>13 DEF BestKept, B, n
  <2>2. best \in B /\ best # i /\ i \in B
    <3>1. best \in 1..(i - 1) /\ Matched(target, rules, best) /\ rules[best].body /\ i \in B
      BY <1>2, <1>7, <1>13, <2>1
    <3>2. best # i /\ best \in 1..Len(rules)
      BY <1>3, <3>1
    <3> QED BY <3>1, <3>2 DEF B, Bodies
  <2> HIDE DEF best
  <2>3. CASE s.fnl = m.fnl /\ s.subl = m.subl
    <3>1. r = [t EXCEPT !.error = "redefined"]
      BY <1>4, <1>13, <2>3
    <3>2. \E a, b \in B : /\ a # b /\ Rank(target, rules, a).fnl = Rank(target, rules, b).fnl
                          /\ Rank(target, rules, a).subl = Rank(target, rules, b).subl
      BY <2>1, <2>2, <2>3 DEF m
    <3> QED BY <1>10, <3>1, <3>2 DEF FoundOK, I, B, r
  <2>4. CASE ~(s.fnl = m.fnl /\ s.subl = m.subl) /\ ~Better(s, m)
    <3>1. r = t
      BY <1>4, <1>13, <2>4
    <3>2. RulesKept(target, rules, i, t) /\ BestKept(target, rules, i, t)
      BY <1>5, <1>8, <1>9, <1>13, <2>4
    <3> QED BY <1>5, <3>1, <3>2 DEF FoundOK, I, r
  <2>5. CASE ~(s.fnl = m.fnl /\ s.subl = m.subl) /\ Better(s, m) /\ t.stale
    <3>1. r = [t EXCEPT !.error = "undefined"]
      BY <1>4, <1>13, <2>5
    <3>2. \E a, b \in B : a # b
      BY <2>2
    <3> QED BY <1>10, <3>1, <3>2 DEF FoundOK, I, B, r
  <2>6. CASE ~(s.fnl = m.fnl /\ s.subl = m.subl) /\ Better(s, m) /\ ~t.stale
    <3> DEFINE q == [s.rlist EXCEPT ![s.frule] = new]
    <3>1. r = [s EXCEPT !.rlist[s.frule] = new, !.fnl = m.fnl, !.subl = m.subl]
      BY <1>4, <1>13, <2>6
    <3>2. /\ q \in Seq(I) /\ Len(q) = n /\ q[s.frule] = new
          /\ \A k \in 1..n : k # s.frule => q[k] = s.rlist[k]
      BY <1>1, <1>2, <2>1, ExceptSeq DEF n
    <3> HIDE DEF q
    <3>3. /\ r \in T /\ r.rlist = q /\ r.frule = s.frule /\ r.fnl = m.fnl /\ r.subl = m.subl /\ r.error = "none"
      BY <1>1, <1>2, <3>1, <3>2 DEF q
    <3>4. RulesKept(target, rules, i, r)
      <4>1. ASSUME NEW k \in 1..Len(q)
            PROVE  /\ q[k].rule \in 1..i /\ Matched(target, rules, q[k].rule)
                   /\ q[k] = Instance(target, rules, q[k].rule)
        <5>1. CASE k = s.frule
          BY <1>2, <1>3, <3>2, <5>1 DEF new
        <5>2. CASE k # s.frule
          <6>1. q[k] = s.rlist[k] /\ k \in 1..n
            BY <3>2, <4>1, <5>2
          <6> QED BY <1>3, <1>7, <6>1
        <5> QED BY <5>1, <5>2
      <4>2. ASSUME NEW j \in 1..i, Matched(target, rules, j), ~rules[j].body
            PROVE  \E k \in 1..Len(q) : q[k].rule = j
        <5>1. j \in 1..(i - 1)
          BY <1>3, <1>13, <4>2
        <5>2. PICK k \in 1..n : s.rlist[k].rule = j
          BY <1>7, <4>2, <5>1
        <5>3. k # s.frule
          BY <2>1, <4>2, <5>2 DEF best
        <5> QED BY <3>2, <5>2, <5>3
      <4> QED BY <3>3, <4>1, <4>2 DEF RulesKept
    <3>5. \A j \in 1..i : j \in B => ~Better(r, Rank(target, rules, j))
      <4> SUFFICES ASSUME NEW j \in 1..i, j \in B PROVE ~Better(r, Rank(target, rules, j))
        OBVIOUS
      <4>1. CASE j = i
        BY <1>2, <3>3, <4>1 DEF Better, m
      <4>2. CASE j \in 1..(i - 1)
        <5>1. Rank(target, rules, j).fnl \in Nat /\ Rank(target, rules, j).subl \in Nat
          BY <1>2, RankType
        <5>2. ~Better(s, Rank(target, rules, j))
          BY <2>1, <4>2
        <5>3. Better(r, Rank(target, rules, j)) => Better(m, Rank(target, rules, j))
          BY <3>3 DEF Better
        <5> QED BY <1>1, <1>2, <2>6, <5>1, <5>2, <5>3, BetterStill
      <4> QED BY <1>3, <4>1, <4>2
    <3>6. \A k \in 1..(s.frule - 1) : ~rules[q[k].rule].body
      <4>1. \A k \in 1..(s.frule - 1) : k \in 1..n /\ k # s.frule
        BY <1>1, <2>1 DEF n
      <4> QED BY <2>1, <3>2, <4>1
    <3>7. q[s.frule].rule = i /\ s.frule \in 1..Len(q)
      BY <1>2, <2>1, <3>2
    <3>8. BestKept(target, rules, i, r)
      BY <1>13, <3>3, <3>5, <3>6, <3>7 DEF BestKept, B, m
    <3> QED BY <3>3, <3>4, <3>8 DEF FoundOK, I, r
  <2> QED BY <1>5, <2>3, <2>4, <2>5, <2>6
<1> QED BY <1>2, <1>11, <1>12, <1>13 DEF r

\* find_rules comes to what it has found by all rules.
LEMMA FindRulesFinds ==
  ASSUME NEW C, NEW target \in Seq(C), NEW rules \in Seq(RuleSet(C))
  PROVE  FoundOK(target, rules, Len(rules), FindRules(target, rules))
<1> DEFINE n == Len(rules)
           Next1(s, i) == IF s.error # "none" \/ ~Matched(target, rules, i) THEN s
                          ELSE AddRule(s, target, rules, i)
           Def(f, m) == f = [i \in 0..m |-> IF i = 0 THEN NoRules ELSE Next1(f[i - 1], i)]
           found == CHOOSE f : Def(f, n)
<1>1. n \in Nat
  OBVIOUS
<1>2. FindRules(target, rules) = found[n]
  BY DEF FindRules
<1> HIDE DEF n, Next1
<1>3. \E f : Def(f, n)
  <2> DEFINE D == {m \in Nat : \E f : Def(f, m)}
  <2>1. 0 \in D
    <3> DEFINE h == [i \in 0..0 |-> NoRules]
    <3>1. \A i \in 0..0 : i = 0
      OBVIOUS
    <3>2. Def(h, 0)
      BY <3>1
    <3> QED BY <3>2
  <2>2. ASSUME NEW m \in Nat, m \in D PROVE m + 1 \in D
    <3>1. PICK f : Def(f, m)
      BY <2>2
    <3>2. \A i \in 0..m : f[i] = IF i = 0 THEN NoRules ELSE Next1(f[i - 1], i)
      BY <3>1
    <3> DEFINE h == [i \in 0..(m + 1) |-> IF i = m + 1 THEN Next1(f[m], i) ELSE f[i]]
    <3>3. /\ h = [i \in 0..(m + 1) |-> h[i]] /\ \A i \in 0..m : h[i] = f[i]
          /\ h[m + 1] = Next1(f[m], m + 1)
      <4>1. m + 1 \in 0..(m + 1) /\ \A i \in 0..m : i \in 0..(m + 1) /\ i # m + 1
        OBVIOUS
      <4> QED BY <4>1, Zenon
    <3> HIDE DEF h
    <3>4. ASSUME NEW i \in 0..(m + 1) PROVE h[i] = IF i = 0 THEN NoRules ELSE Next1(h[i - 1], i)
      <4>1. CASE i = m + 1
        <5>1. i # 0 /\ i - 1 = m /\ m \in 0..m
          BY <4>1
        <5> QED BY <3>3, <4>1, <5>1
      <4>2. CASE i # m + 1
        <5>1. i \in 0..m /\ (i # 0 => i - 1 \in 0..m)
          BY <3>4, <4>2
        <5> QED BY <3>2, <3>3, <5>1
      <4> QED BY <4>1, <4>2
    <3>5. Def(h, m + 1)
      BY <3>3, <3>4
    <3> HIDE DEF Def
    <3> QED BY <3>5
  <2>3. n \in D
    <3> HIDE DEF D
    <3> QED BY <1>1, <2>1, <2>2, FromZeroOn
  <2> HIDE DEF Def
  <2> QED BY <2>3
<1>4. Def(found, n)
  <2> HIDE DEF Def
  <2> QED BY <1>3
<1>5. \A i \in 0..n : found[i] = IF i = 0 THEN NoRules ELSE Next1(found[i - 1], i)
  BY <1>4
<1> HIDE DEF found
<1> DEFINE G == {i \in Nat : i \in 0..n => FoundOK(target, rules, i, found[i])}
<1>6. 0 \in G
  <2>1. found[0] = NoRules
    BY <1>1, <1>5
  <2>2. << >> \in Seq(Instances(target, rules)) /\ Len(<< >>) = 0
    OBVIOUS
  <2>3. FoundOK(target, rules, 0, NoRules)
    BY <2>2 DEF FoundOK, NoRules, RulesKept, BestKept
  <2> QED BY <2>1, <2>3
<1>7. ASSUME NEW i \in Nat, i \in G PROVE i + 1 \in G
  <2> SUFFICES ASSUME i + 1 \in 0..n PROVE FoundOK(target, rules, i + 1, found[i + 1])
    OBVIOUS
  <2> DEFINE j == i + 1
             s == found[i]
  <2>1. j \in 1..Len(rules) /\ j \in 0..n /\ j # 0 /\ j - 1 = i /\ i \in 0..n
    BY <1>1 DEF n
  <2>2. FoundOK(target, rules, j - 1, s) /\ found[j] = Next1(s, j)
    BY <1>5, <1>7, <2>1
  <2> HIDE DEF j, s
  <2>3. CASE s.error # "none"
    <3>1. found[j] = s
      BY <2>2, <2>3 DEF Next1
    <3> QED BY <2>2, <2>3, <3>1 DEF FoundOK, j
  <2>4. CASE s.error = "none" /\ ~Matched(target, rules, j)
    <3>1. found[j] = s
      BY <2>2, <2>4 DEF Next1
    <3>2. \A k \in 1..j : k \in 1..(j - 1) \/ k = j
      BY <2>1
    <3>3. \A k \in 1..(j - 1) : k \in 1..j
      BY <2>1
    <3>4. RulesKept(target, rules, j - 1, s) /\ BestKept(target, rules, j - 1, s)
      BY <2>2, <2>4 DEF FoundOK
    <3>5. RulesKept(target, rules, j, s)
      BY <2>4, <3>2, <3>3, <3>4 DEF RulesKept
    <3>6. BestKept(target, rules, j, s)
      BY <2>4, <3>2, <3>4 DEF BestKept, Bodies
    <3> QED BY <2>2, <3>1, <3>5, <3>6 DEF FoundOK, j
  <2>5. CASE s.error = "none" /\ Matched(target, rules, j)
    <3>1. found[j] = AddRule(s, target, rules, j)
      BY <2>2, <2>5 DEF Next1
    <3> QED BY <2>1, <2>2, <2>5, <3>1, AddRuleKeeps DEF j
  <2> QED BY <2>3, <2>4, <2>5
<1>8. n \in G
  <2> HIDE DEF G
  <2> QED BY <1>1, <1>6, <1>7, FromZeroOn
<1> QED BY <1>1, <1>2, <1>8 DEF n

\* What find_rules finds is what is said of it (make::find_rules, make_pattern).
LEMMA BestRuleIsFound ==
  ASSUME NEW C, NEW target \in Seq(C), NEW rules \in Seq(RuleSet(C))
  PROVE  FindsTheBestRule(target, rules)
<1> DEFINE n == Len(rules)
           matched == {i \in DOMAIN rules : Matched(target, rules, i)}
           bodies == {i \in matched : rules[i].body}
           rank(i) == Match(target, rules[i].target)
           best == {i \in bodies : \A j \in bodies : ~Better(rank(i), rank(j))}
           keeps(kept) == matched \ bodies \subseteq kept /\ kept \subseteq matched
           f == FindRules(target, rules)
<1>1. /\ n \in Nat /\ DOMAIN rules = 1..n /\ bodies = Bodies(target, rules) /\ FoundOK(target, rules, n, f)
      /\ \A i : rank(i) = Rank(target, rules, i)
  BY FindRulesFinds DEF Bodies, Rank
<1> HIDE DEF n, f
<1>2. ASSUME NEW i \in matched PROVE Replace(rules[i].target, rank(i).sub) = target
  <2>1. i \in 1..Len(rules) /\ Matched(target, rules, i)
    BY <1>1 DEF n
  <2>2. /\ rules[i].target \in Seq(C) /\ rank(i).sub = MatchPattern(target, rules[i].target)
        /\ rank(i).sub # << >>
    BY <2>1, RankType DEF Rank
  <2> HIDE DEF rank
  <2> QED BY <2>2, MatchGivesBack
<1>3. ASSUME f.error = "none" PROVE keeps({f.rlist[k].rule : k \in DOMAIN f.rlist})
  <2>1. DOMAIN f.rlist = 1..Len(f.rlist) /\ RulesKept(target, rules, n, f)
    BY <1>1, <1>3 DEF FoundOK
  <2>2. ASSUME NEW k \in DOMAIN f.rlist PROVE f.rlist[k].rule \in matched
    <3>1. f.rlist[k].rule \in 1..n /\ Matched(target, rules, f.rlist[k].rule)
      BY <2>1, <2>2 DEF RulesKept
    <3> QED BY <1>1, <3>1
  <2>3. ASSUME NEW i \in matched \ bodies PROVE \E k \in DOMAIN f.rlist : f.rlist[k].rule = i
    <3>1. i \in 1..n /\ Matched(target, rules, i) /\ ~rules[i].body
      BY <1>1, <2>3
    <3> QED BY <2>1, <3>1 DEF RulesKept
  <2> QED BY <2>2, <2>3
<1>4. ASSUME f.error = "none" PROVE Chosen(f.rlist, rules) \in (IF bodies = {} THEN {0} ELSE best)
  <2> DEFINE with == {k \in DOMAIN f.rlist : rules[f.rlist[k].rule].body}
             Least(k) == \A l \in with : k <= l
             b == f.rlist[f.frule].rule
  <2>1. /\ DOMAIN f.rlist = 1..Len(f.rlist) /\ f.frule \in Nat /\ Len(f.rlist) \in Nat
        /\ RulesKept(target, rules, n, f) /\ BestKept(target, rules, n, f)
    BY <1>1, <1>4 DEF FoundOK
  <2>2. Chosen(f.rlist, rules) = IF with = {} THEN 0
                                 ELSE f.rlist[CHOOSE k \in with : Least(k)].rule
    BY DEF Chosen
  <2>3. CASE f.frule = 0
    <3>1. \A j \in 1..n : Matched(target, rules, j) => ~rules[j].body
      BY <2>1, <2>3 DEF BestKept
    <3>2. bodies = {} /\ with = {}
      BY <1>1, <2>1, <3>1 DEF RulesKept
    <3> QED BY <2>2, <3>2
  <2>4. CASE f.frule # 0
    <3>1. /\ f.frule \in 1..Len(f.rlist) /\ rules[b].body
          /\ f.fnl = Rank(target, rules, b).fnl /\ f.subl = Rank(target, rules, b).subl
          /\ \A j \in 1..n : j \in Bodies(target, rules) => ~Better(f, Rank(target, rules, j))
          /\ \A k \in 1..(f.frule - 1) : ~rules[f.rlist[k].rule].body
      BY <2>1, <2>4 DEF BestKept
    <3>2. f.frule \in with /\ Least(f.frule)
      <4>1. f.frule \in with
        BY <2>1, <3>1
      <4>2. ASSUME NEW l \in with PROVE f.frule <= l
        <5>1. l \in 1..Len(f.rlist) /\ (l < f.frule => l \in 1..(f.frule - 1))
          BY <2>1, <4>2
        <5> QED BY <2>1, <3>1, <4>2, <5>1
      <4> QED BY <4>1, <4>2
    <3>3. \A k \in with : Least(k) => k = f.frule
      BY <2>1, <3>2
    <3> HIDE DEF with, Least, b
    <3>4. (CHOOSE k \in with : Least(k)) = f.frule
      BY <3>2, <3>3
    <3>5. Chosen(f.rlist, rules) = b
      BY <2>2, <3>2, <3>4 DEF b
    <3>6. b \in bodies
      BY <1>1, <2>1, <3>1 DEF RulesKept, b
    <3>7. ASSUME NEW j \in bodies PROVE ~Better(rank(b), rank(j))
      <4>1. j \in 1..n /\ ~Better(f, Rank(target, rules, j))
        BY <1>1, <3>1, <3>7
      <4> QED BY <1>1, <3>1, <4>1 DEF Better
    <3> QED BY <3>5, <3>6, <3>7
  <2> QED BY <2>3, <2>4
<1>5. ASSUME f.error = "none", Stem \notin Range(target), \A i \in matched : OneStem(rules[i].deps),
             NEW dep \in Range(Dependencies(f.rlist))
      PROVE  Stem \notin Range(dep)
  <2> DEFINE ss == [k \in DOMAIN f.rlist |-> f.rlist[k].deps]
  <2>1. DOMAIN f.rlist = 1..Len(f.rlist) /\ Len(f.rlist) \in Nat /\ RulesKept(target, rules, n, f)
    BY <1>1, <1>5 DEF FoundOK
  <2>2. ASSUME NEW k \in 1..Len(f.rlist)
        PROVE  /\ f.rlist[k].deps \in Seq(Seq(C))
               /\ \A d \in Range(f.rlist[k].deps) : Stem \notin Range(d)
    <3> DEFINE i == f.rlist[k].rule
               deps == rules[i].deps
               sub == Rank(target, rules, i).sub
    <3>1. i \in 1..n /\ Matched(target, rules, i) /\ f.rlist[k] = Instance(target, rules, i)
      BY <2>1, <2>2 DEF RulesKept
    <3>2. i \in matched /\ i \in 1..Len(rules)
      BY <1>1, <3>1 DEF n
    <3> HIDE DEF i
    <3>3. f.rlist[k].deps = [l \in DOMAIN deps |-> Replace(deps[l], sub)]
      BY <3>1 DEF Instance, Rank
    <3>4. /\ sub # << >> /\ sub = MatchPattern(target, rules[i].target)
          /\ rules[i].target \in Seq(C) /\ deps \in Seq(Seq(C)) /\ OneStem(deps)
      BY <1>5, <3>1, <3>2, RankType
    <3> HIDE DEF sub, deps
    <3>5. /\ sub \in Seq(C) /\ Len(sub) > 0
          /\ \A j \in 1..Len(sub) : \E l \in 1..Len(target) : sub[j] = target[l]
      BY <3>4, MatchGivesBack
    <3>6. \A j \in 1..Len(sub) : sub[j] # Stem
      BY <1>5, <3>5 DEF Range
    <3>7. ASSUME NEW l \in 1..Len(deps)
          PROVE  Replace(deps[l], sub) \in Seq(C) /\ Stem \notin Range(Replace(deps[l], sub))
      <4>1. deps[l] \in Seq(C) /\ DOMAIN deps[l] = 1..Len(deps[l]) /\ l \in DOMAIN deps
        BY <3>4, <3>7
      <4>2. \A a, b \in 1..Len(deps[l]) : deps[l][a] = Stem /\ deps[l][b] = Stem => a = b
        BY <3>4, <4>1 DEF OneStem
      <4> QED BY <3>5, <3>6, <4>1, <4>2, StemIsGone
    <3>8. Len(deps) \in Nat /\ DOMAIN deps = 1..Len(deps)
      BY <3>4
    <3>9. f.rlist[k].deps \in Seq(Seq(C))
      BY <3>3, <3>7, <3>8
    <3>10. \A d \in Range(f.rlist[k].deps) : Stem \notin Range(d)
      BY <3>3, <3>7, <3>8 DEF Range
    <3> QED BY <3>9, <3>10
  <2>3. ss \in Seq(Seq(Seq(C))) /\ Len(ss) = Len(f.rlist) /\ \A k \in 1..Len(ss) : ss[k] = f.rlist[k].deps
    <3>1. ss = [k \in 1..Len(f.rlist) |-> f.rlist[k].deps]
      BY <2>1
    <3> HIDE DEF ss
    <3>2. ss \in Seq(Seq(Seq(C)))
      <4> DEFINE S == Seq(Seq(C))
                 m == Len(f.rlist)
      <4>1. m \in Nat /\ ss \in [1..m -> S]
        BY <2>1, <2>2, <3>1
      <4> HIDE DEF S, m
      <4>2. ss \in Seq(S)
        BY <4>1
      <4> QED BY <4>2 DEF S
    <3> QED BY <2>1, <3>1, <3>2
  <2>4. Dependencies(f.rlist) = FlattenSeq(ss)
    BY DEF Dependencies
  <2> HIDE DEF ss
  <2>5. PICK k \in 1..Len(ss) : dep \in Range(ss[k])
    BY <1>5, <2>3, <2>4, FlattenedItems
  <2> QED BY <2>2, <2>3, <2>5
<1>6. ASSUME f.error = "redefined"
      PROVE  \E i, j \in bodies : i # j /\ rank(i).fnl = rank(j).fnl /\ rank(i).subl = rank(j).subl
  BY <1>1, <1>6 DEF FoundOK
<1>7. ASSUME f.error = "undefined" PROVE Cardinality(bodies) > 1
  <2>1. PICK i, j \in bodies : i # j
    BY <1>1, <1>7 DEF FoundOK
  <2>2. bodies \subseteq 1..n /\ IsFiniteSet(1..n)
    BY <1>1, FS_Interval
  <2> HIDE DEF bodies
  <2>3. IsFiniteSet(bodies) /\ Cardinality(bodies) \in Nat
    BY <2>2, FS_Subset, FS_CardinalityType
  <2>4. IsFiniteSet(bodies \ {i}) /\ Cardinality(bodies \ {i}) = Cardinality(bodies) - 1
    BY <2>1, <2>3, FS_RemoveElement
  <2>5. Cardinality(bodies \ {i}) # 0
    BY <2>1, <2>4, FS_EmptySet
  <2>6. Cardinality(bodies \ {i}) \in Nat
    BY <2>4, FS_CardinalityType
  <2> QED BY <2>3, <2>4, <2>5, <2>6
<1> QED BY <1>2, <1>3, <1>4, <1>5, <1>6, <1>7 DEF FindsTheBestRule, f

\* A target is not made twice for the same files (check_exec).
LEMMA MadeIsMade ==
  ASSUME NEW Names, NEW now \in Nat \ {0}, NEW files, DOMAIN files \subseteq Names,
         \A x \in DOMAIN files : files[x] \in 0..now,
         NEW target \in Names, NEW deps \in Seq(Names)
  PROVE  MadeOnce(files, target, deps, now)
<1> DEFINE put(x, time) == [y \in DOMAIN files \cup {x, target} |->
                              IF y = x THEN time ELSE IF y = target THEN now ELSE files[y]]
<1> SUFFICES ASSUME Range(deps) \subseteq DOMAIN files, target \notin Range(deps)
             PROVE  /\ ~CheckExec(put(target, now), target, deps)
                    /\ \A i \in DOMAIN deps :
                         /\ CheckExec(put(deps[i], now + 1), target, deps)
                         /\ CheckExec([y \in (DOMAIN files \cup {target}) \ {deps[i]} |-> put(target, now)[y]],
                                      target, deps)
  BY DEF MadeOnce
<1>1. \A i \in DOMAIN deps : deps[i] \in DOMAIN files /\ deps[i] # target
  BY DEF Range
<1>2. ~CheckExec(put(target, now), target, deps)
  <2> DEFINE p == put(target, now)
  <2>1. /\ DOMAIN p = DOMAIN files \cup {target} /\ p[target] = now
        /\ \A i \in DOMAIN deps : p[deps[i]] \in 0..now
    BY <1>1
  <2> HIDE DEF p
  <2>2. /\ target \in DOMAIN p /\ p[target] # 0 /\ \A i \in DOMAIN deps : deps[i] \in DOMAIN p
        /\ \A i \in DOMAIN deps : ~(p[target] < p[deps[i]])
    BY <1>1, <2>1
  <2> QED BY <2>2 DEF CheckExec, p
<1>3. ASSUME NEW i \in DOMAIN deps PROVE CheckExec(put(deps[i], now + 1), target, deps)
  <2> DEFINE p == put(deps[i], now + 1)
  <2>1. p[deps[i]] = now + 1 /\ p[target] = now
    BY <1>1, <1>3
  <2> HIDE DEF p
  <2>2. p[deps[i]] # 0 /\ p[target] < p[deps[i]]
    BY <2>1
  <2> QED BY <1>3, <2>2 DEF CheckExec, p
<1>4. ASSUME NEW i \in DOMAIN deps
      PROVE  CheckExec([y \in (DOMAIN files \cup {target}) \ {deps[i]} |-> put(target, now)[y]], target, deps)
  BY <1>4 DEF CheckExec
<1> QED BY <1>2, <1>3, <1>4

\* What make may be asked: rules and targets with strings over C, files and
\* dependencies with names of Names and times until now.
Questions(C, Names) ==
  [area : {"rules"}, target : Seq(C), rules : Seq(RuleSet(C))]
    \cup {q \in [area : {"exec"}, files : UNION {[ns -> Nat] : ns \in SUBSET Names}, target : Names,
                 deps : Seq(Names), now : Nat \ {0}] :
            \A x \in DOMAIN q.files : q.files[x] <= q.now}

\* For any target and any list of rules find_rules chooses the best rule with a
\* body and keeps all others with their dependencies; for any files and times
\* check_exec has a target made once, and again after a change.
THEOREM RulesAreFollowedAlways ==
  ASSUME NEW C, NEW Names
  PROVE  [](input \in Questions(C, Names)) => []RulesAreFollowed
<1>1. ASSUME input \in [area : {"rules"}, target : Seq(C), rules : Seq(RuleSet(C))]
      PROVE  RulesAreFollowed
  <2>1. input.area = "rules" /\ input.target \in Seq(C) /\ input.rules \in Seq(RuleSet(C))
    BY <1>1
  <2>2. FindsTheBestRule(input.target, input.rules)
    BY <2>1, BestRuleIsFound
  <2> QED BY <2>1, <2>2 DEF RulesAreFollowed
<1>2. ASSUME input \in {q \in [area : {"exec"}, files : UNION {[ns -> Nat] : ns \in SUBSET Names},
                               target : Names, deps : Seq(Names), now : Nat \ {0}] :
                          \A x \in DOMAIN q.files : q.files[x] <= q.now}
      PROVE  RulesAreFollowed
  <2>1. /\ input.area = "exec" /\ input.target \in Names /\ input.deps \in Seq(Names)
        /\ input.now \in Nat \ {0} /\ input.files \in UNION {[ns -> Nat] : ns \in SUBSET Names}
        /\ \A x \in DOMAIN input.files : input.files[x] <= input.now
    BY <1>2
  <2>2. DOMAIN input.files \subseteq Names /\ \A x \in DOMAIN input.files : input.files[x] \in 0..input.now
    BY <2>1
  <2>3. MadeOnce(input.files, input.target, input.deps, input.now)
    BY <2>1, <2>2, MadeIsMade
  <2> QED BY <2>1, <2>3 DEF RulesAreFollowed
<1>3. input \in Questions(C, Names) => RulesAreFollowed
  BY <1>1, <1>2 DEF Questions
<1> QED BY <1>3, PTL
=============================================================================
