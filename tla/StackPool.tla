----------------------------- MODULE StackPool -----------------------------
(* ostd::basic_stack_pool: stacks are mapped a chunk at a time and handed   *)
(* out from a free list whose links are kept at the top of the stacks.      *)
(* An address is a chunk with the number of a stack in it. Every pool here  *)
(* has the same sizes: ChunkSize is p_chunksize / p_stacksize.              *)
EXTENDS Naturals, Sequences, FiniteSets, SequencesExt, FiniteSetsExt

CONSTANTS Pools,     \* the pool objects
          Chunks,    \* the addresses the system may map a chunk at
          ChunkSize, \* stacks in a chunk
          MaxReserve \* bound: the largest number that is reserved

\* A chunk has room for a stack: reserve divides by that number.
ASSUME PoolAssumption == ChunkSize \in Nat \ {0} /\ MaxReserve \in Nat

VARIABLES pool,   \* the members of every pool, or NoPool
          mapped, \* the chunks that are mapped
          taken   \* the stacks somebody uses

poolVars == <<pool, mapped, taken>>

NoPool == [chunk |-> <<>>, unused |-> <<>>, capacity |-> 0, alive |-> FALSE]
Empty == [NoPool EXCEPT !.alive = TRUE]
Alive(p) == pool[p].alive

Stacks == Chunks \X (1..ChunkSize)
NodesOf(c) == [i \in 1..ChunkSize |-> <<c, i>>]

PoolInit == /\ pool = [p \in Pools |-> NoPool]
            /\ mapped = {}
            /\ taken = {}

Construct(p) == /\ ~Alive(p)
                /\ pool' = [pool EXCEPT ![p] = Empty]
                /\ UNCHANGED <<mapped, taken>>

\* The sequences of n chunks that the system may map one after the other.
Mappings(n) == {cs \in [1..n -> Chunks \ mapped] : IsInjective(cs)}

\* What alloc_chunks makes of the free list and of the list of chunks.
ChunkList(p, cs) == Reverse(cs) \o pool[p].chunk
FreeList(un, cs) == FlattenSeq([i \in DOMAIN cs |-> NodesOf(Reverse(cs)[i])]) \o un

Needed(p, n) ==
  (n + ChunkSize - 1 - pool[p].capacity) \div ChunkSize

Reserve(p, n) ==
  /\ Alive(p)
  /\ n > pool[p].capacity
  /\ \E cs \in Mappings(Needed(p, n)) :
       /\ pool' = [pool EXCEPT ![p].chunk = ChunkList(p, cs),
                               ![p].unused = FreeList(@, cs),
                               ![p].capacity = @ + Len(cs) * ChunkSize]
       /\ mapped' = mapped \cup Range(cs)
  /\ UNCHANGED taken

\* stack_alloc throws after some of the chunks: these are listed, so that the
\* destructor unmaps them, but their stacks are not, and not counted either.
ReserveFails(p, n) ==
  /\ Alive(p)
  /\ n > pool[p].capacity
  /\ \E m \in 1..(Needed(p, n) - 1) : \E cs \in Mappings(m) :
       /\ pool' = [pool EXCEPT ![p].chunk = ChunkList(p, cs)]
       /\ mapped' = mapped \cup Range(cs)
  /\ UNCHANGED taken

\* Mutant: the stack stays at the head of the free list.
AllocateAndKeep(p, s) ==
  /\ Alive(p)
  /\ pool[p].unused # <<>>
  /\ s = Head(pool[p].unused)
  /\ taken' = taken \cup {s}
  /\ UNCHANGED <<pool, mapped>>

\* request: the first stack of the free list, or of a new chunk.
AllocateFree(p, s) ==
  /\ Alive(p)
  /\ pool[p].unused # <<>>
  /\ s = Head(pool[p].unused)
  /\ pool' = [pool EXCEPT ![p].unused = Tail(@)]
  /\ taken' = taken \cup {s}
  /\ UNCHANGED mapped

AllocateNew(p, s) ==
  /\ Alive(p)
  /\ pool[p].unused = <<>>
  /\ \E cs \in Mappings(1) :
       /\ s = <<cs[1], 1>>
       /\ pool' = [pool EXCEPT ![p].chunk = ChunkList(p, cs),
                               ![p].unused = Tail(FreeList(<<>>, cs)),
                               ![p].capacity = @ + ChunkSize]
       /\ mapped' = mapped \cup Range(cs)
       /\ taken' = taken \cup {s}

Allocate(p, s) == AllocateFree(p, s) \/ AllocateNew(p, s)

Deallocate(p, s) ==
  /\ Alive(p)
  /\ s \in taken
  /\ s[1] \in Range(pool[p].chunk)
  /\ pool' = [pool EXCEPT ![p].unused = <<s>> \o @]
  /\ taken' = taken \ {s}
  /\ UNCHANGED mapped

\* Mutant: the source keeps its free list.
MoveAndKeep(p, q) ==
  /\ Alive(p) /\ ~Alive(q)
  /\ pool' = [pool EXCEPT ![q] = pool[p],
                          ![p] = [Empty EXCEPT !.unused = pool[p].unused]]
  /\ UNCHANGED <<mapped, taken>>

\* The move constructor of q.
Move(p, q) ==
  /\ Alive(p) /\ ~Alive(q)
  /\ pool' = [pool EXCEPT ![q] = pool[p], ![p] = Empty]
  /\ UNCHANGED <<mapped, taken>>

\* swap, and with it the move assignment.
Swap(p, q) ==
  /\ Alive(p) /\ Alive(q) /\ p # q
  /\ pool' = [pool EXCEPT ![p] = pool[q], ![q] = pool[p]]
  /\ UNCHANGED <<mapped, taken>>

OwnedBy(p) == {s \in taken : s[1] \in Range(pool[p].chunk)}

\* The destructor unmaps every chunk, whoever uses a stack of it.
Destroy(p) ==
  /\ Alive(p)
  /\ mapped' = mapped \ Range(pool[p].chunk)
  /\ pool' = [pool EXCEPT ![p] = NoPool]
  /\ taken' = taken \ OwnedBy(p)

PoolNext ==
  \E p \in Pools :
    \/ Construct(p)
    \/ \E n \in 1..MaxReserve : Reserve(p, n) \/ ReserveFails(p, n)
    \/ \E s \in Stacks : Allocate(p, s) \/ Deallocate(p, s)
    \/ \E q \in Pools : Move(p, q) \/ Swap(p, q)
    \/ OwnedBy(p) = {} /\ Destroy(p)

PoolSpec == PoolInit /\ [][PoolNext]_poolVars
----------------------------------------------------------------------------
(* A stack is at one place of one free list or somebody uses it, never both *)
(* and never twice, and its chunk is mapped and belongs to that pool, across *)
(* moves, swaps and failures (allocate, deallocate, alloc_chunks).           *)
OneUser ==
  /\ \A p \in Pools :
       /\ IsInjective(pool[p].unused)
       /\ \A s \in Range(pool[p].unused) :
            s \notin taken /\ s[1] \in Range(pool[p].chunk)
       /\ IsInjective(pool[p].chunk)
       /\ Range(pool[p].chunk) \subseteq mapped
  /\ \A p, q \in Pools : p # q =>
       Range(pool[p].chunk) \cap Range(pool[q].chunk) = {}
  /\ \A s \in taken : s[1] \in mapped

(* reserve keeps its word: p_capacity counts the stacks that are in use or   *)
(* can be had without the system, also after a chunk could not be mapped.    *)
CapacityIsReal ==
  \A p \in Pools :
    pool[p].capacity = Len(pool[p].unused) + Cardinality(OwnedBy(p))

(* No mapping is lost: every mapped chunk is in the list of a pool, whose    *)
(* destructor will unmap it.                                                 *)
NothingLeaks == mapped = UNION {Range(pool[p].chunk) : p \in Pools}

(* The three together: what the pools hold is what the system has mapped and  *)
(* what can be handed out, stack by stack.                                    *)
StacksAccountedFor == OneUser /\ CapacityIsReal /\ NothingLeaks
=============================================================================
