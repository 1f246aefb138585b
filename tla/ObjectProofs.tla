---------------------------- MODULE ObjectProofs ----------------------------
(***************************************************************************)
(* Proofs about the objects that live through many calls, for any number   *)
(* of each: that the pools account for every stack (StackPool); that       *)
(* coroutines that resume, leave and destroy one another in any order jump *)
(* back to who resumed them, each on a stack of its own (Coroutine); that  *)
(* an emission calls every handler that stays, though handlers connect,    *)
(* disconnect and emit (Signal); that a child process has one owner, lets  *)
(* go of its own pipes and fails visibly (Subprocess); that a FILE of the  *)
(* library is closed once (Files); and that processes that create          *)
(* directories at once do not fail by it (Creators).                       *)
(***************************************************************************)
EXTENDS Coroutine, Signal, Subprocess, Files, Creators, Counting, SequenceTheorems
-----------------------------------------------------------------------------
(* Sequences: the free list and the list of chunks                         *)

\* Two sequences one after the other.
LEMMA Joined ==
  ASSUME NEW S, NEW r \in Seq(S), NEW q \in Seq(S), IsInjective(r), IsInjective(q),
         Range(r) \cap Range(q) = {}
  PROVE  /\ r \o q \in Seq(S) /\ Len(r \o q) = Len(r) + Len(q) /\ IsInjective(r \o q)
         /\ Range(r \o q) = Range(r) \cup Range(q)
<1> DEFINE a == Len(r)
           b == Len(q)
           w == r \o q
<1>1. /\ w \in Seq(S) /\ a \in Nat /\ b \in Nat /\ Len(w) = a + b
      /\ DOMAIN r = 1..a /\ DOMAIN q = 1..b /\ DOMAIN w = 1..(a + b)
      /\ \A i \in 1..(a + b) : w[i] = IF i <= a THEN r[i] ELSE q[i - a]
  BY ConcatProperties, LenProperties
<1>2. Range(w) = Range(r) \cup Range(q)
  BY RangeConcatenation
<1> HIDE DEF a, b, w
<1>3. \A i \in 1..(a + b) : \/ i \in 1..a /\ w[i] = r[i] /\ r[i] \in Range(r)
                            \/ i - a \in 1..b /\ w[i] = q[i - a] /\ q[i - a] \in Range(q)
  <2> SUFFICES ASSUME NEW i \in 1..(a + b)
               PROVE  \/ i \in 1..a /\ w[i] = r[i] /\ r[i] \in Range(r)
                      \/ i - a \in 1..b /\ w[i] = q[i - a] /\ q[i - a] \in Range(q)
    OBVIOUS
  <2>1. (i \in 1..a /\ i <= a) \/ (i - a \in 1..b /\ ~(i <= a))
    BY <1>1
  <2>2. (\A k \in 1..a : r[k] \in Range(r)) /\ (\A k \in 1..b : q[k] \in Range(q))
    BY <1>1 DEF Range
  <2>3. w[i] = IF i <= a THEN r[i] ELSE q[i - a]
    BY <1>1
  <2> QED BY <2>1, <2>2, <2>3
<1>4. IsInjective(w)
  <2> SUFFICES ASSUME NEW i \in 1..(a + b), NEW j \in 1..(a + b), w[i] = w[j]
               PROVE  i = j
    BY <1>1 DEF IsInjective
  <2>1. \/ i \in 1..a /\ j \in 1..a /\ r[i] = r[j]
        \/ i - a \in 1..b /\ j - a \in 1..b /\ q[i - a] = q[j - a]
    BY <1>3
  <2>2. i = j \/ i - a = j - a
    BY <1>1, <2>1 DEF IsInjective
  <2> QED BY <1>1, <2>2
<1> QED BY <1>1, <1>2, <1>4 DEF w, a, b

\* The front of a sequence that does not repeat itself, and the rest of it.
LEMMA FrontTaken ==
  ASSUME NEW S, NEW q \in Seq(S), q # << >>, IsInjective(q)
  PROVE  /\ Tail(q) \in Seq(S) /\ Len(Tail(q)) = Len(q) - 1 /\ IsInjective(Tail(q))
         /\ Range(q) = Range(Tail(q)) \cup {Head(q)} /\ Head(q) \notin Range(Tail(q))
<1> DEFINE n == Len(q)
           r == Tail(q)
           h == Head(q)
<1>0. r \in Seq(S) /\ Len(r) = n - 1
  BY HeadTailProperties
<1>1. /\ n \in Nat \ {0} /\ DOMAIN q = 1..n /\ DOMAIN r = 1..(n - 1) /\ h = q[1]
      /\ \A k \in 1..(n - 1) : r[k] = q[k + 1]
  BY HeadTailProperties, LenProperties
<1> HIDE DEF n, r, h
<1>2. \A k \in 1..(n - 1) : k + 1 \in 1..n /\ k + 1 # 1
  BY <1>1
<1>3. \A k \in 1..n : k = 1 \/ (k - 1 \in 1..(n - 1) /\ q[k] = r[k - 1])
  BY <1>1
<1>4. IsInjective(r)
  BY <1>1, <1>2 DEF IsInjective
<1>5. h \notin Range(r)
  BY <1>1, <1>2 DEF IsInjective, Range
<1>6. ASSUME NEW x \in Range(q) PROVE x \in Range(r) \cup {h}
  <2>1. PICK k \in 1..n : q[k] = x
    BY <1>1, <1>6 DEF Range
  <2>2. CASE k = 1
    BY <1>1, <2>1, <2>2
  <2>3. CASE k - 1 \in 1..(n - 1) /\ q[k] = r[k - 1]
    BY <1>1, <2>1, <2>3 DEF Range
  <2> QED BY <1>3, <2>2, <2>3
<1>7. Range(r) \subseteq Range(q) /\ h \in Range(q)
  BY <1>1, <1>2 DEF Range
<1> QED BY <1>0, <1>4, <1>5, <1>6, <1>7 DEF n, r, h

\* What FlattenSeq makes of sequences of the same length that have nothing in
\* common and do not repeat themselves.
LEMMA Flattened ==
  ASSUME NEW S, NEW ss \in Seq(Seq(S)), NEW size \in Nat, ss # << >>,
         \A i \in 1..Len(ss) : Len(ss[i]) = size /\ IsInjective(ss[i]),
         \A i, j \in 1..Len(ss) : i # j => Range(ss[i]) \cap Range(ss[j]) = {}
  PROVE  LET r == FlattenSeq(ss) IN
           /\ r \in Seq(S) /\ Len(r) = Len(ss) * size /\ IsInjective(r)
           /\ \A x : x \in Range(r) <=> \E i \in 1..Len(ss) : x \in Range(ss[i])
<1> DEFINE n == Len(ss)
<1>1. n \in Nat \ {0} /\ \A i \in 1..n : ss[i] \in Seq(S)
  OBVIOUS
<1>2. PICK flatten : /\ FlattenSeq(ss) = flatten[n]
                     /\ \A m \in 1..n : flatten[m] = IF m = 1 THEN ss[m] ELSE flatten[m - 1] \o ss[m]
  BY FlattenSteps
<1> DEFINE Good(m) == LET r == flatten[m] IN
             /\ r \in Seq(S) /\ Len(r) = m * size /\ IsInjective(r)
             /\ \A x : x \in Range(r) <=> \E i \in 1..m : x \in Range(ss[i])
           G == {m \in Nat : m \in 1..n => Good(m)}
<1>3. ASSUME NEW m \in Nat, m \in G, m + 1 \in 1..n PROVE Good(m + 1)
  <2>1. CASE m = 0
    <3>1. flatten[m + 1] = ss[1] /\ 1 * size = size
      BY <1>2, <1>3, <2>1
    <3>2. \A i \in 1..1 : i = 1
      OBVIOUS
    <3> QED BY <1>1, <1>3, <2>1, <3>1, <3>2
  <2>2. CASE m # 0
    <3> DEFINE r == flatten[m]
               q == ss[m + 1]
    <3>1. m \in 1..n /\ m + 1 \in 1..n /\ m + 1 # 1 /\ (m + 1) - 1 = m
      BY <1>1, <1>3, <2>2
    <3>2. flatten[m + 1] = r \o q /\ q \in Seq(S) /\ Len(q) = size /\ IsInjective(q)
      <4>1. flatten[m + 1] = flatten[(m + 1) - 1] \o ss[m + 1]
        BY <1>2, <3>1
      <4> QED BY <1>1, <3>1, <4>1
    <3>3. r \in Seq(S) /\ Len(r) = m * size /\ IsInjective(r)
      BY <1>3, <3>1
    <3>4. \A x : x \in Range(r) <=> \E i \in 1..m : x \in Range(ss[i])
      BY <1>3, <3>1
    <3>5. Range(r) \cap Range(q) = {}
      <4>1. \A i \in 1..m : i \in 1..n /\ i # m + 1
        BY <1>1, <3>1
      <4>2. \A i \in 1..m : Range(ss[i]) \cap Range(q) = {}
        BY <3>1, <4>1
      <4> QED BY <3>4, <4>2
    <3> HIDE DEF r, q
    <3>6. /\ r \o q \in Seq(S) /\ Len(r \o q) = Len(r) + Len(q) /\ IsInjective(r \o q)
          /\ Range(r \o q) = Range(r) \cup Range(q)
      BY <3>2, <3>3, <3>5, Joined
    <3>7. (m + 1) * size = m * size + size
      OBVIOUS
    <3>8. \A x : x \in Range(r \o q) <=> \E i \in 1..(m + 1) : x \in Range(ss[i])
      <4>1. \A i \in 1..(m + 1) : i \in 1..m \/ i = m + 1
        OBVIOUS
      <4>2. m + 1 \in 1..(m + 1) /\ \A i \in 1..m : i \in 1..(m + 1)
        OBVIOUS
      <4> QED BY <3>4, <3>6, <4>1, <4>2 DEF q
    <3> QED BY <3>2, <3>3, <3>6, <3>7, <3>8
  <2> QED BY <2>1, <2>2
<1>4. n \in G
  <2> HIDE DEF Good
  <2>1. 0 \in G /\ \A m \in Nat : m \in G => m + 1 \in G
    BY <1>3
  <2> HIDE DEF G
  <2> QED BY <1>1, <2>1, FromZeroOn
<1> QED BY <1>1, <1>2, <1>4

\* One sequence flattened.
LEMMA FlattenedOne ==
  ASSUME NEW x
  PROVE  FlattenSeq(<< x >>) = x
<1> DEFINE ss == << x >>
           Def(f) == f = [i \in 1..Len(ss) |-> IF i = 1 THEN ss[i] ELSE f[i - 1] \o ss[i]]
           flatten == CHOOSE f : Def(f)
<1>1. FlattenSeq(ss) = flatten[1]
  BY DEF FlattenSeq
<1>2. \E f : Def(f)
  <2>1. << x >> = [i \in 1..1 |-> IF i = 1 THEN << x >>[i] ELSE << x >>[i - 1] \o << x >>[i]]
    OBVIOUS
  <2> QED BY <2>1
<1>3. Def(flatten)
  <2> HIDE DEF Def
  <2> QED BY <1>2
<1>4. flatten[1] = x
  <2> HIDE DEF flatten
  <2> QED BY <1>3
<1> QED BY <1>1, <1>4
-----------------------------------------------------------------------------
(* The pools: the free list and the list of chunks of one pool             *)

PoolType == [chunk : Seq(Chunks), unused : Seq(Stacks), capacity : Nat, alive : BOOLEAN]

\* What a pool m holds, with mp for mapped and tk for taken.
Owned(m, tk) == {s \in tk : s[1] \in Range(m.chunk)}
PoolOK(m, mp, tk) ==
  /\ IsInjective(m.unused)
  /\ \A s \in Range(m.unused) : s \notin tk /\ s[1] \in Range(m.chunk)
  /\ IsInjective(m.chunk) /\ Range(m.chunk) \subseteq mp
  /\ m.capacity = Len(m.unused) + Cardinality(Owned(m, tk))
  /\ ~m.alive => m = NoPool

PoolTypeOK == /\ pool \in [Pools -> PoolType]
              /\ mapped \subseteq Chunks /\ taken \subseteq Stacks /\ IsFiniteSet(taken)
Apart == \A p, q \in Pools : p # q =>
           Range(pool[p].chunk) \cap Range(pool[q].chunk) = {}

PoolInv == /\ PoolTypeOK /\ Apart /\ NothingLeaks
           /\ \A p \in Pools : PoolOK(pool[p], mapped, taken)
           /\ \A s \in taken : s[1] \in mapped

\* What the system may map is new.
LEMMA NewChunks ==
  ASSUME NEW n \in Nat, NEW cs \in Mappings(n)
  PROVE  /\ cs \in Seq(Chunks) /\ Len(cs) = n /\ IsInjective(cs)
         /\ Range(cs) \subseteq Chunks /\ Range(cs) \cap mapped = {}
<1>1. cs \in [1..n -> Chunks \ mapped] /\ IsInjective(cs)
  BY DEF Mappings
<1>2. cs \in Seq(Chunks) /\ Len(cs) = n
  BY <1>1
<1>3. Range(cs) \subseteq Chunks /\ Range(cs) \cap mapped = {}
  BY <1>1 DEF Range
<1> QED BY <1>1, <1>2, <1>3

\* Reverse keeps what is in a sequence.
LEMMA Reversed ==
  ASSUME NEW S, NEW cs \in Seq(S), IsInjective(cs)
  PROVE  /\ Reverse(cs) \in Seq(S) /\ Len(Reverse(cs)) = Len(cs)
         /\ IsInjective(Reverse(cs)) /\ Range(Reverse(cs)) = Range(cs)
<1> DEFINE n == Len(cs)
           r == Reverse(cs)
<1>1. /\ n \in Nat /\ DOMAIN cs = 1..n /\ DOMAIN r = 1..n /\ r \in Seq(S) /\ Len(r) = n
      /\ \A i \in 1..n : r[i] = cs[(n - i) + 1] /\ (n - i) + 1 \in 1..n
  BY DEF Reverse
<1>2. \A i \in 1..n : /\ (n - i) + 1 \in 1..n
                      /\ (n - ((n - i) + 1)) + 1 = i
  BY <1>1
<1> HIDE DEF n, r
<1>3. IsInjective(r)
  <2> SUFFICES ASSUME NEW i \in 1..n, NEW j \in 1..n, r[i] = r[j] PROVE i = j
    BY <1>1 DEF IsInjective
  <2>1. (n - i) + 1 = (n - j) + 1
    BY <1>1 DEF IsInjective
  <2> QED BY <1>1, <2>1
<1>4. Range(r) \subseteq Range(cs)
  BY <1>1 DEF Range
<1>5. Range(cs) \subseteq Range(r)
  <2> SUFFICES ASSUME NEW i \in 1..n PROVE cs[i] \in Range(r)
    BY <1>1 DEF Range
  <2>1. r[(n - i) + 1] = cs[i]
    BY <1>1, <1>2
  <2> QED BY <1>1, <2>1 DEF Range
<1> QED BY <1>1, <1>3, <1>4, <1>5 DEF r, n

\* The list of chunks after new ones, which are not in it.
LEMMA ChunksListed ==
  ASSUME NEW p \in Pools, pool[p].chunk \in Seq(Chunks), IsInjective(pool[p].chunk),
         NEW cs \in Seq(Chunks), IsInjective(cs), Range(cs) \cap Range(pool[p].chunk) = {}
  PROVE  /\ ChunkList(p, cs) \in Seq(Chunks) /\ IsInjective(ChunkList(p, cs))
         /\ Range(ChunkList(p, cs)) = Range(pool[p].chunk) \cup Range(cs)
<1> DEFINE r == Reverse(cs)
           q == pool[p].chunk
<1>1. r \in Seq(Chunks) /\ IsInjective(r) /\ Range(r) = Range(cs)
  BY Reversed
<1>2. ChunkList(p, cs) = r \o q
  BY DEF ChunkList
<1> HIDE DEF r
<1> QED BY <1>1, <1>2, Joined

\* The stacks of a chunk, in a row.
LEMMA Nodes ==
  ASSUME NEW c \in Chunks
  PROVE  /\ NodesOf(c) \in Seq(Stacks) /\ Len(NodesOf(c)) = ChunkSize
         /\ IsInjective(NodesOf(c)) /\ NodesOf(c)[1] = <<c, 1>>
         /\ Range(NodesOf(c)) = {s \in Stacks : s[1] = c}
<1>1. /\ NodesOf(c) \in Seq(Stacks) /\ Len(NodesOf(c)) = ChunkSize
      /\ NodesOf(c)[1] = <<c, 1>>
  BY PoolAssumption DEF NodesOf, Stacks
<1>2. IsInjective(NodesOf(c))
  BY DEF IsInjective, NodesOf
<1>3. Range(NodesOf(c)) = {s \in Stacks : s[1] = c}
  BY DEF Range, NodesOf, Stacks
<1> QED BY <1>1, <1>2, <1>3

\* The free list after new chunks.
LEMMA StacksListed ==
  ASSUME NEW un \in Seq(Stacks), IsInjective(un), NEW cs \in Seq(Chunks), IsInjective(cs),
         \A s \in Range(un) : s[1] \notin Range(cs)
  PROVE  /\ FreeList(un, cs) \in Seq(Stacks) /\ IsInjective(FreeList(un, cs))
         /\ Len(FreeList(un, cs)) = Len(cs) * ChunkSize + Len(un)
         /\ Range(FreeList(un, cs)) = Range(un) \cup {s \in Stacks : s[1] \in Range(cs)}
<1> DEFINE n == Len(cs)
           r == Reverse(cs)
           ss == [i \in DOMAIN cs |-> NodesOf(r[i])]
           new == FlattenSeq(ss)
<1>1. /\ n \in Nat /\ DOMAIN cs = 1..n /\ r \in Seq(Chunks) /\ Len(r) = n
      /\ IsInjective(r) /\ Range(r) = Range(cs)
  BY Reversed
<1> HIDE DEF r
<1>2. \A i \in 1..n : r[i] \in Chunks /\ r[i] \in Range(r)
  BY <1>1 DEF Range
<1>3. ss \in Seq(Seq(Stacks)) /\ Len(ss) = n /\ \A i \in 1..n : ss[i] = NodesOf(r[i])
  BY <1>1, <1>2, Nodes
<1> HIDE DEF n, ss
<1>4. \A i, j \in 1..n : i # j => Range(ss[i]) \cap Range(ss[j]) = {}
  BY <1>1, <1>2, <1>3, Nodes DEF IsInjective
<1>5. /\ new \in Seq(Stacks) /\ Len(new) = n * ChunkSize /\ IsInjective(new)
      /\ \A x : x \in Range(new) <=> \E i \in 1..n : x \in Range(ss[i])
  <2>1. CASE n = 0
    <3>1. ss = << >> /\ new = ss
      BY <1>3, <2>1 DEF FlattenSeq
    <3> HIDE DEF new
    <3> QED BY <1>3, <2>1, <3>1, PoolAssumption DEF IsInjective, Range
  <2>2. CASE n # 0
    <3>1. ss # << >> /\ \A i \in 1..Len(ss) : Len(ss[i]) = ChunkSize /\ IsInjective(ss[i])
      BY <1>2, <1>3, <2>2, Nodes
    <3> QED BY <1>3, <1>4, <3>1, PoolAssumption, Flattened
  <2> QED BY <2>1, <2>2
<1>6. FreeList(un, cs) = new \o un
  BY DEF FreeList, new, ss, r
<1> HIDE DEF new
<1>7. Range(new) = {s \in Stacks : s[1] \in Range(cs)}
  <2>1. ASSUME NEW x \in Range(new) PROVE x \in Stacks /\ x[1] \in Range(cs)
    BY <1>1, <1>2, <1>3, <1>5, Nodes
  <2>2. ASSUME NEW x \in Stacks, x[1] \in Range(cs) PROVE x \in Range(new)
    <3> DEFINE c == x[1]
    <3>1. c \in Range(r) /\ DOMAIN r = 1..n
      BY <1>1, <2>2
    <3> HIDE DEF c
    <3>2. PICK i \in 1..n : r[i] = c
      BY <3>1 DEF Range
    <3>3. x \in Range(ss[i])
      BY <1>2, <1>3, <3>2, Nodes DEF c
    <3> QED BY <1>5, <3>3
  <2> QED BY <2>1, <2>2
<1>8. Range(new) \cap Range(un) = {}
  <2>1. \A s \in Range(new) : s[1] \in Range(cs)
    BY <1>7
  <2> QED BY <2>1
<1>9. /\ new \o un \in Seq(Stacks) /\ Len(new \o un) = Len(new) + Len(un)
      /\ IsInjective(new \o un) /\ Range(new \o un) = Range(new) \cup Range(un)
  <2>1. new \in Seq(Stacks) /\ IsInjective(new)
    BY <1>5
  <2> QED BY <1>8, <2>1, Joined
<1> QED BY <1>5, <1>6, <1>7, <1>9 DEF n

\* The free list of one new chunk.
LEMMA OneChunk ==
  ASSUME NEW cs \in Seq(Chunks), Len(cs) = 1
  PROVE  FreeList(<< >>, cs) = NodesOf(cs[1])
<1> DEFINE c == cs[1]
           ss == [i \in DOMAIN cs |-> NodesOf(Reverse(cs)[i])]
<1>1. c \in Chunks /\ DOMAIN cs = 1..1 /\ Reverse(cs)[1] = c
  BY DEF Reverse
<1>2. ss = << NodesOf(c) >> /\ NodesOf(c) \in Seq(Stacks)
  BY <1>1, Nodes
<1>3. FreeList(<< >>, cs) = FlattenSeq(ss) \o << >>
  BY DEF FreeList
<1> HIDE DEF ss, c
<1>4. FlattenSeq(ss) = NodesOf(c)
  BY <1>2, FlattenedOne
<1> QED BY <1>2, <1>3, <1>4, ConcatEmptySeq DEF c
-----------------------------------------------------------------------------
(* The pools, step by step                                                 *)

\* A step that gives pool p the members m, and changes what is mapped and taken
\* only where the chunks of p are or will be, keeps the other pools.
LEMMA OnePoolChanges ==
  ASSUME PoolInv, NEW p \in Pools, NEW m \in PoolType, pool' = [pool EXCEPT ![p] = m],
         mapped' \subseteq Chunks, taken' \subseteq Stacks, IsFiniteSet(taken'),
         PoolOK(m, mapped', taken'),
         \A q \in Pools \ {p} : Range(m.chunk) \cap Range(pool[q].chunk) = {},
         mapped' = (mapped \ Range(pool[p].chunk)) \cup Range(m.chunk),
         \A s \in Stacks : s[1] \notin Range(pool[p].chunk) \cup Range(m.chunk) =>
                             (s \in taken' <=> s \in taken),
         \A s \in taken' : s[1] \in Range(pool[p].chunk) => s[1] \in Range(m.chunk)
  PROVE  PoolInv'
<1>1. pool \in [Pools -> PoolType] /\ taken \subseteq Stacks
  BY DEF PoolInv, PoolTypeOK
<1>2. pool'[p] = m /\ \A q \in Pools \ {p} : pool'[q] = pool[q]
  BY <1>1
<1>3. PoolTypeOK' /\ Apart'
  <2>1. PoolTypeOK'
    BY <1>1 DEF PoolTypeOK
  <2>2. Apart'
    BY <1>2 DEF PoolInv, Apart
  <2> QED BY <2>1, <2>2
<1>4. ASSUME NEW q \in Pools \ {p} PROVE PoolOK(pool[q], mapped', taken')
  <2>1. /\ PoolOK(pool[q], mapped, taken) /\ pool[q] \in PoolType
        /\ Range(pool[q].chunk) \cap Range(pool[p].chunk) = {}
        /\ Range(pool[q].chunk) \cap Range(m.chunk) = {}
    BY <1>1 DEF PoolInv, Apart
  <2>2. \A s \in Stacks : s[1] \in Range(pool[q].chunk) => (s \in taken' <=> s \in taken)
    BY <2>1
  <2>3. Owned(pool[q], taken') = Owned(pool[q], taken)
    BY <1>1, <2>2 DEF Owned
  <2>4. \A s \in Range(pool[q].unused) : s \in Stacks
    BY <2>1, RangeOfSeq DEF PoolType
  <2>5. \A s \in Range(pool[q].unused) : s \notin taken'
    BY <2>1, <2>2, <2>4 DEF PoolOK
  <2> QED BY <2>1, <2>3, <2>5 DEF PoolOK
<1>5. \A q \in Pools : PoolOK(pool'[q], mapped', taken')
  BY <1>2, <1>4
<1>6. \A s \in taken' : s[1] \in mapped'
  <2> SUFFICES ASSUME NEW s \in taken', s[1] \notin Range(m.chunk) PROVE s[1] \in mapped'
    OBVIOUS
  <2>1. s[1] \notin Range(pool[p].chunk) /\ s \in taken
    OBVIOUS
  <2> QED BY <2>1 DEF PoolInv
<1>7. NothingLeaks'
  <2>1. mapped = UNION {Range(pool[q].chunk) : q \in Pools}
    BY DEF PoolInv, NothingLeaks
  <2>2. ASSUME NEW c \in mapped' PROVE \E q \in Pools : c \in Range(pool'[q].chunk)
    <3>1. CASE c \in Range(m.chunk)
      BY <1>2, <3>1
    <3>2. CASE c \in mapped /\ c \notin Range(pool[p].chunk)
      BY <1>2, <2>1, <3>2
    <3> QED BY <3>1, <3>2
  <2>3. ASSUME NEW q \in Pools, NEW c \in Range(pool'[q].chunk) PROVE c \in mapped'
    BY <1>5 DEF PoolOK
  <2> QED BY <2>2, <2>3 DEF NothingLeaks
<1> QED BY <1>3, <1>5, <1>6, <1>7 DEF PoolInv

\* A pool as it is made.
LEMMA NewPool ==
  ASSUME NEW mp, NEW tk
  PROVE  /\ Empty \in PoolType /\ NoPool \in PoolType
         /\ Empty.chunk = << >> /\ NoPool.chunk = << >> /\ Range(<< >>) = {}
         /\ PoolOK(Empty, mp, tk) /\ PoolOK(NoPool, mp, tk)
<1>1. /\ NoPool \in PoolType /\ Empty \in PoolType
      /\ NoPool.chunk = << >> /\ NoPool.unused = << >> /\ NoPool.capacity = 0
      /\ Empty.chunk = << >> /\ Empty.unused = << >> /\ Empty.capacity = 0 /\ Empty.alive
  BY EmptySeq DEF NoPool, Empty, PoolType
<1>2. Range(<< >>) = {} /\ IsInjective(<< >>) /\ Len(<< >>) = 0
  BY DEF Range, IsInjective
<1>3. Owned(NoPool, tk) = {} /\ Owned(Empty, tk) = {}
  BY <1>1, <1>2 DEF Owned
<1> QED BY <1>1, <1>2, <1>3, FS_EmptySet DEF PoolOK

LEMMA ConstructStep ==
  ASSUME PoolInv, NEW p \in Pools, Construct(p)
  PROVE  PoolInv'
<1>1. /\ pool[p] = NoPool /\ pool' = [pool EXCEPT ![p] = Empty]
      /\ mapped' = mapped /\ taken' = taken
  BY DEF Construct, Alive, PoolInv, PoolOK
<1>2. /\ Empty \in PoolType /\ Range(Empty.chunk) = {} /\ Range(NoPool.chunk) = {}
      /\ PoolOK(Empty, mapped, taken)
  BY NewPool
<1>3. mapped \subseteq Chunks /\ taken \subseteq Stacks /\ IsFiniteSet(taken)
  BY DEF PoolInv, PoolTypeOK
<1> QED BY <1>1, <1>2, <1>3, OnePoolChanges

\* The destructor: the stacks that are out go with their chunks.
LEMMA DestroyStep ==
  ASSUME PoolInv, NEW p \in Pools, Destroy(p)
  PROVE  PoolInv'
<1>1. /\ pool' = [pool EXCEPT ![p] = NoPool] /\ mapped' = mapped \ Range(pool[p].chunk)
      /\ taken' = taken \ OwnedBy(p)
  BY DEF Destroy
<1>2. /\ NoPool \in PoolType /\ Range(NoPool.chunk) = {} /\ PoolOK(NoPool, mapped', taken')
  BY NewPool
<1>3. /\ mapped' \subseteq Chunks /\ taken' \subseteq Stacks /\ IsFiniteSet(taken')
      /\ \A s \in taken' : s[1] \notin Range(pool[p].chunk)
      /\ \A s \in Stacks : s[1] \notin Range(pool[p].chunk) => (s \in taken' <=> s \in taken)
  BY <1>1, FS_Subset DEF PoolInv, PoolTypeOK, OwnedBy
<1> QED BY <1>1, <1>2, <1>3, OnePoolChanges

\* New chunks that a pool lists, with or without their stacks.
LEMMA ChunksCome ==
  ASSUME PoolInv, NEW p \in Pools, NEW n \in Nat, NEW cs \in Mappings(n)
  PROVE  /\ ChunkList(p, cs) \in Seq(Chunks) /\ IsInjective(ChunkList(p, cs))
         /\ Range(ChunkList(p, cs)) = Range(pool[p].chunk) \cup Range(cs)
         /\ Range(cs) \cap mapped = {} /\ Range(pool[p].chunk) \subseteq mapped
         /\ mapped \cup Range(cs) \subseteq Chunks
         /\ mapped \cup Range(cs) = (mapped \ Range(pool[p].chunk)) \cup Range(ChunkList(p, cs))
         /\ \A q \in Pools \ {p} : Range(ChunkList(p, cs)) \cap Range(pool[q].chunk) = {}
         /\ {s \in taken : s[1] \in Range(ChunkList(p, cs))} = OwnedBy(p)
         /\ \A s \in Range(pool[p].unused) : s[1] \notin Range(cs)
<1>1. /\ pool[p].chunk \in Seq(Chunks) /\ IsInjective(pool[p].chunk)
      /\ \A q \in Pools : Range(pool[q].chunk) \subseteq mapped
      /\ \A s \in Range(pool[p].unused) : s[1] \in Range(pool[p].chunk)
  BY DEF PoolInv, PoolTypeOK, PoolType, PoolOK
<1>2. /\ cs \in Seq(Chunks) /\ IsInjective(cs)
      /\ Range(cs) \subseteq Chunks /\ Range(cs) \cap mapped = {}
  BY NewChunks
<1>3. /\ ChunkList(p, cs) \in Seq(Chunks) /\ IsInjective(ChunkList(p, cs))
      /\ Range(ChunkList(p, cs)) = Range(pool[p].chunk) \cup Range(cs)
  BY <1>1, <1>2, ChunksListed
<1>4. /\ mapped \cup Range(cs) \subseteq Chunks
      /\ mapped \cup Range(cs) = (mapped \ Range(pool[p].chunk)) \cup Range(ChunkList(p, cs))
      /\ \A q \in Pools \ {p} : Range(ChunkList(p, cs)) \cap Range(pool[q].chunk) = {}
  BY <1>1, <1>2, <1>3 DEF PoolInv, PoolTypeOK, Apart
<1>5. {s \in taken : s[1] \in Range(ChunkList(p, cs))} = OwnedBy(p)
  BY <1>2, <1>3 DEF OwnedBy, PoolInv
<1>6. \A s \in Range(pool[p].unused) : s[1] \notin Range(cs)
  BY <1>1, <1>2
<1> QED BY <1>1, <1>2, <1>3, <1>4, <1>5, <1>6

\* What PoolInv says of one pool.
LEMMA OnePool ==
  ASSUME PoolInv, NEW p \in Pools
  PROVE  /\ pool \in [Pools -> PoolType] /\ pool[p] \in PoolType
         /\ pool[p].chunk \in Seq(Chunks) /\ pool[p].unused \in Seq(Stacks)
         /\ pool[p].capacity \in Nat /\ pool[p].alive \in BOOLEAN
         /\ PoolOK(pool[p], mapped, taken)
         /\ Owned(pool[p], taken) = OwnedBy(p) /\ IsFiniteSet(OwnedBy(p))
         /\ Cardinality(OwnedBy(p)) \in Nat
         /\ mapped \subseteq Chunks /\ taken \subseteq Stacks /\ IsFiniteSet(taken)
         /\ \A q \in Pools \ {p} : Range(pool[p].chunk) \cap Range(pool[q].chunk) = {}
         /\ mapped = (mapped \ Range(pool[p].chunk)) \cup Range(pool[p].chunk)
<1>1. /\ pool \in [Pools -> PoolType] /\ pool[p] \in PoolType
      /\ mapped \subseteq Chunks /\ taken \subseteq Stacks /\ IsFiniteSet(taken)
      /\ PoolOK(pool[p], mapped, taken)
      /\ \A q \in Pools \ {p} : Range(pool[p].chunk) \cap Range(pool[q].chunk) = {}
  BY DEF PoolInv, PoolTypeOK, Apart
<1>2. Owned(pool[p], taken) = OwnedBy(p) /\ OwnedBy(p) \subseteq taken
  BY DEF Owned, OwnedBy
<1>3. IsFiniteSet(OwnedBy(p)) /\ Cardinality(OwnedBy(p)) \in Nat
  BY <1>1, <1>2, FS_Subset, FS_CardinalityType
<1> QED BY <1>1, <1>2, <1>3 DEF PoolType, PoolOK

\* A new free list.
LEMMA NewFreeList ==
  ASSUME NEW r \in PoolType, NEW b \in Seq(Stacks)
  PROVE  LET m == [r EXCEPT !.unused = b]
         IN  /\ m \in PoolType /\ m.chunk = r.chunk /\ m.unused = b
             /\ m.capacity = r.capacity /\ m.alive = r.alive
<1> DEFINE m == [r EXCEPT !.unused = b]
<1>1. m \in PoolType
  BY DEF PoolType
<1>2. m.chunk = r.chunk /\ m.unused = b /\ m.capacity = r.capacity /\ m.alive = r.alive
  BY DEF PoolType
<1> QED BY <1>1, <1>2

\* The members of one pool written one by one, and all at once.
LEMMA Written ==
  ASSUME PoolInv, NEW p \in Pools, NEW a, NEW b, NEW c
  PROVE  [pool EXCEPT ![p].chunk = a, ![p].unused = b, ![p].capacity = c]
           = [pool EXCEPT ![p] = [pool[p] EXCEPT !.chunk = a, !.unused = b, !.capacity = c]]
<1> DEFINE g == [pool EXCEPT ![p].chunk = a, ![p].unused = b, ![p].capacity = c]
           m == [pool[p] EXCEPT !.chunk = a, !.unused = b, !.capacity = c]
<1>1. pool \in [Pools -> PoolType]
  BY OnePool
<1>2. DOMAIN g = Pools /\ g = [q \in Pools |-> g[q]]
  BY <1>1
<1>3. \A q \in Pools : q # p => g[q] = pool[q]
  BY <1>1
<1>4. g[p] = m
  BY <1>1 DEF PoolType
<1> HIDE DEF g, m
<1>5. g = [pool EXCEPT ![p] = m]
  BY <1>1, <1>2, <1>3, <1>4
<1> QED BY <1>5 DEF g, m

LEMMA ReserveFailsStep ==
  ASSUME PoolInv, NEW p \in Pools, NEW n \in 1..MaxReserve, ReserveFails(p, n)
  PROVE  PoolInv'
<1>1. PICK k \in 1..(Needed(p, n) - 1) : \E cs \in Mappings(k) :
             /\ pool' = [pool EXCEPT ![p].chunk = ChunkList(p, cs)]
             /\ mapped' = mapped \cup Range(cs)
  BY DEF ReserveFails
<1>2. k \in Nat /\ taken' = taken /\ Alive(p)
  BY DEF ReserveFails
<1> PICK cs \in Mappings(k) : /\ pool' = [pool EXCEPT ![p].chunk = ChunkList(p, cs)]
                              /\ mapped' = mapped \cup Range(cs)
  BY <1>1
<1> DEFINE list == ChunkList(p, cs)
           m == [pool[p] EXCEPT !.chunk = list]
<1>3. /\ list \in Seq(Chunks) /\ IsInjective(list)
      /\ Range(list) = Range(pool[p].chunk) \cup Range(cs)
      /\ mapped' \subseteq Chunks /\ Range(list) \subseteq mapped'
      /\ mapped' = (mapped \ Range(pool[p].chunk)) \cup Range(list)
      /\ \A q \in Pools \ {p} : Range(list) \cap Range(pool[q].chunk) = {}
      /\ {s \in taken : s[1] \in Range(list)} = OwnedBy(p)
  BY <1>1, <1>2, ChunksCome
<1> HIDE DEF list
<1>4. /\ m \in PoolType /\ m.chunk = list /\ m.unused = pool[p].unused
      /\ m.capacity = pool[p].capacity /\ m.alive
  <2>1. pool[p] \in PoolType /\ pool[p].alive
    BY <1>2, OnePool DEF Alive
  <2> QED BY <1>3, <2>1 DEF PoolType
<1>5. pool' = [pool EXCEPT ![p] = m]
  BY DEF list
<1> HIDE DEF m
<1>6. Owned(m, taken) = OwnedBy(p)
  BY <1>3, <1>4 DEF Owned
<1>7. PoolOK(m, mapped', taken')
  BY <1>2, <1>3, <1>4, <1>6, OnePool DEF PoolOK
<1> QED BY <1>2, <1>3, <1>4, <1>5, <1>7, OnePool, OnePoolChanges

LEMMA ReserveStep ==
  ASSUME PoolInv, NEW p \in Pools, NEW n \in 1..MaxReserve, Reserve(p, n)
  PROVE  PoolInv'
<1>1. PICK cs \in Mappings(Needed(p, n)) :
             /\ pool' = [pool EXCEPT ![p].chunk = ChunkList(p, cs),
                                     ![p].unused = FreeList(@, cs),
                                     ![p].capacity = @ + Len(cs) * ChunkSize]
             /\ mapped' = mapped \cup Range(cs)
  BY DEF Reserve
<1>2. Needed(p, n) \in Nat /\ taken' = taken /\ Alive(p)
  <2>1. /\ pool[p].capacity \in Nat /\ n \in Nat /\ n > pool[p].capacity
        /\ ChunkSize \in Nat \ {0}
    BY OnePool, PoolAssumption DEF Reserve
  <2>2. n + ChunkSize - 1 - pool[p].capacity \in Nat
    BY <2>1
  <2>3. Needed(p, n) \in Nat
    BY <2>1, <2>2 DEF Needed
  <2> QED BY <2>3 DEF Reserve
<1>3. cs \in Seq(Chunks) /\ IsInjective(cs) /\ Len(cs) \in Nat
  BY <1>1, <1>2, NewChunks
<1> DEFINE list == ChunkList(p, cs)
           un == pool[p].unused
           free == FreeList(un, cs)
           cap == pool[p].capacity + Len(cs) * ChunkSize
           m == [pool[p] EXCEPT !.chunk = list, !.unused = free, !.capacity = cap]
<1>4. /\ list \in Seq(Chunks) /\ IsInjective(list)
      /\ Range(list) = Range(pool[p].chunk) \cup Range(cs)
      /\ mapped' \subseteq Chunks /\ Range(list) \subseteq mapped'
      /\ mapped' = (mapped \ Range(pool[p].chunk)) \cup Range(list)
      /\ \A q \in Pools \ {p} : Range(list) \cap Range(pool[q].chunk) = {}
      /\ {s \in taken : s[1] \in Range(list)} = OwnedBy(p)
      /\ Range(cs) \cap mapped = {} /\ \A s \in Range(un) : s[1] \notin Range(cs)
  BY <1>1, <1>2, ChunksCome
<1>5. un \in Seq(Stacks) /\ IsInjective(un)
  BY OnePool DEF PoolOK
<1>6. /\ free \in Seq(Stacks) /\ IsInjective(free)
      /\ Len(free) = Len(cs) * ChunkSize + Len(un)
      /\ Range(free) = Range(un) \cup {s \in Stacks : s[1] \in Range(cs)}
  BY <1>3, <1>4, <1>5, StacksListed
<1>7. Len(cs) * ChunkSize \in Nat
  BY <1>3, PoolAssumption
<1>cap. cap \in Nat
  BY <1>7, OnePool
<1>written. pool' = [pool EXCEPT ![p].chunk = list, ![p].unused = free, ![p].capacity = cap]
  BY <1>1
<1> HIDE DEF list, un, free, cap
<1>8. pool' = [pool EXCEPT ![p] = m] /\ cap \in Nat
  BY <1>cap, <1>written, Written
<1>9. /\ m \in PoolType /\ m.chunk = list /\ m.unused = free /\ m.alive
      /\ m.capacity = cap
  <2>1. pool[p] \in PoolType /\ pool[p].alive
    BY <1>2, OnePool DEF Alive
  <2> QED BY <1>4, <1>6, <1>8, <2>1 DEF PoolType
<1> HIDE DEF m
<1>10. Owned(m, taken) = OwnedBy(p)
  BY <1>4, <1>9 DEF Owned
<1>11. \A s \in Range(free) : s \notin taken /\ s[1] \in Range(list)
  <2>1. \A s \in Range(un) : s \notin taken /\ s[1] \in Range(list)
    BY <1>4, OnePool DEF PoolOK, un
  <2>2. \A s \in taken : s[1] \in mapped
    BY DEF PoolInv
  <2> QED BY <1>4, <1>6, <2>1, <2>2
<1>12. m.capacity = Len(m.unused) + Cardinality(OwnedBy(p))
  <2>1. pool[p].capacity = Len(un) + Cardinality(OwnedBy(p))
    BY OnePool DEF PoolOK, un
  <2>2. Len(un) \in Nat
    BY <1>5
  <2> QED BY <1>6, <1>7, <1>9, <2>1, <2>2, OnePool DEF cap
<1>13. PoolOK(m, mapped', taken')
  BY <1>2, <1>4, <1>6, <1>9, <1>10, <1>11, <1>12 DEF PoolOK
<1> QED BY <1>2, <1>4, <1>8, <1>9, <1>13, OnePool, OnePoolChanges

\* The stack that a pool hands out was free, and nobody had it.
LEMMA AllocateFreeStep ==
  ASSUME PoolInv, NEW p \in Pools, NEW s \in Stacks, AllocateFree(p, s)
  PROVE  PoolInv' /\ s \notin taken /\ taken' = taken \cup {s}
<1> DEFINE un == pool[p].unused
           m == [pool[p] EXCEPT !.unused = Tail(@)]
<1>1. /\ un # << >> /\ s = Head(un) /\ pool' = [pool EXCEPT ![p].unused = Tail(@)]
      /\ taken' = taken \cup {s} /\ mapped' = mapped /\ pool[p].alive
  BY DEF AllocateFree, Alive
<1>2. un \in Seq(Stacks) /\ IsInjective(un) /\ Len(un) \in Nat
  BY OnePool DEF PoolOK
<1>3. /\ Tail(un) \in Seq(Stacks) /\ Len(Tail(un)) = Len(un) - 1 /\ IsInjective(Tail(un))
      /\ Range(un) = Range(Tail(un)) \cup {s} /\ s \notin Range(Tail(un))
  BY <1>1, <1>2, FrontTaken
<1> HIDE DEF un
<1>4. /\ m \in PoolType /\ m.chunk = pool[p].chunk /\ m.unused = Tail(un) /\ m.alive
      /\ m.capacity = pool[p].capacity /\ pool' = [pool EXCEPT ![p] = m]
  <2>1. pool[p] \in PoolType /\ pool \in [Pools -> PoolType]
    BY OnePool
  <2>2. pool' = [pool EXCEPT ![p] = m]
    BY <1>1
  <2>3. m = [pool[p] EXCEPT !.unused = Tail(un)]
    BY DEF un
  <2> QED BY <1>1, <1>3, <2>1, <2>2, <2>3 DEF PoolType
<1> HIDE DEF m
<1>5. \A x \in Range(un) : x \notin taken /\ x[1] \in Range(pool[p].chunk)
  BY OnePool DEF PoolOK, un
<1>6. s \notin taken /\ s[1] \in Range(pool[p].chunk)
  BY <1>3, <1>5
<1>7. Owned(m, taken') = OwnedBy(p) \cup {s} /\ s \notin OwnedBy(p)
  BY <1>1, <1>4, <1>6 DEF Owned, OwnedBy
<1>8. Cardinality(OwnedBy(p) \cup {s}) = Cardinality(OwnedBy(p)) + 1
  BY <1>7, OnePool, FS_AddElement
<1>9. m.capacity = Len(m.unused) + Cardinality(Owned(m, taken'))
  <2>1. pool[p].capacity = Len(un) + Cardinality(OwnedBy(p))
    BY OnePool DEF PoolOK, un
  <2> QED BY <1>2, <1>3, <1>4, <1>7, <1>8, <2>1, OnePool
<1>10. PoolOK(m, mapped', taken')
  <2>1. IsInjective(m.chunk) /\ Range(m.chunk) \subseteq mapped'
    BY <1>1, <1>4, OnePool DEF PoolOK
  <2>2. \A x \in Range(m.unused) : x \notin taken' /\ x[1] \in Range(m.chunk)
    BY <1>1, <1>3, <1>4, <1>5
  <2> QED BY <1>3, <1>4, <1>9, <2>1, <2>2 DEF PoolOK
<1>11. IsFiniteSet(taken') /\ taken' \subseteq Stacks
  BY <1>1, OnePool, FS_AddElement
<1>12. \A x \in Stacks : x[1] \notin Range(pool[p].chunk) => (x \in taken' <=> x \in taken)
  BY <1>1, <1>6
<1>13. /\ \A q \in Pools \ {p} : Range(m.chunk) \cap Range(pool[q].chunk) = {}
       /\ mapped' \subseteq Chunks
       /\ mapped' = (mapped \ Range(pool[p].chunk)) \cup Range(m.chunk)
  BY <1>1, <1>4, OnePool
<1>14. PoolInv'
  BY <1>4, <1>10, <1>11, <1>12, <1>13, OnePoolChanges
<1> QED BY <1>1, <1>6, <1>14

\* Nothing was free: the first stack of a new chunk is handed out.
LEMMA AllocateNewStep ==
  ASSUME PoolInv, NEW p \in Pools, NEW s \in Stacks, AllocateNew(p, s)
  PROVE  PoolInv' /\ s \notin taken /\ taken' = taken \cup {s}
<1>1. PICK cs \in Mappings(1) :
             /\ s = <<cs[1], 1>>
             /\ pool' = [pool EXCEPT ![p].chunk = ChunkList(p, cs),
                                     ![p].unused = Tail(FreeList(<< >>, cs)),
                                     ![p].capacity = @ + ChunkSize]
             /\ mapped' = mapped \cup Range(cs)
             /\ taken' = taken \cup {s}
  BY DEF AllocateNew
<1>2. pool[p].alive /\ pool[p].unused = << >>
  BY DEF AllocateNew, Alive
<1>3. cs \in Seq(Chunks) /\ IsInjective(cs) /\ Len(cs) = 1
  BY NewChunks
<1>4. cs[1] \in Chunks /\ Range(cs) = {cs[1]}
  BY <1>3 DEF Range
<1> DEFINE list == ChunkList(p, cs)
           free == FreeList(<< >>, cs)
           rest == Tail(free)
           cap == pool[p].capacity + ChunkSize
           m == [pool[p] EXCEPT !.chunk = list, !.unused = rest, !.capacity = cap]
<1>5. /\ list \in Seq(Chunks) /\ IsInjective(list)
      /\ Range(list) = Range(pool[p].chunk) \cup Range(cs)
      /\ mapped' \subseteq Chunks /\ Range(list) \subseteq mapped'
      /\ mapped' = (mapped \ Range(pool[p].chunk)) \cup Range(list)
      /\ \A q \in Pools \ {p} : Range(list) \cap Range(pool[q].chunk) = {}
      /\ {x \in taken : x[1] \in Range(list)} = OwnedBy(p)
      /\ Range(cs) \cap mapped = {}
  BY <1>1, ChunksCome
<1>6. /\ free \in Seq(Stacks) /\ IsInjective(free) /\ Len(free) = ChunkSize
      /\ Range(free) = {x \in Stacks : x[1] = cs[1]}
  <2>1. << >> \in Seq(Stacks) /\ IsInjective(<< >>) /\ Range(<< >>) = {} /\ Len(<< >>) = 0
    BY EmptySeq DEF IsInjective, Range
  <2>2. /\ free \in Seq(Stacks) /\ IsInjective(free)
        /\ Len(free) = Len(cs) * ChunkSize + Len(<< >>)
        /\ Range(free) = Range(<< >>) \cup {x \in Stacks : x[1] \in Range(cs)}
    BY <1>3, <2>1, StacksListed
  <2>3. 1 * ChunkSize + 0 = ChunkSize
    BY PoolAssumption
  <2> HIDE DEF free
  <2> QED BY <1>3, <1>4, <2>1, <2>2, <2>3
<1>7. free # << >> /\ Head(free) = s
  <2>1. free = NodesOf(cs[1])
    BY <1>3, <1>4, OneChunk
  <2> HIDE DEF free
  <2> QED BY <1>1, <1>4, <2>1, Nodes, PoolAssumption
<1>cap. cap \in Nat
  BY OnePool, PoolAssumption
<1>written. pool' = [pool EXCEPT ![p].chunk = list, ![p].unused = rest, ![p].capacity = cap]
  BY <1>1
<1> HIDE DEF list, cap, rest
<1>8. pool' = [pool EXCEPT ![p] = m] /\ cap \in Nat
  BY <1>cap, <1>written, Written
<1> HIDE DEF free
<1>9. /\ rest \in Seq(Stacks) /\ Len(rest) = ChunkSize - 1
      /\ IsInjective(rest) /\ Range(free) = Range(rest) \cup {s}
      /\ s \notin Range(rest)
  BY <1>6, <1>7, FrontTaken DEF rest
<1>10. /\ m \in PoolType /\ m.chunk = list /\ m.unused = rest /\ m.alive
       /\ m.capacity = cap
  <2>1. pool[p] \in PoolType /\ list \in Seq(Chunks) /\ rest \in Seq(Stacks) /\ cap \in Nat
    BY <1>5, <1>8, <1>9, OnePool
  <2>2. /\ m \in PoolType /\ m.chunk = list /\ m.unused = rest /\ m.capacity = cap
        /\ m.alive = pool[p].alive
    BY <2>1 DEF PoolType
  <2> HIDE DEF m
  <2> QED BY <1>2, <2>2
<1> HIDE DEF m
<1>11. s[1] = cs[1] /\ s[1] \in Range(list) /\ s \notin taken
  BY <1>1, <1>4, <1>5 DEF PoolInv
<1>12. Owned(m, taken') = OwnedBy(p) \cup {s} /\ s \notin OwnedBy(p)
  BY <1>1, <1>5, <1>10, <1>11 DEF Owned, OwnedBy
<1>13. m.capacity = Len(m.unused) + Cardinality(Owned(m, taken'))
  <2>1. Cardinality(OwnedBy(p) \cup {s}) = Cardinality(OwnedBy(p)) + 1
    BY <1>12, OnePool, FS_AddElement
  <2>2. pool[p].capacity = Cardinality(OwnedBy(p))
    BY <1>2, OnePool DEF PoolOK
  <2> QED BY <1>9, <1>10, <1>12, <2>1, <2>2, OnePool, PoolAssumption DEF cap
<1>14. \A x \in Range(m.unused) : x \notin taken' /\ x[1] \in Range(m.chunk)
  <2> SUFFICES ASSUME NEW x \in Range(rest)
               PROVE  x \notin taken' /\ x[1] \in Range(list)
    BY <1>10
  <2>1. x # s /\ x[1] = cs[1]
    BY <1>6, <1>9
  <2>2. x \notin taken
    BY <1>4, <1>5, <2>1 DEF PoolInv
  <2> QED BY <1>1, <1>11, <2>1, <2>2
<1>15. PoolOK(m, mapped', taken')
  BY <1>5, <1>9, <1>10, <1>13, <1>14 DEF PoolOK
<1>16. /\ IsFiniteSet(taken') /\ taken' \subseteq Stacks
       /\ \A x \in Stacks : x[1] \notin Range(pool[p].chunk) \cup Range(m.chunk) =>
                              (x \in taken' <=> x \in taken)
       /\ \A x \in taken' : x[1] \in Range(pool[p].chunk) => x[1] \in Range(m.chunk)
  BY <1>1, <1>5, <1>10, <1>11, OnePool, FS_AddElement
<1>17. PoolInv'
  BY <1>5, <1>8, <1>10, <1>15, <1>16, OnePoolChanges
<1> QED BY <1>1, <1>11, <1>17

LEMMA DeallocateStep ==
  ASSUME PoolInv, NEW p \in Pools, NEW s \in Stacks, Deallocate(p, s)
  PROVE  PoolInv'
<1> DEFINE un == pool[p].unused
           m == [pool[p] EXCEPT !.unused = <<s>> \o un]
<1>1. /\ pool' = [pool EXCEPT ![p].unused = <<s>> \o @] /\ pool[p].alive
      /\ taken' = taken \ {s} /\ mapped' = mapped
      /\ s \in taken /\ s[1] \in Range(pool[p].chunk)
  BY DEF Deallocate, Alive
<1>2. /\ un \in Seq(Stacks) /\ IsInjective(un) /\ Len(un) \in Nat /\ s \notin Range(un)
      /\ \A x \in Range(un) : x \notin taken /\ x[1] \in Range(pool[p].chunk)
  BY <1>1, OnePool DEF PoolOK
<1> DEFINE q == <<s>>
<1>3. q \in Seq(Stacks) /\ IsInjective(q) /\ Len(q) = 1 /\ Range(q) = {s}
  BY DEF IsInjective, Range
<1>4. pool' = [pool EXCEPT ![p] = m]
  BY <1>1
<1> HIDE DEF un, q
<1> DEFINE r == q \o un
<1>5. /\ r \in Seq(Stacks) /\ Len(r) = 1 + Len(un) /\ IsInjective(r)
      /\ Range(r) = {s} \cup Range(un)
  <2>1. Range(q) \cap Range(un) = {}
    BY <1>2, <1>3
  <2>2. /\ un \in Seq(Stacks) /\ IsInjective(un)
        /\ q \in Seq(Stacks) /\ IsInjective(q)
    BY <1>2, <1>3
  <2>3. /\ r \in Seq(Stacks) /\ Len(r) = Len(q) + Len(un) /\ IsInjective(r)
        /\ Range(r) = Range(q) \cup Range(un)
    BY <2>1, <2>2, Joined
  <2> HIDE DEF r
  <2> QED BY <1>3, <2>3
<1>6. m = [pool[p] EXCEPT !.unused = r]
  BY DEF q
<1> HIDE DEF r, m
<1>7. /\ m \in PoolType /\ m.chunk = pool[p].chunk /\ m.unused = r /\ m.alive
      /\ m.capacity = pool[p].capacity
  BY <1>1, <1>5, <1>6, OnePool, NewFreeList
<1>8. Owned(m, taken') = OwnedBy(p) \ {s} /\ s \in OwnedBy(p)
  BY <1>1, <1>7 DEF Owned, OwnedBy
<1>9. m.capacity = Len(m.unused) + Cardinality(Owned(m, taken'))
  <2>1. Cardinality(OwnedBy(p) \ {s}) = Cardinality(OwnedBy(p)) - 1
    BY <1>8, OnePool, FS_RemoveElement
  <2>2. pool[p].capacity = Len(un) + Cardinality(OwnedBy(p))
    BY OnePool DEF PoolOK, un
  <2> QED BY <1>2, <1>5, <1>7, <1>8, <2>1, <2>2, OnePool
<1>10. IsInjective(m.chunk) /\ Range(m.chunk) \subseteq mapped'
  BY <1>1, <1>7, OnePool DEF PoolOK
<1>11. \A x \in Range(m.unused) : x \notin taken' /\ x[1] \in Range(m.chunk)
  BY <1>1, <1>2, <1>5, <1>7
<1>12. PoolOK(m, mapped', taken')
  BY <1>5, <1>7, <1>9, <1>10, <1>11 DEF PoolOK
<1>13. /\ IsFiniteSet(taken') /\ taken' \subseteq Stacks /\ mapped' \subseteq Chunks
       /\ \A x \in Stacks : x[1] \notin Range(pool[p].chunk) => (x \in taken' <=> x \in taken)
       /\ \A q2 \in Pools \ {p} : Range(m.chunk) \cap Range(pool[q2].chunk) = {}
       /\ mapped' = (mapped \ Range(pool[p].chunk)) \cup Range(m.chunk)
  BY <1>1, <1>7, OnePool, FS_RemoveElement
<1> QED BY <1>4, <1>7, <1>12, <1>13, OnePoolChanges

\* Two pools exchange what they have; a move gives one the members of a new one.
LEMMA SwapStep ==
  ASSUME PoolInv, NEW p \in Pools, NEW q \in Pools, Swap(p, q) \/ Move(p, q)
  PROVE  PoolInv'
<1>1. p # q /\ mapped' = mapped /\ taken' = taken
  BY DEF Swap, Move
<1>2. /\ \A o \in Pools \ {p, q} : pool'[o] = pool[o]
      /\ pool'[q] = pool[p] /\ pool' \in [Pools -> PoolType]
  <2>1. pool \in [Pools -> PoolType] /\ Empty \in PoolType
    BY OnePool, NewPool
  <2>2. CASE pool' = [pool EXCEPT ![p] = pool[q], ![q] = pool[p]]
    BY <1>1, <2>1, <2>2
  <2>3. CASE pool' = [pool EXCEPT ![q] = pool[p], ![p] = Empty]
    <3> DEFINE e == Empty
    <3>1. e \in PoolType /\ pool' = [pool EXCEPT ![q] = pool[p], ![p] = e]
      BY <2>1, <2>3
    <3> HIDE DEF e
    <3> QED BY <1>1, <2>1, <3>1
  <2> QED BY <2>2, <2>3 DEF Swap, Move
<1>3. pool'[p] = pool[q] \/ (pool'[p] = Empty /\ pool[q] = NoPool)
  BY <1>1, OnePool DEF Swap, Move, Alive, PoolOK
<1>4. PoolTypeOK'
  BY <1>1, <1>2 DEF PoolInv, PoolTypeOK
<1>5. /\ Range(Empty.chunk) = {} /\ Range(NoPool.chunk) = {}
      /\ PoolOK(Empty, mapped, taken)
  BY NewPool
<1>6. \A o \in Pools : PoolOK(pool'[o], mapped, taken)
  BY <1>2, <1>3, <1>5 DEF PoolInv
<1>7. Range(pool'[p].chunk) = Range(pool[q].chunk)
  BY <1>3, <1>5
<1>8. Range(pool'[q].chunk) = Range(pool[p].chunk)
  BY <1>2
<1>9. Apart'
  BY <1>1, <1>2, <1>7, <1>8 DEF PoolInv, Apart
<1>10. NothingLeaks'
  BY <1>1, <1>2, <1>7, <1>8 DEF PoolInv, NothingLeaks
<1> QED BY <1>1, <1>4, <1>6, <1>9, <1>10 DEF PoolInv

LEMMA PoolStarts ==
  ASSUME PoolInit
  PROVE  PoolInv
<1>1. /\ \A p \in Pools : pool[p] = NoPool
      /\ pool = [p \in Pools |-> pool[p]] /\ mapped = {} /\ taken = {}
  BY DEF PoolInit
<1>2. /\ NoPool \in PoolType /\ Range(NoPool.chunk) = {}
      /\ PoolOK(NoPool, mapped, taken)
  BY NewPool
<1>3. PoolTypeOK
  BY <1>1, <1>2, FS_EmptySet DEF PoolTypeOK
<1>4. Apart /\ NothingLeaks
  BY <1>1, <1>2 DEF Apart, NothingLeaks
<1> QED BY <1>1, <1>2, <1>3, <1>4 DEF PoolInv

LEMMA PoolSteps ==
  ASSUME PoolInv, [PoolNext]_poolVars
  PROVE  PoolInv'
<1>1. CASE PoolNext
  <2> PICK p \in Pools :
        \/ Construct(p)
        \/ \E n \in 1..MaxReserve : Reserve(p, n) \/ ReserveFails(p, n)
        \/ \E s \in Stacks : Allocate(p, s) \/ Deallocate(p, s)
        \/ \E q \in Pools : Move(p, q) \/ Swap(p, q)
        \/ OwnedBy(p) = {} /\ Destroy(p)
    BY <1>1 DEF PoolNext
  <2>1. CASE Construct(p)
    BY <2>1, ConstructStep
  <2>2. CASE \E n \in 1..MaxReserve : Reserve(p, n) \/ ReserveFails(p, n)
    BY <2>2, ReserveStep, ReserveFailsStep
  <2>3. CASE \E s \in Stacks : Allocate(p, s) \/ Deallocate(p, s)
    BY <2>3, AllocateFreeStep, AllocateNewStep, DeallocateStep DEF Allocate
  <2>4. CASE \E q \in Pools : Move(p, q) \/ Swap(p, q)
    BY <2>4, SwapStep
  <2>5. CASE OwnedBy(p) = {} /\ Destroy(p)
    BY <2>5, DestroyStep
  <2> QED BY <2>1, <2>2, <2>3, <2>4, <2>5
<1>2. CASE UNCHANGED poolVars
  <2>1. pool' = pool /\ mapped' = mapped /\ taken' = taken
    BY <1>2 DEF poolVars
  <2> QED BY <2>1 DEF PoolInv, PoolTypeOK, Apart, NothingLeaks
<1> QED BY <1>1, <1>2

\* basic_stack_pool keeps its free lists, its lists of chunks and what is
\* mapped and taken in step.
THEOREM PoolsInductive == PoolSpec => []PoolInv
<1>1. PoolInit => PoolInv
  BY PoolStarts
<1>2. PoolInv /\ [PoolNext]_poolVars => PoolInv'
  BY PoolSteps
<1> QED BY <1>1, <1>2, PTL DEF PoolSpec

\* Whatever is constructed, reserved, handed out, given back, moved, swapped and
\* destroyed, with mappings that fail in between: a stack is at one place of one
\* free list or in use, capacity() is true, and every mapped chunk is in a list.
THEOREM PoolsAccountForStacks == PoolSpec => []StacksAccountedFor
<1>1. ASSUME PoolInv PROVE StacksAccountedFor
  <2>1. OneUser
    BY <1>1 DEF PoolInv, PoolOK, Apart, OneUser
  <2>2. ASSUME NEW p \in Pools
        PROVE  pool[p].capacity = Len(pool[p].unused) + Cardinality(OwnedBy(p))
    BY <1>1, OnePool DEF PoolOK
  <2>3. NothingLeaks
    BY <1>1 DEF PoolInv
  <2> QED BY <2>1, <2>2, <2>3 DEF StacksAccountedFor, CapacityIsReal
<1> QED BY <1>1, PoolsInductive, PTL
-----------------------------------------------------------------------------
(* The chain of contexts                                                   *)

\* One more context at the end of a chain.
LEMMA ChainGrows ==
  ASSUME NEW S, NEW ch \in Seq(S), ch # << >>, IsInjective(ch),
         NEW c \in S, c \notin Range(ch)
  PROVE  LET w == Append(ch, c) IN
           /\ w \in Seq(S) /\ Len(w) = Len(ch) + 1 /\ IsInjective(w) /\ Head(w) = Head(ch)
           /\ Range(w) = Range(ch) \cup {c} /\ w[Len(ch) + 1] = c /\ Last(w) = c
           /\ \A i \in 1..Len(ch) : w[i] = ch[i]
<1> DEFINE w == Append(ch, c)
           n == Len(ch)
<1>1. /\ n \in Nat \ {0} /\ DOMAIN ch = 1..n /\ DOMAIN w = 1..(n + 1) /\ w \in Seq(S)
      /\ Len(w) = n + 1 /\ w[n + 1] = c /\ \A i \in 1..n : w[i] = ch[i]
  BY AppendProperties, LenProperties
<1>2. Head(w) = w[1] /\ Head(ch) = ch[1] /\ Last(w) = w[n + 1]
  BY <1>1 DEF Last
<1> HIDE DEF w, n
<1>3. \A i \in 1..(n + 1) : i \in 1..n \/ i = n + 1
  BY <1>1
<1>4. \A i \in 1..n : i \in 1..(n + 1) /\ ch[i] # c
  BY <1>1 DEF Range
<1>5. IsInjective(w)
  <2> SUFFICES ASSUME NEW i \in 1..(n + 1), NEW j \in 1..(n + 1), w[i] = w[j]
               PROVE  i = j
    BY <1>1 DEF IsInjective
  <2> QED BY <1>1, <1>3, <1>4 DEF IsInjective
<1>6. Range(w) = Range(ch) \cup {c}
  <2>1. ASSUME NEW x \in Range(w) PROVE x \in Range(ch) \cup {c}
    BY <1>1, <1>3, <2>1 DEF Range
  <2>2. Range(ch) \subseteq Range(w)
    BY <1>1, <1>4 DEF Range
  <2>3. n + 1 \in 1..(n + 1)
    BY <1>1
  <2>4. c \in Range(w)
    BY <1>1, <2>3 DEF Range
  <2> QED BY <2>1, <2>2, <2>4
<1>7. w[1] = ch[1]
  BY <1>1
<1> QED BY <1>1, <1>2, <1>5, <1>6, <1>7 DEF w, n

\* The last context of a chain goes.
LEMMA ChainShrinks ==
  ASSUME NEW S, NEW ch \in Seq(S), IsInjective(ch), ch # << >>, Last(ch) # Head(ch)
  PROVE  LET w == Front(ch) IN
           /\ w \in Seq(S) /\ w # << >> /\ Len(w) = Len(ch) - 1 /\ Len(ch) \in Nat \ {0, 1}
           /\ IsInjective(w) /\ Head(w) = Head(ch) /\ Last(ch) = ch[Len(ch)]
           /\ Range(w) = Range(ch) \ {Last(ch)} /\ Last(ch) \in Range(ch)
           /\ \A i \in 1..(Len(ch) - 1) : w[i] = ch[i] /\ i \in 1..Len(ch)
<1> DEFINE w == Front(ch)
           n == Len(ch)
<1>1. /\ n \in Nat \ {0} /\ DOMAIN ch = 1..n /\ Last(ch) = ch[n] /\ Head(ch) = ch[1]
  BY LenProperties DEF Last
<1>2. n # 1
  BY <1>1
<1>3. /\ w \in Seq(S) /\ Len(w) = n - 1 /\ DOMAIN w = 1..(n - 1)
      /\ \A i \in 1..(n - 1) : w[i] = ch[i]
  <2>1. w = SubSeq(ch, 1, n - 1)
    BY DEF Front
  <2>2. 1 \in 1..n + 1 /\ n - 1 \in 0..n /\ (n - 1) - 1 + 1 = n - 1
    BY <1>1, <1>2
  <2> HIDE DEF w, n
  <2>3. \A i \in 1..(n - 1) : 1 + i - 1 = i /\ i \in 1..n /\ ch[i] \in S
    BY <1>1, <2>2
  <2> QED BY <1>1, <1>2, <2>1, <2>2, <2>3, SubSeqProperties, LenProperties DEF n
<1>4. w # << >> /\ Head(w) = w[1] /\ w[1] = ch[1]
  BY <1>1, <1>2, <1>3
<1> HIDE DEF w, n
<1>5. \A i \in 1..n : i \in 1..(n - 1) \/ i = n
  BY <1>1
<1>6. \A i \in 1..(n - 1) : i \in 1..n /\ i # n
  BY <1>1
<1>7. n \in 1..n
  BY <1>1
<1>8. IsInjective(w)
  BY <1>1, <1>3, <1>6 DEF IsInjective
<1>9. Range(w) = Range(ch) \ {ch[n]} /\ ch[n] \in Range(ch)
  <2>1. ASSUME NEW x \in Range(w) PROVE x \in Range(ch) /\ x # ch[n]
    BY <1>1, <1>3, <1>6, <1>7, <2>1 DEF IsInjective, Range
  <2>2. ASSUME NEW x \in Range(ch), x # ch[n] PROVE x \in Range(w)
    BY <1>1, <1>3, <1>5, <2>2 DEF Range
  <2>3. ch[n] \in Range(ch)
    BY <1>1, <1>7 DEF Range
  <2> QED BY <2>1, <2>2, <2>3
<1> QED BY <1>1, <1>2, <1>3, <1>4, <1>6, <1>8, <1>9 DEF w, n
-----------------------------------------------------------------------------
(* Coroutines: who waits for whom                                          *)

\* Types, a coroutine that is destroyed in the middle is still suspended for its
\* p_state, and a generator's constructor waits while the generator executes.
ContextsTyped ==
  /\ state \in [Coros -> {"none", "HOLD", "EXEC", "TERM"}]
  /\ orig \in [Coros -> Coros \cup {Main, Null}]
  /\ saved \in [Coros -> Coros \cup {Null}]
  /\ chain \in Seq(Coros \cup {Main}) /\ chain # << >>
  /\ unwinding \subseteq {c \in Coros : state[c] = "HOLD"}
  /\ making \subseteq {c \in Coros : state[c] = "EXEC"}

\* What call will put back as current() is what executed when it was entered.
SavedWasExecuting ==
  \A i \in 2..Len(chain) : chain[i] \notin unwinding =>
    Executes(chain, unwinding, i - 1, saved[chain[i]])

ContextInv == ContextsTyped /\ JumpsBack /\ CurrentIsExecuting /\ SavedWasExecuting

\* The stacks that coroutines have are taken, each by one of them.
StackInv ==
  /\ PoolInv
  /\ stack \in [Coros -> Stacks \cup {Null}]
  /\ \A c \in Coros : stack[c] # Null => stack[c] \in taken
  /\ \A c, d \in Coros : c # d /\ stack[c] # Null => stack[c] # stack[d]

IInv == ContextInv /\ StackInv

\* The context that runs is the last of the chain, which starts with the thread's.
LEMMA ChainOfContexts ==
  ASSUME ContextInv
  PROVE  /\ chain \in Seq(Coros \cup {Main}) /\ chain # << >> /\ IsInjective(chain)
         /\ Len(chain) \in Nat \ {0} /\ Head(chain) = Main /\ chain[1] = Main
         /\ Running = chain[Len(chain)] /\ Running \in Coros \cup {Main}
         /\ \A i \in 1..Len(chain) : chain[i] \in Coros \cup {Main} /\ chain[i] \in Range(chain)
         /\ \A i \in 2..Len(chain) : chain[i] \in Coros /\ i \in 1..Len(chain) /\ i - 1 \in 1..Len(chain)
<1> DEFINE n == Len(chain)
<1>1. /\ chain \in Seq(Coros \cup {Main}) /\ chain # << >> /\ IsInjective(chain)
      /\ Head(chain) = Main
  BY DEF ContextInv, ContextsTyped, JumpsBack
<1>2. /\ n \in Nat \ {0} /\ DOMAIN chain = 1..n /\ chain[1] = Main /\ Running = chain[n]
      /\ \A i \in 1..n : chain[i] \in Coros \cup {Main}
  BY <1>1, LenProperties DEF Running, Last
<1> HIDE DEF n
<1>3. \A i \in 1..n : chain[i] \in Range(chain)
  BY <1>2 DEF Range
<1>4. 1 \in 1..n /\ n \in 1..n /\ \A i \in 2..n : i \in 1..n /\ i # 1 /\ i - 1 \in 1..n
  BY <1>2
<1>5. \A i \in 2..n : chain[i] # Main
  BY <1>1, <1>2, <1>4 DEF IsInjective
<1> QED BY <1>1, <1>2, <1>3, <1>4, <1>5 DEF n

\* A coroutine that neither executes nor is destroyed waits for nobody.
LEMMA NotOnChain ==
  ASSUME ContextInv, NEW c \in Coros, state[c] # "EXEC", c \notin unwinding
  PROVE  c \notin Range(chain)
BY CoroAssumption DEF ContextInv, JumpsBack

\* Executes looks at the first contexts only.
LEMMA SameExecutes ==
  ASSUME NEW n \in Nat, NEW x, NEW ch, NEW w, NEW gone, NEW still,
         \A i \in 1..n : w[i] = ch[i] /\ (ch[i] \in gone <=> ch[i] \in still),
         Executes(ch, gone, n, x)
  PROVE  Executes(w, still, n, x)
<1>1. PICK i \in 1..n : /\ ch[i] \notin gone
                        /\ \A j \in (i + 1)..n : ch[j] \in gone
                        /\ x = IF ch[i] = Main THEN Null ELSE ch[i]
  BY DEF Executes
<1>2. \A j \in (i + 1)..n : j \in 1..n
  OBVIOUS
<1>3. \A j \in (i + 1)..n : w[j] \in still
  BY <1>1, <1>2
<1>4. w[i] \notin still /\ x = IF w[i] = Main THEN Null ELSE w[i]
  BY <1>1
<1> QED BY <1>3, <1>4 DEF Executes

\* A coroutine is resumed, or a generator by its constructor.
LEMMA EnterStep ==
  ASSUME ContextInv, NEW c \in Coros, state[c] # "EXEC", c \notin unwinding, Enter(c),
         unwinding' = unwinding, making' \subseteq making \cup {c}
  PROVE  ContextInv'
<1> DEFINE n == Len(chain)
<1>1. c \notin Range(chain) /\ c # Main /\ Main \notin Coros
  BY NotOnChain, CoroAssumption
<1>2. /\ state' = [state EXCEPT ![c] = "EXEC"] /\ saved' = [saved EXCEPT ![c] = current]
      /\ current' = c /\ chain' = Append(chain, c) /\ orig' = [orig EXCEPT ![c] = Running]
  BY DEF Enter
<1>3. /\ chain \in Seq(Coros \cup {Main}) /\ chain # << >> /\ IsInjective(chain)
      /\ n \in Nat \ {0} /\ Head(chain) = Main /\ Running = chain[n]
      /\ Running \in Coros \cup {Main}
      /\ \A i \in 1..n : chain[i] \in Range(chain)
      /\ \A i \in 2..n : chain[i] \in Coros /\ i \in 1..n /\ i - 1 \in 1..n
  BY ChainOfContexts
<1>4. /\ chain' \in Seq(Coros \cup {Main}) /\ Len(chain') = n + 1 /\ IsInjective(chain')
      /\ Head(chain') = Main /\ Range(chain') = Range(chain) \cup {c}
      /\ chain'[n + 1] = c /\ \A i \in 1..n : chain'[i] = chain[i]
  BY <1>1, <1>2, <1>3, ChainGrows
<1>5. chain' # << >>
  BY <1>3, <1>4
<1> HIDE DEF n
<1>6. \A i \in 2..(n + 1) : i \in 2..n \/ i = n + 1
  BY <1>3
<1>7. \A i \in 1..n : chain'[i] = chain[i] /\ chain[i] # c
  BY <1>1, <1>3, <1>4
<1>8. /\ state \in [Coros -> {"none", "HOLD", "EXEC", "TERM"}]
      /\ orig \in [Coros -> Coros \cup {Main, Null}] /\ saved \in [Coros -> Coros \cup {Null}]
      /\ unwinding \subseteq {d \in Coros : state[d] = "HOLD"}
      /\ making \subseteq {d \in Coros : state[d] = "EXEC"}
      /\ {d \in Coros : state[d] = "EXEC"} = Range(chain) \ (unwinding \cup {Main})
      /\ \A i \in 2..n : chain[i] \notin unwinding => orig[chain[i]] = chain[i - 1]
  BY DEF ContextInv, ContextsTyped, JumpsBack, n
<1>9. Executes(chain, unwinding, n, current) /\ current \in Coros \cup {Null}
  <2>1. Executes(chain, unwinding, n, current)
    BY DEF ContextInv, CurrentIsExecuting, n
  <2>2. \A i \in 1..n : chain[i] \in Coros \cup {Main}
    BY ChainOfContexts DEF n
  <2> QED BY <2>1, <2>2 DEF Executes
<1>10. ContextsTyped'
  <2>1. /\ state' \in [Coros -> {"none", "HOLD", "EXEC", "TERM"}]
        /\ orig' \in [Coros -> Coros \cup {Main, Null}] /\ saved' \in [Coros -> Coros \cup {Null}]
    BY <1>2, <1>3, <1>8, <1>9
  <2>2. unwinding' \subseteq {d \in Coros : state'[d] = "HOLD"}
    BY <1>2, <1>8
  <2>3. making' \subseteq {d \in Coros : state'[d] = "EXEC"}
    BY <1>2, <1>8
  <2> QED BY <1>4, <1>5, <2>1, <2>2, <2>3 DEF ContextsTyped
<1>11. JumpsBack'
  <2>1. {d \in Coros : state'[d] = "EXEC"} = Range(chain') \ (unwinding' \cup {Main})
    BY <1>1, <1>2, <1>4, <1>8
  <2>2. ASSUME NEW i \in 2..(n + 1), chain'[i] \notin unwinding'
        PROVE  orig'[chain'[i]] = chain'[i - 1]
    <3>1. CASE i \in 2..n
      BY <1>2, <1>3, <1>7, <1>8, <2>2, <3>1
    <3>2. CASE i = n + 1
      <4>1. i - 1 = n /\ n \in 1..n
        BY <1>3, <3>2
      <4>2. orig'[c] = chain[n]
        BY <1>2, <1>3, <1>8
      <4> QED BY <1>4, <1>7, <3>2, <4>1, <4>2
    <3> QED BY <1>6, <3>1, <3>2
  <2> QED BY <1>4, <2>1, <2>2 DEF JumpsBack
<1>12. CurrentIsExecuting'
  <2>1. n + 1 \in 1..(n + 1) /\ (n + 1 + 1)..(n + 1) = {}
    BY <1>3
  <2>2. Executes(chain', unwinding', n + 1, current')
    BY <1>1, <1>2, <1>4, <2>1 DEF Executes
  <2> QED BY <1>4, <2>2 DEF CurrentIsExecuting
<1>13. SavedWasExecuting'
  <2> SUFFICES ASSUME NEW i \in 2..(n + 1), chain'[i] \notin unwinding'
               PROVE  Executes(chain', unwinding', i - 1, saved'[chain'[i]])
    BY <1>4 DEF SavedWasExecuting
  <2>1. i - 1 \in Nat /\ \A j \in 1..(i - 1) : j \in 1..n
    BY <1>3
  <2>2. \A j \in 1..(i - 1) : chain'[j] = chain[j] /\ (chain[j] \in unwinding <=> chain[j] \in unwinding')
    BY <1>7, <2>1
  <2>3. Executes(chain, unwinding, i - 1, saved'[chain'[i]])
    <3>1. CASE i \in 2..n
      <4>1. chain'[i] = chain[i] /\ chain[i] # c /\ chain[i] \in Coros
        BY <1>3, <1>7, <3>1
      <4>2. saved'[chain'[i]] = saved[chain[i]]
        BY <1>2, <1>8, <4>1
      <4>3. Executes(chain, unwinding, i - 1, saved[chain[i]])
        BY <3>1, <4>1 DEF ContextInv, SavedWasExecuting, n
      <4> QED BY <4>2, <4>3
    <3>2. CASE i = n + 1
      <4>1. saved'[chain'[i]] = current /\ i - 1 = n
        BY <1>2, <1>3, <1>4, <1>8, <3>2
      <4> QED BY <1>9, <4>1
    <3> QED BY <1>6, <3>1, <3>2
  <2> QED BY <2>1, <2>2, <2>3, SameExecutes
<1> QED BY <1>10, <1>11, <1>12, <1>13 DEF ContextInv

\* The function that runs leaves: the chain and current() are as before it was
\* resumed.
LEMMA LeaveStep ==
  ASSUME ContextInv, NEW c \in Coros, c = Running, c \notin unwinding,
         NEW s \in {"none", "HOLD", "TERM"}, state' = [state EXCEPT ![c] = s],
         chain' = Front(chain), current' = saved[c], unwinding' = unwinding,
         orig' \in [Coros -> Coros \cup {Main, Null}], saved' \in [Coros -> Coros \cup {Null}],
         \A d \in Coros \ {c} : orig'[d] = orig[d] /\ saved'[d] = saved[d],
         making' = making \ {c}
  PROVE  ContextInv'
<1> DEFINE n == Len(chain)
<1>1. c # Main /\ Main \notin Coros
  BY CoroAssumption
<1>2. /\ chain \in Seq(Coros \cup {Main}) /\ chain # << >> /\ IsInjective(chain)
      /\ Head(chain) = Main /\ chain[n] = c
      /\ \A i \in 2..n : chain[i] \in Coros /\ i \in 1..n /\ i - 1 \in 1..n
  BY ChainOfContexts
<1>3. Last(chain) = c /\ Last(chain) # Head(chain)
  BY <1>1, <1>2 DEF Running
<1>4. /\ chain' \in Seq(Coros \cup {Main}) /\ chain' # << >> /\ Len(chain') = n - 1
      /\ n \in Nat \ {0, 1} /\ IsInjective(chain') /\ Head(chain') = Main
      /\ Range(chain') = Range(chain) \ {c} /\ c \in Range(chain)
      /\ \A i \in 1..(n - 1) : chain'[i] = chain[i] /\ i \in 1..n
  BY <1>2, <1>3, ChainShrinks
<1> HIDE DEF n
<1>5. /\ state \in [Coros -> {"none", "HOLD", "EXEC", "TERM"}]
      /\ unwinding \subseteq {d \in Coros : state[d] = "HOLD"}
      /\ making \subseteq {d \in Coros : state[d] = "EXEC"}
      /\ {d \in Coros : state[d] = "EXEC"} = Range(chain) \ (unwinding \cup {Main})
      /\ \A i \in 2..n : chain[i] \notin unwinding => orig[chain[i]] = chain[i - 1]
  BY DEF ContextInv, ContextsTyped, JumpsBack, n
<1>6. \A i \in 2..(n - 1) : /\ i \in 2..n /\ chain[i] \in Coros \ {c} /\ chain'[i] = chain[i]
                            /\ chain'[i - 1] = chain[i - 1]
  <2> SUFFICES ASSUME NEW i \in 2..(n - 1)
               PROVE  /\ i \in 2..n /\ chain[i] \in Coros \ {c} /\ chain'[i] = chain[i]
                      /\ chain'[i - 1] = chain[i - 1]
    OBVIOUS
  <2>1. i \in 2..n /\ i \in 1..n /\ n \in 1..n /\ i # n /\ i \in 1..(n - 1) /\ i - 1 \in 1..(n - 1)
    BY <1>4
  <2>2. DOMAIN chain = 1..n
    BY <1>2, LenProperties DEF n
  <2>3. chain[i] # c
    BY <1>2, <2>1, <2>2 DEF IsInjective
  <2> QED BY <1>2, <1>4, <2>1, <2>3
<1>7. ContextsTyped'
  <2>1. state' \in [Coros -> {"none", "HOLD", "EXEC", "TERM"}]
    BY <1>5
  <2>2. unwinding' \subseteq {d \in Coros : state'[d] = "HOLD"}
    BY <1>5
  <2>3. making' \subseteq {d \in Coros : state'[d] = "EXEC"}
    BY <1>5
  <2> QED BY <1>4, <2>1, <2>2, <2>3 DEF ContextsTyped
<1>8. JumpsBack'
  <2>1. {d \in Coros : state'[d] = "EXEC"} = Range(chain') \ (unwinding' \cup {Main})
    BY <1>4, <1>5
  <2>2. \A i \in 2..(n - 1) : chain'[i] \notin unwinding' => orig'[chain'[i]] = chain'[i - 1]
    BY <1>5, <1>6
  <2> QED BY <1>4, <2>1, <2>2 DEF JumpsBack
<1>9. \A m \in Nat : \A x : m <= n - 1 /\ Executes(chain, unwinding, m, x) =>
                          Executes(chain', unwinding', m, x)
  <2> SUFFICES ASSUME NEW m \in Nat, NEW x, m <= n - 1, Executes(chain, unwinding, m, x)
               PROVE  Executes(chain', unwinding', m, x)
    OBVIOUS
  <2>1. \A i \in 1..m : i \in 1..(n - 1)
    BY <1>4
  <2>2. \A i \in 1..m : chain'[i] = chain[i] /\ (chain[i] \in unwinding <=> chain[i] \in unwinding')
    BY <1>4, <2>1
  <2> QED BY <2>2, SameExecutes
<1>10. \A i \in 2..n : chain[i] \notin unwinding => Executes(chain, unwinding, i - 1, saved[chain[i]])
  BY DEF ContextInv, SavedWasExecuting, n
<1>11. CurrentIsExecuting'
  <2>1. n \in 2..n /\ n - 1 \in Nat /\ n - 1 <= n - 1
    BY <1>4
  <2>2. Executes(chain, unwinding, n - 1, saved[c])
    BY <1>2, <1>10, <2>1
  <2>3. Executes(chain', unwinding', n - 1, current')
    BY <1>9, <2>1, <2>2
  <2> QED BY <1>4, <2>3 DEF CurrentIsExecuting
<1>12. SavedWasExecuting'
  <2> SUFFICES ASSUME NEW i \in 2..(n - 1), chain'[i] \notin unwinding'
               PROVE  Executes(chain', unwinding', i - 1, saved'[chain'[i]])
    BY <1>4 DEF SavedWasExecuting
  <2>1. i \in 2..n /\ chain'[i] = chain[i] /\ saved'[chain'[i]] = saved[chain[i]]
    BY <1>6
  <2>2. i - 1 \in Nat /\ i - 1 <= n - 1
    BY <1>4
  <2>3. Executes(chain, unwinding, i - 1, saved'[chain'[i]])
    BY <1>10, <2>1
  <2> QED BY <1>9, <2>2, <2>3
<1> QED BY <1>7, <1>8, <1>11, <1>12 DEF ContextInv

\* The destructor of a suspended coroutine begins.
LEMMA UnwindStep ==
  ASSUME ContextInv, NEW c \in Coros, c \notin unwinding, Unwind(c)
  PROVE  ContextInv'
<1> DEFINE n == Len(chain)
<1>1. /\ state[c] = "HOLD" /\ chain' = Append(chain, c) /\ unwinding' = unwinding \cup {c}
      /\ UNCHANGED <<state, orig, current, saved, making>>
  BY DEF Unwind
<1>2. c \notin Range(chain) /\ c # Main /\ Main \notin Coros
  BY <1>1, NotOnChain, CoroAssumption
<1>3. /\ chain \in Seq(Coros \cup {Main}) /\ chain # << >> /\ IsInjective(chain)
      /\ n \in Nat \ {0} /\ Head(chain) = Main
      /\ \A i \in 1..n : chain[i] \in Range(chain)
  BY ChainOfContexts
<1>4. /\ chain' \in Seq(Coros \cup {Main}) /\ Len(chain') = n + 1 /\ IsInjective(chain')
      /\ Head(chain') = Main /\ Range(chain') = Range(chain) \cup {c}
      /\ chain'[n + 1] = c /\ \A i \in 1..n : chain'[i] = chain[i]
  BY <1>1, <1>2, <1>3, ChainGrows
<1>5. chain' # << >>
  BY <1>3, <1>4
<1> HIDE DEF n
<1>6. \A i \in 2..(n + 1) : chain'[i] \notin unwinding' =>
        i \in 2..n /\ i \in 1..n /\ i - 1 \in 1..n /\ chain[i] \notin unwinding
  <2> SUFFICES ASSUME NEW i \in 2..(n + 1), chain'[i] \notin unwinding'
               PROVE  i \in 2..n /\ i \in 1..n /\ i - 1 \in 1..n /\ chain[i] \notin unwinding
    OBVIOUS
  <2>1. i # n + 1
    BY <1>1, <1>4
  <2>2. i \in 2..n /\ i \in 1..n /\ i - 1 \in 1..n
    BY <1>3, <2>1
  <2> QED BY <1>1, <1>4, <2>2
<1>7. ContextsTyped'
  BY <1>1, <1>4, <1>5 DEF ContextInv, ContextsTyped
<1>8. JumpsBack'
  <2>1. {d \in Coros : state'[d] = "EXEC"} = Range(chain') \ (unwinding' \cup {Main})
    BY <1>1, <1>4 DEF ContextInv, JumpsBack
  <2>2. \A i \in 2..(n + 1) : chain'[i] \notin unwinding' => orig'[chain'[i]] = chain'[i - 1]
    <3>1. \A i \in 2..n : chain[i] \notin unwinding => orig[chain[i]] = chain[i - 1]
      BY DEF ContextInv, JumpsBack, n
    <3> QED BY <1>1, <1>4, <1>6, <3>1
  <2> QED BY <1>4, <2>1, <2>2 DEF JumpsBack
<1>9. \A m \in Nat : \A x : m <= n /\ Executes(chain, unwinding, m, x) =>
                          Executes(chain', unwinding', m, x)
  <2> SUFFICES ASSUME NEW m \in Nat, NEW x, m <= n, Executes(chain, unwinding, m, x)
               PROVE  Executes(chain', unwinding', m, x)
    OBVIOUS
  <2>1. \A i \in 1..m : i \in 1..n
    BY <1>3
  <2>2. \A i \in 1..m : chain'[i] = chain[i] /\ (chain[i] \in unwinding <=> chain[i] \in unwinding')
    BY <1>1, <1>2, <1>3, <1>4, <2>1
  <2> QED BY <2>2, SameExecutes
<1>10. CurrentIsExecuting'
  <2>1. Executes(chain, unwinding, n, current)
    BY DEF ContextInv, CurrentIsExecuting, n
  <2>2. n \in Nat /\ n <= n
    BY <1>3
  <2>3. Executes(chain', unwinding', n, current')
    BY <1>1, <1>9, <2>1, <2>2
  <2>4. PICK i \in 1..n : /\ chain'[i] \notin unwinding'
                          /\ \A j \in (i + 1)..n : chain'[j] \in unwinding'
                          /\ current' = IF chain'[i] = Main THEN Null ELSE chain'[i]
    BY <2>3 DEF Executes
  <2>5. i \in 1..(n + 1) /\ \A j \in (i + 1)..(n + 1) : j \in (i + 1)..n \/ j = n + 1
    BY <1>3
  <2>6. \A j \in (i + 1)..(n + 1) : chain'[j] \in unwinding'
    BY <1>1, <1>4, <2>4, <2>5
  <2> QED BY <1>4, <2>4, <2>5, <2>6 DEF CurrentIsExecuting, Executes
<1>11. SavedWasExecuting'
  <2> SUFFICES ASSUME NEW i \in 2..(n + 1), chain'[i] \notin unwinding'
               PROVE  Executes(chain', unwinding', i - 1, saved'[chain'[i]])
    BY <1>4 DEF SavedWasExecuting
  <2>1. i \in 2..n /\ i \in 1..n /\ chain[i] \notin unwinding
    BY <1>6
  <2>2. saved'[chain'[i]] = saved[chain[i]]
    BY <1>1, <1>4, <2>1
  <2>3. Executes(chain, unwinding, i - 1, saved[chain[i]])
    BY <2>1 DEF ContextInv, SavedWasExecuting, n
  <2>4. i - 1 \in Nat /\ i - 1 <= n
    BY <1>3
  <2> QED BY <1>9, <2>2, <2>3, <2>4
<1> QED BY <1>7, <1>8, <1>10, <1>11 DEF ContextInv

\* The destructor of a suspended coroutine is through.
LEMMA UnwoundStep ==
  ASSUME ContextInv, Unwound
  PROVE  ContextInv'
<1> DEFINE n == Len(chain)
           c == Running
<1>1. /\ c \in unwinding /\ state' = [state EXCEPT ![c] = "none"] /\ chain' = Front(chain)
      /\ unwinding' = unwinding \ {c} /\ current' = current /\ making' = making
      /\ orig' = [orig EXCEPT ![c] = Null] /\ saved' = [saved EXCEPT ![c] = Null]
  BY DEF Unwound, Gone
<1>2. /\ state \in [Coros -> {"none", "HOLD", "EXEC", "TERM"}]
      /\ orig \in [Coros -> Coros \cup {Main, Null}] /\ saved \in [Coros -> Coros \cup {Null}]
      /\ unwinding \subseteq {d \in Coros : state[d] = "HOLD"}
      /\ making \subseteq {d \in Coros : state[d] = "EXEC"}
      /\ {d \in Coros : state[d] = "EXEC"} = Range(chain) \ (unwinding \cup {Main})
      /\ \A i \in 2..n : chain[i] \notin unwinding => orig[chain[i]] = chain[i - 1]
  BY DEF ContextInv, ContextsTyped, JumpsBack
<1>3. c \in Coros /\ c # Main /\ Main \notin Coros /\ state[c] = "HOLD"
  BY <1>1, <1>2, CoroAssumption
<1>4. /\ chain \in Seq(Coros \cup {Main}) /\ chain # << >> /\ IsInjective(chain)
      /\ Head(chain) = Main /\ chain[n] = c
      /\ \A i \in 2..n : chain[i] \in Coros /\ i \in 1..n /\ i - 1 \in 1..n
  BY ChainOfContexts
<1>5. Last(chain) = c /\ Last(chain) # Head(chain)
  BY <1>3, <1>4 DEF Running
<1>6. /\ chain' \in Seq(Coros \cup {Main}) /\ chain' # << >> /\ Len(chain') = n - 1
      /\ n \in Nat \ {0, 1} /\ IsInjective(chain') /\ Head(chain') = Main
      /\ Range(chain') = Range(chain) \ {c} /\ c \in Range(chain)
      /\ \A i \in 1..(n - 1) : chain'[i] = chain[i] /\ i \in 1..n
  BY <1>1, <1>4, <1>5, ChainShrinks
<1> HIDE DEF n, c
<1>7. \A i \in 1..(n - 1) : chain'[i] = chain[i] /\ chain[i] # c
  <2> SUFFICES ASSUME NEW i \in 1..(n - 1) PROVE chain'[i] = chain[i] /\ chain[i] # c
    OBVIOUS
  <2>1. i \in 1..n /\ n \in 1..n /\ i # n /\ DOMAIN chain = 1..n
    BY <1>4, <1>6, LenProperties DEF n
  <2> QED BY <1>4, <1>6, <2>1 DEF IsInjective
<1>8. \A i \in 2..(n - 1) : /\ i \in 2..n /\ chain[i] \in Coros \ {c} /\ chain'[i] = chain[i]
                            /\ chain'[i - 1] = chain[i - 1]
                            /\ (chain[i] \in unwinding <=> chain[i] \in unwinding')
  <2> SUFFICES ASSUME NEW i \in 2..(n - 1)
               PROVE  /\ i \in 2..n /\ chain[i] \in Coros \ {c} /\ chain'[i] = chain[i]
                      /\ chain'[i - 1] = chain[i - 1]
                      /\ (chain[i] \in unwinding <=> chain[i] \in unwinding')
    OBVIOUS
  <2>1. i \in 2..n /\ i \in 1..(n - 1) /\ i - 1 \in 1..(n - 1)
    BY <1>6
  <2> QED BY <1>1, <1>4, <1>7, <2>1
<1>9. ContextsTyped'
  <2>1. state' \in [Coros -> {"none", "HOLD", "EXEC", "TERM"}]
    BY <1>1, <1>2
  <2>2. orig' \in [Coros -> Coros \cup {Main, Null}] /\ saved' \in [Coros -> Coros \cup {Null}]
    BY <1>1, <1>2
  <2>3. unwinding' \subseteq {d \in Coros : state'[d] = "HOLD"}
    BY <1>1, <1>2
  <2>4. making' \subseteq {d \in Coros : state'[d] = "EXEC"}
    BY <1>1, <1>2, <1>3
  <2> QED BY <1>6, <2>1, <2>2, <2>3, <2>4 DEF ContextsTyped
<1>10. JumpsBack'
  <2>1. {d \in Coros : state'[d] = "EXEC"} = Range(chain') \ (unwinding' \cup {Main})
    <3>1. \A d \in Coros : state'[d] = "EXEC" <=> state[d] = "EXEC"
      BY <1>1, <1>2, <1>3
    <3>2. Range(chain') \ (unwinding' \cup {Main}) = Range(chain) \ (unwinding \cup {Main})
      BY <1>1, <1>6
    <3> QED BY <1>2, <3>1, <3>2
  <2>2. \A i \in 2..(n - 1) : chain'[i] \notin unwinding' => orig'[chain'[i]] = chain'[i - 1]
    BY <1>1, <1>2, <1>8
  <2> QED BY <1>6, <2>1, <2>2 DEF JumpsBack
<1>11. \A m \in Nat : \A x : m <= n - 1 /\ Executes(chain, unwinding, m, x) =>
                           Executes(chain', unwinding', m, x)
  <2> SUFFICES ASSUME NEW m \in Nat, NEW x, m <= n - 1, Executes(chain, unwinding, m, x)
               PROVE  Executes(chain', unwinding', m, x)
    OBVIOUS
  <2>1. \A i \in 1..m : i \in 1..(n - 1)
    BY <1>6
  <2>2. \A i \in 1..m : chain'[i] = chain[i] /\ (chain[i] \in unwinding <=> chain[i] \in unwinding')
    BY <1>1, <1>7, <2>1
  <2> QED BY <2>2, SameExecutes
<1>12. CurrentIsExecuting'
  <2>1. PICK i \in 1..n : /\ chain[i] \notin unwinding
                          /\ \A j \in (i + 1)..n : chain[j] \in unwinding
                          /\ current = IF chain[i] = Main THEN Null ELSE chain[i]
    BY DEF ContextInv, CurrentIsExecuting, Executes, n
  <2>2. i # n
    BY <1>1, <1>4, <2>1
  <2>3. i \in 1..(n - 1) /\ \A j \in (i + 1)..(n - 1) : j \in (i + 1)..n
    BY <1>6, <2>2
  <2>4. Executes(chain, unwinding, n - 1, current)
    BY <2>1, <2>3 DEF Executes
  <2>5. n - 1 \in Nat /\ n - 1 <= n - 1
    BY <1>6
  <2> QED BY <1>1, <1>6, <1>11, <2>4, <2>5 DEF CurrentIsExecuting
<1>13. SavedWasExecuting'
  <2> SUFFICES ASSUME NEW i \in 2..(n - 1), chain'[i] \notin unwinding'
               PROVE  Executes(chain', unwinding', i - 1, saved'[chain'[i]])
    BY <1>6 DEF SavedWasExecuting
  <2>1. /\ i \in 2..n /\ chain[i] \notin unwinding
        /\ saved'[chain'[i]] = saved[chain[i]]
    BY <1>1, <1>2, <1>8
  <2>2. i - 1 \in Nat /\ i - 1 <= n - 1
    BY <1>6
  <2>3. Executes(chain, unwinding, i - 1, saved[chain[i]])
    BY <2>1 DEF ContextInv, SavedWasExecuting, n
  <2> QED BY <1>11, <2>1, <2>2, <2>3
<1> QED BY <1>9, <1>10, <1>12, <1>13 DEF ContextInv

\* What happens to a coroutine that is not on the chain leaves the chain alone.
LEMMA IdleStep ==
  ASSUME ContextInv, NEW c \in Coros, state[c] # "EXEC", c \notin unwinding,
         NEW s \in {"none", "HOLD", "TERM"}, state' = [state EXCEPT ![c] = s],
         orig' \in [Coros -> Coros \cup {Main, Null}], saved' \in [Coros -> Coros \cup {Null}],
         \A d \in Coros \ {c} : orig'[d] = orig[d] /\ saved'[d] = saved[d],
         UNCHANGED <<chain, current, making, unwinding>>
  PROVE  ContextInv'
<1>1. c \notin Range(chain)
  BY NotOnChain
<1>2. \A i \in 2..Len(chain) : chain[i] \in Coros \ {c}
  BY <1>1, ChainOfContexts
<1>3. ContextsTyped'
  <2>1. state' \in [Coros -> {"none", "HOLD", "EXEC", "TERM"}]
    BY DEF ContextInv, ContextsTyped
  <2>2. unwinding' \subseteq {d \in Coros : state'[d] = "HOLD"}
    BY DEF ContextInv, ContextsTyped
  <2>3. making' \subseteq {d \in Coros : state'[d] = "EXEC"}
    BY DEF ContextInv, ContextsTyped
  <2> QED BY <2>1, <2>2, <2>3 DEF ContextInv, ContextsTyped
<1>4. JumpsBack'
  <2>1. {d \in Coros : state'[d] = "EXEC"} = {d \in Coros : state[d] = "EXEC"}
    BY DEF ContextInv, ContextsTyped
  <2>2. \A i \in 2..Len(chain) : orig'[chain[i]] = orig[chain[i]]
    BY <1>2
  <2> QED BY <2>1, <2>2 DEF ContextInv, JumpsBack
<1>5. CurrentIsExecuting'
  BY DEF ContextInv, CurrentIsExecuting
<1>6. SavedWasExecuting'
  <2>1. \A i \in 2..Len(chain) : saved'[chain[i]] = saved[chain[i]]
    BY <1>2
  <2> QED BY <2>1 DEF ContextInv, SavedWasExecuting
<1> QED BY <1>3, <1>4, <1>5, <1>6 DEF ContextInv

LEMMA SameContexts ==
  ASSUME ContextInv, UNCHANGED <<state, orig, chain, current, saved, making, unwinding>>
  PROVE  ContextInv'
<1>1. ContextsTyped' /\ JumpsBack'
  BY DEF ContextInv, ContextsTyped, JumpsBack
<1>2. CurrentIsExecuting' /\ SavedWasExecuting'
  BY DEF ContextInv, CurrentIsExecuting, SavedWasExecuting
<1> QED BY <1>1, <1>2 DEF ContextInv
-----------------------------------------------------------------------------
(* Coroutines: whose stack it is                                           *)

\* make_context: the stack was nobody's.
LEMMA MakeStep ==
  ASSUME StackInv, NEW c \in Coros, MakeContext(c)
  PROVE  StackInv'
<1>1. PICK p \in Pools : \E s \in Stacks :
             Allocate(p, s) /\ stack' = [stack EXCEPT ![c] = s]
  BY DEF MakeContext
<1>2. PICK s \in Stacks : Allocate(p, s) /\ stack' = [stack EXCEPT ![c] = s]
  BY <1>1
<1>3. PoolInv' /\ s \notin taken /\ taken' = taken \cup {s}
  BY <1>2, AllocateFreeStep, AllocateNewStep DEF StackInv, Allocate
<1>4. stack' \in [Coros -> Stacks \cup {Null}]
  BY <1>2 DEF StackInv
<1>5. \A d \in Coros : stack'[d] = IF d = c THEN s ELSE stack[d]
  BY <1>2 DEF StackInv
<1>6. \A d \in Coros : stack'[d] # Null => stack'[d] \in taken'
  BY <1>3, <1>5 DEF StackInv
<1>7. \A d, e \in Coros : d # e /\ stack'[d] # Null => stack'[d] # stack'[e]
  <2> SUFFICES ASSUME NEW d \in Coros, NEW e \in Coros, d # e, stack'[d] # Null,
                      stack'[d] = stack'[e]
               PROVE  FALSE
    OBVIOUS
  <2>1. \A x \in Coros : stack[x] # Null => stack[x] # s
    BY <1>3 DEF StackInv
  <2> QED BY <1>5, <2>1 DEF StackInv
<1> QED BY <1>3, <1>4, <1>6, <1>7 DEF StackInv

LEMMA GoneStep ==
  ASSUME StackInv, NEW c \in Coros, Gone(c)
  PROVE  StackInv'
<1>1. stack' = [stack EXCEPT ![c] = Null] /\ UNCHANGED poolVars
  BY DEF Gone
<1>2. pool' = pool /\ mapped' = mapped /\ taken' = taken
  BY <1>1 DEF poolVars
<1>3. PoolInv'
  BY <1>2 DEF StackInv, PoolInv, PoolTypeOK, Apart, NothingLeaks
<1>4. stack' \in [Coros -> Stacks \cup {Null}]
  BY <1>1 DEF StackInv
<1>5. \A d \in Coros : stack'[d] # Null => d # c /\ stack'[d] = stack[d]
  BY <1>1 DEF StackInv
<1>6. \A d \in Coros : stack'[d] # Null => stack'[d] \in taken'
  BY <1>2, <1>5 DEF StackInv
<1>7. \A d, e \in Coros : d # e /\ stack'[d] # Null => stack'[d] # stack'[e]
  BY <1>5 DEF StackInv
<1> QED BY <1>3, <1>4, <1>6, <1>7 DEF StackInv

LEMMA SameStacks ==
  ASSUME StackInv, stack' = stack, UNCHANGED poolVars
  PROVE  StackInv'
<1>1. pool' = pool /\ mapped' = mapped /\ taken' = taken
  BY DEF poolVars
<1>2. PoolInv'
  BY <1>1 DEF StackInv, PoolInv, PoolTypeOK, Apart, NothingLeaks
<1> QED BY <1>1, <1>2 DEF StackInv

\* A pool goes only when no coroutine has a stack.
LEMMA ScopeStep ==
  ASSUME StackInv, PoolScope
  PROVE  StackInv'
<1>1. /\ \E p \in Pools : Construct(p) \/ (Range(stack) = {Null} /\ Destroy(p))
      /\ stack' = stack
  BY DEF PoolScope, objects
<1>2. PICK p \in Pools : Construct(p) \/ (Range(stack) = {Null} /\ Destroy(p))
  BY <1>1
<1>3. PoolInv'
  BY <1>2, ConstructStep, DestroyStep DEF StackInv
<1>4. \A c \in Coros : stack[c] # Null => stack[c] \in taken'
  <2>1. CASE Construct(p)
    BY <2>1 DEF Construct, StackInv
  <2>2. CASE Range(stack) = {Null}
    BY <2>2 DEF Range, StackInv
  <2> QED BY <1>2, <2>1, <2>2
<1> QED BY <1>1, <1>3, <1>4 DEF StackInv
-----------------------------------------------------------------------------
(* Every step                                                              *)

LEMMA ContextsStart ==
  ASSUME Init
  PROVE  ContextInv
<1>1. /\ state = [c \in Coros |-> "none"] /\ orig = [c \in Coros |-> Null]
      /\ saved = [c \in Coros |-> Null] /\ chain = <<Main>> /\ current = Null
      /\ making = {} /\ unwinding = {}
  BY DEF Init
<1>2. /\ chain \in Seq(Coros \cup {Main}) /\ chain # << >> /\ Len(chain) = 1
      /\ chain[1] = Main /\ Head(chain) = Main /\ DOMAIN chain = 1..1
  BY <1>1
<1>3. \A i \in 1..1 : i = 1
  OBVIOUS
<1>4. ContextsTyped
  BY <1>1, <1>2 DEF ContextsTyped
<1>5. IsInjective(chain) /\ Range(chain) = {Main} /\ 2..1 = {}
  BY <1>2, <1>3 DEF IsInjective, Range
<1>6. JumpsBack
  BY <1>1, <1>2, <1>5 DEF JumpsBack
<1>7. CurrentIsExecuting
  <2>1. 1 \in 1..1 /\ (1 + 1)..1 = {}
    OBVIOUS
  <2> QED BY <1>1, <1>2, <2>1 DEF CurrentIsExecuting, Executes
<1>8. SavedWasExecuting
  BY <1>2, <1>5 DEF SavedWasExecuting
<1> QED BY <1>4, <1>6, <1>7, <1>8 DEF ContextInv

LEMMA Starts ==
  ASSUME Init
  PROVE  IInv
<1>1. stack = [c \in Coros |-> Null] /\ PoolInit
  BY DEF Init
<1>2. PoolInv
  BY <1>1, PoolStarts
<1>3. StackInv
  BY <1>1, <1>2 DEF StackInv
<1> QED BY <1>3, ContextsStart DEF IInv

LEMMA Steps ==
  ASSUME IInv, [Next]_vars
  PROVE  IInv'
<1> USE DEF IInv
<1>0. /\ state \in [Coros -> {"none", "HOLD", "EXEC", "TERM"}]
      /\ orig \in [Coros -> Coros \cup {Main, Null}] /\ saved \in [Coros -> Coros \cup {Null}]
      /\ unwinding \subseteq {c \in Coros : state[c] = "HOLD"}
      /\ making \subseteq {c \in Coros : state[c] = "EXEC"}
  BY DEF ContextInv, ContextsTyped
<1>1. ASSUME NEW c \in Coros, CreateDead(c) PROVE IInv'
  <2>1. /\ state[c] = "none" /\ state' = [state EXCEPT ![c] = "TERM"] /\ stack' = stack
        /\ orig' = orig /\ saved' = saved /\ UNCHANGED <<chain, current, making, unwinding>>
        /\ UNCHANGED poolVars
    BY <1>1 DEF CreateDead
  <2>2. c \notin unwinding
    BY <1>0, <2>1
  <2> QED BY <1>0, <2>1, <2>2, IdleStep, SameStacks
<1>2. ASSUME NEW c \in Coros, CreateCoroutine(c) PROVE IInv'
  <2>1. /\ state[c] = "none" /\ state' = [state EXCEPT ![c] = "HOLD"] /\ MakeContext(c)
        /\ orig' = orig /\ saved' = saved /\ UNCHANGED <<chain, current, making, unwinding>>
    BY <1>2 DEF CreateCoroutine
  <2>2. c \notin unwinding
    BY <1>0, <2>1
  <2> QED BY <1>0, <2>1, <2>2, IdleStep, MakeStep
<1>3. ASSUME NEW c \in Coros, CreateGenerator(c) PROVE IInv'
  <2>1. /\ state[c] = "none" /\ Enter(c) /\ MakeContext(c) /\ unwinding' = unwinding
        /\ making' = making \cup {c}
    BY <1>3 DEF CreateGenerator
  <2>2. c \notin unwinding
    BY <1>0, <2>1
  <2> QED BY <2>1, <2>2, EnterStep, MakeStep
<1>4. ASSUME NEW c \in Coros, Resume(c) PROVE IInv'
  <2>1. /\ state[c] = "HOLD" /\ c \notin unwinding /\ Enter(c) /\ unwinding' = unwinding
        /\ making' = making /\ stack' = stack /\ UNCHANGED poolVars
    BY <1>4 DEF Resume, Suspended, objects
  <2> QED BY <2>1, EnterStep, SameStacks
<1>5. ASSUME NEW c \in Coros, DestroyIdle(c) PROVE IInv'
  <2>1. /\ state[c] # "EXEC" /\ c \notin unwinding /\ state' = [state EXCEPT ![c] = "none"]
        /\ orig' = [orig EXCEPT ![c] = Null] /\ saved' = [saved EXCEPT ![c] = Null]
        /\ UNCHANGED <<chain, current, making, unwinding>> /\ Gone(c)
    BY <1>5 DEF DestroyIdle, Destroyable, Gone
  <2>2. /\ orig' \in [Coros -> Coros \cup {Main, Null}] /\ saved' \in [Coros -> Coros \cup {Null}]
        /\ \A d \in Coros \ {c} : orig'[d] = orig[d] /\ saved'[d] = saved[d]
    BY <1>0, <2>1
  <2> QED BY <2>1, <2>2, IdleStep, GoneStep
<1>6. ASSUME NEW c \in Coros, Unwind(c) PROVE IInv'
  <2>1. c \notin unwinding /\ stack' = stack /\ UNCHANGED poolVars
    BY <1>6 DEF Unwind, Destroyable
  <2> QED BY <1>6, <2>1, UnwindStep, SameStacks
<1>7. ASSUME NEW s \in {"HOLD", "TERM"}, Leave(s), making' = making \ {Running},
             unwinding' = unwinding
      PROVE  ContextInv'
  <2>1. /\ Running \in Coros \ unwinding /\ state' = [state EXCEPT ![Running] = s]
        /\ chain' = Front(chain) /\ current' = saved[Running] /\ orig' = orig /\ saved' = saved
    BY <1>7 DEF Leave
  <2> QED BY <1>0, <1>7, <2>1, LeaveStep
<1>8. CASE Yield
  <2>1. /\ Leave("HOLD") /\ making' = making \ {Running} /\ unwinding' = unwinding
        /\ stack' = stack /\ UNCHANGED poolVars
    BY <1>8 DEF Yield
  <2> QED BY <1>7, <2>1, SameStacks
<1>9. CASE Return
  <2>1. /\ Leave("TERM") /\ making' = making \ {Running} /\ unwinding' = unwinding
        /\ stack' = stack /\ UNCHANGED poolVars
    BY <1>9 DEF Return
  <2> QED BY <1>7, <2>1, SameStacks
<1>10. CASE Throw
  <2>1. /\ Running \notin making /\ Leave("TERM") /\ making' = making /\ unwinding' = unwinding
        /\ stack' = stack /\ UNCHANGED poolVars
    BY <1>10 DEF Throw, objects
  <2>2. making' = making \ {Running}
    BY <2>1
  <2> QED BY <1>7, <2>1, <2>2, SameStacks
<1>11. CASE ThrowFirst
  <2> DEFINE c == Running
  <2>1. /\ c \in making /\ state' = [state EXCEPT ![c] = "none"] /\ chain' = Front(chain)
        /\ current' = saved[c] /\ making' = making \ {c} /\ unwinding' = unwinding /\ Gone(c)
        /\ orig' = [orig EXCEPT ![c] = Null] /\ saved' = [saved EXCEPT ![c] = Null]
    BY <1>11 DEF ThrowFirst, Gone
  <2>2. c = Running
    OBVIOUS
  <2> HIDE DEF c
  <2>3. c \in Coros /\ c \notin unwinding
    BY <1>0, <2>1
  <2>4. /\ orig' \in [Coros -> Coros \cup {Main, Null}] /\ saved' \in [Coros -> Coros \cup {Null}]
        /\ \A d \in Coros \ {c} : orig'[d] = orig[d] /\ saved'[d] = saved[d]
    BY <1>0, <2>1
  <2> QED BY <2>1, <2>2, <2>3, <2>4, LeaveStep, GoneStep
<1>12. CASE Unwound
  <2>1. Running \in Coros /\ Gone(Running)
    BY <1>0, <1>12 DEF Unwound
  <2> QED BY <1>12, <2>1, UnwoundStep, GoneStep
<1>13. CASE PoolScope
  BY <1>13, ScopeStep, SameContexts DEF PoolScope, contexts, objects
<1>14. CASE UNCHANGED vars
  BY <1>14, SameContexts, SameStacks DEF vars
<1> QED BY <1>1, <1>2, <1>3, <1>4, <1>5, <1>6, <1>8, <1>9, <1>10, <1>11, <1>12, <1>13, <1>14
        DEF Next

\* The coroutines and their stacks keep the invariant.
THEOREM Inductive == Spec => []IInv
<1>1. Init => IInv
  BY Starts
<1>2. IInv /\ [Next]_vars => IInv'
  BY Steps
<1> QED BY <1>1, <1>2, PTL DEF Spec

\* Every yield, return and exception leads to who resumed the coroutine last, and
\* what executes is what the chain says, however many coroutines resume, create
\* and destroy each other in whatever order.
THEOREM JumpsGoBack == Spec => []JumpsBack
<1>1. IInv => JumpsBack
  BY DEF IInv, ContextInv
<1> QED BY <1>1, Inductive, PTL

\* current() is the coroutine that executes.
THEOREM CurrentExecutes == Spec => []CurrentIsExecuting
<1>1. IInv => CurrentIsExecuting
  BY DEF IInv, ContextInv
<1> QED BY <1>1, Inductive, PTL

\* No two coroutines run on one stack, nor does one on a stack that a pool can
\* hand out or whose memory was given back.
THEOREM StacksAreOwn == Spec => []OwnStack
<1>1. ASSUME IInv PROVE OwnStack
  <2>1. ASSUME NEW c \in Coros, stack[c] # Null
        PROVE  /\ stack[c] \in taken /\ stack[c][1] \in mapped
               /\ \A p \in Pools : stack[c] \notin Range(pool[p].unused)
    <3>1. stack[c] \in taken
      BY <1>1, <2>1 DEF IInv, StackInv
    <3> QED BY <1>1, <3>1 DEF IInv, StackInv, PoolInv, PoolOK
  <2> QED BY <1>1, <2>1 DEF IInv, StackInv, OwnStack
<1> QED BY <1>1, Inductive, PTL

-----------------------------------------------------------------------------
(* Signals: the slots, the indices and the emissions                       *)

\* Of the emissions of a signal, what each keeps.
Emissions == [at : Nat, calls : [Handlers -> Nat], owes : SUBSET Handlers]
SignalTypeOK ==
  /\ funcs \in Seq(Handlers \cup {NoHandler})
  /\ index \in [Handlers -> Nat]
  /\ frames \in Seq(Emissions)

\* A function in a slot is that of the handler with its index.
SlotsAreIndexed ==
  \A i \in 1..Len(funcs) : funcs[i] # NoHandler => index[funcs[i]] = i

\* An emission counts on handlers that are connected; those up to its own index
\* were called once, the others not yet.
PaysWhatItOwes(f, ix) ==
  \A h \in f.owes : /\ ix[h] # 0
                    /\ f.calls[h] = IF ix[h] > f.at THEN 0 ELSE 1

EmissionsPay == \A k \in 1..Len(frames) : PaysWhatItOwes(frames[k], index)

SignalInv == SignalTypeOK /\ IndexIsOwn /\ SlotsAreIndexed /\ EmissionsPay

\* A set of numbers that is not empty has a least one.
LEMMA LeastIsFirst ==
  ASSUME NEW S \in SUBSET Nat, S # {}
  PROVE  First(S) \in S /\ \A j \in S : First(S) <= j
<1> DEFINE HasLeast(n) == \A T \in SUBSET Nat :
             (\E i \in T : i <= n) => \E i \in T : \A j \in T : i <= j
           N == {n \in Nat : HasLeast(n)}
<1>1. 0 \in N
  OBVIOUS
<1>2. ASSUME NEW n \in Nat, n \in N PROVE n + 1 \in N
  <2> SUFFICES ASSUME NEW T \in SUBSET Nat, NEW i \in T, i <= n + 1
               PROVE  \E k \in T : \A j \in T : k <= j
    BY <1>2
  <2>1. CASE \E k \in T : k <= n
    BY <1>2, <2>1
  <2>2. CASE ~\E k \in T : k <= n
    <3>1. \A j \in T : i <= j
      BY <2>2
    <3> QED BY <3>1
  <2> QED BY <2>1, <2>2
<1>3. Nat \subseteq N
  <2> HIDE DEF N
  <2> QED BY <1>1, <1>2, FromZeroOn
<1>4. \E i \in S : \A j \in S : i <= j
  <2>1. PICK i \in S : TRUE
    OBVIOUS
  <2>2. HasLeast(i)
    BY <1>3
  <2> QED BY <2>1, <2>2
<1> QED BY <1>4 DEF First

\* The next slot, as emit looks for it.
LEMMA SlotAhead ==
  ASSUME SignalTypeOK, NEW n \in Nat
  PROVE  LET i == NextSlot(n + 1) IN
         i # 0 => /\ i \in 1..Len(funcs) /\ i > n /\ funcs[i] \in Handlers
                  /\ \A j \in 1..Len(funcs) : n < j /\ j < i => funcs[j] = NoHandler
<1> DEFINE S == {j \in DOMAIN funcs : j >= n + 1 /\ funcs[j] # NoHandler}
           i == NextSlot(n + 1)
<1> SUFFICES ASSUME i # 0
             PROVE  /\ i \in 1..Len(funcs) /\ i > n /\ funcs[i] \in Handlers
                    /\ \A j \in 1..Len(funcs) : n < j /\ j < i => funcs[j] = NoHandler
  OBVIOUS
<1>1. Len(funcs) \in Nat /\ DOMAIN funcs = 1..Len(funcs)
  BY LenProperties DEF SignalTypeOK
<1>2. S \in SUBSET Nat /\ S # {} /\ i = First(S)
  BY <1>1 DEF NextSlot
<1>3. i \in S /\ \A j \in S : i <= j
  BY <1>2, LeastIsFirst
<1>4. funcs[i] \in Handlers
  BY <1>1, <1>3, ElementOfSeq DEF SignalTypeOK
<1>5. \A j \in 1..Len(funcs) : n < j /\ j < i => funcs[j] = NoHandler
  BY <1>1, <1>3
<1> QED BY <1>1, <1>3, <1>4, <1>5

\* A call at the next slot goes to who is owed one, if anybody there is.
LEMMA CallPays ==
  ASSUME SignalInv, NEW f \in Emissions, PaysWhatItOwes(f, index), NextSlot(f.at + 1) # 0
  PROVE  LET g == CallAt(f, NextSlot(f.at + 1)) IN g \in Emissions /\ PaysWhatItOwes(g, index)
<1> DEFINE i == NextSlot(f.at + 1)
           g == CallAt(f, i)
           c == funcs[i]
<1>1. f.at \in Nat /\ f.calls \in [Handlers -> Nat] /\ f.owes \subseteq Handlers
  BY DEF Emissions
<1>2. /\ i \in 1..Len(funcs) /\ i > f.at /\ c \in Handlers
      /\ \A j \in 1..Len(funcs) : f.at < j /\ j < i => funcs[j] = NoHandler
  BY <1>1, SlotAhead DEF SignalInv
<1>3. Len(funcs) \in Nat /\ index[c] = i
  BY <1>2, HandlersAssumption, LenProperties DEF SignalInv, SignalTypeOK, SlotsAreIndexed
<1> HIDE DEF i, c
<1>4. /\ g.at = i /\ g.owes = f.owes
      /\ g.calls = [f.calls EXCEPT ![c] = IF c \in f.owes THEN @ + 1 ELSE @]
      /\ g = [at |-> g.at, calls |-> g.calls, owes |-> g.owes]
  <2>1. /\ g = [f EXCEPT !.at = i,
                       !.calls[c] = IF c \in f.owes THEN @ + 1 ELSE @]
        /\ f \in [at : Nat, calls : [Handlers -> Nat], owes : SUBSET Handlers]
    BY DEF CallAt, Emissions, c
  <2> HIDE DEF g
  <2> QED BY <2>1
<1>5. g \in Emissions
  <2>1. g.calls \in [Handlers -> Nat]
    BY <1>1, <1>2, <1>4
  <2> QED BY <1>1, <1>2, <1>3, <1>4, <2>1 DEF Emissions
<1>6. ASSUME NEW h \in f.owes
      PROVE  index[h] # 0 /\ g.calls[h] = IF index[h] > i THEN 0 ELSE 1
  <2>1. /\ h \in Handlers /\ index[h] \in 1..Len(funcs) /\ funcs[index[h]] = h
        /\ f.calls[h] = IF index[h] > f.at THEN 0 ELSE 1
    BY <1>1, <1>3 DEF SignalInv, SignalTypeOK, IndexIsOwn, PaysWhatItOwes
  <2>2. CASE h = c
    BY <1>1, <1>2, <1>3, <1>4, <2>1, <2>2
  <2>3. CASE h # c
    <3>1. g.calls[h] = f.calls[h]
      BY <1>1, <1>4, <2>1, <2>3
    <3>2. index[h] # i
      BY <2>1, <2>3 DEF c
    <3>3. index[h] <= f.at \/ index[h] >= i
      BY <1>1, <1>2, <1>3, <2>1, HandlersAssumption
    <3> QED BY <1>1, <1>2, <1>3, <2>1, <3>1, <3>2, <3>3
  <2> QED BY <2>2, <2>3
<1>7. PaysWhatItOwes(g, index)
  BY <1>4, <1>6 DEF PaysWhatItOwes
<1> QED BY <1>5, <1>7 DEF i


\* A handler that goes is one nobody counts on, and nobody counts on one that is
\* not connected.
LEMMA OthersArePaid ==
  ASSUME NEW f \in Emissions, PaysWhatItOwes(f, index), NEW h \in Handlers, h \notin f.owes,
         NEW i \in Nat, index \in [Handlers -> Nat]
  PROVE  PaysWhatItOwes(f, [index EXCEPT ![h] = i])
BY DEF PaysWhatItOwes, Emissions

\* What is left to pay when one handler is forgotten.
LEMMA ForgetsOne ==
  ASSUME SignalInv, NEW h \in Handlers
  PROVE  /\ Forget(h) \in Seq(Emissions) /\ Len(Forget(h)) = Len(frames)
         /\ \A k \in 1..Len(frames) : PaysWhatItOwes(Forget(h)[k], [index EXCEPT ![h] = 0])
<1> DEFINE e(k) == [frames[k] EXCEPT !.owes = @ \ {h}, !.calls[h] = 0]
<1>1. Len(frames) \in Nat /\ DOMAIN frames = 1..Len(frames) /\ index \in [Handlers -> Nat]
  BY LenProperties DEF SignalInv, SignalTypeOK
<1>2. ASSUME NEW k \in 1..Len(frames)
      PROVE  e(k) \in Emissions /\ PaysWhatItOwes(e(k), [index EXCEPT ![h] = 0])
  <2>1. frames[k] \in Emissions /\ PaysWhatItOwes(frames[k], index)
    BY <1>1, ElementOfSeq DEF SignalInv, SignalTypeOK, EmissionsPay
  <2>2. /\ e(k) \in Emissions /\ e(k).owes = frames[k].owes \ {h} /\ e(k).at = frames[k].at
        /\ e(k).calls = [frames[k].calls EXCEPT ![h] = 0]
    BY <2>1 DEF Emissions
  <2> HIDE DEF e
  <2>3. \A g \in e(k).owes : e(k).calls[g] = frames[k].calls[g] /\ g \in frames[k].owes
    BY <2>1, <2>2 DEF Emissions
  <2>4. PaysWhatItOwes(e(k), index)
    BY <2>1, <2>2, <2>3 DEF PaysWhatItOwes
  <2> QED BY <1>1, <2>2, <2>4, OthersArePaid
<1>3. Forget(h) = [k \in 1..Len(frames) |-> e(k)]
  BY <1>1 DEF Forget
<1> HIDE DEF e
<1>4. Forget(h) \in [1..Len(frames) -> Emissions]
  BY <1>2, <1>3
<1>5. Forget(h) \in Seq(Emissions) /\ Len(Forget(h)) = Len(frames)
  BY <1>1, <1>4, SeqDef, LenProperties
<1> QED BY <1>2, <1>3, <1>5

\* A step of a signal keeps its books.
LEMMA SignalStep ==
  ASSUME SignalInv, [SignalNext]_signalVars
  PROVE  SignalInv'
<1> USE HandlersAssumption
<1>1. /\ funcs \in Seq(Handlers \cup {NoHandler}) /\ index \in [Handlers -> Nat]
      /\ frames \in Seq(Emissions)
      /\ Len(funcs) \in Nat /\ DOMAIN funcs = 1..Len(funcs)
      /\ Len(frames) \in Nat /\ DOMAIN frames = 1..Len(frames)
  BY LenProperties DEF SignalInv, SignalTypeOK
<1>2. /\ \A h \in Handlers : index[h] # 0 => index[h] <= Len(funcs) /\ funcs[index[h]] = h
      /\ \A i \in 1..Len(funcs) : funcs[i] # NoHandler => index[funcs[i]] = i
  BY DEF SignalInv, IndexIsOwn, SlotsAreIndexed
<1>3. \A k \in 1..Len(frames) : frames[k] \in Emissions /\ PaysWhatItOwes(frames[k], index)
  BY <1>1, ElementOfSeq DEF SignalInv, EmissionsPay
\* Nobody counts on a handler that comes.
<1>4. ASSUME NEW h \in Handlers, index[h] = 0, frames' = frames,
             \A g \in Handlers \ {h} : index'[g] = index[g]
      PROVE  EmissionsPay'
  <2>1. \A k \in 1..Len(frames) : h \notin frames[k].owes /\ frames[k].owes \subseteq Handlers
    BY <1>3, <1>4 DEF PaysWhatItOwes, Emissions
  <2> QED BY <1>3, <1>4, <2>1 DEF PaysWhatItOwes, EmissionsPay
<1>5. ASSUME NEW h \in Handlers, Connect(h) PROVE SignalInv'
  <2> DEFINE i == First(Empties)
  <2>1. i \in 1..Len(funcs) /\ funcs[i] = NoHandler
    <3>1. Empties \in SUBSET Nat /\ Empties # {}
      BY <1>1, <1>5 DEF Empties, Connect
    <3>2. i \in Empties
      BY <3>1, LeastIsFirst
    <3> QED BY <1>1, <3>2 DEF Empties
  <2>2. /\ index[h] = 0 /\ index' = [index EXCEPT ![h] = i]
        /\ funcs' = [funcs EXCEPT ![i] = h] /\ frames' = frames
    BY <1>5 DEF Connect
  <2> HIDE DEF i
  <2>3. funcs' \in Seq(Handlers \cup {NoHandler}) /\ Len(funcs') = Len(funcs)
    BY <1>1, <2>1, <2>2, ExceptSeq
  <2>4. IndexIsOwn' /\ SlotsAreIndexed'
    BY <1>1, <1>2, <2>1, <2>2, <2>3 DEF IndexIsOwn, SlotsAreIndexed
  <2>5. EmissionsPay'
    BY <1>1, <1>4, <2>2
  <2> QED BY <1>1, <2>1, <2>2, <2>3, <2>4, <2>5 DEF SignalInv, SignalTypeOK
<1>6. ASSUME NEW h \in Handlers, ConnectGrows(h) PROVE SignalInv'
  <2>1. /\ index[h] = 0 /\ index' = [index EXCEPT ![h] = Len(funcs) + 1]
        /\ funcs' = Append(funcs, h) /\ frames' = frames
    BY <1>6 DEF ConnectGrows
  <2>2. /\ funcs' \in Seq(Handlers \cup {NoHandler}) /\ Len(funcs') = Len(funcs) + 1
        /\ funcs'[Len(funcs) + 1] = h /\ \A i \in 1..Len(funcs) : funcs'[i] = funcs[i]
    BY <1>1, <2>1, AppendProperties
  <2>3. IndexIsOwn' /\ SlotsAreIndexed'
    BY <1>1, <1>2, <2>1, <2>2 DEF IndexIsOwn, SlotsAreIndexed
  <2>4. EmissionsPay'
    BY <1>1, <1>4, <2>1
  <2> QED BY <1>1, <2>1, <2>2, <2>3, <2>4 DEF SignalInv, SignalTypeOK
<1>7. ASSUME NEW h \in Handlers, Disconnect(h) PROVE SignalInv'
  <2>1. /\ index[h] # 0 /\ index' = [index EXCEPT ![h] = 0]
        /\ funcs' = [funcs EXCEPT ![index[h]] = NoHandler] /\ frames' = Forget(h)
    BY <1>7 DEF Disconnect
  <2>2. index[h] \in 1..Len(funcs) /\ funcs[index[h]] = h
    BY <1>1, <1>2, <2>1
  <2>3. funcs' \in Seq(Handlers \cup {NoHandler}) /\ Len(funcs') = Len(funcs)
    BY <1>1, <2>1, <2>2, ExceptSeq
  <2>4. IndexIsOwn' /\ SlotsAreIndexed'
    BY <1>1, <1>2, <2>1, <2>2, <2>3 DEF IndexIsOwn, SlotsAreIndexed
  <2>5. /\ frames' \in Seq(Emissions) /\ Len(frames') = Len(frames)
        /\ EmissionsPay'
    BY <2>1, ForgetsOne DEF EmissionsPay
  <2> QED BY <1>1, <2>1, <2>3, <2>4, <2>5 DEF SignalInv, SignalTypeOK
<1>8. CASE Clear
  <2>1. /\ funcs' = << >> /\ index' = [h \in Handlers |-> 0]
        /\ frames' = [k \in 1..Len(frames) |-> [frames[k] EXCEPT !.owes = {}, !.calls = NoCalls]]
    BY <1>1, <1>8 DEF Clear
  <2>2. \A k \in 1..Len(frames) : frames'[k] \in Emissions /\ frames'[k].owes = {}
    BY <1>3, <2>1 DEF Emissions, NoCalls
  <2>3. frames' \in Seq(Emissions) /\ Len(frames') = Len(frames)
    <3>1. frames' \in [1..Len(frames) -> Emissions]
      BY <2>1, <2>2
    <3> QED BY <1>1, <3>1, SeqDef, LenProperties
  <2>4. funcs' \in Seq(Handlers \cup {NoHandler}) /\ Len(funcs') = 0
    BY <2>1, EmptySeq
  <2>5. EmissionsPay'
    BY <2>2, <2>3 DEF EmissionsPay, PaysWhatItOwes
  <2>6. IndexIsOwn'
    <3>1. \A h \in Handlers : index'[h] = 0
      BY <2>1
    <3> QED BY <3>1 DEF IndexIsOwn
  <2>7. SlotsAreIndexed'
    <3>1. \A i \in 1..Len(funcs') : FALSE
      BY <2>4
    <3> QED BY <3>1 DEF SlotsAreIndexed
  <2> QED BY <2>1, <2>3, <2>4, <2>5, <2>6, <2>7 DEF SignalInv, SignalTypeOK
\* A frame that comes, and one that is another.
<1>9. ASSUME UNCHANGED <<funcs, index>>, frames' \in Seq(Emissions),
             \A k \in 1..Len(frames') : PaysWhatItOwes(frames'[k], index)
      PROVE  SignalInv'
  BY <1>1, <1>9 DEF SignalInv, SignalTypeOK, IndexIsOwn, SlotsAreIndexed, EmissionsPay
<1>10. CASE Emit
  <2> DEFINE f == [at |-> 0, calls |-> NoCalls, owes |-> {h \in Handlers : index[h] # 0}]
             g == CallAt(f, NextSlot(f.at + 1))
  <2>1. f \in Emissions /\ PaysWhatItOwes(f, index)
    BY <1>1 DEF Emissions, PaysWhatItOwes, NoCalls
  <2>2. NextSlot(f.at + 1) # 0 /\ frames' = Append(frames, g) /\ UNCHANGED <<funcs, index>>
    BY <1>10 DEF Emit
  <2> HIDE DEF f
  <2>3. g \in Emissions /\ PaysWhatItOwes(g, index)
    BY <2>1, <2>2, CallPays
  <2> HIDE DEF g
  <2>4. /\ frames' \in Seq(Emissions) /\ Len(frames') = Len(frames) + 1
        /\ frames'[Len(frames) + 1] = g /\ \A k \in 1..Len(frames) : frames'[k] = frames[k]
    BY <1>1, <2>2, <2>3, AppendProperties
  <2> QED BY <1>1, <1>3, <1>9, <2>2, <2>3, <2>4
<1>11. CASE Returns
  <2> DEFINE n == Len(frames)
             f == frames[n]
             g == CallAt(f, NextSlot(f.at + 1))
  <2>1. n \in 1..n /\ Last(frames) = f
    BY <1>1, <1>11, EmptySeq DEF Returns, Last
  <2>2. NextSlot(f.at + 1) # 0 /\ frames' = [frames EXCEPT ![n] = g] /\ UNCHANGED <<funcs, index>>
    BY <1>11, <2>1 DEF Returns
  <2>3. f \in Emissions /\ PaysWhatItOwes(f, index)
    BY <1>3, <2>1
  <2> HIDE DEF f
  <2>4. g \in Emissions /\ PaysWhatItOwes(g, index)
    BY <2>2, <2>3, CallPays
  <2> HIDE DEF g
  <2>5. frames' \in Seq(Emissions) /\ Len(frames') = n
    BY <1>1, <2>1, <2>2, <2>4, ExceptSeq
  <2>6. \A k \in 1..n : frames'[k] = IF k = n THEN g ELSE frames[k]
    BY <1>1, <2>1, <2>2
  <2> QED BY <1>3, <1>9, <2>2, <2>4, <2>5, <2>6
<1>12. CASE EmitEnds
  <2>1. frames' = SubSeq(frames, 1, Len(frames) - 1) /\ UNCHANGED <<funcs, index>> /\ frames # << >>
    BY <1>12 DEF EmitEnds, Front
  <2>2. Len(frames) # 0
    BY <1>1, <2>1, EmptySeq
  <2>3. /\ frames' \in Seq(Emissions) /\ Len(frames') = Len(frames) - 1
        /\ \A k \in 1..(Len(frames) - 1) : frames'[k] = frames[k]
    BY <1>1, <2>1, <2>2, SubSeqProperties
  <2> QED BY <1>1, <1>3, <1>9, <2>1, <2>3
<1>13. CASE UNCHANGED signalVars
  BY <1>1, <1>3, <1>9, <1>13 DEF signalVars
<1> QED BY <1>5, <1>6, <1>7, <1>8, <1>10, <1>11, <1>12, <1>13 DEF SignalNext

\* Every reachable state of a signal satisfies the inductive invariant.
THEOREM SignalInductive == SignalSpec => []SignalInv
<1>1. SignalInit => SignalInv
  BY EmptySeq DEF SignalInit, SignalInv, SignalTypeOK, IndexIsOwn, SlotsAreIndexed, EmissionsPay
<1>2. SignalInv /\ [SignalNext]_signalVars => SignalInv'
  BY SignalStep
<1> QED BY <1>1, <1>2, PTL DEF SignalSpec

\* An index leads to its handler until that is disconnected, and an emission
\* calls everybody once that stays connected through it, for any number of
\* handlers and emissions in one another (connect, disconnect, emit).
THEOREM EveryHandlerIsCalled == SignalSpec => []HandlersAreCalled
<1>1. ASSUME SignalInv PROVE HandlersAreCalled
  <2>1. DOMAIN frames = 1..Len(frames)
    BY <1>1, LenProperties DEF SignalInv, SignalTypeOK
  <2> QED BY <1>1, <2>1 DEF SignalInv, HandlersAreCalled, EveryoneIsCalled, EmissionsPay, PaysWhatItOwes
<1> QED BY <1>1, SignalInductive, PTL

-----------------------------------------------------------------------------
(* Subprocesses: children, their owners and the ends of the pipes          *)

Children == [st : {"none", "forked", "runs", "exited", "reaped"}, piped : SUBSET Streams,
             reads : BOOLEAN, failed : BOOLEAN, kept : BOOLEAN, ran : BOOLEAN]
SubTypeOK ==
  /\ child \in [Pids -> Children]
  /\ held \in SUBSET (Procs \X Pids \X (Streams \cup {"errno"}) \X {"r", "w"})
  /\ owner \in [Objects -> Pids \cup {Nobody}]
  /\ stream \in [Objects -> [Streams -> Pids \cup {Nobody}]]
  /\ waiting \in Objects \cup {Nobody}
  /\ status \in [Pids -> {"none", "zero", "nonzero"}]

\* A child has an owner from its fork until it is reaped or detached.
Looked(p) == child[p].st \notin {"none", "reaped"} /\ child[p].kept
IsOwned == \A p \in Pids : (\E o \in Objects : owner[o] = p) <=> Looked(p)
OwnsAlone == \A o, q \in Objects : owner[o] = owner[q] /\ owner[o] # Nobody => o = q
WaitsForOne == waiting # Nobody => owner[waiting] # Nobody

\* What a child went through tells how it ended.
Fates == \A p \in Pids :
  /\ child[p].st = "runs" => child[p].ran /\ ~child[p].failed
  /\ child[p].st = "forked" => ~child[p].failed
  /\ child[p].st = "exited" /\ ~child[p].failed => child[p].ran
  /\ status[p] = "zero" => child[p].st = "reaped" /\ child[p].ran /\ ~child[p].failed

\* There are ends only of the pipes that a fork made.
EndsOfPipes == \A h \in held :
  child[h[2]].st # "none" /\ h[3] \in child[h[2]].piped \cup {"errno"}

SubInv == /\ SubTypeOK /\ IsOwned /\ OwnsAlone /\ WaitsForOne
          /\ Fates /\ EndsOfPipes /\ NoOwnEnds

\* Who owns which child, over every step that changes it.
LEMMA OwnersStep ==
  ASSUME ProcsAssumption, SubTypeOK, IsOwned, OwnsAlone, WaitsForOne, [SubNext]_subVars
  PROVE  IsOwned' /\ OwnsAlone' /\ WaitsForOne'
<1> USE DEF Looked, Children
<1>1. ASSUME NEW o \in Objects, NEW p \in Pids, NEW piped \in SUBSET Streams,
             NEW reads \in BOOLEAN, Open(o, p, piped, reads)
      PROVE  IsOwned' /\ OwnsAlone' /\ WaitsForOne'
  <2>1. /\ owner[o] = Nobody /\ child[p].st = "none" /\ waiting = Nobody /\ waiting' = waiting
        /\ owner' = [owner EXCEPT ![o] = p]
        /\ child' = [child EXCEPT ![p] = [Absent EXCEPT
                       !.st = "forked", !.piped = piped, !.reads = reads]]
    BY <1>1 DEF Open
  <2>2. child'[p].st = "forked" /\ child'[p].kept /\ \A r \in Pids \ {p} : child'[r] = child[r]
    BY <2>1 DEF SubTypeOK, Absent
  <2>3. \A q \in Objects : owner[q] # p
    BY <2>1 DEF IsOwned
  <2>4. owner'[o] = p /\ \A q \in Objects \ {o} : owner'[q] = owner[q]
    BY <2>1 DEF SubTypeOK
  <2>5. IsOwned'
    BY <2>1, <2>2, <2>3, <2>4 DEF IsOwned, ProcsAssumption
  <2>6. OwnsAlone'
    BY <2>3, <2>4 DEF OwnsAlone
  <2> QED BY <2>1, <2>5, <2>6 DEF WaitsForOne
<1>2. ASSUME UNCHANGED <<owner, waiting>>,
             \A p \in Pids : Looked(p)' <=> Looked(p)
      PROVE  IsOwned' /\ OwnsAlone' /\ WaitsForOne'
  BY <1>2 DEF IsOwned, OwnsAlone, WaitsForOne
<1>3. ASSUME NEW p \in Pids, Exec(p) \/ ExecFails(p) \/ \E f \in BOOLEAN : Exits(p, f)
      PROVE  IsOwned' /\ OwnsAlone' /\ WaitsForOne'
  <2>1. UNCHANGED <<owner, waiting>>
    BY <1>3 DEF Exec, ExecFails, Exits
  <2>2. PICK f \in BOOLEAN :
          /\ child[p].st \in {"forked", "runs"}
          /\ \/ child' = [child EXCEPT ![p].st = "runs", ![p].ran = TRUE]
             \/ child' = [child EXCEPT ![p].st = "exited", ![p].failed = f]
    BY <1>3 DEF Exec, ExecFails, Exits
  <2>3. /\ child'[p].st \in {"runs", "exited"} /\ child'[p].kept = child[p].kept
        /\ \A q \in Pids \ {p} : child'[q] = child[q]
    BY <2>2 DEF SubTypeOK
  <2>4. \A q \in Pids : Looked(q)' <=> Looked(q)
    BY <2>2, <2>3
  <2> QED BY <1>2, <2>1, <2>4
<1>4. ASSUME NEW o \in Objects, NEW s \in Streams, CloseStream(o, s)
      PROVE  IsOwned' /\ OwnsAlone' /\ WaitsForOne'
  BY <1>4 DEF CloseStream, IsOwned, OwnsAlone, WaitsForOne
<1>5. ASSUME NEW o \in Objects, Close(o) PROVE IsOwned' /\ OwnsAlone' /\ WaitsForOne'
  BY <1>5 DEF Close, IsOwned, OwnsAlone, WaitsForOne
\* A child goes from the object that has it.
<1>6. ASSUME NEW o \in Objects, NEW p \in Pids, owner[o] = p, waiting' = Nobody,
             owner' = [owner EXCEPT ![o] = Nobody],
             ~Looked(p)', \A r \in Pids \ {p} : child'[r] = child[r]
      PROVE  IsOwned' /\ OwnsAlone' /\ WaitsForOne'
  <2>1. owner'[o] = Nobody /\ \A q \in Objects \ {o} : owner'[q] = owner[q]
    BY <1>6 DEF SubTypeOK
  <2>2. OwnsAlone'
    BY <2>1 DEF OwnsAlone
  <2>3. \A q \in Objects : owner'[q] # p
    BY <1>6, <2>1 DEF OwnsAlone, ProcsAssumption
  <2>4. ASSUME NEW r \in Pids \ {p}
        PROVE  (\E q \in Objects : owner'[q] = r) <=> \E q \in Objects : owner[q] = r
    BY <1>6, <2>1 DEF ProcsAssumption
  <2>5. IsOwned'
    BY <1>6, <2>3, <2>4 DEF IsOwned
  <2> QED BY <1>6, <2>2, <2>5 DEF WaitsForOne
<1>7. CASE CloseReturns
  <2>1. /\ waiting # Nobody /\ owner' = [owner EXCEPT ![waiting] = Nobody] /\ waiting' = Nobody
        /\ child' = [child EXCEPT ![owner[waiting]].st = "reaped"]
    BY <1>7 DEF CloseReturns
  <2>2. PICK p \in Pids : waiting \in Objects /\ owner[waiting] = p
    BY <2>1 DEF SubTypeOK, WaitsForOne
  <2>3. child'[p].st = "reaped" /\ \A r \in Pids \ {p} : child'[r] = child[r]
    BY <2>1, <2>2 DEF SubTypeOK
  <2>4. ~Looked(p)'
    BY <2>3
  <2> QED BY <1>6, <2>1, <2>2, <2>3, <2>4
<1>8. ASSUME NEW o \in Objects, Detach(o) PROVE IsOwned' /\ OwnsAlone' /\ WaitsForOne'
  <2>1. /\ owner[o] # Nobody /\ owner' = [owner EXCEPT ![o] = Nobody]
        /\ waiting = Nobody /\ waiting' = waiting
        /\ child' = [child EXCEPT ![owner[o]].kept = FALSE]
    BY <1>8 DEF Detach
  <2>2. PICK p \in Pids : owner[o] = p
    BY <2>1 DEF SubTypeOK
  <2>3. child'[p].kept = FALSE /\ \A r \in Pids \ {p} : child'[r] = child[r]
    BY <2>1, <2>2 DEF SubTypeOK
  <2>4. ~Looked(p)'
    BY <2>3
  <2> QED BY <1>6, <2>1, <2>2, <2>3, <2>4
<1>9. ASSUME NEW o \in Objects, NEW q \in Objects, SwapData(o, q)
      PROVE  IsOwned' /\ OwnsAlone' /\ WaitsForOne'
  <2>1. /\ o # q /\ waiting = Nobody /\ waiting' = waiting /\ child' = child
        /\ owner' = [owner EXCEPT ![o] = owner[q], ![q] = owner[o]]
    BY <1>9 DEF SwapData
  <2>2. /\ owner'[o] = owner[q] /\ owner'[q] = owner[o]
        /\ \A r \in Objects \ {o, q} : owner'[r] = owner[r]
    BY <2>1 DEF SubTypeOK
  <2>3. OwnsAlone'
    <3> DEFINE other(a) == IF a = o THEN q ELSE IF a = q THEN o ELSE a
    <3>1. \A a \in Objects : other(a) \in Objects /\ owner'[a] = owner[other(a)]
      BY <2>2
    <3>2. \A a, b \in Objects : other(a) = other(b) => a = b
      OBVIOUS
    <3> HIDE DEF other
    <3> QED BY <3>1, <3>2 DEF OwnsAlone
  <2>4. \A p \in Pids : (\E r \in Objects : owner'[r] = p) <=> \E r \in Objects : owner[r] = p
    BY <2>2
  <2> QED BY <2>1, <2>3, <2>4 DEF IsOwned, WaitsForOne
<1>10. CASE UNCHANGED subVars
  BY <1>10 DEF subVars, IsOwned, OwnsAlone, WaitsForOne
<1> QED BY <1>1, <1>3, <1>4, <1>5, <1>7, <1>8, <1>9, <1>10 DEF SubNext

\* How the children fare, over every step of theirs.
LEMMA FatesStep ==
  ASSUME SubTypeOK, Fates, IsOwned, WaitsForOne, [SubNext]_subVars
  PROVE  child' \in [Pids -> Children] /\ status' \in [Pids -> {"none", "zero", "nonzero"}] /\ Fates'
<1> DEFINE Good == /\ child' \in [Pids -> Children]
                   /\ status' \in [Pids -> {"none", "zero", "nonzero"}] /\ Fates'
<1> USE DEF Children
<1>0. child \in [Pids -> Children] /\ status \in [Pids -> {"none", "zero", "nonzero"}]
  BY DEF SubTypeOK
\* One child goes on, and the others stay as they were.
<1>1. ASSUME NEW p \in Pids, NEW c \in Children, child' = [child EXCEPT ![p] = c],
             status' = status, child[p].st # "reaped",
             c.st = "runs" => c.ran /\ ~c.failed,
             c.st = "forked" => ~c.failed,
             c.st = "exited" /\ ~c.failed => c.ran
      PROVE  Good
  <2>1. child'[p] = c /\ \A q \in Pids \ {p} : child'[q] = child[q]
    BY <1>0, <1>1
  <2>2. child' \in [Pids -> Children]
    BY <1>0, <1>1
  <2> QED BY <1>0, <1>1, <2>1, <2>2 DEF Fates
<1>2. ASSUME NEW o \in Objects, NEW p \in Pids, NEW piped \in SUBSET Streams,
             NEW reads \in BOOLEAN, Open(o, p, piped, reads)
      PROVE  Good
  <2> DEFINE c == [Absent EXCEPT !.st = "forked", !.piped = piped, !.reads = reads]
  <2>1. c \in Children /\ c.st = "forked" /\ ~c.failed
    BY DEF Absent
  <2>2. child' = [child EXCEPT ![p] = c] /\ status' = status /\ child[p].st = "none"
    BY <1>2 DEF Open
  <2> HIDE DEF c
  <2> QED BY <1>1, <2>1, <2>2
<1>3. ASSUME NEW p \in Pids, Exec(p) PROVE Good
  <2> DEFINE c == [child[p] EXCEPT !.st = "runs", !.ran = TRUE]
  <2>1. child[p].st = "forked" /\ child' = [child EXCEPT ![p] = c] /\ status' = status
    BY <1>0, <1>3 DEF Exec
  <2>2. c \in Children /\ c.st = "runs" /\ c.ran /\ c.failed = child[p].failed
    BY <1>0
  <2>3. ~child[p].failed
    BY <2>1 DEF Fates
  <2> HIDE DEF c
  <2> QED BY <1>1, <2>1, <2>2, <2>3
<1>4. ASSUME NEW p \in Pids, ExecFails(p) PROVE Good
  <2> DEFINE c == [child[p] EXCEPT !.st = "exited", !.failed = TRUE]
  <2>1. child[p].st = "forked" /\ child' = [child EXCEPT ![p] = c] /\ status' = status
    BY <1>0, <1>4 DEF ExecFails
  <2>2. c \in Children /\ c.st = "exited" /\ c.failed
    BY <1>0
  <2> HIDE DEF c
  <2> QED BY <1>1, <2>1, <2>2
<1>5. ASSUME NEW p \in Pids, NEW f \in BOOLEAN, Exits(p, f) PROVE Good
  <2> DEFINE c == [child[p] EXCEPT !.st = "exited", !.failed = f]
  <2>1. child[p].st = "runs" /\ child' = [child EXCEPT ![p] = c] /\ status' = status
    BY <1>0, <1>5 DEF Exits
  <2>2. c \in Children /\ c.st = "exited" /\ c.ran = child[p].ran
    BY <1>0
  <2>3. child[p].ran
    BY <2>1 DEF Fates
  <2> HIDE DEF c
  <2> QED BY <1>1, <2>1, <2>2, <2>3
<1>6. ASSUME NEW o \in Objects, Detach(o) PROVE Good
  <2>1. owner[o] # Nobody
    BY <1>6 DEF Detach
  <2>2. PICK p \in Pids : owner[o] = p
    BY <2>1 DEF SubTypeOK
  <2> DEFINE c == [child[p] EXCEPT !.kept = FALSE]
  <2>3. child' = [child EXCEPT ![p] = c] /\ status' = status
    BY <1>0, <1>6, <2>2 DEF Detach
  <2>4. /\ c \in Children /\ c.st = child[p].st
        /\ c.ran = child[p].ran /\ c.failed = child[p].failed
    BY <1>0
  <2>5. child[p].st # "reaped"
    BY <2>2 DEF IsOwned, Looked
  <2> HIDE DEF c
  <2> QED BY <1>1, <2>3, <2>4, <2>5 DEF Fates
<1>7. CASE CloseReturns
  <2>1. waiting # Nobody
    BY <1>7 DEF CloseReturns
  <2>2. PICK p \in Pids : owner[waiting] = p
    BY <2>1 DEF SubTypeOK, WaitsForOne
  <2> DEFINE c == [child[p] EXCEPT !.st = "reaped"]
             r == IF child[p].failed THEN "nonzero" ELSE "zero"
  <2>3. /\ child[p].st = "exited" /\ child' = [child EXCEPT ![p] = c]
        /\ status' = [status EXCEPT ![p] = r]
    BY <1>0, <1>7, <2>2 DEF CloseReturns
  <2>4. /\ c \in Children /\ c.st = "reaped"
        /\ c.ran = child[p].ran /\ c.failed = child[p].failed
    BY <1>0
  <2> HIDE DEF c
  <2>5. /\ child'[p] = c /\ \A q \in Pids \ {p} : child'[q] = child[q]
        /\ status'[p] = r /\ \A q \in Pids \ {p} : status'[q] = status[q]
    BY <1>0, <2>3
  <2>6. child' \in [Pids -> Children] /\ status' \in [Pids -> {"none", "zero", "nonzero"}]
    BY <1>0, <2>3, <2>4
  <2> QED BY <2>3, <2>4, <2>5, <2>6 DEF Fates
<1>8. ASSUME UNCHANGED <<child, status>> PROVE Good
  BY <1>0, <1>8 DEF Fates
<1>9. ASSUME \/ \E o \in Objects, s \in Streams : CloseStream(o, s)
             \/ \E o \in Objects : Close(o)
             \/ \E o, q \in Objects : SwapData(o, q)
             \/ UNCHANGED subVars
      PROVE  Good
  BY <1>8, <1>9 DEF CloseStream, Close, SwapData, subVars
<1> QED BY <1>2, <1>3, <1>4, <1>5, <1>6, <1>7, <1>9 DEF SubNext

\* The objects point at children, over every step.
LEMMA ObjectsStep ==
  ASSUME SubTypeOK, [SubNext]_subVars
  PROVE  /\ owner' \in [Objects -> Pids \cup {Nobody}]
         /\ stream' \in [Objects -> [Streams -> Pids \cup {Nobody}]]
         /\ waiting' \in Objects \cup {Nobody}
<1> DEFINE Good == /\ owner' \in [Objects -> Pids \cup {Nobody}]
                   /\ stream' \in [Objects -> [Streams -> Pids \cup {Nobody}]]
                   /\ waiting' \in Objects \cup {Nobody}
<1>0. /\ owner \in [Objects -> Pids \cup {Nobody}]
      /\ stream \in [Objects -> [Streams -> Pids \cup {Nobody}]]
      /\ waiting \in Objects \cup {Nobody}
  BY DEF SubTypeOK
<1>1. ASSUME NEW o \in Objects, NEW p \in Pids, NEW piped \in SUBSET Streams,
             NEW reads \in BOOLEAN, Open(o, p, piped, reads)
      PROVE  Good
  BY <1>0, <1>1 DEF Open
<1>2. ASSUME NEW p \in Pids, Exec(p) \/ ExecFails(p) \/ \E f \in BOOLEAN : Exits(p, f)
      PROVE  Good
  BY <1>0, <1>2 DEF Exec, ExecFails, Exits
<1>3. ASSUME NEW o \in Objects, NEW s \in Streams, CloseStream(o, s) PROVE Good
  BY <1>0, <1>3 DEF CloseStream
<1>4. ASSUME NEW o \in Objects, Close(o) \/ Detach(o) PROVE Good
  BY <1>0, <1>4 DEF Close, Detach
<1>5. CASE CloseReturns
  BY <1>0, <1>5 DEF CloseReturns
<1>6. ASSUME NEW o \in Objects, NEW q \in Objects, SwapData(o, q) PROVE Good
  BY <1>0, <1>6 DEF SwapData
<1>7. CASE UNCHANGED subVars
  BY <1>0, <1>7 DEF subVars
<1> QED BY <1>1, <1>2, <1>3, <1>4, <1>5, <1>6, <1>7 DEF SubNext

\* Who holds which end, over every step.
HeldOK == held \in SUBSET (Procs \X Pids \X (Streams \cup {"errno"}) \X {"r", "w"})
LEMMA EndsStep ==
  ASSUME ProcsAssumption, SubTypeOK, EndsOfPipes, NoOwnEnds, [SubNext]_subVars
  PROVE  HeldOK' /\ EndsOfPipes' /\ NoOwnEnds'
<1> USE DEF Children
<1>0. child \in [Pids -> Children] /\ HeldOK
  BY DEF SubTypeOK, HeldOK
<1>1. ASSUME NEW o \in Objects, NEW p \in Pids, NEW piped \in SUBSET Streams,
             NEW reads \in BOOLEAN, Open(o, p, piped, reads)
      PROVE  HeldOK' /\ EndsOfPipes' /\ NoOwnEnds'
  <2>1. child[p].st = "none"
    BY <1>1 DEF Open
  <2>2. /\ child'[p].st = "forked" /\ child'[p].piped = piped
        /\ \A q \in Pids \ {p} : child'[q] = child[q]
    BY <1>0, <1>1 DEF Open, Absent
  <2>3. ASSUME NEW h \in held' PROVE
          \/ h \in held
          \/ \E s \in piped : h = <<Caller, p, s, Ours(s)>>
          \/ \E g \in held : h = <<p, g[2], g[3], g[4]>>
          \/ \E s \in piped \cup {"errno"}, side \in {"r", "w"} : h = <<p, p, s, side>>
    BY <1>1 DEF Open, Ends, InheritedBy
  <2>4. ASSUME NEW h \in held
        PROVE  /\ h[1] \in Procs /\ h[2] \in Pids /\ h[3] \in Streams \cup {"errno"}
               /\ h[4] \in {"r", "w"} /\ h[2] # p
    BY <1>0, <2>1 DEF HeldOK, EndsOfPipes
  <2>5. HeldOK'
    BY <1>0, <2>3, <2>4 DEF HeldOK, Procs, Ours
  <2>6. EndsOfPipes'
    BY <2>2, <2>3, <2>4 DEF EndsOfPipes
  <2>7. NoOwnEnds'
    <3> SUFFICES ASSUME NEW q \in Pids, NEW s \in Streams, child'[q].st = "runs",
                        <<q, q, s, Ours(s)>> \in held'
                 PROVE  FALSE
      BY DEF NoOwnEnds
    <3>1. q # p /\ child[q].st = "runs" /\ q # Caller
      BY <2>2 DEF ProcsAssumption
    <3> QED BY <2>3, <3>1 DEF NoOwnEnds
  <2> QED BY <2>5, <2>6, <2>7
\* Of the ends that are there some go, and the pipes of a child do not change.
<1>2. ASSUME held' \subseteq held,
             \A p \in Pids : child'[p].piped = child[p].piped
                          /\ (child[p].st # "none" => child'[p].st # "none")
      PROVE  HeldOK' /\ EndsOfPipes'
  <2>1. HeldOK'
    BY <1>0, <1>2 DEF HeldOK
  <2>2. \A h \in held : h[2] \in Pids
    BY <1>0 DEF HeldOK
  <2> QED BY <1>2, <2>1, <2>2 DEF EndsOfPipes
<1>3. ASSUME NEW p \in Pids, Exec(p) PROVE HeldOK' /\ EndsOfPipes' /\ NoOwnEnds'
  <2>1. /\ child[p].st = "forked" /\ child'[p].st = "runs" /\ child'[p].piped = child[p].piped
        /\ \A q \in Pids \ {p} : child'[q] = child[q]
    BY <1>0, <1>3 DEF Exec
  <2>2. held' = held \ (ClosedByChild(p) \cup {<<p, p, "errno", "w">>})
    BY <1>3 DEF Exec
  <2>3. HeldOK' /\ EndsOfPipes'
    BY <1>2, <2>1, <2>2
  <2>4. ASSUME NEW s \in Streams, <<p, p, s, Ours(s)>> \in held
        PROVE  <<p, p, s, Ours(s)>> \in ClosedByChild(p)
    <3>1. s \in child[p].piped \cup {"errno"}
      BY <2>4 DEF EndsOfPipes
    <3> QED BY <3>1 DEF ClosedByChild, Piped, Ours
  <2>5. NoOwnEnds'
    BY <2>1, <2>2, <2>4 DEF NoOwnEnds
  <2> QED BY <2>3, <2>5
\* No child gets past exec.
<1>4. ASSUME held' \subseteq held,
             \A p \in Pids : /\ child'[p].piped = child[p].piped
                             /\ child[p].st # "none" => child'[p].st # "none"
                             /\ child'[p].st = "runs" => child[p].st = "runs"
      PROVE  HeldOK' /\ EndsOfPipes' /\ NoOwnEnds'
  BY <1>2, <1>4 DEF NoOwnEnds
<1>5. ASSUME NEW p \in Pids, ExecFails(p) \/ \E f \in BOOLEAN : Exits(p, f)
      PROVE  HeldOK' /\ EndsOfPipes' /\ NoOwnEnds'
  <2>1. PICK f \in BOOLEAN : /\ child' = [child EXCEPT ![p].st = "exited", ![p].failed = f]
                             /\ held' = held \ Ends(p)
    BY <1>5 DEF ExecFails, Exits
  <2>2. /\ child'[p].piped = child[p].piped /\ child'[p].st = "exited"
        /\ \A q \in Pids \ {p} : child'[q] = child[q]
    BY <1>0, <2>1
  <2> QED BY <1>4, <2>1, <2>2
<1>6. ASSUME NEW o \in Objects, Detach(o) PROVE HeldOK' /\ EndsOfPipes' /\ NoOwnEnds'
  <2>1. PICK p \in Pids : owner[o] = p
    BY <1>6 DEF Detach, SubTypeOK
  <2>2. child' = [child EXCEPT ![p].kept = FALSE] /\ held' = held
    BY <1>6, <2>1 DEF Detach
  <2>3. /\ child'[p].piped = child[p].piped /\ child'[p].st = child[p].st
        /\ \A q \in Pids \ {p} : child'[q] = child[q]
    BY <1>0, <2>2
  <2> QED BY <1>4, <2>2, <2>3
<1>7. CASE CloseReturns
  <2>1. held' = held /\ \A p \in Pids : /\ child'[p].piped = child[p].piped
                                        /\ child'[p].st \in {child[p].st, "reaped"}
    BY <1>0, <1>7 DEF CloseReturns
  <2> QED BY <1>4, <2>1
<1>8. ASSUME held' \subseteq held, UNCHANGED child PROVE HeldOK' /\ EndsOfPipes' /\ NoOwnEnds'
  BY <1>4, <1>8
<1>9. ASSUME \/ \E o \in Objects, s \in Streams : CloseStream(o, s)
             \/ \E o \in Objects : Close(o)
             \/ \E o, q \in Objects : SwapData(o, q)
             \/ UNCHANGED subVars
      PROVE  HeldOK' /\ EndsOfPipes' /\ NoOwnEnds'
  BY <1>8, <1>9 DEF CloseStream, Close, SwapData, subVars
<1> QED BY <1>1, <1>3, <1>5, <1>6, <1>7, <1>9 DEF SubNext

-----------------------------------------------------------------------------
(* Every reachable state                                                   *)

\* Every reachable state of the children and their objects satisfies the
\* inductive invariant.
THEOREM SubInductive == SubSpec => []SubInv
<1>1. SubInit => SubInv
  <2> SUFFICES ASSUME SubInit PROVE SubInv
    OBVIOUS
  <2>1. SubTypeOK
    BY DEF SubInit, SubTypeOK, Children, Absent
  <2>2. \A p \in Pids : child[p].st = "none" /\ status[p] = "none"
    BY DEF SubInit, Absent
  <2>3. IsOwned
    BY ProcsAssumption, <2>2 DEF SubInit, IsOwned, Looked, ProcsAssumption
  <2> QED BY <2>1, <2>2, <2>3
        DEF SubInit, SubInv, OwnsAlone, WaitsForOne, Fates, EndsOfPipes, NoOwnEnds
<1>2. SubInv /\ [SubNext]_subVars => SubInv'
  <2> SUFFICES ASSUME SubInv, [SubNext]_subVars PROVE SubInv'
    OBVIOUS
  <2>1. IsOwned' /\ OwnsAlone' /\ WaitsForOne'
    BY ProcsAssumption, OwnersStep DEF SubInv
  <2>2. child' \in [Pids -> Children] /\ status' \in [Pids -> {"none", "zero", "nonzero"}] /\ Fates'
    BY FatesStep DEF SubInv
  <2>3. HeldOK' /\ EndsOfPipes' /\ NoOwnEnds'
    BY ProcsAssumption, EndsStep DEF SubInv
  <2>4. SubTypeOK'
    BY <2>2, <2>3, ObjectsStep DEF SubInv, SubTypeOK, HeldOK
  <2> QED BY <2>1, <2>2, <2>3, <2>4 DEF SubInv
<1> QED BY <1>1, <1>2, PTL DEF SubSpec

\* A child that is neither reaped nor detached belongs to one object, a program
\* holds none of our ends of its own pipes, and close says zero only of a program
\* that ran and ended well, for any number of objects and children in whatever
\* order they are opened, closed, swapped and detached (open_impl, close, detach,
\* swap_data).
THEOREM EveryChildIsKept == SubSpec => []ChildrenAreKept
<1>1. ASSUME SubInv PROVE ChildrenAreKept
  <2>1. ASSUME NEW p \in Pids
        PROVE  Cardinality({o \in Objects : owner[o] = p}) = IF Looked(p) THEN 1 ELSE 0
    <3>1. CASE Looked(p)
      <4>1. PICK o \in Objects : owner[o] = p
        BY <1>1, <3>1 DEF SubInv, IsOwned
      <4>2. {q \in Objects : owner[q] = p} = {o}
        BY <1>1, <4>1, ProcsAssumption DEF SubInv, OwnsAlone, ProcsAssumption
      <4> QED BY <3>1, <4>2, FS_Singleton
    <3>2. CASE ~Looked(p)
      <4>1. {q \in Objects : owner[q] = p} = {}
        BY <1>1, <3>2 DEF SubInv, IsOwned
      <4> QED BY <3>2, <4>1, FS_EmptySet
    <3> QED BY <3>1, <3>2
  <2>2. OneOwner
    BY <2>1 DEF OneOwner, Looked
  <2>3. FailureIsSeen
    BY <1>1 DEF SubInv, Fates, FailureIsSeen
  <2> QED BY <1>1, <2>2, <2>3 DEF SubInv, ChildrenAreKept
<1> QED BY <1>1, SubInductive, PTL

-----------------------------------------------------------------------------
(* File streams: who has a file, and whether it was closed                 *)

FilesTypeOK == /\ file \in [FileStreams -> Nat]
               /\ closes \in [FileStreams -> BOOLEAN]
               /\ closed \in Seq(Nat)
               /\ \A s \in FileStreams : file[s] <= Opened

HoldsAlone == \A s, t \in FileStreams : file[s] = file[t] /\ file[s] # NoFile => s = t

\* A file that a stream has is open, and will be closed unless it was given; one
\* that no stream has was closed once, or given and let go.
IsIn(f) == \E s \in FileStreams : file[s] = f
HeldIsOpen == \A s \in FileStreams : file[s] # NoFile =>
  closed[file[s]] = 0 /\ (file[s] \notin given => closes[s])
LeftIsClosed == \A f \in 1..Opened : ~IsIn(f) =>
  closed[f] <= 1 /\ (f \notin given => closed[f] = 1)

FilesInv == FilesTypeOK /\ HoldsAlone /\ HeldIsOpen /\ LeftIsClosed

\* A stream that is closed leaves its file closed or given.
LEMMA StreamCloses ==
  ASSUME FilesInv, NEW s \in FileStreams
  PROVE  /\ ClosedBy(s) \in Seq(Nat) /\ Len(ClosedBy(s)) = Opened
         /\ \A f \in 1..Opened : f # file[s] => ClosedBy(s)[f] = closed[f]
         /\ file[s] # NoFile => /\ ClosedBy(s)[file[s]] <= 1
                                /\ file[s] \notin given => ClosedBy(s)[file[s]] = 1
<1> USE DEF FilesInv, FilesTypeOK, Opened, NoFile
<1>1. CASE file[s] # NoFile /\ closes[s]
  <2>1. file[s] \in 1..Len(closed) /\ closed[file[s]] = 0
    BY <1>1, LenProperties DEF HeldIsOpen
  <2>2. ClosedBy(s) = [closed EXCEPT ![file[s]] = 1]
    BY <1>1, <2>1 DEF ClosedBy
  <2> QED BY <2>1, <2>2, ExceptSeq
<1>2. CASE ~(file[s] # NoFile /\ closes[s])
  <2>1. ClosedBy(s) = closed
    BY <1>2 DEF ClosedBy
  <2> QED BY <1>2, <2>1 DEF HeldIsOpen
<1> QED BY <1>1, <1>2

LEMMA FilesStep ==
  ASSUME FilesInv, [FilesNext]_fileVars
  PROVE  FilesInv'
<1> USE DEF NoFile
<1>1. /\ FilesTypeOK /\ HoldsAlone /\ HeldIsOpen /\ LeftIsClosed
      /\ Opened \in Nat /\ Opened = Len(closed)
  BY LenProperties DEF FilesInv, FilesTypeOK, Opened
\* A file that is opened gets the next number.
<1>2. ASSUME NEW s \in FileStreams, NEW c \in BOOLEAN, file[s] = NoFile,
             file' = [file EXCEPT ![s] = Opened + 1], closes' = [closes EXCEPT ![s] = c],
             closed' = Append(closed, 0),
             (c /\ given' = given) \/ given' = given \cup {Opened + 1}
      PROVE  FilesInv'
  <2>1. /\ closed' \in Seq(Nat) /\ Opened' = Opened + 1 /\ closed'[Opened + 1] = 0
        /\ \A f \in 1..Opened : closed'[f] = closed[f]
    BY <1>1, <1>2, AppendProperties DEF FilesTypeOK, Opened
  <2>2. /\ file'[s] = Opened + 1 /\ closes'[s] = c
        /\ \A t \in FileStreams \ {s} : file'[t] = file[t] /\ closes'[t] = closes[t]
    BY <1>1, <1>2 DEF FilesTypeOK
  <2>3. FilesTypeOK'
    BY <1>1, <1>2, <2>1, <2>2 DEF FilesTypeOK
  <2>4. HoldsAlone'
    BY <1>1, <2>1, <2>2 DEF HoldsAlone, FilesTypeOK
  <2>5. HeldIsOpen'
    BY <1>1, <1>2, <2>1, <2>2 DEF HeldIsOpen, FilesTypeOK
  <2>6. LeftIsClosed'
    <3> SUFFICES ASSUME NEW f \in 1..(Opened + 1), \A t \in FileStreams : file'[t] # f
                 PROVE  closed'[f] <= 1 /\ (f \notin given' => closed'[f] = 1)
      BY <2>1 DEF LeftIsClosed, IsIn
    <3>1. f \in 1..Opened
      BY <1>1, <2>2
    <3>2. \A t \in FileStreams : file[t] # f
      BY <1>2, <2>2, <3>1
    <3> QED BY <1>1, <1>2, <2>1, <3>1, <3>2 DEF LeftIsClosed, IsIn
  <2> QED BY <2>3, <2>4, <2>5, <2>6 DEF FilesInv
<1>3. ASSUME NEW s \in FileStreams, OpenFile(s) PROVE FilesInv'
  <2>1. CASE Opened < MaxFiles
    BY <1>2, <1>3, <2>1 DEF OpenFile
  <2>2. CASE ~(Opened < MaxFiles)
    <3>1. file' = file /\ closed' = closed /\ given' = given /\ file[s] = NoFile
          /\ closes' = [closes EXCEPT ![s] = FALSE]
      <4>1. (Opened < MaxFiles) = FALSE
        BY <1>1, <2>2, MaxFilesAssumption
      <4> QED BY <1>3, <2>2, <4>1 DEF OpenFile
    <3>2. Opened' = Opened /\ \A t \in FileStreams \ {s} : closes'[t] = closes[t]
      BY <1>1, <3>1 DEF FilesTypeOK, Opened
    <3>3. FilesTypeOK'
      BY <1>1, <3>1, <3>2 DEF FilesTypeOK
    <3>4. HeldIsOpen'
      BY <1>1, <3>1, <3>2 DEF HeldIsOpen
    <3>5. HoldsAlone' /\ LeftIsClosed'
      BY <1>1, <3>1, <3>2 DEF HoldsAlone, LeftIsClosed, IsIn
    <3> QED BY <3>3, <3>4, <3>5 DEF FilesInv
  <2> QED BY <2>1, <2>2
<1>4. ASSUME NEW s \in FileStreams, NEW f \in BOOLEAN, OpenGiven(s, f) PROVE FilesInv'
  BY <1>2, <1>4 DEF OpenGiven
<1>5. ASSUME NEW s \in FileStreams, CloseFile(s) PROVE FilesInv'
  <2>1. /\ closed' \in Seq(Nat) /\ Opened' = Opened
        /\ \A f \in 1..Opened : f # file[s] => closed'[f] = closed[f]
        /\ file[s] # NoFile => /\ closed'[file[s]] <= 1
                               /\ file[s] \notin given => closed'[file[s]] = 1
    BY <1>5, StreamCloses DEF CloseFile, Opened
  <2>2. /\ file'[s] = NoFile /\ given' = given
        /\ \A t \in FileStreams \ {s} : file'[t] = file[t] /\ closes'[t] = closes[t]
    BY <1>1, <1>5 DEF CloseFile, FilesTypeOK
  <2>3. FilesTypeOK'
    BY <1>1, <1>5, <2>1, <2>2 DEF FilesTypeOK, CloseFile
  <2>4. HoldsAlone'
    BY <1>1, <2>2 DEF HoldsAlone
  <2>5. HeldIsOpen'
    BY <1>1, <2>1, <2>2 DEF HeldIsOpen, HoldsAlone, FilesTypeOK
  <2>6. LeftIsClosed'
    BY <1>1, <2>1, <2>2 DEF LeftIsClosed, IsIn
  <2> QED BY <2>3, <2>4, <2>5, <2>6 DEF FilesInv
<1>6. ASSUME NEW s \in FileStreams, NEW t \in FileStreams \ {s}, SwapFiles(s, t) PROVE FilesInv'
  <2>1. /\ file'[s] = file[t] /\ file'[t] = file[s] /\ closes'[s] = closes[t] /\ closes'[t] = closes[s]
        /\ \A u \in FileStreams \ {s, t} : file'[u] = file[u] /\ closes'[u] = closes[u]
        /\ given' = given /\ closed' = closed /\ Opened' = Opened
    BY <1>1, <1>6 DEF SwapFiles, Exchanged, FilesTypeOK, Opened
  <2>2. FilesTypeOK'
    BY <1>1, <1>6, <2>1 DEF FilesTypeOK, SwapFiles, Exchanged
  <2>3. HoldsAlone'
    BY <1>1, <2>1 DEF HoldsAlone
  <2>4. HeldIsOpen'
    BY <1>1, <2>1 DEF HeldIsOpen
  <2>5. \A f \in 1..Opened : IsIn(f)' <=> IsIn(f)
    BY <2>1 DEF IsIn
  <2> QED BY <1>1, <2>1, <2>2, <2>3, <2>4, <2>5 DEF FilesInv, LeftIsClosed
\* s closes what it has, and gets the file of t.
<1>7. ASSUME NEW s \in FileStreams, NEW t \in FileStreams \ {s}, NEW c \in BOOLEAN,
             file' = [file EXCEPT ![s] = file[t], ![t] = NoFile],
             closes' = [closes EXCEPT ![s] = closes[t], ![t] = c],
             closed' = ClosedBy(s), given' = given
      PROVE  FilesInv'
  <2>1. /\ closed' \in Seq(Nat) /\ Opened' = Opened
        /\ \A f \in 1..Opened : f # file[s] => closed'[f] = closed[f]
        /\ file[s] # NoFile => /\ closed'[file[s]] <= 1
                               /\ file[s] \notin given => closed'[file[s]] = 1
    BY <1>7, StreamCloses DEF Opened
  <2>2. /\ file'[s] = file[t] /\ file'[t] = NoFile /\ closes'[s] = closes[t]
        /\ \A u \in FileStreams \ {s, t} : file'[u] = file[u] /\ closes'[u] = closes[u]
    BY <1>1, <1>7 DEF FilesTypeOK
  <2>3. FilesTypeOK'
    <3>1. file' \in [FileStreams -> Nat] /\ closes' \in [FileStreams -> BOOLEAN]
      BY <1>1, <1>7 DEF FilesTypeOK
    <3>2. \A u \in FileStreams : file'[u] <= Opened
      BY <1>1, <2>2 DEF FilesTypeOK
    <3> QED BY <2>1, <3>1, <3>2 DEF FilesTypeOK
  <2>4. HoldsAlone'
    BY <1>1, <2>2 DEF HoldsAlone
  <2>5. \A u \in FileStreams : file[u] \in 0..Opened /\ (u # s /\ file[u] # NoFile => file[u] # file[s])
    BY <1>1 DEF HoldsAlone, FilesTypeOK
  <2>6. HeldIsOpen'
    <3> SUFFICES ASSUME NEW u \in FileStreams, file'[u] # NoFile
                 PROVE  /\ closed'[file'[u]] = 0
                        /\ file'[u] \notin given' => closes'[u]
      BY DEF HeldIsOpen
    <3>1. PICK v \in FileStreams : v # s /\ file[v] = file'[u] /\ closes[v] = closes'[u]
      BY <2>2
    <3>2. closed'[file[v]] = closed[file[v]]
      BY <2>1, <2>5, <3>1
    <3> QED BY <1>1, <1>7, <3>1, <3>2 DEF HeldIsOpen
  <2>7. ASSUME NEW f \in 1..Opened, f # file[s], IsIn(f) PROVE IsIn(f)'
    BY <2>2, <2>7 DEF IsIn
  <2>8. LeftIsClosed'
    BY <1>1, <1>7, <2>1, <2>7 DEF LeftIsClosed
  <2> QED BY <2>3, <2>4, <2>6, <2>8 DEF FilesInv
<1>8. ASSUME NEW s \in FileStreams, NEW t \in FileStreams \ {s},
             MoveAssign(s, t) \/ MoveConstruct(s, t)
      PROVE  FilesInv'
  <2>1. CASE MoveAssign(s, t)
    BY <1>7, <2>1 DEF MoveAssign
  <2>2. CASE MoveConstruct(s, t)
    BY <1>7, <2>2 DEF MoveConstruct, ClosedBy
  <2> QED BY <1>8, <2>1, <2>2
<1>9. CASE UNCHANGED fileVars
  BY <1>1, <1>9 DEF fileVars, FilesInv, FilesTypeOK, HoldsAlone, HeldIsOpen, LeftIsClosed, IsIn, Opened
<1> QED BY <1>3, <1>4, <1>5, <1>6, <1>8, <1>9 DEF FilesNext

\* Every reachable state of the file streams satisfies the inductive invariant.
THEOREM FilesInductive == FilesSpec => []FilesInv
<1>1. FilesInit => FilesInv
  BY EmptySeq DEF FilesInit, FilesInv, FilesTypeOK, HoldsAlone, HeldIsOpen, LeftIsClosed, NoFile, Opened
<1>2. FilesInv /\ [FilesNext]_fileVars => FilesInv'
  BY FilesStep
<1> QED BY <1>1, <1>2, PTL DEF FilesSpec

\* A file that the library opened is in one stream, which will close it, or was
\* closed once, and no other is closed twice or while a stream has it, for any
\* number of streams and files (open, close, swap and the moves of file_stream).
THEOREM FilesAreClosedOnce == FilesSpec => []ClosedOnce
<1>1. ASSUME FilesInv PROVE ClosedOnce
  <2> SUFFICES ASSUME NEW f \in 1..Opened
               PROVE  LET holders == {s \in FileStreams : file[s] = f}
                      IN  /\ Cardinality(holders) + closed[f] <= 1
                          /\ f \notin given => /\ Cardinality(holders) + closed[f] = 1
                                               /\ \A s \in holders : closes[s]
    BY DEF ClosedOnce
  <2> DEFINE holders == {s \in FileStreams : file[s] = f}
  <2>1. f # NoFile /\ closed[f] \in Nat
    BY <1>1, ElementOfSeq DEF FilesInv, FilesTypeOK, NoFile, Opened
  <2>2. CASE IsIn(f)
    <3>1. PICK s \in FileStreams : file[s] = f
      BY <2>2 DEF IsIn
    <3>2. holders = {s}
      BY <1>1, <2>1, <3>1 DEF FilesInv, HoldsAlone
    <3>3. Cardinality(holders) = 1
      BY <3>2, FS_Singleton
    <3>4. closed[f] = 0 /\ (f \notin given => closes[s])
      BY <1>1, <2>1, <3>1 DEF FilesInv, HeldIsOpen
    <3> HIDE DEF holders
    <3>5. f \notin given => \A u \in holders : closes[u]
      BY <3>2, <3>4
    <3> QED BY <3>3, <3>4, <3>5 DEF holders
  <2>3. CASE ~IsIn(f)
    <3>1. holders = {} /\ Cardinality(holders) = 0
      BY <2>3, FS_EmptySet DEF IsIn
    <3>2. closed[f] <= 1 /\ (f \notin given => closed[f] = 1)
      BY <1>1, <2>3 DEF FilesInv, LeftIsClosed
    <3> QED BY <2>1, <3>1, <3>2
  <2> QED BY <2>2, <2>3
<1> QED BY <1>1, FilesInductive, PTL
-----------------------------------------------------------------------------
(* Creators of directories                                                 *)

Way(c, i) == Location(PathTo(c, i))

CreatorsTypeOK == /\ at \in [Creators -> Nat]
                  /\ looks \in [Creators -> BOOLEAN]
                  /\ made \in [Creators -> BOOLEAN]
                  /\ threw \in [Creators -> BOOLEAN]
                  /\ \A c \in Creators : 1 <= at[c] /\ at[c] <= Len(Target[c]) + 1

\* A second look is at something that is there, and was not made by this one.
LooksAtThere ==
  \A c \in Creators :
    looks[c] => /\ Underway(c) /\ ~made[c]
                /\ NodeAt(leads, Here(c)) \in DOMAIN tree \cup {<<>>}

\* What has been passed is a directory.
PassesDirs ==
  \A c \in Creators :
    threw[c] \/ \A i \in 1..Len(Target[c]) : i < at[c] => IsDir(Way(c, i))

\* What is thrown over is a file, which will not become anything else.
ThrowsOverFiles ==
  \A c \in Creators :
    threw[c] => \E i \in 1..Len(Target[c]) : TypeAt(tree, leads[Way(c, i)]) = "file"

\* What a creator says it made is there, and is no link.
MadeIsThere ==
  \A c \in Creators :
    made[c] => /\ at[c] > 1 /\ Way(c, at[c] - 1) # <<>>
               /\ NodeAt(leads, Way(c, at[c] - 1)) \in DOMAIN tree
               /\ ~IsLink(tree, NodeAt(leads, Way(c, at[c] - 1)))

Goal(c) == leads[Location(Target[c])]
OneMadeIt ==
  \A c, d \in Creators : c # d /\ Goal(c) = Goal(d) /\ Done(c) /\ Done(d) => ~(made[c] /\ made[d])

CreatorsInv == /\ CreatorsTypeOK /\ TreeOK(tree) /\ Resolves(tree, leads) /\ LooksAtThere /\ PassesDirs
               /\ ThrowsOverFiles /\ MadeIsThere /\ OneMadeIt
-----------------------------------------------------------------------------
\* The way to a directory goes by way of the one above.
LEMMA WayUp ==
  ASSUME NEW c \in Creators, NEW i \in 1..Len(Target[c])
  PROVE  /\ Way(c, i) \in Seq(STRING) /\ Way(c, i) \in OnTheWay
         /\ Way(c, i) # <<>> => /\ Front(Way(c, i)) = IF i = 1 THEN <<>> ELSE Way(c, i - 1)
                                /\ Front(Way(c, i)) \in OnTheWay
                                /\ Last(Way(c, i)) \in STRING
<1> DEFINE T == Target[c]
<1>1. T \in Seq(STRING) /\ Len(T) \in Nat /\ i \in 1..Len(T)
  BY TargetAssumption, LenProperties
<1>2. \A k \in 1..Len(T) : T[k] \in STRING
  BY <1>1, ElementOfSeq
<1> HIDE DEF T
<1>3. ASSUME NEW j \in 0..Len(T)
      PROVE  /\ SubSeq(T, 1, j) \in Seq(STRING) /\ Len(SubSeq(T, 1, j)) = j
             /\ \A k \in 1..j : SubSeq(T, 1, j)[k] = T[k]
  <2>1. j \in Int /\ \A k \in 1..j : T[k] \in STRING
    BY <1>1, <1>2
  <2>2. /\ SubSeq(T, 1, j) \in Seq(STRING)
        /\ Len(SubSeq(T, 1, j)) = IF 1 <= j THEN j - 1 + 1 ELSE 0
        /\ \A k \in 1..(j - 1 + 1) : SubSeq(T, 1, j)[k] = T[1 + k - 1]
    BY <2>1, SubSeqProperties
  <2>3. \A k \in 1..j : k \in 1..(j - 1 + 1) /\ 1 + k - 1 = k
    BY <2>1
  <2>4. Len(SubSeq(T, 1, j)) = j
    BY <1>1, <2>2
  <2> QED BY <2>2, <2>3, <2>4
\* The location of a path: where its k-th name is in the path.
<1> DEFINE sh == IF T[1] = "/" THEN 1 ELSE 0
<1>4. sh \in 0..1
  OBVIOUS
<1>5. ASSUME NEW j \in 1..Len(T)
      PROVE  /\ Way(c, j) \in Seq(STRING) /\ Len(Way(c, j)) = j - sh
             /\ \A k \in 1..(j - sh) : Way(c, j)[k] = T[k + sh]
  <2> DEFINE p == SubSeq(T, 1, j)
  <2>1. j \in 0..Len(T) /\ j \in Nat /\ 1 \in 1..j
    BY <1>1
  <2>2. p \in Seq(STRING) /\ Len(p) = j /\ (\A k \in 1..j : p[k] = T[k]) /\ p # <<>>
    BY <1>3, <2>1, EmptySeq
  <2>3. Way(c, j) = IF p # <<>> /\ p[1] = "/" THEN Tail(p) ELSE p
    BY DEF Way, PathTo, Location, Absolute, T
  <2> HIDE DEF p
  <2>4. p[1] = T[1]
    BY <2>1, <2>2
  <2>5. CASE T[1] = "/"
    <3>1. Way(c, j) = Tail(p) /\ sh = 1
      BY <2>2, <2>3, <2>4, <2>5
    <3>2. /\ Tail(p) \in Seq(STRING) /\ Len(Tail(p)) = j - 1
          /\ \A k \in 1..(j - 1) : Tail(p)[k] = p[k + 1]
      BY <2>2, HeadTailProperties
    <3>3. \A k \in 1..(j - 1) : k + 1 \in 1..j
      BY <2>1
    <3> HIDE DEF sh
    <3> QED BY <2>2, <3>1, <3>2, <3>3
  <2>6. CASE T[1] # "/"
    <3>1. Way(c, j) = p /\ sh = 0
      BY <2>3, <2>4, <2>6
    <3> HIDE DEF sh
    <3> QED BY <2>1, <2>2, <3>1
  <2> QED BY <2>5, <2>6
<1> HIDE DEF sh
<1>6. \A j \in 1..Len(T) : Way(c, j) \in OnTheWay
  BY DEF OnTheWay, Way, T
<1>7. ASSUME Way(c, i) # <<>>
      PROVE  /\ Front(Way(c, i)) = IF i = 1 THEN <<>> ELSE Way(c, i - 1)
             /\ Last(Way(c, i)) \in STRING
  <2> DEFINE l == Way(c, i)
  <2>1. l \in Seq(STRING) /\ Len(l) = i - sh /\ \A k \in 1..(i - sh) : l[k] = T[k + sh]
    BY <1>1, <1>5
  <2> HIDE DEF l
  <2>2. l # <<>> /\ Len(l) # 0 /\ Len(l) \in Nat
    BY <1>7, <2>1, EmptySeq, LenProperties DEF l
  <2>3. i - sh \in 1..i /\ i \in Nat /\ sh \in Int
    BY <1>1, <1>4, <2>1, <2>2
  <2>4. Last(l) \in STRING
    <3>1. Len(l) \in 1..Len(l)
      BY <2>2
    <3> QED BY <2>1, <3>1, ElementOfSeq DEF Last
  <2>5. /\ Front(l) \in Seq(STRING) /\ Len(Front(l)) = i - sh - 1
        /\ \A k \in 1..(i - sh - 1) : Front(l)[k] = l[k]
    <3>1. Front(l) = SubSeq(l, 1, i - sh - 1) /\ i - sh - 1 \in Nat
      BY <2>1, <2>3 DEF Front
    <3> DEFINE n == i - sh - 1
    <3>2. n \in Nat /\ n \in Int /\ n < Len(l) /\ Len(l) \in Nat
      BY <2>1, <2>2, <3>1
    <3> HIDE DEF n
    <3>3. \A k \in 1..n : k \in 1..Len(l)
      BY <3>2
    <3>4. \A k \in 1..n : l[k] \in STRING
      BY <2>1, <3>3, ElementOfSeq
    <3>5. /\ SubSeq(l, 1, n) \in Seq(STRING)
          /\ Len(SubSeq(l, 1, n)) = IF 1 <= n THEN n - 1 + 1 ELSE 0
          /\ \A k \in 1..(n - 1 + 1) : SubSeq(l, 1, n)[k] = l[1 + k - 1]
      BY <3>2, <3>4, SubSeqProperties
    <3>6. (IF 1 <= n THEN n - 1 + 1 ELSE 0) = n
      BY <3>2
    <3>7. \A k \in 1..n : k \in 1..(n - 1 + 1) /\ 1 + k - 1 = k
      BY <3>2
    <3> QED BY <3>1, <3>5, <3>6, <3>7 DEF n
  <2>6. CASE i = 1
    <3>1. Len(Front(l)) = 0
      BY <1>4, <2>3, <2>5, <2>6
    <3> QED BY <2>4, <2>5, <2>6, <3>1, EmptySeq DEF l
  <2>7. CASE i # 1
    <3> DEFINE m == Way(c, i - 1)
    <3>1. i - 1 \in 1..Len(T)
      BY <1>1, <2>7
    <3>2. m \in Seq(STRING) /\ Len(m) = i - 1 - sh /\ \A k \in 1..(i - 1 - sh) : m[k] = T[k + sh]
      BY <1>5, <3>1
    <3>3. i - 1 - sh = i - sh - 1 /\ \A k \in 1..(i - sh - 1) : k \in 1..(i - sh)
      BY <2>3
    <3>4. Len(Front(l)) = Len(m) /\ \A k \in 1..Len(m) : Front(l)[k] = m[k]
      BY <2>1, <2>5, <3>2, <3>3
    <3> HIDE DEF m
    <3>5. Front(l) = m
      BY <2>5, <3>2, <3>4, SeqEqual
    <3> QED BY <2>4, <2>7, <3>5 DEF l, m
  <2> QED BY <2>6, <2>7
<1>8. \A j \in 1..Len(T) : j # 1 => j - 1 \in 1..Len(T)
  BY <1>1
<1>9. Way(c, i) # <<>> => Front(Way(c, i)) \in OnTheWay
  <2>1. <<>> \in OnTheWay
    BY DEF OnTheWay
  <2> QED BY <1>1, <1>6, <1>7, <1>8, <2>1
<1> QED BY <1>1, <1>5, <1>6, <1>7, <1>9

\* What leads to where: a node that is no link is where its path gets to.
LEMMA LeadsTo ==
  ASSUME Resolves(tree, leads), NEW l \in OnTheWay
  PROVE  /\ leads[l] \in Seq(STRING)
         /\ l = <<>> => leads[l] = <<>> /\ NodeAt(leads, l) = <<>> /\ IsDir(l)
         /\ l # <<>> /\ ~IsLink(tree, NodeAt(leads, l)) => leads[l] = NodeAt(leads, l)
         /\ l # <<>> /\ IsLink(tree, NodeAt(leads, l)) => TypeAt(tree, leads[l]) \in {"dir", "file"}
BY DEF Resolves, NodeAt, IsDir, TypeAt

\* The node of a path is in the directory that the path above leads to.
LEMMA NodeUp ==
  ASSUME Resolves(tree, leads), NEW c \in Creators, NEW i \in 1..Len(Target[c]), Way(c, i) # <<>>
  PROVE  LET n == NodeAt(leads, Way(c, i))
         IN  n # <<>> /\ Front(n) = leads[Front(Way(c, i))]
<1> DEFINE s == leads[Front(Way(c, i))]
           x == Last(Way(c, i))
           n == Append(s, x)
<1>1. s \in Seq(STRING) /\ x \in STRING
  BY WayUp, LeadsTo
<1>2. NodeAt(leads, Way(c, i)) = n
  BY DEF NodeAt
<1> HIDE DEF s, x, n
<1>3. /\ n \in Seq(STRING) /\ Len(n) = Len(s) + 1 /\ Len(s) \in Nat
      /\ \A k \in 1..Len(s) : n[k] = s[k]
  <2>1. Append(s, x) \in Seq(STRING) /\ Len(Append(s, x)) = Len(s) + 1
    BY <1>1, AppendProperties
  <2>2. \A k \in 1..Len(s) : Append(s, x)[k] = s[k]
    BY <1>1, AppendProperties
  <2> QED BY <1>1, <2>1, <2>2, LenProperties DEF n
<1>4. n # <<>>
  BY <1>3, EmptySeq
<1>5. Front(n) = s
  <2>1. Len(n) - 1 = Len(s) /\ \A k \in 1..Len(s) : n[k] \in STRING /\ s[k] = n[k]
    BY <1>1, <1>3, ElementOfSeq
  <2>2. Front(n) = SubSeq(n, 1, Len(s))
    BY <2>1 DEF Front
  <2> DEFINE m == Len(s)
  <2>3. m \in Nat /\ m \in Int
    BY <1>3
  <2> HIDE DEF m
  <2>4. /\ SubSeq(n, 1, m) \in Seq(STRING)
        /\ Len(SubSeq(n, 1, m)) = IF 1 <= m THEN m - 1 + 1 ELSE 0
        /\ \A k \in 1..(m - 1 + 1) : SubSeq(n, 1, m)[k] = n[1 + k - 1]
    BY <2>1, <2>3, SubSeqProperties DEF m
  <2>5. (IF 1 <= m THEN m - 1 + 1 ELSE 0) = m /\ \A k \in 1..m : k \in 1..(m - 1 + 1) /\ 1 + k - 1 = k
    BY <2>3
  <2>6. Len(SubSeq(n, 1, m)) = Len(s) /\ \A k \in 1..Len(s) : SubSeq(n, 1, m)[k] = s[k]
    BY <2>1, <2>4, <2>5 DEF m
  <2> QED BY <1>1, <2>2, <2>4, <2>6, SeqEqual DEF m
<1> QED BY <1>2, <1>4, <1>5 DEF s

\* mkdir adds a directory where nothing was, or leaves the tree: what was there
\* stays what it was, and there are no new links.
LEMMA Grows ==
  ASSUME NEW n, tree' = MkdirAt(tree, n).fs
  PROVE  /\ \A m \in DOMAIN tree : m \in DOMAIN tree' /\ tree'[m] = tree[m]
         /\ \A m : IsLink(tree', m) <=> IsLink(tree, m)
         /\ \A r : TypeAt(tree, r) \in {"dir", "file"} => TypeAt(tree', r) = TypeAt(tree, r)
         /\ MkdirAt(tree, n).errno = "none" =>
              /\ n # <<>> /\ n \notin DOMAIN tree
              /\ n \in DOMAIN tree' /\ tree'[n].type = "dir" /\ TypeAt(tree', n) = "dir"
<1>1. \/ tree' = tree /\ MkdirAt(tree, n).errno # "none"
      \/ /\ tree' = [l \in DOMAIN tree \cup {n} |-> IF l = n THEN Dir ELSE tree[l]]
         /\ n # <<>> /\ n \notin DOMAIN tree
  BY DEF MkdirAt
<1>2. CASE tree' = tree /\ MkdirAt(tree, n).errno # "none"
  BY <1>2 DEF IsLink, TypeAt
<1>3. CASE /\ tree' = [l \in DOMAIN tree \cup {n} |-> IF l = n THEN Dir ELSE tree[l]]
           /\ n # <<>> /\ n \notin DOMAIN tree
  <2>1. /\ DOMAIN tree' = DOMAIN tree \cup {n} /\ tree'[n] = Dir
        /\ \A m \in DOMAIN tree : tree'[m] = tree[m]
    BY <1>3
  <2>2. \A r : TypeAt(tree, r) \in {"dir", "file"} => r = <<>> \/ r \in DOMAIN tree
    BY DEF TypeAt
  <2>3. \A r : TypeAt(tree, r) \in {"dir", "file"} => TypeAt(tree', r) = TypeAt(tree, r)
    BY <2>1, <2>2 DEF TypeAt
  <2>4. tree'[n].type = "dir" /\ TypeAt(tree', n) = "dir"
    BY <2>1, <1>3 DEF Dir, TypeAt
  <2>5. \A m : IsLink(tree', m) <=> IsLink(tree, m)
    BY <2>1, <2>4 DEF IsLink
  <2> QED BY <1>3, <2>1, <2>3, <2>4, <2>5
<1> QED BY <1>1, <1>2, <1>3

\* So the links lead where they led.
LEMMA ResolvesStill ==
  ASSUME Resolves(tree, leads), UNCHANGED leads,
         \A m : IsLink(tree', m) <=> IsLink(tree, m),
         \A r : TypeAt(tree, r) \in {"dir", "file"} => TypeAt(tree', r) = TypeAt(tree, r)
  PROVE  Resolves(tree, leads)'
<1>1. /\ leads' = leads /\ leads \in [OnTheWay -> Seq(STRING)] /\ leads[<<>>] = <<>>
  BY DEF Resolves
<1>2. ASSUME NEW l \in OnTheWay \ {<<>>}
      PROVE  IF IsLink(tree', NodeAt(leads, l)) THEN TypeAt(tree', leads[l]) \in {"dir", "file"}
             ELSE leads[l] = NodeAt(leads, l)
  BY <1>2 DEF Resolves
<1>3. Resolves(tree', leads)
  BY <1>1, <1>2 DEF Resolves
<1> QED BY <1>1, <1>3

\* When one goes to make a directory, the one above is there: mkdir says nothing
\* but that there is something already.
LEMMA AboveIsThere ==
  ASSUME CreatorsInv, NEW c \in Creators, Underway(c)
  PROVE  LET e == MkdirAt(tree, NodeAt(leads, Here(c))).errno
         IN  /\ at[c] \in 1..Len(Target[c]) /\ Here(c) = Way(c, at[c]) /\ Here(c) \in OnTheWay
             /\ e \in {"none", "EEXIST"}
             /\ e = "EEXIST" <=> NodeAt(leads, Here(c)) \in DOMAIN tree \cup {<<>>}
<1> DEFINE n == NodeAt(leads, Here(c))
           up == IF n = <<>> THEN "dir" ELSE TypeAt(tree, Front(n))
<1>1. at[c] \in 1..Len(Target[c]) /\ Len(Target[c]) \in Nat
  BY TargetAssumption, LenProperties DEF CreatorsInv, CreatorsTypeOK, Underway, Done
<1>2. Here(c) = Way(c, at[c]) /\ Here(c) \in OnTheWay
  BY <1>1, WayUp DEF Here, Way
<1>3. up = "dir"
  <2>1. CASE Here(c) = <<>>
    BY <2>1 DEF NodeAt
  <2>2. CASE Here(c) # <<>>
    <3>1. n # <<>> /\ Front(n) = leads[Front(Here(c))]
      BY <1>1, <1>2, <2>2, NodeUp DEF CreatorsInv
    <3>2. IsDir(Front(Here(c)))
      <4>1. CASE at[c] = 1
        <5>1. Front(Here(c)) = <<>> /\ <<>> \in OnTheWay
          BY <1>1, <1>2, <2>2, <4>1, WayUp
        <5> QED BY <5>1, LeadsTo DEF CreatorsInv
      <4>2. CASE at[c] # 1
        <5>1. Front(Here(c)) = Way(c, at[c] - 1) /\ at[c] - 1 \in 1..Len(Target[c]) /\ at[c] - 1 < at[c]
          BY <1>1, <1>2, <2>2, <4>2, WayUp
        <5> QED BY <5>1 DEF CreatorsInv, PassesDirs, Underway
      <4> QED BY <4>1, <4>2
    <3> QED BY <3>1, <3>2 DEF IsDir
  <2> QED BY <2>1, <2>2
<1>4. /\ MkdirAt(tree, n).errno = IF up # "dir" THEN "other"
                                  ELSE IF n \in DOMAIN tree \cup {<<>>} THEN "EEXIST" ELSE "none"
  BY DEF MkdirAt
<1> HIDE DEF up
<1>5. /\ MkdirAt(tree, n).errno \in {"none", "EEXIST"}
      /\ MkdirAt(tree, n).errno = "EEXIST" <=> n \in DOMAIN tree \cup {<<>>}
  BY <1>3, <1>4
<1> QED BY <1>1, <1>2, <1>5
-----------------------------------------------------------------------------
LEMMA CreatorsTypeStep ==
  ASSUME CreatorsInv, [CreatorsNext]_creatorVars
  PROVE  CreatorsTypeOK'
<1> USE DEF CreatorsInv, CreatorsTypeOK
<1>1. \A c \in Creators : Len(Target[c]) \in Nat
  BY TargetAssumption, LenProperties
<1>2. ASSUME NEW c \in Creators, MakeOne(c) \/ Look(c) PROVE CreatorsTypeOK'
  <2>1. /\ looks' \in [Creators -> BOOLEAN] /\ made' \in [Creators -> BOOLEAN]
        /\ threw' \in [Creators -> BOOLEAN]
    BY <1>2 DEF MakeOne, Look
  <2>2. at' = at \/ at' = [at EXCEPT ![c] = @ + 1]
    BY <1>2 DEF MakeOne, Look
  <2>3. at[c] <= Len(Target[c])
    BY <1>1, <1>2 DEF MakeOne, Look, Underway, Done
  <2>4. /\ at' \in [Creators -> Nat]
        /\ \A d \in Creators : 1 <= at'[d] /\ at'[d] <= Len(Target[d]) + 1
    BY <1>1, <2>2, <2>3
  <2> QED BY <2>1, <2>4
<1>3. CASE UNCHANGED creatorVars
  BY <1>3 DEF creatorVars
<1> QED BY <1>2, <1>3 DEF CreatorsNext

\* A directory is made, or there is something already.
LEMMA MakeOneStep ==
  ASSUME CreatorsInv, CreatorsTypeOK', NEW c \in Creators, MakeOne(c)
  PROVE  CreatorsInv'
<1> DEFINE n == NodeAt(leads, Here(c))
           m == MkdirAt(tree, n)
<1>1. /\ Underway(c) /\ ~looks[c] /\ leads' = leads /\ tree' = m.fs
      /\ looks' = [looks EXCEPT ![c] = m.errno = "EEXIST"]
      /\ threw' = [threw EXCEPT ![c] = m.errno = "other"]
      /\ made' = [made EXCEPT ![c] = m.errno = "none"]
      /\ at' = [at EXCEPT ![c] = IF m.errno = "none" THEN @ + 1 ELSE @]
  BY DEF MakeOne
<1>2. /\ at[c] \in 1..Len(Target[c]) /\ Here(c) = Way(c, at[c]) /\ Here(c) \in OnTheWay
      /\ m.errno \in {"none", "EEXIST"} /\ (m.errno = "EEXIST" <=> n \in DOMAIN tree \cup {<<>>})
  BY <1>1, AboveIsThere
<1>3. /\ \A x \in DOMAIN tree : x \in DOMAIN tree' /\ tree'[x] = tree[x]
      /\ \A x : IsLink(tree', x) <=> IsLink(tree, x)
      /\ \A r : TypeAt(tree, r) \in {"dir", "file"} => TypeAt(tree', r) = TypeAt(tree, r)
      /\ m.errno = "none" => /\ n # <<>> /\ n \notin DOMAIN tree /\ n \in DOMAIN tree'
                             /\ tree'[n].type = "dir" /\ TypeAt(tree', n) = "dir"
  BY <1>1, Grows
<1>4. m.errno = "none" => Here(c) # <<>> /\ leads[Here(c)] = n /\ ~IsLink(tree', n)
  <2>1. m.errno = "none" => Here(c) # <<>> /\ ~IsLink(tree, n)
    BY <1>3 DEF NodeAt, IsLink
  <2> QED BY <1>2, <1>3, <2>1, LeadsTo DEF CreatorsInv
<1>5. Resolves(tree, leads)'
  BY <1>1, <1>3, ResolvesStill DEF CreatorsInv
<1>6. /\ \A d \in Creators \ {c} : /\ at'[d] = at[d] /\ looks'[d] = looks[d]
                                   /\ made'[d] = made[d] /\ threw'[d] = threw[d]
      /\ threw'[c] = FALSE
      /\ looks'[c] <=> m.errno = "EEXIST"
      /\ made'[c] <=> m.errno = "none"
      /\ at'[c] = IF m.errno = "none" THEN at[c] + 1 ELSE at[c]
      /\ threw[c] = FALSE
  BY <1>1, <1>2 DEF CreatorsInv, CreatorsTypeOK, Underway
<1>7. \A d \in Creators :
        /\ Len(Target[d]) \in Nat /\ at[d] \in Nat /\ at[d] <= Len(Target[d]) + 1
        /\ at'[d] \in Nat /\ 1 <= at'[d] /\ at'[d] <= Len(Target[d]) + 1
  BY TargetAssumption, LenProperties DEF CreatorsInv, CreatorsTypeOK
<1> HIDE DEF n, m
<1>8. LooksAtThere'
  <2> SUFFICES ASSUME NEW d \in Creators, looks'[d]
               PROVE  /\ Underway(d)' /\ ~made'[d]
                      /\ NodeAt(leads, Here(d))' \in DOMAIN tree' \cup {<<>>}
    BY DEF LooksAtThere
  <2>1. CASE d = c
    <3>1. m.errno = "EEXIST" /\ at'[c] = at[c] /\ ~made'[c]
      BY <1>2, <1>6, <2>1
    <3>2. Underway(c)'
      BY <1>1, <1>6, <3>1 DEF Underway, Done
    <3>3. NodeAt(leads, Here(c))' = n
      BY <1>1, <3>1 DEF n, NodeAt, Here
    <3> QED BY <1>2, <1>3, <2>1, <3>1, <3>2, <3>3
  <2>2. CASE d # c
    <3>1. at'[d] = at[d] /\ looks[d] /\ made'[d] = made[d] /\ threw'[d] = threw[d]
      BY <1>6, <2>2
    <3>2. Underway(d) /\ ~made[d] /\ NodeAt(leads, Here(d)) \in DOMAIN tree \cup {<<>>}
      BY <3>1 DEF CreatorsInv, LooksAtThere
    <3>3. NodeAt(leads, Here(d))' = NodeAt(leads, Here(d)) /\ Underway(d)'
      BY <1>1, <3>1, <3>2 DEF NodeAt, Here, Underway, Done
    <3> QED BY <1>3, <3>1, <3>2, <3>3
  <2> QED BY <2>1, <2>2
<1>9. PassesDirs'
  <2> SUFFICES ASSUME NEW d \in Creators, ~threw'[d],
                      NEW i \in 1..Len(Target[d]), i < at'[d]
               PROVE  TypeAt(tree', leads[Way(d, i)]) = "dir"
    BY <1>1 DEF PassesDirs, IsDir, Way, PathTo
  <2>1. CASE ~threw[d] /\ i < at[d]
    <3>1. TypeAt(tree, leads[Way(d, i)]) = "dir"
      BY <2>1 DEF CreatorsInv, PassesDirs, IsDir
    <3> QED BY <1>3, <3>1
  <2>2. CASE d = c /\ ~(i < at[c])
    <3>1. m.errno = "none" /\ i = at[c]
      BY <1>2, <1>6, <1>7, <2>2
    <3> QED BY <1>2, <1>3, <1>4, <2>2, <3>1
  <2> QED BY <1>6, <2>1, <2>2
<1>10. ThrowsOverFiles'
  <2> SUFFICES ASSUME NEW d \in Creators, threw'[d]
               PROVE  \E i \in 1..Len(Target[d]) : TypeAt(tree', leads[Way(d, i)]) = "file"
    BY <1>1 DEF ThrowsOverFiles, Way, PathTo
  <2>1. threw[d]
    BY <1>6
  <2>2. PICK i \in 1..Len(Target[d]) : TypeAt(tree, leads[Way(d, i)]) = "file"
    BY <2>1 DEF CreatorsInv, ThrowsOverFiles
  <2> QED BY <1>3, <2>2
<1>11. MadeIsThere'
  <2> SUFFICES ASSUME NEW d \in Creators, made'[d]
               PROVE  LET l == Way(d, at'[d] - 1)
                      IN  /\ at'[d] > 1 /\ l # <<>> /\ NodeAt(leads, l) \in DOMAIN tree'
                          /\ ~IsLink(tree', NodeAt(leads, l))
    BY <1>1 DEF MadeIsThere, Way, PathTo
  <2>1. CASE d = c
    <3>1. m.errno = "none" /\ at'[c] = at[c] + 1
      BY <1>6, <2>1
    <3>2. at'[c] - 1 = at[c] /\ at'[c] > 1
      BY <1>2, <1>7, <3>1
    <3> QED BY <1>2, <1>3, <1>4, <2>1, <3>1, <3>2 DEF n
  <2>2. CASE d # c
    <3>1. made[d] /\ at'[d] = at[d]
      BY <1>6, <2>2
    <3> QED BY <1>3, <3>1 DEF CreatorsInv, MadeIsThere
  <2> QED BY <2>1, <2>2
<1>12. OneMadeIt'
  <2>1. ASSUME NEW d \in Creators, Done(d)', made'[d]
        PROVE  Goal(d) = NodeAt(leads, Way(d, at'[d] - 1)) /\ (d # c => Goal(d) \in DOMAIN tree)
    <3>1. at'[d] > Len(Target[d]) /\ at'[d] - 1 = Len(Target[d])
      <4>1. at'[d] > Len(Target[d])
        BY <2>1 DEF Done
      <4> QED BY <1>7, <4>1
    <3>2. at'[d] > 1 /\ Way(d, at'[d] - 1) # <<>> /\ ~IsLink(tree', NodeAt(leads, Way(d, at'[d] - 1)))
      BY <1>1, <1>11, <2>1 DEF MadeIsThere, Way, PathTo
    <3>3. at'[d] - 1 \in 1..Len(Target[d])
      BY <1>7, <3>1, <3>2
    <3>4. Target[d] \in Seq(STRING) /\ PathTo(d, Len(Target[d])) = Target[d]
      BY TargetAssumption, SubSeqFull DEF PathTo
    <3>5. Way(d, at'[d] - 1) = Location(Target[d]) /\ Way(d, at'[d] - 1) \in OnTheWay
      BY <3>1, <3>3, <3>4, WayUp DEF Way
    <3>6. Goal(d) = NodeAt(leads, Way(d, at'[d] - 1))
      BY <1>3, <3>2, <3>5, LeadsTo DEF CreatorsInv, Goal
    <3>7. d # c => made[d] /\ at'[d] = at[d]
      BY <1>6, <2>1
    <3>8. d # c => NodeAt(leads, Way(d, at[d] - 1)) \in DOMAIN tree
      BY <3>7 DEF CreatorsInv, MadeIsThere
    <3> QED BY <3>6, <3>7, <3>8
  <2>2. ASSUME Done(c)', made'[c] PROVE Goal(c) \notin DOMAIN tree
    <3>1. m.errno = "none" /\ at'[c] - 1 = at[c]
      <4>1. m.errno = "none" /\ at'[c] = at[c] + 1
        BY <1>6, <2>2
      <4> QED BY <1>7, <4>1
    <3>2. Goal(c) = n
      BY <1>2, <2>1, <2>2, <3>1 DEF n
    <3> QED BY <1>3, <3>1, <3>2
  <2> SUFFICES ASSUME NEW d \in Creators, NEW e \in Creators, d # e, Goal(d) = Goal(e),
                      Done(d)', Done(e)', made'[d], made'[e]
               PROVE  FALSE
    BY <1>1 DEF OneMadeIt, Goal
  <2>3. d # c /\ e # c
    BY <2>1, <2>2
  <2>4. Done(d) /\ Done(e) /\ made[d] /\ made[e]
    BY <1>6, <2>3 DEF Done
  <2> QED BY <2>4 DEF CreatorsInv, OneMadeIt
<1>13. TreeOK(tree)'
  <2>1. ASSUME NEW l \in DOMAIN tree' PROVE tree'[l].type \in {"dir", "file", "link"}
    BY <1>1, <2>1 DEF m, MkdirAt, CreatorsInv, TreeOK, Dir
  <2> QED BY <2>1 DEF TreeOK
<1> QED BY <1>5, <1>8, <1>9, <1>10, <1>11, <1>12, <1>13 DEF CreatorsInv

\* The second look: what is there is a directory, or a file for good.
LEMMA LookStep ==
  ASSUME CreatorsInv, CreatorsTypeOK', NEW c \in Creators, Look(c)
  PROVE  CreatorsInv'
<1>1. /\ Underway(c) /\ looks[c] /\ leads' = leads /\ tree' = tree /\ made' = made
      /\ threw' = [threw EXCEPT ![c] = ~IsDir(Here(c))]
      /\ looks' = [looks EXCEPT ![c] = FALSE]
      /\ at' = [at EXCEPT ![c] = @ + 1]
  BY DEF Look
<1>2. /\ at[c] \in 1..Len(Target[c]) /\ Here(c) = Way(c, at[c]) /\ Here(c) \in OnTheWay
  BY <1>1, AboveIsThere
<1>3. ~made[c] /\ NodeAt(leads, Here(c)) \in DOMAIN tree \cup {<<>>} /\ threw[c] = FALSE
  BY <1>1 DEF CreatorsInv, LooksAtThere, CreatorsTypeOK, Underway
<1>4. /\ \A d \in Creators \ {c} : /\ at'[d] = at[d] /\ looks'[d] = looks[d]
                                   /\ threw'[d] = threw[d]
      /\ looks'[c] = FALSE /\ threw'[c] = ~IsDir(Here(c)) /\ at'[c] = at[c] + 1
  BY <1>1 DEF CreatorsInv, CreatorsTypeOK
<1>5. Resolves(tree, leads)'
  BY <1>1 DEF CreatorsInv
<1>6. ~IsDir(Here(c)) => TypeAt(tree, leads[Here(c)]) = "file"
  <2> SUFFICES ASSUME ~IsDir(Here(c)) PROVE TypeAt(tree, leads[Here(c)]) = "file"
    OBVIOUS
  <2>1. Here(c) # <<>>
    BY <1>2, LeadsTo DEF CreatorsInv
  <2>2. CASE IsLink(tree, NodeAt(leads, Here(c)))
    BY <1>2, <2>1, <2>2, LeadsTo DEF CreatorsInv, IsDir
  <2>3. CASE ~IsLink(tree, NodeAt(leads, Here(c)))
    <3>1. leads[Here(c)] = NodeAt(leads, Here(c)) /\ NodeAt(leads, Here(c)) # <<>>
      BY <1>2, <2>1, <2>3, LeadsTo, NodeUp DEF CreatorsInv
    <3>2. leads[Here(c)] \in DOMAIN tree /\ leads[Here(c)] # <<>>
      BY <1>3, <3>1
    <3>3. tree[leads[Here(c)]].type \in {"dir", "file"}
      BY <2>3, <3>1, <3>2 DEF CreatorsInv, TreeOK, IsLink
    <3> QED BY <3>2, <3>3 DEF IsDir, TypeAt
  <2> QED BY <2>2, <2>3
<1>7. \A d \in Creators : at[d] \in Nat /\ Len(Target[d]) \in Nat /\ at[d] <= Len(Target[d]) + 1
  BY TargetAssumption, LenProperties DEF CreatorsInv, CreatorsTypeOK
<1>8. LooksAtThere'
  <2> SUFFICES ASSUME NEW d \in Creators, looks'[d]
               PROVE  /\ Underway(d)' /\ ~made'[d]
                      /\ NodeAt(leads, Here(d))' \in DOMAIN tree' \cup {<<>>}
    BY DEF LooksAtThere
  <2>1. d # c /\ at'[d] = at[d] /\ looks[d] /\ threw'[d] = threw[d]
    BY <1>4
  <2>2. Underway(d) /\ ~made[d] /\ NodeAt(leads, Here(d)) \in DOMAIN tree \cup {<<>>}
    BY <2>1 DEF CreatorsInv, LooksAtThere
  <2>3. NodeAt(leads, Here(d))' = NodeAt(leads, Here(d)) /\ Underway(d)'
    BY <1>1, <2>1, <2>2 DEF NodeAt, Here, Underway, Done
  <2> QED BY <1>1, <2>2, <2>3
<1>9. PassesDirs'
  <2> SUFFICES ASSUME NEW d \in Creators, ~threw'[d],
                      NEW i \in 1..Len(Target[d]), i < at'[d]
               PROVE  IsDir(Way(d, i))
    BY <1>1 DEF PassesDirs, IsDir, Way, PathTo
  <2>1. CASE ~threw[d] /\ i < at[d]
    BY <2>1 DEF CreatorsInv, PassesDirs
  <2>2. CASE d = c /\ ~(i < at[c])
    <3>1. i = at[c]
      BY <1>2, <1>4, <1>7, <2>2
    <3> QED BY <1>2, <1>4, <2>2, <3>1
  <2> QED BY <1>3, <1>4, <2>1, <2>2
<1>10. ThrowsOverFiles'
  <2> SUFFICES ASSUME NEW d \in Creators, threw'[d]
               PROVE  \E i \in 1..Len(Target[d]) : TypeAt(tree, leads[Way(d, i)]) = "file"
    BY <1>1 DEF ThrowsOverFiles, Way, PathTo
  <2>1. CASE d = c
    BY <1>2, <1>4, <1>6, <2>1
  <2>2. CASE d # c
    BY <1>4, <2>2 DEF CreatorsInv, ThrowsOverFiles
  <2> QED BY <2>1, <2>2
<1>11. MadeIsThere'
  <2> SUFFICES ASSUME NEW d \in Creators, made[d]
               PROVE  LET l == Way(d, at'[d] - 1)
                      IN  /\ at'[d] > 1 /\ l # <<>> /\ NodeAt(leads, l) \in DOMAIN tree
                          /\ ~IsLink(tree, NodeAt(leads, l))
    BY <1>1 DEF MadeIsThere, Way, PathTo
  <2>1. d # c /\ at'[d] = at[d]
    BY <1>3, <1>4
  <2> QED BY <2>1 DEF CreatorsInv, MadeIsThere
<1>12. OneMadeIt'
  <2> SUFFICES ASSUME NEW d \in Creators, NEW e \in Creators, d # e, Goal(d) = Goal(e),
                      Done(d)', Done(e)', made[d], made[e]
               PROVE  FALSE
    BY <1>1 DEF OneMadeIt, Goal
  <2>1. Done(d) /\ Done(e)
    BY <1>3, <1>4 DEF Done
  <2> QED BY <2>1 DEF CreatorsInv, OneMadeIt
<1>13. TreeOK(tree)'
  BY <1>1 DEF CreatorsInv
<1> QED BY <1>5, <1>8, <1>9, <1>10, <1>11, <1>12, <1>13 DEF CreatorsInv

\* Every reachable state of the creators satisfies the inductive invariant.
THEOREM CreatorsInductive == CreatorsSpec => []CreatorsInv
<1>1. CreatorsInit => CreatorsInv
  <2> SUFFICES ASSUME CreatorsInit PROVE CreatorsInv
    OBVIOUS
  <2>1. CreatorsTypeOK
    BY TargetAssumption, LenProperties DEF CreatorsInit, CreatorsTypeOK
  <2>2. LooksAtThere /\ PassesDirs /\ ThrowsOverFiles /\ MadeIsThere /\ OneMadeIt
    BY DEF CreatorsInit, LooksAtThere, PassesDirs, ThrowsOverFiles, MadeIsThere, OneMadeIt
  <2> QED BY <2>1, <2>2 DEF CreatorsInit, CreatorsInv
<1>2. ASSUME CreatorsInv, [CreatorsNext]_creatorVars PROVE CreatorsInv'
  <2>1. CreatorsTypeOK'
    BY <1>2, CreatorsTypeStep
  <2>2. CASE UNCHANGED creatorVars
    BY <1>2, <2>2 DEF creatorVars, CreatorsInv, CreatorsTypeOK, Resolves, TreeOK, LooksAtThere, PassesDirs,
       ThrowsOverFiles, MadeIsThere, OneMadeIt, NodeAt, Here, Underway, Done, IsDir, Goal, Way, PathTo
  <2> QED BY <1>2, <2>1, <2>2, MakeOneStep, LookStep DEF CreatorsNext
<1> QED BY <1>1, <1>2, PTL DEF CreatorsSpec

\* Processes that create directories at the same time, any number and by any
\* paths, fail only over a file, get to their directory otherwise, and at most
\* one of those with the same directory says it made it (create_directories).
THEOREM CreatorsDoAgree == CreatorsSpec => []CreatorsAgree
<1>1. ASSUME CreatorsInv PROVE CreatorsAgree
  <2>1. ASSUME NEW c \in Creators, threw[c]
        PROVE  \E i \in 1..Len(Target[c]) : ~IsDir(Location(PathTo(c, i)))
    BY <1>1, <2>1 DEF CreatorsInv, ThrowsOverFiles, IsDir, Way
  <2>2. ASSUME NEW c \in Creators, Done(c), ~threw[c] PROVE IsDir(Location(Target[c]))
    <3>1. Target[c] \in Seq(STRING) /\ Len(Target[c]) \in Nat
      BY TargetAssumption, LenProperties
    <3>2. CASE Target[c] = <<>>
      <4>1. Location(Target[c]) = <<>> /\ <<>> \in OnTheWay
        BY <3>2 DEF Location, Absolute, OnTheWay
      <4> QED BY <1>1, <4>1, LeadsTo DEF CreatorsInv
    <3>3. CASE Target[c] # <<>>
      <4>1. Len(Target[c]) \in 1..Len(Target[c])
        BY <3>1, <3>3, EmptySeq
      <4>2. Len(Target[c]) < at[c]
        BY <1>1, <2>2, <3>1 DEF CreatorsInv, CreatorsTypeOK, Done
      <4>3. PathTo(c, Len(Target[c])) = Target[c]
        BY <3>1, SubSeqFull DEF PathTo
      <4> QED BY <1>1, <2>2, <4>1, <4>2, <4>3 DEF CreatorsInv, PassesDirs, Way
    <3> QED BY <3>2, <3>3
  <2> QED BY <1>1, <2>1, <2>2 DEF CreatorsAgree, CreatorsInv, OneMadeIt, Goal
<1> QED BY <1>1, CreatorsInductive, PTL
=============================================================================
