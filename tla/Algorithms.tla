----------------------------- MODULE Algorithms -----------------------------
(* The generic algorithms over ranges. A range is the sequence of its items, a *)
(* range an algorithm returns is the part of the given one that is left, a     *)
(* predicate is the set of the values it is true of, and compare is the set of *)
(* the pairs <<a, b>> it is true of.                                           *)
EXTENDS Integers, Sequences, SequencesExt

CONSTANT InsertionSize       \* introloop leaves as many items to insort (10)

From(s, i) == SubSeq(s, i, Len(s))
SwapItems(s, i, j) == [s EXCEPT ![i] = s[j], ![j] = s[i]]
----------------------------------------------------------------------------
\* insort, item by item: behind the last one that compares less.
Insert(sorted, v, lt) ==
  LET at == CHOOSE j \in 0..Len(sorted) :
              /\ j > 0 => <<sorted[j], v>> \in lt
              /\ \A i \in (j + 1)..Len(sorted) : <<sorted[i], v>> \notin lt
  IN  SubSeq(sorted, 1, at) \o <<v>> \o From(sorted, at + 1)
Insort(s, lt) == FoldLeft(LAMBDA sorted, v : Insert(sorted, v, lt), <<>>, s)

\* Mutant: the last item of the heap is not looked at.
RECURSIVE SiftDownShort(_, _, _, _)
SiftDownShort(s, r, e, lt) ==
  LET ch == 2 * r
      left == IF ch <= e /\ <<s[r], s[ch]>> \in lt THEN ch ELSE r
      sw == IF ch + 1 < e /\ <<s[left], s[ch + 1]>> \in lt THEN ch + 1 ELSE left
  IN  IF sw = r THEN s ELSE SiftDownShort(SwapItems(s, r, sw), sw, e, lt)

\* hs_sift_down(range, r, e): e is the last item of the heap.
RECURSIVE SiftDown(_, _, _, _)
SiftDown(s, r, e, lt) ==
  LET ch == 2 * r
      left == IF ch <= e /\ <<s[r], s[ch]>> \in lt THEN ch ELSE r
      sw == IF ch + 1 <= e /\ <<s[left], s[ch + 1]>> \in lt THEN ch + 1 ELSE left
  IN  IF sw = r THEN s ELSE SiftDown(SwapItems(s, r, sw), sw, e, lt)

Heapsort(s, lt) ==
  LET n == Len(s)
      down(k) == [i \in 1..k |-> k + 1 - i]
      heap == FoldLeft(LAMBDA t, st : SiftDown(t, st, n, lt), s, down(n \div 2))
  IN  FoldLeft(LAMBDA t, e : SiftDown(SwapItems(t, e, 1), 1, e - 1, lt),
               heap, SubSeq(down(n), 1, n - 1))

\* The middle item goes to the back; what is less than it goes to the front.
Pivoted(s, lt) ==
  LET n == Len(s)
      t == SwapItems(s, (n \div 2) + 1, n)
      step(p, i) == IF <<p.s[i], p.s[n]>> \in lt
                    THEN [s |-> SwapItems(p.s, i, p.at), at |-> p.at + 1] ELSE p
      split == FoldLeft(step, [s |-> t, at |-> 1], [i \in 1..(n - 1) |-> i])
  IN  [s |-> SwapItems(split.s, split.at, n), at |-> split.at]
RECURSIVE Introloop(_, _, _)
Introloop(s, lt, depth) ==
  LET p == Pivoted(s, lt)
  IN  IF Len(s) <= InsertionSize THEN Insort(s, lt)
      ELSE IF depth = 0 THEN Heapsort(s, lt)
      ELSE Introloop(SubSeq(p.s, 1, p.at - 1), lt, depth - 1)
             \o <<p.s[p.at]>> \o Introloop(From(p.s, p.at + 1), lt, depth - 1)
Depth(n) == CHOOSE d \in 0..(2 * n) : 2^d <= n * n /\ n * n < 2^(d + 1)
SortCmp(s, lt) == IF s = <<>> THEN s ELSE Introloop(s, lt, Depth(Len(s)))
----------------------------------------------------------------------------
\* partition, with how many items are in front of the range it returns.
Partition(s, pred) ==
  LET step(p, i) == IF p.s[i] \in pred
                    THEN [s |-> SwapItems(p.s, i, p.n + 1), n |-> p.n + 1] ELSE p
  IN  FoldLeft(step, [s |-> s, n |-> 0], [i \in DOMAIN s |-> i])

FirstAt(s, i, pred) == CHOOSE k \in i..(Len(s) + 1) :
  (k <= Len(s) => s[k] \in pred) /\ \A j \in i..(k - 1) : s[j] \notin pred
FindIf(s, pred) == From(s, FirstAt(s, 1, pred))
FindIfNot(s, pred) == FindIf(s, Range(s) \ pred)
Find(s, v) == FindIf(s, {v})
FindOneOf(s, values) == FindIf(s, Range(values))
RECURSIVE FindLast(_, _)
FindLast(s, v) ==
  LET r == Find(s, v)
      next == IF r = <<>> THEN r ELSE Find(Tail(r), v)
  IN  IF next = <<>> THEN r ELSE FindLast(next, v)
IsPartitioned(s, pred) == FindIf(FindIfNot(s, pred), pred) = <<>>
AllOf(s, pred) == FindIfNot(s, pred) = <<>>
AnyOf(s, pred) == FindIf(s, pred) # <<>>
NoneOf(s, pred) == FindIf(s, pred) = <<>>

CountIf(s, pred) == FoldLeft(LAMBDA n, v : IF v \in pred THEN n + 1 ELSE n, 0, s)
CountIfNot(s, pred) == CountIf(s, Range(s) \ pred)
CountOf(s, v) == CountIf(s, {v})

\* std::min gives the first unless the second is less, and it is the item that
\* is compared with the second again: of equal items the last is taken.
MinElement(s, lt) == From(s, FoldLeft(LAMBDA r, i :
  IF <<s[i], s[r]>> \in lt \/ s[i] = s[r] THEN i ELSE r, 1, [i \in DOMAIN s |-> i]))
MaxElement(s, lt) == From(s, FoldLeft(LAMBDA r, i :
  IF <<s[r], s[i]>> \in lt \/ s[i] = s[r] THEN i ELSE r, 1, [i \in DOMAIN s |-> i]))

RECURSIVE LexicographicalCompare(_, _, _)
LexicographicalCompare(s, t, lt) ==
  IF s = <<>> \/ t = <<>> THEN s = <<>> /\ t # <<>>
  ELSE \/ <<s[1], t[1]>> \in lt
       \/ <<t[1], s[1]>> \notin lt /\ LexicographicalCompare(Tail(s), Tail(t), lt)
RECURSIVE Equal(_, _)
Equal(s, t) ==
  IF s = <<>> THEN t = <<>> ELSE t # <<>> /\ s[1] = t[1] /\ Equal(Tail(s), Tail(t))
----------------------------------------------------------------------------
\* Into a range whose put throws when it is full (a pointer range).
Copy(s, room) == [out |-> SubSeq(s, 1, IF Len(s) < room THEN Len(s) ELSE room),
                  throws |-> Len(s) > room]
CopyIf(s, room, pred) == Copy(SelectSeq(s, LAMBDA v : v \in pred), room)
CopyIfNot(s, room, pred) == Copy(SelectSeq(s, LAMBDA v : v \notin pred), room)
RECURSIVE Backwards(_)
Backwards(s) == IF s = <<>> THEN s ELSE <<Last(s)>> \o Backwards(Front(s))
ReverseCopy(s, room) == Copy(Backwards(s), room)

\* With one item left, pop_front empties the range and pop_back goes past its
\* beginning: a pointer range throws, another one is no longer a range.
RECURSIVE ReverseInPlace(_)
ReverseInPlace(s) ==
  LET inner == ReverseInPlace(SubSeq(s, 2, Len(s) - 1))
  IN  CASE s = <<>> -> [s |-> s, ok |-> TRUE]
        [] Len(s) = 1 -> [s |-> s, ok |-> FALSE]
        [] OTHER -> [s |-> <<Last(s)>> \o inner.s \o <<s[1]>>, ok |-> inner.ok]

Fill(s, v) == [i \in DOMAIN s |-> v]
Iota(s, v) == [i \in DOMAIN s |-> v + i - 1]
\* generate, the i-th call giving gen[i]; for_each gives the calls it makes.
Generate(s, gen) == [i \in DOMAIN s |-> gen[i]]
ForEach(s) == s
SwapRanges(s, t) ==
  LET n == IF Len(s) < Len(t) THEN Len(s) ELSE Len(t)
  IN  <<SubSeq(t, 1, n) \o From(s, n + 1), SubSeq(s, 1, n) \o From(t, n + 1)>>

\* The folds, with the append of one item for their function.
Foldl(s, init) == FoldLeft(LAMBDA r, v : Append(r, v), init, s)
RECURSIVE Foldr(_, _)
Foldr(s, init) == IF s = <<>> THEN init ELSE Foldr(Front(s), Append(init, Last(s)))

\* map_range and filter_range, the function given by its values.
Map(s, f) == [i \in DOMAIN s |-> f[s[i]]]
RECURSIVE Filter(_, _)
Filter(s, pred) ==                    \* front and pop_front, until it is empty
  LET valid == FindIf(s, pred)        \* advance_valid
  IN  IF valid = <<>> THEN valid ELSE <<valid[1]>> \o Filter(Tail(valid), pred)
----------------------------------------------------------------------------
Precedes(lt, s) == \A i, j \in DOMAIN s : i < j => <<s[j], s[i]>> \notin lt
SameItems(s, t) == \A v \in Range(s) \cup Range(t) : CountOf(s, v) = CountOf(t, v)

(* Sorting loses no item and leaves none behind a greater one, with whatever   *)
(* part of the work heapsort does because the partitions are uneven.           *)
SortSorts(s, lt) ==
  \A t \in {SortCmp(s, lt)} \cup {Introloop(s, lt, d) : d \in 0..2} :
    Precedes(lt, t) /\ SameItems(s, t)

(* partition puts the items of the predicate in front; what the searches give  *)
(* starts at the first or last item looked for, and they agree with the counts *)
(* and with each other.                                                        *)
SearchesAgree(s, pred, v, lt) ==
  LET p == Partition(s, pred)
      last == FindLast(s, v)
  IN  /\ SameItems(p.s, s) /\ p.n = CountIf(s, pred)
      /\ AllOf(SubSeq(p.s, 1, p.n), pred) /\ NoneOf(From(p.s, p.n + 1), pred)
      /\ IsPartitioned(p.s, pred)
      /\ IsPartitioned(s, pred) <=> \A i \in 2..Len(s) : s[i] \in pred => s[i - 1] \in pred
      /\ CountIf(s, pred) + CountIfNot(s, pred) = Len(s)
      /\ AnyOf(s, pred) <=> CountIf(s, pred) > 0
      /\ CountOf(last, v) = IF CountOf(s, v) > 0 THEN 1 ELSE 0
      /\ last # <<>> => last[1] = v
      /\ CountOf(s, v) = Len(Filter(s, {v}))
      /\ FindOneOf(s, SetToSeq(pred)) = FindIf(s, pred)
      /\ \A w \in Range(s) : /\ <<w, MinElement(s, lt)[1]>> \notin lt
                             /\ <<MaxElement(s, lt)[1], w>> \notin lt

(* Copying, reversing and folding keep every item and its place; exactly one   *)
(* of two different ranges is lexicographically less, and the order is that of *)
(* their first difference.                                                     *)
CopiesAgree(s, t, room, pred, lt) ==
  LET c == Copy(s, room)
      rev == ReverseCopy(s, Len(s)).out
      sw == SwapRanges(s, t)
      common == CHOOSE k \in 0..Len(s) :
        /\ k <= Len(t) /\ SubSeq(s, 1, k) = SubSeq(t, 1, k)
        /\ k < Len(s) /\ k < Len(t) => s[k + 1] # t[k + 1]
      f == [v \in Range(s) |-> 4 - v]
  IN  /\ c.throws \/ c.out = s
      /\ \A i \in DOMAIN s : rev[i] = s[Len(s) + 1 - i]
      /\ ReverseInPlace(s).s = rev
      /\ Foldr(s, <<>>) = rev /\ Foldl(s, <<>>) = s
      /\ CopyIf(s, Len(s), pred).out = Filter(s, pred)
      /\ SameItems(s, CopyIf(s, Len(s), pred).out \o CopyIfNot(s, Len(s), pred).out)
      /\ SwapRanges(sw[1], sw[2]) = <<s, t>>
      /\ Filter(Map(s, f), pred) = Map(Filter(s, {v \in Range(s) : f[v] \in pred}), f)
      /\ Generate(Fill(s, room), ForEach(s)) = s
      /\ Precedes(lt, Iota(s, 1)) /\ IsInjective(Iota(s, 1))
      /\ Equal(s, t) <=> s = t
      /\ LexicographicalCompare(s, t, lt) <=>
           /\ common < Len(t)
           /\ common < Len(s) => <<s[common + 1], t[common + 1]>> \in lt
=============================================================================
