------------------------------- MODULE Ranges -------------------------------
(* Ranges and the adaptors that wrap them. A range is a record: its kind, what *)
(* it wraps (of) and the adaptor's own members. Iterating a range that does    *)
(* not own its items leaves the range it was copied from alone.                *)
EXTENDS Integers, Sequences, SequencesExt

CONSTANT Width               \* of the unsigned type a number range counts in
Wrap(n) == n % 2^Width

\* The input range tags, each converts to those in front of it; an adaptor's is
\* the common type of the tags of what it wraps and of one of its own.
Tags == <<"input", "forward", "bidirectional", "random_access",
          "finite_random_access", "contiguous">>
Rank(tag) == CHOOSE i \in DOMAIN Tags : Tags[i] = tag
Converts(tag, to) == Rank(tag) >= Rank(to)
CommonType(tags) == Tags[CHOOSE i \in DOMAIN Tags :
  /\ \E t \in tags : Rank(t) = i
  /\ \A t \in tags : Rank(t) >= i]
Direct(tag) == Converts(tag, "finite_random_access")

Items(s, tag) == [kind |-> "items", tag |-> tag, items |-> s]
Numbers(a, b, step) == [kind |-> "number", a |-> a, b |-> b, step |-> step]
Reversed(r) == [kind |-> "reverse", of |-> r]
Enumerated(r, i) == [kind |-> "enumerate", of |-> r, index |-> i]
Taken(r, n) == [kind |-> "take", of |-> r, left |-> n]
Chunked(r, n) == [kind |-> "chunks", of |-> r, size |-> n]
Joined(rs) == [kind |-> "join", of |-> rs]
Zipped(rs) == [kind |-> "zip", of |-> rs]
Moved(r) == [kind |-> "move", of |-> r]

RECURSIVE Category(_)
Category(r) ==
  CASE r.kind = "items" -> r.tag
    [] r.kind = "number" -> "forward"
    [] r.kind = "move" -> "input"
    [] r.kind = "reverse" -> IF Direct(Category(r.of)) THEN "finite_random_access"
                             ELSE "bidirectional"
    [] r.kind \in {"enumerate", "take", "chunks"} -> CommonType({Category(r.of), "forward"})
    [] r.kind \in {"join", "zip"} ->
         CommonType({"forward"} \cup {Category(r.of[i]) : i \in DOMAIN r.of})
----------------------------------------------------------------------------
RECURSIVE Empty(_)
Empty(r) ==
  CASE r.kind = "items" -> r.items = <<>>
    [] r.kind = "number" -> Wrap(r.a * r.step) >= Wrap(r.b * r.step)
    [] r.kind = "take" -> r.left = 0 \/ Empty(r.of)
    [] r.kind = "join" -> \A i \in DOMAIN r.of : Empty(r.of[i])
    [] r.kind = "zip" -> \E i \in DOMAIN r.of : Empty(r.of[i])
    [] OTHER -> Empty(r.of)

RECURSIVE Size(_)
Size(r) == IF r.kind = "items" THEN Len(r.items) ELSE Size(r.of)

\* Mutant: the ends of a reversed slice are counted from the wrong side.
RECURSIVE SliceForward(_, _, _)
SliceForward(r, start, end) ==
  IF r.kind = "items" THEN [r EXCEPT !.items = SubSeq(@, start + 1, end)]
  ELSE [r EXCEPT !.of = SliceForward(@, start, end)]

RECURSIVE Slice(_, _, _)
Slice(r, start, end) ==
  IF r.kind = "items" THEN [r EXCEPT !.items = SubSeq(@, start + 1, end)]
  ELSE [r EXCEPT !.of = Slice(@, Size(r) - end, Size(r) - start)]

RECURSIVE At(_, _)
At(r, i) == IF r.kind = "items" THEN r.items[i + 1] ELSE At(r.of, Size(r) - i - 1)

\* A join pops its first range that is not empty; chunks pop a whole chunk, in
\* one step if they can be sliced. PopFrontN gives how many it popped.
FirstFilled(rs) == CHOOSE i \in DOMAIN rs :
  ~Empty(rs[i]) /\ \A j \in 1..(i - 1) : Empty(rs[j])
RECURSIVE PopFront(_), PopBack(_), PopFrontN(_, _)
PopFront(r) ==
  CASE r.kind = "items" -> [r EXCEPT !.items = Tail(@)]
    [] r.kind = "number" -> [r EXCEPT !.a = Wrap(@ + r.step)]
    [] r.kind = "reverse" -> [r EXCEPT !.of = PopBack(@)]
    [] r.kind = "move" -> [r EXCEPT !.of = PopFront(@)]
    [] r.kind = "enumerate" -> [r EXCEPT !.of = PopFront(@), !.index = @ + 1]
    [] r.kind = "take" -> [r EXCEPT !.of = PopFront(@), !.left = IF @ >= 1 THEN @ - 1 ELSE @]
    [] r.kind = "chunks" -> [r EXCEPT !.of = PopFrontN(@, r.size).r]
    [] r.kind = "join" -> [r EXCEPT !.of[FirstFilled(r.of)] = PopFront(@)]
    [] r.kind = "zip" -> [r EXCEPT !.of = [i \in DOMAIN @ |-> PopFront(@[i])]]
PopBack(r) ==
  IF r.kind = "items" THEN [r EXCEPT !.items = Front(@)]
  ELSE [r EXCEPT !.of = PopFront(@)]
PopFrontN(r, n) ==
  LET m == IF n < Size(r) THEN n ELSE Size(r)
      rest == PopFrontN(PopFront(r), n - 1)
  IN  IF Direct(Category(r)) THEN [r |-> Slice(r, m, Size(r)), n |-> m]
      ELSE IF n = 0 \/ Empty(r) THEN [r |-> r, n |-> 0]
      ELSE [r |-> rest.r, n |-> rest.n + 1]
RECURSIVE PopBackN(_, _)
PopBackN(r, n) ==
  LET m == IF n < Size(r) THEN n ELSE Size(r)
      rest == PopBackN(PopBack(r), n - 1)
  IN  IF Direct(Category(r)) THEN [r |-> Slice(r, 0, Size(r) - m), n |-> m]
      ELSE IF n = 0 \/ Empty(r) THEN [r |-> r, n |-> 0]
      ELSE [r |-> rest.r, n |-> rest.n + 1]

RECURSIVE FrontOf(_), BackOf(_)
FrontOf(r) ==
  CASE r.kind = "items" -> r.items[1]
    [] r.kind = "number" -> r.a
    [] r.kind = "reverse" -> BackOf(r.of)
    [] r.kind = "enumerate" -> [index |-> r.index, value |-> FrontOf(r.of)]
    [] r.kind = "chunks" -> Taken(r.of, r.size)
    [] r.kind = "join" -> FrontOf(r.of[FirstFilled(r.of)])
    [] r.kind = "zip" -> [i \in DOMAIN r.of |-> FrontOf(r.of[i])]
    [] OTHER -> FrontOf(r.of)
BackOf(r) == IF r.kind = "items" THEN Last(r.items) ELSE FrontOf(r.of)

\* The range-based for: range_iterator holds a copy of the range. A chunk is
\* walked in its turn. Walks of more than Longest items are cut.
Longest == 12
RECURSIVE WalkFor(_, _)
WalkFor(r, n) ==
  LET item == IF r.kind = "chunks" THEN WalkFor(FrontOf(r), Longest) ELSE FrontOf(r)
  IN  IF Empty(r) \/ n = 0 THEN <<>> ELSE <<item>> \o WalkFor(PopFront(r), n - 1)
Walk(r) == WalkFor(r, Longest)
RECURSIVE WalkBack(_)
WalkBack(r) == IF Empty(r) THEN <<>> ELSE Append(WalkBack(PopBack(r)), BackOf(r))

\* full_range_iterator holds a range (<<r>>) or none; it is equal to another if
\* its range is empty, if it has none if that of the other is.
SameIterator(i, j) ==
  IF i = <<>> THEN j = <<>> \/ Empty(j[1]) ELSE Empty(i[1])
RECURSIVE FromRange(_, _)
FromRange(first, last) ==
  IF SameIterator(first, last) THEN <<>>
  ELSE <<FrontOf(first[1])>> \o FromRange(<<PopFront(first[1])>>, last)

\* The output ranges: an appender's data, the room left in a pointer range, how
\* many puts a counting sink has seen return.
Sink(room) == [data |-> <<>>, room |-> room, written |-> 0, thrown |-> FALSE]
Put(sink, v) ==
  IF sink.room = 0 THEN [sink EXCEPT !.thrown = TRUE]
  ELSE [sink EXCEPT !.data = Append(@, v), !.room = @ - 1, !.written = @ + 1]
RECURSIVE RangePutAll(_, _)
RangePutAll(sink, r) ==
  IF Empty(r) \/ sink.thrown THEN sink
  ELSE RangePutAll(Put(sink, FrontOf(r)), PopFront(r))
----------------------------------------------------------------------------
\* What a range stands for. The items of a number range come before its end as
\* long as the type can hold them.
Min2(a, b) == IF a < b THEN a ELSE b
RECURSIVE Means(_)
Means(r) ==
  CASE r.kind = "items" -> r.items
    [] r.kind = "number" -> [i \in 1..Min2(((r.b - r.a) + r.step - 1) \div r.step, Longest)
                               |-> r.a + (i - 1) * r.step]
    [] r.kind = "reverse" -> LET s == Means(r.of) IN [i \in DOMAIN s |-> s[Len(s) + 1 - i]]
    [] r.kind = "move" -> Means(r.of)
    [] r.kind = "enumerate" -> LET s == Means(r.of) IN
         [i \in DOMAIN s |-> [index |-> r.index + i - 1, value |-> s[i]]]
    [] r.kind = "take" -> SubSeq(Means(r.of), 1, Min2(r.left, Len(Means(r.of))))
    [] r.kind = "chunks" -> LET s == Means(r.of) IN
         [i \in 1..((Len(s) + r.size - 1) \div r.size) |->
            SubSeq(s, (i - 1) * r.size + 1, Min2(i * r.size, Len(s)))]
    [] r.kind = "join" -> FlattenSeq([i \in DOMAIN r.of |-> Means(r.of[i])])
    [] r.kind = "zip" ->
         LET s == [i \in DOMAIN r.of |-> Means(r.of[i])]
             n == CHOOSE k \in 0..Longest : /\ \A i \in DOMAIN s : k <= Len(s[i])
                                            /\ \E i \in DOMAIN s : k = Len(s[i])
         IN  [k \in 1..n |-> [i \in DOMAIN s |-> s[i][k]]]

(* Iterating a range, however its adaptors are stacked, gives what it stands   *)
(* for, from either end; slices, positions and skips find the same items; a    *)
(* sink that gets full has counted what it holds.                              *)
RangesMean(r, n) ==
  LET s == Means(r)
      m == Min2(n, Len(s))
      sink == RangePutAll(Sink(n), r)
  IN  /\ Walk(r) = s
      /\ Converts(Category(r), "bidirectional") =>
           /\ WalkBack(r) = s
           /\ Walk(PopBackN(r, n).r) = SubSeq(s, 1, Len(s) - m)
      /\ Direct(Category(r)) =>
           /\ Size(r) = Len(s)
           /\ \A i \in DOMAIN s : At(r, i - 1) = s[i]
           /\ Walk(Slice(r, m, Len(s))) = SubSeq(s, m + 1, Len(s))
      /\ PopFrontN(r, n).n = m
      /\ Walk(PopFrontN(r, n).r) = SubSeq(s, m + 1, Len(s))
      /\ r.kind # "chunks" => /\ FromRange(<<r>>, <<>>) = s
                              /\ sink.data = SubSeq(s, 1, m)
                              /\ sink.written = m /\ (sink.thrown <=> n < Len(s))
=============================================================================
