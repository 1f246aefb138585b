------------------------------- MODULE Streams -------------------------------
(* The ranges that read a stream by value or by line. What is left of the     *)
(* stream is a sequence.                                                       *)
EXTENDS Integers, Sequences, SequencesExt

CR == "r"
NL == "n"
Behind(text, i) == SubSeq(text, i + 1, Len(text))

\* get_line: the line, what is left, and whether the loop ends. A carriage
\* return ends a line it begins; at any other place the loop puts it for ever.
\* The first character of a line is not taken for its end.
GetLine(text, keep) ==
  LET stop == CHOOSE i \in 2..(Len(text) + 1) :
        /\ i <= Len(text) => text[i] \in {CR, NL}
        /\ \A j \in 2..(i - 1) : text[j] \notin {CR, NL}
      body == SubSeq(text, 1, stop - 1)
  IN  CASE text[1] = CR -> [line |-> <<CR>>, left |-> Tail(text), ends |-> TRUE]
        [] text[1] # CR /\ stop > Len(text) -> [line |-> text, left |-> <<>>, ends |-> TRUE]
        [] OTHER -> [line |-> IF keep THEN Append(body, NL) ELSE body,
                     left |-> Behind(text, stop), ends |-> text[stop] = NL]

\* stream_line_range, walked to its end: empty() gets a line, or nothing at the
\* end of the stream.
RECURSIVE LinesFrom(_, _)
LinesFrom(text, keep) ==
  LET l == GetLine(text, keep)
  IN  IF text = <<>> THEN <<>>
      ELSE IF ~l.ends THEN <<l.line>> ELSE <<l.line>> \o LinesFrom(l.left, keep)

\* stream_range over items of size bytes: what it holds and what the stream has
\* left. get fails at the end, where it takes the bytes that are too few.
Get(s, size) ==
  IF Len(s.left) < size THEN [s EXCEPT !.left = <<>>, !.threw = TRUE]
  ELSE [s EXCEPT !.left = Behind(@, size), !.item = SubSeq(s.left, 1, size), !.threw = FALSE]
RangeEmpty(s, size) ==
  IF s.item # <<>> THEN [s EXCEPT !.said = FALSE]
  ELSE LET g == Get(s, size) IN [g EXCEPT !.said = g.threw, !.threw = FALSE]

RangePop(s, size) ==
  [IF s.item # <<>> THEN s ELSE Get(s, size) EXCEPT !.item = <<>>]
RangeFront(s, size) ==
  LET g == IF s.item # <<>> THEN s ELSE Get(s, size)
  IN  [g EXCEPT !.out = IF g.threw THEN @ ELSE Append(@, g.item)]
Ops == {"empty", "front", "pop"}
StreamStep(s, op, size) ==
  LET t == [s EXCEPT !.threw = FALSE]
  IN  CASE op = "empty" -> RangeEmpty(t, size)
        [] op = "front" -> RangeFront(t, size)
        [] op = "pop" -> RangePop(t, size)
Streaming(text) == [left |-> text, item |-> <<>>, out |-> <<>>, said |-> FALSE, threw |-> FALSE]
----------------------------------------------------------------------------
(* The calls of empty, front and pop_front, in any order and number, see one   *)
(* item after the other: none is lost, none comes twice, and empty and the     *)
(* exceptions tell the end. A last item of too few bytes is not one.           *)
RangeIsTheStream(text, ops, size) ==
  LET state[i \in 0..Len(ops)] ==
        IF i = 0 THEN Streaming(text) ELSE StreamStep(state[i - 1], ops[i], size)
      popped[i \in 0..Len(ops)] ==
        IF i = 0 THEN 0
        ELSE popped[i - 1] + (IF ops[i] = "pop" /\ ~state[i].threw THEN 1 ELSE 0)
      whole == Len(text) \div size
      fronts == SelectSeq([i \in DOMAIN ops |-> i],
                          LAMBDA i : ops[i] = "front" /\ ~state[i].threw)
  IN  /\ \A i \in DOMAIN ops :
           /\ ops[i] = "empty" => (state[i].said <=> popped[i] = whole)
           /\ ops[i] # "empty" => (state[i].threw <=> popped[i - 1] = whole)
      /\ \A k \in DOMAIN fronts : state[Len(ops)].out[k] =
           SubSeq(text, popped[fronts[k]] * size + 1, (popped[fronts[k]] + 1) * size)

(* With the newlines kept, the lines of a text without carriage returns are    *)
(* the text; without, a line has no newline but for its first character.       *)
LinesAreTheText(text) ==
  CR \notin Range(text) =>
    /\ FlattenSeq(LinesFrom(text, TRUE)) = text
    /\ \A i \in DOMAIN LinesFrom(text, FALSE) :
         NL \notin Range(Tail(LinesFrom(text, FALSE)[i]))
=============================================================================
