------------------------------- MODULE Format -------------------------------
(* The formatter: reading a format string and writing values by it. A string   *)
(* is a sequence of characters, behind its end is the terminating zero, the    *)
(* empty string here. A value is a record [kind, v] of kind "int", "char", "str"  *)
(* (characters), "tuple" or "range" (values).                                  *)
EXTENDS Integers, Sequences, SequencesExt

Char(s, i) == IF i \in DOMAIN s THEN s[i] ELSE ""
DigitChars == <<"0", "1", "2", "3", "4", "5", "6", "7", "8", "9",
                "a", "b", "c", "d", "e", "f">>
IsDigit(c) == \E i \in 1..10 : DigitChars[i] = c
Digit(c) == (CHOOSE i \in DOMAIN DigitChars : DigitChars[i] = c) - 1
Run(s, i, In(_)) == CHOOSE n \in 0..Len(s) :   \* characters from i that are in
  /\ \A k \in i..(i + n - 1) : k \in DOMAIN s /\ In(s[k])
  /\ i + n \in DOMAIN s => ~In(s[i + n])
Number(ds) == FoldLeft(LAMBDA n, c : 10 * n + Digit(c), 0, ds)
FlagChars == {"-", "+", "#", "@", "0", " "}
Letters == {"a", "b", "c", "d", "o", "s", "x"}
----------------------------------------------------------------------------
(* A format_spec: at is where the rest of the format begins, ok what the last *)
(* read returned.                                                             *)
Fresh(gflags) == [at |-> 1, ok |-> FALSE, bad |-> FALSE, index |-> 0, flags |-> {}, gflags |-> gflags,
                  width |-> 0, argw |-> FALSE, prec |-> 0, hasp |-> FALSE, argp |-> FALSE,
                  spec |-> "", nested |-> "no", inner |-> <<>>, sep |-> <<>>, text |-> <<>>]
Failed(f) == [f EXCEPT !.ok = FALSE]

\* What read_spec has read when it comes to the specifier itself: where it is,
\* the position, the flags, and the width if its digits came first.
Prefix(s, f) ==
  LET nd == Run(s, f.at, IsDigit)
      ds == SubSeq(s, f.at, f.at + nd - 1)
      pos == Char(s, f.at + nd) = "$"
      zeros == IF pos THEN 0 ELSE Run(ds, 1, LAMBDA c : c = "0")
      start == IF pos THEN f.at + nd + 1 ELSE f.at + nd
      nf == IF pos \/ zeros = nd THEN Run(s, start, LAMBDA c : c \in FlagChars) ELSE 0
  IN  [bad |-> pos /\ (nd = 0 \/ Number(ds) = 0 \/ Number(ds) > 255),
       index |-> IF pos THEN Number(ds) ELSE 0,
       at |-> start + nf,
       flags |-> f.gflags \cup ToSet(SubSeq(s, start, start + nf - 1))
                 \cup (IF zeros > 0 THEN {"0"} ELSE {}),
       digits |-> IF pos THEN <<>> ELSE SubSeq(ds, zeros + 1, nd)]

\* Width, precision and specifier; popping the specifier throws when there is
\* none.
Plain(s, f, p) ==
  LET wd == IF p.digits # <<>> THEN 0 ELSE Run(s, p.at, IsDigit)
      star == p.digits = <<>> /\ wd = 0 /\ Char(s, p.at) = "*"
      a == p.at + wd + (IF star THEN 1 ELSE 0)
      dot == Char(s, a) = "."
      pd == IF dot THEN Run(s, a + 1, IsDigit) ELSE 0
      pstar == dot /\ pd = 0 /\ Char(s, a + 1) = "*"
      e == IF ~dot THEN a ELSE a + 1 + pd + (IF pstar THEN 1 ELSE 0)
  IN  [f EXCEPT !.index = p.index, !.flags = p.flags, !.at = e + 1,
                !.width = Number(p.digits \o SubSeq(s, p.at, p.at + wd - 1)),
                !.argw = star, !.hasp = dot, !.argp = pstar,
                !.prec = Number(SubSeq(s, a + 1, a + pd)), !.spec = Char(s, e),
                !.ok = (dot => pd > 0 \/ pstar) /\ Char(s, e) \in Letters,
                !.bad = (dot => pd > 0 \/ pstar) /\ e > Len(s)]

First(s, i, In(_)) ==    \* the first position from i on that is in, or 0
  LET qs == {q \in i..Len(s) : In(q)}
  IN  IF qs = {} THEN 0 ELSE CHOOSE q \in qs : \A r \in qs : q <= r

RECURSIVE ReadSpec(_, _), ReadUntil(_, _), ReadAll(_, _), Delimiter(_, _, _)

\* read_until_spec: text is what it writes; read_until_dummy does the same and
\* drops it.
ReadUntil(s, f) ==
  IF f.at > Len(s) THEN Failed(f)
  ELSE LET spec == s[f.at] = "%" IN
       IF spec /\ Char(s, f.at + 1) # "%" THEN ReadSpec(s, [f EXCEPT !.at = @ + 1])
       ELSE ReadUntil(s, [f EXCEPT !.at = @ + (IF spec THEN 2 ELSE 1),
                                   !.text = Append(@, s[f.at])])

\* The specs of the contents of a range or tuple, of which there must be one, up
\* to what is not one.
ReadAll(s, f) ==
  LET g == ReadUntil(s, f) IN IF g.ok THEN ReadAll(s, g) ELSE [f EXCEPT !.bad = g.bad]

\* Where, from i on, the "%" of one of the marks is.
Delimiter(s, i, marks) ==
  LET q == First(s, i, LAMBDA k : s[k] = "%")
  IN  IF q = 0 \/ Char(s, q + 1) \in marks THEN q
      ELSE Delimiter(s, q + (IF Char(s, q + 1) = "%" THEN 2 ELSE 1), marks)

\* read_spec_range behind the contents, which end at last. A position before it
\* is forgotten: reading the contents has overwritten it.
ReadDelimiters(s, f, p, tuple, last) ==
  LET q == Delimiter(s, last, IF tuple THEN {">"} ELSE {")", "|"})
      bar == ~tuple /\ Char(s, q + 1) = "|"
      r == IF bar THEN First(s, q + 2, LAMBDA k : s[k] = "%" /\ Char(s, k + 1) = ")") ELSE q
  IN  IF q = 0 \/ r = 0 THEN [Failed(f) EXCEPT !.nested = "no"]
      ELSE [f EXCEPT !.ok = TRUE, !.at = r + 2, !.flags = p.flags, !.index = 0,
                     !.nested = IF tuple THEN "tuple" ELSE "range",
                     !.inner = SubSeq(s, p.at + 1, (IF bar \/ tuple THEN q ELSE last) - 1),
                     !.sep = IF tuple THEN <<>>
                             ELSE SubSeq(s, IF bar THEN q + 2 ELSE last, r - 1)]

ReadRange(s, f, p, tuple) ==
  LET all == ReadAll(s, [f EXCEPT !.at = p.at + 1, !.ok = FALSE])
  IN  IF ~all.ok \/ all.bad THEN [Failed(f) EXCEPT !.nested = "no", !.bad = all.bad]
      ELSE ReadDelimiters(s, f, p, tuple, all.at)

\* read_spec. A plain specifier leaves nested as it is.
ReadSpec(s, f) ==
  LET p == Prefix(s, f)
  IN  IF p.bad THEN Failed(f)
      ELSE IF Char(s, p.at) \in {"(", "<"} /\ p.digits = <<>>
      THEN ReadRange(s, f, p, Char(s, p.at) = "<")
      ELSE Plain(s, f, p)
----------------------------------------------------------------------------
\* Output is what has been written; an exception ends it.
Error == <<"error">>
Bad(out) == out # <<>> /\ Last(out) = "error"
Then(a, b) == IF Bad(a) THEN a ELSE a \o b

Times(n, c) == [i \in 1..(IF n > 0 THEN n ELSE 0) |-> c]
Spaces(f, n, left, c) == IF left = ("-" \in f.flags) THEN <<>> ELSE Times(f.width - n, c)
Escape(c, quote) == IF c = quote THEN <<"\\", c>> ELSE IF c = "\n" THEN <<"\\", "n">> ELSE <<c>>

WriteStr(f, escape, v) ==
  LET n == IF f.hasp /\ f.prec < Len(v) THEN f.prec ELSE Len(v)
      text == SubSeq(v, 1, n)
      body == IF escape THEN <<"\"">> \o FlattenSeq([i \in 1..n |-> Escape(v[i], "\"")]) \o <<"\"">>
              ELSE text
  IN  Spaces(f, n, TRUE, " ") \o body \o Spaces(f, n, FALSE, " ")

WriteChar(f, escape, c) ==
  LET n == IF escape THEN 3 ELSE 1
      quoted == <<"'">> \o Escape(c, "'") \o <<"'">>
  IN  IF escape /\ Len(quoted) > 3
      THEN IF f.spec = "s" THEN WriteStr(f, FALSE, quoted) ELSE Error
      ELSE Spaces(f, n, TRUE, " ") \o (IF escape THEN quoted ELSE <<c>>)
           \o Spaces(f, n, FALSE, " ")

RECURSIVE Digits(_, _), Groups(_, _, _), Grouped(_, _, _, _)
Digits(n, base) ==
  IF n < base THEN <<DigitChars[n + 1]>>
  ELSE Append(Digits(n \div base, base), DigitChars[(n % base) + 1])

\* How many separators the grouping of the locale gives n digits; the last size
\* is used again and again.
Groups(n, grouping, k) ==
  IF grouping = <<>> \/ n <= grouping[k] THEN 0
  ELSE 1 + Groups(n - grouping[k], grouping, IF k = Len(grouping) THEN k ELSE k + 1)

\* The digits with their separators: a full group comes first, whatever is left
\* over last.
Grouped(ds, grouping, seps, left) ==
  LET k == IF seps + 1 < Len(grouping) THEN seps + 1 ELSE Len(grouping)
      size == IF left = 0 THEN grouping[k] ELSE left
  IN  IF seps = 0 THEN ds
      ELSE SubSeq(ds, 1, size) \o <<",">>
           \o Grouped(SubSeq(ds, size + 1, Len(ds)), grouping, seps - 1, 0)

WriteInt(f, v, grouping) ==
  LET base == CASE f.spec \in {"s", "d"} -> 10 [] f.spec = "x" -> 16
                [] f.spec = "o" -> 8 [] f.spec = "b" -> 2 [] OTHER -> 0
      neg == v < 0 /\ base = 10
      ds == Digits(IF neg THEN -v ELSE v % 65536, base)
      none == f.hasp /\ f.prec = 0 /\ v = 0
      zeros == IF f.hasp THEN Times(f.prec - Len(ds), "0") ELSE <<>>
      seps == Groups(Len(ds), grouping, 1)
      number == IF none THEN <<>> ELSE zeros \o Grouped(ds, grouping, seps, 0)
      sign == IF neg THEN <<"-">> ELSE IF "+" \in f.flags THEN <<"+">>
              ELSE IF " " \in f.flags THEN <<" ">> ELSE <<>>
      prefix == IF "#" \in f.flags /\ base \in {2, 16} THEN <<"0", f.spec>> ELSE <<>>
      n == Len(number) + Len(sign) + Len(prefix)
      zero == "0" \in f.flags
  IN  IF base = 0 THEN Error
      ELSE (IF zero THEN <<>> ELSE Spaces(f, n, TRUE, " ")) \o sign \o prefix
           \o (IF zero THEN Spaces(f, n, TRUE, "0") ELSE <<>>) \o number
           \o Spaces(f, n, FALSE, " ")
----------------------------------------------------------------------------
RECURSIVE WriteVal(_, _, _), WriteFmt(_, _, _, _)

\* Tuples and ranges with "s": the items, each as with "s".
WriteItems(vs, escape) ==
  LET f == [Fresh({}) EXCEPT !.spec = "s", !.flags = IF escape THEN {"@"} ELSE {}]
  IN  FoldLeft(LAMBDA out, i : Then(out, (IF i > 1 THEN <<",", " ">> ELSE <<>>)
                                         \o WriteVal(f, escape, vs[i])),
               <<>>, [i \in DOMAIN vs |-> i])

WriteVal(f, escape, a) ==
  CASE a.kind = "int" -> WriteInt(f, a.v, <<>>)
    [] a.kind = "char" /\ f.spec \in {"s", "c"} -> WriteChar(f, escape, a.v)
    [] a.kind = "str" /\ f.spec = "s" -> WriteStr(f, escape, a.v)
    [] a.kind = "tuple" /\ f.spec = "s" -> Then(<<"<">> \o WriteItems(a.v, escape), <<">">>)
    [] a.kind = "range" /\ f.spec = "s" -> Then(<<"{">> \o WriteItems(a.v, escape), <<"}">>)
    [] OTHER -> Error

\* An argument for width or precision.
Param(args, i) == i \in DOMAIN args /\ args[i].kind = "int" /\ args[i].v >= 0

\* Mutant: an explicit position always sets the next one.
NextIndexAlways(f, next, n) == IF f.index = 0 THEN next + n ELSE f.index + 1

\* The next implicit position after a spec that took n of them, or had one.
NextIndex(f, next, n) ==
  IF f.index = 0 THEN next + n ELSE IF f.index > next THEN f.index + 1 ELSE next

One(b) == IF b THEN 1 ELSE 0
WritePlain(f, next, args) ==
  LET value == IF f.index > 0 THEN f.index ELSE next + One(f.argw) + One(f.argp)
      prec == value - 1
      width == value - 1 - One(f.argp)
      g == [f EXCEPT !.prec = IF f.argp THEN args[prec].v ELSE @,
                     !.width = IF f.argw THEN args[width].v ELSE @]
  IN  IF \/ f.argp /\ ~Param(args, prec)
         \/ f.argw /\ ~Param(args, width)
         \/ value \notin DOMAIN args
      THEN Error ELSE WriteVal(g, "@" \in f.flags, args[value])

\* write_tuple, write_range and write_range_item.
WriteNested(f, next, args) ==
  LET value == IF f.index > 0 THEN f.index ELSE next
      at == f.flags \cap {"@"}
      item(v) == WriteFmt(f.inner, Fresh(at), 1,
                   IF "#" \in f.flags /\ v.kind = "tuple" THEN v.v ELSE <<v>>)
      vs == args[value].v
  IN  IF value \notin DOMAIN args \/ args[value].kind # f.nested THEN Error
      ELSE IF f.nested = "tuple" THEN WriteFmt(f.inner, Fresh(at), 1, vs)
      ELSE FoldLeft(LAMBDA out, i : Then(out, (IF i > 1 THEN f.sep ELSE <<>>) \o item(vs[i])),
                    <<>>, [i \in DOMAIN vs |-> i])

\* write_fmt, when g is what the next spec was read as.
WriteRead(s, g, next, args) ==
  LET plain == g.nested = "no"
      n == IF plain THEN 1 + One(g.argw) + One(g.argp) ELSE 1
      out == IF plain THEN WritePlain(g, next, args) ELSE WriteNested(g, next, args)
  IN  IF ~g.ok THEN g.text \o (IF g.bad THEN Error ELSE <<>>)
      ELSE g.text \o Then(out, WriteFmt(s, g, NextIndex(g, next, n), args))
WriteFmt(s, f, next, args) ==
  WriteRead(s, ReadUntil(s, [f EXCEPT !.text = <<>>]), next, args)
----------------------------------------------------------------------------
(* Formats as documented: a sequence of items, a character, a specifier (its   *)
(* position as digits, its flags, the text of width and precision and its     *)
(* letter), a range or a tuple with its contents.                             *)
Lit(c) == [t |-> "lit", c |-> c]
Spec(pos, flags, dims, letter) ==
  [t |-> "spec", pos |-> pos, flags |-> flags, dims |-> dims, letter |-> letter]
RangeSpec(flags, items, sep, bar) ==
  [t |-> "range", pos |-> <<>>, flags |-> flags, items |-> items, sep |-> sep, bar |-> bar]
TupleSpec(flags, items) == [t |-> "tuple", pos |-> <<>>, flags |-> flags, items |-> items]

RECURSIVE Written(_), Meant(_, _, _, _)
Written(items) ==
  LET text(it) ==
        CASE it.t = "lit" -> IF it.c = "%" THEN <<"%", "%">> ELSE <<it.c>>
          [] it.t = "spec" -> <<"%">> \o it.pos \o it.flags \o it.dims \o <<it.letter>>
          [] it.t = "tuple" -> <<"%">> \o it.flags \o <<"<">> \o Written(it.items) \o <<"%", ">">>
          [] it.t = "range" -> <<"%">> \o it.flags \o <<"(">> \o Written(it.items)
                               \o (IF it.bar THEN <<"%", "|">> ELSE <<>>) \o it.sep \o <<"%", ")">>
  IN  FlattenSeq([i \in DOMAIN items |-> text(items[i])])

SpecOf(it, flags) ==
  [Plain(it.dims, Fresh({}), [Prefix(it.dims, Fresh({})) EXCEPT !.at = 1, !.digits = <<>>])
     EXCEPT !.flags = flags, !.spec = it.letter,
            !.index = IF it.pos = <<>> THEN 0 ELSE Number(Front(it.pos))]
After(f, next) == IF f.index = 0 THEN next + 1 + One(f.argw) + One(f.argp)
                  ELSE IF f.index > next THEN f.index + 1 ELSE next

\* What the items stand for, next being the position of the next argument.
Meant(items, escape, next, args) ==
  LET it == items[1]
      flags == ToSet(it.flags) \cup (IF escape THEN {"@"} ELSE {})
      inner(vs) == Meant(it.items, "@" \in flags, 1, vs)
      part(v) == inner(IF "#" \in flags /\ v.kind = "tuple" THEN v.v ELSE <<v>>)
      vs == args[next].v
      one == CASE it.t = "lit" -> <<it.c>>
               [] it.t = "spec" -> WritePlain(SpecOf(it, flags), next, args)
               [] OTHER ->
                  IF next \notin DOMAIN args \/ args[next].kind # it.t THEN Error
                  ELSE IF it.t = "tuple" THEN inner(vs)
                  ELSE FoldLeft(LAMBDA out, i : Then(out, (IF i > 1 THEN it.sep ELSE <<>>) \o part(vs[i])),
                                <<>>, [i \in DOMAIN vs |-> i])
      after == CASE it.t = "lit" -> next
                 [] it.t = "spec" -> After(SpecOf(it, flags), next)
                 [] OTHER -> next + 1
  IN  IF items = <<>> THEN <<>> ELSE Then(one, Meant(Tail(items), escape, after, args))

(* A format string is read as documented: what is written is what its items   *)
(* mean. Two things are not as documented: a specifier behind a range or tuple  *)
(* is not read as one, and naming the position that is next anyway moves      *)
(* nothing.                                                                   *)
ReadsAsMeant(items, args) ==
  WriteFmt(Written(items), Fresh({}), 1, args) = Meant(items, FALSE, 1, args)

(* A number is written with its digits in order and, sign, prefix, zeros and  *)
(* separators included, never shorter than width and precision ask for; the   *)
(* padding is all on one side.                                                *)
NumberKept(f, v, grouping) ==
  LET out == WriteInt(f, v, grouping)
      kept == SelectSeq(out, LAMBDA c : c \notin {" ", ",", "-", "+"})
      base == CASE f.spec = "x" -> 16 [] f.spec = "b" -> 2 [] OTHER -> 10
      digits == IF "#" \in f.flags /\ base # 10 THEN SelectSeq(kept, LAMBDA c : c \notin {"x", f.spec}) ELSE kept
      value == FoldLeft(LAMBDA n, c : base * n + Digit(c), 0, digits)
  IN  /\ Len(out) >= f.width
      /\ f.hasp => Len(digits) >= f.prec
      /\ value = (IF v < 0 /\ base # 10 THEN v + 65536 ELSE IF v < 0 THEN -v ELSE v)
      /\ (v < 0 /\ base = 10) <=> "-" \in ToSet(out)
      /\ Len(out) > f.width => out = WriteInt([f EXCEPT !.width = 0], v, grouping)
=============================================================================
