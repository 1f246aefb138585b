------------------------------- MODULE Tables -------------------------------
(* The character tables: gen_unicode sorts the lines of the Unicode data into  *)
(* lists of code points and folds each list into ranges, laces (every second   *)
(* code point) and singles; the library looks code points up in them.          *)
EXTENDS Integers, Sequences, SequencesExt

\* The lists parse_line adds a line [code, cat, bidi, upper, lower] to, 0 being
\* no mapping. A case list has one element for every element of its own list.
Or(mapping, code) == IF mapping = 0 THEN code ELSE mapping
Letter(cat) == cat \in {"Ll", "Lu", "Lt", "Lo"}
Lists(line) ==
  CASE line.cat = "Cc" -> {"cntrl"}
    [] Letter(line.cat) -> {"alpha"} \cup (CASE line.cat = "Ll" -> {"lower"}
                                             [] line.cat = "Lu" -> {"upper"}
                                             [] line.cat = "Lt" -> {"title"}
                                             [] OTHER -> {})
    [] line.cat = "Nd" -> {"digit"}
    [] line.cat = "Zs" /\ line.bidi \in {"B", "S", "WS"} -> {"space"}
    [] OTHER -> {}

CodesOf(lines, list) ==
  LET mine == SelectSeq(lines, LAMBDA l : list \in Lists(l))
  IN  [i \in DOMAIN mine |-> mine[i].code]
CasesOf(lines, list) ==
  LET mine == SelectSeq(lines, LAMBDA l : list \in Lists(l))
  IN  IF list \notin {"lower", "upper"} THEN <<>>
      ELSE [i \in DOMAIN mine |->
              Or(IF list = "lower" THEN mine[i].upper ELSE mine[i].lower, mine[i].code)]
----------------------------------------------------------------------------
MatchPair(codes, i, off) == i + 1 \in DOMAIN codes /\ codes[i + 1] = codes[i] + off
MatchRange(codes, cases, i) ==
  /\ MatchPair(codes, i, 1)
  /\ cases = <<>> \/ cases[i + 1] = cases[i] + 1
\* Lace 1 maps each of its code points to the next one, lace 2 to the one before.
MatchLace(codes, cases, i, lace) ==
  LET off == IF lace = 1 THEN 1 ELSE -1
  IN  /\ MatchPair(codes, i, 2)
      /\ cases # <<>> => /\ cases[i + 1] = codes[i + 1] + off
                         /\ cases[i] = codes[i] + off

FirstNot(i, n, Matches(_)) == CHOOSE k \in i..n :
  ~Matches(k) /\ \A j \in i..(k - 1) : Matches(j)

\* The loop of build from the i-th code point on; after a sequence its last one
\* is not a single.
NoTables == [ranges |-> <<>>, laces |-> << <<>>, <<>> >>, singles |-> <<>>]
RECURSIVE Fold(_, _, _, _, _)
Fold(codes, cases, i, endseq, t) ==
  LET n == Len(codes)
      case(k) == IF cases = <<>> THEN 0 ELSE cases[k]
      range(k) == MatchRange(codes, cases, k)
      laces == {j \in 1..2 : MatchLace(codes, cases, i, j)}
      lace == IF 1 \in laces THEN 1 ELSE 2
      entry(e) == [from |-> codes[i], to |-> codes[e], case |-> case(i)]
  IN  IF i > n THEN t
      ELSE IF range(i)
      THEN LET e == FirstNot(i + 1, n, range)
           IN  Fold(codes, cases, e, TRUE, [t EXCEPT !.ranges = Append(@, entry(e))])
      ELSE IF laces # {}
      THEN LET e == FirstNot(i + 1, n, LAMBDA k : MatchLace(codes, cases, k, lace))
           IN  Fold(codes, cases, e, TRUE, [t EXCEPT !.laces[lace] = Append(@, entry(e))])
      ELSE Fold(codes, cases, i + 1, FALSE,
                IF endseq THEN t ELSE [t EXCEPT !.singles = Append(@, entry(i))])
Build(codes, cases) == Fold(codes, cases, 1, FALSE, NoTables)
----------------------------------------------------------------------------
\* bsearch: the table is sorted, so what it finds is there and what is there it
\* finds.
Found(table, c) == \E i \in DOMAIN table : table[i].from <= c /\ c <= table[i].to
Entry(table, c) == table[CHOOSE i \in DOMAIN table : table[i].from <= c /\ c <= table[i].to]
Even(c, e) == (c - e.from) % 2 = 0

DoIs(t, c) ==
  IF Found(t.ranges, c) THEN TRUE
  ELSE IF Found(t.laces[1], c) THEN Even(c, Entry(t.laces[1], c))
  ELSE IF Found(t.laces[2], c) THEN Even(c, Entry(t.laces[2], c))
  ELSE Found(t.singles, c)

DoTo(t, c) ==
  LET r == Entry(t.ranges, c)
  IN  IF Found(t.ranges, c) THEN r.case + (c - r.from)
      ELSE IF Found(t.laces[1], c) THEN IF Even(c, Entry(t.laces[1], c)) THEN c + 1 ELSE c
      ELSE IF Found(t.laces[2], c) THEN IF Even(c, Entry(t.laces[2], c)) THEN c - 1 ELSE c
      ELSE IF Found(t.singles, c) THEN Entry(t.singles, c).case ELSE c

Is(lines, list, c) == DoIs(Build(CodesOf(lines, list), <<>>), c)
IsCase(lines, list, c) == DoIs(Build(CodesOf(lines, list), CasesOf(lines, list)), c)
To(lines, list, c) == DoTo(Build(CodesOf(lines, list), CasesOf(lines, list)), c)
----------------------------------------------------------------------------
(* The tables say of every code point what its line of the data says, and map  *)
(* it to the other case the line gives, every other one to itself.             *)
TablesSayWhatTheDataSays(lines, last) ==
  \A c \in 0..last :
    LET mine == SelectSeq(lines, LAMBDA l : l.code = c)
        is(cats) == mine # <<>> /\ mine[1].cat \in cats
    IN  /\ Is(lines, "alpha", c) = is({"Lu", "Ll", "Lt", "Lo"})
        /\ Is(lines, "title", c) = is({"Lt"})
        /\ IsCase(lines, "upper", c) = is({"Lu"})
        /\ IsCase(lines, "lower", c) = is({"Ll"})
        /\ To(lines, "upper", c) = IF is({"Lu"}) THEN Or(mine[1].lower, c) ELSE c
        /\ To(lines, "lower", c) = IF is({"Ll"}) THEN Or(mine[1].upper, c) ELSE c
=============================================================================
