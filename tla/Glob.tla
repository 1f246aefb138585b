-------------------------------- MODULE Glob --------------------------------
(* Matching of names against patterns: glob_match_brackets and                *)
(* glob_match_path_impl. Strings are sequences of characters; behind the end   *)
(* is the terminating zero, here the empty string.                             *)
EXTENDS Naturals, Sequences, SequencesExt

Alphabet == <<"!", "*", "-", "?", "[", "]", "a", "b", "c", "d">>
Code(c) == CHOOSE i \in DOMAIN Alphabet : Alphabet[i] = c
Char(s, i) == IF i \in DOMAIN s THEN s[i] ELSE ""
Rest(s, i) == SubSeq(s, i, Len(s))

\* The loop over the characters and ranges of a bracket expression, w[i] being
\* the current one.
RECURSIVE InBrackets(_, _, _)
InBrackets(m, w, i) ==
  LET range == Char(w, i + 1) = "-" /\ Char(w, i + 2) # "]"
      next == IF range THEN i + 3 ELSE i + 1
  IN  \/ range /\ Code(w[i]) <= Code(m) /\ Code(m) <= Code(w[i + 2])
      \/ ~range /\ m = w[i]
      \/ Char(w, next) # "]" /\ InBrackets(m, w, next)

\* What is behind the brackets when m is matched, w being what is behind the
\* opening one; a closing one at the first place is an ordinary character.
Brackets(m, w) ==
  LET neg == Char(w, 1) = "!"
      first == IF neg THEN 2 ELSE 1
      ends == {i \in DOMAIN w : i > first /\ w[i] = "]"}
      end == CHOOSE i \in ends : \A j \in ends : i <= j
  IN  IF ends = {} \/ InBrackets(m, w, first) = neg
      THEN [ok |-> FALSE, rest |-> <<>>]
      ELSE [ok |-> TRUE, rest |-> Rest(w, end + 1)]

Stars(w) == CHOOSE n \in 0..Len(w) : (\A i \in 1..n : w[i] = "*") /\ Char(w, n + 1) # "*"

\* glob_match_path_impl. When the name ends at a star, what follows the star
\* is not looked at.
RECURSIVE Matches(_, _)
Matches(f, w) ==
  IF w = <<>> THEN f = <<>>
  ELSE IF w[1] = "*" THEN
    LET v == Rest(w, Stars(w) + 1) IN
    v = <<>> \/ f = <<>> \/ \E i \in DOMAIN f : Matches(Rest(f, i), v)
  ELSE IF f # <<>> /\ w[1] = "?" THEN Matches(Tail(f), Tail(w))
  ELSE IF f # <<>> /\ w[1] = "["
  THEN LET b == Brackets(f[1], Tail(w)) IN b.ok /\ Matches(Tail(f), b.rest)
  ELSE Char(f, 1) = w[1] /\ Matches(Tail(f), Tail(w))
----------------------------------------------------------------------------
\* The patterns as documented: a sequence of items, each a character, a set of
\* characters and ranges, or any character or characters at all.
Lit(c) == [kind |-> "char", c |-> c]
AnyChar == [kind |-> "any"]
Star == [kind |-> "star"]
OneOf(neg, elems) == [kind |-> "set", neg |-> neg, elems |-> elems]

Meaning(e) == {c \in Range(Alphabet) :
  Code(e[1]) <= Code(c) /\ Code(c) <= Code(e[Len(e)])}
Text(e) == IF Len(e) = 1 THEN e ELSE <<e[1], "-", e[2]>>
WriteItem(it) ==
  CASE it.kind = "char" -> <<it.c>>
    [] it.kind = "any" -> <<"?">>
    [] it.kind = "star" -> <<"*">>
    [] it.kind = "set" -> <<"[">> \o (IF it.neg THEN <<"!">> ELSE <<>>)
                          \o FlattenSeq([i \in DOMAIN it.elems |-> Text(it.elems[i])])
                          \o <<"]">>
Write(items) == FlattenSeq([i \in DOMAIN items |-> WriteItem(items[i])])

Fits(c, it) ==
  CASE it.kind = "char" -> c = it.c
    [] it.kind = "any" -> TRUE
    [] it.kind = "set" -> (c \in UNION {Meaning(it.elems[i]) : i \in DOMAIN it.elems}) # it.neg

RECURSIVE Means(_, _)
Means(f, items) ==
  IF items = <<>> THEN f = <<>>
  ELSE IF items[1].kind = "star"
  THEN \E i \in 0..Len(f) : Means(Rest(f, i + 1), Tail(items))
  ELSE f # <<>> /\ Fits(f[1], items[1]) /\ Means(Tail(f), Tail(items))

(* A name is matched exactly when the pattern, as documented, stands for it;  *)
(* or, and this the documentation does not say, when the pattern up to a star *)
(* that follows no other one does.                                            *)
MatchesAsMeant(f, items) ==
  Matches(f, Write(items)) =
    \/ Means(f, items)
    \/ \E k \in DOMAIN items : /\ items[k] = Star
                               /\ k > 1 => items[k - 1] # Star
                               /\ Means(f, SubSeq(items, 1, k - 1))
=============================================================================
