-------------------------------- MODULE Text --------------------------------
(* Strings of 8, 16 and 32 bit units: decoding, encoding, transcoding, length, *)
(* comparison, and the search for the terminating zero. A string is a sequence *)
(* of numbers.                                                                *)
EXTENDS Integers, Sequences, SequencesExt, Bitwise

Surrogate(c) == c \in 55296..57343                        \* D800 to DFFF
IsInvalid(c) == Surrogate(c) \/ c > 1114111               \* behind 10FFFF
None == [n |-> 0, c |-> 0]                                \* not decoded
Rest(s, n) == SubSeq(s, n + 1, Len(s))

\* How many units follow the first one: a unit for every bit set behind the
\* highest, until one is not.
Following(ch) == CHOOSE k \in 0..7 :
  /\ \A i \in 1..k : (ch \div 2^(7 - i)) % 2 = 1
  /\ k < 7 => (ch \div 2^(6 - k)) % 2 = 0
Limit == <<255, 127, 2047, 65535>>

\* What k units behind the first one make of it, from all of their bits.
Joined(s, k) ==
  ((s[1] * 2^k) % 128) * 32^k
    + FoldLeft(LAMBDA r, i : r * 64 + (s[i] % 64), 0, [i \in 1..k |-> i + 1])
Continues(s, k) == k < 4 /\ Len(s) > k /\ \A i \in 2..(k + 1) : s[i] \in 128..191

\* Mutant: a longer encoding than needed is accepted.
U8LongerDecode(s, k) ==
  IF ~Continues(s, k) \/ k = 0 \/ IsInvalid(Joined(s, k)) THEN None
  ELSE [n |-> k + 1, c |-> Joined(s, k)]

\* u8_decode: how many units, and which character.
U8LongDecode(s, k) ==
  IF ~Continues(s, k) \/ IsInvalid(Joined(s, k)) \/ Joined(s, k) <= Limit[k + 1] THEN None
  ELSE [n |-> k + 1, c |-> Joined(s, k)]
U8Decode(s) ==
  IF s = <<>> THEN None
  ELSE IF s[1] < 128 THEN [n |-> 1, c |-> s[1]]
  ELSE U8LongDecode(s, Following(s[1]))

\* A low surrogate that follows no high one is taken for a character.
U16Decode(s) ==
  IF s = <<>> THEN None
  ELSE IF s[1] \notin 55296..56319 THEN [n |-> 1, c |-> s[1]]
  ELSE IF Len(s) < 2 \/ s[2] \notin 56320..57343 THEN None
  ELSE [n |-> 2, c |-> 65536 + (s[1] - 55296) * 1024 + (s[2] - 56320)]

Decode(w, s) ==
  CASE w = 8 -> U8Decode(s)
    [] w = 16 -> U16Decode(s)
    [] w = 32 -> IF s = <<>> \/ IsInvalid(s[1]) THEN None ELSE [n |-> 1, c |-> s[1]]

Encode(w, c) ==
  LET tail(i) == 128 + ((c \div 64^i) % 64)
  IN  CASE w = 32 -> <<c>>
        [] w = 8 /\ c < 128 -> <<c>>
        [] w = 8 /\ c \in 128..2047 -> <<192 + (c \div 64), tail(0)>>
        [] w < 32 /\ IsInvalid(c) -> <<>>
        [] w = 8 /\ c \in 2048..65535 -> <<224 + (c \div 4096), tail(1), tail(0)>>
        [] w = 8 -> <<240 + (c \div 262144), tail(2), tail(1), tail(0)>>
        [] w = 16 -> IF c < 65536 THEN <<c>>
                     ELSE <<55296 + ((c - 65536) \div 1024), 56320 + ((c - 65536) % 1024)>>

\* encode from a string of width v to width w: the units written and how many
\* were read.
Recoded(d, out) == [out |-> out, n |-> IF out = <<>> THEN 0 ELSE d.n]
Recode(w, d) == Recoded(d, IF d.n = 0 THEN <<>> ELSE Encode(w, d.c))
Transcode(v, w, s) ==
  CASE s = <<>> -> Recode(w, None)
    [] s # <<>> /\ v = w /\ v < 32 -> [out |-> <<s[1]>>, n |-> 1]
    [] s # <<>> /\ v = 32 -> Recode(w, [n |-> 1, c |-> s[1]])
    [] OTHER -> Recode(w, Decode(v, s))

\* length with the rest it stops at, and without, where what cannot be decoded
\* counts unit by unit.
RECURSIVE Decodable(_, _), Length(_, _), Collect(_, _, _)
Decodable(w, s) ==
  LET d == Decode(w, s)
  IN  IF d.n = 0 THEN [len |-> 0, rest |-> s]
      ELSE LET r == Decodable(w, Rest(s, d.n)) IN [r EXCEPT !.len = @ + 1]
Length(w, s) ==
  IF w = 32 THEN Len(s)
  ELSE IF s = <<>> THEN 0
  ELSE LET d == Decode(w, s) IN 1 + Length(w, Rest(s, IF d.n = 0 THEN 1 ELSE d.n))
----------------------------------------------------------------------------
(* unicode_range, the units of width w of a string of width v: range is what   *)
(* is still to be read, left what the last step has written; bad is the        *)
(* exception.                                                                 *)
Behind(range, t) == [range |-> Rest(range, t.n), left |-> t.out, bad |-> t.n = 0]
Advance(u, v, w) == Behind(u.range, Transcode(v, w, u.range))
UnicodeRange(v, w, s) ==
  IF s = <<>> THEN [range |-> s, left |-> <<>>, bad |-> FALSE]
  ELSE Behind(s, Transcode(v, w, s))
PopFront(u, v, w) ==
  IF Len(u.left) > 1 \/ (u.left # <<>> /\ u.range = <<>>)
  THEN [u EXCEPT !.left = Tail(@)]
  ELSE Advance(u, v, w)
Collect(u, v, w) ==   \* all that it gives, and whether it ended with the exception
  IF u.left = <<>> THEN [out |-> <<>>, bad |-> u.bad]
  ELSE LET r == Collect(PopFront(u, v, w), v, w) IN [r EXCEPT !.out = <<Head(u.left)>> \o @]
----------------------------------------------------------------------------
Compare(s, t) ==
  LET m == IF Len(s) < Len(t) THEN Len(s) ELSE Len(t)
      diff == {i \in 1..m : s[i] # t[i]}
      first == CHOOSE i \in diff : \A j \in diff : i <= j
  IN  IF diff # {} THEN s[first] - t[first]
      ELSE IF Len(s) < Len(t) THEN -1 ELSE IF Len(s) > Len(t) THEN 1 ELSE 0
StartsWith(s, t) == Len(s) >= Len(t) /\ SubSeq(s, 1, Len(t)) = t

ToLower(lower, c) == IF c \in DOMAIN lower THEN lower[c] ELSE c

\* case_compare: each string is cut to the length of the shorter, and the loop
\* ends when the first one does; the second is then read behind its end when its
\* characters have been longer. What is there is unknown.
RECURSIVE CaseLoop(_, _, _, _)
CaseLoop(w, s, t, lower) ==
  LET step(x) == LET d == Decode(w, x)
                 IN  IF d.n = 0 THEN [n |-> 1, c |-> x[1]] ELSE d
      a == step(s)
      b == step(t)
      d == ToLower(lower, a.c) - ToLower(lower, b.c)
  IN  IF s = <<>> THEN "equal"
      ELSE IF t = <<>> THEN "unknown"
      ELSE IF d # 0 THEN (IF d < 0 THEN "less" ELSE "greater")
      ELSE CaseLoop(w, Rest(s, a.n), Rest(t, b.n), lower)

CaseCompare(w, s, t, lower) ==
  LET m == IF Len(s) < Len(t) THEN Len(s) ELSE Len(t)
      d == CaseLoop(w, SubSeq(s, 1, m), SubSeq(t, 1, m), lower)
  IN  IF d # "equal" THEN d
      ELSE IF Len(s) < Len(t) THEN "less" ELSE IF Len(s) > Len(t) THEN "greater" ELSE "equal"

(* tstrlen: units of b bits, n to a machine word, memory beginning at an       *)
(* offset from a word; word by word once aligned.                             *)
HasZero(word, b, n) ==
  LET low == FoldLeft(LAMBDA r, i : r * 2^b + 1, 0, [i \in 1..n |-> i])
      high == low * 2^(b - 1)
      all == 2^(b * n) - 1
  IN  (((word - low) % (all + 1)) & (all - word)) & high # 0
RECURSIVE TStrLen(_, _, _, _)
TStrLen(mem, p, b, n) ==
  LET word == FoldLeft(LAMBDA r, i : r * 2^b + mem[p + n - i], 0, [i \in 1..n |-> i])
      scan == CHOOSE q \in p..Len(mem) : mem[q] = 0 /\ \A r \in p..(q - 1) : mem[r] # 0
  IN  IF (p - 1) % n # 0
      THEN IF mem[p] = 0 THEN p ELSE TStrLen(mem, p + 1, b, n)
      ELSE IF HasZero(word, b, n) THEN scan ELSE TStrLen(mem, p + n, b, n)
----------------------------------------------------------------------------
(* What is decoded is a character, and encoding it gives the units it was      *)
(* decoded from; what is encoded decodes to itself. A lone low surrogate of a  *)
(* 16 bit string is the exception.                                            *)
DecodesWhatEncodes(w, s) ==
  LET d == Decode(w, s)
  IN  d.n > 0 => \/ Encode(w, d.c) = SubSeq(s, 1, d.n) /\ ~IsInvalid(d.c)
                 \/ w = 16 /\ d.c \in 56320..57343
EncodesWhatDecodes(w, c) == ~IsInvalid(c) => Decode(w, Encode(w, c)) = [n |-> Len(Encode(w, c)), c |-> c]

(* A string read through unicode_range gives the other encoding of each of its *)
(* characters and then ends, or throws exactly when something cannot be        *)
(* decoded or encoded; its length is the number of the characters.             *)
RECURSIVE Chars(_, _)
Chars(w, s) == LET d == Decode(w, s) IN IF d.n = 0 THEN <<>> ELSE <<d.c>> \o Chars(w, Rest(s, d.n))
RangeTranscodes(v, w, s) ==
  LET all == Collect(UnicodeRange(v, w, s), v, w)
      cs == Chars(v, s)
      good == Decodable(v, s).rest = <<>> /\ (w = 32 \/ \A i \in DOMAIN cs : ~Surrogate(cs[i]))
  IN  v # w =>
        /\ all.bad <=> ~good
        /\ good => /\ all.out = FlattenSeq([i \in DOMAIN cs |-> Encode(w, cs[i])])
                   /\ Length(v, s) = Len(cs)

(* Strings whose characters have the same lengths compare, their case ignored, *)
(* as the sequences of the lower case characters do.                           *)
CaseOrder(w, s, t, lower) ==
  LET low(x) == LET cs == Chars(w, x) IN [i \in DOMAIN cs |-> ToLower(lower, cs[i])]
      widths(x) == LET cs == Chars(w, x) IN [i \in DOMAIN cs |-> Len(Encode(w, cs[i]))]
      c == Compare(low(s), low(t))
  IN  (/\ Decodable(w, s).rest = <<>> /\ Decodable(w, t).rest = <<>>
       /\ StartsWith(widths(s), widths(t)) \/ StartsWith(widths(t), widths(s)))
        => CaseCompare(w, s, t, lower)
             = (IF c < 0 THEN "less" ELSE IF c > 0 THEN "greater" ELSE "equal")

(* The length of a string is where its first zero is, wherever it begins.      *)
FindsTheEnd(mem, p, b, n) ==
  TStrLen(mem, p, b, n) = (CHOOSE q \in p..Len(mem) : mem[q] = 0 /\ \A r \in p..(q - 1) : mem[r] # 0)
=============================================================================
