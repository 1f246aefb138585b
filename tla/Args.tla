-------------------------------- MODULE Args --------------------------------
(* The argument parser. An argument is described by a record: what it needs   *)
(* (needs, n), how often an optional may be used (limit, 0 for any number),   *)
(* its names, whether it is required and whether its action stops the parser. *)
(* A word of the command line is a record [name, value, dash]: dash says that *)
(* it looks like an optional, value is the tuple of what follows a "=".       *)
EXTENDS Naturals, Sequences, SequencesExt

Optional(names, needs, n, limit, required) ==
  [type |-> "optional", names |-> names, needs |-> needs, n |-> n,
   limit |-> limit, required |-> required, stops |-> FALSE]
Positional(name, needs, n) ==
  [type |-> "positional", names |-> {name}, needs |-> needs, n |-> n,
   limit |-> 0, required |-> FALSE, stops |-> FALSE]
Exclusive(required, opts) == [type |-> "exclusive", required |-> required, opts |-> opts]
Group(opts) == [type |-> "group", opts |-> opts]

Separator == [name |-> "--", value |-> <<>>, dash |-> TRUE]

\* The descriptions for_each visits, in their order.
RECURSIVE Each(_, _, _)
Each(opts, exclusive, group) ==
  FlattenSeq([i \in DOMAIN opts |->
    IF \/ opts[i].type = "exclusive" /\ exclusive
       \/ opts[i].type = "group" /\ group
    THEN Each(opts[i].opts, exclusive, group) ELSE <<opts[i]>>])
----------------------------------------------------------------------------
\* What find_arg gives for a name: <<>>, the description or a refusal.
Refusal == [type |-> "refusal"]
FirstFound(found) ==
  LET hits == {i \in DOMAIN found : found[i] # <<>>}
  IN  IF hits = {} THEN <<>> ELSE found[CHOOSE i \in hits : \A j \in hits : i <= j]

RECURSIVE FindIn(_, _)
FindIn(name, d) ==
  CASE d.type \in {"optional", "positional"} ->
         IF name \in d.names THEN <<d>> ELSE <<>>
    [] d.type = "exclusive" ->
         FirstFound([i \in DOMAIN d.opts |->
           IF FindIn(name, d.opts[i]) = <<>> THEN <<>>
           ELSE IF i > 1 THEN <<Refusal>> ELSE FindIn(name, d.opts[i])])
    [] d.type = "group" ->
         FirstFound([i \in DOMAIN d.opts |-> FindIn(name, d.opts[i])])

FindArg(name, opts) == FirstFound([i \in DOMAIN opts |-> FindIn(name, opts[i])])
----------------------------------------------------------------------------
(* The parser's state: the words left, the arguments given so far with their  *)
(* values, the positionals before the one that takes the rest, whether        *)
(* optionals are still allowed, and how it ended ("" while it goes on).       *)
IsOpt(words) == words # <<>> /\ words[1].dash
Used(p, d) == Len(SelectSeq(p.given, LAMBDA g : g.arg = d))
Plain(words, allowed) ==   \* how many words can be values
  CHOOSE k \in 0..Len(words) :
    /\ \A i \in 1..k : ~(allowed /\ words[i].dash)
    /\ k < Len(words) => allowed /\ words[k + 1].dash

Fails(p) == [p EXCEPT !.end = "error"]
Give(p, d, word, attached, values, rest) ==
  IF d.limit > 0 /\ Used(p, d) = d.limit THEN Fails(p)
  ELSE [p EXCEPT !.given = Append(@, [arg |-> d, word |-> word, attached |-> attached,
                                      values |-> values]),
                 !.words = rest,
                 !.end = IF d.stops THEN "stopped" ELSE @]

\* Mutant: an attached value is not counted.
WantedAll(d, attached, words) ==
  IF d.needs = "exactly" THEN d.n
  ELSE IF attached # <<>> /\ d.needs = "optional" THEN 0
  ELSE Plain(words, TRUE)

\* How many words an optional takes besides the value that is attached to it.
Wanted(d, attached, words) ==
  IF d.needs = "exactly" THEN d.n - Len(attached)
  ELSE IF attached # <<>> /\ d.needs = "optional" THEN 0
  ELSE Plain(words, TRUE)

ParseOpt(p, opts) ==
  LET word == Head(p.words)
      words == Tail(p.words)
      found == FindArg(word.name, opts)
  IN  IF found = <<>> \/ found[1].type # "optional" THEN Fails(p)
      ELSE LET d == found[1]
               bad == d.needs = "exactly" /\ d.n < Len(word.value)
               take == Wanted(d, word.value, words)
               values == word.value \o SubSeq(words, 1, take)
           IN  IF \/ bad
                  \/ take > Plain(words, TRUE)
                  \/ d.needs = "all" /\ d.n > Len(values)
               THEN Fails(p)
               ELSE Give(p, d, word, word.value, values, SubSeq(words, take + 1, Len(words)))

\* Several values for one positional are never complete: the loop that takes
\* them does not count.
ParsePos(p, opts, allowed) ==
  LET free == SelectSeq(opts, LAMBDA d : d.type = "positional" /\ Used(p, d) = 0)
      d == Head(free)
      words == Tail(p.words)
      take == CASE d.needs = "rest" -> Len(words)
                [] d.needs = "all" -> Plain(words, allowed)
                [] OTHER -> 0
  IN  IF \/ free = <<>>
         \/ d.needs = "exactly" /\ d.n > 1
         \/ d.needs = "all" /\ d.n > take + 1
      THEN Fails(p)
      ELSE Give(p, d, <<>>, <<>>, SubSeq(p.words, 1, take + 1),
                SubSeq(words, take + 1, Len(words)))

\* One turn of the loop over the words.
Step(p, opts, posix) ==
  IF Head(p.words) = Separator
  THEN [p EXCEPT !.words = Tail(@), !.allowed = FALSE]
  ELSE IF p.allowed /\ IsOpt(p.words) THEN ParseOpt(p, opts)
  ELSE LET a == [p EXCEPT !.allowed = @ /\ ~posix]
           b == ParsePos(a, opts, a.allowed)
           c == [b EXCEPT !.before = @ - 1]
       IN  IF b.end # "" \/ b.before = 0 THEN b
           ELSE IF c.before = 0 /\ c.words # <<>> THEN ParsePos(c, opts, FALSE)
           ELSE c

\* What must have been used when the words are used up.
Missing(p, d) ==
  CASE d.type = "exclusive" -> d.required /\ \A i \in DOMAIN d.opts : Used(p, d.opts[i]) = 0
    [] d.type = "optional" -> d.required /\ Used(p, d) = 0
    [] d.type = "positional" -> d.needs \in {"exactly", "all"} /\ d.n > 0 /\ Used(p, d) = 0

RECURSIVE Run(_, _, _)
Run(p, opts, posix) ==
  IF p.end # "" THEN p
  ELSE IF p.words # <<>> THEN Run(Step(p, opts, posix), opts, posix)
  ELSE IF \E i \in DOMAIN Each(opts, FALSE, TRUE) : Missing(p, Each(opts, FALSE, TRUE)[i])
  THEN Fails(p)
  ELSE [p EXCEPT !.end = "ok"]

\* The positionals before the one that takes the rest are counted first; with
\* none that does, they are of no use.
BeforeRest(opts) ==
  LET pos == SelectSeq(Each(opts, TRUE, TRUE), LAMBDA d : d.type = "positional")
      rests == {i \in DOMAIN pos : pos[i].needs = "rest"}
  IN  IF rests = {} THEN 0 ELSE (CHOOSE i \in rests : \A j \in rests : i <= j) - 1

Parse(opts, posix, words) ==
  Run([words |-> words, given |-> <<>>, before |-> BeforeRest(opts),
       allowed |-> TRUE, end |-> ""], opts, posix)
----------------------------------------------------------------------------
\* The help: what is not in a group, the positionals before the optionals, and
\* then group by group; the lists a group is collected in are never emptied.
OfType(type, ds) == SelectSeq(ds, LAMBDA d : d.type = type)
Listed(ds) == OfType("positional", ds) \o OfType("optional", ds)
Sections(opts) ==
  LET groups == OfType("group", opts)
      upto(k) == FlattenSeq([i \in 1..k |-> Each(groups[i].opts, TRUE, FALSE)])
  IN  <<Listed(Each(opts, TRUE, FALSE))>> \o [k \in DOMAIN groups |-> Listed(upto(k))]
----------------------------------------------------------------------------
Spell(g) == IF g.arg.type = "optional"
            THEN <<g.word>> \o SubSeq(g.values, Len(g.attached) + 1, Len(g.values))
            ELSE g.values
Spoken(p) == FlattenSeq([i \in DOMAIN p.given |-> Spell(p.given[i])])
Words(words) == SelectSeq(words, LAMBDA w : w # Separator)

(* A parse that succeeds has given every word of the command line to one      *)
(* argument, in order, an argument that takes an exact number of values has   *)
(* got that many and one that takes at least so many no fewer.                *)
EveryWordGiven(opts, posix, words) ==
  LET p == Parse(opts, posix, words)
  IN  p.end = "ok" =>
        /\ Words(Spoken(p)) = Words(words)
        /\ \A i \in DOMAIN p.given :
             LET g == p.given[i] IN
             /\ g.arg.needs = "exactly" /\ g.arg.n > 0 => Len(g.values) = g.arg.n
             /\ g.arg.needs = "all" => Len(g.values) >= g.arg.n

(* No optional is taken from behind a separator, nor, with POSIX ordering,    *)
(* from behind a positional; the words there are positionals.                 *)
OptionsEnd(opts, posix, words) ==
  LET p == Parse(opts, posix, words)
      seen(i) == Len(FlattenSeq([j \in 1..(i - 1) |-> Spell(p.given[j])]))
  IN  p.end = "ok" => \A i \in DOMAIN p.given : p.given[i].arg.type = "optional" =>
        /\ \A j \in 1..(seen(i) + 1) : words[j] # Separator
        /\ posix => \A j \in 1..(i - 1) : p.given[j].arg.type = "optional"

(* The help lists every argument in its own section, and with no more than    *)
(* one group every argument once.                                             *)
HelpListsAll(opts) ==
  LET shown == FlattenSeq(Sections(opts))
      all == Each(opts, TRUE, TRUE)
  IN  /\ ToSet(shown) = ToSet(all)
      /\ Len(OfType("group", opts)) < 2 => Len(shown) = Len(all)
=============================================================================
