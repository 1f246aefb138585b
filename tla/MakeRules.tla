----------------------------- MODULE MakeRules -----------------------------
(* How make finds the rules of a target: match_pattern, make_pattern, and      *)
(* find_rules; and check_exec, which decides whether the body of a target is   *)
(* run. Strings are sequences of characters; "%" stands for the stem.          *)
EXTENDS Integers, Sequences, SequencesExt, FiniteSets

VARIABLE input                             \* what make is asked, see RulesAreFollowed

Stem == "%"
Upto(s, i) == SubSeq(s, 1, i)
Behind(s, i) == SubSeq(s, i + 1, Len(s))
StemAt(s) == CHOOSE i \in 1..(Len(s) + 1) :
  (i <= Len(s) => s[i] = Stem) /\ \A j \in 1..(i - 1) : s[j] # Stem

\* The part of target the stem stands for, <<>> for no match; the whole of it
\* without a stem.
MatchPattern(target, pattern) ==
  LET i == StemAt(pattern)
      front == Upto(pattern, i - 1)
      back == Behind(pattern, i)
      rest == Behind(target, i - 1)
  IN  IF i > Len(pattern) THEN (IF target = pattern THEN target ELSE <<>>)
      ELSE IF /\ Len(target) > Len(front) + Len(back)
              /\ Upto(target, Len(front)) = front /\ Behind(rest, Len(rest) - Len(back)) = back
      THEN Upto(rest, Len(rest) - Len(back))
      ELSE <<>>

\* make_pattern::match: how long what is behind the stem and the stem are, all
\* of a target that is matched as a whole counting as the former.
Match(target, pattern) ==
  LET sub == MatchPattern(target, pattern)
      i == StemAt(pattern)
  IN  IF sub = <<>> THEN [fnl |-> 0, subl |-> 0, sub |-> sub]
      ELSE IF Len(sub) = Len(target) THEN [fnl |-> Len(sub), subl |-> 0, sub |-> sub]
      ELSE [fnl |-> Len(pattern) - i, subl |-> Len(sub), sub |-> sub]
Replace(dep, sub) ==
  LET i == StemAt(dep)
  IN  IF sub = <<>> \/ i > Len(dep) THEN dep ELSE Upto(dep, i - 1) \o sub \o Behind(dep, i)
----------------------------------------------------------------------------
\* find_rules, rule by rule: a rule is [target, deps, body, cond], an instance
\* of it is its place and dependencies. frule is the place in rlist of the best
\* rule with a body; it is a pointer, and stale once rlist has been moved.
Matched(target, rules, i) ==
  LET m == Match(target, rules[i].target)
  IN  rules[i].cond /\ m.fnl + m.subl > 0
Instance(target, rules, i) ==
  LET m == Match(target, rules[i].target)
  IN  [rule |-> i, deps |-> [k \in DOMAIN rules[i].deps |-> Replace(rules[i].deps[k], m.sub)]]
NoRules == [rlist |-> <<>>, frule |-> 0, stale |-> FALSE, fnl |-> 0, subl |-> 0, error |-> "none"]
Moves(n) == n \in {1, 2, 4, 8}        \* a vector of n that is full

Better(s, m) == m.fnl > s.fnl \/ (m.fnl = s.fnl /\ m.subl < s.subl)
\* Mutant: the length of the stem of the better rule is not kept.
AddRuleOldStem(s, target, rules, i) ==
  LET m == Match(target, rules[i].target)
      new == Instance(target, rules, i)
      t == [s EXCEPT !.rlist = Append(@, new), !.stale = @ \/ (s.frule > 0 /\ Moves(Len(s.rlist)))]
  IN  IF ~rules[i].body THEN (IF m.fnl # Len(target) THEN [t EXCEPT !.error = "no_body"] ELSE t)
      ELSE IF s.frule = 0 THEN [t EXCEPT !.frule = Len(t.rlist), !.fnl = m.fnl, !.subl = m.subl]
      ELSE IF s.fnl = m.fnl /\ s.subl = m.subl THEN [t EXCEPT !.error = "redefined"]
      ELSE IF ~Better(s, m) THEN t
      ELSE IF t.stale THEN [t EXCEPT !.error = "undefined"]
      ELSE [s EXCEPT !.rlist[s.frule] = new, !.fnl = m.fnl]

AddRule(s, target, rules, i) ==
  LET m == Match(target, rules[i].target)
      new == Instance(target, rules, i)
      t == [s EXCEPT !.rlist = Append(@, new), !.stale = @ \/ (s.frule > 0 /\ Moves(Len(s.rlist)))]
  IN  IF ~rules[i].body THEN (IF m.fnl # Len(target) THEN [t EXCEPT !.error = "no_body"] ELSE t)
      ELSE IF s.frule = 0 THEN [t EXCEPT !.frule = Len(t.rlist), !.fnl = m.fnl, !.subl = m.subl]
      ELSE IF s.fnl = m.fnl /\ s.subl = m.subl THEN [t EXCEPT !.error = "redefined"]
      ELSE IF ~Better(s, m) THEN t
      ELSE IF t.stale THEN [t EXCEPT !.error = "undefined"]
      ELSE [s EXCEPT !.rlist[s.frule] = new, !.fnl = m.fnl, !.subl = m.subl]
FindRules(target, rules) ==
  LET found[i \in 0..Len(rules)] ==           \* by the first i rules
        IF i = 0 THEN NoRules
        ELSE IF found[i - 1].error # "none" \/ ~Matched(target, rules, i) THEN found[i - 1]
        ELSE AddRule(found[i - 1], target, rules, i)
  IN  found[Len(rules)]

\* check_exec: files maps the names of the files there are to the time of their
\* last write, 0 if they are not regular.
CheckExec(files, target, deps) ==
  \/ target \notin DOMAIN files
  \/ \E i \in DOMAIN deps : deps[i] \notin DOMAIN files
  \/ files[target] = 0
  \/ \E i \in DOMAIN deps : files[deps[i]] # 0 /\ files[target] < files[deps[i]]

\* exec_rlist: the dependencies of all the rules, then the body of the first
\* that has one.
Dependencies(rlist) == FlattenSeq([i \in DOMAIN rlist |-> rlist[i].deps])
Chosen(rlist, rules) ==
  LET with == {k \in DOMAIN rlist : rules[rlist[k].rule].body}
  IN  IF with = {} THEN 0 ELSE rlist[CHOOSE k \in with : \A l \in with : k <= l].rule
----------------------------------------------------------------------------
OneStem(deps) == \A i \in DOMAIN deps : \A k, l \in DOMAIN deps[i] :
                   deps[i][k] = Stem /\ deps[i][l] = Stem => k = l

(* What a pattern matches it gives back when its stem is put in; of the rules  *)
(* with a body that match, the one whose text behind the stem is longest is    *)
(* chosen, of these the one with the shortest stem; no rule without a body is  *)
(* left out, and a dependency with a stem gets it. ("redefined" is an error    *)
(* only of two equal rules; "undefined" is left to the vector.)                *)
FindsTheBestRule(target, rules) ==
  LET matched == {i \in DOMAIN rules : Matched(target, rules, i)}
      bodies == {i \in matched : rules[i].body}
      rank(i) == Match(target, rules[i].target)
      best == {i \in bodies : \A j \in bodies : ~Better(rank(i), rank(j))}
      keeps(kept) == matched \ bodies \subseteq kept /\ kept \subseteq matched
  IN  /\ \A i \in matched : Replace(rules[i].target, rank(i).sub) = target
      /\ \A f \in {FindRules(target, rules)} :
           /\ f.error = "none" =>
                /\ keeps({f.rlist[k].rule : k \in DOMAIN f.rlist})
                /\ Chosen(f.rlist, rules) \in (IF bodies = {} THEN {0} ELSE best)
                /\ Stem \notin Range(target) /\ (\A i \in matched : OneStem(rules[i].deps)) =>
                     \A dep \in Range(Dependencies(f.rlist)) : Stem \notin Range(dep)
           /\ f.error = "redefined" => \E i, j \in bodies :
                i # j /\ rank(i).fnl = rank(j).fnl /\ rank(i).subl = rank(j).subl
           /\ f.error = "undefined" => Cardinality(bodies) > 1

(* What has been made is not made again until a file it depends on is written  *)
(* anew, or goes away (check_exec).                                            *)
MadeOnce(files, target, deps, now) ==
  LET put(f, time) == [n \in DOMAIN files \cup {f, target} |->
                         IF n = f THEN time ELSE IF n = target THEN now ELSE files[n]]
  IN  Range(deps) \subseteq DOMAIN files /\ target \notin Range(deps) =>
        /\ ~CheckExec(put(target, now), target, deps)
        /\ \A i \in DOMAIN deps :
             /\ CheckExec(put(deps[i], now + 1), target, deps)
             /\ CheckExec([n \in (DOMAIN files \cup {target}) \ {deps[i]} |-> put(target, now)[n]],
                          target, deps)

(* make finds the best rule of a target, keeps every other, and runs a body    *)
(* when it has to (find_rules, check_exec).                                    *)
RulesAreFollowed ==
  /\ input.area = "rules" => FindsTheBestRule(input.target, input.rules)
  /\ input.area = "exec" => MadeOnce(input.files, input.target, input.deps, input.now)
=============================================================================
