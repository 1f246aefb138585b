------------------------------ MODULE Counting ------------------------------
(* How the number of threads at some place changes when one of them moves:  *)
(* the arithmetic behind the invariants about lost and pending wakeups;     *)
(* induction on the natural numbers, for what is defined by recursion; and  *)
(* what is in a sequence of sequences that is flattened.                    *)
EXTENDS Integers, FiniteSets, SequencesExt, FiniteSetTheorems, TLAPS

\* The members of T that f puts at one of the places S.
Among(T, f, S) == {u \in T : f[u] \in S}

\* From f to g nobody moves but t.
OnlyMoves(T, f, g, t) == \A u \in T \ {t} : g[u] = f[u]

\* The number n of members at S after one of them goes from place x to y.
Moved(x, y, S, n) == IF x \in S /\ y \notin S THEN n - 1
                     ELSE IF x \notin S /\ y \in S THEN n + 1 ELSE n

\* A count of members of a finite set is a number.
LEMMA AmongFinite ==
  ASSUME NEW T, IsFiniteSet(T), NEW f, NEW S
  PROVE  IsFiniteSet(Among(T, f, S)) /\ Cardinality(Among(T, f, S)) \in Nat
BY FS_Subset, FS_CardinalityType DEF Among

\* When one member moves, the count goes up by one if it comes to S, down by
\* one if it leaves S, and stays otherwise.
LEMMA OneMoves ==
  ASSUME NEW T, IsFiniteSet(T), NEW f, NEW g, NEW t \in T, NEW S,
         OnlyMoves(T, f, g, t)
  PROVE  Cardinality(Among(T, g, S)) =
           Moved(f[t], g[t], S, Cardinality(Among(T, f, S)))
<1> USE DEF OnlyMoves
<1> IsFiniteSet(Among(T, f, S)) BY AmongFinite
<1>1. CASE f[t] \in S /\ g[t] \notin S
  <2>1. Among(T, g, S) = Among(T, f, S) \ {t} BY <1>1 DEF Among
  <2>2. t \in Among(T, f, S) BY <1>1 DEF Among
  <2> QED BY <1>1, <2>1, <2>2, FS_RemoveElement DEF Moved
<1>2. CASE f[t] \notin S /\ g[t] \in S
  <2>1. Among(T, g, S) = Among(T, f, S) \cup {t} BY <1>2 DEF Among
  <2>2. t \notin Among(T, f, S) BY <1>2 DEF Among
  <2> QED BY <1>2, <2>1, <2>2, FS_AddElement DEF Moved
<1>3. CASE f[t] \in S <=> g[t] \in S
  <2>1. Among(T, g, S) = Among(T, f, S) BY <1>3 DEF Among
  <2> QED BY <1>3, <2>1 DEF Moved
<1> QED BY <1>1, <1>2, <1>3
-----------------------------------------------------------------------------
\* Induction, over a set: if 0 is in it and it has the successors of its
\* members, it has every number.  Otherwise its members up to a number n that
\* it misses would fit, moved up by one, into those of them that are not 0.
LEMMA FromZeroOn ==
  ASSUME NEW S, 0 \in S, \A n \in Nat : n \in S => n + 1 \in S
  PROVE  Nat \subseteq S
<1> SUFFICES ASSUME NEW n \in Nat, n \notin S PROVE FALSE
  OBVIOUS
<1> DEFINE U == (0..n) \cap S
           up == [x \in U |-> x + 1]
<1>1. \A x \in U : x + 1 \in U \ {0}
  <2> SUFFICES ASSUME NEW x \in U PROVE x + 1 \in U \ {0}
    OBVIOUS
  <2>1. x \in Nat /\ x <= n /\ x # n /\ x + 1 \in S
    OBVIOUS
  <2> QED BY <2>1
<1>2. up \in Injection(U, U \ {0})
  BY <1>1 DEF Injection, IsInjective
<1>3. U \subseteq 0..n /\ IsFiniteSet(0..n) /\ 0 \in U
  BY FS_Interval
<1> HIDE DEF U, up
<1>4. IsFiniteSet(U) /\ Cardinality(U) \in Nat
  BY <1>3, FS_Subset, FS_CardinalityType
<1>5. IsFiniteSet(U \ {0}) /\ Cardinality(U \ {0}) = Cardinality(U) - 1
  BY <1>3, <1>4, FS_RemoveElement
<1>6. Cardinality(U) <= Cardinality(U \ {0})
  BY <1>2, <1>5, FS_Injection
<1> QED BY <1>4, <1>5, <1>6

\* FlattenSeq, step by step: f[m] is what the first m sequences make.
LEMMA FlattenSteps ==
  ASSUME NEW S, NEW ss \in Seq(Seq(S)), ss # << >>
  PROVE  \E f : /\ FlattenSeq(ss) = f[Len(ss)]
                /\ \A m \in 1..Len(ss) : f[m] = IF m = 1 THEN ss[m] ELSE f[m - 1] \o ss[m]
<1> DEFINE n == Len(ss)
           Def(f, m) == f = [i \in 1..m |-> IF i = 1 THEN ss[i] ELSE f[i - 1] \o ss[i]]
           flatten == CHOOSE f : Def(f, n)
<1>1. n \in Nat \ {0} /\ \A i \in 1..n : ss[i] \in Seq(S)
  OBVIOUS
<1>2. FlattenSeq(ss) = flatten[n]
  BY <1>1 DEF FlattenSeq
<1>3. \E f : Def(f, n)
  <2> DEFINE D == {m \in Nat : m <= n => \E f : Def(f, m)}
  <2>1. 0 \in D
    <3>1. << >> = [i \in 1..0 |-> IF i = 1 THEN ss[i] ELSE << >>[i - 1] \o ss[i]]
      OBVIOUS
    <3> QED BY <3>1
  <2>2. ASSUME NEW m \in Nat, m \in D, m + 1 <= n PROVE \E f : Def(f, m + 1)
    <3>1. \E f : Def(f, m)
      <4> HIDE DEF Def
      <4> QED BY <1>1, <2>2
    <3>2. PICK f : Def(f, m)
      BY <3>1
    <3>3. \A i \in 1..m : f[i] = IF i = 1 THEN ss[i] ELSE f[i - 1] \o ss[i]
      BY <3>2
    <3> DEFINE h == [i \in 1..(m + 1) |->
                       IF i = m + 1 /\ i # 1 THEN f[m] \o ss[i]
                       ELSE IF i = 1 THEN ss[i] ELSE f[i]]
    <3>4. /\ h = [i \in 1..(m + 1) |-> h[i]] /\ \A i \in 1..m : h[i] = f[i]
          /\ h[m + 1] = IF m + 1 = 1 THEN ss[m + 1] ELSE f[m] \o ss[m + 1]
      <4>1. \A i \in 1..m : i \in 1..(m + 1) /\ i # m + 1
        OBVIOUS
      <4>2. m + 1 \in 1..(m + 1)
        OBVIOUS
      <4> QED BY <3>3, <4>1, <4>2, Zenon
    <3> HIDE DEF h
    <3>5. \A i \in 1..(m + 1) : h[i] = IF i = 1 THEN ss[i] ELSE h[i - 1] \o ss[i]
      <4> SUFFICES ASSUME NEW i \in 1..(m + 1)
                   PROVE  h[i] = IF i = 1 THEN ss[i] ELSE h[i - 1] \o ss[i]
        OBVIOUS
      <4>1. CASE i = m + 1
        <5>1. i - 1 = m /\ (i # 1 => m \in 1..m)
          BY <4>1
        <5> QED BY <3>4, <4>1, <5>1
      <4>2. CASE i # m + 1
        <5>1. i \in 1..m /\ (i # 1 => i - 1 \in 1..m)
          BY <4>2
        <5> QED BY <3>3, <3>4, <5>1
      <4> QED BY <4>1, <4>2
    <3>6. h = [i \in 1..(m + 1) |-> IF i = 1 THEN ss[i] ELSE h[i - 1] \o ss[i]]
      BY <3>4, <3>5
    <3> QED BY <3>6
  <2> HIDE DEF Def
  <2>3. ASSUME NEW m \in Nat, m \in D PROVE m + 1 \in D
    <3>1. CASE m + 1 <= n
      BY <2>2, <2>3, <3>1
    <3>2. CASE ~(m + 1 <= n)
      BY <2>3, <3>2
    <3> QED BY <3>1, <3>2
  <2> HIDE DEF D
  <2>4. n \in D
    BY <1>1, <2>1, <2>3, FromZeroOn
  <2> QED BY <1>1, <2>4 DEF D
<1>4. Def(flatten, n)
  <2> HIDE DEF Def
  <2> QED BY <1>3
<1>5. \A m \in 1..n : flatten[m] = IF m = 1 THEN ss[m] ELSE flatten[m - 1] \o ss[m]
  BY <1>4
<1> HIDE DEF flatten, Def
<1> QED BY <1>2, <1>5
=============================================================================
