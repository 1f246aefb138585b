------------------------------- MODULE Paths -------------------------------
(* ostd::path: purely lexical operations on file names in the POSIX and the   *)
(* Windows format. A string is a sequence of characters; what is read past     *)
(* its end is the terminating zero, here the empty string.                     *)
EXTENDS Integers, Sequences, SequencesExt

Slash == "/"
Backslash == "\\"
IsSep(c) == c \in {Slash, Backslash}
Letters == {"a", "b", "C"}

At(s, i) == IF i \in DOMAIN s THEN s[i] ELSE ""
From(s, i) == SubSeq(s, i, Len(s))
Upto(s, i) == SubSeq(s, 1, i)
EndsWith(s, c) == s # <<>> /\ Last(s) = c
StartsWith(s, t) == Len(t) <= Len(s) /\ Upto(s, Len(t)) = t

\* find and find_last of range and algorithm: the rest of s from c on.
Places(s, c) == {i \in DOMAIN s : s[i] = c}
Find(s, c) == IF Places(s, c) = {} THEN <<>>
              ELSE From(s, CHOOSE i \in Places(s, c) : \A j \in Places(s, c) : i <= j)
FindLast(s, c) == IF Places(s, c) = {} THEN <<>>
                  ELSE From(s, CHOOSE i \in Places(s, c) : \A j \in Places(s, c) : i >= j)
Before(s, rest) == Upto(s, Len(s) - Len(rest))

\* A path: its string and whether it has the Windows format.
Path(s, win) == [str |-> s, win |-> win]
EmptyPath(win) == Path(<<".">>, win)
Failed == Path(<<"error">>, FALSE)   \* an exception

Separator(p) == IF p.win THEN Backslash ELSE Slash
HasLetter(s) == Len(s) >= 2 /\ s[2] = ":" /\ s[1] \in Letters
HasDslash(s) == Len(s) >= 2 /\ s[1] = Backslash /\ s[2] = Backslash
----------------------------------------------------------------------------
\* cleanup_str: a run of separators and of periods between them becomes one
\* separator, from start on; a leading period goes.
RECURSIVE RunLength(_, _), Collapse(_, _)
RunLength(s, n) ==
  IF IsSep(At(s, n + 2)) THEN RunLength(s, n + 1)
  ELSE IF At(s, n + 2) = "." /\ (IsSep(At(s, n + 3)) \/ At(s, n + 3) = "")
       THEN RunLength(s, n + 2)
       ELSE n + 1

\* Mutant: separators are made one, periods between them are kept.
RECURSIVE CollapseSeparators(_, _)
CollapseSeparators(s, sep) ==
  IF s = <<>> THEN <<>>
  ELSE IF IsSep(s[1]) /\ IsSep(At(s, 2)) THEN CollapseSeparators(Tail(s), sep)
  ELSE <<IF IsSep(s[1]) THEN sep ELSE s[1]>> \o CollapseSeparators(Tail(s), sep)

Collapse(s, sep) ==
  IF s = <<>> THEN <<>>
  ELSE IF IsSep(s[1]) THEN <<sep>> \o Collapse(From(s, RunLength(s, 0) + 1), sep)
  ELSE <<s[1]>> \o Collapse(Tail(s), sep)

CleanUp(s, sep, twoslash) ==
  LET n == IF twoslash /\ IsSep(At(s, 1)) /\ IsSep(At(s, 2)) THEN 1 ELSE 0
      t == From(s, n + 1)
      u == IF At(t, 1) # "." THEN t
           ELSE IF IsSep(At(t, 2)) THEN From(t, 3)
           ELSE IF Len(t) = 1 THEN <<>> ELSE t
  IN  Upto(s, n) \o Collapse(u, sep)

StripTrailing(s, sep) ==
  IF \/ sep = Backslash /\ Len(s) <= (IF HasDslash(s) THEN 2 ELSE IF HasLetter(s) THEN 3 ELSE 0)
     \/ sep = Slash /\ Len(s) <= 1
     \/ ~EndsWith(s, sep)
  THEN s ELSE Front(s)

\* append_str: what has a root or a drive replaces the path.
AppendStr(p, raw, norm) ==
  LET sep == Separator(p)
      s == IF norm THEN raw ELSE CleanUp(raw, sep, p.win)
      t == IF At(s, 1) = sep \/ (p.win /\ HasLetter(s)) THEN s
           ELSE IF s = <<>> THEN p.str
           ELSE IF p.str = <<".">> THEN s
           ELSE IF EndsWith(p.str, sep) THEN p.str \o s
           ELSE p.str \o <<sep>> \o s
  IN  Path(StripTrailing(t, sep), p.win)

MakePath(raw, win) == AppendStr(EmptyPath(win), raw, FALSE)
Append2(p, q) == AppendStr(p, q.str, p.win = q.win)

Concat(p, q) ==
  LET sep == Separator(p)
      s == CleanUp(q.str, sep, FALSE)
      t == IF p.str = <<".">> THEN s
           ELSE IF EndsWith(p.str, sep) /\ At(s, 1) = sep THEN Front(p.str) \o s
           ELSE p.str \o s
  IN  Path(StripTrailing(t, sep), p.win)

Convert(p, win) ==
  IF p.win = win THEN p
  ELSE LET s == IF ~win /\ HasDslash(p.str) THEN <<Slash>> \o From(p.str, 3) ELSE p.str
           from == IF win THEN Slash ELSE Backslash
           to == IF win THEN Backslash ELSE Slash
       IN  Path([i \in DOMAIN s |-> IF s[i] = from THEN to ELSE s[i]], win)
----------------------------------------------------------------------------
Drive(p) ==
  IF ~p.win THEN <<>>
  ELSE IF HasDslash(p.str)
  THEN LET host == Find(From(p.str, 3), Backslash)
           rest == Find(From(host, 2), Backslash)
       IN  IF host = <<>> THEN p.str ELSE Before(p.str, rest)
  ELSE IF HasLetter(p.str) THEN Upto(p.str, 2) ELSE <<>>

\* The place of the root, or 0.
RootAt(p) ==
  IF p.win THEN IF At(p.str, 1) = Backslash THEN 1
                ELSE IF HasLetter(p.str) /\ At(p.str, 3) = Backslash THEN 3 ELSE 0
  ELSE IF At(p.str, 1) = Slash THEN 1 ELSE 0
Root(p) == IF RootAt(p) = 0 THEN <<>> ELSE <<p.str[RootAt(p)]>>

Anchor(p) ==
  LET d == Drive(p) IN
  IF d = <<>> THEN Root(p)
  ELSE IF At(p.str, Len(d) + 1) = Separator(p) THEN Upto(p.str, Len(d) + 1) ELSE d

IsAbsolute(p) ==
  IF p.win THEN HasDslash(p.str) \/ (HasLetter(p.str) /\ At(p.str, 3) = Backslash)
  ELSE At(p.str, 1) = Slash

RelativeToStr(p, other) ==
  IF other = <<".">> THEN p.str
  ELSE IF ~StartsWith(p.str, other) THEN <<>>
  ELSE IF At(p.str, Len(other) + 1) = Separator(p) THEN From(p.str, Len(other) + 2)
  ELSE From(p.str, Len(other) + 1)

RelativeTo(p, other) ==
  LET s == RelativeToStr(p, Convert(other, p.win).str)
  IN  IF s = <<>> THEN Failed ELSE MakePath(s, p.win)

HasParent(p) ==
  IF IsAbsolute(p) THEN p.str # Anchor(p) ELSE Places(p.str, Separator(p)) # {}

Parent(p) ==
  LET sep == FindLast(IF IsAbsolute(p) THEN RelativeToStr(p, Anchor(p)) ELSE p.str,
                      Separator(p))
  IN  IF sep # <<>> THEN MakePath(Before(p.str, sep), p.win)
      ELSE IF IsAbsolute(p) THEN MakePath(Anchor(p), p.win) ELSE p

Relative(p) == RelativeToStr(p, Anchor(p))
Name(p) == LET sep == FindLast(Relative(p), Separator(p))
           IN  IF sep = <<>> THEN Relative(p) ELSE Tail(sep)

SuffixOf(p) == FindLast(Relative(p), ".")
SuffixesOf(p) == Find(Name(p), ".")
Stem(p) == Before(Name(p), SuffixesOf(p))

\* erase starts one character before the name, which may be before the string.
RemoveName(p) ==
  IF Name(p) = <<>> \/ Len(Name(p)) = Len(p.str) THEN Failed
  ELSE Path(Upto(p.str, Len(p.str) - Len(Name(p)) - 1), p.win)
ReplaceName(p, name) ==
  LET q == RemoveName(p) IN IF q = Failed THEN Failed ELSE AppendStr(q, name, FALSE)
ReplaceSuffix(p, s) == Path(Before(p.str, SuffixOf(p)) \o s, p.win)
ReplaceSuffixes(p, s) == Path(Before(p.str, SuffixesOf(p)) \o s, p.win)
----------------------------------------------------------------------------
\* path_range: the anchor or the first component, and then, after every
\* separator, the next.
FirstPart(p) ==
  IF Drive(p) # <<>> THEN Anchor(p)
  ELSE IF Root(p) # <<>> THEN Root(p)
  ELSE Before(p.str, Find(p.str, Separator(p)))
FirstRest(p) ==
  IF Drive(p) # <<>>
  THEN From(p.str, IF Anchor(p) = Drive(p) THEN Len(Drive(p)) ELSE Len(Drive(p)) + 1)
  ELSE IF Root(p) # <<>> THEN p.str
  ELSE Find(p.str, Separator(p))

RECURSIVE PartsOf(_)
PartsOf(rest) ==
  IF rest = <<>> THEN <<>>
  ELSE LET next == Find(Tail(rest), IF rest[1] = Slash THEN Slash ELSE Backslash)
           part == Before(Tail(rest), next)
       IN  IF part = <<>> THEN <<>> ELSE <<part>> \o PartsOf(next)
Parts(p) == (IF FirstPart(p) = <<>> THEN <<>> ELSE <<FirstPart(p)>>) \o PartsOf(FirstRest(p))

\* path_parent_range.
RECURSIVE Parents(_)
Parents(p) == IF HasParent(p) THEN <<Parent(p)>> \o Parents(Parent(p)) ELSE <<>>
----------------------------------------------------------------------------
(* However it was written, a path has no two separators in a row but those in  *)
(* front of a Windows host, none at its end but the root, and no "." among its  *)
(* names but, where the code keeps it, in front of them.                       *)
PathIsNormal(raw, win) ==
  LET p == MakePath(raw, win)
      s == p.str
  IN  /\ \A i \in 1..(Len(s) - 1) : IsSep(s[i]) /\ IsSep(s[i + 1]) => win /\ i = 1
      /\ EndsWith(s, Separator(p)) => s \in {Anchor(p), <<Separator(p)>>}
      /\ \A i \in DOMAIN Parts(p) : Parts(p)[i] = <<".">> =>
           i = 1 \/ (i = 2 /\ Drive(p) # <<>>)

\* No "." in front and, in the Windows format, an absolute path or neither root
\* nor drive, and no colon but that of the drive.
Usual(p) ==
  /\ ~StartsWith(p.str, <<".", Separator(p)>>)
  /\ p.win =>
       /\ p.str # <<>> /\ (IsAbsolute(p) \/ ~IsSep(p.str[1]))
       /\ Places(p.str, ":") \subseteq (IF IsAbsolute(p) /\ HasLetter(p.str) THEN {2} ELSE {})

(* What a path is taken apart into makes the path again: its parent and its    *)
(* name, its stem and its suffixes, and the parts it is iterated over; it is    *)
(* its name relative to its parent. (Other Windows paths lose a root, a drive  *)
(* or a separator on the way.)                                                 *)
PathComesApart(raw, win) ==
  LET p == MakePath(raw, win)
      join(q, part) == AppendStr(q, part, TRUE)
  IN  Usual(p) =>
        /\ HasParent(p) =>
             /\ Append2(Parent(p), Path(Name(p), win)) = p
             /\ Concat(Parent(p), Path(<<Separator(p)>> \o Name(p), win)) = p
             /\ RelativeTo(p, Parent(p)) = Path(Name(p), win)
             /\ ReplaceName(p, Name(p)) \in {p, Failed}
        /\ ReplaceSuffix(p, SuffixOf(p)) = p /\ ReplaceSuffixes(p, SuffixesOf(p)) = p
        /\ HasDslash(p.str) \/ Convert(Convert(p, ~win), win) = p
        /\ Stem(p) \o SuffixesOf(p) = Name(p)
        /\ FoldLeft(join, EmptyPath(win), Parts(p)) = p
        /\ \A i \in DOMAIN Parents(p) : StartsWith(p.str, Parents(p)[i].str)
=============================================================================
