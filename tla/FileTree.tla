------------------------------ MODULE FileTree ------------------------------
(* The operations of ostd::fs on a tree of files, with paths, locations and    *)
(* links as in Creators.                                                       *)
EXTENDS Creators, FiniteSets

\* remove_name fails on a relative name alone, and leaves nothing of "/name".
CanRemoveName(p) == p # <<>> /\ p # <<"/">> /\ (Len(p) > 1 \/ Absolute(p))
RemoveName(p) == IF Absolute(p) /\ Len(p) = 2 THEN <<>> ELSE Front(p)
----------------------------------------------------------------------------
\* The calls of the system: a path is followed through its links, the last name
\* of it by stat and access, not by lstat, mkdir and remove.
RECURSIVE Real(_, _)
Real(fs, l) ==
  LET n == Append(Real(fs, Front(l)), Last(l))
  IN  IF l = <<>> THEN l ELSE IF IsLink(fs, n) THEN Real(fs, fs[n].to) ELSE n
Stat(fs, p) == TypeAt(fs, Real(fs, Location(p)))
Node(fs, p) ==
  LET l == Location(p) IN IF l = <<>> THEN l ELSE Append(Real(fs, Front(l)), Last(l))
Children(fs, l) == {m \in DOMAIN fs : Under(l, m) /\ Len(m) = Len(l) + 1}
Mkdir(fs, p) == MkdirAt(fs, Node(fs, p))
Without(fs, ls) == [l \in DOMAIN fs \ ls |-> fs[l]]

Thrown == <<"throws">>      \* in the place of a path: an exception
Gives(fs, ret) == [fs |-> fs, ret |-> ret, threw |-> FALSE]
Throws(fs) == [fs |-> fs, ret |-> 0, threw |-> TRUE]
----------------------------------------------------------------------------
\* exists, is_directory and the others through status: that a name of the path
\* is no directory is an error, not the absence of the file.
StatFails(fs, p) == Stat(fs, p) = "ENOTDIR"
Exists(fs, p) == Stat(fs, p) \notin {"ENOENT", "ENOTDIR"}
IsDirectory(fs, p) == Stat(fs, p) = "dir"

MkdirP(fs, p) ==
  LET m == Mkdir(fs, p)
  IN  CASE m.errno = "none" -> Gives(m.fs, 1)
        [] m.errno = "EEXIST" /\ IsDirectory(fs, p) -> Gives(fs, 0)
        [] OTHER -> Throws(fs)

RemoveFile(fs, p) ==
  LET n == Node(fs, p)
  IN  IF StatFails(fs, p) THEN Throws(fs)
      ELSE IF ~Exists(fs, p) THEN Gives(fs, 0)
      ELSE IF n = <<>> \/ Children(fs, n) # {} THEN Throws(fs)
      ELSE Gives(Without(fs, {n}), 1)

\* directory_range lists the names in any order; here in that of SetToSeq.
Entries(fs, p) ==
  LET names == {Last(m) : m \in Children(fs, Real(fs, Location(p)))}
  IN  SetToSeq(names)

RECURSIVE RemoveAll(_, _)
RemoveAll(fs, p) ==
  LET step(s, name) ==
        LET r == RemoveAll(s.fs, Append(p, name))
        IN  IF s.threw THEN s ELSE [r EXCEPT !.ret = @ + s.ret]
      inside == IF IsDirectory(fs, p) THEN FoldLeft(step, Gives(fs, 0), Entries(fs, p))
                ELSE Gives(fs, 0)
      last == RemoveFile(inside.fs, p)
  IN  IF StatFails(fs, p) \/ inside.threw \/ last.threw THEN Throws(last.fs)
      ELSE Gives(last.fs, inside.ret + last.ret)

\* What is stripped begins with a separator, unless the root is left: it
\* replaces the path it is appended to.
RECURSIVE Stripped(_, _)
Stripped(fs, p) ==
  IF Exists(fs, p) \/ p \in {<<>>, <<"/">>} THEN p
  ELSE IF ~CanRemoveName(p) THEN Thrown ELSE Stripped(fs, RemoveName(p))
WeaklyCanonical(fs, p) ==
  LET cp == Stripped(fs, p)
      rest == SubSeq(p, Len(cp) + 1, Len(p))
  IN  IF rest = <<>> THEN <<"/">> \o Real(fs, Location(p))
      ELSE IF cp = Thrown THEN cp ELSE <<"/">> \o rest
----------------------------------------------------------------------------
\* recursive_directory_range: a listing for every open directory, the directory
\* the innermost one is of, and the current entry (<<>> at the end). When a
\* directory is listed to its end only the next outer one is asked for an entry.
ReadOn(r, dir) ==
  [r EXCEPT !.dir = dir,
            !.cur = IF r.lists[1] = <<>> THEN <<>> ELSE Append(dir, r.lists[1][1]),
            !.lists[1] = IF @ = <<>> THEN @ ELSE Tail(@)]
\* Mutant: the directory that is left is still the one the entries are of.
ReadNextThere(fs, r) ==
  LET isdir == r.cur # <<>> /\ Node(fs, r.cur) \in DOMAIN fs /\ fs[Node(fs, r.cur)].type = "dir"
      inner == IF isdir THEN Entries(fs, r.cur) ELSE <<>>
  IN  CASE inner # <<>> -> ReadOn([r EXCEPT !.lists = <<inner>> \o @], r.cur)
        [] inner = <<>> /\ r.lists[1] # <<>> -> ReadOn(r, r.dir)
        [] OTHER -> IF Len(r.lists) = 1 THEN [r EXCEPT !.cur = <<>>]
                    ELSE ReadOn([r EXCEPT !.lists = Tail(@)], r.dir)
ReadNext(fs, r) ==
  LET isdir == r.cur # <<>> /\ Node(fs, r.cur) \in DOMAIN fs /\ fs[Node(fs, r.cur)].type = "dir"
      inner == IF isdir THEN Entries(fs, r.cur) ELSE <<>>
  IN  CASE inner # <<>> -> ReadOn([r EXCEPT !.lists = <<inner>> \o @], r.cur)
        [] inner = <<>> /\ r.lists[1] # <<>> -> ReadOn(r, r.dir)
        [] OTHER -> IF Len(r.lists) = 1 THEN [r EXCEPT !.cur = <<>>]
                    ELSE IF ~CanRemoveName(r.dir) THEN [r EXCEPT !.threw = TRUE]
                    ELSE ReadOn([r EXCEPT !.lists = Tail(@)], RemoveName(r.dir))
Opened(fs, p) ==
  ReadOn([lists |-> <<Entries(fs, p)>>, dir |-> p, cur |-> <<>>, threw |-> FALSE], p)
RECURSIVE WalkOn(_, _)
WalkOn(fs, r) ==
  IF r.threw THEN [seen |-> <<>>, threw |-> TRUE]
  ELSE IF r.cur = <<>> THEN [seen |-> <<>>, threw |-> FALSE]
  ELSE LET w == WalkOn(fs, ReadNext(fs, r))
       IN  [w EXCEPT !.seen = <<r.cur>> \o @]
RecursiveRange(fs, p) == WalkOn(fs, Opened(fs, p))

\* glob_match_impl over the names of a pattern: a name itself, the names that
\* match, or all directories below ("**", which gives the files, too, when it
\* ends the pattern). pre is what is expanded.
Named(n) == [kind |-> "name", names |-> {n}]
Matching(names) == [kind |-> "some", names |-> names]
AnyDepth == [kind |-> "all", names |-> {}]
RECURSIVE Expand(_, _, _)
Expand(fs, pat, pre) ==
  LET rest == Tail(pat)
      walk == RecursiveRange(fs, pre)
      all(ps) == FlattenSeq([i \in DOMAIN ps |-> Expand(fs, rest, ps[i])])
      here == SelectSeq(Entries(fs, pre), LAMBDA n : n \in pat[1].names)
  IN  IF pat = <<>> THEN <<pre>>
      ELSE IF pat[1].kind = "name"
      THEN Expand(fs, rest, Append(pre, CHOOSE n \in pat[1].names : TRUE))
      ELSE IF StatFails(fs, pre) THEN <<Thrown>>
      ELSE IF ~IsDirectory(fs, pre) THEN <<>>
      ELSE IF pat[1].kind = "some" THEN all([i \in DOMAIN here |-> Append(pre, here[i])])
      ELSE (IF rest = <<>> THEN <<>> ELSE Expand(fs, rest, pre))
             \o all(SelectSeq(walk.seen, LAMBDA p : rest = <<>> \/ IsDirectory(fs, p)))
             \o (IF walk.threw THEN <<Thrown>> ELSE <<>>)
----------------------------------------------------------------------------
Below(fs, p) == {m \in DOMAIN fs : Under(Location(p), m)}
NoLinks(fs) == \A l \in DOMAIN fs : fs[l].type # "link"

(* remove_all takes away what is there and below, and nothing else, and counts *)
(* it (in a tree without links); it takes back a create_directory that said it *)
(* made one.                                                                   *)
RemovesTheTree(fs, p) ==
  LET r == RemoveAll(fs, p)
      m == MkdirP(fs, p)
      gone == (Below(fs, p) \cup {Location(p)}) \cap DOMAIN fs
  IN  NoLinks(fs) /\ ~StatFails(fs, p) /\ Location(p) # <<>> =>
        /\ ~r.threw /\ r.fs = Without(fs, gone) /\ r.ret = Cardinality(gone)
        /\ m.ret = 1 => IsDirectory(m.fs, p) /\ RemoveAll(m.fs, p).fs = fs

(* A recursive range lists no entry twice and none that is not below; all of   *)
(* them, if no directory below is in another one. (From a directory that is    *)
(* neither "." nor "/".)                                                       *)
WalkIsBelow(fs, p) ==
  LET w == RecursiveRange(fs, p)
      names == {Location(w.seen[i]) : i \in DOMAIN w.seen}
  IN  IsDirectory(fs, p) /\ Real(fs, Location(p)) = Location(p) /\ p \notin {<<>>, <<"/">>} =>
        /\ ~w.threw /\ \A n \in names : WeaklyCanonical(fs, <<"/">> \o n) =
                                        <<"/">> \o Real(fs, n)
        /\ Cardinality(names) = Len(w.seen) /\ names \subseteq Below(fs, p)
        /\ (\A m \in Below(fs, p) : fs[m].type = "dir" => Len(m) = Len(Location(p)) + 1)
             => names = Below(fs, p)

(* A pattern expands to the files that are so called, below a directory of any *)
(* depth for "**". (In trees without links where no directory a "**" goes into *)
(* has directories, if no error ends the expansion and the last name is to be  *)
(* looked for.)                                                                *)
RECURSIVE IsCalled(_, _)
IsCalled(m, pat) ==
  IF pat = <<>> THEN m = <<>>
  ELSE IF pat = <<AnyDepth>> THEN m # <<>>
  ELSE IF pat[1] = AnyDepth
  THEN \E i \in 0..Len(m) : IsCalled(SubSeq(m, i + 1, Len(m)), Tail(pat))
  ELSE m # <<>> /\ m[1] \in pat[1].names /\ IsCalled(Tail(m), Tail(pat))
ExpandsToFiles(fs, pat) ==
  LET found == Range(Expand(fs, pat, <<>>))
  IN  /\ NoLinks(fs) /\ pat # <<>> /\ Last(pat).kind # "name" /\ Thrown \notin found
      /\ LET depth == IF pat[1] = AnyDepth THEN 1 ELSE 2
         IN  \A l \in DOMAIN fs : fs[l].type = "dir" => Len(l) <= depth
      => found = {m \in DOMAIN fs : IsCalled(m, pat)}
=============================================================================
