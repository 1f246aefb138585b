------------------------------ MODULE Creators ------------------------------
(* create_directories in several processes at once, on a tree of files. A path *)
(* is the sequence of its names, "/" in front if it is absolute; <<>> is ".".  *)
(* The tree maps the location of every file but the root to its type and, for  *)
(* a link, to what location it leads. The current directory is the root.       *)
(*                                                                             *)
(* Directories come into being, links stay as they are and lead to a file or a *)
(* directory that is there: leads is where a path gets to, for good.           *)
EXTENDS Integers, Sequences, SequencesExt

CONSTANTS Creators,           \* the processes
          Target              \* the path each of them creates

ASSUME TargetAssumption == Target \in [Creators -> Seq(STRING)]

VARIABLES tree, leads,
          at,                 \* how many names of the path mkdir is given
          looks,              \* mkdir said EEXIST: there is a second look
          made,               \* what create_directory returns
          threw

creatorVars == <<tree, leads, at, looks, made, threw>>

Dir == [type |-> "dir", to |-> <<>>]
File == [type |-> "file", to |-> <<>>]
Link(to) == [type |-> "link", to |-> to]

Absolute(p) == p # <<>> /\ p[1] = "/"
Location(p) == IF Absolute(p) THEN Tail(p) ELSE p
Under(l, m) == IsStrictPrefix(l, m)
IsLink(fs, l) == l \in DOMAIN fs /\ fs[l].type = "link"
----------------------------------------------------------------------------
(* The calls of the system, at a location that is no path any more *)

TypeAt(fs, r) ==
  IF r = <<>> THEN "dir" ELSE IF r \in DOMAIN fs THEN fs[r].type
  ELSE IF \E m \in DOMAIN fs : Under(m, r) /\ fs[m].type = "file" THEN "ENOTDIR"
  ELSE "ENOENT"

MkdirAt(fs, n) ==
  LET up == IF n = <<>> THEN "dir" ELSE TypeAt(fs, Front(n))
  IN  [fs |-> IF n \in DOMAIN fs \cup {<<>>} \/ up # "dir" THEN fs
              ELSE [l \in DOMAIN fs \cup {n} |-> IF l = n THEN Dir ELSE fs[l]],
       errno |-> IF up # "dir" THEN "other"
                 ELSE IF n \in DOMAIN fs \cup {<<>>} THEN "EEXIST" ELSE "none"]

\* Where the last name of l is: all but that is followed.
NodeAt(ls, l) == IF l = <<>> THEN l ELSE Append(ls[Front(l)], Last(l))

TreeOK(fs) == \A l \in DOMAIN fs : fs[l].type \in {"dir", "file", "link"}
PathTo(c, i) == SubSeq(Target[c], 1, i)
OnTheWay == {<<>>} \cup UNION {{Location(PathTo(c, i)) : i \in 1..Len(Target[c])} : c \in Creators}
Resolves(fs, ls) ==
  /\ ls \in [OnTheWay -> Seq(STRING)] /\ ls[<<>>] = <<>>
  /\ \A l \in OnTheWay \ {<<>>} :
       IF IsLink(fs, NodeAt(ls, l)) THEN TypeAt(fs, ls[l]) \in {"dir", "file"}
       ELSE ls[l] = NodeAt(ls, l)
IsDir(l) == TypeAt(tree, leads[l]) = "dir"
----------------------------------------------------------------------------
\* mkdir for the parents and then the path, and for every EEXIST a second look
\* at what is there.
CreatorsInit ==
  /\ TreeOK(tree) /\ Resolves(tree, leads)
  /\ at = [c \in Creators |-> 1] /\ looks = [c \in Creators |-> FALSE]
  /\ made = [c \in Creators |-> FALSE] /\ threw = [c \in Creators |-> FALSE]

Done(c) == at[c] > Len(Target[c])
Underway(c) == ~Done(c) /\ ~threw[c]
Here(c) == Location(PathTo(c, at[c]))

MakeOne(c) ==
  LET m == MkdirAt(tree, NodeAt(leads, Here(c)))
  IN  /\ Underway(c) /\ ~looks[c]
      /\ tree' = m.fs
      /\ looks' = [looks EXCEPT ![c] = m.errno = "EEXIST"]
      /\ threw' = [threw EXCEPT ![c] = m.errno = "other"]
      /\ made' = [made EXCEPT ![c] = m.errno = "none"]
      /\ at' = [at EXCEPT ![c] = IF m.errno = "none" THEN @ + 1 ELSE @]
      /\ UNCHANGED leads
\* Mutant: that the directory has come into being is an error.
LookStrict(c) ==
  /\ Underway(c) /\ looks[c]
  /\ threw' = [threw EXCEPT ![c] = TRUE]
  /\ UNCHANGED <<tree, leads, made, looks, at>>
Look(c) ==
  /\ Underway(c) /\ looks[c]
  /\ threw' = [threw EXCEPT ![c] = ~IsDir(Here(c))]
  /\ looks' = [looks EXCEPT ![c] = FALSE]
  /\ at' = [at EXCEPT ![c] = @ + 1]
  /\ UNCHANGED <<tree, leads, made>>

CreatorsNext == \E c \in Creators : MakeOne(c) \/ Look(c)

CreatorsSpec == CreatorsInit /\ [][CreatorsNext]_creatorVars
----------------------------------------------------------------------------
(* Processes that create directories at the same time do not fail because of   *)
(* each other: one throws only over a file in its way, and of those that       *)
(* create the same directory, by whatever path, one at most says that it did.  *)
CreatorsAgree ==
  \A c, d \in Creators :
    /\ threw[c] => \E i \in 1..Len(Target[c]) : ~IsDir(Location(PathTo(c, i)))
    /\ Done(c) => IsDir(Location(Target[c])) \/ threw[c]
    /\ c # d /\ leads[Location(Target[c])] = leads[Location(Target[d])] /\ Done(c) /\ Done(d)
         => ~(made[c] /\ made[d])
=============================================================================
