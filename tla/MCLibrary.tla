------------------------------ MODULE MCLibrary ------------------------------
(* The parts of the library that keep no company. A behaviour takes one area:  *)
(* an input of what is computed at once, where nothing happens, or the steps   *)
(* of one of the objects that live through many calls.                         *)
EXTENDS StackPool, Signal, Subprocess, Files, Creators, MakeRules, Integers, TLC

Stream == INSTANCE Streams
Tree == INSTANCE FileTree
Path == INSTANCE Paths
Glob == INSTANCE Glob
Args == INSTANCE Args
Fmt == INSTANCE Format
Text == INSTANCE Text
Table == INSTANCE Tables
Alg == INSTANCE Algorithms WITH InsertionSize <- 2
Rng == INSTANCE Ranges WITH Width <- 8

Words(alphabet, n) == UNION {[1..k -> alphabet] : k \in 0..n}
Only(area) == [area |-> area]
----------------------------------------------------------------------------
\* Strings a path is made from, in both formats.
PathInputs ==
  [area : {"path"}, raw : Words({"/", ".", "a"}, 5), win : {FALSE}]
    \cup [area : {"path"}, raw : Words({"/", "\\", ".", "C", ":"}, 3)
            \cup {<<"C", ":">> \o w : w \in Words({"/", "\\", ".", "C", ":"}, 3)},
          win : {TRUE}]

\* Patterns with sets of two characters and ranges that may end in a dash.
GlobItems ==
  {Glob!Lit("a"), Glob!AnyChar, Glob!Star}
    \cup {Glob!OneOf(neg, e) : neg \in BOOLEAN,
            e \in {<<<<"a">>, <<"-">>>>, <<<<"a", "c">>>>, <<<<"]">>, <<"b">>>>}}
GlobInputs == [area : {"glob"}, name : Words({"a", "b", "-", "]"}, 2),
               items : Words(GlobItems, 3)]

Word(name) == [name |-> name, value |-> <<>>, dash |-> TRUE]
Plain(name) == [name |-> name, value |-> <<>>, dash |-> FALSE]
Attached == [Word("-a") EXCEPT !.value = <<Plain("v")>>]
CommandLine == {Word("-a"), Attached, Word("-b"), Plain("x"), Args!Separator}
OptionA == {Args!Optional({"-a"}, "exactly", n, 0, FALSE) : n \in 0..2}
             \cup {Args!Optional({"-a"}, "optional", 0, 0, FALSE),
                   Args!Optional({"-a"}, "all", 2, 0, FALSE)}
OptionB == Args!Optional({"-b"}, "exactly", 0, 1, TRUE)
Positionals == {<<Args!Positional("p", "exactly", 1)>>,
                <<Args!Positional("p", "exactly", 1), Args!Positional("q", "rest", 0)>>,
                <<Args!Positional("p", "exactly", 1), Args!Positional("q", "all", 2)>>,
                <<Args!Positional("p", "optional", 0), Args!Positional("q", "exactly", 2)>>}
Parsers == UNION {{<<a, OptionB>> \o pos, <<Args!Group(<<a>>), Args!Group(<<OptionB>>)>> \o pos,
                   <<Args!Exclusive(TRUE, <<a, OptionB>>)>> \o pos} :
                  a \in OptionA, pos \in Positionals}
ArgInputs == [area : {"args"}, opts : Parsers, posix : BOOLEAN,
              words : Words(CommandLine, 3)
                        \cup {<<Word("-b"), Attached>> \o w : w \in [1..2 -> CommandLine]}]
----------------------------------------------------------------------------
Value(kind, v) == [kind |-> kind, v |-> v]
One == Value("int", 1)
Two == Value("int", 2)
Ab == Value("str", <<"a", "\"">>)
Pair == Value("tuple", <<Two, Ab>>)
ArgLists == {<<Two, One, Ab>>, <<Ab, Value("char", "'")>>, <<Two>>,
             <<Value("range", <<One, Two>>), Two>>, <<Value("range", <<Pair, Pair>>), Pair, Ab>>,
             <<Pair, Value("range", <<>>), One>>, <<Two, Two, Two, Ab>>}
PlainSpecs == {Fmt!Spec(<<>>, <<>>, <<>>, "d"), Fmt!Spec(<<>>, <<"@">>, <<>>, "s"),
               Fmt!Spec(<<"2", "$">>, <<"-">>, <<"4">>, "s"),
               Fmt!Spec(<<>>, <<"0">>, <<"*">>, "x"), Fmt!Spec(<<>>, <<>>, <<"*", ".", "*">>, "d")}
Inner == {<<Fmt!Spec(<<>>, <<>>, <<>>, "s")>>,
          <<Fmt!Lit("%"), Fmt!Spec(<<>>, <<>>, <<"3">>, "d"), Fmt!Lit(","), Fmt!Spec(<<>>, <<>>, <<>>, "s")>>}
NestedSpecs == {Fmt!RangeSpec(fl, it, <<",">>, bar) : fl \in {<<>>, <<"#">>, <<"@">>}, it \in Inner, bar \in BOOLEAN}
                 \cup {Fmt!TupleSpec(fl, it) : fl \in {<<>>, <<"@">>}, it \in Inner}
FormatInputs == [area : {"format"}, args : ArgLists,
                 items : {a \o b : a \in Words(PlainSpecs \cup {Fmt!Lit("%")}, 2), b \in Words(NestedSpecs, 1)}
                           \cup {<<a, b>> : a, b \in NestedSpecs}]

NumberSpecs == {[Fmt!Fresh({}) EXCEPT !.flags = fl, !.width = w, !.prec = pr, !.hasp = pr > 0, !.spec = sp] :
                  fl \in SUBSET {"-", "+", "#", "0"}, w \in {0, 4, 7}, pr \in {0, 4}, sp \in {"d", "x", "b"}}
NumberInputs == [area : {"number"}, spec : NumberSpecs, v : {0, 7, 255, 12345, -12},
                 grouping : {<<>>, <<3>>, <<1, 2>>}]

Bytes == {65, 128, 191, 192, 195, 226, 237, 159, 240, 244, 143}
TextInputs ==
  [area : {"text"}, width : {8}, s : Words(Bytes, 3) \cup {<<240>> \o s : s \in Words({128, 159, 143, 191}, 3)}]
    \cup [area : {"text"}, width : {16}, s : Words({65, 233, 55296, 56319, 56320, 57343, 57344, 65535}, 3)]
    \cup [area : {"text"}, width : {32}, s : Words({0, 127, 128, 2047, 2048, 55295, 55296, 57343, 57344,
                                                    65535, 65536, 1114111, 1114112}, 1)]
Lower == (75 :> 107 @@ 8490 :> 107 @@ 201 :> 233)
Utf8(cs) == IF cs = <<>> THEN cs ELSE Text!Encode(8, cs[1]) \o Text!Encode(8, cs[Len(cs)])
CaseInputs == [area : {"case"}, s : {Utf8(w) : w \in Words({75, 107, 201, 233, 8490}, 2)},
               t : {Utf8(w) : w \in Words({75, 107, 201, 233, 8490}, 2)}]
MemoryInputs == [area : {"memory"}, mem : {w \o <<0, 0, 0>> : w \in [1..5 -> 0..3]}, start : 1..3]

Line(c, cat, upper, lower) == [code |-> c, cat |-> cat, bidi |-> "L", upper |-> upper, lower |-> lower]
LinesOf(c) == {<<>>, <<Line(c, "Lt", 0, 0)>>}
                \cup {<<Line(c, "Lu", 0, lower)>> : lower \in {0, c + 1, c + 7}}
                \cup {<<Line(c, "Ll", upper, 0)>> : upper \in {c - 1, c + 7}}
TableInputs == {[area |-> "table", lines |-> a \o b \o c \o d] :
                  a \in LinesOf(1), b \in LinesOf(2), c \in LinesOf(3), d \in LinesOf(4)}
----------------------------------------------------------------------------
Less == {p \in (1..4) \X (1..4) : p[1] < p[2]}
SortInputs == [area : {"sort"}, s : Words(1..3, 5) \cup [1..6 -> 1..2], lt : {Less, Less \ {<<1, 2>>}}]
SearchInputs == [area : {"search"}, s : Words(1..3, 4), t : Words(1..3, 2), pred : {{}, {1}, {1, 3}},
                 v : {2}, room : {1, 4}]

Tagged == {"forward", "bidirectional", "finite_random_access"}
BaseRanges == {Rng!Items(s, tag) : s \in {<<>>, <<4>>, <<4, 5>>, <<4, 5, 6>>}, tag \in Tagged}
                \cup {Rng!Numbers(a, b, step) : a \in {0, 3}, b \in {1, 4}, step \in {1, 2}}
Over(rs) == {Rng!Reversed(r) : r \in {q \in rs : Rng!Converts(Rng!Category(q), "bidirectional")}}
              \cup {Rng!Enumerated(r, 0) : r \in rs} \cup {Rng!Taken(r, n) : r \in rs, n \in {0, 2}}
              \cup {Rng!Chunked(r, n) : r \in rs, n \in {1, 2}} \cup {Rng!Moved(r) : r \in rs}
NoChunks(rs) == {r \in rs : r.kind # "chunks"}
Pairs(rs) == {Rng!Joined(<<q, r>>) : q, r \in {r \in rs : r.kind # "enumerate"}}
               \cup {Rng!Zipped(<<q, r>>) : q, r \in rs}
RangeInputs ==
  LET once == Over(BaseRanges)
      few == {Rng!Items(<<4, 5>>, "finite_random_access"), Rng!Items(<<>>, "forward"), Rng!Numbers(0, 3, 1)}
      two == Pairs(few \cup NoChunks(Over(few)))
  IN  [area : {"range"}, r : BaseRanges \cup once \cup Over(NoChunks(once)) \cup two, n : 0..2]

OpLists == Words({"empty", "front", "pop"}, 5)
StreamInputs == [area : {"stream"}, text : Words({"a", "n", "r"}, 4), ops : {<<>>}, size : {1}]
                  \cup [area : {"stream"}, text : Words({"a", "n"}, 3), ops : OpLists, size : 1..2]

Locations == {<<"a">>, <<"b">>, <<"a", "a">>, <<"a", "b">>, <<"a", "a", "b">>}
IsTree(fs) == \A l \in DOMAIN fs :
  /\ Len(l) > 1 => /\ SubSeq(l, 1, Len(l) - 1) \in DOMAIN fs
                   /\ fs[SubSeq(l, 1, Len(l) - 1)].type = "dir"
  /\ fs[l].type = "link" => l = <<"b">>
Trees == {fs \in UNION {[ls -> {Tree!Dir, Tree!File, Tree!Link(<<"a">>)}] : ls \in SUBSET Locations} :
            IsTree(fs)}
TreePaths == {<<>>, <<"a">>, <<"/", "a">>, <<"b">>, <<"a", "a">>, <<"a", "b">>}
Globs == Words({Tree!Named("a"), Tree!Matching({"a", "b"}), Tree!AnyDepth}, 2)
TreeInputs == [area : {"files"}, fs : Trees, path : TreePaths, pat : {<<>>}]
                \cup [area : {"files"}, fs : Trees, path : {<<>>}, pat : Globs]

Cut(t) == [target |-> t, deps |-> <<<<"c", "%">>, <<"d">>>>, body |-> TRUE, cond |-> TRUE]
Patterns == {<<"%">>, <<"a", "b">>, <<"%", "b">>, <<"a", "%">>, <<"a", "%", "b">>, <<"%", "b", "b">>}
Rules == {[Cut(t) EXCEPT !.body = b] : t \in Patterns, b \in BOOLEAN}
Anything == [Cut(<<"%">>) EXCEPT !.body = FALSE]
RuleInputs == [area : {"rules"}, target : {<<"a", "b">>, <<"a", "b", "b">>, <<"a", "a", "b">>},
               rules : Words(Rules, 2) \cup {<<Anything, Anything>> \o w : w \in [1..3 -> {Cut(t) : t \in Patterns}]}]
ExecInputs == [area : {"exec"}, files : UNION {[ns -> 0..2] : ns \in SUBSET {"t", "d", "e"}},
               target : {"t", "d"}, deps : Words({"d", "e"}, 2), now : 2..3]
----------------------------------------------------------------------------
\* Two processes for one path, a third for one that may lead there by a link.
Targets == [x |-> <<"a", "b">>, y |-> <<"/", "a", "b">>, z |-> <<"b", "b">>]
SmallTrees == {fs \in Trees : \A l \in DOMAIN fs : Len(l) < 3}

Init ==
  /\ PoolInit /\ SignalInit /\ SubInit /\ FilesInit
  /\ \/ /\ tree = <<>>
        /\ \/ input \in PathInputs
           \/ input \in GlobInputs
           \/ input \in ArgInputs
           \/ input \in FormatInputs
           \/ input \in NumberInputs
           \/ input \in TextInputs
           \/ input \in CaseInputs
           \/ input \in MemoryInputs
           \/ input \in TableInputs
           \/ input \in SortInputs
           \/ input \in SearchInputs
           \/ input \in RangeInputs
           \/ input \in StreamInputs
           \/ input \in TreeInputs
           \/ input \in RuleInputs
           \/ input \in ExecInputs
           \/ input \in {Only("pool"), Only("signal"), Only("subprocess"), Only("streams")}
     \/ input = Only("tree") /\ tree \in SmallTrees
  /\ leads = [l \in OnTheWay |-> Tree!Real(tree, l)] /\ CreatorsInit

Next ==
  /\ UNCHANGED input
  /\ \/ input = Only("pool") /\ PoolNext /\ UNCHANGED <<signalVars, subVars, fileVars, creatorVars>>
     \/ input = Only("signal") /\ SignalNext /\ UNCHANGED <<poolVars, subVars, fileVars, creatorVars>>
     \/ input = Only("subprocess") /\ SubNext /\ UNCHANGED <<poolVars, signalVars, fileVars, creatorVars>>
     \/ input = Only("streams") /\ FilesNext /\ UNCHANGED <<poolVars, signalVars, subVars, creatorVars>>
     \/ input = Only("tree") /\ CreatorsNext /\ UNCHANGED <<poolVars, signalVars, subVars, fileVars>>
----------------------------------------------------------------------------
(* Pools, signals, subprocesses, files and creators have their properties with *)
(* them.                                                                       *)

(* A path, however written, is normal and comes apart into what makes it again *)
(* (cleanup_str, parent, name, path_range).                                    *)
PathsComeApart == input.area = "path" =>
  Path!PathIsNormal(input.raw, input.win) /\ Path!PathComesApart(input.raw, input.win)

(* A pattern finds the names it stands for, in a directory and below it; a     *)
(* walk stays below and remove_all removes what a walk should find.            *)
FilesAreFound ==
  /\ input.area = "glob" => Glob!MatchesAsMeant(input.name, input.items)
  /\ input.area = "files" => /\ Tree!RemovesTheTree(input.fs, input.path)
                             /\ Tree!WalkIsBelow(input.fs, input.path)
                             /\ Tree!ExpandsToFiles(input.fs, input.pat)

(* Every word of a command line goes to one argument, none behind a separator  *)
(* to an optional, and the help names them all (parse, parse_opt, parse_pos).  *)
WordsAreGiven == input.area = "args" =>
  /\ Args!EveryWordGiven(input.opts, input.posix, input.words)
  /\ Args!OptionsEnd(input.opts, input.posix, input.words)
  /\ Args!HelpListsAll(input.opts)

(* Formats are read as documented, and numbers written whole (read_spec,       *)
(* write_fmt, write_int).                                                      *)
FormatsReadAsMeant ==
  /\ input.area = "format" => Fmt!ReadsAsMeant(input.items, input.args)
  /\ input.area = "number" => Fmt!NumberKept(input.spec, input.v, input.grouping)

(* Text survives decoding, encoding and transcoding, compares by its           *)
(* characters, and ends at its first zero; the folded tables say of a          *)
(* character what the Unicode data says.                                       *)
TextIsKept ==
  /\ input.area = "text" =>
       /\ Text!DecodesWhatEncodes(input.width, input.s)
       /\ \A w \in {8, 16, 32} : Text!RangeTranscodes(input.width, w, input.s)
       /\ \A i \in DOMAIN input.s, w \in {8, 16, 32} : Text!EncodesWhatDecodes(w, input.s[i])
  /\ input.area = "case" => Text!CaseOrder(8, input.s, input.t, Lower)
  /\ input.area = "memory" => Text!FindsTheEnd(input.mem, input.start, 2, 3)
  /\ input.area = "table" => Table!TablesSayWhatTheDataSays(input.lines, 12)

(* Sorting sorts and loses nothing; searches, counts, partitions, copies,      *)
(* folds and comparisons agree with one another.                               *)
AlgorithmsAgree ==
  /\ input.area = "sort" => Alg!SortSorts(input.s, input.lt)
  /\ input.area = "search" =>
       /\ Alg!SearchesAgree(input.s, input.pred, input.v, Less)
       /\ Alg!CopiesAgree(input.s, input.t, input.room, input.pred, Less)

(* Ranges give what they stand for, however they are stacked and walked; those *)
(* over a stream give all of its items and its lines.                          *)
RangesMean ==
  /\ input.area = "range" => Rng!RangesMean(input.r, input.n)
  /\ input.area = "stream" => /\ Stream!RangeIsTheStream(input.text, input.ops, input.size)
                              /\ Stream!LinesAreTheText(input.text)
=============================================================================
