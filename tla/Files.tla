-------------------------------- MODULE Files --------------------------------
(* Who closes a FILE: file streams that own theirs or only borrow it.         *)
EXTENDS Naturals, Sequences, FiniteSets

CONSTANTS FileStreams,        \* the file_stream objects
          MaxFiles            \* as many files are opened, by path or by others

ASSUME MaxFilesAssumption == MaxFiles \in Nat

VARIABLES file,               \* p_f, the files numbered in the order of opening
          closes,             \* p_closef is there
          given,              \* the files opened outside, for open(FILE *)
          closed              \* how often a file was closed

fileVars == <<file, closes, given, closed>>

NoFile == 0
Opened == Len(closed)
----------------------------------------------------------------------------
FilesInit ==
  /\ file = [s \in FileStreams |-> NoFile] /\ closes = [s \in FileStreams |-> FALSE]
  /\ given = {} /\ closed = <<>>

\* open(path, mode): a stream that is open stays what it is, one whose fopen
\* fails loses its closer.
OpenFile(s) ==
  /\ file[s] = NoFile
  /\ closes' = [closes EXCEPT ![s] = Opened < MaxFiles]
  /\ IF Opened < MaxFiles
     THEN closed' = Append(closed, 0) /\ file' = [file EXCEPT ![s] = Opened + 1]
     ELSE UNCHANGED <<file, closed>>
  /\ UNCHANGED given
\* open(fptr, f) and the constructor, f being there or not.
OpenGiven(s, f) ==
  /\ file[s] = NoFile /\ Opened < MaxFiles
  /\ file' = [file EXCEPT ![s] = Opened + 1]
  /\ closes' = [closes EXCEPT ![s] = f]
  /\ given' = given \cup {Opened + 1} /\ closed' = Append(closed, 0)

ClosedBy(s) == IF file[s] # NoFile /\ closes[s] THEN [closed EXCEPT ![file[s]] = @ + 1]
               ELSE closed
\* close, and the destructor.
CloseFile(s) ==
  /\ closed' = ClosedBy(s)
  /\ file' = [file EXCEPT ![s] = NoFile] /\ closes' = [closes EXCEPT ![s] = FALSE]
  /\ UNCHANGED given
Exchanged(f, s, t) == [f EXCEPT ![s] = f[t], ![t] = f[s]]
SwapFiles(s, t) ==
  /\ file' = Exchanged(file, s, t) /\ closes' = Exchanged(closes, s, t)
  /\ UNCHANGED <<given, closed>>
\* Mutant: the target of the move is not closed.
MoveOver(s, t) ==
  /\ file' = [file EXCEPT ![s] = file[t], ![t] = NoFile]
  /\ closes' = [closes EXCEPT ![s] = closes[t], ![t] = FALSE]
  /\ UNCHANGED <<given, closed>>
\* The move assignment closes s and swaps; the move constructor makes s anew
\* and leaves t whatever the moved-from closer is.
MoveAssign(s, t) ==
  /\ closed' = ClosedBy(s)
  /\ file' = [file EXCEPT ![s] = file[t], ![t] = NoFile]
  /\ closes' = [closes EXCEPT ![s] = closes[t], ![t] = FALSE]
  /\ UNCHANGED given
MoveConstruct(s, t) ==
  /\ file[s] = NoFile
  /\ file' = [file EXCEPT ![s] = file[t], ![t] = NoFile]
  /\ \E c \in BOOLEAN : closes' = [closes EXCEPT ![s] = closes[t], ![t] = c]
  /\ UNCHANGED <<given, closed>>

FilesNext ==
  \E s \in FileStreams :
    \/ OpenFile(s) \/ CloseFile(s)
    \/ \E f \in BOOLEAN : OpenGiven(s, f)
    \/ \E t \in FileStreams \ {s} : SwapFiles(s, t) \/ MoveAssign(s, t) \/ MoveConstruct(s, t)

FilesSpec == FilesInit /\ [][FilesNext]_fileVars
----------------------------------------------------------------------------
(* A file the library opened is in one stream, which will close it, or has     *)
(* been closed once; no other file is closed twice or while it is in a stream. *)
ClosedOnce ==
  \A f \in 1..Opened :
    LET holders == {s \in FileStreams : file[s] = f}
    IN  /\ Cardinality(holders) + closed[f] <= 1
        /\ f \notin given => /\ Cardinality(holders) + closed[f] = 1
                             /\ \A s \in holders : closes[s]
==============================================================================
