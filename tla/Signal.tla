------------------------------- MODULE Signal -------------------------------
(* ostd::detail::signal_base: handlers in an array of slots, called in order  *)
(* by emit. A handler may itself connect, disconnect and emit, so emissions    *)
(* nest; every one keeps nothing but its loop index and reads the array anew.  *)
EXTENDS Naturals, Sequences, SequencesExt

CONSTANTS Handlers,  \* each is connected at most once at a time
          NoHandler, \* an empty function
          MaxDepth,  \* bound: emissions inside one another
          MaxSlots   \* bound: the size of the array

ASSUME HandlersAssumption == NoHandler \notin Handlers

VARIABLES funcs,     \* p_funcs, of p_nfuncs slots
          index,     \* what connect returned to each handler, 0 when it is out
          frames,    \* the emissions under way, the innermost last
          destroyed  \* a function was destroyed while it ran, which is undefined

signalVars == <<funcs, index, frames, destroyed>>

SignalInit == /\ funcs = <<>>
              /\ index = [h \in Handlers |-> 0]
              /\ frames = <<>>
              /\ destroyed = FALSE

Empties == {i \in DOMAIN funcs : funcs[i] = NoHandler}
First(S) == CHOOSE i \in S : \A j \in S : i <= j
NoCalls == [h \in Handlers |-> 0]
Runs(i) == \E k \in DOMAIN frames : frames[k].at = i

\* An emission no longer counts on a handler that was disconnected meanwhile.
Forget(h) == [k \in DOMAIN frames |->
  [frames[k] EXCEPT !.owes = @ \ {h}, !.calls[h] = 0]]

Connect(h) ==
  /\ index[h] = 0
  /\ Empties # {}
  /\ index' = [index EXCEPT ![h] = First(Empties)]
  /\ funcs' = [funcs EXCEPT ![First(Empties)] = h]
  /\ UNCHANGED <<frames, destroyed>>

\* The array grows: the functions are moved, and with them one that runs.
ConnectGrows(h) ==
  /\ index[h] = 0
  /\ Empties = {}
  /\ Len(funcs) < MaxSlots
  /\ index' = [index EXCEPT ![h] = Len(funcs) + 1]
  /\ funcs' = Append(funcs, h)
  /\ destroyed' \in (IF frames = <<>> THEN {FALSE} ELSE BOOLEAN)
  /\ UNCHANGED frames

\* Mutant: the slots behind the handler move up.
DisconnectShifts(h) ==
  /\ index[h] # 0
  /\ funcs' = RemoveAt(funcs, index[h])
  /\ index' = [g \in Handlers |-> IF g = h THEN 0
                 ELSE IF index[g] > index[h] THEN index[g] - 1 ELSE index[g]]
  /\ frames' = Forget(h)
  /\ destroyed' \in (IF Runs(index[h]) THEN BOOLEAN ELSE {FALSE})

\* A handler that disconnects itself destroys the function that runs.
Disconnect(h) ==
  /\ index[h] # 0
  /\ funcs' = [funcs EXCEPT ![index[h]] = NoHandler]
  /\ index' = [index EXCEPT ![h] = 0]
  /\ frames' = Forget(h)
  /\ destroyed' \in (IF Runs(index[h]) THEN BOOLEAN ELSE {FALSE})

\* The slots are destroyed, and with them a function that runs; copies and
\* moves take the slots as they are.
Clear ==
  /\ funcs' = <<>>
  /\ index' = [h \in Handlers |-> 0]
  /\ frames' = [k \in DOMAIN frames |-> [frames[k] EXCEPT !.owes = {}, !.calls = NoCalls]]
  /\ destroyed' \in (IF frames = <<>> THEN {FALSE} ELSE BOOLEAN)

\* The next slot from i on with a function in it, or 0.
NextSlot(i) ==
  LET S == {j \in DOMAIN funcs : j >= i /\ funcs[j] # NoHandler}
  IN  IF S = {} THEN 0 ELSE First(S)

\* The handler at i is called; the calls that the emission owes are counted.
CallAt(frame, i) ==
  [frame EXCEPT !.at = i,
                !.calls[funcs[i]] = IF funcs[i] \in frame.owes THEN @ + 1 ELSE @]

Emit ==
  /\ Len(frames) < MaxDepth
  /\ NextSlot(1) # 0
  /\ frames' = Append(frames, CallAt(
       [at |-> 0, calls |-> NoCalls, owes |-> {h \in Handlers : index[h] # 0}],
       NextSlot(1)))
  /\ UNCHANGED <<funcs, index, destroyed>>

\* The handler that runs returns, and the loop goes on.
Returns ==
  /\ frames # <<>>
  /\ LET i == NextSlot(Last(frames).at + 1) IN
     /\ i # 0
     /\ frames' = [frames EXCEPT ![Len(frames)] = CallAt(@, i)]
  /\ UNCHANGED <<funcs, index, destroyed>>

EmitEnds ==
  /\ frames # <<>>
  /\ NextSlot(Last(frames).at + 1) = 0
  /\ frames' = Front(frames)
  /\ UNCHANGED <<funcs, index, destroyed>>

SignalNext ==
  /\ ~destroyed
  /\ \/ \E h \in Handlers : Connect(h) \/ ConnectGrows(h) \/ Disconnect(h)
     \/ Clear \/ Emit \/ Returns \/ EmitEnds

SignalSpec == SignalInit /\ [][SignalNext]_signalVars
----------------------------------------------------------------------------
(* The index that connect returned leads to the handler until it is          *)
(* disconnected, whatever others connect and disconnect meanwhile.           *)
IndexIsOwn == \A h \in Handlers : index[h] # 0 =>
  index[h] <= Len(funcs) /\ funcs[index[h]] = h

(* An emission calls every handler that stays connected through it, although *)
(* handlers come and go under its loop index, and calls none twice that      *)
(* stayed: what it has not called is still ahead of it.                      *)
EveryoneIsCalled ==
  \A k \in DOMAIN frames : \A h \in frames[k].owes :
    frames[k].calls[h] = IF index[h] > frames[k].at THEN 0 ELSE 1

(* The two together: connect, disconnect and emit, however they are nested.  *)
HandlersAreCalled == IndexIsOwn /\ EveryoneIsCalled
=============================================================================
