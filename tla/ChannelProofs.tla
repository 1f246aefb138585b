--------------------------- MODULE ChannelProofs ----------------------------
(***************************************************************************)
(* Proofs about Channel for any finite set of tasks, any set of values and *)
(* any bound: type correctness, that no wakeup is lost, and that every     *)
(* step is a step of the abstract queue or leaves it unchanged.            *)
(***************************************************************************)
EXTENDS Channel, Counting, SequenceTheorems

-----------------------------------------------------------------------------
\* Every reachable state of the channel has the shape TypeOK gives it.
THEOREM TypeCorrect == SafetySpec => []TypeOK
<1>1. Init => TypeOK
  BY EmptySeq DEF Init, TypeOK, PCs, Replies
<1>2. TypeOK /\ [Next]_vars => TypeOK'
  <2> SUFFICES ASSUME TypeOK, [Next]_vars PROVE TypeOK'
    OBVIOUS
  <2> USE DEF TypeOK, PCs, Replies, Goto, Finish, At
  <2>1. ASSUME NEW t \in Threads, NEW m \in Msgs, Put(t, m) PROVE TypeOK'
    BY <2>1 DEF Put
  <2>2. ASSUME NEW t \in Threads, PutClosed(t) PROVE TypeOK'
    BY <2>2 DEF PutClosed
  <2>3. ASSUME NEW t \in Threads, NotifyOne(t) PROVE TypeOK'
    BY <2>3 DEF NotifyOne
  <2>4. ASSUME NEW t \in Threads, GetTake(t) PROVE TypeOK'
    <3>1. Head(p_messages) \in Msgs /\ Tail(p_messages) \in Seq(Msgs)
      BY <2>4, HeadTailProperties DEF GetTake
    <3> QED BY <2>4, <3>1 DEF GetTake
  <2>5. ASSUME NEW t \in Threads, GetClosed(t) PROVE TypeOK'
    BY <2>5 DEF GetClosed
  <2>6. ASSUME NEW t \in Threads, GetWait(t) PROVE TypeOK'
    BY <2>6 DEF GetWait
  <2>7. ASSUME NEW t \in Threads, TryGetNone(t) PROVE TypeOK'
    BY <2>7 DEF TryGetNone
  <2>8. ASSUME NEW t \in Threads, SpuriousWake(t) PROVE TypeOK'
    BY <2>8 DEF SpuriousWake
  <2>9. ASSUME NEW t \in Threads, Close(t) PROVE TypeOK'
    BY <2>9 DEF Close
  <2>10. ASSUME NEW t \in Threads, NotifyAll(t) PROVE TypeOK'
    BY <2>10 DEF NotifyAll
  <2>11. CASE UNCHANGED vars
    BY <2>11 DEF vars
  <2> QED BY <2>1, <2>2, <2>3, <2>4, <2>5, <2>6, <2>7, <2>8, <2>9, <2>10,
             <2>11 DEF Next
<1> QED BY <1>1, <1>2, PTL DEF SafetySpec
-----------------------------------------------------------------------------
\* The invariant says how many tasks are where; spelled with Among.
LEMMA CountForm ==
  ASSUME NEW m
  PROVE  At(m) = Among(Threads, pc, {m}) /\ At(m)' = Among(Threads, pc', {m})
BY DEF At, Among

LEMMA NoLostWakeupStep ==
  ASSUME TypeOK, NoLostWakeup, Next
  PROVE  NoLostWakeup'
<1> DEFINE N == Cardinality(Among(Threads, pc, {"notify"}))
           W == Cardinality(Among(Threads, pc, {"woken"}))
           Np == Cardinality(Among(Threads, pc', {"notify"}))
           Wp == Cardinality(Among(Threads, pc', {"woken"}))
           Sleepers == Among(Threads, pc, {"waiting"})
<1>0. /\ N \in Nat /\ W \in Nat /\ Np \in Nat /\ Wp \in Nat
      /\ Len(p_messages) \in Nat
  BY ThreadsAssumption, AmongFinite DEF TypeOK
<1>a. Sleepers # {} =>
        IF p_closed THEN Among(Threads, pc, {"notify_all"}) # {}
        ELSE Len(p_messages) <= N + W
  BY CountForm DEF NoLostWakeup
<1>b. SUFFICES ASSUME Among(Threads, pc', {"waiting"}) # {}
               PROVE  IF p_closed' THEN Among(Threads, pc', {"notify_all"}) # {}
                      ELSE Len(p_messages') <= Np + Wp
  BY CountForm DEF NoLostWakeup
<1> HIDE DEF N, W, Np, Wp
<1>1. ASSUME NEW t \in Threads, NEW m \in Msgs, Put(t, m)
      PROVE  Len(p_messages') <= Np + Wp /\ ~p_closed'
  <2>1. Sleepers # {} BY <1>1, <1>b DEF Put, Goto, Among, TypeOK
  <2>2. Np = N + 1 /\ Wp = W
    <3>1. OnlyMoves(Threads, pc, pc', t) /\ pc[t] = "idle" /\ pc'[t] = "notify"
      BY <1>1 DEF Put, Goto, TypeOK, OnlyMoves
    <3> QED BY <3>1, ThreadsAssumption, OneMoves DEF Moved, N, W, Np, Wp
  <2>3. Len(p_messages') = Len(p_messages) + 1
    BY <1>1, AppendProperties DEF Put, TypeOK
  <2> QED BY <1>0, <1>a, <1>1, <2>1, <2>2, <2>3 DEF Put
<1>2. ASSUME NEW t \in Threads, NotifyOne(t)
      PROVE  IF p_closed' THEN Among(Threads, pc', {"notify_all"}) # {}
             ELSE Len(p_messages') <= Np + Wp
  <2>1. Sleepers # {} /\ At("waiting") # {}
    BY <1>2, <1>b DEF NotifyOne, Goto, At, Among, TypeOK
  <2>2. PICK w \in At("waiting") :
          pc' = [pc EXCEPT ![t] = "idle", ![w] = "woken"]
    BY <1>2, <2>1 DEF NotifyOne
  <2> DEFINE mid == [pc EXCEPT ![t] = "idle"]
  <2>3. /\ pc[t] = "notify" /\ pc[w] = "waiting" /\ w \in Threads /\ w # t
        /\ mid \in [Threads -> PCs] /\ mid[w] = "waiting"
        /\ pc' = [mid EXCEPT ![w] = "woken"]
    BY <1>2, <2>2 DEF NotifyOne, At, TypeOK, PCs
  <2>4. /\ Cardinality(Among(Threads, mid, {"notify"})) = N - 1
        /\ Cardinality(Among(Threads, mid, {"woken"})) = W
    <3>1. OnlyMoves(Threads, pc, mid, t) /\ mid[t] = "idle"
      BY DEF TypeOK, OnlyMoves
    <3> HIDE DEF mid
    <3>2. /\ Cardinality(Among(Threads, mid, {"notify"})) =
                Moved("notify", "idle", {"notify"}, N)
          /\ Cardinality(Among(Threads, mid, {"woken"})) =
                Moved("notify", "idle", {"woken"}, W)
      BY <2>3, <3>1, ThreadsAssumption, OneMoves DEF N, W
    <3> QED BY <3>2 DEF Moved
  <2>5. Np = N - 1 /\ Wp = W + 1
    <3>1. /\ OnlyMoves(Threads, mid, pc', w)
          /\ mid[w] = "waiting" /\ pc'[w] = "woken" /\ w \in Threads
      BY <2>3 DEF OnlyMoves
    <3> HIDE DEF mid
    <3>2. /\ Np = Moved("waiting", "woken", {"notify"}, N - 1)
          /\ Wp = Moved("waiting", "woken", {"woken"}, W)
      BY <2>4, <3>1, ThreadsAssumption, OneMoves DEF Np, Wp
    <3> QED BY <3>2 DEF Moved
  <2>6. Among(Threads, pc, {"notify_all"})
          \subseteq Among(Threads, pc', {"notify_all"})
    BY <2>2, <2>3 DEF Among, TypeOK
  <2> QED BY <1>0, <1>2, <1>a, <2>1, <2>5, <2>6 DEF NotifyOne
<1>3. ASSUME NEW t \in Threads, GetTake(t)
      PROVE  IF p_closed' THEN Among(Threads, pc', {"notify_all"}) # {}
             ELSE Len(p_messages') <= Np + Wp
  <2>1. Sleepers # {}
    BY <1>3, <1>b DEF GetTake, Looking, Finish, Goto, Among, TypeOK
  <2>2. Np = N /\ Wp >= W - 1
    <3>1. /\ OnlyMoves(Threads, pc, pc', t) /\ pc'[t] = "idle"
          /\ pc[t] \in {"idle", "woken"}
      BY <1>3 DEF GetTake, Looking, Finish, Goto, TypeOK, OnlyMoves
    <3> QED BY <1>0, <3>1, ThreadsAssumption, OneMoves DEF Moved, N, W, Np, Wp
  <2>3. Len(p_messages') = Len(p_messages) - 1
    BY <1>3, HeadTailProperties DEF GetTake, TypeOK
  <2>4. Among(Threads, pc, {"notify_all"})
          \subseteq Among(Threads, pc', {"notify_all"})
    BY <1>3 DEF GetTake, Looking, Finish, Goto, Among, TypeOK
  <2> QED BY <1>0, <1>3, <1>a, <2>1, <2>2, <2>3, <2>4 DEF GetTake
<1>4. ASSUME NEW t \in Threads, GetWait(t)
      PROVE  ~p_closed' /\ Len(p_messages') <= Np + Wp
  BY <1>0, <1>4 DEF GetWait
<1>5. ASSUME NEW t \in Threads, PutClosed(t) \/ TryGetNone(t) \/ GetClosed(t)
      PROVE  IF p_closed' THEN Among(Threads, pc', {"notify_all"}) # {}
             ELSE Len(p_messages') <= Np + Wp
  <2>1. Sleepers # {}
    BY <1>5, <1>b DEF PutClosed, TryGetNone, GetClosed, Looking, Finish, Goto,
                      Among, TypeOK
  <2>2. Among(Threads, pc, {"notify_all"})
          \subseteq Among(Threads, pc', {"notify_all"})
    BY <1>5 DEF PutClosed, TryGetNone, GetClosed, Looking, Finish, Goto, Among,
                TypeOK
  <2>3. ~p_closed' => p_messages' = << >> /\ ~p_closed
    BY <1>5 DEF PutClosed, TryGetNone, GetClosed
  <2>4. p_closed' = p_closed
    BY <1>5 DEF PutClosed, TryGetNone, GetClosed
  <2> QED BY <1>0, <1>a, <2>1, <2>2, <2>3, <2>4
<1>6. ASSUME NEW t \in Threads, SpuriousWake(t)
      PROVE  IF p_closed' THEN Among(Threads, pc', {"notify_all"}) # {}
             ELSE Len(p_messages') <= Np + Wp
  <2>1. Sleepers # {} BY <1>6 DEF SpuriousWake, Among
  <2>2. Np = N /\ Wp = W + 1
    <3>1. OnlyMoves(Threads, pc, pc', t) /\ pc[t] = "waiting" /\ pc'[t] = "woken"
      BY <1>6 DEF SpuriousWake, Goto, TypeOK, OnlyMoves
    <3> QED BY <3>1, ThreadsAssumption, OneMoves DEF Moved, N, W, Np, Wp
  <2>3. Among(Threads, pc, {"notify_all"})
          \subseteq Among(Threads, pc', {"notify_all"})
    BY <1>6 DEF SpuriousWake, Goto, Among, TypeOK
  <2> QED BY <1>0, <1>6, <1>a, <2>1, <2>2, <2>3 DEF SpuriousWake
<1>7. ASSUME NEW t \in Threads, Close(t)
      PROVE  p_closed' /\ Among(Threads, pc', {"notify_all"}) # {}
  BY <1>7 DEF Close, Goto, Among, TypeOK
<1>8. ASSUME NEW t \in Threads, NotifyAll(t) PROVE FALSE
  BY <1>8, <1>b DEF NotifyAll, Among
<1> QED BY <1>1, <1>2, <1>3, <1>4, <1>5, <1>6, <1>7, <1>8 DEF Next

\* No wakeup is lost in put, get and close, for any number of tasks.
THEOREM WakeupsAreNotLost == SafetySpec => []NoLostWakeup
<1>1. Init => NoLostWakeup
  BY DEF Init, NoLostWakeup, At
<1>2. TypeOK /\ NoLostWakeup /\ [Next]_vars => NoLostWakeup'
  <2>1. CASE UNCHANGED vars BY <2>1 DEF vars, NoLostWakeup, At
  <2> QED BY <2>1, NoLostWakeupStep
<1> QED BY <1>1, <1>2, TypeCorrect, PTL DEF SafetySpec
-----------------------------------------------------------------------------
\* Every step of the channel is a step of the abstract queue or leaves it
\* unchanged: the safety half of ImplementsFifo, for every instance.
THEOREM StepsImplementFifo == SafetySpec => Abstract!SafetySpec
<1> USE DEF Abstract!Error, Error, Abstract!Nothing, Nothing
<1>1. Init => Abstract!Init
  BY DEF Init, Abstract!Init, At
<1>2. TypeOK /\ [Next]_vars => [Abstract!Next]_(Abstract!vars)
  <2> SUFFICES ASSUME TypeOK, Next PROVE Abstract!Next \/ UNCHANGED Abstract!vars
    BY DEF vars, Abstract!vars, At
  <2> DEFINE Pend == At("waiting") \cup At("woken")
  <2> USE DEF TypeOK, PCs, At, Goto
  <2>1. ASSUME NEW t \in Threads, NEW m \in Msgs, Put(t, m)
        PROVE  Abstract!Put(t, m)
    BY <2>1 DEF Put, Abstract!Put
  <2>2. ASSUME NEW t \in Threads, PutClosed(t) PROVE Abstract!Refuse(t)
    BY <2>2 DEF PutClosed, Abstract!Refuse, Abstract!Reply
  <2>3. ASSUME NEW t \in Threads, NotifyOne(t) PROVE UNCHANGED Abstract!vars
    <3>1. Pend' = Pend BY <2>3 DEF NotifyOne
    <3> QED BY <2>3, <3>1 DEF NotifyOne, Abstract!vars
  <2>4. ASSUME NEW t \in Threads, GetTake(t) PROVE Abstract!Deliver(t)
    <3>1. Pend' = Pend \ {t} BY <2>4 DEF GetTake, Looking, Finish
    <3> QED BY <2>4, <3>1
            DEF GetTake, Looking, Finish, Abstract!Deliver, Abstract!Reply
  <2>5. ASSUME NEW t \in Threads, GetClosed(t) PROVE Abstract!Refuse(t)
    <3>1. Pend' = Pend \ {t} BY <2>5 DEF GetClosed, Looking, Finish
    <3> QED BY <2>5, <3>1
            DEF GetClosed, Looking, Finish, Abstract!Refuse, Abstract!Reply
  <2>6. ASSUME NEW t \in Threads, GetWait(t) PROVE Abstract!Block(t)
    <3>1. Pend' = Pend \cup {t} BY <2>6 DEF GetWait, Looking
    <3> QED BY <2>6, <3>1 DEF GetWait, Looking, Abstract!Block
  <2>7. ASSUME NEW t \in Threads, TryGetNone(t) PROVE Abstract!Miss(t)
    <3>1. Pend' = Pend \ {t} BY <2>7 DEF TryGetNone, Finish
    <3> QED BY <2>7, <3>1
            DEF TryGetNone, Finish, Abstract!Miss, Abstract!Reply
  <2>8. ASSUME NEW t \in Threads, SpuriousWake(t) PROVE UNCHANGED Abstract!vars
    <3>1. Pend' = Pend BY <2>8 DEF SpuriousWake
    <3> QED BY <2>8, <3>1 DEF SpuriousWake, Abstract!vars
  <2>9. ASSUME NEW t \in Threads, Close(t) PROVE Abstract!Close(t)
    BY <2>9 DEF Close, Abstract!Close
  <2>10. ASSUME NEW t \in Threads, NotifyAll(t) PROVE UNCHANGED Abstract!vars
    <3>1. Pend' = Pend BY <2>10 DEF NotifyAll
    <3> QED BY <2>10, <3>1 DEF NotifyAll, Abstract!vars
  <2> QED BY <2>1, <2>2, <2>3, <2>4, <2>5, <2>6, <2>7, <2>8, <2>9, <2>10
          DEF Next, Abstract!Next
<1> QED BY <1>1, <1>2, TypeCorrect, PTL DEF SafetySpec, Abstract!SafetySpec
=============================================================================
