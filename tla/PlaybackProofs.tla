--------------------------- MODULE PlaybackProofs ---------------------------
(***************************************************************************)
(* Proofs about module Playback, for every set of handles, every macro and *)
(* every number of passes.                                                 *)
(***************************************************************************)
EXTENDS Playback, SequenceTheorems, WellFoundedInduction, TLAPS

(* Every non-empty set of naturals has a least element. *)
LEMMA LeastElement ==
    ASSUME NEW T \in SUBSET Nat, T # {}
    PROVE  \E n \in T : \A m \in T : n <= m
  <1>1. PICK n \in T : \A m \in T : ~(<<m, n>> \in OpToRel(<, Nat))
    BY NatLessThanWellFounded, WFMin
  <1>2. ASSUME NEW m \in T PROVE n <= m
    <2>1. <<m, n>> \notin OpToRel(<, Nat)
      BY <1>1
    <2>2. m \in Nat /\ n \in Nat
      OBVIOUS
    <2>3. ~(m < n)
      BY <2>1, <2>2 DEF OpToRel
    <2> QED
      BY <2>2, <2>3
  <1> QED
    BY <1>2

(* list.remove: what RemoveFirst leaves of a sequence.                      *)
LEMMA RemoveFirstIs ==
    ASSUME NEW S, NEW s \in Seq(S), NEW c
    PROVE  \/ (\A i \in 1 .. Len(s) : s[i] # c) /\ RemoveFirst(s, c) = s
           \/ \E k \in 1 .. Len(s) :
                /\ s[k] = c
                /\ RemoveFirst(s, c) \in Seq(S) /\ Len(RemoveFirst(s, c)) = Len(s) - 1
                /\ \A i \in 1 .. k - 1 : RemoveFirst(s, c)[i] = s[i]
                /\ \A i \in k .. Len(s) - 1 : RemoveFirst(s, c)[i] = s[i + 1]
  <1>1. CASE \A i \in 1 .. Len(s) : s[i] # c
    BY <1>1 DEF RemoveFirst
  <1>2. CASE \E i \in 1 .. Len(s) : s[i] = c
    <2> DEFINE I == {i \in 1 .. Len(s) : s[i] = c}
               k == Min(I)
    <2>1. \E n \in I : \A m \in I : n <= m
      <3>1. I \in SUBSET Nat /\ I # {}
        BY <1>2
      <3> QED
        BY <3>1, LeastElement
    <2>2. k \in I
      BY <2>1 DEF Min
    <2>3. RemoveFirst(s, c) = SubSeq(s, 1, k - 1) \o SubSeq(s, k + 1, Len(s))
      BY <1>2 DEF RemoveFirst, RemoveAt, SelectInSeq
    <2> HIDE DEF k
    <2>4. k \in 1 .. Len(s) /\ s[k] = c
      BY <2>2
    <2> DEFINE p == SubSeq(s, 1, k - 1)
               q == SubSeq(s, k + 1, Len(s))
    <2>5. /\ p \in Seq(S) /\ Len(p) = k - 1
          /\ \A i \in 1 .. k - 1 : p[i] = s[i]
      BY <2>4, SubSeqProperties
    <2>6. /\ q \in Seq(S) /\ Len(q) = Len(s) - k
          /\ \A i \in 1 .. Len(s) - k : q[i] = s[k + i]
      BY <2>4, SubSeqProperties
    <2> HIDE DEF p, q
    <2>7. p \o q \in Seq(S) /\ Len(p \o q) = Len(s) - 1
      BY <2>4, <2>5, <2>6
    <2>8. ASSUME NEW i \in 1 .. k - 1 PROVE (p \o q)[i] = s[i]
      BY <2>4, <2>5, <2>6
    <2>9. ASSUME NEW i \in k .. Len(s) - 1 PROVE (p \o q)[i] = s[i + 1]
      <3>1. (p \o q)[i] = q[i - (k - 1)] /\ i - (k - 1) \in 1 .. Len(s) - k
        BY <2>4, <2>5, <2>6
      <3>2. q[i - (k - 1)] = s[k + (i - (k - 1))] /\ k + (i - (k - 1)) = i + 1
        BY <2>4, <2>6, <3>1
      <3> QED
        BY <3>1, <3>2
    <2>10. RemoveFirst(s, c) = p \o q
      BY <2>3 DEF p, q
    <2> QED
      BY <2>4, <2>7, <2>8, <2>9, <2>10
  <1> QED
    BY <1>1, <1>2

(* Every code other than the one removed is still on the list.             *)
LEMMA RemoveFirstKeepsOthers ==
    ASSUME NEW S, NEW s \in Seq(S), NEW c
    PROVE  /\ RemoveFirst(s, c) \in Seq(S)
           /\ \A d \in ToSet(s) : d # c => d \in ToSet(RemoveFirst(s, c))
  <1>1. CASE RemoveFirst(s, c) = s
    BY <1>1
  <1>2. CASE \E k \in 1 .. Len(s) :
                /\ s[k] = c
                /\ RemoveFirst(s, c) \in Seq(S) /\ Len(RemoveFirst(s, c)) = Len(s) - 1
                /\ \A i \in 1 .. k - 1 : RemoveFirst(s, c)[i] = s[i]
                /\ \A i \in k .. Len(s) - 1 : RemoveFirst(s, c)[i] = s[i + 1]
    <2> DEFINE r == RemoveFirst(s, c)
    <2>1. PICK k \in 1 .. Len(s) :
            /\ s[k] = c /\ r \in Seq(S) /\ Len(r) = Len(s) - 1
            /\ \A i \in 1 .. k - 1 : r[i] = s[i]
            /\ \A i \in k .. Len(s) - 1 : r[i] = s[i + 1]
      BY <1>2
    <2> HIDE DEF r
    <2>2. Len(s) \in Nat /\ DOMAIN r = 1 .. Len(s) - 1
      BY <2>1
    <2>3. ASSUME NEW i \in 1 .. Len(s), s[i] # c PROVE s[i] \in ToSet(r)
      <3>1. CASE i < k
        <4>1. i \in 1 .. k - 1 /\ i \in DOMAIN r
          BY <2>2, <3>1
        <4> QED
          BY <2>1, <4>1 DEF ToSet
      <3>2. CASE i > k
        <4>1. i - 1 \in k .. Len(s) - 1 /\ i - 1 \in DOMAIN r /\ (i - 1) + 1 = i
          BY <2>2, <3>2
        <4>2. r[i - 1] = s[i]
          BY <2>1, <4>1
        <4> QED
          BY <4>1, <4>2 DEF ToSet
      <3> QED
        BY <2>1, <2>3, <3>1, <3>2
    <2>4. \A d \in ToSet(s) : d # c => d \in ToSet(r)
      BY <2>3 DEF ToSet
    <2> QED
      BY <2>1, <2>4 DEF r
  <1> QED
    BY <1>1, <1>2, RemoveFirstIs

(* list.append and the walk of _release_held over the list. *)
LEMMA AppendKeeps ==
    ASSUME NEW S, NEW s \in Seq(S), NEW c \in S
    PROVE  /\ Append(s, c) \in Seq(S)
           /\ ToSet(s) \cup {c} \subseteq ToSet(Append(s, c))
  <1>1. /\ Append(s, c) \in Seq(S)
        /\ Len(Append(s, c)) = Len(s) + 1
        /\ Append(s, c)[Len(s) + 1] = c
        /\ \A i \in 1 .. Len(s) : Append(s, c)[i] = s[i]
    BY AppendProperties
  <1>2. DOMAIN s = 1 .. Len(s) /\ DOMAIN Append(s, c) = 1 .. Len(s) + 1 /\ Len(s) \in Nat
    BY <1>1, LenProperties
  <1>3. c \in ToSet(Append(s, c))
    BY <1>1, <1>2 DEF ToSet
  <1>4. ASSUME NEW i \in 1 .. Len(s) PROVE s[i] \in ToSet(Append(s, c))
    BY <1>1, <1>2 DEF ToSet
  <1> QED
    BY <1>1, <1>2, <1>3, <1>4 DEF ToSet

LEMMA FrontKeepsOthers ==
    ASSUME NEW S, NEW s \in Seq(S), s # <<>>
    PROVE  /\ Last(s) \in S
           /\ Front(s) \in Seq(S)
           /\ \A d \in ToSet(s) : d # Last(s) => d \in ToSet(Front(s))
  <1>1. Len(s) \in Nat /\ Len(s) > 0 /\ DOMAIN s = 1 .. Len(s)
    BY EmptySeq, LenProperties
  <1>2. /\ Front(s) \in Seq(S) /\ Len(Front(s)) = Len(s) - 1
        /\ \A i \in 1 .. Len(s) - 1 : Front(s)[i] = s[i]
    BY <1>1, SubSeqProperties DEF Front
  <1>3. DOMAIN Front(s) = 1 .. Len(s) - 1
    BY <1>2
  <1>4. ASSUME NEW i \in 1 .. Len(s), s[i] # s[Len(s)]
        PROVE  s[i] \in ToSet(Front(s))
    <2>1. i \in 1 .. Len(s) - 1
      BY <1>1, <1>4
    <2> QED
      BY <1>2, <1>3, <2>1 DEF ToSet
  <1>5. s[Len(s)] \in S
    BY <1>1, ElementOfSeq
  <1> QED
    BY <1>1, <1>2, <1>4, <1>5 DEF ToSet, Last

-----------------------------------------------------------------------------
(* An action is compiled to a sequence of primitive steps. *)
LEMMA PerformType ==
    ASSUME NEW a \in Action
    PROVE  Perform(a) \in Seq(Prim)
  <1>1. a.codes \in Seq(Code) /\ a.hold \in BOOLEAN
    BY DEF Action
  <1>2. ASSUME NEW s \in Seq(Code)
        PROVE  Presses(s) \in Seq(Prim) /\ Releases(s) \in Seq(Prim)
    <2>1. DOMAIN s = 1 .. Len(s) /\ Len(s) \in Nat /\ \A i \in 1 .. Len(s) : s[i] \in Code
      BY LenProperties, ElementOfSeq
    <2>2. \A i \in 1 .. Len(s) : Press(s[i]) \in Prim /\ Release(s[i]) \in Prim
      BY <2>1 DEF Prim, Press, Release
    <2> QED
      BY <2>1, <2>2, IsASeq DEF Presses, Releases
  <1>3. Pause(a.hold) \in Seq(Prim) /\ <<[op |-> "emit"], Sleep>> \in Seq(Prim)
        /\ <<[op |-> "emit"]>> \in Seq(Prim) /\ <<[op |-> "launch"]>> \in Seq(Prim)
    <2>1. Sleep \in Prim /\ [op |-> "emit"] \in Prim /\ [op |-> "launch"] \in Prim
      BY DEF Sleep, Prim
    <2>2. ASSUME NEW x \in Prim, NEW y \in Prim
          PROVE  <<x>> \in Seq(Prim) /\ <<x, y>> \in Seq(Prim)
      OBVIOUS
    <2> QED
      BY <2>1, <2>2 DEF Pause
  <1>4. Reverse(a.codes) \in Seq(Code)
    BY <1>1, IsASeq, LenProperties, ElementOfSeq DEF Reverse
  <1>5. Chord(a.codes, a.hold) \in Seq(Prim)
    BY <1>1, <1>2, <1>3, <1>4 DEF Chord
  <1> QED
    BY <1>1, <1>2, <1>3, <1>5 DEF Perform

-----------------------------------------------------------------------------
(* The sink calls keep the types of the sink. *)
LEMMA SinkType ==
    ASSUME TypeOK
    PROVE  /\ \A c \in Code, b \in BOOLEAN :
                  SinkKey(c, b) => /\ down' \subseteq Code /\ leaked' \subseteq Code
                                   /\ open' \in BOOLEAN /\ faults' \in 0 .. MaxFaults
           /\ SinkRaises => /\ down' \subseteq Code /\ leaked' \subseteq Code
                            /\ open' \in BOOLEAN /\ faults' \in 0 .. MaxFaults
  <1>1. ASSUME NEW c \in Code, NEW b \in BOOLEAN, SinkKey(c, b)
        PROVE  /\ down' \subseteq Code /\ leaked' \subseteq Code
               /\ open' \in BOOLEAN /\ faults' \in 0 .. MaxFaults
    BY <1>1 DEF TypeOK, SinkKey
  <1>2. ASSUME SinkRaises
        PROVE  /\ down' \subseteq Code /\ leaked' \subseteq Code
               /\ open' \in BOOLEAN /\ faults' \in 0 .. MaxFaults
    BY <1>2, PlaybackAssumption DEF TypeOK, SinkRaises
  <1> QED
    BY <1>1, <1>2

LEMMA TypeInit == Init => TypeOK
  <1> SUFFICES ASSUME Init PROVE TypeOK
    OBVIOUS
  <1>1. (CHOOSE m \in Macro : TRUE) \in Macro
    BY PlaybackAssumption
  <1> QED
    BY <1>1, PlaybackAssumption DEF Init, TypeOK

(* Every step of a thread keeps the types. *)
LEMMA TypeThread ==
    ASSUME TypeOK, NEW h \in Handle, ThreadStep(h) \/ WakeByClock(h)
    PROVE  TypeOK'
  <1> USE DEF TypeOK
  <1>1. CASE LoopHead(h)
    <2>1. \/ pc' = [pc EXCEPT ![h] = "cleanup"] /\ idx' = idx
          \/ pc' = [pc EXCEPT ![h] = "play"] /\ idx' = [idx EXCEPT ![h] = 1]
      BY <1>1 DEF LoopHead
    <2>2. UNCHANGED <<stop, macro, limit, iter, todo, held, failed, down, open, faults, leaked>>
      BY <1>1 DEF LoopHead
    <2>3. CASE pc' = [pc EXCEPT ![h] = "cleanup"] /\ idx' = idx
      BY <2>2, <2>3
    <2>4. CASE pc' = [pc EXCEPT ![h] = "play"] /\ idx' = [idx EXCEPT ![h] = 1]
      BY <2>2, <2>4
    <2> QED
      BY <2>1, <2>3, <2>4
  <1>2. CASE BeginAction(h)
    <2> DEFINE acts == Actions[macro[h]]
    <2>1. acts \in Seq(Action) /\ idx[h] \in 1 .. Len(acts)
      BY <1>2, PlaybackAssumption DEF BeginAction
    <2>2. acts[idx[h]] \in Action
      BY <2>1, ElementOfSeq
    <2>3. (IF acts[idx[h]].enabled THEN Perform(acts[idx[h]]) ELSE <<>>) \in Seq(Prim)
      BY <2>2, PerformType
    <2>4. todo' \in [Handle -> Seq(Prim)]
      BY <1>2, <2>3 DEF BeginAction
    <2> QED
      BY <1>2, <2>4 DEF BeginAction
  <1>3. CASE EndPass(h)
    BY <1>3 DEF EndPass
  <1>4. ASSUME NEW c \in Code, PressKey(h, c) PROVE TypeOK'
    <2>1. todo' \in [Handle -> Seq(Prim)]
      BY <1>4, HeadTailProperties DEF PressKey, At
    <2>2. held' \in [Handle -> Seq(Code)]
      BY <1>4, AppendProperties DEF PressKey
    <2> QED
      BY <1>4, <2>1, <2>2, SinkType DEF PressKey
  <1>5. ASSUME NEW c \in Code, ReleaseKey(h, c) PROVE TypeOK'
    <2>1. todo' \in [Handle -> Seq(Prim)]
      BY <1>5, HeadTailProperties DEF ReleaseKey, At
    <2>2. held' \in [Handle -> Seq(Code)]
      BY <1>5, RemoveFirstKeepsOthers DEF ReleaseKey
    <2> QED
      BY <1>5, <2>1, <2>2, SinkType DEF ReleaseKey
  <1>6. CASE Emit(h)
    BY <1>6, HeadTailProperties DEF Emit
  <1>7. CASE Raise(h)
    BY <1>7, SinkType DEF Raise
  <1>8. CASE Wake(h)
    <2>1. \/ pc' = [pc EXCEPT ![h] = "loop"] /\ todo' = todo
          \/ /\ todo[h] # <<>>
             /\ todo' = [todo EXCEPT ![h] = Tail(@)] /\ pc' = pc
      BY <1>8 DEF Wake, Sleeping
    <2>2. UNCHANGED <<stop, macro, limit, iter, idx, held, failed, down, open, faults, leaked>>
      BY <1>8 DEF Wake
    <2>3. CASE pc' = [pc EXCEPT ![h] = "loop"] /\ todo' = todo
      BY <2>2, <2>3
    <2>4. CASE /\ todo[h] # <<>>
               /\ todo' = [todo EXCEPT ![h] = Tail(@)] /\ pc' = pc
      BY <2>2, <2>4, HeadTailProperties
    <2> QED
      BY <2>1, <2>3, <2>4
  <1>9. CASE ReleaseHeld(h)
    <2>1. held[h] \in Seq(Code) /\ held[h] # <<>>
      BY <1>9 DEF ReleaseHeld
    <2>2. Last(held[h]) \in Code /\ Front(held[h]) \in Seq(Code)
      BY <2>1, FrontKeepsOthers
    <2>3. held' \in [Handle -> Seq(Code)]
      BY <1>9, <2>2 DEF ReleaseHeld
    <2>4. /\ down' \subseteq Code /\ leaked' \subseteq Code
          /\ open' \in BOOLEAN /\ faults' \in 0 .. MaxFaults
      <3>1. CASE SinkKey(Last(held[h]), FALSE)
        BY <2>2, <3>1, SinkType
      <3>2. CASE UNCHANGED sinkVars
        BY <3>2 DEF sinkVars
      <3>3. CASE /\ faults < MaxFaults /\ faults' = faults + 1
                 /\ leaked' = leaked \cup ({Last(held[h])} \cap down)
                 /\ UNCHANGED <<down, open>>
        BY <2>2, <3>3, PlaybackAssumption
      <3> QED
        BY <1>9, <3>1, <3>2, <3>3 DEF ReleaseHeld
    <2> QED
      BY <1>9, <2>3, <2>4 DEF ReleaseHeld
  <1>10. CASE EndCleanup(h) \/ Finish(h) \/ Exit(h)
    BY <1>10 DEF EndCleanup, Finish, Exit
  <1> QED
    BY <1>1, <1>2, <1>3, <1>4, <1>5, <1>6, <1>7, <1>8, <1>9, <1>10
    DEF ThreadStep, WakeByStop, WakeByClock

(* So does everything other threads do. *)
LEMMA TypeEnvironment ==
    ASSUME TypeOK, Environment
    PROVE  TypeOK'
  <1> USE DEF TypeOK
  <1>1. ASSUME NEW h \in Handle, NEW m \in Macro, NEW n \in Iterations, Create(h, m, n)
        PROVE  TypeOK'
    BY <1>1, PlaybackAssumption DEF Create
  <1>2. ASSUME NEW h \in Handle, StartThread(h) \/ Stop(h) PROVE TypeOK'
    BY <1>2 DEF StartThread, Stop
  <1>3. CASE (ReleaseAll \/ Close \/ SinkRaises) /\ UNCHANGED runVars
    BY <1>3, SinkType DEF ReleaseAll, Close, runVars
  <1> QED
    BY <1>1, <1>2, <1>3 DEF Environment

LEMMA TypeStep == TypeOK /\ [Next]_vars => TypeOK'
  <1>1. CASE UNCHANGED vars
    BY <1>1 DEF TypeOK, vars
  <1> QED
    BY <1>1, TypeThread, TypeEnvironment DEF Next

(* Type correctness. *)
THEOREM TypeCorrect == Safety => []TypeOK
  <1> QED
    BY TypeInit, TypeStep, PTL DEF Safety

-----------------------------------------------------------------------------
(* Nothing stays held.  NothingStaysHeld itself is not inductive: that the  *)
(* list of a run is empty once it has been through _release_held, and that  *)
(* leaks cost a write error, has to be carried along.                       *)
Owed(c) == \E h \in Handle : c \in ToSet(held[h])

SinkInv ==
    /\ ClosedHoldsNothing
    /\ \A h \in Handle : ~WillRelease(h) => held[h] = <<>>
    /\ \A c \in down : c \in leaked \/ Owed(c)
    /\ faults = 0 => leaked = {}
    /\ down \subseteq Emittable

(* Steps that touch no list and add no code to the devices. *)
LEMMA SinkFrame ==
    ASSUME TypeOK, TypeOK', SinkInv,
           held' = held, down' \subseteq down,
           leaked \cap down' \subseteq leaked', leaked' \subseteq leaked,
           faults <= faults', ~open' => down' = {},
           \A g \in Handle : WillRelease(g) => WillRelease(g)' \/ held[g] = <<>>
    PROVE  SinkInv'
  <1>1. ClosedHoldsNothing'
    BY DEF ClosedHoldsNothing
  <1>2. \A g \in Handle : (~WillRelease(g) => held[g] = <<>>)'
    BY DEF SinkInv
  <1>3. \A c \in Code : Owed(c) => Owed(c)'
    BY DEF Owed
  <1>4. \A c \in down' : c \in leaked' \/ Owed(c)'
    BY <1>3 DEF SinkInv, TypeOK
  <1>5. (faults' = 0 => leaked' = {}) /\ down' \subseteq Emittable
    BY PlaybackAssumption DEF SinkInv, TypeOK
  <1> QED
    BY <1>1, <1>2, <1>4, <1>5 DEF SinkInv

LEMMA SinkInvInit == Init => SinkInv
  <1> QED
    BY DEF Init, SinkInv, ClosedHoldsNothing

LEMMA SinkInvPress ==
    ASSUME TypeOK, TypeOK', SinkInv, NEW h \in Handle, NEW c \in Code, PressKey(h, c)
    PROVE  SinkInv'
  <1>1. /\ open /\ open' = open /\ faults' = faults /\ pc' = pc /\ pc[h] = "play"
        /\ held' = [held EXCEPT ![h] = Append(@, c)]
        /\ down' \subseteq down \cup ({c} \cap Emittable)
        /\ leaked' = leaked \cap down'
    BY DEF PressKey, SinkKey, At
  <1>2. ToSet(held[h]) \cup {c} \subseteq ToSet(held'[h])
    BY <1>1, AppendKeeps DEF TypeOK
  <1>3. ClosedHoldsNothing'
    BY <1>1 DEF ClosedHoldsNothing
  <1>4. \A g \in Handle : (~WillRelease(g) => held[g] = <<>>)'
    BY <1>1 DEF SinkInv, WillRelease, TypeOK
  <1>5. \A d \in Code : Owed(d) \/ d = c => Owed(d)'
    BY <1>1, <1>2 DEF Owed, TypeOK
  <1>6. \A d \in down' : d \in leaked' \/ Owed(d)'
    BY <1>1, <1>5 DEF SinkInv, TypeOK
  <1>7. (faults' = 0 => leaked' = {}) /\ down' \subseteq Emittable
    BY <1>1 DEF SinkInv
  <1> QED
    BY <1>3, <1>4, <1>6, <1>7 DEF SinkInv

(* A run that releases a code, in its macro or in its clean-up, takes at    *)
(* most that code off its list.                                             *)
LEMMA SinkInvRelease ==
    ASSUME TypeOK, TypeOK', SinkInv, NEW h \in Handle, NEW c \in Code,
           WillRelease(h), pc' = pc, open' = open,
           \E s \in Seq(Code) :
               /\ held' = [held EXCEPT ![h] = s]
               /\ \A d \in ToSet(held[h]) : d # c => d \in ToSet(s),
           \/ /\ down' = IF c \in Emittable THEN down \ {c} ELSE down
              /\ leaked' = leaked \cap down' /\ faults' = faults
           \/ ~open /\ UNCHANGED sinkVars
           \/ /\ faults' = faults + 1 /\ down' = down
              /\ leaked' = leaked \cup ({c} \cap down)
    PROVE  SinkInv'
  <1>1. PICK s \in Seq(Code) : /\ held' = [held EXCEPT ![h] = s]
                               /\ \A d \in ToSet(held[h]) : d # c => d \in ToSet(s)
    OBVIOUS
  <1>2. ClosedHoldsNothing'
    BY DEF SinkInv, ClosedHoldsNothing, sinkVars
  <1>3. \A g \in Handle : (~WillRelease(g) => held[g] = <<>>)'
    BY <1>1 DEF SinkInv, WillRelease, TypeOK
  <1>4. \A d \in Code : Owed(d) /\ d # c => Owed(d)'
    BY <1>1 DEF Owed, TypeOK
  <1>5. \A d \in down' : d \in leaked' \/ Owed(d)'
    BY <1>4 DEF SinkInv, TypeOK, ClosedHoldsNothing, sinkVars
  <1>6. (faults' = 0 => leaked' = {}) /\ down' \subseteq Emittable
    BY PlaybackAssumption DEF SinkInv, TypeOK, sinkVars
  <1> QED
    BY <1>2, <1>3, <1>5, <1>6 DEF SinkInv

LEMMA SinkInvThread ==
    ASSUME TypeOK, TypeOK', SinkInv, NEW h \in Handle, ThreadStep(h) \/ WakeByClock(h)
    PROVE  SinkInv'
  <1>1. CASE LoopHead(h) \/ BeginAction(h) \/ EndPass(h) \/ Emit(h) \/ Wake(h)
    <2>1. UNCHANGED <<held, down, open, faults, leaked>>
      BY <1>1 DEF LoopHead, BeginAction, EndPass, Emit, Wake
    <2>2. \E p \in {"loop", "play", "gap", "cleanup"} : pc' = [pc EXCEPT ![h] = p]
      <3>1. CASE LoopHead(h)
        BY <3>1 DEF LoopHead
      <3>2. CASE BeginAction(h) \/ Emit(h)
        BY <3>2 DEF BeginAction, Emit, TypeOK
      <3>3. CASE EndPass(h)
        BY <3>3 DEF EndPass
      <3>4. CASE Wake(h)
        BY <3>4 DEF Wake, Sleeping, TypeOK
      <3> QED
        BY <1>1, <3>1, <3>2, <3>3, <3>4
    <2>3. \A g \in Handle : WillRelease(g) => WillRelease(g)'
      BY <2>2 DEF WillRelease, TypeOK
    <2>4. faults <= faults' /\ (~open' => down' = {})
      BY <2>1 DEF SinkInv, ClosedHoldsNothing, TypeOK
    <2> QED
      BY <2>1, <2>3, <2>4, SinkFrame
  <1>2. ASSUME NEW c \in Code, PressKey(h, c) PROVE SinkInv'
    BY <1>2, SinkInvPress
  <1>3. ASSUME NEW c \in Code, ReleaseKey(h, c) PROVE SinkInv'
    <2> DEFINE s == RemoveFirst(held[h], c)
    <2>1. s \in Seq(Code) /\ \A d \in ToSet(held[h]) : d # c => d \in ToSet(s)
      BY RemoveFirstKeepsOthers DEF TypeOK
    <2>2. WillRelease(h)
      BY <1>3 DEF ReleaseKey, At, WillRelease
    <2> QED
      BY <1>3, <2>1, <2>2, SinkInvRelease DEF ReleaseKey, SinkKey
  <1>4. CASE Raise(h)
    <2>1. UNCHANGED <<held, down, open, leaked>> /\ faults <= faults'
      BY <1>4 DEF Raise, SinkRaises, TypeOK
    <2>2. \A g \in Handle : WillRelease(g) => WillRelease(g)'
      BY <1>4 DEF Raise, WillRelease, TypeOK
    <2>3. faults <= faults' /\ (~open' => down' = {})
      BY <2>1 DEF SinkInv, ClosedHoldsNothing, TypeOK
    <2> QED
      BY <2>1, <2>2, <2>3, SinkFrame
  <1>5. CASE ReleaseHeld(h)
    <2> DEFINE c == Last(held[h])
               s == Front(held[h])
    <2>1. /\ c \in Code /\ s \in Seq(Code)
          /\ \A d \in ToSet(held[h]) : d # c => d \in ToSet(s)
      BY <1>5, FrontKeepsOthers DEF TypeOK, ReleaseHeld
    <2>2. WillRelease(h)
      BY <1>5 DEF ReleaseHeld, WillRelease
    <2> QED
      BY <1>5, <2>1, <2>2, SinkInvRelease DEF ReleaseHeld, SinkKey, sinkVars
  <1>6. CASE EndCleanup(h) \/ Finish(h) \/ Exit(h)
    <2>1. UNCHANGED <<held, down, open, faults, leaked>>
      BY <1>6 DEF EndCleanup, Finish, Exit
    <2>2. \A g \in Handle : WillRelease(g) => WillRelease(g)' \/ held[g] = <<>>
      BY <1>6 DEF EndCleanup, Finish, Exit, WillRelease, TypeOK
    <2>3. faults <= faults' /\ (~open' => down' = {})
      BY <2>1 DEF SinkInv, ClosedHoldsNothing, TypeOK
    <2> QED
      BY <2>1, <2>2, <2>3, SinkFrame
  <1> QED
    BY <1>1, <1>2, <1>3, <1>4, <1>5, <1>6 DEF ThreadStep, WakeByStop, WakeByClock

LEMMA SinkInvEnvironment ==
    ASSUME TypeOK, TypeOK', SinkInv, Environment
    PROVE  SinkInv'
  <1>1. ASSUME NEW h \in Handle,
               StartThread(h) \/ Stop(h) \/ \E m \in Macro, n \in Iterations : Create(h, m, n)
        PROVE  SinkInv'
    <2>1. UNCHANGED <<held, down, open, faults, leaked>>
      BY <1>1 DEF Create, StartThread, Stop
    <2>2. \A g \in Handle : WillRelease(g) => WillRelease(g)'
      BY <1>1 DEF Create, StartThread, Stop, WillRelease, TypeOK
    <2>3. faults <= faults' /\ (~open' => down' = {})
      BY <2>1 DEF SinkInv, ClosedHoldsNothing, TypeOK
    <2> QED
      BY <2>1, <2>2, <2>3, SinkFrame
  <1>2. CASE (ReleaseAll \/ Close \/ SinkRaises) /\ UNCHANGED runVars
    <2>1. /\ held' = held
          /\ \/ down' = {} /\ leaked' = {} /\ faults' = faults
             \/ UNCHANGED <<down, leaked, open>> /\ faults' \in {faults, faults + 1}
      BY <1>2 DEF ReleaseAll, Close, SinkRaises, runVars
    <2>2. \A g \in Handle : WillRelease(g) => WillRelease(g)'
      BY <1>2 DEF runVars, WillRelease
    <2>3. faults <= faults' /\ (~open' => down' = {})
      BY <2>1 DEF SinkInv, ClosedHoldsNothing, TypeOK
    <2> QED
      BY <2>1, <2>2, <2>3, SinkFrame
  <1> QED
    BY <1>1, <1>2 DEF Environment

LEMMA SinkInvStep == TypeOK /\ TypeOK' /\ SinkInv /\ [Next]_vars => SinkInv'
  <1>1. CASE UNCHANGED vars
    BY <1>1 DEF vars, SinkInv, ClosedHoldsNothing, WillRelease, Owed
  <1> QED
    BY <1>1, SinkInvThread, SinkInvEnvironment DEF Next

LEMMA SinkInvHolds == Safety => []SinkInv
  <1> QED
    BY SinkInvInit, SinkInvStep, TypeCorrect, PTL DEF Safety

(* Every code the devices hold is on the list of a run that still has its  *)
(* clean-up to do, unless the kernel refused the release in that clean-up. *)
THEOREM NothingIsLeftHeld == Safety => [](NothingStaysHeld /\ ClosedHoldsNothing)
  <1>1. TypeOK /\ SinkInv => NothingStaysHeld /\ ClosedHoldsNothing
    <2> SUFFICES ASSUME TypeOK, SinkInv, NEW c \in down, c \notin leaked \/ faults = 0
                 PROVE  \E h \in Handle : WillRelease(h) /\ c \in ToSet(held[h])
      BY DEF NothingStaysHeld, SinkInv, TypeOK
    <2>1. PICK h \in Handle : c \in ToSet(held[h])
      BY DEF SinkInv, Owed
    <2>2. held[h] # <<>>
      BY <2>1 DEF ToSet
    <2> QED
      BY <2>1, <2>2 DEF SinkInv
  <1> QED
    BY <1>1, TypeCorrect, SinkInvHolds, PTL

-----------------------------------------------------------------------------
(* Passes are counted right. *)
CountInv ==
    \A h \in Handle :
        /\ pc[h] \in {"fresh", "created"} => iter[h] = 0
        /\ limit[h] # Unbounded => limit[h] > 0 /\ iter[h] <= limit[h]
        /\ pc[h] \in {"play", "gap"} /\ limit[h] # Unbounded => iter[h] < limit[h]
        /\ pc[h] \in {"cleanup", "finish", "exit", "dead"} =>
              stop[h] \/ failed[h] \/ iter[h] = limit[h]

LEMMA CountInvInit == Init => CountInv
  <1> QED
    BY DEF Init, CountInv

LEMMA CountInvThread ==
    ASSUME TypeOK, CountInv, NEW h \in Handle, ThreadStep(h) \/ WakeByClock(h)
    PROVE  CountInv'
  <1>1. CASE LoopHead(h)
    <2>1. CASE stop[h] \/ (limit[h] # Unbounded /\ iter[h] >= limit[h])
      <3>1. stop[h] \/ iter[h] = limit[h]
        BY <2>1 DEF CountInv, TypeOK, Unbounded
      <3> QED
        BY <1>1, <2>1, <3>1 DEF LoopHead, CountInv, TypeOK
    <2>2. CASE ~(stop[h] \/ (limit[h] # Unbounded /\ iter[h] >= limit[h]))
      <3>1. limit[h] # Unbounded => iter[h] < limit[h]
        BY <2>2 DEF TypeOK, Unbounded
      <3> QED
        BY <1>1, <2>2, <3>1 DEF LoopHead, CountInv, TypeOK
    <2> QED
      BY <2>1, <2>2
  <1>2. CASE EndPass(h)
    <2>1. CASE limit[h] = Unbounded
      BY <1>2, <2>1 DEF EndPass, CountInv, TypeOK
    <2>2. CASE limit[h] # Unbounded
      <3>1. /\ iter' = [iter EXCEPT ![h] = @ + 1]
            /\ \/ pc' = [pc EXCEPT ![h] = "loop"]
               \/ pc' = [pc EXCEPT ![h] = "gap"] /\ iter'[h] < limit[h]
            /\ UNCHANGED <<stop, limit, failed>>
        BY <1>2, <2>2 DEF EndPass
      <3>2. iter[h] + 1 <= limit[h]
        BY <1>2, <2>2 DEF EndPass, CountInv, TypeOK, Unbounded
      <3> QED
        BY <2>2, <3>1, <3>2 DEF CountInv, TypeOK
    <2> QED
      BY <2>1, <2>2
  <1>3. CASE Raise(h)
    BY <1>3 DEF Raise, CountInv, TypeOK
  <1>4. CASE Wake(h)
    <2>1. /\ UNCHANGED <<stop, limit, iter, failed>>
          /\ \/ pc' = pc
             \/ pc[h] = "gap" /\ pc' = [pc EXCEPT ![h] = "loop"]
      BY <1>4 DEF Wake
    <2> QED
      BY <2>1 DEF CountInv, TypeOK
  <1>5. CASE \/ BeginAction(h) \/ Emit(h) \/ ReleaseHeld(h)
             \/ \E c \in Code : PressKey(h, c) \/ ReleaseKey(h, c)
    <2>1. UNCHANGED <<pc, stop, limit, iter, failed>>
      BY <1>5 DEF BeginAction, Emit, ReleaseHeld, PressKey, ReleaseKey
    <2> QED
      BY <2>1 DEF CountInv
  <1>6. CASE EndCleanup(h) \/ Finish(h) \/ Exit(h)
    <2>1. /\ UNCHANGED <<stop, limit, iter, failed>>
          /\ \/ pc[h] = "cleanup" /\ pc' = [pc EXCEPT ![h] = "finish"]
             \/ pc[h] = "finish" /\ pc' = [pc EXCEPT ![h] = "exit"]
             \/ pc[h] = "exit" /\ pc' = [pc EXCEPT ![h] = "dead"]
      BY <1>6 DEF EndCleanup, Finish, Exit
    <2> QED
      BY <2>1 DEF CountInv, TypeOK
  <1> QED
    BY <1>1, <1>2, <1>3, <1>4, <1>5, <1>6 DEF ThreadStep, WakeByStop, WakeByClock

LEMMA CountInvEnvironment ==
    ASSUME TypeOK, CountInv, Environment
    PROVE  CountInv'
  <1>1. ASSUME NEW h \in Handle, NEW m \in Macro, NEW n \in Iterations, Create(h, m, n)
        PROVE  CountInv'
    <2>1. n # Unbounded => n > 0
      BY PlaybackAssumption
    <2>2. iter[h] = 0 /\ n \in Nat \cup {Unbounded}
      BY <1>1, PlaybackAssumption DEF Create, CountInv
    <2> QED
      BY <1>1, <2>1, <2>2 DEF Create, CountInv, TypeOK
  <1>2. ASSUME NEW h \in Handle, StartThread(h) \/ Stop(h) PROVE CountInv'
    <2>1. /\ UNCHANGED <<limit, iter, failed>>
          /\ \/ stop' = stop /\ pc[h] = "created" /\ pc' = [pc EXCEPT ![h] = "loop"]
             \/ stop' = [stop EXCEPT ![h] = TRUE] /\ pc' = pc
      BY <1>2 DEF StartThread, Stop
    <2> QED
      BY <2>1 DEF CountInv, TypeOK
  <1>3. CASE UNCHANGED runVars
    BY <1>3 DEF runVars, CountInv
  <1> QED
    BY <1>1, <1>2, <1>3 DEF Environment

\* A run leaves its loop only when it was stopped, the sink raised, or it has
\* made exactly the passes it was asked for.
THEOREM NoPassIsLost == Safety => []EndsForAReason
  <1>1. TypeOK /\ CountInv /\ [Next]_vars => CountInv'
    <2>1. CASE UNCHANGED vars
      BY <2>1 DEF vars, CountInv
    <2> QED
      BY <2>1, CountInvThread, CountInvEnvironment DEF Next
  <1>2. CountInv => EndsForAReason
    BY DEF CountInv, EndsForAReason
  <1> QED
    BY <1>1, <1>2, CountInvInit, TypeCorrect, PTL DEF Safety

-----------------------------------------------------------------------------
(* Taps, clicks and combinations are balanced.  A run of a macro without bare *)
(* presses is pressing the codes of a combination, in order, and has their    *)
(* releases before it; or it is releasing, and what it holds can be matched,  *)
(* one to one, with the releases it still has to make.                        *)

Neutral(prim) == prim.op \notin {"press", "release"}

\* A combination of codes s, of which n are pressed: there are q steps before the
\* presses, if none was made yet, and p steps between them and the releases.
Pressing(td, hd, s, q, n, p) ==
    /\ q > 0 => n = 0
    /\ n <= Len(s) /\ Len(hd) = n /\ \A i \in 1 .. n : hd[i] = s[i]
    /\ Len(td) = (q + (Len(s) - n)) + (p + Len(s))
    /\ \A i \in 1 .. q : Neutral(td[i])
    /\ \A i \in 1 .. Len(s) - n : td[q + i] = Press(s[n + i])
    /\ \A i \in 1 .. p : Neutral(td[(q + (Len(s) - n)) + i])
    /\ \A i \in 1 .. Len(s) :
          td[(q + (Len(s) - n)) + (p + i)] = Release(s[(Len(s) - i) + 1])

Releasing(td, hd, f) ==
    /\ f \in [1 .. Len(hd) -> 1 .. Len(td)]
    /\ \A i, j \in 1 .. Len(hd) : f[i] = f[j] => i = j
    /\ \A i \in 1 .. Len(td) : td[i].op = "release"
    /\ \A i \in 1 .. Len(hd) : td[f[i]] = Release(hd[i])

Balanced(td, hd) ==
    \/ \E s \in Seq(Code), q, n, p \in Nat : Pressing(td, hd, s, q, n, p)
    \/ \E f \in [1 .. Len(hd) -> 1 .. Len(td)] : Releasing(td, hd, f)

LEMMA BalancedDone ==
    ASSUME NEW hd \in Seq(Code), Balanced(<<>>, hd)
    PROVE  hd = <<>>
  <1>1. Len(hd) \in Nat /\ (Len(hd) = 0 => hd = <<>>)
    BY EmptySeq
  <1>2. CASE \E s \in Seq(Code), q, n, p \in Nat : Pressing(<<>>, hd, s, q, n, p)
    <2>1. PICK s \in Seq(Code), q, n, p \in Nat : Pressing(<<>>, hd, s, q, n, p)
      BY <1>2
    <2>2. Len(s) \in Nat
      OBVIOUS
    <2>3. n <= Len(s) /\ Len(hd) = n /\ 0 = (q + (Len(s) - n)) + (p + Len(s))
      BY <2>1 DEF Pressing
    <2>4. n = 0
      BY <2>2, <2>3
    <2> QED
      BY <1>1, <2>3, <2>4
  <1>3. CASE \E f \in [1 .. Len(hd) -> 1 .. Len(<<>>)] : Releasing(<<>>, hd, f)
    <2>1. PICK f \in [1 .. Len(hd) -> 1 .. Len(<<>>)] : Releasing(<<>>, hd, f)
      BY <1>3
    <2>2. 1 .. Len(<<>>) = {}
      OBVIOUS
    <2>3. 1 .. Len(hd) = {}
      BY <2>1, <2>2
    <2>4. Len(hd) > 0 => 1 \in 1 .. Len(hd)
      BY <1>1
    <2> QED
      BY <1>1, <2>3, <2>4
  <1> QED
    BY <1>2, <1>3 DEF Balanced

\* What is left of a sequence without its head.
LEMMA TailFacts ==
    ASSUME NEW S, NEW s \in Seq(S), s # <<>>
    PROVE  /\ Len(s) \in Nat \ {0} /\ Tail(s) \in Seq(S) /\ Len(Tail(s)) = Len(s) - 1
           /\ Head(s) = s[1] /\ \A i \in 1 .. Len(s) - 1 : Tail(s)[i] = s[i + 1]
  BY HeadTailProperties, EmptySeq

\* A combination goes on with a step before or between, with its next press, or
\* turns to the releases.
LEMMA PressingMoves ==
    ASSUME NEW td \in Seq(Prim), td # <<>>, NEW hd \in Seq(Code),
           NEW s \in Seq(Code), NEW q \in Nat, NEW n \in Nat, NEW p \in Nat,
           Pressing(td, hd, s, q, n, p)
    PROVE  \/ Neutral(Head(td)) /\ Balanced(Tail(td), hd)
           \/ \E c \in Code : Head(td) = Press(c) /\ Balanced(Tail(td), Append(hd, c))
           \/ \E f \in [1 .. Len(hd) -> 1 .. Len(td)] : Releasing(td, hd, f)
  <1> DEFINE tl == Tail(td)
             m == Len(s)
  <1>1. /\ Len(td) \in Nat \ {0} /\ tl \in Seq(Prim) /\ Len(tl) = Len(td) - 1
        /\ Head(td) = td[1] /\ \A i \in 1 .. Len(td) - 1 : tl[i] = td[i + 1]
    BY TailFacts
  <1>2. m \in Nat /\ \A i \in 1 .. m : s[i] \in Code
    OBVIOUS
  <1>3. /\ q > 0 => n = 0
        /\ n <= m /\ Len(hd) = n /\ \A i \in 1 .. n : hd[i] = s[i]
        /\ Len(td) = (q + (m - n)) + (p + m)
        /\ \A i \in 1 .. q : Neutral(td[i])
        /\ \A i \in 1 .. m - n : td[q + i] = Press(s[n + i])
        /\ \A i \in 1 .. p : Neutral(td[(q + (m - n)) + i])
        /\ \A i \in 1 .. m : td[(q + (m - n)) + (p + i)] = Release(s[(m - i) + 1])
    BY DEF Pressing
  <1> HIDE DEF tl, m
  <1>4. CASE q > 0
    <2>1. q - 1 \in Nat /\ Len(tl) = ((q - 1) + (m - n)) + (p + m)
      BY <1>1, <1>2, <1>3, <1>4
    <2>2. \A i \in 1 .. q - 1 : Neutral(tl[i])
      <3> SUFFICES ASSUME NEW i \in 1 .. q - 1 PROVE Neutral(tl[i])
        OBVIOUS
      <3>1. i + 1 \in 1 .. q /\ i \in 1 .. Len(td) - 1
        BY <1>2, <1>3, <1>4
      <3> QED
        BY <1>1, <1>3, <3>1
    <2>3. \A i \in 1 .. m - n : tl[(q - 1) + i] = Press(s[n + i])
      <3> SUFFICES ASSUME NEW i \in 1 .. m - n PROVE tl[(q - 1) + i] = Press(s[n + i])
        OBVIOUS
      <3>1. (q - 1) + i \in 1 .. Len(td) - 1 /\ ((q - 1) + i) + 1 = q + i
        BY <1>2, <1>3, <1>4
      <3> QED
        BY <1>1, <1>3, <3>1
    <2>4. \A i \in 1 .. p : Neutral(tl[((q - 1) + (m - n)) + i])
      <3> SUFFICES ASSUME NEW i \in 1 .. p PROVE Neutral(tl[((q - 1) + (m - n)) + i])
        OBVIOUS
      <3>1. /\ ((q - 1) + (m - n)) + i \in 1 .. Len(td) - 1
            /\ (((q - 1) + (m - n)) + i) + 1 = (q + (m - n)) + i
        BY <1>2, <1>3, <1>4
      <3> QED
        BY <1>1, <1>3, <3>1
    <2>5. \A i \in 1 .. m : tl[((q - 1) + (m - n)) + (p + i)] = Release(s[(m - i) + 1])
      <3> SUFFICES ASSUME NEW i \in 1 .. m
                   PROVE  tl[((q - 1) + (m - n)) + (p + i)] = Release(s[(m - i) + 1])
        OBVIOUS
      <3>1. /\ ((q - 1) + (m - n)) + (p + i) \in 1 .. Len(td) - 1
            /\ (((q - 1) + (m - n)) + (p + i)) + 1 = (q + (m - n)) + (p + i)
        BY <1>2, <1>3, <1>4
      <3> QED
        BY <1>1, <1>3, <3>1
    <2>6. Pressing(tl, hd, s, q - 1, n, p)
      BY <1>3, <1>4, <2>1, <2>2, <2>3, <2>4, <2>5 DEF Pressing, m
    <2>7. Neutral(Head(td))
      BY <1>1, <1>3, <1>4
    <2> QED
      BY <2>1, <2>6, <2>7 DEF Balanced, tl
  <1>5. CASE q = 0 /\ n < m
    <2> DEFINE c == s[n + 1]
               hn == Append(hd, c)
    <2>1. n + 1 \in 1 .. m /\ c \in Code /\ n + 1 \in Nat
      BY <1>2, <1>5
    <2>2. Head(td) = Press(c)
      <3>1. 1 \in 1 .. m - n /\ q + 1 = 1
        BY <1>2, <1>5
      <3> QED
        BY <1>1, <1>3, <3>1
    <2>3. /\ hn \in Seq(Code) /\ Len(hn) = n + 1 /\ hn[n + 1] = c
          /\ \A i \in 1 .. n : hn[i] = hd[i]
      BY <1>3, <2>1, AppendProperties
    <2> HIDE DEF c, hn
    <2>4. \A i \in 1 .. n + 1 : hn[i] = s[i]
      BY <1>3, <2>3 DEF c
    <2>5. Len(tl) = (0 + (m - (n + 1))) + (p + m)
      BY <1>1, <1>2, <1>3, <1>5
    <2>6. \A i \in 1 .. m - (n + 1) : tl[0 + i] = Press(s[(n + 1) + i])
      <3> SUFFICES ASSUME NEW i \in 1 .. m - (n + 1) PROVE tl[0 + i] = Press(s[(n + 1) + i])
        OBVIOUS
      <3>1. Len(td) = (m - n) + (p + m) /\ m - n \in Nat \ {0} /\ q = 0
        BY <1>2, <1>3, <1>5
      <3>2. /\ i \in 1 .. Len(td) - 1 /\ i + 1 \in 1 .. m - n /\ q + (i + 1) = i + 1
            /\ n + (i + 1) = (n + 1) + i /\ 0 + i = i
        BY <1>2, <3>1
      <3>3. tl[i] = td[i + 1] /\ td[q + (i + 1)] = Press(s[n + (i + 1)])
        BY <1>1, <1>3, <3>2
      <3> QED
        BY <3>2, <3>3
    <2>7. \A i \in 1 .. p : Neutral(tl[(0 + (m - (n + 1))) + i])
      <3> SUFFICES ASSUME NEW i \in 1 .. p PROVE Neutral(tl[(0 + (m - (n + 1))) + i])
        OBVIOUS
      <3>1. Len(td) = (m - n) + (p + m) /\ m - n \in Nat \ {0} /\ q = 0
        BY <1>2, <1>3, <1>5
      <3>2. /\ (0 + (m - (n + 1))) + i \in 1 .. Len(td) - 1
            /\ ((0 + (m - (n + 1))) + i) + 1 = (q + (m - n)) + i
        BY <1>2, <3>1
      <3> QED
        BY <1>1, <1>3, <3>2
    <2>8. \A i \in 1 .. m : tl[(0 + (m - (n + 1))) + (p + i)] = Release(s[(m - i) + 1])
      <3> SUFFICES ASSUME NEW i \in 1 .. m
                   PROVE  tl[(0 + (m - (n + 1))) + (p + i)] = Release(s[(m - i) + 1])
        OBVIOUS
      <3>1. Len(td) = (m - n) + (p + m) /\ m - n \in Nat \ {0} /\ q = 0
        BY <1>2, <1>3, <1>5
      <3>2. /\ (0 + (m - (n + 1))) + (p + i) \in 1 .. Len(td) - 1
            /\ ((0 + (m - (n + 1))) + (p + i)) + 1 = (q + (m - n)) + (p + i)
        BY <1>2, <3>1
      <3> QED
        BY <1>1, <1>3, <3>2
    <2>9. Pressing(tl, hn, s, 0, n + 1, p)
      <3>1. n + 1 <= m /\ ~(0 > 0) /\ 1 .. 0 = {}
        BY <1>2, <1>5
      <3> QED
        BY <2>3, <2>4, <2>5, <2>6, <2>7, <2>8, <3>1 DEF Pressing, m
    <2>10. Balanced(tl, hn)
      BY <2>1, <2>9 DEF Balanced
    <2> QED
      BY <2>1, <2>2, <2>10 DEF tl, hn
  <1>6. CASE q = 0 /\ n = m /\ p > 0
    <2>1. p - 1 \in Nat /\ Len(tl) = (0 + (m - n)) + ((p - 1) + m)
      BY <1>1, <1>2, <1>3, <1>6
    <2>2. \A i \in 1 .. p - 1 : Neutral(tl[(0 + (m - n)) + i])
      <3> SUFFICES ASSUME NEW i \in 1 .. p - 1 PROVE Neutral(tl[(0 + (m - n)) + i])
        OBVIOUS
      <3>1. /\ (0 + (m - n)) + i \in 1 .. Len(td) - 1 /\ i + 1 \in 1 .. p
            /\ ((0 + (m - n)) + i) + 1 = (q + (m - n)) + (i + 1)
        BY <1>2, <1>3, <1>6
      <3> QED
        BY <1>1, <1>3, <3>1
    <2>3. \A i \in 1 .. m : tl[(0 + (m - n)) + ((p - 1) + i)] = Release(s[(m - i) + 1])
      <3> SUFFICES ASSUME NEW i \in 1 .. m
                   PROVE  tl[(0 + (m - n)) + ((p - 1) + i)] = Release(s[(m - i) + 1])
        OBVIOUS
      <3>1. /\ (0 + (m - n)) + ((p - 1) + i) \in 1 .. Len(td) - 1
            /\ ((0 + (m - n)) + ((p - 1) + i)) + 1 = (q + (m - n)) + (p + i)
        BY <1>2, <1>3, <1>6
      <3> QED
        BY <1>1, <1>3, <3>1
    <2>4. Pressing(tl, hd, s, 0, n, p - 1)
      <3>1. 1 .. m - n = {} /\ 1 .. 0 = {} /\ ~(0 > 0)
        BY <1>2, <1>6
      <3> QED
        BY <1>3, <2>1, <2>2, <2>3, <3>1 DEF Pressing, m
    <2>5. Neutral(Head(td))
      <3>1. 1 \in 1 .. p /\ (q + (m - n)) + 1 = 1
        BY <1>2, <1>6
      <3> QED
        BY <1>1, <1>3, <3>1
    <2> QED
      BY <2>1, <2>4, <2>5 DEF Balanced, tl
  <1>7. CASE q = 0 /\ n = m /\ p = 0
    <2> DEFINE f == [i \in 1 .. Len(hd) |-> (m - i) + 1]
    <2>1. Len(td) = m /\ \A i \in 1 .. m : td[i] = Release(s[(m - i) + 1])
      <3>1. Len(td) = m
        BY <1>2, <1>3, <1>7
      <3>2. \A i \in 1 .. m : (q + (m - n)) + (p + i) = i
        BY <1>2, <1>7
      <3> QED
        BY <1>3, <3>1, <3>2
    <2>2. /\ \A i \in 1 .. m : (m - i) + 1 \in 1 .. m /\ (m - ((m - i) + 1)) + 1 = i
          /\ \A i, j \in 1 .. m : (m - i) + 1 = (m - j) + 1 => i = j
      BY <1>2
    <2>3. Len(hd) = m /\ \A i \in 1 .. m : hd[i] = s[i]
      BY <1>3, <1>7
    <2>4. f \in [1 .. Len(hd) -> 1 .. Len(td)] /\ \A i \in 1 .. Len(hd) : f[i] = (m - i) + 1
      BY <2>1, <2>2, <2>3
    <2>5. ASSUME NEW i \in 1 .. Len(hd) PROVE td[f[i]] = Release(hd[i])
      <3>1. f[i] = (m - i) + 1 /\ f[i] \in 1 .. m /\ (m - f[i]) + 1 = i /\ hd[i] = s[i]
        BY <2>2, <2>3, <2>4
      <3>2. td[f[i]] = Release(s[(m - f[i]) + 1])
        BY <2>1, <3>1
      <3> QED
        BY <3>1, <3>2
    <2>6. \A i \in 1 .. Len(td) : td[i].op = "release"
      BY <2>1 DEF Release
    <2> HIDE DEF f
    <2>7. Releasing(td, hd, f)
      BY <2>2, <2>3, <2>4, <2>5, <2>6 DEF Releasing
    <2> QED
      BY <2>4, <2>7
  <1>8. \/ q > 0
        \/ q = 0 /\ n < m
        \/ q = 0 /\ n = m /\ p > 0
        \/ q = 0 /\ n = m /\ p = 0
    <2>1. m \in Nat /\ n <= m
      BY <1>2, <1>3
    <2> QED
      BY <2>1
  <1> QED
    BY <1>4, <1>5, <1>6, <1>7, <1>8

\* A release takes its code off the list, if it is there: the entry that was
\* matched with it and the one that list.remove finds have the same code.
LEMMA ReleasingMoves ==
    ASSUME NEW td \in Seq(Prim), td # <<>>, NEW hd \in Seq(Code),
           NEW f \in [1 .. Len(hd) -> 1 .. Len(td)], Releasing(td, hd, f),
           NEW c \in Code, Head(td) = Release(c)
    PROVE  Balanced(Tail(td), RemoveFirst(hd, c))
  <1> DEFINE tl == Tail(td)
             r == RemoveFirst(hd, c)
             m == Len(hd)
             n == Len(td)
  <1>1. /\ n \in Nat \ {0} /\ tl \in Seq(Prim) /\ Len(tl) = n - 1
        /\ Head(td) = td[1] /\ \A i \in 1 .. n - 1 : tl[i] = td[i + 1]
    BY TailFacts
  <1>2. /\ m \in Nat
        /\ \A i \in 1 .. m : f[i] \in 1 .. n
        /\ \A i, j \in 1 .. m : f[i] = f[j] => i = j
        /\ \A i \in 1 .. n : td[i].op = "release"
        /\ \A i \in 1 .. m : td[f[i]] = Release(hd[i])
    BY DEF Releasing
  <1>3. \A i \in 1 .. m : f[i] = 1 => hd[i] = c
    <2>1. \A x, y : Release(x) = Release(y) => x = y
      BY DEF Release
    <2> QED
      BY <1>1, <1>2, <2>1
  <1>0. \/ (\A i \in 1 .. m : hd[i] # c) /\ r = hd
        \/ \E k \in 1 .. m :
                /\ hd[k] = c /\ r \in Seq(Code) /\ Len(r) = m - 1
                /\ \A i \in 1 .. k - 1 : r[i] = hd[i]
                /\ \A i \in k .. m - 1 : r[i] = hd[i + 1]
    BY RemoveFirstIs
  <1>4. \A i \in 1 .. n - 1 : tl[i].op = "release"
    <2> SUFFICES ASSUME NEW i \in 1 .. n - 1 PROVE tl[i].op = "release"
      OBVIOUS
    <2>1. i + 1 \in 1 .. n
      BY <1>1
    <2> QED
      BY <1>1, <1>2, <2>1
  <1> HIDE DEF tl, r, m, n
  <1>5. CASE (\A i \in 1 .. m : hd[i] # c) /\ r = hd
    <2> DEFINE g == [i \in 1 .. m |-> f[i] - 1]
    <2>1. \A i \in 1 .. m : f[i] \in 2 .. n /\ f[i] - 1 \in 1 .. n - 1 /\ (f[i] - 1) + 1 = f[i]
      <3> SUFFICES ASSUME NEW i \in 1 .. m
                   PROVE  f[i] \in 2 .. n /\ f[i] - 1 \in 1 .. n - 1 /\ (f[i] - 1) + 1 = f[i]
        OBVIOUS
      <3>1. f[i] \in 1 .. n /\ f[i] # 1
        BY <1>2, <1>3, <1>5
      <3> QED
        BY <1>1, <3>1
    <2>2. g \in [1 .. m -> 1 .. n - 1] /\ \A i \in 1 .. m : g[i] = f[i] - 1
      BY <2>1
    <2> HIDE DEF g
    <2>3. \A i, j \in 1 .. m : g[i] = g[j] => i = j
      <3> SUFFICES ASSUME NEW i \in 1 .. m, NEW j \in 1 .. m, g[i] = g[j] PROVE i = j
        OBVIOUS
      <3>1. f[i] = f[j]
        BY <2>1, <2>2
      <3> QED
        BY <1>2, <3>1
    <2>4. ASSUME NEW i \in 1 .. m PROVE tl[g[i]] = Release(hd[i])
      <3>1. g[i] \in 1 .. n - 1 /\ g[i] + 1 = f[i]
        BY <2>1, <2>2
      <3>2. tl[g[i]] = td[f[i]]
        BY <1>1, <3>1
      <3> QED
        BY <1>2, <3>2
    <2>5. Releasing(tl, r, g) /\ g \in [1 .. Len(r) -> 1 .. Len(tl)]
      BY <1>1, <1>4, <1>5, <2>2, <2>3, <2>4 DEF Releasing, m
    <2> QED
      BY <2>5 DEF Balanced, tl, r
  <1>6. CASE \E k \in 1 .. m :
                /\ hd[k] = c /\ r \in Seq(Code) /\ Len(r) = m - 1
                /\ \A i \in 1 .. k - 1 : r[i] = hd[i]
                /\ \A i \in k .. m - 1 : r[i] = hd[i + 1]
    <2>1. PICK k \in 1 .. m :
                /\ hd[k] = c /\ r \in Seq(Code) /\ Len(r) = m - 1
                /\ \A i \in 1 .. k - 1 : r[i] = hd[i]
                /\ \A i \in k .. m - 1 : r[i] = hd[i + 1]
      BY <1>6
    <2> DEFINE e(i) == IF i < k THEN i ELSE i + 1
               h(i) == IF f[e(i)] = 1 THEN f[k] ELSE f[e(i)]
               g == [i \in 1 .. m - 1 |-> h(i) - 1]
    <2>2. /\ \A i \in 1 .. m - 1 : e(i) \in 1 .. m /\ e(i) # k
          /\ \A i, j \in 1 .. m - 1 : e(i) = e(j) => i = j
      BY <1>2
    <2>3. \A i \in 1 .. m - 1 : r[i] = hd[e(i)]
      <3> SUFFICES ASSUME NEW i \in 1 .. m - 1 PROVE r[i] = hd[e(i)]
        OBVIOUS
      <3>1. i \in 1 .. k - 1 \/ i \in k .. m - 1
        BY <1>2
      <3> QED
        BY <1>2, <2>1, <3>1
    <2> HIDE DEF e
    <2>4. \A i \in 1 .. m - 1 : h(i) \in 1 .. n /\ h(i) # 1
      BY <1>2, <2>2
    <2>5. \A i, j \in 1 .. m - 1 : h(i) = h(j) => i = j
      <3> SUFFICES ASSUME NEW i \in 1 .. m - 1, NEW j \in 1 .. m - 1, h(i) = h(j) PROVE i = j
        OBVIOUS
      <3>1. e(i) = e(j)
        BY <1>2, <2>2
      <3> QED
        BY <2>2, <3>1
    <2>6. \A i \in 1 .. m - 1 : td[h(i)] = Release(hd[e(i)])
      BY <1>2, <1>3, <2>1, <2>2
    <2> HIDE DEF h
    <2>7. \A i \in 1 .. m - 1 : h(i) - 1 \in 1 .. n - 1 /\ (h(i) - 1) + 1 = h(i)
      BY <1>1, <2>4
    <2>8. g \in [1 .. m - 1 -> 1 .. n - 1] /\ \A i \in 1 .. m - 1 : g[i] = h(i) - 1
      BY <2>7
    <2> HIDE DEF g
    <2>9. \A i, j \in 1 .. m - 1 : g[i] = g[j] => i = j
      <3> SUFFICES ASSUME NEW i \in 1 .. m - 1, NEW j \in 1 .. m - 1, g[i] = g[j] PROVE i = j
        OBVIOUS
      <3>1. h(i) = h(j)
        BY <2>7, <2>8
      <3> QED
        BY <2>5, <3>1
    <2>10. ASSUME NEW i \in 1 .. m - 1 PROVE tl[g[i]] = Release(r[i])
      <3>1. g[i] \in 1 .. n - 1 /\ g[i] + 1 = h(i)
        BY <2>7, <2>8
      <3>2. tl[g[i]] = td[h(i)]
        BY <1>1, <3>1
      <3> QED
        BY <2>3, <2>6, <3>2
    <2>11. Releasing(tl, r, g) /\ g \in [1 .. Len(r) -> 1 .. Len(tl)]
      BY <1>1, <1>4, <2>1, <2>8, <2>9, <2>10 DEF Releasing
    <2> QED
      BY <2>11 DEF Balanced, tl, r
  <1> QED
    BY <1>0, <1>5, <1>6

\* Steps of a balanced run.
LEMMA BalancedMoves ==
    ASSUME NEW td \in Seq(Prim), td # <<>>, NEW hd \in Seq(Code), Balanced(td, hd)
    PROVE  /\ Neutral(Head(td)) => Balanced(Tail(td), hd)
           /\ \A c \in Code : Head(td) = Press(c) => Balanced(Tail(td), Append(hd, c))
           /\ \A c \in Code : Head(td) = Release(c) => Balanced(Tail(td), RemoveFirst(hd, c))
  <1>1. /\ \A c, d \in Code : Press(c) = Press(d) => c = d
        /\ \A c, d : Press(c) # Release(d) /\ ~Neutral(Press(c)) /\ ~Neutral(Release(d))
    BY DEF Press, Release, Neutral
  <1>2. ASSUME NEW f \in [1 .. Len(hd) -> 1 .. Len(td)], Releasing(td, hd, f)
        PROVE  /\ ~Neutral(Head(td)) /\ \A c \in Code : Head(td) # Press(c)
               /\ \A c \in Code : Head(td) = Release(c) => Balanced(Tail(td), RemoveFirst(hd, c))
    <2>1. Head(td) = td[1] /\ 1 \in 1 .. Len(td)
      BY TailFacts
    <2>2. Head(td).op = "release"
      BY <1>2, <2>1 DEF Releasing
    <2>3. ~Neutral(Head(td)) /\ \A c \in Code : Head(td) # Press(c)
      BY <2>2 DEF Neutral, Press
    <2> QED
      BY <1>2, <2>3, ReleasingMoves
  <1>3. CASE \E s \in Seq(Code), q, n, p \in Nat : Pressing(td, hd, s, q, n, p)
    <2>1. \/ Neutral(Head(td)) /\ Balanced(Tail(td), hd)
          \/ \E c \in Code : Head(td) = Press(c) /\ Balanced(Tail(td), Append(hd, c))
          \/ \E f \in [1 .. Len(hd) -> 1 .. Len(td)] : Releasing(td, hd, f)
      BY <1>3, PressingMoves
    <2> QED
      BY <1>1, <1>2, <2>1
  <1> QED
    BY <1>2, <1>3 DEF Balanced

\* The places of a concatenation are those of its first part, then those of
\* its second.
LEMMA ConcatSplits ==
    ASSUME NEW S, NEW s \in Seq(S), NEW t \in Seq(S)
    PROVE  /\ s \o t \in Seq(S) /\ Len(s) \in Nat /\ Len(t) \in Nat
           /\ Len(s \o t) = Len(s) + Len(t)
           /\ \A i \in 1 .. Len(s) : (s \o t)[i] = s[i]
           /\ \A i \in 1 .. Len(t) : (s \o t)[Len(s) + i] = t[i]
  <1> DEFINE m == Len(s)
             n == Len(t)
             st == s \o t
  <1>1. /\ m \in Nat /\ n \in Nat /\ st \in Seq(S) /\ Len(st) = m + n
        /\ \A i \in 1 .. m + n : st[i] = IF i <= m THEN s[i] ELSE t[i - m]
    BY ConcatProperties
  <1> HIDE DEF m, n, st
  <1>2. \A i \in 1 .. m : i \in 1 .. m + n /\ i <= m
    BY <1>1
  <1>3. \A i \in 1 .. n : m + i \in 1 .. m + n /\ ~(m + i <= m) /\ (m + i) - m = i
    BY <1>1
  <1>4. /\ \A i \in 1 .. m : st[i] = s[i]
        /\ \A i \in 1 .. n : st[m + i] = t[i]
    BY <1>1, <1>2, <1>3
  <1> QED
    BY <1>1, <1>4 DEF m, n, st

\* What an action that is not a bare press is compiled to is balanced.
LEMMA BalancedPerform ==
    ASSUME NEW a \in Action, a.type \notin {"key_press", "button_press"}
    PROVE  Balanced(Perform(a), <<>>)
  <1>1. a.codes \in Seq(Code) /\ a.hold \in BOOLEAN
    BY DEF Action
  <1>2. Neutral(Sleep) /\ Neutral([op |-> "emit"]) /\ Neutral([op |-> "launch"])
    BY DEF Neutral, Sleep
  <1>3. Len(<<>>) = 0 /\ <<>> \in Seq(Code) /\ 1 .. 0 = {}
    OBVIOUS
  <1>4. ASSUME NEW td, Len(td) \in {0, 1}, \A i \in 1 .. Len(td) : Neutral(td[i])
        PROVE  Balanced(td, <<>>)
    <2>1. Pressing(td, <<>>, <<>>, Len(td), 0, 0)
      BY <1>3, <1>4 DEF Pressing
    <2> QED
      BY <1>3, <1>4, <2>1 DEF Balanced
  <1>5. Balanced(<<>>, <<>>) /\ Balanced(<<[op |-> "emit"]>>, <<>>)
        /\ Balanced(<<[op |-> "launch"]>>, <<>>) /\ Balanced(Pause(a.hold), <<>>)
    BY <1>1, <1>2, <1>4 DEF Pause
  <1>6. Balanced(Releases(a.codes), <<>>)
    <2> DEFINE td == Releases(a.codes)
               f == [i \in 1 .. Len(<<>>) |-> i]
    <2>1. DOMAIN td = 1 .. Len(a.codes) /\ \A i \in 1 .. Len(a.codes) : td[i] = Release(a.codes[i])
      BY <1>1 DEF Releases
    <2>2. td \in Seq(Prim) /\ Len(td) = Len(a.codes)
      <3>1. \A i \in 1 .. Len(a.codes) : Release(a.codes[i]) \in Prim
        BY <1>1 DEF Release, Prim
      <3> QED
        BY <1>1, <3>1, IsASeq DEF Releases
    <2>3. \A i \in 1 .. Len(td) : td[i].op = "release"
      <3>1. \A x : Release(x).op = "release"
        BY DEF Release
      <3> HIDE DEF td
      <3> QED
        BY <2>1, <2>2, <3>1
    <2> HIDE DEF td
    <2>4. f \in [1 .. Len(<<>>) -> 1 .. Len(td)] /\ Releasing(td, <<>>, f)
      BY <1>3, <2>3 DEF Releasing
    <2> QED
      BY <2>4 DEF Balanced, td
  <1>7. ASSUME NEW s \in Seq(Code), NEW hold \in BOOLEAN
        PROVE  /\ Chord(s, hold) \in Seq(Prim)
               /\ \E p \in Nat : Pressing(Chord(s, hold), <<>>, s, 0, 0, p)
    <2> DEFINE u == Presses(s)
               v == Pause(hold)
               w == Releases(Reverse(s))
               m == Len(s)
    <2>1. m \in Nat /\ DOMAIN s = 1 .. m /\ (\A i \in 1 .. m : s[i] \in Code) /\ (m = 0 => s = <<>>)
      BY EmptySeq
    <2>2. Reverse(s) = [i \in 1 .. m |-> s[(m - i) + 1]]
      BY DEF Reverse
    <2> HIDE DEF m
    <2>3. \A i \in 1 .. m : (m - i) + 1 \in 1 .. m
      BY <2>1
    <2>4. DOMAIN Reverse(s) = 1 .. m /\ \A i \in 1 .. m : Reverse(s)[i] = s[(m - i) + 1]
      BY <2>2, <2>3
    <2>5. (\A i \in 1 .. m : u[i] = Press(s[i])) /\ u \in Seq(Prim) /\ Len(u) = m
      <3>1. u = [i \in 1 .. m |-> Press(s[i])]
        BY <2>1 DEF Presses
      <3>2. \A i \in 1 .. m : Press(s[i]) \in Prim
        BY <2>1 DEF Press, Prim
      <3> QED
        BY <2>1, <3>1, <3>2, IsASeq
    <2>6. (\A i \in 1 .. m : w[i] = Release(s[(m - i) + 1])) /\ w \in Seq(Prim) /\ Len(w) = m
      <3>1. w = [i \in 1 .. m |-> Release(Reverse(s)[i])]
        BY <2>4 DEF Releases
      <3>2. \A i \in 1 .. m : Release(Reverse(s)[i]) \in Prim
        BY <2>1, <2>3, <2>4 DEF Release, Prim
      <3> QED
        BY <2>1, <2>4, <3>1, <3>2, IsASeq
    <2>7. v \in Seq(Prim) /\ Len(v) \in Nat /\ \A i \in 1 .. Len(v) : Neutral(v[i])
      <3>1. Sleep \in Prim
        BY DEF Sleep, Prim
      <3>2. <<Sleep>> \in Seq(Prim) /\ Len(<<Sleep>>) = 1 /\ <<Sleep>>[1] = Sleep
        BY <3>1
      <3>3. CASE hold
        <4>1. v = <<Sleep>>
          BY <3>3 DEF Pause
        <4> HIDE DEF v
        <4>2. \A i \in 1 .. Len(v) : i = 1
          BY <3>2, <4>1
        <4> QED
          BY <1>2, <3>2, <4>1, <4>2
      <3>4. CASE ~hold
        <4>1. v = <<>>
          BY <3>4 DEF Pause
        <4> HIDE DEF v
        <4> QED
          BY <1>3, <4>1
      <3> QED
        BY <3>3, <3>4
    <2>8. CASE s = <<>>
      <3>1. Chord(s, hold) = <<>>
        BY <2>8 DEF Chord
      <3>2. Pressing(<<>>, <<>>, <<>>, 0, 0, 0)
        BY <1>3 DEF Pressing
      <3>3. <<>> \in Seq(Prim) /\ 0 \in Nat
        OBVIOUS
      <3> QED
        BY <2>8, <3>1, <3>2, <3>3
    <2>9. CASE s # <<>>
      <3>1. Chord(s, hold) = (u \o v) \o w
        BY <2>9 DEF Chord
      <3> DEFINE p == Len(v)
                 x == u \o v
                 td == x \o w
      <3>2. p \in Nat
        BY <2>7
      <3> HIDE DEF u, v, w, p
      <3>3. /\ x \in Seq(Prim) /\ Len(x) = m + p
            /\ \A i \in 1 .. m : x[i] = u[i]
            /\ \A i \in 1 .. p : x[m + i] = v[i]
        <4>1. u \in Seq(Prim) /\ v \in Seq(Prim)
          BY <2>5, <2>7
        <4>2. /\ u \o v \in Seq(Prim) /\ Len(u \o v) = Len(u) + Len(v)
              /\ Len(u) \in Nat /\ Len(v) \in Nat
              /\ \A i \in 1 .. Len(u) : (u \o v)[i] = u[i]
              /\ \A i \in 1 .. Len(v) : (u \o v)[Len(u) + i] = v[i]
          BY <4>1, ConcatSplits
        <4> QED
          BY <4>2, <2>5, <2>7 DEF p
      <3> HIDE DEF x
      <3>4. /\ td \in Seq(Prim) /\ Len(td) = (m + p) + m
            /\ \A i \in 1 .. m + p : td[i] = x[i]
            /\ \A i \in 1 .. m : td[(m + p) + i] = w[i]
        <4>1. x \in Seq(Prim) /\ w \in Seq(Prim)
          BY <2>6, <3>3
        <4>2. /\ x \o w \in Seq(Prim) /\ Len(x \o w) = Len(x) + Len(w)
              /\ Len(x) \in Nat /\ Len(w) \in Nat
              /\ \A i \in 1 .. Len(x) : (x \o w)[i] = x[i]
              /\ \A i \in 1 .. Len(w) : (x \o w)[Len(x) + i] = w[i]
          BY <4>1, ConcatSplits
        <4> QED
          BY <4>2, <2>6, <3>3
      <3> HIDE DEF td
      <3>5. \A i \in 1 .. m : td[i] = Press(s[i])
        BY <2>1, <2>5, <3>2, <3>3, <3>4
      <3>6. \A i \in 1 .. p : Neutral(td[m + i])
        <4> SUFFICES ASSUME NEW i \in 1 .. p PROVE Neutral(td[m + i])
          OBVIOUS
        <4>1. m + i \in 1 .. m + p
          BY <2>1, <3>2
        <4> QED
          BY <2>7, <3>3, <3>4, <4>1 DEF p
      <3>7. /\ \A i \in 1 .. m - 0 : 0 + i = i
            /\ \A i \in 1 .. p : (0 + (m - 0)) + i = m + i
            /\ \A i \in 1 .. m : (0 + (m - 0)) + (p + i) = (m + p) + i
            /\ (0 + (m - 0)) + (p + m) = (m + p) + m /\ m - 0 = m /\ 0 <= m /\ ~(0 > 0)
        BY <2>1, <3>2
      <3>8. Pressing(td, <<>>, s, 0, 0, p)
        BY <1>3, <2>6, <3>4, <3>5, <3>6, <3>7 DEF Pressing, m
      <3> QED
        BY <3>1, <3>2, <3>4, <3>8 DEF td, x
    <2> QED
      BY <2>8, <2>9
  <1>8. ASSUME NEW s \in Seq(Code), NEW hold \in BOOLEAN
        PROVE  /\ Balanced(Chord(s, hold), <<>>)
               /\ Balanced(<<[op |-> "emit"], Sleep>> \o Chord(s, hold), <<>>)
    <2> DEFINE aim == <<[op |-> "emit"], Sleep>>
               ch == Chord(s, hold)
               td == aim \o ch
               m == Len(s)
    <2>1. ch \in Seq(Prim) /\ \E p \in Nat : Pressing(ch, <<>>, s, 0, 0, p)
      BY <1>7
    <2>2. PICK p \in Nat : Pressing(ch, <<>>, s, 0, 0, p)
      BY <2>1
    <2>3. m \in Nat
      OBVIOUS
    <2>4. aim \in Seq(Prim) /\ Len(aim) = 2 /\ Neutral(aim[1]) /\ Neutral(aim[2])
      <3>1. Sleep \in Prim /\ [op |-> "emit"] \in Prim
        BY DEF Sleep, Prim
      <3> QED
        BY <1>2, <3>1
    <2> HIDE DEF aim, ch, m
    <2>5. /\ Len(ch) = (0 + (m - 0)) + (p + m)
          /\ \A i \in 1 .. m - 0 : ch[0 + i] = Press(s[0 + i])
          /\ \A i \in 1 .. p : Neutral(ch[(0 + (m - 0)) + i])
          /\ \A i \in 1 .. m : ch[(0 + (m - 0)) + (p + i)] = Release(s[(m - i) + 1])
      BY <2>2 DEF Pressing, m
    <2>6. Len(ch) \in Nat /\ Len(td) = 2 + Len(ch) /\ (\A i \in 1 .. 2 : td[i] = aim[i])
          /\ \A i \in 1 .. Len(ch) : td[2 + i] = ch[i]
      <3>1. aim \in Seq(Prim) /\ ch \in Seq(Prim)
        BY <2>1, <2>4
      <3>2. /\ aim \o ch \in Seq(Prim) /\ Len(aim \o ch) = Len(aim) + Len(ch)
            /\ Len(aim) \in Nat /\ Len(ch) \in Nat
            /\ \A i \in 1 .. Len(aim) : (aim \o ch)[i] = aim[i]
            /\ \A i \in 1 .. Len(ch) : (aim \o ch)[Len(aim) + i] = ch[i]
        BY <3>1, ConcatSplits
      <3> QED
        BY <3>2, <2>1, <2>4
    <2> HIDE DEF td
    <2>7. \A i \in 1 .. 2 : Neutral(td[i])
      BY <2>4, <2>6
    <2>8. \A i \in 1 .. m - 0 : td[2 + i] = Press(s[0 + i])
      <3> SUFFICES ASSUME NEW i \in 1 .. m - 0 PROVE td[2 + i] = Press(s[0 + i])
        OBVIOUS
      <3>1. i \in 1 .. Len(ch) /\ 0 + i = i
        BY <2>3, <2>5
      <3> QED
        BY <2>5, <2>6, <3>1
    <2>9. \A i \in 1 .. p : Neutral(td[(2 + (m - 0)) + i])
      <3> SUFFICES ASSUME NEW i \in 1 .. p PROVE Neutral(td[(2 + (m - 0)) + i])
        OBVIOUS
      <3>1. /\ (0 + (m - 0)) + i \in 1 .. Len(ch)
            /\ 2 + ((0 + (m - 0)) + i) = (2 + (m - 0)) + i
        BY <2>3, <2>5
      <3> QED
        BY <2>5, <2>6, <3>1
    <2>10. \A i \in 1 .. m : td[(2 + (m - 0)) + (p + i)] = Release(s[(m - i) + 1])
      <3> SUFFICES ASSUME NEW i \in 1 .. m
                   PROVE  td[(2 + (m - 0)) + (p + i)] = Release(s[(m - i) + 1])
        OBVIOUS
      <3>1. /\ (0 + (m - 0)) + (p + i) \in 1 .. Len(ch)
            /\ 2 + ((0 + (m - 0)) + (p + i)) = (2 + (m - 0)) + (p + i)
        BY <2>3, <2>5
      <3> QED
        BY <2>5, <2>6, <3>1
    <2>11. Len(td) = (2 + (m - 0)) + (p + m) /\ 0 <= m
      BY <2>3, <2>5, <2>6
    <2>12. Pressing(td, <<>>, s, 2, 0, p)
      BY <1>3, <2>7, <2>8, <2>9, <2>10, <2>11 DEF Pressing, m
    <2>13. Balanced(td, <<>>) /\ Balanced(ch, <<>>)
      BY <2>2, <2>12 DEF Balanced
    <2> QED
      BY <2>13 DEF td, aim, ch
  <1>9. a.type \in ActionType
    BY DEF Action
  <1> QED
    BY <1>1, <1>5, <1>6, <1>8, <1>9 DEF Perform, ActionType

\* A macro that never leaves a code pressed from one action to the next.
NoBarePress(m) ==
    \A i \in DOMAIN Actions[m] : Actions[m][i].type \notin {"key_press", "button_press"}

\* A run at place p of macro m, with the steps td left and holding hd.
BalancedAt(p, m, td, hd) ==
    /\ p \in {"fresh", "created"} => td = <<>> /\ hd = <<>>
    /\ NoBarePress(m) => /\ p \in {"loop", "gap"} => td = <<>> /\ hd = <<>>
                         /\ p = "play" => Balanced(td, hd)

BalancedInv == \A h \in Handle : BalancedAt(pc[h], macro[h], todo[h], held[h])

LEMMA NothingToDo == Balanced(<<>>, <<>>)
  <1> DEFINE f == [i \in 1 .. Len(<<>>) |-> i]
  <1>1. Len(<<>>) = 0 /\ 1 .. 0 = {}
    OBVIOUS
  <1>2. f \in [1 .. Len(<<>>) -> 1 .. Len(<<>>)] /\ Releasing(<<>>, <<>>, f)
    BY <1>1 DEF Releasing
  <1> QED
    BY <1>2 DEF Balanced

LEMMA BalancedInit == Init => BalancedInv
  BY DEF Init, BalancedInv, BalancedAt

\* A step that touches one handle is judged by that handle alone.
LEMMA BalancedOne ==
    ASSUME TypeOK, BalancedInv, NEW h \in Handle,
           NEW p, NEW td, NEW hd, NEW m,
           pc' = [pc EXCEPT ![h] = p], todo' = [todo EXCEPT ![h] = td],
           held' = [held EXCEPT ![h] = hd], macro' = [macro EXCEPT ![h] = m],
           BalancedAt(p, m, td, hd)
    PROVE  BalancedInv'
  <1> SUFFICES ASSUME NEW k \in Handle PROVE BalancedAt(pc'[k], macro'[k], todo'[k], held'[k])
    BY DEF BalancedInv
  <1>1. CASE k = h
    <2>1. pc'[k] = p /\ macro'[k] = m /\ todo'[k] = td /\ held'[k] = hd
      BY <1>1 DEF TypeOK
    <2> QED
      BY <2>1
  <1>2. CASE k # h
    <2>1. pc'[k] = pc[k] /\ macro'[k] = macro[k] /\ todo'[k] = todo[k] /\ held'[k] = held[k]
      BY <1>2 DEF TypeOK
    <2> QED
      BY <2>1 DEF BalancedInv
  <1> QED
    BY <1>1, <1>2

LEMMA BalancedThread ==
    ASSUME TypeOK, BalancedInv, NEW h \in Handle, ThreadStep(h) \/ WakeByClock(h)
    PROVE  BalancedInv'
  <1>1. /\ todo[h] \in Seq(Prim) /\ held[h] \in Seq(Code) /\ macro[h] \in Macro
        /\ (pc' = [pc EXCEPT ![h] = pc[h]] <=> pc' = pc)
        /\ (todo' = [todo EXCEPT ![h] = todo[h]] <=> todo' = todo)
        /\ (held' = [held EXCEPT ![h] = held[h]] <=> held' = held)
        /\ (macro' = [macro EXCEPT ![h] = macro[h]] <=> macro' = macro)
    BY DEF TypeOK
  <1>2. BalancedAt(pc[h], macro[h], todo[h], held[h])
    BY DEF BalancedInv
  <1>3. CASE LoopHead(h)
    <2>1. \/ pc' = [pc EXCEPT ![h] = "cleanup"]
          \/ pc' = [pc EXCEPT ![h] = "play"]
      BY <1>3 DEF LoopHead
    <2>2. pc[h] = "loop" /\ UNCHANGED <<macro, todo, held>>
      BY <1>3 DEF LoopHead
    <2>3. /\ BalancedAt("cleanup", macro[h], todo[h], held[h])
          /\ BalancedAt("play", macro[h], todo[h], held[h])
      BY <1>2, <2>2, NothingToDo DEF BalancedAt
    <2> QED
      BY <1>1, <2>1, <2>2, <2>3, BalancedOne
  <1>4. CASE BeginAction(h)
    <2> DEFINE acts == Actions[macro[h]]
               a == acts[idx[h]]
               td == IF a.enabled THEN Perform(a) ELSE <<>>
    <2>1. /\ pc[h] = "play" /\ todo[h] = <<>> /\ todo' = [todo EXCEPT ![h] = td]
          /\ UNCHANGED <<pc, macro, held>>
      BY <1>4 DEF BeginAction
    <2>2. acts \in Seq(Action) /\ idx[h] \in 1 .. Len(acts)
      BY <1>1, <1>4, PlaybackAssumption DEF BeginAction, TypeOK
    <2>3. a \in Action /\ idx[h] \in DOMAIN acts
      BY <2>2, ElementOfSeq
    <2>4. ASSUME NoBarePress(macro[h]) PROVE Balanced(td, held[h])
      <3>1. held[h] = <<>>
        BY <1>1, <1>2, <2>1, <2>4, BalancedDone DEF BalancedAt
      <3>2. a.type \notin {"key_press", "button_press"}
        BY <2>3, <2>4 DEF NoBarePress
      <3>3. Balanced(Perform(a), <<>>)
        BY <2>3, <3>2, BalancedPerform
      <3> QED
        BY <3>1, <3>3, NothingToDo
    <2> HIDE DEF td
    <2>5. BalancedAt(pc[h], macro[h], td, held[h])
      BY <2>1, <2>4 DEF BalancedAt
    <2>6. /\ pc' = [pc EXCEPT ![h] = pc[h]] /\ todo' = [todo EXCEPT ![h] = td]
          /\ held' = [held EXCEPT ![h] = held[h]] /\ macro' = [macro EXCEPT ![h] = macro[h]]
      BY <1>1, <2>1
    <2> QED
      BY <2>6, <2>5, BalancedOne
  <1>5. CASE EndPass(h)
    <2>1. /\ pc[h] = "play" /\ todo[h] = <<>> /\ UNCHANGED <<macro, todo, held>>
          /\ \/ pc' = [pc EXCEPT ![h] = "gap"]
             \/ pc' = [pc EXCEPT ![h] = "loop"]
      BY <1>5 DEF EndPass
    <2>2. NoBarePress(macro[h]) => held[h] = <<>>
      BY <1>1, <1>2, <2>1, BalancedDone DEF BalancedAt
    <2>3. /\ BalancedAt("gap", macro[h], todo[h], held[h])
          /\ BalancedAt("loop", macro[h], todo[h], held[h])
      BY <2>1, <2>2 DEF BalancedAt
    <2> QED
      BY <1>1, <2>1, <2>3, BalancedOne
  <1>6. ASSUME NEW c \in Code, PressKey(h, c) PROVE BalancedInv'
    <2>1. /\ pc[h] = "play" /\ todo[h] # <<>> /\ Head(todo[h]) = Press(c)
          /\ todo' = [todo EXCEPT ![h] = Tail(todo[h])]
          /\ held' = [held EXCEPT ![h] = Append(held[h], c)] /\ UNCHANGED <<pc, macro>>
      BY <1>6 DEF PressKey, At
    <2>2. BalancedAt(pc[h], macro[h], Tail(todo[h]), Append(held[h], c))
      BY <1>1, <1>2, <2>1, BalancedMoves DEF BalancedAt
    <2>3. /\ pc' = [pc EXCEPT ![h] = pc[h]] /\ todo' = [todo EXCEPT ![h] = Tail(todo[h])]
          /\ held' = [held EXCEPT ![h] = Append(held[h], c)] /\ macro' = [macro EXCEPT ![h] = macro[h]]
      BY <1>1, <2>1
    <2> QED
      BY <2>3, <2>2, BalancedOne
  <1>7. ASSUME NEW c \in Code, ReleaseKey(h, c) PROVE BalancedInv'
    <2>1. /\ pc[h] = "play" /\ todo[h] # <<>> /\ Head(todo[h]) = Release(c)
          /\ todo' = [todo EXCEPT ![h] = Tail(todo[h])]
          /\ held' = [held EXCEPT ![h] = RemoveFirst(held[h], c)] /\ UNCHANGED <<pc, macro>>
      BY <1>7 DEF ReleaseKey, At
    <2>2. BalancedAt(pc[h], macro[h], Tail(todo[h]), RemoveFirst(held[h], c))
      BY <1>1, <1>2, <2>1, BalancedMoves DEF BalancedAt
    <2>3. /\ pc' = [pc EXCEPT ![h] = pc[h]] /\ todo' = [todo EXCEPT ![h] = Tail(todo[h])]
          /\ held' = [held EXCEPT ![h] = RemoveFirst(held[h], c)] /\ macro' = [macro EXCEPT ![h] = macro[h]]
      BY <1>1, <2>1
    <2> QED
      BY <2>3, <2>2, BalancedOne
  <1>8. CASE Emit(h) \/ (Wake(h) /\ pc[h] # "gap")
    <2>1. /\ pc[h] = "play" /\ todo[h] # <<>> /\ Neutral(Head(todo[h]))
          /\ todo' = [todo EXCEPT ![h] = Tail(todo[h])] /\ UNCHANGED <<pc, macro, held>>
      BY <1>8 DEF Emit, Wake, Sleeping, Neutral, Sleep
    <2>2. BalancedAt(pc[h], macro[h], Tail(todo[h]), held[h])
      BY <1>1, <1>2, <2>1, BalancedMoves DEF BalancedAt
    <2>3. /\ pc' = [pc EXCEPT ![h] = pc[h]] /\ todo' = [todo EXCEPT ![h] = Tail(todo[h])]
          /\ held' = [held EXCEPT ![h] = held[h]] /\ macro' = [macro EXCEPT ![h] = macro[h]]
      BY <1>1, <2>1
    <2> QED
      BY <2>3, <2>2, BalancedOne
  <1>9. CASE Wake(h) /\ pc[h] = "gap"
    <2>1. pc' = [pc EXCEPT ![h] = "loop"] /\ UNCHANGED <<macro, todo, held>>
      BY <1>9 DEF Wake
    <2>2. BalancedAt("loop", macro[h], todo[h], held[h])
      BY <1>2, <1>9 DEF BalancedAt
    <2>3. /\ pc' = [pc EXCEPT ![h] = "loop"] /\ todo' = [todo EXCEPT ![h] = todo[h]]
          /\ held' = [held EXCEPT ![h] = held[h]] /\ macro' = [macro EXCEPT ![h] = macro[h]]
      BY <1>1, <2>1
    <2> QED
      BY <2>3, <2>2, BalancedOne
  <1>10. CASE Raise(h)
    <2>1. /\ pc' = [pc EXCEPT ![h] = "cleanup"] /\ todo' = [todo EXCEPT ![h] = <<>>]
          /\ UNCHANGED <<macro, held>>
      BY <1>10 DEF Raise
    <2>2. BalancedAt("cleanup", macro[h], <<>>, held[h])
      BY DEF BalancedAt
    <2> QED
      BY <1>1, <2>1, <2>2, BalancedOne
  <1>11. CASE ReleaseHeld(h)
    <2>1. /\ pc[h] = "cleanup" /\ held' = [held EXCEPT ![h] = Front(held[h])]
          /\ UNCHANGED <<pc, macro, todo>>
      BY <1>11 DEF ReleaseHeld
    <2>2. BalancedAt(pc[h], macro[h], todo[h], Front(held[h]))
      BY <2>1 DEF BalancedAt
    <2>3. /\ pc' = [pc EXCEPT ![h] = pc[h]] /\ todo' = [todo EXCEPT ![h] = todo[h]]
          /\ held' = [held EXCEPT ![h] = Front(held[h])] /\ macro' = [macro EXCEPT ![h] = macro[h]]
      BY <1>1, <2>1
    <2> QED
      BY <2>3, <2>2, BalancedOne
  <1>12. ASSUME NEW p \in {"finish", "exit", "dead"}, pc' = [pc EXCEPT ![h] = p],
                UNCHANGED <<macro, todo, held>>
         PROVE  BalancedInv'
    <2>1. /\ pc' = [pc EXCEPT ![h] = p] /\ todo' = [todo EXCEPT ![h] = todo[h]]
          /\ held' = [held EXCEPT ![h] = held[h]] /\ macro' = [macro EXCEPT ![h] = macro[h]]
      BY <1>1, <1>12
    <2>2. BalancedAt(p, macro[h], todo[h], held[h])
      BY DEF BalancedAt
    <2> QED
      BY <2>1, <2>2, BalancedOne
  <1>13. CASE EndCleanup(h) \/ Finish(h) \/ Exit(h)
    <2>1. /\ UNCHANGED <<macro, todo, held>>
          /\ \E p \in {"finish", "exit", "dead"} : pc' = [pc EXCEPT ![h] = p]
      BY <1>13 DEF EndCleanup, Finish, Exit
    <2> QED
      BY <1>12, <2>1
  <1> QED
    BY <1>3, <1>4, <1>5, <1>6, <1>7, <1>8, <1>9, <1>10, <1>11, <1>13
    DEF ThreadStep, WakeByStop, WakeByClock

LEMMA BalancedEnvironment ==
    ASSUME TypeOK, BalancedInv, Environment
    PROVE  BalancedInv'
  <1>1. ASSUME NEW h \in Handle, NEW m \in Macro, NEW n \in Iterations, Create(h, m, n)
        PROVE  BalancedInv'
    <2>1. /\ pc[h] = "fresh" /\ pc' = [pc EXCEPT ![h] = "created"]
          /\ macro' = [macro EXCEPT ![h] = m] /\ UNCHANGED <<todo, held>>
      BY <1>1 DEF Create
    <2>2. BalancedAt("created", m, todo[h], held[h])
      BY <2>1 DEF BalancedInv, BalancedAt
    <2>3. todo' = [todo EXCEPT ![h] = todo[h]] /\ held' = [held EXCEPT ![h] = held[h]]
      BY <2>1 DEF TypeOK
    <2> QED
      BY <2>1, <2>2, <2>3, BalancedOne
  <1>2. ASSUME NEW h \in Handle, StartThread(h) PROVE BalancedInv'
    <2>1. /\ pc[h] = "created" /\ pc' = [pc EXCEPT ![h] = "loop"]
          /\ UNCHANGED <<macro, todo, held>>
      BY <1>2 DEF StartThread
    <2>2. BalancedAt("loop", macro[h], todo[h], held[h])
      BY <2>1 DEF BalancedInv, BalancedAt
    <2>3. /\ todo' = [todo EXCEPT ![h] = todo[h]] /\ held' = [held EXCEPT ![h] = held[h]]
          /\ macro' = [macro EXCEPT ![h] = macro[h]]
      BY <2>1 DEF TypeOK
    <2>4. /\ pc' = [pc EXCEPT ![h] = "loop"] /\ todo' = [todo EXCEPT ![h] = todo[h]]
          /\ held' = [held EXCEPT ![h] = held[h]] /\ macro' = [macro EXCEPT ![h] = macro[h]]
      BY <2>1, <2>3
    <2> QED
      BY <2>4, <2>2, BalancedOne
  <1>3. ASSUME UNCHANGED <<pc, macro, todo, held>> PROVE BalancedInv'
    BY <1>3 DEF BalancedInv
  <1>4. UNCHANGED runVars => UNCHANGED <<pc, macro, todo, held>>
    BY DEF runVars
  <1>5. ASSUME NEW h \in Handle, Stop(h) PROVE UNCHANGED <<pc, macro, todo, held>>
    BY <1>5 DEF Stop
  <1> QED
    BY <1>1, <1>2, <1>3, <1>4, <1>5 DEF Environment

\* Taps, clicks and combinations are balanced: between two actions a macro
\* without a bare press holds nothing.
THEOREM CombinationsAreBalanced == Safety => []BalancedActions
  <1>1. TypeOK /\ BalancedInv /\ [Next]_vars => BalancedInv'
    <2>1. CASE UNCHANGED vars
      BY <2>1 DEF vars, BalancedInv
    <2> QED
      BY <2>1, BalancedThread, BalancedEnvironment DEF Next
  <1>2. TypeOK /\ BalancedInv => BalancedActions
    <2> SUFFICES ASSUME TypeOK, BalancedInv, NEW h \in Handle, pc[h] = "play",
                        todo[h] = <<>>, NoBarePress(macro[h])
                 PROVE  held[h] = <<>>
      BY DEF BalancedActions, NoBarePress
    <2>1. Balanced(<<>>, held[h])
      BY DEF BalancedInv, BalancedAt
    <2>2. held[h] \in Seq(Code)
      BY DEF TypeOK
    <2> QED
      BY <2>1, <2>2, BalancedDone
  <1> QED
    BY <1>1, <1>2, BalancedInit, TypeCorrect, PTL DEF Safety
=============================================================================
