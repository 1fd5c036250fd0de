------------------------- MODULE EvdevSourceProofs -------------------------
(***************************************************************************)
(* Proofs about module EvdevSource, for any devices, codes and suppression *)
(* maps, and any number of key changes, pluggings, new maps and faults.    *)
(***************************************************************************)
EXTENDS EvdevSource, SequenceTheorems, TLAPS

-----------------------------------------------------------------------------
(* Events that are on their way.                                           *)

\* The events of s, in their order, make of the keys in from the keys in to:
\* the last one about a code says what becomes of it.
Explains(s, from, to) ==
    \A c \in Code :
        \/ /\ \A i \in 1 .. Len(s) : s[i].code # c
           /\ c \in from <=> c \in to
        \/ \E i \in 1 .. Len(s) :
            /\ s[i].code = c /\ (s[i].down <=> c \in to)
            /\ \A j \in 1 .. Len(s) : j > i => s[j].code # c

(* No events explain that nothing has changed, and nothing else. *)
LEMMA NoneExplain ==
    ASSUME NEW A \in SUBSET Code, NEW B \in SUBSET Code
    PROVE  Explains(<<>>, A, B) <=> A = B
  <1>1. 1 .. Len(<<>>) = {}
    BY EmptySeq
  <1> QED
    BY <1>1 DEF Explains

(* A further event explains one change more. *)
LEMMA AppendExplains ==
    ASSUME NEW s \in Seq(Event), NEW e \in Event, NEW A \in SUBSET Code, NEW B \in SUBSET Code,
           Explains(s, A, B)
    PROVE  Explains(Append(s, e), A, With(B, e))
  <1> DEFINE r == Append(s, e)
  <1>1. /\ r \in Seq(Event) /\ Len(r) = Len(s) + 1 /\ Len(s) \in Nat
        /\ r[Len(s) + 1] = e
        /\ \A i \in 1 .. Len(s) : r[i] = s[i]
    BY AppendProperties, LenProperties
  <1> HIDE DEF r
  <1>2. ASSUME NEW c \in Code, c # e.code
        PROVE  \/ /\ \A i \in 1 .. Len(r) : r[i].code # c
                  /\ c \in A <=> c \in With(B, e)
               \/ \E i \in 1 .. Len(r) :
                   /\ r[i].code = c /\ (r[i].down <=> c \in With(B, e))
                   /\ \A j \in 1 .. Len(r) : j > i => r[j].code # c
    <2>1. c \in With(B, e) <=> c \in B
      BY <1>2 DEF With
    <2>2. \A j \in 1 .. Len(r) : j \in 1 .. Len(s) \/ r[j] = e
      BY <1>1
    <2>3. CASE (\A i \in 1 .. Len(s) : s[i].code # c) /\ (c \in A <=> c \in B)
      BY <1>1, <1>2, <2>1, <2>2, <2>3
    <2>4. ASSUME NEW i \in 1 .. Len(s), s[i].code = c, s[i].down <=> c \in B,
                 \A j \in 1 .. Len(s) : j > i => s[j].code # c
          PROVE  /\ i \in 1 .. Len(r)
                 /\ r[i].code = c /\ (r[i].down <=> c \in With(B, e))
                 /\ \A j \in 1 .. Len(r) : j > i => r[j].code # c
      BY <1>1, <1>2, <2>1, <2>2, <2>4
    <2> QED
      BY <2>3, <2>4 DEF Explains
  <1>3. ASSUME NEW c \in Code, c = e.code
        PROVE  \E i \in 1 .. Len(r) :
                   /\ r[i].code = c /\ (r[i].down <=> c \in With(B, e))
                   /\ \A j \in 1 .. Len(r) : j > i => r[j].code # c
    <2>1. e.down \in BOOLEAN /\ (c \in With(B, e) <=> e.down)
      BY <1>3 DEF With, Event
    <2>2. Len(s) + 1 \in 1 .. Len(r) /\ \A j \in 1 .. Len(r) : ~(j > Len(s) + 1)
      BY <1>1
    <2> QED
      BY <1>1, <1>3, <2>1, <2>2
  <1> QED
    BY <1>2, <1>3 DEF Explains, r

(* What is left explains what has happened since the first event. *)
LEMMA TailExplains ==
    ASSUME NEW s \in Seq(Event), s # <<>>, NEW A \in SUBSET Code, NEW B \in SUBSET Code,
           Explains(s, A, B)
    PROVE  Head(s) \in Event /\ Tail(s) \in Seq(Event) /\ Explains(Tail(s), With(A, Head(s)), B)
  <1> DEFINE r == Tail(s)
             e == Head(s)
  <1>1. /\ Len(s) \in Nat /\ Len(s) > 0
        /\ e = s[1] /\ e \in Event
        /\ r \in Seq(Event) /\ Len(r) = Len(s) - 1
        /\ \A i \in 1 .. Len(r) : r[i] = s[i + 1]
    BY HeadTailProperties, EmptySeq, LenProperties
  <1> HIDE DEF r, e
  <1>2. \A i \in 1 .. Len(s) : i = 1 \/ (i - 1 \in 1 .. Len(r) /\ r[i - 1] = s[i])
    BY <1>1
  <1>3. \A i \in 1 .. Len(r) : i + 1 \in 1 .. Len(s) /\ i + 1 > 1 /\ r[i] = s[i + 1]
    BY <1>1
  <1>4. ASSUME NEW c \in Code,
               NEW i \in 1 .. Len(s), s[i].code = c, s[i].down <=> c \in B,
               \A j \in 1 .. Len(s) : j > i => s[j].code # c
        PROVE  \/ /\ \A k \in 1 .. Len(r) : r[k].code # c
                  /\ c \in With(A, e) <=> c \in B
               \/ \E k \in 1 .. Len(r) :
                   /\ r[k].code = c /\ (r[k].down <=> c \in B)
                   /\ \A j \in 1 .. Len(r) : j > k => r[j].code # c
    <2>1. CASE i = 1
      <3>1. \A k \in 1 .. Len(r) : r[k].code # c
        BY <1>3, <1>4, <2>1
      <3>2. c \in With(A, e) <=> c \in B
        BY <1>1, <1>4, <2>1 DEF With, Event
      <3> QED
        BY <3>1, <3>2
    <2>2. CASE i # 1
      <3>1. i - 1 \in 1 .. Len(r) /\ r[i - 1] = s[i]
        BY <1>2, <2>2
      <3>2. \A j \in 1 .. Len(r) : j > i - 1 => r[j].code # c
        BY <1>3, <1>4
      <3> QED
        BY <1>4, <3>1, <3>2
    <2> QED
      BY <2>1, <2>2
  <1>5. ASSUME NEW c \in Code, \A i \in 1 .. Len(s) : s[i].code # c, c \in A <=> c \in B
        PROVE  /\ \A k \in 1 .. Len(r) : r[k].code # c
               /\ c \in With(A, e) <=> c \in B
    <2>1. e.code # c
      BY <1>1, <1>5
    <2> QED
      BY <1>3, <1>5, <2>1 DEF With
  <1>6. Explains(r, With(A, e), B)
    BY <1>4, <1>5 DEF Explains
  <1> QED
    BY <1>1, <1>6 DEF r, e

-----------------------------------------------------------------------------
(* The inductive invariant. *)

\* Whoever owes a byte has replaced the map or stopped the source.
Owed == owed <= sets + (IF running THEN 0 ELSE 1)

\* Events are handled one device at a time, a device that is closed or to be
\* opened holds nothing, and one that is withheld has its companion.
InLoop ==
    /\ batch # <<>> => loop = "pump" /\ cur # None
    /\ loop = "open" => \A d \in work : ~IsOpen(d)
    /\ \A d \in Dev : ~IsOpen(d) => queue[d] = <<>> /\ ~grabbed[d]
    /\ \A d \in Dev : grabbed[d] => mirror[d] \in SUBSET Code

\* Everything that d has reported has been handled or is on its way.
Heard(d) ==
    \E mid \in SUBSET Code :
        /\ Explains(IF cur = d THEN batch ELSE <<>>, reported[d], mid)
        /\ Explains(queue[d], mid, phys[d])

\* A device that is not withheld is the session's own; of one that is the
\* companion has what was handled and is not suppressed.
Forwarded(d) ==
    IF grabbed[d] THEN session[d] = {} /\ mirror[d] = reported[d] \ supp[d]
                  ELSE session[d] = phys[d]

DeviceInv ==
    \A d \in Dev : handle[d] = "live" /\ quiet[d] /\ faults = 0 => Heard(d) /\ Forwarded(d)

IInv == TypeOK /\ Owed /\ InLoop /\ DeviceInv

-----------------------------------------------------------------------------
(* The steps of Next, one by one. *)
LEMMA Steps ==
    ASSUME Next
    PROVE  \/ Top \/ Rescan \/ List \/ ListFails \/ NextFor \/ CannotTell \/ Grab \/ GrabFails \/ Ungrab
           \/ KeepGrab \/ Select \/ SelectTimeout \/ Handle \/ Pumped \/ HandleRaises \/ Stop \/ Wake
           \/ \E d \in Dev : \/ Plug(d) \/ Unplug(d) \/ OpenDevice(d) \/ OpenFails(d) \/ Review(d)
                             \/ DropDevice(d) \/ Read(d) \/ ReadFails(d) \/ Teardown(d)
           \/ \E d \in Dev, c \in Code : KeyChange(d, c)
           \/ \E m \in Maps : SetSuppressed(m)
  <1> QED
    BY DEF Next, LoopStep

-----------------------------------------------------------------------------
(* The type invariant. *)

LEMMA TypeInit == Init => TypeOK
  <1> SUFFICES ASSUME Init PROVE TypeOK
    OBVIOUS
  <1>1. mirror \in [Dev -> (SUBSET Code) \cup {None}]
    BY DEF Init
  <1>2. batch \in Seq(Event) /\ queue \in [Dev -> Seq(Event)]
    BY EmptySeq DEF Init
  <1>3. /\ phys \in [Dev -> SUBSET Code] /\ session \in [Dev -> SUBSET Code]
        /\ supp \in [Dev -> SUBSET Code] /\ reported \in [Dev -> SUBSET Code]
        /\ handle \in [Dev -> {"closed", "live", "dead"}]
        /\ grabbed \in [Dev -> BOOLEAN] /\ quiet \in [Dev -> BOOLEAN]
    BY DEF Init
  <1>4. /\ owed \in 0 .. MaxSets + 1 /\ changes \in 0 .. MaxChanges
        /\ sets \in 0 .. MaxSets /\ faults \in 0 .. MaxFaults
    BY SourceAssumption DEF Init
  <1> QED
    BY <1>1, <1>2, <1>3, <1>4 DEF Init, TypeOK

LEMMA CloseTypes ==
    ASSUME TypeOK, NEW d \in Dev, Close(d)
    PROVE  /\ handle' \in [Dev -> {"closed", "live", "dead"}]
           /\ queue' \in [Dev -> Seq(Event)]
           /\ grabbed' \in [Dev -> BOOLEAN] /\ quiet' \in [Dev -> BOOLEAN]
           /\ mirror' \in [Dev -> (SUBSET Code) \cup {None}]
           /\ supp' \in [Dev -> SUBSET Code]
           /\ UNCHANGED <<kernelVars, reported, boundVars>>
  <1>1. mirror' \in [Dev -> (SUBSET Code) \cup {None}]
    BY DEF Close, TypeOK
  <1>2. queue' \in [Dev -> Seq(Event)]
    BY EmptySeq DEF Close, TypeOK
  <1> QED
    BY <1>1, <1>2 DEF Close, TypeOK

LEMMA WantedIsCode ==
    ASSUME TypeOK, NEW d \in Dev
    PROVE  Wanted(d) \in SUBSET Code
  <1> QED
    BY SourceAssumption DEF TypeOK, Wanted

LEMMA TypeWorld ==
    ASSUME TypeOK, NEW d \in Dev, Plug(d) \/ Unplug(d) \/ \E c \in Code : KeyChange(d, c)
    PROVE  TypeOK'
  <1> USE SourceAssumption DEF TypeOK, loopVars, sharedVars, deviceVars
  <1>1. CASE Plug(d)
    BY <1>1 DEF Plug
  <1>2. CASE Unplug(d)
    BY <1>2, EmptySeq DEF Unplug
  <1>3. ASSUME NEW c \in Code, KeyChange(d, c) PROVE TypeOK'
    <2>1. [code |-> c, down |-> c \notin phys[d]] \in Event
      BY DEF Event
    <2>2. Append(queue[d], [code |-> c, down |-> c \notin phys[d]]) \in Seq(Event)
      BY <2>1, AppendProperties
    <2>3. queue' \in [Dev -> Seq(Event)]
      BY <1>3, <2>2 DEF KeyChange
    <2>4. phys' \in [Dev -> SUBSET Code] /\ session' \in [Dev -> SUBSET Code]
      BY <1>3 DEF KeyChange
    <2> QED
      BY <1>3, <2>3, <2>4 DEF KeyChange
  <1> QED
    BY <1>1, <1>2, <1>3

LEMMA TypeThreads ==
    ASSUME TypeOK, Owed, Stop \/ Wake \/ \E m \in Maps : SetSuppressed(m)
    PROVE  TypeOK' /\ Owed'
  <1> USE SourceAssumption DEF TypeOK, Owed, kernelVars, loopVars, deviceVars, boundVars
  <1>1. CASE Stop
    <2>1. running /\ owed' = owed + 1 /\ owed <= sets
      BY <1>1 DEF Stop
    <2>2. owed' <= sets + 1 /\ owed' \in 0 .. MaxSets + 1
      BY <2>1
    <2> QED
      BY <1>1, <2>1, <2>2 DEF Stop
  <1>2. CASE Wake
    BY <1>2 DEF Wake
  <1>3. ASSUME NEW m \in Maps, SetSuppressed(m) PROVE TypeOK' /\ Owed'
    BY <1>3 DEF SetSuppressed
  <1> QED
    BY <1>1, <1>2, <1>3

LEMMA TypeScan ==
    ASSUME TypeOK,
           \/ Top \/ Rescan \/ List \/ ListFails \/ NextFor
           \/ \E d \in Dev : OpenDevice(d) \/ OpenFails(d) \/ Review(d) \/ DropDevice(d)
    PROVE  TypeOK'
  <1> USE SourceAssumption DEF TypeOK, Goto, Idle, Take, kernelVars, sharedVars, deviceVars, boundVars
  <1>1. CASE Top
    BY <1>1 DEF Top
  <1>2. CASE Rescan
    BY <1>2 DEF Rescan
  <1>3. CASE List
    BY <1>3 DEF List
  <1>4. CASE ListFails
    BY <1>4 DEF ListFails
  <1>5. CASE NextFor
    BY <1>5 DEF NextFor
  <1>6. ASSUME NEW d \in Dev, OpenDevice(d) PROVE TypeOK'
    BY <1>6, WantedIsCode DEF OpenDevice, AtRest
  <1>7. ASSUME NEW d \in Dev, OpenFails(d) PROVE TypeOK'
    BY <1>7 DEF OpenFails
  <1>8. ASSUME NEW d \in Dev, Review(d) PROVE TypeOK'
    BY <1>8, WantedIsCode DEF Review
  <1>9. ASSUME NEW d \in Dev, DropDevice(d) PROVE TypeOK'
    BY <1>9, CloseTypes DEF DropDevice
  <1> QED
    BY <1>1, <1>2, <1>3, <1>4, <1>5, <1>6, <1>7, <1>8, <1>9

LEMMA TypeGrab ==
    ASSUME TypeOK, CannotTell \/ Grab \/ GrabFails \/ Ungrab \/ KeepGrab
    PROVE  TypeOK'
  <1> USE SourceAssumption DEF TypeOK, Applies, Reviewed, kernelVars, sharedVars, deviceVars, boundVars
  <1>1. Applies => cur \in Dev
    OBVIOUS
  <1>2. Suppressible \in SUBSET Code
    BY DEF Suppressible
  <1>3. CASE CannotTell
    BY <1>3 DEF CannotTell
  <1>4. CASE Grab
    BY <1>1, <1>2, <1>4 DEF Grab, Switches, AtRest
  <1>5. CASE GrabFails
    BY <1>1, <1>5 DEF GrabFails
  <1>6. CASE Ungrab
    <2>1. mirror' \in [Dev -> (SUBSET Code) \cup {None}]
      BY <1>6 DEF Ungrab
    <2> QED
      BY <1>1, <1>6, <2>1 DEF Ungrab, Switches, AtRest
  <1>7. CASE KeepGrab
    BY <1>1, <1>2, <1>7 DEF KeepGrab, Switches, AtRest
  <1> QED
    BY <1>3, <1>4, <1>5, <1>6, <1>7

LEMMA TypePump ==
    ASSUME TypeOK, InLoop,
           \/ Select \/ SelectTimeout \/ Handle \/ Pumped \/ HandleRaises
           \/ \E d \in Dev : Read(d) \/ ReadFails(d) \/ Teardown(d)
    PROVE  TypeOK'
  <1> USE SourceAssumption, EmptySeq
      DEF TypeOK, Goto, Idle, Take, kernelVars, sharedVars, deviceVars, loopVars, boundVars
  <1>1. CASE Select
    BY <1>1 DEF Select
  <1>2. CASE SelectTimeout
    BY <1>2 DEF SelectTimeout
  <1>3. CASE Handle
    <2>1. cur \in Dev /\ Head(batch) \in Event /\ Tail(batch) \in Seq(Event)
      BY <1>3, HeadTailProperties DEF Handle, InLoop
    <2>2. \A s \in SUBSET Code : With(s, Head(batch)) \in SUBSET Code
      BY <2>1 DEF With, Event
    <2>3. grabbed[cur] => With(mirror[cur], Head(batch)) \in SUBSET Code
      BY <2>1, <2>2 DEF InLoop
    <2>4. reported' \in [Dev -> SUBSET Code]
      BY <1>3, <2>1, <2>2 DEF Handle
    <2>5. mirror' \in [Dev -> (SUBSET Code) \cup {None}]
      <3>1. \/ mirror' = mirror
            \/ grabbed[cur] /\ mirror' = [mirror EXCEPT ![cur] = With(mirror[cur], Head(batch))]
        BY <1>3 DEF Handle
      <3>2. mirror \in [Dev -> (SUBSET Code) \cup {None}] /\ cur \in Dev
        BY <2>1
      <3>3. ASSUME NEW m \in SUBSET Code
            PROVE  [mirror EXCEPT ![cur] = m] \in [Dev -> (SUBSET Code) \cup {None}]
        BY <3>2
      <3> QED
        BY <2>3, <3>1, <3>2, <3>3
    <2>6. faults' \in 0 .. MaxFaults /\ batch' \in Seq(Event)
      BY <1>3, <2>1 DEF Handle
    <2> QED
      BY <1>3, <2>4, <2>5, <2>6 DEF Handle
  <1>4. CASE Pumped
    BY <1>4 DEF Pumped
  <1>5. CASE HandleRaises
    BY <1>5 DEF HandleRaises
  <1>6. ASSUME NEW d \in Dev, Read(d) PROVE TypeOK'
    BY <1>6 DEF Read
  <1>7. ASSUME NEW d \in Dev, ReadFails(d) PROVE TypeOK'
    BY <1>7, CloseTypes DEF ReadFails
  <1>8. ASSUME NEW d \in Dev, Teardown(d) PROVE TypeOK'
    BY <1>8, CloseTypes DEF Teardown
  <1> QED
    BY <1>1, <1>2, <1>3, <1>4, <1>5, <1>6, <1>7, <1>8

LEMMA TypeStep ==
    ASSUME TypeOK, Owed, InLoop, [Next]_vars
    PROVE  TypeOK' /\ Owed'
  <1>1. CASE UNCHANGED vars
    BY <1>1 DEF vars, kernelVars, deviceVars, loopVars, sharedVars, boundVars, TypeOK, Owed
  <1>2. CASE Stop \/ Wake \/ \E m \in Maps : SetSuppressed(m)
    BY <1>2, TypeThreads
  <1>3. CASE Next /\ ~(Stop \/ Wake \/ \E m \in Maps : SetSuppressed(m))
    <2>1. TypeOK'
      BY <1>3, Steps, TypeWorld, TypeScan, TypeGrab, TypePump
    <2>2. UNCHANGED <<owed, sets, running>>
      <3> USE DEF Idle, Take, kernelVars, deviceVars, loopVars, sharedVars, boundVars, Close
      <3>1. CASE \/ Top \/ Rescan \/ List \/ ListFails \/ NextFor \/ CannotTell \/ Grab \/ GrabFails
                 \/ Ungrab \/ KeepGrab \/ Select \/ SelectTimeout \/ Handle \/ Pumped \/ HandleRaises
        BY <3>1 DEF Top, Rescan, List, ListFails, NextFor, CannotTell, Grab, GrabFails, Ungrab,
           KeepGrab, Select, SelectTimeout, Handle, Pumped, HandleRaises
      <3>2. ASSUME NEW d \in Dev,
                   \/ OpenDevice(d) \/ OpenFails(d) \/ Review(d) \/ DropDevice(d)
                   \/ Read(d) \/ ReadFails(d) \/ Teardown(d) \/ Plug(d) \/ Unplug(d)
            PROVE  UNCHANGED <<owed, sets, running>>
        BY <3>2 DEF OpenDevice, OpenFails, Review, DropDevice, Read, ReadFails, Teardown, Plug, Unplug
      <3>3. ASSUME NEW d \in Dev, NEW c \in Code, KeyChange(d, c)
            PROVE  UNCHANGED <<owed, sets, running>>
        BY <3>3 DEF KeyChange
      <3> QED
        BY <1>3, <3>1, <3>2, <3>3, Steps
    <2> QED
      BY <2>1, <2>2 DEF Owed
  <1> QED
    BY <1>1, <1>2, <1>3

-----------------------------------------------------------------------------
(* Where the loop is. *)

LEMMA LoopInit == Init => InLoop
  <1> QED
    BY DEF Init, InLoop, IsOpen

LEMMA LoopStays ==
    ASSUME TypeOK, InLoop, [Next]_vars
    PROVE  InLoop'
  <1> USE DEF InLoop, TypeOK, Goto, Idle, Take, IsOpen,
              kernelVars, sharedVars, deviceVars, loopVars, boundVars
  <1>1. ASSUME NEW d \in Dev, NEW c \in Code, KeyChange(d, c) PROVE InLoop'
    BY <1>1 DEF KeyChange
  <1>2. ASSUME NEW d \in Dev, Plug(d) PROVE InLoop'
    BY <1>2 DEF Plug
  <1>3. ASSUME NEW d \in Dev, Unplug(d) PROVE InLoop'
    BY <1>3 DEF Unplug
  <1>4. ASSUME Stop \/ Wake \/ \E m \in Maps : SetSuppressed(m) PROVE InLoop'
    BY <1>4 DEF Stop, Wake, SetSuppressed
  <1>5. CASE Top \/ Rescan
    BY <1>5 DEF Top, Rescan
  <1>6. CASE List
    BY <1>6 DEF List
  <1>7. CASE ListFails
    BY <1>7 DEF ListFails
  <1>8. CASE NextFor
    BY <1>8 DEF NextFor
  <1>9. ASSUME NEW d \in Dev, OpenDevice(d) PROVE InLoop'
    BY <1>9 DEF OpenDevice
  <1>10. ASSUME NEW d \in Dev, OpenFails(d) \/ Review(d) PROVE InLoop'
    BY <1>10 DEF OpenFails, Review
  <1>11. ASSUME NEW d \in Dev, DropDevice(d) \/ ReadFails(d) \/ Teardown(d) PROVE InLoop'
    <2>1. Close(d) /\ loop # "open" /\ UNCHANGED <<loop, cur, batch>>
      BY <1>11 DEF DropDevice, ReadFails, Teardown
    <2> QED
      BY <2>1 DEF Close
  <1>12. CASE CannotTell \/ GrabFails
    BY <1>12 DEF CannotTell, GrabFails, Applies, Reviewed
  <1>13. CASE Grab
    BY <1>13 DEF Grab, Applies, Reviewed
  <1>14. CASE Ungrab
    BY <1>14 DEF Ungrab, Applies, Reviewed
  <1>15. CASE KeepGrab
    BY <1>15 DEF KeepGrab, Applies, Reviewed
  <1>16. CASE Select \/ SelectTimeout
    BY <1>16 DEF Select, SelectTimeout
  <1>17. CASE Handle
    <2>1. cur \in Dev /\ Head(batch) \in Event
      BY <1>17, HeadTailProperties DEF Handle
    <2>2. grabbed[cur] => With(mirror[cur], Head(batch)) \in SUBSET Code
      BY <2>1 DEF With, Event
    <2>3. \A d \in Dev : grabbed[d] => mirror'[d] \in SUBSET Code
      BY <1>17, <2>1, <2>2 DEF Handle
    <2> QED
      BY <1>17, <2>3 DEF Handle
  <1>18. CASE Pumped
    BY <1>18 DEF Pumped
  <1>19. CASE HandleRaises
    BY <1>19 DEF HandleRaises
  <1>20. ASSUME NEW d \in Dev, Read(d) PROVE InLoop'
    BY <1>20, SourceAssumption DEF Read
  <1>21. CASE UNCHANGED vars
    BY <1>21 DEF vars
  <1> QED
    BY <1>1, <1>2, <1>3, <1>4, <1>5, <1>6, <1>7, <1>8, <1>9, <1>10, <1>11, <1>12, <1>13, <1>14, <1>15,
       <1>16, <1>17, <1>18, <1>19, <1>20, <1>21, Steps

-----------------------------------------------------------------------------
(* What the session and the engine have of a device. *)

\* A step that leaves a device alone leaves what is known of it alone.
LEMMA DeviceKept ==
    ASSUME TypeOK, NEW d \in Dev,
           UNCHANGED <<phys[d], session[d], queue[d], reported[d], grabbed[d], mirror[d], supp[d]>>,
           \/ UNCHANGED <<cur, batch>>
           \/ /\ (IF cur = d THEN batch ELSE <<>>) = <<>>
              /\ (IF cur' = d THEN batch' ELSE <<>>) = <<>>,
           Heard(d), Forwarded(d)
    PROVE  Heard(d)' /\ Forwarded(d)'
  <1>1. (IF cur' = d THEN batch' ELSE <<>>) = (IF cur = d THEN batch ELSE <<>>)
    OBVIOUS
  <1>2. PICK mid \in SUBSET Code :
            /\ Explains(IF cur = d THEN batch ELSE <<>>, reported[d], mid)
            /\ Explains(queue[d], mid, phys[d])
    BY DEF Heard
  <1>3. /\ Explains(IF cur' = d THEN batch' ELSE <<>>, reported'[d], mid)
        /\ Explains(queue'[d], mid, phys'[d])
    BY <1>1, <1>2
  <1>4. Heard(d)'
    BY <1>3 DEF Heard, Explains
  <1>5. Forwarded(d)'
    BY DEF Forwarded
  <1> QED
    BY <1>4, <1>5

\* At rest nothing is on its way, whatever is withheld.
LEMMA RestIsHeard ==
    ASSUME TypeOK, NEW d \in Dev, AtRest(d)',
           (IF cur' = d THEN batch' ELSE <<>>) = <<>>
    PROVE  Heard(d)'
  <1>1. {} \in SUBSET Code /\ reported'[d] = {} /\ phys'[d] = {} /\ queue'[d] = <<>>
    BY DEF AtRest
  <1>2. Explains(<<>>, {}, {})
    BY <1>1, NoneExplain
  <1>3. Explains(IF cur' = d THEN batch' ELSE <<>>, reported'[d], {})
        /\ Explains(queue'[d], {}, phys'[d])
    BY <1>1, <1>2
  <1> QED
    BY <1>1, <1>3 DEF Heard, Explains

\* Steps that leave the devices and what was read of them alone.
LEMMA DeviceAlone ==
    ASSUME TypeOK, InLoop, DeviceInv,
           \/ Top \/ Rescan \/ List \/ ListFails \/ NextFor \/ CannotTell
           \/ Select \/ SelectTimeout \/ Pumped \/ Stop \/ Wake
           \/ \E m \in Maps : SetSuppressed(m)
           \/ \E e \in Dev : OpenFails(e) \/ Review(e) \/ Plug(e)
           \/ UNCHANGED vars
    PROVE  DeviceInv'
  <1>1. /\ UNCHANGED <<phys, session, queue, reported, grabbed, mirror, supp, handle, quiet>>
        /\ faults' = faults \/ faults' = faults + 1
    BY DEF Top, Rescan, List, ListFails, NextFor, CannotTell, Select, SelectTimeout, Pumped, Stop,
       Wake, SetSuppressed, OpenFails, Review, Plug, Idle, Take, vars, kernelVars, deviceVars,
       loopVars, sharedVars, boundVars
  <1>2. UNCHANGED <<cur, batch>> \/ (batch = <<>> /\ batch' = <<>>)
    BY DEF Top, Rescan, List, ListFails, NextFor, CannotTell, Select, SelectTimeout, Pumped, Stop,
       Wake, SetSuppressed, OpenFails, Review, Plug, Idle, Take, vars, kernelVars, deviceVars,
       loopVars, sharedVars, boundVars, InLoop
  <1> SUFFICES ASSUME NEW d \in Dev, handle'[d] = "live", quiet'[d], faults' = 0
               PROVE  Heard(d)' /\ Forwarded(d)'
    BY DEF DeviceInv
  <1>3. faults = 0
    BY <1>1 DEF TypeOK
  <1>4. Heard(d) /\ Forwarded(d)
    BY <1>1, <1>3 DEF DeviceInv
  <1> QED
    BY <1>1, <1>2, <1>4, DeviceKept

\* A key changes: one event more.
LEMMA DeviceKey ==
    ASSUME TypeOK, InLoop, DeviceInv, NEW e \in Dev, NEW c \in Code, KeyChange(e, c)
    PROVE  DeviceInv'
  <1> USE DEF KeyChange, loopVars, sharedVars
  <1> SUFFICES ASSUME NEW d \in Dev, handle'[d] = "live", quiet'[d], faults' = 0
               PROVE  Heard(d)' /\ Forwarded(d)'
    BY DEF DeviceInv
  <1>1. Heard(d) /\ Forwarded(d)
    BY DEF DeviceInv
  <1>2. CASE d # e
    <2>1. UNCHANGED <<phys[d], session[d], queue[d], reported[d], grabbed[d], mirror[d], supp[d]>>
      BY <1>2 DEF TypeOK
    <2> QED
      BY <1>1, <2>1, DeviceKept
  <1>3. CASE d = e
    <2> DEFINE ev == [code |-> c, down |-> c \notin phys[d]]
    <2>1. ev \in Event /\ handle[d] = "live"
      BY <1>3 DEF Event
    <2>2. /\ phys'[d] = With(phys[d], ev)
          /\ queue'[d] = Append(queue[d], ev)
          /\ session'[d] = IF grabbed[d] THEN session[d] ELSE With(session[d], ev)
          /\ UNCHANGED <<cur, batch, reported, grabbed, mirror, supp>>
      BY <1>3, <2>1 DEF With, TypeOK
    <2> HIDE DEF ev
    <2>3. PICK mid \in SUBSET Code :
              /\ Explains(IF cur = d THEN batch ELSE <<>>, reported[d], mid)
              /\ Explains(queue[d], mid, phys[d])
      BY <1>1 DEF Heard
    <2>4. Explains(Append(queue[d], ev), mid, With(phys[d], ev))
      BY <2>1, <2>3, AppendExplains DEF TypeOK
    <2>5. /\ Explains(IF cur' = d THEN batch' ELSE <<>>, reported'[d], mid)
          /\ Explains(queue'[d], mid, phys'[d])
      BY <2>2, <2>3, <2>4
    <2>6. Heard(d)'
      BY <2>5 DEF Heard, Explains
    <2>7. Forwarded(d)'
      BY <1>1, <2>2 DEF Forwarded
    <2> QED
      BY <2>6, <2>7
  <1> QED
    BY <1>2, <1>3

\* A device goes, is let go of, or is opened: it starts from rest.
LEMMA DeviceComesAndGoes ==
    ASSUME TypeOK, InLoop, DeviceInv, NEW e \in Dev,
           \/ Unplug(e) \/ OpenDevice(e)
           \/ DropDevice(e) \/ ReadFails(e) \/ Teardown(e)
    PROVE  DeviceInv'
  <1> SUFFICES ASSUME NEW d \in Dev, handle'[d] = "live", quiet'[d], faults' = 0
               PROVE  Heard(d)' /\ Forwarded(d)'
    BY DEF DeviceInv
  <1>1. CASE Unplug(e)
    <2> USE <1>1 DEF Unplug, loopVars, sharedVars
    <2>1. d # e
      BY DEF TypeOK, IsOpen
    <2>2. /\ UNCHANGED <<phys[d], session[d], queue[d], reported[d], grabbed[d], mirror[d], supp[d]>>
          /\ UNCHANGED <<cur, batch>> /\ handle[d] = "live" /\ quiet[d] /\ faults = 0
      BY <2>1 DEF TypeOK
    <2> QED
      BY <2>2, DeviceKept DEF DeviceInv
  <1>2. CASE DropDevice(e) \/ ReadFails(e) \/ Teardown(e)
    <2>1. Close(e) /\ UNCHANGED <<cur, batch>>
      BY <1>2 DEF DropDevice, ReadFails, Teardown, Take, loopVars, sharedVars
    <2>2. d # e
      BY <2>1 DEF Close, TypeOK
    <2>3. /\ UNCHANGED <<phys[d], session[d], queue[d], reported[d], grabbed[d], mirror[d], supp[d]>>
          /\ handle[d] = "live" /\ quiet[d] /\ faults = 0
      BY <2>1, <2>2 DEF Close, TypeOK, kernelVars, boundVars
    <2> QED
      BY <2>1, <2>3, DeviceKept DEF DeviceInv
  <1>3. CASE OpenDevice(e)
    <2> USE <1>3 DEF OpenDevice, Take, kernelVars, sharedVars, boundVars
    <2>1. batch = <<>> /\ batch' = <<>>
      BY DEF InLoop
    <2>2. CASE d # e
      <3>1. /\ UNCHANGED <<phys[d], session[d], queue[d], reported[d], grabbed[d], mirror[d], supp[d]>>
            /\ handle[d] = "live" /\ quiet[d] /\ faults = 0
        BY <2>2 DEF TypeOK
      <3> QED
        BY <2>1, <3>1, DeviceKept DEF DeviceInv
    <2>3. CASE d = e
      <3>1. AtRest(d)' /\ ~grabbed'[d] /\ session'[d] = {} /\ phys'[d] = {}
        BY <2>3 DEF AtRest, InLoop, TypeOK
      <3> QED
        BY <2>1, <3>1, RestIsHeard DEF Forwarded
    <2> QED
      BY <2>2, <2>3
  <1> QED
    BY <1>1, <1>2, <1>3

\* A device is withheld, given back or withheld for other codes: at rest, or
\* its switch was not quiet.
LEMMA DeviceSwitches ==
    ASSUME TypeOK, InLoop, DeviceInv, Grab \/ GrabFails \/ Ungrab \/ KeepGrab
    PROVE  DeviceInv'
  <1> USE DEF Applies, Reviewed, kernelVars, sharedVars, boundVars
  <1>1. /\ UNCHANGED <<phys, session, queue, reported, handle>> /\ cur \in Dev
        /\ batch = <<>> /\ batch' = <<>>
        /\ faults' = faults \/ faults' = faults + 1
    BY DEF Grab, GrabFails, Ungrab, KeepGrab, InLoop, TypeOK
  <1> SUFFICES ASSUME NEW d \in Dev, handle'[d] = "live", quiet'[d], faults' = 0
               PROVE  Heard(d)' /\ Forwarded(d)'
    BY DEF DeviceInv
  <1>2. faults = 0 /\ handle[d] = "live"
    BY <1>1 DEF TypeOK
  <1>3. CASE d # cur
    <2>1. UNCHANGED <<grabbed[d], mirror[d], supp[d], quiet[d]>>
      BY <1>1, <1>3 DEF Grab, GrabFails, Ungrab, KeepGrab, Switches, TypeOK
    <2> QED
      BY <1>1, <1>2, <2>1, DeviceKept DEF DeviceInv
  <1>4. CASE d = cur /\ GrabFails
    <2>1. ~grabbed[d] /\ UNCHANGED <<grabbed, mirror, quiet>>
      BY <1>4 DEF GrabFails
    <2>2. Heard(d) /\ session[d] = phys[d]
      BY <1>2, <2>1 DEF DeviceInv, Forwarded
    <2>3. PICK mid \in SUBSET Code :
              /\ Explains(IF cur = d THEN batch ELSE <<>>, reported[d], mid)
              /\ Explains(queue[d], mid, phys[d])
      BY <2>2 DEF Heard
    <2>4. /\ (IF cur = d THEN batch ELSE <<>>) = <<>>
          /\ (IF cur' = d THEN batch' ELSE <<>>) = <<>>
      BY <1>1
    <2>5. /\ Explains(IF cur' = d THEN batch' ELSE <<>>, reported'[d], mid)
          /\ Explains(queue'[d], mid, phys'[d])
      BY <1>1, <2>3, <2>4
    <2>6. Heard(d)'
      BY <2>5 DEF Heard, Explains
    <2> QED
      BY <1>1, <2>1, <2>2, <2>6 DEF Forwarded
  <1>5. CASE d = cur /\ KeepGrab /\ Suppressible = supp[cur]
    <2>1. UNCHANGED <<grabbed[d], mirror[d], supp[d], quiet[d]>>
      BY <1>1, <1>5 DEF KeepGrab, TypeOK
    <2> QED
      BY <1>1, <1>2, <2>1, DeviceKept DEF DeviceInv
  <1>6. CASE d = cur /\ (Grab \/ Ungrab \/ (KeepGrab /\ Suppressible # supp[cur]))
    <2>1. Switches(d) /\ quiet[d] /\ AtRest(d)
      BY <1>1, <1>6 DEF Grab, Ungrab, KeepGrab, Switches, TypeOK
    <2>2. AtRest(d)'
      BY <1>1, <2>1 DEF AtRest
    <2>3. Heard(d)'
      BY <1>1, <2>2, RestIsHeard
    <2>4. session[d] = {} /\ phys[d] = {} /\ reported[d] = {}
      BY <2>1 DEF AtRest
    <2>5. Forwarded(d)'
      <3>1. CASE Grab
        BY <1>1, <1>6, <2>4, <3>1 DEF Grab, Forwarded, TypeOK
      <3>2. CASE Ungrab
        BY <1>1, <1>6, <2>4, <3>2 DEF Ungrab, Forwarded, TypeOK
      <3>3. CASE KeepGrab
        <4>1. UNCHANGED <<grabbed, mirror>>
          BY <3>3 DEF KeepGrab
        <4>2. grabbed[d] => mirror[d] = {}
          BY <1>2, <2>1, <2>4 DEF DeviceInv, Forwarded
        <4> QED
          BY <1>1, <2>4, <4>1, <4>2 DEF Forwarded
      <3> QED
        BY <1>6, <3>1, <3>2, <3>3
    <2> QED
      BY <2>3, <2>5
  <1> QED
    BY <1>3, <1>4, <1>5, <1>6

\* What was read is handled, event by event.
LEMMA DevicePumped ==
    ASSUME TypeOK, InLoop, DeviceInv, Handle \/ HandleRaises \/ \E e \in Dev : Read(e)
    PROVE  DeviceInv'
  <1> SUFFICES ASSUME NEW d \in Dev, handle'[d] = "live", quiet'[d], faults' = 0
               PROVE  Heard(d)' /\ Forwarded(d)'
    BY DEF DeviceInv
  <1>1. ASSUME NEW e \in Dev, Read(e) PROVE Heard(d)' /\ Forwarded(d)'
    <2> USE <1>1 DEF Read, Take, Idle, kernelVars, sharedVars, boundVars
    <2>1. /\ batch = <<>> /\ cur = None /\ cur' = e /\ batch' = queue[e]
          /\ UNCHANGED <<phys, session, reported, grabbed, mirror, supp, handle, quiet, faults>>
      BY DEF InLoop
    <2>2. Heard(d) /\ Forwarded(d)
      BY <2>1 DEF DeviceInv
    <2>3. CASE d # e
      <3>1. queue'[d] = queue[d]
        BY <2>3 DEF TypeOK
      <3> QED
        BY <2>1, <2>2, <2>3, <3>1, DeviceKept
    <2>4. CASE d = e
      <3>1. queue'[d] = <<>> /\ cur # d
        BY <2>1, <2>4, SourceAssumption DEF TypeOK
      <3>2. PICK mid \in SUBSET Code :
                Explains(<<>>, reported[d], mid) /\ Explains(queue[d], mid, phys[d])
        BY <2>2, <3>1 DEF Heard
      <3>3. reported[d] = mid /\ phys[d] \in SUBSET Code /\ reported[d] \in SUBSET Code
        BY <3>2, NoneExplain DEF TypeOK
      <3>4. Explains(queue[d], reported[d], phys[d]) /\ Explains(<<>>, phys[d], phys[d])
        BY <3>2, <3>3, NoneExplain
      <3>5. /\ Explains(IF cur' = d THEN batch' ELSE <<>>, reported'[d], phys[d])
            /\ Explains(queue'[d], phys[d], phys'[d])
        BY <2>1, <2>4, <3>1, <3>4
      <3>6. Heard(d)'
        BY <3>3, <3>5 DEF Heard, Explains
      <3>7. Forwarded(d)'
        BY <2>1, <2>2 DEF Forwarded
      <3> QED
        BY <3>6, <3>7
    <2> QED
      BY <2>3, <2>4
  <1>2. CASE HandleRaises
    BY <1>2 DEF HandleRaises, TypeOK
  <1>3. CASE Handle
    <2> DEFINE e == Head(batch)
               forwarded == grabbed[cur] /\ e.code \notin supp[cur]
    <2>1. /\ UNCHANGED <<cur, phys, session, queue, grabbed, supp, handle, quiet>>
          /\ batch' = Tail(batch) /\ batch # <<>> /\ cur \in Dev
          /\ reported' = [reported EXCEPT ![cur] = With(@, e)]
          /\ faults = 0
          /\ mirror' = IF forwarded THEN [mirror EXCEPT ![cur] = With(@, e)] ELSE mirror
      BY <1>3 DEF Handle, InLoop, TypeOK, kernelVars, sharedVars
    <2>2. Heard(d) /\ Forwarded(d)
      BY <2>1 DEF DeviceInv
    <2>3. CASE d # cur
      <3>1. UNCHANGED <<reported[d], mirror[d]>>
        BY <2>1, <2>3 DEF TypeOK
      <3> QED
        BY <2>1, <2>2, <2>3, <3>1, DeviceKept
    <2>4. CASE d = cur
      <3>1. PICK mid \in SUBSET Code :
                Explains(batch, reported[d], mid) /\ Explains(queue[d], mid, phys[d])
        BY <2>2, <2>4 DEF Heard
      <3>2. e \in Event /\ Explains(Tail(batch), With(reported[d], e), mid)
        BY <2>1, <3>1, TailExplains DEF TypeOK
      <3>3. reported'[d] = With(reported[d], e)
        BY <2>1, <2>4 DEF TypeOK
      <3>4. /\ Explains(IF cur' = d THEN batch' ELSE <<>>, reported'[d], mid)
            /\ Explains(queue'[d], mid, phys'[d])
        BY <2>1, <2>4, <3>1, <3>2, <3>3
      <3>5. Heard(d)'
        BY <3>4 DEF Heard, Explains
      <3>6. ASSUME grabbed[d] PROVE mirror'[d] = reported'[d] \ supp'[d]
        <4>1. mirror[d] = reported[d] \ supp[d]
          BY <2>2, <3>6 DEF Forwarded
        <4>2. mirror'[d] = IF e.code \notin supp[d] THEN With(mirror[d], e) ELSE mirror[d]
          BY <2>1, <2>4, <3>6 DEF TypeOK
        <4> QED
          BY <2>1, <3>3, <4>1, <4>2 DEF With
      <3>7. Forwarded(d)'
        BY <2>1, <2>2, <3>6 DEF Forwarded
      <3> QED
        BY <3>5, <3>7
    <2> QED
      BY <2>3, <2>4
  <1> QED
    BY <1>1, <1>2, <1>3

-----------------------------------------------------------------------------
LEMMA Inductive == Safety => []IInv
  <1>1. Init => IInv
    <2>1. Init => Owed /\ DeviceInv
      BY DEF Init, Owed, DeviceInv
    <2> QED
      BY <2>1, TypeInit, LoopInit DEF IInv
  <1>2. IInv /\ [Next]_vars => IInv'
    <2> SUFFICES ASSUME IInv, [Next]_vars PROVE IInv'
      OBVIOUS
    <2>1. TypeOK' /\ Owed' /\ InLoop'
      BY TypeStep, LoopStays DEF IInv
    <2>2. DeviceInv'
      BY Steps, DeviceAlone, DeviceKey, DeviceComesAndGoes, DeviceSwitches, DevicePumped DEF IInv
    <2> QED
      BY <2>1, <2>2 DEF IInv
  <1> QED
    BY <1>1, <1>2, PTL DEF Safety

\* A settled device: all it has reported has been handled.
LEMMA SettledIsHeard ==
    ASSUME IInv, NEW d \in Dev, Settled(d)
    PROVE  reported[d] = phys[d] /\ Forwarded(d)
  <1>1. Heard(d) /\ Forwarded(d)
    BY DEF IInv, DeviceInv, Settled
  <1>2. PICK mid \in SUBSET Code : Explains(<<>>, reported[d], mid) /\ Explains(<<>>, mid, phys[d])
    BY <1>1 DEF Heard, Settled
  <1>3. reported[d] = mid /\ mid = phys[d]
    BY <1>2, NoneExplain DEF IInv, TypeOK
  <1> QED
    BY <1>1, <1>3

(* The engine hears of every change of a settled device, suppressed or not, *)
(* however often devices come and go and maps are replaced                  *)
(* (evdev_backend.py, _handle_event).                                       *)
THEOREM EngineHearsAll == Spec => []EngineSees
  <1>1. IInv => EngineSees
    BY SettledIsHeard DEF EngineSees
  <1> QED
    BY <1>1, Inductive, PTL DEF Spec

(* The session has what the user holds down: the keys of a settled device, *)
(* from the device itself or but for the suppressed ones from its          *)
(* companion, and none of them from both.                                  *)
THEOREM SessionHasTheRest == Spec => []SessionSees
  <1>1. IInv => SessionSees
    BY SettledIsHeard DEF SessionSees, Forwarded
  <1> QED
    BY <1>1, Inductive, PTL DEF Spec

(* Every variable of the source keeps its type. *)
THEOREM TypeCorrect == Spec => []TypeOK
  <1> QED
    BY Inductive, PTL DEF Spec, IInv
=============================================================================
