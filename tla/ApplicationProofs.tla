-------------------------- MODULE ApplicationProofs --------------------------
(***************************************************************************)
(* Proofs about module Application, for any macros, actions and bindings,  *)
(* any files to start from, and any number of commands, failed saves,      *)
(* crashes and restarts.                                                   *)
(***************************************************************************)
EXTENDS Application, SequenceTheorems, TLAPS

-----------------------------------------------------------------------------
(* The inductive invariant. *)

\* Without the window there is no memory, and no save but that of a preset.
NoWindow ==
    app # "on" =>
        /\ object = [m \in MacroId |-> None] /\ listed = {}
        /\ nav = <<>> /\ tracked = None /\ timer = {} /\ undos = {}
        /\ rows = NoBindings /\ orphans = {} /\ draft = None /\ removed = {}
        /\ app # "starting" => write = None

\* A save under way writes what the memory holds, for nothing changes the
\* memory before it ends; a macro about to be opened is in the list.
WriteInv ==
    app = "on" /\ write # None =>
        /\ write.file \in MacroId => write.data = object[write.file]
        /\ write.file = "bindings" => write.data = SavedBindings(bindings)
        /\ write.file = "settings" => write.data = settings
        /\ write.job.kind \in {"create", "open"} => write.job.macro \in listed
        /\ write.job.kind = "close" => write.file = tracked

\* Every editor is of a macro of the list, has an object to edit, and keeps no
\* timer when it has been left, unless an undo has started one again.
EditorInv ==
    /\ \A i \in DOMAIN nav : nav[i] \in listed
    /\ \A m \in listed \cup timer : object[m] # None
    /\ \A u \in undos : object[u.macro] # None
    /\ timer \subseteq ToSet(nav) \cup undone
    /\ tracked # None => OnTop(tracked)

\* A deleted macro is nowhere from where it could be written.
GoneInv ==
    \A m \in deleted \ undone :
        disk[m] = None /\ m \notin listed \cup timer /\ ~BeingWritten(m)

\* A row that is not an orphan shows the binding of the library, and every row
\* does if no save of the bindings has failed or is under way.
RowInv ==
    /\ \A b \in BindingId \ orphans : rows[b] # None => rows[b] = bindings[b]
    /\ app = "on" /\ "bindings" \notin failed /\ ~BeingWritten("bindings") =>
        rows = bindings /\ orphans = {}

\* An id is used once: by a binding, by a toast that can bring it back, or by
\* the dialog for a new one.
IdInv ==
    /\ \A r \in removed : bindings[r.id] = None /\ rows[r.id] = None
    /\ \A q, r \in removed : q.id = r.id => q = r
    /\ draft # None =>
        /\ \A r \in removed : r.id # draft.id
        /\ draft.new => bindings[draft.id] = None /\ rows[draft.id] = None
    /\ app = "on" /\ write # None /\ write.job.kind = "remove" =>
        /\ write.file = "bindings" /\ draft = None /\ bindings[write.job.id] = None
        /\ \A r \in removed : r.id # write.job.id

IInv ==
    /\ TypeOK /\ NoWindow /\ WriteInv /\ EditorInv /\ GoneInv /\ RowInv /\ IdInv
    /\ SavedOrPending

-----------------------------------------------------------------------------
(* Sequences: what the editor does to the actions of a macro, and the window *)
(* to its stack.                                                             *)

LEMMA InsertAtType ==
    ASSUME NEW S, NEW s \in Seq(S), NEW i \in 1 .. Len(s) + 1, NEW e \in S
    PROVE  InsertAt(s, i, e) \in Seq(S)
  <1>1. SubSeq(s, 1, i - 1) \in Seq(S) /\ SubSeq(s, i, Len(s)) \in Seq(S)
    BY SubSeqProperties
  <1>2. <<e>> \in Seq(S)
    OBVIOUS
  <1> QED
    BY <1>1, <1>2, ConcatProperties DEF InsertAt

LEMMA RemoveAtType ==
    ASSUME NEW S, NEW s \in Seq(S), NEW i \in DOMAIN s
    PROVE  RemoveAt(s, i) \in Seq(S)
  <1>1. SubSeq(s, 1, i - 1) \in Seq(S) /\ SubSeq(s, i + 1, Len(s)) \in Seq(S)
    BY SubSeqProperties
  <1> QED
    BY <1>1, ConcatProperties DEF RemoveAt

\* Moving a step takes it out and puts it in, so there is a place for it.
LEMMA MoveType ==
    ASSUME NEW S, NEW s \in Seq(S), NEW i \in DOMAIN s, NEW j \in DOMAIN s
    PROVE  InsertAt(RemoveAt(s, j), i, s[j]) \in Seq(S)
  <1>1. RemoveAt(s, j) \in Seq(S)
    BY RemoveAtType
  <1>2. Len(RemoveAt(s, j)) = Len(s) - 1
    <2> DEFINE u == SubSeq(s, 1, j - 1)
               v == SubSeq(s, j + 1, Len(s))
    <2>1. /\ u \in Seq(S) /\ v \in Seq(S)
          /\ Len(u) = j - 1 /\ Len(v) = Len(s) - j
      BY SubSeqProperties
    <2>2. Len(u \o v) = Len(u) + Len(v)
      <3> HIDE DEF u, v
      <3> QED
        BY <2>1, ConcatProperties
    <2>3. RemoveAt(s, j) = u \o v
      BY DEF RemoveAt
    <2> HIDE DEF u, v
    <2> QED
      BY <2>1, <2>2, <2>3
  <1>3. i \in 1 .. Len(RemoveAt(s, j)) + 1 /\ s[j] \in S
    BY <1>2
  <1> QED
    BY <1>1, <1>3, InsertAtType

\* An edited list of actions is a list of actions.
LEMMA EditedType ==
    ASSUME NEW a \in Seq(Step \cup ToSet(Example)), NEW b \in Edited(a)
    PROVE  b \in Seq(Step \cup ToSet(Example))
  <1> DEFINE A == Step \cup ToSet(Example)
  <1>1. CASE \E s \in Step : b = Append(a, s)
    BY <1>1, AppendProperties
  <1>2. CASE b = <<>>
    BY <1>2
  <1>3. CASE \E i \in DOMAIN a : b \in Rearranged(a, i)
    <2>1. PICK i \in DOMAIN a : b \in Rearranged(a, i)
      BY <1>3
    <2>2. ASSUME NEW j \in DOMAIN a, b = InsertAt(RemoveAt(a, j), i, a[j]) PROVE b \in Seq(A)
      BY <2>2, MoveType
    <2>3. CASE b = InsertAt(a, i + 1, a[i])
      <3>1. i + 1 \in 1 .. Len(a) + 1 /\ a[i] \in A
        OBVIOUS
      <3> QED
        BY <2>3, <3>1, InsertAtType
    <2>4. ASSUME NEW s \in Step, b \in {InsertAt(a, i, s), InsertAt(a, i + 1, s), ReplaceAt(a, i, s)}
          PROVE  b \in Seq(A)
      <3>1. i \in 1 .. Len(a) + 1 /\ i + 1 \in 1 .. Len(a) + 1 /\ s \in A
        OBVIOUS
      <3>2. InsertAt(a, i, s) \in Seq(A) /\ InsertAt(a, i + 1, s) \in Seq(A)
        BY <3>1, InsertAtType
      <3>3. ReplaceAt(a, i, s) \in Seq(A)
        BY <3>1, ExceptSeq DEF ReplaceAt
      <3> QED
        BY <2>4, <3>2, <3>3
    <2> QED
      BY <2>1, <2>2, <2>3, <2>4 DEF Rearranged
  <1> QED
    BY <1>1, <1>2, <1>3 DEF Edited

\* The editor that is left is the last one, and the others stay.
LEMMA FrontProperties ==
    ASSUME NEW S, NEW s \in Seq(S), s # <<>>
    PROVE  /\ Front(s) \in Seq(S)
           /\ \A i \in DOMAIN Front(s) : i \in DOMAIN s /\ Front(s)[i] = s[i]
           /\ Last(s) \in ToSet(s) /\ Last(s) \in S
           /\ ToSet(s) \subseteq ToSet(Front(s)) \cup {Last(s)}
  <1> DEFINE f == Front(s)
  <1>1. Len(s) \in Nat \ {0}
    BY EmptySeq
  <1>2. /\ f \in Seq(S) /\ Len(f) = Len(s) - 1
        /\ \A i \in 1 .. Len(s) - 1 : f[i] = s[i]
    <2>1. Len(s) - 1 \in Int /\ \A i \in 1 .. Len(s) - 1 : s[i] \in S
      BY <1>1
    <2> DEFINE g == SubSeq(s, 1, Len(s) - 1)
    <2>2. /\ g \in Seq(S)
          /\ Len(g) = IF 1 <= Len(s) - 1 THEN Len(s) - 1 - 1 + 1 ELSE 0
          /\ \A i \in 1 .. Len(s) - 1 - 1 + 1 : g[i] = s[1 + i - 1]
      BY <2>1, SubSeqProperties
    <2>3. f = g
      BY DEF Front
    <2> HIDE DEF f, g
    <2>4. Len(g) = Len(s) - 1
      <3> DEFINE n == Len(s)
      <3>1. n \in Nat \ {0} /\ Len(g) = IF 1 <= n - 1 THEN n - 1 - 1 + 1 ELSE 0
        BY <1>1, <2>2
      <3> HIDE DEF n
      <3>2. Len(g) = n - 1
        BY <3>1
      <3> QED
        BY <3>2 DEF n
    <2>5. ASSUME NEW i \in 1 .. Len(s) - 1 PROVE g[i] = s[i]
      <3>1. i \in 1 .. Len(s) - 1 - 1 + 1 /\ 1 + i - 1 = i
        BY <1>1
      <3>2. g[i] = s[1 + i - 1]
        BY <2>2, <3>1
      <3> QED
        BY <3>1, <3>2
    <2> QED
      BY <2>2, <2>3, <2>4, <2>5
  <1> QED
    BY <1>1, <1>2 DEF Last, ToSet

LEMMA PushProperties ==
    ASSUME NEW S, NEW s \in Seq(S), NEW e \in S
    PROVE  /\ Append(s, e) \in Seq(S) /\ Append(s, e) # <<>> /\ Last(Append(s, e)) = e
           /\ ToSet(s) \subseteq ToSet(Append(s, e))
           /\ ToSet(Append(s, e)) \subseteq ToSet(s) \cup {e}
  <1>1. /\ Append(s, e) \in Seq(S) /\ Append(s, e) # <<>> /\ Len(Append(s, e)) = Len(s) + 1
        /\ \A i \in 1 .. Len(s) : Append(s, e)[i] = s[i]
        /\ Append(s, e)[Len(s) + 1] = e
    BY AppendProperties
  <1> QED
    BY <1>1 DEF Last, ToSet

-----------------------------------------------------------------------------
(* Files. *)

\* Each file has its own kind of contents.
LEMMA ContentsOf ==
    /\ \A m \in MacroId : m \in File /\ Contents(m) = Macro
    /\ "bindings" \in File /\ "bindings" \notin MacroId
    /\ Contents("bindings") = {bs \in Bindings : SavedBindings(bs) = bs}
    /\ "settings" \in File /\ "settings" \notin MacroId /\ Contents("settings") = Settings
    /\ \A f \in File : None \notin Contents(f) /\ Garbled \notin Contents(f)
  <1> USE ApplicationAssumption
  <1>1. "bindings" \notin MacroId /\ "settings" \notin MacroId
    OBVIOUS
  <1>2. /\ \A m \in MacroId : Contents(m) = Macro
        /\ Contents("bindings") = {bs \in Bindings : SavedBindings(bs) = bs}
        /\ Contents("settings") = Settings
    BY <1>1 DEF Contents
  <1> QED
    BY <1>1, <1>2 DEF File

\* What is kept of a binding is kept when it is saved again.
LEMMA SavedType ==
    ASSUME NEW b \in Binding
    PROVE  Saved(b) \in Binding /\ Saved(Saved(b)) = Saved(b) /\ Saved(b) # None
  <1>1. CASE b.kind = "run_macro"
    BY <1>1, ApplicationAssumption DEF Saved, Binding, RunsMacro
  <1>2. CASE b.kind # "run_macro"
    BY <1>2, ApplicationAssumption DEF Saved, Binding, RunsMacro
  <1> QED
    BY <1>1, <1>2

LEMMA SavedBindingsType ==
    ASSUME NEW bs \in Bindings
    PROVE  SavedBindings(bs) \in Contents("bindings")
  <1>1. SavedBindings(bs) \in Bindings
    BY SavedType DEF SavedBindings, Bindings
  <1>2. SavedBindings(SavedBindings(bs)) = SavedBindings(bs)
    BY SavedType DEF SavedBindings, Bindings
  <1> QED
    BY <1>1, <1>2, ContentsOf

\* The facts about a save that has begun: nothing useful is in its temporary file.
LEMMA WritingType ==
    ASSUME NEW f \in File, NEW data \in Contents(f), NEW temp \in {Garbled, data}, NEW job \in Job
    PROVE  LET w == Writing(f, data, temp, job)
           IN  w # None /\ w.file = f /\ w.data = data /\ w.temp = temp /\ w.job = job
  <1>1. data \in Data
    BY ContentsOf DEF File, Data
  <1>2. Writing(f, data, temp, job) \in Write
    BY <1>1 DEF Write, Writing
  <1>3. None \notin Write
    BY ApplicationAssumption
  <1> QED
    BY <1>2, <1>3 DEF Writing

LEMMA BeginWriteFacts ==
    ASSUME NEW f \in File, NEW data \in Contents(f), NEW job \in Job,
           BeginWrite(f, data, job)
    PROVE  /\ write' # None /\ write'.file = f /\ write'.data = data /\ write'.job = job
           /\ write'.temp = Garbled /\ disk' = disk /\ write = None
  BY WritingType DEF BeginWrite

\* A save that goes on: all that it needs is in its temporary file.
LEMMA FillFacts ==
    ASSUME TypeOK, FillTemporary
    PROVE  /\ write # None /\ write' # None /\ disk' = disk
           /\ write'.file = write.file /\ write'.data = write.data /\ write'.job = write.job
           /\ write'.temp = write.data
  <1>1. /\ write # None /\ disk' = disk
        /\ write' = Writing(write.file, write.data, write.data, write.job)
    BY DEF FillTemporary
  <1>2. write.file \in File /\ write.data \in Contents(write.file) /\ write.job \in Job
    BY <1>1 DEF TypeOK
  <1> QED
    BY <1>1, <1>2, WritingType

LEMMA NewIdType ==
    ASSUME Unused # {}
    PROVE  /\ NewId \in MacroId \ deleted
           /\ object[NewId] = None /\ disk[NewId] = None
  <1>1. NewId \in Unused
    BY DEF NewId
  <1> QED
    BY <1>1 DEF Unused

LEMMA NewBindingIdType ==
    ASSUME UnusedBindings # {}
    PROVE  /\ NewBindingId \in BindingId
           /\ bindings[NewBindingId] = None /\ rows[NewBindingId] = None
           /\ \A r \in removed : r.id # NewBindingId
  <1>1. NewBindingId \in UnusedBindings
    BY DEF NewBindingId
  <1> QED
    BY <1>1 DEF UnusedBindings

\* A step that changes nothing of all this.
LEMMA Unchanged ==
    ASSUME IInv, UNCHANGED <<storeVars, libVars, pageVars, mapVars>>
    PROVE  IInv'
  <1> USE DEF IInv, storeVars, libVars, pageVars, mapVars
  <1>1. TypeOK' /\ NoWindow' /\ WriteInv'
    BY DEF TypeOK, NoWindow, WriteInv
  <1>2. EditorInv' /\ GoneInv'
    BY DEF EditorInv, GoneInv, OnTop, BeingWritten
  <1>3. RowInv' /\ IdInv'
    BY DEF RowInv, IdInv, BeingWritten
  <1>4. SavedOrPending'
    BY DEF SavedOrPending, BeingWritten, LoadOr, Readable
  <1> QED
    BY <1>1, <1>2, <1>3, <1>4

-----------------------------------------------------------------------------
(* Steps of the editor. *)

\* What the window says of the macros an editor is of.
LEMMA EditorFacts ==
    ASSUME TypeOK, EditorInv
    PROVE  /\ \A m \in ToSet(nav) : m \in listed /\ m \in MacroId /\ object[m] # None
           /\ \A m \in listed \cup timer : object[m] \in Macro
           /\ nav # <<>> => Last(nav) \in ToSet(nav)
           /\ tracked # None => nav # <<>> /\ tracked = Last(nav)
  <1>1. \A m \in ToSet(nav) : m \in listed
    BY DEF EditorInv, ToSet
  <1>2. nav # <<>> => Last(nav) \in ToSet(nav)
    BY FrontProperties DEF TypeOK
  <1> QED
    BY <1>1, <1>2 DEF EditorInv, TypeOK, OnTop

\* An edit: the object changes, and the timer of its editor runs.
LEMMA EditKeeps ==
    ASSUME IInv, Idle, NEW m \in MacroId, object[m] # None, NEW v \in Macro,
           object' = [object EXCEPT ![m] = v], timer' = timer \cup {m},
           UNCHANGED <<storeVars, app, listed, bindings, settings, failed, deleted,
                       nav, tracked, mapVars>>,
           undos' \subseteq [macro : MacroId, index : Nat \ {0}, step : Step \cup ToSet(Example)],
           \A u \in undos' : object[u.macro] # None,
           undone' = IF m \in ToSet(nav) THEN undone ELSE undone \cup {m}
    PROVE  IInv'
  <1> USE DEF IInv, storeVars, mapVars
  <1>1. v # None
    BY ApplicationAssumption
  <1>2. TypeOK'
    BY DEF TypeOK
  <1>3. NoWindow' /\ WriteInv'
    BY DEF NoWindow, WriteInv, Idle
  <1>4. EditorInv'
    <2>1. \A n \in MacroId : object[n] # None => object'[n] # None
      BY <1>1 DEF TypeOK
    <2>2. ToSet(nav)' = ToSet(nav)
      OBVIOUS
    <2>3. \A n \in listed' \cup timer' : object'[n] # None
      BY <2>1 DEF EditorInv, TypeOK
    <2>4. \A u \in undos' : object'[u.macro] # None
      BY <2>1
    <2>5. timer' \subseteq ToSet(nav)' \cup undone'
      BY <2>2 DEF EditorInv
    <2> QED
      BY <2>3, <2>4, <2>5 DEF EditorInv, OnTop
  <1>5. GoneInv'
    BY EditorFacts DEF GoneInv, BeingWritten
  <1>6. RowInv' /\ IdInv'
    BY DEF RowInv, IdInv, BeingWritten
  <1>7. SavedOrPending'
    BY DEF SavedOrPending, BeingWritten, LoadOr, Readable, TypeOK
  <1> QED
    BY <1>2, <1>3, <1>4, <1>5, <1>6, <1>7

LEMMA EditorSteps ==
    ASSUME IInv, UNCHANGED mapVars,
           \/ \E m \in MacroId : EditActions(m) \/ EditField(m) \/ RemoveStep(m) \/ Record(m)
           \/ \E u \in undos : UndoStep(u)
    PROVE  IInv'
  <1> DEFINE A == Step \cup ToSet(Example)
  <1>1. TypeOK /\ EditorInv
    BY DEF IInv
  <1>2. \A m \in MacroId : \A a \in Seq(A) :
            object[m] # None => [object[m] EXCEPT !.actions = a] \in Macro
    BY <1>1 DEF TypeOK, Macro
  <1>3. ASSUME NEW m \in MacroId, object[m] # None, NEW a \in Seq(A), Edit(m, a), Command,
               undos' \subseteq [macro : MacroId, index : Nat \ {0}, step : A],
               \A u \in undos' : object[u.macro] # None,
               undone' = IF m \in ToSet(nav) THEN undone ELSE undone \cup {m}
        PROVE  IInv'
    <2>1. object' = [object EXCEPT ![m] = [object[m] EXCEPT !.actions = a]]
      BY <1>3 DEF Edit
    <2> QED
      BY <1>2, <1>3, <2>1, EditKeeps DEF Edit, Command
  <1>4. ASSUME NEW m \in MacroId, OnTop(m)
        PROVE  m \in ToSet(nav) /\ object[m] # None
    BY <1>1, <1>4, EditorFacts DEF OnTop
  <1>5. \A m \in MacroId : object[m] # None => object[m].actions \in Seq(A)
    BY <1>1 DEF TypeOK, Macro
  <1>6. /\ undos \subseteq [macro : MacroId, index : Nat \ {0}, step : A]
        /\ \A u \in undos : object[u.macro] # None
    BY <1>1 DEF TypeOK, EditorInv
  <1>7. ASSUME NEW m \in MacroId, EditActions(m) PROVE IInv'
    <2>1. PICK a \in Edited(object[m].actions) : Edit(m, a)
      BY <1>7 DEF EditActions
    <2>2. m \in ToSet(nav) /\ Command /\ UNCHANGED <<undos, undone>>
      BY <1>7 DEF EditActions
    <2>3. object[m] # None
      BY <1>1, <2>2, EditorFacts
    <2>4. a \in Seq(A)
      BY <1>5, <2>3, EditedType
    <2> QED
      BY <1>3, <1>6, <2>1, <2>2, <2>3, <2>4
  <1>8. ASSUME NEW m \in MacroId, EditField(m) PROVE IInv'
    <2> DEFINE v == [object[m] EXCEPT !.title = IF @ = "old" THEN "new" ELSE "old"]
    <2>1. m \in ToSet(nav) /\ object[m] # None
      BY <1>4, <1>8 DEF EditField
    <2>2. object' = [object EXCEPT ![m] = v]
      BY <1>8 DEF EditField
    <2>3. v \in Macro
      BY <1>1, <2>1 DEF TypeOK, Macro, Title
    <2> HIDE DEF v
    <2> QED
      BY <1>6, <1>8, <2>1, <2>2, <2>3, EditKeeps DEF EditField, Command
  <1>9. ASSUME NEW m \in MacroId, RemoveStep(m) PROVE IInv'
    <2>1. PICK i \in DOMAIN object[m].actions :
              /\ Edit(m, RemoveAt(object[m].actions, i))
              /\ undos' = undos \cup {[macro |-> m, index |-> i, step |-> object[m].actions[i]]}
      BY <1>9 DEF RemoveStep
    <2>2. m \in ToSet(nav) /\ object[m] # None /\ Command /\ undone' = undone
      BY <1>4, <1>9 DEF RemoveStep
    <2>3. /\ RemoveAt(object[m].actions, i) \in Seq(A)
          /\ i \in Nat \ {0} /\ object[m].actions[i] \in A
      BY <1>5, <2>1, <2>2, RemoveAtType
    <2> QED
      BY <1>3, <1>6, <2>1, <2>2, <2>3
  <1>10. ASSUME NEW m \in MacroId, Record(m) PROVE IInv'
    <2>1. m \in ToSet(nav) /\ Command /\ UNCHANGED <<undos, undone>>
      BY <1>10 DEF Record
    <2>2. object[m] # None
      BY <1>1, <2>1, EditorFacts
    <2>3. PICK s \in Step : IF tracked = m THEN Edit(m, Append(object[m].actions, s))
                                           ELSE UNCHANGED <<storeVars, libVars, nav, tracked, timer>>
      BY <1>10 DEF Record
    <2>4. CASE tracked = m
      <3>1. Append(object[m].actions, s) \in Seq(A)
        BY <1>5, <2>2, AppendProperties
      <3> QED
        BY <1>3, <1>6, <2>1, <2>2, <2>3, <2>4, <3>1
    <2>5. CASE tracked # m
      <3>1. UNCHANGED <<storeVars, libVars, pageVars, mapVars>>
        BY <2>1, <2>3, <2>5 DEF pageVars
      <3> QED
        BY <3>1, Unchanged
    <2> QED
      BY <2>4, <2>5
  <1>11. ASSUME NEW u \in undos, UndoStep(u) PROVE IInv'
    <2> DEFINE a == object[u.macro].actions
    <2>1. /\ u.macro \in MacroId /\ u.index \in Nat \ {0} /\ u.step \in A
          /\ object[u.macro] # None
      BY <1>6
    <2>2. a \in Seq(A)
      BY <1>5, <2>1
    <2>3. (IF u.index > Len(a) THEN Len(a) + 1 ELSE u.index) \in 1 .. Len(a) + 1
      <3> HIDE DEF a
      <3> QED
        BY <2>1, <2>2
    <2>4. Restored(u) \in Seq(A)
      <3>1. Restored(u) = InsertAt(a, IF u.index > Len(a) THEN Len(a) + 1 ELSE u.index, u.step)
        BY DEF Restored
      <3> HIDE DEF a
      <3> QED
        BY <2>1, <2>2, <2>3, <3>1, InsertAtType
    <2> HIDE DEF a
    <2> QED
      BY <1>3, <1>6, <1>11, <2>1, <2>4 DEF UndoStep
  <1> QED
    BY <1>7, <1>8, <1>9, <1>10, <1>11

-----------------------------------------------------------------------------
(* Steps of the window: pages are opened and left, timers run out, macros    *)
(* are made, renamed and deleted.                                            *)

LEMMA EditorLeft ==
    ASSUME TypeOK, EditorInv, nav # <<>>, nav' = Front(nav),
           tracked' = IF tracked = Last(nav) THEN None ELSE tracked,
           timer' = timer \ {Last(nav)}, UNCHANGED <<object, listed, undos, undone>>
    PROVE  EditorInv' /\ nav' \in Seq(MacroId) /\ tracked' = None
  <1>1. /\ nav' \in Seq(MacroId)
        /\ \A i \in DOMAIN nav' : i \in DOMAIN nav /\ nav'[i] = nav[i]
        /\ ToSet(nav) \subseteq ToSet(nav') \cup {Last(nav)}
    BY FrontProperties DEF TypeOK
  <1>2. tracked' = None
    BY DEF EditorInv, OnTop
  <1>3. timer' \subseteq ToSet(nav') \cup undone
    BY <1>1 DEF EditorInv
  <1> QED
    BY <1>1, <1>2, <1>3 DEF EditorInv

LEMMA EditorPushed ==
    ASSUME TypeOK, EditorInv, NEW m \in listed, Push(m), timer' \subseteq timer,
           timer' = timer \/ (nav # <<>> /\ timer' = timer \ {Last(nav)}),
           UNCHANGED <<object, listed, undos, undone>>
    PROVE  EditorInv' /\ nav' \in Seq(MacroId)
  <1>1. m \in MacroId
    BY DEF TypeOK
  <1>2. /\ nav' \in Seq(MacroId) /\ nav' # <<>> /\ Last(nav') = m /\ tracked' = m
        /\ ToSet(nav) \subseteq ToSet(nav') /\ ToSet(nav') \subseteq ToSet(nav) \cup {m}
    BY <1>1, PushProperties DEF TypeOK, Push
  <1>3. \A i \in DOMAIN nav' : nav'[i] \in listed
    <2>1. \A i \in DOMAIN nav' : nav'[i] \in ToSet(nav')
      BY DEF ToSet
    <2>2. \A n \in ToSet(nav) : n \in listed
      BY DEF EditorInv, ToSet
    <2> QED
      BY <1>2, <2>1, <2>2
  <1>4. timer' \subseteq ToSet(nav') \cup undone
    BY <1>2 DEF EditorInv
  <1> QED
    BY <1>2, <1>3, <1>4 DEF EditorInv, OnTop

\* The pending edit of an editor is saved.
LEMMA PendingSaved ==
    ASSUME IInv, Idle, NEW m \in timer, NEW kind \in {"edit", "close"},
           SaveMacro(m, object[m], [kind |-> kind]), kind = "close" => m = tracked,
           timer' = timer \ {m}, UNCHANGED <<object, listed, undos, undone, mapVars>>,
           \/ UNCHANGED <<nav, tracked>>
           \/ /\ nav # <<>> /\ m = Last(nav) /\ kind = "edit" /\ nav' = Front(nav)
              /\ tracked' = IF tracked = Last(nav) THEN None ELSE tracked
    PROVE  IInv'
  <1> USE DEF IInv, mapVars
  <1>1. m \in MacroId /\ object[m] \in Macro
    BY EditorFacts DEF TypeOK
  <1>2. /\ write' # None /\ write'.file = m /\ write'.data = object[m]
        /\ write'.job = [kind |-> kind] /\ write'.temp = Garbled /\ disk' = disk /\ write = None
        /\ UNCHANGED <<app, bindings, settings, failed, deleted>>
    BY <1>1, ContentsOf, BeginWriteFacts DEF SaveMacro, Job
  <1>3. write'.job.kind = kind /\ write'.job \in Job
    BY <1>2 DEF Job
  <1>4. EditorInv' /\ nav' \in Seq(MacroId) /\ tracked' \in MacroId \cup {None}
    <2>1. CASE UNCHANGED <<nav, tracked>>
      <3>1. timer' \subseteq ToSet(nav') \cup undone
        BY <2>1 DEF EditorInv
      <3> QED
        BY <2>1, <3>1 DEF EditorInv, OnTop, TypeOK
    <2>2. CASE nav # <<>> /\ m = Last(nav) /\ nav' = Front(nav)
               /\ tracked' = IF tracked = Last(nav) THEN None ELSE tracked
      BY <2>2, EditorLeft
    <2> QED
      BY <2>1, <2>2
  <1>5. TypeOK'
    BY <1>1, <1>2, <1>3, <1>4, ContentsOf DEF TypeOK
  <1>6. NoWindow' /\ WriteInv'
    BY <1>1, <1>2, <1>3, ContentsOf DEF NoWindow, WriteInv, Idle
  <1>7. GoneInv'
    BY <1>2 DEF GoneInv, BeingWritten
  <1>8. RowInv' /\ IdInv'
    BY <1>1, <1>2, <1>3, ContentsOf DEF RowInv, IdInv, BeingWritten
  <1>9. SavedOrPending'
    BY <1>1, <1>2 DEF SavedOrPending, BeingWritten, LoadOr, Readable
  <1> QED
    BY <1>4, <1>5, <1>6, <1>7, <1>8, <1>9

\* A macro gets another title, or one that did not exist is added: its new
\* value is being written.
LEMMA MacroWritten ==
    ASSUME IInv, Idle, NEW m \in MacroId \ (deleted \ undone), NEW v \in Macro, NEW job \in Job,
           SaveMacro(m, v, job), object' = [object EXCEPT ![m] = v],
           listed' = listed \cup {m}, UNCHANGED <<pageVars, mapVars>>,
           job.kind \in {"rename", "add", "create"}, job.kind = "create" => job.macro = m
    PROVE  IInv'
  <1> USE DEF IInv, mapVars, pageVars
  <1>1. v # None /\ v \in Contents(m) /\ m \in File
    BY ApplicationAssumption, ContentsOf
  <1>2. /\ write' # None /\ write'.file = m /\ write'.data = v
        /\ write'.job = job /\ write'.temp = Garbled /\ disk' = disk /\ write = None
        /\ UNCHANGED <<app, bindings, settings, failed, deleted>>
    BY <1>1, BeginWriteFacts DEF SaveMacro
  <1>3. object'[m] = v /\ \A n \in MacroId : object[n] # None => object'[n] # None
    BY <1>1 DEF TypeOK
  <1>4. EditorInv'
    <2>1. \A n \in listed' \cup timer' : object'[n] # None
      BY <1>1, <1>3 DEF EditorInv, TypeOK
    <2>2. \A u \in undos' : object'[u.macro] # None
      BY <1>3 DEF EditorInv, TypeOK
    <2>3. timer' \subseteq ToSet(nav') \cup undone'
      BY DEF EditorInv
    <2> QED
      BY <2>1, <2>2, <2>3 DEF EditorInv, OnTop
  <1>5. TypeOK'
    BY <1>1, <1>2 DEF TypeOK
  <1>6. NoWindow' /\ WriteInv'
    BY <1>2, <1>3, ContentsOf DEF NoWindow, WriteInv, Idle
  <1>7. GoneInv'
    BY <1>2 DEF GoneInv, BeingWritten
  <1>8. RowInv' /\ IdInv'
    BY <1>2, ContentsOf DEF RowInv, IdInv, BeingWritten
  <1>9. SavedOrPending'
    BY <1>2 DEF SavedOrPending, BeingWritten, LoadOr, Readable, TypeOK
  <1> QED
    BY <1>4, <1>5, <1>6, <1>7, <1>8, <1>9

LEMMA MacroAdded ==
    ASSUME IInv, UNCHANGED mapVars,
           \/ CreateMacro \/ ImportMacro
           \/ \E m \in MacroId : DuplicateMacro(m) \/ Rename(m)
    PROVE  IInv'
  <1> DEFINE A == Step \cup ToSet(Example)
  <1>1. TypeOK /\ EditorInv /\ GoneInv
    BY DEF IInv
  <1>2. ASSUME Unused # {}, Idle, UNCHANGED pageVars, NEW v \in Macro,
               NEW job \in [kind : {"add"}] \cup [kind : {"create"}, macro : {NewId}],
               AddMacro(NewId, v, job)
        PROVE  IInv'
    <2>1. NewId \in MacroId \ deleted
      BY <1>2, NewIdType
    <2>2. job \in Job /\ job.kind \in {"add", "create"} /\ (job.kind = "create" => job.macro = NewId)
      BY <2>1 DEF Job
    <2> QED
      BY <1>2, <2>1, <2>2, MacroWritten DEF AddMacro
  <1>3. CASE CreateMacro
    <2>1. Blank \in Macro
      BY DEF Blank, Macro, Title
    <2> QED
      BY <1>2, <1>3, <2>1 DEF CreateMacro, Command
  <1>4. CASE ImportMacro
    <2>1. PICK s \in Step : AddMacro(NewId, [title |-> "old", actions |-> <<s>>], [kind |-> "add"])
      BY <1>4 DEF ImportMacro
    <2>2. [title |-> "old", actions |-> <<s>>] \in Macro
      BY DEF Macro, Title
    <2> QED
      BY <1>2, <1>4, <2>1, <2>2 DEF ImportMacro, Command
  <1>5. ASSUME NEW m \in MacroId, DuplicateMacro(m) PROVE IInv'
    <2>1. m \in listed
      BY <1>5 DEF DuplicateMacro
    <2>2. [object[m] EXCEPT !.title = "new"] \in Macro
      BY <1>1, <2>1, EditorFacts DEF Macro, Title
    <2> QED
      BY <1>2, <1>5, <2>2 DEF DuplicateMacro, Command
  <1>6. ASSUME NEW m \in MacroId, Rename(m) PROVE IInv'
    <2> DEFINE v == [object[m] EXCEPT !.title = IF @ = "old" THEN "new" ELSE "old"]
    <2>1. m \in listed /\ object[m] \in Macro
      BY <1>1, <1>6, EditorFacts DEF Rename
    <2>2. v \in Macro
      BY <2>1 DEF Macro, Title
    <2>3. object' = [object EXCEPT ![m] = v] /\ object'[m] = v
      BY <1>1, <1>6 DEF Rename, RenameMacro, TypeOK
    <2>4. m \in MacroId \ (deleted \ undone)
      BY <1>1, <2>1 DEF GoneInv
    <2>5. SaveMacro(m, v, [kind |-> "rename"]) /\ Idle /\ UNCHANGED <<pageVars, listed>>
      BY <1>6, <2>3 DEF Rename, RenameMacro, Command
    <2>6. [kind |-> "rename"] \in Job /\ listed = listed \cup {m}
      BY <2>1 DEF Job
    <2> HIDE DEF v
    <2> QED
      BY <2>2, <2>3, <2>4, <2>5, <2>6, MacroWritten
  <1> QED
    BY <1>3, <1>4, <1>5, <1>6

LEMMA MacroDeleted ==
    ASSUME IInv, NEW m \in MacroId, Delete(m), Refresh(bindings), UNCHANGED <<draft, removed>>
    PROVE  IInv'
  <1> USE DEF IInv, pageVars, Refresh
  <1>1. /\ Idle /\ m \in listed \ ToSet(nav)
        /\ disk' = [disk EXCEPT ![m] = None] /\ write' = write
        /\ listed' = listed \ {m} /\ deleted' = deleted \cup {m}
        /\ UNCHANGED <<app, object, bindings, settings, failed, pageVars>>
    BY DEF Delete, Command, DeleteMacro, DeleteFile
  <1>2. m \in File /\ disk'[m] = None /\ \A f \in File \ {m} : disk'[f] = disk[f]
    BY <1>1, ContentsOf DEF TypeOK
  <1>3. TypeOK'
    BY <1>1, <1>2 DEF TypeOK
  <1>4. NoWindow' /\ WriteInv'
    BY <1>1 DEF NoWindow, WriteInv, Idle
  <1>5. EditorInv'
    BY <1>1 DEF EditorInv, OnTop, ToSet
  <1>6. GoneInv'
    BY <1>1, <1>2 DEF GoneInv, BeingWritten, Idle, EditorInv, TypeOK
  <1>7. RowInv' /\ IdInv'
    BY <1>1 DEF RowInv, IdInv, BeingWritten, Idle
  <1>8. SavedOrPending'
    BY <1>1, <1>2, ContentsOf DEF SavedOrPending, BeingWritten, LoadOr, Readable, TypeOK
  <1> QED
    BY <1>3, <1>4, <1>5, <1>6, <1>7, <1>8

LEMMA WindowSteps ==
    ASSUME IInv, UNCHANGED mapVars,
           Back \/ \E m \in MacroId : OpenFromList(m) \/ TimerFires(m)
    PROVE  IInv'
  <1> USE DEF IInv, mapVars, storeVars, libVars
  <1>1. ASSUME NEW m \in MacroId, TimerFires(m) PROVE IInv'
    BY <1>1, PendingSaved DEF TimerFires
  <1>2. CASE Back /\ Last(nav) \in timer
    BY <1>2, PendingSaved DEF Back, Command
  <1>3. ASSUME NEW m \in MacroId, OpenFromList(m) PROVE EditorInv' /\ nav' \in Seq(MacroId) /\ tracked' = m
    BY <1>3, EditorPushed DEF OpenFromList, Push
  <1>4. CASE (Back /\ Last(nav) \notin timer) \/ \E m \in MacroId : OpenFromList(m)
    <2>1. EditorInv' /\ nav' \in Seq(MacroId) /\ tracked' \in MacroId \cup {None}
      BY <1>3, <1>4, EditorLeft DEF Back
    <2>2. /\ UNCHANGED <<storeVars, libVars, timer, undos, undone, mapVars>> /\ app = "on"
      BY <1>4 DEF Back, OpenFromList, Command, Idle
    <2>3. write = None
      BY <1>4 DEF Back, OpenFromList, Command, Idle
    <2>4. TypeOK'
      BY <2>1, <2>2 DEF TypeOK
    <2>5. NoWindow' /\ WriteInv'
      BY <2>2, <2>3 DEF NoWindow, WriteInv
    <2>6. GoneInv' /\ RowInv' /\ IdInv'
      BY <2>2 DEF GoneInv, RowInv, IdInv, BeingWritten
    <2>7. SavedOrPending'
      BY <2>2 DEF SavedOrPending, BeingWritten, LoadOr, Readable
    <2> QED
      BY <2>1, <2>4, <2>5, <2>6, <2>7
  <1> QED
    BY <1>1, <1>2, <1>4

-----------------------------------------------------------------------------
(* Steps of the pages of the bindings and of the settings. *)

\* The bindings change in memory and their file is being written.
LEMMA BindingsWritten ==
    ASSUME IInv, Idle, NEW bs \in Bindings, NEW job \in Job, SetBindings(bs, job),
           job.kind \in {"binding", "remove"}, UNCHANGED pageVars,
           rows' \in Bindings, orphans' \subseteq BindingId, draft' \in Draft \cup {None},
           removed' \subseteq removed, IdInv',
           \A b \in BindingId \ orphans' : rows'[b] # None => rows'[b] = bs[b]
    PROVE  IInv'
  <1> USE DEF IInv, pageVars
  <1>1. "bindings" \in File /\ SavedBindings(bs) \in Contents("bindings")
    BY ContentsOf, SavedBindingsType
  <1>2. /\ write' # None /\ write'.file = "bindings" /\ write'.data = SavedBindings(bs)
        /\ write'.job = job /\ write'.temp = Garbled
        /\ disk' = disk /\ write = None /\ bindings' = bs
        /\ UNCHANGED <<app, object, listed, settings, failed, deleted>>
    BY <1>1, BeginWriteFacts DEF SetBindings
  <1>3. TypeOK'
    BY <1>1, <1>2 DEF TypeOK
  <1>4. NoWindow' /\ WriteInv'
    BY <1>2, ContentsOf DEF NoWindow, WriteInv, Idle
  <1>5. EditorInv' /\ GoneInv'
    BY <1>2, ContentsOf DEF EditorInv, OnTop, GoneInv, BeingWritten, TypeOK
  <1>6. RowInv'
    BY <1>2 DEF RowInv, BeingWritten
  <1>7. SavedOrPending'
    BY <1>2 DEF SavedOrPending, BeingWritten, LoadOr, Readable
  <1> QED
    BY <1>3, <1>4, <1>5, <1>6, <1>7

LEMMA BindingsBegun ==
    ASSUME NEW bs \in Bindings, NEW job \in Job, SetBindings(bs, job)
    PROVE  write' # None /\ write'.job = job /\ write'.file = "bindings" /\ bindings' = bs
  BY BeginWriteFacts, ContentsOf, SavedBindingsType DEF SetBindings

\* The switch of a row changes its object, which is the library's or not.
LEMMA BindingToggled ==
    ASSUME IInv, NEW b \in BindingId, Toggle(b)
    PROVE  IInv'
  <1> USE DEF IInv, mapVars
  <1> DEFINE flipped == [rows[b] EXCEPT !.enabled = ~@]
             bs == IF b \in orphans THEN bindings ELSE [bindings EXCEPT ![b].enabled = ~@]
  <1>1. rows[b] \in Binding /\ rows[b] # None /\ Idle
    BY DEF Toggle, TypeOK, Bindings, Commanded, Command
  <1>2. flipped \in Binding
    BY <1>1 DEF Binding
  <1>3. rows' = [rows EXCEPT ![b] = flipped] /\ UNCHANGED <<orphans, draft, removed, pageVars>>
    BY DEF Toggle, Commanded
  <1>4. bs = IF b \in orphans THEN bindings ELSE [bindings EXCEPT ![b] = flipped]
    <2>1. b \notin orphans => bindings[b] = rows[b]
      BY <1>1 DEF RowInv
    <2> QED
      BY <2>1
  <1>5. SetBindings(bs, [kind |-> "binding"])
    BY DEF Toggle
  <1> HIDE DEF flipped, bs
  <1>6. bs \in Bindings /\ rows' \in Bindings
    BY <1>2, <1>3, <1>4 DEF TypeOK, Bindings
  <1>7. \A c \in BindingId \ {b} : bs[c] = bindings[c] /\ rows'[c] = rows[c]
    BY <1>3, <1>4 DEF TypeOK, Bindings
  <1>8. [kind |-> "binding"] \in Job
    BY DEF Job
  <1>9. write' # None /\ write'.job = [kind |-> "binding"] /\ bindings' = bs
    BY <1>5, <1>6, <1>8, BindingsBegun
  <1>10. \A r \in removed : r.id \in BindingId /\ r.id # b
    BY <1>1 DEF IdInv, TypeOK
  <1>11. draft = None
    BY DEF Toggle, Commanded
  <1>12. IdInv'
    BY <1>3, <1>7, <1>9, <1>10, <1>11 DEF IdInv
  <1>13. \A c \in BindingId \ orphans' : rows'[c] # None => rows'[c] = bs[c]
    <2>1. b \notin orphans => rows'[b] = bs[b]
      BY <1>3, <1>4 DEF TypeOK, Bindings
    <2> QED
      BY <1>3, <1>7, <2>1 DEF RowInv
  <1> QED
    BY <1>1, <1>3, <1>5, <1>6, <1>8, <1>12, <1>13, BindingsWritten DEF TypeOK

LEMMA BindingDuplicated ==
    ASSUME IInv, NEW b \in BindingId, DuplicateBinding(b)
    PROVE  IInv'
  <1> USE DEF IInv, mapVars
  <1> DEFINE bs == [bindings EXCEPT ![NewBindingId] = rows[b]]
  <1>1. /\ Idle /\ draft = None /\ UNCHANGED <<rows, orphans, draft, removed, pageVars>>
        /\ UnusedBindings # {}
        /\ SetBindings(bs, [kind |-> "binding"])
    BY DEF DuplicateBinding, Commanded, Command
  <1>2. /\ NewBindingId \in BindingId
        /\ bindings[NewBindingId] = None /\ rows[NewBindingId] = None
        /\ \A r \in removed : r.id # NewBindingId
    BY <1>1, NewBindingIdType
  <1>3. bs \in Bindings /\ \A c \in BindingId \ {NewBindingId} : bs[c] = bindings[c]
    BY <1>2 DEF TypeOK, Bindings
  <1> HIDE DEF bs
  <1>4. [kind |-> "binding"] \in Job
    BY DEF Job
  <1>5. write' # None /\ write'.job = [kind |-> "binding"] /\ bindings' = bs
    BY <1>1, <1>3, <1>4, BindingsBegun
  <1>6. IdInv'
    BY <1>1, <1>2, <1>3, <1>5 DEF IdInv, TypeOK
  <1>7. \A c \in BindingId \ orphans' : rows'[c] # None => rows'[c] = bs[c]
    BY <1>1, <1>2, <1>3 DEF RowInv
  <1> QED
    BY <1>1, <1>3, <1>4, <1>6, <1>7, BindingsWritten DEF TypeOK

LEMMA BindingDeleted ==
    ASSUME IInv, NEW b \in BindingId, DeleteBinding(b)
    PROVE  IInv'
  <1> USE DEF IInv, mapVars
  <1> DEFINE bs == [bindings EXCEPT ![b] = None]
             job == [kind |-> "remove", id |-> b, binding |-> rows[b]]
  <1>1. /\ Idle /\ draft = None /\ rows[b] # None /\ SetBindings(bs, job)
        /\ orphans' = orphans \cup {b} /\ UNCHANGED <<rows, draft, removed, pageVars>>
    BY DEF DeleteBinding, Commanded, Command
  <1>2. /\ bs \in Bindings /\ bs[b] = None
        /\ \A c \in BindingId \ {b} : bs[c] = bindings[c]
    BY DEF TypeOK, Bindings
  <1>3. rows[b] \in Binding
    BY <1>1 DEF TypeOK, Bindings
  <1>4. job \in Job /\ job.kind = "remove" /\ job.id = b
    BY <1>3 DEF Job
  <1> HIDE DEF bs, job
  <1>5. write' # None /\ write'.job = job /\ write'.file = "bindings" /\ bindings' = bs
    BY <1>1, <1>2, <1>4, BindingsBegun
  <1>6. \A r \in removed : r.id \in BindingId /\ r.id # b
    BY <1>1 DEF IdInv, TypeOK
  <1>7. IdInv'
    BY <1>1, <1>2, <1>4, <1>5, <1>6 DEF IdInv
  <1>8. \A c \in BindingId \ orphans' : rows'[c] # None => rows'[c] = bs[c]
    BY <1>1, <1>2 DEF RowInv
  <1> QED
    BY <1>1, <1>2, <1>4, <1>7, <1>8, BindingsWritten DEF TypeOK

LEMMA BindingBroughtBack ==
    ASSUME IInv, NEW r \in removed, UndoDelete(r)
    PROVE  IInv'
  <1> USE DEF IInv, mapVars
  <1> DEFINE bs == [bindings EXCEPT ![r.id] = r.binding]
  <1>1. /\ Idle /\ draft = None /\ SetBindings(bs, [kind |-> "binding"])
        /\ removed' = removed \ {r} /\ UNCHANGED <<rows, orphans, draft, pageVars>>
    BY DEF UndoDelete, Commanded, Command
  <1>2. r.id \in BindingId /\ r.binding \in Binding /\ rows[r.id] = None
    BY DEF TypeOK, IdInv
  <1>3. bs \in Bindings /\ \A c \in BindingId \ {r.id} : bs[c] = bindings[c]
    BY <1>2 DEF TypeOK, Bindings
  <1> HIDE DEF bs
  <1>4. [kind |-> "binding"] \in Job
    BY DEF Job
  <1>5. write' # None /\ write'.job = [kind |-> "binding"] /\ bindings' = bs
    BY <1>1, <1>3, <1>4, BindingsBegun
  <1>6. \A q \in removed' : q \in removed /\ q.id \in BindingId /\ q.id # r.id
    BY <1>1 DEF IdInv, TypeOK
  <1>7. IdInv'
    BY <1>1, <1>3, <1>5, <1>6 DEF IdInv
  <1>8. \A c \in BindingId \ orphans' : rows'[c] # None => rows'[c] = bs[c]
    BY <1>1, <1>2, <1>3 DEF RowInv
  <1> QED
    BY <1>1, <1>3, <1>4, <1>7, <1>8, BindingsWritten DEF TypeOK

LEMMA DialogSaved ==
    ASSUME IInv, SaveDialog
    PROVE  IInv'
  <1> USE DEF IInv, mapVars
  <1> DEFINE gone == ~draft.new /\ bindings[draft.id] = None
             bs == IF gone THEN bindings ELSE [bindings EXCEPT ![draft.id] = draft.binding]
  <1>1. /\ Idle /\ draft # None /\ draft' = None /\ SetBindings(bs, [kind |-> "binding"])
        /\ orphans' = IF draft.new \/ rows[draft.id] = None THEN orphans
                      ELSE orphans \cup {draft.id}
        /\ UNCHANGED <<rows, removed, pageVars>>
    BY DEF SaveDialog, Command
  <1>2. draft.id \in BindingId /\ draft.binding \in Binding /\ draft.new \in BOOLEAN
    BY <1>1 DEF TypeOK, Draft
  <1>3. bs \in Bindings /\ \A c \in BindingId \ {draft.id} : bs[c] = bindings[c]
    BY <1>2 DEF TypeOK, Bindings
  <1>4. orphans' \subseteq BindingId
    BY <1>1, <1>2 DEF TypeOK
  <1>5. draft.new => rows[draft.id] = None
    BY <1>1 DEF IdInv
  <1>6. \A r \in removed : r.id \in BindingId /\ r.id # draft.id
    BY <1>1 DEF IdInv, TypeOK
  <1> HIDE DEF bs
  <1>7. [kind |-> "binding"] \in Job
    BY DEF Job
  <1>8. write' # None /\ write'.job = [kind |-> "binding"] /\ bindings' = bs
    BY <1>1, <1>3, <1>7, BindingsBegun
  <1>9. IdInv'
    BY <1>1, <1>3, <1>6, <1>8 DEF IdInv
  <1>10. \A c \in BindingId \ orphans' : rows'[c] # None => rows'[c] = bs[c]
    BY <1>1, <1>2, <1>3, <1>5 DEF RowInv
  <1> QED
    BY <1>1, <1>3, <1>4, <1>7, <1>9, <1>10, BindingsWritten DEF TypeOK

\* The dialog opens, is used or goes.
LEMMA DialogSteps ==
    ASSUME IInv,
           \/ NewBinding \/ UseDialog \/ CancelDialog
           \/ \E b \in BindingId : EditBinding(b)
    PROVE  IInv'
  <1> USE DEF IInv
  <1>1. /\ Idle /\ UNCHANGED <<storeVars, libVars, pageVars, rows, orphans, removed>>
    BY DEF NewBinding, EditBinding, UseDialog, ChooseKind, ChooseMacro, ChooseOutput,
           ChooseEnabled, ChangeDraft, CancelDialog, OpenDialog, Commanded, Command
  <1>2. \A macros \in SUBSET MacroId : macros # {} => First(macros) \in MacroId
    BY DEF First
  <1>3. /\ draft' \in Draft \cup {None}
        /\ draft' # None =>
              /\ \A r \in removed : r.id # draft'.id
              /\ draft'.new => bindings[draft'.id] = None /\ rows[draft'.id] = None
    <2>1. CASE NewBinding
      <3>1. /\ NewBindingId \in BindingId
            /\ bindings[NewBindingId] = None /\ rows[NewBindingId] = None
            /\ \A r \in removed : r.id # NewBindingId
        BY <2>1, NewBindingIdType DEF NewBinding
      <3> DEFINE binding == [kind    |-> IF listed = {} THEN "remap" ELSE "run_macro",
                             macro   |-> IF listed = {} THEN None ELSE First(listed),
                             output  |-> FALSE,
                             enabled |-> TRUE]
      <3>2. binding \in Binding
        BY <1>2 DEF Binding, Kinds, TypeOK
      <3>3. draft' = [id |-> NewBindingId, binding |-> binding, new |-> TRUE, macros |-> listed]
        BY <2>1 DEF NewBinding, OpenDialog
      <3> HIDE DEF binding
      <3> QED
        BY <3>1, <3>2, <3>3 DEF Draft, TypeOK
    <2>2. ASSUME NEW b \in BindingId, EditBinding(b)
          PROVE  /\ draft' \in Draft \cup {None} /\ ~draft'.new
                 /\ \A r \in removed : r.id # draft'.id
      <3>1. rows[b] # None /\ draft' = [id |-> b, binding |-> rows[b], new |-> FALSE, macros |-> listed]
        BY <2>2 DEF EditBinding, OpenDialog
      <3>2. rows[b] \in Binding
        BY <3>1 DEF TypeOK, Bindings
      <3> QED
        BY <3>1, <3>2 DEF Draft, TypeOK, IdInv
    <2>3. CASE CancelDialog
      BY <2>3 DEF CancelDialog
    <2>4. CASE UseDialog
      <3>1. /\ draft # None /\ draft \in Draft /\ draft.binding \in Binding
            /\ draft.macros \subseteq MacroId
        BY <2>4 DEF UseDialog, TypeOK, Draft
      <3>2. PICK binding : binding \in Binding /\ draft' = [draft EXCEPT !.binding = binding]
        <4>1. CASE ChooseKind
          <5>1. PICK k \in Kinds : ChangeDraft([draft.binding EXCEPT
                    !.kind = k,
                    !.macro = IF k = "run_macro" /\ @ = None /\ draft.macros # {}
                              THEN First(draft.macros) ELSE @])
            BY <4>1 DEF ChooseKind
          <5>2. [draft.binding EXCEPT
                    !.kind = k,
                    !.macro = IF k = "run_macro" /\ @ = None /\ draft.macros # {}
                              THEN First(draft.macros) ELSE @] \in Binding
            BY <1>2, <3>1 DEF Binding
          <5> QED
            BY <5>1, <5>2 DEF ChangeDraft
        <4>2. CASE ChooseMacro
          <5>1. PICK m \in draft.macros : ChangeDraft([draft.binding EXCEPT !.macro = m])
            BY <4>2 DEF ChooseMacro
          <5>2. [draft.binding EXCEPT !.macro = m] \in Binding
            BY <3>1 DEF Binding
          <5> QED
            BY <5>1, <5>2 DEF ChangeDraft
        <4>3. CASE ChooseOutput
          <5>1. PICK some \in BOOLEAN : ChangeDraft([draft.binding EXCEPT !.output = some])
            BY <4>3 DEF ChooseOutput
          <5>2. [draft.binding EXCEPT !.output = some] \in Binding
            BY <3>1 DEF Binding
          <5> QED
            BY <5>1, <5>2 DEF ChangeDraft
        <4>4. CASE ChooseEnabled
          <5>1. [draft.binding EXCEPT !.enabled = ~@] \in Binding
            BY <3>1 DEF Binding
          <5> QED
            BY <4>4, <5>1 DEF ChooseEnabled, ChangeDraft
        <4> QED
          BY <2>4, <4>1, <4>2, <4>3, <4>4 DEF UseDialog
      <3>3. draft' \in Draft /\ draft'.id = draft.id /\ draft'.new = draft.new
        BY <3>1, <3>2 DEF Draft
      <3> QED
        BY <3>1, <3>3 DEF IdInv
    <2> QED
      BY <2>1, <2>2, <2>3, <2>4
  <1> USE DEF storeVars, libVars, pageVars
  <1>4. TypeOK'
    BY <1>1, <1>3 DEF TypeOK
  <1>5. NoWindow' /\ WriteInv' /\ EditorInv' /\ GoneInv'
    BY <1>1 DEF NoWindow, WriteInv, EditorInv, OnTop, GoneInv, BeingWritten, Idle
  <1>6. RowInv'
    BY <1>1 DEF RowInv, BeingWritten
  <1>7. IdInv'
    BY <1>1, <1>3 DEF IdInv, Idle
  <1>8. SavedOrPending'
    BY <1>1 DEF SavedOrPending, BeingWritten, LoadOr, Readable
  <1> QED
    BY <1>4, <1>5, <1>6, <1>7, <1>8

LEMMA SettingsSteps ==
    ASSUME IInv, (\E v \in BOOLEAN : SetEnabled(v)) \/ SetOther
    PROVE  IInv'
  <1> USE DEF IInv, pageVars, mapVars
  <1>1. PICK s \in Settings : SetSettings(s)
    <2>1. CASE SetOther
      <3>1. [settings EXCEPT !.other = IF @ = "default" THEN "changed" ELSE "default"] \in Settings
        BY DEF TypeOK, Settings
      <3> QED
        BY <2>1, <3>1 DEF SetOther
    <2>2. ASSUME NEW v \in BOOLEAN, SetEnabled(v) PROVE \E s \in Settings : SetSettings(s)
      <3>1. [settings EXCEPT !.enabled = v] \in Settings
        BY DEF TypeOK, Settings
      <3> QED
        BY <2>2, <3>1 DEF SetEnabled
    <2> QED
      BY <2>1, <2>2
  <1>2. Idle /\ UNCHANGED <<pageVars, mapVars>>
    BY DEF SetEnabled, SetOther, Commanded, Command
  <1>3. "settings" \in File /\ s \in Contents("settings") /\ [kind |-> "settings"] \in Job
    BY ContentsOf DEF Job
  <1>4. /\ write' # None /\ write'.file = "settings" /\ write'.data = s
        /\ write'.job = [kind |-> "settings"] /\ write'.temp = Garbled
        /\ disk' = disk /\ write = None /\ settings' = s
        /\ UNCHANGED <<app, object, listed, bindings, failed, deleted>>
    BY <1>1, <1>3, BeginWriteFacts DEF SetSettings
  <1>5. TypeOK'
    BY <1>2, <1>3, <1>4 DEF TypeOK
  <1>6. NoWindow' /\ WriteInv'
    BY <1>2, <1>4, ContentsOf DEF NoWindow, WriteInv, Idle
  <1>7. EditorInv' /\ GoneInv'
    BY <1>2, <1>4, ContentsOf DEF EditorInv, OnTop, GoneInv, BeingWritten, TypeOK
  <1>8. RowInv' /\ IdInv'
    BY <1>2, <1>4 DEF RowInv, IdInv, BeingWritten
  <1>9. SavedOrPending'
    BY <1>2, <1>4 DEF SavedOrPending, BeingWritten, LoadOr, Readable
  <1> QED
    BY <1>5, <1>6, <1>7, <1>8, <1>9

-----------------------------------------------------------------------------
(* Saves end; the window starts and ends.                                    *)

\* Nothing is left in memory when the process has ended.
LEMMA WindowEnded ==
    ASSUME TypeOK, NEW how \in {"off", "closed"}, Exit(how), MapExit, write' = None,
           disk' = [f \in File |-> disk'[f]],
           \A f \in File : disk'[f] \in Contents(f) \cup {None, Garbled},
           failed' \subseteq File, \A m \in deleted \ undone : disk'[m] = None
    PROVE  IInv'
  <1> USE DEF Exit, Forget, MapExit
  <1>1. app' # "on" /\ app' \in {"off", "closed"}
    OBVIOUS
  <1>2. TypeOK'
    BY <1>1, ApplicationAssumption DEF TypeOK, NoBindings, Bindings
  <1>3. NoWindow' /\ WriteInv' /\ EditorInv'
    BY <1>1 DEF NoWindow, WriteInv, EditorInv, OnTop
  <1>4. GoneInv' /\ RowInv' /\ IdInv'
    BY <1>1 DEF GoneInv, BeingWritten, RowInv, IdInv, NoBindings
  <1>5. SavedOrPending'
    BY <1>1 DEF SavedOrPending
  <1> QED
    BY <1>2, <1>3, <1>4, <1>5 DEF IInv

\* What a save leaves in the files and in the record of the saves that failed.
LEMMA SaveOutcome ==
    ASSUME TypeOK, write # None, SaveDone \/ SaveFails
    PROVE  /\ write.file \in File
           /\ disk' = [f \in File |-> disk'[f]]
           /\ \A f \in File : disk'[f] \in Contents(f) \cup {None, Garbled}
           /\ \A f \in File \ {write.file} : disk'[f] = disk[f] /\ (f \in failed' <=> f \in failed)
           /\ failed' \subseteq File
           /\ write.file \in failed' \/ disk'[write.file] = write.data
  <1>1. write.file \in File /\ write.data \in Contents(write.file)
    BY DEF TypeOK
  <1>2. CASE SaveDone
    <2>1. disk' = [disk EXCEPT ![write.file] = write.data] /\ failed' = failed \ {write.file}
      BY <1>2 DEF SaveDone, Replaced
    <2>2. /\ disk' = [f \in File |-> disk'[f]] /\ disk'[write.file] = write.data
          /\ \A f \in File \ {write.file} : disk'[f] = disk[f]
      BY <1>1, <2>1 DEF TypeOK
    <2>3. \A f \in File : disk'[f] \in Contents(f) \cup {None, Garbled}
      BY <1>1, <2>2 DEF TypeOK
    <2> QED
      BY <1>1, <2>1, <2>2, <2>3 DEF TypeOK
  <1>3. CASE SaveFails
    BY <1>1, <1>3 DEF SaveFails, WriteAborted, TypeOK
  <1> QED
    BY <1>2, <1>3

\* What is left to do when it is over, the window staying open.
LEMMA AfterSaveCases ==
    ASSUME NEW job, NEW ok \in BOOLEAN, AfterSave(job, ok), job.kind # "close"
    PROVE  /\ UNCHANGED <<app, object, listed, bindings, settings, deleted, undos, undone>>
           /\ \/ /\ nav # <<>> /\ Last(nav) \in timer /\ job.kind = "create"
                 /\ write' = Writing(Last(nav), object[Last(nav)], Garbled,
                                     [kind |-> "open", macro |-> job.macro])
                 /\ timer' = timer \ {Last(nav)} /\ UNCHANGED <<nav, tracked>>
              \/ /\ job.kind \in {"create", "open"} /\ Push(job.macro)
                 /\ write' = None /\ timer' = timer
              \/ write' = None /\ UNCHANGED <<nav, tracked, timer>>
  BY DEF AfterSave, pageVars

LEMMA SaveEnded ==
    ASSUME IInv, SaveEnds
    PROVE  IInv'
  <1> USE DEF IInv
  <1>1. PICK ok \in BOOLEAN :
            /\ app = "on" /\ write # None
            /\ SaveDone \/ SaveFails
            /\ ok => SaveDone
            /\ ~ok => SaveFails
            /\ AfterSave(write.job, ok)
            /\ IF write.job.kind = "close" THEN MapExit ELSE MapAfterSave(write.job, ok)
    BY DEF SaveEnds, SaveDone, SaveFails
  <1>2. /\ write.file \in File
        /\ disk' = [f \in File |-> disk'[f]]
        /\ \A f \in File : disk'[f] \in Contents(f) \cup {None, Garbled}
        /\ \A f \in File \ {write.file} : disk'[f] = disk[f] /\ (f \in failed' <=> f \in failed)
        /\ failed' \subseteq File
        /\ write.file \in failed' \/ disk'[write.file] = write.data
    BY <1>1, SaveOutcome
  <1>3. \A m \in deleted \ undone : disk'[m] = None
    BY <1>1, <1>2, ContentsOf DEF GoneInv, BeingWritten, TypeOK
  <1>4. CASE write.job.kind = "close"
    <2>1. Exit("closed") /\ write' = None /\ MapExit
      BY <1>1, <1>4 DEF AfterSave
    <2> QED
      BY <1>2, <1>3, <2>1, WindowEnded
  <1>5. CASE write.job.kind # "close"
    <2>1. UNCHANGED <<app, object, listed, bindings, settings, deleted, undos, undone>>
      BY <1>1, <1>5, AfterSaveCases
    <2>2. \/ /\ nav # <<>> /\ Last(nav) \in timer /\ write.job.kind = "create"
             /\ write' = Writing(Last(nav), object[Last(nav)], Garbled,
                                 [kind |-> "open", macro |-> write.job.macro])
             /\ timer' = timer \ {Last(nav)} /\ UNCHANGED <<nav, tracked>>
          \/ /\ write.job.kind \in {"create", "open"} /\ Push(write.job.macro)
             /\ write' = None /\ timer' = timer
          \/ write' = None /\ UNCHANGED <<nav, tracked, timer>>
      BY <1>1, <1>5, AfterSaveCases
    <2>3. write.job.kind \in {"create", "open"} => write.job.macro \in listed /\ write.job.macro \in MacroId
      BY <1>1 DEF WriteInv, TypeOK
    <2>3a. \/ write' = None /\ timer' = timer
          \/ /\ write' # None /\ write'.file = Last(nav) /\ timer' = timer \ {Last(nav)}
             /\ write'.data = object[Last(nav)] /\ write'.temp = Garbled
             /\ write'.job = [kind |-> "open", macro |-> write.job.macro]
             /\ write.job.kind = "create" /\ Last(nav) \in ToSet(nav) /\ Last(nav) \in MacroId
             /\ object[Last(nav)] \in Macro
      <3> DEFINE m == Last(nav)
                 job == [kind |-> "open", macro |-> write.job.macro]
      <3>1. CASE write' = None /\ timer' = timer
        BY <3>1
      <3>2. CASE /\ nav # <<>> /\ m \in timer /\ write.job.kind = "create"
                 /\ write' = Writing(m, object[m], Garbled, job) /\ timer' = timer \ {m}
        <4>1. m \in ToSet(nav) /\ m \in MacroId /\ object[m] \in Macro
          BY <3>2, EditorFacts
        <4>2. m \in File /\ object[m] \in Contents(m) /\ job \in Job
          BY <2>3, <3>2, <4>1, ContentsOf DEF Job
        <4> HIDE DEF m, job
        <4>3. /\ write' # None /\ write'.file = m /\ write'.data = object[m]
              /\ write'.temp = Garbled /\ write'.job = job
          BY <3>2, <4>2, WritingType
        <4> QED
          BY <3>2, <4>1, <4>3 DEF m, job
      <3> QED
        BY <2>2, <3>1, <3>2
    <2>4. /\ EditorInv' /\ nav' \in Seq(MacroId) /\ tracked' \in MacroId \cup {None}
          /\ timer' \subseteq timer /\ \A m \in timer \ timer' : write' # None /\ write'.file = m
      <3>1. \A m \in timer \ timer' : write' # None /\ write'.file = m
        BY <2>3a
      <3>2. CASE write.job.kind \in {"create", "open"} /\ Push(write.job.macro) /\ timer' = timer
        BY <2>1, <2>3, <3>2, EditorPushed DEF Push
      <3>3. CASE UNCHANGED <<nav, tracked>> /\ timer' \subseteq timer
        <4>1. timer' \subseteq ToSet(nav') \cup undone'
          BY <2>1, <3>3 DEF EditorInv
        <4>2. \A m \in listed' \cup timer' : object'[m] # None
          BY <2>1, <3>3 DEF EditorInv
        <4>3. EditorInv'
          BY <2>1, <3>3, <4>1, <4>2 DEF EditorInv, OnTop
        <4> QED
          BY <2>1, <3>1, <3>3, <4>3 DEF TypeOK
      <3> QED
        BY <2>2, <3>1, <3>2, <3>3
    <2>5. write' # None =>
            /\ write'.file \in ToSet(nav) /\ write'.file \in MacroId
            /\ write'.data = object[write'.file] /\ write'.data \in Macro
            /\ write'.temp = Garbled /\ write'.job = [kind |-> "open", macro |-> write.job.macro]
            /\ write'.job \in Job /\ write'.job.kind = "open" /\ write'.job.macro \in listed
      BY <2>3a, <2>3 DEF Job
    <2>6. MapAfterSave(write.job, ok)
      BY <1>1, <1>5
    <2>7. /\ rows' \in Bindings /\ orphans' \subseteq BindingId /\ draft' = draft
          /\ removed' \subseteq [id : BindingId, binding : Binding]
      <3>1. write.job.kind = "remove" => write.job.id \in BindingId /\ write.job.binding \in Binding
        BY <1>1 DEF TypeOK, Job
      <3> QED
        BY <2>6, <3>1 DEF MapAfterSave, Refresh, TypeOK
    <2>8. TypeOK'
      BY <1>2, <2>1, <2>4, <2>5, <2>7, ContentsOf DEF TypeOK
    <2>9. NoWindow' /\ WriteInv'
      BY <1>1, <2>1, <2>5, ContentsOf DEF NoWindow, WriteInv
    <2>10. GoneInv'
      BY <1>3, <2>1, <2>4, <2>5, EditorFacts DEF GoneInv, BeingWritten
    <2>11. RowInv'
      <3>1. CASE ok /\ write.file # "settings"
        BY <2>1, <2>6, <3>1 DEF MapAfterSave, Refresh, RowInv
      <3>2. CASE ~(ok /\ write.file # "settings")
        <4>1. UNCHANGED <<rows, orphans, bindings>>
          BY <2>1, <2>6, <3>2 DEF MapAfterSave
        <4>2. "bindings" \notin failed' => "bindings" \notin failed /\ write.file # "bindings"
          BY <1>1, <1>2, <3>2, ContentsOf DEF SaveFails
        <4> QED
          BY <1>1, <4>1, <4>2 DEF RowInv, BeingWritten
      <3> QED
        BY <3>1, <3>2
    <2>12. IdInv'
      <3>1. CASE ok /\ write.job.kind = "remove"
        <4>1. /\ write.file = "bindings" /\ draft = None /\ bindings[write.job.id] = None
              /\ \A r \in removed : r.id # write.job.id
          BY <1>1, <3>1 DEF IdInv
        <4>2. /\ rows' = bindings /\ draft' = None
              /\ removed' = removed \cup {[id |-> write.job.id, binding |-> write.job.binding]}
          BY <2>6, <3>1, <4>1 DEF MapAfterSave, Refresh
        <4>3. write' = None
          BY <2>5, <2>2, <3>1
        <4>4. \A r \in removed' : bindings[r.id] = None
          BY <4>1, <4>2 DEF IdInv
        <4>5. \A q, r \in removed' : q.id = r.id => q = r
          BY <4>1, <4>2 DEF IdInv
        <4> QED
          BY <2>1, <4>2, <4>3, <4>4, <4>5 DEF IdInv
      <3>2. CASE ~(ok /\ write.job.kind = "remove")
        <4>1. removed' = removed /\ draft' = draft /\ rows' \in {rows, bindings}
          BY <2>6, <3>2 DEF MapAfterSave, Refresh
        <4> QED
          BY <2>1, <2>5, <4>1 DEF IdInv
      <3> QED
        BY <3>1, <3>2
    <2>13. SavedOrPending'
      <3>1. \A m \in listed' : disk'[m] = object'[m] \/ m \in timer' \/ m \in failed' \/ BeingWritten(m)'
        <4> SUFFICES ASSUME NEW m \in listed
                     PROVE  disk'[m] = object[m] \/ m \in timer' \/ m \in failed' \/ BeingWritten(m)'
          BY <2>1
        <4>1. m \in MacroId /\ m \in File
          BY ContentsOf DEF TypeOK
        <4>2. CASE m = write.file
          BY <1>1, <1>2, <4>1, <4>2 DEF WriteInv
        <4>3. CASE m # write.file
          BY <1>1, <1>2, <2>4, <4>1, <4>3 DEF SavedOrPending, BeingWritten
        <4> QED
          BY <4>2, <4>3
      <3>2. \/ LoadOr("bindings", NoBindings)' = SavedBindings(bindings)
            \/ "bindings" \in failed'
        <4>1. CASE write.file = "bindings"
          BY <1>1, <1>2, <4>1, ContentsOf DEF WriteInv, LoadOr, Readable, TypeOK
        <4>2. CASE write.file # "bindings"
          BY <1>1, <1>2, <4>2, ContentsOf DEF SavedOrPending, BeingWritten, LoadOr, Readable
        <4> QED
          BY <4>1, <4>2
      <3>3. \/ LoadOr("settings", DefaultSettings)' = settings
            \/ "settings" \in failed'
        <4>1. CASE write.file = "settings"
          BY <1>1, <1>2, <4>1, ContentsOf DEF WriteInv, LoadOr, Readable, TypeOK
        <4>2. CASE write.file # "settings"
          BY <1>1, <1>2, <4>2, ContentsOf DEF SavedOrPending, BeingWritten, LoadOr, Readable
        <4> QED
          BY <4>1, <4>2
      <3> QED
        BY <2>1, <3>1, <3>2, <3>3 DEF SavedOrPending, SavedBindings
    <2> QED
      BY <2>4, <2>8, <2>9, <2>10, <2>11, <2>12, <2>13
  <1> QED
    BY <1>4, <1>5

\* A save that goes on changes nothing but its temporary file.
LEMMA SaveWentOn ==
    ASSUME IInv, SaveGoesOn
    PROVE  IInv'
  <1> USE DEF IInv
  <1>1. UNCHANGED <<disk, libVars, pageVars, mapVars>> /\ FillTemporary
    BY DEF SaveGoesOn, FillGoesOn, FillTemporary
  <1>2. /\ write # None /\ write' # None
        /\ write'.file = write.file /\ write'.data = write.data /\ write'.job = write.job
        /\ write'.temp = write.data
    BY <1>1, FillFacts
  <1> USE DEF libVars, pageVars, mapVars
  <1>3. TypeOK'
    BY <1>1, <1>2 DEF TypeOK
  <1>4. NoWindow' /\ WriteInv'
    BY <1>1, <1>2 DEF NoWindow, WriteInv
  <1>5. EditorInv' /\ GoneInv'
    BY <1>1, <1>2 DEF EditorInv, GoneInv, OnTop, BeingWritten
  <1>6. RowInv' /\ IdInv'
    BY <1>1, <1>2 DEF RowInv, IdInv, BeingWritten
  <1>7. SavedOrPending'
    BY <1>1, <1>2 DEF SavedOrPending, BeingWritten, LoadOr, Readable
  <1> QED
    BY <1>3, <1>4, <1>5, <1>6, <1>7

\* Starting: a preset is written if there is no macro at all, then everything
\* that can be read is loaded.
LEMMA StartKeeps ==
    ASSUME IInv, Start
    PROVE  IInv'
  <1> USE DEF IInv
  <1>1. CASE Seed /\ UNCHANGED <<pageVars, commands, mapVars>>
    <2>1. /\ app # "on" /\ app' = "starting" /\ Unused # {}
          /\ BeginWrite(NewId, [title |-> "old", actions |-> Example], [kind |-> "seed"])
          /\ UNCHANGED <<object, listed, bindings, settings, failed, deleted, pageVars, mapVars>>
      BY <1>1 DEF Seed, Off
    <2>2. NewId \in MacroId \ deleted /\ NewId \in File
      BY <2>1, NewIdType, ContentsOf
    <2>3. /\ [title |-> "old", actions |-> Example] \in Contents(NewId)
          /\ [kind |-> "seed"] \in Job
      <3>1. Example \in Seq(Step \cup ToSet(Example))
        <4>1. \A i \in 1 .. Len(Example) : Example[i] \in Step \cup ToSet(Example)
          BY ApplicationAssumption DEF ToSet
        <4> QED
          BY <4>1, ApplicationAssumption
      <3>2. [title |-> "old", actions |-> Example] \in Macro
        BY <3>1 DEF Macro, Title
      <3> QED
        BY <2>2, <3>2, ContentsOf DEF Job
    <2>4. /\ write' # None /\ write'.file = NewId
          /\ write'.data = [title |-> "old", actions |-> Example]
          /\ write'.job = [kind |-> "seed"] /\ write'.temp = Garbled /\ disk' = disk
      BY <2>1, <2>2, <2>3, BeginWriteFacts
    <2> USE DEF pageVars, mapVars
    <2>5. TypeOK'
      BY <2>1, <2>2, <2>3, <2>4 DEF TypeOK
    <2>6. NoWindow' /\ WriteInv' /\ EditorInv'
      BY <2>1 DEF NoWindow, WriteInv, EditorInv, OnTop
    <2>7. GoneInv'
      BY <2>1, <2>2, <2>4 DEF GoneInv, BeingWritten
    <2>8. RowInv' /\ IdInv' /\ SavedOrPending'
      BY <2>1 DEF RowInv, IdInv, SavedOrPending
    <2> QED
      BY <2>5, <2>6, <2>7, <2>8
  <1>2. CASE Seeded /\ UNCHANGED <<pageVars, commands, mapVars>>
    <2>1. /\ app = "starting" /\ write # None /\ write' = None
          /\ disk' = disk \/ disk' = [disk EXCEPT ![write.file] = write.data]
          /\ UNCHANGED <<libVars, pageVars, mapVars>>
      BY <1>2 DEF Seeded, Replaced, WriteAborted
    <2>2. write.file \in File /\ write.data \in Contents(write.file)
      BY <2>1 DEF TypeOK
    <2>3. /\ disk' = [f \in File |-> disk'[f]]
          /\ \A f \in File \ {write.file} : disk'[f] = disk[f]
          /\ \A f \in File : disk'[f] \in Contents(f) \cup {None, Garbled}
      BY <2>1, <2>2 DEF TypeOK
    <2> USE DEF libVars, pageVars, mapVars
    <2>4. TypeOK'
      BY <2>1, <2>3 DEF TypeOK
    <2>5. NoWindow' /\ WriteInv' /\ EditorInv'
      BY <2>1 DEF NoWindow, WriteInv, EditorInv, OnTop
    <2>6. GoneInv'
      BY <2>1, <2>3, ContentsOf DEF GoneInv, BeingWritten, TypeOK
    <2>7. RowInv' /\ IdInv' /\ SavedOrPending'
      BY <2>1 DEF RowInv, IdInv, SavedOrPending
    <2> QED
      BY <2>4, <2>5, <2>6, <2>7
  <1>3. CASE Load /\ Refresh(bindings') /\ UNCHANGED <<pageVars, commands, draft, removed>>
    <2>1. /\ app # "on" /\ write = None /\ app' = "on"
          /\ object' = [m \in MacroId |-> IF m \in LoadMacros THEN disk[m] ELSE None]
          /\ listed' = LoadMacros
          /\ bindings' = LoadOr("bindings", NoBindings)
          /\ settings' = LoadOr("settings", DefaultSettings) /\ failed' = {}
          /\ rows' = bindings' /\ orphans' = {}
          /\ UNCHANGED <<disk, write, deleted, pageVars, draft, removed>>
      BY <1>3 DEF Load, Off, storeVars, Refresh
    <2>2. \A m \in LoadMacros : m \in MacroId /\ disk[m] \in Macro /\ disk[m] # None
      BY ContentsOf DEF TypeOK, LoadMacros, Readable
    <2>3. LoadMacros \subseteq MacroId
      BY DEF LoadMacros
    <2>4. bindings' \in Bindings /\ SavedBindings(bindings') = bindings'
      <3>1. CASE Readable("bindings")
        BY <2>1, <3>1, ContentsOf DEF LoadOr, Readable, TypeOK
      <3>2. CASE ~Readable("bindings")
        BY <2>1, <3>2 DEF LoadOr, NoBindings, Bindings, SavedBindings
      <3> QED
        BY <3>1, <3>2
    <2>5. settings' \in Settings
      BY <2>1, ContentsOf, ApplicationAssumption DEF LoadOr, Readable, TypeOK
    <2> USE DEF pageVars
    <2>6. TypeOK'
      BY <2>1, <2>2, <2>3, <2>4, <2>5 DEF TypeOK
    <2>7. /\ nav = <<>> /\ tracked = None /\ timer = {} /\ undos = {}
          /\ draft = None /\ removed = {}
      BY <2>1 DEF NoWindow
    <2>8. NoWindow' /\ WriteInv' /\ EditorInv'
      BY <2>1, <2>2, <2>7 DEF NoWindow, WriteInv, EditorInv
    <2>9. GoneInv'
      BY <2>1, <2>2, <2>7 DEF GoneInv, BeingWritten
    <2>10. RowInv' /\ IdInv'
      BY <2>1, <2>7 DEF RowInv, IdInv
    <2>11. SavedOrPending'
      <3>1. LoadOr("bindings", NoBindings)' = SavedBindings(bindings)'
        BY <2>1, <2>4 DEF LoadOr, Readable, NoBindings, SavedBindings
      <3>2. LoadOr("settings", DefaultSettings)' = settings'
        BY <2>1 DEF LoadOr, Readable
      <3>3. \A m \in listed' : disk'[m] = object'[m]
        BY <2>1, <2>2
      <3> QED
        BY <3>1, <3>2, <3>3 DEF SavedOrPending
    <2> QED
      BY <2>6, <2>8, <2>9, <2>10, <2>11
  <1> QED
    BY <1>1, <1>2, <1>3 DEF Start

\* The window is closed, quit or killed, or saves an edit before it closes.
LEMMA EndKeeps ==
    ASSUME IInv, End
    PROVE  IInv'
  <1>1. TypeOK /\ \A m \in deleted \ undone : disk[m] = None
    BY DEF IInv, GoneInv
  <1>2. ASSUME NEW how \in {"off", "closed"}, Exit(how), MapExit, write' = None,
               UNCHANGED <<disk, failed>>
        PROVE  IInv'
    BY <1>1, <1>2, WindowEnded DEF TypeOK
  <1>3. CASE Quit /\ MapExit
    BY <1>2, <1>3 DEF Quit, Command, Idle, storeVars
  <1>4. CASE Crash /\ MapExit
    BY <1>2, <1>4 DEF Crash, Killed
  <1>5. CASE CloseWindow /\ tracked \notin timer /\ IF app' = "on" THEN UNCHANGED mapVars ELSE MapExit
    <2>1. Exit("closed") /\ write' = None /\ UNCHANGED <<disk, failed>>
      BY <1>5 DEF CloseWindow, Command, Idle, storeVars
    <2>2. MapExit
      BY <1>5, <2>1 DEF Exit, Forget
    <2> QED
      BY <1>2, <2>1, <2>2
  <1>6. CASE CloseWindow /\ tracked \in timer /\ IF app' = "on" THEN UNCHANGED mapVars ELSE MapExit
    <2>1. /\ Idle /\ timer' = timer \ {tracked}
          /\ SaveMacro(tracked, object[tracked], [kind |-> "close"])
          /\ UNCHANGED <<object, listed, nav, tracked, undos, undone>>
      BY <1>6 DEF CloseWindow, Command
    <2>2. UNCHANGED mapVars
      BY <1>6, <2>1 DEF SaveMacro, Idle
    <2> QED
      BY <1>6, <2>1, <2>2, PendingSaved
  <1> QED
    BY <1>3, <1>4, <1>5, <1>6 DEF End

-----------------------------------------------------------------------------
(* The invariant. *)

LEMMA Initially == Init => IInv
  <1> SUFFICES ASSUME Init PROVE IInv
    OBVIOUS
  <1> USE DEF Init, LibInit, PagesInit, MapInit
  <1>1. TypeOK
    BY ApplicationAssumption DEF TypeOK, NoBindings, Bindings
  <1>2. NoWindow /\ WriteInv /\ EditorInv
    BY DEF NoWindow, WriteInv, EditorInv
  <1>3. GoneInv /\ RowInv /\ IdInv /\ SavedOrPending
    BY DEF GoneInv, RowInv, IdInv, SavedOrPending, NoBindings
  <1> QED
    BY <1>1, <1>2, <1>3 DEF IInv

LEMMA Inductive == IInv /\ [Next]_appVars => IInv'
  <1> SUFFICES ASSUME IInv, [Next]_appVars PROVE IInv'
    OBVIOUS
  <1>1. CASE Start
    BY <1>1, StartKeeps
  <1>2. CASE SaveEnds
    BY <1>2, SaveEnded
  <1>3. CASE InEditor
    BY <1>3, EditorSteps, WindowSteps, MacroAdded DEF InEditor
  <1>4. CASE Meanwhile
    BY <1>4, WindowSteps, MacroAdded DEF Meanwhile
  <1>5. CASE InList
    BY <1>5, MacroDeleted DEF InList
  <1>6. CASE InMappings
    BY <1>6, BindingToggled, BindingDuplicated, BindingDeleted, BindingBroughtBack,
       DialogSaved, DialogSteps DEF InMappings
  <1>7. CASE InPreferences
    BY <1>7, SettingsSteps DEF InPreferences
  <1>8. CASE End
    BY <1>8, EndKeeps
  <1>9. CASE SaveGoesOn
    BY <1>9, SaveWentOn
  <1>10. CASE UNCHANGED appVars
    BY <1>10, Unchanged DEF appVars
  <1> QED
    BY <1>1, <1>2, <1>3, <1>4, <1>5, <1>6, <1>7, <1>8, <1>9, <1>10 DEF Next

LEMMA Invariant == Spec => []IInv
  BY Initially, Inductive, PTL DEF Spec, Safety

-----------------------------------------------------------------------------
(* The theorems. *)

\* No change is left behind (editor.py:497, library.py:160): while the window
\* is open, whatever the memory holds is in the file, or a save of it is
\* pending or under way, or the last one failed.
THEOREM NothingLeftBehind == Spec => []SavedOrPending
  <1>1. IInv => SavedOrPending
    BY DEF IInv
  <1> QED
    BY <1>1, Invariant, PTL

\* A row of the page of the bindings holds the binding of the library, unless
\* a save of the bindings failed (mappings.py:94).
THEOREM RowsShowTheLibrary == Spec => []RowsAreTheBindings
  <1>1. IInv => RowsAreTheBindings
    BY DEF IInv, RowInv, RowsAreTheBindings, Idle, BeingWritten
  <1> QED
    BY <1>1, Invariant, PTL

\* No pending edit writes the file of a macro again that was deleted
\* (macros.py:256), but the undo of a step used after its editor was left.
THEOREM DeletionIsFinal == Spec => []DeletedForGood
  <1>1. IInv => DeletedForGood
    BY DEF IInv, GoneInv, DeletedForGood
  <1> QED
    BY <1>1, Invariant, PTL

\* "A crash or a full disk leaves the previous file intact rather than a truncated
\* one" (store.py:5): whichever step of a write fails, and between whichever two the
\* process is killed, a file changes from what it held to all of what is being saved,
\* or is deleted by the user. It rests on the order of the steps: what the temporary
\* file holds is Garbled until it is filled, and only then is it renamed.
THEOREM FilesAreNeverTorn == Spec => FilesChangeWhole
  <1> DEFINE Whole(f) == \/ BeingWritten(f) /\ disk'[f] = write.data
                         \/ f \in deleted' /\ disk'[f] = None
  <1>1. IInv /\ [Next]_appVars => [\A f \in File : disk'[f] # disk[f] => Whole(f)]_appVars
    <2> SUFFICES ASSUME IInv, Next, NEW f \in File, disk'[f] # disk[f]
                 PROVE  Whole(f)
      BY DEF appVars
    <2>1. TypeOK
      BY DEF IInv
    <2>2. CASE UNCHANGED disk
      BY <2>2
    <2>3. CASE \E m \in MacroId : DeleteMacro(m)
      BY <2>1, <2>3 DEF DeleteMacro, DeleteFile, TypeOK
    <2>4. CASE write # None /\ Replaced
      BY <2>1, <2>4 DEF Replaced, TypeOK, BeingWritten
    <2> QED
      <3>1. UNCHANGED disk \/ (\E m \in MacroId : DeleteMacro(m)) \/ (write # None /\ Replaced)
        <4>1. CASE Start
          BY <4>1 DEF Start, Seed, Seeded, Load, BeginWrite, WriteAborted, storeVars
        <4>2. CASE SaveEnds
          BY <4>2 DEF SaveEnds, SaveDone, SaveFails, WriteAborted
        <4>3. CASE InEditor \/ Meanwhile \/ InPreferences
          BY <4>3 DEF InEditor, EditActions, EditField, RemoveStep, Record, UndoStep, Edit, Back,
             OpenFromList, DuplicateMacro, Rename, RenameMacro, ImportMacro, AddMacro, SaveMacro,
             Meanwhile, TimerFires, CreateMacro, InPreferences, SetEnabled, SetOther, SetSettings,
             BeginWrite, storeVars
        <4>4. CASE InList
          BY <4>4 DEF InList, Delete
        <4>5. CASE InMappings
          BY <4>5 DEF InMappings, Toggle, DuplicateBinding, DeleteBinding, EditBinding, UndoDelete,
             NewBinding, UseDialog, SaveDialog, CancelDialog, OpenDialog, ChangeDraft, ChooseKind,
             ChooseMacro, ChooseOutput, ChooseEnabled, SetBindings, BeginWrite, storeVars
        <4>6. CASE End \/ SaveGoesOn
          BY <4>6 DEF SaveGoesOn, FillGoesOn, FillTemporary, End, Quit, Crash, Killed, CloseWindow, SaveMacro, BeginWrite, storeVars
        <4> QED
          BY <4>1, <4>2, <4>3, <4>4, <4>5, <4>6 DEF Next
      <3> QED
        BY <2>2, <2>3, <2>4, <3>1
  <1> QED
    BY <1>1, Invariant, PTL DEF Spec, Safety, FilesChangeWhole

\* Closing the window saves the edit of the editor on top that the window
\* knows, or has tried to (window.py:376).
THEOREM ClosingLosesNothing == Spec => ClosingSaves
  <1>1. IInv /\ [Next]_appVars =>
            [app = "on" /\ app' = "closed" /\ tracked # None
                => disk'[tracked] = object[tracked] \/ tracked \in failed' \/ tracked \in deleted]_appVars
    <2> SUFFICES ASSUME IInv, Next, app = "on", app' = "closed", tracked # None
                 PROVE  disk'[tracked] = object[tracked] \/ tracked \in failed'
      BY DEF appVars
    <2> USE DEF IInv
    <2>1. tracked \in listed /\ tracked \in MacroId
      BY EditorFacts
    <2>2. CASE SaveEnds
      <3>1. write # None /\ write.job.kind = "close"
        BY <2>2, AfterSaveCases DEF SaveEnds, SaveDone, SaveFails
      <3>2. write.file = tracked /\ write.data = object[tracked]
        BY <2>1, <3>1 DEF WriteInv
      <3>3. write.file \in failed' \/ disk'[write.file] = write.data
        BY <2>2, <3>1, SaveOutcome DEF SaveEnds
      <3> QED
        BY <3>2, <3>3
    <2>3. CASE CloseWindow
      <3>1. tracked \notin timer
        BY <2>3 DEF CloseWindow, SaveMacro
      <3>2. write = None /\ UNCHANGED <<disk, failed>>
        BY <2>3, <3>1 DEF CloseWindow, Command, Idle, storeVars
      <3> QED
        BY <2>1, <3>1, <3>2 DEF SavedOrPending, BeingWritten
    <2>4. CASE Quit \/ Crash
      BY <2>4 DEF Quit, Crash, Exit, Forget
    <2>5. CASE Start \/ SaveGoesOn
      BY <2>5 DEF SaveGoesOn, FillGoesOn, Start, Seed, Seeded, Load, Off, libVars
    <2>6. CASE InEditor \/ Meanwhile \/ InPreferences \/ InList
      BY <2>6 DEF InEditor, EditActions, EditField, RemoveStep, Record, UndoStep, Edit, Back,
         OpenFromList, DuplicateMacro, Rename, RenameMacro, ImportMacro, AddMacro, SaveMacro,
         Meanwhile, TimerFires, CreateMacro, InPreferences, SetEnabled, SetOther, SetSettings,
         InList, Delete, DeleteMacro, libVars
    <2>7. CASE InMappings
      BY <2>7 DEF InMappings, Toggle, DuplicateBinding, DeleteBinding, EditBinding, UndoDelete,
         NewBinding, UseDialog, SaveDialog, CancelDialog, OpenDialog, ChangeDraft, ChooseKind,
         ChooseMacro, ChooseOutput, ChooseEnabled, SetBindings, libVars
    <2> QED
      BY <2>2, <2>3, <2>4, <2>5, <2>6, <2>7 DEF Next, End
  <1> QED
    BY <1>1, Invariant, PTL DEF Spec, Safety, ClosingSaves
=============================================================================
