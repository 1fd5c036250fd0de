---------------------------- MODULE MappingPages ----------------------------
(* The page of the bindings, the dialog that edits one, and the preferences  *)
(* (ui/pages/mappings.py, ui/dialogs/binding_editor.py, preferences.py).     *)
(*                                                                           *)
(* A row of the page holds a binding object. As long as it is the object of  *)
(* the library, changing one changes the other; replaced or removed from the *)
(* library by a command whose save failed, it is an object of its own.       *)
EXTENDS MacroPages

VARIABLES rows,     \* the binding each row of the page holds
          orphans,  \* rows whose object is not (any more) in the library
          draft,    \* the dialog: the binding it edits and the macros it offers
          removed   \* toasts that offer to bring a binding back

mapVars == <<rows, orphans, draft, removed>>

Kinds == {"run_macro", "remap", "disable"}

MapInit == rows = NoBindings /\ orphans = {} /\ draft = None /\ removed = {}

UnusedBindings ==
    {b \in BindingId : /\ bindings[b] = None /\ rows[b] = None
                       /\ \A r \in removed : r.id # b}
NewBindingId == CHOOSE b \in UnusedBindings : TRUE

\* The page is rebuilt: every row holds the object of the library.
Refresh(bs) == rows' = bs /\ orphans' = {}

\* The first entry of the list of macros: the instances have no names, so any
\* fixed choice does.
First(macros) == CHOOSE m \in macros : TRUE

\* The macro the dialog shows as chosen.
Shown(d) == IF d.binding.macro \in d.macros THEN d.binding.macro ELSE First(d.macros)

IsComplete(b) ==
    CASE RunsMacro(b)       -> b.macro # None
      [] b.kind = "remap"   -> b.output
      [] OTHER              -> TRUE

Commanded == Command /\ draft = None /\ UNCHANGED pageVars

---------------------------------------------------------------------------
(* The page.                                                                 *)

\* Its switch changes the object of the row.
Toggle(b) ==
    /\ Commanded /\ rows[b] # None
    /\ rows' = [rows EXCEPT ![b].enabled = ~@]
    /\ SetBindings(IF b \in orphans THEN bindings ELSE [bindings EXCEPT ![b].enabled = ~@],
                   [kind |-> "binding"])
    /\ UNCHANGED <<orphans, draft, removed>>

DuplicateBinding(b) ==
    /\ Commanded /\ rows[b] # None /\ UnusedBindings # {}
    /\ SetBindings([bindings EXCEPT ![NewBindingId] = rows[b]], [kind |-> "binding"])
    /\ UNCHANGED mapVars

\* Removed from memory, then saved; the undo is offered only if that worked.
DeleteBinding(b) ==
    /\ Commanded /\ rows[b] # None
    /\ SetBindings([bindings EXCEPT ![b] = None],
                   [kind |-> "remove", id |-> b, binding |-> rows[b]])
    /\ orphans' = orphans \cup {b}
    /\ UNCHANGED <<rows, draft, removed>>

\* Undo adds the object again, at the end of the list.
UndoDelete(r) ==
    /\ Commanded /\ r \in removed
    /\ removed' = removed \ {r}
    /\ SetBindings([bindings EXCEPT ![r.id] = r.binding], [kind |-> "binding"])
    /\ UNCHANGED <<rows, orphans, draft>>

---------------------------------------------------------------------------
(* The dialog.                                                               *)

OpenDialog(b, binding, new) ==
    /\ draft' = [id |-> b, binding |-> binding, new |-> new, macros |-> listed]
    /\ UNCHANGED <<storeVars, libVars, rows, orphans, removed>>

NewBinding ==
    /\ Commanded /\ UnusedBindings # {}
    /\ OpenDialog(NewBindingId,
                  [kind    |-> IF listed = {} THEN "remap" ELSE "run_macro",
                   macro   |-> IF listed = {} THEN None ELSE First(listed),
                   output  |-> FALSE,
                   enabled |-> TRUE],
                  TRUE)

EditBinding(b) == Commanded /\ rows[b] # None /\ OpenDialog(b, rows[b], FALSE)

ChangeDraft(binding) ==
    /\ Command /\ draft # None
    /\ draft' = [draft EXCEPT !.binding = binding]
    /\ UNCHANGED <<storeVars, libVars, pageVars, rows, orphans, removed>>

\* Choosing to run a macro, with none chosen before, chooses the first.
ChooseKind ==
    \E k \in Kinds \ {draft.binding.kind} :
        ChangeDraft([draft.binding EXCEPT
            !.kind = k,
            !.macro = IF k = "run_macro" /\ @ = None /\ draft.macros # {}
                      THEN First(draft.macros) ELSE @])

\* The list reports a change only: what it shows already cannot be chosen.
ChooseMacro ==
    /\ RunsMacro(draft.binding) /\ draft.macros # {}
    /\ \E m \in draft.macros \ {Shown(draft)} : ChangeDraft([draft.binding EXCEPT !.macro = m])

ChooseOutput ==
    /\ draft.binding.kind = "remap"
    /\ \E some \in BOOLEAN : ChangeDraft([draft.binding EXCEPT !.output = some])

ChooseEnabled == ChangeDraft([draft.binding EXCEPT !.enabled = ~@])

CancelDialog ==
    /\ Idle /\ draft # None /\ draft' = None
    /\ UNCHANGED <<storeVars, libVars, pageVars, commands, rows, orphans, removed>>

\* Saving adds a new binding, or replaces the one of the library that has the
\* id; if that is gone by now, the draft is dropped and the rest is saved.
SaveDialog ==
    /\ Command /\ draft # None /\ IsComplete(draft.binding)
    /\ LET gone == ~draft.new /\ bindings[draft.id] = None IN
        /\ SetBindings(IF gone THEN bindings ELSE [bindings EXCEPT ![draft.id] = draft.binding],
                       [kind |-> "binding"])
        /\ orphans' = IF draft.new \/ rows[draft.id] = None THEN orphans
                      ELSE orphans \cup {draft.id}
    /\ draft' = None
    /\ UNCHANGED <<pageVars, rows, removed>>

UseDialog == draft # None /\ (ChooseKind \/ ChooseMacro \/ ChooseOutput \/ ChooseEnabled)

---------------------------------------------------------------------------
(* The preferences.                                                          *)

\* The master switch does nothing if the settings have that value already.
SetEnabled(v) ==
    /\ Commanded /\ settings.enabled # v
    /\ SetSettings([settings EXCEPT !.enabled = v])
    /\ UNCHANGED mapVars

\* The other settings, taken as one value: the gap of new macros, recording,
\* the emergency stop and its combination, which is never empty, and whether
\* starting at login was asked for and granted. Each handler assigns its field.
SetOther ==
    /\ Commanded
    /\ SetSettings([settings EXCEPT !.other = IF @ = "default" THEN "changed" ELSE "default"])
    /\ UNCHANGED mapVars

---------------------------------------------------------------------------
(* Both pages are rebuilt when the library says that macros or bindings have *)
(* changed, which it says of a save that succeeded and of a deletion.        *)

\* Seeded bug: the page listens to changes of the macros only.
MapAfterSaveOfMacro(job, ok) ==
    /\ IF ok /\ write.file \in MacroId THEN Refresh(bindings) ELSE UNCHANGED <<rows, orphans>>
    /\ removed' = IF ok /\ job.kind = "remove"
                  THEN removed \cup {[id |-> job.id, binding |-> job.binding]} ELSE removed
    /\ UNCHANGED draft

MapAfterSave(job, ok) ==
    /\ IF ok /\ write.file # "settings" THEN Refresh(bindings) ELSE UNCHANGED <<rows, orphans>>
    /\ removed' = IF ok /\ job.kind = "remove"
                  THEN removed \cup {[id |-> job.id, binding |-> job.binding]} ELSE removed
    /\ UNCHANGED draft

MapExit == rows' = NoBindings /\ orphans' = {} /\ draft' = None /\ removed' = {}
=============================================================================
