----------------------------- MODULE ActionForm ----------------------------
(* The form that edits one macro: the rows of its actions                    *)
(* (ui/widgets/action_row.py), the dialogs that choose keys, combinations,   *)
(* applications and positions (ui/dialogs/key_chooser.py, combo_editor.py,   *)
(* app_chooser.py, position_picker.py), the playback page and the banner     *)
(* (ui/pages/editor.py).                                                     *)
(*                                                                           *)
(* A dialog covers the form, and what was chosen in it arrives by an idle    *)
(* callback before the form can be used again, so choosing and the callback  *)
(* are one step. Drawing is left out, but for the banner. When the macro is  *)
(* saved is in module MacroPages.                                            *)
EXTENDS MacroModel

CONSTANTS App,         \* installed applications
          MaxActions,  \* bound on the actions of the macro
          MaxKeys,     \* bound on the keys of a combination
          MaxEdits     \* bound on the edits

VARIABLES macro,    \* the macro that is edited
          banner,   \* what the banner shows
          dialog,   \* the dialog over the form, or None
          removed,  \* the step the toast offers to put back, or None
          edits     \* number of edits

formVars == <<macro, banner, dialog, removed, edits>>

FormInit(m) ==
    /\ macro = m /\ banner = Banner(m) /\ dialog = None /\ removed = None /\ edits = 0

Editing == edits < MaxEdits /\ edits' = edits + 1
OnForm == Editing /\ dialog = None

\* The form validates the macro again after the change.
Rendered(m) == macro' = m /\ banner' = Banner(m)

SetActions(s) == Len(s) <= MaxActions /\ Rendered([macro EXCEPT !.actions = s])
SetAction(i, a) == SetActions([macro.actions EXCEPT ![i] = a])
SetParam(i, p, v) == SetAction(i, [macro.actions[i] EXCEPT !.params[p] = v])

---------------------------------------------------------------------------
(* The list of actions.                                                      *)

AppendAction(type) ==
    /\ OnForm /\ SetActions(Append(macro.actions, Create(type, <<>>)))
    /\ UNCHANGED <<dialog, removed>>

\* The menu and the arrows of row i, and a drop of row j on it.
OnActionCommand(i) ==
    LET a == macro.actions wait == Create("wait", <<>>) IN
    /\ OnForm
    /\ \/ SetActions(InsertAt(a, i + 1, a[i]))
       \/ SetActions(InsertAt(a, i, wait))
       \/ SetActions(InsertAt(a, i + 1, wait))
       \/ \E j \in DOMAIN a \ {i} : SetActions(InsertAt(RemoveAt(a, j), i, a[j]))
    /\ UNCHANGED <<dialog, removed>>

DeleteAction(i) ==
    /\ OnForm /\ SetActions(RemoveAt(macro.actions, i))
    /\ removed' = [index |-> i, action |-> macro.actions[i]]
    /\ UNCHANGED dialog

\* The toast restores the step at its place, or last.
UndoDeletion ==
    /\ OnForm /\ removed # None /\ removed' = None
    /\ LET n == Len(macro.actions) IN
       SetActions(InsertAt(macro.actions, IF removed.index > n THEN n + 1 ELSE removed.index,
                           removed.action))
    /\ UNCHANGED dialog

ClearActions ==
    /\ OnForm /\ macro.actions # <<>> /\ SetActions(<<>>)
    /\ UNCHANGED <<dialog, removed>>

---------------------------------------------------------------------------
(* The row of one action.                                                    *)

\* Seeded bug: the parameters of the old type are carried across.
ChangeTypeKeepingParams(i, type) ==
    /\ OnForm /\ macro.actions[i].type # type
    /\ SetAction(i, [macro.actions[i] EXCEPT !.type = type, !.params = Updated(Defaults[type], @)])
    /\ UNCHANGED <<dialog, removed>>

ChangeType(i, type) ==
    /\ OnForm /\ macro.actions[i].type # type
    /\ SetAction(i, [macro.actions[i] EXCEPT !.type = type, !.params = Defaults[type]])
    /\ UNCHANGED <<dialog, removed>>

\* A spin row gives values of its range only; what a file holds may be beyond.
ChangeNumber(i, p) ==
    /\ OnForm
    /\ \E v \in {0, 1} \ {macro.actions[i].params[p]} : SetParam(i, p, v)
    /\ UNCHANGED <<dialog, removed>>

ToggleHorizontal(i) ==
    /\ OnForm /\ SetParam(i, "horizontal", ~macro.actions[i].params.horizontal)
    /\ UNCHANGED <<dialog, removed>>

ToggleEnabled(i) ==
    /\ OnForm /\ SetAction(i, [macro.actions[i] EXCEPT !.enabled = ~@])
    /\ UNCHANGED <<dialog, removed>>

EditRow(i) ==
    LET params == DOMAIN macro.actions[i].params IN
    \/ OnActionCommand(i)
    \/ DeleteAction(i)
    \/ \E type \in ActionType : ChangeType(i, type)
    \/ \E p \in Numbers \cap params : ChangeNumber(i, p)
    \/ "horizontal" \in params /\ ToggleHorizontal(i)
    \/ ToggleEnabled(i)

---------------------------------------------------------------------------
(* The dialogs of a row. The chooser listens for an input as soon as it is   *)
(* open: then any click chooses its button, also one on the chooser itself.  *)

KeyChooser(i, p) == [kind |-> "key", step |-> i, param |-> p, armed |-> TRUE]
ComboEditor(i) == [kind |-> "combo", step |-> i]

OpenDialog(i) ==
    /\ OnForm
    /\ LET params == DOMAIN macro.actions[i].params IN
       \/ \E p \in {"key", "button"} \cap params : dialog' = KeyChooser(i, p)
       \/ "keys" \in params /\ dialog' = ComboEditor(i)
       \/ "app" \in params /\ dialog' = [kind |-> "app", step |-> i]
       \/ {"x", "y"} \subseteq params /\ dialog' = [kind |-> "position", step |-> i]
    /\ UNCHANGED <<macro, banner, removed>>

\* Escape ends the listening, then closes; leaving the editor of a combination
\* keeps what was done in it.
Dismiss ==
    /\ dialog # None
    /\ dialog' = IF dialog.kind = "key" /\ dialog.armed THEN [dialog EXCEPT !.armed = FALSE]
                 ELSE IF dialog.kind = "key" /\ dialog.param = "keys" THEN ComboEditor(dialog.step)
                 ELSE None
    /\ UNCHANGED <<macro, banner, removed, edits>>

ListenAgain ==
    /\ dialog # None /\ dialog.kind = "key" /\ ~dialog.armed
    /\ dialog' = [dialog EXCEPT !.armed = TRUE]
    /\ UNCHANGED <<macro, banner, removed, edits>>

\* A button row takes no key, neither pressed nor from the list; a key row
\* takes both. What the kernel's table does not name is not taken.
ChooseKey(code) ==
    /\ dialog # None /\ dialog.kind = "key" /\ code \in Known
    /\ dialog.param = "button" => code \in Buttons
    /\ IF dialog.param = "keys"
       THEN LET codes == macro.actions[dialog.step].params.keys IN
            /\ Len(codes) < MaxKeys
            /\ SetParam(dialog.step, "keys", Append(codes, code))
            /\ dialog' = ComboEditor(dialog.step)
       ELSE /\ SetParam(dialog.step, dialog.param, code)
            /\ dialog' = None
    /\ UNCHANGED <<removed, edits>>

\* Every change of a combination is in the macro at once.
EditCombo ==
    /\ Editing /\ dialog # None /\ dialog.kind = "combo"
    /\ LET codes == macro.actions[dialog.step].params.keys IN
       \/ /\ dialog' = KeyChooser(dialog.step, "keys")
          /\ UNCHANGED <<macro, banner>>
       \/ /\ \E i \in DOMAIN codes :
                \/ SetParam(dialog.step, "keys", RemoveAt(codes, i))
                \/ /\ i + 1 \in DOMAIN codes
                   /\ SetParam(dialog.step, "keys", [codes EXCEPT ![i] = codes[i + 1], ![i + 1] = codes[i]])
          /\ UNCHANGED dialog
    /\ UNCHANGED removed

ChooseApp(app) ==
    /\ dialog # None /\ dialog.kind = "app"
    /\ SetParam(dialog.step, "app", app)
    /\ dialog' = None
    /\ UNCHANGED <<removed, edits>>

PickPosition(x, y) ==
    /\ dialog # None /\ dialog.kind = "position"
    /\ LET a == macro.actions[dialog.step] IN
       SetAction(dialog.step, [a EXCEPT !.params.x = x, !.params.y = y])
    /\ dialog' = None
    /\ UNCHANGED <<removed, edits>>

UseDialog ==
    \/ Dismiss \/ ListenAgain \/ EditCombo
    \/ \E code \in Known : ChooseKey(code)
    \/ \E app \in App : ChooseApp(app)
    \/ \E x, y \in {0, 1} : PickPosition(x, y)

---------------------------------------------------------------------------
(* Playback and trigger. A change of the trigger or of the repeats does not  *)
(* validate the macro again.                                                 *)

ChangePlayback ==
    /\ OnForm
    /\ \/ \E mode \in PlaybackMode \ {macro.playback.mode} :
            Rendered([macro EXCEPT !.playback.mode = mode])
       \/ \E gap \in 0 .. MaxGap \ {macro.playback.gap_ms} :
            Rendered([macro EXCEPT !.playback.gap_ms = gap])
    /\ UNCHANGED <<dialog, removed>>

ChangeRepeatOrTrigger ==
    /\ OnForm
    /\ \/ /\ macro.playback.mode = "repeat_count"
          /\ \E n \in 1 .. MaxRepeat : macro' = [macro EXCEPT !.playback.repeat_count = n]
       \/ /\ macro.playback.mode \notin {"while_held", "toggle"}
          /\ \E mode \in TriggerMode : macro' = [macro EXCEPT !.trigger = mode]
    /\ UNCHANGED <<banner, dialog, removed>>

FormStep ==
    \/ \E type \in ActionType : AppendAction(type)
    \/ UndoDeletion \/ ClearActions
    \/ \E i \in DOMAIN macro.actions : EditRow(i) \/ OpenDialog(i)
    \/ UseDialog
    \/ ChangePlayback \/ ChangeRepeatOrTrigger

---------------------------------------------------------------------------
(* Safety.                                                                   *)

\* The banner warns whenever one pass, played as _perform of macros/executor.py
\* plays it, would leave a code down, or the passes follow each other without
\* any pause, or there is nothing to play or a step that does nothing
\* (_render_validation of ui/pages/editor.py, inspect of macros/validate.py).
BannerWarns == Troubled(macro) => banner # "none"

\* "Warn about a repeating macro with no delay anywhere in it"
\* (_check_busy_loop of macros/validate.py): the banner is there whenever the
\* passes follow each other without any pause.
FloodWarned == Floods(macro) => banner # "none"

\* What is edited is what a later start of the application loads
\* (to_dict and from_dict of models/macro.py and models/action.py): the form
\* leaves no action with parameters its type does not have, nor without one.
LoadsAsSaved == MacroFromFile(MacroToFile(macro)) = macro
=============================================================================
