----------------------------- MODULE MacroPages -----------------------------
(* The list of macros, the editor of one macro and the window around them    *)
(* (ui/pages/macros.py, ui/pages/editor.py, ui/window.py), with the pages of *)
(* bindings and of settings (MappingPages) in the same window.               *)
(*                                                                           *)
(* An edit changes the macro object at once and starts a timer; the timer,   *)
(* or leaving the page, saves. A page that was left lives on as long as a    *)
(* toast offers to undo one of its deletions. A dialog that asks before a    *)
(* command is merged with the command: the shortcuts for a new macro and for *)
(* quitting work while it is open, so it may take effect with another editor *)
(* on top than the one it was opened from.                                   *)
EXTENDS Library, SequencesExt, Integers

CONSTANTS Step,        \* actions of macros
          MaxSteps,    \* bound on the actions of one macro
          MaxCommands  \* bound on what the user does in all

VARIABLES nav,       \* the editors on the navigation stack, by macro
          tracked,   \* the editor the window knows of (_editor)
          timer,     \* editors with a delayed save (_save_source)
          undos,     \* toasts that offer to undo a deletion in an editor
          undone,    \* history: macros with a step restored after their editor was left
          commands   \* number of things the user has done

pageVars == <<nav, tracked, timer, undos, undone>>

PagesInit ==
    /\ nav = <<>> /\ tracked = None /\ timer = {} /\ undos = {}
    /\ undone = {} /\ commands = 0

\* What the user does while nothing is being saved.
Command == Idle /\ commands < MaxCommands /\ commands' = commands + 1

OnTop(m) == nav # <<>> /\ Last(nav) = m

---------------------------------------------------------------------------
(* The editor.                                                               *)

\* What the menu of the row at index i and a drop on it make of the actions.
Rearranged(a, i) ==
    {InsertAt(RemoveAt(a, j), i, a[j]) : j \in DOMAIN a}
    \cup {InsertAt(a, i + 1, a[i])}
    \cup UNION {{InsertAt(a, i, s), InsertAt(a, i + 1, s), ReplaceAt(a, i, s)} : s \in Step}

Edited(a) ==
    {Append(a, s) : s \in Step} \cup {b \in {<<>>} : a # <<>>} \cup UNION {Rearranged(a, i) : i \in DOMAIN a}

\* Seeded bug: an edit does not start the timer when another editor has one.
EditOfOne(m, actions) ==
    /\ Len(actions) <= MaxSteps
    /\ object' = [object EXCEPT ![m].actions = actions]
    /\ timer' = IF timer = {} THEN {m} ELSE timer
    /\ UNCHANGED <<storeVars, app, listed, bindings, settings, failed, deleted, nav, tracked>>

\* Every edit ends by rendering the page again and starting the timer anew.
Edit(m, actions) ==
    /\ Len(actions) <= MaxSteps
    /\ object' = [object EXCEPT ![m].actions = actions]
    /\ timer' = timer \cup {m}
    /\ UNCHANGED <<storeVars, app, listed, bindings, settings, failed, deleted, nav, tracked>>

\* Clearing all asks first, and the answer may come when another editor is on top.
EditActions(m) ==
    /\ Command /\ m \in ToSet(nav)
    /\ \E a \in Edited(object[m].actions) : (OnTop(m) \/ a = <<>>) /\ Edit(m, a)
    /\ UNCHANGED <<undos, undone>>

\* Seeded bug: a change of a field is left to the next edit to save.
EditFieldUnsaved(m) ==
    /\ Command /\ OnTop(m)
    /\ object' = [object EXCEPT ![m].title = IF @ = "old" THEN "new" ELSE "old"]
    /\ UNCHANGED <<storeVars, app, listed, bindings, settings, failed, deleted, pageVars>>

\* Name, description, playback, repeats, gap and trigger: a field at a time.
EditField(m) ==
    /\ Command /\ OnTop(m)
    /\ object' = [object EXCEPT ![m].title = IF @ = "old" THEN "new" ELSE "old"]
    /\ timer' = timer \cup {m}
    /\ UNCHANGED <<storeVars, app, listed, bindings, settings, failed, deleted, nav, tracked, undos, undone>>

RemoveStep(m) ==
    /\ Command /\ OnTop(m)
    /\ \E i \in DOMAIN object[m].actions :
        /\ Edit(m, RemoveAt(object[m].actions, i))
        /\ undos' = undos \cup {[macro |-> m, index |-> i, step |-> object[m].actions[i]]}
    /\ UNCHANGED undone

\* Undo puts the step back where it was, or last if the list is shorter now. A
\* toast that runs out is one that is not used.
Restored(u) ==
    LET a == object[u.macro].actions
    IN  InsertAt(a, IF u.index > Len(a) THEN Len(a) + 1 ELSE u.index, u.step)

UndoStep(u) ==
    /\ Command /\ u \in undos
    /\ Edit(u.macro, Restored(u))
    /\ undos' = undos \ {u}
    /\ undone' = IF u.macro \in ToSet(nav) THEN undone ELSE undone \cup {u.macro}

\* A finished recording is appended if the window still has the editor it was
\* made in; else it is dropped without a word.
Record(m) ==
    /\ Command /\ m \in ToSet(nav)
    /\ \E s \in Step : IF tracked = m THEN Edit(m, Append(object[m].actions, s))
                                      ELSE UNCHANGED <<storeVars, libVars, nav, tracked, timer>>
    /\ UNCHANGED <<undos, undone>>

\* The timer of an editor runs out.
TimerFires(m) ==
    /\ Idle /\ m \in timer
    /\ timer' = timer \ {m}
    /\ SaveMacro(m, object[m], [kind |-> "edit"])
    /\ UNCHANGED <<object, listed, nav, tracked, undos, undone, commands>>

---------------------------------------------------------------------------
(* The window and the list.                                                  *)

Push(m) ==
    /\ nav' = Append(nav, m)
    /\ tracked' = m

OpenFromList(m) ==
    /\ Command /\ nav = <<>> /\ m \in listed
    /\ Push(m)
    /\ UNCHANGED <<storeVars, libVars, timer, undos, undone>>

\* Seeded bug: leaving the page does not save.
BackUnsaved ==
    /\ Command /\ nav # <<>>
    /\ nav' = Front(nav)
    /\ tracked' = IF tracked = Last(nav) THEN None ELSE tracked
    /\ UNCHANGED <<storeVars, libVars, timer, undos, undone>>

\* The page popped saves its pending edit, when it is popped or hidden.
Back ==
    /\ Command /\ nav # <<>>
    /\ nav' = Front(nav)
    /\ tracked' = IF tracked = Last(nav) THEN None ELSE tracked
    /\ timer' = timer \ {Last(nav)}
    /\ IF Last(nav) \in timer
       THEN /\ SaveMacro(Last(nav), object[Last(nav)], [kind |-> "edit"])
            /\ UNCHANGED <<object, listed>>
       ELSE UNCHANGED <<storeVars, libVars>>
    /\ UNCHANGED <<undos, undone>>

\* Also a shortcut, in whatever state the window is.
CreateMacro ==
    /\ Command /\ Unused # {}
    /\ AddMacro(NewId, Blank, [kind |-> "create", macro |-> NewId])
    /\ UNCHANGED pageVars

DuplicateMacro(m) ==
    /\ Command /\ Unused # {} /\ m \in listed \ ToSet(nav)
    /\ AddMacro(NewId, [object[m] EXCEPT !.title = "new"], [kind |-> "add"])
    /\ UNCHANGED pageVars

\* A preset without actions is refused, and so is a file that is none.
ImportMacro ==
    /\ Command /\ Unused # {}
    /\ \E s \in Step : AddMacro(NewId, [title |-> "old", actions |-> <<s>>], [kind |-> "add"])
    /\ UNCHANGED pageVars

Rename(m) ==
    /\ Command /\ m \in listed \ ToSet(nav)
    /\ RenameMacro(m)
    /\ UNCHANGED pageVars

Delete(m) ==
    /\ Command /\ m \in listed \ ToSet(nav)
    /\ DeleteMacro(m)
    /\ UNCHANGED pageVars

\* The process ends: what its timers had to save is lost.
Exit(how) ==
    /\ Forget(how)
    /\ nav' = <<>> /\ tracked' = None /\ timer' = {} /\ undos' = {}
    /\ UNCHANGED undone

\* Seeded bug: the window closes without looking at the editor.
CloseAtOnce == Command /\ Exit("closed") /\ UNCHANGED <<storeVars, failed>>

\* Closing the window saves the pending edit of the editor the window knows.
CloseWindow ==
    /\ Command
    /\ IF tracked \in timer
       THEN /\ timer' = timer \ {tracked}
            /\ SaveMacro(tracked, object[tracked], [kind |-> "close"])
            /\ UNCHANGED <<object, listed, nav, tracked, undos, undone>>
       ELSE Exit("closed") /\ UNCHANGED <<storeVars, failed>>

\* Quitting by its shortcut.
Quit == Command /\ Exit("off") /\ UNCHANGED <<storeVars, failed>>

\* The process is killed.
Crash ==
    /\ ~Off /\ commands < MaxCommands /\ commands' = commands + 1
    /\ Killed /\ Exit("off") /\ UNCHANGED failed

---------------------------------------------------------------------------
(* What the pages do when a save is over. A macro just created is opened,    *)
(* after the pending edit of the editor it covers is saved; the page covered *)
(* saves by itself when it is hidden if the window does not know it.         *)

AfterSave(job, ok) ==
    LET covered == Last(nav) IN
    CASE job.kind = "create" /\ ok /\ nav # <<>> /\ covered \in timer ->
            /\ write' = Writing(covered, object[covered], Garbled,
                                [kind |-> "open", macro |-> job.macro])
            /\ timer' = timer \ {covered}
            /\ UNCHANGED <<app, object, listed, bindings, settings, deleted, nav, tracked, undos, undone>>
      [] (job.kind = "create" /\ ok /\ ~(nav # <<>> /\ covered \in timer)) \/ job.kind = "open" ->
            /\ Push(job.macro) /\ write' = None
            /\ UNCHANGED <<app, object, listed, bindings, settings, deleted, timer, undos, undone>>
      [] job.kind = "close" ->
            Exit("closed") /\ write' = None
      [] OTHER ->
            /\ write' = None
            /\ UNCHANGED <<app, object, listed, bindings, settings, deleted, pageVars>>
=============================================================================
