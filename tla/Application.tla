---------------------------- MODULE Application ----------------------------
(* The window as a whole: it starts, the user edits macros, bindings and     *)
(* settings in any order, files are written or cannot be, and it ends by     *)
(* being closed, quit or killed, to be started again on what it left.        *)
EXTENDS MappingPages

CONSTANT InitialDisks   \* what the files may hold at first

\* What a file of each kind can hold.
Macro == [title : Title, actions : Seq(Step \cup ToSet(Example))]
Binding == [kind : Kinds, macro : MacroId \cup {None}, output : BOOLEAN, enabled : BOOLEAN]
Bindings == [BindingId -> Binding \cup {None}]
Settings == [enabled : BOOLEAN, other : {"default", "changed"}]
Contents(f) ==
    CASE f \in MacroId   -> Macro
      [] f = "bindings"  -> {bs \in Bindings : SavedBindings(bs) = bs}
      [] f = "settings"  -> Settings

\* What is left to do when a save is over.
Job ==
    [kind : {"seed", "edit", "rename", "add", "close", "binding", "settings"}]
    \cup [kind : {"create", "open"}, macro : MacroId]
    \cup [kind : {"remove"}, id : BindingId, binding : Binding]
Data == Macro \cup Bindings \cup Settings
Write == [file : File, data : Data, temp : Data \cup {Garbled}, job : Job]
Draft == [id : BindingId, binding : Binding, new : BOOLEAN, macros : SUBSET MacroId]

\* None and Garbled are none of the values they stand for the absence of, and
\* the files hold at first what the program can have written to them.
ASSUME ApplicationAssumption ==
    /\ None # Garbled
    /\ {None, "bindings", "settings"} \cap MacroId = {}
    /\ \A nothing \in {None, Garbled} :
        /\ nothing \notin Macro /\ nothing \notin Bindings /\ nothing \notin Settings
        /\ nothing \notin Binding
        /\ nothing \notin Write /\ nothing \notin Draft
    /\ DefaultSettings \in Settings
    /\ Example \in Seq(ToSet(Example))
    /\ \A d \in InitialDisks :
        /\ d = [f \in File |-> d[f]]
        /\ \A f \in File : d[f] \in Contents(f) \cup {None, Garbled}

appVars == <<storeVars, libVars, pageVars, commands, mapVars>>

Init ==
    /\ disk \in InitialDisks
    /\ LibInit /\ PagesInit /\ MapInit

Start ==
    \/ (Seed \/ Seeded) /\ UNCHANGED <<pageVars, commands, mapVars>>
    \/ Load /\ Refresh(bindings') /\ UNCHANGED <<pageVars, commands, draft, removed>>

\* The save under way goes on.
SaveGoesOn == FillGoesOn /\ UNCHANGED <<pageVars, commands, mapVars>>

\* The save under way ends, well or not.
SaveEnds ==
    /\ app = "on" /\ UNCHANGED commands
    /\ \/ SaveDone /\ AfterSave(write.job, TRUE)
          /\ IF write.job.kind = "close" THEN MapExit ELSE MapAfterSave(write.job, TRUE)
       \/ SaveFails /\ AfterSave(write.job, FALSE)
          /\ IF write.job.kind = "close" THEN MapExit ELSE MapAfterSave(write.job, FALSE)

InEditor ==
    /\ draft = None
    /\ \/ \E m \in MacroId : EditActions(m) \/ EditField(m) \/ RemoveStep(m) \/ Record(m)
       \/ \E u \in undos : UndoStep(u)
       \/ Back
       \/ \E m \in MacroId : OpenFromList(m) \/ DuplicateMacro(m) \/ Rename(m)
       \/ ImportMacro
    /\ UNCHANGED mapVars

\* Timers run out, and the shortcuts work, whatever is open.
Meanwhile ==
    /\ \/ \E m \in MacroId : TimerFires(m)
       \/ CreateMacro
    /\ UNCHANGED mapVars

InList ==
    /\ draft = None
    /\ \E m \in MacroId : Delete(m)
    /\ Refresh(bindings) /\ UNCHANGED <<draft, removed>>

InMappings ==
    \/ \E b \in BindingId : Toggle(b) \/ DuplicateBinding(b) \/ DeleteBinding(b) \/ EditBinding(b)
    \/ \E r \in removed : UndoDelete(r)
    \/ NewBinding \/ UseDialog \/ SaveDialog \/ CancelDialog

InPreferences == (\E v \in BOOLEAN : SetEnabled(v)) \/ SetOther

End ==
    \/ (Quit \/ Crash) /\ MapExit
    \/ CloseWindow /\ IF app' = "on" THEN UNCHANGED mapVars ELSE MapExit

Next ==
    \/ Start \/ SaveGoesOn \/ SaveEnds \/ InEditor \/ Meanwhile \/ InList
    \/ InMappings \/ InPreferences \/ End

Safety == Init /\ [][Next]_appVars

\* A delayed save is made and a file that is being written gets written or
\* not: GLib runs its timers, and the calls of the file system return.
Fairness == /\ WF_appVars(SaveGoesOn \/ SaveEnds)
            /\ \A m \in MacroId : WF_appVars(TimerFires(m) /\ UNCHANGED mapVars)

Spec == Safety /\ Fairness

---------------------------------------------------------------------------
\* Type invariant: files, objects and saves under way hold values of their
\* kind.
TypeOK ==
    /\ disk = [f \in File |-> disk[f]]
    /\ \A f \in File : disk[f] \in Contents(f) \cup {None, Garbled}
    /\ write # None => /\ write.file \in File /\ write.data \in Contents(write.file)
                       /\ write.temp \in {Garbled, write.data} /\ write.job \in Job
    /\ app \in {"off", "closed", "starting", "on"}
    /\ object \in [MacroId -> Macro \cup {None}]
    /\ listed \subseteq MacroId /\ deleted \subseteq MacroId /\ failed \subseteq File
    /\ bindings \in Bindings /\ settings \in Settings
    /\ nav \in Seq(MacroId) /\ tracked \in MacroId \cup {None}
    /\ timer \subseteq MacroId /\ undone \subseteq MacroId
    /\ undos \subseteq [macro : MacroId, index : Nat \ {0}, step : Step \cup ToSet(Example)]
    /\ rows \in Bindings /\ orphans \subseteq BindingId
    /\ draft \in Draft \cup {None}
    /\ removed \subseteq [id : BindingId, binding : Binding]

BeingWritten(f) == write # None /\ write.file = f

\* "A crash or a full disk leaves the previous file intact rather than a truncated
\* one" (store.py:5): whichever step of a write fails, and between whichever two the
\* process is killed, a file changes from what it held to all of what is being
\* saved, or is deleted by the user.
FilesChangeWhole ==
    [][\A f \in File : disk'[f] # disk[f] =>
            \/ BeingWritten(f) /\ disk'[f] = write.data
            \/ f \in deleted' /\ disk'[f] = None]_appVars

\* No change is left behind (editor.py:497, library.py:160): what the memory
\* holds is in the file, or its editor has a save pending, or it is being
\* written, or the last attempt to write it has failed.
SavedOrPending ==
    app = "on" =>
        /\ \A m \in listed :
            disk[m] = object[m] \/ m \in timer \/ m \in failed \/ BeingWritten(m)
        /\ \/ LoadOr("bindings", NoBindings) = SavedBindings(bindings)
           \/ "bindings" \in failed \/ BeingWritten("bindings")
        /\ \/ LoadOr("settings", DefaultSettings) = settings
           \/ "settings" \in failed \/ BeingWritten("settings")

\* Unless a save failed, the page of the bindings shows those of the library,
\* each row holding its object, so that its switch and menu act on the library
\* (mappings.py:94).
RowsAreTheBindings ==
    Idle /\ "bindings" \notin failed => rows = bindings /\ orphans = {}

\* A macro that was deleted has no file, and gets none from an edit that was
\* pending (macros.py:256, editor.py:511); only the undo of a step, used after
\* the editor was left, writes it again.
DeletedForGood == \A m \in deleted : disk[m] = None \/ m \in undone

\* What the dialog says: the macro "will be permanently deleted" (macros.py:258).
DeletedStaysDeleted == \A m \in deleted : disk[m] = None

\* Seeding "cannot resurrect presets the user deleted", says its docstring
\* (store.py:240): who has deleted macros is given no presets. To be read with
\* a first start, where the presets are among what can be deleted.
PresetsStayDeleted == write # None /\ write.job.kind = "seed" => deleted = {}

\* Closing the window saves the last edit of the editor on top that the window
\* knows, or tries to (window.py:376).
ClosingSaves ==
    [][app = "on" /\ app' = "closed" /\ tracked # None
        => disk'[tracked] = object[tracked] \/ tracked \in failed' \/ tracked \in deleted]_appVars

\* An edit reaches the file, unless writing fails or the process ends before.
EditReachesFile ==
    \A m \in MacroId :
        (m \in listed /\ disk[m] # object[m]) ~> (disk[m] = object[m] \/ m \in failed \/ Off)
=============================================================================
