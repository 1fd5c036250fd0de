----------------------------- MODULE Authoring -----------------------------
(* A macro is edited in the form, and what is recorded in the dialog over it *)
(* is appended to it (_on_record of ui/window.py, append_actions of          *)
(* ui/pages/editor.py).                                                      *)
EXTENDS ActionForm, Recording

CONSTANT InitialFiles  \* what the file of the macro, or an import, may hold

\* A file has a list of actions, each with a type, parameters and perhaps a
\* switch, and whole numbers for the playback: an entry that is no action is
\* skipped, a switch counts by its truth, and what is no number as absent.
\* Durations are whole numbers and the keys of a combination a list.
ASSUME AuthoringAssumption ==
    \A file \in InitialFiles :
        /\ file.actions \in Seq(ToSet(file.actions))
        /\ \A a \in ToSet(file.actions) :
                /\ "enabled" \in DOMAIN a => a.enabled \in BOOLEAN
                /\ a.type \in ActionType =>
                    \A p \in DOMAIN a.params :
                        /\ p \in Times => a.params[p] \in Int
                        /\ p = "keys" => a.params[p] \in Seq(ToSet(a.params[p]))
        /\ file.playback.repeat_count \in Int /\ file.playback.gap_ms \in Int

vars == <<formVars, recordingVars>>

Init ==
    /\ \E file \in InitialFiles : FormInit(MacroFromFile(file))
    /\ RecordingInit

\* Bound: only a macro that was not edited yet is recorded into.
Record ==
    /\ OnForm /\ edits = 0 /\ Len(macro.actions) + MaxRecorded <= MaxActions
    /\ OpenRecorder
    /\ UNCHANGED <<macro, banner, dialog, removed>>

\* The recording is in the macro when the dialog has closed.
SaveRecording ==
    /\ CanSave /\ CloseRecorder
    /\ SetActions(macro.actions \o CapturedActions)
    /\ UNCHANGED <<dialog, removed, edits>>

Next ==
    \/ ~shown /\ FormStep /\ UNCHANGED recordingVars
    \/ Record
    \/ SaveRecording
    \/ (Input \/ DialogStep \/ CloseRecorder) /\ UNCHANGED formVars

Safety == Init /\ [][Next]_vars
=============================================================================
