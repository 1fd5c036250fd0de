----------------------------- MODULE Recording -----------------------------
(* The dialog that records a macro (ui/dialogs/recorder.py) and its recorder *)
(* (macros/recorder.py).                                                     *)
(*                                                                           *)
(* The keyboard and the mouse are physical: keys go down and up whether or   *)
(* not the dialog has the focus, and a key held down repeats. The toolkit    *)
(* follows one mouse button at a time and reports the press of another while *)
(* one is down to nobody. Everything runs in the main loop: the lock of the  *)
(* recorder is not contended.                                                *)
EXTENDS MacroModel, FiniteSets

CONSTANTS Key,          \* keys of the keyboard, Escape aside
          Mouse,        \* buttons of the mouse
          MinDelay,     \* recording_min_delay_ms
          MaxClock,     \* bound on the clock
          MaxRecorded   \* bound on the actions of a recording

\* The setting is never negative, and a name of an input is a key or a button.
ASSUME RecordingAssumption ==
    MinDelay \in Nat /\ Key \cap Mouse = {} /\ None \notin Nat /\ None \notin Mouse

VARIABLES shown,     \* the dialog is open
          recording, \* _recording
          captured,  \* _actions
          last,      \* _last_timestamp, or None
          ignoring,  \* _ignoring_click
          keep,      \* _keep_timing
          clock,     \* the monotonic clock
          down,      \* the keys and buttons that are down
          focus,     \* the window has the focus
          clicking,  \* the mouse button the toolkit follows, or None
          first,     \* history: when the first event of this recording came, or None
          unheard    \* history: codes that went up without the recorder being told

recordingVars ==
    <<shown, recording, captured, last, ignoring, keep, clock, down, focus, clicking, first, unheard>>
dialogVars == <<shown, recording, captured, last, ignoring, keep, first>>
inputVars == <<clock, down, focus, clicking>>

RecordingInit ==
    /\ shown = FALSE /\ recording = FALSE /\ captured = <<>> /\ last = None
    /\ ignoring = FALSE /\ keep = FALSE
    /\ clock = 0 /\ down = {} /\ focus = TRUE /\ clicking = None
    /\ first = None /\ unheard = {}

---------------------------------------------------------------------------
(* MacroRecorder.                                                            *)

Gap == IF last = None \/ clock - last < MinDelay THEN <<>>
       ELSE <<Create("wait", [duration_ms |-> clock - last])>>

Event(code, pressed) ==
    IF code \in Buttons
    THEN Create(IF pressed THEN "button_press" ELSE "button_release", [button |-> code])
    ELSE Create(IF pressed THEN "key_press" ELSE "key_release", [key |-> code])

\* Seeded bug: the time between two events is counted from the first one.
FeedFromFirst(code, pressed) ==
    IF recording /\ code \in Known
    THEN /\ Len(captured) < MaxRecorded
         /\ captured' = captured \o Gap \o <<Event(code, pressed)>>
         /\ last' = IF last = None THEN clock ELSE last
         /\ first' = IF first = None THEN clock ELSE first
    ELSE UNCHANGED <<captured, last, first>>

\* An input the kernel's table does not name is not fed.
Feed(code, pressed) ==
    IF recording /\ code \in Known
    THEN /\ Len(captured) < MaxRecorded
         /\ captured' = captured \o Gap \o <<Event(code, pressed)>>
         /\ last' = clock
         /\ first' = IF first = None THEN clock ELSE first
    ELSE UNCHANGED <<captured, last, first>>

\* actions(), less the waits if the switch says so. No recording ends in one.
CapturedActions ==
    IF keep THEN captured
    ELSE Kept(captured, {i \in DOMAIN captured : captured[i].type # "wait"})

---------------------------------------------------------------------------
(* The keyboard and the mouse.                                               *)

\* The first press of a key, or a repetition of it while the key is down.
PressKey(k) ==
    /\ down' = down \cup {k}
    /\ unheard' = IF focus THEN unheard \ {k} ELSE unheard
    /\ IF focus THEN Feed(k, TRUE) ELSE k \notin down /\ UNCHANGED <<captured, last, first>>
    /\ UNCHANGED <<shown, recording, ignoring, keep, clock, focus, clicking>>

ReleaseKey(k) ==
    /\ k \in down
    /\ down' = down \ {k}
    /\ IF focus THEN Feed(k, FALSE) /\ UNCHANGED unheard
                ELSE unheard' = unheard \cup {k} /\ UNCHANGED <<captured, last, first>>
    /\ UNCHANGED <<shown, recording, ignoring, keep, clock, focus, clicking>>

\* A click on a control of the dialog is left alone, press and release.
PressButton(b, onControl) ==
    /\ b \notin down
    /\ down' = down \cup {b}
    /\ IF focus /\ clicking = None
       THEN /\ clicking' = b
            /\ ignoring' = IF recording THEN onControl ELSE ignoring
            /\ unheard' = IF onControl THEN unheard ELSE unheard \ {b}
            /\ IF onControl THEN UNCHANGED <<captured, last, first>> ELSE Feed(b, TRUE)
       ELSE UNCHANGED <<clicking, ignoring, captured, last, first, unheard>>
    /\ UNCHANGED <<shown, recording, keep, clock, focus>>

ReleaseButton(b) ==
    /\ b \in down
    /\ down' = down \ {b}
    /\ clicking' = IF clicking = b THEN None ELSE clicking
    /\ IF clicking = b
       THEN /\ ignoring' = (ignoring /\ ~recording)
            /\ IF ignoring THEN UNCHANGED <<captured, last, first>> ELSE Feed(b, FALSE)
            /\ UNCHANGED unheard
       ELSE /\ unheard' = unheard \cup {b}
            /\ UNCHANGED <<ignoring, captured, last, first>>
    /\ UNCHANGED <<shown, recording, keep, clock, focus>>

\* The window loses the focus, or has it again.
ChangeFocus ==
    /\ focus' = ~focus
    /\ UNCHANGED <<dialogVars, clock, down, clicking, unheard>>

Tick ==
    /\ clock < MaxClock /\ clock' = clock + 1
    /\ UNCHANGED <<dialogVars, down, focus, clicking, unheard>>

Input ==
    /\ shown
    /\ \/ \E k \in Key : PressKey(k) \/ ReleaseKey(k)
       \/ \E b \in Mouse : ReleaseButton(b) \/ \E onControl \in BOOLEAN : PressButton(b, onControl)
       \/ ChangeFocus
       \/ Tick

---------------------------------------------------------------------------
(* The dialog. It is closed, recording or not, by its own close button.      *)

\* Whether to keep the waits is first what the settings say.
OpenRecorder ==
    /\ ~shown /\ shown' = TRUE
    /\ recording' = FALSE /\ captured' = <<>> /\ last' = None /\ ignoring' = FALSE /\ first' = None
    /\ keep' \in BOOLEAN
    /\ UNCHANGED <<inputVars, unheard>>

Start ==
    /\ shown /\ ~recording /\ focus
    /\ recording' = TRUE /\ captured' = <<>> /\ last' = None /\ first' = None /\ unheard' = {}
    /\ UNCHANGED <<shown, ignoring, keep, inputVars>>

\* By the button or by Escape.
Stop ==
    /\ shown /\ recording /\ focus
    /\ recording' = FALSE
    /\ UNCHANGED <<shown, captured, last, ignoring, keep, inputVars, first, unheard>>

ToggleTiming ==
    /\ shown /\ focus /\ keep' = ~keep
    /\ UNCHANGED <<shown, recording, captured, last, ignoring, inputVars, first, unheard>>

\* The model follows the keys only while the dialog is open.
CloseRecorder ==
    /\ shown /\ focus /\ shown' = FALSE
    /\ recording' = FALSE /\ captured' = <<>> /\ last' = None
    /\ ignoring' = FALSE /\ first' = None /\ unheard' = {}
    /\ clock' = 0 /\ down' = {} /\ clicking' = None /\ keep' = FALSE
    /\ UNCHANGED focus

\* What the macro gets; the save button is insensitive until there is something.
CanSave == shown /\ focus /\ ~recording /\ captured # <<>>

DialogStep == Start \/ Stop \/ ToggleTiming

---------------------------------------------------------------------------
(* Safety.                                                                   *)

Events == Cardinality({i \in DOMAIN captured : captured[i].type # "wait"})

\* What is recorded plays what was done (feed of macros/recorder.py, _on_key,
\* _on_button of ui/dialogs/recorder.py): while it records, a code the
\* recording leaves down is still down, unless the dialog was not told of its
\* release; and its waits add up to the time from the first event to the last,
\* less a gap below the minimum for every event.
RecordingIsFaithful ==
    recording =>
        /\ Unreleased(captured) \subseteq down \cup unheard
        /\ captured # <<>> =>
            /\ Duration(captured) <= last - first
            /\ last - first - Duration(captured) <=
                    (Events - 1) * (IF MinDelay = 0 THEN 0 ELSE MinDelay - 1)
=============================================================================
