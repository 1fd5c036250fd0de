---------------------------- MODULE MacroModel -----------------------------
(* A macro as a document: the table of action types (models/action.py), what *)
(* a file keeps of a macro and what loading makes of it (models/macro.py),   *)
(* the problems the editor reports (macros/validate.py), and what one pass   *)
(* does when it is played (_perform in macros/executor.py), to hold them     *)
(* against.                                                                  *)
(*                                                                           *)
(* Durations are 0, or a time that is worth sleeping; names and descriptions *)
(* are left out.                                                             *)
EXTENDS Integers, FiniteSets, SequencesExt

CONSTANTS Known,     \* codes of the kernel's table (CODES)
          Buttons,   \* those of them that are mouse buttons
          MaxRepeat, \* MAX_REPEAT_COUNT
          MaxGap,    \* MAX_GAP_MS
          None       \* no application, no name, no dialog, no time

ASSUME MacroModelAssumption ==
    /\ {"KEY_E", "KEY_C", "KEY_LEFTCTRL", "BTN_LEFT"} \subseteq Known
    /\ "BTN_LEFT" \in Buttons /\ Buttons \subseteq Known \ {"KEY_E", "KEY_C", "KEY_LEFTCTRL"}
    /\ None \notin Known /\ MaxRepeat \in Nat \ {0} /\ MaxGap \in Nat

\* The parameters of each type of action, with their defaults.
Defaults ==
    [key_tap             |-> [key |-> "KEY_E", hold_ms |-> 1],
     key_press           |-> [key |-> "KEY_E"],
     key_release         |-> [key |-> "KEY_E"],
     key_combo           |-> [keys |-> <<"KEY_LEFTCTRL", "KEY_C">>, hold_ms |-> 1],
     button_click        |-> [button |-> "BTN_LEFT", hold_ms |-> 1],
     button_press        |-> [button |-> "BTN_LEFT"],
     button_release      |-> [button |-> "BTN_LEFT"],
     mouse_click_at      |-> [button |-> "BTN_LEFT", x |-> 0, y |-> 0, hold_ms |-> 1],
     mouse_move          |-> [x |-> 0, y |-> 0],
     mouse_move_relative |-> [dx |-> 0, dy |-> 0],
     scroll              |-> [amount |-> 1, horizontal |-> FALSE],
     wait                |-> [duration_ms |-> 1],
     launch_app          |-> [app |-> None]]

ActionType == DOMAIN Defaults
Times == {"duration_ms", "hold_ms"}
Numbers == Times \cup {"x", "y", "dx", "dy", "amount"}

\* dict.update.
Updated(f, g) ==
    [p \in DOMAIN f \cup DOMAIN g |-> IF p \in DOMAIN g THEN g[p] ELSE f[p]]

Create(type, overrides) ==
    [type |-> type, params |-> Updated(Defaults[type], overrides), enabled |-> TRUE]

\* The elements of s at some of its places, in their order.
Kept(s, places) ==
    [n \in 1 .. Cardinality(places) |->
        s[CHOOSE i \in places : Cardinality({j \in places : j <= i}) = n]]

PlaybackMode == {"once", "repeat_count", "repeat_forever", "while_held", "toggle"}
TriggerMode == {"on_press", "on_release", "while_held", "toggle", "one_shot"}

---------------------------------------------------------------------------
(* Files.                                                                    *)

ActionToFile(a) ==
    IF a.enabled THEN [type |-> a.type, params |-> a.params] ELSE a

\* Parameters the type does not have are dropped, missing ones get the default.
ActionFromFile(d) ==
    [type    |-> d.type,
     params  |-> [p \in DOMAIN Defaults[d.type] |->
                    IF p \in DOMAIN d.params THEN d.params[p] ELSE Defaults[d.type][p]],
     enabled |-> "enabled" \notin DOMAIN d \/ d.enabled]

Clamped(n, low, high) == IF n < low THEN low ELSE IF n > high THEN high ELSE n

PlaybackFromFile(p) ==
    [mode         |-> IF p.mode \in PlaybackMode THEN p.mode ELSE "once",
     repeat_count |-> Clamped(p.repeat_count, 1, MaxRepeat),
     gap_ms       |-> Clamped(p.gap_ms, 0, MaxGap)]

MacroToFile(m) ==
    [m EXCEPT !.actions = [i \in DOMAIN m.actions |-> ActionToFile(m.actions[i])]]

\* An action of a type this version does not know is skipped.
MacroFromFile(d) ==
    LET known == Kept(d.actions, {i \in DOMAIN d.actions : d.actions[i].type \in ActionType}) IN
    [actions  |-> [i \in DOMAIN known |-> ActionFromFile(known[i])],
     playback |-> PlaybackFromFile(d.playback),
     trigger  |-> IF d.trigger \in TriggerMode THEN d.trigger ELSE "on_press"]

---------------------------------------------------------------------------
(* Behaviour.                                                                *)

Unbounded == -1
Iterations(playback) ==
    CASE playback.mode = "once" -> 1
      [] playback.mode = "repeat_count" -> playback.repeat_count
      [] OTHER -> Unbounded

EffectiveTrigger(m) ==
    IF m.playback.mode \in {"while_held", "toggle"} THEN m.playback.mode ELSE m.trigger

IsUnbounded(m) ==
    m.playback.mode = "repeat_forever" /\ EffectiveTrigger(m) \notin {"while_held", "toggle"}

Enabled(m) == Kept(m.actions, {i \in DOMAIN m.actions : m.actions[i].enabled})

\* What a step does to the keys, in order, and how long it sleeps. A code the
\* kernel does not know is ignored; a name that is empty, and a combination of
\* no keys, do not wait.
Codes(a) ==
    CASE "key" \in DOMAIN a.params /\ a.params.key # None -> <<a.params.key>>
      [] "button" \in DOMAIN a.params /\ a.params.button # None -> <<a.params.button>>
      [] "keys" \in DOMAIN a.params -> a.params.keys
      [] OTHER -> <<>>

Emitted(a) == ToSet(Codes(a)) \cap Known

Presses == {"key_press", "button_press"}
Releases == {"key_release", "button_release"}

DownAfter(down, a) ==
    IF a.type \in Presses THEN down \cup Emitted(a) ELSE down \ Emitted(a)

\* What is down after the first i of the actions, from none to all.
DownIn(actions) ==
    LET d[i \in 0 .. Len(actions)] ==
            IF i = 0 THEN {} ELSE DownAfter(d[i - 1], actions[i])
    IN  d

LeftDown(m) == DownIn(Enabled(m))[Len(Enabled(m))]

\* _ms: a negative duration is none.
Milliseconds(n) == IF n < 0 THEN 0 ELSE n

Hold(a) == IF Codes(a) = <<>> THEN 0 ELSE Milliseconds(a.params.hold_ms)

SleepOf(a) ==
    CASE a.type = "wait" -> Milliseconds(a.params.duration_ms)
      [] a.type = "mouse_click_at" -> 1 + Hold(a)
      [] a.type \in {"key_tap", "button_click", "key_combo"} -> Hold(a)
      [] OTHER -> 0

\* How long the first i of the actions sleep.
TimeIn(actions) ==
    LET t[i \in 0 .. Len(actions)] == IF i = 0 THEN 0 ELSE t[i - 1] + SleepOf(actions[i])
    IN  t

Duration(actions) == TimeIn(actions)[Len(actions)]

Floods(m) ==
    /\ Enabled(m) # <<>> /\ Iterations(m.playback) # 1
    /\ Duration(Enabled(m)) = 0 /\ m.playback.gap_ms = 0

\* A step that is there to do something and does nothing.
Ineffective(a) ==
    \/ a.type = "launch_app" /\ a.params.app = None
    \/ {"key", "button", "keys"} \cap DOMAIN a.params # {} /\ Emitted(a) = {}

Troubled(m) ==
    \/ LeftDown(m) # {}
    \/ Floods(m)
    \/ Enabled(m) = <<>>
    \/ \E a \in ToSet(Enabled(m)) : Ineffective(a)

---------------------------------------------------------------------------
(* validate.py: the issues of a macro in the order they are found.           *)

CheckEmpty(m) == IF Enabled(m) = <<>> THEN <<"empty">> ELSE <<>>

CheckCode(a) ==
    LET unknown == Kept(Codes(a), {i \in DOMAIN Codes(a) : Codes(a)[i] \notin Known}) IN
    [i \in DOMAIN unknown |-> "unknown code"]
    \o (IF a.type = "key_combo" /\ a.params.keys = <<>> THEN <<"no keys">> ELSE <<>>)
    \o (IF a.type = "launch_app" /\ a.params.app = None THEN <<"no app">> ELSE <<>>)

CheckCodes(m) == FlattenSeq([i \in DOMAIN m.actions |-> CheckCode(m.actions[i])])

HeldAfter(held, a) ==
    CASE a.type \in Presses -> held \cup ToSet(Codes(a))
      [] a.type \in Releases -> held \ ToSet(Codes(a))
      [] OTHER -> held

\* The codes of the dictionary after the first i of the actions.
HeldIn(actions) ==
    LET h[i \in 0 .. Len(actions)] ==
            IF i = 0 THEN {} ELSE HeldAfter(h[i - 1], actions[i])
    IN  h

Unreleased(actions) == HeldIn(actions)[Len(actions)]

\* One issue for every code.
Balance(actions) == [i \in 1 .. Cardinality(Unreleased(actions)) |-> "never released"]

\* Seeded bug: the releases of disabled steps count.
CheckBalanceOfAll(m) == Balance(m.actions)

CheckBalance(m) == Balance(Enabled(m))

CheckRunaway(m) == IF IsUnbounded(m) THEN <<"repeats forever">> ELSE <<>>

CheckBusyLoop(m) ==
    IF \/ m.playback.mode = "once" \/ m.playback.gap_ms # 0
       \/ \E a \in ToSet(Enabled(m)) : \E p \in Times \cap DOMAIN a.params : a.params[p] # 0
    THEN <<>> ELSE <<"no delay">>

Inspect(m) ==
    CheckCodes(m) \o CheckEmpty(m) \o CheckBalance(m) \o CheckRunaway(m) \o CheckBusyLoop(m)

\* The banner of the editor shows the worst issue only.
Banner(m) == IF Inspect(m) = <<>> THEN "none" ELSE Head(Inspect(m))
=============================================================================
