------------------------------ MODULE MCEngine ------------------------------
(* The engine on a small instance: a keyboard with three keys, two of which *)
(* make the emergency combination and all of which are bound.               *)
EXTENDS Engine

CONSTANTS e, k, r,          \* inputs
          x, y,             \* outputs of the remap
          hold, map, tog,   \* bindings
          click,            \* macro
          d1                \* the keyboard

MCInput == {e, k, r}
MCOutput == {x, y}
MCBindingId == {hold, map, tog}

RunBinding(id, input, override) ==
    [id |-> id, input |-> input, device |-> None, enabled |-> TRUE, kind |-> "run_macro",
     macro |-> click, override |-> override, output |-> <<>>]

RemapBinding(id, input, output) ==
    [id |-> id, input |-> input, device |-> None, enabled |-> TRUE, kind |-> "remap",
     macro |-> None, override |-> None, output |-> output]

Click(trigger, playback) ==
    click :> [trigger |-> trigger, playback |-> playback, plays |-> TRUE]

\* k repeats a macro while held, r is remapped to a combination, and e, one of
\* the emergency keys, toggles the macro on one device and is swallowed otherwise.
Base ==
    [enabled |-> TRUE, emergency |-> {e, k},
     bindings |-> <<RunBinding(hold, k, None),
                    RemapBinding(map, r, <<x, y>>),
                    [RunBinding(tog, e, "toggle") EXCEPT !.device = d1],
                    [RemapBinding(map, e, <<>>) EXCEPT !.kind = "disable"]>>,
     macros |-> Click("on_press", "while_held")]

\* The same macro, repeated for ever, with the other triggers; _apply takes
\* one_shot for on_press.
Triggered ==
    [Base EXCEPT !.bindings = <<RunBinding(hold, k, "on_press"), RunBinding(tog, r, "on_release")>>,
                 !.macros = Click("on_press", "repeat_forever")]

\* The master switch is off; with it, the macro has no enabled action; the macro is deleted.
Off == [Base EXCEPT !.enabled = FALSE]
OffAndBare == [Off EXCEPT !.macros[click].plays = FALSE]
NoMacro == [Base EXCEPT !.macros = <<>>]

\* An edit that leaves the while-held binding and the remap alone: the toggle
\* moves to another trigger, nothing is swallowed, and all bindings move.
Others ==
    [Base EXCEPT !.bindings = <<RemapBinding(map, r, <<x, y>>), RunBinding(tog, k, "on_release"),
                                RunBinding(hold, k, None)>>]

MCFixed == {Base}
MCOthers == {Base, Others}
MCEdits == {Base, Triggered, OffAndBare, NoMacro}
MCSwitch == {Base, Off}
MCEmergencyOff == {[Base EXCEPT !.emergency = c] : c \in {{e, r}, {}}}
=============================================================================
