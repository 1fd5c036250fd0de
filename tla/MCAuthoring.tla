---------------------------- MODULE MCAuthoring ----------------------------
(* The files a macro is loaded from: the empty one of a new macro, and two   *)
(* another version or an editor of text may have written; and one with a     *)
(* negative duration.                                                        *)
EXTENDS Authoring

Once == [mode |-> "once", repeat_count |-> 1, gap_ms |-> 0]
Press(code) == [type |-> "key_press", params |-> [key |-> code]]
Release(code) == [type |-> "key_release", params |-> [key |-> code]]

MCFiles ==
    {[actions |-> <<>>, playback |-> Once, trigger |-> "on_press"],
     [actions |-> <<Press("KEY_E"), Release("KEY_E")>>,
      playback |-> [Once EXCEPT !.mode = "repeat_forever"], trigger |-> "toggle"],
     [actions |-> <<[type |-> "key_swipe", params |-> <<>>],
                    [type |-> "key_tap", params |-> [key |-> "KEY_NEW", speed |-> 1], enabled |-> FALSE],
                    [type |-> "key_combo", params |-> [hold_ms |-> 2]]>>,
      playback |-> [mode |-> "while_asleep", repeat_count |-> 0, gap_ms |-> 2], trigger |-> "later"]}

\* A file with a duration below zero, which the executor plays as none.
MCNegative ==
    {[actions |-> <<[type |-> "key_tap", params |-> [key |-> "KEY_E", hold_ms |-> -1]]>>,
      playback |-> [Once EXCEPT !.mode = "while_held"], trigger |-> "on_press"]}
=============================================================================
