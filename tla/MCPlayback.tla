----------------------------- MODULE MCPlayback -----------------------------
(* Playback on a small instance: three macros, chosen for what can go wrong *)
(* when a run is cut short; the .cfg takes the ones a run needs.            *)
EXTENDS Playback

CONSTANTS a, b, unknown

MCCode == {a, b, unknown}
MCEmittable == {a, b}

MCAction(type, codes, hold) ==
    [type |-> type, codes |-> codes, hold |-> hold, enabled |-> TRUE]

\* "drag": a bare press, a pause, and its release behind a disabled step.
\* "chord": a combination with a repeated code and one the devices lack.
\* "aim": a click at a position; "open": an application between press and release.
MCActions ==
    [m \in Macro |->
        CASE m = "drag" -> <<MCAction("key_press", <<a>>, FALSE),
                             MCAction("wait", <<>>, TRUE),
                             [MCAction("key_tap", <<b>>, TRUE) EXCEPT !.enabled = FALSE],
                             MCAction("key_release", <<a>>, FALSE)>>
          [] m = "chord" -> <<MCAction("key_combo", <<b, a, b, unknown>>, TRUE)>>
          [] m = "aim" -> <<MCAction("mouse_click_at", <<a>>, FALSE),
                            MCAction("launch_app", <<>>, FALSE)>>]

MCHasGap == [m \in Macro |-> m # "aim"]
MCIterations == {1, 2, Unbounded}
Symmetry == Permutations(Handle)
=============================================================================
