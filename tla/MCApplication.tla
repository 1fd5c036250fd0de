--------------------------- MODULE MCApplication ---------------------------
(* The window on a small instance: two macros with up to two actions, two    *)
(* bindings; a first start, a library in use, one with broken files.         *)
EXTENDS Application

CONSTANTS m1, m2, b1, b2, a1, example

MCMacroId == {m1, m2}
MCBindingId == {b1, b2}
MCExample == <<example>>
MCSettings == [enabled |-> TRUE, other |-> "default"]

Empty == [f \in File |-> None]
InUse ==
    [Empty EXCEPT ![m1] = [title |-> "old", actions |-> <<a1>>],
                  !["bindings"] = [NoBindings EXCEPT
                      ![b1] = [kind |-> "run_macro", macro |-> m1, output |-> FALSE, enabled |-> TRUE]]]
Damaged == [Empty EXCEPT ![m1] = Garbled, !["bindings"] = Garbled]

MCDisks == {Empty, InUse, Damaged}
MCFirstStart == {Empty}
=============================================================================
