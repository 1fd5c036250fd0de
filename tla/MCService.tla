------------------------------ MODULE MCService ------------------------------
(* The service on a small instance: two connections, one macro, a binding    *)
(* that runs it and a remap restricted to a device.                          *)
EXTENDS Service

CONSTANTS c1, c2, m1, i1, i2, d1, s1, s2

MCConn == {c1, c2}
MCMacroId == {m1}
Runs == [input |-> i1, device |-> None, kind |-> "run_macro", macro |-> m1, complete |-> TRUE,
         suppress |-> TRUE, enabled |-> TRUE]
Remaps == [Runs EXCEPT !.input = i2, !.device = d1, !.kind = "remap", !.macro = None,
                       !.suppress = FALSE]
MCBinding == {Runs, Remaps}
MCFiles == {[enabled |-> TRUE, macros |-> {m1}, bindings |-> {Runs}]}
==============================================================================
