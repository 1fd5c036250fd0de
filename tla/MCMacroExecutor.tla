-------------------------- MODULE MCMacroExecutor --------------------------
(* The executor on a small instance: one macro that holds a code for a pause.  *)
EXTENDS MacroExecutor

CONSTANTS a

MCActions ==
    [m \in Macro |-> <<[type |-> "key_tap", codes |-> <<a>>, hold |-> TRUE, enabled |-> TRUE]>>]
MCHasGap == [m \in Macro |-> TRUE]
MCIterations == {1, Unbounded}
MCMacroOf == [k \in Key |-> "tap"]
Symmetry == Permutations(Handle)
=============================================================================
