--------------------------- MODULE MCEvdevSource ---------------------------
(* One keyboard with two keys; nothing is suppressed, one key of this keyboard *)
(* is, or the other one and a key it does not have, on every device.           *)
EXTENDS EvdevSource

CONSTANTS kbd, a, b, c

MCProduces == [d \in {kbd} |-> {a, b}]

Suppress(K, A) == [d \in {kbd, AnyDevice} |-> IF d = kbd THEN K ELSE A]
MCMaps == {Suppress({}, {}), Suppress({a}, {}), Suppress({}, {b, c})}

\* The loop starts with one of the first two; any of them may replace it.
MCInit == Init /\ map # Suppress({}, {b, c})
MCSpec == MCInit /\ [][Next]_vars /\ WF_vars(LoopStep) /\ WF_vars(Wake)
=============================================================================
