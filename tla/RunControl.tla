----------------------------- MODULE RunControl -----------------------------
(***************************************************************************)
(* What the executor promises to a thread that calls it: at most one run   *)
(* per key, which plays until it is over by itself or is stopped, and      *)
(* which, once stopped, soon is over.  A start while a run of the key is   *)
(* still on its way out is refused like one while it plays.                *)
(*                                                                         *)
(* Module MacroExecutor implements this with threads, a registry and locks *)
(* (as long as one thread at a time makes the calls); module Engine is     *)
(* written against it.                                                     *)
(***************************************************************************)
CONSTANT RunKey

VARIABLE phase    \* RunKey -> "idle", "running" or "stopping"

RCInit == phase = [k \in RunKey |-> "idle"]

Start(k) == phase[k] = "idle" /\ phase' = [phase EXCEPT ![k] = "running"]
StopRun(k) == phase[k] = "running" /\ phase' = [phase EXCEPT ![k] = "stopping"]
\* The run made its passes, the devices failed it, or its thread could not be
\* launched.
EndsItself(k) == phase[k] = "running" /\ phase' = [phase EXCEPT ![k] = "idle"]
\* The run saw its stop event and released what it held.
EndsStopped(k) == phase[k] = "stopping" /\ phase' = [phase EXCEPT ![k] = "idle"]

\* A stop of every run that plays, or a refused start, is no more than these.
StopEvery == phase' = [k \in RunKey |-> IF phase[k] = "running" THEN "stopping" ELSE phase[k]]
StartOrRefuse(k) == Start(k) \/ (phase[k] # "idle" /\ UNCHANGED phase)
StopIfAny(k) == StopRun(k) \/ (phase[k] # "running" /\ UNCHANGED phase)

RCNext == \E k \in RunKey : Start(k) \/ StopRun(k) \/ EndsItself(k) \/ EndsStopped(k)

RCSafety == RCInit /\ [][RCNext]_phase
RCSpec == RCSafety /\ \A k \in RunKey : WF_phase(EndsStopped(k))
=============================================================================
