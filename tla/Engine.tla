------------------------------- MODULE Engine -------------------------------
(***************************************************************************)
(* The engine of daemon/engine.py (class Engine): how physical key events  *)
(* become runs and remaps, and how the emergency combination ends them.    *)
(*                                                                         *)
(* One reader thread handles the events one after another; a client of the *)
(* control socket may meanwhile reload the configuration, stop everything  *)
(* or start a macro.  The reader is cut where it reads state that a client *)
(* can change, and at every call into the executor or the sink.            *)
(*                                                                         *)
(* Runs are those of module RunControl, what the executor promises as long *)
(* as its calls do not overlap; module MacroExecutor is about the overlap. *)
(* Of its registry one thing shows here: a handle whose thread could not   *)
(* be started makes the next stop_all raise, on whatever thread calls it.  *)
(* Auto-repeat events are left out: _on_event returns at once on them.     *)
(***************************************************************************)
EXTENDS Integers, SequencesExt

CONSTANTS Device,      \* ids of physical devices
          Input,       \* codes the devices report
          Output,      \* codes a remap emits
          BindingId,   \* keys of the runs that bindings start
          MacroId,     \* macros, and keys of the runs that clients start
          Configs,     \* what the files on disk can hold
          None,        \* a binding without device, macro or override
          MaxUnplug,   \* bound on the number of unplugged devices
          MaxFaults,   \* bound on write errors of the virtual devices
          MaxUnlaunched \* bound on the runs without a thread at a time

RunKey == BindingId \cup MacroId
Triggers == {"on_press", "on_release", "while_held", "toggle", "one_shot"}
Playbacks == {"once", "repeat_count", "repeat_forever", "while_held", "toggle"}

Binding == [id : BindingId, input : Input, device : Device \cup {None}, enabled : BOOLEAN,
            kind : {"run_macro", "remap", "disable", "launch_app"},
            macro : MacroId \cup {None}, override : Triggers \cup {None}, output : Seq(Output)]

\* plays: whether any of its actions is enabled.
MacroDef == [trigger : Triggers, playback : Playbacks, plays : BOOLEAN]

\* emergency: the combination, or {} when it is disabled.
Config == [enabled : BOOLEAN, emergency : SUBSET Input, bindings : Seq(Binding),
           macros : UNION {[M -> MacroDef] : M \in SUBSET MacroId}]

ASSUME EngineAssumption ==
    /\ Configs # {} /\ \A c \in Configs : c \in Config
    /\ BindingId \cap MacroId = {}
    /\ None \notin Device \cup MacroId \cup Triggers
    /\ MaxUnplug \in Nat /\ MaxFaults \in Nat /\ MaxUnlaunched \in Nat

VARIABLES phase,      \* the runs (see RunControl)
          bounded,    \* RunKey -> whether its run, if any, makes a number of passes only
          unlaunched, \* keys of the runs whose thread could not be started
          config,     \* the configuration that is installed
          held,       \* _physically_held
          armed,      \* _emergency_armed
          at,         \* what the reader does next
          event,      \* the event it handles
          pending,    \* bindings it has yet to apply, by their places
          out,        \* codes it has yet to emit for a remap
          down,       \* codes the virtual devices hold for remaps
          refused,    \* those that the last release_all did not bring up, until they are
                      \* written again
          phys,       \* Device -> inputs that are physically held on it
          clearing,   \* whether a client is in the second half of stop_all
          unplugs, faults

RC == INSTANCE RunControl

runVars == <<phase, bounded, unlaunched>>
readerVars == <<held, armed, at, event, pending, out>>
clientVars == <<config, clearing>>
worldVars == <<phys, unplugs>>
sinkVars == <<down, refused, faults>>
vars == <<runVars, readerVars, clientVars, worldVars, sinkVars>>

-----------------------------------------------------------------------------
(* What a configuration means. *)

EffectiveTrigger(m) == IF m.playback \in {"while_held", "toggle"} THEN m.playback ELSE m.trigger
IsBounded(m) == m.playback \in {"once", "repeat_count"}
Mode(b, m) == IF b.override # None THEN b.override ELSE EffectiveTrigger(m)

IsValid(b, c) == CASE b.kind = "run_macro" -> b.macro \in DOMAIN c.macros
                   [] b.kind = "remap" -> b.output # <<>>
                   [] OTHER -> TRUE

\* reload: the bindings of an input, by their places in the file.
Usable(b, c) == c.enabled /\ b.enabled /\ IsValid(b, c)
ByCode(c, i) ==
    Restrict(c.bindings, {n \in DOMAIN c.bindings :
                             Usable(c.bindings[n], c) /\ c.bindings[n].input = i})

-----------------------------------------------------------------------------
Init ==
    /\ RC!RCInit
    /\ bounded = [k \in RunKey |-> TRUE] /\ unlaunched = {}
    /\ config \in Configs
    /\ held = {} /\ armed = FALSE
    /\ at = "idle"
    /\ event \in [device : Device, input : Input, pressed : {FALSE}]  \* set by Read
    /\ pending = <<>> /\ out = <<>> /\ down = {} /\ refused = {}
    /\ phys = [d \in Device |-> {}]
    /\ clearing = FALSE
    /\ unplugs = 0 /\ faults = 0

\* Seeded bug: releases do not reach _physically_held.
ReadPressesOnly(d, i) ==
    /\ at = "idle"
    /\ LET pressed == i \notin phys[d]
       IN  /\ event' = [device |-> d, input |-> i, pressed |-> pressed]
           /\ phys' = [phys EXCEPT ![d] = IF pressed THEN @ \cup {i} ELSE @ \ {i}]
           /\ held' = held \cup {i}
    /\ at' = "check"
    /\ UNCHANGED <<runVars, clientVars, sinkVars, armed, pending, out, unplugs>>

(* A key moves and the reader takes the event up. *)
Read(d, i) ==
    /\ at = "idle"
    /\ LET pressed == i \notin phys[d]
       IN  /\ event' = [device |-> d, input |-> i, pressed |-> pressed]
           /\ phys' = [phys EXCEPT ![d] = IF pressed THEN @ \cup {i} ELSE @ \ {i}]
           /\ held' = IF pressed THEN held \cup {i} ELSE held \ {i}
    /\ at' = "check"
    /\ UNCHANGED <<runVars, clientVars, sinkVars, armed, pending, out, unplugs>>

\* Seeded bug: bindings are applied again while the combination stays down.
CheckEmergencyOnce ==
    /\ at = "check"
    /\ IF config.emergency = {} THEN at' = "lookup" /\ UNCHANGED armed
       ELSE IF config.emergency \subseteq held
            THEN at' = (IF armed THEN "lookup" ELSE "stop_all") /\ armed' = TRUE
            ELSE at' = "lookup" /\ armed' = FALSE
    /\ UNCHANGED <<runVars, clientVars, worldVars, sinkVars, held, event, pending, out>>

(* _check_emergency_stop. *)
CheckEmergency ==
    /\ at = "check"
    /\ IF config.emergency = {} THEN at' = "lookup" /\ UNCHANGED armed
       ELSE IF config.emergency \subseteq held
            THEN at' = (IF armed THEN "idle" ELSE "stop_all") /\ armed' = TRUE
            ELSE at' = "lookup" /\ armed' = FALSE
    /\ UNCHANGED <<runVars, clientVars, worldVars, sinkVars, held, event, pending, out>>

\* Seeded bug: the emergency releases the keys and lets the runs play.
EmergencyStopSpares ==
    /\ at = "stop_all"
    /\ at' = "release_all"
    /\ UNCHANGED <<runVars, clientVars, worldVars, sinkVars, held, armed, event, pending, out>>


\* stop_all, first half: every run is stopped, then joined.  The join of a handle
\* without a thread raises, and with it _on_event and the listen loop: the reader
\* is gone, and the engine shuts down (see Daemon).
EmergencyStop ==
    /\ at = "stop_all"
    /\ RC!StopEvery
    /\ at' = IF unlaunched = {} THEN "release_all" ELSE "ended"
    /\ UNCHANGED <<bounded, unlaunched, clientVars, worldVars, sinkVars,
                   held, armed, event, pending, out>>

\* Seeded bug: the emergency stops the runs and leaves the remaps held.
EmergencyReleaseNothing ==
    /\ at = "release_all"
    /\ at' = "idle"
    /\ UNCHANGED <<runVars, clientVars, worldVars, sinkVars, held, armed, event, pending, out>>


\* release_all.  If the devices raise, which is logged, codes stay down.
ReleaseAll ==
    \/ down' = {} /\ refused' = {} /\ UNCHANGED faults
    \/ /\ faults < MaxFaults /\ faults' = faults + 1
       /\ down' \in SUBSET down /\ refused' = down'

\* stop_all, second half: the registry is rid of what does not run.
EmergencyRelease ==
    /\ at = "release_all"
    /\ ReleaseAll
    /\ unlaunched' = {}
    /\ at' = "idle"
    /\ UNCHANGED <<phase, bounded, clientVars, worldVars, held, armed, event, pending, out>>

(* The bindings of the code are copied, then applied one by one. *)
LookupBindings ==
    /\ at = "lookup"
    /\ pending' = ByCode(config, event.input)
    /\ at' = "apply"
    /\ UNCHANGED <<runVars, clientVars, worldVars, sinkVars, held, armed, event, out>>

NextBinding(n) ==
    /\ at = "apply" /\ out = <<>> /\ \A i \in DOMAIN pending : n <= i
    /\ pending' = Restrict(pending, DOMAIN pending \ {n})
    /\ UNCHANGED <<clientVars, worldVars, sinkVars, held, armed, at, event>>

ForDevice(b) == b.device \in {None, event.device}

\* The thread of the run cannot be started: its handle stays registered, and the
\* exception is that of the binding, or of the client.
StartFails(k) ==
    /\ Cardinality(unlaunched \cup {k}) <= MaxUnlaunched
    /\ unlaunched' = unlaunched \cup {k}
    /\ UNCHANGED <<phase, bounded>>

\* executor.start: refused while the key has a run, pointless without actions.
StartRun(k, m, isBounded) ==
    IF m.plays /\ phase[k] = "idle"
    THEN \/ /\ RC!Start(k)
            /\ bounded' = [bounded EXCEPT ![k] = isBounded]
            /\ unlaunched' = unlaunched \ {k}
         \/ StartFails(k)
    ELSE UNCHANGED runVars

StopRun(k) == RC!StopIfAny(k) /\ UNCHANGED <<bounded, unlaunched>>

\* Seeded bug: the release of a while-held input is ignored.
TriggerPressesOnly(b, m) ==
    IF event.pressed /\ Mode(b, m) \in {"on_press", "one_shot", "while_held"}
    THEN StartRun(b.id, m, IsBounded(m)) ELSE UNCHANGED runVars


Trigger(b, m) ==
    LET mode == Mode(b, m)
    IN  CASE mode \in {"on_press", "one_shot"} /\ event.pressed -> StartRun(b.id, m, IsBounded(m))
          [] mode = "on_release" /\ ~event.pressed -> StartRun(b.id, m, IsBounded(m))
             \* iterations None stands for the macro's own playback count
          [] mode = "while_held" /\ event.pressed -> StartRun(b.id, m, IsBounded(m))
          [] mode = "while_held" /\ ~event.pressed -> StopRun(b.id)
          [] mode = "toggle" /\ event.pressed ->
                 IF phase[b.id] = "idle" THEN StartRun(b.id, m, IsBounded(m)) ELSE StopRun(b.id)
          [] OTHER -> UNCHANGED runVars

\* _apply.  The macro is looked up in the configuration of this moment.
Apply == \E n \in DOMAIN pending :
    /\ NextBinding(n)
    /\ LET b == pending[n]
       IN  IF ~ForDevice(b) \/ b.kind \in {"disable", "launch_app"}
           THEN UNCHANGED <<runVars, out>>
           ELSE IF b.kind = "remap"
           THEN out' = (IF event.pressed THEN b.output ELSE Reverse(b.output)) /\ UNCHANGED runVars
           ELSE /\ IF b.macro \in DOMAIN config.macros
                   THEN Trigger(b, config.macros[b.macro]) ELSE UNCHANGED runVars
                /\ UNCHANGED out

\* _apply_remap: one call of the sink per code.
EmitRemap ==
    /\ out # <<>>
    /\ down' = IF event.pressed THEN down \cup {Head(out)} ELSE down \ {Head(out)}
    /\ refused' = refused \ {Head(out)}
    /\ out' = Tail(out)
    /\ UNCHANGED <<runVars, clientVars, worldVars, faults, held, armed, at, event, pending>>

\* The sink raises: the binding is given up, the next one is applied.
RemapRaises ==
    /\ out # <<>> /\ faults < MaxFaults
    /\ out' = <<>> /\ faults' = faults + 1
    /\ UNCHANGED <<runVars, clientVars, worldVars, down, refused, held, armed, at, event, pending>>

EventDone ==
    /\ at = "apply" /\ out = <<>> /\ DOMAIN pending = {}
    /\ at' = "idle"
    /\ UNCHANGED <<runVars, clientVars, worldVars, sinkVars, held, armed, event, pending, out>>

Handling == \/ CheckEmergency \/ EmergencyStop \/ EmergencyRelease
            \/ LookupBindings \/ Apply \/ EmitRemap \/ EventDone

-----------------------------------------------------------------------------
(* Clients of the control socket. *)

Reload ==
    /\ config' \in Configs
    /\ UNCHANGED <<runVars, readerVars, worldVars, sinkVars, clearing>>

\* If stop_all raises, the client gets an error and nothing is released.
ClientStopAll ==
    /\ ~clearing
    /\ RC!StopEvery
    /\ clearing' = (unlaunched = {})
    /\ UNCHANGED <<bounded, unlaunched, readerVars, worldVars, sinkVars, config>>

ClientReleaseAll ==
    /\ clearing
    /\ ReleaseAll
    /\ unlaunched' = {}
    /\ clearing' = FALSE
    /\ UNCHANGED <<phase, bounded, readerVars, worldVars, config>>

\* run_macro; once asks for a single pass whatever the macro says.
RunMacro(m, once) ==
    /\ m \in DOMAIN config.macros
    /\ LET def == config.macros[m] IN StartRun(m, def, once \/ IsBounded(def))
    /\ UNCHANGED <<readerVars, clientVars, worldVars, sinkVars>>

(* A device goes: the releases of what was held on it are never read. *)
Unplug(d) ==
    /\ phys[d] # {} /\ unplugs < MaxUnplug
    /\ phys' = [phys EXCEPT ![d] = {}]
    /\ unplugs' = unplugs + 1
    /\ UNCHANGED <<runVars, readerVars, clientVars, sinkVars>>

(* Runs end: by making their passes, or because they were stopped. *)
RunEnds(k) ==
    /\ \/ bounded[k] /\ RC!EndsItself(k)
       \/ RC!EndsStopped(k)
    /\ bounded' = [bounded EXCEPT ![k] = TRUE]
    /\ UNCHANGED <<unlaunched, readerVars, clientVars, worldVars, sinkVars>>

EngineStep == \/ \E d \in Device, i \in Input : Read(d, i)
              \/ Handling \/ RemapRaises

Next ==
    \/ EngineStep
    \/ Reload \/ ClientStopAll \/ ClientReleaseAll
    \/ \E m \in MacroId, once \in BOOLEAN : RunMacro(m, once)
    \/ \E d \in Device : Unplug(d)
    \/ \E k \in RunKey : RunEnds(k)

\* The reader goes on with an event it has taken up, and a stopped run ends.
Fairness == /\ WF_vars(Handling)
            /\ \A k \in RunKey : WF_vars(phase[k] = "stopping" /\ RunEnds(k))

Safety == Init /\ [][Next]_vars
Spec == Safety /\ Fairness

-----------------------------------------------------------------------------
(* Properties. *)

\* The type invariant.
TypeOK ==
    /\ phase \in [RunKey -> {"idle", "running", "stopping"}]
    /\ bounded \in [RunKey -> BOOLEAN]
    /\ unlaunched \subseteq RunKey
    /\ config \in Configs
    /\ held \subseteq Input
    /\ armed \in BOOLEAN
    /\ at \in {"idle", "check", "stop_all", "release_all", "ended", "lookup", "apply"}
    /\ event \in [device : Device, input : Input, pressed : BOOLEAN]
    /\ \A n \in DOMAIN pending : n \in Nat /\ pending[n] \in Binding
    /\ out \in Seq(Output)
    /\ down \subseteq Output /\ refused \subseteq Output
    /\ phys \in [Device -> SUBSET Input]
    /\ clearing \in BOOLEAN
    /\ unplugs \in 0 .. MaxUnplug
    /\ faults \in 0 .. MaxFaults

Pressed == UNION {phys[d] : d \in Device}

\* "Stop everything if the emergency combination is fully held": once the
\* reader has handled the event that completes the combination, no run of a
\* binding plays, and no code of a remap is held but one whose release the devices
\* refused, for as long as the keys stay down, whatever other keys do meanwhile.
EmergencyHonoured ==
    at = "idle" /\ config.emergency # {} /\ config.emergency \subseteq Pressed =>
        /\ down \subseteq refused
        /\ \A k \in BindingId : phase[k] # "running"

\* The runs the emergency stop found playing end, those of clients included.
EmergencyEndsRuns ==
    \A k \in RunKey : (at = "stop_all" /\ phase[k] = "running") ~> (phase[k] = "idle")

\* ... and only then: what the engine takes for the combination is really down.
NoFalseEmergency == at = "stop_all" => config.emergency \subseteq Pressed

BindingsOf(k) == {b \in ToSet(config.bindings) : b.id = k}
HoldBinding(b) == /\ b.kind = "run_macro" /\ b.macro \in DOMAIN config.macros
                  /\ Mode(b, config.macros[b.macro]) = "while_held"

\* "Holding the trigger repeats the macro until it is released": between
\* events, a run of a while-held binding plays only if its input is down.
WhileHeldStops ==
    at = "idle" => \A k \in BindingId : phase[k] = "running" =>
        \A b \in BindingsOf(k) : HoldBinding(b) => b.input \in Pressed

\* A while-held run that has lost its input is soon over, whatever the reader
\* has to do first.
ReleasedHoldEnds ==
    \A k \in BindingId :
        (/\ phase[k] = "running"
         /\ \E b \in BindingsOf(k) : HoldBinding(b) /\ b.input \notin Pressed)
        ~> (phase[k] = "idle")

\* A remap behaves like a key: between events the virtual devices hold one of
\* its codes only while an input remapped to that code is physically down,
\* unless the kernel refused a write.
RemapHeldByInput ==
    at = "idle" /\ faults = 0 => \A c \in down :
        \E b \in ToSet(config.bindings) :
            b.kind = "remap" /\ c \in ToSet(b.output) /\ b.input \in Pressed
=============================================================================
