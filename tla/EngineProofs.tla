----------------------------- MODULE EngineProofs -----------------------------
(***************************************************************************)
(* Proofs about module Engine, for any devices, codes, bindings and macros.*)
(* The properties do not hold without conditions, and two counterexamples  *)
(* kept with the engine show why: each theorem says which it needs.        *)
(***************************************************************************)
EXTENDS Engine, SequenceTheorems, TLAPS

\* Conditions.  No edit changes the emergency combination, or at least none
\* switches it on or off; none changes a binding that is to last as long as its
\* input is down, or whether it is usable, and none a remap that is in use, while
\* everything else may change; there is one
\* keyboard; it is not unplugged; and a binding that runs a macro does so under
\* an id of its own.
OneCombination == \A c, d \in Configs : c.emergency = d.emergency
SwitchStays == \A c, d \in Configs : c.emergency = {} <=> d.emergency = {}
Holds(b, c) == /\ b.kind = "run_macro" /\ b.macro \in DOMAIN c.macros
               /\ Mode(b, c.macros[b.macro]) = "while_held"
HoldsStay ==
    \A c, d \in Configs : \A b \in ToSet(c.bindings) : Holds(b, c) =>
        b \in ToSet(d.bindings) /\ Holds(b, d) /\ (Usable(b, c) => Usable(b, d))
RemapsStay ==
    \A c, d \in Configs : \A b \in ToSet(c.bindings) : b.kind = "remap" /\ Usable(b, c) =>
        b \in ToSet(d.bindings) /\ Usable(b, d)
OneKeyboard == \A d, e \in Device : d = e
NothingUnplugged == MaxUnplug = 0
OwnIds ==
    \A c \in Configs : \A m, n \in DOMAIN c.bindings :
        /\ c.bindings[m].kind = "run_macro" /\ c.bindings[n].kind = "run_macro"
        /\ c.bindings[m].id = c.bindings[n].id
        => m = n

-----------------------------------------------------------------------------
(* Invariants. *)

\* A remap is emitted while its binding is applied; no other time has codes or
\* bindings left.
ReaderInv ==
    /\ out # <<>> => at = "apply"
    /\ at # "apply" => DOMAIN pending = {}

\* As long as the latch is set nothing that a binding started plays and no remap is
\* held but one the devices refused to release, unless the reader is about to see
\* to it or is gone.
Latched ==
    /\ armed => config.emergency # {}
    /\ at \in {"stop_all", "release_all"} => armed
    /\ at \in {"lookup", "apply"} => ~armed
    /\ armed /\ at # "stop_all" => \A k \in BindingId : phase[k] # "running"
    /\ armed /\ at \notin {"stop_all", "release_all", "ended"} => down \subseteq refused

\* The latch is set as long as the combination is held.
LatchInv ==
    /\ Latched
    /\ at \in {"lookup", "apply"} /\ config.emergency # {} => ~(config.emergency \subseteq held)
    /\ at = "idle" /\ config.emergency # {} /\ config.emergency \subseteq held => armed

\* With one keyboard, all that is pressed is known to be held ...
KnowsPressed == Pressed \subseteq held

\* ... and as long as none is unplugged, all that is held is really pressed.
KnowsReleased ==
    /\ held \subseteq Pressed
    /\ at = "stop_all" => config.emergency \subseteq held

\* What the binding was looked up as: a usable one of the input that moved, in
\* the configuration of that moment.
LookedUp(b) ==
    /\ b.input = event.input
    /\ \E c \in Configs : b \in ToSet(c.bindings) /\ Usable(b, c)

PendingInv ==
    /\ at # "idle" /\ event.pressed => event.input \in phys[event.device]
    /\ \A n \in DOMAIN pending : LookedUp(pending[n])

\* An input of the binding is down on a device it is for.
HeldFor(b) == \E d \in Device : b.device \in {None, d} /\ b.input \in phys[d]

\* The release of an input of the binding is being handled ...
Released(b) == ~event.pressed /\ event.input = b.input /\ ForDevice(b)

\* ... and has not come to the binding yet.
ReleaseAhead(b) ==
    /\ Released(b)
    /\ \/ at \in {"check", "stop_all", "release_all", "ended", "lookup"}
       \/ \E n \in DOMAIN pending : pending[n] = b

HeldOrAhead(b) == HeldFor(b) \/ ReleaseAhead(b)

\* Where a run plays that is to stop with its input, its binding is usable and
\* the input is down or its release is still to be applied.
RunInv ==
    \A k \in BindingId : phase[k] = "running" =>
        \A b \in BindingsOf(k) : HoldBinding(b) => Usable(b, config) /\ HeldOrAhead(b)

\* The codes left to emit are those of a remap of the input that moved.
EmittedFrom(b) ==
    /\ b.kind = "remap" /\ Usable(b, config) /\ ToSet(out) \subseteq ToSet(b.output)
    /\ b.input = event.input /\ ForDevice(b)

OutInv == out # <<>> => \E b \in ToSet(config.bindings) : EmittedFrom(b)

\* A code the virtual devices hold is one of a usable remap whose input is down,
\* or whose release is still to be applied or to be emitted.
DownFrom(c, b) ==
    /\ b.kind = "remap" /\ Usable(b, config) /\ c \in ToSet(b.output)
    /\ HeldOrAhead(b) \/ (Released(b) /\ c \in ToSet(out))

RemapInv ==
    faults = 0 => /\ refused = {}
                  /\ \A c \in down : \E b \in ToSet(config.bindings) : DownFrom(c, b)

-----------------------------------------------------------------------------
(* Types. *)

Phases == {"idle", "running", "stopping"}

RunsTyped == /\ phase \in [RunKey -> Phases] /\ bounded \in [RunKey -> BOOLEAN]
             /\ unlaunched \subseteq RunKey

\* What a step does to the phases of the runs of bindings: one may start, or
\* some of those that play are stopped or end.
LEMMA StartRunFacts ==
    ASSUME RunsTyped, NEW k \in RunKey, NEW m, NEW b \in BOOLEAN, StartRun(k, m, b)
    PROVE  RunsTyped' /\ \A j \in RunKey \ {k} : phase'[j] = phase[j]
  BY DEF StartRun, StartFails, RC!Start, runVars, RunsTyped, Phases

LEMMA StopRunFacts ==
    ASSUME RunsTyped, NEW k \in RunKey, StopRun(k)
    PROVE  /\ RunsTyped'
           /\ phase'[k] # "running" /\ \A j \in RunKey \ {k} : phase'[j] = phase[j]
  BY DEF StopRun, RC!StopIfAny, RC!StopRun, RunsTyped, Phases

LEMMA StopEveryFacts ==
    ASSUME phase \in [RunKey -> Phases], RC!StopEvery
    PROVE  phase' \in [RunKey -> Phases] /\ \A k \in RunKey : phase'[k] # "running"
  BY DEF RC!StopEvery, Phases

LEMMA RunEndsFacts ==
    ASSUME RunsTyped, NEW k \in RunKey, RunEnds(k)
    PROVE  /\ RunsTyped'
           /\ phase'[k] = "idle" /\ \A j \in RunKey \ {k} : phase'[j] = phase[j]
  BY DEF RunEnds, RC!EndsItself, RC!EndsStopped, RunsTyped, Phases

\* What the trigger of a binding may do to its run.
LEMMA TriggerFacts ==
    ASSUME RunsTyped, NEW b, b.id \in RunKey, NEW m, Trigger(b, m), event.pressed \in BOOLEAN
    PROVE  /\ RunsTyped'
           /\ \A j \in RunKey \ {b.id} : phase'[j] = phase[j]
           /\ phase'[b.id] = "running" /\ Mode(b, m) = "while_held" => event.pressed
  <1>1. IsBounded(m) \in BOOLEAN
    BY DEF IsBounded
  <1>2. CASE StartRun(b.id, m, IsBounded(m)) /\ (Mode(b, m) = "while_held" => event.pressed)
    BY <1>1, <1>2, StartRunFacts
  <1>3. CASE StopRun(b.id)
    BY <1>3, StopRunFacts
  <1>4. CASE UNCHANGED runVars /\ Mode(b, m) # "while_held"
    BY <1>4 DEF runVars, RunsTyped
  <1>5. \/ StartRun(b.id, m, IsBounded(m)) /\ (Mode(b, m) = "while_held" => event.pressed)
        \/ StopRun(b.id)
        \/ UNCHANGED runVars /\ Mode(b, m) # "while_held"
    BY DEF Trigger
  <1> QED
    BY <1>2, <1>3, <1>4, <1>5

\* The codes of a remap, in the order of a press or of a release.
LEMMA ReverseFacts ==
    ASSUME NEW s \in Seq(Output)
    PROVE  Reverse(s) \in Seq(Output) /\ ToSet(Reverse(s)) = ToSet(s)
  <1>1. Len(s) \in Nat /\ DOMAIN s = 1 .. Len(s) /\ \A i \in 1 .. Len(s) : s[i] \in Output
    OBVIOUS
  <1> DEFINE n == Len(s)
             back(i) == (n - i) + 1
  <1>2. Reverse(s) = [i \in 1 .. n |-> s[back(i)]]
    BY DEF Reverse
  <1>3. \A i \in 1 .. n : back(i) \in 1 .. n /\ back(back(i)) = i
    BY <1>1
  <1> DEFINE r == Reverse(s)
  <1> HIDE DEF n, back, r
  <1>4. DOMAIN r = 1 .. n /\ \A i \in 1 .. n : r[i] = s[back(i)] /\ r[i] \in Output
    BY <1>1, <1>2, <1>3 DEF n, r
  <1>5. r \in Seq(Output) /\ Len(r) = n
    <2>1. r = [i \in 1 .. n |-> r[i]]
      BY <1>2, <1>4 DEF r
    <2>2. n \in Nat
      BY <1>1 DEF n
    <2>3. r \in [1 .. n -> Output]
      BY <1>4, <2>1
    <2> QED
      BY <2>2, <2>3, <1>4
  <1>6. ToSet(r) = {r[i] : i \in 1 .. n} /\ ToSet(s) = {s[i] : i \in 1 .. n}
    BY <1>1, <1>4 DEF ToSet, n
  <1>7. {r[i] : i \in 1 .. n} \subseteq {s[i] : i \in 1 .. n}
    BY <1>3, <1>4
  <1>8. ASSUME NEW i \in 1 .. n PROVE s[i] \in {r[j] : j \in 1 .. n}
    <2>1. back(i) \in 1 .. n /\ r[back(i)] = s[i]
      BY <1>3, <1>4
    <2> QED
      BY <2>1
  <1> QED
    BY <1>5, <1>6, <1>7, <1>8 DEF r

LEMMA HeadFacts ==
    ASSUME NEW s \in Seq(Output), s # <<>>
    PROVE  /\ Head(s) \in Output /\ Head(s) \in ToSet(s) /\ Tail(s) \in Seq(Output)
           /\ ToSet(Tail(s)) \subseteq ToSet(s)
           /\ \A c \in ToSet(s) : c # Head(s) => c \in ToSet(Tail(s))
  <1> DEFINE t == Tail(s)
             n == Len(s)
             u == DOMAIN t
  <1>1. /\ Head(s) = s[1] /\ n \in Nat \ {0} /\ t \in Seq(Output)
        /\ Len(t) = n - 1 /\ \A i \in 1 .. Len(t) : t[i] = s[i + 1]
    BY HeadTailProperties, EmptySeq
  <1>2. DOMAIN s = 1 .. n /\ DOMAIN t = 1 .. Len(t) /\ \A i \in 1 .. n : s[i] \in Output
    BY <1>1
  <1>3. ToSet(s) = {s[i] : i \in 1 .. n} /\ ToSet(t) = {t[i] : i \in 1 .. Len(t)}
    BY <1>2 DEF ToSet
  <1> HIDE DEF t, n
  <1>4. 1 \in 1 .. n /\ (\A i \in 1 .. Len(t) : i + 1 \in 1 .. n)
    BY <1>1
  <1>5. Head(s) \in Output /\ Head(s) \in ToSet(s) /\ ToSet(t) \subseteq ToSet(s)
    BY <1>1, <1>2, <1>3, <1>4
  <1>6. ASSUME NEW i \in 1 .. n, s[i] # Head(s) PROVE s[i] \in ToSet(t)
    <2>1. i # 1
      BY <1>1, <1>6
    <2>2. i - 1 \in 1 .. Len(t) /\ (i - 1) + 1 = i
      BY <1>1, <2>1
    <2>3. t[i - 1] = s[i]
      BY <1>1, <2>2
    <2> QED
      BY <1>3, <2>2, <2>3
  <1> QED
    BY <1>1, <1>3, <1>5, <1>6 DEF t

\* What applying the binding at a place does: to the run, which is its own and
\* not started by a release if it is to stop with its input, and to the codes left
\* to emit, which are those of a remap.
AppliedTo(n) ==
    /\ at = "apply" /\ out = <<>>
    /\ pending' = Restrict(pending, DOMAIN pending \ {n})
    /\ UNCHANGED <<clientVars, worldVars, sinkVars, held, armed, at, event>>

RunAfter(b) ==
    /\ RunsTyped'
    /\ \A k \in RunKey : phase'[k] # phase[k] =>
        b.kind = "run_macro" /\ k = b.id /\ ForDevice(b)
    /\ b.kind = "run_macro" /\ ForDevice(b) /\ phase'[b.id] = "running" /\ HoldBinding(b)
        => event.pressed

OutAfter(b) ==
    /\ out' \in Seq(Output)
    /\ out' # <<>> => b.kind = "remap" /\ ForDevice(b)
    /\ b.kind = "remap" /\ ForDevice(b) => ToSet(out') = ToSet(b.output)

LEMMA ApplyFacts ==
    ASSUME TypeOK, Apply
    PROVE  \E n \in DOMAIN pending :
            pending[n] \in Binding /\ AppliedTo(n) /\ RunAfter(pending[n]) /\ OutAfter(pending[n])
  <1>1. PICK n \in DOMAIN pending :
            /\ NextBinding(n)
            /\ LET b == pending[n]
               IN  IF ~ForDevice(b) \/ b.kind \in {"disable", "launch_app"}
                   THEN UNCHANGED <<runVars, out>>
                   ELSE IF b.kind = "remap"
                   THEN out' = (IF event.pressed THEN b.output ELSE Reverse(b.output)) /\ UNCHANGED runVars
                   ELSE /\ IF b.macro \in DOMAIN config.macros
                           THEN Trigger(b, config.macros[b.macro]) ELSE UNCHANGED runVars
                        /\ UNCHANGED out
    BY DEF Apply
  <1> DEFINE b == pending[n]
  <1>2. /\ b \in Binding /\ b.id \in RunKey /\ b.output \in Seq(Output)
        /\ b.kind \in {"run_macro", "remap", "disable", "launch_app"}
    BY DEF TypeOK, Binding, RunKey
  <1>3. AppliedTo(n) /\ out = <<>>
    BY <1>1 DEF NextBinding, AppliedTo
  <1>4. event.pressed \in BOOLEAN /\ RunsTyped
    BY DEF TypeOK, RunsTyped, Phases
  <1>5. out \in Seq(Output)
    BY DEF TypeOK
  <1> SUFFICES RunAfter(b) /\ OutAfter(b)
    BY <1>2, <1>3
  <1>6. CASE ~ForDevice(b) \/ b.kind \in {"disable", "launch_app"}
    <2>1. UNCHANGED <<runVars, out>>
      BY <1>1, <1>6
    <2>2. UNCHANGED <<phase, bounded, unlaunched>> /\ out' = <<>>
      BY <1>3, <2>1 DEF runVars
    <2>3. ~(b.kind \in {"run_macro", "remap"} /\ ForDevice(b))
      BY <1>6
    <2> HIDE DEF b
    <2>4. RunAfter(b)
      BY <1>4, <2>2, <2>3 DEF RunAfter, RunsTyped
    <2>5. OutAfter(b)
      BY <1>3, <1>5, <2>2, <2>3 DEF OutAfter
    <2> QED
      BY <2>4, <2>5
  <1>7. CASE ForDevice(b) /\ b.kind = "remap"
    <2>1. out' = (IF event.pressed THEN b.output ELSE Reverse(b.output)) /\ UNCHANGED runVars
      BY <1>1, <1>7
    <2> HIDE DEF b
    <2>2. out' \in Seq(Output) /\ ToSet(out') = ToSet(b.output)
      BY <1>2, <2>1, ReverseFacts
    <2>3. UNCHANGED <<phase, bounded, unlaunched>>
      BY <2>1 DEF runVars
    <2>4. RunAfter(b)
      BY <1>4, <1>7, <2>3 DEF RunAfter, RunsTyped
    <2>5. OutAfter(b)
      BY <1>7, <2>2 DEF OutAfter
    <2> QED
      BY <2>4, <2>5
  <1>8. CASE ForDevice(b) /\ b.kind = "run_macro"
    <2>1. /\ IF b.macro \in DOMAIN config.macros
             THEN Trigger(b, config.macros[b.macro]) ELSE UNCHANGED runVars
          /\ out' = out
      BY <1>1, <1>8
    <2> HIDE DEF b
    <2>2. OutAfter(b)
      BY <1>3, <1>5, <1>8, <2>1 DEF OutAfter
    <2>3. CASE b.macro \in DOMAIN config.macros
      <3>1. /\ RunsTyped'
            /\ \A j \in RunKey \ {b.id} : phase'[j] = phase[j]
            /\ phase'[b.id] = "running" /\ Mode(b, config.macros[b.macro]) = "while_held"
                => event.pressed
        BY <1>2, <1>4, <2>1, <2>3, TriggerFacts
      <3> QED
        BY <1>2, <1>8, <2>2, <2>3, <3>1 DEF RunAfter, HoldBinding
    <2>4. CASE b.macro \notin DOMAIN config.macros
      <3>1. UNCHANGED <<phase, bounded, unlaunched>>
        BY <2>1, <2>4 DEF runVars
      <3>2. RunAfter(b)
        BY <1>4, <1>8, <2>4, <3>1 DEF RunAfter, RunsTyped, HoldBinding
      <3> QED
        BY <2>2, <3>2
    <2> QED
      BY <2>3, <2>4
  <1> QED
    BY <1>2, <1>6, <1>7, <1>8

LEMMA TypeInit == Init => TypeOK
  <1> SUFFICES ASSUME Init PROVE TypeOK
    OBVIOUS
  <1> USE EngineAssumption DEF Init
  <1>1. phase \in [RunKey -> {"idle", "running", "stopping"}] /\ bounded \in [RunKey -> BOOLEAN]
    BY DEF RC!RCInit
  <1>2. event \in [device : Device, input : Input, pressed : BOOLEAN]
    OBVIOUS
  <1>3. out \in Seq(Output) /\ DOMAIN pending = {}
    OBVIOUS
  <1>4. phys \in [Device -> SUBSET Input] /\ unplugs \in 0 .. MaxUnplug /\ faults \in 0 .. MaxFaults
    OBVIOUS
  <1> QED
    BY <1>1, <1>2, <1>3, <1>4 DEF TypeOK

\* Whatever a release of all codes leaves down is what the devices refused, and a
\* refusal counts as a fault.
LEMMA ReleaseFacts ==
    ASSUME faults \in 0 .. MaxFaults, ReleaseAll
    PROVE  /\ down' \subseteq down /\ down' = refused'
           /\ faults' \in 0 .. MaxFaults /\ faults <= faults'
  BY EngineAssumption DEF ReleaseAll

LEMMA TypeStep == TypeOK /\ [Next]_vars => TypeOK'
  <1> SUFFICES ASSUME TypeOK, [Next]_vars PROVE TypeOK'
    OBVIOUS
  <1> USE EngineAssumption DEF runVars, readerVars, clientVars, worldVars, sinkVars
  <1>0. RunsTyped
    BY DEF TypeOK, RunsTyped, Phases
  <1>1. CASE UNCHANGED vars
    BY <1>1 DEF vars, TypeOK
  <1>2. ASSUME NEW d \in Device, NEW i \in Input, Read(d, i) PROVE TypeOK'
    BY <1>2 DEF Read, TypeOK
  <1>3. CASE CheckEmergency \/ EventDone
    BY <1>3 DEF CheckEmergency, EventDone, TypeOK
  <1>4. CASE EmergencyStop \/ ClientStopAll
    <2>1. phase' \in [RunKey -> Phases]
      BY <1>0, <1>4, StopEveryFacts DEF EmergencyStop, ClientStopAll, RunsTyped
    <2>2. CASE EmergencyStop
      BY <2>1, <2>2 DEF EmergencyStop, TypeOK, Phases
    <2>3. CASE ClientStopAll
      BY <2>1, <2>3 DEF ClientStopAll, TypeOK, Phases
    <2> QED
      BY <1>4, <2>2, <2>3
  <1>5. CASE EmergencyRelease \/ ClientReleaseAll
    <2>1. down' \subseteq Output /\ refused' \subseteq Output /\ faults' \in 0 .. MaxFaults
      BY <1>5, ReleaseFacts DEF EmergencyRelease, ClientReleaseAll, TypeOK
    <2>2. CASE EmergencyRelease
      BY <2>1, <2>2 DEF EmergencyRelease, TypeOK
    <2>3. CASE ClientReleaseAll
      BY <2>1, <2>3 DEF ClientReleaseAll, TypeOK
    <2> QED
      BY <1>5, <2>2, <2>3
  <1>6. CASE LookupBindings
    <2>1. config \in Config
      BY DEF TypeOK
    <2>2. \A n \in DOMAIN pending' : n \in Nat /\ pending'[n] \in Binding
      BY <1>6, <2>1 DEF LookupBindings, ByCode, Restrict, Config
    <2> QED
      BY <1>6, <2>2 DEF LookupBindings, TypeOK
  <1>7. CASE Apply
    <2>1. PICK n \in DOMAIN pending :
              AppliedTo(n) /\ RunAfter(pending[n]) /\ OutAfter(pending[n])
      BY <1>7, ApplyFacts
    <2>2. \A i \in DOMAIN pending' : i \in DOMAIN pending /\ pending'[i] = pending[i]
      BY <2>1 DEF AppliedTo, Restrict
    <2> QED
      BY <2>1, <2>2 DEF AppliedTo, RunAfter, RunsTyped, OutAfter, TypeOK, Phases
  <1>8. CASE EmitRemap \/ RemapRaises
    <2>1. Head(out) \in Output /\ Tail(out) \in Seq(Output) /\ out # <<>>
      BY <1>8, HeadFacts DEF EmitRemap, RemapRaises, TypeOK
    <2>2. CASE EmitRemap
      BY <2>1, <2>2 DEF EmitRemap, TypeOK
    <2>3. CASE RemapRaises
      BY <2>3 DEF RemapRaises, TypeOK
    <2> QED
      BY <1>8, <2>2, <2>3
  <1>9. CASE Reload
    BY <1>9 DEF Reload, TypeOK
  <1>10. ASSUME NEW m \in MacroId, NEW once \in BOOLEAN, RunMacro(m, once) PROVE TypeOK'
    <2>1. /\ StartRun(m, config.macros[m], once \/ IsBounded(config.macros[m])) /\ m \in RunKey
          /\ UNCHANGED <<readerVars, clientVars, worldVars, sinkVars>>
          /\ (once \/ IsBounded(config.macros[m])) \in BOOLEAN
      BY <1>10 DEF RunMacro, RunKey, IsBounded
    <2>2. RunsTyped'
      BY <1>0, <2>1, StartRunFacts
    <2> QED
      BY <2>1, <2>2 DEF TypeOK, RunsTyped, Phases
  <1>11. ASSUME NEW d \in Device, Unplug(d) PROVE TypeOK'
    BY <1>11 DEF Unplug, TypeOK
  <1>12. ASSUME NEW k \in RunKey, RunEnds(k) PROVE TypeOK'
    BY <1>0, <1>12, RunEndsFacts DEF RunEnds, RunsTyped, TypeOK, Phases
  <1> QED
    BY <1>1, <1>2, <1>3, <1>4, <1>5, <1>6, <1>7, <1>8, <1>9, <1>10, <1>11, <1>12
    DEF Next, EngineStep, Handling

\* Every variable of the engine keeps its type.
THEOREM TypeCorrect == Safety => []TypeOK
  BY TypeInit, TypeStep, PTL DEF Safety
-----------------------------------------------------------------------------
(* The emergency combination. *)

LEMMA ReaderStep == ReaderInv /\ [Next]_vars => ReaderInv'
  <1> SUFFICES ASSUME ReaderInv, [Next]_vars PROVE ReaderInv'
    OBVIOUS
  <1> USE DEF ReaderInv, runVars, readerVars, clientVars, worldVars, sinkVars
  <1>1. CASE UNCHANGED vars
    BY <1>1 DEF vars
  <1>2. CASE EngineStep
    <2>1. ASSUME NEW d \in Device, NEW i \in Input, Read(d, i) PROVE ReaderInv'
      BY <2>1 DEF Read
    <2>2. CASE CheckEmergency \/ EmergencyStop \/ EmergencyRelease \/ LookupBindings
      BY <2>2 DEF CheckEmergency, EmergencyStop, EmergencyRelease, LookupBindings
    <2>3. CASE Apply \/ EmitRemap \/ RemapRaises \/ EventDone
      BY <2>3 DEF Apply, NextBinding, EmitRemap, RemapRaises, EventDone
    <2> QED
      BY <1>2, <2>1, <2>2, <2>3 DEF EngineStep, Handling
  <1>3. CASE Reload \/ ClientStopAll \/ ClientReleaseAll
    BY <1>3 DEF Reload, ClientStopAll, ClientReleaseAll
  <1>4. ASSUME NEW m \in MacroId, NEW once \in BOOLEAN, RunMacro(m, once) PROVE ReaderInv'
    BY <1>4 DEF RunMacro
  <1>5. ASSUME NEW d \in Device, Unplug(d) PROVE ReaderInv'
    BY <1>5 DEF Unplug
  <1>6. ASSUME NEW k \in RunKey, RunEnds(k) PROVE ReaderInv'
    BY <1>6 DEF RunEnds
  <1> QED
    BY <1>1, <1>2, <1>3, <1>4, <1>5, <1>6 DEF Next

\* No edit changes the combination, whatever else it changes.
LEMMA CombinationFacts ==
    ASSUME OneCombination, TypeOK, [Next]_vars
    PROVE  config'.emergency = config.emergency
  <1> USE DEF runVars, readerVars, clientVars, worldVars, sinkVars
  <1>1. CASE Reload
    BY <1>1 DEF Reload, TypeOK, OneCombination
  <1>2. CASE EngineStep
    BY <1>2 DEF EngineStep, Handling, Read, CheckEmergency, EmergencyStop, EmergencyRelease,
                LookupBindings, Apply, NextBinding, EmitRemap, RemapRaises, EventDone
  <1> QED
    BY <1>1, <1>2 DEF Next, vars, ClientStopAll, ClientReleaseAll, RunMacro, Unplug, RunEnds

\* What the reader does to the keys that are down and to those it knows of.
LEMMA ReadFacts ==
    ASSUME TypeOK, NEW d \in Device, NEW i \in Input, Read(d, i)
    PROVE  /\ at = "idle" /\ at' = "check"
           /\ event'.device = d /\ event'.input = i /\ event'.pressed \in BOOLEAN
           /\ event'.pressed <=> i \in phys'[d]
           /\ \A e \in Device, j \in Input : e # d \/ j # i => (j \in phys'[e] <=> j \in phys[e])
           /\ i \in held' <=> event'.pressed
           /\ \A j \in Input : j # i => (j \in held' <=> j \in held)
  <1> DEFINE pressed == i \notin phys[d]
  <1>1. /\ at = "idle" /\ at' = "check"
        /\ event' = [device |-> d, input |-> i, pressed |-> pressed]
        /\ phys' = [phys EXCEPT ![d] = IF pressed THEN @ \cup {i} ELSE @ \ {i}]
        /\ held' = IF pressed THEN held \cup {i} ELSE held \ {i}
    BY DEF Read
  <1>2. pressed \in BOOLEAN /\ phys \in [Device -> SUBSET Input]
    BY DEF TypeOK
  <1> HIDE DEF pressed
  <1>3. event'.device = d /\ event'.input = i /\ event'.pressed = pressed
    BY <1>1
  <1>4. /\ phys'[d] = IF pressed THEN phys[d] \cup {i} ELSE phys[d] \ {i}
        /\ \A e \in Device : e # d => phys'[e] = phys[e]
    BY <1>1, <1>2
  <1> QED
    BY <1>1, <1>2, <1>3, <1>4

\* Only an event and an unplugged device change what is down.
LEMMA KeysFacts ==
    ASSUME [Next]_vars,
           ~(\E d \in Device, i \in Input : Read(d, i)), ~(\E d \in Device : Unplug(d))
    PROVE  phys' = phys /\ held' = held /\ event' = event
  <1> USE DEF runVars, readerVars, clientVars, worldVars, sinkVars
  <1>1. CASE EngineStep
    BY <1>1 DEF EngineStep, Handling, CheckEmergency, EmergencyStop, EmergencyRelease,
                LookupBindings, Apply, NextBinding, EmitRemap, RemapRaises, EventDone
  <1> QED
    BY <1>1 DEF Next, vars, Reload, ClientStopAll, ClientReleaseAll, RunMacro, RunEnds

LEMMA KnowsPressedStep ==
    ASSUME OneKeyboard, TypeOK, KnowsPressed, [Next]_vars
    PROVE  KnowsPressed'
  <1>1. ASSUME NEW d \in Device, NEW i \in Input, Read(d, i) PROVE KnowsPressed'
    <2>1. SUFFICES ASSUME NEW e \in Device, NEW j \in phys'[e] PROVE j \in held'
      BY DEF KnowsPressed, Pressed
    <2>2. phys' \in [Device -> SUBSET Input]
      BY <1>1, TypeStep DEF TypeOK
    <2>3. e = d /\ j \in Input
      BY <2>2 DEF OneKeyboard
    <2>4. j # i => j \in held
      BY <1>1, <2>1, <2>3, ReadFacts DEF KnowsPressed, Pressed
    <2> QED
      BY <1>1, <2>1, <2>3, <2>4, ReadFacts
  <1>2. ASSUME NEW d \in Device, Unplug(d) PROVE KnowsPressed'
    <2>1. held' = held /\ phys' = [phys EXCEPT ![d] = {}]
      BY <1>2 DEF Unplug, readerVars
    <2> QED
      BY <2>1 DEF KnowsPressed, Pressed, TypeOK
  <1> QED
    BY <1>1, <1>2, KeysFacts DEF KnowsPressed, Pressed

LEMMA KnowsReleasedStep ==
    ASSUME OneCombination, NothingUnplugged, TypeOK, KnowsReleased, [Next]_vars
    PROVE  KnowsReleased'
  <1>1. config'.emergency = config.emergency
    BY CombinationFacts
  <1>2. ~(\E d \in Device : Unplug(d))
    BY DEF NothingUnplugged, Unplug, TypeOK
  <1>3. ASSUME NEW d \in Device, NEW i \in Input, Read(d, i) PROVE KnowsReleased'
    <2>1. at' = "check"
      BY <1>3, ReadFacts
    <2>2. held' \subseteq Input
      BY <1>3, TypeStep DEF TypeOK
    <2>3. SUFFICES ASSUME NEW j \in held' PROVE \E e \in Device : j \in phys'[e]
      BY <2>1 DEF KnowsReleased, Pressed
    <2>4. CASE j = i
      BY <1>3, <2>4, ReadFacts
    <2>5. CASE j # i
      <3>1. PICK e \in Device : j \in phys[e]
        BY <1>3, <2>2, <2>5, ReadFacts DEF KnowsReleased, Pressed
      <3> QED
        BY <1>3, <2>2, <2>5, <3>1, ReadFacts
    <2> QED
      BY <2>4, <2>5
  <1>4. CASE ~(\E d \in Device, i \in Input : Read(d, i))
    <2>1. phys' = phys /\ held' = held
      BY <1>2, <1>4, KeysFacts
    <2>2. at' = "stop_all" => at = "stop_all" \/ config.emergency \subseteq held
      <3> USE DEF runVars, readerVars, clientVars, worldVars, sinkVars
      <3>1. CASE EngineStep
        BY <1>4, <3>1 DEF EngineStep, Handling, CheckEmergency, EmergencyStop, EmergencyRelease,
                LookupBindings, Apply, NextBinding, EmitRemap, RemapRaises, EventDone
      <3> QED
        BY <3>1 DEF Next, vars, Reload, ClientStopAll, ClientReleaseAll, RunMacro, Unplug, RunEnds
    <2> QED
      BY <1>1, <2>1, <2>2 DEF KnowsReleased, Pressed
  <1> QED
    BY <1>3, <1>4

\* The reader and the clients keep the latch: whatever starts a run or presses a
\* key does so while the latch is off.
\* What a step leaves of the reader's work: nothing changes it but the steps of
\* the reader.
LEMMA OtherFacts ==
    ASSUME [Next]_vars, ~EngineStep
    PROVE  UNCHANGED readerVars /\ (UNCHANGED phys \/ \E d \in Device : Unplug(d))
  BY DEF Next, vars, Reload, ClientStopAll, ClientReleaseAll, RunMacro, Unplug, RunEnds,
         runVars, readerVars, clientVars, worldVars, sinkVars

LEMMA LatchedStep ==
    ASSUME SwitchStays, TypeOK, ReaderInv, Latched, [Next]_vars
    PROVE  Latched'
  <1>1. config'.emergency = {} <=> config.emergency = {}
    BY TypeStep DEF TypeOK, SwitchStays
  <1>2. phase \in [RunKey -> Phases] /\ RunsTyped /\ BindingId \subseteq RunKey
    BY DEF TypeOK, Phases, RunsTyped, RunKey
  <1> USE DEF runVars, readerVars, clientVars, worldVars, sinkVars
  <1>3. CASE UNCHANGED vars
    BY <1>3 DEF vars, Latched
  <1>4. ASSUME NEW d \in Device, NEW i \in Input, Read(d, i) PROVE Latched'
    BY <1>1, <1>4 DEF Read, Latched
  <1>5. CASE CheckEmergency
    BY <1>1, <1>5 DEF CheckEmergency, Latched
  <1>6. CASE EmergencyStop
    BY <1>1, <1>2, <1>6, StopEveryFacts DEF EmergencyStop, Latched
  <1>7. CASE EmergencyRelease
    BY <1>1, <1>7, ReleaseFacts DEF EmergencyRelease, TypeOK, Latched
  <1>8. CASE LookupBindings \/ EventDone
    BY <1>1, <1>8 DEF LookupBindings, EventDone, Latched
  <1>9. CASE Apply
    <2>1. at = "apply" /\ UNCHANGED <<held, armed, at>>
      BY <1>9 DEF Apply, NextBinding
    <2> QED
      BY <1>1, <2>1 DEF Latched
  <1>10. CASE EmitRemap \/ RemapRaises
    <2>1. at = "apply" /\ UNCHANGED <<held, armed, at>>
      BY <1>10 DEF EmitRemap, RemapRaises, ReaderInv
    <2> QED
      BY <1>1, <2>1 DEF Latched
  <1>11. CASE Reload
    BY <1>1, <1>11 DEF Reload, Latched
  <1>12. CASE ClientStopAll
    BY <1>1, <1>2, <1>12, StopEveryFacts DEF ClientStopAll, Latched
  <1>13. CASE ClientReleaseAll
    BY <1>1, <1>13, ReleaseFacts DEF ClientReleaseAll, TypeOK, Latched
  <1>14. ASSUME NEW m \in MacroId, NEW once \in BOOLEAN, RunMacro(m, once) PROVE Latched'
    <2>1. \A k \in BindingId : phase'[k] = phase[k]
      BY <1>2, <1>14, EngineAssumption DEF RunMacro, StartRun, StartFails, RC!Start
    <2> QED
      BY <1>1, <1>14, <2>1 DEF RunMacro, Latched
  <1>15. ASSUME NEW d \in Device, Unplug(d) PROVE Latched'
    BY <1>1, <1>15 DEF Unplug, Latched
  <1>16. ASSUME NEW k \in RunKey, RunEnds(k) PROVE Latched'
    <2>1. \A j \in BindingId : phase'[j] = "running" => phase[j] = "running"
      BY <1>2, <1>16, RunEndsFacts
    <2> QED
      BY <1>1, <1>16, <2>1 DEF RunEnds, Latched
  <1> QED
    BY <1>3, <1>4, <1>5, <1>6, <1>7, <1>8, <1>9, <1>10, <1>11, <1>12, <1>13, <1>14, <1>15, <1>16
    DEF Next, EngineStep, Handling

LEMMA LatchStep ==
    ASSUME OneCombination, TypeOK, ReaderInv, LatchInv, [Next]_vars
    PROVE  LatchInv'
  <1>1. config'.emergency = config.emergency
    BY CombinationFacts
  <1>2. Latched'
    BY LatchedStep DEF LatchInv, OneCombination, SwitchStays
  <1> USE DEF runVars, readerVars, clientVars, worldVars, sinkVars
  <1>3. CASE UNCHANGED <<held, armed, at>>
    BY <1>1, <1>2, <1>3 DEF LatchInv
  <1>4. ASSUME NEW d \in Device, NEW i \in Input, Read(d, i) PROVE LatchInv'
    BY <1>1, <1>2, <1>4 DEF Read, LatchInv
  <1>5. CASE CheckEmergency
    BY <1>1, <1>2, <1>5 DEF CheckEmergency, LatchInv
  <1>6. CASE EmergencyStop \/ EmergencyRelease
    BY <1>1, <1>2, <1>6 DEF EmergencyStop, EmergencyRelease, LatchInv, Latched
  <1>7. CASE LookupBindings \/ EventDone
    BY <1>1, <1>2, <1>7 DEF LookupBindings, EventDone, LatchInv
  <1>8. CASE Apply \/ EmitRemap \/ RemapRaises
    BY <1>3, <1>8 DEF Apply, NextBinding, EmitRemap, RemapRaises, ReaderInv
  <1>9. CASE ~EngineStep
    BY <1>3, <1>9, OtherFacts
  <1> QED
    BY <1>4, <1>5, <1>6, <1>7, <1>8, <1>9 DEF EngineStep, Handling

LEMMA EmergencyInit == Init => ReaderInv /\ LatchInv /\ KnowsPressed /\ KnowsReleased
  <1> SUFFICES ASSUME Init PROVE ReaderInv /\ LatchInv /\ KnowsPressed /\ KnowsReleased
    OBVIOUS
  <1>1. /\ out = <<>> /\ at = "idle" /\ DOMAIN pending = {} /\ held = {} /\ armed = FALSE
        /\ \A d \in Device : phys[d] = {}
    BY DEF Init
  <1> QED
    BY <1>1 DEF ReaderInv, LatchInv, Latched, KnowsPressed, KnowsReleased, Pressed

\* "Stop everything if the emergency combination is fully held": with one
\* keyboard, and edits that leave the combination and its switch as they are, no run
\* of a binding plays once the reader has handled the event that completes it, for
\* as long as it is down; and no code of a remap is held then but one whose release
\* the devices refused, which stop_all logs and leaves (executor.py:341-344).
THEOREM EmergencyStops ==
    ASSUME OneKeyboard, OneCombination
    PROVE  Safety => []EmergencyHonoured
  <1> DEFINE Inv == TypeOK /\ ReaderInv /\ LatchInv /\ KnowsPressed
  <1>1. Init => Inv
    BY TypeInit, EmergencyInit
  <1>2. Inv /\ [Next]_vars => Inv'
    BY TypeStep, ReaderStep, LatchStep, KnowsPressedStep
  <1>3. Inv => EmergencyHonoured
    BY DEF LatchInv, Latched, KnowsPressed, EmergencyHonoured
  <1> QED
    BY <1>1, <1>2, <1>3, PTL DEF Safety

\* ... and it stops everything only then: as long as no keyboard is unplugged, and
\* edits leave the combination as it is, what _physically_held takes for the
\* combination is really down.
THEOREM EmergencyIsReal ==
    ASSUME OneCombination, NothingUnplugged
    PROVE  Safety => []NoFalseEmergency
  <1> DEFINE Inv == TypeOK /\ KnowsReleased
  <1>1. Init => Inv
    BY TypeInit, EmergencyInit
  <1>2. Inv /\ [Next]_vars => Inv'
    BY TypeStep, KnowsReleasedStep
  <1>3. Inv => NoFalseEmergency
    BY DEF KnowsReleased, NoFalseEmergency
  <1> QED
    BY <1>1, <1>2, <1>3, PTL DEF Safety
-----------------------------------------------------------------------------
(* Runs and remaps that last as long as a key is down. *)

\* The configuration is one of the constants, and only a reload replaces it.
LEMMA ConfigFacts ==
    ASSUME TypeOK, [Next]_vars
    PROVE  config \in Configs /\ config' \in Configs /\ (~Reload => config' = config)
  <1>1. config \in Configs /\ config' \in Configs
    BY TypeStep DEF TypeOK
  <1>2. ~Reload => config' = config
    <2> USE DEF runVars, readerVars, clientVars, worldVars, sinkVars
    <2>1. CASE EngineStep
      BY <2>1 DEF EngineStep, Handling, Read, CheckEmergency, EmergencyStop, EmergencyRelease,
                  LookupBindings, Apply, NextBinding, EmitRemap, RemapRaises, EventDone
    <2> QED
      BY <2>1 DEF Next, vars, ClientStopAll, ClientReleaseAll, RunMacro, Unplug, RunEnds
  <1> QED
    BY <1>1, <1>2

\* A member of the bindings has a place among them.
LEMMA IsBinding ==
    ASSUME NEW c \in Configs, NEW b \in ToSet(c.bindings)
    PROVE  b \in Binding /\ \E n \in DOMAIN c.bindings : b = c.bindings[n]
  <1>1. c \in Config
    BY EngineAssumption
  <1>2. c.bindings \in Seq(Binding)
    BY <1>1 DEF Config
  <1>3. \E n \in DOMAIN c.bindings : b = c.bindings[n]
    BY DEF ToSet
  <1> QED
    BY <1>2, <1>3

LEMMA NoUnplug ==
    ASSUME NothingUnplugged, TypeOK
    PROVE  ~(\E d \in Device : Unplug(d))
  BY DEF NothingUnplugged, Unplug, TypeOK

\* What a look-up finds: every usable binding of the input.
LEMMA LookupFacts ==
    ASSUME TypeOK, LookupBindings
    PROVE  /\ \A n \in DOMAIN pending' :
                /\ pending'[n] \in ToSet(config.bindings) /\ Usable(pending'[n], config)
                /\ pending'[n].input = event.input
           /\ \A b \in ToSet(config.bindings) : Usable(b, config) /\ b.input = event.input =>
                \E n \in DOMAIN pending' : pending'[n] = b
  <1> DEFINE P == {n \in DOMAIN config.bindings :
                    Usable(config.bindings[n], config) /\ config.bindings[n].input = event.input}
  <1>1. pending' = [n \in P |-> config.bindings[n]]
    BY DEF LookupBindings, ByCode, Restrict
  <1>2. \A b : b \in ToSet(config.bindings) <=> \E n \in DOMAIN config.bindings : config.bindings[n] = b
    BY DEF ToSet
  <1>3. DOMAIN pending' = P /\ \A n \in P : pending'[n] = config.bindings[n]
    BY <1>1
  <1>4. \A n \in P : /\ n \in DOMAIN config.bindings /\ Usable(config.bindings[n], config)
                     /\ config.bindings[n].input = event.input
    OBVIOUS
  <1>5. \A n \in DOMAIN config.bindings :
            Usable(config.bindings[n], config) /\ config.bindings[n].input = event.input => n \in P
    OBVIOUS
  <1> HIDE DEF P
  <1> QED
    BY <1>2, <1>3, <1>4, <1>5

\* The binding that is applied, and what that does.
Applied(b) ==
    \E n \in DOMAIN pending : pending[n] = b /\ AppliedTo(n) /\ RunAfter(b) /\ OutAfter(b)

LEMMA ApplyApplies ==
    ASSUME TypeOK, PendingInv, Apply
    PROVE  \E b : Applied(b) /\ LookedUp(b)
  <1>1. PICK n \in DOMAIN pending : AppliedTo(n) /\ RunAfter(pending[n]) /\ OutAfter(pending[n])
    BY ApplyFacts
  <1> QED
    BY <1>1 DEF Applied, PendingInv

LEMMA PendingStep ==
    ASSUME NothingUnplugged, TypeOK, ReaderInv, PendingInv, [Next]_vars
    PROVE  PendingInv'
  <1>1. config \in Configs /\ ~(\E d \in Device : Unplug(d))
    BY NoUnplug DEF TypeOK
  <1>2. ASSUME NEW d \in Device, NEW i \in Input, Read(d, i) PROVE PendingInv'
    <2>1. pending' = pending /\ DOMAIN pending = {}
      BY <1>2 DEF Read, ReaderInv
    <2> QED
      BY <1>2, <2>1, ReadFacts DEF PendingInv
  <1>3. CASE LookupBindings
    <2>1. at = "lookup" /\ phys' = phys /\ event' = event
      BY <1>3 DEF LookupBindings, worldVars
    <2>2. \A n \in DOMAIN pending' :
            /\ pending'[n] \in ToSet(config.bindings) /\ Usable(pending'[n], config)
            /\ pending'[n].input = event.input
      BY <1>3, LookupFacts
    <2>3. \A n \in DOMAIN pending' : LookedUp(pending'[n])
      BY <1>1, <2>2 DEF LookedUp
    <2>4. \A b : LookedUp(b) => LookedUp(b)'
      BY <2>1 DEF LookedUp
    <2> QED
      BY <2>1, <2>3, <2>4 DEF PendingInv
  <1>4. CASE Apply
    <2>1. PICK n \in DOMAIN pending : AppliedTo(n)
      BY <1>4, ApplyFacts
    <2>2. at = "apply" /\ phys' = phys /\ event' = event
      BY <2>1 DEF AppliedTo, worldVars
    <2>3. \A i \in DOMAIN pending' : i \in DOMAIN pending /\ pending'[i] = pending[i]
      BY <2>1 DEF AppliedTo, Restrict
    <2>4. \A b : LookedUp(b) => LookedUp(b)'
      BY <2>2 DEF LookedUp
    <2> QED
      BY <2>2, <2>3, <2>4 DEF PendingInv
  <1>5. CASE \/ CheckEmergency \/ EmergencyStop \/ EmergencyRelease
             \/ EmitRemap \/ RemapRaises \/ EventDone
    <2>1. /\ phys' = phys /\ event' = event /\ pending' = pending /\ (at = "idle" => at' = "idle")
      BY <1>5 DEF CheckEmergency, EmergencyStop, EmergencyRelease, EmitRemap, RemapRaises,
                  EventDone, worldVars
    <2> QED
      BY <2>1 DEF PendingInv, LookedUp
  <1>6. CASE ~EngineStep
    <2>1. phys' = phys /\ event' = event /\ pending' = pending /\ at' = at
      BY <1>1, <1>6, OtherFacts DEF readerVars
    <2> QED
      BY <2>1 DEF PendingInv, LookedUp
  <1> QED
    BY <1>2, <1>3, <1>4, <1>5, <1>6 DEF EngineStep, Handling

\* A binding whose input is down, or whose release is still ahead, stays so until
\* the emergency ends the handling of the event, or the release comes to it.
LEMMA HeldOrAheadStep ==
    ASSUME NothingUnplugged, TypeOK, ReaderInv, [Next]_vars,
           NEW b \in ToSet(config.bindings), Usable(b, config), HeldOrAhead(b)
    PROVE  \/ HeldOrAhead(b)'
           \/ CheckEmergency /\ armed /\ at = "check"
           \/ EmergencyRelease
           \/ Applied(b) /\ Released(b)
  <1>1. ~(\E d \in Device : Unplug(d))
    BY NoUnplug
  <1>2. b \in Binding /\ b.input \in Input
    <2>1. b \in Binding
      BY IsBinding DEF TypeOK
    <2> QED
      BY <2>1 DEF Binding
  <1>3. ASSUME NEW d \in Device, NEW i \in Input, Read(d, i) PROVE HeldOrAhead(b)'
    <2>1. HeldFor(b)
      BY <1>3 DEF HeldOrAhead, ReleaseAhead, ReaderInv, Read
    <2>2. PICK e \in Device : b.device \in {None, e} /\ b.input \in phys[e]
      BY <2>1 DEF HeldFor
    <2>3. CASE b.input \in phys'[e]
      BY <2>2, <2>3 DEF HeldOrAhead, HeldFor
    <2>4. CASE b.input \notin phys'[e]
      <3>1. e = d /\ b.input = i
        BY <1>2, <1>3, <2>2, <2>4, ReadFacts
      <3>2. event'.pressed = FALSE /\ event'.input = b.input /\ event'.device = e /\ at' = "check"
        BY <1>3, <2>4, <3>1, ReadFacts
      <3> QED
        BY <2>2, <3>2 DEF HeldOrAhead, ReleaseAhead, Released, ForDevice
    <2> QED
      BY <2>3, <2>4
  <1>4. CASE CheckEmergency
    <2>1. phys' = phys /\ event' = event /\ at = "check"
          /\ (at' \in {"lookup", "stop_all"} \/ armed)
      BY <1>4 DEF CheckEmergency, worldVars
    <2> QED
      BY <1>4, <2>1 DEF HeldOrAhead, HeldFor, ReleaseAhead, Released, ForDevice, ReaderInv
  <1>5. CASE EmergencyStop
    <2>1. phys' = phys /\ event' = event /\ at' \in {"release_all", "ended"}
      BY <1>5 DEF EmergencyStop, worldVars
    <2> QED
      BY <2>1 DEF HeldOrAhead, HeldFor, ReleaseAhead, Released, ForDevice
  <1>6. CASE LookupBindings
    <2>1. phys' = phys /\ event' = event
      BY <1>6 DEF LookupBindings, worldVars
    <2>2. b.input = event.input => \E n \in DOMAIN pending' : pending'[n] = b
      BY <1>6, LookupFacts
    <2> QED
      BY <2>1, <2>2 DEF HeldOrAhead, HeldFor, ReleaseAhead, Released, ForDevice
  <1>7. CASE Apply
    <2>1. PICK m \in DOMAIN pending : AppliedTo(m) /\ RunAfter(pending[m]) /\ OutAfter(pending[m])
      BY <1>7, ApplyFacts
    <2>2. phys' = phys /\ event' = event /\ at = "apply" /\ at' = at
      BY <2>1 DEF AppliedTo, worldVars
    <2>3. \A n \in DOMAIN pending \ {m} : n \in DOMAIN pending' /\ pending'[n] = pending[n]
      BY <2>1 DEF AppliedTo, Restrict
    <2>4. CASE HeldFor(b)
      BY <2>2, <2>4 DEF HeldOrAhead, HeldFor
    <2>5. CASE ReleaseAhead(b)
      <3>1. PICK n \in DOMAIN pending : pending[n] = b
        BY <2>2, <2>5 DEF ReleaseAhead
      <3>2. Released(b)
        BY <2>5 DEF ReleaseAhead
      <3>3. CASE n = m
        BY <2>1, <3>1, <3>2, <3>3 DEF Applied
      <3>4. CASE n # m
        BY <2>2, <2>3, <3>1, <3>2, <3>4 DEF HeldOrAhead, ReleaseAhead, Released, ForDevice
      <3> QED
        BY <3>3, <3>4
    <2> QED
      BY <2>4, <2>5 DEF HeldOrAhead
  <1>8. CASE EmitRemap \/ RemapRaises \/ EventDone
    <2>1. /\ phys' = phys /\ event' = event /\ pending' = pending /\ at = "apply"
          /\ (at' = at \/ DOMAIN pending = {})
      BY <1>8 DEF EmitRemap, RemapRaises, EventDone, worldVars, ReaderInv
    <2> QED
      BY <2>1 DEF HeldOrAhead, HeldFor, ReleaseAhead, Released, ForDevice
  <1>9. CASE ~EngineStep
    <2>1. phys' = phys /\ event' = event /\ pending' = pending /\ at' = at
      BY <1>1, <1>9, OtherFacts DEF readerVars
    <2> QED
      BY <2>1 DEF HeldOrAhead, HeldFor, ReleaseAhead, Released, ForDevice
  <1> QED
    BY <1>3, <1>4, <1>5, <1>6, <1>7, <1>8, <1>9 DEF EngineStep, Handling

\* Only a binding that is applied starts a run of a binding.
LEMMA StartedByApply ==
    ASSUME TypeOK, [Next]_vars, ~Apply, NEW k \in BindingId, phase'[k] = "running"
    PROVE  phase[k] = "running"
  <1>1. phase \in [RunKey -> Phases] /\ RunsTyped /\ k \in RunKey
    BY DEF TypeOK, RunsTyped, Phases, RunKey
  <1>2. CASE EmergencyStop \/ ClientStopAll
    BY <1>1, <1>2, StopEveryFacts DEF EmergencyStop, ClientStopAll
  <1>3. ASSUME NEW m \in MacroId, NEW once \in BOOLEAN, RunMacro(m, once)
        PROVE  phase[k] = "running"
    BY <1>1, <1>3, EngineAssumption DEF RunMacro, StartRun, StartFails, RC!Start, runVars
  <1>4. ASSUME NEW j \in RunKey, RunEnds(j) PROVE phase[k] = "running"
    BY <1>1, <1>4, RunEndsFacts
  <1>5. CASE phase' = phase
    BY <1>5
  <1>6. CASE EngineStep /\ ~EmergencyStop
    BY <1>5, <1>6 DEF EngineStep, Handling, Read, CheckEmergency, EmergencyRelease, LookupBindings,
                EmitRemap, RemapRaises, EventDone, runVars
  <1> QED
    BY <1>2, <1>3, <1>4, <1>5, <1>6 DEF Next, vars, EngineStep, Handling, Reload, ClientReleaseAll, Unplug, runVars

\* A run that goes on still has its input; one that starts is that of the binding
\* being applied, which OwnIds makes the only one of its id.
LEMMA RunStep ==
    ASSUME HoldsStay, OwnIds, NothingUnplugged,
           TypeOK, ReaderInv, Latched, PendingInv, RunInv, [Next]_vars
    PROVE  RunInv'
  <1>1. config \in Configs /\ config' \in Configs /\ (~Reload => config' = config)
    BY ConfigFacts
  <1> SUFFICES ASSUME NEW k \in BindingId, phase'[k] = "running",
                      NEW b \in ToSet(config'.bindings), b.id = k, Holds(b, config')
               PROVE  Usable(b, config') /\ HeldOrAhead(b)'
    BY DEF RunInv, BindingsOf, HoldBinding, Holds
  <1>2. /\ b \in ToSet(config.bindings) /\ Holds(b, config)
        /\ Usable(b, config) => Usable(b, config')
    BY <1>1 DEF HoldsStay
  <1>3. HoldBinding(b) /\ b \in BindingsOf(k) /\ b.kind = "run_macro" /\ k \in RunKey
    BY <1>2 DEF Holds, HoldBinding, BindingsOf, RunKey
  <1>4. CASE phase[k] = "running"
    <2>1. Usable(b, config) /\ HeldOrAhead(b)
      BY <1>3, <1>4 DEF RunInv
    <2>2. ~(CheckEmergency /\ armed /\ at = "check")
      BY <1>4 DEF Latched
    <2>3. ~EmergencyRelease
      BY <1>4 DEF EmergencyRelease, Latched
    <2>4. ~(Applied(b) /\ Released(b))
      <3>1. Applied(b) => RunAfter(b)
        BY DEF Applied
      <3> QED
        BY <1>3, <3>1 DEF RunAfter, Released
    <2>5. HeldOrAhead(b)'
      BY <1>2, <2>1, <2>2, <2>3, <2>4, HeldOrAheadStep
    <2> QED
      BY <1>2, <2>1, <2>5
  <1>5. CASE phase[k] # "running"
    <2>1. Apply
      BY <1>5, StartedByApply
    <2>2. PICK p : Applied(p) /\ LookedUp(p)
      BY <2>1, ApplyApplies
    <2>3. RunAfter(p) /\ at = "apply" /\ config' = config /\ phys' = phys
      BY <2>2 DEF Applied, AppliedTo, clientVars, worldVars
    <2>4. p.kind = "run_macro" /\ p.id = k /\ ForDevice(p)
      BY <1>3, <1>5, <2>3 DEF RunAfter
    <2>5. PICK c \in Configs : p \in ToSet(c.bindings) /\ Usable(p, c)
      BY <2>2 DEF LookedUp
    <2>6. b \in ToSet(c.bindings) /\ (Usable(b, c) => Usable(b, config))
      BY <1>1, <1>2, <2>5 DEF HoldsStay
    <2>7. p = b
      <3>1. PICK m \in DOMAIN c.bindings : p = c.bindings[m]
        BY <2>5, IsBinding
      <3>2. PICK n \in DOMAIN c.bindings : b = c.bindings[n]
        BY <2>6, IsBinding
      <3>3. m = n
        BY <1>3, <2>4, <2>5, <3>1, <3>2 DEF OwnIds
      <3> QED
        BY <3>1, <3>2, <3>3
    <2>8. event.pressed
      BY <1>3, <2>3, <2>4, <2>7 DEF RunAfter
    <2>9. event.input \in phys[event.device] /\ event.device \in Device
      BY <2>3, <2>8 DEF PendingInv, TypeOK
    <2>10. HeldOrAhead(b)'
      BY <2>2, <2>3, <2>4, <2>7, <2>9 DEF HeldOrAhead, HeldFor, ForDevice, LookedUp
    <2> QED
      BY <1>2, <2>3, <2>5, <2>6, <2>7, <2>10
  <1> QED
    BY <1>4, <1>5

LEMMA HoldInit == Init => PendingInv /\ RunInv /\ OutInv /\ RemapInv
  <1> SUFFICES ASSUME Init PROVE PendingInv /\ RunInv /\ OutInv /\ RemapInv
    OBVIOUS
  <1>1. out = <<>> /\ at = "idle" /\ DOMAIN pending = {} /\ down = {} /\ refused = {}
    BY DEF Init
  <1>2. \A k \in BindingId : phase[k] = "idle"
    BY DEF Init, RC!RCInit, RunKey
  <1> QED
    BY <1>1, <1>2 DEF PendingInv, RunInv, OutInv, RemapInv

LEMMA HeldIsPressed ==
    ASSUME ReaderInv, at = "idle", NEW b, HeldOrAhead(b)
    PROVE  b.input \in Pressed
  BY DEF ReaderInv, HeldOrAhead, ReleaseAhead, HeldFor, Pressed

\* "Holding the trigger repeats the macro until it is released": as long as no
\* edit touches a while-held binding or switches the emergency on or off, no
\* keyboard is unplugged and every binding has an id of its own, a run of a
\* while-held binding plays between events only if its input is down, however
\* often the configuration is reloaded meanwhile (_apply and reload of daemon/engine.py).
THEOREM HoldingIsNeeded ==
    ASSUME SwitchStays, HoldsStay, OwnIds, NothingUnplugged
    PROVE  Safety => []WhileHeldStops
  <1> DEFINE Inv == TypeOK /\ ReaderInv /\ Latched /\ PendingInv /\ RunInv
  <1>1. Init => Inv
    BY TypeInit, EmergencyInit, HoldInit DEF LatchInv
  <1>2. Inv /\ [Next]_vars => Inv'
    BY TypeStep, ReaderStep, LatchedStep, PendingStep, RunStep
  <1>3. Inv => WhileHeldStops
    BY HeldIsPressed DEF WhileHeldStops, RunInv
  <1> QED
    BY <1>1, <1>2, <1>3, PTL DEF Safety

\* A usable remap survives every reload.
LEMMA RemapStays ==
    ASSUME RemapsStay, TypeOK, [Next]_vars,
           NEW b \in ToSet(config.bindings), b.kind = "remap", Usable(b, config)
    PROVE  b \in ToSet(config'.bindings) /\ Usable(b, config')
  BY ConfigFacts DEF RemapsStay

\* A reload in the middle of a combination leaves its remap in place.
LEMMA OutStep ==
    ASSUME RemapsStay, NothingUnplugged, TypeOK, ReaderInv, PendingInv, OutInv, [Next]_vars
    PROVE  OutInv'
  <1>1. CASE Apply
    <2>1. PICK b : Applied(b) /\ LookedUp(b)
      BY <1>1, ApplyApplies
    <2>2. OutAfter(b) /\ event' = event
      BY <2>1 DEF Applied, AppliedTo
    <2>3. SUFFICES ASSUME out' # <<>> PROVE \E p \in ToSet(config'.bindings) : EmittedFrom(p)'
      BY DEF OutInv
    <2>4. b.kind = "remap" /\ ForDevice(b) /\ ToSet(out') = ToSet(b.output)
      BY <2>2, <2>3 DEF OutAfter
    <2>5. b \in ToSet(config'.bindings) /\ Usable(b, config')
      BY <2>1, <2>4, ConfigFacts DEF LookedUp, RemapsStay
    <2>6. EmittedFrom(b)'
      BY <2>1, <2>2, <2>4, <2>5 DEF EmittedFrom, ForDevice, LookedUp
    <2> QED
      BY <2>5, <2>6
  <1>2. ASSUME out # <<>>, ToSet(out') \subseteq ToSet(out), event' = event PROVE OutInv'
    <2>1. PICK b \in ToSet(config.bindings) : EmittedFrom(b)
      BY <1>2 DEF OutInv
    <2>2. b \in ToSet(config'.bindings) /\ Usable(b, config')
      BY <2>1, RemapStays DEF EmittedFrom
    <2>3. EmittedFrom(b)'
      BY <1>2, <2>1, <2>2 DEF EmittedFrom, ForDevice
    <2> QED
      BY <2>2, <2>3 DEF OutInv
  <1>3. CASE EmitRemap
    <2>1. out # <<>> /\ out' = Tail(out) /\ event' = event /\ out \in Seq(Output)
      BY <1>3 DEF EmitRemap, TypeOK
    <2>2. ToSet(out') \subseteq ToSet(out)
      BY <2>1, HeadFacts
    <2> QED
      BY <1>2, <2>1, <2>2
  <1>4. CASE RemapRaises
    BY <1>4 DEF RemapRaises, OutInv
  <1>5. CASE out' = out /\ (out # <<>> => event' = event)
    BY <1>2, <1>5 DEF OutInv
  <1>6. CASE EngineStep /\ ~Apply /\ ~EmitRemap /\ ~RemapRaises
    BY <1>5, <1>6 DEF EngineStep, Handling, Read, CheckEmergency, EmergencyStop, EmergencyRelease,
                LookupBindings, EventDone, ReaderInv
  <1>7. CASE ~EngineStep
    BY <1>5, <1>7, OtherFacts DEF readerVars
  <1> QED
    BY <1>1, <1>3, <1>4, <1>6, <1>7

\* What holds a code goes on holding it, unless the emergency releases all of
\* them; a release that comes to its remap goes on to emit the code.
LEMMA DownFromStep ==
    ASSUME RemapsStay, NothingUnplugged, TypeOK, ReaderInv, Latched, [Next]_vars, faults' = 0, refused = {},
           NEW c \in down, c \in down', NEW b \in ToSet(config.bindings), DownFrom(c, b)
    PROVE  DownFrom(c, b)' /\ b \in ToSet(config'.bindings)
  <1>1. b.kind = "remap" /\ Usable(b, config) /\ c \in ToSet(b.output)
    BY DEF DownFrom
  <1>2. b \in ToSet(config'.bindings) /\ Usable(b, config')
    BY <1>1, RemapStays
  <1>3. SUFFICES HeldOrAhead(b)' \/ (Released(b)' /\ c \in ToSet(out'))
    BY <1>1, <1>2 DEF DownFrom
  <1>4. ~RemapRaises /\ ~EmergencyRelease
    BY DEF RemapRaises, EmergencyRelease, ReleaseAll, TypeOK
  <1>5. CASE HeldOrAhead(b)
    <2>1. ~(CheckEmergency /\ armed /\ at = "check")
      BY DEF Latched
    <2>3. ASSUME Applied(b), Released(b)
          PROVE  Released(b)' /\ c \in ToSet(out')
      <3>1. OutAfter(b) /\ event' = event
        BY <2>3 DEF Applied, AppliedTo
      <3> QED
        BY <1>1, <2>3, <3>1 DEF OutAfter, Released, ForDevice
    <2> QED
      BY <1>1, <1>4, <1>5, <2>1, <2>3, HeldOrAheadStep
  <1>6. CASE ~HeldOrAhead(b)
    <2>1. Released(b) /\ c \in ToSet(out)
      BY <1>6 DEF DownFrom
    <2>2. out # <<>> /\ at = "apply" /\ out \in Seq(Output)
      BY <2>1 DEF ReaderInv, TypeOK, ToSet
    <2>3. CASE EmitRemap
      <3>1. out' = Tail(out) /\ event' = event /\ (event.pressed \/ down' = down \ {Head(out)})
        BY <2>3 DEF EmitRemap
      <3>2. c # Head(out)
        BY <2>1, <3>1 DEF Released
      <3>3. c \in ToSet(out')
        BY <2>1, <2>2, <3>1, <3>2, HeadFacts
      <3> QED
        BY <2>1, <3>1, <3>3 DEF Released, ForDevice
    <2>4. CASE ~EmitRemap
      <3>1. UNCHANGED <<out, event>>
        <4>1. CASE EngineStep
          BY <1>4, <2>2, <2>4, <4>1 DEF EngineStep, Handling, Read, CheckEmergency, EmergencyStop,
                EmergencyRelease, LookupBindings, Apply, NextBinding, EventDone
        <4> QED
          BY <4>1, OtherFacts DEF readerVars
      <3> QED
        BY <2>1, <3>1 DEF Released, ForDevice
    <2> QED
      BY <2>3, <2>4
  <1> QED
    BY <1>5, <1>6

\* Only the emission of a remap presses a code, and a fault is never forgotten.
LEMMA PressedByEmit ==
    ASSUME TypeOK, [Next]_vars
    PROVE  /\ ~EmitRemap => down' \subseteq down
           /\ faults <= faults' /\ (faults' = 0 => refused' \subseteq refused)
  <1> USE DEF runVars, readerVars, clientVars, worldVars, sinkVars
  <1>0. faults \in 0 .. MaxFaults /\ faults <= faults
    BY EngineAssumption DEF TypeOK
  <1>1. CASE EmergencyRelease \/ ClientReleaseAll
    BY <1>0, <1>1 DEF EmergencyRelease, ClientReleaseAll, ReleaseAll
  <1>2. CASE RemapRaises
    <2>1. faults' = faults + 1 /\ UNCHANGED <<down, refused>>
      BY <1>2 DEF RemapRaises
    <2> QED
      BY <1>0, <2>1
  <1>3. CASE EmitRemap
    BY <1>0, <1>3 DEF EmitRemap
  <1>4. CASE UNCHANGED sinkVars
    BY <1>0, <1>4
  <1>5. CASE EngineStep /\ ~EmergencyRelease /\ ~RemapRaises /\ ~EmitRemap
    BY <1>4, <1>5 DEF EngineStep, Handling, Read, CheckEmergency, EmergencyStop, LookupBindings,
                Apply, NextBinding, EventDone
  <1> QED
    BY <1>1, <1>2, <1>3, <1>4, <1>5
    DEF Next, vars, Reload, ClientStopAll, RunMacro, Unplug, RunEnds

LEMMA RemapStep ==
    ASSUME RemapsStay, NothingUnplugged,
           TypeOK, ReaderInv, Latched, PendingInv, OutInv, RemapInv, [Next]_vars
    PROVE  RemapInv'
  <1>1. faults' = 0 => faults = 0 /\ refused = {} /\ refused' = {}
    BY PressedByEmit DEF TypeOK, RemapInv
  <1> SUFFICES ASSUME faults' = 0, NEW c \in down'
               PROVE  \E b \in ToSet(config'.bindings) : DownFrom(c, b)'
    BY <1>1 DEF RemapInv
  <1>2. CASE c \in down
    <2>1. PICK b \in ToSet(config.bindings) : DownFrom(c, b)
      BY <1>1, <1>2 DEF RemapInv
    <2>2. DownFrom(c, b)' /\ b \in ToSet(config'.bindings)
      BY <1>1, <1>2, <2>1, DownFromStep
    <2> QED
      BY <2>2
  <1>3. CASE c \notin down
    <2>1. EmitRemap
      BY <1>3, PressedByEmit
    <2>2. /\ c = Head(out) /\ event.pressed /\ out # <<>> /\ out \in Seq(Output)
          /\ event' = event /\ phys' = phys /\ config' = config
      BY <1>3, <2>1 DEF EmitRemap, TypeOK, worldVars, clientVars
    <2>3. PICK b \in ToSet(config.bindings) : EmittedFrom(b)
      BY <2>2 DEF OutInv
    <2>4. /\ b.kind = "remap" /\ Usable(b, config) /\ c \in ToSet(b.output)
          /\ b.input = event.input /\ ForDevice(b)
      BY <2>2, <2>3, HeadFacts DEF EmittedFrom
    <2>5. event.input \in phys[event.device] /\ event.device \in Device
      BY <2>2 DEF ReaderInv, PendingInv, TypeOK
    <2>6. HeldOrAhead(b)'
      BY <2>2, <2>4, <2>5 DEF HeldOrAhead, HeldFor, ForDevice
    <2>7. DownFrom(c, b)'
      BY <2>2, <2>4, <2>6 DEF DownFrom
    <2> QED
      BY <2>2, <2>3, <2>7
  <1> QED
    BY <1>2, <1>3

\* A remap behaves like a key: as long as no edit touches a remap that is in use or
\* switches the emergency on or off, and no keyboard is unplugged, the virtual devices hold
\* a code between events only while an input remapped to it is down, unless the
\* kernel refused a write (_apply_remap and reload of daemon/engine.py).
THEOREM RemapsAreKeys ==
    ASSUME SwitchStays, RemapsStay, NothingUnplugged
    PROVE  Safety => []RemapHeldByInput
  <1> DEFINE Inv == TypeOK /\ ReaderInv /\ Latched /\ PendingInv /\ OutInv /\ RemapInv
  <1>1. Init => Inv
    BY TypeInit, EmergencyInit, HoldInit DEF LatchInv
  <1>2. Inv /\ [Next]_vars => Inv'
    BY TypeStep, ReaderStep, LatchedStep, PendingStep, OutStep, RemapStep
  <1>3. Inv => RemapHeldByInput
    <2> SUFFICES ASSUME Inv, at = "idle", faults = 0, NEW c \in down
                 PROVE  \E b \in ToSet(config.bindings) :
                            b.kind = "remap" /\ c \in ToSet(b.output) /\ b.input \in Pressed
      BY DEF RemapHeldByInput
    <2>1. PICK b \in ToSet(config.bindings) : DownFrom(c, b)
      BY DEF RemapInv
    <2>2. out = <<>>
      BY DEF ReaderInv
    <2>3. c \notin ToSet(out)
      BY <2>2 DEF ToSet
    <2>4. b.kind = "remap" /\ c \in ToSet(b.output) /\ HeldOrAhead(b)
      BY <2>1, <2>3 DEF DownFrom
    <2>5. b.input \in Pressed
      BY <2>4, HeldIsPressed
    <2> QED
      BY <2>4, <2>5
  <1> QED
    BY <1>1, <1>2, <1>3, PTL DEF Safety
=============================================================================
