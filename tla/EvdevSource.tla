---------------------------- MODULE EvdevSource ----------------------------
(***************************************************************************)
(* Reading and withholding physical input: class EvdevSource of            *)
(* input/evdev_backend.py between the kernel, the session and the engine.  *)
(*                                                                         *)
(* A device is open in the source and, independently, in the session.  An  *)
(* exclusive grab takes it away from the session; the source then forwards *)
(* what is not suppressed through a companion device.  One thread runs the *)
(* listen loop; other threads replace the suppression map and stop it.     *)
(*                                                                         *)
(* Kernel behaviour, as the code relies on it: a device reports to every   *)
(* client, or to the one that grabbed it; destroying a virtual device      *)
(* releases its keys; reading a device that is gone fails.                 *)
(***************************************************************************)
EXTENDS Naturals, Sequences

CONSTANTS Dev,          \* device nodes, none of them this application's own
          Code,
          Produces,     \* Dev -> the codes a device can report
          AnyDevice,          \* the wildcard of a suppression map
          Maps,         \* the suppression maps the engine may declare
          None,
          MaxChanges, MaxSets, MaxFaults     \* bounds

ASSUME SourceAssumption ==
    /\ Produces \in [Dev -> SUBSET Code]
    /\ AnyDevice \notin Dev /\ None \notin Dev
    /\ Maps \subseteq [Dev \cup {AnyDevice} -> SUBSET Code]
    /\ {MaxChanges, MaxSets, MaxFaults} \subseteq Nat

Event == [code : Code, down : BOOLEAN]

VARIABLES plugged,    \* devices that exist
          phys,       \* Dev -> the keys physically down
          session,    \* Dev -> keys the session has down from the device itself
          mirror,     \* Dev -> keys the companion has down, or None: no companion
          handle,     \* Dev -> "closed", "live", or "dead": open but gone
          queue,      \* Dev -> events the source has not read
          grabbed,    \* Dev -> _OpenDevice.grabbed
          supp,       \* Dev -> _OpenDevice.suppressed
          reported,   \* history: Dev -> keys down going by the events given to on_event
          map,        \* _suppressed
          needs,      \* _needs_reconfigure
          wake,       \* whether there is a byte in the wake-up pipe
          owed,       \* callers of set_suppressed and stop that have yet to write it
          running,    \* _running
          loop,       \* where the listen loop is
          paths,      \* the listing of devices the current scan goes by
          work,       \* devices the current for statement has before it
          cur,        \* the device being opened, grabbed or pumped, or None
          want,       \* codes _apply_grab was asked to suppress
          batch,      \* events read from cur and not handled yet
          quiet,      \* history: every switch of the device was made at rest
          changes, sets, faults

kernelVars == <<plugged, phys, session>>
deviceVars == <<mirror, handle, queue, grabbed, supp>>
loopVars == <<loop, paths, work, cur, want, batch>>
sharedVars == <<map, needs, wake, owed, running>>
boundVars == <<changes, sets, faults>>
vars == <<kernelVars, deviceVars, loopVars, sharedVars, reported, quiet, boundVars>>

Init ==
    /\ plugged \in SUBSET Dev
    /\ phys = [d \in Dev |-> {}] /\ session = [d \in Dev |-> {}]
    /\ mirror = [d \in Dev |-> None]
    /\ handle = [d \in Dev |-> "closed"]
    /\ queue = [d \in Dev |-> <<>>]
    /\ grabbed = [d \in Dev |-> FALSE] /\ supp = [d \in Dev |-> {}]
    /\ reported = [d \in Dev |-> {}]
    /\ map \in Maps
    /\ needs = TRUE /\ wake = FALSE /\ owed = 0 /\ running = TRUE
    /\ loop = "top" /\ paths = {} /\ work = {} /\ cur = None /\ want = {} /\ batch = <<>>
    /\ quiet = [d \in Dev |-> TRUE]
    /\ changes = 0 /\ sets = 0 /\ faults = 0

IsOpen(d) == handle[d] # "closed"

\* Nothing is down on d, as anyone sees it, and nothing is on its way.
AtRest(d) == /\ phys[d] = {} /\ session[d] = {} /\ reported[d] = {}
             /\ queue[d] = <<>>

-----------------------------------------------------------------------------
(* The kernel. *)

\* A key changes: its device reports to whoever grabbed it or to everyone.
KeyChange(d, c) ==
    /\ d \in plugged /\ c \in Produces[d]
    /\ changes < MaxChanges /\ changes' = changes + 1
    /\ LET isDown == c \notin phys[d]
           With(s) == IF isDown THEN s \cup {c} ELSE s \ {c}
       IN  /\ phys' = [phys EXCEPT ![d] = With(@)]
           /\ session' = IF grabbed[d] /\ handle[d] = "live" THEN session
                         ELSE [session EXCEPT ![d] = With(@)]
           /\ queue' = IF handle[d] = "live"
                       THEN [queue EXCEPT ![d] = Append(@, [code |-> c, down |-> isDown])]
                       ELSE queue
    /\ UNCHANGED <<plugged, mirror, handle, grabbed, supp, loopVars, sharedVars, reported, quiet,
                   sets, faults>>

Plug(d) ==
    /\ d \notin plugged
    /\ changes < MaxChanges /\ changes' = changes + 1
    /\ plugged' = plugged \cup {d}
    /\ UNCHANGED <<phys, session, deviceVars, loopVars, sharedVars, reported, quiet,
                   sets, faults>>

\* What was not read of a device that goes is lost, its keys are released.
Unplug(d) ==
    /\ d \in plugged
    /\ changes < MaxChanges /\ changes' = changes + 1
    /\ plugged' = plugged \ {d}
    /\ phys' = [phys EXCEPT ![d] = {}]
    /\ session' = [session EXCEPT ![d] = {}]
    /\ handle' = [handle EXCEPT ![d] = IF IsOpen(d) THEN "dead" ELSE @]
    /\ queue' = [queue EXCEPT ![d] = <<>>]
    /\ UNCHANGED <<mirror, grabbed, supp, loopVars, sharedVars, reported, quiet,
                   sets, faults>>

-----------------------------------------------------------------------------
(* Other threads. *)

\* Seeded bug: the listen loop is not woken.
SetWithoutWake(m) ==
    /\ sets < MaxSets /\ sets' = sets + 1
    /\ map' = m /\ needs' = TRUE
    /\ UNCHANGED <<owed, wake, running, kernelVars, deviceVars, loopVars, reported, quiet,
                   changes, faults>>

SetSuppressed(m) ==
    /\ sets < MaxSets /\ sets' = sets + 1
    /\ map' = m /\ needs' = TRUE /\ owed' = owed + 1
    /\ UNCHANGED <<wake, running, kernelVars, deviceVars, loopVars, reported, quiet,
                   changes, faults>>

Stop ==
    /\ running
    /\ running' = FALSE /\ owed' = owed + 1
    /\ UNCHANGED <<map, needs, wake, kernelVars, deviceVars, loopVars, reported, quiet,
                   boundVars>>

\* _wake, after the lock is let go of.
Wake ==
    /\ owed > 0 /\ owed' = owed - 1
    /\ wake' = TRUE
    /\ UNCHANGED <<map, needs, running, kernelVars, deviceVars, loopVars, reported, quiet,
                   boundVars>>

-----------------------------------------------------------------------------
(* The listen loop. *)

Goto(where) == loop' = where
Idle == UNCHANGED <<kernelVars, reported, quiet, boundVars>>

\* The head of the loop reads the flag and clears it, under the lock.  The scan
\* is also due when three seconds have passed, which Rescan says.
Top ==
    /\ loop = "top"
    /\ IF running THEN needs' = FALSE /\ Goto(IF needs THEN "list" ELSE "select")
                  ELSE Goto("over") /\ UNCHANGED needs
    /\ UNCHANGED <<paths, work, cur, want, batch, map, wake, owed, running, deviceVars>> /\ Idle

Rescan ==
    /\ loop = "top" /\ running
    /\ needs' = FALSE
    /\ Goto("list")
    /\ UNCHANGED <<paths, work, cur, want, batch, map, wake, owed, running, deviceVars>> /\ Idle

(* _sync_devices: list, open what is new, drop what is gone, review every grab. *)
ListFails ==
    /\ loop = "list"
    /\ faults < MaxFaults /\ faults' = faults + 1
    /\ Goto("select")
    /\ UNCHANGED <<paths, work, cur, want, batch, sharedVars, deviceVars, kernelVars, reported,
                   quiet, changes, sets>>

List ==
    /\ loop = "list"
    /\ paths' = plugged
    /\ work' = {d \in plugged : ~IsOpen(d)}
    /\ Goto("open")
    /\ UNCHANGED <<cur, want, batch, sharedVars, deviceVars>> /\ Idle

\* One for statement is over, the next one begins.
NextFor ==
    /\ work = {} /\ cur = None
    /\ \/ loop = "open" /\ Goto("drop") /\ work' = {d \in Dev \ paths : IsOpen(d)} /\ paths' = {}
       \/ loop = "drop" /\ Goto("review") /\ work' = {d \in Dev : IsOpen(d)} /\ UNCHANGED paths
       \/ loop \in {"review", "pump"} /\ UNCHANGED <<work, paths>>
             /\ Goto(IF loop = "review" THEN "select" ELSE "top")
    /\ UNCHANGED <<cur, want, batch, sharedVars, deviceVars>> /\ Idle

Take(where, d) == loop = where /\ cur = None /\ d \in work /\ work' = work \ {d}
Wanted(d) == map[AnyDevice] \cup map[d]

\* _open_device: the device is registered, then its grab is applied.
OpenDevice(d) ==
    /\ Take("open", d)
    /\ d \in plugged
    /\ handle' = [handle EXCEPT ![d] = "live"]
    /\ cur' = d /\ want' = Wanted(d)
    /\ quiet' = [quiet EXCEPT ![d] = AtRest(d)]
    /\ UNCHANGED <<loop, paths, batch, sharedVars, kernelVars, mirror, queue, grabbed, supp,
                   reported, boundVars>>

OpenFails(d) ==
    /\ Take("open", d)
    /\ \/ d \notin plugged /\ UNCHANGED faults
       \/ faults < MaxFaults /\ faults' = faults + 1
    /\ UNCHANGED <<loop, paths, cur, want, batch, sharedVars, deviceVars, kernelVars, reported,
                   quiet, changes, sets>>

Review(d) ==
    /\ Take("review", d)
    /\ IF Wanted(d) = supp[d] THEN UNCHANGED <<cur, want>>
                              ELSE cur' = d /\ want' = Wanted(d)
    /\ UNCHANGED <<loop, paths, batch, sharedVars, deviceVars>> /\ Idle

(* _apply_grab. *)
Suppressible == want \cap Produces[cur]
Reviewed == cur' = None /\ want' = {}
Applies == loop \in {"open", "review"} /\ cur # None

\* A switch is quiet when nothing is down or on its way.
Switches(d) == quiet' = [quiet EXCEPT ![d] = @ /\ AtRest(d)]

\* The capabilities cannot be read: nothing can be suppressed on the device.
CannotTell ==
    /\ Applies /\ want # {} /\ want' = {}
    /\ \/ handle[cur] = "dead" /\ UNCHANGED faults
       \/ faults < MaxFaults /\ faults' = faults + 1
    /\ UNCHANGED <<loop, paths, work, cur, batch, sharedVars, deviceVars, kernelVars, reported,
                   quiet, changes, sets>>

Grab ==
    /\ Applies /\ Suppressible # {} /\ ~grabbed[cur]
    /\ handle[cur] = "live"
    /\ grabbed' = [grabbed EXCEPT ![cur] = TRUE]
    /\ mirror' = [mirror EXCEPT ![cur] = {}]
    /\ supp' = [supp EXCEPT ![cur] = Suppressible]
    /\ Switches(cur) /\ Reviewed
    /\ UNCHANGED <<loop, paths, work, batch, sharedVars, kernelVars, handle, queue, reported,
                   boundVars>>

\* The companion cannot be made or the device cannot be grabbed.
GrabFails ==
    /\ Applies /\ Suppressible # {} /\ ~grabbed[cur]
    /\ \/ handle[cur] = "dead" /\ UNCHANGED faults
       \/ faults < MaxFaults /\ faults' = faults + 1
    /\ supp' = [supp EXCEPT ![cur] = {}]
    /\ Reviewed
    /\ UNCHANGED <<loop, paths, work, batch, sharedVars, kernelVars, mirror, handle, queue,
                   grabbed, reported, quiet, changes, sets>>

Ungrab ==
    /\ Applies /\ Suppressible = {} /\ grabbed[cur]
    /\ grabbed' = [grabbed EXCEPT ![cur] = FALSE]
    /\ mirror' = [mirror EXCEPT ![cur] = None]
    /\ supp' = [supp EXCEPT ![cur] = {}]
    /\ Switches(cur) /\ Reviewed
    /\ UNCHANGED <<loop, paths, work, batch, sharedVars, kernelVars, handle, queue, reported,
                   boundVars>>

KeepGrab ==
    /\ Applies /\ grabbed[cur] = (Suppressible # {})
    /\ supp' = [supp EXCEPT ![cur] = Suppressible]
    /\ IF Suppressible = supp[cur] THEN UNCHANGED quiet ELSE Switches(cur)
    /\ Reviewed
    /\ UNCHANGED <<loop, paths, work, batch, sharedVars, kernelVars, mirror, handle, queue,
                   grabbed, reported, boundVars>>

\* _drop_device: unregister, ungrab, close the companion and the device.
Close(d) ==
    /\ handle' = [handle EXCEPT ![d] = "closed"]
    /\ queue' = [queue EXCEPT ![d] = <<>>]
    /\ grabbed' = [grabbed EXCEPT ![d] = FALSE]
    /\ mirror' = [mirror EXCEPT ![d] = None]
    /\ supp' = [supp EXCEPT ![d] = {}]
    /\ quiet' = [quiet EXCEPT ![d] = TRUE]
    /\ UNCHANGED <<kernelVars, reported, boundVars>>

DropDevice(d) ==
    /\ Take("drop", d)
    /\ Close(d)
    /\ UNCHANGED <<loop, paths, cur, want, batch, sharedVars>>

-----------------------------------------------------------------------------
(* select, and the pump. *)

Readable(d) == handle[d] = "dead" \/ (handle[d] = "live" /\ queue[d] # <<>>)

\* select returns with what is ready; the wake-up pipe is drained.
Select ==
    /\ loop = "select"
    /\ wake \/ \E d \in Dev : Readable(d)
    /\ work' = {d \in Dev : Readable(d)}
    /\ wake' = FALSE
    /\ Goto("pump")
    /\ UNCHANGED <<paths, cur, want, batch, map, needs, owed, running, deviceVars>> /\ Idle

SelectTimeout ==
    /\ loop = "select"
    /\ ~wake /\ \A d \in Dev : ~Readable(d)
    /\ Goto("top")
    /\ UNCHANGED <<paths, work, cur, want, batch, sharedVars, deviceVars>> /\ Idle

Read(d) ==
    /\ Take("pump", d)
    /\ handle[d] = "live"
    /\ cur' = d
    /\ batch' = queue[d]
    /\ queue' = [queue EXCEPT ![d] = <<>>]
    /\ UNCHANGED <<loop, paths, want, sharedVars, mirror, handle, grabbed, supp>> /\ Idle

\* Seeded bug: every read error is only logged.
ReadErrorLogged(d) ==
    /\ Take("pump", d)
    /\ handle[d] = "dead"
    /\ UNCHANGED <<loop, paths, cur, want, batch, sharedVars, deviceVars>> /\ Idle

\* The device is gone: ENODEV.
ReadFails(d) ==
    /\ Take("pump", d)
    /\ handle[d] = "dead"
    /\ Close(d)
    /\ UNCHANGED <<loop, paths, cur, want, batch, sharedVars>>

With(s, e) == IF e.down THEN s \cup {e.code} ELSE s \ {e.code}

\* Seeded bug: releases are not forwarded.
ForwardPresses ==
    /\ loop = "pump" /\ batch # <<>>
    /\ LET e == Head(batch)
           forwarded == grabbed[cur] /\ e.code \notin supp[cur] /\ e.down
       IN  /\ mirror' = IF forwarded THEN [mirror EXCEPT ![cur] = With(@, e)] ELSE mirror
           /\ reported' = [reported EXCEPT ![cur] = With(@, e)]
    /\ batch' = Tail(batch)
    /\ UNCHANGED <<loop, paths, work, cur, want, sharedVars, kernelVars, handle, queue, grabbed,
                   supp, quiet, boundVars>>

\* Seeded bug: the engine is told only of what is withheld or merely observed.
ReportUnforwarded ==
    /\ loop = "pump" /\ batch # <<>>
    /\ LET e == Head(batch)
           forwarded == grabbed[cur] /\ e.code \notin supp[cur]
       IN  /\ mirror' = IF forwarded THEN [mirror EXCEPT ![cur] = With(@, e)] ELSE mirror
           /\ reported' = IF forwarded THEN reported ELSE [reported EXCEPT ![cur] = With(@, e)]
    /\ batch' = Tail(batch)
    /\ UNCHANGED <<loop, paths, work, cur, want, sharedVars, kernelVars, handle, queue, grabbed,
                   supp, quiet, boundVars>>

\* Withheld or forwarded, and handed to the engine in any case.
Handle ==
    /\ loop = "pump" /\ batch # <<>>
    /\ LET e == Head(batch)
           forwarded == grabbed[cur] /\ e.code \notin supp[cur]
       IN  /\ \/ /\ mirror' = IF forwarded THEN [mirror EXCEPT ![cur] = With(@, e)] ELSE mirror
                 /\ UNCHANGED faults
              \/ /\ forwarded /\ UNCHANGED mirror         \* the write fails
                 /\ faults < MaxFaults /\ faults' = faults + 1
           /\ reported' = [reported EXCEPT ![cur] = With(@, e)]
    /\ batch' = Tail(batch)
    /\ UNCHANGED <<loop, paths, work, cur, want, sharedVars, kernelVars, handle, queue, grabbed,
                   supp, quiet, changes, sets>>

Pumped ==
    /\ loop = "pump" /\ cur # None /\ batch = <<>>
    /\ cur' = None
    /\ UNCHANGED <<loop, paths, work, want, batch, sharedVars, deviceVars>> /\ Idle

\* on_event raises: the loop is left for its finally clause.
HandleRaises ==
    /\ loop = "pump" /\ batch # <<>>
    /\ faults < MaxFaults /\ faults' = faults + 1
    /\ Goto("over")
    /\ work' = {} /\ cur' = None /\ batch' = <<>>
    /\ UNCHANGED <<paths, want, sharedVars, deviceVars, kernelVars, reported, quiet,
                   changes, sets>>

\* Seeded bug: the device is closed with its companion left running.
TeardownKeepsCompanion(d) ==
    /\ loop = "over" /\ IsOpen(d)
    /\ handle' = [handle EXCEPT ![d] = "closed"]
    /\ UNCHANGED <<mirror, queue, grabbed, supp, kernelVars, reported, quiet, boundVars,
                   loopVars, sharedVars>>

\* _teardown drops every device.
Teardown(d) ==
    /\ loop = "over" /\ IsOpen(d)
    /\ Close(d)
    /\ UNCHANGED <<loopVars, sharedVars>>

-----------------------------------------------------------------------------
LoopStep ==
    \/ Top \/ List \/ ListFails \/ NextFor \/ CannotTell \/ Grab \/ GrabFails \/ Ungrab \/ KeepGrab
    \/ Select \/ Handle \/ Pumped \/ HandleRaises
    \/ \E d \in Dev : \/ OpenDevice(d) \/ OpenFails(d) \/ Review(d) \/ DropDevice(d)
                      \/ Read(d) \/ ReadFails(d) \/ Teardown(d)

Next ==
    \/ LoopStep \/ Rescan \/ SelectTimeout
    \/ \E d \in Dev : Plug(d) \/ Unplug(d) \/ \E c \in Code : KeyChange(d, c)
    \/ \E m \in Maps : SetSuppressed(m)
    \/ Stop \/ Wake

Safety == Init /\ [][Next]_vars

\* The loop goes on and a caller that owes a byte writes it; whether three seconds
\* ever pass is left open.
Spec == Safety /\ WF_vars(LoopStep) /\ WF_vars(Wake)

-----------------------------------------------------------------------------
(* Properties. *)

\* The type invariant.
TypeOK ==
    /\ plugged \subseteq Dev /\ paths \subseteq Dev /\ work \subseteq Dev
    /\ phys \in [Dev -> SUBSET Code] /\ session \in [Dev -> SUBSET Code]
    /\ mirror \in [Dev -> (SUBSET Code) \cup {None}]
    /\ handle \in [Dev -> {"closed", "live", "dead"}]
    /\ queue \in [Dev -> Seq(Event)] /\ batch \in Seq(Event)
    /\ grabbed \in [Dev -> BOOLEAN] /\ quiet \in [Dev -> BOOLEAN]
    /\ supp \in [Dev -> SUBSET Code] /\ reported \in [Dev -> SUBSET Code]
    /\ map \in Maps
    /\ {needs, wake, running} \subseteq BOOLEAN /\ owed \in 0 .. MaxSets + 1
    /\ loop \in {"top", "list", "open", "drop", "review", "select", "pump", "over"}
    /\ cur \in Dev \cup {None} /\ want \subseteq Code
    /\ changes \in 0 .. MaxChanges
    /\ sets \in 0 .. MaxSets /\ faults \in 0 .. MaxFaults

\* An open device whose events are all handled, and which was only switched
\* between grabbed and observed, or between two sets of codes, at rest.
Settled(d) == /\ handle[d] = "live" /\ queue[d] = <<>> /\ cur # d
              /\ quiet[d] /\ faults = 0

\* "every event except the suppressed ones is forwarded": a settled device has
\* the same keys down for the session as under the user's fingers, but for the
\* suppressed ones, and each of them once.
SessionSees ==
    \A d \in Dev : Settled(d) =>
        IF grabbed[d] THEN session[d] = {} /\ mirror[d] = phys[d] \ supp[d]
                      ELSE session[d] = phys[d]

\* The engine hears of every change of a settled device, suppressed or not.
EngineSees == \A d \in Dev : Settled(d) => reported[d] = phys[d]

\* A new suppression map is applied to every device without waiting for the
\* next scan, however it races with the loop.
MapTakesHold ==
    needs ~> \/ loop = "over" \/ faults > 0
             \/ \A d \in Dev : handle[d] = "live" => supp[d] = Wanted(d) \cap Produces[d]

\* A device that goes is let go of, and with it what its companion holds,
\* without waiting for the next scan.
GoneIsDropped == \A d \in Dev : (handle[d] = "dead") ~> (handle[d] # "dead")

\* However the loop ends, every device goes back to the session.
GivenBack == (loop = "over") ~> (\A d \in Dev : ~grabbed[d] /\ mirror[d] = None)
=============================================================================
