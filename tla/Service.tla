------------------------------ MODULE Service ------------------------------
(* How a saved edit reaches the daemon: the window saves a file and asks for *)
(* a reload over the control socket (services/daemon_client.py), a thread of *)
(* the server carries the request out (daemon/server.py), and the engine     *)
(* reads the files, installs them and hands the source what to withhold      *)
(* (reload and _apply_suppression of daemon/engine.py).                      *)
(*                                                                           *)
(* The window waits for each reply, but not for ever: a request it has given *)
(* up is carried out all the same, beside its next ones. The main thread of  *)
(* a starting daemon reloads too, while the server answers already.          *)
(* Macro files are one value here; module Store has them one by one.         *)
EXTENDS Naturals, FiniteSets

CONSTANTS Conn,          \* connections, and the threads that serve them
          Main,          \* the main thread of the daemon
          None,          \* no device, no connection, no size
          MacroId, Binding, Size,
          InitialFiles,  \* what the files may hold at first
          MaxSaves, MaxTimeouts, MaxCrashes

Thread == Conn \cup {Main}
Config == [enabled : BOOLEAN, macros : SUBSET MacroId, bindings : SUBSET Binding]

ASSUME ServiceAssumption ==
    /\ InitialFiles \subseteq Config /\ InitialFiles # {}
    /\ Main \notin Conn /\ None \notin Conn \cup Size
    /\ MaxSaves \in Nat /\ MaxTimeouts \in Nat /\ MaxCrashes \in Nat

VARIABLES files,       \* what is saved
          screenFile,  \* the size that is saved, or None
          client,      \* what the window waits for: at, conn, and the last answer
          asked,       \* Conn -> the request it carries
          at,          \* Thread -> what it does next
          got,         \* Thread -> what it has read so far
          config,      \* what is installed
          source,      \* the source exists: what it withholds, else None
          executor,    \* the executor exists: its sink's size, else None
          restored,    \* the size the starting daemon has read
          spoiled,     \* history: kinds of operations that overlapped, or failed
          saves, timeouts, crashes

daemonVars == <<asked, at, got, config, source, executor, restored>>
bounds == <<saves, timeouts, crashes>>
vars == <<files, screenFile, client, daemonVars, spoiled, bounds>>

Nothing == [enabled |-> FALSE, macros |-> {}, bindings |-> {}]
NoRequest == [command |-> "none", size |-> None]

---------------------------------------------------------------------------
(* What files mean.                                                          *)

IsValid(b, macros) ==
    CASE b.kind = "run_macro" -> b.macro \in macros
      [] b.kind \in {"remap", "launch_app"} -> b.complete
      [] OTHER -> TRUE

Usable(c) == {b \in c.bindings : b.enabled /\ IsValid(b, c.macros)}
Installed(c) == [c EXCEPT !.bindings = Usable(c)]

EffectiveSuppress(b) == b.kind \in {"remap", "disable"} \/ b.suppress

\* Pairs of a device and an input to withhold on it; None is any device.
Suppressed(c) ==
    {<<b.device, b.input>> : b \in {x \in c.bindings : c.enabled /\ EffectiveSuppress(x)}}

\* None is no executor and no suppression map.
ASSUME NoneAssumption ==
    /\ \A s \in Size \cup {None} : [size |-> s] # None
    /\ \A c \in Config : Suppressed(c) # None

---------------------------------------------------------------------------
Init ==
    /\ files \in InitialFiles /\ screenFile = None
    /\ client = [at |-> "idle", conn |-> None, acked |-> FALSE]
    /\ asked = [c \in Conn |-> NoRequest]
    /\ at = [t \in Thread |-> "idle"]
    /\ got = [t \in Thread |-> Nothing]
    /\ config = Nothing /\ source = None /\ executor = None /\ restored = None
    /\ spoiled = {}
    /\ saves = 0 /\ timeouts = 0 /\ crashes = 0

Up == at[Main] # "idle"
Listening == at[Main] = "listening"

Reloading(t) == at[t] \in {"settings", "macros", "bindings", "install", "snapshot", "publish"}
Sizing(t) == at[t] \in {"scale", "remember", "attach"}

Goto(t, step) == at' = [at EXCEPT ![t] = step]

\* An operation starts: it is spoiled if another of its kind is under way.
Starts(kind, others) ==
    spoiled' = IF others = {} THEN spoiled \ {kind} ELSE spoiled \cup {kind}

---------------------------------------------------------------------------
(* The window: one thread, one request at a time.                            *)

\* No connection is accepted: refused at once, and None is all there is.
Refused(request) ==
    /\ ~Up
    /\ UNCHANGED daemonVars

\* A free connection takes the request; a thread will serve it.
Sent(c, request) ==
    /\ Up /\ at[c] = "idle"
    /\ asked' = [asked EXCEPT ![c] = request]
    /\ Goto(c, "queued")
    /\ UNCHANGED <<got, config, source, executor, restored>>

Request(request) ==
    \/ Refused(request) /\ client' = [client EXCEPT !.acked = FALSE]
    \/ \E c \in Conn : Sent(c, request) /\ client' = [at |-> "wait", conn |-> c, acked |-> FALSE]

\* The library saves a file and notifies the daemon; nothing comes between.
Save(new) ==
    /\ client.at = "idle" /\ saves < MaxSaves
    /\ \/ \E v \in BOOLEAN : new = [files EXCEPT !.enabled = v]
       \/ \E v \in SUBSET MacroId : new = [files EXCEPT !.macros = v]
       \/ \E v \in SUBSET Binding : new = [files EXCEPT !.bindings = v]
    /\ new # files
    /\ files' = new
    /\ saves' = saves + 1
    /\ Request([command |-> "reload", size |-> None])
    /\ UNCHANGED <<screenFile, spoiled, timeouts, crashes>>

\* The window opens, or is on another screen.
ReportScreen(s) ==
    /\ client.at = "idle" /\ saves < MaxSaves
    /\ saves' = saves + 1
    /\ Request([command |-> "set_screen", size |-> s])
    /\ UNCHANGED <<files, screenFile, spoiled, timeouts, crashes>>

\* The reply takes longer than the client waits; an edit is not asked for again.
GiveUp ==
    /\ client.at = "wait" /\ timeouts < MaxTimeouts
    /\ timeouts' = timeouts + 1
    /\ client' = [at |-> "idle", conn |-> None, acked |-> FALSE]
    /\ UNCHANGED <<files, screenFile, daemonVars, spoiled, saves, crashes>>

---------------------------------------------------------------------------
(* The server: a thread for each connection, which ends with it.             *)

\* Seeded bug: a request whose client has gone is dropped.
DispatchIfWaited(c) ==
    /\ at[c] = "queued"
    /\ IF client.conn # c
       THEN Goto(c, "idle") /\ UNCHANGED spoiled
       ELSE IF asked[c].command = "reload"
       THEN Goto(c, "settings") /\ Starts("reload", {t \in Thread : Reloading(t)})
       ELSE Goto(c, "scale") /\ Starts("screen", {t \in Thread : Sizing(t)})
    /\ UNCHANGED <<files, screenFile, client, asked, got, config, source, executor, restored, bounds>>

\* accept, a thread, decode, _dispatch.
Dispatch(c) ==
    /\ at[c] = "queued"
    /\ IF asked[c].command = "reload"
       THEN Goto(c, "settings") /\ Starts("reload", {t \in Thread : Reloading(t)})
       ELSE Goto(c, "scale") /\ Starts("screen", {t \in Thread : Sizing(t)})
    /\ UNCHANGED <<files, screenFile, client, asked, got, config, source, executor, restored, bounds>>

\* The reply, if anybody still reads it.
Reply(c) ==
    /\ at[c] = "reply"
    /\ Goto(c, "idle")
    /\ got' = [got EXCEPT ![c] = Nothing]
    /\ asked' = [asked EXCEPT ![c] = NoRequest]
    /\ client' = IF client.conn # c THEN client
                 ELSE [at |-> "idle", conn |-> None, acked |-> asked[c].command = "reload"]
    /\ UNCHANGED <<files, screenFile, config, source, executor, restored, spoiled, bounds>>

---------------------------------------------------------------------------
(* reload, step by step: three files, then the lock, then the source.        *)

still == <<files, screenFile, client, asked, spoiled, bounds>>

ReadSettings(t) ==
    /\ at[t] = "settings" /\ Goto(t, "macros")
    /\ got' = [got EXCEPT ![t].enabled = files.enabled]
    /\ UNCHANGED <<still, config, source, executor, restored>>

ReadMacros(t) ==
    /\ at[t] = "macros" /\ Goto(t, "bindings")
    /\ got' = [got EXCEPT ![t].macros = files.macros]
    /\ UNCHANGED <<still, config, source, executor, restored>>

ReadBindings(t) ==
    /\ at[t] = "bindings" /\ Goto(t, "install")
    /\ got' = [got EXCEPT ![t].bindings = files.bindings]
    /\ UNCHANGED <<still, config, source, executor, restored>>

AfterSuppression(t) ==
    IF t # Main THEN "reply" ELSE IF executor = None THEN "restore" ELSE "listening"

\* Seeded bug: what to withhold is looked up before the bindings are installed.
InstallLate(t) ==
    /\ at[t] = "install"
    /\ Goto(t, IF source = None THEN AfterSuppression(t) ELSE "publish")
    /\ got' = [got EXCEPT ![t] = config]
    /\ config' = Installed(got[t])
    /\ UNCHANGED <<still, source, executor, restored>>

Install(t) ==
    /\ at[t] = "install" /\ Goto(t, "snapshot")
    /\ config' = Installed(got[t])
    /\ UNCHANGED <<still, got, source, executor, restored>>

\* _apply_suppression under the lock: no source, nothing to do.
Snapshot(t) ==
    /\ at[t] = "snapshot"
    /\ IF source = None
       THEN Goto(t, AfterSuppression(t)) /\ UNCHANGED got
       ELSE Goto(t, "publish") /\ got' = [got EXCEPT ![t] = config]
    /\ UNCHANGED <<still, config, source, executor, restored>>

\* And without it: set_suppressed.
Publish(t) ==
    /\ at[t] = "publish" /\ Goto(t, AfterSuppression(t))
    /\ source' = Suppressed(got[t])
    /\ UNCHANGED <<still, got, config, executor, restored>>

---------------------------------------------------------------------------
(* The size of the screen.                                                   *)

\* Only an engine that has its executor has a sink to tell.
Scale(c) ==
    /\ at[c] = "scale" /\ Goto(c, "remember")
    /\ executor' = IF executor = None THEN None ELSE [size |-> asked[c].size]
    /\ UNCHANGED <<still, got, config, source, restored>>

\* Seeded bug: the size is not remembered.
RememberNothing(c) ==
    /\ at[c] = "remember" /\ Goto(c, "reply")
    /\ UNCHANGED <<still, got, config, source, executor, restored>>

\* Remembered for the next start of the daemon, or not.
Remember(c) ==
    /\ at[c] = "remember" /\ Goto(c, "reply")
    /\ \/ screenFile' = asked[c].size /\ UNCHANGED spoiled
       \/ spoiled' = spoiled \cup {"screen"} /\ UNCHANGED screenFile
    /\ UNCHANGED <<files, client, asked, got, config, source, executor, restored, bounds>>

---------------------------------------------------------------------------
(* The daemon starts and dies.                                               *)

\* The server listens, then the engine starts, with a reload.
StartDaemon ==
    /\ ~Up
    /\ Goto(Main, "settings")
    /\ spoiled' = {}
    /\ UNCHANGED <<files, screenFile, client, asked, got, config, source, executor, restored, bounds>>

\* _restore_screen_size: the new sink is not the engine's yet.
Restore ==
    /\ at[Main] = "restore" /\ Goto(Main, "attach")
    /\ restored' = screenFile
    /\ spoiled' = IF \E c \in Conn : Sizing(c) THEN spoiled \cup {"screen"} ELSE spoiled
    /\ UNCHANGED <<files, screenFile, client, asked, got, config, source, executor, bounds>>

\* The executor, with the sink, and the source become the engine's.
Attach ==
    /\ at[Main] = "attach" /\ Goto(Main, "snapshot")
    /\ executor' = [size |-> restored] /\ source' = {}
    /\ spoiled' = IF \E c \in Conn : Reloading(c) THEN spoiled \cup {"reload"} ELSE spoiled
    /\ UNCHANGED <<files, screenFile, client, asked, got, config, restored, bounds>>

\* It is killed: threads, connections and memory go, and a waiting client
\* reads the end of the stream.
Crash ==
    /\ Up /\ crashes < MaxCrashes
    /\ crashes' = crashes + 1
    /\ at' = [t \in Thread |-> "idle"] /\ got' = [t \in Thread |-> Nothing]
    /\ asked' = [c \in Conn |-> NoRequest]
    /\ config' = Nothing /\ source' = None /\ executor' = None /\ restored' = None
    /\ client' = [at |-> "idle", conn |-> None, acked |-> FALSE]
    /\ spoiled' = {}
    /\ UNCHANGED <<files, screenFile, saves, timeouts>>

---------------------------------------------------------------------------
Reload(t) ==
    \/ ReadSettings(t) \/ ReadMacros(t) \/ ReadBindings(t)
    \/ Install(t) \/ Snapshot(t) \/ Publish(t)

Serve(c) == Dispatch(c) \/ Reload(c) \/ Scale(c) \/ Remember(c) \/ Reply(c)
MainStep == Reload(Main) \/ Restore \/ Attach

Next ==
    \/ \E new \in Config : Save(new)
    \/ \E s \in Size : ReportScreen(s)
    \/ GiveUp
    \/ \E c \in Conn : Serve(c)
    \/ MainStep \/ StartDaemon \/ Crash

Safety == Init /\ [][Next]_vars

\* The threads of the daemon run; nobody has to start it or to save anything.
Fairness == WF_vars(MainStep) /\ \A c \in Conn : WF_vars(Serve(c))

Spec == Safety /\ Fairness

---------------------------------------------------------------------------
UpToDate == config = Installed(files)

\* A reload that was acknowledged has put what was saved into effect
\* (engine.py:106, daemon_client.py:157): the window and the daemon agree on
\* the configuration, and the source withholds what that asks for, unless
\* another reload overlapped it or one that was given up goes on.
AcknowledgedIsInstalled ==
    client.acked /\ "reload" \notin spoiled /\ ~(\E c \in Conn : Reloading(c))
        => UpToDate /\ (Listening => source = Suppressed(config))

\* A saved edit takes effect in a running daemon even if the window gave up
\* waiting, or the daemon was down when it was saved (library.py:277): only
\* reloads that overlap can lose it.
SavedTakesEffect ==
    (Listening /\ ~UpToDate)
        ~> (UpToDate /\ source = Suppressed(config)) \/ ~Listening \/ "reload" \in spoiled

\* The size a listening daemon scales by is the one the next will start with
\* (engine.py:166), once nobody is changing it.
ScreenAgrees ==
    Listening /\ "screen" \notin spoiled /\ ~(\E c \in Conn : Sizing(c))
        => executor.size = screenFile

\* What engine.py:109 says of reload: it is "called at start-up and whenever
\* the interface reports that it saved something, so edits take effect without
\* restarting the service".
EditsTakeEffect == (Listening /\ ~UpToDate) ~> (UpToDate \/ ~Listening)
=============================================================================
