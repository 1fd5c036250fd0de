------------------------------- MODULE Daemon -------------------------------
(***************************************************************************)
(* The life of the daemon process: daemon/daemon.py, the start and stop of *)
(* daemon/engine.py, the listen loop of input/evdev_backend.py and the     *)
(* socket file of daemon/server.py.                                        *)
(*                                                                         *)
(* A process has a main thread, which becomes the input reader, and two    *)
(* ways to be asked to stop: a signal, whose handler interrupts the main   *)
(* thread, and the watcher thread, which waits for the shutdown command.   *)
(* Both run request_stop.  All processes share one socket file.            *)
(***************************************************************************)
EXTENDS Naturals, FiniteSets

CONSTANTS Proc,         \* processes that may ever be started
          None,         \* no process
          MaxSignals, MaxCrashes, MaxFaults   \* bounds

ASSUME DaemonAssumption ==
    /\ None \notin Proc
    /\ MaxSignals \in Nat /\ MaxCrashes \in Nat /\ MaxFaults \in Nat

Asker == {"handler", "watcher"}

VARIABLES main,       \* what the main thread does next
          ask,        \* where each asker is in request_stop
          stopping,   \* the event of main()
          requested,  \* on_shutdown_requested
          published,  \* whether the engine has its source and executor
          running,    \* EvdevSource._running
          sink,       \* the virtual devices: "none", "open", "closed"
          listening,  \* whether the process has a socket to listen on
          sock,       \* the process that bound the socket file, or None
          signals, crashes, faults

procVars == <<main, ask, stopping, requested, published, running, sink, listening>>
boundVars == <<signals, crashes, faults>>
vars == <<procVars, sock, boundVars>>

Over(p) == main[p] \in {"exited", "dead"}
Alive(p) == main[p] # "new" /\ ~Over(p)
Listens(p) == Alive(p) /\ listening[p]

Init ==
    /\ main = [p \in Proc |-> "new"]
    /\ ask = [p \in Proc |-> [w \in Asker |-> IF w = "watcher" THEN "wait" ELSE "none"]]
    /\ stopping = [p \in Proc |-> FALSE]
    /\ requested = [p \in Proc |-> FALSE]
    /\ published = [p \in Proc |-> FALSE]
    /\ running = [p \in Proc |-> FALSE]
    /\ sink = [p \in Proc |-> "none"]
    /\ listening = [p \in Proc |-> FALSE]
    /\ sock = None
    /\ signals = 0 /\ crashes = 0 /\ faults = 0

-----------------------------------------------------------------------------
(* The main thread.  It does nothing while the signal handler runs. *)

At(p, where) == main[p] = where /\ ask[p]["handler"] = "none"
Goto(p, where) == main' = [main EXCEPT ![p] = where]

\* main() up to the installed signal handlers; one daemon at a time.
Boot(p) ==
    /\ main[p] = "new"
    /\ \A q \in Proc : ~Alive(q)
    /\ Goto(p, "probe")
    /\ UNCHANGED <<ask, stopping, requested, published, running, sink, listening, sock, boundVars>>

(* ControlServer.start.  A socket nobody listens on is taken for stale. *)
Probe(p) ==
    /\ At(p, "probe")
    /\ Goto(p, IF sock = None THEN "bind" ELSE IF Listens(sock) THEN "exited" ELSE "unlink")
    /\ UNCHANGED <<ask, stopping, requested, published, running, sink, listening, sock, boundVars>>

\* Seeded bug: the stale socket is left where it is.
UnlinkNothing(p) ==
    /\ At(p, "unlink")
    /\ Goto(p, "bind")
    /\ UNCHANGED <<ask, stopping, requested, published, running, sink, listening, sock, boundVars>>

UnlinkStale(p) ==
    /\ At(p, "unlink")
    /\ sock' = None
    /\ Goto(p, "bind")
    /\ UNCHANGED <<ask, stopping, requested, published, running, sink, listening, boundVars>>

Bind(p) ==
    /\ At(p, "bind")
    /\ IF sock = None THEN sock' = p /\ Goto(p, "listen")
                      ELSE Goto(p, "exited") /\ UNCHANGED sock   \* address in use
    /\ UNCHANGED <<ask, stopping, requested, published, running, sink, listening, boundVars>>

\* Listen, start the accept loop and the watcher.
Serve(p) ==
    /\ At(p, "listen")
    /\ listening' = [listening EXCEPT ![p] = TRUE]
    /\ Goto(p, "open")
    /\ UNCHANGED <<ask, stopping, requested, published, running, sink, sock, boundVars>>

(* Engine.start. *)
OpenSink(p) ==
    /\ At(p, "open")
    /\ sink' = [sink EXCEPT ![p] = "open"]
    /\ Goto(p, "publish")
    /\ UNCHANGED <<ask, stopping, requested, published, running, listening, sock, boundVars>>

Publish(p) ==
    /\ At(p, "publish")
    /\ published' = [published EXCEPT ![p] = TRUE]
    /\ Goto(p, "suppress")
    /\ UNCHANGED <<ask, stopping, requested, running, sink, listening, sock, boundVars>>

\* _apply_suppression, before the try statement that shuts the executor down.
Suppress(p) ==
    /\ At(p, "suppress")
    /\ Goto(p, "arm")
    /\ UNCHANGED <<ask, stopping, requested, published, running, sink, listening, sock, boundVars>>

\* EvdevSource.listen sets _running and enters its loop ...
EnterLoop(p) ==
    /\ At(p, "arm")
    /\ running' = [running EXCEPT ![p] = TRUE]
    /\ Goto(p, "loop")
    /\ UNCHANGED <<ask, stopping, requested, published, sink, listening, sock, boundVars>>

\* ... and looks at it whenever select returns: for an event, for the byte that
\* stop writes, or after three seconds.
LeaveLoop(p) ==
    /\ At(p, "loop")
    /\ ~running[p]
    /\ Goto(p, "shutdown")
    /\ UNCHANGED <<ask, stopping, requested, published, running, sink, listening, sock, boundVars>>

\* Seeded bug: the executor is dropped, not shut down.
ShutdownDropped(p) ==
    /\ At(p, "shutdown")
    /\ Goto(p, "retract")
    /\ UNCHANGED <<ask, stopping, requested, published, running, sink, listening, sock, boundVars>>

\* The finally clause of Engine.start: executor.shutdown, then retract.
Shutdown(p) ==
    /\ At(p, "shutdown")
    /\ sink' = [sink EXCEPT ![p] = "closed"]
    /\ Goto(p, "retract")
    /\ UNCHANGED <<ask, stopping, requested, published, running, listening, sock, boundVars>>

Retract(p) ==
    /\ At(p, "retract")
    /\ published' = [published EXCEPT ![p] = FALSE]
    /\ Goto(p, "close_server")
    /\ UNCHANGED <<ask, stopping, requested, running, sink, listening, sock, boundVars>>

(* ControlServer.stop. *)
CloseServer(p) ==
    /\ At(p, "close_server")
    /\ listening' = [listening EXCEPT ![p] = FALSE]
    /\ Goto(p, "remove")
    /\ UNCHANGED <<ask, stopping, requested, published, running, sink, sock, boundVars>>

\* The file is removed by its path, whoever bound it.
RemoveSocket(p) ==
    /\ At(p, "remove")
    /\ sock' = None
    /\ Goto(p, "exited")
    /\ UNCHANGED <<ask, stopping, requested, published, running, sink, listening, boundVars>>

\* Where an exception takes the main thread: through the finally clauses.
Unwind(where) ==
    IF where \in {"arm", "loop"} THEN "shutdown"
    ELSE IF where \in {"open", "publish", "suppress", "shutdown", "retract"} THEN "close_server"
    ELSE "exited"

\* A step of the main thread raises: the socket cannot be listened on, the
\* devices cannot be opened or suppressed, an emergency stop fails in the loop,
\* the executor cannot be shut down.
Fail(p) ==
    /\ \E where \in {"listen", "open", "publish", "suppress", "arm", "loop", "shutdown"} : At(p, where)
    /\ faults < MaxFaults /\ faults' = faults + 1
    /\ Goto(p, Unwind(main[p]))
    /\ UNCHANGED <<ask, stopping, requested, published, running, sink, listening, sock,
                   signals, crashes>>

MainStep(p) ==
    \/ Probe(p) \/ UnlinkStale(p) \/ Bind(p) \/ Serve(p)
    \/ OpenSink(p) \/ Publish(p) \/ Suppress(p) \/ EnterLoop(p) \/ LeaveLoop(p)
    \/ Shutdown(p) \/ Retract(p) \/ CloseServer(p) \/ RemoveSocket(p)

-----------------------------------------------------------------------------
(* Being asked to stop. *)

Signal(p) ==
    /\ Alive(p) /\ ask[p]["handler"] = "none"
    /\ signals < MaxSignals /\ signals' = signals + 1
    /\ ask' = [ask EXCEPT ![p]["handler"] = "check"]
    /\ UNCHANGED <<main, stopping, requested, published, running, sink, listening, sock,
                   crashes, faults>>

\* A client reaches the process through the socket file and its accept loop.
Request(p) ==
    /\ sock = p /\ Listens(p)
    /\ requested' = [requested EXCEPT ![p] = TRUE]
    /\ UNCHANGED <<main, ask, stopping, published, running, sink, listening, sock, boundVars>>

WatcherWakes(p) ==
    /\ Alive(p) /\ requested[p] /\ ask[p]["watcher"] = "wait"
    /\ ask' = [ask EXCEPT ![p]["watcher"] = "check"]
    /\ UNCHANGED <<main, stopping, requested, published, running, sink, listening, sock, boundVars>>

Asks(p, w, where) == Alive(p) /\ ask[p][w] = where
Proceed(p, w, where) == ask' = [ask EXCEPT ![p][w] = where]
Finished(w) == IF w = "watcher" THEN "done" ELSE "none"

CheckStopping(p, w) ==
    /\ Asks(p, w, "check")
    /\ Proceed(p, w, IF stopping[p] THEN Finished(w) ELSE "set")
    /\ UNCHANGED <<main, stopping, requested, published, running, sink, listening, sock, boundVars>>

SetStopping(p, w) ==
    /\ Asks(p, w, "set")
    /\ stopping' = [stopping EXCEPT ![p] = TRUE]
    /\ Proceed(p, w, "read")
    /\ UNCHANGED <<main, requested, published, running, sink, listening, sock, boundVars>>

(* Engine.stop: without executor and source there is nothing to stop. *)
ReadEngine(p, w) ==
    /\ Asks(p, w, "read")
    /\ Proceed(p, w, IF published[p] THEN "stop_all" ELSE Finished(w))
    /\ UNCHANGED <<main, stopping, requested, published, running, sink, listening, sock, boundVars>>

StopAll(p, w) ==
    /\ Asks(p, w, "stop_all")
    /\ Proceed(p, w, "stop_source")
    /\ UNCHANGED <<main, stopping, requested, published, running, sink, listening, sock, boundVars>>

\* stop_all raises: the watcher is over, the main thread leaves its finally clauses.
StopAllRaises(p, w) ==
    /\ Asks(p, w, "stop_all")
    /\ faults < MaxFaults /\ faults' = faults + 1
    /\ Proceed(p, w, Finished(w))
    /\ IF w = "handler" THEN Goto(p, Unwind(main[p])) ELSE UNCHANGED main
    /\ UNCHANGED <<stopping, requested, published, running, sink, listening, sock,
                   signals, crashes>>

\* Seeded bug: the engine stops the runs and forgets the source.
StopSourceForgotten(p, w) ==
    /\ Asks(p, w, "stop_source")
    /\ Proceed(p, w, Finished(w))
    /\ UNCHANGED <<main, stopping, requested, published, running, sink, listening, sock, boundVars>>

StopSource(p, w) ==
    /\ Asks(p, w, "stop_source")
    /\ running' = [running EXCEPT ![p] = FALSE]
    /\ Proceed(p, w, Finished(w))
    /\ UNCHANGED <<main, stopping, requested, published, sink, listening, sock, boundVars>>

AskStep(p, w) == \/ CheckStopping(p, w) \/ SetStopping(p, w) \/ ReadEngine(p, w)
                 \/ StopAll(p, w) \/ StopSource(p, w)

\* The process is killed; its socket file stays.
Crash(p) ==
    /\ Alive(p)
    /\ crashes < MaxCrashes /\ crashes' = crashes + 1
    /\ Goto(p, "dead")
    /\ UNCHANGED <<ask, stopping, requested, published, running, sink, listening, sock,
                   signals, faults>>

-----------------------------------------------------------------------------
Next == \E p \in Proc :
    \/ Boot(p) \/ MainStep(p) \/ Fail(p)
    \/ Signal(p) \/ Request(p) \/ WatcherWakes(p) \/ Crash(p)
    \/ \E w \in Asker : AskStep(p, w) \/ StopAllRaises(p, w)

\* Threads and the signal handler that can go on do so.
Fairness == \A p \in Proc : /\ WF_vars(MainStep(p)) /\ WF_vars(WatcherWakes(p))
                            /\ \A w \in Asker : WF_vars(AskStep(p, w))

Safety == Init /\ [][Next]_vars
Spec == Safety /\ Fairness

-----------------------------------------------------------------------------
(* Properties. *)

\* The type invariant.
TypeOK ==
    /\ main \in [Proc -> {"new", "probe", "unlink", "bind", "listen", "open", "publish",
                          "suppress", "arm", "loop", "shutdown", "retract", "close_server", "remove",
                          "exited", "dead"}]
    /\ ask \in [Proc -> [Asker -> {"none", "wait", "check", "set", "read", "stop_all",
                                   "stop_source", "done"}]]
    /\ stopping \in [Proc -> BOOLEAN]
    /\ requested \in [Proc -> BOOLEAN]
    /\ published \in [Proc -> BOOLEAN]
    /\ running \in [Proc -> BOOLEAN]
    /\ sink \in [Proc -> {"none", "open", "closed"}]
    /\ listening \in [Proc -> BOOLEAN]
    /\ sock \in Proc \cup {None}
    /\ signals \in 0 .. MaxSignals /\ crashes \in 0 .. MaxCrashes /\ faults \in 0 .. MaxFaults

\* "Run the daemon until it is asked to stop": it ends neither for what its
\* predecessor left behind, however that one ended, nor of its own accord.
EndsWhenAsked == \A p \in Proc : main[p] = "exited" => stopping[p] \/ faults > 0

\* A daemon that ends in any way but a crash leaves no socket file of its own,
\* unless listening on it failed.
SocketRemoved == \A p \in Proc : main[p] = "exited" /\ faults = 0 => sock # p

\* The devices are closed, and with them every key released, before the daemon
\* ends, at whatever point of its start-up it was asked to stop.
DevicesClosed == \A p \in Proc : main[p] = "exited" /\ faults = 0 => sink[p] # "open"

\* A request that arrives while the daemon reads events is honoured, whoever
\* else asks at the same time, as long as nothing raises on the way.  One that comes
\* before listen has set _running may be lost: that is StopHonoured.
StopsWhileListening ==
    \A p \in Proc, w \in Asker :
        (main[p] = "loop" /\ running[p] /\ ask[p][w] = "check" /\ ~stopping[p])
            ~> (Over(p) \/ faults > 0)

\* "Run the daemon until it is asked to stop": a request is honoured whenever
\* it arrives.
StopHonoured == \A p \in Proc : stopping[p] ~> (Over(p) \/ faults > 0)
=============================================================================
