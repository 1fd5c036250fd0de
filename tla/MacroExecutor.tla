--------------------------- MODULE MacroExecutor ---------------------------
(***************************************************************************)
(* The executor of macros/executor.py (class MacroExecutor): the registry  *)
(* of runs, and the threads that call into it.                             *)
(*                                                                         *)
(* The callers are the input reader, which reacts to key events one after  *)
(* another, the clients of the control socket, which have a thread each,   *)
(* and the thread that shuts the daemon down.  A call is cut where its     *)
(* thread lets go of the executor's lock: what happens under the lock is   *)
(* one step, and between two steps any other thread may run.               *)
(***************************************************************************)
EXTENDS Playback

CONSTANTS Caller,    \* threads that call the executor
          Key,       \* identities of runs: binding ids and macro ids
          MacroOf,   \* Key -> the macro started under it
          None       \* no handle, no key

ASSUME ExecutorAssumption ==
    /\ MacroOf \in [Key -> Macro]
    /\ None \notin Handle \cup Key

VARIABLES runs,    \* _runs: Key -> the registered handle, or None
          key,     \* Handle -> the key it was started under
          at,      \* where each caller stands in its call
          target,  \* the handle the call is about (start, stop)
          arg,     \* the key a toggle was called with
          snap,    \* stop_all: the handles it copied from the registry
          left     \* stop_all: those its current loop has not reached

callVars == <<at, target, arg, snap, left>>
exVars == <<runs, key, at, target, arg, snap, left>>
allVars == <<vars, exVars>>

Registered(k) == runs[k] # None

-----------------------------------------------------------------------------
ExInit ==
    /\ Init
    /\ runs = [k \in Key |-> None]
    /\ key = [h \in Handle |-> None]
    /\ at = [c \in Caller |-> "idle"]
    /\ target = [c \in Caller |-> None]
    /\ arg = [c \in Caller |-> None]
    /\ snap = [c \in Caller |-> {}]
    /\ left = [c \in Caller |-> {}]

Goto(c, where) == at' = [at EXCEPT ![c] = where]

(* start: under the lock, refuse if the registered run is running, else    *)
(* register a new handle; the thread is launched after the lock is gone.   *)
(* Macros without an enabled action return before the lock.                *)
Startable(m) == \E i \in DOMAIN Actions[m] : Actions[m][i].enabled

\* Seeded bugs: start does not look for a run; start overlooks a run that is on
\* its way out; start does not register; start takes a finished handle again.
RegisterBlindly(c, k, n, h) ==
    /\ Startable(MacroOf[k])
    /\ Create(h, MacroOf[k], n)
    /\ runs' = [runs EXCEPT ![k] = h]
    /\ key' = [key EXCEPT ![h] = k]
    /\ target' = [target EXCEPT ![c] = h]
    /\ arg' = [arg EXCEPT ![c] = None]
    /\ Goto(c, "launch")
    /\ UNCHANGED <<snap, left>>

RegisterOverEnding(c, k, n, h) ==
    /\ ~(Registered(k) /\ pc[runs[k]] \in {"loop", "play", "gap"})
    /\ RegisterBlindly(c, k, n, h)

RegisterUnlisted(c, k, n, h) ==
    /\ ~(Registered(k) /\ IsRunning(runs[k]))
    /\ Create(h, MacroOf[k], n)
    /\ key' = [key EXCEPT ![h] = k]
    /\ target' = [target EXCEPT ![c] = h]
    /\ arg' = [arg EXCEPT ![c] = None]
    /\ Goto(c, "launch")
    /\ UNCHANGED <<runs, snap, left>>

RegisterReused(c, k, n, h) ==
    /\ ~(Registered(k) /\ IsRunning(runs[k]))
    /\ pc[h] \in {"fresh", "dead"}
    /\ pc' = [pc EXCEPT ![h] = "created"]
    /\ runs' = [runs EXCEPT ![k] = h]
    /\ key' = [key EXCEPT ![h] = k]
    /\ target' = [target EXCEPT ![c] = h]
    /\ arg' = [arg EXCEPT ![c] = None]
    /\ Goto(c, "launch")
    /\ UNCHANGED <<snap, left, stop, macro, limit, iter, idx, todo, held, failed, sinkVars>>


Register(c, k, n, h) ==
    /\ Startable(MacroOf[k])
    /\ ~(Registered(k) /\ IsRunning(runs[k]))
    /\ Create(h, MacroOf[k], n)
    /\ runs' = [runs EXCEPT ![k] = h]
    /\ key' = [key EXCEPT ![h] = k]
    /\ target' = [target EXCEPT ![c] = h]
    /\ arg' = [arg EXCEPT ![c] = None]
    /\ Goto(c, "launch")
    /\ UNCHANGED <<snap, left>>

Launch(c) ==
    /\ at[c] = "launch"
    /\ StartThread(target[c])
    /\ target' = [target EXCEPT ![c] = None]
    /\ Goto(c, "idle")
    /\ UNCHANGED <<runs, key, arg, snap, left>>

\* Thread.start raises, as there is no room for one more thread: start is left
\* by the exception, and the handle stays registered, without a thread.
LaunchFails(c) ==
    /\ at[c] = "launch"
    /\ target' = [target EXCEPT ![c] = None]
    /\ Goto(c, "idle")
    /\ UNCHANGED <<vars, runs, key, arg, snap, left>>

\* A handle no thread will ever run.
Abandoned(h) == pc[h] = "created" /\ \A c \in Caller : ~(at[c] = "launch" /\ target[c] = h)

(* stop: the handle is looked up under the lock, its event set afterwards. *)
Lookup(c, k) ==
    /\ target' = [target EXCEPT ![c] = runs[k]]
    /\ arg' = [arg EXCEPT ![c] = None]
    /\ Goto(c, IF Registered(k) THEN "set" ELSE "idle")
    /\ UNCHANGED <<vars, runs, key, snap, left>>

SetStop(c) ==
    /\ at[c] = "set"
    /\ Stop(target[c])
    /\ target' = [target EXCEPT ![c] = None]
    /\ Goto(c, "idle")
    /\ UNCHANGED <<runs, key, arg, snap, left>>

(* toggle: is_running, then stop or start, each under a lock of its own. *)
Toggle(c, k) ==
    /\ arg' = [arg EXCEPT ![c] = k]
    /\ Goto(c, IF Registered(k) /\ IsRunning(runs[k]) THEN "toggle_stop" ELSE "toggle_start")
    /\ UNCHANGED <<vars, runs, key, target, snap, left>>

\* start returned None: another run is active by now, or nothing is enabled.
ToggleRefused(c) ==
    /\ at[c] = "toggle_start"
    /\ \/ Registered(arg[c]) /\ IsRunning(runs[arg[c]])
       \/ ~Startable(MacroOf[arg[c]])
    /\ Goto(c, "idle")
    /\ arg' = [arg EXCEPT ![c] = None]
    /\ UNCHANGED <<vars, runs, key, target, snap, left>>

-----------------------------------------------------------------------------
(* stop_all, alone or as the first half of shutdown. *)

Leave(c) == /\ Goto(c, "idle")
            /\ snap' = [snap EXCEPT ![c] = {}]
            /\ left' = [left EXCEPT ![c] = {}]

StopAll(c) ==
    /\ snap' = [snap EXCEPT ![c] = {runs[k] : k \in Key} \ {None}]
    /\ left' = [left EXCEPT ![c] = snap'[c]]
    /\ Goto(c, "stop_each")
    /\ UNCHANGED <<vars, runs, key, target, arg>>

\* Seeded bugs: the runs are joined without having been stopped; each run is
\* stopped and joined before the next one is stopped.
StopEachJoins(c) ==
    /\ at[c] = "stop_each"
    /\ IF left[c] = {}
       THEN Goto(c, "release_all") /\ UNCHANGED <<vars, left>>
       ELSE \E h \in left[c] :
               /\ Stop(h)
               /\ left' = [left EXCEPT ![c] = @ \ {h}]
               /\ IF pc[h] = "created" THEN Goto(c, "raised") ELSE UNCHANGED at
    /\ UNCHANGED <<runs, key, target, arg, snap>>

StopEachForgets(c) ==
    /\ at[c] = "stop_each"
    /\ left' = [left EXCEPT ![c] = snap[c]]
    /\ Goto(c, "join_each")
    /\ UNCHANGED <<vars, runs, key, target, arg, snap>>


StopEach(c) ==
    /\ at[c] = "stop_each"
    /\ IF left[c] = {}
       THEN /\ left' = [left EXCEPT ![c] = snap[c]]
            /\ Goto(c, "join_each")
            /\ UNCHANGED vars
       ELSE \E h \in left[c] : /\ Stop(h)
                               /\ left' = [left EXCEPT ![c] = @ \ {h}]
                               /\ UNCHANGED at
    /\ UNCHANGED <<runs, key, target, arg, snap>>

\* join returns when the thread is over ...
JoinEach(c) ==
    /\ at[c] = "join_each"
    /\ IF left[c] = {}
       THEN Goto(c, "release_all") /\ UNCHANGED left
       ELSE /\ \E h \in left[c] : /\ pc[h] = "dead"
                                  /\ left' = [left EXCEPT ![c] = @ \ {h}]
            /\ UNCHANGED at
    /\ UNCHANGED <<vars, runs, key, target, arg, snap>>

\* ... or after a second ...
JoinTimeout(c) ==
    /\ at[c] = "join_each"
    /\ \E h \in left[c] : IsRunning(h) /\ left' = [left EXCEPT ![c] = @ \ {h}]
    /\ UNCHANGED <<vars, runs, key, at, target, arg, snap>>

\* ... and raises RuntimeError on a thread that was never launched.
JoinRaises(c) ==
    /\ at[c] = "join_each"
    /\ \E h \in left[c] : pc[h] = "created"
    /\ Goto(c, "raised")
    /\ UNCHANGED <<vars, runs, key, target, arg, snap, left>>

\* The exception is the business of whoever called stop_all.
Propagate(c) ==
    /\ at[c] = "raised"
    /\ Leave(c)
    /\ UNCHANGED <<vars, runs, key, target, arg>>

\* release_all; an exception is logged.
ReleaseEverything(c) ==
    /\ at[c] = "release_all"
    /\ ReleaseAll \/ (open /\ SinkRaises)
    /\ Goto(c, "prune")
    /\ UNCHANGED <<runVars, runs, key, target, arg, snap, left>>

\* Seeded bug: runs that outlive their join are dropped from the registry.
PruneAll(c) ==
    /\ at[c] = "prune"
    /\ runs' = [k \in Key |-> None]
    /\ Goto(c, "returned")
    /\ UNCHANGED <<vars, key, target, arg, snap, left>>


Prune(c) ==
    /\ at[c] = "prune"
    /\ runs' = [k \in Key |-> IF Registered(k) /\ IsRunning(runs[k]) THEN runs[k] ELSE None]
    /\ Goto(c, "returned")
    /\ UNCHANGED <<vars, key, target, arg, snap, left>>

Return(c) ==
    /\ at[c] = "returned"
    /\ Leave(c)
    /\ UNCHANGED <<vars, runs, key, target, arg>>

\* shutdown: stop_all returned, close the sink.
CloseSink(c) ==
    /\ at[c] = "returned"
    /\ Close
    /\ Leave(c)
    /\ UNCHANGED <<runVars, runs, key, target, arg>>

-----------------------------------------------------------------------------
(* The threads of the runs.  _finished unregisters the run, under the lock, *)
(* if the registry still has it.                                            *)

\* Seeded bugs: a finished run stays registered; stop_all joins under the lock
\* that _finished needs.
FinishedStays(h) == Finish(h) /\ UNCHANGED exVars

FinishedBlocked(h) ==
    /\ \A c \in Caller : at[c] # "join_each"
    /\ Finish(h)
    /\ runs' = [runs EXCEPT ![key[h]] = IF @ = h THEN None ELSE @]
    /\ UNCHANGED <<key, callVars>>


Finished(h) ==
    /\ Finish(h)
    /\ runs' = [runs EXCEPT ![key[h]] = IF @ = h THEN None ELSE @]
    /\ UNCHANGED <<key, callVars>>

RunStep(h) ==
    \/ ThreadStep(h) /\ pc[h] # "finish" /\ UNCHANGED exVars
    \/ Finished(h)

Call(c) ==
    /\ at[c] = "idle"
    /\ \/ \E k \in Key : Lookup(c, k) \/ Toggle(c, k)
       \/ \E k \in Key, n \in Iterations, h \in Handle : Register(c, k, n, h)
       \/ StopAll(c)

Continue(c) ==
    \/ at[c] = "toggle_stop" /\ Lookup(c, arg[c])
    \/ at[c] = "toggle_start" /\ \E n \in Iterations, h \in Handle : Register(c, arg[c], n, h)
    \/ Launch(c) \/ LaunchFails(c) \/ SetStop(c) \/ ToggleRefused(c)
    \/ StopEach(c) \/ JoinEach(c) \/ JoinRaises(c) \/ Propagate(c)
    \/ ReleaseEverything(c) \/ Prune(c) \/ Return(c) \/ CloseSink(c)

ExNext ==
    \/ \E c \in Caller : Call(c) \/ Continue(c) \/ JoinTimeout(c)
    \/ \E h \in Handle : RunStep(h) \/ (WakeByClock(h) /\ UNCHANGED exVars)

ExSafety == ExInit /\ [][ExNext]_allVars

\* A call that was begun goes on and a thread that can run runs; no timeout,
\* of a pause or of a join, ever has to expire.
ExFairness == /\ \A c \in Caller : WF_allVars(Continue(c))
              /\ \A h \in Handle : WF_allVars(RunStep(h))

ExSpec == ExSafety /\ ExFairness

-----------------------------------------------------------------------------
(* Properties. *)

\* The type invariant.
ExTypeOK ==
    /\ TypeOK
    /\ runs \in [Key -> Handle \cup {None}]
    /\ key \in [Handle -> Key \cup {None}]
    /\ at \in [Caller -> {"idle", "launch", "set", "toggle_stop", "toggle_start",
                         "stop_each", "join_each", "raised", "release_all",
                         "prune", "returned"}]
    /\ target \in [Caller -> Handle \cup {None}]
    /\ arg \in [Caller -> Key \cup {None}]
    /\ snap \in [Caller -> SUBSET Handle]
    /\ left \in [Caller -> SUBSET Handle]

\* What the registry holds under a key is a run started under that key which
\* has not passed on_finished: a finished run is never stopped, joined or
\* reported as running in place of a live one.
RegistryHoldsUnfinished ==
    \A k \in Key : Registered(k) =>
        /\ key[runs[k]] = k
        /\ pc[runs[k]] \notin {"fresh", "exit", "dead"}

\* A run that is running leaves the registry only by finishing: neither a
\* second start nor the pruning at the end of a stop_all takes it out of the
\* reach of stop and stop_all.
RunningStaysRegistered ==
    [][\A k \in Key :
          Registered(k) /\ IsRunning(runs[k]) /\ runs'[k] # runs[k] => pc[runs[k]] = "finish"]_allVars

\* start: "unless a run is already active under the same key".
OneRunPerKey ==
    \A g, h \in Handle : WillRelease(g) /\ WillRelease(h) /\ key[g] = key[h] => g = h

\* "A run is always stoppable": stop and stop_all find every run that plays.
AlwaysStoppable ==
    \A h \in Handle : WillRelease(h) => stop[h] \/ runs[key[h]] = h

\* "emergency path must not raise".
StopAllNeverRaises == \A c \in Caller : at[c] # "raised"

\* "Stop every run": once stop_all has gone through the runs, none plays on
\* unstopped, however the rest of the call goes: also when it raises on a handle
\* whose thread could not be launched.
StopAllStopsAll ==
    \A c \in Caller, h \in Handle :
        at[c] \in {"join_each", "raised", "release_all", "prune", "returned"} /\ WillRelease(h)
            => stop[h]

\* Every run stop_all copied from the registry ends, one whose thread was not
\* launched yet included, and even if stop_all itself raises on the way.  A
\* handle whose thread cannot be launched has nothing to end.
StopAllEndsRuns ==
    \A c \in Caller, h \in Handle :
        (at[c] = "stop_each" /\ h \in snap[c]) ~> (pc[h] = "dead" \/ Abandoned(h))

\* stop_all returns without waiting for a join to time out: it joins without
\* the lock that a finishing run needs.
StopAllReturns == \A c \in Caller : (at[c] = "stop_each") ~> (at[c] = "idle")

\* With the registry and its callers in place of the free environment, the
\* runs and the devices still behave as module Playback says.
RefinesPlayback == Safety

\* The runs of a key that are registered, and have or get a thread, or still
\* hold something.
RunsOf(k) ==
    {h \in Handle :
        key[h] = k /\ (WillRelease(h) \/ (~Abandoned(h) /\ \E j \in Key : runs[j] = h))}

\* The abstract phase of a key.  "twice" is no phase of RunControl.
PhaseOf(k) ==
    IF RunsOf(k) = {} THEN "idle"
    ELSE IF \E g, h \in RunsOf(k) : g # h THEN "twice"
    ELSE IF \E h \in RunsOf(k) : stop[h] THEN "stopping" ELSE "running"

Phases == [k \in Key |-> PhaseOf(k)]

RC == INSTANCE RunControl WITH RunKey <- Key, phase <- Phases

\* With one calling thread the executor does what module RunControl says: one
\* run per key, and a stopped run is over although no pause has to run out.
ImplementsRunControl == RC!RCSpec
=============================================================================
