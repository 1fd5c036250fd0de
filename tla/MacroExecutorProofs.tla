------------------------ MODULE MacroExecutorProofs ------------------------
(***************************************************************************)
(* Proofs about module MacroExecutor, for any number of calling threads,   *)
(* keys and handles: the executor is an environment of the kind module     *)
(* Playback assumes, so what is proved of the playback of macros holds of  *)
(* the executor's runs, and its registry mirrors the running threads.      *)
(***************************************************************************)
EXTENDS MacroExecutor, PlaybackProofs

(* What a call carries from one step to the next. *)
CallInv ==
    \A c \in Caller :
        /\ at[c] \in {"launch", "set"} => target[c] \in Handle
        /\ at[c] \in {"toggle_stop", "toggle_start"} => arg[c] \in Key

-----------------------------------------------------------------------------
(* Every step of the executor is a step of the playback, or none. *)
LEMMA ImplementsCaller ==
    ASSUME ExTypeOK, CallInv, NEW c \in Caller, Call(c) \/ Continue(c) \/ JoinTimeout(c)
    PROVE  [Next]_vars
  <1>1. ASSUME NEW k \in Key, NEW n \in Iterations, NEW h \in Handle, Register(c, k, n, h)
        PROVE  [Next]_vars
    <2>1. MacroOf[k] \in Macro
      BY ExecutorAssumption
    <2> QED
      BY <1>1, <2>1 DEF Register, Next, Environment
  <1>2. CASE Launch(c) \/ SetStop(c)
    <2>1. target[c] \in Handle
      BY <1>2 DEF Launch, SetStop, CallInv
    <2> QED
      BY <1>2, <2>1 DEF Launch, SetStop, Next, Environment
  <1>3. CASE StopEach(c)
    <2>1. \A h \in left[c] : h \in Handle
      BY DEF ExTypeOK
    <2> QED
      BY <1>3, <2>1 DEF StopEach, Next, Environment
  <1>4. CASE ReleaseEverything(c) \/ CloseSink(c)
    BY <1>4 DEF ReleaseEverything, CloseSink, Next, Environment
  <1>5. CASE \/ \E k \in Key : Lookup(c, k) \/ Toggle(c, k)
             \/ Lookup(c, arg[c])
             \/ LaunchFails(c) \/ StopAll(c) \/ ToggleRefused(c) \/ JoinEach(c) \/ JoinTimeout(c)
             \/ JoinRaises(c) \/ Propagate(c) \/ Prune(c) \/ Return(c)
    <2>1. UNCHANGED vars
      BY <1>5 DEF Lookup, Toggle, LaunchFails, StopAll, ToggleRefused, JoinEach, JoinTimeout,
         JoinRaises, Propagate, Prune, Return
    <2> QED
      BY <2>1
  <1>6. ASSUME at[c] = "toggle_start" PROVE arg[c] \in Key
    BY <1>6 DEF CallInv
  <1> QED
    BY <1>1, <1>2, <1>3, <1>4, <1>5, <1>6 DEF Call, Continue

LEMMA ImplementsStep == ExTypeOK /\ CallInv /\ [ExNext]_allVars => [Next]_vars
  <1> SUFFICES ASSUME ExTypeOK, CallInv, [ExNext]_allVars PROVE [Next]_vars
    OBVIOUS
  <1>1. CASE UNCHANGED allVars
    BY <1>1 DEF allVars
  <1>2. ASSUME NEW h \in Handle, RunStep(h) \/ WakeByClock(h) PROVE [Next]_vars
    BY <1>2 DEF RunStep, Finished, ThreadStep, Next
  <1> QED
    BY <1>1, <1>2, ImplementsCaller DEF ExNext

-----------------------------------------------------------------------------
(* Types. *)
LEMMA ExTypeInit == ExInit => ExTypeOK /\ CallInv
  <1> QED
    BY TypeInit, ExecutorAssumption DEF ExInit, ExTypeOK, CallInv

LEMMA ExTypeCaller ==
    ASSUME ExTypeOK, CallInv, TypeOK', NEW c \in Caller,
           Call(c) \/ Continue(c) \/ JoinTimeout(c)
    PROVE  ExTypeOK' /\ CallInv'
  <1> USE DEF ExTypeOK, CallInv
  <1>1. ASSUME NEW k \in Key, NEW n \in Iterations, NEW h \in Handle, Register(c, k, n, h)
        PROVE  ExTypeOK' /\ CallInv'
    BY <1>1 DEF Register, Goto
  <1>2. CASE Launch(c) \/ LaunchFails(c) \/ SetStop(c)
    BY <1>2 DEF Launch, LaunchFails, SetStop, Goto
  <1>3. ASSUME NEW k \in Key, Lookup(c, k)
        PROVE  ExTypeOK' /\ CallInv'
    BY <1>3 DEF Lookup, Registered, Goto
  <1>4. ASSUME NEW k \in Key, Toggle(c, k)
        PROVE  ExTypeOK' /\ CallInv'
    BY <1>4 DEF Toggle, Goto
  <1>5. CASE ToggleRefused(c)
    BY <1>5 DEF ToggleRefused, Goto
  <1>6. CASE StopAll(c)
    BY <1>6 DEF StopAll, Goto
  <1>7. CASE StopEach(c)
    BY <1>7 DEF StopEach, Goto
  <1>8. CASE JoinEach(c)
    BY <1>8 DEF JoinEach, Goto
  <1>9. CASE JoinTimeout(c) \/ JoinRaises(c)
    BY <1>9 DEF JoinTimeout, JoinRaises, Goto
  <1>10. CASE Propagate(c) \/ Return(c) \/ CloseSink(c)
    BY <1>10 DEF Propagate, Return, CloseSink, Leave, Goto
  <1>11. CASE ReleaseEverything(c)
    BY <1>11 DEF ReleaseEverything, Goto
  <1>12. CASE Prune(c)
    BY <1>12 DEF Prune, Registered, Goto
  <1>13. ASSUME at[c] \in {"toggle_stop", "toggle_start"} PROVE arg[c] \in Key
    BY <1>13
  <1> QED
    BY <1>1, <1>2, <1>3, <1>4, <1>5, <1>6, <1>7, <1>8, <1>9, <1>10, <1>11, <1>12, <1>13
    DEF Call, Continue

LEMMA ExTypeRun ==
    ASSUME ExTypeOK, CallInv, TypeOK', NEW h \in Handle,
           RunStep(h) \/ (WakeByClock(h) /\ UNCHANGED exVars)
    PROVE  ExTypeOK' /\ CallInv'
  <1>1. CASE UNCHANGED exVars
    BY <1>1 DEF exVars, ExTypeOK, CallInv
  <1>2. CASE Finished(h)
    BY <1>2 DEF Finished, callVars, ExTypeOK, CallInv
  <1> QED
    BY <1>1, <1>2 DEF RunStep

\* Every variable of the executor and of its runs keeps its type.
THEOREM ExTypeCorrect == ExSafety => [](ExTypeOK /\ CallInv)
  <1>1. ExTypeOK /\ CallInv /\ [ExNext]_allVars => ExTypeOK' /\ CallInv'
    <2> SUFFICES ASSUME ExTypeOK, CallInv, [ExNext]_allVars PROVE ExTypeOK' /\ CallInv'
      OBVIOUS
    <2>1. TypeOK'
      BY ImplementsStep, TypeStep DEF ExTypeOK
    <2>2. CASE UNCHANGED allVars
      BY <2>1, <2>2 DEF allVars, exVars, ExTypeOK, CallInv
    <2> QED
      BY <2>1, <2>2, ExTypeCaller, ExTypeRun DEF ExNext
  <1> QED
    BY <1>1, ExTypeInit, PTL DEF ExSafety

-----------------------------------------------------------------------------
\* The executor implements the playback of macros: its registry and its callers
\* do to the handles and to the devices nothing that Playback does not allow.
THEOREM ImplementsPlayback == ExSafety => RefinesPlayback
  <1>1. ExInit => Init
    BY DEF ExInit
  <1> QED
    BY <1>1, ImplementsStep, ExTypeCorrect, PTL DEF ExSafety, RefinesPlayback, Safety

\* So nothing stays held by the executor's runs, and no pass is lost.
THEOREM ExecutorLeavesNothingHeld == ExSafety => [](NothingStaysHeld /\ EndsForAReason)
  <1> QED
    BY ImplementsPlayback, NothingIsLeftHeld, NoPassIsLost, PTL DEF RefinesPlayback

-----------------------------------------------------------------------------
(* The registry. *)
LEMMA RegistryCaller ==
    ASSUME ExTypeOK, CallInv, RegistryHoldsUnfinished, NEW c \in Caller,
           Call(c) \/ Continue(c) \/ JoinTimeout(c)
    PROVE  /\ RegistryHoldsUnfinished'
           /\ \A k \in Key : Registered(k) /\ IsRunning(runs[k]) => runs'[k] = runs[k]
  <1>1. ASSUME NEW k \in Key, NEW n \in Iterations, NEW h \in Handle, Register(c, k, n, h)
        PROVE  /\ RegistryHoldsUnfinished'
               /\ \A j \in Key : Registered(j) /\ IsRunning(runs[j]) => runs'[j] = runs[j]
    <2>1. \A j \in Key : runs[j] # h
      BY <1>1, ExecutorAssumption DEF Register, Create, RegistryHoldsUnfinished, Registered
    <2> QED
      BY <1>1, <2>1, ExecutorAssumption
      DEF Register, Create, RegistryHoldsUnfinished, Registered, ExTypeOK, TypeOK
  <1>2. CASE Launch(c)
    <2>1. /\ target[c] \in Handle /\ UNCHANGED <<runs, key>>
          /\ pc' = [pc EXCEPT ![target[c]] = "loop"]
      BY <1>2 DEF Launch, StartThread, CallInv
    <2> QED
      BY <2>1 DEF RegistryHoldsUnfinished, Registered, ExTypeOK, TypeOK
  <1>3. CASE Prune(c)
    <2>1. /\ \A k \in Key : runs'[k] \in {None, runs[k]}
          /\ \A k \in Key : Registered(k) /\ IsRunning(runs[k]) => runs'[k] = runs[k]
          /\ UNCHANGED <<pc, key>>
      BY <1>3 DEF Prune, Registered, vars
    <2> QED
      BY <2>1 DEF RegistryHoldsUnfinished, Registered
  <1>4. CASE \/ \E k \in Key : Lookup(c, k) \/ Toggle(c, k)
             \/ Lookup(c, arg[c])
             \/ StopAll(c) \/ ToggleRefused(c) \/ JoinEach(c) \/ JoinTimeout(c)
             \/ JoinRaises(c) \/ Propagate(c) \/ Return(c)
             \/ LaunchFails(c) \/ SetStop(c) \/ StopEach(c) \/ ReleaseEverything(c) \/ CloseSink(c)
    <2>1. UNCHANGED <<pc, runs, key>>
      BY <1>4 DEF LaunchFails, Lookup, Toggle, StopAll, ToggleRefused, JoinEach, JoinTimeout,
         JoinRaises, Propagate, Return, SetStop, StopEach, ReleaseEverything, CloseSink,
         Stop, vars, runVars
    <2> QED
      BY <2>1 DEF RegistryHoldsUnfinished, Registered
  <1>5. ASSUME at[c] = "toggle_start" PROVE arg[c] \in Key
    BY <1>5 DEF CallInv
  <1> QED
    BY <1>1, <1>2, <1>3, <1>4, <1>5 DEF Call, Continue

LEMMA RegistryRun ==
    ASSUME ExTypeOK, RegistryHoldsUnfinished, NEW h \in Handle,
           RunStep(h) \/ (WakeByClock(h) /\ UNCHANGED exVars)
    PROVE  /\ RegistryHoldsUnfinished'
           /\ \A k \in Key : Registered(k) /\ runs'[k] # runs[k] => pc[runs[k]] = "finish"
  <1>1. CASE Finished(h)
    <2>1. /\ pc[h] = "finish" /\ pc' = [pc EXCEPT ![h] = "exit"] /\ key' = key
          /\ \A k \in Key : runs'[k] = IF k = key[h] /\ runs[k] = h THEN None ELSE runs[k]
      BY <1>1 DEF Finished, Finish, callVars, ExTypeOK
    <2> QED
      BY <2>1 DEF RegistryHoldsUnfinished, Registered, ExTypeOK, TypeOK
  <1>2. CASE \/ ThreadStep(h) /\ pc[h] # "finish" /\ UNCHANGED exVars
             \/ WakeByClock(h) /\ UNCHANGED exVars
    <2>1. \/ pc' = pc
          \/ \E where \in {"cleanup", "play", "gap", "loop", "finish"} :
                pc[h] # "exit" /\ pc' = [pc EXCEPT ![h] = where]
          \/ pc[h] = "exit" /\ pc' = [pc EXCEPT ![h] = "dead"]
      BY <1>2 DEF ThreadStep, WakeByClock, WakeByStop, LoopHead, BeginAction, EndPass,
         PressKey, ReleaseKey, Emit, Raise, Wake, Sleeping, ReleaseHeld, EndCleanup,
         Finish, Exit
    <2> QED
      BY <1>2, <2>1 DEF exVars, RegistryHoldsUnfinished, Registered, ExTypeOK, TypeOK
  <1> QED
    BY <1>1, <1>2 DEF RunStep

LEMMA RegistryStep ==
    ExTypeOK /\ CallInv /\ RegistryHoldsUnfinished /\ [ExNext]_allVars =>
        /\ RegistryHoldsUnfinished'
        /\ [\A k \in Key : Registered(k) /\ IsRunning(runs[k]) /\ runs'[k] # runs[k]
                => pc[runs[k]] = "finish"]_allVars
  <1> SUFFICES ASSUME ExTypeOK, CallInv, RegistryHoldsUnfinished, [ExNext]_allVars
               PROVE  /\ RegistryHoldsUnfinished'
                      /\ \A k \in Key :
                            Registered(k) /\ IsRunning(runs[k]) /\ runs'[k] # runs[k]
                                => pc[runs[k]] = "finish"
    OBVIOUS
  <1>1. CASE UNCHANGED allVars
    BY <1>1 DEF allVars, vars, exVars, RegistryHoldsUnfinished, Registered
  <1> QED
    BY <1>1, RegistryCaller, RegistryRun DEF ExNext

\* The registry never holds a run that has finished, however calls and runs
\* overlap.
THEOREM RegistryUnfinished == ExSafety => []RegistryHoldsUnfinished
  <1>1. ExInit => RegistryHoldsUnfinished
    BY DEF ExInit, RegistryHoldsUnfinished, Registered
  <1> QED
    BY <1>1, RegistryStep, ExTypeCorrect, PTL DEF ExSafety

\* A running run leaves the registry only by finishing.
THEOREM RegisteredUntilFinished == ExSafety => RunningStaysRegistered
  <1> QED
    BY RegistryStep, RegistryUnfinished, ExTypeCorrect, PTL
    DEF ExSafety, RunningStaysRegistered

-----------------------------------------------------------------------------
(* One calling thread.  Overlapping calls break what follows, as the run that *)
(* module MacroExecutor keeps as a counterexample shows.                      *)

OneCaller == \A c, d \in Caller : c = d

Alive == {"loop", "play", "gap", "cleanup", "finish"}

\* Where stop_all is once it has set every stop event.
Stopped == {"join_each", "raised", "release_all", "prune", "returned"}

\* A run is registered from its launch until it has finished, and so is the handle
\* that is being launched; one that is not made yet has not been stopped; stop_all
\* leaves no run behind that is neither stopped nor on its list.
OneCallerInv ==
    /\ \A h \in Handle : pc[h] \in Alive => key[h] \in Key /\ runs[key[h]] = h
    /\ \A c \in Caller : at[c] = "launch" =>
          /\ pc[target[c]] = "created"
          /\ key[target[c]] \in Key /\ runs[key[target[c]]] = target[c]
    /\ \A h \in Handle : pc[h] = "fresh" => ~stop[h]
    /\ \A c \in Caller, h \in Handle : at[c] = "stop_each" /\ WillRelease(h) => stop[h] \/ h \in left[c]
    /\ \A c \in Caller, h \in Handle : at[c] \in Stopped /\ WillRelease(h) => stop[h]

\* A handle without a thread is abandoned, but for the one that is being launched.
LEMMA AbandonedOrLaunched ==
    ASSUME OneCaller, NEW c \in Caller, NEW h \in Handle
    PROVE  Abandoned(h) <=> pc[h] = "created" /\ ~(at[c] = "launch" /\ target[c] = h)
  BY DEF OneCaller, Abandoned

LEMMA OneCallerCall ==
    ASSUME OneCaller, ExTypeOK, CallInv, RegistryHoldsUnfinished, OneCallerInv, NEW c \in Caller,
           Call(c) \/ Continue(c) \/ JoinTimeout(c)
    PROVE  OneCallerInv'
  <1> USE DEF Goto, Alive, Stopped
  <1>0. /\ pc \in [Handle -> Alive \cup {"created", "fresh", "exit", "dead"}]
        /\ stop \in [Handle -> BOOLEAN]
        /\ runs \in [Key -> Handle \cup {None}] /\ key \in [Handle -> Key \cup {None}]
        /\ target \in [Caller -> Handle \cup {None}] /\ DOMAIN at = Caller
        /\ left \in [Caller -> SUBSET Handle]
        /\ None \notin Handle
        /\ \A d \in Caller : d = c
    BY ExecutorAssumption DEF ExTypeOK, TypeOK, OneCaller
  <1>1. ASSUME NEW k \in Key, NEW n \in Iterations, NEW h \in Handle, Register(c, k, n, h),
               at[c] \in {"idle", "toggle_start"}
        PROVE  OneCallerInv'
    <2>1. ~(runs[k] # None /\ pc[runs[k]] \in Alive)
      BY <1>0, <1>1 DEF Register, Registered, IsRunning
    <2>2. /\ pc[h] = "fresh" /\ pc' = [pc EXCEPT ![h] = "created"] /\ stop' = stop
          /\ runs' = [runs EXCEPT ![k] = h] /\ key' = [key EXCEPT ![h] = k]
          /\ target' = [target EXCEPT ![c] = h] /\ at' = [at EXCEPT ![c] = "launch"]
      BY <1>1 DEF Register, Create
    <2>3. \A g \in Handle : pc'[g] \in Alive => key'[g] \in Key /\ runs'[key'[g]] = g
      BY <1>0, <2>1, <2>2 DEF OneCallerInv
    <2>4. at'[c] = "launch" /\ target'[c] = h /\ pc'[h] = "created" /\ key'[h] = k /\ runs'[k] = h
      BY <1>0, <2>2
    <2> QED
      BY <1>0, <2>2, <2>3, <2>4 DEF OneCallerInv
  <1>2. CASE Launch(c)
    <2>1. /\ at[c] = "launch" /\ pc[target[c]] = "created" /\ pc' = [pc EXCEPT ![target[c]] = "loop"]
          /\ stop' = stop /\ runs' = runs /\ key' = key
          /\ at' = [at EXCEPT ![c] = "idle"] /\ target[c] \in Handle
      BY <1>2 DEF Launch, StartThread, CallInv
    <2> QED
      BY <1>0, <2>1 DEF OneCallerInv
  <1>3. CASE Prune(c)
    <2>1. /\ at[c] = "prune" /\ pc' = pc /\ stop' = stop /\ key' = key /\ target' = target
          /\ at' = [at EXCEPT ![c] = "returned"]
          /\ runs' = [k \in Key |-> IF Registered(k) /\ IsRunning(runs[k]) THEN runs[k] ELSE None]
      BY <1>3 DEF Prune, vars
    <2>2. \A h \in Handle : pc'[h] \in Alive => key'[h] \in Key /\ runs'[key'[h]] = h
      BY <1>0, <2>1 DEF OneCallerInv, Registered, IsRunning
    <2> QED
      BY <1>0, <2>1, <2>2 DEF OneCallerInv, WillRelease
  <1>4. CASE SetStop(c)
    <2>1. /\ at[c] = "set" /\ at' = [at EXCEPT ![c] = "idle"] /\ pc' = pc /\ runs' = runs /\ key' = key
          /\ \A h \in Handle : pc[h] = "fresh" => stop'[h] = stop[h]
      BY <1>0, <1>4 DEF SetStop, Stop
    <2> QED
      BY <1>0, <2>1 DEF OneCallerInv
  <1>5. CASE StopEach(c)
    <2>1. /\ at[c] = "stop_each" /\ at'[c] \in {"stop_each", "join_each"}
          /\ pc' = pc /\ runs' = runs /\ key' = key
          /\ \A h \in Handle : pc[h] = "fresh" => stop'[h] = stop[h]
          /\ \A h \in Handle : stop[h] => stop'[h]
      BY <1>0, <1>5 DEF StopEach, Stop, vars
    <2>2. \A h \in Handle : WillRelease(h) => stop'[h] \/ (at'[c] = "stop_each" /\ h \in left'[c])
      BY <1>0, <1>5 DEF StopEach, Stop, vars, OneCallerInv
    <2> QED
      BY <1>0, <2>1, <2>2 DEF OneCallerInv, WillRelease
  <1>6. CASE StopAll(c) /\ at[c] = "idle"
    <2>1. /\ UNCHANGED <<pc, stop, runs, key, target>> /\ at' = [at EXCEPT ![c] = "stop_each"]
          /\ left' = [left EXCEPT ![c] = {runs[k] : k \in Key} \ {None}]
      BY <1>0, <1>6 DEF StopAll, vars, ExTypeOK
    <2>2. \A h \in Handle : WillRelease(h) => h \in left'[c]
      BY <1>0, <2>1 DEF OneCallerInv, WillRelease
    <2> QED
      BY <1>0, <2>1, <2>2 DEF OneCallerInv, WillRelease
  <1>7. CASE \/ (\E k \in Key : Lookup(c, k) \/ Toggle(c, k)) /\ at[c] = "idle"
             \/ at[c] = "toggle_stop" /\ Lookup(c, arg[c])
             \/ LaunchFails(c) \/ ToggleRefused(c) \/ Propagate(c) \/ Return(c) \/ CloseSink(c)
    <2>1. /\ UNCHANGED <<pc, stop, runs, key>>
          /\ at'[c] \in {"idle", "set", "toggle_stop", "toggle_start"}
      BY <1>0, <1>7 DEF Lookup, Toggle, LaunchFails, ToggleRefused, Propagate, Return, CloseSink,
         Leave, vars, runVars
    <2> QED
      BY <1>0, <2>1 DEF OneCallerInv, WillRelease
  <1>8. CASE JoinEach(c) \/ JoinTimeout(c) \/ JoinRaises(c) \/ ReleaseEverything(c)
    <2>1. UNCHANGED <<pc, stop, runs, key>> /\ at[c] \in Stopped /\ at'[c] \in Stopped
      BY <1>0, <1>8 DEF JoinEach, JoinTimeout, JoinRaises, ReleaseEverything, vars, runVars
    <2> QED
      BY <1>0, <2>1 DEF OneCallerInv, WillRelease
  <1>9. ASSUME at[c] = "toggle_start" PROVE arg[c] \in Key
    BY <1>9 DEF CallInv
  <1> QED
    BY <1>1, <1>2, <1>3, <1>4, <1>5, <1>6, <1>7, <1>8, <1>9 DEF Call, Continue

\* What the thread of a run does to its state, and to the stop events.
LEMMA RunMoves ==
    ASSUME ExTypeOK, NEW h \in Handle,
           \/ ThreadStep(h) /\ pc[h] # "finish"
           \/ WakeByClock(h)
    PROVE  /\ stop' = stop
           /\ \A g \in Handle \ {h} : pc'[g] = pc[g]
           /\ \/ pc'[h] = pc[h]
              \/ pc[h] \in {"loop", "play", "gap", "cleanup"} /\ pc'[h] \in Alive
              \/ pc[h] = "exit" /\ pc'[h] = "dead"
  BY DEF ThreadStep, WakeByClock, WakeByStop, LoopHead, BeginAction, EndPass,
         PressKey, ReleaseKey, Emit, Raise, Wake, Sleeping, ReleaseHeld, EndCleanup,
         Finish, Exit, At, ExTypeOK, TypeOK, Alive

LEMMA OneCallerRun ==
    ASSUME ExTypeOK, CallInv, OneCallerInv, NEW h \in Handle,
           RunStep(h) \/ (WakeByClock(h) /\ UNCHANGED exVars)
    PROVE  OneCallerInv'
  <1>1. CASE Finished(h)
    <2>1. /\ pc[h] = "finish" /\ pc' = [pc EXCEPT ![h] = "exit"] /\ stop' = stop
          /\ UNCHANGED <<key, callVars>>
          /\ \A k \in Key : runs'[k] = IF k = key[h] /\ runs[k] = h THEN None ELSE runs[k]
      BY <1>1 DEF Finished, Finish, ExTypeOK
    <2> QED
      BY <2>1 DEF callVars, OneCallerInv, Alive, WillRelease, CallInv, ExTypeOK, TypeOK
  <1>2. CASE ((ThreadStep(h) /\ pc[h] # "finish") \/ WakeByClock(h)) /\ UNCHANGED exVars
    BY <1>2, RunMoves DEF exVars, OneCallerInv, Alive, WillRelease, CallInv
  <1> QED
    BY <1>1, <1>2 DEF RunStep

LEMMA OneCallerCorrect ==
    ASSUME OneCaller
    PROVE  ExSafety => []OneCallerInv
  <1>1. ExInit => OneCallerInv
    BY DEF ExInit, Init, OneCallerInv, Alive, Stopped
  <1>2. ExTypeOK /\ CallInv /\ RegistryHoldsUnfinished /\ OneCallerInv /\ [ExNext]_allVars
            => OneCallerInv'
    <2> SUFFICES ASSUME ExTypeOK, CallInv, RegistryHoldsUnfinished, OneCallerInv, [ExNext]_allVars
                 PROVE  OneCallerInv'
      OBVIOUS
    <2>1. CASE UNCHANGED allVars
      BY <2>1 DEF allVars, vars, exVars, OneCallerInv, WillRelease
    <2> QED
      BY <2>1, OneCallerCall, OneCallerRun DEF ExNext
  <1> QED
    BY <1>1, <1>2, ExTypeCorrect, RegistryUnfinished, PTL DEF ExSafety

\* start: "unless a run is already active under the same key".  With one calling
\* thread no two runs of a key play or have anything to release.
THEOREM OneRunOfAKey ==
    ASSUME OneCaller
    PROVE  ExSafety => []OneRunPerKey
  <1>1. OneCallerInv => OneRunPerKey
    BY DEF OneCallerInv, Alive, OneRunPerKey, WillRelease
  <1> QED
    BY <1>1, OneCallerCorrect, PTL

\* "A run is always stoppable": with one calling thread every run that plays is in
\* the registry, where stop and stop_all look for it.
THEOREM StoppableByOne ==
    ASSUME OneCaller
    PROVE  ExSafety => []AlwaysStoppable
  <1>1. OneCallerInv => AlwaysStoppable
    BY DEF OneCallerInv, Alive, AlwaysStoppable, WillRelease
  <1> QED
    BY <1>1, OneCallerCorrect, PTL

\* "Stop every run": with one calling thread no run plays on unstopped behind a
\* stop_all, also when that raised on a thread that could not be launched.
THEOREM NoneIsSpared ==
    ASSUME OneCaller
    PROVE  ExSafety => []StopAllStopsAll
  <1>1. OneCallerInv => StopAllStopsAll
    BY DEF OneCallerInv, Stopped, StopAllStopsAll
  <1> QED
    BY <1>1, OneCallerCorrect, PTL

-----------------------------------------------------------------------------
(* The executor of one calling thread implements module RunControl. *)

\* The abstract phase of a key, read off the registry.
PhaseInRegistry(k) ==
    IF ~Registered(k) \/ Abandoned(runs[k]) THEN "idle"
    ELSE IF stop[runs[k]] THEN "stopping" ELSE "running"

LEMMA PhaseFacts ==
    ExTypeOK /\ RegistryHoldsUnfinished /\ OneCallerInv
        => \A k \in Key : PhaseOf(k) = PhaseInRegistry(k)
  <1> SUFFICES ASSUME ExTypeOK, RegistryHoldsUnfinished, OneCallerInv, NEW k \in Key
               PROVE  PhaseOf(k) = PhaseInRegistry(k)
    OBVIOUS
  <1>1. ASSUME NEW h \in RunsOf(k) PROVE runs[k] = h /\ Registered(k) /\ ~Abandoned(h)
    <2>1. h \in Handle /\ key[h] = k /\ h # None
      BY <1>1, ExecutorAssumption DEF RunsOf
    <2>2. CASE WillRelease(h)
      BY <2>1, <2>2 DEF WillRelease, OneCallerInv, Alive, Registered, Abandoned
    <2>3. CASE ~Abandoned(h) /\ \E j \in Key : runs[j] = h
      BY <2>1, <2>3 DEF RegistryHoldsUnfinished, Registered
    <2> QED
      BY <1>1, <2>2, <2>3 DEF RunsOf
  <1>2. Registered(k) /\ ~Abandoned(runs[k]) => RunsOf(k) = {runs[k]}
    <2> SUFFICES ASSUME Registered(k), ~Abandoned(runs[k]) PROVE RunsOf(k) = {runs[k]}
      OBVIOUS
    <2>1. runs[k] \in Handle /\ key[runs[k]] = k
      BY DEF Registered, RegistryHoldsUnfinished, ExTypeOK
    <2>2. runs[k] \in RunsOf(k)
      BY <2>1 DEF RunsOf
    <2> QED
      BY <1>1, <2>2
  <1>3. ~Registered(k) \/ Abandoned(runs[k]) => RunsOf(k) = {}
    BY <1>1
  <1> QED
    BY <1>2, <1>3 DEF PhaseOf, PhaseInRegistry

\* Steps of one key, or of none.
LEMMA PhaseSteps ==
    ASSUME NEW k \in Key, \A j \in Key \ {k} : PhaseOf(j)' = PhaseOf(j),
           \/ PhaseOf(k)' = PhaseOf(k)
           \/ PhaseOf(k) = "idle" /\ PhaseOf(k)' = "running"
           \/ PhaseOf(k) = "running" /\ PhaseOf(k)' = "stopping"
           \/ PhaseOf(k) \in {"running", "stopping"} /\ PhaseOf(k)' = "idle"
    PROVE  [RC!RCNext]_Phases
  BY DEF RC!RCNext, RC!Start, RC!StopRun, RC!EndsItself, RC!EndsStopped, Phases

LEMMA PhaseStays ==
    ASSUME \A j \in Key : PhaseOf(j)' = PhaseOf(j)
    PROVE  [RC!RCNext]_Phases
  BY DEF Phases

\* Setting the stop event of a handle stops the run of its key, if it is one.
LEMMA StopPhase ==
    ASSUME ExTypeOK, RegistryHoldsUnfinished,
           NEW h \in Handle, Stop(h), runs' = runs,
           \A g \in Handle : Abandoned(g)' <=> Abandoned(g),
           \A k \in Key : PhaseOf(k) = PhaseInRegistry(k),
           \A k \in Key : PhaseOf(k)' = PhaseInRegistry(k)'
    PROVE  [RC!RCNext]_Phases
  <1>1. /\ stop' = [stop EXCEPT ![h] = TRUE] /\ stop \in [Handle -> BOOLEAN]
        /\ \A j \in Key : Registered(j) => runs[j] \in Handle
    BY DEF Stop, Registered, ExTypeOK, TypeOK
  <1>2. CASE ~Abandoned(h) /\ \E k \in Key : runs[k] = h
    <2>1. PICK k \in Key : runs[k] = h
      BY <1>2
    <2>2. Registered(k) /\ key[h] = k
      BY <2>1, ExecutorAssumption DEF Registered, RegistryHoldsUnfinished
    <2>3. \A j \in Key \ {k} : runs[j] # h
      BY <2>2, ExecutorAssumption DEF Registered, RegistryHoldsUnfinished
    <2>4. \A j \in Key \ {k} : PhaseOf(j)' = PhaseOf(j)
      BY <1>1, <2>3 DEF PhaseInRegistry, Registered
    <2>5. PhaseOf(k)' = "stopping" /\ PhaseOf(k) \in {"running", "stopping"}
      BY <1>1, <1>2, <2>1, <2>2 DEF PhaseInRegistry, Registered
    <2> QED
      BY <2>4, <2>5, PhaseSteps
  <1>3. CASE Abandoned(h) \/ \A k \in Key : runs[k] # h
    <2>1. \A j \in Key : PhaseOf(j)' = PhaseOf(j)
      BY <1>1, <1>3 DEF PhaseInRegistry, Registered
    <2> QED
      BY <2>1, PhaseStays
  <1> QED
    BY <1>2, <1>3

LEMMA PhaseCaller ==
    ASSUME OneCaller, ExTypeOK, CallInv, RegistryHoldsUnfinished, OneCallerInv,
           \A k \in Key : PhaseOf(k) = PhaseInRegistry(k),
           \A k \in Key : PhaseOf(k)' = PhaseInRegistry(k)',
           NEW c \in Caller, Call(c) \/ Continue(c) \/ JoinTimeout(c)
    PROVE  [RC!RCNext]_Phases
  <1>0. /\ runs \in [Key -> Handle \cup {None}] /\ None \notin Handle
        /\ pc \in [Handle -> Alive \cup {"created", "fresh", "exit", "dead"}]
        /\ target \in [Caller -> Handle \cup {None}] /\ DOMAIN at = Caller
        /\ \A j \in Key : Registered(j) => runs[j] \in Handle
        /\ \A h \in Handle : Abandoned(h) <=> pc[h] = "created" /\ ~(at[c] = "launch" /\ target[c] = h)
    BY AbandonedOrLaunched, ExecutorAssumption DEF ExTypeOK, TypeOK, Alive, Registered
  <1>a. \A h \in Handle : Abandoned(h)' <=> pc'[h] = "created" /\ ~(at'[c] = "launch" /\ target'[c] = h)
    BY DEF OneCaller, Abandoned
  <1>b. ASSUME UNCHANGED <<stop, runs>>, \A h \in Handle : Abandoned(h)' <=> Abandoned(h)
        PROVE  [RC!RCNext]_Phases
    <2>1. \A j \in Key : PhaseOf(j)' = PhaseOf(j)
      BY <1>0, <1>b DEF PhaseInRegistry, Registered
    <2> QED
      BY <2>1, PhaseStays
  <1>1. ASSUME NEW k \in Key, NEW n \in Iterations, NEW h \in Handle, Register(c, k, n, h),
               at[c] \in {"idle", "toggle_start"}
        PROVE  [RC!RCNext]_Phases
    <2>1. /\ pc[h] = "fresh" /\ pc' = [pc EXCEPT ![h] = "created"]
          /\ stop' = stop /\ runs' = [runs EXCEPT ![k] = h] /\ stop[h] = FALSE
          /\ target' = [target EXCEPT ![c] = h] /\ at' = [at EXCEPT ![c] = "launch"]
          /\ ~(Registered(k) /\ pc[runs[k]] \in Alive)
      BY <1>1 DEF Register, Create, OneCallerInv, ExTypeOK, TypeOK, Goto, IsRunning, Alive
    <2>2. Registered(k) => Abandoned(runs[k])
      BY <1>0, <1>1, <2>1 DEF RegistryHoldsUnfinished, Alive
    <2>3. PhaseOf(k) = "idle"
      BY <2>2 DEF PhaseInRegistry
    <2>4. runs'[k] = h /\ ~Abandoned(h)' /\ Registered(k)'
      BY <1>0, <1>a, <2>1 DEF Registered
    <2>5. PhaseOf(k)' = "running"
      BY <2>1, <2>4 DEF PhaseInRegistry
    <2>6. \A j \in Key \ {k} : runs'[j] = runs[j] /\ runs[j] # h
      BY <1>0, <2>1 DEF RegistryHoldsUnfinished, Registered
    <2>7. \A j \in Key \ {k} : Registered(j) => (Abandoned(runs[j])' <=> Abandoned(runs[j]))
      BY <1>0, <1>1, <1>a, <2>1, <2>6
    <2>8. \A j \in Key \ {k} : PhaseOf(j)' = PhaseOf(j)
      BY <2>1, <2>6, <2>7 DEF PhaseInRegistry, Registered
    <2> QED
      BY <2>3, <2>5, <2>8, PhaseSteps
  <1>2. CASE SetStop(c)
    <2>1. target[c] \in Handle /\ Stop(target[c]) /\ runs' = runs
      BY <1>2 DEF SetStop, CallInv
    <2>2. \A h \in Handle : Abandoned(h)' <=> Abandoned(h)
      BY <1>0, <1>2, <1>a DEF SetStop, Stop, Goto
    <2> QED
      BY <2>1, <2>2, StopPhase
  <1>3. CASE LaunchFails(c)
    <2>1. /\ at[c] = "launch" /\ at' = [at EXCEPT ![c] = "idle"]
          /\ UNCHANGED <<pc, stop, runs, key>> /\ target[c] \in Handle
      BY <1>3 DEF LaunchFails, Goto, vars, runVars, CallInv
    <2>2. PICK k \in Key : runs[k] = target[c] /\ key[target[c]] = k /\ pc[target[c]] = "created"
      BY <2>1 DEF OneCallerInv
    <2>3. PhaseOf(k) \in {"running", "stopping"}
      BY <1>0, <2>1, <2>2 DEF PhaseInRegistry, Registered
    <2>4. PhaseOf(k)' = "idle"
      BY <1>0, <1>a, <2>1, <2>2 DEF PhaseInRegistry, Registered
    <2>5. \A j \in Key \ {k} : Registered(j) => runs[j] # target[c]
      BY <2>2 DEF RegistryHoldsUnfinished
    <2>6. \A j \in Key \ {k} : PhaseOf(j)' = PhaseOf(j)
      BY <1>0, <1>a, <2>1, <2>5 DEF PhaseInRegistry, Registered
    <2> QED
      BY <2>3, <2>4, <2>6, PhaseSteps
  <1>4. CASE StopEach(c)
    <2>1. \A h \in Handle : Abandoned(h)' <=> Abandoned(h)
      BY <1>0, <1>4, <1>a DEF StopEach, Stop, Goto, vars, runVars
    <2>2. CASE UNCHANGED vars
      BY <1>b, <1>4, <2>1, <2>2 DEF StopEach, vars, runVars
    <2>3. ASSUME NEW h \in left[c], Stop(h) PROVE [RC!RCNext]_Phases
      BY <1>4, <2>1, <2>3, StopPhase DEF StopEach, ExTypeOK
    <2> QED
      BY <1>4, <2>2, <2>3 DEF StopEach
  <1>5. CASE Prune(c)
    <2>1. \A h \in Handle : Abandoned(h)' <=> Abandoned(h)
      BY <1>0, <1>5, <1>a DEF Prune, Goto, vars, runVars
    <2>2. \A k \in Key : Registered(k) /\ ~Abandoned(runs[k]) => IsRunning(runs[k])
      BY <1>0, <1>5 DEF Prune, RegistryHoldsUnfinished, Registered, IsRunning, Alive
    <2>3. \A k \in Key : Registered(k) /\ ~Abandoned(runs[k]) => runs'[k] = runs[k]
      BY <2>2, <1>5 DEF Prune, Registered
    <2>4. \A k \in Key : runs'[k] \in {None, runs[k]}
      BY <1>5 DEF Prune
    <2>5. stop' = stop
      BY <1>5 DEF Prune, vars, runVars
    <2>6. \A j \in Key : PhaseOf(j)' = PhaseOf(j)
      BY <1>0, <2>1, <2>3, <2>4, <2>5 DEF PhaseInRegistry, Registered
    <2> QED
      BY <2>6, PhaseStays
  <1>6. CASE Launch(c)
    <2>1. /\ at[c] = "launch" /\ at' = [at EXCEPT ![c] = "idle"] /\ UNCHANGED <<stop, runs>>
          /\ pc' = [pc EXCEPT ![target[c]] = "loop"] /\ target[c] \in Handle
      BY <1>6 DEF Launch, StartThread, Goto, CallInv
    <2>2. \A h \in Handle : Abandoned(h)' <=> Abandoned(h)
      BY <1>0, <1>a, <2>1
    <2> QED
      BY <1>b, <2>1, <2>2
  <1>7. CASE \/ (\E k \in Key : Lookup(c, k) \/ Toggle(c, k)) /\ at[c] = "idle"
             \/ at[c] = "toggle_stop" /\ Lookup(c, arg[c])
             \/ StopAll(c) /\ at[c] = "idle"
             \/ ToggleRefused(c) \/ JoinEach(c) \/ JoinTimeout(c)
             \/ JoinRaises(c) \/ Propagate(c) \/ Return(c) \/ ReleaseEverything(c) \/ CloseSink(c)
    <2>1. at[c] # "launch" /\ at'[c] # "launch" /\ UNCHANGED <<pc, stop, runs>>
      BY <1>0, <1>7 DEF Lookup, Toggle, StopAll, ToggleRefused, JoinEach, JoinTimeout, Goto, Leave,
         JoinRaises, Propagate, Return, ReleaseEverything, CloseSink, vars, runVars
    <2>2. \A h \in Handle : Abandoned(h)' <=> Abandoned(h)
      BY <1>0, <1>a, <2>1
    <2> QED
      BY <1>b, <2>1, <2>2
  <1>8. ASSUME at[c] = "toggle_start" PROVE arg[c] \in Key
    BY <1>8 DEF CallInv
  <1> QED
    BY <1>1, <1>2, <1>3, <1>4, <1>5, <1>6, <1>7, <1>8 DEF Call, Continue

LEMMA PhaseRun ==
    ASSUME ExTypeOK, OneCallerInv,
           \A k \in Key : PhaseOf(k) = PhaseInRegistry(k),
           \A k \in Key : PhaseOf(k)' = PhaseInRegistry(k)',
           NEW h \in Handle, RunStep(h) \/ (WakeByClock(h) /\ UNCHANGED exVars)
    PROVE  [RC!RCNext]_Phases
  <1>0. \A j \in Key : Registered(j) => runs[j] \in Handle
    BY DEF ExTypeOK, Registered
  <1>1. CASE Finished(h)
    <2>1. /\ pc[h] = "finish" /\ pc' = [pc EXCEPT ![h] = "exit"] /\ stop' = stop
          /\ UNCHANGED <<at, target>> /\ DOMAIN pc = Handle
          /\ \A k \in Key : runs'[k] = IF k = key[h] /\ runs[k] = h THEN None ELSE runs[k]
      BY <1>1 DEF Finished, Finish, callVars, ExTypeOK, TypeOK
    <2>2. \A g \in Handle : Abandoned(g)' <=> Abandoned(g)
      BY <2>1 DEF Abandoned
    <2>3. PICK k \in Key : k = key[h] /\ runs[k] = h /\ h # None
      BY <2>1, ExecutorAssumption DEF OneCallerInv, Alive
    <2>4. PhaseOf(k) \in {"running", "stopping"} /\ PhaseOf(k)' = "idle"
      BY <2>1, <2>3 DEF PhaseInRegistry, Registered, Abandoned
    <2>5. \A j \in Key \ {k} : PhaseOf(j)' = PhaseOf(j)
      BY <1>0, <2>1, <2>2, <2>3 DEF PhaseInRegistry, Registered
    <2> QED
      BY <2>4, <2>5, PhaseSteps
  <1>2. CASE ((ThreadStep(h) /\ pc[h] # "finish") \/ WakeByClock(h)) /\ UNCHANGED exVars
    <2>1. \A g \in Handle : Abandoned(g)' <=> Abandoned(g)
      BY <1>2, RunMoves DEF exVars, Abandoned, Alive
    <2>2. \A j \in Key : PhaseOf(j)' = PhaseOf(j)
      BY <1>0, <1>2, <2>1, RunMoves DEF exVars, PhaseInRegistry, Registered
    <2> QED
      BY <2>2, PhaseStays
  <1> QED
    BY <1>1, <1>2 DEF RunStep

\* Everything that is promised of runs to one calling thread, but that they end
\* (which needs fairness): one run per key, which plays until it is over by itself
\* or is stopped, and no new one while one is on its way out.
THEOREM RunControlIsImplemented ==
    ASSUME OneCaller
    PROVE  ExSafety => RC!RCSafety
  <1> DEFINE Inv == ExTypeOK /\ CallInv /\ RegistryHoldsUnfinished /\ OneCallerInv
  <1>1. ExInit => RC!RCInit
    <2> SUFFICES ASSUME ExInit, NEW k \in Key PROVE PhaseOf(k) = "idle"
      BY DEF RC!RCInit, Phases
    <2>1. RunsOf(k) = {}
      BY ExecutorAssumption DEF ExInit, Init, RunsOf, WillRelease
    <2> QED
      BY <2>1 DEF PhaseOf
  <1>2. Inv /\ Inv' /\ [ExNext]_allVars => [RC!RCNext]_Phases
    <2> SUFFICES ASSUME Inv, Inv', [ExNext]_allVars
                 PROVE  [RC!RCNext]_Phases
      OBVIOUS
    <2>1. \A k \in Key : PhaseOf(k) = PhaseInRegistry(k)
      BY PhaseFacts
    <2>2. (ExTypeOK /\ RegistryHoldsUnfinished /\ OneCallerInv)'
            => (\A k \in Key : PhaseOf(k) = PhaseInRegistry(k))'
      BY PhaseFacts, PTL
    <2>3. \A k \in Key : PhaseOf(k)' = PhaseInRegistry(k)'
      BY <2>2
    <2>4. CASE UNCHANGED allVars
      <3>1. \A j \in Key : PhaseOf(j)' = PhaseOf(j)
        BY <2>1, <2>3, <2>4 DEF allVars, vars, runVars, exVars, PhaseInRegistry, Registered, Abandoned
      <3> QED
        BY <3>1, PhaseStays
    <2> QED
      BY <2>1, <2>3, <2>4, PhaseCaller, PhaseRun DEF ExNext
  <1> QED
    BY <1>1, <1>2, ExTypeCorrect, RegistryUnfinished, OneCallerCorrect, PTL DEF ExSafety, RC!RCSafety
=============================================================================
