------------------------------ MODULE Playback ------------------------------
(***************************************************************************)
(* Macro playback: the threads of macros/executor.py (class RunHandle) and *)
(* the virtual devices they share (class UinputSink).                      *)
(*                                                                         *)
(* Every RunHandle is one thread.  Its program counter stands between the  *)
(* points where another thread can be observed: the stop event, and the    *)
(* sink, whose methods run under the sink's lock.  What is private to the  *)
(* thread (the list of codes it holds, its counters) moves with the sink   *)
(* call next to it.  Creating, starting and stopping a handle, releasing   *)
(* every code and closing the sink are done by other threads; module       *)
(* MacroExecutor says which and when.                                      *)
(*                                                                         *)
(* Abstractions.  A macro is a sequence of actions and an action is        *)
(* compiled to the primitive steps _perform makes.  Pointer motion and     *)
(* scrolling are steps without a payload.  A pause ends when the clock     *)
(* reaches it, which no fairness promises, or when the run is stopped.     *)
(***************************************************************************)
EXTENDS Integers, SequencesExt

CONSTANTS Handle,       \* RunHandle objects that may ever be made
          Code,         \* kernel symbols a macro or a binding can name
          Emittable,    \* the codes the virtual devices advertise
          Macro,        \* macro definitions
          Actions,      \* Macro -> sequence of actions
          HasGap,       \* Macro -> whether playback.gap_ms is not zero
          Iterations,   \* the numbers of passes a run can be created with
          MaxFaults     \* bound on write errors of the virtual devices

Unbounded == -1         \* a run created with iterations None

ActionType == {"wait", "key_press", "key_release", "key_tap", "key_combo",
               "button_press", "button_release", "button_click",
               "mouse_move", "mouse_move_relative", "mouse_click_at",
               "scroll", "launch_app"}

\* codes: the non-empty symbols the action names; hold: whether its duration
\* (duration_ms or hold_ms) is long enough to sleep.
Action == [type : ActionType, codes : Seq(Code), hold : BOOLEAN, enabled : BOOLEAN]

Prim == [op : {"press", "release"}, code : Code] \cup [op : {"sleep", "emit", "launch"}]

ASSUME PlaybackAssumption ==
    /\ Macro # {}
    /\ Emittable \subseteq Code
    /\ Actions \in [Macro -> Seq(Action)]
    /\ HasGap \in [Macro -> BOOLEAN]
    /\ Iterations \subseteq (Nat \ {0}) \cup {Unbounded}
    /\ MaxFaults \in Nat

VARIABLES pc,      \* where the thread of each handle is
          stop,    \* its stop event
          macro,   \* the macro it plays
          limit,   \* _iterations: how many passes, or Unbounded
          iter,    \* passes done (kept only for a bounded run: no one reads it otherwise)
          idx,     \* position of the next action in the pass
          todo,    \* primitive steps left of the action being performed
          held,    \* _held: codes this run pressed and has not released
          failed,  \* whether an exception ended the run (RunHandle.error)
          down,    \* UinputSink._held: codes the virtual devices hold
          open,    \* UinputSink.is_open
          faults,  \* write errors so far
          leaked   \* history: codes whose release failed in _release_held

runVars  == <<pc, stop, macro, limit, iter, idx, todo, held, failed>>
sinkVars == <<down, open, faults, leaked>>
vars == <<pc, stop, macro, limit, iter, idx, todo, held, failed, down, open, faults, leaked>>

-----------------------------------------------------------------------------
(* _perform: the primitive steps of one action. *)

Press(c)   == [op |-> "press", code |-> c]
Release(c) == [op |-> "release", code |-> c]
Sleep      == [op |-> "sleep"]

Presses(s)  == [i \in DOMAIN s |-> Press(s[i])]
Releases(s) == [i \in DOMAIN s |-> Release(s[i])]
Pause(hold) == IF hold THEN <<Sleep>> ELSE <<>>

\* _tap and _combo: press in order, hold, release in reverse order.
Chord(s, hold) ==
    IF s = <<>> THEN <<>>
    ELSE Presses(s) \o Pause(hold) \o Releases(Reverse(s))

Perform(a) ==
    CASE a.type = "wait" -> Pause(a.hold)
      [] a.type \in {"key_press", "button_press"} -> Presses(a.codes)
      [] a.type \in {"key_release", "button_release"} -> Releases(a.codes)
      [] a.type \in {"key_tap", "button_click", "key_combo"} -> Chord(a.codes, a.hold)
      [] a.type = "mouse_click_at" ->
             <<[op |-> "emit"], Sleep>> \o Chord(a.codes, a.hold)
      [] a.type = "launch_app" -> <<[op |-> "launch"]>>
      [] OTHER -> <<[op |-> "emit"]>>

-----------------------------------------------------------------------------
(* The virtual devices.  A call on a closed sink raises; a call on an open *)
(* one raises when the kernel refuses the write.                           *)

SinkKey(c, pressed) ==
    /\ open
    /\ down' = IF c \notin Emittable THEN down
               ELSE IF pressed THEN down \cup {c} ELSE down \ {c}
    /\ leaked' = leaked \cap down'
    /\ UNCHANGED <<open, faults>>

SinkRaises ==
    /\ \/ ~open /\ UNCHANGED faults
       \/ open /\ faults < MaxFaults /\ faults' = faults + 1
    /\ UNCHANGED <<down, open, leaked>>

\* release_all.  On a closed sink there is nothing to release.
ReleaseAll ==
    /\ down' = {}
    /\ leaked' = {}
    /\ UNCHANGED <<open, faults>>

\* close: release everything, then destroy the devices.
Close ==
    /\ open
    /\ open' = FALSE
    /\ down' = {}
    /\ leaked' = {}
    /\ UNCHANGED faults

-----------------------------------------------------------------------------
(* What other threads do to a handle. *)

Create(h, m, n) ==
    /\ pc[h] = "fresh"
    /\ pc' = [pc EXCEPT ![h] = "created"]
    /\ macro' = [macro EXCEPT ![h] = m]
    /\ limit' = [limit EXCEPT ![h] = n]
    /\ UNCHANGED <<stop, iter, idx, todo, held, failed, down, open, faults, leaked>>

StartThread(h) ==
    /\ pc[h] = "created"
    /\ pc' = [pc EXCEPT ![h] = "loop"]
    /\ UNCHANGED <<stop, macro, limit, iter, idx, todo, held, failed, down, open, faults, leaked>>

Stop(h) ==
    /\ pc[h] # "fresh"
    /\ stop' = [stop EXCEPT ![h] = TRUE]
    /\ UNCHANGED <<pc, macro, limit, iter, idx, todo, held, failed, down, open, faults, leaked>>

-----------------------------------------------------------------------------
(* The thread of handle h. *)

IsRunning(h) == pc[h] \in {"loop", "play", "gap", "cleanup", "finish", "exit"}

\* Seeded bug: the last pass is lost.
LoopHeadShort(h) ==
    /\ pc[h] = "loop"
    /\ IF stop[h] \/ (limit[h] # Unbounded /\ iter[h] >= limit[h] - 1)
       THEN pc' = [pc EXCEPT ![h] = "cleanup"] /\ UNCHANGED idx
       ELSE pc' = [pc EXCEPT ![h] = "play"] /\ idx' = [idx EXCEPT ![h] = 1]
    /\ UNCHANGED <<stop, macro, limit, iter, todo, held, failed, down, open, faults, leaked>>

\* The head of the while loop.
LoopHead(h) ==
    /\ pc[h] = "loop"
    /\ IF stop[h] \/ (limit[h] # Unbounded /\ iter[h] >= limit[h])
       THEN pc' = [pc EXCEPT ![h] = "cleanup"] /\ UNCHANGED idx
       ELSE pc' = [pc EXCEPT ![h] = "play"] /\ idx' = [idx EXCEPT ![h] = 1]
    /\ UNCHANGED <<stop, macro, limit, iter, todo, held, failed, down, open, faults, leaked>>

\* _run_once: look at the next action of the pass; a stop ends the pass here.
BeginAction(h) ==
    /\ pc[h] = "play"
    /\ todo[h] = <<>>
    /\ ~stop[h]
    /\ idx[h] <= Len(Actions[macro[h]])
    /\ LET action == Actions[macro[h]][idx[h]]
       IN  todo' = [todo EXCEPT ![h] = IF action.enabled THEN Perform(action) ELSE <<>>]
    /\ idx' = [idx EXCEPT ![h] = @ + 1]
    /\ UNCHANGED <<pc, stop, macro, limit, iter, held, failed, down, open, faults, leaked>>

\* Seeded bug: passes are not counted.
EndPassUncounted(h) ==
    /\ pc[h] = "play" /\ todo[h] = <<>>
    /\ stop[h] \/ idx[h] > Len(Actions[macro[h]])
    /\ pc' = [pc EXCEPT ![h] = "loop"]
    /\ UNCHANGED <<stop, macro, limit, iter, idx, todo, held, failed, down, open, faults, leaked>>

\* _run_once returned: count the pass, and pause if another one follows.
EndPass(h) ==
    /\ pc[h] = "play"
    /\ todo[h] = <<>>
    /\ stop[h] \/ idx[h] > Len(Actions[macro[h]])
    /\ iter' = [iter EXCEPT ![h] = IF limit[h] = Unbounded THEN @ ELSE @ + 1]
    /\ LET more == limit[h] = Unbounded \/ iter'[h] < limit[h]
       IN  pc' = [pc EXCEPT ![h] = IF more /\ HasGap[macro[h]] /\ ~stop[h]
                                   THEN "gap" ELSE "loop"]
    /\ UNCHANGED <<stop, macro, limit, idx, todo, held, failed, down, open, faults, leaked>>

\* The run is about to execute primitive p.
At(h, p) == pc[h] = "play" /\ todo[h] # <<>> /\ Head(todo[h]) = p

PressKey(h, c) ==
    /\ At(h, Press(c))
    /\ SinkKey(c, TRUE)
    /\ held' = [held EXCEPT ![h] = Append(@, c)]
    /\ todo' = [todo EXCEPT ![h] = Tail(@)]
    /\ UNCHANGED <<pc, stop, macro, limit, iter, idx, failed>>

\* Seeded bug: a released code stays on the list of held codes.
ReleaseKeyForgets(h, c) ==
    /\ At(h, Release(c))
    /\ SinkKey(c, FALSE)
    /\ todo' = [todo EXCEPT ![h] = Tail(@)]
    /\ UNCHANGED <<pc, stop, macro, limit, iter, idx, failed, held>>


ReleaseKey(h, c) ==
    /\ At(h, Release(c))
    /\ SinkKey(c, FALSE)
    /\ held' = [held EXCEPT ![h] = RemoveFirst(@, c)]
    /\ todo' = [todo EXCEPT ![h] = Tail(@)]
    /\ UNCHANGED <<pc, stop, macro, limit, iter, idx, failed>>

\* Pointer motion and scrolling touch the devices, opening an application does not.
Emit(h) ==
    /\ pc[h] = "play" /\ todo[h] # <<>>
    /\ \/ Head(todo[h]).op = "emit" /\ open
       \/ Head(todo[h]).op = "launch"
    /\ todo' = [todo EXCEPT ![h] = Tail(@)]
    /\ UNCHANGED <<pc, stop, macro, limit, iter, idx, held, failed, down, open, faults, leaked>>

\* Seeded bug: the clean-up is not in a finally clause.
RaiseWithoutCleanup(h) ==
    /\ pc[h] = "play" /\ todo[h] # <<>>
    /\ Head(todo[h]).op \in {"press", "release", "emit"}
    /\ SinkRaises
    /\ failed' = [failed EXCEPT ![h] = TRUE]
    /\ pc' = [pc EXCEPT ![h] = "finish"]
    /\ todo' = [todo EXCEPT ![h] = <<>>]
    /\ UNCHANGED <<stop, macro, limit, iter, idx, held>>

\* An exception from the sink leaves the loop for the finally clause.
Raise(h) ==
    /\ pc[h] = "play" /\ todo[h] # <<>>
    /\ Head(todo[h]).op \in {"press", "release", "emit"}
    /\ SinkRaises
    /\ failed' = [failed EXCEPT ![h] = TRUE]
    /\ pc' = [pc EXCEPT ![h] = "cleanup"]
    /\ todo' = [todo EXCEPT ![h] = <<>>]
    /\ UNCHANGED <<stop, macro, limit, iter, idx, held>>

\* _sleep inside an action, and the gap between two passes.
Sleeping(h) ==
    \/ pc[h] = "gap"
    \/ pc[h] = "play" /\ todo[h] # <<>> /\ Head(todo[h]) = Sleep

Wake(h) ==
    /\ Sleeping(h)
    /\ IF pc[h] = "gap"
       THEN pc' = [pc EXCEPT ![h] = "loop"] /\ UNCHANGED todo
       ELSE todo' = [todo EXCEPT ![h] = Tail(@)] /\ UNCHANGED pc
    /\ UNCHANGED <<stop, macro, limit, iter, idx, held, failed, down, open, faults, leaked>>

\* Seeded bug: _sleep waits on the clock and not on the stop event.
WakeByStopNever(h) == FALSE /\ Wake(h)


WakeByStop(h)  == stop[h] /\ Wake(h)    \* the stop event was set
WakeByClock(h) == ~stop[h] /\ Wake(h)   \* the time is over

\* _release_held: innermost first; an exception is logged and swallowed.
ReleaseHeld(h) ==
    /\ pc[h] = "cleanup"
    /\ held[h] # <<>>
    /\ \/ SinkKey(Last(held[h]), FALSE)
       \/ ~open /\ UNCHANGED sinkVars
       \/ /\ open /\ faults < MaxFaults
          /\ faults' = faults + 1
          /\ leaked' = leaked \cup ({Last(held[h])} \cap down)
          /\ UNCHANGED <<down, open>>
    /\ held' = [held EXCEPT ![h] = Front(@)]
    /\ UNCHANGED <<pc, stop, macro, limit, iter, idx, todo, failed>>

EndCleanup(h) ==
    /\ pc[h] = "cleanup"
    /\ held[h] = <<>>
    /\ pc' = [pc EXCEPT ![h] = "finish"]
    /\ UNCHANGED <<stop, macro, limit, iter, idx, todo, held, failed, down, open, faults, leaked>>

\* on_finished, then the thread is over.
Finish(h) ==
    /\ pc[h] = "finish"
    /\ pc' = [pc EXCEPT ![h] = "exit"]
    /\ UNCHANGED <<stop, macro, limit, iter, idx, todo, held, failed, down, open, faults, leaked>>

Exit(h) ==
    /\ pc[h] = "exit"
    /\ pc' = [pc EXCEPT ![h] = "dead"]
    /\ UNCHANGED <<stop, macro, limit, iter, idx, todo, held, failed, down, open, faults, leaked>>

-----------------------------------------------------------------------------
Init ==
    /\ pc = [h \in Handle |-> "fresh"]
    /\ stop = [h \in Handle |-> FALSE]
    /\ macro = [h \in Handle |-> CHOOSE m \in Macro : TRUE]   \* set by Create
    /\ limit = [h \in Handle |-> Unbounded]                   \* set by Create
    /\ iter = [h \in Handle |-> 0]
    /\ idx = [h \in Handle |-> 1]
    /\ todo = [h \in Handle |-> <<>>]
    /\ held = [h \in Handle |-> <<>>]
    /\ failed = [h \in Handle |-> FALSE]
    /\ down = {} /\ leaked = {}
    /\ open = TRUE
    /\ faults = 0

\* What the thread of h does by itself.
ThreadStep(h) ==
    \/ LoopHead(h) \/ BeginAction(h) \/ EndPass(h)
    \/ \E c \in Code : PressKey(h, c) \/ ReleaseKey(h, c)
    \/ Emit(h) \/ Raise(h) \/ WakeByStop(h)
    \/ ReleaseHeld(h) \/ EndCleanup(h) \/ Finish(h) \/ Exit(h)

\* What the rest of the daemon does to the handles and to the devices.
Environment ==
    \/ \E h \in Handle : \/ \E m \in Macro, n \in Iterations : Create(h, m, n)
                         \/ StartThread(h)
                         \/ Stop(h)
    \/ (ReleaseAll \/ Close \/ SinkRaises) /\ UNCHANGED runVars

Next == Environment \/ \E h \in Handle : ThreadStep(h) \/ WakeByClock(h)

\* A thread that can take a step takes one; the clock need not advance.
Fairness == \A h \in Handle : WF_vars(ThreadStep(h))

Safety == Init /\ [][Next]_vars
Spec == Safety /\ Fairness

-----------------------------------------------------------------------------
(* Properties. *)

\* The type invariant.
TypeOK ==
    /\ pc \in [Handle -> {"fresh", "created", "loop", "play", "gap", "cleanup",
                          "finish", "exit", "dead"}]
    /\ stop \in [Handle -> BOOLEAN]
    /\ macro \in [Handle -> Macro]
    /\ limit \in [Handle -> Nat \cup {Unbounded}]
    /\ iter \in [Handle -> Nat]
    /\ idx \in [Handle -> Nat \ {0}]
    /\ todo \in [Handle -> Seq(Prim)]
    /\ held \in [Handle -> Seq(Code)]
    /\ failed \in [Handle -> BOOLEAN]
    /\ down \subseteq Code
    /\ open \in BOOLEAN
    /\ faults \in 0 .. MaxFaults
    /\ leaked \subseteq Code

\* The runs that still have their clean-up before them.
WillRelease(h) == pc[h] \in {"loop", "play", "gap", "cleanup"}

\* "Nothing stays held": a code the virtual devices hold is on the list of a
\* run that has yet to go through _release_held.  The one exception is a code
\* whose release the kernel refused during that clean-up.
NothingStaysHeld ==
    \A c \in down :
        \/ \E h \in Handle : WillRelease(h) /\ c \in ToSet(held[h])
        \/ c \in leaked /\ faults > 0

\* After close() the devices hold nothing and no thread can make them hold
\* anything again, whatever runs outlived the one-second join of stop_all.
ClosedHoldsNothing == ~open => down = {}

\* A run leaves its loop for one of three reasons: it was stopped, the sink
\* raised, or it made exactly the passes it was asked for.
EndsForAReason ==
    \A h \in Handle :
        pc[h] \in {"cleanup", "finish", "exit", "dead"} =>
            stop[h] \/ failed[h] \/ iter[h] = limit[h]

\* Taps, clicks and combinations are balanced: a macro without a bare press
\* holds nothing whenever it stands between two actions, even if the same code
\* appears twice in a combination or the run is stopped in the middle of one.
BalancedActions ==
    \A h \in Handle :
        /\ pc[h] = "play" /\ todo[h] = <<>>
        /\ \A i \in DOMAIN Actions[macro[h]] :
               Actions[macro[h]][i].type \notin {"key_press", "button_press"}
        => held[h] = <<>>

\* "Immediate" stop: a stopped run ends although no pending delay ever runs
\* out, because every sleep waits on the stop event rather than on the clock.
StoppedRunEnds == \A h \in Handle : (stop[h] /\ IsRunning(h)) ~> (pc[h] = "dead")

\* If the clock advances, a run with a number of passes ends by itself.
BoundedRunEnds ==
    (\A h \in Handle : WF_vars(WakeByClock(h))) =>
        \A h \in Handle : (IsRunning(h) /\ limit[h] # Unbounded) ~> (pc[h] = "dead")
=============================================================================
