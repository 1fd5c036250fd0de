---------------------------- MODULE DaemonProofs ----------------------------
(***************************************************************************)
(* Proofs about module Daemon, for any number of daemons one after the     *)
(* other, and any number of signals, crashes and faults.                   *)
(***************************************************************************)
EXTENDS Daemon, TLAPS

-----------------------------------------------------------------------------
(* The type invariant. *)

LEMMA TypeInit == Init => TypeOK
  <1> QED
    BY DaemonAssumption DEF Init, TypeOK, Asker

LEMMA TypeMain ==
    ASSUME TypeOK, NEW p \in Proc, MainStep(p)
    PROVE  TypeOK'
  <1>1. CASE Probe(p)
    BY <1>1 DEF Probe, At, Goto, boundVars, TypeOK
  <1>2. CASE UnlinkStale(p)
    BY <1>2 DEF UnlinkStale, At, Goto, boundVars, TypeOK
  <1>3. CASE Bind(p)
    BY <1>3 DEF Bind, At, Goto, boundVars, TypeOK
  <1>4. CASE Serve(p)
    BY <1>4 DEF Serve, At, Goto, boundVars, TypeOK
  <1>5. CASE OpenSink(p)
    BY <1>5 DEF OpenSink, At, Goto, boundVars, TypeOK
  <1>6. CASE Publish(p)
    BY <1>6 DEF Publish, At, Goto, boundVars, TypeOK
  <1>7. CASE Suppress(p)
    BY <1>7 DEF Suppress, At, Goto, boundVars, TypeOK
  <1>8. CASE EnterLoop(p)
    BY <1>8 DEF EnterLoop, At, Goto, boundVars, TypeOK
  <1>9. CASE LeaveLoop(p)
    BY <1>9 DEF LeaveLoop, At, Goto, boundVars, TypeOK
  <1>10. CASE Shutdown(p)
    BY <1>10 DEF Shutdown, At, Goto, boundVars, TypeOK
  <1>11. CASE Retract(p)
    BY <1>11 DEF Retract, At, Goto, boundVars, TypeOK
  <1>12. CASE CloseServer(p)
    BY <1>12 DEF CloseServer, At, Goto, boundVars, TypeOK
  <1>13. CASE RemoveSocket(p)
    BY <1>13 DEF RemoveSocket, At, Goto, boundVars, TypeOK
  <1> QED
    BY <1>1, <1>2, <1>3, <1>4, <1>5, <1>6, <1>7, <1>8, <1>9, <1>10, <1>11, <1>12, <1>13 DEF MainStep

LEMMA TypeOther ==
    ASSUME TypeOK, NEW p \in Proc,
           Boot(p) \/ Fail(p) \/ Signal(p) \/ Request(p) \/ WatcherWakes(p) \/ Crash(p)
    PROVE  TypeOK'
  <1>1. CASE Boot(p)
    BY <1>1 DEF Boot, Goto, boundVars, TypeOK
  <1>2. CASE Fail(p)
    BY <1>2, DaemonAssumption DEF Fail, At, Goto, Unwind, TypeOK
  <1>3. CASE Signal(p)
    BY <1>3, DaemonAssumption DEF Signal, TypeOK, Asker
  <1>4. CASE Request(p)
    BY <1>4 DEF Request, boundVars, TypeOK
  <1>5. CASE WatcherWakes(p)
    BY <1>5 DEF WatcherWakes, boundVars, TypeOK, Asker
  <1>6. CASE Crash(p)
    BY <1>6, DaemonAssumption DEF Crash, Goto, TypeOK
  <1> QED
    BY <1>1, <1>2, <1>3, <1>4, <1>5, <1>6

LEMMA TypeAsk ==
    ASSUME TypeOK, NEW p \in Proc, NEW w \in Asker,
           AskStep(p, w) \/ StopAllRaises(p, w)
    PROVE  TypeOK'
  <1>1. CASE CheckStopping(p, w)
    BY <1>1 DEF CheckStopping, Asks, Proceed, Finished, boundVars, TypeOK
  <1>2. CASE SetStopping(p, w)
    BY <1>2 DEF SetStopping, Asks, Proceed, boundVars, TypeOK
  <1>3. CASE ReadEngine(p, w)
    BY <1>3 DEF ReadEngine, Asks, Proceed, Finished, boundVars, TypeOK
  <1>4. CASE StopAll(p, w)
    BY <1>4 DEF StopAll, Asks, Proceed, boundVars, TypeOK
  <1>5. CASE StopAllRaises(p, w)
    BY <1>5, DaemonAssumption DEF StopAllRaises, Goto, Asks, Proceed, Finished, Unwind,
       TypeOK
  <1>6. CASE StopSource(p, w)
    BY <1>6 DEF StopSource, Asks, Proceed, Finished, boundVars, TypeOK
  <1> QED
    BY <1>1, <1>2, <1>3, <1>4, <1>5, <1>6 DEF AskStep

\* Every variable keeps its type, the position of each thread in main and
\* request_stop included.
THEOREM TypeCorrect == Safety => []TypeOK
  <1>1. TypeOK /\ [Next]_vars => TypeOK'
    <2>1. CASE UNCHANGED vars
      BY <2>1 DEF vars, procVars, boundVars, TypeOK
    <2> QED
      BY <2>1, TypeMain, TypeOther, TypeAsk DEF Next
  <1> QED
    BY <1>1, TypeInit, PTL DEF Safety

-----------------------------------------------------------------------------
(* The inductive invariant: one daemon at a time, in front of a socket     *)
(* that is nobody's; a daemon on its way out was asked, or something       *)
(* raised; and what it has cleaned up by where it is.                      *)

Ending == {"shutdown", "retract", "close_server", "remove", "exited"}

SocketInv ==
    /\ \A p, q \in Proc : Alive(p) /\ Alive(q) => p = q
    /\ \A p \in Proc : main[p] = "bind" => sock = None
    /\ \A p \in Proc : main[p] \in {"new", "probe", "unlink"} => sock # p

StopInv ==
    /\ \A p \in Proc, w \in Asker :
         ask[p][w] \in {"read", "stop_all", "stop_source"} => stopping[p]
    /\ \A p \in Proc : main[p] = "loop" /\ ~running[p] => stopping[p]
    /\ \A p \in Proc : main[p] \in Ending => stopping[p] \/ faults > 0

CleanInv ==
    faults = 0 =>
        /\ \A p \in Proc : main[p] \in Ending \ {"shutdown"} => sink[p] # "open"
        /\ \A p \in Proc : main[p] = "exited" => sock # p

Inv == SocketInv /\ StopInv /\ CleanInv

LEMMA InvInit == Init => Inv
  <1> QED
    BY DaemonAssumption DEF Init, Inv, SocketInv, StopInv, CleanInv, Alive, Over, Ending, Asker

(* A daemon that looks for the socket finds no other one alive: neither a  *)
(* socket in use nor, after the stale one is gone, an address in use.      *)
LEMMA FindsNoOther ==
    ASSUME TypeOK, SocketInv, NEW p \in Proc
    PROVE  /\ main[p] = "probe" /\ sock # None => ~Listens(sock)
           /\ main[p] = "bind" => sock = None
  <1>1. ASSUME main[p] = "probe", sock # None PROVE ~Listens(sock)
    <2>1. sock \in Proc /\ Alive(p) /\ sock # p
      BY <1>1 DEF TypeOK, SocketInv, Alive, Over
    <2> QED
      BY <2>1 DEF Listens, SocketInv
  <1> QED
    BY <1>1 DEF SocketInv

-----------------------------------------------------------------------------
(* One daemon, and whose the socket is. *)

LEMMA SocketInvMain ==
    ASSUME TypeOK, SocketInv, NEW p \in Proc, MainStep(p)
    PROVE  SocketInv'
  <1>1. CASE Probe(p)
    BY <1>1, FindsNoOther DEF Probe, At, Goto, boundVars, SocketInv, Alive, Over, TypeOK
  <1>2. CASE UnlinkStale(p)
    BY <1>2, DaemonAssumption DEF UnlinkStale, At, Goto, boundVars, SocketInv, Alive, Over,
       TypeOK
  <1>3. CASE Bind(p)
    BY <1>3, FindsNoOther DEF Bind, At, Goto, boundVars, SocketInv, Alive, Over, TypeOK
  <1>4. CASE RemoveSocket(p)
    BY <1>4, DaemonAssumption DEF RemoveSocket, At, Goto, boundVars, SocketInv, Alive,
       Over, TypeOK
  <1>5. CASE Serve(p) \/ OpenSink(p) \/ Publish(p) \/ Suppress(p) \/ EnterLoop(p) \/
          LeaveLoop(p) \/ Shutdown(p) \/ Retract(p) \/ CloseServer(p)
    <2>1. Alive(p) /\ (\E where \in {"open", "publish", "suppress", "arm", "loop", "shutdown",
                                  "retract", "close_server", "remove"} : Goto(p, where))
          /\ UNCHANGED sock
      BY <1>5 DEF Serve, At, Goto, boundVars, OpenSink, Publish, Suppress, EnterLoop,
         LeaveLoop, Shutdown, Retract, CloseServer, Alive, Over
    <2> QED
      BY <2>1 DEF SocketInv, Alive, Over, TypeOK, Goto
  <1> QED
    BY <1>1, <1>2, <1>3, <1>4, <1>5 DEF MainStep

LEMMA SocketInvOther ==
    ASSUME TypeOK, SocketInv, NEW p \in Proc,
           Boot(p) \/ Fail(p) \/ Signal(p) \/ Request(p) \/ WatcherWakes(p) \/ Crash(p)
    PROVE  SocketInv'
  <1>1. CASE Boot(p)
    BY <1>1 DEF Boot, Goto, boundVars, SocketInv, Alive, Over, TypeOK
  <1>2. CASE Fail(p)
    BY <1>2, DaemonAssumption DEF Fail, At, Goto, Unwind, SocketInv, Alive, Over, TypeOK
  <1>3. CASE Crash(p)
    BY <1>3 DEF Crash, Goto, SocketInv, Alive, Over, TypeOK
  <1>4. CASE Signal(p) \/ Request(p) \/ WatcherWakes(p)
    <2>1. UNCHANGED <<main, sock>>
      BY <1>4 DEF Signal, Request, boundVars, WatcherWakes
    <2> QED
      BY <2>1 DEF SocketInv, Alive, Over
  <1> QED
    BY <1>1, <1>2, <1>3, <1>4

LEMMA SocketInvAsk ==
    ASSUME TypeOK, SocketInv, NEW p \in Proc, NEW w \in Asker,
           AskStep(p, w) \/ StopAllRaises(p, w)
    PROVE  SocketInv'
  <1>1. CASE StopAllRaises(p, w)
    BY <1>1 DEF StopAllRaises, Goto, Asks, Proceed, Finished, Unwind, SocketInv, Alive,
       Over, TypeOK
  <1>2. CASE CheckStopping(p, w) \/ SetStopping(p, w) \/ ReadEngine(p, w) \/
          StopAll(p, w) \/ StopSource(p, w)
    <2>1. UNCHANGED <<main, sock>>
      BY <1>2 DEF CheckStopping, Asks, Proceed, Finished, boundVars, SetStopping,
         ReadEngine, StopAll, StopSource
    <2> QED
      BY <2>1 DEF SocketInv, Alive, Over
  <1> QED
    BY <1>1, <1>2 DEF AskStep

-----------------------------------------------------------------------------
(* Who is on its way out was asked. *)

LEMMA StopInvMain ==
    ASSUME TypeOK, SocketInv, StopInv, NEW p \in Proc, MainStep(p)
    PROVE  StopInv'
  <1>1. CASE Probe(p)
    BY <1>1, FindsNoOther DEF Probe, At, Goto, boundVars, StopInv, Ending, TypeOK
  <1>2. CASE UnlinkStale(p)
    BY <1>2 DEF UnlinkStale, At, Goto, boundVars, StopInv, Ending, TypeOK
  <1>3. CASE Bind(p)
    BY <1>3, FindsNoOther DEF Bind, At, Goto, boundVars, StopInv, Ending, TypeOK
  <1>4. CASE Serve(p)
    BY <1>4 DEF Serve, At, Goto, boundVars, StopInv, Ending, TypeOK
  <1>5. CASE OpenSink(p)
    BY <1>5 DEF OpenSink, At, Goto, boundVars, StopInv, Ending, TypeOK
  <1>6. CASE Publish(p)
    BY <1>6 DEF Publish, At, Goto, boundVars, StopInv, Ending, TypeOK
  <1>7. CASE Suppress(p)
    BY <1>7 DEF Suppress, At, Goto, boundVars, StopInv, Ending, TypeOK
  <1>8. CASE EnterLoop(p)
    BY <1>8 DEF EnterLoop, At, Goto, boundVars, StopInv, Ending, TypeOK
  <1>9. CASE LeaveLoop(p)
    BY <1>9 DEF LeaveLoop, At, Goto, boundVars, StopInv, Ending, TypeOK
  <1>10. CASE Shutdown(p)
    BY <1>10 DEF Shutdown, At, Goto, boundVars, StopInv, Ending, TypeOK
  <1>11. CASE Retract(p)
    BY <1>11 DEF Retract, At, Goto, boundVars, StopInv, Ending, TypeOK
  <1>12. CASE CloseServer(p)
    BY <1>12 DEF CloseServer, At, Goto, boundVars, StopInv, Ending, TypeOK
  <1>13. CASE RemoveSocket(p)
    BY <1>13 DEF RemoveSocket, At, Goto, boundVars, StopInv, Ending, TypeOK
  <1> QED
    BY <1>1, <1>2, <1>3, <1>4, <1>5, <1>6, <1>7, <1>8, <1>9, <1>10, <1>11, <1>12, <1>13 DEF MainStep

LEMMA StopInvOther ==
    ASSUME TypeOK, StopInv, NEW p \in Proc,
           Boot(p) \/ Fail(p) \/ Signal(p) \/ Request(p) \/ WatcherWakes(p) \/ Crash(p)
    PROVE  StopInv'
  <1>1. CASE Boot(p)
    BY <1>1 DEF Boot, Goto, boundVars, StopInv, Ending, TypeOK
  <1>2. CASE Fail(p)
    BY <1>2 DEF Fail, At, Goto, Unwind, StopInv, Ending, TypeOK
  <1>3. CASE Signal(p)
    BY <1>3 DEF Signal, StopInv, Ending, TypeOK, Asker
  <1>4. CASE WatcherWakes(p)
    BY <1>4 DEF WatcherWakes, boundVars, StopInv, Ending, TypeOK, Asker
  <1>5. CASE Crash(p)
    BY <1>5 DEF Crash, Goto, StopInv, Ending, TypeOK
  <1>6. CASE Request(p)
    <2>1. UNCHANGED <<main, ask, stopping, running, faults>>
      BY <1>6 DEF Request, boundVars
    <2> QED
      BY <2>1 DEF StopInv
  <1> QED
    BY <1>1, <1>2, <1>3, <1>4, <1>5, <1>6

LEMMA StopInvAsk ==
    ASSUME TypeOK, StopInv, NEW p \in Proc, NEW w \in Asker,
           AskStep(p, w) \/ StopAllRaises(p, w)
    PROVE  StopInv'
  <1>1. CASE CheckStopping(p, w)
    BY <1>1 DEF CheckStopping, Asks, Proceed, Finished, boundVars, StopInv, Ending, TypeOK
  <1>2. CASE SetStopping(p, w)
    BY <1>2 DEF SetStopping, Asks, Proceed, boundVars, StopInv, Ending, TypeOK
  <1>3. CASE ReadEngine(p, w)
    BY <1>3 DEF ReadEngine, Asks, Proceed, Finished, boundVars, StopInv, Ending, TypeOK
  <1>4. CASE StopAll(p, w)
    BY <1>4 DEF StopAll, Asks, Proceed, boundVars, StopInv, Ending, TypeOK
  <1>5. CASE StopAllRaises(p, w)
    BY <1>5 DEF StopAllRaises, Goto, Asks, Proceed, Finished, Unwind, StopInv, Ending,
       TypeOK
  <1>6. CASE StopSource(p, w)
    BY <1>6 DEF StopSource, Asks, Proceed, Finished, boundVars, StopInv, Ending, TypeOK
  <1> QED
    BY <1>1, <1>2, <1>3, <1>4, <1>5, <1>6 DEF AskStep

-----------------------------------------------------------------------------
(* Who has gone has cleaned up. *)

LEMMA CleanInvMain ==
    ASSUME TypeOK, SocketInv, CleanInv, NEW p \in Proc, MainStep(p)
    PROVE  CleanInv'
  <1>1. CASE Probe(p)
    BY <1>1, FindsNoOther DEF Probe, At, Goto, boundVars, CleanInv, Ending, TypeOK
  <1>2. CASE UnlinkStale(p)
    BY <1>2, DaemonAssumption DEF UnlinkStale, At, Goto, boundVars, CleanInv, Ending, TypeOK
  <1>3. CASE Bind(p)
    BY <1>3, FindsNoOther DEF Bind, At, Goto, boundVars, CleanInv, Ending, TypeOK
  <1>4. CASE Serve(p)
    BY <1>4 DEF Serve, At, Goto, boundVars, CleanInv, Ending, TypeOK
  <1>5. CASE OpenSink(p)
    BY <1>5 DEF OpenSink, At, Goto, boundVars, CleanInv, Ending, TypeOK
  <1>6. CASE Publish(p)
    BY <1>6 DEF Publish, At, Goto, boundVars, CleanInv, Ending, TypeOK
  <1>7. CASE Suppress(p)
    BY <1>7 DEF Suppress, At, Goto, boundVars, CleanInv, Ending, TypeOK
  <1>8. CASE EnterLoop(p)
    BY <1>8 DEF EnterLoop, At, Goto, boundVars, CleanInv, Ending, TypeOK
  <1>9. CASE LeaveLoop(p)
    BY <1>9 DEF LeaveLoop, At, Goto, boundVars, CleanInv, Ending, TypeOK
  <1>10. CASE Shutdown(p)
    BY <1>10 DEF Shutdown, At, Goto, boundVars, CleanInv, Ending, TypeOK
  <1>11. CASE Retract(p)
    BY <1>11 DEF Retract, At, Goto, boundVars, CleanInv, Ending, TypeOK
  <1>12. CASE CloseServer(p)
    BY <1>12 DEF CloseServer, At, Goto, boundVars, CleanInv, Ending, TypeOK
  <1>13. CASE RemoveSocket(p)
    BY <1>13, DaemonAssumption DEF RemoveSocket, At, Goto, boundVars, CleanInv, Ending,
       TypeOK
  <1> QED
    BY <1>1, <1>2, <1>3, <1>4, <1>5, <1>6, <1>7, <1>8, <1>9, <1>10, <1>11, <1>12, <1>13 DEF MainStep

LEMMA CleanInvOther ==
    ASSUME TypeOK, CleanInv, NEW p \in Proc,
           Boot(p) \/ Fail(p) \/ Signal(p) \/ Request(p) \/ WatcherWakes(p) \/ Crash(p)
    PROVE  CleanInv'
  <1>1. CASE Boot(p)
    BY <1>1 DEF Boot, Goto, boundVars, CleanInv, Ending, TypeOK
  <1>2. CASE Fail(p)
    BY <1>2 DEF Fail, At, Goto, Unwind, CleanInv, Ending, TypeOK
  <1>3. CASE Crash(p)
    BY <1>3 DEF Crash, Goto, CleanInv, Ending, TypeOK
  <1>4. CASE Signal(p) \/ Request(p) \/ WatcherWakes(p)
    <2>1. UNCHANGED <<main, sink, sock, faults>>
      BY <1>4 DEF Signal, Request, boundVars, WatcherWakes
    <2> QED
      BY <2>1 DEF CleanInv
  <1> QED
    BY <1>1, <1>2, <1>3, <1>4

LEMMA CleanInvAsk ==
    ASSUME TypeOK, CleanInv, NEW p \in Proc, NEW w \in Asker,
           AskStep(p, w) \/ StopAllRaises(p, w)
    PROVE  CleanInv'
  <1>1. CASE StopAllRaises(p, w)
    BY <1>1 DEF StopAllRaises, Goto, Asks, Proceed, Finished, Unwind, CleanInv, Ending,
       TypeOK
  <1>2. CASE CheckStopping(p, w) \/ SetStopping(p, w) \/ ReadEngine(p, w) \/
          StopAll(p, w) \/ StopSource(p, w)
    <2>1. UNCHANGED <<main, sink, sock, faults>>
      BY <1>2 DEF CheckStopping, Asks, Proceed, Finished, boundVars, SetStopping,
         ReadEngine, StopAll, StopSource
    <2> QED
      BY <2>1 DEF CleanInv
  <1> QED
    BY <1>1, <1>2 DEF AskStep

-----------------------------------------------------------------------------
LEMMA InvHolds == Safety => []Inv
  <1>1. TypeOK /\ Inv /\ [Next]_vars => Inv'
    <2>1. CASE UNCHANGED vars
      BY <2>1 DEF vars, procVars, boundVars, Inv, SocketInv, StopInv, CleanInv, Alive, Over
    <2>2. CASE \E p \in Proc : MainStep(p)
      BY <2>2, SocketInvMain, StopInvMain, CleanInvMain DEF Inv
    <2>3. CASE \E p \in Proc : \/ Boot(p) \/ Fail(p) \/ Signal(p)
                             \/ Request(p) \/ WatcherWakes(p) \/ Crash(p)
      BY <2>3, SocketInvOther, StopInvOther, CleanInvOther DEF Inv
    <2>4. CASE \E p \in Proc, w \in Asker : AskStep(p, w) \/ StopAllRaises(p, w)
      BY <2>4, SocketInvAsk, StopInvAsk, CleanInvAsk DEF Inv
    <2> QED
      BY <2>1, <2>2, <2>3, <2>4 DEF Next
  <1> QED
    BY <1>1, InvInit, TypeCorrect, PTL DEF Safety

\* A daemon ends only if it was asked to or something raised: not because of
\* what its predecessor left behind, however that one ended.
THEOREM NeverEndsUnasked == Safety => []EndsWhenAsked
  <1>1. Inv => EndsWhenAsked
    BY DEF Inv, StopInv, EndsWhenAsked, Ending
  <1> QED
    BY <1>1, InvHolds, PTL

\* Unless something raised, a daemon that has ended has closed its devices and
\* left no socket file of its own.
THEOREM LeavesNothing == Safety => [](DevicesClosed /\ SocketRemoved)
  <1>1. Inv => DevicesClosed /\ SocketRemoved
    BY DEF Inv, CleanInv, DevicesClosed, SocketRemoved, Ending
  <1> QED
    BY <1>1, InvHolds, PTL
=============================================================================
