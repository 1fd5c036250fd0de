---------------------------- MODULE ServiceProofs ----------------------------
(***************************************************************************)
(* Proofs about module Service, for any number of connections, any macros, *)
(* bindings and sizes, and any number of saves, time-outs and crashes.     *)
(***************************************************************************)
EXTENDS Service, TLAPS

-----------------------------------------------------------------------------
(* The inductive invariant. *)

ReloadStep == {"settings", "macros", "bindings", "install", "snapshot", "publish"}
Sizes == Size \cup {None}

\* What each variable is.
TypeOK ==
    /\ files \in Config /\ config \in Config
    /\ screenFile \in Sizes /\ restored \in Sizes
    /\ executor \in [size : Sizes] \cup {None}
    /\ client \in [at : {"idle", "wait"}, conn : Conn \cup {None}, acked : BOOLEAN]
    /\ asked \in [Conn -> [command : {"none", "reload", "set_screen"}, size : Sizes]]
    /\ at \in [Thread -> ReloadStep \cup {"idle", "queued", "scale", "remember", "reply",
                                          "restore", "attach", "listening"}]
    /\ got \in [Thread -> Config]
    /\ spoiled \subseteq {"reload", "screen"}

\* Who is where: the window waits on a connection or not at all, only the main
\* thread starts the engine and only connections carry requests, and nothing
\* runs without the process.
Places ==
    /\ client.at = "idle" <=> client.conn = None
    /\ client.acked => client.at = "idle"
    /\ at[Main] \notin {"queued", "scale", "remember", "reply"}
    /\ \A c \in Conn : at[c] \notin {"restore", "attach", "listening"}
    /\ ~Up => /\ \A c \in Conn : at[c] = "idle"
              /\ ~client.acked /\ client.conn = None

\* The executor and the source become the engine's together, and only a source
\* that exists is told what to withhold.
Equipped ==
    /\ executor = None <=> source = None
    /\ executor # None => at[Main] \in {"snapshot", "publish", "listening"}
    /\ at[Main] = "listening" => executor # None
    /\ \A t \in Thread : at[t] = "publish" => source # None

\* The size of the screen, as long as its operations do not overlap: the
\* operation under way is the only one, and what it has done agrees.
ScreenInv ==
    "screen" \notin spoiled =>
        /\ \A t, u \in Thread : Sizing(t) /\ Sizing(u) => t = u
        /\ executor # None /\ (\A c \in Conn : ~Sizing(c)) => executor.size = screenFile
        /\ executor # None => \A c \in Conn : at[c] = "remember" => executor.size = asked[c].size
        /\ at[Main] = "attach" => restored = screenFile

\* The reload of the last edit has begun, or has been acknowledged: from here
\* to the next edit the files stay as they are.
Settled ==
    \/ client.acked
    \/ /\ client.conn # None
       /\ asked[client.conn].command = "reload" /\ at[client.conn] # "queued"

\* What t has read, installed or looked up is what is saved.
Fresh(t) ==
    /\ at[t] \in {"macros", "bindings", "install"} => got[t].enabled = files.enabled
    /\ at[t] \in {"bindings", "install"} => got[t].macros = files.macros
    /\ at[t] = "install" => got[t].bindings = files.bindings
    /\ at[t] \in {"snapshot", "publish"} => UpToDate
    /\ at[t] = "publish" => got[t] = config

\* Reloads, as long as they do not overlap.
ReloadInv ==
    "reload" \notin spoiled =>
        /\ \A t, u \in Thread : Reloading(t) /\ Reloading(u) => t = u
        /\ Settled =>
            /\ \A t \in Thread : Reloading(t) => Fresh(t)
            /\ UpToDate \/ \E c \in Conn : at[c] \in {"settings", "macros", "bindings", "install"}
            /\ source = None \/ source = Suppressed(config) \/ \E t \in Thread : Reloading(t)

IInv == TypeOK /\ Places /\ Equipped /\ ScreenInv /\ ReloadInv
-----------------------------------------------------------------------------
(* What is installed of a configuration is one. *)
LEMMA InstalledIsConfig ==
    ASSUME NEW c \in Config
    PROVE  Installed(c) \in Config
  <1>1. Usable(c) \in SUBSET Binding
    BY DEF Usable, Config
  <1> QED
    BY <1>1 DEF Installed, Config

(* The steps of Next, one by one. *)
LEMMA Steps ==
    ASSUME Next
    PROVE  \/ \E new \in Config : Save(new)
           \/ \E s \in Size : ReportScreen(s)
           \/ GiveUp \/ Restore \/ Attach \/ StartDaemon \/ Crash
           \/ \E t \in Thread : \/ ReadSettings(t) \/ ReadMacros(t) \/ ReadBindings(t)
                              \/ Install(t) \/ Snapshot(t) \/ Publish(t)
           \/ \E c \in Conn : Dispatch(c) \/ Scale(c) \/ Remember(c) \/ Reply(c)
  <1> QED
    BY DEF Next, Serve, MainStep, Reload, Thread

LEMMA TypeInit == Init => TypeOK
  <1> QED
    BY ServiceAssumption DEF Init, TypeOK, Config, Nothing, NoRequest, Sizes

LEMMA TypeWindow ==
    ASSUME TypeOK, \/ \E new \in Config : Save(new)
                   \/ \E s \in Size : ReportScreen(s)
                   \/ GiveUp
    PROVE  TypeOK'
  <1>1. ASSUME NEW r \in [command : {"reload", "set_screen"}, size : Sizes], Request(r)
        PROVE  /\ client' \in [at : {"idle", "wait"}, conn : Conn \cup {None}, acked : BOOLEAN]
               /\ asked' \in [Conn -> [command : {"none", "reload", "set_screen"}, size : Sizes]]
               /\ at' \in [Thread -> ReloadStep \cup {"idle", "queued", "scale", "remember",
                                      "reply", "restore", "attach", "listening"}]
               /\ UNCHANGED <<got, config, source, executor, restored>>
    <2>1. r \in [command : {"none", "reload", "set_screen"}, size : Sizes]
      OBVIOUS
    <2>2. CASE Refused(r) /\ client' = [client EXCEPT !.acked = FALSE]
      BY <2>2 DEF TypeOK, Refused, daemonVars
    <2>3. ASSUME NEW c \in Conn, Sent(c, r),
                 client' = [at |-> "wait", conn |-> c, acked |-> FALSE]
          PROVE  /\ client' \in [at : {"idle", "wait"}, conn : Conn \cup {None}, acked : BOOLEAN]
                 /\ asked' \in [Conn -> [command : {"none", "reload", "set_screen"}, size : Sizes]]
                 /\ at' \in [Thread -> ReloadStep \cup {"idle", "queued", "scale", "remember",
                                        "reply", "restore", "attach", "listening"}]
                 /\ UNCHANGED <<got, config, source, executor, restored>>
      BY <2>1, <2>3 DEF TypeOK, Sent, Goto, Thread
    <2> QED
      BY <1>1, <2>2, <2>3 DEF Request
  <1>2. ASSUME NEW new \in Config, Save(new) PROVE TypeOK'
    <2>1. [command |-> "reload", size |-> None] \in [command : {"reload", "set_screen"}, size : Sizes]
      BY DEF Sizes
    <2> QED
      BY <1>1, <1>2, <2>1 DEF Save, TypeOK
  <1>3. ASSUME NEW s \in Size, ReportScreen(s) PROVE TypeOK'
    <2>1. [command |-> "set_screen", size |-> s] \in [command : {"reload", "set_screen"}, size : Sizes]
      BY DEF Sizes
    <2> QED
      BY <1>1, <1>3, <2>1 DEF ReportScreen, TypeOK
  <1>4. CASE GiveUp
    BY <1>4 DEF GiveUp, TypeOK, daemonVars
  <1> QED
    BY <1>2, <1>3, <1>4

LEMMA TypeReload ==
    ASSUME TypeOK, NEW t \in Thread,
           \/ ReadSettings(t) \/ ReadMacros(t) \/ ReadBindings(t)
           \/ Install(t) \/ Snapshot(t) \/ Publish(t)
    PROVE  TypeOK'
  <1> USE DEF TypeOK, Goto, still, ReloadStep, AfterSuppression
  <1>1. CASE ReadSettings(t)
    BY <1>1 DEF ReadSettings, Config
  <1>2. CASE ReadMacros(t)
    BY <1>2 DEF ReadMacros, Config
  <1>3. CASE ReadBindings(t)
    BY <1>3 DEF ReadBindings, Config
  <1>4. CASE Install(t)
    BY <1>4, InstalledIsConfig DEF Install
  <1>5. CASE Snapshot(t)
    BY <1>5 DEF Snapshot
  <1>6. CASE Publish(t)
    BY <1>6 DEF Publish
  <1> QED
    BY <1>1, <1>2, <1>3, <1>4, <1>5, <1>6

LEMMA TypeServe ==
    ASSUME TypeOK, NEW c \in Conn, Dispatch(c) \/ Scale(c) \/ Remember(c) \/ Reply(c)
    PROVE  TypeOK'
  <1> USE DEF TypeOK, Goto, still, ReloadStep, Thread
  <1>1. CASE Dispatch(c)
    BY <1>1 DEF Dispatch, Starts
  <1>2. CASE Scale(c)
    BY <1>2 DEF Scale
  <1>3. CASE Remember(c)
    <2>1. asked[c].size \in Sizes
      OBVIOUS
    <2>2. screenFile' \in Sizes /\ spoiled' \subseteq {"reload", "screen"}
      BY <1>3, <2>1 DEF Remember
    <2> QED
      BY <1>3, <2>2 DEF Remember
  <1>4. CASE Reply(c)
    BY <1>4 DEF Reply, Nothing, NoRequest, Config, Sizes
  <1> QED
    BY <1>1, <1>2, <1>3, <1>4

LEMMA TypeProcess ==
    ASSUME TypeOK, Restore \/ Attach \/ StartDaemon \/ Crash
    PROVE  TypeOK'
  <1> USE DEF TypeOK, Goto, ReloadStep, Thread
  <1>1. CASE Restore
    BY <1>1 DEF Restore
  <1>2. CASE Attach
    BY <1>2 DEF Attach
  <1>3. CASE StartDaemon
    BY <1>3 DEF StartDaemon
  <1>4. CASE Crash
    BY <1>4 DEF Crash, Nothing, NoRequest, Config, Sizes
  <1> QED
    BY <1>1, <1>2, <1>3, <1>4

LEMMA TypeStep == TypeOK /\ [Next]_vars => TypeOK'
  <1> SUFFICES ASSUME TypeOK, [Next]_vars PROVE TypeOK'
    OBVIOUS
  <1>1. CASE UNCHANGED vars
    BY <1>1 DEF vars, daemonVars, TypeOK
  <1>2. CASE Next
    BY <1>2, Steps, TypeWindow, TypeReload, TypeServe, TypeProcess
  <1> QED
    BY <1>1, <1>2

-----------------------------------------------------------------------------
(* Who is where. *)

\* What a request does to the threads: nothing, or a free connection has it.
LEMMA RequestEffect ==
    ASSUME TypeOK, Places, NEW r, client.at = "idle", Request(r)
    PROVE  /\ ~client'.acked
           /\ UNCHANGED <<got, config, source, executor, restored>>
           /\ \/ /\ ~Up /\ UNCHANGED <<at, asked>>
                 /\ client'.at = "idle" /\ client'.conn = None
              \/ /\ Up
                 /\ \E c \in Conn : /\ at[c] = "idle" /\ at' = [at EXCEPT ![c] = "queued"]
                                    /\ asked' = [asked EXCEPT ![c] = r]
                                    /\ client'.at = "wait" /\ client'.conn = c
  <1>1. CASE Refused(r) /\ client' = [client EXCEPT !.acked = FALSE]
    BY <1>1 DEF Refused, daemonVars, TypeOK, Places
  <1>2. ASSUME NEW c \in Conn, Sent(c, r),
               client' = [at |-> "wait", conn |-> c, acked |-> FALSE]
        PROVE  /\ ~client'.acked
               /\ UNCHANGED <<got, config, source, executor, restored>>
               /\ Up /\ at[c] = "idle" /\ at' = [at EXCEPT ![c] = "queued"]
               /\ asked' = [asked EXCEPT ![c] = r]
               /\ client'.at = "wait" /\ client'.conn = c
    BY <1>2 DEF Sent, Goto
  <1> QED
    BY <1>1, <1>2 DEF Request

LEMMA PlacesInit == Init => Places
  <1> QED
    BY DEF Init, Places, Thread, Up

LEMMA PlacesStep ==
    ASSUME TypeOK, Places, [Next]_vars
    PROVE  Places'
  <1> USE ServiceAssumption DEF Places, Up, Goto, Thread
  <1>1. ASSUME NEW new \in Config, Save(new) PROVE Places'
    BY <1>1, RequestEffect DEF Save, TypeOK
  <1>2. ASSUME NEW s \in Size, ReportScreen(s) PROVE Places'
    BY <1>2, RequestEffect DEF ReportScreen, TypeOK
  <1>3. CASE GiveUp
    BY <1>3 DEF GiveUp, daemonVars
  <1>4. ASSUME NEW t \in Thread,
               \/ ReadSettings(t) \/ ReadMacros(t) \/ ReadBindings(t)
               \/ Install(t) \/ Snapshot(t) \/ Publish(t)
        PROVE  Places'
    BY <1>4 DEF ReadSettings, ReadMacros, ReadBindings, Install, Snapshot, Publish, still,
       AfterSuppression, TypeOK
  <1>5. ASSUME NEW c \in Conn, Dispatch(c) PROVE Places'
    BY <1>5 DEF Dispatch, TypeOK
  <1>6. ASSUME NEW c \in Conn, Scale(c) PROVE Places'
    BY <1>6 DEF Scale, still, TypeOK
  <1>7. ASSUME NEW c \in Conn, Remember(c) PROVE Places'
    BY <1>7 DEF Remember, TypeOK
  <1>8. ASSUME NEW c \in Conn, Reply(c) PROVE Places'
    BY <1>8 DEF Reply, TypeOK
  <1>9. CASE Restore
    BY <1>9 DEF Restore, TypeOK
  <1>10. CASE Attach
    BY <1>10 DEF Attach, TypeOK
  <1>11. CASE StartDaemon
    BY <1>11 DEF StartDaemon, TypeOK
  <1>12. CASE Crash
    BY <1>12 DEF Crash
  <1>13. CASE UNCHANGED vars
    BY <1>13 DEF vars, daemonVars
  <1> QED
    BY <1>1, <1>2, <1>3, <1>4, <1>5, <1>6, <1>7, <1>8, <1>9, <1>10, <1>11, <1>12, <1>13, Steps

-----------------------------------------------------------------------------
(* The executor and the source. *)

\* A map that withholds nothing is not None.
LEMMA EmptyMapIsOne == {} # None
  <1>1. Nothing \in Config /\ Suppressed(Nothing) = {}
    BY DEF Nothing, Config, Suppressed
  <1> QED
    BY <1>1, NoneAssumption

LEMMA EquippedInit == Init => Equipped
  <1> QED
    BY DEF Init, Equipped, Thread

LEMMA EquippedStep ==
    ASSUME TypeOK, Places, Equipped, [Next]_vars
    PROVE  Equipped'
  <1> USE ServiceAssumption DEF Equipped, Places, Goto, Thread
  <1>1. ASSUME NEW new \in Config, Save(new) PROVE Equipped'
    BY <1>1, RequestEffect DEF Save, TypeOK
  <1>2. ASSUME NEW s \in Size, ReportScreen(s) PROVE Equipped'
    BY <1>2, RequestEffect DEF ReportScreen, TypeOK
  <1>3. CASE GiveUp
    BY <1>3 DEF GiveUp, daemonVars
  <1>4. ASSUME NEW t \in Thread, ReadSettings(t) \/ ReadMacros(t) \/ ReadBindings(t) \/ Install(t)
        PROVE  Equipped'
    BY <1>4 DEF ReadSettings, ReadMacros, ReadBindings, Install, still, TypeOK
  <1>5. ASSUME NEW t \in Thread, Snapshot(t) PROVE Equipped'
    BY <1>5 DEF Snapshot, still, AfterSuppression, TypeOK
  <1>6. ASSUME NEW t \in Thread, Publish(t) PROVE Equipped'
    BY <1>6, NoneAssumption DEF Publish, still, AfterSuppression, TypeOK
  <1>7. ASSUME NEW c \in Conn, Dispatch(c) PROVE Equipped'
    BY <1>7 DEF Dispatch, TypeOK
  <1>8. ASSUME NEW c \in Conn, Scale(c) PROVE Equipped'
    BY <1>8, NoneAssumption DEF Scale, still, TypeOK, Sizes
  <1>9. ASSUME NEW c \in Conn, Remember(c) PROVE Equipped'
    BY <1>9 DEF Remember, TypeOK
  <1>10. ASSUME NEW c \in Conn, Reply(c) PROVE Equipped'
    BY <1>10 DEF Reply, TypeOK
  <1>11. CASE Restore
    BY <1>11 DEF Restore, TypeOK
  <1>12. CASE Attach
    BY <1>12, NoneAssumption, EmptyMapIsOne DEF Attach, TypeOK, Sizes
  <1>13. CASE StartDaemon
    BY <1>13 DEF StartDaemon, TypeOK, Up
  <1>14. CASE Crash
    BY <1>14 DEF Crash
  <1>15. CASE UNCHANGED vars
    BY <1>15 DEF vars, daemonVars
  <1> QED
    BY <1>1, <1>2, <1>3, <1>4, <1>5, <1>6, <1>7, <1>8, <1>9, <1>10, <1>11, <1>12, <1>13, <1>14,
       <1>15, Steps

-----------------------------------------------------------------------------
(* The size of the screen. *)

LEMMA ScreenInit == Init => ScreenInv
  <1> QED
    BY ServiceAssumption DEF Init, ScreenInv, Sizing, Thread

LEMMA ScreenStep ==
    ASSUME TypeOK, Places, Equipped, ScreenInv, [Next]_vars
    PROVE  ScreenInv'
  <1> USE ServiceAssumption DEF ScreenInv, Sizing, Places, Equipped, Goto, Thread
  <1>1. ASSUME NEW new \in Config, Save(new) PROVE ScreenInv'
    BY <1>1, RequestEffect DEF Save, TypeOK
  <1>2. ASSUME NEW s \in Size, ReportScreen(s) PROVE ScreenInv'
    BY <1>2, RequestEffect DEF ReportScreen, TypeOK
  <1>3. CASE GiveUp
    BY <1>3 DEF GiveUp, daemonVars
  <1>4. ASSUME NEW t \in Thread,
               \/ ReadSettings(t) \/ ReadMacros(t) \/ ReadBindings(t)
               \/ Install(t) \/ Snapshot(t) \/ Publish(t)
        PROVE  ScreenInv'
    BY <1>4 DEF ReadSettings, ReadMacros, ReadBindings, Install, Snapshot, Publish, still,
       AfterSuppression, TypeOK
  <1>5. ASSUME NEW c \in Conn, Dispatch(c) PROVE ScreenInv'
    BY <1>5 DEF Dispatch, Starts, TypeOK
  <1>6. ASSUME NEW c \in Conn, Scale(c) PROVE ScreenInv'
    BY <1>6 DEF Scale, still, TypeOK
  <1>7. ASSUME NEW c \in Conn, Remember(c) PROVE ScreenInv'
    BY <1>7 DEF Remember, TypeOK
  <1>8. ASSUME NEW c \in Conn, Reply(c) PROVE ScreenInv'
    BY <1>8 DEF Reply, TypeOK
  <1>9. CASE Restore
    BY <1>9 DEF Restore, TypeOK
  <1>10. CASE Attach
    BY <1>10 DEF Attach, TypeOK
  <1>11. CASE StartDaemon
    BY <1>11 DEF StartDaemon, TypeOK, Up
  <1>12. CASE Crash
    BY <1>12 DEF Crash
  <1>13. CASE UNCHANGED vars
    BY <1>13 DEF vars, daemonVars
  <1> QED
    BY <1>1, <1>2, <1>3, <1>4, <1>5, <1>6, <1>7, <1>8, <1>9, <1>10, <1>11, <1>12, <1>13, Steps

-----------------------------------------------------------------------------
(* Reloads. *)

LEMMA ReloadInit == Init => ReloadInv
  <1> QED
    BY DEF Init, ReloadInv, Settled, Reloading, Thread

\* An edit, a report of the size or a reply given up leaves nothing settled.
LEMMA ReloadWindow ==
    ASSUME TypeOK, Places, ReloadInv,
           \/ \E new \in Config : Save(new)
           \/ \E s \in Size : ReportScreen(s)
           \/ GiveUp
    PROVE  ReloadInv'
  <1>1. ASSUME NEW r, client.at = "idle", Request(r), UNCHANGED spoiled
        PROVE  ReloadInv'
    <2>1. ~Settled'
      BY <1>1, RequestEffect, ServiceAssumption DEF Settled, TypeOK, Thread
    <2>2. \A t \in Thread : Reloading(t)' <=> Reloading(t)
      BY <1>1, RequestEffect DEF Reloading, TypeOK, Thread
    <2> QED
      BY <1>1, <2>1, <2>2 DEF ReloadInv
  <1>2. CASE GiveUp
    <2>1. ~Settled' /\ \A t \in Thread : Reloading(t)' <=> Reloading(t)
      BY <1>2 DEF GiveUp, daemonVars, Settled, Reloading
    <2> QED
      BY <1>2, <2>1 DEF GiveUp, ReloadInv
  <1> QED
    BY <1>1, <1>2 DEF Save, ReportScreen

\* What is settled stays so and becomes so only by a reply, or by a dispatch.
LEMMA SettledKept ==
    ASSUME TypeOK, Places, UNCHANGED <<client, asked>>, NEW t \in Thread, NEW step,
           at' = [at EXCEPT ![t] = step], at[t] # "queued"
    PROVE  Settled' => Settled
  <1> QED
    BY DEF Settled, TypeOK, Places, Thread

\* The steps of a reload that read a file keep the reload fresh.
LEMMA ReloadReads ==
    ASSUME TypeOK, Places, ReloadInv, NEW t \in Thread,
           ReadSettings(t) \/ ReadMacros(t) \/ ReadBindings(t)
    PROVE  ReloadInv'
  <1> USE DEF Goto, still, ReadSettings, ReadMacros, ReadBindings
  <1>1. Settled' => Settled
    BY SettledKept
  <1>2. /\ Reloading(t)
        /\ \A u \in Thread : Reloading(u)' <=> Reloading(u)
        /\ at'[t] \in {"settings", "macros", "bindings", "install"}
        /\ \A u \in Thread : u # t => at'[u] = at[u] /\ got'[u] = got[u]
    BY DEF Reloading, TypeOK
  <1>3. Fresh(t) => Fresh(t)'
    <2>1. /\ at[t] = "settings" => /\ at'[t] = "macros" /\ got'[t].enabled = files.enabled
          /\ at[t] = "macros" => /\ at'[t] = "bindings" /\ got'[t].macros = files.macros
                                 /\ got'[t].enabled = got[t].enabled
          /\ at[t] = "bindings" => /\ at'[t] = "install" /\ got'[t].bindings = files.bindings
                                   /\ got'[t].enabled = got[t].enabled
                                   /\ got'[t].macros = got[t].macros
          /\ at[t] \in {"settings", "macros", "bindings"}
          /\ files' = files
      BY DEF TypeOK, Config
    <2> QED
      BY <2>1 DEF Fresh
  <1>4. UNCHANGED <<files, config, source, spoiled>>
    OBVIOUS
  <1> QED
    BY <1>1, <1>2, <1>3, <1>4 DEF ReloadInv, UpToDate, Thread

\* Installing what was read.
LEMMA ReloadInstalls ==
    ASSUME TypeOK, Places, ReloadInv, NEW t \in Thread, Install(t)
    PROVE  ReloadInv'
  <1> USE DEF Goto, still, Install
  <1>1. Settled' => Settled
    BY SettledKept
  <1>2. /\ Reloading(t) /\ Reloading(t)' /\ at'[t] = "snapshot"
        /\ \A u \in Thread : Reloading(u)' <=> Reloading(u)
    BY DEF Reloading, TypeOK
  <1>3. ASSUME Fresh(t) PROVE UpToDate' /\ Fresh(t)'
    <2>1. got[t] = files
      BY <1>3 DEF Fresh, TypeOK, Config
    <2>2. config' = Installed(files)'
      BY <2>1 DEF Installed, Usable
    <2> QED
      BY <1>2, <2>2 DEF UpToDate, Fresh
  <1> QED
    BY <1>1, <1>2, <1>3 DEF ReloadInv

\* Looking up what to withhold, which there may be no source for.
LEMMA ReloadSnapshots ==
    ASSUME TypeOK, Places, ReloadInv, NEW t \in Thread, Snapshot(t)
    PROVE  ReloadInv'
  <1> USE DEF Goto, still, Snapshot
  <1>1. Settled' => Settled
    BY SettledKept
  <1>2. Reloading(t) /\ UNCHANGED <<files, config, source, spoiled>>
    BY DEF Reloading
  <1>3. CASE source = None
    <2>1. /\ at'[t] \in {"reply", "restore", "listening"}
          /\ \A u \in Thread : at'[u] = at[u] \/ u = t
          /\ UNCHANGED got
      BY <1>3 DEF AfterSuppression, TypeOK
    <2>2. ~Reloading(t)' /\ \A u \in Thread \ {t} : Reloading(u)' <=> Reloading(u)
      BY <2>1 DEF Reloading
    <2>3. "reload" \notin spoiled /\ Settled => UpToDate
      BY <1>2 DEF ReloadInv, Fresh
    <2> QED
      BY <1>1, <1>2, <1>3, <2>1, <2>2, <2>3 DEF ReloadInv, UpToDate
  <1>4. CASE source # None
    <2>1. /\ at'[t] = "publish" /\ got'[t] = config
          /\ \A u \in Thread : at'[u] = at[u] \/ u = t
      BY <1>4 DEF TypeOK
    <2>2. Reloading(t)' /\ \A u \in Thread : Reloading(u)' <=> Reloading(u)
      BY <1>2, <2>1 DEF Reloading
    <2>3. Fresh(t) => UpToDate /\ Fresh(t)'
      BY <1>2, <2>1 DEF Fresh, UpToDate
    <2> QED
      BY <1>1, <1>2, <2>2, <2>3 DEF ReloadInv, UpToDate
  <1> QED
    BY <1>3, <1>4

\* Telling the source.
LEMMA ReloadPublishes ==
    ASSUME TypeOK, Places, ReloadInv, NEW t \in Thread, Publish(t)
    PROVE  ReloadInv'
  <1> USE DEF Goto, still, Publish
  <1>1. Settled' => Settled
    BY SettledKept
  <1>2. Reloading(t) /\ UNCHANGED <<files, config, got, spoiled>>
    BY DEF Reloading
  <1>3. /\ at'[t] \in {"reply", "restore", "listening"}
        /\ \A u \in Thread : at'[u] = at[u] \/ u = t
    BY DEF AfterSuppression, TypeOK
  <1>4. ~Reloading(t)' /\ \A u \in Thread \ {t} : Reloading(u)' <=> Reloading(u)
    BY <1>3 DEF Reloading
  <1>5. Fresh(t) => UpToDate /\ source' = Suppressed(config)
    BY DEF Fresh
  <1>6. Suppressed(config)' = Suppressed(config')
    BY DEF Suppressed
  <1> QED
    BY <1>1, <1>2, <1>4, <1>5, <1>6 DEF ReloadInv, UpToDate

\* A request begins: a reload is the only one, or spoils it.
LEMMA ReloadDispatch ==
    ASSUME TypeOK, Places, ReloadInv, NEW c \in Conn, Dispatch(c)
    PROVE  ReloadInv'
  <1> USE DEF Goto, Dispatch, Thread
  <1>1. UNCHANGED <<files, client, asked, got, config, source>>
    OBVIOUS
  <1>2. CASE asked[c].command = "reload"
    <2>1. /\ at'[c] = "settings" /\ \A u \in Thread : at'[u] = at[u] \/ u = c
      BY <1>2 DEF TypeOK
    <2>2. /\ Reloading(c)' /\ ~Reloading(c) /\ Fresh(c)'
          /\ \A u \in Thread \ {c} : Reloading(u)' <=> Reloading(u)
      BY <2>1 DEF Reloading, Fresh
    <2>3. "reload" \notin spoiled' => \A u \in Thread : ~Reloading(u)
      BY <1>2 DEF Starts
    <2> QED
      BY <2>1, <2>2, <2>3 DEF ReloadInv
  <1>3. CASE asked[c].command # "reload"
    <2>1. /\ at'[c] = "scale" /\ \A u \in Thread : at'[u] = at[u] \/ u = c
      BY <1>3 DEF TypeOK
    <2>2. /\ "reload" \in spoiled' <=> "reload" \in spoiled
          /\ Settled' => Settled
      BY <1>3, <2>1 DEF Starts, Settled, TypeOK
    <2>3. \A u \in Thread : Reloading(u)' <=> Reloading(u)
      BY <2>1 DEF Reloading
    <2>4. \A u \in Thread : Fresh(u) => Fresh(u)'
      BY <1>1, <2>1 DEF Fresh, UpToDate
    <2> QED
      BY <1>1, <2>1, <2>2, <2>3, <2>4 DEF ReloadInv, UpToDate
  <1> QED
    BY <1>2, <1>3

\* The reply of a reload settles what the reload has settled already.
LEMMA ReloadReplies ==
    ASSUME TypeOK, Places, ReloadInv, NEW c \in Conn, Reply(c)
    PROVE  ReloadInv'
  <1> USE DEF Goto, Reply, Thread
  <1>1. UNCHANGED <<files, config, source, spoiled>>
    OBVIOUS
  <1>2. /\ at'[c] = "idle"
        /\ \A u \in Thread : (at'[u] = at[u] /\ got'[u] = got[u]) \/ u = c
        /\ \A u \in Thread : Reloading(u)' <=> Reloading(u)
    BY DEF TypeOK, Reloading
  <1>3. Settled' => Settled
    <2>1. CASE client.conn = c
      BY <2>1, ServiceAssumption DEF Settled, Places, TypeOK
    <2>2. CASE client.conn # c
      BY <2>2, ServiceAssumption DEF Settled, Places, TypeOK
    <2> QED
      BY <2>1, <2>2
  <1>4. \A u \in Thread : Reloading(u) /\ Fresh(u) => Fresh(u)'
    BY <1>1, <1>2 DEF Fresh, UpToDate, Reloading
  <1> QED
    BY <1>1, <1>2, <1>3, <1>4 DEF ReloadInv, UpToDate

\* What is not about reloads, and the engine that is ready.
LEMMA ReloadOther ==
    ASSUME TypeOK, Places, Equipped, ReloadInv,
           \/ \E c \in Conn : Scale(c) \/ Remember(c)
           \/ Restore \/ Attach \/ StartDaemon \/ Crash \/ UNCHANGED vars
    PROVE  ReloadInv'
  <1>1. ASSUME NEW c \in Conn, Scale(c) \/ Remember(c) PROVE ReloadInv'
    <2>1. /\ UNCHANGED <<files, client, asked, got, config, source>>
          /\ at' = [at EXCEPT ![c] = at'[c]] /\ at[c] \in {"scale", "remember"}
          /\ at'[c] \in {"remember", "reply"}
          /\ "reload" \in spoiled' <=> "reload" \in spoiled
      BY <1>1 DEF Scale, Remember, Goto, still, TypeOK, Thread
    <2>2. /\ \A u \in Thread : at'[u] = at[u] \/ u = c
          /\ \A u \in Thread : Reloading(u)' <=> Reloading(u)
      BY <2>1 DEF TypeOK, Reloading
    <2>3. Settled' => Settled
      BY <2>1, SettledKept DEF Thread
    <2>4. \A u \in Thread : Reloading(u) /\ Fresh(u) => Fresh(u)'
      BY <2>1, <2>2 DEF Fresh, UpToDate
    <2> QED
      BY <2>1, <2>2, <2>3, <2>4 DEF ReloadInv, UpToDate, Thread
  <1>2. CASE Restore
    <2>1. /\ UNCHANGED <<files, client, asked, got, config, source>>
          /\ at' = [at EXCEPT ![Main] = "attach"] /\ at[Main] = "restore"
          /\ "reload" \in spoiled' <=> "reload" \in spoiled
      BY <1>2 DEF Restore, Goto, TypeOK
    <2>2. /\ \A u \in Thread : at'[u] = at[u] \/ u = Main
          /\ \A u \in Thread : Reloading(u)' <=> Reloading(u)
      BY <2>1 DEF TypeOK, Reloading
    <2>3. Settled' => Settled
      BY <2>1, SettledKept DEF Thread
    <2>4. \A u \in Thread : Reloading(u) /\ Fresh(u) => Fresh(u)'
      BY <2>1, <2>2 DEF Fresh, UpToDate, Reloading
    <2> QED
      BY <2>1, <2>2, <2>3, <2>4 DEF ReloadInv, UpToDate
  <1>3. CASE Attach
    <2>1. /\ UNCHANGED <<files, client, asked, got, config>>
          /\ at' = [at EXCEPT ![Main] = "snapshot"] /\ at[Main] = "attach"
          /\ "reload" \notin spoiled' => /\ "reload" \notin spoiled
                                         /\ \A c \in Conn : ~Reloading(c)
      BY <1>3 DEF Attach, Goto, TypeOK
    <2>2. /\ at'[Main] = "snapshot" /\ \A u \in Thread : at'[u] = at[u] \/ u = Main
          /\ Reloading(Main)' /\ ~Reloading(Main)
          /\ \A u \in Thread \ {Main} : Reloading(u)' <=> Reloading(u)
      BY <2>1 DEF TypeOK, Reloading, Thread
    <2>3. Settled' => Settled
      BY <2>1, SettledKept DEF Thread
    <2>4. CASE "reload" \notin spoiled'
      <3>1. \A u \in Thread : ~Reloading(u)
        BY <2>1, <2>2, <2>4 DEF Thread
      <3>2. Settled => UpToDate
        BY <2>1, <2>4, <3>1 DEF ReloadInv, Reloading
      <3>3. Settled => UpToDate' /\ Fresh(Main)'
        BY <2>1, <2>2, <3>2 DEF UpToDate, Fresh
      <3> QED
        BY <2>2, <2>3, <3>1, <3>3 DEF ReloadInv, Thread
    <2> QED
      BY <2>4 DEF ReloadInv
  <1>4. CASE StartDaemon
    <2>1. /\ at'[Main] = "settings" /\ \A c \in Conn : at'[c] = "idle"
          /\ UNCHANGED <<client, asked, files, got, config, source>>
      BY <1>4, ServiceAssumption DEF StartDaemon, Goto, Places, TypeOK, Thread, Up
    <2>2. ~Settled'
      BY <1>4, <2>1 DEF StartDaemon, Places, Settled, Up
    <2>3. source = None
      BY <1>4 DEF StartDaemon, Up, Equipped
    <2> QED
      BY <2>1, <2>2, <2>3, ServiceAssumption DEF ReloadInv, Reloading, Thread
  <1>5. CASE Crash
    <2>1. /\ ~Settled' /\ \A t \in Thread : ~Reloading(t)'
      BY <1>5, ServiceAssumption DEF Crash, Settled, Reloading
    <2> QED
      BY <2>1 DEF ReloadInv
  <1>6. CASE UNCHANGED vars
    BY <1>6 DEF vars, daemonVars, ReloadInv, Settled, Fresh, UpToDate, Reloading
  <1> QED
    BY <1>1, <1>2, <1>3, <1>4, <1>5, <1>6

-----------------------------------------------------------------------------
LEMMA Inductive == Safety => []IInv
  <1>1. Init => IInv
    BY TypeInit, PlacesInit, EquippedInit, ScreenInit, ReloadInit DEF IInv
  <1>2. IInv /\ [Next]_vars => IInv'
    <2> SUFFICES ASSUME IInv, [Next]_vars PROVE IInv'
      OBVIOUS
    <2>1. TypeOK' /\ Places' /\ Equipped' /\ ScreenInv'
      BY TypeStep, PlacesStep, EquippedStep, ScreenStep DEF IInv
    <2>2. ReloadInv'
      BY Steps, ReloadWindow, ReloadReads, ReloadInstalls, ReloadSnapshots, ReloadPublishes,
         ReloadDispatch, ReloadReplies, ReloadOther DEF IInv
    <2> QED
      BY <2>1, <2>2 DEF IInv
  <1> QED
    BY <1>1, <1>2, PTL DEF Safety

(* An acknowledged edit is in effect: however many connections there are, *)
(* whatever the window saved and gave up before, and however often the    *)
(* daemon died, once a reload is acknowledged the daemon has installed    *)
(* the files as they are (engine.py:106, daemon_client.py:157), and a     *)
(* listening daemon withholds what they ask for, unless reloads overlap.  *)
THEOREM AcknowledgedMeansInstalled == Spec => []AcknowledgedIsInstalled
  <1>1. IInv => AcknowledgedIsInstalled
    <2> SUFFICES ASSUME IInv, client.acked, "reload" \notin spoiled,
                        \A c \in Conn : ~Reloading(c)
                 PROVE  UpToDate /\ (Listening => source = Suppressed(config))
      BY DEF AcknowledgedIsInstalled
    <2>1. Settled
      BY DEF Settled
    <2>2. UpToDate
      BY <2>1 DEF IInv, ReloadInv, Reloading
    <2>3. ASSUME Listening PROVE source = Suppressed(config)
      <3>1. \A t \in Thread : ~Reloading(t)
        BY <2>3 DEF Listening, Reloading, Thread
      <3>2. source # None
        BY <2>3 DEF IInv, Equipped, Listening
      <3> QED
        BY <2>1, <3>1, <3>2 DEF IInv, ReloadInv
    <2> QED
      BY <2>2, <2>3
  <1> QED
    BY <1>1, Inductive, PTL DEF Spec

(* The size of the screen: a listening daemon scales by the size that the  *)
(* next one will start with (engine.py:166), for any number of connections *)
(* and crashes, unless operations on it overlap or saving it fails.        *)
THEOREM SizesAgree == Spec => []ScreenAgrees
  <1>1. IInv => ScreenAgrees
    BY DEF IInv, ScreenInv, Equipped, ScreenAgrees, Listening
  <1> QED
    BY <1>1, Inductive, PTL DEF Spec
=============================================================================
