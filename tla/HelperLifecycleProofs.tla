------------------------ MODULE HelperLifecycleProofs ------------------------
(***************************************************************************)
(* Theorems of HelperLifecycle, for any number of connections and any      *)
(* bound on the queue.                                                     *)
(***************************************************************************)
EXTENDS HelperLifecycle, TLAPS

-----------------------------------------------------------------------------
(* Types *)

\* What the helper starts with is well typed.
LEMMA InitTypes == Init => TypeOK
<1> SUFFICES ASSUME Init PROVE TypeOK
  OBVIOUS
<1>1. events \in Seq(Events)
  BY DEF Init
<1>2. conns \in 0..MaxConns
  BY BoundsAssumption DEF Init
<1> QED
  BY <1>1, <1>2 DEF Init, TypeOK, ServiceSteps, Statuses, Reports

\* Posting an event keeps the queue a sequence of events.
LEMMA PostTypes ==
    ASSUME TypeOK, NEW e \in Events, Post(e)
    PROVE  events' \in Seq(Events)
BY DEF TypeOK, Post

\* The child is killed or left as it is.
LEMMA LetGoTypes ==
    ASSUME TypeOK, NEW held \in BOOLEAN, LetGo(held) \/ ChildGone
    PROVE  /\ child' \in {"none", "spawned", "listening", "dead"}
           /\ answerer' \in {"nobody", "daemon", "stranger"}
BY DEF TypeOK, LetGo, ChildGone, childVars

\* The frames of the actions leave the variables of the others alone.
LEMMA FrameTypes ==
    ASSUME TypeOK
    PROVE  /\ ServicesFrame =>
                 /\ stdin' \in {"open", "closed", "seen"}
                 /\ loop' \in {"starting", "running", "exiting", "exited"}
                 /\ lastStatus' \in Statuses /\ lastReport' \in Reports
                 /\ menu' \in Statuses \cup {None}
                 /\ window' \in Windows \cup {None}
           /\ UNCHANGED taskVars =>
                 /\ services' \in ServiceSteps /\ late' \in BOOLEAN
                 /\ poller' \in {"none", "idle", "probing", "dropped"}
                 /\ conns' \in 0..MaxConns
           /\ UNCHANGED childVars =>
                 /\ child' \in {"none", "spawned", "listening", "dead"}
                 /\ answerer' \in {"nobody", "daemon", "stranger"}
BY DEF TypeOK, ServicesFrame, taskVars, childVars, loopVars

\* The start of the services keeps the types.
LEMMA StartTypes ==
    ASSUME TypeOK,
           StartServices \/ DeadlinePasses \/ Connect \/ ConnectRefused \/ Handshake
    PROVE  TypeOK'
<1>1. CASE StartServices
  <2>1. events' \in Seq(Events)
    <3>1. CASE events' = events \o <<"starting", "failed">>
      <4>1. <<"starting", "failed">> \in Seq(Events)
        BY DEF Events, Statuses
      <4> QED
        BY <3>1, <4>1 DEF TypeOK
    <3>2. CASE Post("starting")
      BY <3>2, PostTypes DEF Events, Statuses
    <3> QED
      BY <1>1, <3>1, <3>2 DEF StartServices
  <2>2. services' \in ServiceSteps /\ child' \in {"none", "spawned", "listening", "dead"}
    BY <1>1 DEF StartServices, TypeOK, ServiceSteps
  <2> QED
    BY <1>1, <2>1, <2>2, FrameTypes DEF StartServices, TypeOK
<1>2. CASE DeadlinePasses
  BY <1>2, FrameTypes DEF DeadlinePasses, TypeOK, childVars
<1>3. CASE Connect
  BY <1>3, FrameTypes DEF Connect, TypeOK, childVars, ServiceSteps
<1>4. ASSUME StartFails PROVE TypeOK'
  <2>1. events' \in Seq(Events)
    BY <1>4, PostTypes DEF StartFails, Events, Statuses
  <2>2. /\ child' \in {"none", "spawned", "listening", "dead"}
        /\ answerer' \in {"nobody", "daemon", "stranger"}
    BY <1>4, LetGoTypes DEF StartFails
  <2> QED
    BY <1>4, <2>1, <2>2, FrameTypes DEF StartFails, TypeOK, ServiceSteps
<1>5. CASE ConnectRefused
  BY <1>5, <1>4 DEF ConnectRefused
<1>6. CASE Handshake
  <2>1. CASE StartFails
    BY <2>1, <1>4
  <2>2. CASE /\ services' = "binding"
             /\ UNCHANGED <<late, poller, conns, childVars, events>>
             /\ ServicesFrame
    BY <2>2, FrameTypes DEF TypeOK, childVars, ServiceSteps
  <2> QED
    BY <1>6, <2>1, <2>2 DEF Handshake
<1> QED
  BY <1>1, <1>2, <1>3, <1>5, <1>6

\* So do the server and its sessions.
LEMMA ServeTypes ==
    ASSUME TypeOK,
           Bind \/ ReturnFromBind \/ Serve \/ BrowserConnects \/ SessionEnds
    PROVE  TypeOK'
<1>1. CASE Bind
  <2>1. events' \in Seq(Events)
    BY <1>1, PostTypes DEF Bind, Events, Statuses
  <2>2. services' \in ServiceSteps /\ poller' \in {"none", "idle", "probing", "dropped"}
    BY <1>1 DEF Bind, TypeOK, ServiceSteps
  <2> QED
    BY <1>1, <2>1, <2>2, FrameTypes DEF Bind, TypeOK
<1>2. CASE ReturnFromBind
  <2>1. /\ child' \in {"none", "spawned", "listening", "dead"}
        /\ answerer' \in {"nobody", "daemon", "stranger"}
    BY <1>2, LetGoTypes DEF ReturnFromBind
  <2> QED
    BY <1>2, <2>1, FrameTypes DEF ReturnFromBind, TypeOK, ServiceSteps
<1>3. CASE Serve
  <2>1. events' \in Seq(Events)
    BY <1>3, PostTypes DEF Serve, Events, Statuses, TypeOK
  <2>2. /\ child' \in {"none", "spawned", "listening", "dead"}
        /\ answerer' \in {"nobody", "daemon", "stranger"}
    <3>1. CASE UNCHANGED childVars
      BY <3>1, FrameTypes
    <3>2. CASE LetGo(PollerHolds)
      BY <3>2 DEF LetGo, ChildGone, childVars, TypeOK
    <3> QED
      BY <1>3, <3>1, <3>2 DEF Serve, childVars
  <2>3. services' \in ServiceSteps
    BY <1>3 DEF Serve, ServiceSteps
  <2> QED
    BY <1>3, <2>1, <2>2, <2>3, FrameTypes DEF Serve, TypeOK
<1>4. CASE BrowserConnects
  <2>1. conns' \in 0..MaxConns
    BY <1>4, BoundsAssumption DEF BrowserConnects, TypeOK
  <2> QED
    BY <1>4, <2>1, FrameTypes DEF BrowserConnects, TypeOK, childVars
<1>5. CASE SessionEnds
  <2>1. conns' \in 0..MaxConns
    BY <1>5, BoundsAssumption DEF SessionEnds, TypeOK
  <2>2. /\ child' \in {"none", "spawned", "listening", "dead"}
        /\ answerer' \in {"nobody", "daemon", "stranger"}
    BY <1>5, LetGoTypes DEF SessionEnds, ServicesHold, PollerHolds, TypeOK
  <2> QED
    BY <1>5, <2>1, <2>2, FrameTypes DEF SessionEnds, TypeOK
<1> QED
  BY <1>1, <1>2, <1>3, <1>4, <1>5

\* So do the poller and the drops of a shutdown.
LEMMA PollerTypes ==
    ASSUME TypeOK, Poller \/ DropServices \/ DropPoller
    PROVE  TypeOK'
<1>1. CASE PollTick
  BY <1>1, FrameTypes DEF PollTick, TypeOK, childVars
<1>2. ASSUME NEW r \in Reports, Report(r) PROVE TypeOK'
  <2>1. events' \in Seq(Events)
    BY <1>2, PostTypes DEF Report, Events
  <2> QED
    BY <1>2, <2>1, FrameTypes DEF Report, TypeOK, childVars
<1>3. CASE ProbeAnswered \/ ProbeFails
  BY <1>2, <1>3 DEF ProbeAnswered, ProbeFails, Reports
<1>4. CASE DropServices
  <2>1. /\ child' \in {"none", "spawned", "listening", "dead"}
        /\ answerer' \in {"nobody", "daemon", "stranger"}
    BY <1>4, LetGoTypes, FrameTypes DEF DropServices, PollerHolds, TypeOK
  <2> QED
    BY <1>4, <2>1, FrameTypes DEF DropServices, TypeOK, ServiceSteps
<1>5. CASE DropPoller
  <2>1. /\ child' \in {"none", "spawned", "listening", "dead"}
        /\ answerer' \in {"nobody", "daemon", "stranger"}
    BY <1>5, LetGoTypes DEF DropPoller, ServicesHold, TypeOK
  <2> QED
    BY <1>5, <2>1, FrameTypes DEF DropPoller, TypeOK
<1> QED
  BY <1>1, <1>3, <1>4, <1>5 DEF Poller

\* So do the child, the shell, the user and the watch of stdin.
LEMMA OutsideTypes ==
    ASSUME TypeOK, Outside \/ WatchStdin
    PROVE  TypeOK'
<1>1. CASE ChildBinds
  BY <1>1, FrameTypes DEF ChildBinds, ChildFrame, TypeOK, loopVars
<1>2. CASE ChildDies
  BY <1>2, FrameTypes DEF ChildDies, ChildGone, ChildFrame, TypeOK, loopVars
<1>3. CASE StrangerBinds
  BY <1>3, FrameTypes DEF StrangerBinds, ChildFrame, TypeOK, loopVars
<1>4. CASE ShellSignals
  BY <1>4, FrameTypes DEF ShellSignals, UserFrame, TypeOK, loopVars
<1>5. ASSUME NEW c \in Clicks, Click(c) PROVE TypeOK'
  <2>1. events' \in Seq(Events)
    BY <1>5, PostTypes DEF Click, Events
  <2> QED
    BY <1>5, <2>1, FrameTypes DEF Click, UserFrame, TypeOK, loopVars
<1>6. CASE WatchStdin
  <2>1. events' \in Seq(Events)
    BY <1>6, PostTypes DEF WatchStdin, Events, Clicks
  <2> QED
    BY <1>6, <2>1, FrameTypes DEF WatchStdin, UserFrame, TypeOK, loopVars
<1> QED
  BY <1>1, <1>2, <1>3, <1>4, <1>5, <1>6 DEF Outside

\* Taking an event shortens the queue.
LEMMA TakesTypes ==
    ASSUME TypeOK, NEW e, Takes(e)
    PROVE  /\ events' \in Seq(Events)
           /\ events # <<>> /\ e = events[1]
           /\ Len(events') = Len(events) - 1
           /\ \A i \in 1..Len(events') : events'[i] = events[i + 1]
BY DEF TypeOK, Takes

\* So does the event loop.
LEMMA LoopTypes ==
    ASSUME TypeOK, Loop
    PROVE  TypeOK'
<1> USE DEF LoopFrame
<1>1. CASE BuildTray
  BY <1>1, FrameTypes DEF BuildTray, TypeOK, Statuses
<1>2. ASSUME NEW st \in Statuses, Takes(st), lastStatus' = st, menu' = st,
             window' = IF window = None THEN None ELSE [window EXCEPT !.status = st],
             UNCHANGED <<loop, lastReport>>
      PROVE  TypeOK'
  <2>1. window' \in Windows \cup {None}
    BY <1>2 DEF TypeOK, Windows
  <2> QED
    BY <1>2, <2>1, TakesTypes, FrameTypes DEF Takes, TypeOK
<1>3. ASSUME NEW r \in Reports, Takes(r), lastReport' = r,
             window' = IF window = None THEN None ELSE [window EXCEPT !.report = r],
             UNCHANGED <<loop, lastStatus, menu>>
      PROVE  TypeOK'
  <2>1. window' \in Windows \cup {None}
    BY <1>3 DEF TypeOK, Windows
  <2> QED
    BY <1>3, <2>1, TakesTypes, FrameTypes DEF Takes, TypeOK
<1>4. CASE HandleShow
  <2>1. window' \in Windows \cup {None}
    BY <1>4 DEF HandleShow, TypeOK, Windows
  <2>2. Takes("show") /\ UNCHANGED <<loop, lastStatus, lastReport, menu>>
    BY <1>4 DEF HandleShow
  <2> QED
    BY <2>1, <2>2, TakesTypes, FrameTypes DEF Takes, TypeOK
<1>5. CASE CloseWindow
  <2>1. window' \in Windows \cup {None}
    BY <1>5 DEF CloseWindow, TypeOK, Windows
  <2> QED
    BY <1>5, <2>1, FrameTypes DEF CloseWindow, TypeOK
<1>6. CASE Shutdown
  <2>1. Takes("quit") /\ loop' = "exiting" /\ UNCHANGED <<lastStatus, lastReport, menu, window>>
    BY <1>6 DEF Shutdown
  <2> QED
    BY <2>1, TakesTypes, FrameTypes DEF Takes, TypeOK
<1>7. CASE Exit
  BY <1>7, FrameTypes DEF Exit, ExitFrame, TypeOK
<1>8. CASE HandleStatus
  BY <1>8, <1>2 DEF HandleStatus
<1>9. CASE HandleTelemetry
  BY <1>9, <1>3 DEF HandleTelemetry
<1> QED
  BY <1>1, <1>4, <1>5, <1>6, <1>7, <1>8, <1>9 DEF Loop

\* A step that changes nothing keeps the types.
LEMMA StutterTypes == TypeOK /\ UNCHANGED vars => TypeOK'
BY DEF TypeOK, vars, taskVars, childVars, loopVars

\* Every step keeps the types.
LEMMA StepTypes == TypeOK /\ [Next]_vars => TypeOK'
BY StartTypes, ServeTypes, PollerTypes, OutsideTypes, LoopTypes, StutterTypes
   DEF Next, Services, Terminated

\* Every variable of the helper keeps its range: what is posted are events, and
\* the window holds a status and a report in their places (tray.rs).
THEOREM HelperTypes == Spec => []TypeOK
<1>1. Init => TypeOK
  BY InitTypes
<1>2. TypeOK /\ [Next]_vars => TypeOK'
  BY StepTypes
<1> QED
  BY <1>1, <1>2, PTL DEF Spec

-----------------------------------------------------------------------------
(* The child has an owner *)

\* Also after the exit, and no child before the services have started.
ChildInv ==
    /\ child \in Living => Owned
    /\ services = "new" => child = "none"

\* A child that was let go lives only if another owner is left.
LEMMA LetGoKills ==
    ASSUME TypeOK, NEW held \in BOOLEAN, LetGo(held), ~held
    PROVE  child' \notin Living /\ (child = "none" => child' = "none")
BY DEF TypeOK, LetGo, ChildGone, Living

\* A child that lives on lived before.
LEMMA LetGoLives ==
    ASSUME TypeOK, NEW held \in BOOLEAN, LetGo(held) \/ ChildGone
    PROVE  /\ child' \in Living => child \in Living
           /\ child = "none" => child' = "none"
BY DEF TypeOK, LetGo, ChildGone, childVars, Living

\* The services and their sessions keep the child owned.
LEMMA ServicesOwn ==
    ASSUME TypeOK, ChildInv, Services
    PROVE  ChildInv'
<1> USE DEF ChildInv, Owned, ServicesHold, PollerHolds
<1>1. CASE StartServices
  BY <1>1 DEF StartServices, Living
<1>2. CASE DeadlinePasses \/ Connect
  BY <1>2 DEF DeadlinePasses, Connect, childVars
<1>3. ASSUME StartFails PROVE ChildInv'
  <2>1. services' = "ended" /\ child' \notin Living
    BY <1>3, LetGoKills DEF StartFails
  <2> QED
    BY <2>1
<1>4. CASE ConnectRefused
  BY <1>4, <1>3 DEF ConnectRefused
<1>5. CASE Handshake
  <2>1. CASE StartFails
    BY <2>1, <1>3
  <2>2. CASE services' = "binding"
    BY <2>2
  <2> QED
    BY <1>5, <2>1, <2>2 DEF Handshake
<1>6. CASE Bind
  BY <1>6 DEF Bind
<1>7. CASE ReturnFromBind
  <2>1. services' = "ended" /\ child' \notin Living
    BY <1>7, LetGoKills DEF ReturnFromBind
  <2> QED
    BY <2>1
<1>8. CASE Serve
  <2>1. CASE services' = "serving"
    BY <2>1
  <2>2. CASE services' = "ended" /\ LetGo(PollerHolds)
    <3>1. CASE PollerHolds
      BY <1>8, <2>2, <3>1 DEF Serve
    <3>2. CASE ~PollerHolds
      <4>1. child' \notin Living
        BY <2>2, <3>2 DEF LetGo, ChildGone, Living, TypeOK
      <4> QED
        BY <2>2, <4>1
    <3> QED
      BY <3>1, <3>2
  <2> QED
    BY <1>8, <2>1, <2>2 DEF Serve
<1>9. CASE BrowserConnects
  BY <1>9 DEF BrowserConnects, childVars, TypeOK
<1>10. CASE SessionEnds
  <2>1. LetGo(ServicesHold \/ PollerHolds \/ conns > 1)
    BY <1>10 DEF SessionEnds
  <2>2. UNCHANGED <<services, poller>> /\ conns' = conns - 1 /\ conns \in Nat
    BY <1>10 DEF SessionEnds, TypeOK
  <2>3. CASE ServicesHold \/ PollerHolds \/ conns > 1
    <3>1. child' = child
      BY <2>1, <2>3 DEF LetGo, childVars
    <3> QED
      BY <2>2, <2>3, <3>1
  <2>4. CASE ~(ServicesHold \/ PollerHolds \/ conns > 1)
    <3>1. child' \notin Living /\ (child = "none" => child' = "none")
      BY <2>1, <2>4, LetGoKills
    <3> QED
      BY <2>2, <3>1
  <2> QED
    BY <2>3, <2>4
<1>11. CASE DropServices
  <2>1. services' = "dropped" /\ UNCHANGED <<poller, conns>>
    BY <1>11 DEF DropServices
  <2>2. CASE services = "new"
    BY <1>11, <2>1, <2>2 DEF DropServices, childVars, Living
  <2>3. CASE services # "new" /\ (PollerHolds \/ conns > 0)
    BY <2>1, <2>3
  <2>4. CASE services # "new" /\ ~(PollerHolds \/ conns > 0)
    <3>1. child' \notin Living
      BY <1>11, <2>4, LetGoKills DEF DropServices
    <3> QED
      BY <2>1, <3>1
  <2> QED
    BY <2>2, <2>3, <2>4
<1>12. CASE DropPoller
  <2>1. UNCHANGED <<services, conns>> /\ LetGo(ServicesHold \/ conns > 0)
    BY <1>12 DEF DropPoller
  <2>2. CASE ServicesHold \/ conns > 0
    <3>1. child' = child
      BY <2>1, <2>2 DEF LetGo, childVars
    <3> QED
      BY <2>1, <2>2, <3>1
  <2>3. CASE ~(ServicesHold \/ conns > 0)
    <3>1. child' \notin Living /\ (child = "none" => child' = "none")
      BY <2>1, <2>3, LetGoKills
    <3> QED
      BY <2>1, <3>1
  <2> QED
    BY <2>2, <2>3
<1> QED
  BY <1>1, <1>2, <1>4, <1>5, <1>6, <1>7, <1>8, <1>9, <1>10, <1>11, <1>12 DEF Services

\* Nobody else lets go of the daemon.
LEMMA OthersOwn ==
    ASSUME TypeOK, ChildInv, Poller \/ Outside \/ WatchStdin \/ Loop \/ UNCHANGED vars
    PROVE  ChildInv'
<1> USE DEF ChildInv, Owned, ServicesHold, PollerHolds
<1>1. CASE Poller
  BY <1>1 DEF Poller, PollTick, ProbeAnswered, ProbeFails, Report, childVars
<1>2. CASE ChildBinds \/ ChildDies \/ StrangerBinds
  <2>1. UNCHANGED <<services, poller, conns>>
    BY <1>2 DEF ChildBinds, ChildDies, StrangerBinds, ChildFrame, taskVars
  <2>2. child' \in Living => child \in Living
    BY <1>2, LetGoLives DEF ChildBinds, ChildDies, StrangerBinds, Living
  <2>3. child = "none" => child' = "none"
    BY <1>2 DEF ChildBinds, ChildDies, StrangerBinds, Living
  <2> QED
    BY <2>1, <2>2, <2>3
<1>3. CASE ShellSignals \/ WatchStdin \/ \E c \in Clicks : Click(c)
  BY <1>3 DEF ShellSignals, WatchStdin, Click, UserFrame, taskVars, childVars
<1>4. CASE Loop
  <2>1. UNCHANGED <<taskVars, childVars>>
    BY <1>4 DEF Loop, BuildTray, HandleStatus, HandleTelemetry, HandleShow, CloseWindow,
                Shutdown, Exit, ExitFrame, Takes, LoopFrame
  <2> QED
    BY <2>1 DEF taskVars, childVars
<1>5. CASE UNCHANGED vars
  BY <1>5 DEF vars, taskVars, childVars
<1> QED
  BY <1>1, <1>2, <1>3, <1>4, <1>5 DEF Outside

\* Whatever fails, and whichever owner is dropped first, a living arduino-cli has
\* an owner whose drop will kill it (daemon.rs, kill_on_drop).
THEOREM ChildIsOwned == Spec => []LivingChildIsOwned
<1>1. Init => ChildInv
  BY DEF Init, ChildInv, Living
<1>2. TypeOK /\ ChildInv /\ [Next]_vars => ChildInv'
  BY ServicesOwn, OthersOwn DEF Next, Terminated
<1>3. ChildInv => LivingChildIsOwned
  BY DEF ChildInv, LivingChildIsOwned
<1> QED
  BY <1>1, <1>2, <1>3, HelperTypes, PTL DEF Spec

-----------------------------------------------------------------------------
(* What the user is shown *)

\* Before its first event the loop has the status it started with.
ShownInv == ShownIsTrue /\ (loop = "starting" => lastStatus = "starting")

\* A status that is posted is the one to be shown.
LEMMA PostTells ==
    ASSUME TypeOK, NEW st \in Statuses, Post(st)
    PROVE  Told(st)'
<1>1. /\ Len(events') = Len(events) + 1
      /\ events'[Len(events) + 1] = st
      /\ DOMAIN events' = 1..Len(events')
      /\ Len(events) \in Nat
  BY DEF TypeOK, Post
<1> QED
  BY <1>1 DEF Told

\* A start that fails at once posts two.
LEMMA FailureTells ==
    ASSUME TypeOK, events' = events \o <<"starting", "failed">>
    PROVE  Told("failed")'
<1>1. /\ Len(events') = Len(events) + 2
      /\ events'[Len(events) + 2] = "failed"
      /\ DOMAIN events' = 1..Len(events')
      /\ Len(events) \in Nat
  BY DEF TypeOK
<1> QED
  BY <1>1 DEF Told

\* Other events do not change what is to be shown.
LEMMA PostKeepsTold ==
    ASSUME TypeOK, NEW st \in Statuses, NEW e \in Events, e \notin Statuses, Post(e),
           lastStatus' = lastStatus, Told(st)
    PROVE  Told(st)'
<1>1. /\ Len(events') = Len(events) + 1
      /\ \A i \in 1..Len(events) : events'[i] = events[i]
      /\ events'[Len(events) + 1] = e
      /\ DOMAIN events' = 1..Len(events')
      /\ DOMAIN events = 1..Len(events)
      /\ Len(events) \in Nat
  BY DEF TypeOK, Post
<1> QED
  BY <1>1 DEF Told

\* The loop takes the oldest event, and shows it if it is a status.
LEMMA TakeKeepsTold ==
    ASSUME TypeOK, NEW st \in Statuses, NEW e, Takes(e), Told(st),
           lastStatus' = IF e \in Statuses THEN e ELSE lastStatus
    PROVE  Told(st)'
<1>1. /\ events # <<>> /\ e = events[1]
      /\ Len(events') = Len(events) - 1
      /\ \A i \in 1..Len(events') : events'[i] = events[i + 1]
      /\ DOMAIN events' = 1..Len(events') /\ DOMAIN events = 1..Len(events)
      /\ Len(events) \in Nat \ {0}
  BY TakesTypes DEF TypeOK
<1>2. CASE lastStatus = st /\ \A j \in DOMAIN events : events[j] \notin Statuses
  BY <1>1, <1>2 DEF Told
<1>3. ASSUME NEW i \in DOMAIN events, events[i] = st,
             \A j \in DOMAIN events : j > i => events[j] \notin Statuses
      PROVE  Told(st)'
  <2>1. CASE i = 1
    <3>1. \A j \in DOMAIN events' : events'[j] \notin Statuses
      BY <1>1, <1>3, <2>1
    <3> QED
      BY <1>1, <1>3, <2>1, <3>1 DEF Told
  <2>2. CASE i > 1
    <3>1. i - 1 \in DOMAIN events' /\ events'[i - 1] = st
      BY <1>1, <1>3, <2>2
    <3>2. \A j \in DOMAIN events' : j > i - 1 => events'[j] \notin Statuses
      BY <1>1, <1>3, <2>2, SMTT(30)
    <3> QED
      BY <3>1, <3>2 DEF Told
  <2> QED
    BY <1>1, <2>1, <2>2
<1> QED
  BY <1>2, <1>3 DEF Told

\* The steps of the services say what they have come to.
LEMMA ServicesShow ==
    ASSUME TypeOK, ShownInv, Services
    PROVE  ShownInv'
<1>1. /\ UNCHANGED <<loop, lastStatus, lastReport, menu, window>>
      /\ Statuses = {"starting", "running", "failed"}
  BY DEF Services, StartServices, DeadlinePasses, Connect, ConnectRefused, Handshake,
         StartFails, Bind, ReturnFromBind, Serve, BrowserConnects, SessionEnds,
         DropServices, DropPoller, ServicesFrame, loopVars, Statuses
<1>2. ASSUME \/ /\ services' \in {"connecting", "handshaking", "binding"}
                /\ Told("starting")'
             \/ /\ services' \in {"discovering", "serving"}
                /\ Told("running")'
             \/ /\ services' \in {"failing", "ended"}
                /\ Told("failed")'
             \/ services' \in {"new", "dropped"}
      PROVE  ShownInv'
  BY <1>1, <1>2 DEF ShownInv, ShownIsTrue
<1>3. ASSUME NEW st \in Statuses, UNCHANGED <<events, lastStatus>>, Told(st)
      PROVE  Told(st)'
  BY <1>3 DEF Told
<1>4. ASSUME UNCHANGED <<services, events>> PROVE ShownInv'
  BY <1>1, <1>4 DEF ShownInv, ShownIsTrue, Told
<1>5. CASE StartServices
  BY <1>1, <1>2, <1>5, PostTells, FailureTells DEF StartServices
<1>6. CASE DeadlinePasses \/ BrowserConnects \/ SessionEnds \/ DropPoller
  BY <1>4, <1>6 DEF DeadlinePasses, BrowserConnects, SessionEnds, DropPoller
<1>7. CASE Connect
  <2>1. Told("starting")
    BY <1>7 DEF Connect, ShownInv, ShownIsTrue
  <2> QED
    BY <1>1, <1>2, <1>3, <1>7, <2>1 DEF Connect
<1>8. ASSUME StartFails PROVE ShownInv'
  BY <1>1, <1>2, <1>8, PostTells DEF StartFails
<1>9. CASE ConnectRefused
  BY <1>8, <1>9 DEF ConnectRefused
<1>10. CASE Handshake
  <2>1. CASE StartFails
    BY <1>8, <2>1
  <2>2. CASE services' = "binding" /\ UNCHANGED events
    <3>1. Told("starting")
      BY <1>10 DEF Handshake, ShownInv, ShownIsTrue
    <3> QED
      BY <1>1, <1>2, <1>3, <2>2, <3>1
  <2> QED
    BY <1>10, <2>1, <2>2 DEF Handshake
<1>11. CASE Bind
  BY <1>1, <1>2, <1>11, PostTells DEF Bind
<1>12. CASE ReturnFromBind
  <2>1. Told("failed")
    BY <1>12 DEF ReturnFromBind, ShownInv, ShownIsTrue
  <2> QED
    BY <1>1, <1>2, <1>3, <1>12, <2>1 DEF ReturnFromBind
<1>13. CASE Serve
  <2>1. CASE services' = "serving" /\ UNCHANGED events
    <3>1. Told("running")
      BY <1>13 DEF Serve, ShownInv, ShownIsTrue
    <3> QED
      BY <1>1, <1>2, <1>3, <2>1, <3>1
  <2>2. CASE services' = "ended" /\ Post("failed")
    BY <1>1, <1>2, <2>2, PostTells
  <2> QED
    BY <1>13, <2>1, <2>2 DEF Serve
<1>14. CASE DropServices
  BY <1>2, <1>14 DEF DropServices
<1> QED
  BY <1>5, <1>6, <1>7, <1>9, <1>10, <1>11, <1>12, <1>13, <1>14 DEF Services

\* What others post is no status.
LEMMA OthersShow ==
    ASSUME TypeOK, ShownInv, Poller \/ Outside \/ WatchStdin \/ UNCHANGED vars
    PROVE  ShownInv'
<1>1. UNCHANGED <<services, loop, lastStatus, lastReport, menu, window>>
  BY DEF Poller, PollTick, ProbeAnswered, ProbeFails, Report, Outside, ChildBinds,
         ChildDies, StrangerBinds, ShellSignals, Click, WatchStdin, ServicesFrame,
         ChildFrame, UserFrame, taskVars, loopVars, vars
<1>2. UNCHANGED events \/ \E e \in Events \ Statuses : Post(e)
  BY DEF Poller, PollTick, ProbeAnswered, ProbeFails, Report, Outside, ChildBinds,
         ChildDies, StrangerBinds, ShellSignals, Click, WatchStdin, ServicesFrame,
         ChildFrame, UserFrame, vars, Events, Statuses, Reports, Clicks
<1>3. \A st \in Statuses : Told(st) => Told(st)'
  <2>1. CASE UNCHANGED events
    BY <1>1, <2>1 DEF Told
  <2>2. CASE \E e \in Events \ Statuses : Post(e)
    BY <1>1, <2>2, PostKeepsTold
  <2> QED
    BY <1>2, <2>1, <2>2
<1> QED
  BY <1>1, <1>3 DEF ShownInv, ShownIsTrue, Statuses

\* The loop paints what it has taken, on the menu and on the window.
LEMMA LoopShows ==
    ASSUME TypeOK, ShownInv, Loop
    PROVE  ShownInv'
<1>1. services' = services /\ Statuses = {"starting", "running", "failed"}
  BY DEF Loop, BuildTray, HandleStatus, HandleTelemetry, HandleShow, CloseWindow,
         Shutdown, Exit, ExitFrame, Takes, LoopFrame, taskVars, Statuses
<1>2. ASSUME \A st \in Statuses : Told(st) => Told(st)',
             menu' # None => menu' = lastStatus',
             window' # None => window'.status = lastStatus' /\ window'.report = lastReport',
             loop' # "starting"
      PROVE  ShownInv'
  BY <1>1, <1>2 DEF ShownInv, ShownIsTrue
<1>3. ASSUME NEW e, Takes(e), lastStatus' = IF e \in Statuses THEN e ELSE lastStatus
      PROVE  \A st \in Statuses : Told(st) => Told(st)'
  BY <1>3, TakeKeepsTold
<1>4. ASSUME UNCHANGED <<events, lastStatus>>
      PROVE  \A st \in Statuses : Told(st) => Told(st)'
  BY <1>4 DEF Told
<1>5. CASE BuildTray
  BY <1>2, <1>4, <1>5 DEF BuildTray, ShownInv, ShownIsTrue
<1>6. ASSUME NEW st \in Statuses, Takes(st), lastStatus' = st, menu' = st,
             window' = IF window = None THEN None ELSE [window EXCEPT !.status = st],
             UNCHANGED <<loop, lastReport>>
      PROVE  ShownInv'
  <2>1. loop' # "starting"
    BY <1>6 DEF Takes
  <2>2. window' # None => window'.status = lastStatus' /\ window'.report = lastReport'
    BY <1>6 DEF TypeOK, Windows, ShownInv, ShownIsTrue
  <2> QED
    BY <1>2, <1>3, <1>6, <2>1, <2>2
<1>7. ASSUME NEW r \in Reports, Takes(r), lastReport' = r,
             window' = IF window = None THEN None ELSE [window EXCEPT !.report = r],
             UNCHANGED <<loop, lastStatus, menu>>
      PROVE  ShownInv'
  <2>1. loop' # "starting" /\ r \notin Statuses
    BY <1>7 DEF Takes, Reports, Statuses
  <2>2. window' # None => window'.status = lastStatus' /\ window'.report = lastReport'
    BY <1>7 DEF TypeOK, Windows, ShownInv, ShownIsTrue
  <2>3. menu' # None => menu' = lastStatus'
    BY <1>7 DEF ShownInv, ShownIsTrue
  <2> QED
    BY <1>2, <1>3, <1>7, <2>1, <2>2, <2>3
<1>8. CASE HandleShow
  <2>1. Takes("show") /\ loop' # "starting" /\ "show" \notin Statuses
    BY <1>8 DEF HandleShow, Takes, Statuses
  <2>2. window' # None => window'.status = lastStatus' /\ window'.report = lastReport'
    BY <1>8 DEF HandleShow, TypeOK, Windows, ShownInv, ShownIsTrue
  <2>3. UNCHANGED <<lastStatus, menu>> /\ (menu' # None => menu' = lastStatus')
    BY <1>8 DEF HandleShow, ShownInv, ShownIsTrue
  <2> QED
    BY <1>2, <1>3, <2>1, <2>2, <2>3
<1>9. CASE CloseWindow
  <2>1. UNCHANGED <<events, lastStatus, menu>> /\ loop' # "starting"
    BY <1>9 DEF CloseWindow
  <2>2. window' # None => window'.status = lastStatus' /\ window'.report = lastReport'
    BY <1>9 DEF CloseWindow, TypeOK, Windows, ShownInv, ShownIsTrue
  <2>3. menu' # None => menu' = lastStatus'
    BY <2>1 DEF ShownInv, ShownIsTrue
  <2> QED
    BY <1>2, <1>4, <2>1, <2>2, <2>3
<1>10. CASE Shutdown
  <2>1. Takes("quit") /\ loop' # "starting" /\ "quit" \notin Statuses
    BY <1>10 DEF Shutdown, Statuses
  <2>2. UNCHANGED <<lastStatus, lastReport, menu, window>>
    BY <1>10 DEF Shutdown
  <2> QED
    BY <1>2, <1>3, <2>1, <2>2 DEF ShownInv, ShownIsTrue
<1>11. CASE Exit
  BY <1>2, <1>4, <1>11 DEF Exit, ExitFrame, ShownInv, ShownIsTrue
<1>12. CASE HandleStatus
  BY <1>6, <1>12 DEF HandleStatus
<1>13. CASE HandleTelemetry
  BY <1>7, <1>13 DEF HandleTelemetry
<1> QED
  BY <1>5, <1>8, <1>9, <1>10, <1>11, <1>12, <1>13 DEF Loop

\* The tray and the window, built whenever it is, show where the services stand
\* once the queue is handled, however its events interleave (tray.rs).
THEOREM ShownStatusIsTrue == Spec => []ShownIsTrue
<1>1. Init => ShownInv
  BY DEF Init, ShownInv, ShownIsTrue
<1>2. TypeOK /\ ShownInv /\ [Next]_vars => ShownInv'
  BY ServicesShow, OthersShow, LoopShows DEF Next, Terminated
<1>3. ShownInv => ShownIsTrue
  BY DEF ShownInv
<1> QED
  BY <1>1, <1>2, <1>3, HelperTypes, PTL DEF Spec
=============================================================================
