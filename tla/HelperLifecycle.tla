--------------------------- MODULE HelperLifecycle ---------------------------
(***************************************************************************)
(* The life of the local helper: the services task that starts the         *)
(* arduino-cli daemon and the server, the telemetry poller, the watch of   *)
(* stdin, and the main thread's event loop with its tray and status        *)
(* window.  The threads meet in two places: the queue of user events, and  *)
(* the ownership of the daemon's child process, which is killed when its   *)
(* last owner is dropped (kill_on_drop).                                   *)
(*                                                                         *)
(* Ports, board counts and error messages are abstracted: a status is its  *)
(* state, a telemetry report is whether the daemon is healthy.             *)
(***************************************************************************)
EXTENDS Naturals, Sequences, SequencesExt

CONSTANTS
    MaxPending,  \* bound: user and telemetry events enter a shorter queue only
    MaxConns,    \* bound: connections served at a time
    None

ASSUME BoundsAssumption == MaxPending \in Nat \ {0} /\ MaxConns \in Nat

Statuses == {"starting", "running", "failed"}
Reports  == {"healthy", "unhealthy"}
Clicks   == {"show", "quit"}
Events   == Statuses \cup Reports \cup Clicks

ASSUME NoneAssumption == None \notin Statuses

VARIABLES
    services,   \* where run_services stands
    late,       \* CONNECT_TIMEOUT has elapsed
    child,      \* the arduino-cli process
    answerer,   \* who listens on the port picked for it
    poller,     \* where poll_telemetry stands
    conns,      \* connections whose sessions hold an Arc<Daemon>
    stdin,      \* "open", "closed" by the desktop shell, "seen" by the watch
    events,     \* the EventLoopProxy's queue
    loop,       \* the tao event loop, and with it the runtime and the process
    lastStatus, lastReport,  \* what the loop has cached
    menu,       \* the status line of the tray, None before the tray is built
    window      \* the status window: what it shows, None before it is built

childVars == <<child, answerer>>
taskVars  == <<services, late, poller, conns>>
loopVars  == <<loop, lastStatus, lastReport, menu, window>>
vars == <<taskVars, childVars, stdin, events, loopVars>>

ServiceSteps == {"new", "connecting", "handshaking", "binding", "failing",
                 "discovering", "serving", "ended", "dropped"}
Living == {"spawned", "listening"}
Windows == [status : Statuses, report : Reports, visible : BOOLEAN]

-----------------------------------------------------------------------------
(* Helpers *)

\* The process is there; between the shutdown and its exit the workers of the
\* runtime may still poll tasks, or drop them.
Up == loop # "exited"

Post(e) == events' = Append(events, e)

\* Who would kill the child when dropped: start_with, which holds the Child,
\* later the services, the poller and the sessions, which share the Daemon.
ServicesHold == services \in {"connecting", "handshaking", "binding", "failing",
                              "discovering", "serving"}
PollerHolds == poller \in {"idle", "probing"}
Owned == ServicesHold \/ PollerHolds \/ conns > 0

ChildGone ==
    /\ child' = IF child \in Living THEN "dead" ELSE child
    /\ answerer' = IF answerer = "daemon" THEN "nobody" ELSE answerer

\* Without kill_on_drop nobody stops the child.
LetGoOnly(held) == UNCHANGED childVars

\* An owner is dropped; held says that another is left.
LetGo(held) == IF held THEN UNCHANGED childVars ELSE ChildGone

-----------------------------------------------------------------------------
(* run_services and Daemon::start_with *)

ServicesFrame == UNCHANGED <<stdin, loopVars>>

\* Everything up to the spawn of the child runs without an await.  The resource
\* root, the free port, the config file or the spawn may fail.
StartServices ==
    /\ Up /\ services = "new"
    /\ \/ /\ services' = "ended"
          /\ events' = events \o <<"starting", "failed">>
          /\ UNCHANGED child
       \/ services' = "connecting" /\ child' = "spawned" /\ Post("starting")
    /\ UNCHANGED <<late, poller, conns, answerer>>
    /\ ServicesFrame

DeadlinePasses ==
    /\ services = "connecting" /\ ~late
    /\ late' = TRUE
    /\ UNCHANGED <<services, poller, conns, childVars, events>>
    /\ ServicesFrame

\* connect_with_retry: whoever listens on the port is taken for the daemon.
Connect ==
    /\ Up /\ services = "connecting"
    /\ answerer # "nobody"
    /\ services' = "handshaking"
    /\ UNCHANGED <<late, poller, conns, childVars, events>>
    /\ ServicesFrame

\* start_with returns an error: the Child goes first, then Failed is reported.
StartFails ==
    /\ services' = "ended"
    /\ LetGo(FALSE)
    /\ Post("failed")
    /\ UNCHANGED <<late, poller, conns>>
    /\ ServicesFrame

\* A refused attempt is repeated until the deadline has passed.
ConnectRefused ==
    /\ Up /\ services = "connecting"
    /\ answerer = "nobody" /\ late
    /\ StartFails

\* Create and Init, without a timeout.  A stranger may be another arduino-cli.
Handshake ==
    /\ Up /\ services = "handshaking"
    /\ \/ /\ answerer # "nobody"
          /\ services' = "binding"
          /\ UNCHANGED <<late, poller, conns, childVars, events>>
          /\ ServicesFrame
       \/ StartFails

\* The WS port; Running is reported and the poller spawned before the server
\* accepts.  On failure the Daemon is dropped after Failed has been reported.
Bind ==
    /\ Up /\ services = "binding"
    /\ \/ services' = "discovering" /\ poller' = "idle" /\ Post("running")
       \/ services' = "failing" /\ UNCHANGED poller /\ Post("failed")
    /\ UNCHANGED <<late, conns, childVars>>
    /\ ServicesFrame

ReturnFromBind ==
    /\ Up /\ services = "failing"
    /\ services' = "ended"
    /\ LetGo(FALSE)
    /\ UNCHANGED <<late, poller, conns, events>>
    /\ ServicesFrame

\* router::serve: the adapter is looked for, then the server runs.  local_addr
\* may fail; axum::serve does not return.
Serve ==
    /\ Up /\ services = "discovering"
    /\ \/ services' = "serving" /\ UNCHANGED <<events, childVars>>
       \/ services' = "ended" /\ LetGo(PollerHolds) /\ Post("failed")
    /\ UNCHANGED <<late, poller, conns>>
    /\ ServicesFrame

\* A session lives in a task of its own and owns the Daemon until it ends.
BrowserConnects ==
    /\ Up /\ services = "serving" /\ conns < MaxConns
    /\ conns' = conns + 1
    /\ UNCHANGED <<services, late, poller, childVars, events>>
    /\ ServicesFrame

SessionEnds ==
    /\ Up /\ conns > 0
    /\ conns' = conns - 1
    /\ LetGo(ServicesHold \/ PollerHolds \/ conns > 1)
    /\ UNCHANGED <<services, late, poller, events>>
    /\ ServicesFrame

-----------------------------------------------------------------------------
(* poll_telemetry *)

PollTick ==
    /\ Up /\ poller = "idle"
    /\ Len(events) < MaxPending
    /\ poller' = "probing"
    /\ UNCHANGED <<services, late, conns, childVars, events>>
    /\ ServicesFrame

ReportUnlessFailed(report) ==
    /\ Up /\ poller = "probing"
    /\ poller' = "idle"
    /\ IF report = "healthy" THEN Post(report) ELSE UNCHANGED events
    /\ UNCHANGED <<services, late, conns, childVars>>
    /\ ServicesFrame

Report(report) ==
    /\ Up /\ poller = "probing"
    /\ poller' = "idle"
    /\ Post(report)
    /\ UNCHANGED <<services, late, conns, childVars>>
    /\ ServicesFrame

ProbeAnswered == answerer # "nobody" /\ Report("healthy")
ProbeFails    == Report("unhealthy")
\* Nobody listens any more: the call fails by itself.
ProbeRefused  == answerer = "nobody" /\ ProbeFails

-----------------------------------------------------------------------------
(* The child process and the port, as far as the helper relies on them *)

ChildFrame == UNCHANGED <<taskVars, stdin, events, loopVars>>

\* The daemon binds the port it was given, or finds it taken and exits.
ChildBinds ==
    /\ child = "spawned"
    /\ IF answerer = "nobody"
       THEN child' = "listening" /\ answerer' = "daemon"
       ELSE child' = "dead" /\ UNCHANGED answerer
    /\ ChildFrame

ChildDies ==
    /\ child \in Living
    /\ ChildGone
    /\ ChildFrame

\* Another process takes the port while it is free.
StrangerBinds ==
    /\ services \notin {"new", "dropped"} /\ answerer = "nobody"
    /\ answerer' = "stranger"
    /\ UNCHANGED child
    /\ ChildFrame

-----------------------------------------------------------------------------
(* Users and the desktop shell *)

UserFrame == UNCHANGED <<taskVars, childVars, loopVars>>

\* Show Status or Quit in the tray's menu, or Quit in the window.
Click(c) ==
    /\ loop = "running" /\ Len(events) < MaxPending
    /\ Post(c)
    /\ UNCHANGED stdin
    /\ UserFrame

\* Any bytes or EOF.
ShellSignals ==
    /\ Up /\ stdin = "open"
    /\ stdin' = "closed"
    /\ UNCHANGED events
    /\ UserFrame

WatchStdin ==
    /\ Up /\ stdin = "closed"
    /\ stdin' = "seen"
    /\ Post("quit")
    /\ UserFrame

-----------------------------------------------------------------------------
(* The event loop *)

LoopFrame == UNCHANGED <<taskVars, childVars, stdin>>

BuildTray ==
    /\ loop = "starting"
    /\ loop' = "running"
    /\ menu' = "starting"
    /\ UNCHANGED <<events, lastStatus, lastReport, window>>
    /\ LoopFrame

\* The next user event is e.
Takes(e) ==
    /\ loop = "running" /\ events # <<>>
    /\ e = Head(events)
    /\ events' = Tail(events)
    /\ LoopFrame

\* The wrong function of the page is called.
HandleStatusMisdirected ==
    /\ \E status \in Statuses :
          /\ Takes(status)
          /\ lastStatus' = status
          /\ menu' = status
          /\ window' = IF window = None THEN None
                       ELSE [window EXCEPT !.report = status]
    /\ UNCHANGED <<loop, lastReport>>

HandleStatus ==
    /\ \E status \in Statuses :
          /\ Takes(status)
          /\ lastStatus' = status
          /\ menu' = status
          /\ window' = IF window = None THEN None
                       ELSE [window EXCEPT !.status = status]
    /\ UNCHANGED <<loop, lastReport>>

HandleTelemetry ==
    /\ \E report \in Reports :
          /\ Takes(report)
          /\ lastReport' = report
          /\ window' = IF window = None THEN None
                       ELSE [window EXCEPT !.report = report]
    /\ UNCHANGED <<loop, lastStatus, menu>>

HandleShowFresh ==
    /\ Takes("show")
    /\ window' = IF window = None
                 THEN [status |-> "starting", report |-> "unhealthy", visible |-> TRUE]
                 ELSE [window EXCEPT !.visible = TRUE]
    /\ UNCHANGED <<loop, lastStatus, lastReport, menu>>

\* The window is built on first use, painted with what the loop has cached.
HandleShow ==
    /\ Takes("show")
    /\ window' = IF window = None
                 THEN [status |-> lastStatus, report |-> lastReport, visible |-> TRUE]
                 ELSE [window EXCEPT !.visible = TRUE]
    /\ UNCHANGED <<loop, lastStatus, lastReport, menu>>

\* Closing only hides; the window goes on being updated.
CloseWindow ==
    /\ loop = "running" /\ window # None
    /\ window' = [window EXCEPT !.visible = FALSE]
    /\ UNCHANGED <<events, loop, lastStatus, lastReport, menu>>
    /\ LoopFrame

\* shutdown: the runtime is told to stop without being waited for, and the loop
\* to exit.
Shutdown ==
    /\ Takes("quit")
    /\ loop' = "exiting"
    /\ UNCHANGED <<lastStatus, lastReport, menu, window>>

ExitFrame == UNCHANGED <<events, lastStatus, lastReport, menu, window>> /\ LoopFrame

\* Dropping the runtime instead would wait for its blocking thread, which reads
\* stdin until the shell writes to it.
ExitWhenStdinRead ==
    /\ loop = "exiting" /\ stdin # "open"
    /\ loop' = "exited"
    /\ ExitFrame

\* tao ends the process.
Exit ==
    /\ loop = "exiting"
    /\ loop' = "exited"
    /\ ExitFrame

Loop == \/ BuildTray \/ HandleStatus \/ HandleTelemetry \/ HandleShow
        \/ CloseWindow \/ Shutdown \/ Exit

\* The workers of a runtime that was told to stop drop its tasks, each at the
\* await it stands at, if the process lives long enough.
DropServices ==
    /\ loop = "exiting" /\ services \notin {"ended", "dropped"}
    /\ services' = "dropped"
    /\ IF services = "new" THEN UNCHANGED childVars
       ELSE LetGo(PollerHolds \/ conns > 0)
    /\ UNCHANGED <<late, poller, conns, events>>
    /\ ServicesFrame

DropPoller ==
    /\ loop = "exiting" /\ PollerHolds
    /\ poller' = "dropped"
    /\ LetGo(ServicesHold \/ conns > 0)
    /\ UNCHANGED <<services, late, conns, events>>
    /\ ServicesFrame

-----------------------------------------------------------------------------
(* Specification *)

Init ==
    /\ services = "new" /\ late = FALSE
    /\ child = "none" /\ answerer = "nobody"
    /\ poller = "none" /\ conns = 0
    /\ stdin = "open" /\ events = <<>>
    /\ loop = "starting"
    /\ lastStatus = "starting" /\ lastReport = "unhealthy"
    /\ menu = None /\ window = None

Services == \/ StartServices \/ DeadlinePasses \/ Connect \/ ConnectRefused
            \/ Handshake \/ Bind \/ ReturnFromBind \/ Serve
            \/ BrowserConnects \/ SessionEnds
            \/ DropServices \/ DropPoller

Poller == PollTick \/ ProbeAnswered \/ ProbeFails

Outside == \/ ChildBinds \/ ChildDies \/ StrangerBinds \/ ShellSignals
           \/ \E c \in Clicks : Click(c)

Terminated == loop = "exited" /\ UNCHANGED vars

Next == Services \/ Poller \/ Outside \/ WatchStdin \/ Loop \/ Terminated

Spec == Init /\ [][Next]_vars

\* The main thread handles its events, the runtime polls its tasks and its
\* timers fire, and a call to a port where nobody listens fails.  Nobody is
\* assumed to answer a handshake or a probe.
Fairness ==
    /\ WF_vars(BuildTray) /\ WF_vars(HandleStatus) /\ WF_vars(HandleTelemetry)
    /\ WF_vars(HandleShow) /\ WF_vars(Shutdown) /\ WF_vars(Exit)
    /\ WF_vars(WatchStdin) /\ WF_vars(DeadlinePasses)
    /\ WF_vars(Connect) /\ WF_vars(ConnectRefused)
    /\ SF_vars(PollTick) /\ WF_vars(ProbeRefused)

FairSpec == Spec /\ Fairness

-----------------------------------------------------------------------------
(* Properties *)

\* Every variable keeps its range; the window holds a status where the page shows
\* the status, and a report where it shows the report.
TypeOK ==
    /\ services \in ServiceSteps /\ late \in BOOLEAN
    /\ child \in {"none", "spawned", "listening", "dead"}
    /\ answerer \in {"nobody", "daemon", "stranger"}
    /\ poller \in {"none", "idle", "probing", "dropped"}
    /\ conns \in 0..MaxConns
    /\ stdin \in {"open", "closed", "seen"}
    /\ events \in Seq(Events)
    /\ loop \in {"starting", "running", "exiting", "exited"}
    /\ lastStatus \in Statuses /\ lastReport \in Reports
    /\ menu \in Statuses \cup {None}
    /\ window \in Windows \cup {None}

\* As long as the helper runs, a living arduino-cli has an owner whose drop will
\* kill it: a start that fails at any point, and a server that stops, leave no
\* process behind (daemon.rs, "Held only so kill_on_drop kills the daemon").
LivingChildIsOwned == Up /\ child \in Living => Owned

\* The user has been shown st, or is about to be: it is the last status reported.
Told(st) ==
    \/ \E i \in DOMAIN events :
          /\ events[i] = st
          /\ \A j \in DOMAIN events : j > i => events[j] \notin Statuses
    \/ lastStatus = st /\ \A j \in DOMAIN events : events[j] \notin Statuses

\* Each outcome of the services reaches the user: once the queue is handled the
\* menu says where they stand, and the window, built early, late or hidden
\* meanwhile, shows what the menu and the last telemetry say (tray.rs).
ShownIsTrue ==
    /\ services \in {"connecting", "handshaking", "binding"} => Told("starting")
    /\ services \in {"discovering", "serving"} => Told("running")
    /\ services \in {"failing", "ended"} => Told("failed")
    /\ menu # None => menu = lastStatus
    /\ window # None => /\ window.status = lastStatus
                        /\ window.report = lastReport

\* Quit, from the menu, the window or the shell's stdin, ends the process, also
\* while the daemon hangs in a call or stdin stays open (tray.rs, shutdown).
QuitEnds == "quit" \in ToSet(events) \/ stdin = "closed" ~> loop = "exited"

\* Dialing the daemon comes to an end though the daemon never listens or dies
\* before it does (daemon.rs, CONNECT_TIMEOUT).
DialingEnds == services = "connecting" ~> services # "connecting" \/ ~Up

\* A daemon that died for good is shown as unhealthy from some time on, even if
\* it died in the middle of a probe (tray.rs, poll_telemetry).
DeathIsShown ==
    <>[](loop = "running" /\ poller # "none" /\ answerer = "nobody")
        => <>[](lastReport = "unhealthy")

\* A daemon that is not there is found out: at the start, where dialing it ends,
\* and later, when the user comes to see that it died.
AbsenceIsNoticed == DialingEnds /\ DeathIsShown

-----------------------------------------------------------------------------
(* What a comment of the code says that the code does not do *)

\* "Dropping the runtime drops the last Arc<Daemon>, whose kill_on_drop reaps the
\* arduino-cli daemon" (tray.rs): no child survives the helper.
ReapedOnQuit == loop = "exited" => child \notin Living

=============================================================================
