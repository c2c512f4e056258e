--------------------------- MODULE SerialMonitor ---------------------------
(***************************************************************************)
(* The serial monitor of the flash sessions: monitorOpen, monitorWrite and *)
(* monitorClose (bridge.rs), the slot for one monitor in the session       *)
(* (server/session.rs), the commands that flow to the daemon and the pump  *)
(* that forwards what comes back (grpc/monitor.rs).  The read loop of a    *)
(* session awaits each of these requests.                                  *)
(*                                                                         *)
(* Monitors are numbered in the order of their monitorOpen; 0 stands for   *)
(* none.  The bytes are left out.  A request that is refused at once (an   *)
(* open while a monitor is in the slot, a write with none), or a close with*)
(* none, changes no state.  Sending to the browser takes time and is       *)
(* otherwise left to ResponseWriter.                                       *)
(***************************************************************************)
EXTENDS Naturals, Sequences

CONSTANTS
    Sessions,   \* WebSocket connections
    Ports,      \* serial ports
    Capacity,   \* MONITOR_COMMAND_CAPACITY
    Window,     \* bound on the events on the way from the daemon
    MaxOpens,   \* bound on the monitorOpen requests
    None

ASSUME BoundsAssumption ==
    /\ Capacity \in Nat \ {0} /\ Window \in Nat \ {0} /\ MaxOpens \in Nat
    /\ None \notin Sessions /\ None \notin Ports

Monitors == 1..MaxOpens

VARIABLES
    loop,     \* loop[s]: what the read loop does, see Loops
    gone,     \* gone[s]: the loop has seen its browser leave
    slot,     \* slot[s]: the monitor in Session::monitor, or 0
    cur,      \* cur[s]: the monitor being opened or closed, or 0
    opens,    \* the number of monitors asked for so far
    owner,    \* owner[m]: the session that asked for m
    wanted,   \* wanted[m]: the port it asked for
    cmds,     \* cmds[m]: commands not yet taken by the daemon
    call,     \* call[m]: the Monitor call as the helper has it, see Calls
    daemon,   \* daemon[m]: the call as the daemon has it
    events,   \* events[m]: what the daemon sent and nobody has taken
    pump,     \* pump[m]: the task that forwards it
    port,     \* port[p]: the monitor the daemon has opened p for, or 0
    answers   \* answers[m]: the terminals sent under the id of m's monitorOpen

loopVars   == <<loop, gone, slot, cur>>
openVars   == <<opens, owner, wanted>>
daemonVars == <<daemon, events, port>>
vars == <<loopVars, openVars, cmds, call, daemonVars, pump, answers>>

Loops == {"reading",
          "calling", "confirming",   \* monitorOpen
          "writing",                 \* monitorWrite, waits for room
          "asking", "joining",       \* close_monitor
          "closed"}

\* The helper holds both directions, has sent Close and ended its own, or has
\* dropped the stream, which cancels the call and drops the receiver of cmds.
Calls == {"none", "open", "halfClosed", "dropped"}

-----------------------------------------------------------------------------
(* monitorOpen *)

StartOpen(s, p) ==
    /\ loop[s] = "reading"
    /\ opens < MaxOpens
    /\ opens' = opens + 1
    /\ owner' = [owner EXCEPT ![opens'] = s]
    /\ wanted' = [wanted EXCEPT ![opens'] = p]
    /\ call' = [call EXCEPT ![opens'] = "open"]
    /\ daemon' = [daemon EXCEPT ![opens'] = "called"]
    /\ cur' = [cur EXCEPT ![s] = opens']
    /\ loop' = [loop EXCEPT ![s] = "calling"]
    /\ UNCHANGED <<gone, slot, cmds, events, pump, port, answers>>

OpenAnyway(s, p) == StartOpen(s, p)
Open(s, p) == slot[s] = 0 /\ StartOpen(s, p)

\* The open fails: its error is the terminal and the stream is dropped.
FailOpen(s) ==
    /\ answers' = [answers EXCEPT ![cur[s]] = Append(@, "error")]
    /\ call' = [call EXCEPT ![cur[s]] = "dropped"]
    /\ cur' = [cur EXCEPT ![s] = 0]
    /\ loop' = [loop EXCEPT ![s] = "reading"]
    /\ UNCHANGED <<slot, pump>>

CallReturns(s) ==
    /\ loop[s] = "calling"
    /\ \/ loop' = [loop EXCEPT ![s] = "confirming"]
          /\ UNCHANGED <<slot, cur, call, pump, answers>>
       \/ FailOpen(s)
    /\ UNCHANGED <<gone, openVars, cmds, daemonVars>>

\* The first event decides.  With Opened the browser is answered, the pump
\* spawned and the monitor put into the slot.
Confirm(s) ==
    LET m == cur[s] IN
    /\ loop[s] = "confirming"
    /\ \/ /\ events[m] # <<>>
          /\ Head(events[m]) = "opened"
          /\ events' = [events EXCEPT ![m] = Tail(@)]
          /\ answers' = [answers EXCEPT ![m] = Append(@, "result")]
          /\ pump' = [pump EXCEPT ![m] = "pumping"]
          /\ slot' = [slot EXCEPT ![s] = m]
          /\ cur' = [cur EXCEPT ![s] = 0]
          /\ loop' = [loop EXCEPT ![s] = "reading"]
          /\ UNCHANGED call
       \/ /\ IF events[m] = <<>> THEN daemon[m] = "over"
                                 ELSE Head(events[m]) # "opened"
          /\ FailOpen(s)
          /\ UNCHANGED events
    /\ UNCHANGED <<gone, openVars, cmds, daemon, port>>

-----------------------------------------------------------------------------
(* monitorWrite and close_monitor *)

CommandFrame == UNCHANGED <<gone, openVars, call, daemonVars, pump, answers>>

SendUnbounded(m, command) ==
    cmds' = [cmds EXCEPT ![m] = IF call[m] = "dropped" THEN @ ELSE Append(@, command)]

\* mpsc::Sender::send: it waits for room, or fails once the receiver is gone.
Send(m, command) ==
    \/ call[m] # "dropped" /\ Len(cmds[m]) < Capacity
       /\ cmds' = [cmds EXCEPT ![m] = Append(@, command)]
    \/ call[m] = "dropped" /\ UNCHANGED cmds

ReceiveWrite(s) ==
    /\ loop[s] = "reading"
    /\ slot[s] # 0
    /\ loop' = [loop EXCEPT ![s] = "writing"]
    /\ UNCHANGED <<slot, cur, cmds>>
    /\ CommandFrame

Write(s) ==
    /\ loop[s] = "writing"
    /\ Send(slot[s], "write")
    /\ loop' = [loop EXCEPT ![s] = "reading"]
    /\ UNCHANGED <<slot, cur>>
    /\ CommandFrame

\* The slot is emptied first.
TakeMonitor(s) ==
    /\ loop[s] = "reading"
    /\ slot[s] # 0
    /\ cur' = [cur EXCEPT ![s] = slot[s]]
    /\ slot' = [slot EXCEPT ![s] = 0]
    /\ loop' = [loop EXCEPT ![s] = "asking"]
    /\ UNCHANGED <<openVars, cmds, call, daemonVars, pump, answers>>

Close(s) == TakeMonitor(s) /\ UNCHANGED gone

\* The browser has gone; the monitor is closed before anything else.
Leave(s) ==
    /\ gone' = [gone EXCEPT ![s] = TRUE]
    /\ \/ TakeMonitor(s)
       \/ /\ loop[s] = "reading"
          /\ slot[s] = 0
          /\ loop' = [loop EXCEPT ![s] = "closed"]
          /\ UNCHANGED <<slot, cur, openVars, cmds, call, daemonVars, pump, answers>>

AskClose(s) ==
    /\ loop[s] = "asking"
    /\ Send(cur[s], "close")
    /\ loop' = [loop EXCEPT ![s] = "joining"]
    /\ UNCHANGED <<slot, cur>>
    /\ CommandFrame

ReturnFromClose(s) ==
    /\ loop[s] = "joining"
    /\ cur' = [cur EXCEPT ![s] = 0]
    /\ loop' = [loop EXCEPT ![s] = IF gone[s] THEN "closed" ELSE "reading"]
    /\ UNCHANGED <<slot, cmds>>
    /\ CommandFrame

JoinAtOnce(s) == ReturnFromClose(s)

\* The pump is joined; a monitorClose is answered `result {}` only then.
Join(s) == ReturnFromClose(s) /\ pump[cur[s]] = "ended"

-----------------------------------------------------------------------------
(* The pump *)

PumpFrame == UNCHANGED <<loopVars, openVars, cmds, daemon, port>>

PumpTakes(m) ==
    /\ pump[m] = "pumping"
    /\ events[m] # <<>>
    /\ events' = [events EXCEPT ![m] = Tail(@)]
    /\ pump' = [pump EXCEPT ![m] =
                   IF Head(events[m]) = "error" THEN "failing" ELSE "sending"]
    /\ UNCHANGED <<call, answers>>
    /\ PumpFrame

PumpSends(m) ==
    /\ pump[m] = "sending"
    /\ pump' = [pump EXCEPT ![m] = "pumping"]
    /\ UNCHANGED <<call, events, answers>>
    /\ PumpFrame

PumpFailsKeepingCall(m) ==
    /\ pump[m] = "failing"
    /\ pump' = [pump EXCEPT ![m] = "ended"]
    /\ answers' = [answers EXCEPT ![m] = Append(@, "error")]
    /\ UNCHANGED <<call, events>>
    /\ PumpFrame

PumpFailsGoingOn(m) ==
    /\ pump[m] = "failing"
    /\ pump' = [pump EXCEPT ![m] = "pumping"]
    /\ answers' = [answers EXCEPT ![m] = Append(@, "error")]
    /\ UNCHANGED <<call, events>>
    /\ PumpFrame

\* A port error ends the pump with an error under the id of monitorOpen; the
\* stream is dropped with it.  The slot is not told.
PumpFails(m) ==
    /\ pump[m] = "failing"
    /\ pump' = [pump EXCEPT ![m] = "ended"]
    /\ answers' = [answers EXCEPT ![m] = Append(@, "error")]
    /\ call' = [call EXCEPT ![m] = "dropped"]
    /\ UNCHANGED events
    /\ PumpFrame

\* A clean end is silent.
PumpEnds(m) ==
    /\ pump[m] = "pumping"
    /\ events[m] = <<>>
    /\ daemon[m] = "over"
    /\ pump' = [pump EXCEPT ![m] = "ended"]
    /\ call' = [call EXCEPT ![m] = "dropped"]
    /\ UNCHANGED <<events, answers>>
    /\ PumpFrame

-----------------------------------------------------------------------------
(* The daemon, as far as the helper relies on it: it opens a port for one    *)
(* monitor at a time, says so first, and has closed it when it ends a call.  *)

DaemonFrame == UNCHANGED <<loopVars, openVars, pump, answers>>

Tell(m, event) == events' = [events EXCEPT ![m] = Append(@, event)]
Over(m) ==
    /\ daemon' = [daemon EXCEPT ![m] = "over"]
    /\ port' = [p \in Ports |-> IF port[p] = m THEN 0 ELSE port[p]]

DaemonOpens(m) ==
    /\ daemon[m] = "called"
    /\ port[wanted[m]] = 0
    /\ port' = [port EXCEPT ![wanted[m]] = m]
    /\ daemon' = [daemon EXCEPT ![m] = "serving"]
    /\ Tell(m, "opened")
    /\ UNCHANGED <<cmds, call>>
    /\ DaemonFrame

\* The port is taken, missing or broken.
DaemonRefuses(m) ==
    /\ daemon[m] = "called"
    /\ Over(m)
    /\ Tell(m, "error") \/ UNCHANGED events
    /\ UNCHANGED <<cmds, call>>
    /\ DaemonFrame

DaemonData(m) ==
    /\ daemon[m] = "serving"
    /\ Len(events[m]) < Window
    /\ Tell(m, "data")
    /\ UNCHANGED <<daemon, port, cmds, call>>
    /\ DaemonFrame

\* outbound_stream: after a Close it yields nothing more.
DaemonReads(m) ==
    /\ daemon[m] = "serving"
    /\ call[m] = "open"
    /\ cmds[m] # <<>>
    /\ cmds' = [cmds EXCEPT ![m] = Tail(@)]
    /\ IF Head(cmds[m]) = "close"
       THEN Over(m) /\ call' = [call EXCEPT ![m] = "halfClosed"]
       ELSE UNCHANGED <<daemon, port, call>>
    /\ UNCHANGED events
    /\ DaemonFrame

\* The board vanishes, with or without an error in the stream.
PortFails(m) ==
    /\ daemon[m] = "serving"
    /\ Over(m)
    /\ Tell(m, "error") \/ UNCHANGED events
    /\ UNCHANGED <<cmds, call>>
    /\ DaemonFrame

SeesCallDropped(m) ==
    /\ daemon[m] \in {"called", "serving"}
    /\ call[m] = "dropped"
    /\ Over(m)
    /\ UNCHANGED <<events, cmds, call>>
    /\ DaemonFrame

-----------------------------------------------------------------------------
(* Specification *)

Init ==
    /\ loop = [s \in Sessions |-> "reading"]
    /\ gone = [s \in Sessions |-> FALSE]
    /\ slot = [s \in Sessions |-> 0]
    /\ cur = [s \in Sessions |-> 0]
    /\ opens = 0
    /\ owner = [m \in Monitors |-> None]
    /\ wanted = [m \in Monitors |-> None]
    /\ cmds = [m \in Monitors |-> <<>>]
    /\ call = [m \in Monitors |-> "none"]
    /\ daemon = [m \in Monitors |-> "none"]
    /\ events = [m \in Monitors |-> <<>>]
    /\ pump = [m \in Monitors |-> "none"]
    /\ port = [p \in Ports |-> 0]
    /\ answers = [m \in Monitors |-> <<>>]

Terminated == (\A s \in Sessions : loop[s] = "closed") /\ UNCHANGED vars

Next ==
    \/ \E s \in Sessions :
          \/ \E p \in Ports : Open(s, p)
          \/ CallReturns(s) \/ Confirm(s) \/ ReceiveWrite(s) \/ Write(s)
          \/ Close(s) \/ Leave(s) \/ AskClose(s) \/ Join(s)
    \/ \E m \in Monitors :
          \/ PumpTakes(m) \/ PumpSends(m) \/ PumpFails(m) \/ PumpEnds(m)
          \/ DaemonOpens(m) \/ DaemonRefuses(m) \/ DaemonData(m)
          \/ DaemonReads(m) \/ PortFails(m) \/ SeesCallDropped(m)
    \/ Terminated

Spec == Init /\ [][Next]_vars

\* Fairness.  The loop and the pump are scheduled and the browser's side of the
\* channel moves; the daemon answers an open, reads its commands, and sees a
\* call that was dropped.  Nothing makes data come or a port fail.
Fairness ==
    /\ \A s \in Sessions :
          WF_vars(CallReturns(s) \/ Confirm(s) \/ Write(s) \/ AskClose(s) \/ Join(s))
    /\ \A m \in Monitors :
          /\ WF_vars(PumpTakes(m) \/ PumpSends(m) \/ PumpFails(m) \/ PumpEnds(m))
          /\ WF_vars(DaemonOpens(m) \/ DaemonRefuses(m))
          /\ WF_vars(DaemonReads(m)) /\ WF_vars(SeesCallDropped(m))

FairSpec == Spec /\ Fairness

-----------------------------------------------------------------------------
(* Properties *)

\* Every variable stays in its range; at most MONITOR_COMMAND_CAPACITY commands
\* wait in the channel of a monitor.
TypeOK ==
    /\ loop \in [Sessions -> Loops]
    /\ gone \in [Sessions -> BOOLEAN]
    /\ slot \in [Sessions -> {0} \cup Monitors]
    /\ cur \in [Sessions -> {0} \cup Monitors]
    /\ opens \in {0} \cup Monitors
    /\ owner \in [Monitors -> Sessions \cup {None}]
    /\ wanted \in [Monitors -> Ports \cup {None}]
    /\ cmds \in [Monitors -> Seq({"write", "close"})]
    /\ \A m \in Monitors : Len(cmds[m]) <= Capacity
    /\ call \in [Monitors -> Calls]
    /\ daemon \in [Monitors -> {"none", "called", "serving", "over"}]
    /\ events \in [Monitors -> Seq({"opened", "data", "error"})]
    /\ pump \in [Monitors -> {"none", "pumping", "sending", "failing", "ended"}]
    /\ port \in [Ports -> {0} \cup Monitors]
    /\ answers \in [Monitors -> Seq({"result", "error"})]

\* A pump that runs is that of the monitor in its session's slot or of the one
\* being closed: a session has one at most, and after the `result {}` of a
\* monitorClose no monitorData and no error follows.
PumpBelongs ==
    \A m \in Monitors :
        pump[m] \in {"pumping", "sending", "failing"} =>
            LET s == owner[m] IN
            \/ slot[s] = m
            \/ cur[s] = m /\ loop[s] \in {"asking", "joining"}

\* What the browser knows of monitor m: the answers under the id of its
\* monitorOpen, and whether its session still has it.
Stage(m) ==
    LET kept == m \in {slot[owner[m]], cur[owner[m]]} IN
    CASE m > opens                                   -> "unasked"
      [] m <= opens /\ answers[m] = <<>>             -> "asked"
      [] answers[m] = <<"error">>                    -> "refused"
      [] answers[m] = <<"result">> /\ kept           -> "open"
      [] answers[m] = <<"result", "error">> /\ kept  -> "lost"
      [] OTHER                                       -> "closed"

\* The serial monitor keeps the promise of PortLease, however opens, port errors
\* and closes cross: above all, a close is answered when the daemon has let go of
\* the port, and not before (session.rs, close_monitor).
Lease == INSTANCE PortLease WITH
    stage  <- [m \in Monitors |-> Stage(m)],
    holder <- port

LeaseKept == Lease!Safe

\* A monitorOpen is answered when its handler returns and not before, with `result`
\* or with an error.  A port that fails later adds one error under that id; after
\* an error nothing more is forwarded, and the helper holds no call (bridge.rs,
\* open_monitor and monitor_pump).
OpenAnswered ==
    \A m \in 1..opens :
        /\ answers[m] = <<>>
              <=> cur[owner[m]] = m /\ loop[owner[m]] \in {"calling", "confirming"}
        /\ answers[m] \in {<<>>, <<"result">>, <<"error">>, <<"result", "error">>}
        /\ answers[m] \in {<<"error">>, <<"result", "error">>}
              => pump[m] \in {"none", "ended"} /\ call[m] = "dropped"

\* No request keeps the read loop of a session for ever: not a write into a
\* channel that nobody reads any more, nor a close that crosses a port error.
LoopReturns ==
    \A s \in Sessions :
        loop[s] \notin {"reading", "closed"} ~> loop[s] \in {"reading", "closed"}

\* When the browser goes, the ports its session had are released.
PortsReleased ==
    \A s \in Sessions, p \in Ports :
        gone[s] ~> (port[p] = 0 \/ owner[port[p]] # s)

\* Nothing that is to end hangs: no request of a browser that is there, and no
\* port of one that has left (session.rs, close_monitor).
MonitorsLetGo == LoopReturns /\ PortsReleased
=============================================================================
