----------------------------- MODULE FlashTasks -----------------------------
(***************************************************************************)
(* The flash channel of the helper: the WebSocket sessions, the tasks each *)
(* session spawns (compile, upload, flashFirmware, installPlatform), the   *)
(* registry of cancellation tokens, the daemon-wide install lock, and the  *)
(* teardown of a session whose browser has gone.                           *)
(*                                                                         *)
(* A request OCCURRENCE r is a record: the session it arrives on, the id   *)
(* of its envelope, its type, and a number telling apart occurrences that  *)
(* agree on the rest.  A task is named by the occurrence that spawned it.  *)
(* The token of a task is the Boolean cancelled[r].  The content of the    *)
(* response channel is abstracted to its length (ResponseWriter models the *)
(* content); the number of log and progress messages of a task is not      *)
(* bounded, they are not remembered.                                       *)
(***************************************************************************)
EXTENDS Naturals, Sequences

CONSTANTS
    Sessions,     \* WebSocket connections
    Ids,          \* envelope ids, sequences of characters
    Alnum,        \* the ASCII letters and digits among those characters
    Requests,     \* the request occurrences that may arrive
    Capacity,     \* RESPONSE_CHANNEL_CAPACITY
    IdDiscipline, \* how the browser picks ids, see MayUseId
    None

SpawnedKinds == {"compile", "upload", "flashFirmware", "installPlatform"}
InlineKinds  == {"listBoards"}
Kinds        == SpawnedKinds \cup InlineKinds

ASSUME RequestsAssumption ==
    Requests \subseteq [session : Sessions, id : Ids, kind : Kinds, nth : Nat]

ASSUME CapacityAssumption == Capacity \in Nat \ {0}

ASSUME IdsAssumption ==
    /\ \A i \in Ids : i \in Seq(STRING)
    /\ IdDiscipline \in {"fresh", "afterTerminal"}

\* Wire codes of the terminal messages: success, or Error::code().
Codes == {"result", "invalidRequest", "daemon", "grpc", "cancelled",
          "resource", "io"}

ASSUME NoneAssumption == None \notin Requests /\ None \notin Codes

Phases == {"absent",                   \* has not arrived
           "awaiting", "answering",    \* handled inline by the read loop
           "writing", "opening", "streaming", "logging", "reiniting",
           "replying", "replied", "deregistered",
           "done"}

VARIABLES
    phase,      \* phase[r]: where the handling of r stands
    reply,      \* reply[r]: the terminal code r has decided on, or None
    answers,    \* answers[r]: the terminals handed to the responder so far
    cancelled,  \* cancelled[r]: r's CancellationToken has been fired
    inFlight,   \* inFlight[s][id]: the task whose token is registered, or None
    lock,       \* the install task that owns Daemon::install_lock, or None
    loop,       \* loop[s]: the read loop of a session, see Loops
    socket,     \* socket[s]: "open", or "gone" once the browser has left
    writer,     \* writer[s]: "running" or "ended", the writer task
    queued,     \* queued[s]: responses in the channel to the writer
    scratch,    \* scratch[s]: the session's temp dir
    sketch,     \* sketch[s]: the source each sketch folder holds
    built,      \* built[r]: the source the daemon read for compile r, or None
    onDisk,     \* the installs the daemon has written to its data dir
    loaded      \* the installs its instance has seen, at its last Init

taskVars    == <<phase, reply, answers, cancelled, inFlight, lock>>
sessionVars == <<loop, socket, writer, queued, scratch>>
sketchVars  == <<sketch, built>>
daemonVars  == <<onDisk, loaded>>
vars == <<taskVars, sessionVars, sketchVars, daemonVars>>

Loops == {"reading", "joining", "closed"}

-----------------------------------------------------------------------------
(* Helpers *)

Of(s) == {r \in Requests : r.session = s}

\* The read loop handles one frame at a time: it takes the next only when no
\* request of its session is being answered inline.
IdleLoop(s) ==
    /\ loop[s] = "reading"
    /\ \A r \in Of(s) : phase[r] \notin {"awaiting", "answering"}

\* A spawned task between its spawn and the return of run_compile, run_upload
\* or run_install; it owns its Responder, its TempDir handle and its guard.
Alive(r) == phase[r] \in {"writing", "opening", "streaming", "logging",
                          "reiniting", "replying", "replied", "deregistered"}

\* An alive task whose terminal has not been handed over.
Running(r) == Alive(r) /\ phase[r] \notin {"replied", "deregistered"}

\* mpsc::Sender::send returns at once when the receiver is gone and waits for
\* room otherwise.
CanSend(s) == writer[s] = "ended" \/ queued[s] < Capacity
Enqueue(s) == queued' = IF writer[s] = "ended" THEN queued
                        ELSE [queued EXCEPT ![s] = @ + 1]

\* A sketch folder's name: every character that is not alphanumeric becomes
\* an underscore.
SketchName(id) ==
    [i \in DOMAIN id |-> IF id[i] \in Alnum THEN id[i] ELSE "_"]
SketchNames == {SketchName(id) : id \in Ids}

\* A task decides on its terminal; sending it is a later step.
Decide(r, code) ==
    /\ phase' = [phase EXCEPT ![r] = "replying"]
    /\ reply' = [reply EXCEPT ![r] = code]

GoTo(r, ph) == phase' = [phase EXCEPT ![r] = ph]

\* How the browser chooses the id of the next request of a session:
\*   "fresh"          it never uses an id twice
\*   "afterTerminal"  it may reuse one whose terminal it has been sent
MayUseId(r) ==
    \A q \in Of(r.session) \ {r} :
        q.id = r.id =>
            \/ phase[q] = "absent"
            \/ /\ IdDiscipline = "afterTerminal"
               /\ answers[q] # <<>>
               /\ queued[r.session] = 0

-----------------------------------------------------------------------------
(* Requests arriving on the read loop *)

Arrives(r) == phase[r] = "absent" /\ IdleLoop(r.session) /\ MayUseId(r)

\* The request is answered by the read loop itself; the code is already known.
Refuse(r, code) ==
    /\ phase' = [phase EXCEPT ![r] = "answering"]
    /\ reply' = [reply EXCEPT ![r] = code]
    /\ UNCHANGED <<inFlight, lock, scratch>>

\* HashMap::insert: whatever token the id had is forgotten.
Register(r) == inFlight' = [inFlight EXCEPT ![r.session][r.id] = r]

\* The task's token is registered and its task spawned, in phase ph.
Spawn(r, ph) == GoTo(r, ph) /\ Register(r) /\ UNCHANGED reply

ArrivalFrame == UNCHANGED <<answers, cancelled, loop, socket, writer, queued,
                            sketchVars, daemonVars>>

ReceiveListBoards(r) ==
    /\ r.kind = "listBoards"
    /\ Arrives(r)
    /\ GoTo(r, "awaiting")
    /\ UNCHANGED <<reply, inFlight, lock, scratch>>
    /\ ArrivalFrame

ReceiveCompile(r) ==
    /\ r.kind = "compile"
    /\ Arrives(r)
    /\ \/ \E code \in {"invalidRequest", "resource", "io"} : Refuse(r, code)
       \/ /\ scratch' = [scratch EXCEPT ![r.session] = "present"]
          /\ Spawn(r, "writing")
          /\ UNCHANGED lock
    /\ ArrivalFrame

ReceiveUpload(r) ==
    /\ r.kind = "upload"
    /\ Arrives(r)
    /\ Spawn(r, "opening")
    /\ UNCHANGED <<lock, scratch>>
    /\ ArrivalFrame

ReceiveFlashFirmware(r) ==
    /\ r.kind = "flashFirmware"
    /\ Arrives(r)
    /\ \/ \E code \in {"resource", "io"} : Refuse(r, code)
       \/ Spawn(r, "opening") /\ UNCHANGED <<lock, scratch>>
    /\ ArrivalFrame

\* Refused when the platform id is malformed or the lock is taken.
ReceiveInstall(r) ==
    /\ r.kind = "installPlatform"
    /\ Arrives(r)
    /\ \/ Refuse(r, "invalidRequest")
       \/ /\ lock = None
          /\ lock' = r
          /\ Spawn(r, "opening")
          /\ UNCHANGED scratch
    /\ ArrivalFrame

Receive(r) ==
    \/ ReceiveListBoards(r) \/ ReceiveCompile(r) \/ ReceiveUpload(r)
    \/ ReceiveFlashFirmware(r) \/ ReceiveInstall(r)

\* A cancel names the request by its id and has no reply of its own.
Cancel(s, id) ==
    /\ IdleLoop(s)
    /\ inFlight[s][id] # None
    /\ cancelled' = [cancelled EXCEPT ![inFlight[s][id]] = TRUE]
    /\ UNCHANGED <<phase, reply, answers, inFlight, lock, sessionVars,
                   sketchVars, daemonVars>>

\* The daemon's answer to an inline board_list, during which the loop waits.
DaemonAnswersList(r) ==
    /\ phase[r] = "awaiting"
    /\ \E code \in {"result", "grpc"} :
          /\ phase' = [phase EXCEPT ![r] = "answering"]
          /\ reply' = [reply EXCEPT ![r] = code]
    /\ UNCHANGED <<answers, cancelled, inFlight, lock, sessionVars,
                   sketchVars, daemonVars>>

SendInline(r) ==
    /\ phase[r] = "answering"
    /\ CanSend(r.session)
    /\ Enqueue(r.session)
    /\ answers' = [answers EXCEPT ![r] = Append(@, reply[r])]
    /\ GoTo(r, "done")
    /\ UNCHANGED <<reply, cancelled, inFlight, lock, loop, socket, writer,
                   scratch, sketchVars, daemonVars>>

-----------------------------------------------------------------------------
(* A spawned task *)

\* The parts of the state that no step of a task changes by itself.
TaskFrame == UNCHANGED <<cancelled, loop, socket, writer>>

\* Steps of a task that neither send, nor reply, nor leave.
InnerFrame == TaskFrame /\ UNCHANGED <<answers, inFlight, lock, queued, scratch>>

WriteSketch(r) ==
    /\ phase[r] = "writing"
    /\ \/ Decide(r, "io") /\ UNCHANGED sketch
       \/ /\ sketch' = [sketch EXCEPT ![r.session][SketchName(r.id)] = r]
          /\ GoTo(r, "opening")
          /\ UNCHANGED reply
    /\ UNCHANGED <<built, daemonVars>>
    /\ InnerFrame

\* The gRPC call is accepted or fails.  The token is not looked at meanwhile.
OpenStream(r) ==
    /\ phase[r] = "opening"
    /\ \/ GoTo(r, "streaming") /\ UNCHANGED reply
       \/ Decide(r, "grpc")
    /\ UNCHANGED <<sketchVars, daemonVars>>
    /\ InnerFrame

StreamLogFirst(r) ==
    /\ phase[r] = "streaming"
    /\ GoTo(r, "logging")
    /\ UNCHANGED <<reply, sketchVars, daemonVars>>
    /\ InnerFrame

\* A log or progress message from the daemon; it waits for room below.  The
\* select! is biased: no item is taken once the token has been fired.
StreamLog(r) ==
    /\ phase[r] = "streaming"
    /\ ~cancelled[r]
    /\ GoTo(r, "logging")
    /\ UNCHANGED <<reply, sketchVars, daemonVars>>
    /\ InnerFrame

SendLogUnbounded(r) ==
    /\ phase[r] = "logging"
    /\ Enqueue(r.session)
    /\ GoTo(r, "streaming")
    /\ UNCHANGED <<reply, answers, inFlight, lock, scratch, sketchVars, daemonVars>>
    /\ TaskFrame

SendLog(r) ==
    /\ phase[r] = "logging"
    /\ CanSend(r.session)
    /\ Enqueue(r.session)
    /\ GoTo(r, "streaming")
    /\ UNCHANGED <<reply, answers, inFlight, lock, scratch, sketchVars, daemonVars>>
    /\ TaskFrame

ObserveCancel(r) ==
    /\ phase[r] = "streaming"
    /\ cancelled[r]
    /\ Decide(r, "cancelled")
    /\ UNCHANGED <<sketchVars, daemonVars>>
    /\ InnerFrame

StreamDoneWithoutInit(r) ==
    /\ phase[r] = "streaming"
    /\ ~cancelled[r]
    /\ r.kind = "compile" => built[r] # None
    /\ r.kind = "installPlatform" => r \in onDisk
    /\ Decide(r, "result")
    /\ UNCHANGED <<sketchVars, daemonVars>>
    /\ InnerFrame

\* The daemon's last message, Done: a compile has read its sketch by then and
\* an install is on disk.  The install still has to reinitialize the instance.
StreamDone(r) ==
    /\ phase[r] = "streaming"
    /\ ~cancelled[r]
    /\ r.kind = "compile" => built[r] # None
    /\ r.kind = "installPlatform" => r \in onDisk
    /\ IF r.kind = "installPlatform"
       THEN GoTo(r, "reiniting") /\ UNCHANGED reply
       ELSE Decide(r, "result")
    /\ UNCHANGED <<sketchVars, daemonVars>>
    /\ InnerFrame

StreamEndsSilently(r) ==
    /\ phase[r] = "streaming"
    /\ ~cancelled[r]
    /\ GoTo(r, "replied")
    /\ UNCHANGED <<reply, sketchVars, daemonVars>>
    /\ InnerFrame

\* An error of the stream, or its end without a Done.
StreamFails(r) ==
    /\ phase[r] = "streaming"
    /\ ~cancelled[r]
    /\ \E code \in {"grpc", "daemon"} : Decide(r, code)
    /\ UNCHANGED <<sketchVars, daemonVars>>
    /\ InnerFrame

\* Daemon::reinit.  A failed Init may or may not have rescanned the data dir.
Reinit(r) ==
    /\ phase[r] = "reiniting"
    /\ \/ Decide(r, "result") /\ loaded' = onDisk
       \/ Decide(r, "grpc") /\ loaded' \in {loaded, onDisk}
    /\ UNCHANGED <<onDisk, sketchVars>>
    /\ InnerFrame

SendReplyAndStream(r) ==
    /\ phase[r] = "replying"
    /\ CanSend(r.session)
    /\ Enqueue(r.session)
    /\ answers' = [answers EXCEPT ![r] = Append(@, reply[r])]
    /\ \E ph \in {"replied", "streaming"} : GoTo(r, ph)
    /\ UNCHANGED <<reply, inFlight, lock, scratch, sketchVars, daemonVars>>
    /\ TaskFrame

SendReply(r) ==
    /\ phase[r] = "replying"
    /\ CanSend(r.session)
    /\ Enqueue(r.session)
    /\ answers' = [answers EXCEPT ![r] = Append(@, reply[r])]
    /\ GoTo(r, "replied")
    /\ UNCHANGED <<reply, inFlight, lock, scratch, sketchVars, daemonVars>>
    /\ TaskFrame

DeregisterForgotten(r) ==
    /\ phase[r] = "replied"
    /\ GoTo(r, "deregistered")
    /\ UNCHANGED <<reply, answers, inFlight, lock, queued, scratch, sketchVars,
                   daemonVars>>
    /\ TaskFrame

\* HashMap::remove by id: the entry goes whatever token it holds.
Deregister(r) ==
    /\ phase[r] = "replied"
    /\ inFlight' = [inFlight EXCEPT ![r.session][r.id] = None]
    /\ GoTo(r, "deregistered")
    /\ UNCHANGED <<reply, answers, lock, queued, scratch, sketchVars, daemonVars>>
    /\ TaskFrame

\* The scratch dir is removed by its last holder: the session, as long as it
\* lives, and every compile are holders.
Compiles(s) == {q \in Of(s) : q.kind = "compile" /\ Alive(q)}
LetGoOfScratchAlways(s, held) ==
    scratch' = [scratch EXCEPT ![s] = IF @ = "present" THEN "removed" ELSE @]
LetGoOfScratch(s, held) ==
    scratch' = [scratch EXCEPT ![s] =
                   IF @ = "present" /\ ~held THEN "removed" ELSE @]

\* run_compile, run_upload or run_install returns: its TempDir handle and its
\* lock guard are dropped.
Finish(r) ==
    /\ phase[r] = "deregistered"
    /\ GoTo(r, "done")
    /\ lock' = IF lock = r THEN None ELSE lock
    /\ IF r.kind = "compile"
       THEN LetGoOfScratch(r.session,
                loop[r.session] # "closed" \/ Compiles(r.session) # {r})
       ELSE UNCHANGED scratch
    /\ UNCHANGED <<reply, answers, inFlight, queued, sketchVars, daemonVars>>
    /\ TaskFrame

Task(r) ==
    \/ WriteSketch(r) \/ OpenStream(r) \/ StreamLog(r) \/ SendLog(r)
    \/ ObserveCancel(r) \/ StreamDone(r) \/ StreamFails(r) \/ Reinit(r)
    \/ SendReply(r) \/ Deregister(r) \/ Finish(r)

-----------------------------------------------------------------------------
(* The daemon, as far as the tasks can tell *)

\* arduino-cli reads the sketch folder it was given, at some time of the call.
DaemonReadsSketch(r) ==
    /\ r.kind = "compile"
    /\ phase[r] \in {"opening", "streaming", "logging"}
    /\ built[r] = None
    /\ built' = [built EXCEPT ![r] = sketch[r.session][SketchName(r.id)]]
    /\ UNCHANGED <<sketch, taskVars, sessionVars, daemonVars>>

\* arduino-cli has put the platform on disk; its Done is still to be consumed.
InstallApplied(r) ==
    /\ r.kind = "installPlatform"
    /\ phase[r] \in {"streaming", "logging"}
    /\ onDisk' = onDisk \cup {r}
    /\ UNCHANGED <<loaded, taskVars, sessionVars, sketchVars>>

-----------------------------------------------------------------------------
(* The session: its socket, its writer and its end *)

SocketGone(s) ==
    /\ socket[s] = "open"
    /\ socket' = [socket EXCEPT ![s] = "gone"]
    /\ UNCHANGED <<loop, writer, queued, scratch, taskVars, sketchVars, daemonVars>>

WriterFrame ==
    UNCHANGED <<loop, socket, scratch, taskVars, sketchVars, daemonVars>>

WriterSends(s) ==
    /\ writer[s] = "running"
    /\ queued[s] > 0
    /\ queued' = [queued EXCEPT ![s] = @ - 1]
    /\ UNCHANGED writer
    /\ WriterFrame

\* A write to the closed socket fails: the writer returns and drops its
\* receiver.  Text it still buffers may be what it writes, with nothing queued.
WriterFails(s) ==
    /\ writer[s] = "running"
    /\ socket[s] = "gone"
    /\ writer' = [writer EXCEPT ![s] = "ended"]
    /\ queued' = [queued EXCEPT ![s] = 0]
    /\ WriterFrame

\* recv() returns None: the channel is empty and every sender is dropped, the
\* session's own and the one in the Responder of each task.
WriterFinishes(s) ==
    /\ writer[s] = "running"
    /\ queued[s] = 0
    /\ loop[s] # "reading"
    /\ \A r \in Of(s) : ~Alive(r)
    /\ writer' = [writer EXCEPT ![s] = "ended"]
    /\ UNCHANGED queued
    /\ WriterFrame

Writer(s) == WriterSends(s) \/ WriterFails(s) \/ WriterFinishes(s)

TeardownFrame == UNCHANGED <<phase, reply, answers, lock, socket, writer, queued,
                             scratch, sketchVars, daemonVars>>

TeardownDrainOnly(s) ==
    /\ socket[s] = "gone"
    /\ IdleLoop(s)
    /\ inFlight' = [inFlight EXCEPT ![s] = [id \in Ids |-> None]]
    /\ loop' = [loop EXCEPT ![s] = "joining"]
    /\ UNCHANGED cancelled
    /\ TeardownFrame

\* The read loop has ended: drain the registry, firing each token, and drop
\* the session's sender.
Teardown(s) ==
    /\ socket[s] = "gone"
    /\ IdleLoop(s)
    /\ cancelled' = [r \in Requests |->
                        cancelled[r] \/ \E id \in Ids : inFlight[s][id] = r]
    /\ inFlight' = [inFlight EXCEPT ![s] = [id \in Ids |-> None]]
    /\ loop' = [loop EXCEPT ![s] = "joining"]
    /\ TeardownFrame

\* The writer has been joined; the Session is dropped.
SessionEnds(s) ==
    /\ loop[s] = "joining"
    /\ writer[s] = "ended"
    /\ loop' = [loop EXCEPT ![s] = "closed"]
    /\ LetGoOfScratch(s, Compiles(s) # {})
    /\ UNCHANGED <<socket, writer, queued, taskVars, sketchVars, daemonVars>>

-----------------------------------------------------------------------------
(* Specification *)

Init ==
    /\ phase = [r \in Requests |-> "absent"]
    /\ reply = [r \in Requests |-> None]
    /\ answers = [r \in Requests |-> <<>>]
    /\ cancelled = [r \in Requests |-> FALSE]
    /\ inFlight = [s \in Sessions |-> [id \in Ids |-> None]]
    /\ lock = None
    /\ loop = [s \in Sessions |-> "reading"]
    /\ socket = [s \in Sessions |-> "open"]
    /\ writer = [s \in Sessions |-> "running"]
    /\ queued = [s \in Sessions |-> 0]
    /\ scratch = [s \in Sessions |-> "none"]
    /\ sketch = [s \in Sessions |-> [n \in SketchNames |-> None]]
    /\ built = [r \in Requests |-> None]
    /\ onDisk = {}
    /\ loaded = {}

Closed == \A s \in Sessions : loop[s] = "closed" /\ \A r \in Of(s) : ~Alive(r)
Terminated == Closed /\ UNCHANGED vars

Next ==
    \/ \E r \in Requests :
          \/ Receive(r) \/ DaemonAnswersList(r) \/ SendInline(r) \/ Task(r)
          \/ DaemonReadsSketch(r) \/ InstallApplied(r)
    \/ \E s \in Sessions :
          \/ \E id \in Ids : Cancel(s, id)
          \/ SocketGone(s) \/ Writer(s) \/ Teardown(s) \/ SessionEnds(s)
    \/ Terminated

Spec == Init /\ [][Next]_vars

\* Fairness.  Every task, the read loop and the writer are scheduled; a sender
\* waiting for room is served in turn (tokio's semaphore is first come, first
\* served); the browser reads its socket while it is there; and the daemon
\* answers each unary call.  Nothing makes a stream of the daemon end.
Fairness ==
    /\ \A r \in Requests :
          /\ WF_vars(DaemonAnswersList(r)) /\ SF_vars(SendInline(r))
          /\ WF_vars(WriteSketch(r)) /\ WF_vars(OpenStream(r))
          /\ WF_vars(ObserveCancel(r)) /\ WF_vars(Reinit(r))
          /\ SF_vars(SendLog(r)) /\ SF_vars(SendReply(r))
          /\ WF_vars(Deregister(r)) /\ WF_vars(Finish(r))
    /\ \A s \in Sessions :
          /\ WF_vars(WriterSends(s)) /\ WF_vars(WriterFinishes(s))
          /\ SF_vars(Teardown(s)) /\ WF_vars(SessionEnds(s))

FairSpec == Spec /\ Fairness

\* In addition the daemon ends each of its streams, whatever it says before.
DaemonEndsStreams ==
    \A r \in Requests : SF_vars(StreamDone(r) \/ StreamFails(r))

-----------------------------------------------------------------------------
(* Properties *)

\* Every variable stays in its range; in particular the channel never holds
\* more than RESPONSE_CHANNEL_CAPACITY responses.
TypeOK ==
    /\ phase \in [Requests -> Phases]
    /\ reply \in [Requests -> Codes \cup {None}]
    /\ answers \in [Requests -> Seq(Codes)]
    /\ cancelled \in [Requests -> BOOLEAN]
    /\ inFlight \in [Sessions -> [Ids -> Requests \cup {None}]]
    /\ lock \in Requests \cup {None}
    /\ loop \in [Sessions -> Loops]
    /\ socket \in [Sessions -> {"open", "gone"}]
    /\ writer \in [Sessions -> {"running", "ended"}]
    /\ queued \in [Sessions -> 0..Capacity]
    /\ scratch \in [Sessions -> {"none", "present", "removed"}]
    /\ sketch \in [Sessions -> [SketchNames -> Requests \cup {None}]]
    /\ built \in [Requests -> Requests \cup {None}]
    /\ onDisk \subseteq Requests
    /\ loaded \subseteq Requests

\* The flash channel keeps the promise of RequestReply: a request is asked for
\* when it arrives, revoked when its token is fired, and answered once
\* (bridge.rs, "exactly one terminal"); promptly, if the daemon ends its streams.
Replies == INSTANCE RequestReply WITH
    asked    <- {r \in Requests : phase[r] # "absent"},
    revoked  <- {r \in Requests : cancelled[r]},
    terminal <- answers

RepliesSafe == Replies!Safe

\* While a session is served, the registry holds the token of each of its tasks
\* that still owes a terminal, so that a cancel finds it, and only tokens of
\* tasks that have not returned (session.rs, in_flight).
RegistryTracksTasks ==
    \A s \in Sessions :
        /\ loop[s] = "reading" =>
              \A r \in Of(s) : Running(r) => inFlight[s][r.id] = r
        /\ \A id \in Ids : inFlight[s][id] # None => Alive(inFlight[s][id])

\* A task that outlives the read loop of its session has been told to stop
\* (session.rs, "cancel in-flight compiles so they wind down").
NoOrphanAfterTeardown ==
    \A r \in Requests :
        loop[r.session] # "reading" /\ Running(r) => cancelled[r]

\* Whoever wants a task to stop finds its token: a cancel through the registry,
\* and the end of the session, which fires what it drains (session.rs, in_flight).
TokensReachTasks == RegistryTracksTasks /\ NoOrphanAfterTeardown

\* No two installs run at the same time, in one session or in two: each holds the
\* daemon-wide lock from before it is spawned until it has returned.
InstallsExclusive ==
    \A q, r \in Requests :
        /\ q.kind = "installPlatform" /\ Alive(q)
        /\ r.kind = "installPlatform" /\ Alive(r)
        => q = r

\* An install answers `result` only after the daemon's instance has been
\* reinitialized over it, so the browser's next compile sees the core.
InstalledBeforeResult ==
    \A r \in Requests :
        r.kind = "installPlatform" /\ reply[r] = "result" => r \in loaded

\* One install at a time changes the data dir and the instance, and has finished
\* with both when it answers (daemon.rs, install_lock).
InstallsOrdered == InstallsExclusive /\ InstalledBeforeResult

\* A running compile has the scratch dir it writes to, also when its session is
\* gone already; nobody else's exit removes it.
ScratchHeld ==
    \A r \in Requests :
        r.kind = "compile" /\ Alive(r) => scratch[r.session] = "present"

\* The last holder removes the scratch dir: none is left behind by a session
\* that has ended with all its tasks.
ScratchRemoved ==
    \A s \in Sessions :
        /\ loop[s] = "closed"
        /\ \A r \in Of(s) : ~Alive(r)
        => scratch[s] # "present"

\* The scratch dir lives exactly as long as somebody may use it, in whatever order
\* the session and its compiles let go of it (session.rs, temp_base).
ScratchFollowsHolders == ScratchHeld /\ ScratchRemoved

-----------------------------------------------------------------------------
(* What comments of the code say that the code does not do *)

\* "Must run after a platform install, or the instance won't see the new core"
\* (daemon.rs): an install that is over and on disk has been loaded.
InstallsAreLoaded == \A r \in onDisk : phase[r] = "done" => r \in loaded

-----------------------------------------------------------------------------
(* Liveness *)

\* A task whose token has been fired returns, even if it is waiting for room in
\* the channel or for the daemon to accept its call.
CancelledTaskEnds == \A r \in Requests : cancelled[r] ~> ~Alive(r)

\* When the browser goes, its session ends and so do all the tasks it started.
SessionEndsAfterBrowserGone ==
    \A s \in Sessions :
        socket[s] = "gone" ~>
            loop[s] = "closed" /\ \A r \in Of(s) : ~Alive(r)

\* Every request that arrived is answered, if the daemon ends its streams.
RepliesPrompt == DaemonEndsStreams => Replies!Prompt

=============================================================================
