# Verification of thingblock-link

TLA+ modules, TLC runs and TLAPS proofs about the helper that connects the
ThingBlock editor in a browser to boards: over `arduino-cli` (the *flash* socket
`/`) and over Bluetooth LE (the socket `/io`). File names below are relative to
`src/src/`; `PROJECT.json` maps each definition to the lines it models.

Contents: 1 the system, 2 the modules and the code, 3 the runs, 4 fairness,
5 the proofs, 6 what the code does otherwise than it says, 7 what is not
modelled, 8 the plan.

## 1. The system

| component | state it keeps | operations | hard behaviour |
| - | - | - | - |
| flash session, `server/session.rs`, `service/arduino/bridge.rs` | registry `in_flight` of cancellation tokens by request id, the scratch dir `temp_base` shared by its compiles, the slot for a monitor, the channel of 64 responses | one request at a time is dispatched: answered inline, or spawned as a task that streams and owes one terminal; `cancel`; teardown | tasks, cancels, reuse of an id and the browser's leaving interleave; backpressure |
| response writer, the task in `Session::run`, `server/batch.rs` | buffer of held text, a cooldown of 100 ms | coalesce `log` and `monitorData`, send the rest at once | order, the timer racing chunks, the socket breaking in a flush |
| daemon handle, `service/arduino/daemon.rs` | the child process, the gRPC instance, `install_lock` | start, handshake, `reinit`, drop | installs of several sessions; an install on disk but not loaded |
| serial monitor, `bridge.rs`, `grpc/monitor.rs` | slot, channel of 32 commands, the pump task | open, write, close, port errors | close crossing data and port errors; release of the port |
| BLE scanning, `service/ble/transport.rs`, `ble/session.rs` | `scan_generation` under an async mutex, the session's scan tokens | start (which replaces), cancel, release | cleanup of a replaced scan, failing adapter calls, teardown |
| BLE connections, `ble/session.rs` | `connected`, `pumps`, the disconnect watch and its channel of 16 | connect, use, disconnect, relayed losses, teardown | a loss is reported late, by device and not by connection |
| gRPC translation, `service/arduino/grpc/*.rs` | none | requests and streams to the helper's shapes | where a stream stops |
| helper lifecycle, `bin/thingblock-link/main.rs`, `ui/tray.rs`, `server/router.rs` | where the services, the telemetry poller and the stdin watch stand; the event loop's queue and its cached status and telemetry | start, serve, poll, quit | who owns the child process when a step fails; quitting while a call hangs; a daemon that dies |
| status window, `ui/window.rs` | what the page was last given, visible or hidden | build on first use, show, hide, update, Quit | built late, updated while hidden |
| cloud compile server, `bin/thingblock-link-cloud` | per HTTP request a task, its scratch dir, a channel and a guard in the body | compile as NDJSON, with bytes in place of paths | the client aborting; images that cannot be read |
| `/api` reads and static files, `server/api.rs`, `server/router.rs` | none | one unary call each | none |

Interaction: a session calls the daemon over gRPC and hands its responses to its
writer through a bounded channel; its tasks share the registry with it and the
install lock with everybody; the BLE sessions share the adapter, with its single
scan and its broadcast of lost links.

What makes them correct, in a sentence each: every request gets exactly one
terminal whatever races it; a cancel finds its task; a session that ends leaves no
task, port, scan, pump, link or dir behind; compiles whose ids name different
folders do not see each other's sketches; installs exclude each other and are
loaded when they answer; responses arrive in order and once; a replaced scan does
not stop its successor; the connections a session believes in exist; the messages
of the daemon reach the browser each once, under the right label, and a result
names complete images; a living `arduino-cli` has an owner that will kill it, Quit
ends the process, and what the tray shows is so.

## 2. The modules and the code

**FlashTasks** models the flash sessions, their tasks, the registry, the install
lock, the scratch dir and as much of the daemon as tasks can tell. A request
*occurrence* `r` is a record and a task is named by the occurrence that spawned
it. `phase[r]` is the await the handling of `r` stands at: an arm of `dispatch`
is a `Receive...` action, and `compile_stream`, `upload_stream` and
`install_stream` share `OpenStream`, `StreamLog`, `SendLog`, `ObserveCancel`,
`StreamDone`, `StreamFails`; `Reinit` is the await that only an install has.
`SendReply`, `Deregister` and `Finish` are the last steps of `run_compile`,
`run_upload` and `run_install`, kept apart because other actors run between
them. `select!` is biased to the token, so no item is taken after it has fired;
the token is not looked at while the call is opened, while the task waits for
room, or in `reinit`. `Teardown` is the drain of `in_flight`.
Two assumptions about the browser are the values of `IdDiscipline`: `"fresh"`
(it never repeats an id) and `"afterTerminal"` (it may, once it has been sent
the terminal, which is all the protocol asks for).

**ResponseWriter** models the content of one session's channel: what was sent,
what is held, what was framed, by position. Entries of the buffer are intervals
of positions, so merging is extending an interval and order, loss and
duplication are visible. `Tick`, `TakeText`, `TakeOther` and `Finish` are the
branches of the writer's `select!`; a `Write` that meets a closed socket loses
what it had drained.

**SerialMonitor** models `monitorOpen`, `monitorWrite` and `monitorClose`. The
read loop awaits each of them, so `loop[s]` tells which await it is in; the
call to the daemon is open, half closed after `Close`, or dropped, which frees a
sender waiting for room. The daemon opens one port for one monitor and ends a
call only when it has closed the port; that much is assumed of `arduino-cli`.

**BleScan** models `Ble::scan` and `release_scan` with the mutex they hold across
adapter calls, and the scan tasks and tokens of the sessions. Each adapter call
may fail; `failed` remembers which have, so that a property can say what holds
as long as, for example, `stop_scan` works.

**BleConnections** models `handle_connect` and the others await by await, the
pumps, and the watch that relays the adapter's broadcast. Links are numbered so
that properties can tell the loss of one link from that of its successor; the
code, and the guards of the model, know the device only. `mishaps` remembers
failed calls, losses nobody listened to and losses taken for another's. A
reconnect takes its subscription and spawns its pump (`Subscribed`), which runs at
once beside the old one, and only then enters the books and aborts the old pump
(`Entered`); an abort takes effect at the pump's next await (`stopping`,
`PumpStops`), so two pumps may deliver one notification. The end of a session
awaits its writer, which ends with the last sender: every pump that runs has one
(`SessionEnds`), and so has every scan, of which BleScan shows that it ends.

**HelperLifecycle** models the threads of the local helper. `services` is the
step of `run_services` and `Daemon::start_with`; `poller`, `conns` and `services`
together say who holds the daemon, whose child dies with the last of them
(`Owned`, `LetGo`). `answerer` is whoever listens on the port picked for the
daemon: it, a stranger, or nobody. The event loop takes `events` one by one;
`menu` and `window` are what the user sees. After `Shutdown` the workers may drop
the tasks (`DropServices`, `DropPoller`), but `Exit` does not wait for them.

**GrpcStreams** holds the translations of a Compile, Upload or PlatformInstall
message as operators (`Translate`, `LabelAfter`, `FindArtifact`, `EspParts`); a
text is the position of its message. **StreamedRequest** runs one request through
them: the loop of `compile_stream`, `upload_stream` and `install_stream` with the
messages of the daemon written out (where FlashTasks counts only log messages),
the channel, and the reader, which is a WebSocket session or the NDJSON body of
the cloud server with `WithArtifactBytes`, its drop guard (`Abort`, `Finish`) and
the scratch dir of the task. A poll of the stream may read messages that become
nothing, and the token is not looked at in between (`polling`). StreamIsFaithful takes
what kind of body a message becomes from `Translate` itself; order, number and labels
it finds again from the history.

**RequestReply**, **OrderedDelivery** and **PortLease** are what a client is
promised: one terminal per request, `cancelled` only if revoked; delivery in
order; one monitor per session and one holder per port, which lets go of it
before the close is answered. FlashTasks and StreamedRequest are shown to
implement the first, ResponseWriter the second, SerialMonitor the third. `Safe`
is the safety part of each, proved to be implemented; `Prompt`, where there is
one, is the liveness, which TLC checks.

The `MC...` modules give the instances of the `.cfg` files. Definitions with
names such as `TeardownDrainOnly` or `ReplacePumpOnly` are variants of the
definition that follows them with a plausible mistake; they belong to no
specification and show that the properties notice the mistake.

## 3. The runs

| run | instance | shows |
| - | - | - |
| FlashSafety | two sessions, channel of 1; two requests arrive, of pairs that share something: compiles, installs, uploads and flashes, a board list | the safety of RequestReply (RepliesSafe), a registry that finds every task and no orphan after teardown, the life of the scratch dir, installs exclusive and loaded |
| FlashLiveness | one session, a compile and a board list | a cancelled task ends; a session whose browser left ends with its tasks; every request is answered if streams end (RepliesPrompt) |
| WriterDelivery | two requests, four responses, channel of 2, cooldown of 2 ticks | the writer's invariants; it implements OrderedDelivery (DeliverySafe, DeliveryPrompt) |
| Scanning | two sessions, any two of three scans, every adapter call may fail | generations and mutex, nothing left behind by a session; cancelled scans end and the adapter comes to rest |
| Connecting | two sessions, one peripheral, two connects, relay and broadcast of 1 | no pump is orphaned (NoPumpOrphaned); links, losses and the browser's view agree; dead connections leave; a session that tears down ends (TeardownEnds) |
| Monitoring | two sessions, one port, two opens, channel of 1 | pumps belong to a monitor; opens are answered once; PortLease is implemented (LeaseKept); the loop returns and ports are released (MonitorsLetGo) |
| HelperRuns | one browser, a queue of 2 and what the services add to it; every step may fail, the child may hang, die or lose its port | the child is owned, the user is shown what is so, quit ends, dialing ends and a dead daemon is shown (AbsenceIsNoticed) |
| Streaming | up to three messages of any kind with two labels and seven builds, channel of 1, on both faces | faithful streams, complete images, aborts; StreamedRequest implements RequestReply (RepliesSafe, RepliesPrompt) |
| FlashIdReuse, FlashStaleInstall, StaleNotice, HelperQuit | the smallest instance that shows it | section 6 |

Why the bounds are enough. Every hazard listed involves two requests, two scans,
two links, two opens or two owners: an actor and the one that overtakes or
replaces it, and each run has both, on one session and, where state is shared, on
two. Channels of 1 make the sender wait at once. FlashSafety lets pairs of
requests arrive, and a browser leaves only a session that has been sent a
request. With four responses the writer meets text, other traffic and text again
under both ids. Three messages let a download start, another start and an update
follow, and a result come after both; the builds are one of each kind of
artifact, those with an image or the address missing among them. In HelperRuns a
click can wait behind a report and a status; statuses are at most three and are
never held back. The safety properties of section 5 are in addition proved
without these bounds.

Deadlock is checked in every run. A state in which all sessions are closed (or
the writer has ended) is allowed to stutter by `Terminated`; nothing else is.

## 4. Fairness

Assumed: tokio schedules ready tasks (weak fairness of the steps of tasks, loops
and writer); its semaphores and mutexes are first come, first served, and a
`select!` that is not biased chooses at random (strong fairness of sends into a
full channel, of taking `scan_generation`, of `ObserveCancel` and of `Notice`);
the daemon answers the calls it is sent, those that open a stream included, and
the adapter its own; a pump that was aborted gets to its next await; the browser
reads its socket while it is there. Not assumed: that a stream of the daemon ends,
that data or log messages come, that notifications end, that a browser leaves or
cancels, that a port or link fails. That the daemon ends its streams is only a
premise of RepliesPrompt (`DaemonEndsStreams`, `DaemonEndsStream`), because
RequestReply promises an answer to requests that nobody cancels.

In HelperLifecycle the event loop handles each event, the timers fire, and a call
to a port where nobody listens fails. Nobody is assumed to answer a handshake or
a probe, since the code has no timeout there: a daemon that hangs leaves the
services in the handshake, or the last report on display, and QuitEnds has to
hold even so. `PollTick` is strongly fair because its guard bounds the queue of
the model.

## 5. The proofs

All proofs hold for any number of sessions, ids, requests, messages, scans, monitors
and links and any capacity, from the named assumptions on the constants. Every
invariant that a passing run checks and the safety of every refinement have a
theorem.

* *FlashTasksProofs.* `TypeCorrect`: TypeOK with `ReplyDecided`, as what is
  appended to `answers` must be a code. It includes that the channel never
  exceeds its capacity. `InstallMutex`: an install that is alive owns `lock`.
  `AtMostOneTerminal`: a task whose terminal is not yet handed over has an empty
  `answers`; the phase after it never sends again. `RepliesRefined`: with
  `TokensHonest`, a task that decided on `cancelled` has a fired token, every
  step maps to a step of RequestReply or a stutter.
* *FlashRegistryProofs.* `InstallsInOrder` joins `InstallMutex` with `InstallInv`,
  which follows an install from disk to `loaded`. `TokensAreReached` needs the
  premise that ids are never reused (`FreshIds`); without it it is false, as the
  run FlashIdReuse shows. `RegistryInv` says that the entry of an id is the only
  alive task with that id. `ScratchAccounted`: only the last holder removes the
  dir, and the last one does. `SketchesIsolated` has a premise, `NamesApart`:
  SketchName tells the ids of a session's compiles apart. It does so for ids of
  letters and digits; for `a-b` and `a_b` it does not, and then one compile may
  build the source of the other (section 6). There is no run of SketchIsolation:
  with ids that are told apart it follows from the ids that fresh compiles never
  meet, and what is left, the reuse of an id, is what the proof is about. Ids may
  be reused: `SketchInv` follows the one compile that is between its write and its
  read of a folder, and a second under the same id cannot have started
  (`IdsRunOnce`: the first has its terminal by then).
* *StreamedRequestProofs.* `StreamTypes`, `StreamFaithful`, `ResultsComplete` and
  `StreamRepliesRefined`, for a daemon that may send any set of messages and any
  number of them. All rest on `StreamInv`, which adds to TypeOK and to the two
  halves of StreamIsFaithful what makes them inductive. `Progressing`: a terminal
  is the last thing said, and after it the task only returns. `LabelCarried`:
  `label` is that of the last download started in `read`, found again from the
  history (`LabelAt`). `TerminalsEarned`: `cancelled` is told for a fired token, a
  result for the last message read. `Reading`: where the reader stands, and that
  each line it gave out is made of the body sent at that position. Said, the
  bodies sent with the one about to be, is what ToldOnceInOrder is about, because a
  message is in `read` before its body is in `sent`.
* *ResponseWriterProofs.* `WriterInv` joins the types with the tiling of
  positions: frames and buffer partition the positions taken. From it
  `WriterTypes`, `FramesAreFaithful`, `TimerIsOldest`, and the refinement
  `DeliveryRefined`.
* *BleScanProofs.* `ScanTypes`. `AdapterInv`: the mutex is owned by the scan that
  calls the adapter (`LockOwned`), generations are distinct, the owner's is the
  newest (`HolderIsNewest`), and the scan on the radio is the newest or is just
  being stopped (`RadioOwned`). NewestKeepsScanning (`ReplacementSurvives`) alone
  is not inductive: that a `stop_scan` under way can only hit an older scan is
  what the other parts say. `RestartsNeverRace` follows from the same invariant;
  `NoScanLeftBehind` rests also on `TokensKept`.
* *SerialMonitorProofs.* `MonitorInv` adds three parts to the types. `Hands`: a
  session has at most one monitor in hand, and which one follows from where its
  handler stands. `Stages`: the state of the pump says what became of the monitor's
  call and of its answers. `DaemonSide`: what the pump has heard of the port is what
  the daemon did, or less. From them `PumpsBelong`, `ClosedPortsAreFree` and
  `OpensAreAnswered`. `LeaseRefined` reads off the same invariant, row by row
  (`Rows`), what the browser knows of each monitor, and maps every step to one of
  PortLease: a Join closes a monitor whose pump has ended, and by DaemonSide a
  pump ends only when the port is free.
* *BleConnectionsProofs.* Invariants are stacked, each proved with the help of the
  ones before it. `ViaIsLink`: a call that is opening a connection names the link
  it opened. `Quiet`: of the pumps of a device one at most has neither been told
  to stop nor is about to enter the books, and it is the one in the books; a
  device that is not connected, or whose session tears down, has none.
  `NoPumpLeftOver` drops the teardown, during which connections still wait to be
  closed. `LinksKept`: each link has a keeper, which holds this very link in its
  books, is about to enter it, or is closing it. `Beliefs`: what the browser was
  told is what the books say, and in the middle of a disconnect the entry is
  already gone; with `LinksKept` it gives `BooksAgreeAlways`. `LossesKnown`: the
  loss of a link, also of one about to enter the books, is on its way to the
  session (`LossesArrive`).
* *HelperLifecycleProofs.* `HelperTypes`. `ChildIsOwned` by `ChildInv`: a living
  child has an owner, and there is none before the services start.
  `ShownStatusIsTrue` by `ShownInv`: what is shown is true, and as long as the
  loop starts the status is "starting".

Only model-checked is liveness, which is out of the prover's reach here:
CancelledTaskEnds, SessionEndsAfterBrowserGone, RepliesPrompt, DeliveryPrompt,
ScanningStops, DeadConnectionsLeave, TeardownEnds, MonitorsLetGo, QuitEnds,
AbsenceIsNoticed and AbortStopsCompile.

## 6. Where code and text disagree

* **FlashIdReuse.** A task deregisters by id after its terminal. If the browser
  has reused the id by then, the new task's token is what is removed; the end of
  the session then does not tell it to stop.
* **FlashStaleInstall.** An install cancelled, or failing, after the core is on
  disk skips `reinit`; the daemon's instance does not see the core.
* **StaleNotice.** The loss of an earlier link, relayed after a reconnect, takes
  the new connection out of the books and tells the browser that it dropped; its
  link stays open with no owner.
* **HelperQuit.** Quit tells the runtime to stop without waiting for it
  (`shutdown_background`) and ends the process. The drop of the daemon that the
  comment relies on to kill `arduino-cli` may not come to pass, and `--daemonize`
  lets the child live on.

Read off the code and not given a run: the sketch folder, said to be "keyed by
request id" (`bridge.rs:650`), is named by the id with all punctuation turned into
`_`, so that compiles in flight under `a-b` and `a_b` share it and one may build
the other's source; the two pumps of a reconnect may deliver a notification twice
before the abort of the old one takes effect; a cancel that falls into `reinit` is
answered by `result`; a failed `discover_services` leaves the link up; a failed
`events()` leaves the adapter scanning; chunks of two streams that alternate are
not merged, so a window of the writer may send many frames of one stream
(`batch.rs:19`, `session.rs:28`); a port that fails after it opened sends `error`
under the id of a `monitorOpen` that was answered `result` (`bridge.rs:363`,
`bridge.rs:68`), which is where OpenAnswered allows a second terminal.

## 7. What is not modelled

The selected port (`connect` and `disconnect` on the flash socket set a field that
nothing reads), the `/api` reads and static files, `/health`, the command line,
logging, JSON, paths and file contents, what the tray's icon and the page look
like. A call of `evaluate_script` that fails (`window.rs:66`) is left out: what is
"shown" is what the page was given. Texts, percentages, serial bytes and BLE
payloads have no content in the models; a malformed envelope is one way among
others to refuse a request. The tables of `board.rs` (USB ids, names, ports) and
`PlatformSearch` are pure reads. The start of the cloud server ends its process on
any error; two compiles of the cloud share the daemon only, so one is modelled.
`arduino-cli`, the Bluetooth stack, the desktop shell and the browser appear only
as the actions the code relies on, marked external in `PROJECT.json`. FlashTasks
takes the teardown's close of the monitor as done when it drains the registry;
SerialMonitor covers that close.

## 8. The plan

Done, in this order: FlashTasks with RequestReply; ResponseWriter with
OrderedDelivery; BleScan; SerialMonitor with PortLease; BleConnections;
HelperLifecycle; GrpcStreams with StreamedRequest; the proofs of section 5.

Next, modelling:
1. *SessionEnd*: the monitor's close before the drain of the registry, composed
   from SerialMonitor and FlashTasks, with the hang of a port; property: compiles
   of a session that ended are told to stop.
2. The boards' ports: choice by USB id and the count of the status window, as
   operators of GrpcStreams with a reference definition.
3. A daemon that dies between two requests, in FlashTasks: later calls all fail.

Next, proving: SessionEnd when it is there; an abstract specification of the BLE
connections (what the browser is told of a device against the links that exist),
and its refinement from the invariants of BleConnectionsProofs.
