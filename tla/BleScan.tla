------------------------------ MODULE BleScan ------------------------------
(***************************************************************************)
(* Scanning over the one Bluetooth adapter of the helper (transport.rs,    *)
(* Ble::scan and Ble::release_scan; session.rs, the scan tasks of a BLE    *)
(* session).  A scan is adapter-wide, so a new scan replaces the one that  *)
(* runs, and generations keep the cleanup of a replaced scan from stopping *)
(* its successor.                                                          *)
(*                                                                         *)
(* A scan is named by the request that starts it: its session, its id and  *)
(* a number.  Sending to the browser takes time but is not otherwise       *)
(* modelled; the content of hits and their filter are left out.            *)
(***************************************************************************)
EXTENDS Naturals

CONSTANTS
    Sessions,   \* /io connections
    Ids,        \* envelope ids
    Scans,      \* the scan requests that may arrive
    None

ASSUME ScansAssumption ==
    /\ Scans \subseteq [session : Sessions, id : Ids, nth : Nat]
    /\ None \notin Scans

\* The calls to the adapter, each of which may fail.
Calls == {"stop_scan", "start_scan", "events"}

Phases == {"absent",
           "queueing",               \* waits for scan_generation, to start
           "stopping", "starting",   \* holds it: stop_scan, start_scan
           "subscribing",            \* events()
           "listening", "sending",   \* between two hits, or sending one
           "releasing", "halting",   \* waits for scan_generation, holds it
           "replying",
           "done"}

VARIABLES
    phase,       \* phase[x]: where scan x stands
    cancelled,   \* cancelled[x]: its token has been fired
    gen,         \* gen[x]: its generation, 0 before it has one
    scans,       \* scans[s][id]: the scan whose token session s registers, or None
    loop,        \* loop[s]: "reading", or "closed" after the teardown
    generation,  \* the counter in scan_generation
    lock,        \* the scan that holds the mutex around it, or None
    radio,       \* the scan the adapter performs, or None
    failed       \* the calls of the adapter that have failed so far

vars == <<phase, cancelled, gen, scans, loop, generation, lock, radio, failed>>
taskFrame == <<cancelled, scans, loop>>

GoTo(x, ph) == phase' = [phase EXCEPT ![x] = ph]
Fail(call)  == failed' = failed \cup {call}

\* The adapter's calls are made by the scan that holds scan_generation.
Holds(x) == phase[x] \in {"stopping", "starting", "halting"}

\* The task of x still runs, or is about to.
Live(x) == phase[x] \notin {"absent", "replying", "done"}

-----------------------------------------------------------------------------
(* The read loop of a session *)

\* The browser may use an id again once the scan it named has its terminal.
MayUseId(x) ==
    \A y \in Scans \ {x} :
        y.session = x.session /\ y.id = x.id => phase[y] \in {"absent", "done"}

\* A malformed service UUID is refused before anything is registered.
HandleScan(x) ==
    /\ loop[x.session] = "reading"
    /\ phase[x] = "absent"
    /\ MayUseId(x)
    /\ \/ GoTo(x, "replying") /\ UNCHANGED scans
       \/ /\ scans' = [scans EXCEPT ![x.session][x.id] = x]
          /\ GoTo(x, "queueing")
    /\ UNCHANGED <<cancelled, gen, loop, generation, lock, radio, failed>>

HandleCancel(s, id) ==
    /\ loop[s] = "reading"
    /\ scans[s][id] # None
    /\ cancelled' = [cancelled EXCEPT ![scans[s][id]] = TRUE]
    /\ scans' = [scans EXCEPT ![s][id] = None]
    /\ UNCHANGED <<phase, gen, loop, generation, lock, radio, failed>>

\* The browser has gone: the tokens are fired and the adapter is left alone.
Teardown(s) ==
    /\ loop[s] = "reading"
    /\ loop' = [loop EXCEPT ![s] = "closed"]
    /\ cancelled' = [x \in Scans |->
                        cancelled[x] \/ \E id \in Ids : scans[s][id] = x]
    /\ scans' = [scans EXCEPT ![s] = [id \in Ids |-> None]]
    /\ UNCHANGED <<phase, gen, generation, lock, radio, failed>>

-----------------------------------------------------------------------------
(* Ble::scan *)

TakeGenerationUnlocked(x) ==
    /\ phase[x] = "queueing"
    /\ lock' = x
    /\ generation' = generation + 1
    /\ gen' = [gen EXCEPT ![x] = generation + 1]
    /\ GoTo(x, "stopping")
    /\ UNCHANGED <<radio, failed, taskFrame>>

TakeGenerationUnstored(x) ==
    /\ phase[x] = "queueing"
    /\ lock = None
    /\ lock' = x
    /\ gen' = [gen EXCEPT ![x] = generation + 1]
    /\ GoTo(x, "stopping")
    /\ UNCHANGED <<generation, radio, failed, taskFrame>>

TakeGeneration(x) ==
    /\ phase[x] = "queueing"
    /\ lock = None
    /\ lock' = x
    /\ generation' = generation + 1
    /\ gen' = [gen EXCEPT ![x] = generation + 1]
    /\ GoTo(x, "stopping")
    /\ UNCHANGED <<radio, failed, taskFrame>>

StopScan ==
    \/ radio' = None /\ UNCHANGED failed
    \/ Fail("stop_scan") /\ UNCHANGED radio

\* The scan that runs is stopped; a failure is ignored.
StopOld(x) ==
    /\ phase[x] = "stopping"
    /\ StopScan
    /\ GoTo(x, "starting")
    /\ UNCHANGED <<gen, generation, lock, taskFrame>>

StartNew(x) ==
    /\ phase[x] = "starting"
    /\ \/ radio' = x /\ GoTo(x, "subscribing") /\ UNCHANGED failed
       \/ Fail("start_scan") /\ UNCHANGED radio /\ GoTo(x, "replying")
    /\ lock' = None
    /\ UNCHANGED <<gen, generation, taskFrame>>

\* A failure goes back to the browser; the scan is left running.
Subscribe(x) ==
    /\ phase[x] = "subscribing"
    /\ \/ GoTo(x, "listening") /\ UNCHANGED failed
       \/ Fail("events") /\ GoTo(x, "replying")
    /\ UNCHANGED <<gen, generation, lock, radio, taskFrame>>

-----------------------------------------------------------------------------
(* The loop of a scan task.  Its select! is not biased: a hit may be taken   *)
(* although the token has been fired.                                        *)

Hit(x) ==
    /\ phase[x] = "listening"
    /\ GoTo(x, "sending")
    /\ UNCHANGED <<gen, generation, lock, radio, failed, taskFrame>>

SendHit(x) ==
    /\ phase[x] = "sending"
    /\ GoTo(x, "listening")
    /\ UNCHANGED <<gen, generation, lock, radio, failed, taskFrame>>

ObserveCancel(x) ==
    /\ phase[x] = "listening"
    /\ cancelled[x]
    /\ GoTo(x, "releasing")
    /\ UNCHANGED <<gen, generation, lock, radio, failed, taskFrame>>

\* The adapter's event stream ends by itself.
StreamEnds(x) ==
    /\ phase[x] = "listening"
    /\ GoTo(x, "releasing")
    /\ UNCHANGED <<gen, generation, lock, radio, failed, taskFrame>>

ReleaseAnyway(x) ==
    /\ phase[x] = "releasing"
    /\ lock = None
    /\ lock' = x
    /\ GoTo(x, "halting")
    /\ UNCHANGED <<gen, generation, radio, failed, taskFrame>>

ReleaseNever(x) ==
    /\ phase[x] = "releasing"
    /\ lock = None
    /\ GoTo(x, "replying")
    /\ UNCHANGED <<gen, generation, lock, radio, failed, taskFrame>>

\* release_scan: only the scan of the current generation stops the adapter.
Release(x) ==
    /\ phase[x] = "releasing"
    /\ lock = None
    /\ IF gen[x] = generation
       THEN lock' = x /\ GoTo(x, "halting")
       ELSE UNCHANGED lock /\ GoTo(x, "replying")
    /\ UNCHANGED <<gen, generation, radio, failed, taskFrame>>

HaltKeepingLock(x) ==
    /\ phase[x] = "halting"
    /\ StopScan
    /\ GoTo(x, "replying")
    /\ UNCHANGED <<gen, generation, lock, taskFrame>>

\* A failure to stop is ignored.
Halt(x) ==
    /\ phase[x] = "halting"
    /\ StopScan
    /\ lock' = None
    /\ GoTo(x, "replying")
    /\ UNCHANGED <<gen, generation, taskFrame>>

Reply(x) ==
    /\ phase[x] = "replying"
    /\ GoTo(x, "done")
    /\ UNCHANGED <<gen, generation, lock, radio, failed, taskFrame>>

Task(x) ==
    \/ TakeGeneration(x) \/ StopOld(x) \/ StartNew(x) \/ Subscribe(x)
    \/ Hit(x) \/ SendHit(x) \/ ObserveCancel(x) \/ StreamEnds(x)
    \/ Release(x) \/ Halt(x) \/ Reply(x)

-----------------------------------------------------------------------------
(* Specification *)

Init ==
    /\ phase = [x \in Scans |-> "absent"]
    /\ cancelled = [x \in Scans |-> FALSE]
    /\ gen = [x \in Scans |-> 0]
    /\ scans = [s \in Sessions |-> [id \in Ids |-> None]]
    /\ loop = [s \in Sessions |-> "reading"]
    /\ generation = 0
    /\ lock = None
    /\ radio = None
    /\ failed = {}

Terminated ==
    /\ \A s \in Sessions : loop[s] = "closed"
    /\ \A x \in Scans : phase[x] \in {"absent", "done"}
    /\ UNCHANGED vars

Next ==
    \/ \E x \in Scans : HandleScan(x) \/ Task(x)
    \/ \E s \in Sessions : Teardown(s) \/ \E id \in Ids : HandleCancel(s, id)
    \/ Terminated

Spec == Init /\ [][Next]_vars

\* Fairness.  The tasks are scheduled and the adapter answers its calls; the
\* mutex is first come, first served; and a select! that is not biased does not
\* pass over a fired token for ever.
Locks(x)    == TakeGeneration(x) \/ Release(x)
Proceeds(x) == \/ StopOld(x) \/ StartNew(x) \/ Subscribe(x)
               \/ SendHit(x) \/ Halt(x) \/ Reply(x)

Fairness ==
    \A x \in Scans :
        SF_vars(Locks(x)) /\ WF_vars(Proceeds(x)) /\ SF_vars(ObserveCancel(x))

FairSpec == Spec /\ Fairness

-----------------------------------------------------------------------------
(* Properties *)

\* Every variable stays in its range, and no scan has a generation that the
\* counter has not reached.
TypeOK ==
    /\ phase \in [Scans -> Phases]
    /\ cancelled \in [Scans -> BOOLEAN]
    /\ generation \in Nat
    /\ gen \in [Scans -> 0..generation]
    /\ scans \in [Sessions -> [Ids -> Scans \cup {None}]]
    /\ loop \in [Sessions -> {"reading", "closed"}]
    /\ lock \in Scans \cup {None}
    /\ radio \in Scans \cup {None}
    /\ failed \subseteq Calls

\* The scan of the current generation keeps the adapter until it lets go of it
\* itself: "a stale scan's cleanup can't kill its replacement" (transport.rs).
NewestKeepsScanning ==
    \A x \in Scans :
        /\ phase[x] \in {"subscribing", "listening", "sending", "releasing"}
        /\ gen[x] = generation
        => radio = x

\* "A restart never races the old scan's teardown into an adapter-level
\* 'already scanning' error" (transport.rs): if stop_scan has worked, the adapter is
\* idle whenever start_scan is called, and nobody else is calling it.
StartsWhenIdle ==
    \A x \in Scans :
        phase[x] = "starting" =>
            /\ "stop_scan" \notin failed => radio = None
            /\ \A y \in Scans \ {x} : ~Holds(y)

\* A scan that outlives its session has been told to stop (session.rs,
\* "Cancelling is enough").
NoOrphanScan ==
    \A x \in Scans : loop[x.session] = "closed" /\ Live(x) => cancelled[x]

\* The adapter does not go on scanning when no task is left to stop it, unless
\* a call to stop it, or to subscribe to its events, has failed before.
NoStrayScan ==
    /\ failed \subseteq {"start_scan"}
    /\ \A x \in Scans : phase[x] \in {"absent", "queueing", "replying", "done"}
    => radio = None

\* No scan is left behind: a task that its session has left knows that it has to
\* stop, and the adapter scans for nobody when no task is left to stop it.
NothingLeftBehind == NoOrphanScan /\ NoStrayScan

\* A cancelled scan gets its terminal.
CancelledScanEnds == \A x \in Scans : cancelled[x] ~> phase[x] = "done"

\* When all browsers have gone the adapter comes to rest, unless a call to stop
\* it, or to subscribe to its events, has failed.
RadioRests ==
    (\A s \in Sessions : loop[s] = "closed") ~>
        [](failed \subseteq {"start_scan"} => radio = None)

\* Scanning ends whenever it should: for one scan when its token is fired, for the
\* adapter when the last browser has gone (session.rs, "Cancelling is enough").
ScanningStops == CancelledScanEnds /\ RadioRests
=============================================================================
