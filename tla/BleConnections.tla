--------------------------- MODULE BleConnections ---------------------------
(***************************************************************************)
(* The connections of the /io sessions (ble/session.rs, connect, disconnect*)
(* and the watch for peripherals that drop; transport.rs, Ble::connect and *)
(* disconnect_events).  A peripheral has one link to the adapter, whatever *)
(* number of sessions use it.  The adapter broadcasts each loss of a link, *)
(* also one that was asked for; the watch of a session relays it to the    *)
(* read loop, which knows devices by their id alone.                       *)
(*                                                                         *)
(* Connect calls are numbered.  A link is named by the call that made it,  *)
(* 0 standing for none; the numbers, `told` and `mishaps` only serve the   *)
(* properties.  Sending to the browser takes no step of its own.  The      *)
(* runtime has several threads: tasks run between any two awaits of the    *)
(* loop, and a pump that is aborted runs on to its own next await.         *)
(***************************************************************************)
EXTENDS Naturals, Sequences

CONSTANTS
    Sessions,     \* /io connections
    Devices,      \* peripherals that a scan has discovered
    Capacity,     \* DISCONNECT_CHANNEL_CAPACITY
    Backlog,      \* length of a receiver of the adapter's broadcast
    MaxConnects   \* bound on the connect calls that succeed

ASSUME BoundsAssumption ==
    /\ Capacity \in Nat \ {0} /\ Backlog \in Nat \ {0} /\ MaxConnects \in Nat

Numbers == 0..MaxConnects
Losses  == [dev : Devices, link : Numbers]

\* What the read loop of a session awaits or is at: a call for a device; for a
\* connect, also its number and the link it made or found.
Ops  == {"connect", "discover", "notifications", "entering", "use", "disconnect"}
Jobs == [op : Ops, dev : Devices, num : Numbers, via : Numbers]
          \cup [op : {"none", "teardown", "closed"}]
Idle     == [op |-> "none"]
Job(o, d) == [op |-> o, dev |-> d, num |-> 0, via |-> 0]

VARIABLES
    link,      \* link[d]: the link of peripheral d
    connects,  \* the connect calls that succeeded so far
    job,       \* job[s]: what the loop of s is at, see Jobs
    held,      \* held[s][d]: the link behind the Conn in `connected`, or 0
    pumps,     \* pumps[s][d]: the pump in `pumps`, by its connect call, or 0
    pumping,   \* pumping[s][d]: the pump tasks that run
    stopping,  \* stopping[s][d]: those of them that were aborted
    watch,     \* watch[s]: "none", "starting", "listening" or "dead"
    heard,     \* heard[s]: losses broadcast to the watch, not yet relayed
    relay,     \* relay[s]: losses in the channel to the loop
    told,      \* told[s][d]: what the browser was last told of d
    mishaps    \* what went wrong so far, see Mishaps

linkVars  == <<link, connects>>
bookVars  == <<held, pumps, pumping, stopping>>
watchVars == <<watch, heard, relay>>
vars == <<linkVars, job, bookVars, watchVars, told, mishaps>>

\* Calls that fail, a loss that no watch heard, a loss that was taken for that
\* of a later link.
Mishaps == {"discover", "notifications", "disconnect", "missed", "stale"}

-----------------------------------------------------------------------------
(* Links *)

\* Session s relies on the link of d, or will when its connect is over.
Uses(s, d) ==
    \/ held[s][d] = link[d]
    \/ job[s].op \in {"discover", "notifications", "entering"} /\ job[s].dev = d

\* The link of d goes down, by itself or by a call: every watch that listens is
\* sent the loss, and a receiver that is full loses its oldest.
LinkDown(d) ==
    /\ link' = [link EXCEPT ![d] = 0]
    /\ heard' = [s \in Sessions |->
          LET all == Append(heard[s], [dev |-> d, link |-> link[d]])
          IN IF watch[s] # "listening"   THEN heard[s]
             ELSE IF Len(all) <= Backlog THEN all
                                         ELSE Tail(all)]
    /\ UNCHANGED connects

\* Some session that should learn of the loss of d's link will not.
Missed(d) ==
    IF \E s \in Sessions :
          IF watch[s] = "listening" THEN Len(heard[s]) = Backlog ELSE Uses(s, d)
    THEN {"missed"} ELSE {}

\* A call to disconnect d ends: with success the link is down; a failure may or
\* may not have brought it down.
CallDisconnect(d, ok) ==
    LET failure == IF ok THEN {} ELSE {"disconnect"} IN
    \/ /\ link[d] # 0
       /\ LinkDown(d)
       /\ mishaps' = mishaps \cup Missed(d) \cup failure
    \/ /\ ok => link[d] = 0
       /\ mishaps' = mishaps \cup failure
       /\ UNCHANGED <<linkVars, heard>>

\* The peripheral goes out of range, resets or hangs up.
Drop(d) ==
    /\ link[d] # 0
    /\ LinkDown(d)
    /\ mishaps' = mishaps \cup Missed(d)
    /\ UNCHANGED <<job, bookVars, watch, relay, told>>

-----------------------------------------------------------------------------
(* Requests, handled one at a time by the loop of the session *)

Becomes(s, j) == job' = [job EXCEPT ![s] = j]
Starts(s, o, d) == job[s] = Idle /\ Becomes(s, Job(o, d))

HandleConnect(s, d) ==
    /\ connects < MaxConnects
    /\ Starts(s, "connect", d)
    /\ UNCHANGED <<linkVars, bookVars, watchVars, told, mishaps>>

\* Peripheral::connect.  A peripheral that is connected already keeps its link.
\* A failure, also that of a device no scan has found, goes to the browser.
Connected(s) ==
    LET d == job[s].dev IN
    /\ job[s].op = "connect"
    /\ \/ /\ connects < MaxConnects
          /\ connects' = connects + 1
          /\ link' = [link EXCEPT ![d] = IF @ = 0 THEN connects' ELSE @]
          /\ Becomes(s, [op |-> "discover", dev |-> d, num |-> connects',
                         via |-> link'[d]])
       \/ Becomes(s, Idle) /\ UNCHANGED linkVars
    /\ UNCHANGED <<bookVars, watchVars, told, mishaps>>

\* discover_services.  A failure leaves the link as it is.
Discovered(s) ==
    /\ job[s].op = "discover"
    /\ \/ Becomes(s, [job[s] EXCEPT !.op = "notifications"]) /\ UNCHANGED mishaps
       \/ Becomes(s, Idle) /\ mishaps' = mishaps \cup {"discover"}
    /\ UNCHANGED <<linkVars, bookVars, watchVars, told>>

\* notifications: a new subscription, with a pump spawned on it that runs at once,
\* beside any pump of an earlier connect.
Subscribed(s) ==
    /\ job[s].op = "notifications"
    /\ \/ /\ Becomes(s, [job[s] EXCEPT !.op = "entering"])
          /\ pumping' = [pumping EXCEPT ![s][job[s].dev] = @ \cup {job[s].num}]
          /\ UNCHANGED mishaps
       \/ /\ Becomes(s, Idle)
          /\ mishaps' = mishaps \cup {"notifications"}
          /\ UNCHANGED pumping
    /\ UNCHANGED <<linkVars, held, pumps, stopping, watchVars, told>>

\* The pump in the books for d, if it still runs, is told to stop.
AbortPump(s, d) ==
    stopping' = [stopping EXCEPT ![s][d] = @ \cup (pumping[s][d] \cap {pumps[s][d]})]

ReplacePumpOnly(s, d, n) ==
    pumps' = [pumps EXCEPT ![s][d] = n] /\ UNCHANGED stopping
ReplacePump(s, d, n) ==
    pumps' = [pumps EXCEPT ![s][d] = n] /\ AbortPump(s, d)

\* The connection and its pump enter the books; the pump that was there is aborted.
\* The Conn is a handle on the peripheral: it has the link of the moment, or,
\* if that is gone, the one it was made with.
Entered(s) ==
    LET d == job[s].dev IN
    /\ job[s].op = "entering"
    /\ held' = [held EXCEPT ![s][d] = IF link[d] # 0 THEN link[d] ELSE job[s].via]
    /\ ReplacePump(s, d, job[s].num)
    /\ watch' = [watch EXCEPT ![s] = IF @ = "none" THEN "starting" ELSE @]
    /\ told' = [told EXCEPT ![s][d] = "connected"]
    /\ Becomes(s, Idle)
    /\ UNCHANGED <<linkVars, pumping, heard, relay, mishaps>>

\* write, read, subscribe, unsubscribe: refused unless d is connected.
Use(s, d) ==
    /\ held[s][d] # 0
    /\ Starts(s, "use", d)
    /\ UNCHANGED <<linkVars, bookVars, watchVars, told, mishaps>>

Used(s) ==
    /\ job[s].op = "use"
    /\ Becomes(s, Idle)
    /\ UNCHANGED <<linkVars, bookVars, watchVars, told, mishaps>>

Forget(s, d) ==
    /\ held' = [held EXCEPT ![s][d] = 0]
    /\ pumps' = [pumps EXCEPT ![s][d] = 0]
    /\ AbortPump(s, d)
    /\ UNCHANGED pumping

\* The device leaves the books before the call is made; a device that is not
\* in them is answered at once.
HandleDisconnect(s, d) ==
    /\ IF held[s][d] = 0
       THEN job[s] = Idle /\ told' = [told EXCEPT ![s][d] = "closed"] /\ UNCHANGED job
       ELSE Starts(s, "disconnect", d) /\ UNCHANGED told
    /\ Forget(s, d)
    /\ UNCHANGED <<linkVars, watchVars, mishaps>>

\* A failure goes to the browser, which is not told that d is closed.
Disconnected(s) ==
    /\ job[s].op = "disconnect"
    /\ \E ok \in BOOLEAN :
          /\ CallDisconnect(job[s].dev, ok)
          /\ told' = IF ok THEN [told EXCEPT ![s][job[s].dev] = "closed"] ELSE told
    /\ Becomes(s, Idle)
    /\ UNCHANGED <<bookVars, watch, relay>>

-----------------------------------------------------------------------------
(* The watch and what it relays *)

\* disconnect_events subscribes to the broadcast.  It is tried once.
WatchStarts(s) ==
    /\ watch[s] = "starting"
    /\ \E w \in {"listening", "dead"} : watch' = [watch EXCEPT ![s] = w]
    /\ UNCHANGED <<linkVars, job, bookVars, heard, relay, told, mishaps>>

RelayFrame == UNCHANGED <<linkVars, job, bookVars, watch, told, mishaps>>

RelayUnbounded(s) ==
    /\ watch[s] = "listening"
    /\ heard[s] # <<>>
    /\ heard' = [heard EXCEPT ![s] = Tail(@)]
    /\ relay' = [relay EXCEPT ![s] = Append(@, Head(heard[s]))]
    /\ RelayFrame

RelayOrLose(s) ==
    /\ watch[s] = "listening"
    /\ heard[s] # <<>>
    /\ heard' = [heard EXCEPT ![s] = Tail(@)]
    /\ relay' = IF Len(relay[s]) < Capacity
                THEN [relay EXCEPT ![s] = Append(@, Head(heard[s]))]
                ELSE relay
    /\ RelayFrame

\* The watch waits for room in the channel to the loop.
Relay(s) ==
    /\ watch[s] = "listening"
    /\ heard[s] # <<>>
    /\ Len(relay[s]) < Capacity
    /\ heard' = [heard EXCEPT ![s] = Tail(@)]
    /\ relay' = [relay EXCEPT ![s] = Append(@, Head(heard[s]))]
    /\ RelayFrame

NoticeIfPumped(s) ==
    LET d == Head(relay[s]).dev IN
    /\ job[s] = Idle
    /\ relay[s] # <<>>
    /\ relay' = [relay EXCEPT ![s] = Tail(@)]
    /\ IF pumping[s][d] = {}
       THEN UNCHANGED <<bookVars, told, mishaps>>
       ELSE /\ Forget(s, d)
            /\ told' = [told EXCEPT ![s][d] = "dropped"]
            /\ mishaps' = mishaps \cup
                  IF held[s][d] = link[d] THEN {"stale"} ELSE {}
    /\ UNCHANGED <<linkVars, job, watch, heard>>

\* The loop takes a loss: a device in the books leaves them, whatever link it
\* has, and the browser is told; any other is ignored.
Notice(s) ==
    LET d == Head(relay[s]).dev IN
    /\ job[s] = Idle
    /\ relay[s] # <<>>
    /\ relay' = [relay EXCEPT ![s] = Tail(@)]
    /\ IF held[s][d] = 0
       THEN UNCHANGED <<bookVars, told, mishaps>>
       ELSE /\ Forget(s, d)
            /\ told' = [told EXCEPT ![s][d] = "dropped"]
            /\ mishaps' = mishaps \cup
                  IF held[s][d] = link[d] THEN {"stale"} ELSE {}
    /\ UNCHANGED <<linkVars, job, watch, heard>>

PumpOver(s, d, n) ==
    /\ pumping' = [pumping EXCEPT ![s][d] = @ \ {n}]
    /\ stopping' = [stopping EXCEPT ![s][d] = @ \ {n}]
    /\ UNCHANGED <<linkVars, job, held, pumps, watchVars, told, mishaps>>

\* A pump ends when the notifications do, and they may never end.
PumpEnds(s, d) == \E n \in pumping[s][d] \ stopping[s][d] : PumpOver(s, d, n)

\* A pump that was aborted gets to its next await, the next notification or the
\* channel to the browser, and is dropped there.
PumpStops(s, d) == \E n \in stopping[s][d] : PumpOver(s, d, n)

-----------------------------------------------------------------------------
(* The end of a session *)

DetachPumps(s) == UNCHANGED stopping

\* The browser has gone: the watch and the pumps are aborted.  That the watch may
\* run on makes no difference: nobody reads what it relays.
AbortPumps(s) ==
    stopping' = [stopping EXCEPT ![s] =
                     [d \in Devices |-> @[d] \cup (pumping[s][d] \cap {pumps[s][d]})]]

Teardown(s) ==
    /\ job[s] = Idle
    /\ Becomes(s, [op |-> "teardown"])
    /\ watch' = [watch EXCEPT ![s] = "dead"]
    /\ heard' = [heard EXCEPT ![s] = <<>>]
    /\ relay' = [relay EXCEPT ![s] = <<>>]
    /\ AbortPumps(s)
    /\ pumps' = [pumps EXCEPT ![s] = [d \in Devices |-> 0]]
    /\ UNCHANGED <<linkVars, held, pumping, told, mishaps>>

TeardownForgets(s) ==
    /\ job[s].op = "teardown"
    /\ held' = [held EXCEPT ![s] = [d \in Devices |-> 0]]
    /\ UNCHANGED <<linkVars, job, pumps, pumping, stopping, watchVars, told, mishaps>>

\* Then the connections are closed one after the other; a failure is ignored.
CloseConnection(s) ==
    /\ job[s].op = "teardown"
    /\ \E d \in Devices :
          /\ held[s][d] # 0
          /\ \E ok \in BOOLEAN : CallDisconnect(d, ok)
          /\ held' = [held EXCEPT ![s][d] = 0]
    /\ UNCHANGED <<job, pumps, pumping, stopping, watch, relay, told>>

Closes(s) ==
    /\ job[s].op = "teardown"
    /\ \A d \in Devices : held[s][d] = 0
    /\ Becomes(s, [op |-> "closed"])
    /\ UNCHANGED <<linkVars, bookVars, watchVars, told, mishaps>>

\* The session then awaits its writer, which ends when the last sender to the
\* browser is gone; each pump that runs has one.
SessionEnds(s) == Closes(s) /\ \A d \in Devices : pumping[s][d] = {}

\* The writer also ends when a send to the socket fails, whatever senders are left.
SendFails(s) == Closes(s) /\ \E d \in Devices : pumping[s][d] # {}

-----------------------------------------------------------------------------
(* Specification *)

Init ==
    /\ link = [d \in Devices |-> 0]
    /\ connects = 0
    /\ job = [s \in Sessions |-> Idle]
    /\ held = [s \in Sessions |-> [d \in Devices |-> 0]]
    /\ pumps = [s \in Sessions |-> [d \in Devices |-> 0]]
    /\ pumping = [s \in Sessions |-> [d \in Devices |-> {}]]
    /\ stopping = [s \in Sessions |-> [d \in Devices |-> {}]]
    /\ watch = [s \in Sessions |-> "none"]
    /\ heard = [s \in Sessions |-> <<>>]
    /\ relay = [s \in Sessions |-> <<>>]
    /\ told = [s \in Sessions |-> [d \in Devices |-> "nothing"]]
    /\ mishaps = {}

Terminated == (\A s \in Sessions : job[s].op = "closed") /\ UNCHANGED vars

Handles(s) == \/ Connected(s) \/ Discovered(s) \/ Subscribed(s) \/ Entered(s)
              \/ Used(s) \/ Disconnected(s)
Ends(s)    == CloseConnection(s) \/ SessionEnds(s)

Next ==
    \/ \E s \in Sessions :
          \/ \E d \in Devices : \/ HandleConnect(s, d) \/ Use(s, d)
                               \/ HandleDisconnect(s, d)
                               \/ PumpEnds(s, d) \/ PumpStops(s, d)
          \/ Handles(s) \/ WatchStarts(s) \/ Relay(s) \/ Notice(s)
          \/ Teardown(s) \/ Ends(s) \/ SendFails(s)
    \/ \E d \in Devices : Drop(d)
    \/ Terminated

Spec == Init /\ [][Next]_vars

\* Fairness.  The adapter answers its calls, the tasks are scheduled, so that one
\* that was aborted gets to its next await, and the select! of the loop, which is
\* not biased, does not pass over a relayed loss for ever.  Notifications need not
\* end, and a send to the socket need not fail.
Fairness ==
    \A s \in Sessions :
        /\ WF_vars(Handles(s)) /\ WF_vars(Ends(s)) /\ WF_vars(WatchStarts(s))
        /\ WF_vars(Relay(s)) /\ SF_vars(Notice(s))
        /\ \A d \in Devices : WF_vars(PumpStops(s, d))

FairSpec == Spec /\ Fairness

-----------------------------------------------------------------------------
(* Properties *)

\* Every variable stays in its range; in particular the channel to the loop
\* never holds more than DISCONNECT_CHANNEL_CAPACITY losses.
TypeOK ==
    /\ link \in [Devices -> Numbers]
    /\ connects \in Numbers
    /\ job \in [Sessions -> Jobs]
    /\ held \in [Sessions -> [Devices -> Numbers]]
    /\ pumps \in [Sessions -> [Devices -> Numbers]]
    /\ pumping \in [Sessions -> [Devices -> SUBSET Numbers]]
    /\ stopping \in [Sessions -> [Devices -> SUBSET Numbers]]
    /\ watch \in [Sessions -> {"none", "starting", "listening", "dead"}]
    /\ heard \in [Sessions -> Seq(Losses)]
    /\ relay \in [Sessions -> Seq(Losses)]
    /\ \A s \in Sessions : Len(heard[s]) <= Backlog /\ Len(relay[s]) <= Capacity
    /\ told \in [Sessions -> [Devices -> {"nothing", "connected", "dropped", "closed"}]]
    /\ mishaps \subseteq Mishaps

\* The pump of a connect that is about to enter the books.
Spawned(s, d) ==
    {n \in Numbers : job[s].op = "entering" /\ job[s].dev = d /\ job[s].num = n}

\* No pump is orphaned ("A reconnect under the same id orphaned the still-running
\* old pump; stop it", session.rs): each that runs is the one in the books, the one
\* about to enter them, or was told to stop; and a device that is not connected,
\* also of a session that has ended, has none that was not.  Two may deliver the
\* same notification for a moment, the old pump of a reconnect and the new one.
NoPumpOrphaned ==
    \A s \in Sessions, d \in Devices :
        LET left == pumping[s][d] \ (stopping[s][d] \cup Spawned(s, d)) IN
        /\ left \subseteq {pumps[s][d]}
        /\ held[s][d] = 0 => left = {}

\* As long as no call fails and no loss is mistaken for a later one, each link is
\* in the books of a session or in the hands of its loop; so none is left when
\* the sessions have ended (session.rs, "Stops every ... live connection").
LinksAccounted ==
    mishaps \subseteq {"missed"} =>
        \A d \in Devices :
            link[d] # 0 =>
                \E s \in Sessions :
                    \/ held[s][d] # 0
                    \/ job[s].op \in {"discover", "notifications", "entering", "disconnect"}
                       /\ job[s].dev = d

\* If every watch that was needed has been listening, a connection in the books
\* whose link is gone has its loss on the way to the loop.
LossesOnTheWay ==
    "missed" \notin mishaps =>
        \A s \in Sessions, d \in Devices :
            held[s][d] \notin {0, link[d]} /\ job[s].op \notin {"teardown", "closed"} =>
                \E queue \in {heard[s], relay[s]} : \E i \in DOMAIN queue :
                    queue[i] = [dev |-> d, link |-> held[s][d]]

\* What the browser was last told of a device is what the books say, unless a
\* disconnect it asked for has failed.
BrowserAgrees ==
    "disconnect" \notin mishaps =>
        \A s \in Sessions, d \in Devices :
            job[s].op \notin {"disconnect", "teardown", "closed"} =>
                (told[s][d] = "connected" <=> held[s][d] # 0)

\* The books of the sessions agree with both their sides, the links of the adapter
\* and what the browsers believe (ble/session.rs, connected).
BooksAgree == LinksAccounted /\ BrowserAgrees

\* A connection whose link is gone does not stay in the books, unless its loss
\* was missed.
DeadConnectionsLeave ==
    \A s \in Sessions, d \in Devices :
        held[s][d] \notin {0, link[d]} ~>
            held[s][d] \in {0, link[d]} \/ "missed" \in mishaps

\* A session whose browser has gone ends: its writer is awaited, and no pump that
\* nobody can stop holds the channel to it open ("Dropping `tx` ends the writer
\* task, which closes the sink", session.rs).
TeardownEnds ==
    \A s \in Sessions : job[s].op = "teardown" ~> job[s].op = "closed"

-----------------------------------------------------------------------------
(* What comments of the code say that the code does not do *)

\* "Unsolicited: a connected peripheral dropped its connection" (protocol.rs): a
\* session tells so only of a connection whose link is gone.
NoticesAreTrue ==
    [][\A s \in Sessions, d \in Devices :
          told[s][d] # "dropped" /\ told'[s][d] = "dropped" =>
              held[s][d] # link[d]]_vars
=============================================================================
