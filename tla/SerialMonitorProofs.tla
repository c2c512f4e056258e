------------------------- MODULE SerialMonitorProofs -------------------------
(***************************************************************************)
(* Theorems of SerialMonitor, for any number of sessions, ports and opens, *)
(* and any capacity of the channel.                                        *)
(***************************************************************************)
EXTENDS SerialMonitor, TLAPS

-----------------------------------------------------------------------------
(* The inductive invariant *)

\* The handler of the monitorOpen of m has not returned.
Opening(m) == cur[owner[m]] = m /\ loop[owner[m]] \in {"calling", "confirming"}

Running == {"pumping", "sending", "failing"}

\* The monitor is in the slot of its session, or is being closed.
Held(m) ==
    \/ slot[owner[m]] = m
    \/ cur[owner[m]] = m /\ loop[owner[m]] \in {"asking", "joining"}

\* A session has one monitor in hand at most: the one in its slot, or the one
\* its read loop is busy with.
HandOf(s) ==
    /\ loop[s] \in {"calling", "confirming", "asking", "joining"} <=> cur[s] # 0
    /\ cur[s] # 0 \/ loop[s] = "closed" => slot[s] = 0
    /\ loop[s] = "writing" => slot[s] # 0
    /\ slot[s] # 0 => slot[s] <= opens /\ owner[slot[s]] = s
    /\ cur[s] # 0 => cur[s] <= opens /\ owner[cur[s]] = s

Hands == \A s \in Sessions : HandOf(s)

\* What has become of a monitor, by the state of its pump.
StageOf(m) ==
    /\ m <= opens => owner[m] \in Sessions /\ wanted[m] \in Ports
    /\ m > opens => /\ pump[m] = "none" /\ call[m] = "none" /\ daemon[m] = "none"
                    /\ events[m] = <<>> /\ answers[m] = <<>>
    /\ m <= opens /\ Opening(m) =>
          pump[m] = "none" /\ answers[m] = <<>> /\ call[m] # "dropped"
    /\ m <= opens /\ ~Opening(m) /\ pump[m] = "none" =>
          answers[m] = <<"error">> /\ call[m] = "dropped"
    /\ pump[m] \in Running =>
          answers[m] = <<"result">> /\ Held(m)
    /\ pump[m] = "ended" =>
          /\ call[m] = "dropped"
          /\ answers[m] \in {<<"result">>, <<"result", "error">>}

Stages == \A m \in Monitors : StageOf(m)

\* The daemon is ahead of what it has told: who has heard of an error, or of the
\* end, finds the call over, and a call that is over holds no port.
DaemonSide ==
    /\ \A p \in Ports : port[p] # 0 => daemon[port[p]] = "serving"
    /\ \A m \in Monitors :
          /\ daemon[m] = "called" => pump[m] = "none" /\ events[m] = <<>>
          /\ pump[m] \in {"failing", "ended"} => daemon[m] = "over"
          /\ \A i \in DOMAIN events[m] : events[m][i] = "error" => daemon[m] = "over"

MonitorInv == TypeOK /\ Hands /\ Stages /\ DaemonSide

\* A monitor that was asked for is one of Monitors.
LEMMA Counted ==
    ASSUME TypeOK
    PROVE  /\ opens \in Nat /\ opens <= MaxOpens
           /\ \A m \in Monitors : m \in Nat /\ m # 0
           /\ \A n \in Nat : n # 0 /\ n <= MaxOpens => n \in Monitors
BY BoundsAssumption DEF TypeOK, Monitors

\* The hands of a session hold monitors.
LEMMA InHand ==
    ASSUME TypeOK, Hands, NEW s \in Sessions
    PROVE  /\ slot[s] # 0 => slot[s] \in Monitors
           /\ cur[s] # 0 => cur[s] \in Monitors
           /\ loop[s] \in {"calling", "confirming", "asking", "joining"} => cur[s] \in Monitors
BY DEF TypeOK, Hands, HandOf

\* Queues keep their type when an entry is added or taken.
LEMMA QueueUpdate ==
    ASSUME NEW S, NEW T, NEW f \in [S -> Seq(T)], NEW x \in S
    PROVE  /\ \A v \in T : [f EXCEPT ![x] = Append(@, v)] \in [S -> Seq(T)]
           /\ f[x] # <<>> => [f EXCEPT ![x] = Tail(@)] \in [S -> Seq(T)]
OBVIOUS

LEMMA TailEntry ==
    ASSUME NEW T, NEW q \in Seq(T), q # <<>>
    PROVE  \A i \in DOMAIN Tail(q) : i + 1 \in DOMAIN q /\ q[i + 1] = Tail(q)[i]
OBVIOUS

\* The initial state.
LEMMA InitInv == Init => MonitorInv
<1> SUFFICES ASSUME Init PROVE MonitorInv
  OBVIOUS
<1>1. \A m \in Monitors : m > 0
  BY DEF Monitors
<1>2. TypeOK
  BY BoundsAssumption DEF Init, TypeOK, Loops, Calls
<1>3. Hands
  BY DEF Init, Hands, HandOf
<1>4. Stages
  BY <1>1 DEF Init, Stages, StageOf, Running, Opening, Monitors
<1>5. DaemonSide
  BY DEF Init, DaemonSide
<1> QED
  BY <1>2, <1>3, <1>4, <1>5 DEF MonitorInv

-----------------------------------------------------------------------------
(* What a step leaves alone *)

\* A session whose loop does not move keeps its hands.
LEMMA SameHand ==
    ASSUME Hands, NEW t \in Sessions, UNCHANGED openVars,
           loop'[t] = loop[t], cur'[t] = cur[t], slot'[t] = slot[t]
    PROVE  HandOf(t)'
BY DEF Hands, HandOf, openVars

\* A monitor that is neither answered nor handed on keeps its stage.
LEMMA SameStage ==
    ASSUME MonitorInv, NEW m \in Monitors, UNCHANGED openVars,
           pump'[m] = pump[m], answers'[m] = answers[m],
           call'[m] = "dropped" <=> call[m] = "dropped",
           m > opens => /\ call'[m] = call[m] /\ daemon'[m] = daemon[m]
                        /\ events'[m] = events[m],
           m <= opens => /\ Opening(m)' <=> Opening(m)
                         /\ pump[m] \in Running /\ Held(m) => Held(m)'
    PROVE  StageOf(m)'
<1>1. StageOf(m) /\ (m > opens \/ m <= opens) /\ ~(m > opens /\ m <= opens)
  BY Counted DEF MonitorInv, Stages
<1>2. owner' = owner /\ wanted' = wanted /\ opens' = opens
  BY DEF openVars
<1>3. CASE m > opens
  BY <1>1, <1>2, <1>3 DEF StageOf, Running
<1>4. CASE m <= opens
  BY <1>1, <1>2, <1>4 DEF StageOf
<1> QED
  BY <1>1, <1>3, <1>4

\* The daemon's side does not depend on the loop.
LEMMA SameDaemonSide ==
    ASSUME DaemonSide, UNCHANGED <<daemonVars, pump>>
    PROVE  DaemonSide'
BY DEF DaemonSide, daemonVars

\* A session that opens a monitor has that one in hand and no other.
LEMMA OpeningHand ==
    ASSUME MonitorInv, NEW s \in Sessions, loop[s] \in {"calling", "confirming"}
    PROVE  /\ cur[s] \in Monitors /\ cur[s] # 0 /\ cur[s] <= opens
           /\ owner[cur[s]] = s /\ slot[s] = 0
           /\ pump[cur[s]] = "none" /\ answers[cur[s]] = <<>>
           /\ call[cur[s]] # "dropped"
<1>1. TypeOK /\ Hands /\ Stages /\ HandOf(s)
  BY DEF MonitorInv, Hands
<1>2. cur[s] \in Monitors /\ cur[s] # 0 /\ cur[s] <= opens /\ owner[cur[s]] = s
      /\ slot[s] = 0
  BY <1>1, InHand DEF HandOf
<1>3. StageOf(cur[s]) /\ Opening(cur[s])
  BY <1>1, <1>2 DEF Stages, Opening
<1> QED
  BY <1>2, <1>3 DEF StageOf

-----------------------------------------------------------------------------
(* The read loop *)

\* monitorOpen.
LEMMA OpenKeeps ==
    ASSUME MonitorInv, NEW s \in Sessions, NEW p \in Ports, Open(s, p)
    PROVE  MonitorInv'
<1> DEFINE n == opens + 1
<1>1. TypeOK /\ Hands /\ Stages /\ DaemonSide
  BY DEF MonitorInv
<1>2. n \in Monitors /\ opens' = n /\ n = opens + 1 /\ n # 0
  BY <1>1, BoundsAssumption DEF Open, StartOpen, TypeOK, Monitors
<1>3. /\ owner' = [owner EXCEPT ![n] = s] /\ wanted' = [wanted EXCEPT ![n] = p]
      /\ call' = [call EXCEPT ![n] = "open"] /\ daemon' = [daemon EXCEPT ![n] = "called"]
      /\ cur' = [cur EXCEPT ![s] = n] /\ loop' = [loop EXCEPT ![s] = "calling"]
      /\ loop[s] = "reading" /\ slot[s] = 0
      /\ UNCHANGED <<gone, slot, cmds, events, pump, port, answers>>
  BY <1>2 DEF Open, StartOpen
<1> HIDE DEF n
<1>4. TypeOK'
  BY <1>1, <1>2, <1>3 DEF TypeOK, Loops, Calls
<1>5. cur[s] = 0
  BY <1>1, <1>3 DEF Hands, HandOf
<1>6. \A t \in Sessions : slot[t] # n /\ cur[t] # n
  BY <1>1, <1>2, Counted DEF Hands, HandOf
<1>7. Hands'
  <2> SUFFICES ASSUME NEW t \in Sessions PROVE HandOf(t)'
    BY DEF Hands
  <2>1. HandOf(t)
    BY <1>1 DEF Hands
  <2>2. CASE t = s
    <3>1. /\ loop'[t] = "calling" /\ cur'[t] = n /\ slot'[t] = 0 /\ owner'[n] = s
          /\ n <= opens'
      BY <1>1, <1>2, <1>3, <2>2, Counted DEF TypeOK
    <3> QED
      BY <1>2, <2>2, <3>1 DEF HandOf
  <2>3. CASE t # s
    <3>1. loop'[t] = loop[t] /\ cur'[t] = cur[t] /\ slot'[t] = slot[t]
      BY <1>1, <1>3, <2>3 DEF TypeOK
    <3>2. slot[t] # 0 => slot[t] \in Monitors /\ slot[t] <= opens'
                         /\ owner'[slot[t]] = owner[slot[t]]
      <4> SUFFICES ASSUME slot[t] # 0
                   PROVE  slot[t] \in Monitors /\ slot[t] <= opens'
                          /\ owner'[slot[t]] = owner[slot[t]]
        OBVIOUS
      <4>1. slot[t] \in Monitors /\ slot[t] \in Nat /\ slot[t] # n
        BY <1>1, <1>6, InHand, Counted
      <4>2. slot[t] <= opens /\ opens \in Nat
        BY <1>1, <2>1, Counted DEF HandOf
      <4> QED
        BY <1>1, <1>2, <1>3, <4>1, <4>2 DEF TypeOK
    <3>3. cur[t] # 0 => cur[t] \in Monitors /\ cur[t] <= opens'
                        /\ owner'[cur[t]] = owner[cur[t]]
      <4> SUFFICES ASSUME cur[t] # 0
                   PROVE  cur[t] \in Monitors /\ cur[t] <= opens'
                          /\ owner'[cur[t]] = owner[cur[t]]
        OBVIOUS
      <4>1. cur[t] \in Monitors /\ cur[t] \in Nat /\ cur[t] # n
        BY <1>1, <1>6, InHand, Counted
      <4>2. cur[t] <= opens /\ opens \in Nat
        BY <1>1, <2>1, Counted DEF HandOf
      <4> QED
        BY <1>1, <1>2, <1>3, <4>1, <4>2 DEF TypeOK
    <3> QED
      BY <2>1, <3>1, <3>2, <3>3 DEF HandOf
  <2> QED
    BY <2>2, <2>3
<1>8. ASSUME NEW m \in Monitors PROVE StageOf(m)'
  <2>1. StageOf(m)
    BY <1>1 DEF Stages
  <2>2. CASE m = n
    BY <1>1, <1>2, <1>3, <2>1, <2>2, Counted DEF StageOf, TypeOK, Opening, Running
  <2>3. CASE m # n
    <3>1. (m > opens' <=> m > opens) /\ (m <= opens' <=> m <= opens)
      BY <1>1, <1>2, <2>3, Counted
    <3>2. /\ owner'[m] = owner[m] /\ wanted'[m] = wanted[m] /\ call'[m] = call[m]
          /\ daemon'[m] = daemon[m]
      BY <1>1, <1>3, <2>3 DEF TypeOK
    <3>3. CASE m > opens
      BY <1>1, <1>3, <2>1, <3>1, <3>2, <3>3, Counted DEF StageOf, Running
    <3>4. CASE m <= opens
      <4>1. owner[m] \in Sessions
        BY <2>1, <3>4 DEF StageOf
      <4>2. (Opening(m)' <=> Opening(m)) /\ (Held(m) => Held(m)')
        BY <1>1, <1>3, <1>5, <2>3, <3>2, <4>1, Counted DEF TypeOK, Opening, Held
      <4> QED
        BY <1>3, <2>1, <3>1, <3>2, <3>4, <4>1, <4>2 DEF StageOf
    <3> QED
      BY <1>1, <3>3, <3>4, Counted
  <2> QED
    BY <2>2, <2>3
<1>9. DaemonSide'
  <2>1. StageOf(n) /\ n > opens
    BY <1>1, <1>2, Counted DEF Stages
  <2> QED
    BY <1>1, <1>2, <1>3, <2>1 DEF DaemonSide, StageOf, TypeOK
<1> QED
  BY <1>4, <1>7, <1>8, <1>9 DEF MonitorInv, Stages

\* A loop that moves while no monitor is being opened and none leaves its hands:
\* monitorWrite, and monitorClose up to the join.
LEMMA LoopKeeps ==
    ASSUME MonitorInv, NEW s \in Sessions, TypeOK', HandOf(s)',
           UNCHANGED <<openVars, call, daemonVars, pump, answers>>,
           \A t \in Sessions : t # s =>
               loop'[t] = loop[t] /\ cur'[t] = cur[t] /\ slot'[t] = slot[t],
           loop[s] \notin {"calling", "confirming"},
           loop'[s] \notin {"calling", "confirming"},
           \A m \in Monitors : owner[m] = s /\ pump[m] \in Running /\ Held(m)
               => slot'[s] = m \/ (cur'[s] = m /\ loop'[s] \in {"asking", "joining"})
    PROVE  MonitorInv'
<1>1. TypeOK /\ Hands /\ Stages /\ DaemonSide
  BY DEF MonitorInv
<1>2. Hands'
  <2> SUFFICES ASSUME NEW t \in Sessions PROVE HandOf(t)'
    BY DEF Hands
  <2> QED
    BY <1>1, SameHand
<1>3. ASSUME NEW m \in Monitors PROVE StageOf(m)'
  <2>1. owner' = owner /\ opens' = opens /\ UNCHANGED openVars
    BY DEF openVars
  <2>2. m <= opens => owner[m] \in Sessions
    BY <1>1 DEF Stages, StageOf
  <2>3. m <= opens => (Opening(m)' <=> Opening(m))
    BY <2>1, <2>2 DEF Opening
  <2>4. m <= opens /\ pump[m] \in Running /\ Held(m) => Held(m)'
    BY <2>1, <2>2 DEF Held
  <2> QED
    BY <2>1, <2>3, <2>4, SameStage DEF daemonVars
<1>4. DaemonSide'
  BY <1>1, SameDaemonSide
<1> QED
  BY <1>2, <1>3, <1>4 DEF MonitorInv, Stages

\* The open has failed.
LEMMA FailKeeps ==
    ASSUME MonitorInv, NEW s \in Sessions, loop[s] \in {"calling", "confirming"},
           FailOpen(s), UNCHANGED <<gone, openVars, cmds, daemonVars>>
    PROVE  MonitorInv'
<1> DEFINE c == cur[s]
<1>1. TypeOK /\ Hands /\ Stages /\ DaemonSide
  BY DEF MonitorInv
<1>2. /\ c \in Monitors /\ c # 0 /\ c <= opens /\ owner[c] = s /\ slot[s] = 0
      /\ pump[c] = "none" /\ answers[c] = <<>>
  BY OpeningHand
<1>3. /\ answers' = [answers EXCEPT ![c] = Append(@, "error")]
      /\ call' = [call EXCEPT ![c] = "dropped"]
      /\ cur' = [cur EXCEPT ![s] = 0] /\ loop' = [loop EXCEPT ![s] = "reading"]
      /\ UNCHANGED <<slot, pump, gone, opens, owner, wanted, cmds, daemon, events, port>>
  BY DEF FailOpen, openVars, daemonVars
<1> HIDE DEF c
<1>4. TypeOK'
  <2>1. answers' \in [Monitors -> Seq({"result", "error"})]
    BY <1>1, <1>2, <1>3, QueueUpdate DEF TypeOK
  <2> QED
    BY <1>1, <1>2, <1>3, <2>1 DEF TypeOK, Loops, Calls
<1>5. Hands'
  <2> SUFFICES ASSUME NEW t \in Sessions PROVE HandOf(t)'
    BY DEF Hands
  <2>1. CASE t = s
    BY <1>1, <1>2, <1>3, <2>1 DEF HandOf, TypeOK
  <2>2. CASE t # s
    BY <1>1, <1>3, <2>2, SameHand DEF openVars, TypeOK
  <2> QED
    BY <2>1, <2>2
<1>6. ASSUME NEW m \in Monitors PROVE StageOf(m)'
  <2>1. CASE m = c
    <3>1. ~Opening(m)' /\ answers'[m] = <<"error">> /\ call'[m] = "dropped"
          /\ pump'[m] = "none"
      BY <1>1, <1>2, <1>3, <2>1, Counted DEF Opening, TypeOK
    <3>2. m <= opens' /\ ~(m > opens') /\ owner'[m] = s
      BY <1>1, <1>2, <1>3, <2>1, Counted
    <3>3. wanted'[m] \in Ports
      BY <1>1, <1>2, <1>3, <2>1 DEF Stages, StageOf
    <3> QED
      BY <3>1, <3>2, <3>3 DEF StageOf, Running
  <2>2. CASE m # c
    <3>1. m <= opens => owner[m] \in Sessions
      BY <1>1 DEF Stages, StageOf
    <3>2. m <= opens => (Opening(m)' <=> Opening(m)) /\ (Held(m) => Held(m)')
      BY <1>1, <1>2, <1>3, <2>2, <3>1, Counted DEF Opening, Held, TypeOK, c
    <3>3. answers'[m] = answers[m] /\ call'[m] = call[m]
      BY <1>1, <1>3, <2>2 DEF TypeOK
    <3> QED
      BY <1>3, <3>2, <3>3, SameStage DEF openVars
  <2> QED
    BY <2>1, <2>2
<1>7. DaemonSide'
  BY <1>1, <1>3, SameDaemonSide DEF daemonVars
<1> QED
  BY <1>4, <1>5, <1>6, <1>7 DEF MonitorInv, Stages

\* The call is made.
LEMMA CallKeeps ==
    ASSUME MonitorInv, NEW s \in Sessions, CallReturns(s)
    PROVE  MonitorInv'
<1>1. TypeOK /\ Hands /\ Stages /\ DaemonSide /\ loop[s] = "calling"
  BY DEF MonitorInv, CallReturns
<1>2. CASE FailOpen(s)
  BY <1>1, <1>2, FailKeeps DEF CallReturns
<1>3. CASE /\ loop' = [loop EXCEPT ![s] = "confirming"]
           /\ UNCHANGED <<slot, cur, call, pump, answers>>
  <2>1. UNCHANGED <<gone, openVars, cmds, daemonVars>>
    BY DEF CallReturns
  <2>2. TypeOK'
    BY <1>1, <1>3, <2>1 DEF TypeOK, Loops, openVars, daemonVars
  <2>3. Hands'
    <3> SUFFICES ASSUME NEW t \in Sessions PROVE HandOf(t)'
      BY DEF Hands
    <3>1. CASE t = s
      BY <1>1, <1>3, <2>1, <3>1 DEF Hands, HandOf, TypeOK, openVars
    <3>2. CASE t # s
      BY <1>1, <1>3, <2>1, <3>2, SameHand DEF TypeOK
    <3> QED
      BY <3>1, <3>2
  <2>4. ASSUME NEW m \in Monitors PROVE StageOf(m)'
    <3>1. m <= opens => owner[m] \in Sessions
      BY <1>1 DEF Stages, StageOf
    <3>2. m <= opens => (Opening(m)' <=> Opening(m)) /\ (Held(m) => Held(m)')
      BY <1>1, <1>3, <2>1, <3>1 DEF Opening, Held, TypeOK, openVars
    <3> QED
      BY <1>3, <2>1, <3>2, SameStage DEF daemonVars
  <2>5. DaemonSide'
    BY <1>1, <1>3, <2>1, SameDaemonSide
  <2> QED
    BY <2>2, <2>3, <2>4, <2>5 DEF MonitorInv, Stages
<1> QED
  BY <1>2, <1>3 DEF CallReturns

\* The first event is Opened.
LEMMA OpenedKeeps ==
    ASSUME MonitorInv, NEW s \in Sessions, NEW c \in Monitors, c = cur[s],
           loop[s] = "confirming", events[c] # <<>>, Head(events[c]) = "opened",
           events' = [events EXCEPT ![c] = Tail(@)],
           answers' = [answers EXCEPT ![c] = Append(@, "result")],
           pump' = [pump EXCEPT ![c] = "pumping"],
           slot' = [slot EXCEPT ![s] = c],
           cur' = [cur EXCEPT ![s] = 0],
           loop' = [loop EXCEPT ![s] = "reading"],
           UNCHANGED <<call, gone, openVars, cmds, daemon, port>>
    PROVE  MonitorInv'
<1>1. TypeOK /\ Hands /\ Stages /\ DaemonSide
  BY DEF MonitorInv
<1>2. /\ c # 0 /\ c <= opens /\ owner[c] = s /\ slot[s] = 0
      /\ pump[c] = "none" /\ answers[c] = <<>> /\ call[c] # "dropped"
  BY OpeningHand
<1>3. UNCHANGED <<opens, owner, wanted>>
  BY DEF openVars
<1>4. TypeOK'
  <2>1. answers' \in [Monitors -> Seq({"result", "error"})]
    BY <1>1, QueueUpdate DEF TypeOK
  <2>2. events' \in [Monitors -> Seq({"opened", "data", "error"})]
    BY <1>1, QueueUpdate DEF TypeOK
  <2> QED
    BY <1>1, <1>3, <2>1, <2>2 DEF TypeOK, Loops
<1>5. Hands'
  <2> SUFFICES ASSUME NEW t \in Sessions PROVE HandOf(t)'
    BY DEF Hands
  <2>1. CASE t = s
    BY <1>1, <1>2, <1>3, <2>1 DEF HandOf, TypeOK
  <2>2. CASE t # s
    BY <1>1, <2>2, SameHand DEF TypeOK
  <2> QED
    BY <2>1, <2>2
<1>6. ASSUME NEW m \in Monitors PROVE StageOf(m)'
  <2>1. CASE m = c
    <3>1. /\ ~Opening(m)' /\ Held(m)' /\ answers'[m] = <<"result">>
          /\ pump'[m] = "pumping"
      BY <1>1, <1>2, <1>3, <2>1, Counted DEF Opening, Held, TypeOK
    <3>2. m <= opens' /\ ~(m > opens') /\ owner'[m] = s
      BY <1>1, <1>2, <1>3, <2>1, Counted
    <3>3. wanted'[m] \in Ports
      BY <1>1, <1>2, <1>3, <2>1 DEF Stages, StageOf
    <3> QED
      BY <3>1, <3>2, <3>3 DEF StageOf, Running
  <2>2. CASE m # c
    <3>1. m <= opens => owner[m] \in Sessions
      BY <1>1 DEF Stages, StageOf
    <3>2. m <= opens => (Opening(m)' <=> Opening(m)) /\ (Held(m) => Held(m)')
      BY <1>1, <1>2, <1>3, <2>2, <3>1, Counted DEF Opening, Held, TypeOK
    <3>3. answers'[m] = answers[m] /\ pump'[m] = pump[m] /\ events'[m] = events[m]
      BY <1>1, <2>2 DEF TypeOK
    <3> QED
      BY <3>2, <3>3, SameStage
  <2> QED
    BY <2>1, <2>2
<1>7. DaemonSide'
  <2>1. daemon[c] # "called"
    BY <1>1 DEF DaemonSide
  <2>2. ASSUME NEW m \in Monitors, NEW i \in DOMAIN events'[m], events'[m][i] = "error"
        PROVE  daemon[m] = "over"
    <3>1. CASE m = c
      <4>1. events'[m] = Tail(events[m]) /\ events[m] \in Seq({"opened", "data", "error"})
        BY <1>1, <3>1 DEF TypeOK
      <4>2. i + 1 \in DOMAIN events[m] /\ events[m][i + 1] = "error"
        <5>1. events[m] # <<>> /\ i \in DOMAIN Tail(events[m]) /\ Tail(events[m])[i] = "error"
          BY <2>2, <3>1, <4>1
        <5> QED
          BY <4>1, <5>1, TailEntry
      <4> QED
        BY <1>1, <4>2 DEF DaemonSide
    <3>2. CASE m # c
      BY <1>1, <2>2, <3>2 DEF DaemonSide, TypeOK
    <3> QED
      BY <3>1, <3>2
  <2> QED
    BY <1>1, <2>1, <2>2 DEF DaemonSide, TypeOK
<1> QED
  BY <1>4, <1>5, <1>6, <1>7 DEF MonitorInv, Stages

LEMMA ConfirmKeeps ==
    ASSUME MonitorInv, NEW s \in Sessions, Confirm(s)
    PROVE  MonitorInv'
<1>1. loop[s] = "confirming" /\ cur[s] \in Monitors
  BY OpeningHand DEF Confirm
<1>2. CASE FailOpen(s) /\ UNCHANGED events
  BY <1>1, <1>2, FailKeeps DEF Confirm, daemonVars
<1>3. CASE ~(FailOpen(s) /\ UNCHANGED events)
  <2> DEFINE c == cur[s]
  <2>1. /\ events[c] # <<>> /\ Head(events[c]) = "opened"
        /\ events' = [events EXCEPT ![c] = Tail(@)]
        /\ answers' = [answers EXCEPT ![c] = Append(@, "result")]
        /\ pump' = [pump EXCEPT ![c] = "pumping"]
        /\ slot' = [slot EXCEPT ![s] = c]
        /\ cur' = [cur EXCEPT ![s] = 0]
        /\ loop' = [loop EXCEPT ![s] = "reading"]
        /\ UNCHANGED <<call, gone, openVars, cmds, daemon, port>>
    BY <1>3 DEF Confirm
  <2> QED
    BY <1>1, <2>1, OpenedKeeps
<1> QED
  BY <1>2, <1>3

\* A command is put into the channel of a monitor, if there is room.
LEMMA SendTypes ==
    ASSUME TypeOK, NEW m \in Monitors, NEW command \in {"write", "close"},
           Send(m, command)
    PROVE  /\ cmds' \in [Monitors -> Seq({"write", "close"})]
           /\ \A k \in Monitors : Len(cmds'[k]) <= Capacity
<1>1. CASE UNCHANGED cmds
  BY <1>1 DEF TypeOK
<1>2. CASE Len(cmds[m]) < Capacity /\ cmds' = [cmds EXCEPT ![m] = Append(@, command)]
  <2>1. cmds' \in [Monitors -> Seq({"write", "close"})]
    BY <1>2, QueueUpdate DEF TypeOK
  <2>2. cmds[m] \in Seq({"write", "close"}) /\ cmds'[m] = Append(cmds[m], command)
    BY <1>2 DEF TypeOK
  <2>3. Len(cmds'[m]) <= Capacity
    BY <1>2, <2>2, BoundsAssumption
  <2> QED
    BY <1>2, <2>1, <2>3 DEF TypeOK
<1> QED
  BY <1>1, <1>2 DEF Send

\* monitorWrite.
LEMMA WriteKeeps ==
    ASSUME MonitorInv, NEW s \in Sessions, ReceiveWrite(s) \/ Write(s)
    PROVE  MonitorInv'
<1>1. TypeOK /\ HandOf(s)
  BY DEF MonitorInv, Hands
<1>2. /\ loop[s] \in {"reading", "writing"} /\ slot[s] # 0
      /\ loop' = [loop EXCEPT ![s] = IF loop[s] = "reading" THEN "writing" ELSE "reading"]
      /\ UNCHANGED <<slot, cur>> /\ CommandFrame
  BY <1>1 DEF ReceiveWrite, Write, HandOf
<1>3. /\ cmds' \in [Monitors -> Seq({"write", "close"})]
      /\ \A k \in Monitors : Len(cmds'[k]) <= Capacity
  <2>1. CASE ReceiveWrite(s)
    BY <1>1, <2>1 DEF ReceiveWrite, TypeOK
  <2>2. CASE Write(s)
    BY <1>1, <1>2, <2>2, SendTypes DEF Write, TypeOK
  <2> QED
    BY <2>1, <2>2
<1>4. TypeOK'
  BY <1>1, <1>2, <1>3 DEF TypeOK, Loops, CommandFrame, openVars, daemonVars
<1>5. HandOf(s)'
  BY <1>1, <1>2 DEF HandOf, TypeOK, CommandFrame, openVars
<1>6. /\ loop'[s] \in {"reading", "writing"}
      /\ \A t \in Sessions : t # s =>
            loop'[t] = loop[t] /\ cur'[t] = cur[t] /\ slot'[t] = slot[t]
      /\ cur[s] = 0 /\ cur'[s] = 0 /\ slot'[s] = slot[s]
  BY <1>1, <1>2 DEF TypeOK, HandOf
<1>7. \A m \in Monitors : owner[m] = s /\ pump[m] \in Running /\ Held(m)
         => slot'[s] = m \/ (cur'[s] = m /\ loop'[s] \in {"asking", "joining"})
  <2> TAKE m \in Monitors
  <2>1. owner[m] = s /\ Held(m) => slot[s] = m \/ cur[s] = m
    BY DEF Held
  <2> QED
    BY <1>1, <1>6, <2>1, Counted
<1>8. /\ loop[s] \notin {"calling", "confirming"} /\ loop'[s] \notin {"calling", "confirming"}
      /\ UNCHANGED <<openVars, call, daemonVars, pump, answers>>
  BY <1>2, <1>6 DEF CommandFrame
<1> QED
  BY <1>4, <1>5, <1>6, <1>7, <1>8, LoopKeeps

\* close_monitor, called for a monitorClose and when the browser has gone.
LEMMA TakeKeeps ==
    ASSUME MonitorInv, NEW s \in Sessions, TakeMonitor(s),
           gone' \in [Sessions -> BOOLEAN]
    PROVE  MonitorInv'
<1>1. TypeOK /\ HandOf(s)
  BY DEF MonitorInv, Hands
<1>2. /\ loop[s] = "reading" /\ slot[s] \in Monitors /\ slot[s] # 0
      /\ cur' = [cur EXCEPT ![s] = slot[s]] /\ slot' = [slot EXCEPT ![s] = 0]
      /\ loop' = [loop EXCEPT ![s] = "asking"]
      /\ UNCHANGED <<openVars, cmds, call, daemonVars, pump, answers>>
  BY <1>1 DEF TakeMonitor, TypeOK
<1>3. TypeOK'
  BY <1>1, <1>2 DEF TypeOK, Loops, openVars, daemonVars
<1>4. /\ loop'[s] = "asking" /\ cur'[s] = slot[s] /\ slot'[s] = 0
      /\ \A t \in Sessions : t # s =>
            loop'[t] = loop[t] /\ cur'[t] = cur[t] /\ slot'[t] = slot[t]
  BY <1>1, <1>2 DEF TypeOK
<1>5. HandOf(s)'
  BY <1>1, <1>2, <1>4 DEF HandOf, openVars
<1>6. \A m \in Monitors : owner[m] = s /\ Held(m) => cur'[s] = m
  BY <1>2, <1>4 DEF Held
<1> QED
  BY <1>2, <1>3, <1>4, <1>5, <1>6, LoopKeeps

LEMMA LeaveKeeps ==
    ASSUME MonitorInv, NEW s \in Sessions, Leave(s)
    PROVE  MonitorInv'
<1>1. TypeOK /\ HandOf(s) /\ gone' \in [Sessions -> BOOLEAN]
  BY DEF MonitorInv, Hands, Leave, TypeOK
<1>2. CASE TakeMonitor(s)
  BY <1>1, <1>2, TakeKeeps
<1>3. CASE /\ loop[s] = "reading" /\ slot[s] = 0
           /\ loop' = [loop EXCEPT ![s] = "closed"]
           /\ UNCHANGED <<slot, cur, openVars, cmds, call, daemonVars, pump, answers>>
  <2>1. TypeOK'
    BY <1>1, <1>3 DEF TypeOK, Loops, openVars, daemonVars
  <2>2. /\ loop'[s] = "closed" /\ cur'[s] = cur[s] /\ slot'[s] = 0
        /\ \A t \in Sessions : t # s =>
              loop'[t] = loop[t] /\ cur'[t] = cur[t] /\ slot'[t] = slot[t]
    BY <1>1, <1>3 DEF TypeOK
  <2>3. HandOf(s)'
    BY <1>1, <1>3, <2>2 DEF HandOf
  <2>4. \A m \in Monitors : owner[m] = s => ~Held(m)
    BY <1>1, <1>3, Counted DEF Held
  <2> QED
    BY <1>3, <2>1, <2>2, <2>3, <2>4, LoopKeeps
<1> QED
  BY <1>2, <1>3 DEF Leave

LEMMA AskKeeps ==
    ASSUME MonitorInv, NEW s \in Sessions, AskClose(s)
    PROVE  MonitorInv'
<1>1. TypeOK /\ HandOf(s) /\ loop[s] = "asking" /\ cur[s] \in Monitors
  BY InHand DEF MonitorInv, Hands, AskClose
<1>2. /\ Send(cur[s], "close") /\ loop' = [loop EXCEPT ![s] = "joining"]
      /\ UNCHANGED <<slot, cur>> /\ CommandFrame
  BY DEF AskClose
<1>3. TypeOK'
  BY <1>1, <1>2, SendTypes DEF TypeOK, Loops, CommandFrame, openVars, daemonVars
<1>4. /\ loop'[s] = "joining" /\ cur'[s] = cur[s] /\ slot'[s] = slot[s]
      /\ \A t \in Sessions : t # s =>
            loop'[t] = loop[t] /\ cur'[t] = cur[t] /\ slot'[t] = slot[t]
  BY <1>1, <1>2 DEF TypeOK
<1>5. HandOf(s)'
  BY <1>1, <1>2, <1>4 DEF HandOf, CommandFrame, openVars
<1>6. \A m \in Monitors : owner[m] = s /\ Held(m) => slot'[s] = m \/ cur'[s] = m
  BY <1>4 DEF Held
<1> QED
  BY <1>1, <1>2, <1>3, <1>4, <1>5, <1>6, LoopKeeps DEF CommandFrame

LEMMA JoinKeeps ==
    ASSUME MonitorInv, NEW s \in Sessions, Join(s)
    PROVE  MonitorInv'
<1>1. TypeOK /\ HandOf(s) /\ loop[s] = "joining" /\ cur[s] \in Monitors
  BY InHand DEF MonitorInv, Hands, Join, ReturnFromClose
<1>2. /\ pump[cur[s]] = "ended" /\ cur' = [cur EXCEPT ![s] = 0]
      /\ loop' = [loop EXCEPT ![s] = IF gone[s] THEN "closed" ELSE "reading"]
      /\ UNCHANGED <<slot, cmds>> /\ CommandFrame
  BY DEF Join, ReturnFromClose
<1>3. TypeOK'
  BY <1>1, <1>2 DEF TypeOK, Loops, CommandFrame, openVars, daemonVars
<1>4. /\ loop'[s] \in {"closed", "reading"} /\ cur'[s] = 0 /\ slot'[s] = slot[s]
      /\ \A t \in Sessions : t # s =>
            loop'[t] = loop[t] /\ cur'[t] = cur[t] /\ slot'[t] = slot[t]
  BY <1>1, <1>2 DEF TypeOK
<1>5. HandOf(s)'
  BY <1>1, <1>2, <1>4, Counted DEF HandOf, CommandFrame, openVars
<1>6. \A m \in Monitors : owner[m] = s /\ pump[m] \in Running /\ Held(m)
         => slot'[s] = m \/ (cur'[s] = m /\ loop'[s] \in {"asking", "joining"})
  <2> TAKE m \in Monitors
  <2>1. owner[m] = s /\ Held(m) => slot[s] = m \/ cur[s] = m
    BY DEF Held
  <2> QED
    BY <1>2, <1>4, <2>1 DEF Running
<1>7. /\ loop[s] \notin {"calling", "confirming"} /\ loop'[s] \notin {"calling", "confirming"}
      /\ UNCHANGED <<openVars, call, daemonVars, pump, answers>>
  BY <1>1, <1>2, <1>4 DEF CommandFrame
<1> QED
  BY <1>3, <1>4, <1>5, <1>6, <1>7, LoopKeeps

-----------------------------------------------------------------------------
(* The pump *)

\* A pump that moves on and stays in the hands of its session.
LEMMA PumpKeeps ==
    ASSUME MonitorInv, NEW m \in Monitors, NEW to, pump[m] \in Running,
           PumpFrame, TypeOK', pump' = [pump EXCEPT ![m] = to],
           \A k \in Monitors : k # m =>
               answers'[k] = answers[k] /\ call'[k] = call[k] /\ events'[k] = events[k],
           \/ to \in Running /\ UNCHANGED <<answers, call>>
           \/ /\ to = "ended" /\ call'[m] = "dropped"
              /\ answers'[m] \in {answers[m], Append(answers[m], "error")},
           to \in {"failing", "ended"} => daemon[m] = "over",
           \A i \in DOMAIN events'[m] : events'[m][i] = "error" => daemon[m] = "over"
    PROVE  MonitorInv'
<1>1. TypeOK /\ Hands /\ Stages /\ DaemonSide /\ StageOf(m)
  BY DEF MonitorInv, Stages
<1>2. UNCHANGED <<loop, gone, slot, cur, opens, owner, wanted, cmds, daemon, port>>
  BY DEF PumpFrame, loopVars, openVars
<1>3. Hands'
  BY <1>1, <1>2 DEF Hands, HandOf
<1>4. m <= opens /\ ~(m > opens) /\ ~Opening(m) /\ answers[m] = <<"result">> /\ Held(m)
  BY <1>1, Counted DEF StageOf, Running
<1>5. ASSUME NEW k \in Monitors PROVE StageOf(k)'
  <2>1. (Opening(k)' <=> Opening(k)) /\ (Held(k)' <=> Held(k))
    BY <1>2 DEF Opening, Held
  <2>2. CASE k = m
    <3>1. pump'[m] = to
      BY <1>1 DEF TypeOK
    <3>2. CASE to \in Running /\ UNCHANGED <<answers, call>>
      BY <1>1, <1>2, <1>4, <2>1, <2>2, <3>1, <3>2 DEF StageOf, Running
    <3>3. CASE /\ to = "ended" /\ call'[m] = "dropped"
               /\ answers'[m] \in {answers[m], Append(answers[m], "error")}
      <4>1. answers'[m] \in {<<"result">>, <<"result", "error">>}
        BY <1>4, <3>3
      <4> QED
        BY <1>1, <1>2, <1>4, <2>1, <2>2, <3>1, <3>3, <4>1 DEF StageOf, Running
    <3> QED
      BY <3>2, <3>3
  <2>3. CASE k # m
    <3>1. pump'[k] = pump[k]
      BY <1>1, <2>3 DEF TypeOK
    <3> QED
      BY <1>2, <2>1, <2>3, <3>1, SameStage DEF openVars
  <2> QED
    BY <2>2, <2>3
<1>6. DaemonSide'
  <2>1. \A k \in Monitors : pump'[k] = IF k = m THEN to ELSE pump[k]
    BY <1>1 DEF TypeOK
  <2>2. daemon[m] # "called"
    BY <1>1 DEF DaemonSide, Running
  <2> QED
    BY <1>1, <1>2, <2>1, <2>2 DEF DaemonSide
<1> QED
  BY <1>3, <1>5, <1>6 DEF MonitorInv, Stages

LEMMA PumpTakesKeeps ==
    ASSUME MonitorInv, NEW m \in Monitors, PumpTakes(m)
    PROVE  MonitorInv'
<1> DEFINE to == IF Head(events[m]) = "error" THEN "failing" ELSE "sending"
<1>1. TypeOK /\ DaemonSide /\ events[m] \in Seq({"opened", "data", "error"})
  BY DEF MonitorInv, TypeOK
<1>2. /\ pump[m] = "pumping" /\ events[m] # <<>> /\ pump' = [pump EXCEPT ![m] = to]
      /\ events' = [events EXCEPT ![m] = Tail(@)]
      /\ UNCHANGED <<call, answers>> /\ PumpFrame
  BY DEF PumpTakes
<1>3. TypeOK'
  <2>1. events' \in [Monitors -> Seq({"opened", "data", "error"})]
    BY <1>1, <1>2, QueueUpdate DEF TypeOK
  <2> QED
    BY <1>1, <1>2, <2>1 DEF TypeOK, PumpFrame, loopVars, openVars
<1>4. to = "failing" => daemon[m] = "over"
  <2>1. 1 \in DOMAIN events[m] /\ Head(events[m]) = events[m][1]
    BY <1>1, <1>2
  <2> QED
    BY <1>1, <2>1 DEF DaemonSide
<1>5. ASSUME NEW i \in DOMAIN events'[m], events'[m][i] = "error"
      PROVE  daemon[m] = "over"
  <2>1. events'[m] = Tail(events[m])
    BY <1>1, <1>2 DEF TypeOK
  <2>2. i + 1 \in DOMAIN events[m] /\ events[m][i + 1] = "error"
    <3>1. i \in DOMAIN Tail(events[m]) /\ Tail(events[m])[i] = "error"
      BY <1>5, <2>1
    <3> QED
      BY <1>1, <1>2, <3>1, TailEntry
  <2> QED
    BY <1>1, <2>2 DEF DaemonSide
<1>6. /\ to \in {"failing", "sending"} /\ pump[m] \in Running /\ to \in Running
      /\ \A k \in Monitors : k # m => events'[k] = events[k]
  BY <1>1, <1>2 DEF Running, TypeOK
<1> HIDE DEF to
<1> QED
  BY <1>2, <1>3, <1>4, <1>5, <1>6, PumpKeeps

LEMMA PumpSendsKeeps ==
    ASSUME MonitorInv, NEW m \in Monitors, PumpSends(m)
    PROVE  MonitorInv'
<1>1. /\ TypeOK /\ DaemonSide /\ PumpFrame
      /\ pump[m] = "sending" /\ pump' = [pump EXCEPT ![m] = "pumping"]
      /\ UNCHANGED <<call, events, answers>>
  BY DEF MonitorInv, PumpSends
<1>2. TypeOK'
  BY <1>1 DEF TypeOK, PumpFrame, loopVars, openVars
<1>3. \A i \in DOMAIN events'[m] : events'[m][i] = "error" => daemon[m] = "over"
  BY <1>1 DEF DaemonSide
<1>4. pump[m] \in Running /\ "pumping" \in Running /\ "pumping" \notin {"failing", "ended"}
  BY <1>1 DEF Running
<1> QED
  BY <1>1, <1>2, <1>3, <1>4, PumpKeeps

LEMMA PumpStopsKeeps ==
    ASSUME MonitorInv, NEW m \in Monitors, PumpFails(m) \/ PumpEnds(m)
    PROVE  MonitorInv'
<1>1. /\ TypeOK /\ DaemonSide /\ PumpFrame /\ pump[m] \in Running
      /\ pump' = [pump EXCEPT ![m] = "ended"] /\ call' = [call EXCEPT ![m] = "dropped"]
      /\ \/ UNCHANGED answers
         \/ answers' = [answers EXCEPT ![m] = Append(@, "error")]
      /\ UNCHANGED events
  BY DEF MonitorInv, PumpFails, PumpEnds, Running
<1>2. daemon[m] = "over"
  <2>1. CASE PumpFails(m)
    BY <1>1, <2>1 DEF PumpFails, DaemonSide
  <2>2. CASE PumpEnds(m)
    BY <2>2 DEF PumpEnds
  <2> QED
    BY <2>1, <2>2
<1>3. answers' \in [Monitors -> Seq({"result", "error"})]
  <2>1. answers \in [Monitors -> Seq({"result", "error"})]
    BY <1>1 DEF TypeOK
  <2>2. [answers EXCEPT ![m] = Append(@, "error")] \in [Monitors -> Seq({"result", "error"})]
    BY <2>1, QueueUpdate
  <2> QED
    BY <1>1, <2>1, <2>2
<1>4. TypeOK'
  BY <1>1, <1>3 DEF TypeOK, PumpFrame, loopVars, openVars, Calls
<1>5. /\ call'[m] = "dropped"
      /\ answers'[m] \in {answers[m], Append(answers[m], "error")}
      /\ \A k \in Monitors : k # m =>
            answers'[k] = answers[k] /\ call'[k] = call[k] /\ events'[k] = events[k]
  BY <1>1 DEF TypeOK
<1> QED
  BY <1>1, <1>2, <1>4, <1>5, PumpKeeps

-----------------------------------------------------------------------------
(* The daemon *)

\* What the daemon does is seen by nobody yet.
LEMMA UnseenKeeps ==
    ASSUME MonitorInv, NEW m \in Monitors, DaemonFrame, daemon[m] # "none",
           call'[m] = "dropped" <=> call[m] = "dropped",
           \A k \in Monitors : k # m => /\ call'[k] = call[k] /\ daemon'[k] = daemon[k]
                                        /\ events'[k] = events[k]
    PROVE  Hands' /\ Stages'
<1>1. UNCHANGED <<loop, gone, slot, cur, opens, owner, wanted, pump, answers>>
  BY DEF DaemonFrame, loopVars, openVars
<1>2. Hands'
  BY <1>1 DEF MonitorInv, Hands, HandOf
<1>3. m <= opens /\ ~(m > opens)
  BY Counted DEF MonitorInv, Stages, StageOf
<1>4. ASSUME NEW k \in Monitors PROVE StageOf(k)'
  <2>1. (Opening(k)' <=> Opening(k)) /\ (Held(k)' <=> Held(k))
    BY <1>1 DEF Opening, Held
  <2>2. (call'[k] = "dropped" <=> call[k] = "dropped") /\ UNCHANGED openVars
    BY <1>1 DEF openVars
  <2>3. k > opens => /\ call'[k] = call[k] /\ daemon'[k] = daemon[k]
                     /\ events'[k] = events[k]
    BY <1>3
  <2> QED
    BY <1>1, <2>1, <2>2, <2>3, SameStage
<1> QED
  BY <1>2, <1>4 DEF Stages

\* Telling one more event.
LEMMA TellFacts ==
    ASSUME TypeOK, NEW m \in Monitors, NEW event \in {"opened", "data", "error"},
           Tell(m, event)
    PROVE  /\ events' \in [Monitors -> Seq({"opened", "data", "error"})]
           /\ \A k \in Monitors : k # m => events'[k] = events[k]
           /\ \A i \in DOMAIN events'[m] :
                 events'[m][i] = "error"
                   => event = "error" \/ \E j \in DOMAIN events[m] : events[m][j] = "error"
<1>1. events[m] \in Seq({"opened", "data", "error"}) /\ events'[m] = Append(events[m], event)
  BY DEF TypeOK, Tell
<1>2. events' \in [Monitors -> Seq({"opened", "data", "error"})]
  BY QueueUpdate DEF TypeOK, Tell
<1>3. \A k \in Monitors : k # m => events'[k] = events[k]
  BY DEF TypeOK, Tell
<1>4. ASSUME NEW i \in DOMAIN events'[m], events'[m][i] = "error", event # "error"
      PROVE  i \in DOMAIN events[m] /\ events[m][i] = "error"
  BY <1>1, <1>4
<1> QED
  BY <1>2, <1>3, <1>4

\* The daemon has ended the call, and closed the port.
LEMMA OverKeeps ==
    ASSUME MonitorInv, NEW m \in Monitors, DaemonFrame, Over(m),
           daemon[m] \in {"called", "serving"},
           Tell(m, "error") \/ UNCHANGED events,
           cmds' \in [Monitors -> Seq({"write", "close"})],
           \A k \in Monitors : Len(cmds'[k]) <= Capacity,
           call' \in [Monitors -> Calls],
           call'[m] = "dropped" <=> call[m] = "dropped",
           \A k \in Monitors : k # m => call'[k] = call[k]
    PROVE  MonitorInv'
<1>1. TypeOK /\ DaemonSide /\ daemon' = [daemon EXCEPT ![m] = "over"]
      /\ port' = [p \in Ports |-> IF port[p] = m THEN 0 ELSE port[p]]
      /\ UNCHANGED <<loop, gone, slot, cur, opens, owner, wanted, pump, answers>>
  BY DEF MonitorInv, Over, DaemonFrame, loopVars, openVars
<1>2. /\ events' \in [Monitors -> Seq({"opened", "data", "error"})]
      /\ \A k \in Monitors : k # m => events'[k] = events[k]
  <2>1. CASE Tell(m, "error")
    BY <1>1, <2>1, TellFacts
  <2>2. CASE UNCHANGED events
    BY <1>1, <2>2 DEF TypeOK
  <2> QED
    BY <2>1, <2>2
<1>3. \A k \in Monitors : daemon'[k] = IF k = m THEN "over" ELSE daemon[k]
  BY <1>1 DEF TypeOK
<1>4. TypeOK'
  BY <1>1, <1>2 DEF TypeOK
<1>5. Hands' /\ Stages'
  BY <1>2, <1>3, UnseenKeeps
<1>6. DaemonSide'
  <2>1. \A p \in Ports : port'[p] # 0 => daemon'[port'[p]] = "serving"
    <3> TAKE p \in Ports
    <3> HAVE port'[p] # 0
    <3>1. port[p] # m /\ port'[p] = port[p] /\ port[p] # 0
      BY <1>1
    <3>2. port[p] \in Monitors
      BY <1>1, <3>1 DEF TypeOK
    <3> QED
      BY <1>1, <1>3, <3>1, <3>2 DEF DaemonSide
  <2>2. ASSUME NEW k \in Monitors
        PROVE  /\ daemon'[k] = "called" => pump'[k] = "none" /\ events'[k] = <<>>
               /\ pump'[k] \in {"failing", "ended"} => daemon'[k] = "over"
               /\ \A i \in DOMAIN events'[k] : events'[k][i] = "error" => daemon'[k] = "over"
    <3>1. CASE k = m
      BY <1>3, <3>1
    <3>2. CASE k # m
      BY <1>1, <1>2, <1>3, <3>2, SMTT(30) DEF DaemonSide
    <3> QED
      BY <3>1, <3>2
  <2> QED
    BY <2>1, <2>2 DEF DaemonSide
<1> QED
  BY <1>4, <1>5, <1>6 DEF MonitorInv

LEMMA DaemonEndsKeeps ==
    ASSUME MonitorInv, NEW m \in Monitors,
           DaemonRefuses(m) \/ PortFails(m) \/ SeesCallDropped(m)
    PROVE  MonitorInv'
<1>1. /\ TypeOK /\ DaemonFrame /\ Over(m) /\ daemon[m] \in {"called", "serving"}
      /\ Tell(m, "error") \/ UNCHANGED events
      /\ UNCHANGED <<cmds, call>>
  BY DEF MonitorInv, DaemonRefuses, PortFails, SeesCallDropped
<1>2. /\ cmds' \in [Monitors -> Seq({"write", "close"})]
      /\ \A k \in Monitors : Len(cmds'[k]) <= Capacity
      /\ call' \in [Monitors -> Calls]
  BY <1>1 DEF TypeOK
<1> QED
  BY <1>1, <1>2, OverKeeps

LEMMA DaemonOpensKeeps ==
    ASSUME MonitorInv, NEW m \in Monitors, DaemonOpens(m)
    PROVE  MonitorInv'
<1> DEFINE q == wanted[m]
<1>1. TypeOK /\ DaemonSide /\ Stages
      /\ daemon[m] = "called" /\ daemon' = [daemon EXCEPT ![m] = "serving"]
      /\ port' = [port EXCEPT ![q] = m] /\ Tell(m, "opened") /\ DaemonFrame
      /\ UNCHANGED <<cmds, call>>
      /\ UNCHANGED <<loop, gone, slot, cur, opens, owner, wanted, pump, answers>>
  BY DEF MonitorInv, DaemonOpens, DaemonFrame, loopVars, openVars
<1>2. q \in Ports /\ pump[m] = "none" /\ events[m] = <<>>
  BY <1>1, Counted DEF Stages, StageOf, DaemonSide
<1>3. /\ events' \in [Monitors -> Seq({"opened", "data", "error"})]
      /\ \A k \in Monitors : k # m => events'[k] = events[k]
      /\ \A i \in DOMAIN events'[m] : events'[m][i] # "error"
  BY <1>1, <1>2, TellFacts
<1> HIDE DEF q
<1>4. /\ \A k \in Monitors : daemon'[k] = IF k = m THEN "serving" ELSE daemon[k]
      /\ \A p \in Ports : port'[p] = IF p = q THEN m ELSE port[p]
  BY <1>1, <1>2 DEF TypeOK
<1>5. TypeOK'
  BY <1>1, <1>2, <1>3 DEF TypeOK
<1>6. Hands' /\ Stages'
  BY <1>1, <1>3, <1>4, UnseenKeeps
<1>7. DaemonSide'
  <2>1. \A p \in Ports : port'[p] # 0 => daemon'[port'[p]] = "serving"
    <3> TAKE p \in Ports
    <3> HAVE port'[p] # 0
    <3>1. CASE p = q
      BY <1>4, <3>1
    <3>2. CASE p # q
      <4>1. port'[p] = port[p] /\ port[p] # 0 /\ port[p] \in Monitors
        BY <1>1, <1>4, <3>2 DEF TypeOK
      <4> QED
        BY <1>1, <1>4, <4>1 DEF DaemonSide
    <3> QED
      BY <3>1, <3>2
  <2> QED
    BY <1>1, <1>2, <1>3, <1>4, <2>1 DEF DaemonSide
<1> QED
  BY <1>5, <1>6, <1>7 DEF MonitorInv

LEMMA DaemonDataKeeps ==
    ASSUME MonitorInv, NEW m \in Monitors, DaemonData(m)
    PROVE  MonitorInv'
<1>1. TypeOK /\ DaemonSide /\ daemon[m] = "serving" /\ Tell(m, "data") /\ DaemonFrame
      /\ UNCHANGED <<daemon, port, cmds, call>>
      /\ UNCHANGED <<loop, gone, slot, cur, opens, owner, wanted, pump, answers>>
  BY DEF MonitorInv, DaemonData, DaemonFrame, loopVars, openVars
<1>2. /\ events' \in [Monitors -> Seq({"opened", "data", "error"})]
      /\ \A k \in Monitors : k # m => events'[k] = events[k]
      /\ \A i \in DOMAIN events'[m] :
            events'[m][i] = "error" => \E j \in DOMAIN events[m] : events[m][j] = "error"
  BY <1>1, TellFacts
<1>3. TypeOK'
  BY <1>1, <1>2 DEF TypeOK
<1>4. Hands' /\ Stages'
  BY <1>1, <1>2, UnseenKeeps
<1>5. DaemonSide'
  BY <1>1, <1>2 DEF DaemonSide
<1> QED
  BY <1>3, <1>4, <1>5 DEF MonitorInv

LEMMA DaemonReadsKeeps ==
    ASSUME MonitorInv, NEW m \in Monitors, DaemonReads(m)
    PROVE  MonitorInv'
<1>1. TypeOK /\ DaemonSide /\ DaemonFrame /\ UNCHANGED events
      /\ daemon[m] = "serving" /\ call[m] = "open" /\ cmds[m] # <<>>
      /\ cmds' = [cmds EXCEPT ![m] = Tail(@)]
  BY DEF MonitorInv, DaemonReads
<1>2. /\ cmds' \in [Monitors -> Seq({"write", "close"})]
      /\ \A k \in Monitors : Len(cmds'[k]) <= Capacity
  <2>1. cmds' \in [Monitors -> Seq({"write", "close"})]
    BY <1>1, QueueUpdate DEF TypeOK
  <2>2. cmds[m] \in Seq({"write", "close"}) /\ cmds'[m] = Tail(cmds[m])
    BY <1>1 DEF TypeOK
  <2>3. Len(cmds[m]) <= Capacity
    BY <1>1 DEF TypeOK
  <2>4. Len(cmds'[m]) <= Capacity
    BY <1>1, <2>2, <2>3, BoundsAssumption
  <2> QED
    BY <1>1, <2>1, <2>4 DEF TypeOK
<1>3. CASE Head(cmds[m]) = "close"
  <2>1. Over(m) /\ call' = [call EXCEPT ![m] = "halfClosed"]
    BY <1>3 DEF DaemonReads
  <2>2. /\ call' \in [Monitors -> Calls] /\ call'[m] = "halfClosed"
        /\ \A k \in Monitors : k # m => call'[k] = call[k]
    BY <1>1, <2>1 DEF TypeOK, Calls
  <2> QED
    BY <1>1, <1>2, <2>1, <2>2, OverKeeps
<1>4. CASE Head(cmds[m]) # "close"
  <2>1. UNCHANGED <<daemon, port, call>>
        /\ UNCHANGED <<loop, gone, slot, cur, opens, owner, wanted, pump, answers>>
    BY <1>1, <1>4 DEF DaemonReads, DaemonFrame, loopVars, openVars
  <2>2. TypeOK'
    BY <1>1, <1>2, <2>1 DEF TypeOK
  <2>3. Hands' /\ Stages'
    BY <1>1, <2>1, UnseenKeeps
  <2>4. DaemonSide'
    BY <1>1, <2>1 DEF DaemonSide
  <2> QED
    BY <2>2, <2>3, <2>4 DEF MonitorInv
<1> QED
  BY <1>3, <1>4

-----------------------------------------------------------------------------
(* Theorems *)

LEMMA StepKeeps == MonitorInv /\ [Next]_vars => MonitorInv'
<1> SUFFICES ASSUME MonitorInv, [Next]_vars PROVE MonitorInv'
  OBVIOUS
<1>1. ASSUME NEW s \in Sessions, NEW p \in Ports, Open(s, p) PROVE MonitorInv'
  BY <1>1, OpenKeeps
<1>2. ASSUME NEW s \in Sessions,
             \/ CallReturns(s) \/ Confirm(s) \/ ReceiveWrite(s) \/ Write(s)
             \/ Close(s) \/ Leave(s) \/ AskClose(s) \/ Join(s)
      PROVE  MonitorInv'
  <2>1. CASE Close(s)
    BY <2>1, TakeKeeps DEF Close, MonitorInv, TypeOK
  <2> QED
    BY <1>2, <2>1, CallKeeps, ConfirmKeeps, WriteKeeps, LeaveKeeps, AskKeeps, JoinKeeps
<1>3. ASSUME NEW m \in Monitors,
             \/ PumpTakes(m) \/ PumpSends(m) \/ PumpFails(m) \/ PumpEnds(m)
             \/ DaemonOpens(m) \/ DaemonRefuses(m) \/ DaemonData(m)
             \/ DaemonReads(m) \/ PortFails(m) \/ SeesCallDropped(m)
      PROVE  MonitorInv'
  BY <1>3, PumpTakesKeeps, PumpSendsKeeps, PumpStopsKeeps, DaemonOpensKeeps,
     DaemonEndsKeeps, DaemonDataKeeps, DaemonReadsKeeps
<1>4. CASE UNCHANGED vars
  BY <1>4 DEF MonitorInv, TypeOK, Hands, HandOf, Stages, StageOf, DaemonSide, Opening,
     Held, vars, loopVars, openVars, daemonVars
<1> QED
  BY <1>1, <1>2, <1>3, <1>4 DEF Next, Terminated

LEMMA MonitorInvariant == Spec => []MonitorInv
BY InitInv, StepKeeps, PTL DEF Spec

\* Every variable stays in its range, and the channel of the commands never
\* holds more than MONITOR_COMMAND_CAPACITY of them.
THEOREM MonitorTypes == Spec => []TypeOK
<1>1. MonitorInv => TypeOK
  BY DEF MonitorInv
<1> QED
  BY <1>1, MonitorInvariant, PTL

\* No pump outlives the close of its monitor, however a port error, the end of
\* the call and a monitorClose cross: close_monitor joins it.
THEOREM PumpsBelong == Spec => []PumpBelongs
<1>1. MonitorInv => PumpBelongs
  BY DEF MonitorInv, Stages, StageOf, PumpBelongs, Running, Held
<1> QED
  BY <1>1, MonitorInvariant, PTL

\* A port is open for a monitor that is in the hands of its session, or for an
\* open that has failed and that the daemon is about to see dropped: one whose
\* close has been answered holds none, so an upload may follow.
PortsAccounted ==
    \A p \in Ports :
        port[p] # 0 =>
            LET m == port[p] IN
            \/ m \in {slot[owner[m]], cur[owner[m]]}
            \/ pump[m] = "none" /\ call[m] = "dropped"

\* A monitor whose close was answered has no port open in the daemon.
THEOREM ClosedPortsAreFree == Spec => []PortsAccounted
<1>1. ASSUME MonitorInv, NEW p \in Ports, port[p] # 0
      PROVE  \/ port[p] \in {slot[owner[port[p]]], cur[owner[port[p]]]}
             \/ pump[port[p]] = "none" /\ call[port[p]] = "dropped"
  <2> DEFINE m == port[p]
  <2>1. m \in Monitors /\ daemon[m] = "serving" /\ StageOf(m)
    BY <1>1 DEF MonitorInv, TypeOK, DaemonSide, Stages
  <2>2. m <= opens /\ pump[m] # "ended" /\ pump[m] \in {"none", "ended"} \cup Running
    BY <1>1, <2>1, Counted, SMTT(30) DEF MonitorInv, TypeOK, StageOf, DaemonSide, Running
  <2>3. CASE Opening(m)
    BY <2>3 DEF Opening
  <2>4. CASE ~Opening(m)
    BY <2>1, <2>2, <2>4 DEF StageOf, Held
  <2> QED
    BY <2>3, <2>4
<1>2. MonitorInv => PortsAccounted
  BY <1>1 DEF PortsAccounted
<1> QED
  BY <1>2, MonitorInvariant, PTL

\* A monitorOpen has one answer once its handler has returned, and a port error
\* after a `result` adds one and ends the monitor.
THEOREM OpensAreAnswered == Spec => []OpenAnswered
<1>1. ASSUME MonitorInv, NEW m \in 1..opens
      PROVE  /\ answers[m] = <<>> <=> Opening(m)
             /\ answers[m] \in {<<>>, <<"result">>, <<"error">>, <<"result", "error">>}
             /\ answers[m] \in {<<"error">>, <<"result", "error">>}
                   => pump[m] \in {"none", "ended"} /\ call[m] = "dropped"
  <2>1. m \in Monitors /\ m <= opens /\ StageOf(m)
    <3>1. TypeOK /\ Stages /\ m \in Nat /\ m # 0 /\ m <= opens /\ opens <= MaxOpens /\ opens \in Nat
      BY <1>1, Counted DEF MonitorInv
    <3>2. m \in Monitors
      BY <3>1, Counted, BoundsAssumption
    <3> QED
      BY <3>1, <3>2 DEF Stages
  <2>2. pump[m] \in {"none", "ended"} \cup Running
    BY <1>1, <2>1 DEF MonitorInv, TypeOK, Running
  <2>3. /\ <<"error">> # <<>> /\ <<"result">> # <<>> /\ <<"result", "error">> # <<>>
        /\ <<"result">> # <<"error">> /\ <<"result">> # <<"result", "error">>
    OBVIOUS
  <2>4. CASE Opening(m)
    BY <2>1, <2>3, <2>4 DEF StageOf
  <2>5. CASE ~Opening(m) /\ pump[m] = "none"
    BY <2>1, <2>3, <2>5 DEF StageOf
  <2>6. CASE pump[m] \in Running
    BY <2>1, <2>3, <2>6 DEF StageOf, Running
  <2>7. CASE pump[m] = "ended"
    BY <2>1, <2>3, <2>7 DEF StageOf
  <2> QED
    BY <2>2, <2>4, <2>5, <2>6, <2>7
<1>2. MonitorInv => OpenAnswered
  BY <1>1 DEF OpenAnswered, Opening
<1> QED
  BY <1>2, MonitorInvariant, PTL
-----------------------------------------------------------------------------
(* The lease *)

\* The monitor is in the hands of its session, as Stage asks.
Kept(m) == m \in {slot[owner[m]], cur[owner[m]]}

\* What the browser knows, row by row of Stage, if nothing else is possible.
RowOf(m) ==
    /\ m > opens => Stage(m) = "unasked" /\ answers[m] = <<>>
    /\ m <= opens /\ answers[m] = <<>> => Stage(m) = "asked"
    /\ m <= opens /\ answers[m] = <<"error">> => Stage(m) = "refused"
    /\ m <= opens /\ answers[m] = <<"result">> =>
          Stage(m) = IF Kept(m) THEN "open" ELSE "closed"
    /\ m <= opens /\ answers[m] = <<"result", "error">> =>
          Stage(m) = IF Kept(m) THEN "lost" ELSE "closed"
    /\ answers[m] \in {<<>>, <<"error">>, <<"result">>, <<"result", "error">>}
    /\ m > opens \/ m <= opens

Rows == \A m \in Monitors : RowOf(m)

LEMMA StageTable == MonitorInv => Rows
<1> SUFFICES ASSUME MonitorInv, NEW m \in Monitors PROVE RowOf(m)
  BY DEF Rows
<1>1. StageOf(m) /\ (m > opens \/ m <= opens) /\ ~(m > opens /\ m <= opens)
  BY Counted DEF MonitorInv, Stages
<1>2. pump[m] \in {"none", "ended"} \cup Running
  BY DEF MonitorInv, TypeOK, Running
<1>3. answers[m] \in {<<>>, <<"error">>, <<"result">>, <<"result", "error">>}
  BY <1>1, <1>2 DEF StageOf
<1>4. /\ <<"error">> # <<>> /\ <<"result">> # <<>> /\ <<"result", "error">> # <<>>
      /\ <<"result">> # <<"error">> /\ <<"result">> # <<"result", "error">>
      /\ <<"error">> # <<"result", "error">>
  OBVIOUS
<1>5. m > opens => answers[m] = <<>>
  BY <1>1 DEF StageOf
<1> QED
  BY <1>1, <1>3, <1>4, <1>5 DEF RowOf, Stage, Kept

LEMMA StageTableNext == MonitorInv' => Rows'
BY StageTable, PTL

\* A monitor that is neither asked for, answered nor handed on is seen as before.
LEMMA SeenSame ==
    ASSUME MonitorInv, MonitorInv', NEW m \in Monitors, opens' = opens,
           answers'[m] = answers[m],
           answers[m] \notin {<<>>, <<"error">>} => (Kept(m)' <=> Kept(m))
    PROVE  Stage(m)' = Stage(m)
<1>1. CASE m > opens
  BY <1>1, StageTable, StageTableNext DEF Rows, RowOf
<1>2. CASE m <= opens
  BY <1>2, StageTable, StageTableNext DEF Rows, RowOf
<1> QED
  BY <1>1, <1>2, StageTable DEF Rows, RowOf

\* Only the monitor m changes hands, in the session that it belongs to.
LEMMA KeptSame ==
    ASSUME MonitorInv, UNCHANGED openVars, NEW s \in Sessions, NEW m \in Monitors,
           NEW c \in {0} \cup Monitors, m # c,
           \A t \in Sessions : t # s => slot'[t] = slot[t] /\ cur'[t] = cur[t],
           {slot[s], cur[s]} \cup {0, c} = {slot'[s], cur'[s]} \cup {0, c}
    PROVE  answers[m] # <<>> => (Kept(m)' <=> Kept(m))
<1> SUFFICES ASSUME answers[m] # <<>> PROVE Kept(m)' <=> Kept(m)
  OBVIOUS
<1>1. owner[m] \in Sessions
  BY StageTable DEF MonitorInv, Stages, StageOf, Rows, RowOf
<1>2. owner' = owner /\ m # 0
  BY Counted DEF openVars, MonitorInv
<1> QED
  BY <1>1, <1>2 DEF Kept

\* A monitor is in the hands of its session while it is opened.
LEMMA AskedIsInHand ==
    ASSUME MonitorInv, NEW m \in Monitors, m <= opens, answers[m] = <<>>
    PROVE  Opening(m)
<1>1. StageOf(m) /\ pump[m] \in {"none", "ended"} \cup Running
  BY DEF MonitorInv, Stages, TypeOK, Running
<1>2. /\ <<"error">> # <<>> /\ <<"result">> # <<>> /\ <<"result", "error">> # <<>>
  OBVIOUS
<1> QED
  BY <1>1, <1>2 DEF StageOf

\* One monitor moves from one stage to another; the ports do not change.
LEMMA OneMoves ==
    ASSUME MonitorInv, MonitorInv', UNCHANGED <<openVars, port>>,
           NEW s \in Sessions, NEW m \in Monitors,
           \A t \in Sessions : t # s => slot'[t] = slot[t] /\ cur'[t] = cur[t],
           {slot[s], cur[s]} \cup {0, m} = {slot'[s], cur'[s]} \cup {0, m},
           \A n \in Monitors : n # m => answers'[n] = answers[n]
    PROVE  Lease!Moves(m, Stage(m), Stage(m)')
<1>1. ASSUME NEW n \in Monitors, n # m PROVE Stage(n)' = Stage(n)
  BY <1>1, KeptSame, SeenSame DEF openVars
<1>2. [n \in Monitors |-> Stage(n)'] =
         [[n \in Monitors |-> Stage(n)] EXCEPT ![m] = Stage(m)']
  BY <1>1
<1> QED
  BY <1>2 DEF Lease!Moves, openVars

\* A monitor whose pump has ended, or has heard of an error, holds no port.
LEMMA EndedHoldsNothing ==
    ASSUME MonitorInv, NEW m \in Monitors, pump[m] \in {"failing", "ended"}
    PROVE  Lease!HoldsNothing(m)
BY Counted DEF MonitorInv, DaemonSide, TypeOK, Lease!HoldsNothing

\* monitorOpen.
LEMMA OpenAsks ==
    ASSUME MonitorInv, MonitorInv', NEW s \in Sessions, NEW p \in Ports, Open(s, p)
    PROVE  Lease!Ask(opens', s, p)
<1> PICK n : n = opens + 1
  OBVIOUS
<1>1. TypeOK /\ Hands /\ Stages
  BY DEF MonitorInv
<1>2. n \in Monitors /\ opens' = n /\ n > opens /\ n <= opens' /\ n # 0
  BY <1>1, BoundsAssumption DEF Open, StartOpen, TypeOK, Monitors
<1>3. /\ owner' = [owner EXCEPT ![n] = s] /\ wanted' = [wanted EXCEPT ![n] = p]
      /\ cur' = [cur EXCEPT ![s] = n]
      /\ loop[s] = "reading" /\ slot[s] = 0
      /\ UNCHANGED <<slot, port, answers>>
  BY <1>2 DEF Open, StartOpen
<1>4. cur[s] = 0
  BY <1>1, <1>3 DEF Hands, HandOf
<1>5. \A m \in Monitors : m # n => (m <= opens' <=> m <= opens) /\ (m > opens' <=> m > opens)
  BY <1>1, <1>2, Counted
<1>6. Stage(n) = "unasked" /\ Stage(n)' = "asked"
  BY <1>2, <1>3, StageTable, StageTableNext DEF Rows, RowOf
<1>7. ASSUME NEW m \in Monitors, m # n PROVE Stage(m)' = Stage(m)
  <2>1. CASE m > opens
    BY <1>5, <1>7, <2>1, StageTable, StageTableNext DEF Rows, RowOf
  <2>2. CASE m <= opens
    <3>1. owner[m] \in Sessions /\ owner'[m] = owner[m] /\ m # 0
      BY <1>1, <1>3, <1>7, <2>2, Counted DEF Stages, StageOf, TypeOK
    <3>2. Kept(m)' <=> Kept(m)
      BY <1>1, <1>3, <1>4, <1>7, <3>1 DEF Kept, TypeOK
    <3> QED
      BY <1>3, <1>5, <1>7, <2>2, <3>2, StageTable, StageTableNext DEF Rows, RowOf
  <2> QED
    BY <2>1, <2>2, StageTable DEF Rows, RowOf
<1>8. ASSUME NEW m \in Monitors, owner[m] = s
      PROVE  Stage(m) \notin {"asked", "open", "lost"}
  <2>1. m # 0 /\ ~Kept(m)
    BY <1>1, <1>3, <1>4, <1>8, Counted DEF Kept
  <2>2. ~Opening(m)
    BY <1>3, <1>8 DEF Opening
  <2> QED
    BY <2>1, <2>2, AskedIsInHand, StageTable DEF Rows, RowOf
<1>9. [m \in Monitors |-> Stage(m)'] =
         [[m \in Monitors |-> Stage(m)] EXCEPT ![n] = "asked"]
  BY <1>6, <1>7
<1> QED
  BY <1>2, <1>3, <1>6, <1>8, <1>9 DEF Lease!Ask, Lease!HasNone

\* The open is decided.
LEMMA AnswerDecides ==
    ASSUME MonitorInv, MonitorInv', NEW s \in Sessions, CallReturns(s) \/ Confirm(s)
    PROVE  \/ Lease!Decide(cur[s])
           \/ UNCHANGED <<openVars, port, answers, slot, cur>>
<1> PICK m : m = cur[s]
  OBVIOUS
<1>1. loop[s] \in {"calling", "confirming"} /\ UNCHANGED <<openVars, port>>
  BY DEF CallReturns, Confirm, daemonVars
<1>2. TypeOK
  BY DEF MonitorInv
<1>3. /\ m \in Monitors /\ m # 0 /\ m <= opens /\ m <= opens'
      /\ owner[m] = s /\ slot[s] = 0 /\ answers[m] = <<>>
  BY <1>1, OpeningHand DEF openVars
<1>4. Stage(m) = "asked"
  BY <1>3, StageTable DEF Rows, RowOf
<1>5. CASE FailOpen(s)
  <2>1. Stage(m)' = "refused"
    <3>1. answers'[m] = <<"error">>
      BY <1>2, <1>3, <1>5 DEF FailOpen, TypeOK
    <3> QED
      BY <1>3, <3>1, StageTableNext DEF Rows, RowOf
  <2>2. /\ \A t \in Sessions : t # s => slot'[t] = slot[t] /\ cur'[t] = cur[t]
        /\ slot'[s] = 0 /\ cur'[s] = 0
        /\ \A n \in Monitors : n # m => answers'[n] = answers[n]
    BY <1>2, <1>3, <1>5 DEF FailOpen, TypeOK
  <2>3. Lease!Moves(m, Stage(m), Stage(m)')
    BY <1>1, <1>3, <2>2, OneMoves
  <2> QED
    BY <1>4, <2>1, <2>3 DEF Lease!Decide
<1>6. CASE loop[s] = "confirming" /\ answers' = [answers EXCEPT ![m] = Append(@, "result")]
           /\ slot' = [slot EXCEPT ![s] = m] /\ cur' = [cur EXCEPT ![s] = 0]
  <2>1. Stage(m)' = "open"
    <3>1. answers'[m] = <<"result">>
      BY <1>2, <1>3, <1>6 DEF TypeOK
    <3>2. Kept(m)'
      BY <1>1, <1>2, <1>3, <1>6 DEF Kept, TypeOK, openVars
    <3> QED
      BY <1>3, <3>1, <3>2, StageTableNext DEF Rows, RowOf
  <2>2. /\ \A t \in Sessions : t # s => slot'[t] = slot[t] /\ cur'[t] = cur[t]
        /\ slot'[s] = m /\ cur'[s] = 0
        /\ \A n \in Monitors : n # m => answers'[n] = answers[n]
    BY <1>2, <1>3, <1>6 DEF TypeOK
  <2>3. Lease!Moves(m, Stage(m), Stage(m)')
    BY <1>1, <1>3, <2>2, OneMoves
  <2> QED
    BY <1>4, <2>1, <2>3 DEF Lease!Decide
<1>7. CASE UNCHANGED <<answers, slot, cur>>
  BY <1>1, <1>7
<1> QED
  BY <1>5, <1>6, <1>7 DEF CallReturns, Confirm

\* The answer to a close, or the end of the session after it.
LEMMA JoinCloses ==
    ASSUME MonitorInv, MonitorInv', NEW s \in Sessions, Join(s)
    PROVE  Lease!Close(cur[s])
<1> PICK m : m = cur[s]
  OBVIOUS
<1>1. /\ loop[s] = "joining" /\ pump[m] = "ended" /\ cur' = [cur EXCEPT ![s] = 0]
      /\ UNCHANGED <<openVars, port, answers, slot>>
  BY DEF Join, ReturnFromClose, CommandFrame, daemonVars
<1>2. TypeOK /\ HandOf(s) /\ Stages
  BY DEF MonitorInv, Hands
<1>3. /\ m \in Monitors /\ m # 0 /\ owner[m] = s /\ slot[s] = 0
      /\ m <= opens /\ m <= opens'
  BY <1>1, <1>2, InHand DEF HandOf, MonitorInv, openVars
<1>4. answers[m] \in {<<"result">>, <<"result", "error">>}
  BY <1>1, <1>2, <1>3 DEF Stages, StageOf
<1>5. Stage(m) \in {"open", "lost"}
  BY <1>3, <1>4, StageTable DEF Kept, Rows, RowOf
<1>6. Stage(m)' = "closed"
  <2>1. ~Kept(m)'
    BY <1>1, <1>2, <1>3 DEF Kept, TypeOK, openVars
  <2> QED
    BY <1>1, <1>3, <1>4, <2>1, StageTableNext DEF Rows, RowOf
<1>7. Lease!Moves(m, Stage(m), Stage(m)')
  <2>1. /\ \A t \in Sessions : t # s => slot'[t] = slot[t] /\ cur'[t] = cur[t]
        /\ slot'[s] = 0 /\ cur'[s] = 0
    BY <1>1, <1>2, <1>3 DEF TypeOK
  <2> QED
    BY <1>1, <1>3, <2>1, OneMoves
<1>8. Lease!HoldsNothing(m)
  BY <1>1, <1>3, EndedHoldsNothing
<1> QED
  BY <1>5, <1>6, <1>7, <1>8 DEF Lease!Close

\* A port error, when the browser is told.
LEMMA FailureLoses ==
    ASSUME MonitorInv, MonitorInv', NEW m \in Monitors, PumpFails(m)
    PROVE  Lease!Lose(m)
<1>1. /\ pump[m] = "failing" /\ answers' = [answers EXCEPT ![m] = Append(@, "error")]
      /\ UNCHANGED <<openVars, port, slot, cur>>
  BY DEF PumpFails, PumpFrame, loopVars
<1>2. TypeOK /\ StageOf(m)
  BY DEF MonitorInv, Stages
<1>3. m <= opens /\ m <= opens' /\ owner[m] \in Sessions
  BY <1>1, <1>2, StageTable DEF StageOf, openVars, Rows, RowOf
<1>4. answers[m] = <<"result">> /\ Kept(m)
  BY <1>1, <1>2 DEF StageOf, Running, Held, Kept
<1>5. answers'[m] = <<"result", "error">> /\ Kept(m)'
  <2>1. answers'[m] \in {Append(answers[m], "error")}
    BY <1>1, <1>2 DEF TypeOK
  <2>2. answers'[m] \in {<<"result", "error">>}
    BY <1>4, <2>1
  <2>3. Kept(m)'
    BY <1>1, <1>4 DEF Kept, openVars
  <2> QED
    BY <2>2, <2>3
<1>6. Stage(m) = "open" /\ Stage(m)' = "lost"
  BY <1>3, <1>4, <1>5, StageTable, StageTableNext DEF Rows, RowOf
<1>7. \A n \in Monitors : n # m => answers'[n] = answers[n]
  BY <1>1, <1>2 DEF TypeOK
<1>8. Lease!Moves(m, Stage(m), Stage(m)')
  BY <1>1, <1>3, <1>7, OneMoves
<1> QED
  BY <1>1, <1>6, <1>8, EndedHoldsNothing DEF Lease!Lose

\* What touches neither answers nor hands is not seen by the browser.
LEMMA Unseen ==
    ASSUME MonitorInv, MonitorInv', UNCHANGED <<openVars, answers>>,
           \A s \in Sessions : {slot[s], cur[s]} \cup {0} = {slot'[s], cur'[s]} \cup {0}
    PROVE  UNCHANGED <<owner, wanted, [m \in Monitors |-> Stage(m)]>>
<1>1. ASSUME NEW m \in Monitors PROVE Stage(m)' = Stage(m)
  <2>1. m > opens => answers[m] = <<>>
    BY StageTable DEF Rows, RowOf
  <2>2. m <= opens => (Kept(m)' <=> Kept(m))
    <3> SUFFICES ASSUME m <= opens PROVE Kept(m)' <=> Kept(m)
      OBVIOUS
    <3>1. owner[m] \in Sessions /\ m # 0 /\ owner' = owner
      BY Counted DEF MonitorInv, Stages, StageOf, openVars
    <3> QED
      BY <3>1 DEF Kept
  <2> QED
    BY <2>1, <2>2, SeenSame, StageTable DEF openVars, Rows, RowOf
<1> QED
  BY <1>1 DEF openVars

\* The daemon gives a port to a monitor.
LEMMA OpenOccupies ==
    ASSUME MonitorInv, MonitorInv', NEW m \in Monitors, DaemonOpens(m)
    PROVE  Lease!Occupy(m)
<1>1. /\ daemon[m] = "called" /\ port[wanted[m]] = 0
      /\ port' = [port EXCEPT ![wanted[m]] = m]
      /\ UNCHANGED <<openVars, answers, slot, cur>>
  BY DEF DaemonOpens, DaemonFrame, loopVars
<1>2. StageOf(m) /\ pump[m] = "none" /\ m <= opens
  BY <1>1, StageTable DEF MonitorInv, Stages, DaemonSide, StageOf, Rows, RowOf
<1>3. answers[m] \in {<<>>, <<"error">>}
  BY <1>2 DEF StageOf
<1>4. Stage(m) \in {"asked", "refused"}
  BY <1>2, <1>3, StageTable DEF Rows, RowOf
<1>5. UNCHANGED <<owner, wanted, [n \in Monitors |-> Stage(n)]>>
  BY <1>1, Unseen
<1> QED
  BY <1>1, <1>4, <1>5 DEF Lease!Occupy

\* The daemon ends a call: it lets go of the port.
LEMMA OverReleases ==
    ASSUME MonitorInv, MonitorInv', NEW m \in Monitors, Over(m),
           UNCHANGED <<openVars, answers, slot, cur>>
    PROVE  Lease!Release(m)
<1>1. UNCHANGED <<owner, wanted, [n \in Monitors |-> Stage(n)]>>
  BY Unseen
<1> QED
  BY <1>1 DEF Over, Lease!Release

\* Every step of the serial monitor is a step of PortLease or leaves it alone.
LEMMA LeaseStep ==
    MonitorInv /\ MonitorInv' /\ [Next]_vars => [Lease!Next]_(Lease!vars)
<1> SUFFICES ASSUME MonitorInv, MonitorInv', [Next]_vars
             PROVE  Lease!Next \/ UNCHANGED Lease!vars
  OBVIOUS
<1>1. ASSUME UNCHANGED <<openVars, answers, port>>,
             \A s \in Sessions : {slot[s], cur[s]} \cup {0} = {slot'[s], cur'[s]} \cup {0}
      PROVE  UNCHANGED Lease!vars
  BY <1>1, Unseen DEF Lease!vars
<1>2. ASSUME NEW s \in Sessions, NEW p \in Ports, Open(s, p) PROVE Lease!Next
  <2>1. opens' \in Monitors
    BY <1>2, BoundsAssumption DEF Open, StartOpen, MonitorInv, TypeOK, Monitors
  <2> QED
    BY <1>2, <2>1, OpenAsks DEF Lease!Next
<1>3. ASSUME NEW s \in Sessions, CallReturns(s) \/ Confirm(s)
      PROVE  Lease!Next \/ UNCHANGED Lease!vars
  <2>1. cur[s] \in Monitors
    BY <1>3, OpeningHand DEF CallReturns, Confirm
  <2>2. CASE Lease!Decide(cur[s])
    BY <2>1, <2>2 DEF Lease!Next
  <2>3. CASE UNCHANGED <<openVars, port, answers, slot, cur>>
    BY <1>1, <2>3
  <2> QED
    BY <1>3, <2>2, <2>3, AnswerDecides
<1>4. ASSUME NEW s \in Sessions, Join(s) PROVE Lease!Next
  <2>1. cur[s] \in Monitors
    BY <1>4, InHand DEF MonitorInv, Join, ReturnFromClose
  <2> QED
    BY <1>4, <2>1, JoinCloses DEF Lease!Next
<1>5. ASSUME NEW s \in Sessions, TakeMonitor(s) PROVE UNCHANGED Lease!vars
  <2>1. cur[s] = 0 /\ TypeOK
    BY <1>5 DEF TakeMonitor, MonitorInv, Hands, HandOf
  <2>2. ASSUME NEW t \in Sessions
        PROVE  {slot[t], cur[t]} \cup {0} = {slot'[t], cur'[t]} \cup {0}
    <3>1. CASE t = s
      <4>1. slot'[s] = 0 /\ cur'[s] = slot[s]
        BY <1>5, <2>1 DEF TakeMonitor, TypeOK
      <4> QED
        BY <2>1, <3>1, <4>1
    <3>2. CASE t # s
      <4>1. slot'[t] = slot[t] /\ cur'[t] = cur[t]
        BY <1>5, <2>1, <3>2 DEF TakeMonitor, TypeOK
      <4> QED
        BY <4>1
    <3> QED
      BY <3>1, <3>2
  <2> QED
    BY <1>1, <1>5, <2>2 DEF TakeMonitor, daemonVars
<1>6. ASSUME NEW s \in Sessions,
             ReceiveWrite(s) \/ Write(s) \/ Close(s) \/ Leave(s) \/ AskClose(s)
      PROVE  UNCHANGED Lease!vars
  BY <1>1, <1>5, <1>6 DEF ReceiveWrite, Write, Close, Leave, AskClose, CommandFrame, daemonVars
<1>7. ASSUME NEW m \in Monitors, PumpTakes(m) \/ PumpSends(m) \/ PumpEnds(m) \/ DaemonData(m)
      PROVE  UNCHANGED Lease!vars
  BY <1>1, <1>7 DEF PumpTakes, PumpSends, PumpEnds, PumpFrame, DaemonData, DaemonFrame, loopVars
<1>8. ASSUME NEW m \in Monitors, PumpFails(m) \/ DaemonOpens(m) PROVE Lease!Next
  BY <1>8, FailureLoses, OpenOccupies DEF Lease!Next
<1>9. ASSUME NEW m \in Monitors,
             DaemonRefuses(m) \/ DaemonReads(m) \/ PortFails(m) \/ SeesCallDropped(m)
      PROVE  Lease!Next \/ UNCHANGED Lease!vars
  <2>1. UNCHANGED <<openVars, answers, slot, cur>>
    BY <1>9 DEF DaemonRefuses, DaemonReads, PortFails, SeesCallDropped, DaemonFrame, loopVars
  <2>2. CASE Over(m)
    BY <2>1, <2>2, OverReleases DEF Lease!Next
  <2>3. CASE UNCHANGED port
    BY <1>1, <2>1, <2>3
  <2> QED
    BY <1>9, <2>2, <2>3 DEF DaemonRefuses, DaemonReads, PortFails, SeesCallDropped
<1>10. CASE UNCHANGED vars
  BY <1>1, <1>10 DEF vars, loopVars, daemonVars
<1> QED
  BY <1>2, <1>3, <1>4, <1>6, <1>7, <1>8, <1>9, <1>10 DEF Next, Terminated

\* The serial monitor implements PortLease: a monitorOpen is decided once, a
\* session has one monitor at a time, a port one holder, and with the answer to a
\* monitorClose, or the error of a port, the port is free for good of it.
THEOREM LeaseRefined == Spec => LeaseKept
<1>1. Init => Lease!Init
  <2> SUFFICES ASSUME Init PROVE Lease!Init
    OBVIOUS
  <2>1. \A m \in Monitors : m > opens
    BY DEF Init, Monitors
  <2>2. \A m \in Monitors : Stage(m) = "unasked"
    BY <2>1, InitInv, StageTable DEF Rows, RowOf
  <2> QED
    BY <2>2 DEF Init, Lease!Init
<1> QED
  BY <1>1, LeaseStep, MonitorInvariant, PTL DEF Spec, LeaseKept, Lease!Safe
=============================================================================
