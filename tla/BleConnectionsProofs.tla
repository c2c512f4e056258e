----------------------- MODULE BleConnectionsProofs -----------------------
(***************************************************************************)
(* Theorems of BleConnections, for any number of sessions, devices and     *)
(* connects, and any length of the broadcast and of the relay.             *)
(***************************************************************************)
EXTENDS BleConnections, TLAPS

Calling == [op : Ops, dev : Devices, num : Numbers, via : Numbers]
Resting == [op : {"none", "teardown", "closed"}]

\* What the loop awaits for a device has its fields.
LEMMA JobFields ==
    ASSUME NEW j \in Jobs
    PROVE  /\ j.op \in Ops => /\ j \in Calling /\ j.dev \in Devices
                              /\ j.num \in Numbers /\ j.via \in Numbers
           /\ j.op \in Ops \cup {"none", "teardown", "closed"}
<1>1. CASE j \in Calling
  BY <1>1 DEF Calling
<1>2. CASE j \in Resting
  BY <1>2 DEF Resting, Ops
<1> QED
  BY <1>1, <1>2 DEF Jobs, Calling, Resting

\* The jobs that the handlers set.
LEMMA JobsMade ==
    /\ Idle \in Jobs /\ [op |-> "teardown"] \in Jobs /\ [op |-> "closed"] \in Jobs
    /\ Idle.op = "none" /\ [op |-> "teardown"].op = "teardown"
    /\ [op |-> "closed"].op = "closed"
    /\ \A o \in Ops, d \in Devices :
          Job(o, d) \in Jobs /\ Job(o, d).op = o /\ Job(o, d).dev = d
BY BoundsAssumption DEF Idle, Jobs, Job, Numbers

LEMMA QueueUpdate ==
    ASSUME NEW S, NEW T, NEW f \in [S -> Seq(T)], NEW x \in S
    PROVE  /\ \A v \in T : [f EXCEPT ![x] = Append(@, v)] \in [S -> Seq(T)]
           /\ f[x] # <<>> => /\ [f EXCEPT ![x] = Tail(@)] \in [S -> Seq(T)]
                             /\ Head(f[x]) \in T
OBVIOUS

\* Lengths of a queue that grows or shrinks by one.
LEMMA QueueLength ==
    ASSUME NEW T, NEW q \in Seq(T), NEW v \in T
    PROVE  /\ Append(q, v) \in Seq(T) /\ Len(Append(q, v)) = Len(q) + 1
           /\ q # <<>> => Tail(q) \in Seq(T) /\ Len(Tail(q)) = Len(q) - 1 /\ Len(q) > 0
OBVIOUS

LEMMA InitTypes == Init => TypeOK
<1> SUFFICES ASSUME Init PROVE TypeOK
  OBVIOUS
<1>1. 0 \in Numbers
  BY BoundsAssumption DEF Numbers
<1>2. \A s \in Sessions : Len(heard[s]) <= Backlog /\ Len(relay[s]) <= Capacity
  <2> TAKE s \in Sessions
  <2>1. heard[s] = <<>> /\ relay[s] = <<>> /\ Len(<<>>) = 0
    BY DEF Init
  <2> QED
    BY <2>1, BoundsAssumption
<1> QED
  BY <1>1, <1>2, JobsMade DEF Init, TypeOK, Mishaps

\* The loss of a link is broadcast.
LEMMA LinkDownTypes ==
    ASSUME TypeOK, NEW d \in Devices, LinkDown(d)
    PROVE  /\ link' \in [Devices -> Numbers]
           /\ heard' \in [Sessions -> Seq(Losses)]
           /\ \A s \in Sessions : Len(heard'[s]) <= Backlog
<1>1. link' \in [Devices -> Numbers]
  BY BoundsAssumption DEF LinkDown, TypeOK, Numbers
<1> DEFINE loss == [dev |-> d, link |-> link[d]]
<1>2. loss \in Losses
  BY DEF TypeOK, Losses
<1> HIDE DEF loss
<1>3. ASSUME NEW s \in Sessions
      PROVE  heard'[s] \in Seq(Losses) /\ Len(heard'[s]) <= Backlog
  <2> DEFINE all == Append(heard[s], loss)
  <2>1. heard[s] \in Seq(Losses) /\ Len(heard[s]) <= Backlog /\ Backlog \in Nat
    BY BoundsAssumption DEF TypeOK
  <2>2. all \in Seq(Losses) /\ Len(all) = Len(heard[s]) + 1 /\ all # <<>>
    BY <1>2, <2>1
  <2>3. Tail(all) \in Seq(Losses) /\ Len(Tail(all)) = Len(heard[s])
    BY <2>1, <2>2, QueueLength, <1>2
  <2>4. heard'[s] = IF watch[s] # "listening"   THEN heard[s]
                    ELSE IF Len(all) <= Backlog THEN all
                                                ELSE Tail(all)
    BY DEF LinkDown, loss
  <2> HIDE DEF all
  <2> QED
    BY <2>1, <2>2, <2>3, <2>4
<1>4. heard' = [s \in Sessions |-> heard'[s]]
  BY DEF LinkDown
<1> QED
  BY <1>1, <1>3, <1>4

\* A call to disconnect.
LEMMA CallTypes ==
    ASSUME TypeOK, NEW d \in Devices, NEW ok \in BOOLEAN, CallDisconnect(d, ok)
    PROVE  /\ link' \in [Devices -> Numbers] /\ connects' = connects
           /\ heard' \in [Sessions -> Seq(Losses)]
           /\ \A s \in Sessions : Len(heard'[s]) <= Backlog
           /\ mishaps' \subseteq Mishaps
<1>1. CASE LinkDown(d) /\ mishaps' = mishaps \cup Missed(d) \cup (IF ok THEN {} ELSE {"disconnect"})
  BY <1>1, LinkDownTypes DEF TypeOK, Mishaps, Missed, LinkDown
<1>2. CASE UNCHANGED <<linkVars, heard>> /\ mishaps' = mishaps \cup (IF ok THEN {} ELSE {"disconnect"})
  BY <1>2 DEF TypeOK, Mishaps, linkVars
<1> QED
  BY <1>1, <1>2 DEF CallDisconnect

\* A device leaves the books of a session, and its pump is told to stop.
LEMMA ForgetFacts ==
    ASSUME TypeOK, NEW s \in Sessions, NEW d \in Devices, Forget(s, d)
    PROVE  /\ held' \in [Sessions -> [Devices -> Numbers]]
           /\ pumps' \in [Sessions -> [Devices -> Numbers]]
           /\ stopping' \in [Sessions -> [Devices -> SUBSET Numbers]]
           /\ pumping' = pumping
           /\ held'[s][d] = 0 /\ pumps'[s][d] = 0
           /\ stopping'[s][d] = stopping[s][d] \cup (pumping[s][d] \cap {pumps[s][d]})
           /\ \A t \in Sessions, e \in Devices :
                 t # s \/ e # d => /\ held'[t][e] = held[t][e] /\ pumps'[t][e] = pumps[t][e]
                                  /\ stopping'[t][e] = stopping[t][e]
<1>1. 0 \in Numbers
  BY BoundsAssumption DEF Numbers
<1> DEFINE set == stopping[s][d] \cup (pumping[s][d] \cap {pumps[s][d]})
<1>2. set \in SUBSET Numbers
  BY DEF TypeOK
<1>3. /\ held \in [Sessions -> [Devices -> Numbers]]
      /\ pumps \in [Sessions -> [Devices -> Numbers]]
      /\ stopping \in [Sessions -> [Devices -> SUBSET Numbers]]
      /\ held' = [held EXCEPT ![s][d] = 0]
      /\ pumps' = [pumps EXCEPT ![s][d] = 0]
      /\ stopping' = [stopping EXCEPT ![s][d] = set]
      /\ pumping' = pumping
  BY DEF Forget, AbortPump, TypeOK
<1> HIDE DEF set
<1>4. /\ held' \in [Sessions -> [Devices -> Numbers]]
      /\ \A t \in Sessions, e \in Devices :
            held'[t][e] = IF t = s /\ e = d THEN 0 ELSE held[t][e]
  BY <1>1, <1>3
<1>5. /\ pumps' \in [Sessions -> [Devices -> Numbers]]
      /\ \A t \in Sessions, e \in Devices :
            pumps'[t][e] = IF t = s /\ e = d THEN 0 ELSE pumps[t][e]
  BY <1>1, <1>3
<1>6. /\ stopping' \in [Sessions -> [Devices -> SUBSET Numbers]]
      /\ \A t \in Sessions, e \in Devices :
            stopping'[t][e] = IF t = s /\ e = d THEN set ELSE stopping[t][e]
  BY <1>2, <1>3
<1> QED
  BY <1>3, <1>4, <1>5, <1>6 DEF set

\* What the browser is told of a device.
LEMMA ToldFacts ==
    ASSUME TypeOK, NEW s \in Sessions, NEW d \in Devices,
           NEW v \in {"nothing", "connected", "dropped", "closed"},
           told' = [told EXCEPT ![s][d] = v]
    PROVE  /\ told' \in [Sessions -> [Devices -> {"nothing", "connected", "dropped", "closed"}]]
           /\ \A t \in Sessions, e \in Devices :
                 told'[t][e] = IF t = s /\ e = d THEN v ELSE told[t][e]
<1>1. told \in [Sessions -> [Devices -> {"nothing", "connected", "dropped", "closed"}]]
  BY DEF TypeOK
<1> QED
  BY <1>1

\* What the handlers make of the record of a call.
LEMMA Renamed ==
    ASSUME NEW j \in Calling, NEW o \in Ops
    PROVE  LET k == [j EXCEPT !.op = o] IN
           /\ k \in Jobs /\ k.op = o
           /\ k.dev = j.dev /\ k.num = j.num /\ k.via = j.via
BY DEF Calling, Jobs

\* A job that is begun or over is not the end of the session.
LEMMA Moves ==
    ASSUME TypeOK, NEW s \in Sessions, NEW j, Becomes(s, j)
    PROVE  job'[s] = j /\ \A t \in Sessions : t # s => job'[t] = job[t]
BY DEF Becomes, TypeOK

\* The loop has a subscription and a pump on it.
LEMMA SubscribedFacts ==
    ASSUME TypeOK, NEW s \in Sessions, Subscribed(s)
    PROVE  /\ job[s].op = "notifications" /\ job[s].dev \in Devices
           /\ UNCHANGED <<linkVars, held, pumps, stopping, watchVars, told>>
           /\ job' \in [Sessions -> Jobs]
           /\ \A t \in Sessions : t # s => job'[t] = job[t]
           /\ \/ /\ job'[s].op = "entering" /\ job'[s].dev = job[s].dev
                 /\ job'[s].num = job[s].num /\ job'[s].via = job[s].via
                 /\ job[s].num \in Numbers
                 /\ pumping' = [pumping EXCEPT ![s][job[s].dev] = @ \cup {job[s].num}]
                 /\ UNCHANGED mishaps
              \/ /\ job'[s] = Idle /\ mishaps' = mishaps \cup {"notifications"}
                 /\ UNCHANGED pumping
<1>1. /\ job[s] \in Calling /\ job[s].dev \in Devices /\ job[s].num \in Numbers
      /\ job[s].op = "notifications"
  BY JobFields DEF Subscribed, TypeOK, Ops
<1> DEFINE k == [job[s] EXCEPT !.op = "entering"]
<1>2. /\ k \in Jobs /\ k.op = "entering"
      /\ k.dev = job[s].dev /\ k.num = job[s].num /\ k.via = job[s].via
  BY <1>1, Renamed DEF Ops
<1>3. \/ /\ Becomes(s, k) /\ UNCHANGED mishaps
         /\ pumping' = [pumping EXCEPT ![s][job[s].dev] = @ \cup {job[s].num}]
      \/ Becomes(s, Idle) /\ mishaps' = mishaps \cup {"notifications"} /\ UNCHANGED pumping
  BY DEF Subscribed
<1> HIDE DEF k
<1>4. ASSUME NEW j \in Jobs, Becomes(s, j) PROVE job' \in [Sessions -> Jobs]
  BY <1>4 DEF Becomes, TypeOK
<1>5. CASE /\ Becomes(s, k) /\ UNCHANGED mishaps
           /\ pumping' = [pumping EXCEPT ![s][job[s].dev] = @ \cup {job[s].num}]
  BY <1>1, <1>2, <1>4, <1>5, Moves DEF Subscribed
<1>6. CASE Becomes(s, Idle) /\ mishaps' = mishaps \cup {"notifications"} /\ UNCHANGED pumping
  BY <1>1, <1>4, <1>6, Moves, JobsMade DEF Subscribed
<1> QED
  BY <1>3, <1>5, <1>6

\* What the loop does for d at the end of a connect that succeeded.
InBooks(s, d) ==
    /\ held' \in [Sessions -> [Devices -> Numbers]]
    /\ pumps' \in [Sessions -> [Devices -> Numbers]]
    /\ stopping' \in [Sessions -> [Devices -> SUBSET Numbers]]
    /\ told' \in [Sessions -> [Devices -> {"nothing", "connected", "dropped", "closed"}]]
    /\ \A t \in Sessions, e \in Devices :
          LET this == t = s /\ e = d IN
          /\ held'[t][e] = IF this THEN IF link[d] # 0 THEN link[d] ELSE job[s].via
                                   ELSE held[t][e]
          /\ pumps'[t][e] = IF this THEN job[s].num ELSE pumps[t][e]
          /\ stopping'[t][e] =
                IF this THEN stopping[s][d] \cup (pumping[s][d] \cap {pumps[s][d]})
                        ELSE stopping[t][e]
          /\ told'[t][e] = IF this THEN "connected" ELSE told[t][e]
    /\ watch' = [watch EXCEPT ![s] = IF @ = "none" THEN "starting" ELSE @]

LEMMA EnteredFacts ==
    ASSUME TypeOK, NEW s \in Sessions, Entered(s), NEW d, d = job[s].dev
    PROVE  /\ job[s].op = "entering" /\ d \in Devices /\ job[s].num \in Numbers
           /\ Becomes(s, Idle) /\ UNCHANGED <<linkVars, pumping, heard, relay, mishaps>>
           /\ InBooks(s, d)
<1>1. job[s].op = "entering"
  BY DEF Entered
<1>2. d \in Devices /\ job[s].num \in Numbers /\ job[s].via \in Numbers
  BY <1>1, JobFields DEF TypeOK, Ops
<1> DEFINE num == job[s].num
           lnk == IF link[d] # 0 THEN link[d] ELSE job[s].via
           set == stopping[s][d] \cup (pumping[s][d] \cap {pumps[s][d]})
<1>3. lnk \in Numbers /\ num \in Numbers /\ set \in SUBSET Numbers
  BY <1>2 DEF TypeOK
<1>4. /\ held \in [Sessions -> [Devices -> Numbers]]
      /\ pumps \in [Sessions -> [Devices -> Numbers]]
      /\ stopping \in [Sessions -> [Devices -> SUBSET Numbers]]
      /\ told \in [Sessions -> [Devices -> {"nothing", "connected", "dropped", "closed"}]]
      /\ held' = [held EXCEPT ![s][d] = lnk] /\ pumps' = [pumps EXCEPT ![s][d] = num]
      /\ stopping' = [stopping EXCEPT ![s][d] = set]
      /\ told' = [told EXCEPT ![s][d] = "connected"]
  BY <1>2 DEF Entered, ReplacePump, AbortPump, TypeOK
<1> HIDE DEF lnk, set, num
<1>5. /\ held' \in [Sessions -> [Devices -> Numbers]]
      /\ \A t \in Sessions, e \in Devices :
            held'[t][e] = IF t = s /\ e = d THEN lnk ELSE held[t][e]
  BY <1>2, <1>3, <1>4
<1>6. /\ pumps' \in [Sessions -> [Devices -> Numbers]]
      /\ \A t \in Sessions, e \in Devices :
            pumps'[t][e] = IF t = s /\ e = d THEN num ELSE pumps[t][e]
  BY <1>2, <1>3, <1>4
<1>7. /\ stopping' \in [Sessions -> [Devices -> SUBSET Numbers]]
      /\ \A t \in Sessions, e \in Devices :
            stopping'[t][e] = IF t = s /\ e = d THEN set ELSE stopping[t][e]
  BY <1>2, <1>3, <1>4
<1>8. /\ told' \in [Sessions -> [Devices -> {"nothing", "connected", "dropped", "closed"}]]
      /\ \A t \in Sessions, e \in Devices :
            told'[t][e] = IF t = s /\ e = d THEN "connected" ELSE told[t][e]
  BY <1>2, <1>4
<1>9. watch' = [watch EXCEPT ![s] = IF @ = "none" THEN "starting" ELSE @]
  BY DEF Entered
<1>10. ASSUME NEW t \in Sessions, NEW e \in Devices
       PROVE  LET this == t = s /\ e = d IN
              /\ held'[t][e] = IF this THEN IF link[d] # 0 THEN link[d] ELSE job[s].via
                                       ELSE held[t][e]
              /\ pumps'[t][e] = IF this THEN job[s].num ELSE pumps[t][e]
              /\ stopping'[t][e] =
                    IF this THEN stopping[s][d] \cup (pumping[s][d] \cap {pumps[s][d]})
                            ELSE stopping[t][e]
              /\ told'[t][e] = IF this THEN "connected" ELSE told[t][e]
  <2>1. CASE t = s /\ e = d
    BY <1>5, <1>6, <1>7, <1>8, <2>1 DEF lnk, num, set
  <2>2. CASE ~(t = s /\ e = d)
    BY <1>5, <1>6, <1>7, <1>8, <2>2
  <2> QED
    BY <2>1, <2>2
<1>11. InBooks(s, d)
  BY <1>5, <1>6, <1>7, <1>8, <1>9, <1>10 DEF InBooks
<1> QED
  BY <1>1, <1>2, <1>11 DEF Entered

\* A pump is over.
PumpGone(s, d, n) ==
    \A t \in Sessions, e \in Devices :
        LET over == IF t = s /\ e = d THEN {n} ELSE {} IN
        /\ pumping'[t][e] = pumping[t][e] \ over
        /\ stopping'[t][e] = stopping[t][e] \ over

LEMMA PumpOverFacts ==
    ASSUME TypeOK, NEW s \in Sessions, NEW d \in Devices, PumpEnds(s, d) \/ PumpStops(s, d)
    PROVE  /\ UNCHANGED <<linkVars, job, held, pumps, watchVars, told, mishaps>>
           /\ pumping' \in [Sessions -> [Devices -> SUBSET Numbers]]
           /\ stopping' \in [Sessions -> [Devices -> SUBSET Numbers]]
           /\ \E n : PumpGone(s, d, n)
<1>1. PICK n : PumpOver(s, d, n)
  BY DEF PumpEnds, PumpStops
<1>2. /\ pumping \in [Sessions -> [Devices -> SUBSET Numbers]]
      /\ stopping \in [Sessions -> [Devices -> SUBSET Numbers]]
      /\ pumping' = [pumping EXCEPT ![s][d] = @ \ {n}]
      /\ stopping' = [stopping EXCEPT ![s][d] = @ \ {n}]
  BY <1>1 DEF PumpOver, TypeOK
<1>3. /\ pumping' \in [Sessions -> [Devices -> SUBSET Numbers]]
      /\ \A t \in Sessions, e \in Devices :
            pumping'[t][e] = pumping[t][e] \ (IF t = s /\ e = d THEN {n} ELSE {})
  BY <1>2
<1>4. /\ stopping' \in [Sessions -> [Devices -> SUBSET Numbers]]
      /\ \A t \in Sessions, e \in Devices :
            stopping'[t][e] = stopping[t][e] \ (IF t = s /\ e = d THEN {n} ELSE {})
  BY <1>2
<1>5. PumpGone(s, d, n)
  BY <1>3, <1>4 DEF PumpGone
<1> QED
  BY <1>1, <1>3, <1>4, <1>5 DEF PumpOver

LEMMA TypesKept == TypeOK /\ [Next]_vars => TypeOK'
<1> SUFFICES ASSUME TypeOK, [Next]_vars PROVE TypeOK'
  OBVIOUS
<1> USE JobsMade
<1>z. 0 \in Numbers
  BY BoundsAssumption DEF Numbers
<1>1. ASSUME NEW s \in Sessions, NEW d \in Devices, HandleConnect(s, d) PROVE TypeOK'
  BY <1>1 DEF HandleConnect, Starts, Becomes, TypeOK, linkVars, bookVars, watchVars, Ops
<1>2. ASSUME NEW s \in Sessions, NEW d \in Devices, Use(s, d) PROVE TypeOK'
  BY <1>2 DEF Use, Starts, Becomes, TypeOK, linkVars, bookVars, watchVars, Ops
<1>3. ASSUME NEW s \in Sessions, NEW d \in Devices, HandleDisconnect(s, d) PROVE TypeOK'
  <2>1. /\ held' \in [Sessions -> [Devices -> Numbers]]
        /\ pumps' \in [Sessions -> [Devices -> Numbers]]
        /\ stopping' \in [Sessions -> [Devices -> SUBSET Numbers]]
        /\ pumping' = pumping
    BY <1>3, ForgetFacts DEF HandleDisconnect
  <2>2. job' \in [Sessions -> Jobs]
    <3>1. "disconnect" \in Ops
      BY DEF Ops
    <3>2. job' = job \/ job' = [job EXCEPT ![s] = Job("disconnect", d)]
      BY <1>3 DEF HandleDisconnect, Starts, Becomes
    <3>3. Job("disconnect", d) \in Jobs /\ job \in [Sessions -> Jobs]
      BY <3>1 DEF TypeOK
    <3> QED
      BY <3>2, <3>3
  <2>3. told' \in [Sessions -> [Devices -> {"nothing", "connected", "dropped", "closed"}]]
    BY <1>3, ToldFacts DEF HandleDisconnect, TypeOK
  <2> QED
    BY <1>3, <2>1, <2>2, <2>3 DEF HandleDisconnect, TypeOK, linkVars, watchVars
<1>4. ASSUME NEW s \in Sessions, NEW d \in Devices, PumpEnds(s, d) \/ PumpStops(s, d)
      PROVE  TypeOK'
  BY <1>4, PumpOverFacts DEF TypeOK, linkVars, watchVars
<1>5. ASSUME NEW s \in Sessions, Connected(s) PROVE TypeOK'
  <2>1. job[s].dev \in Devices
    BY <1>5, JobFields DEF Connected, TypeOK, Ops
  <2>2. /\ link' \in [Devices -> Numbers] /\ connects' \in Numbers
        /\ job' \in [Sessions -> Jobs]
    <3>1. CASE Becomes(s, Idle) /\ UNCHANGED linkVars
      BY <3>1 DEF Becomes, TypeOK, linkVars
    <3>2. CASE /\ connects < MaxConnects
               /\ connects' = connects + 1
               /\ link' = [link EXCEPT ![job[s].dev] = IF @ = 0 THEN connects' ELSE @]
               /\ Becomes(s, [op |-> "discover", dev |-> job[s].dev, num |-> connects',
                              via |-> link'[job[s].dev]])
      <4>1. connects' \in Numbers
        BY <3>2, BoundsAssumption DEF TypeOK, Numbers
      <4>2. link' \in [Devices -> Numbers]
        BY <3>2, <4>1 DEF TypeOK
      <4>3. [op |-> "discover", dev |-> job[s].dev, num |-> connects',
             via |-> link'[job[s].dev]] \in Jobs
        BY <2>1, <4>1, <4>2 DEF Jobs, Ops
      <4> QED
        BY <3>2, <4>1, <4>2, <4>3 DEF Becomes, TypeOK
    <3> QED
      BY <1>5, <3>1, <3>2 DEF Connected
  <2> QED
    BY <1>5, <2>2 DEF Connected, TypeOK, bookVars, watchVars
<1>6. ASSUME NEW s \in Sessions, Discovered(s) PROVE TypeOK'
  <2>1. job[s] \in Calling
    BY <1>6, JobFields DEF Discovered, TypeOK, Ops
  <2>2. [job[s] EXCEPT !.op = "notifications"] \in Jobs
    BY <2>1, Renamed DEF Ops
  <2> QED
    <3>1. job' \in [Sessions -> Jobs]
      BY <1>6, <2>2 DEF Discovered, Becomes, TypeOK
    <3>2. mishaps' \subseteq Mishaps
      BY <1>6 DEF Discovered, TypeOK, Mishaps
    <3> QED
      BY <1>6, <3>1, <3>2 DEF Discovered, TypeOK, linkVars, bookVars, watchVars
<1>7. ASSUME NEW s \in Sessions, Subscribed(s) PROVE TypeOK'
  <2>1. pumping' \in [Sessions -> [Devices -> SUBSET Numbers]]
    <3> DEFINE d == job[s].dev
               num == job[s].num
    <3>1. /\ pumping \in [Sessions -> [Devices -> SUBSET Numbers]] /\ d \in Devices
          /\ \/ num \in Numbers /\ pumping' = [pumping EXCEPT ![s][d] = @ \cup {num}]
             \/ UNCHANGED pumping
      BY <1>7, SubscribedFacts DEF TypeOK
    <3> DEFINE set == pumping[s][d] \cup {num}
    <3> HIDE DEF d, num
    <3>2. num \in Numbers => set \in SUBSET Numbers
      BY <3>1
    <3>3. \/ set \in SUBSET Numbers /\ pumping' = [pumping EXCEPT ![s][d] = set]
          \/ UNCHANGED pumping
      BY <3>1, <3>2
    <3> HIDE DEF set
    <3>4. CASE set \in SUBSET Numbers /\ pumping' = [pumping EXCEPT ![s][d] = set]
      BY <3>1, <3>4
    <3>5. CASE UNCHANGED pumping
      BY <3>1, <3>5
    <3> QED
      BY <3>3, <3>4, <3>5
  <2>2. mishaps' \subseteq Mishaps
    BY <1>7, SubscribedFacts DEF TypeOK, Mishaps
  <2>3. job' \in [Sessions -> Jobs]
        /\ UNCHANGED <<linkVars, held, pumps, stopping, watchVars, told>>
    BY <1>7, SubscribedFacts
  <2> QED
    BY <2>1, <2>2, <2>3 DEF TypeOK, linkVars, watchVars
<1>18. ASSUME NEW s \in Sessions, Entered(s) PROVE TypeOK'
  <2>1. /\ InBooks(s, job[s].dev) /\ Becomes(s, Idle)
        /\ UNCHANGED <<link, connects, pumping, heard, relay, mishaps>>
    BY <1>18, EnteredFacts DEF linkVars
  <2>2. job' \in [Sessions -> Jobs]
        /\ watch' \in [Sessions -> {"none", "starting", "listening", "dead"}]
    BY <2>1 DEF InBooks, Becomes, TypeOK
  <2> QED
    BY <2>1, <2>2 DEF InBooks, TypeOK
<1>8. ASSUME NEW s \in Sessions, Used(s) PROVE TypeOK'
  BY <1>8 DEF Used, Becomes, TypeOK, linkVars, bookVars, watchVars
<1>9. ASSUME NEW s \in Sessions, Disconnected(s) PROVE TypeOK'
  <2>1. job[s].dev \in Devices
    BY <1>9, JobFields DEF Disconnected, TypeOK, Ops
  <2>2. PICK ok \in BOOLEAN :
          /\ CallDisconnect(job[s].dev, ok)
          /\ told' = IF ok THEN [told EXCEPT ![s][job[s].dev] = "closed"] ELSE told
    BY <1>9 DEF Disconnected
  <2>3. told' \in [Sessions -> [Devices -> {"nothing", "connected", "dropped", "closed"}]]
    BY <2>1, <2>2 DEF TypeOK
  <2> QED
    BY <1>9, <2>1, <2>2, <2>3, CallTypes DEF Disconnected, Becomes, TypeOK, bookVars
<1>10. ASSUME NEW s \in Sessions, WatchStarts(s) PROVE TypeOK'
  BY <1>10 DEF WatchStarts, TypeOK, linkVars, bookVars
<1>11. ASSUME NEW s \in Sessions, Relay(s) PROVE TypeOK'
  <2>1. heard[s] \in Seq(Losses) /\ relay[s] \in Seq(Losses) /\ heard[s] # <<>>
        /\ Head(heard[s]) \in Losses
    BY <1>11, QueueUpdate DEF Relay, TypeOK
  <2>2. heard' \in [Sessions -> Seq(Losses)] /\ relay' \in [Sessions -> Seq(Losses)]
    BY <1>11, <2>1, QueueUpdate DEF Relay, TypeOK
  <2>3. /\ heard'[s] = Tail(heard[s]) /\ relay'[s] = Append(relay[s], Head(heard[s]))
        /\ \A t \in Sessions : t # s => heard'[t] = heard[t] /\ relay'[t] = relay[t]
    BY <1>11 DEF Relay, TypeOK
  <2>4. Len(heard'[s]) <= Backlog /\ Len(relay'[s]) <= Capacity
    BY <1>11, <2>1, <2>3, QueueLength, BoundsAssumption DEF Relay, TypeOK
  <2> QED
    BY <1>11, <2>2, <2>3, <2>4 DEF Relay, RelayFrame, TypeOK, linkVars, bookVars
<1>12. ASSUME NEW s \in Sessions, Notice(s) PROVE TypeOK'
  <2> DEFINE e == Head(relay[s]).dev
  <2>1. relay[s] \in Seq(Losses) /\ relay[s] # <<>> /\ e \in Devices
    <3>1. relay[s] # <<>> /\ relay \in [Sessions -> Seq(Losses)]
      BY <1>12 DEF Notice, TypeOK
    <3>2. Head(relay[s]) \in Losses
      BY <3>1, QueueUpdate
    <3> QED
      BY <3>1, <3>2 DEF Losses
  <2>2. relay' \in [Sessions -> Seq(Losses)]
    BY <1>12, <2>1, QueueUpdate DEF Notice, TypeOK
  <2>3. \A t \in Sessions : Len(relay'[t]) <= Capacity
    <3>1. relay'[s] = Tail(relay[s]) /\ \A t \in Sessions : t # s => relay'[t] = relay[t]
      BY <1>12 DEF Notice, TypeOK
    <3>2. Len(relay'[s]) <= Capacity
      BY <2>1, <3>1, BoundsAssumption DEF TypeOK
    <3> QED
      BY <3>1, <3>2 DEF TypeOK
  <2>4. /\ held' \in [Sessions -> [Devices -> Numbers]]
        /\ pumps' \in [Sessions -> [Devices -> Numbers]]
        /\ stopping' \in [Sessions -> [Devices -> SUBSET Numbers]]
        /\ pumping' = pumping
        /\ told' \in [Sessions -> [Devices -> {"nothing", "connected", "dropped", "closed"}]]
        /\ mishaps' \subseteq Mishaps
    <3>1. CASE UNCHANGED <<bookVars, told, mishaps>>
      BY <3>1 DEF TypeOK, bookVars
    <3>2. CASE /\ Forget(s, e) /\ told' = [told EXCEPT ![s][e] = "dropped"]
               /\ mishaps' = mishaps \cup (IF held[s][e] = link[e] THEN {"stale"} ELSE {})
      <4>1. mishaps' \subseteq Mishaps
        BY <3>2 DEF TypeOK, Mishaps
      <4> QED
        BY <2>1, <3>2, <4>1, ForgetFacts, ToldFacts
    <3> QED
      BY <1>12, <3>1, <3>2 DEF Notice
  <2> QED
    BY <1>12, <2>2, <2>3, <2>4 DEF Notice, TypeOK, linkVars
<1>13. ASSUME NEW s \in Sessions, Teardown(s) PROVE TypeOK'
  <2>1. heard' \in [Sessions -> Seq(Losses)] /\ relay' \in [Sessions -> Seq(Losses)]
    BY <1>13 DEF Teardown, TypeOK
  <2>2. \A t \in Sessions : Len(heard'[t]) <= Backlog /\ Len(relay'[t]) <= Capacity
    BY <1>13, BoundsAssumption DEF Teardown, TypeOK
  <2>3. /\ pumps' \in [Sessions -> [Devices -> Numbers]]
        /\ stopping' \in [Sessions -> [Devices -> SUBSET Numbers]]
    BY <1>13, <1>z DEF Teardown, AbortPumps, TypeOK
  <2> QED
    BY <1>13, <2>1, <2>2, <2>3 DEF Teardown, Becomes, TypeOK, linkVars
<1>14. ASSUME NEW s \in Sessions, CloseConnection(s) PROVE TypeOK'
  <2>0. PICK d \in Devices : /\ held' = [held EXCEPT ![s][d] = 0]
                            /\ \E ok \in BOOLEAN : CallDisconnect(d, ok)
    BY <1>14 DEF CloseConnection
  <2>1. PICK ok \in BOOLEAN : CallDisconnect(d, ok) /\ held' = [held EXCEPT ![s][d] = 0]
    BY <2>0
  <2> QED
    BY <1>14, <1>z, <2>1, CallTypes DEF CloseConnection, TypeOK
<1>15. ASSUME NEW s \in Sessions, SessionEnds(s) \/ SendFails(s) PROVE TypeOK'
  <2>1. /\ job' = [job EXCEPT ![s] = [op |-> "closed"]]
        /\ UNCHANGED <<linkVars, bookVars, watchVars, told, mishaps>>
    BY <1>15 DEF SessionEnds, SendFails, Closes, Becomes
  <2>2. job' \in [Sessions -> Jobs]
    BY <2>1 DEF TypeOK
  <2> QED
    BY <2>1, <2>2 DEF TypeOK, linkVars, bookVars, watchVars
<1>16. ASSUME NEW d \in Devices, Drop(d) PROVE TypeOK'
  <2>1. connects' = connects /\ mishaps' \subseteq Mishaps
    BY <1>16 DEF Drop, LinkDown, Missed, Mishaps, TypeOK
  <2> QED
    BY <1>16, <2>1, LinkDownTypes DEF Drop, TypeOK, bookVars
<1>17. CASE UNCHANGED vars
  BY <1>17 DEF vars, linkVars, bookVars, watchVars, TypeOK
<1> QED
  BY <1>1, <1>2, <1>3, <1>4, <1>5, <1>6, <1>7, <1>8, <1>9, <1>10, <1>11, <1>12, <1>13,
     <1>14, <1>15, <1>16, <1>17, <1>18 DEF Next, Handles, Ends, Terminated

LEMMA TypesInvariant == Spec => []TypeOK
BY InitTypes, TypesKept, PTL DEF Spec

-----------------------------------------------------------------------------
(* The inductive invariants, each stacked on the ones before it *)

\* The loop of s is between the link and the books.
Opening(s, d) ==
    job[s].op \in {"discover", "notifications", "entering"} /\ job[s].dev = d
Leaving(s) == job[s].op \in {"teardown", "closed"}

ViaIsLink ==
    \A s \in Sessions :
        job[s].op \in {"discover", "notifications", "entering"} => job[s].via # 0

\* The pumps that nobody has told to stop and that no connect is about to enter.
Left(s, d) == pumping[s][d] \ (stopping[s][d] \cup Spawned(s, d))

\* The pumps of a session that tears down were aborted before its connections close.
Quiet ==
    \A s \in Sessions, d \in Devices :
        /\ Left(s, d) \subseteq {pumps[s][d]}
        /\ held[s][d] = 0 \/ Leaving(s) => Left(s, d) = {}

\* A link is kept by a session that has this very link in its books, or that will
\* enter it, or that is closing it.
Keeper(s, d) ==
    \/ held[s][d] = link[d]
    \/ Opening(s, d)
    \/ job[s].op = "disconnect" /\ job[s].dev = d

LinksKept ==
    mishaps \subseteq {"missed"} =>
        \A d \in Devices : link[d] # 0 => \E s \in Sessions : Keeper(s, d)

\* What the browser was told, also while the loop closes a connection.
Belief(s, d) ==
    IF job[s].op = "disconnect" /\ job[s].dev = d
    THEN held[s][d] = 0
    ELSE told[s][d] = "connected" <=> held[s][d] # 0

Beliefs ==
    "disconnect" \notin mishaps =>
        \A s \in Sessions, d \in Devices : Leaving(s) \/ Belief(s, d)

Carries(queue, loss) == \E i \in DOMAIN queue : queue[i] = loss
Either(p, q, loss) == Carries(p, loss) \/ Carries(q, loss)
OnTheWay(s, d, l) == Either(heard[s], relay[s], [dev |-> d, link |-> l])

\* The loss of a link that s has, or is about to enter, is on its way to s.
Informed(s, d) ==
    /\ held[s][d] \notin {0, link[d]} => OnTheWay(s, d, held[s][d])
    /\ Opening(s, d) /\ job[s].via # link[d] => OnTheWay(s, d, job[s].via)

LossesKnown ==
    "missed" \notin mishaps =>
        \A s \in Sessions : Leaving(s) \/ \A d \in Devices : Informed(s, d)

-----------------------------------------------------------------------------
(* Pumps *)

LEMMA ViaKept == TypeOK /\ ViaIsLink /\ [Next]_vars => ViaIsLink'
<1> SUFFICES ASSUME TypeOK, ViaIsLink, [Next]_vars, NEW t \in Sessions,
                    job'[t].op \in {"discover", "notifications", "entering"}
             PROVE  job'[t].via # 0
  BY DEF ViaIsLink
<1> USE JobsMade
<1>1. ASSUME NEW s \in Sessions, NEW d \in Devices, NEW o \in {"connect", "use", "disconnect"},
             Starts(s, o, d)
      PROVE  job'[t].via # 0
  BY <1>1 DEF Starts, Becomes, TypeOK, ViaIsLink, Ops
<1>2. ASSUME NEW s \in Sessions, Becomes(s, Idle) PROVE job'[t].via # 0
  BY <1>2 DEF Becomes, TypeOK, ViaIsLink
<1>3. CASE UNCHANGED job
  BY <1>3 DEF ViaIsLink
<1>4. ASSUME NEW s \in Sessions, Connected(s) PROVE job'[t].via # 0
  <2>1. CASE Becomes(s, Idle)
    BY <1>2, <2>1
  <2>2. CASE ~Becomes(s, Idle)
    <3> DEFINE d == job[s].dev
    <3>1. d \in Devices /\ link[d] \in Nat /\ connects \in Nat
      BY <1>4, JobFields DEF Connected, TypeOK, Ops, Numbers
    <3>2. /\ connects' = connects + 1
          /\ link' = [link EXCEPT ![d] = IF @ = 0 THEN connects' ELSE @]
          /\ job' = [job EXCEPT ![s] = [op |-> "discover", dev |-> d, num |-> connects',
                                        via |-> link'[d]]]
      BY <1>4, <2>2 DEF Connected, Becomes
    <3>3. link'[d] # 0
      BY <3>1, <3>2 DEF TypeOK
    <3> QED
      BY <3>2, <3>3 DEF TypeOK, ViaIsLink
  <2> QED
    BY <2>1, <2>2
<1>5. ASSUME NEW s \in Sessions, Discovered(s) PROVE job'[t].via # 0
  <2>1. CASE Becomes(s, [job[s] EXCEPT !.op = "notifications"])
    <3>1. job[s] \in Calling /\ job[s].via # 0
      BY <1>5, JobFields DEF Discovered, TypeOK, ViaIsLink, Ops
    <3>2. [job[s] EXCEPT !.op = "notifications"].via = job[s].via
      BY <3>1, Renamed DEF Ops
    <3> QED
      BY <2>1, <3>1, <3>2 DEF Becomes, TypeOK, ViaIsLink
  <2> QED
    BY <1>2, <1>5, <2>1 DEF Discovered
<1>10. ASSUME NEW s \in Sessions, Subscribed(s) PROVE job'[t].via # 0
  <2>1. /\ job[s].op = "notifications" /\ \A u \in Sessions : u # s => job'[u] = job[u]
        /\ job'[s] = Idle \/ job'[s].via = job[s].via
    BY <1>10, SubscribedFacts
  <2> QED
    BY <2>1 DEF ViaIsLink
<1>6. ASSUME NEW s \in Sessions, Teardown(s) \/ Closes(s) PROVE job'[t].via # 0
  BY <1>6 DEF Teardown, Closes, Becomes, TypeOK, ViaIsLink
<1>7. ASSUME NEW s \in Sessions, NEW d \in Devices,
             \/ HandleConnect(s, d) \/ Use(s, d) \/ HandleDisconnect(s, d)
             \/ PumpEnds(s, d) \/ PumpStops(s, d)
      PROVE  job'[t].via # 0
  <2>1. PumpEnds(s, d) \/ PumpStops(s, d) => UNCHANGED job
    BY PumpOverFacts
  <2> QED
    BY <1>1, <1>3, <1>7, <2>1 DEF HandleConnect, Use, HandleDisconnect
<1>8. ASSUME NEW s \in Sessions,
             \/ Entered(s) \/ Used(s) \/ Disconnected(s) \/ WatchStarts(s) \/ Relay(s)
             \/ Notice(s) \/ CloseConnection(s)
      PROVE  job'[t].via # 0
  BY <1>2, <1>3, <1>8 DEF Entered, Used, Disconnected, WatchStarts, Relay, RelayFrame,
     Notice, CloseConnection
<1>9. ASSUME NEW d \in Devices, Drop(d) PROVE job'[t].via # 0
  BY <1>3, <1>9 DEF Drop
<1> QED
  BY <1>3, <1>4, <1>5, <1>6, <1>7, <1>8, <1>9, <1>10
     DEF Next, Handles, Ends, SessionEnds, SendFails, Terminated, vars

\* The job of t stays, or gives way to one that neither spawned a pump nor ends the
\* session.
Plain(t) ==
    \/ job'[t] = job[t]
    \/ /\ job[t].op # "entering"
       /\ job'[t].op \notin {"entering", "teardown", "closed"}

LEMMA PlainFacts ==
    ASSUME NEW t, NEW e, Plain(t)
    PROVE  Spawned(t, e)' = Spawned(t, e) /\ (Leaving(t)' => Leaving(t))
BY DEF Plain, Spawned, Leaving

\* A device that leaves the books leaves no pump behind.
LEMMA ForgetQuiet ==
    ASSUME TypeOK, Quiet, NEW s \in Sessions, NEW d \in Devices, Forget(s, d),
           NEW t \in Sessions, NEW e \in Devices, Plain(t)
    PROVE  /\ Left(t, e)' \subseteq {pumps'[t][e]}
           /\ held'[t][e] = 0 \/ Leaving(t)' => Left(t, e)' = {}
<1>1. CASE t = s /\ e = d
  <2>1. /\ pumping'[t][e] = pumping[t][e]
        /\ stopping'[t][e] = stopping[t][e] \cup (pumping[t][e] \cap {pumps[t][e]})
    BY <1>1, ForgetFacts
  <2>2. Left(t, e) \subseteq {pumps[t][e]}
    BY DEF Quiet
  <2>3. Left(t, e)' = {}
    BY <2>1, <2>2, PlainFacts DEF Left
  <2> QED
    BY <2>3
<1>2. CASE ~(t = s /\ e = d)
  <2>1. /\ held'[t][e] = held[t][e] /\ pumps'[t][e] = pumps[t][e]
        /\ pumping'[t][e] = pumping[t][e] /\ stopping'[t][e] = stopping[t][e]
    BY <1>2, ForgetFacts
  <2>2. Left(t, e)' = Left(t, e) /\ (Leaving(t)' => Leaving(t))
    BY <2>1, PlainFacts DEF Left
  <2> QED
    BY <2>1, <2>2 DEF Quiet
<1> QED
  BY <1>1, <1>2

\* The relayed loss is one of a device.
LEMMA NoticeFacts ==
    ASSUME TypeOK, NEW s \in Sessions, Notice(s), NEW d, d = Head(relay[s]).dev
    PROVE  /\ d \in Devices /\ relay[s] \in Seq(Losses) /\ relay[s] # <<>>
           /\ Head(relay[s]) \in Losses
           /\ job[s] = Idle /\ UNCHANGED <<linkVars, job, watch, heard>>
           /\ relay'[s] = Tail(relay[s])
           /\ \A t \in Sessions : t # s => relay'[t] = relay[t]
           /\ \/ held[s][d] = 0 /\ UNCHANGED <<bookVars, told, mishaps>>
              \/ /\ Forget(s, d) /\ told' = [told EXCEPT ![s][d] = "dropped"]
                 /\ mishaps' = mishaps \cup
                       (IF held[s][d] = link[d] THEN {"stale"} ELSE {})
<1>1. relay \in [Sessions -> Seq(Losses)] /\ relay[s] # <<>>
  BY DEF TypeOK, Notice
<1>2. Head(relay[s]) \in Losses
  BY <1>1, QueueUpdate
<1>3. d \in Devices
  BY <1>2 DEF Losses
<1>4. relay' = [relay EXCEPT ![s] = Tail(@)]
  BY DEF Notice
<1>5. relay'[s] = Tail(relay[s]) /\ \A t \in Sessions : t # s => relay'[t] = relay[t]
  BY <1>1, <1>4
<1> QED
  BY <1>1, <1>2, <1>3, <1>5 DEF Notice

LEMMA QuietKept == TypeOK /\ ViaIsLink /\ Quiet /\ [Next]_vars => Quiet'
<1> SUFFICES ASSUME TypeOK, ViaIsLink, Quiet, [Next]_vars,
                    NEW t \in Sessions, NEW e \in Devices
             PROVE  /\ Left(t, e)' \subseteq {pumps'[t][e]}
                    /\ held'[t][e] = 0 \/ Leaving(t)' => Left(t, e)' = {}
  BY DEF Quiet
<1> DEFINE Goal == /\ Left(t, e)' \subseteq {pumps'[t][e]}
                   /\ held'[t][e] = 0 \/ Leaving(t)' => Left(t, e)' = {}
<1> USE JobsMade
<1>q. /\ Left(t, e) \subseteq {pumps[t][e]}
      /\ held[t][e] = 0 \/ Leaving(t) => Left(t, e) = {}
  BY DEF Quiet
<1>1. ASSUME UNCHANGED bookVars, Plain(t) PROVE Goal
  <2>1. Left(t, e)' = Left(t, e) /\ (Leaving(t)' => Leaving(t))
    BY <1>1, PlainFacts DEF Left, bookVars
  <2> QED
    BY <1>1, <1>q, <2>1 DEF bookVars
<1>2. ASSUME NEW s \in Sessions, NEW o \in {"connect", "use", "disconnect"}, NEW d \in Devices,
             Starts(s, o, d)
      PROVE  Plain(t)
  BY <1>2, Moves DEF Starts, Plain, Ops
<1>3. ASSUME NEW s \in Sessions, Becomes(s, Idle), job[s].op # "entering" PROVE Plain(t)
  BY <1>3, Moves DEF Plain
<1>4. ASSUME NEW s \in Sessions, NEW d \in Devices, HandleConnect(s, d) \/ Use(s, d) PROVE Goal
  BY <1>1, <1>2, <1>4 DEF HandleConnect, Use
<1>5. ASSUME NEW s \in Sessions, NEW d \in Devices, HandleDisconnect(s, d) PROVE Goal
  <2>1. Plain(t)
    BY <1>2, <1>5 DEF HandleDisconnect, Plain
  <2> QED
    BY <1>5, <2>1, ForgetQuiet DEF HandleDisconnect
<1>6. ASSUME NEW s \in Sessions, NEW d \in Devices, PumpEnds(s, d) \/ PumpStops(s, d)
      PROVE  Goal
  <2>1. /\ UNCHANGED <<job, held, pumps>>
        /\ \E over : /\ pumping'[t][e] = pumping[t][e] \ over
                     /\ stopping'[t][e] = stopping[t][e] \ over
    <3>1. PICK n : PumpGone(s, d, n)
      BY <1>6, PumpOverFacts
    <3>2. UNCHANGED <<job, held, pumps>>
      BY <1>6, PumpOverFacts
    <3> QED
      BY <3>1, <3>2 DEF PumpGone
  <2>2. Plain(t)
    BY <2>1 DEF Plain
  <2>3. Left(t, e)' \subseteq Left(t, e) /\ (Leaving(t)' => Leaving(t))
    BY <2>1, <2>2, PlainFacts DEF Left
  <2> QED
    BY <1>q, <2>1, <2>3
<1>7. ASSUME NEW s \in Sessions, Connected(s) PROVE Goal
  <2>0. job[s].op = "connect" /\ UNCHANGED bookVars
    BY <1>7 DEF Connected
  <2>1. CASE Becomes(s, Idle)
    BY <1>1, <1>3, <2>0, <2>1
  <2>2. CASE ~Becomes(s, Idle)
    <3>1. Becomes(s, [op |-> "discover", dev |-> job[s].dev, num |-> connects',
                      via |-> link'[job[s].dev]])
      BY <1>7, <2>2 DEF Connected
    <3>2. Plain(t)
      BY <2>0, <3>1, Moves DEF Plain
    <3> QED
      BY <1>1, <2>0, <3>2
  <2> QED
    BY <2>1, <2>2
<1>8. ASSUME NEW s \in Sessions, Discovered(s) PROVE Goal
  <2>1. job[s] \in Calling /\ job[s].op = "discover" /\ UNCHANGED bookVars
    BY <1>8, JobFields DEF Discovered, TypeOK, Ops
  <2>2. Becomes(s, [job[s] EXCEPT !.op = "notifications"]) => Plain(t)
    <3> DEFINE k == [job[s] EXCEPT !.op = "notifications"]
    <3>1. k.op = "notifications"
      BY <2>1, Renamed DEF Ops
    <3> HIDE DEF k
    <3>2. Becomes(s, k) => Plain(t)
      BY <2>1, <3>1, Moves DEF Plain
    <3> QED
      BY <3>2 DEF k
  <2> QED
    BY <1>1, <1>3, <1>8, <2>1, <2>2 DEF Discovered
<1>9. ASSUME NEW s \in Sessions, Subscribed(s) PROVE Goal
  <2> DEFINE d == job[s].dev
             num == job[s].num
  <2>1. /\ d \in Devices /\ job[s].op = "notifications"
        /\ UNCHANGED <<held, pumps, stopping>>
        /\ \A u \in Sessions : u # s => job'[u] = job[u]
        /\ \/ /\ job'[s].op = "entering" /\ job'[s].dev = d /\ job'[s].num = num
              /\ num \in Numbers
              /\ pumping' = [pumping EXCEPT ![s][d] = @ \cup {num}]
           \/ job'[s] = Idle /\ UNCHANGED pumping
    BY <1>9, SubscribedFacts
  <2> HIDE DEF d, num
  <2>2. CASE job'[s] = Idle /\ UNCHANGED pumping
    BY <1>1, <2>1, <2>2 DEF Plain, bookVars
  <2>3. CASE /\ job'[s].op = "entering" /\ job'[s].dev = d /\ job'[s].num = num
             /\ num \in Numbers
             /\ pumping' = [pumping EXCEPT ![s][d] = @ \cup {num}]
    <3>1. \A u \in Sessions, g \in Devices :
              pumping'[u][g] = IF u = s /\ g = d THEN pumping[u][g] \cup {num}
                                                ELSE pumping[u][g]
      BY <2>1, <2>3 DEF TypeOK
    <3>2. CASE t = s
      <4>1. Spawned(t, e)' = IF e = d THEN {num} ELSE {}
        BY <2>3, <3>2 DEF Spawned
      <4>2. Spawned(t, e) = {}
        BY <2>1, <3>2 DEF Spawned
      <4>3. Left(t, e)' \subseteq Left(t, e)
        <5>1. /\ pumping'[t][e] \subseteq pumping[t][e] \cup Spawned(t, e)'
              /\ stopping'[t][e] = stopping[t][e]
          BY <2>1, <3>1, <3>2, <4>1
        <5> QED
          BY <4>2, <5>1 DEF Left
      <4>4. ~Leaving(t)'
        BY <2>3, <3>2 DEF Leaving
      <4> QED
        BY <1>q, <2>1, <4>3, <4>4
    <3>3. CASE t # s
      <4>1. pumping'[t][e] = pumping[t][e] /\ job'[t] = job[t]
        BY <2>1, <3>1, <3>3
      <4>2. Left(t, e)' = Left(t, e) /\ (Leaving(t)' => Leaving(t))
        BY <2>1, <4>1, PlainFacts DEF Left, Plain
      <4> QED
        BY <1>q, <2>1, <4>2
    <3> QED
      BY <3>2, <3>3
  <2> QED
    BY <2>1, <2>2, <2>3
<1>10. ASSUME NEW s \in Sessions, Entered(s) PROVE Goal
  <2> DEFINE d == job[s].dev
             num == job[s].num
  <2>1. /\ job[s].op = "entering" /\ d \in Devices /\ num \in Numbers /\ job[s].via # 0
        /\ job'[s] = Idle /\ \A u \in Sessions : u # s => job'[u] = job[u]
        /\ pumping' = pumping /\ InBooks(s, d)
    BY <1>10, EnteredFacts, Moves DEF ViaIsLink
  <2>2. CASE t = s
    <3>1. ~Leaving(t)' /\ ~Leaving(t) /\ Spawned(t, e)' = {}
      BY <2>1, <2>2 DEF Leaving, Spawned
    <3>2. CASE e = d
      <4>1. /\ held'[t][e] # 0 /\ pumps'[t][e] = num
            /\ stopping'[t][e] = stopping[t][e] \cup (pumping[t][e] \cap {pumps[t][e]})
        BY <2>1, <2>2, <3>2, ZenonT(30) DEF InBooks
      <4>2. Spawned(t, e) = {num}
        BY <2>1, <2>2, <3>2 DEF Spawned
      <4>3. Left(t, e)' \subseteq {num}
        BY <1>q, <2>1, <3>1, <4>1, <4>2 DEF Left
      <4> QED
        BY <3>1, <4>1, <4>3
    <3>3. CASE e # d
      <4>1. /\ held'[t][e] = held[t][e] /\ pumps'[t][e] = pumps[t][e]
            /\ stopping'[t][e] = stopping[t][e]
        BY <2>1, <3>3, ZenonT(30) DEF InBooks
      <4>2. Spawned(t, e) = {}
        BY <2>1, <2>2, <3>3 DEF Spawned
      <4>3. Left(t, e)' = Left(t, e)
        BY <2>1, <3>1, <4>1, <4>2 DEF Left
      <4> QED
        BY <1>q, <3>1, <4>1, <4>3
    <3> QED
      BY <3>2, <3>3
  <2>3. CASE t # s
    <3>1. /\ held'[t][e] = held[t][e] /\ pumps'[t][e] = pumps[t][e]
          /\ stopping'[t][e] = stopping[t][e] /\ Plain(t)
      BY <2>1, <2>3, ZenonT(30) DEF InBooks, Plain
    <3>2. Left(t, e)' = Left(t, e) /\ (Leaving(t)' => Leaving(t))
      BY <2>1, <3>1, PlainFacts DEF Left
    <3> QED
      BY <1>q, <3>1, <3>2
  <2> QED
    BY <2>2, <2>3
<1>11. ASSUME NEW s \in Sessions, Used(s) \/ Disconnected(s) PROVE Goal
  BY <1>1, <1>3, <1>11 DEF Used, Disconnected
<1>12. ASSUME NEW s \in Sessions, WatchStarts(s) \/ Relay(s) PROVE Goal
  BY <1>1, <1>12 DEF WatchStarts, Relay, RelayFrame, Plain
<1>13. ASSUME NEW s \in Sessions, Notice(s) PROVE Goal
  <2>1. Head(relay[s]).dev \in Devices /\ UNCHANGED job
        /\ (UNCHANGED bookVars \/ Forget(s, Head(relay[s]).dev))
    BY <1>13, NoticeFacts
  <2>2. Plain(t)
    BY <2>1 DEF Plain
  <2> QED
    BY <1>1, <2>1, <2>2, ForgetQuiet
<1>14. ASSUME NEW s \in Sessions, Teardown(s) PROVE Goal
  <2>1. /\ job[s] = Idle /\ job'[s].op = "teardown" /\ UNCHANGED <<held, pumping>>
        /\ \A u \in Sessions : u # s => job'[u] = job[u]
        /\ \A g \in Devices :
              stopping'[s][g] = stopping[s][g] \cup (pumping[s][g] \cap {pumps[s][g]})
        /\ \A u \in Sessions : u # s => stopping'[u] = stopping[u] /\ pumps'[u] = pumps[u]
    BY <1>14, Moves DEF Teardown, AbortPumps, TypeOK
  <2>2. CASE t = s
    <3>1. Spawned(t, e) = {} /\ Spawned(t, e)' = {}
      BY <2>1, <2>2 DEF Spawned
    <3>2. Left(t, e)' = {}
      BY <1>q, <2>1, <2>2, <3>1 DEF Left
    <3> QED
      BY <3>2
  <2>3. CASE t # s
    <3>1. Left(t, e)' = Left(t, e) /\ (Leaving(t)' => Leaving(t))
      BY <2>1, <2>3, PlainFacts DEF Left, Plain
    <3> QED
      BY <1>q, <2>1, <2>3, <3>1
  <2> QED
    BY <2>2, <2>3
<1>15. ASSUME NEW s \in Sessions, CloseConnection(s) PROVE Goal
  <2>1. Leaving(s) /\ UNCHANGED <<job, pumps, pumping, stopping>>
        /\ \A u \in Sessions : u # s => held'[u] = held[u]
    BY <1>15 DEF CloseConnection, Leaving, TypeOK
  <2>2. Left(t, e)' = Left(t, e) /\ (Leaving(t)' <=> Leaving(t))
    BY <2>1, PlainFacts DEF Left, Plain, Leaving
  <2> QED
    BY <1>q, <2>1, <2>2
<1>16. ASSUME NEW s \in Sessions, SessionEnds(s) \/ SendFails(s) PROVE Goal
  <2>1. /\ job[s].op = "teardown" /\ job'[s].op = "closed" /\ UNCHANGED bookVars
        /\ \A u \in Sessions : u # s => job'[u] = job[u]
    BY <1>16, Moves DEF SessionEnds, SendFails, Closes
  <2>2. Spawned(t, e)' = Spawned(t, e) /\ (Leaving(t)' <=> Leaving(t))
    BY <2>1 DEF Spawned, Leaving
  <2>3. Left(t, e)' = Left(t, e)
    BY <2>1, <2>2 DEF Left, bookVars
  <2> QED
    BY <1>q, <2>1, <2>2, <2>3 DEF bookVars
<1>17. ASSUME NEW d \in Devices, Drop(d) PROVE Goal
  BY <1>1, <1>17 DEF Drop, Plain
<1>18. CASE UNCHANGED vars
  BY <1>1, <1>18 DEF vars, Plain
<1> QED
  BY <1>4, <1>5, <1>6, <1>7, <1>8, <1>9, <1>10, <1>11, <1>12, <1>13, <1>14, <1>15, <1>16,
     <1>17, <1>18 DEF Next, Handles, Ends, Terminated

-----------------------------------------------------------------------------
(* What the browser believes, and who keeps a link *)

\* The answers of the adapter to a connect.
LEMMA ConnectedFacts ==
    ASSUME TypeOK, NEW s \in Sessions, Connected(s), NEW d, d = job[s].dev
    PROVE  /\ d \in Devices /\ job[s].op = "connect"
           /\ UNCHANGED <<bookVars, watchVars, told, mishaps>>
           /\ \A t \in Sessions : t # s => job'[t] = job[t]
           /\ \/ job'[s] = Idle /\ UNCHANGED linkVars
              \/ /\ job'[s].op = "discover" /\ job'[s].dev = d /\ job'[s].via = link'[d]
                 /\ link'[d] # 0 /\ (link[d] # 0 => link'[d] = link[d])
                 /\ \A e \in Devices : e # d => link'[e] = link[e]
<1>1. d \in Devices /\ job[s].op = "connect"
  BY JobFields DEF Connected, TypeOK, Ops
<1>2. CASE Becomes(s, Idle) /\ UNCHANGED linkVars
  BY <1>1, <1>2, Moves DEF Connected
<1>3. CASE ~(Becomes(s, Idle) /\ UNCHANGED linkVars)
  <2> DEFINE k == [op |-> "discover", dev |-> d, num |-> connects', via |-> link'[d]]
  <2>1. /\ connects' = connects + 1 /\ Becomes(s, k)
        /\ link' = [link EXCEPT ![d] = IF @ = 0 THEN connects' ELSE @]
    BY <1>3 DEF Connected
  <2>2. k.op = "discover" /\ k.dev = d /\ k.via = link'[d]
    OBVIOUS
  <2> HIDE DEF k
  <2>3. job'[s] = k /\ \A t \in Sessions : t # s => job'[t] = job[t]
    BY <2>1, Moves
  <2>4. connects \in Nat /\ link \in [Devices -> Nat]
    BY BoundsAssumption DEF TypeOK, Numbers
  <2>5. link'[d] # 0 /\ (link[d] # 0 => link'[d] = link[d])
        /\ \A e \in Devices : e # d => link'[e] = link[e]
    BY <1>1, <2>1, <2>4
  <2> QED
    BY <1>1, <2>2, <2>3, <2>5 DEF Connected
<1> QED
  BY <1>2, <1>3

LEMMA DiscoveredFacts ==
    ASSUME TypeOK, NEW s \in Sessions, Discovered(s)
    PROVE  /\ job[s].op = "discover" /\ job[s].dev \in Devices
           /\ UNCHANGED <<linkVars, bookVars, watchVars, told>>
           /\ \A t \in Sessions : t # s => job'[t] = job[t]
           /\ \/ /\ job'[s].op = "notifications" /\ job'[s].dev = job[s].dev
                 /\ job'[s].via = job[s].via /\ UNCHANGED mishaps
              \/ job'[s] = Idle /\ mishaps' = mishaps \cup {"discover"}
<1>1. job[s] \in Calling /\ job[s].dev \in Devices /\ job[s].op = "discover"
  BY JobFields DEF Discovered, TypeOK, Ops
<1> DEFINE k == [job[s] EXCEPT !.op = "notifications"]
<1>2. k.op = "notifications" /\ k.dev = job[s].dev /\ k.via = job[s].via
  BY <1>1, Renamed DEF Ops
<1>3. \/ Becomes(s, k) /\ UNCHANGED mishaps
      \/ Becomes(s, Idle) /\ mishaps' = mishaps \cup {"discover"}
  BY DEF Discovered
<1> HIDE DEF k
<1>4. CASE Becomes(s, k) /\ UNCHANGED mishaps
  BY <1>1, <1>2, <1>4, Moves DEF Discovered
<1>5. CASE Becomes(s, Idle) /\ mishaps' = mishaps \cup {"discover"}
  BY <1>1, <1>5, Moves DEF Discovered
<1> QED
  BY <1>3, <1>4, <1>5

\* A call to disconnect that the loop awaited.
LEMMA DisconnectedFacts ==
    ASSUME TypeOK, NEW s \in Sessions, Disconnected(s), NEW d, d = job[s].dev
    PROVE  /\ d \in Devices /\ job[s].op = "disconnect" /\ job'[s] = Idle
           /\ \A t \in Sessions : t # s => job'[t] = job[t]
           /\ UNCHANGED <<bookVars, watch, relay>>
           /\ \E ok \in BOOLEAN :
                 /\ CallDisconnect(d, ok)
                 /\ IF ok THEN told' = [told EXCEPT ![s][d] = "closed"] ELSE told' = told
<1>1. d \in Devices /\ job[s].op = "disconnect"
  BY JobFields DEF Disconnected, TypeOK, Ops
<1> QED
  BY <1>1, Moves DEF Disconnected

\* What a call to disconnect does to the links and to the record of mishaps.
LEMMA CallFacts ==
    ASSUME TypeOK, NEW d \in Devices, NEW ok \in BOOLEAN, CallDisconnect(d, ok)
    PROVE  /\ mishaps \subseteq mishaps' /\ (~ok => "disconnect" \in mishaps')
           /\ (ok => link'[d] = 0)
           /\ \A e \in Devices : e # d => link'[e] = link[e]
           /\ link'[d] \in {0, link[d]}
<1>1. CASE LinkDown(d) /\ mishaps' = mishaps \cup Missed(d) \cup (IF ok THEN {} ELSE {"disconnect"})
  BY <1>1 DEF LinkDown, TypeOK
<1>2. CASE /\ UNCHANGED <<linkVars, heard>> /\ (ok => link[d] = 0)
           /\ mishaps' = mishaps \cup (IF ok THEN {} ELSE {"disconnect"})
  BY <1>2 DEF linkVars
<1> QED
  BY <1>1, <1>2 DEF CallDisconnect

LEMMA BeliefsKept == TypeOK /\ ViaIsLink /\ Beliefs /\ [Next]_vars => Beliefs'
<1> SUFFICES ASSUME TypeOK, ViaIsLink, Beliefs, [Next]_vars, "disconnect" \notin mishaps',
                    NEW t \in Sessions, NEW e \in Devices, ~Leaving(t)'
             PROVE  Belief(t, e)'
  BY DEF Beliefs
<1> USE JobsMade
<1>q. "disconnect" \notin mishaps => Leaving(t) \/ Belief(t, e)
  BY DEF Beliefs
<1>1. ASSUME UNCHANGED <<held, told>>, mishaps \subseteq mishaps',
             job'[t] = job[t] \/ (job[t].op # "disconnect" /\ job'[t].op # "disconnect"),
             ~Leaving(t)
      PROVE  Belief(t, e)'
  BY <1>1, <1>q DEF Belief
<1>2. ASSUME NEW s \in Sessions, NEW d \in Devices, HandleConnect(s, d) \/ Use(s, d)
      PROVE  Belief(t, e)'
  BY <1>1, <1>2, Moves DEF HandleConnect, Use, Starts, Ops, bookVars, Leaving
<1>3. ASSUME NEW s \in Sessions, NEW d \in Devices, HandleDisconnect(s, d)
      PROVE  Belief(t, e)'
  <2>1. mishaps' = mishaps /\ job[s] = Idle /\ held'[s][d] = 0
        /\ \A u \in Sessions, g \in Devices : u # s \/ g # d => held'[u][g] = held[u][g]
    BY <1>3, ForgetFacts DEF HandleDisconnect, Starts
  <2>2. CASE held[s][d] = 0
    <3>1. UNCHANGED job /\ told'[s][d] = "closed"
          /\ \A u \in Sessions, g \in Devices : u # s \/ g # d => told'[u][g] = told[u][g]
      BY <1>3, <2>2, ToldFacts DEF HandleDisconnect
    <3> QED
      BY <1>q, <2>1, <3>1 DEF Belief, Leaving
  <2>3. CASE held[s][d] # 0
    <3>1. told' = told /\ job'[s] = Job("disconnect", d)
          /\ \A u \in Sessions : u # s => job'[u] = job[u]
      BY <1>3, <2>3, Moves DEF HandleDisconnect, Starts
    <3>2. job'[s].op = "disconnect" /\ job'[s].dev = d
      BY <3>1 DEF Ops
    <3> QED
      BY <1>q, <2>1, <3>1, <3>2 DEF Belief, Leaving
  <2> QED
    BY <2>2, <2>3
<1>4. ASSUME NEW s \in Sessions, Connected(s) PROVE Belief(t, e)'
  <2>1. /\ job[s].op = "connect" /\ job'[s].op \in {"none", "discover"}
        /\ UNCHANGED <<held, told, mishaps>>
        /\ \A u \in Sessions : u # s => job'[u] = job[u]
    BY <1>4, ConnectedFacts DEF bookVars
  <2> QED
    BY <1>1, <2>1 DEF Leaving
<1>5. ASSUME NEW s \in Sessions, Discovered(s) PROVE Belief(t, e)'
  <2>1. /\ job[s].op = "discover" /\ job'[s].op \in {"none", "notifications"}
        /\ UNCHANGED <<held, told>> /\ mishaps \subseteq mishaps'
        /\ \A u \in Sessions : u # s => job'[u] = job[u]
    BY <1>5, DiscoveredFacts DEF bookVars
  <2> QED
    BY <1>1, <2>1 DEF Leaving
<1>6. ASSUME NEW s \in Sessions, Subscribed(s) PROVE Belief(t, e)'
  <2>1. /\ job[s].op = "notifications" /\ job'[s].op \in {"none", "entering"}
        /\ UNCHANGED <<held, told>> /\ mishaps \subseteq mishaps'
        /\ \A u \in Sessions : u # s => job'[u] = job[u]
    BY <1>6, SubscribedFacts
  <2> QED
    BY <1>1, <2>1 DEF Leaving
<1>16. ASSUME NEW s \in Sessions, Entered(s) PROVE Belief(t, e)'
  <2> DEFINE d == job[s].dev
  <2>1. /\ job[s].op = "entering" /\ job'[s] = Idle /\ mishaps' = mishaps
        /\ \A u \in Sessions : u # s => job'[u] = job[u]
        /\ d \in Devices /\ job[s].via # 0 /\ InBooks(s, d)
    BY <1>16, EnteredFacts, Moves DEF ViaIsLink
  <2>2. CASE t = s /\ e = d
    <3>1. held'[t][e] # 0 /\ told'[t][e] = "connected"
      BY <2>1, <2>2, ZenonT(30) DEF InBooks
    <3> QED
      BY <2>1, <2>2, <3>1 DEF Belief
  <2>3. CASE ~(t = s /\ e = d)
    <3>1. held'[t][e] = held[t][e] /\ told'[t][e] = told[t][e]
      BY <2>1, <2>3 DEF InBooks
    <3> QED
      BY <1>q, <2>1, <3>1 DEF Belief, Leaving
  <2> QED
    BY <2>2, <2>3
<1>7. ASSUME NEW s \in Sessions, Used(s) PROVE Belief(t, e)'
  <2>1. job[s].op = "use" /\ job'[s] = Idle /\ \A u \in Sessions : u # s => job'[u] = job[u]
    BY <1>7, Moves DEF Used
  <2> QED
    BY <1>1, <1>7, <2>1 DEF Used, bookVars, Leaving
<1>8. ASSUME NEW s \in Sessions, Disconnected(s) PROVE Belief(t, e)'
  <2> DEFINE d == job[s].dev
  <2>1. /\ d \in Devices /\ job[s].op = "disconnect" /\ job'[s] = Idle /\ held' = held
        /\ \A u \in Sessions : u # s => job'[u] = job[u]
    BY <1>8, DisconnectedFacts DEF bookVars
  <2>2. PICK ok \in BOOLEAN :
          /\ CallDisconnect(d, ok)
          /\ IF ok THEN told' = [told EXCEPT ![s][d] = "closed"] ELSE told' = told
    BY <1>8, DisconnectedFacts
  <2> HIDE DEF d
  <2>3. ok /\ "disconnect" \notin mishaps
    BY <2>1, <2>2, CallFacts
  <2>4. /\ told'[s][d] = "closed"
        /\ \A u \in Sessions, g \in Devices : u # s \/ g # d => told'[u][g] = told[u][g]
    BY <2>1, <2>2, <2>3, ToldFacts
  <2>5. t = s /\ e = d => held[t][e] = 0
    BY <1>q, <2>1, <2>3 DEF Belief, Leaving, d
  <2>6. t = s /\ e # d => (told[t][e] = "connected" <=> held[t][e] # 0)
    BY <1>q, <2>1, <2>3 DEF Belief, Leaving, d
  <2> QED
    BY <1>q, <2>1, <2>3, <2>4, <2>5, <2>6 DEF Belief, Leaving
<1>9. ASSUME NEW s \in Sessions, WatchStarts(s) \/ Relay(s) PROVE Belief(t, e)'
  BY <1>1, <1>9 DEF WatchStarts, Relay, RelayFrame, bookVars, Leaving
<1>10. ASSUME NEW s \in Sessions, Notice(s) PROVE Belief(t, e)'
  <2> DEFINE d == Head(relay[s]).dev
  <2>1. /\ d \in Devices /\ job[s] = Idle /\ UNCHANGED job /\ mishaps \subseteq mishaps'
        /\ \/ UNCHANGED <<held, told>>
           \/ Forget(s, d) /\ told' = [told EXCEPT ![s][d] = "dropped"]
    BY <1>10, NoticeFacts DEF bookVars
  <2> HIDE DEF d
  <2>2. CASE UNCHANGED <<held, told>>
    BY <1>1, <2>1, <2>2 DEF Leaving
  <2>3. CASE Forget(s, d) /\ told' = [told EXCEPT ![s][d] = "dropped"]
    <3>1. /\ held'[s][d] = 0 /\ told'[s][d] = "dropped"
          /\ \A u \in Sessions, g \in Devices :
                u # s \/ g # d => held'[u][g] = held[u][g] /\ told'[u][g] = told[u][g]
      <4>1. /\ held'[s][d] = 0
            /\ \A u \in Sessions, g \in Devices : u # s \/ g # d => held'[u][g] = held[u][g]
        BY <2>1, <2>3, ForgetFacts
      <4>2. /\ told'[s][d] = "dropped"
            /\ \A u \in Sessions, g \in Devices : u # s \/ g # d => told'[u][g] = told[u][g]
        <5>1. told' = [told EXCEPT ![s][d] = "dropped"] /\ d \in Devices
          BY <2>1, <2>3
        <5>2. told \in [Sessions -> [Devices -> {"nothing", "connected", "dropped", "closed"}]]
          BY DEF TypeOK
        <5> QED
          BY <5>1, <5>2
      <4> QED
        BY <4>1, <4>2
    <3> QED
      BY <1>q, <2>1, <3>1 DEF Belief, Leaving
  <2> QED
    BY <2>1, <2>2, <2>3
<1>11. ASSUME NEW s \in Sessions, Teardown(s) \/ Closes(s) PROVE Belief(t, e)'
  <2>1. job'[s].op \in {"teardown", "closed"} /\ \A u \in Sessions : u # s => job'[u] = job[u]
    BY <1>11, Moves DEF Teardown, Closes
  <2> QED
    BY <1>1, <1>11, <2>1 DEF Teardown, Closes, bookVars, Leaving
<1>12. ASSUME NEW s \in Sessions, CloseConnection(s) PROVE Belief(t, e)'
  <2>1. /\ UNCHANGED <<job, told>> /\ Leaving(s) /\ mishaps \subseteq mishaps'
        /\ \A u \in Sessions : u # s => held'[u] = held[u]
    BY <1>12, CallFacts DEF CloseConnection, Leaving, TypeOK
  <2> QED
    BY <1>q, <2>1 DEF Belief, Leaving
<1>13. ASSUME NEW d \in Devices, Drop(d) PROVE Belief(t, e)'
  BY <1>1, <1>13 DEF Drop, bookVars, Leaving
<1>14. ASSUME NEW s \in Sessions, NEW d \in Devices, PumpEnds(s, d) \/ PumpStops(s, d)
       PROVE  Belief(t, e)'
  BY <1>1, <1>14, PumpOverFacts DEF Leaving
<1>15. CASE UNCHANGED vars
  BY <1>1, <1>15 DEF vars, bookVars, Leaving
<1> QED
  BY <1>2, <1>3, <1>4, <1>5, <1>6, <1>7, <1>8, <1>9, <1>10, <1>11, <1>12, <1>13, <1>14, <1>15,
     <1>16 DEF Next, Handles, Ends, SessionEnds, SendFails, Terminated

LEMMA LinksStayKept == TypeOK /\ ViaIsLink /\ LinksKept /\ [Next]_vars => LinksKept'
<1> SUFFICES ASSUME TypeOK, ViaIsLink, LinksKept, [Next]_vars, mishaps' \subseteq {"missed"},
                    NEW e \in Devices, link'[e] # 0
             PROVE  \E t \in Sessions : Keeper(t, e)'
  BY DEF LinksKept
<1> USE JobsMade
<1> DEFINE Goal == \E t \in Sessions : Keeper(t, e)'
<1>q. mishaps \subseteq {"missed"} /\ link[e] # 0 => \E t \in Sessions : Keeper(t, e)
  BY DEF LinksKept
<1>1. ASSUME mishaps \subseteq mishaps', link'[e] = link[e],
             \A t \in Sessions : Keeper(t, e) => Keeper(t, e)'
      PROVE  Goal
  BY <1>1, <1>q
<1>2. ASSUME NEW s \in Sessions, NEW d \in Devices, HandleConnect(s, d) \/ Use(s, d) PROVE Goal
  <2>1. /\ job[s] = Idle /\ \A u \in Sessions : u # s => job'[u] = job[u]
        /\ UNCHANGED <<held, link, mishaps>>
    BY <1>2, Moves DEF HandleConnect, Use, Starts, linkVars, bookVars
  <2> QED
    BY <1>1, <2>1 DEF Keeper, Opening
<1>3. ASSUME NEW s \in Sessions, NEW d \in Devices, HandleDisconnect(s, d) PROVE Goal
  <2>1. mishaps' = mishaps /\ link' = link /\ job[s] = Idle
        /\ \A u \in Sessions, g \in Devices : u # s \/ g # d => held'[u][g] = held[u][g]
    BY <1>3, ForgetFacts DEF HandleDisconnect, Starts, linkVars
  <2>2. CASE held[s][d] = 0
    <3>1. UNCHANGED job /\ held'[s][d] = 0
      BY <1>3, <2>2, ForgetFacts DEF HandleDisconnect
    <3> QED
      BY <1>1, <2>1, <2>2, <3>1 DEF Keeper, Opening
  <2>3. CASE held[s][d] # 0
    <3>1. job'[s] = Job("disconnect", d) /\ \A u \in Sessions : u # s => job'[u] = job[u]
      BY <1>3, <2>3, Moves DEF HandleDisconnect, Starts
    <3>2. job'[s].op = "disconnect" /\ job'[s].dev = d
      BY <3>1 DEF Ops
    <3> QED
      BY <1>1, <2>1, <3>1, <3>2 DEF Keeper, Opening
  <2> QED
    BY <2>2, <2>3
<1>4. ASSUME NEW s \in Sessions, Connected(s) PROVE Goal
  <2> DEFINE d == job[s].dev
  <2>1. /\ d \in Devices /\ job[s].op = "connect" /\ UNCHANGED <<held, mishaps>>
        /\ \A t \in Sessions : t # s => job'[t] = job[t]
    BY <1>4, ConnectedFacts DEF bookVars
  <2>2. CASE job'[s] = Idle /\ UNCHANGED linkVars
    BY <1>1, <2>1, <2>2 DEF Keeper, Opening, linkVars
  <2>3. CASE /\ job'[s].op = "discover" /\ job'[s].dev = d
             /\ link[d] # 0 => link'[d] = link[d]
             /\ \A g \in Devices : g # d => link'[g] = link[g]
    <3>1. CASE e = d
      BY <2>3, <3>1 DEF Keeper, Opening
    <3>2. CASE e # d
      BY <1>1, <2>1, <2>3, <3>2 DEF Keeper, Opening
    <3> QED
      BY <3>1, <3>2
  <2> QED
    BY <1>4, <2>2, <2>3, ConnectedFacts
<1>5. ASSUME NEW s \in Sessions, Discovered(s) PROVE Goal
  <2>1. /\ job[s].op = "discover" /\ UNCHANGED <<held, link>>
        /\ \A t \in Sessions : t # s => job'[t] = job[t]
        /\ job'[s].op = "notifications" /\ job'[s].dev = job[s].dev /\ UNCHANGED mishaps
    BY <1>5, DiscoveredFacts DEF bookVars, linkVars
  <2> QED
    BY <1>1, <2>1 DEF Keeper, Opening
<1>6. ASSUME NEW s \in Sessions, Subscribed(s) PROVE Goal
  <2>1. /\ job[s].op = "notifications" /\ UNCHANGED <<held, link>>
        /\ \A t \in Sessions : t # s => job'[t] = job[t]
        /\ job'[s].op = "entering" /\ job'[s].dev = job[s].dev /\ UNCHANGED mishaps
    BY <1>6, SubscribedFacts DEF linkVars
  <2> QED
    BY <1>1, <2>1 DEF Keeper, Opening
<1>17. ASSUME NEW s \in Sessions, Entered(s) PROVE Goal
  <2> DEFINE d == job[s].dev
  <2>1. /\ job[s].op = "entering" /\ d \in Devices /\ InBooks(s, d)
        /\ UNCHANGED <<link, mishaps>>
        /\ \A u \in Sessions : u # s => job'[u] = job[u]
    BY <1>17, EnteredFacts, Moves DEF linkVars
  <2>2. /\ link[d] # 0 => held'[s][d] = link[d]
        /\ \A u \in Sessions, g \in Devices : u # s \/ g # d => held'[u][g] = held[u][g]
    BY <2>1 DEF InBooks
  <2>3. CASE e = d
    BY <2>1, <2>2, <2>3 DEF Keeper
  <2>4. CASE e # d
    BY <1>1, <2>1, <2>2, <2>4 DEF Keeper, Opening
  <2> QED
    BY <2>3, <2>4
<1>7. ASSUME NEW s \in Sessions, Used(s) PROVE Goal
  <2>1. /\ job[s].op = "use" /\ \A u \in Sessions : u # s => job'[u] = job[u]
        /\ UNCHANGED <<held, link, mishaps>>
    BY <1>7, Moves DEF Used, bookVars, linkVars
  <2> QED
    BY <1>1, <2>1 DEF Keeper, Opening
<1>8. ASSUME NEW s \in Sessions, Disconnected(s) PROVE Goal
  <2> DEFINE d == job[s].dev
  <2>1. /\ d \in Devices /\ job[s].op = "disconnect" /\ held' = held
        /\ \A u \in Sessions : u # s => job'[u] = job[u]
    BY <1>8, DisconnectedFacts DEF bookVars
  <2>2. PICK ok \in BOOLEAN : CallDisconnect(d, ok)
    BY <1>8, DisconnectedFacts
  <2>3. /\ mishaps \subseteq mishaps' /\ link'[d] = 0
        /\ \A g \in Devices : g # d => link'[g] = link[g]
    BY <2>1, <2>2, CallFacts
  <2> QED
    BY <1>1, <2>1, <2>3 DEF Keeper, Opening
<1>9. ASSUME NEW s \in Sessions, WatchStarts(s) \/ Relay(s) PROVE Goal
  BY <1>1, <1>9 DEF WatchStarts, Relay, RelayFrame, bookVars, linkVars, Keeper, Opening
<1>10. ASSUME NEW s \in Sessions, Notice(s) PROVE Goal
  <2> DEFINE d == Head(relay[s]).dev
  <2>1. /\ d \in Devices /\ job[s] = Idle /\ UNCHANGED <<job, link>>
        /\ mishaps \subseteq mishaps'
        /\ \/ held' = held
           \/ Forget(s, d) /\ (held[s][d] = link[d] => "stale" \in mishaps')
    BY <1>10, NoticeFacts DEF bookVars, linkVars
  <2> HIDE DEF d
  <2>2. CASE held' = held
    BY <1>1, <2>1, <2>2 DEF Keeper, Opening
  <2>3. CASE Forget(s, d) /\ (held[s][d] = link[d] => "stale" \in mishaps')
    <3>1. held[s][d] # link[d]
      BY <2>3
    <3>2. \A u \in Sessions, g \in Devices : u # s \/ g # d => held'[u][g] = held[u][g]
      BY <2>1, <2>3, ForgetFacts
    <3> QED
      BY <1>1, <2>1, <3>1, <3>2 DEF Keeper, Opening
  <2> QED
    BY <2>1, <2>2, <2>3
<1>11. ASSUME NEW s \in Sessions, Teardown(s) PROVE Goal
  <2>1. /\ job[s] = Idle /\ \A u \in Sessions : u # s => job'[u] = job[u]
        /\ UNCHANGED <<held, link, mishaps>>
    BY <1>11, Moves DEF Teardown, linkVars
  <2> QED
    BY <1>1, <2>1 DEF Keeper, Opening
<1>12. ASSUME NEW s \in Sessions, Closes(s) PROVE Goal
  <2>1. /\ job[s].op = "teardown" /\ held[s][e] = 0
        /\ \A u \in Sessions : u # s => job'[u] = job[u]
        /\ UNCHANGED <<held, link, mishaps>>
    BY <1>12, Moves DEF Closes, linkVars, bookVars
  <2> QED
    BY <1>1, <2>1 DEF Keeper, Opening
<1>13. ASSUME NEW s \in Sessions, CloseConnection(s) PROVE Goal
  <2>0. PICK d \in Devices : /\ held' = [held EXCEPT ![s][d] = 0]
                            /\ \E ok \in BOOLEAN : CallDisconnect(d, ok)
    BY <1>13 DEF CloseConnection
  <2>1. PICK ok \in BOOLEAN : CallDisconnect(d, ok) /\ held' = [held EXCEPT ![s][d] = 0]
    BY <2>0
  <2>2. /\ mishaps \subseteq mishaps' /\ link'[d] = 0
        /\ \A g \in Devices : g # d => link'[g] = link[g]
    BY <2>1, CallFacts
  <2>3. e # d /\ job' = job /\ \A u \in Sessions : held'[u][e] = held[u][e]
    BY <1>13, <2>1, <2>2 DEF CloseConnection, TypeOK
  <2> QED
    BY <1>1, <2>2, <2>3 DEF Keeper, Opening
<1>14. ASSUME NEW d \in Devices, Drop(d) PROVE Goal
  <2>1. /\ UNCHANGED <<job, held>> /\ mishaps \subseteq mishaps' /\ e # d
        /\ link'[e] = link[e]
    BY <1>14 DEF Drop, LinkDown, bookVars, TypeOK
  <2> QED
    BY <1>1, <2>1 DEF Keeper, Opening
<1>15. ASSUME NEW s \in Sessions, NEW d \in Devices, PumpEnds(s, d) \/ PumpStops(s, d)
       PROVE  Goal
  BY <1>1, <1>15, PumpOverFacts DEF linkVars, Keeper, Opening
<1>16. CASE UNCHANGED vars
  BY <1>1, <1>16 DEF vars, linkVars, bookVars, Keeper, Opening
<1> QED
  BY <1>2, <1>3, <1>4, <1>5, <1>6, <1>7, <1>8, <1>9, <1>10, <1>11, <1>12, <1>13, <1>14, <1>15,
     <1>16, <1>17 DEF Next, Handles, Ends, SessionEnds, SendFails, Terminated

-----------------------------------------------------------------------------
(* The losses *)

\* Queues keep what they carry until it is taken.
LEMMA CarryAppend ==
    ASSUME NEW T, NEW q \in Seq(T), NEW v
    PROVE  /\ Carries(Append(q, v), v)
           /\ \A x : Carries(q, x) => Carries(Append(q, v), x)
<1>1. /\ Len(q) + 1 \in DOMAIN Append(q, v) /\ Append(q, v)[Len(q) + 1] = v
      /\ \A i \in DOMAIN q : i \in DOMAIN Append(q, v) /\ Append(q, v)[i] = q[i]
  OBVIOUS
<1> QED
  BY <1>1 DEF Carries

LEMMA CarryTail ==
    ASSUME NEW T, NEW q \in Seq(T), q # <<>>, NEW x, Carries(q, x), x # Head(q)
    PROVE  Carries(Tail(q), x)
<1>1. PICK i \in DOMAIN q : q[i] = x
  BY DEF Carries
<1>2. i \in 1..Len(q) /\ i # 1 /\ Head(q) = q[1]
  BY <1>1
<1>3. i - 1 \in DOMAIN Tail(q) /\ Tail(q)[i - 1] = x
  BY <1>1, <1>2
<1> QED
  BY <1>3 DEF Carries

\* A link that goes down while nobody misses it: who uses it, or is about to, has
\* the loss in its queue.
LEMMA DownInforms ==
    ASSUME TypeOK, NEW d \in Devices, LinkDown(d), Missed(d) = {}, NEW t \in Sessions
    PROVE  /\ Uses(t, d) => Carries(heard'[t], [dev |-> d, link |-> link[d]])
           /\ \A x : Carries(heard[t], x) => Carries(heard'[t], x)
<1> DEFINE loss == [dev |-> d, link |-> link[d]]
<1>1. heard[t] \in Seq(Losses) /\ Len(heard[t]) <= Backlog /\ Backlog \in Nat
  BY BoundsAssumption DEF TypeOK
<1>2. IF watch[t] = "listening" THEN Len(heard[t]) # Backlog ELSE ~Uses(t, d)
  BY DEF Missed
<1>3. heard'[t] = LET all == Append(heard[t], loss)
                  IN IF watch[t] # "listening"   THEN heard[t]
                     ELSE IF Len(all) <= Backlog THEN all
                                                 ELSE Tail(all)
  BY DEF LinkDown
<1> HIDE DEF loss
<1>4. CASE watch[t] = "listening"
  <2>1. Len(Append(heard[t], loss)) = Len(heard[t]) + 1
    BY <1>1
  <2>2. heard'[t] = Append(heard[t], loss)
    BY <1>1, <1>2, <1>3, <1>4, <2>1
  <2> QED
    BY <1>1, <2>2, CarryAppend DEF loss
<1>5. CASE watch[t] # "listening"
  <2>1. ~Uses(t, d) /\ heard'[t] = heard[t]
    BY <1>2, <1>3, <1>5
  <2> QED
    BY <2>1
<1> QED
  BY <1>4, <1>5

\* So a session stays informed, as long as its books and its job do not change.
LEMMA DownKeeps ==
    ASSUME TypeOK, NEW d \in Devices, LinkDown(d), Missed(d) = {},
           NEW t \in Sessions, NEW e \in Devices, Informed(t, e),
           held'[t][e] = held[t][e], relay'[t] = relay[t],
           Opening(t, e)' => Opening(t, e) /\ job'[t].via = job[t].via
    PROVE  Informed(t, e)'
<1>1. \A g \in Devices : link'[g] = IF g = d THEN 0 ELSE link[g]
  BY DEF LinkDown, TypeOK
<1>2. \A x : Either(heard[t], relay[t], x) => Either(heard'[t], relay'[t], x)
  BY DownInforms DEF Either
<1>3. e = d /\ Uses(t, d) => Either(heard'[t], relay'[t], [dev |-> e, link |-> link[e]])
  BY DownInforms DEF Either
<1>4. held'[t][e] \notin {0, link'[e]}
         => Either(heard'[t], relay'[t], [dev |-> e, link |-> held'[t][e]])
  <2> HAVE held'[t][e] \notin {0, link'[e]}
  <2>1. CASE held[t][e] = link[e]
    <3>1. e = d /\ Uses(t, d)
      BY <1>1, <2>1 DEF Uses
    <3> QED
      BY <1>3, <2>1, <3>1
  <2>2. CASE held[t][e] # link[e]
    BY <1>2, <2>2 DEF Informed, OnTheWay
  <2> QED
    BY <2>1, <2>2
<1>5. Opening(t, e)' /\ job'[t].via # link'[e]
         => Either(heard'[t], relay'[t], [dev |-> e, link |-> job'[t].via])
  <2> HAVE Opening(t, e)' /\ job'[t].via # link'[e]
  <2>1. Opening(t, e) /\ job'[t].via = job[t].via
    OBVIOUS
  <2>2. CASE job[t].via = link[e]
    <3>1. e = d /\ Uses(t, d)
      BY <1>1, <2>1, <2>2 DEF Uses, Opening
    <3> QED
      BY <1>3, <2>1, <2>2, <3>1
  <2>3. CASE job[t].via # link[e]
    BY <1>2, <2>1, <2>3 DEF Informed, OnTheWay
  <2> QED
    BY <2>2, <2>3
<1> QED
  BY <1>4, <1>5 DEF Informed, OnTheWay

LEMMA LossesKnownKept ==
    TypeOK /\ ViaIsLink /\ LossesKnown /\ [Next]_vars => LossesKnown'
<1> SUFFICES ASSUME TypeOK, ViaIsLink, LossesKnown, [Next]_vars, "missed" \notin mishaps',
                    NEW t \in Sessions, NEW e \in Devices, ~Leaving(t)'
             PROVE  Informed(t, e)'
  BY DEF LossesKnown
<1> USE JobsMade
<1>q. "missed" \notin mishaps => Leaving(t) \/ Informed(t, e)
  BY DEF LossesKnown
<1>1. ASSUME mishaps \subseteq mishaps', link'[e] = link[e], ~Leaving(t),
             held'[t][e] \in {0, held[t][e]}, heard'[t] = heard[t], relay'[t] = relay[t],
             Opening(t, e)' => Opening(t, e) /\ job'[t].via = job[t].via
      PROVE  Informed(t, e)'
  <2>1. Informed(t, e)
    BY <1>1, <1>q
  <2> QED
    BY <1>1, <2>1 DEF Informed, OnTheWay
<1>2. ASSUME NEW d \in Devices, NEW ok \in BOOLEAN, CallDisconnect(d, ok), ~Leaving(t),
             held'[t][e] = held[t][e], relay'[t] = relay[t],
             Opening(t, e)' => Opening(t, e) /\ job'[t].via = job[t].via
      PROVE  Informed(t, e)'
  <2>1. mishaps \subseteq mishaps'
    BY <1>2, CallFacts
  <2>2. Informed(t, e)
    BY <1>q, <1>2, <2>1
  <2>3. CASE LinkDown(d) /\ Missed(d) \subseteq mishaps'
    BY <1>2, <2>2, <2>3, DownKeeps DEF Missed
  <2>4. CASE UNCHANGED <<linkVars, heard>>
    BY <1>1, <1>2, <2>1, <2>4 DEF linkVars
  <2> QED
    BY <1>2, <2>3, <2>4 DEF CallDisconnect
<1>3. ASSUME NEW s \in Sessions, NEW d \in Devices, HandleConnect(s, d) \/ Use(s, d)
      PROVE  Informed(t, e)'
  <2>1. /\ job[s] = Idle /\ job'[s].op \in {"connect", "use"}
        /\ \A u \in Sessions : u # s => job'[u] = job[u]
        /\ UNCHANGED <<held, link, mishaps, heard, relay>>
    BY <1>3, Moves DEF HandleConnect, Use, Starts, Ops, linkVars, bookVars, watchVars
  <2> QED
    BY <1>1, <2>1 DEF Opening, Leaving
<1>4. ASSUME NEW s \in Sessions, NEW d \in Devices, HandleDisconnect(s, d)
      PROVE  Informed(t, e)'
  <2>1. /\ job[s] = Idle /\ job'[s].op \in {"none", "disconnect"}
        /\ \A u \in Sessions : u # s => job'[u] = job[u]
        /\ UNCHANGED <<link, mishaps, heard, relay>>
    BY <1>4, Moves DEF HandleDisconnect, Starts, Ops, linkVars, watchVars
  <2>2. held'[t][e] \in {0, held[t][e]}
    BY <1>4, ForgetFacts, SMTT(30) DEF HandleDisconnect
  <2> QED
    BY <1>1, <2>1, <2>2 DEF Opening, Leaving
<1>5. ASSUME NEW s \in Sessions, Connected(s) PROVE Informed(t, e)'
  <2> DEFINE d == job[s].dev
  <2>1. /\ d \in Devices /\ job[s].op = "connect"
        /\ UNCHANGED <<held, mishaps, heard, relay>>
        /\ \A u \in Sessions : u # s => job'[u] = job[u]
    BY <1>5, ConnectedFacts DEF bookVars, watchVars
  <2>2. CASE job'[s] = Idle /\ UNCHANGED linkVars
    BY <1>1, <2>1, <2>2 DEF Opening, Leaving, linkVars
  <2>3. CASE /\ job'[s].op = "discover" /\ job'[s].dev = d /\ job'[s].via = link'[d]
             /\ link[d] # 0 => link'[d] = link[d]
             /\ \A g \in Devices : g # d => link'[g] = link[g]
    <3>1. link'[e] = link[e] \/ link[e] = 0
      BY <2>3
    <3>2. Informed(t, e)
      BY <1>q, <2>1 DEF Leaving
    <3>3. held'[t][e] \notin {0, link'[e]}
             => Either(heard'[t], relay'[t], [dev |-> e, link |-> held'[t][e]])
      BY <2>1, <3>1, <3>2 DEF Informed, OnTheWay
    <3>4. Opening(t, e)' /\ job'[t].via # link'[e]
             => Either(heard'[t], relay'[t], [dev |-> e, link |-> job'[t].via])
      <4> HAVE Opening(t, e)' /\ job'[t].via # link'[e]
      <4>1. t # s
        BY <2>3 DEF Opening
      <4>2. Opening(t, e) /\ job'[t].via = job[t].via /\ job[t].via # 0
        BY <2>1, <4>1 DEF Opening, ViaIsLink
      <4> QED
        BY <2>1, <3>1, <3>2, <4>2 DEF Informed, OnTheWay
    <3> QED
      BY <3>3, <3>4 DEF Informed, OnTheWay
  <2> QED
    BY <1>5, <2>2, <2>3, ConnectedFacts
<1>6. ASSUME NEW s \in Sessions, Discovered(s) PROVE Informed(t, e)'
  <2>1. /\ job[s].op = "discover" /\ UNCHANGED <<held, link, heard, relay>>
        /\ mishaps \subseteq mishaps'
        /\ \A u \in Sessions : u # s => job'[u] = job[u]
        /\ \/ job'[s].dev = job[s].dev /\ job'[s].via = job[s].via
           \/ job'[s] = Idle
    BY <1>6, DiscoveredFacts DEF bookVars, linkVars, watchVars
  <2> QED
    BY <1>1, <2>1 DEF Opening, Leaving
<1>7. ASSUME NEW s \in Sessions, Subscribed(s) PROVE Informed(t, e)'
  <2>1. /\ job[s].op = "notifications" /\ UNCHANGED <<held, link, heard, relay>>
        /\ mishaps \subseteq mishaps'
        /\ \A u \in Sessions : u # s => job'[u] = job[u]
        /\ \/ job'[s].op = "entering" /\ job'[s].dev = job[s].dev /\ job'[s].via = job[s].via
           \/ job'[s] = Idle
    BY <1>7, SubscribedFacts DEF linkVars, watchVars
  <2> QED
    BY <1>1, <2>1 DEF Opening, Leaving
<1>19. ASSUME NEW s \in Sessions, Entered(s) PROVE Informed(t, e)'
  <2> DEFINE d == job[s].dev
  <2>1. /\ job[s].op = "entering" /\ d \in Devices /\ job[s].via # 0
        /\ mishaps' = mishaps /\ job'[s] = Idle /\ InBooks(s, d)
        /\ \A u \in Sessions : u # s => job'[u] = job[u]
        /\ UNCHANGED <<link, heard, relay>>
    BY <1>19, EnteredFacts, Moves DEF linkVars, ViaIsLink
  <2>2. CASE t = s /\ e = d
    <3>1. held'[t][e] = IF link[d] # 0 THEN link[d] ELSE job[s].via
      BY <2>1, <2>2 DEF InBooks
    <3>2. Informed(t, e) /\ Opening(t, e) /\ ~Opening(t, e)'
      BY <1>q, <2>1, <2>2 DEF Opening, Leaving
    <3>3. CASE link[e] # 0
      BY <2>1, <2>2, <3>1, <3>2, <3>3 DEF Informed
    <3>4. CASE link[e] = 0
      BY <2>1, <2>2, <3>1, <3>2, <3>4 DEF Informed, OnTheWay
    <3> QED
      BY <3>3, <3>4
  <2>3. CASE ~(t = s /\ e = d)
    <3>1. held'[t][e] = held[t][e]
      BY <2>1, <2>3 DEF InBooks
    <3> QED
      BY <1>1, <2>1, <3>1 DEF Opening, Leaving
  <2> QED
    BY <2>2, <2>3
<1>8. ASSUME NEW s \in Sessions, Used(s) PROVE Informed(t, e)'
  <2>1. /\ job[s].op = "use" /\ job'[s] = Idle
        /\ \A u \in Sessions : u # s => job'[u] = job[u]
        /\ UNCHANGED <<held, link, mishaps, heard, relay>>
    BY <1>8, Moves DEF Used, bookVars, linkVars, watchVars
  <2> QED
    BY <1>1, <2>1 DEF Opening, Leaving
<1>9. ASSUME NEW s \in Sessions, Disconnected(s) PROVE Informed(t, e)'
  <2>1. PICK ok \in BOOLEAN : CallDisconnect(job[s].dev, ok)
    BY <1>9, DisconnectedFacts
  <2>2. /\ job[s].dev \in Devices /\ job[s].op = "disconnect" /\ job'[s] = Idle
        /\ UNCHANGED <<held, relay>>
        /\ \A u \in Sessions : u # s => job'[u] = job[u]
    BY <1>9, DisconnectedFacts DEF bookVars
  <2> QED
    BY <1>2, <2>1, <2>2 DEF Opening, Leaving
<1>10. ASSUME NEW s \in Sessions, WatchStarts(s) PROVE Informed(t, e)'
  BY <1>1, <1>10 DEF WatchStarts, bookVars, linkVars, Opening, Leaving
<1>11. ASSUME NEW s \in Sessions, Relay(s) PROVE Informed(t, e)'
  <2>1. UNCHANGED <<link, held, job, mishaps>> /\ Informed(t, e)
    BY <1>11, <1>q DEF Relay, RelayFrame, linkVars, bookVars, Leaving
  <2>2. \A x : Either(heard[t], relay[t], x) => Either(heard'[t], relay'[t], x)
    <3>1. CASE t = s
      <4>1. /\ heard[t] \in Seq(Losses) /\ relay[t] \in Seq(Losses) /\ heard[t] # <<>>
            /\ heard'[t] = Tail(heard[t]) /\ relay'[t] = Append(relay[t], Head(heard[t]))
        BY <1>11, <3>1 DEF Relay, TypeOK
      <4>2. \A x : Carries(heard[t], x) /\ x # Head(heard[t]) => Carries(heard'[t], x)
        BY <4>1, CarryTail
      <4>3. /\ Carries(relay'[t], Head(heard[t]))
            /\ \A x : Carries(relay[t], x) => Carries(relay'[t], x)
        BY <4>1, CarryAppend
      <4> QED
        BY <4>2, <4>3 DEF Either
    <3>2. CASE t # s
      <4>1. heard'[t] = heard[t] /\ relay'[t] = relay[t]
        BY <1>11, <3>2 DEF Relay, TypeOK
      <4> QED
        BY <4>1
    <3> QED
      BY <3>1, <3>2
  <2> QED
    BY <2>1, <2>2 DEF Informed, OnTheWay, Opening
<1>12. ASSUME NEW s \in Sessions, Notice(s) PROVE Informed(t, e)'
  <2> DEFINE d == Head(relay[s]).dev
  <2>1. /\ d \in Devices /\ job[s] = Idle /\ UNCHANGED <<job, link, heard>>
        /\ mishaps \subseteq mishaps'
        /\ relay[s] \in Seq(Losses) /\ relay[s] # <<>> /\ relay'[s] = Tail(relay[s])
        /\ \A u \in Sessions : u # s => relay'[u] = relay[u]
        /\ \/ held[s][d] = 0 /\ held' = held
           \/ Forget(s, d)
    BY <1>12, NoticeFacts DEF bookVars, linkVars
  <2>2. /\ held'[s][d] = 0
        /\ \A u \in Sessions, g \in Devices : u # s \/ g # d => held'[u][g] = held[u][g]
    BY <2>1, ForgetFacts
  <2>3. ~Leaving(t)
    BY <2>1 DEF Leaving
  <2>4. CASE t # s
    BY <1>1, <2>1, <2>2, <2>3, <2>4 DEF Opening
  <2>5. CASE t = s
    <3>1. ~Opening(t, e)'
      BY <2>1, <2>5 DEF Opening
    <3>2. CASE e = d
      BY <2>2, <2>5, <3>1, <3>2 DEF Informed
    <3>3. CASE e # d
      <4> DEFINE loss == [dev |-> e, link |-> held[t][e]]
      <4>1. loss # Head(relay[t]) /\ held'[t][e] = held[t][e] /\ Informed(t, e)
        BY <1>q, <2>1, <2>2, <2>3, <2>5, <3>3
      <4>2. Either(heard[t], relay[t], loss) => Either(heard'[t], relay'[t], loss)
        BY <2>1, <2>5, <4>1, CarryTail DEF Either
      <4> QED
        BY <2>1, <3>1, <4>1, <4>2 DEF Informed, OnTheWay
    <3> QED
      BY <3>2, <3>3
  <2> QED
    BY <2>4, <2>5
<1>13. ASSUME NEW s \in Sessions, Teardown(s) PROVE Informed(t, e)'
  <2>1. /\ job'[s].op = "teardown" /\ \A u \in Sessions : u # s => job'[u] = job[u]
        /\ UNCHANGED <<link, held, mishaps>>
    BY <1>13, Moves DEF Teardown, linkVars
  <2>2. t # s
    BY <2>1 DEF Leaving
  <2>3. heard'[t] = heard[t] /\ relay'[t] = relay[t]
    BY <1>13, <2>2 DEF Teardown, TypeOK
  <2> QED
    BY <1>1, <2>1, <2>2, <2>3 DEF Opening, Leaving
<1>14. ASSUME NEW s \in Sessions, Closes(s) PROVE Informed(t, e)'
  <2>1. /\ job'[s].op = "closed" /\ \A u \in Sessions : u # s => job'[u] = job[u]
        /\ UNCHANGED <<link, held, mishaps, heard, relay>>
    BY <1>14, Moves DEF Closes, linkVars, bookVars, watchVars
  <2> QED
    BY <1>1, <2>1 DEF Opening, Leaving
<1>15. ASSUME NEW s \in Sessions, CloseConnection(s) PROVE Informed(t, e)'
  <2>0. PICK d \in Devices : /\ held' = [held EXCEPT ![s][d] = 0]
                            /\ \E ok \in BOOLEAN : CallDisconnect(d, ok)
    BY <1>15 DEF CloseConnection
  <2>1. PICK ok \in BOOLEAN : CallDisconnect(d, ok) /\ held' = [held EXCEPT ![s][d] = 0]
    BY <2>0
  <2>2. t # s /\ UNCHANGED <<job, relay>> /\ held'[t] = held[t]
    BY <1>15, <2>1 DEF CloseConnection, Leaving, TypeOK
  <2> QED
    BY <1>2, <2>1, <2>2 DEF Opening, Leaving
<1>16. ASSUME NEW d \in Devices, Drop(d) PROVE Informed(t, e)'
  <2>1. /\ LinkDown(d) /\ UNCHANGED <<job, held, relay>> /\ mishaps \subseteq mishaps'
        /\ Missed(d) = {}
    BY <1>16 DEF Drop, bookVars, Missed
  <2> QED
    BY <1>q, <2>1, DownKeeps DEF Opening, Leaving
<1>17. ASSUME NEW s \in Sessions, NEW d \in Devices, PumpEnds(s, d) \/ PumpStops(s, d)
       PROVE  Informed(t, e)'
  BY <1>1, <1>17, PumpOverFacts DEF linkVars, watchVars, Opening, Leaving
<1>18. CASE UNCHANGED vars
  BY <1>1, <1>18 DEF vars, linkVars, bookVars, watchVars, Opening, Leaving
<1> QED
  BY <1>3, <1>4, <1>5, <1>6, <1>7, <1>8, <1>9, <1>10, <1>11, <1>12, <1>13, <1>14, <1>15,
     <1>16, <1>17, <1>18, <1>19 DEF Next, Handles, Ends, SessionEnds, SendFails, Terminated

-----------------------------------------------------------------------------
(* Theorems *)

LEMMA InitBooks ==
    Init => ViaIsLink /\ Quiet /\ LinksKept /\ Beliefs /\ LossesKnown
<1> SUFFICES ASSUME Init PROVE ViaIsLink /\ Quiet /\ LinksKept /\ Beliefs /\ LossesKnown
  OBVIOUS
<1>1. \A s \in Sessions : job[s].op = "none"
  BY JobsMade DEF Init
<1>2. \A s \in Sessions, d \in Devices :
          /\ held[s][d] = 0 /\ pumps[s][d] = 0 /\ pumping[s][d] = {}
          /\ told[s][d] = "nothing" /\ link[d] = 0
  BY DEF Init
<1>3. ViaIsLink
  BY <1>1 DEF ViaIsLink
<1>4. Quiet
  <2>1. \A s \in Sessions, d \in Devices : pumping[s][d] = {}
    BY <1>2
  <2> QED
    BY <2>1 DEF Quiet, Left
<1>5. LinksKept
  <2>1. \A d \in Devices : link[d] = 0
    BY DEF Init
  <2> QED
    BY <2>1 DEF LinksKept
<1>6. Beliefs
  BY <1>1, <1>2 DEF Beliefs, Belief
<1>7. LossesKnown
  <2>1. \A s \in Sessions, d \in Devices : Informed(s, d)
    BY <1>1, <1>2 DEF Informed, Opening
  <2> QED
    BY <2>1 DEF LossesKnown
<1> QED
  BY <1>3, <1>4, <1>5, <1>6, <1>7

\* Every variable stays in its range, and neither the broadcast's receivers nor
\* the channel to the loop outgrow their capacity.
THEOREM ConnectionTypes == Spec => []TypeOK
BY TypesInvariant

LEMMA Invariants == Spec => [](TypeOK /\ ViaIsLink /\ Quiet /\ LinksKept /\ Beliefs /\ LossesKnown)
<1> DEFINE Inv == TypeOK /\ ViaIsLink /\ Quiet /\ LinksKept /\ Beliefs /\ LossesKnown
<1>1. Init => Inv
  BY InitTypes, InitBooks
<1>2. Inv /\ [Next]_vars => Inv'
  BY TypesKept, ViaKept, QuietKept, LinksStayKept, BeliefsKept, LossesKnownKept
<1> HIDE DEF Inv
<1>3. Spec => []Inv
  BY <1>1, <1>2, PTL DEF Spec
<1> QED
  BY <1>3 DEF Inv

\* No pump is orphaned: whatever connects, drops and disconnects a device in whatever
\* order, and wherever the aborts of its pumps take effect, each pump that runs is in
\* the books, about to enter them, or told to stop; and all are told to stop once the
\* device is not connected.
THEOREM NoPumpLeftOver == Spec => []NoPumpOrphaned
<1>1. Quiet => NoPumpOrphaned
  BY DEF Quiet, Left, NoPumpOrphaned
<1> QED
  BY <1>1, Invariants, PTL

\* No link of the adapter is forgotten, and the browser knows what is connected,
\* except through the failures that the property names.
THEOREM BooksAgreeAlways == Spec => []BooksAgree
<1>1. ASSUME TypeOK, LinksKept PROVE LinksAccounted
  BY <1>1 DEF LinksKept, LinksAccounted, Keeper, Opening
<1>2. ASSUME Beliefs PROVE BrowserAgrees
  BY <1>2 DEF Beliefs, BrowserAgrees, Belief, Leaving
<1>3. TypeOK /\ LinksKept /\ Beliefs => BooksAgree
  BY <1>1, <1>2 DEF BooksAgree
<1> QED
  BY <1>3, Invariants, PTL

\* A session never keeps a dead connection unawares, unless its watch missed the loss.
THEOREM LossesArrive == Spec => []LossesOnTheWay
<1>1. ASSUME LossesKnown, "missed" \notin mishaps, NEW s \in Sessions, NEW d \in Devices,
             held[s][d] \notin {0, link[d]}, job[s].op \notin {"teardown", "closed"}
      PROVE  \E queue \in {heard[s], relay[s]} : \E i \in DOMAIN queue :
                 queue[i] = [dev |-> d, link |-> held[s][d]]
  BY <1>1 DEF LossesKnown, Leaving, Informed, OnTheWay, Either, Carries
<1>2. LossesKnown => LossesOnTheWay
  BY <1>1 DEF LossesOnTheWay
<1> QED
  BY <1>2, Invariants, PTL
=============================================================================
