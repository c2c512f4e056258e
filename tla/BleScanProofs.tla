--------------------------- MODULE BleScanProofs ---------------------------
(***************************************************************************)
(* Theorems of BleScan, for any number of sessions, ids and scans.         *)
(***************************************************************************)
EXTENDS BleScan, TLAPS

\* What a scan is made of.
LEMMA ScanParts ==
    \A x \in Scans : x.session \in Sessions /\ x.id \in Ids /\ x # None
BY ScansAssumption

\* A table of tables keeps its type when one entry is replaced.
LEMMA ScanTableUpdate ==
    ASSUME NEW S, NEW T, NEW V, NEW f \in [S -> [T -> V]],
           NEW s \in S, NEW t \in T, NEW v \in V
    PROVE  [f EXCEPT ![s][t] = v] \in [S -> [T -> V]]
OBVIOUS

-----------------------------------------------------------------------------
(* Types *)

\* The initial state is well typed.
LEMMA InitTypes == Init => TypeOK
BY DEF Init, TypeOK, Phases

\* The read loop keeps the types.
LEMMA LoopTypes ==
    ASSUME TypeOK,
           \/ \E x \in Scans : HandleScan(x)
           \/ \E s \in Sessions : Teardown(s) \/ \E id \in Ids : HandleCancel(s, id)
    PROVE  TypeOK'
<1> USE DEF TypeOK
<1>1. ASSUME NEW x \in Scans, HandleScan(x) PROVE TypeOK'
  <2>1. phase' \in [Scans -> Phases]
    BY <1>1 DEF HandleScan, GoTo, Phases
  <2>2. [scans EXCEPT ![x.session][x.id] = x] \in [Sessions -> [Ids -> Scans \cup {None}]]
    <3> HIDE DEF TypeOK
    <3>1. scans \in [Sessions -> [Ids -> Scans \cup {None}]]
      BY DEF TypeOK
    <3>2. x.session \in Sessions /\ x.id \in Ids /\ x \in Scans \cup {None}
      BY ScanParts
    <3> QED
      BY <3>1, <3>2, ScanTableUpdate
  <2> QED
    BY <1>1, <2>1, <2>2 DEF HandleScan
<1>2. ASSUME NEW s \in Sessions, Teardown(s) PROVE TypeOK'
  BY <1>2 DEF Teardown
<1>3. ASSUME NEW s \in Sessions, NEW id \in Ids, HandleCancel(s, id) PROVE TypeOK'
  <2>1. [scans EXCEPT ![s][id] = None] \in [Sessions -> [Ids -> Scans \cup {None}]]
    <3> HIDE DEF TypeOK
    <3>1. scans \in [Sessions -> [Ids -> Scans \cup {None}]]
      BY DEF TypeOK
    <3> QED
      BY <3>1, ScanTableUpdate
  <2> QED
    BY <1>3, <2>1 DEF HandleCancel
<1> QED
  BY <1>1, <1>2, <1>3

\* A step of a scan task keeps the types.
LEMMA TaskTypes ==
    ASSUME TypeOK, NEW x \in Scans, Task(x) PROVE TypeOK'
<1> USE DEF TypeOK, GoTo, taskFrame, Phases
<1>1. CASE TakeGeneration(x)
  <2>1. generation' = generation + 1 /\ gen' = [gen EXCEPT ![x] = generation + 1]
    BY <1>1 DEF TakeGeneration
  <2>2. generation' \in Nat /\ gen' \in [Scans -> 0..generation']
    BY <2>1
  <2> QED
    BY <1>1, <2>2 DEF TakeGeneration
<1>2. CASE StopOld(x)
  BY <1>2 DEF StopOld, StopScan, Fail, Calls
<1>3. CASE StartNew(x)
  BY <1>3 DEF StartNew, Fail, Calls
<1>4. CASE Subscribe(x)
  BY <1>4 DEF Subscribe, Fail, Calls
<1>5. CASE Hit(x) \/ SendHit(x) \/ ObserveCancel(x) \/ StreamEnds(x)
  BY <1>5 DEF Hit, SendHit, ObserveCancel, StreamEnds
<1>6. CASE Release(x)
  BY <1>6 DEF Release
<1>7. CASE Halt(x)
  BY <1>7 DEF Halt, StopScan, Fail, Calls
<1>8. CASE Reply(x)
  BY <1>8 DEF Reply
<1> QED
  BY <1>1, <1>2, <1>3, <1>4, <1>5, <1>6, <1>7, <1>8 DEF Task

\* Every step keeps the types.
LEMMA NextTypes == TypeOK /\ [Next]_vars => TypeOK'
<1> SUFFICES ASSUME TypeOK, [Next]_vars PROVE TypeOK'
  OBVIOUS
<1>1. CASE UNCHANGED vars
  BY <1>1 DEF TypeOK, vars
<1> QED
  BY <1>1, LoopTypes, TaskTypes DEF Next, Terminated

\* Every variable keeps its range, and no scan has a generation that the counter
\* has not reached.
THEOREM ScanTypes == Spec => []TypeOK
BY InitTypes, NextTypes, PTL DEF Spec

-----------------------------------------------------------------------------
(* The adapter *)

\* The mutex is owned by the scan that makes calls to the adapter.
LockOwned == \A x \in Scans : Holds(x) <=> lock = x

\* Generations tell scans apart.
DistinctGenerations ==
    /\ \A x, y \in Scans : gen[x] = gen[y] /\ gen[x] # 0 => x = y
    /\ \A x \in Scans :
          phase[x] \in {"stopping", "starting", "subscribing", "listening",
                        "sending", "releasing", "halting"} => gen[x] # 0

\* No scan gets a generation while another calls the adapter.
HolderIsNewest == \A x \in Scans : Holds(x) => gen[x] = generation

\* The scan that the adapter performs is that of the newest generation, or is
\* just being stopped for it.
RadioOwned ==
    failed \subseteq {"start_scan"} /\ radio # None =>
        \/ \E y \in Scans : phase[y] = "stopping"
        \/ /\ gen[radio] = generation
           /\ phase[radio] \in {"subscribing", "listening", "sending",
                                "releasing", "halting"}

AdapterInv ==
    /\ TypeOK
    /\ LockOwned
    /\ DistinctGenerations
    /\ HolderIsNewest
    /\ NewestKeepsScanning
    /\ StartsWhenIdle
    /\ RadioOwned

\* The adapter's invariant holds initially.
LEMMA InitAdapter == Init => AdapterInv
<1> SUFFICES ASSUME Init PROVE AdapterInv
  OBVIOUS
<1>1. TypeOK
  BY InitTypes
<1> QED
  BY <1>1, ScanParts DEF Init, AdapterInv, LockOwned, DistinctGenerations, HolderIsNewest,
     NewestKeepsScanning, StartsWhenIdle, RadioOwned, Holds

\* The read loop has no part in it.
LEMMA LoopAdapter ==
    ASSUME AdapterInv, TypeOK',
           \/ \E x \in Scans : HandleScan(x)
           \/ \E s \in Sessions : Teardown(s) \/ \E id \in Ids : HandleCancel(s, id)
    PROVE  AdapterInv'
<1> USE DEF AdapterInv, TypeOK, LockOwned, DistinctGenerations, HolderIsNewest,
        NewestKeepsScanning, StartsWhenIdle, RadioOwned, Holds
<1>1. ASSUME NEW x \in Scans, HandleScan(x) PROVE AdapterInv'
  BY <1>1 DEF HandleScan, GoTo
<1>2. ASSUME NEW s \in Sessions, Teardown(s) PROVE AdapterInv'
  BY <1>2 DEF Teardown
<1>3. ASSUME NEW s \in Sessions, NEW id \in Ids, HandleCancel(s, id) PROVE AdapterInv'
  BY <1>3 DEF HandleCancel
<1> QED
  BY <1>1, <1>2, <1>3

\* A step of a scan task preserves the adapter's invariant.
LEMMA TaskAdapter ==
    ASSUME AdapterInv, TypeOK', NEW x \in Scans, Task(x) PROVE AdapterInv'
<1> USE ScanParts DEF AdapterInv, TypeOK, LockOwned, DistinctGenerations, HolderIsNewest,
        NewestKeepsScanning, StartsWhenIdle, RadioOwned, Holds, GoTo, taskFrame
<1>1. CASE TakeGeneration(x)
  <2>1. /\ lock = None /\ lock' = x
        /\ generation' = generation + 1
        /\ gen' = [gen EXCEPT ![x] = generation + 1]
        /\ phase[x] = "queueing" /\ phase' = [phase EXCEPT ![x] = "stopping"]
        /\ UNCHANGED <<radio, failed>>
    BY <1>1 DEF TakeGeneration
  <2>2. \A y \in Scans \ {x} : phase'[y] = phase[y] /\ gen'[y] = gen[y] /\ ~Holds(y)
    BY <2>1
  <2>3. \A y \in Scans \ {x} : gen'[y] < generation'
    BY <2>1
  <2> QED
    BY <2>1, <2>2, <2>3
<1>2. CASE StopOld(x)
  BY <1>2 DEF StopOld, StopScan, Fail
<1>3. CASE StartNew(x)
  BY <1>3 DEF StartNew, Fail
<1>4. CASE Subscribe(x)
  <2>1. /\ phase[x] = "subscribing"
        /\ UNCHANGED <<gen, generation, lock, radio>>
    BY <1>4 DEF Subscribe
  <2>2. CASE phase' = [phase EXCEPT ![x] = "listening"] /\ UNCHANGED failed
    BY <2>1, <2>2
  <2>3. CASE /\ phase' = [phase EXCEPT ![x] = "replying"]
             /\ failed' = failed \cup {"events"}
    <3>1. ~(failed' \subseteq {"start_scan"})
      BY <2>3
    <3>2. "stop_scan" \notin failed' => "stop_scan" \notin failed
      BY <2>3
    <3> HIDE DEF StartsWhenIdle
    <3>3. StartsWhenIdle'
      <4>1. \A y \in Scans : phase'[y] = "starting" => phase[y] = "starting"
        BY <2>3
      <4>2. \A y \in Scans : Holds(y)' => Holds(y)
        BY <2>3
      <4> QED
        BY <2>1, <3>2, <4>1, <4>2 DEF StartsWhenIdle
    <3>4. (LockOwned /\ DistinctGenerations /\ HolderIsNewest /\ NewestKeepsScanning)'
      BY <2>1, <2>3
    <3>5. RadioOwned'
      BY <3>1
    <3> QED
      BY <3>3, <3>4, <3>5
  <2> QED
    BY <1>4, <2>2, <2>3 DEF Subscribe, Fail
<1>5. CASE Hit(x) \/ SendHit(x) \/ ObserveCancel(x) \/ StreamEnds(x)
  BY <1>5 DEF Hit, SendHit, ObserveCancel, StreamEnds
<1>6. CASE Release(x)
  BY <1>6 DEF Release
<1>7. CASE Halt(x)
  <2>1. /\ phase' = [phase EXCEPT ![x] = "replying"] /\ lock' = None
        /\ phase[x] = "halting"
        /\ radio' \in {None, radio} /\ failed \subseteq failed'
        /\ UNCHANGED <<gen, generation>>
    BY <1>7 DEF Halt, StopScan, Fail
  <2>2. (LockOwned /\ DistinctGenerations /\ HolderIsNewest)'
    BY <2>1
  <2>3. NewestKeepsScanning'
    BY <2>1
  <2>4. StartsWhenIdle'
    BY <1>7 DEF Halt, StopScan, Fail
  <2>5. RadioOwned'
    BY <1>7 DEF Halt, StopScan, Fail
  <2> QED
    BY <2>2, <2>3, <2>4, <2>5
<1>8. CASE Reply(x)
  BY <1>8 DEF Reply
<1> QED
  BY <1>1, <1>2, <1>3, <1>4, <1>5, <1>6, <1>7, <1>8 DEF Task

\* The adapter's invariant is inductive.
LEMMA NextAdapter == AdapterInv /\ [Next]_vars => AdapterInv'
<1> SUFFICES ASSUME AdapterInv, [Next]_vars PROVE AdapterInv'
  OBVIOUS
<1>1. TypeOK'
  BY NextTypes DEF AdapterInv
<1>2. CASE UNCHANGED vars
  BY <1>2 DEF AdapterInv, TypeOK, LockOwned, DistinctGenerations, HolderIsNewest,
     NewestKeepsScanning, StartsWhenIdle, RadioOwned, Holds, vars
<1> QED
  BY <1>1, <1>2, LoopAdapter, TaskAdapter DEF Next, Terminated

LEMMA AdapterAlways == Spec => []AdapterInv
BY InitAdapter, NextAdapter, PTL DEF Spec

\* The newest scan keeps the adapter until it lets go of it itself: the cleanup
\* of a scan that was replaced never stops its successor.
THEOREM ReplacementSurvives == Spec => []NewestKeepsScanning
<1>1. AdapterInv => NewestKeepsScanning
  BY DEF AdapterInv
<1> QED
  BY <1>1, AdapterAlways, PTL

\* start_scan is called by one scan at a time and, as long as stop_scan works, on
\* an adapter that is idle.
THEOREM RestartsNeverRace == Spec => []StartsWhenIdle
<1>1. AdapterInv => StartsWhenIdle
  BY DEF AdapterInv
<1> QED
  BY <1>1, AdapterAlways, PTL

\* When no task is left to stop it the adapter does not scan, unless stopping it
\* or subscribing to its events has failed.
LEMMA AdapterNotLeftScanning == Spec => []NoStrayScan
<1>1. AdapterInv => NoStrayScan
  <2> SUFFICES ASSUME AdapterInv, failed \subseteq {"start_scan"},
                      \A x \in Scans : phase[x] \in {"absent", "queueing", "replying", "done"},
                      radio # None
               PROVE  FALSE
    BY DEF NoStrayScan
  <2>1. radio \in Scans
    BY DEF AdapterInv, TypeOK
  <2> QED
    BY <2>1 DEF AdapterInv, RadioOwned
<1> QED
  BY <1>1, AdapterAlways, PTL

-----------------------------------------------------------------------------
(* The tokens *)

\* The session holds the token of each of its live scans that is not cancelled.
TokensKept ==
    \A x \in Scans :
        Live(x) => cancelled[x] \/ (loop[x.session] = "reading"
                                    /\ scans[x.session][x.id] = x)

TokenInv == TypeOK /\ TokensKept

\* Every step keeps the tokens.
LEMMA NextTokens == TokenInv /\ [Next]_vars => TokenInv'
<1> SUFFICES ASSUME TokenInv, [Next]_vars PROVE TokenInv'
  OBVIOUS
<1>1. TypeOK'
  BY NextTypes DEF TokenInv
<1> USE ScanParts DEF TokenInv, TypeOK, TokensKept, Live
<1>2. ASSUME NEW x \in Scans, HandleScan(x) PROVE TokensKept'
  <2>1. CASE GoTo(x, "replying") /\ UNCHANGED scans
    BY <1>2, <2>1 DEF HandleScan, GoTo
  <2>2. CASE /\ scans' = [scans EXCEPT ![x.session][x.id] = x]
             /\ GoTo(x, "queueing")
    <3>1. \A y \in Scans \ {x} : Live(y) =>
             y.session # x.session \/ y.id # x.id
      BY <1>2 DEF HandleScan, MayUseId
    <3>2. \A y \in Scans \ {x} : Live(y)' => Live(y)
      BY <2>2 DEF GoTo
    <3>3. scans'[x.session][x.id] = x
      BY <2>2
    <3>4. \A y \in Scans \ {x} : Live(y) =>
             scans'[y.session][y.id] = scans[y.session][y.id]
      BY <2>2, <3>1
    <3> QED
      BY <1>2, <3>2, <3>3, <3>4 DEF HandleScan
  <2> QED
    BY <1>2, <2>1, <2>2 DEF HandleScan
<1>3. ASSUME NEW s \in Sessions, NEW id \in Ids, HandleCancel(s, id) PROVE TokensKept'
  <2> SUFFICES ASSUME NEW x \in Scans, Live(x)', ~cancelled'[x]
               PROVE  loop'[x.session] = "reading" /\ scans'[x.session][x.id] = x
    BY DEF TokensKept
  <2>1. Live(x) /\ ~cancelled[x] /\ scans[s][id] # x
    BY <1>3 DEF HandleCancel
  <2>2. scans[x.session][x.id] = x /\ loop[x.session] = "reading"
    BY <2>1
  <2>3. x.session # s \/ x.id # id
    BY <2>1, <2>2
  <2> QED
    BY <1>3, <2>2, <2>3 DEF HandleCancel
<1>4. ASSUME NEW s \in Sessions, Teardown(s) PROVE TokensKept'
  <2> SUFFICES ASSUME NEW x \in Scans, Live(x)', ~cancelled'[x]
               PROVE  loop'[x.session] = "reading" /\ scans'[x.session][x.id] = x
    BY DEF TokensKept
  <2>1. Live(x) /\ ~cancelled[x] /\ \A id \in Ids : scans[s][id] # x
    BY <1>4 DEF Teardown
  <2>2. scans[x.session][x.id] = x /\ loop[x.session] = "reading"
    BY <2>1
  <2>3. x.session # s
    BY <2>1, <2>2
  <2> QED
    BY <1>4, <2>2, <2>3 DEF Teardown
<1>5. ASSUME NEW x \in Scans, Task(x) PROVE TokensKept'
  <2>1. UNCHANGED <<cancelled, scans, loop>>
    BY <1>5 DEF Task, TakeGeneration, StopOld, StartNew, Subscribe, Hit, SendHit,
       ObserveCancel, StreamEnds, Release, Halt, Reply, taskFrame
  <2>2. \A y \in Scans : Live(y)' => Live(y)
    BY <1>5 DEF Task, TakeGeneration, StopOld, StartNew, Subscribe, Hit, SendHit,
       ObserveCancel, StreamEnds, Release, Halt, Reply, GoTo
  <2> QED
    BY <2>1, <2>2
<1>6. CASE UNCHANGED vars
  BY <1>6 DEF vars
<1> QED
  BY <1>1, <1>2, <1>3, <1>4, <1>5, <1>6 DEF Next, Terminated

\* A scan that outlives its session has been told to stop.
LEMMA NoOrphanScans == Spec => []NoOrphanScan
<1>1. Init => TokenInv
  BY InitTypes DEF Init, TokenInv, TokensKept, Live
<1>2. TokenInv => NoOrphanScan
  BY DEF TokenInv, TypeOK, TokensKept, NoOrphanScan
<1> QED
  BY <1>1, <1>2, NextTokens, PTL DEF Spec

\* The end of a session reaches each of its scans, and an adapter that no task
\* can stop any more does not scan.
THEOREM NoScanLeftBehind == Spec => []NothingLeftBehind
BY AdapterNotLeftScanning, NoOrphanScans, PTL DEF NothingLeftBehind
=============================================================================
