------------------------- MODULE FlashRegistryProofs -------------------------
(***************************************************************************)
(* The registry of cancellation tokens, for a browser that never uses an   *)
(* id twice: every running task can be cancelled, and none is forgotten    *)
(* when its session goes.  And what the tasks share, whatever ids the      *)
(* browser uses: an install answers `result` only once its core is loaded, *)
(* the scratch dir lives as long as its holders, and compiles whose sketch *)
(* folders have different names build their own sources.                   *)
(***************************************************************************)
EXTENDS FlashTasksProofs

-----------------------------------------------------------------------------
(* Installs are loaded before they succeed *)

InstallInv ==
    /\ loaded \subseteq onDisk
    /\ \A r \in Requests :
          r.kind = "installPlatform" /\ phase[r] = "reiniting" => r \in onDisk
    /\ \A r \in Requests : phase[r] = "awaiting" => r.kind = "listBoards"
    /\ InstalledBeforeResult

\* A task decides on the success of an install only by reinitializing, over a
\* data dir that holds it.
LEMMA InstallTask ==
    ASSUME TypeInv, NEW r \in Requests, Task(r), r.kind = "installPlatform"
    PROVE  /\ phase'[r] = "reiniting" => r \in onDisk
           /\ reply'[r] = "result" =>
                 \/ reply[r] = "result"
                 \/ phase[r] = "reiniting" /\ loaded' = onDisk
BY DEF Task, WriteSketch, OpenStream, StreamLog, SendLog, ObserveCancel, StreamDone,
   StreamFails, Reinit, SendReply, Deregister, Finish, Decide, GoTo, TypeInv, TypeOK

\* A step of a task leaves the data dir alone, and what the instance has seen
\* only grows by a Reinit.
LEMMA TaskDaemon ==
    ASSUME NEW r \in Requests, Task(r)
    PROVE  onDisk' = onDisk /\ loaded' \in {loaded, onDisk}
BY DEF Task, WriteSketch, OpenStream, StreamLog, SendLog, ObserveCancel, StreamDone,
   StreamFails, Reinit, SendReply, Deregister, Finish, daemonVars

\* Every step keeps: an install that owes or has sent `result` is loaded.
LEMMA NextInstallInv == TypeInv /\ InstallInv /\ [Next]_vars => InstallInv'
<1> SUFFICES ASSUME TypeInv, InstallInv, [Next]_vars PROVE InstallInv'
  OBVIOUS
<1> USE DEF InstallInv, InstalledBeforeResult
<1>1. ASSUME NEW r \in Requests, Receive(r) PROVE InstallInv'
  BY <1>1, ReceiveEffect DEF ArrivalFrame, daemonVars
<1>2. ASSUME NEW r \in Requests, Task(r) PROVE InstallInv'
  <2>1. loaded' \subseteq onDisk' /\ loaded \subseteq loaded'
    BY <1>2, TaskDaemon
  <2>2. ASSUME NEW q \in Requests, q.kind = "installPlatform"
        PROVE  /\ phase'[q] = "reiniting" => q \in onDisk'
               /\ reply'[q] = "result" => q \in loaded'
    BY <1>2, <2>1, <2>2, InstallTask, TaskDaemon, TaskEffect
  <2>3. \A q \in Requests : phase'[q] = "awaiting" => q.kind = "listBoards"
    BY <1>2, TaskEffect
  <2> QED
    BY <2>1, <2>2, <2>3
<1>3. ASSUME NEW r \in Requests, Aside(r) PROVE InstallInv'
  <2>1. UNCHANGED <<phase, reply>> \/ UNCHANGED onDisk
    BY <1>3 DEF Aside, DaemonAnswersList, SendInline, DaemonReadsSketch,
       InstallApplied, taskVars, daemonVars
  <2>2. UNCHANGED loaded /\ onDisk \subseteq onDisk'
    BY <1>3, AsideEffect DEF InstallApplied
  <2>3. \A q \in Requests : phase'[q] \in {"awaiting", "reiniting"} => UNCHANGED phase[q]
    BY <1>3, AsideEffect
  <2>4. r.kind = "installPlatform" => reply'[r] = reply[r]
    BY <1>3 DEF Aside, DaemonAnswersList, SendInline, DaemonReadsSketch,
       InstallApplied, taskVars
  <2>5. \A q \in Requests \ {r} : UNCHANGED reply[q]
    BY <1>3, AsideEffect
  <2> QED
    BY <2>2, <2>3, <2>4, <2>5
<1>4. ASSUME NEW s \in Sessions, SessionStep(s) PROVE InstallInv'
  BY <1>4, SessionEffect
<1>5. CASE UNCHANGED vars
  BY <1>5 DEF vars, taskVars, daemonVars
<1> QED
  BY <1>1, <1>2, <1>3, <1>4, <1>5, StepCases

\* An install that answers `result` has been loaded by the daemon's instance.
THEOREM InstallsLoadedBeforeResult == Spec => []InstalledBeforeResult
<1>1. Init => InstallInv
  BY NoneAssumption DEF Init, InstallInv, InstalledBeforeResult, Codes
<1>2. Spec => []InstallInv
  BY <1>1, NextInstallInv, TypeInvariant, PTL DEF Spec
<1>3. InstallInv => InstalledBeforeResult
  BY DEF InstallInv
<1> QED
  BY <1>2, <1>3, PTL

\* Installs exclude each other, and each is loaded when it answers.
THEOREM InstallsInOrder == Spec => []InstallsOrdered
BY InstallMutex, InstallsLoadedBeforeResult, PTL DEF InstallsOrdered

-----------------------------------------------------------------------------
(* The registry *)

FreshIds == IdDiscipline = "fresh"

\* The token of r is the one its id finds.
Registered(r) == inFlight[r.session][r.id] = r

\* A task that has not been deregistered.
Listed(r) == Alive(r) /\ phase[r] # "deregistered"

\* A token in the registry is that of a task, under its session and id.
TokenHome(s, id) ==
    inFlight[s][id] # None =>
        \E r \in Requests : /\ r = inFlight[s][id]
                            /\ r.session = s /\ r.id = id /\ Listed(r)

\* No two requests of a session that have arrived share their id.
IdsUnique ==
    \A q, r \in Requests :
        q.session = r.session /\ q.id = r.id /\ q # r
            => phase[q] = "absent" \/ phase[r] = "absent"

RegistryInv ==
    /\ IdsUnique
    /\ \A r \in Requests : loop[r.session] = "reading" /\ Listed(r) => Registered(r)
    /\ \A s \in Sessions, id \in Ids : TokenHome(s, id)
    /\ NoOrphanAfterTeardown

\* What is proved inductive contains what is wanted.
LEMMA RegistryInvImplies == RegistryInv => RegistryTracksTasks /\ NoOrphanAfterTeardown
BY RequestParts DEF RegistryInv, RegistryTracksTasks, TokenHome, Registered, Listed,
   Running, Of

\* The arrival of a request keeps the registry right: its id is new.
LEMMA ReceiveRegistry ==
    ASSUME FreshIds, TypeInv, RegistryInv, NEW r \in Requests, Receive(r)
    PROVE  RegistryInv'
<1> USE RequestParts
<1>1. \A q \in Requests \ {r} : q.session = r.session /\ q.id = r.id => phase[q] = "absent"
  BY ReceiveEffect DEF MayUseId, FreshIds, Of
<1>2. phase[r] = "absent" /\ loop[r.session] = "reading" /\ UNCHANGED <<loop, cancelled>>
  BY ReceiveEffect DEF IdleLoop, ArrivalFrame
<1>3. \A q \in Requests \ {r} : UNCHANGED phase[q]
  BY ReceiveEffect
<1>4. phase'[r] # "absent" /\ phase'[r] # "deregistered"
  BY ReceiveEffect
<1>5. IdsUnique'
  BY <1>1, <1>3 DEF IdsUnique, RegistryInv
<1>6. CASE Alive(r)'
  <2>1. inFlight' = [inFlight EXCEPT ![r.session][r.id] = r]
    BY <1>6, ReceiveEffect DEF Register
  <2>2. Registered(r)' /\ Listed(r)'
    BY <1>4, <1>6, <2>1 DEF Registered, Listed, TypeInv, TypeOK
  <2>3. \A q \in Requests \ {r} : (Listed(q)' <=> Listed(q)) /\ (Running(q)' <=> Running(q))
    BY <1>3 DEF Listed, Running, Alive
  <2>4. \A q \in Requests \ {r} : Listed(q) /\ Registered(q) => Registered(q)'
    <3>1. \A q \in Requests \ {r} : Listed(q) => q.session # r.session \/ q.id # r.id
      BY <1>1 DEF Listed, Alive
    <3> QED
      BY <2>1, <3>1 DEF Registered, TypeInv, TypeOK
  <2>5. \A q \in Requests :
           loop'[q.session] = "reading" /\ Listed(q)' => Registered(q)'
    BY <1>2, <2>2, <2>3, <2>4 DEF RegistryInv
  <2>6. \A s \in Sessions, id \in Ids :
           \/ s = r.session /\ id = r.id /\ inFlight'[s][id] = r
           \/ inFlight'[s][id] = inFlight[s][id] /\ inFlight[s][id] # r
    <3>1. \A s \in Sessions, id \in Ids : inFlight[s][id] # r
      BY <1>2 DEF RegistryInv, TokenHome, Listed, Alive
    <3>2. \A s \in Sessions, id \in Ids :
             \/ s = r.session /\ id = r.id /\ inFlight'[s][id] = r
             \/ inFlight'[s][id] = inFlight[s][id]
      BY <2>1 DEF TypeInv, TypeOK
    <3> QED
      BY <3>1, <3>2
  <2>7. ASSUME NEW s \in Sessions, NEW id \in Ids PROVE TokenHome(s, id)'
    <3>1. CASE s = r.session /\ id = r.id /\ inFlight'[s][id] = r
      BY <2>2, <3>1 DEF TokenHome
    <3>2. CASE inFlight'[s][id] = inFlight[s][id] /\ inFlight[s][id] # r
      BY <2>3, <3>2 DEF RegistryInv, TokenHome
    <3> QED
      BY <2>6, <3>1, <3>2
  <2>8. NoOrphanAfterTeardown'
    BY <1>2, <2>3 DEF RegistryInv, NoOrphanAfterTeardown
  <2> QED
    BY <1>5, <2>5, <2>7, <2>8 DEF RegistryInv
<1>7. CASE ~Alive(r)'
  <2>1. UNCHANGED inFlight
    BY <1>7, ReceiveEffect
  <2>2. \A q \in Requests :
           /\ Listed(q)' <=> Listed(q)
           /\ Running(q)' <=> Running(q)
           /\ Registered(q)' <=> Registered(q)
    BY <1>2, <1>3, <1>7, <2>1 DEF Listed, Running, Alive, Registered
  <2>3. \A s \in Sessions, id \in Ids : TokenHome(s, id)'
    BY <2>1, <2>2 DEF RegistryInv, TokenHome
  <2> QED
    BY <1>2, <1>5, <2>2, <2>3 DEF RegistryInv, NoOrphanAfterTeardown
<1> QED
  BY <1>6, <1>7

\* A task leaves the registry on its own account: by fresh ids the entry it
\* removes is its own.
LEMMA TaskRegistry ==
    ASSUME TypeInv, RegistryInv, NEW r \in Requests, Task(r)
    PROVE  RegistryInv'
<1> USE RequestParts
<1>1. \A q \in Requests \ {r} : UNCHANGED phase[q]
  BY TaskEffect
<1>2. phase[r] # "absent" /\ phase'[r] # "absent" /\ (Running(r)' => Running(r))
  BY TaskEffect DEF Alive
<1>3. UNCHANGED <<loop, cancelled>>
  BY TaskEffect DEF TaskFrame
<1>4. IdsUnique'
  BY <1>1, <1>2 DEF IdsUnique, RegistryInv
<1>5. NoOrphanAfterTeardown'
  BY <1>1, <1>2, <1>3 DEF RegistryInv, NoOrphanAfterTeardown, Running, Alive
<1>6. CASE Deregister(r)
  <2>1. inFlight' = [inFlight EXCEPT ![r.session][r.id] = None]
    BY <1>6 DEF Deregister
  <2>2. Listed(r) /\ ~Listed(r)'
    BY <1>6 DEF Deregister, GoTo, Listed, Alive, TypeInv, TypeOK
  <2>3. \A q \in Requests \ {r} : Listed(q)' <=> Listed(q)
    BY <1>1 DEF Listed, Alive
  <2>4. \A q \in Requests \ {r} : Listed(q) => q.session # r.session \/ q.id # r.id
    BY <1>2 DEF RegistryInv, IdsUnique, Listed, Alive
  <2>5. \A q \in Requests : loop'[q.session] = "reading" /\ Listed(q)' => Registered(q)'
    BY <1>3, <2>1, <2>2, <2>3, <2>4 DEF RegistryInv, Registered, TypeInv, TypeOK
  <2>6. ASSUME NEW s \in Sessions, NEW id \in Ids PROVE TokenHome(s, id)'
    <3>1. CASE s = r.session /\ id = r.id
      BY <2>1, <3>1 DEF TokenHome, TypeInv, TypeOK
    <3>2. CASE ~(s = r.session /\ id = r.id)
      <4>1. inFlight'[s][id] = inFlight[s][id]
        BY <2>1, <3>2 DEF TypeInv, TypeOK
      <4>2. inFlight[s][id] # r
        BY <3>2 DEF RegistryInv, TokenHome
      <4> QED
        BY <2>3, <4>1, <4>2 DEF RegistryInv, TokenHome
    <3> QED
      BY <3>1, <3>2
  <2> QED
    BY <1>4, <1>5, <2>5, <2>6 DEF RegistryInv
<1>7. CASE ~Deregister(r)
  <2>1. UNCHANGED inFlight
    BY <1>7, TaskEffect
  <2>2. Listed(r)' <=> Listed(r)
    <3>1. phase[r] # "deregistered"  => Listed(r) /\ Listed(r)'
      BY <1>7 DEF Task, WriteSketch, OpenStream, StreamLog, SendLog, ObserveCancel,
         StreamDone, StreamFails, Reinit, SendReply, Finish, Decide, GoTo, Listed,
         Alive, TypeInv, TypeOK
    <3>2. phase[r] = "deregistered" => ~Listed(r) /\ ~Listed(r)'
      BY DEF Task, WriteSketch, OpenStream, StreamLog, SendLog, ObserveCancel,
         StreamDone, StreamFails, Reinit, SendReply, Deregister, Finish, Decide, GoTo,
         Listed, Alive, TypeInv, TypeOK
    <3> QED
      BY <3>1, <3>2
  <2>3. \A q \in Requests :
           (Listed(q)' <=> Listed(q)) /\ (Registered(q)' <=> Registered(q))
    BY <1>1, <2>1, <2>2 DEF Listed, Alive, Registered
  <2>4. \A s \in Sessions, id \in Ids : TokenHome(s, id)'
    BY <2>1, <2>3 DEF RegistryInv, TokenHome
  <2> QED
    BY <1>3, <1>4, <1>5, <2>3, <2>4 DEF RegistryInv
<1> QED
  BY <1>6, <1>7

\* So do a cancel, the writer and the end of a session: a teardown fires every
\* token of its session, and that is every running task.
LEMMA SessionRegistry ==
    ASSUME TypeInv, RegistryInv, NEW s \in Sessions, SessionStep(s)
    PROVE  RegistryInv'
<1> USE RequestParts
<1>1. UNCHANGED phase /\ \A r \in Requests : cancelled[r] => cancelled'[r]
  BY SessionEffect
<1>2. \A r \in Requests : (Listed(r)' <=> Listed(r)) /\ (Running(r)' <=> Running(r))
  BY <1>1 DEF Listed, Running, Alive
<1>3. IdsUnique'
  BY <1>1 DEF RegistryInv, IdsUnique
<1>4. CASE Teardown(s)
  <2>1. /\ loop[s] = "reading"
        /\ loop' = [loop EXCEPT ![s] = "joining"]
        /\ inFlight' = [inFlight EXCEPT ![s] = [id \in Ids |-> None]]
        /\ \A r \in Requests : Registered(r) /\ r.session = s => cancelled'[r]
    BY <1>4 DEF Teardown, IdleLoop, Registered
  <2>2. \A r \in Requests :
           loop'[r.session] = "reading" /\ Listed(r)' => Registered(r)'
    BY <1>2, <2>1 DEF RegistryInv, Registered, TypeInv, TypeOK
  <2>3. ASSUME NEW t \in Sessions, NEW id \in Ids PROVE TokenHome(t, id)'
    <3>1. inFlight'[t][id] \in {None, inFlight[t][id]}
      BY <2>1 DEF TypeInv, TypeOK
    <3> QED
      BY <1>2, <3>1 DEF RegistryInv, TokenHome
  <2>4. NoOrphanAfterTeardown'
    <3> SUFFICES ASSUME NEW r \in Requests, loop'[r.session] # "reading", Running(r)'
                 PROVE  cancelled'[r]
      BY DEF NoOrphanAfterTeardown
    <3>1. Running(r) /\ Listed(r)
      BY <1>2 DEF Running, Listed
    <3>2. CASE r.session = s
      BY <2>1, <3>1, <3>2 DEF RegistryInv
    <3>3. CASE r.session # s
      BY <1>1, <2>1, <3>1, <3>3 DEF RegistryInv, NoOrphanAfterTeardown, TypeInv, TypeOK
    <3> QED
      BY <3>2, <3>3
  <2> QED
    BY <1>3, <2>2, <2>3, <2>4 DEF RegistryInv
<1>5. CASE ~Teardown(s)
  <2>1. UNCHANGED inFlight /\ \A t \in Sessions : loop'[t] = "reading" <=> loop[t] = "reading"
    <3>1. CASE SessionEnds(s)
      BY <3>1, <1>5, SessionEffect DEF SessionEnds, TypeInv, TypeOK
    <3> QED
      BY <3>1, <1>5, SessionEffect
  <2>2. \A t \in Sessions, id \in Ids : TokenHome(t, id)'
    BY <1>2, <2>1 DEF RegistryInv, TokenHome
  <2> QED
    BY <1>1, <1>2, <1>3, <2>1, <2>2 DEF RegistryInv, NoOrphanAfterTeardown, Registered
<1> QED
  BY <1>4, <1>5

\* Every step keeps it right.
LEMMA NextRegistry ==
    ASSUME FreshIds, TypeInv, RegistryInv, [Next]_vars
    PROVE  RegistryInv'
<1>1. ASSUME UNCHANGED <<inFlight, loop, cancelled>>,
             \A r \in Requests :
                \/ UNCHANGED phase[r]
                \/ /\ phase[r] \in {"awaiting", "answering"}
                   /\ phase'[r] \in {"answering", "done"}
      PROVE  RegistryInv'
  <2>1. \A r \in Requests :
           /\ Listed(r)' <=> Listed(r)
           /\ Running(r)' <=> Running(r)
           /\ Registered(r)' <=> Registered(r)
           /\ phase'[r] = "absent" <=> phase[r] = "absent"
    BY <1>1 DEF Listed, Running, Alive, Registered
  <2>2. \A s \in Sessions, id \in Ids : TokenHome(s, id)'
    BY <1>1, <2>1 DEF RegistryInv, TokenHome
  <2> QED
    BY <1>1, <2>1, <2>2 DEF RegistryInv, IdsUnique, NoOrphanAfterTeardown
<1>2. ASSUME NEW r \in Requests, Aside(r) PROVE RegistryInv'
  BY <1>1, <1>2, AsideEffect
<1>3. CASE UNCHANGED vars
  BY <1>1, <1>3 DEF vars, taskVars, sessionVars
<1> QED
  BY <1>2, <1>3, ReceiveRegistry, TaskRegistry, SessionRegistry, StepCases

\* At the start no task runs and the registry is empty.
LEMMA InitRegistry == Init => RegistryInv
BY RequestParts DEF Init, RegistryInv, IdsUnique, Listed, Alive, TokenHome,
   NoOrphanAfterTeardown

\* With fresh ids the registry invariant holds throughout.
LEMMA RegistryInvariant == ASSUME FreshIds PROVE Spec => []RegistryInv
<1>1. TypeInv /\ RegistryInv /\ [Next]_vars => RegistryInv'
  BY FreshIds, NextRegistry
<1> QED
  BY <1>1, InitRegistry, TypeInvariant, PTL DEF Spec

\* If ids are never reused, the token of every task that owes its terminal is
\* found under its id as long as its session is served, a token found there
\* belongs to a task that has not returned, and a task that outlives the read
\* loop of its session has been told to stop.
THEOREM TokensAreReached ==
    ASSUME FreshIds PROVE Spec => []TokensReachTasks
<1>1. RegistryInv => TokensReachTasks
  BY RegistryInvImplies DEF TokensReachTasks
<1> QED
  BY <1>1, FreshIds, RegistryInvariant, PTL

-----------------------------------------------------------------------------
(* The scratch dir *)

\* Every step leaves a running compile its scratch dir.
LEMMA NextScratch == TypeInv /\ ScratchHeld /\ [Next]_vars => ScratchHeld'
<1> SUFFICES ASSUME TypeInv, ScratchHeld, [Next]_vars PROVE ScratchHeld'
  OBVIOUS
<1> SUFFICES ASSUME NEW q \in Requests, q.kind = "compile", Alive(q)'
             PROVE  scratch'[q.session] = "present"
  BY DEF ScratchHeld
<1> USE RequestParts
<1>1. ASSUME NEW r \in Requests, Receive(r) PROVE scratch'[q.session] = "present"
  <2>1. CASE q = r
    BY <1>1, <2>1, ReceiveEffect DEF TypeInv, TypeOK
  <2>2. CASE q # r
    <3>1. scratch[q.session] = "present"
      BY <1>1, <2>2, ReceiveEffect DEF ScratchHeld, Alive
    <3>2. scratch' \in {scratch, [scratch EXCEPT ![r.session] = "present"]}
      BY <1>1, ReceiveEffect
    <3> QED
      BY <3>1, <3>2 DEF TypeInv, TypeOK
  <2> QED
    BY <2>1, <2>2
<1>2. ASSUME NEW r \in Requests, Task(r) PROVE scratch'[q.session] = "present"
  <2>1. scratch[q.session] = "present" /\ Alive(q)
    BY <1>2, TaskEffect DEF ScratchHeld, Alive
  <2>2. CASE Finish(r) /\ r.kind = "compile" /\ r.session = q.session
    <3>1. q # r /\ q \in Compiles(r.session)
      BY <2>1, <2>2 DEF Finish, GoTo, Alive, Compiles, Of, TypeInv, TypeOK
    <3> QED
      BY <2>1, <2>2, <3>1 DEF Finish, LetGoOfScratch, TypeInv, TypeOK
  <2>3. CASE ~(Finish(r) /\ r.kind = "compile" /\ r.session = q.session)
    <3>1. UNCHANGED scratch
             \/ \E held \in BOOLEAN :
                   r.session # q.session /\ LetGoOfScratch(r.session, held)
      BY <1>2, <2>3, TaskEffect DEF Finish
    <3> QED
      BY <2>1, <3>1 DEF LetGoOfScratch, TypeInv, TypeOK
  <2> QED
    BY <2>2, <2>3
<1>3. ASSUME NEW r \in Requests, Aside(r) PROVE scratch'[q.session] = "present"
  BY <1>3, AsideEffect DEF ScratchHeld, Alive
<1>4. ASSUME NEW s \in Sessions, SessionStep(s) PROVE scratch'[q.session] = "present"
  <2>1. scratch[q.session] = "present" /\ Alive(q)
    BY <1>4, SessionEffect DEF ScratchHeld, Alive
  <2>2. CASE SessionEnds(s)
    BY <2>1, <2>2 DEF SessionEnds, LetGoOfScratch, Compiles, Of, TypeInv, TypeOK
  <2>3. CASE ~SessionEnds(s)
    BY <1>4, <2>1, <2>3, SessionEffect
  <2> QED
    BY <2>2, <2>3
<1>5. CASE UNCHANGED vars
  BY <1>5 DEF vars, taskVars, sessionVars, ScratchHeld, Alive
<1> QED
  BY <1>1, <1>2, <1>3, <1>4, <1>5, StepCases

\* A scratch dir that is there has a holder, the session or one of its compiles.
HasHolder(s) ==
    scratch[s] = "present" => loop[s] # "closed" \/ Compiles(s) # {}

\* Every step keeps: a scratch dir that is there has a holder.
LEMMA NextHolder ==
    TypeInv /\ (\A s \in Sessions : HasHolder(s)) /\ [Next]_vars
        => (\A s \in Sessions : HasHolder(s))'
<1> SUFFICES ASSUME TypeInv, \A s \in Sessions : HasHolder(s), [Next]_vars,
                    NEW t \in Sessions, scratch'[t] = "present", loop'[t] = "closed"
             PROVE  Compiles(t)' # {}
  BY DEF HasHolder
<1> USE RequestParts
<1>1. ASSUME NEW r \in Requests, Receive(r) PROVE Compiles(t)' # {}
  <2>1. r.session # t /\ loop[t] = "closed"
    BY <1>1, ReceiveEffect DEF IdleLoop, ArrivalFrame
  <2>2. scratch' \in {scratch, [scratch EXCEPT ![r.session] = "present"]}
    BY <1>1, ReceiveEffect
  <2>3. scratch[t] = "present"
    BY <2>1, <2>2 DEF TypeInv, TypeOK
  <2>4. PICK q \in Requests : q.session = t /\ q.kind = "compile" /\ Alive(q)
    BY <2>1, <2>3 DEF HasHolder, Compiles, Of
  <2>5. Alive(q)'
    BY <1>1, <2>1, <2>4, ReceiveEffect DEF Alive
  <2> QED
    BY <2>4, <2>5 DEF Compiles, Of
<1>2. ASSUME NEW r \in Requests, Task(r) PROVE Compiles(t)' # {}
  <2>1. loop[t] = "closed"
    BY <1>2, TaskEffect DEF TaskFrame
  <2>2. CASE ~Finish(r)
    <3>1. PICK q \in Requests : q.session = t /\ q.kind = "compile" /\ Alive(q)
      BY <1>2, <2>1, <2>2, TaskEffect DEF HasHolder, Compiles, Of
    <3>2. Alive(q)'
      BY <1>2, <2>2, <3>1, TaskEffect DEF Alive
    <3> QED
      BY <3>1, <3>2 DEF Compiles, Of
  <2>3. CASE Finish(r)
    <3>1. \A q \in Requests \ {r} : Alive(q) => Alive(q)'
      BY <1>2, TaskEffect DEF Alive
    <3>2. CASE r.kind = "compile" /\ r.session = t
      <4>1. r \in Compiles(t)
        BY <1>2, <3>2, TaskEffect DEF Compiles, Of
      <4>2. Compiles(t) # {r}
        BY <2>1, <2>3, <3>2 DEF Finish, LetGoOfScratch, TypeInv, TypeOK
      <4>3. PICK q \in Compiles(t) : q # r
        BY <4>1, <4>2
      <4> QED
        BY <3>1, <4>3 DEF Compiles, Of
    <3>3. CASE ~(r.kind = "compile" /\ r.session = t)
      <4>1. scratch[t] = "present"
        BY <2>3, <3>3 DEF Finish, LetGoOfScratch, TypeInv, TypeOK
      <4>2. PICK q \in Compiles(t) : TRUE
        BY <2>1, <4>1 DEF HasHolder
      <4>3. q # r
        BY <3>3, <4>2 DEF Compiles, Of
      <4> QED
        BY <3>1, <4>2, <4>3 DEF Compiles, Of
    <3> QED
      BY <3>2, <3>3
  <2> QED
    BY <2>2, <2>3
<1>3. ASSUME NEW r \in Requests, Aside(r) PROVE Compiles(t)' # {}
  <2>1. PICK q \in Requests : q.session = t /\ q.kind = "compile" /\ Alive(q)
    BY <1>3, AsideEffect DEF HasHolder, Compiles, Of
  <2>2. Alive(q)'
    BY <1>3, <2>1, AsideEffect DEF Alive
  <2> QED
    BY <2>1, <2>2 DEF Compiles, Of
<1>4. ASSUME NEW s \in Sessions, SessionStep(s) PROVE Compiles(t)' # {}
  <2>1. Compiles(t)' = Compiles(t)
    BY <1>4, SessionEffect DEF Compiles, Of, Alive
  <2>2. CASE SessionEnds(s) /\ s = t
    <3>1. scratch'[t] = IF scratch[t] = "present" /\ ~(Compiles(t) # {})
                         THEN "removed" ELSE scratch[t]
      BY <2>2 DEF SessionEnds, LetGoOfScratch, TypeInv, TypeOK
    <3>2. Compiles(t) # {}
      BY <3>1
    <3> QED
      BY <2>1, <3>2
  <2>3. CASE ~(SessionEnds(s) /\ s = t)
    <3>0. loop \in [Sessions -> Loops]
      BY DEF TypeInv, TypeOK
    <3>1. loop[t] = "closed"
      <4>1. CASE Teardown(s)
        BY <3>0, <4>1 DEF Teardown
      <4>2. CASE SessionEnds(s)
        BY <2>3, <3>0, <4>2 DEF SessionEnds
      <4>3. CASE UNCHANGED loop
        BY <4>3
      <4> QED
        BY <1>4, <4>1, <4>2, <4>3, SessionEffect
    <3>2. scratch[t] = "present"
      BY <1>4, <2>3, SessionEffect DEF SessionEnds, LetGoOfScratch, TypeInv, TypeOK
    <3> QED
      BY <2>1, <3>1, <3>2 DEF HasHolder
  <2> QED
    BY <2>2, <2>3
<1>5. CASE UNCHANGED vars
  BY <1>5 DEF vars, taskVars, sessionVars, HasHolder, Compiles, Of, Alive
<1> QED
  BY <1>1, <1>2, <1>3, <1>4, <1>5, StepCases

\* A running compile never loses the scratch dir it works in, and the last of the
\* session and its compiles to let go of the dir removes it.
THEOREM ScratchAccounted == Spec => []ScratchFollowsHolders
<1>1. Init => ScratchHeld /\ \A s \in Sessions : HasHolder(s)
  BY DEF Init, ScratchHeld, HasHolder, Alive
<1>2. Spec => [](ScratchHeld /\ \A s \in Sessions : HasHolder(s))
  BY <1>1, NextScratch, NextHolder, TypeInvariant, PTL DEF Spec
<1>3. ScratchHeld /\ (\A s \in Sessions : HasHolder(s)) => ScratchFollowsHolders
  BY DEF ScratchFollowsHolders, ScratchRemoved, HasHolder, Compiles, Of
<1> QED
  BY <1>2, <1>3, PTL
-----------------------------------------------------------------------------
(* The sketches *)

\* The ids the compiles of a session come with are told apart by the names of
\* their sketch folders.
NamesApart ==
    \A q, r \in Requests :
        /\ q.session = r.session /\ q.kind = "compile" /\ r.kind = "compile"
        /\ SketchName(q.id) = SketchName(r.id)
        => q.id = r.id

\* A compile builds the source it was sent, whatever the other compiles of the
\* session write into the scratch dir they share.
SketchIsolation == \A r \in Requests : built[r] \in {None, r}

\* The daemon may read the sketch of a compile that is between its write and its
\* terminal; until then nobody writes there again.
Readable(r) == r.kind = "compile" /\ phase[r] \in {"opening", "streaming", "logging"}
HoldsOwn(r) == sketch[r.session][SketchName(r.id)] = r

\* An id names one running task of its session at most, fresh or not.
IdsRunOnce ==
    \A q, r \in Requests :
        q.session = r.session /\ q.id = r.id /\ q # r => ~(Running(q) /\ Running(r))

SketchInv == /\ IdsRunOnce
             /\ \A r \in Requests : phase[r] = "writing" => r.kind = "compile"
             /\ \A r \in Requests : Readable(r) => HoldsOwn(r)
             /\ SketchIsolation

\* A request arrives under an id whose earlier requests have been answered.
LEMMA ReceiveRunsOnce ==
    ASSUME TypeInv, OneTerminal, IdsRunOnce, NEW r \in Requests, Receive(r)
    PROVE  IdsRunOnce'
<1> SUFFICES ASSUME NEW p \in Requests, NEW q \in Requests,
                    p.session = q.session, p.id = q.id, p # q
             PROVE  ~(Running(p)' /\ Running(q)')
  BY DEF IdsRunOnce
<1>1. \A o \in Requests : o # r /\ o.session = r.session /\ o.id = r.id => ~Running(o)
  BY ReceiveEffect DEF MayUseId, Of, OneTerminal, Running, Alive
<1>2. \A o \in Requests \ {r} : Running(o)' <=> Running(o)
  BY ReceiveEffect DEF Running, Alive
<1> QED
  BY <1>1, <1>2 DEF IdsRunOnce

\* A task that makes its sketch readable has just written it; no other does.
LEMMA TaskWrites ==
    ASSUME TypeInv, NEW r \in Requests, Task(r)
    PROVE  /\ UNCHANGED built /\ phase'[r] # "writing"
           /\ \/ UNCHANGED sketch /\ (Readable(r)' => Readable(r))
              \/ /\ phase[r] = "writing"
                 /\ sketch' = [sketch EXCEPT ![r.session][SketchName(r.id)] = r]
<1> USE DEF Readable, Running, Alive, GoTo, Decide, TypeInv, TypeOK, sketchVars
<1>1. CASE WriteSketch(r)
  BY <1>1 DEF WriteSketch
<1>2. CASE OpenStream(r) \/ StreamLog(r) \/ SendLog(r)
  BY <1>2 DEF OpenStream, StreamLog, SendLog
<1>3. CASE ObserveCancel(r) \/ StreamDone(r) \/ StreamFails(r) \/ Reinit(r)
  BY <1>3 DEF ObserveCancel, StreamDone, StreamFails, Reinit
<1>4. CASE SendReply(r) \/ Deregister(r) \/ Finish(r)
  BY <1>4 DEF SendReply, Deregister, Finish
<1> QED
  BY <1>1, <1>2, <1>3, <1>4 DEF Task

\* What is written into one sketch folder is found there, and only there.
LEMMA WrittenSketch ==
    ASSUME TypeInv, NEW r \in Requests, NEW q \in Requests,
           sketch' = [sketch EXCEPT ![r.session][SketchName(r.id)] = r]
    PROVE  sketch'[q.session][SketchName(q.id)] =
               IF q.session = r.session /\ SketchName(q.id) = SketchName(r.id)
               THEN r ELSE sketch[q.session][SketchName(q.id)]
<1> DEFINE n == SketchName(r.id)
           m == SketchName(q.id)
<1>1. n \in SketchNames /\ m \in SketchNames /\ r.session \in Sessions /\ q.session \in Sessions
  BY RequestParts DEF SketchNames
<1>2. sketch \in [Sessions -> [SketchNames -> Requests \cup {None}]]
  BY DEF TypeInv, TypeOK
<1> HIDE DEF n, m
<1>3. [sketch EXCEPT ![r.session][n] = r][q.session][m] =
         IF q.session = r.session /\ m = n THEN r ELSE sketch[q.session][m]
  BY <1>1, <1>2
<1> QED
  BY <1>3 DEF n, m

\* Every step leaves a readable sketch to the compile that wrote it.
LEMMA NextSketch ==
    ASSUME NamesApart, TypeInv, OneTerminal, SketchInv, [Next]_vars PROVE SketchInv'
<1> USE RequestParts
<1>1. ASSUME NEW r \in Requests, Receive(r) PROVE SketchInv'
  <2>1. IdsRunOnce'
    BY <1>1, ReceiveRunsOnce DEF SketchInv
  <2>2. \A q \in Requests \ {r} : UNCHANGED phase[q]
    BY <1>1, ReceiveEffect
  <2>3. UNCHANGED <<sketch, built>>
    BY <1>1, ReceiveEffect DEF ArrivalFrame, sketchVars
  <2>4. IF r.kind = "compile" THEN phase'[r] \in {"writing", "answering"}
        ELSE phase'[r] # "writing"
    BY <1>1 DEF Receive, ReceiveListBoards, ReceiveCompile, ReceiveUpload,
       ReceiveFlashFirmware, ReceiveInstall, Refuse, Spawn, GoTo, TypeInv, TypeOK
  <2>5. ~Readable(r)'
    BY <2>4 DEF Readable
  <2> QED
    BY <2>1, <2>2, <2>3, <2>4, <2>5 DEF SketchInv, Readable, HoldsOwn, SketchIsolation
<1>2. ASSUME NEW r \in Requests, Task(r) PROVE SketchInv'
  <2>1. \A q \in Requests \ {r} : UNCHANGED phase[q]
    BY <1>2, TaskEffect
  <2>2. IdsRunOnce'
    <3>1. \A q \in Requests : Running(q)' => Running(q)
      BY <1>2, <2>1, TaskEffect DEF Running, Alive
    <3> QED
      BY <3>1 DEF IdsRunOnce, SketchInv
  <2>3. /\ UNCHANGED built /\ phase'[r] # "writing"
        /\ \/ UNCHANGED sketch /\ (Readable(r)' => Readable(r))
           \/ /\ phase[r] = "writing"
              /\ sketch' = [sketch EXCEPT ![r.session][SketchName(r.id)] = r]
    BY <1>2, TaskWrites
  <2>4. ASSUME NEW q \in Requests, Readable(q)' PROVE HoldsOwn(q)'
    <3>1. CASE UNCHANGED sketch /\ (Readable(r)' => Readable(r))
      BY <2>1, <2>4, <3>1 DEF SketchInv, Readable, HoldsOwn
    <3>2. CASE /\ phase[r] = "writing"
               /\ sketch' = [sketch EXCEPT ![r.session][SketchName(r.id)] = r]
      <4>1. CASE q = r
        BY <3>2, <4>1, WrittenSketch DEF HoldsOwn
      <4>2. CASE q # r
        <5>1. Readable(q) /\ Running(q) /\ Running(r) /\ r.kind = "compile"
          BY <2>1, <2>4, <3>2, <4>2 DEF Readable, Running, Alive, SketchInv
        <5>2. ~(q.session = r.session /\ SketchName(q.id) = SketchName(r.id))
          BY <4>2, <5>1 DEF NamesApart, Readable, SketchInv, IdsRunOnce
        <5>3. HoldsOwn(q)
          BY <5>1 DEF SketchInv
        <5> QED
          BY <3>2, <5>2, <5>3, WrittenSketch DEF HoldsOwn
      <4> QED
        BY <4>1, <4>2
    <3> QED
      BY <2>3, <3>1, <3>2
  <2> QED
    BY <2>1, <2>2, <2>3, <2>4 DEF SketchInv, SketchIsolation
<1>3. ASSUME NEW r \in Requests, Aside(r) PROVE SketchInv'
  <2>1. UNCHANGED sketch
    BY <1>3 DEF Aside, DaemonAnswersList, SendInline, DaemonReadsSketch, InstallApplied,
       sketchVars
  <2>2. \A q \in Requests : \/ phase'[q] = phase[q]
                            \/ /\ phase[q] \in {"awaiting", "answering"}
                               /\ phase'[q] \in {"answering", "done"}
    <3>1. \/ UNCHANGED phase
          \/ /\ phase[r] \in {"awaiting", "answering"} /\ phase'[r] \in {"answering", "done"}
             /\ \A q \in Requests \ {r} : phase'[q] = phase[q]
      BY <1>3, AsideEffect
    <3> QED
      BY <3>1
  <2>3. \A q \in Requests : /\ Readable(q)' => Readable(q)
                            /\ Running(q)' => Running(q)
                            /\ phase'[q] = "writing" => phase[q] = "writing"
    BY <2>2 DEF Readable, Running, Alive
  <2>4. CASE DaemonReadsSketch(r)
    <3>1. Readable(r) /\ built' = [built EXCEPT ![r] = sketch[r.session][SketchName(r.id)]]
      BY <2>4 DEF DaemonReadsSketch, Readable
    <3>2. sketch[r.session][SketchName(r.id)] = r
      BY <3>1 DEF SketchInv, HoldsOwn
    <3>3. SketchIsolation'
      BY <3>1, <3>2 DEF SketchInv, SketchIsolation, TypeInv, TypeOK
    <3> QED
      BY <2>1, <2>3, <3>3 DEF SketchInv, IdsRunOnce, HoldsOwn
  <2>5. CASE ~DaemonReadsSketch(r)
    <3>1. UNCHANGED built
      BY <1>3, <2>5 DEF Aside, DaemonAnswersList, SendInline, InstallApplied, sketchVars
    <3> QED
      BY <2>1, <2>3, <3>1 DEF SketchInv, IdsRunOnce, HoldsOwn, SketchIsolation
  <2> QED
    BY <2>4, <2>5
<1>4. ASSUME UNCHANGED <<phase, sketch, built>> PROVE SketchInv'
  BY <1>4 DEF SketchInv, IdsRunOnce, Running, Alive, Readable, HoldsOwn, SketchIsolation
<1>5. ASSUME NEW s \in Sessions, SessionStep(s) PROVE SketchInv'
  <2>1. UNCHANGED <<phase, sketch, built>>
    BY <1>5, SessionEffect DEF SessionStep, Cancel, SocketGone, Writer, WriterSends,
       WriterFails, WriterFinishes, Teardown, SessionEnds, WriterFrame, TeardownFrame,
       sketchVars
  <2> QED
    BY <1>4, <2>1
<1>6. CASE UNCHANGED vars
  BY <1>4, <1>6 DEF vars, taskVars, sketchVars
<1> QED
  BY <1>1, <1>2, <1>3, <1>5, <1>6, StepCases

\* If the names of the sketch folders tell the ids of the compiles apart, each
\* compile builds the source it was sent, also when the browser reuses an id it
\* has had the terminal for (bridge.rs, sketch_name and write_sketch).  Without
\* the premise it may not: sketch_name turns all punctuation into `_`, so that
\* `a-b` and `a_b` name one folder.
THEOREM SketchesIsolated ==
    ASSUME NamesApart PROVE Spec => []SketchIsolation
<1>1. Init => SketchInv
  BY DEF Init, SketchInv, IdsRunOnce, Running, Alive, Readable, SketchIsolation
<1>2. TypeInv /\ OneTerminal /\ SketchInv /\ [Next]_vars => SketchInv'
  BY NamesApart, NextSketch
<1>3. SketchInv => SketchIsolation
  BY DEF SketchInv
<1> QED
  BY <1>1, <1>2, <1>3, AtMostOneTerminal, TypeInvariant, PTL DEF Spec
=============================================================================
