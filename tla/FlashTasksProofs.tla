-------------------------- MODULE FlashTasksProofs --------------------------
(***************************************************************************)
(* Theorems of FlashTasks, for any number of sessions, ids and requests,   *)
(* any capacity of the channel and whatever ids the browser uses: types,   *)
(* what each kind of step changes, one install at a time, one terminal per *)
(* request, and the safety part of RequestReply.                           *)
(***************************************************************************)
EXTENDS FlashTasks, TLAPS

\* What an occurrence is made of.
LEMMA RequestParts ==
    \A r \in Requests : /\ r.session \in Sessions
                        /\ r.id \in Ids
                        /\ r.kind \in Kinds
                        /\ r # None
BY RequestsAssumption, NoneAssumption DEF Kinds, SpawnedKinds, InlineKinds

\* A table of tables keeps its type when one entry is replaced.
LEMMA NestedUpdate ==
    ASSUME NEW S, NEW T, NEW V, NEW f \in [S -> [T -> V]],
           NEW s \in S, NEW t \in T, NEW v \in V
    PROVE  [f EXCEPT ![s][t] = v] \in [S -> [T -> V]]
OBVIOUS

\* A task about to hand over its terminal has decided on a code.
ReplyDecided ==
    \A r \in Requests : phase[r] \in {"replying", "answering"} => reply[r] \in Codes

\* TypeOK is not inductive: what is appended to answers must be a code.
TypeInv == TypeOK /\ ReplyDecided

\* The initial state is well typed.
LEMMA InitTypeInv == Init => TypeInv
<1> SUFFICES ASSUME Init PROVE TypeInv
  OBVIOUS
<1> USE CapacityAssumption
<1>1. TypeOK
  BY DEF Init, TypeOK, Phases, Loops
<1>2. ReplyDecided
  BY DEF Init, ReplyDecided
<1> QED
  BY <1>1, <1>2 DEF TypeInv

\* The two ways in which the read loop handles a request of a task.
LEMMA RefuseTypeInv ==
    ASSUME TypeInv, NEW r \in Requests, NEW code \in Codes \ {"cancelled"},
           Refuse(r, code), ArrivalFrame
    PROVE  TypeInv'
BY RequestParts DEF TypeInv, TypeOK, ReplyDecided, Refuse, ArrivalFrame, Phases,
   sketchVars, daemonVars

\* Registering and spawning a task keeps the types.
LEMMA SpawnTypeInv ==
    ASSUME TypeInv, NEW r \in Requests, NEW ph \in {"writing", "opening"},
           Spawn(r, ph), ArrivalFrame,
           lock' \in Requests \cup {None},
           scratch' \in [Sessions -> {"none", "present", "removed"}]
    PROVE  TypeInv'
BY RequestParts DEF TypeInv, TypeOK, ReplyDecided, Spawn, GoTo, Register,
   ArrivalFrame, Phases, sketchVars, daemonVars

\* The arrival of a request preserves types.
LEMMA ReceiveTypeInv ==
    ASSUME TypeInv, NEW r \in Requests, Receive(r) PROVE TypeInv'
<1>1. CASE ReceiveListBoards(r)
  BY <1>1, RequestParts DEF TypeInv, TypeOK, ReplyDecided, ReceiveListBoards,
     GoTo, ArrivalFrame, Phases, sketchVars, daemonVars
<1>2. CASE ReceiveCompile(r)
  <2>1. ASSUME NEW code \in {"invalidRequest", "resource", "io"}, Refuse(r, code)
        PROVE  TypeInv'
    BY <1>2, <2>1, RefuseTypeInv DEF ReceiveCompile, Codes
  <2>2. ASSUME scratch' = [scratch EXCEPT ![r.session] = "present"],
               Spawn(r, "writing"), UNCHANGED lock
        PROVE  TypeInv'
    <3>1. scratch' \in [Sessions -> {"none", "present", "removed"}]
      BY <2>2, RequestParts DEF TypeInv, TypeOK
    <3> QED
      BY <1>2, <2>2, <3>1, SpawnTypeInv DEF ReceiveCompile, TypeInv, TypeOK
  <2> QED
    BY <1>2, <2>1, <2>2 DEF ReceiveCompile
<1>3. CASE ReceiveUpload(r)
  BY <1>3, SpawnTypeInv DEF ReceiveUpload, TypeInv, TypeOK
<1>4. CASE ReceiveFlashFirmware(r)
  <2>1. ASSUME NEW code \in {"resource", "io"}, Refuse(r, code)
        PROVE  TypeInv'
    BY <1>4, <2>1, RefuseTypeInv DEF ReceiveFlashFirmware, Codes
  <2> QED
    BY <1>4, <2>1, SpawnTypeInv DEF ReceiveFlashFirmware, TypeInv, TypeOK
<1>5. CASE ReceiveInstall(r)
  <2>1. CASE Refuse(r, "invalidRequest")
    BY <1>5, <2>1, RefuseTypeInv DEF ReceiveInstall, Codes
  <2> QED
    BY <1>5, <2>1, SpawnTypeInv DEF ReceiveInstall, TypeInv, TypeOK
<1> QED
  BY <1>1, <1>2, <1>3, <1>4, <1>5 DEF Receive

\* A step of a task preserves types.
LEMMA TaskTypeInv ==
    ASSUME TypeInv, NEW r \in Requests, Task(r) PROVE TypeInv'
<1> USE RequestParts DEF TypeInv, TypeOK, ReplyDecided, Phases, TaskFrame,
        GoTo, Decide, sketchVars, daemonVars
<1>1. CASE WriteSketch(r)
  <2>1. SketchName(r.id) \in SketchNames
    BY DEF SketchNames
  <2>2. sketch' \in [Sessions -> [SketchNames -> Requests \cup {None}]]
    <3>1. PICK n \in SketchNames : n = SketchName(r.id)
      BY <2>1
    <3>2. sketch' \in {sketch, [sketch EXCEPT ![r.session][n] = r]}
      BY <1>1, <3>1 DEF WriteSketch
    <3>3. /\ sketch \in [Sessions -> [SketchNames -> Requests \cup {None}]]
          /\ r.session \in Sessions
      OBVIOUS
    <3> HIDE DEF TypeInv, TypeOK
    <3>4. [sketch EXCEPT ![r.session][n] = r]
             \in [Sessions -> [SketchNames -> Requests \cup {None}]]
      BY <3>3, NestedUpdate
    <3> QED
      BY <3>2, <3>3, <3>4
  <2>3. phase' \in [Requests -> Phases] /\ reply' \in [Requests -> Codes \cup {None}]
    BY <1>1 DEF WriteSketch, Codes
  <2>4. ReplyDecided'
    BY <1>1, ZenonT(30) DEF WriteSketch, Codes
  <2> QED
    BY <1>1, <2>2, <2>3, <2>4 DEF WriteSketch, InnerFrame
<1>2. CASE OpenStream(r)
  <2>1. phase' \in [Requests -> Phases] /\ reply' \in [Requests -> Codes \cup {None}]
    BY <1>2 DEF OpenStream, Codes
  <2>2. ReplyDecided'
    BY <1>2 DEF OpenStream, Codes
  <2> QED
    BY <1>2, <2>1, <2>2 DEF OpenStream, InnerFrame
<1>3. CASE StreamLog(r)
  BY <1>3 DEF StreamLog, InnerFrame
<1>4. CASE SendLog(r)
  BY <1>4, CapacityAssumption DEF SendLog, CanSend, Enqueue
<1>5. CASE ObserveCancel(r)
  BY <1>5 DEF ObserveCancel, InnerFrame, Codes
<1>6. CASE StreamDone(r)
  <2>1. CASE r.kind = "installPlatform"
    BY <1>6, <2>1, ZenonT(30) DEF StreamDone, InnerFrame, Codes
  <2>2. CASE r.kind # "installPlatform"
    BY <1>6, <2>2, ZenonT(30) DEF StreamDone, InnerFrame, Codes
  <2> QED
    BY <2>1, <2>2
<1>7. CASE StreamFails(r)
  BY <1>7 DEF StreamFails, InnerFrame, Codes
<1>8. CASE Reinit(r)
  <2>1. loaded' \subseteq Requests
    BY <1>8 DEF Reinit
  <2>2. phase' \in [Requests -> Phases] /\ reply' \in [Requests -> Codes \cup {None}]
    BY <1>8 DEF Reinit, Codes
  <2>3. ReplyDecided'
    BY <1>8, ZenonT(30) DEF Reinit, Codes
  <2> QED
    BY <1>8, <2>1, <2>2, <2>3 DEF Reinit, InnerFrame
<1>9. CASE SendReply(r)
  BY <1>9, CapacityAssumption DEF SendReply, CanSend, Enqueue
<1>10. CASE Deregister(r)
  BY <1>10 DEF Deregister
<1>11. CASE Finish(r)
  <2>1. phase' \in [Requests -> Phases] /\ lock' \in Requests \cup {None}
    BY <1>11 DEF Finish
  <2>2. scratch' \in [Sessions -> {"none", "present", "removed"}]
    BY <1>11 DEF Finish, LetGoOfScratch
  <2>3. ReplyDecided'
    BY <1>11 DEF Finish
  <2> QED
    BY <1>11, <2>1, <2>2, <2>3 DEF Finish
<1> QED
  BY <1>1, <1>2, <1>3, <1>4, <1>5, <1>6, <1>7, <1>8, <1>9, <1>10, <1>11 DEF Task

\* A cancel, the writer and the end of a session preserve types.
LEMMA SessionTypeInv ==
    ASSUME TypeInv, NEW s \in Sessions,
           \/ \E id \in Ids : Cancel(s, id)
           \/ SocketGone(s) \/ Writer(s) \/ Teardown(s) \/ SessionEnds(s)
    PROVE  TypeInv'
<1> USE CapacityAssumption DEF TypeInv, TypeOK, ReplyDecided, taskVars, sessionVars,
        sketchVars, daemonVars, WriterFrame, TeardownFrame
<1>1. ASSUME NEW id \in Ids, Cancel(s, id) PROVE TypeInv'
  BY <1>1 DEF Cancel
<1>2. CASE SocketGone(s)
  BY <1>2 DEF SocketGone
<1>3. CASE WriterSends(s)
  BY <1>3 DEF WriterSends
<1>4. CASE WriterFails(s)
  BY <1>4 DEF WriterFails
<1>5. CASE WriterFinishes(s)
  BY <1>5 DEF WriterFinishes
<1>6. CASE Teardown(s)
  BY <1>6 DEF Teardown, Loops
<1>7. CASE SessionEnds(s)
  BY <1>7 DEF SessionEnds, LetGoOfScratch, Loops
<1> QED
  BY <1>1, <1>2, <1>3, <1>4, <1>5, <1>6, <1>7 DEF Writer

\* Every step preserves types.
LEMMA NextTypeInv == TypeInv /\ [Next]_vars => TypeInv'
<1> SUFFICES ASSUME TypeInv, [Next]_vars PROVE TypeInv'
  OBVIOUS
<1>1. ASSUME NEW r \in Requests, DaemonAnswersList(r) PROVE TypeInv'
  BY <1>1 DEF DaemonAnswersList, TypeInv, TypeOK, ReplyDecided, Phases, Codes,
     sessionVars, sketchVars, daemonVars
<1>2. ASSUME NEW r \in Requests, SendInline(r) PROVE TypeInv'
  BY <1>2, RequestParts, CapacityAssumption DEF SendInline, CanSend, Enqueue, GoTo,
     TypeInv, TypeOK, ReplyDecided, Phases, sketchVars, daemonVars
<1>3. ASSUME NEW r \in Requests, DaemonReadsSketch(r) PROVE TypeInv'
  <2>1. SketchName(r.id) \in SketchNames
    BY RequestParts DEF SketchNames
  <2>2. sketch[r.session][SketchName(r.id)] \in Requests \cup {None}
    BY <2>1, RequestParts DEF TypeInv, TypeOK
  <2> QED
    BY <1>3, <2>2 DEF DaemonReadsSketch, TypeInv, TypeOK, ReplyDecided, taskVars,
       sessionVars, daemonVars
<1>4. ASSUME NEW r \in Requests, InstallApplied(r) PROVE TypeInv'
  BY <1>4 DEF InstallApplied, TypeInv, TypeOK, ReplyDecided, taskVars, sessionVars,
     sketchVars
<1>5. CASE UNCHANGED vars
  BY <1>5 DEF vars, TypeInv, TypeOK, ReplyDecided, taskVars, sessionVars, sketchVars,
     daemonVars
<1> QED
  BY <1>1, <1>2, <1>3, <1>4, <1>5, ReceiveTypeInv, TaskTypeInv, SessionTypeInv
  DEF Next, Terminated

\* Types hold throughout.
LEMMA TypeInvariant == Spec => []TypeInv
BY InitTypeInv, NextTypeInv, PTL DEF Spec

\* Every variable keeps its type and the channel never exceeds its capacity.
THEOREM TypeCorrect == Spec => []TypeOK
<1>1. Spec => []TypeInv
  BY TypeInvariant
<1>2. TypeInv => TypeOK
  BY DEF TypeInv
<1> QED
  BY <1>1, <1>2, PTL

-----------------------------------------------------------------------------
(* Which steps change what *)

\* A request that becomes a task does so on the idle read loop of its session,
\* and every other arrival leaves the tasks and the lock alone.
LEMMA ReceiveEffect ==
    ASSUME TypeInv, NEW r \in Requests, Receive(r)
    PROVE  /\ phase[r] = "absent" /\ IdleLoop(r.session) /\ MayUseId(r)
           /\ phase'[r] \in {"awaiting", "answering", "writing", "opening"}
           /\ phase'[r] = "awaiting" => r.kind = "listBoards"
           /\ \A q \in Requests \ {r} : UNCHANGED phase[q]
           /\ Alive(r)' => Register(r)
           /\ ~Alive(r)' => UNCHANGED <<inFlight, lock, scratch>>
           /\ Alive(r)' /\ r.kind = "installPlatform" => lock = None /\ lock' = r
           /\ r.kind # "installPlatform" => UNCHANGED lock
           /\ Alive(r)' /\ r.kind = "compile"
                 => scratch' = [scratch EXCEPT ![r.session] = "present"]
           /\ r.kind # "compile" => UNCHANGED scratch
           /\ \/ UNCHANGED reply
              \/ /\ ~Alive(r)'
                 /\ reply'[r] \in Codes \ {"result", "cancelled"}
                 /\ \A q \in Requests \ {r} : UNCHANGED reply[q]
           /\ ArrivalFrame
<1> USE DEF Arrives, Refuse, Spawn, GoTo, Register, Alive, TypeInv, TypeOK, Codes
<1>1. CASE ReceiveListBoards(r)
  BY <1>1 DEF ReceiveListBoards
<1>2. CASE ReceiveCompile(r)
  BY <1>2 DEF ReceiveCompile
<1>3. CASE ReceiveUpload(r)
  BY <1>3 DEF ReceiveUpload
<1>4. CASE ReceiveFlashFirmware(r)
  BY <1>4 DEF ReceiveFlashFirmware
<1>5. CASE ReceiveInstall(r)
  BY <1>5 DEF ReceiveInstall
<1> QED
  BY <1>1, <1>2, <1>3, <1>4, <1>5 DEF Receive

\* A step of a task moves that task only, forward; it never unfires a token.
LEMMA TaskEffect ==
    ASSUME TypeInv, NEW r \in Requests, Task(r)
    PROVE  /\ Alive(r)
           /\ \A q \in Requests \ {r} : UNCHANGED <<phase[q], reply[q]>>
           /\ phase'[r] \notin {"absent", "awaiting", "answering"}
           /\ Running(r)' => Running(r)
           /\ ~Alive(r)' => Finish(r)
           /\ Finish(r) \/ UNCHANGED <<lock, scratch>>
           /\ Deregister(r) \/ UNCHANGED inFlight
           /\ SendReply(r) \/ UNCHANGED answers
           /\ TaskFrame
<1> USE DEF GoTo, Decide, InnerFrame, TaskFrame, Alive, Running, Phases, TypeInv, TypeOK
<1>1. CASE WriteSketch(r)
  BY <1>1 DEF WriteSketch
<1>2. CASE OpenStream(r)
  BY <1>2 DEF OpenStream
<1>3. CASE StreamLog(r)
  BY <1>3 DEF StreamLog
<1>4. CASE SendLog(r)
  BY <1>4 DEF SendLog
<1>5. CASE ObserveCancel(r)
  BY <1>5 DEF ObserveCancel
<1>6. CASE StreamDone(r)
  BY <1>6 DEF StreamDone
<1>7. CASE StreamFails(r)
  BY <1>7 DEF StreamFails
<1>8. CASE Reinit(r)
  BY <1>8 DEF Reinit
<1>9. CASE SendReply(r)
  BY <1>9 DEF SendReply
<1>10. CASE Deregister(r)
  BY <1>10 DEF Deregister
<1>11. CASE Finish(r)
  BY <1>11 DEF Finish
<1> QED
  BY <1>1, <1>2, <1>3, <1>4, <1>5, <1>6, <1>7, <1>8, <1>9, <1>10, <1>11 DEF Task

\* The inline answer to listBoards and what the daemon does move no task.
Aside(r) == \/ DaemonAnswersList(r) \/ SendInline(r)
            \/ DaemonReadsSketch(r) \/ InstallApplied(r)

\* What the daemon's and the read loop's own steps leave unchanged.
LEMMA AsideEffect ==
    ASSUME TypeInv, NEW r \in Requests, Aside(r)
    PROVE  /\ UNCHANGED <<cancelled, inFlight, lock, loop, socket, writer, scratch>>
           /\ \/ UNCHANGED <<phase, reply, answers>>
              \/ /\ phase[r] \in {"awaiting", "answering"}
                 /\ phase'[r] \in {"answering", "done"}
                 /\ \A q \in Requests \ {r} : UNCHANGED <<phase[q], reply[q]>>
           /\ SendInline(r) \/ UNCHANGED answers
           /\ InstallApplied(r) \/ UNCHANGED onDisk
           /\ UNCHANGED loaded
<1> USE DEF TypeInv, TypeOK, taskVars, sessionVars, daemonVars
<1>1. CASE DaemonAnswersList(r)
  BY <1>1 DEF DaemonAnswersList
<1>2. CASE SendInline(r)
  BY <1>2 DEF SendInline, GoTo
<1>3. CASE DaemonReadsSketch(r)
  BY <1>3 DEF DaemonReadsSketch
<1>4. CASE InstallApplied(r)
  BY <1>4 DEF InstallApplied
<1> QED
  BY <1>1, <1>2, <1>3, <1>4 DEF Aside

\* The writer and the end of a session move no task either; they only fire
\* tokens and let go of the registry and the scratch dir.
SessionStep(s) ==
    \/ \E id \in Ids : Cancel(s, id)
    \/ SocketGone(s) \/ Writer(s) \/ Teardown(s) \/ SessionEnds(s)

\* What a step of a session, its writer or its socket leaves unchanged.
LEMMA SessionEffect ==
    ASSUME TypeInv, NEW s \in Sessions, SessionStep(s)
    PROVE  /\ UNCHANGED <<phase, reply, answers, lock, onDisk, loaded>>
           /\ \A r \in Requests : cancelled[r] => cancelled'[r]
           /\ Teardown(s) \/ UNCHANGED inFlight
           /\ Teardown(s) \/ SessionEnds(s) \/ UNCHANGED loop
           /\ SessionEnds(s) \/ UNCHANGED scratch
<1> USE DEF TypeInv, TypeOK, taskVars, sessionVars, daemonVars, WriterFrame,
        TeardownFrame
<1>1. ASSUME NEW id \in Ids, Cancel(s, id)
      PROVE  /\ UNCHANGED <<phase, reply, answers, lock, onDisk, loaded>>
             /\ \A r \in Requests : cancelled[r] => cancelled'[r]
             /\ UNCHANGED <<inFlight, loop, scratch>>
  BY <1>1 DEF Cancel
<1>2. CASE SocketGone(s)
  BY <1>2 DEF SocketGone
<1>3. CASE Writer(s)
  BY <1>3 DEF Writer, WriterSends, WriterFails, WriterFinishes
<1>4. CASE Teardown(s)
  BY <1>4 DEF Teardown
<1>5. CASE SessionEnds(s)
  BY <1>5 DEF SessionEnds
<1> QED
  BY <1>1, <1>2, <1>3, <1>4, <1>5 DEF SessionStep

\* Every step is one of these.
LEMMA StepCases ==
    ASSUME [Next]_vars
    PROVE  \/ \E r \in Requests : Receive(r) \/ Task(r) \/ Aside(r)
           \/ \E s \in Sessions : SessionStep(s)
           \/ UNCHANGED vars
BY DEF Next, Aside, SessionStep, Terminated

-----------------------------------------------------------------------------
(* Installs are mutually exclusive *)

\* Every install that runs owns the lock.
LockOwned ==
    \A r \in Requests : r.kind = "installPlatform" /\ Alive(r) => lock = r

\* Every step keeps: a running install owns the lock.
LEMMA NextLockOwned == TypeInv /\ LockOwned /\ [Next]_vars => LockOwned'
<1> SUFFICES ASSUME TypeInv, LockOwned, [Next]_vars PROVE LockOwned'
  OBVIOUS
<1>1. ASSUME NEW r \in Requests, Receive(r) PROVE LockOwned'
  <2> SUFFICES ASSUME NEW q \in Requests, q.kind = "installPlatform", Alive(q)'
               PROVE  lock' = q
    BY DEF LockOwned
  <2>1. CASE q = r
    BY <1>1, <2>1, ReceiveEffect
  <2>2. CASE q # r
    <3>1. lock = q /\ q # None
      BY <1>1, <2>2, ReceiveEffect, RequestParts DEF LockOwned, Alive
    <3> QED
      BY <1>1, <3>1, ReceiveEffect
  <2> QED
    BY <2>1, <2>2
<1>2. ASSUME NEW r \in Requests, Task(r) PROVE LockOwned'
  <2> SUFFICES ASSUME NEW q \in Requests, q.kind = "installPlatform", Alive(q)'
               PROVE  lock' = q
    BY DEF LockOwned
  <2>1. Alive(q)
    BY <1>2, TaskEffect DEF Alive
  <2>2. CASE Finish(r)
    BY <2>1, <2>2 DEF LockOwned, Finish, GoTo, Alive, TypeInv, TypeOK
  <2>3. CASE ~Finish(r)
    BY <1>2, <2>1, <2>3, TaskEffect DEF LockOwned
  <2> QED
    BY <2>2, <2>3
<1>3. ASSUME NEW r \in Requests, Aside(r) PROVE LockOwned'
  BY <1>3, AsideEffect DEF LockOwned, Alive, TypeInv, TypeOK
<1>4. ASSUME NEW s \in Sessions, SessionStep(s) PROVE LockOwned'
  BY <1>4, SessionEffect DEF LockOwned, Alive
<1>5. CASE UNCHANGED vars
  BY <1>5 DEF vars, taskVars, LockOwned, Alive
<1> QED
  BY <1>1, <1>2, <1>3, <1>4, <1>5, StepCases

\* At most one install runs in the whole helper.
THEOREM InstallMutex == Spec => []InstallsExclusive
<1>1. Init => LockOwned
  BY DEF Init, LockOwned, Alive
<1>2. Spec => []LockOwned
  BY <1>1, NextLockOwned, TypeInvariant, PTL DEF Spec
<1>3. LockOwned => InstallsExclusive
  BY DEF LockOwned, InstallsExclusive
<1> QED
  BY <1>2, <1>3, PTL
-----------------------------------------------------------------------------
(* One terminal *)

\* A request that has its terminal, or is still running, never gets a second
\* one: the task that owns the reply leaves after sending it.
OneTerminal ==
    \A r \in Requests :
        /\ Len(answers[r]) <= 1
        /\ phase[r] \in {"absent", "awaiting", "answering"} \/ Running(r)
              => answers[r] = <<>>

\* Every step keeps: at most one terminal, and none before it is decided on.
LEMMA NextOneTerminal == TypeInv /\ OneTerminal /\ [Next]_vars => OneTerminal'
<1> SUFFICES ASSUME TypeInv, OneTerminal, [Next]_vars, NEW q \in Requests
             PROVE  OneTerminal!(q)'
  BY DEF OneTerminal
<1> DEFINE Owes == phase[q] \in {"absent", "awaiting", "answering"} \/ Running(q)
<1>0. Len(answers[q]) <= 1 /\ (Owes => answers[q] = <<>>)
  BY DEF OneTerminal
<1>1. ASSUME NEW r \in Requests, Receive(r) PROVE OneTerminal!(q)'
  <2>1. UNCHANGED answers[q] /\ (Owes' => Owes)
    BY <1>1, ReceiveEffect DEF ArrivalFrame, Running, Alive
  <2> QED
    BY <1>0, <2>1
<1>2. ASSUME NEW r \in Requests, Task(r) PROVE OneTerminal!(q)'
  <2>1. CASE q = r /\ SendReply(r)
    <3>1. Owes /\ ~Owes'
      BY <2>1 DEF SendReply, GoTo, Running, Alive, TypeInv, TypeOK
    <3>2. answers'[q] = Append(<<>>, reply[q])
      BY <1>0, <2>1, <3>1 DEF SendReply, TypeInv, TypeOK
    <3> QED
      BY <3>1, <3>2
  <2>2. CASE ~(q = r /\ SendReply(r))
    <3>1. UNCHANGED answers[q]
      BY <1>2, <2>2, TaskEffect DEF SendReply, TypeInv, TypeOK
    <3>2. Owes' => Owes
      BY <1>2, TaskEffect DEF Running, Alive
    <3> QED
      BY <1>0, <3>1, <3>2
  <2> QED
    BY <2>1, <2>2
<1>3. ASSUME NEW r \in Requests, Aside(r) PROVE OneTerminal!(q)'
  <2>1. CASE q = r /\ SendInline(r)
    <3>1. Owes /\ ~Owes'
      BY <2>1 DEF SendInline, GoTo, Running, Alive, TypeInv, TypeOK
    <3>2. answers'[q] = Append(<<>>, reply[q])
      BY <1>0, <2>1, <3>1 DEF SendInline, TypeInv, TypeOK
    <3> QED
      BY <3>1, <3>2
  <2>2. CASE ~(q = r /\ SendInline(r))
    <3>1. UNCHANGED answers[q]
      BY <1>3, <2>2, AsideEffect DEF SendInline, TypeInv, TypeOK
    <3>2. Owes' => Owes
      BY <1>3, AsideEffect DEF Running, Alive
    <3> QED
      BY <1>0, <3>1, <3>2
  <2> QED
    BY <2>1, <2>2
<1>4. ASSUME NEW s \in Sessions, SessionStep(s) PROVE OneTerminal!(q)'
  BY <1>0, <1>4, SessionEffect DEF Running, Alive
<1>5. CASE UNCHANGED vars
  BY <1>0, <1>5 DEF vars, taskVars, Running, Alive
<1> QED
  BY <1>1, <1>2, <1>3, <1>4, <1>5, StepCases

\* At the start nothing has been answered.
LEMMA InitOneTerminal == Init => OneTerminal
BY DEF Init, OneTerminal

\* No request gets a second terminal, and none is answered while it runs.
THEOREM AtMostOneTerminal == Spec => []OneTerminal
BY InitOneTerminal, NextOneTerminal, TypeInvariant, PTL DEF Spec

-----------------------------------------------------------------------------
(* The refinement *)

\* Tokens belong to requests that have arrived, and the code `cancelled` to
\* requests whose token was fired.
TokensHonest ==
    /\ \A r \in Requests : cancelled[r] => phase[r] # "absent"
    /\ \A s \in Sessions, id \in Ids :
          inFlight[s][id] # None => phase[inFlight[s][id]] # "absent"
    /\ \A r \in Requests : reply[r] = "cancelled" => cancelled[r]

\* The arrival of a request keeps the tokens honest.
LEMMA ReceiveTokens ==
    ASSUME TypeInv, TokensHonest, NEW r \in Requests, Receive(r)
    PROVE  TokensHonest'
<1> USE RequestParts DEF TypeInv, TypeOK
<1>1. \A q \in Requests : phase[q] # "absent" => phase'[q] # "absent"
  BY ReceiveEffect
<1>2. phase'[r] # "absent"
  BY ReceiveEffect
<1>3. \A q \in Requests : cancelled'[q] => phase'[q] # "absent"
  BY <1>1, ReceiveEffect DEF TokensHonest, ArrivalFrame
<1>4. \A s \in Sessions, id \in Ids :
         inFlight'[s][id] # None => phase'[inFlight'[s][id]] # "absent"
  <2>1. CASE UNCHANGED inFlight
    BY <1>1, <2>1 DEF TokensHonest
  <2>2. CASE Register(r)
    BY <1>1, <1>2, <2>2 DEF TokensHonest, Register
  <2> QED
    BY <2>1, <2>2, ReceiveEffect
<1>5. \A q \in Requests : reply'[q] = "cancelled" => cancelled'[q]
  BY ReceiveEffect DEF TokensHonest, ArrivalFrame
<1> QED
  BY <1>3, <1>4, <1>5 DEF TokensHonest

\* A step of a task keeps the tokens honest.
LEMMA TaskTokens ==
    ASSUME TypeInv, TokensHonest, NEW r \in Requests, Task(r)
    PROVE  TokensHonest'
<1> USE RequestParts DEF TypeInv, TypeOK
<1>1. \A q \in Requests : phase[q] # "absent" => phase'[q] # "absent"
  BY TaskEffect
<1>2. \A q \in Requests : cancelled'[q] => phase'[q] # "absent"
  BY <1>1, TaskEffect DEF TokensHonest, TaskFrame
<1>3. \A s \in Sessions, id \in Ids :
         inFlight'[s][id] # None => phase'[inFlight'[s][id]] # "absent"
  <2>1. CASE UNCHANGED inFlight
    BY <1>1, <2>1 DEF TokensHonest
  <2>2. CASE Deregister(r)
    BY <1>1, <2>2 DEF TokensHonest, Deregister
  <2> QED
    BY <2>1, <2>2, TaskEffect
<1>4. reply'[r] = "cancelled" => cancelled'[r]
  <2>1. reply'[r] = "cancelled" => reply[r] = "cancelled" \/ ObserveCancel(r)
    BY DEF Task, WriteSketch, OpenStream, StreamLog, SendLog, StreamDone, StreamFails,
       Reinit, SendReply, Deregister, Finish, Decide, GoTo
  <2> QED
    BY <2>1, TaskEffect DEF TokensHonest, ObserveCancel, TaskFrame
<1>5. \A q \in Requests : reply'[q] = "cancelled" => cancelled'[q]
  BY <1>4, TaskEffect DEF TokensHonest, TaskFrame
<1> QED
  BY <1>2, <1>3, <1>5 DEF TokensHonest

\* Every step keeps the tokens honest.
LEMMA NextTokens == TypeInv /\ TokensHonest /\ [Next]_vars => TokensHonest'
<1> SUFFICES ASSUME TypeInv, TokensHonest, [Next]_vars PROVE TokensHonest'
  OBVIOUS
<1>1. ASSUME NEW r \in Requests, Aside(r) PROVE TokensHonest'
  <2>1. \A q \in Requests : phase[q] # "absent" => phase'[q] # "absent"
    BY <1>1, AsideEffect
  <2>2. reply'[r] = "cancelled" => reply[r] = "cancelled"
    BY <1>1 DEF Aside, DaemonAnswersList, SendInline, DaemonReadsSketch,
       InstallApplied, taskVars, TypeInv, TypeOK
  <2>3. \A q \in Requests : reply'[q] = "cancelled" => reply[q] = "cancelled"
    BY <1>1, <2>2, AsideEffect
  <2>4. UNCHANGED <<cancelled, inFlight>>
    BY <1>1, AsideEffect
  <2>5. \A s \in Sessions, id \in Ids : inFlight[s][id] \in Requests \cup {None}
    BY DEF TypeInv, TypeOK
  <2> QED
    BY <2>1, <2>3, <2>4, <2>5 DEF TokensHonest
<1>2. ASSUME NEW s \in Sessions, SessionStep(s) PROVE TokensHonest'
  <2>1. \A r \in Requests :
           cancelled'[r] => cancelled[r] \/ \E id \in Ids : inFlight[s][id] = r
    <3>1. ASSUME NEW id \in Ids, Cancel(s, id)
          PROVE  \A r \in Requests : cancelled'[r] => cancelled[r] \/ inFlight[s][id] = r
      <4>1. PICK q \in Requests : q = inFlight[s][id]
        BY <3>1 DEF Cancel, TypeInv, TypeOK
      <4> QED
        BY <3>1, <4>1 DEF Cancel, TypeInv, TypeOK
    <3>2. CASE Teardown(s)
      BY <3>2 DEF Teardown
    <3>3. CASE SocketGone(s) \/ Writer(s) \/ SessionEnds(s)
      BY <3>3 DEF SocketGone, Writer, WriterSends, WriterFails, WriterFinishes,
         SessionEnds, WriterFrame, taskVars
    <3> QED
      BY <1>2, <3>1, <3>2, <3>3 DEF SessionStep
  <2>2. \A r \in Requests : cancelled'[r] => phase[r] # "absent"
    BY <2>1, RequestParts DEF TokensHonest
  <2>3. \A t \in Sessions, id \in Ids : inFlight'[t][id] \in {None, inFlight[t][id]}
    <3>1. CASE Teardown(s)
      BY <3>1 DEF Teardown, TypeInv, TypeOK
    <3>2. CASE UNCHANGED inFlight
      BY <3>2
    <3> QED
      BY <1>2, <3>1, <3>2, SessionEffect
  <2> QED
    BY <1>2, <2>2, <2>3, SessionEffect DEF TokensHonest
<1>3. CASE UNCHANGED vars
  BY <1>3 DEF vars, taskVars, TokensHonest
<1> QED
  BY <1>1, <1>2, <1>3, ReceiveTokens, TaskTokens, StepCases

\* At the start no token has been fired.
LEMMA InitTokens == Init => TokensHonest
<1> SUFFICES ASSUME Init PROVE TokensHonest
  OBVIOUS
<1>1. \A s \in Sessions, id \in Ids : inFlight[s][id] = None
  BY DEF Init
<1>2. \A r \in Requests : ~cancelled[r] /\ reply[r] = None
  BY DEF Init
<1>3. None # "cancelled"
  BY NoneAssumption DEF Codes
<1> QED
  BY <1>1, <1>2, <1>3 DEF TokensHonest

\* Every step of the flash channel is a step of RequestReply or leaves it alone.
LEMMA ReplyStep ==
    TypeInv /\ OneTerminal /\ TokensHonest /\ TokensHonest' /\ [Next]_vars
        => [Replies!Next]_(Replies!vars)
<1> SUFFICES ASSUME TypeInv, OneTerminal, TokensHonest, TokensHonest', [Next]_vars
             PROVE  Replies!Next \/ UNCHANGED Replies!vars
  OBVIOUS
<1> DEFINE asked == {r \in Requests : phase[r] # "absent"}
           revoked == {r \in Requests : cancelled[r]}
<1>1. ASSUME NEW r \in Requests, Receive(r) PROVE Replies!Ask(r)
  <2>1. r \notin asked /\ asked' = asked \cup {r}
    BY <1>1, ReceiveEffect
  <2> QED
    BY <1>1, <2>1, ReceiveEffect DEF Replies!Ask, ArrivalFrame
<1>2. ASSUME NEW r \in Requests, SendReply(r) \/ SendInline(r),
             UNCHANGED asked, UNCHANGED cancelled
      PROVE  Replies!Answer(r)
  <2>1. r \in asked /\ answers[r] = <<>>
    BY <1>2 DEF SendReply, SendInline, OneTerminal, Running, Alive
  <2>2. reply[r] \in Codes /\ (reply[r] = "cancelled" => r \in revoked)
    BY <1>2 DEF SendReply, SendInline, TypeInv, ReplyDecided, TokensHonest
  <2>3. answers' = [answers EXCEPT ![r] = <<reply[r]>>]
    BY <1>2, <2>1 DEF SendReply, SendInline
  <2> QED
    BY <1>2, <2>1, <2>2, <2>3 DEF Replies!Answer, Replies!Pending
<1>3. ASSUME NEW r \in Requests, Task(r)
      PROVE  Replies!Next \/ UNCHANGED Replies!vars
  <2>1. UNCHANGED asked /\ UNCHANGED cancelled
    BY <1>3, TaskEffect DEF TaskFrame, Alive
  <2>2. CASE SendReply(r)
    BY <1>2, <2>1, <2>2 DEF Replies!Next
  <2>3. CASE ~SendReply(r)
    BY <1>3, <2>1, <2>3, TaskEffect DEF Replies!vars
  <2> QED
    BY <2>2, <2>3
<1>4. ASSUME NEW r \in Requests, Aside(r)
      PROVE  Replies!Next \/ UNCHANGED Replies!vars
  <2>1. UNCHANGED asked /\ UNCHANGED cancelled
    BY <1>4, AsideEffect
  <2>2. CASE SendInline(r)
    BY <1>2, <2>1, <2>2 DEF Replies!Next
  <2>3. CASE ~SendInline(r)
    BY <1>4, <2>1, <2>3, AsideEffect DEF Replies!vars
  <2> QED
    BY <2>2, <2>3
<1>5. ASSUME NEW s \in Sessions, SessionStep(s) PROVE Replies!Next
  <2>1. revoked' \in SUBSET asked /\ revoked' = revoked \cup revoked'
    BY <1>5, SessionEffect DEF TokensHonest
  <2>2. PICK R \in SUBSET asked : R = revoked'
    BY <2>1
  <2>3. Replies!Revoke(R)
    BY <1>5, <2>1, <2>2, SessionEffect DEF Replies!Revoke
  <2> QED
    BY <2>3 DEF Replies!Next
<1>6. CASE UNCHANGED vars
  BY <1>6 DEF vars, taskVars, Replies!vars
<1> QED
  BY <1>1, <1>3, <1>4, <1>5, <1>6, StepCases DEF Replies!Next

\* The flash channel implements the safety part of RequestReply: each request
\* gets at most one terminal, after it arrived, and `cancelled` only if its
\* token was fired.
THEOREM RepliesRefined == Spec => RepliesSafe
<1>1. Init => Replies!Init
  BY DEF Init, Replies!Init
<1>2. Spec => []TokensHonest
  BY InitTokens, NextTokens, TypeInvariant, PTL DEF Spec
<1> QED
  BY <1>1, <1>2, ReplyStep, AtMostOneTerminal, TypeInvariant, PTL
  DEF Spec, RepliesSafe, Replies!Safe
=============================================================================
