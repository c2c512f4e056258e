----------------------- MODULE StreamedRequestProofs -----------------------
(***************************************************************************)
(* Theorems of StreamedRequest, for any messages the daemon may send, any  *)
(* length of its stream and any capacity of the channel: the browser is    *)
(* told what the daemon said, results are complete, and the request keeps  *)
(* the safety part of RequestReply.                                        *)
(***************************************************************************)
EXTENDS StreamedRequest, SequenceTheorems, WellFoundedInduction, TLAPS

-----------------------------------------------------------------------------
(* The operators *)

\* What the task may answer by itself.
LEMMA FailuresAreBodies == \A code \in Codes : Failure(code) \in Bodies
BY DEF Failure, Bodies

LEMMA FailureIsTerminal ==
    ASSUME NEW code
    PROVE  /\ IsTerminal(Failure(code))
           /\ Failure(code).type = "error" /\ Failure(code).code = code
BY DEF Failure, IsTerminal

LEMMA ResultIsTerminal ==
    ASSUME NEW artifact \in Artifacts \cup {None}
    PROVE  /\ Result(artifact) \in Bodies /\ IsTerminal(Result(artifact))
           /\ Result(artifact).type = "result" /\ Result(artifact).artifact = artifact
BY DEF Result, IsTerminal, Bodies

\* The artifact of a build names images that the build has left.
LEMMA ArtifactOfBuild ==
    ASSUME NEW build \in Builds
    PROVE  \/ FindArtifact(build) = None
           \/ /\ FindArtifact(build) \in Artifacts
              /\ Images(FindArtifact(build)) \subseteq build
              /\ Images(FindArtifact(build)) \in {{"hex"}, {"app"}, EspImages}
              /\ EspImages \cup {"address"} \subseteq build
                    => Images(FindArtifact(build)) # {"app"}
<1>1. CASE "hex" \in build
  <2>1. FindArtifact(build) = [main |-> "hex", parts |-> {}]
    BY <1>1 DEF FindArtifact
  <2> QED
    BY <1>1, <2>1 DEF Images, Artifacts
<1>2. CASE "hex" \notin build /\ "app" \in build
  <2>1. FindArtifact(build) = [main |-> "app", parts |-> EspParts(build)]
    BY <1>2 DEF FindArtifact
  <2>2. CASE EspImages \cup {"address"} \subseteq build
    BY <1>2, <2>1, <2>2 DEF EspParts, Images, Artifacts, EspImages
  <2>3. CASE ~(EspImages \cup {"address"} \subseteq build)
    BY <1>2, <2>1, <2>3 DEF EspParts, Images, Artifacts
  <2> QED
    BY <2>2, <2>3
<1>3. CASE "hex" \notin build /\ "app" \notin build
  BY <1>3 DEF FindArtifact
<1> QED
  BY <1>1, <1>2, <1>3

\* What a message may become: nothing, or one body that carries its position; a
\* result stands for the artifact of the build.
LEMMA TranslateShape ==
    ASSUME NEW k \in Kinds, NEW f \in Frame, NEW n \in Nat \ {0},
           NEW l \in Labels \cup {""}
    PROVE  \/ Translate(k, f, n, l) = <<>> /\ f.type # "result"
           \/ \E b \in Bodies :
                 /\ Translate(k, f, n, l) = <<b>>
                 /\ ~IsTerminal(b) => b.at = n
                 /\ b.type = "error" => b.code = "daemon"
                 /\ b.type = "result" =>
                       /\ f.type = "result"
                       /\ IF k = "compile"
                          THEN FindArtifact(f.build) # None
                               /\ b.artifact = FindArtifact(f.build)
                          ELSE b.artifact = None
                 /\ k # "compile" /\ f.type = "result" => b = Result(None)
<1> DEFINE t == Translate(k, f, n, l)
<1>1. CASE f.type = "out"
  <2>1. t = <<Log(n)>>
    BY <1>1 DEF Translate
  <2>2. Log(n) \in Bodies /\ ~IsTerminal(Log(n)) /\ Log(n).at = n /\ Log(n).type = "log"
    BY DEF Log, Bodies, IsTerminal
  <2> QED
    BY <1>1, <2>1, <2>2
<1>2. ASSUME NEW lab \in Labels \cup {""}
      PROVE  /\ Progress(n, lab) \in Bodies /\ ~IsTerminal(Progress(n, lab))
             /\ Progress(n, lab).at = n /\ Progress(n, lab).type = "progress"
  BY DEF Progress, Bodies, IsTerminal
<1>3. CASE f.type = "task"
  <2>1. t = <<Progress(n, IF f.name = "" THEN f.message ELSE f.name)>>
    BY <1>3 DEF Translate
  <2>2. (IF f.name = "" THEN f.message ELSE f.name) \in Labels \cup {""}
    BY <1>3 DEF Frame
  <2> QED
    BY <1>2, <1>3, <2>1, <2>2
<1>4. CASE f.type = "start"
  <2>1. t = <<Progress(n, f.label)>> /\ f.label \in Labels
    BY <1>4 DEF Translate, Frame
  <2> QED
    BY <1>2, <1>4, <2>1
<1>5. CASE f.type = "update"
  <2>1. t \in {<<>>, <<Progress(n, l)>>}
    BY <1>5 DEF Translate
  <2> QED
    BY <1>2, <1>5, <2>1
<1>6. CASE f.type = "end"
  <2>1. t \in {<<>>, <<Log(n)>>, <<Failure("daemon")>>}
    BY <1>6 DEF Translate
  <2>2. Log(n) \in Bodies /\ ~IsTerminal(Log(n)) /\ Log(n).at = n /\ Log(n).type = "log"
    BY DEF Log, Bodies, IsTerminal
  <2>3. Failure("daemon") \in Bodies
    BY FailuresAreBodies DEF Codes
  <2> QED
    BY <1>6, <2>1, <2>2, <2>3, FailureIsTerminal
<1>7. CASE f.type = "result"
  <2>1. f.build \in Builds
    BY <1>7 DEF Frame
  <2>2. CASE k = "compile" /\ FindArtifact(f.build) = None
    <3>1. t = <<Failure("daemon")>>
      BY <1>7, <2>2 DEF Translate
    <3>2. Failure("daemon") \in Bodies
      BY FailuresAreBodies DEF Codes
    <3> QED
      BY <2>2, <3>1, <3>2, FailureIsTerminal
  <2>3. CASE k = "compile" /\ FindArtifact(f.build) # None
    <3>1. t = <<Result(FindArtifact(f.build))>>
      BY <1>7, <2>3 DEF Translate
    <3>2. FindArtifact(f.build) \in Artifacts
      BY <2>1, <2>3, ArtifactOfBuild
    <3> QED
      BY <1>7, <2>3, <3>1, <3>2, ResultIsTerminal
  <2>4. CASE k # "compile"
    <3>1. t = <<Result(None)>>
      BY <1>7, <2>4 DEF Translate
    <3> QED
      BY <1>7, <2>4, <3>1, ResultIsTerminal
  <2> QED
    BY <2>2, <2>3, <2>4
<1>8. CASE f.type = "empty"
  <2>1. t = <<>>
    BY <1>8 DEF Translate
  <2> QED
    BY <1>8, <2>1
<1> QED
  BY <1>1, <1>3, <1>4, <1>5, <1>6, <1>7, <1>8 DEF Frame

\* What was sent and what is about to be, without the concatenation.
LEMMA SaidIs ==
    ASSUME NEW s \in Seq(Bodies), NEW ph, NEW p, ph = "sending" => p \in Bodies
    PROVE  s \o (IF ph = "sending" THEN <<p>> ELSE <<>>)
              = IF ph = "sending" THEN Append(s, p) ELSE s
<1>1. CASE ph = "sending"
  BY <1>1, AppendIsConcat
<1>2. CASE ph # "sending"
  BY <1>2, ConcatEmptySeq
<1> QED
  BY <1>1, <1>2

\* A largest element is the one that Max chooses.
LEMMA LargestIsMax ==
    ASSUME NEW S \in SUBSET Int, NEW m \in S, \A i \in S : i <= m
    PROVE  Max(S) = m
<1>1. \A x \in S : (\A y \in S : x >= y) => x = m
  OBVIOUS
<1>2. \A y \in S : m >= y
  OBVIOUS
<1> QED
  BY <1>1, <1>2 DEF Max

-----------------------------------------------------------------------------
(* Types *)

\* The beginning of a task, and what it may do without sending.
LEMMA ReceiveTypes == TypeOK /\ Receive => TypeOK'
BY DEF TypeOK, Receive, Phases, request, reader

LEMMA HandleTypes == TypeOK /\ Handle => TypeOK'
<1> SUFFICES ASSUME TypeOK, Handle PROVE TypeOK'
  OBVIOUS
<1>1. ASSUME NEW code \in Codes, sent' = <<Failure(code)>>, lines' = <<Failure(code)>>,
             phase' = "over", body' = "complete", UNCHANGED scratch
      PROVE  TypeOK'
  <2>1. sent' \in Seq(Bodies) /\ lines' \in Seq(Lines)
    BY <1>1, FailuresAreBodies DEF Lines
  <2> QED
    BY <1>1, <2>1 DEF TypeOK, Handle, Phases, request
<1>2. Refusals \subseteq Codes
  BY DEF Refusals, Codes
<1>3. ASSUME phase' \in {"writing", "opening"}, body' = "open",
             scratch' \in {"present", "none"}, UNCHANGED <<sent, lines>>
      PROVE  TypeOK'
  BY <1>3 DEF TypeOK, Handle, Phases, request
<1> QED
  BY <1>1, <1>2, <1>3 DEF Handle

\* A task that prepares a body, or moves without one, keeps the types.
LEMMA PrepareTypes ==
    ASSUME TypeOK, NEW b \in Bodies, Prepare(b), TaskFrame,
           read' \in Seq(Offered), label' \in Labels \cup {""}
    PROVE  TypeOK'
BY DEF TypeOK, Prepare, TaskFrame, Phases, request, reader

LEMMA GoToTypes ==
    ASSUME TypeOK, NEW ph \in Phases \ {"sending"}, phase # "sending", GoTo(ph), TaskFrame,
           read' \in Seq(Offered), label' \in Labels \cup {""}
    PROVE  TypeOK'
BY DEF TypeOK, GoTo, TaskFrame, Phases, request, reader

LEMMA ReadTypes ==
    ASSUME TypeOK, NEW f \in Offered, Read(f) PROVE TypeOK'
<1>1. f \in Frame /\ Len(read) + 1 \in Nat \ {0}
  <2>1. Len(read) \in Nat
    BY LenProperties DEF TypeOK
  <2> QED
    BY <2>1, StreamAssumption
<1>2. read' \in Seq(Offered) /\ label' \in Labels \cup {""}
  <2>1. Append(read, f) \in Seq(Offered)
    BY AppendProperties DEF TypeOK
  <2>2. LabelAfter(f, label) \in Labels \cup {""}
    BY <1>1 DEF TypeOK, LabelAfter, Frame
  <2> QED
    BY <2>1, <2>2 DEF Read
<1> DEFINE bodies == Translate(kind, f, Len(read) + 1, label)
<1>3. ASSUME bodies # <<>> PROVE Head(bodies) \in Bodies
  <2>1. kind \in Kinds /\ label \in Labels \cup {""}
    BY DEF TypeOK
  <2>2. PICK b \in Bodies : bodies = <<b>>
    BY <1>1, <1>3, <2>1, TranslateShape
  <2> QED
    BY <2>2
<1>4. CASE GoTo("polling") \/ GoTo("reiniting")
  BY <1>2, <1>4, GoToTypes DEF Read, Phases
<1>5. CASE bodies # <<>> /\ Prepare(Head(bodies))
  BY <1>2, <1>3, <1>5, PrepareTypes DEF Read
<1> QED
  BY <1>4, <1>5 DEF Read

LEMMA SendTypes == TypeOK /\ Send => TypeOK'
<1> SUFFICES ASSUME TypeOK, Send PROVE TypeOK'
  OBVIOUS
<1>1. sent' \in Seq(Bodies) /\ channel' \in Seq(Bodies)
  <2>1. pending \in Bodies /\ sent \in Seq(Bodies) /\ channel \in Seq(Bodies)
    BY DEF TypeOK, Send
  <2>2. Append(sent, pending) \in Seq(Bodies) /\ Append(channel, pending) \in Seq(Bodies)
    BY <2>1, AppendProperties
  <2> QED
    BY <2>1, <2>2 DEF Send
<1>2. Len(channel') <= Capacity
  <2>1. pending \in Bodies /\ channel \in Seq(Bodies) /\ Len(channel) <= Capacity
    BY DEF TypeOK, Send
  <2>2. Len(channel) \in Nat /\ Len(Append(channel, pending)) = Len(channel) + 1
    BY <2>1, LenProperties, AppendProperties
  <2> QED
    BY <2>1, <2>2, StreamAssumption DEF Send
<1> QED
  BY <1>1, <1>2 DEF TypeOK, Send, Phases, request, reader

LEMMA TaskTypes == TypeOK /\ Task => TypeOK'
<1> SUFFICES ASSUME TypeOK, Task PROVE TypeOK'
  OBVIOUS
<1>1. \A code \in Codes : Failure(code) \in Bodies
  BY FailuresAreBodies
<1>2. CASE WriteSketch
  BY <1>1, <1>2, GoToTypes, PrepareTypes DEF WriteSketch, TypeOK, Phases, Codes
<1>3. CASE Open
  BY <1>1, <1>3, GoToTypes, PrepareTypes DEF Open, TypeOK, Phases, Codes
<1>4. CASE Poll
  BY <1>4, GoToTypes DEF Poll, TypeOK, Phases
<1>5. CASE ObserveCancel
  BY <1>1, <1>5, PrepareTypes DEF ObserveCancel, TypeOK, Codes
<1>6. CASE NothingYet
  BY <1>6, GoToTypes DEF NothingYet, TypeOK, Phases
<1>7. CASE \E f \in Offered : Read(f)
  BY <1>7, ReadTypes
<1>8. CASE StreamOver
  BY <1>1, <1>8, PrepareTypes DEF StreamOver, TypeOK, Codes
<1>9. CASE Reinit
  BY <1>1, <1>9, ResultIsTerminal, PrepareTypes DEF Reinit, TypeOK, Codes
<1>10. CASE Send
  BY <1>10, SendTypes
<1>11. CASE Return
  BY <1>11 DEF Return, GoTo, TypeOK, Phases, request, reader
<1> QED
  BY <1>2, <1>3, <1>4, <1>5, <1>6, <1>7, <1>8, <1>9, <1>10, <1>11 DEF Task

\* What a response becomes on its way to the browser.
LEMMA LineTypes ==
    ASSUME NEW b \in Bodies, b.type = "result" /\ face = "http" => b.artifact \in Artifacts
    PROVE  WithArtifactBytes(b) \subseteq Lines
<1>1. CASE face = "http" /\ b.type = "result"
  <2>1. Images(b.artifact) \in SUBSET Flashable
    BY <1>1 DEF Images, Artifacts, Flashable, EspImages
  <2>2. [type |-> "result", artifact |-> b.artifact, bytes |-> Images(b.artifact)] \in Lines
    BY <1>1, <2>1 DEF Lines
  <2>3. Failure("io") \in Lines
    BY FailuresAreBodies DEF Lines, Codes
  <2> QED
    BY <1>1, <2>2, <2>3 DEF WithArtifactBytes
<1>2. CASE ~(face = "http" /\ b.type = "result")
  BY <1>2 DEF WithArtifactBytes, Lines
<1> QED
  BY <1>1, <1>2

-----------------------------------------------------------------------------
(* The inductive invariant *)

\* Before the task there is nothing, and a terminal is the last that is said.
Progressing ==
    /\ phase \in {"idle", "received"} => sent = <<>> /\ read = <<>>
    /\ \A i \in DOMAIN Said :
          IsTerminal(Said[i]) => i = Len(Said) /\ phase \in {"sending", "returned", "over"}

\* The label carried along is that of the last download that started.
LabelCarried == label = LabelAt(read, Len(read))

\* A result stands for the daemon's, which was the last message read; of the
\* errors, `cancelled` stands for the token.
TerminalsEarned ==
    /\ face = "http" => kind = "compile"
    /\ phase = "reiniting" =>
          kind = "install" /\ read # <<>> /\ Last(read).type = "result"
    /\ \A i \in DOMAIN Said :
          /\ Said[i].type = "result" =>
                /\ read # <<>> /\ Last(read).type = "result"
                /\ kind = "compile" =>
                      /\ FindArtifact(Last(read).build) # None
                      /\ Said[i].artifact = FindArtifact(Last(read).build)
          /\ Said[i] = Failure("cancelled") => token

\* Where the reader stands, and what it has made of what was sent.
Reading ==
    /\ body = "none" <=> phase \in {"idle", "received"}
    /\ body = "none" => lines = <<>>
    /\ body # "open" => channel = <<>>
    /\ body = "complete" => phase = "over"
    /\ Len(lines) + Len(channel) <= Len(sent)
    /\ \A i \in DOMAIN lines : lines[i] \in WithArtifactBytes(sent[i])

StreamInv == /\ TypeOK /\ Progressing /\ LabelCarried /\ ToldOnceInOrder
             /\ TerminalsEarned /\ Reading /\ DeliveredInOrder

-----------------------------------------------------------------------------
(* The kinds of steps *)

Working == {"writing", "opening", "reading", "polling", "reiniting"}

\* The task decides on its terminal b.
Concludes(b) ==
    /\ phase \in Working /\ Prepare(b) /\ TaskFrame /\ UNCHANGED <<read, label>>
    /\ IsTerminal(b)
    /\ b.type = "result" => phase = "reiniting" /\ b = Result(None)
    /\ b = Failure("cancelled") => token

\* The task comes to its next await without a word.
Moves ==
    /\ phase \in Working \ {"reiniting"} /\ phase' \in Working \ {"reiniting"}
    /\ TaskFrame /\ UNCHANGED <<read, label, pending>>

\* The token, the channel or the body changes without the task.
Apart == Finish \/ Abort \/ Cancel

LEMMA StepKinds ==
    ASSUME [Next]_vars
    PROVE  \/ Receive \/ Handle
           \/ \E b \in Bodies : Concludes(b)
           \/ Moves
           \/ \E f \in Offered : Read(f)
           \/ Send \/ Return \/ Take \/ Apart
           \/ UNCHANGED vars
<1>1. ASSUME NEW code \in Codes, NEW ph \in Working, phase = ph, Prepare(Failure(code)),
             TaskFrame, UNCHANGED <<read, label>>, code = "cancelled" => token
      PROVE  \E b \in Bodies : Concludes(b)
  BY <1>1, FailuresAreBodies, FailureIsTerminal DEF Concludes
<1>2. CASE WriteSketch
  BY <1>1, <1>2 DEF WriteSketch, GoTo, Moves, Working, Codes
<1>3. CASE Open
  BY <1>1, <1>3 DEF Open, GoTo, Moves, Working, Codes
<1>4. CASE Poll \/ NothingYet
  BY <1>4 DEF Poll, NothingYet, GoTo, Moves, Working
<1>5. CASE ObserveCancel
  BY <1>1, <1>5 DEF ObserveCancel, Working, Codes
<1>6. CASE StreamOver
  BY <1>1, <1>6 DEF StreamOver, Working, Codes
<1>7. CASE Reinit
  <2>1. CASE Prepare(Result(None))
    <3>1. Result(None) \in Bodies /\ IsTerminal(Result(None)) /\ Result(None).type = "result"
      BY ResultIsTerminal
    <3>2. Result(None) # Failure("cancelled")
      BY <3>1, FailureIsTerminal
    <3>3. Concludes(Result(None))
      BY <1>7, <2>1, <3>1, <3>2 DEF Reinit, Concludes, Working
    <3> QED
      BY <3>1, <3>3
  <2>2. CASE Prepare(Failure("grpc"))
    BY <1>1, <1>7, <2>2 DEF Reinit, Working, Codes
  <2> QED
    BY <1>7, <2>1, <2>2 DEF Reinit
<1> QED
  BY <1>2, <1>3, <1>4, <1>5, <1>6, <1>7 DEF Next, Task, Reader, Apart, Terminated

-----------------------------------------------------------------------------
(* What the steps do to what is said *)

LEMMA SaidNow ==
    ASSUME TypeOK
    PROVE  /\ Said \in Seq(Bodies)
           /\ Said = IF phase = "sending" THEN Append(sent, pending) ELSE sent
<1>1. sent \in Seq(Bodies) /\ (phase = "sending" => pending \in Bodies)
  BY DEF TypeOK
<1>2. Said = IF phase = "sending" THEN Append(sent, pending) ELSE sent
  BY <1>1, SaidIs DEF Said
<1> QED
  BY <1>1, <1>2, AppendProperties

LEMMA SaidNext ==
    ASSUME TypeOK'
    PROVE  Said' = IF phase' = "sending" THEN Append(sent', pending') ELSE sent'
<1>1. sent' \in Seq(Bodies) /\ (phase' = "sending" => pending' \in Bodies)
  BY DEF TypeOK
<1> QED
  BY <1>1, SaidIs DEF Said

\* To prepare a body is to say it; to send it, or anything else, is not.
LEMMA PrepareSays ==
    ASSUME TypeOK, NEW b \in Bodies, phase # "sending", Prepare(b), TaskFrame
    PROVE  Said = sent /\ Said' = Append(Said, b)
<1>1. Said = sent /\ sent \in Seq(Bodies)
  BY SaidNow DEF TypeOK
<1>2. Said' = sent \o <<b>>
  BY DEF Said, Prepare, TaskFrame
<1> QED
  BY <1>1, <1>2, AppendIsConcat

LEMMA SendSays ==
    ASSUME TypeOK, TypeOK', Send PROVE Said' = Said /\ Said = sent'
<1>1. Said = Append(sent, pending) /\ phase' # "sending"
  BY SaidNow DEF Send
<1>2. Said' = sent'
  BY <1>1, SaidNext
<1> QED
  BY <1>1, <1>2 DEF Send

LEMMA QuietSays ==
    ASSUME TypeOK, TypeOK', UNCHANGED sent,
           \/ phase # "sending" /\ phase' # "sending"
           \/ UNCHANGED <<phase, pending>>
    PROVE  Said' = Said
BY SaidNow, SaidNext

-----------------------------------------------------------------------------
(* The steps keep the types *)

\* A result that the cloud's reader takes names an artifact.
LEMMA TakeTypes ==
    ASSUME TypeOK, TerminalsEarned, DeliveredInOrder, Take PROVE TypeOK'
<1>1. channel \in Seq(Bodies) /\ channel # <<>> /\ lines \in Seq(Lines) /\ Len(channel) <= Capacity
  BY DEF TypeOK, Take
<1>2. Head(channel) \in Bodies /\ Tail(channel) \in Seq(Bodies) /\ Len(channel) \in Nat
      /\ Len(Tail(channel)) = Len(channel) - 1 /\ Len(lines) \in Nat
  BY <1>1, HeadTailProperties, LenProperties
<1>3. ASSUME Head(channel).type = "result", face = "http"
      PROVE  Head(channel).artifact \in Artifacts
  <2>1. Len(lines) + 1 \in 1..Len(sent) /\ Head(channel) = sent[Len(lines) + 1]
    <3>1. Len(lines) + Len(channel) = Len(sent) /\ Len(channel) > 0
      BY <1>1, <1>2, EmptySeq DEF DeliveredInOrder, Take
    <3>2. 1 \in DOMAIN channel /\ channel[1] = Head(channel)
      BY <1>1, <3>1
    <3>3. channel[1] = sent[Len(lines) + 1]
      BY <3>2 DEF DeliveredInOrder, Take
    <3> QED
      BY <1>2, <3>1, <3>2, <3>3
  <2>2. Len(lines) + 1 \in DOMAIN Said /\ Said[Len(lines) + 1] = Head(channel)
    <3>1. sent \in Seq(Bodies) /\ (phase = "sending" => pending \in Bodies)
      BY DEF TypeOK
    <3> QED
      BY <2>1, <3>1, SaidNow, AppendProperties, LenProperties
  <2>3. read # <<>> /\ Last(read).type = "result" /\ FindArtifact(Last(read).build) # None
        /\ Head(channel).artifact = FindArtifact(Last(read).build)
    BY <1>3, <2>2 DEF TerminalsEarned
  <2>4. Last(read) \in Frame
    <3>1. read \in Seq(Offered)
      BY DEF TypeOK
    <3>2. Len(read) \in 1..Len(read)
      BY <2>3, <3>1, EmptySeq
    <3> QED
      BY <3>1, <3>2, ElementOfSeq, StreamAssumption DEF Last
  <2>5. Last(read).build \in Builds
    BY <2>3, <2>4 DEF Frame
  <2> QED
    BY <2>3, <2>5, ArtifactOfBuild
<1>4. PICK b \in WithArtifactBytes(Head(channel)) : lines' = Append(lines, b)
  BY DEF Take
<1>5. lines' \in Seq(Lines)
  BY <1>1, <1>2, <1>3, <1>4, LineTypes, AppendProperties
<1>6. channel' \in Seq(Bodies) /\ Len(channel') <= Capacity
  BY <1>1, <1>2, StreamAssumption DEF Take
<1> QED
  BY <1>5, <1>6 DEF TypeOK, Take, request, task

LEMMA ApartTypes == TypeOK /\ Apart => TypeOK'
<1> SUFFICES ASSUME TypeOK, Apart PROVE TypeOK'
  OBVIOUS
<1>1. <<>> \in Seq(Bodies) /\ Len(<<>>) <= Capacity
  BY EmptySeq, StreamAssumption
<1>2. CASE Finish
  BY <1>2 DEF Finish, TypeOK, request, task
<1>3. CASE Abort
  BY <1>1, <1>3 DEF Abort, TypeOK, request, task
<1>4. CASE Cancel
  BY <1>4 DEF Cancel, TypeOK, request, task, reader
<1> QED
  BY <1>2, <1>3, <1>4 DEF Apart

LEMMA NextTypes ==
    ASSUME TypeOK, TerminalsEarned, DeliveredInOrder, [Next]_vars PROVE TypeOK'
<1>1. CASE UNCHANGED vars
  BY <1>1 DEF TypeOK, vars, request, task, reader
<1> QED
  BY <1>1, ReceiveTypes, HandleTypes, TaskTypes, TakeTypes, ApartTypes
  DEF Next, Reader, Apart, Terminated

-----------------------------------------------------------------------------
(* The steps keep the order of the terminal *)

LEMMA KeepsProgressing ==
    ASSUME TypeOK, TypeOK', Progressing, [Next]_vars PROVE Progressing'
<1>0. Said \in Seq(Bodies) /\ sent \in Seq(Bodies)
  BY SaidNow DEF TypeOK
<1>1. CASE Receive
  <2>1. Said' = Said
    BY <1>1, QuietSays DEF Receive
  <2> QED
    BY <1>1, <2>1 DEF Receive, Progressing
<1>2. CASE Handle
  <2>1. sent = <<>> /\ read = <<>> /\ phase' \in {"over", "writing", "opening"}
    BY <1>2 DEF Handle, Progressing
  <2>2. Said' = sent'
    BY <2>1, SaidNext
  <2>3. CASE \E code \in Refusals : sent' = <<Failure(code)>> /\ phase' = "over"
    BY <2>2, <2>3 DEF Progressing
  <2>4. CASE UNCHANGED sent
    BY <2>1, <2>2, <2>4 DEF Progressing
  <2> QED
    BY <1>2, <2>3, <2>4 DEF Handle
<1>3. ASSUME NEW b \in Bodies, phase \in Working, Prepare(b), TaskFrame
      PROVE  Progressing'
  <2>1. Said' = Append(Said, b) /\ phase' = "sending"
    BY <1>3, PrepareSays DEF Prepare, Working
  <2>2. \A i \in DOMAIN Said : ~IsTerminal(Said[i])
    BY <1>3 DEF Progressing, Working
  <2>3. \A i \in DOMAIN Said' : i # Len(Said') => i \in DOMAIN Said /\ Said'[i] = Said[i]
    BY <1>0, <2>1, AppendProperties
  <2> QED
    BY <2>1, <2>2, <2>3 DEF Progressing
<1>4. ASSUME phase \in Working, phase' \in Working, UNCHANGED sent PROVE Progressing'
  <2>1. Said' = Said
    BY <1>4, QuietSays DEF Working
  <2> QED
    BY <1>4, <2>1 DEF Progressing, Working
<1>5. ASSUME NEW f \in Offered, Read(f) PROVE Progressing'
  <2> DEFINE bodies == Translate(kind, f, Len(read) + 1, label)
  <2>1. CASE bodies # <<>> /\ Prepare(Head(bodies))
    <3>1. Head(bodies) = pending' /\ pending' \in Bodies
      BY <2>1 DEF Prepare, TypeOK
    <3> QED
      BY <1>3, <1>5, <2>1, <3>1 DEF Read, Working
  <2>2. CASE GoTo("polling") \/ GoTo("reiniting")
    BY <1>4, <1>5, <2>2 DEF Read, GoTo, Working, TaskFrame
  <2> QED
    BY <1>5, <2>1, <2>2 DEF Read
<1>6. CASE Send
  <2>1. Said' = Said /\ Said = Append(sent, pending) /\ pending \in Bodies
    BY <1>6, SendSays, SaidNow DEF Send, TypeOK
  <2>2. Said[Len(Said)] = pending
    BY <1>0, <2>1, AppendProperties
  <2> QED
    BY <1>6, <2>1, <2>2 DEF Send, Progressing
<1>7. CASE Return
  <2>1. Said' = Said
    BY <1>7, QuietSays DEF Return, GoTo
  <2> QED
    BY <1>7, <2>1 DEF Return, GoTo, Progressing
<1>8. ASSUME UNCHANGED <<phase, read, pending, sent>> PROVE Progressing'
  <2>1. Said' = Said
    BY <1>8, QuietSays
  <2> QED
    BY <1>8, <2>1 DEF Progressing
<1>9. CASE Take \/ Apart \/ UNCHANGED vars
  BY <1>8, <1>9 DEF Take, Apart, Finish, Abort, Cancel, vars, task
<1> QED
  BY <1>1, <1>2, <1>3, <1>4, <1>5, <1>6, <1>7, <1>9, StepKinds
  DEF Concludes, Moves, TaskFrame

-----------------------------------------------------------------------------
(* The steps keep the labels *)

\* The message that starts a download is reported under its own label, whatever
\* was carried along.
LEMMA TranslateAfter ==
    ASSUME NEW k \in Kinds, NEW f \in Frame, NEW n \in Nat, NEW l
    PROVE  Translate(k, f, n, LabelAfter(f, l)) = Translate(k, f, n, l)
<1>1. CASE f.type = "start"
  BY <1>1 DEF Translate
<1>2. CASE f.type # "start"
  BY <1>2 DEF LabelAfter
<1> QED
  BY <1>1, <1>2

\* A bounded set of naturals has a largest element.
LEMMA BoundedHasLargest ==
    ASSUME NEW S \in SUBSET Nat, S # {}, NEW n \in Nat, \A i \in S : i <= n
    PROVE  \E m \in S : \A i \in S : i <= m
<1> DEFINE R == OpToRel(<, Nat)
           T == {n - i : i \in S}
<1>1. IsWellFoundedOn(R, Nat)
  BY NatLessThanWellFounded
<1>2. T \subseteq Nat /\ T # {}
  <2>1. \A i \in S : n - i \in Nat /\ n - i \in T
    OBVIOUS
  <2> QED
    BY <2>1
<1>3. PICK t \in T : \A u \in T : ~(<<u, t>> \in R)
  <2> HIDE DEF R, T
  <2> QED
    BY <1>1, <1>2, WFMin
<1>4. PICK m \in S : t = n - m
  OBVIOUS
<1>5. ASSUME NEW i \in S PROVE i <= m
  <2>1. n - i \in T /\ n - i \in Nat /\ t \in Nat
    BY <1>2
  <2>2. ~(n - i < t)
    BY <1>3, <2>1 DEF OpToRel
  <2> QED
    BY <1>4, <2>2
<1> QED
  BY <1>5

\* Two streams that begin alike have the same labels there.
LEMMA LabelsAgree ==
    ASSUME NEW r, NEW s, NEW n \in Nat, \A i \in 1..n : s[i] = r[i]
    PROVE  LabelAt(s, n) = LabelAt(r, n)
<1> DEFINE starts(t) == {i \in 1..n : t[i].type = "start"}
<1>1. starts(s) = starts(r)
  OBVIOUS
<1>2. ASSUME starts(r) # {} PROVE s[Max(starts(r))] = r[Max(starts(r))]
  <2>1. starts(r) \in SUBSET Nat /\ \A i \in starts(r) : i <= n
    OBVIOUS
  <2>2. PICK m \in starts(r) : \A i \in starts(r) : i <= m
    <3> HIDE DEF starts
    <3> QED
      BY <1>2, <2>1, BoundedHasLargest
  <2>3. Max(starts(r)) = m /\ m \in 1..n
    <3>1. m \in 1..n
      BY <2>2
    <3> HIDE DEF starts
    <3> QED
      BY <2>1, <2>2, <3>1, LargestIsMax
  <2> QED
    BY <2>3
<1> QED
  BY <1>1, <1>2 DEF LabelAt

\* A message appended to a stream leaves the earlier ones under their labels.
LEMMA LabelsStay ==
    ASSUME NEW r \in Seq(Offered), NEW f \in Offered, NEW n \in 0..Len(r)
    PROVE  LabelAt(Append(r, f), n) = LabelAt(r, n)
<1>1. Len(r) \in Nat
  BY LenProperties
<1>2. n \in Nat /\ n <= Len(r)
  BY <1>1
<1>3. \A i \in 1..n : Append(r, f)[i] = r[i]
  BY <1>1, <1>2, AppendProperties
<1> QED
  BY <1>2, <1>3, LabelsAgree

\* The label carried along after a message is the one the message belongs to.
LEMMA LabelOfNext ==
    ASSUME NEW r \in Seq(Offered), NEW f \in Offered
    PROVE  LabelAt(Append(r, f), Len(r) + 1) = LabelAfter(f, LabelAt(r, Len(r)))
<1> DEFINE s == Append(r, f)
           n == Len(r) + 1
           starts == {i \in 1..n : s[i].type = "start"}
<1>1. Len(r) \in Nat /\ s[n] = f
  BY AppendProperties, LenProperties
<1>2. CASE f.type = "start"
  <2>1. n \in starts /\ starts \in SUBSET Int /\ \A i \in starts : i <= n
    BY <1>1, <1>2
  <2>2. Max(starts) = n
    BY <2>1, LargestIsMax
  <2> QED
    BY <1>1, <1>2, <2>1, <2>2 DEF LabelAt, LabelAfter
<1>3. CASE f.type # "start"
  <2>1. starts = {i \in 1..Len(r) : s[i].type = "start"}
    BY <1>1, <1>3
  <2>2. LabelAt(s, n) = LabelAt(s, Len(r))
    BY <2>1 DEF LabelAt
  <2> QED
    BY <1>1, <1>3, <2>2, LabelsStay DEF LabelAfter
<1> QED
  BY <1>2, <1>3

LEMMA KeepsLabel ==
    ASSUME TypeOK, LabelCarried, [Next]_vars PROVE LabelCarried'
<1>1. ASSUME UNCHANGED <<read, label>> PROVE LabelCarried'
  BY <1>1 DEF LabelCarried
<1>2. ASSUME NEW f \in Offered, Read(f) PROVE LabelCarried'
  <2>1. read' = Append(read, f) /\ label' = LabelAfter(f, label)
    BY <1>2 DEF Read
  <2>2. Len(read') = Len(read) + 1
    BY <2>1, AppendProperties DEF TypeOK
  <2> QED
    BY <2>1, <2>2, LabelOfNext DEF LabelCarried, TypeOK
<1>3. CASE Receive \/ Handle \/ Send \/ Return \/ Take \/ Apart \/ UNCHANGED vars
  BY <1>1, <1>3 DEF Receive, Handle, Send, Return, Take, Apart, Finish, Abort, Cancel,
     vars, task
<1> QED
  BY <1>1, <1>2, <1>3, StepKinds DEF Concludes, Moves

-----------------------------------------------------------------------------
(* The steps keep the stream faithful *)

\* What was told of earlier messages stays so, and of the new one there is what
\* it was translated into.
LEMMA ToldAfterRead ==
    ASSUME TypeOK, LabelCarried, NEW f \in Offered, Read(f)
    PROVE  /\ Len(read) \in Nat /\ read' = Append(read, f)
           /\ DOMAIN read = 1..Len(read) /\ DOMAIN read' = 1..(Len(read) + 1)
           /\ \A n \in DOMAIN read : Told(n)' = Told(n)
           /\ \A n : n = Len(read) + 1 =>
                 Told(n)' = {b \in ToSet(Translate(kind, f, n, label)) : ~IsTerminal(b)}
<1>1. read' = Append(read, f) /\ label' = LabelAfter(f, label) /\ kind' = kind
  BY DEF Read, TaskFrame, request
<1>2. Len(read) \in Nat /\ DOMAIN read = 1..Len(read) /\ DOMAIN read' = 1..(Len(read) + 1)
      /\ \A n \in DOMAIN read : read'[n] = read[n]
  <2>1. read \in Seq(Offered)
    BY DEF TypeOK
  <2> QED
    BY <1>1, <2>1, LenProperties, AppendProperties
<1>3. ASSUME NEW n \in DOMAIN read PROVE Told(n)' = Told(n)
  <2>1. LabelAt(read', n) = LabelAt(read, n)
    <3>1. read \in Seq(Offered)
      BY DEF TypeOK
    <3>2. n \in 0..Len(read)
      BY <1>2
    <3> QED
      BY <1>1, <3>1, <3>2, LabelsStay
  <2> QED
    BY <1>1, <1>2, <2>1 DEF Told
<1>4. ASSUME NEW n, n = Len(read) + 1
      PROVE  Told(n)' = {b \in ToSet(Translate(kind, f, n, label)) : ~IsTerminal(b)}
  <2>1. LabelAt(read', n) = LabelAfter(f, label) /\ read'[n] = f
    <3>1. read \in Seq(Offered) /\ label = LabelAt(read, Len(read))
      BY DEF TypeOK, LabelCarried
    <3>2. LabelAt(Append(read, f), Len(read) + 1) = LabelAfter(f, LabelAt(read, Len(read)))
      BY <3>1, LabelOfNext
    <3>3. Append(read, f)[Len(read) + 1] = f
      BY <3>1, AppendProperties
    <3> QED
      BY <1>1, <1>4, <3>1, <3>2, <3>3
  <2>2. kind \in Kinds /\ f \in Frame /\ n \in Nat
    <3>1. kind \in Kinds
      BY DEF TypeOK
    <3> QED
      BY <1>2, <1>4, <3>1, StreamAssumption
  <2>3. Translate(kind, f, n, LabelAfter(f, label)) = Translate(kind, f, n, label)
    BY <2>2, TranslateAfter
  <2> QED
    BY <1>1, <2>1, <2>3 DEF Told
<1> QED
  BY <1>1, <1>2, <1>3, <1>4

\* Nothing changes for the browser when nothing is said and nothing read.
LEMMA ToldUnchanged ==
    ASSUME ToldOnceInOrder, Said' = Said, UNCHANGED <<kind, read>>
    PROVE  ToldOnceInOrder'
BY DEF ToldOnceInOrder, Told

\* One more body is said: a terminal, or what the message just read is told as.
LEMMA SaysOne ==
    ASSUME TypeOK, ToldOnceInOrder, \A i \in DOMAIN Said : ~IsTerminal(Said[i]),
           NEW b \in Bodies, Said' = Append(Said, b),
           DOMAIN read \subseteq DOMAIN read',
           \A n \in DOMAIN read : Told(n)' = Told(n),
           \A n \in DOMAIN read' \ DOMAIN read : Told(n)' \subseteq {b},
           ~IsTerminal(b) => /\ b.at \in DOMAIN read' /\ b \in Told(b.at)'
                             /\ \A n \in DOMAIN read : n < b.at
    PROVE  ToldOnceInOrder'
<1>1. Said \in Seq(Bodies) /\ Len(Said) \in Nat
  BY SaidNow, LenProperties
<1>2. /\ DOMAIN Said = 1..Len(Said) /\ DOMAIN Said' = 1..(Len(Said) + 1)
      /\ Said'[Len(Said) + 1] = b
      /\ \A i \in DOMAIN Said : Said'[i] = Said[i]
  BY <1>1, AppendProperties, LenProperties
<1>3. ToSet(Said') = ToSet(Said) \cup {b}
  BY <1>2 DEF ToSet
<1>4. ASSUME NEW i \in DOMAIN Said', ~IsTerminal(Said'[i]), NEW n, n = Said'[i].at
      PROVE  n \in DOMAIN read' /\ Said'[i] \in Told(n)'
  <2>1. CASE i \in DOMAIN Said
    <3>1. Said'[i] = Said[i] /\ n \in DOMAIN read /\ Said[i] \in Told(n)
      BY <1>2, <1>4, <2>1 DEF ToldOnceInOrder
    <3> QED
      BY <3>1
  <2>2. CASE i = Len(Said) + 1
    BY <1>2, <1>4, <2>2
  <2> QED
    BY <1>1, <1>2, <2>1, <2>2
<1>5. ASSUME NEW n \in DOMAIN read' PROVE Told(n)' \subseteq ToSet(Said')
  <2>1. CASE n \in DOMAIN read
    <3>1. Told(n)' = Told(n) /\ Told(n) \subseteq ToSet(Said)
      BY <2>1 DEF ToldOnceInOrder
    <3> QED
      BY <1>3, <3>1
  <2>2. CASE n \notin DOMAIN read
    BY <1>3, <1>5, <2>2
  <2> QED
    BY <2>1, <2>2
<1>6. ASSUME NEW i \in DOMAIN Said', NEW j \in DOMAIN Said', i < j
      PROVE  ~IsTerminal(Said'[i]) /\ (IsTerminal(Said'[j]) \/ Said'[i].at < Said'[j].at)
  <2>1. i \in DOMAIN Said /\ Said'[i] = Said[i] /\ ~IsTerminal(Said[i])
    BY <1>1, <1>2, <1>6
  <2>2. CASE j \in DOMAIN Said
    BY <1>2, <1>6, <2>1, <2>2 DEF ToldOnceInOrder
  <2>3. CASE j = Len(Said) + 1
    BY <1>2, <2>1, <2>3 DEF ToldOnceInOrder
  <2> QED
    BY <1>1, <1>2, <2>2, <2>3
<1> QED
  BY <1>4, <1>5, <1>6 DEF ToldOnceInOrder, Told

\* A message read that is told as nothing.
LEMMA ReadsSilently ==
    ASSUME ToldOnceInOrder, Said' = Said, DOMAIN read \subseteq DOMAIN read',
           \A n \in DOMAIN read : Told(n)' = Told(n),
           \A n \in DOMAIN read' \ DOMAIN read : Told(n)' = {}
    PROVE  ToldOnceInOrder'
<1>1. ASSUME NEW i \in DOMAIN Said', ~IsTerminal(Said'[i]), NEW n, n = Said'[i].at
      PROVE  n \in DOMAIN read' /\ Said'[i] \in Told(n)'
  <2>1. Said'[i] = Said[i] /\ n \in DOMAIN read /\ Said[i] \in Told(n)
    BY <1>1 DEF ToldOnceInOrder
  <2> QED
    BY <2>1
<1>2. ASSUME NEW n \in DOMAIN read' PROVE Told(n)' \subseteq ToSet(Said')
  <2>1. CASE n \in DOMAIN read
    BY <2>1 DEF ToldOnceInOrder
  <2> QED
    BY <1>2, <2>1
<1>3. ASSUME NEW i \in DOMAIN Said', NEW j \in DOMAIN Said', i < j
      PROVE  ~IsTerminal(Said'[i]) /\ (IsTerminal(Said'[j]) \/ Said'[i].at < Said'[j].at)
  BY <1>3 DEF ToldOnceInOrder
<1> QED
  BY <1>1, <1>2, <1>3 DEF ToldOnceInOrder, Told

LEMMA ReadKeepsTold ==
    ASSUME TypeOK, TypeOK', Progressing, LabelCarried, ToldOnceInOrder,
           NEW f \in Offered, Read(f)
    PROVE  ToldOnceInOrder'
<1>1. /\ Len(read) \in Nat /\ read' = Append(read, f)
      /\ DOMAIN read = 1..Len(read) /\ DOMAIN read' = 1..(Len(read) + 1)
      /\ \A n \in DOMAIN read : Told(n)' = Told(n)
      /\ \A n : n = Len(read) + 1 =>
            Told(n)' = {b \in ToSet(Translate(kind, f, n, label)) : ~IsTerminal(b)}
  BY ToldAfterRead
<1>2. PICK n \in Nat \ {0} : n = Len(read) + 1
  BY <1>1
<1> DEFINE bodies == Translate(kind, f, n, label)
<1>3. DOMAIN read' \ DOMAIN read = {n} /\ n \in DOMAIN read' /\ \A m \in DOMAIN read : m < n
  BY <1>1, <1>2
<1>4. \A i \in DOMAIN Said : ~IsTerminal(Said[i])
  BY DEF Progressing, Read
<1>5. kind \in Kinds /\ f \in Frame /\ label \in Labels \cup {""}
  <2>1. kind \in Kinds /\ label \in Labels \cup {""}
    BY DEF TypeOK
  <2> QED
    BY <2>1, StreamAssumption
<1>6. CASE bodies = <<>>
  <2>1. Told(n)' = {}
    BY <1>1, <1>2, <1>6 DEF ToSet
  <2>2. Said' = Said
    BY <1>2, <1>6, QuietSays DEF Read, GoTo, TaskFrame
  <2> QED
    BY <1>1, <1>3, <2>1, <2>2, ReadsSilently
<1>7. ASSUME NEW b \in Bodies, bodies = <<b>>, ~IsTerminal(b) => b.at = n,
             kind # "compile" /\ f.type = "result" => b = Result(None)
      PROVE  ToldOnceInOrder'
  <2>1. Told(n)' = IF IsTerminal(b) THEN {} ELSE {b}
    <3>1. ToSet(bodies) = {b}
      BY <1>7 DEF ToSet
    <3> QED
      BY <1>1, <1>2, <3>1
  <2>2. CASE kind = "install" /\ f.type = "result"
    <3>1. IsTerminal(b)
      BY <1>7, <2>2, ResultIsTerminal
    <3>2. Said' = Said
      BY <1>2, <1>7, <2>2, QuietSays DEF Read, GoTo, TaskFrame
    <3> QED
      BY <1>1, <1>3, <2>1, <3>1, <3>2, ReadsSilently
  <2>3. CASE ~(kind = "install" /\ f.type = "result")
    <3>1. Prepare(b) /\ phase # "sending" /\ TaskFrame
      <4>1. Head(bodies) = b /\ bodies # <<>>
        BY <1>7
      <4> HIDE DEF bodies
      <4> QED
        BY <1>2, <2>3, <4>1 DEF Read, bodies
    <3>2. Said' = Append(Said, b)
      BY <3>1, PrepareSays
    <3>3. ~IsTerminal(b) => /\ b.at \in DOMAIN read' /\ b \in Told(b.at)'
                            /\ \A m \in DOMAIN read : m < b.at
      BY <1>3, <1>7, <2>1
    <3>4. \A m \in DOMAIN read' \ DOMAIN read : Told(m)' \subseteq {b}
      BY <1>3, <2>1
    <3>5. DOMAIN read \subseteq DOMAIN read'
      BY <1>1
    <3> QED
      BY <1>1, <1>4, <3>2, <3>3, <3>4, <3>5, SaysOne
  <2> QED
    BY <2>2, <2>3
<1> QED
  <2>1. \/ bodies = <<>>
        \/ \E b \in Bodies : /\ bodies = <<b>> /\ (~IsTerminal(b) => b.at = n)
                             /\ kind # "compile" /\ f.type = "result" => b = Result(None)
    BY <1>5, TranslateShape
  <2> QED
    BY <1>6, <1>7, <2>1

LEMMA KeepsTold ==
    ASSUME TypeOK, TypeOK', Progressing, LabelCarried, ToldOnceInOrder, [Next]_vars
    PROVE  ToldOnceInOrder'
<1>1. ASSUME Said' = Said, UNCHANGED <<kind, read>> PROVE ToldOnceInOrder'
  BY <1>1, ToldUnchanged
<1>2. CASE Receive
  <2>1. Said' = Said
    BY <1>2, QuietSays DEF Receive
  <2> QED
    BY <1>1, <1>2, <2>1 DEF Receive, request
<1>3. CASE Handle
  <2>1. sent = <<>> /\ read = <<>> /\ read' = <<>>
    BY <1>3 DEF Handle, Progressing
  <2>2. phase # "sending" /\ phase' # "sending" /\ UNCHANGED kind
    BY <1>3 DEF Handle, request
  <2>3. ASSUME NEW code \in Refusals, sent' = <<Failure(code)>>
        PROVE  ToldOnceInOrder'
    <3>1. Said' = <<Failure(code)>> /\ IsTerminal(Failure(code))
      BY <2>2, <2>3, SaidNext, FailureIsTerminal
    <3>2. DOMAIN Said' = {1} /\ IsTerminal(Said'[1]) /\ DOMAIN read' = {}
      BY <2>1, <3>1
    <3> QED
      BY <3>2 DEF ToldOnceInOrder
  <2>4. CASE UNCHANGED sent
    BY <1>1, <2>1, <2>2, <2>4, QuietSays
  <2> QED
    BY <1>3, <2>3, <2>4 DEF Handle
<1>4. ASSUME NEW b \in Bodies, Concludes(b) PROVE ToldOnceInOrder'
  <2>1. phase # "sending" /\ UNCHANGED <<kind, read, label>>
    BY <1>4 DEF Concludes, Working, TaskFrame, request
  <2>2. Said' = Append(Said, b)
    BY <1>4, <2>1, PrepareSays DEF Concludes
  <2>3. \A i \in DOMAIN Said : ~IsTerminal(Said[i])
    BY <1>4 DEF Progressing, Concludes, Working
  <2>4. \A n : Told(n)' = Told(n)
    BY <2>1 DEF Told
  <2> QED
    BY <1>4, <2>1, <2>2, <2>3, <2>4, SaysOne DEF Concludes
<1>5. CASE Moves
  <2>1. Said' = Said
    BY <1>5, QuietSays DEF Moves, TaskFrame, Working
  <2> QED
    BY <1>1, <1>5, <2>1 DEF Moves, TaskFrame, request
<1>6. CASE Send
  BY <1>1, <1>6, SendSays DEF Send, request
<1>7. CASE Return
  <2>1. Said' = Said
    BY <1>7, QuietSays DEF Return, GoTo
  <2> QED
    BY <1>1, <1>7, <2>1 DEF Return, request
<1>8. CASE Take \/ Apart \/ UNCHANGED vars
  <2>1. UNCHANGED <<request, task, sent>>
    BY <1>8 DEF Take, Apart, Finish, Abort, Cancel, vars
  <2>2. Said' = Said
    BY <2>1, QuietSays DEF task
  <2> QED
    BY <1>1, <2>1, <2>2 DEF request, task
<1> QED
  BY <1>2, <1>3, <1>4, <1>5, <1>6, <1>7, <1>8, StepKinds, ReadKeepsTold

-----------------------------------------------------------------------------
(* The steps keep the meaning of the terminals *)

\* One more body is said, whose meaning is earned.
LEMMA SaysEarned ==
    ASSUME TypeOK, TerminalsEarned, UNCHANGED <<kind, face>>, token => token',
           NEW b, Said' = Append(Said, b), phase' # "reiniting",
           \/ UNCHANGED read
           \/ \A i \in DOMAIN Said : ~IsTerminal(Said[i]),
           b.type = "result" =>
              /\ read' # <<>> /\ Last(read').type = "result"
              /\ kind = "compile" =>
                    /\ FindArtifact(Last(read').build) # None
                    /\ b.artifact = FindArtifact(Last(read').build),
           b = Failure("cancelled") => token'
    PROVE  TerminalsEarned'
<1>1. Said \in Seq(Bodies) /\ Len(Said) \in Nat
  BY SaidNow, LenProperties
<1>2. /\ DOMAIN Said = 1..Len(Said) /\ DOMAIN Said' = 1..(Len(Said) + 1)
      /\ Said'[Len(Said) + 1] = b
      /\ \A i \in DOMAIN Said : Said'[i] = Said[i]
  BY <1>1, AppendProperties, LenProperties
<1>3. ASSUME NEW i \in DOMAIN Said'
      PROVE  /\ Said'[i].type = "result" =>
                   /\ read' # <<>> /\ Last(read').type = "result"
                   /\ kind' = "compile" =>
                         /\ FindArtifact(Last(read').build) # None
                         /\ Said'[i].artifact = FindArtifact(Last(read').build)
             /\ Said'[i] = Failure("cancelled") => token'
  <2>1. CASE i = Len(Said) + 1
    BY <1>2, <2>1
  <2>2. CASE i \in DOMAIN Said /\ UNCHANGED read
    BY <1>2, <2>2 DEF TerminalsEarned
  <2>3. CASE i \in DOMAIN Said /\ ~IsTerminal(Said[i])
    <3>1. Said'[i].type # "result" /\ ~IsTerminal(Said'[i])
      BY <1>2, <2>3 DEF IsTerminal
    <3>2. Said'[i] # Failure("cancelled")
      BY <3>1, FailureIsTerminal
    <3> QED
      BY <3>1, <3>2
  <2> QED
    BY <1>1, <1>2, <2>1, <2>2, <2>3
<1> QED
  BY <1>3 DEF TerminalsEarned

LEMMA ReadKeepsTerminals ==
    ASSUME TypeOK, TypeOK', Progressing, TerminalsEarned, NEW f \in Offered, Read(f)
    PROVE  TerminalsEarned'
<1>1. read' = Append(read, f) /\ UNCHANGED <<kind, face, token, sent>> /\ phase = "polling"
  BY DEF Read, TaskFrame, request
<1>2. read \in Seq(Offered) /\ kind \in Kinds /\ label \in Labels \cup {""}
  BY DEF TypeOK
<1>3. read' # <<>> /\ Last(read') = f
  <2>1. Len(read) \in Nat /\ Len(Append(read, f)) = Len(read) + 1
        /\ Append(read, f)[Len(read) + 1] = f
    BY <1>2, AppendProperties, LenProperties, ZenonT(30)
  <2>2. Len(read') # 0 /\ read'[Len(read')] = f
    BY <1>1, <2>1
  <2> QED
    BY <2>2 DEF Last
<1>4. PICK n \in Nat \ {0} : n = Len(read) + 1
  <2>1. Len(read) \in Nat
    BY <1>2, LenProperties
  <2> QED
    BY <2>1
<1> DEFINE bodies == Translate(kind, f, n, label)
<1>5. \A i \in DOMAIN Said : ~IsTerminal(Said[i])
  BY <1>1 DEF Progressing
<1>6. CASE bodies # <<>> /\ Prepare(Head(bodies))
  <2>1. PICK b \in Bodies :
           /\ bodies = <<b>>
           /\ b.type = "error" => b.code = "daemon"
           /\ b.type = "result" =>
                 /\ f.type = "result"
                 /\ kind = "compile" => /\ FindArtifact(f.build) # None
                                        /\ b.artifact = FindArtifact(f.build)
    <3>1. f \in Frame
      BY StreamAssumption
    <3>2. kind \in Kinds /\ label \in Labels \cup {""}
      BY <1>2
    <3> HIDE DEF bodies
    <3>3. \/ bodies = <<>>
          \/ \E b \in Bodies :
                /\ bodies = <<b>>
                /\ b.type = "error" => b.code = "daemon"
                /\ b.type = "result" =>
                      /\ f.type = "result"
                      /\ IF kind = "compile"
                         THEN /\ FindArtifact(f.build) # None
                              /\ b.artifact = FindArtifact(f.build)
                         ELSE b.artifact = None
      BY <3>1, <3>2, TranslateShape, ZenonT(30) DEF bodies
    <3> QED
      BY <1>6, <3>3
  <2>2. Prepare(b)
    <3>1. Head(bodies) = b
      BY <2>1
    <3> QED
      BY <1>6, <3>1
  <2>3. Said' = Append(Said, b) /\ phase' = "sending"
    BY <1>1, <2>2, PrepareSays DEF Prepare, Read
  <2>4. b # Failure("cancelled")
    BY <2>1, FailureIsTerminal
  <2> QED
    BY <1>1, <1>3, <1>5, <2>1, <2>3, <2>4, SaysEarned
<1>7. CASE GoTo("polling") \/ (GoTo("reiniting") /\ kind = "install" /\ f.type = "result")
  <2>1. Said' = Said
    BY <1>1, <1>7, QuietSays DEF GoTo
  <2>2. \A i \in DOMAIN Said : Said[i].type # "result" /\ Said[i] # Failure("cancelled")
    BY <1>5, FailureIsTerminal DEF IsTerminal
  <2>3. face' = "http" => kind' = "compile"
    BY <1>1 DEF TerminalsEarned
  <2>4. phase' = "reiniting" =>
           kind' = "install" /\ read' # <<>> /\ Last(read').type = "result"
    BY <1>1, <1>3, <1>7 DEF GoTo
  <2> QED
    BY <2>1, <2>2, <2>3, <2>4 DEF TerminalsEarned
<1> QED
  <2>1. \/ bodies # <<>> /\ Prepare(Head(bodies))
        \/ GoTo("polling") \/ (GoTo("reiniting") /\ kind = "install" /\ f.type = "result")
    <3> HIDE DEF bodies
    <3> QED
      BY <1>4 DEF Read, bodies
  <2> QED
    BY <1>6, <1>7, <2>1

LEMMA KeepsTerminals ==
    ASSUME TypeOK, TypeOK', Progressing, TerminalsEarned, [Next]_vars
    PROVE  TerminalsEarned'
<1>1. ASSUME Said' = Said, UNCHANGED <<kind, face, read>>, token => token',
             phase' = "reiniting" => phase = "reiniting"
      PROVE  TerminalsEarned'
  BY <1>1 DEF TerminalsEarned
<1>2. CASE Receive
  <2>1. Said' = Said
    BY <1>2, QuietSays DEF Receive
  <2> QED
    BY <1>1, <1>2, <2>1 DEF Receive, request
<1>3. CASE Handle
  <2>1. sent = <<>> /\ phase' \in {"over", "writing", "opening"}
        /\ UNCHANGED <<kind, face, read, token>>
    BY <1>3 DEF Handle, Progressing, request
  <2>2. phase # "sending" /\ phase' # "sending"
    BY <1>3, <2>1 DEF Handle
  <2>3. ASSUME NEW code \in Refusals, sent' = <<Failure(code)>>
        PROVE  TerminalsEarned'
    <3>1. Said' = Append(Said, Failure(code))
      <4>1. Said = <<>> /\ Said' = <<Failure(code)>>
        BY <2>1, <2>2, <2>3, SaidNow, SaidNext
      <4> QED
        BY <4>1
    <3>2. Failure(code).type # "result" /\ Failure(code) # Failure("cancelled")
      BY FailureIsTerminal DEF Refusals
    <3> QED
      BY <2>1, <3>1, <3>2, SaysEarned
  <2>4. CASE UNCHANGED sent
    <3>1. Said' = Said
      BY <2>2, <2>4, QuietSays
    <3> QED
      BY <1>1, <2>1, <3>1
  <2> QED
    BY <1>3, <2>3, <2>4 DEF Handle
<1>4. ASSUME NEW b \in Bodies, Concludes(b) PROVE TerminalsEarned'
  <2>1. phase # "sending" /\ UNCHANGED <<kind, face, read, token>> /\ phase' = "sending"
    BY <1>4 DEF Concludes, Working, TaskFrame, request, Prepare
  <2>2. Said' = Append(Said, b)
    BY <1>4, <2>1, PrepareSays DEF Concludes
  <2>3. b.type = "result" => kind = "install" /\ read # <<>> /\ Last(read).type = "result"
    BY <1>4 DEF Concludes, TerminalsEarned
  <2>4. b = Failure("cancelled") => token
    BY <1>4 DEF Concludes
  <2> QED
    BY <2>1, <2>2, <2>3, <2>4, SaysEarned
<1>5. CASE Moves
  <2>1. Said' = Said
    BY <1>5, QuietSays DEF Moves, TaskFrame, Working
  <2> QED
    BY <1>1, <1>5, <2>1 DEF Moves, TaskFrame, request, Working
<1>6. CASE Send
  BY <1>1, <1>6, SendSays DEF Send, request
<1>7. CASE Return
  <2>1. Said' = Said
    BY <1>7, QuietSays DEF Return, GoTo
  <2> QED
    BY <1>1, <1>7, <2>1 DEF Return, request, GoTo
<1>8. CASE Take \/ Apart \/ UNCHANGED vars
  <2>1. UNCHANGED <<request, task, sent>>
    BY <1>8 DEF Take, Apart, Finish, Abort, Cancel, vars
  <2>2. token => token'
    <3>1. CASE Take \/ Cancel \/ UNCHANGED vars
      BY <3>1 DEF Take, Cancel, vars
    <3>2. CASE Finish
      BY <3>2, Zenon DEF Finish
    <3>3. CASE Abort
      BY <3>3, Zenon DEF Abort
    <3> QED
      BY <1>8, <3>1, <3>2, <3>3 DEF Apart
  <2>3. Said' = Said
    BY <2>1, QuietSays DEF task
  <2> QED
    BY <1>1, <2>1, <2>2, <2>3 DEF request, task
<1> QED
  BY <1>2, <1>3, <1>4, <1>5, <1>6, <1>7, <1>8, StepKinds, ReadKeepsTerminals

-----------------------------------------------------------------------------
(* The steps keep what the reader has *)

\* A refusal reaches the browser as it is.
LEMMA FailureIsItsLine ==
    ASSUME NEW code PROVE WithArtifactBytes(Failure(code)) = {Failure(code)}
BY FailureIsTerminal DEF WithArtifactBytes

\* What the reader has is not disturbed by what is sent later.
LEMMA KeepsReading ==
    ASSUME TypeOK, TypeOK', Progressing, Reading, DeliveredInOrder, [Next]_vars
    PROVE  Reading'
<1>0. /\ sent \in Seq(Bodies) /\ channel \in Seq(Bodies) /\ lines \in Seq(Lines)
      /\ Len(sent) \in Nat /\ Len(channel) \in Nat /\ Len(lines) \in Nat
      /\ phase = "sending" => pending \in Bodies
  <2>1. sent \in Seq(Bodies) /\ channel \in Seq(Bodies) /\ lines \in Seq(Lines)
        /\ (phase = "sending" => pending \in Bodies)
    BY DEF TypeOK
  <2> QED
    BY <2>1, LenProperties
<1>1. ASSUME UNCHANGED <<face, body, lines, channel, sent>>,
             phase' \in {"idle", "received"} <=> phase \in {"idle", "received"},
             phase = "over" => phase' = "over"
      PROVE  Reading'
  BY <1>1 DEF Reading, WithArtifactBytes
<1>2. CASE Receive
  BY <1>1, <1>2 DEF Receive, request, reader
<1>3. CASE Handle
  <2>1. sent = <<>> /\ lines = <<>> /\ channel = <<>> /\ channel' = <<>> /\ face' = face
    BY <1>3 DEF Handle, Progressing, Reading, request
  <2>2. ASSUME NEW code \in Refusals, sent' = <<Failure(code)>>, lines' = <<Failure(code)>>,
               phase' = "over", body' = "complete"
        PROVE  Reading'
    <3>1. \A i \in DOMAIN lines' : lines'[i] = Failure(code) /\ sent'[i] = Failure(code)
      BY <2>2
    <3>2. \A i \in DOMAIN lines' : lines'[i] \in WithArtifactBytes(sent[i])'
      <4>1. WithArtifactBytes(Failure(code))' = {Failure(code)}
        BY FailureIsTerminal DEF WithArtifactBytes
      <4> QED
        BY <3>1, <4>1 DEF WithArtifactBytes
    <3>3. Len(lines') + Len(channel') <= Len(sent')
      BY <2>1, <2>2
    <3> QED
      BY <2>1, <2>2, <3>2, <3>3 DEF Reading
  <2>3. ASSUME UNCHANGED <<sent, lines>>, body' = "open", phase' \in {"writing", "opening"}
        PROVE  Reading'
    BY <1>0, <2>1, <2>3 DEF Reading
  <2> QED
    BY <1>3, <2>2, <2>3 DEF Handle
<1>4. CASE Moves \/ (\E b \in Bodies : Concludes(b)) \/ (\E f \in Offered : Read(f))
  <2>1. UNCHANGED <<face, body, lines, channel, sent>> /\ phase \in Working
    BY <1>4 DEF Moves, Concludes, Read, TaskFrame, request, reader, Working
  <2>2. phase' \notin {"idle", "received"}
    BY <1>4 DEF Moves, Concludes, Read, Prepare, GoTo, Working
  <2> QED
    BY <1>1, <2>1, <2>2 DEF Working
<1>5. CASE Send
  <2>1. /\ UNCHANGED <<face, body, lines>> /\ phase = "sending"
        /\ sent' = Append(sent, pending)
        /\ channel' = IF body = "open" THEN Append(channel, pending) ELSE channel
        /\ phase' \in {"reading", "returned"}
    BY <1>5 DEF Send, request, reader
  <2>2. /\ Len(sent') = Len(sent) + 1 /\ Len(channel') <= Len(channel) + 1
        /\ \A i \in DOMAIN sent : sent'[i] = sent[i]
    BY <1>0, <2>1, AppendProperties, LenProperties
  <2>3. \A i \in DOMAIN lines' : i \in DOMAIN lines /\ i \in DOMAIN sent
    BY <1>0, <2>1 DEF Reading
  <2>4. \A i \in DOMAIN lines' : lines'[i] \in WithArtifactBytes(sent[i])'
    BY <2>1, <2>2, <2>3 DEF Reading, WithArtifactBytes
  <2>5. Len(lines') + Len(channel') <= Len(sent')
    <3>1. CASE body = "open"
      <4>1. Len(channel') = Len(channel) + 1
        BY <1>0, <2>1, <3>1, AppendProperties
      <4> QED
        BY <1>0, <2>1, <2>2, <4>1 DEF Reading
    <3>2. CASE body # "open"
      BY <1>0, <2>1, <2>2, <3>2 DEF Reading
    <3> QED
      BY <3>1, <3>2
  <2> QED
    BY <2>1, <2>4, <2>5 DEF Reading
<1>6. CASE Return
  BY <1>1, <1>6 DEF Return, GoTo, request, reader
<1>7. CASE Take
  <2>1. PICK b \in WithArtifactBytes(Head(channel)) : lines' = Append(lines, b)
    BY <1>7 DEF Take
  <2>2. /\ body = "open" /\ channel # <<>> /\ channel' = Tail(channel)
        /\ UNCHANGED <<face, phase, sent, body>>
    BY <1>7 DEF Take, request, task
  <2>3. Len(channel) > 0 /\ Len(channel') = Len(channel) - 1
    BY <1>0, <2>2, EmptySeq, HeadTailProperties
  <2>4. /\ Len(lines') = Len(lines) + 1 /\ lines'[Len(lines) + 1] = b
        /\ \A i \in DOMAIN lines : lines'[i] = lines[i]
        /\ \A i \in DOMAIN lines' : i \in DOMAIN lines \/ i = Len(lines) + 1
    <3>1. Append(lines, b) \in Seq(Lines \cup {b})
      BY <1>0
    <3> QED
      BY <1>0, <2>1
  <2>5. Head(channel) = sent[Len(lines) + 1]
    <3>1. 1 \in DOMAIN channel /\ channel[1] = Head(channel)
      BY <1>0, <2>3
    <3> QED
      BY <2>2, <3>1 DEF DeliveredInOrder
  <2>6. \A i \in DOMAIN lines' : lines'[i] \in WithArtifactBytes(sent[i])
    BY <2>1, <2>4, <2>5 DEF Reading
  <2>7. \A i \in DOMAIN lines' : lines'[i] \in WithArtifactBytes(sent[i])'
    BY <2>2, <2>6 DEF WithArtifactBytes
  <2> QED
    BY <1>0, <2>2, <2>3, <2>4, <2>7 DEF Reading
<1>8. CASE Apart
  <2>1. /\ UNCHANGED <<face, phase, sent, lines>> /\ body \in {body', "open"}
        /\ body' \in {body, "complete", "aborted"} /\ channel' \in {channel, <<>>}
        /\ body' # "open" => channel' = <<>>
        /\ body' = "complete" => phase = "over"
        /\ body = "none" => body' = "none"
        /\ body' = "none" => body = "none"
    BY <1>8 DEF Apart, Finish, Abort, Cancel, request, task, reader, Reading
  <2>2. Len(lines') + Len(channel') <= Len(sent')
    BY <1>0, <2>1, EmptySeq DEF Reading
  <2> QED
    BY <2>1, <2>2 DEF Reading, WithArtifactBytes
<1>9. CASE UNCHANGED vars
  BY <1>1, <1>9 DEF vars, request, task, reader
<1> QED
  BY <1>2, <1>3, <1>4, <1>5, <1>6, <1>7, <1>8, <1>9, StepKinds

\* What waits in the channel are the last of what was sent.
LEMMA KeepsDelivered ==
    ASSUME TypeOK, TypeOK', Progressing, Reading, DeliveredInOrder, [Next]_vars
    PROVE  DeliveredInOrder'
<1>0. /\ sent \in Seq(Bodies) /\ channel \in Seq(Bodies) /\ lines \in Seq(Lines)
      /\ Len(sent) \in Nat /\ Len(channel) \in Nat /\ Len(lines) \in Nat
      /\ phase = "sending" => pending \in Bodies
  <2>1. sent \in Seq(Bodies) /\ channel \in Seq(Bodies) /\ lines \in Seq(Lines)
        /\ (phase = "sending" => pending \in Bodies)
    BY DEF TypeOK
  <2> QED
    BY <2>1, LenProperties
<1>1. ASSUME UNCHANGED <<body, lines, channel, sent>> PROVE DeliveredInOrder'
  BY <1>1 DEF DeliveredInOrder
<1>2. CASE Handle
  <2>1. sent = <<>> /\ lines = <<>> /\ channel = <<>> /\ channel' = <<>>
    BY <1>2 DEF Handle, Progressing, Reading
  <2>2. ASSUME NEW code \in Refusals, sent' = <<Failure(code)>>, lines' = <<Failure(code)>>,
               body' = "complete"
        PROVE  DeliveredInOrder'
    BY <2>1, <2>2 DEF DeliveredInOrder
  <2>3. ASSUME UNCHANGED <<sent, lines>>, body' = "open"
        PROVE  DeliveredInOrder'
    BY <2>1, <2>3 DEF DeliveredInOrder
  <2> QED
    BY <1>2, <2>2, <2>3 DEF Handle
<1>3. CASE Send
  <2>1. /\ UNCHANGED <<body, lines>> /\ phase = "sending"
        /\ sent' = Append(sent, pending)
        /\ channel' = IF body = "open" THEN Append(channel, pending) ELSE channel
    BY <1>3 DEF Send, reader
  <2>2. /\ Len(sent') = Len(sent) + 1 /\ sent'[Len(sent) + 1] = pending
        /\ \A i \in 1..Len(sent) : sent'[i] = sent[i]
    BY <1>0, <2>1, AppendProperties, LenProperties
  <2>3. \A i \in DOMAIN lines' : sent'[i].type # "result" => lines'[i] = sent'[i]
    <3>1. \A i \in DOMAIN lines : i \in 1..Len(sent)
      BY <1>0 DEF Reading
    <3> QED
      BY <2>1, <2>2, <3>1 DEF DeliveredInOrder
  <2>4. CASE body = "open"
    <3>1. /\ Len(channel') = Len(channel) + 1 /\ channel'[Len(channel) + 1] = pending
          /\ \A i \in 1..Len(channel) : channel'[i] = channel[i]
      BY <1>0, <2>1, <2>4, AppendProperties, LenProperties
    <3>2. Len(lines) + Len(channel) = Len(sent)
          /\ \A i \in 1..Len(channel) : channel[i] = sent[Len(lines) + i]
      BY <1>0, <2>4 DEF DeliveredInOrder
    <3>3. /\ Len(lines) \in Nat /\ Len(channel) \in Nat /\ Len(sent) \in Nat
          /\ Len(lines) + Len(channel) = Len(sent)
      BY <1>0, <3>2, LenProperties
    <3>4. Len(lines') + Len(channel') = Len(sent')
      BY <2>1, <2>2, <3>1, <3>3
    <3>5. DOMAIN channel' = 1..(Len(channel) + 1)
      BY <1>0, <2>1, <2>4, AppendProperties, LenProperties
    <3>6. ASSUME NEW i \in DOMAIN channel' PROVE channel'[i] = sent'[Len(lines) + i]
      <4>1. CASE i \in 1..Len(channel)
        <5>1. Len(lines) + i \in 1..Len(sent)
          BY <1>0, <3>2, <4>1
        <5> QED
          BY <2>2, <3>1, <3>2, <4>1, <5>1
      <4>2. CASE i = Len(channel) + 1
        <5>1. Len(lines) + i = Len(sent) + 1
          BY <3>3, <4>2
        <5> QED
          BY <2>2, <3>1, <4>2, <5>1
      <4> QED
        BY <1>0, <3>5, <3>6, <4>1, <4>2
    <3> QED
      BY <2>1, <2>3, <3>4, <3>6 DEF DeliveredInOrder
  <2>5. CASE body # "open"
    BY <2>1, <2>3, <2>5 DEF DeliveredInOrder, Reading
  <2> QED
    BY <2>4, <2>5
<1>4. CASE Take
  <2>1. PICK b \in WithArtifactBytes(Head(channel)) : lines' = Append(lines, b)
    BY <1>4 DEF Take
  <2>2. /\ body = "open" /\ channel # <<>> /\ channel' = Tail(channel)
        /\ UNCHANGED <<sent, body>>
    BY <1>4 DEF Take
  <2>3. /\ Len(channel) > 0 /\ Len(channel') = Len(channel) - 1
        /\ \A i \in 1..Len(channel') : channel'[i] = channel[i + 1]
        /\ 1 \in DOMAIN channel /\ channel[1] = Head(channel)
    BY <1>0, <2>2, EmptySeq, HeadTailProperties
  <2>4. /\ Len(lines') = Len(lines) + 1 /\ lines'[Len(lines) + 1] = b
        /\ \A i \in DOMAIN lines : lines'[i] = lines[i]
        /\ \A i \in DOMAIN lines' : i \in DOMAIN lines \/ i = Len(lines) + 1
    <3>1. Append(lines, b) \in Seq(Lines \cup {b})
      BY <1>0
    <3> QED
      BY <1>0, <2>1
  <2>5. Len(lines) + Len(channel) = Len(sent)
        /\ \A i \in 1..Len(channel) : channel[i] = sent[Len(lines) + i]
    <3>1. DOMAIN channel = 1..Len(channel)
      BY <1>0, LenProperties
    <3> QED
      BY <2>2, <3>1 DEF DeliveredInOrder
  <2>6. Len(lines') + Len(channel') = Len(sent')
    BY <1>0, <2>2, <2>3, <2>4, <2>5
  <2>7. ASSUME NEW i \in 1..Len(channel') PROVE channel'[i] = sent[Len(lines') + i]
    <3>1. channel'[i] = channel[i + 1] /\ i + 1 \in 1..Len(channel)
      BY <1>0, <2>3
    <3>2. Len(lines) + (i + 1) = Len(lines') + i
      BY <1>0, <2>4
    <3> QED
      BY <2>5, <3>1, <3>2
  <2>8. ASSUME NEW i \in DOMAIN lines', sent[i].type # "result" PROVE lines'[i] = sent[i]
    <3>1. CASE i \in DOMAIN lines
      BY <2>4, <2>8, <3>1 DEF DeliveredInOrder
    <3>2. CASE i = Len(lines) + 1
      <4>1. sent[i] = Head(channel)
        BY <2>3, <2>5, <3>2
      <4> QED
        BY <2>1, <2>4, <2>8, <3>2, <4>1 DEF WithArtifactBytes
    <3> QED
      BY <2>4, <2>8, <3>1, <3>2
  <2>9. DOMAIN channel' = 1..Len(channel')
    BY <1>0, <2>2, HeadTailProperties, LenProperties
  <2> QED
    BY <2>2, <2>6, <2>7, <2>8, <2>9 DEF DeliveredInOrder
<1>5. CASE Finish
  BY <1>5 DEF Finish, DeliveredInOrder, reader
<1>6. CASE Abort
  BY <1>6 DEF Abort, DeliveredInOrder
<1>7. CASE Receive \/ Moves \/ (\E b \in Bodies : Concludes(b)) \/ (\E f \in Offered : Read(f))
           \/ Return \/ Cancel \/ UNCHANGED vars
  <2>1. UNCHANGED <<body, lines, channel, sent>>
    BY <1>7 DEF Receive, Moves, Concludes, Read, TaskFrame, Return, Cancel, vars, reader
  <2> QED
    BY <1>1, <2>1
<1> QED
  BY <1>2, <1>3, <1>4, <1>5, <1>6, <1>7, StepKinds DEF Apart

-----------------------------------------------------------------------------
(* The theorems *)

LEMMA InitStreamInv == Init => StreamInv
<1> SUFFICES ASSUME Init PROVE StreamInv
  OBVIOUS
<1>1. TypeOK
  <2>1. /\ <<>> \in Seq(Offered) /\ <<>> \in Seq(Bodies) /\ <<>> \in Seq(Lines)
        /\ Len(<<>>) <= Capacity
    BY StreamAssumption
  <2> QED
    BY <2>1 DEF Init, TypeOK, Phases
<1>2. Said = <<>> /\ read = <<>>
  <2>1. Said = sent
    BY <1>1, SaidNow DEF Init
  <2> QED
    BY <2>1 DEF Init
<1>3. LabelCarried
  <2>1. Len(read) = 0 /\ label = ""
    BY <1>2 DEF Init
  <2>2. {i \in 1..0 : read[i].type = "start"} = {}
    OBVIOUS
  <2>3. LabelAt(read, 0) = ""
    BY <2>2 DEF LabelAt
  <2> QED
    BY <2>1, <2>3 DEF LabelCarried
<1>4. Progressing /\ ToldOnceInOrder /\ TerminalsEarned
  <2>1. DOMAIN Said = {} /\ DOMAIN read = {}
    BY <1>2
  <2> QED
    BY <2>1 DEF Init, Progressing, ToldOnceInOrder, TerminalsEarned
<1>5. Reading /\ DeliveredInOrder
  <2>1. lines = <<>> /\ channel = <<>> /\ sent = <<>> /\ body = "none" /\ phase = "idle"
    BY DEF Init
  <2>2. DOMAIN lines = {} /\ DOMAIN channel = {} /\ Len(lines) + Len(channel) <= Len(sent)
    BY <2>1
  <2> QED
    BY <2>1, <2>2 DEF Reading, DeliveredInOrder
<1> QED
  BY <1>1, <1>3, <1>4, <1>5 DEF StreamInv

LEMMA NextStreamInv == StreamInv /\ [Next]_vars => StreamInv'
<1> SUFFICES ASSUME StreamInv, [Next]_vars PROVE StreamInv'
  OBVIOUS
<1> USE DEF StreamInv
<1>1. TypeOK'
  BY NextTypes
<1>2. Progressing' /\ LabelCarried'
  BY <1>1, KeepsProgressing, KeepsLabel
<1>3. ToldOnceInOrder' /\ TerminalsEarned'
  BY <1>1, KeepsTold, KeepsTerminals
<1>4. Reading' /\ DeliveredInOrder'
  BY <1>1, KeepsReading, KeepsDelivered
<1> QED
  BY <1>1, <1>2, <1>3, <1>4

LEMMA StreamInvariant == Spec => []StreamInv
BY InitStreamInv, NextStreamInv, PTL DEF Spec

\* Every variable of a streamed request keeps its range, and its channel never
\* exceeds RESPONSE_CHANNEL_CAPACITY.
THEOREM StreamTypes == Spec => []TypeOK
<1>1. StreamInv => TypeOK
  BY DEF StreamInv
<1> QED
  BY <1>1, StreamInvariant, PTL

\* Whatever the daemon sends, however long: the browser is told each message
\* once, in order, under its own label, nothing after the terminal, and gets
\* what it was told (bridge.rs).
THEOREM StreamFaithful == Spec => []StreamIsFaithful
<1>1. StreamInv => StreamIsFaithful
  BY DEF StreamInv, StreamIsFaithful
<1> QED
  BY <1>1, StreamInvariant, PTL

\* A body that is sent is one that is said.
LEMMA SentIsSaid ==
    ASSUME TypeOK, NEW i \in DOMAIN sent
    PROVE  i \in DOMAIN Said /\ Said[i] = sent[i] /\ sent[i] \in Bodies
<1>1. sent \in Seq(Bodies) /\ (phase = "sending" => pending \in Bodies)
  BY DEF TypeOK
<1> QED
  BY <1>1, SaidNow, AppendProperties, LenProperties

\* A result told to the browser is the daemon's last word, names what the compile
\* left, and brings the cloud's browser all the images of it (bridge.rs and the
\* with_artifact_bytes of compile.rs).
THEOREM ResultsComplete == Spec => []ImagesWhole
<1>1. ASSUME StreamInv PROVE ImagesWhole
  <2> SUFFICES ASSUME NEW i \in DOMAIN lines, lines[i].type = "result"
               PROVE  /\ Last(read).type = "result"
                      /\ kind = "compile" => sent[i].artifact = FindArtifact(Last(read).build)
                      /\ face = "http" =>
                            /\ lines[i].bytes \in {{"hex"}, {"app"}, EspImages}
                            /\ lines[i].bytes \subseteq Last(read).build
                            /\ EspImages \cup {"address"} \subseteq Last(read).build
                                  => lines[i].bytes # {"app"}
    BY DEF ImagesWhole
  <2>1. i \in DOMAIN sent
    <3>1. sent \in Seq(Bodies) /\ channel \in Seq(Bodies) /\ lines \in Seq(Lines)
      BY <1>1 DEF StreamInv, TypeOK
    <3>2. Len(lines) \in Nat /\ Len(channel) \in Nat /\ Len(sent) \in Nat
          /\ DOMAIN lines = 1..Len(lines) /\ DOMAIN sent = 1..Len(sent)
      BY <3>1, LenProperties
    <3>3. Len(lines) + Len(channel) <= Len(sent)
      BY <1>1 DEF StreamInv, Reading
    <3> QED
      BY <3>2, <3>3
  <2>2. i \in DOMAIN Said /\ Said[i] = sent[i]
    BY <1>1, <2>1, SentIsSaid DEF StreamInv
  <2>3. lines[i] \in WithArtifactBytes(sent[i])
    BY <1>1 DEF StreamInv, Reading
  <2>4. sent[i].type = "result"
    BY <2>3, FailureIsTerminal DEF WithArtifactBytes
  <2>5. /\ read # <<>> /\ Last(read).type = "result"
        /\ kind = "compile" => /\ FindArtifact(Last(read).build) # None
                               /\ sent[i].artifact = FindArtifact(Last(read).build)
    BY <1>1, <2>2, <2>4 DEF StreamInv, TerminalsEarned
  <2>6. ASSUME face = "http"
        PROVE  /\ lines[i].bytes \in {{"hex"}, {"app"}, EspImages}
               /\ lines[i].bytes \subseteq Last(read).build
               /\ EspImages \cup {"address"} \subseteq Last(read).build
                     => lines[i].bytes # {"app"}
    <3>1. kind = "compile"
      BY <1>1, <2>6 DEF StreamInv, TerminalsEarned
    <3>2. lines[i].bytes = Images(sent[i].artifact)
      BY <2>3, <2>4, <2>6, FailureIsTerminal DEF WithArtifactBytes
    <3>3. Last(read) \in Frame
      <4>1. read \in Seq(Offered)
        BY <1>1 DEF StreamInv, TypeOK
      <4>2. Len(read) \in 1..Len(read)
        BY <2>5, <4>1, EmptySeq
      <4> QED
        BY <4>1, <4>2, ElementOfSeq, StreamAssumption DEF Last
    <3>4. Last(read).build \in Builds
      BY <2>5, <3>3 DEF Frame
    <3> QED
      BY <2>5, <3>1, <3>2, <3>4, ArtifactOfBuild
  <2> QED
    BY <2>5, <2>6
<1> QED
  BY <1>1, StreamInvariant, PTL

-----------------------------------------------------------------------------
(* The refinement *)

\* A smallest element is the one that Min chooses.
LEMMA SmallestIsMin ==
    ASSUME NEW S \in SUBSET Int, NEW m \in S, \A i \in S : m <= i
    PROVE  Min(S) = m
<1>1. \A x \in S : (\A y \in S : x <= y) => x = m
  OBVIOUS
<1> QED
  BY <1>1 DEF Min

\* Without a terminal there is no answer; a terminal that comes last is the answer.
LEMMA NoAnswer ==
    ASSUME NEW s, \A i \in DOMAIN s : ~IsTerminal(s[i]) PROVE Answers(s) = <<>>
<1>1. {i \in DOMAIN s : IsTerminal(s[i])} = {}
  OBVIOUS
<1>2. [i \in DOMAIN <<>> |-> Code(<<>>[i])] = <<>>
  OBVIOUS
<1> QED
  BY <1>1, <1>2 DEF Answers

LEMMA LastAnswer ==
    ASSUME NEW s \in Seq(Bodies), \A i \in DOMAIN s : ~IsTerminal(s[i]),
           NEW b \in Bodies, IsTerminal(b)
    PROVE  Answers(Append(s, b)) = <<Code(b)>>
<1> DEFINE t == Append(s, b)
           n == Len(s) + 1
           ends == {i \in DOMAIN t : IsTerminal(t[i])}
<1>1. /\ n \in Nat \ {0} /\ t \in Seq(Bodies) /\ Len(t) = n /\ DOMAIN t = 1..n /\ t[n] = b
      /\ \A i \in DOMAIN s : t[i] = s[i]
      /\ \A i \in DOMAIN t : i \in DOMAIN s \/ i = n
  BY AppendProperties, LenProperties
<1> HIDE DEF t, n
<1>2. ends = {n}
  <2>1. n \in ends
    BY <1>1
  <2>2. \A i \in ends : i = n
    BY <1>1
  <2> QED
    BY <2>1, <2>2
<1>3. Min(ends) = n
  <2>1. ends \in SUBSET Int /\ n \in ends /\ \A i \in ends : n <= i
    BY <1>1, <1>2
  <2> HIDE DEF ends
  <2> QED
    BY <2>1, SmallestIsMin
<1>4. SubSeq(t, n, n) = <<b>>
  <2>1. /\ SubSeq(t, n, n) \in Seq(Bodies) /\ Len(SubSeq(t, n, n)) = 1
        /\ SubSeq(t, n, n)[1] = t[n]
    <3>1. n \in Int /\ (\A i \in n..n : t[i] \in Bodies) /\ n - n + 1 = 1 /\ n + 1 - 1 = n
      BY <1>1
    <3>2. /\ SubSeq(t, n, n) \in Seq(Bodies)
          /\ Len(SubSeq(t, n, n)) = IF n <= n THEN n - n + 1 ELSE 0
          /\ \A i \in 1 .. n - n + 1 : SubSeq(t, n, n)[i] = t[n + i - 1]
      BY <3>1, SubSeqProperties
    <3> QED
      BY <3>1, <3>2
  <2> HIDE DEF ends
  <2>2. <<b>> \in Seq(Bodies) /\ Len(<<b>>) = 1 /\ <<b>>[1] = b
    OBVIOUS
  <2> DEFINE u == SubSeq(t, n, n)
             v == <<b>>
  <2>3. /\ u \in Seq(Bodies) /\ v \in Seq(Bodies) /\ Len(u) = Len(v)
        /\ \A i \in 1..Len(u) : u[i] = v[i]
    BY <1>1, <2>1, <2>2
  <2> HIDE DEF u, v
  <2>4. u = v
    BY <2>3, SeqEqual
  <2> QED
    BY <2>4 DEF u, v
<1>5. [i \in DOMAIN <<b>> |-> Code(<<b>>[i])] = <<Code(b)>>
  OBVIOUS
<1>6. Answers(t) = [i \in DOMAIN <<b>> |-> Code(<<b>>[i])]
  BY <1>1, <1>2, <1>3, <1>4 DEF Answers
<1> QED
  BY <1>5, <1>6 DEF t

\* While a body is said that has not been sent, no terminal has been.
LEMMA TerminalComesLast ==
    ASSUME TypeOK, Progressing, phase = "sending" \/ sent = <<>>
    PROVE  \A i \in DOMAIN sent : ~IsTerminal(sent[i])
<1> SUFFICES ASSUME phase = "sending", NEW i \in DOMAIN sent PROVE ~IsTerminal(sent[i])
  OBVIOUS
<1>1. sent \in Seq(Bodies) /\ pending \in Bodies
  BY DEF TypeOK
<1>2. i \in DOMAIN Said /\ Said[i] = sent[i]
  BY SentIsSaid
<1>3. Len(Said) = Len(sent) + 1 /\ i # Len(sent) + 1
  BY <1>1, SaidNow, AppendProperties, LenProperties
<1> QED
  BY <1>2, <1>3 DEF Progressing

\* A terminal that says `cancelled` is that failure.
LEMMA CodeCancelled ==
    ASSUME NEW b \in Bodies, IsTerminal(b)
    PROVE  Code(b) \in Codes /\ (Code(b) = "cancelled" => b = Failure("cancelled"))
<1>1. CASE b.type = "error"
  <2>1. b \in [type : {"error"}, code : Codes]
    BY <1>1 DEF Bodies
  <2> QED
    BY <1>1, <2>1 DEF Code, Failure
<1>2. CASE b.type = "result"
  BY <1>2 DEF Code, Codes
<1> QED
  BY <1>1, <1>2 DEF IsTerminal

\* A body b is sent where nothing terminal was: an answer, if b is one.
LEMMA SendingAnswers ==
    ASSUME TypeOK, \A i \in DOMAIN sent : ~IsTerminal(sent[i]),
           NEW b \in Bodies, sent' = Append(sent, b), phase # "idle", phase' # "idle",
           UNCHANGED token, b = Failure("cancelled") => token
    PROVE  Replies!Answer("this") \/ UNCHANGED Replies!vars
<1>1. sent \in Seq(Bodies)
  BY DEF TypeOK
<1>2. Answers(sent) = <<>>
  BY NoAnswer
<1>3. CASE IsTerminal(b)
  <2>1. Answers(sent') = <<Code(b)>>
    BY <1>1, <1>3, LastAnswer
  <2>2. Code(b) \in Codes /\ (Code(b) = "cancelled" => token)
    BY <1>3, CodeCancelled
  <2>3. Replies!Pending("this")
    BY <1>2 DEF Replies!Pending
  <2> QED
    BY <2>1, <2>2, <2>3 DEF Replies!Answer
<1>4. CASE ~IsTerminal(b)
  <2>1. \A i \in DOMAIN sent' : ~IsTerminal(sent'[i])
    BY <1>1, <1>4, AppendProperties, LenProperties
  <2>2. Answers(sent') = <<>>
    BY <2>1, NoAnswer
  <2> QED
    BY <1>2, <2>2 DEF Replies!vars
<1> QED
  BY <1>3, <1>4

\* Every step of a streamed request is a step of RequestReply or leaves it alone.
LEMMA ReplyStep == StreamInv /\ [Next]_vars => [Replies!Next]_(Replies!vars)
<1> SUFFICES ASSUME StreamInv, [Next]_vars
             PROVE  Replies!Next \/ UNCHANGED Replies!vars
  OBVIOUS
<1> USE DEF StreamInv
<1>1. CASE Receive
  <2>1. phase = "idle" /\ phase' = "received" /\ UNCHANGED <<sent, token>>
    BY <1>1 DEF Receive
  <2>2. Replies!Ask("this")
    BY <2>1 DEF Replies!Ask
  <2> QED
    BY <2>2 DEF Replies!Next
<1>2. ASSUME UNCHANGED <<sent, token>>,
             (phase # "idle" /\ phase' # "idle") \/ UNCHANGED phase
      PROVE  UNCHANGED Replies!vars
  BY <1>2 DEF Replies!vars
<1>3. CASE Handle
  <2>1. sent = <<>> /\ phase # "idle" /\ phase' # "idle" /\ UNCHANGED token
    BY <1>3 DEF Handle, Progressing
  <2>2. ASSUME NEW code \in Refusals, sent' = <<Failure(code)>> PROVE Replies!Answer("this") \/ UNCHANGED Replies!vars
    <3>1. Failure(code) \in Bodies /\ Failure(code) # Failure("cancelled")
      BY FailuresAreBodies, FailureIsTerminal DEF Refusals, Codes
    <3>2. sent' = Append(sent, Failure(code))
      BY <2>1, <2>2
    <3> QED
      BY <2>1, <3>1, <3>2, TerminalComesLast, SendingAnswers
  <2>3. CASE UNCHANGED sent
    BY <1>2, <2>1, <2>3
  <2> QED
    BY <1>3, <2>2, <2>3 DEF Handle, Replies!Next
<1>4. CASE Send
  <2>1. /\ phase = "sending" /\ phase' # "idle" /\ UNCHANGED token
        /\ sent' = Append(sent, pending)
    BY <1>4 DEF Send
  <2>2. pending \in Bodies /\ sent \in Seq(Bodies)
    BY <2>1 DEF TypeOK
  <2>3. pending = Failure("cancelled") => token
    <3>1. Len(Said) \in DOMAIN Said /\ Said[Len(Said)] = pending
      BY <2>1, <2>2, SaidNow, AppendProperties, LenProperties
    <3> QED
      BY <3>1 DEF TerminalsEarned
  <2>4. Replies!Answer("this") \/ UNCHANGED Replies!vars
    BY <2>1, <2>2, <2>3, TerminalComesLast, SendingAnswers
  <2> QED
    BY <2>4 DEF Replies!Next
<1>5. CASE Apart
  <2>1. UNCHANGED <<phase, sent>> /\ phase # "idle"
    BY <1>5 DEF Apart, Finish, Abort, Cancel, task, Reading
  <2>2. CASE UNCHANGED token
    BY <1>2, <2>1, <2>2
  <2>3. CASE token # token'
    <3>1. token' = TRUE
      <4>1. token \in BOOLEAN
        BY DEF TypeOK
      <4> QED
        BY <1>5, <2>3, <4>1 DEF Apart, Finish, Abort, Cancel
    <3>2. Replies!Revoke({"this"})
      BY <2>1, <3>1 DEF Replies!Revoke
    <3>3. {"this"} \in SUBSET (IF phase = "idle" THEN {} ELSE {"this"})
      BY <2>1
    <3> QED
      BY <3>2, <3>3 DEF Replies!Next
  <2> QED
    BY <2>2, <2>3
<1>6. CASE Moves \/ (\E b \in Bodies : Concludes(b)) \/ (\E f \in Offered : Read(f))
  <2>1. UNCHANGED <<sent, token>> /\ phase # "idle"
    BY <1>6 DEF Moves, Concludes, Read, TaskFrame, Working
  <2>2. phase' # "idle"
    BY <1>6 DEF Moves, Concludes, Read, Prepare, GoTo, Working
  <2> QED
    BY <1>2, <2>1, <2>2
<1>7. CASE Return \/ Take \/ UNCHANGED vars
  BY <1>2, <1>7 DEF Return, GoTo, Take, vars, task
<1> QED
  BY <1>1, <1>3, <1>4, <1>5, <1>6, <1>7, StepKinds

\* A streamed request implements the safety part of RequestReply, whatever the
\* daemon does: at most one terminal, and nothing after it, and `cancelled` only
\* once its token has been fired (bridge.rs, "exactly one terminal").
THEOREM StreamRepliesRefined == Spec => RepliesSafe
<1>1. Init => Replies!Init
  <2> SUFFICES ASSUME Init PROVE Replies!Init
    OBVIOUS
  <2>1. Answers(sent) = <<>>
    <3>1. sent = <<>>
      BY DEF Init
    <3> QED
      BY <3>1, NoAnswer
  <2> QED
    BY <2>1 DEF Init, Replies!Init
<1> QED
  BY <1>1, ReplyStep, StreamInvariant, PTL DEF Spec, RepliesSafe, Replies!Safe

=============================================================================
