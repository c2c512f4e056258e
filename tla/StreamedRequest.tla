--------------------------- MODULE StreamedRequest ---------------------------
(***************************************************************************)
(* One request whose answer is streamed, from the daemon's messages to the *)
(* browser: the bridge's loop over the translated stream, the bounded      *)
(* channel, and what reads it: the writer of a WebSocket session, or the   *)
(* NDJSON body of a POST /compile of the cloud server, which puts the      *)
(* bytes of the artifact in place of its paths.  The cloud's task owns its *)
(* scratch dir; the body owns the guard that fires the task's token.       *)
(***************************************************************************)
EXTENDS GrpcStreams, SequencesExt

CONSTANTS
    Offered,    \* the messages the daemon may send
    MaxFrames,  \* bound: messages read from one stream
    Capacity    \* RESPONSE_CHANNEL_CAPACITY

ASSUME StreamAssumption ==
    /\ Offered \subseteq Frame
    /\ MaxFrames \in Nat
    /\ Capacity \in Nat \ {0}

Codes == {"result", "daemon", "grpc", "cancelled", "resource", "io", "invalidRequest"}

\* The bodies of the responses.
Bodies == [type : {"log"}, at : Nat \ {0}]
            \cup [type : {"progress"}, at : Nat \ {0}, label : Labels \cup {""}]
            \cup [type : {"result"}, artifact : Artifacts \cup {None}]
            \cup [type : {"error"}, code : Codes]

ASSUME NoneAssumption == None \notin Bodies \cup Artifacts

VARIABLES
    kind, face,  \* the call, and "ws" or "http"
    phase,       \* where the task stands, see Phases
    read,        \* the messages read from the daemon's stream
    label,       \* the label into_events carries along
    pending,     \* the body the task is about to send
    sent,        \* the bodies it has handed over
    channel,     \* those among them that wait to be taken
    lines,       \* what the browser was given
    body,        \* the reader of the channel: "none", "open", "complete", "aborted"
    token,       \* the task's CancellationToken has been fired
    scratch      \* the scratch dir of a cloud compile: "none", "present", "removed"

request == <<kind, face>>
task    == <<phase, read, label, pending>>
reader  == <<lines, body>>
vars    == <<request, task, sent, channel, reader, token, scratch>>

Phases == {"idle", "received", "writing", "opening", "reading", "polling", "sending",
           "reiniting", "returned", "over"}

-----------------------------------------------------------------------------
(* The handler and the task *)

Receive ==
    /\ phase = "idle"
    /\ phase' = "received"
    /\ UNCHANGED <<request, read, label, pending, sent, channel, reader, token, scratch>>

\* What a request is refused with before a task is spawned for it.
Refusals == (IF kind = "install" THEN {} ELSE {"resource", "io"})
              \cup (IF face = "ws" THEN {"invalidRequest"} ELSE {})

\* The handler refuses the request at once, or spawns its task.
Handle ==
    /\ phase = "received"
    /\ \/ /\ \E code \in Refusals :
                sent' = <<Failure(code)>> /\ lines' = <<Failure(code)>>
          /\ phase' = "over" /\ body' = "complete"
          /\ UNCHANGED scratch
       \/ /\ phase' = IF kind = "compile" THEN "writing" ELSE "opening"
          /\ body' = "open"
          /\ scratch' = IF face = "http" THEN "present" ELSE "none"
          /\ UNCHANGED <<sent, lines>>
    /\ UNCHANGED <<request, read, label, pending, channel, token>>

TaskFrame == UNCHANGED <<request, sent, channel, reader, token, scratch>>

GoTo(ph) == phase' = ph /\ UNCHANGED pending

\* The next thing the task does is to send b.
Prepare(b) == phase' = "sending" /\ pending' = b

WriteSketch ==
    /\ phase = "writing"
    /\ GoTo("opening") \/ Prepare(Failure("io"))
    /\ UNCHANGED <<read, label>>
    /\ TaskFrame

\* The call; the token is not looked at.
Open ==
    /\ phase = "opening"
    /\ GoTo("reading") \/ Prepare(Failure("grpc"))
    /\ UNCHANGED <<read, label>>
    /\ TaskFrame

\* A poll of the biased select!: the token is looked at first.  The poll of the
\* stream that follows may read several messages, while the token may fire.
Poll ==
    /\ phase = "reading" /\ ~token
    /\ GoTo("polling")
    /\ UNCHANGED <<read, label>>
    /\ TaskFrame

ObserveCancel ==
    /\ phase = "reading" /\ token
    /\ Prepare(Failure("cancelled"))
    /\ UNCHANGED <<read, label>>
    /\ TaskFrame

NothingYet ==
    /\ phase = "polling"
    /\ GoTo("reading")
    /\ UNCHANGED <<read, label>>
    /\ TaskFrame

\* A message is read and translated.  One that becomes nothing leaves the stream
\* to its next message; an install's result has to reinitialize the daemon.
Read(f) ==
    /\ phase = "polling"
    /\ Len(read) < MaxFrames /\ f.type \in Speaks(kind)
    /\ read' = Append(read, f)
    /\ label' = LabelAfter(f, label)
    /\ LET bodies == Translate(kind, f, Len(read) + 1, label)
       IN  IF bodies = <<>> THEN GoTo("polling")
           ELSE IF kind = "install" /\ f.type = "result" THEN GoTo("reiniting")
           ELSE Prepare(Head(bodies))
    /\ TaskFrame

StreamOverSilently ==
    /\ phase = "polling"
    /\ GoTo("returned")
    /\ UNCHANGED <<read, label>>
    /\ TaskFrame

\* The stream ends without a result, or breaks.
StreamOver ==
    /\ phase = "polling"
    /\ \E code \in {"daemon", "grpc"} : Prepare(Failure(code))
    /\ UNCHANGED <<read, label>>
    /\ TaskFrame

Reinit ==
    /\ phase = "reiniting"
    /\ Prepare(Result(None)) \/ Prepare(Failure("grpc"))
    /\ UNCHANGED <<read, label>>
    /\ TaskFrame

SendUnbounded ==
    /\ phase = "sending"
    /\ sent' = Append(sent, pending)
    /\ channel' = IF body = "open" THEN Append(channel, pending) ELSE channel
    /\ phase' = IF IsTerminal(pending) THEN "returned" ELSE "reading"
    /\ pending' = None
    /\ UNCHANGED <<request, read, label, reader, token, scratch>>

SendAndReadOn ==
    /\ phase = "sending"
    /\ body = "open" => Len(channel) < Capacity
    /\ sent' = Append(sent, pending)
    /\ channel' = IF body = "open" THEN Append(channel, pending) ELSE channel
    /\ phase' = IF pending.type = "result" THEN "returned" ELSE "reading"
    /\ pending' = None
    /\ UNCHANGED <<request, read, label, reader, token, scratch>>

\* Responder::send waits for room unless the receiver is gone.
Send ==
    /\ phase = "sending"
    /\ body = "open" => Len(channel) < Capacity
    /\ sent' = Append(sent, pending)
    /\ channel' = IF body = "open" THEN Append(channel, pending) ELSE channel
    /\ phase' = IF IsTerminal(pending) THEN "returned" ELSE "reading"
    /\ pending' = None
    /\ UNCHANGED <<request, read, label, reader, token, scratch>>

\* The task ends: its sender and its TempDir are dropped.
Return ==
    /\ phase = "returned"
    /\ GoTo("over")
    /\ scratch' = IF scratch = "present" THEN "removed" ELSE scratch
    /\ UNCHANGED <<request, read, label, sent, channel, reader, token>>

Task == \/ WriteSketch \/ Open \/ Poll \/ ObserveCancel \/ NothingYet
        \/ \E f \in Offered : Read(f)
        \/ StreamOver \/ Reinit \/ Send \/ Return

-----------------------------------------------------------------------------
(* The reader of the channel *)

\* The images an artifact names.
Images(artifact) == artifact.parts \cup {artifact.main}

WithReadableBytes(b) ==
    IF face = "http" /\ b.type = "result"
    THEN {[type |-> "result", artifact |-> b.artifact, bytes |-> found] :
             found \in SUBSET Images(b.artifact)}
    ELSE {b}

\* with_artifact_bytes: the cloud's browser gets the bytes of every image of a
\* result, or an error if one of them cannot be read.
WithArtifactBytes(b) ==
    IF face = "http" /\ b.type = "result"
    THEN {[type |-> "result", artifact |-> b.artifact, bytes |-> Images(b.artifact)],
          Failure("io")}
    ELSE {b}

Take ==
    /\ body = "open" /\ channel # <<>>
    /\ \E b \in WithArtifactBytes(Head(channel)) : lines' = Append(lines, b)
    /\ channel' = Tail(channel)
    /\ UNCHANGED <<request, task, sent, body, token, scratch>>

\* recv() returns None.  A body that ends drops its guard.
Finish ==
    /\ body = "open" /\ channel = <<>> /\ phase = "over"
    /\ body' = "complete"
    /\ token' = (token \/ face = "http")
    /\ UNCHANGED <<request, task, sent, channel, lines, scratch>>

Reader == Take \/ Finish

AbortUnguarded ==
    /\ body = "open"
    /\ body' = "aborted" /\ channel' = <<>>
    /\ UNCHANGED <<request, task, sent, lines, token, scratch>>

\* The browser goes away: the receiver is dropped.  The cloud's body fires the
\* token with it; a session does so later, see FlashTasks.
Abort ==
    /\ body = "open"
    /\ body' = "aborted" /\ channel' = <<>>
    /\ token' = (token \/ face = "http")
    /\ UNCHANGED <<request, task, sent, lines, scratch>>

\* A cancel message, or the end of the session.
Cancel ==
    /\ face = "ws" /\ phase \notin {"idle", "received"} /\ ~token
    /\ token' = TRUE
    /\ UNCHANGED <<request, task, sent, channel, reader, scratch>>

-----------------------------------------------------------------------------
(* Specification *)

Init ==
    /\ kind \in Kinds /\ face \in {"ws", "http"}
    /\ face = "http" => kind = "compile"
    /\ phase = "idle" /\ read = <<>> /\ label = "" /\ pending = None
    /\ sent = <<>> /\ channel = <<>>
    /\ lines = <<>> /\ body = "none"
    /\ token = FALSE /\ scratch = "none"

Terminated == phase = "over" /\ body \in {"complete", "aborted"} /\ UNCHANGED vars

Next == Receive \/ Handle \/ Task \/ Reader \/ Abort \/ Cancel \/ Terminated

Spec == Init /\ [][Next]_vars

\* The task is scheduled, the daemon answers its unary calls, and a browser that
\* is there takes what it is sent.  Nothing makes the daemon's stream go on.
Fairness ==
    /\ WF_vars(WriteSketch) /\ WF_vars(Open) /\ WF_vars(Poll)
    /\ WF_vars(ObserveCancel) /\ WF_vars(NothingYet) /\ WF_vars(Reinit)
    /\ WF_vars(Send) /\ WF_vars(Return) /\ WF_vars(Take) /\ WF_vars(Finish)
    /\ WF_vars(Handle)

FairSpec == Spec /\ Fairness

\* In addition the daemon ends its stream some time.
DaemonEndsStream == SF_vars(StreamOver \/ \E f \in Offered : Read(f))

-----------------------------------------------------------------------------
(* Properties *)

\* What an artifact's bytes may be added to.
Lines == Bodies \cup [type : {"result"}, artifact : Artifacts, bytes : SUBSET Flashable]

\* Every variable keeps its range; the channel never exceeds its capacity.
TypeOK ==
    /\ kind \in Kinds /\ face \in {"ws", "http"} /\ phase \in Phases
    /\ read \in Seq(Offered) /\ label \in Labels \cup {""}
    /\ IF phase = "sending" THEN pending \in Bodies ELSE pending = None
    /\ sent \in Seq(Bodies)
    /\ channel \in Seq(Bodies) /\ Len(channel) <= Capacity
    /\ lines \in Seq(Lines)
    /\ body \in {"none", "open", "complete", "aborted"}
    /\ token \in BOOLEAN /\ scratch \in {"none", "present", "removed"}

\* The label of the download that message n of a stream belongs to.
LabelAt(stream, n) ==
    LET starts == {i \in 1..n : stream[i].type = "start"}
    IN  IF starts = {} THEN "" ELSE stream[Max(starts)].label

\* What the n-th message is to the browser, from the stream itself.
Told(n) == {b \in ToSet(Translate(kind, read[n], n, LabelAt(read, n))) : ~IsTerminal(b)}

\* What the task has told so far, or is about to tell.
Said == sent \o (IF phase = "sending" THEN <<pending>> ELSE <<>>)

\* The browser is told each message of the daemon once, in order, under the label
\* of its own download, and nothing after the terminal (bridge.rs, the loops of
\* compile_stream, upload_stream and install_stream).
ToldOnceInOrder ==
    /\ \A i \in DOMAIN Said :
          ~IsTerminal(Said[i]) => /\ Said[i].at \in DOMAIN read
                                  /\ Said[i] \in Told(Said[i].at)
    /\ \A n \in DOMAIN read : Told(n) \subseteq ToSet(Said)
    /\ \A i, j \in DOMAIN Said :
          i < j => /\ ~IsTerminal(Said[i])
                   /\ IsTerminal(Said[j]) \/ Said[i].at < Said[j].at

\* Until it goes away, what the browser has been given and what waits in the
\* channel are all that was sent, and what it was given is what was sent but for
\* what a cloud's result becomes.
DeliveredInOrder ==
    /\ body \in {"open", "complete"} => Len(lines) + Len(channel) = Len(sent)
    /\ body = "open" => \A i \in DOMAIN channel : channel[i] = sent[Len(lines) + i]
    /\ \A i \in DOMAIN lines : sent[i].type # "result" => lines[i] = sent[i]

\* From the daemon to the browser nothing is lost, doubled, overtaken or mislabelled.
StreamIsFaithful == ToldOnceInOrder /\ DeliveredInOrder

\* A result is told only for the daemon's own last word, a compile's only with a
\* flashable file.  What the cloud's browser can flash is complete: the AVR file
\* alone, the app alone, or all the images of the build it asked for.
ImagesWhole ==
    \A i \in DOMAIN lines :
        lines[i].type = "result" =>
            /\ Last(read).type = "result"
            /\ kind = "compile" => sent[i].artifact = FindArtifact(Last(read).build)
            /\ face = "http" =>
                  /\ lines[i].bytes \in {{"hex"}, {"app"}, EspImages}
                  /\ lines[i].bytes \subseteq Last(read).build
                  /\ EspImages \cup {"address"} \subseteq Last(read).build
                        => lines[i].bytes # {"app"}

\* A browser that goes away stops the compile it asked the cloud for, whatever
\* the daemon does, and the scratch dir goes with the task.
AbortStopsCompile ==
    body = "aborted" /\ face = "http" ~> phase = "over" /\ scratch = "removed"

Code(b) == IF b.type = "error" THEN b.code ELSE b.type

\* The terminal among the bodies, and anything that was sent after it, as codes.
Answers(bodies) ==
    LET ends == {i \in DOMAIN bodies : IsTerminal(bodies[i])}
        rest == IF ends = {} THEN <<>> ELSE SubSeq(bodies, Min(ends), Len(bodies))
    IN  [i \in DOMAIN rest |-> Code(rest[i])]

\* The streamed request keeps the promise of RequestReply: one terminal, which is
\* `cancelled` only if the browser cancelled or left, and which comes if the
\* daemon ends its stream (bridge.rs, "exactly one terminal").
Replies == INSTANCE RequestReply WITH
    Requests <- {"this"},
    asked    <- IF phase = "idle" THEN {} ELSE {"this"},
    revoked  <- IF token THEN {"this"} ELSE {},
    terminal <- [r \in {"this"} |-> Answers(sent)]

RepliesSafe == Replies!Safe
RepliesPrompt == DaemonEndsStream => Replies!Prompt

=============================================================================
