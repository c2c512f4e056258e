----------------------------- MODULE GrpcStreams -----------------------------
(***************************************************************************)
(* What the helper makes of the streams of arduino-cli: the messages of a  *)
(* Compile, Upload or PlatformInstall call, what `translate` turns each    *)
(* into, and the artifact a compile has built.                             *)
(*                                                                         *)
(* A text or a percentage is abstracted to the position `at` of the        *)
(* message that carried it; labels are kept, they are carried from one     *)
(* message to later ones.                                                  *)
(***************************************************************************)
EXTENDS Naturals, Sequences

CONSTANTS
    Labels,  \* names of tasks and downloads
    None

Kinds == {"compile", "upload", "install"}

-----------------------------------------------------------------------------
(* The artifact of a compile *)

\* The images an ESP flash needs, and the address its bootloader goes to, which
\* is one of the build properties.
EspImages == {"app", "bootloader", "partitions", "bootApp0"}

\* What a build may leave: some of the images, of an AVR one ("hex").
Builds == SUBSET (EspImages \cup {"hex", "address"})

\* The files an artifact may name.
Flashable == EspImages \cup {"hex"}
Artifacts == [main : {"hex", "app"}, parts : SUBSET EspImages]

\* All the images or none: with one missing the app is flashed alone.
EspParts(build) ==
    IF EspImages \cup {"address"} \subseteq build THEN EspImages ELSE {}

\* The flashable file, AVR before ESP; None if the build has neither.
FindArtifact(build) ==
    IF "hex" \in build THEN [main |-> "hex", parts |-> {}]
    ELSE IF "app" \in build THEN [main |-> "app", parts |-> EspParts(build)]
    ELSE None

-----------------------------------------------------------------------------
(* Messages of the daemon *)

Frame == [type : {"empty", "out"}]
           \cup [type : {"task"}, name : Labels \cup {""}, message : Labels]
           \cup [type : {"start"}, label : Labels]
           \cup [type : {"update"}, sized : BOOLEAN]
           \cup [type : {"end"}, success : BOOLEAN, message : BOOLEAN]
           \cup [type : {"result"}, build : Builds]

Speaks(kind) ==
    CASE kind = "compile" -> {"empty", "out", "task", "result"}
      [] kind = "upload"  -> {"empty", "out", "result"}
      [] kind = "install" -> {"empty", "task", "start", "update", "end", "result"}

-----------------------------------------------------------------------------
(* What is sent to the browser *)

Log(n)             == [type |-> "log", at |-> n]
Progress(n, label) == [type |-> "progress", at |-> n, label |-> label]
Result(artifact)   == [type |-> "result", artifact |-> artifact]
Failure(code)      == [type |-> "error", code |-> code]

IsTerminal(body) == body.type \in {"result", "error"}

\* The label later updates of a download are reported under.
LabelAfterUpdateOnly(f, label) == label
LabelAfter(f, label) == IF f.type = "start" THEN f.label ELSE label

\* translate: what message f, the n-th of its stream, becomes: one body, or none
\* if there is nothing to tell.  `label` is that of the download under way.  An
\* install's result is not yet its terminal.
Translate(kind, f, n, label) ==
    CASE f.type = "out" -> <<Log(n)>>
      [] f.type = "task" ->
           <<Progress(n, IF f.name = "" THEN f.message ELSE f.name)>>
      [] f.type = "start" -> <<Progress(n, f.label)>>
      [] f.type = "update" /\ f.sized -> <<Progress(n, label)>>
      [] f.type = "end" /\ f.success /\ f.message -> <<Log(n)>>
      [] f.type = "end" /\ ~f.success -> <<Failure("daemon")>>
      [] f.type = "result" ->
           <<IF kind = "compile" /\ FindArtifact(f.build) = None
             THEN Failure("daemon")
             ELSE Result(IF kind = "compile" THEN FindArtifact(f.build) ELSE None)>>
      [] \/ f.type = "empty"
         \/ f.type = "update" /\ ~f.sized
         \/ f.type = "end" /\ f.success /\ ~f.message -> <<>>

=============================================================================
