--------------------------- MODULE ResponseWriter ---------------------------
(***************************************************************************)
(* The writer task of a session (session.rs, Session::run) and the         *)
(* coalescing of streamed text (batch.rs).  Senders put responses into a   *)
(* bounded channel; the writer takes them one at a time, holds back text   *)
(* for at most a cooldown, merging neighbouring chunks of a stream, and    *)
(* writes frames to the socket.                                            *)
(*                                                                         *)
(* A response is abstracted to the id it carries and its variant, and is   *)
(* named by its position in the order of sending.  A buffered entry and a  *)
(* frame are the interval of positions whose text they hold.  The timer is *)
(* the number of clock ticks it has left; a slow writer finds it at zero   *)
(* for as long as it likes.  flush is one step, which a broken socket cuts *)
(* short after any number of frames: nothing else sees the buffer.         *)
(***************************************************************************)
EXTENDS Integers, Sequences

CONSTANTS
    ReqIds,       \* request ids
    Capacity,     \* RESPONSE_CHANNEL_CAPACITY
    Cooldown,     \* BATCH_COOLDOWN, in ticks of the clock
    MaxSent,      \* bound: how many responses are sent
    None

ASSUME BoundsAssumption ==
    /\ Capacity \in Nat \ {0}
    /\ Cooldown \in Nat \ {0}
    /\ MaxSent \in Nat
    /\ None \notin Nat

Variants  == {"log", "monitorData", "other"}
Responses == [id : ReqIds, variant : Variants]

VARIABLES
    sent,     \* the responses sent so far
    senders,  \* some sender of the channel is left
    taken,    \* how many responses the writer has taken from the channel
    buf,      \* the entries held back
    wait,     \* ticks until flush_at, or None
    age,      \* ticks the oldest entry has been held, up to Cooldown (history)
    frames,   \* the frames written to the socket
    socket,   \* "open" or "gone"
    writer    \* "running", "finished" (recv gave None) or "failed" (a write did)

channelVars == <<sent, senders>>
bufferVars  == <<buf, wait, age>>
vars == <<channelVars, taken, bufferVars, frames, socket, writer>>

Entry(lo, hi) == [lo |-> lo, hi |-> hi]
Entries == [lo : 1..MaxSent, hi : 1..MaxSent]

\* The branch of the timer is polled first (select! is biased).
Due == wait = 0

IsBatchable(response) == response.variant \in {"log", "monitorData"}

\* Two positions whose responses belong to the same stream.
SameStream(j, k) ==
    sent[j].id = sent[k].id /\ sent[j].variant = sent[k].variant

\* Text of the same request and variant as the tail of the buffer joins the
\* tail; anything else becomes an entry of its own.
Joins(b, k) == b # <<>> /\ SameStream(b[Len(b)].hi, k)

PushCoalesced(b, k) ==
    IF Joins(b, k) THEN [b EXCEPT ![Len(b)] = Entry(@.lo, k)]
                   ELSE Append(b, Entry(k, k))

-----------------------------------------------------------------------------
(* The senders, the socket and the clock *)

SendUnbounded(response) ==
    /\ senders
    /\ writer = "running"
    /\ Len(sent) < MaxSent
    /\ sent' = Append(sent, response)
    /\ UNCHANGED <<senders, taken, bufferVars, frames, socket, writer>>

\* Waits for room.  Once the writer has gone the response is dropped, which
\* changes nothing here.
Send(response) ==
    /\ senders
    /\ writer = "running"
    /\ Len(sent) < MaxSent
    /\ Len(sent) - taken < Capacity
    /\ sent' = Append(sent, response)
    /\ UNCHANGED <<senders, taken, bufferVars, frames, socket, writer>>

\* The read loop and the last task of the session drop their senders.
DropSenders ==
    /\ senders
    /\ senders' = FALSE
    /\ UNCHANGED <<sent, taken, bufferVars, frames, socket, writer>>

SocketGone ==
    /\ socket = "open"
    /\ socket' = "gone"
    /\ UNCHANGED <<channelVars, taken, bufferVars, frames, writer>>

Clock ==
    /\ writer = "running"
    /\ wait # None
    /\ wait > 0
    /\ wait' = wait - 1
    /\ age' = age + 1
    /\ UNCHANGED <<channelVars, taken, buf, frames, socket, writer>>

-----------------------------------------------------------------------------
(* The writer task *)

Disarm == wait' = None /\ age' = 0

\* The entries es are written, in order, and the writer goes to state w; the
\* socket may break at any of them, which ends the writer.
Write(es, w) ==
    /\ buf' = <<>>
    /\ Disarm
    /\ \/ frames' = frames \o es /\ writer' = w
       \/ /\ socket = "gone"
          /\ es # <<>>
          /\ \E n \in 0..(Len(es) - 1) : frames' = frames \o SubSeq(es, 1, n)
          /\ writer' = IF w = "finished" THEN w ELSE "failed"

Tick ==
    /\ writer = "running"
    /\ Due
    /\ Write(buf, "running")
    /\ UNCHANGED <<channelVars, taken, socket>>

Recv ==
    /\ writer = "running"
    /\ ~Due
    /\ taken < Len(sent)
    /\ taken' = taken + 1
    /\ UNCHANGED <<channelVars, socket>>

TakeTextRearming ==
    /\ Recv
    /\ IsBatchable(sent[taken + 1])
    /\ buf' = PushCoalesced(buf, taken + 1)
    /\ wait' = Cooldown
    /\ UNCHANGED <<age, frames, writer>>

TakeTextUnarmed ==
    /\ Recv
    /\ IsBatchable(sent[taken + 1])
    /\ buf' = PushCoalesced(buf, taken + 1)
    /\ UNCHANGED <<wait, age, frames, writer>>

\* Text is held back; the first chunk held arms the timer, later ones leave it.
TakeText ==
    /\ Recv
    /\ IsBatchable(sent[taken + 1])
    /\ buf' = PushCoalesced(buf, taken + 1)
    /\ wait' = IF wait = None THEN Cooldown ELSE wait
    /\ UNCHANGED <<age, frames, writer>>

TakeOtherAhead ==
    /\ Recv
    /\ ~IsBatchable(sent[taken + 1])
    /\ frames' = Append(frames, Entry(taken + 1, taken + 1))
    /\ UNCHANGED <<bufferVars, writer>>

\* Anything else is written at once, behind the text held back.
TakeOther ==
    /\ Recv
    /\ ~IsBatchable(sent[taken + 1])
    /\ Write(Append(buf, Entry(taken + 1, taken + 1)), "running")

\* recv gives None: the rest is flushed, whatever comes of it.
Finish ==
    /\ writer = "running"
    /\ ~Due
    /\ ~senders
    /\ taken = Len(sent)
    /\ Write(buf, "finished")
    /\ UNCHANGED <<channelVars, taken, socket>>

-----------------------------------------------------------------------------
(* Specification *)

Init ==
    /\ sent = <<>>
    /\ senders = TRUE
    /\ taken = 0
    /\ buf = <<>>
    /\ wait = None
    /\ age = 0
    /\ frames = <<>>
    /\ socket = "open"
    /\ writer = "running"

Terminated == writer # "running" /\ UNCHANGED vars

Next ==
    \/ \E response \in Responses : Send(response)
    \/ DropSenders \/ SocketGone \/ Clock
    \/ Tick \/ TakeText \/ TakeOther \/ Finish
    \/ Terminated

Spec == Init /\ [][Next]_vars

\* The writer is scheduled and time passes.
FairSpec ==
    Spec /\ WF_vars(Clock) /\ WF_vars(Tick \/ TakeText \/ TakeOther \/ Finish)

-----------------------------------------------------------------------------
(* Properties *)

\* Every variable stays in its range; the channel holds at most Capacity
\* responses and the writer never takes one that was not sent.
TypeOK ==
    /\ sent \in Seq(Responses)
    /\ senders \in BOOLEAN
    /\ taken \in 0..Len(sent)
    /\ Len(sent) <= MaxSent
    /\ Len(sent) - taken <= Capacity
    /\ buf \in Seq(Entries)
    /\ wait \in 0..Cooldown \cup {None}
    /\ age \in 0..Cooldown
    /\ frames \in Seq(Entries)
    /\ socket \in {"open", "gone"}
    /\ writer \in {"running", "finished", "failed"}

\* The position up to which the browser has everything.
LastHi(es, before) == IF es = <<>> THEN before ELSE es[Len(es)].hi
Written == LastHi(frames, 0)

\* The entries es hold the positions after `before`, each once and in order.
Tiles(es, before) ==
    \A i \in DOMAIN es :
        /\ es[i].lo <= es[i].hi
        /\ es[i].lo = 1 + (IF i = 1 THEN before ELSE es[i - 1].hi)

\* Nothing overtakes, is lost or is written twice: the frames followed by the
\* held entries are the responses taken so far, in the order of sending
\* (session.rs, "flush the buffer first to keep order").
FramesInOrder ==
    /\ Tiles(frames, 0)
    /\ Written <= taken
    /\ writer = "running" =>
          Tiles(buf, Written) /\ LastHi(buf, Written) = taken

\* Only streamed text is merged, and only text of one request and variant.
OnlyStreamsMerged ==
    \A es \in {frames, buf} : \A i \in DOMAIN es :
        es[i].lo # es[i].hi =>
            \A k \in es[i].lo..es[i].hi :
                IsBatchable(sent[k]) /\ SameStream(es[i].lo, k)

\* What the browser reads is what was sent: merging changes where the frames end,
\* never the order, the text or whose text it is (session.rs and batch.rs).
FramesFaithful == FramesInOrder /\ OnlyStreamsMerged

\* Held text has a timer, an empty buffer has none, and the timer counts from
\* the oldest chunk: a flood of later chunks does not put it off.
TimerMatchesBuffer ==
    writer = "running" =>
        IF buf = <<>> THEN wait = None /\ age = 0
                      ELSE wait # None /\ wait + age = Cooldown

\* The writer keeps the promise of OrderedDelivery; the connection counts as
\* broken when a write has failed.
Delivery == INSTANCE OrderedDelivery WITH
    sent      <- Len(sent),
    delivered <- Written,
    broken    <- \/ writer = "failed"
                 \/ writer = "finished" /\ Written < Len(sent)

DeliverySafe == Delivery!Safe
DeliveryPrompt == Delivery!Prompt
=============================================================================
