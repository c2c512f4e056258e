--------------------------- MODULE OrderedDelivery ---------------------------
(***************************************************************************)
(* What the writer of a session promises its senders: the browser receives *)
(* the responses in the order in which they were sent, each once and none  *)
(* skipped, and receives all of them unless the connection breaks.         *)
(* Responses are numbered by the order of sending; several may arrive in   *)
(* one go.                                                                 *)
(***************************************************************************)
EXTENDS Naturals

VARIABLES
    sent,       \* how many responses have been sent
    delivered,  \* responses 1..delivered have reached the browser
    broken      \* the connection broke

vars == <<sent, delivered, broken>>

Init == sent = 0 /\ delivered = 0 /\ broken = FALSE

Send == ~broken /\ sent' = sent + 1 /\ UNCHANGED <<delivered, broken>>

Deliver ==
    /\ ~broken
    /\ delivered < sent
    /\ delivered' \in (delivered + 1)..sent
    /\ UNCHANGED <<sent, broken>>

\* A connection that breaks may lose the end of what was sent.
Break ==
    /\ broken' = TRUE
    /\ delivered' \in delivered..sent
    /\ UNCHANGED sent

Next == Send \/ Deliver \/ Break

Safe == Init /\ [][Next]_vars

\* What was sent and not lost is delivered some time.
Prompt == WF_vars(Deliver)

Spec == Safe /\ Prompt
=============================================================================
