---------------------------- MODULE RequestReply ----------------------------
(***************************************************************************)
(* What the flash channel promises the browser for each request, whatever  *)
(* happens in between: one terminal (`result` or `error`), and the code    *)
(* `cancelled` only for a request that somebody asked to cancel, with a    *)
(* cancel message or by leaving.                                           *)
(***************************************************************************)
EXTENDS Naturals, Sequences

CONSTANTS Requests, Codes

VARIABLES
    asked,    \* the requests the helper has received
    revoked,  \* those among them it has been told to cancel
    terminal  \* terminal[r]: the terminals of r, at most one

vars == <<asked, revoked, terminal>>

Pending(r) == r \in asked /\ terminal[r] = <<>>

Init ==
    /\ asked = {}
    /\ revoked = {}
    /\ terminal = [r \in Requests |-> <<>>]

Ask(r) ==
    /\ r \notin asked
    /\ asked' = asked \cup {r}
    /\ UNCHANGED <<revoked, terminal>>

\* Leaving revokes several requests at once.
Revoke(R) ==
    /\ revoked' = revoked \cup R
    /\ UNCHANGED <<asked, terminal>>

Answer(r) ==
    /\ Pending(r)
    /\ \E code \in Codes :
          /\ code = "cancelled" => r \in revoked
          /\ terminal' = [terminal EXCEPT ![r] = <<code>>]
    /\ UNCHANGED <<asked, revoked>>

Next ==
    \/ \E r \in Requests : Ask(r) \/ Answer(r)
    \/ \E R \in SUBSET asked : Revoke(R)

Safe == Init /\ [][Next]_vars

\* A request that goes on waiting is answered.
Prompt == \A r \in Requests : WF_vars(Answer(r))

Spec == Safe /\ Prompt
=============================================================================
