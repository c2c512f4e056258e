----------------------------- MODULE PortLease -----------------------------
(***************************************************************************)
(* What the serial monitor promises the browser about monitors and ports.  *)
(* A monitorOpen is decided once.  A session has one monitor at a time,    *)
(* which it has to close also after its port has failed.  A port serves    *)
(* one monitor at a time, and once a port error or the close of its        *)
(* monitor has been reported, the port is free and stays free of it: an    *)
(* upload may use it.                                                      *)
(***************************************************************************)
EXTENDS Naturals

CONSTANTS Sessions, Ports, Monitors, None

VARIABLES
    owner,   \* owner[m]: the session that asked for monitor m, or None
    wanted,  \* wanted[m]: the port it asked for, or None
    stage,   \* stage[m]: what the browser knows of m: "unasked", "asked", then
             \* "refused", or "open", perhaps "lost", and "closed"
    holder   \* holder[p]: the monitor that p is open for, or 0

vars == <<owner, wanted, stage, holder>>

Init ==
    /\ owner = [m \in Monitors |-> None]
    /\ wanted = [m \in Monitors |-> None]
    /\ stage = [m \in Monitors |-> "unasked"]
    /\ holder = [p \in Ports |-> 0]

\* The session has no monitor that it opens or would have to close.
HasNone(s) ==
    \A m \in Monitors : owner[m] = s => stage[m] \notin {"asked", "open", "lost"}

HoldsNothing(m) == \A p \in Ports : holder[p] # m

Ask(m, s, p) ==
    /\ stage[m] = "unasked" /\ HasNone(s)
    /\ stage' = [stage EXCEPT ![m] = "asked"]
    /\ owner' = [owner EXCEPT ![m] = s]
    /\ wanted' = [wanted EXCEPT ![m] = p]
    /\ UNCHANGED holder

Moves(m, from, to) ==
    /\ stage[m] = from
    /\ stage' = [stage EXCEPT ![m] = to]
    /\ UNCHANGED <<owner, wanted, holder>>

\* A refusal may come from the helper, while the daemon still opens the port.
Decide(m) == Moves(m, "asked", "open") \/ Moves(m, "asked", "refused")
Lose(m)   == Moves(m, "open", "lost") /\ HoldsNothing(m)
Close(m)  == (Moves(m, "open", "closed") \/ Moves(m, "lost", "closed")) /\ HoldsNothing(m)

Occupy(m) ==
    /\ stage[m] \in {"asked", "refused"}
    /\ holder[wanted[m]] = 0
    /\ holder' = [holder EXCEPT ![wanted[m]] = m]
    /\ UNCHANGED <<owner, wanted, stage>>

Release(m) ==
    /\ holder' = [p \in Ports |-> IF holder[p] = m THEN 0 ELSE holder[p]]
    /\ UNCHANGED <<owner, wanted, stage>>

Next ==
    \E m \in Monitors :
        \/ \E s \in Sessions, p \in Ports : Ask(m, s, p)
        \/ Decide(m) \/ Lose(m) \/ Close(m) \/ Occupy(m) \/ Release(m)

Safe == Init /\ [][Next]_vars
=============================================================================
