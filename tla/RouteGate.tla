----------------------------- MODULE RouteGate -----------------------------
(***************************************************************************)
(* What a ForwardRoute promises its owner: work is admitted only before    *)
(* retirement, everything admitted holds the route open, and the owner     *)
(* closes what the route carries only when nothing holds it any more.      *)
(***************************************************************************)
EXTENDS Naturals

CONSTANTS
    Tokens,    \* the admissions work may hold
    MaxRoute   \* bound: routes ever published

VARIABLES
    current,   \* the published route
    retired,   \* the routes that admit no more
    closed,    \* the routes whose transport is closed
    active     \* the admissions held on each route

gateVars == <<current, retired, closed, active>>

Routes == 1..MaxRoute

Init ==
    /\ current = 1
    /\ retired = {}
    /\ closed = {}
    /\ active = [g \in Routes |-> {}]

\* Work that loaded the route some time ago may still come in ...
Enter(g, t) ==
    /\ g <= current
    /\ g \notin retired
    /\ active' = [active EXCEPT ![g] = @ \cup {t}]
    /\ UNCHANGED <<current, retired, closed>>

Leave(g, t) ==
    /\ active' = [active EXCEPT ![g] = @ \ {t}]
    /\ UNCHANGED <<current, retired, closed>>

\* ... until its replacement has been published and it is retired.  Retiring
\* the published route itself is shutting down.
Publish ==
    /\ current \notin retired
    /\ current < MaxRoute
    /\ current' = current + 1
    /\ UNCHANGED <<retired, closed, active>>

Retire(g) ==
    /\ g <= current
    /\ g \notin retired
    /\ retired' = retired \cup {g}
    /\ UNCHANGED <<current, closed, active>>

Close(g) ==
    /\ g \in retired \ closed
    /\ active[g] = {}
    /\ closed' = closed \cup {g}
    /\ UNCHANGED <<current, retired, active>>

Next ==
    \/ \E g \in Routes :
        \/ \E t \in Tokens : Enter(g, t) \/ Leave(g, t)
        \/ Retire(g)
        \/ Close(g)
    \/ Publish

Spec == Init /\ [][Next]_gateVars
=============================================================================
