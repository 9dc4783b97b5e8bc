------------------------------ MODULE Breaker ------------------------------
(***************************************************************************)
(* What the cooldown table of app/providers/router.py promises, with no    *)
(* clock, no chain and no retry: one circuit breaker per backend key       *)
(* (provider, scope).  A request may enter a backend only while its        *)
(* breaker is closed, only a request that is using a backend may open its  *)
(* breaker, and opening one breaker never touches another.                 *)
(*                                                                         *)
(* Module Failover implements this specification.                          *)
(***************************************************************************)
CONSTANTS
    Requests,   \* in-flight request slots
    Keys        \* backend keys, one breaker each

VARIABLES
    open,       \* open[k]: the breaker of k refuses new requests
    using       \* using[k]: the requests currently bound to k

vars == <<open, using>>

\* One flag and one set of users per backend.
TypeOK ==
    /\ open \in [Keys -> BOOLEAN]
    /\ using \in [Keys -> SUBSET Requests]

Init ==
    /\ open = [k \in Keys |-> FALSE]
    /\ using = [k \in Keys |-> {}]

Unbound(r) == \A k \in Keys : r \notin using[k]

\* A breaker may open as its user leaves; it never closes that way.
OpenedBy(k) == {open, [open EXCEPT ![k] = TRUE]}

Enter(r, k) ==
    /\ Unbound(r)
    /\ ~open[k]
    /\ using' = [using EXCEPT ![k] = @ \cup {r}]
    /\ UNCHANGED open

Exit(r, k) ==
    /\ r \in using[k]
    /\ using' = [using EXCEPT ![k] = @ \ {r}]
    /\ open' \in OpenedBy(k)

\* Failover: leave one backend and enter the next one in a single step.
Hop(r, k, l) ==
    /\ r \in using[k]
    /\ k # l
    /\ ~open[l]
    /\ using' = [using EXCEPT ![k] = @ \ {r}, ![l] = @ \cup {r}]
    /\ open' \in OpenedBy(k)

\* Time closes any number of breakers and opens none.
Expire ==
    /\ open' \in [Keys -> BOOLEAN]
    /\ \A k \in Keys : open'[k] => open[k]
    /\ UNCHANGED using

Next ==
    \/ Expire
    \/ \E r \in Requests, k \in Keys : Enter(r, k) \/ Exit(r, k)
    \/ \E r \in Requests, k, l \in Keys : Hop(r, k, l)

Spec == Init /\ [][Next]_vars
=============================================================================
