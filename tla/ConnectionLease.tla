-------------------------- MODULE ConnectionLease --------------------------
(***************************************************************************)
(* What sql::ConnectionPool promises to the code that runs queries, without*)
(* queues, locks, links or capacities: a user asks for a connection of one *)
(* type and gets an idle one or a new one for itself alone; when it is done*)
(* the connection is closed or lies idle under the type it was asked for.  *)
(* Idle connections may be closed together at any time, lent ones never.   *)
(***************************************************************************)
CONSTANTS Users, Keys, Conns, None

VARIABLES
    idle,   \* the idle connections of each type
    lent,   \* the connection each user has
    wish    \* the type each user asked for
vars == <<idle, lent, wish>>

Lent   == {lent[u] : u \in Users} \ {None}
Stored == UNION {idle[k] : k \in Keys}

Init ==
    /\ idle = [k \in Keys |-> {}]
    /\ lent = [u \in Users |-> None]
    /\ wish = [u \in Users |-> None]

Ask(u, k) ==
    /\ wish[u] = None
    /\ wish' = [wish EXCEPT ![u] = k]
    /\ UNCHANGED lent

Waiting(u) == wish[u] # None /\ lent[u] = None

\* An idle connection of the type asked for is idle no more.
Lend(u) ==
    /\ Waiting(u)
    /\ \E c \in idle[wish[u]] :
        /\ idle' = [idle EXCEPT ![wish[u]] = @ \ {c}]
        /\ lent' = [lent EXCEPT ![u] = c]
    /\ UNCHANGED wish

\* A new connection is one that neither lies idle nor is lent to anybody.
Open(u) ==
    /\ Waiting(u)
    /\ \E c \in Conns \ (Lent \cup Stored) : lent' = [lent EXCEPT ![u] = c]
    /\ UNCHANGED <<idle, wish>>

GiveUp(u) ==
    /\ Waiting(u)
    /\ wish' = [wish EXCEPT ![u] = None]
    /\ UNCHANGED <<idle, lent>>

Return(u) ==
    /\ lent[u] # None
    /\ \/ UNCHANGED idle
       \/ idle' = [idle EXCEPT ![wish[u]] = @ \cup {lent[u]}]
    /\ lent' = [lent EXCEPT ![u] = None]
    /\ wish' = [wish EXCEPT ![u] = None]

CloseIdle == idle' = [k \in Keys |-> {}]

Next ==
    \/ \E u \in Users : Lend(u) \/ Open(u) \/ GiveUp(u) \/ Return(u)
    \/ \E u \in Users, k \in Keys : Ask(u, k) /\ (UNCHANGED idle \/ CloseIdle)
    \/ CloseIdle /\ UNCHANGED <<lent, wish>>

Spec == Init /\ [][Next]_vars
=============================================================================
