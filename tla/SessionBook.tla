---------------------------- MODULE SessionBook ----------------------------
(***************************************************************************)
(* What sl::SessionManager promises about the life of a session id, without*)
(* logins, removal, seconds or the validator's mutex.  The book holds when *)
(* an id was last granted or confirmed.  The id is live for Lifetime ticks *)
(* from then; a check answers whether it is and confirms a live one.  An id*)
(* that has lapsed stays so: it is neither confirmed nor granted again.    *)
(* Lifetime is what checkSession gives a session, a second more than the   *)
(* header of the class says.                                               *)
(***************************************************************************)
EXTENDS Naturals

CONSTANTS Ids, Lifetime, None

VARIABLES
    clock,
    stamps, \* when each id was last granted or confirmed, None for a fresh one
    answer  \* to the last check
vars == <<clock, stamps, answer>>

Live(id)   == stamps[id] # None /\ clock - stamps[id] < Lifetime
Lapsed(id) == stamps[id] # None /\ ~Live(id)

Init ==
    /\ clock = 1
    /\ stamps = [id \in Ids |-> None]
    /\ answer = None

Pass ==
    /\ clock' = clock + 1
    /\ UNCHANGED <<stamps, answer>>

\* A login is given an id.
Grant(id) ==
    /\ ~Lapsed(id)
    /\ stamps' = [stamps EXCEPT ![id] = clock]
    /\ UNCHANGED <<clock, answer>>

Check(id) ==
    /\ stamps' = IF Live(id) THEN [stamps EXCEPT ![id] = clock] ELSE stamps
    /\ answer' = [id |-> id, ok |-> Live(id)]
    /\ UNCHANGED clock

ConfirmAll ==
    /\ stamps' = [id \in Ids |-> IF Live(id) THEN clock ELSE stamps[id]]
    /\ UNCHANGED <<clock, answer>>

Next ==
    \/ Pass \/ ConfirmAll
    \/ \E id \in Ids : Grant(id) \/ Check(id)

Spec == Init /\ [][Next]_vars
=============================================================================
