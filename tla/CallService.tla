---------------------------- MODULE CallService ----------------------------
(***************************************************************************)
(* What Server promises to the clients of its unary methods, without       *)
(* processors, workers and events.  A call runs at most once, and only if  *)
(* its session was found alive or its method needs none.  It gets one      *)
(* status, which tells whether it ran and, if not, what was wrong with its *)
(* session.  Its client sees that status or is cut off, and a call that is *)
(* rejected never ran and never will, so it may safely be sent elsewhere.  *)
(***************************************************************************)
EXTENDS Naturals

CONSTANTS Calls, Methods, AuthMethods, None

VARIABLES
    client,     \* where each client stands
    request,    \* what it asked for
    admitted,   \* the calls whose session was found alive
    runs,       \* how often each call was handled
    status      \* the status given to each call
vars == <<client, request, admitted, runs, status>>

Init ==
    /\ client   = [c \in Calls |-> "idle"]
    /\ request  = [c \in Calls |-> None]
    /\ admitted = {}
    /\ runs     = [c \in Calls |-> 0]
    /\ status   = [c \in Calls |-> None]

Protected(c) == request[c].method \notin AuthMethods

\* The server may work on a call also when its client has gone.
AtServer(c) == client[c] \notin {"idle", "rejected"}

Ask(c) ==
    /\ client[c] = "idle"
    /\ client' = [client EXCEPT ![c] = "waiting"]
    /\ \E m \in Methods, s \in BOOLEAN : request' = [request EXCEPT ![c] = [method |-> m, session |-> s]]
    /\ UNCHANGED <<admitted, runs, status>>

\* The session is looked up for an answered call once more, which has no effect.
Admit(c) ==
    /\ AtServer(c) /\ Protected(c) /\ request[c].session
    /\ admitted' = admitted \cup {c}
    /\ UNCHANGED <<client, request, runs, status>>

Run(c) ==
    /\ AtServer(c) /\ status[c] = None /\ runs[c] = 0
    /\ Protected(c) => request[c].session /\ c \in admitted
    /\ runs' = [runs EXCEPT ![c] = 1]
    /\ UNCHANGED <<client, request, admitted, status>>

Tells(c, s) ==
    CASE s = "OK"               -> runs[c] = 1
      [] s = "INVALID_ARGUMENT" -> runs[c] = 0 /\ Protected(c) /\ ~request[c].session
      [] s = "UNAUTHENTICATED"  -> runs[c] = 0 /\ Protected(c) /\ request[c].session

Answer(c) ==
    /\ AtServer(c) /\ status[c] = None
    /\ \E s \in {"OK", "INVALID_ARGUMENT", "UNAUTHENTICATED"} :
        Tells(c, s) /\ status' = [status EXCEPT ![c] = s]
    /\ UNCHANGED <<client, request, admitted, runs>>

Deliver(c) ==
    /\ client[c] = "waiting" /\ status[c] # None
    /\ client' = [client EXCEPT ![c] = "replied"]
    /\ UNCHANGED <<request, admitted, runs, status>>

GiveUp(c) ==
    /\ client[c] = "waiting"
    /\ client' = [client EXCEPT ![c] = "cancelled"]
    /\ UNCHANGED <<request, admitted, runs, status>>

\* The server goes away: it rejects calls that nothing was done for and leaves
\* the others without an answer.
Untouched(c) == status[c] = None /\ runs[c] = 0

Close ==
    /\ \E rejected \in SUBSET {c \in Calls : client[c] = "waiting" /\ Untouched(c)} :
        client' = [c \in Calls |-> CASE c \in rejected -> "rejected"
                                     [] c \notin rejected /\ client[c] = "waiting" -> "cancelled"
                                     [] OTHER -> client[c]]
    /\ UNCHANGED <<request, admitted, runs, status>>

Next ==
    \/ \E c \in Calls : \/ Ask(c) \/ Admit(c) \/ Run(c) \/ Answer(c)
                        \/ Deliver(c) \/ GiveUp(c)
    \/ Close

Spec == Init /\ [][Next]_vars
=============================================================================
