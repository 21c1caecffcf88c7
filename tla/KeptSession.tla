----------------------------- MODULE KeptSession -----------------------------
(***************************************************************************)
(* One client that keeps its session alive, over the server's sessions of  *)
(* SessionManager.  The server tells it at login after how many seconds    *)
(* sessions expire; its KeepAliveWorker looks at the clock every PollTicks *)
(* and confirms the session when more whole seconds than the interval have *)
(* passed since the last confirmation was sent.  Messages and the wait for *)
(* the validator's mutex take at most MaxDelay ticks each way.             *)
(*                                                                         *)
(* Between these steps the other users of SessionManager do what they like *)
(* (log in, check, remove and clear).  The clocks of client and server run *)
(* at one rate; now stands for both.                                       *)
(***************************************************************************)
EXTENDS SessionManager

CONSTANTS
    PollTicks,  \* sleep_for of KeepAliveWorker::process
    MaxDelay    \* bound: transport of a message, with the wait for the mutex

ASSUME PollAssumption == PollTicks \in Nat \ {0} /\ MaxDelay \in Nat

VARIABLE client     \* the client's session and its worker

KeepAlivePc == {"off", "login", "sleeping", "asking", "told", "lost"}

\* at: where the client is; id: _session_id; timer: the local of process();
\* due: when the wait it is in ends at the latest.
ClientState == [at : KeepAlivePc, id : Ids \cup {None}, timer : Times \cup {0}, due : Nat]

keptVars == <<vars, client>>

\* Mutant of Interval: the session is confirmed as rarely as it expires.
Interval_NoMargin == Expire

\* max(keep_alive_sec / 2, keep_alive_sec - 20), in seconds.
Interval == IF Expire < 40 THEN Expire \div 2 ELSE Expire - 20

KeptInit ==
    /\ Init
    /\ client = [at |-> "off", id |-> None, timer |-> 0, due |-> 0]

\* The client's login succeeds: LoginRequestProcessor replies with id and expiry.
LoginHandled ==
    /\ client.at = "off"
    /\ CreateNewSession
    /\ client' = [at |-> "login", id |-> GenerateId, timer |-> 0, due |-> now + MaxDelay]

\* connect() has the reply and starts the worker.
StartKeeping ==
    /\ client.at = "login"
    /\ client' = [client EXCEPT !.at = "sleeping", !.timer = now, !.due = now + PollTicks]
    /\ UNCHANGED vars

\* One round of the loop, at the end of its sleep.
Wake ==
    /\ client.at = "sleeping"
    /\ now = client.due
    /\ client' = IF (now - client.timer) \div TicksPerSecond > Interval
                 THEN [client EXCEPT !.at = "asking", !.timer = now, !.due = now + MaxDelay]
                 ELSE [client EXCEPT !.due = now + PollTicks]
    /\ UNCHANGED vars

\* KeepAliveRequestProcessor::handleRequest answers with checkSession's verdict.
KeepAliveHandled ==
    /\ client.at = "asking"
    /\ CheckSession(client.id)
    /\ client' = [client EXCEPT !.at = IF Alive(client.id) THEN "told" ELSE "lost",
                                !.due = now + MaxDelay]

\* keepAlive() returns without an error and the worker sleeps again.
KeepAliveOk ==
    /\ client.at = "told"
    /\ client' = [client EXCEPT !.at = "sleeping", !.due = now + PollTicks]
    /\ UNCHANGED vars

\* Time passes, but not beyond the end of the wait the client is in.
Pass ==
    /\ Tick
    /\ client.at \in {"off", "lost"} \/ now < client.due
    /\ UNCHANGED client

KeptNext ==
    \/ LoginHandled \/ StartKeeping \/ Wake \/ KeepAliveHandled \/ KeepAliveOk \/ Pass
    \/ /\ \/ \E l \in Logins : LoginStart(l) \/ ClearLogin(l)
          \/ LoginFails \/ CreateNewSession
          \/ \E id \in Ids : CheckSession(id) \/ ClearSession(id)
          \/ ClearExpired
       /\ UNCHANGED client

KeptSpec == KeptInit /\ [][KeptNext]_keptVars
-----------------------------------------------------------------------------
\* Properties

\* One type invariant, with that of the sessions.
KeptTypeOK == TypeOK /\ client \in ClientState

\* A session that is kept is never lost: however the wakes, the truncation of
\* both time differences, the delays and the other users fall together, no
\* confirmation comes too late.  It holds while two delays and a sleep fit into
\* the margin of Expire - Interval seconds, which is the reason for the comment
\* in connect() on network delays.
KeptNeverLost == client.at # "lost"
==============================================================================
