---------------------------- MODULE ClientChannel ----------------------------
(***************************************************************************)
(* The client library: hrs::ClientChannel, a class of static members behind*)
(* one mutex, its KeepAliveWorker, whose thread confirms the session from  *)
(* time to time, and hrs::SqlRequest, which sends requests over the        *)
(* channel.  StoppableWorker is modelled with them: its promise is set by  *)
(* the thread that destroys a worker, and by the worker's own thread when a*)
(* confirmation fails.                                                     *)
(*                                                                         *)
(* The g-th connect() that takes the mutex makes channel g; if its login   *)
(* succeeds it makes session g and keep-alive worker g, whose thread is    *)
(* named g.  What the server answers, and when a confirmation is due, is   *)
(* arbitrary here.  A connect(), disconnect() or setCallback() that waits  *)
(* for the mutex has done nothing yet and is not told from one not called. *)
(***************************************************************************)
EXTENDS Naturals

CONSTANTS
    Apps,           \* threads of the program that uses the library
    MaxConnects,    \* bound: how often connect() is called
    Callbacks,      \* callbacks the program registers: "prints", "reenters"
    None

ASSUME BoundAssumption == MaxConnects \in Nat
ASSUME CallbacksAssumption == Callbacks \subseteq {"prints", "reenters"}
ASSUME AppsAssumption == Apps \cap Nat = {}
ASSUME NoneAssumption == None \notin Apps \cup Nat \cup Callbacks

Gens    == 1 .. MaxConnects
Threads == Apps \cup Gens

VARIABLES
    mutex,      \* the thread that holds ClientChannel::_mutex
    channel,    \* _channel
    session,    \* _session_id
    worker,     \* _keep_alive_worker
    callback,   \* _callback
    stub,       \* SqlRequest::_stub: the channel it was made from
    exitSignal, \* workers whose promise has been set
    pc,         \* where each thread is
    ending,     \* the worker whose destructor a program thread runs
    connects,   \* channels made so far
    process,    \* "running" until an assert or an exception ends the program
    failures,   \* history: how often each worker's confirmation has failed
    told,       \* history: workers of whose failure a callback has been told
    heard       \* history: has a callback been registered ever since the last login?

history     == <<failures, told, heard>>
channelVars == <<channel, session, worker, callback, stub>>
threadVars  == <<pc, ending, exitSignal>>
vars == <<mutex, channelVars, threadVars, connects, process, history>>

AppPcs    == {"idle", "login", "stop", "setValue", "join", "context", "stub"}
WorkerPcs == {"new", "loop", "lock", "rpc", "callback", "stop", "setValue", "done"}

\* One type invariant: null or the object of one connect(), and the program
\* points of both kinds of threads.
TypeOK ==
    /\ mutex \in Threads \cup {None}
    /\ channel \in Gens \cup {None}
    /\ session \in Gens \cup {None}
    /\ worker \in Gens \cup {None}
    /\ callback \in Callbacks \cup {None}
    /\ stub \in Gens \cup {None}
    /\ exitSignal \in SUBSET Gens
    /\ pc \in [Threads -> AppPcs \cup WorkerPcs]
    /\ \A a \in Apps : pc[a] \in AppPcs
    /\ \A g \in Gens : pc[g] \in WorkerPcs
    /\ ending \in [Apps -> Gens \cup {None}]
    /\ connects \in 0 .. MaxConnects
    /\ process \in {"running", "aborted"}
    /\ failures \in [Gens -> Nat]
    /\ told \in SUBSET Gens
    /\ heard \in BOOLEAN

Init ==
    /\ mutex = None
    /\ channel = None /\ session = None /\ worker = None
    /\ callback = None
    /\ stub = None
    /\ exitSignal = {}
    /\ pc = [t \in Threads |-> IF t \in Apps THEN "idle" ELSE "new"]
    /\ ending = [a \in Apps |-> None]
    /\ connects = 0
    /\ process = "running"
    /\ failures = [g \in Gens |-> 0]
    /\ told = {}
    /\ heard = FALSE

At(t, label)   == process = "running" /\ pc[t] = label
Goto(t, label) == pc' = [pc EXCEPT ![t] = label]
Lock(t)        == mutex = None /\ mutex' = t
Unlock         == mutex' = None
Abort          == process' = "aborted"

-----------------------------------------------------------------------------
\* StoppableWorker::stopRequest, called by the thread that destroys a worker and
\* by the worker's own thread

Stopped(t) == IF t \in Apps THEN ending[t] ELSE t

\* What follows: the join in KeepAliveWorker::stop, the loop in process.
Continue(t) == Goto(t, IF t \in Apps THEN "join" ELSE "loop")

\* The test of the promise ...
StopRequest(t) ==
    /\ At(t, "stop")
    /\ IF Stopped(t) \in exitSignal THEN Continue(t) ELSE Goto(t, "setValue")
    /\ UNCHANGED <<mutex, channelVars, exitSignal, ending, connects, process, history>>

\* ... and set_value(), which throws when the other thread was faster.  Nobody
\* catches the exception and the program is terminated.
SetValue(t) ==
    /\ At(t, "setValue")
    /\ IF Stopped(t) \in exitSignal
       THEN Abort /\ UNCHANGED <<exitSignal, pc>>
       ELSE /\ exitSignal' = exitSignal \cup {Stopped(t)}
            /\ Continue(t)
            /\ UNCHANGED process
    /\ UNCHANGED <<mutex, channelVars, ending, connects, history>>

-----------------------------------------------------------------------------
\* ClientChannel, called by the program

\* connect() up to the login: the old channel, if any, is replaced.
Connect(a) ==
    /\ At(a, "idle")
    /\ connects < MaxConnects
    /\ Lock(a)
    /\ connects' = connects + 1
    /\ channel' = connects + 1
    /\ Goto(a, "login")
    /\ UNCHANGED <<session, worker, callback, stub, ending, exitSignal, process, history>>

\* The channel is not ready or the login is refused.  The keep-alive worker of
\* an earlier connection is left as it is.
ConnectFails(a) ==
    /\ At(a, "login")
    /\ channel' = None
    /\ Unlock
    /\ Goto(a, "idle")
    /\ UNCHANGED <<session, worker, callback, stub, ending, exitSignal,
                   connects, process, history>>

\* A logged in connect() with no older worker to end starts the new one.
LoginOkFirst(a) ==
    /\ At(a, "login")
    /\ worker = None
    /\ session' = channel
    /\ worker' = channel
    /\ heard' = (callback # None)
    /\ Unlock
    /\ pc' = [pc EXCEPT ![a] = "idle", ![channel] = "loop"]
    /\ UNCHANGED <<channel, callback, stub, ending, exitSignal, connects, process,
                   failures, told>>

\* Mutant of LoginOkAgain: the new thread is started before the old has ended.
LoginOkAgain_StartFirst(a) ==
    /\ At(a, "login")
    /\ worker # None
    /\ session' = channel
    /\ worker' = channel
    /\ heard' = (callback # None)
    /\ ending' = [ending EXCEPT ![a] = worker]
    /\ pc' = [pc EXCEPT ![a] = "stop", ![channel] = "loop"]
    /\ UNCHANGED <<mutex, channel, callback, stub, exitSignal, connects, process,
                   failures, told>>

\* Otherwise the assignment to the unique_ptr runs the destructor of the old
\* worker first, under the mutex.
LoginOkAgain(a) ==
    /\ At(a, "login")
    /\ worker # None
    /\ session' = channel
    /\ worker' = channel
    /\ heard' = (callback # None)
    /\ ending' = [ending EXCEPT ![a] = worker]
    /\ Goto(a, "stop")
    /\ UNCHANGED <<mutex, channel, callback, stub, exitSignal, connects, process,
                   failures, told>>

\* Mutant of Disconnect: the pointer is reset before the worker is stopped.
Disconnect_ResetFirst(a) ==
    /\ At(a, "idle")
    /\ worker # None
    /\ Lock(a)
    /\ worker' = None
    /\ ending' = [ending EXCEPT ![a] = worker']
    /\ Goto(a, "stop")
    /\ UNCHANGED <<channel, session, callback, stub, exitSignal, connects, process, history>>

\* Mutant of Disconnect: the worker is given up without waiting for its thread.
Disconnect_Detach(a) ==
    /\ At(a, "idle")
    /\ mutex = None
    /\ worker # None
    /\ worker' = None /\ channel' = None
    /\ UNCHANGED <<mutex, session, callback, stub, threadVars, connects, process, history>>

\* disconnect() without a worker, and with one, whose destructor it runs under
\* the mutex.
DisconnectIdle(a) ==
    /\ At(a, "idle")
    /\ mutex = None
    /\ worker = None
    /\ channel' = None
    /\ UNCHANGED <<mutex, session, worker, callback, stub, threadVars,
                   connects, process, history>>

Disconnect(a) ==
    /\ At(a, "idle")
    /\ worker # None
    /\ Lock(a)
    /\ ending' = [ending EXCEPT ![a] = worker]
    /\ worker' = None
    /\ Goto(a, "stop")
    /\ UNCHANGED <<channel, session, callback, stub, exitSignal, connects, process, history>>

\* The thread of the old worker is joined; then disconnect() resets the channel
\* and connect() starts the new worker.
Join(a) ==
    /\ At(a, "join")
    /\ pc[ending[a]] = "done"
    /\ ending' = [ending EXCEPT ![a] = None]
    /\ Unlock
    /\ IF worker = None
       THEN channel' = None /\ Goto(a, "idle")
       ELSE /\ pc' = [pc EXCEPT ![a] = "idle", ![worker] = "loop"]
            /\ UNCHANGED channel
    /\ UNCHANGED <<session, worker, callback, stub, exitSignal, connects, process, history>>

\* A callback, or an empty function.
SetCallback(a) ==
    /\ At(a, "idle")
    /\ mutex = None
    /\ \E f \in Callbacks \cup {None} :
        /\ callback' = f
        /\ heard' = (heard /\ f # None)
    /\ UNCHANGED <<mutex, channel, session, worker, stub, threadVars,
                   connects, process, failures, told>>

-----------------------------------------------------------------------------
\* SqlRequest::exec, which a program calls while it is connected.  Before the
\* call has the mutex, another thread may have changed that.

Exec(a) ==
    /\ At(a, "idle")
    /\ mutex = None
    /\ channel # None
    /\ Goto(a, "context")
    /\ UNCHANGED <<mutex, channelVars, ending, exitSignal, connects, process, history>>

\* createContext(): assert(_channel != nullptr), then the session id is read.
CreateContext(a) ==
    /\ At(a, "context")
    /\ mutex = None
    /\ IF channel = None THEN Abort /\ UNCHANGED pc
                         ELSE Goto(a, "stub") /\ UNCHANGED process
    /\ UNCHANGED <<mutex, channelVars, ending, exitSignal, connects, history>>

\* Mutant of Stub: instance() does not take the mutex.
Stub_NoLock(a) ==
    /\ At(a, "stub")
    /\ IF stub = None /\ channel = None
       THEN Abort /\ UNCHANGED <<pc, stub>>
       ELSE /\ stub' = IF stub = None THEN channel ELSE stub
            /\ Goto(a, "idle")
            /\ UNCHANGED process
    /\ UNCHANGED <<mutex, channel, session, worker, callback, ending,
                   exitSignal, connects, history>>

\* stub(): made once, from the channel instance() returns under the mutex, and
\* kept.  The request is sent on it.
Stub(a) ==
    /\ At(a, "stub")
    /\ IF stub # None
       THEN Goto(a, "idle") /\ UNCHANGED <<stub, process>>
       ELSE /\ mutex = None
            /\ IF channel = None
               THEN Abort /\ UNCHANGED <<pc, stub>>
               ELSE stub' = channel /\ Goto(a, "idle") /\ UNCHANGED process
    /\ UNCHANGED <<mutex, channel, session, worker, callback, ending,
                   exitSignal, connects, history>>

-----------------------------------------------------------------------------
\* The thread of keep-alive worker g: KeepAliveWorker::process and keepAlive()

\* while (!isStopRequested()): rounds in which nothing is due change nothing.
Loop(g) ==
    /\ At(g, "loop")
    /\ Goto(g, IF g \in exitSignal THEN "done" ELSE "lock")
    /\ UNCHANGED <<mutex, channelVars, ending, exitSignal, connects, process, history>>

\* keepAlive() takes the mutex and asserts that there is a channel.
KeepAlive(g) ==
    /\ At(g, "lock")
    /\ Lock(g)
    /\ IF channel = None THEN Abort /\ UNCHANGED pc
                         ELSE Goto(g, "rpc") /\ UNCHANGED process
    /\ UNCHANGED <<channelVars, ending, exitSignal, connects, history>>

KeepAliveOk(g) ==
    /\ At(g, "rpc")
    /\ Unlock
    /\ Goto(g, "loop")
    /\ UNCHANGED <<channelVars, ending, exitSignal, connects, process, history>>

\* Mutant of KeepAliveFails: the error is returned before the callback is called.
KeepAliveFails_EarlyReturn(g) ==
    /\ At(g, "rpc")
    /\ failures' = [failures EXCEPT ![g] = @ + 1]
    /\ Unlock
    /\ Goto(g, "stop")
    /\ UNCHANGED <<channelVars, ending, exitSignal, connects, process, told, heard>>

\* The call or the session has failed: the callback, if any, is called next.
KeepAliveFails(g) ==
    /\ At(g, "rpc")
    /\ failures' = [failures EXCEPT ![g] = @ + 1]
    /\ Goto(g, "callback")
    /\ UNCHANGED <<mutex, channelVars, ending, exitSignal, connects, process, told, heard>>

\* Mutant of Callback: the worker goes on after an error.
Callback_GoOn(g) ==
    /\ At(g, "callback")
    /\ callback # "reenters"
    /\ told' = IF callback = None THEN told ELSE told \cup {g}
    /\ Unlock
    /\ Goto(g, "loop")
    /\ UNCHANGED <<channelVars, ending, exitSignal, connects, process,
                   failures, heard>>

\* The callback, if there is one, runs under the mutex; one that calls into
\* ClientChannel waits for its own thread and never returns.  After it the mutex is
\* given back and the worker stops itself.
Callback(g) ==
    /\ At(g, "callback")
    /\ callback # "reenters"
    /\ told' = IF callback = None THEN told ELSE told \cup {g}
    /\ Unlock
    /\ Goto(g, "stop")
    /\ UNCHANGED <<channelVars, ending, exitSignal, connects, process,
                   failures, heard>>

AppStep(a) ==
    \/ Connect(a) \/ ConnectFails(a) \/ LoginOkFirst(a) \/ LoginOkAgain(a)
    \/ DisconnectIdle(a) \/ Disconnect(a) \/ Join(a) \/ SetCallback(a)
    \/ Exec(a) \/ CreateContext(a) \/ Stub(a)

WorkerStep(g) ==
    \/ Loop(g) \/ KeepAlive(g) \/ KeepAliveOk(g) \/ KeepAliveFails(g) \/ Callback(g)

Next ==
    \/ \E a \in Apps : AppStep(a)
    \/ \E g \in Gens : WorkerStep(g)
    \/ \E t \in Threads : StopRequest(t) \/ SetValue(t)

Spec == Init /\ [][Next]_vars

\* What a thread has begun it goes on with: the server answers and the scheduler
\* is fair.  No thread of the program has to begin anything.
Fairness ==
    /\ \A t \in Threads : WF_vars(StopRequest(t) \/ SetValue(t))
    /\ \A g \in Gens : WF_vars(WorkerStep(g))
    /\ \A a \in Apps : WF_vars(ConnectFails(a) \/ LoginOkFirst(a) \/ LoginOkAgain(a)
                               \/ Join(a) \/ CreateContext(a) \/ Stub(a))

FairSpec == Spec /\ Fairness

-----------------------------------------------------------------------------
\* Properties

Running(g) == pc[g] \notin {"new", "done"}

\* At most one keep-alive thread runs, through any order of connects,
\* reconnects and disconnects of several threads: a session is not confirmed by
\* a thread the channel has already replaced.
OneKeeper == \A g, h \in Gens : Running(g) /\ Running(h) => g = h

\* Whenever the mutex is free and there is a channel, its own session is in use
\* and its own worker keeps it alive, or the callback was told of the failure.  A
\* session is left to expire in silence only where no callback was registered at
\* some moment since its login: then a failure tells nobody.
ConnectedMeansKept ==
    mutex = None /\ channel # None =>
        /\ session = channel
        /\ worker = channel
        /\ Running(channel) \/ channel \in told \/ ~heard

\* A running worker, whose next confirmation asserts that there is a channel, finds
\* none only after a later connect() has failed, which took the channel and left
\* the worker.  No disconnect(), by whatever thread, takes it from under a worker.
OnlyReconnectTakesChannel ==
    mutex = None /\ channel = None =>
        \A g \in Gens : Running(g) => g = worker /\ g < connects

\* A worker meets one failure at most, and then stops.
ReportedOnce == \A g \in Gens : failures[g] <= 1

\* Requests go out only over a channel whose login has succeeded, never over one
\* that a concurrent connect() is still logging in or has given up.
StubLoggedIn == stub # None => pc[stub] # "new"

\* A StoppableWorker ends its thread correctly: whoever destroys a worker, in
\* disconnect() or in a second connect(), gets past the join.
DestructionEnds == \A a \in Apps : pc[a] = "join" ~> pc[a] = "idle"

\* Stopping a worker and connecting again never terminate the program.
NeverAborts == process = "running"
=============================================================================
