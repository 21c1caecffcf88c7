---------------------------- MODULE RequestServer ----------------------------
(***************************************************************************)
(* The request pipeline of server_lib: sl::Server starts a fixed number of *)
(* RequestWorker threads which all poll one gRPC completion queue.  The    *)
(* tag of every queue event is the address of a RequestProcessor, an       *)
(* object that carries one unary call through CREATE, PROCESS and FINISH   *)
(* and then deletes itself.  An event may be taken by any worker, so the   *)
(* life of one processor is spread over several threads and the only thing *)
(* that keeps two threads off one object is the discipline checked here.   *)
(*                                                                         *)
(* gRPC is external and modelled by what sl_server.cpp and                 *)
(* sl_request_processor.h rely on: a registered processor is matched with  *)
(* at most one incoming call, a Finish completes once, and Shutdown returns*)
(* every outstanding tag to the queue.  The verdict of                     *)
(* UserValidator::checkSession is an arbitrary BOOLEAN here; module        *)
(* SessionManager models how it comes about.                               *)
(***************************************************************************)
EXTENDS Naturals, Sequences

CONSTANTS
    Workers,        \* the RequestWorker threads
    MethodOrder,    \* methods in the order runRequestProcessorsPool arms them
    AuthMethods,    \* methods of the auth service, which need no session
    Calls,          \* the client calls
    Processors,     \* addresses a RequestProcessor can be allocated at
    Allocate(_),    \* the addresses operator new may return when a set is free
    AssertsCompiled,\* FALSE in a build with NDEBUG, where assert(e) drops e
    None

Methods == {MethodOrder[i] : i \in DOMAIN MethodOrder}
Codes   == {"OK", "INVALID_ARGUMENT", "UNAUTHENTICATED"}

ASSUME MethodOrderAssumption ==
    /\ MethodOrder \in Seq(Methods)
    /\ \A i, j \in DOMAIN MethodOrder : MethodOrder[i] = MethodOrder[j] => i = j
ASSUME NoneAssumption ==
    /\ None \notin Workers \cup Methods \cup Calls \cup Processors
    /\ None \notin Codes
ASSUME AllocateAssumption ==
    \A S \in SUBSET Processors : Allocate(S) \subseteq S /\ (S # {} => Allocate(S) # {})
ASSUME AssertsAssumption == AssertsCompiled \in BOOLEAN

VARIABLES
    proc,           \* the processor objects by address
    requested,      \* processors registered by Service::RequestXxx
    sending,        \* processors whose Finish has not completed
    cq,             \* tags of the events waiting in the completion queue
    pc,             \* where each worker thread is
    tag,            \* the processor a worker got from AsyncNext
    rp,             \* the processor a worker has just created
    code,           \* the StatusCode a worker passes to run()
    armed,          \* how many methods of the pool a worker has armed
    stopRequested,  \* workers whose StoppableWorker flag is set
    serverPc,       \* the thread of Server::process
    mainPc,         \* the thread that calls Server::stop
    callState,      \* each call as gRPC and the client see it
    request,        \* what the client asked in each call
    validated,      \* calls whose session checkSession has accepted
    handled,        \* how often handleRequest ran for each call
    reply           \* the status passed to Finish for each call

grpcVars   == <<requested, sending, cq>>
workerVars == <<pc, tag, rp, code, armed>>
serverVars == <<stopRequested, serverPc, mainPc>>
callVars   == <<callState, request, validated, handled, reply>>
vars == <<proc, grpcVars, workerVars, serverVars, callVars>>

Free    == [status |-> "free", method |-> None, owner |-> None, call |-> None]
Request == [method : Methods, session : BOOLEAN]

\* A RequestProcessor: _status, its class, worker(), and the call that _context
\* and _request belong to once gRPC has filled them in.
Processor ==
    [status : {"free", "CREATE", "PROCESS", "FINISH"},
     method : Methods \cup {None},
     owner  : Workers \cup {None},
     call   : Calls \cup {None}]

WorkerPcs == {"new", "pool", "loop", "poll", "validate", "run", "arm",
              "handle", "finish", "post", "done"}

\* One type invariant: every variable ranges over the values its C++ type and
\* the enumerations of the code allow.
TypeOK ==
    /\ proc \in [Processors -> Processor]
    /\ requested \in SUBSET Processors
    /\ sending \in SUBSET Processors
    /\ cq \in SUBSET Processors
    /\ pc \in [Workers -> WorkerPcs]
    /\ tag \in [Workers -> Processors \cup {None}]
    /\ rp \in [Workers -> Processors \cup {None}]
    /\ code \in [Workers -> Codes]
    /\ armed \in [Workers -> 0 .. Len(MethodOrder)]
    /\ stopRequested \in SUBSET Workers
    /\ serverPc \in {"building", "starting", "serving", "stopping", "joining", "done"}
    /\ mainPc \in {"running", "joining", "shutdown", "draining", "stopped"}
    /\ callState \in [Calls -> {"idle", "pending", "accepted", "replied",
                                "cancelled", "rejected"}]
    /\ request \in [Calls -> Request \cup {None}]
    /\ validated \in SUBSET Calls
    /\ handled \in [Calls -> Nat]
    /\ reply \in [Calls -> Codes \cup {None}]

Init ==
    /\ proc = [p \in Processors |-> Free]
    /\ requested = {} /\ sending = {} /\ cq = {}
    /\ pc = [w \in Workers |-> "new"]
    /\ tag = [w \in Workers |-> None]
    /\ rp = [w \in Workers |-> None]
    /\ code = [w \in Workers |-> "OK"]
    /\ armed = [w \in Workers |-> 0]
    /\ stopRequested = {}
    /\ serverPc = "building"
    /\ mainPc = "running"
    /\ callState = [c \in Calls |-> "idle"]
    /\ request = [c \in Calls |-> None]
    /\ validated = {}
    /\ handled = [c \in Calls |-> 0]
    /\ reply = [c \in Calls |-> None]

-----------------------------------------------------------------------------
\* Processors

\* The object whose run() worker w executes: the nested rp->run(OK) or p->run(OK)
\* of a processor just created, otherwise the one the event named.
Current(w) == IF rp[w] # None THEN rp[w] ELSE tag[w]

Goto(w, label) == pc' = [pc EXCEPT ![w] = label]

\* new ClassName(queue(), worker()): a free address, status CREATE.  w runs
\* the constructor, own is the worker() stored in the object.
CreateProcessor(w, m, own) ==
    \E p \in Allocate({q \in Processors : proc[q] = Free}) :
        /\ proc' = [proc EXCEPT ![p] = [status |-> "CREATE", method |-> m,
                                        owner |-> own, call |-> None]]
        /\ rp' = [rp EXCEPT ![w] = p]

SetStatus(p, s) == proc' = [proc EXCEPT ![p].status = s]

\* run() in CREATE, first statement.  The status is set before the processor is
\* registered: from then on another worker may be given it.
RunCreate(w) ==
    /\ pc[w] = "run"
    /\ proc[Current(w)].status = "CREATE"
    /\ SetStatus(Current(w), "PROCESS")
    /\ Goto(w, "arm")
    /\ UNCHANGED <<grpcVars, tag, rp, code, armed, serverVars, callVars>>

\* run() in CREATE, waitForRequest(): register and return to the caller, the
\* pool, the PROCESS branch that created the processor, or the event loop.
WaitForRequest(w) ==
    /\ pc[w] = "arm"
    /\ requested' = requested \cup {Current(w)}
    /\ rp' = [rp EXCEPT ![w] = None]
    /\ tag' = [tag EXCEPT ![w] = IF rp[w] # None THEN @ ELSE None]
    /\ Goto(w, IF rp[w] = None THEN "loop"
               ELSE IF tag[w] = None THEN "pool" ELSE "handle")
    /\ UNCHANGED <<proc, sending, cq, code, armed, serverVars, callVars>>

\* Mutant of Spawn: the next acceptor is created for accepted requests only.
Spawn_OnlyWhenOk(w) ==
    /\ pc[w] = "run"
    /\ proc[Current(w)].status = "PROCESS"
    /\ IF code[w] = "OK"
       THEN /\ CreateProcessor(w, proc[Current(w)].method, proc[Current(w)].owner)
            /\ UNCHANGED <<grpcVars, pc, tag, code, armed, serverVars, callVars>>
       ELSE /\ Goto(w, "handle")
            /\ UNCHANGED <<proc, grpcVars, tag, rp, code, armed, serverVars, callVars>>

\* run() in PROCESS, createRequestProcessor(): whatever the code says, the
\* method gets its next acceptor before this call is worked on.
Spawn(w) ==
    /\ pc[w] = "run"
    /\ proc[Current(w)].status = "PROCESS"
    /\ CreateProcessor(w, proc[Current(w)].method, proc[Current(w)].owner)
    /\ UNCHANGED <<grpcVars, pc, tag, code, armed, serverVars, callVars>>

\* Mutant of Handle: the test of the status code is missing.
Handle_AnyCode(w) ==
    /\ pc[w] = "handle"
    /\ handled' = [handled EXCEPT ![proc[tag[w]].call] = @ + 1]
    /\ Goto(w, "finish")
    /\ UNCHANGED <<proc, grpcVars, tag, rp, code, armed, serverVars,
                   callState, request, validated, reply>>

\* Mutant of Handle: a worker asked to stop leaves right after the handler.
Handle_BreakOnStop(w) ==
    /\ pc[w] = "handle"
    /\ handled' = IF code[w] = "OK" /\ AssertsCompiled
                  THEN [handled EXCEPT ![proc[tag[w]].call] = @ + 1]
                  ELSE handled
    /\ Goto(w, IF w \in stopRequested THEN "done" ELSE "finish")
    /\ UNCHANGED <<proc, grpcVars, tag, rp, code, armed, serverVars,
                   callState, request, validated, reply>>

\* run() in PROCESS, `if (code == OK) assert(handleRequest())`: with NDEBUG the
\* assertion, and the handler inside it, is compiled out.
Handle(w) ==
    /\ pc[w] = "handle"
    /\ handled' = IF code[w] = "OK" /\ AssertsCompiled
                  THEN [handled EXCEPT ![proc[tag[w]].call] = @ + 1]
                  ELSE handled
    /\ Goto(w, "finish")
    /\ UNCHANGED <<proc, grpcVars, tag, rp, code, armed, serverVars,
                   callState, request, validated, reply>>

\* Mutant of SetFinished: the assignment is missing.
SetFinished_Forgotten(w) ==
    /\ pc[w] = "finish"
    /\ Goto(w, "post")
    /\ UNCHANGED <<proc, grpcVars, tag, rp, code, armed, serverVars, callVars>>

\* run() in PROCESS, `_status = FINISH`.
SetFinished(w) ==
    /\ pc[w] = "finish"
    /\ SetStatus(tag[w], "FINISH")
    /\ Goto(w, "post")
    /\ UNCHANGED <<grpcVars, tag, rp, code, armed, serverVars, callVars>>

\* Mutant of PostFinish: the tag handed to gRPC is not `this` but null.
PostFinish_NullTag(w) ==
    /\ pc[w] = "post"
    /\ sending' = sending \cup {rp[w]}
    /\ reply' = [reply EXCEPT ![proc[tag[w]].call] = code[w]]
    /\ tag' = [tag EXCEPT ![w] = None]
    /\ Goto(w, "loop")
    /\ UNCHANGED <<proc, requested, cq, rp, code, armed, serverVars,
                   callState, request, validated, handled>>

\* Mutant of PostFinish: `delete this` right after Finish, as a synchronous
\* handler would do.
PostFinish_DeleteNow(w) ==
    /\ pc[w] = "post"
    /\ sending' = sending \cup {tag[w]}
    /\ reply' = [reply EXCEPT ![proc[tag[w]].call] = code[w]]
    /\ proc' = [proc EXCEPT ![tag[w]] = Free]
    /\ tag' = [tag EXCEPT ![w] = None]
    /\ Goto(w, "loop")
    /\ UNCHANGED <<requested, cq, rp, code, armed, serverVars,
                   callState, request, validated, handled>>

\* Mutant of PostFinish: refused calls are dropped without a Finish.
PostFinish_OnlyOk(w) ==
    /\ pc[w] = "post"
    /\ IF code[w] = "OK"
       THEN /\ sending' = sending \cup {tag[w]}
            /\ reply' = [reply EXCEPT ![proc[tag[w]].call] = code[w]]
       ELSE UNCHANGED <<sending, reply>>
    /\ tag' = [tag EXCEPT ![w] = None]
    /\ Goto(w, "loop")
    /\ UNCHANGED <<proc, requested, cq, rp, code, armed, serverVars,
                   callState, request, validated, handled>>

\* run() in PROCESS, _responder.Finish(_reply, Status(code), this), after which
\* the worker no longer touches the object.
PostFinish(w) ==
    /\ pc[w] = "post"
    /\ sending' = sending \cup {tag[w]}
    /\ reply' = [reply EXCEPT ![proc[tag[w]].call] = code[w]]
    /\ tag' = [tag EXCEPT ![w] = None]
    /\ Goto(w, "loop")
    /\ UNCHANGED <<proc, requested, cq, rp, code, armed, serverVars,
                   callState, request, validated, handled>>

\* run() in FINISH: GPR_ASSERT and `delete this`.
Delete(w) ==
    /\ pc[w] = "run"
    /\ proc[Current(w)].status = "FINISH"
    /\ proc' = [proc EXCEPT ![Current(w)] = Free]
    /\ tag' = [tag EXCEPT ![w] = None]
    /\ Goto(w, "loop")
    /\ UNCHANGED <<grpcVars, rp, code, armed, serverVars, callVars>>

-----------------------------------------------------------------------------
\* RequestWorker threads

\* runRequestProcessorsPool(): the next processor of the pool, then p->run(OK).  The
\* code makes the processors of a service first and then runs them; nobody sees a
\* processor before it is run.
PoolCreate(w) ==
    /\ pc[w] = "pool"
    /\ armed[w] < Len(MethodOrder)
    /\ CreateProcessor(w, MethodOrder[armed[w] + 1], w)
    /\ armed' = [armed EXCEPT ![w] = @ + 1]
    /\ Goto(w, "run")
    /\ UNCHANGED <<grpcVars, tag, code, serverVars, callVars>>

PoolReady(w) ==
    /\ pc[w] = "pool"
    /\ armed[w] = Len(MethodOrder)
    /\ Goto(w, "loop")
    /\ UNCHANGED <<proc, grpcVars, tag, rp, code, armed, serverVars, callVars>>

\* Mutant of CheckStop: a worker stops only when no processor stands registered.
CheckStop_OnlyWhenIdle(w) ==
    /\ pc[w] = "loop"
    /\ Goto(w, IF w \in stopRequested /\ requested = {} THEN "done" ELSE "poll")
    /\ UNCHANGED <<proc, grpcVars, tag, rp, code, armed, serverVars, callVars>>

\* while (!isStopRequested()).  The flag is read once per round: an event taken
\* after the stop request is still worked on to the end.
CheckStop(w) ==
    /\ pc[w] = "loop"
    /\ Goto(w, IF w \in stopRequested THEN "done" ELSE "poll")
    /\ UNCHANGED <<proc, grpcVars, tag, rp, code, armed, serverVars, callVars>>

\* AsyncNext returns GOT_EVENT.  `ok` is ignored by the code and not modelled.
GetEvent(w) ==
    /\ pc[w] = "poll"
    /\ \E p \in cq :
        /\ cq' = cq \ {p}
        /\ tag' = [tag EXCEPT ![w] = p]
    /\ Goto(w, "validate")
    /\ UNCHANGED <<proc, requested, sending, rp, code, armed, serverVars, callVars>>

\* AsyncNext returns TIMEOUT after 100 ms without an event.
PollTimeout(w) ==
    /\ pc[w] = "poll"
    /\ cq = {}
    /\ Goto(w, "loop")
    /\ UNCHANGED <<proc, grpcVars, tag, rp, code, armed, serverVars, callVars>>

\* extractUserValidationInfo and checkSession.  They run for every event, for
\* the completion of a Finish as for the arrival of a call.
NeedsSession(p) == proc[p].method \notin AuthMethods
HasSession(p)   == request[proc[p].call].session

\* Mutant of Validate: a call without a session id is refused like one whose
\* session has ended.
Validate_OneCode(w) ==
    /\ pc[w] = "validate"
    /\ LET p == tag[w] IN
        \/ /\ ~NeedsSession(p)
           /\ code' = [code EXCEPT ![w] = "OK"]
           /\ UNCHANGED validated
        \/ /\ NeedsSession(p)
           /\ code' = [code EXCEPT ![w] = "UNAUTHENTICATED"]
           /\ UNCHANGED validated
        \/ /\ NeedsSession(p) /\ HasSession(p)
           /\ code' = [code EXCEPT ![w] = "OK"]
           /\ validated' = validated \cup {proc[p].call}
    /\ Goto(w, "run")
    /\ UNCHANGED <<proc, grpcVars, tag, rp, armed, serverVars,
                   callState, request, handled, reply>>

\* Mutant of Validate: the result of checkSession is not looked at.
Validate_VerdictIgnored(w) ==
    /\ pc[w] = "validate"
    /\ LET p == tag[w] IN
        /\ code' = [code EXCEPT ![w] = IF NeedsSession(p) /\ ~HasSession(p)
                                       THEN "INVALID_ARGUMENT" ELSE "OK"]
        /\ \/ UNCHANGED validated
           \/ /\ NeedsSession(p) /\ HasSession(p)
              /\ validated' = validated \cup {proc[p].call}
    /\ Goto(w, "run")
    /\ UNCHANGED <<proc, grpcVars, tag, rp, armed, serverVars,
                   callState, request, handled, reply>>

Validate(w) ==
    /\ pc[w] = "validate"
    /\ LET p == tag[w] IN
        \/ /\ ~NeedsSession(p)
           /\ code' = [code EXCEPT ![w] = "OK"]
           /\ UNCHANGED validated
        \/ /\ NeedsSession(p) /\ ~HasSession(p)
           /\ code' = [code EXCEPT ![w] = "INVALID_ARGUMENT"]
           /\ UNCHANGED validated
        \/ /\ NeedsSession(p) /\ HasSession(p)
           /\ code' = [code EXCEPT ![w] = "UNAUTHENTICATED"]
           /\ UNCHANGED validated
        \/ /\ NeedsSession(p) /\ HasSession(p)
           /\ code' = [code EXCEPT ![w] = "OK"]
           /\ validated' = validated \cup {proc[p].call}
    /\ Goto(w, "run")
    /\ UNCHANGED <<proc, grpcVars, tag, rp, armed, serverVars,
                   callState, request, handled, reply>>

WorkerStep(w) ==
    \/ PoolCreate(w) \/ PoolReady(w)
    \/ CheckStop(w) \/ GetEvent(w) \/ PollTimeout(w) \/ Validate(w)
    \/ RunCreate(w) \/ WaitForRequest(w)
    \/ Spawn(w) \/ Handle(w) \/ SetFinished(w) \/ PostFinish(w) \/ Delete(w)

-----------------------------------------------------------------------------
\* Server::process and Server::stop

BuildAndStart ==
    /\ serverPc = "building"
    /\ serverPc' = "starting"
    /\ UNCHANGED <<proc, grpcVars, workerVars, stopRequested, mainPc, callVars>>

\* One round of the loop of w->start().
StartWorker(w) ==
    /\ serverPc = "starting"
    /\ pc[w] = "new"
    /\ Goto(w, "pool")
    /\ serverPc' = IF \A v \in Workers \ {w} : pc[v] # "new" THEN "serving" ELSE serverPc
    /\ UNCHANGED <<proc, grpcVars, tag, rp, code, armed, stopRequested, mainPc, callVars>>

\* The 100 ms loop sees the flag set by Server::stop.
SeeStop ==
    /\ serverPc = "serving"
    /\ mainPc # "running"
    /\ serverPc' = "stopping"
    /\ UNCHANGED <<proc, grpcVars, workerVars, stopRequested, mainPc, callVars>>

\* One round of the loop of w->stopRequest().
StopWorker(w) ==
    /\ serverPc = "stopping"
    /\ w \notin stopRequested
    /\ stopRequested' = stopRequested \cup {w}
    /\ serverPc' = IF stopRequested' = Workers THEN "joining" ELSE serverPc
    /\ UNCHANGED <<proc, grpcVars, workerVars, mainPc, callVars>>

\* Mutant of JoinWorkers: the loop of w->stopWait() is missing.
JoinWorkers_NoWait ==
    /\ serverPc = "joining"
    /\ serverPc' = "done"
    /\ UNCHANGED <<proc, grpcVars, workerVars, stopRequested, mainPc, callVars>>

\* The loops of w->stopWait() and `delete w`: every worker thread is joined.
JoinWorkers ==
    /\ serverPc = "joining"
    /\ \A w \in Workers : pc[w] = "done"
    /\ serverPc' = "done"
    /\ UNCHANGED <<proc, grpcVars, workerVars, stopRequested, mainPc, callVars>>

ServerStep ==
    \/ BuildAndStart \/ SeeStop \/ JoinWorkers
    \/ \E w \in Workers : StartWorker(w) \/ StopWorker(w)

\* Server::stop(): stopRequest(), then _thread->join().
Stop ==
    /\ mainPc = "running"
    /\ mainPc' = "joining"
    /\ UNCHANGED <<proc, grpcVars, workerVars, stopRequested, serverPc, callVars>>

JoinServer ==
    /\ mainPc = "joining"
    /\ serverPc = "done"
    /\ mainPc' = "shutdown"
    /\ UNCHANGED <<proc, grpcVars, workerVars, stopRequested, serverPc, callVars>>

\* _server->Shutdown(now + 3 s) returns, then _queue->Shutdown(): calls nobody
\* accepted are refused, calls nobody answered are cancelled, and every
\* registered processor and unfinished Finish comes back as an event.
Shutdown ==
    /\ mainPc = "shutdown"
    /\ mainPc' = "draining"
    /\ cq' = cq \cup requested \cup sending
    /\ requested' = {} /\ sending' = {}
    /\ callState' = [c \in Calls |-> CASE callState[c] = "pending"  -> "rejected"
                                       [] callState[c] = "accepted" -> "cancelled"
                                       [] OTHER -> callState[c]]
    /\ UNCHANGED <<proc, workerVars, stopRequested, serverPc,
                   request, validated, handled, reply>>

\* while (_queue->Next(&got_tag, &ok)) {}: the tags are dropped, the processors
\* they point to are not deleted.
Drain ==
    /\ mainPc = "draining"
    /\ \/ \E p \in cq : cq' = cq \ {p} /\ mainPc' = mainPc
       \/ cq = {} /\ cq' = cq /\ mainPc' = "stopped"
    /\ UNCHANGED <<proc, requested, sending, workerVars, stopRequested, serverPc, callVars>>

Terminated == mainPc = "stopped" /\ UNCHANGED vars

MainStep == JoinServer \/ Shutdown \/ Drain

-----------------------------------------------------------------------------
\* Clients and the gRPC library (external)

\* Calls come in until Shutdown, also when no worker is there any more to take them.
Listening == serverPc # "building" /\ mainPc \in {"running", "joining", "shutdown"}

Call(c) ==
    /\ Listening
    /\ callState[c] = "idle"
    /\ \E r \in Request : request' = [request EXCEPT ![c] = r]
    /\ callState' = [callState EXCEPT ![c] = "pending"]
    /\ UNCHANGED <<proc, grpcVars, workerVars, serverVars, validated, handled, reply>>

\* The client gives up or its deadline passes.
Cancel(c) ==
    /\ callState[c] \in {"pending", "accepted"}
    /\ callState' = [callState EXCEPT ![c] = "cancelled"]
    /\ UNCHANGED <<proc, grpcVars, workerVars, serverVars,
                   request, validated, handled, reply>>

\* gRPC matches a pending call with a processor registered for its method.
Accept(c) ==
    /\ callState[c] = "pending"
    /\ \E p \in requested :
        /\ proc[p].method = request[c].method
        /\ requested' = requested \ {p}
        /\ cq' = cq \cup {p}
        /\ proc' = [proc EXCEPT ![p].call = c]
    /\ callState' = [callState EXCEPT ![c] = "accepted"]
    /\ UNCHANGED <<sending, workerVars, serverVars, request, validated, handled, reply>>

\* The Finish of p completes; the reply reaches a client that still waits.
SendDone(p) ==
    /\ p \in sending
    /\ sending' = sending \ {p}
    /\ cq' = cq \cup {p}
    /\ callState' = [c \in Calls |-> IF c = proc[p].call /\ callState[c] = "accepted"
                                     THEN "replied" ELSE callState[c]]
    /\ UNCHANGED <<proc, requested, workerVars, serverVars,
                   request, validated, handled, reply>>

Next ==
    \/ \E w \in Workers : WorkerStep(w)
    \/ ServerStep
    \/ Stop \/ MainStep \/ Terminated
    \/ \E c \in Calls : Call(c) \/ Cancel(c) \/ Accept(c)
    \/ \E p \in Processors : SendDone(p)

Spec == Init /\ [][Next]_vars

\* Threads are scheduled, gRPC matches and delivers; nobody has to call, cancel
\* or stop the server.
Fairness ==
    /\ \A w \in Workers : WF_vars(WorkerStep(w))
    /\ WF_vars(ServerStep)
    /\ WF_vars(MainStep)
    /\ \A c \in Calls : WF_vars(Accept(c))
    /\ \A p \in Processors : WF_vars(SendDone(p))

FairSpec == Spec /\ Fairness
-----------------------------------------------------------------------------
\* Properties

InHand(w) == {tag[w], rp[w]} \ {None}
AtGrpc    == requested \cup sending \cup cq
Places    == AtGrpc \cup UNION {InHand(w) : w \in Workers}
Live      == {p \in Processors : proc[p] # Free}
Up        == mainPc \in {"running", "joining"}

\* No use after free and no two threads on one processor.  A processor is in at
\* most one place: registered, waiting for its Finish, named by one queued
\* event, or in the hands of one worker; no place refers to a deleted one, and
\* until Server::stop drops the events none is lost.  This is what makes
\* run() and `delete this` safe without a lock.
OneOwner ==
    /\ requested \cap sending = {}
    /\ requested \cap cq = {}
    /\ sending \cap cq = {}
    /\ \A w \in Workers : InHand(w) \cap AtGrpc = {}
    /\ \A w \in Workers : tag[w] # None => tag[w] # rp[w]
    /\ \A v, w \in Workers : v # w => InHand(v) \cap InHand(w) = {}
    /\ Places \subseteq Live
    /\ mainPc \notin {"draining", "stopped"} => Live \subseteq Places

\* run() always finds the status that belongs to the event: an arriving call
\* finds PROCESS, a completed Finish finds FINISH (GPR_ASSERT never fires), and
\* no worker is ever given a registration that carries no call, the event
\* Shutdown makes with ok == false and process() would not notice.
StatusMatchesEvent ==
    /\ \A p \in requested : proc[p].status = "PROCESS" /\ proc[p].call = None
    /\ \A p \in sending : proc[p].status = "FINISH" /\ proc[p].call # None
    /\ Up => \A p \in cq : proc[p].status \in {"PROCESS", "FINISH"} /\ proc[p].call # None
    /\ \A w \in Workers :
        /\ tag[w] # None =>
             /\ proc[tag[w]].call # None
             /\ pc[w] \in {"validate", "run"} => proc[tag[w]].status \in {"PROCESS", "FINISH"}
             /\ pc[w] \in {"arm", "handle", "finish"} => proc[tag[w]].status = "PROCESS"
             /\ pc[w] = "post" => proc[tag[w]].status = "FINISH"
        /\ rp[w] # None => proc[rp[w]].status = IF pc[w] = "arm" THEN "PROCESS" ELSE "CREATE"

\* A processor that stands, or is about to stand, for the next call of its method.
IsAcceptor(p) ==
    \/ p \in requested
    \/ p \in cq /\ proc[p].status = "PROCESS"
    \/ \E w \in Workers :
        \/ rp[w] = p
        \/ tag[w] = p /\ rp[w] = None /\ pc[w] \in {"validate", "run"}
                      /\ proc[p].status = "PROCESS"

\* The pool neither shrinks nor grows: while the server is up every worker that
\* has armed a method keeps exactly one acceptor for it, whichever workers take
\* its events and whatever status code they run them with.  Losing one would
\* leave a method that never answers again; doubling one is an endless leak.
AcceptorPerWorkerAndMethod ==
    Up => \A w \in Workers : \A i \in DOMAIN MethodOrder :
            LET mine == {p \in Processors : /\ proc[p].owner = w
                                            /\ proc[p].method = MethodOrder[i]
                                            /\ IsAcceptor(p)}
            IN IF i <= armed[w] THEN \E p \in mine : mine = {p} ELSE mine = {}

\* A call that is answered OK was handled exactly once, and a call refused with
\* an error code was not handled at all: the status on the wire tells the client
\* whether its request had an effect.
ReplyTellsHandling ==
    \A c \in Calls :
        /\ handled[c] <= 1
        /\ reply[c] = "OK" => handled[c] = 1
        /\ reply[c] \in {"INVALID_ARGUMENT", "UNAUTHENTICATED"} => handled[c] = 0

\* The comment on `assert(handleRequest())`, that for a unary call the method
\* returns TRUE always, takes for granted that it is called: OK means handled.
OkMeansHandled == \A c \in Calls : reply[c] = "OK" => handled[c] = 1

\* No handler outside the auth service runs for a call whose own session has not
\* passed checkSession, although one queue mixes the events of all calls.
OnlyValidatedHandled ==
    \A c \in Calls : handled[c] > 0 =>
        \/ request[c].method \in AuthMethods
        \/ request[c].session /\ c \in validated

\* Stopping never abandons a call between its handler and its reply: when
\* Server::process has joined the workers, everything handled was answered.
StopFinishesHandled ==
    serverPc = "done" => \A c \in Calls : handled[c] > 0 => reply[c] # None

\* From the join of the workers on nothing works on a request: no processor is
\* created, registered, changed or deleted under Server::stop, so the final
\* drain of the queue ends.
QuietAfterJoin ==
    [][serverPc = "done" => /\ requested' \subseteq requested
                            /\ UNCHANGED <<workerVars, handled, reply>>
                            /\ \A p \in Processors \ requested : proc'[p] = proc[p]]_vars

\* The server implements CallService: whichever workers take the events of a call,
\* whatever its client does meanwhile and whenever the server is stopped, each
\* step is seen from outside as one step in the life of one call, as the end of
\* the service, or not at all.
Service == INSTANCE CallService WITH
              client   <- [c \in Calls |-> IF callState[c] \in {"pending", "accepted"}
                                           THEN "waiting" ELSE callState[c]],
              admitted <- validated,
              runs     <- handled,
              status   <- reply

ServiceKept == Service!Spec

\* Every call gets an end: a reply, its cancellation, or the refusal of a
\* server that stops.
EveryCallEnds ==
    \A c \in Calls : callState[c] = "pending" ~>
                        callState[c] \in {"replied", "cancelled", "rejected"}

\* Server::stop returns, also under load.
StopReturns == (mainPc = "joining") ~> (mainPc = "stopped")

=============================================================================
