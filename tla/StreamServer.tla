---------------------------- MODULE StreamServer ----------------------------
(***************************************************************************)
(* RequestServer with methods that answer with a stream of messages.  Their*)
(* StreamProcessor stays in PROCESS while handleRequest() returns FALSE:   *)
(* each such round posts a Write, whose completion is an event like the    *)
(* arrival of a call.  Any worker may take it; it validates the session    *)
(* anew, and run() begins with createRequestProcessor() as it does for an  *)
(* arrival.  The handler decides when the stream ends; MaxWrites bounds it *)
(* here.                                                                   *)
(***************************************************************************)
EXTENDS RequestServer, FiniteSets

CONSTANTS
    StreamMethods,  \* methods defined by SL_DEFINE_STREAM_PROCESSOR
    MaxWrites       \* bound: messages of one stream

ASSUME StreamAssumption == StreamMethods \subseteq Methods /\ MaxWrites \in Nat

VARIABLE written    \* how many messages were passed to Write for each call

streamVars == <<vars, written>>

IsStream(p) == proc[p].method \in StreamMethods

StreamInit == Init /\ written = [c \in Calls |-> 0]

-----------------------------------------------------------------------------
\* StreamProcessor::run in PROCESS, after the next acceptor was created.

\* Mutant of HandleStream: the handler is called whatever the code says.
HandleStream_AnyCode(w) ==
    /\ pc[w] = "handle"
    /\ handled' = [handled EXCEPT ![proc[tag[w]].call] = @ + 1]
    /\ \/ Goto(w, "finish")
       \/ code[w] = "OK" /\ written[proc[tag[w]].call] < MaxWrites /\ Goto(w, "post")
    /\ UNCHANGED <<proc, grpcVars, tag, rp, code, armed, serverVars,
                   callState, request, validated, reply, written>>

\* is_finish stays TRUE for a refused event, otherwise handleRequest() says.
HandleStream(w) ==
    /\ pc[w] = "handle"
    /\ \/ /\ code[w] # "OK"
          /\ Goto(w, "finish")
          /\ UNCHANGED handled
       \/ /\ code[w] = "OK"
          /\ handled' = [handled EXCEPT ![proc[tag[w]].call] = @ + 1]
          /\ \/ Goto(w, "finish")
             \/ written[proc[tag[w]].call] < MaxWrites /\ Goto(w, "post")
    /\ UNCHANGED <<proc, grpcVars, tag, rp, code, armed, serverVars,
                   callState, request, validated, reply, written>>

\* _responder.Write(_reply, this): the status stays PROCESS.
WriteStream(w) ==
    /\ pc[w] = "post"
    /\ sending' = sending \cup {tag[w]}
    /\ written' = [written EXCEPT ![proc[tag[w]].call] = @ + 1]
    /\ tag' = [tag EXCEPT ![w] = None]
    /\ Goto(w, "loop")
    /\ UNCHANGED <<proc, requested, cq, rp, code, armed, serverVars,
                   callState, request, validated, handled, reply>>

\* The Write of p completes.  ok is FALSE when the client has gone, but the code
\* does not look at it.
WriteDone(p) ==
    /\ p \in sending
    /\ proc[p].status = "PROCESS"
    /\ sending' = sending \ {p}
    /\ cq' = cq \cup {p}
    /\ UNCHANGED <<proc, requested, workerVars, serverVars, callVars, written>>

\* What a worker does with a stream only, with a unary call only, and with both.
InStream(w) == tag[w] # None /\ IsStream(tag[w])

StreamWorkerStep(w) ==
    \/ InStream(w) /\ HandleStream(w)
    \/ InStream(w) /\ proc[tag[w]].status = "PROCESS" /\ WriteStream(w)
    \/ InStream(w) /\ proc[tag[w]].status = "FINISH" /\ PostFinish(w) /\ UNCHANGED written
    \/ ~InStream(w) /\ (Handle(w) \/ PostFinish(w)) /\ UNCHANGED written
    \/ /\ \/ PoolCreate(w) \/ PoolReady(w)
          \/ CheckStop(w) \/ GetEvent(w) \/ PollTimeout(w) \/ Validate(w)
          \/ RunCreate(w) \/ WaitForRequest(w)
          \/ Spawn(w) \/ SetFinished(w) \/ Delete(w)
       /\ UNCHANGED written

GrpcDone(p) ==
    \/ WriteDone(p)
    \/ proc[p].status # "PROCESS" /\ SendDone(p) /\ UNCHANGED written

StreamNext ==
    \/ \E w \in Workers : StreamWorkerStep(w)
    \/ \E p \in Processors : GrpcDone(p)
    \/ /\ \/ ServerStep
          \/ Stop \/ MainStep \/ Terminated
          \/ \E c \in Calls : Call(c) \/ Cancel(c) \/ Accept(c)
       /\ UNCHANGED written

\* The fairness of RequestServer: threads are scheduled and gRPC delivers.
StreamFairness ==
    /\ \A w \in Workers : WF_streamVars(StreamWorkerStep(w))
    /\ WF_streamVars(ServerStep /\ UNCHANGED written)
    /\ WF_streamVars(MainStep /\ UNCHANGED written)
    /\ \A c \in Calls : WF_streamVars(Accept(c) /\ UNCHANGED written)
    /\ \A p \in Processors : WF_streamVars(GrpcDone(p))

StreamSpec == StreamInit /\ [][StreamNext]_streamVars /\ StreamFairness
-----------------------------------------------------------------------------
\* Properties

\* The final status tells how far a stream came, although its session is checked
\* again for each message and may die between two: with OK every round but the
\* last has written a message, with an error the refused round ran no handler and
\* all messages before it were written.
StatusTellsMessages ==
    \A c \in Calls : request[c] # None /\ request[c].method \in StreamMethods =>
        /\ reply[c] = "OK" => handled[c] = written[c] + 1
        /\ reply[c] \notin {"OK", None} => handled[c] = written[c]

\* p waits for the completion of a Write, or its event has not yet been run.
WriteUnderWay(p) ==
    /\ proc[p].call # None /\ proc[p].status = "PROCESS" /\ written[proc[p].call] > 0
    /\ \/ p \in AtGrpc
       \/ \E w \in Workers : tag[w] = p /\ rp[w] = None /\ pc[w] \in {"validate", "run"}

Writing(c) == \E p \in Processors : proc[p].call = c /\ WriteUnderWay(p)

\* Rounds of c that began with the completion of a Write.
Resumed(c) == written[c] - IF Writing(c) THEN 1 ELSE 0

Standing(m)    == {p \in Processors : proc[p].method = m /\ IsAcceptor(p) /\ ~WriteUnderWay(p)}
ArmedBy(m)     == {w \in Workers : \E i \in 1 .. armed[w] : MethodOrder[i] = m}
AsksFor(c, m)  == callState[c] # "idle" /\ request[c].method = m
Resumptions(m) == UNION {{c} \X (1 .. Resumed(c)) : c \in {d \in Calls : AsksFor(d, m)}}

\* Every method keeps an acceptor per worker, and a stream leaves one more for
\* each message after which it was resumed: run() cannot tell a completed Write
\* from the arrival of a call and arms the method each time.  No acceptor is lost
\* on the way, and the surplus is never given back while the server is up.
AcceptorPerResumption ==
    Up => \A m \in Methods :
            Cardinality(Standing(m)) = Cardinality(ArmedBy(m)) + Cardinality(Resumptions(m))
=============================================================================
