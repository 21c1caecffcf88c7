------------------------- MODULE StreamServerProofs -------------------------
(***************************************************************************)
(* Theorems of StreamServer.  A step of StreamServer is a step of          *)
(* RequestServer or one of the three steps that only a stream takes, so    *)
(* Ownership and OneCarrier are inherited and need those three only.       *)
(* Rounds adds how far a stream is: while its processor is in PROCESS every*)
(* round was handled and has written its message, except the one whose     *)
(* worker stands behind the handler, and the call has no status yet.       *)
(* The last part counts acceptors against resumptions: every step of       *)
(* RequestServer keeps, swaps or adds an acceptor (AcceptorMoves), and it  *)
(* is the swap in the place of a completed Write that makes one too many.  *)
(***************************************************************************)
EXTENDS StreamServer, RequestServerProofs, FiniteSetTheorems

Behind == {"finish", "post"}    \* where a worker is behind handleRequest()

\* The rounds of each stream, told by its processor and the worker that has it.
Rounds ==
    /\ written \in [Calls -> Nat]
    /\ \A c \in Calls : callState[c] \in {"idle", "pending"} => written[c] = 0
    /\ \A p \in Processors : proc[p].call # None /\ proc[p].status = "PROCESS" /\ IsStream(p) =>
         /\ reply[proc[p].call] = None
         /\ \/ handled[proc[p].call] = written[proc[p].call]
            \/ \E w \in Workers : tag[w] = p /\ pc[w] \in Behind
    /\ \A w \in Workers : pc[w] \in Behind /\ IsStream(tag[w]) =>
         /\ reply[CallOf(w)] = None
         /\ handled[CallOf(w)] = IF code[w] = "OK" THEN written[CallOf(w)] + 1 ELSE written[CallOf(w)]
         /\ pc[w] = "post" /\ proc[tag[w]].status = "PROCESS" => code[w] = "OK"
    /\ \A w \in Workers : pc[w] = "post" /\ ~IsStream(tag[w]) => proc[tag[w]].status = "FINISH"
    /\ StatusTellsMessages

StreamInv == Ownership /\ OneCarrier /\ Rounds

-----------------------------------------------------------------------------
\* Ownership

\* What only a stream does.
StreamOnly ==
    \/ \E w \in Workers : HandleStream(w) \/ WriteStream(w)
    \/ \E p \in Processors : WriteDone(p)

\* Everything else is a step of RequestServer.
LEMMA StepKinds == [StreamNext]_streamVars => StreamOnly \/ ([Next]_vars /\ UNCHANGED written)
<1> SUFFICES ASSUME [StreamNext]_streamVars PROVE StreamOnly \/ ([Next]_vars /\ UNCHANGED written)
  OBVIOUS
<1>1. ASSUME NEW w \in Workers, StreamWorkerStep(w)
      PROVE  StreamOnly \/ (Next /\ UNCHANGED written)
  <2>1. HandleStream(w) \/ WriteStream(w) \/ (WorkerStep(w) /\ UNCHANGED written)
    BY <1>1 DEF StreamWorkerStep, WorkerStep
  <2> QED
    BY <2>1 DEF StreamOnly, Next
<1>2. ASSUME NEW p \in Processors, GrpcDone(p) PROVE StreamOnly \/ (Next /\ UNCHANGED written)
  BY <1>2 DEF GrpcDone, StreamOnly, Next
<1>3. CASE UNCHANGED streamVars
  BY <1>3 DEF streamVars
<1> QED
  BY <1>1, <1>2, <1>3 DEF StreamNext, Next

\* What the three steps do to the processors and to the workers.
LEMMA HandleStreamEffect ==
    ASSUME Ownership, NEW w \in Workers, HandleStream(w)
    PROVE  /\ pc[w] = "handle" /\ pc'[w] \in Behind /\ pc' \in [Workers -> WorkerPcs]
           /\ \A v \in Workers \ {w} : pc'[v] = pc[v]
           /\ tag[w] \in Processors /\ rp[w] = None /\ CallOf(w) \in Calls
           /\ proc[tag[w]].status = "PROCESS"
           /\ handled' = IF code[w] = "OK" THEN [handled EXCEPT ![CallOf(w)] = @ + 1] ELSE handled
           /\ pc'[w] = "post" => code[w] = "OK"
           /\ UNCHANGED <<proc, grpcVars, tag, rp, code, armed, serverVars,
                          callState, request, validated, reply, written>>
<1>1. pc[w] = "handle" /\ pc \in [Workers -> WorkerPcs]
  BY DEF HandleStream, Ownership, TypeOK
<1>2. tag[w] \in Processors /\ rp[w] = None /\ CallOf(w) \in Calls
  BY <1>1, InHandCarries DEF Ownership, PcCoherent, Carries
<1>3. proc[tag[w]].status = "PROCESS"
  BY <1>1, <1>2, NoneAssumption DEF Ownership, EventStatus
<1> QED
  BY <1>1, <1>2, <1>3 DEF HandleStream, Goto, CallOf, Behind, WorkerPcs

LEMMA WriteStreamEffect ==
    ASSUME Ownership, NEW w \in Workers, WriteStream(w)
    PROVE  /\ pc[w] = "post" /\ pc' = [pc EXCEPT ![w] = "loop"] /\ pc \in [Workers -> WorkerPcs]
           /\ tag[w] \in Processors /\ rp[w] = None /\ CallOf(w) \in Calls
           /\ tag' = [tag EXCEPT ![w] = None] /\ tag \in [Workers -> Processors \cup {None}]
           /\ sending' = sending \cup {tag[w]}
           /\ written' = [written EXCEPT ![CallOf(w)] = @ + 1]
           /\ UNCHANGED <<proc, requested, cq, rp, code, armed, serverVars,
                          callState, request, validated, handled, reply>>
<1>1. pc[w] = "post" /\ pc \in [Workers -> WorkerPcs] /\ tag \in [Workers -> Processors \cup {None}]
  BY DEF WriteStream, Ownership, TypeOK
<1>2. tag[w] \in Processors /\ rp[w] = None /\ CallOf(w) \in Calls
  BY <1>1, InHandCarries DEF Ownership, PcCoherent, Carries
<1> QED
  BY <1>1, <1>2 DEF WriteStream, Goto, CallOf

\* A round of a stream leaves every processor one owner.
LEMMA HandleOwned ==
    ASSUME Ownership, NEW w \in Workers, HandleStream(w) PROVE Ownership'
<1> USE NoneAssumption DEF grpcVars, serverVars
<1>0. TypeOK /\ PcCoherent /\ Joined /\ Exclusive /\ Accounted /\ EventStatus
  BY DEF Ownership
<1>1. TypeOK'
  <2>1. handled \in [Calls -> Nat] /\ CallOf(w) \in Calls
    BY <1>0, HandleStreamEffect DEF TypeOK
  <2>2. [handled EXCEPT ![CallOf(w)] = @ + 1] \in [Calls -> Nat]
    BY <2>1
  <2> QED
    BY <1>0, <2>1, <2>2, HandleStreamEffect DEF TypeOK
<1>2. PcCoherent'
  BY <1>0, HandleStreamEffect DEF PcCoherent, Behind, Carries, Empty
<1>3. Joined'
  BY <1>0, HandleStreamEffect DEF Joined, Up
<1>4. Exclusive' /\ Accounted'
  BY <1>0, HandleStreamEffect DEF Exclusive, Accounted, AtGrpc, Held
<1>5. EventStatus'
  BY <1>0, HandleStreamEffect DEF EventStatus, Up, Behind
<1> QED
  BY <1>1, <1>2, <1>3, <1>4, <1>5 DEF Ownership

\* A Write gives the processor to gRPC as a Finish does.
LEMMA WriteOwned ==
    ASSUME Ownership, NEW w \in Workers, WriteStream(w) PROVE Ownership'
<1> USE NoneAssumption DEF serverVars
<1>0. TypeOK /\ PcCoherent /\ Joined /\ Exclusive /\ Accounted /\ EventStatus
  BY DEF Ownership
<1>1. TypeOK'
  <2>1. pc' \in [Workers -> WorkerPcs] /\ tag' \in [Workers -> Processors \cup {None}]
    BY WriteStreamEffect DEF WorkerPcs
  <2> QED
    BY <1>0, <2>1, WriteStreamEffect DEF TypeOK
<1>2. PcCoherent'
  BY <1>0, WriteStreamEffect DEF PcCoherent, Carries, Empty
<1>3. Joined'
  BY <1>0, WriteStreamEffect DEF Joined, Up
<1>4. Exclusive'
  <2>1. /\ tag[w] \notin AtGrpc /\ \A v \in Workers : v # w => tag[v] # tag[w]
        /\ \A v \in Workers : rp[v] # tag[w]
    BY InHandAlone, WriteStreamEffect
  <2>2. tag'[w] = None /\ \A v \in Workers : v # w => tag'[v] = tag[v]
    BY WriteStreamEffect
  <2>3. AtGrpc' = AtGrpc \cup {tag[w]} /\ None \notin AtGrpc'
    BY <1>0, WriteStreamEffect DEF AtGrpc, TypeOK
  <2> QED
    BY <1>0, <2>1, <2>2, <2>3, WriteStreamEffect DEF Exclusive, AtGrpc
<1>5. Accounted'
  BY <1>0, WriteStreamEffect DEF Accounted, AtGrpc, Held
<1>6. EventStatus'
  BY <1>0, WriteStreamEffect DEF EventStatus, Up
<1> QED
  BY <1>1, <1>2, <1>3, <1>4, <1>5, <1>6 DEF Ownership

\* The completion of a Write moves it to the queue.
LEMMA DoneOwned ==
    ASSUME Ownership, NEW p \in Processors, WriteDone(p) PROVE Ownership'
<1> USE DEF Ownership, WriteDone, workerVars, serverVars, callVars
<1>1. TypeOK' /\ PcCoherent' /\ Joined'
  BY DEF TypeOK, PcCoherent, Carries, Empty, Joined, Up
<1>2. Exclusive'
  BY DEF Exclusive, AtGrpc
<1>3. Accounted'
  BY DEF Accounted, AtGrpc, Held
<1>4. EventStatus'
  BY DEF EventStatus, Up
<1> QED
  BY <1>1, <1>2, <1>3, <1>4

\* A program with streams has one owner for each processor at each step.
LEMMA StreamOwnershipStep == Ownership /\ [StreamNext]_streamVars => Ownership'
BY StepKinds, OwnershipStep, HandleOwned, WriteOwned, DoneOwned DEF StreamOnly

\* A stream's rounds give no call to a second processor.
LEMMA StreamCarrierStep == Ownership /\ OneCarrier /\ [StreamNext]_streamVars => OneCarrier'
<1> SUFFICES ASSUME Ownership, OneCarrier, [StreamNext]_streamVars PROVE OneCarrier'
  OBVIOUS
<1>1. ASSUME NEW w \in Workers, HandleStream(w) PROVE OneCarrier'
  <2>1. callState[CallOf(w)] \notin {"idle", "pending"}
    BY <1>1, HandleStreamEffect, NoneAssumption DEF OneCarrier, CallOf
  <2>2. \A c \in Calls : c # CallOf(w) => handled'[c] = handled[c]
    BY <1>1, HandleStreamEffect DEF Ownership, TypeOK
  <2> QED
    BY <1>1, <2>1, <2>2, HandleStreamEffect DEF OneCarrier
<1>2. ASSUME NEW w \in Workers, WriteStream(w) PROVE OneCarrier'
  BY <1>2, WriteStreamEffect DEF OneCarrier
<1>3. ASSUME NEW p \in Processors, WriteDone(p) PROVE OneCarrier'
  BY <1>3 DEF OneCarrier, WriteDone, callVars
<1> QED
  BY <1>1, <1>2, <1>3, StepKinds, CarrierStep DEF StreamOnly

-----------------------------------------------------------------------------
\* Rounds

\* A step away from the handlers of streams changes no round.
LEMMA RoundsKept ==
    ASSUME Ownership, OneCarrier, Rounds, UNCHANGED <<handled, reply, written>>,
           \A q \in Processors : proc'[q].call # None =>
             /\ proc'[q].call = proc[q].call /\ proc'[q].method = proc[q].method
             /\ proc'[q].status = proc[q].status,
           \A v \in Workers : pc[v] \in Behind \/ pc'[v] \in Behind =>
             /\ pc'[v] = pc[v] /\ tag'[v] = tag[v] /\ code'[v] = code[v]
             /\ proc'[tag[v]] = proc[tag[v]],
           \A c \in Calls : /\ callState'[c] \in {"idle", "pending"} =>
                                  callState[c] \in {"idle", "pending"}
                            /\ request'[c] = request[c] \/ reply[c] = None
    PROVE  Rounds'
<1>1. \A c \in Calls : callState'[c] \in {"idle", "pending"} => written'[c] = 0
  BY DEF Rounds
<1>2. \A q \in Processors : proc'[q].call # None /\ proc'[q].status = "PROCESS" /\ IsStream(q)' =>
         /\ reply'[proc'[q].call] = None
         /\ \/ handled'[proc'[q].call] = written'[proc'[q].call]
            \/ \E w \in Workers : tag'[w] = q /\ pc'[w] \in Behind
  BY DEF Rounds, IsStream
<1>3. \A v \in Workers : pc'[v] \in Behind /\ IsStream(tag[v])' =>
         /\ pc[v] \in Behind /\ IsStream(tag[v]) /\ CallOf(v)' = CallOf(v)
         /\ pc'[v] = pc[v] /\ tag'[v] = tag[v] /\ code'[v] = code[v]
         /\ proc'[tag[v]] = proc[tag[v]]
  BY DEF IsStream, CallOf
<1>4. StatusTellsMessages'
  BY NoneAssumption DEF Rounds, StatusTellsMessages, Codes
<1>5. \A v \in Workers : pc'[v] = "post" /\ ~IsStream(tag[v])' => proc'[tag'[v]].status = "FINISH"
  BY DEF Rounds, IsStream, Behind
<1> QED
  BY <1>1, <1>2, <1>3, <1>4, <1>5 DEF Rounds

\* A step of worker w on the call it carries changes the rounds of no other, so
\* it only has to say how its own are.
LEMMA RoundsMoved ==
    ASSUME Ownership, OneCarrier, Rounds, NEW w \in Workers,
           tag[w] \in Processors, CallOf(w) \in Calls,
           UNCHANGED <<callState, request, code>>, written' \in [Calls -> Nat],
           \A c \in Calls : c # CallOf(w) =>
             handled'[c] = handled[c] /\ reply'[c] = reply[c] /\ written'[c] = written[c],
           \A q \in Processors : q # tag[w] => proc'[q] = proc[q],
           proc'[tag[w]].call = CallOf(w), proc'[tag[w]].method = proc[tag[w]].method,
           \A v \in Workers : v # w => pc'[v] = pc[v] /\ tag'[v] = tag[v],
           pc'[w] \in Behind => tag'[w] = tag[w],
           ~IsStream(tag[w]) /\ pc'[w] = "post" => proc'[tag[w]].status = "FINISH",
           IsStream(tag[w]) =>
             LET k == CallOf(w) IN
             /\ proc'[tag[w]].status = "PROCESS" =>
                  /\ reply'[k] = None
                  /\ handled'[k] = written'[k] \/ pc'[w] \in Behind
             /\ pc'[w] \in Behind =>
                  /\ reply'[k] = None
                  /\ handled'[k] = IF code[w] = "OK" THEN written'[k] + 1 ELSE written'[k]
                  /\ pc'[w] = "post" /\ proc'[tag[w]].status = "PROCESS" => code[w] = "OK"
             /\ reply'[k] = "OK" => handled'[k] = written'[k] + 1
             /\ reply'[k] \notin {"OK", None} => handled'[k] = written'[k]
    PROVE  Rounds'
<1> DEFINE k == CallOf(w)
<1> USE NoneAssumption
<1>0. k # None /\ k = proc[tag[w]].call
  BY DEF CallOf
<1>1. callState[k] \notin {"idle", "pending"} /\ request[k].method = proc[tag[w]].method
  BY <1>0 DEF OneCarrier
<1>2. \A q \in Processors : q # tag[w] => proc[q].call # k
  BY <1>0 DEF OneCarrier
<1>3. \A v \in Workers : pc[v] \in Behind => tag[v] \in Processors /\ CallOf(v) \in Calls
  BY InHandCarries DEF Behind
<1>4. \A v \in Workers : v # w => tag[v] # tag[w]
  BY InHandAlone
<1>5. \A v \in Workers : v # w /\ pc[v] \in Behind => CallOf(v) # k
  BY <1>2, <1>3, <1>4 DEF CallOf
<1>6. \A c \in Calls : callState'[c] \in {"idle", "pending"} => written'[c] = 0
  BY <1>1 DEF Rounds
<1>7. ASSUME NEW q \in Processors, proc'[q].call # None, proc'[q].status = "PROCESS", IsStream(q)'
      PROVE  /\ reply'[proc'[q].call] = None
             /\ \/ handled'[proc'[q].call] = written'[proc'[q].call]
                \/ \E v \in Workers : tag'[v] = q /\ pc'[v] \in Behind
  <2>1. CASE q = tag[w]
    BY <1>7, <2>1 DEF IsStream
  <2>2. CASE q # tag[w]
    <3>1. proc'[q] = proc[q] /\ proc[q].call # k
      BY <1>2, <2>2
    <3>2. proc[q].call \in Calls
      BY <1>7, <3>1, FieldsTyped DEF Ownership
    <3>3. /\ handled'[proc[q].call] = handled[proc[q].call] /\ reply'[proc[q].call] = reply[proc[q].call]
          /\ written'[proc[q].call] = written[proc[q].call]
      BY <3>1, <3>2
    <3>4. /\ reply[proc[q].call] = None
          /\ \/ handled[proc[q].call] = written[proc[q].call]
             \/ \E v \in Workers : tag[v] = q /\ pc[v] \in Behind
      BY <1>7, <3>1 DEF Rounds, IsStream
    <3>5. \A v \in Workers : tag[v] = q => v # w /\ tag'[v] = q /\ pc'[v] = pc[v]
      BY <2>2
    <3> QED
      BY <3>1, <3>3, <3>4, <3>5
  <2> QED
    BY <2>1, <2>2
<1>8. ASSUME NEW v \in Workers, pc'[v] \in Behind, IsStream(tag[v])'
      PROVE  /\ reply'[CallOf(v)'] = None
             /\ handled'[CallOf(v)'] = IF code'[v] = "OK" THEN written'[CallOf(v)'] + 1
                                                          ELSE written'[CallOf(v)']
             /\ pc'[v] = "post" /\ proc'[tag'[v]].status = "PROCESS" => code'[v] = "OK"
  <2>1. CASE v = w
    BY <1>8, <2>1 DEF IsStream, CallOf
  <2>2. CASE v # w
    <3>1. pc'[v] = pc[v] /\ tag'[v] = tag[v] /\ tag[v] \in Processors /\ CallOf(v) \in Calls
      BY <1>3, <1>8, <2>2
    <3>2. proc'[tag[v]] = proc[tag[v]] /\ CallOf(v)' = CallOf(v) /\ CallOf(v) # k
      BY <1>4, <1>5, <1>8, <2>2, <3>1 DEF CallOf
    <3>3. IsStream(tag[v]) /\ pc[v] \in Behind
      BY <1>8, <3>1, <3>2 DEF IsStream
    <3> QED
      BY <3>1, <3>2, <3>3 DEF Rounds
  <2> QED
    BY <2>1, <2>2
<1>9. StatusTellsMessages'
  <2> SUFFICES ASSUME NEW c \in Calls, request[c] # None, request[c].method \in StreamMethods
               PROVE  /\ reply'[c] = "OK" => handled'[c] = written'[c] + 1
                      /\ reply'[c] \notin {"OK", None} => handled'[c] = written'[c]
    BY DEF StatusTellsMessages
  <2>1. CASE c = k
    BY <1>1, <2>1 DEF IsStream
  <2>2. CASE c # k
    BY <2>2 DEF Rounds, StatusTellsMessages
  <2> QED
    BY <2>1, <2>2
<1>10. ASSUME NEW v \in Workers, pc'[v] = "post", ~IsStream(tag[v])'
       PROVE  proc'[tag'[v]].status = "FINISH"
  <2>1. CASE v = w
    BY <1>10, <2>1 DEF IsStream, Behind
  <2>2. CASE v # w
    <3>1. pc[v] = "post" /\ tag'[v] = tag[v] /\ tag[v] \in Processors /\ tag[v] # tag[w]
      BY <1>3, <1>4, <1>10, <2>2 DEF Behind
    <3> QED
      BY <1>10, <3>1 DEF Rounds, IsStream
  <2> QED
    BY <2>1, <2>2
<1> QED
  BY <1>6, <1>7, <1>8, <1>9, <1>10 DEF Rounds

\* No step breaks the count of the rounds.
LEMMA RoundsStep == StreamInv /\ [StreamNext]_streamVars => Rounds'
<1> SUFFICES ASSUME Ownership, OneCarrier, Rounds, [StreamNext]_streamVars PROVE Rounds'
  BY DEF StreamInv
<1> USE NoneAssumption DEF Behind, grpcVars, workerVars, serverVars, callVars
<1>0. /\ TypeOK /\ proc \in [Processors -> Processor] /\ pc \in [Workers -> WorkerPcs]
      /\ handled \in [Calls -> Nat] /\ reply \in [Calls -> Codes \cup {None}]
      /\ tag \in [Workers -> Processors \cup {None}] /\ code \in [Workers -> Codes]
      /\ written \in [Calls -> Nat]
  BY DEF Ownership, TypeOK, Rounds
<1>1. ASSUME NEW w \in Workers, InStream(w), HandleStream(w) PROVE Rounds'
  <2> DEFINE k == CallOf(w)
  <2>1. /\ tag[w] \in Processors /\ k \in Calls /\ pc[w] = "handle"
        /\ proc[tag[w]].status = "PROCESS" /\ proc[tag[w]].call = k
        /\ UNCHANGED <<proc, tag, code, callState, request, reply, written>>
        /\ \A v \in Workers \ {w} : pc'[v] = pc[v]
        /\ pc'[w] \in Behind /\ (pc'[w] = "post" => code[w] = "OK")
    BY <1>1, HandleStreamEffect DEF CallOf
  <2>2. /\ handled'[k] = IF code[w] = "OK" THEN handled[k] + 1 ELSE handled[k]
        /\ \A c \in Calls : c # k => handled'[c] = handled[c]
    BY <1>0, <1>1, HandleStreamEffect
  <2>3. IsStream(tag[w]) => reply[k] = None /\ handled[k] = written[k]
    BY <2>1, InHandAlone DEF Rounds
  <2> QED
    BY <1>0, <1>1, <2>1, <2>2, <2>3, RoundsMoved DEF Codes, InStream
<1>2. ASSUME NEW w \in Workers, WriteStream(w), IsStream(tag[w]), proc[tag[w]].status = "PROCESS"
      PROVE  Rounds'
  <2> DEFINE k == CallOf(w)
  <2>1. /\ tag[w] \in Processors /\ k \in Calls /\ pc[w] = "post" /\ proc[tag[w]].call = k
        /\ UNCHANGED <<proc, code, callState, request, reply, handled>>
        /\ \A v \in Workers \ {w} : pc'[v] = pc[v] /\ tag'[v] = tag[v]
        /\ pc'[w] = "loop"
    BY <1>0, <1>2, WriteStreamEffect DEF CallOf
  <2>2. /\ written'[k] = written[k] + 1 /\ written' \in [Calls -> Nat]
        /\ \A c \in Calls : c # k => written'[c] = written[c]
    BY <1>0, <1>2, <2>1, WriteStreamEffect
  <2>3. reply[k] = None /\ handled[k] = written[k] + 1
    BY <1>2, <2>1 DEF Rounds
  <2> QED
    BY <1>2, <2>1, <2>2, <2>3, RoundsMoved DEF Codes
<1>3. ASSUME NEW w \in Workers, Handle(w), ~IsStream(tag[w]), UNCHANGED written PROVE Rounds'
  <2> DEFINE k == CallOf(w)
  <2>1. /\ tag[w] \in Processors /\ k \in Calls /\ proc[tag[w]].call = k
        /\ UNCHANGED <<proc, tag, code, callState, request, reply>>
        /\ pc'[w] = "finish" /\ \A v \in Workers \ {w} : pc'[v] = pc[v]
    BY <1>0, <1>3, InHandCarries DEF Handle, Goto, CallOf
  <2>2. \A c \in Calls : c # k => handled'[c] = handled[c]
    BY <1>0, <1>3 DEF Handle, CallOf
  <2> QED
    BY <1>0, <1>3, <2>1, <2>2, RoundsMoved
<1>4. ASSUME NEW w \in Workers, SetFinished(w), UNCHANGED written PROVE Rounds'
  <2> DEFINE k == CallOf(w)
  <2>1. /\ tag[w] \in Processors /\ k \in Calls /\ proc[tag[w]].call = k
        /\ pc[w] = "finish" /\ pc'[w] = "post" /\ \A v \in Workers \ {w} : pc'[v] = pc[v]
        /\ UNCHANGED <<tag, code, callState, request, reply, handled>>
    BY <1>0, <1>4, InHandCarries DEF SetFinished, Goto, CallOf
  <2>2. /\ \A q \in Processors : q # tag[w] => proc'[q] = proc[q]
        /\ proc'[tag[w]].call = k /\ proc'[tag[w]].method = proc[tag[w]].method
        /\ proc'[tag[w]].status = "FINISH"
    BY <1>0, <1>4, <2>1 DEF SetFinished, SetStatus, Processor
  <2>3. IsStream(tag[w]) =>
          /\ reply[k] = None
          /\ handled[k] = IF code[w] = "OK" THEN written[k] + 1 ELSE written[k]
    BY <2>1 DEF Rounds
  <2> QED
    BY <1>0, <1>4, <2>1, <2>2, <2>3, RoundsMoved DEF Codes
<1>5. ASSUME NEW w \in Workers, PostFinish(w), UNCHANGED written,
             IsStream(tag[w]) => proc[tag[w]].status = "FINISH"
      PROVE  Rounds'
  <2> DEFINE k == CallOf(w)
  <2>1. /\ tag[w] \in Processors /\ k \in Calls /\ proc[tag[w]].call = k
        /\ pc[w] = "post" /\ pc'[w] = "loop"
        /\ \A v \in Workers \ {w} : pc'[v] = pc[v] /\ tag'[v] = tag[v]
        /\ UNCHANGED <<proc, code, callState, request, handled>>
    BY <1>0, <1>5, InHandCarries DEF PostFinish, Goto, CallOf
  <2>2. reply'[k] = code[w] /\ \A c \in Calls : c # k => reply'[c] = reply[c]
    BY <1>0, <1>5, <2>1 DEF PostFinish, CallOf
  <2>3. IsStream(tag[w]) => handled[k] = IF code[w] = "OK" THEN written[k] + 1 ELSE written[k]
    BY <2>1 DEF Rounds
  <2> QED
    BY <1>0, <1>5, <2>1, <2>2, <2>3, RoundsMoved
<1>6. ASSUME NEW w \in Workers, Delete(w), UNCHANGED written PROVE Rounds'
  <2>1. tag[w] \in Processors /\ proc' = [proc EXCEPT ![tag[w]] = Free]
    BY <1>6, DeleteEffect
  <2>2. /\ pc[w] = "run" /\ pc'[w] = "loop" /\ UNCHANGED <<code, callState, request, handled, reply>>
        /\ \A v \in Workers \ {w} : pc'[v] = pc[v] /\ tag'[v] = tag[v]
    BY <1>0, <1>6 DEF Delete, Goto
  <2>3. \A v \in Workers : v # w => tag[v] # tag[w]
    BY <2>1, InHandAlone
  <2>4. \A v \in Workers : pc[v] \in Behind => tag[v] \in Processors
    BY InHandCarries
  <2> QED
    BY <1>0, <1>6, <2>1, <2>2, <2>3, <2>4, RoundsKept DEF Free
<1>7. ASSUME NEW w \in Workers, Spawn(w) \/ PoolCreate(w), UNCHANGED written PROVE Rounds'
  <2>1. PICK p \in Processors : \E m, own :
          /\ proc' = [proc EXCEPT ![p] = [status |-> "CREATE", method |-> m, owner |-> own, call |-> None]]
          /\ proc[p] = Free
    BY <1>7, SpawnEffect, PoolCreateEffect
  <2>2. \A v \in Workers : tag[v] # p
    BY <2>1, FreeIsNowhere
  <2>3. proc'[p].call = None /\ \A q \in Processors : q # p => proc'[q] = proc[q]
    BY <1>0, <2>1
  <2>4. /\ UNCHANGED <<tag, code, callState, request, handled, reply>>
        /\ pc[w] \in {"run", "pool"} /\ pc'[w] = "run" /\ \A v \in Workers \ {w} : pc'[v] = pc[v]
    BY <1>0, <1>7 DEF Spawn, PoolCreate, Goto
  <2>5. \A v \in Workers : pc[v] \in Behind => tag[v] \in Processors
    BY InHandCarries
  <2>6. \A v \in Workers : pc[v] \in Behind \/ pc'[v] \in Behind =>
          pc'[v] = pc[v] /\ proc'[tag[v]] = proc[tag[v]]
    BY <2>2, <2>3, <2>4, <2>5
  <2>7. \A q \in Processors : proc'[q].call # None => proc'[q] = proc[q]
    BY <2>3
  <2> QED
    BY <1>7, <2>4, <2>6, <2>7, RoundsKept
<1>8. ASSUME NEW w \in Workers, RunCreate(w), UNCHANGED written PROVE Rounds'
  <2>1. Current(w) = rp[w] /\ rp[w] \in Processors /\ pc[w] = "run" /\ pc'[w] = "arm"
    <3>1. pc[w] = "run" /\ pc'[w] = "arm" /\ proc[Current(w)].status = "CREATE"
      BY <1>0, <1>8 DEF RunCreate, Goto
    <3>2. rp[w] \in Processors \/ tag[w] \in Processors
      BY <3>1 DEF Ownership, PcCoherent
    <3>3. tag[w] # None => proc[tag[w]].status # "CREATE"
      BY <3>1 DEF Ownership, EventStatus
    <3>4. rp[w] # None
      BY <3>1, <3>2, <3>3 DEF Current
    <3> QED
      BY <1>0, <3>1, <3>4 DEF Current, TypeOK
  <2>2. proc[rp[w]].call = None /\ proc' = [proc EXCEPT ![rp[w]].status = "PROCESS"]
    BY <1>8, <2>1 DEF RunCreate, SetStatus, Ownership, EventStatus
  <2>3. /\ \A q \in Processors : q # rp[w] => proc'[q] = proc[q]
        /\ proc'[rp[w]].call = None
    BY <1>0, <2>1, <2>2 DEF Processor
  <2>4. /\ UNCHANGED <<tag, code, callState, request, handled, reply>>
        /\ \A v \in Workers \ {w} : pc'[v] = pc[v]
    BY <1>0, <1>8 DEF RunCreate, Goto
  <2>5. \A v \in Workers : pc[v] \in Behind => tag[v] \in Processors /\ tag[v] # rp[w]
    BY <2>2, InHandCarries DEF CallOf
  <2> QED
    BY <1>8, <2>1, <2>3, <2>4, <2>5, RoundsKept
<1>9. ASSUME NEW c \in Calls, Accept(c), UNCHANGED written PROVE Rounds'
  <2>1. PICK p \in requested : /\ proc[p].method = request[c].method
                               /\ proc' = [proc EXCEPT ![p].call = c]
    BY <1>9 DEF Accept
  <2>2. p \in Processors /\ proc[p].call = None
    BY <1>0, <2>1 DEF TypeOK, Ownership, EventStatus
  <2>3. /\ \A q \in Processors : q # p => proc'[q] = proc[q]
        /\ proc'[p].call = c /\ proc'[p].method = proc[p].method
    BY <1>0, <2>1, <2>2 DEF Processor
  <2>4. /\ UNCHANGED <<pc, tag, code, request, handled, reply>> /\ callState[c] = "pending"
        /\ \A d \in Calls : callState'[d] = IF d = c THEN "accepted" ELSE callState[d]
    BY <1>0, <1>9 DEF Accept, TypeOK
  <2>5. written[c] = 0 /\ handled[c] = 0 /\ reply[c] = None
    BY <2>4 DEF Rounds, OneCarrier
  <2>6. \A v \in Workers : pc[v] \in Behind => tag[v] \in Processors /\ tag[v] # p
    BY <2>2, InHandCarries DEF CallOf
  <2>7. \A d \in Calls : callState'[d] \in {"idle", "pending"} => written'[d] = 0
    BY <1>9, <2>4 DEF Rounds
  <2>8. \A q \in Processors : proc'[q].call # None /\ proc'[q].status = "PROCESS" /\ IsStream(q)' =>
          /\ reply'[proc'[q].call] = None
          /\ \/ handled'[proc'[q].call] = written'[proc'[q].call]
             \/ \E w \in Workers : tag'[w] = q /\ pc'[w] \in Behind
    BY <1>9, <2>3, <2>4, <2>5 DEF Rounds, IsStream
  <2>9. \A v \in Workers : pc'[v] \in Behind /\ IsStream(tag[v])' =>
          pc[v] \in Behind /\ IsStream(tag[v]) /\ proc'[tag[v]] = proc[tag[v]] /\ CallOf(v)' = CallOf(v)
    BY <2>3, <2>4, <2>6 DEF IsStream, CallOf
  <2>10. StatusTellsMessages'
    BY <1>9, <2>4 DEF Rounds, StatusTellsMessages
  <2>11. \A v \in Workers : pc'[v] = "post" /\ ~IsStream(tag[v])' => proc'[tag'[v]].status = "FINISH"
    BY <2>3, <2>4, <2>6 DEF Rounds, IsStream
  <2> QED
    BY <1>9, <2>4, <2>7, <2>8, <2>9, <2>10, <2>11 DEF Rounds
<1>10. ASSUME NEW w \in Workers, UNCHANGED written,
              \/ WaitForRequest(w) \/ PoolReady(w) \/ CheckStop(w) \/ GetEvent(w)
              \/ PollTimeout(w) \/ Validate(w)
       PROVE  Rounds'
  <2>1. UNCHANGED <<proc, callState, request, handled, reply>>
    BY <1>10 DEF WaitForRequest, PoolReady, CheckStop, GetEvent, PollTimeout, Validate
  <2>2. \A v \in Workers \ {w} : pc'[v] = pc[v] /\ tag'[v] = tag[v] /\ code'[v] = code[v]
    BY <1>0, <1>10 DEF WaitForRequest, PoolReady, CheckStop, GetEvent, PollTimeout, Validate, Goto
  <2>3. pc[w] \notin Behind /\ pc'[w] \notin Behind
    BY <1>0, <1>10 DEF WaitForRequest, PoolReady, CheckStop, GetEvent, PollTimeout, Validate, Goto
  <2> QED
    BY <1>10, <2>1, <2>2, <2>3, RoundsKept
<1>11. ASSUME UNCHANGED written, ServerStep \/ Stop \/ MainStep \/ Terminated PROVE Rounds'
  <2>1. UNCHANGED <<proc, tag, code, request, handled, reply>>
    BY <1>11 DEF ServerStep, BuildAndStart, SeeStop, JoinWorkers, StartWorker, StopWorker, Stop,
                 MainStep, JoinServer, Shutdown, Drain, Terminated, vars
  <2>2. \A v \in Workers : pc[v] \in Behind \/ pc'[v] \in Behind => pc'[v] = pc[v]
    BY <1>0, <1>11 DEF ServerStep, BuildAndStart, SeeStop, JoinWorkers, StartWorker, StopWorker, Stop,
                 MainStep, JoinServer, Shutdown, Drain, Terminated, vars, Goto
  <2>3. \A c \in Calls : callState'[c] \in {"idle", "pending"} => callState[c] \in {"idle", "pending"}
    BY <1>11 DEF ServerStep, BuildAndStart, SeeStop, JoinWorkers, StartWorker, StopWorker, Stop,
                 MainStep, JoinServer, Shutdown, Drain, Terminated, vars
  <2> QED
    BY <1>11, <2>1, <2>2, <2>3, RoundsKept
<1>12. ASSUME NEW c \in Calls, Call(c) \/ Cancel(c), UNCHANGED written PROVE Rounds'
  <2>1. UNCHANGED <<proc, pc, tag, code, handled, reply>>
    BY <1>12 DEF Call, Cancel
  <2>2. \A d \in Calls : /\ callState'[d] \in {"idle", "pending"} => callState[d] \in {"idle", "pending"}
                         /\ request'[d] = request[d] \/ callState[d] = "idle"
    BY <1>0, <1>12 DEF Call, Cancel, TypeOK
  <2>3. \A d \in Calls : request'[d] = request[d] \/ reply[d] = None
    BY <2>2 DEF OneCarrier
  <2> QED
    BY <1>12, <2>1, <2>2, <2>3, RoundsKept
<1>13. ASSUME NEW p \in Processors, GrpcDone(p) PROVE Rounds'
  <2>1. UNCHANGED <<proc, pc, tag, code, request, handled, reply, written>>
    BY <1>13 DEF GrpcDone, WriteDone, SendDone
  <2>2. \A c \in Calls : callState'[c] \in {"idle", "pending"} => callState[c] \in {"idle", "pending"}
    BY <1>0, <1>13 DEF GrpcDone, WriteDone, SendDone
  <2> QED
    BY <2>1, <2>2, RoundsKept
<1>14. CASE UNCHANGED streamVars
  BY <1>14, RoundsKept DEF streamVars, vars
<1>15. ASSUME NEW w \in Workers, StreamWorkerStep(w) PROVE Rounds'
  <2>1. tag[w] = None => pc[w] \notin {"handle", "finish", "post"}
    BY DEF Ownership, PcCoherent, Carries
  <2>2. CASE InStream(w) /\ HandleStream(w)
    BY <1>1, <2>2
  <2>3. CASE InStream(w) /\ proc[tag[w]].status = "PROCESS" /\ WriteStream(w)
    BY <1>2, <2>3 DEF InStream
  <2>4. CASE InStream(w) /\ proc[tag[w]].status = "FINISH" /\ PostFinish(w) /\ UNCHANGED written
    BY <1>5, <2>4
  <2>5. CASE ~InStream(w) /\ (Handle(w) \/ PostFinish(w)) /\ UNCHANGED written
    BY <1>3, <1>5, <2>1, <2>5 DEF InStream, Handle, PostFinish
  <2> QED
    BY <1>4, <1>6, <1>7, <1>8, <1>10, <1>15, <2>2, <2>3, <2>4, <2>5 DEF StreamWorkerStep
<1> QED
  BY <1>9, <1>11, <1>12, <1>13, <1>14, <1>15 DEF StreamNext

-----------------------------------------------------------------------------

\* Before the first call no message is written.
LEMMA InitStreamInv == StreamInit => StreamInv
<1> SUFFICES ASSUME StreamInit PROVE StreamInv
  OBVIOUS
<1>1. Ownership
  BY InitOwnership DEF StreamInit
<1>2. OneCarrier
  BY NoneAssumption DEF StreamInit, Init, Free, OneCarrier
<1>3. Rounds
  BY NoneAssumption DEF StreamInit, Init, Free, Rounds, Behind, StatusTellsMessages
<1> QED
  BY <1>1, <1>2, <1>3 DEF StreamInv

\* The inductive invariant of a server with streams.
THEOREM StreamInductive == StreamSpec => []StreamInv
<1>1. StreamInit => StreamInv
  BY InitStreamInv
<1>2. StreamInv /\ [StreamNext]_streamVars => StreamInv'
  BY StreamOwnershipStep, StreamCarrierStep, RoundsStep DEF StreamInv
<1> QED
  BY <1>1, <1>2, PTL DEF StreamSpec

\* A processor has one owner also while its stream goes to and fro between the
\* workers and gRPC.
THEOREM StreamOwnedOnce == StreamSpec => []OneOwner
<1>1. StreamInv => OneOwner
  BY OwnerFromOwnership DEF StreamInv
<1> QED
  BY <1>1, StreamInductive, PTL

\* The status a stream ends with tells how many messages the client was sent.
THEOREM StatusTells == StreamSpec => []StatusTellsMessages
<1>1. StreamInv => StatusTellsMessages
  BY DEF StreamInv, Rounds
<1> QED
  BY <1>1, StreamInductive, PTL

-----------------------------------------------------------------------------
\* Acceptors and resumptions

\* The processors whose Write is under way at gRPC.
Writes == {p \in sending : proc[p].status = "PROCESS"}

Posted == Up => \A p \in Writes : written[proc[p].call] > 0

\* AcceptorPerResumption, of sets that can be counted.
Counted ==
    Up => \A m \in Methods :
            /\ IsFiniteSet(Standing(m)) /\ IsFiniteSet(ArmedBy(m)) /\ IsFiniteSet(Resumptions(m))
            /\ Cardinality(Standing(m)) = Cardinality(ArmedBy(m)) + Cardinality(Resumptions(m))

CountInv == StreamInv /\ Posted /\ Counted

\* A processor between two rounds is an acceptor with a call, or gRPC writes for it.
LEMMA WritingIs ==
    Ownership => \A p \in Processors :
                    WriteUnderWay(p) <=> /\ proc[p].call # None /\ written[proc[p].call] > 0
                                         /\ IsAcceptor(p) \/ p \in Writes
<1> SUFFICES ASSUME Ownership, NEW p \in Processors, proc[p].call # None
             PROVE  /\ proc[p].status = "PROCESS"
                    /\ \/ p \in AtGrpc
                       \/ \E w \in Workers : tag[w] = p /\ rp[w] = None /\ pc[w] \in {"validate", "run"}
                    <=> IsAcceptor(p) \/ p \in Writes
  BY DEF WriteUnderWay
<1>1. p \notin requested /\ \A w \in Workers : rp[w] # p
  BY NoneAssumption DEF Ownership, EventStatus
<1> QED
  BY <1>1 DEF IsAcceptor, Writes, AtGrpc

\* A call is resumed as often as before if the same processors write for it.
LEMMA ResumedKept ==
    ASSUME NEW c \in Calls, written'[c] = written[c],
           \A p \in Processors :
             (proc'[p].call = c /\ WriteUnderWay(p)') <=> (proc[p].call = c /\ WriteUnderWay(p))
    PROVE  Resumed(c)' = Resumed(c)
<1>1. Writing(c)' <=> Writing(c)
  BY DEF Writing
<1> QED
  BY <1>1 DEF Resumed

\* The resumptions for a method change only with those of a call that asks for it.
LEMMA ResumptionsKept ==
    ASSUME NEW m,
           \A c \in Calls :
             \/ ~AsksFor(c, m) /\ ~AsksFor(c, m)'
             \/ /\ Resumed(c)' = Resumed(c)
                /\ Resumed(c) = 0 \/ (AsksFor(c, m)' <=> AsksFor(c, m))
    PROVE  Resumptions(m)' = Resumptions(m)
<1>1. \A c \in Calls :
        \/ ~AsksFor(c, m) /\ ~AsksFor(c, m)'
        \/ /\ 1 .. Resumed(c)' = 1 .. Resumed(c)
           /\ 1 .. Resumed(c) = {} \/ (AsksFor(c, m)' <=> AsksFor(c, m))
  <2>1. \A c \in Calls : Resumed(c) = 0 => 1 .. Resumed(c) = {}
    OBVIOUS
  <2> QED
    BY <2>1, Zenon
<1> QED
  BY <1>1 DEF Resumptions

\* One more round of a call is one more resumption for its method.
LEMMA ResumptionAdded ==
    ASSUME NEW m, NEW d \in Calls, NEW k \in Nat,
           Resumed(d) = k, Resumed(d)' = k + 1, AsksFor(d, m), AsksFor(d, m)',
           \A c \in Calls \ {d} :
             /\ Resumed(c)' = Resumed(c)
             /\ Resumed(c) = 0 \/ (AsksFor(c, m)' <=> AsksFor(c, m))
    PROVE  /\ Resumptions(m)' = Resumptions(m) \cup {<<d, k + 1>>}
           /\ <<d, k + 1>> \notin Resumptions(m)
<1>1. \A c \in Calls \ {d} :
        /\ 1 .. Resumed(c)' = 1 .. Resumed(c)
        /\ 1 .. Resumed(c) = {} \/ (AsksFor(c, m)' <=> AsksFor(c, m))
  <2>1. \A c \in Calls : Resumed(c) = 0 => 1 .. Resumed(c) = {}
    OBVIOUS
  <2> QED
    BY <2>1, Zenon
<1>2. /\ 1 .. Resumed(d)' = (1 .. Resumed(d)) \cup {k + 1}
      /\ k + 1 \notin 1 .. Resumed(d)
  OBVIOUS
<1>3. \A x : x \in Resumptions(m) <=>
              \E c \in Calls : AsksFor(c, m) /\ x \in {c} \X (1 .. Resumed(c))
  BY DEF Resumptions
<1>4. \A x : x \in Resumptions(m)' <=>
              \E c \in Calls : AsksFor(c, m)' /\ x \in {c} \X (1 .. Resumed(c)')
  BY DEF Resumptions
<1>5. <<d, k + 1>> \notin Resumptions(m)
  BY <1>2, <1>3
<1>6. \A x : x \in Resumptions(m)' <=> x \in Resumptions(m) \/ x = <<d, k + 1>>
  BY <1>1, <1>2, <1>3, <1>4
<1> QED
  BY <1>5, <1>6

\* What Writing takes off.
LEMMA ResumedIs ==
    \A d \in Calls : \A i \in Nat :
      written[d] = i => /\ Writing(d) => Resumed(d) = i - 1
                        /\ ~Writing(d) => Resumed(d) = i
<1> SUFFICES ASSUME NEW c \in Calls, NEW k \in Nat, written[c] = k
             PROVE  /\ Writing(c) => Resumed(c) = k - 1
                    /\ ~Writing(c) => Resumed(c) = k
  OBVIOUS
<1>1. Resumed(c) = k - IF Writing(c) THEN 1 ELSE 0
  BY DEF Resumed
<1>2. CASE Writing(c)
  <2>1. (IF Writing(c) THEN 1 ELSE 0) = 1
    BY <1>2
  <2> QED
    BY <1>1, <1>2, <2>1
<1>3. CASE ~Writing(c)
  <2>1. (IF Writing(c) THEN 1 ELSE 0) = 0
    BY <1>3
  <2> QED
    BY <1>1, <1>3, <2>1
<1> QED
  BY <1>2, <1>3

\* A step that moves no acceptor and resumes no call.
LEMMA CountKept ==
    ASSUME Counted, Up, armed' = armed,
           \A p \in Processors :
             /\ IsAcceptor(p)' /\ ~WriteUnderWay(p)' <=> IsAcceptor(p) /\ ~WriteUnderWay(p)
             /\ IsAcceptor(p) /\ ~WriteUnderWay(p) => proc'[p].method = proc[p].method,
           \A c \in Calls :
             /\ Resumed(c)' = Resumed(c)
             /\ Resumed(c) = 0 \/ \A m \in Methods : AsksFor(c, m)' <=> AsksFor(c, m)
    PROVE  Counted'
<1> SUFFICES ASSUME NEW m \in Methods
             PROVE  /\ Standing(m)' = Standing(m)
                    /\ ArmedBy(m)' = ArmedBy(m)
                    /\ Resumptions(m)' = Resumptions(m)
  BY DEF Counted
<1>1. Standing(m)' = Standing(m)
  BY DEF Standing
<1>2. ArmedBy(m)' = ArmedBy(m)
  BY DEF ArmedBy
<1>3. Resumptions(m)' = Resumptions(m)
  BY ResumptionsKept
<1> QED
  BY <1>1, <1>2, <1>3

-----------------------------------------------------------------------------
\* What each kind of step does

\* Only a stream's own steps post a Write or complete one.
LEMMA WriteSteps ==
    ASSUME StreamInv, [StreamNext]_streamVars, Up'
    PROVE  \/ \E w \in Workers : InStream(w) /\ HandleStream(w)
           \/ \E w \in Workers : InStream(w) /\ proc[tag[w]].status = "PROCESS" /\ WriteStream(w)
           \/ \E p \in Processors : WriteDone(p)
           \/ /\ [Next]_vars /\ UNCHANGED written
              /\ \A p \in (sending \ sending') \cup (sending' \ sending) : proc[p].status = "FINISH"
<1> DEFINE Base == /\ [Next]_vars /\ UNCHANGED written
                   /\ \A p \in (sending \ sending') \cup (sending' \ sending) : proc[p].status = "FINISH"
<1> USE DEF grpcVars
<1>1. ASSUME NEW w \in Workers, PostFinish(w), UNCHANGED written, proc[tag[w]].status = "FINISH"
      PROVE  Base
  BY <1>1 DEF PostFinish, Next, WorkerStep
<1>2. ASSUME NEW w \in Workers, UNCHANGED written,
             \/ PoolCreate(w) \/ PoolReady(w) \/ CheckStop(w) \/ GetEvent(w) \/ PollTimeout(w)
             \/ Validate(w) \/ RunCreate(w) \/ WaitForRequest(w) \/ Spawn(w) \/ Handle(w)
             \/ SetFinished(w) \/ Delete(w)
      PROVE  Base
  <2>1. UNCHANGED sending
    BY <1>2 DEF PoolCreate, PoolReady, CheckStop, GetEvent, PollTimeout, Validate, RunCreate,
                WaitForRequest, Spawn, Handle, SetFinished, Delete
  <2> QED
    BY <1>2, <2>1 DEF Next, WorkerStep
<1>3. ASSUME NEW w \in Workers, ~InStream(w), PostFinish(w) PROVE proc[tag[w]].status = "FINISH"
  <2>1. pc[w] = "post" /\ tag[w] # None
    BY <1>3, NoneAssumption DEF PostFinish, StreamInv, Ownership, PcCoherent, Carries
  <2> QED
    BY <1>3, <2>1 DEF StreamInv, Rounds, InStream
<1>4. ASSUME NEW p \in Processors, proc[p].status # "PROCESS", SendDone(p), UNCHANGED written
      PROVE  Base
  <2>1. proc[p].status = "FINISH"
    BY <1>4 DEF SendDone, StreamInv, Ownership, EventStatus
  <2> QED
    BY <1>4, <2>1 DEF SendDone, Next
<1>5. ASSUME UNCHANGED written,
             \/ ServerStep \/ Stop \/ MainStep \/ Terminated
             \/ \E c \in Calls : Call(c) \/ Cancel(c) \/ Accept(c)
      PROVE  Base
  <2>1. UNCHANGED sending
    BY <1>5 DEF ServerStep, BuildAndStart, SeeStop, JoinWorkers, StartWorker, StopWorker, Stop, Up,
                MainStep, JoinServer, Shutdown, Drain, Terminated, vars, Call, Cancel, Accept
  <2> QED
    BY <1>5, <2>1 DEF Next
<1>6. CASE UNCHANGED streamVars
  BY <1>6 DEF streamVars, vars
<1>7. ASSUME NEW w \in Workers, StreamWorkerStep(w)
      PROVE  \/ InStream(w) /\ HandleStream(w)
             \/ InStream(w) /\ proc[tag[w]].status = "PROCESS" /\ WriteStream(w)
             \/ Base
  BY <1>1, <1>2, <1>3, <1>7 DEF StreamWorkerStep
<1> QED
  BY <1>4, <1>5, <1>6, <1>7 DEF StreamNext, GrpcDone

\* Every other step leaves the Writes alone.
LEMMA WritesStay ==
    ASSUME Ownership, [Next]_vars,
           \A p \in (sending \ sending') \cup (sending' \ sending) : proc[p].status = "FINISH"
    PROVE  Writes' = Writes /\ \A p \in Writes : proc'[p] = proc[p]
<1> USE DEF grpcVars
<1>0. /\ proc \in [Processors -> Processor] /\ sending \subseteq Processors
      /\ tag \in [Workers -> Processors \cup {None}] /\ rp \in [Workers -> Processors \cup {None}]
  BY DEF Ownership, TypeOK
<1>1. CASE UNCHANGED proc
  BY <1>1 DEF Writes
<1>2. ASSUME NEW q \in Processors, q \notin sending, UNCHANGED sending,
             \A p \in Processors : p # q => proc'[p] = proc[p]
      PROVE  Writes' = Writes /\ \A p \in Writes : proc'[p] = proc[p]
  BY <1>0, <1>2 DEF Writes
<1>3. ASSUME NEW w \in Workers, Spawn(w) \/ PoolCreate(w)
      PROVE  \E q \in Processors : q \notin sending /\ \A p \in Processors : p # q => proc'[p] = proc[p]
  <2>1. PICK q \in Processors : \E m, own :
          /\ proc[q] = Free
          /\ proc' = [proc EXCEPT ![q] = [status |-> "CREATE", method |-> m, owner |-> own, call |-> None]]
    BY <1>3, SpawnEffect, PoolCreateEffect
  <2> QED
    BY <1>0, <2>1, FreeIsNowhere DEF AtGrpc
<1>4. ASSUME NEW w \in Workers, RunCreate(w)
      PROVE  \E q \in Processors : q \notin sending /\ \A p \in Processors : p # q => proc'[p] = proc[p]
  <2>1. Current(w) \in Processors /\ Current(w) \in {tag[w], rp[w]}
    BY <1>4, CurrentIsProcessor DEF RunCreate, Current
  <2>2. Current(w) \notin sending
    BY <2>1 DEF Ownership, Exclusive, AtGrpc
  <2>3. proc' = [proc EXCEPT ![Current(w)].status = "PROCESS"]
    BY <1>4 DEF RunCreate, SetStatus
  <2> QED
    BY <1>0, <2>1, <2>2, <2>3
<1>5. ASSUME NEW w \in Workers, SetFinished(w) \/ Delete(w)
      PROVE  \E q \in Processors : q \notin sending /\ \A p \in Processors : p # q => proc'[p] = proc[p]
  <2>1. tag[w] \in Processors /\ \A p \in Processors : p # tag[w] => proc'[p] = proc[p]
    BY <1>0, <1>5, DeleteEffect, InHandCarries DEF SetFinished, SetStatus
  <2>2. tag[w] \notin sending
    BY DEF Ownership, Exclusive, AtGrpc
  <2> QED
    BY <2>1, <2>2
<1>6. ASSUME NEW c \in Calls, Accept(c)
      PROVE  \E q \in Processors : q \notin sending /\ \A p \in Processors : p # q => proc'[p] = proc[p]
  <2>1. PICK q \in requested : proc' = [proc EXCEPT ![q].call = c]
    BY <1>6 DEF Accept
  <2>2. q \in Processors /\ q \notin sending
    BY DEF Ownership, TypeOK, Exclusive
  <2> QED
    BY <1>0, <2>1, <2>2
<1>7. ASSUME NEW w \in Workers,
             \/ PoolReady(w) \/ CheckStop(w) \/ GetEvent(w) \/ PollTimeout(w) \/ Validate(w)
             \/ WaitForRequest(w) \/ Handle(w) \/ PostFinish(w)
      PROVE  UNCHANGED proc
  BY <1>7 DEF PoolReady, CheckStop, GetEvent, PollTimeout, Validate, WaitForRequest, Handle, PostFinish
<1>8. ASSUME \/ ServerStep \/ Stop \/ MainStep \/ Terminated \/ UNCHANGED vars
             \/ \E c \in Calls : Call(c) \/ Cancel(c)
             \/ \E p \in Processors : SendDone(p)
      PROVE  UNCHANGED proc
  BY <1>8 DEF ServerStep, BuildAndStart, SeeStop, JoinWorkers, StartWorker, StopWorker, Stop,
              MainStep, JoinServer, Shutdown, Drain, Terminated, vars, Call, Cancel, SendDone
<1>9. ASSUME NEW w \in Workers, Spawn(w) \/ PoolCreate(w) \/ RunCreate(w) \/ SetFinished(w) \/ Delete(w)
      PROVE  UNCHANGED sending
  BY <1>9 DEF Spawn, PoolCreate, RunCreate, SetFinished, Delete
<1>10. ASSUME NEW c \in Calls, Accept(c) PROVE UNCHANGED sending
  BY <1>10 DEF Accept
<1>11. ASSUME NEW w \in Workers, WorkerStep(w)
       PROVE  Writes' = Writes /\ \A p \in Writes : proc'[p] = proc[p]
  BY <1>1, <1>2, <1>3, <1>4, <1>5, <1>7, <1>9, <1>11 DEF WorkerStep
<1> QED
  BY <1>1, <1>2, <1>6, <1>8, <1>10, <1>11 DEF Next

\* A call changes what it asks for only before it has written anything.
LEMMA AskedOnce ==
    ASSUME StreamInv, [Next]_vars, NEW c \in Calls
    PROVE  \/ written[c] = 0
           \/ \A m : AsksFor(c, m)' <=> AsksFor(c, m)
<1> USE DEF callVars
<1>0. callState \in [Calls -> {"idle", "pending", "accepted", "replied", "cancelled", "rejected"}]
  BY DEF StreamInv, Ownership, TypeOK
<1>1. callState[c] \in {"idle", "pending"} => written[c] = 0
  BY DEF StreamInv, Rounds
<1>2. ASSUME NEW d \in Calls, Call(d)
      PROVE  callState[c] = "idle" \/ (request'[c] = request[c] /\ callState'[c] = callState[c])
  BY <1>0, <1>2 DEF Call, StreamInv, Ownership, TypeOK
<1>3. ASSUME \/ \E d \in Calls : Cancel(d) \/ Accept(d)
             \/ \E p \in Processors : SendDone(p)
             \/ Shutdown
      PROVE  request'[c] = request[c] /\ (callState'[c] = "idle" <=> callState[c] = "idle")
  BY <1>0, <1>3 DEF Cancel, Accept, SendDone, Shutdown
<1>4. ASSUME NEW w \in Workers, WorkerStep(w) PROVE UNCHANGED <<callState, request>>
  BY <1>4 DEF WorkerStep, PoolCreate, PoolReady, CheckStop, GetEvent, PollTimeout, Validate,
              RunCreate, WaitForRequest, Spawn, Handle, SetFinished, PostFinish, Delete
<1>5. ASSUME ServerStep \/ Stop \/ JoinServer \/ Drain \/ Terminated \/ UNCHANGED vars
      PROVE  UNCHANGED <<callState, request>>
  BY <1>5 DEF ServerStep, BuildAndStart, SeeStop, JoinWorkers, StartWorker, StopWorker, Stop,
              JoinServer, Drain, Terminated, vars
<1> QED
  BY <1>1, <1>2, <1>3, <1>4, <1>5 DEF Next, MainStep, AsksFor

\* While a processor carries a call it alone writes for it.
LEMMA OneWrites ==
    ASSUME StreamInv, NEW p \in Processors, proc[p].call # None
    PROVE  /\ proc[p].call \in Calls
           /\ \A q \in Processors : proc[q].call = proc[p].call => q = p
           /\ \A m : AsksFor(proc[p].call, m) <=> m = proc[p].method
BY FieldsTyped DEF StreamInv, Ownership, OneCarrier, AsksFor

\* A step of RequestServer.
LEMMA CountBase ==
    ASSUME CountInv, StreamInv', Up', [Next]_vars, UNCHANGED written,
           \A p \in (sending \ sending') \cup (sending' \ sending) : proc[p].status = "FINISH"
    PROVE  Posted' /\ Counted'
<1> USE NoneAssumption
<1>0. /\ Up /\ AcceptorMove /\ StreamInv /\ Ownership /\ OneCarrier /\ Rounds /\ Ownership' /\ Counted
      /\ proc \in [Processors -> Processor] /\ proc' \in [Processors -> Processor]
      /\ armed \in [Workers -> 0 .. Len(MethodOrder)]
  BY AcceptorMoves DEF CountInv, StreamInv, Ownership, TypeOK
<1>1. Writes' = Writes /\ (\A p \in Writes : proc'[p] = proc[p]) /\ Writes \subseteq Processors
  BY <1>0, WritesStay DEF Writes, Ownership, TypeOK
<1>2. Posted'
  BY <1>0, <1>1 DEF CountInv, Posted
<1>3. \A p \in Processors :
        WriteUnderWay(p) <=> /\ proc[p].call # None /\ written[proc[p].call] > 0
                             /\ IsAcceptor(p) \/ p \in Writes
  BY <1>0, WritingIs
<1>4. \A p \in Processors :
        WriteUnderWay(p)' <=> /\ proc'[p].call # None /\ written[proc'[p].call] > 0
                              /\ IsAcceptor(p)' \/ p \in Writes
  <2>1. (Ownership => \A p \in Processors :
                        WriteUnderWay(p) <=> /\ proc[p].call # None /\ written[proc[p].call] > 0
                                             /\ IsAcceptor(p) \/ p \in Writes)'
    BY WritingIs, PTL
  <2>2. \A p \in Processors :
          WriteUnderWay(p)' <=> /\ proc'[p].call # None /\ written'[proc'[p].call] > 0
                                /\ IsAcceptor(p)' \/ p \in Writes'
    BY <1>0, <2>1
  <2> QED
    BY <1>1, <2>2
<1>5. \A c \in Calls : Resumed(c) = 0 \/ \A m : AsksFor(c, m)' <=> AsksFor(c, m)
  <2> SUFFICES ASSUME NEW c \in Calls, written[c] = 0 PROVE Resumed(c) = 0
    BY <1>0, AskedOnce
  <2>1. ~Writing(c)
    BY <1>3 DEF Writing
  <2> QED
    BY <2>1, ResumedIs
<1>6. \A p \in Writes : proc[p].call # None
  BY <1>0 DEF Writes, Ownership, EventStatus
<1>7. CASE AcceptorsKept
  <2>1. ASSUME NEW p \in Processors
        PROVE  /\ WriteUnderWay(p)' <=> WriteUnderWay(p)
               /\ WriteUnderWay(p) => proc'[p].call = proc[p].call
    <3>1. CASE p \in Writes
      BY <1>1, <1>3, <1>4, <3>1
    <3>2. CASE p \notin Writes /\ IsAcceptor(p)
      <4>1. CASE proc'[p].call = proc[p].call
        BY <1>3, <1>4, <1>7, <3>2, <4>1 DEF AcceptorsKept
      <4>2. CASE proc'[p].call # proc[p].call /\ proc'[p].call # None
        <5>1. proc[p].call = None /\ callState[proc'[p].call] = "pending" /\ proc'[p].call \in Calls
          BY <1>0, <1>7, <3>2, <4>2 DEF AcceptorsKept, Processor
        <5>2. written[proc'[p].call] = 0
          BY <1>0, <5>1 DEF Rounds
        <5> QED
          BY <1>3, <1>4, <5>1, <5>2
      <4>3. CASE proc'[p].call # proc[p].call /\ proc'[p].call = None
        BY <1>3, <1>4, <1>7, <3>2, <4>3 DEF AcceptorsKept
      <4> QED
        BY <4>1, <4>2, <4>3
    <3>3. CASE p \notin Writes /\ ~IsAcceptor(p)
      BY <1>3, <1>4, <1>7, <3>3 DEF AcceptorsKept
    <3> QED
      BY <3>1, <3>2, <3>3
  <2>2. ASSUME NEW c \in Calls PROVE Resumed(c)' = Resumed(c)
    BY <2>1, ResumedKept
  <2>3. Counted'
    BY <1>0, <1>5, <1>7, <2>1, <2>2, CountKept DEF AcceptorsKept
  <2> QED
    BY <1>2, <2>3
<1>8. ASSUME NEW old \in Processors, NEW new \in Processors, AcceptorSwapped(old, new)
      PROVE  Counted'
  <2> USE DEF AcceptorSwapped, AcceptorsElsewhere
  <2>1. old # new /\ old \notin Writes /\ new \notin Writes
    <3>1. old \notin sending
      BY <1>0, <1>8 DEF IsAcceptor, Ownership, Exclusive, AtGrpc
    <3>2. new \notin Writes
      BY <1>1, <1>6, <1>8
    <3> QED
      BY <1>8, <3>1, <3>2 DEF Writes
  <2>2. ~WriteUnderWay(new) /\ ~WriteUnderWay(new)' /\ ~WriteUnderWay(old)'
    BY <1>3, <1>4, <1>8, <2>1
  <2>3. \A p \in Processors \ {old, new} : (WriteUnderWay(p)' <=> WriteUnderWay(p)) /\ proc'[p] = proc[p]
    BY <1>3, <1>4, <1>8
  <2>4. \A m \in Methods : ArmedBy(m)' = ArmedBy(m)
    BY <1>8 DEF ArmedBy
  <2>5. CASE ~WriteUnderWay(old)
    <3>1. ASSUME NEW c \in Calls PROVE Resumed(c)' = Resumed(c)
      BY <2>2, <2>3, <2>5, ResumedKept
    <3>2. ASSUME NEW m \in Methods PROVE Resumptions(m)' = Resumptions(m)
      BY <1>5, <3>1, ResumptionsKept
    <3>3. ASSUME NEW m \in Methods
          PROVE  /\ IsFiniteSet(Standing(m)')
                 /\ Cardinality(Standing(m)') = Cardinality(Standing(m))
      <4>1. IsFiniteSet(Standing(m))
        BY <1>0 DEF Counted
      <4>2. CASE proc[old].method # m
        <5>1. Standing(m)' = Standing(m)
          BY <1>8, <2>2, <2>3, <4>2 DEF Standing
        <5> QED
          BY <4>1, <5>1
      <4>3. CASE proc[old].method = m
        <5>1. Standing(m)' = (Standing(m) \ {old}) \cup {new} /\ old \in Standing(m) /\ new \notin Standing(m)
          BY <1>8, <2>1, <2>2, <2>3, <2>5, <4>3 DEF Standing
        <5>2. /\ IsFiniteSet(Standing(m) \ {old})
              /\ Cardinality(Standing(m) \ {old}) = Cardinality(Standing(m)) - 1
          BY <4>1, <5>1, FS_RemoveElement
        <5>3. /\ IsFiniteSet((Standing(m) \ {old}) \cup {new})
              /\ Cardinality((Standing(m) \ {old}) \cup {new}) = Cardinality(Standing(m) \ {old}) + 1
          BY <5>1, <5>2, FS_AddElement
        <5>4. Cardinality(Standing(m)) \in Nat
          BY <4>1, FS_CardinalityType
        <5> QED
          BY <5>1, <5>2, <5>3, <5>4
      <4> QED
        BY <4>2, <4>3
    <3> QED
      BY <1>0, <2>4, <3>2, <3>3 DEF Counted
  <2>6. CASE WriteUnderWay(old)
    <3> PICK m0 : m0 = proc[old].method
      OBVIOUS
    <3>0. PICK c0 \in Calls, k \in Nat : c0 = proc[old].call /\ written[c0] = k + 1
      <4>1. proc[old].call \in Calls
        BY <1>0, <1>3, <2>6, OneWrites
      <4>2. written[proc[old].call] \in Nat /\ written[proc[old].call] > 0
        BY <1>0, <1>3, <2>6, <4>1 DEF Rounds
      <4>3. written[proc[old].call] - 1 \in Nat /\ written[proc[old].call] = (written[proc[old].call] - 1) + 1
        BY <4>2
      <4> QED
        BY <4>1, <4>3
    <3>1. /\ c0 # None
          /\ \A q \in Processors : proc[q].call = c0 => q = old
          /\ \A m : AsksFor(c0, m) <=> m = m0
      BY <1>0, <3>0, OneWrites
    <3>2. ASSUME NEW c \in Calls, c # c0 PROVE Resumed(c)' = Resumed(c)
      BY <2>2, <2>3, <2>6, <3>0, <3>2, ResumedKept
    <3>3. Resumed(c0) = k /\ Resumed(c0)' = k + 1
      <4>1. Writing(c0)
        BY <2>6, <3>0 DEF Writing
      <4>2. ~Writing(c0)'
        BY <1>8, <2>2, <2>3, <3>1 DEF Writing
      <4>3. written'[c0] = k + 1 => /\ Writing(c0)' => Resumed(c0)' = (k + 1) - 1
                                    /\ ~Writing(c0)' => Resumed(c0)' = k + 1
        <5>1. (\A d \in Calls : \A i \in Nat :
                 written[d] = i => /\ Writing(d) => Resumed(d) = i - 1
                                   /\ ~Writing(d) => Resumed(d) = i)'
          BY ResumedIs, PTL
        <5> QED
          BY <5>1
      <4>4. Resumed(c0) = (k + 1) - 1
        BY <3>0, <4>1, ResumedIs
      <4> QED
        BY <3>0, <4>2, <4>3, <4>4
    <3>4. \A m : AsksFor(c0, m)' <=> AsksFor(c0, m)
      BY <1>0, <3>0, AskedOnce
    <3>5. Standing(m0)' = Standing(m0) \cup {new} /\ new \notin Standing(m0)
      BY <1>8, <2>1, <2>2, <2>3, <2>6, <3>0 DEF Standing
    <3>6. Resumptions(m0)' = Resumptions(m0) \cup {<<c0, k + 1>>} /\ <<c0, k + 1>> \notin Resumptions(m0)
      BY <1>5, <3>1, <3>2, <3>3, <3>4, ResumptionAdded
    <3>7. ASSUME NEW m \in Methods, m # m0
          PROVE  Standing(m)' = Standing(m) /\ Resumptions(m)' = Resumptions(m)
      <4>1. Standing(m)' = Standing(m)
        BY <1>8, <2>2, <2>3, <3>0, <3>7 DEF Standing
      <4>2. ~AsksFor(c0, m) /\ ~AsksFor(c0, m)'
        BY <3>1, <3>4, <3>7
      <4>3. Resumptions(m)' = Resumptions(m)
        BY <1>5, <3>2, <4>2, ResumptionsKept
      <4> QED
        BY <4>1, <4>3
    <3>8. ASSUME m0 \in Methods
          PROVE  /\ IsFiniteSet(Standing(m0)') /\ IsFiniteSet(Resumptions(m0)')
                 /\ Cardinality(Standing(m0)') = Cardinality(Standing(m0)) + 1
                 /\ Cardinality(Resumptions(m0)') = Cardinality(Resumptions(m0)) + 1
      <4>1. IsFiniteSet(Standing(m0)) /\ IsFiniteSet(Resumptions(m0))
        BY <1>0, <3>8 DEF Counted
      <4>2. /\ IsFiniteSet(Standing(m0) \cup {new})
            /\ Cardinality(Standing(m0) \cup {new}) = Cardinality(Standing(m0)) + 1
        BY <3>5, <4>1, FS_AddElement
      <4>3. /\ IsFiniteSet(Resumptions(m0) \cup {<<c0, k + 1>>})
            /\ Cardinality(Resumptions(m0) \cup {<<c0, k + 1>>}) = Cardinality(Resumptions(m0)) + 1
        BY <3>6, <4>1, FS_AddElement
      <4> QED
        BY <3>5, <3>6, <4>2, <4>3
    <3>9. ASSUME NEW m \in Methods
          PROVE  /\ IsFiniteSet(Standing(m)') /\ IsFiniteSet(ArmedBy(m)') /\ IsFiniteSet(Resumptions(m)')
                 /\ Cardinality(Standing(m)') = Cardinality(ArmedBy(m)') + Cardinality(Resumptions(m)')
      <4>1. /\ IsFiniteSet(Standing(m)) /\ IsFiniteSet(ArmedBy(m)) /\ IsFiniteSet(Resumptions(m))
            /\ Cardinality(Standing(m)) = Cardinality(ArmedBy(m)) + Cardinality(Resumptions(m))
        BY <1>0 DEF Counted
      <4>2. Cardinality(ArmedBy(m)) \in Nat /\ Cardinality(Resumptions(m)) \in Nat
        BY <4>1, FS_CardinalityType
      <4>3. CASE m # m0
        BY <2>4, <3>7, <4>1, <4>3
      <4>4. CASE m = m0
        <5>1. ArmedBy(m)' = ArmedBy(m)
          BY <2>4
        <5> QED
          BY <3>8, <4>1, <4>2, <4>4, <5>1
      <4> QED
        BY <4>3, <4>4
    <3> QED
      BY <3>9 DEF Counted
  <2> QED
    BY <2>5, <2>6
<1>9. ASSUME NEW w \in Workers, NEW new \in Processors, AcceptorAdded(w, new) PROVE Counted'
  <2> USE DEF AcceptorAdded, AcceptorsElsewhere
  <2>0. PICK m0 \in Methods : m0 = MethodOrder[armed[w] + 1]
    BY <1>0, <1>9, MethodOrderAssumption
  <2>1. new \notin Writes /\ ~WriteUnderWay(new) /\ ~WriteUnderWay(new)'
    BY <1>1, <1>3, <1>4, <1>6, <1>9
  <2>2. \A p \in Processors \ {new} : (WriteUnderWay(p)' <=> WriteUnderWay(p)) /\ proc'[p] = proc[p]
    BY <1>3, <1>4, <1>9
  <2>3. ASSUME NEW c \in Calls PROVE Resumed(c)' = Resumed(c)
    BY <2>1, <2>2, ResumedKept
  <2>4. ASSUME NEW m \in Methods PROVE Resumptions(m)' = Resumptions(m)
    BY <1>5, <2>3, ResumptionsKept
  <2>5. /\ armed[w] \in Nat /\ armed'[w] = armed[w] + 1 /\ armed[w] + 1 \in 1 .. Len(MethodOrder)
        /\ \A v \in Workers : v # w => armed'[v] = armed[v]
        /\ armed[w] <= Len(MethodOrder) /\ Len(MethodOrder) \in Nat
    BY <1>0, <1>9, MethodOrderAssumption
  <2>6. \A i \in 1 .. armed[w] : MethodOrder[i] # m0
    BY <2>0, <2>5, MethodOrderAssumption
  <2>7. 1 .. armed'[w] = (1 .. armed[w]) \cup {armed[w] + 1}
    BY <2>5
  <2>8. ASSUME NEW m \in Methods, m # m0 PROVE Standing(m)' = Standing(m) /\ ArmedBy(m)' = ArmedBy(m)
    <3>1. Standing(m)' = Standing(m)
      BY <1>9, <2>0, <2>1, <2>2, <2>8 DEF Standing
    <3>2. ArmedBy(m)' = ArmedBy(m)
      BY <2>0, <2>5, <2>7, <2>8 DEF ArmedBy
    <3> QED
      BY <3>1, <3>2
  <2>9. Standing(m0)' = Standing(m0) \cup {new} /\ new \notin Standing(m0)
    BY <1>9, <2>0, <2>1, <2>2 DEF Standing
  <2>10. ArmedBy(m0)' = ArmedBy(m0) \cup {w} /\ w \notin ArmedBy(m0)
    <3>1. \A v \in Workers : v # w => (v \in ArmedBy(m0)' <=> v \in ArmedBy(m0))
      BY <2>5 DEF ArmedBy
    <3>2. w \in ArmedBy(m0)' /\ w \notin ArmedBy(m0)
      BY <2>0, <2>5, <2>6, <2>7 DEF ArmedBy
    <3>3. ArmedBy(m0) \subseteq Workers /\ ArmedBy(m0)' \subseteq Workers
      BY DEF ArmedBy
    <3> QED
      BY <3>1, <3>2, <3>3
  <2>11. ASSUME NEW m \in Methods
         PROVE  /\ IsFiniteSet(Standing(m)') /\ IsFiniteSet(ArmedBy(m)') /\ IsFiniteSet(Resumptions(m)')
                /\ Cardinality(Standing(m)') = Cardinality(ArmedBy(m)') + Cardinality(Resumptions(m)')
    <3>1. /\ IsFiniteSet(Standing(m)) /\ IsFiniteSet(ArmedBy(m)) /\ IsFiniteSet(Resumptions(m))
          /\ Cardinality(Standing(m)) = Cardinality(ArmedBy(m)) + Cardinality(Resumptions(m))
      BY <1>0 DEF Counted
    <3>2. Cardinality(ArmedBy(m)) \in Nat /\ Cardinality(Resumptions(m)) \in Nat
      BY <3>1, FS_CardinalityType
    <3>3. CASE m # m0
      BY <2>4, <2>8, <3>1, <3>3
    <3>4. CASE m = m0
      <4>1. /\ IsFiniteSet(Standing(m) \cup {new})
            /\ Cardinality(Standing(m) \cup {new}) = Cardinality(Standing(m)) + 1
        BY <2>9, <3>1, <3>4, FS_AddElement
      <4>2. /\ IsFiniteSet(ArmedBy(m) \cup {w})
            /\ Cardinality(ArmedBy(m) \cup {w}) = Cardinality(ArmedBy(m)) + 1
        BY <2>10, <3>1, <3>4, FS_AddElement
      <4>3. IsFiniteSet(Standing(m)') /\ Cardinality(Standing(m)') = Cardinality(Standing(m)) + 1
        BY <2>9, <3>4, <4>1
      <4>4. IsFiniteSet(ArmedBy(m)') /\ Cardinality(ArmedBy(m)') = Cardinality(ArmedBy(m)) + 1
        BY <2>10, <3>4, <4>2
      <4>5. Resumptions(m)' = Resumptions(m)
        BY <2>4
      <4> QED
        BY <3>1, <3>2, <4>3, <4>4, <4>5
    <3> QED
      BY <3>3, <3>4
  <2> QED
    BY <2>11 DEF Counted
<1> QED
  BY <1>0, <1>2, <1>7, <1>8, <1>9 DEF AcceptorMove

\* A round of the handler: nobody's acceptor and nobody's Write.
LEMMA HandleCounts ==
    ASSUME CountInv, Up', NEW w \in Workers, HandleStream(w)
    PROVE  Posted' /\ Counted'
<1>1. UNCHANGED <<proc, requested, sending, cq, tag, rp, armed, callState, request, written>> /\ Up
  BY DEF HandleStream, grpcVars, serverVars, Up
<1>2. \A v \in Workers : pc[v] \in {"validate", "run"} <=> pc'[v] \in {"validate", "run"}
  BY HandleStreamEffect DEF CountInv, StreamInv, Behind
<1>3. \A p \in Processors : IsAcceptor(p)' <=> IsAcceptor(p)
  BY <1>1, <1>2 DEF IsAcceptor
<1>4. \A p \in Processors : WriteUnderWay(p)' <=> WriteUnderWay(p)
  BY <1>1, <1>2 DEF WriteUnderWay, AtGrpc
<1>5. \A c \in Calls : Resumed(c)' = Resumed(c)
  BY <1>1, <1>4, ResumedKept
<1>6. \A c \in Calls : \A m \in Methods : AsksFor(c, m)' <=> AsksFor(c, m)
  BY <1>1 DEF AsksFor
<1>7. Posted'
  BY <1>1 DEF CountInv, Posted, Writes
<1>8. Counted'
  BY <1>1, <1>3, <1>4, <1>5, <1>6, CountKept DEF CountInv
<1> QED
  BY <1>7, <1>8

\* A message is passed to Write: one round more, and one that has yet to be resumed.
LEMMA WriteCounts ==
    ASSUME CountInv, Ownership', Up', NEW w \in Workers,
           proc[tag[w]].status = "PROCESS", WriteStream(w)
    PROVE  Posted' /\ Counted'
<1> USE NoneAssumption
<1>0. StreamInv /\ Ownership /\ Rounds /\ Posted /\ Counted
  BY DEF CountInv, StreamInv
<1>1. PICK p \in Processors, c \in Calls, k \in Nat :
        p = tag[w] /\ c = proc[p].call /\ written[c] = k
  <2>1. tag[w] \in Processors /\ CallOf(w) \in Calls
    BY <1>0, WriteStreamEffect
  <2> QED
    BY <1>0, <2>1 DEF Rounds, CallOf
<1>2. /\ UNCHANGED <<proc, requested, cq, rp, armed, callState, request>> /\ Up
      /\ sending' = sending \cup {p}
      /\ \A v \in Workers \ {w} : pc'[v] = pc[v] /\ tag'[v] = tag[v]
      /\ pc[w] = "post" /\ pc'[w] = "loop" /\ tag'[w] = None /\ rp[w] = None
      /\ written'[c] = k + 1 /\ \A d \in Calls \ {c} : written'[d] = written[d]
  <2>1. written' = [written EXCEPT ![c] = @ + 1] /\ written \in [Calls -> Nat]
    BY <1>0, <1>1 DEF WriteStream, Rounds
  <2>2. /\ UNCHANGED <<proc, requested, cq, rp, armed, callState, request>> /\ Up
        /\ sending' = sending \cup {p}
    BY <1>1 DEF WriteStream, serverVars, Up
  <2>3. /\ \A v \in Workers \ {w} : pc'[v] = pc[v] /\ tag'[v] = tag[v]
        /\ pc[w] = "post" /\ pc'[w] = "loop" /\ tag'[w] = None /\ rp[w] = None
    BY <1>0, WriteStreamEffect
  <2> QED
    BY <1>1, <2>1, <2>2, <2>3
<1>3. /\ p \notin requested \cup sending \cup cq
      /\ \A v \in Workers : rp[v] # p
      /\ \A v \in Workers \ {w} : tag[v] # p
  BY <1>0, <1>1, <1>2 DEF Ownership, Exclusive, AtGrpc
<1>4. ~IsAcceptor(p) /\ ~IsAcceptor(p)'
  BY <1>1, <1>2, <1>3 DEF IsAcceptor
<1>5. \A q \in Processors \ {p} : IsAcceptor(q)' <=> IsAcceptor(q)
  BY <1>1, <1>2 DEF IsAcceptor
<1>6. \A q \in Processors \ {p} : proc[q].call # c
  BY <1>0, <1>1, OneWrites
<1>7. ~WriteUnderWay(p) /\ WriteUnderWay(p)'
  <2>1. ~WriteUnderWay(p)
    BY <1>1, <1>2, <1>3 DEF WriteUnderWay, AtGrpc
  <2>2. WriteUnderWay(p)'
    BY <1>1, <1>2 DEF WriteUnderWay, AtGrpc
  <2> QED
    BY <2>1, <2>2
<1>8. \A q \in Processors \ {p} : WriteUnderWay(q)' <=> WriteUnderWay(q)
  <2> SUFFICES ASSUME NEW q \in Processors \ {p}, proc[q].call # None
               PROVE  WriteUnderWay(q)' <=> WriteUnderWay(q)
    BY <1>2 DEF WriteUnderWay
  <2>1. written'[proc[q].call] = written[proc[q].call]
    BY <1>0, <1>2, <1>6, OneWrites
  <2>2. q \in AtGrpc' <=> q \in AtGrpc
    BY <1>2 DEF AtGrpc
  <2>3. (\E v \in Workers : tag[v] = q /\ rp[v] = None /\ pc[v] \in {"validate", "run"})'
        <=> \E v \in Workers : tag[v] = q /\ rp[v] = None /\ pc[v] \in {"validate", "run"}
    BY <1>2
  <2> QED
    BY <1>2, <2>1, <2>2, <2>3 DEF WriteUnderWay
<1>9. Resumed(c) = k /\ Resumed(c)' = k
  <2>1. ~Writing(c) /\ Writing(c)'
    BY <1>1, <1>2, <1>6, <1>7 DEF Writing
  <2>2. (\A d \in Calls : \A i \in Nat :
           written[d] = i => /\ Writing(d) => Resumed(d) = i - 1
                             /\ ~Writing(d) => Resumed(d) = i)'
    BY ResumedIs, PTL
  <2>3. written'[c] = k + 1 => (Writing(c)' => Resumed(c)' = (k + 1) - 1)
    BY <2>2
  <2>4. Resumed(c) = k
    BY <1>1, <2>1, ResumedIs
  <2> QED
    BY <1>2, <2>1, <2>3, <2>4
<1>10. \A d \in Calls : Resumed(d)' = Resumed(d)
  <2>1. ASSUME NEW d \in Calls, d # c PROVE Resumed(d)' = Resumed(d)
    BY <1>1, <1>2, <1>8, <2>1, ResumedKept
  <2> QED
    BY <1>9, <2>1
<1>11. \A d \in Calls : \A m \in Methods : AsksFor(d, m)' <=> AsksFor(d, m)
  BY <1>2 DEF AsksFor
<1>12. \A q \in Processors :
         /\ IsAcceptor(q)' /\ ~WriteUnderWay(q)' <=> IsAcceptor(q) /\ ~WriteUnderWay(q)
         /\ proc'[q].method = proc[q].method
  BY <1>2, <1>4, <1>5, <1>8
<1>13. Counted'
  BY <1>0, <1>2, <1>10, <1>11, <1>12, CountKept
<1>14. Posted'
  <2>1. ASSUME NEW q \in Writes' PROVE written'[proc'[q].call] > 0
    <3>1. CASE q = p
      BY <1>1, <1>2, <3>1
    <3>2. CASE q # p
      <4>1. q \in Writes /\ q \in Processors /\ proc[q].call # None
        BY <1>0, <1>2, <2>1, <3>2 DEF Writes, Ownership, TypeOK, EventStatus
      <4>2. proc[q].call \in Calls \ {c}
        BY <1>0, <1>6, <3>2, <4>1, OneWrites
      <4> QED
        BY <1>0, <1>2, <4>1, <4>2 DEF Posted
    <3> QED
      BY <3>1, <3>2
  <2> QED
    BY <2>1 DEF Posted
<1> QED
  BY <1>13, <1>14

\* The Write completes: its processor is an acceptor again, but one under way.
LEMMA DoneCounts ==
    ASSUME CountInv, Ownership', Up', NEW p \in Processors, WriteDone(p)
    PROVE  Posted' /\ Counted'
<1>0. StreamInv /\ Ownership /\ Posted /\ Counted
  BY DEF CountInv, StreamInv
<1>1. /\ UNCHANGED <<proc, requested, pc, tag, rp, armed, callState, request, written>> /\ Up
      /\ proc[p].status = "PROCESS" /\ p \in sending
      /\ sending' = sending \ {p} /\ cq' = cq \cup {p}
  BY DEF WriteDone, workerVars, serverVars, callVars, Up
<1>2. \A q \in Processors \ {p} : IsAcceptor(q)' <=> IsAcceptor(q)
  BY <1>1 DEF IsAcceptor
<1>3. AtGrpc' = AtGrpc
  BY <1>1 DEF AtGrpc
<1>4. \A q \in Processors : WriteUnderWay(q)' <=> WriteUnderWay(q)
  BY <1>1, <1>3 DEF WriteUnderWay
<1>5. WriteUnderWay(p)
  <2>1. proc[p].call # None /\ written[proc[p].call] > 0
    BY <1>0, <1>1 DEF Posted, Writes, Ownership, EventStatus
  <2> QED
    BY <1>1, <2>1 DEF WriteUnderWay, AtGrpc
<1>6. \A c \in Calls : Resumed(c)' = Resumed(c)
  BY <1>1, <1>4, ResumedKept
<1>7. \A c \in Calls : \A m \in Methods : AsksFor(c, m)' <=> AsksFor(c, m)
  BY <1>1 DEF AsksFor
<1>8. \A q \in Processors :
        /\ IsAcceptor(q)' /\ ~WriteUnderWay(q)' <=> IsAcceptor(q) /\ ~WriteUnderWay(q)
        /\ proc'[q].method = proc[q].method
  BY <1>1, <1>2, <1>4, <1>5
<1>9. Counted'
  BY <1>0, <1>1, <1>6, <1>7, <1>8, CountKept
<1>10. Posted'
  BY <1>0, <1>1 DEF Posted, Writes
<1> QED
  BY <1>9, <1>10

LEMMA CountStep == CountInv /\ [StreamNext]_streamVars => CountInv'
<1> SUFFICES ASSUME CountInv, [StreamNext]_streamVars PROVE CountInv'
  OBVIOUS
<1>1. StreamInv' /\ Ownership'
  BY StreamOwnershipStep, StreamCarrierStep, RoundsStep DEF CountInv, StreamInv
<1>2. CASE ~Up'
  BY <1>1, <1>2 DEF CountInv, Posted, Counted
<1>3. CASE Up'
  <2>1. Posted' /\ Counted'
    BY <1>1, <1>3, WriteSteps, HandleCounts, WriteCounts, DoneCounts, CountBase DEF CountInv
  <2> QED
    BY <1>1, <2>1 DEF CountInv
<1> QED
  BY <1>2, <1>3

\* Before the first worker runs there is nothing to count.
LEMMA InitCount == StreamInit => CountInv
<1> SUFFICES ASSUME StreamInit PROVE CountInv
  OBVIOUS
<1>1. StreamInv
  BY InitStreamInv
<1>2. requested = {} /\ sending = {} /\ cq = {} /\ armed = [w \in Workers |-> 0]
  BY DEF StreamInit, Init
<1>3. /\ tag = [w \in Workers |-> None] /\ rp = [w \in Workers |-> None]
      /\ \A p \in Processors : proc[p].call = None
      /\ \A c \in Calls : callState[c] = "idle"
  BY DEF StreamInit, Init, Free
<1>4. ASSUME NEW m \in Methods
      PROVE  Standing(m) = {} /\ ArmedBy(m) = {} /\ Resumptions(m) = {}
  <2>1. Standing(m) = {}
    BY <1>2, <1>3, NoneAssumption DEF Standing, IsAcceptor
  <2>2. ArmedBy(m) = {}
    BY <1>2 DEF ArmedBy
  <2>3. Resumptions(m) = {}
    BY <1>3 DEF Resumptions, AsksFor
  <2> QED
    BY <2>1, <2>2, <2>3
<1>5. IsFiniteSet({}) /\ Cardinality({}) = 0
  BY FS_EmptySet
<1>6. Posted /\ Counted
  <2>1. Counted
    BY <1>4, <1>5 DEF Counted
  <2> QED
    BY <1>2, <2>1 DEF Posted, Writes
<1> QED
  BY <1>1, <1>6 DEF CountInv

\* A server that answers with streams loses no acceptor, and has one too many for
\* each message after which a stream was resumed, until it is stopped.
THEOREM SurplusPerResumption == StreamSpec => []AcceptorPerResumption
<1>1. CountInv => AcceptorPerResumption
  BY DEF CountInv, Counted, AcceptorPerResumption
<1> QED
  BY <1>1, InitCount, CountStep, PTL DEF StreamSpec
=============================================================================
