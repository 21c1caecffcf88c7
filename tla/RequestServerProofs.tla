------------------------ MODULE RequestServerProofs ------------------------
(***************************************************************************)
(* Theorems of RequestServer, in two parts.                                *)
(*                                                                         *)
(* About processors: OneOwner is not inductive by itself, since whether a  *)
(* step may put a processor somewhere depends on where its worker is, on   *)
(* the status of the processor, and on the order of Server::stop.  IInv    *)
(* adds what is needed: PcCoherent ties the locals of process() and run()  *)
(* to the program point, Joined says that nothing runs once the server     *)
(* thread has ended, Exclusive and Accounted state OneOwner pointwise, and *)
(* EventStatus and OnlyFinishPosted are StatusMatchesEvent with what holds *)
(* of a processor just created.  All but the last are kept by streams too  *)
(* and are put together as Ownership.                                      *)
(*                                                                         *)
(* About calls: what a reply tells, who may be handled, that stopping      *)
(* finishes what was begun, that nothing works after the join, that the    *)
(* server implements CallService, and that the pool neither shrinks nor    *)
(* grows.  CallInv follows a call through the one processor that carries   *)
(* it: while a processor is in PROCESS its call has no reply, and it has   *)
(* been handled only if the worker with this processor in hand stands      *)
(* right behind the handler.                                               *)
(***************************************************************************)
EXTENDS RequestServer, TLAPS

Empty(w)   == tag[w] = None /\ rp[w] = None
Carries(w) == tag[w] \in Processors /\ rp[w] = None

\* The locals of a worker thread at each program point.
PcCoherent ==
    \A w \in Workers :
        /\ pc[w] \in {"new", "pool", "loop", "poll", "done"} => Empty(w)
        /\ pc[w] \in {"validate", "handle", "finish", "post"} => Carries(w)
        /\ pc[w] = "run" => rp[w] \in Processors \/ tag[w] \in Processors
        /\ pc[w] = "arm" => rp[w] \in Processors

\* Server::stop goes on only after the server thread, and that only after the
\* workers, have ended.
Joined ==
    /\ ~Up => serverPc = "done"
    /\ serverPc = "done" => \A w \in Workers : pc[w] = "done"

Held(p) == \E w \in Workers : tag[w] = p \/ rp[w] = p

\* OneOwner, first half: no processor is in two places.
Exclusive ==
    /\ requested \cap sending = {}
    /\ requested \cap cq = {}
    /\ sending \cap cq = {}
    /\ \A w \in Workers : tag[w] \notin AtGrpc /\ rp[w] \notin AtGrpc
    /\ \A w \in Workers : tag[w] # None => tag[w] # rp[w]
    /\ \A v, w \in Workers : v # w =>
         /\ tag[v] # None => tag[v] # tag[w] /\ tag[v] # rp[w]
         /\ rp[v] # None => rp[v] # rp[w]

\* OneOwner, second half: the places hold exactly the live processors.
Accounted ==
    /\ \A p \in Processors : p \in AtGrpc \/ Held(p) => proc[p].status # "free"
    /\ mainPc \notin {"draining", "stopped"} =>
         \A p \in Processors : proc[p].status # "free" => p \in AtGrpc \/ Held(p)
    /\ \A p \in Processors : proc[p].status = "free" => proc[p] = Free

\* StatusMatchesEvent as far as it holds with and without streams, whose Write is
\* posted and completed in PROCESS, and what holds of a processor between its
\* creation and its registration.
EventStatus ==
    /\ \A p \in requested : proc[p].status = "PROCESS" /\ proc[p].call = None
    /\ \A p \in sending : proc[p].status \in {"PROCESS", "FINISH"} /\ proc[p].call # None
    /\ Up => \A p \in cq : proc[p].status \in {"PROCESS", "FINISH"} /\ proc[p].call # None
    /\ \A w \in Workers :
        /\ tag[w] # None =>
             /\ proc[tag[w]].call # None
             /\ pc[w] \in {"validate", "run", "post"} =>
                  proc[tag[w]].status \in {"PROCESS", "FINISH"}
             /\ pc[w] \in {"arm", "handle", "finish"} => proc[tag[w]].status = "PROCESS"
             /\ rp[w] # None => proc[tag[w]].status = "PROCESS"
        /\ rp[w] # None =>
             /\ proc[rp[w]].call = None
             /\ proc[rp[w]].status = IF pc[w] = "arm" THEN "PROCESS" ELSE "CREATE"

Ownership == TypeOK /\ PcCoherent /\ Joined /\ Exclusive /\ Accounted /\ EventStatus

\* The rest of StatusMatchesEvent: a unary processor posts nothing but its Finish.
OnlyFinishPosted ==
    /\ \A p \in sending : proc[p].status = "FINISH"
    /\ \A w \in Workers : pc[w] = "post" => proc[tag[w]].status = "FINISH"

IInv == Ownership /\ OnlyFinishPosted

\* run() is only entered on a processor.
LEMMA CurrentIsProcessor ==
    ASSUME Ownership, NEW w \in Workers, pc[w] \in {"run", "arm"}
    PROVE  Current(w) \in Processors
BY NoneAssumption DEF Ownership, TypeOK, PcCoherent, Current

\* run() in another branch than CREATE has the processor of an event.
LEMMA EventInHand ==
    ASSUME Ownership, NEW w \in Workers, pc[w] = "run", proc[Current(w)].status # "CREATE"
    PROVE  tag[w] \in Processors /\ rp[w] = None /\ Current(w) = tag[w]
<1>1. rp[w] = None
  <2>1. rp[w] # None => proc[rp[w]].status = "CREATE"
    BY DEF Ownership, EventStatus
  <2> QED
    BY <2>1 DEF Current
<1>2. tag[w] \in Processors
  BY <1>1, NoneAssumption DEF Ownership, PcCoherent
<1> QED
  BY <1>1, <1>2 DEF Current

\* Assigning _status keeps the objects well formed.
LEMMA StatusTyped ==
    ASSUME proc \in [Processors -> Processor], NEW p \in Processors,
           NEW s \in {"free", "CREATE", "PROCESS", "FINISH"}
    PROVE  [proc EXCEPT ![p].status = s] \in [Processors -> Processor]
BY DEF Processor

\* So does filling in the call.
LEMMA CallTyped ==
    ASSUME proc \in [Processors -> Processor], NEW p \in Processors, NEW c \in Calls
    PROVE  [proc EXCEPT ![p].call = c] \in [Processors -> Processor]
BY DEF Processor

\* operator new returns a free address ...
LEMMA AllocatedIsFree ==
    ASSUME NEW p \in Allocate({q \in Processors : proc[q] = Free})
    PROVE  p \in Processors /\ proc[p] = Free
BY AllocateAssumption

\* ... and a free address is referred to from nowhere.
LEMMA FreeIsNowhere ==
    ASSUME Ownership, NEW p \in Processors, proc[p] = Free
    PROVE  p \notin AtGrpc /\ \A v \in Workers : tag[v] # p /\ rp[v] # p
<1>1. proc[p].status = "free"
  BY DEF Free
<1> QED
  BY <1>1 DEF Ownership, Accounted, Held

\* Constructing a processor keeps the objects well formed.
LEMMA CreatedTyped ==
    ASSUME proc \in [Processors -> Processor], NEW p \in Processors,
           NEW m \in Methods \cup {None}, NEW own \in Workers \cup {None}
    PROVE  [proc EXCEPT ![p] = [status |-> "CREATE", method |-> m,
                                owner |-> own, call |-> None]] \in [Processors -> Processor]
BY DEF Processor

\* Every step keeps the types.
LEMMA TypeStep == Ownership /\ [Next]_vars => TypeOK'
<1> SUFFICES ASSUME Ownership, [Next]_vars PROVE TypeOK'
  OBVIOUS
<1> USE NoneAssumption, AssertsAssumption DEF Ownership, TypeOK, PcCoherent, Empty, Carries, Codes, WorkerPcs, grpcVars, workerVars, serverVars, callVars
<1>1. ASSUME NEW w \in Workers, RunCreate(w) PROVE TypeOK'
  <2>1. Current(w) \in Processors
    BY <1>1, CurrentIsProcessor DEF RunCreate
  <2>2. proc' \in [Processors -> Processor]
    BY <1>1, <2>1, StatusTyped DEF RunCreate, SetStatus
  <2> QED
    BY <1>1, <2>2 DEF RunCreate, Goto
<1>2. ASSUME NEW w \in Workers, WaitForRequest(w) PROVE TypeOK'
  <2>1. Current(w) \in Processors
    BY <1>2, CurrentIsProcessor DEF WaitForRequest
  <2> QED
    BY <1>2, <2>1 DEF WaitForRequest, Goto
<1>3. ASSUME NEW w \in Workers, Spawn(w) PROVE TypeOK'
  <2>1. Current(w) \in Processors
    BY <1>3, CurrentIsProcessor DEF Spawn
  <2>2. /\ proc[Current(w)].method \in Methods \cup {None}
        /\ proc[Current(w)].owner \in Workers \cup {None}
    BY <2>1 DEF Processor
  <2>3. PICK p \in Allocate({q \in Processors : proc[q] = Free}) :
          /\ proc' = [proc EXCEPT ![p] = [status |-> "CREATE",
                                         method |-> proc[Current(w)].method,
                                         owner |-> proc[Current(w)].owner,
                                         call |-> None]]
          /\ rp' = [rp EXCEPT ![w] = p]
    BY <1>3 DEF Spawn, CreateProcessor
  <2>4. p \in Processors
    BY <2>3, AllocatedIsFree
  <2>5. proc' \in [Processors -> Processor] /\ rp' \in [Workers -> Processors \cup {None}]
    BY <2>2, <2>3, <2>4, CreatedTyped
  <2> QED
    BY <1>3, <2>5 DEF Spawn
<1>4. ASSUME NEW w \in Workers, Handle(w) PROVE TypeOK'
  <2>1. handled' \in [Calls -> Nat]
    <3> DEFINE k == proc[tag[w]].call
    <3>1. \A c \in Calls : c = k \/ c # k => [handled EXCEPT ![k] = @ + 1][c] \in Nat
      OBVIOUS
    <3>2. [handled EXCEPT ![k] = @ + 1] \in [Calls -> Nat]
      BY <3>1
    <3> QED
      BY <1>4, <3>2 DEF Handle
  <2> QED
    BY <1>4, <2>1 DEF Handle, Goto
<1>5. ASSUME NEW w \in Workers, SetFinished(w) PROVE TypeOK'
  <2>1. tag[w] \in Processors
    BY <1>5 DEF SetFinished
  <2>2. proc' \in [Processors -> Processor]
    BY <1>5, <2>1, StatusTyped DEF SetFinished, SetStatus
  <2> QED
    BY <1>5, <2>2 DEF SetFinished, Goto
<1>6. ASSUME NEW w \in Workers, PostFinish(w) PROVE TypeOK'
  BY <1>6 DEF PostFinish, Goto
<1>7. ASSUME NEW w \in Workers, Delete(w) PROVE TypeOK'
  <2>1. Free \in Processor
    BY DEF Processor, Free
  <2> QED
    BY <1>7, <2>1 DEF Delete, Goto
<1>8. ASSUME NEW w \in Workers, PoolCreate(w) PROVE TypeOK'
  <2>1. armed[w] + 1 \in DOMAIN MethodOrder /\ armed[w] + 1 \in 0 .. Len(MethodOrder)
    BY <1>8, MethodOrderAssumption DEF PoolCreate
  <2>2. MethodOrder[armed[w] + 1] \in Methods \cup {None}
    BY <2>1 DEF Methods
  <2>3. PICK p \in Allocate({q \in Processors : proc[q] = Free}) :
          /\ proc' = [proc EXCEPT ![p] = [status |-> "CREATE",
                                         method |-> MethodOrder[armed[w] + 1],
                                         owner |-> w, call |-> None]]
          /\ rp' = [rp EXCEPT ![w] = p]
    BY <1>8 DEF PoolCreate, CreateProcessor
  <2>4. p \in Processors
    BY <2>3, AllocatedIsFree
  <2>5. proc' \in [Processors -> Processor] /\ rp' \in [Workers -> Processors \cup {None}]
    BY <2>2, <2>3, <2>4, CreatedTyped
  <2> QED
    BY <1>8, <2>1, <2>5 DEF PoolCreate, Goto
<1>9. ASSUME NEW w \in Workers, PoolReady(w) PROVE TypeOK'
  BY <1>9 DEF PoolReady, Goto
<1>10. ASSUME NEW w \in Workers, CheckStop(w) PROVE TypeOK'
  BY <1>10 DEF CheckStop, Goto
<1>11. ASSUME NEW w \in Workers, GetEvent(w) PROVE TypeOK'
  BY <1>11 DEF GetEvent, Goto
<1>12. ASSUME NEW w \in Workers, PollTimeout(w) PROVE TypeOK'
  BY <1>12 DEF PollTimeout, Goto
<1>13. ASSUME NEW w \in Workers, Validate(w) PROVE TypeOK'
  <2>1. tag[w] \in Processors
    BY <1>13 DEF Validate
  <2>2. proc[tag[w]].call \in Calls
    BY <1>13, <2>1 DEF Validate, EventStatus, Processor
  <2>3. validated' = validated \/ validated' = validated \cup {proc[tag[w]].call}
    BY <1>13 DEF Validate
  <2>4. PICK c \in Codes : code' = [code EXCEPT ![w] = c]
    BY <1>13 DEF Validate, Codes
  <2> QED
    BY <1>13, <2>2, <2>3, <2>4 DEF Validate, Goto
<1>14. ASSUME NEW w \in Workers, StartWorker(w) PROVE TypeOK'
  BY <1>14 DEF StartWorker, Goto
<1>15. ASSUME NEW w \in Workers, StopWorker(w) PROVE TypeOK'
  BY <1>15 DEF StopWorker
<1>16. ASSUME BuildAndStart PROVE TypeOK'
  BY <1>16 DEF BuildAndStart
<1>17. ASSUME SeeStop PROVE TypeOK'
  BY <1>17 DEF SeeStop
<1>18. ASSUME JoinWorkers PROVE TypeOK'
  BY <1>18 DEF JoinWorkers
<1>19. ASSUME Stop PROVE TypeOK'
  BY <1>19 DEF Stop
<1>20. ASSUME JoinServer PROVE TypeOK'
  BY <1>20 DEF JoinServer
<1>21. ASSUME Shutdown PROVE TypeOK'
  BY <1>21 DEF Shutdown
<1>22. ASSUME Drain PROVE TypeOK'
  BY <1>22 DEF Drain
<1>23. ASSUME NEW c \in Calls, Call(c) PROVE TypeOK'
  BY <1>23 DEF Call
<1>24. ASSUME NEW c \in Calls, Cancel(c) PROVE TypeOK'
  BY <1>24 DEF Cancel
<1>25. ASSUME NEW c \in Calls, Accept(c) PROVE TypeOK'
  <2>1. PICK p \in requested :
          cq' = cq \cup {p} /\ proc' = [proc EXCEPT ![p].call = c]
    BY <1>25 DEF Accept
  <2>2. proc' \in [Processors -> Processor]
    BY <2>1, CallTyped
  <2> QED
    BY <1>25, <2>1, <2>2 DEF Accept
<1>26. ASSUME NEW p \in Processors, SendDone(p) PROVE TypeOK'
  BY <1>26 DEF SendDone
<1>27. CASE UNCHANGED vars
  BY <1>27 DEF vars
<1>28. QED
  BY <1>1, <1>2, <1>3, <1>4, <1>5, <1>6, <1>7, <1>8, <1>9, <1>10, <1>11,
     <1>12, <1>13, <1>14, <1>15, <1>16, <1>17, <1>18, <1>19, <1>20, <1>21,
     <1>22, <1>23, <1>24, <1>25, <1>26, <1>27
     DEF Next, WorkerStep, ServerStep, MainStep, Terminated

\* Every step keeps each worker's locals coherent with its program point.
LEMMA PcStep == Ownership /\ [Next]_vars => PcCoherent'
<1> SUFFICES ASSUME Ownership, [Next]_vars PROVE PcCoherent'
  OBVIOUS
<1> USE NoneAssumption DEF Ownership, TypeOK, PcCoherent, EventStatus, Empty, Carries, WorkerPcs, grpcVars, workerVars, serverVars, callVars
<1>1. ASSUME NEW w \in Workers, RunCreate(w) PROVE PcCoherent'
  <2>1. rp[w] # None
    BY <1>1 DEF RunCreate, Current
  <2> QED
    BY <1>1, <2>1 DEF RunCreate, Goto
<1>2. ASSUME NEW w \in Workers, WaitForRequest(w) PROVE PcCoherent'
  <2>1. rp[w] # None
    BY <1>2 DEF WaitForRequest
  <2> QED
    BY <1>2, <2>1 DEF WaitForRequest, Goto
<1>3. ASSUME NEW w \in Workers, Spawn(w) PROVE PcCoherent'
  <2>1. PICK p \in Allocate({q \in Processors : proc[q] = Free}) : rp' = [rp EXCEPT ![w] = p]
    BY <1>3 DEF Spawn, CreateProcessor
  <2>2. p \in Processors
    BY <2>1, AllocatedIsFree
  <2> QED
    BY <1>3, <2>1, <2>2 DEF Spawn
<1>4. ASSUME NEW w \in Workers, Handle(w) PROVE PcCoherent'
  BY <1>4 DEF Handle, Goto
<1>5. ASSUME NEW w \in Workers, SetFinished(w) PROVE PcCoherent'
  BY <1>5 DEF SetFinished, SetStatus, Goto
<1>6. ASSUME NEW w \in Workers, PostFinish(w) PROVE PcCoherent'
  BY <1>6 DEF PostFinish, Goto
<1>7. ASSUME NEW w \in Workers, Delete(w) PROVE PcCoherent'
  BY <1>7 DEF Delete, Goto, Current
<1>8. ASSUME NEW w \in Workers, PoolCreate(w) PROVE PcCoherent'
  <2>1. PICK p \in Allocate({q \in Processors : proc[q] = Free}) : rp' = [rp EXCEPT ![w] = p]
    BY <1>8 DEF PoolCreate, CreateProcessor
  <2>2. p \in Processors
    BY <2>1, AllocatedIsFree
  <2> QED
    BY <1>8, <2>1, <2>2 DEF PoolCreate, Goto
<1>9. ASSUME NEW w \in Workers, PoolReady(w) PROVE PcCoherent'
  BY <1>9 DEF PoolReady, Goto
<1>10. ASSUME NEW w \in Workers, CheckStop(w) PROVE PcCoherent'
  BY <1>10 DEF CheckStop, Goto
<1>11. ASSUME NEW w \in Workers, GetEvent(w) PROVE PcCoherent'
  BY <1>11 DEF GetEvent, Goto
<1>12. ASSUME NEW w \in Workers, PollTimeout(w) PROVE PcCoherent'
  BY <1>12 DEF PollTimeout, Goto
<1>13. ASSUME NEW w \in Workers, Validate(w) PROVE PcCoherent'
  BY <1>13 DEF Validate, Goto
<1>14. ASSUME NEW w \in Workers, StartWorker(w) PROVE PcCoherent'
  BY <1>14 DEF StartWorker, Goto
<1>15. ASSUME NEW w \in Workers, StopWorker(w) PROVE PcCoherent'
  BY <1>15 DEF StopWorker
<1>16. ASSUME BuildAndStart PROVE PcCoherent'
  BY <1>16 DEF BuildAndStart
<1>17. ASSUME SeeStop PROVE PcCoherent'
  BY <1>17 DEF SeeStop
<1>18. ASSUME JoinWorkers PROVE PcCoherent'
  BY <1>18 DEF JoinWorkers
<1>19. ASSUME Stop PROVE PcCoherent'
  BY <1>19 DEF Stop
<1>20. ASSUME JoinServer PROVE PcCoherent'
  BY <1>20 DEF JoinServer
<1>21. ASSUME Shutdown PROVE PcCoherent'
  BY <1>21 DEF Shutdown
<1>22. ASSUME Drain PROVE PcCoherent'
  BY <1>22 DEF Drain
<1>23. ASSUME NEW c \in Calls, Call(c) PROVE PcCoherent'
  BY <1>23 DEF Call
<1>24. ASSUME NEW c \in Calls, Cancel(c) PROVE PcCoherent'
  BY <1>24 DEF Cancel
<1>25. ASSUME NEW c \in Calls, Accept(c) PROVE PcCoherent'
  BY <1>25 DEF Accept
<1>26. ASSUME NEW p \in Processors, SendDone(p) PROVE PcCoherent'
  BY <1>26 DEF SendDone
<1>27. CASE UNCHANGED vars
  BY <1>27 DEF vars
<1>28. QED
  BY <1>1, <1>2, <1>3, <1>4, <1>5, <1>6, <1>7, <1>8, <1>9, <1>10, <1>11,
     <1>12, <1>13, <1>14, <1>15, <1>16, <1>17, <1>18, <1>19, <1>20, <1>21,
     <1>22, <1>23, <1>24, <1>25, <1>26, <1>27
     DEF Next, WorkerStep, ServerStep, MainStep, Terminated

\* Every step keeps the order of the joins.
LEMMA JoinedStep == Ownership /\ [Next]_vars => Joined'
<1> SUFFICES ASSUME Ownership, [Next]_vars PROVE Joined'
  OBVIOUS
<1> USE DEF Ownership, TypeOK, Joined, Up, grpcVars, workerVars, serverVars, callVars
<1>1. ASSUME NEW w \in Workers, RunCreate(w) PROVE Joined'
  BY <1>1 DEF RunCreate, SetStatus, Goto, Current
<1>2. ASSUME NEW w \in Workers, WaitForRequest(w) PROVE Joined'
  BY <1>2 DEF WaitForRequest, Goto, Current
<1>3. ASSUME NEW w \in Workers, Spawn(w) PROVE Joined'
  BY <1>3 DEF Spawn, CreateProcessor, Current
<1>4. ASSUME NEW w \in Workers, Handle(w) PROVE Joined'
  BY <1>4 DEF Handle, Goto
<1>5. ASSUME NEW w \in Workers, SetFinished(w) PROVE Joined'
  BY <1>5 DEF SetFinished, SetStatus, Goto
<1>6. ASSUME NEW w \in Workers, PostFinish(w) PROVE Joined'
  BY <1>6 DEF PostFinish, Goto
<1>7. ASSUME NEW w \in Workers, Delete(w) PROVE Joined'
  BY <1>7 DEF Delete, Goto, Current
<1>8. ASSUME NEW w \in Workers, PoolCreate(w) PROVE Joined'
  BY <1>8 DEF PoolCreate, CreateProcessor, Goto
<1>9. ASSUME NEW w \in Workers, PoolReady(w) PROVE Joined'
  BY <1>9 DEF PoolReady, Goto
<1>10. ASSUME NEW w \in Workers, CheckStop(w) PROVE Joined'
  BY <1>10 DEF CheckStop, Goto
<1>11. ASSUME NEW w \in Workers, GetEvent(w) PROVE Joined'
  BY <1>11 DEF GetEvent, Goto
<1>12. ASSUME NEW w \in Workers, PollTimeout(w) PROVE Joined'
  BY <1>12 DEF PollTimeout, Goto
<1>13. ASSUME NEW w \in Workers, Validate(w) PROVE Joined'
  BY <1>13 DEF Validate, Goto
<1>14. ASSUME NEW w \in Workers, StartWorker(w) PROVE Joined'
  BY <1>14 DEF StartWorker, Goto
<1>15. ASSUME NEW w \in Workers, StopWorker(w) PROVE Joined'
  BY <1>15 DEF StopWorker
<1>16. ASSUME BuildAndStart PROVE Joined'
  BY <1>16 DEF BuildAndStart
<1>17. ASSUME SeeStop PROVE Joined'
  BY <1>17 DEF SeeStop
<1>18. ASSUME JoinWorkers PROVE Joined'
  BY <1>18 DEF JoinWorkers
<1>19. ASSUME Stop PROVE Joined'
  BY <1>19 DEF Stop
<1>20. ASSUME JoinServer PROVE Joined'
  BY <1>20 DEF JoinServer
<1>21. ASSUME Shutdown PROVE Joined'
  BY <1>21 DEF Shutdown
<1>22. ASSUME Drain PROVE Joined'
  BY <1>22 DEF Drain
<1>23. ASSUME NEW c \in Calls, Call(c) PROVE Joined'
  BY <1>23 DEF Call
<1>24. ASSUME NEW c \in Calls, Cancel(c) PROVE Joined'
  BY <1>24 DEF Cancel
<1>25. ASSUME NEW c \in Calls, Accept(c) PROVE Joined'
  BY <1>25 DEF Accept
<1>26. ASSUME NEW p \in Processors, SendDone(p) PROVE Joined'
  BY <1>26 DEF SendDone
<1>27. CASE UNCHANGED vars
  BY <1>27 DEF vars
<1>28. QED
  BY <1>1, <1>2, <1>3, <1>4, <1>5, <1>6, <1>7, <1>8, <1>9, <1>10, <1>11,
     <1>12, <1>13, <1>14, <1>15, <1>16, <1>17, <1>18, <1>19, <1>20, <1>21,
     <1>22, <1>23, <1>24, <1>25, <1>26, <1>27
     DEF Next, WorkerStep, ServerStep, MainStep, Terminated

\* No step puts a processor in a second place.
LEMMA ExclusiveStep == Ownership /\ [Next]_vars => Exclusive'
<1> SUFFICES ASSUME Ownership, [Next]_vars PROVE Exclusive'
  OBVIOUS
<1> USE NoneAssumption DEF Ownership, TypeOK, PcCoherent, Empty, Carries, Exclusive, AtGrpc, grpcVars, workerVars, serverVars, callVars
<1>1. ASSUME NEW w \in Workers, RunCreate(w) PROVE Exclusive'
  BY <1>1 DEF RunCreate, SetStatus, Goto, Current
<1>2. ASSUME NEW w \in Workers, WaitForRequest(w) PROVE Exclusive'
  BY <1>2 DEF WaitForRequest, Goto, Current
<1>3. ASSUME NEW w \in Workers, Spawn(w) PROVE Exclusive'
  <2>1. PICK p \in Allocate({q \in Processors : proc[q] = Free}) :
          /\ proc' = [proc EXCEPT ![p] = [status |-> "CREATE",
                                         method |-> proc[Current(w)].method,
                                         owner |-> proc[Current(w)].owner,
                                         call |-> None]]
          /\ rp' = [rp EXCEPT ![w] = p]
    BY <1>3 DEF Spawn, CreateProcessor
  <2>2. p \in Processors /\ proc[p] = Free
    BY <2>1, AllocatedIsFree
  <2>3. p \notin AtGrpc /\ \A v \in Workers : tag[v] # p /\ rp[v] # p
    BY <2>2, FreeIsNowhere
  <2> QED
    BY <1>3, <2>1, <2>2, <2>3 DEF Spawn
<1>4. ASSUME NEW w \in Workers, Handle(w) PROVE Exclusive'
  BY <1>4 DEF Handle, Goto
<1>5. ASSUME NEW w \in Workers, SetFinished(w) PROVE Exclusive'
  BY <1>5 DEF SetFinished, SetStatus, Goto
<1>6. ASSUME NEW w \in Workers, PostFinish(w) PROVE Exclusive'
  BY <1>6 DEF PostFinish, Goto
<1>7. ASSUME NEW w \in Workers, Delete(w) PROVE Exclusive'
  BY <1>7 DEF Delete, Goto, Current
<1>8. ASSUME NEW w \in Workers, PoolCreate(w) PROVE Exclusive'
  <2>1. PICK p \in Allocate({q \in Processors : proc[q] = Free}) :
          /\ proc' = [proc EXCEPT ![p] = [status |-> "CREATE",
                                         method |-> MethodOrder[armed[w] + 1],
                                         owner |-> w, call |-> None]]
          /\ rp' = [rp EXCEPT ![w] = p]
    BY <1>8 DEF PoolCreate, CreateProcessor
  <2>2. p \in Processors /\ proc[p] = Free
    BY <2>1, AllocatedIsFree
  <2>3. p \notin AtGrpc /\ \A v \in Workers : tag[v] # p /\ rp[v] # p
    BY <2>2, FreeIsNowhere
  <2> QED
    BY <1>8, <2>1, <2>2, <2>3 DEF PoolCreate, Goto
<1>9. ASSUME NEW w \in Workers, PoolReady(w) PROVE Exclusive'
  BY <1>9 DEF PoolReady, Goto
<1>10. ASSUME NEW w \in Workers, CheckStop(w) PROVE Exclusive'
  BY <1>10 DEF CheckStop, Goto
<1>11. ASSUME NEW w \in Workers, GetEvent(w) PROVE Exclusive'
  BY <1>11 DEF GetEvent, Goto
<1>12. ASSUME NEW w \in Workers, PollTimeout(w) PROVE Exclusive'
  BY <1>12 DEF PollTimeout, Goto
<1>13. ASSUME NEW w \in Workers, Validate(w) PROVE Exclusive'
  BY <1>13 DEF Validate, Goto
<1>14. ASSUME NEW w \in Workers, StartWorker(w) PROVE Exclusive'
  BY <1>14 DEF StartWorker, Goto
<1>15. ASSUME NEW w \in Workers, StopWorker(w) PROVE Exclusive'
  BY <1>15 DEF StopWorker
<1>16. ASSUME BuildAndStart PROVE Exclusive'
  BY <1>16 DEF BuildAndStart
<1>17. ASSUME SeeStop PROVE Exclusive'
  BY <1>17 DEF SeeStop
<1>18. ASSUME JoinWorkers PROVE Exclusive'
  BY <1>18 DEF JoinWorkers
<1>19. ASSUME Stop PROVE Exclusive'
  BY <1>19 DEF Stop
<1>20. ASSUME JoinServer PROVE Exclusive'
  BY <1>20 DEF JoinServer
<1>21. ASSUME Shutdown PROVE Exclusive'
  BY <1>21 DEF Shutdown
<1>22. ASSUME Drain PROVE Exclusive'
  BY <1>22 DEF Drain
<1>23. ASSUME NEW c \in Calls, Call(c) PROVE Exclusive'
  BY <1>23 DEF Call
<1>24. ASSUME NEW c \in Calls, Cancel(c) PROVE Exclusive'
  BY <1>24 DEF Cancel
<1>25. ASSUME NEW c \in Calls, Accept(c) PROVE Exclusive'
  BY <1>25 DEF Accept
<1>26. ASSUME NEW p \in Processors, SendDone(p) PROVE Exclusive'
  BY <1>26 DEF SendDone
<1>27. CASE UNCHANGED vars
  BY <1>27 DEF vars
<1>28. QED
  BY <1>1, <1>2, <1>3, <1>4, <1>5, <1>6, <1>7, <1>8, <1>9, <1>10, <1>11,
     <1>12, <1>13, <1>14, <1>15, <1>16, <1>17, <1>18, <1>19, <1>20, <1>21,
     <1>22, <1>23, <1>24, <1>25, <1>26, <1>27
     DEF Next, WorkerStep, ServerStep, MainStep, Terminated

\* No step deletes a processor that is somewhere, or loses one.
LEMMA AccountedStep == Ownership /\ [Next]_vars => Accounted'
<1> SUFFICES ASSUME Ownership, [Next]_vars PROVE Accounted'
  OBVIOUS
<1> USE NoneAssumption DEF Ownership, TypeOK, PcCoherent, Empty, Carries, Accounted, AtGrpc, Held, grpcVars, workerVars, serverVars, callVars
<1>1. ASSUME NEW w \in Workers, RunCreate(w) PROVE Accounted'
  BY <1>1 DEF RunCreate, SetStatus, Goto, Current
<1>2. ASSUME NEW w \in Workers, WaitForRequest(w) PROVE Accounted'
  BY <1>2 DEF WaitForRequest, Goto, Current
<1>3. ASSUME NEW w \in Workers, Spawn(w) PROVE Accounted'
  <2>1. PICK p \in Allocate({q \in Processors : proc[q] = Free}) :
          /\ proc' = [proc EXCEPT ![p] = [status |-> "CREATE",
                                         method |-> proc[Current(w)].method,
                                         owner |-> proc[Current(w)].owner,
                                         call |-> None]]
          /\ rp' = [rp EXCEPT ![w] = p]
    BY <1>3 DEF Spawn, CreateProcessor
  <2>2. p \in Processors /\ proc[p] = Free
    BY <2>1, AllocatedIsFree
  <2>3. p \notin AtGrpc /\ \A v \in Workers : tag[v] # p /\ rp[v] # p
    BY <2>2, FreeIsNowhere
  <2>4. proc[tag[w]].status = "PROCESS" /\ rp[w] = None
    BY <1>3 DEF Spawn, Current, EventStatus
  <2> QED
    BY <1>3, <2>1, <2>2, <2>3, <2>4 DEF Spawn
<1>4. ASSUME NEW w \in Workers, Handle(w) PROVE Accounted'
  BY <1>4 DEF Handle, Goto
<1>5. ASSUME NEW w \in Workers, SetFinished(w) PROVE Accounted'
  BY <1>5 DEF SetFinished, SetStatus, Goto
<1>6. ASSUME NEW w \in Workers, PostFinish(w) PROVE Accounted'
  BY <1>6 DEF PostFinish, Goto
<1>7. ASSUME NEW w \in Workers, Delete(w) PROVE Accounted'
  <2>1. tag[w] \in Processors /\ rp[w] = None /\ Current(w) = tag[w]
    BY <1>7, EventInHand DEF Delete
  <2>2. /\ tag[w] \notin AtGrpc
        /\ \A v \in Workers : rp[v] # tag[w] /\ (v # w => tag[v] # tag[w])
    BY <2>1 DEF Exclusive
  <2>3. /\ proc' = [proc EXCEPT ![tag[w]] = Free]
        /\ tag' = [tag EXCEPT ![w] = None]
        /\ UNCHANGED <<requested, sending, cq, rp, mainPc>>
    BY <1>7, <2>1 DEF Delete
  <2> QED
    BY <2>1, <2>2, <2>3 DEF Free
<1>8. ASSUME NEW w \in Workers, PoolCreate(w) PROVE Accounted'
  <2>1. PICK p \in Allocate({q \in Processors : proc[q] = Free}) :
          /\ proc' = [proc EXCEPT ![p] = [status |-> "CREATE",
                                         method |-> MethodOrder[armed[w] + 1],
                                         owner |-> w, call |-> None]]
          /\ rp' = [rp EXCEPT ![w] = p]
    BY <1>8 DEF PoolCreate, CreateProcessor
  <2>2. p \in Processors /\ proc[p] = Free
    BY <2>1, AllocatedIsFree
  <2>3. p \notin AtGrpc /\ \A v \in Workers : tag[v] # p /\ rp[v] # p
    BY <2>2, FreeIsNowhere
  <2> QED
    BY <1>8, <2>1, <2>2, <2>3 DEF PoolCreate, Goto
<1>9. ASSUME NEW w \in Workers, PoolReady(w) PROVE Accounted'
  BY <1>9 DEF PoolReady, Goto
<1>10. ASSUME NEW w \in Workers, CheckStop(w) PROVE Accounted'
  BY <1>10 DEF CheckStop, Goto
<1>11. ASSUME NEW w \in Workers, GetEvent(w) PROVE Accounted'
  BY <1>11 DEF GetEvent, Goto
<1>12. ASSUME NEW w \in Workers, PollTimeout(w) PROVE Accounted'
  BY <1>12 DEF PollTimeout, Goto
<1>13. ASSUME NEW w \in Workers, Validate(w) PROVE Accounted'
  BY <1>13 DEF Validate, Goto
<1>14. ASSUME NEW w \in Workers, StartWorker(w) PROVE Accounted'
  BY <1>14 DEF StartWorker, Goto
<1>15. ASSUME NEW w \in Workers, StopWorker(w) PROVE Accounted'
  BY <1>15 DEF StopWorker
<1>16. ASSUME BuildAndStart PROVE Accounted'
  BY <1>16 DEF BuildAndStart
<1>17. ASSUME SeeStop PROVE Accounted'
  BY <1>17 DEF SeeStop
<1>18. ASSUME JoinWorkers PROVE Accounted'
  BY <1>18 DEF JoinWorkers
<1>19. ASSUME Stop PROVE Accounted'
  BY <1>19 DEF Stop
<1>20. ASSUME JoinServer PROVE Accounted'
  BY <1>20 DEF JoinServer
<1>21. ASSUME Shutdown PROVE Accounted'
  BY <1>21 DEF Shutdown
<1>22. ASSUME Drain PROVE Accounted'
  BY <1>22 DEF Drain
<1>23. ASSUME NEW c \in Calls, Call(c) PROVE Accounted'
  BY <1>23 DEF Call
<1>24. ASSUME NEW c \in Calls, Cancel(c) PROVE Accounted'
  BY <1>24 DEF Cancel
<1>25. ASSUME NEW c \in Calls, Accept(c) PROVE Accounted'
  BY <1>25 DEF Accept
<1>26. ASSUME NEW p \in Processors, SendDone(p) PROVE Accounted'
  BY <1>26 DEF SendDone
<1>27. CASE UNCHANGED vars
  BY <1>27 DEF vars
<1>28. QED
  BY <1>1, <1>2, <1>3, <1>4, <1>5, <1>6, <1>7, <1>8, <1>9, <1>10, <1>11,
     <1>12, <1>13, <1>14, <1>15, <1>16, <1>17, <1>18, <1>19, <1>20, <1>21,
     <1>22, <1>23, <1>24, <1>25, <1>26, <1>27
     DEF Next, WorkerStep, ServerStep, MainStep, Terminated

\* No step separates the status of a processor from the event it waits for.
LEMMA EventStep == Ownership /\ [Next]_vars => EventStatus'
<1> SUFFICES ASSUME Ownership, [Next]_vars PROVE EventStatus'
  OBVIOUS
<1> USE NoneAssumption DEF Ownership, TypeOK, PcCoherent, Joined, Up, Empty, Carries, Exclusive, AtGrpc, EventStatus, grpcVars, workerVars, serverVars, callVars
<1>1. ASSUME NEW w \in Workers, RunCreate(w) PROVE EventStatus'
  BY <1>1 DEF RunCreate, SetStatus, Goto, Current
<1>2. ASSUME NEW w \in Workers, WaitForRequest(w) PROVE EventStatus'
  BY <1>2 DEF WaitForRequest, Goto, Current
<1>3. ASSUME NEW w \in Workers, Spawn(w) PROVE EventStatus'
  <2>1. PICK p \in Allocate({q \in Processors : proc[q] = Free}) :
          /\ proc' = [proc EXCEPT ![p] = [status |-> "CREATE",
                                         method |-> proc[Current(w)].method,
                                         owner |-> proc[Current(w)].owner,
                                         call |-> None]]
          /\ rp' = [rp EXCEPT ![w] = p]
    BY <1>3 DEF Spawn, CreateProcessor
  <2>2. p \in Processors /\ proc[p] = Free
    BY <2>1, AllocatedIsFree
  <2>3. p \notin AtGrpc /\ \A v \in Workers : tag[v] # p /\ rp[v] # p
    BY <2>2, FreeIsNowhere
  <2>4. proc[tag[w]].status = "PROCESS" /\ rp[w] = None
    BY <1>3 DEF Spawn, Current, EventStatus
  <2> QED
    BY <1>3, <2>1, <2>2, <2>3, <2>4 DEF Spawn
<1>4. ASSUME NEW w \in Workers, Handle(w) PROVE EventStatus'
  BY <1>4 DEF Handle, Goto
<1>5. ASSUME NEW w \in Workers, SetFinished(w) PROVE EventStatus'
  BY <1>5 DEF SetFinished, SetStatus, Goto
<1>6. ASSUME NEW w \in Workers, PostFinish(w) PROVE EventStatus'
  BY <1>6 DEF PostFinish, Goto
<1>7. ASSUME NEW w \in Workers, Delete(w) PROVE EventStatus'
  BY <1>7 DEF Delete, Goto, Current
<1>8. ASSUME NEW w \in Workers, PoolCreate(w) PROVE EventStatus'
  <2>1. PICK p \in Allocate({q \in Processors : proc[q] = Free}) :
          /\ proc' = [proc EXCEPT ![p] = [status |-> "CREATE",
                                         method |-> MethodOrder[armed[w] + 1],
                                         owner |-> w, call |-> None]]
          /\ rp' = [rp EXCEPT ![w] = p]
    BY <1>8 DEF PoolCreate, CreateProcessor
  <2>2. p \in Processors /\ proc[p] = Free
    BY <2>1, AllocatedIsFree
  <2>3. p \notin AtGrpc /\ \A v \in Workers : tag[v] # p /\ rp[v] # p
    BY <2>2, FreeIsNowhere
  <2> QED
    BY <1>8, <2>1, <2>2, <2>3 DEF PoolCreate, Goto
<1>9. ASSUME NEW w \in Workers, PoolReady(w) PROVE EventStatus'
  BY <1>9 DEF PoolReady, Goto
<1>10. ASSUME NEW w \in Workers, CheckStop(w) PROVE EventStatus'
  BY <1>10 DEF CheckStop, Goto
<1>11. ASSUME NEW w \in Workers, GetEvent(w) PROVE EventStatus'
  BY <1>11 DEF GetEvent, Goto
<1>12. ASSUME NEW w \in Workers, PollTimeout(w) PROVE EventStatus'
  BY <1>12 DEF PollTimeout, Goto
<1>13. ASSUME NEW w \in Workers, Validate(w) PROVE EventStatus'
  BY <1>13 DEF Validate, Goto
<1>14. ASSUME NEW w \in Workers, StartWorker(w) PROVE EventStatus'
  BY <1>14 DEF StartWorker, Goto
<1>15. ASSUME NEW w \in Workers, StopWorker(w) PROVE EventStatus'
  BY <1>15 DEF StopWorker
<1>16. ASSUME BuildAndStart PROVE EventStatus'
  BY <1>16 DEF BuildAndStart
<1>17. ASSUME SeeStop PROVE EventStatus'
  BY <1>17 DEF SeeStop
<1>18. ASSUME JoinWorkers PROVE EventStatus'
  BY <1>18 DEF JoinWorkers
<1>19. ASSUME Stop PROVE EventStatus'
  BY <1>19 DEF Stop
<1>20. ASSUME JoinServer PROVE EventStatus'
  BY <1>20 DEF JoinServer
<1>21. ASSUME Shutdown PROVE EventStatus'
  BY <1>21 DEF Shutdown
<1>22. ASSUME Drain PROVE EventStatus'
  BY <1>22 DEF Drain
<1>23. ASSUME NEW c \in Calls, Call(c) PROVE EventStatus'
  BY <1>23 DEF Call
<1>24. ASSUME NEW c \in Calls, Cancel(c) PROVE EventStatus'
  BY <1>24 DEF Cancel
<1>25. ASSUME NEW c \in Calls, Accept(c) PROVE EventStatus'
  BY <1>25 DEF Accept
<1>26. ASSUME NEW p \in Processors, SendDone(p) PROVE EventStatus'
  BY <1>26 DEF SendDone
<1>27. CASE UNCHANGED vars
  BY <1>27 DEF vars
<1>28. QED
  BY <1>1, <1>2, <1>3, <1>4, <1>5, <1>6, <1>7, <1>8, <1>9, <1>10, <1>11,
     <1>12, <1>13, <1>14, <1>15, <1>16, <1>17, <1>18, <1>19, <1>20, <1>21,
     <1>22, <1>23, <1>24, <1>25, <1>26, <1>27
     DEF Next, WorkerStep, ServerStep, MainStep, Terminated

\* Every step keeps what a program with streams has in common with one without.
LEMMA OwnershipStep == Ownership /\ [Next]_vars => Ownership'
BY TypeStep, PcStep, JoinedStep, ExclusiveStep, AccountedStep, EventStep DEF Ownership

\* run() assigns FINISH in front of the only call that posts anything.
LEMMA PostStep == IInv /\ [Next]_vars => OnlyFinishPosted'
<1> SUFFICES ASSUME IInv, [Next]_vars PROVE OnlyFinishPosted'
  OBVIOUS
<1> USE NoneAssumption DEF OnlyFinishPosted, grpcVars, workerVars, serverVars, callVars
<1>0. /\ Ownership /\ OnlyFinishPosted /\ proc \in [Processors -> Processor]
      /\ pc \in [Workers -> WorkerPcs] /\ sending \in SUBSET Processors
      /\ \A v \in Workers : pc[v] = "post" => tag[v] \in Processors /\ rp[v] = None
  BY DEF IInv, Ownership, TypeOK, PcCoherent, Carries
<1>1. ASSUME NEW w \in Workers, RunCreate(w) PROVE OnlyFinishPosted'
  <2>1. Current(w) \in Processors /\ proc[Current(w)].status = "CREATE"
    BY <1>0, <1>1, CurrentIsProcessor DEF RunCreate
  <2>2. \A q \in Processors : proc[q].status = "FINISH" => proc'[q] = proc[q]
    BY <1>0, <1>1, <2>1 DEF RunCreate, SetStatus
  <2> QED
    BY <1>0, <1>1, <2>2 DEF RunCreate, Goto
<1>2. ASSUME NEW w \in Workers, Spawn(w) \/ PoolCreate(w) PROVE OnlyFinishPosted'
  <2>1. PICK p \in Allocate({q \in Processors : proc[q] = Free}) :
          \A q \in Processors : q # p => proc'[q] = proc[q]
    BY <1>0, <1>2 DEF Spawn, PoolCreate, CreateProcessor
  <2>2. p \in Processors /\ proc[p].status = "free"
    BY <2>1, AllocatedIsFree DEF Free
  <2>3. \A q \in Processors : proc[q].status = "FINISH" => proc'[q] = proc[q]
    BY <1>0, <2>1, <2>2
  <2>4. UNCHANGED <<sending, tag>> /\ \A v \in Workers : pc'[v] = "post" => pc[v] = "post"
    BY <1>0, <1>2 DEF Spawn, PoolCreate, Goto
  <2> QED
    BY <1>0, <2>3, <2>4
<1>3. ASSUME NEW w \in Workers, SetFinished(w) PROVE OnlyFinishPosted'
  <2>1. tag[w] \in Processors /\ proc' = [proc EXCEPT ![tag[w]].status = "FINISH"]
    BY <1>0, <1>3 DEF SetFinished, SetStatus, Ownership, PcCoherent, Carries
  <2>2. \A q \in Processors : proc[q].status = "FINISH" => proc'[q].status = "FINISH"
    BY <1>0, <2>1 DEF Processor
  <2>3. proc'[tag[w]].status = "FINISH"
    BY <1>0, <2>1 DEF Processor
  <2> QED
    BY <1>0, <1>3, <2>2, <2>3 DEF SetFinished, Goto
<1>4. ASSUME NEW w \in Workers, PostFinish(w) PROVE OnlyFinishPosted'
  BY <1>0, <1>4 DEF PostFinish, Goto
<1>5. ASSUME NEW w \in Workers, Delete(w) PROVE OnlyFinishPosted'
  <2>1. tag[w] \in Processors /\ rp[w] = None /\ Current(w) = tag[w]
    BY <1>0, <1>5, EventInHand DEF Delete
  <2>2. tag[w] \notin sending /\ \A v \in Workers : v # w => tag[v] # tag[w]
    BY <2>1 DEF IInv, Ownership, Exclusive, AtGrpc
  <2> QED
    BY <1>0, <1>5, <2>1, <2>2 DEF Delete, Goto
<1>6. ASSUME NEW c \in Calls, Accept(c) PROVE OnlyFinishPosted'
  BY <1>0, <1>6 DEF Accept, Processor
<1>7. ASSUME NEW w \in Workers,
             \/ WaitForRequest(w) \/ PoolReady(w) \/ CheckStop(w) \/ GetEvent(w)
             \/ PollTimeout(w) \/ Validate(w) \/ Handle(w)
      PROVE  OnlyFinishPosted'
  <2>1. UNCHANGED <<proc, sending>> /\ pc[w] # "post" /\ pc'[w] # "post"
    BY <1>0, <1>7 DEF WaitForRequest, PoolReady, CheckStop, GetEvent, PollTimeout, Validate, Handle, Goto
  <2>2. \A v \in Workers \ {w} : pc'[v] = pc[v] /\ tag'[v] = tag[v]
    BY <1>0, <1>7 DEF WaitForRequest, PoolReady, CheckStop, GetEvent, PollTimeout, Validate, Handle,
                      Goto, Ownership, TypeOK
  <2> QED
    BY <1>0, <2>1, <2>2
<1>8. ASSUME \/ ServerStep \/ Stop \/ MainStep \/ Terminated \/ UNCHANGED vars
             \/ \E c \in Calls : Call(c) \/ Cancel(c)
             \/ \E p \in Processors : SendDone(p)
      PROVE  OnlyFinishPosted'
  <2>1. UNCHANGED <<proc, tag>> /\ sending' \subseteq sending
    BY <1>8 DEF ServerStep, BuildAndStart, SeeStop, JoinWorkers, StartWorker, StopWorker, Stop, MainStep,
                JoinServer, Shutdown, Drain, Terminated, Call, Cancel, SendDone, vars
  <2>2. \A v \in Workers : pc'[v] = "post" => pc[v] = "post"
    BY <1>0, <1>8 DEF ServerStep, BuildAndStart, SeeStop, JoinWorkers, StartWorker, StopWorker, Stop, MainStep,
                JoinServer, Shutdown, Drain, Terminated, Call, Cancel, SendDone, vars, Goto
  <2> QED
    BY <1>0, <2>1, <2>2
<1> QED
  BY <1>1, <1>2, <1>3, <1>4, <1>5, <1>6, <1>7, <1>8 DEF Next, WorkerStep

-----------------------------------------------------------------------------

\* The invariant holds when the program starts.
LEMMA InitOwnership == Init => Ownership
<1> SUFFICES ASSUME Init PROVE Ownership
  OBVIOUS
<1> USE NoneAssumption DEF Init, Free
<1>1. TypeOK
  <2>1. Free \in Processor
    BY DEF Processor
  <2>2. 0 \in 0 .. Len(MethodOrder)
    BY MethodOrderAssumption
  <2> QED
    BY <2>1, <2>2 DEF TypeOK, WorkerPcs, Codes
<1>2. PcCoherent
  BY DEF PcCoherent, Empty
<1>3. Joined
  BY DEF Joined, Up
<1>4. Exclusive
  BY DEF Exclusive, AtGrpc
<1>5. Accounted
  BY DEF Accounted, AtGrpc, Held
<1>6. EventStatus
  BY DEF EventStatus
<1> QED
  BY <1>1, <1>2, <1>3, <1>4, <1>5, <1>6 DEF Ownership

\* Nothing has been posted yet.
LEMMA InitIInv == Init => IInv
  BY InitOwnership DEF Init, IInv, OnlyFinishPosted

\* The inductive invariant.
THEOREM Inductive == Spec => []IInv
<1>1. Init => IInv
  BY InitIInv
<1>2. IInv /\ [Next]_vars => IInv'
  BY OwnershipStep, PostStep DEF IInv
<1> QED
  BY <1>1, <1>2, PTL DEF Spec

\* Every variable keeps the type its declaration in the code gives it, for any
\* number of workers, methods, calls and addresses.
THEOREM TypeCorrect == Spec => []TypeOK
<1>1. IInv => TypeOK
  BY DEF IInv, Ownership
<1> QED
  BY <1>1, Inductive, PTL

\* The pointwise form of the invariant gives the set form of the property.
LEMMA OwnerFromOwnership == Ownership => OneOwner
<1> SUFFICES ASSUME Ownership PROVE OneOwner
  OBVIOUS
<1> USE NoneAssumption DEF Ownership, TypeOK
<1>1. \A w \in Workers : InHand(w) \cap AtGrpc = {}
  <2> TAKE w \in Workers
  <2>1. tag[w] \notin AtGrpc /\ rp[w] \notin AtGrpc
    BY DEF Exclusive
  <2> QED
    BY <2>1 DEF InHand
<1>2. \A v, w \in Workers : v # w => InHand(v) \cap InHand(w) = {}
  BY DEF Exclusive, InHand
<1>3. \A p \in Places : p \in Processors /\ (p \in AtGrpc \/ Held(p))
  BY DEF Places, InHand, Held, AtGrpc
<1>4. \A p \in Processors : p \in AtGrpc \/ Held(p) => p \in Places
  BY DEF Places, InHand, Held, AtGrpc
<1>5. \A p \in Processors : p \in Live <=> proc[p].status # "free"
  BY DEF Accounted, Live, Free
<1>6. Places \subseteq Live
  BY <1>3, <1>5 DEF Accounted
<1>7. mainPc \notin {"draining", "stopped"} => Live \subseteq Places
  BY <1>4, <1>5 DEF Accounted, Live
<1> QED
  BY <1>1, <1>2, <1>6, <1>7 DEF OneOwner, Exclusive

\* No processor is ever used after its deletion, run by two workers, or lost
\* while the server runs.
THEOREM OwnedOnce == Spec => []OneOwner
<1>1. IInv => OneOwner
  BY OwnerFromOwnership DEF IInv
<1> QED
  BY <1>1, Inductive, PTL

\* run() always meets the status of its event: GPR_ASSERT never fires and no
\* worker is given one of the events Shutdown makes.
THEOREM StatusAlwaysMatches == Spec => []StatusMatchesEvent
<1>1. IInv => StatusMatchesEvent
  BY DEF IInv, Ownership, OnlyFinishPosted, EventStatus, StatusMatchesEvent, PcCoherent
<1> QED
  BY <1>1, Inductive, PTL

-----------------------------------------------------------------------------
\* Calls

CallOf(w) == proc[tag[w]].call

\* gRPC gives a call to one processor, of the method asked for, and never again.
OneCarrier ==
    /\ \A p, q \in Processors : proc[p].call # None /\ proc[p].call = proc[q].call => p = q
    /\ \A p \in Processors : proc[p].call # None =>
         /\ callState[proc[p].call] \notin {"idle", "pending"}
         /\ request[proc[p].call].method = proc[p].method
    /\ \A c \in Calls : callState[c] \in {"idle", "pending"} => handled[c] = 0 /\ reply[c] = None

\* How far the handling of a call is, told by its processor and the worker that
\* has it in hand.
HandlingInv ==
    /\ \A p \in Processors : proc[p].call # None /\ proc[p].status = "PROCESS" =>
         /\ reply[proc[p].call] = None
         /\ handled[proc[p].call] = 0 \/ \E w \in Workers : tag[w] = p /\ pc[w] = "finish"
    /\ \A w \in Workers : pc[w] \in {"finish", "post"} =>
         /\ reply[CallOf(w)] = None
         /\ handled[CallOf(w)] = IF code[w] = "OK" /\ AssertsCompiled THEN 1 ELSE 0
    /\ \A c \in Calls :
         /\ handled[c] \in {0, 1}
         /\ reply[c] = "OK" /\ AssertsCompiled => handled[c] = 1
         /\ reply[c] \in {"INVALID_ARGUMENT", "UNAUTHENTICATED"} => handled[c] = 0
         /\ handled[c] = 1 =>
              reply[c] # None \/ \E w \in Workers : pc[w] \in {"finish", "post"} /\ CallOf(w) = c

Permitted(c) ==
    \/ request[c].method \in AuthMethods
    \/ request[c].session /\ c \in validated

\* With OK a worker carries a call that may be handled.
PermitInv ==
    /\ \A w \in Workers :
         tag[w] # None /\ pc[w] \in {"run", "arm", "handle"} /\ code[w] = "OK" => Permitted(CallOf(w))
    /\ OnlyValidatedHandled

CallInv == OneCarrier /\ HandlingInv /\ PermitInv

\* A processor that is somewhere, or was given a call, is an object.
LEMMA FieldsTyped ==
    ASSUME TypeOK, NEW p \in Processors
    PROVE  /\ proc[p].call \in Calls \cup {None}
           /\ proc[p].method \in Methods \cup {None}
           /\ proc[p].owner \in Workers \cup {None}
           /\ proc[p].status \in {"free", "CREATE", "PROCESS", "FINISH"}
BY DEF TypeOK, Processor

\* The worker in front of the handler, or behind it, has a processor with a call.
LEMMA InHandCarries ==
    ASSUME Ownership, NEW w \in Workers, pc[w] \in {"validate", "handle", "finish", "post"}
    PROVE  tag[w] \in Processors /\ CallOf(w) \in Calls
<1>1. tag[w] \in Processors
  BY DEF Ownership, PcCoherent, Carries
<1>2. CallOf(w) # None
  BY <1>1, NoneAssumption DEF Ownership, EventStatus, CallOf
<1> QED
  BY <1>1, <1>2, FieldsTyped DEF CallOf, Ownership

\* The three statements of run() and of the pool that make and delete objects.
LEMMA SpawnEffect ==
    ASSUME Ownership, NEW w \in Workers, Spawn(w)
    PROVE  \E p \in Processors :
             /\ proc[p] = Free
             /\ proc' = [proc EXCEPT ![p] = [status |-> "CREATE",
                                             method |-> proc[tag[w]].method,
                                             owner |-> proc[tag[w]].owner, call |-> None]]
             /\ rp' = [rp EXCEPT ![w] = p]
             /\ rp[w] = None /\ tag[w] \in Processors /\ tag[w] # p
             /\ proc[tag[w]].status = "PROCESS" /\ pc[w] = "run"
<1> USE NoneAssumption
<1>1. rp[w] = None /\ tag[w] \in Processors
  BY EventInHand DEF Spawn
<1>2. Current(w) = tag[w] /\ proc[tag[w]].status = "PROCESS" /\ pc[w] = "run"
  BY <1>1 DEF Spawn, Current
<1>3. PICK p \in Allocate({q \in Processors : proc[q] = Free}) :
        /\ proc' = [proc EXCEPT ![p] = [status |-> "CREATE",
                                        method |-> proc[Current(w)].method,
                                        owner |-> proc[Current(w)].owner, call |-> None]]
        /\ rp' = [rp EXCEPT ![w] = p]
  BY DEF Spawn, CreateProcessor
<1>4. p \in Processors /\ proc[p] = Free
  BY <1>3, AllocatedIsFree
<1>5. tag[w] # p
  BY <1>2, <1>4 DEF Free
<1> QED
  BY <1>1, <1>2, <1>3, <1>4, <1>5

LEMMA PoolCreateEffect ==
    ASSUME Ownership, NEW w \in Workers, PoolCreate(w)
    PROVE  \E p \in Processors :
             /\ proc[p] = Free
             /\ proc' = [proc EXCEPT ![p] = [status |-> "CREATE",
                                             method |-> MethodOrder[armed[w] + 1],
                                             owner |-> w, call |-> None]]
             /\ rp' = [rp EXCEPT ![w] = p]
             /\ Empty(w)
<1>1. PICK p \in Allocate({q \in Processors : proc[q] = Free}) :
        /\ proc' = [proc EXCEPT ![p] = [status |-> "CREATE",
                                        method |-> MethodOrder[armed[w] + 1],
                                        owner |-> w, call |-> None]]
        /\ rp' = [rp EXCEPT ![w] = p]
  BY DEF PoolCreate, CreateProcessor
<1>2. p \in Processors /\ proc[p] = Free
  BY <1>1, AllocatedIsFree
<1> QED
  BY <1>1, <1>2 DEF PoolCreate, Ownership, PcCoherent

\* run() deletes the processor of the event, whose Finish has completed.
LEMMA DeleteEffect ==
    ASSUME Ownership, NEW w \in Workers, Delete(w)
    PROVE  /\ tag[w] \in Processors /\ rp[w] = None
           /\ proc[tag[w]].status = "FINISH"
           /\ proc' = [proc EXCEPT ![tag[w]] = Free]
BY EventInHand DEF Delete

\* Assigning _status or making or deleting an object moves no call.
LEMMA CarrierKept ==
    ASSUME OneCarrier, TypeOK, UNCHANGED <<callState, request, handled, reply>>,
           \A p \in Processors : proc'[p].call # None =>
             proc'[p].call = proc[p].call /\ proc'[p].method = proc[p].method
    PROVE  OneCarrier'
BY DEF OneCarrier

\* No step gives a call to a second processor.
LEMMA CarrierStep == Ownership /\ OneCarrier /\ [Next]_vars => OneCarrier'
<1> SUFFICES ASSUME Ownership, OneCarrier, [Next]_vars PROVE OneCarrier'
  OBVIOUS
<1> USE NoneAssumption DEF grpcVars, workerVars, serverVars, callVars
<1>0. TypeOK /\ proc \in [Processors -> Processor]
  BY DEF Ownership, TypeOK
<1>1. ASSUME NEW w \in Workers, RunCreate(w) \/ SetFinished(w) PROVE OneCarrier'
  <2>1. PICK p \in Processors, s \in {"PROCESS", "FINISH"} : proc' = [proc EXCEPT ![p].status = s]
    BY <1>1, CurrentIsProcessor, InHandCarries DEF RunCreate, SetFinished, SetStatus
  <2>2. \A q \in Processors : proc'[q].call = proc[q].call /\ proc'[q].method = proc[q].method
    BY <1>0, <2>1 DEF Processor
  <2> QED
    BY <1>0, <1>1, <2>2, CarrierKept DEF RunCreate, SetFinished
<1>2. ASSUME NEW w \in Workers, Spawn(w) \/ PoolCreate(w) PROVE OneCarrier'
  <2>1. PICK p \in Processors : \E m, own :
          proc' = [proc EXCEPT ![p] = [status |-> "CREATE", method |-> m, owner |-> own, call |-> None]]
    BY <1>2, SpawnEffect, PoolCreateEffect
  <2>2. \A q \in Processors : proc'[q].call # None =>
          proc'[q].call = proc[q].call /\ proc'[q].method = proc[q].method
    BY <1>0, <2>1
  <2> QED
    BY <1>0, <1>2, <2>2, CarrierKept DEF Spawn, PoolCreate
<1>3. ASSUME NEW w \in Workers, Delete(w) PROVE OneCarrier'
  <2>1. \A q \in Processors : proc'[q].call # None =>
          proc'[q].call = proc[q].call /\ proc'[q].method = proc[q].method
    BY <1>0, <1>3, DeleteEffect DEF Free
  <2> QED
    BY <1>0, <1>3, <2>1, CarrierKept DEF Delete
<1>4. ASSUME NEW w \in Workers, Handle(w) \/ PostFinish(w) PROVE OneCarrier'
  <2>1. tag[w] \in Processors /\ CallOf(w) \in Calls /\ UNCHANGED <<proc, callState, request>>
    BY <1>4, InHandCarries DEF Handle, PostFinish
  <2>2. callState[CallOf(w)] \notin {"idle", "pending"}
    BY <2>1 DEF OneCarrier, CallOf
  <2>3. \A c \in Calls : c # CallOf(w) => handled'[c] = handled[c] /\ reply'[c] = reply[c]
    BY <1>0, <1>4 DEF Handle, PostFinish, CallOf, TypeOK
  <2> QED
    BY <2>1, <2>2, <2>3 DEF OneCarrier
<1>5. ASSUME NEW c \in Calls, Accept(c) PROVE OneCarrier'
  <2>1. PICK p \in requested : /\ proc[p].method = request[c].method
                               /\ proc' = [proc EXCEPT ![p].call = c]
    BY <1>5 DEF Accept
  <2>2. p \in Processors /\ proc[p].call = None
    BY <1>0, <2>1 DEF TypeOK, Ownership, EventStatus
  <2>3. \A q \in Processors : /\ proc'[q].method = proc[q].method
                              /\ proc'[q].call = IF q = p THEN c ELSE proc[q].call
    BY <1>0, <2>1, <2>2 DEF Processor
  <2>4. \A q \in Processors : proc[q].call # c
    BY <1>5 DEF Accept, OneCarrier
  <2>5. /\ UNCHANGED <<request, handled, reply>>
        /\ \A d \in Calls : callState'[d] = IF d = c THEN "accepted" ELSE callState[d]
    BY <1>0, <1>5 DEF Accept, TypeOK
  <2> QED
    BY <1>0, <2>1, <2>2, <2>3, <2>4, <2>5, FieldsTyped DEF OneCarrier
<1>6. ASSUME NEW c \in Calls, Call(c) PROVE OneCarrier'
  <2>1. \A q \in Processors : proc[q].call # c
    BY <1>6 DEF Call, OneCarrier
  <2>2. \A d \in Calls : d # c => callState'[d] = callState[d] /\ request'[d] = request[d]
    BY <1>0, <1>6 DEF Call, TypeOK
  <2>3. UNCHANGED <<proc, handled, reply>> /\ callState[c] = "idle"
    BY <1>6 DEF Call
  <2> QED
    BY <1>0, <2>1, <2>2, <2>3, FieldsTyped DEF OneCarrier
<1>7. ASSUME \/ \E c \in Calls : Cancel(c)
             \/ \E p \in Processors : SendDone(p)
             \/ Shutdown
      PROVE  OneCarrier'
  <2>1. UNCHANGED <<proc, request, handled, reply>>
    BY <1>7 DEF Cancel, SendDone, Shutdown
  <2>2. \A c \in Calls : callState'[c] \in {"idle", "pending"} => callState[c] = callState'[c]
    BY <1>0, <1>7 DEF Cancel, SendDone, Shutdown, TypeOK
  <2> QED
    BY <1>0, <2>1, <2>2, FieldsTyped DEF OneCarrier
<1>8. CASE UNCHANGED <<proc, callState, request, handled, reply>>
  BY <1>8 DEF OneCarrier
<1>9. ASSUME NEW w \in Workers,
             \/ WaitForRequest(w) \/ PoolReady(w) \/ CheckStop(w) \/ GetEvent(w)
             \/ PollTimeout(w) \/ Validate(w)
      PROVE  OneCarrier'
  BY <1>8, <1>9 DEF WaitForRequest, PoolReady, CheckStop, GetEvent, PollTimeout, Validate
<1>10. ASSUME ServerStep \/ Stop \/ JoinServer \/ Drain \/ Terminated \/ UNCHANGED vars
       PROVE  OneCarrier'
  BY <1>8, <1>10 DEF ServerStep, BuildAndStart, SeeStop, JoinWorkers, StartWorker, StopWorker,
                     Stop, JoinServer, Drain, Terminated, vars
<1> QED
  BY <1>1, <1>2, <1>3, <1>4, <1>5, <1>6, <1>7, <1>9, <1>10 DEF Next, WorkerStep, MainStep

\* An object in the hands of one worker is in no other place.
LEMMA InHandAlone ==
    ASSUME Ownership, NEW w \in Workers, tag[w] \in Processors
    PROVE  /\ \A v \in Workers : v # w => tag[v] # tag[w]
           /\ \A v \in Workers : rp[v] # tag[w]
           /\ tag[w] \notin AtGrpc
BY NoneAssumption DEF Ownership, Exclusive

\* Two workers never carry the same call.
LEMMA CallsApart ==
    ASSUME Ownership, OneCarrier, NEW v \in Workers, NEW w \in Workers, v # w,
           tag[v] \in Processors, tag[w] \in Processors, CallOf(w) # None
    PROVE  CallOf(v) # CallOf(w)
BY InHandAlone DEF OneCarrier, CallOf

\* No step loses or doubles the handling of a call on its way to the reply.
LEMMA HandlingStep == IInv /\ CallInv /\ [Next]_vars => HandlingInv'
<1> SUFFICES ASSUME IInv, Ownership, CallInv, [Next]_vars PROVE HandlingInv'
  BY DEF IInv
<1> USE NoneAssumption, AssertsAssumption
    DEF CallInv, grpcVars, workerVars, serverVars, callVars
<1>0. /\ TypeOK /\ proc \in [Processors -> Processor] /\ pc \in [Workers -> WorkerPcs]
      /\ handled \in [Calls -> Nat] /\ reply \in [Calls -> Codes \cup {None}]
      /\ tag \in [Workers -> Processors \cup {None}] /\ rp \in [Workers -> Processors \cup {None}]
      /\ code \in [Workers -> Codes]
  BY DEF IInv, Ownership, TypeOK
<1>01. \A v \in Workers : pc[v] \in {"validate", "handle", "finish", "post"} =>
         tag[v] \in Processors /\ CallOf(v) \in Calls
  BY InHandCarries
<1>1. ASSUME NEW w \in Workers, RunCreate(w) PROVE HandlingInv'
  <2>1. rp[w] \in Processors /\ proc' = [proc EXCEPT ![rp[w]].status = "PROCESS"]
    BY <1>0, <1>1 DEF RunCreate, SetStatus, Current, IInv, Ownership, PcCoherent, EventStatus
  <2>2. proc[rp[w]].call = None
    BY <1>0, <2>1 DEF IInv, Ownership, EventStatus
  <2>3. \A q \in Processors : /\ proc'[q].call = proc[q].call
                              /\ q # rp[w] => proc'[q].status = proc[q].status
    BY <1>0, <2>1 DEF Processor
  <2>4. /\ UNCHANGED <<tag, code, handled, reply>> /\ pc[w] = "run" /\ pc'[w] = "arm"
        /\ \A v \in Workers \ {w} : pc'[v] = pc[v]
    BY <1>0, <1>1 DEF RunCreate, Goto
  <2> QED
    BY <1>01, <2>1, <2>2, <2>3, <2>4 DEF HandlingInv, CallOf
<1>2. ASSUME NEW w \in Workers, Spawn(w) \/ PoolCreate(w) PROVE HandlingInv'
  <2>1. PICK p \in Processors : \E m, own :
          /\ proc' = [proc EXCEPT ![p] = [status |-> "CREATE", method |-> m, owner |-> own, call |-> None]]
          /\ proc[p] = Free
    BY <1>2, SpawnEffect, PoolCreateEffect
  <2>2. \A v \in Workers : tag[v] # p
    BY <2>1, FreeIsNowhere
  <2>3. proc'[p].call = None /\ \A q \in Processors : q # p => proc'[q] = proc[q]
    BY <1>0, <2>1
  <2>4. /\ UNCHANGED <<tag, code, handled, reply>> /\ pc[w] \in {"run", "pool"} /\ pc'[w] = "run"
        /\ \A v \in Workers \ {w} : pc'[v] = pc[v]
    BY <1>0, <1>2 DEF Spawn, PoolCreate, Goto, Current
  <2> QED
    BY <1>01, <2>2, <2>3, <2>4 DEF HandlingInv, CallOf
<1>3. ASSUME NEW w \in Workers, Handle(w) PROVE HandlingInv'
  <2> DEFINE k == CallOf(w)
  <2>1. /\ pc[w] = "handle" /\ pc'[w] = "finish" /\ \A v \in Workers \ {w} : pc'[v] = pc[v]
        /\ UNCHANGED <<proc, tag, code, reply>>
        /\ tag[w] \in Processors /\ k \in Calls
    BY <1>0, <1>01, <1>3 DEF Handle, Goto
  <2>2. proc[tag[w]].status = "PROCESS"
    BY <2>1 DEF IInv, Ownership, EventStatus
  <2>3. handled[k] = 0 /\ reply[k] = None
    BY <2>1, <2>2, InHandAlone DEF HandlingInv, CallOf
  <2>4. /\ handled'[k] = IF code[w] = "OK" /\ AssertsCompiled THEN 1 ELSE 0
        /\ \A c \in Calls : c # k => handled'[c] = handled[c]
    BY <1>0, <1>3, <2>1, <2>3 DEF Handle, CallOf
  <2>5. \A v \in Workers : v # w /\ pc[v] \in {"finish", "post"} => CallOf(v) # k
    BY <1>01, <2>1, CallsApart
  <2>6. \A p \in Processors : p # tag[w] => proc[p].call # k
    BY <2>1 DEF OneCarrier, CallOf
  <2>7. UNCHANGED CallOf(w) /\ \A v \in Workers : CallOf(v)' = CallOf(v)
    BY <2>1 DEF CallOf
  <2>8. \A p \in Processors : p # tag[w] /\ proc'[p].call # None /\ proc'[p].status = "PROCESS" =>
          /\ reply'[proc'[p].call] = None
          /\ handled'[proc'[p].call] = 0 \/ \E v \in Workers : tag'[v] = p /\ pc'[v] = "finish"
    BY <2>1, <2>4, <2>6, FieldsTyped, <1>0 DEF HandlingInv
  <2>9. \A v \in Workers : pc'[v] \in {"finish", "post"} =>
          /\ reply'[CallOf(v)'] = None
          /\ handled'[CallOf(v)'] = IF code'[v] = "OK" /\ AssertsCompiled THEN 1 ELSE 0
    BY <1>01, <2>1, <2>3, <2>4, <2>5, <2>7 DEF HandlingInv
  <2>10. ASSUME NEW c \in Calls
         PROVE  /\ handled'[c] \in {0, 1}
                /\ reply'[c] = "OK" /\ AssertsCompiled => handled'[c] = 1
                /\ reply'[c] \in {"INVALID_ARGUMENT", "UNAUTHENTICATED"} => handled'[c] = 0
                /\ handled'[c] = 1 =>
                     reply'[c] # None \/ \E v \in Workers : pc'[v] \in {"finish", "post"} /\ CallOf(v)' = c
    <3>1. CASE c = k
      BY <2>1, <2>3, <2>4, <2>7, <3>1 DEF Codes
    <3>2. CASE c # k
      <4>1. handled'[c] = handled[c] /\ reply'[c] = reply[c]
        BY <2>1, <2>4, <3>2
      <4>2. \A v \in Workers : pc[v] \in {"finish", "post"} => pc'[v] = pc[v] /\ CallOf(v)' = CallOf(v)
        BY <2>1, <2>7
      <4> QED
        BY <4>1, <4>2 DEF HandlingInv
    <3> QED
      BY <3>1, <3>2
  <2>11. \E v \in Workers : tag'[v] = tag[w] /\ pc'[v] = "finish"
    BY <2>1
  <2> QED
    BY <2>1, <2>3, <2>8, <2>9, <2>10, <2>11 DEF HandlingInv, CallOf
<1>4. ASSUME NEW w \in Workers, SetFinished(w) PROVE HandlingInv'
  <2>1. /\ pc[w] = "finish" /\ pc'[w] = "post" /\ \A v \in Workers \ {w} : pc'[v] = pc[v]
        /\ tag[w] \in Processors /\ UNCHANGED <<tag, code, handled, reply>>
        /\ proc' = [proc EXCEPT ![tag[w]].status = "FINISH"]
    BY <1>0, <1>01, <1>4 DEF SetFinished, SetStatus, Goto
  <2>2. /\ proc'[tag[w]].status = "FINISH"
        /\ \A q \in Processors : /\ proc'[q].call = proc[q].call
                                 /\ q # tag[w] => proc'[q].status = proc[q].status
    BY <1>0, <2>1 DEF Processor
  <2> QED
    BY <1>01, <2>1, <2>2 DEF HandlingInv, CallOf
<1>5. ASSUME NEW w \in Workers, PostFinish(w) PROVE HandlingInv'
  <2> DEFINE k == CallOf(w)
  <2>1. /\ pc[w] = "post" /\ pc'[w] = "loop" /\ \A v \in Workers \ {w} : pc'[v] = pc[v]
        /\ tag[w] \in Processors /\ k \in Calls /\ UNCHANGED <<proc, code, handled>>
        /\ \A v \in Workers \ {w} : tag'[v] = tag[v]
    BY <1>0, <1>01, <1>5 DEF PostFinish, Goto
  <2>2. reply'[k] = code[w] /\ \A c \in Calls : c # k => reply'[c] = reply[c]
    BY <1>0, <1>5, <2>1 DEF PostFinish, CallOf
  <2>3. proc[tag[w]].status = "FINISH"
    BY <2>1 DEF IInv, OnlyFinishPosted
  <2>4. \A v \in Workers : v # w => CallOf(v)' = CallOf(v)
    BY <2>1 DEF CallOf
  <2>5. \A v \in Workers : v # w /\ pc[v] \in {"finish", "post"} => CallOf(v) # k
    BY <1>01, <2>1, CallsApart
  <2>6. \A p \in Processors : proc[p].status = "PROCESS" => proc[p].call # k
    BY <2>1, <2>3 DEF OneCarrier, CallOf
  <2>7. \A p \in Processors : proc'[p].call # None /\ proc'[p].status = "PROCESS" =>
          /\ reply'[proc'[p].call] = None
          /\ handled'[proc'[p].call] = 0 \/ \E v \in Workers : tag'[v] = p /\ pc'[v] = "finish"
    BY <1>0, <2>1, <2>2, <2>6, FieldsTyped DEF HandlingInv
  <2>8. \A v \in Workers : pc'[v] \in {"finish", "post"} =>
          /\ reply'[CallOf(v)'] = None
          /\ handled'[CallOf(v)'] = IF code'[v] = "OK" /\ AssertsCompiled THEN 1 ELSE 0
    BY <1>01, <2>1, <2>2, <2>4, <2>5 DEF HandlingInv
  <2>9. ASSUME NEW c \in Calls, c # k
        PROVE  /\ handled'[c] \in {0, 1}
               /\ reply'[c] = "OK" /\ AssertsCompiled => handled'[c] = 1
               /\ reply'[c] \in {"INVALID_ARGUMENT", "UNAUTHENTICATED"} => handled'[c] = 0
               /\ handled'[c] = 1 =>
                    reply'[c] # None \/ \E v \in Workers : pc'[v] \in {"finish", "post"} /\ CallOf(v)' = c
    <3>1. handled'[c] = handled[c] /\ reply'[c] = reply[c]
      BY <2>1, <2>2, <2>9
    <3>2. \A v \in Workers : pc[v] \in {"finish", "post"} /\ CallOf(v) = c =>
            pc'[v] = pc[v] /\ CallOf(v)' = CallOf(v)
      BY <2>1, <2>4, <2>9
    <3> QED
      BY <3>1, <3>2 DEF HandlingInv
  <2>10. code[w] \in Codes /\ code[w] # None
    BY <1>0
  <2>11. /\ handled'[k] \in {0, 1}
         /\ reply'[k] = "OK" /\ AssertsCompiled => handled'[k] = 1
         /\ reply'[k] \in {"INVALID_ARGUMENT", "UNAUTHENTICATED"} => handled'[k] = 0
         /\ handled'[k] = 1 => reply'[k] # None
    BY <2>1, <2>2, <2>10 DEF HandlingInv
  <2> QED
    BY <2>7, <2>8, <2>9, <2>11 DEF HandlingInv
<1>6. ASSUME NEW w \in Workers, Delete(w) PROVE HandlingInv'
  <2>1. /\ tag[w] \in Processors /\ proc' = [proc EXCEPT ![tag[w]] = Free]
        /\ pc[w] = "run" /\ pc'[w] = "loop" /\ \A v \in Workers \ {w} : pc'[v] = pc[v] /\ tag'[v] = tag[v]
        /\ UNCHANGED <<code, handled, reply>>
    BY <1>0, <1>6, DeleteEffect DEF Delete, Goto
  <2>2. proc'[tag[w]].call = None /\ \A q \in Processors : q # tag[w] => proc'[q] = proc[q]
    BY <1>0, <2>1 DEF Free
  <2>3. \A v \in Workers : v # w /\ tag[v] \in Processors => CallOf(v)' = CallOf(v)
    BY <2>1, <2>2, InHandAlone DEF CallOf
  <2> QED
    BY <1>01, <2>1, <2>2, <2>3 DEF HandlingInv
<1>7. ASSUME NEW w \in Workers,
             \/ WaitForRequest(w) \/ PoolReady(w) \/ CheckStop(w) \/ GetEvent(w)
             \/ PollTimeout(w) \/ Validate(w)
      PROVE  HandlingInv'
  <2>1. /\ pc[w] \notin {"finish", "post"} /\ pc'[w] \notin {"finish", "post"}
        /\ \A v \in Workers \ {w} : pc'[v] = pc[v] /\ tag'[v] = tag[v] /\ code'[v] = code[v]
        /\ UNCHANGED <<proc, handled, reply>>
    BY <1>0, <1>7 DEF WaitForRequest, PoolReady, CheckStop, GetEvent, PollTimeout, Validate, Goto
  <2> QED
    BY <2>1 DEF HandlingInv, CallOf
<1>8. ASSUME NEW c \in Calls, Accept(c) PROVE HandlingInv'
  <2>1. PICK p \in requested : proc' = [proc EXCEPT ![p].call = c]
    BY <1>8 DEF Accept
  <2>2. p \in Processors /\ p \in AtGrpc /\ \A v \in Workers : tag[v] # p
    BY <1>0, <2>1 DEF TypeOK, IInv, Ownership, Exclusive, AtGrpc
  <2>3. proc'[p].call = c /\ \A q \in Processors : q # p => proc'[q] = proc[q]
    BY <1>0, <2>1, <2>2 DEF Processor
  <2>4. handled[c] = 0 /\ reply[c] = None /\ UNCHANGED <<pc, tag, code, handled, reply>>
    BY <1>8 DEF Accept, OneCarrier
  <2> QED
    BY <1>01, <2>2, <2>3, <2>4 DEF HandlingInv, CallOf
<1>9. CASE UNCHANGED <<proc, pc, tag, code, handled, reply>>
  BY <1>9 DEF HandlingInv, CallOf
<1>10. ASSUME NEW w \in Workers, StartWorker(w) PROVE HandlingInv'
  <2>1. /\ pc[w] = "new" /\ pc'[w] = "pool" /\ \A v \in Workers \ {w} : pc'[v] = pc[v]
        /\ UNCHANGED <<proc, tag, code, handled, reply>>
    BY <1>0, <1>10 DEF StartWorker, Goto
  <2> QED
    BY <2>1 DEF HandlingInv, CallOf
<1>11. ASSUME \/ BuildAndStart \/ SeeStop \/ JoinWorkers \/ \E w \in Workers : StopWorker(w)
              \/ Stop \/ MainStep \/ Terminated \/ UNCHANGED vars
              \/ \E c \in Calls : Call(c) \/ Cancel(c)
              \/ \E p \in Processors : SendDone(p)
       PROVE  HandlingInv'
  BY <1>9, <1>11 DEF BuildAndStart, SeeStop, JoinWorkers, StopWorker, Stop, MainStep, JoinServer,
                     Shutdown, Drain, Terminated, vars, Call, Cancel, SendDone
<1> QED
  BY <1>1, <1>2, <1>3, <1>4, <1>5, <1>6, <1>7, <1>8, <1>10, <1>11 DEF Next, WorkerStep, ServerStep

\* No step lets a worker run the handler of a call that was not validated.
LEMMA PermitStep == IInv /\ CallInv /\ [Next]_vars => PermitInv'
<1> SUFFICES ASSUME IInv, Ownership, CallInv, [Next]_vars PROVE PermitInv'
  BY DEF IInv
<1> USE NoneAssumption DEF CallInv, grpcVars, workerVars, serverVars, callVars
<1>0. /\ TypeOK /\ proc \in [Processors -> Processor] /\ pc \in [Workers -> WorkerPcs]
      /\ handled \in [Calls -> Nat] /\ tag \in [Workers -> Processors \cup {None}]
      /\ rp \in [Workers -> Processors \cup {None}] /\ code \in [Workers -> Codes]
  BY DEF IInv, Ownership, TypeOK
<1>01. OnlyValidatedHandled <=> \A c \in Calls : handled[c] > 0 => Permitted(c)
  BY DEF OnlyValidatedHandled, Permitted
<1>02. OnlyValidatedHandled' <=> \A c \in Calls : handled'[c] > 0 => Permitted(c)'
  BY DEF OnlyValidatedHandled, Permitted
<1>03. \A v \in Workers : tag[v] # None => tag[v] \in Processors /\ CallOf(v) \in Calls
  BY <1>0, FieldsTyped DEF IInv, Ownership, EventStatus, CallOf
<1>1. ASSUME NEW w \in Workers, RunCreate(w) PROVE PermitInv'
  <2>1. Current(w) \in Processors /\ proc' = [proc EXCEPT ![Current(w)].status = "PROCESS"]
    BY <1>1, CurrentIsProcessor DEF RunCreate, SetStatus
  <2>2. \A v \in Workers : tag[v] # None => CallOf(v)' = CallOf(v)
    BY <1>0, <1>03, <1>1, <2>1 DEF Processor, CallOf, RunCreate
  <2>3. UNCHANGED <<tag, code, request, validated, handled>> /\ pc[w] = "run"
        /\ \A v \in Workers \ {w} : pc'[v] = pc[v]
    BY <1>0, <1>1 DEF RunCreate, Goto
  <2> QED
    BY <1>01, <1>02, <2>2, <2>3 DEF PermitInv, Permitted
<1>2. ASSUME NEW w \in Workers, Spawn(w) \/ PoolCreate(w) PROVE PermitInv'
  <2>1. PICK p \in Processors : \E m, own :
          /\ proc' = [proc EXCEPT ![p] = [status |-> "CREATE", method |-> m, owner |-> own, call |-> None]]
          /\ proc[p] = Free
    BY <1>2, SpawnEffect, PoolCreateEffect
  <2>2. \A v \in Workers : tag[v] # p
    BY <2>1, FreeIsNowhere
  <2>3. UNCHANGED <<tag, code, request, validated, handled>>
        /\ \A v \in Workers : tag[v] # None => pc'[v] = pc[v]
    BY <1>0, <1>2, PoolCreateEffect DEF Spawn, PoolCreate, Goto, Empty
  <2>4. \A v \in Workers : tag[v] # None => CallOf(v)' = CallOf(v)
    BY <1>0, <1>03, <2>1, <2>2, <2>3 DEF CallOf
  <2> QED
    BY <1>01, <1>02, <2>3, <2>4 DEF PermitInv, Permitted
<1>3. ASSUME NEW w \in Workers, Handle(w) PROVE PermitInv'
  <2>1. /\ pc[w] = "handle" /\ pc'[w] = "finish" /\ \A v \in Workers \ {w} : pc'[v] = pc[v]
        /\ UNCHANGED <<proc, tag, code, request, validated>>
        /\ tag[w] \in Processors /\ tag[w] # None /\ CallOf(w) \in Calls
    BY <1>0, <1>3, InHandCarries DEF Handle, Goto
  <2>2. \A c \in Calls : handled'[c] = handled[c] \/ (c = CallOf(w) /\ code[w] = "OK")
    BY <1>0, <1>3 DEF Handle, CallOf
  <2>3. code[w] = "OK" => Permitted(CallOf(w))
    BY <2>1 DEF PermitInv
  <2>4. \A c \in Calls : handled'[c] > 0 => Permitted(c)
    BY <1>01, <2>2, <2>3 DEF PermitInv
  <2> QED
    BY <1>02, <2>1, <2>4 DEF PermitInv, Permitted, CallOf
<1>4. ASSUME NEW w \in Workers, SetFinished(w) PROVE PermitInv'
  <2>1. /\ pc'[w] = "post" /\ \A v \in Workers \ {w} : pc'[v] = pc[v]
        /\ tag[w] \in Processors /\ UNCHANGED <<tag, code, request, validated, handled>>
        /\ proc' = [proc EXCEPT ![tag[w]].status = "FINISH"]
    BY <1>0, <1>4, InHandCarries DEF SetFinished, SetStatus, Goto
  <2>2. \A v \in Workers : tag[v] # None => CallOf(v)' = CallOf(v)
    BY <1>0, <1>03, <2>1 DEF Processor, CallOf
  <2> QED
    BY <1>01, <1>02, <2>1, <2>2 DEF PermitInv, Permitted
<1>5. ASSUME NEW w \in Workers,
             \/ WaitForRequest(w) \/ PoolReady(w) \/ CheckStop(w)
             \/ PollTimeout(w) \/ PostFinish(w) \/ GetEvent(w)
      PROVE  PermitInv'
  <2>1. /\ UNCHANGED <<proc, code, request, validated, handled>>
        /\ \A v \in Workers \ {w} : pc'[v] = pc[v] /\ tag'[v] = tag[v]
        /\ \/ pc'[w] \notin {"run", "arm", "handle"}
           \/ pc[w] = "arm" /\ tag'[w] = tag[w]
    BY <1>0, <1>5 DEF WaitForRequest, PoolReady, CheckStop, PollTimeout, PostFinish, GetEvent,
                      Goto, IInv, Ownership, PcCoherent
  <2> QED
    BY <1>01, <1>02, <2>1 DEF PermitInv, Permitted, CallOf
<1>6. ASSUME NEW w \in Workers, Delete(w) PROVE PermitInv'
  <2>1. /\ tag[w] \in Processors /\ proc' = [proc EXCEPT ![tag[w]] = Free]
        /\ pc'[w] = "loop" /\ \A v \in Workers \ {w} : pc'[v] = pc[v] /\ tag'[v] = tag[v]
        /\ UNCHANGED <<code, request, validated, handled>>
    BY <1>0, <1>6, DeleteEffect DEF Delete, Goto
  <2>2. \A v \in Workers : v # w /\ tag[v] # None => CallOf(v)' = CallOf(v)
    BY <1>0, <1>03, <2>1, InHandAlone DEF CallOf
  <2> QED
    BY <1>01, <1>02, <2>1, <2>2 DEF PermitInv, Permitted
<1>7. ASSUME NEW w \in Workers, Validate(w) PROVE PermitInv'
  <2> DEFINE p == tag[w]
  <2>1. /\ pc[w] = "validate" /\ p \in Processors /\ CallOf(w) \in Calls /\ CallOf(w) # None
        /\ UNCHANGED <<proc, tag, request, handled>>
        /\ validated \subseteq validated'
        /\ \A v \in Workers \ {w} : pc'[v] = pc[v] /\ code'[v] = code[v]
    BY <1>0, <1>7, InHandCarries DEF Validate, Goto
  <2>2. code'[w] = "OK" => \/ proc[p].method \in AuthMethods
                           \/ request[CallOf(w)].session /\ CallOf(w) \in validated'
    BY <1>0, <1>7 DEF Validate, NeedsSession, HasSession, CallOf
  <2>3. request[CallOf(w)].method = proc[p].method
    BY <2>1 DEF OneCarrier, CallOf
  <2>4. code'[w] = "OK" => Permitted(CallOf(w))'
    BY <2>1, <2>2, <2>3 DEF Permitted, CallOf
  <2>5. \A c \in Calls : Permitted(c) => Permitted(c)'
    BY <2>1 DEF Permitted
  <2>6. \A v \in Workers : CallOf(v)' = CallOf(v)
    BY <2>1 DEF CallOf
  <2>7. ASSUME NEW v \in Workers, tag'[v] # None, pc'[v] \in {"run", "arm", "handle"}, code'[v] = "OK"
        PROVE  Permitted(CallOf(v))'
    BY <1>03, <2>1, <2>4, <2>5, <2>6, <2>7 DEF PermitInv, Permitted
  <2> QED
    BY <1>01, <1>02, <2>1, <2>5, <2>7 DEF PermitInv
<1>8. ASSUME NEW c \in Calls, Accept(c) PROVE PermitInv'
  <2>1. PICK p \in requested : proc' = [proc EXCEPT ![p].call = c]
    BY <1>8 DEF Accept
  <2>2. p \in Processors /\ \A v \in Workers : tag[v] # p
    BY <1>0, <2>1 DEF TypeOK, IInv, Ownership, Exclusive, AtGrpc
  <2>3. UNCHANGED <<pc, tag, code, request, validated, handled>>
    BY <1>8 DEF Accept
  <2>4. \A v \in Workers : tag[v] # None => CallOf(v)' = CallOf(v)
    BY <1>0, <1>03, <2>1, <2>2, <2>3 DEF CallOf
  <2> QED
    BY <1>01, <1>02, <2>3, <2>4 DEF PermitInv, Permitted
<1>9. ASSUME NEW c \in Calls, Call(c) PROVE PermitInv'
  <2>1. /\ UNCHANGED <<proc, pc, tag, code, validated, handled>> /\ callState[c] = "idle"
        /\ \A d \in Calls : d # c => request'[d] = request[d]
    BY <1>0, <1>9 DEF Call, TypeOK
  <2>2. handled[c] = 0 /\ \A p \in Processors : proc[p].call # c
    BY <2>1 DEF OneCarrier
  <2>3. \A v \in Workers : tag[v] # None => CallOf(v) # c /\ CallOf(v)' = CallOf(v)
    BY <1>03, <2>1, <2>2 DEF CallOf
  <2>4. \A d \in Calls : d # c /\ Permitted(d) => Permitted(d)'
    BY <2>1 DEF Permitted
  <2>5. \A v \in Workers : tag[v] # None /\ Permitted(CallOf(v)) => Permitted(CallOf(v))'
    BY <1>03, <2>1, <2>3 DEF Permitted
  <2> QED
    BY <1>01, <1>02, <2>1, <2>2, <2>4, <2>5 DEF PermitInv
<1>10. CASE UNCHANGED <<proc, pc, tag, code, request, validated, handled>>
  BY <1>10 DEF PermitInv, OnlyValidatedHandled, Permitted, CallOf
<1>11. ASSUME NEW w \in Workers, StartWorker(w) PROVE PermitInv'
  <2>1. /\ pc'[w] = "pool" /\ \A v \in Workers \ {w} : pc'[v] = pc[v]
        /\ UNCHANGED <<proc, tag, code, request, validated, handled>>
    BY <1>0, <1>11 DEF StartWorker, Goto
  <2> QED
    BY <1>01, <1>02, <2>1 DEF PermitInv, Permitted, CallOf
<1>12. ASSUME \/ BuildAndStart \/ SeeStop \/ JoinWorkers \/ \E w \in Workers : StopWorker(w)
              \/ Stop \/ MainStep \/ Terminated \/ UNCHANGED vars
              \/ \E c \in Calls : Cancel(c)
              \/ \E p \in Processors : SendDone(p)
       PROVE  PermitInv'
  BY <1>10, <1>12 DEF BuildAndStart, SeeStop, JoinWorkers, StopWorker, Stop, MainStep, JoinServer,
                      Shutdown, Drain, Terminated, vars, Cancel, SendDone
<1> QED
  BY <1>1, <1>2, <1>3, <1>4, <1>5, <1>6, <1>7, <1>8, <1>9, <1>11, <1>12
     DEF Next, WorkerStep, ServerStep

-----------------------------------------------------------------------------

\* Before the first call nothing is carried, handled or answered.
LEMMA InitCallInv == Init => CallInv
BY NoneAssumption DEF Init, Free, Codes, CallInv, OneCarrier, HandlingInv, PermitInv,
                         OnlyValidatedHandled

\* The inductive invariant about calls.
THEOREM CallsInductive == Spec => [](IInv /\ CallInv)
<1>1. Init => IInv /\ CallInv
  BY InitIInv, InitCallInv
<1>2. IInv /\ CallInv /\ [Next]_vars => IInv'
  BY OwnershipStep, PostStep DEF IInv
<1>3. IInv /\ CallInv /\ [Next]_vars => CallInv'
  BY CarrierStep, HandlingStep, PermitStep DEF CallInv, IInv
<1> QED
  BY <1>1, <1>2, <1>3, PTL DEF Spec

\* In a build with assertions the status on the wire tells whether the request
\* had an effect: OK means handled exactly once, an error means not handled.
THEOREM ReplyTells == AssertsCompiled => (Spec => []ReplyTellsHandling)
<1>1. ASSUME AssertsCompiled PROVE IInv /\ CallInv => ReplyTellsHandling
  BY <1>1 DEF CallInv, HandlingInv, ReplyTellsHandling
<1>2. ASSUME AssertsCompiled PROVE Spec => []ReplyTellsHandling
  BY <1>1, <1>2, CallsInductive, PTL
<1> QED
  BY <1>2

\* No handler outside the auth service runs without a validated session, in any
\* mixture of the events of all calls.
THEOREM ValidatedOnly == Spec => []OnlyValidatedHandled
<1>1. IInv /\ CallInv => OnlyValidatedHandled
  BY DEF CallInv, PermitInv
<1> QED
  BY <1>1, CallsInductive, PTL

\* When Server::process has joined the workers, everything handled was answered.
THEOREM StopFinishes == Spec => []StopFinishesHandled
<1>1. IInv /\ CallInv => StopFinishesHandled
  <2> SUFFICES ASSUME IInv, CallInv, serverPc = "done", NEW c \in Calls, handled[c] > 0
               PROVE  reply[c] # None
    BY DEF StopFinishesHandled
  <2>1. \A w \in Workers : pc[w] \notin {"finish", "post"}
    BY DEF IInv, Ownership, Joined
  <2>2. handled[c] = 1
    BY DEF CallInv, HandlingInv
  <2> QED
    BY <2>1, <2>2 DEF CallInv, HandlingInv
<1> QED
  BY <1>1, CallsInductive, PTL

\* After the join nothing works on a request and no object is made, registered,
\* changed or deleted, except that gRPC may still fill in a registered one.
THEOREM NothingAfterJoin == Spec => QuietAfterJoin
<1> DEFINE Quiet == /\ requested' \subseteq requested
                    /\ UNCHANGED <<workerVars, handled, reply>>
                    /\ \A p \in Processors \ requested : proc'[p] = proc[p]
<1>1. ASSUME IInv, [Next]_vars, serverPc = "done" PROVE Quiet
  <2> USE DEF grpcVars, workerVars, serverVars, callVars
  <2>1. \A w \in Workers : pc[w] = "done"
    BY <1>1 DEF IInv, Ownership, Joined
  <2>2. \A w \in Workers : ~WorkerStep(w)
    BY <2>1 DEF WorkerStep, PoolCreate, PoolReady, CheckStop, GetEvent, PollTimeout, Validate,
                RunCreate, WaitForRequest, Spawn, Handle, SetFinished, PostFinish, Delete
  <2>3. ~ServerStep
    BY <1>1 DEF ServerStep, BuildAndStart, SeeStop, JoinWorkers, StartWorker, StopWorker
  <2>4. ASSUME NEW c \in Calls, Accept(c) PROVE Quiet
    BY <1>1, <2>4 DEF Accept, IInv, Ownership, TypeOK
  <2>5. ASSUME \/ Stop \/ MainStep \/ Terminated \/ UNCHANGED vars
               \/ \E c \in Calls : Call(c) \/ Cancel(c)
               \/ \E p \in Processors : SendDone(p)
        PROVE  Quiet
    BY <2>5 DEF Stop, MainStep, JoinServer, Shutdown, Drain, Terminated, vars, Call, Cancel, SendDone
  <2> QED
    BY <1>1, <2>2, <2>3, <2>4, <2>5 DEF Next
<1>2. IInv /\ [Next]_vars => [serverPc = "done" => Quiet]_vars
  BY <1>1
<1>3. QuietAfterJoin <=> [][serverPc = "done" => Quiet]_vars
  BY DEF QuietAfterJoin
<1> QED
  BY <1>2, <1>3, Inductive, PTL DEF Spec, QuietAfterJoin

-----------------------------------------------------------------------------
\* The service

InRun == {"run", "arm", "handle", "finish", "post"}   \* where code belongs to the event in hand

\* What the code of a refused call says, that a Finish under way has a status,
\* and that only the shutdown rejects calls.
CodeTells ==
    \A w \in Workers : tag[w] # None /\ pc[w] \in InRun =>
        /\ code[w] # "OK" => request[CallOf(w)].method \notin AuthMethods
        /\ code[w] = "INVALID_ARGUMENT" => ~request[CallOf(w)].session
        /\ code[w] = "UNAUTHENTICATED"  => request[CallOf(w)].session

SentTells    == \A p \in sending : reply[proc[p].call] # None
NoneRejected == Up => \A c \in Calls : callState[c] # "rejected"

ServiceInv == IInv /\ CallInv /\ CodeTells /\ SentTells /\ NoneRejected

\* A worker keeps the call and the code of its event from the validation on.
LEMMA EventKept ==
    ASSUME Ownership, OneCarrier, [Next]_vars,
           NEW v \in Workers, tag'[v] # None, pc'[v] \in InRun
    PROVE  \/ Validate(v)
           \/ /\ tag'[v] = tag[v] /\ pc[v] \in InRun /\ code'[v] = code[v]
              /\ CallOf(v)' = CallOf(v) /\ CallOf(v) \in Calls
              /\ request'[CallOf(v)] = request[CallOf(v)]
<1> DEFINE Goal == \/ Validate(v)
                   \/ /\ tag'[v] = tag[v] /\ pc[v] \in InRun /\ code'[v] = code[v]
                      /\ CallOf(v)' = CallOf(v) /\ CallOf(v) \in Calls
                      /\ request'[CallOf(v)] = request[CallOf(v)]
<1> USE NoneAssumption DEF grpcVars, workerVars, serverVars, callVars
<1>0. /\ TypeOK /\ proc \in [Processors -> Processor] /\ pc \in [Workers -> WorkerPcs]
      /\ tag \in [Workers -> Processors \cup {None}]
      /\ rp \in [Workers -> Processors \cup {None}] /\ code \in [Workers -> Codes]
  BY DEF Ownership, TypeOK
<1>1. tag[v] # None => tag[v] \in Processors /\ CallOf(v) \in Calls /\ CallOf(v) = proc[tag[v]].call
  BY <1>0, FieldsTyped DEF Ownership, EventStatus, CallOf
<1>2. ASSUME UNCHANGED <<tag, code, request>>, pc[v] \in InRun,
             proc'[tag[v]].call = proc[tag[v]].call
      PROVE  Goal
  BY <1>1, <1>2 DEF CallOf
<1>3. ASSUME NEW w \in Workers, RunCreate(w) PROVE Goal
  <2>1. Current(w) \in Processors /\ proc' = [proc EXCEPT ![Current(w)].status = "PROCESS"]
    BY <1>3, CurrentIsProcessor DEF RunCreate, SetStatus
  <2>2. UNCHANGED <<tag, code, request>> /\ pc[w] = "run" /\ \A u \in Workers \ {w} : pc'[u] = pc[u]
    BY <1>0, <1>3 DEF RunCreate, Goto
  <2>3. proc'[tag[v]].call = proc[tag[v]].call
    BY <1>0, <1>1, <2>1, <2>2 DEF Processor
  <2> QED
    BY <1>2, <2>2, <2>3 DEF InRun
<1>4. ASSUME NEW w \in Workers, Spawn(w) \/ PoolCreate(w) PROVE Goal
  <2>1. PICK p \in Processors : \E m, own :
          /\ proc' = [proc EXCEPT ![p] = [status |-> "CREATE", method |-> m, owner |-> own, call |-> None]]
          /\ proc[p] = Free
    BY <1>4, SpawnEffect, PoolCreateEffect
  <2>2. tag[v] # p
    BY <2>1, FreeIsNowhere
  <2>3. UNCHANGED <<tag, code, request>> /\ \A u \in Workers : tag[u] # None => pc'[u] = pc[u]
    BY <1>0, <1>4, PoolCreateEffect DEF Spawn, PoolCreate, Goto, Empty
  <2> QED
    BY <1>0, <1>1, <1>2, <2>1, <2>2, <2>3
<1>5. ASSUME NEW w \in Workers, Handle(w) \/ SetFinished(w) PROVE Goal
  <2>1. UNCHANGED <<tag, code, request>> /\ pc[w] \in InRun /\ \A u \in Workers \ {w} : pc'[u] = pc[u]
    BY <1>0, <1>5 DEF Handle, SetFinished, Goto, InRun
  <2>2. proc'[tag[v]].call = proc[tag[v]].call
    BY <1>0, <1>1, <1>5, <2>1 DEF Handle, SetFinished, SetStatus, Processor
  <2> QED
    BY <1>2, <2>1, <2>2
<1>6. ASSUME NEW w \in Workers,
             \/ WaitForRequest(w) \/ PoolReady(w) \/ CheckStop(w)
             \/ PollTimeout(w) \/ PostFinish(w) \/ GetEvent(w)
      PROVE  Goal
  <2>1. /\ UNCHANGED <<proc, code, request>>
        /\ \A u \in Workers \ {w} : pc'[u] = pc[u] /\ tag'[u] = tag[u]
        /\ \/ pc'[w] \notin InRun
           \/ pc[w] = "arm" /\ tag'[w] = tag[w]
    BY <1>0, <1>6 DEF WaitForRequest, PoolReady, CheckStop, PollTimeout, PostFinish, GetEvent,
                      Goto, Ownership, PcCoherent, InRun
  <2> QED
    BY <1>1, <2>1 DEF InRun, CallOf
<1>7. ASSUME NEW w \in Workers, Delete(w) PROVE Goal
  <2>1. /\ tag[w] \in Processors /\ proc' = [proc EXCEPT ![tag[w]] = Free]
        /\ pc'[w] = "loop" /\ \A u \in Workers \ {w} : pc'[u] = pc[u] /\ tag'[u] = tag[u]
        /\ UNCHANGED <<code, request>>
    BY <1>0, <1>7, DeleteEffect DEF Delete, Goto
  <2>2. v # w /\ tag[v] # tag[w]
    BY <2>1, InHandAlone DEF InRun
  <2> QED
    BY <1>0, <1>1, <2>1, <2>2 DEF CallOf
<1>8. ASSUME NEW w \in Workers, Validate(w) PROVE Goal
  <2>1. UNCHANGED <<proc, tag, request>> /\ \A u \in Workers \ {w} : pc'[u] = pc[u] /\ code'[u] = code[u]
    BY <1>0, <1>8 DEF Validate, Goto
  <2> QED
    BY <1>1, <1>8, <2>1 DEF CallOf
<1>9. ASSUME NEW c \in Calls, Accept(c) PROVE Goal
  <2>1. PICK p \in requested : proc' = [proc EXCEPT ![p].call = c]
    BY <1>9 DEF Accept
  <2>2. tag[v] # p
    BY <1>0, <2>1 DEF Ownership, TypeOK, Exclusive, AtGrpc
  <2>3. UNCHANGED <<pc, tag, code, request>>
    BY <1>9 DEF Accept
  <2> QED
    BY <1>0, <1>1, <1>2, <2>1, <2>2, <2>3
<1>10. ASSUME NEW c \in Calls, Call(c) PROVE Goal
  <2>1. UNCHANGED <<proc, pc, tag, code>> /\ callState[c] = "idle" /\ \A d \in Calls : d # c => request'[d] = request[d]
    BY <1>0, <1>10 DEF Call, TypeOK
  <2>2. CallOf(v) # c
    BY <1>1, <2>1 DEF OneCarrier, CallOf
  <2> QED
    BY <1>1, <2>1, <2>2 DEF CallOf
<1>11. ASSUME NEW w \in Workers, StartWorker(w) PROVE Goal
  <2>1. pc'[w] = "pool" /\ UNCHANGED <<proc, tag, code, request>> /\ \A u \in Workers \ {w} : pc'[u] = pc[u]
    BY <1>0, <1>11 DEF StartWorker, Goto
  <2> QED
    BY <1>2, <2>1 DEF InRun
<1>12. CASE \/ BuildAndStart \/ SeeStop \/ JoinWorkers \/ \E w \in Workers : StopWorker(w)
            \/ Stop \/ MainStep \/ Terminated \/ UNCHANGED vars
            \/ \E c \in Calls : Cancel(c)
            \/ \E p \in Processors : SendDone(p)
  <2>1. UNCHANGED <<proc, pc, tag, code, request>>
    BY <1>12 DEF BuildAndStart, SeeStop, JoinWorkers, StopWorker, Stop, MainStep, JoinServer,
                 Shutdown, Drain, Terminated, vars, Cancel, SendDone
  <2> QED
    BY <1>2, <2>1
<1> QED
  BY <1>3, <1>4, <1>5, <1>6, <1>7, <1>8, <1>9, <1>10, <1>11, <1>12 DEF Next, WorkerStep, ServerStep

\* A worker that validates looks at the call it has in hand.
LEMMA ValidateTells ==
    ASSUME Ownership, OneCarrier, NEW w \in Workers, Validate(w)
    PROVE  /\ tag[w] \in Processors /\ CallOf(w) \in Calls
           /\ UNCHANGED <<proc, tag, callState, request, handled, reply>>
           /\ code'[w] # "OK" => request[CallOf(w)].method \notin AuthMethods
           /\ code'[w] = "INVALID_ARGUMENT" => ~request[CallOf(w)].session
           /\ code'[w] = "UNAUTHENTICATED"  => request[CallOf(w)].session
           /\ \/ validated' = validated
              \/ /\ validated' = validated \cup {CallOf(w)}
                 /\ request[CallOf(w)].method \notin AuthMethods /\ request[CallOf(w)].session
<1>1. tag[w] \in Processors /\ CallOf(w) \in Calls /\ code \in [Workers -> Codes]
  BY InHandCarries DEF Validate, Ownership, TypeOK
<1>2. request[CallOf(w)].method = proc[tag[w]].method
  BY <1>1, NoneAssumption DEF OneCarrier, CallOf
<1> QED
  BY <1>1, <1>2 DEF Validate, NeedsSession, HasSession, CallOf

\* gRPC writes the answer of a processor that nobody touches.
LEMMA SendingKept ==
    ASSUME Ownership, [Next]_vars, NEW p \in sending
    PROVE  proc'[p] = proc[p]
<1> USE DEF grpcVars
<1>0. /\ p \in Processors /\ proc \in [Processors -> Processor] /\ proc[p] # Free
      /\ p \notin requested /\ \A w \in Workers : tag[w] # p /\ rp[w] # p
  BY DEF Ownership, TypeOK, Exclusive, Accounted, AtGrpc, Free
<1>1. ASSUME NEW w \in Workers, Spawn(w) \/ PoolCreate(w) PROVE proc'[p] = proc[p]
  <2>1. PICK q \in Processors : \E m, own :
          /\ proc[q] = Free
          /\ proc' = [proc EXCEPT ![q] = [status |-> "CREATE", method |-> m, owner |-> own, call |-> None]]
    BY <1>1, SpawnEffect, PoolCreateEffect
  <2> QED
    BY <1>0, <2>1
<1>2. ASSUME NEW w \in Workers, RunCreate(w) PROVE proc'[p] = proc[p]
  <2>1. Current(w) \in {tag[w], rp[w]} /\ proc' = [proc EXCEPT ![Current(w)].status = "PROCESS"]
    BY <1>2 DEF RunCreate, SetStatus, Current
  <2> QED
    BY <1>0, <2>1
<1>3. ASSUME NEW w \in Workers, SetFinished(w) \/ Delete(w) PROVE proc'[p] = proc[p]
  <2>1. \A q \in Processors : q # tag[w] => proc'[q] = proc[q]
    BY <1>0, <1>3, DeleteEffect DEF SetFinished, SetStatus
  <2> QED
    BY <1>0, <2>1
<1>4. ASSUME NEW c \in Calls, Accept(c) PROVE proc'[p] = proc[p]
  BY <1>0, <1>4 DEF Accept
<1>5. ASSUME NEW w \in Workers,
             \/ PoolReady(w) \/ CheckStop(w) \/ GetEvent(w) \/ PollTimeout(w) \/ Validate(w)
             \/ WaitForRequest(w) \/ Handle(w) \/ PostFinish(w)
      PROVE  UNCHANGED proc
  BY <1>5 DEF PoolReady, CheckStop, GetEvent, PollTimeout, Validate, WaitForRequest, Handle, PostFinish
<1>6. CASE \/ ServerStep \/ Stop \/ MainStep \/ Terminated \/ UNCHANGED vars
           \/ \E c \in Calls : Call(c) \/ Cancel(c)
           \/ \E q \in Processors : SendDone(q)
  BY <1>6 DEF ServerStep, BuildAndStart, SeeStop, JoinWorkers, StartWorker, StopWorker, Stop,
              MainStep, JoinServer, Shutdown, Drain, Terminated, vars, Call, Cancel, SendDone
<1> QED
  BY <1>1, <1>2, <1>3, <1>4, <1>5, <1>6 DEF Next, WorkerStep

\* Once Server::stop has passed its join there is no way back.
LEMMA UpBefore == ASSUME [Next]_vars, Up' PROVE Up
BY DEF Up, Next, WorkerStep, ServerStep, MainStep, PoolCreate, PoolReady, CheckStop, GetEvent,
       PollTimeout, Validate, RunCreate, WaitForRequest, Spawn, Handle, SetFinished, PostFinish,
       Delete, BuildAndStart, SeeStop, JoinWorkers, StartWorker, StopWorker, Stop, JoinServer,
       Shutdown, Drain, Terminated, vars, grpcVars, workerVars, serverVars, callVars,
       Call, Cancel, Accept, SendDone

\* Nothing but run() in FINISH posts an answer and nothing but the shutdown rejects.
LEMMA AnswersFrom ==
    ASSUME [Next]_vars
    PROVE  \/ \E w \in Workers : PostFinish(w)
           \/ sending' \subseteq sending /\ UNCHANGED reply
BY DEF Next, WorkerStep, ServerStep, MainStep, PoolCreate, PoolReady, CheckStop, GetEvent,
       PollTimeout, Validate, RunCreate, WaitForRequest, Spawn, Handle, SetFinished,
       Delete, BuildAndStart, SeeStop, JoinWorkers, StartWorker, StopWorker, Stop, JoinServer,
       Shutdown, Drain, Terminated, vars, grpcVars, workerVars, serverVars, callVars,
       Call, Cancel, Accept, SendDone

LEMMA ServiceInvStep == ServiceInv /\ [Next]_vars => CodeTells' /\ SentTells' /\ NoneRejected'
<1> SUFFICES ASSUME ServiceInv, Ownership, OneCarrier, [Next]_vars
             PROVE  CodeTells' /\ SentTells' /\ NoneRejected'
  BY DEF ServiceInv, IInv, CallInv
<1>1. CodeTells'
  <2> SUFFICES ASSUME NEW v \in Workers, tag'[v] # None, pc'[v] \in InRun
               PROVE  /\ code'[v] # "OK" => request'[CallOf(v)'].method \notin AuthMethods
                      /\ code'[v] = "INVALID_ARGUMENT" => ~request'[CallOf(v)'].session
                      /\ code'[v] = "UNAUTHENTICATED"  => request'[CallOf(v)'].session
    BY DEF CodeTells
  <2>1. CASE Validate(v)
    <3>1. CallOf(v)' = CallOf(v) /\ request' = request
      BY <2>1, ValidateTells DEF CallOf
    <3> QED
      BY <2>1, <3>1, ValidateTells
  <2>2. CASE ~Validate(v)
    <3>1. /\ tag'[v] = tag[v] /\ pc[v] \in InRun /\ code'[v] = code[v]
          /\ CallOf(v)' = CallOf(v)
          /\ request'[CallOf(v)] = request[CallOf(v)]
      BY <2>2, EventKept
    <3> QED
      BY <3>1 DEF ServiceInv, CodeTells
  <2> QED
    BY <2>1, <2>2
<1>2. SentTells'
  <2> SUFFICES ASSUME NEW p \in sending' PROVE reply'[proc'[p].call] # None
    BY DEF SentTells
  <2>1. CASE sending' \subseteq sending /\ UNCHANGED reply
    BY <2>1, SendingKept DEF ServiceInv, SentTells
  <2>2. CASE \E w \in Workers : PostFinish(w)
    <3>1. PICK w \in Workers : PostFinish(w)
      BY <2>2
    <3>2. /\ tag[w] \in Processors /\ CallOf(w) \in Calls
          /\ code[w] # None /\ reply \in [Calls -> Codes \cup {None}]
      BY <3>1, InHandCarries, NoneAssumption DEF PostFinish, Ownership, TypeOK
    <3>3. /\ proc' = proc /\ sending' = sending \cup {tag[w]}
          /\ reply' = [reply EXCEPT ![CallOf(w)] = code[w]]
      BY <3>1 DEF PostFinish, CallOf
    <3>4. p # tag[w] => reply[proc[p].call] # None /\ proc[p].call \in Calls
      <4>1. sending \subseteq Processors /\ \A q \in sending : proc[q].call # None
        BY DEF Ownership, TypeOK, EventStatus
      <4> QED
        BY <3>3, <4>1, FieldsTyped DEF ServiceInv, SentTells, Ownership
    <3> QED
      BY <3>2, <3>3, <3>4 DEF CallOf
  <2> QED
    BY <2>1, <2>2, AnswersFrom
<1>3. NoneRejected'
  <2> SUFFICES ASSUME Up', NEW c \in Calls PROVE callState'[c] # "rejected"
    BY DEF NoneRejected
  <2>1. callState[c] # "rejected" /\ callState \in [Calls -> {"idle", "pending", "accepted",
                                                      "replied", "cancelled", "rejected"}]
    BY UpBefore DEF ServiceInv, NoneRejected, Ownership, TypeOK
  <2>2. ~Shutdown
    BY DEF Shutdown, Up
  <2> QED
    BY <2>1, <2>2 DEF Next, WorkerStep, ServerStep, MainStep, PoolCreate, PoolReady, CheckStop, GetEvent,
       PollTimeout, Validate, RunCreate, WaitForRequest, Spawn, Handle, SetFinished, PostFinish,
       Delete, BuildAndStart, SeeStop, JoinWorkers, StartWorker, StopWorker, Stop, JoinServer,
       Drain, Terminated, vars, grpcVars, workerVars, serverVars, callVars,
       Call, Cancel, Accept, SendDone
<1> QED
  BY <1>1, <1>2, <1>3

\* The inductive invariant about calls, with what their clients are told.
THEOREM ServiceInductive == Spec => []ServiceInv
<1>1. Init => CodeTells /\ SentTells /\ NoneRejected
  BY DEF Init, CodeTells, SentTells, NoneRejected
<1>2. Init => ServiceInv
  BY <1>1, InitIInv, InitCallInv DEF ServiceInv
<1>3. ServiceInv /\ [Next]_vars => ServiceInv'
  BY ServiceInvStep, OwnershipStep, PostStep, CarrierStep, HandlingStep, PermitStep
     DEF ServiceInv, CallInv, IInv
<1> QED
  BY <1>2, <1>3, PTL DEF Spec
\* How CallService sees a client.
Seen(c) == IF callState[c] \in {"pending", "accepted"} THEN "waiting" ELSE callState[c]

\* The server is at work on the call that a worker has in hand.
LEMMA InHandAtServer ==
    ASSUME ServiceInv, NEW w \in Workers, tag[w] \in Processors, CallOf(w) \in Calls,
           pc[w] # "done"
    PROVE  Service!AtServer(CallOf(w))
<1>1. callState[CallOf(w)] \notin {"idle", "pending"}
  BY NoneAssumption DEF ServiceInv, CallInv, OneCarrier, CallOf
<1>2. callState[CallOf(w)] # "rejected"
  BY DEF ServiceInv, NoneRejected, IInv, Ownership, Joined
<1> QED
  BY <1>1, <1>2 DEF Service!AtServer

\* Every step of the server is one of the service, or is not seen.
LEMMA ServiceStep ==
    ASSUME AssertsCompiled, ServiceInv, [Next]_vars
    PROVE  [Service!Next]_(Service!vars)
<1> DEFINE Goal == [Service!Next]_(Service!vars)
<1> USE DEF grpcVars, workerVars, serverVars, callVars
<1>0. /\ Ownership /\ OneCarrier /\ HandlingInv /\ PermitInv
      /\ callState \in [Calls -> {"idle", "pending", "accepted", "replied", "cancelled", "rejected"}]
      /\ request \in [Calls -> Request \cup {None}]
      /\ handled \in [Calls -> Nat] /\ reply \in [Calls -> Codes \cup {None}]
      /\ code \in [Workers -> Codes] /\ proc \in [Processors -> Processor]
  BY DEF ServiceInv, IInv, CallInv, Ownership, TypeOK
<1>1. ASSUME UNCHANGED <<callState, request, validated, handled, reply>> PROVE Goal
  BY <1>1 DEF Service!vars
<1>2. ASSUME NEW c \in Calls, Call(c) PROVE Goal
  <2>0. PICK m \in Methods, s \in BOOLEAN :
          request' = [request EXCEPT ![c] = [method |-> m, session |-> s]]
    <3>1. PICK r \in Request : request' = [request EXCEPT ![c] = r]
      BY <1>2 DEF Call
    <3>2. r.method \in Methods /\ r.session \in BOOLEAN /\ r = [method |-> r.method, session |-> r.session]
      BY DEF Request
    <3> QED
      BY <3>1, <3>2
  <2>1. /\ callState[c] = "idle" /\ callState' = [callState EXCEPT ![c] = "pending"]
        /\ UNCHANGED <<validated, handled, reply>>
    BY <1>2 DEF Call
  <2>2. /\ [d \in Calls |-> Seen(d)]' = [[d \in Calls |-> Seen(d)] EXCEPT ![c] = "waiting"]
        /\ Seen(c) = "idle"
    BY <1>0, <2>1 DEF Seen
  <2>3. Service!Ask(c)
    BY <2>0, <2>1, <2>2 DEF Service!Ask, Seen
  <2> QED
    BY <2>3 DEF Service!Next
<1>3. ASSUME NEW c \in Calls, Cancel(c) PROVE Goal
  <2>1. /\ callState[c] \in {"pending", "accepted"}
        /\ callState' = [callState EXCEPT ![c] = "cancelled"]
        /\ UNCHANGED <<request, validated, handled, reply>>
    BY <1>3 DEF Cancel
  <2>2. /\ [d \in Calls |-> Seen(d)]' = [[d \in Calls |-> Seen(d)] EXCEPT ![c] = "cancelled"]
        /\ Seen(c) = "waiting"
    BY <1>0, <2>1 DEF Seen
  <2>3. Service!GiveUp(c)
    BY <2>1, <2>2 DEF Service!GiveUp, Seen
  <2> QED
    BY <2>3 DEF Service!Next
<1>4. ASSUME NEW c \in Calls, Accept(c) PROVE Goal
  <2>1. /\ callState[c] = "pending" /\ callState' = [callState EXCEPT ![c] = "accepted"]
        /\ UNCHANGED <<request, validated, handled, reply>>
    BY <1>4 DEF Accept
  <2>2. [d \in Calls |-> Seen(d)]' = [d \in Calls |-> Seen(d)]
    BY <1>0, <2>1 DEF Seen
  <2> QED
    BY <2>1, <2>2 DEF Service!vars, Seen
<1>5. ASSUME NEW w \in Workers, Validate(w) PROVE Goal
  <2> DEFINE k == CallOf(w)
  <2>1. k \in Calls /\ Service!AtServer(k)
    BY <1>0, <1>5, ValidateTells, InHandAtServer DEF Validate
  <2>2. UNCHANGED <<callState, request, handled, reply>>
    BY <1>5 DEF Validate
  <2>3. \/ validated' = validated
        \/ /\ validated' = validated \cup {k}
           /\ request[k].method \notin AuthMethods /\ request[k].session
    BY <1>0, <1>5, ValidateTells
  <2>4. CASE validated' = validated
    BY <1>1, <2>2, <2>4
  <2>5. CASE validated' # validated
    <3>1. Service!Admit(k)
      BY <2>1, <2>2, <2>3, <2>5 DEF Service!Admit, Service!Protected
    <3> QED
      BY <2>1, <3>1 DEF Service!Next
  <2> QED
    BY <2>4, <2>5
<1>6. ASSUME NEW w \in Workers, Handle(w) PROVE Goal
  <2> DEFINE k == CallOf(w)
  <2>1. /\ tag[w] \in Processors /\ k \in Calls /\ pc[w] = "handle"
        /\ UNCHANGED <<callState, request, validated, reply>>
    BY <1>0, <1>6, InHandCarries DEF Handle
  <2>2. Service!AtServer(k)
    BY <2>1, InHandAtServer
  <2>3. reply[k] = None /\ handled[k] = 0
    <3>1. proc[tag[w]].call # None /\ proc[tag[w]].status = "PROCESS"
      BY <1>0, <2>1, NoneAssumption DEF Ownership, EventStatus
    <3>2. \A v \in Workers : tag[v] = tag[w] => v = w
      BY <1>0, <2>1, InHandAlone
    <3> QED
      BY <1>0, <2>1, <3>1, <3>2 DEF HandlingInv, CallOf
  <2>4. CASE code[w] # "OK"
    <3>1. handled' = handled
      BY <1>6, <2>4 DEF Handle
    <3> QED
      BY <1>1, <2>1, <3>1
  <2>5. CASE code[w] = "OK"
    <3>1. handled' = [handled EXCEPT ![k] = 1]
      BY <1>0, <1>6, <2>1, <2>3, <2>5 DEF Handle, CallOf
    <3>2. Service!Protected(k) => request[k].session /\ k \in validated
      BY <1>0, <2>1, <2>5, NoneAssumption DEF PermitInv, Permitted, Service!Protected
    <3>3. Service!Run(k)
      BY <2>1, <2>2, <2>3, <3>1, <3>2 DEF Service!Run
    <3> QED
      BY <2>1, <3>3 DEF Service!Next
  <2> QED
    BY <2>4, <2>5
<1>7. ASSUME NEW w \in Workers, PostFinish(w) PROVE Goal
  <2> DEFINE k == CallOf(w)
  <2>1. /\ tag[w] \in Processors /\ k \in Calls /\ pc[w] = "post"
        /\ UNCHANGED <<callState, request, validated, handled>>
        /\ reply' = [reply EXCEPT ![k] = code[w]]
    BY <1>0, <1>7, InHandCarries DEF PostFinish, CallOf
  <2>2. Service!AtServer(k)
    BY <2>1, InHandAtServer
  <2>3. reply[k] = None /\ handled[k] = IF code[w] = "OK" THEN 1 ELSE 0
    BY <1>0, <2>1, AssertsAssumption DEF HandlingInv
  <2>4. /\ code[w] # "OK" => request[k].method \notin AuthMethods
        /\ code[w] = "INVALID_ARGUMENT" => ~request[k].session
        /\ code[w] = "UNAUTHENTICATED"  => request[k].session
    BY <2>1, NoneAssumption DEF ServiceInv, CodeTells, InRun
  <2>5. code[w] \in {"OK", "INVALID_ARGUMENT", "UNAUTHENTICATED"} /\ Service!Tells(k, code[w])
    BY <1>0, <2>3, <2>4 DEF Codes, Service!Tells, Service!Protected
  <2>6. Service!Answer(k)
    BY <2>1, <2>2, <2>3, <2>5 DEF Service!Answer
  <2> QED
    BY <2>1, <2>6 DEF Service!Next
<1>8. ASSUME NEW p \in Processors, SendDone(p) PROVE Goal
  <2> DEFINE k == proc[p].call
  <2>1. /\ k \in Calls /\ reply[k] # None
        /\ UNCHANGED <<request, validated, handled, reply>>
        /\ callState' = [c \in Calls |-> IF c = k /\ callState[c] = "accepted"
                                         THEN "replied" ELSE callState[c]]
    BY <1>0, <1>8, FieldsTyped DEF SendDone, ServiceInv, SentTells, Ownership, EventStatus
  <2>2. CASE callState[k] # "accepted"
    <3>1. callState' = callState
      BY <1>0, <2>1, <2>2
    <3> QED
      BY <1>1, <2>1, <3>1
  <2>3. CASE callState[k] = "accepted"
    <3>1. /\ [c \in Calls |-> Seen(c)]' = [[c \in Calls |-> Seen(c)] EXCEPT ![k] = "replied"]
          /\ Seen(k) = "waiting"
      BY <1>0, <2>1, <2>3 DEF Seen
    <3>2. \E c \in Calls : Service!Deliver(c)
      BY <2>1, <3>1 DEF Service!Deliver, Seen
    <3> QED
      BY <3>2 DEF Service!Next
  <2> QED
    BY <2>2, <2>3
<1>9. ASSUME Shutdown PROVE Goal
  <2> DEFINE rejected == {c \in Calls : callState[c] = "pending"}
  <2>1. /\ UNCHANGED <<request, validated, handled, reply>>
        /\ callState' = [c \in Calls |-> CASE callState[c] = "pending"  -> "rejected"
                                           [] callState[c] = "accepted" -> "cancelled"
                                           [] OTHER -> callState[c]]
    BY <1>9 DEF Shutdown
  <2>2. rejected \in SUBSET {c \in Calls : Seen(c) = "waiting" /\ Service!Untouched(c)}
    BY <1>0 DEF OneCarrier, Seen, Service!Untouched
  <2>3. [c \in Calls |-> Seen(c)]' =
          [c \in Calls |-> CASE c \in rejected -> "rejected"
                             [] c \notin rejected /\ Seen(c) = "waiting" -> "cancelled"
                             [] OTHER -> Seen(c)]
    BY <1>0, <2>1 DEF Seen
  <2>4. Service!Close
    BY <2>1, <2>2, <2>3 DEF Service!Close, Seen
  <2> QED
    BY <2>4 DEF Service!Next
<1>10. CASE \/ \E w \in Workers : \/ PoolCreate(w) \/ PoolReady(w) \/ CheckStop(w)
                                  \/ GetEvent(w) \/ PollTimeout(w) \/ RunCreate(w)
                                  \/ WaitForRequest(w) \/ Spawn(w) \/ SetFinished(w) \/ Delete(w)
            \/ ServerStep \/ Stop \/ JoinServer \/ Drain \/ Terminated \/ UNCHANGED vars
  <2>1. UNCHANGED callVars
    BY <1>10 DEF PoolCreate, PoolReady, CheckStop, GetEvent, PollTimeout, RunCreate, WaitForRequest,
                 Spawn, SetFinished, Delete, ServerStep, BuildAndStart, SeeStop, JoinWorkers,
                 StartWorker, StopWorker, Stop, JoinServer, Drain, Terminated, vars
  <2> QED
    BY <1>1, <2>1
<1> QED
  BY <1>2, <1>3, <1>4, <1>5, <1>6, <1>7, <1>8, <1>9, <1>10 DEF Next, WorkerStep, MainStep

\* In a build with assertions the pipeline of queue, workers and processors
\* implements CallService, for any number of workers, methods and calls.
THEOREM ServiceImplemented == AssertsCompiled => (Spec => ServiceKept)
<1>1. Init => Service!Init
  BY DEF Init, Service!Init
<1>2. ASSUME AssertsCompiled PROVE ServiceInv /\ [Next]_vars => [Service!Next]_(Service!vars)
  BY <1>2, ServiceStep
<1>3. ASSUME AssertsCompiled PROVE Spec => ServiceKept
  BY <1>1, <1>2, <1>3, ServiceInductive, PTL DEF Spec, ServiceKept, Service!Spec
<1> QED
  BY <1>3

-----------------------------------------------------------------------------
\* The pool

\* A step leaves the acceptors what and whose they are, except that gRPC may give
\* one a call.
AcceptorsKept ==
    /\ armed' = armed
    /\ \A p \in Processors : /\ IsAcceptor(p)' <=> IsAcceptor(p)
                             /\ IsAcceptor(p) =>
                                  /\ proc'[p].owner = proc[p].owner
                                  /\ proc'[p].method = proc[p].method
                                  /\ \/ proc'[p].call = proc[p].call
                                     \/ /\ proc[p].call = None
                                        /\ callState[proc'[p].call] = "pending"

\* Everywhere but at the processors of S.
AcceptorsElsewhere(S) ==
    \A p \in Processors \ S : (IsAcceptor(p)' <=> IsAcceptor(p)) /\ proc'[p] = proc[p]

\* Or it puts a new one in the place of another,
AcceptorSwapped(old, new) ==
    /\ armed' = armed
    /\ IsAcceptor(old) /\ ~IsAcceptor(new) /\ IsAcceptor(new)' /\ ~IsAcceptor(old)'
    /\ proc'[new].owner = proc[old].owner /\ proc'[new].method = proc[old].method
    /\ proc'[new].call = None /\ proc'[old] = proc[old]
    /\ AcceptorsElsewhere({old, new})

\* or it makes one for the next method of a worker.
AcceptorAdded(w, new) ==
    /\ armed[w] < Len(MethodOrder) /\ armed' = [armed EXCEPT ![w] = @ + 1]
    /\ ~IsAcceptor(new) /\ IsAcceptor(new)'
    /\ proc'[new].owner = w /\ proc'[new].method = MethodOrder[armed[w] + 1]
    /\ proc'[new].call = None
    /\ AcceptorsElsewhere({new})

AcceptorMove ==
    \/ AcceptorsKept
    \/ \E old \in Processors : \E new \in Processors : AcceptorSwapped(old, new)
    \/ \E w \in Workers : \E new \in Processors : AcceptorAdded(w, new)

\* No step takes away or doubles an acceptor, if what gRPC completes is a Finish.
LEMMA AcceptorMoves ==
    ASSUME Ownership, [Next]_vars, Up',
           \A p \in sending \ sending' : proc[p].status = "FINISH"
    PROVE  Up /\ AcceptorMove
<1> USE NoneAssumption DEF grpcVars, workerVars, serverVars, callVars
<1>0. /\ TypeOK /\ proc \in [Processors -> Processor] /\ pc \in [Workers -> WorkerPcs]
      /\ tag \in [Workers -> Processors \cup {None}] /\ rp \in [Workers -> Processors \cup {None}]
      /\ armed \in [Workers -> 0 .. Len(MethodOrder)]
      /\ requested \subseteq Processors /\ cq \subseteq Processors /\ sending \subseteq Processors
  BY DEF Ownership, TypeOK
<1>01. Up
  BY UpBefore
<1>1. ASSUME NEW w \in Workers, RunCreate(w) PROVE AcceptorMove
  <2>1. rp[w] \in Processors /\ proc' = [proc EXCEPT ![rp[w]].status = "PROCESS"]
    BY <1>0, <1>1 DEF RunCreate, SetStatus, Current, Ownership, PcCoherent, EventStatus
  <2>2. /\ UNCHANGED <<requested, cq, tag, rp, armed>> /\ pc[w] = "run" /\ pc'[w] = "arm"
        /\ \A v \in Workers \ {w} : pc'[v] = pc[v]
    BY <1>0, <1>1 DEF RunCreate, Goto
  <2>3. \A q \in Processors : /\ proc'[q].owner = proc[q].owner /\ proc'[q].method = proc[q].method
                              /\ proc'[q].call = proc[q].call
                              /\ q # rp[w] => proc'[q] = proc[q]
    BY <1>0, <2>1 DEF Processor
  <2>4. IsAcceptor(rp[w]) /\ IsAcceptor(rp[w])'
    BY <2>2 DEF IsAcceptor
  <2>5. ASSUME NEW q \in Processors, q # rp[w] PROVE IsAcceptor(q)' <=> IsAcceptor(q)
    BY <2>1, <2>2, <2>3, <2>5 DEF IsAcceptor
  <2> QED
    BY <2>1, <2>2, <2>3, <2>4, <2>5 DEF AcceptorMove, AcceptorsKept
<1>2. ASSUME NEW w \in Workers, WaitForRequest(w) PROVE AcceptorMove
  <2>1. PICK p \in Processors : p = rp[w]
    BY <1>2 DEF WaitForRequest, Ownership, PcCoherent
  <2>2. /\ UNCHANGED <<proc, cq, armed>> /\ requested' = requested \cup {p}
        /\ rp'[w] = None /\ pc'[w] \notin {"validate", "run"}
        /\ pc[w] = "arm"
        /\ \A v \in Workers \ {w} : pc'[v] = pc[v] /\ tag'[v] = tag[v] /\ rp'[v] = rp[v]
    BY <1>0, <1>2, <2>1 DEF WaitForRequest, Goto, Current
  <2>3. ASSUME NEW q \in Processors PROVE IsAcceptor(q)' <=> IsAcceptor(q)
    BY <2>1, <2>2 DEF IsAcceptor
  <2> QED
    BY <2>2, <2>3 DEF AcceptorMove, AcceptorsKept
<1>3. ASSUME NEW w \in Workers, Spawn(w) PROVE AcceptorMove
  <2>1. PICK p \in Processors :
          /\ proc[p] = Free /\ tag[w] # p /\ tag[w] \in Processors
          /\ proc' = [proc EXCEPT ![p] = [status |-> "CREATE", method |-> proc[tag[w]].method,
                                          owner |-> proc[tag[w]].owner, call |-> None]]
          /\ rp' = [rp EXCEPT ![w] = p]
          /\ rp[w] = None /\ proc[tag[w]].status = "PROCESS" /\ pc[w] = "run"
    BY <1>3, SpawnEffect
  <2>2. p \notin AtGrpc /\ \A v \in Workers : tag[v] # p /\ rp[v] # p
    BY <2>1, FreeIsNowhere
  <2>3. tag[w] \notin AtGrpc /\ \A v \in Workers : rp[v] # tag[w] /\ (v # w => tag[v] # tag[w])
    BY <2>1, InHandAlone
  <2>4. UNCHANGED <<requested, cq, tag, pc, armed>>
    BY <1>3 DEF Spawn
  <2>5. \A v \in Workers : rp'[v] = IF v = w THEN p ELSE rp[v]
    BY <1>0, <2>1
  <2>6. \A q \in Processors : q # p => proc'[q] = proc[q]
    BY <1>0, <2>1
  <2>7. /\ proc'[p].owner = proc[tag[w]].owner /\ proc'[p].method = proc[tag[w]].method
        /\ proc'[p].call = None
    BY <1>0, <2>1
  <2>8. IsAcceptor(tag[w]) /\ ~IsAcceptor(p)
    BY <2>1, <2>2 DEF IsAcceptor, AtGrpc
  <2>9. IsAcceptor(p)' /\ ~IsAcceptor(tag[w])'
    BY <2>1, <2>3, <2>4, <2>5 DEF IsAcceptor, AtGrpc
  <2>10. ASSUME NEW q \in Processors \ {tag[w], p} PROVE IsAcceptor(q)' <=> IsAcceptor(q)
    BY <2>1, <2>4, <2>5, <2>6 DEF IsAcceptor
  <2> QED
    BY <2>1, <2>4, <2>6, <2>7, <2>8, <2>9, <2>10
       DEF AcceptorMove, AcceptorSwapped, AcceptorsElsewhere
<1>4. ASSUME NEW w \in Workers, PoolCreate(w) PROVE AcceptorMove
  <2>1. PICK p \in Processors :
          /\ proc[p] = Free
          /\ proc' = [proc EXCEPT ![p] = [status |-> "CREATE", method |-> MethodOrder[armed[w] + 1],
                                          owner |-> w, call |-> None]]
          /\ rp' = [rp EXCEPT ![w] = p]
          /\ Empty(w)
    BY <1>4, PoolCreateEffect
  <2>2. p \notin AtGrpc /\ \A v \in Workers : tag[v] # p /\ rp[v] # p
    BY <2>1, FreeIsNowhere
  <2>3. /\ UNCHANGED <<requested, cq, tag>> /\ armed' = [armed EXCEPT ![w] = @ + 1]
        /\ armed[w] < Len(MethodOrder)
        /\ \A v \in Workers \ {w} : pc'[v] = pc[v]
    BY <1>0, <1>4 DEF PoolCreate, Goto
  <2>4. \A v \in Workers : rp'[v] = IF v = w THEN p ELSE rp[v]
    BY <1>0, <2>1
  <2>5. \A q \in Processors : q # p => proc'[q] = proc[q]
    BY <1>0, <2>1
  <2>6. /\ proc'[p].owner = w /\ proc'[p].method = MethodOrder[armed[w] + 1]
        /\ proc'[p].call = None
    BY <1>0, <2>1
  <2>7. ~IsAcceptor(p) /\ IsAcceptor(p)'
    BY <2>2, <2>4 DEF IsAcceptor, AtGrpc
  <2>8. ASSUME NEW q \in Processors \ {p} PROVE IsAcceptor(q)' <=> IsAcceptor(q)
    BY <2>1, <2>3, <2>4, <2>5 DEF IsAcceptor, Empty
  <2> QED
    BY <2>3, <2>5, <2>6, <2>7, <2>8 DEF AcceptorMove, AcceptorAdded, AcceptorsElsewhere
<1>5. ASSUME NEW w \in Workers,
             \/ PoolReady(w) \/ CheckStop(w) \/ PollTimeout(w) \/ Handle(w)
             \/ PostFinish(w) \/ StartWorker(w)
      PROVE  AcceptorMove
  <2>1. /\ UNCHANGED <<proc, requested, cq, rp, armed>>
        /\ pc[w] \notin {"validate", "run"} /\ pc'[w] \notin {"validate", "run"}
        /\ \A v \in Workers \ {w} : pc'[v] = pc[v] /\ tag'[v] = tag[v]
    BY <1>0, <1>5 DEF PoolReady, CheckStop, PollTimeout, Handle, PostFinish, StartWorker, Goto
  <2>2. ASSUME NEW q \in Processors PROVE IsAcceptor(q)' <=> IsAcceptor(q)
    BY <2>1 DEF IsAcceptor
  <2> QED
    BY <2>1, <2>2 DEF AcceptorMove, AcceptorsKept
<1>6. ASSUME NEW w \in Workers, SetFinished(w) PROVE AcceptorMove
  <2>1. /\ tag[w] \in Processors /\ pc[w] = "finish" /\ pc'[w] = "post"
        /\ proc' = [proc EXCEPT ![tag[w]].status = "FINISH"]
        /\ UNCHANGED <<requested, cq, tag, rp, armed>>
        /\ \A v \in Workers \ {w} : pc'[v] = pc[v]
    BY <1>0, <1>6, InHandCarries DEF SetFinished, SetStatus, Goto
  <2>2. tag[w] \notin AtGrpc /\ \A v \in Workers : rp[v] # tag[w] /\ (v # w => tag[v] # tag[w])
    BY <2>1, InHandAlone
  <2>3. \A q \in Processors : /\ proc'[q].owner = proc[q].owner /\ proc'[q].method = proc[q].method
                              /\ q # tag[w] => proc'[q] = proc[q]
    BY <1>0, <2>1 DEF Processor
  <2>4. ~IsAcceptor(tag[w]) /\ ~IsAcceptor(tag[w])'
    BY <2>1, <2>2 DEF IsAcceptor, AtGrpc
  <2>5. ASSUME NEW q \in Processors, q # tag[w] PROVE IsAcceptor(q)' <=> IsAcceptor(q)
    BY <2>1, <2>3, <2>5 DEF IsAcceptor
  <2> QED
    BY <2>1, <2>3, <2>4, <2>5 DEF AcceptorMove, AcceptorsKept
<1>7. ASSUME NEW w \in Workers, Delete(w) PROVE AcceptorMove
  <2>1. PICK p \in Processors :
          /\ p = tag[w] /\ rp[w] = None /\ proc[p].status = "FINISH"
          /\ proc' = [proc EXCEPT ![p] = Free]
    BY <1>7, DeleteEffect
  <2>2. /\ UNCHANGED <<requested, cq, rp, armed>> /\ tag'[w] = None /\ pc'[w] = "loop"
        /\ \A v \in Workers \ {w} : pc'[v] = pc[v] /\ tag'[v] = tag[v]
    BY <1>0, <1>7 DEF Delete, Goto
  <2>3. p \notin AtGrpc /\ \A v \in Workers : rp[v] # p /\ (v # w => tag[v] # p)
    BY <2>1, InHandAlone
  <2>4. \A q \in Processors : q # p => proc'[q] = proc[q]
    BY <1>0, <2>1
  <2>5. ~IsAcceptor(p) /\ ~IsAcceptor(p)'
    BY <2>1, <2>2, <2>3 DEF IsAcceptor, AtGrpc
  <2>6. ASSUME NEW q \in Processors, q # p PROVE IsAcceptor(q)' <=> IsAcceptor(q)
    BY <2>1, <2>2, <2>4, <2>6 DEF IsAcceptor
  <2> QED
    BY <2>2, <2>4, <2>5, <2>6 DEF AcceptorMove, AcceptorsKept
<1>8. ASSUME NEW w \in Workers, GetEvent(w) PROVE AcceptorMove
  <2>1. PICK p \in cq : cq' = cq \ {p} /\ tag' = [tag EXCEPT ![w] = p]
    BY <1>8 DEF GetEvent
  <2>2. /\ UNCHANGED <<proc, requested, rp, armed>> /\ pc[w] = "poll" /\ pc'[w] = "validate"
        /\ rp[w] = None /\ tag'[w] = p /\ p \in Processors
        /\ \A v \in Workers \ {w} : pc'[v] = pc[v] /\ tag'[v] = tag[v]
    BY <1>0, <1>8, <2>1 DEF GetEvent, Goto, Ownership, PcCoherent, Empty
  <2>3. p \notin requested /\ \A v \in Workers : tag[v] # p /\ rp[v] # p
    BY <2>1 DEF Ownership, Exclusive, AtGrpc
  <2>4. IsAcceptor(p)' <=> IsAcceptor(p)
    BY <2>1, <2>2, <2>3 DEF IsAcceptor
  <2>5. ASSUME NEW q \in Processors, q # p PROVE IsAcceptor(q)' <=> IsAcceptor(q)
    BY <2>1, <2>2, <2>5 DEF IsAcceptor
  <2> QED
    BY <2>2, <2>4, <2>5 DEF AcceptorMove, AcceptorsKept
<1>9. ASSUME NEW w \in Workers, Validate(w) PROVE AcceptorMove
  <2>1. /\ UNCHANGED <<proc, requested, cq, tag, rp, armed>>
        /\ pc[w] = "validate" /\ pc'[w] = "run" /\ \A v \in Workers \ {w} : pc'[v] = pc[v]
    BY <1>0, <1>9 DEF Validate, Goto
  <2>2. ASSUME NEW q \in Processors PROVE IsAcceptor(q)' <=> IsAcceptor(q)
    BY <2>1 DEF IsAcceptor
  <2> QED
    BY <2>1, <2>2 DEF AcceptorMove, AcceptorsKept
<1>10. ASSUME NEW c \in Calls, Accept(c) PROVE AcceptorMove
  <2>1. PICK p \in requested : /\ proc' = [proc EXCEPT ![p].call = c]
                               /\ requested' = requested \ {p} /\ cq' = cq \cup {p}
    BY <1>10 DEF Accept
  <2>2. UNCHANGED <<pc, tag, rp, armed>> /\ p \in Processors /\ proc[p].status = "PROCESS"
    BY <1>0, <1>10, <2>1 DEF Accept, Ownership, EventStatus
  <2>3. \A q \in Processors : /\ proc'[q].owner = proc[q].owner /\ proc'[q].method = proc[q].method
                              /\ proc'[q].status = proc[q].status
                              /\ q # p => proc'[q].call = proc[q].call
    BY <1>0, <2>1, <2>2 DEF Processor
  <2>30. proc[p].call = None /\ proc'[p].call = c /\ callState[c] = "pending"
    BY <1>0, <1>10, <2>1, <2>2 DEF Accept, Ownership, EventStatus
  <2>4. ASSUME NEW q \in Processors PROVE IsAcceptor(q)' <=> IsAcceptor(q)
    BY <2>1, <2>2, <2>3 DEF IsAcceptor
  <2>5. \A q \in Processors : \/ proc'[q].call = proc[q].call
                              \/ proc[q].call = None /\ callState[proc'[q].call] = "pending"
    BY <2>3, <2>30
  <2>6. AcceptorsKept
    BY <2>2, <2>3, <2>4, <2>5 DEF AcceptorsKept
  <2> QED
    BY <2>6 DEF AcceptorMove
<1>11. ASSUME NEW p \in Processors, SendDone(p) PROVE AcceptorMove
  <2>1. /\ p \in sending /\ cq' = cq \cup {p} /\ proc[p].status = "FINISH"
        /\ UNCHANGED <<proc, requested, pc, tag, rp, armed>>
    BY <1>0, <1>11 DEF SendDone
  <2>2. ASSUME NEW q \in Processors PROVE IsAcceptor(q)' <=> IsAcceptor(q)
    BY <2>1 DEF IsAcceptor
  <2> QED
    BY <2>1, <2>2 DEF AcceptorMove, AcceptorsKept
<1>12. ASSUME UNCHANGED <<proc, requested, cq, pc, tag, rp, armed>> PROVE AcceptorMove
  <2>1. ASSUME NEW q \in Processors PROVE IsAcceptor(q)' <=> IsAcceptor(q)
    BY <1>12 DEF IsAcceptor
  <2>2. AcceptorsKept
    BY <1>12, <2>1 DEF AcceptorsKept
  <2> QED
    BY <2>2 DEF AcceptorMove
<1>13. ASSUME \/ BuildAndStart \/ SeeStop \/ JoinWorkers \/ \E w \in Workers : StopWorker(w)
              \/ Stop \/ JoinServer \/ Terminated \/ UNCHANGED vars
              \/ \E c \in Calls : Call(c) \/ Cancel(c)
       PROVE  AcceptorMove
  BY <1>12, <1>13 DEF BuildAndStart, SeeStop, JoinWorkers, StopWorker, Stop, JoinServer,
                      Terminated, vars, Call, Cancel
<1>14. ~Shutdown /\ ~Drain
  BY <1>01 DEF Up, Shutdown, Drain
<1> QED
  BY <1>01, <1>1, <1>2, <1>3, <1>4, <1>5, <1>6, <1>7, <1>8, <1>9, <1>10, <1>11, <1>13, <1>14
     DEF Next, WorkerStep, ServerStep, MainStep

\* A processor stands by for the method that a worker armed in its i-th place.
StandsFor(p, w, i) ==
    proc[p].owner = w /\ proc[p].method = MethodOrder[i] /\ IsAcceptor(p)

\* AcceptorPerWorkerAndMethod, pointwise.
PoolInv ==
    Up => \A w \in Workers : \A i \in DOMAIN MethodOrder :
            /\ \A p, q \in Processors : StandsFor(p, w, i) /\ StandsFor(q, w, i) => p = q
            /\ i <= armed[w] <=> \E p \in Processors : StandsFor(p, w, i)

\* A step that leaves every acceptor one and makes no other keeps the pool.
LEMMA PoolKept == ASSUME PoolInv, Up, AcceptorsKept PROVE PoolInv'
<1>1. \A w, i : \A p \in Processors : StandsFor(p, w, i)' <=> StandsFor(p, w, i)
  BY DEF StandsFor, AcceptorsKept
<1> QED
  BY <1>1 DEF PoolInv, AcceptorsKept

\* So does one that puts a new acceptor in the place of another.
LEMMA PoolSwapped ==
    ASSUME PoolInv, Up, NEW old \in Processors, NEW new \in Processors, AcceptorSwapped(old, new)
    PROVE  PoolInv'
<1> USE DEF AcceptorSwapped, AcceptorsElsewhere
<1>1. \A w, i : \A p \in Processors \ {old, new} : StandsFor(p, w, i)' <=> StandsFor(p, w, i)
  BY DEF StandsFor
<1>2. \A w, i : /\ StandsFor(new, w, i)' <=> StandsFor(old, w, i)
                /\ ~StandsFor(new, w, i) /\ ~StandsFor(old, w, i)'
  BY DEF StandsFor
<1> QED
  BY <1>1, <1>2 DEF PoolInv

\* And one that arms the next method of a worker.
LEMMA PoolGrown ==
    ASSUME PoolInv, Up, armed \in [Workers -> 0 .. Len(MethodOrder)],
           NEW w \in Workers, NEW new \in Processors, AcceptorAdded(w, new)
    PROVE  PoolInv'
<1> USE DEF AcceptorAdded, AcceptorsElsewhere
<1>1. \A v, i : \A p \in Processors \ {new} : StandsFor(p, v, i)' <=> StandsFor(p, v, i)
  BY DEF StandsFor
<1>2. ASSUME NEW v, NEW i \in DOMAIN MethodOrder
      PROVE  /\ StandsFor(new, v, i)' <=> v = w /\ i = armed[w] + 1
             /\ ~StandsFor(new, v, i)
  BY <1>2, MethodOrderAssumption DEF StandsFor
<1>3. DOMAIN MethodOrder = 1 .. Len(MethodOrder) /\ Len(MethodOrder) \in Nat
  BY MethodOrderAssumption
<1>4. armed[w] \in Nat /\ armed[w] + 1 \in DOMAIN MethodOrder
  BY <1>3
<1>5. ASSUME NEW v \in Workers, NEW i \in DOMAIN MethodOrder, Up'
      PROVE  /\ \A p, q \in Processors : StandsFor(p, v, i)' /\ StandsFor(q, v, i)' => p = q
             /\ i <= armed'[v] <=> \E p \in Processors : StandsFor(p, v, i)'
  <2>1. CASE v = w /\ i = armed[w] + 1
    <3>1. ~(i <= armed[v]) /\ i <= armed'[v]
      BY <1>3, <1>4, <2>1
    <3>2. \A p \in Processors : ~StandsFor(p, v, i)
      BY <3>1 DEF PoolInv
    <3> QED
      BY <1>1, <1>2, <2>1, <3>1, <3>2
  <2>2. CASE ~(v = w /\ i = armed[w] + 1)
    <3>1. i <= armed'[v] <=> i <= armed[v]
      BY <1>3, <1>4, <2>2
    <3>2. \A p \in Processors : StandsFor(p, v, i)' <=> StandsFor(p, v, i)
      BY <1>1, <1>2, <2>2
    <3> QED
      BY <3>1, <3>2 DEF PoolInv
  <2> QED
    BY <2>1, <2>2
<1> QED
  BY <1>5 DEF PoolInv

\* The pool stays whole in each step.
LEMMA PoolStep == IInv /\ PoolInv /\ [Next]_vars => PoolInv'
<1> SUFFICES ASSUME IInv, Ownership, PoolInv, [Next]_vars, Up' PROVE PoolInv'
  BY DEF IInv, PoolInv
<1>1. Up /\ AcceptorMove
  BY AcceptorMoves DEF IInv, OnlyFinishPosted
<1>2. armed \in [Workers -> 0 .. Len(MethodOrder)]
  BY DEF Ownership, TypeOK
<1> QED
  BY <1>1, <1>2, PoolKept, PoolSwapped, PoolGrown DEF AcceptorMove

\* While the server is up every worker keeps exactly one acceptor for each
\* method it has armed: none is lost to a refused call, none is doubled.
THEOREM PoolStaysWhole == Spec => []AcceptorPerWorkerAndMethod
<1>1. Init => PoolInv
  <2> SUFFICES ASSUME Init, NEW w \in Workers, NEW i \in DOMAIN MethodOrder
               PROVE  ~(i <= armed[w]) /\ \A p \in Processors : ~StandsFor(p, w, i)
    BY DEF PoolInv
  <2>1. i \in 1 .. Len(MethodOrder) /\ armed[w] = 0
    BY MethodOrderAssumption DEF Init
  <2> QED
    BY <2>1, NoneAssumption DEF Init, StandsFor, IsAcceptor
<1>2. IInv /\ PoolInv /\ [Next]_vars => PoolInv'
  BY PoolStep
<1>3. PoolInv => AcceptorPerWorkerAndMethod
  BY DEF PoolInv, StandsFor, AcceptorPerWorkerAndMethod
<1> QED
  BY <1>1, <1>2, <1>3, Inductive, PTL DEF Spec

=============================================================================
