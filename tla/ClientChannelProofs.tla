------------------------- MODULE ClientChannelProofs -------------------------
(***************************************************************************)
(* Theorems of ClientChannel.  Whether a worker may run, and whose it is,  *)
(* depends on where the program's threads stand in connect() and           *)
(* disconnect(): Locked says that only the holder of the mutex stands in   *)
(* their middle, Fresh what a connection is before its login, Keepers that *)
(* a running thread belongs to the current worker or to the one that is    *)
(* being destroyed, Reports how a failure leads a worker to its end and    *)
(* Tells that a callback registered all the time hears of it.              *)
(* All of it holds also in the states after an abort, which nothing leaves.*)
(***************************************************************************)
EXTENDS ClientChannel, TLAPS

Changing == {"login", "stop", "setValue", "join"}
Ending(g) == \E a \in Apps : ending[a] = g

\* Only the holder of the mutex is inside connect(), disconnect() or keepAlive().
Locked ==
    /\ \A a \in Apps : pc[a] \in Changing => mutex = a
    /\ \A g \in Gens : pc[g] \in {"rpc", "callback"} => mutex = g
    /\ \A a \in Apps : ending[a] # None <=> pc[a] \in {"stop", "setValue", "join"}

\* A connection whose login has not succeeded has no trace but its number.
Fresh ==
    /\ \A g \in Gens : g > connects => pc[g] = "new"
    /\ \A g \in Gens : pc[g] = "new" => g \notin exitSignal /\ failures[g] = 0
    /\ \A a \in Apps : pc[a] = "login" => channel \in Gens /\ pc[channel] = "new"
    /\ channel # None => channel <= connects
    /\ stub # None => pc[stub] # "new"

\* Whose the running threads are, and whose the channel is.
Keepers ==
    /\ \A g \in Gens : Running(g) => g = worker \/ Ending(g)
    /\ \A a \in Apps : ending[a] # None =>
         /\ pc[ending[a]] # "new"
         /\ worker # None => pc[worker] = "new" /\ channel = worker /\ session = worker
    /\ worker # None /\ (\A a \in Apps : ending[a] = None) => pc[worker] # "new"
    /\ channel # None /\ (\A a \in Apps : pc[a] \notin Changing) =>
         session = channel /\ worker = channel
    /\ worker # None => worker <= connects /\ (worker = channel \/ worker < connects)

\* How a failure leads a worker to its end.
Reports ==
    /\ \A g \in Gens : failures[g] <= 1
    /\ \A g \in Gens : pc[g] \in {"callback", "stop", "setValue"} => failures[g] = 1
    /\ \A g \in Gens : failures[g] = 1 =>
         \/ pc[g] \in {"callback", "stop", "setValue", "done"}
         \/ pc[g] = "loop" /\ g \in exitSignal
    /\ \A g \in Gens : pc[g] = "done" => g \in exitSignal
    /\ worker # None /\ worker \in exitSignal => failures[worker] = 1

\* A callback that was there all the time has been told of a failure.
Tells ==
    /\ heard => callback # None
    /\ heard /\ worker # None /\ failures[worker] = 1 /\ pc[worker] # "callback" => worker \in told

CInv == TypeOK /\ Locked /\ Fresh /\ Keepers /\ Reports /\ Tells

\* Program threads, workers and null are different things.
LEMMA Apart ==
    /\ \A a \in Apps : a \in Threads /\ a \notin Gens /\ a # None
    /\ \A g \in Gens : g \in Threads /\ g \notin Apps /\ g # None /\ g \in Nat
    /\ None \notin Threads
BY AppsAssumption, NoneAssumption, BoundAssumption DEF Gens, Threads

\* What a step at one program point does to the others.
LEMMA Moves ==
    ASSUME TypeOK, NEW t \in Threads, NEW l, Goto(t, l)
    PROVE  pc'[t] = l /\ \A u \in Threads \ {t} : pc'[u] = pc[u]
BY DEF TypeOK, Goto

\* Whoever destroys a worker holds the mutex, and nobody else does so.
LEMMA OneEnds ==
    ASSUME TypeOK, Locked, NEW a \in Apps, pc[a] \in Changing
    PROVE  /\ mutex = a
           /\ \A b \in Apps \ {a} : pc[b] \notin Changing /\ ending[b] = None
           /\ \A g \in Gens : pc[g] \notin {"rpc", "callback"}
           /\ \A g \in Gens : Ending(g) <=> ending[a] = g
BY Apart DEF Locked, Ending, Changing

\* Before any thread runs there is no channel.
LEMMA CInit == Init => CInv
<1> SUFFICES ASSUME Init PROVE CInv
  OBVIOUS
<1> USE Apart
<1>0. /\ \A a \in Apps : pc[a] = "idle" /\ ending[a] = None
      /\ \A g \in Gens : pc[g] = "new" /\ failures[g] = 0
      /\ exitSignal = {} /\ worker = None /\ channel = None /\ stub = None
      /\ told = {} /\ heard = FALSE
  BY DEF Init
<1>1. TypeOK
  <2>1. pc \in [Threads -> AppPcs \cup WorkerPcs]
    BY DEF Init, AppPcs, WorkerPcs
  <2>2. 0 \in 0 .. MaxConnects
    BY BoundAssumption
  <2> QED
    BY <1>0, <2>1, <2>2 DEF Init, TypeOK, AppPcs, WorkerPcs
<1>2. Locked
  BY <1>0 DEF Locked, Changing
<1>3. Fresh
  BY <1>0 DEF Fresh
<1>4. Keepers
  BY <1>0 DEF Keepers, Running
<1>5. Reports /\ Tells
  BY <1>0 DEF Reports, Tells
<1> QED
  BY <1>1, <1>2, <1>3, <1>4, <1>5 DEF CInv

\* The steps of a program's thread.
LEMMA ConnectStep == ASSUME CInv, NEW a \in Apps, Connect(a) PROVE CInv'
<1> USE Apart DEF CInv, history
<1>1. /\ pc[a] = "idle" /\ pc'[a] = "login" /\ \A u \in Threads \ {a} : pc'[u] = pc[u]
      /\ pc' = [pc EXCEPT ![a] = "login"]
      /\ mutex = None /\ mutex' = a /\ channel' = connects + 1 /\ connects' = connects + 1
      /\ UNCHANGED <<session, worker, callback, stub, ending, exitSignal, process, failures, told, heard>>
  BY Moves DEF Connect, At, Goto, Lock
<1>2. connects \in Nat /\ connects + 1 \in Gens /\ connects + 1 \in 0 .. MaxConnects
  BY BoundAssumption DEF Connect, TypeOK, Gens
<1>3. pc[connects + 1] = "new"
  BY <1>2 DEF Fresh
<1>4. TypeOK'
  BY <1>1, <1>2 DEF TypeOK, AppPcs
<1>5. Locked'
  BY <1>1 DEF Locked, Changing
<1>6. Fresh'
  BY <1>1, <1>2, <1>3 DEF Fresh, TypeOK
<1>7. Keepers'
  BY <1>1 DEF Keepers, Running, Ending, Locked, Changing, TypeOK
<1>8. Reports' /\ Tells'
  BY <1>1 DEF Reports, Tells, TypeOK
<1> QED
  BY <1>4, <1>5, <1>6, <1>7, <1>8

LEMMA ConnectFailsStep == ASSUME CInv, NEW a \in Apps, ConnectFails(a) PROVE CInv'
<1> USE Apart DEF CInv, history
<1>1. /\ pc[a] = "login" /\ pc'[a] = "idle" /\ \A u \in Threads \ {a} : pc'[u] = pc[u]
      /\ pc' = [pc EXCEPT ![a] = "idle"]
      /\ mutex' = None /\ channel' = None
      /\ UNCHANGED <<session, worker, callback, stub, ending, exitSignal, connects, process, failures, told, heard>>
  BY Moves DEF ConnectFails, At, Goto, Unlock
<1>2. TypeOK'
  BY <1>1 DEF TypeOK, AppPcs
<1>3. \A b \in Apps \ {a} : pc[b] \notin Changing
  BY <1>1, OneEnds DEF Changing
<1>4. Locked'
  BY <1>1, <1>3, OneEnds DEF Locked, Changing
<1>5. Fresh'
  BY <1>1, <1>3 DEF Fresh, TypeOK, Changing
<1>6. Keepers'
  <2>1. worker # None => worker < connects
    BY <1>1, <1>3, Apart DEF Keepers, Fresh, Locked, Changing
  <2> QED
    BY <1>1, <1>3, <2>1 DEF Keepers, Running, Ending, Locked, Changing, TypeOK
<1>7. Reports' /\ Tells'
  BY <1>1 DEF Reports, Tells, TypeOK
<1> QED
  BY <1>2, <1>4, <1>5, <1>6, <1>7

LEMMA LoginOkFirstStep == ASSUME CInv, NEW a \in Apps, LoginOkFirst(a) PROVE CInv'
<1> USE Apart DEF CInv, history
<1>1. /\ pc[a] = "login" /\ worker = None /\ channel \in Gens /\ pc[channel] = "new"
      /\ channel <= connects
      /\ mutex' = None /\ session' = channel /\ worker' = channel
      /\ pc' = [pc EXCEPT ![a] = "idle", ![channel] = "loop"]
      /\ UNCHANGED <<channel, callback, stub, ending, exitSignal, connects, process, failures, told>> /\ heard' = (callback # None)
  BY DEF LoginOkFirst, At, Unlock, Fresh
<1>2. /\ pc'[a] = "idle" /\ pc'[channel] = "loop"
      /\ \A u \in Threads \ {a, channel} : pc'[u] = pc[u]
  BY <1>1 DEF TypeOK
<1>3. /\ \A b \in Apps : ending[b] = None /\ (b # a => pc[b] \notin Changing)
      /\ \A g \in Gens : pc[g] \notin {"rpc", "callback"}
  BY <1>1, OneEnds DEF Changing, Locked
<1>4. TypeOK'
  BY <1>1, <1>2 DEF TypeOK, AppPcs, WorkerPcs
<1>5. Locked'
  BY <1>1, <1>2, <1>3 DEF Locked, Changing
<1>6. Fresh'
  BY <1>1, <1>2, <1>3 DEF Fresh, TypeOK, Changing
<1>7. Keepers'
  BY <1>1, <1>2, <1>3 DEF Keepers, Running, Ending, TypeOK
<1>8. Reports' /\ Tells'
  BY <1>1, <1>2 DEF Reports, Tells, Fresh, TypeOK
<1> QED
  BY <1>4, <1>5, <1>6, <1>7, <1>8

LEMMA LoginOkAgainStep == ASSUME CInv, NEW a \in Apps, LoginOkAgain(a) PROVE CInv'
<1> USE Apart DEF CInv, history
<1>1. /\ pc[a] = "login" /\ worker \in Gens /\ channel \in Gens /\ pc[channel] = "new"
      /\ channel <= connects
      /\ session' = channel /\ worker' = channel
      /\ pc' = [pc EXCEPT ![a] = "stop"]
      /\ ending' = [ending EXCEPT ![a] = worker]
      /\ UNCHANGED <<mutex, channel, callback, stub, exitSignal, connects, process, failures, told>> /\ heard' = (callback # None)
  BY DEF LoginOkAgain, At, Goto, Fresh, TypeOK
<1>2. /\ pc'[a] = "stop" /\ \A u \in Threads \ {a} : pc'[u] = pc[u]
      /\ ending'[a] = worker /\ \A b \in Apps \ {a} : ending'[b] = ending[b]
  BY <1>1 DEF TypeOK
<1>3. /\ \A b \in Apps : ending[b] = None /\ (b # a => pc[b] \notin Changing)
      /\ \A g \in Gens : pc[g] \notin {"rpc", "callback"}
      /\ mutex = a
  BY <1>1, OneEnds DEF Changing, Locked
<1>4. pc[worker] # "new"
  BY <1>1, <1>3 DEF Keepers
<1>5. TypeOK'
  BY <1>1, <1>2 DEF TypeOK, AppPcs
<1>6. Locked'
  BY <1>1, <1>2, <1>3 DEF Locked, Changing
<1>7. Fresh'
  BY <1>1, <1>2, <1>3 DEF Fresh, TypeOK, Changing
<1>8. Keepers'
  BY <1>1, <1>2, <1>3, <1>4 DEF Keepers, Running, Ending, TypeOK, Changing
<1>9. Reports' /\ Tells'
  BY <1>1, <1>2 DEF Reports, Tells, Fresh, TypeOK
<1> QED
  BY <1>5, <1>6, <1>7, <1>8, <1>9

LEMMA DisconnectStep == ASSUME CInv, NEW a \in Apps, Disconnect(a) PROVE CInv'
<1> USE Apart DEF CInv, history
<1>1. /\ pc[a] = "idle" /\ worker \in Gens /\ mutex = None /\ mutex' = a /\ worker' = None
      /\ pc' = [pc EXCEPT ![a] = "stop"]
      /\ ending' = [ending EXCEPT ![a] = worker]
      /\ UNCHANGED <<channel, session, callback, stub, exitSignal, connects, process, failures, told, heard>>
  BY DEF Disconnect, At, Goto, Lock, TypeOK
<1>2. /\ pc'[a] = "stop" /\ \A u \in Threads \ {a} : pc'[u] = pc[u]
      /\ ending'[a] = worker /\ \A b \in Apps \ {a} : ending'[b] = ending[b]
  BY <1>1 DEF TypeOK
<1>3. /\ \A b \in Apps : ending[b] = None /\ pc[b] \notin Changing
      /\ \A g \in Gens : pc[g] \notin {"rpc", "callback"}
  BY <1>1 DEF Changing, Locked
<1>4. pc[worker] # "new"
  BY <1>1, <1>3 DEF Keepers
<1>5. TypeOK'
  BY <1>1, <1>2 DEF TypeOK, AppPcs
<1>6. Locked'
  BY <1>1, <1>2, <1>3 DEF Locked, Changing
<1>7. Fresh'
  BY <1>1, <1>2, <1>3 DEF Fresh, TypeOK
<1>8. Keepers'
  BY <1>1, <1>2, <1>3, <1>4 DEF Keepers, Running, Ending, TypeOK, Changing
<1>9. Reports' /\ Tells'
  BY <1>1, <1>2 DEF Reports, Tells, TypeOK
<1> QED
  BY <1>5, <1>6, <1>7, <1>8, <1>9


LEMMA JoinStep == ASSUME CInv, NEW a \in Apps, Join(a) PROVE CInv'
<1> USE Apart DEF CInv, history
<1>1. /\ pc[a] = "join" /\ ending[a] \in Gens /\ pc[ending[a]] = "done"
      /\ ending' = [ending EXCEPT ![a] = None] /\ mutex' = None
      /\ UNCHANGED <<session, worker, callback, stub, exitSignal, connects, process, failures, told, heard>>
  BY DEF Join, At, Unlock, Locked, TypeOK
<1>2. /\ ending'[a] = None
      /\ \A b \in Apps : b # a => ending'[b] = None /\ ending[b] = None /\ pc[b] \notin Changing
      /\ \A g \in Gens : pc[g] \notin {"rpc", "callback"} /\ (Ending(g) <=> ending[a] = g)
  BY <1>1, OneEnds DEF Changing, TypeOK
<1>3. CASE worker = None
  <2>1. channel' = None /\ pc' = [pc EXCEPT ![a] = "idle"]
    BY <1>3 DEF Join, Goto
  <2>2. pc'[a] = "idle" /\ \A u \in Threads \ {a} : pc'[u] = pc[u]
    BY <2>1 DEF TypeOK
  <2>3. TypeOK'
    BY <1>1, <2>1, <2>2 DEF TypeOK, AppPcs
  <2>4. Locked'
    BY <1>1, <1>2, <2>2 DEF Locked, Changing
  <2>5. Fresh'
    BY <1>1, <1>2, <2>1, <2>2 DEF Fresh, TypeOK, Changing
  <2>6. Keepers'
    BY <1>1, <1>2, <1>3, <2>1, <2>2 DEF Keepers, Running, TypeOK
  <2>7. Reports' /\ Tells'
    BY <1>1, <1>3, <2>2 DEF Reports, Tells, TypeOK
  <2> QED
    BY <2>3, <2>4, <2>5, <2>6, <2>7
<1>4. CASE worker # None
  <2>1. channel' = channel /\ pc' = [pc EXCEPT ![a] = "idle", ![worker] = "loop"] /\ worker \in Gens
    BY <1>4 DEF Join, TypeOK
  <2>2. /\ pc'[a] = "idle" /\ pc'[worker] = "loop"
        /\ \A u \in Threads \ {a, worker} : pc'[u] = pc[u]
    BY <2>1 DEF TypeOK
  <2>3. pc[worker] = "new" /\ channel = worker /\ session = worker
    BY <1>1, <1>4 DEF Keepers
  <2>4. TypeOK'
    BY <1>1, <2>1, <2>2 DEF TypeOK, AppPcs, WorkerPcs
  <2>5. Locked'
    BY <1>1, <1>2, <2>1, <2>2 DEF Locked, Changing
  <2>6. Fresh'
    BY <1>1, <1>2, <2>1, <2>2, <2>3 DEF Fresh, TypeOK, Changing
  <2>7. Keepers'
    BY <1>1, <1>2, <2>1, <2>2, <2>3 DEF Keepers, Running, TypeOK
  <2>8. Reports' /\ Tells'
    BY <1>1, <2>1, <2>2, <2>3 DEF Reports, Tells, Fresh, TypeOK
  <2> QED
    BY <2>4, <2>5, <2>6, <2>7, <2>8
<1> QED
  BY <1>3, <1>4

\* A program thread outside connect() and disconnect(): it sends requests, which
\* disturbs nothing but the stub, or there was no worker to end.
LEMMA OutsideStep ==
    ASSUME CInv, NEW a \in Apps,
           DisconnectIdle(a) \/ SetCallback(a) \/ Exec(a) \/ CreateContext(a) \/ Stub(a)
    PROVE  CInv'
<1> USE Apart DEF CInv, history
<1>1. /\ UNCHANGED <<mutex, session, worker, ending, exitSignal, connects, failures, told>>
      /\ pc[a] \notin Changing /\ pc'[a] \notin Changing
      /\ pc' \in [Threads -> AppPcs \cup WorkerPcs] /\ pc'[a] \in AppPcs
      /\ \A u \in Threads \ {a} : pc'[u] = pc[u]
      /\ process' \in {"running", "aborted"}
  BY DEF DisconnectIdle, SetCallback, Exec, CreateContext, Stub, At, Goto, Abort, Changing, TypeOK,
         AppPcs, threadVars, channelVars
<1>2. channel' = channel \/ (channel' = None /\ mutex = None /\ worker = None)
  BY DEF DisconnectIdle, SetCallback, Exec, CreateContext, Stub, channelVars
<1>3. /\ callback' \in Callbacks \cup {None} /\ told' = told /\ heard' \in BOOLEAN
      /\ heard' => heard /\ (callback' = callback \/ callback' # None)
  <2>1. CASE SetCallback(a)
    BY <2>1 DEF SetCallback, channelVars, TypeOK
  <2>2. CASE DisconnectIdle(a) \/ Exec(a) \/ CreateContext(a) \/ Stub(a)
    BY <2>2 DEF DisconnectIdle, Exec, CreateContext, Stub, channelVars, TypeOK
  <2> QED
    BY <2>1, <2>2
<1>4. stub' = stub \/ (stub' = channel /\ mutex = None /\ channel # None)
  BY DEF DisconnectIdle, SetCallback, Exec, CreateContext, Stub, channelVars
<1>5. mutex = None /\ channel # None => channel \in Gens /\ worker = channel /\ pc[channel] # "new"
  <2> SUFFICES ASSUME mutex = None, channel # None PROVE worker = channel /\ pc[channel] # "new"
    BY DEF TypeOK
  <2>1. \A b \in Apps : pc[b] \notin Changing /\ ending[b] = None
    BY DEF Locked, Changing
  <2> QED
    BY <2>1 DEF Keepers
<1>6. TypeOK'
  BY <1>1, <1>2, <1>3, <1>4, <1>5 DEF TypeOK
<1>7. Locked'
  BY <1>1 DEF Locked, Changing
<1>8. Fresh'
  BY <1>1, <1>2, <1>4, <1>5 DEF Fresh, TypeOK, Changing, Locked
<1>9. Keepers'
  BY <1>1, <1>2 DEF Keepers, Running, Ending, Locked, Changing, TypeOK
<1>10. Reports' /\ Tells'
  BY <1>1, <1>3 DEF Reports, Tells, TypeOK
<1> QED
  BY <1>6, <1>7, <1>8, <1>9, <1>10

\* StoppableWorker::stopRequest, by either thread.
LEMMA StopRequestStep == ASSUME CInv, NEW t \in Threads, StopRequest(t) PROVE CInv'
<1> USE Apart DEF CInv, history
<1>1. /\ UNCHANGED <<mutex, channel, session, worker, callback, stub, exitSignal, ending, connects,
                     process, failures, told, heard>>
      /\ pc[t] = "stop"
      /\ IF Stopped(t) \in exitSignal THEN Continue(t) ELSE Goto(t, "setValue")
  BY DEF StopRequest, At, channelVars
<1>2. CASE t \in Apps
  <2>1. PICK l \in {"join", "setValue"} : Goto(t, l)
    BY <1>1, <1>2 DEF Continue
  <2>2. /\ pc'[t] = l /\ \A u \in Threads \ {t} : pc'[u] = pc[u]
        /\ pc' = [pc EXCEPT ![t] = l]
    BY <2>1, Moves DEF Goto
  <2>3. TypeOK'
    BY <1>1, <1>2, <2>2 DEF TypeOK, AppPcs
  <2>4. Locked' /\ Fresh'
    BY <1>1, <1>2, <2>2 DEF Locked, Fresh, TypeOK, Changing
  <2>5. Keepers'
    BY <1>1, <1>2, <2>2 DEF Keepers, Running, Ending, TypeOK, Changing
  <2>6. Reports' /\ Tells'
    BY <1>1, <1>2, <2>2 DEF Reports, Tells, TypeOK
  <2> QED
    BY <2>3, <2>4, <2>5, <2>6
<1>3. CASE t \in Gens
  <2>1. PICK l : Goto(t, l) /\ (l = "setValue" \/ (l = "loop" /\ t \in exitSignal))
    BY <1>1, <1>3 DEF Continue, Stopped
  <2>2. /\ pc'[t] = l /\ \A u \in Threads \ {t} : pc'[u] = pc[u]
        /\ pc' = [pc EXCEPT ![t] = l]
    BY <2>1, Moves DEF Goto
  <2>3. TypeOK'
    BY <1>1, <1>3, <2>1, <2>2 DEF TypeOK, WorkerPcs
  <2>4. Locked' /\ Fresh'
    BY <1>1, <1>3, <2>1, <2>2 DEF Locked, Fresh, TypeOK, Changing
  <2>5. Keepers'
    BY <1>1, <1>3, <2>1, <2>2 DEF Keepers, Running, Ending, TypeOK
  <2>6. Reports' /\ Tells'
    BY <1>1, <1>3, <2>1, <2>2 DEF Reports, Tells, TypeOK
  <2> QED
    BY <2>3, <2>4, <2>5, <2>6
<1> QED
  BY <1>2, <1>3 DEF Threads

LEMMA SetValueStep == ASSUME CInv, NEW t \in Threads, SetValue(t) PROVE CInv'
<1> USE Apart DEF CInv, history
<1>1. /\ UNCHANGED <<mutex, channel, session, worker, callback, stub, ending, connects, failures, told, heard>>
      /\ pc[t] = "setValue"
  BY DEF SetValue, At, channelVars
<1>2. CASE Stopped(t) \in exitSignal
  <2>1. process' = "aborted" /\ UNCHANGED <<exitSignal, pc>>
    BY <1>2 DEF SetValue, Abort
  <2> QED
    BY <1>1, <2>1 DEF TypeOK, Locked, Fresh, Keepers, Reports, Tells, Running, Ending
<1>3. CASE t \in Apps /\ Stopped(t) \notin exitSignal
  <2>1. /\ exitSignal' = exitSignal \cup {ending[t]} /\ process' = process
        /\ pc' = [pc EXCEPT ![t] = "join"]
    BY <1>3 DEF SetValue, Stopped, Continue, Goto
  <2>2. /\ pc'[t] = "join" /\ \A u \in Threads \ {t} : pc'[u] = pc[u]
        /\ ending[t] \in Gens /\ pc[ending[t]] # "new" /\ ending[t] # worker
    BY <1>1, <1>3, <2>1 DEF TypeOK, Locked, Keepers
  <2>3. TypeOK'
    BY <1>1, <1>3, <2>1, <2>2 DEF TypeOK, AppPcs
  <2>4. Locked' /\ Fresh'
    BY <1>1, <1>3, <2>1, <2>2 DEF Locked, Fresh, TypeOK, Changing
  <2>5. Keepers'
    BY <1>1, <1>3, <2>2 DEF Keepers, Running, Ending, TypeOK, Changing
  <2>6. Reports' /\ Tells'
    BY <1>1, <1>3, <2>1, <2>2 DEF Reports, Tells, TypeOK
  <2> QED
    BY <2>3, <2>4, <2>5, <2>6
<1>4. CASE t \in Gens /\ Stopped(t) \notin exitSignal
  <2>1. /\ exitSignal' = exitSignal \cup {t} /\ process' = process
        /\ pc' = [pc EXCEPT ![t] = "loop"]
    BY <1>4 DEF SetValue, Stopped, Continue, Goto
  <2>2. /\ pc'[t] = "loop" /\ \A u \in Threads \ {t} : pc'[u] = pc[u]
        /\ failures[t] = 1
    BY <1>1, <1>4, <2>1 DEF TypeOK, Reports
  <2>3. TypeOK'
    BY <1>1, <1>4, <2>1, <2>2 DEF TypeOK, WorkerPcs
  <2>4. Locked' /\ Fresh'
    BY <1>1, <1>4, <2>1, <2>2 DEF Locked, Fresh, TypeOK, Changing
  <2>5. Keepers'
    BY <1>1, <1>4, <2>2 DEF Keepers, Running, Ending, TypeOK
  <2>6. Reports' /\ Tells'
    BY <1>1, <1>4, <2>1, <2>2 DEF Reports, Tells, TypeOK
  <2> QED
    BY <2>3, <2>4, <2>5, <2>6
<1> QED
  BY <1>2, <1>3, <1>4 DEF Threads

\* The thread of a keep-alive worker.
LEMMA KeeperStep == ASSUME CInv, NEW g \in Gens, WorkerStep(g) PROVE CInv'
<1> USE Apart DEF CInv, history
<1>1. /\ UNCHANGED <<channel, session, worker, callback, stub, ending, exitSignal, connects>>
      /\ \A u \in Threads \ {g} : pc'[u] = pc[u]
      /\ pc' \in [Threads -> AppPcs \cup WorkerPcs] /\ pc'[g] \in WorkerPcs
      /\ pc[g] # "new" /\ pc'[g] # "new"
      /\ process' \in {"running", "aborted"}
  BY DEF WorkerStep, Loop, KeepAlive, KeepAliveOk, KeepAliveFails, Callback, At, Goto, Abort,
         channelVars, TypeOK, WorkerPcs
<1>2. mutex' \in {mutex, g, None}
  BY DEF WorkerStep, Loop, KeepAlive, KeepAliveOk, KeepAliveFails, Callback, Lock, Unlock
<1>3. TypeOK'
  <2>1. failures' \in [Gens -> Nat] /\ told' \in SUBSET Gens /\ heard' = heard
    BY DEF WorkerStep, Loop, KeepAlive, KeepAliveOk, KeepAliveFails, Callback, TypeOK
  <2> QED
    BY <1>1, <1>2, <2>1 DEF TypeOK
<1>4. Locked'
  <2>1. \/ mutex' = mutex
        \/ mutex = None /\ mutex' = g
        \/ mutex' = None /\ pc[g] \in {"rpc", "callback"} /\ pc'[g] \notin {"rpc", "callback"}
    BY <1>1 DEF WorkerStep, Loop, KeepAlive, KeepAliveOk, KeepAliveFails, Callback, Lock, Unlock,
                At, Goto, TypeOK
  <2>2. pc'[g] \in {"rpc", "callback"} => mutex' = g
    BY DEF WorkerStep, Loop, KeepAlive, KeepAliveOk, KeepAliveFails, Callback, Lock, Unlock,
           At, Goto, TypeOK, Locked
  <2> QED
    BY <1>1, <2>1, <2>2 DEF Locked, Changing
<1>5. Fresh'
  <2>1. \A h \in Gens \ {g} : failures'[h] = failures[h]
    BY DEF WorkerStep, Loop, KeepAlive, KeepAliveOk, KeepAliveFails, Callback, TypeOK
  <2> QED
    BY <1>1, <2>1 DEF Fresh, TypeOK
<1>6. Keepers'
  <2>1. Running(g)
    BY <1>1 DEF Running, WorkerStep, Loop, KeepAlive, KeepAliveOk, KeepAliveFails, Callback, At
  <2> QED
    BY <1>1, <2>1 DEF Keepers, Running, Ending, TypeOK
<1>7. Reports' /\ Tells'
  <2>1. ASSUME Loop(g) PROVE Reports' /\ Tells'
    <3>1. /\ failures' = failures /\ told' = told /\ heard' = heard /\ pc[g] = "loop"
          /\ pc'[g] = IF g \in exitSignal THEN "done" ELSE "lock"
      BY <2>1 DEF Loop, At, Goto, TypeOK
    <3> QED
      BY <1>1, <3>1 DEF Reports, Tells, TypeOK
  <2>2. ASSUME KeepAlive(g) \/ KeepAliveOk(g) PROVE Reports' /\ Tells'
    <3>1. /\ failures' = failures /\ told' = told /\ heard' = heard /\ pc[g] \in {"lock", "rpc"}
          /\ pc'[g] \in {"lock", "rpc", "loop"}
      BY <2>2 DEF KeepAlive, KeepAliveOk, At, Goto, TypeOK
    <3> QED
      BY <1>1, <3>1 DEF Reports, Tells, TypeOK
  <2>3. ASSUME KeepAliveFails(g) PROVE Reports' /\ Tells'
    <3>1. /\ pc[g] = "rpc" /\ pc'[g] = "callback" /\ told' = told /\ heard' = heard
          /\ failures'[g] = failures[g] + 1 /\ \A h \in Gens \ {g} : failures'[h] = failures[h]
          /\ failures[g] \in Nat
      BY <2>3 DEF KeepAliveFails, At, Goto, TypeOK
    <3>2. failures[g] = 0
      BY <3>1 DEF Reports, Tells
    <3> QED
      BY <1>1, <3>1, <3>2 DEF Reports, Tells, TypeOK
  <2>4. ASSUME Callback(g) PROVE Reports' /\ Tells'
    <3>1. /\ failures' = failures /\ heard' = heard /\ pc[g] = "callback" /\ pc'[g] = "stop"
          /\ told' = IF callback = None THEN told ELSE told \cup {g}
      BY <2>4 DEF Callback, At, Goto, TypeOK
    <3> QED
      BY <1>1, <3>1 DEF Reports, Tells, TypeOK
  <2> QED
    BY <2>1, <2>2, <2>3, <2>4 DEF WorkerStep
<1> QED
  BY <1>3, <1>4, <1>5, <1>6, <1>7

\* The inductive invariant, for any threads, callbacks and number of connects.
THEOREM ClientInductive == Spec => []CInv
<1>1. Init => CInv
  BY CInit
<1>2. CInv /\ [Next]_vars => CInv'
  <2> SUFFICES ASSUME CInv, [Next]_vars PROVE CInv'
    OBVIOUS
  <2>1. ASSUME NEW a \in Apps, AppStep(a) PROVE CInv'
    BY <2>1, ConnectStep, ConnectFailsStep, LoginOkFirstStep, LoginOkAgainStep, DisconnectStep,
       JoinStep, OutsideStep DEF AppStep
  <2>2. CASE UNCHANGED vars
    BY <2>2 DEF vars, history, channelVars, threadVars, CInv, TypeOK, Locked, Fresh, Keepers, Reports, Tells,
                Running, Ending
  <2> QED
    BY <2>1, <2>2, KeeperStep, StopRequestStep, SetValueStep DEF Next
<1> QED
  BY <1>1, <1>2, PTL DEF Spec

\* Every variable keeps its type.
THEOREM ClientTypes == Spec => []TypeOK
<1>1. CInv => TypeOK
  BY DEF CInv
<1> QED
  BY <1>1, ClientInductive, PTL

\* Two keep-alive threads never run at once, whatever connects, reconnects and
\* disconnects any number of threads mix.
THEOREM OneKeeperRuns == Spec => []OneKeeper
<1>1. CInv => OneKeeper
  <2> SUFFICES ASSUME CInv, NEW g \in Gens, NEW h \in Gens, Running(g), Running(h) PROVE g = h
    BY DEF OneKeeper
  <2>1. \A a, b \in Apps : ending[a] # None /\ ending[b] # None => a = b
    BY Apart DEF CInv, Locked, Changing
  <2>2. (g = worker \/ Ending(g)) /\ (h = worker \/ Ending(h))
    BY DEF CInv, Keepers
  <2>3. \A k \in Gens : Ending(k) /\ worker # None => pc[worker] = "new"
    BY Apart DEF CInv, Keepers, Ending
  <2>4. g # worker /\ h # worker => g = h
    BY <2>1, <2>2, Apart DEF Ending
  <2> QED
    BY <2>2, <2>3, <2>4, Apart DEF Running
<1> QED
  BY <1>1, ClientInductive, PTL

\* While nobody changes the connection, a channel has its own session and its own
\* worker, which runs or whose failure the callback was told, if there has been one
\* ever since the login.
THEOREM ChannelIsKept == Spec => []ConnectedMeansKept
<1>1. CInv => ConnectedMeansKept
  <2> SUFFICES ASSUME CInv, mutex = None, channel # None
               PROVE  /\ session = channel /\ worker = channel
                      /\ Running(channel) \/ channel \in told \/ ~heard
    BY DEF ConnectedMeansKept
  <2>1. \A a \in Apps : pc[a] \notin Changing /\ ending[a] = None
    BY Apart DEF CInv, Locked, Changing
  <2>2. session = channel /\ worker = channel /\ channel \in Gens /\ pc[channel] # "new"
    BY <2>1 DEF CInv, Keepers, TypeOK
  <2>3. pc[channel] = "done" => failures[channel] = 1
    BY <2>2, Apart DEF CInv, Reports
  <2>4. pc[channel] = "done" => channel \in told \/ ~heard
    BY <2>2, <2>3 DEF CInv, Tells
  <2> QED
    BY <2>2, <2>4 DEF Running
<1> QED
  BY <1>1, ClientInductive, PTL

\* A running worker is without a channel only when a later connect() has failed.
THEOREM ChannelIsTakenByReconnect == Spec => []OnlyReconnectTakesChannel
<1>1. CInv => OnlyReconnectTakesChannel
  <2> SUFFICES ASSUME CInv, mutex = None, channel = None, NEW g \in Gens, Running(g)
               PROVE  g = worker /\ g < connects
    BY DEF OnlyReconnectTakesChannel
  <2>1. \A a \in Apps : ending[a] = None
    BY Apart DEF CInv, Locked, Changing
  <2>2. g = worker
    BY <2>1, Apart DEF CInv, Keepers, Ending
  <2> QED
    BY <2>2, Apart DEF CInv, Keepers
<1> QED
  BY <1>1, ClientInductive, PTL

\* A worker meets one failure at most.
THEOREM OneReport == Spec => []ReportedOnce
<1>1. CInv => ReportedOnce
  BY DEF CInv, Reports, ReportedOnce
<1> QED
  BY <1>1, ClientInductive, PTL

\* The stub is never made from a channel that is not logged in.
THEOREM StubIsLoggedIn == Spec => []StubLoggedIn
<1>1. CInv => StubLoggedIn
  BY DEF CInv, Fresh, StubLoggedIn
<1> QED
  BY <1>1, ClientInductive, PTL

==============================================================================
