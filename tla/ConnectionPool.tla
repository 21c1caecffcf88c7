--------------------------- MODULE ConnectionPool ---------------------------
(***************************************************************************)
(* sql::ConnectionPool with its PostgreSQL plugin: idle connections wait   *)
(* in one queue per connection type (host, database, login, ...), a query  *)
(* takes one out or opens a new one, and the deleter of its shared_ptr     *)
(* brings it back.  The mutex covers only the look-up, the push and clear; *)
(* opening, the shutdown flag and isOpen are read outside it, so each of   *)
(* these is a step of its own here.                                        *)
(*                                                                         *)
(* The threads are the request workers and Main, the thread of main.cpp,   *)
(* which configures the pool before the server starts, may clear it at any *)
(* time ('c' on the console) and shuts it down after the workers ended.    *)
(* libpq is external: a link may break at any time, and PQstatus, which    *)
(* isOpen reads, notices only when a query fails.                          *)
(***************************************************************************)
EXTENDS Naturals, Sequences, SequencesExt

CONSTANTS
    Workers,    \* threads that run queries
    Main,       \* the thread of main()
    Keys,       \* connection types, the results of createKey
    Conns,      \* connections the database server admits at a time
    Capacity,   \* constructor argument: largest queue per key
    None

Threads == Workers \cup {Main}

ASSUME CapacityAssumption == Capacity \in Nat
ASSUME MainAssumption == Main \notin Workers
ASSUME NoneAssumption == None \notin Keys \cup Conns

VARIABLES
    entries,    \* keys present in the map _connections
    queue,      \* the queue of idle connections of each key
    conn,       \* the Connection objects
    isShutdown, \* the static flag _is_shutdown
    options,    \* the key of _host, _port, ..., as setConnectionOptions left it
    pc,         \* where each thread is
    asked,      \* the key a thread asks getConnection for
    held,       \* the connection a thread's shared_ptr owns
    mainPc,     \* where main() is
    process     \* "running" until an assert aborts it or its behaviour is undefined

poolVars   == <<entries, queue, isShutdown, options>>
threadVars == <<pc, asked, held>>
vars == <<poolVars, conn, threadVars, mainPc, process>>

\* A Connection object: whether it exists, its key, the state of its link, and
\* what PQstatus says of it.
Connection == [open : BOOLEAN, key : Keys \cup {None},
               link : {"up", "down"}, status : {"OK", "BAD"}]

Closed == [open |-> FALSE, key |-> None, link |-> "down", status |-> "BAD"]

\* One type invariant: a map of queues, connection objects with the status
\* libpq reports, and the program points of the threads.
TypeOK ==
    /\ entries \in SUBSET Keys
    /\ queue \in [Keys -> Seq(Conns)]
    /\ conn \in [Conns -> Connection]
    /\ isShutdown \in BOOLEAN
    /\ options \in Keys \cup {None}
    /\ pc \in [Threads -> {"idle", "lookup", "create", "using", "deleter", "free", "push"}]
    /\ asked \in [Threads -> Keys \cup {None}]
    /\ held \in [Threads -> Conns \cup {None}]
    /\ mainPc \in {"configuring", "serving", "stopped", "shutdown", "destroyed"}
    /\ process \in {"running", "aborted", "undefined"}

Init ==
    /\ entries = {}
    /\ queue = [k \in Keys |-> << >>]
    /\ conn = [c \in Conns |-> Closed]
    /\ isShutdown = FALSE
    /\ options = None
    /\ pc = [t \in Threads |-> "idle"]
    /\ asked = [t \in Threads |-> None]
    /\ held = [t \in Threads |-> None]
    /\ mainPc = "configuring"
    /\ process = "running"

At(t, label)   == process = "running" /\ pc[t] = label
MainAt(label)  == process = "running" /\ mainPc = label
Goto(t, label) == pc' = [pc EXCEPT ![t] = label]
Pooled == UNION {ToSet(queue[k]) : k \in Keys}

-----------------------------------------------------------------------------
\* getConnection

\* assert(!_is_shutdown), then the key of the type asked for.
GetConnection(t, k) ==
    /\ At(t, "idle")
    /\ IF isShutdown
       THEN process' = "aborted" /\ UNCHANGED threadVars
       ELSE /\ Goto(t, "lookup")
            /\ asked' = [asked EXCEPT ![t] = k]
            /\ UNCHANGED <<held, process>>

\* getQuery: a worker asks for a connection with the pool's options.
GetQuery(t) ==
    /\ MainAt("serving")
    /\ t \in Workers
    /\ GetConnection(t, options)
    /\ UNCHANGED <<poolVars, conn, mainPc>>

\* The locked look-up.  front() and pop() are called on whatever queue the key
\* has: on an empty one the behaviour is undefined.
LookupEmpty(t) ==
    /\ At(t, "lookup")
    /\ asked[t] \in entries
    /\ queue[asked[t]] = << >>
    /\ process' = "undefined"
    /\ UNCHANGED <<poolVars, conn, threadVars, mainPc>>

\* Mutant of LookupHit: front() without pop().
LookupHit_NoPop(t) ==
    /\ At(t, "lookup")
    /\ asked[t] \in entries
    /\ queue[asked[t]] # << >>
    /\ held' = [held EXCEPT ![t] = Head(queue[asked[t]])]
    /\ Goto(t, "using")
    /\ UNCHANGED <<conn, poolVars, asked, mainPc, process>>

LookupHit(t) ==
    /\ At(t, "lookup")
    /\ asked[t] \in entries
    /\ queue[asked[t]] # << >>
    /\ held' = [held EXCEPT ![t] = Head(queue[asked[t]])]
    /\ queue' = [queue EXCEPT ![asked[t]] = Tail(@)]
    /\ entries' = IF Len(queue[asked[t]]) = 1 THEN entries \ {asked[t]} ELSE entries
    /\ Goto(t, "using")
    /\ UNCHANGED <<conn, isShutdown, options, asked, mainPc, process>>

LookupMiss(t) ==
    /\ At(t, "lookup")
    /\ asked[t] \notin entries
    /\ Goto(t, "create")
    /\ UNCHANGED <<poolVars, conn, asked, held, mainPc, process>>

\* createConnection outside the lock, then connection->error(): PQconnectdb
\* yields an open connection, or one in error that is deleted at once.
CreateConnection(t) ==
    /\ At(t, "create")
    /\ \E c \in Conns :
        /\ ~conn[c].open
        /\ conn' = [conn EXCEPT ![c] = [open |-> TRUE, key |-> asked[t],
                                        link |-> "up", status |-> "OK"]]
        /\ held' = [held EXCEPT ![t] = c]
    /\ Goto(t, "using")
    /\ UNCHANGED <<poolVars, asked, mainPc, process>>

CreateFails(t) ==
    /\ At(t, "create")
    /\ Goto(t, "idle")
    /\ asked' = [asked EXCEPT ![t] = None]
    /\ UNCHANGED <<poolVars, conn, held, mainPc, process>>

\* PsqlQuery::doExec of a worker, once per query; afterwards query and shared_ptr
\* are destroyed.  Only here does libpq find out that the link is broken.
Exec(t) ==
    /\ At(t, "using")
    /\ t \in Workers
    /\ conn' = [conn EXCEPT ![held[t]].status = IF conn[held[t]].link = "up" THEN @ ELSE "BAD"]
    /\ Goto(t, "deleter")
    /\ UNCHANGED <<poolVars, asked, held, mainPc, process>>

-----------------------------------------------------------------------------
\* The deleter of the shared_ptr and freeConnection

Released(t) ==
    /\ Goto(t, "idle")
    /\ asked' = [asked EXCEPT ![t] = None]
    /\ held' = [held EXCEPT ![t] = None]

DeleteConnection(t) ==
    /\ conn' = [conn EXCEPT ![held[t]] = Closed]
    /\ Released(t)

\* The custom deleter reads the shutdown flag.
Deleter(t) ==
    /\ At(t, "deleter")
    /\ IF isShutdown
       THEN DeleteConnection(t)
       ELSE Goto(t, "free") /\ UNCHANGED <<conn, asked, held>>
    /\ UNCHANGED <<poolVars, mainPc, process>>

\* Mutant of FreeConnection: the test of isOpen is missing.
FreeConnection_NoIsOpen(t) ==
    /\ At(t, "free")
    /\ IF isShutdown
       THEN process' = "aborted" /\ UNCHANGED <<conn, threadVars>>
       ELSE Goto(t, "push") /\ UNCHANGED <<conn, asked, held, process>>
    /\ UNCHANGED <<poolVars, mainPc>>

\* assert(!_is_shutdown) and `if (!c->isOpen())`, both before the lock.
FreeConnection(t) ==
    /\ At(t, "free")
    /\ IF isShutdown
       THEN process' = "aborted" /\ UNCHANGED <<conn, threadVars>>
       ELSE /\ IF conn[held[t]].status = "OK"
               THEN Goto(t, "push") /\ UNCHANGED <<conn, asked, held>>
               ELSE DeleteConnection(t)
            /\ UNCHANGED process
    /\ UNCHANGED <<poolVars, mainPc>>

\* Mutant of Push: room is tested with <= instead of <.
Push_OffByOne(t) ==
    /\ At(t, "push")
    /\ LET k == conn[held[t]].key IN
        IF k \in entries /\ Len(queue[k]) > Capacity
        THEN DeleteConnection(t) /\ UNCHANGED <<entries, queue>>
        ELSE /\ queue' = [queue EXCEPT ![k] = Append(@, held[t])]
             /\ entries' = entries \cup {k}
             /\ Released(t)
             /\ UNCHANGED conn
    /\ UNCHANGED <<isShutdown, options, mainPc, process>>

\* Mutant of Push: the pointer is reset before it is pushed.
Push_Null(t) ==
    /\ At(t, "push")
    /\ LET k == conn[held[t]].key IN
        /\ queue' = [queue EXCEPT ![k] = Append(@, None)]
        /\ entries' = entries \cup {k}
    /\ Released(t)
    /\ UNCHANGED <<conn, isShutdown, options, mainPc, process>>

\* The locked part: push to the queue of the connection's own key while it has
\* room, delete when it is full; the first connection of a key makes the queue.
Push(t) ==
    /\ At(t, "push")
    /\ LET k == conn[held[t]].key IN
        IF k \in entries /\ Len(queue[k]) >= Capacity
        THEN DeleteConnection(t) /\ UNCHANGED <<entries, queue>>
        ELSE /\ queue' = [queue EXCEPT ![k] = Append(@, held[t])]
             /\ entries' = entries \cup {k}
             /\ Released(t)
             /\ UNCHANGED conn
    /\ UNCHANGED <<isShutdown, options, mainPc, process>>

-----------------------------------------------------------------------------
\* Main

\* clear(): every idle connection is deleted.  The map entries stay, with empty
\* queues.
ClearPool ==
    /\ conn' = [c \in Conns |-> IF c \in Pooled THEN Closed ELSE conn[c]]
    /\ queue' = [k \in Keys |-> << >>]

\* 'c' on the console while the server runs.
Clear ==
    /\ MainAt("serving")
    /\ At(Main, "idle")
    /\ ClearPool
    /\ UNCHANGED <<entries, isShutdown, options, threadVars, mainPc, process>>

\* setConnectionOptions(k), called before work with queries begins: clear(),
\* then a test connection ...
SetConnectionOptions(k) ==
    /\ MainAt("configuring")
    /\ ClearPool
    /\ GetConnection(Main, k)
    /\ UNCHANGED <<entries, isShutdown, options, mainPc>>

\* ... and, if it could be had, the options are kept and it goes to the pool.
StoreOptions ==
    /\ At(Main, "using")
    /\ options' = asked[Main]
    /\ Goto(Main, "deleter")
    /\ UNCHANGED <<entries, queue, isShutdown, conn, asked, held, mainPc, process>>

\* background.start() and server.start() of main(), which exits instead when
\* the options could not be set.
StartServer ==
    /\ MainAt("configuring")
    /\ At(Main, "idle")
    /\ mainPc' = IF options # None THEN "serving" ELSE "stopped"
    /\ UNCHANGED <<poolVars, conn, threadVars, process>>

\* Mutant of StopServer: main() goes on before the workers have ended.
StopServer_NoJoin ==
    /\ MainAt("serving")
    /\ pc[Main] = "idle"
    /\ mainPc' = "stopped"
    /\ UNCHANGED <<poolVars, conn, threadVars, process>>

\* server.stop() has joined the worker threads.
StopServer ==
    /\ MainAt("serving")
    /\ \A t \in Threads : pc[t] = "idle"
    /\ mainPc' = "stopped"
    /\ UNCHANGED <<poolVars, conn, threadVars, process>>

\* ~HrsServiceFactory() calls shutdown() ...
Shutdown ==
    /\ MainAt("stopped")
    /\ mainPc' = "shutdown"
    /\ isShutdown' = TRUE
    /\ UNCHANGED <<entries, queue, options, conn, threadVars, process>>

\* Mutant of Destroy: the destructor does not clear.
Destroy_NoClear ==
    /\ MainAt("shutdown")
    /\ mainPc' = "destroyed"
    /\ UNCHANGED <<poolVars, conn, threadVars, process>>

\* ... and destroys its pool, whose destructor clears it.
Destroy ==
    /\ MainAt("shutdown")
    /\ mainPc' = "destroyed"
    /\ ClearPool
    /\ UNCHANGED <<entries, isShutdown, options, threadVars, process>>

-----------------------------------------------------------------------------
\* The network and the database server (external): an open link breaks.
Break(c) ==
    /\ process = "running"
    /\ conn[c].open
    /\ conn[c].link = "up"
    /\ conn' = [conn EXCEPT ![c].link = "down"]
    /\ UNCHANGED <<poolVars, threadVars, mainPc, process>>

ThreadStep(t) ==
    \/ GetQuery(t)
    \/ LookupEmpty(t) \/ LookupHit(t) \/ LookupMiss(t)
    \/ CreateConnection(t) \/ CreateFails(t) \/ Exec(t)
    \/ Deleter(t) \/ FreeConnection(t) \/ Push(t)

MainStep ==
    \/ Clear \/ StoreOptions \/ StartServer \/ StopServer \/ Shutdown \/ Destroy
    \/ \E k \in Keys : SetConnectionOptions(k)

\* Nothing is said of the steps after an abort or undefined behaviour.
Terminated ==
    /\ process # "running" \/ mainPc = "destroyed"
    /\ UNCHANGED vars

Next ==
    \/ \E t \in Threads : ThreadStep(t)
    \/ MainStep
    \/ \E c \in Conns : Break(c)
    \/ Terminated

Spec == Init /\ [][Next]_vars

-----------------------------------------------------------------------------
\* Properties

\* Every open connection is in exactly one place, one position of one queue or
\* the shared_ptr of one thread, and no place refers to a deleted one: two
\* queries never share a connection, and none is leaked, deleted twice or used
\* after its deletion.
OnePlace ==
    /\ \A s, t \in Threads : s # t /\ held[s] # None => held[s] # held[t]
    /\ \A t \in Threads : held[t] \notin Pooled
    /\ \A k \in Keys : \A i, j \in DOMAIN queue[k] : queue[k][i] = queue[k][j] => i = j
    /\ \A k, l \in Keys : k # l => ToSet(queue[k]) \cap ToSet(queue[l]) = {}
    /\ \A c \in Conns : conn[c].open <=> c \in Pooled \/ \E t \in Threads : held[t] = c

\* The constructor's promise: at most Capacity idle connections of each type.
CapacityRespected == \A k \in Keys : Len(queue[k]) <= Capacity

\* A connection found broken is never handed out again, so one broken link
\* costs at most one query.
BrokenNotPooled == \A c \in Pooled : conn[c].status = "OK"

\* No assert of getConnection or freeConnection fails, given that main() shuts
\* the pool down after it has joined the threads that use it.
AssertionsHold == process # "aborted"

\* When the pool is destroyed every connection it opened has been closed.
AllClosedAtEnd == mainPc = "destroyed" => \A c \in Conns : ~conn[c].open

\* getConnection takes a connection from the pool or creates one where needed,
\* and clear() just empties the pool: no legal sequence of these calls leads
\* to undefined behaviour.
AlwaysDefined == process # "undefined"

\* The pool keeps the promise of ConnectionLease.  The order of the queues, the
\* capacity, broken links and the steps between the critical sections of
\* getConnection and freeConnection do not show: each step of any thread is one
\* transfer of one connection between idle, lent and closed, or none.
Lease == INSTANCE ConnectionLease WITH
            Users <- Threads,
            idle  <- [k \in Keys |-> ToSet(queue[k])],
            lent  <- held,
            wish  <- asked

LeaseKept == Lease!Spec
=============================================================================
