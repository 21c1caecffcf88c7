------------------------ MODULE ConnectionPoolProofs ------------------------
(***************************************************************************)
(* Theorems of ConnectionPool.  The invariant IInv says of each position of*)
(* each queue and of each thread what the properties say of sets:          *)
(* Control ties a thread's locals and the life of main() to the program    *)
(* points, Apart says that no connection is in two places, Accounted that  *)
(* exactly the open ones are in some place, and Fit what is known of a     *)
(* connection in a place.                                                  *)
(*                                                                         *)
(* ConnectionPool implements ConnectionLease.  The initial states are the  *)
(* same seen from outside; LookupHit lends, CreateConnection opens, Push   *)
(* and the deletions return, clear() closes what is idle, getConnection    *)
(* asks, and every other step is a stutter.  That a queue without its head *)
(* is its set without one element, that a new object is nobody else's and  *)
(* that a connection returns under the type it was asked for are three     *)
(* parts of IInv: Apart, Accounted and Fit.                                *)
(***************************************************************************)
EXTENDS ConnectionPool, SequenceTheorems, TLAPS

Holding == {"using", "deleter", "free", "push"}

\* The positions of the queue of k.
Slots(k) == 1 .. Len(queue[k])

\* The locals of a thread at each program point, and the order main() imposes:
\* nobody uses the pool before it is configured or after the workers were joined.
Control ==
    /\ \A t \in Threads :
        /\ pc[t] \in Holding <=> held[t] # None
        /\ pc[t] # "idle" => asked[t] \in Keys
        /\ pc[t] # "idle" => mainPc \in {"configuring", "serving"}
        /\ mainPc = "configuring" /\ pc[t] # "idle" => t = Main
        /\ mainPc = "serving" => pc[Main] = "idle"
    /\ mainPc = "serving" => options \in Keys
    /\ isShutdown => mainPc \in {"shutdown", "destroyed"}
    /\ process # "aborted"

\* No connection is in two places.
Apart ==
    /\ \A k, l \in Keys : \A i \in Slots(k), j \in Slots(l) :
         queue[k][i] = queue[l][j] => k = l /\ i = j
    /\ \A t \in Threads : \A k \in Keys : \A i \in Slots(k) : queue[k][i] # held[t]
    /\ \A s, t \in Threads : s # t /\ held[s] # None => held[s] # held[t]

Somewhere(c) ==
    \/ \E k \in Keys : \E i \in Slots(k) : queue[k][i] = c
    \/ \E t \in Threads : held[t] = c

\* The connections in a place are the open ones.
Accounted == \A c \in Conns : conn[c].open <=> Somewhere(c)

\* What holds of a connection in a queue or in a thread's hands.
Fit ==
    /\ \A k \in Keys : \A i \in Slots(k) :
         conn[queue[k][i]].key = k /\ conn[queue[k][i]].status = "OK"
    /\ \A t \in Threads : held[t] # None => conn[held[t]].key = asked[t]
    /\ \A t \in Threads : pc[t] = "push" => conn[held[t]].status = "OK"
    /\ \A k \in Keys : queue[k] # << >> => k \in entries

AtDestruction == mainPc = "destroyed" => \A k \in Keys : queue[k] = << >>

IInv == TypeOK /\ Control /\ Apart /\ Accounted /\ Fit /\ AtDestruction

\* Thread and connection names are never None, nor is a key.
LEMMA Distinct == None \notin Keys /\ None \notin Conns /\ Main \in Threads /\ Workers \subseteq Threads
BY NoneAssumption DEF Threads

\* A thread in the middle of a use has a connection and asked for a key.
LEMMA InUse ==
    ASSUME IInv, NEW t \in Threads, pc[t] # "idle"
    PROVE  asked[t] \in Keys /\ (pc[t] \in Holding => held[t] \in Conns)
BY Distinct DEF IInv, TypeOK, Control

\* Opening, closing, querying and breaking keep the objects well formed.
LEMMA ConnTyped ==
    ASSUME conn \in [Conns -> Connection], NEW c \in Conns
    PROVE  /\ Closed \in Connection
           /\ [conn EXCEPT ![c] = Closed] \in [Conns -> Connection]
           /\ \A s \in {"OK", "BAD"} : [conn EXCEPT ![c].status = s] \in [Conns -> Connection]
           /\ [conn EXCEPT ![c].link = "down"] \in [Conns -> Connection]
           /\ \A k \in Keys : [conn EXCEPT ![c] = [open |-> TRUE, key |-> k,
                 link |-> "up", status |-> "OK"]] \in [Conns -> Connection]
<1>1. Closed \in Connection
  BY DEF Closed, Connection
<1>2. \A s \in {"OK", "BAD"} : [conn EXCEPT ![c].status = s] \in [Conns -> Connection]
  BY DEF Connection
<1>3. [conn EXCEPT ![c].link = "down"] \in [Conns -> Connection]
  BY DEF Connection
<1>4. \A k \in Keys : [open |-> TRUE, key |-> k, link |-> "up", status |-> "OK"] \in Connection
  BY DEF Connection
<1> QED
  BY <1>1, <1>2, <1>3, <1>4

\* The status and the key of a well-formed connection object.
LEMMA StatusKnown ==
    ASSUME conn \in [Conns -> Connection], NEW c \in Conns
    PROVE  conn[c].status \in {"OK", "BAD"} /\ conn[c].key \in Keys \cup {None}
BY DEF Connection

\* A sequence keeps its type when its head is taken or an element is added.
LEMMA QueueTyped ==
    ASSUME queue \in [Keys -> Seq(Conns)], NEW k \in Keys, NEW c \in Conns
    PROVE  /\ [queue EXCEPT ![k] = Append(@, c)] \in [Keys -> Seq(Conns)]
           /\ queue[k] # << >> =>
                /\ Head(queue[k]) \in Conns
                /\ [queue EXCEPT ![k] = Tail(@)] \in [Keys -> Seq(Conns)]
BY DEF Slots

\* Every step keeps the types.
LEMMA TypeStep == IInv /\ [Next]_vars => TypeOK'
<1> SUFFICES ASSUME IInv, [Next]_vars PROVE TypeOK'
  OBVIOUS
<1> USE Distinct DEF IInv, TypeOK, poolVars, threadVars
<1>1. ASSUME NEW t \in Threads, GetQuery(t) PROVE TypeOK'
  <2>1. options \in Keys
    BY <1>1 DEF GetQuery, MainAt, Control
  <2> QED
    BY <1>1, <2>1 DEF GetQuery, GetConnection, At, MainAt, Goto
<1>2. ASSUME NEW t \in Threads, LookupEmpty(t) PROVE TypeOK'
  BY <1>2 DEF LookupEmpty, At
<1>3. ASSUME NEW t \in Threads, LookupHit(t) PROVE TypeOK'
  <2>1. asked[t] \in Keys
    BY <1>3 DEF LookupHit
  <2>2. Head(queue[asked[t]]) \in Conns /\ queue' \in [Keys -> Seq(Conns)]
    BY <1>3, <2>1, QueueTyped DEF LookupHit
  <2> QED
    BY <1>3, <2>2 DEF LookupHit, At, Goto
<1>4. ASSUME NEW t \in Threads, LookupMiss(t) PROVE TypeOK'
  BY <1>4 DEF LookupMiss, At, Goto
<1>5. ASSUME NEW t \in Threads, CreateConnection(t) PROVE TypeOK'
  <2>1. asked[t] \in Keys
    BY <1>5, InUse DEF CreateConnection, At
  <2>2. PICK c \in Conns : /\ conn' = [conn EXCEPT ![c] = [open |-> TRUE, key |-> asked[t],
                                        link |-> "up", status |-> "OK"]]
                           /\ held' = [held EXCEPT ![t] = c]
    BY <1>5 DEF CreateConnection
  <2>3. conn' \in [Conns -> Connection]
    BY <2>1, <2>2, ConnTyped
  <2> QED
    BY <1>5, <2>2, <2>3 DEF CreateConnection, At, Goto
<1>6. ASSUME NEW t \in Threads, CreateFails(t) PROVE TypeOK'
  BY <1>6 DEF CreateFails, At, Goto
<1>7. ASSUME NEW t \in Threads, Exec(t) PROVE TypeOK'
  <2>1. held[t] \in Conns
    BY <1>7, InUse DEF Exec, At, Holding
  <2>2. (IF conn[held[t]].link = "up" THEN conn[held[t]].status ELSE "BAD") \in {"OK", "BAD"}
    BY <2>1, StatusKnown
  <2>3. conn' \in [Conns -> Connection]
    BY <1>7, <2>1, <2>2, ConnTyped DEF Exec
  <2> QED
    BY <1>7, <2>3 DEF Exec, At, Goto
<1>8. ASSUME NEW t \in Threads, Deleter(t) PROVE TypeOK'
  <2>1. held[t] \in Conns
    BY <1>8, InUse DEF Deleter, At, Holding
  <2>2. conn' \in [Conns -> Connection]
    BY <1>8, <2>1, ConnTyped DEF Deleter, DeleteConnection
  <2> QED
    BY <1>8, <2>2 DEF Deleter, DeleteConnection, Released, At, Goto
<1>9. ASSUME NEW t \in Threads, FreeConnection(t) PROVE TypeOK'
  <2>1. held[t] \in Conns
    BY <1>9, InUse DEF FreeConnection, At, Holding
  <2>2. conn' \in [Conns -> Connection]
    BY <1>9, <2>1, ConnTyped DEF FreeConnection, DeleteConnection
  <2> QED
    BY <1>9, <2>2 DEF FreeConnection, DeleteConnection, Released, At, Goto
<1>10. ASSUME NEW t \in Threads, Push(t) PROVE TypeOK'
  <2>1. held[t] \in Conns /\ asked[t] \in Keys
    BY <1>10, InUse DEF Push, At, Holding
  <2>2. conn[held[t]].key = asked[t]
    BY <2>1, Distinct DEF IInv, Fit
  <2>3. conn' \in [Conns -> Connection]
    BY <1>10, <2>1, ConnTyped DEF Push, DeleteConnection
  <2>4. [queue EXCEPT ![asked[t]] = Append(@, held[t])] \in [Keys -> Seq(Conns)]
    BY <2>1, QueueTyped
  <2>5. queue' \in [Keys -> Seq(Conns)] /\ entries' \in SUBSET Keys
    BY <1>10, <2>1, <2>2, <2>4 DEF Push
  <2> QED
    BY <1>10, <2>3, <2>5 DEF Push, DeleteConnection, Released, At, Goto
<1>11. CASE Clear
  <2>1. conn' \in [Conns -> Connection]
    BY <1>11, ConnTyped DEF Clear, ClearPool
  <2> QED
    BY <1>11, <2>1 DEF Clear, ClearPool, At, MainAt
<1>12. CASE StoreOptions
  BY <1>12 DEF StoreOptions, At, Goto
<1>13. CASE StartServer
  BY <1>13 DEF StartServer, At, MainAt
<1>14. CASE StopServer
  BY <1>14 DEF StopServer, MainAt
<1>15. CASE Shutdown
  BY <1>15 DEF Shutdown, MainAt
<1>16. CASE Destroy
  <2>1. conn' \in [Conns -> Connection]
    BY <1>16, ConnTyped DEF Destroy, ClearPool
  <2> QED
    BY <1>16, <2>1 DEF Destroy, ClearPool, MainAt
<1>17. ASSUME NEW k \in Keys, SetConnectionOptions(k) PROVE TypeOK'
  <2>1. conn' \in [Conns -> Connection]
    BY <1>17, ConnTyped DEF SetConnectionOptions, ClearPool
  <2>2. queue' \in [Keys -> Seq(Conns)]
    BY <1>17 DEF SetConnectionOptions, ClearPool
  <2>3. /\ pc' \in [Threads -> {"idle", "lookup", "create", "using", "deleter", "free", "push"}]
        /\ asked' \in [Threads -> Keys \cup {None}]
        /\ held' = held /\ process' \in {"running", "aborted", "undefined"}
    BY <1>17 DEF SetConnectionOptions, GetConnection, Goto
  <2> QED
    BY <1>17, <2>1, <2>2, <2>3 DEF SetConnectionOptions
<1>18. ASSUME NEW c \in Conns, Break(c) PROVE TypeOK'
  BY <1>18, ConnTyped DEF Break
<1>19. CASE UNCHANGED vars
  BY <1>19 DEF vars, poolVars, threadVars
<1> QED
  BY <1>1, <1>2, <1>3, <1>4, <1>5, <1>6, <1>7, <1>8, <1>9, <1>10,
     <1>11, <1>12, <1>13, <1>14, <1>15, <1>16, <1>17, <1>18, <1>19
     DEF Next, ThreadStep, MainStep, Terminated

\* Every step keeps the locals coherent, and nobody meets the shutdown flag.
LEMMA ControlStep == IInv /\ [Next]_vars => Control'
<1> SUFFICES ASSUME IInv, [Next]_vars PROVE Control'
  OBVIOUS
<1> USE Distinct, MainAssumption DEF IInv, TypeOK, Control, Holding, poolVars, threadVars, Threads
<1>1. ASSUME NEW t \in Threads, GetQuery(t) PROVE Control'
  BY <1>1 DEF GetQuery, GetConnection, At, MainAt, Goto
<1>2. ASSUME NEW t \in Threads, LookupEmpty(t) PROVE Control'
  BY <1>2 DEF LookupEmpty, At
<1>3. ASSUME NEW t \in Threads, LookupHit(t) PROVE Control'
  BY <1>3 DEF LookupHit, At, Goto
<1>4. ASSUME NEW t \in Threads, LookupMiss(t) PROVE Control'
  BY <1>4 DEF LookupMiss, At, Goto
<1>5. ASSUME NEW t \in Threads, CreateConnection(t) PROVE Control'
  BY <1>5 DEF CreateConnection, At, Goto
<1>6. ASSUME NEW t \in Threads, CreateFails(t) PROVE Control'
  BY <1>6 DEF CreateFails, At, Goto
<1>7. ASSUME NEW t \in Threads, Exec(t) PROVE Control'
  BY <1>7 DEF Exec, At, Goto
<1>8. ASSUME NEW t \in Threads, Deleter(t) PROVE Control'
  BY <1>8 DEF Deleter, DeleteConnection, Released, At, Goto
<1>9. ASSUME NEW t \in Threads, FreeConnection(t) PROVE Control'
  BY <1>9 DEF FreeConnection, DeleteConnection, Released, At, Goto
<1>10. ASSUME NEW t \in Threads, Push(t) PROVE Control'
  BY <1>10 DEF Push, DeleteConnection, Released, At, Goto
<1>11. CASE Clear
  BY <1>11 DEF Clear, ClearPool, At, MainAt
<1>12. CASE StoreOptions
  BY <1>12 DEF StoreOptions, At, Goto
<1>13. CASE StartServer
  BY <1>13 DEF StartServer, At, MainAt
<1>14. CASE StopServer
  BY <1>14 DEF StopServer, MainAt
<1>15. CASE Shutdown
  BY <1>15 DEF Shutdown, MainAt
<1>16. CASE Destroy
  BY <1>16 DEF Destroy, ClearPool, MainAt
<1>17. ASSUME NEW k \in Keys, SetConnectionOptions(k) PROVE Control'
  BY <1>17 DEF SetConnectionOptions, GetConnection, ClearPool, At, MainAt, Goto
<1>18. ASSUME NEW c \in Conns, Break(c) PROVE Control'
  BY <1>18 DEF Break
<1>19. CASE UNCHANGED vars
  BY <1>19 DEF vars, poolVars, threadVars
<1> QED
  BY <1>1, <1>2, <1>3, <1>4, <1>5, <1>6, <1>7, <1>8, <1>9, <1>10,
     <1>11, <1>12, <1>13, <1>14, <1>15, <1>16, <1>17, <1>18, <1>19
     DEF Next, ThreadStep, MainStep, Terminated

\* A connection is pooled when it has a slot.
LEMMA PooledSlots ==
    ASSUME IInv, NEW c
    PROVE  c \in Pooled <=> \E k \in Keys : \E i \in Slots(k) : queue[k][i] = c
<1>1. \A k \in Keys : queue[k] \in Seq(Conns)
  BY DEF IInv, TypeOK
<1> QED
  BY <1>1 DEF Pooled, ToSet, Slots

\* clear() closes what was in a slot and nothing else.
LEMMA ClearAccounted ==
    ASSUME IInv, ClearPool, held' = held
    PROVE  Accounted'
<1>1. \A c \in Conns : conn'[c] = IF c \in Pooled THEN Closed ELSE conn[c]
  BY DEF ClearPool, IInv, TypeOK
<1>2. \A k \in Keys : Slots(k)' = {}
  BY DEF ClearPool, Slots
<1> SUFFICES ASSUME NEW c \in Conns PROVE conn'[c].open <=> Somewhere(c)'
  BY DEF Accounted
<1>3. Somewhere(c)' <=> \E t \in Threads : held[t] = c
  BY <1>2 DEF Somewhere
<1>4. (\E t \in Threads : held[t] = c) => c \notin Pooled
  BY PooledSlots DEF IInv, Apart
<1>5. conn[c].open <=> Somewhere(c)
  BY DEF IInv, Accounted
<1>6. CASE c \in Pooled
  BY <1>1, <1>3, <1>4, <1>6 DEF Closed
<1>7. CASE c \notin Pooled
  BY <1>1, <1>3, <1>5, <1>7, PooledSlots DEF Somewhere
<1> QED
  BY <1>6, <1>7

\* What is held is not in a slot, so clear() leaves it alone.
LEMMA ClearFit ==
    ASSUME IInv, ClearPool, UNCHANGED <<entries, held, asked, pc>>
    PROVE  Fit'
<1>1. \A c \in Conns : conn'[c] = IF c \in Pooled THEN Closed ELSE conn[c]
  BY DEF ClearPool, IInv, TypeOK
<1>2. \A k \in Keys : queue'[k] = << >> /\ Slots(k)' = {}
  BY DEF ClearPool, Slots
<1>3. \A t \in Threads : held[t] # None => held[t] \in Conns /\ conn'[held[t]] = conn[held[t]]
  BY <1>1, PooledSlots DEF IInv, TypeOK, Apart
<1>4. \A t \in Threads : pc[t] = "push" => held[t] # None
  BY DEF IInv, Control, Holding
<1> QED
  BY <1>2, <1>3, <1>4 DEF IInv, Fit

\* Deleting the connection a thread holds.
LEMMA DeleteKeeps ==
    ASSUME IInv, NEW t \in Threads, held[t] \in Conns, DeleteConnection(t),
           UNCHANGED <<queue, entries>>
    PROVE  Apart' /\ Accounted' /\ Fit'
<1> DEFINE c == held[t]
<1>1. /\ conn' = [conn EXCEPT ![c] = Closed]
      /\ held' = [held EXCEPT ![t] = None]
      /\ asked' = [asked EXCEPT ![t] = None]
      /\ pc' = [pc EXCEPT ![t] = "idle"]
      /\ queue' = queue /\ entries' = entries
  BY DEF DeleteConnection, Released, Goto
<1>2. /\ \A k \in Keys : \A i \in Slots(k) : queue[k][i] # c
      /\ \A s \in Threads \ {t} : held[s] # c
  BY Distinct DEF IInv, Apart
<1>3. c # None /\ c \in Conns
  BY Distinct
<1>4. /\ \A s \in Threads \ {t} : held'[s] = held[s] /\ asked'[s] = asked[s] /\ pc'[s] = pc[s]
      /\ held'[t] = None /\ pc'[t] = "idle"
      /\ \A d \in Conns \ {c} : conn'[d] = conn[d]
      /\ ~conn'[c].open
  BY <1>1, <1>3 DEF IInv, TypeOK, Closed
<1>5. \A k \in Keys : Slots(k)' = Slots(k) /\ \A i \in Slots(k) : queue[k][i] \in Conns \ {c}
  BY <1>1, <1>2 DEF IInv, TypeOK, Slots
<1>6. Apart'
  BY <1>1, <1>4, <1>5, Distinct DEF IInv, Apart
<1>7. Accounted'
  <2> SUFFICES ASSUME NEW d \in Conns PROVE conn'[d].open <=> Somewhere(d)'
    BY DEF Accounted
  <2>1. CASE d = c
    BY <2>1, <1>1, <1>2, <1>3, <1>4, <1>5 DEF Somewhere
  <2>2. CASE d # c
    <3>1. Somewhere(d)' <=> Somewhere(d)
      BY <2>2, <1>1, <1>3, <1>4, <1>5, Distinct DEF Somewhere
    <3> QED
      BY <2>2, <3>1, <1>4 DEF IInv, Accounted
  <2> QED
    BY <2>1, <2>2
<1>8. Fit'
  <2>1. \A s \in Threads \ {t} : held[s] # None => held[s] \in Conns \ {c}
    BY <1>2 DEF IInv, TypeOK
  <2>2. \A s \in Threads : pc[s] = "push" => held[s] # None
    BY DEF IInv, Control, Holding
  <2> QED
    BY <1>1, <1>4, <1>5, <2>1, <2>2 DEF IInv, Fit
<1> QED
  BY <1>6, <1>7, <1>8

\* An object that is not open is nowhere.
LEMMA FreshIsNowhere ==
    ASSUME IInv, NEW c \in Conns, ~conn[c].open
    PROVE  /\ \A k \in Keys : \A i \in Slots(k) : queue[k][i] # c
           /\ \A t \in Threads : held[t] # c
BY DEF IInv, Accounted, Somewhere

\* Opening a connection for a thread that has none.
LEMMA CreateKeeps ==
    ASSUME IInv, NEW t \in Threads, CreateConnection(t)
    PROVE  Apart' /\ Accounted' /\ Fit'
<1>1. PICK c \in Conns :
        /\ ~conn[c].open
        /\ conn' = [conn EXCEPT ![c] = [open |-> TRUE, key |-> asked[t],
                                        link |-> "up", status |-> "OK"]]
        /\ held' = [held EXCEPT ![t] = c]
  BY DEF CreateConnection
<1>2. /\ queue' = queue /\ entries' = entries /\ asked' = asked
      /\ pc' = [pc EXCEPT ![t] = "using"]
  BY DEF CreateConnection, Goto, poolVars
<1>3. held[t] = None
  BY DEF CreateConnection, At, IInv, Control, Holding
<1>4. /\ \A k \in Keys : \A i \in Slots(k) : queue[k][i] # c
      /\ \A s \in Threads : held[s] # c
  BY <1>1, FreshIsNowhere
<1>5. /\ \A s \in Threads \ {t} : held'[s] = held[s] /\ pc'[s] = pc[s]
      /\ held'[t] = c /\ pc'[t] = "using"
      /\ \A d \in Conns \ {c} : conn'[d] = conn[d]
      /\ conn'[c].open /\ conn'[c].key = asked[t] /\ conn'[c].status = "OK"
  BY <1>1, <1>2 DEF IInv, TypeOK
<1>6. \A k \in Keys : Slots(k)' = Slots(k) /\ \A i \in Slots(k) : queue[k][i] \in Conns \ {c}
  BY <1>2, <1>4 DEF IInv, TypeOK, Slots
<1>7. Apart'
  BY <1>2, <1>4, <1>5, <1>6, Distinct DEF IInv, Apart
<1>8. Accounted'
  <2> SUFFICES ASSUME NEW d \in Conns PROVE conn'[d].open <=> Somewhere(d)'
    BY DEF Accounted
  <2>1. CASE d = c
    BY <2>1, <1>5 DEF Somewhere
  <2>2. CASE d # c
    <3>1. Somewhere(d)' <=> Somewhere(d)
      BY <2>2, <1>2, <1>3, <1>5, <1>6, Distinct DEF Somewhere
    <3> QED
      BY <2>2, <3>1, <1>5 DEF IInv, Accounted
  <2> QED
    BY <2>1, <2>2
<1>9. Fit'
  <2>1. \A s \in Threads \ {t} : held[s] # None => held[s] \in Conns \ {c}
    BY <1>4 DEF IInv, TypeOK
  <2>2. \A s \in Threads : pc[s] = "push" => held[s] # None
    BY DEF IInv, Control, Holding
  <2> QED
    BY <1>2, <1>5, <1>6, <2>1, <2>2 DEF IInv, Fit
<1> QED
  BY <1>7, <1>8, <1>9

\* Returning a connection to the queue of the key its thread asked for.
LEMMA AppendKeeps ==
    ASSUME IInv, NEW t \in Threads, pc[t] = "push", Released(t), UNCHANGED conn,
           queue' = [queue EXCEPT ![asked[t]] = Append(@, held[t])],
           entries' = entries \cup {asked[t]}
    PROVE  Apart' /\ Accounted' /\ Fit'
<1>1. PICK c \in Conns, q \in Keys : c = held[t] /\ q = asked[t] /\ c # None
  BY InUse, Distinct DEF Holding
<1>2. /\ held' = [held EXCEPT ![t] = None]
      /\ asked' = [asked EXCEPT ![t] = None]
      /\ pc' = [pc EXCEPT ![t] = "idle"]
      /\ conn' = conn
  BY DEF Released, Goto
<1>3. /\ \A s \in Threads \ {t} : held'[s] = held[s] /\ asked'[s] = asked[s] /\ pc'[s] = pc[s]
      /\ held'[t] = None /\ pc'[t] = "idle"
  BY <1>2 DEF IInv, TypeOK
<1>4. /\ \A k \in Keys : \A i \in Slots(k) : queue[k][i] # c
      /\ \A s \in Threads \ {t} : held[s] # c
  BY <1>1 DEF IInv, Apart
<1>9. PICK n \in Nat \ {0} : n = Len(queue[q]) + 1 /\ Slots(q) = 1 .. n - 1
  BY DEF IInv, TypeOK, Slots
<1>5. /\ \A k \in Keys : \A i \in Slots(k) : i \in Slots(k)' /\ queue'[k][i] = queue[k][i]
      /\ n \in Slots(q)' /\ queue'[q][n] = c
      /\ \A k \in Keys : \A i \in Slots(k)' : i \in Slots(k) \/ (k = q /\ i = n)
      /\ n \notin Slots(q)
      /\ \A k \in Keys \ {q} : queue'[k] = queue[k]
  <2>1. queue[q] \in Seq(Conns) /\ queue'[q] = Append(queue[q], c)
    BY <1>1 DEF IInv, TypeOK
  <2>2. \A k \in Keys \ {q} : queue'[k] = queue[k] /\ Slots(k)' = Slots(k)
    BY <1>1 DEF IInv, TypeOK, Slots
  <2>3. Len(queue'[q]) = n
    BY <2>1, <1>9
  <2>4. Slots(q)' = 1 .. n
    BY <2>3 DEF Slots
  <2>5. queue'[q][n] = c /\ \A i \in Slots(q) : queue'[q][i] = queue[q][i]
    BY <2>1, <1>9
  <2>6. n \in Slots(q)' /\ n \notin Slots(q) /\ \A i \in Slots(q) : i \in Slots(q)'
    BY <1>9, <2>4
  <2>7. \A i \in Slots(q)' : i \in Slots(q) \/ i = n
    BY <1>9, <2>4
  <2> QED
    BY <2>2, <2>5, <2>6, <2>7
<1>6. Apart'
  <2>1. ASSUME NEW k \in Keys, NEW l \in Keys, NEW i \in Slots(k)', NEW j \in Slots(l)',
               queue'[k][i] = queue'[l][j]
        PROVE  k = l /\ i = j
    <3>1. CASE i \in Slots(k) /\ j \in Slots(l)
      BY <2>1, <3>1, <1>5 DEF IInv, Apart, Slots
    <3>2. CASE i \in Slots(k) /\ l = q /\ j = n
      BY <2>1, <3>2, <1>4, <1>5 DEF Slots
    <3>3. CASE k = q /\ i = n /\ j \in Slots(l)
      BY <2>1, <3>3, <1>4, <1>5 DEF Slots
    <3> QED
      BY <3>1, <3>2, <3>3, <1>5
  <2>2. \A s \in Threads : \A k \in Keys : \A i \in Slots(k)' : queue'[k][i] # held'[s]
    <3>1. \A k \in Keys : \A i \in Slots(k) : queue[k][i] # None
      BY Distinct DEF IInv, TypeOK, Slots
    <3> SUFFICES ASSUME NEW s \in Threads, NEW k \in Keys, NEW i \in Slots(k)'
                 PROVE  queue'[k][i] # held'[s]
      OBVIOUS
    <3>2. CASE i \in Slots(k)
      BY <1>3, <1>5, <3>1, <3>2 DEF IInv, Apart, Slots
    <3>3. CASE k = q /\ i = n
      BY <1>1, <1>3, <1>4, <1>5, <3>3 DEF Slots
    <3> QED
      BY <3>2, <3>3, <1>5
  <2>3. \A r, s \in Threads : r # s /\ held'[r] # None => held'[r] # held'[s]
    BY <1>3 DEF IInv, Apart
  <2> QED
    BY <2>1, <2>2, <2>3 DEF Apart
<1>7. Accounted'
  <2> SUFFICES ASSUME NEW d \in Conns PROVE conn'[d].open <=> Somewhere(d)'
    BY DEF Accounted
  <2>1. CASE d = c
    <3>1. Somewhere(d) /\ Somewhere(d)'
      BY <2>1, <1>1, <1>5 DEF Somewhere
    <3> QED
      BY <3>1, <1>2 DEF IInv, Accounted
  <2>2. CASE d # c
    <3>1. (\E k \in Keys : \E i \in Slots(k) : queue[k][i] = d)
            <=> (\E k \in Keys : \E i \in Slots(k)' : queue'[k][i] = d)
      BY <2>2, <1>1, <1>5 DEF Slots
    <3>2. (\E s \in Threads : held[s] = d) <=> (\E s \in Threads : held'[s] = d)
      BY <2>2, <1>1, <1>3, Distinct
    <3> QED
      BY <1>2, <3>1, <3>2 DEF IInv, Accounted, Somewhere
  <2> QED
    BY <2>1, <2>2
<1>8. Fit'
  <2>1. conn[c].key = q /\ conn[c].status = "OK"
    BY <1>1 DEF IInv, Fit
  <2>2. ASSUME NEW k \in Keys, NEW i \in Slots(k)'
        PROVE  conn'[queue'[k][i]].key = k /\ conn'[queue'[k][i]].status = "OK"
    <3>1. CASE i \in Slots(k)
      BY <3>1, <1>2, <1>5 DEF IInv, Fit, Slots
    <3>2. CASE k = q /\ i = n
      BY <3>2, <1>2, <1>5, <2>1
    <3> QED
      BY <3>1, <3>2, <1>5
  <2>3. \A k \in Keys : queue'[k] # << >> => k \in entries'
    BY <1>1, <1>5 DEF IInv, Fit
  <2>4. \A s \in Threads : held'[s] # None => conn'[held'[s]].key = asked'[s]
    BY <1>2, <1>3 DEF IInv, Fit
  <2>5. \A s \in Threads : pc'[s] = "push" => conn'[held'[s]].status = "OK"
    BY <1>2, <1>3 DEF IInv, Fit
  <2> QED
    BY <2>2, <2>3, <2>4, <2>5 DEF Fit
<1> QED
  BY <1>6, <1>7, <1>8

\* Steps that move no connection and change none.
LEMMA SameKeeps ==
    ASSUME IInv, NEW t \in Threads, UNCHANGED <<queue, entries, held, conn>>,
           \A s \in Threads \ {t} : asked'[s] = asked[s] /\ pc'[s] = pc[s],
           held[t] = None \/ asked'[t] = asked[t],
           pc'[t] = "push" => conn[held[t]].status = "OK"
    PROVE  Apart' /\ Accounted' /\ Fit'
<1>1. Apart'
  BY DEF IInv, Apart, Slots
<1>2. Accounted'
  BY DEF IInv, Accounted, Somewhere, Slots
<1>3. Fit'
  BY DEF IInv, Fit, Slots
<1> QED
  BY <1>1, <1>2, <1>3

\* Taking the first connection of a queue.
LEMMA TakeKeeps ==
    ASSUME IInv, NEW t \in Threads, LookupHit(t)
    PROVE  Apart' /\ Accounted' /\ Fit'
<1>1. PICK q \in Keys, c \in Conns : q = asked[t] /\ c = queue[q][1] /\ queue[q] # << >>
  BY InUse DEF LookupHit, At, IInv, TypeOK
<1>2. /\ held' = [held EXCEPT ![t] = c]
      /\ queue' = [queue EXCEPT ![q] = Tail(@)]
      /\ entries' = IF Len(queue[q]) = 1 THEN entries \ {q} ELSE entries
      /\ pc' = [pc EXCEPT ![t] = "using"]
      /\ conn' = conn /\ asked' = asked
  BY <1>1 DEF LookupHit, Goto, IInv, TypeOK
<1>3. held[t] = None
  BY DEF LookupHit, At, IInv, Control, Holding
<1>4. /\ \A s \in Threads \ {t} : held'[s] = held[s] /\ pc'[s] = pc[s]
      /\ held'[t] = c /\ pc'[t] = "using"
  BY <1>2 DEF IInv, TypeOK
<1>5. /\ \A k \in Keys \ {q} : queue'[k] = queue[k]
      /\ \A i \in 1 .. Len(queue'[q]) : i + 1 \in Slots(q) /\ queue'[q][i] = queue[q][i + 1]
      /\ \A i \in Slots(q) \ {1} : i - 1 \in 1 .. Len(queue'[q]) /\ queue'[q][i - 1] = queue[q][i]
      /\ Len(queue'[q]) = Len(queue[q]) - 1 /\ 1 \in Slots(q)
  <2>1. queue[q] \in Seq(Conns) /\ queue[q] # << >> /\ queue'[q] = Tail(queue[q])
    BY <1>1, <1>2 DEF IInv, TypeOK
  <2>2. \A k \in Keys \ {q} : queue'[k] = queue[k]
    BY <1>2 DEF IInv, TypeOK
  <2> QED
    BY <2>1, <2>2 DEF Slots
<1>6. Apart'
  <2> DEFINE old(k, i) == IF k = q THEN i + 1 ELSE i
  <2>1. \A k \in Keys : \A i \in 1 .. Len(queue'[k]) :
          old(k, i) \in Slots(k) /\ queue'[k][i] = queue[k][old(k, i)]
    BY <1>5 DEF Slots
  <2>2. ASSUME NEW k \in Keys, NEW l \in Keys, NEW i \in 1 .. Len(queue'[k]),
               NEW j \in 1 .. Len(queue'[l]), queue'[k][i] = queue'[l][j]
        PROVE  k = l /\ i = j
    <3>1. PICK x \in Slots(k) : x = old(k, i) /\ queue'[k][i] = queue[k][x]
      BY <2>1
    <3>2. PICK y \in Slots(l) : y = old(l, j) /\ queue'[l][j] = queue[l][y]
      BY <2>1
    <3>3. queue[k][x] = queue[l][y]
      BY <2>2, <3>1, <3>2
    <3>4. k = l /\ x = y
      BY <3>3 DEF IInv, Apart
    <3> QED
      BY <3>1, <3>2, <3>4
  <2>3. ASSUME NEW s \in Threads, NEW k \in Keys, NEW i \in 1 .. Len(queue'[k])
        PROVE  queue'[k][i] # held'[s]
    <3>1. CASE s = t
      <4>1. k # q \/ old(k, i) # 1
        OBVIOUS
      <4> QED
        BY <4>1, <3>1, <2>1, <1>1, <1>4, <1>5 DEF IInv, Apart
    <3>2. CASE s # t
      BY <3>2, <2>1, <1>4 DEF IInv, Apart
    <3> QED
      BY <3>1, <3>2
  <2>4. ASSUME NEW r \in Threads, NEW s \in Threads, r # s, held'[r] # None
        PROVE  held'[r] # held'[s]
    <3>1. \A u \in Threads : held[u] # c
      BY <1>1, <1>5 DEF IInv, Apart
    <3> QED
      BY <2>4, <3>1, <1>4 DEF IInv, Apart
  <2> QED
    BY <2>2, <2>3, <2>4 DEF Apart, Slots
<1>7. Accounted'
  <2> SUFFICES ASSUME NEW d \in Conns PROVE Somewhere(d)' <=> Somewhere(d)
    BY <1>2 DEF IInv, Accounted
  <2>1. CASE d = c
    BY <2>1, <1>1, <1>4, <1>5 DEF Somewhere
  <2>2. CASE d # c
    <3>1. (\E s \in Threads : held[s] = d) <=> (\E s \in Threads : held'[s] = d)
      BY <2>2, <1>3, <1>4, Distinct
    <3>2. ASSUME NEW k \in Keys, NEW i \in Slots(k), queue[k][i] = d
          PROVE  \E j \in 1 .. Len(queue'[k]) : queue'[k][j] = d
      <4>1. CASE k = q
        <5>1. i # 1
          BY <3>2, <4>1, <2>2, <1>1
        <5> QED
          BY <5>1, <3>2, <4>1, <1>5
      <4>2. CASE k # q
        BY <3>2, <4>2, <1>5 DEF Slots
      <4> QED
        BY <4>1, <4>2
    <3>3. ASSUME NEW k \in Keys, NEW i \in 1 .. Len(queue'[k]), queue'[k][i] = d
          PROVE  \E j \in Slots(k) : queue[k][j] = d
      <4>1. CASE k = q
        BY <3>3, <4>1, <1>5
      <4>2. CASE k # q
        BY <3>3, <4>2, <1>5 DEF Slots
      <4> QED
        BY <4>1, <4>2
    <3> QED
      BY <3>1, <3>2, <3>3 DEF Somewhere, Slots
  <2> QED
    BY <2>1, <2>2
<1>8. Fit'
  <2>1. ASSUME NEW k \in Keys, NEW i \in 1 .. Len(queue'[k])
        PROVE  conn[queue'[k][i]].key = k /\ conn[queue'[k][i]].status = "OK"
    <3>1. CASE k = q
      BY <2>1, <3>1, <1>5 DEF IInv, Fit
    <3>2. CASE k # q
      BY <2>1, <3>2, <1>5 DEF IInv, Fit, Slots
    <3> QED
      BY <3>1, <3>2
  <2>2. \A k \in Keys : queue'[k] # << >> => k \in entries'
    <3>1. queue[q] \in Seq(Conns) /\ queue[q] # << >> /\ queue'[q] = Tail(queue[q])
      BY <1>1, <1>2 DEF IInv, TypeOK
    <3>2. PICK z \in Seq(Conns) : z = Tail(queue[q]) /\ Len(z) = Len(queue[q]) - 1
      BY <3>1, HeadTailProperties
    <3>3. z # << >> => Len(z) \in Nat \ {0}
      BY EmptySeq
    <3>4. queue'[q] # << >> => Len(queue[q]) # 1
      BY <3>1, <3>2, <3>3
    <3> QED
      BY <1>1, <1>2, <1>5, <3>4 DEF IInv, Fit
  <2>3. \A s \in Threads : held'[s] # None => conn[held'[s]].key = asked[s]
    BY <1>1, <1>4, <1>5 DEF IInv, Fit
  <2>4. \A s \in Threads : pc'[s] = "push" => conn[held'[s]].status = "OK"
    BY <1>4 DEF IInv, Fit
  <2> QED
    BY <1>2, <2>1, <2>2, <2>3, <2>4 DEF Fit, Slots
<1> QED
  BY <1>6, <1>7, <1>8

\* Only the connection of the query that fails gets a bad status.
LEMMA ExecKeeps ==
    ASSUME IInv, NEW t \in Threads, Exec(t)
    PROVE  Apart' /\ Accounted' /\ Fit'
<1>1. PICK c \in Conns : c = held[t]
  BY InUse DEF Exec, At, Holding
<1>2. /\ queue' = queue /\ entries' = entries /\ held' = held /\ asked' = asked
      /\ pc' = [pc EXCEPT ![t] = "deleter"]
  BY DEF Exec, Goto, poolVars
<1>3. /\ \A d \in Conns : conn'[d].open = conn[d].open /\ conn'[d].key = conn[d].key
      /\ \A d \in Conns \ {c} : conn'[d] = conn[d]
  BY <1>1 DEF Exec, IInv, TypeOK, Connection
<1>4. /\ \A k \in Keys : \A i \in Slots(k) : queue[k][i] \in Conns \ {c}
      /\ \A s \in Threads \ {t} : held[s] # c
      /\ \A s \in Threads : held[s] \in Conns \cup {None}
  BY <1>1, Distinct DEF IInv, TypeOK, Apart, Slots
<1>5. Apart'
  BY <1>2 DEF IInv, Apart, Slots
<1>6. Accounted'
  BY <1>2, <1>3 DEF IInv, Accounted, Somewhere, Slots
<1>7. Fit'
  <2>1. \A s \in Threads : pc'[s] = "push" => s # t /\ pc[s] = "push" /\ held[s] \in Conns \ {c}
    BY <1>2, <1>4 DEF IInv, TypeOK, Control, Holding
  <2>2. \A k \in Keys : \A i \in Slots(k) :
          conn'[queue[k][i]].key = k /\ conn'[queue[k][i]].status = "OK"
    BY <1>3, <1>4 DEF IInv, Fit
  <2>3. \A s \in Threads : held[s] # None => conn'[held[s]].key = asked[s]
    BY <1>3, <1>4 DEF IInv, Fit
  <2>4. \A s \in Threads : pc'[s] = "push" => conn'[held[s]].status = "OK"
    BY <2>1, <1>3 DEF IInv, Fit
  <2> QED
    BY <1>2, <2>2, <2>3, <2>4 DEF IInv, Fit, Slots
<1> QED
  BY <1>5, <1>6, <1>7

\* An empty pool shares nothing.
LEMMA ClearApart ==
    ASSUME IInv, ClearPool, held' = held
    PROVE  Apart'
<1>1. \A k \in Keys : Slots(k)' = {}
  BY DEF ClearPool, Slots
<1> QED
  BY <1>1 DEF IInv, Apart

\* Every step keeps each connection in one place and what is known of it there.
LEMMA PlacesStep == IInv /\ [Next]_vars => Apart' /\ Accounted' /\ Fit'
<1> SUFFICES ASSUME IInv, [Next]_vars PROVE Apart' /\ Accounted' /\ Fit'
  OBVIOUS
<1> USE Distinct DEF IInv, TypeOK, poolVars, threadVars
<1>1. ASSUME NEW t \in Threads, GetQuery(t) PROVE Apart' /\ Accounted' /\ Fit'
  <2>1. held[t] = None
    BY <1>1 DEF GetQuery, GetConnection, At, Control, Holding
  <2> QED
    BY <1>1, <2>1, SameKeeps DEF GetQuery, GetConnection, At, MainAt, Goto
<1>2. ASSUME NEW t \in Threads, LookupEmpty(t) PROVE Apart' /\ Accounted' /\ Fit'
  BY <1>2, SameKeeps DEF LookupEmpty, At
<1>3. ASSUME NEW t \in Threads, LookupHit(t) PROVE Apart' /\ Accounted' /\ Fit'
  BY <1>3, TakeKeeps
<1>4. ASSUME NEW t \in Threads, LookupMiss(t) PROVE Apart' /\ Accounted' /\ Fit'
  BY <1>4, SameKeeps DEF LookupMiss, At, Goto
<1>5. ASSUME NEW t \in Threads, CreateConnection(t) PROVE Apart' /\ Accounted' /\ Fit'
  BY <1>5, CreateKeeps
<1>6. ASSUME NEW t \in Threads, CreateFails(t) PROVE Apart' /\ Accounted' /\ Fit'
  <2>1. held[t] = None
    BY <1>6 DEF CreateFails, At, Control, Holding
  <2> QED
    BY <1>6, <2>1, SameKeeps DEF CreateFails, At, Goto
<1>7. ASSUME NEW t \in Threads, Exec(t) PROVE Apart' /\ Accounted' /\ Fit'
  BY <1>7, ExecKeeps
<1>8. ASSUME NEW t \in Threads, Deleter(t) PROVE Apart' /\ Accounted' /\ Fit'
  <2>1. CASE isShutdown
    <3>1. held[t] \in Conns
      BY <1>8, InUse DEF Deleter, At, Holding
    <3> QED
      BY <1>8, <2>1, <3>1, DeleteKeeps DEF Deleter
  <2>2. CASE ~isShutdown
    BY <1>8, <2>2, SameKeeps DEF Deleter, Goto
  <2> QED
    BY <2>1, <2>2
<1>9. ASSUME NEW t \in Threads, FreeConnection(t) PROVE Apart' /\ Accounted' /\ Fit'
  <2>1. CASE ~isShutdown /\ conn[held[t]].status # "OK"
    <3>1. held[t] \in Conns
      BY <1>9, InUse DEF FreeConnection, At, Holding
    <3> QED
      BY <1>9, <2>1, <3>1, DeleteKeeps DEF FreeConnection
  <2>2. CASE ~isShutdown /\ conn[held[t]].status = "OK"
    BY <1>9, <2>2, SameKeeps DEF FreeConnection, Goto
  <2>3. CASE isShutdown
    BY <1>9, <2>3, SameKeeps DEF FreeConnection, At
  <2> QED
    BY <2>1, <2>2, <2>3
<1>10. ASSUME NEW t \in Threads, Push(t) PROVE Apart' /\ Accounted' /\ Fit'
  <2>1. held[t] \in Conns /\ pc[t] = "push" /\ conn[held[t]].key = asked[t]
    <3>1. held[t] \in Conns /\ pc[t] = "push"
      BY <1>10, InUse DEF Push, At, Holding
    <3> QED
      BY <3>1, Distinct DEF Fit
  <2>2. CASE asked[t] \in entries /\ Len(queue[asked[t]]) >= Capacity
    BY <1>10, <2>1, <2>2, DeleteKeeps DEF Push
  <2>3. CASE ~(asked[t] \in entries /\ Len(queue[asked[t]]) >= Capacity)
    BY <1>10, <2>1, <2>3, AppendKeeps DEF Push
  <2> QED
    BY <2>2, <2>3
<1>11. CASE Clear
  BY <1>11, ClearAccounted, ClearFit, ClearApart DEF Clear
<1>12. CASE StoreOptions
  BY <1>12, SameKeeps DEF StoreOptions, Goto
<1>13. CASE StartServer
  BY <1>13, SameKeeps DEF StartServer, Fit
<1>14. CASE StopServer
  BY <1>14, SameKeeps DEF StopServer, Fit
<1>15. CASE Shutdown
  BY <1>15, SameKeeps DEF Shutdown, Fit
<1>16. CASE Destroy
  BY <1>16, ClearAccounted, ClearFit, ClearApart DEF Destroy
<1>17. ASSUME NEW o \in Keys, SetConnectionOptions(o) PROVE Apart' /\ Accounted' /\ Fit'
  <2>1. held[Main] = None /\ ClearPool /\ held' = held /\ entries' = entries
    BY <1>17 DEF SetConnectionOptions, GetConnection, At, Control, Holding
  <2>2. Apart' /\ Accounted'
    BY <2>1, ClearApart, ClearAccounted
  <2>3. \A c \in Conns : conn'[c] = IF c \in Pooled THEN Closed ELSE conn[c]
    BY <2>1 DEF ClearPool
  <2>4. \A k \in Keys : queue'[k] = << >> /\ Slots(k)' = {}
    BY <2>1 DEF ClearPool, Slots
  <2>5. \A s \in Threads : held[s] # None => held[s] \in Conns /\ conn'[held[s]] = conn[held[s]]
    BY <2>3, PooledSlots DEF Apart
  <2>6. \A s \in Threads : pc'[s] # "push" /\ (s # Main => asked'[s] = asked[s])
    BY <1>17 DEF SetConnectionOptions, GetConnection, At, MainAt, Goto, Control
  <2>7. Fit'
    BY <2>1, <2>4, <2>5, <2>6 DEF Fit
  <2> QED
    BY <2>2, <2>7
<1>18. ASSUME NEW c \in Conns, Break(c) PROVE Apart' /\ Accounted' /\ Fit'
  <2>1. /\ \A d \in Conns : conn'[d].open = conn[d].open /\ conn'[d].key = conn[d].key
                            /\ conn'[d].status = conn[d].status
        /\ queue' = queue /\ entries' = entries /\ held' = held /\ asked' = asked /\ pc' = pc
    BY <1>18 DEF Break, Connection
  <2>2. Apart'
    BY <2>1 DEF Apart, Slots
  <2>3. Accounted'
    BY <2>1 DEF Accounted, Somewhere, Slots
  <2>4. Fit'
    <3>1. /\ \A k \in Keys : \A i \in Slots(k) : queue[k][i] \in Conns
          /\ \A s \in Threads : held[s] # None => held[s] \in Conns
          /\ \A s \in Threads : pc[s] = "push" => held[s] # None
      BY DEF Slots, Control, Holding
    <3>2. \A k \in Keys : \A i \in Slots(k) :
            conn'[queue[k][i]].key = k /\ conn'[queue[k][i]].status = "OK"
      BY <2>1, <3>1 DEF Fit
    <3>3. \A s \in Threads : held[s] # None => conn'[held[s]].key = asked[s]
      BY <2>1, <3>1 DEF Fit
    <3>4. \A s \in Threads : pc[s] = "push" => conn'[held[s]].status = "OK"
      BY <2>1, <3>1 DEF Fit
    <3>5. \A k \in Keys : queue[k] # << >> => k \in entries
      BY DEF Fit
    <3> QED
      BY <2>1, <3>2, <3>3, <3>4, <3>5 DEF Fit, Slots
  <2> QED
    BY <2>2, <2>3, <2>4
<1>19. CASE UNCHANGED vars
  BY <1>19, SameKeeps DEF vars, Fit
<1> QED
  BY <1>1, <1>2, <1>3, <1>4, <1>5, <1>6, <1>7, <1>8, <1>9, <1>10,
     <1>11, <1>12, <1>13, <1>14, <1>15, <1>16, <1>17, <1>18, <1>19
     DEF Next, ThreadStep, MainStep, Terminated

\* A destroyed pool stays empty.
LEMMA DestructionStep == IInv /\ [Next]_vars => AtDestruction'
<1> SUFFICES ASSUME IInv, [Next]_vars PROVE AtDestruction'
  OBVIOUS
<1> USE Distinct DEF IInv, TypeOK, AtDestruction, Control, poolVars, threadVars
<1>1. ASSUME NEW t \in Threads, GetQuery(t) PROVE AtDestruction'
  BY <1>1 DEF GetQuery, GetConnection, At, MainAt, Goto
<1>2. ASSUME NEW t \in Threads, LookupEmpty(t) PROVE AtDestruction'
  BY <1>2 DEF LookupEmpty, At
<1>3. ASSUME NEW t \in Threads, LookupHit(t) PROVE AtDestruction'
  BY <1>3 DEF LookupHit, At, Goto
<1>4. ASSUME NEW t \in Threads, LookupMiss(t) PROVE AtDestruction'
  BY <1>4 DEF LookupMiss, At, Goto
<1>5. ASSUME NEW t \in Threads, CreateConnection(t) PROVE AtDestruction'
  BY <1>5 DEF CreateConnection, At, Goto
<1>6. ASSUME NEW t \in Threads, CreateFails(t) PROVE AtDestruction'
  BY <1>6 DEF CreateFails, At, Goto
<1>7. ASSUME NEW t \in Threads, Exec(t) PROVE AtDestruction'
  BY <1>7 DEF Exec, At, Goto
<1>8. ASSUME NEW t \in Threads, Deleter(t) PROVE AtDestruction'
  BY <1>8 DEF Deleter, DeleteConnection, Released, At, Goto
<1>9. ASSUME NEW t \in Threads, FreeConnection(t) PROVE AtDestruction'
  BY <1>9 DEF FreeConnection, DeleteConnection, Released, At, Goto
<1>10. ASSUME NEW t \in Threads, Push(t) PROVE AtDestruction'
  BY <1>10 DEF Push, DeleteConnection, Released, At, Goto
<1>11. CASE Clear
  BY <1>11 DEF Clear, ClearPool, At, MainAt
<1>12. CASE StoreOptions
  BY <1>12 DEF StoreOptions, At, Goto
<1>13. CASE StartServer
  BY <1>13 DEF StartServer, At, MainAt
<1>14. CASE StopServer
  BY <1>14 DEF StopServer, MainAt
<1>15. CASE Shutdown
  BY <1>15 DEF Shutdown, MainAt
<1>16. CASE Destroy
  BY <1>16 DEF Destroy, ClearPool, MainAt
<1>17. ASSUME NEW k \in Keys, SetConnectionOptions(k) PROVE AtDestruction'
  BY <1>17 DEF SetConnectionOptions, GetConnection, ClearPool, At, MainAt, Goto
<1>18. ASSUME NEW c \in Conns, Break(c) PROVE AtDestruction'
  BY <1>18 DEF Break
<1>19. CASE UNCHANGED vars
  BY <1>19 DEF vars, poolVars, threadVars
<1> QED
  BY <1>1, <1>2, <1>3, <1>4, <1>5, <1>6, <1>7, <1>8, <1>9, <1>10,
     <1>11, <1>12, <1>13, <1>14, <1>15, <1>16, <1>17, <1>18, <1>19
     DEF Next, ThreadStep, MainStep, Terminated

-----------------------------------------------------------------------------

\* The invariant holds of an empty pool.
LEMMA InitIInv == Init => IInv
<1> SUFFICES ASSUME Init PROVE IInv
  OBVIOUS
<1> USE Distinct, CapacityAssumption DEF Init
<1>1. TypeOK
  <2>1. Closed \in Connection
    BY DEF Closed, Connection
  <2>2. queue \in [Keys -> Seq(Conns)]
    OBVIOUS
  <2>3. conn \in [Conns -> Connection]
    BY <2>1
  <2> QED
    BY <2>2, <2>3 DEF TypeOK
<1>2. Control
  BY DEF Control, Holding
<1>3. Apart
  BY DEF Apart, Slots
<1>4. Accounted
  BY DEF Accounted, Somewhere, Slots, Closed
<1>5. Fit
  BY DEF Fit, Slots
<1> QED
  BY <1>1, <1>2, <1>3, <1>4, <1>5 DEF IInv, AtDestruction

\* The inductive invariant.
THEOREM Inductive == Spec => []IInv
<1>1. IInv /\ [Next]_vars => IInv'
  BY TypeStep, ControlStep, PlacesStep, DestructionStep DEF IInv
<1> QED
  BY <1>1, InitIInv, PTL DEF Spec

\* Every variable keeps its type, from the constructor to the destructor.
THEOREM TypeCorrect == Spec => []TypeOK
<1>1. IInv => TypeOK
  BY DEF IInv
<1> QED
  BY <1>1, Inductive, PTL

\* The pointwise statements give OnePlace, which is said of sets.
LEMMA OnePlaceFromIInv == IInv => OnePlace
<1> SUFFICES ASSUME IInv PROVE OnePlace
  OBVIOUS
<1>1. \A k \in Keys : ToSet(queue[k]) = {queue[k][i] : i \in Slots(k)}
  BY DEF IInv, TypeOK, ToSet, Slots
<1>2. \A t \in Threads : held[t] \notin Pooled
  BY PooledSlots DEF IInv, Apart
<1>3. \A k \in Keys : \A i, j \in DOMAIN queue[k] : queue[k][i] = queue[k][j] => i = j
  BY DEF IInv, TypeOK, Apart, Slots
<1>4. \A k, l \in Keys : k # l => ToSet(queue[k]) \cap ToSet(queue[l]) = {}
  BY <1>1 DEF IInv, Apart
<1>5. \A c \in Conns : conn[c].open <=> c \in Pooled \/ \E t \in Threads : held[t] = c
  BY PooledSlots DEF IInv, Accounted, Somewhere
<1> QED
  BY <1>2, <1>3, <1>4, <1>5 DEF OnePlace, IInv, Apart

\* No connection is ever shared by two queries, lost, deleted twice or used after
\* its deletion, for any number of threads, keys and connections.
THEOREM InOnePlace == Spec => []OnePlace
  BY OnePlaceFromIInv, Inductive, PTL

\* A connection known to be broken is never pooled.
THEOREM NoBrokenPooled == Spec => []BrokenNotPooled
<1>1. IInv => BrokenNotPooled
  BY PooledSlots DEF IInv, Fit, BrokenNotPooled
<1> QED
  BY <1>1, Inductive, PTL

\* The asserts of getConnection and freeConnection hold under main()'s order.
THEOREM NoAssertFails == Spec => []AssertionsHold
<1>1. IInv => AssertionsHold
  BY DEF IInv, Control, AssertionsHold
<1> QED
  BY <1>1, Inductive, PTL

\* A destroyed pool has closed every connection it opened.
THEOREM AllClosed == Spec => []AllClosedAtEnd
<1>1. IInv => AllClosedAtEnd
  <2> SUFFICES ASSUME IInv, mainPc = "destroyed", NEW c \in Conns PROVE ~conn[c].open
    BY DEF AllClosedAtEnd
  <2>1. \A t \in Threads : held[t] = None
    BY DEF IInv, TypeOK, Control, Holding
  <2>2. \A k \in Keys : Slots(k) = {}
    BY DEF IInv, AtDestruction, Slots
  <2> QED
    BY <2>1, <2>2, Distinct DEF IInv, Accounted, Somewhere
<1> QED
  BY <1>1, Inductive, PTL

\* The queues keep to the capacity when it is at least one; with capacity zero
\* the first connection of a type would be pooled all the same.
THEOREM WithinCapacity == ASSUME Capacity >= 1 PROVE Spec => []CapacityRespected
<1>1. Init => CapacityRespected
  BY CapacityAssumption DEF Init, CapacityRespected
<1>2. IInv /\ CapacityRespected /\ [Next]_vars => CapacityRespected'
  <2> SUFFICES ASSUME IInv, CapacityRespected, [Next]_vars PROVE CapacityRespected'
    OBVIOUS
  <2>1. ASSUME NEW t \in Threads, LookupHit(t) PROVE CapacityRespected'
    <3>1. asked[t] \in Keys /\ queue[asked[t]] \in Seq(Conns) /\ queue[asked[t]] # << >>
      BY <2>1, InUse DEF LookupHit, At, IInv, TypeOK
    <3>2. queue' = [queue EXCEPT ![asked[t]] = Tail(@)]
      BY <2>1 DEF LookupHit
    <3> QED
      BY <3>1, <3>2, CapacityAssumption DEF CapacityRespected, IInv, TypeOK
  <2>2. ASSUME NEW t \in Threads, Push(t) PROVE CapacityRespected'
    <3>1. /\ held[t] \in Conns /\ asked[t] \in Keys /\ pc[t] = "push"
          /\ queue[asked[t]] \in Seq(Conns)
      BY <2>2, InUse DEF Push, At, Holding, IInv, TypeOK
    <3>2. conn[held[t]].key = asked[t]
      BY <3>1, Distinct DEF IInv, Fit
    <3>3. CASE asked[t] \in entries /\ Len(queue[asked[t]]) >= Capacity
      BY <2>2, <3>2, <3>3 DEF Push, CapacityRespected
    <3>4. CASE ~(asked[t] \in entries /\ Len(queue[asked[t]]) >= Capacity)
      <4>1. queue' = [queue EXCEPT ![asked[t]] = Append(@, held[t])]
        BY <2>2, <3>2, <3>4 DEF Push
      <4>2. Len(queue[asked[t]]) + 1 <= Capacity
        BY <3>1, <3>4, CapacityAssumption DEF IInv, Fit
      <4> QED
        BY <3>1, <4>1, <4>2 DEF CapacityRespected, IInv, TypeOK
    <3> QED
      BY <3>3, <3>4
  <2>3. ASSUME ClearPool PROVE CapacityRespected'
    BY <2>3, CapacityAssumption DEF ClearPool, CapacityRespected
  <2>4. ASSUME UNCHANGED queue PROVE CapacityRespected'
    BY <2>4 DEF CapacityRespected
  <2>5. \/ \E t \in Threads : LookupHit(t) \/ Push(t)
        \/ ClearPool
        \/ UNCHANGED queue
    <3>1. ASSUME NEW t \in Threads, ThreadStep(t), ~LookupHit(t), ~Push(t)
          PROVE  UNCHANGED queue
      BY <3>1 DEF ThreadStep, GetQuery, LookupEmpty, LookupMiss, CreateConnection,
           CreateFails, Exec, Deleter, FreeConnection, poolVars
    <3>2. ASSUME MainStep PROVE ClearPool \/ UNCHANGED queue
      BY <3>2 DEF MainStep, Clear, StoreOptions, StartServer, StopServer, Shutdown,
           Destroy, SetConnectionOptions, poolVars
    <3> QED
      BY <3>1, <3>2 DEF Next, Break, Terminated, vars, poolVars
  <2> QED
    BY <2>1, <2>2, <2>3, <2>4, <2>5
<1> QED
  BY <1>1, <1>2, Inductive, PTL DEF Spec

-----------------------------------------------------------------------------
\* The lease

\* The idle connections of each type, which the refinement maps to.
IdleSets == [k \in Keys |-> ToSet(queue[k])]

\* A thread outside getConnection and its query asks for nothing.
Quiet == \A t \in Threads : pc[t] = "idle" => asked[t] = None

LEMMA QuietStep == IInv /\ Quiet /\ [Next]_vars => Quiet'
<1> SUFFICES ASSUME IInv, Quiet, [Next]_vars PROVE Quiet'
  OBVIOUS
<1> USE DEF Quiet
<1>1. pc \in [Threads -> {"idle", "lookup", "create", "using", "deleter", "free", "push"}]
      /\ asked \in [Threads -> Keys \cup {None}]
  BY DEF IInv, TypeOK
<1>2. ASSUME NEW t \in Threads, ThreadStep(t) PROVE Quiet'
  <2>1. CASE GetQuery(t)
    BY <1>1, <2>1 DEF GetQuery, GetConnection, Goto, threadVars
  <2>2. CASE LookupEmpty(t) \/ LookupHit(t) \/ LookupMiss(t)
    BY <1>1, <2>2 DEF LookupEmpty, LookupHit, LookupMiss, Goto, threadVars
  <2>3. CASE CreateConnection(t) \/ CreateFails(t) \/ Exec(t)
    BY <1>1, <2>3 DEF CreateConnection, CreateFails, Exec, Goto
  <2>4. CASE Deleter(t)
    BY <1>1, <2>4 DEF Deleter, DeleteConnection, Released, Goto
  <2>5. CASE FreeConnection(t)
    BY <1>1, <2>5 DEF FreeConnection, DeleteConnection, Released, Goto, threadVars
  <2>6. CASE Push(t)
    BY <1>1, <2>6 DEF Push, DeleteConnection, Released, Goto
  <2> QED
    BY <1>2, <2>1, <2>2, <2>3, <2>4, <2>5, <2>6 DEF ThreadStep
<1>3. ASSUME NEW k \in Keys, SetConnectionOptions(k) PROVE Quiet'
  BY <1>1, <1>3 DEF SetConnectionOptions, GetConnection, Goto, threadVars
<1>4. CASE StoreOptions
  BY <1>1, <1>4 DEF StoreOptions, Goto
<1>5. CASE Clear \/ StartServer \/ StopServer \/ Shutdown \/ Destroy
  BY <1>5 DEF Clear, StartServer, StopServer, Shutdown, Destroy, threadVars
<1>6. CASE Terminated \/ UNCHANGED vars \/ \E c \in Conns : Break(c)
  BY <1>6 DEF Terminated, Break, vars, threadVars
<1> QED
  BY <1>2, <1>3, <1>4, <1>5, <1>6 DEF Next, MainStep

\* Seen from outside nothing happens.
LEMMA Stutter ==
    ASSUME UNCHANGED <<queue, held, asked>>
    PROVE  UNCHANGED Lease!vars
BY DEF Lease!vars

\* What is lent or idle outside is what is in a place inside.
LEMMA PlacesOutside ==
    ASSUME IInv, NEW c \in Conns
    PROVE  c \in Lease!Lent \cup Lease!Stored <=> conn[c].open
<1>1. \A k \in Keys : ToSet(queue[k]) = {queue[k][i] : i \in Slots(k)}
  BY DEF IInv, TypeOK, ToSet, Slots
<1>2. c \in Lease!Stored <=> \E k \in Keys : \E i \in Slots(k) : queue[k][i] = c
  BY <1>1 DEF Lease!Stored
<1>3. c \in Lease!Lent <=> \E t \in Threads : held[t] = c
  BY Distinct DEF Lease!Lent
<1> QED
  BY <1>2, <1>3 DEF IInv, Accounted, Somewhere

\* The first of a queue is lent.
LEMMA HitLends == ASSUME IInv, NEW t \in Threads, LookupHit(t) PROVE Lease!Lend(t)
<1> DEFINE q == asked[t]
           c == Head(queue[q])
<1>1. q \in Keys /\ queue[q] \in Seq(Conns) /\ queue[q] # << >>
  BY InUse DEF LookupHit, At, IInv, TypeOK
<1>2. held[t] = None
  BY DEF LookupHit, At, IInv, Control, Holding
<1>3. queue' = [queue EXCEPT ![q] = Tail(@)] /\ held' = [held EXCEPT ![t] = c] /\ asked' = asked
  BY DEF LookupHit
<1>4. c \in ToSet(queue[q]) /\ ToSet(Tail(queue[q])) = ToSet(queue[q]) \ {c}
  <2>1. \A i, j \in 1 .. Len(queue[q]) : queue[q][i] = queue[q][j] => i = j
    BY <1>1 DEF IInv, Apart, Slots
  <2>2. /\ Tail(queue[q]) \in Seq(Conns) /\ Len(Tail(queue[q])) = Len(queue[q]) - 1
        /\ \A i \in 1 .. Len(queue[q]) - 1 : Tail(queue[q])[i] = queue[q][i + 1]
        /\ c = queue[q][1] /\ Len(queue[q]) \in Nat /\ Len(queue[q]) >= 1
    BY <1>1
  <2>3. \A i \in 1 .. Len(queue[q]) : i # 1 => i - 1 \in 1 .. Len(queue[q]) - 1
    BY <2>2
  <2>4. ASSUME NEW d PROVE d \in ToSet(Tail(queue[q])) <=> d \in ToSet(queue[q]) /\ d # c
    <3>1. d \in ToSet(queue[q]) <=> \E i \in 1 .. Len(queue[q]) : queue[q][i] = d
      BY <1>1 DEF ToSet
    <3>2. d \in ToSet(Tail(queue[q])) <=> \E i \in 1 .. Len(queue[q]) - 1 : queue[q][i + 1] = d
      <4>1. DOMAIN Tail(queue[q]) = 1 .. Len(queue[q]) - 1
        BY <1>1
      <4>2. ToSet(Tail(queue[q])) = {Tail(queue[q])[i] : i \in 1 .. Len(queue[q]) - 1}
        BY <4>1 DEF ToSet
      <4> QED
        BY <2>2, <4>2
    <3>3. ASSUME NEW i \in 1 .. Len(queue[q]) - 1, queue[q][i + 1] = d
          PROVE  d # c /\ \E j \in 1 .. Len(queue[q]) : queue[q][j] = d
      BY <2>1, <2>2, <3>3
    <3>4. ASSUME NEW i \in 1 .. Len(queue[q]), queue[q][i] = d, d # c
          PROVE  \E j \in 1 .. Len(queue[q]) - 1 : queue[q][j + 1] = d
      <4>1. i # 1
        BY <2>2, <3>4
      <4>2. i - 1 \in 1 .. Len(queue[q]) - 1 /\ (i - 1) + 1 = i
        BY <2>2, <2>3, <4>1
      <4> QED
        BY <3>4, <4>2
    <3> QED
      BY <3>1, <3>2, <3>3, <3>4
  <2>5. c \in ToSet(queue[q])
    BY <1>1, <2>2 DEF ToSet
  <2> QED
    BY <2>4, <2>5
<1>5. IdleSets' = [IdleSets EXCEPT ![q] = @ \ {c}]
  BY <1>1, <1>3, <1>4 DEF IdleSets, IInv, TypeOK
<1>6. c \in IdleSets[q]
  BY <1>1, <1>4 DEF IdleSets
<1>7. Lease!Waiting(t)
  BY <1>1, <1>2, Distinct DEF Lease!Waiting
<1> QED
  BY <1>1, <1>3, <1>5, <1>6, <1>7 DEF Lease!Lend, IdleSets

\* A new connection is nobody else's.
LEMMA CreateOpens == ASSUME IInv, NEW t \in Threads, CreateConnection(t) PROVE Lease!Open(t)
<1>1. PICK c \in Conns : ~conn[c].open /\ held' = [held EXCEPT ![t] = c]
  BY DEF CreateConnection
<1>2. c \in Conns \ (Lease!Lent \cup Lease!Stored)
  BY <1>1, PlacesOutside
<1>3. asked[t] \in Keys /\ held[t] = None
  BY InUse DEF CreateConnection, At, IInv, Control, Holding
<1>4. UNCHANGED <<queue, asked>>
  BY DEF CreateConnection, poolVars
<1> QED
  BY <1>1, <1>2, <1>3, <1>4, Distinct DEF Lease!Open, Lease!Waiting

\* Deleting what a thread holds returns it to nowhere.
LEMMA DeleteReturns ==
    ASSUME IInv, NEW t \in Threads, held[t] # None, DeleteConnection(t), UNCHANGED queue
    PROVE  Lease!Return(t)
BY DEF DeleteConnection, Released, Lease!Return

\* Pushing it returns it under the type it was asked for.
LEMMA PushReturns == ASSUME IInv, NEW t \in Threads, Push(t) PROVE Lease!Return(t)
<1> DEFINE q == asked[t]
           c == held[t]
<1>1. q \in Keys /\ c \in Conns /\ queue[q] \in Seq(Conns) /\ c # None
  BY InUse, Distinct DEF Push, At, Holding, IInv, TypeOK
<1>2. conn[c].key = q
  BY <1>1 DEF IInv, Fit
<1>3. CASE q \in entries /\ Len(queue[q]) >= Capacity
  BY <1>1, <1>2, <1>3, DeleteReturns DEF Push
<1>4. CASE ~(q \in entries /\ Len(queue[q]) >= Capacity)
  <2>1. queue' = [queue EXCEPT ![q] = Append(@, c)] /\ Released(t)
    BY <1>2, <1>4 DEF Push
  <2>2. ToSet(Append(queue[q], c)) = ToSet(queue[q]) \cup {c}
    <3>1. /\ Len(queue[q]) \in Nat /\ Len(Append(queue[q], c)) = Len(queue[q]) + 1
          /\ Append(queue[q], c) \in Seq(Conns)
          /\ \A i \in 1 .. Len(queue[q]) : Append(queue[q], c)[i] = queue[q][i]
          /\ Append(queue[q], c)[Len(queue[q]) + 1] = c
      BY <1>1
    <3>2. ASSUME NEW d PROVE d \in ToSet(Append(queue[q], c)) <=> d \in ToSet(queue[q]) \cup {c}
      <4>1. d \in ToSet(queue[q]) <=> \E i \in 1 .. Len(queue[q]) : queue[q][i] = d
        BY <1>1 DEF ToSet
      <4>2. d \in ToSet(Append(queue[q], c)) <=>
              \E i \in 1 .. Len(queue[q]) + 1 : Append(queue[q], c)[i] = d
        BY <3>1 DEF ToSet
      <4> QED
        BY <3>1, <4>1, <4>2
    <3> QED
      BY <3>2
  <2>3. IdleSets' = [IdleSets EXCEPT ![q] = @ \cup {c}]
    BY <1>1, <2>1, <2>2 DEF IdleSets, IInv, TypeOK
  <2> QED
    BY <1>1, <2>1, <2>3 DEF Lease!Return, Released, IdleSets
<1> QED
  BY <1>3, <1>4

\* clear() leaves nothing idle.
LEMMA ClearCloses == ASSUME ClearPool PROVE Lease!CloseIdle
<1>1. \A k \in Keys : ToSet(queue'[k]) = {}
  BY DEF ClearPool, ToSet
<1> QED
  BY <1>1 DEF Lease!CloseIdle

\* getConnection asks, unless its assertion fails.
LEMMA GetAsks ==
    ASSUME IInv, Quiet, NEW t \in Threads, NEW k \in Keys, GetConnection(t, k)
    PROVE  Lease!Ask(t, k) \/ UNCHANGED <<held, asked>>
<1>1. asked[t] = None
  BY DEF GetConnection, At, Quiet
<1> QED
  BY <1>1 DEF GetConnection, Lease!Ask, threadVars

\* Each step of the pool is one step of the promise, or none.
LEMMA LeaseStep == IInv /\ Quiet /\ [Next]_vars => [Lease!Next]_Lease!vars
<1> SUFFICES ASSUME IInv, Quiet, [Next]_vars PROVE Lease!Next \/ UNCHANGED Lease!vars
  OBVIOUS
<1>1. ASSUME NEW t \in Threads, GetQuery(t) PROVE Lease!Next \/ UNCHANGED Lease!vars
  <2>1. options \in Keys /\ UNCHANGED queue
    BY <1>1 DEF GetQuery, MainAt, IInv, Control, poolVars
  <2>2. Lease!Ask(t, options) \/ UNCHANGED <<held, asked>>
    BY <1>1, <2>1, GetAsks DEF GetQuery
  <2> QED
    BY <2>1, <2>2, Stutter DEF Lease!Next
<1>2. ASSUME NEW t \in Threads, LookupHit(t) PROVE Lease!Next
  BY <1>2, HitLends DEF Lease!Next
<1>3. ASSUME NEW t \in Threads, CreateConnection(t) PROVE Lease!Next
  BY <1>3, CreateOpens DEF Lease!Next
<1>4. ASSUME NEW t \in Threads, CreateFails(t) PROVE Lease!Next
  <2>1. asked[t] \in Keys /\ held[t] = None
    BY <1>4, InUse DEF CreateFails, At, IInv, Control, Holding
  <2> QED
    BY <1>4, <2>1, Distinct DEF CreateFails, poolVars, Lease!Next, Lease!GiveUp, Lease!Waiting
<1>5. ASSUME NEW t \in Threads, Deleter(t) \/ FreeConnection(t)
      PROVE  Lease!Next \/ UNCHANGED Lease!vars
  <2>1. held[t] # None /\ UNCHANGED queue
    BY <1>5 DEF Deleter, FreeConnection, At, IInv, Control, Holding, poolVars
  <2>2. DeleteConnection(t) \/ UNCHANGED <<held, asked>>
    BY <1>5 DEF Deleter, FreeConnection, threadVars
  <2> QED
    BY <2>1, <2>2, DeleteReturns, Stutter DEF Lease!Next
<1>6. ASSUME NEW t \in Threads, Push(t) PROVE Lease!Next
  BY <1>6, PushReturns DEF Lease!Next
<1>7. ASSUME NEW k \in Keys, SetConnectionOptions(k) PROVE Lease!Next \/ UNCHANGED Lease!vars
  <2>1. Lease!CloseIdle
    BY <1>7, ClearCloses DEF SetConnectionOptions
  <2>2. Lease!Ask(Main, k) \/ UNCHANGED <<held, asked>>
    BY <1>7, GetAsks, Distinct DEF SetConnectionOptions
  <2> QED
    BY <2>1, <2>2, Distinct DEF Lease!Next
<1>8. CASE Clear \/ Destroy
  <2>1. Lease!CloseIdle /\ UNCHANGED <<held, asked>>
    BY <1>8, ClearCloses DEF Clear, Destroy, threadVars
  <2> QED
    BY <2>1 DEF Lease!Next
<1>9. ASSUME NEW t \in Threads, LookupEmpty(t) \/ LookupMiss(t) \/ Exec(t)
      PROVE  UNCHANGED Lease!vars
  BY <1>9, Stutter DEF LookupEmpty, LookupMiss, Exec, poolVars, threadVars
<1>10. CASE StoreOptions \/ StartServer \/ StopServer \/ Shutdown
  BY <1>10, Stutter DEF StoreOptions, StartServer, StopServer, Shutdown, poolVars, threadVars
<1>11. CASE Terminated \/ UNCHANGED vars \/ \E c \in Conns : Break(c)
  BY <1>11, Stutter DEF Terminated, Break, vars, poolVars, threadVars
<1> QED
  BY <1>1, <1>2, <1>3, <1>4, <1>5, <1>6, <1>7, <1>8, <1>9, <1>10, <1>11
     DEF Next, ThreadStep, MainStep

\* The pool implements ConnectionLease for any number of threads, types and
\* connections and any capacity: whatever the interleaving of look-ups, pushes,
\* clears and failures, queries see exclusive connections of their type.
THEOREM Implements == Spec => LeaseKept
<1>1. Init => Lease!Init
  BY DEF Init, Lease!Init, ToSet
<1>2. Init => Quiet
  BY DEF Init, Quiet
<1> QED
  BY <1>1, <1>2, QuietStep, LeaseStep, Inductive, PTL DEF Spec, LeaseKept, Lease!Spec
=============================================================================
