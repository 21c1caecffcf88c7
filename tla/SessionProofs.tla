----------------------------- MODULE SessionProofs -----------------------------
(***************************************************************************)
(* Theorems of SessionManager and of KeptSession, which extends it.        *)
(*                                                                         *)
(* A session expires exactly when it should, and once refused it stays     *)
(* refused.  Both rest on two facts about the code.  Nothing is ever       *)
(* entered into _logins, so no removal reaches _sessions and the map always*)
(* holds the time an id was last created or confirmed (Stamped).  And an id*)
(* is at most one tick ahead of the clock at its creation, so by the time a*)
(* session is refused generateId is past its id (Forgone).                 *)
(*                                                                         *)
(* For the same reasons SessionManager implements SessionBook: the map is  *)
(* the book's, and no operation of the logins moves it.                    *)
(*                                                                         *)
(* A session that is kept alive is never lost.  Everything the other users *)
(* of SessionManager do can only move the stamp of the kept session        *)
(* forward, since nothing ever reaches _sessions but a creation or a       *)
(* confirmation.  So it is enough to bound, at each place the client can   *)
(* be, the end of the wait it is in by the stamp (Timely): the timer of the*)
(* worker is at most one delay behind the stamp, which is where the login  *)
(* reply counts, and a sleep ends at most one sleep after the interval.    *)
(***************************************************************************)
EXTENDS KeptSession, TLAPS

\* How long an unconfirmed session is accepted, in ticks.
Lifetime == (Expire + 1) * TicksPerSecond

\* _sessions tells when each id was last created or confirmed.
Stamped ==
    /\ logins = [l \in Logins |-> None]
    /\ sessions = lastSeen
    /\ \A id \in Ids : lastSeen[id] # None => lastSeen[id] <= now /\ id <= lastSeen[id] + 1

\* A refused session is past its lifetime.
Forgone == \A id \in refused : lastSeen[id] # None /\ now - lastSeen[id] >= Lifetime

SInv == TypeOK /\ Stamped /\ Forgone /\ ExpiryExact /\ RefusedForGood

\* duration_cast truncates: up to E whole seconds means less than E + 1 seconds.
LEMMA Truncation ==
    ASSUME NEW x \in Nat, NEW E \in Nat, NEW T \in Nat, T > 0
    PROVE  /\ x \div T \in Nat
           /\ x \div T > E <=> x >= (E + 1) * T
<1> DEFINE q == x \div T
<1>1. q \in Nat
  OBVIOUS
<1>2. T * q <= x
  OBVIOUS
<1>3. x - T * q < T
  OBVIOUS
<1>4. ASSUME q > E PROVE x >= (E + 1) * T
  <2> HIDE DEF q
  <2>1. PICK d \in Nat : q = E + 1 + d
    <3>1. q - (E + 1) \in Nat /\ q = E + 1 + (q - (E + 1))
      BY <1>1, <1>4
    <3> QED
      BY <3>1
  <2>2. T * q = (E + 1) * T + T * d
    BY <2>1
  <2>3. T * d \in Nat /\ (E + 1) * T \in Nat
    BY <2>1
  <2> QED
    BY <1>2, <2>2, <2>3
<1>5. ASSUME ~(q > E) PROVE x < (E + 1) * T
  <2> HIDE DEF q
  <2>1. PICK d \in Nat : E = q + d
    <3>1. E - q \in Nat /\ E = q + (E - q)
      BY <1>1, <1>5
    <3> QED
      BY <3>1
  <2>2. (E + 1) * T = T * q + T + T * d
    BY <1>1, <2>1
  <2>3. T * d \in Nat /\ T * q \in Nat
    BY <1>1, <2>1
  <2> QED
    BY <1>3, <2>2, <2>3
<1>6. (E + 1) * T \in Nat
  OBVIOUS
<1> HIDE DEF q
<1>7. q > E <=> x >= (E + 1) * T
  BY <1>1, <1>4, <1>5, <1>6
<1> QED
  BY <1>1, <1>7 DEF q

\* A lifetime is at least two ticks.
LEMMA LifetimeBound == Lifetime \in Nat /\ Lifetime >= 2
<1>1. Expire * TicksPerSecond \in Nat
  BY ExpireAssumption, TicksAssumption
<1>2. Lifetime = Expire * TicksPerSecond + TicksPerSecond
  BY ExpireAssumption, TicksAssumption DEF Lifetime
<1> QED
  BY <1>1, <1>2, TicksAssumption

\* A session is alive while it is younger than its lifetime.
LEMMA AliveMeans ==
    ASSUME TypeOK, Stamped, NEW id \in Ids
    PROVE  /\ lastSeen[id] # None => now - lastSeen[id] \in Nat
           /\ Alive(id) <=> lastSeen[id] # None /\ now - lastSeen[id] < Lifetime
<1>1. CASE lastSeen[id] = None
  BY <1>1 DEF Alive, Stamped
<1>2. CASE lastSeen[id] # None
  <2>1. lastSeen[id] \in Nat /\ now \in Nat /\ lastSeen[id] <= now
    BY <1>2, BoundsAssumption DEF TypeOK, Stamped, Times
  <2>2. now - lastSeen[id] \in Nat
    BY <2>1
  <2>3. Expired(sessions[id]) <=> now - lastSeen[id] >= Lifetime
    BY <2>2, Truncation, ExpireAssumption, TicksAssumption DEF Expired, Lifetime, Stamped
  <2> QED
    BY <1>2, <2>2, <2>3, LifetimeBound DEF Alive, Stamped
<1> QED
  BY <1>1, <1>2

\* generateId is the time or the next number.
LEMMA Generated ==
    ASSUME TypeOK
    PROVE  GenerateId \in Ids /\ GenerateId \in {now, now + 1}
BY BoundsAssumption DEF TypeOK, GenerateId, Times, Ids

\* A refused session's id is never generated again.
LEMMA NotGeneratedAgain ==
    ASSUME TypeOK, Stamped, Forgone
    PROVE  GenerateId \notin refused
<1> SUFFICES ASSUME GenerateId \in refused PROVE FALSE
  OBVIOUS
<1>1. /\ lastSeen[GenerateId] # None
      /\ now - lastSeen[GenerateId] >= Lifetime
      /\ GenerateId <= lastSeen[GenerateId] + 1
  BY Generated DEF Stamped, Forgone
<1>2. lastSeen[GenerateId] \in Nat /\ now \in Nat
  BY <1>1, Generated, BoundsAssumption DEF TypeOK, Times
<1> QED
  BY <1>1, <1>2, Generated, LifetimeBound

\* While every login is unknown, the helpers of removal change nothing.
LEMMA RemovalIsIdle ==
    ASSUME TypeOK, Stamped
    PROVE  /\ \A l \in Logins : WithoutLogin(l) = sessions /\ [logins EXCEPT ![l] = None] = logins
           /\ \A id \in Ids : RemoveById(id) => logins' = logins
<1>1. \A l \in Logins : logins[l] = None
  BY DEF Stamped
<1>2. \A id \in Ids : id # None
  BY NoneAssumption, BoundsAssumption DEF Ids
<1> QED
  BY <1>1, <1>2 DEF TypeOK, WithoutLogin, RemoveById

\* The invariant holds when the server starts ...
LEMMA InitSInv == Init => SInv
BY NoneAssumption, BoundsAssumption
   DEF Init, SInv, TypeOK, Stamped, Forgone, ExpiryExact, RefusedForGood, Times, Ids

\* ... and every operation keeps it.
LEMMA SStep == SInv /\ [Next]_vars => SInv'
<1> SUFFICES ASSUME SInv, [Next]_vars PROVE SInv'
  OBVIOUS
<1> USE NoneAssumption, BoundsAssumption DEF SInv, history
<1>0. /\ TypeOK /\ Stamped /\ Forgone /\ now \in Nat
      /\ sessions \in [Ids -> Times \cup {None}] /\ lastSeen \in [Ids -> Times \cup {None}]
      /\ logins \in [Logins -> Ids \cup {None}]
  BY DEF TypeOK, Times
<1>1. \A id \in Ids : lastSeen[id] # None => lastSeen[id] \in Nat /\ id \in Nat
  BY <1>0 DEF Times, Ids
<1>2. ASSUME Tick PROVE SInv'
  <2>1. /\ now' = now + 1 /\ now' \in Times
        /\ UNCHANGED <<idBase, sessions, logins, busy, tried, verdict, lastSeen, refused, removed, givenTo>>
    BY <1>0, <1>2 DEF Tick, Times
  <2>2. TypeOK'
    BY <2>1 DEF TypeOK
  <2>3. Stamped' /\ Forgone'
    BY <1>0, <1>1, <2>1, LifetimeBound DEF TypeOK, Stamped, Forgone, Lifetime
  <2> QED
    BY <2>1, <2>2, <2>3 DEF ExpiryExact, RefusedForGood
<1>3. ASSUME CreateNewSession PROVE SInv'
  <2> DEFINE new == GenerateId
  <2>1. new \in Ids /\ new \in {now, now + 1} /\ new \notin refused /\ busy \in Logins
    BY <1>0, <1>3, Generated, NotGeneratedAgain DEF CreateNewSession, TypeOK
  <2>2. /\ idBase' = new /\ busy' = None /\ logins' = logins
        /\ sessions' = [sessions EXCEPT ![new] = now]
        /\ lastSeen' = [lastSeen EXCEPT ![new] = now]
        /\ removed' = (removed \cup SessionsOf(busy)) \ {new}
        /\ givenTo' = [givenTo EXCEPT ![new] = @ \cup {busy}]
        /\ UNCHANGED <<now, tried, verdict, refused>>
    BY <1>0, <1>3, <2>1, RemovalIsIdle DEF CreateNewSession
  <2> HIDE DEF new
  <2>3. TypeOK'
    BY <2>1, <2>2 DEF TypeOK, SessionsOf
  <2>4. Stamped'
    BY <1>0, <1>1, <2>1, <2>2 DEF Stamped
  <2>5. Forgone'
    BY <1>0, <2>1, <2>2 DEF Forgone, TypeOK, Lifetime
  <2> QED
    BY <2>2, <2>3, <2>4, <2>5 DEF ExpiryExact, RefusedForGood
<1>4. ASSUME NEW id \in Ids, CheckSession(id) PROVE SInv'
  <2>1. /\ Alive(id) <=> lastSeen[id] # None /\ now - lastSeen[id] < Lifetime
        /\ lastSeen[id] # None => now - lastSeen[id] \in Nat
        /\ Alive(id) \in BOOLEAN
    BY <1>0, AliveMeans DEF Alive
  <2>2. /\ verdict' = [id |-> id, ok |-> Alive(id),
                       idle |-> IF lastSeen[id] = None THEN None ELSE now - lastSeen[id],
                       gone |-> ~Alive(id) /\ id \in removed]
        /\ logins' = logins
        /\ UNCHANGED <<now, idBase, busy, tried, removed, givenTo>>
    BY <1>0, <1>4, RemovalIsIdle DEF CheckSession
  <2>3. ExpiryExact'
    <3>1. /\ verdict'.ok = Alive(id)
          /\ verdict'.idle = IF lastSeen[id] = None THEN None ELSE now - lastSeen[id]
      BY <2>2
    <3> QED
      BY <2>1, <3>1, LifetimeBound DEF ExpiryExact, Lifetime
  <2>4. CASE Alive(id)
    <3>1. /\ sessions' = [sessions EXCEPT ![id] = now] /\ lastSeen' = [lastSeen EXCEPT ![id] = now]
          /\ refused' = refused
      BY <1>4, <2>4 DEF CheckSession
    <3>2. id \notin refused
      BY <1>0, <1>1, <2>1, <2>4, LifetimeBound DEF Forgone
    <3>3. TypeOK'
      BY <2>1, <2>2, <3>1 DEF TypeOK, Verdicts
    <3>4. Stamped' /\ Forgone'
      BY <1>0, <1>1, <2>1, <2>2, <2>4, <3>1, <3>2 DEF Stamped, Forgone, Lifetime, TypeOK
    <3> QED
      BY <2>2, <2>3, <3>1, <3>2, <3>3, <3>4 DEF RefusedForGood
  <2>5. CASE ~Alive(id)
    <3>1. /\ UNCHANGED <<sessions, lastSeen>>
          /\ refused' = IF lastSeen[id] # None THEN refused \cup {id} ELSE refused
      BY <1>4, <2>5 DEF CheckSession
    <3>2. TypeOK'
      BY <2>1, <2>2, <3>1 DEF TypeOK, Verdicts
    <3>3. Stamped' /\ Forgone'
      BY <1>0, <1>1, <2>1, <2>2, <2>5, <3>1, LifetimeBound DEF Stamped, Forgone, Lifetime
    <3> QED
      BY <2>2, <2>3, <2>5, <3>1, <3>2, <3>3 DEF RefusedForGood
  <2> QED
    BY <2>4, <2>5
<1>5. ASSUME ClearExpired PROVE SInv'
  <2>1. /\ lastSeen' = [id \in Ids |-> IF Alive(id) THEN now ELSE lastSeen[id]]
        /\ sessions' = lastSeen' /\ logins' = logins
        /\ UNCHANGED <<now, idBase, busy, tried, verdict, refused, removed, givenTo>>
    BY <1>0, <1>5 DEF ClearExpired, Stamped
  <2>2. \A id \in refused : ~Alive(id) /\ id \in Ids
    BY <1>0, <1>1, AliveMeans, LifetimeBound DEF Forgone, TypeOK
  <2>3. TypeOK'
    BY <2>1 DEF TypeOK
  <2>4. Stamped'
    <3>1. \A id \in Ids : lastSeen'[id] = now \/ lastSeen'[id] = lastSeen[id]
      BY <2>1
    <3>2. \A id \in Ids : Alive(id) => id <= now + 1
      BY <1>0, <1>1, AliveMeans DEF Stamped
    <3> QED
      BY <1>0, <1>1, <2>1, <3>2 DEF Stamped
  <2>5. Forgone'
    BY <1>0, <2>1, <2>2 DEF Forgone, Lifetime
  <2> QED
    BY <2>1, <2>3, <2>4, <2>5 DEF ExpiryExact, RefusedForGood
<1>6. ASSUME NEW l \in Logins, LoginStart(l) PROVE SInv'
  BY <1>6 DEF LoginStart, TypeOK, Stamped, Forgone, ExpiryExact, RefusedForGood, Lifetime
<1>7. ASSUME NEW l \in Logins, ClearLogin(l) PROVE SInv'
  <2>1. /\ removed' = removed \cup SessionsOf(l)
        /\ UNCHANGED <<now, idBase, sessions, logins, busy, tried, verdict, lastSeen, refused, givenTo>>
    BY <1>0, <1>7, RemovalIsIdle DEF ClearLogin
  <2> QED
    BY <2>1 DEF TypeOK, SessionsOf, Stamped, Forgone, ExpiryExact, RefusedForGood, Lifetime
<1>8. ASSUME LoginFails PROVE SInv'
  BY <1>8 DEF LoginFails, TypeOK, Stamped, Forgone, ExpiryExact, RefusedForGood, Lifetime
<1>9. ASSUME NEW id \in Ids, ClearSession(id) PROVE SInv'
  <2>1. /\ removed' \in {removed, removed \cup {id}}
        /\ UNCHANGED <<now, idBase, sessions, logins, busy, tried, verdict, lastSeen, refused, givenTo>>
    BY <1>0, <1>9, RemovalIsIdle DEF ClearSession
  <2> QED
    BY <2>1 DEF TypeOK, Stamped, Forgone, ExpiryExact, RefusedForGood, Lifetime
<1>10. CASE UNCHANGED vars
  BY <1>10 DEF vars, TypeOK, Stamped, Forgone, ExpiryExact, RefusedForGood, Lifetime
<1> QED
  BY <1>2, <1>3, <1>4, <1>5, <1>6, <1>7, <1>8, <1>9, <1>10 DEF Next

\* For any lifetime, clock rate, logins and ids.
THEOREM SessionsInductive == Spec => []SInv
  BY InitSInv, SStep, PTL DEF Spec

\* Every variable keeps its type.
THEOREM SessionTypes == Spec => []TypeOK
<1>1. SInv => TypeOK
  BY DEF SInv
<1> QED
  BY <1>1, SessionsInductive, PTL

\* A session is accepted only while less than Expire + 1 seconds have passed since
\* it was created or confirmed, and one that has not been removed is refused only
\* from then on.
THEOREM ExpiresExactly == Spec => []ExpiryExact
<1>1. SInv => ExpiryExact
  BY DEF SInv
<1> QED
  BY <1>1, SessionsInductive, PTL

\* A session refused once is never accepted again, under no reuse of its id.
THEOREM StaysRefused == Spec => []RefusedForGood
<1>1. SInv => RefusedForGood
  BY DEF SInv
<1> QED
  BY <1>1, SessionsInductive, PTL

-----------------------------------------------------------------------------
\* The book the sessions keep

\* What is alive for the code is live in the book.
LEMMA LiveIsAlive ==
    ASSUME TypeOK, Stamped, NEW id \in Ids
    PROVE  Book!Live(id) <=> Alive(id)
BY AliveMeans DEF Stamped, Book!Live, Lifetime

\* The book's verdict is a function of verdict.
LEMMA AnswerKept == ASSUME UNCHANGED <<now, sessions, verdict>> PROVE UNCHANGED Book!vars
BY DEF Book!vars

\* A generated id has not lapsed: had it been stamped, then a tick ago at most.
LEMMA GeneratedIsGrantable ==
    ASSUME TypeOK, Stamped
    PROVE  ~Book!Lapsed(GenerateId)
<1> SUFFICES ASSUME sessions[GenerateId] # None PROVE Book!Live(GenerateId)
  BY DEF Book!Lapsed
<1>1. lastSeen[GenerateId] \in Nat /\ now \in Nat
  BY Generated, BoundsAssumption DEF TypeOK, Times, Stamped
<1>2. GenerateId <= lastSeen[GenerateId] + 1
  BY Generated DEF Stamped
<1>3. now - lastSeen[GenerateId] < Lifetime
  BY <1>1, <1>2, Generated, LifetimeBound
<1> QED
  BY <1>3 DEF Book!Live, Stamped, Lifetime

\* A check confirms a live id and answers what the book would.
LEMMA CheckIsBooked ==
    ASSUME SInv, NEW id \in Ids, CheckSession(id)
    PROVE  Book!Check(id)
<1> USE DEF SInv
<1>1. Book!Live(id) <=> Alive(id)
  BY LiveIsAlive
<1>2. now' = now
  BY DEF CheckSession
<1>3. /\ verdict' # None /\ verdict'.id = id /\ verdict'.ok = Book!Live(id)
  <2>1. verdict' = [id |-> id, ok |-> Alive(id),
                    idle |-> IF lastSeen[id] = None THEN None ELSE now - lastSeen[id],
                    gone |-> ~Alive(id) /\ id \in removed]
    BY DEF CheckSession
  <2>2. verdict' \in Verdicts
    <3>1. /\ Alive(id) \in BOOLEAN
          /\ lastSeen[id] # None => now - lastSeen[id] \in Nat
      BY AliveMeans DEF Alive
    <3> QED
      BY <2>1, <3>1 DEF Verdicts
  <2> QED
    BY <1>1, <2>1, <2>2, VerdictAssumption DEF Book!Live, Alive
<1>4. sessions' = IF Book!Live(id) THEN [sessions EXCEPT ![id] = now] ELSE sessions
  BY <1>1 DEF CheckSession
<1> QED
  BY <1>2, <1>3, <1>4 DEF Book!Check

\* Every operation is one of the book or leaves it alone.
LEMMA BookStep == SInv /\ [Next]_vars => [Book!Next]_Book!vars
<1> SUFFICES ASSUME SInv, [Next]_vars PROVE Book!Next \/ UNCHANGED Book!vars
  OBVIOUS
<1> USE DEF history
<1>0. TypeOK /\ Stamped
  BY DEF SInv
<1>1. ASSUME Tick PROVE Book!Next
  BY <1>1 DEF Tick, Book!Next, Book!Pass
<1>2. ASSUME CreateNewSession PROVE Book!Next
  <2>1. /\ sessions' = [sessions EXCEPT ![GenerateId] = now]
        /\ UNCHANGED <<now, verdict>>
    BY <1>0, <1>2, RemovalIsIdle DEF CreateNewSession, TypeOK
  <2>2. Book!Grant(GenerateId)
    BY <1>0, <2>1, GeneratedIsGrantable DEF Book!Grant
  <2> QED
    BY <1>0, <2>2, Generated DEF Book!Next
<1>3. ASSUME NEW id \in Ids, CheckSession(id) PROVE Book!Next
  BY <1>3, CheckIsBooked DEF Book!Next
<1>4. ASSUME ClearExpired PROVE Book!Next
  <2>1. \A id \in Ids : Book!Live(id) <=> Alive(id)
    BY <1>0, LiveIsAlive
  <2>2. sessions' = [id \in Ids |-> IF Book!Live(id) THEN now ELSE sessions[id]]
    BY <1>4, <2>1 DEF ClearExpired
  <2> QED
    BY <1>4, <2>2 DEF ClearExpired, Book!ConfirmAll, Book!Next
<1>5. ASSUME NEW l \in Logins, LoginStart(l) \/ ClearLogin(l) PROVE UNCHANGED Book!vars
  BY <1>0, <1>5, RemovalIsIdle, AnswerKept DEF LoginStart, ClearLogin
<1>6. ASSUME LoginFails PROVE UNCHANGED Book!vars
  BY <1>6, AnswerKept DEF LoginFails
<1>7. ASSUME NEW id \in Ids, ClearSession(id) PROVE UNCHANGED Book!vars
  BY <1>7, AnswerKept DEF ClearSession
<1>8. CASE UNCHANGED vars
  BY <1>8, AnswerKept DEF vars
<1> QED
  BY <1>1, <1>2, <1>3, <1>4, <1>5, <1>6, <1>7, <1>8 DEF Next

\* SessionManager implements SessionBook, for any logins, lifetime and clock rate.
THEOREM KeepsTheBook == Spec => BookKept
<1>1. Init => Book!Init
  BY DEF Init, Book!Init
<1>2. SInv /\ [Next]_vars => [Book!Next]_Book!vars
  BY BookStep
<1> QED
  BY <1>1, <1>2, SessionsInductive, PTL DEF Spec, BookKept, Book!Spec

-----------------------------------------------------------------------------
\* The client that keeps its session

\* The condition under which connect() chose its interval: two delays and a
\* sleep fit between the confirmation and the expiry of a session.
MarginSuffices == 2 * MaxDelay + PollTicks <= (Expire - Interval) * TicksPerSecond

\* The longest the worker waits before it asks, counted in ticks from its timer.
LongestWait == (Interval + 1) * TicksPerSecond - 1

Stamp == sessions[client.id]

Timely ==
    client.at \notin {"off", "lost"} =>
        /\ Stamp # None
        /\ now <= client.due
        /\ client.timer <= now
        /\ client.timer <= Stamp + MaxDelay \/ client.at = "asking"
        /\ client.at \in {"login", "told"} => client.due <= Stamp + MaxDelay
        /\ client.at = "sleeping" => client.due <= Stamp + MaxDelay + PollTicks + LongestWait
        /\ client.at = "asking" => client.due <= Stamp + 2 * MaxDelay + PollTicks + LongestWait

\* What holds whether the margin suffices or not.
HasId   == client.at # "off" => client.id \in Ids
BaseInv == SInv /\ KeptTypeOK /\ HasId

KInv == BaseInv /\ Timely /\ KeptNeverLost

\* The numbers the margin is about.
LEMMA Margins ==
    ASSUME MarginSuffices
    PROVE  /\ Interval \in Nat /\ LongestWait \in Nat
           /\ PollTicks \in Nat /\ MaxDelay \in Nat /\ Lifetime \in Nat
           /\ 2 * MaxDelay + PollTicks + LongestWait < Lifetime
<1>1. Interval \in Nat /\ Interval <= Expire
  BY ExpireAssumption DEF Interval
<1>2. PollTicks \in Nat /\ MaxDelay \in Nat /\ TicksPerSecond \in Nat /\ Expire \in Nat
  BY PollAssumption, TicksAssumption, ExpireAssumption
<1>3. Interval * TicksPerSecond \in Nat /\ Expire * TicksPerSecond \in Nat
  BY <1>1, <1>2
<1>4. /\ LongestWait = Interval * TicksPerSecond + TicksPerSecond - 1
      /\ Lifetime = Expire * TicksPerSecond + TicksPerSecond
      /\ (Expire - Interval) * TicksPerSecond = Expire * TicksPerSecond - Interval * TicksPerSecond
  BY <1>1, <1>2 DEF LongestWait, Lifetime
<1>5. LongestWait \in Nat
  BY <1>3, <1>4, TicksAssumption
<1> QED
  BY <1>1, <1>2, <1>3, <1>4, <1>5, LifetimeBound DEF MarginSuffices

\* No operation on the sessions takes a confirmation back.
LEMMA StampsForward ==
    ASSUME SInv, Next, NEW id \in Ids, sessions[id] # None
    PROVE  /\ sessions'[id] # None
           /\ sessions'[id] >= sessions[id]
<1> USE NoneAssumption, BoundsAssumption DEF SInv, history
<1>0. /\ TypeOK /\ Stamped /\ now \in Nat /\ now # None
      /\ sessions[id] \in Nat /\ sessions[id] <= now
  BY DEF TypeOK, Times, Stamped
<1>1. CASE sessions'[id] = sessions[id]
  BY <1>0, <1>1
<1>2. CASE sessions'[id] = now
  BY <1>0, <1>2
<1>3. ASSUME CreateNewSession PROVE sessions'[id] \in {sessions[id], now}
  BY <1>0, <1>3, RemovalIsIdle, Generated DEF CreateNewSession, TypeOK
<1>4. ASSUME NEW d \in Ids, CheckSession(d) PROVE sessions'[id] \in {sessions[id], now}
  BY <1>0, <1>4 DEF CheckSession, TypeOK
<1>5. ASSUME ClearExpired PROVE sessions'[id] \in {sessions[id], now}
  BY <1>5 DEF ClearExpired
<1>6. ASSUME NEW l \in Logins, ClearLogin(l) PROVE sessions'[id] = sessions[id]
  BY <1>0, <1>6, RemovalIsIdle DEF ClearLogin
<1>7. ASSUME \/ Tick \/ LoginFails
             \/ \E l \in Logins : LoginStart(l)
             \/ \E d \in Ids : ClearSession(d)
      PROVE  sessions'[id] = sessions[id]
  BY <1>7 DEF Tick, LoginFails, LoginStart, ClearSession
<1> QED
  BY <1>1, <1>2, <1>3, <1>4, <1>5, <1>6, <1>7 DEF Next

\* Each assignment to the client keeps its type.
LEMMA Moved ==
    ASSUME client \in ClientState, NEW a \in KeepAlivePc, NEW d \in Nat
    PROVE  /\ [client EXCEPT !.due = d] \in ClientState
           /\ [client EXCEPT !.at = a, !.due = d] \in ClientState
           /\ \A t \in Times : [client EXCEPT !.at = a, !.timer = t, !.due = d] \in ClientState
BY DEF ClientState

\* Every step of the client is one of the server or none, and keeps the types.
LEMMA BaseStep == BaseInv /\ [KeptNext]_keptVars => [Next]_vars /\ BaseInv'
<1> SUFFICES ASSUME BaseInv, [KeptNext]_keptVars PROVE [Next]_vars /\ BaseInv'
  OBVIOUS
<1> USE DEF BaseInv, HasId
<1>1. /\ now \in Times /\ now + MaxDelay \in Nat /\ now + PollTicks \in Nat
      /\ TypeOK /\ client \in ClientState
  BY BoundsAssumption, PollAssumption DEF SInv, TypeOK, Times, KeptTypeOK
<1>2. ASSUME LoginHandled PROVE Next /\ client' \in ClientState /\ HasId'
  <2>1. client' = [at |-> "login", id |-> GenerateId, timer |-> 0, due |-> now + MaxDelay]
    BY <1>2 DEF LoginHandled
  <2>2. GenerateId \in Ids
    BY <1>1, Generated
  <2> QED
    BY <1>1, <1>2, <2>1, <2>2 DEF LoginHandled, Next, ClientState, KeepAlivePc
<1>3. ASSUME StartKeeping \/ Wake \/ KeepAliveOk
      PROVE  vars' = vars /\ client' \in ClientState /\ HasId'
  <2>1. /\ {"sleeping", "asking"} \subseteq KeepAlivePc
        /\ client.at \in {"login", "sleeping", "told"} /\ vars' = vars
    BY <1>3 DEF KeepAlivePc, StartKeeping, Wake, KeepAliveOk
  <2>2. client'.id = client.id
    BY <1>1, <1>3 DEF StartKeeping, Wake, KeepAliveOk, ClientState
  <2>3. CASE StartKeeping
    <3>1. client' = [client EXCEPT !.at = "sleeping", !.timer = now, !.due = now + PollTicks]
      BY <2>3 DEF StartKeeping
    <3>2. "sleeping" \in KeepAlivePc
      BY <2>1
    <3>3. client' \in ClientState
      BY <1>1, <3>1, <3>2, Moved
    <3> QED
      BY <2>1, <2>2, <3>3
  <2>4. CASE Wake
    <3>1. \/ client' = [client EXCEPT !.at = "asking", !.timer = now, !.due = now + MaxDelay]
          \/ client' = [client EXCEPT !.due = now + PollTicks]
      BY <2>4 DEF Wake
    <3>2. "asking" \in KeepAlivePc
      BY <2>1
    <3>3. /\ [client EXCEPT !.at = "asking", !.timer = now, !.due = now + MaxDelay] \in ClientState
          /\ [client EXCEPT !.due = now + PollTicks] \in ClientState
      BY <1>1, <3>2, Moved
    <3> QED
      BY <2>1, <2>2, <3>1, <3>3
  <2>5. CASE KeepAliveOk
    <3>1. client' = [client EXCEPT !.at = "sleeping", !.due = now + PollTicks]
      BY <2>5 DEF KeepAliveOk
    <3> QED
      BY <1>1, <2>1, <2>2, <3>1, Moved
  <2> QED
    BY <1>3, <2>3, <2>4, <2>5
<1>4. ASSUME KeepAliveHandled PROVE Next /\ client' \in ClientState /\ HasId'
  <2>1. /\ {"told", "lost"} \subseteq KeepAlivePc
        /\ client.id \in Ids /\ CheckSession(client.id)
    BY <1>4 DEF KeepAlivePc, KeepAliveHandled
  <2>2. /\ client'.id = client.id
        /\ \E a \in KeepAlivePc, d \in Nat : client' = [client EXCEPT !.at = a, !.due = d]
    BY <1>1, <1>4, <2>1 DEF KeepAliveHandled, ClientState
  <2>3. client' \in ClientState
    BY <1>1, <2>2, Moved
  <2> QED
    BY <2>1, <2>2, <2>3 DEF Next
<1>5. ASSUME \/ Pass
             \/ /\ \/ \E l \in Logins : LoginStart(l) \/ ClearLogin(l)
                   \/ LoginFails \/ CreateNewSession
                   \/ \E id \in Ids : CheckSession(id) \/ ClearSession(id)
                   \/ ClearExpired
                /\ UNCHANGED client
             \/ UNCHANGED keptVars
      PROVE  [Next]_vars /\ client' \in ClientState /\ HasId'
  <2>1. [Next]_vars /\ client' = client
    BY <1>5 DEF Next, Pass, keptVars
  <2> QED
    BY <1>1, <2>1
<1>6. [Next]_vars /\ client' \in ClientState /\ HasId'
  BY <1>2, <1>3, <1>4, <1>5 DEF KeptNext
<1> QED
  BY <1>6, SStep DEF SInv, KeptTypeOK

\* Before the login there is nothing to keep.
LEMMA KInit == KeptInit => KInv
BY InitSInv, NoneAssumption DEF KeptInit, KInv, BaseInv, HasId, SInv, KeptTypeOK, ClientState,
                                KeepAlivePc, Timely, KeptNeverLost

\* Every step leaves the client in time for its next confirmation.
LEMMA KStep == MarginSuffices /\ KInv /\ [KeptNext]_keptVars => KInv'
<1> SUFFICES ASSUME MarginSuffices, KInv, [KeptNext]_keptVars PROVE KInv'
  OBVIOUS
<1> USE NoneAssumption, BoundsAssumption DEF KInv, BaseInv, HasId
<1>0. BaseInv' /\ TypeOK'
  BY BaseStep DEF SInv
<1>1. /\ TypeOK /\ now \in Nat /\ now' \in Nat
      /\ client \in ClientState /\ client.due \in Nat /\ client.timer \in Nat
      /\ \A id \in Ids : sessions[id] # None => sessions[id] \in Nat /\ sessions[id] <= now
      /\ \A id \in Ids : sessions'[id] # None => sessions'[id] \in Nat
  BY <1>0 DEF SInv, TypeOK, Times, KeptTypeOK, ClientState, Stamped
<1>2. /\ Interval \in Nat /\ LongestWait \in Nat /\ PollTicks \in Nat /\ MaxDelay \in Nat
      /\ Lifetime \in Nat /\ 2 * MaxDelay + PollTicks + LongestWait < Lifetime
  BY Margins
<1> SUFFICES Timely' /\ KeptNeverLost'
  BY <1>0
<1>3. ASSUME LoginHandled PROVE Timely' /\ KeptNeverLost'
  <2>1. client' = [at |-> "login", id |-> GenerateId, timer |-> 0, due |-> now + MaxDelay]
    BY <1>3 DEF LoginHandled
  <2>2. now' = now /\ GenerateId \in Ids /\ sessions'[GenerateId] = now
    BY <1>1, <1>3, Generated, RemovalIsIdle DEF LoginHandled, CreateNewSession, TypeOK, SInv
  <2>3. Timely'
    BY <1>1, <1>2, <2>1, <2>2 DEF Timely, Stamp
  <2> QED
    BY <2>1, <2>3 DEF KeptNeverLost
<1>4. ASSUME StartKeeping PROVE Timely' /\ KeptNeverLost'
  <2>1. /\ client.at = "login" /\ UNCHANGED <<now, sessions>>
        /\ client' = [client EXCEPT !.at = "sleeping", !.timer = now, !.due = now + PollTicks]
    BY <1>4 DEF StartKeeping, vars
  <2>2. /\ client'.at = "sleeping" /\ client'.id = client.id
        /\ client'.timer = now /\ client'.due = now + PollTicks
    BY <1>1, <2>1 DEF ClientState
  <2>3. Timely'
    BY <1>1, <1>2, <2>1, <2>2 DEF Timely, Stamp
  <2> QED
    BY <2>2, <2>3 DEF KeptNeverLost
<1>5. ASSUME Wake PROVE Timely' /\ KeptNeverLost'
  <2>1. client.at = "sleeping" /\ now = client.due /\ UNCHANGED <<now, sessions>>
    BY <1>5 DEF Wake, vars
  <2>2. /\ Stamp \in Nat /\ client.timer <= Stamp + MaxDelay /\ client.timer <= now
        /\ now <= Stamp + MaxDelay + PollTicks + LongestWait
        /\ client.id \in Ids /\ Stamp # None /\ Stamp <= now
    BY <1>1, <2>1 DEF Timely, Stamp
  <2>3. CASE (now - client.timer) \div TicksPerSecond > Interval
    <3>1. client' = [client EXCEPT !.at = "asking", !.timer = now, !.due = now + MaxDelay]
      BY <1>5, <2>3 DEF Wake
    <3>2. /\ client'.at = "asking" /\ client'.id = client.id
          /\ client'.timer = now /\ client'.due = now + MaxDelay
      BY <1>1, <3>1 DEF ClientState
    <3>3. Stamp' = Stamp
      BY <2>1, <3>2 DEF Stamp
    <3>4. Timely'
      BY <1>1, <1>2, <2>1, <2>2, <3>2, <3>3 DEF Timely
    <3> QED
      BY <3>2, <3>4 DEF KeptNeverLost
  <2>4. CASE ~((now - client.timer) \div TicksPerSecond > Interval)
    <3>1. client' = [client EXCEPT !.due = now + PollTicks]
      BY <1>5, <2>4 DEF Wake
    <3>2. /\ client'.at = "sleeping" /\ client'.id = client.id
          /\ client'.timer = client.timer /\ client'.due = now + PollTicks
      BY <1>1, <2>1, <3>1 DEF ClientState
    <3>3. Stamp' = Stamp
      BY <2>1, <3>2 DEF Stamp
    <3>4. now - client.timer \in Nat
      BY <1>1, <2>2
    <3>5. now - client.timer < (Interval + 1) * TicksPerSecond
      BY <1>2, <2>4, <3>4, Truncation, TicksAssumption
    <3>6. (Interval + 1) * TicksPerSecond \in Nat
      BY <1>2, TicksAssumption
    <3>7. now <= client.timer + LongestWait
      BY <1>1, <3>5, <3>6 DEF LongestWait
    <3>8. Timely'
      BY <1>1, <1>2, <2>1, <2>2, <3>2, <3>3, <3>7 DEF Timely
    <3> QED
      BY <3>2, <3>8 DEF KeptNeverLost
  <2> QED
    BY <2>3, <2>4
<1>6. ASSUME KeepAliveHandled PROVE Timely' /\ KeptNeverLost'
  <2>1. client.at = "asking" /\ client.id \in Ids /\ Stamp # None /\ Stamp \in Nat /\ now' = now
        /\ now <= Stamp + 2 * MaxDelay + PollTicks + LongestWait /\ client.timer <= now
    BY <1>1, <1>2, <1>6 DEF KeepAliveHandled, CheckSession, Timely, Stamp
  <2>2. now - Stamp < Lifetime
    BY <1>1, <1>2, <2>1
  <2>3. Alive(client.id)
    BY <2>1, <2>2, AliveMeans DEF SInv, Stamped, Stamp
  <2>4. sessions' = [sessions EXCEPT ![client.id] = now]
    BY <1>6, <2>3 DEF KeepAliveHandled, CheckSession
  <2>5. client' = [client EXCEPT !.at = "told", !.due = now + MaxDelay]
    BY <1>6, <2>3 DEF KeepAliveHandled
  <2>6. /\ client'.at = "told" /\ client'.id = client.id
        /\ client'.timer = client.timer /\ client'.due = now + MaxDelay
    BY <1>1, <2>5 DEF ClientState
  <2>7. Stamp' = now
    BY <1>1, <2>1, <2>4, <2>6 DEF Stamp, TypeOK
  <2>8. Timely'
    BY <1>1, <1>2, <2>1, <2>6, <2>7 DEF Timely
  <2> QED
    BY <2>6, <2>8 DEF KeptNeverLost
<1>7. ASSUME KeepAliveOk PROVE Timely' /\ KeptNeverLost'
  <2>1. /\ client.at = "told" /\ UNCHANGED <<now, sessions>>
        /\ client' = [client EXCEPT !.at = "sleeping", !.due = now + PollTicks]
    BY <1>7 DEF KeepAliveOk, vars
  <2>2. /\ client'.at = "sleeping" /\ client'.id = client.id
        /\ client'.timer = client.timer /\ client'.due = now + PollTicks
    BY <1>1, <2>1 DEF ClientState
  <2>3. Timely'
    BY <1>1, <1>2, <2>1, <2>2 DEF Timely, Stamp
  <2> QED
    BY <2>2, <2>3 DEF KeptNeverLost
<1>8. ASSUME Next, client' = client, now' = now
      PROVE  Timely' /\ KeptNeverLost'
  <2>1. client.at \notin {"off", "lost"} => Stamp' # None /\ Stamp' >= Stamp
    BY <1>8, StampsForward DEF Timely, Stamp
  <2>2. client.at \notin {"off", "lost"} => Stamp \in Nat /\ Stamp' \in Nat
    BY <1>1, <1>8, <2>1 DEF Timely, Stamp
  <2>3. Timely'
    BY <1>1, <1>2, <1>8, <2>1, <2>2 DEF Timely
  <2> QED
    BY <1>1, <1>8, <2>3 DEF KeptNeverLost
<1>9. ASSUME Pass PROVE Timely' /\ KeptNeverLost'
  <2>1. /\ now' = now + 1 /\ UNCHANGED <<sessions, client>>
        /\ client.at \in {"off", "lost"} \/ now < client.due
    BY <1>9 DEF Pass, Tick
  <2>2. Stamp' = Stamp
    BY <2>1 DEF Stamp
  <2>3. Timely'
    BY <1>1, <2>1, <2>2 DEF Timely
  <2> QED
    BY <1>1, <2>1, <2>3 DEF KeptNeverLost
<1>10. CASE UNCHANGED keptVars
  <2>1. UNCHANGED <<now, sessions, client>>
    BY <1>10 DEF keptVars, vars
  <2>2. Stamp' = Stamp
    BY <2>1 DEF Stamp
  <2> QED
    BY <1>1, <2>1, <2>2 DEF Timely, KeptNeverLost
<1>11. ASSUME \/ \E l \in Logins : LoginStart(l) \/ ClearLogin(l)
              \/ LoginFails \/ CreateNewSession
              \/ \E id \in Ids : CheckSession(id) \/ ClearSession(id)
              \/ ClearExpired
       PROVE  Next /\ now' = now
  BY <1>11 DEF Next, LoginStart, ClearLogin, LoginFails, CreateNewSession, CheckSession,
               ClearSession, ClearExpired
<1> QED
  BY <1>3, <1>4, <1>5, <1>6, <1>7, <1>8, <1>9, <1>10, <1>11 DEF KeptNext

\* The inductive invariant without the margin.
LEMMA BaseInductive == KeptSpec => []BaseInv
<1>1. KeptInit => BaseInv
  BY KInit DEF KInv
<1>2. BaseInv /\ [KeptNext]_keptVars => BaseInv'
  BY BaseStep
<1> QED
  BY <1>1, <1>2, PTL DEF KeptSpec

\* The sessions of a server with a client that keeps its own are sessions like
\* any: what is proved of SessionManager holds here.
THEOREM KeptImplements == KeptSpec => Spec
<1>1. KeptInit => Init
  BY DEF KeptInit
<1>2. BaseInv /\ [KeptNext]_keptVars => [Next]_vars
  BY BaseStep
<1> QED
  BY <1>1, <1>2, BaseInductive, PTL DEF KeptSpec, Spec

\* Every variable keeps its type, the client's too.
THEOREM KeptTypes == KeptSpec => []KeptTypeOK
<1>1. BaseInv => KeptTypeOK
  BY DEF BaseInv
<1> QED
  BY <1>1, BaseInductive, PTL

\* The kept session is never lost, for any lifetime, clock rate, sleep and delay
\* that leave the margin, whatever the other users do.
THEOREM NeverLost == MarginSuffices => (KeptSpec => []KeptNeverLost)
<1>1. ASSUME MarginSuffices PROVE KeptSpec => []KeptNeverLost
  <2>1. KeptInit => KInv
    BY KInit
  <2>2. KInv /\ [KeptNext]_keptVars => KInv'
    BY <1>1, KStep
  <2>3. KInv => KeptNeverLost
    BY DEF KInv
  <2> QED
    BY <2>1, <2>2, <2>3, PTL DEF KeptSpec
<1> QED
  BY <1>1
=============================================================================
