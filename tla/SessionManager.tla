--------------------------- MODULE SessionManager ---------------------------
(***************************************************************************)
(* Sessions of the server: sl::SessionManager behind sl::UserValidator.    *)
(* A login creates a session, every checked request refreshes it, and it   *)
(* expires when it has not been confirmed for Expire seconds.  Each        *)
(* operation runs under the validator's mutex; login keeps the mutex while *)
(* it asks the database for the password hash, and time passes meanwhile.  *)
(*                                                                         *)
(* A session id is sha256 of a number made by Utils::generateId; sha256 is *)
(* taken to be injective, so the number stands for the id.  Time is counted*)
(* in the ticks generateId sees (milliseconds), TicksPerSecond of which    *)
(* make the seconds in which expiry is counted.  The clock is taken to be  *)
(* monotonic, which system_clock is unless somebody sets it back.          *)
(***************************************************************************)
EXTENDS Naturals

CONSTANTS
    Logins,         \* names users log in with
    Expire,         \* _expire_sec
    TicksPerSecond,
    MaxTime,        \* bound: the clock stops here
    MaxLogins,      \* bound: how many logins are tried
    None

ASSUME ExpireAssumption == Expire \in Nat
ASSUME TicksAssumption == TicksPerSecond \in Nat /\ TicksPerSecond >= 2
ASSUME BoundsAssumption == MaxTime \in Nat \ {0} /\ MaxLogins \in Nat
ASSUME NoneAssumption == None \notin Nat /\ None \notin Logins

Times == 1 .. MaxTime
Ids   == 1 .. MaxTime + 1

\* An answer of checkSession, with the time since the id was last seen, in ticks,
\* and whether a refused one had been removed.
Verdicts == [id : Ids, ok : BOOLEAN, idle : Nat \cup {None}, gone : BOOLEAN]
ASSUME VerdictAssumption == None \notin Verdicts

VARIABLES
    now,        \* system_clock, in ticks
    idBase,     \* Utils::_id_base
    sessions,   \* _sessions: time of the last confirmation of an id, or None
    logins,     \* _logins: id of a login, or None
    busy,       \* the login whose database query holds the validator's mutex
    tried,      \* logins started so far, for the bound only
    verdict,    \* the last answer of checkSession
    lastSeen,   \* history: when each id was last created or confirmed
    refused,    \* history: ids once created that checkSession answered FALSE for
    removed,    \* history: ids removed and not created again since
    givenTo     \* history: the logins each id was given to

history == <<verdict, lastSeen, refused, removed, givenTo>>
vars == <<now, idBase, sessions, logins, busy, tried, history>>

\* One type invariant: maps from ids and logins, absent entries being None.
TypeOK ==
    /\ now \in Times
    /\ idBase \in Ids \cup {0}
    /\ sessions \in [Ids -> Times \cup {None}]
    /\ logins \in [Logins -> Ids \cup {None}]
    /\ busy \in Logins \cup {None}
    /\ tried \in 0 .. MaxLogins
    /\ verdict \in Verdicts \cup {None}
    /\ lastSeen \in [Ids -> Times \cup {None}]
    /\ refused \in SUBSET Ids
    /\ removed \in SUBSET Ids
    /\ givenTo \in [Ids -> SUBSET Logins]

Init ==
    /\ now = 1
    /\ idBase = 0
    /\ sessions = [id \in Ids |-> None]
    /\ logins = [l \in Logins |-> None]
    /\ busy = None
    /\ tried = 0
    /\ verdict = None
    /\ lastSeen = [id \in Ids |-> None]
    /\ refused = {}
    /\ removed = {}
    /\ givenTo = [id \in Ids |-> {}]

-----------------------------------------------------------------------------
\* Helpers of the classes

\* Utils::generateId: the time, or the next number if that is the previous id.
GenerateId == IF now = idBase THEN now + 1 ELSE now

\* Mutant of Expired: the difference is compared without the cast to seconds.
Expired_NoCast(stamp) == now - stamp > Expire * TicksPerSecond

\* duration_cast to seconds truncates, so a session lives until a full second
\* more than Expire has passed.
Expired(stamp) == (now - stamp) \div TicksPerSecond > Expire
Alive(id)      == sessions[id] # None /\ ~Expired(sessions[id])

\* removeSessionById_helper: a login of the id is forgotten; _sessions is left.
RemoveById(id) ==
    IF sessions[id] # None /\ \E l \in Logins : logins[l] = id
    THEN \E l \in Logins : logins[l] = id /\ logins' = [logins EXCEPT ![l] = None]
    ELSE UNCHANGED logins

\* removeSessionByLogin_helper, as a function of _sessions.
WithoutLogin(l) == IF logins[l] = None THEN sessions ELSE [sessions EXCEPT ![logins[l]] = None]

\* The sessions that removal by login is about.
SessionsOf(l) == {id \in Ids : givenTo[id] = {l}}

-----------------------------------------------------------------------------
\* Operations

Tick ==
    /\ now < MaxTime
    /\ now' = now + 1
    /\ UNCHANGED <<idBase, sessions, logins, busy, tried, history>>

\* UserValidator::login takes the mutex and starts getLoginPasswordHash.
LoginStart(l) ==
    /\ busy = None
    /\ tried < MaxLogins
    /\ busy' = l
    /\ tried' = tried + 1
    /\ UNCHANGED <<now, idBase, sessions, logins, history>>

\* The query failed or the password is wrong.
LoginFails ==
    /\ busy # None
    /\ busy' = None
    /\ UNCHANGED <<now, idBase, sessions, logins, tried, history>>

\* createNewSession: a new id, the login's old session is removed, the new one
\* is stamped.  Nothing is ever entered into _logins.
CreateNewSession ==
    /\ busy # None
    /\ idBase' = GenerateId
    /\ sessions' = [WithoutLogin(busy) EXCEPT ![GenerateId] = now]
    /\ logins' = [logins EXCEPT ![busy] = None]
    /\ busy' = None
    /\ lastSeen' = [lastSeen EXCEPT ![GenerateId] = now]
    /\ removed' = (removed \cup SessionsOf(busy)) \ {GenerateId}
    /\ givenTo' = [givenTo EXCEPT ![GenerateId] = @ \cup {busy}]
    /\ UNCHANGED <<now, tried, verdict, refused>>

\* Mutant of CheckSession: the session is confirmed with an empty time_point.
CheckSession_StampZero(id) ==
    /\ busy = None
    /\ sessions' = IF Alive(id) THEN [sessions EXCEPT ![id] = 0] ELSE sessions
    /\ lastSeen' = IF Alive(id) THEN [lastSeen EXCEPT ![id] = now] ELSE lastSeen
    /\ refused' = IF lastSeen[id] # None /\ ~Alive(id) THEN refused \cup {id} ELSE refused
    /\ verdict' = [id |-> id, ok |-> Alive(id),
                    idle |-> IF lastSeen[id] = None THEN None ELSE now - lastSeen[id],
                    gone |-> ~Alive(id) /\ id \in removed]
    /\ UNCHANGED <<now, idBase, logins, busy, tried, removed, givenTo>>

\* UserValidator::checkSession: refresh a live session, forget the login of an
\* expired one.
CheckSession(id) ==
    /\ busy = None
    /\ IF Alive(id)
       THEN /\ sessions' = [sessions EXCEPT ![id] = now]
            /\ lastSeen' = [lastSeen EXCEPT ![id] = now]
            /\ UNCHANGED <<logins, refused>>
       ELSE /\ RemoveById(id)
            /\ refused' = IF lastSeen[id] # None THEN refused \cup {id} ELSE refused
            /\ UNCHANGED <<sessions, lastSeen>>
    /\ verdict' = [id |-> id, ok |-> Alive(id),
                    idle |-> IF lastSeen[id] = None THEN None ELSE now - lastSeen[id],
                    gone |-> ~Alive(id) /\ id \in removed]
    /\ UNCHANGED <<now, idBase, busy, tried, removed, givenTo>>

\* UserValidator::clearSession
ClearSession(id) ==
    /\ busy = None
    /\ RemoveById(id)
    /\ removed' = IF lastSeen[id] # None THEN removed \cup {id} ELSE removed
    /\ UNCHANGED <<now, idBase, sessions, busy, tried, verdict, lastSeen, refused, givenTo>>

\* UserValidator::clearLogin
ClearLogin(l) ==
    /\ busy = None
    /\ sessions' = WithoutLogin(l)
    /\ logins' = [logins EXCEPT ![l] = None]
    /\ removed' = removed \cup SessionsOf(l)
    /\ UNCHANGED <<now, idBase, busy, tried, verdict, lastSeen, refused, givenTo>>

\* Mutant of ClearExpired: the result of the age test is not looked at.
ClearExpired_RefreshAll ==
    /\ sessions' = [id \in Ids |-> IF sessions[id] # None THEN now ELSE None]
    /\ lastSeen' = [id \in Ids |-> IF lastSeen[id] # None THEN now ELSE None]
    /\ logins' = [l \in Logins |-> IF logins[l] # None /\ ~Alive(logins[l]) THEN None ELSE logins[l]]
    /\ UNCHANGED <<now, idBase, busy, tried, verdict, refused, removed, givenTo>>

\* SessionManager::clearExpired: checkSession_helper for every id, which also
\* refreshes the live ones.  It takes the manager's mutex, not the validator's.
ClearExpired ==
    /\ sessions' = [id \in Ids |-> IF Alive(id) THEN now ELSE sessions[id]]
    /\ lastSeen' = [id \in Ids |-> IF Alive(id) THEN now ELSE lastSeen[id]]
    /\ logins' = [l \in Logins |-> IF logins[l] # None /\ ~Alive(logins[l]) THEN None ELSE logins[l]]
    /\ UNCHANGED <<now, idBase, busy, tried, verdict, refused, removed, givenTo>>

Next ==
    \/ Tick
    \/ \E l \in Logins : LoginStart(l) \/ ClearLogin(l)
    \/ LoginFails \/ CreateNewSession
    \/ \E id \in Ids : CheckSession(id) \/ ClearSession(id)
    \/ ClearExpired

Spec == Init /\ [][Next]_vars

-----------------------------------------------------------------------------
\* Properties

\* Whatever logins and checks of others come in between: an accepted session was
\* created or confirmed less than Expire + 1 seconds ago, and a refused one never,
\* or not for so long, or it has been removed.  This is the life that the cast to
\* seconds gives a session; setExpire speaks of Expire seconds, so one may live up
\* to a second longer than its header says, never shorter.  That a removed session
\* is refused is left to RemovedNotAccepted.
ExpiryExact ==
    verdict # None =>
        IF verdict.ok
        THEN verdict.idle # None /\ verdict.idle < (Expire + 1) * TicksPerSecond
        ELSE \/ verdict.idle = None \/ verdict.gone
             \/ verdict.idle >= (Expire + 1) * TicksPerSecond

\* A session once refused is never accepted again, although checkSession leaves
\* it in the map and generateId may hand out a number twice.
RefusedForGood == verdict # None /\ verdict.ok => verdict.id \notin refused

\* A session removed by its id, by its login, or because its login got a new one
\* is not accepted any more.
RemovedNotAccepted == verdict # None /\ verdict.ok => verdict.id \notin removed

\* The sessions keep the promise of SessionBook.  The logins, what removal does
\* to them and the count in whole seconds stutter or vanish under the mapping.
Book == INSTANCE SessionBook WITH
    Lifetime <- (Expire + 1) * TicksPerSecond,
    clock    <- now,
    stamps   <- sessions,
    answer   <- IF verdict = None THEN None ELSE [id |-> verdict.id, ok |-> verdict.ok]

\* An id is accepted for its lifetime, as long as the cast to seconds makes it, from
\* its last grant or confirmation, every check or clean-up confirms exactly the live
\* ones, and an id that has lapsed is not granted again, although generateId may hand
\* out a number twice.
BookKept == Book!Spec

\* createNewSession creates a new session: no two logins ever share one.
SessionOfOneLogin == \A id \in Ids : \A l, m \in givenTo[id] : l = m
=============================================================================
