# Verification of grpc-multithreaded-server

TLA+ models of this repository, the TLC instances that check them and the
proofs of the most important properties for every value of their parameters.
Paths are relative to the repository (`src/...`).

## 1. The system

A prototype of an asynchronous multithreaded gRPC server over PostgreSQL, with
the libraries it is built from and a client library.

| Part | State | Operations | Module |
|---|---|---|---|
| `server_lib/sl_server`: `Server` | the gRPC server, the completion queue, the server thread, the workers | `start`, `process`, `stop` | RequestServer, CallService |
| `server_lib/sl_request_worker`: `RequestWorker`, `hrs_request_worker` | thread, stop flag, pool of processors | `runRequestProcessorsPool`, `process`, `stopRequest`, `stopWait`, `extractUserValidationInfo` | RequestServer |
| `server_lib/sl_request_processor.h`: `RequestProcessor` | `_status`, context, request, reply | `run`: CREATE, PROCESS, FINISH | RequestServer |
| same file: `StreamProcessor` | the same, several writes | `run`: rounds of PROCESS, each with a Write | StreamServer |
| `server_lib/sl_session_manager`, `sl_auth`: `SessionManager`, `UserValidator` | `_sessions`, `_logins`, two mutexes | `login`, `checkSession`, `clearSession`, `clearLogin`, `clearExpired` | SessionManager, SessionBook |
| `utils/sl_sha256`: `generateId`, `sha256` | `_id_base` | `generateId` | SessionManager; sha256 not modelled |
| `sql_lib/sl_connection_pool` with `plugins/psql` | map of queues, options, shutdown flag; per connection the libpq status | `setConnectionOptions`, `getQuery`, `getConnection`, `freeConnection`, `clear`, `shutdown`, destructor | ConnectionPool, ConnectionLease |
| `sql_lib/sl_binder`: `Binder`, `BinderParser` | template, values, the finished text and two flags | `prepare`, `bind`, `unbind`, `clearBinds`, `sql`, `clear` | SqlBinder |
| `hrs_server/client_lib`: `ClientChannel`, `KeepAliveWorker`, `SqlRequest` | static channel, session, worker, callback, stub; keep-alive thread | `connect`, `disconnect`, `setCallback`, `instance`, `createContext`, `keepAlive`, `exec` | ClientChannel; the timer in KeptSession, `exec` in SqlExchange |
| `utils/sl_stoppable_worker` | a promise | `stopRequest`, `isStopRequested` | ClientChannel, RequestServer |
| `hrs_server/server/main.cpp` | the order of everything | configure, start, 'c', 'q' | ConnectionPool (its thread), RequestServer (`stop`) |
| `hrs_server/server/services/*`, `hrs_auth` | none | handlers: login, keep-alive, SQL, test | one step of RequestServer; in detail in KeptSession and SqlExchange |
| `server_lib/sl_service_factory`, `hrs_factory` | map of services, the SQL pool | services made on first use under a mutex of its own | not modelled |
| `hrs_server/server/background_worker` | a thread that sleeps until it is stopped | start, stop | not modelled |
| `hrs_server/api/src/hrs_converter` | a protobuf container of datasets, the wrappers kept for it | init, set, clear and get values | DataConverter, CellStore |
| `hrs_server/api/generated` | the fields of each message | clear, set, serialise, parse, size, merge | ProtoShared, ProtoApi |
| `utils/sl_error`, gRPC stubs, `client_test`, build files | - | - | not modelled |

How they interact.  `main` configures the pool with a test connection, starts
the server and reads the console.  `Server::process` builds the gRPC server and
starts the workers.  All workers poll one completion queue, so consecutive
events of one call are handled by different threads.  For every event the
worker extracts the session id, asks `UserValidator::checkSession` and calls
`run` on the processor the event names.  Handlers ask the pool for a connection
whose `shared_ptr` brings it back when the query ends.  `stop` joins the server
thread, which joins the workers, then shuts gRPC and the queue down and drains
it.  On the client a thread of its own confirms the session while any thread
may reconnect, disconnect or send requests.  An SQL request starts as a text
with variables that a `Binder` fills, travels as a message, is executed by the
handler, whose result becomes a flat dataset cell by cell, and comes back as a
message whose data the client reads through the same wrappers.

What is hard.  Ownership of processors without locks; tags that return after
the object is gone; status written before an asynchronous call that another
thread completes; events with `ok == false`, which the code does not look at;
the steps of a pool operation between which the mutex is not held; a broken
connection that libpq has not noticed; truncated time differences; identifiers
made from a clock; a thread that stops itself while another one stops it; a
mutex held over a join; a stream that is resumed by an event that looks like an
arrival; a keep-alive period, a delay and an expiry that are each truncated to
seconds; two ways to store a dataset behind one interface, which a container may
change in the middle, with pointers into the message kept; a length written before what it measures; a parser of flags.
`PROJECT.json` lists each with its line.

What makes each part correct.  Server: every object has one owner, every
arriving event meets the status it was made for, every method always has an
acceptor, a reply tells truly whether the request was handled, only validated
requests are handled, every call ends and `stop` returns.  Pool: a connection is
in one place, lent for the type asked for, not broken, not too many, all closed at
the end.  Sessions: accepted until they expire and not longer, never again once
refused or removed, one login each.  Client: one keep-alive thread, no session
left to expire without the callback being told, no hang and no abort, and a session
that is kept is never lost.  SQL: a statement means what was bound to it, a
container is a plain table of cells on both sides of the wire, and what the client
is told is what the database did.  Sections 4 and 5 say where the code falls short.

## 2. The modules

**RequestServer** - the server.  One action per statement of `run()` that
another thread can observe, per step of the worker loop, and per step of
`Server::process` and `Server::stop`.

| Code | Model |
|---|---|
| `RequestProcessor` objects, `new`, `delete this` | `proc`: address to record; `Allocate` is the allocator, so addresses are reused |
| `_status`, `worker()`, class, `_context` | the fields `status`, `owner`, `method`, `call` |
| `Service::RequestXxx(..., this)` | `requested` |
| `_responder.Finish(..., this)` until it completes | `sending` |
| events in the completion queue | `cq` |
| `got_tag`, the nested `rp` and `p` | `tag`, `rp` |
| threads of the workers, `Server::process`, `Server::stop` | `pc`, `serverPc`, `mainPc` |

`RunCreate`, `WaitForRequest`, `Spawn`, `Handle`, `SetFinished`, `PostFinish`,
`Delete` are the statements of `run()`; `PoolCreate`, `PoolReady`, `CheckStop`,
`GetEvent`, `PollTimeout`, `Validate` those of `RequestWorker::process`.  gRPC is
external: `Accept` matches a pending call with a registered processor,
`SendDone` completes a Finish, `Shutdown` returns all outstanding tags.  The
verdict of `checkSession` is any of the two; the constant `AssertsCompiled`
distinguishes a build with NDEBUG.  Two abstractions: the 3 s deadline of
`Shutdown` has passed when it returns, and BuildAndStart succeeds.

**ConnectionPool** - the pool with the parts of the psql plugin that open and
judge a connection.  `pc` separates the steps between critical sections:
look-up, creation, use, the deleter's flag test, `freeConnection`'s tests, the
push.  `entries` and `queue` are the map `_connections`; they are two variables
because an entry with an empty queue differs from no entry, and that difference
matters after `clear`.  `link` is the state of the wire, `status` what PQstatus
reports; they differ from a `Break` until the next query.  `options`
abstracts host, port, database, login and password to the key made from them.

**SessionManager** - `SessionManager` behind `UserValidator`.  Time is the
millisecond clock `generateId` sees, TicksPerSecond of which make a second of
the expiry.  `busy` is the validator's mutex during the database query of a
login; `clearExpired` takes the inner mutex only.  The history variables record
when an id was last seen, which ids were refused or removed, and to whom each
id was given.

**SessionBook** is what the manager does for an id, with no logins, removals or
seconds: granted or confirmed, it is live for a lifetime, which is the Expire + 1
seconds that the comparison of truncated seconds comes to, not the Expire seconds
of `src/server_lib/sl_session_manager.h:15`; a check
answers whether it is and confirms a live one; lapsed, it is neither confirmed nor
granted again.  SessionManager implements it (`BookKept`): the map `_sessions` is
the book, and logins, removals and the count in whole seconds leave it alone.
That a removal leaves it alone is the defect of section 4.

**ClientChannel** - the client library.  The g-th `connect` names its channel,
session and keep-alive worker g, and worker g's thread.  `mutex` is
`ClientChannel::_mutex`; what runs under it and cannot block is one step, what
blocks (login, keep-alive call, callback, join) is a step of its own.  A program may
register no callback, one that prints or one that uses the channel, and replace it
at any moment.  The history variables say of which failures a callback was told, and
whether one was registered all the time since the last login.  They are what
ConnectedMeansKept is about: where no callback was registered when the confirmation
failed, nobody hears of it, the channel stays and its session expires in silence.

**StreamServer** EXTENDS RequestServer with methods of the class
`StreamProcessor`.  `HandleStream` and `WriteStream` are the rounds of its
`run()`, `WriteDone` the completion of a Write; the rest of the worker loop is
that of RequestServer.  The status stays PROCESS across a Write, and neither
`run()` nor the worker can tell the completion from the arrival of a call: the
session is validated anew and the method is armed again.  `AcceptorPerResumption`
states the consequence exactly: a stream leaves one acceptor more for every
message after which it was resumed, and they are not given back while the server
is up.  `ok == false` of a Write is not looked at, as in the code.  No service of
the repository has a stream, so the moment at which a handler ends one is a
choice.

**CallService** is what the server promises to the clients of unary methods, with
no processor, worker or event in it.  A call runs at most once, and only when its
session was found alive or its method needs none; its one status tells whether it
ran and, if not, whether the session was missing or had ended; its client sees
this status or is cut off; and a call rejected at the end of the service never
ran.  RequestServer implements it (`ServiceKept`): `Validate` admits, `Handle`
runs, `PostFinish` answers, `SendDone` delivers, `Shutdown` closes, and a client
is `waiting` there while its call is pending or accepted here.  The completion
of a Finish is validated like an arrival, which may admit an answered call once
more; it changes nothing else.

**ConnectionLease** is what the pool promises to the code that runs queries: a
user asks for a type, is lent an idle or a new connection of this type for
itself alone, and afterwards the connection is closed or idle again.
ConnectionPool implements it (`LeaseKept`) with `idle` the sets of the
queues' elements, `lent` the variable `held` and `wish` the variable `asked`.

**KeptSession** EXTENDS SessionManager with one client: login, the timer loop of
`KeepAliveWorker::process` with its strict comparison of whole seconds, the
interval `connect` derives from the expiry (half of it, or 20 s less),
and messages that are under way for up to `MaxDelay` ticks.  The session is never
lost while `2 * MaxDelay + PollTicks <= (Expire - Interval) * TicksPerSecond`;
with the 60 seconds of `main.cpp` the interval is 40.

**SqlBinder** is `BinderParser` as a function of the place in a text, which reads
one character in each step with the parser's flags as a mode, and `Binder` as a
state machine over it.  Its reference, `TokenAt`, cuts a text into strings,
comments, casts and variables without flags; `VariablesFrom` and `MeaningFrom` go
from token to token.  The parser agrees with it on every text that is `Plain`: directly
behind a variable it does not see a comment, a cast or a second variable begin,
and it lets `*/` end a line comment.  More habits of the code are in the model: a
second binding of a name is ignored only when the name is given with its colon; an
`unbind` after `sql()` leaves the old text; values are trimmed and quoted when they
are bound; names are put into lower case by `bind` and by nobody else, so `unbind`
does not find one with a capital; `isVariableParsed` answers the reverse; and
`halt_if_not_used` of `sql()` changes nothing.

**ProtoShared**, **ProtoApi** - the messages.  The wire is a sequence of fields
with their length where they have one; ProtoShared follows `shared.pb.cc` class
by class (a oneof, maps, repeated rows, nested messages), ProtoApi gives the
classes of scalar fields as lists of fields, with one definition of each method
for all of them, and `SqlReply`.  Strings are their length, and some are not
UTF-8.

**DataConverter** EXTENDS ProtoShared with the wrappers of `hrs_converter.cpp`:
a packed dataset grows and forgets empty rows, a flat one is made once in full,
the container's flag chooses between them, and wrappers are kept.  The flag is set
whenever a writer is made, whatever datasets there are: those of the other kind are
hidden, and a hidden one that is opened is emptied.  `clearValue` works on packed
data only; on a flat dataset it uses a null pointer, and `process` is `"undefined"`
from then on.  `ConverterSpec` is a process that calls all of them in any order.
Asserts are guards: writing a flat cell that was not initialised, for example, is
left out.
**CellStore** is what both are to the user: a table of cells, some of whose datasets
may be hidden, and a transfer of what can be seen that arrives whole or not at all.
DataConverter implements the table (`TableKept`), SqlExchange the transfer as well
(`StoreSpec`); `cells` are the cells as they are stored, each dataset read as one of
its own kind.

**SqlExchange** composes SqlBinder, ProtoApi and DataConverter into one SQL
request: a bound statement, `SqlRequest::exec`, the handler (PQexec is
external: any result), its loop over the cells, the reply in any order of
its maps, and what the client reads.  Two more beginnings use the same wire: any
other use of the wrappers, and a single message of each class.  A statement or a
cell that is not UTF-8 is written all the same and refused by the reader, and
then the whole reply is lost; so is a request or a reply of more than `MaxMessage`,
gRPC's limit of 4 MB, which neither side raises.  A table holds texts and NULLs;
`TextOf` makes the empty text of a NULL, as `PsqlQuery::toString` does, so that the
client cannot tell the two apart.  The handler ends the server's process when there is
no connection (`getQuery` returns null) or, with asserts, when the
statement is empty (`Abort`).

The modules meet in three chains - RequestServer and StreamServer; SessionManager
and KeptSession; ProtoShared, DataConverter, ProtoApi, SqlBinder and
SqlExchange - and ConnectionPool and ClientChannel stand alone.  Where one chain
meets another it is abstracted by choice: the verdict of a validation in
RequestServer, the query in SessionManager, the connection in SqlExchange, the
server's answer in ClientChannel.

Definitions with a name `X_Something` right before `X` are defects of `X` that
somebody could introduce; each is there to show that a property sees it.

## 3. The runs

| Run | Instance | Shows |
|---|---|---|
| server_safety | 2 workers, 1 protected method, 2 calls, 4 addresses | all invariants of RequestServer, QuietAfterJoin, and that it implements CallService |
| server_liveness | 2 workers, a stream and a unary method of the auth service, 1 call, 1 message per stream besides the final status, 6 addresses | StatusTellsMessages, AcceptorPerResumption, EveryCallEnds, StopReturns |
| server_ndebug | as safety, 1 call, AssertsCompiled = FALSE | OkMeansHandled fails |
| pool | 3 workers and main, 2 keys, 4 connections, Capacity 2 | all invariants of ConnectionPool, and that it implements ConnectionLease |
| pool_clear | the same | AlwaysDefined fails |
| sessions | 2 logins, Expire 1 s, 3 ticks a second, polls every tick, delays of up to 1 tick, 8 ticks, 2 logins tried | ExpiryExact (the life the code gives a session, for accepted and for refused checks), KeptNeverLost, and that it implements SessionBook |
| sessions_ids, sessions_removal | 2 ticks a second, 6 ticks, 3 logins tried | SessionOfOneLogin, RemovedNotAccepted fail |
| sql_exchange | statements of 4 fragments out of 11, 3 bound names, one of them a capital, tables up to 2 x 2 over 3 strings and NULL, one with a long text, writers of both kinds, 2 orders of a map, 3 values per scalar field, messages up to 60 bytes received | the parser and the binder, ShapeKept, ReplyTellsOutcome, ClientSeesOutcome, ParseOntoIsMerge, and that a transfer implements CellStore |
| client | 3 program threads, 4 connects, both kinds of callback | all invariants of ClientChannel |
| client_disconnect, client_stop | 1 program thread, 1 connect | DestructionEnds, NeverAborts fail |

Bounds and why they are enough.

- Two workers are what a race needs; two calls on one method compete for the
  acceptors and can leave all of them consumed.  With two workers and one
  method at most four processors live at once (two acceptors and two calls
  being finished), so 4 addresses never run out, and a run that needed a fifth
  would deadlock and be reported.  The auth service, which needs no session, is
  in the run with the stream.  There one message makes every kind of step
  happen: an arrival, a completed Write, another round and the Finish; the
  stream's surplus acceptor takes a sixth address.
- Three workers and main with capacity 2 let the queue of a key be full when a
  third connection returns; four connections and two keys let connections of
  one type lie in the pool while the other is used.  Opening a fifth fails,
  which the code handles like any failed connection.
- With Expire 1 and 2 ticks a second a session dies 4 ticks after its last
  confirmation, with 3 ticks a second 6 ticks after it; 6 and 8 ticks hold
  creation, a confirmation and a check after expiry.  Three ticks a second are
  the least that leave room for a poll and two delays of one tick, and exactly
  this room: with one tick more of either the session is lost.  Expire 1 gives
  the interval 0, the least margin there is; expiry 0 cannot work at all.  Three
  logins are the least that make two ids equal.  The clock and the logins are
  bounded, so these runs may stop (CHECK_DEADLOCK FALSE).
- The 11 fragments of statements contain every character the parser looks
  at, and texts of four of them every pair of its modes; values are bound to
  texts of at most 4 characters (MaxBound) and to the second statements, the
  parser's own properties are checked on all.  Two rows and columns tell a row
  from a column and a first from a later one, and a second row is what a packed
  dataset grows by and loses again when it is cleared.  MaxMessage stands for the
  limit of 4 MB and lies within the sizes of the instance: tables of short texts are
  received and the one with a long text is not, and of the containers that are
  filled in other ways about half.  A request ends, hence
  CHECK_DEADLOCK FALSE.
- Four connects hold a first one, a failed one and two replacements.  The
  program really may stop, by deadlock or abort, hence CHECK_DEADLOCK FALSE in
  the client's runs.

Symmetry is used for workers, calls, keys, connections, logins and program
threads, which the code does not tell apart, and never in a run with a
liveness property.  `LowestFree` fixes the allocator's choice in the runs; the
proofs hold for any allocator.

Fairness.  Each worker, the server thread and the stopping thread are weakly
fair: they are OS threads that block only in timed waits and joins.  gRPC is
fair to each pending call it can match and to each Write and Finish.  Nothing obliges a
client to call or cancel, or anybody to stop the server.  No strong fairness
is needed.  In ClientChannel what a thread has begun it goes on with; the
counterexample of client_disconnect is a state in which no thread can move.

## 4. What the failing runs say

- **server_ndebug** (`src/server_lib/sl_request_processor.h:112`): the handler
  is called inside `assert()`.  In a build with NDEBUG no handler runs and
  every accepted request is answered OK.
- **pool_clear** (`src/sql_lib/sl_connection_pool.cpp:85`): `clear()` leaves the
  map entries with empty queues, and the next `getConnection` of the type calls
  `front()` and `pop()` on one.  The console command 'c' leads there.
- **sessions_removal** (`src/server_lib/sl_session_manager.cpp:65`): removal by
  id only looks at `_logins`, removal by login needs an entry there, and nothing
  ever enters one: removed sessions stay valid until they expire.
- **sessions_ids** (`src/utils/sl_sha256.cpp:202`): the third id within one
  millisecond equals the first.
- **client_disconnect** (`src/hrs_server/client_lib/hrs_channel.cpp:68`): the
  mutex is held over the join of a thread that may be waiting for it.  A second
  `connect` does the same.
- **client_stop** (`src/utils/sl_stoppable_worker.cpp:17`): test and set of the
  promise are two steps; a keep-alive thread that fails while `disconnect` stops
  it makes `set_value` throw.

Disagreements that have no run of their own, because the models of the passing runs
already contain them or a glance at the line decides:

- a session lives up to one second longer than `sl_session_manager.h:15` says
  (`src/server_lib/sl_session_manager.cpp:99`: seconds are truncated, and the
  comparison is strict); ExpiryExact and SessionBook state the longer life;
- without a callback at the moment of the failure a session expires in silence
  (`src/hrs_server/client_lib/hrs_channel.cpp:113`), see ConnectedMeansKept;
- a failed reconnect takes the channel from under the old worker, whose next
  confirmation meets the assert of `hrs_channel.cpp:100`; OnlyReconnectTakesChannel
  says that no other way leads there;
- `clearValue` of a flat dataset uses a null pointer
  (`src/hrs_server/api/src/hrs_converter.cpp:202`), although
  `hrs_data_converter.h:131` offers it for any cell; in StoreSpec it ends the program;
- a writer of the other kind loses the datasets it opens
  (`hrs_converter.cpp:784`, `:814`), see StoreSpec;
- `sql(halt_if_not_used)` is to report values bound to names the statement has not
  as a critical error (`src/sql_lib/sl_binder.h:56`), but `sl_binder.cpp:57` and
  `:326` never look at the parameter: such a value is left out in silence, whatever
  the caller asks for; SqlIsMeaning holds with both values of the parameter;
- `isVariableParsed` answers the reverse of `sl_binder.h:65` (`sl_binder.cpp:99`),
  which ParserFindsVariables states as it is;
- the overload of `bindOne` for `const char*` drops its `format_string`
  (`sl_binder.cpp:406`);
- a table of more than 4 MB does not arrive, and a NULL arrives as the empty text
  (`src/sql_lib/plugins/psql/psql_impl.cpp:84`).

## 5. What is proved

The proofs hold for every value of the constants: any number of threads,
methods, calls, addresses, connections, logins, any capacity, expiry and clock
rate, tables of any size, statements and values of any length.  The assumptions
are those the modules declare (methods are armed once each, `None` is nothing
else, the allocator returns a free address when there is one, a second has at
least two ticks, a value to store has one of the types of the message, a dataset has
room for a row and a column, a result has as many values in each row as it has columns, a text consists of the
characters of `Char`, in which the kinds of character are told apart that the
parser tells apart) and three more that a theorem states itself:
`AssertsCompiled` for ReplyTells and ServiceImplemented, `Capacity >= 1` for
WithinCapacity and `MarginSuffices` for NeverLost.  TLC checked each inductive invariant on the
instance of the component's run before it was proved.

**RequestServerProofs** - `TypeCorrect` (TypeOK), `OwnedOnce` (OneOwner) and
`StatusAlwaysMatches` (StatusMatchesEvent).  OneOwner is not inductive.  Whether
`PostFinish` may add the tag to `sending` depends on the worker having exactly
this processor in hand at that program point; whether an event at `loop` leaks
depends on the worker's hands being empty there; and whether `Shutdown` may hand
out registered processors as events depends on all workers having ended.  The
inductive invariant is `Ownership`, which is TypeOK with

- `PcCoherent`: what `tag` and `rp` hold at each program point,
- `Joined`: `stop` goes on only after the server thread, and that only after
  the workers, have ended,
- `Exclusive` and `Accounted`: OneOwner said of each processor, no two places
  and no live processor without one,
- `EventStatus`: the status and the call of a processor in each place, and
  between its creation and its registration.

It is written so that streams keep it too.  A server without streams has
`OnlyFinishPosted` besides: what gRPC completes is a Finish; the two are
`IInv`.  There is one lemma per part (`TypeStep`, `PcStep`, `JoinedStep`,
`ExclusiveStep`, `AccountedStep`, `EventStep`, `PostStep`) with one step per
action.

The second part of the module says what becomes of a call: `ReplyTells`
(ReplyTellsHandling), `ValidatedOnly` (OnlyValidatedHandled), `StopFinishes`
(StopFinishesHandled), `NothingAfterJoin` (the action property QuietAfterJoin),
`ServiceImplemented` (ServiceKept) and `PoolStaysWhole`
(AcceptorPerWorkerAndMethod).  `CallInv` has three parts:

- `OneCarrier`: gRPC gives a call to one processor, of the method asked for, so
  what happens to the call happens through this processor,
- `HandlingInv`: while the processor is in PROCESS its call has no reply, and it
  has been handled only if the worker that holds it stands right behind the
  handler, where the code tells whether it was,
- `PermitInv`: between validation and handler the code OK means that the call
  may be handled.  The code is the worker's, the permission is the call's: this is
  where a worker that reused the code of its last event would be found.

That the server implements CallService needs more (`ServiceInv`, inductive by
`ServiceInductive`): `CodeTells`, that the code in a worker's hands says why its
call is refused from the validation to the Finish, for which `EventKept` follows
one event through all steps of all threads; `SentTells`, that a Finish under way
has a status; and `NoneRejected`, that nothing is rejected before the shutdown,
when no worker is left.  `ServiceStep` then maps every action.  `Shutdown` may
reject the pending calls because OneCarrier says that nothing was done for
a call without a processor.

The pool needs another view of a step.  `AcceptorMoves` is a lemma about all
of Next: while the server is up a step leaves every acceptor one, puts a new one
with the same owner and method in the place of one that is about to be handled, or
adds one for the next method of a worker's pool.  `PoolInv` says pointwise that
each worker and each armed method have exactly one acceptor; the lemmas
`PoolKept`, `PoolSwapped` and `PoolGrown` take the three kinds of steps.

**StreamServerProofs** - a step of StreamServer is a step of RequestServer or
one of the three only a stream takes (`StepKinds`), so `Ownership` and
`OneCarrier` are inherited and need three cases more.  `StreamOwnedOnce` is
OneOwner for streams.  `StatusTells` (StatusTellsMessages) needs `Rounds`: while a
stream's processor is in PROCESS every round was handled and has written its
message, except the one whose worker stands behind the handler.

`SurplusPerResumption` (AcceptorPerResumption) counts.  A processor between two
rounds of its stream is an acceptor with a call or has a Write at gRPC
(`WritingIs`), and `Posted` says that a Write at gRPC is one that was counted in
`written`.  Acceptors without such a round must be as many as the places workers
have armed plus the resumptions, which are made into a set, so that all three can
be counted by adding and removing single elements (`Counted`).  Of the moves of
`AcceptorMoves` only the swap is interesting: in the place of an acceptor nobody
called before, it keeps the number; in the place of a completed Write it adds an
acceptor and a resumption.  The three steps of a stream itself change neither.

**ConnectionPoolProofs** - `TypeCorrect` (TypeOK), `InOnePlace` (OnePlace),
`NoBrokenPooled` (BrokenNotPooled), `NoAssertFails`
(AssertionsHold) and `AllClosed` (AllClosedAtEnd); `WithinCapacity`
(CapacityRespected) assumes `Capacity >= 1`, because `freeConnection` pools the
first connection of a type without looking at the capacity
(`src/sql_lib/sl_connection_pool.cpp:146`).

The properties speak of the sets of pooled connections; the inductive invariant
`IInv` speaks of positions, since it is `front` and `pop` that keep them
distinct.  It is TypeOK with

- `Control`: what `held` and `asked` hold at each program point, and the order
  main() imposes; this is why the shutdown flag, read outside the mutex, cannot
  be set while a thread is between reading it and pushing,
- `Apart`: no connection in two positions, or in a position and in a thread's
  hands, or in the hands of two threads,
- `Accounted`: exactly the open connections are in a place,
- `Fit`: key and status of a connection in a queue or at `push`, where the
  test of isOpen is already in the past,
- `AtDestruction`: the queues of a destroyed pool are empty.

AllClosed needs `Accounted` with
the empty queues and no thread under way.

The same module shows that ConnectionPool implements ConnectionLease, whatever
the capacity (`Implements`).  The initial states are the same from outside; one
lemma per kind of step says what it is outside: `HitLends`, `CreateOpens`,
`DeleteReturns`, `PushReturns`, `ClearCloses`, `GetAsks`, and `Stutter` for the
rest.  Three parts of the inductive invariant are needed: `Apart`, since a queue
without its head is its set without one element only if no connection is in it
twice; `Accounted`, since a new object must be nobody else's; `Fit`, since a
connection is to return under the type it was asked for.  `Quiet`, that a thread
outside a query asks for nothing, is proved beside them.

**SessionProofs** - of SessionManager: `ExpiresExactly` (ExpiryExact),
`StaysRefused` (RefusedForGood) and `SessionTypes`.  Two facts about the code
carry them.  Nothing ever enters `_logins`, so no removal reaches `_sessions`, and
the map always holds the time an id was last seen (`Stamped`).  And an id is at
most one tick ahead of the clock that made it, so when a session is refused the
generator is past its id (`Forgone`): it is never given out a second time, although
ids are made from the clock and do repeat within a millisecond.  `Truncation` is
the arithmetic of `duration_cast`: more than E whole seconds means E + 1 seconds
or more.  ExpiryExact asks nothing of the answer for a session that was removed,
which the header says is refused and the code accepts (`sessions_removal`).

`KeepsTheBook` (BookKept) is the refinement of SessionBook from the same
invariant.  What is alive for the code is live in the book (`LiveIsAlive`), a check
is one of the book (`CheckIsBooked`), and the id of a login has not lapsed: had it
been stamped before, then a tick ago at most (`GeneratedIsGrantable`).

Of KeptSession: `KeptImplements`, that it implements SessionManager, so the
theorems above hold beside a client that keeps its session; `KeptTypes`; and
`NeverLost` (KeptNeverLost) under `MarginSuffices`, the inequality of section 2,
for any expiry, interval, sleep and delay.  `Timely` bounds, at each place the
client can be, the end of the wait it is in by the session's stamp: the worker's
timer is at most one delay behind the stamp, a sleep ends at most one sleep after
the interval, and an answer takes two delays.  Other users can only move the
stamp forward (`StampsForward`).

**ClientChannelProofs** - `OneKeeperRuns` (OneKeeper), `ChannelIsKept`
(ConnectedMeansKept), `ChannelIsTakenByReconnect` (OnlyReconnectTakesChannel),
`OneReport` (ReportedOnce), `StubIsLoggedIn` (StubLoggedIn)
and `ClientTypes`, for any number of threads, connects and disconnects and
callbacks that use the channel.  None of them is inductive, since `connect` and
`disconnect` replace worker, channel and session one after the other and wait in
between.  `CInv` is TypeOK with

- `Locked`: only the holder of the mutex stands in the middle of one of them,
- `Fresh`: a connection whose login has not succeeded has no trace but its number,
- `Keepers`: a running thread is the current worker's or the one being joined,
  and outside of `connect` and `disconnect` channel, session and worker belong
  together,
- `Reports`: how a failure leads a worker to its end, which is why it is reported
  once,
- `Tells`: a callback that was there all the time since the login has been told of
  the current worker's failure once the worker is past it.

OnlyReconnectTakesChannel follows from `Keepers`, which says of a worker without a
channel that a later `connect` has been begun.

It holds in the states after an abort too (`client_stop`), which nothing leaves.

**DataConverterProofs** - `Typing` (ConverterTypeOK), `Shape` (ShapeKept), `Indices`
(the action property IndicesStayGood) and `Tabulates` (TableKept), for any number
of fields, datasets, rows and columns and any values.  The inductive invariant
`IInv` is the type of the message with its shape, and the wrappers with what they
point at.  Neither half is inductive without the other: a write relies on the
counts to cover what was written before, or it would show a cell it did not name,
and a wrapper that is kept is used without a look at the message.  Writers of both
kinds take turns: the invariant says of no dataset that it is of the kind of the
flag, only of those that a wrapper is kept for.

The proof goes from the inside out.  A row of a packed dataset is written
(`RowWritten`), then a packed dataset (`SetPackedKeeps`, `ClearPackedKeeps`, with
`GrowKeeps` for the rows it grows by), a flat one (`NewFlatSound`, `SetFlatKeeps`),
the container with one dataset replaced (`DatasetReplaced`), and the calls
(`InitDatasetDoes`, `SetValueDoes`, `ClearValueDoes`); each lemma says what a reader
sees of the cell named and that every other cell is as before.  The table of all
cells is compared only at the end (`OneCellTable`, `SameCells`, `HiddenAfter`), where
each call turns out to write one cell, to empty one, to open a hidden dataset
(`DatasetOver`), to turn the flag (`CreateWriterSteps`), to leave the table alone or
to end the program.
ConverterTypeOK, IndicesStayGood and TableKept are proved only: TypeOK contains the
first, and StoreSpec checks the table together with its way over the wire.

**SqlBinderProofs** - what the Binder computes, for every statement and every set of
values.  Parser, maker of the text and reference are recursive functions on the
places of a text.  What they compute is proved by induction, which is had from the
well-foundedness of < on the numbers: the places where a fact fails have a least one
(`LeastNumber`, `SetInduction`).  Lemmas that end in `Is` show for each recursive
function that it is what its definition says.

- `BInv` is inductive (`BinderSteps`): the text that sql() returned is the one that
  template and values give, unless a value was taken away, and the template was
  accepted.
- `EveryCharacterStays` (NothingLost) rests on `AllFound`: the variables found lie one
  behind the other, each begins with its colon and has the name that stands there.
  So the maker puts, in the place of each, a text of the same length.
- `AllVariablesFound` (ParserFindsVariables) goes from token to token.  `Ready` says
  that the parser stands at the beginning of a token; `StringRead`, `LineRead`,
  `BlockRead`, `CastRead`, `VarRead` and `OtherRead` say for each kind of token that
  it stands behind it afterwards, with one variable more or with the same
  (`TokenRead`).  This is where Plain is needed: behind a variable the parser has
  read one character of what follows.
- `CalculateMeans` (SqlIsMeaning) follows the maker from the last token back to the
  first (`RestMade`).

**SqlExchangeProofs** - `OutcomeTold` (ReplyTellsOutcome): the reply says what the
database did, for tables of every size.  It follows the handler.  Until the answer
container, wrappers and reply are untouched; while its two loops run the dataset
has the size of the table and every cell before the next one has its string
(`Copied`, the invariant of the loops); when they end no cell is left.  The
loops are counted as one: `Position` gives row and column of the n-th cell, and
`NextCell` says that it is the only one that comes in with the step.  What a call
does to the cells is taken from DataConverterProofs.

`OutcomeSeen` (ClientSeesOutcome) takes this to the client, behind the wire: for
tables and texts of every size and whatever order the maps are iterated in.
A parser is a loop over the fields of a message that ends with the first one that
fails.  When the i-th turn makes X[i] of X[i - 1] or fails, the loop ends in X[n] or
fails (`Trace`, `LastTurn` and the lemmas that end in `Turns`, one per class).  So,
from the inside out, a string cell, a row, a flat dataset, the entry of the map,
the container and the reply are read back as they were written, or not at all
(`ValueRead` ... `ContainerRead`, `ReplyRead`).  Of the order of a map only
OrdersAssumption is used: it names every key once (`OneKey`).  `WInv` is the
inductive invariant: while the loops run the container is one flat dataset
(`OneTable`); at the end each cell of it is a string (`TableCopied`, from `Copied`);
then the reply is one of the three kinds a handler leaves (`HandlersReply`), the
bytes under way are its own, and what the client has is the reply or a failed call.
That a call fails for no other reason than its size or a string that is not UTF-8,
which needs the sizes that the messages write of themselves, is checked (StoreSpec,
ParseOntoIsMerge) and not proved.

The same module puts the parts together for a whole request.  `ContainerSound`
(ShapeKept): no step of the handler, or of another user of the wrappers, leaves
a container that is not safe to read.  `StatementKept`, `VariablesFound` and
`SqlMeant` are what SqlBinderProofs says of the Binder of a client, until the
request is sent.  `ExchangeTyped` (TypeOK) adds `TInv`, that the table keeps its
size, that nothing is counted before the handler answers, and that the reply is new
until then.

Only model-checked:

- liveness (EveryCallEnds, StopReturns): the prover has no rules for fairness
  and ENABLED;
- ParseOntoIsMerge, what each message class promises of its sizes and of parsing
  onto an object in use, and StoreSpec, a container of any contents behind the
  wire: sums over the fields of nested messages, each an induction over data;
- that nothing but its size or a string that is not UTF-8 makes a call fail (see
  above).

AlwaysDefined of ConnectionPool is false of the code, so the theorems say nothing
of what happens after `front()` on an empty queue, where the model stops.  In
the same way ReplyTells says nothing of a build with NDEBUG, where OkMeansHandled
fails.

## 6. Not modelled

- The conversion of numbers, dates and bool to text and back: `convertToString`
  of the wrappers and the typed overloads of `bind` and `bindOne`.  Values are texts
  or numbers already.
- Of the generated messages the arena, `release`, `Swap` and reflection; of
  gRPC the stubs, which have no state; TLS and its certificates.
- What PostgreSQL computes: a query ends with any result.
- sha256 as a function (taken to be injective), error texts and printing, the
  console input of `main.cpp`, the demonstration client and build files.
- The service factory, a map made under its own mutex and never changed again,
  and the background worker, which sleeps until it is stopped.
- A failing `BuildAndStart` (`src/server_lib/sl_server.cpp:144`), after which the
  program dereferences a null pointer, and the deadline of `Shutdown`.
- `system_clock` is taken to be monotonic and to run at one rate on client and
  server.

## 7. What could come next

1. Composition: the SQL handler over ConnectionPool, with the query's connection
   going back while the reply is made.
2. A server whose address is in use.
