----------------------------- MODULE SqlExchange -----------------------------
(***************************************************************************)
(* One SQL request from the statement to what the client reads: a Binder   *)
(* makes the statement, SqlRequest::exec sends it, the handler of the      *)
(* server executes it and fills a flat dataset, the reply travels, and the *)
(* client reads type and data.  The three beginnings are the client with   *)
(* its Binder, any other code that fills a container through the wrappers  *)
(* ("library"), and a single message of one of the classes ("message").    *)
(*                                                                         *)
(* The connection, PQexec and its result are external: no connection, or   *)
(* an error, a command, or a table of strings and NULLs.  A statement on   *)
(* the wire is empty, short, one that is not UTF-8, or too long.           *)
(***************************************************************************)
EXTENDS DataConverter, ProtoApi, SqlBinder

CONSTANTS
    Tables,         \* the tables a query can return: rows of strings and None, the NULL
    Texts,          \* the error texts
    Orders,         \* the orders in which maps may be iterated
    MaxMessage,     \* the longest message gRPC receives, 4 MB unless it is told otherwise
    Samples         \* the messages sent alone: a class, a message, one to parse onto

VARIABLES
    phase,          \* how far the request is
    query,          \* what PQexec returned
    filled,         \* how many cells of the table the handler has copied
    reply,          \* the SqlReply at the server
    wire,           \* the bytes under way
    received,       \* the SqlReply at the client
    sample          \* the message sent alone

exchangeVars == <<phase, query, filled, reply, wire, received, sample>>
vars == <<converterVars, binderVars, exchangeVars>>

\* Query::ResultType
Undefined == 0
Error     == 1
Select    == 2
Command   == 3

ASSUME TextsAssumption == Texts \subseteq Nat
ASSUME MaxMessageAssumption == MaxMessage \in Nat \ {0}
\* A map is iterated key by key, each once.
ASSUME OrdersAssumption ==
    \A order \in Orders :
        /\ order \in Seq(Nat)
        /\ \A i, j \in DOMAIN order : order[i] = order[j] => i = j
        /\ FieldIds \cup DatasetIds \cup Rows \cup Columns \subseteq {order[i] : i \in DOMAIN order}
\* The result of a query has as many values in each row as it has columns.
ASSUME TablesAssumption ==
    \A t \in Tables :
        /\ t.columns \in 0 .. MaxColumns
        /\ t.rows \in Seq(Seq(Nat \cup {None})) /\ Len(t.rows) <= MaxRows
        /\ \A i \in DOMAIN t.rows : Len(t.rows[i]) = t.columns

NoQuery   == [type |-> Undefined, table |-> <<>>, columns |-> 0, connected |-> FALSE]
DatasetId == 1
ASSUME DatasetAssumption == DatasetId \in DatasetIds

Init ==
    /\ ConverterInit /\ BinderInit
    /\ phase \in {"client", "library", "message"}
    /\ query = NoQuery /\ filled = 0
    /\ reply = NewSqlReply /\ wire = <<>> /\ received = None
    /\ IF phase = "message" THEN sample \in Samples ELSE sample = None

-----------------------------------------------------------------------------
\* The client

UseBinder ==
    /\ phase = "client"
    /\ BinderNext
    /\ UNCHANGED <<converterVars, exchangeVars>>

\* SqlRequest::exec: the request is made and sent; the Binder is of no use any more.
ExecRequest ==
    /\ phase = "client" /\ calculated
    /\ \E sql \in IF sqlText = <<>> THEN {0} ELSE {1, MaxMessage} \cup NotUtf8 :
        wire' = Serialize(SqlRequest, Set(New(SqlRequest), "sql", sql))
    /\ phase' = "calling"
    /\ BinderClear
    /\ UNCHANGED <<converterVars, query, filled, reply, received, sample>>

-----------------------------------------------------------------------------
\* The server: SqlRequestProcessor::handleRequest

\* Neither side raises the limit of what it receives.
TooLarge == WireSize(wire) > MaxMessage
Request  == IF TooLarge THEN Failed ELSE Parse(SqlRequest, New(SqlRequest), wire)

\* A request that is too large or cannot be parsed: gRPC answers with an error.
RefuseRequest ==
    /\ phase = "calling" /\ Request = Failed
    /\ received' = Failed
    /\ phase' = "done"
    /\ UNCHANGED <<converterVars, binderVars, query, filled, reply, wire, sample>>

\* getQuery returned null, which query->type() dereferences; or the statement is
\* empty, and the assert of Query::exec ends the server.
Abort ==
    /\ phase = "calling" /\ Request # Failed
    /\ query' \in {NoQuery} \cup
                  (IF Request.sql = 0 THEN {[NoQuery EXCEPT !.connected = TRUE]} ELSE {})
    /\ phase' = "aborted"
    /\ UNCHANGED <<converterVars, binderVars, filled, reply, wire, received, sample>>

\* PQexec: an error, a command or a table.
DoExec ==
    /\ phase = "calling" /\ Request # Failed
    /\ Request.sql # 0
    /\ \E type \in {Error, Command, Select} :
        query' \in {[type |-> type, table |-> t.rows, columns |-> t.columns, connected |-> TRUE] :
                        t \in IF type = Select THEN Tables ELSE {[rows |-> <<>>, columns |-> 0]}}
    /\ phase' = "executed"
    /\ UNCHANGED <<converterVars, binderVars, filled, reply, wire, received, sample>>

\* Mutant of Answer: the type is put into the reply before the query is executed.
Answer_TypeFirst ==
    /\ phase = "executed"
    /\ \/ /\ query.type = Error
          /\ \E t \in Texts : reply' = [reply EXCEPT !.error_text = t, !.error_code = 1]
          /\ phase' = "replying"
          /\ UNCHANGED converterVars
       \/ /\ query.type = Command
          /\ phase' = "replying"
          /\ UNCHANGED <<converterVars, reply>>
       \/ /\ query.type = Select
          /\ container' = OpenDataset(container, DatasetId, Len(query.table), query.columns)
          /\ writer' = [NoWriter EXCEPT !.open = TRUE, !.datasets = Put(@, DatasetId, "flat")]
          /\ phase' = "filling"
          /\ UNCHANGED <<process, reply>>
    /\ UNCHANGED <<binderVars, query, filled, wire, received, sample>>

\* The type, then the error, or nothing more, or a new container with a flat
\* dataset of the size of the table.
Answer ==
    /\ phase = "executed"
    /\ \/ /\ query.type = Error
          /\ \E t \in Texts : reply' = [reply EXCEPT !.result_type = query.type,
                                                     !.error_text = t, !.error_code = 1]
          /\ phase' = "replying"
          /\ UNCHANGED converterVars
       \/ /\ query.type = Command
          /\ reply' = [reply EXCEPT !.result_type = query.type]
          /\ phase' = "replying"
          /\ UNCHANGED converterVars
       \/ /\ query.type = Select
          /\ reply' = [reply EXCEPT !.result_type = query.type]
          /\ container' = OpenDataset(container, DatasetId, Len(query.table), query.columns)
          /\ writer' = [NoWriter EXCEPT !.open = TRUE, !.datasets = Put(@, DatasetId, "flat")]
          /\ phase' = "filling"
          /\ UNCHANGED process
    /\ UNCHANGED <<binderVars, query, filled, wire, received, sample>>

\* PsqlQuery::toString: a NULL is the empty string, and is not told apart any more.
TextOf(x) == IF x = None THEN 0 ELSE x

\* Mutant of CopyCell: the inner loop does not advance the column.
CopyCell_OneColumn ==
    /\ phase = "filling"
    /\ filled < Len(query.table) * query.columns
    /\ LET row == filled \div query.columns
           col == filled % query.columns
       IN  SetValue(DatasetId, row, 0,
                    [case |-> "v_string", val |-> TextOf(query.table[row + 1][col + 1])])
    /\ filled' = filled + 1
    /\ UNCHANGED <<binderVars, phase, query, reply, wire, received, sample>>

\* One turn of the two loops over rows and columns.
CopyCell ==
    /\ phase = "filling"
    /\ filled < Len(query.table) * query.columns
    /\ LET row == filled \div query.columns
           col == filled % query.columns
       IN  SetValue(DatasetId, row, col,
                    [case |-> "v_string", val |-> TextOf(query.table[row + 1][col + 1])])
    /\ filled' = filled + 1
    /\ UNCHANGED <<binderVars, phase, query, reply, wire, received, sample>>

\* set_allocated_data; the writer ends with the handler.
AttachData ==
    /\ phase = "filling"
    /\ filled = Len(query.table) * query.columns
    /\ reply' = SetAllocatedData(reply, container)
    /\ writer' = NoWriter
    /\ phase' = "replying"
    /\ UNCHANGED <<container, process, binderVars, query, filled, wire, received, sample>>

\* Any other use of the wrappers, then the same.
UseWrappers ==
    /\ phase = "library"
    /\ ConverterNext
    /\ UNCHANGED <<binderVars, exchangeVars>>

AttachContainer ==
    /\ phase = "library" /\ process = "running" /\ ~writer.open
    /\ reply' = SetAllocatedData(reply, container)
    /\ phase' = "replying"
    /\ UNCHANGED <<converterVars, binderVars, query, filled, wire, received, sample>>

\* The reply is serialised, its maps in whatever order they have,
SendReply ==
    /\ phase = "replying"
    /\ \E order \in Orders : wire' = SqlReplySerialize(reply, order)
    /\ phase' = "sent"
    /\ UNCHANGED <<converterVars, binderVars, query, filled, reply, received, sample>>

\* and parsed by the client, whose call fails when it cannot be or is too large.
ReceiveReply ==
    /\ phase = "sent"
    /\ received' = IF TooLarge THEN Failed ELSE SqlReplyParse(NewSqlReply, wire)
    /\ phase' = "done"
    /\ UNCHANGED <<converterVars, binderVars, query, filled, reply, wire, sample>>

Next ==
    \/ UseBinder \/ ExecRequest
    \/ RefuseRequest \/ Abort \/ DoExec \/ Answer \/ CopyCell \/ AttachData
    \/ UseWrappers \/ AttachContainer \/ SendReply \/ ReceiveReply

Spec == Init /\ [][Next]_vars

-----------------------------------------------------------------------------
\* Properties

Strings  == UNION {{TextOf(t.rows[i][j]) : i \in DOMAIN t.rows, j \in 1 .. t.columns} : t \in Tables}
AllData  == Data \cup {NullCell} \cup {[case |-> "v_string", val |-> s] : s \in Strings}
Carried  == reply.data # <<>>

Store == INSTANCE CellStore WITH
    Datasets <- {DatasetCells(id) : id \in DatasetIds},
    Values <- AllData,
    Untransferable <- {d \in AllData : d.case = "v_string" /\ d.val \in NotUtf8},
    Empty <- EmptyCell, Nothing <- None, Refused <- Failed,
    cells <- StoredIn(container), hidden <- HiddenIn(container),
    running <- process = "running",
    moving <- IF phase = "sent" /\ Carried
              THEN [cells |-> StoredIn(container), hidden |-> HiddenIn(container), large |-> TooLarge]
              ELSE None,
    seen <- IF phase # "done" \/ ~Carried THEN None
            ELSE IF received = Failed THEN Failed ELSE TableOf(SqlReplyData(received))

\* The type invariant.
TypeOK ==
    /\ phase \in {"client", "library", "message", "calling", "executed", "filling",
                  "replying", "sent", "done", "aborted"}
    /\ query.type \in {Undefined, Error, Select, Command}
    /\ filled \in 0 .. Len(query.table) * query.columns
    /\ reply.error_code \in 0 .. 1 /\ reply.result_type \in Undefined .. Command
    /\ Len(reply.data) <= 1
    /\ ConverterTypeOK
    /\ sqlText \in Seq(Char) /\ template \in Seq(Char)

\* Filling a container through the wrappers and reading it behind the wire is a
\* plain table of cells, whatever growth, clearing, caching of wrappers and order of
\* maps lies between: each cell reads as it was last written.  What does not arrive:
\* the datasets that a writer of the other kind has hidden or emptied by opening
\* them; and everything, when the message is too large or has a string that is not
\* UTF-8.  Clearing a cell of a flat dataset ends the program.
StoreSpec == Store!Spec

\* What reply r shows is what the database did.  The type is never Undefined, error
\* code and text come with the type Error and only with it, the dataset is there
\* whenever the type lets one look, and it has exactly the rows, columns and strings
\* of the table, a NULL as the empty string.
ShowsOutcome(r) ==
    /\ r.result_type = query.type
    /\ (r.error_code # 0) <=> (query.type = Error)
    /\ (r.error_text # 0) => (query.type = Error)
    /\ LET data == SqlReplyData(r) IN
       IF query.type # Select THEN data = EmptyContainer
       ELSE /\ HasDataset(data, DatasetId)
            /\ RowCount(data, DatasetId) = Len(query.table)
            /\ ColumnCount(data, DatasetId) = query.columns
            /\ \A i \in 1 .. Len(query.table), j \in 1 .. query.columns :
                ReadCell(data, DatasetId, i - 1, j - 1)
                    = [case |-> "v_string", val |-> TextOf(query.table[i][j])]

\* The reply of the handler, whichever way its conditions and its two loops went,
\* also over a table without rows or without columns.
ReplyTellsOutcome ==
    phase \in {"replying", "sent", "done"} /\ query.connected => ShowsOutcome(reply)

\* What SqlRequest reads behind the wire: type(), error() and data().
ClientSeesOutcome ==
    phase = "done" /\ query.connected /\ received # Failed => ShowsOutcome(received)

\* What every class promises of a message m that is serialised as w: the sizes
\* written are the sizes of what follows, a cleared object that parses w is m
\* again, and an object that is not cleared has m merged in.
ValueAgrees(m) ==
    LET w == ValueSerialize(m) IN
    /\ ValueByteSize(m) = WireSize(w)
    /\ ValueParse(ValueClear(m), w) = m
    /\ ValueParse(m, w) = ValueMerge(m, m)
RowAgrees(m, order) ==
    LET w == RowSerialize(m, order) IN
    /\ RowByteSize(m) = WireSize(w)
    /\ RowParse(RowClear(m), w) = m
    /\ RowParse(m, w) = RowMerge(m, m)
    /\ \A c \in DOMAIN m.data : ValueAgrees(m.data[c])
PacketAgrees(m, order) ==
    LET w == PacketSerialize(m, order) IN
    /\ PacketByteSize(m) = WireSize(w)
    /\ PacketParse(PacketClear(m), w) = m
    /\ PacketParse(m, w) = PacketMerge(m, m)
    /\ \A r \in DOMAIN m.rows : RowAgrees(m.rows[r], order)
FlatRowAgrees(m) ==
    LET w == FlatRowSerialize(m) IN
    /\ FlatRowByteSize(m) = WireSize(w)
    /\ FlatRowParse(FlatRowClear(m), w) = m
    /\ FlatRowParse(m, w) = FlatRowMerge(m, m)
FlatAgrees(m) ==
    LET w == FlatSerialize(m) IN
    /\ FlatByteSize(m) = WireSize(w)
    /\ FlatParse(FlatClear(m), w) = m
    /\ FlatParse(m, w) = FlatMerge(m, m)
    /\ \A i \in DOMAIN m.rows : FlatRowAgrees(m.rows[i])
DatasetAgrees(m, order) ==
    LET w == DatasetSerialize(m, order)
        other == IF m.case = "flat" THEN SetAllocatedPacket(m, EmptyPacket)
                 ELSE SetAllocatedFlat(m, EmptyFlat)
    IN  /\ DatasetByteSize(m) = WireSize(w)
        /\ DatasetParse(DatasetClear(m), w) = m
        /\ DatasetParse(m, w) = DatasetMerge(m, m)
        /\ DatasetParse(other, w) = DatasetMerge(other, m)
        /\ IF m.case = "flat" THEN FlatAgrees(m.flat) ELSE PacketAgrees(m.packet, order)
ContainerAgrees(m, order) ==
    LET w == ContainerSerialize(m, order)
        other == [EmptyContainer EXCEPT !.structure_version = 3, !.packet_data = 1,
                                        !.fields = 0 :> SetData(EmptyValue, "v_int", 5)]
    IN  /\ ContainerByteSize(m) = WireSize(w)
        /\ ContainerParse(other, w) = ContainerMerge(other, m)
        /\ ContainerParse(ContainerClear(other), w) = ContainerCopy(other, m)
        /\ \A id \in DOMAIN m.datasets : DatasetAgrees(m.datasets[id], order)
ReplyAgrees(m, order) ==
    LET w == SqlReplySerialize(m, order) IN
    /\ SqlReplyByteSize(m) = WireSize(w)
    /\ SqlReplyParse(m, w) = SqlReplyMerge(m, m)
    /\ ContainerAgrees(SqlReplyData(m), order)
ScalarAgrees(class, m, onto) ==
    LET w == Serialize(class, m) IN
    /\ ByteSize(class, m) = WireSize(w)
    /\ Parse(class, Clear(class, onto), w) = m
    /\ Parse(class, onto, w) = Merge(class, onto, m)

\* Every message that travels keeps these promises, with the maps of a container
\* in any order, so a message may come in parts and an object may be used again;
\* and a string that is not UTF-8 is the only thing that makes one unreadable.
ParseOntoIsMerge ==
    /\ sample # None =>
        IF \E i \in DOMAIN sample.class :
                sample.class[i].type = "text" /\ sample.message[sample.class[i].name] \in NotUtf8
        THEN Parse(sample.class, sample.onto, Serialize(sample.class, sample.message)) = Failed
        ELSE ScalarAgrees(sample.class, sample.message, sample.onto)
    /\ phase = "sent" /\ SqlReplyParse(NewSqlReply, wire) # Failed =>
        \A order \in Orders : ReplyAgrees(reply, order)

=============================================================================
