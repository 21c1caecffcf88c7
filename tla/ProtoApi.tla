------------------------------- MODULE ProtoApi -------------------------------
(***************************************************************************)
(* The messages of the calls: sql.proto, srv.proto and test.proto as the   *)
(* generated classes handle them.  All but SqlReply consist of strings and *)
(* whole numbers only, and their classes are instances of one pattern: a   *)
(* class is given here by its fields, in the order of the numbers, and the *)
(* methods by operators over the fields.  Wire and strings are those of    *)
(* module ProtoShared; a whole number is a natural one.                    *)
(***************************************************************************)
EXTENDS ProtoShared

Str(num, name) == [num |-> num, name |-> name, type |-> "text"]
Num(num, name) == [num |-> num, name |-> name, type |-> "varint"]

SqlRequest       == <<Str(1, "sql")>>
LoginRequest     == <<Str(1, "login"), Str(2, "password")>>
LoginReply       == <<Num(1, "error_code"), Str(2, "error_text"), Str(3, "session_id"),
                      Num(4, "keep_alive_sec")>>
KeepAliveRequest == <<Str(1, "session_id")>>
KeepAliveReply   == <<Num(1, "error_code"), Str(2, "error_text")>>
TestRequest1     == <<Str(1, "request1_info")>>
TestReply1       == <<Str(1, "reply1_info")>>
TestRequest2     == <<Str(1, "request2_info")>>
TestReply2       == <<Str(1, "reply2_info")>>

Classes == {SqlRequest, LoginRequest, LoginReply, KeepAliveRequest, KeepAliveReply,
            TestRequest1, TestReply1, TestRequest2, TestReply2}

-----------------------------------------------------------------------------
\* The methods of a class

Names(class) == {class[i].name : i \in DOMAIN class}

\* The constructor: every field has the default of proto3.
New(class) == [n \in Names(class) \cup {"unknown"} |-> IF n = "unknown" THEN <<>> ELSE 0]

\* set_x.
Set(m, name, v) == [m EXCEPT ![name] = v]

Clear(class, m) == [n \in DOMAIN m |-> New(class)[n]]

\* One turn of the loop of _InternalParse: by number and wire type.
ParseField(class, m, f) ==
    LET known == {i \in DOMAIN class : Is(f, class[i].num, class[i].type)}
    IN  IF known = {} THEN UnknownFieldParse(m, f)
        ELSE LET field == class[CHOOSE i \in known : TRUE]
                 v == f[field.type]
             IN  IF field.type = "text" /\ v \in NotUtf8 THEN Failed ELSE Set(m, field.name, v)

Parse(class, m, wire) == ParseFields(LAMBDA x, f : ParseField(class, x, f), m, wire)

\* Fields with their default are not written.
FieldsOf(class, m) ==
    LET Field(k) == IF k.type = "text" THEN Text(k.num, m[k.name]) ELSE Varint(k.num, m[k.name])
        upTo[i \in 0 .. Len(class)] ==
            IF i = 0 THEN <<>>
            ELSE upTo[i - 1] \o (IF m[class[i].name] = 0 THEN <<>> ELSE <<Field(class[i])>>)
    IN  upTo[Len(class)]

Serialize(class, m) == FieldsOf(class, m) \o m.unknown

FieldByteSize(k, v) ==
    CASE v = 0 -> 0
      [] v # 0 /\ k.type = "text"   -> 1 + MessageSize(v)
      [] v # 0 /\ k.type = "varint" -> 1 + VarintSize(v)

ByteSize(class, m) ==
    SumOver(LAMBDA i : FieldByteSize(class[i], m[class[i].name]), DOMAIN class)
        + WireSize(m.unknown)

\* Mutant of Merge: a field that was set stays.
Merge_First(class, m, from) ==
    [n \in DOMAIN m |-> IF n = "unknown" THEN m[n] \o from[n]
                        ELSE IF m[n] # 0 THEN m[n] ELSE from[n]]

\* A default does not overwrite.
Merge(class, m, from) ==
    [n \in DOMAIN m |-> IF n = "unknown" THEN m[n] \o from[n]
                        ELSE IF from[n] # 0 THEN from[n] ELSE m[n]]

-----------------------------------------------------------------------------
\* SqlReply, which also owns a DataContainer: `data` holds it or is empty

SqlReplyFields == <<Num(1, "error_code"), Str(2, "error_text"), Num(3, "result_type")>>

NewSqlReply == [error_code |-> 0, error_text |-> 0, result_type |-> 0, data |-> <<>>,
                unknown |-> <<>>]

\* data(): the default instance when there is none.
SqlReplyData(m) == IF m.data = <<>> THEN EmptyContainer ELSE m.data[1]

\* set_allocated_data: the one before is deleted.
SetAllocatedData(m, container) == [m EXCEPT !.data = <<container>>]

SqlReplyField(x, f) ==
    IF ~Is(f, 4, "msg") THEN ParseField(SqlReplyFields, x, f)
    ELSE LET d == ParseMessage(ContainerParse, SqlReplyData(x), f)
         IN  IF d = Failed THEN Failed ELSE SetAllocatedData(x, d)

SqlReplyParse(m, wire) == ParseFields(SqlReplyField, m, wire)

SqlReplySerialize(m, order) ==
    FieldsOf(SqlReplyFields, m)
    \o (IF m.data = <<>> THEN <<>>
        ELSE <<Sub(4, ContainerByteSize(m.data[1]), ContainerSerialize(m.data[1], order))>>)
    \o m.unknown

SqlReplyByteSize(m) ==
    SumOver(LAMBDA i : FieldByteSize(SqlReplyFields[i], m[SqlReplyFields[i].name]),
            DOMAIN SqlReplyFields)
    + (IF m.data = <<>> THEN 0 ELSE 1 + MessageSize(ContainerByteSize(m.data[1])))
    + WireSize(m.unknown)

SqlReplyMerge(m, from) ==
    [error_code  |-> IF from.error_code # 0 THEN from.error_code ELSE m.error_code,
     error_text  |-> IF from.error_text # 0 THEN from.error_text ELSE m.error_text,
     result_type |-> IF from.result_type # 0 THEN from.result_type ELSE m.result_type,
     data        |-> IF from.data = <<>> THEN m.data
                     ELSE <<ContainerMerge(SqlReplyData(m), from.data[1])>>,
     unknown     |-> m.unknown \o from.unknown]

=============================================================================
