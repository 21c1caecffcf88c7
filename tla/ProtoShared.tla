---------------------------- MODULE ProtoShared ----------------------------
(***************************************************************************)
(* The messages of shared.proto as the generated classes handle them: how  *)
(* a Value, a dataset and a DataContainer are cleared, measured, written   *)
(* to the wire, read from it and merged.                                   *)
(*                                                                         *)
(* The wire is a sequence of fields.  A field is a record of its number    *)
(* and of one payload, whose name is its wire type: varint, fixed64, text  *)
(* (length-delimited bytes) or msg (a length-delimited message with the    *)
(* length `len` that was written before it).  The writer takes that length *)
(* from ByteSizeLong, the reader consumes what is really there, so a size  *)
(* that does not agree with the serialisation is a message that cannot be  *)
(* read.  Bytes of a tag or a number are not told apart.                   *)
(*                                                                         *)
(* A string is a natural number, its length; NotUtf8 are the strings that  *)
(* are not valid UTF-8.  A map is a function, iterated in the order of the *)
(* sequence `order`, which depends on the hash and is arbitrary.           *)
(***************************************************************************)
EXTENDS Naturals, Sequences, TLC
LOCAL INSTANCE SequencesExt
LOCAL INSTANCE FiniteSetsExt

CONSTANTS
    NotUtf8,        \* the strings that are not valid UTF-8
    Failed          \* nullptr from _InternalParse: the whole message is refused

ASSUME NotUtf8Assumption == NotUtf8 \subseteq Nat \ {0}

-----------------------------------------------------------------------------
\* The protobuf library

Varint(n, v)     == [num |-> n, varint |-> v]
Fixed64(n, v)    == [num |-> n, fixed64 |-> v]
Text(n, v)       == [num |-> n, text |-> v]
Sub(n, len, msg) == [num |-> n, len |-> len, msg |-> msg]

Is(f, n, type) == f.num = n /\ type \in DOMAIN f

VarintSize(v)  == IF v < 128 THEN 1 ELSE IF v < 16384 THEN 2 ELSE 3
MessageSize(n) == VarintSize(n) + n        \* a length and what follows it

\* The bytes a field takes, its tag of one byte included.
FieldSize(f) == 1 + CASE "varint"  \in DOMAIN f -> VarintSize(f.varint)
                      [] "fixed64" \in DOMAIN f -> 8
                      [] "text"    \in DOMAIN f -> MessageSize(f.text)
                      [] OTHER -> MessageSize(f.len)

WireSize(wire) == FoldLeft(LAMBDA n, f : n + FieldSize(f), 0, wire)

\* The loop of every _InternalParse: fields in the order of the wire, until one
\* of them fails.
ParseFields(Field(_, _), m, wire) ==
    LET after[i \in 0 .. Len(wire)] ==
            IF i = 0 THEN m
            ELSE LET x == after[i - 1]
                 IN  IF x = Failed THEN Failed ELSE Field(x, wire[i])
    IN  after[Len(wire)]

\* ParseContext::ParseMessage: exactly `len` bytes are given to the submessage.
ParseMessage(Parse(_, _), m, f) ==
    IF f.len = WireSize(f.msg) THEN Parse(m, f.msg) ELSE Failed

\* A field whose number or wire type the class does not know is kept.
UnknownFieldParse(m, f) == [m EXCEPT !.unknown = Append(@, f)]

\* m with field f set to v, unless v could not be parsed.
With(m, f, v) == IF v = Failed THEN Failed ELSE [m EXCEPT ![f] = v]

\* A map with key k set to v.
Put(map, k, v) == [x \in DOMAIN map \cup {k} |-> IF x = k THEN v ELSE map[x]]

\* Parsing of a map entry: key 0 and an empty value unless present; an entry
\* whose key is there already replaces it.
ParseEntry(Parse(_, _), empty, map, f) ==
    LET Field(e, g) == IF Is(g, 1, "varint") THEN [e EXCEPT !.key = g.varint]
                       ELSE IF Is(g, 2, "msg") THEN With(e, "value", ParseMessage(Parse, e.value, g))
                       ELSE e
        ParseIt(e, wire) == ParseFields(Field, e, wire)
        entry == ParseMessage(ParseIt, [key |-> 0, value |-> empty], f)
    IN  IF entry = Failed THEN Failed ELSE Put(map, entry.key, entry.value)

\* A map entry is a message with the key in field 1 and the value in field 2,
\* both always written.
EntryByteSize(key, size) == 1 + VarintSize(key) + 1 + MessageSize(size)
WriteEntry(n, key, size, wire) ==
    Sub(n, EntryByteSize(key, size), <<Varint(1, key), Sub(2, size, wire)>>)

\* The keys of a map, in the order of the iteration.
KeysIn(order, map) ==
    LET among[i \in 0 .. Len(order)] ==
            IF i = 0 THEN <<>>
            ELSE among[i - 1] \o (IF order[i] \in DOMAIN map THEN <<order[i]>> ELSE <<>>)
    IN  among[Len(order)]

NonZero(n, v)      == IF v = 0 THEN <<>> ELSE <<Varint(n, v)>>
NonZeroSize(v)     == IF v = 0 THEN 0 ELSE 1 + VarintSize(v)
SumOver(Size(_), S) == MapThenSumSet(Size, S)

-----------------------------------------------------------------------------
\* Value: a oneof of eight cases

ValueNumber == [v_string |-> 1, v_int |-> 3, v_double |-> 4, v_bool |-> 5,
                v_bytes |-> 6, v_date_time |-> 7, v_time |-> 8, v_null |-> 9]
ValueCases == DOMAIN ValueNumber
ValueType  == [c \in ValueCases |-> CASE c \in {"v_string", "v_bytes"} -> "text"
                                      [] c = "v_double" -> "fixed64"
                                      [] OTHER -> "varint"]

EmptyValue == [case |-> "none", val |-> 0, unknown |-> <<>>]

\* The setters: another case is cleared first, so the last one set is the only one.
SetData(m, c, v) == [m EXCEPT !.case = c, !.val = v]

\* The getters: the default of a field that is not the one set is 0 or "".
GetData(m, c) == IF m.case = c THEN m.val ELSE 0

ClearData(m)  == [m EXCEPT !.case = "none", !.val = 0]
ValueClear(m) == [ClearData(m) EXCEPT !.unknown = <<>>]

\* A varint is read as a bool by comparison with 0.
AsField(c, v) == IF c \in {"v_bool", "v_null"} /\ v # 0 THEN 1 ELSE v

ValueField(x, f) ==
    LET known == {c \in ValueCases : Is(f, ValueNumber[c], ValueType[c])}
    IN  IF known = {} THEN UnknownFieldParse(x, f)
        ELSE LET c == CHOOSE c \in known : TRUE
                 v == f[ValueType[c]]
             IN  IF c = "v_string" /\ v \in NotUtf8 THEN Failed
                 ELSE SetData(x, c, AsField(c, v))

ValueParse(m, wire) == ParseFields(ValueField, m, wire)

\* A case that is set is written even when its value is 0.  A text that is not
\* valid UTF-8 is only reported here, and written.
ValueSerialize(m) ==
    (IF m.case = "none" THEN <<>>
     ELSE <<[x \in {"num", ValueType[m.case]} |->
                IF x = "num" THEN ValueNumber[m.case] ELSE m.val]>>) \o m.unknown

ValueByteSize(m) ==
    (CASE m.case = "none" -> 0
       [] m.case \in {"v_bool", "v_null"} -> 1 + 1
       [] m.case = "v_double" -> 1 + 8
       [] m.case \in {"v_string", "v_bytes"} -> 1 + MessageSize(m.val)
       [] OTHER -> 1 + VarintSize(m.val)) + WireSize(m.unknown)

ValueMerge(m, from) ==
    [(IF from.case = "none" THEN m ELSE SetData(m, from.case, from.val))
        EXCEPT !.unknown = @ \o from.unknown]

-----------------------------------------------------------------------------
\* PacketDataset: a map of rows, a row is a map of the cells that were written

NoMap    == <<>>        \* the empty function
EmptyRow == [data |-> NoMap, unknown |-> <<>>]

RowClear(m) == [m EXCEPT !.data = NoMap, !.unknown = <<>>]

RowField(x, f) ==
    IF Is(f, 1, "msg") THEN With(x, "data", ParseEntry(ValueParse, EmptyValue, x.data, f))
    ELSE UnknownFieldParse(x, f)

RowParse(m, wire) == ParseFields(RowField, m, wire)

RowSerialize(m, order) ==
    LET keys == KeysIn(order, m.data) IN
    [i \in DOMAIN keys |-> WriteEntry(1, keys[i], ValueByteSize(m.data[keys[i]]),
                                      ValueSerialize(m.data[keys[i]]))] \o m.unknown

RowByteSize(m) ==
    SumOver(LAMBDA k : 1 + MessageSize(EntryByteSize(k, ValueByteSize(m.data[k]))),
            DOMAIN m.data) + WireSize(m.unknown)

RowMerge(m, from) == [m EXCEPT !.data = from.data @@ @, !.unknown = @ \o from.unknown]

EmptyPacket == [column_count |-> 0, row_count |-> 0, rows |-> NoMap, unknown |-> <<>>]

PacketClear(m) == [m EXCEPT !.column_count = 0, !.row_count = 0, !.rows = NoMap,
                            !.unknown = <<>>]

PacketField(x, f) ==
    CASE Is(f, 1, "varint") -> [x EXCEPT !.column_count = f.varint]
      [] Is(f, 2, "varint") -> [x EXCEPT !.row_count = f.varint]
      [] Is(f, 3, "msg") -> With(x, "rows", ParseEntry(RowParse, EmptyRow, x.rows, f))
      [] OTHER -> UnknownFieldParse(x, f)

PacketParse(m, wire) == ParseFields(PacketField, m, wire)

PacketSerialize(m, order) ==
    LET keys == KeysIn(order, m.rows) IN
    NonZero(1, m.column_count) \o NonZero(2, m.row_count)
    \o [i \in DOMAIN keys |-> WriteEntry(3, keys[i], RowByteSize(m.rows[keys[i]]),
                                         RowSerialize(m.rows[keys[i]], order))]
    \o m.unknown

PacketByteSize(m) ==
    SumOver(LAMBDA k : 1 + MessageSize(EntryByteSize(k, RowByteSize(m.rows[k]))), DOMAIN m.rows)
        + NonZeroSize(m.row_count) + NonZeroSize(m.column_count) + WireSize(m.unknown)

\* A count of 0 does not overwrite: proto3 cannot tell it from a missing one.
PacketMerge(m, from) ==
    [m EXCEPT !.rows = from.rows @@ @,
              !.row_count = IF from.row_count # 0 THEN from.row_count ELSE @,
              !.column_count = IF from.column_count # 0 THEN from.column_count ELSE @,
              !.unknown = @ \o from.unknown]

-----------------------------------------------------------------------------
\* FlatDataset: a sequence of rows, a row is a sequence of cells

EmptyFlatRow == [data |-> <<>>, unknown |-> <<>>]

FlatRowClear(m) == [m EXCEPT !.data = <<>>, !.unknown = <<>>]

FlatRowField(x, f) ==
    IF ~Is(f, 1, "msg") THEN UnknownFieldParse(x, f)
    ELSE LET v == ParseMessage(ValueParse, EmptyValue, f)
         IN  IF v = Failed THEN Failed ELSE [x EXCEPT !.data = Append(@, v)]

FlatRowParse(m, wire) == ParseFields(FlatRowField, m, wire)

FlatRowSerialize(m) ==
    [i \in DOMAIN m.data |-> Sub(1, ValueByteSize(m.data[i]), ValueSerialize(m.data[i]))]
        \o m.unknown

FlatRowByteSize(m) ==
    SumOver(LAMBDA i : 1 + MessageSize(ValueByteSize(m.data[i])), DOMAIN m.data)
        + WireSize(m.unknown)

FlatRowMerge(m, from) == [m EXCEPT !.data = @ \o from.data, !.unknown = @ \o from.unknown]

EmptyFlat == [column_count |-> 0, rows |-> <<>>, unknown |-> <<>>]

FlatClear(m) == [m EXCEPT !.column_count = 0, !.rows = <<>>, !.unknown = <<>>]

\* Mutant of FlatField: a row that carries nothing is dropped.
FlatField_SkipsEmptyRows(x, f) ==
    CASE Is(f, 1, "varint") -> [x EXCEPT !.column_count = f.varint]
      [] Is(f, 2, "msg") ->
           LET r == ParseMessage(FlatRowParse, EmptyFlatRow, f)
           IN  IF r = Failed THEN Failed
               ELSE IF \A i \in DOMAIN r.data : r.data[i] = EmptyValue THEN x
               ELSE [x EXCEPT !.rows = Append(@, r)]
      [] OTHER -> UnknownFieldParse(x, f)

FlatField(x, f) ==
    CASE Is(f, 1, "varint") -> [x EXCEPT !.column_count = f.varint]
      [] Is(f, 2, "msg") ->
           LET r == ParseMessage(FlatRowParse, EmptyFlatRow, f)
           IN  IF r = Failed THEN Failed ELSE [x EXCEPT !.rows = Append(@, r)]
      [] OTHER -> UnknownFieldParse(x, f)

FlatParse(m, wire) == ParseFields(FlatField, m, wire)

FlatSerialize(m) ==
    NonZero(1, m.column_count)
    \o [i \in DOMAIN m.rows |-> Sub(2, FlatRowByteSize(m.rows[i]), FlatRowSerialize(m.rows[i]))]
    \o m.unknown

FlatByteSize(m) ==
    SumOver(LAMBDA i : 1 + MessageSize(FlatRowByteSize(m.rows[i])), DOMAIN m.rows)
        + NonZeroSize(m.column_count) + WireSize(m.unknown)

FlatMerge(m, from) ==
    [m EXCEPT !.rows = @ \o from.rows,
              !.column_count = IF from.column_count # 0 THEN from.column_count ELSE @,
              !.unknown = @ \o from.unknown]

-----------------------------------------------------------------------------
\* DataContainer.Dataset: a oneof of the two kinds of dataset

EmptyDataset == [case |-> "none", packet |-> EmptyPacket, flat |-> EmptyFlat, unknown |-> <<>>]

DatasetClearData(m) == [m EXCEPT !.case = "none", !.packet = EmptyPacket, !.flat = EmptyFlat]
DatasetClear(m)     == [DatasetClearData(m) EXCEPT !.unknown = <<>>]

\* set_allocated_packet, set_allocated_flat: whatever was there is deleted.
SetAllocatedPacket(m, d) == [DatasetClearData(m) EXCEPT !.case = "packet", !.packet = d]
SetAllocatedFlat(m, d)   == [DatasetClearData(m) EXCEPT !.case = "flat", !.flat = d]

\* mutable_packet, mutable_flat: what is there, or a new one in place of the other.
MutablePacket(m) == IF m.case = "packet" THEN m ELSE SetAllocatedPacket(m, EmptyPacket)
MutableFlat(m)   == IF m.case = "flat" THEN m ELSE SetAllocatedFlat(m, EmptyFlat)

DatasetField(x, f) ==
    CASE Is(f, 1, "msg") -> LET d == MutablePacket(x)
                            IN  With(d, "packet", ParseMessage(PacketParse, d.packet, f))
      [] Is(f, 2, "msg") -> LET d == MutableFlat(x)
                            IN  With(d, "flat", ParseMessage(FlatParse, d.flat, f))
      [] OTHER -> UnknownFieldParse(x, f)

DatasetParse(m, wire) == ParseFields(DatasetField, m, wire)

DatasetSerialize(m, order) ==
    (CASE m.case = "packet" -> <<Sub(1, PacketByteSize(m.packet), PacketSerialize(m.packet, order))>>
       [] m.case = "flat" -> <<Sub(2, FlatByteSize(m.flat), FlatSerialize(m.flat))>>
       [] OTHER -> <<>>) \o m.unknown

DatasetByteSize(m) ==
    (CASE m.case = "packet" -> 1 + MessageSize(PacketByteSize(m.packet))
       [] m.case = "flat" -> 1 + MessageSize(FlatByteSize(m.flat))
       [] OTHER -> 0) + WireSize(m.unknown)

DatasetMerge(m, from) ==
    [(CASE from.case = "packet" -> [MutablePacket(m) EXCEPT !.packet = PacketMerge(@, from.packet)]
        [] from.case = "flat" -> [MutableFlat(m) EXCEPT !.flat = FlatMerge(@, from.flat)]
        [] OTHER -> m) EXCEPT !.unknown = @ \o from.unknown]

-----------------------------------------------------------------------------
\* DataContainer

EmptyContainer == [structure_version |-> 0, fields |-> NoMap, datasets |-> NoMap,
                   packet_data |-> 0, unknown |-> <<>>]

ContainerClear(m) ==
    [m EXCEPT !.structure_version = 0, !.fields = NoMap, !.datasets = NoMap,
              !.packet_data = 0, !.unknown = <<>>]

ContainerField(x, f) ==
    CASE Is(f, 1, "varint") -> [x EXCEPT !.structure_version = f.varint]
      [] Is(f, 2, "msg") -> With(x, "fields", ParseEntry(ValueParse, EmptyValue, x.fields, f))
      [] Is(f, 3, "msg") -> With(x, "datasets", ParseEntry(DatasetParse, EmptyDataset, x.datasets, f))
      [] Is(f, 4, "varint") -> [x EXCEPT !.packet_data = IF f.varint # 0 THEN 1 ELSE 0]
      [] OTHER -> UnknownFieldParse(x, f)

ContainerParse(m, wire) == ParseFields(ContainerField, m, wire)

ContainerSerialize(m, order) ==
    LET fs == KeysIn(order, m.fields)
        ds == KeysIn(order, m.datasets)
    IN  NonZero(1, m.structure_version)
        \o [i \in DOMAIN fs |-> WriteEntry(2, fs[i], ValueByteSize(m.fields[fs[i]]),
                                           ValueSerialize(m.fields[fs[i]]))]
        \o [i \in DOMAIN ds |-> WriteEntry(3, ds[i], DatasetByteSize(m.datasets[ds[i]]),
                                           DatasetSerialize(m.datasets[ds[i]], order))]
        \o NonZero(4, m.packet_data) \o m.unknown

ContainerByteSize(m) ==
    SumOver(LAMBDA k : 1 + MessageSize(EntryByteSize(k, ValueByteSize(m.fields[k]))),
            DOMAIN m.fields)
    + SumOver(LAMBDA k : 1 + MessageSize(EntryByteSize(k, DatasetByteSize(m.datasets[k]))),
              DOMAIN m.datasets)
    + NonZeroSize(m.structure_version) + NonZeroSize(m.packet_data) + WireSize(m.unknown)

ContainerMerge(m, from) ==
    [m EXCEPT !.fields = from.fields @@ @,
              !.datasets = from.datasets @@ @,
              !.structure_version = IF from.structure_version # 0 THEN from.structure_version ELSE @,
              !.packet_data = IF from.packet_data # 0 THEN from.packet_data ELSE @,
              !.unknown = @ \o from.unknown]

\* CopyFrom: what was there goes, unknown fields too.
ContainerCopy(m, from) == ContainerMerge(ContainerClear(m), from)

=============================================================================
