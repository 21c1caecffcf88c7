--------------------------- MODULE DataConverter ---------------------------
(***************************************************************************)
(* The wrappers of hrs_converter.cpp, through which a DataContainer is     *)
(* filled and read.  A dataset is stored in one of two ways: packed, maps  *)
(* of the cells that were written, which grow as needed; or flat, all the  *)
(* cells from the start, which cannot grow.  The flag packet_data of the   *)
(* container says which, and both sides choose by it.  It is set when a    *)
(* writer is made: one of the other kind hides the datasets that are there,*)
(* and drops each that it opens.                                           *)
(*                                                                         *)
(* A wrapper keeps a pointer into the message and is kept itself by the    *)
(* wrapper of the container; `writer` are those caches of the one writer a *)
(* container has at a time.  An assert of the code is a guard here: the    *)
(* calls modelled are those that keep the contract the asserts state.      *)
(* Indices stay below 2^32.                                                *)
(***************************************************************************)
EXTENDS ProtoShared

CONSTANTS
    FieldIds,       \* ids of fields
    DatasetIds,     \* ids of datasets
    MaxRows,        \* bound of row numbers and counts
    MaxColumns,     \* bound of column numbers and counts
    Data,           \* what can be set: records of a case of Value and a value
    None

Rows    == 0 .. MaxRows - 1
Columns == 0 .. MaxColumns - 1

VARIABLES
    container,      \* the DataContainer being filled
    writer,         \* the DataContainerWrapper with the wrappers it keeps
    process         \* "running", until a null pointer is used

converterVars == <<container, writer, process>>

ASSUME BoundsAssumption == MaxRows \in Nat \ {0} /\ MaxColumns \in Nat \ {0}
ASSUME DataAssumption == Data \subseteq [case : ValueCases, val : Nat]

Packed(m) == m.packet_data = 1
Max2(a, b) == IF a > b THEN a ELSE b

-----------------------------------------------------------------------------
\* The messages of a container, as far as a writer can bring them about

IsMap(f, S) == DOMAIN f \subseteq S /\ f = [k \in DOMAIN f |-> f[k]]
Only        == {<<>>}       \* a writer leaves no unknown fields

Value   == {v \in [case : ValueCases \cup {"none"}, val : Nat, unknown : Only] :
              v.case = "none" => v.val = 0}
FlatRow == [data : Seq(Value), unknown : Only]
Flat    == [column_count : 0 .. MaxColumns, rows : Seq(FlatRow), unknown : Only]

IsRow(m) ==
    /\ m = [data |-> m.data, unknown |-> <<>>]
    /\ IsMap(m.data, Columns)
    /\ \A c \in DOMAIN m.data : m.data[c] \in Value
IsPacket(m) ==
    /\ m = [column_count |-> m.column_count, row_count |-> m.row_count,
            rows |-> m.rows, unknown |-> <<>>]
    /\ m.column_count \in 0 .. MaxColumns /\ m.row_count \in 0 .. MaxRows
    /\ IsMap(m.rows, Rows)
    /\ \A r \in DOMAIN m.rows : IsRow(m.rows[r])
IsDataset(m) ==
    /\ m = [case |-> m.case, packet |-> m.packet, flat |-> m.flat, unknown |-> <<>>]
    /\ m.case \in {"packet", "flat"}
    /\ IsPacket(m.packet) /\ m.flat \in Flat
    /\ m.case = "packet" => m.flat = EmptyFlat
    /\ m.case = "flat" => m.packet = EmptyPacket
IsContainer(m) ==
    /\ m = [structure_version |-> m.structure_version, fields |-> m.fields,
            datasets |-> m.datasets, packet_data |-> m.packet_data, unknown |-> <<>>]
    /\ m.structure_version \in Nat /\ m.packet_data \in {0, 1}
    /\ IsMap(m.fields, FieldIds)
    /\ \A id \in DOMAIN m.fields : m.fields[id] \in Value
    /\ IsMap(m.datasets, DatasetIds)
    /\ \A id \in DOMAIN m.datasets : IsDataset(m.datasets[id])

ASSUME NoneAssumption == None \notin Value

-----------------------------------------------------------------------------
\* Reading

RowCount(m, id)    == IF Packed(m) THEN m.datasets[id].packet.row_count
                      ELSE Len(m.datasets[id].flat.rows)
ColumnCount(m, id) == IF Packed(m) THEN m.datasets[id].packet.column_count
                      ELSE m.datasets[id].flat.column_count

HasDataset(m, id) == id \in DOMAIN m.datasets
HasField(m, id)   == id \in DOMAIN m.fields

\* The bounds are checked, then a packed cell may be missing; a flat one never
\* is: it is taken out of its row without another look.
RawValue(m, id, row, col) ==
    LET packet == m.datasets[id].packet IN
    IF row >= RowCount(m, id) \/ col >= ColumnCount(m, id) THEN None
    ELSE IF ~Packed(m) THEN m.datasets[id].flat.rows[row + 1].data[col + 1]
    ELSE IF row \notin DOMAIN packet.rows THEN None
    ELSE IF col \notin DOMAIN packet.rows[row].data THEN None
    ELSE packet.rows[row].data[col]

HasValue(m, id, row, col) == RawValue(m, id, row, col) # None

\* ValueWrapper::type: no value and a value without a case are both Empty.
Type(v) == IF v = None THEN "none" ELSE v.case

\* What a reader gets: the type and, with the getter of this type, the value.
Read(v)               == [case |-> Type(v), val |-> IF v = None THEN 0 ELSE GetData(v, v.case)]
ReadCell(m, id, r, c) == IF HasValue(m, id, r, c) THEN Read(RawValue(m, id, r, c)) ELSE Read(None)
ReadField(m, id)      == Read(m.fields[id])

-----------------------------------------------------------------------------
\* Writing

Grow(d, rows, columns) ==
    [d EXCEPT !.row_count = Max2(@, rows), !.column_count = Max2(@, columns)]

\* Mutant of SetPacked: the cell is made and filled, the counts stay.
SetPacked_NoGrow(d, row, col, x) ==
    LET r == IF row \in DOMAIN d.rows THEN d.rows[row] ELSE EmptyRow
        v == IF col \in DOMAIN r.data THEN r.data[col] ELSE EmptyValue
    IN  [d EXCEPT !.rows = Put(@, row, [r EXCEPT !.data = Put(@, col, SetData(v, x.case, x.val))])]

\* rawValue of a packed dataset for writing, then the setter: the counts grow,
\* the row and the cell are made unless they are there.
SetPacked(d, row, col, x) ==
    LET r == IF row \in DOMAIN d.rows THEN d.rows[row] ELSE EmptyRow
        v == IF col \in DOMAIN r.data THEN r.data[col] ELSE EmptyValue
    IN  [Grow(d, row + 1, col + 1)
            EXCEPT !.rows = Put(@, row, [r EXCEPT !.data = Put(@, col, SetData(v, x.case, x.val))])]

SetFlat(d, row, col, x) == [d EXCEPT !.rows[row + 1].data[col + 1] = SetData(@, x.case, x.val)]

\* clearValue: the last cell takes its row with it; the counts stay.
ClearPacked(d, row, col) ==
    IF row \notin DOMAIN d.rows THEN d
    ELSE LET data == d.rows[row].data
             left == [c \in DOMAIN data \ {col} |-> data[c]]
         IN  IF left = NoMap THEN [d EXCEPT !.rows = [r \in DOMAIN @ \ {row} |-> @[r]]]
             ELSE [d EXCEPT !.rows[row].data = left]

NewFlat(rows, columns) ==
    [EmptyFlat EXCEPT !.column_count = columns,
                      !.rows = [i \in 1 .. rows |->
                                  [EmptyFlatRow EXCEPT !.data = [j \in 1 .. columns |-> EmptyValue]]]]

\* Mutant of OpenDataset: a dataset that is there is taken as it is, of whatever kind.
OpenDataset_AsItIs(m, id, rows, columns) ==
    LET d == IF Packed(m) THEN SetAllocatedPacket(EmptyDataset, EmptyPacket)
             ELSE SetAllocatedFlat(EmptyDataset, NewFlat(rows, columns))
    IN  IF HasDataset(m, id) THEN m ELSE [m EXCEPT !.datasets = Put(@, id, d)]

\* datasetWriterHelper on a container without the wrapper: the dataset is made
\* when it is missing (flat: only with create, of the size asked for), and
\* mutable_packet or mutable_flat drops data of the other kind.
OpenDataset(m, id, rows, columns) ==
    LET d == IF HasDataset(m, id) THEN m.datasets[id]
             ELSE IF Packed(m) THEN SetAllocatedPacket(EmptyDataset, EmptyPacket)
             ELSE SetAllocatedFlat(EmptyDataset, NewFlat(rows, columns))
    IN  [m EXCEPT !.datasets = Put(@, id, IF Packed(m) THEN MutablePacket(d) ELSE MutableFlat(d))]

NoWriter   == [fields |-> {}, datasets |-> NoMap, open |-> FALSE]
Kind(m)    == IF Packed(m) THEN "packet" ELSE "flat"
IsKept(id) == id \in DOMAIN writer.datasets
Keep(id)   == writer' = [writer EXCEPT !.datasets = Put(@, id, Kind(container))]

\* The dataset as a wrapper kept before, or made now, sees it: a size asked for
\* is forgotten when the wrapper, or the flat dataset, was there before.
Opened(id, rows, columns) ==
    IF IsKept(id) THEN container ELSE OpenDataset(container, id, rows, columns)

\* createWriter(container, packet_data).  The flag is set, whatever datasets there
\* are: those of the other kind are hidden, that is, a reader finds them empty.
CreateWriter ==
    /\ ~writer.open
    /\ \E packed \in {0, 1} : container' = [container EXCEPT !.packet_data = packed]
    /\ writer' = [NoWriter EXCEPT !.open = TRUE]
    /\ UNCHANGED process

SetVersion(v) ==
    /\ writer.open
    /\ container' = [container EXCEPT !.structure_version = v]
    /\ UNCHANGED <<writer, process>>

\* fieldWriter(id): a missing field is made, as Null.
FieldWriter(id) ==
    /\ writer.open
    /\ id \notin writer.fields
    /\ container' = IF HasField(container, id) THEN container
                    ELSE [container EXCEPT !.fields = Put(@, id, SetData(EmptyValue, "v_null", 1))]
    /\ writer' = [writer EXCEPT !.fields = @ \cup {id}]
    /\ UNCHANGED process

\* A setter of the ValueWrapper of a field.
SetField(id, x) ==
    /\ id \in writer.fields
    /\ container' = [container EXCEPT !.fields[id] = SetData(@, x.case, x.val)]
    /\ UNCHANGED <<writer, process>>

\* initDataset: packed, open and grow; flat, make it of this size.  Without a size
\* it is a datasetWriter(id) that is made and not used.
InitDataset(id, rows, columns) ==
    /\ writer.open
    /\ container' = IF Packed(container)
                    THEN [Opened(id, 0, 0) EXCEPT !.datasets[id].packet = Grow(@, rows, columns)]
                    ELSE Opened(id, rows, columns)
    /\ Keep(id)
    /\ UNCHANGED process

\* datasetWriter(id)->setValue(row, col, v) and its kin.  Flat: the dataset must
\* have been initialised and the cell must lie in it.
SetValue(id, row, col, x) ==
    /\ writer.open
    /\ IF Packed(container)
       THEN container' = [Opened(id, 0, 0) EXCEPT !.datasets[id].packet = SetPacked(@, row, col, x)]
       ELSE /\ HasDataset(container, id)
            /\ row < RowCount(container, id) /\ col < ColumnCount(container, id)
            /\ container' = [Opened(id, 0, 0) EXCEPT !.datasets[id].flat = SetFlat(@, row, col, x)]
    /\ Keep(id)
    /\ UNCHANGED process

\* datasetWriter(id)->clearValue(row, col) of a cell that the asserts allow.  It
\* works on the packed data whatever the kind: the wrapper of a flat dataset has a
\* null pointer there, and using it is undefined.
ClearValue(id, row, col) ==
    /\ writer.open
    /\ HasDataset(container, id)
    /\ row < RowCount(container, id) /\ col < ColumnCount(container, id)
    /\ IF Packed(container)
       THEN /\ container' = [Opened(id, 0, 0) EXCEPT !.datasets[id].packet = ClearPacked(@, row, col)]
            /\ Keep(id)
            /\ UNCHANGED process
       ELSE process' = "undefined" /\ UNCHANGED <<container, writer>>

\* ~DataContainerWrapper: the wrappers go, the container stays.
DeleteWriter ==
    /\ writer.open
    /\ writer' = NoWriter
    /\ UNCHANGED <<container, process>>

ConverterInit ==
    /\ container = EmptyContainer
    /\ writer = NoWriter
    /\ process = "running"

ConverterNext ==
    /\ process = "running"
    /\ \/ CreateWriter \/ DeleteWriter
       \/ SetVersion(1)
       \/ \E id \in FieldIds : FieldWriter(id) \/ \E x \in Data : SetField(id, x)
       \/ \E id \in DatasetIds :
            \/ \E rows \in 0 .. MaxRows, columns \in 0 .. MaxColumns : InitDataset(id, rows, columns)
            \/ \E row \in Rows, col \in Columns :
                ClearValue(id, row, col) \/ \E x \in Data : SetValue(id, row, col, x)

ConverterSpec == ConverterInit /\ [][ConverterNext]_converterVars

-----------------------------------------------------------------------------
\* Properties

\* The type invariant.
ConverterTypeOK ==
    /\ IsContainer(container)
    /\ writer = [fields |-> writer.fields, datasets |-> writer.datasets, open |-> writer.open]
    /\ writer.fields \subseteq FieldIds /\ writer.open \in BOOLEAN
    /\ IsMap(writer.datasets, DatasetIds)
    /\ \A id \in DOMAIN writer.datasets : writer.datasets[id] \in {"packet", "flat"}
    /\ process \in {"running", "undefined"}

\* What readers of a container take for granted.  The counts of a packed dataset
\* cover all its cells, since the asserts of a reader use them, and no empty row
\* is stored; every row of a flat one has column_count cells, since data(column)
\* is read without a look.
PacketSound(d) ==
    \A r \in DOMAIN d.rows :
        /\ r < d.row_count
        /\ DOMAIN d.rows[r].data # {}
        /\ \A c \in DOMAIN d.rows[r].data : c < d.column_count
FlatSound(d) == \A i \in DOMAIN d.rows : Len(d.rows[i].data) = d.column_count
Sound(m) ==
    \A id \in DOMAIN m.datasets :
        PacketSound(m.datasets[id].packet) /\ FlatSound(m.datasets[id].flat)

\* Whatever the wrappers do in whatever order, also when writers of both kinds take
\* turns, the container stays sound, and a wrapper kept from before still has its
\* field or its dataset, of the kind it was made for, which is the container's.
ShapeKept ==
    /\ Sound(container)
    /\ writer.fields \subseteq DOMAIN container.fields
    /\ \A id \in DOMAIN writer.datasets :
        /\ HasDataset(container, id)
        /\ container.datasets[id].case = writer.datasets[id]
        /\ writer.datasets[id] = Kind(container)

\* A dataset of the other kind than the flag says, which no reader sees.
Hidden(m, id) == m.datasets[id].case # Kind(m)

\* An index that was good stays good as long as the flag does: no dataset goes, and no
\* count shrinks, when cells and rows are cleared or a smaller size is asked for.  A
\* writer of the other kind that is made hides the datasets as they are, and only a
\* dataset it has hidden can be dropped.
IndicesStayGood ==
    [][\A id \in DOMAIN container.datasets :
        /\ HasDataset(container', id)
        /\ container'.packet_data = container.packet_data =>
            /\ RowCount(container, id) <= RowCount(container', id)
            /\ ColumnCount(container, id) <= ColumnCount(container', id)
        /\ container'.packet_data # container.packet_data => container'.datasets = container.datasets
        /\ container'.datasets[id].case # container.datasets[id].case => Hidden(container, id)
      ]_converterVars

EmptyCell == [case |-> "none", val |-> 0]
NullCell  == [case |-> "v_null", val |-> 1]
DatasetCells(id) == {<<"dataset", id, r, c>> : r \in Rows, c \in Columns}
Cells == {<<"field", id, 0, 0>> : id \in FieldIds} \cup UNION {DatasetCells(id) : id \in DatasetIds}

CellOf(m, c) ==
    CASE c[1] = "field"   -> IF HasField(m, c[2]) THEN ReadField(m, c[2]) ELSE EmptyCell
      [] c[1] = "dataset" -> IF HasDataset(m, c[2]) THEN ReadCell(m, c[2], c[3], c[4]) ELSE EmptyCell

\* What a reader finds in m; what is stored, each dataset read as one of its kind;
\* and what of it is hidden.
TableOf(m)    == [c \in Cells |-> CellOf(m, c)]
Shown(m, id)  == [m EXCEPT !.packet_data = IF m.datasets[id].case = "packet" THEN 1 ELSE 0]
StoredIn(m)   == [c \in Cells |-> CellOf(IF c[1] = "dataset" /\ HasDataset(m, c[2])
                                         THEN Shown(m, c[2]) ELSE m, c)]
HiddenIn(m)   == {DatasetCells(id) : id \in {d \in DOMAIN m.datasets : Hidden(m, d)}}

Written == INSTANCE CellStore WITH
    Datasets <- {DatasetCells(id) : id \in DatasetIds},
    Values <- Data \cup {NullCell}, Untransferable <- {},
    Empty <- EmptyCell, Nothing <- None, Refused <- Failed,
    cells <- StoredIn(container), hidden <- HiddenIn(container),
    running <- process = "running", moving <- None, seen <- None

\* To who fills it a container is a plain table of cells: packed or flat, through a
\* wrapper kept, made again or made for the first time, each call of the wrappers
\* writes or clears the one cell it names and no other, or no cell at all.  But a
\* writer of the other kind hides what the datasets hold, shows it again when the
\* flag comes back, and empties each dataset that it opens; and clearing a cell of a
\* flat dataset is the end of the program.
TableKept == Written!Spec

=============================================================================
