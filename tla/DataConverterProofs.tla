------------------------ MODULE DataConverterProofs ------------------------
(***************************************************************************)
(* Theorems of DataConverter: for every number of fields, datasets, rows   *)
(* and columns, and every set of values, what the wrappers make of a       *)
(* container is well formed (Typing) and safe to read (Shape), loses no    *)
(* index (Indices) and is, to who fills it, a table of cells (Tabulates).  *)
(*                                                                         *)
(* The argument.  The inductive invariant is the type invariant with the   *)
(* shape: without the shape the counts of a packed dataset would not cover *)
(* what is written and a write could make a cell visible that it did not   *)
(* name; without the wrappers kept, a wrapper could point at nothing, or   *)
(* at a dataset of the other kind.  A packet and a flat dataset are        *)
(* treated first, each setter with what it does to the cells a reader      *)
(* sees; then a container with one dataset replaced.  The table is made of *)
(* the cells as they are stored, each dataset read as one of its own kind, *)
(* so that the flag, which a writer of either kind sets, only changes what *)
(* is hidden.  Each call comes last.                                       *)
(***************************************************************************)
EXTENDS DataConverter, TLAPS

\* What a setter of a wrapper is given.
Setting == [case : ValueCases, val : Nat]

-----------------------------------------------------------------------------
\* Maps and values

LEMMA EmptyMap ==
    /\ DOMAIN NoMap = {}
    /\ \A S : IsMap(NoMap, S)
    /\ \A f, S : IsMap(f, S) => (f = NoMap <=> DOMAIN f = {})
<1>1. DOMAIN NoMap = {} /\ NoMap = [k \in {} |-> k]
  BY DEF NoMap
<1>2. ASSUME NEW f, NEW S, IsMap(f, S), DOMAIN f = {} PROVE f = NoMap
  BY <1>1, <1>2 DEF IsMap
<1>3. ASSUME NEW S PROVE IsMap(NoMap, S)
  BY <1>1 DEF IsMap
<1> QED
  BY <1>1, <1>2, <1>3

LEMMA PutMap ==
    ASSUME NEW S, NEW f, IsMap(f, S), NEW k, k \in S, NEW v, NEW g, g = Put(f, k, v)
    PROVE  /\ IsMap(g, S)
           /\ DOMAIN g = DOMAIN f \cup {k} /\ g[k] = v
           /\ \A x \in DOMAIN f : x # k => g[x] = f[x]
BY DEF Put, IsMap

LEMMA EmptyIsValue ==
    /\ EmptyValue \in Value
    /\ Read(EmptyValue) = EmptyCell
    /\ Read(None) = EmptyCell
<1>1. EmptyValue \in Value
  BY DEF EmptyValue, Value, Only
<1>2. EmptyValue # None
  BY <1>1, NoneAssumption
<1> QED
  BY <1>1, <1>2 DEF EmptyValue, Read, Type, GetData, EmptyCell

LEMMA Cases == ValueCases = {"v_string", "v_int", "v_double", "v_bool",
                             "v_bytes", "v_date_time", "v_time", "v_null"}
BY DEF ValueCases, ValueNumber

LEMMA SetDataIs ==
    ASSUME NEW v \in Value, NEW c, NEW x
    PROVE  SetData(v, c, x) = [case |-> c, val |-> x, unknown |-> <<>>]
<1>1. PICK a, b : v = [case |-> a, val |-> b, unknown |-> <<>>]
  BY DEF Value, Only
<1>2. PICK w : w = [v EXCEPT !.case = c]
  OBVIOUS
<1>3. w = [case |-> c, val |-> b, unknown |-> <<>>]
  BY <1>1, <1>2
<1>4. [w EXCEPT !.val = x] = [case |-> c, val |-> x, unknown |-> <<>>]
  BY <1>3
<1> QED
  BY <1>2, <1>4, Zenon DEF SetData

\* A value that is set is read as it was set.
LEMMA SetAndRead ==
    ASSUME NEW v \in Value, NEW x \in Setting
    PROVE  /\ SetData(v, x.case, x.val) \in Value
           /\ Read(SetData(v, x.case, x.val)) = x
<1> DEFINE w == SetData(v, x.case, x.val)
<1>1. w = [case |-> x.case, val |-> x.val, unknown |-> <<>>] /\ x.case # "none"
  BY SetDataIs, Cases DEF Setting
<1>2. w \in Value
  BY <1>1 DEF Value, Only, Setting
<1>3. w # None
  BY <1>2, NoneAssumption
<1> HIDE DEF w
<1>4. Read(w) = [case |-> w.case, val |-> w.val]
  BY <1>3 DEF Read, Type, GetData
<1>5. x = [case |-> x.case, val |-> x.val]
  BY DEF Setting
<1> QED
  BY <1>1, <1>2, <1>4, <1>5 DEF w

-----------------------------------------------------------------------------
\* Packed datasets

\* The cell of a packed dataset as a reader gets it.
PacketCell(d, r, c) ==
    IF /\ r < d.row_count /\ c < d.column_count
       /\ r \in DOMAIN d.rows /\ c \in DOMAIN d.rows[r].data
    THEN Read(d.rows[r].data[c]) ELSE EmptyCell

\* Indices of a packet are numbers and its rows are maps.
LEMMA RowParts ==
    ASSUME NEW d, IsPacket(d), NEW r \in DOMAIN d.rows
    PROVE  /\ r \in Nat
           /\ IsRow(d.rows[r]) /\ IsMap(d.rows[r].data, Columns)
           /\ \A c \in DOMAIN d.rows[r].data : c \in Nat /\ d.rows[r].data[c] \in Value
<1>1. IsRow(d.rows[r]) /\ DOMAIN d.rows \subseteq Rows
  BY DEF IsPacket, IsMap
<1>2. /\ IsMap(d.rows[r].data, Columns)
      /\ \A c \in DOMAIN d.rows[r].data : d.rows[r].data[c] \in Value
  BY <1>1 DEF IsRow
<1>3. Rows \subseteq Nat /\ Columns \subseteq Nat
  BY BoundsAssumption DEF Rows, Columns
<1>4. DOMAIN d.rows[r].data \subseteq Columns
  BY <1>2 DEF IsMap
<1> QED
  BY <1>1, <1>2, <1>3, <1>4

LEMMA EmptyPacketSound ==
    /\ IsPacket(EmptyPacket) /\ PacketSound(EmptyPacket)
    /\ \A r, c : PacketCell(EmptyPacket, r, c) = EmptyCell
BY EmptyMap, BoundsAssumption DEF IsPacket, EmptyPacket, PacketSound, PacketCell

\* Of a sound packet a reader sees every cell that is there.
LEMMA SoundCell ==
    ASSUME NEW d, PacketSound(d), NEW r, NEW c
    PROVE  PacketCell(d, r, c) =
             IF r \in DOMAIN d.rows /\ c \in DOMAIN d.rows[r].data
             THEN Read(d.rows[r].data[c]) ELSE EmptyCell
BY DEF PacketSound, PacketCell

LEMMA Larger ==
    ASSUME NEW a \in Nat, NEW b \in Nat
    PROVE  /\ Max2(a, b) \in {a, b}
           /\ Max2(a, b) >= a /\ Max2(a, b) >= b
BY DEF Max2

LEMMA GrowIs ==
    ASSUME NEW d, IsPacket(d), NEW rows, NEW columns
    PROVE  Grow(d, rows, columns) =
             [column_count |-> Max2(d.column_count, columns),
              row_count |-> Max2(d.row_count, rows), rows |-> d.rows, unknown |-> <<>>]
<1>1. PICK cc, rc, rs : d = [column_count |-> cc, row_count |-> rc, rows |-> rs, unknown |-> <<>>]
  BY DEF IsPacket
<1>2. PICK e : e = [d EXCEPT !.row_count = Max2(@, rows)]
  OBVIOUS
<1>3. e = [column_count |-> cc, row_count |-> Max2(rc, rows), rows |-> rs, unknown |-> <<>>]
  BY <1>1, <1>2
<1>4. [e EXCEPT !.column_count = Max2(@, columns)] =
        [column_count |-> Max2(cc, columns), row_count |-> Max2(rc, rows),
         rows |-> rs, unknown |-> <<>>]
  BY <1>3
<1>5. Grow(d, rows, columns) = [e EXCEPT !.column_count = Max2(@, columns)]
  BY <1>2, Zenon DEF Grow
<1> QED
  BY <1>1, <1>4, <1>5

LEMMA GrowKeeps ==
    ASSUME NEW d, IsPacket(d), PacketSound(d),
           NEW rows \in 0 .. MaxRows, NEW columns \in 0 .. MaxColumns
    PROVE  LET g == Grow(d, rows, columns) IN
           /\ IsPacket(g) /\ PacketSound(g)
           /\ g.rows = d.rows
           /\ g.row_count >= d.row_count /\ g.row_count >= rows
           /\ g.column_count >= d.column_count /\ g.column_count >= columns
           /\ \A r, c : PacketCell(g, r, c) = PacketCell(d, r, c)
<1> DEFINE g == Grow(d, rows, columns)
<1>1. /\ d.row_count \in 0 .. MaxRows /\ d.column_count \in 0 .. MaxColumns
      /\ d.row_count \in Nat /\ d.column_count \in Nat
      /\ rows \in Nat /\ columns \in Nat
  BY BoundsAssumption DEF IsPacket
<1>2. g = [column_count |-> Max2(d.column_count, columns), row_count |-> Max2(d.row_count, rows),
           rows |-> d.rows, unknown |-> <<>>]
  BY GrowIs
<1>3. /\ g.row_count \in {d.row_count, rows} /\ g.column_count \in {d.column_count, columns}
      /\ g.row_count >= d.row_count /\ g.row_count >= rows
      /\ g.column_count >= d.column_count /\ g.column_count >= columns
      /\ g.rows = d.rows
  BY <1>1, <1>2, Larger
<1>4. IsPacket(g)
  BY <1>1, <1>2, <1>3 DEF IsPacket
<1> HIDE DEF g
<1>5. \A r \in DOMAIN d.rows : r \in Nat /\ \A c \in DOMAIN d.rows[r].data : c \in Nat
  BY RowParts
<1>6. PacketSound(g)
  BY <1>1, <1>3, <1>4, <1>5 DEF PacketSound, IsPacket
<1>7. \A r, c : PacketCell(g, r, c) = PacketCell(d, r, c)
  BY <1>3, <1>6, SoundCell
<1> QED
  BY <1>3, <1>4, <1>6, <1>7 DEF g

\* A row with a cell written.
WithCell(r, col, w) == [r EXCEPT !.data = Put(@, col, w)]

LEMMA RowWritten ==
    ASSUME NEW r, IsRow(r), NEW col \in Columns, NEW w \in Value
    PROVE  LET q == WithCell(r, col, w) IN
           /\ IsRow(q)
           /\ DOMAIN q.data = DOMAIN r.data \cup {col} /\ q.data[col] = w
           /\ \A c \in DOMAIN r.data : c # col => q.data[c] = r.data[c]
<1> DEFINE q == WithCell(r, col, w)
<1>1. q = [data |-> Put(r.data, col, w), unknown |-> <<>>]
  <2>1. PICK data : r = [data |-> data, unknown |-> <<>>]
    BY DEF IsRow
  <2> QED
    BY <2>1 DEF WithCell
<1>2. /\ IsMap(r.data, Columns)
      /\ \A c \in DOMAIN r.data : r.data[c] \in Value
  BY DEF IsRow
<1>3. PICK data : data = Put(r.data, col, w)
  OBVIOUS
<1>4. /\ IsMap(data, Columns) /\ DOMAIN data = DOMAIN r.data \cup {col} /\ data[col] = w
      /\ \A c \in DOMAIN r.data : c # col => data[c] = r.data[c]
  BY <1>2, <1>3 DEF Put, IsMap
<1> HIDE DEF q
<1>5. q.data = data /\ q = [data |-> q.data, unknown |-> <<>>]
  BY <1>1, <1>3
<1>6. IsRow(q)
  BY <1>2, <1>4, <1>5 DEF IsRow
<1> QED
  BY <1>4, <1>5, <1>6 DEF q

LEMMA RowsReplaced ==
    ASSUME NEW d, IsPacket(d), NEW rows, IsMap(rows, Rows),
           \A r \in DOMAIN rows : IsRow(rows[r])
    PROVE  LET q == [d EXCEPT !.rows = rows] IN
           /\ IsPacket(q) /\ q.rows = rows
           /\ q.row_count = d.row_count /\ q.column_count = d.column_count
<1>1. PICK cc, rc, rs : d = [column_count |-> cc, row_count |-> rc, rows |-> rs, unknown |-> <<>>]
  BY DEF IsPacket
<1>2. PICK q : q = [d EXCEPT !.rows = rows]
  OBVIOUS
<1>3. q = [column_count |-> cc, row_count |-> rc, rows |-> rows, unknown |-> <<>>]
  BY <1>1, <1>2
<1>4. /\ q.rows = rows /\ q.row_count = rc /\ q.column_count = cc
      /\ q = [column_count |-> q.column_count, row_count |-> q.row_count,
              rows |-> q.rows, unknown |-> <<>>]
  BY <1>3
<1>5. d.row_count = rc /\ d.column_count = cc
  BY <1>1
<1>6. d.column_count \in 0 .. MaxColumns /\ d.row_count \in 0 .. MaxRows
  BY DEF IsPacket
<1>7. IsPacket(q)
  BY <1>4, <1>5, <1>6 DEF IsPacket
<1> QED
  BY <1>2, <1>4, <1>5, <1>7

\* A write into a packed dataset: the counts cover the cell, the cell reads as it
\* was written, no other changes.
LEMMA SetPackedKeeps ==
    ASSUME NEW d, IsPacket(d), PacketSound(d),
           NEW row \in Rows, NEW col \in Columns, NEW x \in Setting
    PROVE  LET q == SetPacked(d, row, col, x) IN
           /\ IsPacket(q) /\ PacketSound(q)
           /\ q.row_count >= d.row_count /\ q.column_count >= d.column_count
           /\ \A r, c : PacketCell(q, r, c) =
                IF r = row /\ c = col THEN x ELSE PacketCell(d, r, c)
<1>1. PICK r : r = IF row \in DOMAIN d.rows THEN d.rows[row] ELSE EmptyRow
  OBVIOUS
<1>2. PICK v : v = IF col \in DOMAIN r.data THEN r.data[col] ELSE EmptyValue
  OBVIOUS
<1>3. PICK w : w = SetData(v, x.case, x.val)
  OBVIOUS
<1>4. PICK r2 : r2 = WithCell(r, col, w)
  OBVIOUS
<1>5. PICK g : g = Grow(d, row + 1, col + 1)
  OBVIOUS
<1>6. PICK rows : rows = Put(g.rows, row, r2)
  OBVIOUS
<1>7. SetPacked(d, row, col, x) = [g EXCEPT !.rows = rows]
  BY <1>1, <1>2, <1>3, <1>4, <1>5, <1>6, Zenon DEF SetPacked, WithCell
<1>8. /\ row \in Nat /\ col \in Nat
      /\ row + 1 \in 0 .. MaxRows /\ col + 1 \in 0 .. MaxColumns
  BY BoundsAssumption DEF Rows, Columns
<1>9. /\ IsPacket(g) /\ PacketSound(g) /\ g.rows = d.rows
      /\ g.row_count >= d.row_count /\ g.row_count >= row + 1
      /\ g.column_count >= d.column_count /\ g.column_count >= col + 1
      /\ \A a, c : PacketCell(g, a, c) = PacketCell(d, a, c)
  BY <1>5, <1>8, GrowKeeps
<1>10. IsRow(EmptyRow) /\ DOMAIN EmptyRow.data = {}
  BY EmptyMap DEF IsRow, EmptyRow
<1>11. IsRow(r) /\ v \in Value
  BY <1>1, <1>2, <1>10, RowParts, EmptyIsValue DEF IsRow
<1>12. w \in Value /\ Read(w) = x
  BY <1>3, <1>11, SetAndRead
<1>14. /\ IsRow(r2)
       /\ DOMAIN r2.data = DOMAIN r.data \cup {col} /\ r2.data[col] = w
       /\ \A c \in DOMAIN r.data : c # col => r2.data[c] = r.data[c]
  <2>1. IsRow(r) /\ w \in Value /\ col \in Columns
    BY <1>11, <1>12
  <2> QED
    BY <1>4, <2>1, RowWritten
<1>15. /\ IsMap(rows, Rows) /\ DOMAIN rows = DOMAIN d.rows \cup {row} /\ rows[row] = r2
       /\ \A a \in DOMAIN d.rows : a # row => rows[a] = d.rows[a]
  <2>1. PICK old : old = d.rows
    OBVIOUS
  <2>2. IsMap(old, Rows) /\ rows = Put(old, row, r2)
    BY <1>6, <1>9, <2>1 DEF IsPacket
  <2>3. /\ IsMap(rows, Rows) /\ DOMAIN rows = DOMAIN old \cup {row} /\ rows[row] = r2
        /\ \A a \in DOMAIN old : a # row => rows[a] = old[a]
    BY <2>2 DEF Put, IsMap
  <2> QED
    BY <2>1, <2>3
<1>16. \A a \in DOMAIN rows : IsRow(rows[a])
  BY <1>14, <1>15, RowParts
<1>17. PICK q : q = [g EXCEPT !.rows = rows]
  OBVIOUS
<1>18. /\ IsPacket(q) /\ q.rows = rows
       /\ q.row_count = g.row_count /\ q.column_count = g.column_count
  BY <1>9, <1>15, <1>16, <1>17, RowsReplaced
<1>19. g.row_count \in Nat /\ g.column_count \in Nat
  BY <1>9, BoundsAssumption DEF IsPacket
<1>20. \A a \in DOMAIN d.rows : /\ a < g.row_count
                                /\ DOMAIN d.rows[a].data # {}
                                /\ \A c \in DOMAIN d.rows[a].data : c < g.column_count
  BY <1>9 DEF PacketSound
<1>21. PacketSound(q)
  <2>1. row < g.row_count /\ col < g.column_count
    BY <1>8, <1>9, <1>19
  <2>2. \A c \in DOMAIN r.data : c < g.column_count
    BY <1>1, <1>10, <1>20
  <2>3. \A c \in DOMAIN r2.data : c < g.column_count
    BY <1>14, <2>1, <2>2
  <2> QED
    BY <1>14, <1>15, <1>18, <1>20, <2>1, <2>3 DEF PacketSound
<1>22. ASSUME NEW a, NEW c
       PROVE  PacketCell(q, a, c) = IF a = row /\ c = col THEN x ELSE PacketCell(d, a, c)
  <2>1. /\ PacketCell(q, a, c) = IF a \in DOMAIN rows /\ c \in DOMAIN rows[a].data
                                 THEN Read(rows[a].data[c]) ELSE EmptyCell
        /\ PacketCell(d, a, c) = IF a \in DOMAIN d.rows /\ c \in DOMAIN d.rows[a].data
                                 THEN Read(d.rows[a].data[c]) ELSE EmptyCell
    BY <1>18, <1>21, SoundCell
  <2>2. CASE a = row
    BY <1>1, <1>10, <1>12, <1>14, <1>15, <2>1, <2>2
  <2>3. CASE a # row
    BY <1>15, <2>1, <2>3
  <2> QED
    BY <2>2, <2>3
<1> QED
  BY <1>7, <1>9, <1>17, <1>18, <1>21, <1>22

\* Clearing a cell of a packed dataset: the cell is empty, no other changes, and
\* what is left is sound.
LEMMA ClearPackedKeeps ==
    ASSUME NEW d, IsPacket(d), PacketSound(d), NEW row \in Rows, NEW col \in Columns
    PROVE  LET q == ClearPacked(d, row, col) IN
           /\ IsPacket(q) /\ PacketSound(q)
           /\ q.row_count = d.row_count /\ q.column_count = d.column_count
           /\ \A r, c : PacketCell(q, r, c) =
                IF r = row /\ c = col THEN EmptyCell ELSE PacketCell(d, r, c)
<1>1. CASE row \notin DOMAIN d.rows
  BY <1>1 DEF ClearPacked, PacketCell
<1>2. CASE row \in DOMAIN d.rows
  <2>1. PICK old, data, left : /\ old = d.rows /\ data = old[row].data
                               /\ left = [c \in DOMAIN data \ {col} |-> data[c]]
    OBVIOUS
  <2>2. /\ IsMap(old, Rows) /\ row \in DOMAIN old
        /\ \A r \in DOMAIN old : IsRow(old[r])
    BY <1>2, <2>1 DEF IsPacket
  <2>3. \A r \in DOMAIN old : /\ r < d.row_count /\ DOMAIN old[r].data # {}
                              /\ \A c \in DOMAIN old[r].data : c < d.column_count
    BY <2>1 DEF PacketSound
  <2>4. /\ IsMap(left, Columns) /\ DOMAIN left = DOMAIN data \ {col}
        /\ \A c \in DOMAIN left : left[c] = data[c] /\ left[c] \in Value
    <3>1. IsMap(data, Columns) /\ \A c \in DOMAIN data : data[c] \in Value
      BY <2>1, <2>2 DEF IsRow
    <3> QED
      BY <2>1, <3>1 DEF IsMap
  <2>5. PICK rows :
          rows = IF left = NoMap THEN [r \in DOMAIN old \ {row} |-> old[r]]
                 ELSE [old EXCEPT ![row] = [@ EXCEPT !.data = left]]
    OBVIOUS
  <2>6. PICK q : q = [d EXCEPT !.rows = rows]
    OBVIOUS
  <2>7. ClearPacked(d, row, col) = q
    <3>1. CASE left = NoMap
      BY <1>2, <2>1, <2>5, <2>6, <3>1 DEF ClearPacked
    <3>2. CASE left # NoMap
      <4>1. ClearPacked(d, row, col) = [d EXCEPT !.rows[row].data = left]
        BY <1>2, <2>1, <3>2 DEF ClearPacked
      <4>2. rows = [d.rows EXCEPT ![row] = [@ EXCEPT !.data = left]]
        BY <2>1, <2>5, <3>2
      <4>3. [d EXCEPT !.rows[row].data = left] = [d EXCEPT !.rows = rows]
        BY <4>2
      <4> QED
        BY <2>6, <4>1, <4>3
    <3> QED
      BY <3>1, <3>2
  <2>8. /\ IsMap(rows, Rows) /\ DOMAIN rows \subseteq DOMAIN old
        /\ \A r \in DOMAIN old : r # row => r \in DOMAIN rows /\ rows[r] = old[r]
        /\ row \in DOMAIN rows <=> DOMAIN left # {}
        /\ row \in DOMAIN rows => IsRow(rows[row]) /\ rows[row].data = left
    <3>1. left = NoMap <=> DOMAIN left = {}
      BY <2>4, EmptyMap
    <3>2. CASE left = NoMap
      BY <2>2, <2>5, <3>1, <3>2 DEF IsMap
    <3>3. CASE left # NoMap
      <4>1. PICK r2 : r2 = [old[row] EXCEPT !.data = left]
        OBVIOUS
      <4>2. PICK was : old[row] = [data |-> was, unknown |-> <<>>]
        BY <2>2 DEF IsRow
      <4>3. r2 = [data |-> left, unknown |-> <<>>]
        BY <4>1, <4>2
      <4>4. IsRow(r2) /\ r2.data = left
        BY <2>4, <4>3 DEF IsRow
      <4>5. rows = [old EXCEPT ![row] = r2]
        BY <2>5, <3>3, <4>1
      <4> QED
        BY <2>2, <3>1, <3>3, <4>4, <4>5 DEF IsMap
    <3> QED
      BY <3>2, <3>3
  <2>9. \A r \in DOMAIN rows : IsRow(rows[r])
    BY <2>2, <2>8
  <2>10. /\ IsPacket(q) /\ q.rows = rows
         /\ q.row_count = d.row_count /\ q.column_count = d.column_count
    BY <2>6, <2>8, <2>9, RowsReplaced
  <2>11. PacketSound(q)
    <3>1. ASSUME NEW r \in DOMAIN rows
          PROVE  /\ r < d.row_count /\ DOMAIN rows[r].data # {}
                 /\ \A c \in DOMAIN rows[r].data : c < d.column_count
      BY <2>1, <2>3, <2>4, <2>8
    <3> QED
      BY <2>10, <3>1 DEF PacketSound
  <2>12. ASSUME NEW r, NEW c
         PROVE  PacketCell(q, r, c) =
                  IF r = row /\ c = col THEN EmptyCell ELSE PacketCell(d, r, c)
    <3>1. /\ PacketCell(q, r, c) = IF r \in DOMAIN rows /\ c \in DOMAIN rows[r].data
                                   THEN Read(rows[r].data[c]) ELSE EmptyCell
          /\ PacketCell(d, r, c) = IF r \in DOMAIN old /\ c \in DOMAIN old[r].data
                                   THEN Read(old[r].data[c]) ELSE EmptyCell
      BY <2>1, <2>10, <2>11, SoundCell
    <3>2. CASE r = row
      BY <2>1, <2>2, <2>4, <2>8, <3>1, <3>2
    <3>3. CASE r # row
      BY <2>8, <3>1, <3>3
    <3> QED
      BY <3>2, <3>3
  <2> QED
    BY <2>7, <2>10, <2>11, <2>12
<1> QED
  BY <1>1, <1>2

-----------------------------------------------------------------------------
\* Flat datasets

\* The cell of a flat dataset as a reader gets it.
FlatCell(d, r, c) ==
    IF r < Len(d.rows) /\ c < d.column_count THEN Read(d.rows[r + 1].data[c + 1]) ELSE EmptyCell

LEMMA NewFlatSound ==
    ASSUME NEW rows \in 0 .. MaxRows, NEW columns \in 0 .. MaxColumns
    PROVE  LET d == NewFlat(rows, columns) IN
           /\ d \in Flat /\ FlatSound(d)
           /\ Len(d.rows) = rows /\ d.column_count = columns
           /\ \A r, c \in Nat : FlatCell(d, r, c) = EmptyCell
<1>1. rows \in Nat /\ columns \in Nat
  BY BoundsAssumption
<1>2. PICK cells : cells = [j \in 1 .. columns |-> EmptyValue]
  OBVIOUS
<1>3. cells \in Seq(Value) /\ Len(cells) = columns
  BY <1>1, <1>2, EmptyIsValue
<1>4. PICK row : row = [EmptyFlatRow EXCEPT !.data = cells]
  OBVIOUS
<1>5. row = [data |-> cells, unknown |-> <<>>]
  BY <1>4 DEF EmptyFlatRow
<1>6. PICK all : all = [i \in 1 .. rows |-> row]
  OBVIOUS
<1>7. all \in Seq(FlatRow) /\ Len(all) = rows
  BY <1>1, <1>3, <1>5, <1>6 DEF FlatRow, Only
<1>8. PICK e : e = [EmptyFlat EXCEPT !.column_count = columns]
  OBVIOUS
<1>9. e = [column_count |-> columns, rows |-> <<>>, unknown |-> <<>>]
  BY <1>8 DEF EmptyFlat
<1>10. [e EXCEPT !.rows = all] = [column_count |-> columns, rows |-> all, unknown |-> <<>>]
  BY <1>9
<1>11. NewFlat(rows, columns) = [e EXCEPT !.rows = all]
  BY <1>2, <1>4, <1>6, <1>8, Zenon DEF NewFlat
<1>12. PICK d : d = NewFlat(rows, columns)
  OBVIOUS
<1>13. d = [column_count |-> columns, rows |-> all, unknown |-> <<>>]
  BY <1>10, <1>11, <1>12
<1>14. d \in Flat
  BY <1>7, <1>13 DEF Flat, Only
<1>15. FlatSound(d)
  BY <1>1, <1>3, <1>5, <1>6, <1>13 DEF FlatSound
<1>16. ASSUME NEW r \in Nat, NEW c \in Nat PROVE FlatCell(d, r, c) = EmptyCell
  <2>1. d.rows = all /\ d.column_count = columns
    BY <1>13
  <2>2. CASE r < rows /\ c < columns
    <3>1. all[r + 1].data[c + 1] = EmptyValue
      BY <1>1, <1>2, <1>5, <1>6, <2>2
    <3> QED
      BY <1>7, <2>1, <3>1, EmptyIsValue DEF FlatCell
  <2>3. CASE ~(r < rows /\ c < columns)
    BY <1>7, <2>1, <2>3 DEF FlatCell
  <2> QED
    BY <2>2, <2>3
<1>17. Len(d.rows) = rows /\ d.column_count = columns
  BY <1>7, <1>13
<1> QED
  BY <1>12, <1>14, <1>15, <1>16, <1>17

\* A write into a flat dataset, within its size.
LEMMA SetFlatKeeps ==
    ASSUME NEW d \in Flat, FlatSound(d), NEW x \in Setting,
           NEW row \in Nat, row < Len(d.rows), NEW col \in Nat, col < d.column_count
    PROVE  LET q == SetFlat(d, row, col, x) IN
           /\ q \in Flat /\ FlatSound(q)
           /\ Len(q.rows) = Len(d.rows) /\ q.column_count = d.column_count
           /\ \A r, c \in Nat : FlatCell(q, r, c) =
                IF r = row /\ c = col THEN x ELSE FlatCell(d, r, c)
<1>1. PICK old, cc : d = [column_count |-> cc, rows |-> old, unknown |-> <<>>]
  BY DEF Flat, Only
<1>2. d.rows = old /\ d.column_count = cc
  BY <1>1
<1>3. /\ cc \in 0 .. MaxColumns /\ cc \in Nat /\ old \in Seq(FlatRow) /\ Len(old) \in Nat
      /\ row < Len(old) /\ col < cc
  BY <1>2, BoundsAssumption DEF Flat
<1>4. \A i \in 1 .. Len(old) : Len(old[i].data) = cc
  BY <1>2, <1>3 DEF FlatSound
<1>5. PICK i, j : i = row + 1 /\ j = col + 1
  OBVIOUS
<1>6. i \in 1 .. Len(old) /\ j \in 1 .. cc
  BY <1>3, <1>5
<1>7. PICK cells : old[i] = [data |-> cells, unknown |-> <<>>]
  <2>1. old[i] \in FlatRow
    BY <1>3, <1>6
  <2> QED
    BY <2>1 DEF FlatRow, Only
<1>8. cells \in Seq(Value) /\ Len(cells) = cc
  BY <1>3, <1>4, <1>6, <1>7 DEF FlatRow
<1>9. PICK w : w = SetData(cells[j], x.case, x.val)
  OBVIOUS
<1>10. w \in Value /\ Read(w) = x
  BY <1>6, <1>8, <1>9, SetAndRead
<1>11. PICK new : new = [cells EXCEPT ![j] = w]
  OBVIOUS
<1>12. /\ new \in Seq(Value) /\ Len(new) = cc /\ new[j] = w
       /\ \A k \in 1 .. cc : k # j => new[k] = cells[k]
  BY <1>6, <1>8, <1>10, <1>11
<1>13. PICK row2 : row2 = [old[i] EXCEPT !.data = new]
  OBVIOUS
<1>14. row2 = [data |-> new, unknown |-> <<>>] /\ row2 \in FlatRow
  BY <1>7, <1>12, <1>13 DEF FlatRow, Only
<1>15. PICK rows : rows = [old EXCEPT ![i] = row2]
  OBVIOUS
<1>16. /\ rows \in Seq(FlatRow) /\ Len(rows) = Len(old) /\ rows[i] = row2
       /\ \A k \in 1 .. Len(old) : k # i => rows[k] = old[k]
  BY <1>3, <1>6, <1>14, <1>15
<1>17. PICK q : q = [d EXCEPT !.rows = rows]
  OBVIOUS
<1>18. SetFlat(d, row, col, x) = q
  <2>1. row2 = [old[i] EXCEPT !.data[j] = SetData(@, x.case, x.val)]
    BY <1>7, <1>9, <1>11, <1>13
  <2>2. rows = [d.rows EXCEPT ![i].data[j] = SetData(@, x.case, x.val)]
    BY <1>2, <1>15, <2>1
  <2>3. q = [d EXCEPT !.rows[i].data[j] = SetData(@, x.case, x.val)]
    BY <1>17, <2>2
  <2> QED
    BY <1>5, <2>3 DEF SetFlat
<1>19. q = [column_count |-> cc, rows |-> rows, unknown |-> <<>>]
  BY <1>1, <1>17
<1>20. q \in Flat /\ q.rows = rows /\ q.column_count = cc
  BY <1>3, <1>16, <1>19 DEF Flat, Only
<1>21. FlatSound(q)
  <2>1. \A k \in 1 .. Len(old) : Len(rows[k].data) = cc
    BY <1>4, <1>12, <1>14, <1>16
  <2> QED
    BY <1>16, <1>20, <2>1 DEF FlatSound
<1>22. ASSUME NEW r \in Nat, NEW c \in Nat
       PROVE  FlatCell(q, r, c) = IF r = row /\ c = col THEN x ELSE FlatCell(d, r, c)
  <2>1. CASE r < Len(old) /\ c < cc
    <3>1. r + 1 \in 1 .. Len(old) /\ c + 1 \in 1 .. cc
      BY <1>3, <2>1
    <3>2. /\ FlatCell(q, r, c) = Read(rows[r + 1].data[c + 1])
          /\ FlatCell(d, r, c) = Read(old[r + 1].data[c + 1])
      BY <1>2, <1>16, <1>20, <2>1 DEF FlatCell
    <3>3. CASE r = row
      <4>1. r + 1 = i
        BY <1>5, <3>3
      <4>2. rows[r + 1].data = new /\ old[r + 1].data = cells
        BY <1>7, <1>14, <1>16, <4>1
      <4>3. c = col <=> c + 1 = j
        BY <1>5
      <4> QED
        BY <1>10, <1>12, <3>1, <3>2, <3>3, <4>2, <4>3
    <3>4. CASE r # row
      <4>1. r + 1 # i
        BY <1>5, <3>4
      <4> QED
        BY <1>16, <3>1, <3>2, <3>4, <4>1
    <3> QED
      BY <3>3, <3>4
  <2>2. CASE ~(r < Len(old) /\ c < cc)
    BY <1>2, <1>3, <1>16, <1>20, <2>2 DEF FlatCell
  <2> QED
    BY <2>1, <2>2
<1> QED
  BY <1>2, <1>16, <1>18, <1>20, <1>21, <1>22

-----------------------------------------------------------------------------
\* Containers

\* What TypeOK and ShapeKept say of a container.
Good(m) == IsContainer(m) /\ Sound(m)

\* A dataset that a container can have.
Fits(d) == IsDataset(d) /\ PacketSound(d.packet) /\ FlatSound(d.flat)

LEMMA GoodFits ==
    ASSUME NEW m, Good(m), NEW id \in DOMAIN m.datasets
    PROVE  Fits(m.datasets[id]) /\ id \in DatasetIds
<1>1. IsDataset(m.datasets[id]) /\ DOMAIN m.datasets \subseteq DatasetIds
  BY DEF Good, IsContainer, IsMap
<1> QED
  BY <1>1 DEF Good, Fits, Sound

WithDataset(m, id, d) == [m EXCEPT !.datasets = Put(@, id, d)]

\* Of two containers the second has the same datasets, but for the one of id.
OnlyDataset(m, n, id) ==
    /\ n.fields = m.fields /\ n.packet_data = m.packet_data
    /\ DOMAIN n.datasets = DOMAIN m.datasets \cup {id}
    /\ \A k \in DOMAIN m.datasets : k # id => n.datasets[k] = m.datasets[k]

LEMMA DatasetPut ==
    ASSUME NEW m, Good(m), NEW id \in DatasetIds, NEW d, Fits(d)
    PROVE  LET n == WithDataset(m, id, d) IN
           Good(n) /\ OnlyDataset(m, n, id) /\ n.datasets[id] = d
<1>1. PICK sv, fs, ds, pd :
        m = [structure_version |-> sv, fields |-> fs, datasets |-> ds,
             packet_data |-> pd, unknown |-> <<>>]
  BY DEF Good, IsContainer
<1>2. m.structure_version = sv /\ m.fields = fs /\ m.datasets = ds /\ m.packet_data = pd
  BY <1>1
<1>3. /\ sv \in Nat /\ pd \in {0, 1} /\ IsMap(fs, FieldIds) /\ IsMap(ds, DatasetIds)
      /\ \A k \in DOMAIN fs : fs[k] \in Value
  BY <1>2 DEF Good, IsContainer
<1>4. \A k \in DOMAIN ds : Fits(ds[k])
  BY <1>2, GoodFits
<1>5. PICK new : new = Put(ds, id, d)
  OBVIOUS
<1>6. /\ IsMap(new, DatasetIds) /\ DOMAIN new = DOMAIN ds \cup {id} /\ new[id] = d
      /\ \A k \in DOMAIN ds : k # id => new[k] = ds[k]
  BY <1>3, <1>5 DEF Put, IsMap
<1>7. PICK n : n = WithDataset(m, id, d)
  OBVIOUS
<1>8. n = [structure_version |-> sv, fields |-> fs, datasets |-> new,
           packet_data |-> pd, unknown |-> <<>>]
  BY <1>1, <1>5, <1>7 DEF WithDataset
<1>9. /\ n.structure_version = sv /\ n.fields = fs /\ n.datasets = new /\ n.packet_data = pd
      /\ n = [structure_version |-> n.structure_version, fields |-> n.fields,
              datasets |-> n.datasets, packet_data |-> n.packet_data, unknown |-> <<>>]
  BY <1>8
<1>10. \A k \in DOMAIN new : Fits(new[k])
  BY <1>4, <1>6
<1>11. IsContainer(n)
  <2>1. \A k \in DOMAIN new : IsDataset(new[k])
    BY <1>10 DEF Fits
  <2> QED
    BY <1>3, <1>6, <1>9, <2>1 DEF IsContainer
<1>12. Sound(n)
  BY <1>9, <1>10 DEF Sound, Fits
<1>13. OnlyDataset(m, n, id)
  BY <1>2, <1>6, <1>9 DEF OnlyDataset
<1> QED
  BY <1>6, <1>7, <1>9, <1>11, <1>12, <1>13 DEF Good

LEMMA NewDatasets ==
    /\ SetAllocatedPacket(EmptyDataset, EmptyPacket) =
         [case |-> "packet", packet |-> EmptyPacket, flat |-> EmptyFlat, unknown |-> <<>>]
    /\ \A d : SetAllocatedFlat(EmptyDataset, d) =
         [case |-> "flat", packet |-> EmptyPacket, flat |-> d, unknown |-> <<>>]
<1>1. PICK p, f : p = EmptyPacket /\ f = EmptyFlat
  OBVIOUS
<1>2. PICK a : a = [EmptyDataset EXCEPT !.case = "none"]
  OBVIOUS
<1>3. a = [case |-> "none", packet |-> p, flat |-> f, unknown |-> <<>>]
  BY <1>1, <1>2 DEF EmptyDataset
<1>4. [a EXCEPT !.packet = p] = a
  BY <1>3
<1>5. [a EXCEPT !.flat = f] = a
  BY <1>3
<1>6. DatasetClearData(EmptyDataset) = a
  BY <1>1, <1>2, <1>4, <1>5, Zenon DEF DatasetClearData
<1>7. PICK e : e = [a EXCEPT !.case = "packet"]
  OBVIOUS
<1>8. e = [case |-> "packet", packet |-> p, flat |-> f, unknown |-> <<>>]
  BY <1>3, <1>7
<1>9. [e EXCEPT !.packet = p] = e
  BY <1>8
<1>10. SetAllocatedPacket(EmptyDataset, EmptyPacket) = e
  BY <1>1, <1>6, <1>7, <1>9, Zenon DEF SetAllocatedPacket
<1>11. ASSUME NEW d
       PROVE  SetAllocatedFlat(EmptyDataset, d) =
                [case |-> "flat", packet |-> EmptyPacket, flat |-> d, unknown |-> <<>>]
  <2>1. PICK g : g = [a EXCEPT !.case = "flat"]
    OBVIOUS
  <2>2. g = [case |-> "flat", packet |-> p, flat |-> f, unknown |-> <<>>]
    BY <1>3, <2>1
  <2>3. [g EXCEPT !.flat = d] = [case |-> "flat", packet |-> p, flat |-> d, unknown |-> <<>>]
    BY <2>2
  <2> QED
    BY <1>1, <1>6, <2>1, <2>3, Zenon DEF SetAllocatedFlat
<1> QED
  BY <1>1, <1>8, <1>10, <1>11

\* mutable_packet and mutable_flat of a dataset of the other kind.
LEMMA ChangedDatasets ==
    ASSUME NEW d, d = [case |-> d.case, packet |-> d.packet, flat |-> d.flat, unknown |-> <<>>]
    PROVE  /\ SetAllocatedPacket(d, EmptyPacket) =
                [case |-> "packet", packet |-> EmptyPacket, flat |-> EmptyFlat, unknown |-> <<>>]
           /\ SetAllocatedFlat(d, EmptyFlat) =
                [case |-> "flat", packet |-> EmptyPacket, flat |-> EmptyFlat, unknown |-> <<>>]
<1>1. PICK p, f : p = EmptyPacket /\ f = EmptyFlat
  OBVIOUS
<1>2. PICK c, q, g : d = [case |-> c, packet |-> q, flat |-> g, unknown |-> <<>>]
  OBVIOUS
<1>3. PICK a : a = [case |-> "none", packet |-> p, flat |-> f, unknown |-> <<>>]
  OBVIOUS
<1>4. PICK d1 : d1 = [d EXCEPT !.case = "none"]
  OBVIOUS
<1>5. d1 = [case |-> "none", packet |-> q, flat |-> g, unknown |-> <<>>]
  BY <1>2, <1>4
<1>6. PICK d2 : d2 = [d1 EXCEPT !.packet = p]
  OBVIOUS
<1>7. d2 = [case |-> "none", packet |-> p, flat |-> g, unknown |-> <<>>]
  BY <1>5, <1>6
<1>8. [d2 EXCEPT !.flat = f] = a
  BY <1>3, <1>7
<1>9. DatasetClearData(d) = a
  BY <1>1, <1>4, <1>6, <1>8, Zenon DEF DatasetClearData
<1>10. PICK e, h : e = [a EXCEPT !.case = "packet"] /\ h = [a EXCEPT !.case = "flat"]
  OBVIOUS
<1>11. /\ e = [case |-> "packet", packet |-> p, flat |-> f, unknown |-> <<>>]
       /\ h = [case |-> "flat", packet |-> p, flat |-> f, unknown |-> <<>>]
  BY <1>3, <1>10
<1>12. [e EXCEPT !.packet = p] = e
  BY <1>11
<1>13. [h EXCEPT !.flat = f] = h
  BY <1>11
<1>14. SetAllocatedPacket(d, EmptyPacket) = e
  BY <1>1, <1>9, <1>10, <1>12, Zenon DEF SetAllocatedPacket
<1>15. SetAllocatedFlat(d, EmptyFlat) = h
  BY <1>1, <1>9, <1>10, <1>13, Zenon DEF SetAllocatedFlat
<1> QED
  BY <1>1, <1>11, <1>14, <1>15

\* A dataset with nothing in its packet and a flat member that may hold something,
\* and the other way round.
LEMMA DatasetOf ==
    /\ \A f \in Flat : FlatSound(f) =>
         Fits([case |-> "flat", packet |-> EmptyPacket, flat |-> f, unknown |-> <<>>])
    /\ Fits([case |-> "packet", packet |-> EmptyPacket, flat |-> EmptyFlat, unknown |-> <<>>])
    /\ EmptyFlat \in Flat /\ FlatSound(EmptyFlat)
    /\ \A r, c \in Nat : FlatCell(EmptyFlat, r, c) = EmptyCell
<1>1. /\ EmptyFlat \in Flat /\ FlatSound(EmptyFlat)
      /\ \A r, c \in Nat : FlatCell(EmptyFlat, r, c) = EmptyCell
  <2>1. PICK f : f = EmptyFlat /\ f = [column_count |-> 0, rows |-> <<>>, unknown |-> <<>>]
    BY DEF EmptyFlat
  <2>2. f.rows = <<>> /\ f.column_count = 0
    BY <2>1
  <2>3. f \in Flat
    BY <2>1, BoundsAssumption DEF Flat, Only
  <2> QED
    BY <2>1, <2>2, <2>3 DEF FlatSound, FlatCell
<1>2. ASSUME NEW f \in Flat, FlatSound(f)
      PROVE  Fits([case |-> "flat", packet |-> EmptyPacket, flat |-> f, unknown |-> <<>>])
  <2>1. PICK d : d = [case |-> "flat", packet |-> EmptyPacket, flat |-> f, unknown |-> <<>>]
    OBVIOUS
  <2>2. d.case = "flat" /\ d.packet = EmptyPacket /\ d.flat = f
    BY <2>1
  <2> QED
    BY <1>2, <2>1, <2>2, EmptyPacketSound DEF Fits, IsDataset
<1>3. Fits([case |-> "packet", packet |-> EmptyPacket, flat |-> EmptyFlat, unknown |-> <<>>])
  <2>1. PICK d : d = [case |-> "packet", packet |-> EmptyPacket, flat |-> EmptyFlat, unknown |-> <<>>]
    OBVIOUS
  <2>2. d.case = "packet" /\ d.packet = EmptyPacket /\ d.flat = EmptyFlat
    BY <2>1
  <2> QED
    BY <1>1, <2>1, <2>2, EmptyPacketSound DEF Fits, IsDataset
<1> QED
  BY <1>1, <1>2, <1>3

\* The dataset that datasetWriterHelper makes when there is none.
Fresh(m, rows, columns) ==
    IF Packed(m) THEN SetAllocatedPacket(EmptyDataset, EmptyPacket)
    ELSE SetAllocatedFlat(EmptyDataset, NewFlat(rows, columns))

LEMMA FreshFits ==
    ASSUME NEW m, NEW rows \in 0 .. MaxRows, NEW columns \in 0 .. MaxColumns
    PROVE  LET d == Fresh(m, rows, columns) IN
           /\ Fits(d) /\ d.case = Kind(m)
           /\ Packed(m) => d.packet = EmptyPacket
           /\ ~Packed(m) => d.flat = NewFlat(rows, columns)
<1>1. PICK f : f = NewFlat(rows, columns) /\ f \in Flat /\ FlatSound(f)
  BY NewFlatSound
<1>2. CASE Packed(m)
  <2>1. PICK d : d = [case |-> "packet", packet |-> EmptyPacket, flat |-> EmptyFlat, unknown |-> <<>>]
    OBVIOUS
  <2>2. d.case = "packet" /\ d.packet = EmptyPacket
    BY <2>1
  <2>3. Fresh(m, rows, columns) = d
    BY <1>2, <2>1, NewDatasets DEF Fresh
  <2> QED
    BY <1>2, <2>1, <2>2, <2>3, DatasetOf DEF Kind
<1>3. CASE ~Packed(m)
  <2>1. PICK d : d = [case |-> "flat", packet |-> EmptyPacket, flat |-> f, unknown |-> <<>>]
    OBVIOUS
  <2>2. d.case = "flat" /\ d.flat = f
    BY <2>1
  <2>3. Fresh(m, rows, columns) = d
    BY <1>1, <1>3, <2>1, NewDatasets DEF Fresh
  <2> QED
    BY <1>1, <1>3, <2>1, <2>2, <2>3, DatasetOf DEF Kind
<1> QED
  BY <1>2, <1>3

\* The empty dataset of the kind of container m, in place of one of the other kind.
Emptied(m) ==
    IF Packed(m) THEN [case |-> "packet", packet |-> EmptyPacket, flat |-> EmptyFlat, unknown |-> <<>>]
    ELSE [case |-> "flat", packet |-> EmptyPacket, flat |-> EmptyFlat, unknown |-> <<>>]

LEMMA EmptiedFits ==
    ASSUME NEW m
    PROVE  LET d == Emptied(m) IN
           /\ Fits(d) /\ d.case = Kind(m) /\ d.packet = EmptyPacket /\ d.flat = EmptyFlat
<1>1. CASE Packed(m)
  <2>1. PICK d : d = [case |-> "packet", packet |-> EmptyPacket, flat |-> EmptyFlat, unknown |-> <<>>]
    OBVIOUS
  <2>2. d.case = "packet" /\ d.packet = EmptyPacket /\ d.flat = EmptyFlat
    BY <2>1
  <2> QED
    BY <1>1, <2>1, <2>2, DatasetOf DEF Emptied, Kind
<1>2. CASE ~Packed(m)
  <2>1. PICK d : d = [case |-> "flat", packet |-> EmptyPacket, flat |-> EmptyFlat, unknown |-> <<>>]
    OBVIOUS
  <2>2. d.case = "flat" /\ d.packet = EmptyPacket /\ d.flat = EmptyFlat
    BY <2>1
  <2> QED
    BY <1>2, <2>1, <2>2, DatasetOf DEF Emptied, Kind
<1> QED
  BY <1>1, <1>2

\* A wrapper made anew: the dataset that was there is used as it is, one of the
\* other kind is emptied, a missing one is made, empty.
LEMMA OpenKeeps ==
    ASSUME NEW m, Good(m), NEW id \in DatasetIds,
           NEW rows \in 0 .. MaxRows, NEW columns \in 0 .. MaxColumns
    PROVE  LET o == OpenDataset(m, id, rows, columns) IN
           /\ Good(o) /\ OnlyDataset(m, o, id) /\ o.datasets[id].case = Kind(m)
           /\ o.datasets[id] = IF ~HasDataset(m, id) THEN Fresh(m, rows, columns)
                              ELSE IF Hidden(m, id) THEN Emptied(m) ELSE m.datasets[id]
<1>1. PICK d : d = IF HasDataset(m, id) THEN m.datasets[id] ELSE Fresh(m, rows, columns)
  OBVIOUS
<1>2. PICK e : e = IF Packed(m) THEN MutablePacket(d) ELSE MutableFlat(d)
  OBVIOUS
<1>3. OpenDataset(m, id, rows, columns) = WithDataset(m, id, e)
  BY <1>1, <1>2, Zenon DEF OpenDataset, WithDataset, Fresh
<1>4. Fits(d) /\ (~HasDataset(m, id) => d.case = Kind(m))
  BY <1>1, GoodFits, FreshFits DEF HasDataset
<1>5. CASE d.case = Kind(m)
  <2>1. e = d
    BY <1>2, <1>5 DEF Kind, MutablePacket, MutableFlat
  <2>2. HasDataset(m, id) => ~Hidden(m, id)
    BY <1>1, <1>5 DEF Hidden
  <2> QED
    BY <1>1, <1>3, <1>4, <1>5, <2>1, <2>2, DatasetPut
<1>6. CASE d.case # Kind(m)
  <2>1. HasDataset(m, id) /\ Hidden(m, id)
    BY <1>1, <1>4, <1>6 DEF Hidden
  <2>2. d = [case |-> d.case, packet |-> d.packet, flat |-> d.flat, unknown |-> <<>>]
    BY <1>4 DEF Fits, IsDataset
  <2>3. e = Emptied(m)
    <3>1. CASE Packed(m)
      <4>1. e = SetAllocatedPacket(d, EmptyPacket)
        BY <1>2, <1>6, <3>1 DEF MutablePacket, Kind
      <4> QED
        BY <2>2, <3>1, <4>1, ChangedDatasets DEF Emptied
    <3>2. CASE ~Packed(m)
      <4>1. e = SetAllocatedFlat(d, EmptyFlat)
        BY <1>2, <1>6, <3>2 DEF MutableFlat, Kind
      <4> QED
        BY <2>2, <3>2, <4>1, ChangedDatasets DEF Emptied
    <3> QED
      BY <3>1, <3>2
  <2>4. Fits(e) /\ e.case = Kind(m)
    BY <2>3, EmptiedFits
  <2> QED
    BY <1>3, <2>1, <2>3, <2>4, DatasetPut
<1> QED
  BY <1>5, <1>6

\* A container with other fields.
LEMMA FieldsReplaced ==
    ASSUME NEW m, Good(m), NEW fs, IsMap(fs, FieldIds), \A k \in DOMAIN fs : fs[k] \in Value
    PROVE  LET n == [m EXCEPT !.fields = fs] IN
           /\ Good(n) /\ n.fields = fs
           /\ n.datasets = m.datasets /\ n.packet_data = m.packet_data
<1>1. PICK sv, old, ds, pd :
        m = [structure_version |-> sv, fields |-> old, datasets |-> ds,
             packet_data |-> pd, unknown |-> <<>>]
  BY DEF Good, IsContainer
<1>2. m.structure_version = sv /\ m.datasets = ds /\ m.packet_data = pd
  BY <1>1
<1>3. PICK n : n = [m EXCEPT !.fields = fs]
  OBVIOUS
<1>4. n = [structure_version |-> sv, fields |-> fs, datasets |-> ds,
           packet_data |-> pd, unknown |-> <<>>]
  BY <1>1, <1>3
<1>5. /\ n.structure_version = sv /\ n.fields = fs /\ n.datasets = ds /\ n.packet_data = pd
      /\ n = [structure_version |-> n.structure_version, fields |-> n.fields,
              datasets |-> n.datasets, packet_data |-> n.packet_data, unknown |-> <<>>]
  BY <1>4
<1>6. IsContainer(n)
  BY <1>2, <1>5 DEF Good, IsContainer
<1>7. Sound(n)
  BY <1>2, <1>5 DEF Good, Sound
<1> QED
  BY <1>2, <1>3, <1>5, <1>6, <1>7 DEF Good

\* A dataset of the container replaced by d.
LEMMA DatasetReplaced ==
    ASSUME NEW m, Good(m), NEW id \in DOMAIN m.datasets, NEW d, Fits(d)
    PROVE  LET n == [m EXCEPT !.datasets[id] = d] IN
           Good(n) /\ OnlyDataset(m, n, id) /\ n.datasets[id] = d
<1>1. PICK ds : ds = m.datasets
  OBVIOUS
<1>2. IsMap(ds, DatasetIds) /\ id \in DOMAIN ds /\ id \in DatasetIds
  BY <1>1 DEF Good, IsContainer, IsMap
<1>3. Put(ds, id, d) = [ds EXCEPT ![id] = d]
  BY <1>2 DEF Put, IsMap
<1>4. PICK sv, fs, dd, pd :
        m = [structure_version |-> sv, fields |-> fs, datasets |-> dd,
             packet_data |-> pd, unknown |-> <<>>]
  BY DEF Good, IsContainer
<1>5. [m EXCEPT !.datasets[id] = d] = WithDataset(m, id, d)
  BY <1>1, <1>3, <1>4 DEF WithDataset
<1> QED
  BY <1>2, <1>5, DatasetPut

LEMMA PacketReplaced ==
    ASSUME NEW m, Good(m), NEW id \in DOMAIN m.datasets, m.datasets[id].case = "packet",
           NEW q, IsPacket(q), PacketSound(q)
    PROVE  LET n == [m EXCEPT !.datasets[id].packet = q] IN
           /\ Good(n) /\ OnlyDataset(m, n, id)
           /\ n.datasets[id].packet = q /\ n.datasets[id].case = "packet"
<1>1. PICK d : d = m.datasets[id]
  OBVIOUS
<1>2. Fits(d)
  BY <1>1, GoodFits
<1>3. PICK cs, old, fl : d = [case |-> cs, packet |-> old, flat |-> fl, unknown |-> <<>>]
  BY <1>2 DEF Fits, IsDataset
<1>4. PICK e : e = [d EXCEPT !.packet = q]
  OBVIOUS
<1>5. e = [case |-> cs, packet |-> q, flat |-> fl, unknown |-> <<>>]
  BY <1>3, <1>4
<1>6. e.case = d.case /\ e.packet = q /\ e.flat = d.flat
  BY <1>3, <1>5
<1>7. IsDataset(e)
  BY <1>1, <1>2, <1>5, <1>6 DEF Fits, IsDataset
<1>8. Fits(e)
  BY <1>2, <1>6, <1>7 DEF Fits
<1>9. [m EXCEPT !.datasets[id].packet = q] = [m EXCEPT !.datasets[id] = e]
  BY <1>1, <1>4
<1> QED
  BY <1>6, <1>8, <1>9, DatasetReplaced

LEMMA FlatReplaced ==
    ASSUME NEW m, Good(m), NEW id \in DOMAIN m.datasets, m.datasets[id].case = "flat",
           NEW q \in Flat, FlatSound(q)
    PROVE  LET n == [m EXCEPT !.datasets[id].flat = q] IN
           /\ Good(n) /\ OnlyDataset(m, n, id)
           /\ n.datasets[id].flat = q /\ n.datasets[id].case = "flat"
<1>1. PICK d : d = m.datasets[id]
  OBVIOUS
<1>2. Fits(d)
  BY <1>1, GoodFits
<1>3. PICK cs, pk, old : d = [case |-> cs, packet |-> pk, flat |-> old, unknown |-> <<>>]
  BY <1>2 DEF Fits, IsDataset
<1>4. PICK e : e = [d EXCEPT !.flat = q]
  OBVIOUS
<1>5. e = [case |-> cs, packet |-> pk, flat |-> q, unknown |-> <<>>]
  BY <1>3, <1>4
<1>6. e.case = d.case /\ e.packet = d.packet /\ e.flat = q
  BY <1>3, <1>5
<1>7. IsDataset(e)
  BY <1>1, <1>2, <1>5, <1>6 DEF Fits, IsDataset
<1>8. Fits(e)
  BY <1>2, <1>6, <1>7 DEF Fits
<1>9. [m EXCEPT !.datasets[id].flat = q] = [m EXCEPT !.datasets[id] = e]
  BY <1>1, <1>4
<1> QED
  BY <1>6, <1>8, <1>9, DatasetReplaced

-----------------------------------------------------------------------------
\* Cells as a reader gets them

\* A cell of a dataset, which may not be there.
View(m, id, r, c) ==
    IF ~HasDataset(m, id) THEN EmptyCell
    ELSE IF Packed(m) THEN PacketCell(m.datasets[id].packet, r, c)
    ELSE FlatCell(m.datasets[id].flat, r, c)

\* The getters of a reader agree with it: no cell that is there is None.
LEMMA ReadIsView ==
    ASSUME NEW m, Good(m), NEW id, NEW r \in Nat, NEW c \in Nat
    PROVE  (IF HasDataset(m, id) THEN ReadCell(m, id, r, c) ELSE EmptyCell) = View(m, id, r, c)
<1>1. CASE ~HasDataset(m, id)
  BY <1>1 DEF View
<1>2. CASE HasDataset(m, id) /\ Packed(m)
  <2>1. PICK d : d = m.datasets[id].packet
    OBVIOUS
  <2>2. IsPacket(d) /\ PacketSound(d)
    BY <1>2, <2>1, GoodFits DEF HasDataset, Fits, IsDataset
  <2>3. RowCount(m, id) = d.row_count /\ ColumnCount(m, id) = d.column_count
    BY <1>2, <2>1 DEF RowCount, ColumnCount
  <2>4. d.row_count \in Nat /\ d.column_count \in Nat
    BY <2>2, BoundsAssumption DEF IsPacket
  <2>5. View(m, id, r, c) = PacketCell(d, r, c)
    BY <1>2, <2>1 DEF View
  <2>6. CASE r < d.row_count /\ c < d.column_count /\ r \in DOMAIN d.rows /\ c \in DOMAIN d.rows[r].data
    <3>1. RawValue(m, id, r, c) = d.rows[r].data[c]
      BY <1>2, <2>1, <2>3, <2>4, <2>6 DEF RawValue
    <3>2. d.rows[r].data[c] # None
      BY <2>2, <2>6, RowParts, NoneAssumption
    <3>3. ReadCell(m, id, r, c) = Read(d.rows[r].data[c])
      BY <3>1, <3>2 DEF ReadCell, HasValue
    <3>4. PacketCell(d, r, c) = Read(d.rows[r].data[c])
      BY <2>6 DEF PacketCell
    <3> QED
      BY <1>2, <2>5, <3>3, <3>4
  <2>7. CASE ~(r < d.row_count /\ c < d.column_count /\ r \in DOMAIN d.rows /\ c \in DOMAIN d.rows[r].data)
    <3>1. RawValue(m, id, r, c) = None
      BY <1>2, <2>1, <2>3, <2>4, <2>7 DEF RawValue
    <3>2. ReadCell(m, id, r, c) = EmptyCell
      BY <3>1, EmptyIsValue DEF ReadCell, HasValue
    <3>3. PacketCell(d, r, c) = EmptyCell
      BY <2>7 DEF PacketCell
    <3> QED
      BY <1>2, <2>5, <3>2, <3>3
  <2> QED
    BY <2>6, <2>7
<1>3. CASE HasDataset(m, id) /\ ~Packed(m)
  <2>1. PICK d : d = m.datasets[id].flat
    OBVIOUS
  <2>2. d \in Flat /\ FlatSound(d)
    BY <1>3, <2>1, GoodFits DEF HasDataset, Fits, IsDataset
  <2>3. RowCount(m, id) = Len(d.rows) /\ ColumnCount(m, id) = d.column_count
    BY <1>3, <2>1 DEF RowCount, ColumnCount
  <2>4. d.rows \in Seq(FlatRow) /\ Len(d.rows) \in Nat /\ d.column_count \in Nat
    BY <2>2, BoundsAssumption DEF Flat
  <2>5. View(m, id, r, c) = FlatCell(d, r, c)
    BY <1>3, <2>1 DEF View
  <2>6. CASE r < Len(d.rows) /\ c < d.column_count
    <3>1. RawValue(m, id, r, c) = d.rows[r + 1].data[c + 1]
      <4>1. ~(r >= RowCount(m, id) \/ c >= ColumnCount(m, id))
        BY <2>3, <2>4, <2>6
      <4> QED
        BY <1>3, <2>1, <4>1, Zenon DEF RawValue
    <3>2. d.rows[r + 1] \in FlatRow /\ Len(d.rows[r + 1].data) = d.column_count
      <4>1. r + 1 \in 1 .. Len(d.rows)
        BY <2>4, <2>6
      <4> QED
        BY <2>2, <2>4, <4>1 DEF FlatSound
    <3>3. d.rows[r + 1].data[c + 1] \in Value
      BY <2>4, <2>6, <3>2 DEF FlatRow
    <3>4. d.rows[r + 1].data[c + 1] # None
      BY <3>3, NoneAssumption
    <3>5. ReadCell(m, id, r, c) = Read(d.rows[r + 1].data[c + 1])
      BY <3>1, <3>4 DEF ReadCell, HasValue
    <3>6. FlatCell(d, r, c) = Read(d.rows[r + 1].data[c + 1])
      BY <2>6 DEF FlatCell
    <3> QED
      BY <1>3, <2>5, <3>5, <3>6
  <2>7. CASE ~(r < Len(d.rows) /\ c < d.column_count)
    <3>1. RawValue(m, id, r, c) = None
      <4>1. r >= RowCount(m, id) \/ c >= ColumnCount(m, id)
        BY <2>3, <2>4, <2>7
      <4> QED
        BY <4>1, Zenon DEF RawValue
    <3>2. ReadCell(m, id, r, c) = EmptyCell
      BY <3>1, EmptyIsValue DEF ReadCell, HasValue
    <3>3. FlatCell(d, r, c) = EmptyCell
      BY <2>7 DEF FlatCell
    <3> QED
      BY <1>3, <2>5, <3>2, <3>3
  <2> QED
    BY <2>6, <2>7
<1> QED
  BY <1>1, <1>2, <1>3

\* A reader finds a hidden dataset without rows and columns.
LEMMA HiddenView ==
    ASSUME NEW m, Good(m), NEW id, HasDataset(m, id), Hidden(m, id)
    PROVE  /\ RowCount(m, id) = 0 /\ ColumnCount(m, id) = 0
           /\ \A r, c \in Nat : View(m, id, r, c) = EmptyCell
<1>1. PICK d : d = m.datasets[id]
  OBVIOUS
<1>2. Fits(d)
  BY <1>1, GoodFits DEF HasDataset
<1>3. /\ d.case \in {"packet", "flat"} /\ d.case # Kind(m)
      /\ d.case = "packet" => d.flat = EmptyFlat
      /\ d.case = "flat" => d.packet = EmptyPacket
  BY <1>1, <1>2 DEF Fits, IsDataset, Hidden
<1>4. CASE Packed(m)
  <2>1. d.packet = EmptyPacket
    BY <1>3, <1>4 DEF Kind
  <2>2. d.packet.row_count = 0 /\ d.packet.column_count = 0
    BY <2>1 DEF EmptyPacket
  <2> QED
    BY <1>1, <1>4, <2>1, <2>2, EmptyPacketSound DEF RowCount, ColumnCount, View
<1>5. CASE ~Packed(m)
  <2>1. d.flat = EmptyFlat
    BY <1>3, <1>5 DEF Kind
  <2>2. d.flat.rows = <<>> /\ d.flat.column_count = 0
    BY <2>1 DEF EmptyFlat
  <2>3. Len(d.flat.rows) = 0
    BY <2>2
  <2> QED
    BY <1>1, <1>5, <2>1, <2>2, <2>3, DatasetOf DEF RowCount, ColumnCount, View
<1> QED
  BY <1>4, <1>5

-----------------------------------------------------------------------------
\* The wrappers

\* What TypeOK and ShapeKept say of the wrappers w kept for container m.
Wrappers(w, m) ==
    /\ w = [fields |-> w.fields, datasets |-> w.datasets, open |-> w.open]
    /\ w.fields \subseteq FieldIds /\ w.open \in BOOLEAN
    /\ w.fields \subseteq DOMAIN m.fields
    /\ IsMap(w.datasets, DatasetIds)
    /\ \A id \in DOMAIN w.datasets :
        /\ HasDataset(m, id)
        /\ m.datasets[id].case = w.datasets[id] /\ w.datasets[id] = Kind(m)

IInv ==
    /\ Good(container) /\ Wrappers(writer, container)
    /\ process \in {"running", "undefined"}

LEMMA WhatIInvSays == IInv <=> ConverterTypeOK /\ ShapeKept
<1>1. ASSUME IInv PROVE ConverterTypeOK /\ ShapeKept
  <2>1. \A id \in DOMAIN writer.datasets : writer.datasets[id] \in {"packet", "flat"}
    BY <1>1 DEF IInv, Good, Wrappers, HasDataset, Kind
  <2> QED
    BY <1>1, <2>1 DEF IInv, Good, Wrappers, ConverterTypeOK, ShapeKept
<1>2. ASSUME ConverterTypeOK, ShapeKept PROVE IInv
  BY <1>2 DEF IInv, Good, Wrappers, ConverterTypeOK, ShapeKept
<1> QED
  BY <1>1, <1>2

\* A dataset as a wrapper sees it, kept or made anew: all that was there is there.
LEMMA OpenedKeeps ==
    ASSUME IInv, NEW id \in DatasetIds,
           NEW rows \in 0 .. MaxRows, NEW columns \in 0 .. MaxColumns
    PROVE  LET o == Opened(id, rows, columns) IN
           /\ Good(o) /\ OnlyDataset(container, o, id) /\ HasDataset(o, id)
           /\ o.datasets[id].case = Kind(container)
           /\ HasDataset(container, id) =>
                IF Hidden(container, id) THEN o.datasets[id] = Emptied(container)
                ELSE o.datasets[id] = container.datasets[id]
           /\ \A r, c \in Nat : View(o, id, r, c) = View(container, id, r, c)
<1>1. Good(container) /\ Wrappers(writer, container)
  BY DEF IInv
<1>2. CASE IsKept(id)
  <2>1. HasDataset(container, id) /\ container.datasets[id].case = Kind(container)
    BY <1>1, <1>2 DEF Wrappers, IsKept
  <2>2. Opened(id, rows, columns) = container
    BY <1>2 DEF Opened
  <2> QED
    BY <1>1, <2>1, <2>2 DEF OnlyDataset, HasDataset, Hidden
<1>3. CASE ~IsKept(id)
  <2>1. PICK o : o = OpenDataset(container, id, rows, columns)
    OBVIOUS
  <2>2. Opened(id, rows, columns) = o
    BY <1>3, <2>1 DEF Opened
  <2>3. /\ Good(o) /\ OnlyDataset(container, o, id) /\ o.datasets[id].case = Kind(container)
        /\ o.datasets[id] = IF ~HasDataset(container, id) THEN Fresh(container, rows, columns)
                           ELSE IF Hidden(container, id) THEN Emptied(container)
                           ELSE container.datasets[id]
    BY <1>1, <2>1, OpenKeeps
  <2>4. HasDataset(o, id) /\ (Packed(o) <=> Packed(container))
    BY <2>3 DEF OnlyDataset, HasDataset, Packed
  <2>5. ASSUME NEW r \in Nat, NEW c \in Nat
        PROVE  View(o, id, r, c) = View(container, id, r, c)
    <3>1. CASE HasDataset(container, id)
      <4>1. CASE Hidden(container, id)
        <5>1. o.datasets[id].packet = EmptyPacket /\ o.datasets[id].flat = EmptyFlat
          BY <2>3, <3>1, <4>1, EmptiedFits
        <5>2. View(o, id, r, c) = EmptyCell
          BY <2>4, <5>1, EmptyPacketSound, DatasetOf DEF View
        <5> QED
          BY <1>1, <3>1, <4>1, <5>2, HiddenView
      <4>2. CASE ~Hidden(container, id)
        BY <2>3, <2>4, <3>1, <4>2 DEF View
      <4> QED
        BY <4>1, <4>2
    <3>2. CASE ~HasDataset(container, id)
      <4>1. CASE Packed(container)
        <5>1. o.datasets[id].packet = EmptyPacket
          BY <2>3, <3>2, <4>1, FreshFits
        <5> QED
          BY <2>4, <3>2, <4>1, <5>1, EmptyPacketSound DEF View
      <4>2. CASE ~Packed(container)
        <5>1. o.datasets[id].flat = NewFlat(rows, columns)
          BY <2>3, <3>2, <4>2, FreshFits
        <5> QED
          BY <2>4, <3>2, <4>2, <5>1, NewFlatSound DEF View
      <4> QED
        BY <4>1, <4>2
    <3> QED
      BY <3>1, <3>2
  <2> QED
    BY <2>2, <2>3, <2>4, <2>5
<1> QED
  BY <1>2, <1>3

\* A wrapper kept for a dataset that is there.
LEMMA KeepKeeps ==
    ASSUME NEW m, NEW w, Wrappers(w, m), Good(m), NEW id \in DatasetIds,
           NEW n, Good(n), OnlyDataset(m, n, id), n.datasets[id].case = Kind(m),
           NEW v, v = [w EXCEPT !.datasets = Put(@, id, Kind(m))]
    PROVE  Wrappers(v, n)
<1>1. PICK fs, ds, op : w = [fields |-> fs, datasets |-> ds, open |-> op]
  BY DEF Wrappers
<1>2. w.fields = fs /\ w.datasets = ds /\ w.open = op
  BY <1>1
<1>3. PICK new : new = Put(ds, id, Kind(m))
  OBVIOUS
<1>4. IsMap(ds, DatasetIds)
  BY <1>2 DEF Wrappers
<1>5. /\ IsMap(new, DatasetIds) /\ DOMAIN new = DOMAIN ds \cup {id} /\ new[id] = Kind(m)
      /\ \A k \in DOMAIN ds : k # id => new[k] = ds[k]
  BY <1>3, <1>4 DEF Put, IsMap
<1>6. v = [fields |-> fs, datasets |-> new, open |-> op]
  BY <1>1, <1>3
<1>7. /\ v.fields = fs /\ v.datasets = new /\ v.open = op
      /\ v = [fields |-> v.fields, datasets |-> v.datasets, open |-> v.open]
  <2>1. v.fields = fs /\ v.datasets = new /\ v.open = op
    BY ONLY <1>6
  <2> QED
    BY ONLY <1>6, <2>1
<1>8. Kind(n) = Kind(m) /\ n.fields = m.fields
  BY DEF OnlyDataset, Kind, Packed
<1>9. ASSUME NEW k \in DOMAIN new
      PROVE  HasDataset(n, k) /\ n.datasets[k].case = new[k] /\ new[k] = Kind(n)
  <2>1. CASE k = id
    <3>1. HasDataset(n, id)
      BY DEF OnlyDataset, HasDataset
    <3> QED
      BY <1>5, <1>8, <2>1, <3>1
  <2>2. CASE k # id
    <3>1. /\ k \in DOMAIN ds /\ HasDataset(m, k)
          /\ m.datasets[k].case = ds[k] /\ ds[k] = Kind(m)
      BY <1>2, <1>5, <2>2 DEF Wrappers
    <3> QED
      BY <1>5, <1>8, <2>2, <3>1 DEF OnlyDataset, HasDataset
  <2> QED
    BY <2>1, <2>2
<1> QED
  BY <1>2, <1>5, <1>7, <1>8, <1>9 DEF Wrappers

\* Counts of a good container are numbers.
LEMMA Counts ==
    ASSUME NEW m, Good(m), NEW id \in DOMAIN m.datasets
    PROVE  RowCount(m, id) \in Nat /\ ColumnCount(m, id) \in Nat
<1>1. PICK d : d = m.datasets[id]
  OBVIOUS
<1>2. IsPacket(d.packet) /\ d.flat \in Flat
  BY <1>1, GoodFits DEF Fits, IsDataset
<1>3. PICK p, f : p = d.packet /\ f = d.flat
  OBVIOUS
<1>4. p.row_count \in Nat /\ p.column_count \in Nat
  BY <1>2, <1>3, BoundsAssumption DEF IsPacket
<1>5. f.rows \in Seq(FlatRow) /\ f.column_count \in Nat
  BY <1>2, <1>3, BoundsAssumption DEF Flat
<1> QED
  BY <1>1, <1>3, <1>4, <1>5 DEF RowCount, ColumnCount

-----------------------------------------------------------------------------
\* What a call on the dataset of id does

\* It disturbs nothing else, and takes no index away.
Effect(m, n, id) ==
    /\ Good(n) /\ OnlyDataset(m, n, id) /\ HasDataset(n, id) /\ n.datasets[id].case = Kind(m)
    /\ HasDataset(m, id) =>
        RowCount(m, id) <= RowCount(n, id) /\ ColumnCount(m, id) <= ColumnCount(n, id)

\* Of the cells of id only the one of row and col becomes x.
OneCell(m, n, id, row, col, x) ==
    \A r, c \in Nat : View(n, id, r, c) = IF r = row /\ c = col THEN x ELSE View(m, id, r, c)
NoCell(m, n, id) ==
    \A r, c \in Nat : View(n, id, r, c) = View(m, id, r, c)
SameSize(m, n, id) ==
    RowCount(n, id) = RowCount(m, id) /\ ColumnCount(n, id) = ColumnCount(m, id)

LEMMA OnlyTwice ==
    ASSUME NEW l, NEW m, NEW n, NEW id, OnlyDataset(l, m, id), OnlyDataset(m, n, id)
    PROVE  OnlyDataset(l, n, id)
BY DEF OnlyDataset

\* Opened and then the packet replaced by one of no smaller size.
LEMMA PacketEffect ==
    ASSUME IInv, NEW id \in DatasetIds, Packed(container),
           NEW o, o = Opened(id, 0, 0), NEW p, p = o.datasets[id].packet,
           NEW q, IsPacket(q), PacketSound(q),
           q.row_count >= p.row_count, q.column_count >= p.column_count,
           NEW n, n = [o EXCEPT !.datasets[id].packet = q]
    PROVE  /\ Effect(container, n, id)
           /\ \A r, c \in Nat : /\ View(n, id, r, c) = PacketCell(q, r, c)
                                /\ View(container, id, r, c) = PacketCell(p, r, c)
<1>1. 0 \in 0 .. MaxRows /\ 0 \in 0 .. MaxColumns
  BY BoundsAssumption
<1>2. /\ Good(o) /\ OnlyDataset(container, o, id) /\ HasDataset(o, id)
      /\ o.datasets[id].case = Kind(container)
      /\ HasDataset(container, id) =>
           IF Hidden(container, id) THEN o.datasets[id] = Emptied(container)
           ELSE o.datasets[id] = container.datasets[id]
      /\ \A r, c \in Nat : View(o, id, r, c) = View(container, id, r, c)
  BY <1>1, OpenedKeeps
<1>3. Packed(o) /\ id \in DOMAIN o.datasets /\ Kind(container) = "packet"
  BY <1>2 DEF OnlyDataset, Packed, HasDataset, Kind
<1>4. /\ Good(n) /\ OnlyDataset(o, n, id) /\ n.datasets[id].packet = q
      /\ n.datasets[id].case = Kind(container)
  BY <1>2, <1>3, PacketReplaced
<1>5. OnlyDataset(container, n, id) /\ HasDataset(n, id) /\ Packed(n)
  <2>1. OnlyDataset(container, n, id)
    BY <1>2, <1>4, OnlyTwice
  <2> QED
    BY <2>1 DEF OnlyDataset, HasDataset, Packed
<1>6. IsPacket(p)
  BY <1>2, <1>3, GoodFits DEF Fits, IsDataset
<1>7. ASSUME HasDataset(container, id)
      PROVE  /\ RowCount(container, id) <= RowCount(n, id)
             /\ ColumnCount(container, id) <= ColumnCount(n, id)
  <2>1. /\ RowCount(n, id) = q.row_count /\ ColumnCount(n, id) = q.column_count
        /\ ~Hidden(container, id) => /\ RowCount(container, id) = p.row_count
                                     /\ ColumnCount(container, id) = p.column_count
        /\ Hidden(container, id) => RowCount(container, id) = 0 /\ ColumnCount(container, id) = 0
    BY <1>2, <1>4, <1>5, <1>7, HiddenView DEF RowCount, ColumnCount, IInv
  <2>2. /\ p.row_count \in Nat /\ p.column_count \in Nat
        /\ q.row_count \in Nat /\ q.column_count \in Nat
    BY <1>6, BoundsAssumption DEF IsPacket
  <2> QED
    BY <2>1, <2>2
<1>8. ASSUME NEW r \in Nat, NEW c \in Nat
      PROVE  View(n, id, r, c) = PacketCell(q, r, c) /\ View(container, id, r, c) = PacketCell(p, r, c)
  BY <1>2, <1>3, <1>4, <1>5 DEF View
<1> QED
  BY <1>4, <1>5, <1>7, <1>8 DEF Effect

\* The packet of an opened dataset.
LEMMA OpenedPacket ==
    ASSUME IInv, NEW id \in DatasetIds, Packed(container),
           NEW o, o = Opened(id, 0, 0), NEW p, p = o.datasets[id].packet
    PROVE  IsPacket(p) /\ PacketSound(p)
<1>1. 0 \in 0 .. MaxRows /\ 0 \in 0 .. MaxColumns
  BY BoundsAssumption
<1>2. Good(o) /\ OnlyDataset(container, o, id) /\ HasDataset(o, id)
  BY <1>1, OpenedKeeps
<1>3. Packed(o) /\ id \in DOMAIN o.datasets
  BY <1>2 DEF OnlyDataset, Packed, HasDataset
<1> QED
  BY <1>2, <1>3, GoodFits DEF Fits, IsDataset

LEMMA InitDatasetDoes ==
    ASSUME IInv, NEW id \in DatasetIds,
           NEW rows \in 0 .. MaxRows, NEW columns \in 0 .. MaxColumns,
           InitDataset(id, rows, columns)
    PROVE  Effect(container, container', id) /\ NoCell(container, container', id)
<1>1. CASE Packed(container)
  <2>1. PICK o : o = Opened(id, 0, 0)
    OBVIOUS
  <2>2. PICK p : p = o.datasets[id].packet
    OBVIOUS
  <2>3. PICK q : q = Grow(p, rows, columns)
    OBVIOUS
  <2>4. container' = [o EXCEPT !.datasets[id].packet = q]
    BY <1>1, <2>1, <2>2, <2>3 DEF InitDataset
  <2>5. IsPacket(p) /\ PacketSound(p)
    BY <1>1, <2>1, <2>2, OpenedPacket
  <2>6. /\ IsPacket(q) /\ PacketSound(q)
        /\ q.row_count >= p.row_count /\ q.column_count >= p.column_count
        /\ \A r, c : PacketCell(q, r, c) = PacketCell(p, r, c)
    BY <2>3, <2>5, GrowKeeps
  <2>7. PICK n : n = container'
    OBVIOUS
  <2>8. /\ Effect(container, n, id)
        /\ \A r, c \in Nat : /\ View(n, id, r, c) = PacketCell(q, r, c)
                             /\ View(container, id, r, c) = PacketCell(p, r, c)
    BY <1>1, <2>1, <2>2, <2>4, <2>6, <2>7, PacketEffect
  <2> QED
    BY <2>6, <2>7, <2>8 DEF NoCell
<1>2. CASE ~Packed(container)
  <2>1. PICK n : n = container' /\ n = Opened(id, rows, columns)
    BY <1>2 DEF InitDataset
  <2>2. /\ Good(n) /\ OnlyDataset(container, n, id) /\ HasDataset(n, id)
        /\ n.datasets[id].case = Kind(container)
        /\ HasDataset(container, id) =>
             IF Hidden(container, id) THEN n.datasets[id] = Emptied(container)
             ELSE n.datasets[id] = container.datasets[id]
        /\ \A r, c \in Nat : View(n, id, r, c) = View(container, id, r, c)
    BY <2>1, OpenedKeeps
  <2>3. ASSUME HasDataset(container, id)
        PROVE  /\ RowCount(container, id) <= RowCount(n, id)
               /\ ColumnCount(container, id) <= ColumnCount(n, id)
    <3>1. RowCount(n, id) \in Nat /\ ColumnCount(n, id) \in Nat
      BY <2>2, Counts DEF HasDataset
    <3>2. CASE Hidden(container, id)
      BY <2>3, <3>1, <3>2, HiddenView DEF IInv
    <3>3. CASE ~Hidden(container, id)
      <4>1. ~Packed(n)
        BY <1>2, <2>2 DEF OnlyDataset, Packed
      <4>2. /\ RowCount(n, id) = RowCount(container, id)
            /\ ColumnCount(n, id) = ColumnCount(container, id)
        BY <1>2, <2>2, <2>3, <3>3, <4>1 DEF RowCount, ColumnCount
      <4> QED
        BY <3>1, <4>2
    <3> QED
      BY <3>2, <3>3
  <2> QED
    BY <2>1, <2>2, <2>3 DEF Effect, NoCell
<1> QED
  BY <1>1, <1>2

LEMMA SetValueDoes ==
    ASSUME IInv, NEW id \in DatasetIds, NEW row \in Rows, NEW col \in Columns,
           NEW x \in Setting, SetValue(id, row, col, x)
    PROVE  /\ Effect(container, container', id)
           /\ OneCell(container, container', id, row, col, x)
           /\ ~Packed(container) => SameSize(container, container', id)
<1>1. CASE Packed(container)
  <2>1. PICK o : o = Opened(id, 0, 0)
    OBVIOUS
  <2>2. PICK p : p = o.datasets[id].packet
    OBVIOUS
  <2>3. PICK q : q = SetPacked(p, row, col, x)
    OBVIOUS
  <2>4. container' = [o EXCEPT !.datasets[id].packet = q]
    BY <1>1, <2>1, <2>2, <2>3 DEF SetValue
  <2>5. IsPacket(p) /\ PacketSound(p)
    BY <1>1, <2>1, <2>2, OpenedPacket
  <2>6. /\ IsPacket(q) /\ PacketSound(q)
        /\ q.row_count >= p.row_count /\ q.column_count >= p.column_count
        /\ \A r, c : PacketCell(q, r, c) =
             IF r = row /\ c = col THEN x ELSE PacketCell(p, r, c)
    BY <2>3, <2>5, SetPackedKeeps
  <2>7. PICK n : n = container'
    OBVIOUS
  <2>8. /\ Effect(container, n, id)
        /\ \A r, c \in Nat : /\ View(n, id, r, c) = PacketCell(q, r, c)
                             /\ View(container, id, r, c) = PacketCell(p, r, c)
    BY <1>1, <2>1, <2>2, <2>4, <2>6, <2>7, PacketEffect
  <2> QED
    BY <1>1, <2>6, <2>7, <2>8 DEF OneCell
<1>2. CASE ~Packed(container)
  <2>1. PICK o : o = Opened(id, 0, 0)
    OBVIOUS
  <2>2. PICK p : p = o.datasets[id].flat
    OBVIOUS
  <2>3. PICK q : q = SetFlat(p, row, col, x)
    OBVIOUS
  <2>4. PICK n : n = container' /\ n = [o EXCEPT !.datasets[id].flat = q]
    BY <1>2, <2>1, <2>2, <2>3 DEF SetValue
  <2>5. /\ HasDataset(container, id)
        /\ row < RowCount(container, id) /\ col < ColumnCount(container, id)
    BY <1>2 DEF SetValue
  <2>6. 0 \in 0 .. MaxRows /\ 0 \in 0 .. MaxColumns /\ ~Hidden(container, id)
    <3>1. row \in Nat
      BY BoundsAssumption DEF Rows
    <3>2. RowCount(container, id) # 0
      BY <2>5, <3>1
    <3> QED
      BY <2>5, <3>2, HiddenView, BoundsAssumption DEF IInv
  <2>7. /\ Good(o) /\ OnlyDataset(container, o, id) /\ HasDataset(o, id)
        /\ o.datasets[id] = container.datasets[id] /\ o.datasets[id].case = Kind(container)
        /\ \A r, c \in Nat : View(o, id, r, c) = View(container, id, r, c)
    BY <2>1, <2>5, <2>6, OpenedKeeps
  <2>8. ~Packed(o) /\ id \in DOMAIN o.datasets /\ Kind(container) = "flat"
    BY <1>2, <2>7 DEF OnlyDataset, Packed, HasDataset, Kind
  <2>9. p \in Flat /\ FlatSound(p)
    BY <2>2, <2>7, <2>8, GoodFits DEF Fits, IsDataset
  <2>10. RowCount(container, id) = Len(p.rows) /\ ColumnCount(container, id) = p.column_count
    BY <1>2, <2>2, <2>7 DEF RowCount, ColumnCount
  <2>11. row \in Nat /\ col \in Nat
    BY BoundsAssumption DEF Rows, Columns
  <2>12. /\ q \in Flat /\ FlatSound(q)
         /\ Len(q.rows) = Len(p.rows) /\ q.column_count = p.column_count
         /\ \A r, c \in Nat : FlatCell(q, r, c) =
              IF r = row /\ c = col THEN x ELSE FlatCell(p, r, c)
    BY <2>3, <2>5, <2>9, <2>10, <2>11, SetFlatKeeps
  <2>13. /\ Good(n) /\ OnlyDataset(o, n, id) /\ n.datasets[id].flat = q
         /\ n.datasets[id].case = Kind(container)
    BY <2>4, <2>7, <2>8, <2>12, FlatReplaced
  <2>14. OnlyDataset(container, n, id) /\ HasDataset(n, id) /\ ~Packed(n)
    <3>1. OnlyDataset(container, n, id)
      BY <2>7, <2>13, OnlyTwice
    <3> QED
      BY <1>2, <3>1 DEF OnlyDataset, HasDataset, Packed
  <2>15. /\ RowCount(container, id) <= RowCount(n, id)
         /\ ColumnCount(container, id) <= ColumnCount(n, id)
         /\ SameSize(container, n, id)
    <3>1. RowCount(n, id) = Len(q.rows) /\ ColumnCount(n, id) = q.column_count
      BY <2>13, <2>14 DEF RowCount, ColumnCount
    <3>2. Len(p.rows) \in Nat /\ p.column_count \in Nat
      BY <2>9, BoundsAssumption DEF Flat
    <3> QED
      BY <2>10, <2>12, <3>1, <3>2 DEF SameSize
  <2>16. \A r, c \in Nat : /\ View(n, id, r, c) = FlatCell(q, r, c)
                           /\ View(container, id, r, c) = FlatCell(p, r, c)
    BY <2>2, <2>5, <2>7, <2>8, <2>13, <2>14, <1>2 DEF View
  <2> QED
    BY <2>4, <2>12, <2>13, <2>14, <2>15, <2>16 DEF Effect, OneCell
<1> QED
  BY <1>1, <1>2

LEMMA ClearValueDoes ==
    ASSUME IInv, NEW id \in DatasetIds, NEW row \in Rows, NEW col \in Columns,
           ClearValue(id, row, col), Packed(container)
    PROVE  /\ Effect(container, container', id) /\ Keep(id) /\ process' = process
           /\ OneCell(container, container', id, row, col, EmptyCell)
<1>1. Packed(container)
  OBVIOUS
<1>2. PICK o : o = Opened(id, 0, 0)
  OBVIOUS
<1>3. PICK p : p = o.datasets[id].packet
  OBVIOUS
<1>4. PICK q : q = ClearPacked(p, row, col)
  OBVIOUS
<1>5. container' = [o EXCEPT !.datasets[id].packet = q]
  BY <1>1, <1>2, <1>3, <1>4 DEF ClearValue
<1>6. IsPacket(p) /\ PacketSound(p)
  BY <1>1, <1>2, <1>3, OpenedPacket
<1>7. /\ IsPacket(q) /\ PacketSound(q)
      /\ q.row_count = p.row_count /\ q.column_count = p.column_count
      /\ \A r, c : PacketCell(q, r, c) =
           IF r = row /\ c = col THEN EmptyCell ELSE PacketCell(p, r, c)
  BY <1>4, <1>6, ClearPackedKeeps
<1>8. p.row_count \in Nat /\ p.column_count \in Nat
  BY <1>6, BoundsAssumption DEF IsPacket
<1>9. q.row_count >= p.row_count /\ q.column_count >= p.column_count
  BY <1>7, <1>8
<1>10. PICK n : n = container'
  OBVIOUS
<1>11. /\ Effect(container, n, id)
       /\ \A r, c \in Nat : /\ View(n, id, r, c) = PacketCell(q, r, c)
                            /\ View(container, id, r, c) = PacketCell(p, r, c)
  BY <1>1, <1>2, <1>3, <1>5, <1>7, <1>9, <1>10, PacketEffect
<1>12. Keep(id) /\ process' = process
  BY <1>1 DEF ClearValue
<1> QED
  BY <1>7, <1>10, <1>11, <1>12 DEF OneCell

-----------------------------------------------------------------------------
\* The table of what is stored

FieldCells == {<<"field", id, 0, 0>> : id \in FieldIds}

\* What a cell of a dataset holds, seen or hidden.
Held(m, id, r, c) ==
    IF ~HasDataset(m, id) THEN EmptyCell
    ELSE IF m.datasets[id].case = "packet" THEN PacketCell(m.datasets[id].packet, r, c)
    ELSE FlatCell(m.datasets[id].flat, r, c)

\* A reader sees it unless the dataset is hidden.
LEMMA HeldIsView ==
    ASSUME NEW m, Good(m), NEW id, HasDataset(m, id) => ~Hidden(m, id), NEW r, NEW c
    PROVE  Held(m, id, r, c) = View(m, id, r, c)
BY DEF Held, View, Hidden, Kind

LEMMA CellsAreNumbered == Rows \subseteq Nat /\ Columns \subseteq Nat
BY BoundsAssumption DEF Rows, Columns

\* A container read as the dataset of id is stored.
LEMMA ShownIs ==
    ASSUME NEW m, Good(m), NEW id, HasDataset(m, id), NEW r \in Nat, NEW c \in Nat
    PROVE  LET n == Shown(m, id) IN
           HasDataset(n, id) /\ ReadCell(n, id, r, c) = Held(m, id, r, c)
<1>1. PICK sv, fs, ds, pd :
        m = [structure_version |-> sv, fields |-> fs, datasets |-> ds,
             packet_data |-> pd, unknown |-> <<>>]
  BY DEF Good, IsContainer
<1>2. m.structure_version = sv /\ m.fields = fs /\ m.datasets = ds /\ m.packet_data = pd
  BY <1>1
<1>3. PICK flag : flag = IF ds[id].case = "packet" THEN 1 ELSE 0
  OBVIOUS
<1>4. PICK n : n = [m EXCEPT !.packet_data = flag]
  OBVIOUS
<1>5. Shown(m, id) = n
  BY <1>2, <1>3, <1>4 DEF Shown
<1>6. n = [structure_version |-> sv, fields |-> fs, datasets |-> ds,
           packet_data |-> flag, unknown |-> <<>>]
  BY <1>1, <1>4
<1>7. /\ n.structure_version = sv /\ n.fields = fs /\ n.datasets = ds /\ n.packet_data = flag
      /\ n = [structure_version |-> n.structure_version, fields |-> n.fields,
              datasets |-> n.datasets, packet_data |-> n.packet_data, unknown |-> <<>>]
  BY <1>6
<1>8. flag \in {0, 1}
  BY <1>3
<1>9. IsContainer(n)
  BY <1>2, <1>7, <1>8 DEF Good, IsContainer
<1>10. Good(n)
  BY <1>2, <1>7, <1>9 DEF Good, Sound
<1>11. HasDataset(n, id)
  BY <1>2, <1>7 DEF HasDataset
<1>12. ReadCell(n, id, r, c) = View(n, id, r, c)
  BY <1>10, <1>11, ReadIsView
<1>13. View(n, id, r, c) = Held(m, id, r, c)
  BY <1>2, <1>3, <1>7, <1>11 DEF View, Held, Packed
<1> QED
  BY <1>5, <1>11, <1>12, <1>13

LEMMA KindsOfCells ==
    /\ Cells = FieldCells \cup UNION {DatasetCells(id) : id \in DatasetIds}
    /\ \A m, id : id \in FieldIds =>
         /\ <<"field", id, 0, 0>> \in Cells
         /\ StoredIn(m)[<<"field", id, 0, 0>>] = IF HasField(m, id) THEN ReadField(m, id) ELSE EmptyCell
    /\ \A m : Good(m) => \A id \in DatasetIds, r \in Rows, c \in Columns :
         /\ <<"dataset", id, r, c>> \in Cells
         /\ StoredIn(m)[<<"dataset", id, r, c>>] = Held(m, id, r, c)
<1>1. Cells = FieldCells \cup UNION {DatasetCells(id) : id \in DatasetIds}
  BY DEF Cells, FieldCells
<1>2. ASSUME NEW m, NEW id \in FieldIds
      PROVE  /\ <<"field", id, 0, 0>> \in Cells
             /\ StoredIn(m)[<<"field", id, 0, 0>>] = IF HasField(m, id) THEN ReadField(m, id) ELSE EmptyCell
  <2>1. PICK k : k = <<"field", id, 0, 0>>
    OBVIOUS
  <2>2. k \in Cells /\ k[1] = "field" /\ k[2] = id
    BY <2>1 DEF Cells
  <2>3. StoredIn(m)[k] = CellOf(m, k)
    BY <2>2 DEF StoredIn
  <2>4. CellOf(m, k) = IF HasField(m, id) THEN ReadField(m, id) ELSE EmptyCell
    BY <2>2 DEF CellOf
  <2> QED
    BY <2>1, <2>2, <2>3, <2>4
<1>3. ASSUME NEW m, Good(m), NEW id \in DatasetIds, NEW r \in Rows, NEW c \in Columns
      PROVE  /\ <<"dataset", id, r, c>> \in Cells
             /\ StoredIn(m)[<<"dataset", id, r, c>>] = Held(m, id, r, c)
  <2>1. PICK k : k = <<"dataset", id, r, c>>
    OBVIOUS
  <2>2. k \in Cells /\ k[1] = "dataset" /\ k[2] = id /\ k[3] = r /\ k[4] = c
    BY <2>1 DEF Cells, DatasetCells
  <2>3. r \in Nat /\ c \in Nat
    BY CellsAreNumbered
  <2>4. CASE HasDataset(m, id)
    <3>1. PICK n : n = Shown(m, id)
      OBVIOUS
    <3>2. StoredIn(m)[k] = CellOf(n, k)
      BY <2>2, <2>4, <3>1 DEF StoredIn
    <3>3. HasDataset(n, id) /\ ReadCell(n, id, r, c) = Held(m, id, r, c)
      BY <1>3, <2>3, <2>4, <3>1, ShownIs
    <3>4. CellOf(n, k) = ReadCell(n, id, r, c)
      BY <2>2, <3>3 DEF CellOf
    <3> QED
      BY <2>1, <2>2, <3>2, <3>3, <3>4
  <2>5. CASE ~HasDataset(m, id)
    <3>1. StoredIn(m)[k] = CellOf(m, k)
      BY <2>2, <2>5 DEF StoredIn
    <3>2. CellOf(m, k) = EmptyCell
      BY <2>2, <2>5 DEF CellOf
    <3> QED
      BY <2>1, <2>2, <2>5, <3>1, <3>2 DEF Held
  <2> QED
    BY <2>4, <2>5
<1> QED
  BY <1>1, <1>2, <1>3

LEMMA EachCell ==
    ASSUME NEW k \in Cells
    PROVE  \/ \E id \in FieldIds : k = <<"field", id, 0, 0>>
           \/ \E id \in DatasetIds, r \in Rows, c \in Columns : k = <<"dataset", id, r, c>>
BY DEF Cells, DatasetCells

\* Datasets have no cell in common, and none has no cells.
LEMMA DatasetsApart ==
    /\ \A i, j, r, c : <<"dataset", i, r, c>> \in DatasetCells(j) <=> i = j /\ r \in Rows /\ c \in Columns
    /\ \A i, j : <<"field", i, 0, 0>> \notin DatasetCells(j)
    /\ \A i, j : DatasetCells(i) = DatasetCells(j) => i = j
<1>1. ASSUME NEW i, NEW j, NEW r, NEW c
      PROVE  <<"dataset", i, r, c>> \in DatasetCells(j) <=> i = j /\ r \in Rows /\ c \in Columns
  BY DEF DatasetCells
<1>2. ASSUME NEW i, NEW j PROVE <<"field", i, 0, 0>> \notin DatasetCells(j)
  BY DEF DatasetCells
<1>3. 0 \in Rows /\ 0 \in Columns
  BY BoundsAssumption DEF Rows, Columns
<1>4. ASSUME NEW i, NEW j, DatasetCells(i) = DatasetCells(j) PROVE i = j
  <2>1. PICK k : k = <<"dataset", i, 0, 0>>
    OBVIOUS
  <2>2. k \in DatasetCells(i)
    BY <1>1, <1>3, <2>1
  <2>3. k \in DatasetCells(j)
    BY <1>4, <2>2
  <2> QED
    BY <1>1, <2>1, <2>3
<1> QED
  BY <1>1, <1>2, <1>4

\* The hidden datasets are known by their cells.
LEMMA HiddenCells ==
    ASSUME NEW m
    PROVE  /\ \A id : DatasetCells(id) \in HiddenIn(m) <=> HasDataset(m, id) /\ Hidden(m, id)
           /\ \A D \in HiddenIn(m) : \E id : D = DatasetCells(id) /\ HasDataset(m, id) /\ Hidden(m, id)
           /\ \A id : \A r \in Rows, c \in Columns :
                <<"dataset", id, r, c>> \in UNION HiddenIn(m) => HasDataset(m, id) /\ Hidden(m, id)
           /\ \A id : <<"field", id, 0, 0>> \notin UNION HiddenIn(m)
<1>1. \A D : D \in HiddenIn(m) <=> \E id : D = DatasetCells(id) /\ HasDataset(m, id) /\ Hidden(m, id)
  BY DEF HiddenIn, HasDataset
<1>2. ASSUME NEW id, DatasetCells(id) \in HiddenIn(m) PROVE HasDataset(m, id) /\ Hidden(m, id)
  BY <1>1, <1>2, DatasetsApart
<1>3. ASSUME NEW id, NEW r \in Rows, NEW c \in Columns,
             <<"dataset", id, r, c>> \in UNION HiddenIn(m)
      PROVE  HasDataset(m, id) /\ Hidden(m, id)
  <2>1. PICK D \in HiddenIn(m) : <<"dataset", id, r, c>> \in D
    BY <1>3
  <2>2. PICK j : D = DatasetCells(j) /\ HasDataset(m, j) /\ Hidden(m, j)
    BY <1>1, <2>1
  <2>3. id = j
    BY <2>1, <2>2, DatasetsApart
  <2> QED
    BY <2>2, <2>3
<1>4. ASSUME NEW id, <<"field", id, 0, 0>> \in UNION HiddenIn(m) PROVE FALSE
  <2>1. PICK D \in HiddenIn(m) : <<"field", id, 0, 0>> \in D
    BY <1>4
  <2>2. PICK j : D = DatasetCells(j)
    BY <1>1, <2>1
  <2> QED
    BY <2>1, <2>2, DatasetsApart
<1> QED
  BY <1>1, <1>2, <1>3, <1>4

\* The hidden datasets that a cell is in, and the table without a set of cells.
Overlaid(m, at)   == {D \in HiddenIn(m) : at \in D}
Without(S, t) == [c \in Cells |-> IF c \in S THEN EmptyCell ELSE t[c]]

LEMMA NothingOver ==
    ASSUME NEW m, NEW at, at \notin UNION HiddenIn(m)
    PROVE  /\ Overlaid(m, at) = {} /\ HiddenIn(m) \ Overlaid(m, at) = HiddenIn(m)
           /\ Without(UNION Overlaid(m, at), StoredIn(m)) = StoredIn(m)
<1>1. Overlaid(m, at) = {}
  BY DEF Overlaid
<1>2. UNION Overlaid(m, at) = {}
  BY <1>1
<1>3. StoredIn(m) = [c \in Cells |-> StoredIn(m)[c]]
  BY DEF StoredIn
<1>4. Without(UNION Overlaid(m, at), StoredIn(m)) = StoredIn(m)
  BY <1>2, <1>3 DEF Without
<1> QED
  BY <1>1, <1>4

LEMMA DatasetOver ==
    ASSUME NEW m, NEW id, NEW row \in Rows, NEW col \in Columns
    PROVE  LET over == Overlaid(m, <<"dataset", id, row, col>>) IN
           /\ HiddenIn(m) \ over = HiddenIn(m) \ {DatasetCells(id)}
           /\ UNION over = IF HasDataset(m, id) /\ Hidden(m, id) THEN DatasetCells(id) ELSE {}
<1>1. PICK at : at = <<"dataset", id, row, col>>
  OBVIOUS
<1>2. PICK over : over = Overlaid(m, at)
  OBVIOUS
<1>3. at \in DatasetCells(id)
  BY <1>1, DatasetsApart
<1>4. ASSUME NEW D \in HiddenIn(m), at \in D PROVE D = DatasetCells(id)
  <2>1. PICK j : D = DatasetCells(j)
    BY HiddenCells
  <2> QED
    BY <1>1, <1>4, <2>1, DatasetsApart
<1>5. \A D : D \in over <=> D \in HiddenIn(m) /\ D = DatasetCells(id)
  BY <1>2, <1>3, <1>4 DEF Overlaid
<1>6. HiddenIn(m) \ over = HiddenIn(m) \ {DatasetCells(id)}
  BY <1>5
<1>7. CASE HasDataset(m, id) /\ Hidden(m, id)
  <2>1. over = {DatasetCells(id)}
    BY <1>5, <1>7, HiddenCells
  <2>2. UNION over = DatasetCells(id)
    BY <2>1
  <2> QED
    BY <1>1, <1>2, <1>6, <1>7, <2>2
<1>8. CASE ~(HasDataset(m, id) /\ Hidden(m, id))
  <2>1. over = {}
    BY <1>5, <1>8, HiddenCells
  <2>2. UNION over = {}
    BY <2>1
  <2> QED
    BY <1>1, <1>2, <1>6, <1>8, <2>2
<1> QED
  BY <1>7, <1>8

\* Cells are as they were when fields and datasets are, and the same are hidden
\* when the flag is as it was.
LEMMA SameCells ==
    ASSUME NEW m, NEW n, Good(m), Good(n), n.fields = m.fields, n.datasets = m.datasets
    PROVE  /\ StoredIn(n) = StoredIn(m)
           /\ n.packet_data = m.packet_data => HiddenIn(n) = HiddenIn(m)
<1>1. ASSUME NEW k \in Cells PROVE StoredIn(n)[k] = StoredIn(m)[k]
  <2>1. ASSUME NEW id \in FieldIds, k = <<"field", id, 0, 0>> PROVE StoredIn(n)[k] = StoredIn(m)[k]
    BY <2>1, KindsOfCells DEF HasField, ReadField
  <2>2. ASSUME NEW id \in DatasetIds, NEW r \in Rows, NEW c \in Columns, k = <<"dataset", id, r, c>>
        PROVE  StoredIn(n)[k] = StoredIn(m)[k]
    <3>1. Held(n, id, r, c) = Held(m, id, r, c)
      BY DEF Held, HasDataset
    <3> QED
      BY <2>2, <3>1, KindsOfCells
  <2> QED
    BY <2>1, <2>2, EachCell
<1>2. /\ StoredIn(m) = [c \in Cells |-> StoredIn(m)[c]]
      /\ StoredIn(n) = [c \in Cells |-> StoredIn(n)[c]]
  BY DEF StoredIn
<1>3. StoredIn(n) = StoredIn(m)
  BY <1>1, <1>2
<1>4. n.packet_data = m.packet_data => HiddenIn(n) = HiddenIn(m)
  BY DEF HiddenIn, Hidden, Kind, Packed
<1> QED
  BY <1>3, <1>4

\* After a call on the dataset of id it is not hidden, and the others are as before.
LEMMA HiddenAfter ==
    ASSUME NEW m, NEW n, NEW id \in DatasetIds, Effect(m, n, id)
    PROVE  HiddenIn(n) = HiddenIn(m) \ {DatasetCells(id)}
<1>1. Kind(n) = Kind(m) /\ n.datasets[id].case = Kind(n)
  BY DEF Effect, OnlyDataset, Kind, Packed
<1>2. ASSUME NEW k, k # id
      PROVE  HasDataset(n, k) /\ Hidden(n, k) <=> HasDataset(m, k) /\ Hidden(m, k)
  BY <1>1, <1>2 DEF Effect, OnlyDataset, HasDataset, Hidden
<1>3. ~Hidden(n, id)
  BY <1>1 DEF Hidden
<1>4. ASSUME NEW D PROVE D \in HiddenIn(n) <=> D \in HiddenIn(m) /\ D # DatasetCells(id)
  <2>1. ASSUME D \in HiddenIn(n) PROVE D \in HiddenIn(m) /\ D # DatasetCells(id)
    <3>1. PICK k : D = DatasetCells(k) /\ HasDataset(n, k) /\ Hidden(n, k)
      BY <2>1, HiddenCells
    <3>2. k # id
      BY <1>3, <3>1
    <3> QED
      BY <1>2, <3>1, <3>2, HiddenCells, DatasetsApart
  <2>2. ASSUME D \in HiddenIn(m), D # DatasetCells(id) PROVE D \in HiddenIn(n)
    <3>1. PICK k : D = DatasetCells(k) /\ HasDataset(m, k) /\ Hidden(m, k)
      BY <2>2, HiddenCells
    <3>2. k # id
      BY <2>2, <3>1
    <3> QED
      BY <1>2, <3>1, <3>2, HiddenCells
  <2> QED
    BY <2>1, <2>2
<1> QED
  BY <1>4

\* The cells after a call on the dataset of id.
LEMMA CellsAfter ==
    ASSUME NEW m, NEW n, NEW id \in DatasetIds, Good(m), Effect(m, n, id),
           NEW W, W = IF HasDataset(m, id) /\ Hidden(m, id) THEN DatasetCells(id) ELSE {},
           NEW k \in Cells
    PROVE  /\ k \notin DatasetCells(id) => StoredIn(n)[k] = Without(W, StoredIn(m))[k]
           /\ \A r \in Rows, c \in Columns : k = <<"dataset", id, r, c>> =>
                /\ StoredIn(n)[k] = View(n, id, r, c)
                /\ Without(W, StoredIn(m))[k] = View(m, id, r, c)
<1>1. Good(n) /\ OnlyDataset(m, n, id) /\ n.datasets[id].case = Kind(m)
  BY DEF Effect
<1>2. Without(W, StoredIn(m))[k] = IF k \in W THEN EmptyCell ELSE StoredIn(m)[k]
  BY DEF Without
<1>3. W \subseteq DatasetCells(id)
  OBVIOUS
<1>4. ASSUME k \notin DatasetCells(id) PROVE StoredIn(n)[k] = Without(W, StoredIn(m))[k]
  <2>1. Without(W, StoredIn(m))[k] = StoredIn(m)[k]
    BY <1>2, <1>3, <1>4
  <2>2. ASSUME NEW i \in FieldIds, k = <<"field", i, 0, 0>> PROVE StoredIn(n)[k] = StoredIn(m)[k]
    <3>1. n.fields = m.fields
      BY <1>1 DEF OnlyDataset
    <3>2. (HasField(n, i) <=> HasField(m, i)) /\ ReadField(n, i) = ReadField(m, i)
      BY <3>1 DEF HasField, ReadField
    <3> QED
      BY <2>2, <3>2, KindsOfCells
  <2>3. ASSUME NEW i \in DatasetIds, NEW r \in Rows, NEW c \in Columns, k = <<"dataset", i, r, c>>
        PROVE  StoredIn(n)[k] = StoredIn(m)[k]
    <3>1. i # id
      BY <1>4, <2>3, DatasetsApart
    <3>2. Held(n, i, r, c) = Held(m, i, r, c)
      BY <1>1, <3>1 DEF OnlyDataset, Held, HasDataset
    <3> QED
      BY <1>1, <2>3, <3>2, KindsOfCells
  <2> QED
    BY <2>1, <2>2, <2>3, EachCell
<1>5. ASSUME NEW r \in Rows, NEW c \in Columns, k = <<"dataset", id, r, c>>
      PROVE  StoredIn(n)[k] = View(n, id, r, c) /\ Without(W, StoredIn(m))[k] = View(m, id, r, c)
  <2>1. StoredIn(n)[k] = Held(n, id, r, c) /\ StoredIn(m)[k] = Held(m, id, r, c)
    BY <1>1, <1>5, KindsOfCells
  <2>2. ~Hidden(n, id)
    BY <1>1 DEF Hidden, OnlyDataset, Kind, Packed
  <2>3. Held(n, id, r, c) = View(n, id, r, c)
    BY <1>1, <2>2, HeldIsView
  <2>4. CASE HasDataset(m, id) /\ Hidden(m, id)
    <3>1. k \in W
      BY <1>5, <2>4, DatasetsApart
    <3>2. View(m, id, r, c) = EmptyCell
      BY <2>4, HiddenView, CellsAreNumbered
    <3> QED
      BY <1>2, <2>1, <2>3, <3>1, <3>2
  <2>5. CASE ~(HasDataset(m, id) /\ Hidden(m, id))
    BY <1>2, <2>1, <2>3, <2>5, HeldIsView
  <2> QED
    BY <2>4, <2>5
<1> QED
  BY <1>4, <1>5

LEMMA NoCellTable ==
    ASSUME NEW m, NEW n, NEW id \in DatasetIds, Good(m), Effect(m, n, id), NoCell(m, n, id),
           NEW W, W = IF HasDataset(m, id) /\ Hidden(m, id) THEN DatasetCells(id) ELSE {}
    PROVE  StoredIn(n) = Without(W, StoredIn(m))
<1>1. ASSUME NEW k \in Cells PROVE StoredIn(n)[k] = Without(W, StoredIn(m))[k]
  <2>1. CASE k \in DatasetCells(id)
    <3>1. PICK r \in Rows, c \in Columns : k = <<"dataset", id, r, c>>
      BY <2>1 DEF DatasetCells
    <3>2. View(n, id, r, c) = View(m, id, r, c)
      BY CellsAreNumbered DEF NoCell
    <3> QED
      BY <3>1, <3>2, CellsAfter
  <2>2. CASE k \notin DatasetCells(id)
    BY <2>2, CellsAfter
  <2> QED
    BY <2>1, <2>2
<1>2. /\ StoredIn(n) = [c \in Cells |-> StoredIn(n)[c]]
      /\ Without(W, StoredIn(m)) = [c \in Cells |-> Without(W, StoredIn(m))[c]]
  BY DEF StoredIn, Without
<1> QED
  BY <1>1, <1>2

LEMMA OneCellTable ==
    ASSUME NEW m, NEW n, NEW id \in DatasetIds, Good(m), Effect(m, n, id),
           NEW row \in Rows, NEW col \in Columns, NEW x, OneCell(m, n, id, row, col, x),
           NEW W, W = IF HasDataset(m, id) /\ Hidden(m, id) THEN DatasetCells(id) ELSE {}
    PROVE  /\ <<"dataset", id, row, col>> \in Cells
           /\ StoredIn(n) = [Without(W, StoredIn(m)) EXCEPT ![<<"dataset", id, row, col>>] = x]
<1>1. PICK at : at = <<"dataset", id, row, col>>
  OBVIOUS
<1>2. at \in Cells
  BY <1>1 DEF Cells, DatasetCells
<1>3. PICK t : t = Without(W, StoredIn(m))
  OBVIOUS
<1>4. ASSUME NEW k \in Cells PROVE StoredIn(n)[k] = IF k = at THEN x ELSE t[k]
  <2>1. CASE k \in DatasetCells(id)
    <3>1. PICK r \in Rows, c \in Columns : k = <<"dataset", id, r, c>>
      BY <2>1 DEF DatasetCells
    <3>2. View(n, id, r, c) = IF r = row /\ c = col THEN x ELSE View(m, id, r, c)
      BY CellsAreNumbered DEF OneCell
    <3>3. k = at <=> r = row /\ c = col
      BY <1>1, <3>1
    <3>4. StoredIn(n)[k] = View(n, id, r, c) /\ t[k] = View(m, id, r, c)
      BY <1>3, <3>1, CellsAfter
    <3> QED
      BY <3>2, <3>3, <3>4
  <2>2. CASE k \notin DatasetCells(id)
    <3>1. k # at
      BY <1>1, <2>2, DatasetsApart
    <3>2. StoredIn(n)[k] = t[k]
      BY <1>3, <2>2, CellsAfter
    <3> QED
      BY <3>1, <3>2
  <2> QED
    BY <2>1, <2>2
<1>5. StoredIn(n) = [c \in Cells |-> StoredIn(n)[c]] /\ t = [c \in Cells |-> t[c]]
  BY <1>3 DEF StoredIn, Without
<1>6. StoredIn(n) = [t EXCEPT ![at] = x]
  BY <1>2, <1>4, <1>5
<1> QED
  BY <1>1, <1>2, <1>3, <1>6

\* One field changes.
LEMMA OneFieldTable ==
    ASSUME NEW m, NEW n, NEW id \in FieldIds, Good(m), Good(n),
           n.datasets = m.datasets, n.packet_data = m.packet_data,
           DOMAIN n.fields = DOMAIN m.fields \cup {id},
           \A k \in DOMAIN m.fields : k # id => n.fields[k] = m.fields[k]
    PROVE  /\ <<"field", id, 0, 0>> \in Cells /\ HiddenIn(n) = HiddenIn(m)
           /\ StoredIn(n) = [StoredIn(m) EXCEPT ![<<"field", id, 0, 0>>] = Read(n.fields[id])]
<1>1. PICK at : at = <<"field", id, 0, 0>>
  OBVIOUS
<1>2. at \in Cells
  BY <1>1, KindsOfCells
<1>3. ASSUME NEW k \in Cells
      PROVE  StoredIn(n)[k] = IF k = at THEN Read(n.fields[id]) ELSE StoredIn(m)[k]
  <2>1. ASSUME NEW i \in FieldIds, k = <<"field", i, 0, 0>>
        PROVE  StoredIn(n)[k] = IF k = at THEN Read(n.fields[id]) ELSE StoredIn(m)[k]
    <3>1. /\ StoredIn(n)[k] = IF HasField(n, i) THEN ReadField(n, i) ELSE EmptyCell
          /\ StoredIn(m)[k] = IF HasField(m, i) THEN ReadField(m, i) ELSE EmptyCell
      BY <2>1, KindsOfCells
    <3>2. k = at <=> i = id
      BY <1>1, <2>1
    <3>3. CASE i = id
      BY <3>1, <3>2, <3>3 DEF HasField, ReadField
    <3>4. CASE i # id
      BY <3>1, <3>2, <3>4 DEF HasField, ReadField
    <3> QED
      BY <3>3, <3>4
  <2>2. ASSUME NEW i \in DatasetIds, NEW r \in Rows, NEW c \in Columns, k = <<"dataset", i, r, c>>
        PROVE  StoredIn(n)[k] = IF k = at THEN Read(n.fields[id]) ELSE StoredIn(m)[k]
    <3>1. k # at
      BY <1>1, <2>2
    <3>2. Held(n, i, r, c) = Held(m, i, r, c)
      BY DEF Held, HasDataset
    <3> QED
      BY <2>2, <3>1, <3>2, KindsOfCells
  <2> QED
    BY <2>1, <2>2, EachCell
<1>4. /\ StoredIn(n) = [c \in Cells |-> StoredIn(n)[c]]
      /\ StoredIn(m) = [c \in Cells |-> StoredIn(m)[c]]
  BY DEF StoredIn
<1>5. StoredIn(n) = [StoredIn(m) EXCEPT ![at] = Read(n.fields[id])]
  BY <1>2, <1>3, <1>4
<1>6. HiddenIn(n) = HiddenIn(m)
  BY DEF HiddenIn, Hidden, Kind, Packed
<1> QED
  BY <1>1, <1>2, <1>5, <1>6

-----------------------------------------------------------------------------
\* The steps

\* What IndicesStayGood says of a dataset of m when the container becomes n.
KeepsIndex(m, n, id) ==
    /\ HasDataset(n, id)
    /\ n.packet_data = m.packet_data =>
        RowCount(m, id) <= RowCount(n, id) /\ ColumnCount(m, id) <= ColumnCount(n, id)
    /\ n.packet_data # m.packet_data => n.datasets = m.datasets
    /\ n.datasets[id].case # m.datasets[id].case => Hidden(m, id)

\* What every step gives.
Step ==
    /\ IInv'
    /\ \A id \in DOMAIN container.datasets : KeepsIndex(container, container', id)

\* What a step does to the cells: one is written, one is cleared, a hidden dataset is
\* opened, the kind changes, the program ends, or nothing.
Values == Data \cup {NullCell}
NoneStored ==
    /\ StoredIn(container') = StoredIn(container) /\ HiddenIn(container') = HiddenIn(container)
    /\ process' = process
OneWritten(c, v) ==
    /\ StoredIn(container') =
         [Without(UNION Overlaid(container, c), StoredIn(container)) EXCEPT ![c] = v]
    /\ HiddenIn(container') = HiddenIn(container) \ Overlaid(container, c)
    /\ process' = process
OneOpened(D) ==
    /\ StoredIn(container') = Without(D, StoredIn(container))
    /\ HiddenIn(container') = HiddenIn(container) \ {D}
    /\ process' = process
OneErased(c) ==
    /\ c \notin UNION HiddenIn(container)
    /\ StoredIn(container') = [StoredIn(container) EXCEPT ![c] = EmptyCell]
    /\ HiddenIn(container') = HiddenIn(container)
    /\ process' = process
Ended(c) ==
    /\ c \notin UNION HiddenIn(container)
    /\ StoredIn(container') = StoredIn(container) /\ HiddenIn(container') = HiddenIn(container)
    /\ process' = "undefined"
Turned ==
    /\ HiddenIn(container') \subseteq {DatasetCells(id) : id \in DatasetIds}
    /\ HiddenIn(container') \cap HiddenIn(container) = {}
    /\ \A D \in {DatasetCells(id) : id \in DatasetIds} \ (HiddenIn(container) \cup HiddenIn(container')) :
        \A c \in D : StoredIn(container)[c] = EmptyCell
    /\ StoredIn(container') = StoredIn(container)
    /\ process' = process
Stored ==
    \/ NoneStored \/ Turned
    \/ \E D \in HiddenIn(container) : OneOpened(D)
    \/ \E c \in Cells : OneErased(c) \/ Ended(c) \/ \E v \in Values : OneWritten(c, v)

\* A call on a dataset keeps the wrapper of it.
LEMMA DatasetStep ==
    ASSUME IInv, NEW id \in DatasetIds, Effect(container, container', id), Keep(id),
           process' = process
    PROVE  Step
<1>1. PICK n, v : n = container' /\ v = writer'
  OBVIOUS
<1>2. /\ Good(n) /\ OnlyDataset(container, n, id) /\ n.datasets[id].case = Kind(container)
      /\ HasDataset(container, id) =>
           RowCount(container, id) <= RowCount(n, id) /\ ColumnCount(container, id) <= ColumnCount(n, id)
  BY <1>1 DEF Effect
<1>3. Wrappers(v, n)
  BY <1>1, <1>2, KeepKeeps DEF IInv, Keep
<1>4. ASSUME NEW k \in DOMAIN container.datasets PROVE KeepsIndex(container, n, k)
  <2>1. n.packet_data = container.packet_data
    BY <1>2 DEF OnlyDataset
  <2>2. CASE k = id
    BY <1>2, <2>1, <2>2 DEF OnlyDataset, HasDataset, KeepsIndex, Hidden
  <2>3. CASE k # id
    <3>1. /\ k \in DOMAIN n.datasets /\ n.datasets[k] = container.datasets[k]
          /\ (Packed(n) <=> Packed(container))
      BY <1>2, <2>3 DEF OnlyDataset, Packed
    <3>2. RowCount(n, k) = RowCount(container, k) /\ ColumnCount(n, k) = ColumnCount(container, k)
      BY <3>1 DEF RowCount, ColumnCount
    <3>3. RowCount(container, k) \in Nat /\ ColumnCount(container, k) \in Nat
      BY Counts DEF IInv
    <3> QED
      BY <2>1, <3>1, <3>2, <3>3 DEF HasDataset, KeepsIndex
  <2> QED
    BY <2>2, <2>3
<1> QED
  BY <1>1, <1>2, <1>3, <1>4 DEF Step, IInv

\* A call that leaves the datasets alone.
LEMMA OtherStep ==
    ASSUME IInv, Good(container'), container'.datasets = container.datasets,
           Wrappers(writer', container'), process' = process
    PROVE  Step
<1>1. PICK n : n = container'
  OBVIOUS
<1>2. ASSUME NEW k \in DOMAIN container.datasets PROVE KeepsIndex(container, n, k)
  <2>1. ASSUME n.packet_data = container.packet_data
        PROVE  /\ RowCount(container, k) <= RowCount(n, k)
               /\ ColumnCount(container, k) <= ColumnCount(n, k)
    <3>1. Packed(n) <=> Packed(container)
      BY <2>1 DEF Packed
    <3>2. RowCount(n, k) = RowCount(container, k) /\ ColumnCount(n, k) = ColumnCount(container, k)
      BY <1>1, <3>1 DEF RowCount, ColumnCount
    <3>3. RowCount(container, k) \in Nat /\ ColumnCount(container, k) \in Nat
      BY Counts DEF IInv
    <3> QED
      BY <3>2, <3>3
  <2> QED
    BY <1>1, <2>1 DEF HasDataset, KeepsIndex
<1> QED
  BY <1>1, <1>2 DEF Step, IInv

\* One field written, or none.
LEMMA FieldStored ==
    ASSUME NEW id \in FieldIds, NEW v \in Values, process' = process,
           HiddenIn(container') = HiddenIn(container), <<"field", id, 0, 0>> \in Cells,
           StoredIn(container') = [StoredIn(container) EXCEPT ![<<"field", id, 0, 0>>] = v]
    PROVE  Stored
<1>1. PICK at : at = <<"field", id, 0, 0>>
  OBVIOUS
<1>2. at \notin UNION HiddenIn(container)
  BY <1>1, HiddenCells
<1>3. /\ HiddenIn(container) \ Overlaid(container, at) = HiddenIn(container)
      /\ Without(UNION Overlaid(container, at), StoredIn(container)) = StoredIn(container)
  BY <1>2, NothingOver
<1>4. OneWritten(at, v)
  BY <1>1, <1>3 DEF OneWritten
<1> QED
  BY <1>1, <1>4 DEF Stored

LEMMA NoWrappers ==
    ASSUME NEW m, NEW open \in BOOLEAN, NEW w,
           w = [fields |-> {}, datasets |-> NoMap, open |-> open]
    PROVE  Wrappers(w, m)
<1>1. PICK none : none = NoMap
  OBVIOUS
<1>2. w = [fields |-> {}, datasets |-> none, open |-> open]
  BY <1>1
<1>3. /\ w.fields = {} /\ w.datasets = none /\ w.open = open
      /\ w = [fields |-> w.fields, datasets |-> w.datasets, open |-> w.open]
  BY ONLY <1>2
<1>4. IsMap(none, DatasetIds) /\ DOMAIN none = {}
  BY <1>1, EmptyMap
<1> QED
  BY <1>3, <1>4 DEF Wrappers

LEMMA CreateWriterSteps == IInv /\ CreateWriter => Step /\ Stored
<1> SUFFICES ASSUME IInv, CreateWriter PROVE Step /\ Stored
  OBVIOUS
<1>1. PICK packed \in {0, 1} : container' = [container EXCEPT !.packet_data = packed]
  BY DEF CreateWriter
<1>2. PICK sv, fs, ds, pd :
        container = [structure_version |-> sv, fields |-> fs, datasets |-> ds,
                     packet_data |-> pd, unknown |-> <<>>]
  BY DEF IInv, Good, IsContainer
<1>3. PICK m, n : m = container /\ n = container'
  OBVIOUS
<1>4. /\ m.structure_version = sv /\ m.fields = fs /\ m.datasets = ds /\ m.packet_data = pd
      /\ n = [structure_version |-> sv, fields |-> fs, datasets |-> ds,
              packet_data |-> packed, unknown |-> <<>>]
  BY <1>1, <1>2, <1>3
<1>5. /\ n.structure_version = sv /\ n.fields = fs /\ n.datasets = ds /\ n.packet_data = packed
      /\ n = [structure_version |-> n.structure_version, fields |-> n.fields,
              datasets |-> n.datasets, packet_data |-> n.packet_data, unknown |-> <<>>]
  BY <1>4
<1>6. Good(m) /\ pd \in {0, 1}
  BY <1>3, <1>4 DEF IInv, Good, IsContainer
<1>7. IsContainer(n)
  BY <1>4, <1>5, <1>6 DEF Good, IsContainer
<1>8. Good(n)
  BY <1>4, <1>5, <1>6, <1>7 DEF Good, Sound
<1>9. Wrappers(writer', n) /\ process' = process
  <2>1. writer' = [fields |-> {}, datasets |-> NoMap, open |-> TRUE]
    BY DEF CreateWriter, NoWriter
  <2> QED
    BY <2>1, NoWrappers DEF CreateWriter
<1>10. Step
  BY <1>3, <1>4, <1>5, <1>8, <1>9, OtherStep
<1>11. /\ StoredIn(n) = StoredIn(m)
       /\ packed = pd => HiddenIn(n) = HiddenIn(m)
  BY <1>4, <1>5, <1>6, <1>8, SameCells
<1>12. CASE packed = pd
  BY <1>3, <1>9, <1>10, <1>11, <1>12 DEF Stored, NoneStored
<1>13. CASE packed # pd
  <2>1. Kind(n) # Kind(m)
    BY <1>4, <1>5, <1>6, <1>13 DEF Kind, Packed
  <2>2. \A id : HasDataset(n, id) <=> HasDataset(m, id)
    BY <1>4, <1>5 DEF HasDataset
  <2>3. ASSUME NEW id, HasDataset(m, id) PROVE id \in DatasetIds /\ (Hidden(n, id) <=> ~Hidden(m, id))
    <3>1. id \in DatasetIds /\ m.datasets[id].case \in {"packet", "flat"}
      BY <1>6, <2>3, GoodFits DEF HasDataset, Fits, IsDataset
    <3>2. n.datasets[id] = m.datasets[id]
      BY <1>4, <1>5
    <3> QED
      BY <2>1, <3>1, <3>2 DEF Hidden, Kind
  <2>4. HiddenIn(n) \subseteq {DatasetCells(id) : id \in DatasetIds}
    BY <2>2, <2>3, HiddenCells
  <2>5. HiddenIn(n) \cap HiddenIn(m) = {}
    <3>1. ASSUME NEW D \in HiddenIn(n), D \in HiddenIn(m) PROVE FALSE
      <4>1. PICK id : D = DatasetCells(id) /\ HasDataset(n, id) /\ Hidden(n, id)
        BY HiddenCells
      <4>2. HasDataset(m, id) /\ Hidden(m, id)
        BY <3>1, <4>1, HiddenCells
      <4> QED
        BY <2>3, <4>1, <4>2
    <3> QED
      BY <3>1
  <2>6. ASSUME NEW id \in DatasetIds, DatasetCells(id) \notin HiddenIn(m) \cup HiddenIn(n),
               NEW c \in DatasetCells(id)
        PROVE  StoredIn(m)[c] = EmptyCell
    <3>1. ~HasDataset(m, id)
      BY <2>2, <2>3, <2>6, HiddenCells
    <3>2. PICK r \in Rows, k \in Columns : c = <<"dataset", id, r, k>>
      BY DEF DatasetCells
    <3>3. Held(m, id, r, k) = EmptyCell
      BY <3>1 DEF Held
    <3> QED
      BY <1>6, <3>2, <3>3, KindsOfCells
  <2>7. Turned
    BY <1>3, <1>9, <1>11, <2>4, <2>5, <2>6 DEF Turned
  <2> QED
    BY <1>10, <2>7 DEF Stored
<1> QED
  BY <1>12, <1>13

LEMMA DeleteWriterSteps == IInv /\ DeleteWriter => Step /\ Stored
<1> SUFFICES ASSUME IInv, DeleteWriter PROVE Step /\ Stored
  OBVIOUS
<1>1. container' = container /\ writer' = NoWriter
  BY DEF DeleteWriter
<1>2. writer' = [fields |-> {}, datasets |-> NoMap, open |-> FALSE]
  BY <1>1 DEF NoWriter
<1>3. Wrappers(writer', container')
  BY <1>2, NoWrappers
<1>4. Step
  BY <1>1, <1>3, OtherStep DEF IInv, DeleteWriter
<1> QED
  BY <1>1, <1>4 DEF Stored, NoneStored, DeleteWriter

LEMMA SetVersionSteps == IInv /\ SetVersion(1) => Step /\ Stored
<1> SUFFICES ASSUME IInv, SetVersion(1) PROVE Step /\ Stored
  OBVIOUS
<1>1. container' = [container EXCEPT !.structure_version = 1] /\ writer' = writer
  BY DEF SetVersion
<1>2. PICK sv, fs, ds, pd :
        container = [structure_version |-> sv, fields |-> fs, datasets |-> ds,
                     packet_data |-> pd, unknown |-> <<>>]
  BY DEF IInv, Good, IsContainer
<1>3. PICK m, n : m = container /\ n = container'
  OBVIOUS
<1>4. /\ m.fields = fs /\ m.datasets = ds /\ m.packet_data = pd
      /\ n = [structure_version |-> 1, fields |-> fs, datasets |-> ds,
              packet_data |-> pd, unknown |-> <<>>]
  BY <1>1, <1>2, <1>3
<1>5. /\ n.structure_version = 1 /\ n.fields = fs /\ n.datasets = ds /\ n.packet_data = pd
      /\ n = [structure_version |-> n.structure_version, fields |-> n.fields,
              datasets |-> n.datasets, packet_data |-> n.packet_data, unknown |-> <<>>]
  BY <1>4
<1>6. Good(m) /\ Wrappers(writer, m)
  BY <1>3 DEF IInv
<1>7. IsContainer(n)
  BY <1>4, <1>5, <1>6 DEF Good, IsContainer
<1>8. Good(n)
  BY <1>4, <1>5, <1>6, <1>7 DEF Good, Sound
<1>9. Wrappers(writer', n) /\ process' = process
  BY <1>1, <1>4, <1>5, <1>6 DEF Wrappers, HasDataset, Kind, Packed, SetVersion
<1>10. Step
  BY <1>3, <1>4, <1>5, <1>8, <1>9, OtherStep
<1>11. StoredIn(n) = StoredIn(m) /\ HiddenIn(n) = HiddenIn(m)
  BY <1>4, <1>5, <1>6, <1>8, SameCells
<1> QED
  BY <1>3, <1>9, <1>10, <1>11 DEF Stored, NoneStored

LEMMA FieldWriterSteps ==
    ASSUME IInv, NEW id \in FieldIds, FieldWriter(id)
    PROVE  Step /\ Stored
<1>1. PICK m, n, w, v : m = container /\ n = container' /\ w = writer /\ v = writer'
  OBVIOUS
<1>2. Good(m) /\ Wrappers(w, m)
  BY <1>1 DEF IInv
<1>3. v = [w EXCEPT !.fields = @ \cup {id}]
  BY <1>1 DEF FieldWriter
<1>4. PICK null : null = SetData(EmptyValue, "v_null", 1)
  OBVIOUS
<1>5. null \in Value /\ Read(null) = NullCell
  <2>1. NullCell \in Setting /\ NullCell.case = "v_null" /\ NullCell.val = 1
    BY Cases DEF NullCell, Setting
  <2> QED
    BY <1>4, <2>1, EmptyIsValue, SetAndRead
<1>6. /\ Good(n) /\ n.datasets = m.datasets /\ n.packet_data = m.packet_data
      /\ DOMAIN n.fields = DOMAIN m.fields \cup {id}
      /\ Stored
  <2> process' = process /\ NullCell \in Values
    BY DEF FieldWriter, Values
  <2>1. CASE HasField(m, id)
    BY <1>1, <1>2, <2>1 DEF FieldWriter, HasField, Stored, NoneStored
  <2>2. CASE ~HasField(m, id)
    <3>1. PICK old, new : old = m.fields /\ new = Put(old, id, null)
      OBVIOUS
    <3>2. IsMap(old, FieldIds) /\ \A k \in DOMAIN old : old[k] \in Value
      BY <1>2, <3>1 DEF Good, IsContainer
    <3>3. /\ IsMap(new, FieldIds) /\ DOMAIN new = DOMAIN old \cup {id} /\ new[id] = null
          /\ \A k \in DOMAIN old : k # id => new[k] = old[k]
      BY <3>1, <3>2 DEF Put, IsMap
    <3>4. \A k \in DOMAIN new : new[k] \in Value
      BY <1>5, <3>2, <3>3
    <3>5. n = [m EXCEPT !.fields = new]
      BY <1>1, <1>4, <2>2, <3>1, Zenon DEF FieldWriter
    <3>6. /\ Good(n) /\ n.fields = new
          /\ n.datasets = m.datasets /\ n.packet_data = m.packet_data
      BY <1>2, <3>3, <3>4, <3>5, FieldsReplaced
    <3>7. /\ <<"field", id, 0, 0>> \in Cells /\ HiddenIn(n) = HiddenIn(m)
          /\ StoredIn(n) = [StoredIn(m) EXCEPT ![<<"field", id, 0, 0>>] = Read(n.fields[id])]
      BY <1>2, <3>1, <3>3, <3>6, OneFieldTable
    <3>8. Read(n.fields[id]) = NullCell
      BY <1>5, <3>3, <3>6
    <3>9. Stored
      BY <1>1, <3>7, <3>8, FieldStored
    <3> QED
      BY <3>1, <3>3, <3>6, <3>9
  <2> QED
    BY <2>1, <2>2
<1>7. Wrappers(v, n)
  <2>1. PICK fs, ds, op : w = [fields |-> fs, datasets |-> ds, open |-> op]
    BY <1>2 DEF Wrappers
  <2>2. v = [fields |-> fs \cup {id}, datasets |-> ds, open |-> op]
    BY <1>3, <2>1
  <2>3. /\ v.fields = fs \cup {id} /\ v.datasets = ds /\ v.open = op
        /\ v = [fields |-> v.fields, datasets |-> v.datasets, open |-> v.open]
        /\ w.fields = fs /\ w.datasets = ds /\ w.open = op
    BY <2>1, <2>2
  <2>4. Kind(n) = Kind(m)
    BY <1>6 DEF Kind, Packed
  <2> QED
    BY <1>2, <1>6, <2>3, <2>4 DEF Wrappers, HasDataset
<1>8. Step
  BY <1>1, <1>2, <1>6, <1>7, OtherStep DEF FieldWriter
<1> QED
  BY <1>6, <1>8

LEMMA SetFieldSteps ==
    ASSUME IInv, NEW id \in FieldIds, NEW x \in Data, SetField(id, x)
    PROVE  Step /\ Stored
<1>1. PICK m, n, w : m = container /\ n = container' /\ w = writer
  OBVIOUS
<1>2. Good(m) /\ Wrappers(w, m) /\ x \in Setting
  BY <1>1, DataAssumption DEF IInv, Setting
<1>3. id \in DOMAIN m.fields
  BY <1>1, <1>2 DEF SetField, Wrappers
<1>4. PICK old : old = m.fields
  OBVIOUS
<1>5. IsMap(old, FieldIds) /\ id \in DOMAIN old /\ \A k \in DOMAIN old : old[k] \in Value
  BY <1>2, <1>3, <1>4 DEF Good, IsContainer
<1>6. PICK val : val = SetData(old[id], x.case, x.val)
  OBVIOUS
<1>7. val \in Value /\ Read(val) = x
  BY <1>2, <1>5, <1>6, SetAndRead
<1>8. PICK new : new = [old EXCEPT ![id] = val]
  OBVIOUS
<1>9. /\ IsMap(new, FieldIds) /\ DOMAIN new = DOMAIN old /\ new[id] = val
      /\ \A k \in DOMAIN old : k # id => new[k] = old[k]
  BY <1>5, <1>8 DEF IsMap
<1>10. n = [m EXCEPT !.fields = new]
  <2>1. container' = [container EXCEPT !.fields[id] = SetData(@, x.case, x.val)]
    BY DEF SetField
  <2>2. PICK sv, fs, ds, pd :
          m = [structure_version |-> sv, fields |-> fs, datasets |-> ds,
               packet_data |-> pd, unknown |-> <<>>]
    BY <1>2 DEF Good, IsContainer
  <2> QED
    BY <1>1, <1>4, <1>6, <1>8, <2>1, <2>2
<1>11. \A k \in DOMAIN new : new[k] \in Value
  BY <1>5, <1>7, <1>9
<1>12. /\ Good(n) /\ n.fields = new
       /\ n.datasets = m.datasets /\ n.packet_data = m.packet_data
  BY <1>2, <1>9, <1>10, <1>11, FieldsReplaced
<1>13. /\ <<"field", id, 0, 0>> \in Cells /\ HiddenIn(n) = HiddenIn(m)
       /\ StoredIn(n) = [StoredIn(m) EXCEPT ![<<"field", id, 0, 0>>] = Read(n.fields[id])]
  <2>1. DOMAIN n.fields = DOMAIN m.fields \cup {id}
    BY <1>4, <1>5, <1>9, <1>12
  <2> QED
    BY <1>2, <1>4, <1>9, <1>12, <2>1, OneFieldTable
<1>14. Read(n.fields[id]) = x
  BY <1>7, <1>9, <1>12
<1>15. Wrappers(writer', n)
  BY <1>1, <1>2, <1>4, <1>9, <1>12 DEF SetField, Wrappers, HasDataset, Kind, Packed
<1>16. process' = process
  BY DEF SetField
<1>17. Step
  BY <1>1, <1>12, <1>15, <1>16, OtherStep
<1>18. Stored
  <2>1. x \in Values
    BY DEF Values
  <2> QED
    BY <1>1, <1>13, <1>14, <1>16, <2>1, FieldStored
<1> QED
  BY <1>17, <1>18

LEMMA InitDatasetSteps ==
    ASSUME IInv, NEW id \in DatasetIds,
           NEW rows \in 0 .. MaxRows, NEW columns \in 0 .. MaxColumns,
           InitDataset(id, rows, columns)
    PROVE  Step /\ Stored
<1>1. Effect(container, container', id) /\ NoCell(container, container', id)
  BY InitDatasetDoes
<1>2. Keep(id) /\ process' = process
  BY DEF InitDataset
<1>3. Step
  BY <1>1, <1>2, DatasetStep
<1>4. PICK W : W = IF HasDataset(container, id) /\ Hidden(container, id) THEN DatasetCells(id) ELSE {}
  OBVIOUS
<1>5. /\ StoredIn(container') = Without(W, StoredIn(container))
      /\ HiddenIn(container') = HiddenIn(container) \ {DatasetCells(id)}
  BY <1>1, <1>4, NoCellTable, HiddenAfter DEF IInv
<1>6. CASE HasDataset(container, id) /\ Hidden(container, id)
  <2>1. DatasetCells(id) \in HiddenIn(container)
    BY <1>6, HiddenCells
  <2>2. OneOpened(DatasetCells(id))
    BY <1>2, <1>4, <1>5, <1>6 DEF OneOpened
  <2> QED
    BY <1>3, <2>1, <2>2 DEF Stored
<1>7. CASE ~(HasDataset(container, id) /\ Hidden(container, id))
  <2>1. DatasetCells(id) \notin HiddenIn(container)
    BY <1>7, HiddenCells
  <2>2. Without({}, StoredIn(container)) = StoredIn(container)
    BY DEF Without, StoredIn
  <2>3. NoneStored
    BY <1>2, <1>4, <1>5, <1>7, <2>1, <2>2 DEF NoneStored
  <2> QED
    BY <1>3, <2>3 DEF Stored
<1> QED
  BY <1>6, <1>7

LEMMA SetValueSteps ==
    ASSUME IInv, NEW id \in DatasetIds, NEW row \in Rows, NEW col \in Columns,
           NEW x \in Data, SetValue(id, row, col, x)
    PROVE  Step /\ Stored
<1>1. Effect(container, container', id) /\ OneCell(container, container', id, row, col, x)
  BY DataAssumption, SetValueDoes DEF Setting
<1>2. Keep(id) /\ process' = process
  BY DEF SetValue
<1>3. Step
  BY <1>1, <1>2, DatasetStep
<1>4. PICK W, at : /\ W = IF HasDataset(container, id) /\ Hidden(container, id)
                         THEN DatasetCells(id) ELSE {}
                  /\ at = <<"dataset", id, row, col>>
  OBVIOUS
<1>5. at \in Cells /\ StoredIn(container') = [Without(W, StoredIn(container)) EXCEPT ![at] = x]
  BY <1>1, <1>4, OneCellTable DEF IInv
<1>6. HiddenIn(container') = HiddenIn(container) \ {DatasetCells(id)}
  BY <1>1, HiddenAfter
<1>7. /\ HiddenIn(container) \ Overlaid(container, at) = HiddenIn(container) \ {DatasetCells(id)}
      /\ UNION Overlaid(container, at) = W
  BY <1>4, DatasetOver
<1>8. OneWritten(at, x)
  BY <1>2, <1>5, <1>6, <1>7 DEF OneWritten
<1> QED
  BY <1>3, <1>5, <1>8 DEF Stored, Values

LEMMA ClearValueSteps ==
    ASSUME IInv, NEW id \in DatasetIds, NEW row \in Rows, NEW col \in Columns,
           ClearValue(id, row, col)
    PROVE  Step /\ Stored
<1>1. PICK at : at = <<"dataset", id, row, col>>
  OBVIOUS
<1>2. ~Hidden(container, id)
  <2>1. HasDataset(container, id) /\ row < RowCount(container, id)
    BY DEF ClearValue
  <2>2. row \in Nat
    BY CellsAreNumbered
  <2>3. RowCount(container, id) # 0
    BY <2>1, <2>2
  <2> QED
    BY <2>1, <2>3, HiddenView DEF IInv
<1>3. at \notin UNION HiddenIn(container)
  BY <1>1, <1>2, HiddenCells
<1>4. CASE Packed(container)
  <2>1. /\ Effect(container, container', id) /\ Keep(id) /\ process' = process
        /\ OneCell(container, container', id, row, col, EmptyCell)
    BY <1>4, ClearValueDoes
  <2>2. Step
    BY <2>1, DatasetStep
  <2>3. /\ at \in Cells
        /\ StoredIn(container') = [Without({}, StoredIn(container)) EXCEPT ![at] = EmptyCell]
    BY <1>1, <1>2, <2>1, OneCellTable DEF IInv
  <2>4. Without({}, StoredIn(container)) = StoredIn(container)
    BY DEF Without, StoredIn
  <2>5. HiddenIn(container') = HiddenIn(container)
    <3>1. HiddenIn(container') = HiddenIn(container) \ {DatasetCells(id)}
      BY <2>1, HiddenAfter
    <3>2. DatasetCells(id) \notin HiddenIn(container)
      BY <1>2, HiddenCells
    <3> QED
      BY <3>1, <3>2
  <2>6. OneErased(at)
    BY <1>3, <2>1, <2>3, <2>4, <2>5 DEF OneErased
  <2> QED
    BY <2>2, <2>3, <2>6 DEF Stored
<1>5. CASE ~Packed(container)
  <2>1. container' = container /\ writer' = writer /\ process' = "undefined"
    BY <1>5 DEF ClearValue
  <2>2. \A k \in DOMAIN container.datasets : KeepsIndex(container, container', k)
    <3>1. ASSUME NEW k \in DOMAIN container.datasets PROVE KeepsIndex(container, container, k)
      <4>1. RowCount(container, k) \in Nat /\ ColumnCount(container, k) \in Nat
        BY Counts DEF IInv
      <4> QED
        BY <4>1 DEF KeepsIndex, HasDataset
    <3> QED
      BY <2>1, <3>1
  <2>3. Step
    BY <2>1, <2>2 DEF Step, IInv
  <2>4. at \in Cells /\ Ended(at)
    BY <1>1, <1>3, <2>1 DEF Ended, Cells, DatasetCells
  <2> QED
    BY <2>3, <2>4 DEF Stored
<1> QED
  BY <1>4, <1>5

LEMMA NextSteps == IInv /\ ConverterNext => Step /\ Stored
<1> SUFFICES ASSUME IInv, ConverterNext PROVE Step /\ Stored
  OBVIOUS
<1>1. CASE CreateWriter
  BY <1>1, CreateWriterSteps
<1>2. CASE DeleteWriter
  BY <1>2, DeleteWriterSteps
<1>3. CASE SetVersion(1)
  BY <1>3, SetVersionSteps
<1>4. ASSUME NEW id \in FieldIds, FieldWriter(id) PROVE Step /\ Stored
  BY <1>4, FieldWriterSteps
<1>5. ASSUME NEW id \in FieldIds, NEW x \in Data, SetField(id, x) PROVE Step /\ Stored
  BY <1>5, SetFieldSteps
<1>6. ASSUME NEW id \in DatasetIds, NEW rows \in 0 .. MaxRows, NEW columns \in 0 .. MaxColumns,
             InitDataset(id, rows, columns)
      PROVE  Step /\ Stored
  BY <1>6, InitDatasetSteps
<1>7. ASSUME NEW id \in DatasetIds, NEW row \in Rows, NEW col \in Columns, ClearValue(id, row, col)
      PROVE  Step /\ Stored
  BY <1>7, ClearValueSteps
<1>8. ASSUME NEW id \in DatasetIds, NEW row \in Rows, NEW col \in Columns, NEW x \in Data,
             SetValue(id, row, col, x)
      PROVE  Step /\ Stored
  BY <1>8, SetValueSteps
<1> QED
  BY <1>1, <1>2, <1>3, <1>4, <1>5, <1>6, <1>7, <1>8 DEF ConverterNext

LEMMA EmptyGood ==
    /\ Good(EmptyContainer) /\ ~Packed(EmptyContainer)
    /\ EmptyContainer.fields = NoMap /\ EmptyContainer.datasets = NoMap
<1>1. PICK m : /\ m = EmptyContainer
               /\ m = [structure_version |-> 0, fields |-> NoMap, datasets |-> NoMap,
                       packet_data |-> 0, unknown |-> <<>>]
  BY DEF EmptyContainer
<1>2. m.fields = NoMap /\ m.datasets = NoMap /\ m.structure_version = 0 /\ m.packet_data = 0
  BY <1>1
<1>3. Good(m)
  BY <1>1, <1>2, EmptyMap DEF Good, IsContainer, Sound
<1> QED
  BY <1>1, <1>2, <1>3 DEF Packed

LEMMA InitHolds ==
    ConverterInit => /\ IInv /\ process = "running"
                     /\ StoredIn(container) = [c \in Cells |-> EmptyCell]
                     /\ HiddenIn(container) = {}
<1> SUFFICES ASSUME ConverterInit
             PROVE  /\ IInv /\ process = "running"
                    /\ StoredIn(container) = [c \in Cells |-> EmptyCell]
                    /\ HiddenIn(container) = {}
  OBVIOUS
<1>1. PICK m : m = container /\ m = EmptyContainer
  BY DEF ConverterInit
<1>2. m.fields = NoMap /\ m.datasets = NoMap
  BY <1>1, EmptyGood
<1>3. Good(m)
  BY <1>1, EmptyGood
<1>4. writer = [fields |-> {}, datasets |-> NoMap, open |-> FALSE] /\ process = "running"
  BY DEF ConverterInit, NoWriter
<1>5. Wrappers(writer, m)
  BY <1>4, NoWrappers
<1>6. (\A id : ~HasField(m, id)) /\ \A id : ~HasDataset(m, id)
  BY <1>2, EmptyMap DEF HasField, HasDataset
<1>7. ASSUME NEW c \in Cells PROVE StoredIn(m)[c] = EmptyCell
  <2>1. ASSUME NEW id \in FieldIds, c = <<"field", id, 0, 0>> PROVE StoredIn(m)[c] = EmptyCell
    BY <1>6, <2>1, KindsOfCells
  <2>2. ASSUME NEW id \in DatasetIds, NEW r \in Rows, NEW k \in Columns, c = <<"dataset", id, r, k>>
        PROVE  StoredIn(m)[c] = EmptyCell
    <3>1. Held(m, id, r, k) = EmptyCell
      BY <1>6 DEF Held
    <3> QED
      BY <1>3, <2>2, <3>1, KindsOfCells
  <2> QED
    BY <2>1, <2>2, EachCell
<1>8. StoredIn(m) = [c \in Cells |-> StoredIn(m)[c]]
  BY DEF StoredIn
<1>9. HiddenIn(m) = {}
  BY <1>6, HiddenCells
<1> QED
  BY <1>1, <1>3, <1>4, <1>5, <1>7, <1>8, <1>9 DEF IInv

LEMMA Inductive == IInv /\ [ConverterNext]_converterVars => IInv'
<1>1. IInv /\ ConverterNext => IInv'
  BY NextSteps DEF Step
<1>2. IInv /\ UNCHANGED converterVars => IInv'
  BY DEF converterVars, IInv
<1> QED
  BY <1>1, <1>2

-----------------------------------------------------------------------------
\* The theorems

\* Whatever is called in whatever order, the container is one that the messages of
\* shared.proto allow, with datasets of the kind that packet_data says, and the
\* wrappers kept are of one kind or the other.
THEOREM Typing == ConverterSpec => []ConverterTypeOK
<1>1. ConverterInit => IInv
  BY InitHolds
<1>2. IInv => ConverterTypeOK
  BY WhatIInvSays
<1> QED
  BY <1>1, <1>2, Inductive, PTL DEF ConverterSpec

\* What a reader takes for granted holds of every container that the wrappers make:
\* no getter is asked for a row or a cell that is not there.
THEOREM Shape == ConverterSpec => []ShapeKept
<1>1. ConverterInit => IInv
  BY InitHolds
<1>2. IInv => ShapeKept
  BY WhatIInvSays
<1> QED
  BY <1>1, <1>2, Inductive, PTL DEF ConverterSpec

\* No call of the wrappers takes a row, a column or a dataset away, but for a writer
\* of the other kind: it hides the datasets as they are, and drops what one of them
\* holds when it opens it.
THEOREM Indices == ConverterSpec => IndicesStayGood
<1>1. ConverterInit => IInv
  BY InitHolds
<1> DEFINE Kept == \A id \in DOMAIN container.datasets :
        /\ HasDataset(container', id)
        /\ container'.packet_data = container.packet_data =>
            /\ RowCount(container, id) <= RowCount(container', id)
            /\ ColumnCount(container, id) <= ColumnCount(container', id)
        /\ container'.packet_data # container.packet_data => container'.datasets = container.datasets
        /\ container'.datasets[id].case # container.datasets[id].case => Hidden(container, id)
<1>2. IInv /\ [ConverterNext]_converterVars => [Kept]_converterVars
  BY NextSteps DEF Step, KeepsIndex
<1> QED
  BY <1>1, <1>2, Inductive, PTL DEF ConverterSpec, IndicesStayGood

\* The wrappers implement a plain table of cells: every call writes one cell, or
\* empties one, or changes no cell, as long as the kind stays.  A writer of the other
\* kind hides what is stored and empties what it opens, and clearing a cell of a flat
\* dataset ends the program; nothing else happens to the cells.
THEOREM Tabulates == ConverterSpec => TableKept
<1>1. ConverterInit => IInv /\ Written!Init
  <2>1. ASSUME ConverterInit PROVE IInv /\ Written!Init
    <3>1. /\ IInv /\ process = "running" /\ HiddenIn(container) = {}
          /\ StoredIn(container) = [c \in Cells |-> EmptyCell]
      BY <2>1, InitHolds
    <3> QED
      BY <3>1 DEF Written!Init
  <2> QED
    BY <2>1
<1> DEFINE seenVars == <<StoredIn(container), HiddenIn(container), process = "running", None, None>>
<1>2. IInv /\ [ConverterNext]_converterVars => [Written!Next]_seenVars
  <2>1. ASSUME IInv, ConverterNext PROVE [Written!Next]_seenVars
    <3>1. Stored /\ process = "running"
      BY <2>1, NextSteps DEF ConverterNext
    <3>2. CASE NoneStored
      BY <3>2 DEF NoneStored
    <3>3. CASE Turned
      BY <3>1, <3>3 DEF Turned, Written!Turn, Written!Next
    <3>4. ASSUME NEW D \in HiddenIn(container), OneOpened(D) PROVE Written!Open(D)
      BY <3>4 DEF OneOpened, Written!Open, Without, Written!Without
    <3>5. ASSUME NEW c \in Cells, OneErased(c) PROVE Written!Erase(c)
      BY <3>5 DEF OneErased, Written!Erase
    <3>6. ASSUME NEW c \in Cells, Ended(c) PROVE Written!Break(c)
      BY <3>6 DEF Ended, Written!Break
    <3>7. ASSUME NEW c \in Cells, NEW v \in Values, OneWritten(c, v) PROVE Written!Write(c)
      <4>1. PICK t : t = Without(UNION Overlaid(container, c), StoredIn(container))
        OBVIOUS
      <4>2. StoredIn(container') = [t EXCEPT ![c] = v]
        BY <3>7, <4>1 DEF OneWritten
      <4>3. StoredIn(container')[c] = v
        BY <4>1, <4>2 DEF Without
      <4> QED
        BY <3>7, <4>3 DEF OneWritten, Written!Write, Without, Written!Without, Overlaid, Values
    <3>8. ASSUME NEW D \in HiddenIn(container), OneOpened(D) PROVE Written!Next
      <4>1. D \in {DatasetCells(id) : id \in DatasetIds}
        <5>1. PICK id : D = DatasetCells(id) /\ HasDataset(container, id)
          BY HiddenCells
        <5>2. id \in DatasetIds
          BY <2>1, <5>1, GoodFits DEF IInv, HasDataset
        <5> QED
          BY <5>1, <5>2
      <4> QED
        BY <3>1, <3>4, <3>8, <4>1 DEF Written!Next
    <3> QED
      BY <3>1, <3>2, <3>3, <3>5, <3>6, <3>7, <3>8 DEF Stored, Written!Next
  <2>2. UNCHANGED converterVars => UNCHANGED seenVars
    BY DEF converterVars
  <2> QED
    BY <2>1, <2>2
<1> QED
  BY <1>1, <1>2, Inductive, PTL DEF ConverterSpec, TableKept, Written!Spec, Written!vars

=============================================================================
