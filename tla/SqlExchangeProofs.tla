-------------------------- MODULE SqlExchangeProofs --------------------------
(***************************************************************************)
(* Theorems of SqlExchange: for tables of every size, the reply that the   *)
(* SQL handler leaves tells what the database did (OutcomeTold), the client*)
(* that reads it sees the same (OutcomeSeen), and every container is safe  *)
(* to read at every moment (ContainerSound).                               *)
(*                                                                         *)
(* The argument follows the handler.  Until the answer container, writer   *)
(* and reply are untouched; while the two loops run, the dataset has the   *)
(* size of the table and every cell before the one that is next, row by    *)
(* row, has its string (Copied); when the loops end no cell is left.  What *)
(* a call of the wrappers does to the cells is in DataConverterProofs.     *)
(*                                                                         *)
(* On the wire: a parser that makes X[i] of X[i - 1] by the i-th field, or *)
(* fails, ends in X[n] or fails (the lemmas named Turns).  So what is      *)
(* written of a value, a row, a flat dataset, an entry of the map, the     *)
(* container and the reply reads back as it was or not at all (the lemmas  *)
(* named Read), in whatever order the maps are iterated.                   *)
(***************************************************************************)
EXTENDS SqlExchange, DataConverterProofs, SqlBinderProofs

\* The result of a query that returned rows.
IsTable(t, columns) ==
    /\ columns \in 0 .. MaxColumns
    /\ t \in Seq(Seq(Nat \cup {None})) /\ Len(t) <= MaxRows
    /\ \A i \in DOMAIN t : Len(t[i]) = columns

IsResult ==
    /\ query.type \in {Error, Command, Select}
    /\ query.type = Select => IsTable(query.table, query.columns)

Untouched ==
    /\ container = EmptyContainer /\ writer = NoWriter /\ process = "running"
    /\ reply = NewSqlReply /\ filled = 0

\* What a reader is to find in a cell of the table, counted from 0.
CellText(r, c) == [case |-> "v_string", val |-> TextOf(query.table[r + 1][c + 1])]

Copied ==
    \A r \in 0 .. Len(query.table) - 1, c \in 0 .. query.columns - 1 :
        r * query.columns + c < filled => View(container, DatasetId, r, c) = CellText(r, c)

Filling ==
    /\ query.type = Select /\ IsTable(query.table, query.columns)
    /\ IInv /\ ~Packed(container) /\ HasDataset(container, DatasetId)
    /\ RowCount(container, DatasetId) = Len(query.table)
    /\ ColumnCount(container, DatasetId) = query.columns
    /\ filled \in Nat /\ Copied
    /\ reply = [NewSqlReply EXCEPT !.result_type = Select]

XInv ==
    /\ phase \in {"client", "calling"} => query = NoQuery /\ Untouched
    /\ phase \in {"library", "message"} => query = NoQuery
    /\ phase = "executed" => IsResult /\ Untouched
    /\ phase = "filling" => Filling
    /\ ReplyTellsOutcome

-----------------------------------------------------------------------------
\* Numbers

\* Cells are visited row by row: a cell of an earlier row comes first.
LEMMA EarlierRow ==
    ASSUME NEW n \in Nat, NEW r \in Nat, NEW s \in Nat, r < s
    PROVE  r * n + n <= s * n
<1>1. PICK k \in Nat : s = r + 1 + k
  <2>1. s - r - 1 \in Nat /\ s = r + 1 + (s - r - 1)
    OBVIOUS
  <2> QED
    BY <2>1
<1>2. s * n = r * n + n + k * n
  BY <1>1
<1>3. k * n \in Nat /\ r * n \in Nat
  OBVIOUS
<1> QED
  BY <1>2, <1>3

LEMMA Division ==
    ASSUME NEW k \in Nat, NEW n \in Nat, n > 0
    PROVE  /\ k \div n \in Nat /\ k % n \in 0 .. n - 1
           /\ k = n * (k \div n) + (k % n)
<1>1. k \div n \in Nat /\ k % n \in 0 .. n - 1
  OBVIOUS
<1>2. k = n * (k \div n) + (k % n)
  OBVIOUS
<1> QED
  BY <1>1, <1>2

LEMMA Position ==
    ASSUME NEW n \in Nat, NEW rows \in Nat, NEW k \in Nat, k < rows * n
    PROVE  /\ n > 0
           /\ k \div n \in 0 .. rows - 1 /\ k % n \in 0 .. n - 1
           /\ k = (k \div n) * n + (k % n)
<1>1. n > 0
  <2>1. CASE n = 0
    BY <2>1
  <2> QED
    BY <2>1
<1>2. /\ k \div n \in Nat /\ k % n \in 0 .. n - 1
      /\ k = n * (k \div n) + (k % n)
  BY <1>1, Division
<1>3. PICK q, m : q = k \div n /\ m = k % n
  OBVIOUS
<1>4. q \in Nat /\ m \in Nat /\ m < n /\ k = q * n + m
  BY <1>2, <1>3
<1>5. q < rows
  <2>1. SUFFICES ASSUME q >= rows PROVE FALSE
    BY <1>4
  <2>2. rows * n <= q * n
    <3>1. CASE q = rows
      BY <1>4, <3>1
    <3>2. CASE rows < q
      <4>1. rows * n + n <= q * n
        BY <1>4, <3>2, EarlierRow
      <4>2. rows * n \in Nat /\ q * n \in Nat
        BY <1>4
      <4> QED
        BY <4>1, <4>2
    <3> QED
      BY <1>4, <2>1, <3>1, <3>2
  <2>3. rows * n \in Nat /\ q * n \in Nat
    BY <1>4
  <2> QED
    BY <1>4, <2>2, <2>3
<1> QED
  BY <1>1, <1>2, <1>3, <1>4, <1>5

\* The cell that is next is the only one that comes in with it.
LEMMA NextCell ==
    ASSUME NEW n \in Nat, NEW row \in Nat, NEW col \in 0 .. n - 1,
           NEW r \in Nat, NEW c \in 0 .. n - 1
    PROVE  r * n + c < row * n + col + 1 <=>
             r * n + c < row * n + col \/ (r = row /\ c = col)
<1>1. r * n \in Nat /\ row * n \in Nat /\ c \in Nat /\ col \in Nat
  OBVIOUS
<1>2. CASE r = row
  BY <1>1, <1>2
<1>3. CASE r < row
  <2>1. r * n + n <= row * n
    BY <1>3, EarlierRow
  <2> QED
    BY <1>1, <1>3, <2>1
<1>4. CASE row < r
  <2>1. row * n + n <= r * n
    BY <1>4, EarlierRow
  <2> QED
    BY <1>1, <1>4, <2>1
<1> QED
  BY <1>2, <1>3, <1>4

-----------------------------------------------------------------------------
\* The handler

LEMMA DatasetIdIs == DatasetId \in DatasetIds
BY DatasetAssumption

LEMMA TypedReply ==
    ASSUME NEW t
    PROVE  [NewSqlReply EXCEPT !.result_type = t] =
             [error_code |-> 0, error_text |-> 0, result_type |-> t, data |-> <<>>,
              unknown |-> <<>>]
BY DEF NewSqlReply

LEMMA TypesDiffer == Error # Select /\ Command # Select /\ Error # Command
BY DEF Error, Select, Command

LEMMA BeforeAnswer == ASSUME XInv, Answer PROVE IsResult /\ Untouched
<1>1. phase = "executed"
  BY TypesDiffer, Zenon DEF Answer
<1> QED
  BY <1>1 DEF XInv

LEMMA AnswerError ==
    ASSUME XInv, Answer, query.type = Error
    PROVE  XInv'
<1>1. IsResult /\ Untouched
  BY BeforeAnswer
<1>2. /\ phase' = "replying" /\ query' = query
      /\ \E t \in Texts : reply' = [reply EXCEPT !.result_type = query.type,
                                                 !.error_text = t, !.error_code = 1]
  BY TypesDiffer, Zenon DEF Answer
<1>3. PICK t \in Texts : reply' = [reply EXCEPT !.result_type = query.type,
                                                !.error_text = t, !.error_code = 1]
  BY <1>2, Zenon
<1>4. PICK type : type = query.type
  OBVIOUS
<1>5. PICK a : a = [NewSqlReply EXCEPT !.result_type = type]
  OBVIOUS
<1>6. a = [error_code |-> 0, error_text |-> 0, result_type |-> type, data |-> <<>>,
           unknown |-> <<>>]
  BY <1>5, TypedReply
<1>7. PICK b : b = [a EXCEPT !.error_text = t]
  OBVIOUS
<1>8. b = [error_code |-> 0, error_text |-> t, result_type |-> type, data |-> <<>>,
           unknown |-> <<>>]
  BY <1>6, <1>7
<1>9. [b EXCEPT !.error_code = 1] =
        [error_code |-> 1, error_text |-> t, result_type |-> type, data |-> <<>>,
         unknown |-> <<>>]
  BY <1>8
<1>10. reply' = [b EXCEPT !.error_code = 1]
  BY <1>1, <1>3, <1>4, <1>5, <1>7, Zenon DEF Untouched
<1>11. PICK r : /\ r = reply'
                /\ r.result_type = type /\ r.error_code = 1 /\ r.error_text = t
                /\ r.data = <<>>
  BY <1>9, <1>10
<1>12. ReplyTellsOutcome'
  BY <1>2, <1>4, <1>11, TypesDiffer DEF ReplyTellsOutcome, ShowsOutcome, SqlReplyData
<1> QED
  BY <1>2, <1>12 DEF XInv

LEMMA AnswerCommand ==
    ASSUME XInv, Answer, query.type = Command
    PROVE  XInv'
<1>1. IsResult /\ Untouched
  BY BeforeAnswer
<1>2. /\ phase' = "replying" /\ query' = query
      /\ reply' = [reply EXCEPT !.result_type = query.type]
  BY TypesDiffer, Zenon DEF Answer
<1>3. PICK type : type = query.type
  OBVIOUS
<1>4. PICK r : /\ r = reply'
               /\ r.result_type = type /\ r.error_code = 0 /\ r.error_text = 0
               /\ r.data = <<>>
  <2>1. PICK a : a = [NewSqlReply EXCEPT !.result_type = type]
    OBVIOUS
  <2>2. a = [error_code |-> 0, error_text |-> 0, result_type |-> type, data |-> <<>>,
             unknown |-> <<>>]
    BY <2>1, TypedReply
  <2>3. reply' = a
    BY <1>1, <1>2, <1>3, <2>1 DEF Untouched
  <2> QED
    BY <2>2, <2>3
<1>5. ReplyTellsOutcome'
  BY <1>2, <1>3, <1>4, TypesDiffer DEF ReplyTellsOutcome, ShowsOutcome, SqlReplyData
<1> QED
  BY <1>2, <1>5 DEF XInv

LEMMA AnswerSelect ==
    ASSUME XInv, Answer, query.type = Select
    PROVE  XInv'
<1>1. IsResult /\ Untouched
  BY BeforeAnswer
<1>2. /\ phase' = "filling" /\ query' = query /\ filled' = filled
      /\ reply' = [reply EXCEPT !.result_type = query.type]
      /\ container' = OpenDataset(container, DatasetId, Len(query.table), query.columns)
      /\ writer' = [NoWriter EXCEPT !.open = TRUE, !.datasets = Put(@, DatasetId, "flat")]
  BY TypesDiffer, Zenon DEF Answer
<1>3. PICK t, columns : /\ t = query.table /\ columns = query.columns
                        /\ IsTable(t, columns)
  BY <1>1 DEF IsResult
<1>4. PICK rows : rows = Len(t)
  OBVIOUS
<1>5. rows \in 0 .. MaxRows /\ columns \in 0 .. MaxColumns /\ rows \in Nat /\ columns \in Nat
  BY <1>3, <1>4, BoundsAssumption DEF IsTable
<1>6. PICK m, n : m = EmptyContainer /\ n = OpenDataset(m, DatasetId, rows, columns)
  OBVIOUS
<1>7. Good(m) /\ ~Packed(m) /\ ~HasDataset(m, DatasetId)
  BY <1>6, EmptyGood, EmptyMap DEF HasDataset
<1>8. /\ Good(n) /\ OnlyDataset(m, n, DatasetId)
      /\ n.datasets[DatasetId] = Fresh(m, rows, columns)
      /\ n.datasets[DatasetId].case = Kind(m)
  BY <1>5, <1>6, <1>7, DatasetIdIs, OpenKeeps
<1>9. PICK f : /\ f = n.datasets[DatasetId].flat /\ f = NewFlat(rows, columns)
  BY <1>5, <1>7, <1>8, FreshFits
<1>10. Len(f.rows) = rows /\ f.column_count = columns
  BY <1>5, <1>9, NewFlatSound
<1>11. ~Packed(n) /\ HasDataset(n, DatasetId)
  BY <1>7, <1>8 DEF OnlyDataset, Packed, HasDataset
<1>12. RowCount(n, DatasetId) = rows /\ ColumnCount(n, DatasetId) = columns
  BY <1>9, <1>10, <1>11 DEF RowCount, ColumnCount
<1>13. n = container'
  BY <1>1, <1>2, <1>3, <1>4, <1>6 DEF Untouched
<1>14. Wrappers(writer', n)
  <2>1. PICK w : w = [NoWriter EXCEPT !.open = TRUE]
    OBVIOUS
  <2>2. w = [fields |-> {}, datasets |-> NoMap, open |-> TRUE]
    BY <2>1 DEF NoWriter
  <2>3. Wrappers(w, m)
    BY <2>2, NoWrappers
  <2>4. writer' = [w EXCEPT !.datasets = Put(@, DatasetId, "flat")]
    BY <1>2, <2>1, Zenon
  <2>5. Kind(m) = "flat"
    BY <1>7 DEF Kind
  <2> QED
    BY <1>7, <1>8, <2>3, <2>4, <2>5, DatasetIdIs, KeepKeeps
<1>15. IInv'
  <2>1. process' = "running"
    BY <1>1, TypesDiffer, Zenon DEF Answer, Untouched
  <2> QED
    BY <1>8, <1>13, <1>14, <2>1 DEF IInv
<1>16. PICK k : k = filled' /\ k = 0
  BY <1>1, <1>2 DEF Untouched
<1>17. Copied'
  <2>1. ASSUME NEW r \in 0 .. rows - 1, NEW c \in 0 .. columns - 1
        PROVE  ~(r * columns + c < k)
    <3>1. r * columns \in Nat /\ c \in Nat
      BY <1>5
    <3> QED
      BY <1>16, <3>1
  <2> QED
    BY <1>2, <1>3, <1>4, <1>16, <2>1 DEF Copied
<1>18. Filling'
  <2>1. reply' = [NewSqlReply EXCEPT !.result_type = Select]
    BY <1>1, <1>2 DEF Untouched
  <2> QED
    <3>1. (query.type = Select)' /\ IsTable(query.table, query.columns)'
      BY <1>2, <1>3
    <3>2. /\ (~Packed(container))' /\ HasDataset(container, DatasetId)'
          /\ (RowCount(container, DatasetId) = Len(query.table))'
          /\ (ColumnCount(container, DatasetId) = query.columns)'
      BY <1>2, <1>3, <1>4, <1>11, <1>12, <1>13
    <3> QED
      BY <1>15, <1>16, <1>17, <2>1, <3>1, <3>2 DEF Filling
<1>19. ReplyTellsOutcome'
  BY <1>2 DEF ReplyTellsOutcome
<1> QED
  BY <1>2, <1>18, <1>19 DEF XInv

LEMMA CopyCellStep == ASSUME XInv, CopyCell PROVE XInv'
<1>1. Filling
  BY DEF XInv, CopyCell
<1>2. PICK t, n, k : t = query.table /\ n = query.columns /\ k = filled
  OBVIOUS
<1>3. IsTable(t, n) /\ k \in Nat
  BY <1>1, <1>2 DEF Filling
<1>4. PICK rows : rows = Len(t)
  OBVIOUS
<1>5. rows \in 0 .. MaxRows /\ n \in 0 .. MaxColumns /\ rows \in Nat /\ n \in Nat
  BY <1>3, <1>4, BoundsAssumption DEF IsTable
<1>6. k < rows * n
  BY <1>2, <1>4 DEF CopyCell
<1>7. PICK row, col : row = k \div n /\ col = k % n
  OBVIOUS
<1>8. row \in 0 .. rows - 1 /\ col \in 0 .. n - 1 /\ k = row * n + col
  BY <1>3, <1>5, <1>6, <1>7, Position
<1>9. PICK x : x = [case |-> "v_string", val |-> TextOf(t[row + 1][col + 1])]
  OBVIOUS
<1>10. SetValue(DatasetId, row, col, x)
  BY <1>2, <1>7, <1>9 DEF CopyCell
<1>11. x \in Setting
  <2>1. row + 1 \in 1 .. Len(t) /\ col + 1 \in 1 .. n
    BY <1>4, <1>5, <1>8
  <2>2. t[row + 1] \in Seq(Nat \cup {None}) /\ Len(t[row + 1]) = n
    BY <1>3, <2>1 DEF IsTable
  <2>3. t[row + 1][col + 1] \in Nat \cup {None}
    BY <2>1, <2>2
  <2>4. TextOf(t[row + 1][col + 1]) \in Nat
    BY <2>3 DEF TextOf
  <2> QED
    BY <1>9, <2>4, Cases DEF Setting
<1>12. row \in Rows /\ col \in Columns /\ row \in Nat /\ col \in Nat
  BY <1>5, <1>8, BoundsAssumption DEF Rows, Columns
<1>13. IInv /\ ~Packed(container) /\ HasDataset(container, DatasetId)
  BY <1>1 DEF Filling
<1>14. /\ Effect(container, container', DatasetId)
       /\ OneCell(container, container', DatasetId, row, col, x)
       /\ SameSize(container, container', DatasetId)
  BY <1>10, <1>11, <1>12, <1>13, DatasetIdIs, SetValueDoes
<1>15. Step
  <2>1. Keep(DatasetId) /\ process' = process
    BY <1>10 DEF SetValue
  <2> QED
    BY <1>13, <1>14, <2>1, DatasetIdIs, DatasetStep
<1>16. PICK m : m = container'
  OBVIOUS
<1>17. ~Packed(m) /\ HasDataset(m, DatasetId)
  BY <1>13, <1>14, <1>16 DEF Effect, OnlyDataset, Packed
<1>18. RowCount(m, DatasetId) = rows /\ ColumnCount(m, DatasetId) = n
  BY <1>1, <1>2, <1>4, <1>14, <1>16 DEF Filling, SameSize
<1>19. /\ query' = query /\ reply' = reply /\ phase' = "filling" /\ phase = "filling"
       /\ filled' = k + 1
  BY <1>2 DEF CopyCell
<1>20. ASSUME NEW r \in 0 .. rows - 1, NEW c \in 0 .. n - 1, r * n + c < k + 1
       PROVE  View(m, DatasetId, r, c) = [case |-> "v_string", val |-> TextOf(t[r + 1][c + 1])]
  <2>1. r \in Nat /\ c \in Nat
    BY <1>5
  <2>2. View(m, DatasetId, r, c) =
          IF r = row /\ c = col THEN x ELSE View(container, DatasetId, r, c)
    BY <1>14, <1>16, <2>1 DEF OneCell
  <2>3. CASE r = row /\ c = col
    BY <1>9, <2>2, <2>3
  <2>4. CASE ~(r = row /\ c = col)
    <3>1. r * n + c < k
      BY <1>5, <1>8, <1>12, <1>20, <2>1, <2>4, NextCell
    <3>2. Copied
      BY <1>1 DEF Filling
    <3> QED
      BY <1>2, <1>4, <2>2, <2>4, <3>1, <3>2 DEF Copied, CellText
  <2> QED
    BY <2>3, <2>4
<1>21. Copied'
  BY <1>2, <1>4, <1>16, <1>19, <1>20 DEF Copied, CellText
<1>22. Filling'
  <2>1. IInv'
    BY <1>15 DEF Step
  <2>2. k + 1 \in Nat
    BY <1>3
  <2> QED
    BY <1>1, <1>2, <1>3, <1>4, <1>16, <1>17, <1>18, <1>19, <1>21, <2>1, <2>2 DEF Filling
<1>23. ReplyTellsOutcome'
  BY <1>19 DEF ReplyTellsOutcome
<1> QED
  BY <1>19, <1>22, <1>23 DEF XInv

LEMMA AttachDataStep == ASSUME XInv, AttachData PROVE XInv'
<1>1. Filling
  BY DEF XInv, AttachData
<1>2. PICK t, n, k : t = query.table /\ n = query.columns /\ k = filled
  OBVIOUS
<1>3. IsTable(t, n) /\ query.type = Select
  BY <1>1, <1>2 DEF Filling
<1>4. PICK rows : rows = Len(t)
  OBVIOUS
<1>5. rows \in Nat /\ n \in Nat
  BY <1>3, <1>4, BoundsAssumption DEF IsTable
<1>6. k = rows * n /\ query' = query /\ phase' = "replying"
  BY <1>2, <1>4 DEF AttachData
<1>7. PICK m : m = container
  OBVIOUS
<1>8. /\ Good(m) /\ HasDataset(m, DatasetId)
      /\ RowCount(m, DatasetId) = rows /\ ColumnCount(m, DatasetId) = n
  BY <1>1, <1>2, <1>4, <1>7 DEF Filling, IInv
<1>9. PICK r : r = reply'
  OBVIOUS
<1>10. r = [error_code |-> 0, error_text |-> 0, result_type |-> Select, data |-> <<m>>,
            unknown |-> <<>>]
  <2>1. PICK b : /\ b = reply
                 /\ b = [error_code |-> 0, error_text |-> 0, result_type |-> Select,
                         data |-> <<>>, unknown |-> <<>>]
    BY <1>1, TypedReply DEF Filling
  <2>2. r = [b EXCEPT !.data = <<m>>]
    BY <1>7, <1>9, <2>1 DEF AttachData, SetAllocatedData
  <2> QED
    BY <2>1, <2>2
<1>11. /\ r.result_type = Select /\ r.error_code = 0 /\ r.error_text = 0
       /\ r.data = <<m>>
  BY <1>10
<1>12. SqlReplyData(r) = m
  BY <1>11 DEF SqlReplyData
<1>13. ASSUME NEW i \in 1 .. rows, NEW j \in 1 .. n
       PROVE  ReadCell(m, DatasetId, i - 1, j - 1) = [case |-> "v_string", val |-> TextOf(t[i][j])]
  <2>1. PICK a, c : a = i - 1 /\ c = j - 1
    OBVIOUS
  <2>2. /\ a \in 0 .. rows - 1 /\ c \in 0 .. n - 1 /\ a \in Nat /\ c \in Nat
        /\ i = a + 1 /\ j = c + 1
    BY <1>5, <2>1
  <2>3. a * n + c < k
    <3>1. a * n + n <= rows * n
      BY <1>5, <2>2, EarlierRow
    <3>2. a * n \in Nat /\ rows * n \in Nat
      BY <1>5, <2>2
    <3> QED
      BY <1>5, <1>6, <2>2, <3>1, <3>2
  <2>4. View(m, DatasetId, a, c) = [case |-> "v_string", val |-> TextOf(t[i][j])]
    <3>1. Copied
      BY <1>1 DEF Filling
    <3> QED
      BY <1>2, <1>4, <1>7, <2>2, <2>3, <3>1 DEF Copied, CellText
  <2>5. ReadCell(m, DatasetId, a, c) = View(m, DatasetId, a, c)
    BY <1>8, <2>2, ReadIsView
  <2> QED
    BY <2>1, <2>4, <2>5
<1>14. ReplyTellsOutcome'
  BY <1>2, <1>3, <1>4, <1>6, <1>8, <1>9, <1>11, <1>12, <1>13, TypesDiffer
     DEF ReplyTellsOutcome, ShowsOutcome
<1> QED
  BY <1>6, <1>14 DEF XInv

-----------------------------------------------------------------------------
\* All steps

LEMMA DoExecStep == ASSUME XInv, DoExec PROVE XInv'
<1>1. Untouched /\ phase' = "executed" /\ Untouched'
  BY DEF XInv, DoExec, Untouched, converterVars
<1>2. IsResult'
  <2>1. PICK type \in {Error, Command, Select} :
          query' \in {[type |-> type, table |-> t.rows, columns |-> t.columns, connected |-> TRUE] :
                        t \in IF type = Select THEN Tables ELSE {[rows |-> <<>>, columns |-> 0]}}
    BY DEF DoExec
  <2>2. PICK t \in IF type = Select THEN Tables ELSE {[rows |-> <<>>, columns |-> 0]} :
          query' = [type |-> type, table |-> t.rows, columns |-> t.columns, connected |-> TRUE]
    BY <2>1
  <2>3. PICK q : q = query' /\ q.type = type /\ q.table = t.rows /\ q.columns = t.columns
    BY <2>2
  <2>4. type = Select => IsTable(t.rows, t.columns)
    BY TablesAssumption DEF IsTable
  <2> QED
    BY <2>3, <2>4 DEF IsResult
<1>3. ReplyTellsOutcome'
  BY <1>1 DEF ReplyTellsOutcome
<1> QED
  BY <1>1, <1>2, <1>3 DEF XInv

LEMMA Disconnected == ~NoQuery.connected
BY DEF NoQuery

LEMMA OtherSteps ==
    ASSUME XInv, \/ UseBinder \/ ExecRequest \/ RefuseRequest \/ Abort
                 \/ UseWrappers \/ AttachContainer \/ SendReply \/ ReceiveReply
    PROVE  XInv'
<1>1. CASE UseBinder
  <2>1. phase = "client" /\ query = NoQuery /\ Untouched
    BY <1>1 DEF UseBinder, XInv
  <2>2. phase' = phase /\ query' = query /\ Untouched'
    BY <1>1, <2>1 DEF UseBinder, converterVars, exchangeVars, Untouched
  <2> QED
    BY <2>1, <2>2 DEF XInv, ReplyTellsOutcome
<1>2. CASE ExecRequest
  <2>1. phase = "client" /\ query = NoQuery /\ Untouched
    BY <1>2 DEF ExecRequest, XInv
  <2>2. phase' = "calling" /\ query' = query /\ Untouched'
    BY <1>2, <2>1 DEF ExecRequest, converterVars, Untouched
  <2> QED
    BY <2>1, <2>2 DEF XInv, ReplyTellsOutcome
<1>3. CASE RefuseRequest
  <2>1. query = NoQuery /\ phase' = "done" /\ query' = query
    BY <1>3 DEF RefuseRequest, XInv
  <2> QED
    BY <2>1, Disconnected DEF XInv, ReplyTellsOutcome
<1>4. CASE Abort
  BY <1>4 DEF Abort, XInv, ReplyTellsOutcome
<1>5. CASE UseWrappers
  <2>1. phase' = "library" /\ query' = query /\ query = NoQuery
    BY <1>5 DEF UseWrappers, exchangeVars, XInv
  <2> QED
    BY <2>1 DEF XInv, ReplyTellsOutcome
<1>6. CASE AttachContainer
  <2>1. query = NoQuery /\ phase' = "replying" /\ query' = query
    BY <1>6 DEF AttachContainer, XInv
  <2> QED
    BY <2>1, Disconnected DEF XInv, ReplyTellsOutcome
<1>7. CASE SendReply \/ ReceiveReply
  <2>1. /\ phase \in {"replying", "sent"} /\ phase' \in {"sent", "done"}
        /\ query' = query /\ reply' = reply
    BY <1>7 DEF SendReply, ReceiveReply
  <2>2. ReplyTellsOutcome'
    BY <2>1 DEF XInv, ReplyTellsOutcome, ShowsOutcome
  <2> QED
    BY <2>1, <2>2 DEF XInv
<1> QED
  BY <1>1, <1>2, <1>3, <1>4, <1>5, <1>6, <1>7

LEMMA XInductive == XInv /\ [Next]_vars => XInv'
<1>1. ASSUME XInv, Next PROVE XInv'
  <2>1. CASE Answer
    <3>1. query.type \in {Error, Command, Select}
      BY <1>1, <2>1, BeforeAnswer DEF IsResult
    <3> QED
      BY <1>1, <2>1, <3>1, AnswerError, AnswerCommand, AnswerSelect
  <2>2. CASE CopyCell
    BY <1>1, <2>2, CopyCellStep
  <2>3. CASE AttachData
    BY <1>1, <2>3, AttachDataStep
  <2>4. CASE DoExec
    BY <1>1, <2>4, DoExecStep
  <2> QED
    BY <1>1, <2>1, <2>2, <2>3, <2>4, OtherSteps DEF Next
<1>2. ASSUME XInv, UNCHANGED vars PROVE XInv'
  <2>1. UNCHANGED <<container, writer, process, phase, query, filled, reply>>
    BY <1>2 DEF vars, converterVars, exchangeVars
  <2>2. Untouched => Untouched'
    BY <2>1 DEF Untouched
  <2>3. IsResult => IsResult'
    BY <2>1 DEF IsResult
  <2>4. Filling => Filling'
    BY <2>1 DEF Filling, Copied, CellText, IInv
  <2>5. ReplyTellsOutcome => ReplyTellsOutcome'
    BY <2>1 DEF ReplyTellsOutcome, ShowsOutcome
  <2> QED
    BY <1>2, <2>1, <2>2, <2>3, <2>4, <2>5 DEF XInv
<1> QED
  BY <1>1, <1>2

\* For every table, with or without rows and columns: whichever way the handler went,
\* the reply has the type of the result, an error only with its text and code, and
\* data exactly when rows were asked for, each cell in its place.
THEOREM OutcomeTold == Spec => []ReplyTellsOutcome
<1>1. Init => XInv
  BY Disconnected DEF Init, ConverterInit, XInv, Untouched, ReplyTellsOutcome
<1>2. XInv => ReplyTellsOutcome
  BY DEF XInv
<1> QED
  BY <1>1, <1>2, XInductive, PTL DEF Spec

\* No step of the handler or of any other user leaves a container unsound.
LEMMA SoundStep == XInv /\ IInv /\ [Next]_vars => IInv'
<1> SUFFICES ASSUME XInv, IInv, [Next]_vars PROVE IInv'
  OBVIOUS
<1>1. CASE UNCHANGED converterVars
  BY <1>1 DEF converterVars, IInv
<1>2. CASE phase' = "filling"
  BY <1>2, XInductive DEF XInv, Filling
<1>3. ASSUME Answer, phase' # "filling" PROVE UNCHANGED converterVars
  BY <1>3, Zenon DEF Answer
<1>4. ASSUME CopyCell PROVE phase' = "filling"
  BY <1>4 DEF CopyCell
<1>5. CASE AttachData
  <2>1. container' = container /\ writer' = [fields |-> {}, datasets |-> NoMap, open |-> FALSE]
    BY <1>5 DEF AttachData, NoWriter
  <2>2. Wrappers(writer', container')
    BY <2>1, NoWrappers
  <2>3. process' = process
    BY <1>5 DEF AttachData
  <2> QED
    BY <2>1, <2>2, <2>3 DEF IInv
<1>6. CASE UseWrappers
  BY <1>6, Inductive DEF UseWrappers
<1>7. ASSUME \/ UseBinder \/ ExecRequest
             \/ RefuseRequest \/ Abort \/ DoExec
             \/ AttachContainer \/ SendReply \/ ReceiveReply
             \/ UNCHANGED vars
      PROVE  UNCHANGED converterVars
  BY <1>7 DEF UseBinder, ExecRequest, RefuseRequest, Abort, DoExec, AttachContainer, SendReply,
              ReceiveReply, vars
<1> QED
  BY <1>1, <1>2, <1>3, <1>4, <1>5, <1>6, <1>7 DEF Next

\* In a request, too, the container is safe to read at every moment, in the handler
\* and in whatever else fills one, whatever the table.
THEOREM ContainerSound == Spec => []ShapeKept
<1>1. Init => XInv /\ IInv
  BY InitHolds, Disconnected DEF Init, ConverterInit, XInv, Untouched, ReplyTellsOutcome
<1>2. XInv /\ IInv /\ [Next]_vars => XInv' /\ IInv'
  BY XInductive, SoundStep
<1>3. IInv => ShapeKept
  BY WhatIInvSays
<1> QED
  BY <1>1, <1>2, <1>3, PTL DEF Spec

-----------------------------------------------------------------------------
\* The Binder of the client

LEMMA BinderKept == BInv /\ [Next]_vars => BInv'
<1> SUFFICES ASSUME BInv, [Next]_vars PROVE BInv'
  OBVIOUS
<1>1. CASE UseBinder
  BY <1>1, BinderSteps DEF UseBinder
<1>2. CASE ExecRequest
  BY <1>2, BinderStarts DEF ExecRequest
<1>3. ASSUME \/ RefuseRequest \/ Abort \/ DoExec \/ Answer \/ CopyCell \/ AttachData
             \/ UseWrappers \/ AttachContainer \/ SendReply \/ ReceiveReply
             \/ UNCHANGED vars
      PROVE  UNCHANGED binderVars
  BY <1>3 DEF RefuseRequest, Abort, DoExec, Answer, CopyCell, AttachData, UseWrappers,
              AttachContainer, SendReply, ReceiveReply, vars
<1> QED
  BY <1>1, <1>2, <1>3, BinderStays DEF Next

LEMMA BinderInvariant == Spec => []BInv
<1>1. Init => BInv
  BY BinderStarts DEF Init
<1> QED
  BY <1>1, BinderKept, PTL DEF Spec

\* No character of a statement is lost, doubled or moved by the parser and the maker
\* of the text, whatever the statement and however long.
THEOREM StatementKept == Spec => []NothingLost
BY BinderInvariant, NothingGetsLost, PTL

\* On every plain statement parsedVariables() names exactly its variables, in order,
\* and the statement is accepted unless it has a lone colon.
THEOREM VariablesFound == Spec => []ParserFindsVariables
BY BinderInvariant, ParserIsRight, PTL

\* What sql() returns is what a plain statement means with the values bound, after
\* every sequence of the Binder's calls, for statements, names and values of any length.
THEOREM SqlMeant == Spec => []SqlIsMeaning
BY BinderInvariant, SqlIsRight, PTL

-----------------------------------------------------------------------------
\* Types

\* What the types of the exchange rest on: the table has a size, nothing is copied
\* before the handler answers, and the reply is new until then.
QueryTyped(q) ==
    /\ q.type \in {Undefined, Error, Select, Command}
    /\ q.table \in Seq(Seq(Nat \cup {None})) /\ q.columns \in Nat

ReplyTyped(r) ==
    /\ r.error_code \in 0 .. 1 /\ r.result_type \in Undefined .. Command
    /\ Len(r.data) <= 1

TInv ==
    /\ phase \in {"client", "library", "message", "calling", "executed", "filling",
                  "replying", "sent", "done", "aborted"}
    /\ QueryTyped(query)
    /\ filled \in 0 .. Len(query.table) * query.columns
    /\ phase \in {"client", "library", "calling"} => filled = 0
    /\ phase = "library" => reply = NewSqlReply
    /\ ReplyTyped(reply)

LEMMA TypeNumbers ==
    /\ Undefined \in Undefined .. Command /\ Error \in Undefined .. Command
    /\ Select \in Undefined .. Command /\ Command \in Undefined .. Command
BY DEF Undefined, Error, Select, Command

LEMMA NoQueryTyped == QueryTyped(NoQuery) /\ Len(NoQuery.table) * NoQuery.columns = 0
BY DEF QueryTyped, NoQuery

LEMMA NewReplyTyped == ReplyTyped(NewSqlReply)
BY DEF ReplyTyped, NewSqlReply, Undefined, Command

LEMMA NothingCopied ==
    ASSUME NEW q, QueryTyped(q) PROVE 0 \in 0 .. Len(q.table) * q.columns
<1>1. Len(q.table) \in Nat /\ q.columns \in Nat
  BY DEF QueryTyped
<1>2. Len(q.table) * q.columns \in Nat
  BY <1>1
<1> QED
  BY <1>2

LEMMA TypesBegin == Init => TInv
<1> SUFFICES ASSUME Init PROVE TInv
  OBVIOUS
<1>1. phase \in {"client", "library", "message"} /\ query = NoQuery /\ filled = 0
      /\ reply = NewSqlReply
  BY DEF Init
<1> QED
  BY <1>1, NoQueryTyped, NewReplyTyped, NothingCopied DEF TInv

LEMMA DoExecTypes == ASSUME TInv, DoExec PROVE TInv'
<1>1. PICK type \in {Error, Command, Select} :
        query' \in {[type |-> type, table |-> t.rows, columns |-> t.columns, connected |-> TRUE] :
                      t \in IF type = Select THEN Tables ELSE {[rows |-> <<>>, columns |-> 0]}}
  BY DEF DoExec
<1>2. PICK t \in IF type = Select THEN Tables ELSE {[rows |-> <<>>, columns |-> 0]} :
        query' = [type |-> type, table |-> t.rows, columns |-> t.columns, connected |-> TRUE]
  BY <1>1
<1>3. t.rows \in Seq(Seq(Nat \cup {None})) /\ t.columns \in Nat
  <2>1. CASE type = Select
    BY <2>1, TablesAssumption
  <2>2. CASE type # Select
    <3>1. t = [rows |-> <<>>, columns |-> 0]
      BY <2>2
    <3> QED
      BY <3>1
  <2> QED
    BY <2>1, <2>2
<1>4. QueryTyped(query')
  BY <1>2, <1>3 DEF QueryTyped
<1>5. filled' = 0 /\ phase' = "executed" /\ reply' = reply
  BY DEF DoExec, TInv
<1> QED
  BY <1>4, <1>5, NothingCopied DEF TInv

LEMMA AbortTypes == ASSUME TInv, Abort PROVE TInv'
<1>1. query' \in {NoQuery, [NoQuery EXCEPT !.connected = TRUE]}
  BY DEF Abort
<1>2. PICK q : q = query'
  OBVIOUS
<1>3. q \in {NoQuery, [NoQuery EXCEPT !.connected = TRUE]}
  BY <1>1, <1>2
<1>4. QueryTyped(q)
  <2>1. q.type = NoQuery.type /\ q.table = NoQuery.table /\ q.columns = NoQuery.columns
    <3>1. CASE q = NoQuery
      BY <3>1
    <3>2. CASE q = [NoQuery EXCEPT !.connected = TRUE]
      BY <3>2 DEF NoQuery
    <3> QED
      BY <1>3, <3>1, <3>2
  <2> QED
    BY <2>1, NoQueryTyped DEF QueryTyped
<1>5. filled' = 0 /\ phase' = "aborted" /\ reply' = reply
  BY DEF Abort, TInv
<1> QED
  BY <1>2, <1>4, <1>5, NothingCopied DEF TInv

LEMMA AnswerTypes == ASSUME XInv, TInv, Answer PROVE TInv'
<1>1. reply = NewSqlReply
  BY BeforeAnswer DEF Untouched
<1>2. query' = query /\ filled' = filled /\ phase' \in {"replying", "filling"}
  BY DEF Answer
<1>3. query.type \in Undefined .. Command
  BY TypeNumbers DEF TInv, QueryTyped
<1>4. ReplyTyped(reply')
  <2>1. \/ reply' = [reply EXCEPT !.result_type = query.type]
        \/ \E t \in Texts : reply' = [reply EXCEPT !.result_type = query.type,
                                                   !.error_text = t, !.error_code = 1]
    BY DEF Answer
  <2>2. PICK r : r = reply'
    OBVIOUS
  <2>3. CASE r = [NewSqlReply EXCEPT !.result_type = query.type]
    <3>1. r.error_code = 0 /\ r.result_type = query.type /\ r.data = NewSqlReply.data
      BY <2>3 DEF NewSqlReply
    <3> QED
      BY <1>3, <2>2, <3>1, NewReplyTyped DEF ReplyTyped
  <2>4. ASSUME NEW t, r = [NewSqlReply EXCEPT !.result_type = query.type,
                                              !.error_text = t, !.error_code = 1]
        PROVE  ReplyTyped(r)
    BY <1>3, <2>4 DEF ReplyTyped, NewSqlReply
  <2> QED
    BY <1>1, <2>1, <2>2, <2>3, <2>4
<1> QED
  BY <1>2, <1>4 DEF TInv

LEMMA FillingTypes == ASSUME XInv, TInv, CopyCell \/ AttachData PROVE TInv'
<1>1. CASE CopyCell
  <2>1. /\ filled < Len(query.table) * query.columns /\ filled' = filled + 1
        /\ phase' = "filling" /\ query' = query /\ reply' = reply
    BY <1>1 DEF CopyCell
  <2>2. Len(query.table) \in Nat /\ query.columns \in Nat
    BY DEF TInv, QueryTyped
  <2>3. PICK n : n = Len(query.table) * query.columns /\ n \in Nat
    BY <2>2
  <2>4. filled' \in 0 .. Len(query'.table) * query'.columns
    BY <2>1, <2>3 DEF TInv
  <2> QED
    BY <2>1, <2>4 DEF TInv
<1>2. CASE AttachData
  <2>1. /\ reply = [NewSqlReply EXCEPT !.result_type = Select]
        /\ reply' = [reply EXCEPT !.data = <<container>>]
        /\ phase' = "replying" /\ query' = query /\ filled' = filled
    BY <1>2 DEF AttachData, SetAllocatedData, XInv, Filling
  <2>2. ReplyTyped(reply')
    BY <2>1, TypeNumbers DEF ReplyTyped, NewSqlReply
  <2> QED
    BY <2>1, <2>2 DEF TInv
<1> QED
  BY <1>1, <1>2

LEMMA AttachContainerTypes == ASSUME TInv, AttachContainer PROVE TInv'
<1>1. /\ reply' = [NewSqlReply EXCEPT !.data = <<container>>]
      /\ phase' = "replying" /\ query' = query /\ filled' = filled
  BY DEF AttachContainer, SetAllocatedData, TInv
<1>2. ReplyTyped(reply')
  BY <1>1 DEF ReplyTyped, NewSqlReply, Undefined, Command
<1> QED
  BY <1>1, <1>2 DEF TInv

LEMMA TypesKept == XInv /\ TInv /\ [Next]_vars => TInv'
<1> SUFFICES ASSUME XInv, TInv, [Next]_vars PROVE TInv'
  OBVIOUS
<1>1. CASE ExecRequest
  BY <1>1 DEF ExecRequest, TInv
<1>2. CASE UseBinder \/ UseWrappers
  BY <1>2 DEF UseBinder, UseWrappers, exchangeVars, TInv
<1>3. CASE RefuseRequest \/ SendReply \/ ReceiveReply
  BY <1>3 DEF RefuseRequest, SendReply, ReceiveReply, TInv
<1>4. CASE UNCHANGED vars
  BY <1>4 DEF vars, exchangeVars, TInv
<1> QED
  BY <1>1, <1>2, <1>3, <1>4, DoExecTypes, AbortTypes, AnswerTypes, FillingTypes,
     AttachContainerTypes DEF Next

\* The types, for statements and tables of every size.
THEOREM ExchangeTyped == Spec => []TypeOK
<1>1. Init => XInv /\ IInv /\ TInv
  BY InitHolds, Disconnected, TypesBegin DEF Init, ConverterInit, XInv, Untouched, ReplyTellsOutcome
<1>2. XInv /\ IInv /\ TInv /\ [Next]_vars => XInv' /\ IInv' /\ TInv'
  BY XInductive, SoundStep, TypesKept
<1>3. IInv /\ TInv /\ BInv => TypeOK
  BY WhatIInvSays DEF TInv, QueryTyped, ReplyTyped, BInv, TypeOK
<1> QED
  BY <1>1, <1>2, <1>3, BinderInvariant, PTL DEF Spec

-----------------------------------------------------------------------------
\* The loop of a parser over the fields of a message

\* The turns of a parser that begins with first: one that fails is the last.
Turns(n, first, made, tr) ==
    tr = [i \in 0 .. n |-> IF i = 0 THEN first
                           ELSE IF tr[i - 1] = Failed THEN Failed ELSE made[i]]

LEMMA Trace ==
    ASSUME NEW n \in Nat, NEW X, NEW made,
           \A i \in 1 .. n : made[i] \in {X[i], Failed}
    PROVE  \E tr : /\ Turns(n, X[0], made, tr)
                   /\ \A i \in 0 .. n : tr[i] \in {X[i], Failed}
<1> DEFINE Over(k) == \E j \in 0 .. k : IF j = 0 THEN X[0] = Failed ELSE made[j] = Failed
<1>1. PICK tr : tr = [i \in 0 .. n |-> IF Over(i) THEN Failed ELSE X[i]]
  OBVIOUS
<1>2. tr[0] = X[0]
  BY <1>1
<1>3. ASSUME NEW i \in 1 .. n
      PROVE  tr[i] = IF tr[i - 1] = Failed THEN Failed ELSE made[i]
  <2>1. /\ tr[i] = IF Over(i) THEN Failed ELSE X[i]
        /\ tr[i - 1] = IF Over(i - 1) THEN Failed ELSE X[i - 1]
    BY <1>1
  <2>2. Over(i) <=> Over(i - 1) \/ made[i] = Failed
    OBVIOUS
  <2>3. X[i - 1] = Failed => Over(i - 1)
    <3>1. CASE i = 1
      BY <3>1
    <3>2. CASE i # 1
      <4>1. i - 1 \in 1 .. n /\ i - 1 \in 0 .. i - 1 /\ i - 1 # 0
        BY <3>2
      <4>2. made[i - 1] \in {X[i - 1], Failed}
        BY <4>1
      <4> QED
        BY <4>1, <4>2
    <3> QED
      BY <3>1, <3>2
  <2> HIDE DEF Over
  <2> QED
    BY <2>1, <2>2, <2>3
<1>4. Turns(n, X[0], made, tr)
  <2>1. \A i \in 0 .. n : tr[i] = IF i = 0 THEN X[0]
                                 ELSE IF tr[i - 1] = Failed THEN Failed ELSE made[i]
    BY <1>2, <1>3
  <2> QED
    BY <1>1, <2>1 DEF Turns
<1>5. \A i \in 0 .. n : tr[i] \in {X[i], Failed}
  BY <1>1
<1> QED
  BY <1>4, <1>5

\* Where the turns of a parser end.
LEMMA LastTurn ==
    ASSUME NEW n \in Nat, NEW X, NEW g, g[0] = X[0],
           \A i \in 1 .. n : /\ g[i - 1] = Failed => g[i] = Failed
                             /\ g[i - 1] = X[i - 1] => g[i] \in {X[i], Failed}
    PROVE  g[n] \in {X[n], Failed}
<1>1. PICK S : S = {i \in 0 .. n : g[i] \in {X[i], Failed}}
  OBVIOUS
<1>2. 0 \in S
  BY <1>1
<1>3. ASSUME NEW i \in 0 .. n - 1, i \in S PROVE i + 1 \in S
  <2>1. i + 1 \in 1 .. n /\ (i + 1) - 1 = i
    OBVIOUS
  <2>2. /\ g[i] = Failed => g[i + 1] = Failed
        /\ g[i] = X[i] => g[i + 1] \in {X[i + 1], Failed}
    BY <2>1
  <2> QED
    BY <1>1, <1>3, <2>1, <2>2
<1>4. \A i \in 0 .. n - 1 : i \in S => i + 1 \in S
  BY <1>3
<1>5. 0 .. n \subseteq S
  BY <1>2, <1>4, UpTo
<1> QED
  BY <1>1, <1>5

LEMMA ValueTurns ==
    ASSUME NEW n \in Nat, NEW m, NEW w, Len(w) = n, NEW X, X[0] = m,
           \A i \in 1 .. n : ValueField(X[i - 1], w[i]) \in {X[i], Failed}
    PROVE  ValueParse(m, w) \in {X[n], Failed}
<1> DEFINE Loop(g) == g = [i \in 0 .. n |-> IF i = 0 THEN m
                          ELSE IF g[i - 1] = Failed THEN Failed ELSE ValueField(g[i - 1], w[i])]
<1>1. PICK made : made = [i \in 1 .. n |-> ValueField(X[i - 1], w[i])]
  OBVIOUS
<1>2. PICK tr : Turns(n, X[0], made, tr) /\ \A i \in 0 .. n : tr[i] \in {X[i], Failed}
  <2>1. \A i \in 1 .. n : made[i] \in {X[i], Failed}
    BY <1>1
  <2> QED
    BY <2>1, Trace
<1>3. Loop(tr)
  <2>1. ASSUME NEW i \in 1 .. n, tr[i - 1] # Failed PROVE made[i] = ValueField(tr[i - 1], w[i])
    <3>1. tr[i - 1] = X[i - 1]
      <4>1. i - 1 \in 0 .. n
        OBVIOUS
      <4> QED
        BY <1>2, <2>1, <4>1
    <3> QED
      BY <1>1, <3>1
  <2> QED
    BY <1>2, <2>1 DEF Turns
<1>4. PICK g : g = (CHOOSE x : Loop(x)) /\ Loop(g)
  BY <1>3
<1>5. ASSUME NEW i \in 1 .. n
      PROVE  /\ g[i - 1] = Failed => g[i] = Failed
             /\ g[i - 1] = X[i - 1] => g[i] \in {X[i], Failed}
  <2>1. \A j \in 0 .. n : g[j] = IF j = 0 THEN m
                        ELSE IF g[j - 1] = Failed THEN Failed ELSE ValueField(g[j - 1], w[j])
    BY <1>4
  <2>2. g[i] = IF g[i - 1] = Failed THEN Failed ELSE ValueField(g[i - 1], w[i])
    BY <2>1
  <2> QED
    BY <2>2
<1>6. g[n] \in {X[n], Failed}
  <2>1. g[0] = X[0]
    BY <1>4
  <2> QED
    BY <1>5, <2>1, LastTurn
<1>7. ValueParse(m, w) = g[n]
  BY <1>4 DEF ValueParse, ParseFields
<1> QED
  BY <1>6, <1>7

LEMMA FlatRowTurns ==
    ASSUME NEW n \in Nat, NEW m, NEW w, Len(w) = n, NEW X, X[0] = m,
           \A i \in 1 .. n : FlatRowField(X[i - 1], w[i]) \in {X[i], Failed}
    PROVE  FlatRowParse(m, w) \in {X[n], Failed}
<1> DEFINE Loop(g) == g = [i \in 0 .. n |-> IF i = 0 THEN m
                          ELSE IF g[i - 1] = Failed THEN Failed ELSE FlatRowField(g[i - 1], w[i])]
<1>1. PICK made : made = [i \in 1 .. n |-> FlatRowField(X[i - 1], w[i])]
  OBVIOUS
<1>2. PICK tr : Turns(n, X[0], made, tr) /\ \A i \in 0 .. n : tr[i] \in {X[i], Failed}
  <2>1. \A i \in 1 .. n : made[i] \in {X[i], Failed}
    BY <1>1
  <2> QED
    BY <2>1, Trace
<1>3. Loop(tr)
  <2>1. ASSUME NEW i \in 1 .. n, tr[i - 1] # Failed PROVE made[i] = FlatRowField(tr[i - 1], w[i])
    <3>1. tr[i - 1] = X[i - 1]
      <4>1. i - 1 \in 0 .. n
        OBVIOUS
      <4> QED
        BY <1>2, <2>1, <4>1
    <3> QED
      BY <1>1, <3>1
  <2> QED
    BY <1>2, <2>1 DEF Turns
<1>4. PICK g : g = (CHOOSE x : Loop(x)) /\ Loop(g)
  BY <1>3
<1>5. ASSUME NEW i \in 1 .. n
      PROVE  /\ g[i - 1] = Failed => g[i] = Failed
             /\ g[i - 1] = X[i - 1] => g[i] \in {X[i], Failed}
  <2>1. \A j \in 0 .. n : g[j] = IF j = 0 THEN m
                        ELSE IF g[j - 1] = Failed THEN Failed ELSE FlatRowField(g[j - 1], w[j])
    BY <1>4
  <2>2. g[i] = IF g[i - 1] = Failed THEN Failed ELSE FlatRowField(g[i - 1], w[i])
    BY <2>1
  <2> QED
    BY <2>2
<1>6. g[n] \in {X[n], Failed}
  <2>1. g[0] = X[0]
    BY <1>4
  <2> QED
    BY <1>5, <2>1, LastTurn
<1>7. FlatRowParse(m, w) = g[n]
  BY <1>4 DEF FlatRowParse, ParseFields
<1> QED
  BY <1>6, <1>7

LEMMA FlatTurns ==
    ASSUME NEW n \in Nat, NEW m, NEW w, Len(w) = n, NEW X, X[0] = m,
           \A i \in 1 .. n : FlatField(X[i - 1], w[i]) \in {X[i], Failed}
    PROVE  FlatParse(m, w) \in {X[n], Failed}
<1> DEFINE Loop(g) == g = [i \in 0 .. n |-> IF i = 0 THEN m
                          ELSE IF g[i - 1] = Failed THEN Failed ELSE FlatField(g[i - 1], w[i])]
<1>1. PICK made : made = [i \in 1 .. n |-> FlatField(X[i - 1], w[i])]
  OBVIOUS
<1>2. PICK tr : Turns(n, X[0], made, tr) /\ \A i \in 0 .. n : tr[i] \in {X[i], Failed}
  <2>1. \A i \in 1 .. n : made[i] \in {X[i], Failed}
    BY <1>1
  <2> QED
    BY <2>1, Trace
<1>3. Loop(tr)
  <2>1. ASSUME NEW i \in 1 .. n, tr[i - 1] # Failed PROVE made[i] = FlatField(tr[i - 1], w[i])
    <3>1. tr[i - 1] = X[i - 1]
      <4>1. i - 1 \in 0 .. n
        OBVIOUS
      <4> QED
        BY <1>2, <2>1, <4>1
    <3> QED
      BY <1>1, <3>1
  <2> QED
    BY <1>2, <2>1 DEF Turns
<1>4. PICK g : g = (CHOOSE x : Loop(x)) /\ Loop(g)
  BY <1>3
<1>5. ASSUME NEW i \in 1 .. n
      PROVE  /\ g[i - 1] = Failed => g[i] = Failed
             /\ g[i - 1] = X[i - 1] => g[i] \in {X[i], Failed}
  <2>1. \A j \in 0 .. n : g[j] = IF j = 0 THEN m
                        ELSE IF g[j - 1] = Failed THEN Failed ELSE FlatField(g[j - 1], w[j])
    BY <1>4
  <2>2. g[i] = IF g[i - 1] = Failed THEN Failed ELSE FlatField(g[i - 1], w[i])
    BY <2>1
  <2> QED
    BY <2>2
<1>6. g[n] \in {X[n], Failed}
  <2>1. g[0] = X[0]
    BY <1>4
  <2> QED
    BY <1>5, <2>1, LastTurn
<1>7. FlatParse(m, w) = g[n]
  BY <1>4 DEF FlatParse, ParseFields
<1> QED
  BY <1>6, <1>7

LEMMA DatasetTurns ==
    ASSUME NEW n \in Nat, NEW m, NEW w, Len(w) = n, NEW X, X[0] = m,
           \A i \in 1 .. n : DatasetField(X[i - 1], w[i]) \in {X[i], Failed}
    PROVE  DatasetParse(m, w) \in {X[n], Failed}
<1> DEFINE Loop(g) == g = [i \in 0 .. n |-> IF i = 0 THEN m
                          ELSE IF g[i - 1] = Failed THEN Failed ELSE DatasetField(g[i - 1], w[i])]
<1>1. PICK made : made = [i \in 1 .. n |-> DatasetField(X[i - 1], w[i])]
  OBVIOUS
<1>2. PICK tr : Turns(n, X[0], made, tr) /\ \A i \in 0 .. n : tr[i] \in {X[i], Failed}
  <2>1. \A i \in 1 .. n : made[i] \in {X[i], Failed}
    BY <1>1
  <2> QED
    BY <2>1, Trace
<1>3. Loop(tr)
  <2>1. ASSUME NEW i \in 1 .. n, tr[i - 1] # Failed PROVE made[i] = DatasetField(tr[i - 1], w[i])
    <3>1. tr[i - 1] = X[i - 1]
      <4>1. i - 1 \in 0 .. n
        OBVIOUS
      <4> QED
        BY <1>2, <2>1, <4>1
    <3> QED
      BY <1>1, <3>1
  <2> QED
    BY <1>2, <2>1 DEF Turns
<1>4. PICK g : g = (CHOOSE x : Loop(x)) /\ Loop(g)
  BY <1>3
<1>5. ASSUME NEW i \in 1 .. n
      PROVE  /\ g[i - 1] = Failed => g[i] = Failed
             /\ g[i - 1] = X[i - 1] => g[i] \in {X[i], Failed}
  <2>1. \A j \in 0 .. n : g[j] = IF j = 0 THEN m
                        ELSE IF g[j - 1] = Failed THEN Failed ELSE DatasetField(g[j - 1], w[j])
    BY <1>4
  <2>2. g[i] = IF g[i - 1] = Failed THEN Failed ELSE DatasetField(g[i - 1], w[i])
    BY <2>1
  <2> QED
    BY <2>2
<1>6. g[n] \in {X[n], Failed}
  <2>1. g[0] = X[0]
    BY <1>4
  <2> QED
    BY <1>5, <2>1, LastTurn
<1>7. DatasetParse(m, w) = g[n]
  BY <1>4 DEF DatasetParse, ParseFields
<1> QED
  BY <1>6, <1>7

LEMMA ContainerTurns ==
    ASSUME NEW n \in Nat, NEW m, NEW w, Len(w) = n, NEW X, X[0] = m,
           \A i \in 1 .. n : ContainerField(X[i - 1], w[i]) \in {X[i], Failed}
    PROVE  ContainerParse(m, w) \in {X[n], Failed}
<1> DEFINE Loop(g) == g = [i \in 0 .. n |-> IF i = 0 THEN m
                          ELSE IF g[i - 1] = Failed THEN Failed ELSE ContainerField(g[i - 1], w[i])]
<1>1. PICK made : made = [i \in 1 .. n |-> ContainerField(X[i - 1], w[i])]
  OBVIOUS
<1>2. PICK tr : Turns(n, X[0], made, tr) /\ \A i \in 0 .. n : tr[i] \in {X[i], Failed}
  <2>1. \A i \in 1 .. n : made[i] \in {X[i], Failed}
    BY <1>1
  <2> QED
    BY <2>1, Trace
<1>3. Loop(tr)
  <2>1. ASSUME NEW i \in 1 .. n, tr[i - 1] # Failed PROVE made[i] = ContainerField(tr[i - 1], w[i])
    <3>1. tr[i - 1] = X[i - 1]
      <4>1. i - 1 \in 0 .. n
        OBVIOUS
      <4> QED
        BY <1>2, <2>1, <4>1
    <3> QED
      BY <1>1, <3>1
  <2> QED
    BY <1>2, <2>1 DEF Turns
<1>4. PICK g : g = (CHOOSE x : Loop(x)) /\ Loop(g)
  BY <1>3
<1>5. ASSUME NEW i \in 1 .. n
      PROVE  /\ g[i - 1] = Failed => g[i] = Failed
             /\ g[i - 1] = X[i - 1] => g[i] \in {X[i], Failed}
  <2>1. \A j \in 0 .. n : g[j] = IF j = 0 THEN m
                        ELSE IF g[j - 1] = Failed THEN Failed ELSE ContainerField(g[j - 1], w[j])
    BY <1>4
  <2>2. g[i] = IF g[i - 1] = Failed THEN Failed ELSE ContainerField(g[i - 1], w[i])
    BY <2>1
  <2> QED
    BY <2>2
<1>6. g[n] \in {X[n], Failed}
  <2>1. g[0] = X[0]
    BY <1>4
  <2> QED
    BY <1>5, <2>1, LastTurn
<1>7. ContainerParse(m, w) = g[n]
  BY <1>4 DEF ContainerParse, ParseFields
<1> QED
  BY <1>6, <1>7

LEMMA SqlReplyTurns ==
    ASSUME NEW n \in Nat, NEW m, NEW w, Len(w) = n, NEW X, X[0] = m,
           \A i \in 1 .. n : SqlReplyField(X[i - 1], w[i]) \in {X[i], Failed}
    PROVE  SqlReplyParse(m, w) \in {X[n], Failed}
<1> DEFINE Loop(g) == g = [i \in 0 .. n |-> IF i = 0 THEN m
                          ELSE IF g[i - 1] = Failed THEN Failed ELSE SqlReplyField(g[i - 1], w[i])]
<1>1. PICK made : made = [i \in 1 .. n |-> SqlReplyField(X[i - 1], w[i])]
  OBVIOUS
<1>2. PICK tr : Turns(n, X[0], made, tr) /\ \A i \in 0 .. n : tr[i] \in {X[i], Failed}
  <2>1. \A i \in 1 .. n : made[i] \in {X[i], Failed}
    BY <1>1
  <2> QED
    BY <2>1, Trace
<1>3. Loop(tr)
  <2>1. ASSUME NEW i \in 1 .. n, tr[i - 1] # Failed PROVE made[i] = SqlReplyField(tr[i - 1], w[i])
    <3>1. tr[i - 1] = X[i - 1]
      <4>1. i - 1 \in 0 .. n
        OBVIOUS
      <4> QED
        BY <1>2, <2>1, <4>1
    <3> QED
      BY <1>1, <3>1
  <2> QED
    BY <1>2, <2>1 DEF Turns
<1>4. PICK g : g = (CHOOSE x : Loop(x)) /\ Loop(g)
  BY <1>3
<1>5. ASSUME NEW i \in 1 .. n
      PROVE  /\ g[i - 1] = Failed => g[i] = Failed
             /\ g[i - 1] = X[i - 1] => g[i] \in {X[i], Failed}
  <2>1. \A j \in 0 .. n : g[j] = IF j = 0 THEN m
                        ELSE IF g[j - 1] = Failed THEN Failed ELSE SqlReplyField(g[j - 1], w[j])
    BY <1>4
  <2>2. g[i] = IF g[i - 1] = Failed THEN Failed ELSE SqlReplyField(g[i - 1], w[i])
    BY <2>1
  <2> QED
    BY <2>2
<1>6. g[n] \in {X[n], Failed}
  <2>1. g[0] = X[0]
    BY <1>4
  <2> QED
    BY <1>5, <2>1, LastTurn
<1>7. SqlReplyParse(m, w) = g[n]
  BY <1>4 DEF SqlReplyParse, ParseFields
<1> QED
  BY <1>6, <1>7

-----------------------------------------------------------------------------
\* A value, a row and a flat dataset

\* What the handler writes into a cell, and what is there before.
Textual(v) == v \in Value /\ v.case \in {"none", "v_string"}

LEMMA NoMore ==
    ASSUME NEW n \in Nat, NEW s, s = [i \in 1 .. n |-> s[i]]
    PROVE  s \o <<>> = s /\ <<>> \o s = s /\ Len(s) = n
<1>1. PICK S : S = {s[i] : i \in 1 .. n}
  OBVIOUS
<1>2. s \in Seq(S)
  BY <1>1
<1>3. Len(s) = n
  BY <1>2
<1> QED
  BY <1>2, <1>3, ConcatEmptySeq

LEMMA LongerPrefix ==
    ASSUME NEW S, NEW s \in Seq(S), NEW i \in 1 .. Len(s)
    PROVE  Append(SubSeq(s, 1, i - 1), s[i]) = SubSeq(s, 1, i)
<1>1. SubSeq(s, 1, i - 1) \in Seq(S) /\ s[i] \in S
  BY SubSeqProperties
<1>2. 1 \in 1 .. Len(s) /\ i \in 1 .. Len(s)
  OBVIOUS
<1>3. SubSeq(s, 1, i) = SubSeq(s, 1, i - 1) \o <<s[i]>>
  BY <1>2, SubSeqRecursiveSecond
<1> QED
  BY <1>1, <1>3, AppendIsConcat

\* p[i] holds the first i elements of s.
Prefixed(p, s, n) == p[0] = <<>> /\ p[n] = s /\ \A i \in 1 .. n : Append(p[i - 1], s[i]) = p[i]

LEMMA SeqByPrefixes ==
    ASSUME NEW S, NEW s \in Seq(S), NEW n, n = Len(s)
    PROVE  \E p : Prefixed(p, s, n)
<1> DEFINE part == [i \in 0 .. n |-> SubSeq(s, 1, i)]
<1>1. part = [i \in 0 .. n |-> SubSeq(s, 1, i)]
  OBVIOUS
<1> HIDE DEF part
<1>2. n \in Nat
  OBVIOUS
<1>3. SubSeq(s, 1, 0) = <<>>
  BY SubSeqEmpty
<1>4. SubSeq(s, 1, n) = s
  BY SubSeqFull
<1>5. ASSUME NEW i \in 1 .. n PROVE Append(part[i - 1], s[i]) = part[i]
  <2>1. Append(SubSeq(s, 1, i - 1), s[i]) = SubSeq(s, 1, i)
    BY LongerPrefix
  <2>2. i - 1 \in 0 .. n /\ i \in 0 .. n
    BY <1>2
  <2>3. part[i - 1] = SubSeq(s, 1, i - 1)
    BY <1>1, <2>2, Zenon
  <2>4. part[i] = SubSeq(s, 1, i)
    BY <1>1, <2>2, Zenon
  <2> QED
    BY <2>1, <2>3, <2>4
<1>6. 0 \in 0 .. n /\ n \in 0 .. n
  BY <1>2
<1>7. part[0] = SubSeq(s, 1, 0) /\ part[n] = SubSeq(s, 1, n)
  BY <1>1, <1>6, Zenon
<1>8. Prefixed(part, s, n)
  BY <1>3, <1>4, <1>5, <1>7 DEF Prefixed
<1> QED
  BY <1>8, Zenon

LEMMA ValueRead ==
    ASSUME NEW v, Textual(v)
    PROVE  ValueParse(EmptyValue, ValueSerialize(v)) \in {v, Failed}
<1>1. /\ v.case \in {"none", "v_string"} /\ v.val \in Nat /\ v.unknown = <<>>
      /\ v.case = "none" => v.val = 0
      /\ v = [case |-> v.case, val |-> v.val, unknown |-> <<>>]
  BY DEF Textual, Value, Only
<1>2. CASE v.case = "none"
  <2>1. v = EmptyValue
    BY <1>1, <1>2 DEF EmptyValue
  <2>2. ValueSerialize(v) = <<>> /\ Len(<<>>) = 0
    BY <1>1, <1>2 DEF ValueSerialize
  <2>3. PICK X : X = [i \in 0 .. 0 |-> EmptyValue]
    OBVIOUS
  <2>4. X[0] = EmptyValue /\ \A i \in 1 .. 0 : ValueField(X[i - 1], <<>>[i]) \in {X[i], Failed}
    BY <2>3
  <2>5. ValueParse(EmptyValue, <<>>) \in {X[0], Failed}
    BY <2>2, <2>4, ValueTurns
  <2> QED
    BY <2>1, <2>2, <2>4, <2>5
<1>3. CASE v.case = "v_string"
  <2>1. PICK f : f = [x \in {"num", "text"} |-> IF x = "num" THEN 1 ELSE v.val]
    OBVIOUS
  <2>2. ValueType["v_string"] = "text" /\ ValueNumber["v_string"] = 1
    BY DEF ValueType, ValueNumber, ValueCases
  <2>3. ValueSerialize(v) = <<f>>
    BY <1>1, <1>3, <2>1, <2>2 DEF ValueSerialize
  <2>4. PICK X : X = [i \in 0 .. 1 |-> IF i = 0 THEN EmptyValue ELSE v]
    OBVIOUS
  <2>5. ValueField(EmptyValue, f) \in {v, Failed}
    <3>1. DOMAIN f = {"num", "text"} /\ f.num = 1 /\ f["text"] = v.val
      BY <2>1
    <3>2. {c \in ValueCases : Is(f, ValueNumber[c], ValueType[c])} = {"v_string"}
      BY <2>2, <3>1, Cases DEF Is, ValueNumber
    <3>3. AsField("v_string", v.val) = v.val /\ v = [case |-> "v_string", val |-> v.val, unknown |-> <<>>]
      BY <1>1, <1>3 DEF AsField
    <3>4. SetData(EmptyValue, "v_string", v.val) = [case |-> "v_string", val |-> v.val, unknown |-> <<>>]
      BY SetDataIs, EmptyIsValue DEF EmptyValue
    <3>5. SetData(EmptyValue, "v_string", AsField("v_string", v.val)) = v
      BY <3>3, <3>4
    <3>6. (CHOOSE c \in {"v_string"} : TRUE) = "v_string"
      OBVIOUS
    <3> QED
      BY <2>2, <3>1, <3>2, <3>5, <3>6 DEF ValueField
  <2>6. X[0] = EmptyValue /\ X[1] = v
    BY <2>4
  <2>7. Len(<<f>>) = 1 /\ \A i \in 1 .. 1 : ValueField(X[i - 1], <<f>>[i]) \in {X[i], Failed}
    BY <2>5, <2>6
  <2>8. ValueParse(EmptyValue, <<f>>) \in {X[1], Failed}
    BY <2>6, <2>7, ValueTurns
  <2> QED
    BY <2>3, <2>6, <2>8
<1> QED
  BY <1>1, <1>2, <1>3

\* A cell of a flat row.
LEMMA CellRead ==
    ASSUME NEW v, Textual(v), NEW x, NEW f, f = Sub(1, ValueByteSize(v), ValueSerialize(v))
    PROVE  FlatRowField(x, f) \in {[x EXCEPT !.data = Append(@, v)], Failed}
<1>1. Is(f, 1, "msg") /\ f.msg = ValueSerialize(v)
  BY DEF Is, Sub
<1>2. ValueParse(EmptyValue, f.msg) \in {v, Failed}
  BY <1>1, ValueRead
<1> QED
  BY <1>1, <1>2 DEF FlatRowField, ParseMessage

TextRow(r) == r \in FlatRow /\ \A j \in DOMAIN r.data : Textual(r.data[j])

LEMMA FlatRowRead ==
    ASSUME NEW r, TextRow(r)
    PROVE  FlatRowParse(EmptyFlatRow, FlatRowSerialize(r)) \in {r, Failed}
<1>1. PICK d, n : d = r.data /\ d \in Seq(Value) /\ n = Len(d) /\ n \in Nat /\ DOMAIN d = 1 .. n
                  /\ r = [data |-> d, unknown |-> <<>>] /\ \A j \in 1 .. n : Textual(d[j])
  BY DEF TextRow, FlatRow, Only
<1>2. PICK w : w = [i \in 1 .. n |-> Sub(1, ValueByteSize(d[i]), ValueSerialize(d[i]))]
  OBVIOUS
<1>3. FlatRowSerialize(r) = w /\ Len(w) = n
  <2>1. FlatRowSerialize(r) = w \o <<>>
    BY <1>1, <1>2 DEF FlatRowSerialize
  <2>2. w = [i \in 1 .. n |-> w[i]]
    BY <1>2
  <2> QED
    BY <1>1, <2>1, <2>2, NoMore
<1>4. PICK p : Prefixed(p, d, n)
  <2>1. d \in Seq(Value) /\ n = Len(d)
    BY <1>1
  <2> QED
    BY <2>1, SeqByPrefixes, Zenon
<1>5. PICK X : X = [i \in 0 .. n |-> [data |-> p[i], unknown |-> <<>>]]
  OBVIOUS
<1>6. X[0] = EmptyFlatRow /\ X[n] = r
  BY <1>1, <1>5, <1>4 DEF EmptyFlatRow, Prefixed
<1>7. ASSUME NEW i \in 1 .. n PROVE FlatRowField(X[i - 1], w[i]) \in {X[i], Failed}
  <2>1. FlatRowField(X[i - 1], w[i]) \in {[X[i - 1] EXCEPT !.data = Append(@, d[i])], Failed}
    BY <1>1, <1>2, CellRead
  <2>2. Append(p[i - 1], d[i]) = p[i]
    BY <1>4 DEF Prefixed
  <2>3. X[i - 1] = [data |-> p[i - 1], unknown |-> <<>>] /\ X[i] = [data |-> p[i], unknown |-> <<>>]
    BY <1>1, <1>5
  <2>4. [X[i - 1] EXCEPT !.data = Append(@, d[i])] = X[i]
    <3>1. PICK a, b, e : a = p[i - 1] /\ b = p[i] /\ e = d[i]
      OBVIOUS
    <3>2. Append(a, e) = b
      BY <2>2, <3>1
    <3>3. X[i - 1] = [data |-> a, unknown |-> <<>>] /\ X[i] = [data |-> b, unknown |-> <<>>]
      BY <2>3, <3>1
    <3>4. [[data |-> a, unknown |-> <<>>] EXCEPT !.data = Append(@, e)] = [data |-> Append(a, e), unknown |-> <<>>]
      OBVIOUS
    <3> QED
      BY <3>1, <3>2, <3>3, <3>4
  <2> QED
    BY <2>1, <2>4
<1> QED
  BY <1>1, <1>3, <1>6, <1>7, FlatRowTurns

LEMMA RowRead ==
    ASSUME NEW r, TextRow(r), NEW x, NEW f, f = Sub(2, FlatRowByteSize(r), FlatRowSerialize(r))
    PROVE  FlatField(x, f) \in {[x EXCEPT !.rows = Append(@, r)], Failed}
<1>1. Is(f, 2, "msg") /\ f.msg = FlatRowSerialize(r) /\ ~Is(f, 1, "varint")
  BY DEF Is, Sub
<1>2. FlatRowParse(EmptyFlatRow, f.msg) \in {r, Failed}
  BY <1>1, FlatRowRead
<1> QED
  BY <1>1, <1>2 DEF FlatField, ParseMessage

TextTable(d) == d \in Flat /\ \A i \in DOMAIN d.rows : TextRow(d.rows[i])

LEMMA FlatRead ==
    ASSUME NEW d, TextTable(d)
    PROVE  FlatParse(EmptyFlat, FlatSerialize(d)) \in {d, Failed}
<1>1. PICK c, r, n : /\ c = d.column_count /\ c \in Nat
                     /\ r = d.rows /\ r \in Seq(FlatRow) /\ n = Len(r) /\ n \in Nat /\ DOMAIN r = 1 .. n
                     /\ d = [column_count |-> c, rows |-> r, unknown |-> <<>>]
                     /\ \A i \in 1 .. n : TextRow(r[i])
  BY BoundsAssumption DEF TextTable, Flat, Only
<1>2. PICK s : s = [i \in 1 .. n |-> Sub(2, FlatRowByteSize(r[i]), FlatRowSerialize(r[i]))]
  OBVIOUS
<1>3. FlatSerialize(d) = NonZero(1, c) \o s /\ Len(s) = n /\ <<>> \o s = s
  <2>1. s = [i \in 1 .. n |-> s[i]]
    BY <1>2
  <2>2. s \o <<>> = s /\ <<>> \o s = s /\ Len(s) = n
    BY <1>1, <2>1, NoMore
  <2>3. d.column_count = c /\ d.rows = r /\ d.unknown = <<>> /\ DOMAIN r = 1 .. n
    BY <1>1
  <2>4. s = [i \in DOMAIN d.rows |-> Sub(2, FlatRowByteSize(d.rows[i]), FlatRowSerialize(d.rows[i]))]
    BY <1>2, <2>3
  <2>5. FlatSerialize(d) = NonZero(1, c) \o s \o <<>>
    BY <2>3, <2>4, Zenon DEF FlatSerialize
  <2>6. NonZero(1, c) \in {<<>>, <<Varint(1, c)>>}
    BY DEF NonZero
  <2>7. (NonZero(1, c) \o s) \o <<>> = NonZero(1, c) \o s
    <3>1. PICK S : S = {s[i] : i \in 1 .. n} \cup {Varint(1, c)}
      OBVIOUS
    <3>2. s \in Seq(S)
      BY <1>1, <2>1, <3>1
    <3>3. Varint(1, c) \in S
      BY <3>1
    <3>4. NonZero(1, c) \in Seq(S)
      <4>1. <<>> \in Seq(S) /\ <<Varint(1, c)>> \in Seq(S)
        BY <3>3
      <4> QED
        BY <2>6, <4>1
    <3> QED
      BY <3>2, <3>4, ConcatEmptySeq, ConcatProperties
  <2> QED
    BY <2>2, <2>5, <2>7
<1>4. PICK p : Prefixed(p, r, n)
  <2>1. r \in Seq(FlatRow) /\ n = Len(r)
    BY <1>1
  <2> QED
    BY <2>1, SeqByPrefixes, Zenon
<1>5. PICK parts : parts = [i \in 0 .. n |-> [column_count |-> c, rows |-> p[i], unknown |-> <<>>]]
  OBVIOUS
<1>6. parts[n] = d /\ parts[0] = [column_count |-> c, rows |-> <<>>, unknown |-> <<>>]
  BY <1>1, <1>5, <1>4 DEF Prefixed
<1>7. ASSUME NEW i \in 1 .. n PROVE FlatField(parts[i - 1], s[i]) \in {parts[i], Failed}
  <2>1. FlatField(parts[i - 1], s[i]) \in {[parts[i - 1] EXCEPT !.rows = Append(@, r[i])], Failed}
    BY <1>1, <1>2, RowRead
  <2>2. Append(p[i - 1], r[i]) = p[i]
    BY <1>4 DEF Prefixed
  <2>3. parts[i - 1] = [column_count |-> c, rows |-> p[i - 1], unknown |-> <<>>]
        /\ parts[i] = [column_count |-> c, rows |-> p[i], unknown |-> <<>>]
    BY <1>1, <1>5
  <2>4. [parts[i - 1] EXCEPT !.rows = Append(@, r[i])] = parts[i]
    BY <2>2, <2>3
  <2> QED
    BY <2>1, <2>4
<1>8. CASE c = 0
  <2>1. FlatSerialize(d) = s
    BY <1>3, <1>8 DEF NonZero
  <2>2. parts[0] = EmptyFlat
    BY <1>6, <1>8 DEF EmptyFlat
  <2> QED
    BY <1>1, <1>3, <1>6, <1>7, <2>1, <2>2, FlatTurns
<1>9. CASE c # 0
  <2>1. PICK w : w = <<Varint(1, c)>> \o s
    OBVIOUS
  <2>2. FlatSerialize(d) = w /\ Len(w) = n + 1 /\ w[1] = Varint(1, c)
        /\ \A i \in 1 .. n : w[i + 1] = s[i]
    <3>1. PICK S : S = {s[i] : i \in 1 .. n} \cup {Varint(1, c)}
      OBVIOUS
    <3>2. s \in Seq(S) /\ <<Varint(1, c)>> \in Seq(S)
      BY <1>1, <1>2, <3>1
    <3> QED
      BY <1>3, <1>9, <2>1, <3>2 DEF NonZero
  <2>3. PICK X : X = [i \in 0 .. n + 1 |-> IF i = 0 THEN EmptyFlat ELSE parts[i - 1]]
    OBVIOUS
  <2>4. X[0] = EmptyFlat /\ X[n + 1] = d /\ n + 1 \in Nat
    BY <1>1, <1>6, <2>3
  <2>5. ASSUME NEW i \in 1 .. n + 1 PROVE FlatField(X[i - 1], w[i]) \in {X[i], Failed}
    <3>1. CASE i = 1
      <4>1. FlatField(EmptyFlat, Varint(1, c)) = [EmptyFlat EXCEPT !.column_count = c]
        BY DEF FlatField, Is, Varint
      <4>2. [EmptyFlat EXCEPT !.column_count = c] = parts[0]
        BY <1>6 DEF EmptyFlat
      <4> QED
        BY <2>2, <2>3, <3>1, <4>1, <4>2
    <3>2. CASE i # 1
      <4>1. PICK j : j = i - 1 /\ j \in 1 .. n /\ i = j + 1
        BY <1>1, <3>2
      <4>2. X[i - 1] = parts[j - 1] /\ X[i] = parts[j] /\ w[i] = s[j]
        BY <2>2, <2>3, <4>1
      <4> QED
        BY <1>7, <4>1, <4>2
    <3> QED
      BY <3>1, <3>2
  <2> QED
    BY <2>2, <2>4, <2>5, FlatTurns
<1> QED
  BY <1>8, <1>9

\* The loop over the fields of an entry of the map of datasets.
EntryField(e, g) == IF Is(g, 1, "varint") THEN [e EXCEPT !.key = g.varint]
                    ELSE IF Is(g, 2, "msg") THEN With(e, "value", ParseMessage(DatasetParse, e.value, g))
                    ELSE e
EntryParse(m, w) == ParseFields(EntryField, m, w)

LEMMA EntryTurns ==
    ASSUME NEW n \in Nat, NEW m, NEW w, Len(w) = n, NEW X, X[0] = m,
           \A i \in 1 .. n : EntryField(X[i - 1], w[i]) \in {X[i], Failed}
    PROVE  EntryParse(m, w) \in {X[n], Failed}
<1> DEFINE Loop(g) == g = [i \in 0 .. n |-> IF i = 0 THEN m
                          ELSE IF g[i - 1] = Failed THEN Failed ELSE EntryField(g[i - 1], w[i])]
<1>1. PICK made : made = [i \in 1 .. n |-> EntryField(X[i - 1], w[i])]
  OBVIOUS
<1>2. PICK tr : Turns(n, X[0], made, tr) /\ \A i \in 0 .. n : tr[i] \in {X[i], Failed}
  <2>1. \A i \in 1 .. n : made[i] \in {X[i], Failed}
    BY <1>1
  <2> QED
    BY <2>1, Trace
<1>3. Loop(tr)
  <2>1. ASSUME NEW i \in 1 .. n, tr[i - 1] # Failed PROVE made[i] = EntryField(tr[i - 1], w[i])
    <3>1. tr[i - 1] = X[i - 1]
      <4>1. i - 1 \in 0 .. n
        OBVIOUS
      <4> QED
        BY <1>2, <2>1, <4>1
    <3> QED
      BY <1>1, <3>1
  <2> QED
    BY <1>2, <2>1 DEF Turns
<1>4. PICK g : g = (CHOOSE x : Loop(x)) /\ Loop(g)
  BY <1>3
<1>5. ASSUME NEW i \in 1 .. n
      PROVE  /\ g[i - 1] = Failed => g[i] = Failed
             /\ g[i - 1] = X[i - 1] => g[i] \in {X[i], Failed}
  <2>1. \A j \in 0 .. n : g[j] = IF j = 0 THEN m
                        ELSE IF g[j - 1] = Failed THEN Failed ELSE EntryField(g[j - 1], w[j])
    BY <1>4
  <2>2. g[i] = IF g[i - 1] = Failed THEN Failed ELSE EntryField(g[i - 1], w[i])
    BY <2>1
  <2> QED
    BY <2>2
<1>6. g[n] \in {X[n], Failed}
  <2>1. g[0] = X[0]
    BY <1>4
  <2> QED
    BY <1>5, <2>1, LastTurn
<1>7. EntryParse(m, w) = g[n]
  BY <1>4 DEF EntryParse, ParseFields
<1> QED
  BY <1>6, <1>7

-----------------------------------------------------------------------------
\* The dataset of a reply, and the container with nothing else

FlatDataset(d) == [case |-> "flat", packet |-> EmptyPacket, flat |-> d, unknown |-> <<>>]
OneTable(d) ==
    [structure_version |-> 0, fields |-> NoMap, datasets |-> Put(NoMap, DatasetId, FlatDataset(d)),
     packet_data |-> 0, unknown |-> <<>>]

LEMMA Allocated ==
    ASSUME NEW d
    PROVE  SetAllocatedFlat(EmptyDataset, d) = FlatDataset(d)
<1>1. PICK e : e = EmptyDataset
  OBVIOUS
<1>2. e = [case |-> "none", packet |-> EmptyPacket, flat |-> EmptyFlat, unknown |-> <<>>]
  BY <1>1, Zenon DEF EmptyDataset
<1>3. [[[e EXCEPT !.case = "none"] EXCEPT !.packet = EmptyPacket] EXCEPT !.flat = EmptyFlat] = e
  <2>1. [e EXCEPT !.case = "none"] = e
    BY <1>2
  <2>2. [e EXCEPT !.packet = EmptyPacket] = e
    BY <1>2
  <2>3. [e EXCEPT !.flat = EmptyFlat] = e
    BY <1>2
  <2> QED
    BY <2>1, <2>2, <2>3, Zenon
<1>4. DatasetClearData(EmptyDataset) = e
  BY <1>1, <1>3, Zenon DEF DatasetClearData
<1>5. PICK g : g = [e EXCEPT !.case = "flat"]
  OBVIOUS
<1>6. g = [case |-> "flat", packet |-> EmptyPacket, flat |-> EmptyFlat, unknown |-> <<>>]
  BY <1>2, <1>5
<1>7. [g EXCEPT !.flat = d] = FlatDataset(d)
  BY <1>6 DEF FlatDataset
<1> QED
  BY <1>4, <1>5, <1>7, Zenon DEF SetAllocatedFlat

LEMMA FreshFlat == MutableFlat(EmptyDataset) = FlatDataset(EmptyFlat)
<1>1. EmptyDataset.case # "flat"
  BY DEF EmptyDataset
<1> QED
  BY <1>1, Allocated DEF MutableFlat

LEMMA DatasetRead ==
    ASSUME NEW d, TextTable(d), NEW order
    PROVE  DatasetParse(EmptyDataset, DatasetSerialize(FlatDataset(d), order)) \in {FlatDataset(d), Failed}
<1>1. PICK f : f = Sub(2, FlatByteSize(d), FlatSerialize(d))
  OBVIOUS
<1>2. DatasetSerialize(FlatDataset(d), order) = <<f>>
  <2>1. PICK e : e = FlatDataset(d)
    OBVIOUS
  <2>2. e = [case |-> "flat", packet |-> EmptyPacket, flat |-> d, unknown |-> <<>>]
    BY <2>1, Zenon DEF FlatDataset
  <2>3. e = FlatDataset(d) /\ e.case = "flat" /\ e.flat = d /\ e.unknown = <<>>
    BY <2>1, <2>2
  <2>4. DatasetSerialize(e, order) = <<f>> \o <<>>
    BY <1>1, <2>3 DEF DatasetSerialize
  <2> QED
    BY <2>3, <2>4
<1>3. DatasetField(EmptyDataset, f) \in {FlatDataset(d), Failed}
  <2>1. Is(f, 2, "msg") /\ f.msg = FlatSerialize(d) /\ ~Is(f, 1, "msg")
    BY <1>1 DEF Is, Sub
  <2>2. PICK v : v = ParseMessage(FlatParse, EmptyFlat, f)
    OBVIOUS
  <2>3. v \in {d, Failed}
    BY <2>1, <2>2, FlatRead DEF ParseMessage
  <2>4. PICK e : e = MutableFlat(EmptyDataset) /\ e = FlatDataset(EmptyFlat)
    BY FreshFlat
  <2>5. e.flat = EmptyFlat
    BY <2>4 DEF FlatDataset
  <2>6. DatasetField(EmptyDataset, f) = With(e, "flat", ParseMessage(FlatParse, e.flat, f))
    BY <2>1, <2>4 DEF DatasetField
  <2>7. DatasetField(EmptyDataset, f) = With(e, "flat", v)
    BY <2>2, <2>5, <2>6
  <2>8. [e EXCEPT !["flat"] = d] = FlatDataset(d)
    BY <2>4 DEF FlatDataset
  <2> QED
    BY <2>3, <2>7, <2>8 DEF With
<1>4. PICK X : X = [i \in 0 .. 1 |-> IF i = 0 THEN EmptyDataset ELSE FlatDataset(d)]
  OBVIOUS
<1>5. X[0] = EmptyDataset /\ X[1] = FlatDataset(d)
  BY <1>4
<1>6. Len(<<f>>) = 1 /\ \A i \in 1 .. 1 : DatasetField(X[i - 1], <<f>>[i]) \in {X[i], Failed}
  BY <1>3, <1>5
<1>7. DatasetParse(EmptyDataset, <<f>>) \in {X[1], Failed}
  BY <1>5, <1>6, DatasetTurns
<1> QED
  BY <1>2, <1>5, <1>7

\* The entry of the map of datasets.
LEMMA EntryRead ==
    ASSUME NEW d, TextTable(d), NEW order, NEW k, NEW size, NEW f,
           f = WriteEntry(3, k, size, DatasetSerialize(FlatDataset(d), order))
    PROVE  ParseEntry(DatasetParse, EmptyDataset, NoMap, f) \in {Put(NoMap, k, FlatDataset(d)), Failed}
<1>1. PICK w, a, b : /\ w = <<a, b>> /\ a = Varint(1, k)
                     /\ b = Sub(2, size, DatasetSerialize(FlatDataset(d), order))
  OBVIOUS
<1>2. f.msg = w
  BY <1>1 DEF WriteEntry, Sub
<1>3. PICK e0, e1, e2 : /\ e0 = [key |-> 0, value |-> EmptyDataset]
                        /\ e1 = [key |-> k, value |-> EmptyDataset]
                        /\ e2 = [key |-> k, value |-> FlatDataset(d)]
  OBVIOUS
<1>4. EntryField(e0, a) = e1
  <2>1. Is(a, 1, "varint") /\ a.varint = k
    BY <1>1 DEF Is, Varint
  <2>2. [e0 EXCEPT !.key = k] = e1
    BY <1>3
  <2> QED
    BY <2>1, <2>2 DEF EntryField
<1>5. EntryField(e1, b) \in {e2, Failed}
  <2>1. ~Is(b, 1, "varint") /\ Is(b, 2, "msg") /\ b.msg = DatasetSerialize(FlatDataset(d), order)
    BY <1>1 DEF Is, Sub
  <2>2. PICK v : v = ParseMessage(DatasetParse, EmptyDataset, b)
    OBVIOUS
  <2>3. v \in {FlatDataset(d), Failed}
    BY <2>1, <2>2, DatasetRead DEF ParseMessage
  <2>4. e1.value = EmptyDataset
    BY <1>3
  <2>5. EntryField(e1, b) = With(e1, "value", v)
    BY <2>1, <2>2, <2>4 DEF EntryField
  <2>6. [e1 EXCEPT !["value"] = FlatDataset(d)] = e2
    BY <1>3
  <2> QED
    BY <2>3, <2>5, <2>6 DEF With
<1>6. PICK X : X = [i \in 0 .. 2 |-> IF i = 0 THEN e0 ELSE IF i = 1 THEN e1 ELSE e2]
  OBVIOUS
<1>7. X[0] = e0 /\ X[1] = e1 /\ X[2] = e2
  BY <1>6
<1>8. Len(w) = 2 /\ w[1] = a /\ w[2] = b
  BY <1>1
<1>9. ASSUME NEW i \in 1 .. 2 PROVE EntryField(X[i - 1], w[i]) \in {X[i], Failed}
  <2>1. CASE i = 1
    BY <1>4, <1>7, <1>8, <2>1
  <2>2. CASE i = 2
    BY <1>5, <1>7, <1>8, <2>2
  <2> QED
    BY <2>1, <2>2
<1>10. EntryParse(e0, w) \in {e2, Failed}
  BY <1>7, <1>8, <1>9, EntryTurns
<1>11. PICK entry : entry = ParseMessage(EntryParse, e0, f)
  OBVIOUS
<1>12. entry \in {e2, Failed}
  BY <1>2, <1>10, <1>11 DEF ParseMessage
<1>13. ParseEntry(DatasetParse, EmptyDataset, NoMap, f)
         = IF entry = Failed THEN Failed ELSE Put(NoMap, entry.key, entry.value)
  BY <1>3, <1>11, Zenon DEF ParseEntry, ParseMessage, EntryParse, EntryField
<1>14. entry # Failed => entry.key = k /\ entry.value = FlatDataset(d)
  BY <1>3, <1>12
<1> QED
  BY <1>13, <1>14

-----------------------------------------------------------------------------
\* The keys of a map

\* The walk along the order: tr[i] are the keys among the first i.
Walk(order, map, n, tr) ==
    /\ tr = [i \in 0 .. n |-> tr[i]] /\ tr[0] = <<>>
    /\ \A i \in 1 .. n :
        tr[i] = tr[i - 1] \o (IF order[i] \in DOMAIN map THEN <<order[i]>> ELSE <<>>)

LEMMA KeysAre ==
    ASSUME NEW order, NEW map, NEW tr, Len(order) \in Nat, Walk(order, map, Len(order), tr)
    PROVE  KeysIn(order, map) = tr[Len(order)]
<1>1. PICK n : n = Len(order) /\ n \in Nat
  OBVIOUS
<1>2. /\ tr = [i \in 0 .. n |-> tr[i]] /\ tr[0] = <<>>
      /\ \A i \in 1 .. n :
          tr[i] = tr[i - 1] \o (IF order[i] \in DOMAIN map THEN <<order[i]>> ELSE <<>>)
  BY <1>1 DEF Walk
<1> DEFINE Loop(g) == g = [i \in 0 .. n |-> IF i = 0 THEN <<>>
            ELSE g[i - 1] \o (IF order[i] \in DOMAIN map THEN <<order[i]>> ELSE <<>>)]
<1>3. Loop(tr)
  <2>1. ASSUME NEW i \in 0 .. n
        PROVE  tr[i] = IF i = 0 THEN <<>>
                       ELSE tr[i - 1] \o (IF order[i] \in DOMAIN map THEN <<order[i]>> ELSE <<>>)
    <3>1. CASE i = 0
      BY <1>2, <3>1
    <3>2. CASE i # 0
      <4>1. i \in 1 .. n
        BY <3>2
      <4> QED
        BY <1>2, <3>2, <4>1, Zenon
    <3> QED
      BY <3>1, <3>2
  <2> QED
    BY <1>2, <2>1
<1>4. PICK g : g = (CHOOSE x : Loop(x)) /\ Loop(g)
  BY <1>3
<1>5. PICK S : S = {i \in 0 .. n : g[i] = tr[i]}
  OBVIOUS
<1>6. \A i \in 0 .. n : g[i] = IF i = 0 THEN <<>>
            ELSE g[i - 1] \o (IF order[i] \in DOMAIN map THEN <<order[i]>> ELSE <<>>)
  BY <1>4
<1>7. 0 \in S
  <2>1. 0 \in 0 .. n
    BY <1>1
  <2>2. g[0] = <<>>
    BY <1>6, <2>1, Zenon
  <2> QED
    BY <1>5, <1>2, <2>1, <2>2
<1>8. ASSUME NEW i \in 0 .. n - 1, i \in S PROVE i + 1 \in S
  <2>1. i + 1 \in 1 .. n /\ i + 1 \in 0 .. n /\ (i + 1) - 1 = i /\ i + 1 # 0
    BY <1>1
  <2>2. g[i + 1] = g[i] \o (IF order[i + 1] \in DOMAIN map THEN <<order[i + 1]>> ELSE <<>>)
    BY <1>6, <2>1
  <2>3. tr[i + 1] = tr[i] \o (IF order[i + 1] \in DOMAIN map THEN <<order[i + 1]>> ELSE <<>>)
    BY <1>2, <2>1
  <2> QED
    BY <1>5, <1>8, <2>1, <2>2, <2>3
<1>9. 0 .. n \subseteq S
  BY <1>1, <1>7, <1>8, UpTo
<1>10. g[n] = tr[n]
  BY <1>1, <1>5, <1>9
<1>11. KeysIn(order, map) = g[n]
  BY <1>1, <1>4 DEF KeysIn
<1> QED
  BY <1>1, <1>10, <1>11

LEMMA NoKeys ==
    ASSUME NEW order \in Seq(Nat)
    PROVE  KeysIn(order, NoMap) = <<>>
<1>1. PICK n : n = Len(order) /\ n \in Nat
  OBVIOUS
<1>2. PICK tr : tr = [i \in 0 .. n |-> <<>>]
  OBVIOUS
<1>3. tr[n] = <<>> /\ tr[0] = <<>>
  BY <1>1, <1>2
<1>4. tr = [i \in 0 .. n |-> tr[i]]
  BY <1>2
<1>5. ASSUME NEW i \in 1 .. n
      PROVE  tr[i] = tr[i - 1] \o (IF order[i] \in DOMAIN NoMap THEN <<order[i]>> ELSE <<>>)
  <2>1. tr[i] = <<>> /\ tr[i - 1] = <<>>
    BY <1>1, <1>2
  <2>2. order[i] \notin DOMAIN NoMap
    BY EmptyMap
  <2>3. <<>> \o <<>> = <<>>
    OBVIOUS
  <2> QED
    BY <2>1, <2>2, <2>3
<1> QED
  BY <1>1, <1>3, <1>4, <1>5, KeysAre DEF Walk

LEMMA OneKey ==
    ASSUME NEW order \in Seq(Nat), \A i, j \in DOMAIN order : order[i] = order[j] => i = j,
           NEW k, \E i \in DOMAIN order : order[i] = k, NEW map, DOMAIN map = {k}
    PROVE  KeysIn(order, map) = <<k>>
<1>1. PICK n : n = Len(order) /\ n \in Nat /\ DOMAIN order = 1 .. n
  OBVIOUS
<1>2. PICK at \in 1 .. n : order[at] = k
  BY <1>1
<1>3. PICK tr : tr = [i \in 0 .. n |-> IF i < at THEN <<>> ELSE <<k>>]
  OBVIOUS
<1>4. tr[n] = <<k>> /\ tr[0] = <<>>
  BY <1>1, <1>2, <1>3
<1>5. tr = [i \in 0 .. n |-> tr[i]]
  BY <1>3
<1>6. ASSUME NEW i \in 1 .. n
      PROVE  tr[i] = tr[i - 1] \o (IF order[i] \in DOMAIN map THEN <<order[i]>> ELSE <<>>)
  <2>1. /\ tr[i] = IF i < at THEN <<>> ELSE <<k>>
        /\ tr[i - 1] = IF i - 1 < at THEN <<>> ELSE <<k>>
    BY <1>1, <1>3
  <2>2. order[i] = k <=> i = at
    BY <1>1, <1>2
  <2>3. <<>> \o <<>> = <<>> /\ <<k>> \o <<>> = <<k>> /\ <<>> \o <<k>> = <<k>>
    OBVIOUS
  <2>4. PICK a : a = IF order[i] \in DOMAIN map THEN <<order[i]>> ELSE <<>>
    OBVIOUS
  <2>5. a = IF i = at THEN <<k>> ELSE <<>>
    BY <2>2, <2>4
  <2>6. tr[i] = tr[i - 1] \o a
    <3>1. CASE i < at
      <4>1. i - 1 < at /\ i # at
        BY <3>1
      <4> QED
        BY <2>1, <2>3, <2>5, <3>1, <4>1, Zenon
    <3>2. CASE i = at
      <4>1. i - 1 < at /\ ~(i < at)
        BY <3>2
      <4> QED
        BY <2>1, <2>3, <2>5, <3>2, <4>1, Zenon
    <3>3. CASE at < i
      <4>1. ~(i - 1 < at) /\ ~(i < at) /\ i # at
        BY <1>1, <3>3
      <4> QED
        BY <2>1, <2>3, <2>5, <4>1, Zenon
    <3> QED
      BY <1>1, <3>1, <3>2, <3>3
  <2> QED
    BY <2>4, <2>6
<1>7. \A i \in 1 .. n :
        tr[i] = tr[i - 1] \o (IF order[i] \in DOMAIN map THEN <<order[i]>> ELSE <<>>)
  BY <1>6, Zenon
<1>8. Walk(order, map, n, tr)
  BY <1>4, <1>5, <1>7, Zenon DEF Walk
<1> QED
  BY <1>1, <1>4, <1>8, KeysAre

LEMMA TableParts ==
    ASSUME NEW d, NEW m, m = OneTable(d)
    PROVE  /\ m.structure_version = 0 /\ m.fields = NoMap /\ m.packet_data = 0 /\ m.unknown = <<>>
           /\ m.datasets = Put(NoMap, DatasetId, FlatDataset(d))
           /\ DOMAIN m.datasets = {DatasetId} /\ m.datasets[DatasetId] = FlatDataset(d)
<1>1. PICK ds : ds = Put(NoMap, DatasetId, FlatDataset(d))
  OBVIOUS
<1>2. m = [structure_version |-> 0, fields |-> NoMap, datasets |-> ds, packet_data |-> 0,
           unknown |-> <<>>]
  BY <1>1, Zenon DEF OneTable
<1>3. DOMAIN ds = {DatasetId} /\ ds[DatasetId] = FlatDataset(d)
  BY <1>1, EmptyMap DEF Put
<1> QED
  BY <1>1, <1>2, <1>3

LEMMA ContainerWritten ==
    ASSUME NEW d, NEW order \in Orders
    PROVE  \E size : ContainerSerialize(OneTable(d), order)
                       = <<WriteEntry(3, DatasetId, size, DatasetSerialize(FlatDataset(d), order))>>
<1>1. PICK m : m = OneTable(d)
  OBVIOUS
<1>2. /\ m.structure_version = 0 /\ m.fields = NoMap /\ m.packet_data = 0 /\ m.unknown = <<>>
      /\ DOMAIN m.datasets = {DatasetId} /\ m.datasets[DatasetId] = FlatDataset(d)
  BY <1>1, TableParts
<1>3. PICK fs, ds : fs = KeysIn(order, m.fields) /\ ds = KeysIn(order, m.datasets)
  OBVIOUS
<1>4. /\ order \in Seq(Nat) /\ \A i, j \in DOMAIN order : order[i] = order[j] => i = j
      /\ \E i \in DOMAIN order : order[i] = DatasetId
  BY OrdersAssumption, DatasetIdIs
<1>5. fs = <<>>
  BY <1>2, <1>3, <1>4, NoKeys
<1>6. ds = <<DatasetId>>
  BY <1>2, <1>3, <1>4, OneKey
<1>7. PICK A : A = [i \in DOMAIN fs |-> WriteEntry(2, fs[i], ValueByteSize(m.fields[fs[i]]),
                                           ValueSerialize(m.fields[fs[i]]))]
  OBVIOUS
<1>8. A = <<>>
  <2>1. DOMAIN fs = {}
    BY <1>5
  <2>2. DOMAIN A = {} /\ A = [i \in {} |-> A[i]]
    BY <1>7, <2>1
  <2> QED
    BY <2>2
<1>9. PICK B : B = [i \in DOMAIN ds |-> WriteEntry(3, ds[i], DatasetByteSize(m.datasets[ds[i]]),
                                           DatasetSerialize(m.datasets[ds[i]], order))]
  OBVIOUS
<1>10. PICK size, f : /\ size = DatasetByteSize(FlatDataset(d))
                      /\ f = WriteEntry(3, DatasetId, size, DatasetSerialize(FlatDataset(d), order))
  OBVIOUS
<1>11. B = <<f>>
  <2>1. DOMAIN ds = 1 .. 1 /\ ds[1] = DatasetId
    BY <1>6
  <2>2. B[1] = f
    BY <1>2, <1>9, <1>10, <2>1
  <2>3. B = [i \in 1 .. 1 |-> B[i]]
    BY <1>9, <2>1
  <2> QED
    BY <2>2, <2>3
<1>12. NonZero(1, m.structure_version) = <<>> /\ NonZero(4, m.packet_data) = <<>>
  BY <1>2 DEF NonZero
<1>13. ContainerSerialize(m, order)
         = NonZero(1, m.structure_version) \o A \o B \o NonZero(4, m.packet_data) \o m.unknown
  BY <1>3, <1>7, <1>9, Zenon DEF ContainerSerialize
<1>14. ContainerSerialize(m, order) = <<>> \o <<>> \o <<f>> \o <<>> \o <<>>
  BY <1>2, <1>8, <1>11, <1>12, <1>13, Zenon
<1>15. <<>> \o <<>> \o <<f>> \o <<>> \o <<>> = <<f>>
  OBVIOUS
<1> QED
  BY <1>1, <1>10, <1>14, <1>15, Zenon

LEMMA ContainerRead ==
    ASSUME NEW d, TextTable(d), NEW order \in Orders
    PROVE  ContainerParse(EmptyContainer, ContainerSerialize(OneTable(d), order)) \in {OneTable(d), Failed}
<1>1. PICK size, f : /\ ContainerSerialize(OneTable(d), order) = <<f>>
                     /\ f = WriteEntry(3, DatasetId, size, DatasetSerialize(FlatDataset(d), order))
  BY ContainerWritten
<1>2. PICK e, ds : e = EmptyContainer /\ ds = Put(NoMap, DatasetId, FlatDataset(d))
  OBVIOUS
<1>3. e = [structure_version |-> 0, fields |-> NoMap, datasets |-> NoMap, packet_data |-> 0,
           unknown |-> <<>>]
  BY <1>2, Zenon DEF EmptyContainer
<1>4. ContainerField(e, f) \in {OneTable(d), Failed}
  <2>1. ~Is(f, 1, "varint") /\ ~Is(f, 2, "msg") /\ Is(f, 3, "msg") /\ ~Is(f, 4, "varint")
    BY <1>1 DEF Is, WriteEntry, Sub
  <2>2. PICK v : v = ParseEntry(DatasetParse, EmptyDataset, NoMap, f)
    OBVIOUS
  <2>3. v \in {ds, Failed}
    BY <1>1, <1>2, <2>2, EntryRead
  <2>4. e.datasets = NoMap
    BY <1>3
  <2>5. ContainerField(e, f) = With(e, "datasets", ParseEntry(DatasetParse, EmptyDataset, e.datasets, f))
    BY <2>1 DEF ContainerField
  <2>6. ContainerField(e, f) = With(e, "datasets", v)
    BY <2>2, <2>4, <2>5, Zenon
  <2>7. [e EXCEPT !["datasets"] = ds] = [structure_version |-> 0, fields |-> NoMap, datasets |-> ds,
                                         packet_data |-> 0, unknown |-> <<>>]
    BY <1>3
  <2>8. [e EXCEPT !["datasets"] = ds] = OneTable(d)
    BY <1>2, <2>7, Zenon DEF OneTable
  <2> QED
    BY <2>3, <2>6, <2>8 DEF With
<1>5. PICK X : X = [i \in 0 .. 1 |-> IF i = 0 THEN e ELSE OneTable(d)]
  OBVIOUS
<1>6. X[0] = e /\ X[1] = OneTable(d)
  BY <1>5
<1>7. Len(<<f>>) = 1 /\ \A i \in 1 .. 1 : ContainerField(X[i - 1], <<f>>[i]) \in {X[i], Failed}
  BY <1>4, <1>6
<1>8. ContainerParse(e, <<f>>) \in {X[1], Failed}
  BY <1>6, <1>7, ContainerTurns
<1> QED
  BY <1>1, <1>2, <1>6, <1>8

-----------------------------------------------------------------------------
\* The reply

LEMMA ReplyClass ==
    /\ Len(SqlReplyFields) = 3 /\ DOMAIN SqlReplyFields = 1 .. 3
    /\ SqlReplyFields[1] = [num |-> 1, name |-> "error_code", type |-> "varint"]
    /\ SqlReplyFields[2] = [num |-> 2, name |-> "error_text", type |-> "text"]
    /\ SqlReplyFields[3] = [num |-> 3, name |-> "result_type", type |-> "varint"]
BY DEF SqlReplyFields, Num, Str

LEMMA NumberRead ==
    ASSUME NEW x, NEW v, NEW n, NEW name,
           \/ n = 1 /\ name = "error_code"
           \/ n = 3 /\ name = "result_type"
    PROVE  SqlReplyField(x, Varint(n, v)) = [x EXCEPT ![name] = v]
<1>1. PICK f : f = Varint(n, v) /\ f = [num |-> n, varint |-> v]
  BY DEF Varint
<1>2. f.num = n /\ DOMAIN f = {"num", "varint"} /\ f["varint"] = v
  BY <1>1
<1>3. ~Is(f, 4, "msg")
  BY <1>2 DEF Is
<1>4. {i \in DOMAIN SqlReplyFields : Is(f, SqlReplyFields[i].num, SqlReplyFields[i].type)} = {n}
  BY <1>2, ReplyClass DEF Is
<1>5. (CHOOSE i \in {n} : TRUE) = n
  OBVIOUS
<1>6. SqlReplyFields[n].name = name /\ SqlReplyFields[n].type = "varint"
  BY ReplyClass
<1>7. ParseField(SqlReplyFields, x, f) = Set(x, name, v)
  BY <1>2, <1>4, <1>5, <1>6 DEF ParseField
<1> QED
  BY <1>1, <1>3, <1>7 DEF SqlReplyField, Set

LEMMA TextRead ==
    ASSUME NEW x, NEW v
    PROVE  SqlReplyField(x, Text(2, v)) \in {[x EXCEPT !["error_text"] = v], Failed}
<1>1. PICK f : f = Text(2, v) /\ f = [num |-> 2, text |-> v]
  BY DEF Text
<1>2. f.num = 2 /\ DOMAIN f = {"num", "text"} /\ f["text"] = v
  BY <1>1
<1>3. ~Is(f, 4, "msg")
  BY <1>2 DEF Is
<1>4. {i \in DOMAIN SqlReplyFields : Is(f, SqlReplyFields[i].num, SqlReplyFields[i].type)} = {2}
  BY <1>2, ReplyClass DEF Is
<1>5. (CHOOSE i \in {2} : TRUE) = 2
  OBVIOUS
<1>6. SqlReplyFields[2].name = "error_text" /\ SqlReplyFields[2].type = "text"
  BY ReplyClass
<1>7. ParseField(SqlReplyFields, x, f) \in {Set(x, "error_text", v), Failed}
  BY <1>2, <1>4, <1>5, <1>6 DEF ParseField
<1> QED
  BY <1>1, <1>3, <1>7 DEF SqlReplyField, Set

LEMMA FieldsWritten ==
    ASSUME NEW m, NEW c, NEW t, NEW r, c = m["error_code"], t = m["error_text"], r = m["result_type"]
    PROVE  FieldsOf(SqlReplyFields, m)
             = (IF c = 0 THEN <<>> ELSE <<Varint(1, c)>>)
               \o (IF t = 0 THEN <<>> ELSE <<Text(2, t)>>)
               \o (IF r = 0 THEN <<>> ELSE <<Varint(3, r)>>)
<1> DEFINE Field(k) == IF k.type = "text" THEN Text(k.num, m[k.name]) ELSE Varint(k.num, m[k.name])
           Part(i) == IF m[SqlReplyFields[i].name] = 0 THEN <<>> ELSE <<Field(SqlReplyFields[i])>>
           Loop(g) == g = [i \in 0 .. 3 |-> IF i = 0 THEN <<>> ELSE g[i - 1] \o Part(i)]
<1>1. /\ Part(1) = IF c = 0 THEN <<>> ELSE <<Varint(1, c)>>
      /\ Part(2) = IF t = 0 THEN <<>> ELSE <<Text(2, t)>>
      /\ Part(3) = IF r = 0 THEN <<>> ELSE <<Varint(3, r)>>
  BY ReplyClass
<1>2. PICK a, b, e : a = Part(1) /\ b = Part(2) /\ e = Part(3)
  OBVIOUS
<1> HIDE DEF Part
<1>3. PICK p1, p2, p3 : p1 = <<>> \o a /\ p2 = p1 \o b /\ p3 = p2 \o e
  OBVIOUS
<1>4. PICK tr : tr = [i \in 0 .. 3 |-> IF i = 0 THEN <<>> ELSE IF i = 1 THEN p1
                                       ELSE IF i = 2 THEN p2 ELSE p3]
  OBVIOUS
<1>5. tr[0] = <<>> /\ tr[1] = p1 /\ tr[2] = p2 /\ tr[3] = p3
  BY <1>4
<1>6. tr[0] = <<>> /\ tr[1] = tr[0] \o a /\ tr[2] = tr[1] \o b /\ tr[3] = tr[2] \o e
  BY <1>3, <1>5, Zenon
<1>7. Loop(tr)
  <2>1. ASSUME NEW i \in 0 .. 3 PROVE tr[i] = IF i = 0 THEN <<>> ELSE tr[i - 1] \o Part(i)
    <3>1. CASE i = 0
      BY <1>6, <3>1
    <3>2. CASE i = 1
      <4>1. i - 1 = 0 /\ i # 0
        BY <3>2
      <4> QED
        BY <1>2, <1>6, <3>2, <4>1, Zenon
    <3>3. CASE i = 2
      <4>1. i - 1 = 1 /\ i # 0
        BY <3>3
      <4> QED
        BY <1>2, <1>6, <3>3, <4>1, Zenon
    <3>4. CASE i = 3
      <4>1. i - 1 = 2 /\ i # 0
        BY <3>4
      <4> QED
        BY <1>2, <1>6, <3>4, <4>1, Zenon
    <3> QED
      BY <3>1, <3>2, <3>3, <3>4
  <2> QED
    BY <1>4, <2>1
<1>8. PICK g : g = (CHOOSE x : Loop(x)) /\ Loop(g)
  BY <1>7
<1>9. \A i \in 0 .. 3 : g[i] = IF i = 0 THEN <<>> ELSE g[i - 1] \o Part(i)
  BY <1>8
<1>10. g[0] = <<>> /\ g[1] = g[0] \o a /\ g[2] = g[1] \o b /\ g[3] = g[2] \o e
  BY <1>2, <1>9
<1>11. FieldsOf(SqlReplyFields, m) = g[3]
  BY <1>8, ReplyClass DEF FieldsOf, Part
<1>12. g[3] = <<>> \o a \o b \o e
  BY <1>10, Zenon
<1>13. PICK S : S = {Varint(1, c), Text(2, t), Varint(3, r)}
  OBVIOUS
<1>14. a \in Seq(S)
  <2>1. <<>> \in Seq(S) /\ <<Varint(1, c)>> \in Seq(S)
    BY <1>13
  <2> QED
    BY <1>1, <1>2, <2>1
<1>15. <<>> \o a = a
  BY <1>14
<1> QED
  BY <1>1, <1>2, <1>11, <1>12, <1>15, Zenon

\* A reply that was made whole.
Reply(code, text, type, data) ==
    [error_code |-> code, error_text |-> text, result_type |-> type, data |-> data, unknown |-> <<>>]

LEMMA CodeRead ==
    ASSUME NEW c, NEW t, NEW y, NEW d, NEW v
    PROVE  SqlReplyField(Reply(c, t, y, d), Varint(1, v)) = Reply(v, t, y, d)
<1>1. SqlReplyField(Reply(c, t, y, d), Varint(1, v)) = [Reply(c, t, y, d) EXCEPT !["error_code"] = v]
  BY NumberRead
<1>2. [Reply(c, t, y, d) EXCEPT !["error_code"] = v] = Reply(v, t, y, d)
  BY DEF Reply
<1> QED
  BY <1>1, <1>2, Zenon

LEMMA TypeRead ==
    ASSUME NEW c, NEW t, NEW y, NEW d, NEW v
    PROVE  SqlReplyField(Reply(c, t, y, d), Varint(3, v)) = Reply(c, t, v, d)
<1>1. SqlReplyField(Reply(c, t, y, d), Varint(3, v)) = [Reply(c, t, y, d) EXCEPT !["result_type"] = v]
  BY NumberRead
<1>2. [Reply(c, t, y, d) EXCEPT !["result_type"] = v] = Reply(c, t, v, d)
  BY DEF Reply
<1> QED
  BY <1>1, <1>2, Zenon

LEMMA ErrorTextRead ==
    ASSUME NEW c, NEW t, NEW y, NEW d, NEW v
    PROVE  SqlReplyField(Reply(c, t, y, d), Text(2, v)) \in {Reply(c, v, y, d), Failed}
<1>1. SqlReplyField(Reply(c, t, y, d), Text(2, v))
        \in {[Reply(c, t, y, d) EXCEPT !["error_text"] = v], Failed}
  BY TextRead
<1>2. [Reply(c, t, y, d) EXCEPT !["error_text"] = v] = Reply(c, v, y, d)
  BY DEF Reply
<1> QED
  BY <1>1, <1>2, Zenon

\* Fields one after the other.
LEMMA Few ==
    ASSUME NEW f, NEW g, NEW h
    PROVE  /\ <<>> \o <<>> = <<>> /\ <<>> \o <<f>> = <<f>> /\ <<f>> \o <<>> = <<f>>
           /\ <<f>> \o <<g>> = <<f, g>> /\ <<f, g>> \o <<>> = <<f, g>>
           /\ <<f, g>> \o <<h>> = <<f, g, h>> /\ <<f, g, h>> \o <<>> = <<f, g, h>>
<1>1. PICK S : S = {f, g, h}
  OBVIOUS
<1>2. <<f>> \in Seq(S) /\ <<g>> \in Seq(S) /\ <<h>> \in Seq(S) /\ <<f, g>> \in Seq(S) /\ <<f, g, h>> \in Seq(S)
  BY <1>1
<1>3. <<>> \o <<>> = <<>> /\ <<>> \o <<f>> = <<f>> /\ <<f>> \o <<>> = <<f>>
  OBVIOUS
<1>4. <<f, g>> \o <<>> = <<f, g>> /\ <<f, g, h>> \o <<>> = <<f, g, h>>
  BY <1>2, ConcatEmptySeq
<1>5. <<f>> \o <<g>> = <<f, g>>
  <2>1. PICK s : s = <<f>> \o <<g>>
    OBVIOUS
  <2>2. s \in Seq(S) /\ Len(s) = 2 /\ s[1] = f /\ s[2] = g
    BY <1>2, <2>1, ConcatProperties
  <2>3. PICK t : t = <<f, g>>
    OBVIOUS
  <2>4. t \in Seq(S) /\ Len(t) = 2 /\ t[1] = f /\ t[2] = g
    BY <1>2, <2>3
  <2>5. \A i \in 1 .. 2 : s[i] = t[i]
    BY <2>2, <2>4
  <2> QED
    BY <2>1, <2>2, <2>3, <2>4, <2>5, SeqEqual
<1>6. <<f, g>> \o <<h>> = <<f, g, h>>
  <2>1. PICK s : s = <<f, g>> \o <<h>>
    OBVIOUS
  <2>2. s \in Seq(S) /\ Len(s) = 3 /\ s[1] = f /\ s[2] = g /\ s[3] = h
    BY <1>2, <2>1, ConcatProperties
  <2>3. PICK t : t = <<f, g, h>>
    OBVIOUS
  <2>4. t \in Seq(S) /\ Len(t) = 3 /\ t[1] = f /\ t[2] = g /\ t[3] = h
    BY <1>2, <2>3
  <2>5. \A i \in 1 .. 3 : s[i] = t[i]
    BY <2>2, <2>4
  <2> QED
    BY <2>1, <2>2, <2>3, <2>4, <2>5, SeqEqual
<1> QED
  BY <1>3, <1>4, <1>5, <1>6

\* A turn of the loop that makes b of a, unless it fails.
FieldTurn(a, f, b) == SqlReplyField(a, f) \in {b, Failed}

LEMMA OneTurn ==
    ASSUME NEW a, NEW b, NEW f, FieldTurn(a, f, b)
    PROVE  SqlReplyParse(a, <<f>>) \in {b, Failed}
<1>1. PICK X : X = [i \in 0 .. 1 |-> IF i = 0 THEN a ELSE b]
  OBVIOUS
<1>2. X[0] = a /\ X[1] = b
  BY <1>1
<1>3. Len(<<f>>) = 1 /\ \A i \in 1 .. 1 : SqlReplyField(X[i - 1], <<f>>[i]) \in {X[i], Failed}
  BY <1>2 DEF FieldTurn
<1> QED
  BY <1>2, <1>3, SqlReplyTurns

LEMMA TwoTurns ==
    ASSUME NEW a, NEW b, NEW c, NEW f, NEW g,
           FieldTurn(a, f, b), FieldTurn(b, g, c)
    PROVE  SqlReplyParse(a, <<f, g>>) \in {c, Failed}
<1>1. PICK X : X = [i \in 0 .. 2 |-> IF i = 0 THEN a ELSE IF i = 1 THEN b ELSE c]
  OBVIOUS
<1>2. X[0] = a /\ X[1] = b /\ X[2] = c
  BY <1>1
<1>3. PICK w : w = <<f, g>>
  OBVIOUS
<1>4. w = <<f, g>> /\ Len(w) = 2 /\ w[1] = f /\ w[2] = g
  BY <1>3
<1>5. ASSUME NEW i \in 1 .. 2 PROVE SqlReplyField(X[i - 1], w[i]) \in {X[i], Failed}
  <2>1. CASE i = 1
    BY <1>2, <1>4, <2>1 DEF FieldTurn
  <2>2. CASE i = 2
    BY <1>2, <1>4, <2>2 DEF FieldTurn
  <2> QED
    BY <2>1, <2>2
<1>6. SqlReplyParse(a, w) \in {X[2], Failed}
  BY <1>2, <1>4, <1>5, SqlReplyTurns
<1> QED
  BY <1>2, <1>4, <1>6

LEMMA ThreeTurns ==
    ASSUME NEW a, NEW b, NEW c, NEW d, NEW f, NEW g, NEW h,
           FieldTurn(a, f, b), FieldTurn(b, g, c), FieldTurn(c, h, d)
    PROVE  SqlReplyParse(a, <<f, g, h>>) \in {d, Failed}
<1>1. PICK X : X = [i \in 0 .. 3 |-> IF i = 0 THEN a ELSE IF i = 1 THEN b ELSE IF i = 2 THEN c ELSE d]
  OBVIOUS
<1>2. X[0] = a /\ X[1] = b /\ X[2] = c /\ X[3] = d
  BY <1>1
<1>3. PICK w : w = <<f, g, h>>
  OBVIOUS
<1>4. w = <<f, g, h>> /\ Len(w) = 3 /\ w[1] = f /\ w[2] = g /\ w[3] = h
  BY <1>3
<1>5. ASSUME NEW i \in 1 .. 3 PROVE SqlReplyField(X[i - 1], w[i]) \in {X[i], Failed}
  <2>1. CASE i = 1
    BY <1>2, <1>4, <2>1 DEF FieldTurn
  <2>2. CASE i = 2
    BY <1>2, <1>4, <2>2 DEF FieldTurn
  <2>3. CASE i = 3
    BY <1>2, <1>4, <2>3 DEF FieldTurn
  <2> QED
    BY <2>1, <2>2, <2>3
<1>6. SqlReplyParse(a, w) \in {X[3], Failed}
  BY <1>2, <1>4, <1>5, SqlReplyTurns
<1> QED
  BY <1>2, <1>4, <1>6

FieldIf(v, f) == IF v = 0 THEN <<>> ELSE <<f>>
DataField(d, order) ==
    IF d = <<>> THEN <<>> ELSE <<Sub(4, ContainerByteSize(d[1]), ContainerSerialize(d[1], order))>>

LEMMA ReplyWritten ==
    ASSUME NEW c, NEW t, NEW y, NEW d, NEW order
    PROVE  SqlReplySerialize(Reply(c, t, y, d), order)
             = (FieldIf(c, Varint(1, c)) \o FieldIf(t, Text(2, t)) \o FieldIf(y, Varint(3, y)))
               \o DataField(d, order) \o <<>>
<1>1. PICK m : m = Reply(c, t, y, d)
  OBVIOUS
<1>2. /\ m["error_code"] = c /\ m["error_text"] = t /\ m["result_type"] = y
      /\ m.data = d /\ m.unknown = <<>>
  BY <1>1 DEF Reply
<1>3. FieldsOf(SqlReplyFields, m)
        = FieldIf(c, Varint(1, c)) \o FieldIf(t, Text(2, t)) \o FieldIf(y, Varint(3, y))
  BY <1>2, FieldsWritten DEF FieldIf
<1>4. SqlReplySerialize(m, order) = FieldsOf(SqlReplyFields, m) \o DataField(d, order) \o <<>>
  BY <1>2, Zenon DEF SqlReplySerialize, DataField
<1> QED
  BY <1>1, <1>3, <1>4, Zenon

\* What the handler leaves in the reply.
HandlersReply(r) ==
    \/ \E t \in Nat : r = Reply(1, t, Error, <<>>)
    \/ r = Reply(0, 0, Command, <<>>)
    \/ \E d : TextTable(d) /\ r = Reply(0, 0, Select, <<OneTable(d)>>)

LEMMA DataRead ==
    ASSUME NEW c, NEW t, NEW y, NEW d, TextTable(d), NEW order \in Orders, NEW size
    PROVE  SqlReplyField(Reply(c, t, y, <<>>), Sub(4, size, ContainerSerialize(OneTable(d), order)))
             \in {Reply(c, t, y, <<OneTable(d)>>), Failed}
<1>1. PICK x, f : x = Reply(c, t, y, <<>>) /\ f = Sub(4, size, ContainerSerialize(OneTable(d), order))
  OBVIOUS
<1>2. Is(f, 4, "msg") /\ f.msg = ContainerSerialize(OneTable(d), order)
  BY <1>1 DEF Is, Sub
<1>3. SqlReplyData(x) = EmptyContainer
  BY <1>1 DEF SqlReplyData, Reply
<1>4. PICK v : v = ParseMessage(ContainerParse, EmptyContainer, f)
  OBVIOUS
<1>5. v \in {OneTable(d), Failed}
  BY <1>2, <1>4, ContainerRead DEF ParseMessage
<1>6. SqlReplyField(x, f) = IF v = Failed THEN Failed ELSE SetAllocatedData(x, v)
  BY <1>2, <1>3, <1>4, Zenon DEF SqlReplyField
<1>7. SetAllocatedData(x, OneTable(d)) = Reply(c, t, y, <<OneTable(d)>>)
  BY <1>1 DEF SetAllocatedData, Reply
<1> QED
  BY <1>1, <1>5, <1>6, <1>7

LEMMA ReplyRead ==
    ASSUME NEW r, HandlersReply(r), NEW order \in Orders
    PROVE  SqlReplyParse(NewSqlReply, SqlReplySerialize(r, order)) \in {r, Failed}
<1>1. PICK e : e = NewSqlReply /\ e = Reply(0, 0, 0, <<>>)
  BY DEF NewSqlReply, Reply
<1>2. Error = 1 /\ Select = 2 /\ Command = 3
  BY DEF Error, Select, Command
<1>3. ASSUME NEW t \in Nat, r = Reply(1, t, Error, <<>>)
      PROVE  SqlReplyParse(e, SqlReplySerialize(r, order)) \in {r, Failed}
  <2>1. PICK f, g, h : f = Varint(1, 1) /\ g = Text(2, t) /\ h = Varint(3, Error)
    OBVIOUS
  <2>2. SqlReplySerialize(r, order) = (<<f>> \o FieldIf(t, g) \o <<h>>) \o <<>> \o <<>>
    <3>1. SqlReplySerialize(r, order)
            = (FieldIf(1, f) \o FieldIf(t, g) \o FieldIf(Error, h)) \o DataField(<<>>, order) \o <<>>
      <4>1. SqlReplySerialize(Reply(1, t, Error, <<>>), order)
              = (FieldIf(1, Varint(1, 1)) \o FieldIf(t, Text(2, t)) \o FieldIf(Error, Varint(3, Error)))
                \o DataField(<<>>, order) \o <<>>
        BY ReplyWritten
      <4> QED
        BY <1>3, <2>1, <4>1, Zenon
    <3>2. FieldIf(1, f) = <<f>> /\ FieldIf(Error, h) = <<h>> /\ DataField(<<>>, order) = <<>>
      BY <1>2 DEF FieldIf, DataField
    <3> QED
      BY <3>1, <3>2, Zenon
  <2>3. SqlReplyField(e, f) = Reply(1, 0, 0, <<>>)
    BY <1>1, <2>1, CodeRead
  <2>4. SqlReplyField(Reply(1, t, 0, <<>>), h) = r
    BY <1>3, <2>1, TypeRead
  <2>5. CASE t = 0
    <3>1. (<<f>> \o <<>> \o <<h>>) \o <<>> \o <<>> = <<f, h>>
      BY Few, Zenon
    <3>2. SqlReplySerialize(r, order) = <<f, h>>
      <4>1. FieldIf(t, g) = <<>>
        BY <2>5 DEF FieldIf
      <4> QED
        BY <2>2, <3>1, <4>1, Zenon
    <3>3. SqlReplyParse(e, <<f, h>>) \in {r, Failed}
      <4>1. PICK x : x = Reply(1, 0, 0, <<>>)
        OBVIOUS
      <4>2. FieldTurn(e, f, x) /\ FieldTurn(x, h, r)
        BY <2>3, <2>4, <2>5, <4>1 DEF FieldTurn
      <4> QED
        BY <4>2, TwoTurns, Zenon
    <3> QED
      BY <3>2, <3>3
  <2>6. CASE t # 0
    <3>1. (<<f>> \o <<g>> \o <<h>>) \o <<>> \o <<>> = <<f, g, h>>
      BY Few, Zenon
    <3>2. SqlReplySerialize(r, order) = <<f, g, h>>
      <4>1. FieldIf(t, g) = <<g>>
        BY <2>6 DEF FieldIf
      <4> QED
        BY <2>2, <3>1, <4>1, Zenon
    <3>3. SqlReplyField(Reply(1, 0, 0, <<>>), g) \in {Reply(1, t, 0, <<>>), Failed}
      BY <2>1, ErrorTextRead
    <3>4. SqlReplyParse(e, <<f, g, h>>) \in {r, Failed}
      <4>1. PICK x, y : x = Reply(1, 0, 0, <<>>) /\ y = Reply(1, t, 0, <<>>)
        OBVIOUS
      <4>2. FieldTurn(e, f, x) /\ FieldTurn(x, g, y) /\ FieldTurn(y, h, r)
        BY <2>3, <2>4, <3>3, <4>1 DEF FieldTurn
      <4> QED
        BY <4>2, ThreeTurns, Zenon
    <3> QED
      BY <3>2, <3>4
  <2> QED
    BY <2>5, <2>6
<1>4. ASSUME r = Reply(0, 0, Command, <<>>)
      PROVE  SqlReplyParse(e, SqlReplySerialize(r, order)) \in {r, Failed}
  <2>1. PICK h : h = Varint(3, Command)
    OBVIOUS
  <2>2. SqlReplySerialize(r, order) = (<<>> \o <<>> \o <<h>>) \o <<>> \o <<>>
    <3>1. SqlReplySerialize(r, order)
            = (FieldIf(0, Varint(1, 0)) \o FieldIf(0, Text(2, 0)) \o FieldIf(Command, h))
              \o DataField(<<>>, order) \o <<>>
      <4>1. SqlReplySerialize(Reply(0, 0, Command, <<>>), order)
              = (FieldIf(0, Varint(1, 0)) \o FieldIf(0, Text(2, 0)) \o FieldIf(Command, Varint(3, Command)))
                \o DataField(<<>>, order) \o <<>>
        BY ReplyWritten
      <4> QED
        BY <1>4, <2>1, <4>1, Zenon
    <3>2. FieldIf(Command, h) = <<h>> /\ DataField(<<>>, order) = <<>> /\ \A x : FieldIf(0, x) = <<>>
      BY <1>2 DEF FieldIf, DataField
    <3> QED
      BY <3>1, <3>2, Zenon
  <2>3. (<<>> \o <<>> \o <<h>>) \o <<>> \o <<>> = <<h>>
    BY Few, Zenon
  <2>4. SqlReplyField(e, h) = r
    BY <1>1, <1>4, <2>1, TypeRead
  <2>5. SqlReplyParse(e, <<h>>) \in {r, Failed}
    BY <2>4, OneTurn DEF FieldTurn
  <2> QED
    BY <2>2, <2>3, <2>5
<1>5. ASSUME NEW d, TextTable(d), r = Reply(0, 0, Select, <<OneTable(d)>>)
      PROVE  SqlReplyParse(e, SqlReplySerialize(r, order)) \in {r, Failed}
  <2>1. PICK h, data, f : /\ h = Varint(3, Select) /\ data = <<OneTable(d)>>
                          /\ f = Sub(4, ContainerByteSize(OneTable(d)), ContainerSerialize(OneTable(d), order))
    OBVIOUS
  <2>2. data # <<>> /\ data[1] = OneTable(d)
    BY <2>1
  <2>3. SqlReplySerialize(r, order) = (<<>> \o <<>> \o <<h>>) \o <<f>> \o <<>>
    <3>1. SqlReplySerialize(r, order)
            = (FieldIf(0, Varint(1, 0)) \o FieldIf(0, Text(2, 0)) \o FieldIf(Select, h))
              \o DataField(data, order) \o <<>>
      <4>1. SqlReplySerialize(Reply(0, 0, Select, data), order)
              = (FieldIf(0, Varint(1, 0)) \o FieldIf(0, Text(2, 0)) \o FieldIf(Select, Varint(3, Select)))
                \o DataField(data, order) \o <<>>
        BY ReplyWritten
      <4> QED
        BY <1>5, <2>1, <4>1, Zenon
    <3>2. FieldIf(Select, h) = <<h>> /\ \A x : FieldIf(0, x) = <<>>
      BY <1>2 DEF FieldIf
    <3>3. DataField(data, order) = <<f>>
      BY <2>1, <2>2 DEF DataField
    <3> QED
      BY <3>1, <3>2, <3>3, Zenon
  <2>4. (<<>> \o <<>> \o <<h>>) \o <<f>> \o <<>> = <<h, f>>
    BY Few, Zenon
  <2>5. SqlReplyField(e, h) = Reply(0, 0, Select, <<>>)
    BY <1>1, <2>1, TypeRead
  <2>6. SqlReplyField(Reply(0, 0, Select, <<>>), f) \in {r, Failed}
    BY <1>5, <2>1, DataRead
  <2>7. SqlReplyParse(e, <<h, f>>) \in {r, Failed}
    <3>1. PICK x : x = Reply(0, 0, Select, <<>>)
      OBVIOUS
    <3>2. FieldTurn(e, h, x) /\ FieldTurn(x, f, r)
      BY <2>5, <2>6, <3>1 DEF FieldTurn
    <3> QED
      BY <3>2, TwoTurns, Zenon
  <2> QED
    BY <2>3, <2>4, <2>7
<1> QED
  BY <1>1, <1>3, <1>4, <1>5 DEF HandlersReply

-----------------------------------------------------------------------------
\* From the table to the client

LEMMA DatasetOpened ==
    ASSUME NEW rows, NEW columns
    PROVE  OpenDataset(EmptyContainer, DatasetId, rows, columns) = OneTable(NewFlat(rows, columns))
<1>1. PICK m, d : m = EmptyContainer /\ d = NewFlat(rows, columns)
  OBVIOUS
<1>2. m = [structure_version |-> 0, fields |-> NoMap, datasets |-> NoMap, packet_data |-> 0,
           unknown |-> <<>>]
  BY <1>1, Zenon DEF EmptyContainer
<1>3. ~Packed(m) /\ ~HasDataset(m, DatasetId)
  BY <1>2, EmptyMap DEF Packed, HasDataset
<1>4. PICK e : e = FlatDataset(d)
  OBVIOUS
<1>5. MutableFlat(e) = e
  BY <1>4 DEF MutableFlat, FlatDataset
<1>6. OpenDataset(m, DatasetId, rows, columns) = [m EXCEPT !.datasets = Put(@, DatasetId, MutableFlat(e))]
  BY <1>1, <1>3, <1>4, Allocated, Zenon DEF OpenDataset
<1>7. PICK ds : ds = Put(NoMap, DatasetId, e)
  OBVIOUS
<1>8. [m EXCEPT !.datasets = ds] = [structure_version |-> 0, fields |-> NoMap, datasets |-> ds,
                                    packet_data |-> 0, unknown |-> <<>>]
  BY <1>2
<1>9. m.datasets = NoMap
  BY <1>2
<1>10. OpenDataset(m, DatasetId, rows, columns) = [m EXCEPT !.datasets = ds]
  BY <1>5, <1>6, <1>7, <1>9
<1> QED
  BY <1>1, <1>4, <1>7, <1>8, <1>10, Zenon DEF OneTable

\* The dataset is there already.
LEMMA OpenedAgain ==
    ASSUME NEW d, NEW m, m = OneTable(d)
    PROVE  OpenDataset(m, DatasetId, 0, 0) = m
<1>1. /\ m.packet_data = 0 /\ DOMAIN m.datasets = {DatasetId}
      /\ m.datasets = Put(NoMap, DatasetId, FlatDataset(d))
      /\ m.datasets[DatasetId] = FlatDataset(d)
  BY TableParts
<1>2. ~Packed(m) /\ HasDataset(m, DatasetId)
  BY <1>1 DEF Packed, HasDataset
<1>3. MutableFlat(FlatDataset(d)) = FlatDataset(d)
  BY DEF MutableFlat, FlatDataset
<1>4. PICK ds : ds = m.datasets
  OBVIOUS
<1>5. Put(ds, DatasetId, FlatDataset(d)) = ds
  <2>1. PICK e : e = FlatDataset(d)
    OBVIOUS
  <2>2. ds = [x \in {DatasetId} |-> e]
    BY <1>1, <1>4, <2>1, EmptyMap DEF Put
  <2>3. Put(ds, DatasetId, e) = [x \in {DatasetId} |-> e]
    BY <2>2 DEF Put
  <2> QED
    BY <2>1, <2>2, <2>3
<1>6. OpenDataset(m, DatasetId, 0, 0) = [m EXCEPT !.datasets = Put(@, DatasetId, FlatDataset(d))]
  BY <1>1, <1>2, <1>3, Zenon DEF OpenDataset
<1>7. OpenDataset(m, DatasetId, 0, 0) = [m EXCEPT !.datasets = ds]
  BY <1>4, <1>5, <1>6
<1>8. m = [structure_version |-> 0, fields |-> NoMap, datasets |-> ds, packet_data |-> 0,
           unknown |-> <<>>]
  BY <1>1, <1>4, Zenon DEF OneTable
<1>9. [m EXCEPT !.datasets = ds] = m
  BY <1>8
<1> QED
  BY <1>7, <1>9

LEMMA TableReplaced ==
    ASSUME NEW d, NEW q, NEW m, m = OneTable(d)
    PROVE  [m EXCEPT !.datasets[DatasetId].flat = q] = OneTable(q)
<1>1. PICK ds : ds = m.datasets
  OBVIOUS
<1>2. ds = [x \in {DatasetId} |-> FlatDataset(d)]
  <2>1. PICK e : e = FlatDataset(d)
    OBVIOUS
  <2>2. ds = Put(NoMap, DatasetId, e)
    BY <1>1, <2>1, TableParts
  <2>3. ds = [x \in {DatasetId} |-> e]
    BY <2>2, EmptyMap DEF Put
  <2> QED
    BY <2>1, <2>3
<1>3. PICK e : e = [ds[DatasetId] EXCEPT !.flat = q]
  OBVIOUS
<1>4. e = FlatDataset(q)
  <2>1. ds[DatasetId] = FlatDataset(d)
    BY <1>2
  <2>2. [FlatDataset(d) EXCEPT !.flat = q] = FlatDataset(q)
    BY DEF FlatDataset
  <2> QED
    BY <1>3, <2>1, <2>2, Zenon
<1>5. PICK new : new = [ds EXCEPT ![DatasetId] = e]
  OBVIOUS
<1>6. new = Put(NoMap, DatasetId, e)
  <2>1. new = [x \in {DatasetId} |-> e]
    BY <1>2, <1>5
  <2>2. Put(NoMap, DatasetId, e) = [x \in {DatasetId} |-> e]
    BY EmptyMap DEF Put
  <2> QED
    BY <2>1, <2>2
<1>7. m = [structure_version |-> 0, fields |-> NoMap, datasets |-> ds, packet_data |-> 0,
           unknown |-> <<>>]
  BY <1>1, TableParts, Zenon DEF OneTable
<1>8. [m EXCEPT !.datasets = new] = [structure_version |-> 0, fields |-> NoMap, datasets |-> new,
                                     packet_data |-> 0, unknown |-> <<>>]
  BY <1>7
<1>9. [m EXCEPT !.datasets[DatasetId].flat = q] = [m EXCEPT !.datasets = new]
  BY <1>1, <1>3, <1>5
<1> QED
  BY <1>4, <1>6, <1>8, <1>9, Zenon DEF OneTable

\* What goes over the wire, and what comes of it.
WInv ==
    /\ phase = "filling" => \E d : container = OneTable(d)
    /\ query.connected =>
        /\ phase \in {"replying", "sent", "done"} => HandlersReply(reply)
        /\ phase = "sent" => \E order \in Orders : wire = SqlReplySerialize(reply, order)
        /\ phase = "done" => received \in {reply, Failed}

LEMMA AnswerSends == ASSUME XInv, Answer PROVE WInv'
<1>1. IsResult /\ Untouched
  BY BeforeAnswer
<1>2. reply = Reply(0, 0, 0, <<>>)
  BY <1>1 DEF Untouched, NewSqlReply, Reply
<1>3. CASE query.type = Error
  <2>1. /\ phase' = "replying"
        /\ \E t \in Texts : reply' = [reply EXCEPT !.result_type = query.type,
                                                  !.error_text = t, !.error_code = 1]
    BY <1>3, TypesDiffer, Zenon DEF Answer
  <2>2. PICK t \in Texts : reply' = [reply EXCEPT !.result_type = query.type,
                                                  !.error_text = t, !.error_code = 1]
    BY <2>1
  <2>3. reply' = Reply(1, t, Error, <<>>)
    <3>1. PICK a : a = [reply EXCEPT !.result_type = Error]
      OBVIOUS
    <3>2. a = Reply(0, 0, Error, <<>>)
      BY <1>2, <3>1 DEF Reply
    <3>3. PICK b : b = [a EXCEPT !.error_text = t]
      OBVIOUS
    <3>4. b = Reply(0, t, Error, <<>>)
      BY <3>2, <3>3 DEF Reply
    <3>5. [b EXCEPT !.error_code = 1] = Reply(1, t, Error, <<>>)
      BY <3>4 DEF Reply
    <3> QED
      BY <1>3, <2>2, <3>1, <3>3, <3>5, Zenon
  <2>4. HandlersReply(reply')
    BY <2>3, TextsAssumption DEF HandlersReply
  <2> QED
    BY <2>1, <2>4 DEF WInv
<1>4. CASE query.type = Command
  <2>1. phase' = "replying" /\ reply' = [reply EXCEPT !.result_type = query.type]
    BY <1>4, TypesDiffer, Zenon DEF Answer
  <2>2. [reply EXCEPT !.result_type = Command] = Reply(0, 0, Command, <<>>)
    BY <1>2 DEF Reply
  <2>3. HandlersReply(reply')
    BY <1>4, <2>1, <2>2 DEF HandlersReply
  <2> QED
    BY <2>1, <2>3 DEF WInv
<1>5. CASE query.type = Select
  <2>1. /\ phase' = "filling"
        /\ container' = OpenDataset(container, DatasetId, Len(query.table), query.columns)
    BY <1>5, TypesDiffer, Zenon DEF Answer
  <2>2. container' = OneTable(NewFlat(Len(query.table), query.columns))
    BY <1>1, <2>1, DatasetOpened DEF Untouched
  <2> QED
    BY <2>1, <2>2 DEF WInv
<1> QED
  BY <1>1, <1>3, <1>4, <1>5 DEF IsResult

LEMMA CopyCellFills == ASSUME XInv, WInv, CopyCell PROVE WInv'
<1>1. phase = "filling" /\ phase' = "filling"
  BY DEF CopyCell
<1>2. PICK d : container = OneTable(d)
  BY <1>1 DEF WInv
<1>3. PICK row, col, x : SetValue(DatasetId, row, col, x)
  BY DEF CopyCell
<1>4. PICK m : m = container
  OBVIOUS
<1>5. ~Packed(m)
  BY <1>2, <1>4, TableParts DEF Packed
<1>6. container' = [Opened(DatasetId, 0, 0) EXCEPT !.datasets[DatasetId].flat = SetFlat(@, row, col, x)]
  BY <1>3, <1>4, <1>5 DEF SetValue
<1>7. Opened(DatasetId, 0, 0) = m
  BY <1>2, <1>4, OpenedAgain DEF Opened
<1>8. PICK q : q = SetFlat(m.datasets[DatasetId].flat, row, col, x)
  OBVIOUS
<1>9. container' = [m EXCEPT !.datasets[DatasetId].flat = q]
  BY <1>6, <1>7, <1>8
<1>10. container' = OneTable(q)
  BY <1>2, <1>4, <1>9, TableReplaced
<1> QED
  BY <1>1, <1>10 DEF WInv

\* When the loops end every cell holds a string.
LEMMA TableCopied ==
    ASSUME Filling, filled = Len(query.table) * query.columns, NEW d, container = OneTable(d)
    PROVE  TextTable(d)
<1>1. PICK t, n, k, rows : t = query.table /\ n = query.columns /\ k = filled /\ rows = Len(t)
  OBVIOUS
<1>2. IsTable(t, n) /\ k = rows * n
  BY <1>1 DEF Filling
<1>3. rows \in Nat /\ n \in Nat
  BY <1>1, <1>2, BoundsAssumption DEF IsTable
<1>4. PICK m : m = container
  OBVIOUS
<1>5. /\ Good(m) /\ HasDataset(m, DatasetId) /\ ~Packed(m)
      /\ RowCount(m, DatasetId) = rows /\ ColumnCount(m, DatasetId) = n
  BY <1>1, <1>4 DEF Filling, IInv
<1>6. m.datasets[DatasetId] = FlatDataset(d)
  BY <1>4, TableParts
<1>7. FlatDataset(d).flat = d
  BY DEF FlatDataset
<1>8. Fits(FlatDataset(d))
  BY <1>5, <1>6, GoodFits DEF HasDataset
<1>9. d \in Flat /\ FlatSound(d) /\ Len(d.rows) = rows /\ d.column_count = n
  BY <1>5, <1>6, <1>7, <1>8 DEF Fits, IsDataset, RowCount, ColumnCount
<1>10. d.rows \in Seq(FlatRow) /\ DOMAIN d.rows = 1 .. rows
  BY <1>3, <1>9 DEF Flat
<1>11. ASSUME NEW i \in 1 .. rows PROVE TextRow(d.rows[i])
  <2>1. d.rows[i] \in FlatRow /\ Len(d.rows[i].data) = n
    BY <1>9, <1>10 DEF FlatSound
  <2>2. d.rows[i].data \in Seq(Value) /\ DOMAIN d.rows[i].data = 1 .. n
    BY <2>1 DEF FlatRow
  <2>3. ASSUME NEW j \in 1 .. n PROVE Textual(d.rows[i].data[j])
    <3>1. PICK r, c : r = i - 1 /\ c = j - 1
      OBVIOUS
    <3>2. /\ r \in 0 .. rows - 1 /\ c \in 0 .. n - 1 /\ r \in Nat /\ c \in Nat
          /\ i = r + 1 /\ j = c + 1 /\ r < rows /\ c < n
      BY <1>3, <3>1
    <3>3. r * n + c < k
      <4>1. r * n + n <= rows * n
        BY <1>3, <3>2, EarlierRow
      <4>2. r * n \in Nat /\ rows * n \in Nat
        BY <1>3, <3>2
      <4> QED
        BY <1>2, <1>3, <3>2, <4>1, <4>2
    <3>4. View(m, DatasetId, r, c) = [case |-> "v_string", val |-> TextOf(t[r + 1][c + 1])]
      <4>1. Copied
        BY DEF Filling
      <4> QED
        BY <1>1, <1>4, <3>2, <3>3, <4>1 DEF Copied, CellText
    <3>5. View(m, DatasetId, r, c) = Read(d.rows[i].data[j])
      BY <1>5, <1>6, <1>7, <1>9, <3>2 DEF View, FlatCell
    <3>6. PICK v : v = d.rows[i].data[j]
      OBVIOUS
    <3>7. v \in Value
      <4>1. PICK s : s = d.rows[i].data
        OBVIOUS
      <4>2. s \in Seq(Value) /\ Len(s) = n
        BY <2>1, <2>2, <4>1
      <4>3. s[j] \in Value
        BY <1>3, <4>2
      <4> QED
        BY <3>6, <4>1, <4>3
    <3>8. Read(v).case = "v_string"
      BY <3>4, <3>5, <3>6
    <3>9. v.case = "v_string"
      BY <3>8 DEF Read, Type
    <3> QED
      BY <3>6, <3>9, <3>7 DEF Textual
  <2> QED
    BY <2>1, <2>2, <2>3 DEF TextRow
<1> QED
  BY <1>9, <1>10, <1>11 DEF TextTable

LEMMA AttachDataSends == ASSUME XInv, WInv, AttachData PROVE WInv'
<1>1. phase = "filling" /\ phase' = "replying" /\ filled = Len(query.table) * query.columns
  BY DEF AttachData
<1>2. Filling
  BY <1>1 DEF XInv
<1>3. PICK d : container = OneTable(d)
  BY <1>1 DEF WInv
<1>4. TextTable(d)
  BY <1>1, <1>2, <1>3, TableCopied
<1>5. PICK a, m : a = reply /\ m = container
  OBVIOUS
<1>6. a = Reply(0, 0, Select, <<>>)
  <2>1. a = [NewSqlReply EXCEPT !.result_type = Select]
    BY <1>2, <1>5 DEF Filling
  <2> QED
    BY <2>1 DEF NewSqlReply, Reply
<1>7. reply' = [a EXCEPT !.data = <<m>>]
  BY <1>5 DEF AttachData, SetAllocatedData
<1>8. [a EXCEPT !.data = <<m>>] = Reply(0, 0, Select, <<m>>)
  BY <1>6 DEF Reply
<1>9. HandlersReply(reply')
  BY <1>3, <1>4, <1>5, <1>7, <1>8 DEF HandlersReply
<1> QED
  BY <1>1, <1>9 DEF WInv

LEMMA SendReplySends == ASSUME WInv, SendReply PROVE WInv'
<1>1. /\ phase = "replying" /\ phase' = "sent" /\ reply' = reply /\ query' = query
      /\ \E order \in Orders : wire' = SqlReplySerialize(reply, order)
  BY DEF SendReply
<1> QED
  BY <1>1 DEF WInv

LEMMA ReceiveReplyReads == ASSUME WInv, ReceiveReply PROVE WInv'
<1>1. /\ phase = "sent" /\ phase' = "done" /\ reply' = reply /\ query' = query
      /\ received' \in {Failed, SqlReplyParse(NewSqlReply, wire)}
  BY DEF ReceiveReply
<1>2. ASSUME query.connected PROVE HandlersReply(reply) /\ received' \in {reply, Failed}
  <2>1. HandlersReply(reply)
    BY <1>1, <1>2 DEF WInv
  <2>2. PICK order \in Orders : wire = SqlReplySerialize(reply, order)
    BY <1>1, <1>2 DEF WInv
  <2>3. SqlReplyParse(NewSqlReply, SqlReplySerialize(reply, order)) \in {reply, Failed}
    BY <2>1, ReplyRead
  <2> QED
    BY <1>1, <2>1, <2>2, <2>3
<1> QED
  BY <1>1, <1>2 DEF WInv

LEMMA WInductive == XInv /\ WInv /\ [Next]_vars => WInv'
<1> SUFFICES ASSUME XInv, WInv, [Next]_vars PROVE WInv'
  OBVIOUS
<1>1. CASE UNCHANGED vars
  BY <1>1 DEF vars, converterVars, exchangeVars, WInv
<1>2. CASE UseBinder \/ ExecRequest \/ DoExec \/ Abort
  <2>1. phase' \in {"client", "calling", "executed", "aborted"}
    BY <1>2 DEF UseBinder, ExecRequest, DoExec, Abort, exchangeVars
  <2> QED
    BY <2>1 DEF WInv
<1>3. CASE RefuseRequest \/ UseWrappers \/ AttachContainer
  <2>1. query' = query /\ query = NoQuery /\ phase' \in {"done", "library", "replying"}
    BY <1>3 DEF RefuseRequest, UseWrappers, AttachContainer, exchangeVars, XInv
  <2> QED
    BY <2>1, Disconnected DEF WInv
<1>4. CASE Answer
  BY <1>4, AnswerSends
<1>5. CASE CopyCell
  BY <1>5, CopyCellFills
<1>6. CASE AttachData
  BY <1>6, AttachDataSends
<1>7. CASE SendReply
  BY <1>7, SendReplySends
<1>8. CASE ReceiveReply
  BY <1>8, ReceiveReplyReads
<1> QED
  BY <1>1, <1>2, <1>3, <1>4, <1>5, <1>6, <1>7, <1>8 DEF Next

LEMMA WireBegins == Init => WInv
<1> SUFFICES ASSUME Init PROVE WInv
  OBVIOUS
<1>1. phase \in {"client", "library", "message"} /\ query = NoQuery
  BY DEF Init
<1> QED
  BY <1>1, Disconnected DEF WInv

LEMMA WireShows == XInv /\ WInv => ClientSeesOutcome
BY DEF XInv, WInv, ClientSeesOutcome, ReplyTellsOutcome, ShowsOutcome

\* For every table, every text and whatever order the maps are iterated in, and
\* for a reply with and without an error: what type(), error() and data() of the
\* client show after the call is what the database did, unless the call fails.
THEOREM OutcomeSeen == Spec => []ClientSeesOutcome
<1>1. Init => XInv
  BY Disconnected DEF Init, ConverterInit, XInv, Untouched, ReplyTellsOutcome
<1> QED
  BY <1>1, WireBegins, XInductive, WInductive, WireShows, PTL DEF Spec

=============================================================================
