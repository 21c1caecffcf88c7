----------------------------- MODULE CellStore -----------------------------
(***************************************************************************)
(* What a container of data promises to who fills it and who reads it on   *)
(* the other side: a table of cells, each empty or holding the value that  *)
(* was last written to it.  How rows are stored and how they travel cannot *)
(* be seen, as long as one kind of storage is kept.  To turn to the other  *)
(* hides every dataset stored in the first; to turn back shows it again,   *)
(* unless it was opened meanwhile and is empty.  A transfer shows the      *)
(* reader all cells as they were seen when it began, or nothing at all.    *)
(***************************************************************************)
CONSTANTS
    Cells,          \* the places a value can be written to
    Datasets,       \* disjoint sets of cells that are hidden together
    Values,         \* the values
    Untransferable, \* the values that no transfer survives
    Empty,          \* what an empty cell is read as
    Nothing,        \* no transfer under way, or nothing read yet
    Refused         \* what the reader has of a transfer that failed

VARIABLES
    cells,          \* the cells as they are stored
    hidden,         \* the datasets stored in the other way
    running,        \* nothing happens any more once it is FALSE
    moving,         \* the transfer under way: cells, hidden datasets, is it too large?
    seen            \* the cells of the last transfer at the reader
vars == <<cells, hidden, running, moving, seen>>

\* The cells without what is in S.
Without(S, t) == [c \in Cells |-> IF c \in S THEN Empty ELSE t[c]]

Init ==
    /\ cells = [c \in Cells |-> Empty]
    /\ hidden = {}
    /\ running = TRUE
    /\ moving = Nothing
    /\ seen = Nothing

\* Some value is written to a cell; the dataset the cell is in, if it is hidden, is emptied first.
Write(c) ==
    LET opened == {D \in hidden : c \in D} IN
    /\ cells'[c] \in Values
    /\ cells' = [Without(UNION opened, cells) EXCEPT ![c] = cells'[c]]
    /\ hidden' = hidden \ opened
    /\ UNCHANGED <<running, moving, seen>>

\* A hidden dataset is opened, no cell of it written.
Open(D) ==
    /\ D \in hidden
    /\ cells' = Without(D, cells)
    /\ hidden' = hidden \ {D}
    /\ UNCHANGED <<running, moving, seen>>

\* A cell that can be seen is cleared, or else the attempt ends everything.
Erase(c) ==
    /\ c \notin UNION hidden
    /\ cells' = [cells EXCEPT ![c] = Empty]
    /\ UNCHANGED <<hidden, running, moving, seen>>
Break(c) ==
    /\ c \notin UNION hidden
    /\ running' = FALSE
    /\ UNCHANGED <<cells, hidden, moving, seen>>

\* The other way of storage: what was hidden is seen, and what was seen is hidden,
\* but for datasets in which nothing is stored.
Turn ==
    /\ hidden' \in SUBSET Datasets
    /\ hidden' \cap hidden = {}
    /\ \A D \in Datasets \ (hidden \cup hidden') : \A c \in D : cells[c] = Empty
    /\ UNCHANGED <<cells, running, moving, seen>>

Send ==
    /\ moving = Nothing
    /\ \E large \in BOOLEAN : moving' = [cells |-> cells, hidden |-> hidden, large |-> large]
    /\ UNCHANGED <<cells, hidden, running, seen>>
Deliver ==
    /\ moving # Nothing
    /\ seen' = IF moving.large \/ \E c \in Cells : moving.cells[c] \in Untransferable
               THEN Refused ELSE Without(UNION moving.hidden, moving.cells)
    /\ moving' = Nothing
    /\ UNCHANGED <<cells, hidden, running>>

Next ==
    /\ running = TRUE
    /\ \/ \E c \in Cells : Write(c) \/ Erase(c) \/ Break(c)
       \/ \E D \in Datasets : Open(D)
       \/ Turn \/ Send \/ Deliver

Spec == Init /\ [][Next]_vars
=============================================================================
