------------------------------- MODULE Crossbar -------------------------------
(***************************************************************************)
(* The crossbar simulator (hardware/rtl/memory/memristor_crossbar_sim.sv): *)
(* one step is a clock edge.  A matrix-vector product takes one edge per   *)
(* cell and one more per row; single cells can be written while it runs.   *)
(* Bit c of the vector is the input of column c.  The single-cell read,    *)
(* which only copies a cell, is left out.                                  *)
(***************************************************************************)
EXTENDS Naturals, Sequences, FiniteSetsExt

CONSTANTS
    TileRows,    \* TILE_ROWS
    TileCols,    \* TILE_COLS
    Conductance, \* values a cell can have
    MaxProducts  \* bound on products between two resets

ASSUME CrossbarAssumption ==
    /\ TileRows \in Nat \ {0} /\ TileCols \in Nat \ {0}
    /\ Conductance \subseteq 0..255 /\ 0 \in Conductance
    /\ MaxProducts \in Nat

VARIABLES
    cell,        \* conductance
    vector,      \* the input mvm_vector: the columns whose bit is set
    mvm,         \* mvm_active, the two indices, the accumulator and busy
    emitted,     \* results of this product, in order (history)
    products,    \* products begun since the last reset (history)
    steady       \* no cell and no input changed since it began (history)

barVars == <<cell, vector, mvm, emitted, products, steady>>

TileRow == 0..TileRows - 1
TileCol == 0..TileCols - 1

MvmReset == [active |-> FALSE, row |-> 0, col |-> 0, acc |-> 0, busy |-> FALSE]

BarInit ==
    /\ cell = [p \in TileRow \X TileCol |-> 0]
    /\ vector = {}
    /\ mvm = MvmReset
    /\ emitted = <<>>
    /\ products = 0
    /\ steady = TRUE

(* Only the enable of a product keeps a cell from being written, not busy. *)
WriteCell(p, g) ==
    /\ cell' = [cell EXCEPT ![p] = g]
    /\ steady' = (steady /\ g = cell[p])

LastRow == mvm.row >= TileRows - 1

(* The cell the product reads: beyond the last row it holds anything.      *)
Cells == IF mvm.row \in TileRow THEN {cell[<<mvm.row, mvm.col>>]} ELSE Conductance

(* Mutant: the accumulator is kept for the next row.                       *)
RowStartKept(acc) == acc

RowStart(acc) == 0

(* One edge of the product: a cell, or the end of a row.  The end of the   *)
(* last row wins over an enable at the same edge.  The row index is not    *)
(* put back.                                                               *)
MvmEdge(enable) ==
    \/ /\ ~mvm.active
       /\ mvm' = [mvm EXCEPT !.active = enable, !.busy = @ \/ enable]
       /\ emitted' = IF enable THEN <<>> ELSE emitted
    \/ /\ mvm.active /\ mvm.col < TileCols
       /\ \E g \in Cells :
             mvm' = [mvm EXCEPT !.col = @ + 1, !.busy = @ \/ enable,
                         !.acc = IF mvm.col \in vector THEN @ + g ELSE @]
       /\ UNCHANGED emitted
    \/ /\ mvm.active /\ mvm.col >= TileCols
       /\ mvm' = [active |-> ~LastRow, row |-> mvm.row + 1, col |-> 0,
                  acc |-> RowStart(mvm.acc),
                  busy |-> ~LastRow /\ (mvm.busy \/ enable)]
       /\ emitted' = Append(emitted, mvm.acc)

BarIdle == MvmEdge(FALSE) /\ UNCHANGED <<cell, vector, products, steady>>

Write(p, g) ==
    /\ WriteCell(p, g)
    /\ MvmEdge(FALSE)
    /\ UNCHANGED <<vector, products>>

Enable(v) ==
    /\ products < MaxProducts
    /\ MvmEdge(TRUE)
    /\ vector' = v
    /\ products' = IF mvm.active THEN products ELSE products + 1
    /\ steady' = (~mvm.active \/ (steady /\ v = vector))
    /\ UNCHANGED cell

(* The cells are written to a file at a reset, and stay.                   *)
BarReset ==
    /\ mvm' = MvmReset
    /\ emitted' = <<>>
    /\ products' = 0
    /\ steady' = TRUE
    /\ UNCHANGED <<cell, vector>>

BarNext ==
    \/ BarIdle
    \/ \E p \in TileRow \X TileCol, g \in Conductance : Write(p, g)
    \/ \E v \in SUBSET TileCol : Enable(v)
    \/ BarReset

BarSpec == BarInit /\ [][BarNext]_barVars

-----------------------------------------------------------------------------
Terms(r) == [c \in TileCol |-> IF c \in vector THEN cell[<<r, c>>] ELSE 0]

RowSum(r) == MapThenSumSet(LAMBDA c : Terms(r)[c], TileCol)

(* The first product after a reset, also when it is enabled again while it *)
(* runs, emits the product of every row with the vector once, in order,    *)
(* and ends after the last, unless its cells or its input are changed      *)
(* under it.  Later products are not like that: they begin behind the last *)
(* row.                                                                    *)
FirstProductExact ==
    (products = 1 /\ steady) =>
        /\ emitted = [r \in 1..Len(emitted) |-> RowSum(r - 1)]
        /\ IF mvm.active THEN Len(emitted) < TileRows ELSE Len(emitted) = TileRows
=============================================================================
