------------------------------- MODULE ToneBody -------------------------------
(***************************************************************************)
(* The body of a `.hsp` preset.                                            *)
(*                                                                         *)
(* A path (flow) is a grid of two lanes.  The number of a cell is its      *)
(* position plus Stride times its lane, as in the keys b00 .. b27; the     *)
(* user's cells are at positions 1 .. MaxLane.  Block parameters are       *)
(* wrapped: the value, what controls it, and a value for each snapshot.    *)
(* Values are abstracted to a few numbers, ranges and wording left out.    *)
(***************************************************************************)
EXTENDS Integers, SequencesExt

CONSTANTS MaxLane,      \* cells of a lane (12 on the device)
          Slots,        \* snapshots of a preset (8 on the device)
          CategoryOf,   \* model -> category, for the models of the block library
          ParamsOf,     \* model -> its parameters
          IrModels,     \* the models that play an impulse response
          Footswitches, Pedals,
          None

ASSUME SizesAssumption == MaxLane \in Nat \ {0} /\ Slots \in Nat \ {0}

Models == DOMAIN CategoryOf
Stride == MaxLane + 2
TapCell == 2 * Stride - 1
Lane0 == 1..MaxLane
Lane1 == {Stride + n : n \in Lane0}
Lane(c) == IF c >= Stride THEN 1 ELSE 0
Pos(c) == c - Stride * Lane(c)

Wrapped(v) == [value |-> v, ctrl |-> None, snaps |-> None]

\* A block as `add_block` and the recipe make it: parameters at their default.
NewBlock(m) == [type |-> "block", model |-> m, on |-> Wrapped(TRUE),
                params |-> [q \in ParamsOf[m] |-> Wrapped(0)], ir |-> None]
Split(branch, end) == [type |-> "split", branch |-> branch, endpoint |-> end]
Join(branch, end) == [type |-> "join", branch |-> branch, endpoint |-> end]
Output(model) == [type |-> "output", model |-> model]

Placed(path, c) == c \in DOMAIN path.cells /\ path.cells[c].type = "block"
UserBlocks(b) == {x \in {<<i, c>> : i \in DOMAIN b.flow, c \in Lane0 \cup Lane1} :
                     Placed(b.flow[x[1]], x[2])}
BlockAt(b, x) == b.flow[x[1]].cells[x[2]]
SetBlock(b, x, block) == [b EXCEPT !.flow[x[1]].cells[x[2]] = block]

\* The wrapper of a parameter, or of the bypass ("on").
WrapperAt(b, x, q) == IF q = "on" THEN BlockAt(b, x).on ELSE BlockAt(b, x).params[q]
SetWrapper(b, x, q, w) ==
    IF q = "on" THEN [b EXCEPT !.flow[x[1]].cells[x[2]].on = w]
    ELSE [b EXCEPT !.flow[x[1]].cells[x[2]].params[q] = w]

Targets(b) == UNION {{<<x, q>> : q \in {"on"} \cup DOMAIN BlockAt(b, x).params} : x \in UserBlocks(b)}
ControlOf(b, t) == WrapperAt(b, t[1], t[2]).ctrl
Controlled(b) == {t \in Targets(b) : ControlOf(b, t) # None}

CellsOf(path, type) == {c \in DOMAIN path.cells : path.cells[c].type = type}
Ascending(cells) == SelectSeq([c \in 1..TapCell |-> c], LAMBDA c : c \in cells)
IsParallelRouted(path) == \E c \in CellsOf(path, "split") \cup CellsOf(path, "join") : Lane(c) = 0
=============================================================================
