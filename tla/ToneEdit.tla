------------------------------- MODULE ToneEdit -------------------------------
(***************************************************************************)
(* The edits of a preset body (mutate.py): each is a function from a body  *)
(* to the edited body, or to None when the code refuses the edit.  A block *)
(* is addressed by its coordinate x = <<path, cell>>: how a name is        *)
(* resolved to one is left out, but that a name may not be found is not.   *)
(***************************************************************************)
EXTENDS UsbTaps

-----------------------------------------------------------------------------
(* Values and snapshots.                                                   *)

\* A value for one snapshot; the others get the one in force without it.
InSnapshot(b, w, s, v, fill) ==
    LET old == IF w.snaps = None THEN [i \in 1..Slots |-> None] ELSE w.snaps
        dense == [i \in 1..Slots |-> IF i = s THEN v ELSE IF old[i] = None THEN fill ELSE old[i]]
    IN  [w EXCEPT !.snaps = dense, !.value = dense[b.active]]

MarkValid(b, s) ==
    IF b.named = None THEN b ELSE [b EXCEPT !.valid = @ \cup {s}]

\* Without the list of snapshots the device would never recall the values.
SetParam(b, x, q, v, s) ==
    LET w == WrapperAt(b, x, q)
    IN  IF ~(x \in UserBlocks(b) /\ q \in DOMAIN BlockAt(b, x).params) THEN None
        ELSE IF s = None THEN SetWrapper(b, x, q, [w EXCEPT !.value = v])
        ELSE IF b.named = None THEN None
        ELSE MarkValid(SetWrapper(b, x, q, InSnapshot(b, w, s, v, w.value)), s)

SetOutput(b, i, v, s) ==
    LET w == b.flow[i].level
    IN  IF s = None THEN [b EXCEPT !.flow[i].level.value = v]
        ELSE IF b.named = None THEN None
        ELSE MarkValid([b EXCEPT !.flow[i].level = InSnapshot(b, w, s, v, w.value)], s)

\* A snapshot that says nothing of the bypass has the block enabled.
SetEnabled(b, x, on, s) ==
    LET w == BlockAt(b, x).on
        now == IF w.snaps = None THEN [w EXCEPT !.value = on]
               ELSE [w EXCEPT !.value = on, !.snaps[b.active] = on]
    IN  IF x \notin UserBlocks(b) THEN None
        ELSE IF s = None THEN SetWrapper(b, x, "on", now)
        ELSE MarkValid(SetWrapper(b, x, "on", InSnapshot(b, w, s, on, TRUE)), s)

SetInput(b, i, jack) == [b EXCEPT !.flow[i].in = jack]
-----------------------------------------------------------------------------
(* Blocks.  The MIDI bindings are kept apart, by coordinate.               *)

\* The bindings after the cells of a path have moved, or one was removed.
Remapped(midi, i, to) ==
    {IF m.at[1] # i \/ m.at[2] \notin DOMAIN to THEN m ELSE [m EXCEPT !.at[2] = to[m.at[2]]] :
        m \in midi}
Dropped(midi, x) == {m \in midi : m.at # x}

\* A block is put after cell `lo`: the blocks in the way slide by one cell
\* into the nearest free one.
AddBlock(b, i, m, lo) ==
    LET path == b.flow[i]
        used == DOMAIN path.cells \cap Lane0
        free == Lane0 \ used
        right == Min({c \in free : c > lo} \cup {MaxLane + 1})
        left == Max({c \in free : c <= lo} \cup {0})
        rightwards == right <= MaxLane /\ (left < 1 \/ right - lo - 1 <= lo - left)
        new == IF rightwards THEN lo + 1 ELSE lo
        to == [c \in used |-> IF rightwards THEN IF lo < c /\ c < right THEN c + 1 ELSE c
                              ELSE IF left < c /\ c <= lo THEN c - 1 ELSE c]
        moved == [c \in {to[d] : d \in used} |-> path.cells[CHOOSE d \in used : to[d] = c]]
        lane1 == [c \in DOMAIN path.cells \ Lane0 |-> path.cells[c]]
    IN  IF IsParallelRouted(path) \/ (lo # 0 /\ ~Placed(path, lo)) \/ free = {} THEN None
        ELSE [b EXCEPT !.flow[i].cells = (new :> NewBlock(m)) @@ moved @@ lane1,
                       !.midi = Remapped(@, i, to)]

\* Without `after`, a block goes behind the last one.
AppendBlock(b, i, m) == AddBlock(b, i, m, Max({0} \cup (DOMAIN b.flow[i].cells \cap Lane0)))

\* The block's controllers go with it; what its switches show stays.
RemoveBlock(b, x) ==
    IF x \notin UserBlocks(b) \/ IsParallelRouted(b.flow[x[1]]) THEN None
    ELSE [b EXCEPT !.flow[x[1]] = Cleared(@, {x[2]}), !.midi = Dropped(@, x)]

\* Parameters of the same name are kept with what controls them.
SwapModel(b, x, m) ==
    LET old == BlockAt(b, x)
        kept == [q \in ParamsOf[m] |-> IF q \in DOMAIN old.params THEN old.params[q] ELSE Wrapped(0)]
        ir == IF m \in IrModels THEN old.ir ELSE None
        new == [old EXCEPT !.model = m, !.params = kept, !.ir = ir]
        bound == {IF r.at = x THEN [r EXCEPT !.model = m] ELSE r :
                     r \in {y \in b.midi : y.at # x \/ y.q = "on" \/ y.q \in ParamsOf[m]}}
    IN  IF x \notin UserBlocks(b) \/ CategoryOf[old.model] # CategoryOf[m] THEN None
        ELSE [SetBlock(b, x, new) EXCEPT !.midi = bound]
-----------------------------------------------------------------------------
(* Controllers.  A switch or a pedal that controls anything is registered  *)
(* in `sources`; a wrapper has one controller, a switch may have several.  *)

SourceInUseUncommanded(b, src) == \E t \in Controlled(b) : ControlOf(b, t) = src
SourceInUse(b, src) == src \in b.commands \/ \E t \in Controlled(b) : ControlOf(b, t) = src

PruneSource(b, src) == IF src = None \/ SourceInUse(b, src) THEN b
                       ELSE [b EXCEPT !.sources = @ \ {src}]

\* Attached to a target; the source it had before may be used no more.
Wire(b, t, src) ==
    LET w == WrapperAt(b, t[1], t[2])
        wired == SetWrapper(b, t[1], t[2], [w EXCEPT !.ctrl = src])
        pruned == IF w.ctrl = src THEN wired ELSE PruneSource(wired, w.ctrl)
    IN  IF t \notin Targets(b) THEN None ELSE [pruned EXCEPT !.sources = @ \cup {src}]

WireFootswitch(b, switch, t) == Wire(b, t, switch)

\* Every target is checked before any is wired.
WireExpression(b, pedal, targets) ==
    IF targets = {} \/ ~(targets \subseteq Targets(b)) \/ \E t \in targets : t[2] = "on" THEN None
    ELSE FoldSet(LAMBDA t, acc : Wire(acc, t, pedal), b, targets)

\* All that the source controls, or what it controls of one block.
Unwire(b, src, x) ==
    LET mine == {t \in Controlled(b) : ControlOf(b, t) = src /\ x \in {None, t[1]}}
        Off(acc, t) == SetWrapper(acc, t[1], t[2], [WrapperAt(acc, t[1], t[2]) EXCEPT !.ctrl = None])
    IN  IF mine = {} THEN None
        ELSE PruneSource(FoldSet(LAMBDA t, acc : Off(acc, t), b, mine), src)

\* A CC number may be bound to several targets, each checked first.
WireMidi(b, cc, targets) ==
    IF targets = {} \/ ~(targets \subseteq Targets(b)) THEN None
    ELSE [b EXCEPT !.midi = @ \cup {[cc |-> cc, at |-> t[1], q |-> t[2],
                                     model |-> BlockAt(b, t[1]).model] : t \in targets}]

WireCommand(b, switch) == [b EXCEPT !.commands = @ \cup {switch}, !.sources = @ \cup {switch}]
-----------------------------------------------------------------------------
(* patch: the operations are made one after the other, or none is.         *)

Operation(b, o) ==
    CASE o.op = "set_param" -> SetParam(b, o.x, o.q, o.v, o.s)
      [] o.op = "set_output" -> SetOutput(b, o.i, o.v, o.s)
      [] o.op = "set_enabled" -> SetEnabled(b, o.x, o.on, o.s)
      [] o.op = "add_block" -> IF o.x = None THEN AppendBlock(b, o.i, o.m)
                               ELSE AddBlock(b, o.x[1], o.m, o.x[2])
      [] o.op = "remove_block" -> RemoveBlock(b, o.x)
      [] o.op = "swap_model" -> SwapModel(b, o.x, o.m)
      [] o.op = "set_input" -> SetInput(b, o.i, o.jack)
      [] o.op = "set_footswitch" -> WireFootswitch(b, o.src, o.t)
      [] o.op = "set_expression" -> WireExpression(b, o.src, o.ts)
      [] o.op \in {"remove_footswitch", "remove_expression"} -> Unwire(b, o.src, o.x)

ApplyOperations(b, ops) ==
    FoldLeft(LAMBDA acc, o : IF acc = None THEN None ELSE Operation(acc, o), b, ops)
=============================================================================
