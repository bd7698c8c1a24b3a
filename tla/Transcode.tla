------------------------------ MODULE Transcode ------------------------------
(***************************************************************************)
(* A preset as the device stores it: installing a `.hsp` writes one        *)
(* (bridge.py, transcode.py), `device to-hsp` reads one (untranscode.py).  *)
(*                                                                         *)
(* The device keeps the blocks on a grid, and apart from them what         *)
(* snapshots and controllers change: numbered targets, each a parameter of *)
(* an entity.  trgs and srcs are sequences, so that an id is an index and  *)
(* 0 is no id.  stid are the targets that snapshots change; tamv gives for *)
(* each snapshot their values; ctrl says which source moves which target,  *)
(* source 0 being the MIDI input.  A block and a parameter carry the id of *)
(* their own target, or the device does not apply it.                      *)
(*                                                                         *)
(* Left out: blocks of several models, controllers of endpoints and splits *)
(* (a body has none), splits in lane 1 (the flow is packed), scribble      *)
(* strips and the other scalars of a preset.                               *)
(***************************************************************************)
EXTENDS ToneBody

\* The cells of the grid that are not the user's.
Input == 0
MainOutput == Stride - 1
Row1Input == Stride

\* A block's id is its place among the grids of all paths.
Entity(i, c) == 2 * Stride * (i - 1) + c
TargetOf(i, c, q) == [ent |-> Entity(i, c), q |-> q]

PathBlocks(path) == Ascending({c \in DOMAIN path.cells : path.cells[c].type = "block"})
Structure(path) == Ascending(CellsOf(path, "split") \cup CellsOf(path, "join"))
Keys(block) == <<"on">> \o SetToSeq(DOMAIN block.params)
-----------------------------------------------------------------------------
(* hsp_to_paths: what of a `.hsp` is installed.                            *)

\* An array that has a gap and never departs from the value is an artifact.
IsSnapshotAssignment(w) ==
    /\ w.snaps # None
    /\ \/ \A s \in 1..Slots : w.snaps[s] # None
       \/ \E s \in 1..Slots : w.snaps[s] \notin {None, w.value}
Filled(w) == [s \in 1..Slots |-> IF w.snaps[s] = None THEN w.value ELSE w.snaps[s]]

\* Without the list of snapshots, no array is installed.
Tracked(b, w) == b.named # None /\ IsSnapshotAssignment(w)

\* The device notes that a block is bypassed, the `.hsp` that it is on.
DeviceValue(q, v) == IF q = "on" THEN ~v ELSE v
SnapshotValues(q, w) == [s \in 1..Slots |-> DeviceValue(q, Filled(w)[s])]

MidiAt(b, x, q) == {m \in b.midi : m.at = x /\ m.q = q}

\* What controls a block: its bypass, its parameters, then what MIDI does.
ControlsOf(b, x) ==
    LET keys == Keys(BlockAt(b, x))
        wired == SelectSeq(keys, LAMBDA q : WrapperAt(b, x, q).ctrl # None)
        bound == SelectSeq(keys, LAMBDA q : MidiAt(b, x, q) # {})
        Control(src, cc, q) == [src |-> src, cc |-> cc, t |-> TargetOf(x[1], x[2], q)]
    IN  [n \in DOMAIN wired |-> Control(WrapperAt(b, x, wired[n]).ctrl, None, wired[n])]
          \o [n \in DOMAIN bound |-> Control(None, (CHOOSE m \in MidiAt(b, x, bound[n]) : TRUE).cc, bound[n])]

\* The blocks in the order of the paths, and of the cells of each.
BlocksInOrder(b) ==
    FlattenSeq([i \in DOMAIN b.flow |->
        LET cells == PathBlocks(b.flow[i]) IN [n \in DOMAIN cells |-> <<i, cells[n]>>]])
-----------------------------------------------------------------------------
(* The targets, sources and controllers (cg__).                            *)

IndexIn(seq, e) == IF \E n \in DOMAIN seq : seq[n] = e THEN CHOOSE n \in DOMAIN seq : seq[n] = e ELSE 0
With(seq, e) == IF IndexIn(seq, e) # 0 THEN seq ELSE Append(seq, e)

\* First what snapshots change, with its values: of the blocks, of the outputs.
SnapshotTargets(b) ==
    LET xs == BlocksInOrder(b)
        Of(x) == LET keys == SelectSeq(Keys(BlockAt(b, x)), LAMBDA q : Tracked(b, WrapperAt(b, x, q)))
                 IN  [n \in DOMAIN keys |-> [t |-> TargetOf(x[1], x[2], keys[n]),
                                             vals |-> SnapshotValues(keys[n], WrapperAt(b, x, keys[n]))]]
        outs == SelectSeq([i \in DOMAIN b.flow |-> i], LAMBDA i : Tracked(b, b.flow[i].level))
    IN  FlattenSeq([n \in DOMAIN xs |-> Of(xs[n])])
          \o [n \in DOMAIN outs |-> [t |-> TargetOf(outs[n], MainOutput, "level"),
                                     vals |-> SnapshotValues("level", b.flow[outs[n]].level)]]

\* A source has one entry however much it controls, and a target that
\* snapshots change too is not a second one.  A pedal that the device is not
\* known to have controls nothing.
Addressable(src) == src \in Footswitches \cup Pedals
AddControl(cg, k) ==
    LET trgs == With(cg.trgs, k.t)
        srcs == IF k.cc = None THEN With(cg.srcs, k.src) ELSE cg.srcs
    IN  IF k.cc = None /\ ~Addressable(k.src) THEN cg
        ELSE [cg EXCEPT !.trgs = trgs, !.srcs = srcs,
                        !.ctrl = Append(@, [trig |-> IF k.cc = None THEN IndexIn(srcs, k.src) ELSE 0,
                                            cc |-> k.cc, tid |-> IndexIn(trgs, k.t)])]

\* A command is an entity of its own, numbered after those of the grids, and
\* its switch a source of its own.
FlowCount(b) == Max({2, Len(b.flow)})
SynthCommands(b, cg) ==
    LET Add(acc, switch) ==
            [acc EXCEPT !.trgs = Append(@, TargetOf(FlowCount(b) + 1, Len(acc.cmnd), "command")),
                        !.srcs = Append(@, switch),
                        !.cmnd = Append(@, [trig |-> Len(acc.srcs) + 1, tid |-> Len(acc.trgs) + 1])]
    IN  FoldLeft(Add, cg, SetToSeq(b.commands))

\* A snapshot that was never used has no values.
ValidSnapshots(b) == IF b.named = None THEN 1..Slots ELSE b.valid
EmitSnapshots(b, tracked) ==
    [s \in 1..Slots |-> IF s \in ValidSnapshots(b) THEN [n \in DOMAIN tracked |-> tracked[n].vals[s]] ELSE <<>>]

SynthCg(b) ==
    LET tracked == SnapshotTargets(b)
        xs == BlocksInOrder(b)
        controls == FlattenSeq([n \in DOMAIN xs |-> ControlsOf(b, xs[n])])
        snapshots == [trgs |-> [n \in DOMAIN tracked |-> tracked[n].t], stid |-> DOMAIN tracked,
                      tamv |-> EmitSnapshots(b, tracked), srcs |-> <<>>, ctrl |-> <<>>, cmnd |-> <<>>]
    IN  SynthCommands(b, FoldLeft(AddControl, snapshots, controls))
-----------------------------------------------------------------------------
(* The grids (sfg_).                                                       *)

\* A split is paired with the join that closes it.
JoinsOf(path) ==
    LET Close(acc, c) ==
            IF path.cells[c].type = "split" THEN [acc EXCEPT !.open = Append(@, c)]
            ELSE IF acc.open = <<>> THEN acc
            ELSE [open |-> Front(acc.open), join |-> (Last(acc.open) :> c) @@ acc.join]
    IN  FoldLeft(Close, [open |-> <<>>, join |-> <<>>], Structure(path)).join

SplitBranchFirst(path, s) == Min({c \in Lane1 : Placed(path, c)} \cup {Stride + s})

\* Where the second side of a split enters lane 1: at the block that the split
\* names, or at the first one of its region, or beneath the split.
SplitBranch(path, s) ==
    LET joins == JoinsOf(path)
        splits == CellsOf(path, "split")
        End(k) == IF k \in DOMAIN joins THEN joins[k] ELSE MaxLane
        before == {k \in splits : k < s}
        from == IF s \notin DOMAIN joins THEN s - 1
                ELSE IF before = {} THEN 0 ELSE End(Max(before))
        own == {c \in Lane1 : Placed(path, c) /\ from < Pos(c) /\ Pos(c) <= End(s)}
        named == path.cells[s].branch
        alone == \A k \in splits \ {s} : path.cells[k].branch # named
    IN  IF named \in Lane1 /\ (alone \/ named \in own) THEN named
        ELSE IF own # {} /\ named # TapCell THEN Min(own)
        ELSE Stride + s

\* An entity is bound to its target: a block to that of its bypass when
\* snapshots change it, a parameter to its own whoever changes it.
BindBlock(cg, t, on) ==
    LET id == IndexIn(cg.trgs, t)
    IN  [enbl |-> on, snap |-> id \in cg.stid, tid |-> IF id \in cg.stid THEN id ELSE 0]
BindLeaf(cg, t, v) ==
    LET id == IndexIn(cg.trgs, t) IN [value |-> v, snap |-> id \in cg.stid, tid |-> id]

Endpoint(type, model, parm) ==
    [type |-> type, model |-> model, on |-> [enbl |-> TRUE, snap |-> FALSE, tid |-> 0],
     parm |-> parm, ir |-> None, bblk |-> None]
DeviceBlock(cg, i, c, k) ==
    [type |-> "block", model |-> k.model, on |-> BindBlock(cg, TargetOf(i, c, "on"), k.on.value),
     parm |-> [q \in DOMAIN k.params |-> BindLeaf(cg, TargetOf(i, c, q), k.params[q].value)],
     ir |-> IF k.model \in IrModels THEN k.ir ELSE None, bblk |-> None]

\* A join ends the lane beneath it.
RoutingNode(path, i, c) ==
    LET to == IF path.cells[c].type = "split" THEN SplitBranch(path, c) ELSE Stride + c
    IN  [Endpoint(path.cells[c].type, None, <<>>) EXCEPT !.bblk = Entity(i, to)]

\* The device has two paths, whatever the preset has.
NoPath(i) == [in |-> IF i = 1 THEN "inst1" ELSE "none", out |-> "matrix", level |-> Wrapped(0), cells |-> <<>>]
SynthesizeFlow(cg, b, i) ==
    LET path == IF i \in DOMAIN b.flow THEN b.flow[i] ELSE NoPath(i)
        Block(c) == DeviceBlock(cg, i, c, path.cells[c])
        level == BindLeaf(cg, TargetOf(i, MainOutput, "level"), path.level.value)
        tap == IF TapCell \in DOMAIN path.cells THEN path.cells[TapCell].model ELSE "none"
    IN  [c \in Range(PathBlocks(path)) |-> Block(c)]
          @@ [c \in Range(Structure(path)) |-> RoutingNode(path, i, c)]
          @@ (Input :> Endpoint("input", path.in, <<>>))
          @@ (MainOutput :> Endpoint("output", path.out, "level" :> level))
          @@ (Row1Input :> Endpoint("input", "none", <<>>))
          @@ (TapCell :> Endpoint("output", tap, <<>>))

ActiveSnapshot(b) == Max({1, Min({b.active, Slots})})

HspToDevice(b) ==
    LET cg == SynthCg(b)
    IN  [cg |-> cg, flow |-> [i \in 1..FlowCount(b) |-> SynthesizeFlow(cg, b, i)],
         named |-> IF b.named = None THEN Slots ELSE b.named,
         valid |-> ValidSnapshots(b), active |-> ActiveSnapshot(b)]
-----------------------------------------------------------------------------
(* sbepgsm_to_hsp.                                                         *)

\* Values that a snapshot does not have are filled with the one in force.
ReadSnapshots(d, t, v) ==
    LET id == IndexIn(d.cg.trgs, t)
        Stored(s) == IF id \in DOMAIN d.cg.tamv[s] THEN DeviceValue(t.q, d.cg.tamv[s][id]) ELSE v
        whole == \A s \in d.valid : id \in DOMAIN d.cg.tamv[s]
    IN  IF id \in d.cg.stid /\ whole THEN [s \in 1..Slots |-> Stored(s)] ELSE None

\* The last controller of a target that is not of MIDI, which is dropped.
ReadController(d, t) ==
    LET ids == {n \in DOMAIN d.cg.ctrl : d.cg.trgs[d.cg.ctrl[n].tid] = t /\ d.cg.ctrl[n].trig # 0}
    IN  IF ids = {} THEN None ELSE d.cg.srcs[d.cg.ctrl[Max(ids)].trig]

SlotParam(d, t, v) == [value |-> v, ctrl |-> ReadController(d, t), snaps |-> ReadSnapshots(d, t, v)]

BlockRead(d, i, c, k) ==
    [type |-> "block", model |-> k.model, on |-> SlotParam(d, TargetOf(i, c, "on"), k.on.enbl),
     params |-> [q \in DOMAIN k.parm |-> SlotParam(d, TargetOf(i, c, q), k.parm[q].value)], ir |-> k.ir]

\* A split and its join point at each other and at the blocks between them
\* (at those of the lane, when there are none); a split where it enters.
EndpointPointers(d, i) ==
    LET path == [cells |-> d.flow[i]]
        joins == JoinsOf(path)
        upper == {c \in DOMAIN d.flow[i] : c > Row1Input /\ d.flow[i][c].type \notin {"input", "output"}}
        Span(s) == {c \in upper : Stride + s <= c /\ c <= Stride + joins[s]}
        SplitOf(j) == CHOOSE s \in DOMAIN joins : joins[s] = j
        Ends(s) == IF Span(s) # {} THEN Span(s) ELSE upper
        Into(s) == d.flow[i][s].bblk - Entity(i, 0)
    IN  [c \in CellsOf(path, "split") |-> Split(Into(c), IF c \in DOMAIN joins THEN joins[c] ELSE None)]
          @@ [j \in Range(joins) |-> Join(IF Ends(SplitOf(j)) = {} THEN None ELSE Max(Ends(SplitOf(j))), SplitOf(j))]
          @@ [j \in CellsOf(path, "join") |-> Join(None, None)]

\* An endpoint of the second row that is not used is left out.
FlowRead(d, i) ==
    LET grid == d.flow[i]
        tap == IF grid[TapCell].model = "none" THEN <<>> ELSE TapCell :> Output(grid[TapCell].model)
        blocks == {c \in DOMAIN grid : grid[c].type = "block"}
    IN  [in |-> grid[Input].model, out |-> grid[MainOutput].model,
         level |-> SlotParam(d, TargetOf(i, MainOutput, "level"), grid[MainOutput].parm["level"].value),
         cells |-> [c \in blocks |-> BlockRead(d, i, c, grid[c])] @@ EndpointPointers(d, i) @@ tap]

\* Every switch has its entry, what else controls anything too; commands and
\* what MIDI controls are dropped, with a warning.
ReadSources(d) == Footswitches \cup {d.cg.srcs[k.trig] : k \in {c \in Range(d.cg.ctrl) : c.trig # 0}}

DeviceToHsp(d) ==
    [flow |-> [i \in DOMAIN d.flow |-> FlowRead(d, i)], named |-> d.named, valid |-> d.valid,
     active |-> d.active, sources |-> ReadSources(d), commands |-> {}, midi |-> {}]
=============================================================================
