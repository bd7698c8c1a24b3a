-------------------------------- MODULE Recipe --------------------------------
(***************************************************************************)
(* A recipe is what the user writes and `view` prints; generate composes a *)
(* preset body of it.  Blocks are referred to by coordinate.               *)
(*                                                                         *)
(* A recipe has paths (entries in list order, the input, the output), what *)
(* each named snapshot changes, and what is controlled by what.            *)
(***************************************************************************)
EXTENDS ToneEdit

Block(m, lane, pos) == [kind |-> "block", model |-> m, params |-> <<>>, on |-> TRUE,
                        ir |-> None, lane |-> lane, pos |-> pos]
SplitEntry(kind, pos) == [kind |-> kind, lane |-> 0, pos |-> pos]
Structural(c, raw) == [kind |-> "structural", lane |-> Lane(c), pos |-> Pos(c), raw |-> raw]
-----------------------------------------------------------------------------
(* parse_spec: what is refused.                                            *)

Kinds(entries, kind) == Cardinality({j \in DOMAIN entries : entries[j].kind = kind})

SplitsBalanced(entries) ==
    /\ Kinds(entries, "split") <= 2
    /\ Kinds(entries, "split") = Kinds(entries, "join")
    /\ \A j \in DOMAIN entries :
           Kinds(SubSeq(entries, 1, j), "split") >= Kinds(SubSeq(entries, 1, j), "join")

\* One source for a target in each list, and one for a parameter in all of them.
OneEach(pairs) == \A x, y \in pairs : x[2] = y[2] => x = y
ParamsIn(pairs) == {x[2] : x \in {y \in pairs : y[2][2] # "on"}}

SnapshotsValid(snaps) ==
    /\ Len(snaps) <= Slots
    /\ \A s \in DOMAIN snaps : \A o, q \in snaps[s].out : o[1] = q[1] => o = q
FootswitchesValid(pairs) == OneEach(pairs)
\* A pedal sweeps parameters only; a CC number may switch a block too.
ExpressionValid(pairs) == OneEach(pairs) /\ \A x \in pairs : x[2][2] # "on"
MidiValid(pairs) == OneEach(pairs)

Accepted(r) ==
    /\ Len(r.paths) \in 1..2 /\ SnapshotsValid(r.snaps)
    /\ \A i \in DOMAIN r.paths : SplitsBalanced(r.paths[i].blocks)
    /\ \A s \in DOMAIN r.snaps : \A o \in r.snaps[s].out : o[1] \in DOMAIN r.paths
    /\ FootswitchesValid(r.fs) /\ ExpressionValid(r.exp) /\ MidiValid(r.midi)
    /\ ParamsIn(r.fs) \cap ParamsIn(r.exp) = {}
    /\ ParamsIn(r.midi) \cap ParamsIn(r.fs \cup r.exp) = {}
    /\ r.commands \cap {x[1] : x \in r.fs} = {}
-----------------------------------------------------------------------------
(* apply_recipe.                                                           *)

\* An entry without a position goes behind those of its lane.
AssignPositions(entries) ==
    LET Next1(acc, e) ==
            LET pos == IF e.pos # None THEN e.pos ELSE acc.next[e.lane + 1]
            IN  [next |-> [acc.next EXCEPT ![e.lane + 1] = Max({@, pos + 1})],
                 at |-> Append(acc.at, pos + Stride * e.lane)]
    IN  FoldLeft(Next1, [next |-> <<1, 1>>, at |-> <<>>], entries).at

\* Every entry on a cell of its own, that is the user's.
PositionsValid(entries, at) ==
    /\ \A j, k \in DOMAIN at : at[j] = at[k] => j = k
    /\ \A j \in DOMAIN at : entries[j].kind # "structural" => Pos(at[j]) \in Lane0

WrapSparse(base, over) ==
    IF \A s \in 1..Slots : over[s] = None THEN Wrapped(base)
    ELSE [value |-> IF over[1] = None THEN base ELSE over[1], ctrl |-> None, snaps |-> over]
WrapWithSnapshots(base, over) ==
    LET snaps == [s \in 1..Slots |-> IF over[s] = None THEN base ELSE over[s]]
    IN  IF \A s \in 1..Slots : over[s] = None THEN Wrapped(base)
        ELSE [value |-> snaps[1], ctrl |-> None, snaps |-> snaps]

\* A snapshot that does not disable the block has it enabled.
EnabledWrapper(base, over) ==
    IF \A s \in 1..Slots : over[s] = None THEN Wrapped(base)
    ELSE [value |-> IF over[1] = None THEN base ELSE over[1], ctrl |-> None,
          snaps |-> [s \in 1..Slots |-> over[s] # FALSE]]

\* What the snapshots of the recipe say of a bypass, a parameter, an output.
Overrides(said) == [s \in 1..Slots |-> IF s \in DOMAIN said THEN said[s] ELSE None]
Value(pairs, key) == IF \E p \in pairs : p[1] = key THEN (CHOOSE p \in pairs : p[1] = key)[2] ELSE None

PlacedBlock(r, x, e) ==
    LET Base(q) == IF q \in DOMAIN e.params THEN e.params[q] ELSE 0
        On == Overrides([s \in DOMAIN r.snaps |-> IF x \in r.snaps[s].off THEN FALSE ELSE None])
        Of(q) == Overrides([s \in DOMAIN r.snaps |-> Value(r.snaps[s].params, <<x, q>>)])
    IN  [NewBlock(e.model) EXCEPT
             !.on = EnabledWrapper(e.on, On), !.ir = e.ir,
             !.params = [q \in DOMAIN @ |-> WrapWithSnapshots(Base(q), Of(q))]]

\* The blocks of lane 1 listed between a split and its join are its branch.
Regions(entries, at) ==
    LET splits == SelectSeq([j \in DOMAIN entries |-> j], LAMBDA j : entries[j].kind = "split")
        JoinOf(j) == Min({k \in DOMAIN entries : k > j /\ entries[k].kind = "join"})
        Branch(j) == SelectSeq([k \in DOMAIN entries |-> k],
                         LAMBDA k : j < k /\ k < JoinOf(j) /\ entries[k].kind = "block" /\ Lane(at[k]) = 1)
        Region(j) == [split |-> at[j], join |-> at[JoinOf(j)], branch |-> [k \in DOMAIN Branch(j) |-> at[Branch(j)[k]]]]
    IN  {Region(splits[k]) : k \in DOMAIN splits}

SplitCells(regions) ==
    LET SplitOf(g) == Split(IF g.branch = <<>> THEN g.join ELSE Head(g.branch), g.join)
        JoinAt(g) == Join(IF g.branch = <<>> THEN g.split ELSE Last(g.branch), g.split)
    IN  FoldSet(LAMBDA g, acc : (g.split :> SplitOf(g)) @@ (g.join :> JoinAt(g)) @@ acc, <<>>, regions)

OutputLevel(r, i) ==
    LET p == r.paths[i]
        over == Overrides([s \in DOMAIN r.snaps |-> Value(r.snaps[s].out, i)])
    IN  IF r.snaps = <<>> THEN [p.raw EXCEPT !.value = p.level] ELSE WrapWithSnapshots(p.level, over)

ComposePath(r, i) ==
    LET p == r.paths[i]
        at == AssignPositions(p.blocks)
        blocks == {j \in DOMAIN at : p.blocks[j].kind = "block"}
        verbatim == {j \in DOMAIN at : p.blocks[j].kind = "structural"}
        EntryAt(js, c) == CHOOSE j \in js : at[j] = c
        cells == [c \in {at[j] : j \in blocks} |-> PlacedBlock(r, <<i, c>>, p.blocks[EntryAt(blocks, c)])]
        raws == [c \in {at[j] : j \in verbatim} |-> p.blocks[EntryAt(verbatim, c)].raw]
    IN  [in |-> p.in, out |-> p.to, level |-> OutputLevel(r, i),
         cells |-> raws @@ SplitCells(Regions(p.blocks, at)) @@ cells]

\* The targets of a list are wired one after the other.
WireAll(b, pairs) ==
    FoldSet(LAMBDA x, acc : IF acc = None THEN None ELSE Wire(acc, x[2], x[1]), b, pairs)
BindAll(b, pairs) ==
    FoldSet(LAMBDA x, acc : IF acc = None THEN None ELSE WireMidi(acc, x[1], {x[2]}), b, pairs)
CommandAll(b, switches) == FoldSet(LAMBDA s, acc : WireCommand(acc, s), b, switches)

Compose(r) ==
    LET placed == [flow |-> [i \in DOMAIN r.paths |-> ComposePath(r, i)], named |-> Len(r.snaps),
                   valid |-> 1..Slots, active |-> 1, sources |-> {}, commands |-> {}, midi |-> {}]
        wired == BindAll(WireAll(placed, r.fs \cup r.exp), r.midi)
        fits == \A i \in DOMAIN r.paths : PositionsValid(r.paths[i].blocks, AssignPositions(r.paths[i].blocks))
    IN  IF ~Accepted(r) \/ ~fits THEN None
        ELSE IF wired = None THEN None ELSE CommandAll(wired, r.commands)
-----------------------------------------------------------------------------
(* view.                                                                   *)

\* A split or join whose partner is not one of the other kind is kept as it is.
Orphan(path, c) ==
    LET e == path.cells[c].endpoint
        want == IF path.cells[c].type = "split" THEN "join" ELSE "split"
    IN  ~(e \in DOMAIN path.cells /\ path.cells[e].type = want)
IsStructural(path, c) ==
    \/ path.cells[c].type = "output"
    \/ path.cells[c].type \in {"split", "join"} /\ Orphan(path, c)

BlockEntry(block, c) ==
    [kind |-> "block", model |-> block.model, on |-> block.on.value, ir |-> block.ir,
     params |-> [q \in {p \in DOMAIN block.params : block.params[p].value # 0} |-> block.params[q].value],
     lane |-> Lane(c), pos |-> Pos(c)]

EntryFor(path, c) ==
    IF IsStructural(path, c) THEN Structural(c, path.cells[c])
    ELSE IF path.cells[c].type = "block" THEN BlockEntry(path.cells[c], c)
    ELSE SplitEntry(path.cells[c].type, Pos(c))

\* Which split a block of lane 1 is listed under: one that points at it, first
\* of all one that has it between its own columns.
Owner(path, splits, c) ==
    LET Span(k) == {path.cells[k].branch, path.cells[path.cells[k].endpoint].branch}
        points == {k \in splits : Min(Span(k)) <= c /\ c <= Max(Span(k))}
        columns == {k \in points : k + Stride <= c /\ c <= path.cells[k].endpoint + Stride}
    IN  IF columns # {} THEN Min(columns) ELSE IF points # {} THEN Min(points) ELSE None

ReconstructPathBlocks(path) ==
    LET structural == {c \in DOMAIN path.cells : IsStructural(path, c)}
        mine == DOMAIN path.cells \ structural
        splits == {c \in mine : path.cells[c].type = "split"}
        upper == mine \cap Lane1
        owned(k) == {c \in upper : Owner(path, splits, c) = k}
        rows == [n \in 1..Cardinality(mine \cap Lane0) |->
                    LET c == Ascending(mine \cap Lane0)[n] IN <<c>> \o Ascending(owned(c))]
        order == FlattenSeq(rows) \o Ascending(owned(None)) \o Ascending(structural)
    IN  [n \in DOMAIN order |-> EntryFor(path, order[n])]

\* The level of an output is that of the first snapshot.
OutputBase(w) == IF w.snaps # None THEN w.snaps[1] ELSE w.value

RecoverSnapshot(b, s) ==
    LET Differs(x, q) == LET w == BlockAt(b, x).params[q] IN w.snaps # None /\ w.snaps[s] # w.value
        outs == {i \in DOMAIN b.flow : LET w == b.flow[i].level IN w.snaps # None /\ w.snaps[s] # w.snaps[1]}
    IN  [off |-> {x \in UserBlocks(b) : LET w == BlockAt(b, x).on IN w.snaps # None /\ w.snaps[s] = FALSE},
         params |-> {<<t, BlockAt(b, t[1]).params[t[2]].snaps[s]>> :
                         t \in {u \in Targets(b) : u[2] # "on" /\ Differs(u[1], u[2])}},
         out |-> {<<i, b.flow[i].level.snaps[s]>> : i \in outs}]

RecoverControls(b, sources) == {<<ControlOf(b, t), t>> : t \in {u \in Controlled(b) : ControlOf(b, u) \in sources}}

\* A binding whose coordinate is empty is dropped.
RecoverMidi(b) == {<<m.cc, <<m.at, m.q>>>> : m \in {n \in b.midi : n.at \in UserBlocks(b)}}

\* The commands of a switch that controls a block too cannot be authored.
RecoverCommands(b, fs) == b.commands \ {x[1] : x \in fs}

View(b) ==
    LET fs == RecoverControls(b, Footswitches)
        named == IF b.named = None THEN 0 ELSE b.named
    IN  [paths |-> [i \in DOMAIN b.flow |->
                       [blocks |-> ReconstructPathBlocks(b.flow[i]), in |-> b.flow[i].in, to |-> b.flow[i].out,
                        level |-> OutputBase(b.flow[i].level), raw |-> b.flow[i].level]],
         snaps |-> [s \in 1..named |-> RecoverSnapshot(b, s)],
         fs |-> fs, exp |-> RecoverControls(b, Pedals), midi |-> RecoverMidi(b),
         commands |-> RecoverCommands(b, fs)]
=============================================================================
