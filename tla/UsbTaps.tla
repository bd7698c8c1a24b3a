------------------------------- MODULE UsbTaps -------------------------------
(***************************************************************************)
(* USB taps: a split after the last block of a path whose second side is   *)
(* an output to a USB pair.  `taps` is the preference, role -> pair; the   *)
(* other outputs are those of the device, "amp" the one to an amplifier.   *)
(***************************************************************************)
EXTENDS ToneBody

Pairs == {"usb12", "usb34", "usb56"}
SplitChoices == <<MaxLane - 1, MaxLane>>

\* The user's cells that hold anything.
CellsInUse(path) == DOMAIN path.cells \cap (Lane0 \cup Lane1)
TapModel(path) == path.cells[TapCell].model

\* The last split of lane 0 that no join follows, if the tap is there.
FindTap(path) ==
    LET joins == CellsOf(path, "join") \cap Lane0
        open == {c \in CellsOf(path, "split") \cap Lane0 : \A j \in joins : j < c}
        ends == TapCell \in CellsOf(path, "output") /\ TapModel(path) \in Pairs
    IN  IF ends /\ open # {} THEN Max(open) ELSE None

\* A block sits after the split of the tap.
Stale(path) ==
    LET t == FindTap(path)
    IN  t # None /\ \E c \in CellsInUse(path) \ {t} : Pos(c) >= t

HasTap(b) == \E i \in DOMAIN b.flow : \E c \in CellsOf(b.flow[i], "output") : b.flow[i].cells[c].model \in Pairs

Cleared(path, cells) == [path EXCEPT !.cells = [c \in DOMAIN @ \ cells |-> @[c]]]

\* _lift: the taps of these paths are taken out; what they were.
LiftTaps(flow, which) ==
    [i \in DOMAIN flow |-> IF i \in which /\ FindTap(flow[i]) # None
                           THEN Cleared(flow[i], {FindTap(flow[i]), TapCell}) ELSE flow[i]]
Taken(flow, which) ==
    [i \in {j \in which : FindTap(flow[j]) # None} |-> TapModel(flow[i])]

\* _place: all of them, or none (None when there is no room, or nothing to add).
PlaceTaps(flow, wanted) ==
    LET plan == {i \in DOMAIN wanted : flow[i].out # wanted[i]}
        last(i) == Max({0} \cup {Pos(c) : c \in CellsInUse(flow[i])})
        room(i) == SelectSeq(SplitChoices, LAMBDA c : c > last(i))
        fits == \A i \in plan : TapCell \notin DOMAIN flow[i].cells /\ room(i) # <<>>
        tapped(i) == [flow[i] EXCEPT !.cells =
                         (room(i)[1] :> Split(None, None)) @@ (TapCell :> Output(wanted[i])) @@ @]
    IN  IF plan = {} \/ ~fits THEN None
        ELSE [i \in DOMAIN flow |-> IF i \in plan THEN tapped(i) ELSE flow[i]]

\* Which path is the guitar's, and which the microphone's.
Roles(flow) ==
    LET mics == {i \in DOMAIN flow : flow[i].in = "mic"}
        used == {i \in DOMAIN flow \ mics : CellsInUse(flow[i]) # {}}
        others == DOMAIN flow \ mics
        rigs == IF used # {} \/ others = {} THEN used ELSE {Min(others)}
        mains == {i \in rigs : flow[i].out # "amp"}
        main == IF rigs = {} THEN None ELSE IF mains # {} THEN Min(mains) ELSE Min(rigs)
        blended == {i \in rigs : flow[i].out = flow[main].out}
    IN  IF Len(flow) > 1 /\ flow[1].out = "path2" THEN [i \in {2} |-> "guitar"]
        ELSE [i \in blended \cup (DOMAIN flow \ rigs) |-> IF i \in blended THEN "guitar" ELSE "mic"]

\* apply and apply_preference: the body with its taps.
ApplyTaps(b, taps) ==
    LET stale == {i \in DOMAIN b.flow : Stale(b.flow[i])}
        roles == Roles(b.flow)
        wanted == [i \in {j \in DOMAIN roles : roles[j] \in DOMAIN taps} |-> taps[roles[i]]]
        placed == IF HasTap(b) THEN PlaceTaps(LiftTaps(b.flow, stale), Taken(b.flow, stale))
                  ELSE PlaceTaps(b.flow, wanted)
    IN  IF placed = None THEN b ELSE [b EXCEPT !.flow = placed]

ApplyPreference(b, taps) == IF taps = <<>> THEN b ELSE ApplyTaps(b, taps)

\* lifted: the edit is made without the taps, which are then put back; those
\* that no longer fit are dropped, all of them.
Lifted(b) == [b EXCEPT !.flow = LiftTaps(@, DOMAIN @)]
PutBack(b, edited) ==
    LET taken == Taken(b.flow, DOMAIN b.flow)
        placed == PlaceTaps(edited.flow, taken)
    IN  IF edited = None THEN None
        ELSE IF placed = None THEN edited ELSE [edited EXCEPT !.flow = placed]
=============================================================================
