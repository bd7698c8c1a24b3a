---------------------------- MODULE DeviceContents ----------------------------
(***************************************************************************)
(* What a Helix holds besides the order of its pool (PoolWrite): presets,  *)
(* setlists of references to them, and impulse responses (IRs); and the    *)
(* requests of device/client.py that change it.                            *)
(*                                                                         *)
(* A command plans a list of operations and carries them out one by one.   *)
(* Each operation is a request that lands or not, whose reply says so, or  *)
(* says no or is lost ("none"), or whose connection is lost ("raised").    *)
(* What the command makes of that is part of the operation.                *)
(*                                                                         *)
(* Firmware 1.4: a setlist has Slots positions and may have gaps; adding a *)
(* reference at an occupied position replaces the incumbent.  The index is *)
(* fresh when a command begins (HelixClient.mutating); the listing after a *)
(* write may lag or fail, which here is a reference that was added and is  *)
(* not found.                                                              *)
(***************************************************************************)
EXTENDS Integers, FiniteSets, Sequences, SequencesExt

CONSTANTS Scripts,      \* the sequences of commands that may be given
          Devices,      \* the devices that they may meet
          Slots,        \* SETLIST_SLOTS
          PanelEdits    \* how often somebody edits the device meanwhile

VARIABLES pool,         \* the presets: cid, name, rev (0: a stub), uses (IRs)
          lists,        \* the setlists: cid, name
          refs,         \* the references: cid, list, posi, rcid
          made,         \* the last cid used
          irs,          \* IRs: registered; shown by listings; their files and names
          script,       \* the commands
          ran,          \* how those that have ended did: "ok", "warned" or "failed"
          c,            \* the command under way: its next step `pc`, the `ops`
                        \* left, whether an error was `noted` or it has `warned`,
                        \* and what it knows
          start,        \* the device as the command found it
          edits         \* the edits made meanwhile

vars == <<pool, lists, refs, made, irs, script, ran, c, start, edits>>
Contents == <<pool, lists, refs, made>>
Frame == <<script, start, edits>>

ASSUME ContentsAssumption == Slots \in Nat \ {0} /\ PanelEdits \in Nat

None == -1
Positions == 0..(Slots - 1)
Idle == [pc |-> "plan", ops |-> <<>>, noted |-> FALSE, warned |-> FALSE, cid |-> None,
         list |-> None, taken |-> {}, scanned |-> {}, checked |-> FALSE]

Found == [pool |-> pool, lists |-> lists, refs |-> refs, made |-> made, irs |-> irs]

Init == /\ \E d \in Devices : pool = d.pool /\ lists = d.lists /\ refs = d.refs
                              /\ made = d.made /\ irs = d.irs
        /\ script \in Scripts /\ ran = <<>> /\ c = Idle
        /\ start = Found /\ edits = 0
-----------------------------------------------------------------------------
(* A command                                                               *)

Running == Len(ran) < Len(script)
Cmd == script[Len(ran) + 1]
Given(verb) == Running /\ c.pc = "plan" /\ Cmd.verb = verb

End(verdict) == c' = Idle /\ ran' = Append(ran, verdict)

\* The command is refused or cannot read what it needs; it has written nothing.
Refused == End("failed") /\ start' = Found /\ UNCHANGED <<Contents, irs, script, edits>>

Plan(after) == /\ c' = [after EXCEPT !.pc = "do"]
               /\ start' = Found
               /\ UNCHANGED <<Contents, irs, script, ran, edits>>
PlanOps(ops) == Plan([c EXCEPT !.ops = ops])

\* Strict listings raise when the reply is lost or truncated (list_container).
CannotRead == Running /\ c.pc = "plan" /\ Refused

op == Head(c.ops)
Doing(kind) == c.pc = "do" /\ c.ops # <<>> /\ op.op = kind
Go(after) == c' = [after EXCEPT !.pc = "do", !.ops = Tail(@)] /\ UNCHANGED ran

\* An operation that failed ends the command, is noted as an error, or is only
\* warned of.
Fail(policy) == \/ policy = "stop" /\ End("failed")
                \/ policy = "note" /\ Go([c EXCEPT !.noted = TRUE, !.cid = None])
                \/ policy = "warn" /\ Go([c EXCEPT !.warned = TRUE])
Fails == Fail(op.none) \/ Fail(op.raised)

Finish == /\ c.pc = "do" /\ c.ops = <<>>
          /\ End(IF c.noted THEN "failed" ELSE IF c.warned THEN "warned" ELSE "ok")
          /\ UNCHANGED <<Contents, irs, Frame>>

\* Nothing to add a reference to, after an install that failed.
Skip == /\ Doing("add") /\ op.rcid = None /\ c.cid = None
        /\ Go(c) /\ UNCHANGED <<Contents, irs, Frame>>
-----------------------------------------------------------------------------
(* Looking things up                                                       *)

Named(rows, name) == {x \in rows : x.name = name}
First(rows) == CHOOSE x \in rows : \A y \in rows : x.cid <= y.cid
In(list) == {r \in refs : r.list = list}
NameOf(r) == UNION {{x.name} : x \in {y \in pool : y.cid = r.rcid}}

\* resolve_setlist_cid
SetlistCid(name) == IF Named(lists, name) = {} THEN None ELSE First(Named(lists, name)).cid

Occupied(list) == {r.posi : r \in In(list)}

\* _lowest_empty_posi, which is past the last if all are taken
Free(taken) == {p \in 0..Slots : p \notin taken /\ 0..(p - 1) \subseteq taken}

\* resolve_target: what answers to a name, or to a cid: references of the setlist
\* first, then presets of the pool.  A target has the cid of its reference, if
\* it has one, and that of its preset.
Answering(want, list) ==
    LET Match(cid, rcid, names) == IF want.cid = None THEN want.name \in names
                                   ELSE want.cid \in {cid, rcid}
        in_list == {[cid |-> r.cid, rcid |-> r.rcid, posi |-> r.posi] :
                      r \in {x \in In(list) : Match(x.cid, x.rcid, NameOf(x))}}
        in_pool == {[cid |-> x.cid, rcid |-> x.cid, posi |-> None] :
                      x \in {y \in pool : Match(y.cid, y.cid, {y.name})}}
    IN IF in_list # {} THEN in_list ELSE in_pool
-----------------------------------------------------------------------------
(* Operations                                                              *)

Ref(list, posi, rcid) == [op |-> "add", list |-> list, posi |-> posi, rcid |-> rcid,
                          none |-> "stop", raised |-> "stop"]
Do(kind, cid) == [op |-> kind, cid |-> cid, none |-> "stop", raised |-> "stop"]
Noting(o) == [o EXCEPT !.none = "note", !.raised = "note"]

TheList == IF op.list = None THEN c.list ELSE op.list

\* /AddContentsToContainer
Adding(list, posi, rcid) ==
    {r \in refs : ~(r.list = list /\ r.posi = posi)}
        \cup {[cid |-> made + 1, list |-> list, posi |-> posi, rcid |-> rcid]}

\* reference_into_setlist.  A reference at position None goes to the first
\* position that this command does not know to be taken; past the last, where
\* nothing is listed, it is not found.
AddRef ==
    /\ Doing("add") /\ (op.rcid # None \/ c.cid # None)
    /\ \E landed \in BOOLEAN, posi \in IF op.posi = None THEN Free(c.taken) ELSE {op.posi} :
         LET rcid == IF op.rcid = None THEN c.cid ELSE op.rcid
         IN /\ landed => posi \in Positions
            /\ refs' = IF landed THEN Adding(TheList, posi, rcid) ELSE refs
            /\ made' = IF landed THEN made + 1 ELSE made
            /\ \/ landed /\ Go([c EXCEPT !.taken = @ \cup {posi}])
               \/ Fails
    /\ UNCHANGED <<pool, lists, irs, Frame>>

\* remove_reference, delete of a preset, delete_setlist: /RemoveContent.  The
\* references of a setlist die with it, those to a preset do not.
RemoveContent ==
    /\ Doing("remove")
    /\ \E landed \in BOOLEAN :
         LET gone == IF landed THEN {op.cid} ELSE {}
         IN /\ pool' = {x \in pool : x.cid \notin gone}
            /\ lists' = {l \in lists : l.cid \notin gone}
            /\ refs' = {r \in refs : r.cid \notin gone /\ r.list \notin gone}
            /\ (landed /\ Go(c)) \/ Fails
    /\ UNCHANGED <<made, irs, Frame>>

\* /ReorderContainerContent moves a reference before the one at `to`: going down
\* it lands one less, and all between shift one place to where it was.
Moved(rows, cid, to) ==
    LET r == CHOOSE x \in rows : x.cid = cid
        dest == IF to > r.posi THEN to - 1 ELSE to
        Shift(x) == IF x.cid = cid THEN dest
                    ELSE IF x.posi > r.posi /\ x.posi <= dest THEN x.posi - 1
                    ELSE IF x.posi < r.posi /\ x.posi >= dest THEN x.posi + 1 ELSE x.posi
    IN {IF x.list = r.list THEN [x EXCEPT !.posi = Shift(x)] ELSE x : x \in rows}

\* reorder_container.  A reply of any kind but an error means that the device
\* has acted; no reply raises.  The request may be sent again after a dropped
\* connection (_rpc) and is then obeyed twice.
Reorder ==
    /\ Doing("reorder")
    /\ LET once == Moved(refs, op.cid, op.to)
       IN \/ UNCHANGED refs /\ Fails
          \/ refs' \in {once, Moved(once, op.cid, op.to)} /\ (Go(c) \/ Fails)
    /\ UNCHANGED <<pool, lists, made, irs, Frame>>

\* install_into_pool, save_edit_buffer_to, _push_to_slot: PoolWrite has the
\* steps.  A call that fails may leave a stub, or even the whole preset.
Install ==
    /\ Doing("install")
    /\ \E left \in {0, 1, 2} :
         /\ pool' = pool \cup (IF left = 0 THEN {} ELSE
                      {[cid |-> made + 1, name |-> op.name, uses |-> op.uses,
                        rev |-> IF left = 2 THEN op.rev ELSE 0]})
         /\ made' = IF left = 0 THEN made ELSE made + 1
         /\ \/ left = 2 /\ Go([c EXCEPT !.cid = made + 1])
            \/ Fail(op.raised) \/ (left < 2 /\ Fail(op.none))
    /\ UNCHANGED <<lists, refs, irs, Frame>>

\* set_content_data
SetContent ==
    /\ Doing("content")
    /\ \E landed \in BOOLEAN :
         /\ pool' = {IF landed /\ x.cid = op.cid
                     THEN [x EXCEPT !.rev = op.rev, !.uses = op.uses] ELSE x : x \in pool}
         /\ (landed /\ Go(c)) \/ Fails
    /\ UNCHANGED <<lists, refs, made, irs, Frame>>

\* create_setlist.  It may land and yet not be confirmed.
CreateSetlist ==
    /\ Doing("setlist")
    /\ \E landed \in BOOLEAN :
         /\ lists' = lists \cup (IF landed THEN {[cid |-> made + 1, name |-> op.name]} ELSE {})
         /\ made' = IF landed THEN made + 1 ELSE made
         /\ (landed /\ Go([c EXCEPT !.list = made + 1])) \/ Fails
    /\ UNCHANGED <<pool, refs, irs, Frame>>

\* rename, of a preset or a setlist: /SetContentAttrs
Rename ==
    /\ Doing("rename")
    /\ \E landed \in BOOLEAN :
         LET Renamed(rows) == {IF landed /\ x.cid = op.cid THEN [x EXCEPT !.name = op.name]
                               ELSE x : x \in rows}
         IN pool' = Renamed(pool) /\ lists' = Renamed(lists) /\ ((landed /\ Go(c)) \/ Fails)
    /\ UNCHANGED <<refs, made, irs, Frame>>
-----------------------------------------------------------------------------
(* Somebody at the front panel adds a reference at a free position, or     *)
(* saves a preset that uses IRs.                                           *)

PanelAdd ==
    /\ c.pc # "plan" /\ edits < PanelEdits
    /\ \E l \in lists, x \in pool, p \in Positions \ {r.posi : r \in refs} :
         refs' = refs \cup {[cid |-> made + 1, list |-> l.cid, posi |-> p, rcid |-> x.cid]}
    /\ made' = made + 1 /\ edits' = edits + 1
    /\ UNCHANGED <<pool, lists, irs, script, ran, c, start>>

PanelSave ==
    /\ c.pc # "plan" /\ edits < PanelEdits
    /\ \E h \in irs.rows :
         pool' = pool \cup {[cid |-> made + 1, name |-> "panel", rev |-> 1, uses |-> {h}]}
    /\ made' = made + 1 /\ edits' = edits + 1
    /\ UNCHANGED <<lists, refs, irs, script, ran, c, start>>

Operations == CannotRead \/ Finish \/ Skip \/ AddRef \/ RemoveContent \/ Reorder \/ Install
                \/ SetContent \/ CreateSetlist \/ Rename
Panel == PanelAdd \/ PanelSave
=============================================================================
