------------------------------ MODULE Restore ------------------------------
(***************************************************************************)
(* `device restore` (device/snapshot.py): plan_restore compares a backup   *)
(* with the device and makes a list of operations; apply_restore carries   *)
(* them out one by one and goes on after one that failed.                  *)
(*                                                                         *)
(* A setlist is a set of references to presets of the pool, each at a      *)
(* position of its own.  The device (firmware 1.4) puts a reference that   *)
(* is added at an occupied position in the place of the incumbent.         *)
(*                                                                         *)
(* One setlist stands for all: they are planned one after the other and    *)
(* share nothing.  IRs are left out; they are uploaded before all else and *)
(* touch neither pool nor setlist.  Creating a preset is one step with the *)
(* outcomes of PoolWrite.  The index is fresh here (apply_restore: "every  *)
(* write lands against a fresh container index").  Presets and references  *)
(* have cids, numbered as they are made.                                   *)
(***************************************************************************)
EXTENDS Integers, FiniteSets, Sequences, SequencesExt

CONSTANTS Jobs,         \* what may be asked: a backup, and prune or not
          Devices,      \* the pools and setlists that it may meet
          Slots,        \* SETLIST_SLOTS
          PanelEdits,   \* how often the setlist is edited at the front panel
          Runs          \* how often the command is run

VARIABLES job,          \* the backup (its presets and references), and prune
          pool,         \* the presets on the device: cid, name, content
          refs,         \* the references of the setlist: cid, posi, rcid
          made,         \* the last cid used
          edits,        \* the edits made at the front panel
          edited,       \* edited since the plan began? since the last look?
          runs,         \* the runs begun
          ops,          \* the plan
          p,            \* the local state of _plan_setlist
          c,            \* the next step, and the local state of _apply_op
          failed        \* has this run reported an error?

vars == <<job, pool, refs, made, edits, edited, runs, ops, p, c, failed>>
Device == <<pool, refs, made>>
Panel == <<edits, edited>>

Positions == 0..(Slots - 1)
None == -1
NoName == ""
NoPlan == [live |-> {}, moves |-> {}, occupied |-> {}, fixed |-> {}]
Fresh == [pc |-> "pool", k |-> 1, cid |-> 0, src |-> 0]

ASSUME RestoreAssumption == Slots \in Nat /\ PanelEdits \in Nat /\ Runs \in Nat \ {0}

\* No preset has no name.  _desired_refs refuses a position that is held twice.
ASSUME JobsAssumption ==
    \A j \in Jobs : /\ IsFiniteSet(j.presets) /\ IsFiniteSet(j.refs)
                    /\ \A b \in j.presets : b.name # NoName
                    /\ \A d \in j.refs : /\ d = [name |-> d.name, posi |-> d.posi]
                                        /\ d.posi \in Positions
                    /\ \A d, e \in j.refs : d.posi = e.posi => d = e

\* The presets of a backup have different names, and its references are to them.
Consistent == \A j \in Jobs : /\ \A a, b \in j.presets : a.name = b.name => a = b
                              /\ \A d \in j.refs : \E b \in j.presets : b.name = d.name

\* Cids and positions are taken once.
SoundDevice(presets, rows, last) ==
    /\ last \in Nat /\ IsFiniteSet(presets) /\ IsFiniteSet(rows)
    /\ \A x \in presets : /\ x = [cid |-> x.cid, name |-> x.name, content |-> x.content]
                          /\ x.cid \in 1..last /\ x.name # NoName
    /\ \A r \in rows : /\ r = [cid |-> r.cid, posi |-> r.posi, rcid |-> r.rcid]
                       /\ r.cid \in 1..last /\ r.rcid \in 1..last /\ r.posi \in Positions
    /\ \A x, y \in presets : x.cid = y.cid => x = y
    /\ \A r, s \in rows : r.cid = s.cid \/ r.posi = s.posi => r = s

ASSUME DevicesAssumption == \A d \in Devices : SoundDevice(d.pool, d.refs, d.made)

NameIn(presets, cid) == IF \E x \in presets : x.cid = cid
                        THEN (CHOOSE x \in presets : x.cid = cid).name ELSE NoName
Named(presets, name) == {x \in presets : x.name = name}
At(rows, pos) == {r \in rows : r.posi = pos}

Init == /\ job \in Jobs
        /\ \E d \in Devices : pool = d.pool /\ refs = d.refs /\ made = d.made
        /\ edits = 0 /\ edited = [plan |-> FALSE, look |-> FALSE]
        /\ runs = 1 /\ ops = <<>> /\ p = NoPlan /\ c = Fresh /\ failed = FALSE
-----------------------------------------------------------------------------
(* plan_restore: the pool                                                  *)

\* `arg` is the content to be written or the cid to be removed.
Op(kind, name, from, pos, arg) ==
    [op |-> kind, name |-> name, from |-> from, pos |-> pos, arg |-> arg]
Creation(b) == Op("create", b.name, None, None, b.content)
Update(b) == Op("update", b.name, None, None, b.content)

\* The command ends with an error before it has written anything.
Abort == /\ c' = [c EXCEPT !.pc = "done"] /\ failed' = TRUE
         /\ UNCHANGED <<job, Device, Panel, runs, ops, p>>

\* A listing may fail.  A preset whose file is missing from the backup, or whose
\* content cannot be read from the device, is reported and left out.
ReadPool ==
    /\ c.pc = "pool"
    /\ \/ Abort
       \/ /\ ~(job.prune /\ job.presets = {})
          /\ \E unread \in SUBSET job.presets :
               LET Found(b) == Cardinality(Named(pool, b.name))
                   missing == {b \in job.presets \ unread : Found(b) = 0}
                   stale == {b \in job.presets \ unread :
                               Found(b) = 1 /\ \E x \in Named(pool, b.name) : x.content # b.content}
               IN /\ ops' = SetToSeq({Creation(b) : b \in missing})
                              \o SetToSeq({Update(b) : b \in stale})
                  /\ failed' = (unread # {} \/ \E b \in job.presets : Found(b) > 1)
          /\ p' = [NoPlan EXCEPT !.live = pool]
          /\ c' = [c EXCEPT !.pc = "setlist"]
          /\ edited' = [plan |-> FALSE, look |-> FALSE]
          /\ UNCHANGED <<job, Device, edits, runs>>
-----------------------------------------------------------------------------
(* _plan_setlist                                                           *)

Goto(point) == c' = [c EXCEPT !.pc = point]
Rank(x, rows) == Cardinality({y \in rows : y.name = x.name /\ y.posi < x.posi})

\* What the setlist has, what the backup wants in it that is not in place, and
\* what is in it but not in place.
Live == {[cid |-> r.cid, posi |-> r.posi, name |-> NameIn(p.live, r.rcid)] : r \in refs}
InPlace(r, d) == r.name = d.name /\ r.posi = d.posi
Todo == {d \in job.refs : ~\E r \in Live : InPlace(r, d)}
Astray == {r \in Live : ~\E d \in job.refs : InPlace(r, d)}

\* The first reference of a name is moved to the first place where that name is
\* wanted, and so on.
Source(d) == {r \in Astray : r.name = d.name /\ Rank(r, Astray) = Rank(d, Todo)}
Surplus == {r \in Astray : ~\E d \in Todo : r \in Source(d)}
Removal(r) == Op("remove_ref", r.name, None, r.posi, r.cid)

\* A setlist that is not on the device, or there twice, or whose file is
\* malformed is reported and skipped.
ReadSetlist ==
    /\ c.pc = "setlist"
    /\ \/ Abort
       \/ Goto("moves") /\ failed' = TRUE /\ UNCHANGED <<job, Device, Panel, runs, ops, p>>
       \/ /\ p' = [live |-> p.live,
                   moves |-> {[name |-> d.name, to |-> d.posi,
                               from |-> IF Source(d) = {} THEN None
                                        ELSE (CHOOSE r \in Source(d) : TRUE).posi] : d \in Todo},
                   occupied |-> {r.posi : r \in IF job.prune THEN Live \ Surplus ELSE Live},
                   fixed |-> IF job.prune THEN {} ELSE {r.posi : r \in Surplus}]
          /\ ops' = ops \o (IF job.prune THEN SetToSeq({Removal(r) : r \in Surplus}) ELSE <<>>)
          /\ Goto("moves")
          /\ UNCHANGED <<job, Device, Panel, runs, failed>>

Move(m, to) == Op(IF m.from = None THEN "reference" ELSE "move_ref", m.name, m.from, to, 0)
Ready == {m \in p.moves : m.to \notin p.occupied}
Blocked == {m \in p.moves : m.to \in p.fixed}
Planning == c.pc = "moves" /\ p.moves # {}

ByTarget(moves) ==
    [k \in 1..Cardinality(moves) |->
       CHOOSE m \in moves : Cardinality({x \in moves : x.to < m.to}) = k - 1]

\* All moves whose target is free.
PlanReady ==
    /\ Planning /\ Ready # {}
    /\ ops' = ops \o [k \in 1..Cardinality(Ready) |->
                        LET m == ByTarget(Ready)[k] IN Move(m, m.to)]
    /\ p' = [p EXCEPT !.moves = @ \ Ready,
                      !.occupied = (@ \ {m.from : m \in Ready}) \cup {m.to : m \in Ready}]
    /\ UNCHANGED <<job, Device, Panel, runs, c, failed>>

\* Mutant of PlanBlocked: the moves are reported and kept.
PlanBlockedKeeps ==
    /\ Planning /\ Ready = {} /\ Blocked # {}
    /\ p' = [p EXCEPT !.fixed = @ \cup {m.from : m \in Blocked}]
    /\ failed' = TRUE
    /\ UNCHANGED <<job, Device, Panel, runs, ops, c>>

\* Moves onto a reference that stays are given up, and stay in turn.
PlanBlocked ==
    /\ Planning /\ Ready = {} /\ Blocked # {}
    /\ p' = [p EXCEPT !.moves = @ \ Blocked,
                      !.fixed = @ \cup ({m.from : m \in Blocked} \ {None})]
    /\ failed' = TRUE
    /\ UNCHANGED <<job, Device, Panel, runs, ops, c>>

\* Mutant of Free: the range ends one too late.
FreePast == 0..Slots \ (p.occupied \cup {m.to : m \in p.moves})

Free == Positions \ (p.occupied \cup {m.to : m \in p.moves})

\* A cycle: the first reference of it is parked at a free position.
PlanPark ==
    /\ Planning /\ Ready = {} /\ Blocked = {}
    /\ LET spot == CHOOSE s \in Free : \A t \in Free : s <= t
           movers == {m \in p.moves : m.from # None}
           m == CHOOSE x \in movers : \A y \in movers : x.to <= y.to
       IN IF Free = {}
          THEN /\ p' = [p EXCEPT !.moves = {}] /\ failed' = TRUE /\ UNCHANGED ops
          ELSE /\ ops' = Append(ops, Move(m, spot))
               /\ p' = [p EXCEPT !.moves = (@ \ {m}) \cup {[m EXCEPT !.from = spot]},
                                 !.occupied = (@ \ {m.from}) \cup {spot}]
               /\ UNCHANGED failed
    /\ UNCHANGED <<job, Device, Panel, runs, c>>

\* The presets that the backup lacks come last.
PlanEnd ==
    /\ c.pc = "moves" /\ p.moves = {}
    /\ LET gone == {x \in p.live : Named(job.presets, x.name) = {}}
           all == ops \o (IF job.prune THEN SetToSeq({Op("delete_pool", x.name, None, None, x.cid) : x \in gone})
                                       ELSE <<>>)
       IN /\ ops' = all
          /\ c' = [c EXCEPT !.pc = IF all = <<>> THEN "done" ELSE "apply"]
    /\ p' = NoPlan
    /\ UNCHANGED <<job, Device, Panel, runs, failed>>
-----------------------------------------------------------------------------
(* _apply_op                                                               *)

Now == ops[c.k]
Doing(kinds) == c.pc = "apply" /\ Now.op \in kinds

\* The operation ends, well or with an error, and the next one begins.
End(ok) == /\ c' = [Fresh EXCEPT !.pc = IF c.k = Len(ops) THEN "done" ELSE "apply", !.k = c.k + 1]
           /\ failed' = (failed \/ ~ok)
           /\ UNCHANGED <<job, edits, runs, ops, p>>
Looked == edited' = [edited EXCEPT !.look = FALSE]

\* install_into_pool may fail and leave the preset, empty or not.
Create ==
    /\ Doing({"create"})
    /\ \/ End(FALSE) /\ UNCHANGED <<pool, made>>
       \/ \E content \in {Now.arg, 0}, ok \in BOOLEAN :
            /\ ok => content = Now.arg
            /\ pool' = pool \cup {[cid |-> made + 1, name |-> Now.name, content |-> content]}
            /\ made' = made + 1
            /\ End(ok)
    /\ UNCHANGED <<refs, edited>>

\* The preset of that name, which must be one; the write lands or not.
UpdateContent ==
    /\ Doing({"update"})
    /\ \/ End(FALSE) /\ UNCHANGED pool
       \/ /\ Cardinality(Named(pool, Now.name)) = 1
          /\ \E ok \in BOOLEAN : End(ok)
          /\ pool' = {IF x.name = Now.name THEN [x EXCEPT !.content = Now.arg] ELSE x : x \in pool}
    /\ UNCHANGED <<refs, made, edited>>

\* Mutant of Look: the target is not looked at again.
LookPastHolder ==
    /\ Doing({"reference", "move_ref"}) /\ Looked
    /\ \/ End(FALSE)
       \/ \E x \in Named(pool, Now.name), r \in refs \cup {[cid |-> 0]} :
            /\ Cardinality(Named(pool, Now.name)) = 1
            /\ IF Now.op = "reference" THEN r.cid = 0
               ELSE r.cid # 0 /\ r.posi = Now.from /\ r.rcid = x.cid
            /\ c' = [c EXCEPT !.pc = "add", !.cid = x.cid, !.src = r.cid]
            /\ UNCHANGED <<job, edits, runs, ops, p, failed>>
    /\ UNCHANGED Device

\* Before a reference is added: the preset must be one, the reference to be
\* moved where it was, and the target empty.
Look ==
    /\ Doing({"reference", "move_ref"}) /\ Looked
    /\ \/ End(FALSE)
       \/ \E x \in Named(pool, Now.name), r \in refs \cup {[cid |-> 0]} :
            /\ Cardinality(Named(pool, Now.name)) = 1
            /\ IF Now.op = "reference" THEN r.cid = 0
               ELSE r.cid # 0 /\ r.posi = Now.from /\ r.rcid = x.cid
            /\ At(refs, Now.pos) = {}
            /\ c' = [c EXCEPT !.pc = "add", !.cid = x.cid, !.src = r.cid]
            /\ UNCHANGED <<job, edits, runs, ops, p, failed>>
    /\ UNCHANGED Device

\* reference_into_setlist: it lands or not, whatever the reply.
Add ==
    /\ c.pc = "add" /\ Goto("verify")
    /\ \/ UNCHANGED <<refs, made>>
       \/ /\ refs' = (refs \ At(refs, Now.pos))
                       \cup {[cid |-> made + 1, posi |-> Now.pos, rcid |-> c.cid]}
          /\ made' = made + 1
    /\ UNCHANGED <<job, pool, Panel, runs, ops, p, failed>>

\* Mutant of Verify: any reference to the preset will do, as it does for
\* reference_into_setlist.
VerifyByPreset ==
    /\ c.pc = "verify"
    /\ \/ End(FALSE)
       \/ /\ \E r \in refs : r.rcid = c.cid
          /\ IF c.src = 0 THEN End(TRUE)
             ELSE Goto("drop") /\ UNCHANGED <<job, edits, runs, ops, p, failed>>
    /\ UNCHANGED <<Device, edited>>

\* Only a new reference at the target, seen by a listing, is proof.
Verify ==
    /\ c.pc = "verify"
    /\ \/ End(FALSE)
       \/ /\ \E r \in refs : r.posi = Now.pos /\ r.rcid = c.cid /\ r.cid # c.src
          /\ IF c.src = 0 THEN End(TRUE)
             ELSE Goto("drop") /\ UNCHANGED <<job, edits, runs, ops, p, failed>>
    /\ UNCHANGED <<Device, edited>>

\* remove_reference: it lands or not; only if it did may the reply say so.
Drop ==
    /\ c.pc = "drop"
    /\ \/ UNCHANGED refs /\ End(FALSE)
       \/ refs' = {r \in refs : r.cid # c.src} /\ \E ok \in BOOLEAN : End(ok)
    /\ UNCHANGED <<pool, made, edited>>

\* The reference to be removed must be where the plan saw it.
LookRemoved ==
    /\ Doing({"remove_ref"}) /\ Looked
    /\ \/ End(FALSE)
       \/ \E r \in refs : /\ r.cid = Now.arg /\ r.posi = Now.pos
                          /\ c' = [c EXCEPT !.pc = "drop", !.src = r.cid]
                          /\ UNCHANGED <<job, edits, runs, ops, p, failed>>
    /\ UNCHANGED Device

\* The preset of that name, which must be one.
DeletePool ==
    /\ Doing({"delete_pool"})
    /\ \/ UNCHANGED pool /\ End(FALSE)
       \/ /\ Cardinality(Named(pool, Now.name)) = 1
          /\ pool' = pool \ Named(pool, Now.name)
          /\ \E ok \in BOOLEAN : End(ok)
    /\ UNCHANGED <<refs, made, edited>>
-----------------------------------------------------------------------------
(* The environment                                                         *)

\* Somebody adds a reference to the setlist, at a free position, or takes one
\* off it.
PanelEdit ==
    /\ edits < PanelEdits /\ edits' = edits + 1
    /\ edited' = [plan |-> TRUE, look |-> TRUE]
    /\ \/ \E x \in pool, pos \in Positions :
            /\ At(refs, pos) = {}
            /\ refs' = refs \cup {[cid |-> made + 1, posi |-> pos, rcid |-> x.cid]}
            /\ made' = made + 1
       \/ \E r \in refs : refs' = refs \ {r} /\ UNCHANGED made
    /\ UNCHANGED <<job, pool, runs, ops, p, c, failed>>

\* The command has ended, or is killed, and is run again.
Again == /\ runs < Runs /\ runs' = runs + 1
         /\ ops' = <<>> /\ p' = NoPlan /\ c' = Fresh /\ failed' = FALSE
         /\ edited' = [plan |-> FALSE, look |-> FALSE]
         /\ UNCHANGED <<job, Device, edits>>
-----------------------------------------------------------------------------
Step == \/ ReadPool \/ ReadSetlist \/ PlanReady \/ PlanBlocked \/ PlanPark \/ PlanEnd
        \/ Create \/ UpdateContent \/ Look \/ Add \/ Verify \/ Drop
        \/ LookRemoved \/ DeletePool

Next == Step \/ PanelEdit \/ Again

\* The command runs on: every request ends, if only by its timeout.
Spec == Init /\ [][Next]_vars /\ WF_vars(Step)
-----------------------------------------------------------------------------
Points == {"pool", "setlist", "moves", "apply", "add", "verify", "drop", "done"}

\* Cids and positions are taken once, and the plan stays inside the setlist.
TypeOK ==
    /\ SoundDevice(pool, refs, made)
    /\ \A k \in DOMAIN ops : ops[k].pos \in Positions \cup {None}
    /\ c.pc \in Points /\ c.k \in 1..(Len(ops) + 1)
    /\ p.moves \subseteq [name : {b.name : b \in job.refs}, to : Positions, from : Positions \cup {None}]

Listed(name, presets, rows) == \E r \in rows : NameIn(presets, r.rcid) = name

\* What _plan_setlist promises: whatever fails, a preset that the backup has and
\* wants in the setlist is not taken out of it; without --prune, no preset is.
\* What the front panel changed since the plan (a removal), or since the target
\* was looked at (an addition), is its own affair.
Wanted(name) == (\E d \in job.refs : d.name = name) /\ Named(job.presets, name) # {}
NothingLost ==
    [][(~edited.look /\ (c.pc = "drop" /\ Now.op = "remove_ref" => ~edited.plan))
         => \A name \in {x.name : x \in pool} :
              (Listed(name, pool, refs) /\ (job.prune => Wanted(name)) /\ edits' = edits)
              => Listed(name, pool', refs')]_vars

\* A restore that reports no error has restored: every preset of the backup has
\* its content, every reference its position, and with --prune there is no other
\* (apply_restore; device_restore).  Unless the front panel interfered.
OkMeansRestored ==
    (c.pc = "done" /\ ~failed /\ ~edited.plan) =>
        /\ \A b \in job.presets : \E x \in pool : x.name = b.name /\ x.content = b.content
        /\ \A d \in job.refs : \E r \in At(refs, d.posi) : NameIn(pool, r.rcid) = d.name
        /\ job.prune => /\ Cardinality(refs) = Cardinality(job.refs)
                        /\ Cardinality(pool) = Cardinality(job.presets)

\* The planning and the plan come to an end (the loop of _plan_setlist).
Ends == c.pc = "pool" ~> c.pc = "done"
=============================================================================
