----------------------------- MODULE ContentVerbs -----------------------------
(***************************************************************************)
(* The commands of cli_device.py that change what a Helix holds, with the  *)
(* functions of device/copy.py, reorder.py, hss.py, client.py and          *)
(* maintenance.py that they call: what each reads, refuses and sets out to *)
(* do on the device of DeviceContents and IrStore.                         *)
(*                                                                         *)
(* A command that is given a setlist is given its name; "user" is the pool.*)
(***************************************************************************)
EXTENDS IrStore

\* The setlist that the command names, None if there is none.
TheirList == SetlistCid(Cmd.list)
Exists(name) == SetlistCid(name) # None
ToPool == Cmd.list = "user"
Installing(name, rev, uses) == [op |-> "install", name |-> name, rev |-> rev, uses |-> uses,
                                none |-> "stop", raised |-> "stop"]
NewList(name) == [op |-> "setlist", name |-> name, none |-> "stop", raised |-> "stop"]
Retitle(cid, name) == [op |-> "rename", cid |-> cid, name |-> name,
                       none |-> "stop", raised |-> "stop"]

\* Operations that read the device when their turn comes, and then make a list
\* of what is left to do.
ReadFor(kind) == [op |-> kind, cid |-> None, none |-> "stop", raised |-> "stop"]
Expand(ops) == Go([c EXCEPT !.ops = <<op>> \o ops \o Tail(@)])
OnlyReads == UNCHANGED <<Contents, irs, Frame>>
ByPosi(rows) ==
    [i \in 1..Cardinality(rows) |->
       CHOOSE r \in rows : Cardinality({x \in rows : x.posi < r.posi}) = i - 1]
-----------------------------------------------------------------------------
(* What is assumed of the devices and of the commands                      *)

Cids(rows) == {x.cid : x \in rows}
Apart(rows, others) == Cids(rows) \cap Cids(others) = {}

\* The rows of a device have the fields that the module says and cids of their
\* own; a reference is at a position of a setlist that there is, and no two are
\* at the same.
SoundRows(d) ==
    /\ d.made \in Nat
    /\ \A rows \in {d.pool, d.lists, d.refs} : Cids(rows) \subseteq 1..d.made
    /\ Apart(d.pool, d.lists) /\ Apart(d.pool, d.refs) /\ Apart(d.lists, d.refs)
    /\ \A x \in d.pool : x = [cid |-> x.cid, name |-> x.name, rev |-> x.rev, uses |-> x.uses]
    /\ \A l \in d.lists : l = [cid |-> l.cid, name |-> l.name]
    /\ IsFiniteSet(d.refs)
    /\ \A r \in d.refs :
         /\ r = [cid |-> r.cid, list |-> r.list, posi |-> r.posi, rcid |-> r.rcid]
         /\ r.list \in Cids(d.lists) /\ r.posi \in Positions
    /\ \A r, s \in d.refs :
         r.cid = s.cid \/ <<r.list, r.posi>> = <<s.list, s.posi>> => r = s

\* Files hold IRs, and every registered IR is shown under some name.
SoundIrs(s) ==
    /\ s = [rows |-> s.rows, listed |-> s.listed, files |-> s.files, names |-> s.names]
    /\ s.files = [n \in DOMAIN s.files |-> s.files[n]] /\ Stored(s.files) \subseteq DOMAIN StemOf
    /\ s.names = [h \in DOMAIN s.names |-> s.names[h]] /\ DOMAIN s.names \subseteq DOMAIN StemOf
    /\ s.rows \cup s.listed \subseteq DOMAIN s.names

Sound(d) == SoundRows(d) /\ SoundIrs(d.irs)

\* The WAV of another IR has the same name: an upload of either replaces the other.
Shares(h) == \E g \in DOMAIN StemOf \ {h} : StemOf[g] = StemOf[h]

\* The device holds IRs under the names of their WAVs, and shows none under that of
\* another; but for those that share a name, the registered ones have their file.
AtHome(files) == \A n \in DOMAIN files : StemOf[files[n]] = n
OwnNames(names) == \A g \in DOMAIN names : names[g] \in {StemOf[g]} \/ names[g] \notin Range(StemOf)
Untouched(d) == /\ AtHome(d.irs.files) /\ OwnNames(d.irs.names)
                /\ \A h \in d.irs.rows : Shares(h) \/ h \in Stored(d.irs.files)

ASSUME DevicesAssumption ==
    /\ IsFiniteSet(DOMAIN StemOf)
    /\ \A d \in Devices : Sound(d) /\ Untouched(d)

Decodes(slot) == slot.decodes
Good(slots) == SelectSeq(slots, Decodes)

\* The hashes that a command names are of IRs that there are; --pos is required of
\* create, save and push.
Sensible(cmd) ==
    /\ cmd.verb = "push-ir" => cmd.hash \in DOMAIN StemOf
    /\ cmd.verb = "copy" => cmd.uses \subseteq DOMAIN StemOf
    /\ cmd.verb \in {"create", "save", "push"} => cmd.pos # None
    /\ cmd.verb = "mirror" => cmd.rcids \in Seq(ToSet(cmd.rcids))
    /\ cmd.verb = "import-hss" => Good(cmd.slots) \in Seq(ToSet(cmd.slots))

ASSUME ScriptsAssumption ==
    \A s \in Scripts : s \in Seq(ToSet(s)) /\ \A k \in DOMAIN s : Sensible(s[k])
-----------------------------------------------------------------------------
(* Setlists                                                                *)

SetlistCreate == /\ Given("setlist create")
                 /\ IF Exists(Cmd.list) THEN Refused ELSE PlanOps(<<NewList(Cmd.list)>>)

SetlistRename == /\ Given("setlist rename")
                 /\ IF ~Exists(Cmd.list) \/ Exists(Cmd.name) THEN Refused
                    ELSE PlanOps(<<Retitle(TheirList, Cmd.name)>>)

SetlistDelete == /\ Given("setlist delete")
                 /\ IF ~Exists(Cmd.list) THEN Refused
                    ELSE PlanOps(<<Do("remove", TheirList)>>)

SetlistDuplicate ==
    /\ Given("setlist duplicate")
    /\ IF ~Exists(Cmd.src) THEN Refused
       ELSE Plan([c EXCEPT !.list = TheirList,
                           !.ops = (IF Exists(Cmd.list) THEN <<>> ELSE <<NewList(Cmd.list)>>)
                                     \o <<ReadFor("copies")>>])

\* duplicate_setlist_refs: the destination must be empty; positions close up.
CopyRefs ==
    /\ Doing("copies")
    /\ \/ Fails
       \/ LET rows == ByPosi(In(SetlistCid(Cmd.src)))
          IN IF In(c.list) # {} THEN Fails
             ELSE Expand([i \in DOMAIN rows |-> Ref(None, i - 1, rows[i].rcid)])
    /\ OnlyReads

\* mirror_setlist, which no command calls: what is out of place goes, what is
\* missing is added.
Mirror ==
    /\ Given("mirror") /\ Exists(Cmd.list)
    /\ LET want == {[posi |-> i - 1, rcid |-> Cmd.rcids[i]] : i \in DOMAIN Cmd.rcids}
           At(r) == [posi |-> r.posi, rcid |-> r.rcid]
           wrong == {r \in In(TheirList) : At(r) \notin want}
           lacking == ByPosi(want \ {At(r) : r \in In(TheirList)})
       IN PlanOps(SetToSeq({Noting(Do("remove", r.cid)) : r \in wrong})
                    \o [i \in DOMAIN lacking |->
                          Noting(Ref(TheirList, lacking[i].posi, lacking[i].rcid))])

\* import_bundle: per slot an install and then a reference to what it made.
\* Slots that cannot be decoded are errors; if no slot can, no setlist is created.
ImportBundle ==
    LET good == Good(Cmd.slots)
        Entry(s) == Noting(Installing(s.name, s.rev, {}))
        entries == [k \in 1..(2 * Len(good)) |->
                      IF k % 2 = 1 THEN Entry(good[(k + 1) \div 2])
                      ELSE Noting(Ref(None, None, None))]
    IN IF good = <<>> THEN Refused
       ELSE Plan([c EXCEPT !.list = TheirList, !.noted = (good # Cmd.slots),
                           !.ops = (IF Exists(Cmd.list) THEN <<>> ELSE <<NewList(Cmd.list)>>)
                                     \o <<ReadFor("look")>> \o entries])

ImportHss == Given("import-hss") /\ ImportBundle

LookTaken == /\ Doing("look")
             /\ Fails \/ Go([c EXCEPT !.taken = Occupied(c.list)])
             /\ OnlyReads
-----------------------------------------------------------------------------
(* Presets and references                                                  *)

\* device create: a reference in a setlist, a copy in the pool.
Create ==
    /\ Given("create")
    /\ IF ToPool
       THEN IF \E x \in pool : x.cid = Cmd.cid
            THEN \E x \in pool : x.cid = Cmd.cid
                                  /\ PlanOps(<<Installing(Cmd.name, x.rev, x.uses)>>)
            ELSE Refused
       ELSE IF ~Exists(Cmd.list) \/ Cmd.pos \in Occupied(TheirList) THEN Refused
            ELSE PlanOps(<<Ref(TheirList, Cmd.pos, Cmd.cid)>>)

RenamePreset == Given("rename") /\ PlanOps(<<Retitle(Cmd.cid, Cmd.name)>>)

\* device delete: a preset of the pool or, from a setlist, the reference with
\* this cid or, failing that, the first to a preset with it.
Delete ==
    /\ Given("delete")
    /\ LET own == {r \in In(TheirList) : r.cid = Cmd.cid}
           to == {r \in In(TheirList) : r.rcid = Cmd.cid}
       IN IF ToPool THEN PlanOps(<<Do("remove", Cmd.cid)>>)
          ELSE IF ~Exists(Cmd.list) \/ own \cup to = {} THEN Refused
          ELSE PlanOps(<<Do("remove", IF own # {} THEN (CHOOSE r \in own : TRUE).cid
                                     ELSE ByPosi(to)[1].cid)>>)

\* Mutant of ToReorder: the position is passed on as it is given.
ToReorderVerbatim(rows) ==
    IF Cardinality(rows) # 1 \/ Cmd.to \notin Positions THEN Refused
    ELSE \E r \in rows : PlanOps(<<[op |-> "reorder", cid |-> r.cid, to |-> Cmd.to,
                                    none |-> "stop", raised |-> "stop"]>>)

\* Mutant of ToReorder: any position will do.
ToReorderUnbounded(rows) ==
    IF Cardinality(rows) # 1 THEN Refused
    ELSE \E r \in rows :
           PlanOps(<<[op |-> "reorder", cid |-> r.cid,
                      to |-> IF Cmd.to > r.posi THEN Cmd.to + 1 ELSE Cmd.to,
                      none |-> "stop", raised |-> "stop"]>>)

\* reorder_setlist_item on firmware 1.4, of one of the references `rows`.
ToReorder(rows) ==
    IF Cardinality(rows) # 1 \/ Cmd.to \notin Positions THEN Refused
    ELSE \E r \in rows :
           PlanOps(<<[op |-> "reorder", cid |-> r.cid,
                      to |-> IF Cmd.to > r.posi THEN Cmd.to + 1 ELSE Cmd.to,
                      none |-> "stop", raised |-> "stop"]>>)

ReorderSetlistItem ==
    IF ~Exists(Cmd.list) THEN Refused
    ELSE ToReorder({r \in In(TheirList) : IF Cmd.cid = None THEN Cmd.name \in NameOf(r)
                                          ELSE r.cid = Cmd.cid})

ReorderItem == Given("reorder") /\ ReorderSetlistItem

\* move_tone
MoveTone ==
    IF ~Exists(Cmd.list) THEN Refused
    ELSE ToReorder({t \in Answering(Cmd, TheirList) : t.cid # t.rcid})

Move == Given("move") /\ MoveTone

\* remove_tone
RemoveTone ==
    LET targets == Answering(Cmd, TheirList)
    IN IF ~Exists(Cmd.list) \/ Cardinality(targets) # 1 THEN Refused
       ELSE \E t \in targets :
              PlanOps((IF t.cid = t.rcid THEN <<>>
                       ELSE <<[Do("remove", t.cid) EXCEPT !.none = "note"]>>)
                      \o (IF Cmd.pool THEN <<[ReadFor("holders") EXCEPT !.cid = t.rcid]>>
                          ELSE <<>>))

TakeOut == Given("rm") /\ RemoveTone

\* Mutant of CheckHolders: nobody asks.
CheckHoldersNever ==
    /\ Doing("holders")
    /\ Expand(<<[Do("remove", op.cid) EXCEPT !.none = "note"]>>)
    /\ OnlyReads

\* _other_setlists_referencing: the setlists of the given name are not asked.
CheckHolders ==
    /\ Doing("holders")
    /\ \/ Fails
       \/ LET others == {l.cid : l \in lists \ Named(lists, Cmd.list)}
          IN IF \E r \in refs : r.rcid = op.cid /\ r.list \in others THEN Fail("note")
             ELSE Expand(<<[Do("remove", op.cid) EXCEPT !.none = "note"]>>)
    /\ OnlyReads

\* copy_tone: the target is looked up, IRs are uploaded, and
\* only then is the position chosen.
CopyTone ==
    LET list == IF ToPool THEN None ELSE TheirList
        targets == Answering(Cmd, list)
    IN IF (~ToPool /\ list = None) \/ Cardinality(targets) > 1
          \/ (targets = {} /\ Cmd.cid # None)
       THEN Refused
       ELSE \E t \in IF targets = {} THEN {[cid |-> None, rcid |-> None]} ELSE targets :
              Plan([c EXCEPT !.list = list,
                             !.ops = <<[op |-> "uploads", uses |-> Cmd.uses,
                                        none |-> "stop", raised |-> "stop"],
                                       [op |-> "place", cid |-> t.rcid,
                                        refer |-> ~ToPool /\ t.cid = t.rcid,
                                        none |-> "stop", raised |-> "stop"]>>])

Copy == Given("copy") /\ CopyTone

\* What copy_tone writes: new content for the preset, or a new preset; then the
\* reference it lacks.
Writes(posi) ==
    <<IF op.cid = None THEN Installing(Cmd.name, Cmd.rev, Cmd.uses)
      ELSE [op |-> "content", cid |-> op.cid, rev |-> Cmd.rev, uses |-> Cmd.uses,
            none |-> "stop", raised |-> "stop"]>>
      \o IF op.refer THEN <<Ref(c.list, posi, op.cid)>> ELSE <<>>

\* Mutant of Place: a given position is not checked.
PlaceAnywhere ==
    /\ Doing("place")
    /\ \/ Fails
       \/ \E posi \in IF Cmd.pos # None THEN {Cmd.pos} ELSE Free(Occupied(c.list)) :
            Expand(Writes(posi))
    /\ OnlyReads

\* _plan_ref and the writes.  An authored tone is refused here if it does not
\* transcode.
Place ==
    /\ Doing("place")
    /\ \/ Fails
       \/ ~op.refer /\ Expand(Writes(None))
       \/ op.refer /\ Cmd.pos \in Occupied(c.list) /\ Fails
       \/ /\ op.refer /\ Cmd.pos \notin Occupied(c.list)
          /\ \E posi \in IF Cmd.pos # None THEN {Cmd.pos} ELSE Free(Occupied(c.list)) :
               Expand(Writes(posi))
    /\ OnlyReads

\* _install_via_dest: content goes into the pool, and a reference to it into the
\* setlist.  A reference that was not confirmed is only warned of.
ViaDest ==
    IF ToPool THEN PlanOps(<<Installing(Cmd.name, Cmd.rev, {})>>)
    ELSE IF ~Exists(Cmd.list) \/ Cmd.pos \in Occupied(TheirList) THEN Refused
    ELSE PlanOps(<<Installing(Cmd.name, Cmd.rev, {}),
                   [Ref(TheirList, Cmd.pos, None) EXCEPT !.none = "warn"]>>)

Save == Given("save") /\ ViaDest
PushContent == Given("push") /\ ViaDest
-----------------------------------------------------------------------------
(* IRs                                                                     *)

PushIr == Given("push-ir") /\ PlanOps(<<Push(Cmd.hash, "stop")>>)

\* delete_device_ir: an IR that the listing does not show is
\* deleted only by force, and only its file.
DeleteDeviceIr ==
    IF Cmd.hash \in irs.listed THEN PlanOps(<<Unlist(Cmd.hash, "stop")>>)
    ELSE IF Cmd.hash \in Stored(irs.files) /\ Cmd.force
    THEN PlanOps(<<[Unlist(Cmd.hash, "stop") EXCEPT !.op = "unwedge"]>>)
    ELSE Refused

DeleteIr == Given("delete-ir") /\ DeleteDeviceIr

\* device rename-ir
RenameIrs ==
    /\ Given("rename-ir")
    /\ IF Cmd.hash \notin irs.listed THEN Refused
       ELSE PlanOps(<<[op |-> "rename_ir", hash |-> Cmd.hash, name |-> Cmd.name,
                       none |-> "stop", raised |-> "stop"]>>)
-----------------------------------------------------------------------------
Verbs == SetlistCreate \/ SetlistRename \/ SetlistDelete \/ SetlistDuplicate \/ Mirror
           \/ ImportHss \/ Create \/ RenamePreset \/ Delete \/ ReorderItem \/ Move \/ TakeOut
           \/ Copy \/ Save \/ PushContent \/ PushIr \/ DeleteIr \/ RenameIrs \/ Prune
Readings == CopyRefs \/ LookTaken \/ CheckHolders \/ Place

Done == ~Running /\ UNCHANGED vars

Next == Verbs \/ Readings \/ Operations \/ IrOperations \/ Collect \/ Panel \/ Done
Spec == Init /\ [][Next]_vars
-----------------------------------------------------------------------------
(* Properties                                                              *)

TypeOK ==
    /\ \A r \in refs : r.posi \in Positions
    /\ \A r, s \in refs : r.cid = s.cid \/ <<r.list, r.posi>> = <<s.list, s.posi>> => r = s
    /\ \A rows \in {pool, lists, refs} : \A x \in rows : x.cid \in 1..made
    /\ irs.rows \cup irs.listed \subseteq DOMAIN irs.names /\ Stored(irs.files) \subseteq DOMAIN StemOf

Gone == {x.cid : x \in pool} \ {x.cid : x \in pool'}
Adders == {"setlist create", "setlist duplicate", "import-hss", "create", "copy", "save", "push"}

\* A preset that some setlist refers to is not deleted from the pool, but by
\* `device delete`, which says so, and by `device rm --also-pool` from the
\* setlist that it names ("NEVER orphan", copy.py; delete_setlist; mirror_setlist).
NeverOrphans ==
    [][\A cid \in Gone : Cmd.verb # "delete" =>
         \A r \in start.refs \cap refs :
           r.rcid = cid => /\ Cmd.verb = "rm"
                           /\ r.list \in {l.cid : l \in Named(start.lists, Cmd.list)}]_vars

\* A command that adds references disturbs none that it found: on firmware 1.4 one
\* added at an occupied position would replace the incumbent.
IncumbentsSafe == Running /\ Cmd.verb \in Adders /\ c.pc # "plan" => start.refs \subseteq refs

\* What a command says it did, if nobody else was at the device.
Was == script[Len(ran)]
Order(rows) == [i \in DOMAIN ByPosi(rows) |-> ByPosi(rows)[i].rcid]
NewIn(list) == In(list) \ start.refs
ListNamed(name) == First(Named(lists, name)).cid
Revision(cid, name, rev) == \E x \in pool : x.cid = cid /\ x.name = name /\ x.rev = rev
Retitled(rows) == {IF x.cid = Was.cid THEN [x EXCEPT !.name = Was.name] ELSE x : x \in rows}

\* The references of the named setlist that the command found to fit.
Meant == {r \in start.refs :
            /\ r.list = First(Named(start.lists, Was.list)).cid
            /\ IF Was.cid = None THEN \E x \in Named(start.pool, Was.name) : x.cid = r.rcid
               ELSE Was.cid = r.cid \/ (Was.verb # "reorder" /\ Was.cid = r.rcid)}

\* r is where the command was to put it, and the others are in the order they were in.
Rearranged(r) ==
    LET Rest(rows) == SelectSeq(ByPosi({x \in rows : x.list = r.list}), LAMBDA x : x.cid # r.cid)
    IN /\ \E x \in refs : x = [r EXCEPT !.posi = Was.to]
       /\ Cids(refs) = Cids(start.refs)
       /\ [i \in DOMAIN Rest(refs) |-> Rest(refs)[i].cid]
            = [i \in DOMAIN Rest(start.refs) |-> Rest(start.refs)[i].cid]
       /\ {x \in refs : x.list # r.list} = {x \in start.refs : x.list # r.list}

\* A command that pushes h has told of an error or warned, if only of another IR.
Pushes(cmd, h) == \/ cmd.verb = "push-ir" /\ h = cmd.hash
                  \/ cmd.verb = "copy" /\ h \in cmd.uses
Reported(h) == \/ \E k \in DOMAIN ran : ran[k] # "ok" /\ Pushes(script[k], h)
               \/ Running /\ c.warned /\ Pushes(Cmd, h)

\* The IR is registered and has its file; a wedged one may pass for that, or one
\* whose upload an earlier command reported cut short, and one that shares the name
\* of its WAV may have lost it again.
Usable(h) == \/ h \in irs.rows /\ h \in Stored(irs.files)
             \/ h \in Stored(start.irs.files) \ start.irs.rows
             \/ Shares(h) \/ Reported(h)

Goal ==
    CASE Was.verb = "setlist create" -> Cardinality(Named(lists, Was.list)) = 1
      [] Was.verb = "setlist rename" ->
           Named(lists, Was.list) = {} /\ Cardinality(Named(lists, Was.name)) = 1
      [] Was.verb = "setlist delete" -> Named(lists, Was.list) = {} /\ pool = start.pool
      [] Was.verb = "setlist duplicate" ->
           Order(In(ListNamed(Was.list))) = Order(In(ListNamed(Was.src)))
      [] Was.verb = "mirror" -> Order(In(ListNamed(Was.list))) = Was.rcids
      [] Was.verb = "import-hss" ->
           LET new == Order(NewIn(ListNamed(Was.list)))
           IN /\ Len(new) = Len(Was.slots)
              /\ \A i \in DOMAIN new : Revision(new[i], Was.slots[i].name, Was.slots[i].rev)
      [] Was.verb = "create" /\ Was.list # "user" ->
           \E r \in In(ListNamed(Was.list)) : r.posi = Was.pos /\ r.rcid = Was.cid
      [] Was.verb = "create" /\ Was.list = "user" ->
           \E x \in pool \ start.pool, y \in start.pool :
             /\ y.cid = Was.cid
             /\ x = [y EXCEPT !.cid = x.cid, !.name = Was.name]
             /\ pool \ {x} = start.pool
      [] Was.verb \in {"save", "push"} ->
           \E x \in pool \ start.pool :
             /\ Revision(x.cid, Was.name, Was.rev) /\ pool \ {x} = start.pool
             /\ IF Was.list = "user" THEN refs = start.refs
                ELSE \E r \in In(ListNamed(Was.list)) : r.posi = Was.pos /\ r.rcid = x.cid
      [] Was.verb = "rename" -> pool = Retitled(start.pool) /\ lists = Retitled(start.lists)
      [] Was.verb = "delete" ->
           IF Was.list = "user"
           THEN /\ pool = {x \in start.pool : x.cid # Was.cid}
                /\ refs = {r \in start.refs : r.cid # Was.cid}
           ELSE \E r \in start.refs : /\ r.list = ListNamed(Was.list) /\ Was.cid \in {r.cid, r.rcid}
                                      /\ refs = start.refs \ {r} /\ pool = start.pool
      [] Was.verb \in {"reorder", "move"} -> \E r \in Meant : Rearranged(r)
      [] Was.verb = "rm" ->
           /\ \A r \in In(ListNamed(Was.list)) :
                IF Was.cid = None THEN Was.name \notin NameOf(r) ELSE r.cid # Was.cid
           /\ Cardinality(start.pool) - Cardinality(pool) = IF Was.pool THEN 1 ELSE 0
      [] Was.verb = "copy" ->
           /\ \A h \in Was.uses : Usable(h)
           /\ \E x \in Named(pool, Was.name) :
                /\ x.rev = Was.rev /\ x.uses = Was.uses
                /\ Was.list = "user" \/ \E r \in In(ListNamed(Was.list)) : r.rcid = x.cid
                /\ \A y \in Named(pool, Was.name) \ {x} : y \in start.pool
                /\ Named(start.pool, Was.name) # {} => \E y \in start.pool : y.cid = x.cid
      [] Was.verb = "push-ir" -> Usable(Was.hash)
      [] Was.verb = "delete-ir" ->
           IF Was.hash \in start.irs.listed THEN irs.rows = start.irs.rows \ {Was.hash}
           ELSE Was.hash \notin Stored(irs.files) /\ irs.rows = start.irs.rows
      [] Was.verb = "rename-ir" ->
           irs.rows = start.irs.rows /\ irs.names = Written(start.irs.names, Was.hash, Was.name)
      [] Was.verb = "prune" ->
           Was.yes => \A h \in irs.rows : h \in Used(pool) \cup Was.buffer \cup Was.local

\* A command that ends without an error or a warning has done what it says: there is
\* a clause for each.
DoneMeansDone ==
    c.pc = "plan" /\ ran # <<>> /\ ran[Len(ran)] = "ok" /\ edits = 0 => Goal

\* Only delete-ir and ir-prune unregister an IR, and ir-prune none that a preset
\* used at its second scan, nor, unless forced, one that a local tone uses.
IrKept ==
    [][\A h \in irs.rows \ irs'.rows :
         \/ Cmd.verb = "delete-ir"
         \/ Cmd.verb = "prune" /\ h \notin c.scanned /\ (h \in Cmd.local => Cmd.force)]_vars

\* The user forces it, delete-ir --force-wedge, or shows another IR under the name
\* of the file of h.
Tampers(cmd, h) == \/ cmd.verb = "delete-ir" /\ cmd.force /\ cmd.hash = h
                   \/ cmd.verb = "rename-ir" /\ cmd.hash # h /\ cmd.name = StemOf[h]

\* A registered IR has its file: a push removes only what is wedged, a delete
\* unregisters first.  Not so an IR with which a command tampers, one that shares
\* the name of its WAV with another (upload_ir replaces the file of either), and
\* one that was looked up in vain and uploaded again, which was cut short and told.
RegisteredHasFile ==
    \A h \in irs.rows : \/ h \in Stored(irs.files)
                        \/ Shares(h) \/ Reported(h)
                        \/ \E k \in DOMAIN script : Tampers(script[k], h)
=============================================================================
