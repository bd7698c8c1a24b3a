-------------------------- MODULE ContentVerbs_proofs --------------------------
(***************************************************************************)
(* Proofs about ContentVerbs, for all devices and scripts that satisfy its *)
(* assumptions: no command disturbs the rows of the device that it must    *)
(* leave alone.                                                            *)
(*                                                                         *)
(* The invariant has two halves.  DeviceInv says how the device compares   *)
(* with what the command found; CommandInv says of every operation that    *)
(* the command has still to do that it may be done.  A step changes the    *)
(* device in a way that the operations left survive (Harmless), and takes  *)
(* the command on: it ends, it passes to the next operation, or it stays   *)
(* with this one.                                                          *)
(***************************************************************************)
EXTENDS ContentVerbs, Collections_proofs

Ops == ToSet(c.ops)
Later == AfterFirst(c.ops)
Awaits(kind) == \E o \in Ops : o.op = kind

\* The commands name IRs that there are.
Understood == \A k \in DOMAIN script : Sensible(script[k])

\* What the device has that the command did not find is newer.
Newer(rows, then) == Cids(rows) \subseteq Cids(then) \cup (start.made + 1)..made

DeviceInv ==
    /\ Sound(Found) /\ Sound(start) /\ Understood
    /\ start.made <= made
    /\ Newer(pool, start.pool) /\ Newer(lists, start.lists)
    /\ c.pc # "plan" /\ Cmd.verb = "rm" => lists \subseteq start.lists
    /\ c.pc # "plan" /\ Cmd.verb \in Adders => start.refs \subseteq refs

\* Where a reference goes, if its operation does not say.
Target(o) == IF o.list = None THEN c.list ELSE o.list

\* The setlist is there, or will be made first.
There(list) == IF list = None THEN c.list \in Cids(lists) \/ Awaits("setlist")
               ELSE list \in Cids(lists)

\* A reference added by o replaces none that the command found.
Clear(o) == \A r \in start.refs : r.list = Target(o) =>
                 IF o.posi = None THEN r.posi \in c.taken ELSE r.posi # o.posi

\* Nobody but the setlist that the command names refers to this preset.
Unheld(cid) == \A r \in start.refs \cap refs :
                 r.rcid = cid => r.list \in Cids(Named(start.lists, Cmd.list))

\* What is known of an operation that has still to be done.
MayMake(o) == o.op = "setlist" =>
    /\ Cmd.verb \in {"setlist create", "setlist duplicate", "import-hss"}
    /\ o.none = "stop" /\ o.raised = "stop"

MayAdd(o) == o.op = "add" =>
    /\ Cmd.verb \in Adders \cup {"mirror"}
    /\ There(o.list)
    /\ Cmd.verb \in Adders =>
         /\ o.posi = None => o.list = None
         /\ \/ o.list = None /\ o.posi = None /\ Awaits("look")
            \/ Clear(o) /\ (o.list = None => ~Awaits("setlist"))

MayRemove(o) == o.op = "remove" =>
    \/ Cmd.verb = "delete"
    \/ Cmd.verb = "setlist delete" /\ o.cid \in Cids(start.lists)
    \/ Cmd.verb \in {"mirror", "rm"} /\ o.cid \in Cids(start.refs)
    \/ Cmd.verb = "rm" /\ Unheld(o.cid)

MayRead(o) ==
    /\ o.op = "look" => /\ Cmd.verb = "import-hss"
                        /\ o.none = "stop" /\ o.raised = "stop"
    /\ o.op = "copies" => Cmd.verb = "setlist duplicate" /\ There(None)
    /\ o.op = "place" => Cmd.verb = "copy" /\ (o.refer => c.list \in Cids(lists))
    /\ o.op = "holders" => Cmd.verb = "rm"

MayArrange(o) ==
    /\ o.op = "reorder" => /\ Cmd.verb \in {"reorder", "move"}
                           /\ o.cid \in Cids(refs) /\ o.to \in 0..Slots
    /\ o.op = "rename" => Cmd.verb \in {"rename", "setlist rename"}

MayUpload(o) ==
    /\ o.op = "uploads" => Cmd.verb = "copy" /\ o.uses \subseteq Cmd.uses
    /\ o.op = "push" => /\ o.hash \in DOMAIN StemOf /\ Pushes(Cmd, o.hash)
                        /\ o.raised \in {"stop", "warn"}

MayUnlist(o) ==
    /\ o.op = "unlist" =>
         /\ o.hash \in DOMAIN irs.names
         /\ \/ Cmd.verb = "delete-ir"
            \/ /\ Cmd.verb = "prune"
               /\ o.hash \notin c.scanned /\ (o.hash \in Cmd.local => Cmd.force)
    /\ o.op = "unwedge" => Cmd.verb = "delete-ir" /\ Cmd.force /\ o.hash = Cmd.hash
    /\ o.op = "rename_ir" => /\ Cmd.verb = "rename-ir" /\ o.hash \in DOMAIN StemOf
                             /\ o.hash = Cmd.hash /\ o.name = Cmd.name
    /\ o.op = "rescan" => Cmd.verb = "prune"

May(o) == /\ MayMake(o) /\ MayAdd(o) /\ MayRemove(o) /\ MayRead(o)
          /\ MayArrange(o) /\ MayUpload(o) /\ MayUnlist(o)

\* The command under way.
Shape == /\ c = [pc |-> c.pc, ops |-> c.ops, noted |-> c.noted, warned |-> c.warned,
                 cid |-> c.cid, list |-> c.list, taken |-> c.taken, scanned |-> c.scanned,
                 checked |-> c.checked]
         /\ c.ops \in Seq(ToSet(c.ops))
         /\ c.pc \in {"plan", "do", "confirm", "unwedge", "upload", "unfile"}
         /\ c.warned \in BOOLEAN
         /\ c.pc = "plan" => c = Idle
         /\ script \in Scripts /\ ran \in Seq({"ok", "warned", "failed"})
         /\ c.pc # "plan" => Running

\* In the middle of an operation on an IR.
Midway ==
    /\ c.pc \notin {"plan", "do"} => c.ops # <<>>
    /\ c.pc \in {"confirm", "unwedge", "upload"} => op.op = "push"
    /\ c.pc = "unfile" => op.op = "unlist"
    /\ c.pc \in {"unwedge", "unfile"} => op.hash \notin irs.rows

\* A setlist is made first of all, and is looked at before anything is added.
Ordered == /\ \A o \in Later : o.op # "setlist" /\ (o.op = "look" => op.op = "setlist")
           /\ \A i \in 3..Len(c.ops) : c.ops[i].op # "look"

CommandInv ==
    /\ Shape /\ Midway /\ Ordered
    /\ \A o \in Ops : May(o)
    /\ Awaits("rescan") => Later = {}

ContentInv == DeviceInv /\ CommandInv

\* And of IRs: but for those excepted, a registered one has its file or is known to
\* have been uploaded in vain, and no other is shown under the name of its file.
Spared(h) == Shares(h) \/ \E k \in DOMAIN script : Tampers(script[k], h)
Kept(h) == /\ h \in irs.rows => h \in Stored(irs.files) \/ Reported(h)
           /\ \A g \in DOMAIN irs.names \ {h} : irs.names[g] # StemOf[h]
IrInv == AtHome(irs.files) /\ \A h \in DOMAIN StemOf : Spared(h) \/ Kept(h)
-----------------------------------------------------------------------------
(* How a step takes the command on                                         *)

\* What a step may do to the device: what the command found stays, and what its
\* operations need.
Harmless ==
    /\ script' = script /\ start' = start
    /\ Sound(Found)' /\ made <= made'
    /\ Newer(pool, start.pool)' /\ Newer(lists, start.lists)'
    /\ DOMAIN irs.names \subseteq DOMAIN irs'.names
    /\ Cmd.verb \in Adders \cup {"mirror"} => Cids(lists) \subseteq Cids(lists')
    /\ Cmd.verb \in {"reorder", "move"} => Cids(refs) \subseteq Cids(refs')
    /\ Cmd.verb = "rm" => lists' \subseteq start.lists /\ start.refs \cap refs' \subseteq refs
    /\ Cmd.verb \in Adders => start.refs \subseteq refs'

Ended == c' = Idle /\ ran' \in Seq({"ok", "warned", "failed"})

IsCommand(x) == /\ x = [pc |-> x.pc, ops |-> x.ops, noted |-> x.noted, warned |-> x.warned,
                     cid |-> x.cid, list |-> x.list, taken |-> x.taken, scanned |-> x.scanned,
                     checked |-> x.checked]
                /\ x.warned \in BOOLEAN

\* To the next operation, with more to do before it.
Advance(more) == /\ IsCommand(c') /\ c'.pc = "do" /\ c'.ops = more \o Tail(c.ops)
                 /\ ran' = ran

LEMMA Grown ==
  ASSUME ContentInv, Harmless
  PROVE  start.made <= made'
BY DEF ContentInv, DeviceInv, Harmless, Sound, SoundRows, Found

LEMMA StillUnderstood ==
  ASSUME Understood, script' = script
  PROVE  Understood'
BY DEF Understood

LEMMA EndKeeps ==
  ASSUME ContentInv, Harmless, Ended
  PROVE  ContentInv'
<1>1. DeviceInv'
  BY Grown, StillUnderstood DEF ContentInv, DeviceInv, Harmless, Ended, Idle
<1>2. c'.ops = <<>> /\ c'.pc = "plan"
  BY DEF Ended, Idle
<1>3. Ops' = {} /\ Later' = {}
  BY <1>2 DEF Ops, Later, AfterFirst, ToSet
<1>4. Shape' /\ Ordered'
  <2>1. <<>> \in Seq({}) /\ Len(<<>>) = 0
    BY EmptySeq
  <2>2. c'.ops \in Seq(ToSet(c'.ops))
    BY <1>2, <1>3, <2>1 DEF Ops
  <2>3. Ordered'
    BY <1>2, <1>3, <2>1 DEF Ordered
  <2> QED BY <1>2, <2>2, <2>3 DEF ContentInv, CommandInv, Shape, Harmless, Ended, Idle
<1>5. Midway'
  BY <1>2 DEF Midway
<1> QED BY <1>1, <1>3, <1>4, <1>5 DEF ContentInv, CommandInv, Awaits

LEMMA OpsSplit ==
  ASSUME Shape, c.ops # <<>>
  PROVE  /\ Ops = {op} \cup Later /\ op \in Ops
         /\ Tail(c.ops) \in Seq(Later) /\ ToSet(Tail(c.ops)) = Later
         /\ AfterFirst(Tail(c.ops)) = {c.ops[i] : i \in 3..Len(c.ops)}
         /\ AfterFirst(Tail(c.ops)) \subseteq Later
<1> DEFINE q == c.ops
<1>1. q \in Seq(ToSet(q))
  BY DEF Shape
<1>2. /\ Tail(q) \in Seq(ToSet(q)) /\ Head(q) \in ToSet(q)
      /\ ToSet(Tail(q)) = AfterFirst(q)
      /\ AfterFirst(Tail(q)) = {q[i] : i \in 3..Len(q)}
      /\ ToSet(q) = {Head(q)} \cup AfterFirst(q)
  BY <1>1, TailOps
<1>4. AfterFirst(Tail(q)) \subseteq AfterFirst(q)
  BY <1>2 DEF AfterFirst
<1>3. Tail(q) \in Seq(ToSet(Tail(q)))
  BY <1>2, OwnElements
<1> QED BY <1>2, <1>3, <1>4 DEF Ops, Later, op

\* The operations after one that adds `more` to be done.
LEMMA Advanced ==
  ASSUME Shape, c.ops # <<>>, NEW S, NEW more \in Seq(S), Advance(more)
  PROVE  /\ Ops' = ToSet(more) \cup Later
         /\ Later' \subseteq AfterFirst(more) \cup Later
         /\ c'.ops \in Seq(ToSet(c'.ops))
         /\ more = <<>> => Later' = {c.ops[i] : i \in 3..Len(c.ops)}
<1> DEFINE t == Tail(c.ops)
           L == ToSet(more) \cup Later
<1>1. /\ t \in Seq(L) /\ more \in Seq(L) /\ ToSet(t) = Later
      /\ AfterFirst(t) = {c.ops[i] : i \in 3..Len(c.ops)} /\ AfterFirst(t) \subseteq Later
  <2>1. /\ t \in Seq(Later) /\ ToSet(t) = Later /\ AfterFirst(t) \subseteq Later
        /\ AfterFirst(t) = {c.ops[i] : i \in 3..Len(c.ops)}
    BY OpsSplit
  <2>2. more \in Seq(ToSet(more))
    BY OwnElements
  <2> QED BY <2>1, <2>2, SeqMonotonic
<1> HIDE DEF t
<1>2. /\ more \o t \in Seq(L)
      /\ ToSet(more \o t) = ToSet(more) \cup ToSet(t)
      /\ AfterFirst(more \o t) \subseteq AfterFirst(more) \cup ToSet(t)
  BY <1>1, ConcatOps
<1>3. c'.ops = more \o t
  BY DEF Advance, t
<1>4. c'.ops \in Seq(ToSet(c'.ops))
  BY <1>2, <1>3, OwnElements
<1>5. ASSUME more = <<>> PROVE AfterFirst(c'.ops) = {c.ops[i] : i \in 3..Len(c.ops)}
  <2>1. c'.ops = t
    BY <1>1, <1>3, <1>5, ConcatEmptySeq
  <2> QED BY <1>1, <2>1
<1> QED BY <1>1, <1>2, <1>3, <1>4, <1>5 DEF Ops, Later

LEMMA AdvanceKeeps ==
  ASSUME ContentInv, Harmless, c.ops # <<>>, c.pc # "plan",
         NEW S, NEW more \in Seq(S), Advance(more),
         \A o \in ToSet(more) \cup Later : May(o)',
         \A o \in ToSet(more) : o.op \notin {"setlist", "look", "rescan"},
         op.op = "setlist" => more = <<>>
  PROVE  ContentInv'
<1>1. Shape /\ Midway /\ Ordered /\ (Awaits("rescan") => Later = {})
  BY DEF ContentInv, CommandInv
<1>2. /\ Ops' = ToSet(more) \cup Later /\ Later' \subseteq AfterFirst(more) \cup Later
      /\ c'.ops \in Seq(ToSet(c'.ops))
  BY <1>1, Advanced
<1>3. AfterFirst(more) \subseteq ToSet(more)
  BY LenProperties DEF AfterFirst, ToSet
<1>11. more = <<>> => Later' = {c.ops[i] : i \in 3..Len(c.ops)}
  BY <1>1, Advanced
<1>4. Cmd' = Cmd /\ Running' /\ c'.pc = "do" /\ ran' = ran
  BY <1>1 DEF Shape, Harmless, Advance, Cmd, Running
<1>5. DeviceInv'
  BY <1>4, Grown, StillUnderstood DEF ContentInv, DeviceInv, Harmless
<1>6. Shape'
  BY <1>1, <1>2, <1>4 DEF Shape, Harmless, Advance, IsCommand
<1>7. Midway'
  BY <1>4 DEF Midway
<1>8. \A o \in Ops' : May(o)'
  BY <1>2
<1>9. Ordered'
  <2>1. ASSUME NEW o \in Later' PROVE o.op \notin {"setlist", "look"}
    <3>1. {c.ops[i] : i \in 3..Len(c.ops)} \subseteq Later
      BY DEF Later, AfterFirst
    <3>2. CASE more = <<>>
      BY <1>1, <1>11, <2>1, <3>1, <3>2 DEF Ordered
    <3>3. CASE more # <<>>
      BY <1>1, <1>2, <1>3, <2>1, <3>3 DEF Ordered
    <3> QED BY <3>2, <3>3
  <2>2. \A i \in 3..Len(c'.ops) : c'.ops[i] \in Later'
    BY DEF Later, AfterFirst
  <2> QED BY <2>1, <2>2 DEF Ordered
<1>10. Awaits("rescan")' => Later' = {}
  <2>1. SUFFICES ASSUME NEW o \in Ops', o.op = "rescan" PROVE FALSE
    BY DEF Awaits
  <2>2. o \in Later
    BY <1>2, <2>1
  <2>3. Awaits("rescan") /\ Later # {}
    BY <1>1, <2>1, <2>2, OpsSplit DEF Awaits
  <2> QED BY <1>1, <2>3
<1> QED BY <1>5, <1>6, <1>7, <1>8, <1>9, <1>10 DEF ContentInv, CommandInv

\* An operation that might be done before a harmless step may be done after it.
LEMMA MayKept ==
  ASSUME ContentInv, Harmless, c.pc # "plan", ran' = ran,
         c'.list = c.list, c.taken \subseteq c'.taken, c'.scanned = c.scanned,
         Awaits("look") => Awaits("look")', Awaits("setlist") <=> Awaits("setlist")',
         NEW o \in Ops
  PROVE  May(o)'
<1>1. May(o) /\ Cmd' = Cmd /\ start' = start
  BY DEF ContentInv, CommandInv, Harmless, Cmd
<1>2. MayMake(o)'
  BY <1>1 DEF May, MayMake
<1>3. MayAdd(o)'
  <2>1. SUFFICES ASSUME o.op = "add"
                 PROVE  /\ Cmd.verb \in Adders \cup {"mirror"}
                        /\ There(o.list)'
                        /\ Cmd.verb \in Adders =>
                             /\ o.posi = None => o.list = None
                             /\ \/ o.list = None /\ o.posi = None /\ Awaits("look")'
                                \/ Clear(o)' /\ (o.list = None => ~Awaits("setlist")')
    BY <1>1 DEF MayAdd
  <2>2. /\ Cmd.verb \in Adders \cup {"mirror"} /\ There(o.list)
        /\ Cmd.verb \in Adders =>
             /\ o.posi = None => o.list = None
             /\ \/ o.list = None /\ o.posi = None /\ Awaits("look")
                \/ Clear(o) /\ (o.list = None => ~Awaits("setlist"))
    BY <1>1, <2>1 DEF May, MayAdd
  <2>3. There(o.list)'
    BY <2>2 DEF There, Harmless
  <2>4. Clear(o) => Clear(o)'
    BY <1>1 DEF Clear, Target
  <2> QED BY <2>2, <2>3, <2>4
<1>4. MayRemove(o)'
  BY <1>1 DEF May, MayRemove, Unheld, Harmless
<1>5. MayRead(o)'
  BY <1>1 DEF May, MayRead, There, Harmless, Adders
<1>6. MayArrange(o)'
  BY <1>1 DEF May, MayArrange, Harmless
<1>7. MayUpload(o)' /\ MayUnlist(o)'
  BY <1>1 DEF May, MayUpload, MayUnlist, Harmless
<1> QED BY <1>2, <1>3, <1>4, <1>5, <1>6, <1>7 DEF May

\* To the next operation, perhaps with more to do before it.
LEMMA GoKeeps ==
  ASSUME ContentInv, Harmless, c.pc # "plan", c.ops # <<>>, op.op \notin {"look", "setlist"},
         NEW S, NEW more \in Seq(S), Advance(more),
         c'.list = c.list, c.taken \subseteq c'.taken,
         c'.scanned = c.scanned \/ op.op = "rescan",
         \A o \in ToSet(more) : May(o)' /\ o.op \notin {"setlist", "look", "rescan"}
  PROVE  ContentInv'
<1>1. /\ Shape /\ (\A o \in Later : o.op \notin {"setlist", "look"})
      /\ Awaits("rescan") => Later = {}
  BY DEF ContentInv, CommandInv, Ordered
<1>2. Ops = {op} \cup Later /\ op \in Ops /\ Ops' = ToSet(more) \cup Later /\ ran' = ran
  BY <1>1, OpsSplit, Advanced DEF Advance
<1>3. Awaits("look") => Awaits("look")'
  BY <1>2 DEF Awaits
<1>4. Awaits("setlist") <=> Awaits("setlist")'
  BY <1>1, <1>2 DEF Awaits
<1>5. ASSUME NEW o \in Later PROVE May(o)'
  <2>1. op.op # "rescan" /\ o \in Ops
    BY <1>1, <1>2 DEF Awaits
  <2> QED BY <1>2, <1>3, <1>4, <2>1, MayKept
<1> QED BY <1>5, AdvanceKeeps

LEMMA PassKeeps ==
  ASSUME ContentInv, Harmless, c.pc # "plan", c.ops # <<>>, op.op \notin {"look", "setlist"},
         NEW noted, NEW warned \in BOOLEAN, NEW cid, NEW taken, c.taken \subseteq taken,
         Go([c EXCEPT !.noted = noted, !.warned = warned, !.cid = cid, !.taken = taken])
  PROVE  ContentInv'
<1>1. /\ IsCommand(c') /\ c'.pc = "do" /\ c'.ops = Tail(c.ops) /\ ran' = ran
      /\ c'.list = c.list /\ c'.taken = taken /\ c'.scanned = c.scanned
  BY DEF ContentInv, CommandInv, Shape, Go, IsCommand
<1>2. <<>> \in Seq({}) /\ ToSet(<<>>) = {} /\ <<>> \o Tail(c.ops) = Tail(c.ops)
  <2>1. Tail(c.ops) \in Seq(Later)
    BY OpsSplit DEF ContentInv, CommandInv
  <2> QED BY <2>1, EmptySeq, ConcatEmptySeq DEF ToSet
<1>3. Advance(<<>>)
  BY <1>1, <1>2 DEF Advance
<1> QED BY <1>1, <1>2, <1>3, GoKeeps

LEMMA EndVerdict ==
  ASSUME Shape, NEW v \in {"ok", "warned", "failed"}, End(v)
  PROVE  Ended
BY DEF Shape, End, Ended

LEMMA JustGo ==
  ASSUME ContentInv, Harmless, c.pc # "plan", c.ops # <<>>, op.op \notin {"look", "setlist"},
         Go(c)
  PROVE  ContentInv'
<1>1. c = [c EXCEPT !.noted = c.noted, !.warned = c.warned, !.cid = c.cid, !.taken = c.taken]
  BY DEF ContentInv, CommandInv, Shape
<1>2. Go([c EXCEPT !.noted = c.noted, !.warned = c.warned, !.cid = c.cid, !.taken = c.taken])
  BY <1>1
<1>3. c.warned \in BOOLEAN
  BY DEF ContentInv, CommandInv, Shape
<1> QED BY <1>2, <1>3, PassKeeps

LEMMA WarnGo ==
  ASSUME ContentInv, Harmless, c.pc # "plan", c.ops # <<>>, op.op \notin {"look", "setlist"},
         Go([c EXCEPT !.warned = TRUE])
  PROVE  ContentInv'
<1>1. [c EXCEPT !.warned = TRUE]
        = [c EXCEPT !.noted = c.noted, !.warned = TRUE, !.cid = c.cid, !.taken = c.taken]
  BY DEF ContentInv, CommandInv, Shape
<1>2. Go([c EXCEPT !.noted = c.noted, !.warned = TRUE, !.cid = c.cid, !.taken = c.taken])
  BY <1>1
<1> QED BY <1>2, PassKeeps

LEMMA FailKeeps ==
  ASSUME ContentInv, Harmless, c.pc # "plan", c.ops # <<>>,
         NEW policy, Fail(policy),
         op.op \in {"look", "setlist"} => policy = "stop"
  PROVE  ContentInv'
<1>1. CASE policy = "stop"
  <2>1. End("failed")
    BY <1>1 DEF Fail
  <2> QED BY <2>1, EndVerdict, EndKeeps DEF ContentInv, CommandInv
<1>2. CASE policy = "note"
  <2>1. Go([c EXCEPT !.noted = TRUE, !.cid = None]) /\ op.op \notin {"look", "setlist"}
    BY <1>2 DEF Fail
  <2>2. [c EXCEPT !.noted = TRUE, !.cid = None]
          = [c EXCEPT !.noted = TRUE, !.warned = c.warned, !.cid = None, !.taken = c.taken]
    BY DEF ContentInv, CommandInv, Shape
  <2>3. Go([c EXCEPT !.noted = TRUE, !.warned = c.warned, !.cid = None, !.taken = c.taken])
    BY <2>1, <2>2
  <2>4. c.warned \in BOOLEAN
    BY DEF ContentInv, CommandInv, Shape
  <2> QED BY <2>1, <2>3, <2>4, PassKeeps
<1>3. CASE policy = "warn"
  <2>1. Go([c EXCEPT !.warned = TRUE]) /\ op.op \notin {"look", "setlist"}
    BY <1>3 DEF Fail
  <2> QED BY <2>1, WarnGo
<1> QED BY <1>1, <1>2, <1>3 DEF Fail

\* Both ways that an operation may fail.
LEMMA FailsKeep ==
  ASSUME ContentInv, Harmless, c.pc # "plan", c.ops # <<>>, Fails
  PROVE  ContentInv'
<1>1. op.op \in {"look", "setlist"} => op.none = "stop" /\ op.raised = "stop"
  BY OpsSplit DEF ContentInv, CommandInv, May, MayMake, MayRead
<1> QED BY <1>1, FailKeeps DEF Fails

\* The command stays with the operation.
LEMMA StayKeeps ==
  ASSUME ContentInv, Harmless, c.pc # "plan",
         NEW k \in {"do", "confirm", "unwedge", "upload", "unfile"},
         c' = [c EXCEPT !.pc = k], ran' = ran, Midway'
  PROVE  ContentInv'
<1>1. /\ IsCommand(c') /\ c'.pc = k /\ c'.ops = c.ops
      /\ c'.list = c.list /\ c'.taken = c.taken /\ c'.scanned = c.scanned
  BY DEF ContentInv, CommandInv, Shape, IsCommand
<1>2. Ops' = Ops /\ Later' = Later
  BY <1>1 DEF Ops, Later
<1>3. /\ Awaits("look") <=> Awaits("look")'
      /\ Awaits("setlist") <=> Awaits("setlist")'
      /\ Awaits("rescan") <=> Awaits("rescan")'
  BY <1>2 DEF Awaits
<1>4. \A o \in Ops' : May(o)'
  BY <1>1, <1>2, <1>3, MayKept
<1>5. Cmd' = Cmd /\ Running'
  BY DEF ContentInv, CommandInv, Shape, Harmless, Cmd, Running
<1>6. DeviceInv'
  BY <1>5, Grown, StillUnderstood DEF ContentInv, DeviceInv, Harmless
<1>7. Shape' /\ Ordered'
  BY <1>1, <1>2, <1>5 DEF ContentInv, CommandInv, Shape, Harmless, IsCommand, Ordered, op
<1> QED BY <1>2, <1>3, <1>4, <1>6, <1>7 DEF ContentInv, CommandInv
-----------------------------------------------------------------------------
(* What the steps do to the device                                         *)

SameRows == UNCHANGED <<pool, lists, refs, made>>

\* A step that leaves the rows alone and the IRs sound.
LEMMA IrsHarmless ==
  ASSUME ContentInv, c.pc # "plan", SameRows, script' = script, start' = start,
         SoundIrs(irs'), DOMAIN irs.names \subseteq DOMAIN irs'.names
  PROVE  Harmless
<1>1. SoundRows(Found)'
  BY DEF ContentInv, DeviceInv, Sound, SoundRows, Found, SameRows
<1>2. Sound(Found)'
  BY <1>1 DEF Sound, Found
<1>3. made \in Nat
  BY DEF ContentInv, DeviceInv, Sound, SoundRows, Found
<1> QED BY <1>2, <1>3 DEF ContentInv, DeviceInv, Harmless, SameRows, Newer

\* One that leaves the IRs alone and the rows sound.
LEMMA RowsHarmless ==
  ASSUME ContentInv, irs' = irs, SoundRows(Found)',
         made <= made', Newer(pool, start.pool)', Newer(lists, start.lists)',
         script' = script, start' = start,
         Cmd.verb \in Adders \cup {"mirror"} => Cids(lists) \subseteq Cids(lists'),
         Cmd.verb \in {"reorder", "move"} => Cids(refs) \subseteq Cids(refs'),
         Cmd.verb = "rm" => lists' \subseteq start.lists /\ start.refs \cap refs' \subseteq refs,
         Cmd.verb \in Adders => start.refs \subseteq refs'
  PROVE  Harmless
<1>1. Sound(Found)'
  BY DEF ContentInv, DeviceInv, Sound, Found
<1> QED BY <1>1 DEF Harmless

LEMMA QuietHarmless ==
  ASSUME ContentInv, c.pc # "plan", SameRows, irs' = irs, script' = script, start' = start
  PROVE  Harmless
<1>1. SoundIrs(irs')
  BY DEF ContentInv, DeviceInv, Sound, Found
<1> QED BY <1>1, IrsHarmless

LEMMA FinishKeeps == ASSUME ContentInv, Finish PROVE ContentInv'
<1>1. c.pc # "plan" /\ (\E v \in {"ok", "warned", "failed"} : End(v)) /\ Harmless
  BY QuietHarmless DEF Finish, SameRows, Contents, Frame
<1> QED BY <1>1, EndVerdict, EndKeeps DEF ContentInv, CommandInv

LEMMA SkipKeeps == ASSUME ContentInv, Skip PROVE ContentInv'
<1>1. c.pc # "plan" /\ c.ops # <<>> /\ op.op = "add" /\ Go(c) /\ Harmless
  BY QuietHarmless DEF Skip, Doing, SameRows, Contents, Frame
<1> QED BY <1>1, JustGo

\* What every row has, in one place.
LEMMA RowFacts ==
  ASSUME ContentInv
  PROVE  /\ made \in Nat /\ start.made \in Nat /\ start.made <= made
         /\ Cids(pool) \subseteq 1..made /\ Cids(lists) \subseteq 1..made
         /\ Cids(refs) \subseteq 1..made
         /\ Cids(start.pool) \subseteq 1..start.made /\ Cids(start.lists) \subseteq 1..start.made
         /\ Cids(start.refs) \subseteq 1..start.made
         /\ Apart(pool, lists) /\ Apart(pool, refs) /\ Apart(lists, refs)
         /\ Apart(start.pool, start.lists) /\ Apart(start.pool, start.refs)
         /\ Apart(start.lists, start.refs)
         /\ \A x \in pool : x = [cid |-> x.cid, name |-> x.name, rev |-> x.rev, uses |-> x.uses]
         /\ \A l \in lists : l = [cid |-> l.cid, name |-> l.name]
         /\ IsFiniteSet(refs)
         /\ \A r \in refs :
              /\ r = [cid |-> r.cid, list |-> r.list, posi |-> r.posi, rcid |-> r.rcid]
              /\ r.list \in Cids(lists) /\ r.posi \in Positions
         /\ \A r, s \in refs :
              r.cid = s.cid \/ <<r.list, r.posi>> = <<s.list, s.posi>> => r = s
<1>1. SoundRows(Found) /\ SoundRows(start) /\ start.made <= made
  BY DEF ContentInv, DeviceInv, Sound
<1>2. SoundRows(start) => /\ start.made \in Nat
                          /\ Cids(start.pool) \subseteq 1..start.made
                          /\ Cids(start.lists) \subseteq 1..start.made
                          /\ Cids(start.refs) \subseteq 1..start.made
                          /\ Apart(start.pool, start.lists) /\ Apart(start.pool, start.refs)
                          /\ Apart(start.lists, start.refs)
  BY DEF SoundRows
<1> QED BY <1>1, <1>2 DEF SoundRows, Found
-----------------------------------------------------------------------------
(* References                                                              *)

\* What the assumptions say of the command.
LEMMA CmdSensible ==
  ASSUME ContentInv, Running
  PROVE  Sensible(Cmd) /\ Len(ran) + 1 \in DOMAIN script
<1>1. script \in Seq(ToSet(script)) /\ ran \in Seq({"ok", "warned", "failed"})
  BY ScriptsAssumption DEF ContentInv, CommandInv, Shape
<1>2. Len(ran) + 1 \in DOMAIN script
  BY <1>1, LenProperties DEF Running
<1> QED BY <1>2 DEF ContentInv, DeviceInv, Understood, Cmd

LEMMA Hashes ==
  ASSUME ContentInv, Running
  PROVE  /\ Cmd.verb = "push-ir" => Cmd.hash \in DOMAIN StemOf
         /\ Cmd.verb = "copy" => Cmd.uses \subseteq DOMAIN StemOf
         /\ Cmd.verb \in {"create", "save", "push"} => Cmd.pos # None
         /\ Cmd.verb = "mirror" => Cmd.rcids \in Seq(ToSet(Cmd.rcids))
         /\ Cmd.verb = "import-hss" => Good(Cmd.slots) \in Seq(ToSet(Cmd.slots))
BY CmdSensible, Zenon DEF Sensible

\* The facts about the operation under way.
LEMMA MayDo ==
  ASSUME ContentInv, c.pc # "plan", c.ops # <<>>
  PROVE  /\ May(op) /\ Running
         /\ op.op \notin {"setlist", "look"} => ~Awaits("setlist") /\ ~Awaits("look")
<1>1. Shape /\ Ordered /\ \A o \in Ops : May(o)
  BY DEF ContentInv, CommandInv
<1>2. Ops = {op} \cup Later
  BY <1>1, OpsSplit
<1> QED BY <1>1, <1>2 DEF Shape, Ordered, Awaits

\* A reference may go anywhere in a setlist that there is.
LEMMA AddingSound ==
  ASSUME ContentInv, NEW list \in Cids(lists), NEW posi \in Positions, NEW rcid,
         refs' = Adding(list, posi, rcid), made' = made + 1, pool' = pool, lists' = lists
  PROVE  SoundRows(Found)'
<1> DEFINE n == [cid |-> made + 1, list |-> list, posi |-> posi, rcid |-> rcid]
           kept == {r \in refs : ~(r.list = list /\ r.posi = posi)}
<1>1. refs' = kept \cup {n} /\ kept \subseteq refs
  BY DEF Adding
<1>2. n.cid = made + 1 /\ n.list = list /\ n.posi = posi
  OBVIOUS
<1>3. made \in Nat /\ made + 1 \in Nat /\ \A r \in refs : r.cid \in 1..made
  BY RowFacts DEF Cids
<1>4. IsFiniteSet(refs')
  <2>1. IsFiniteSet(kept)
    BY <1>1, RowFacts, FS_Subset
  <2> HIDE DEF kept, n
  <2>2. IsFiniteSet(kept \cup {n})
    BY <2>1, FS_AddElement
  <2> QED BY <1>1, <2>2
<1>5. /\ Cids(pool) \subseteq 1..made + 1 /\ Cids(lists) \subseteq 1..made + 1
      /\ Cids(refs') \subseteq 1..made + 1
  <2>1. \A r \in refs' : r.cid \in 1..made + 1
    BY <1>1, <1>2, <1>3
  <2> QED BY <1>3, <2>1, RowFacts DEF Cids
<1>6. Apart(pool, refs') /\ Apart(lists, refs')
  <2>1. \A r \in refs' : r.cid \in Cids(refs) \/ r.cid = made + 1
    BY <1>1, <1>2 DEF Cids
  <2>2. made + 1 \notin Cids(pool) /\ made + 1 \notin Cids(lists)
    BY <1>3, RowFacts
  <2> QED BY <2>1, <2>2, RowFacts DEF Apart, Cids
<1>7. \A r \in refs' :
        /\ r = [cid |-> r.cid, list |-> r.list, posi |-> r.posi, rcid |-> r.rcid]
        /\ r.list \in Cids(lists) /\ r.posi \in Positions
  <2>1. n = [cid |-> n.cid, list |-> n.list, posi |-> n.posi, rcid |-> n.rcid]
    OBVIOUS
  <2> HIDE DEF n, kept
  <2> QED BY <1>1, <1>2, <2>1, RowFacts
<1>8. \A r, s \in refs' : r.cid = s.cid \/ <<r.list, r.posi>> = <<s.list, s.posi>> => r = s
  <2>1. \A r \in kept : r.cid # n.cid /\ <<r.list, r.posi>> # <<n.list, n.posi>>
    BY <1>1, <1>2, <1>3
  <2>2. \A r, s \in kept : r.cid = s.cid \/ <<r.list, r.posi>> = <<s.list, s.posi>> => r = s
    BY <1>1, RowFacts
  <2> HIDE DEF n, kept
  <2> QED BY <1>1, <2>1, <2>2
<1> QED BY <1>3, <1>4, <1>5, <1>6, <1>7, <1>8, RowFacts DEF SoundRows, Found

\* New cids are newer than what the command found.
LEMMA NewerStill ==
  ASSUME ContentInv, made' \in {made, made + 1}, start' = start,
         Cids(pool') \subseteq Cids(pool) \cup {made'} \/ Cids(pool') \subseteq Cids(pool),
         Cids(lists') \subseteq Cids(lists) \cup {made'} \/ Cids(lists') \subseteq Cids(lists),
         made' = made => Cids(pool') \subseteq Cids(pool) /\ Cids(lists') \subseteq Cids(lists)
  PROVE  made <= made' /\ Newer(pool, start.pool)' /\ Newer(lists, start.lists)'
<1>1. /\ made \in Nat /\ start.made \in Nat /\ start.made <= made
      /\ Newer(pool, start.pool) /\ Newer(lists, start.lists)
  BY RowFacts DEF ContentInv, DeviceInv
<1>2. \A x \in (start.made + 1)..made : x \in (start.made + 1)..made'
  BY <1>1
<1>3. made' = made + 1 => made' \in (start.made + 1)..made'
  BY <1>1
<1> QED BY <1>1, <1>2, <1>3 DEF Newer

LEMMA AddingHarmless ==
  ASSUME ContentInv, NEW list \in Cids(lists), NEW posi \in Positions, NEW rcid,
         refs' = Adding(list, posi, rcid), made' = made + 1, pool' = pool, lists' = lists,
         irs' = irs, script' = script, start' = start, c.pc # "plan",
         Cmd.verb \notin {"reorder", "move"} \/ Cids(refs) \subseteq Cids(refs'),
         Cmd.verb \in Adders =>
            \A r \in start.refs : ~(r.list = list /\ r.posi = posi)
  PROVE  Harmless
<1>1. SoundRows(Found)'
  BY AddingSound
<1>2. made <= made' /\ Newer(pool, start.pool)' /\ Newer(lists, start.lists)'
  BY NewerStill
<1>3. start.refs \cap refs' \subseteq refs
  <2>1. \A r \in start.refs : r.cid # made + 1
    BY RowFacts DEF Cids
  <2> QED BY <2>1 DEF Adding
<1>4. Cmd.verb \in Adders => start.refs \subseteq refs'
  BY DEF ContentInv, DeviceInv, Adding
<1>5. Cmd.verb = "rm" => lists' \subseteq start.lists
  BY DEF ContentInv, DeviceInv
<1> QED BY <1>1, <1>2, <1>3, <1>4, <1>5, RowsHarmless

LEMMA AddRefKeeps == ASSUME ContentInv, AddRef PROVE ContentInv'
<1>1. /\ c.pc # "plan" /\ c.ops # <<>> /\ op.op = "add" /\ UNCHANGED <<pool, lists, irs>>
      /\ script' = script /\ start' = start
  BY DEF AddRef, Doing, Frame
<1>2. PICK landed \in BOOLEAN, posi \in IF op.posi = None THEN Free(c.taken) ELSE {op.posi} :
        LET rcid == IF op.rcid = None THEN c.cid ELSE op.rcid
        IN /\ landed => posi \in Positions
           /\ refs' = IF landed THEN Adding(TheList, posi, rcid) ELSE refs
           /\ made' = IF landed THEN made + 1 ELSE made
           /\ \/ landed /\ Go([c EXCEPT !.taken = @ \cup {posi}])
              \/ Fails
  BY DEF AddRef
<1>3. Harmless
  <2>1. CASE ~landed
    BY <1>1, <1>2, <2>1, QuietHarmless DEF SameRows
  <2>2. CASE landed
    <3>1. MayAdd(op) /\ ~Awaits("setlist") /\ ~Awaits("look")
      BY <1>1, MayDo DEF May
    <3>2. TheList \in Cids(lists)
      BY <1>1, <3>1 DEF MayAdd, There, TheList
    <3>3. Cmd.verb \in Adders \cup {"mirror"}
      BY <1>1, <3>1 DEF MayAdd
    <3>4. ASSUME Cmd.verb \in Adders, NEW r \in start.refs, r.list = TheList, r.posi = posi
          PROVE  FALSE
      <4>1. Clear(op)
        BY <1>1, <3>1, <3>4 DEF MayAdd
      <4>2. IF op.posi = None THEN r.posi \in c.taken ELSE r.posi # op.posi
        BY <3>4, <4>1 DEF Clear, Target, TheList
      <4>3. op.posi = None => posi \notin c.taken
        BY <1>2 DEF Free
      <4> QED BY <1>2, <3>4, <4>2, <4>3
    <3> QED BY <1>1, <1>2, <2>2, <3>2, <3>3, <3>4, AddingHarmless DEF Adders
  <2> QED BY <2>1, <2>2
<1>4. CASE Go([c EXCEPT !.taken = @ \cup {posi}])
  <2>1. [c EXCEPT !.taken = @ \cup {posi}]
          = [c EXCEPT !.noted = c.noted, !.warned = c.warned, !.cid = c.cid, !.taken = c.taken \cup {posi}]
    BY DEF ContentInv, CommandInv, Shape
  <2>2. PICK taken : taken = c.taken \cup {posi}
    OBVIOUS
  <2>3. Go([c EXCEPT !.noted = c.noted, !.warned = c.warned, !.cid = c.cid, !.taken = taken])
    BY <1>4, <2>1, <2>2
  <2>4. c.warned \in BOOLEAN /\ c.taken \subseteq taken
    BY <2>2 DEF ContentInv, CommandInv, Shape
  <2>5. op.op \notin {"look", "setlist"}
    BY <1>1
  <2> QED BY <1>1, <1>3, <2>3, <2>4, <2>5, PassKeeps
<1>5. CASE Fails
  BY <1>1, <1>3, <1>5, FailsKeep
<1> QED BY <1>2, <1>4, <1>5

LEMMA RemoveKeeps == ASSUME ContentInv, RemoveContent PROVE ContentInv'
<1>1. /\ c.pc # "plan" /\ c.ops # <<>> /\ op.op = "remove"
      /\ made' = made /\ irs' = irs /\ script' = script /\ start' = start
  BY DEF RemoveContent, Doing, Frame
<1>2. PICK landed \in BOOLEAN :
        LET gone == IF landed THEN {op.cid} ELSE {}
        IN /\ pool' = {x \in pool : x.cid \notin gone}
           /\ lists' = {l \in lists : l.cid \notin gone}
           /\ refs' = {r \in refs : r.cid \notin gone /\ r.list \notin gone}
           /\ (landed /\ Go(c)) \/ Fails
  BY DEF RemoveContent
<1>3. Harmless
  <2> DEFINE gone == IF landed THEN {op.cid} ELSE {}
  <2>1. /\ pool' = {x \in pool : x.cid \notin gone}
        /\ lists' = {l \in lists : l.cid \notin gone}
        /\ refs' = {r \in refs : r.cid \notin gone /\ r.list \notin gone}
    BY <1>2
  <2>2. gone \subseteq {op.cid}
    OBVIOUS
  <2> HIDE DEF gone
  <2>3. /\ Cids(pool') \subseteq Cids(pool) /\ Cids(lists') \subseteq Cids(lists)
        /\ Cids(refs') \subseteq Cids(refs)
    BY <2>1 DEF Cids
  <2>4. SoundRows(Found)'
    <3>1. IsFiniteSet(refs')
      BY <2>1, RowFacts, FS_Subset
    <3>2. \A r \in refs' : r.list \in Cids(lists')
      <4>1. SUFFICES ASSUME NEW r \in refs' PROVE r.list \in Cids(lists')
        OBVIOUS
      <4>2. r \in refs /\ r.list \notin gone /\ r.list \in Cids(lists)
        BY <2>1, RowFacts
      <4>3. PICK l \in lists : l.cid = r.list
        BY <4>2 DEF Cids
      <4> QED BY <2>1, <4>2, <4>3 DEF Cids
    <3>3. Apart(pool', lists') /\ Apart(pool', refs') /\ Apart(lists', refs')
      BY <2>3, RowFacts DEF Apart
    <3>4. pool' \subseteq pool /\ lists' \subseteq lists /\ refs' \subseteq refs
      BY <2>1
    <3> QED BY <1>1, <2>3, <3>1, <3>2, <3>3, <3>4, RowFacts DEF SoundRows, Found
  <2>5. made <= made' /\ Newer(pool, start.pool)' /\ Newer(lists, start.lists)'
    BY <1>1, <2>3, NewerStill
  <2>6. MayRemove(op)
    BY <1>1, MayDo DEF May
  <2>7. Cmd.verb \in {"delete", "setlist delete", "mirror", "rm"}
    BY <1>1, <2>6 DEF MayRemove
  <2>8. Cmd.verb = "mirror" => Cids(lists) \subseteq Cids(lists')
    <3>1. SUFFICES ASSUME Cmd.verb = "mirror" PROVE Cids(lists) \subseteq Cids(lists')
      OBVIOUS
    <3>2. op.cid \in Cids(start.refs)
      BY <1>1, <2>6, <3>1 DEF MayRemove
    <3>3. op.cid \notin Cids(lists)
      BY <3>2, RowFacts DEF ContentInv, DeviceInv, Newer, Apart
    <3> QED BY <2>1, <2>2, <3>3 DEF Cids
  <2>9. Cmd.verb = "rm" => lists' \subseteq start.lists /\ start.refs \cap refs' \subseteq refs
    BY <1>1, <2>1 DEF ContentInv, DeviceInv
  <2> QED BY <1>1, <2>4, <2>5, <2>7, <2>8, <2>9, RowsHarmless DEF Adders
<1> QED BY <1>1, <1>2, <1>3, JustGo, FailsKeep

\* References of sound setlists, at their positions.
InPlace(rows) ==
    /\ IsFiniteSet(rows)
    /\ \A r \in rows :
         /\ r = [cid |-> r.cid, list |-> r.list, posi |-> r.posi, rcid |-> r.rcid]
         /\ r.list \in Cids(lists) /\ r.posi \in Positions
    /\ \A r, s \in rows : r.cid = s.cid \/ <<r.list, r.posi>> = <<s.list, s.posi>> => r = s

\* A move keeps every reference, each at a position of its own.
LEMMA MovedInPlace ==
  ASSUME NEW rows, InPlace(rows), NEW cid \in Cids(rows), NEW to \in 0..Slots
  PROVE  InPlace(Moved(rows, cid, to)) /\ Cids(Moved(rows, cid, to)) = Cids(rows)
<1> DEFINE r == CHOOSE x \in rows : x.cid = cid
           dest == IF to > r.posi THEN to - 1 ELSE to
           Shift(x) == IF x.cid = cid THEN dest
                       ELSE IF x.posi > r.posi /\ x.posi <= dest THEN x.posi - 1
                       ELSE IF x.posi < r.posi /\ x.posi >= dest THEN x.posi + 1 ELSE x.posi
           Put(x) == IF x.list = r.list THEN [x EXCEPT !.posi = Shift(x)] ELSE x
<1>1. r \in rows /\ r.cid = cid
  BY DEF Cids
<1>2. Slots \in Nat \ {0}
  BY ContentsAssumption
<1>3. \A x \in rows : x.posi \in Int /\ x.posi >= 0 /\ x.posi <= Slots - 1
  BY <1>2 DEF InPlace, Positions
<1>4. dest \in Int /\ 0 <= dest /\ dest <= Slots - 1
  BY <1>1, <1>2, <1>3
<1>5. Moved(rows, cid, to) = {Put(x) : x \in rows}
  BY DEF Moved
<1> HIDE DEF r, dest
<1>6. \A x \in rows : Shift(x) \in Positions
  BY <1>1, <1>2, <1>3, <1>4 DEF Positions
<1>7. ASSUME NEW x \in rows
      PROVE  /\ Put(x).cid = x.cid /\ Put(x).list = x.list /\ Put(x).rcid = x.rcid
             /\ Put(x).posi = IF x.list = r.list THEN Shift(x) ELSE x.posi
             /\ Put(x) = [cid |-> Put(x).cid, list |-> Put(x).list,
                          posi |-> Put(x).posi, rcid |-> Put(x).rcid]
  <2>1. x = [cid |-> x.cid, list |-> x.list, posi |-> x.posi, rcid |-> x.rcid]
    BY DEF InPlace
  <2> HIDE DEF Shift
  <2>2. [x EXCEPT !.posi = Shift(x)]
          = [cid |-> x.cid, list |-> x.list, posi |-> Shift(x), rcid |-> x.rcid]
    BY <2>1
  <2> QED BY <2>1, <2>2
<1>8. ASSUME NEW x \in rows, NEW y \in rows, x.list = r.list, y.list = r.list, Shift(x) = Shift(y)
      PROVE  x = y
  <2>1. x.cid = y.cid \/ x.posi = y.posi => x = y
    BY <1>8 DEF InPlace
  <2>2. x.cid = cid => x = r
    BY <1>1 DEF InPlace
  <2>3. y.cid = cid => y = r
    BY <1>1 DEF InPlace
  <2>4. x.posi = r.posi => x = r
    BY <1>1, <1>8 DEF InPlace
  <2>5. y.posi = r.posi => y = r
    BY <1>1, <1>8 DEF InPlace
  <2> QED BY <1>1, <1>3, <1>4, <1>8, <2>1, <2>2, <2>3, <2>4, <2>5
<1>9. IsFiniteSet({Put(x) : x \in rows})
  <2>1. IsFiniteSet(rows)
    BY DEF InPlace
  <2> DEFINE f == [x \in rows |-> Put(x)]
             image == {Put(x) : x \in rows}
  <2> HIDE DEF Put
  <2>2. f \in Surjection(rows, image)
    BY DEF Surjection
  <2> HIDE DEF f, image
  <2>3. IsFiniteSet(image)
    BY <2>1, <2>2, FS_Surjection
  <2> QED BY <2>3 DEF image
<1>10. ASSUME NEW x \in rows, NEW y \in rows,
              Put(x).cid = Put(y).cid \/ <<Put(x).list, Put(x).posi>> = <<Put(y).list, Put(y).posi>>
       PROVE  x = y
  <2> HIDE DEF Put, Shift
  <2>1. x.cid = y.cid \/ (x.list = y.list /\ Put(x).posi = Put(y).posi)
    BY <1>7, <1>10
  <2>2. CASE x.cid = y.cid
    BY <2>2 DEF InPlace
  <2>3. CASE x.list = y.list /\ Put(x).posi = Put(y).posi
    <3>1. CASE x.list = r.list
      <4>1. Shift(x) = Shift(y) /\ y.list = r.list
        BY <1>7, <2>3, <3>1
      <4> QED BY <1>8, <3>1, <4>1
    <3>2. CASE x.list # r.list
      BY <1>7, <2>3, <3>2 DEF InPlace
    <3> QED BY <3>1, <3>2
  <2> QED BY <2>1, <2>2, <2>3
<1> HIDE DEF Put, Shift
<1>11. \A y \in {Put(x) : x \in rows} :
         /\ y = [cid |-> y.cid, list |-> y.list, posi |-> y.posi, rcid |-> y.rcid]
         /\ y.list \in Cids(lists) /\ y.posi \in Positions
  BY <1>6, <1>7 DEF InPlace
<1>12. Cids({Put(x) : x \in rows}) = Cids(rows)
  BY <1>7 DEF Cids
<1> QED BY <1>5, <1>9, <1>10, <1>11, <1>12 DEF InPlace

LEMMA ReorderKeeps == ASSUME ContentInv, Reorder PROVE ContentInv'
<1>1. /\ c.pc # "plan" /\ c.ops # <<>> /\ op.op = "reorder"
      /\ UNCHANGED <<pool, lists, made, irs>> /\ script' = script /\ start' = start
  BY DEF Reorder, Doing, Frame
<1> DEFINE once == Moved(refs, op.cid, op.to)
           twice == Moved(once, op.cid, op.to)
<1>2. \/ refs' = refs /\ Fails
      \/ refs' \in {once, twice} /\ (Go(c) \/ Fails)
  BY DEF Reorder
<1>3. /\ Cmd.verb \in {"reorder", "move"}
      /\ op.cid \in Cids(refs) /\ op.to \in 0..Slots
  BY <1>1, MayDo DEF May, MayArrange
<1>4. InPlace(refs)
  BY RowFacts DEF InPlace
<1>5. InPlace(once) /\ Cids(once) = Cids(refs)
  BY <1>3, <1>4, MovedInPlace
<1> HIDE DEF once
<1>6. InPlace(twice) /\ Cids(twice) = Cids(refs)
  BY <1>3, <1>5, MovedInPlace
<1> HIDE DEF twice
<1>7. InPlace(refs') /\ Cids(refs') = Cids(refs)
  BY <1>2, <1>4, <1>5, <1>6
<1>8. SoundRows(Found)'
  BY <1>1, <1>7, RowFacts DEF SoundRows, Found, InPlace, Apart
<1>9. made <= made' /\ Newer(pool, start.pool)' /\ Newer(lists, start.lists)'
  BY <1>1, NewerStill
<1>10. Harmless
  BY <1>1, <1>3, <1>7, <1>8, <1>9, RowsHarmless DEF Adders
<1> QED BY <1>1, <1>2, <1>10, JustGo, FailsKeep
-----------------------------------------------------------------------------
(* Presets and setlists                                                    *)

\* Presets and setlists may come and change, as long as they have the cids they
\* had, or new ones, and the references stay as they are.
LEMMA PresetsHarmless ==
  ASSUME ContentInv, c.pc # "plan", irs' = irs, refs' = refs, script' = script, start' = start,
         made' \in {made, made + 1},
         Cids(pool') = Cids(pool) \/ (made' = made + 1 /\ Cids(pool') = Cids(pool) \cup {made'}),
         Cids(lists') = Cids(lists)
           \/ /\ made' = made + 1 /\ Cids(lists') = Cids(lists) \cup {made'}
              /\ Cids(pool') = Cids(pool),
         \A x \in pool' : x = [cid |-> x.cid, name |-> x.name, rev |-> x.rev, uses |-> x.uses],
         \A l \in lists' : l = [cid |-> l.cid, name |-> l.name],
         Cmd.verb = "rm" => lists' = lists
  PROVE  Harmless
<1>1. made \in Nat /\ made' \in Nat /\ made <= made'
  BY RowFacts
<1>2. /\ Cids(pool') \subseteq 1..made' /\ Cids(lists') \subseteq 1..made'
      /\ Cids(refs') \subseteq 1..made'
  BY <1>1, RowFacts
<1>3. made' = made + 1 => /\ made' \notin Cids(pool) /\ made' \notin Cids(lists)
                          /\ made' \notin Cids(refs)
  BY <1>1, RowFacts
<1>4. Apart(pool', lists') /\ Apart(pool', refs') /\ Apart(lists', refs')
  BY <1>3, RowFacts DEF Apart
<1>5. SoundRows(Found)'
  BY <1>1, <1>2, <1>4, RowFacts DEF SoundRows, Found
<1>6. made <= made' /\ Newer(pool, start.pool)' /\ Newer(lists, start.lists)'
  <2>1. /\ Cids(pool') \subseteq Cids(pool) \cup {made'}
        /\ Cids(lists') \subseteq Cids(lists) \cup {made'}
    OBVIOUS
  <2>2. made' = made => Cids(pool') \subseteq Cids(pool) /\ Cids(lists') \subseteq Cids(lists)
    BY <1>1
  <2> QED BY <2>1, <2>2, NewerStill
<1>7. /\ Cmd.verb = "rm" => lists' \subseteq start.lists
      /\ Cmd.verb \in Adders => start.refs \subseteq refs'
  BY DEF ContentInv, DeviceInv
<1> QED BY <1>5, <1>6, <1>7, RowsHarmless

LEMMA InstallKeeps == ASSUME ContentInv, Install PROVE ContentInv'
<1>1. /\ c.pc # "plan" /\ c.ops # <<>> /\ op.op = "install"
      /\ UNCHANGED <<lists, refs, irs>> /\ script' = script /\ start' = start
  BY DEF Install, Doing, Frame
<1>2. PICK left \in {0, 1, 2} :
        /\ pool' = pool \cup (IF left = 0 THEN {} ELSE
                     {[cid |-> made + 1, name |-> op.name, uses |-> op.uses,
                       rev |-> IF left = 2 THEN op.rev ELSE 0]})
        /\ made' = IF left = 0 THEN made ELSE made + 1
        /\ \/ left = 2 /\ Go([c EXCEPT !.cid = made + 1])
           \/ Fail(op.raised) \/ (left < 2 /\ Fail(op.none))
  BY DEF Install
<1>3. Harmless
  <2>1. CASE left = 0
    BY <1>1, <1>2, <2>1, QuietHarmless DEF SameRows
  <2>2. CASE left # 0
    <3> DEFINE n == [cid |-> made + 1, name |-> op.name, uses |-> op.uses,
                     rev |-> IF left = 2 THEN op.rev ELSE 0]
    <3>1. /\ n.cid = made + 1
          /\ n = [cid |-> n.cid, name |-> n.name, rev |-> n.rev, uses |-> n.uses]
      OBVIOUS
    <3>2. pool' = pool \cup {n} /\ made' = made + 1
      BY <1>2, <2>2
    <3> HIDE DEF n
    <3>3. Cids(pool') = Cids(pool) \cup {made'}
      BY <3>1, <3>2 DEF Cids
    <3>4. \A x \in pool' : x = [cid |-> x.cid, name |-> x.name, rev |-> x.rev, uses |-> x.uses]
      BY <3>1, <3>2, RowFacts
    <3> QED BY <1>1, <3>2, <3>3, <3>4, RowFacts, PresetsHarmless
  <2> QED BY <2>1, <2>2
<1>4. CASE Go([c EXCEPT !.cid = made + 1])
  <2>1. [c EXCEPT !.cid = made + 1] = [c EXCEPT !.noted = c.noted, !.warned = c.warned, !.cid = made + 1, !.taken = c.taken]
    BY DEF ContentInv, CommandInv, Shape
  <2>2. Go([c EXCEPT !.noted = c.noted, !.warned = c.warned, !.cid = made + 1, !.taken = c.taken])
    BY <1>4, <2>1
  <2>3. c.warned \in BOOLEAN
    BY DEF ContentInv, CommandInv, Shape
  <2> QED BY <1>1, <1>3, <2>2, <2>3, PassKeeps
<1> QED BY <1>1, <1>2, <1>3, <1>4, FailKeeps

LEMMA SetContentKeeps == ASSUME ContentInv, SetContent PROVE ContentInv'
<1>1. /\ c.pc # "plan" /\ c.ops # <<>> /\ op.op = "content"
      /\ UNCHANGED <<lists, refs, made, irs>> /\ script' = script /\ start' = start
  BY DEF SetContent, Doing, Frame
<1>2. PICK landed \in BOOLEAN :
        /\ pool' = {IF landed /\ x.cid = op.cid
                    THEN [x EXCEPT !.rev = op.rev, !.uses = op.uses] ELSE x : x \in pool}
        /\ (landed /\ Go(c)) \/ Fails
  BY DEF SetContent
<1>3. Harmless
  <2> DEFINE Set(x) == IF landed /\ x.cid = op.cid
                       THEN [x EXCEPT !.rev = op.rev, !.uses = op.uses] ELSE x
  <2>1. ASSUME NEW x \in pool
        PROVE  /\ Set(x).cid = x.cid
               /\ Set(x) = [cid |-> Set(x).cid, name |-> Set(x).name,
                            rev |-> Set(x).rev, uses |-> Set(x).uses]
    <3>1. x = [cid |-> x.cid, name |-> x.name, rev |-> x.rev, uses |-> x.uses]
      BY RowFacts
    <3>2. [x EXCEPT !.rev = op.rev, !.uses = op.uses]
            = [cid |-> x.cid, name |-> x.name, rev |-> op.rev, uses |-> op.uses]
      <4> DEFINE rev == op.rev
                 uses == op.uses
                 y == [x EXCEPT !.rev = rev, !.uses = uses]
      <4> HIDE DEF rev, uses
      <4>1. y \in [cid : {x.cid}, name : {x.name}, rev : {rev}, uses : {uses}]
        BY <3>1
      <4> HIDE DEF y
      <4>2. y = [cid |-> x.cid, name |-> x.name, rev |-> rev, uses |-> uses]
        BY <4>1
      <4> QED BY <4>2 DEF y, rev, uses
    <3>3. CASE landed /\ x.cid = op.cid
      <4>1. Set(x) = [cid |-> x.cid, name |-> x.name, rev |-> op.rev, uses |-> op.uses]
        BY <3>2, <3>3
      <4> HIDE DEF Set
      <4> QED BY <4>1
    <3>4. CASE ~(landed /\ x.cid = op.cid)
      <4>1. Set(x) = x
        BY <3>4
      <4> HIDE DEF Set
      <4> QED BY <3>1, <4>1
    <3> QED BY <3>3, <3>4
  <2>2. pool' = {Set(x) : x \in pool}
    BY <1>2
  <2> HIDE DEF Set
  <2>3. Cids(pool') = Cids(pool)
    BY <2>1, <2>2 DEF Cids
  <2>4. \A x \in pool' : x = [cid |-> x.cid, name |-> x.name, rev |-> x.rev, uses |-> x.uses]
    BY <2>1, <2>2
  <2> QED BY <1>1, <2>3, <2>4, RowFacts, PresetsHarmless
<1> QED BY <1>1, <1>2, <1>3, JustGo, FailsKeep

LEMMA RenameKeeps == ASSUME ContentInv, Rename PROVE ContentInv'
<1>1. /\ c.pc # "plan" /\ c.ops # <<>> /\ op.op = "rename"
      /\ UNCHANGED <<refs, made, irs>> /\ script' = script /\ start' = start
  BY DEF Rename, Doing, Frame
<1>2. PICK landed \in BOOLEAN :
        LET Renamed(rows) == {IF landed /\ x.cid = op.cid THEN [x EXCEPT !.name = op.name]
                              ELSE x : x \in rows}
        IN pool' = Renamed(pool) /\ lists' = Renamed(lists) /\ ((landed /\ Go(c)) \/ Fails)
  BY DEF Rename
<1>3. Cmd.verb # "rm"
  BY <1>1, MayDo DEF May, MayArrange
<1>4. Harmless
  <2> DEFINE Set(x) == IF landed /\ x.cid = op.cid THEN [x EXCEPT !.name = op.name] ELSE x
  <2>1. ASSUME NEW x \in pool
        PROVE  /\ Set(x).cid = x.cid
               /\ Set(x) = [cid |-> Set(x).cid, name |-> Set(x).name,
                            rev |-> Set(x).rev, uses |-> Set(x).uses]
    <3>1. x = [cid |-> x.cid, name |-> x.name, rev |-> x.rev, uses |-> x.uses]
      BY RowFacts
    <3>2. [x EXCEPT !.name = op.name]
            = [cid |-> x.cid, name |-> op.name, rev |-> x.rev, uses |-> x.uses]
      BY <3>1
    <3> QED BY <3>1, <3>2
  <2>2. ASSUME NEW l \in lists
        PROVE  Set(l).cid = l.cid /\ Set(l) = [cid |-> Set(l).cid, name |-> Set(l).name]
    <3>1. l = [cid |-> l.cid, name |-> l.name]
      BY RowFacts
    <3>2. [l EXCEPT !.name = op.name] = [cid |-> l.cid, name |-> op.name]
      BY <3>1
    <3> QED BY <3>1, <3>2
  <2>3. pool' = {Set(x) : x \in pool} /\ lists' = {Set(l) : l \in lists}
    BY <1>2
  <2> HIDE DEF Set
  <2>4. Cids(pool') = Cids(pool) /\ Cids(lists') = Cids(lists)
    BY <2>1, <2>2, <2>3 DEF Cids
  <2>5. /\ \A x \in pool' : x = [cid |-> x.cid, name |-> x.name, rev |-> x.rev, uses |-> x.uses]
        /\ \A l \in lists' : l = [cid |-> l.cid, name |-> l.name]
    BY <2>1, <2>2, <2>3
  <2> QED BY <1>1, <1>3, <2>4, <2>5, PresetsHarmless
<1> QED BY <1>1, <1>2, <1>4, JustGo, FailsKeep

\* A setlist is made before anything that goes into it.
LEMMA CreateSetlistKeeps == ASSUME ContentInv, CreateSetlist PROVE ContentInv'
<1>1. /\ c.pc # "plan" /\ c.ops # <<>> /\ op.op = "setlist"
      /\ UNCHANGED <<pool, refs, irs>> /\ script' = script /\ start' = start
  BY DEF CreateSetlist, Doing, Frame
<1>2. PICK landed \in BOOLEAN :
        /\ lists' = lists \cup (IF landed THEN {[cid |-> made + 1, name |-> op.name]} ELSE {})
        /\ made' = IF landed THEN made + 1 ELSE made
        /\ (landed /\ Go([c EXCEPT !.list = made + 1])) \/ Fails
  BY DEF CreateSetlist
<1>3. Cmd.verb \in {"setlist create", "setlist duplicate", "import-hss"}
  BY <1>1, MayDo DEF May, MayMake
<1>4. CASE ~landed
  <2>1. Harmless /\ Fails
    BY <1>1, <1>2, <1>4, QuietHarmless DEF SameRows
  <2> QED BY <1>1, <2>1, FailsKeep
<1>5. CASE landed
  <2> DEFINE n == [cid |-> made + 1, name |-> op.name]
  <2>1. n.cid = made + 1 /\ n = [cid |-> n.cid, name |-> n.name]
    OBVIOUS
  <2>2. lists' = lists \cup {n} /\ made' = made + 1
    BY <1>2, <1>5
  <2> HIDE DEF n
  <2>3. Cids(lists') = Cids(lists) \cup {made'}
    BY <2>1, <2>2 DEF Cids
  <2>4. \A l \in lists' : l = [cid |-> l.cid, name |-> l.name]
    BY <2>1, <2>2, RowFacts
  <2>5. Harmless
    BY <1>1, <1>3, <2>2, <2>3, <2>4, RowFacts, PresetsHarmless
  <2>6. CASE Fails
    BY <1>1, <2>5, <2>6, FailsKeep
  <2>7. CASE Go([c EXCEPT !.list = made + 1])
    <3>1. /\ IsCommand(c') /\ c'.pc = "do" /\ c'.ops = Tail(c.ops) /\ ran' = ran
          /\ c'.list = made' /\ c'.taken = c.taken /\ c'.scanned = c.scanned
      BY <2>2, <2>7 DEF ContentInv, CommandInv, Shape, Go, IsCommand
    <3>2. <<>> \in Seq({}) /\ ToSet(<<>>) = {} /\ <<>> \o Tail(c.ops) = Tail(c.ops)
      <4>1. Tail(c.ops) \in Seq(Later)
        BY <1>1, OpsSplit DEF ContentInv, CommandInv
      <4> QED BY <4>1, EmptySeq, ConcatEmptySeq DEF ToSet
    <3>3. Advance(<<>>)
      BY <3>1, <3>2 DEF Advance
    <3>4. Ops = {op} \cup Later /\ Ops' = Later
      BY <1>1, <3>2, <3>3, OpsSplit, Advanced DEF ContentInv, CommandInv
    <3>5. Cmd' = Cmd /\ c'.list \in Cids(lists') /\ c'.list = made'
      BY <1>1, <2>3, <3>1 DEF Cmd
    <3>6. ASSUME NEW o \in Later PROVE May(o)'
      <4>1. May(o)
        BY <3>4 DEF ContentInv, CommandInv
      <4>2. MayAdd(o)'
        <5>1. SUFFICES ASSUME o.op = "add"
                       PROVE  /\ Cmd.verb \in Adders \cup {"mirror"}
                              /\ There(o.list)'
                              /\ Cmd.verb \in Adders =>
                                   /\ o.posi = None => o.list = None
                                   /\ \/ o.list = None /\ o.posi = None /\ Awaits("look")'
                                      \/ Clear(o)' /\ (o.list = None => ~Awaits("setlist")')
          BY <3>5 DEF MayAdd
        <5>2. /\ Cmd.verb \in Adders \cup {"mirror"} /\ There(o.list)
              /\ Cmd.verb \in Adders =>
                   /\ o.posi = None => o.list = None
                   /\ \/ o.list = None /\ o.posi = None /\ Awaits("look")
                      \/ Clear(o) /\ (o.list = None => ~Awaits("setlist"))
          BY <4>1, <5>1 DEF May, MayAdd
        <5>3. Awaits("setlist") /\ (Awaits("look") => Awaits("look")')
          BY <1>1, <3>4 DEF Awaits
        <5>4. There(o.list)'
          BY <2>3, <3>5, <5>2 DEF There
        <5>5. Clear(o) /\ o.list # None => Clear(o)'
          BY <1>1, <3>1 DEF Clear, Target
        <5> QED BY <5>2, <5>3, <5>4, <5>5
      <4>3. MayMake(o)' /\ MayUpload(o)' /\ MayUnlist(o)'
        BY <1>1, <1>3, <3>5, <4>1 DEF May, MayMake, MayUpload, MayUnlist
      <4>4. MayRemove(o)' /\ MayArrange(o)'
        BY <1>1, <1>3, <3>5, <4>1 DEF May, MayRemove, MayArrange
      <4>5. MayRead(o)'
        BY <1>3, <3>5, <4>1 DEF May, MayRead, There
      <4> QED BY <4>2, <4>3, <4>4, <4>5 DEF May
    <3> QED BY <1>1, <2>5, <3>2, <3>3, <3>6, AdvanceKeeps
  <2> QED BY <1>2, <2>6, <2>7
<1> QED BY <1>4, <1>5

\* What is taken is seen before anything is added.
LEMMA LookKeeps == ASSUME ContentInv, LookTaken PROVE ContentInv'
<1>1. /\ c.pc # "plan" /\ c.ops # <<>> /\ op.op = "look" /\ Harmless
      /\ Fails \/ Go([c EXCEPT !.taken = Occupied(c.list)])
      /\ SameRows /\ script' = script /\ start' = start /\ irs' = irs
  BY QuietHarmless DEF LookTaken, Doing, OnlyReads, SameRows, Contents, Frame
<1>2. CASE Fails
  BY <1>1, <1>2, FailsKeep
<1>3. CASE Go([c EXCEPT !.taken = Occupied(c.list)])
  <2>1. /\ IsCommand(c') /\ c'.pc = "do" /\ c'.ops = Tail(c.ops) /\ ran' = ran
        /\ c'.list = c.list /\ c'.taken = Occupied(c.list) /\ c'.scanned = c.scanned
    BY <1>3 DEF ContentInv, CommandInv, Shape, Go, IsCommand
  <2>2. <<>> \in Seq({}) /\ ToSet(<<>>) = {} /\ <<>> \o Tail(c.ops) = Tail(c.ops)
    <3>1. Tail(c.ops) \in Seq(Later)
      BY <1>1, OpsSplit DEF ContentInv, CommandInv
    <3> QED BY <3>1, EmptySeq, ConcatEmptySeq DEF ToSet
  <2>3. Advance(<<>>)
    BY <2>1, <2>2 DEF Advance
  <2>4. Ops = {op} \cup Later /\ Ops' = Later
    BY <1>1, <2>2, <2>3, OpsSplit, Advanced DEF ContentInv, CommandInv
  <2>5. Cmd' = Cmd /\ Cmd.verb = "import-hss"
    BY <1>1, <2>1, MayDo DEF May, MayRead, Cmd
  <2>6. ~Awaits("setlist") /\ ~Awaits("setlist")'
    BY <1>1, <2>4 DEF ContentInv, CommandInv, Ordered, Awaits
  <2>7. start.refs \subseteq refs
    BY <1>1, <2>5 DEF ContentInv, DeviceInv, Adders
  <2>8. ASSUME NEW o \in Later PROVE May(o)'
    <3>1. May(o)
      BY <2>4 DEF ContentInv, CommandInv
    <3>2. MayAdd(o)'
      <4>1. SUFFICES ASSUME o.op = "add"
                     PROVE  There(o.list)' /\ (o.posi = None => o.list = None) /\ Clear(o)'
        BY <2>5, <2>6 DEF MayAdd, Adders
      <4>2. /\ There(o.list) /\ (o.posi = None => o.list = None)
            /\ (o.list = None /\ o.posi = None) \/ Clear(o)
        BY <2>5, <3>1, <4>1 DEF May, MayAdd, Adders
      <4>3. There(o.list)'
        BY <1>1, <2>1, <2>6, <4>2 DEF There, SameRows
      <4>4. ASSUME NEW r \in start.refs, r.list = c.list PROVE r.posi \in Occupied(c.list)
        BY <2>7, <4>4 DEF Occupied, In
      <4>5. ASSUME NEW r \in start.refs, r.list = Target(o)
            PROVE  IF o.posi = None THEN r.posi \in Occupied(c.list) ELSE r.posi # o.posi
        <5>1. CASE o.posi = None
          BY <4>2, <4>4, <4>5, <5>1 DEF Target
        <5>2. CASE o.posi # None
          BY <4>2, <4>5, <5>2 DEF Clear
        <5> QED BY <5>1, <5>2
      <4>6. Target(o)' = Target(o) /\ start'.refs = start.refs
        BY <1>1, <2>1 DEF Target
      <4>7. Clear(o)'
        BY <2>1, <4>5, <4>6 DEF Clear
      <4> QED BY <4>2, <4>3, <4>7
    <3>3. MayMake(o)' /\ MayUpload(o)' /\ MayUnlist(o)'
      BY <1>1, <2>1, <2>5, <3>1 DEF May, MayMake, MayUpload, MayUnlist
    <3>4. MayRemove(o)' /\ MayArrange(o)' /\ MayRead(o)'
      BY <1>1, <2>1, <2>5, <3>1 DEF May, MayRemove, MayArrange, MayRead
    <3> QED BY <3>2, <3>3, <3>4 DEF May
  <2> QED BY <1>1, <2>2, <2>3, <2>8, AdvanceKeeps
<1> QED BY <1>1, <1>2, <1>3
-----------------------------------------------------------------------------
(* Operations that make a list of what is left to do                       *)

LEMMA TailOfCons ==
  ASSUME NEW S, NEW x \in S, NEW p \in Seq(S), NEW q \in Seq(S)
  PROVE  Tail(<<x>> \o p \o q) = p \o q
<1> DEFINE u == p \o q
           s == <<x>>
           v == s \o u
           t == Tail(v)
<1>1. s \in Seq(S) /\ Len(s) = 1 /\ u \in Seq(S)
  BY ConcatProperties
<1>2. (s \o p) \o q = v
  BY <1>1, ConcatAssociative
<1>3. /\ v \in Seq(S) /\ Len(v) = 1 + Len(u) /\ Len(u) \in Nat
      /\ \A i \in 1..(1 + Len(u)) : v[i] = IF i <= 1 THEN s[i] ELSE u[i - 1]
  <2> HIDE DEF s, u
  <2>1. /\ s \o u \in Seq(S) /\ Len(s \o u) = Len(s) + Len(u)
        /\ \A i \in 1..(Len(s) + Len(u)) :
             (s \o u)[i] = IF i <= Len(s) THEN s[i] ELSE u[i - Len(s)]
    BY <1>1, ConcatProperties
  <2>2. Len(u) \in Nat
    BY <1>1, LenProperties
  <2> QED BY <1>1, <2>1, <2>2
<1>4. /\ t \in Seq(S) /\ Len(t) = Len(u) /\ \A i \in 1..Len(u) : t[i] = v[i + 1]
  <2> HIDE DEF s, u, v
  <2>1. v # <<>>
    BY <1>3, EmptySeq
  <2>2. t \in Seq(S) /\ Len(t) = Len(v) - 1 /\ \A i \in 1..Len(t) : t[i] = v[i + 1]
    BY <1>3, <2>1, HeadTailProperties
  <2> QED BY <1>3, <2>2
<1>5. \A i \in 1..Len(u) : t[i] = u[i]
  <2> HIDE DEF s, u, v, t
  <2>1. \A i \in 1..Len(u) : i + 1 \in 1..(1 + Len(u)) /\ ~(i + 1 <= 1) /\ (i + 1) - 1 = i
    BY <1>3
  <2> QED BY <1>3, <1>4, <2>1
<1>6. t = u
  <2> HIDE DEF s, u, v, t
  <2>1. t \in [1..Len(u) -> S] /\ u \in [1..Len(u) -> S]
    BY <1>1, <1>4, LenProperties
  <2> QED BY <1>5, <2>1
<1> QED BY <1>2, <1>6

LEMMA Expanded ==
  ASSUME ContentInv, c.pc # "plan", c.ops # <<>>,
         NEW S, NEW more \in Seq(S), NEW scanned, NEW checked,
         Go([c EXCEPT !.scanned = scanned, !.checked = checked,
                      !.ops = <<op>> \o more \o Tail(c.ops)])
  PROVE  /\ Advance(more) /\ ran' = ran
         /\ c'.list = c.list /\ c'.taken = c.taken /\ c'.scanned = scanned
         /\ (\A o \in ToSet(more) : o.op # "setlist") => ~Awaits("setlist")'
<1>1. Tail(<<op>> \o more \o Tail(c.ops)) = more \o Tail(c.ops)
  <2> DEFINE L == {op} \cup Later \cup S
  <2>1. Tail(c.ops) \in Seq(Later)
    BY OpsSplit DEF ContentInv, CommandInv
  <2>2. op \in L /\ Later \subseteq L /\ S \subseteq L
    OBVIOUS
  <2> HIDE DEF L
  <2>3. Tail(c.ops) \in Seq(L)
    BY <2>1, <2>2, SeqMonotonic
  <2>4. more \in Seq(L)
    BY <2>2, SeqMonotonic
  <2> DEFINE x == op
             t == Tail(c.ops)
  <2>5. x \in L /\ t \in Seq(L)
    BY <2>2, <2>3
  <2> HIDE DEF x, t
  <2>6. Tail(<<x>> \o more \o t) = more \o t
    BY <2>4, <2>5, TailOfCons
  <2> QED BY <2>6 DEF x, t
<1>2. /\ IsCommand(c') /\ c'.pc = "do" /\ c'.ops = Tail(<<op>> \o more \o Tail(c.ops))
      /\ c'.list = c.list /\ c'.taken = c.taken /\ c'.scanned = scanned /\ ran' = ran
  BY DEF ContentInv, CommandInv, Shape, Go, IsCommand
<1>3. Advance(more)
  BY <1>1, <1>2 DEF Advance
<1>4. Ops' = ToSet(more) \cup Later /\ \A o \in Later : o.op # "setlist"
  BY <1>3, Advanced DEF ContentInv, CommandInv, Ordered
<1> QED BY <1>2, <1>3, <1>4 DEF Awaits

LEMMA ExpandForm ==
  ASSUME ContentInv, NEW more, Expand(more)
  PROVE  Go([c EXCEPT !.scanned = c.scanned, !.checked = c.checked,
                      !.ops = <<op>> \o more \o Tail(c.ops)])
<1>1. [c EXCEPT !.ops = <<op>> \o more \o Tail(@)]
        = [c EXCEPT !.scanned = c.scanned, !.checked = c.checked,
                    !.ops = <<op>> \o more \o Tail(c.ops)]
  BY DEF ContentInv, CommandInv, Shape
<1> QED BY <1>1 DEF Expand

\* duplicate_setlist_refs
LEMMA CopyRefsKeeps == ASSUME ContentInv, CopyRefs PROVE ContentInv'
<1> DEFINE rows == ByPosi(In(SetlistCid(Cmd.src)))
           more == [i \in DOMAIN rows |-> Ref(None, i - 1, rows[i].rcid)]
           n == Cardinality(In(SetlistCid(Cmd.src)))
<1>1. /\ c.pc # "plan" /\ c.ops # <<>> /\ op.op = "copies" /\ Harmless
      /\ Fails \/ (In(c.list) = {} /\ Expand(more))
      /\ SameRows /\ script' = script /\ start' = start
  BY QuietHarmless DEF CopyRefs, Doing, OnlyReads, SameRows, Contents, Frame
<1>2. n \in Nat
  <2>1. In(SetlistCid(Cmd.src)) \subseteq refs
    BY DEF In
  <2> QED BY <2>1, RowFacts, FS_Subset, FS_CardinalityType
<1>3. DOMAIN rows = 1..n
  BY DEF ByPosi
<1> HIDE DEF rows, n
<1>4. /\ more \in Seq(ToSet(more)) /\ ToSet(more) = {more[i] : i \in 1..n}
  <2>1. DOMAIN more = 1..n /\ more = [i \in 1..n |-> more[i]]
    BY <1>3
  <2> HIDE DEF more
  <2> QED BY <1>2, <2>1, FunctionIsSeq
<1>5. \A o \in ToSet(more) : /\ o.op = "add" /\ o.list = None /\ o.posi # None
  <2>1. ASSUME NEW i \in 1..n
        PROVE  more[i].op = "add" /\ more[i].list = None /\ more[i].posi # None
    BY <1>2, <1>3 DEF Ref, None
  <2> HIDE DEF more
  <2> QED BY <1>4, <2>1
<1> HIDE DEF more
<1>6. CASE In(c.list) = {} /\ Expand(more)
  <2>1. Go([c EXCEPT !.scanned = c.scanned, !.checked = c.checked,
                     !.ops = <<op>> \o more \o Tail(c.ops)])
    BY <1>6, ExpandForm
  <2>2. /\ Advance(more) /\ c'.list = c.list /\ c'.taken = c.taken /\ c'.scanned = c.scanned
        /\ ~Awaits("setlist")' /\ ran' = ran
    BY <1>1, <1>4, <1>5, <2>1, Expanded
  <2>3. Cmd' = Cmd /\ Cmd.verb = "setlist duplicate" /\ c.list \in Cids(lists)
    BY <1>1, <2>2, MayDo DEF May, MayRead, There, Cmd
  <2>4. \A r \in start.refs : r.list # c.list
    BY <1>1, <1>6, <2>3 DEF ContentInv, DeviceInv, Adders, In
  <2>5. ASSUME NEW o \in ToSet(more) PROVE May(o)'
    <3>1. Clear(o)' /\ There(None)'
      BY <1>1, <1>5, <2>2, <2>3, <2>4 DEF Clear, Target, There, SameRows
    <3>2. MayAdd(o)'
      BY <1>5, <2>2, <2>3, <3>1 DEF MayAdd, Adders
    <3> QED BY <1>5, <3>2 DEF May, MayMake, MayRemove, MayRead, MayArrange, MayUpload, MayUnlist
  <2> QED BY <1>1, <1>4, <1>5, <2>2, <2>5, GoKeeps
<1> QED BY <1>1, <1>6, FailsKeep

\* One operation more, which is not a setlist to make or to look at.
LEMMA OneMore ==
  ASSUME ContentInv, Harmless, c.pc # "plan", c.ops # <<>>, op.op \notin {"look", "setlist"},
         NEW o, Expand(<<o>>), o.op \notin {"setlist", "look", "rescan"},
         Advance(<<o>>) /\ c'.list = c.list /\ c'.taken = c.taken /\ c'.scanned = c.scanned
           /\ ran' = ran /\ ~Awaits("setlist")' => May(o)'
  PROVE  ContentInv'
<1>1. <<o>> \in Seq({o}) /\ ToSet(<<o>>) = {o}
  BY DEF ToSet
<1>2. Go([c EXCEPT !.scanned = c.scanned, !.checked = c.checked,
                   !.ops = <<op>> \o <<o>> \o Tail(c.ops)])
  BY ExpandForm
<1>3. /\ Advance(<<o>>) /\ c'.list = c.list /\ c'.taken = c.taken /\ c'.scanned = c.scanned
      /\ ~Awaits("setlist")' /\ ran' = ran
  BY <1>1, <1>2, Expanded
<1> QED BY <1>1, <1>3, GoKeeps

\* _other_setlists_referencing
LEMMA CheckHoldersKeeps == ASSUME ContentInv, CheckHolders PROVE ContentInv'
<1>0. PICK o : o = [Do("remove", op.cid) EXCEPT !.none = "note"]
  OBVIOUS
<1> DEFINE others == {l.cid : l \in lists \ Named(lists, Cmd.list)}
<1>1. /\ c.pc # "plan" /\ c.ops # <<>> /\ op.op = "holders" /\ Harmless
      /\ \/ Fails
         \/ Fail("note")
         \/ (\A r \in refs : r.rcid = op.cid => r.list \notin others) /\ Expand(<<o>>)
      /\ SameRows /\ script' = script /\ start' = start
  BY <1>0, QuietHarmless DEF CheckHolders, Doing, OnlyReads, SameRows, Contents, Frame
<1>2. o.op = "remove" /\ o.cid = op.cid
  BY <1>0 DEF Do
<1>3. CASE (\A r \in refs : r.rcid = op.cid => r.list \notin others) /\ Expand(<<o>>)
  <2>1. Cmd.verb = "rm" /\ lists \subseteq start.lists
    BY <1>1, MayDo DEF May, MayRead, ContentInv, DeviceInv
  <2>2. ASSUME NEW r \in start.refs \cap refs, r.rcid = o.cid
        PROVE  r.list \in Cids(Named(start.lists, Cmd.list))
    <3>1. r.list \notin others /\ r.list \in Cids(lists)
      BY <1>2, <1>3, <2>2, RowFacts
    <3>2. PICK l \in lists : l.cid = r.list
      BY <3>1 DEF Cids
    <3>3. l.name = Cmd.list
      BY <3>1, <3>2 DEF Named
    <3> QED BY <2>1, <3>2, <3>3 DEF Named, Cids
  <2>3. ASSUME ran' = ran PROVE May(o)'
    <3>1. Cmd' = Cmd
      BY <1>1, <2>3 DEF Cmd
    <3>2. Unheld(o.cid)'
      BY <1>1, <2>2, <3>1 DEF Unheld, SameRows
    <3>4. MayRemove(o)'
      BY <1>2, <2>1, <3>1, <3>2 DEF MayRemove
    <3> QED BY <1>2, <3>4 DEF May, MayMake, MayAdd, MayRead, MayArrange, MayUpload, MayUnlist
  <2> QED BY <1>1, <1>2, <1>3, <2>3, OneMore
<1> QED BY <1>1, <1>3, FailsKeep, FailKeeps

\* _plan_ref
LEMMA PlaceKeeps == ASSUME ContentInv, Place PROVE ContentInv'
<1>1. /\ c.pc # "plan" /\ c.ops # <<>> /\ op.op = "place" /\ Harmless
      /\ SameRows /\ script' = script /\ start' = start
  BY QuietHarmless DEF Place, Doing, OnlyReads, SameRows, Contents, Frame
<1>2. ASSUME NEW posi, Expand(Writes(posi)),
             op.refer => posi # None /\ posi \notin Occupied(c.list)
      PROVE  ContentInv'
  <2>1. PICK a : a = IF op.cid = None THEN Installing(Cmd.name, Cmd.rev, Cmd.uses)
                     ELSE [op |-> "content", cid |-> op.cid, rev |-> Cmd.rev, uses |-> Cmd.uses,
                           none |-> "stop", raised |-> "stop"]
    OBVIOUS
  <2>2. PICK b : b = Ref(c.list, posi, op.cid)
    OBVIOUS
  <2>3. PICK more : more = Writes(posi)
    OBVIOUS
  <2>4. more = <<a>> \o (IF op.refer THEN <<b>> ELSE <<>>)
    BY <2>1, <2>2, <2>3 DEF Writes
  <2>5. a.op \in {"install", "content"} /\ b.op = "add" /\ b.list = c.list /\ b.posi = posi
    BY <2>1, <2>2 DEF Installing, Ref
  <2>6. /\ more \in Seq({a, b})
        /\ ToSet(more) \subseteq {a, b} /\ (b \in ToSet(more) => op.refer \/ a = b)
    <3>1. /\ <<a>> \in Seq({a, b}) /\ <<b>> \in Seq({a, b}) /\ <<>> \in Seq({a, b})
          /\ ToSet(<<a>>) = {a} /\ ToSet(<<b>>) = {b} /\ ToSet(<<>>) = {}
      BY DEF ToSet
    <3>2. CASE op.refer
      <4>1. more \in Seq({a, b}) /\ ToSet(more) = ToSet(<<a>>) \cup ToSet(<<b>>)
        BY <2>4, <3>1, <3>2, ConcatOps
      <4> QED BY <3>1, <3>2, <4>1
    <3>3. CASE ~op.refer
      <4>1. more \in Seq({a, b}) /\ ToSet(more) = ToSet(<<a>>) \cup ToSet(<<>>)
        BY <2>4, <3>1, <3>3, ConcatOps
      <4> QED BY <3>1, <4>1
    <3> QED BY <3>2, <3>3
  <2>7. Expand(more)
    BY <1>2, <2>3
  <2>8. Go([c EXCEPT !.scanned = c.scanned, !.checked = c.checked,
                     !.ops = <<op>> \o more \o Tail(c.ops)])
    BY <2>7, ExpandForm
  <2>9. /\ Advance(more) /\ c'.list = c.list /\ c'.taken = c.taken /\ c'.scanned = c.scanned
        /\ ~Awaits("setlist")' /\ ran' = ran
    BY <1>1, <2>5, <2>6, <2>8, Expanded
  <2>10. Cmd' = Cmd /\ Cmd.verb = "copy" /\ (op.refer => c.list \in Cids(lists))
    BY <1>1, <2>9, MayDo DEF May, MayRead, Cmd
  <2>11. May(a)'
    BY <2>5 DEF May, MayMake, MayAdd, MayRemove, MayRead, MayArrange, MayUpload, MayUnlist
  <2>12. ASSUME op.refer PROVE May(b)'
    <3>1. c.list # None
      BY <2>10, <2>12, RowFacts DEF None
    <3>2. \A r \in start.refs : r.list = c.list => r.posi # posi
      BY <1>1, <1>2, <2>10, <2>12 DEF ContentInv, DeviceInv, Adders, Occupied, In
    <3>3. Clear(b)' /\ There(b.list)'
      BY <1>1, <1>2, <2>5, <2>9, <2>10, <2>12, <3>1, <3>2 DEF Clear, Target, There, SameRows
    <3>4. MayAdd(b)'
      BY <1>2, <2>5, <2>10, <2>12, <3>1, <3>3 DEF MayAdd, Adders
    <3> QED BY <2>5, <3>4 DEF May, MayMake, MayRemove, MayRead, MayArrange, MayUpload, MayUnlist
  <2>13. \A o \in ToSet(more) : May(o)' /\ o.op \notin {"setlist", "look", "rescan"}
    BY <2>5, <2>6, <2>11, <2>12
  <2> QED BY <1>1, <2>6, <2>9, <2>13, GoKeeps
<1>3. ASSUME op.refer, Cmd.pos \notin Occupied(c.list),
             NEW posi \in IF Cmd.pos # None THEN {Cmd.pos} ELSE Free(Occupied(c.list))
      PROVE  posi # None /\ posi \notin Occupied(c.list)
  BY <1>3, ContentsAssumption DEF Free, None
<1>4. \/ Fails
      \/ ~op.refer /\ Expand(Writes(None))
      \/ /\ op.refer /\ Cmd.pos \notin Occupied(c.list)
         /\ \E posi \in IF Cmd.pos # None THEN {Cmd.pos} ELSE Free(Occupied(c.list)) :
              Expand(Writes(posi))
  BY DEF Place
<1> QED BY <1>1, <1>2, <1>3, <1>4, FailsKeep
-----------------------------------------------------------------------------
(* IRs                                                                     *)

LEMMA IrFacts ==
  ASSUME ContentInv
  PROVE  /\ SoundIrs(irs)
         /\ irs = [rows |-> irs.rows, listed |-> irs.listed, files |-> irs.files,
                   names |-> irs.names]
         /\ irs.rows \cup irs.listed \subseteq DOMAIN irs.names
         /\ DOMAIN irs.names \subseteq DOMAIN StemOf
         /\ irs.names = [h \in DOMAIN irs.names |-> irs.names[h]]
         /\ irs.files = [n \in DOMAIN irs.files |-> irs.files[n]]
         /\ Stored(irs.files) \subseteq DOMAIN StemOf
BY DEF ContentInv, DeviceInv, Sound, SoundIrs, Found

\* upload_missing_irs
LEMMA UploadMissingKeeps == ASSUME ContentInv, UploadMissing PROVE ContentInv'
<1>1. /\ c.pc # "plan" /\ c.ops # <<>> /\ op.op = "uploads" /\ Harmless
      /\ SameRows /\ script' = script /\ start' = start /\ irs' = irs
  BY QuietHarmless DEF UploadMissing, Doing, Same, Elsewhere, SameRows, Contents, Frame
<1>2. Cmd.verb = "copy" /\ op.uses \subseteq Cmd.uses /\ op.uses \subseteq DOMAIN StemOf
  <2>1. Cmd.verb = "copy" /\ op.uses \subseteq Cmd.uses /\ Running
    BY <1>1, MayDo DEF May, MayUpload
  <2> QED BY <2>1, Hashes
<1>3. ASSUME NEW m \in Missing(op.uses), NEW checked,
             Go([c EXCEPT !.checked = checked,
                          !.ops = <<op>> \o SetToSeq({Push(h, "warn") : h \in m}) \o Tail(@)])
      PROVE  ContentInv'
  <2>1. PICK pushes : pushes = {Push(h, "warn") : h \in m}
    OBVIOUS
  <2>2. m \subseteq op.uses /\ m \subseteq DOMAIN StemOf
    BY <1>2 DEF Missing
  <2>3. IsFiniteSet(pushes)
    <3> DEFINE f == [h \in m |-> Push(h, "warn")]
    <3>1. IsFiniteSet(m)
      BY <2>2, DevicesAssumption, FS_Subset
    <3>2. pushes = {f[h] : h \in m}
      BY <2>1
    <3> HIDE DEF f
    <3> QED BY <3>1, <3>2, FiniteImage
  <2>4. \A o \in pushes : /\ o.op = "push" /\ o.hash \in DOMAIN StemOf
                          /\ o.hash \in Cmd.uses /\ o.raised = "warn"
    BY <1>2, <2>1, <2>2 DEF Push
  <2>5. PICK more : more = SetToSeq(pushes)
    OBVIOUS
  <2>6. more \in Seq(pushes) /\ ToSet(more) \subseteq pushes
    BY <2>3, <2>5, SetToSeqOps
  <2>7. Go([c EXCEPT !.scanned = c.scanned, !.checked = checked,
                     !.ops = <<op>> \o more \o Tail(c.ops)])
    <3>1. [c EXCEPT !.checked = checked,
                    !.ops = <<op>> \o SetToSeq({Push(h, "warn") : h \in m}) \o Tail(@)]
            = [c EXCEPT !.scanned = c.scanned, !.checked = checked,
                        !.ops = <<op>> \o more \o Tail(c.ops)]
      BY <2>1, <2>5 DEF ContentInv, CommandInv, Shape
    <3> QED BY <1>3, <3>1
  <2>8. /\ Advance(more) /\ c'.list = c.list /\ c'.taken = c.taken /\ c'.scanned = c.scanned
        /\ ran' = ran
    BY <1>1, <2>6, <2>7, Expanded
  <2>9. Cmd' = Cmd
    BY <1>1, <2>8 DEF Cmd
  <2>10. \A o \in ToSet(more) : May(o)' /\ o.op \notin {"setlist", "look", "rescan"}
    BY <1>1, <1>2, <2>4, <2>6, <2>9
       DEF May, MayMake, MayAdd, MayRemove, MayRead, MayArrange, MayUpload, MayUnlist, Pushes
  <2> QED BY <1>1, <2>6, <2>8, <2>10, GoKeeps
<1>4. \/ Fail(op.raised)
      \/ Go([c EXCEPT !.warned = TRUE])
      \/ \E m \in Missing(op.uses), checked \in BOOLEAN :
           Go([c EXCEPT !.checked = checked,
                        !.ops = <<op>> \o SetToSeq({Push(h, "warn") : h \in m}) \o Tail(@)])
  BY DEF UploadMissing
<1> QED BY <1>1, <1>3, <1>4, FailKeeps, WarnGo

\* ir_prune after its second scan
LEMMA PruneRescanKeeps == ASSUME ContentInv, PruneRescan PROVE ContentInv'
<1>1. /\ c.pc # "plan" /\ c.ops # <<>> /\ op.op = "rescan" /\ Harmless
      /\ SameRows /\ script' = script /\ start' = start /\ irs' = irs
  BY QuietHarmless DEF PruneRescan, Doing, Same, Elsewhere, SameRows, Contents, Frame
<1>2. Cmd.verb = "prune"
  BY <1>1, MayDo DEF May, MayUnlist
<1>3. CASE Go([c EXCEPT !.scanned = Used(pool),
                        !.ops = <<op>> \o SetToSeq({Unlist(h, "note") : h \in Candidates})
                                  \o Tail(@)])
  <2>1. PICK deletes : deletes = {Unlist(h, "note") : h \in Candidates}
    OBVIOUS
  <2>2. /\ Candidates \subseteq irs.listed
        /\ \A h \in Candidates : /\ h \notin Used(pool) /\ (h \in Cmd.local => Cmd.force)
                                 /\ h \in DOMAIN irs.names
    BY IrFacts DEF Candidates, Orphans, Protected, Unused
  <2>3. IsFiniteSet(deletes)
    <3> DEFINE f == [h \in Candidates |-> Unlist(h, "note")]
    <3>1. IsFiniteSet(Candidates)
      <4>1. IsFiniteSet(DOMAIN StemOf) /\ Candidates \subseteq DOMAIN StemOf
        BY <2>2, IrFacts, DevicesAssumption
      <4> QED BY <4>1, FS_Subset
    <3>2. deletes = {f[h] : h \in Candidates}
      BY <2>1
    <3> HIDE DEF f
    <3> QED BY <3>1, <3>2, FiniteImage
  <2>4. \A o \in deletes : /\ o.op = "unlist" /\ o.hash \notin Used(pool)
                           /\ o.hash \in DOMAIN irs.names
                           /\ o.hash \in Cmd.local => Cmd.force
    BY <2>1, <2>2 DEF Unlist
  <2>5. PICK more : more = SetToSeq(deletes)
    OBVIOUS
  <2>6. more \in Seq(deletes) /\ ToSet(more) \subseteq deletes
    BY <2>3, <2>5, SetToSeqOps
  <2>7. Go([c EXCEPT !.scanned = Used(pool), !.checked = c.checked,
                     !.ops = <<op>> \o more \o Tail(c.ops)])
    <3>1. [c EXCEPT !.scanned = Used(pool),
                    !.ops = <<op>> \o SetToSeq({Unlist(h, "note") : h \in Candidates}) \o Tail(@)]
            = [c EXCEPT !.scanned = Used(pool), !.checked = c.checked,
                        !.ops = <<op>> \o more \o Tail(c.ops)]
      BY <2>1, <2>5 DEF ContentInv, CommandInv, Shape
    <3> QED BY <1>3, <3>1
  <2>8. /\ Advance(more) /\ c'.list = c.list /\ c'.taken = c.taken /\ c'.scanned = Used(pool)
        /\ ran' = ran
    BY <1>1, <2>6, <2>7, Expanded
  <2>9. Cmd' = Cmd
    BY <1>1, <2>8 DEF Cmd
  <2>10. \A o \in ToSet(more) : May(o)' /\ o.op \notin {"setlist", "look", "rescan"}
    BY <1>1, <1>2, <2>4, <2>6, <2>8, <2>9
       DEF May, MayMake, MayAdd, MayRemove, MayRead, MayArrange, MayUpload, MayUnlist
  <2> QED BY <1>1, <2>6, <2>8, <2>10, GoKeeps
<1>4. \/ Fail(op.raised)
      \/ Go([c EXCEPT !.scanned = Used(pool),
                      !.ops = <<op>> \o SetToSeq({Unlist(h, "note") : h \in Candidates})
                                \o Tail(@)])
  BY DEF PruneRescan
<1> QED BY <1>1, <1>3, <1>4, FailKeeps

\* The files of the device, and the names that it shows.
LEMMA WrittenFacts ==
  ASSUME NEW f, NEW n, NEW x
  PROVE  /\ Written(f, n, x) = [m \in DOMAIN Written(f, n, x) |-> Written(f, n, x)[m]]
         /\ DOMAIN Written(f, n, x) = DOMAIN f \cup {n} /\ Written(f, n, x)[n] = x
         /\ \A m \in DOMAIN f \ {n} : Written(f, n, x)[m] = f[m]
         /\ Stored(Written(f, n, x)) \subseteq Stored(f) \cup {x}
         /\ x \in Stored(Written(f, n, x))
<1> DEFINE w == Written(f, n, x)
<1>1. /\ DOMAIN w = DOMAIN f \cup {n} /\ w[n] = x /\ \A m \in DOMAIN f \ {n} : w[m] = f[m]
      /\ w = [m \in DOMAIN w |-> w[m]]
  BY DEF Written
<1>2. \A m \in DOMAIN w : w[m] = x \/ (m \in DOMAIN f /\ w[m] = f[m])
  BY <1>1
<1>3. Stored(w) \subseteq Stored(f) \cup {x} /\ x \in Stored(w)
  <2> HIDE DEF w
  <2> QED BY <1>1, <1>2 DEF Stored, Range
<1> QED BY <1>1, <1>3

LEMMA WithoutFacts ==
  ASSUME NEW f, NEW gone
  PROVE  /\ Without(f, gone) = [m \in DOMAIN Without(f, gone) |-> Without(f, gone)[m]]
         /\ DOMAIN Without(f, gone) = DOMAIN f \ gone
         /\ \A m \in DOMAIN f \ gone : Without(f, gone)[m] = f[m]
         /\ Stored(Without(f, gone)) \subseteq Stored(f)
<1> DEFINE w == Without(f, gone)
<1>1. /\ DOMAIN w = DOMAIN f \ gone /\ \A m \in DOMAIN w : w[m] = f[m]
      /\ w = [m \in DOMAIN w |-> w[m]]
  BY DEF Without
<1>2. Stored(w) \subseteq Stored(f)
  <2> HIDE DEF w
  <2> QED BY <1>1 DEF Stored, Range
<1> QED BY <1>1, <1>2

\* What a store is made of.
LEMMA FieldsOf ==
  ASSUME NEW s, NEW rows, NEW listed, NEW files, NEW names,
         s = [rows |-> rows, listed |-> listed, files |-> files, names |-> names]
  PROVE  /\ s.rows = rows /\ s.listed = listed /\ s.names = names /\ s.files = files
         /\ s = [rows |-> s.rows, listed |-> s.listed, files |-> s.files, names |-> s.names]
OBVIOUS

\* Files go.
LEMMA FewerSound ==
  ASSUME ContentInv, NEW gone
  PROVE  irs' = [irs EXCEPT !.files = Without(@, gone)]
           => /\ SoundIrs(irs') /\ irs'.rows = irs.rows /\ irs'.listed = irs.listed
              /\ irs'.names = irs.names /\ irs'.files = Without(irs.files, gone)
<1> DEFINE files == Without(irs.files, gone)
<1>1. files = [n \in DOMAIN files |-> files[n]]
  BY DEF Without
<1>2. Stored(files) \subseteq DOMAIN StemOf
  <2>1. Stored(files) \subseteq Stored(irs.files)
    BY WithoutFacts
  <2> QED BY <2>1, IrFacts
<1>3. ASSUME irs' = [irs EXCEPT !.files = Without(@, gone)]
      PROVE  irs' = [rows |-> irs.rows, listed |-> irs.listed, files |-> files,
                     names |-> irs.names]
  <2> HIDE DEF files
  <2>1. irs' = [irs EXCEPT !.files = files]
    BY <1>3 DEF files
  <2> QED BY <2>1, IrFacts
<1>4. ASSUME irs' = [rows |-> irs.rows, listed |-> irs.listed, files |-> files,
                     names |-> irs.names]
      PROVE  /\ SoundIrs(irs') /\ irs'.rows = irs.rows /\ irs'.listed = irs.listed
             /\ irs'.names = irs.names /\ irs'.files = files
  <2> HIDE DEF files
  <2>1. /\ irs'.rows = irs.rows /\ irs'.listed = irs.listed
        /\ irs'.names = irs.names /\ irs'.files = files
        /\ irs' = [rows |-> irs'.rows, listed |-> irs'.listed, files |-> irs'.files,
                   names |-> irs'.names]
    BY <1>4, FieldsOf, Zenon
  <2>2. SoundIrs(irs')
    BY <1>1, <1>2, <2>1, IrFacts, Zenon DEF SoundIrs
  <2> QED BY <2>1, <2>2
<1> QED BY <1>3, <1>4

\* A file comes, and with it perhaps a row.
LEMMA UploadSound ==
  ASSUME ContentInv, NEW g \in DOMAIN StemOf, NEW files,
         files = Written(irs.files, StemOf[g], g)
  PROVE  /\ irs' = [irs EXCEPT !.files = files]
              => /\ SoundIrs(irs') /\ irs'.rows = irs.rows /\ irs'.files = files
                 /\ irs'.names = irs.names
         /\ \A listed \in {irs.listed, irs.rows \cup {g}} :
              irs' = [irs EXCEPT !.rows = irs.rows \cup {g}, !.files = files, !.listed = listed,
                                 !.names = Written(irs.names, g, StemOf[g])]
                => /\ SoundIrs(irs') /\ irs'.rows = irs.rows \cup {g} /\ irs'.files = files
                   /\ irs'.names = Written(irs.names, g, StemOf[g])
<1>1. files = [n \in DOMAIN files |-> files[n]]
  BY DEF Written
<1>2. Stored(files) \subseteq DOMAIN StemOf
  <2>1. Stored(Written(irs.files, StemOf[g], g)) \subseteq Stored(irs.files) \cup {g}
    BY WrittenFacts
  <2>2. Stored(files) \subseteq Stored(irs.files) \cup {g}
    BY <2>1, Zenon
  <2> QED BY <2>2, IrFacts
<1>3. ASSUME irs' = [irs EXCEPT !.files = files]
      PROVE  /\ SoundIrs(irs') /\ irs'.rows = irs.rows /\ irs'.files = files
             /\ irs'.names = irs.names
  <2>1. irs' = [rows |-> irs.rows, listed |-> irs.listed, files |-> files, names |-> irs.names]
    BY <1>3, IrFacts
  <2>2. /\ irs'.rows = irs.rows /\ irs'.listed = irs.listed
        /\ irs'.names = irs.names /\ irs'.files = files
        /\ irs' = [rows |-> irs'.rows, listed |-> irs'.listed, files |-> irs'.files,
                   names |-> irs'.names]
    BY <2>1, FieldsOf, Zenon
  <2>3. SoundIrs(irs')
    BY <1>1, <1>2, <2>2, IrFacts, Zenon DEF SoundIrs
  <2> QED BY <2>2, <2>3
<1>4. ASSUME NEW listed \in {irs.listed, irs.rows \cup {g}},
             irs' = [irs EXCEPT !.rows = irs.rows \cup {g}, !.files = files, !.listed = listed,
                                !.names = Written(irs.names, g, StemOf[g])]
      PROVE  /\ SoundIrs(irs') /\ irs'.rows = irs.rows \cup {g} /\ irs'.files = files
             /\ irs'.names = Written(irs.names, g, StemOf[g])
  <2> DEFINE rows == irs.rows \cup {g}
             names == Written(irs.names, g, StemOf[g])
  <2>1. names = [h \in DOMAIN names |-> names[h]] /\ DOMAIN names = DOMAIN irs.names \cup {g}
    BY DEF Written
  <2> HIDE DEF names
  <2>2. irs' = [rows |-> rows, listed |-> listed, files |-> files, names |-> names]
    BY <1>4, IrFacts DEF names
  <2>3. rows \cup listed \subseteq DOMAIN names /\ DOMAIN names \subseteq DOMAIN StemOf
    BY <2>1, IrFacts
  <2> HIDE DEF rows
  <2>4. /\ irs'.rows = rows /\ irs'.listed = listed
        /\ irs'.names = names /\ irs'.files = files
        /\ irs' = [rows |-> irs'.rows, listed |-> irs'.listed, files |-> irs'.files,
                   names |-> irs'.names]
    BY <2>2, FieldsOf, Zenon
  <2>5. SoundIrs(irs')
    BY <1>1, <1>2, <2>1, <2>3, <2>4, Zenon DEF SoundIrs
  <2> QED BY <2>4, <2>5 DEF rows, names
<1> QED BY <1>3, <1>4

\* The steps of the operations on IRs: the rows of the device stay, every IR
\* keeps a name, and the command ends, goes on or stays with the operation.
IrStep == /\ c.pc # "plan" /\ c.ops # <<>> /\ op.op \notin {"look", "setlist"}
          /\ SameRows /\ script' = script /\ start' = start

LEMMA IrStepKeeps ==
  ASSUME ContentInv, IrStep, SoundIrs(irs'), DOMAIN irs.names \subseteq DOMAIN irs'.names,
         \/ Fails
         \/ Fail(op.raised)
         \/ Go(c)
         \/ Go([c EXCEPT !.warned = TRUE])
         \/ \E k \in {"confirm", "unwedge", "upload"} :
              Step(k) /\ op.op = "push" /\ (k = "unwedge" => op.hash \notin irs'.rows)
         \/ Step("unfile") /\ op.op = "unlist" /\ op.hash \notin irs'.rows
  PROVE  ContentInv'
<1>1. Harmless
  BY IrsHarmless DEF IrStep
<1>2. ASSUME NEW k \in {"confirm", "unwedge", "upload", "unfile"}, Step(k),
             IF k = "unfile" THEN op.op = "unlist" ELSE op.op = "push",
             k \in {"unwedge", "unfile"} => op.hash \notin irs'.rows
      PROVE  ContentInv'
  <2>1. c' = [c EXCEPT !.pc = k] /\ ran' = ran /\ c'.pc = k /\ c'.ops = c.ops
    BY <1>2 DEF Step, ContentInv, CommandInv, Shape
  <2>2. op' = op
    BY <2>1 DEF op
  <2>3. Midway'
    BY <1>2, <2>1, <2>2 DEF Midway, IrStep
  <2> QED BY <1>1, <2>1, <2>3, StayKeeps DEF IrStep
<1> QED BY <1>1, <1>2, FailsKeep, FailKeeps, JustGo, WarnGo DEF IrStep

LEMMA LookUpKeeps == ASSUME ContentInv, LookUp PROVE ContentInv'
<1>1. IrStep /\ op.op = "push" /\ irs' = irs
  BY DEF LookUp, Doing, Same, Elsewhere, SameRows, Contents, Frame, IrStep
<1>2. Fail(op.raised) \/ Step("confirm") \/ Step("upload")
  BY DEF LookUp
<1> QED BY <1>1, <1>2, IrFacts, IrStepKeeps

LEMMA ConfirmKeeps == ASSUME ContentInv, Confirm PROVE ContentInv'
<1>1. IrStep /\ op.op = "push"
  BY DEF ContentInv, CommandInv, Midway, Confirm, Within, Elsewhere, SameRows, Contents, Frame, IrStep
<1>2. CASE Go(c) /\ irs' = irs
  BY <1>1, <1>2, IrFacts, IrStepKeeps
<1>3. CASE /\ irs' = [irs EXCEPT !.listed = irs.rows]
           /\ Go(c) \/ (op.hash \notin irs.rows /\ Step("unwedge"))
  <2>1. /\ irs' = [rows |-> irs.rows, listed |-> irs.rows, files |-> irs.files,
                   names |-> irs.names]
    BY <1>3, IrFacts
  <2>2. SoundIrs(irs') /\ irs'.names = irs.names /\ irs'.rows = irs.rows
    BY <2>1, IrFacts DEF SoundIrs
  <2> QED BY <1>1, <1>3, <2>2, IrStepKeeps
<1> QED BY <1>2, <1>3 DEF Confirm, Same

LEMMA UnwedgeKeeps == ASSUME ContentInv, Unwedge PROVE ContentInv'
<1>1. IrStep /\ op.op = "push"
  BY DEF ContentInv, CommandInv, Midway, Unwedge, Within, Elsewhere, SameRows, Contents, Frame, IrStep
<1>2. PICK landed \in BOOLEAN :
        /\ irs' = [irs EXCEPT !.files = IF landed THEN Without(@, Holding(op.hash)) ELSE @]
        /\ (landed /\ Step("upload")) \/ Fail(op.raised)
  BY DEF Unwedge
<1>3. CASE landed
  <2>1. irs' = [irs EXCEPT !.files = Without(@, Holding(op.hash))]
    BY <1>2, <1>3
  <2> QED BY <1>1, <1>2, <2>1, FewerSound, IrStepKeeps
<1>4. CASE ~landed
  <2>1. irs' = irs
    BY <1>2, <1>4, IrFacts
  <2> QED BY <1>1, <1>2, <2>1, IrFacts, IrStepKeeps
<1> QED BY <1>3, <1>4

\* What an upload does to the IRs.
Uploads == \E files : /\ files = Written(irs.files, StemOf[op.hash], op.hash)
                      /\ \/ irs' = [irs EXCEPT !.files = files]
                         \/ \E listed \in {irs.listed, irs.rows \cup {op.hash}} :
                              irs' = [irs EXCEPT !.rows = irs.rows \cup {op.hash}, !.files = files,
                                                 !.listed = listed,
                                                 !.names = Written(irs.names, op.hash, StemOf[op.hash])]
CutShort == irs' = irs \/ irs' = [irs EXCEPT !.files = Without(@, {StemOf[op.hash]})]

LEMMA UploadDoes ==
  ASSUME Upload
  PROVE  \/ Uploads /\ (Go(c) \/ Go([c EXCEPT !.warned = TRUE]) \/ Fail(op.raised))
         \/ CutShort /\ Fail(op.raised)
<1> DEFINE name == StemOf[op.hash]
           whole == Written(irs.files, name, op.hash)
           rows == irs.rows \cup {op.hash}
           names == Written(irs.names, op.hash, name)
<1>1. \/ /\ \/ irs' = [irs EXCEPT !.rows = rows, !.files = whole, !.listed = irs.listed, !.names = names]
            \/ irs' = [irs EXCEPT !.rows = rows, !.files = whole, !.listed = rows, !.names = names]
         /\ Go(c) \/ Fail(op.raised)
      \/ irs' = [irs EXCEPT !.files = whole] /\ (Go([c EXCEPT !.warned = TRUE]) \/ Fail(op.raised))
      \/ (irs' = irs \/ irs' = [irs EXCEPT !.files = Without(@, {name})]) /\ Fail(op.raised)
  BY DEF Upload
<1>2. PICK files : files = whole
  OBVIOUS
<1> HIDE DEF whole
<1>3. whole = Written(irs.files, StemOf[op.hash], op.hash)
  BY DEF whole
<1> QED BY <1>1, <1>2, <1>3 DEF Uploads, CutShort

LEMMA UploadKeeps == ASSUME ContentInv, Upload PROVE ContentInv'
<1>1. IrStep /\ op.op = "push"
  BY DEF ContentInv, CommandInv, Midway, Upload, Within, Elsewhere, SameRows, Contents, Frame, IrStep
<1>2. op.hash \in DOMAIN StemOf
  BY <1>1, MayDo DEF May, MayUpload, IrStep
<1>3. CASE Uploads
  <2>1. PICK files :
          /\ files = Written(irs.files, StemOf[op.hash], op.hash)
          /\ \/ irs' = [irs EXCEPT !.files = files]
             \/ \E listed \in {irs.listed, irs.rows \cup {op.hash}} :
                  irs' = [irs EXCEPT !.rows = irs.rows \cup {op.hash}, !.files = files,
                                     !.listed = listed,
                                     !.names = Written(irs.names, op.hash, StemOf[op.hash])]
    BY <1>3 DEF Uploads
  <2>2. /\ SoundIrs(irs')
        /\ irs'.names = irs.names \/ irs'.names = Written(irs.names, op.hash, StemOf[op.hash])
    BY <1>2, <2>1, UploadSound
  <2>3. DOMAIN irs.names \subseteq DOMAIN Written(irs.names, op.hash, StemOf[op.hash])
    BY DEF Written
  <2>4. DOMAIN irs.names \subseteq DOMAIN irs'.names
    BY <2>2, <2>3, Zenon
  <2> QED BY <1>1, <2>2, <2>4, UploadDoes, IrStepKeeps
<1>4. CASE CutShort
  <2>1. SoundIrs(irs') /\ irs'.names = irs.names
    BY <1>4, IrFacts, FewerSound DEF CutShort
  <2> QED BY <1>1, <2>1, UploadDoes, IrStepKeeps
<1> QED BY <1>3, <1>4, UploadDoes

LEMMA DropRowKeeps == ASSUME ContentInv, DropRow PROVE ContentInv'
<1>1. IrStep /\ op.op = "unlist"
  BY DEF DropRow, Doing, Elsewhere, SameRows, Contents, Frame, IrStep
<1>2. PICK landed \in BOOLEAN :
        /\ irs' = IF landed THEN [irs EXCEPT !.rows = @ \ {op.hash},
                                             !.listed = irs.rows \ {op.hash}]
                  ELSE irs
        /\ (landed /\ Step("unfile")) \/ Fails
  BY DEF DropRow
<1>3. CASE landed
  <2>1. PICK rows : rows = irs.rows \ {op.hash}
    OBVIOUS
  <2>2. irs' = [irs EXCEPT !.rows = rows, !.listed = rows]
    BY <1>2, <1>3, <2>1
  <2>3. irs' \in [rows : {rows}, listed : {rows}, files : {irs.files}, names : {irs.names}]
    BY <2>2, IrFacts
  <2>4. irs' = [rows |-> rows, listed |-> rows, files |-> irs.files, names |-> irs.names]
    BY <2>3
  <2>5. SoundIrs(irs') /\ irs'.names = irs.names /\ op.hash \notin irs'.rows
    BY <2>1, <2>4, IrFacts DEF SoundIrs
  <2> QED BY <1>1, <1>2, <2>5, IrStepKeeps
<1>4. CASE ~landed
  BY <1>1, <1>2, <1>4, IrFacts, IrStepKeeps
<1> QED BY <1>3, <1>4

LEMMA DropFileKeeps == ASSUME ContentInv, DropFile PROVE ContentInv'
<1>1. IrStep /\ op.op = "unlist" /\ Go(c)
  BY DEF ContentInv, CommandInv, Midway, DropFile, Within, Elsewhere, SameRows, Contents, Frame, IrStep
<1>2. PICK gone : irs' = [irs EXCEPT !.files = Without(@, gone)]
  BY DEF DropFile
<1> QED BY <1>1, <1>2, FewerSound, IrStepKeeps

LEMMA DropWedgeKeeps == ASSUME ContentInv, DropWedge PROVE ContentInv'
<1>1. IrStep
  BY DEF DropWedge, Doing, Elsewhere, SameRows, Contents, Frame, IrStep
<1>2. PICK landed \in BOOLEAN :
        /\ irs' = [irs EXCEPT !.files = IF landed THEN Without(@, Holding(op.hash)) ELSE @]
        /\ (landed /\ Go(c)) \/ Fail(op.raised)
  BY DEF DropWedge
<1>3. CASE landed
  <2>1. irs' = [irs EXCEPT !.files = Without(@, Holding(op.hash))]
    BY <1>2, <1>3
  <2> QED BY <1>1, <1>2, <2>1, FewerSound, IrStepKeeps
<1>4. CASE ~landed
  <2>1. irs' = irs
    BY <1>2, <1>4, IrFacts
  <2> QED BY <1>1, <1>2, <2>1, IrFacts, IrStepKeeps
<1> QED BY <1>3, <1>4

\* An IR is shown under another name.
LEMMA RenamedSound ==
  ASSUME ContentInv, NEW h \in DOMAIN StemOf, NEW name
  PROVE  irs' = [irs EXCEPT !.names = Written(@, h, name), !.listed = irs.rows]
           => /\ SoundIrs(irs') /\ irs'.rows = irs.rows /\ irs'.files = irs.files
              /\ irs'.names = Written(irs.names, h, name)
<1> DEFINE names == Written(irs.names, h, name)
<1>1. names = [g \in DOMAIN names |-> names[g]] /\ DOMAIN names = DOMAIN irs.names \cup {h}
  BY DEF Written
<1>2. irs.rows \cup irs.rows \subseteq DOMAIN names /\ DOMAIN names \subseteq DOMAIN StemOf
  <2> HIDE DEF names
  <2> QED BY <1>1, IrFacts
<1>3. ASSUME irs' = [irs EXCEPT !.names = Written(@, h, name), !.listed = irs.rows]
      PROVE  irs' = [rows |-> irs.rows, listed |-> irs.rows, files |-> irs.files,
                     names |-> names]
  <2> HIDE DEF names
  <2>1. irs' = [irs EXCEPT !.names = names, !.listed = irs.rows]
    BY <1>3 DEF names
  <2> QED BY <2>1, IrFacts
<1>4. ASSUME irs' = [rows |-> irs.rows, listed |-> irs.rows, files |-> irs.files,
                     names |-> names]
      PROVE  /\ SoundIrs(irs') /\ irs'.rows = irs.rows /\ irs'.files = irs.files
             /\ irs'.names = names
  <2> HIDE DEF names
  <2>1. /\ irs'.rows = irs.rows /\ irs'.listed = irs.rows
        /\ irs'.names = names /\ irs'.files = irs.files
        /\ irs' = [rows |-> irs'.rows, listed |-> irs'.listed, files |-> irs'.files,
                   names |-> irs'.names]
    BY <1>4, FieldsOf, Zenon
  <2>2. SoundIrs(irs')
    BY <1>1, <1>2, <2>1, IrFacts, Zenon DEF SoundIrs
  <2> QED BY <2>1, <2>2
<1> QED BY <1>3, <1>4

LEMMA RenameIrKeeps == ASSUME ContentInv, RenameIr PROVE ContentInv'
<1>1. IrStep
  BY DEF RenameIr, Doing, Elsewhere, SameRows, Contents, Frame, IrStep
<1>2. PICK landed \in BOOLEAN :
        /\ irs' = IF landed THEN [irs EXCEPT !.names = Written(@, op.hash, op.name),
                                             !.listed = irs.rows]
                  ELSE irs
        /\ (landed /\ Go(c)) \/ Fails
  BY DEF RenameIr
<1>3. CASE landed
  <2>1. op.op = "rename_ir" /\ op.hash \in DOMAIN StemOf
    BY <1>1, MayDo DEF RenameIr, Doing, IrStep, May, MayUnlist
  <2>2. SoundIrs(irs') /\ irs'.names = Written(irs.names, op.hash, op.name)
    BY <1>2, <1>3, <2>1, RenamedSound
  <2>3. DOMAIN irs.names \subseteq DOMAIN Written(irs.names, op.hash, op.name)
    BY DEF Written
  <2>4. DOMAIN irs.names \subseteq DOMAIN irs'.names
    BY <2>2, <2>3, Zenon
  <2> QED BY <1>1, <1>2, <2>2, <2>4, IrStepKeeps
<1>4. CASE ~landed
  BY <1>1, <1>2, <1>4, IrFacts, IrStepKeeps
<1> QED BY <1>3, <1>4

LEMMA IrOperationsKeep == ASSUME ContentInv, IrOperations PROVE ContentInv'
BY UploadMissingKeeps, LookUpKeeps, ConfirmKeeps, UnwedgeKeeps, UploadKeeps, DropRowKeeps,
   DropFileKeeps, DropWedgeKeeps, RenameIrKeeps, PruneRescanKeeps DEF IrOperations
-----------------------------------------------------------------------------
(* The device and its panel                                                *)

\* The command stays where it is.
LEMMA MeanwhileKeeps ==
  ASSUME ContentInv, Harmless, c.pc # "plan", c' = c, ran' = ran,
         c.ops # <<>> /\ op.hash \notin irs.rows => op.hash \notin irs'.rows
  PROVE  ContentInv'
<1>1. c = [c EXCEPT !.pc = c.pc] /\ c.pc \in {"do", "confirm", "unwedge", "upload", "unfile"}
  BY DEF ContentInv, CommandInv, Shape
<1>2. Midway'
  BY DEF ContentInv, CommandInv, Midway, op
<1> QED BY <1>1, <1>2, StayKeeps

LEMMA CollectKeeps == ASSUME ContentInv, Collect PROVE ContentInv'
<1>1. /\ c.pc # "plan" /\ SameRows /\ c' = c /\ ran' = ran
      /\ script' = script /\ start' = start
  BY DEF Collect, SameRows, Contents, Frame
<1>2. PICK n : irs' = [irs EXCEPT !.files = Without(@, {n})]
  BY DEF Collect
<1>4. SoundIrs(irs') /\ irs'.names = irs.names /\ irs'.rows = irs.rows
  BY <1>2, FewerSound
<1>5. Harmless
  BY <1>1, <1>4, IrsHarmless
<1> QED BY <1>1, <1>4, <1>5, MeanwhileKeeps

LEMMA PanelAddKeeps == ASSUME ContentInv, PanelAdd PROVE ContentInv'
<1>1. /\ c.pc # "plan" /\ UNCHANGED <<pool, lists, irs>> /\ made' = made + 1
      /\ c' = c /\ ran' = ran /\ script' = script /\ start' = start
  BY DEF PanelAdd
<1>2. PICK l \in lists, x \in pool, p \in Positions \ {r.posi : r \in refs} :
        refs' = refs \cup {[cid |-> made + 1, list |-> l.cid, posi |-> p, rcid |-> x.cid]}
  BY DEF PanelAdd
<1>3. refs' = Adding(l.cid, p, x.cid)
  <2>1. {r \in refs : ~(r.list = l.cid /\ r.posi = p)} = refs
    BY <1>2
  <2> QED BY <1>2, <2>1 DEF Adding
<1>4. l.cid \in Cids(lists) /\ p \in Positions
  BY <1>2 DEF Cids
<1>5. Cids(refs) \subseteq Cids(refs')
  BY <1>2 DEF Cids
<1>6. Cmd.verb \in Adders => \A r \in start.refs : ~(r.list = l.cid /\ r.posi = p)
  BY <1>1, <1>2 DEF ContentInv, DeviceInv
<1>7. Harmless
  BY <1>1, <1>3, <1>4, <1>5, <1>6, AddingHarmless
<1> QED BY <1>1, <1>7, MeanwhileKeeps

LEMMA PanelSaveKeeps == ASSUME ContentInv, PanelSave PROVE ContentInv'
<1>1. /\ c.pc # "plan" /\ UNCHANGED <<lists, refs, irs>> /\ made' = made + 1
      /\ c' = c /\ ran' = ran /\ script' = script /\ start' = start
  BY DEF PanelSave
<1>2. PICK h \in irs.rows :
        pool' = pool \cup {[cid |-> made + 1, name |-> "panel", rev |-> 1, uses |-> {h}]}
  BY DEF PanelSave
<1>3. Harmless
  <2> DEFINE n == [cid |-> made + 1, name |-> "panel", rev |-> 1, uses |-> {h}]
  <2>1. /\ n.cid = made + 1
        /\ n = [cid |-> n.cid, name |-> n.name, rev |-> n.rev, uses |-> n.uses]
    OBVIOUS
  <2>2. pool' = pool \cup {n}
    BY <1>2
  <2> HIDE DEF n
  <2>3. Cids(pool') = Cids(pool) \cup {made'}
    BY <1>1, <2>1, <2>2 DEF Cids
  <2>4. \A x \in pool' : x = [cid |-> x.cid, name |-> x.name, rev |-> x.rev, uses |-> x.uses]
    BY <2>1, <2>2, RowFacts
  <2> QED BY <1>1, <2>3, <2>4, RowFacts, PresetsHarmless
<1> QED BY <1>1, <1>3, MeanwhileKeeps
-----------------------------------------------------------------------------
(* Commands that begin                                                     *)

\* Between commands the device is what the last one left, whatever it found.
LEMMA BetweenCommands ==
  ASSUME ContentInv, c.pc = "plan", UNCHANGED <<Contents, irs, script>>, start' = Found
  PROVE  /\ Sound(Found)' /\ Sound(start)' /\ Understood' /\ start'.made <= made'
         /\ Newer(pool, start.pool)' /\ Newer(lists, start.lists)'
         /\ start'.refs = refs' /\ start'.lists = lists' /\ start'.pool = pool'
<1>1. Understood'
  BY StillUnderstood DEF ContentInv, DeviceInv
<1> QED BY <1>1 DEF ContentInv, DeviceInv, Sound, SoundRows, Found, Contents, Newer

LEMMA RefusedKeeps == ASSUME ContentInv, c.pc = "plan", Running, Refused PROVE ContentInv'
<1>1. Ended /\ UNCHANGED <<Contents, irs, script>> /\ start' = Found
  BY EndVerdict DEF Refused, ContentInv, CommandInv
<1>2. c' = Idle /\ c'.pc = "plan" /\ c'.ops = <<>>
  BY <1>1 DEF Ended, Idle
<1>3. DeviceInv'
  BY <1>1, <1>2, BetweenCommands DEF DeviceInv
<1>4. Ops' = {} /\ Later' = {}
  BY <1>2 DEF Ops, Later, AfterFirst, ToSet
<1>5. <<>> \in Seq({}) /\ Len(<<>>) = 0
  BY EmptySeq
<1>6. c'.ops \in Seq(ToSet(c'.ops))
  BY <1>2, <1>4, <1>5 DEF Ops
<1>7. Shape'
  BY <1>1, <1>2, <1>6 DEF ContentInv, CommandInv, Shape, Ended, Idle
<1>8. Ordered'
  BY <1>2, <1>4, <1>5 DEF Ordered
<1>9. Midway'
  BY <1>2 DEF Midway
<1> QED BY <1>3, <1>4, <1>7, <1>8, <1>9 DEF ContentInv, CommandInv, Awaits

\* The command that begins, with all that it has to do.
Begun == /\ IsCommand(c') /\ c'.pc = "do" /\ c'.taken = {}
         /\ start' = Found /\ UNCHANGED <<Contents, irs, script, ran>>

LEMMA BegunKeeps ==
  ASSUME ContentInv, c.pc = "plan", Running, Begun, c'.ops \in Seq(ToSet(c'.ops)), Ordered',
         \A o \in Ops' : May(o)',
         Awaits("rescan")' => Later' = {}
  PROVE  ContentInv'
<1>1. DeviceInv'
  BY BetweenCommands DEF DeviceInv, Begun
<1>2. Shape' /\ Midway'
  BY DEF ContentInv, CommandInv, Shape, Midway, Begun, IsCommand, Running
<1> QED BY <1>1, <1>2 DEF ContentInv, CommandInv

LEMMA Planned ==
  ASSUME ContentInv, c.pc = "plan", NEW ops, NEW list, NEW noted, NEW scanned,
         Plan([c EXCEPT !.list = list, !.noted = noted, !.scanned = scanned, !.ops = ops])
  PROVE  Begun /\ c'.ops = ops /\ c'.list = list /\ c'.scanned = scanned
<1>1. c = Idle
  BY DEF ContentInv, CommandInv, Shape
<1> QED BY <1>1 DEF Plan, Idle, Begun, IsCommand

LEMMA PlannedOps ==
  ASSUME ContentInv, c.pc = "plan", NEW ops, PlanOps(ops)
  PROVE  Begun /\ c'.ops = ops /\ c'.list = None
<1>1. c = Idle
  BY DEF ContentInv, CommandInv, Shape
<1> QED BY <1>1 DEF PlanOps, Plan, Idle, Begun, IsCommand

\* What a command that begins has before it.
LEMMA BegunFacts ==
  ASSUME Begun
  PROVE  /\ Cmd' = Cmd /\ pool' = pool /\ lists' = lists /\ refs' = refs /\ irs' = irs
         /\ start'.refs = refs /\ start'.lists = lists /\ start'.pool = pool
         /\ c'.taken = {}
BY DEF Begun, Contents, Found, Cmd

\* A command of one operation.
LEMMA OneOpKeeps ==
  ASSUME ContentInv, c.pc = "plan", Running, NEW o, Begun, c'.ops = <<o>>,
         ~Awaits("look")' /\ (o.op # "setlist" => ~Awaits("setlist")') => May(o)',
         o.op # "look"
  PROVE  ContentInv'
<1>1. /\ <<o>> \in Seq({o}) /\ ToSet(<<o>>) = {o} /\ AfterFirst(<<o>>) = {}
      /\ Len(<<o>>) = 1
  BY DEF ToSet, AfterFirst
<1>2. c'.ops \in Seq(ToSet(c'.ops)) /\ Ops' = {o} /\ Later' = {}
  BY <1>1 DEF Ops, Later
<1>3. Ordered'
  BY <1>1, <1>2 DEF Ordered
<1> QED BY <1>2, <1>3, BegunKeeps DEF Awaits

\* A command of some operations none of which makes a setlist, looks or scans.
LEMMA SomeOpsKeep ==
  ASSUME ContentInv, c.pc = "plan", Running, Begun,
         NEW S, c'.ops \in Seq(S),
         \A o \in S : o.op \notin {"setlist", "look", "rescan"},
         ~Awaits("look")' /\ ~Awaits("setlist")' => \A o \in Ops' : May(o)'
  PROVE  ContentInv'
<1>1. c'.ops \in Seq(ToSet(c'.ops)) /\ Ops' \subseteq S
  BY OwnElements DEF Ops
<1>2. Later' \subseteq Ops'
  BY <1>1, LenProperties DEF Later, AfterFirst, Ops, ToSet
<1>3. \A i \in 3..Len(c'.ops) : c'.ops[i] \in Later'
  BY DEF Later, AfterFirst
<1>4. Ordered'
  BY <1>1, <1>2, <1>3 DEF Ordered
<1> QED BY <1>1, <1>4, BegunKeeps DEF Awaits

\* resolve_setlist_cid
LEMMA SetlistFound ==
  ASSUME ContentInv, NEW name, Exists(name)
  PROVE  SetlistCid(name) \in Cids(lists) /\ SetlistCid(name) # None
<1> DEFINE rows == Named(lists, name)
           cids == Cids(rows)
<1>1. rows # {} /\ rows \subseteq lists /\ SetlistCid(name) = First(rows).cid
  BY DEF Exists, SetlistCid, Named
<1>2. cids \subseteq Cids(lists) /\ cids # {}
  BY <1>1 DEF Cids
<1>3. cids \in SUBSET Nat
  BY <1>2, RowFacts
<1>4. PICK cid \in cids : \A y \in cids : cid <= y
  <2> HIDE DEF cids
  <2> QED BY <1>2, <1>3, Minimum
<1>5. \E x \in rows : \A y \in rows : x.cid <= y.cid
  BY <1>4 DEF Cids
<1>6. First(rows) \in rows
  BY <1>5 DEF First
<1> QED BY <1>1, <1>6, RowFacts DEF Cids, None

\* A command that may make its setlist first.
MakesList == Cmd.verb \in {"setlist create", "setlist duplicate", "import-hss"}

LEMMA ListFirstKeeps ==
  ASSUME ContentInv, c.pc = "plan", Running, Begun, c'.list = TheirList, MakesList,
         NEW S, NEW o, NEW rest \in Seq(S),
         c'.ops = (IF Exists(Cmd.list) THEN <<>> ELSE <<NewList(Cmd.list)>>) \o (<<o>> \o rest),
         o.op # "setlist", \A x \in S : x.op \notin {"setlist", "look", "rescan"}, o.op # "rescan",
         There(None)' /\ (o.op = "look" => Awaits("look")') =>
            May(o)' /\ \A x \in ToSet(rest) : May(x)'
  PROVE  ContentInv'
<1> DEFINE tail == <<o>> \o rest
           Rest == ToSet(rest)
<1>1. PICK a : a = NewList(Cmd.list)
  OBVIOUS
<1>2. a.op = "setlist" /\ a.none = "stop" /\ a.raised = "stop"
  BY <1>1 DEF NewList
<1>3. /\ <<o>> \in Seq({o}) /\ ToSet(<<o>>) = {o} /\ AfterFirst(<<o>>) = {} /\ Len(<<o>>) = 1
      /\ <<a>> \in Seq({a}) /\ ToSet(<<a>>) = {a} /\ AfterFirst(<<a>>) = {} /\ Len(<<a>>) = 1
  BY DEF ToSet, AfterFirst
<1>4. /\ rest \in Seq(Rest) /\ Rest \subseteq S
  BY OwnElements
<1> HIDE DEF Rest
<1>5. /\ tail \in Seq({o} \cup Rest) /\ ToSet(tail) = {o} \cup Rest
      /\ AfterFirst(tail) \subseteq Rest
  <2>1. <<o>> \in Seq({o} \cup Rest) /\ rest \in Seq({o} \cup Rest)
    BY <1>3, <1>4, SeqMonotonic
  <2> QED BY <1>3, <2>1, ConcatOps DEF Rest
<1>6. Cmd' = Cmd /\ pool' = pool /\ lists' = lists /\ refs' = refs
  BY DEF Begun, Contents, Cmd
<1>7. CASE Exists(Cmd.list)
  <2>1. c'.ops = tail
    <3>1. c'.ops = <<>> \o tail
      BY <1>7
    <3> HIDE DEF tail
    <3> QED BY <1>5, <3>1, ConcatEmptySeq
  <2>2. c'.ops \in Seq(ToSet(c'.ops)) /\ Ops' = {o} \cup Rest /\ Later' \subseteq Rest
    BY <1>5, <2>1, OwnElements DEF Ops, Later
  <2>3. There(None)' /\ (o.op = "look" => Awaits("look")')
    BY <1>6, <1>7, <2>2, SetlistFound DEF There, Awaits, TheirList
  <2>4. \A i \in 3..Len(c'.ops) : c'.ops[i] \in Later'
    BY SMTT(30) DEF Later, AfterFirst
  <2>5. Ordered'
    BY <1>4, <2>2, <2>4 DEF Ordered
  <2>6. \A x \in Ops' : May(x)'
    BY <1>6, <2>2, <2>3 DEF Rest
  <2> QED BY <1>4, <2>2, <2>5, <2>6, BegunKeeps DEF Awaits
<1>8. CASE ~Exists(Cmd.list)
  <2>1. c'.ops = <<a>> \o tail
    BY <1>1, <1>8
  <2>2. /\ c'.ops \in Seq({a, o} \cup Rest) /\ ToSet(c'.ops) = {a, o} \cup Rest
        /\ AfterFirst(c'.ops) \subseteq {o} \cup Rest
    <3>1. <<a>> \in Seq({a, o} \cup Rest) /\ tail \in Seq({a, o} \cup Rest)
      BY <1>3, <1>5, SeqMonotonic
    <3> HIDE DEF tail
    <3>2. /\ <<a>> \o tail \in Seq({a, o} \cup Rest)
          /\ ToSet(<<a>> \o tail) = ToSet(<<a>>) \cup ToSet(tail)
          /\ AfterFirst(<<a>> \o tail) \subseteq AfterFirst(<<a>>) \cup ToSet(tail)
      BY <3>1, ConcatOps
    <3> QED BY <1>3, <1>5, <2>1, <3>2
  <2>3. c'.ops \in Seq(ToSet(c'.ops)) /\ Ops' = {a, o} \cup Rest /\ Later' \subseteq {o} \cup Rest
    BY <2>2, OwnElements DEF Ops, Later
  <2>4. There(None)' /\ (o.op = "look" => Awaits("look")')
    BY <1>2, <2>3 DEF There, Awaits
  <2>5. op'.op = "setlist"
    <3>1. c'.ops[1] = a
      <4>1. \A i \in 1..(Len(<<a>>) + Len(tail)) :
              (<<a>> \o tail)[i] = IF i <= Len(<<a>>) THEN <<a>>[i] ELSE tail[i - Len(<<a>>)]
        BY <1>3, <1>5, ConcatProperties
      <4> HIDE DEF tail
      <4>2. Len(tail) \in Nat
        BY <1>5, LenProperties
      <4> QED BY <1>3, <2>1, <4>1, <4>2
    <3> QED BY <1>2, <3>1 DEF op
  <2>6. \A i \in 3..Len(c'.ops) : c'.ops[i] \in Rest
    <3> HIDE DEF tail
    <3>1. /\ Len(tail) \in Nat /\ Len(<<a>> \o tail) = 1 + Len(tail)
          /\ \A i \in 1..(1 + Len(tail)) :
               (<<a>> \o tail)[i] = IF i <= 1 THEN <<a>>[i] ELSE tail[i - 1]
      BY <1>3, <1>5, ConcatProperties, LenProperties
    <3>2. ASSUME NEW i \in 2..Len(tail) PROVE tail[i] \in Rest
      BY <1>5, <3>2 DEF AfterFirst
    <3>3. \A i \in 3..(1 + Len(tail)) : i - 1 \in 2..Len(tail) /\ i \in 1..(1 + Len(tail)) /\ ~(i <= 1)
      BY <3>1
    <3> QED BY <2>1, <3>1, <3>2, <3>3
  <2>7. Ordered'
    BY <1>4, <2>3, <2>5, <2>6 DEF Ordered
  <2>8. May(a)'
    BY <1>2, <1>6, Zenon DEF MakesList, May, MayMake, MayAdd, MayRemove, MayRead, MayArrange, MayUpload, MayUnlist
  <2>9. \A x \in Ops' : May(x)'
    BY <1>6, <2>3, <2>4, <2>8 DEF Rest
  <2> QED BY <1>2, <1>4, <2>3, <2>7, <2>9, BegunKeeps DEF Awaits
<1> QED BY <1>7, <1>8

LEMMA SetlistCreateKeeps == ASSUME ContentInv, SetlistCreate PROVE ContentInv'
<1>1. Running /\ c.pc = "plan" /\ Cmd.verb = "setlist create"
  BY DEF SetlistCreate, Given
<1>2. PICK o : o = NewList(Cmd.list)
  OBVIOUS
<1>3. o.op = "setlist" /\ o.none = "stop" /\ o.raised = "stop"
  BY <1>2 DEF NewList
<1>4. CASE PlanOps(<<o>>)
  <2>1. Begun /\ c'.ops = <<o>> /\ Cmd' = Cmd
    BY <1>1, <1>4, PlannedOps, BegunFacts
  <2>2. May(o)'
    BY <1>1, <1>3, <2>1, Zenon
       DEF May, MayMake, MayAdd, MayRemove, MayRead, MayArrange, MayUpload, MayUnlist
  <2> QED BY <1>1, <1>3, <2>1, <2>2, OneOpKeeps
<1> QED BY <1>1, <1>2, <1>4, RefusedKeeps DEF SetlistCreate

LEMMA RetitleKeeps ==
  ASSUME ContentInv, Running, c.pc = "plan", Cmd.verb \in {"rename", "setlist rename"},
         NEW cid, NEW name, PlanOps(<<Retitle(cid, name)>>)
  PROVE  ContentInv'
<1>1. PICK o : o = Retitle(cid, name)
  OBVIOUS
<1>2. o.op = "rename"
  BY <1>1 DEF Retitle
<1>3. Begun /\ c'.ops = <<o>> /\ Cmd' = Cmd
  BY <1>1, PlannedOps, BegunFacts
<1>4. May(o)'
  BY <1>2, <1>3, Zenon
     DEF May, MayMake, MayAdd, MayRemove, MayRead, MayArrange, MayUpload, MayUnlist
<1> QED BY <1>2, <1>3, <1>4, OneOpKeeps

LEMMA RenamesKeep == ASSUME ContentInv, SetlistRename \/ RenamePreset PROVE ContentInv'
BY RefusedKeeps, RetitleKeeps DEF SetlistRename, RenamePreset, Given

\* A command that removes one thing, and may.
LEMMA RemovingKeeps ==
  ASSUME ContentInv, Running, c.pc = "plan", NEW cid, PlanOps(<<Do("remove", cid)>>),
         Cmd.verb = "delete" \/ (Cmd.verb = "setlist delete" /\ cid \in Cids(lists))
  PROVE  ContentInv'
<1>1. PICK o : o = Do("remove", cid)
  OBVIOUS
<1>2. o.op = "remove" /\ o.cid = cid
  BY <1>1 DEF Do
<1>3. Begun /\ c'.ops = <<o>> /\ Cmd' = Cmd /\ start'.lists = lists
  BY <1>1, PlannedOps, BegunFacts
<1>4. MayRemove(o)'
  BY <1>2, <1>3 DEF MayRemove
<1>5. May(o)'
  BY <1>2, <1>4, Zenon DEF May, MayMake, MayAdd, MayRead, MayArrange, MayUpload, MayUnlist
<1> QED BY <1>2, <1>3, <1>5, OneOpKeeps

LEMMA SetlistDeleteKeeps == ASSUME ContentInv, SetlistDelete PROVE ContentInv'
<1>1. Running /\ c.pc = "plan" /\ Cmd.verb = "setlist delete"
  BY DEF SetlistDelete, Given
<1>2. CASE Exists(Cmd.list) /\ PlanOps(<<Do("remove", TheirList)>>)
  BY <1>1, <1>2, SetlistFound, RemovingKeeps DEF TheirList
<1> QED BY <1>1, <1>2, RefusedKeeps DEF SetlistDelete

LEMMA DeleteKeeps == ASSUME ContentInv, Delete PROVE ContentInv'
<1>1. Running /\ c.pc = "plan" /\ Cmd.verb = "delete"
  BY DEF Delete, Given
<1>2. ASSUME NEW cid, PlanOps(<<Do("remove", cid)>>) PROVE ContentInv'
  BY <1>1, <1>2, RemovingKeeps
<1>3. Refused \/ \E cid : PlanOps(<<Do("remove", cid)>>)
  BY DEF Delete
<1> QED BY <1>1, <1>2, <1>3, RefusedKeeps

LEMMA SetlistDuplicateKeeps == ASSUME ContentInv, SetlistDuplicate PROVE ContentInv'
<1>1. Running /\ c.pc = "plan" /\ Cmd.verb = "setlist duplicate" /\ MakesList
  BY DEF SetlistDuplicate, Given, MakesList
<1>2. PICK o : o = ReadFor("copies")
  OBVIOUS
<1>3. o.op = "copies"
  BY <1>2 DEF ReadFor
<1>4. PICK ops : ops = (IF Exists(Cmd.list) THEN <<>> ELSE <<NewList(Cmd.list)>>) \o <<o>>
  OBVIOUS
<1>5. CASE Plan([c EXCEPT !.list = TheirList, !.ops = ops])
  <2>1. [c EXCEPT !.list = TheirList, !.ops = ops]
          = [c EXCEPT !.list = TheirList, !.noted = c.noted, !.scanned = c.scanned, !.ops = ops]
    BY DEF ContentInv, CommandInv, Shape
  <2>2. Plan([c EXCEPT !.list = TheirList, !.noted = c.noted, !.scanned = c.scanned, !.ops = ops])
    BY <1>5, <2>1
  <2>3. Begun /\ c'.ops = ops /\ c'.list = TheirList
    BY <1>1, <2>2, Planned
  <2>4. /\ <<>> \in Seq({}) /\ ToSet(<<>>) = {} /\ <<o>> \o <<>> = <<o>>
    <3>1. <<o>> \in Seq({o})
      OBVIOUS
    <3> QED BY <3>1, EmptySeq, ConcatEmptySeq DEF ToSet
  <2>5. c'.ops = (IF Exists(Cmd.list) THEN <<>> ELSE <<NewList(Cmd.list)>>) \o (<<o>> \o <<>>)
    BY <1>4, <2>3, <2>4
  <2>6. ASSUME There(None)' PROVE May(o)'
    <3>1. Cmd' = Cmd
      BY <2>3, BegunFacts
    <3> QED BY <1>1, <1>3, <2>6, <3>1, Zenon
            DEF May, MayMake, MayAdd, MayRemove, MayRead, MayArrange, MayUpload, MayUnlist
  <2> QED BY <1>1, <1>3, <2>3, <2>4, <2>5, <2>6, ListFirstKeeps
<1>6. Refused \/ Plan([c EXCEPT !.list = TheirList, !.ops = ops])
  BY <1>2, <1>4 DEF SetlistDuplicate
<1> QED BY <1>1, <1>5, <1>6, RefusedKeeps

\* import_bundle
LEMMA ImportHssKeeps == ASSUME ContentInv, ImportHss PROVE ContentInv'
<1> DEFINE Importing == Cmd.verb = "import-hss"
           good == Good(Cmd.slots)
           Entry(s) == Noting(Installing(s.name, s.rev, {}))
           entries == [k \in 1..(2 * Len(good)) |->
                         IF k % 2 = 1 THEN Entry(good[(k + 1) \div 2])
                         ELSE Noting(Ref(None, None, None))]
<1>1. Running /\ c.pc = "plan" /\ Importing /\ MakesList
  BY Zenon DEF ImportHss, Given, MakesList
<1>2. Len(good) \in Nat
  <2>1. good \in Seq(ToSet(Cmd.slots))
    BY <1>1, Hashes, Zenon
  <2> QED BY <2>1, LenProperties
<1> HIDE DEF Importing, good
<1>3. PICK o : o = ReadFor("look")
  OBVIOUS
<1>4. o.op = "look" /\ o.none = "stop" /\ o.raised = "stop"
  BY <1>3 DEF ReadFor
<1>5. PICK rest : rest = entries
  OBVIOUS
<1>6. rest \in Seq(ToSet(rest)) /\ ToSet(rest) = {rest[k] : k \in 1..(2 * Len(good))}
  <2>1. 2 * Len(good) \in Nat
    BY <1>2
  <2>2. DOMAIN rest = 1..(2 * Len(good)) /\ rest = [k \in 1..(2 * Len(good)) |-> rest[k]]
    BY <1>5
  <2> QED BY <2>1, <2>2, FunctionIsSeq
<1>7. ASSUME NEW x \in ToSet(rest)
      PROVE  x.op = "install" \/ (x.op = "add" /\ x.list = None /\ x.posi = None)
  <2>1. PICK k \in 1..(2 * Len(good)) : x = rest[k]
    BY <1>6
  <2>2. x = IF k % 2 = 1 THEN Entry(good[(k + 1) \div 2]) ELSE Noting(Ref(None, None, None))
    BY <1>5, <2>1
  <2>3. ASSUME NEW s PROVE Entry(s).op = "install"
    BY DEF Noting, Installing
  <2>4. PICK r : r = Noting(Ref(None, None, None))
    OBVIOUS
  <2>5. r.op = "add" /\ r.list = None /\ r.posi = None
    BY <2>4 DEF Noting, Ref
  <2> QED BY <2>2, <2>3, <2>4, <2>5
<1>8. PICK ops : ops = (IF Exists(Cmd.list) THEN <<>> ELSE <<NewList(Cmd.list)>>) \o <<o>> \o rest
  OBVIOUS
<1>9. ASSUME NEW noted, Plan([c EXCEPT !.list = TheirList, !.noted = noted, !.ops = ops])
      PROVE  ContentInv'
  <2>1. [c EXCEPT !.list = TheirList, !.noted = noted, !.ops = ops]
          = [c EXCEPT !.list = TheirList, !.noted = noted, !.scanned = c.scanned, !.ops = ops]
    BY DEF ContentInv, CommandInv, Shape
  <2>2. Plan([c EXCEPT !.list = TheirList, !.noted = noted, !.scanned = c.scanned, !.ops = ops])
    BY <1>9, <2>1
  <2>3. Begun /\ c'.ops = ops /\ c'.list = TheirList
    BY <1>1, <2>2, Planned
  <2>4. ops = (IF Exists(Cmd.list) THEN <<>> ELSE <<NewList(Cmd.list)>>) \o (<<o>> \o rest)
    <3>1. PICK first : first = IF Exists(Cmd.list) THEN <<>> ELSE <<NewList(Cmd.list)>>
      OBVIOUS
    <3>2. PICK S : S = {NewList(Cmd.list), o} \cup ToSet(rest)
      OBVIOUS
    <3>3. first \in Seq(S) /\ <<o>> \in Seq(S) /\ rest \in Seq(S)
      <4>1. PICK a : a = NewList(Cmd.list)
        OBVIOUS
      <4>2. a \in S /\ o \in S /\ ToSet(rest) \subseteq S
        BY <3>2, <4>1
      <4>3. <<a>> \in Seq(S) /\ <<>> \in Seq(S) /\ <<o>> \in Seq(S)
        BY <4>2
      <4>4. first \in Seq(S)
        BY <3>1, <4>1, <4>3
      <4>5. rest \in Seq(S)
        BY <1>6, <4>2, SeqMonotonic
      <4> QED BY <4>3, <4>4, <4>5
    <3>4. (first \o <<o>>) \o rest = first \o (<<o>> \o rest)
      BY <3>3, ConcatAssociative
    <3> QED BY <1>8, <3>1, <3>4
  <2>5. ASSUME There(None)', Awaits("look")' PROVE May(o)' /\ \A x \in ToSet(rest) : May(x)'
    <3>1. Cmd' = Cmd
      BY <2>3, BegunFacts
    <3>2. May(o)'
      BY <1>1, <1>4, <3>1, Zenon
         DEF May, MayMake, MayAdd, MayRemove, MayRead, MayArrange, MayUpload, MayUnlist, Importing
    <3>3. ASSUME NEW x \in ToSet(rest), x.op = "install" PROVE May(x)'
      BY <3>3, Zenon
         DEF May, MayMake, MayAdd, MayRemove, MayRead, MayArrange, MayUpload, MayUnlist
    <3>4. ASSUME NEW x \in ToSet(rest), x.op = "add", x.list = None, x.posi = None PROVE May(x)'
      <4>1. Cmd.verb \in Adders
        BY <1>1, Zenon DEF Adders, Importing
      <4>2. MayAdd(x)'
        BY <2>5, <3>1, <3>4, <4>1, Zenon DEF MayAdd, Adders
      <4> QED BY <3>4, <4>2, Zenon
              DEF May, MayMake, MayRemove, MayRead, MayArrange, MayUpload, MayUnlist
    <3> QED BY <1>7, <3>2, <3>3, <3>4
  <2> QED BY <1>1, <1>4, <1>6, <1>7, <2>3, <2>4, <2>5, ListFirstKeeps
<1>10. Refused \/ \E noted : Plan([c EXCEPT !.list = TheirList, !.noted = noted, !.ops = ops])
  BY <1>3, <1>5, <1>8 DEF ImportHss, ImportBundle, good
<1> QED BY <1>1, <1>9, <1>10, RefusedKeeps

\* mirror_setlist
LEMMA MirrorKeeps == ASSUME ContentInv, Mirror PROVE ContentInv'
<1> DEFINE want == {[posi |-> i - 1, rcid |-> Cmd.rcids[i]] : i \in DOMAIN Cmd.rcids}
           At(r) == [posi |-> r.posi, rcid |-> r.rcid]
           wrong == {r \in In(TheirList) : At(r) \notin want}
           lacking == ByPosi(want \ {At(r) : r \in In(TheirList)})
           n == Cardinality(want \ {At(r) : r \in In(TheirList)})
           Out(r) == Noting(Do("remove", r.cid))
           New(i) == Noting(Ref(TheirList, lacking[i].posi, lacking[i].rcid))
<1>1. Running /\ c.pc = "plan" /\ Cmd.verb = "mirror" /\ Exists(Cmd.list)
  BY DEF Mirror, Given
<1>2. PICK gone, new :
        /\ gone = {Out(r) : r \in wrong} /\ new = [i \in DOMAIN lacking |-> New(i)]
        /\ PlanOps(SetToSeq(gone) \o new)
  BY DEF Mirror
<1>3. wrong \subseteq refs
  BY DEF In
<1>4. IsFiniteSet(want)
  <2>1. PICK q : q = Cmd.rcids
    OBVIOUS
  <2>2. Len(q) \in Nat /\ DOMAIN q = 1..Len(q)
    BY <1>1, <2>1, Hashes, LenProperties
  <2> DEFINE f == [i \in 1..Len(q) |-> [posi |-> i - 1, rcid |-> q[i]]]
  <2>3. want = {f[i] : i \in 1..Len(q)}
    BY <2>1, <2>2
  <2>4. IsFiniteSet(1..Len(q))
    BY <2>2, FS_Interval
  <2> HIDE DEF f, want
  <2> QED BY <2>3, <2>4, FiniteImage
<1>5. n \in Nat
  <2> HIDE DEF want
  <2> QED BY <1>4, FS_Subset, FS_CardinalityType
<1>6. DOMAIN lacking = 1..n
  BY DEF ByPosi
<1> HIDE DEF lacking, n, wrong, want
<1>7. IsFiniteSet(gone) /\ \A o \in gone : o.op = "remove" /\ o.cid \in Cids(refs)
  <2>1. ASSUME NEW r \in wrong PROVE Out(r).op = "remove" /\ Out(r).cid \in Cids(refs)
    BY <1>3 DEF Noting, Do, Cids
  <2> HIDE DEF Out
  <2> DEFINE f == [r \in wrong |-> Out(r)]
  <2>2. gone = {f[r] : r \in wrong}
    BY <1>2
  <2>3. IsFiniteSet(wrong)
    BY <1>3, RowFacts, FS_Subset
  <2> HIDE DEF f
  <2>4. IsFiniteSet(gone)
    BY <2>2, <2>3, FiniteImage
  <2> QED BY <1>2, <2>1, <2>4
<1>8. new \in Seq(ToSet(new)) /\ \A o \in ToSet(new) : o.op = "add" /\ o.list = TheirList
  <2>1. ASSUME NEW i \in 1..n PROVE New(i).op = "add" /\ New(i).list = TheirList
    BY DEF Noting, Ref
  <2> HIDE DEF New
  <2>2. DOMAIN new = 1..n /\ new = [i \in 1..n |-> new[i]] /\ \A i \in 1..n : new[i] = New(i)
    BY <1>2, <1>6
  <2>3. new \in Seq({new[i] : i \in 1..n}) /\ ToSet(new) = {new[i] : i \in 1..n}
    BY <1>5, <2>2, FunctionIsSeq
  <2> QED BY <2>1, <2>2, <2>3
<1>9. PICK ops : ops = SetToSeq(gone) \o new
  OBVIOUS
<1>10. ops \in Seq(gone \cup ToSet(new))
  <2>1. SetToSeq(gone) \in Seq(gone)
    BY <1>7, SetToSeqOps
  <2>2. SetToSeq(gone) \in Seq(gone \cup ToSet(new))
    BY <2>1, SeqMonotonic
  <2>3. new \in Seq(gone \cup ToSet(new))
    BY <1>8, SeqMonotonic
  <2> QED BY <1>9, <2>2, <2>3, ConcatProperties
<1>11. Begun /\ c'.ops = ops
  BY <1>1, <1>2, <1>9, PlannedOps
<1>12. Ops' \subseteq gone \cup ToSet(new)
  BY <1>10, <1>11, OwnElements DEF Ops
<1>13. ASSUME NEW o \in gone PROVE May(o)'
  <2>1. MayRemove(o)'
    BY <1>1, <1>7, <1>11, BegunFacts DEF MayRemove
  <2> QED BY <1>7, <2>1, Zenon DEF May, MayMake, MayAdd, MayRead, MayArrange, MayUpload, MayUnlist
<1>14. ASSUME NEW o \in ToSet(new) PROVE May(o)'
  <2>1. There(o.list)'
    BY <1>1, <1>8, <1>11, BegunFacts, SetlistFound DEF There, TheirList
  <2>2. Cmd'.verb = "mirror" /\ "mirror" \notin Adders
    BY <1>1, <1>11, BegunFacts, Zenon DEF Adders
  <2>3. MayAdd(o)'
    BY <2>1, <2>2, Zenon DEF MayAdd, Adders
  <2> QED BY <1>8, <2>3, Zenon
          DEF May, MayMake, MayRemove, MayRead, MayArrange, MayUpload, MayUnlist
<1>15. \A o \in gone \cup ToSet(new) : o.op \notin {"setlist", "look", "rescan"}
  BY <1>7, <1>8
<1> QED BY <1>1, <1>10, <1>11, <1>12, <1>13, <1>14, <1>15, SomeOpsKeep

LEMMA CreateKeeps == ASSUME ContentInv, Create PROVE ContentInv'
<1>1. Running /\ c.pc = "plan" /\ Cmd.verb = "create"
  BY DEF Create, Given
<1>2. ASSUME NEW o, o.op = "install", PlanOps(<<o>>) PROVE ContentInv'
  <2>1. May(o)'
    BY <1>2, Zenon DEF May, MayMake, MayAdd, MayRemove, MayRead, MayArrange, MayUpload, MayUnlist
  <2> QED BY <1>1, <1>2, <2>1, PlannedOps, OneOpKeeps
<1>3. ASSUME NEW o, o = Ref(TheirList, Cmd.pos, Cmd.cid), PlanOps(<<o>>),
             Exists(Cmd.list), Cmd.pos \notin Occupied(TheirList)
      PROVE  ContentInv'
  <2>1. o.op = "add" /\ o.list = TheirList /\ o.posi = Cmd.pos
    BY <1>3 DEF Ref
  <2>2. TheirList \in Cids(lists) /\ TheirList # None /\ Cmd.pos # None
    BY <1>1, <1>3, SetlistFound, Hashes DEF TheirList
  <2>3. Begun /\ c'.ops = <<o>>
    BY <1>1, <1>3, PlannedOps
  <2>4. Cmd' = Cmd /\ start'.refs = refs /\ lists' = lists
    BY <2>3, BegunFacts
  <2>5. There(o.list)'
    BY <2>1, <2>2, <2>4 DEF There
  <2>6. Clear(o)'
    BY <1>3, <2>1, <2>2, <2>4 DEF Clear, Target, Occupied, In
  <2>7. Cmd.verb \in Adders
    BY <1>1 DEF Adders
  <2>8. MayAdd(o)'
    BY <2>1, <2>2, <2>4, <2>5, <2>6, <2>7, Zenon DEF MayAdd, Adders
  <2>9. May(o)'
    BY <2>1, <2>8, Zenon DEF May, MayMake, MayRemove, MayRead, MayArrange, MayUpload, MayUnlist
  <2> QED BY <1>1, <2>1, <2>3, <2>9, OneOpKeeps
<1>4. \/ Refused
      \/ \E o : o.op = "install" /\ PlanOps(<<o>>)
      \/ /\ Exists(Cmd.list) /\ Cmd.pos \notin Occupied(TheirList)
         /\ PlanOps(<<Ref(TheirList, Cmd.pos, Cmd.cid)>>)
  BY DEF Create, Installing
<1> QED BY <1>1, <1>2, <1>3, <1>4, RefusedKeeps

\* reorder_setlist_item
LEMMA ToReorderKeeps ==
  ASSUME ContentInv, Running, c.pc = "plan", Cmd.verb \in {"reorder", "move"},
         NEW rows, Cids(rows) \subseteq Cids(refs), ToReorder(rows)
  PROVE  ContentInv'
<1>1. ASSUME NEW r \in rows, Cmd.to \in Positions, NEW o,
             o = [op |-> "reorder", cid |-> r.cid,
                  to |-> IF Cmd.to > r.posi THEN Cmd.to + 1 ELSE Cmd.to,
                  none |-> "stop", raised |-> "stop"],
             PlanOps(<<o>>)
      PROVE  ContentInv'
  <2>1. o.op = "reorder" /\ o.cid \in Cids(refs) /\ o.to \in {Cmd.to, Cmd.to + 1}
    BY <1>1 DEF Cids
  <2>2. o.to \in 0..Slots
    BY <1>1, <2>1, ContentsAssumption DEF Positions
  <2>3. Begun /\ c'.ops = <<o>>
    BY <1>1, PlannedOps
  <2>4. MayArrange(o)'
    BY <2>1, <2>2, <2>3, BegunFacts DEF MayArrange
  <2>5. May(o)'
    BY <2>1, <2>4, Zenon DEF May, MayMake, MayAdd, MayRemove, MayRead, MayUpload, MayUnlist
  <2> QED BY <2>1, <2>3, <2>5, OneOpKeeps
<1>2. \/ Refused
      \/ /\ Cmd.to \in Positions
         /\ \E r \in rows : \E o :
              /\ o = [op |-> "reorder", cid |-> r.cid,
                      to |-> IF Cmd.to > r.posi THEN Cmd.to + 1 ELSE Cmd.to,
                      none |-> "stop", raised |-> "stop"]
              /\ PlanOps(<<o>>)
  BY DEF ToReorder
<1> QED BY <1>1, <1>2, RefusedKeeps

\* resolve_target
LEMMA AnsweringFacts ==
  ASSUME NEW want, NEW list, NEW t \in Answering(want, list), t.cid # t.rcid
  PROVE  t.cid \in Cids(refs)
<1> DEFINE Match(cid, rcid, names) == IF want.cid = None THEN want.name \in names
                                      ELSE want.cid \in {cid, rcid}
           in_list == {[cid |-> r.cid, rcid |-> r.rcid, posi |-> r.posi] :
                         r \in {x \in In(list) : Match(x.cid, x.rcid, NameOf(x))}}
           in_pool == {[cid |-> x.cid, rcid |-> x.cid, posi |-> None] :
                         x \in {y \in pool : Match(y.cid, y.cid, {y.name})}}
<1>1. t \in in_list \/ t \in in_pool
  BY DEF Answering
<1>2. t \notin in_pool
  OBVIOUS
<1>3. t \in in_list => t.cid \in Cids(refs)
  BY DEF In, Cids
<1> QED BY <1>1, <1>2, <1>3

LEMMA ReordersKeep == ASSUME ContentInv, ReorderItem \/ Move PROVE ContentInv'
<1>1. Running /\ c.pc = "plan" /\ Cmd.verb \in {"reorder", "move"}
  BY DEF ReorderItem, Move, Given
<1>2. CASE ReorderItem
  <2>1. PICK rows : /\ rows = {r \in In(TheirList) : IF Cmd.cid = None THEN Cmd.name \in NameOf(r)
                                                     ELSE r.cid = Cmd.cid}
                    /\ Refused \/ ToReorder(rows)
    BY <1>2 DEF ReorderItem, ReorderSetlistItem
  <2>2. Cids(rows) \subseteq Cids(refs)
    BY <2>1 DEF In, Cids
  <2> QED BY <1>1, <2>1, <2>2, RefusedKeeps, ToReorderKeeps
<1>3. CASE Move
  <2>1. PICK rows : /\ rows = {t \in Answering(Cmd, TheirList) : t.cid # t.rcid}
                    /\ Refused \/ ToReorder(rows)
    BY <1>3 DEF Move, MoveTone
  <2>2. Cids(rows) \subseteq Cids(refs)
    <3>1. \A t \in rows : t.cid \in Cids(refs)
      BY <2>1, AnsweringFacts
    <3> QED BY <3>1 DEF Cids
  <2> QED BY <1>1, <2>1, <2>2, RefusedKeeps, ToReorderKeeps
<1> QED BY <1>2, <1>3

\* At most one operation, and then at most one more.
LEMMA OneThenOne ==
  ASSUME NEW a, NEW b, NEW A \in BOOLEAN, NEW q \in {<<b>>, <<>>}, NEW ops,
         ops = (IF A THEN <<a>> ELSE <<>>) \o q
  PROVE  ops \in Seq({a, b}) /\ ToSet(ops) \subseteq {a, b} /\ (a \in ToSet(ops) => A \/ a = b)
<1>1. PICK p : p = IF A THEN <<a>> ELSE <<>>
  OBVIOUS
<1>2. <<a>> \in Seq({a, b}) /\ <<b>> \in Seq({a, b}) /\ <<>> \in Seq({a, b})
  OBVIOUS
<1>3. p \in Seq({a, b}) /\ q \in Seq({a, b})
  BY <1>1, <1>2
<1>4. ToSet(p) = IF A THEN {a} ELSE {}
  BY <1>1 DEF ToSet
<1>5. ToSet(q) \subseteq {b}
  BY DEF ToSet
<1>6. p \o q \in Seq({a, b}) /\ ToSet(p \o q) = ToSet(p) \cup ToSet(q)
  BY <1>3, ConcatOps
<1>7. ops = p \o q
  BY <1>1
<1> QED BY <1>4, <1>5, <1>6, <1>7

\* remove_tone
LEMMA TakeOutKeeps == ASSUME ContentInv, TakeOut PROVE ContentInv'
<1>1. Running /\ c.pc = "plan" /\ Cmd.verb = "rm"
  BY DEF TakeOut, Given
<1>2. ASSUME NEW t \in Answering(Cmd, TheirList),
             PlanOps((IF t.cid = t.rcid THEN <<>>
                      ELSE <<[Do("remove", t.cid) EXCEPT !.none = "note"]>>)
                     \o (IF Cmd.pool THEN <<[ReadFor("holders") EXCEPT !.cid = t.rcid]>>
                         ELSE <<>>))
      PROVE  ContentInv'
  <2>1. PICK a, b : /\ a = [Do("remove", t.cid) EXCEPT !.none = "note"]
                    /\ b = [ReadFor("holders") EXCEPT !.cid = t.rcid]
    OBVIOUS
  <2>2. a.op = "remove" /\ a.cid = t.cid /\ b.op = "holders"
    BY <2>1 DEF Do, ReadFor
  <2>3. PICK A \in BOOLEAN : A = (t.cid # t.rcid)
    OBVIOUS
  <2>12. PICK q \in {<<b>>, <<>>} : q = IF Cmd.pool THEN <<b>> ELSE <<>>
    OBVIOUS
  <2>4. PICK ops : ops = (IF A THEN <<a>> ELSE <<>>) \o q
    OBVIOUS
  <2>5. PlanOps(ops)
    BY <1>2, <2>1, <2>3, <2>4, <2>12
  <2>6. ops \in Seq({a, b}) /\ ToSet(ops) \subseteq {a, b} /\ (a \in ToSet(ops) => A \/ a = b)
    BY <2>4, OneThenOne
  <2>7. Begun /\ c'.ops = ops
    BY <1>1, <2>5, PlannedOps
  <2>8. ASSUME A PROVE May(a)'
    <3>1. a.cid \in Cids(refs)
      BY <2>2, <2>3, <2>8, AnsweringFacts
    <3>2. MayRemove(a)'
      BY <1>1, <2>7, <3>1, BegunFacts DEF MayRemove
    <3> QED BY <2>2, <3>2, Zenon DEF May, MayMake, MayAdd, MayRead, MayArrange, MayUpload, MayUnlist
  <2>9. May(b)'
    <3>1. Cmd' = Cmd
      BY <2>7, BegunFacts
    <3> QED BY <1>1, <2>2, <3>1, Zenon
            DEF May, MayMake, MayAdd, MayRemove, MayRead, MayArrange, MayUpload, MayUnlist
  <2>10. \A o \in Ops' : May(o)'
    BY <2>6, <2>7, <2>8, <2>9 DEF Ops
  <2>11. \A o \in {a, b} : o.op \notin {"setlist", "look", "rescan"}
    BY <2>2
  <2> QED BY <1>1, <2>6, <2>7, <2>10, <2>11, SomeOpsKeep
<1> QED BY <1>1, <1>2, RefusedKeeps DEF TakeOut, RemoveTone

\* copy_tone
LEMMA CopyKeeps == ASSUME ContentInv, Copy PROVE ContentInv'
<1>1. Running /\ c.pc = "plan" /\ Cmd.verb = "copy"
  BY DEF Copy, Given
<1>2. PICK list : list = IF ToPool THEN None ELSE TheirList
  OBVIOUS
<1>3. ASSUME ToPool \/ list # None, NEW t,
             Plan([c EXCEPT !.list = list,
                            !.ops = <<[op |-> "uploads", uses |-> Cmd.uses,
                                       none |-> "stop", raised |-> "stop"],
                                      [op |-> "place", cid |-> t.rcid,
                                       refer |-> ~ToPool /\ t.cid = t.rcid,
                                       none |-> "stop", raised |-> "stop"]>>])
      PROVE  ContentInv'
  <2>1. PICK a : a = [op |-> "uploads", uses |-> Cmd.uses, none |-> "stop", raised |-> "stop"]
    OBVIOUS
  <2>2. PICK b : b = [op |-> "place", cid |-> t.rcid, refer |-> ~ToPool /\ t.cid = t.rcid,
                      none |-> "stop", raised |-> "stop"]
    OBVIOUS
  <2>3. a.op = "uploads" /\ a.uses = Cmd.uses /\ b.op = "place" /\ (b.refer => ~ToPool)
    BY <2>1, <2>2
  <2>4. PICK ops : ops = <<a, b>>
    OBVIOUS
  <2>5. ops \in Seq({a, b})
    BY <2>4
  <2>6. Begun /\ c'.ops = ops /\ c'.list = list
    <3>1. [c EXCEPT !.list = list, !.ops = ops]
            = [c EXCEPT !.list = list, !.noted = c.noted, !.scanned = c.scanned, !.ops = ops]
      BY DEF ContentInv, CommandInv, Shape
    <3>2. Plan([c EXCEPT !.list = list, !.ops = ops])
      BY <1>3, <2>1, <2>2, <2>4
    <3>3. Plan([c EXCEPT !.list = list, !.noted = c.noted, !.scanned = c.scanned, !.ops = ops])
      BY <3>1, <3>2
    <3> QED BY <1>1, <3>3, Planned
  <2>7. Cmd' = Cmd /\ lists' = lists /\ irs' = irs
    BY <2>6, BegunFacts
  <2>8. May(a)'
    <3> QED BY <1>1, <2>3, <2>7, Zenon
            DEF May, MayMake, MayAdd, MayRemove, MayRead, MayArrange, MayUpload, MayUnlist
  <2>9. May(b)'
    <3>1. b.refer => c'.list \in Cids(lists')
      BY <1>2, <1>3, <2>3, <2>6, <2>7, SetlistFound DEF TheirList, Exists
    <3> QED BY <1>1, <2>3, <2>7, <3>1, Zenon
            DEF May, MayMake, MayAdd, MayRemove, MayRead, MayArrange, MayUpload, MayUnlist
  <2>10. Ops' \subseteq {a, b}
    BY <2>5, <2>6, OwnElements DEF Ops
  <2>11. \A o \in {a, b} : o.op \notin {"setlist", "look", "rescan"}
    BY <2>3
  <2> QED BY <1>1, <2>5, <2>6, <2>8, <2>9, <2>10, <2>11, SomeOpsKeep
<1>4. \/ Refused
      \/ /\ ToPool \/ list # None
         /\ \E t : Plan([c EXCEPT !.list = list,
                                  !.ops = <<[op |-> "uploads", uses |-> Cmd.uses,
                                             none |-> "stop", raised |-> "stop"],
                                            [op |-> "place", cid |-> t.rcid,
                                             refer |-> ~ToPool /\ t.cid = t.rcid,
                                             none |-> "stop", raised |-> "stop"]>>])
  BY <1>2 DEF Copy, CopyTone
<1> QED BY <1>1, <1>3, <1>4, RefusedKeeps

\* _install_via_dest
LEMMA ViaDestKeeps == ASSUME ContentInv, Save \/ PushContent PROVE ContentInv'
<1>1. Running /\ c.pc = "plan" /\ Cmd.verb \in {"save", "push"} /\ ViaDest
  BY DEF Save, PushContent, Given
<1>2. PICK a : a = Installing(Cmd.name, Cmd.rev, {})
  OBVIOUS
<1>3. PICK b : b = [Ref(TheirList, Cmd.pos, None) EXCEPT !.none = "warn"]
  OBVIOUS
<1>4. a.op = "install" /\ b.op = "add" /\ b.list = TheirList /\ b.posi = Cmd.pos
  BY <1>2, <1>3 DEF Installing, Ref
<1>5. May(a)'
  BY <1>4, Zenon DEF May, MayMake, MayAdd, MayRemove, MayRead, MayArrange, MayUpload, MayUnlist
<1>6. CASE PlanOps(<<a>>)
  BY <1>1, <1>4, <1>5, <1>6, PlannedOps, OneOpKeeps
<1>7. CASE Exists(Cmd.list) /\ Cmd.pos \notin Occupied(TheirList) /\ PlanOps(<<a, b>>)
  <2>1. PICK ops : ops = <<a, b>>
    OBVIOUS
  <2>2. ops \in Seq({a, b}) /\ PlanOps(ops)
    BY <1>7, <2>1
  <2>3. Begun /\ c'.ops = ops
    BY <1>1, <2>2, PlannedOps
  <2>4. Ops' \subseteq {a, b}
    BY <2>2, <2>3, OwnElements DEF Ops
  <2>5. TheirList \in Cids(lists) /\ TheirList # None /\ Cmd.pos # None
    BY <1>1, <1>7, SetlistFound, Hashes DEF TheirList
  <2>6. Cmd' = Cmd /\ start'.refs = refs /\ lists' = lists
    BY <2>3, BegunFacts
  <2>7. There(b.list)'
    BY <1>4, <2>5, <2>6 DEF There
  <2>8. Clear(b)'
    BY <1>4, <1>7, <2>5, <2>6 DEF Clear, Target, Occupied, In
  <2>9. Cmd.verb \in Adders
    BY <1>1 DEF Adders
  <2>10. MayAdd(b)'
    BY <1>4, <2>5, <2>6, <2>7, <2>8, <2>9, Zenon DEF MayAdd, Adders
  <2>11. May(b)'
    BY <1>4, <2>10, Zenon DEF May, MayMake, MayRemove, MayRead, MayArrange, MayUpload, MayUnlist
  <2>12. \A o \in {a, b} : o.op \notin {"setlist", "look", "rescan"}
    BY <1>4
  <2> QED BY <1>1, <1>5, <2>2, <2>3, <2>4, <2>11, <2>12, SomeOpsKeep
<1> QED BY <1>1, <1>2, <1>3, <1>6, <1>7, RefusedKeeps DEF ViaDest

LEMMA PushIrKeeps == ASSUME ContentInv, PushIr PROVE ContentInv'
<1> DEFINE Pushing == Cmd.verb = "push-ir"
<1>1. Running /\ c.pc = "plan" /\ Pushing /\ PlanOps(<<Push(Cmd.hash, "stop")>>)
  BY Zenon DEF PushIr, Given
<1>2. PICK o : o = Push(Cmd.hash, "stop")
  OBVIOUS
<1>3. Cmd.hash \in DOMAIN StemOf
  BY <1>1, Hashes, Zenon
<1> HIDE DEF Pushing
<1>4. o.op = "push" /\ o.hash = Cmd.hash /\ o.raised = "stop"
  BY <1>2 DEF Push
<1>5. Begun /\ c'.ops = <<o>>
  BY <1>1, <1>2, PlannedOps
<1>6. Cmd' = Cmd /\ irs' = irs
  BY <1>5, BegunFacts
<1>8. MayUpload(o)'
  BY <1>1, <1>3, <1>4, <1>6, Zenon DEF MayUpload, Pushes, Pushing
<1>9. May(o)'
  BY <1>4, <1>8, Zenon DEF May, MayMake, MayAdd, MayRemove, MayRead, MayArrange, MayUnlist
<1> QED BY <1>1, <1>4, <1>5, <1>9, OneOpKeeps

LEMMA DeleteIrKeeps == ASSUME ContentInv, DeleteIr PROVE ContentInv'
<1> DEFINE Deleting == Cmd.verb = "delete-ir"
<1>1. Running /\ c.pc = "plan" /\ Deleting /\ DeleteDeviceIr
  BY Zenon DEF DeleteIr, Given
<1> HIDE DEF Deleting
<1>2. ASSUME NEW o, PlanOps(<<o>>),
             \/ o.op = "unlist" /\ o.hash \in DOMAIN irs.names
             \/ o.op = "unwedge" /\ Cmd.force /\ o.hash = Cmd.hash
      PROVE  ContentInv'
  <2>1. Begun /\ c'.ops = <<o>>
    BY <1>1, <1>2, PlannedOps
  <2>2. Cmd' = Cmd /\ irs' = irs
    BY <2>1, BegunFacts
  <2>3. MayUnlist(o)'
    BY <1>1, <1>2, <2>2, Zenon DEF MayUnlist, Deleting
  <2>4. May(o)'
    BY <1>2, <2>3, Zenon DEF May, MayMake, MayAdd, MayRemove, MayRead, MayArrange, MayUpload
  <2> QED BY <1>1, <1>2, <2>1, <2>4, OneOpKeeps
<1>3. PICK a, b : a = Unlist(Cmd.hash, "stop") /\ b = [Unlist(Cmd.hash, "stop") EXCEPT !.op = "unwedge"]
  OBVIOUS
<1>4. a.op = "unlist" /\ a.hash = Cmd.hash /\ b.op = "unwedge" /\ b.hash = Cmd.hash
  BY <1>3 DEF Unlist
<1>5. \/ PlanOps(<<a>>) /\ Cmd.hash \in DOMAIN irs.names
      \/ Cmd.force /\ PlanOps(<<b>>)
      \/ Refused
  BY <1>1, <1>3, IrFacts DEF DeleteDeviceIr
<1> QED BY <1>1, <1>2, <1>4, <1>5, RefusedKeeps

LEMMA RenameIrsKeep == ASSUME ContentInv, RenameIrs PROVE ContentInv'
<1> DEFINE Renaming == Cmd.verb = "rename-ir"
<1>1. PICK o : o = [op |-> "rename_ir", hash |-> Cmd.hash, name |-> Cmd.name,
                    none |-> "stop", raised |-> "stop"]
  OBVIOUS
<1>2. /\ Running /\ c.pc = "plan" /\ Renaming
      /\ Refused \/ (Cmd.hash \in irs.listed /\ PlanOps(<<o>>))
  BY <1>1, Zenon DEF RenameIrs, Given
<1> HIDE DEF Renaming
<1>3. o.op = "rename_ir" /\ o.hash = Cmd.hash /\ o.name = Cmd.name
  BY <1>1
<1>4. CASE Cmd.hash \in DOMAIN StemOf /\ PlanOps(<<o>>)
  <2>1. Begun /\ c'.ops = <<o>>
    BY <1>2, <1>4, PlannedOps
  <2>2. Cmd' = Cmd
    BY <2>1, BegunFacts
  <2>3. MayUnlist(o)'
    BY <1>2, <1>3, <1>4, <2>2, Zenon DEF MayUnlist, Renaming
  <2>4. May(o)'
    BY <1>3, <2>3, Zenon DEF May, MayMake, MayAdd, MayRemove, MayRead, MayArrange, MayUpload
  <2> QED BY <1>2, <1>3, <2>1, <2>4, OneOpKeeps
<1> QED BY <1>2, <1>4, IrFacts, RefusedKeeps

LEMMA PruneKeeps == ASSUME ContentInv, Prune PROVE ContentInv'
<1>1. Running /\ c.pc = "plan" /\ Cmd.verb = "prune" /\ PruneScan
  BY DEF Prune, Given
<1>2. PICK o : o = Do("rescan", None)
  OBVIOUS
<1>3. o.op = "rescan"
  BY <1>2 DEF Do
<1>4. PICK ops : ops = IF Cmd.yes THEN <<o>> ELSE <<>>
  OBVIOUS
<1>5. Begun /\ c'.ops = ops
  <2>1. Plan([c EXCEPT !.scanned = PlanKey, !.ops = ops])
    BY <1>1, <1>2, <1>4 DEF PruneScan
  <2>2. [c EXCEPT !.scanned = PlanKey, !.ops = ops]
          = [c EXCEPT !.list = c.list, !.noted = c.noted, !.scanned = PlanKey, !.ops = ops]
    BY DEF ContentInv, CommandInv, Shape
  <2>3. Plan([c EXCEPT !.list = c.list, !.noted = c.noted, !.scanned = PlanKey, !.ops = ops])
    BY <2>1, <2>2
  <2> QED BY <1>1, <2>3, Planned
<1>6. Cmd' = Cmd
  BY <1>5, BegunFacts
<1>7. CASE ops = <<o>>
  <2>1. May(o)'
    BY <1>1, <1>3, <1>6, Zenon
       DEF May, MayMake, MayAdd, MayRemove, MayRead, MayArrange, MayUpload, MayUnlist
  <2> QED BY <1>1, <1>3, <1>5, <1>7, <2>1, OneOpKeeps
<1>8. CASE ops = <<>>
  <2>1. c'.ops \in Seq({}) /\ Ops' = {}
    BY <1>5, <1>8 DEF Ops, ToSet
  <2> QED BY <1>1, <1>5, <2>1, SomeOpsKeep
<1> QED BY <1>4, <1>7, <1>8

LEMMA VerbsKeep == ASSUME ContentInv, Verbs PROVE ContentInv'
BY SetlistCreateKeeps, RenamesKeep, SetlistDeleteKeeps, SetlistDuplicateKeeps, MirrorKeeps,
   ImportHssKeeps, CreateKeeps, DeleteKeeps, ReordersKeep, TakeOutKeeps, CopyKeeps,
   ViaDestKeeps, PushIrKeeps, DeleteIrKeeps, RenameIrsKeep, PruneKeeps DEF Verbs

LEMMA OperationsKeep == ASSUME ContentInv, Operations PROVE ContentInv'
<1>1. CASE CannotRead
  BY <1>1, RefusedKeeps DEF CannotRead
<1> QED BY <1>1, FinishKeeps, SkipKeeps, AddRefKeeps, RemoveKeeps, ReorderKeeps, InstallKeeps,
           SetContentKeeps, CreateSetlistKeeps, RenameKeeps DEF Operations

LEMMA ReadingsKeep == ASSUME ContentInv, Readings PROVE ContentInv'
BY CopyRefsKeeps, LookKeeps, CheckHoldersKeeps, PlaceKeeps DEF Readings

LEMMA StutteringKeeps == ASSUME ContentInv, UNCHANGED vars PROVE ContentInv'
<1>1. /\ UNCHANGED <<pool, lists, refs, made, irs, start>> /\ script' = script
      /\ ran' = ran /\ c' = c
  BY DEF vars
<1>2. CASE c.pc # "plan"
  <2>1. Harmless
    BY <1>1, <1>2, QuietHarmless DEF SameRows
  <2> QED BY <1>1, <1>2, <2>1, MeanwhileKeeps
<1>3. CASE c.pc = "plan"
  <2>1. c = Idle /\ c.ops = <<>>
    BY <1>3 DEF ContentInv, CommandInv, Shape, Idle
  <2>2. Ops' = {} /\ Later' = {}
    BY <1>1, <2>1 DEF Ops, Later, AfterFirst, ToSet
  <2>3. Understood'
    BY <1>1, StillUnderstood DEF ContentInv, DeviceInv
  <2>4. Sound(Found)' /\ Sound(start)'
    BY <1>1 DEF ContentInv, DeviceInv, Found
  <2>5. DeviceInv'
    BY <1>1, <1>3, <2>3, <2>4 DEF ContentInv, DeviceInv, Newer
  <2>6. Shape' /\ Midway' /\ Ordered'
    BY <1>1, <2>1, <2>2 DEF ContentInv, CommandInv, Shape, Midway, Ordered, Idle, Running, Ops
  <2> QED BY <2>2, <2>5, <2>6 DEF ContentInv, CommandInv, Awaits
<1> QED BY <1>2, <1>3

LEMMA NextKeeps == ASSUME ContentInv, [Next]_vars PROVE ContentInv'
BY VerbsKeep, ReadingsKeep, OperationsKeep, IrOperationsKeep, CollectKeeps, PanelAddKeeps,
   PanelSaveKeeps, StutteringKeeps DEF Next, Panel, Done

LEMMA InitEstablishes == Init => ContentInv
<1> SUFFICES ASSUME Init PROVE ContentInv
  OBVIOUS
<1>1. PICK d \in Devices : pool = d.pool /\ lists = d.lists /\ refs = d.refs
                           /\ made = d.made /\ irs = d.irs
  BY DEF Init
<1>2. /\ script \in Scripts /\ ran = <<>> /\ c = Idle /\ start = Found
      /\ c.ops = <<>> /\ c.pc = "plan"
  BY DEF Init, Idle
<1>3. Sound(Found)
  <2>1. Sound(d)
    BY DevicesAssumption
  <2> QED BY <1>1, <2>1 DEF Sound, SoundRows, Found
<1>4. Understood
  BY <1>2, ScriptsAssumption DEF Understood
<1>5. DeviceInv
  <2>1. made \in Nat
    BY <1>3 DEF Sound, SoundRows, Found
  <2> QED BY <1>2, <1>3, <1>4, <2>1 DEF DeviceInv, Newer, Found
<1>6. Ops = {} /\ Later = {}
  BY <1>2 DEF Ops, Later, AfterFirst, ToSet
<1>7. <<>> \in Seq({}) /\ Len(<<>>) = 0 /\ <<>> \in Seq({"ok", "warned", "failed"})
  BY EmptySeq
<1>8. Shape
  BY <1>2, <1>6, <1>7 DEF Shape, Idle, Ops
<1>9. Ordered
  BY <1>2, <1>6, <1>7 DEF Ordered
<1>10. Midway
  BY <1>2 DEF Midway
<1> QED BY <1>5, <1>6, <1>8, <1>9, <1>10 DEF ContentInv, CommandInv, Awaits

\* What no command disturbs, and what each has still to do: ContentInv holds of
\* every reachable state.
THEOREM ContentInvariance == Spec => []ContentInv
<1>1. ContentInv /\ [Next]_vars => ContentInv'
  BY NextKeeps
<1> QED BY <1>1, InitEstablishes, PTL DEF Spec
-----------------------------------------------------------------------------
(* Registered IRs keep their files                                         *)

\* A command that begins leaves them alone, and so do most operations.
Left == irs' = irs /\ script' = script /\ pool' = pool /\ (ran' = ran \/ End("failed"))

LEMMA VerbsLeave == ASSUME Verbs PROVE Left
<1>1. ASSUME Refused PROVE Left
  BY <1>1 DEF Refused, Contents, Left
<1>2. ASSUME NEW after, Plan(after) PROVE Left
  BY <1>2 DEF Plan, Contents, Left
<1>3. ASSUME NEW ops, PlanOps(ops) PROVE Left
  BY <1>3 DEF PlanOps, Plan, Contents, Left
<1>4. ASSUME NEW rows, ToReorder(rows) PROVE Left
  BY <1>1, <1>3, <1>4 DEF ToReorder
<1>5. CASE SetlistCreate \/ SetlistRename \/ SetlistDelete \/ SetlistDuplicate
  BY <1>1, <1>2, <1>3, <1>5 DEF SetlistCreate, SetlistRename, SetlistDelete, SetlistDuplicate
<1>6. CASE Mirror \/ RenamePreset \/ PushIr
  BY <1>3, <1>6 DEF Mirror, RenamePreset, PushIr
<1>7. CASE ImportHss
  BY <1>1, <1>2, <1>7 DEF ImportHss, ImportBundle
<1>8. CASE Create \/ Delete
  BY <1>1, <1>3, <1>8 DEF Create, Delete
<1>9. CASE ReorderItem \/ Move
  BY <1>1, <1>4, <1>9 DEF ReorderItem, ReorderSetlistItem, Move, MoveTone
<1>10. CASE TakeOut
  BY <1>1, <1>3, <1>10 DEF TakeOut, RemoveTone
<1>11. CASE Copy
  BY <1>1, <1>2, <1>11 DEF Copy, CopyTone
<1>12. CASE Save \/ PushContent
  BY <1>1, <1>3, <1>12 DEF Save, PushContent, ViaDest
<1>13. CASE DeleteIr \/ RenameIrs
  BY <1>1, <1>3, <1>13 DEF DeleteIr, DeleteDeviceIr, RenameIrs
<1>14. CASE Prune
  BY <1>2, <1>14 DEF Prune, PruneScan
<1> QED BY <1>5, <1>6, <1>7, <1>8, <1>9, <1>10, <1>11, <1>12, <1>13, <1>14 DEF Verbs

LEMMA MostLeaveIrs ==
  ASSUME Readings \/ Operations \/ Panel \/ UNCHANGED vars
  PROVE  irs' = irs /\ script' = script
<1>1. CASE Readings
  BY <1>1 DEF Readings, CopyRefs, LookTaken, CheckHolders, Place, OnlyReads, Frame
<1>2. CASE CannotRead \/ Finish \/ Skip \/ AddRef \/ RemoveContent
  BY <1>2 DEF CannotRead, Refused, Finish, Skip, AddRef, RemoveContent, Frame
<1>3. CASE Reorder \/ Install \/ SetContent \/ CreateSetlist \/ Rename
  BY <1>3 DEF Reorder, Install, SetContent, CreateSetlist, Rename, Frame
<1>4. CASE Panel \/ UNCHANGED vars
  BY <1>4 DEF Panel, PanelAdd, PanelSave, vars
<1> QED BY <1>1, <1>2, <1>3, <1>4 DEF Operations

\* The verdicts of commands that pushed an IR: what was reported stays so.
Told == /\ script' = script
        /\ \/ ran' = ran /\ (c.warned => c'.warned)
           \/ \E v \in {"ok", "warned", "failed"} : ran' = Append(ran, v) /\ (c.warned => v # "ok")

LEMMA ToldBy ==
  ASSUME ContentInv, script' = script
  PROVE  /\ End("failed") => Told
         /\ ran' = ran /\ (c.pc = "plan" \/ c' = c) => Told
         /\ Finish => Told
         /\ \A pc : Step(pc) => Told
         /\ Go(c) \/ Go([c EXCEPT !.warned = TRUE]) => Told
         /\ \A ops : Go([c EXCEPT !.ops = ops]) => Told
         /\ \A x : Go([c EXCEPT !.cid = x]) \/ Go([c EXCEPT !.list = x]) => Told
         /\ \A x : Go([c EXCEPT !.taken = x]) => Told
         /\ \A x, ops : Go([c EXCEPT !.scanned = x, !.ops = ops]) => Told
         /\ \A x, ops : Go([c EXCEPT !.checked = x, !.ops = ops]) => Told
         /\ \A policy : Fail(policy) => Told
<1>1. /\ c = [pc |-> c.pc, ops |-> c.ops, noted |-> c.noted, warned |-> c.warned,
              cid |-> c.cid, list |-> c.list, taken |-> c.taken, scanned |-> c.scanned,
              checked |-> c.checked]
      /\ c.warned \in BOOLEAN /\ (c.pc = "plan" => c.warned = FALSE)
  BY DEF ContentInv, CommandInv, Shape, Idle
<1>2. End("failed") => Told
  BY DEF End, Told
<1>3. ran' = ran /\ (c.pc = "plan" \/ c' = c) => Told
  BY <1>1 DEF Told
<1>4. Finish => Told
  BY <1>1 DEF Finish, End, Told
<1>5. ASSUME NEW pc, Step(pc) PROVE Told
  BY <1>1, <1>5 DEF Step, Told
<1>6. Go(c) => Told
  BY <1>1 DEF Go, Told
<1>7. Go([c EXCEPT !.warned = TRUE]) => Told
  BY <1>1 DEF Go, Told
<1>8. ASSUME NEW ops, Go([c EXCEPT !.ops = ops]) PROVE Told
  BY <1>1, <1>8 DEF Go, Told
<1>9. ASSUME NEW x, Go([c EXCEPT !.cid = x]) PROVE Told
  BY <1>1, <1>9 DEF Go, Told
<1>10. ASSUME NEW x, Go([c EXCEPT !.list = x]) PROVE Told
  BY <1>1, <1>10 DEF Go, Told
<1>11. ASSUME NEW x, Go([c EXCEPT !.taken = x]) PROVE Told
  BY <1>1, <1>11 DEF Go, Told
<1>12. ASSUME NEW x, NEW ops, Go([c EXCEPT !.scanned = x, !.ops = ops]) PROVE Told
  BY <1>1, <1>12 DEF Go, Told
<1>13. ASSUME NEW x, NEW ops, Go([c EXCEPT !.checked = x, !.ops = ops]) PROVE Told
  BY <1>1, <1>13 DEF Go, Told
<1>14. Go([c EXCEPT !.noted = TRUE, !.cid = None]) => Told
  BY <1>1 DEF Go, Told
<1>15. ASSUME NEW policy, Fail(policy) PROVE Told
  BY <1>2, <1>7, <1>14, <1>15 DEF Fail
<1> QED BY <1>2, <1>3, <1>4, <1>5, <1>6, <1>7, <1>8, <1>9, <1>10, <1>11, <1>12, <1>13, <1>15

LEMMA VerbsTell == ASSUME ContentInv, Verbs PROVE Told
<1>1. c.pc = "plan"
  BY DEF Verbs, Given, SetlistCreate, SetlistRename, SetlistDelete, SetlistDuplicate, Mirror,
         ImportHss, Create, RenamePreset, Delete, ReorderItem, Move, TakeOut, Copy, Save,
         PushContent, PushIr, DeleteIr, RenameIrs, Prune
<1>2. script' = script /\ (ran' = ran \/ End("failed"))
  BY VerbsLeave DEF Left
<1> QED BY <1>1, <1>2, ToldBy

LEMMA ReadingsTell == ASSUME ContentInv, Readings PROVE Told
<1>1. script' = script
  BY DEF Readings, CopyRefs, LookTaken, CheckHolders, Place, OnlyReads, Frame
<1>2. \/ \E policy : Fail(policy)
      \/ \E ops : Go([c EXCEPT !.ops = ops])
      \/ \E x : Go([c EXCEPT !.taken = x])
  <2>1. CASE CopyRefs
    BY <2>1, Zenon DEF CopyRefs, Fails, Expand
  <2>2. CASE LookTaken
    BY <2>2, Zenon DEF LookTaken, Fails
  <2>3. CASE CheckHolders
    BY <2>3, Zenon DEF CheckHolders, Fails, Expand
  <2>4. CASE Place
    BY <2>4, Zenon DEF Place, Fails, Expand
  <2> QED BY <2>1, <2>2, <2>3, <2>4 DEF Readings
<1> QED BY <1>1, <1>2, ToldBy

LEMMA OperationsTell == ASSUME ContentInv, Operations PROVE Told
<1>1. script' = script
  BY MostLeaveIrs
<1>2. CASE CannotRead
  BY <1>1, <1>2, ToldBy DEF CannotRead, Refused
<1>3. CASE Finish
  BY <1>1, <1>3, ToldBy
<1>4. CASE ~(CannotRead \/ Finish)
  <2>1. \/ \E policy : Fail(policy)
        \/ Go(c)
        \/ \E x : Go([c EXCEPT !.taken = x]) \/ Go([c EXCEPT !.cid = x]) \/ Go([c EXCEPT !.list = x])
    <3>1. CASE Skip
      BY <3>1 DEF Skip
    <3>2. CASE AddRef
      BY <3>2, Zenon DEF AddRef, Fails
    <3>3. CASE RemoveContent \/ SetContent
      BY <3>3, Zenon DEF RemoveContent, SetContent, Fails
    <3>4. CASE Reorder
      BY <3>4, Zenon DEF Reorder, Fails
    <3>5. CASE Install
      BY <3>5, Zenon DEF Install
    <3>6. CASE CreateSetlist \/ Rename
      BY <3>6, Zenon DEF CreateSetlist, Rename, Fails
    <3> QED BY <1>4, <3>1, <3>2, <3>3, <3>4, <3>5, <3>6 DEF Operations
  <2> QED BY <1>1, <2>1, ToldBy
<1> QED BY <1>2, <1>3, <1>4

LEMMA IrOperationsTell == ASSUME ContentInv, IrOperations PROVE Told
<1>1. script' = script
  BY DEF IrOperations, UploadMissing, LookUp, Confirm, Unwedge, Upload, DropRow, DropFile,
         DropWedge, RenameIr, PruneRescan, Elsewhere, Frame
<1>2. \/ \E policy : Fail(policy)
      \/ \E pc : Step(pc)
      \/ Go(c) \/ Go([c EXCEPT !.warned = TRUE])
      \/ \E x, ops : \/ Go([c EXCEPT !.scanned = x, !.ops = ops])
                     \/ Go([c EXCEPT !.checked = x, !.ops = ops])
  <2>1. CASE UploadMissing
    BY <2>1 DEF UploadMissing
  <2>2. CASE LookUp
    BY <2>2 DEF LookUp
  <2>3. CASE Confirm \/ Unwedge
    BY <2>3 DEF Confirm, Unwedge
  <2>4. CASE Upload
    BY <2>4, UploadDoes
  <2>5. CASE DropRow \/ DropFile
    BY <2>5, Zenon DEF DropRow, DropFile, Fails
  <2>6. CASE DropWedge \/ RenameIr
    BY <2>6, Zenon DEF DropWedge, RenameIr, Fails
  <2>7. CASE PruneRescan
    BY <2>7 DEF PruneRescan
  <2> QED BY <2>1, <2>2, <2>3, <2>4, <2>5, <2>6, <2>7 DEF IrOperations
<1>3. CASE \E policy : Fail(policy)
  BY <1>1, <1>3, ToldBy, Zenon
<1>4. CASE \E pc : Step(pc)
  BY <1>1, <1>4, ToldBy, Zenon
<1>5. CASE Go(c) \/ Go([c EXCEPT !.warned = TRUE])
  BY <1>1, <1>5, ToldBy, Zenon
<1>6. CASE \E x, ops : \/ Go([c EXCEPT !.scanned = x, !.ops = ops])
                       \/ Go([c EXCEPT !.checked = x, !.ops = ops])
  <2>1. PICK x, ops : \/ Go([c EXCEPT !.scanned = x, !.ops = ops])
                      \/ Go([c EXCEPT !.checked = x, !.ops = ops])
    BY <1>6, Zenon
  <2>2. Go([c EXCEPT !.scanned = x, !.ops = ops]) => Told
    BY <1>1, ToldBy, Zenon
  <2>3. Go([c EXCEPT !.checked = x, !.ops = ops]) => Told
    BY <1>1, ToldBy, Zenon
  <2> QED BY <2>1, <2>2, <2>3, Zenon
<1> QED BY <1>2, <1>3, <1>4, <1>5, <1>6

LEMMA NextTells == ASSUME ContentInv, [Next]_vars PROVE Told
<1>1. CASE Collect \/ Panel \/ UNCHANGED vars
  <2>1. script' = script /\ ran' = ran /\ c' = c
    BY <1>1 DEF Collect, Frame, Panel, PanelAdd, PanelSave, vars
  <2> QED BY <2>1, ToldBy
<1> QED BY <1>1, VerbsTell, ReadingsTell, OperationsTell, IrOperationsTell DEF Next, Done

LEMMA ReportedKept == ASSUME ContentInv, Told, NEW h, Reported(h) PROVE Reported(h)'
<1>1. ran \in Seq({"ok", "warned", "failed"})
  BY DEF ContentInv, CommandInv, Shape
<1>2. CASE \E k \in DOMAIN ran : ran[k] # "ok" /\ Pushes(script[k], h)
  <2>1. PICK k \in DOMAIN ran : ran[k] # "ok" /\ Pushes(script[k], h)
    BY <1>2
  <2>2. k \in DOMAIN ran' /\ ran'[k] = ran[k]
    BY <1>1 DEF Told
  <2> QED BY <2>1, <2>2 DEF Reported, Told
<1>3. CASE Running /\ c.warned /\ Pushes(Cmd, h)
  <2>1. CASE ran' = ran /\ c'.warned
    BY <1>3, <2>1 DEF Reported, Told, Running, Cmd
  <2>2. ASSUME NEW v \in {"ok", "warned", "failed"}, ran' = Append(ran, v), v # "ok"
        PROVE  Reported(h)'
    <3>1. Len(ran) + 1 \in DOMAIN ran' /\ ran'[Len(ran) + 1] # "ok"
      BY <1>1, <2>2
    <3> QED BY <1>3, <3>1 DEF Reported, Told, Cmd
  <2> QED BY <1>3, <2>1, <2>2 DEF Told
<1> QED BY <1>2, <1>3 DEF Reported

\* Files go from the device, but not that of h if it is registered.
LEMMA FileStays ==
  ASSUME ContentInv, AtHome(irs.files), NEW h \in DOMAIN StemOf, Kept(h), Told, NEW gone,
         h \in irs.rows /\ StemOf[h] \in DOMAIN irs.files /\ irs.files[StemOf[h]] = h
           => StemOf[h] \notin gone \/ Reported(h)',
         irs' = [irs EXCEPT !.files = Without(@, gone)]
  PROVE  Kept(h)'
<1>1. irs'.rows = irs.rows /\ irs'.names = irs.names /\ irs'.files = Without(irs.files, gone)
  BY FewerSound
<1>2. ASSUME h \in irs.rows PROVE h \in Stored(irs'.files) \/ Reported(h)'
  <2>1. CASE Reported(h)
    BY <2>1, ReportedKept
  <2>2. CASE h \in Stored(irs.files)
    <3>1. StemOf[h] \in DOMAIN irs.files /\ irs.files[StemOf[h]] = h
      BY <2>2 DEF AtHome, Stored, Range
    <3>2. StemOf[h] \notin gone => StemOf[h] \in DOMAIN irs'.files /\ irs'.files[StemOf[h]] = h
      <4>1. StemOf[h] \notin gone => /\ StemOf[h] \in DOMAIN Without(irs.files, gone)
                                     /\ Without(irs.files, gone)[StemOf[h]] = h
        BY <3>1 DEF Without
      <4> QED BY <1>1, <4>1, Zenon
    <3>3. StemOf[h] \notin gone => h \in Stored(irs'.files)
      BY <3>2 DEF Stored, Range
    <3> QED BY <1>2, <3>1, <3>3
  <2> QED BY <1>2, <2>1, <2>2 DEF Kept
<1> QED BY <1>1, <1>2 DEF Kept

LEMMA HomeStays ==
  ASSUME ContentInv, AtHome(irs.files), NEW gone, irs' = [irs EXCEPT !.files = Without(@, gone)]
  PROVE  AtHome(irs'.files)
<1>1. irs'.files = Without(irs.files, gone)
  BY FewerSound
<1>2. AtHome(Without(irs.files, gone))
  BY DEF AtHome, Without
<1> QED BY <1>1, <1>2, Zenon

\* A step that leaves files, rows and names, or removes rows.
LEMMA NothingLost ==
  ASSUME ContentInv, AtHome(irs.files), NEW h, Kept(h), Told,
         irs'.rows \subseteq irs.rows, irs'.files = irs.files, irs'.names = irs.names
  PROVE  Kept(h)' /\ AtHome(irs'.files)
BY ReportedKept DEF Kept

LEMMA OthersKeep ==
  ASSUME [Next]_vars, ~(IrOperations \/ Collect)
  PROVE  irs' = irs
BY VerbsLeave, MostLeaveIrs DEF Next, Done, Left

LEMMA LookingKeepsFiles ==
  ASSUME ContentInv, UploadMissing \/ LookUp \/ Confirm \/ PruneRescan
  PROVE  irs'.rows = irs.rows /\ irs'.files = irs.files /\ irs'.names = irs.names
<1>1. irs' = irs \/ irs' = [irs EXCEPT !.listed = irs.rows]
  BY DEF UploadMissing, LookUp, Confirm, PruneRescan, Same
<1> QED BY <1>1, IrFacts

LEMMA DropRowKeepsFiles ==
  ASSUME ContentInv, DropRow
  PROVE  irs'.rows \subseteq irs.rows /\ irs'.files = irs.files /\ irs'.names = irs.names
<1>1. irs' = irs \/ irs' = [irs EXCEPT !.rows = @ \ {op.hash}, !.listed = irs.rows \ {op.hash}]
  BY DEF DropRow
<1> QED BY <1>1, IrFacts

\* No file is removed but one that holds an IR that is not registered, the one that
\* bears the name of such an IR, or one whose IR was being uploaded or tampered with.
LEMMA Removals ==
  ASSUME ContentInv, Unwedge \/ DropFile \/ DropWedge \/ Collect
  PROVE  \E gone :
           /\ irs' = [irs EXCEPT !.files = Without(@, gone)]
           /\ \/ gone = {}
              \/ gone = Holding(op.hash) /\ (op.hash \notin irs.rows \/ Tampers(Cmd, op.hash))
              \/ /\ gone = {irs.names[op.hash]} /\ op.hash \notin irs.rows
                 /\ op.hash \in DOMAIN irs.names
              \/ \E n \in DOMAIN irs.files : gone = {n} /\ irs.files[n] \notin irs.rows
<1>1. irs' = irs => irs' = [irs EXCEPT !.files = Without(@, {})]
  <2>1. Without(irs.files, {}) = irs.files
    BY IrFacts DEF SoundIrs, Without
  <2> QED BY <2>1, IrFacts
<1>2. CASE Unwedge
  <2>1. op.hash \notin irs.rows
    BY <1>2 DEF ContentInv, CommandInv, Midway, Unwedge, Within
  <2>2. irs' = irs \/ irs' = [irs EXCEPT !.files = Without(@, Holding(op.hash))]
    BY <1>2, IrFacts DEF Unwedge
  <2> QED BY <1>1, <2>1, <2>2
<1>3. CASE DropFile
  <2>1. op.hash \notin irs.rows /\ op.op = "unlist" /\ c.pc # "plan" /\ c.ops # <<>>
    BY <1>3 DEF ContentInv, CommandInv, Midway, DropFile, Within
  <2>2. op.hash \in DOMAIN irs.names
    BY <2>1, MayDo DEF May, MayUnlist
  <2> QED BY <1>3, <2>1, <2>2 DEF DropFile
<1>4. CASE DropWedge
  <2>1. c.pc # "plan" /\ c.ops # <<>> /\ op.op = "unwedge"
    BY <1>4 DEF DropWedge, Doing
  <2>2. May(op)
    BY <2>1, MayDo
  <2>3. Tampers(Cmd, op.hash)
    BY <2>1, <2>2, Zenon DEF May, MayUnlist, Tampers
  <2>4. irs' = irs \/ irs' = [irs EXCEPT !.files = Without(@, Holding(op.hash))]
    BY <1>4, IrFacts DEF DropWedge
  <2> QED BY <1>1, <2>3, <2>4
<1>5. CASE Collect
  <2>1. PICK n \in DOMAIN irs.files : /\ irs.files[n] \notin irs.rows
                                      /\ irs' = [irs EXCEPT !.files = Without(@, {n})]
    BY <1>5 DEF Collect
  <2> QED BY <2>1
<1> QED BY <1>2, <1>3, <1>4, <1>5

LEMMA RemovalsKeepFiles ==
  ASSUME ContentInv, AtHome(irs.files), NEW h \in DOMAIN StemOf, Kept(h), ~Tampers(Cmd, h), Told,
         Unwedge \/ DropFile \/ DropWedge \/ Collect
  PROVE  Kept(h)'
<1>1. PICK gone :
           /\ irs' = [irs EXCEPT !.files = Without(@, gone)]
           /\ \/ gone = {}
              \/ gone = Holding(op.hash) /\ (op.hash \notin irs.rows \/ Tampers(Cmd, op.hash))
              \/ /\ gone = {irs.names[op.hash]} /\ op.hash \notin irs.rows
                 /\ op.hash \in DOMAIN irs.names
              \/ \E n \in DOMAIN irs.files : gone = {n} /\ irs.files[n] \notin irs.rows
  BY Removals
<1>2. ASSUME h \in irs.rows, StemOf[h] \in DOMAIN irs.files, irs.files[StemOf[h]] = h
      PROVE  StemOf[h] \notin gone
  <2>1. CASE gone = Holding(op.hash) /\ (op.hash \notin irs.rows \/ Tampers(Cmd, op.hash))
    <3>1. op.hash # h
      BY <1>2, <2>1
    <3> QED BY <1>2, <2>1, <3>1 DEF Holding
  <2>2. CASE gone = {irs.names[op.hash]} /\ op.hash \notin irs.rows /\ op.hash \in DOMAIN irs.names
    BY <1>2, <2>2 DEF Kept
  <2>3. CASE \E n \in DOMAIN irs.files : gone = {n} /\ irs.files[n] \notin irs.rows
    BY <1>2, <2>3
  <2> QED BY <1>1, <2>1, <2>2, <2>3
<1> QED BY <1>1, <1>2, FileStays

\* An upload of h that is cut short is reported.
LEMMA FailureReported ==
  ASSUME ContentInv, NEW h, c.pc # "plan", c.ops # <<>>, op.op = "push", op.hash = h,
         Fail(op.raised), script' = script
  PROVE  Reported(h)'
<1>1. op.raised \in {"stop", "warn"} /\ Pushes(Cmd, h) /\ Running
  BY MayDo DEF May, MayUpload
<1>2. ran \in Seq({"ok", "warned", "failed"})
  BY DEF ContentInv, CommandInv, Shape
<1>3. CASE op.raised = "stop"
  <2>1. ran' = Append(ran, "failed")
    BY <1>3 DEF Fail, End
  <2>2. Len(ran) + 1 \in DOMAIN ran' /\ ran'[Len(ran) + 1] = "failed"
    BY <1>2, <2>1
  <2> QED BY <1>1, <2>2 DEF Reported, Cmd
<1>4. CASE op.raised = "warn"
  <2>1. Go([c EXCEPT !.warned = TRUE])
    BY <1>4 DEF Fail
  <2>2. c'.warned /\ ran' = ran
    BY <2>1 DEF Go, ContentInv, CommandInv, Shape
  <2> QED BY <1>1, <2>2 DEF Reported, Running, Cmd
<1> QED BY <1>1, <1>3, <1>4

LEMMA UploadKeepsFiles ==
  ASSUME ContentInv, AtHome(irs.files), NEW h \in DOMAIN StemOf, Kept(h), ~Shares(h), Told, Upload
  PROVE  Kept(h)'
<1> DEFINE g == op.hash
<1>1. c.pc # "plan" /\ c.ops # <<>> /\ op.op = "push"
  BY DEF ContentInv, CommandInv, Midway, Upload, Within
<1>2. g \in DOMAIN StemOf /\ (g # h => StemOf[g] # StemOf[h])
  BY <1>1, MayDo DEF May, MayUpload, Shares
<1>3. CASE CutShort /\ Fail(op.raised)
  <2>1. g = h => Reported(h)'
    BY <1>1, <1>3, FailureReported DEF Told
  <2>2. CASE irs' = irs
    BY <2>2, NothingLost
  <2>3. CASE irs' = [irs EXCEPT !.files = Without(@, {StemOf[g]})]
    <3>1. StemOf[h] \notin {StemOf[g]} \/ Reported(h)'
      BY <1>2, <2>1
    <3> QED BY <2>3, <3>1, FileStays
  <2> QED BY <1>3, <2>2, <2>3 DEF CutShort
<1>4. CASE Uploads
  <2>1. PICK files :
          /\ files = Written(irs.files, StemOf[g], g)
          /\ \/ irs' = [irs EXCEPT !.files = files]
             \/ \E listed \in {irs.listed, irs.rows \cup {g}} :
                  irs' = [irs EXCEPT !.rows = irs.rows \cup {g}, !.files = files, !.listed = listed,
                                     !.names = Written(irs.names, g, StemOf[g])]
    BY <1>4 DEF Uploads
  <2>2. /\ irs'.files = files
        /\ \/ irs'.rows = irs.rows /\ irs'.names = irs.names
           \/ irs'.rows = irs.rows \cup {g} /\ irs'.names = Written(irs.names, g, StemOf[g])
    BY <1>2, <2>1, UploadSound
  <2>3. g \in Stored(irs'.files)
    <3>1. g \in Stored(Written(irs.files, StemOf[g], g))
      BY WrittenFacts
    <3> QED BY <2>1, <2>2, <3>1, Zenon
  <2>4. g # h /\ h \in Stored(irs.files) => h \in Stored(irs'.files)
    <3>1. SUFFICES ASSUME g # h, h \in Stored(irs.files) PROVE h \in Stored(irs'.files)
      OBVIOUS
    <3>2. StemOf[h] \in DOMAIN irs.files /\ irs.files[StemOf[h]] = h
      BY <3>1 DEF AtHome, Stored, Range
    <3>3. StemOf[h] \in DOMAIN files /\ files[StemOf[h]] = h
      <4>1. /\ StemOf[h] \in DOMAIN Written(irs.files, StemOf[g], g)
            /\ Written(irs.files, StemOf[g], g)[StemOf[h]] = h
        BY <1>2, <3>1, <3>2 DEF Written
      <4> QED BY <2>1, <4>1, Zenon
    <3> QED BY <2>2, <3>3 DEF Stored, Range
  <2>5. h \in irs'.rows => h \in Stored(irs'.files) \/ Reported(h)'
    BY <2>2, <2>3, <2>4, ReportedKept DEF Kept
  <2>6. ASSUME NEW x \in DOMAIN irs'.names \ {h} PROVE irs'.names[x] # StemOf[h]
    <3>1. CASE irs'.names = irs.names
      BY <2>6, <3>1 DEF Kept
    <3>2. CASE irs'.names = Written(irs.names, g, StemOf[g])
      <4>1. \A y \in DOMAIN Written(irs.names, g, StemOf[g]) \ {h} :
              Written(irs.names, g, StemOf[g])[y] # StemOf[h]
        BY <1>2 DEF Kept, Written
      <4> QED BY <2>6, <3>2, <4>1, Zenon
    <3> QED BY <2>2, <3>1, <3>2
  <2> QED BY <2>5, <2>6 DEF Kept
<1> QED BY <1>3, <1>4, UploadDoes

LEMMA RenameIrKeepsFiles ==
  ASSUME ContentInv, AtHome(irs.files), NEW h \in DOMAIN StemOf, Kept(h), ~Tampers(Cmd, h), Told,
         RenameIr
  PROVE  Kept(h)'
<1>1. c.pc # "plan" /\ c.ops # <<>> /\ op.op = "rename_ir"
  BY DEF RenameIr, Doing
<1>2. /\ Cmd.verb = "rename-ir" /\ op.hash \in DOMAIN StemOf
      /\ op.hash = Cmd.hash /\ op.name = Cmd.name
  BY <1>1, MayDo DEF May, MayUnlist
<1>3. op.hash # h => op.name # StemOf[h]
  BY <1>2, Zenon DEF Tampers
<1>4. CASE irs' = irs
  BY <1>4, NothingLost
<1>5. CASE irs' = [irs EXCEPT !.names = Written(@, op.hash, op.name), !.listed = irs.rows]
  <2>1. /\ irs'.rows = irs.rows /\ irs'.files = irs.files
        /\ irs'.names = Written(irs.names, op.hash, op.name)
    BY <1>2, <1>5, RenamedSound
  <2>2. ASSUME NEW x \in DOMAIN irs'.names \ {h} PROVE irs'.names[x] # StemOf[h]
    <3>1. \A y \in DOMAIN Written(irs.names, op.hash, op.name) \ {h} :
            Written(irs.names, op.hash, op.name)[y] # StemOf[h]
      BY <1>3 DEF Kept, Written
    <3> QED BY <2>1, <2>2, <3>1, Zenon
  <2> QED BY <2>1, <2>2, ReportedKept DEF Kept
<1> QED BY <1>4, <1>5 DEF RenameIr

LEMMA FilesKept ==
  ASSUME ContentInv, AtHome(irs.files), NEW h \in DOMAIN StemOf, Kept(h), [Next]_vars,
         ~Shares(h), ~Tampers(Cmd, h)
  PROVE  Kept(h)'
<1>1. Told
  BY NextTells
<1>2. CASE ~(IrOperations \/ Collect)
  BY <1>1, <1>2, OthersKeep, NothingLost
<1>3. CASE UploadMissing \/ LookUp \/ Confirm \/ PruneRescan
  BY <1>1, <1>3, LookingKeepsFiles, NothingLost
<1>4. CASE DropRow
  BY <1>1, <1>4, DropRowKeepsFiles, NothingLost
<1> QED BY <1>1, <1>2, <1>3, <1>4, RemovalsKeepFiles, UploadKeepsFiles, RenameIrKeepsFiles
        DEF IrOperations

\* Every IR is under the name of its WAV, whatever a command does.
LEMMA HomeKept == ASSUME ContentInv, AtHome(irs.files), [Next]_vars PROVE AtHome(irs'.files)
<1>1. CASE ~(IrOperations \/ Collect)
  BY <1>1, OthersKeep
<1>2. CASE UploadMissing \/ LookUp \/ Confirm \/ PruneRescan \/ DropRow
  BY <1>2, LookingKeepsFiles, DropRowKeepsFiles
<1>3. CASE Unwedge \/ DropFile \/ DropWedge \/ Collect
  <2>1. \E gone : irs' = [irs EXCEPT !.files = Without(@, gone)]
    BY <1>3, Removals
  <2> QED BY <2>1, HomeStays
<1>4. CASE Upload
  <2>1. CASE CutShort
    BY <2>1, HomeStays DEF CutShort
  <2>2. CASE Uploads
    <3>1. op.hash \in DOMAIN StemOf
      <4>1. c.pc # "plan" /\ c.ops # <<>> /\ op.op = "push"
        BY <1>4 DEF ContentInv, CommandInv, Midway, Upload, Within
      <4> QED BY <4>1, MayDo DEF May, MayUpload
    <3>2. irs'.files = Written(irs.files, StemOf[op.hash], op.hash)
      <4>1. PICK files :
              /\ files = Written(irs.files, StemOf[op.hash], op.hash)
              /\ \/ irs' = [irs EXCEPT !.files = files]
                 \/ \E listed \in {irs.listed, irs.rows \cup {op.hash}} :
                      irs' = [irs EXCEPT !.rows = irs.rows \cup {op.hash}, !.files = files,
                                         !.listed = listed,
                                         !.names = Written(irs.names, op.hash, StemOf[op.hash])]
        BY <2>2 DEF Uploads
      <4>2. CASE irs' = [irs EXCEPT !.files = files]
        BY <3>1, <4>1, <4>2, UploadSound
      <4>3. CASE \E listed \in {irs.listed, irs.rows \cup {op.hash}} :
                   irs' = [irs EXCEPT !.rows = irs.rows \cup {op.hash}, !.files = files,
                                      !.listed = listed,
                                      !.names = Written(irs.names, op.hash, StemOf[op.hash])]
        <5>1. PICK listed \in {irs.listed, irs.rows \cup {op.hash}} :
                irs' = [irs EXCEPT !.rows = irs.rows \cup {op.hash}, !.files = files,
                                   !.listed = listed,
                                   !.names = Written(irs.names, op.hash, StemOf[op.hash])]
          BY <4>3
        <5> QED BY <3>1, <4>1, <5>1, UploadSound, Zenon
      <4> QED BY <4>1, <4>2, <4>3
    <3>3. AtHome(Written(irs.files, StemOf[op.hash], op.hash))
      BY DEF AtHome, Written
    <3> QED BY <3>2, <3>3, Zenon
  <2> QED BY <1>4, <2>1, <2>2, UploadDoes
<1>5. CASE RenameIr
  <2>1. irs' = irs \/ \E names, listed : irs' = [irs EXCEPT !.names = names, !.listed = listed]
    BY <1>5 DEF RenameIr
  <2>2. irs'.files = irs.files
    BY <2>1, IrFacts
  <2> QED BY <2>2
<1> QED BY <1>1, <1>2, <1>3, <1>4, <1>5 DEF IrOperations

LEMMA IrInvKept == ASSUME ContentInv, IrInv, [Next]_vars PROVE IrInv'
<1>1. AtHome(irs'.files)
  BY HomeKept DEF IrInv
<1>2. ASSUME NEW h \in DOMAIN StemOf, ~Spared(h) PROVE Kept(h)'
  <2>1. Kept(h) /\ AtHome(irs.files) /\ ~Shares(h)
    BY <1>2 DEF IrInv, Spared
  <2>2. CASE Running
    <3>1. ~Tampers(Cmd, h)
      BY <1>2, <2>2, CmdSensible DEF Cmd, Spared
    <3> QED BY <2>1, <3>1, FilesKept
  <2>3. CASE ~Running
    <3>1. c.pc = "plan"
      BY <2>3 DEF ContentInv, CommandInv, Shape
    <3>2. ~(IrOperations \/ Collect)
      BY <3>1 DEF IrOperations, UploadMissing, LookUp, Confirm, Unwedge, Upload, DropRow, DropFile,
                  DropWedge, RenameIr, PruneRescan, Collect, Doing, Within
    <3> QED BY <2>1, <3>2, OthersKeep, NextTells, NothingLost
  <2> QED BY <2>2, <2>3
<1>3. \A h \in DOMAIN StemOf : Spared(h) => Spared(h)'
  BY NextTells DEF Told, Spared, Shares
<1> QED BY <1>1, <1>2, <1>3 DEF IrInv

LEMMA InitUntouched == Init => IrInv
<1> SUFFICES ASSUME Init PROVE IrInv
  OBVIOUS
<1>1. PICK d \in Devices : irs = d.irs
  BY DEF Init
<1>2. AtHome(irs.files) /\ OwnNames(irs.names) /\ \A h \in irs.rows : Shares(h) \/ h \in Stored(irs.files)
  BY <1>1, DevicesAssumption DEF Untouched
<1>3. DOMAIN irs.names \subseteq DOMAIN StemOf
  BY <1>1, DevicesAssumption DEF Sound, SoundIrs
<1>4. ASSUME NEW h \in DOMAIN StemOf, ~Shares(h), NEW g \in DOMAIN irs.names \ {h}
      PROVE  irs.names[g] # StemOf[h]
  <2>1. StemOf[g] # StemOf[h] /\ StemOf[h] \in Range(StemOf)
    BY <1>3, <1>4 DEF Shares, Range
  <2> QED BY <1>2, <2>1 DEF OwnNames
<1> QED BY <1>2, <1>4 DEF IrInv, Spared, Kept

\* The rows of the pool change only where presets are written.
LEMMA PoolLeft ==
  ASSUME Next, ~(RemoveContent \/ Install \/ SetContent \/ Rename \/ PanelSave)
  PROVE  pool' = pool
<1>1. CASE Verbs
  BY <1>1, VerbsLeave DEF Left
<1>2. CASE Readings
  BY <1>2 DEF Readings, CopyRefs, LookTaken, CheckHolders, Place, OnlyReads, Contents
<1>3. CASE CannotRead \/ Finish \/ Skip \/ AddRef \/ Reorder \/ CreateSetlist
  BY <1>3 DEF CannotRead, Refused, Finish, Skip, AddRef, Reorder, CreateSetlist, Contents
<1>4. CASE IrOperations
  BY <1>4 DEF IrOperations, UploadMissing, LookUp, Confirm, Unwedge, Upload, DropRow, DropFile,
              DropWedge, RenameIr, PruneRescan, Elsewhere, Contents
<1>5. CASE Collect \/ PanelAdd \/ Done
  BY <1>5 DEF Collect, PanelAdd, Done, vars, Contents
<1> QED BY <1>1, <1>2, <1>3, <1>4, <1>5 DEF Next, Operations, Panel
-----------------------------------------------------------------------------
(* The theorems                                                            *)

\* The rows of the device stay well-formed, whatever the commands do: every cid is
\* its row's own, every reference is at a position of its setlist and alone there.
THEOREM Typing == Spec => []TypeOK
<1>1. ContentInv => TypeOK
  BY RowFacts, IrFacts DEF TypeOK, Cids, SoundIrs
<1> QED BY <1>1, ContentInvariance, PTL

\* A command that adds references disturbs none that it found.
THEOREM Incumbents == Spec => []IncumbentsSafe
<1>1. ContentInv => IncumbentsSafe
  BY DEF ContentInv, DeviceInv, IncumbentsSafe
<1> QED BY <1>1, ContentInvariance, PTL

\* A registered IR has its file, but for one whose WAV shares its name with that of
\* another, one that a command of the script tampers with, and one whose upload a
\* command reported to have failed or warned of.
THEOREM RegisteredIrs == Spec => []RegisteredHasFile
<1>1. Spec => [](ContentInv /\ IrInv)
  <2>1. ContentInv /\ IrInv /\ [Next]_vars => (ContentInv /\ IrInv)'
    BY NextKeeps, IrInvKept
  <2>2. Init => ContentInv /\ IrInv
    BY InitEstablishes, InitUntouched
  <2> QED BY <2>1, <2>2, PTL DEF Spec
<1>2. ContentInv /\ IrInv => RegisteredHasFile
  BY IrFacts DEF IrInv, Spared, Kept, RegisteredHasFile
<1> QED BY <1>1, <1>2, PTL

\* Only delete-ir and ir-prune unregister an IR, and ir-prune none that a preset
\* used at its second scan nor, unless forced, one that a local tone uses.
THEOREM IrsKept == Spec => IrKept
<1> DEFINE Change == \A h \in irs.rows \ irs'.rows :
                       \/ Cmd.verb = "delete-ir"
                       \/ Cmd.verb = "prune" /\ h \notin c.scanned /\ (h \in Cmd.local => Cmd.force)
<1>1. ASSUME ContentInv, Next PROVE Change
  <2>1. CASE DropRow
    <3>1. c.pc # "plan" /\ c.ops # <<>> /\ op.op = "unlist"
      BY <2>1 DEF DropRow, Doing
    <3>2. May(op)
      BY <1>1, <3>1, MayDo
    <3>3. irs.rows \ irs'.rows \subseteq {op.hash}
      <4>1. irs' = irs \/ irs' = [irs EXCEPT !.rows = @ \ {op.hash}, !.listed = irs.rows \ {op.hash}]
        BY <2>1 DEF DropRow
      <4> QED BY <1>1, <4>1, IrFacts
    <3> QED BY <3>1, <3>2, <3>3, Zenon DEF May, MayUnlist
  <2>2. CASE ~DropRow
    <3>1. irs.rows \subseteq irs'.rows
      <4>1. CASE ~(IrOperations \/ Collect)
        <5>1. irs' = irs
          BY <1>1, <4>1, VerbsLeave, MostLeaveIrs DEF Next, Done, Left
        <5> QED BY <5>1
      <4>2. CASE UploadMissing \/ LookUp \/ PruneRescan \/ Confirm
        <5>1. irs' = irs \/ irs' = [irs EXCEPT !.listed = irs.rows]
          BY <4>2 DEF UploadMissing, LookUp, PruneRescan, Confirm, Same
        <5> QED BY <1>1, <5>1, IrFacts
      <4>3. CASE Unwedge \/ DropFile \/ DropWedge \/ Collect
        <5>1. \E files : irs' = [irs EXCEPT !.files = files]
          BY <4>3 DEF Unwedge, DropFile, DropWedge, Collect
        <5> QED BY <1>1, <5>1, IrFacts
      <4>4. CASE Upload
        <5>1. \/ irs' = irs \/ \E files : irs' = [irs EXCEPT !.files = files]
              \/ \E files, listed, names :
                   irs' = [irs EXCEPT !.rows = irs.rows \cup {op.hash}, !.files = files,
                                      !.listed = listed, !.names = names]
          BY <4>4, UploadDoes DEF Uploads, CutShort
        <5> QED BY <1>1, <5>1, IrFacts
      <4>5. CASE RenameIr
        <5>1. irs' = irs \/ \E names, listed : irs' = [irs EXCEPT !.names = names, !.listed = listed]
          BY <4>5 DEF RenameIr
        <5> QED BY <1>1, <5>1, IrFacts
      <4> QED BY <2>2, <4>1, <4>2, <4>3, <4>4, <4>5 DEF IrOperations
    <3> QED BY <3>1
  <2> QED BY <2>1, <2>2
<1>2. ContentInv /\ [Next]_vars => [Change]_vars
  BY <1>1
<1> QED BY <1>2, ContentInvariance, PTL DEF Spec, IrKept

\* No preset that some setlist refers to is deleted from the pool, but by device
\* delete, and by device rm --also-pool from the setlist that it names.
THEOREM NoOrphans == Spec => NeverOrphans
<1> DEFINE Change == \A cid \in Gone : Cmd.verb # "delete" =>
                       \A r \in start.refs \cap refs :
                         r.rcid = cid => /\ Cmd.verb = "rm"
                                         /\ r.list \in {l.cid : l \in Named(start.lists, Cmd.list)}
<1>1. ASSUME ContentInv, Next PROVE Change
  <2>1. CASE RemoveContent
    <3>1. c.pc # "plan" /\ c.ops # <<>> /\ op.op = "remove"
      BY <2>1 DEF RemoveContent, Doing
    <3>2. MayRemove(op)
      BY <1>1, <3>1, MayDo DEF May
    <3>3. \A cid \in Gone : cid = op.cid /\ cid \in Cids(pool)
      BY <2>1 DEF RemoveContent, Gone, Cids
    <3>4. ASSUME op.cid \in Cids(pool)
          PROVE  op.cid \notin Cids(start.lists) /\ op.cid \notin Cids(start.refs)
      <4>1. op.cid \in Cids(start.pool) \/ op.cid \in (start.made + 1)..made
        BY <1>1, <3>4 DEF ContentInv, DeviceInv, Newer
      <4> QED BY <1>1, <4>1, RowFacts DEF Apart
    <3>5. ASSUME NEW cid \in Gone, Cmd.verb # "delete",
                 NEW r \in start.refs \cap refs, r.rcid = cid
          PROVE  /\ Cmd.verb = "rm"
                 /\ r.list \in {l.cid : l \in Named(start.lists, Cmd.list)}
      <4>1. Cmd.verb = "rm" /\ Unheld(op.cid)
        <5>1. op.cid \notin Cids(start.lists) /\ op.cid \notin Cids(start.refs)
          BY <3>3, <3>4, <3>5
        <5> QED BY <3>1, <3>2, <3>5, <5>1 DEF MayRemove
      <4> QED BY <3>3, <3>5, <4>1 DEF Unheld, Cids
    <3> QED BY <3>5
  <2>2. CASE ~RemoveContent
    <3>1. Cids(pool) \subseteq Cids(pool')
      <4>1. CASE Install \/ PanelSave
        <5>1. pool \subseteq pool'
          BY <4>1 DEF Install, PanelSave
        <5> QED BY <5>1 DEF Cids
      <4>2. CASE SetContent \/ Rename
        <5>1. \A x \in pool : \E y \in pool' : y.cid = x.cid
          <6>1. CASE SetContent
            <7>1. PICK landed \in BOOLEAN :
                    pool' = {IF landed /\ x.cid = op.cid
                             THEN [x EXCEPT !.rev = op.rev, !.uses = op.uses] ELSE x : x \in pool}
              BY <6>1 DEF SetContent
            <7>2. ASSUME NEW x \in pool, NEW rev, NEW uses
                  PROVE  [x EXCEPT !.rev = rev, !.uses = uses].cid = x.cid
              <8>1. x = [cid |-> x.cid, name |-> x.name, rev |-> x.rev, uses |-> x.uses]
                BY <1>1, RowFacts
              <8>2. [x EXCEPT !.rev = rev, !.uses = uses]
                      \in [cid : {x.cid}, name : {x.name}, rev : {rev}, uses : {uses}]
                BY <8>1
              <8> QED BY <8>2
            <7>3. \A x \in pool : [x EXCEPT !.rev = op.rev, !.uses = op.uses].cid = x.cid
              BY <7>2
            <7> QED BY <7>1, <7>3
          <6>2. CASE Rename
            <7>1. PICK landed \in BOOLEAN :
                    pool' = {IF landed /\ x.cid = op.cid
                             THEN [x EXCEPT !.name = op.name] ELSE x : x \in pool}
              BY <6>2 DEF Rename
            <7>2. ASSUME NEW x \in pool
                  PROVE  (IF landed /\ x.cid = op.cid
                          THEN [x EXCEPT !.name = op.name] ELSE x).cid = x.cid
              BY <1>1, RowFacts
            <7> QED BY <7>1, <7>2
          <6> QED BY <4>2, <6>1, <6>2
        <5> QED BY <5>1 DEF Cids
      <4>3. CASE ~(Install \/ PanelSave \/ SetContent \/ Rename)
        <5>1. pool' = pool
          BY <1>1, <2>2, <4>3, PoolLeft
        <5> QED BY <5>1
      <4> QED BY <4>1, <4>2, <4>3
    <3>2. Gone = {}
      BY <3>1 DEF Gone, Cids
    <3> QED BY <3>2
  <2> QED BY <2>1, <2>2
<1>2. ContentInv /\ [Next]_vars => [Change]_vars
  BY <1>1
<1> QED BY <1>2, ContentInvariance, PTL DEF Spec, NeverOrphans
=============================================================================
