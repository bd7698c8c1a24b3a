---------------------------- MODULE Restore_proofs ----------------------------
(***************************************************************************)
(* Proofs about Restore: whatever fails, a restore takes nothing out of    *)
(* the setlist that the backup wants there; and a restore that reports no  *)
(* error has restored.                                                     *)
(*                                                                         *)
(* And about Backup: a backup that reports nothing reflects the device,    *)
(* and one that could not read something takes nothing of it away.         *)
(***************************************************************************)
EXTENDS Backup, Collections_proofs

Names == {b.name : b \in job.presets}
Ops == ToSet(ops)
Moving == Now.op \in {"reference", "move_ref"}
Working == c.pc \in {"apply", "add", "verify", "drop"}
-----------------------------------------------------------------------------
(* What holds, whatever fails                                              *)

DeviceInv ==
    /\ SoundDevice(pool, refs, made) /\ job \in Jobs
    /\ edited \in [plan : BOOLEAN, look : BOOLEAN] /\ (edited.look => edited.plan)

\* What is known of an operation of the plan.
Planned(o) ==
    /\ o.pos \in Positions \cup {None}
    /\ o.op \in {"create", "update", "reference", "move_ref", "remove_ref", "delete_pool"}
    /\ o.op = "create" => \E b \in job.presets : o = Creation(b)
    /\ o.op = "update" => \E b \in job.presets : o = Update(b)
    /\ o.op \in {"reference", "move_ref"} =>
         o.pos \in Positions /\ \E d \in job.refs : o.name = d.name
    /\ o.op = "reference" => o.from = None
    /\ o.op = "remove_ref" => job.prune /\ o.arg \in 1..made
    /\ o.op = "delete_pool" => job.prune /\ o.name \notin Names

PlanInv ==
    /\ ops \in Seq(Ops) /\ \A o \in Ops : Planned(o)
    /\ c = [pc |-> c.pc, k |-> c.k, cid |-> c.cid, src |-> c.src] /\ c.pc \in Points
    /\ c.k \in 1..(Len(ops) + 1)
    /\ c.pc \in {"pool", "setlist", "moves"} => c.k = 1
    /\ c.pc = "pool" => ops = <<>>
    /\ c.pc = "setlist" => \A o \in Ops : o.op \in {"create", "update"}
    /\ c.pc \in {"setlist", "moves"} => p.live = pool
    /\ Working => c.k \in DOMAIN ops

\* The moves to be planned: whatever is in the way of one stays, or moves.
MovesInv ==
    /\ p = [live |-> p.live, moves |-> p.moves, occupied |-> p.occupied, fixed |-> p.fixed]
    /\ IsFiniteSet(p.moves)
    /\ \A m \in p.moves :
         /\ m = [name |-> m.name, to |-> m.to, from |-> m.from]
         /\ m.to \in Positions /\ m.from \in Positions \cup {None}
         /\ \E d \in job.refs : d.name = m.name /\ d.posi = m.to
         /\ m.to \in p.occupied => m.to \in p.fixed \/ \E n \in p.moves : n.from = m.to
    /\ \A m, n \in p.moves : m.to = n.to => m = n

\* In the middle of an operation on a reference.
MidwayInv ==
    /\ c.pc \in {"add", "verify"} => Moving
    /\ c.pc = "drop" => Now.op \in {"move_ref", "remove_ref"}
    /\ c.pc \in {"add", "verify", "drop"} /\ Moving =>
         /\ c.cid \in 1..made /\ NameIn(pool, c.cid) = Now.name
         /\ c.src \in 0..made /\ (Now.op = "move_ref" <=> c.src # 0)
         /\ \A r \in refs : r.cid = c.src => r.rcid = c.cid
    /\ c.pc = "drop" /\ Now.op = "remove_ref" => c.src = Now.arg

\* The references that the plan removes for good.
Removed == {o.arg : o \in {x \in Ops : x.op = "remove_ref"}}

\* A reference to a wanted preset is only removed next to another that is not.
SparedInv ==
    ~edited.plan =>
      \A r \in refs : r.cid \in Removed /\ Wanted(NameIn(pool, r.rcid)) =>
        \E s \in refs : s.cid \notin Removed /\ NameIn(pool, s.rcid) = NameIn(pool, r.rcid)

\* Nothing is where a reference is about to be added, but what is added there.
TargetInv ==
    c.pc \in {"add", "verify", "drop"} /\ Moving /\ ~edited.look =>
      /\ c.pc = "add" => At(refs, Now.pos) = {}
      /\ c.pc \in {"verify", "drop"} => \A r \in At(refs, Now.pos) : r.cid \notin Removed
      /\ c.pc = "drop" => \E r \in At(refs, Now.pos) : r.rcid = c.cid /\ r.cid # c.src

RestoreInv == DeviceInv /\ PlanInv /\ MovesInv /\ MidwayInv /\ SparedInv /\ TargetInv
-----------------------------------------------------------------------------
(* Names, and the state of the command                                     *)

LEMMA NameFound ==
  ASSUME NEW presets, \A x, y \in presets : x.cid = y.cid => x = y, NEW x \in presets
  PROVE  NameIn(presets, x.cid) = x.name
<1>1. (CHOOSE y \in presets : y.cid = x.cid) = x
  OBVIOUS
<1> QED BY <1>1 DEF NameIn

LEMMA NameLost ==
  ASSUME NEW presets, NEW cid, \A x \in presets : x.cid # cid
  PROVE  NameIn(presets, cid) = NoName
BY DEF NameIn

\* A name other than NoName is some preset's.
LEMMA NameOwner ==
  ASSUME NEW presets, NEW cid, NameIn(presets, cid) # NoName
  PROVE  \E x \in presets : x.cid = cid /\ NameIn(presets, cid) = x.name
BY DEF NameIn

LEMMA Named1 == ASSUME SoundDevice(pool, refs, made), NEW x \in pool
                PROVE  NameIn(pool, x.cid) = x.name /\ x.name # NoName
BY NameFound DEF SoundDevice

\* The operations.
LEMMA Kinds ==
  /\ \A b : /\ Creation(b).op = "create" /\ Creation(b).name = b.name /\ Creation(b).arg = b.content
            /\ Update(b).op = "update" /\ Update(b).name = b.name /\ Update(b).arg = b.content
  /\ \A r : Removal(r).op = "remove_ref" /\ Removal(r).pos = r.posi /\ Removal(r).arg = r.cid
  /\ \A m, to : /\ Move(m, to).op \in {"reference", "move_ref"} /\ Move(m, to).from = m.from
                /\ Move(m, to).pos = to /\ Move(m, to).name = m.name
BY DEF Creation, Update, Removal, Move, Op

\* The names of the backup.
LEMMA JobFacts ==
  ASSUME job \in Jobs
  PROVE  /\ IsFiniteSet(job.presets) /\ IsFiniteSet(job.refs) /\ NoName \notin Names
         /\ \A name : Wanted(name) => name \in Names
         /\ \A d \in job.refs : d = [name |-> d.name, posi |-> d.posi] /\ d.posi \in Positions
         /\ \A d, e \in job.refs : d.posi = e.posi => d = e
BY JobsAssumption DEF Names, Wanted, Named

LEMMA Went ==
  ASSUME PlanInv, NEW point, Goto(point)
  PROVE  c' = [pc |-> point, k |-> c.k, cid |-> c.cid, src |-> c.src]
BY DEF PlanInv, Goto

LEMMA Found ==
  ASSUME PlanInv, NEW cid, NEW src, c' = [c EXCEPT !.pc = "add", !.cid = cid, !.src = src]
  PROVE  c' = [pc |-> "add", k |-> c.k, cid |-> cid, src |-> src]
<1>1. c = [pc |-> c.pc, k |-> c.k, cid |-> c.cid, src |-> c.src]
  BY DEF PlanInv
<1>2. c' \in [pc : {"add"}, k : {c.k}, cid : {cid}, src : {src}]
  BY <1>1
<1> QED BY <1>2

\* The next operation.
LEMMA Next1 ==
  ASSUME PlanInv, Working, NEW ok, End(ok)
  PROVE  /\ c' = [pc |-> IF c.k = Len(ops) THEN "done" ELSE "apply", k |-> c.k + 1, cid |-> 0, src |-> 0]
         /\ Len(ops) \in Nat /\ c.k \in 1..Len(ops) /\ DOMAIN ops = 1..Len(ops)
         /\ job' = job /\ ops' = ops /\ p' = p /\ edits' = edits
         /\ Now \in Ops /\ Planned(Now)
<1>1. ops \in Seq(Ops) /\ c.k \in DOMAIN ops
  BY DEF PlanInv
<1>2. Len(ops) \in Nat /\ DOMAIN ops = 1..Len(ops)
  BY <1>1, LenProperties
<1>3. Now \in Ops
  BY <1>1 DEF Now, Ops, ToSet
<1>4. Planned(Now)
  BY <1>3 DEF PlanInv
<1>5. c' = [Fresh EXCEPT !.pc = IF c.k = Len(ops) THEN "done" ELSE "apply", !.k = c.k + 1]
  BY DEF End
<1>6. c' \in [pc : {IF c.k = Len(ops) THEN "done" ELSE "apply"}, k : {c.k + 1}, cid : {0}, src : {0}]
  BY <1>5 DEF Fresh
<1> QED BY <1>1, <1>2, <1>3, <1>4, <1>6 DEF End

LEMMA MovesStay == ASSUME MovesInv, p' = p, job' = job PROVE MovesInv'
BY DEF MovesInv

LEMMA NoMoves == ASSUME p'.moves = {}, NEW live, NEW occ, NEW fix,
                        p' = [live |-> live, moves |-> {}, occupied |-> occ, fixed |-> fix]
                 PROVE  MovesInv'
BY FS_EmptySet DEF MovesInv

\* An operation ends.
LEMMA EndKeeps ==
  ASSUME RestoreInv, Working, NEW ok, End(ok), DeviceInv', SparedInv', made \in Nat, made <= made'
  PROVE  RestoreInv'
<1>1. /\ c' = [pc |-> IF c.k = Len(ops) THEN "done" ELSE "apply", k |-> c.k + 1, cid |-> 0, src |-> 0]
      /\ Len(ops) \in Nat /\ c.k \in 1..Len(ops) /\ DOMAIN ops = 1..Len(ops)
      /\ job' = job /\ ops' = ops
  BY Next1 DEF RestoreInv
<1>2. c'.pc \in {"done", "apply"} /\ c'.k = c.k + 1
      /\ c' = [pc |-> c'.pc, k |-> c'.k, cid |-> c'.cid, src |-> c'.src]
  BY <1>1
<1>3. Ops' = Ops
  BY <1>1 DEF Ops
<1>4. ASSUME NEW o \in Ops PROVE Planned(o)'
  <2>1. Planned(o) /\ made' \in Nat
    BY DEF RestoreInv, PlanInv, DeviceInv, SoundDevice
  <2> QED BY <1>1, <2>1 DEF Planned, Names
<1>5. c'.k \in 1..(Len(ops) + 1) /\ (c'.pc = "apply" => c'.k \in DOMAIN ops)
  BY <1>1
<1>6. PlanInv'
  BY <1>1, <1>2, <1>3, <1>4, <1>5 DEF RestoreInv, PlanInv, Working, Points
<1>7. MidwayInv' /\ TargetInv'
  BY <1>2 DEF MidwayInv, TargetInv
<1>8. MovesInv'
  BY MovesStay, Next1 DEF RestoreInv
<1> QED BY <1>6, <1>7, <1>8 DEF RestoreInv
-----------------------------------------------------------------------------
(* Planning                                                                *)

LEMMA InitKeeps == Init => RestoreInv
<1> SUFFICES ASSUME Init PROVE RestoreInv
  OBVIOUS
<1>1. DeviceInv
  BY DevicesAssumption DEF Init, DeviceInv
<1>2. ops = <<>> /\ c = Fresh /\ edited = [plan |-> FALSE, look |-> FALSE]
  BY DEF Init
<1>3. Ops = {} /\ Len(ops) = 0 /\ ops \in Seq(Ops)
  BY <1>2 DEF Ops, ToSet
<1>4. PlanInv /\ MidwayInv /\ TargetInv
  BY <1>2, <1>3 DEF PlanInv, MidwayInv, TargetInv, Fresh, Points, Working
<1>6. MovesInv
  BY FS_EmptySet DEF MovesInv, Init, NoPlan
<1>5. SparedInv
  BY <1>3 DEF SparedInv, Removed
<1> QED BY <1>1, <1>4, <1>5, <1>6 DEF RestoreInv

\* A step of the planning, or the end of it.
LEMMA PlanningKeeps ==
  ASSUME RestoreInv, UNCHANGED Device, job' = job,
         edited' \in [plan : BOOLEAN, look : BOOLEAN], edited'.look => edited'.plan,
         PlanInv', MovesInv', SparedInv', c'.pc \notin {"add", "verify", "drop"}
  PROVE  RestoreInv'
<1>1. DeviceInv'
  BY DEF RestoreInv, DeviceInv, Device
<1>2. MidwayInv' /\ TargetInv'
  BY DEF MidwayInv, TargetInv
<1> QED BY <1>1, <1>2 DEF RestoreInv

\* The device stays, and nothing more is to be removed.
LEMMA SparedStays ==
  ASSUME RestoreInv, UNCHANGED <<pool, refs>>, job' = job, edited'.plan = edited.plan, Removed' = Removed
  PROVE  SparedInv'
BY DEF RestoreInv, SparedInv, Wanted

LEMMA AbortKeeps == ASSUME RestoreInv, Abort, ~Working PROVE RestoreInv'
<1>1. c' = [pc |-> "done", k |-> c.k, cid |-> c.cid, src |-> c.src]
  BY Went DEF RestoreInv, Abort, Goto
<1>2. UNCHANGED <<pool, refs, made, job, edited, ops, p>>
  BY DEF Abort, Device, Panel
<1>3. Ops' = Ops /\ Removed' = Removed
  BY <1>2 DEF Ops, Removed
<1>4. SparedInv'
  BY <1>2, <1>3, SparedStays
<1>5. PlanInv'
  BY <1>1, <1>2, <1>3 DEF RestoreInv, PlanInv, Planned, Names, Points, Working
<1>6. edited \in [plan : BOOLEAN, look : BOOLEAN] /\ (edited.look => edited.plan)
  BY DEF RestoreInv, DeviceInv
<1>7. MovesInv'
  BY <1>2, MovesStay DEF RestoreInv
<1> QED BY <1>1, <1>2, <1>4, <1>5, <1>6, <1>7, PlanningKeeps DEF Device

\* Operations are added to the plan.
LEMMA MorePlanned ==
  ASSUME PlanInv, NEW q, NEW S, q \in Seq(S), ops' = ops \o q
  PROVE  /\ ops' \in Seq(Ops') /\ Ops' = Ops \cup ToSet(q) /\ Len(ops') = Len(ops) + Len(q)
         /\ Len(ops) \in Nat /\ Len(q) \in Nat
<1>1. ops \in Seq(Ops \cup S) /\ q \in Seq(Ops \cup S)
  BY SeqMonotonic DEF PlanInv
<1>2. ops' \in Seq(Ops \cup S) /\ Ops' = Ops \cup ToSet(q)
  BY <1>1, ConcatOps DEF Ops
<1>3. ops' \in Seq(ToSet(ops'))
  BY <1>2, OwnElements
<1> QED BY <1>1, <1>2, <1>3, LenProperties, ConcatProperties DEF Ops

LEMMA FiniteJob ==
  ASSUME RestoreInv
  PROVE  /\ \A b \in job.presets : Planned(Creation(b)) /\ Planned(Update(b))
         /\ \A S \in SUBSET job.presets : /\ IsFiniteSet({Creation(b) : b \in S})
                                          /\ IsFiniteSet({Update(b) : b \in S})
<1>1. ASSUME NEW b \in job.presets PROVE Planned(Creation(b)) /\ Planned(Update(b))
  BY DEF Planned, Creation, Update, Op
<1>2. ASSUME NEW S \in SUBSET job.presets
      PROVE  IsFiniteSet({Creation(b) : b \in S}) /\ IsFiniteSet({Update(b) : b \in S})
  <2> DEFINE f == [b \in S |-> Creation(b)]
             g == [b \in S |-> Update(b)]
  <2>1. IsFiniteSet(S)
    BY JobFacts, FS_Subset DEF RestoreInv, DeviceInv
  <2>2. {Creation(b) : b \in S} = {f[b] : b \in S} /\ {Update(b) : b \in S} = {g[b] : b \in S}
    OBVIOUS
  <2> HIDE DEF f, g
  <2>3. IsFiniteSet({f[b] : b \in S}) /\ IsFiniteSet({g[b] : b \in S})
    BY <2>1, FiniteImage
  <2> QED BY <2>2, <2>3
<1> QED BY <1>1, <1>2

\* What is created and what is updated, when these files cannot be read.
Absent(unread) == {b \in job.presets \ unread : Cardinality(Named(pool, b.name)) = 0}
Outdated(unread) == {b \in job.presets \ unread :
                       /\ Cardinality(Named(pool, b.name)) = 1
                       /\ \E x \in Named(pool, b.name) : x.content # b.content}

Creations(A) == {Creation(b) : b \in A}
Updates(B) == {Update(b) : b \in B}

LEMMA PoolRead ==
  ASSUME ReadPool, ~Abort
  PROVE  \E unread \in SUBSET job.presets :
           /\ ops' = SetToSeq(Creations(Absent(unread))) \o SetToSeq(Updates(Outdated(unread)))
           /\ failed' = (unread # {} \/ \E b \in job.presets : Cardinality(Named(pool, b.name)) > 1)
BY DEF ReadPool, Absent, Outdated, Creations, Updates

LEMMA ReadPoolKeeps == ASSUME RestoreInv, ReadPool PROVE RestoreInv'
<1>1. CASE Abort
  BY <1>1, AbortKeeps DEF ReadPool, Working
<1>2. CASE ~Abort
  <2>1. /\ c.pc = "pool" /\ p' = [NoPlan EXCEPT !.live = pool] /\ Goto("setlist")
        /\ edited' = [plan |-> FALSE, look |-> FALSE]
        /\ UNCHANGED <<job, pool, refs, made>>
    BY <1>2 DEF ReadPool, Device, Goto
  <2>2. PICK A \in SUBSET job.presets, B \in SUBSET job.presets :
          ops' = SetToSeq({Creation(b) : b \in A}) \o SetToSeq({Update(b) : b \in B})
    <3>1. PICK unread \in SUBSET job.presets :
            ops' = SetToSeq(Creations(Absent(unread))) \o SetToSeq(Updates(Outdated(unread)))
      BY <1>2, PoolRead
    <3>2. Absent(unread) \in SUBSET job.presets /\ Outdated(unread) \in SUBSET job.presets
      BY DEF Absent, Outdated
    <3> QED BY <3>1, <3>2 DEF Creations, Updates
  <2>3. PICK S, T : S = {Creation(b) : b \in A} /\ T = {Update(b) : b \in B}
    OBVIOUS
  <2>4. IsFiniteSet(S) /\ IsFiniteSet(T)
        /\ \A o \in S \cup T : Planned(o) /\ o.op \in {"create", "update"}
    <3>1. IsFiniteSet(S) /\ IsFiniteSet(T)
      BY <2>3, FiniteJob
    <3>2. \A b \in job.presets : /\ Planned(Creation(b)) /\ Creation(b).op = "create"
                                 /\ Planned(Update(b)) /\ Update(b).op = "update"
      BY FiniteJob DEF Creation, Update, Op
    <3> QED BY <2>3, <3>1, <3>2
  <2>5. ops' \in Seq(S \cup T)
    <3>1. SetToSeq(S) \in Seq(S \cup T) /\ SetToSeq(T) \in Seq(S \cup T)
      BY <2>4, SetToSeqOps, SeqMonotonic
    <3> QED BY <2>2, <2>3, <3>1, ConcatProperties
  <2>6. ops' \in Seq(Ops') /\ Ops' \subseteq S \cup T
    BY <2>5, OwnElements DEF Ops
  <2>7. c' = [pc |-> "setlist", k |-> 1, cid |-> c.cid, src |-> c.src]
    BY <2>1, Went DEF RestoreInv, PlanInv
  <2>8. p'.live = pool' /\ Len(ops') \in Nat
    BY <2>1, <2>6, LenProperties DEF NoPlan
  <2>9. \A o \in Ops' : Planned(o)' /\ o.op \in {"create", "update"}
    BY <2>1, <2>4, <2>6 DEF Planned, Names
  <2>10. PlanInv'
    BY <2>6, <2>7, <2>8, <2>9 DEF PlanInv, Points, Working
  <2>11. SparedInv'
    BY <2>9 DEF SparedInv, Removed
  <2>12. MovesInv'
    BY <2>1, NoMoves DEF NoPlan
  <2> QED BY <2>1, <2>7, <2>10, <2>11, <2>12, PlanningKeeps DEF Device
<1> QED BY <1>1, <1>2
-----------------------------------------------------------------------------
(* Reading the setlist                                                     *)

Line(r) == [cid |-> r.cid, posi |-> r.posi, name |-> NameIn(p.live, r.rcid)]

LEMMA LiveFacts ==
  ASSUME DeviceInv
  PROVE  /\ IsFiniteSet(Live) /\ Live = {Line(r) : r \in refs}
         /\ \A x \in Live : x.cid \in 1..made /\ x.posi \in Positions /\ x = [cid |-> x.cid, posi |-> x.posi, name |-> x.name]
         /\ \A x, y \in Live : x.cid = y.cid \/ x.posi = y.posi => x = y
<1>1. Live = {Line(r) : r \in refs}
  BY DEF Live, Line
<1>2. IsFiniteSet(refs) /\ \A r \in refs : r.cid \in 1..made /\ r.posi \in Positions
  BY DEF DeviceInv, SoundDevice
<1>3. IsFiniteSet(Live)
  <2> DEFINE f == [r \in refs |-> Line(r)]
  <2>1. Live = {f[r] : r \in refs}
    BY <1>1
  <2> HIDE DEF f
  <2> QED BY <1>2, <2>1, FiniteImage
<1>4. \A r \in refs : Line(r) = [cid |-> r.cid, posi |-> r.posi, name |-> NameIn(p.live, r.rcid)]
  BY DEF Line
<1>5. \A x \in Live : x.cid \in 1..made /\ x.posi \in Positions /\ x = [cid |-> x.cid, posi |-> x.posi, name |-> x.name]
  BY <1>1, <1>2, <1>4
<1>6. \A r, s \in refs : r.cid = s.cid \/ r.posi = s.posi => r = s
  BY DEF DeviceInv, SoundDevice
<1>7. \A x, y \in Live : x.cid = y.cid \/ x.posi = y.posi => x = y
  BY <1>1, <1>4, <1>6
<1> QED BY <1>1, <1>3, <1>5, <1>7

LEMMA FirstPlace ==
  ASSUME NEW T, T # {}, \A x \in T : x.posi \in Positions
  PROVE  \E x \in T : \A y \in T : x.posi <= y.posi
<1>1. {x.posi : x \in T} \in SUBSET Nat /\ {x.posi : x \in T} # {}
  BY RestoreAssumption DEF Positions
<1>2. PICK n \in {x.posi : x \in T} : \A y \in {x.posi : x \in T} : n <= y
  BY <1>1, Minimum
<1> QED BY <1>2

LEMMA FirstRank ==
  ASSUME NEW T, NEW n, \A x \in T : x.posi \in Positions, \E x \in T : x.name = n
  PROVE  \E x \in T : x.name = n /\ Rank(x, T) = 0
<1>1. PICK x \in {y \in T : y.name = n} : \A y \in {y \in T : y.name = n} : x.posi <= y.posi
  <2> DEFINE S == {y \in T : y.name = n}
  <2>1. S # {} /\ \A y \in S : y.posi \in Positions
    OBVIOUS
  <2> HIDE DEF S
  <2>2. \E x \in S : \A y \in S : x.posi <= y.posi
    BY <2>1, FirstPlace
  <2> QED BY <2>2 DEF S
<1>2. {y \in T : y.name = x.name /\ y.posi < x.posi} = {}
  BY <1>1, RestoreAssumption DEF Positions
<1> QED BY <1>1, <1>2, FS_EmptySet DEF Rank

\* Of a name that is wanted, some reference stays or is moved.
LEMMA OneStays ==
  ASSUME DeviceInv, NEW name, NEW r \in Live, r.name = name, NEW d \in job.refs, d.name = name
  PROVE  \E s \in Live : s.name = name /\ s \notin Surplus
<1>1. ASSUME NEW e \in job.refs, e.name = name, e \notin Todo
      PROVE  \E s \in Live : s.name = name /\ s \notin Surplus
  BY <1>1 DEF Todo, InPlace, Surplus, Astray
<1>2. ASSUME d \in Todo, r \in Astray
      PROVE  \E s \in Live : s.name = name /\ s \notin Surplus
  <2>1. /\ \A x \in Todo : x.posi \in Positions
        /\ \A x \in Astray : x \in Live /\ x.posi \in Positions
    BY JobFacts, LiveFacts DEF Todo, Astray, DeviceInv
  <2>2. PICK e \in Todo : e.name = name /\ Rank(e, Todo) = 0
    BY <1>2, <2>1, FirstRank
  <2>3. PICK s \in Astray : s.name = name /\ Rank(s, Astray) = 0
    BY <1>2, <2>1, FirstRank
  <2>4. s \in Source(e)
    BY <2>2, <2>3 DEF Source
  <2> QED BY <2>1, <2>2, <2>3, <2>4 DEF Surplus
<1> QED BY <1>1, <1>2 DEF Surplus

\* The references of a name have different ranks.
LEMMA RankOne ==
  ASSUME NEW T, IsFiniteSet(T), \A x \in T : x.posi \in Positions,
         \A x, y \in T : x.posi = y.posi => x = y,
         NEW x \in T, NEW y \in T, x.name = y.name, Rank(x, T) = Rank(y, T)
  PROVE  x = y
<1> DEFINE S == {z \in T : z.name = x.name}
           f == [z \in S |-> z.posi]
<1>1. IsFiniteSet(S) /\ f \in [S -> Int] /\ x \in S /\ y \in S
  BY FS_Subset, RestoreAssumption DEF Positions
<1>2. \A z \in S : f[z] = z.posi /\ z \in T
  OBVIOUS
<1>3. \A a, b \in S : f[a] = f[b] => a = b
  BY <1>2
<1>4. \A z \in S : {w \in T : w.name = z.name /\ w.posi < z.posi} = Lower(f, S, z)
  BY DEF Lower
<1>5. Rank(x, T) = Cardinality(Lower(f, S, x)) /\ Rank(y, T) = Cardinality(Lower(f, S, y))
  BY <1>1, <1>4 DEF Rank
<1> HIDE DEF S, f
<1>6. \A a, b \in S : Cardinality(Lower(f, S, a)) = Cardinality(Lower(f, S, b)) => a = b
  BY <1>1, <1>3, Ranks
<1> QED BY <1>1, <1>5, <1>6

LEMMA Sources ==
  ASSUME DeviceInv
  PROVE  /\ IsFiniteSet(Todo) /\ IsFiniteSet(Astray)
         /\ \A d \in Todo : d \in job.refs /\ d.posi \in Positions
         /\ \A r \in Astray : r \in Live /\ r.posi \in Positions
         /\ \A d \in Todo : \A r, s \in Source(d) : r = s
         /\ \A d, e \in Todo : Source(d) \cap Source(e) # {} => d = e
<1>1. IsFiniteSet(Todo) /\ \A d \in Todo : d \in job.refs /\ d.posi \in Positions
  BY JobFacts, FS_Subset DEF Todo, DeviceInv
<1>2. IsFiniteSet(Astray) /\ \A r \in Astray : r \in Live /\ r.posi \in Positions
  BY LiveFacts, FS_Subset DEF Astray
<1>3. ASSUME NEW d \in Todo, NEW r \in Source(d), NEW s \in Source(d) PROVE r = s
  <2>1. r \in Astray /\ s \in Astray /\ r.name = s.name /\ Rank(r, Astray) = Rank(s, Astray)
    BY DEF Source
  <2>2. \A x, y \in Astray : x.posi = y.posi => x = y
    BY <1>2, LiveFacts
  <2> QED BY <1>2, <2>1, <2>2, RankOne
<1>4. ASSUME NEW d \in Todo, NEW e \in Todo, NEW r \in Source(d) \cap Source(e) PROVE d = e
  <2>1. d.name = e.name /\ Rank(d, Todo) = Rank(e, Todo)
    BY DEF Source
  <2>2. \A x, y \in Todo : x.posi = y.posi => x = y
    BY <1>1, JobFacts DEF DeviceInv
  <2> QED BY <1>1, <2>1, <2>2, RankOne
<1> QED BY <1>1, <1>2, <1>3, <1>4

\* The move to a place, and from where.
FirstMove(d) == [name |-> d.name, to |-> d.posi,
                 from |-> IF Source(d) = {} THEN None ELSE (CHOOSE r \in Source(d) : TRUE).posi]

LEMMA FirstMoves ==
  ASSUME DeviceInv, NEW d \in Todo
  PROVE  /\ FirstMove(d) = [name |-> d.name, to |-> d.posi, from |-> FirstMove(d).from]
         /\ FirstMove(d).name = d.name /\ FirstMove(d).to = d.posi
         /\ \A r \in Source(d) : FirstMove(d).from = r.posi
         /\ FirstMove(d).from # None => \E r \in Source(d) : r.posi = FirstMove(d).from
         /\ FirstMove(d).from \in Positions \cup {None}
<1>1. FirstMove(d) = [name |-> d.name, to |-> d.posi, from |-> FirstMove(d).from]
      /\ FirstMove(d).from = IF Source(d) = {} THEN None ELSE (CHOOSE r \in Source(d) : TRUE).posi
  BY DEF FirstMove
<1>2. ASSUME NEW r \in Source(d) PROVE (CHOOSE s \in Source(d) : TRUE) = r
  BY Sources
<1>3. \A r \in Source(d) : r.posi \in Positions
  BY Sources DEF Source
<1>4. FirstMove(d).name = d.name /\ FirstMove(d).to = d.posi
  BY DEF FirstMove
<1>5. CASE Source(d) = {}
  BY <1>1, <1>4, <1>5
<1>6. CASE Source(d) # {}
  <2>1. PICK r \in Source(d) : TRUE
    BY <1>6
  <2>2. FirstMove(d).from = r.posi
    BY <1>1, <1>2, <1>6, <2>1
  <2> QED BY <1>1, <1>2, <1>3, <1>4, <2>1, <2>2
<1> QED BY <1>5, <1>6

LEMMA MovesSet ==
  ASSUME NEW M, NEW O, NEW F, NEW live, p' = [live |-> live, moves |-> M, occupied |-> O, fixed |-> F]
  PROVE  /\ p'.live = live /\ p'.moves = M /\ p'.occupied = O /\ p'.fixed = F
         /\ p' = [live |-> p'.live, moves |-> p'.moves, occupied |-> p'.occupied, fixed |-> p'.fixed]
OBVIOUS

FirstMoved == {FirstMove(d) : d \in Todo}
FirstOccupied == {r.posi : r \in IF job.prune THEN Live \ Surplus ELSE Live}
FirstFixed == IF job.prune THEN {} ELSE {r.posi : r \in Surplus}

LEMMA MovesBegin ==
  ASSUME DeviceInv, job' = job,
         p' = [live |-> p.live, moves |-> FirstMoved, occupied |-> FirstOccupied, fixed |-> FirstFixed]
  PROVE  MovesInv'
<1> DEFINE M == FirstMoved
           O == FirstOccupied
           F == FirstFixed
<1> USE DEF FirstMoved, FirstOccupied, FirstFixed
<1>1. IsFiniteSet(M)
  <2> DEFINE f == [d \in Todo |-> FirstMove(d)]
  <2>1. M = {f[d] : d \in Todo}
    OBVIOUS
  <2> HIDE DEF f, M
  <2> QED BY <2>1, Sources, FiniteImage
<1>2. \A m \in M : /\ m = [name |-> m.name, to |-> m.to, from |-> m.from]
                   /\ m.to \in Positions /\ m.from \in Positions \cup {None}
                   /\ \E d \in job.refs : d.name = m.name /\ d.posi = m.to
  BY FirstMoves, Sources
<1>3. \A m, n \in M : m.to = n.to => m = n
  BY FirstMoves, Sources, JobFacts DEF DeviceInv
<1>4. ASSUME NEW m \in M, m.to \in O PROVE m.to \in F \/ \E n \in M : n.from = m.to
  <2>1. PICK d \in Todo : m = FirstMove(d)
    OBVIOUS
  <2>2. PICK r \in Live : r.posi = d.posi /\ (job.prune => r \notin Surplus)
    BY <1>4, <2>1, FirstMoves
  <2>3. r \in Astray
    BY <2>1, <2>2, JobFacts DEF Astray, InPlace, Todo, DeviceInv
  <2>4. CASE r \in Surplus
    BY <2>1, <2>2, <2>4, FirstMoves
  <2>5. CASE r \notin Surplus
    <3>1. PICK e \in Todo : r \in Source(e)
      BY <2>3, <2>5 DEF Surplus
    <3> QED BY <2>1, <2>2, <3>1, FirstMoves
  <2> QED BY <2>4, <2>5
<1> HIDE DEF FirstMoved, FirstOccupied, FirstFixed
<1>5. p' = [live |-> p.live, moves |-> M, occupied |-> O, fixed |-> F]
  OBVIOUS
<1> HIDE DEF M, O, F
<1>6. /\ p'.moves = M /\ p'.occupied = O /\ p'.fixed = F
      /\ p' = [live |-> p'.live, moves |-> p'.moves, occupied |-> p'.occupied, fixed |-> p'.fixed]
  BY <1>5, MovesSet
<1> QED BY <1>1, <1>2, <1>3, <1>4, <1>6 DEF MovesInv

\* The references that are removed.
RemovalOps == IF job.prune THEN {Removal(r) : r \in Surplus} ELSE {}
Removals == IF job.prune THEN SetToSeq({Removal(r) : r \in Surplus}) ELSE <<>>

LEMMA RemovalFacts ==
  ASSUME DeviceInv
  PROVE  /\ Removals \in Seq(RemovalOps) /\ ToSet(Removals) = RemovalOps
         /\ \A o \in RemovalOps : job.prune /\ \E r \in Surplus : o = Removal(r)
         /\ \A r \in Surplus : r \in Live /\ r.cid \in 1..made /\ r.posi \in Positions
<1> DEFINE R == {Removal(r) : r \in Surplus}
           f == [r \in Surplus |-> Removal(r)]
<1>1. IsFiniteSet(Surplus)
  BY LiveFacts, FS_Subset DEF Surplus, Astray
<1>2. R = {f[r] : r \in Surplus}
  OBVIOUS
<1> HIDE DEF f
<1>3. IsFiniteSet(R)
  BY <1>1, <1>2, FiniteImage
<1>4. Removals \in Seq(RemovalOps) /\ ToSet(Removals) = RemovalOps
  <2>1. CASE job.prune
    <3> HIDE DEF R
    <3>1. SetToSeq(R) \in Seq(R) /\ ToSet(SetToSeq(R)) = R
      BY <1>3, SetToSeqOps, SetToSeqAll
    <3> QED BY <2>1, <3>1 DEF Removals, RemovalOps, R
  <2>2. CASE ~job.prune
    BY <2>2 DEF Removals, RemovalOps, ToSet
  <2> QED BY <2>1, <2>2
<1>5. \A o \in RemovalOps : job.prune /\ \E r \in Surplus : o = Removal(r)
  BY DEF RemovalOps
<1>6. \A r \in Surplus : r \in Live /\ r.cid \in 1..made /\ r.posi \in Positions
  BY LiveFacts DEF Surplus, Astray
<1> QED BY <1>4, <1>5, <1>6

LEMMA ReadSetlistKeeps == ASSUME RestoreInv, ReadSetlist PROVE RestoreInv'
<1> USE DEF RestoreInv
<1>1. CASE Abort
  BY <1>1, AbortKeeps DEF ReadSetlist, Working
<1>2. CASE ~Abort
  <2>1. /\ c.pc = "setlist" /\ Goto("moves") /\ p'.live = p.live
        /\ UNCHANGED <<job, pool, refs, made, edited>>
        /\ \/ ops' = ops
           \/ ops' = ops \o Removals
    <3>1. p' = p \/ \E M, O, F : p' = [live |-> p.live, moves |-> M, occupied |-> O, fixed |-> F]
      BY <1>2, Zenon DEF ReadSetlist
    <3>2. p'.live = p.live
      BY <3>1
    <3> QED BY <1>2, <3>2 DEF ReadSetlist, Device, Panel, Removals
  <2>2. p.live = pool /\ c.k = 1 /\ (\A o \in Ops : o.op \in {"create", "update"})
        /\ c' = [pc |-> "moves", k |-> c.k, cid |-> c.cid, src |-> c.src]
    BY <2>1, Went DEF PlanInv
  <2>3. ops' \in Seq(Ops') /\ Ops' \subseteq Ops \cup RemovalOps
    <3>1. CASE ops' = ops
      BY <3>1 DEF Ops, PlanInv
    <3>2. CASE ops' = ops \o Removals
      BY <3>2, RemovalFacts, MorePlanned
    <3> QED BY <2>1, <3>1, <3>2
  <2>6. ASSUME NEW o \in Ops', o.op = "remove_ref" PROVE \E r \in Surplus : o.arg = r.cid
    <3>1. o \in RemovalOps
      BY <2>2, <2>3, <2>6
    <3>2. PICK r \in Surplus : o = Removal(r)
      BY <3>1, RemovalFacts
    <3> QED BY <3>2, Kinds
  <2>7. Len(ops') \in Nat
    BY <2>3, LenProperties
  <2>8. ASSUME NEW o \in Ops' PROVE Planned(o)'
    <3>1. CASE o \in Ops
      <4>1. Planned(o)
        BY <3>1 DEF PlanInv
      <4> QED BY <2>1, <4>1 DEF Planned, Names
    <3>2. CASE o \in RemovalOps
      <4>1. PICK r \in Surplus : o = Removal(r) /\ job.prune
        BY <3>2, RemovalFacts
      <4> QED BY <2>1, <4>1, RemovalFacts, Kinds DEF Planned
    <3> QED BY <2>3, <3>1, <3>2
  <2>9. PlanInv'
    BY <2>1, <2>2, <2>3, <2>7, <2>8 DEF PlanInv, Points, Working
  <2>10. SparedInv'
    <3> SUFFICES ASSUME NEW r \in refs, r.cid \in Removed', Wanted(NameIn(pool, r.rcid))
                 PROVE  \E s \in refs : s.cid \notin Removed' /\ NameIn(pool, s.rcid) = NameIn(pool, r.rcid)
      BY <2>1 DEF SparedInv, Wanted
    <3>1. PICK d \in job.refs : d.name = NameIn(pool, r.rcid)
      BY DEF Wanted
    <3>2. Line(r) \in Live /\ Line(r).name = NameIn(pool, r.rcid)
      BY <2>2, LiveFacts DEF Line
    <3>3. PICK x \in Live : x.name = NameIn(pool, r.rcid) /\ x \notin Surplus
      BY <3>1, <3>2, OneStays
    <3>4. PICK s \in refs : x = Line(s)
      BY LiveFacts
    <3>5. x.cid = s.cid /\ x.name = NameIn(pool, s.rcid)
      BY <2>2, <3>4 DEF Line
    <3>6. s.cid \notin Removed'
      <4>1. \A r1 \in Surplus : r1 \in Live /\ r1.cid # x.cid
        BY <3>3, LiveFacts DEF Surplus, Astray
      <4> QED BY <2>6, <3>5, <4>1 DEF Removed
    <3> QED BY <3>3, <3>5, <3>6
  <2>11. MovesInv'
    <3>1. CASE p' = p
      BY <2>1, <3>1, MovesStay
    <3>2. CASE p' # p
      <4>1. p' = [live |-> p.live, moves |-> FirstMoved, occupied |-> FirstOccupied, fixed |-> FirstFixed]
        BY <1>2, <3>2, Zenon DEF ReadSetlist, FirstMove, FirstMoved, FirstOccupied, FirstFixed
      <4> QED BY <2>1, <4>1, MovesBegin
    <3> QED BY <3>1, <3>2
  <2> QED BY <2>1, <2>2, <2>9, <2>10, <2>11, PlanningKeeps DEF Device, DeviceInv
<1> QED BY <1>1, <1>2
-----------------------------------------------------------------------------
(* Planning the moves                                                      *)

LEMMA ByTargetOrder ==
  ASSUME NEW M, IsFiniteSet(M), \A m \in M : m.to \in Positions, \A m, n \in M : m.to = n.to => m = n
  PROVE  /\ Cardinality(M) \in Nat
         /\ \A k \in 1..Cardinality(M) : ByTarget(M)[k] \in M
         /\ \A i, j \in 1..Cardinality(M) : ByTarget(M)[i] = ByTarget(M)[j] => i = j
         /\ \A m \in M : \E k \in 1..Cardinality(M) : ByTarget(M)[k] = m
<1> DEFINE f == [m \in M |-> m.to]
           q == ByTarget(M)
           rank(m) == Cardinality({x \in M : x.to < m.to})
<1>1. f \in [M -> Int] /\ \A x, y \in M : f[x] = f[y] => x = y
  BY RestoreAssumption DEF Positions
<1>2. \A m \in M : rank(m) = Cardinality(Lower(f, M, m))
  BY DEF Lower
<1>3. \A k \in 1..Cardinality(M) : q[k] = CHOOSE m \in M : rank(m) = k - 1
  BY DEF ByTarget
<1>4. DOMAIN q = 1..Cardinality(M)
  BY DEF ByTarget
<1> HIDE DEF rank, f, q
<1>5. Listing(f, M, q)
  BY <1>2, <1>3, <1>4 DEF Listing
<1>6. /\ Cardinality(M) \in Nat /\ \A k \in DOMAIN q : q[k] \in M
      /\ \A i, j \in DOMAIN q : q[i] = q[j] => i = j
      /\ \A x \in M : \E k \in DOMAIN q : q[k] = x
  BY <1>1, <1>5, Ranked
<1> QED BY <1>4, <1>6 DEF q

\* Operations on references are added to the plan.
LEMMA PlanGrows ==
  ASSUME RestoreInv, c.pc = "moves", UNCHANGED <<job, Device, Panel, c>>, p'.live = p.live, MovesInv',
         NEW q, NEW S, q \in Seq(S), ops' = ops \o q,
         \A o \in S : Planned(o) /\ o.op # "remove_ref"
  PROVE  RestoreInv'
<1>1. ops' \in Seq(Ops') /\ Ops' = Ops \cup ToSet(q) /\ Len(ops') \in Nat
  BY MorePlanned, LenProperties DEF RestoreInv
<1>2. ToSet(q) \subseteq S
  BY OwnElements
<1>3. ASSUME NEW o \in Ops' PROVE Planned(o)'
  <2>1. Planned(o)
    BY <1>1, <1>2 DEF RestoreInv, PlanInv
  <2> QED BY <2>1 DEF Planned, Names, Device
<1>4. PlanInv'
  BY <1>1, <1>3 DEF RestoreInv, PlanInv, Working, Device
<1>5. Removed' = Removed
  BY <1>1, <1>2 DEF Removed
<1>6. SparedInv'
  BY <1>5, SparedStays DEF Device, Panel
<1>7. edited' = edited /\ edited \in [plan : BOOLEAN, look : BOOLEAN] /\ (edited.look => edited.plan)
  BY DEF RestoreInv, DeviceInv, Panel
<1> QED BY <1>4, <1>6, <1>7, PlanningKeeps

LEMMA MoveFacts ==
  ASSUME RestoreInv, NEW m \in p.moves, NEW to \in Positions
  PROVE  Planned(Move(m, to)) /\ Move(m, to).op # "remove_ref"
BY DEF RestoreInv, MovesInv, Planned, Move, Op

\* The operations for the moves that are ready.
ReadyOps == [k \in 1..Cardinality(Ready) |-> LET m == ByTarget(Ready)[k] IN Move(m, m.to)]

LEMMA ReadyFacts ==
  ASSUME RestoreInv
  PROVE  /\ IsFiniteSet(Ready) /\ Cardinality(Ready) \in Nat
         /\ ReadyOps \in Seq(ToSet(ReadyOps)) /\ Len(ReadyOps) = Cardinality(Ready)
         /\ \A k \in 1..Cardinality(Ready) : ByTarget(Ready)[k] \in Ready
         /\ \A k \in 1..Cardinality(Ready) : ReadyOps[k] = Move(ByTarget(Ready)[k], ByTarget(Ready)[k].to)
         /\ \A o \in ToSet(ReadyOps) : \E m \in Ready : o = Move(m, m.to)
<1> DEFINE n == Cardinality(Ready)
           q == ReadyOps
<1>1. /\ Ready \subseteq p.moves /\ IsFiniteSet(p.moves) /\ IsFiniteSet(Ready)
      /\ \A m \in p.moves : m.to \in Positions
      /\ \A x, y \in p.moves : x.to = y.to => x = y
  BY FS_Subset DEF RestoreInv, MovesInv, Ready
<1>2. n \in Nat /\ \A k \in 1..n : ByTarget(Ready)[k] \in Ready
  BY <1>1, ByTargetOrder
<1>3. /\ DOMAIN q = 1..n /\ q = [k \in 1..n |-> q[k]]
      /\ \A k \in 1..n : q[k] = Move(ByTarget(Ready)[k], ByTarget(Ready)[k].to)
  BY DEF ReadyOps
<1> HIDE DEF q, n
<1>4. q \in Seq({q[k] : k \in 1..n}) /\ ToSet(q) = {q[k] : k \in 1..n}
  BY <1>2, <1>3, FunctionIsSeq
<1>5. Len(q) = n
  BY <1>2, <1>3, <1>4, LenProperties
<1>6. \A o \in ToSet(q) : \E m \in Ready : o = Move(m, m.to)
  BY <1>2, <1>3, <1>4
<1> QED BY <1>1, <1>2, <1>3, <1>4, <1>5, <1>6 DEF n, q

LEMMA PlanReadyKeeps == ASSUME RestoreInv, PlanReady PROVE RestoreInv'
<1> DEFINE S == ToSet(ReadyOps)
<1>1. /\ Ready \subseteq p.moves /\ IsFiniteSet(p.moves) /\ IsFiniteSet(Ready)
      /\ \A m \in p.moves : m.to \in Positions
      /\ \A x, y \in p.moves : x.to = y.to => x = y
  BY FS_Subset DEF RestoreInv, MovesInv, Ready
<1>3. ops' = ops \o ReadyOps
  BY DEF PlanReady, ReadyOps
<1>4. ReadyOps \in Seq(S)
  BY ReadyFacts
<1>5. \A o \in S : Planned(o) /\ o.op # "remove_ref"
  BY <1>1, ReadyFacts, MoveFacts
<1> HIDE DEF S
<1>6. /\ c.pc = "moves" /\ UNCHANGED <<job, Device, Panel, c>>
      /\ p' = [p EXCEPT !.moves = @ \ Ready,
                        !.occupied = (@ \ {m.from : m \in Ready}) \cup {m.to : m \in Ready}]
  BY DEF PlanReady, Planning
<1>7. p' = [live |-> p.live, moves |-> p.moves \ Ready,
            occupied |-> (p.occupied \ {m.from : m \in Ready}) \cup {m.to : m \in Ready}, fixed |-> p.fixed]
  BY <1>6 DEF RestoreInv, MovesInv
<1>8. MovesInv'
  <2>1. /\ p'.moves = p.moves \ Ready /\ p'.fixed = p.fixed
        /\ p'.occupied = (p.occupied \ {m.from : m \in Ready}) \cup {m.to : m \in Ready}
        /\ p' = [live |-> p'.live, moves |-> p'.moves, occupied |-> p'.occupied, fixed |-> p'.fixed]
    BY <1>7, MovesSet
  <2>2. IsFiniteSet(p'.moves)
    BY <1>1, <2>1, FS_Subset
  <2>3. ASSUME NEW m \in p'.moves, m.to \in p'.occupied
        PROVE  m.to \in p'.fixed \/ \E x \in p'.moves : x.from = m.to
    <3>1. m \in p.moves /\ m \notin Ready /\ m.to \in p.occupied
      BY <2>1, <2>3 DEF Ready
    <3>2. m.to \notin {x.from : x \in Ready}
      BY <1>1, <2>1, <2>3, <3>1
    <3> QED BY <2>1, <3>1, <3>2 DEF RestoreInv, MovesInv
  <2> QED BY <1>6, <2>1, <2>2, <2>3 DEF RestoreInv, MovesInv
<1>9. p'.live = p.live
  BY <1>7
<1> QED BY <1>3, <1>4, <1>5, <1>6, <1>8, <1>9, PlanGrows

LEMMA PlanSame ==
  ASSUME RestoreInv, c.pc = "moves", UNCHANGED <<job, Device, Panel, c>>, p'.live = p.live, MovesInv', ops' = ops
  PROVE  RestoreInv'
<1> DEFINE q == <<>>
           S == {}
<1>1. q \in Seq(S) /\ ops' = ops \o q
  BY DEF RestoreInv, PlanInv
<1>2. \A o \in S : Planned(o) /\ o.op # "remove_ref"
  OBVIOUS
<1> HIDE DEF q, S
<1> QED BY <1>1, <1>2, PlanGrows

LEMMA PlanOne ==
  ASSUME RestoreInv, c.pc = "moves", UNCHANGED <<job, Device, Panel, c>>, p'.live = p.live, MovesInv',
         NEW o, ops' = Append(ops, o), Planned(o), o.op # "remove_ref"
  PROVE  RestoreInv'
<1> DEFINE q == <<o>>
           S == {o}
<1>1. ops \in Seq(Ops \cup S) /\ o \in Ops \cup S
  BY SeqMonotonic DEF RestoreInv, PlanInv
<1>2. Append(ops, o) = ops \o <<o>>
  BY <1>1, AppendIsConcat
<1>3. q \in Seq(S) /\ ops' = ops \o q
  BY <1>2
<1>4. \A x \in S : Planned(x) /\ x.op # "remove_ref"
  OBVIOUS
<1> HIDE DEF q, S
<1> QED BY <1>3, <1>4, PlanGrows

LEMMA BlockedKeeps == ASSUME RestoreInv, PlanBlocked PROVE RestoreInv'
<1>1. /\ c.pc = "moves" /\ UNCHANGED <<job, Device, Panel, c, ops>>
      /\ p' = [p EXCEPT !.moves = @ \ Blocked,
                        !.fixed = @ \cup ({m.from : m \in Blocked} \ {None})]
  BY DEF PlanBlocked, Planning
<1>2. p' = [live |-> p.live, moves |-> p.moves \ Blocked, occupied |-> p.occupied,
            fixed |-> p.fixed \cup ({m.from : m \in Blocked} \ {None})]
  BY <1>1 DEF RestoreInv, MovesInv
<1>3. /\ p'.live = p.live /\ p'.moves = p.moves \ Blocked /\ p'.occupied = p.occupied
      /\ p'.fixed = p.fixed \cup ({m.from : m \in Blocked} \ {None})
      /\ p' = [live |-> p'.live, moves |-> p'.moves, occupied |-> p'.occupied, fixed |-> p'.fixed]
  BY <1>2, MovesSet
<1>4. MovesInv'
  <2>1. IsFiniteSet(p'.moves)
    BY <1>3, FS_Subset DEF RestoreInv, MovesInv
  <2>2. ASSUME NEW m \in p'.moves, m.to \in p'.occupied
        PROVE  m.to \in p'.fixed \/ \E x \in p'.moves : x.from = m.to
    <3>1. m \in p.moves /\ m.to \in p.occupied /\ m.to # None
      BY <1>3, <2>2, RestoreAssumption DEF RestoreInv, MovesInv, Positions, None
    <3>2. m.to \in p.fixed \/ \E x \in p.moves : x.from = m.to
      BY <3>1 DEF RestoreInv, MovesInv
    <3> QED BY <1>3, <3>1, <3>2
  <2> QED BY <1>1, <1>3, <2>1, <2>2 DEF RestoreInv, MovesInv
<1> QED BY <1>1, <1>3, <1>4, PlanSame

\* When no target is free, and none is blocked, some reference can be parked.
Movers == {m \in p.moves : m.from # None}
Parked == CHOOSE x \in Movers : \A y \in Movers : x.to <= y.to
Spot == CHOOSE s \in Free : \A u \in Free : s <= u

LEMMA SomeMover ==
  ASSUME RestoreInv, PlanPark
  PROVE  Movers # {} /\ Parked \in Movers
<1>1. PICK m \in p.moves : TRUE
  BY DEF PlanPark, Planning
<1>2. m.to \in p.occupied /\ m.to \notin p.fixed
  BY DEF PlanPark, Ready, Blocked
<1>3. PICK o \in p.moves : o.from = m.to
  BY <1>2 DEF RestoreInv, MovesInv
<1>4. m.to # None
  BY RestoreAssumption DEF RestoreInv, MovesInv, Positions, None
<1>5. Movers # {}
  BY <1>3, <1>4 DEF Movers
<1>6. {x.to : x \in Movers} \in SUBSET Nat /\ {x.to : x \in Movers} # {}
  BY <1>5, RestoreAssumption DEF RestoreInv, MovesInv, Movers, Positions
<1>7. PICK n \in {x.to : x \in Movers} : \A y \in {x.to : x \in Movers} : n <= y
  BY <1>6, Minimum
<1>8. \E x \in Movers : \A y \in Movers : x.to <= y.to
  BY <1>7
<1> QED BY <1>5, <1>8 DEF Parked

LEMMA SomeSpot ==
  ASSUME Free # {}
  PROVE  Spot \in Free /\ Spot \in Positions
<1>1. Free \in SUBSET Nat
  BY RestoreAssumption DEF Free, Positions
<1>2. \E s \in Free : \A u \in Free : s <= u
  BY <1>1, Minimum
<1> QED BY <1>2 DEF Spot, Free

LEMMA ParkFacts ==
  ASSUME RestoreInv, PlanPark
  PROVE  /\ c.pc = "moves" /\ UNCHANGED <<job, Device, Panel, c>>
         /\ Free = {} => p' = [p EXCEPT !.moves = {}] /\ ops' = ops /\ failed'
         /\ Free # {} => /\ ops' = Append(ops, Move(Parked, Spot)) /\ failed' = failed
                         /\ p' = [p EXCEPT !.moves = (@ \ {Parked}) \cup {[Parked EXCEPT !.from = Spot]},
                                           !.occupied = (@ \ {Parked.from}) \cup {Spot}]
BY DEF PlanPark, Planning, Movers, Parked, Spot

LEMMA PlanParkKeeps == ASSUME RestoreInv, PlanPark PROVE RestoreInv'
<1>1. c.pc = "moves" /\ UNCHANGED <<job, Device, Panel, c>>
  BY ParkFacts
<1>2. CASE Free = {}
  <2>1. p' = [live |-> p.live, moves |-> {}, occupied |-> p.occupied, fixed |-> p.fixed] /\ ops' = ops
    BY <1>2, ParkFacts DEF RestoreInv, MovesInv
  <2>2. p'.live = p.live /\ p'.moves = {}
    BY <2>1
  <2>3. MovesInv'
    BY <2>1, <2>2, NoMoves
  <2> QED BY <1>1, <2>1, <2>2, <2>3, PlanSame
<1>3. CASE Free # {}
  <2> DEFINE n == [name |-> Parked.name, to |-> Parked.to, from |-> Spot]
  <2>1. Parked \in Movers /\ Parked \in p.moves /\ Spot \in Free /\ Spot \in Positions
        /\ Parked = [name |-> Parked.name, to |-> Parked.to, from |-> Parked.from]
    BY <1>3, SomeMover, SomeSpot DEF Movers, RestoreInv, MovesInv
  <2>2. [Parked EXCEPT !.from = Spot] = n
    BY <2>1
  <2>3. p' = [live |-> p.live, moves |-> (p.moves \ {Parked}) \cup {n},
              occupied |-> (p.occupied \ {Parked.from}) \cup {Spot}, fixed |-> p.fixed]
    <3>1. p = [live |-> p.live, moves |-> p.moves, occupied |-> p.occupied, fixed |-> p.fixed]
      BY DEF RestoreInv, MovesInv
    <3>2. p' = [p EXCEPT !.moves = (@ \ {Parked}) \cup {n}, !.occupied = (@ \ {Parked.from}) \cup {Spot}]
      BY <1>3, <2>2, ParkFacts, Zenon
    <3> HIDE DEF n
    <3> QED BY <3>1, <3>2
  <2>4. n.name = Parked.name /\ n.to = Parked.to /\ n.from = Spot /\ n = [name |-> n.name, to |-> n.to, from |-> n.from]
    OBVIOUS
  <2> HIDE DEF n
  <2>5. /\ p'.live = p.live /\ p'.moves = (p.moves \ {Parked}) \cup {n} /\ p'.fixed = p.fixed
        /\ p'.occupied = (p.occupied \ {Parked.from}) \cup {Spot}
        /\ p' = [live |-> p'.live, moves |-> p'.moves, occupied |-> p'.occupied, fixed |-> p'.fixed]
    BY <2>3, MovesSet
  <2>6. MovesInv'
    <3>1. IsFiniteSet(p'.moves)
      <4>1. IsFiniteSet(p.moves \ {Parked})
        BY FS_Subset DEF RestoreInv, MovesInv
      <4> QED BY <2>5, <4>1, FS_AddElement
    <3>2. \A m \in p'.moves : \E o \in p.moves : m.to = o.to /\ m.name = o.name /\ (m = n => o = Parked) /\ (m # n => o = m)
      BY <2>1, <2>4, <2>5
    <3>3. \A m, o \in p'.moves : m.to = o.to => m = o
      BY <2>1, <2>4, <2>5 DEF RestoreInv, MovesInv
    <3>4. ASSUME NEW m \in p'.moves
          PROVE  /\ m = [name |-> m.name, to |-> m.to, from |-> m.from]
                 /\ m.to \in Positions /\ m.from \in Positions \cup {None}
                 /\ \E d \in job.refs : d.name = m.name /\ d.posi = m.to
      BY <2>1, <2>4, <2>5, <3>2 DEF RestoreInv, MovesInv
    <3>5. ASSUME NEW m \in p'.moves, m.to \in p'.occupied
          PROVE  m.to \in p'.fixed \/ \E x \in p'.moves : x.from = m.to
      <4>1. m.to # Spot
        BY <2>1, <3>2 DEF Free
      <4>2. m.to \in p.occupied /\ m.to # Parked.from
        BY <2>5, <3>5, <4>1
      <4>3. m.to \in p.fixed \/ \E x \in p.moves : x.from = m.to
        BY <3>2, <4>2 DEF RestoreInv, MovesInv
      <4> QED BY <2>5, <4>2, <4>3
    <3> QED BY <1>1, <2>5, <3>1, <3>3, <3>4, <3>5 DEF MovesInv
  <2>7. Planned(Move(Parked, Spot)) /\ Move(Parked, Spot).op # "remove_ref"
    BY <2>1, MoveFacts
  <2>8. ops' = Append(ops, Move(Parked, Spot))
    BY <1>3, ParkFacts
  <2> QED BY <1>1, <2>5, <2>6, <2>7, <2>8, PlanOne
<1> QED BY <1>2, <1>3

\* The presets that are deleted.
Deletion(x) == Op("delete_pool", x.name, None, None, x.cid)
Gone == {x \in p.live : Named(job.presets, x.name) = {}}
DeletionOps == IF job.prune THEN {Deletion(x) : x \in Gone} ELSE {}
Deletions == IF job.prune THEN SetToSeq({Deletion(x) : x \in Gone}) ELSE <<>>

LEMMA DeletionFacts ==
  ASSUME DeviceInv, p.live = pool
  PROVE  /\ Deletions \in Seq(DeletionOps) /\ ToSet(Deletions) = DeletionOps
         /\ \A o \in DeletionOps : job.prune /\ \E x \in Gone : o = Deletion(x)
         /\ \A x : Deletion(x).op = "delete_pool" /\ Deletion(x).name = x.name /\ Deletion(x).pos = None
         /\ \A x \in Gone : x.name \notin Names
<1> DEFINE R == {Deletion(x) : x \in Gone}
           f == [x \in Gone |-> Deletion(x)]
<1>1. IsFiniteSet(Gone)
  BY FS_Subset DEF Gone, DeviceInv, SoundDevice
<1>2. R = {f[x] : x \in Gone}
  OBVIOUS
<1> HIDE DEF f
<1>3. IsFiniteSet(R)
  BY <1>1, <1>2, FiniteImage
<1>4. Deletions \in Seq(DeletionOps) /\ ToSet(Deletions) = DeletionOps
  <2>1. CASE job.prune
    <3> HIDE DEF R
    <3>1. SetToSeq(R) \in Seq(R) /\ ToSet(SetToSeq(R)) = R
      BY <1>3, SetToSeqOps, SetToSeqAll
    <3> QED BY <2>1, <3>1 DEF Deletions, DeletionOps, R
  <2>2. CASE ~job.prune
    BY <2>2 DEF Deletions, DeletionOps, ToSet
  <2> QED BY <2>1, <2>2
<1>5. \A o \in DeletionOps : job.prune /\ \E x \in Gone : o = Deletion(x)
  BY DEF DeletionOps
<1>6. \A x : Deletion(x).op = "delete_pool" /\ Deletion(x).name = x.name /\ Deletion(x).pos = None
  BY DEF Deletion, Op
<1>7. \A x \in Gone : x.name \notin Names
  BY DEF Gone, Names, Named
<1> QED BY <1>4, <1>5, <1>6, <1>7

LEMMA PlanEndKeeps == ASSUME RestoreInv, PlanEnd PROVE RestoreInv'
<1>1. /\ c.pc = "moves" /\ UNCHANGED <<job, Device, Panel>> /\ p' = NoPlan /\ ops' = ops \o Deletions
      /\ c' = [c EXCEPT !.pc = IF ops' = <<>> THEN "done" ELSE "apply"]
  BY DEF PlanEnd, Deletions, Deletion, Gone
<1>2. p.live = pool /\ c.k = 1 /\ ops \in Seq(Ops)
  BY <1>1 DEF RestoreInv, PlanInv
<1>3. \A o \in DeletionOps : Planned(o)' /\ o.op = "delete_pool"
  BY <1>1, <1>2, DeletionFacts DEF RestoreInv, Planned, Names
<1>5. ops' \in Seq(Ops') /\ Ops' = Ops \cup ToSet(Deletions) /\ Len(ops') \in Nat
  BY <1>1, <1>2, DeletionFacts, MorePlanned, LenProperties DEF RestoreInv
<1>6. ToSet(Deletions) = DeletionOps
  BY <1>2, DeletionFacts DEF RestoreInv
<1>7. ASSUME NEW o \in Ops' PROVE Planned(o)'
  <2>1. CASE o \in Ops
    <3>1. Planned(o)
      BY <2>1 DEF RestoreInv, PlanInv
    <3> QED BY <1>1, <3>1 DEF Planned, Names, Device
  <2> QED BY <1>3, <1>5, <1>6, <2>1
<1>8. c' = [pc |-> IF ops' = <<>> THEN "done" ELSE "apply", k |-> 1, cid |-> c.cid, src |-> c.src]
  BY <1>1, <1>2 DEF RestoreInv, PlanInv
<1>9. ops' # <<>> => 1 \in DOMAIN ops'
  BY <1>5, EmptySeq, LenProperties
<1>10. PlanInv'
  <2>1. c'.pc \in {"done", "apply"} /\ c'.k = 1 /\ (c'.pc = "apply" => ops' # <<>>)
        /\ c' = [pc |-> c'.pc, k |-> c'.k, cid |-> c'.cid, src |-> c'.src]
    BY <1>8
  <2>2. c'.k \in 1..(Len(ops') + 1)
    BY <1>5, <2>1
  <2> QED BY <1>5, <1>7, <1>9, <2>1, <2>2 DEF PlanInv, Points, Working
<1>11. Removed' = Removed
  BY <1>3, <1>5, <1>6 DEF Removed
<1>12. SparedInv' /\ MovesInv'
  BY <1>1, <1>11, SparedStays, NoMoves DEF Device, Panel, NoPlan
<1>13. edited' = edited /\ edited \in [plan : BOOLEAN, look : BOOLEAN] /\ (edited.look => edited.plan)
  BY <1>1 DEF RestoreInv, DeviceInv, Panel
<1> QED BY <1>1, <1>8, <1>10, <1>12, <1>13, PlanningKeeps
-----------------------------------------------------------------------------
(* Carrying the plan out                                                   *)

\* The same preset has a cid, or none has.
LEMMA SameName ==
  ASSUME NEW A, NEW B, NEW cid,
         \A x, y \in A : x.cid = y.cid => x = y, \A x, y \in B : x.cid = y.cid => x = y,
         \A x \in A : x.cid = cid => \E y \in B : y.cid = cid /\ y.name = x.name,
         \A y \in B : y.cid = cid => \E x \in A : x.cid = cid
  PROVE  NameIn(A, cid) = NameIn(B, cid)
<1>1. CASE \E x \in A : x.cid = cid
  <2>1. PICK x \in A : x.cid = cid
    BY <1>1
  <2>2. PICK y \in B : y.cid = cid /\ y.name = x.name
    BY <2>1
  <2> QED BY <2>1, <2>2, NameFound
<1>2. CASE ~\E x \in A : x.cid = cid
  <2>1. NameIn(A, cid) = NoName /\ NameIn(B, cid) = NoName
    BY <1>2, NameLost
  <2> QED BY <2>1
<1> QED BY <1>1, <1>2

\* Wanted presets keep their names.
LEMMA SparedRenamed ==
  ASSUME RestoreInv, refs' = refs, ops' = ops, job' = job, edited' = edited,
         \A cid : NameIn(pool, cid) \in Names \/ NameIn(pool', cid) \in Names => NameIn(pool', cid) = NameIn(pool, cid)
  PROVE  SparedInv'
<1> SUFFICES ASSUME ~edited.plan, NEW r \in refs, r.cid \in Removed, Wanted(NameIn(pool', r.rcid))
             PROVE  \E s \in refs : s.cid \notin Removed /\ NameIn(pool', s.rcid) = NameIn(pool', r.rcid)
  BY DEF SparedInv, Wanted, Removed, Ops
<1>1. NameIn(pool', r.rcid) \in Names
  BY JobFacts DEF RestoreInv, DeviceInv
<1>2. NameIn(pool', r.rcid) = NameIn(pool, r.rcid)
  BY <1>1
<1>3. PICK s \in refs : s.cid \notin Removed /\ NameIn(pool, s.rcid) = NameIn(pool, r.rcid)
  BY <1>2 DEF RestoreInv, SparedInv
<1> QED BY <1>1, <1>2, <1>3

LEMMA EditedEnds == ASSUME RestoreInv, edited' = edited
                    PROVE  edited' \in [plan : BOOLEAN, look : BOOLEAN] /\ (edited'.look => edited'.plan)
BY DEF RestoreInv, DeviceInv

\* The operation has failed, or has ended and changed nothing.
LEMMA Unchanged ==
  ASSUME RestoreInv, Working, NEW ok, End(ok), UNCHANGED <<pool, refs, made, edited>>
  PROVE  RestoreInv'
<1>1. job' = job /\ ops' = ops
  BY DEF End
<1>2. Removed' = Removed
  BY <1>1 DEF Removed, Ops
<1>3. SparedInv'
  BY <1>1, <1>2, SparedStays
<1>4. DeviceInv'
  BY <1>1 DEF RestoreInv, DeviceInv
<1>5. made \in Nat /\ made <= made'
  BY DEF RestoreInv, DeviceInv, SoundDevice
<1> QED BY <1>3, <1>4, <1>5, EndKeeps

\* A look at the device that ends the operation.
LEMMA LookEnds ==
  ASSUME RestoreInv, Working, NEW ok, End(ok), UNCHANGED <<pool, refs, made>>, Looked
  PROVE  RestoreInv'
<1>1. job' = job /\ ops' = ops
  BY DEF End
<1>2. Removed' = Removed
  BY <1>1 DEF Removed, Ops
<1>3. edited' \in [plan : BOOLEAN, look : BOOLEAN] /\ edited'.plan = edited.plan /\ ~edited'.look
  BY DEF RestoreInv, DeviceInv, Looked
<1>4. SparedInv'
  BY <1>1, <1>2, <1>3, SparedStays
<1>5. DeviceInv'
  BY <1>1, <1>3 DEF RestoreInv, DeviceInv
<1>6. made \in Nat /\ made <= made'
  BY DEF RestoreInv, DeviceInv, SoundDevice
<1> QED BY <1>4, <1>5, <1>6, EndKeeps

\* No reference is to a preset that is new.
LEMMA NewPreset ==
  ASSUME RestoreInv, DeviceInv', refs' = refs, pool \subseteq pool', \A y \in pool' : y \in pool \/ y.cid = made + 1
  PROVE  \A r \in refs : NameIn(pool', r.rcid) = NameIn(pool, r.rcid)
<1> TAKE r \in refs
<1>1. r.rcid \in 1..made /\ made \in Nat
  BY DEF RestoreInv, DeviceInv, SoundDevice
<1>2. /\ \A x, y \in pool : x.cid = y.cid => x = y
      /\ \A x, y \in pool' : x.cid = y.cid => x = y
  BY DEF RestoreInv, DeviceInv, SoundDevice
<1>3. \A y \in pool' : y.cid = r.rcid => y \in pool
  BY <1>1
<1> QED BY <1>2, <1>3, SameName

LEMMA CreateKeeps == ASSUME RestoreInv, Create PROVE RestoreInv'
<1>1. Working /\ Now.op = "create" /\ UNCHANGED <<refs, edited>>
  BY DEF Create, Doing, Working
<1>2. CASE End(FALSE) /\ UNCHANGED <<pool, made>>
  BY <1>1, <1>2, Unchanged
<1>3. CASE ~(End(FALSE) /\ UNCHANGED <<pool, made>>)
  <2>1. PICK content, ok : /\ pool' = pool \cup {[cid |-> made + 1, name |-> Now.name, content |-> content]}
                           /\ made' = made + 1 /\ End(ok)
    BY <1>3 DEF Create
  <2> DEFINE n == [cid |-> made + 1, name |-> Now.name, content |-> content]
  <2>2. n.cid = made + 1 /\ n.name = Now.name /\ n = [cid |-> n.cid, name |-> n.name, content |-> n.content]
    OBVIOUS
  <2>3. pool' = pool \cup {n}
    BY <2>1
  <2> HIDE DEF n
  <2>4. Planned(Now) /\ job' = job /\ ops' = ops
    BY <1>1, <2>1, Next1 DEF RestoreInv
  <2>5. Now.name # NoName
    BY <1>1, <2>4, JobsAssumption DEF Planned, RestoreInv, DeviceInv, Creation, Op
  <2>6. made \in Nat /\ IsFiniteSet(pool) /\ \A x \in pool : x.cid \in 1..made
    BY DEF RestoreInv, DeviceInv, SoundDevice
  <2>7. SoundDevice(pool', refs', made')
    <3>1. IsFiniteSet(pool')
      BY <2>3, <2>6, FS_AddElement
    <3> QED BY <1>1, <2>1, <2>2, <2>3, <2>5, <2>6, <3>1 DEF RestoreInv, DeviceInv, SoundDevice
  <2>8. DeviceInv'
    BY <1>1, <2>4, <2>7 DEF RestoreInv, DeviceInv
  <2>9. SparedInv'
    <3>1. \A r \in refs : NameIn(pool', r.rcid) = NameIn(pool, r.rcid)
      BY <1>1, <2>2, <2>3, <2>8, NewPreset
    <3> QED BY <1>1, <2>4, <3>1 DEF RestoreInv, SparedInv, Wanted, Removed, Ops
  <2> QED BY <1>1, <2>1, <2>6, <2>8, <2>9, EndKeeps
<1> QED BY <1>2, <1>3

\* A preset whose content is written keeps its name.
Stored(name, content) == {IF x.name = name THEN [x EXCEPT !.content = content] ELSE x : x \in pool}

LEMMA Rewritten ==
  ASSUME SoundDevice(pool, refs, made), NEW name, NEW content, pool' = Stored(name, content)
  PROVE  /\ SoundDevice(pool', refs, made)
         /\ \A cid : NameIn(pool', cid) = NameIn(pool, cid)
<1> DEFINE f == [x \in pool |-> IF x.name = name THEN [x EXCEPT !.content = content] ELSE x]
<1>1. pool' = {f[x] : x \in pool}
  BY DEF Stored
<1>2. \A x \in pool : x = [cid |-> x.cid, name |-> x.name, content |-> x.content]
  BY DEF SoundDevice
<1>3. \A x \in pool : /\ f[x].cid = x.cid /\ f[x].name = x.name
                      /\ f[x] = [cid |-> f[x].cid, name |-> f[x].name, content |-> f[x].content]
  BY <1>2
<1> HIDE DEF f
<1>4. (\A x \in pool : f[x] \in pool') /\ (\A y \in pool' : \E x \in pool : y = f[x])
  BY <1>1
<1>5. IsFiniteSet(pool')
  BY <1>1, FiniteImage DEF SoundDevice
<1>6. ASSUME NEW y \in pool'
      PROVE  y = [cid |-> y.cid, name |-> y.name, content |-> y.content] /\ y.cid \in 1..made /\ y.name # NoName
  <2>1. PICK x \in pool : y = f[x]
    BY <1>4
  <2> QED BY <1>3, <2>1 DEF SoundDevice
<1>7. ASSUME NEW y \in pool', NEW z \in pool', y.cid = z.cid PROVE y = z
  <2>1. PICK x \in pool : y = f[x]
    BY <1>4
  <2>2. PICK w \in pool : z = f[w]
    BY <1>4
  <2>3. x.cid = w.cid
    BY <1>3, <1>7, <2>1, <2>2
  <2>4. x = w
    BY <2>3 DEF SoundDevice
  <2> QED BY <2>1, <2>2, <2>4
<1>8. SoundDevice(pool', refs, made)
  BY <1>5, <1>6, <1>7 DEF SoundDevice
<1>9. ASSUME NEW cid PROVE NameIn(pool', cid) = NameIn(pool, cid)
  <2>1. \A x, y \in pool : x.cid = y.cid => x = y
    BY DEF SoundDevice
  <2>2. ASSUME NEW x \in pool, x.cid = cid PROVE \E y \in pool' : y.cid = cid /\ y.name = x.name
    <3>1. f[x] \in pool' /\ f[x].cid = cid /\ f[x].name = x.name
      BY <1>3, <1>4, <2>2
    <3> QED BY <3>1
  <2>3. ASSUME NEW y \in pool', y.cid = cid PROVE \E x \in pool : x.cid = cid
    <3>1. PICK x \in pool : y = f[x]
      BY <1>4
    <3>2. x.cid = cid
      BY <1>3, <2>3, <3>1
    <3> QED BY <3>2
  <2> QED BY <1>7, <2>1, <2>2, <2>3, SameName
<1> QED BY <1>8, <1>9

LEMMA UpdateKeeps == ASSUME RestoreInv, UpdateContent PROVE RestoreInv'
<1>1. Working /\ Now.op = "update" /\ UNCHANGED <<refs, made, edited>>
  BY DEF UpdateContent, Doing, Working
<1>2. CASE End(FALSE) /\ UNCHANGED pool
  BY <1>1, <1>2, Unchanged
<1>3. CASE ~(End(FALSE) /\ UNCHANGED pool)
  <2>1. PICK ok : pool' = Stored(Now.name, Now.arg) /\ End(ok)
    BY <1>3 DEF UpdateContent, Stored
  <2>2. SoundDevice(pool', refs, made) /\ \A cid : NameIn(pool', cid) = NameIn(pool, cid)
    BY <2>1, Rewritten DEF RestoreInv, DeviceInv
  <2>3. job' = job /\ ops' = ops
    BY <2>1 DEF End
  <2>4. DeviceInv'
    BY <1>1, <2>2, <2>3 DEF RestoreInv, DeviceInv
  <2>5. SparedInv'
    BY <1>1, <2>2, <2>3, SparedRenamed
  <2>6. made \in Nat
    BY DEF RestoreInv, DeviceInv, SoundDevice
  <2> QED BY <1>1, <2>1, <2>4, <2>5, <2>6, EndKeeps
<1> QED BY <1>2, <1>3

\* The presets that are left keep their names.
LEMMA OthersNamed ==
  ASSUME SoundDevice(pool, refs, made), NEW name, pool' = pool \ Named(pool, name), NEW cid,
         NameIn(pool, cid) # name
  PROVE  NameIn(pool', cid) = NameIn(pool, cid)
<1>1. /\ \A x, y \in pool : x.cid = y.cid => x = y
      /\ \A x, y \in pool' : x.cid = y.cid => x = y
  BY DEF SoundDevice, Named
<1>2. \A x \in pool : x.cid = cid => x.name # name
  BY <1>1, NameFound
<1> QED BY <1>1, <1>2, SameName DEF Named

LEMMA DeleteKeeps == ASSUME RestoreInv, DeletePool PROVE RestoreInv'
<1>1. Working /\ Now.op = "delete_pool" /\ UNCHANGED <<refs, made, edited>>
  BY DEF DeletePool, Doing, Working
<1>2. CASE UNCHANGED pool /\ End(FALSE)
  BY <1>1, <1>2, Unchanged
<1>3. CASE ~(UNCHANGED pool /\ End(FALSE))
  <2>1. PICK ok : pool' = pool \ Named(pool, Now.name) /\ End(ok)
    BY <1>3 DEF DeletePool
  <2>2. Planned(Now) /\ job' = job /\ ops' = ops
    BY <1>1, <2>1, Next1 DEF RestoreInv
  <2>3. SoundDevice(pool', refs', made')
    <3>1. pool' \subseteq pool /\ IsFiniteSet(pool')
      BY <2>1, FS_Subset DEF RestoreInv, DeviceInv, SoundDevice
    <3> QED BY <1>1, <3>1 DEF RestoreInv, DeviceInv, SoundDevice
  <2>4. DeviceInv'
    BY <1>1, <2>2, <2>3 DEF RestoreInv, DeviceInv
  <2>5. ASSUME NEW cid, NameIn(pool, cid) \in Names \/ NameIn(pool', cid) \in Names
        PROVE  NameIn(pool', cid) = NameIn(pool, cid)
    <3>1. CASE NameIn(pool, cid) = Now.name
      <4>1. NameIn(pool', cid) \in Names /\ Now.name \notin Names
        BY <1>1, <2>2, <2>5, <3>1 DEF Planned
      <4>2. NameIn(pool', cid) # NoName
        BY <4>1, JobFacts DEF RestoreInv, DeviceInv
      <4>3. PICK x \in pool' : x.cid = cid /\ NameIn(pool', cid) = x.name
        BY <4>2, NameOwner
      <4>4. x \in pool
        BY <2>1
      <4> QED BY <4>3, <4>4, Named1 DEF RestoreInv, DeviceInv
    <3>2. CASE NameIn(pool, cid) # Now.name
      BY <2>1, <3>2, OthersNamed DEF RestoreInv, DeviceInv
    <3> QED BY <3>1, <3>2
  <2>6. SparedInv'
    BY <1>1, <2>2, <2>5, SparedRenamed
  <2>7. made \in Nat
    BY DEF RestoreInv, DeviceInv, SoundDevice
  <2> QED BY <1>1, <2>1, <2>4, <2>6, <2>7, EndKeeps
<1> QED BY <1>2, <1>3

\* The operation goes on.
LEMMA GoesOn ==
  ASSUME RestoreInv, Working, UNCHANGED <<job, ops, p>>, made \in Nat, made' \in Nat, made <= made',
         c' = [pc |-> c'.pc, k |-> c.k, cid |-> c'.cid, src |-> c'.src], c'.pc \in {"apply", "add", "verify", "drop"}
  PROVE  PlanInv' /\ MovesInv' /\ Ops' = Ops /\ Removed' = Removed /\ Now' = Now
<1>1. c'.k = c.k /\ c' = [pc |-> c'.pc, k |-> c'.k, cid |-> c'.cid, src |-> c'.src]
  <2> HIDE DEF Working
  <2> QED OBVIOUS
<1>2. Ops' = Ops /\ Removed' = Removed /\ Now' = Now
  BY <1>1 DEF Ops, Removed, Now
<1>3. ASSUME NEW o \in Ops PROVE Planned(o)'
  <2>1. Planned(o)
    BY DEF RestoreInv, PlanInv
  <2> QED BY <2>1 DEF Planned, Names
<1>4. PlanInv'
  BY <1>1, <1>2, <1>3 DEF RestoreInv, PlanInv, Working, Points
<1>5. MovesInv'
  BY MovesStay DEF RestoreInv
<1> QED BY <1>2, <1>4, <1>5

LEMMA MadeNat == ASSUME RestoreInv PROVE made \in Nat
BY DEF RestoreInv, DeviceInv, SoundDevice

LEMMA LookedFacts ==
  ASSUME RestoreInv, Looked, UNCHANGED <<pool, refs, made, job>>
  PROVE  DeviceInv' /\ edited'.plan = edited.plan /\ ~edited'.look
<1>1. edited' \in [plan : BOOLEAN, look : BOOLEAN] /\ edited'.plan = edited.plan /\ ~edited'.look
  BY DEF RestoreInv, DeviceInv, Looked
<1> QED BY <1>1 DEF RestoreInv, DeviceInv

LEMMA LookKeeps == ASSUME RestoreInv, Look PROVE RestoreInv'
<1>1. Working /\ c.pc = "apply" /\ Moving /\ Looked /\ UNCHANGED <<pool, refs, made>>
  BY DEF Look, Doing, Working, Device, Moving
<1>2. CASE End(FALSE)
  BY <1>1, <1>2, LookEnds
<1>3. CASE ~End(FALSE)
  <2>1. PICK x \in Named(pool, Now.name), r \in refs \cup {[cid |-> 0]} :
          /\ IF Now.op = "reference" THEN r.cid = 0 ELSE r.cid # 0 /\ r.posi = Now.from /\ r.rcid = x.cid
          /\ At(refs, Now.pos) = {}
          /\ c' = [c EXCEPT !.pc = "add", !.cid = x.cid, !.src = r.cid]
          /\ UNCHANGED <<job, ops, p>>
    BY <1>3 DEF Look
  <2>2. c' = [pc |-> "add", k |-> c.k, cid |-> x.cid, src |-> r.cid]
    BY <2>1, Found DEF RestoreInv
  <2>3. /\ c'.pc = "add" /\ c'.cid = x.cid /\ c'.src = r.cid
        /\ c' = [pc |-> c'.pc, k |-> c.k, cid |-> c'.cid, src |-> c'.src]
    BY <2>2
  <2>4. DeviceInv' /\ edited'.plan = edited.plan /\ ~edited'.look
    BY <1>1, <2>1, LookedFacts
  <2>5. PlanInv' /\ MovesInv' /\ Removed' = Removed /\ Now' = Now
    BY <1>1, <2>1, <2>3, GoesOn, MadeNat
  <2>6. SparedInv'
    BY <1>1, <2>1, <2>4, <2>5, SparedStays
  <2>7. x \in pool /\ x.name = Now.name /\ x.cid \in 1..made /\ NameIn(pool, x.cid) = Now.name
    BY Named1 DEF Named, RestoreInv, DeviceInv, SoundDevice
  <2>8. /\ r.cid \in 0..made /\ (Now.op = "move_ref" <=> r.cid # 0)
        /\ \A s \in refs : s.cid = r.cid => s.rcid = x.cid
    <3>1. \A s \in refs : s.cid \in 1..made
      BY DEF RestoreInv, DeviceInv, SoundDevice
    <3>2. CASE Now.op = "reference"
      BY <2>1, <3>1, <3>2, MadeNat
    <3>3. CASE Now.op = "move_ref"
      <4>1. r \in refs
        BY <2>1, <3>3
      <4>2. \A s \in refs : s.cid = r.cid => s = r
        BY <4>1 DEF RestoreInv, DeviceInv, SoundDevice
      <4> QED BY <2>1, <3>1, <3>3, <4>1, <4>2
    <3> QED BY <1>1, <3>2, <3>3 DEF Moving
  <2>9. MidwayInv' /\ TargetInv'
    BY <1>1, <2>1, <2>3, <2>4, <2>5, <2>7, <2>8 DEF MidwayInv, TargetInv, Moving
  <2> QED BY <2>4, <2>5, <2>6, <2>9 DEF RestoreInv
<1> QED BY <1>2, <1>3

LEMMA AddKeeps == ASSUME RestoreInv, Add PROVE RestoreInv'
<1>1. /\ Working /\ c.pc = "add" /\ Goto("verify") /\ UNCHANGED <<job, pool, edited, ops, p>>
      /\ Moving /\ Now.pos \in Positions
  <2>1. c.pc = "add" /\ Working /\ Moving
    BY DEF Add, Working, RestoreInv, MidwayInv
  <2>2. Now \in Ops
    BY <2>1 DEF RestoreInv, PlanInv, Now, Ops, ToSet
  <2>3. Planned(Now)
    BY <2>2 DEF RestoreInv, PlanInv
  <2> QED BY <2>1, <2>3 DEF Add, Panel, Planned, Moving
<1>2. c' = [pc |-> "verify", k |-> c.k, cid |-> c.cid, src |-> c.src]
  BY <1>1, Went DEF RestoreInv
<1>3. /\ c'.pc = "verify" /\ c'.cid = c.cid /\ c'.src = c.src
      /\ c' = [pc |-> c'.pc, k |-> c.k, cid |-> c'.cid, src |-> c'.src]
  BY <1>2
<1>4. /\ c.cid \in 1..made /\ NameIn(pool, c.cid) = Now.name
      /\ c.src \in 0..made /\ (Now.op = "move_ref" <=> c.src # 0)
      /\ \A r \in refs : r.cid = c.src => r.rcid = c.cid
  BY <1>1 DEF RestoreInv, MidwayInv
<1>5. edited.look \/ At(refs, Now.pos) = {}
  BY <1>1 DEF RestoreInv, TargetInv
<1>6. CASE UNCHANGED <<refs, made>>
  <2>1. PlanInv' /\ MovesInv' /\ Removed' = Removed /\ Now' = Now
    BY <1>1, <1>3, <1>6, GoesOn, MadeNat
  <2>2. SparedInv'
    BY <1>1, <1>6, <2>1, SparedStays
  <2>3. DeviceInv'
    BY <1>1, <1>6 DEF RestoreInv, DeviceInv
  <2>4. MidwayInv' /\ TargetInv'
    BY <1>1, <1>3, <1>4, <1>5, <1>6, <2>1 DEF MidwayInv, TargetInv, Moving
  <2> QED BY <2>1, <2>2, <2>3, <2>4 DEF RestoreInv
<1>7. CASE ~UNCHANGED <<refs, made>>
  <2> DEFINE n == [cid |-> made + 1, posi |-> Now.pos, rcid |-> c.cid]
  <2>1. refs' = (refs \ At(refs, Now.pos)) \cup {n} /\ made' = made + 1
    BY <1>7 DEF Add
  <2>2. n.cid = made + 1 /\ n.posi = Now.pos /\ n.rcid = c.cid /\ n = [cid |-> n.cid, posi |-> n.posi, rcid |-> n.rcid]
    OBVIOUS
  <2> HIDE DEF n
  <2>3. made \in Nat /\ made' \in Nat /\ made <= made' /\ \A r \in refs : r.cid \in 1..made
    BY <2>1, MadeNat DEF RestoreInv, DeviceInv, SoundDevice
  <2>4. PlanInv' /\ MovesInv' /\ Removed' = Removed /\ Now' = Now
    BY <1>1, <1>3, <2>3, GoesOn
  <2>5. Removed \subseteq 1..made
    BY DEF RestoreInv, PlanInv, Planned, Removed
  <2>6. DeviceInv'
    <3>1. IsFiniteSet(refs')
      <4>1. IsFiniteSet(refs \ At(refs, Now.pos))
        BY FS_Subset DEF RestoreInv, DeviceInv, SoundDevice
      <4> QED BY <2>1, <4>1, FS_AddElement
    <3>2. \A r \in refs' : r = n \/ (r \in refs /\ r.posi # Now.pos)
      BY <2>1 DEF At
    <3>3. SoundDevice(pool', refs', made')
      BY <1>1, <1>4, <2>1, <2>2, <2>3, <3>1, <3>2 DEF RestoreInv, DeviceInv, SoundDevice
    <3> QED BY <1>1, <3>3 DEF RestoreInv, DeviceInv
  <2>7. SparedInv'
    <3>1. ~edited.plan => refs' = refs \cup {n}
      BY <1>5, <2>1 DEF RestoreInv, DeviceInv
    <3>2. n.cid \notin Removed
      BY <2>2, <2>3, <2>5
    <3> QED BY <1>1, <2>4, <3>1, <3>2 DEF RestoreInv, SparedInv, Wanted
  <2>8. MidwayInv'
    <3>1. \A r \in refs' : r.cid = c.src => r.rcid = c.cid
      BY <1>4, <2>1, <2>2
    <3> QED BY <1>1, <1>3, <1>4, <2>1, <2>3, <2>4, <3>1 DEF MidwayInv, Moving
  <2>9. TargetInv'
    <3>1. \A r \in At(refs', Now.pos) : r.cid \notin Removed
      BY <2>1, <2>2, <2>3, <2>5 DEF At
    <3> QED BY <1>3, <2>4, <3>1 DEF TargetInv, Moving
  <2> QED BY <2>4, <2>6, <2>7, <2>8, <2>9 DEF RestoreInv
<1> QED BY <1>6, <1>7

LEMMA VerifyKeeps == ASSUME RestoreInv, Verify PROVE RestoreInv'
<1>1. Working /\ c.pc = "verify" /\ Moving /\ UNCHANGED <<pool, refs, made, edited>>
  BY DEF Verify, Working, Device, RestoreInv, MidwayInv
<1>2. CASE \E ok \in BOOLEAN : End(ok)
  BY <1>1, <1>2, Unchanged
<1>3. CASE ~\E ok \in BOOLEAN : End(ok)
  <2>1. /\ \E r \in refs : r.posi = Now.pos /\ r.rcid = c.cid /\ r.cid # c.src
        /\ c.src # 0 /\ Goto("drop") /\ UNCHANGED <<job, ops, p>>
    BY <1>3 DEF Verify
  <2>2. c' = [pc |-> "drop", k |-> c.k, cid |-> c.cid, src |-> c.src]
    BY <2>1, Went DEF RestoreInv
  <2>3. /\ c'.pc = "drop" /\ c'.cid = c.cid /\ c'.src = c.src
        /\ c' = [pc |-> c'.pc, k |-> c.k, cid |-> c'.cid, src |-> c'.src]
    BY <2>2
  <2>4. PlanInv' /\ MovesInv' /\ Removed' = Removed /\ Now' = Now
    BY <1>1, <2>1, <2>3, GoesOn, MadeNat
  <2>5. SparedInv'
    BY <1>1, <2>1, <2>4, SparedStays
  <2>6. DeviceInv'
    BY <1>1, <2>1 DEF RestoreInv, DeviceInv
  <2>7. /\ c.cid \in 1..made /\ NameIn(pool, c.cid) = Now.name
        /\ c.src \in 0..made /\ (Now.op = "move_ref" <=> c.src # 0)
        /\ \A r \in refs : r.cid = c.src => r.rcid = c.cid
        /\ edited.look \/ \A r \in At(refs, Now.pos) : r.cid \notin Removed
    BY <1>1 DEF RestoreInv, MidwayInv, TargetInv
  <2>8. MidwayInv' /\ TargetInv'
    BY <1>1, <2>1, <2>3, <2>4, <2>7 DEF MidwayInv, TargetInv, Moving, At
  <2> QED BY <2>4, <2>5, <2>6, <2>8 DEF RestoreInv
<1> QED BY <1>2, <1>3

LEMMA DropKeeps == ASSUME RestoreInv, Drop PROVE RestoreInv'
<1>1. Working /\ c.pc = "drop" /\ UNCHANGED <<pool, made, edited>>
  BY DEF Drop, Working
<1>2. CASE UNCHANGED refs /\ End(FALSE)
  BY <1>1, <1>2, Unchanged
<1>3. CASE ~(UNCHANGED refs /\ End(FALSE))
  <2>1. PICK ok : refs' = {r \in refs : r.cid # c.src} /\ End(ok)
    BY <1>3 DEF Drop
  <2>2. job' = job /\ ops' = ops /\ Removed' = Removed
    BY <2>1 DEF End, Removed, Ops
  <2>3. DeviceInv'
    <3>1. refs' \subseteq refs /\ IsFiniteSet(refs')
      BY <2>1, FS_Subset DEF RestoreInv, DeviceInv, SoundDevice
    <3> QED BY <1>1, <2>2, <3>1 DEF RestoreInv, DeviceInv, SoundDevice
  <2>4. SparedInv'
    <3> SUFFICES ASSUME ~edited.plan, NEW r \in refs', r.cid \in Removed, Wanted(NameIn(pool, r.rcid))
                 PROVE  \E s \in refs' : s.cid \notin Removed /\ NameIn(pool, s.rcid) = NameIn(pool, r.rcid)
      BY <1>1, <2>2 DEF SparedInv, Wanted
    <3>1. PICK s \in refs : s.cid \notin Removed /\ NameIn(pool, s.rcid) = NameIn(pool, r.rcid)
      BY <2>1 DEF RestoreInv, SparedInv
    <3>2. CASE s.cid # c.src
      BY <2>1, <3>1, <3>2
    <3>3. CASE s.cid = c.src
      <4>1. Now \in Ops
        BY <1>1 DEF RestoreInv, PlanInv, Now, Ops, ToSet
      <4>2. Now.op # "remove_ref"
        BY <1>1, <3>1, <3>3, <4>1 DEF RestoreInv, MidwayInv, Removed
      <4>3. Moving
        BY <1>1, <4>2 DEF RestoreInv, MidwayInv, Moving
      <4>4. s.rcid = c.cid
        BY <1>1, <3>3, <4>3 DEF RestoreInv, MidwayInv
      <4>5. ~edited.look
        BY DEF RestoreInv, DeviceInv
      <4>6. PICK d \in At(refs, Now.pos) : d.rcid = c.cid /\ d.cid # c.src /\ d.cid \notin Removed
        BY <1>1, <4>3, <4>5 DEF RestoreInv, TargetInv
      <4> QED BY <2>1, <3>1, <4>4, <4>6 DEF At
    <3> QED BY <3>2, <3>3
  <2> QED BY <1>1, <2>1, <2>3, <2>4, EndKeeps, MadeNat
<1> QED BY <1>2, <1>3

LEMMA LookRemovedKeeps == ASSUME RestoreInv, LookRemoved PROVE RestoreInv'
<1>1. Working /\ c.pc = "apply" /\ Now.op = "remove_ref" /\ Looked /\ UNCHANGED <<pool, refs, made>>
  BY DEF LookRemoved, Doing, Working, Device
<1>2. CASE End(FALSE)
  BY <1>1, <1>2, LookEnds
<1>3. CASE ~End(FALSE)
  <2>1. PICK r \in refs : /\ r.cid = Now.arg /\ c' = [c EXCEPT !.pc = "drop", !.src = r.cid]
                          /\ UNCHANGED <<job, ops, p>>
    BY <1>3 DEF LookRemoved
  <2>2. /\ c'.pc = "drop" /\ c'.src = r.cid
        /\ c' = [pc |-> c'.pc, k |-> c.k, cid |-> c'.cid, src |-> c'.src]
    BY <2>1 DEF RestoreInv, PlanInv
  <2>3. DeviceInv' /\ edited'.plan = edited.plan /\ ~edited'.look
    BY <1>1, <2>1, LookedFacts
  <2>4. PlanInv' /\ MovesInv' /\ Removed' = Removed /\ Now' = Now
    BY <1>1, <2>1, <2>2, GoesOn, MadeNat
  <2>5. SparedInv'
    BY <1>1, <2>1, <2>3, <2>4, SparedStays
  <2>6. MidwayInv' /\ TargetInv'
    BY <1>1, <2>1, <2>2, <2>4 DEF MidwayInv, TargetInv, Moving
  <2> QED BY <2>3, <2>4, <2>5, <2>6 DEF RestoreInv
<1> QED BY <1>2, <1>3

LEMMA PanelKeeps == ASSUME RestoreInv, PanelEdit PROVE RestoreInv'
<1>1. /\ UNCHANGED <<job, pool, ops, p, c>> /\ edited' = [plan |-> TRUE, look |-> TRUE]
      /\ made \in Nat /\ \A r \in refs : r.cid \in 1..made
  BY MadeNat DEF PanelEdit, RestoreInv, DeviceInv, SoundDevice
<1>2. edited'.plan /\ edited'.look /\ edited' \in [plan : BOOLEAN, look : BOOLEAN]
  BY <1>1
<1>3. /\ SoundDevice(pool, refs', made') /\ made' \in Nat /\ made <= made'
      /\ \A r \in refs' : r \in refs \/ r.cid = made + 1
  <2>1. CASE \E r \in refs : refs' = refs \ {r} /\ UNCHANGED made
    <3>1. refs' \subseteq refs /\ IsFiniteSet(refs') /\ made' = made
      BY <2>1, FS_Subset DEF RestoreInv, DeviceInv, SoundDevice
    <3> QED BY <1>1, <3>1 DEF RestoreInv, DeviceInv, SoundDevice
  <2>2. CASE ~\E r \in refs : refs' = refs \ {r} /\ UNCHANGED made
    <3>1. PICK x \in pool, pos \in Positions :
            /\ At(refs, pos) = {} /\ made' = made + 1
            /\ refs' = refs \cup {[cid |-> made + 1, posi |-> pos, rcid |-> x.cid]}
      BY <2>2 DEF PanelEdit
    <3> DEFINE n == [cid |-> made + 1, posi |-> pos, rcid |-> x.cid]
    <3>2. n.cid = made + 1 /\ n.posi = pos /\ n.rcid = x.cid /\ n = [cid |-> n.cid, posi |-> n.posi, rcid |-> n.rcid]
      OBVIOUS
    <3>3. refs' = refs \cup {n}
      BY <3>1
    <3> HIDE DEF n
    <3>4. IsFiniteSet(refs') /\ x.cid \in 1..made
      BY <3>3, FS_AddElement DEF RestoreInv, DeviceInv, SoundDevice
    <3> QED BY <1>1, <3>1, <3>2, <3>3, <3>4 DEF RestoreInv, DeviceInv, SoundDevice, At
  <2> QED BY <2>1, <2>2
<1>4. DeviceInv'
  BY <1>1, <1>2, <1>3 DEF RestoreInv, DeviceInv
<1>5. Ops' = Ops /\ Now' = Now
  BY <1>1 DEF Ops, Now
<1>6. ASSUME NEW o \in Ops PROVE Planned(o)'
  <2>1. Planned(o)
    BY DEF RestoreInv, PlanInv
  <2> QED BY <1>1, <1>3, <2>1 DEF Planned, Names
<1>7. PlanInv'
  BY <1>1, <1>5, <1>6 DEF RestoreInv, PlanInv, Working
<1>8. MidwayInv'
  <2>1. ASSUME c.src \in 0..made, NEW r \in refs', r.cid = c.src PROVE r \in refs
    BY <1>1, <1>3, <2>1
  <2> QED BY <1>1, <1>3, <1>5, <2>1 DEF RestoreInv, MidwayInv, Moving
<1>9. MovesInv'
  BY <1>1, MovesStay DEF RestoreInv
<1>10. SparedInv' /\ TargetInv'
  BY <1>2 DEF SparedInv, TargetInv
<1> QED BY <1>4, <1>7, <1>8, <1>9, <1>10 DEF RestoreInv

LEMMA AgainKeeps == ASSUME RestoreInv, Again PROVE RestoreInv'
<1>1. /\ UNCHANGED <<job, pool, refs, made>> /\ ops' = <<>> /\ p' = NoPlan /\ c' = Fresh
      /\ edited' = [plan |-> FALSE, look |-> FALSE]
  BY DEF Again, Device
<1>2. Ops' = {} /\ Len(ops') = 0 /\ ops' \in Seq(Ops')
  BY <1>1 DEF Ops, ToSet
<1>3. PlanInv'
  BY <1>1, <1>2 DEF PlanInv, Fresh, Points, Working
<1>4. MovesInv'
  BY <1>1, NoMoves DEF NoPlan
<1>5. SparedInv'
  BY <1>2 DEF SparedInv, Removed
<1>6. c'.pc = "pool" /\ edited'.look = FALSE /\ edited' \in [plan : BOOLEAN, look : BOOLEAN]
  BY <1>1 DEF Fresh
<1> QED BY <1>1, <1>3, <1>4, <1>5, <1>6, PlanningKeeps DEF Device

\* What is on the device stays sound, and the plan fit to be carried out,
\* whatever fails and whatever is edited.
THEOREM RestoreInvariance == Spec => []RestoreInv
<1>1. Init => RestoreInv
  BY InitKeeps
<1>2. RestoreInv /\ [Next]_vars => RestoreInv'
  <2> SUFFICES ASSUME RestoreInv, [Next]_vars PROVE RestoreInv'
    OBVIOUS
  <2>1. CASE ReadPool
    BY <2>1, ReadPoolKeeps
  <2>2. CASE ReadSetlist
    BY <2>2, ReadSetlistKeeps
  <2>3. CASE PlanReady
    BY <2>3, PlanReadyKeeps
  <2>4. CASE PlanBlocked
    BY <2>4, BlockedKeeps
  <2>5. CASE PlanPark
    BY <2>5, PlanParkKeeps
  <2>6. CASE PlanEnd
    BY <2>6, PlanEndKeeps
  <2>7. CASE Create
    BY <2>7, CreateKeeps
  <2>8. CASE UpdateContent
    BY <2>8, UpdateKeeps
  <2>9. CASE Look
    BY <2>9, LookKeeps
  <2>10. CASE Add
    BY <2>10, AddKeeps
  <2>11. CASE Verify
    BY <2>11, VerifyKeeps
  <2>12. CASE Drop
    BY <2>12, DropKeeps
  <2>13. CASE LookRemoved
    BY <2>13, LookRemovedKeeps
  <2>14. CASE DeletePool
    BY <2>14, DeleteKeeps
  <2>15. CASE PanelEdit
    BY <2>15, PanelKeeps
  <2>16. CASE Again
    BY <2>16, AgainKeeps
  <2>17. CASE UNCHANGED vars
    <3>1. UNCHANGED <<job, pool, refs, made, edited, ops, p, c>>
      BY <2>17 DEF vars
    <3>2. Ops' = Ops /\ Removed' = Removed /\ Now' = Now
      BY <3>1 DEF Ops, Removed, Now
    <3>3. DeviceInv'
      BY <3>1 DEF RestoreInv, DeviceInv
    <3>4. \A o \in Ops : Planned(o)'
      BY <3>1 DEF RestoreInv, PlanInv, Planned, Names
    <3>5. PlanInv'
      BY <3>1, <3>2, <3>4 DEF RestoreInv, PlanInv, Working
    <3>6. MovesInv' /\ SparedInv'
      BY <3>1, <3>2, MovesStay, SparedStays DEF RestoreInv
    <3>7. MidwayInv' /\ TargetInv'
      BY <3>1, <3>2 DEF RestoreInv, MidwayInv, TargetInv, Moving
    <3> QED BY <3>3, <3>5, <3>6, <3>7 DEF RestoreInv
  <2> QED BY <2>1, <2>2, <2>3, <2>4, <2>5, <2>6, <2>7, <2>8, <2>9, <2>10, <2>11, <2>12, <2>13, <2>14,
             <2>15, <2>16, <2>17 DEF Next, Step
<1> QED BY <1>1, <1>2, PTL DEF Spec

\* Cids and positions are taken once, and the plan stays inside the setlist.
THEOREM Typing == Spec => []TypeOK
<1>1. ASSUME RestoreInv PROVE TypeOK
  <2>1. \A k \in DOMAIN ops : ops[k] \in Ops
    BY DEF Ops, ToSet
  <2>2. \A k \in DOMAIN ops : ops[k].pos \in Positions \cup {None}
    BY <1>1, <2>1 DEF RestoreInv, PlanInv, Planned
  <2>3. p.moves \subseteq [name : {b.name : b \in job.refs}, to : Positions, from : Positions \cup {None}]
    BY <1>1 DEF RestoreInv, MovesInv
  <2> QED BY <1>1, <2>2, <2>3 DEF RestoreInv, DeviceInv, PlanInv, TypeOK
<1>2. RestoreInv => TypeOK
  BY <1>1
<1> QED BY <1>2, RestoreInvariance, PTL
-----------------------------------------------------------------------------
(* Nothing is lost                                                         *)

Counted == edits \in Nat

LEMMA Counting == Spec => []Counted
<1>1. Init => Counted
  BY DEF Init, Counted
<1>2. Counted /\ [Next]_vars => Counted'
  <2>1. ReadPool \/ ReadSetlist \/ PlanReady \/ PlanBlocked \/ PlanPark \/ PlanEnd => edits' = edits
    BY DEF Panel, ReadPool, Abort, ReadSetlist, PlanReady, PlanBlocked, PlanPark, PlanEnd
  <2>2. Create \/ UpdateContent \/ Drop \/ DeletePool \/ Verify => edits' = edits
    BY DEF Create, UpdateContent, Drop, DeletePool, Verify, End
  <2>3. Look \/ Add \/ LookRemoved \/ Again => edits' = edits
    BY DEF Look, Add, LookRemoved, Again, End, Panel
  <2>4. PanelEdit => edits' = edits + 1
    BY DEF PanelEdit
  <2>5. UNCHANGED vars => edits' = edits
    BY DEF vars
  <2> QED BY <2>1, <2>2, <2>3, <2>4, <2>5 DEF Next, Step, Counted
<1> QED BY <1>1, <1>2, PTL DEF Spec

\* A step of the command.
LEMMA StepLosesNothing ==
  ASSUME RestoreInv, DeviceInv', Step, ~edited.look, c.pc = "drop" /\ Now.op = "remove_ref" => ~edited.plan,
         NEW name, name # NoName, Listed(name, pool, refs), job.prune => Wanted(name)
  PROVE  Listed(name, pool', refs')
<1>1. PICK r \in refs : NameIn(pool, r.rcid) = name
  BY DEF Listed
<1>2. CASE UNCHANGED <<pool, refs>>
  BY <1>1, <1>2 DEF Listed
<1>3. CASE ReadPool \/ ReadSetlist \/ PlanReady \/ PlanBlocked \/ PlanPark \/ PlanEnd
  BY <1>2, <1>3 DEF ReadPool, Abort, ReadSetlist, PlanReady, PlanBlocked, PlanPark, PlanEnd, Device
<1>4. CASE Create
  <2>1. CASE UNCHANGED pool
    BY <1>2, <1>4, <2>1 DEF Create
  <2>2. CASE ~UNCHANGED pool
    <3>1. PICK content : /\ pool' = pool \cup {[cid |-> made + 1, name |-> Now.name, content |-> content]}
                         /\ refs' = refs
      BY <1>4, <2>2 DEF Create
    <3>2. \A y \in pool' : y \in pool \/ y.cid = made + 1
      BY <3>1
    <3>3. NameIn(pool', r.rcid) = name
      BY <1>1, <3>1, <3>2, NewPreset
    <3> QED BY <3>1, <3>3 DEF Listed
  <2> QED BY <2>1, <2>2
<1>5. CASE UpdateContent
  <2>1. CASE UNCHANGED pool
    BY <1>2, <1>5, <2>1 DEF UpdateContent
  <2>2. CASE ~UNCHANGED pool
    <3>1. pool' = Stored(Now.name, Now.arg) /\ refs' = refs
      BY <1>5, <2>2 DEF UpdateContent, Stored
    <3>2. NameIn(pool', r.rcid) = name
      BY <1>1, <3>1, Rewritten DEF RestoreInv, DeviceInv
    <3> QED BY <3>1, <3>2 DEF Listed
  <2> QED BY <2>1, <2>2
<1>6. CASE Look \/ Verify \/ LookRemoved
  BY <1>2, <1>6 DEF Look, Verify, LookRemoved, Device
<1>7. CASE Add
  <2>1. Moving /\ c.pc = "add"
    BY <1>7 DEF Add, RestoreInv, MidwayInv
  <2>2. At(refs, Now.pos) = {}
    BY <2>1 DEF RestoreInv, TargetInv
  <2>3. pool' = pool /\ refs \subseteq refs'
    BY <1>7, <2>2 DEF Add
  <2> QED BY <1>1, <2>3 DEF Listed
<1>8. CASE Drop
  <2>1. c.pc = "drop" /\ pool' = pool /\ (refs' = refs \/ refs' = {s \in refs : s.cid # c.src})
    BY <1>8 DEF Drop
  <2>2. CASE refs' = refs \/ r.cid # c.src
    BY <1>1, <2>1, <2>2 DEF Listed
  <2>3. CASE Moving /\ refs' # refs /\ r.cid = c.src
    <3>1. r.rcid = c.cid
      BY <2>1, <2>3 DEF RestoreInv, MidwayInv
    <3>2. PICK s \in At(refs, Now.pos) : s.rcid = c.cid /\ s.cid # c.src
      BY <2>1, <2>3 DEF RestoreInv, TargetInv
    <3> QED BY <1>1, <2>1, <2>3, <3>1, <3>2 DEF Listed, At
  <2>4. CASE ~Moving /\ refs' # refs /\ r.cid = c.src
    <3>1. Now.op = "remove_ref" /\ c.src = Now.arg /\ Now \in Ops
      BY <2>1, <2>4 DEF RestoreInv, MidwayInv, PlanInv, Moving, Working, Ops, ToSet, Now
    <3>2. job.prune /\ r.cid \in Removed
      BY <2>4, <3>1 DEF RestoreInv, PlanInv, Planned, Removed
    <3>3. PICK s \in refs : s.cid \notin Removed /\ NameIn(pool, s.rcid) = name
      BY <1>1, <2>1, <3>1, <3>2 DEF RestoreInv, SparedInv
    <3>4. s.cid # c.src
      BY <2>4, <3>2, <3>3
    <3> QED BY <2>1, <2>4, <3>3, <3>4 DEF Listed
  <2> QED BY <2>2, <2>3, <2>4
<1>9. CASE DeletePool
  <2>1. CASE UNCHANGED pool
    BY <1>2, <1>9, <2>1 DEF DeletePool
  <2>2. CASE ~UNCHANGED pool
    <3>1. /\ c.pc = "apply" /\ Now.op = "delete_pool" /\ refs' = refs
          /\ pool' = pool \ Named(pool, Now.name)
      BY <1>9, <2>2 DEF DeletePool, Doing
    <3>2. Now \in Ops
      BY <3>1 DEF RestoreInv, PlanInv, Working, Ops, ToSet, Now
    <3>3. job.prune /\ Now.name \notin Names
      BY <3>1, <3>2 DEF RestoreInv, PlanInv, Planned
    <3>4. name # Now.name
      BY <3>3, JobFacts DEF RestoreInv, DeviceInv
    <3>5. NameIn(pool', r.rcid) = name
      BY <1>1, <3>1, <3>4, OthersNamed DEF RestoreInv, DeviceInv
    <3> QED BY <3>1, <3>5 DEF Listed
  <2> QED BY <2>1, <2>2
<1> QED BY <1>3, <1>4, <1>5, <1>6, <1>7, <1>8, <1>9 DEF Step

\* Whatever fails, a preset that the backup has and wants in the setlist is not
\* taken out of it; without --prune, no preset is.
THEOREM NothingIsLost == Spec => NothingLost
<1> DEFINE Loss == (~edited.look /\ (c.pc = "drop" /\ Now.op = "remove_ref" => ~edited.plan))
                     => \A name \in {x.name : x \in pool} :
                          (Listed(name, pool, refs) /\ (job.prune => Wanted(name)) /\ edits' = edits)
                          => Listed(name, pool', refs')
<1>1. ASSUME RestoreInv, RestoreInv', Counted, [Next]_vars PROVE Loss
  <2> SUFFICES ASSUME ~edited.look, c.pc = "drop" /\ Now.op = "remove_ref" => ~edited.plan,
                      NEW name \in {x.name : x \in pool}, Listed(name, pool, refs),
                      job.prune => Wanted(name), edits' = edits
               PROVE  Listed(name, pool', refs')
    OBVIOUS
  <2>1. CASE Step
    <3>1. name # NoName
      BY <1>1 DEF RestoreInv, DeviceInv, SoundDevice
    <3> QED BY <1>1, <2>1, <3>1, StepLosesNothing DEF RestoreInv
  <2>2. CASE UNCHANGED <<pool, refs>>
    BY <2>2 DEF Listed
  <2>3. CASE PanelEdit
    BY <1>1, <2>3 DEF PanelEdit, Counted
  <2> QED BY <1>1, <2>1, <2>2, <2>3 DEF Next, Again, Device, vars
<1>2. RestoreInv /\ RestoreInv' /\ Counted /\ [Next]_vars => Loss
  BY <1>1
<1>3. RestoreInv /\ RestoreInv' /\ Counted /\ [Next]_vars => [Loss]_vars
  BY <1>2
<1> QED BY <1>3, RestoreInvariance, Counting, PTL DEF Spec, NothingLost
-----------------------------------------------------------------------------
(* What holds while nothing has failed                                     *)

Pending == {ops[i] : i \in c.k..Len(ops)}

\* Every preset of the backup is as it shall be, or an operation makes it so.
PresetInv ==
  c.pc # "pool" /\ ~failed =>
    /\ \A i, j \in DOMAIN ops :
         ops[i].op = "create" /\ ops[j].op = "create" /\ ops[i].name = ops[j].name => i = j
    /\ \A b \in job.presets :
         \/ Named(pool, b.name) = {} /\ Creation(b) \in Pending
         \/ /\ \E x \in pool : Named(pool, b.name) = {x} /\ (x.content = b.content \/ Update(b) \in Pending)
            /\ Creation(b) \notin Pending
    /\ (Working \/ c.pc = "done") /\ job.prune =>
         \A x \in pool : \/ x.name \in Names
                         \/ \E o \in Pending : o.op = "delete_pool" /\ o.name = x.name
    /\ c.pc = "done" => c.k = Len(ops) + 1

\* What an operation makes of the lines of a setlist, if it succeeds.
Placed(o) == [name |-> o.name, posi |-> o.pos]
Effect(o, rows) ==
    IF o.op \in {"reference", "move_ref"} THEN {e \in rows : e.posi # o.from} \cup {Placed(o)}
    ELSE IF o.op = "remove_ref" THEN {e \in rows : e.posi # o.pos}
    ELSE rows
Leads(s, f) == \A k \in DOMAIN s : f[k + 1] = Effect(s[k], f[k])

\* The setlist has these lines.
Matches(rows) ==
    /\ {r.posi : r \in refs} = {e.posi : e \in rows}
    /\ \A r \in refs, e \in rows : r.posi = e.posi /\ e.name \in Names => NameIn(pool, r.rcid) = e.name

\* The reference to be moved is where the plan saw it.
SourceThere == Now.op = "move_ref" =>
                 Now.from # Now.pos /\ \E r \in refs : r.cid = c.src /\ r.posi = Now.from
Follows(rows) ==
    /\ c.pc \in {"moves", "apply", "done"} => Matches(rows)
    /\ c.pc = "add" => Matches(rows) /\ At(refs, Now.pos) = {} /\ SourceThere
    /\ c.pc = "verify" => SourceThere /\ (At(refs, Now.pos) # {} => Matches(rows \cup {Placed(Now)}))
    /\ c.pc = "drop" /\ Moving => SourceThere /\ Matches(rows \cup {Placed(Now)})
    /\ c.pc = "drop" /\ ~Moving => Matches(rows) /\ \E r \in refs : r.cid = c.src /\ r.posi = Now.pos

\* The lines that the plan so far leads to, and the moves that it lacks.
Aim(m) == [name |-> m.name, posi |-> m.to]
Start(m) == [name |-> m.name, posi |-> m.from]
Fits(rows) ==
    /\ \A e \in rows : e.posi \in Positions
    /\ p.occupied = {e.posi : e \in rows}
    /\ \A m \in p.moves : /\ Aim(m) \in job.refs \ rows
                          /\ m.from = None \/ Start(m) \in rows
    /\ \A m, n \in p.moves : m.from = n.from /\ m.from # None => m = n
    /\ \A d \in job.refs : \/ \E m \in p.moves : Aim(m) = d
                           \/ d \in rows /\ \A m \in p.moves : m.from # d.posi
    /\ \A e \in rows : \/ e \in job.refs
                       \/ \E m \in p.moves : m.from = e.posi
                       \/ e.posi \in p.fixed /\ ~job.prune
Reached(rows) == job.refs \subseteq rows /\ (job.prune => rows \subseteq job.refs)

LinesInv ==
  c.pc \notin {"pool", "setlist"} /\ ~failed =>
    \E f : /\ Leads(ops, f)
           /\ ~edited.plan => Follows(f[c.k])
           /\ IF c.pc = "moves" THEN Fits(f[Len(ops) + 1]) ELSE Reached(f[Len(ops) + 1])
-----------------------------------------------------------------------------
(* A step of an operation, when all is well                                *)

LEMMA LookFine ==
  ASSUME RestoreInv, Look, ~failed'
  PROVE  /\ Working /\ Moving /\ c.pc = "apply" /\ UNCHANGED <<job, pool, refs, ops>> /\ failed' = failed
         /\ c'.pc = "add" /\ c'.k = c.k /\ edited'.plan = edited.plan /\ At(refs, Now.pos) = {}
         /\ Now.op = "move_ref" => \E r \in refs : r.cid = c'.src /\ r.posi = Now.from
<1>1. /\ Working /\ c.pc = "apply" /\ Moving /\ Looked /\ UNCHANGED <<pool, refs, made>>
      /\ Now.op \in {"reference", "move_ref"}
  BY DEF Look, Doing, Working, Device, Moving
<1>2. ~End(FALSE)
  BY DEF End
<1>3. PICK x \in Named(pool, Now.name), r \in refs \cup {[cid |-> 0]} :
        /\ IF Now.op = "reference" THEN r.cid = 0 ELSE r.cid # 0 /\ r.posi = Now.from /\ r.rcid = x.cid
        /\ At(refs, Now.pos) = {}
        /\ c' = [c EXCEPT !.pc = "add", !.cid = x.cid, !.src = r.cid]
        /\ UNCHANGED <<job, ops, p, failed>>
  BY <1>2 DEF Look
<1>4. c' = [pc |-> "add", k |-> c.k, cid |-> x.cid, src |-> r.cid]
  BY <1>3, Found DEF RestoreInv
<1>5. c'.pc = "add" /\ c'.k = c.k /\ c'.src = r.cid
  BY <1>4
<1>6. edited'.plan = edited.plan
  BY <1>1, <1>3, LookedFacts
<1>7. Now.op = "move_ref" => r \in refs /\ r.posi = Now.from
  BY <1>1, <1>3
<1> QED BY <1>1, <1>3, <1>5, <1>6, <1>7

LEMMA LookRemovedFine ==
  ASSUME RestoreInv, LookRemoved, ~failed'
  PROVE  /\ Working /\ c.pc = "apply" /\ Now.op = "remove_ref" /\ UNCHANGED <<job, pool, refs, ops>>
         /\ failed' = failed /\ c'.pc = "drop" /\ c'.k = c.k /\ edited'.plan = edited.plan
         /\ \E r \in refs : r.cid = c'.src /\ r.posi = Now.pos
<1>1. Working /\ c.pc = "apply" /\ Now.op = "remove_ref" /\ Looked /\ UNCHANGED <<pool, refs, made>>
  BY DEF LookRemoved, Doing, Working, Device
<1>2. ~End(FALSE)
  BY DEF End
<1>3. PICK r \in refs : /\ r.cid = Now.arg /\ r.posi = Now.pos /\ c' = [c EXCEPT !.pc = "drop", !.src = r.cid]
                        /\ UNCHANGED <<job, ops, p, failed>>
  BY <1>2, Zenon DEF LookRemoved
<1>4. c'.pc = "drop" /\ c'.src = r.cid /\ c'.k = c.k
  BY <1>3 DEF RestoreInv, PlanInv
<1>5. edited'.plan = edited.plan
  BY <1>1, <1>3, LookedFacts
<1>6. \E s \in refs : s.cid = c'.src /\ s.posi = Now.pos
  BY <1>3, <1>4
<1>7. UNCHANGED <<job, pool, refs, ops>> /\ failed' = failed
  BY <1>1, <1>3
<1> QED BY <1>1, <1>4, <1>5, <1>6, <1>7

LEMMA VerifyFine ==
  ASSUME RestoreInv, Verify, ~failed'
  PROVE  /\ Working /\ c.pc = "verify" /\ Moving /\ UNCHANGED <<job, pool, refs, ops, edited>> /\ ~failed
         /\ \E r \in refs : r.posi = Now.pos /\ r.rcid = c.cid /\ r.cid # c.src
         /\ \/ Now.op = "reference" /\ End(TRUE)
            \/ Now.op = "move_ref" /\ c'.pc = "drop" /\ c'.k = c.k /\ c'.src = c.src
<1>1. Working /\ c.pc = "verify" /\ Moving /\ UNCHANGED <<pool, refs, edited>>
  BY DEF Verify, Working, Device, RestoreInv, MidwayInv
<1>2. ~End(FALSE)
  BY DEF End
<1>3. /\ \E r \in refs : r.posi = Now.pos /\ r.rcid = c.cid /\ r.cid # c.src
      /\ IF c.src = 0 THEN End(TRUE) ELSE Goto("drop") /\ UNCHANGED <<job, edits, runs, ops, p, failed>>
  BY <1>2 DEF Verify
<1>4. (Now.op = "move_ref" <=> c.src # 0) /\ Now.op \in {"reference", "move_ref"}
  BY <1>1 DEF RestoreInv, MidwayInv, Moving
<1>5. CASE c.src = 0
  BY <1>1, <1>3, <1>4, <1>5 DEF End
<1>6. CASE c.src # 0
  <2>1. Goto("drop") /\ UNCHANGED <<job, ops, failed>>
    BY <1>3, <1>6
  <2>2. c' = [pc |-> "drop", k |-> c.k, cid |-> c.cid, src |-> c.src]
    BY <2>1, Went DEF RestoreInv
  <2>3. c'.pc = "drop" /\ c'.k = c.k /\ c'.src = c.src
    BY <2>2
  <2> QED BY <1>1, <1>3, <1>4, <1>6, <2>1, <2>3
<1> QED BY <1>5, <1>6

LEMMA DropFine ==
  ASSUME RestoreInv, Drop, ~failed'
  PROVE  /\ Working /\ c.pc = "drop" /\ Now.op \in {"move_ref", "remove_ref"} /\ UNCHANGED <<pool, edited>>
         /\ refs' = {r \in refs : r.cid # c.src} /\ End(TRUE) /\ ~failed
<1>1. Working /\ c.pc = "drop" /\ Now.op \in {"move_ref", "remove_ref"} /\ UNCHANGED <<pool, edited>>
  BY DEF Drop, Working, RestoreInv, MidwayInv
<1>2. PICK ok \in BOOLEAN : refs' = {r \in refs : r.cid # c.src} /\ End(ok)
  BY DEF Drop, End
<1>3. ok = TRUE
  BY <1>2 DEF End
<1> QED BY <1>1, <1>2, <1>3 DEF End
-----------------------------------------------------------------------------
(* The presets                                                             *)

\* While the plan is made, all of it is to come.
LEMMA PendingAll == ASSUME ops \in Seq(Ops), c.k = 1 PROVE Pending = Ops
BY LenProperties DEF Pending, Ops, ToSet

LEMMA Counts ==
  ASSUME DeviceInv, NEW name
  PROVE  /\ Cardinality(Named(pool, name)) \in Nat
         /\ Cardinality(Named(pool, name)) = 0 => Named(pool, name) = {}
         /\ Cardinality(Named(pool, name)) = 1 => \E x \in pool : Named(pool, name) = {x}
<1>1. IsFiniteSet(Named(pool, name)) /\ Named(pool, name) \subseteq pool
  BY FS_Subset DEF DeviceInv, SoundDevice, Named
<1>2. Cardinality(Named(pool, name)) \in Nat
  BY <1>1, FS_CardinalityType
<1>3. Cardinality(Named(pool, name)) = 0 => Named(pool, name) = {}
  BY <1>1, FS_EmptySet
<1>4. Cardinality(Named(pool, name)) = 1 => \E x : Named(pool, name) = {x}
  BY <1>1, FS_Singleton
<1> QED BY <1>1, <1>2, <1>3, <1>4

\* Every preset is created once.
LEMMA CreatedOnce ==
  ASSUME RestoreInv, Consistent, NEW A \in SUBSET job.presets, NEW B \in SUBSET job.presets,
         NEW q, q = SetToSeq(Creations(A)) \o SetToSeq(Updates(B))
  PROVE  /\ ToSet(q) = Creations(A) \cup Updates(B)
         /\ \A i, j \in DOMAIN q : q[i].op = "create" /\ q[j].op = "create" /\ q[i].name = q[j].name => i = j
<1> DEFINE C == {Creation(b) : b \in A}
           U == {Update(b) : b \in B}
           s == SetToSeq(C)
           u == SetToSeq(U)
<1>1. IsFiniteSet(C) /\ IsFiniteSet(U)
  BY FiniteJob
<1>2. ASSUME NEW x \in C, NEW y \in C, x.name = y.name PROVE x = y
  <2>1. PICK a \in A : x = Creation(a)
    OBVIOUS
  <2>2. PICK b \in A : y = Creation(b)
    OBVIOUS
  <2>3. a.name = b.name
    BY <1>2, <2>1, <2>2, Kinds
  <2>4. a = b
    BY <2>3 DEF RestoreInv, DeviceInv, Consistent
  <2> QED BY <2>1, <2>2, <2>4
<1>3. (\A x \in C : x.op = "create") /\ \A x \in U : x.op = "update"
  BY Kinds
<1>4. q = s \o u
  BY DEF Creations, Updates
<1> HIDE DEF C, U
<1>5. /\ s \in Seq(C) /\ ToSet(s) = C /\ (\A i, j \in DOMAIN s : s[i] = s[j] => i = j)
      /\ u \in Seq(U) /\ ToSet(u) = U
  BY <1>1, SetToSeqOps, SetToSeqAll
<1> HIDE DEF s, u
<1>6. s \in Seq(C \cup U) /\ u \in Seq(C \cup U)
  BY <1>5, SeqMonotonic
<1>7. ToSet(q) = C \cup U
  BY <1>4, <1>5, <1>6, ConcatOps
<1>8. /\ DOMAIN s = 1..Len(s) /\ DOMAIN u = 1..Len(u) /\ DOMAIN q = 1..(Len(s) + Len(u))
      /\ \A i \in 1..Len(s) : q[i] = s[i]
      /\ \A i \in 1..Len(u) : q[Len(s) + i] = u[i]
      /\ \A i \in 1..(Len(s) + Len(u)) : i \in 1..Len(s) \/ \E j \in 1..Len(u) : i = Len(s) + j
  BY <1>4, <1>6, ConcatIndex
<1>9. (\A i \in DOMAIN s : s[i] \in C) /\ \A i \in DOMAIN u : u[i] \in U
  BY <1>5 DEF ToSet
<1>10. ASSUME NEW i \in DOMAIN q, q[i].op = "create" PROVE i \in DOMAIN s /\ q[i] = s[i]
  <2>1. ASSUME NEW j \in 1..Len(u), i = Len(s) + j PROVE FALSE
    <3>1. q[i] = u[j] /\ u[j] \in U
      BY <1>8, <1>9, <2>1
    <3> QED BY <1>3, <1>10, <3>1
  <2>2. i \in 1..Len(s)
    BY <1>8, <2>1
  <2> QED BY <1>8, <2>2
<1>11. ASSUME NEW i \in DOMAIN q, NEW j \in DOMAIN q, q[i].op = "create", q[j].op = "create", q[i].name = q[j].name
       PROVE  i = j
  <2>1. i \in DOMAIN s /\ j \in DOMAIN s /\ q[i] = s[i] /\ q[j] = s[j]
    BY <1>10, <1>11
  <2>2. s[i] = s[j]
    BY <1>2, <1>9, <1>11, <2>1
  <2> QED BY <1>5, <2>1, <2>2
<1> QED BY <1>7, <1>11 DEF C, U, Creations, Updates

LEMMA ReadPoolPresets == ASSUME Consistent, RestoreInv, RestoreInv', ReadPool PROVE PresetInv'
<1> SUFFICES ASSUME ~failed', ~Abort PROVE PresetInv'
  BY DEF PresetInv, Abort
<1>1. PICK unread \in SUBSET job.presets :
        /\ ops' = SetToSeq(Creations(Absent(unread))) \o SetToSeq(Updates(Outdated(unread)))
        /\ failed' = (unread # {} \/ \E b \in job.presets : Cardinality(Named(pool, b.name)) > 1)
  BY PoolRead
<1>2. /\ c'.pc = "setlist" /\ c'.k = 1 /\ UNCHANGED <<job, pool>>
  BY DEF ReadPool, Device, RestoreInv, PlanInv
<1>3. unread = {} /\ \A b \in job.presets : ~(Cardinality(Named(pool, b.name)) > 1)
  BY <1>1
<1>4. Absent(unread) \in SUBSET job.presets /\ Outdated(unread) \in SUBSET job.presets
  BY DEF Absent, Outdated
<1>5. /\ ToSet(ops') = Creations(Absent(unread)) \cup Updates(Outdated(unread))
      /\ \A i, j \in DOMAIN ops' :
           ops'[i].op = "create" /\ ops'[j].op = "create" /\ ops'[i].name = ops'[j].name => i = j
  <2>1. \A q : q = SetToSeq(Creations(Absent(unread))) \o SetToSeq(Updates(Outdated(unread))) =>
          /\ ToSet(q) = Creations(Absent(unread)) \cup Updates(Outdated(unread))
          /\ \A i, j \in DOMAIN q : q[i].op = "create" /\ q[j].op = "create" /\ q[i].name = q[j].name => i = j
    BY <1>4, CreatedOnce
  <2> QED BY <1>1, <2>1
<1>6. Pending' = ToSet(ops')
  <2>1. ops' \in Seq(Ops')
    BY DEF RestoreInv, PlanInv
  <2> QED BY <1>2, <2>1, LenProperties DEF Pending, ToSet
<1>7. ASSUME NEW b \in job.presets
      PROVE  \/ Named(pool, b.name) = {} /\ Creation(b) \in Pending'
             \/ /\ \E x \in pool : Named(pool, b.name) = {x} /\ (x.content = b.content \/ Update(b) \in Pending')
                /\ Creation(b) \notin Pending'
  <2>1. Cardinality(Named(pool, b.name)) = 0 \/ Cardinality(Named(pool, b.name)) = 1
    BY <1>3, Counts DEF RestoreInv, DeviceInv
  <2>2. CASE Cardinality(Named(pool, b.name)) = 0
    <3>1. b \in Absent(unread)
      BY <1>3, <2>2 DEF Absent
    <3> QED BY <1>5, <1>6, <2>2, <3>1, Counts DEF RestoreInv, DeviceInv, Creations
  <2>3. CASE Cardinality(Named(pool, b.name)) = 1
    <3>1. PICK x \in pool : Named(pool, b.name) = {x}
      BY <2>3, Counts DEF RestoreInv, DeviceInv
    <3>2. x.content = b.content \/ b \in Outdated(unread)
      BY <1>3, <2>3, <3>1 DEF Outdated
    <3>3. Creation(b) \notin Pending'
      <4>1. ASSUME NEW e \in Absent(unread), Creation(b) = Creation(e) PROVE FALSE
        <5>1. e.name = b.name
          BY <4>1, Kinds
        <5> QED BY <2>3, <5>1 DEF Absent
      <4>2. \A e : Creation(b) # Update(e)
        BY Kinds
      <4> QED BY <1>5, <1>6, <4>1, <4>2 DEF Creations, Updates
    <3> QED BY <1>5, <1>6, <3>1, <3>2, <3>3 DEF Updates
  <2> QED BY <2>1, <2>2, <2>3
<1> QED BY <1>2, <1>5, <1>7 DEF PresetInv, Working

\* Operations on other things are added to the plan.
LEMMA PlanPresets ==
  ASSUME RestoreInv, RestoreInv', PresetInv, c.pc \in {"setlist", "moves"}, c'.pc \in {"moves", "apply", "done"},
         c'.k = 1, UNCHANGED <<job, pool>>, failed => failed',
         NEW q, NEW S, q \in Seq(S), ops' = ops \o q, \A o \in S : o.op \notin {"create", "update"},
         c'.pc # "moves" /\ job.prune =>
           \A x \in pool : x.name \in Names \/ \E o \in ToSet(q) : o.op = "delete_pool" /\ o.name = x.name,
         c'.pc = "done" => ops' = <<>>
  PROVE  PresetInv'
<1> SUFFICES ASSUME ~failed' PROVE PresetInv'
  BY DEF PresetInv
<1>1. ops \in Seq(Ops) /\ ops' \in Seq(Ops') /\ c.k = 1
  BY DEF RestoreInv, PlanInv
<1>2. Ops' = Ops \cup ToSet(q) /\ ToSet(q) \subseteq S
  BY MorePlanned, OwnElements DEF RestoreInv
<1>3. Pending = Ops /\ Pending' = Ops'
  BY <1>1, PendingAll, LenProperties DEF Pending, Ops, ToSet
<1>4. ops \in Seq(Ops \cup S) /\ q \in Seq(Ops \cup S)
  BY <1>1, SeqMonotonic
<1>5. /\ DOMAIN ops = 1..Len(ops) /\ DOMAIN q = 1..Len(q) /\ DOMAIN ops' = 1..(Len(ops) + Len(q))
      /\ \A i \in 1..Len(ops) : ops'[i] = ops[i]
      /\ \A i \in 1..Len(q) : ops'[Len(ops) + i] = q[i]
      /\ \A i \in 1..(Len(ops) + Len(q)) : i \in 1..Len(ops) \/ \E j \in 1..Len(q) : i = Len(ops) + j
  BY <1>4, ConcatIndex
<1>6. ASSUME NEW i \in DOMAIN ops', ops'[i].op = "create" PROVE i \in DOMAIN ops /\ ops'[i] = ops[i]
  <2>1. ASSUME NEW j \in 1..Len(q), i = Len(ops) + j PROVE FALSE
    <3>1. ops'[i] = q[j] /\ q[j] \in S
      BY <1>5, <2>1, ElementOfSeq
    <3> QED BY <1>6, <3>1
  <2>2. i \in 1..Len(ops)
    BY <1>5, <2>1
  <2> QED BY <1>5, <2>2
<1>7. \A i, j \in DOMAIN ops' :
        ops'[i].op = "create" /\ ops'[j].op = "create" /\ ops'[i].name = ops'[j].name => i = j
  BY <1>6 DEF PresetInv
<1>8. \A b \in job.presets : Creation(b) \notin ToSet(q)
  BY <1>2, Kinds
<1>9. \A b \in job.presets :
        \/ Named(pool, b.name) = {} /\ Creation(b) \in Pending'
        \/ /\ \E x \in pool : Named(pool, b.name) = {x} /\ (x.content = b.content \/ Update(b) \in Pending')
           /\ Creation(b) \notin Pending'
  BY <1>2, <1>3, <1>8 DEF PresetInv
<1>10. c'.pc # "moves" /\ job.prune =>
         \A x \in pool : x.name \in Names \/ \E o \in Pending' : o.op = "delete_pool" /\ o.name = x.name
  BY <1>2, <1>3
<1>11. c'.pc = "done" => c'.k = Len(ops') + 1
  OBVIOUS
<1> QED BY <1>7, <1>9, <1>10, <1>11 DEF PresetInv, Working, Names

\* The operations to come, when one has ended.
LEMMA PendingNext ==
  ASSUME PlanInv, Working, NEW ok, End(ok)
  PROVE  /\ Pending = {Now} \cup Pending' /\ c'.pc \in {"apply", "done"} /\ ops' = ops
         /\ c'.pc = "done" => c'.k = Len(ops) + 1
         /\ \A o \in Pending' : \E i \in DOMAIN ops : i # c.k /\ o = ops[i]
<1>1. /\ c'.k = c.k + 1 /\ c'.pc = (IF c.k = Len(ops) THEN "done" ELSE "apply") /\ ops' = ops
      /\ Len(ops) \in Nat /\ c.k \in 1..Len(ops) /\ DOMAIN ops = 1..Len(ops)
  BY Next1
<1>2. Pending' = {ops[i] : i \in (c.k + 1)..Len(ops)}
  BY <1>1 DEF Pending
<1>3. \A i \in c.k..Len(ops) : i = c.k \/ i \in (c.k + 1)..Len(ops)
  BY <1>1
<1>4. c.k \in c.k..Len(ops) /\ \A i \in (c.k + 1)..Len(ops) : i \in c.k..Len(ops) /\ i # c.k /\ i \in 1..Len(ops)
  BY <1>1
<1>5. Pending = {Now} \cup Pending'
  BY <1>2, <1>3, <1>4 DEF Pending, Now
<1> QED BY <1>1, <1>2, <1>4, <1>5

\* An operation on other things has ended.
LEMMA EndPresets ==
  ASSUME RestoreInv, PresetInv, Working, NEW ok, End(ok), pool' = pool,
         Now.op \notin {"create", "update", "delete_pool"}
  PROVE  PresetInv'
<1> SUFFICES ASSUME ~failed' PROVE PresetInv'
  BY DEF PresetInv
<1>1. /\ Pending = {Now} \cup Pending' /\ c'.pc \in {"apply", "done"} /\ ops' = ops
      /\ c'.pc = "done" => c'.k = Len(ops) + 1
  BY PendingNext DEF RestoreInv
<1>2. job' = job /\ ~failed /\ c.pc # "pool"
  BY DEF End, Working
<1>3. \A b : Creation(b) # Now /\ Update(b) # Now
  BY Kinds
<1> QED BY <1>1, <1>2, <1>3 DEF PresetInv, Names

\* The operation goes on.
LEMMA MidPresets ==
  ASSUME PresetInv, Working, UNCHANGED <<job, pool, ops>>, c'.k = c.k, c'.pc \in {"apply", "add", "verify", "drop"},
         failed' = failed
  PROVE  PresetInv'
<1>1. Pending' = Pending
  BY DEF Pending
<1> QED BY <1>1 DEF PresetInv, Working, Names

LEMMA EndFine == ASSUME NEW ok \in BOOLEAN, End(ok), ~failed' PROVE ok /\ ~failed
BY DEF End

LEMMA CreatePresets ==
  ASSUME Consistent, RestoreInv, PresetInv, Create
  PROVE  PresetInv'
<1> SUFFICES ASSUME ~failed' PROVE PresetInv'
  BY DEF PresetInv
<1> DEFINE n == [cid |-> made + 1, name |-> Now.name, content |-> Now.arg]
<1>1. Working /\ Now.op = "create" /\ pool' = pool \cup {n} /\ End(TRUE) /\ ~failed /\ c.pc # "pool"
  BY EndFine DEF Create, Doing, Working
<1>2. n.name = Now.name /\ n.content = Now.arg
  OBVIOUS
<1> HIDE DEF n
<1>3. /\ Pending = {Now} \cup Pending' /\ c'.pc \in {"apply", "done"} /\ ops' = ops
      /\ c'.pc = "done" => c'.k = Len(ops) + 1
      /\ \A o \in Pending' : \E i \in DOMAIN ops : i # c.k /\ o = ops[i]
  BY <1>1, PendingNext DEF RestoreInv
<1>4. job' = job /\ Planned(Now) /\ c.k \in DOMAIN ops
  BY <1>1, Next1 DEF RestoreInv
<1>5. PICK b \in job.presets : Now = Creation(b)
  BY <1>1, <1>4 DEF Planned
<1>6. Now.name = b.name /\ Now.arg = b.content
  BY <1>5, Kinds
<1>7. \A o \in Pending' : ~(o.op = "create" /\ o.name = b.name)
  BY <1>1, <1>3, <1>4, <1>6 DEF PresetInv, Now
<1>8. Named(pool, b.name) = {} /\ Creation(b) \notin Pending'
  <2>1. Creation(b) \in Pending
    BY <1>3, <1>5
  <2> QED BY <1>1, <1>7, <2>1, Kinds DEF PresetInv
<1>9. ASSUME NEW d \in job.presets
      PROVE  \/ Named(pool', d.name) = {} /\ Creation(d) \in Pending'
             \/ /\ \E x \in pool' : Named(pool', d.name) = {x} /\ (x.content = d.content \/ Update(d) \in Pending')
                /\ Creation(d) \notin Pending'
  <2>1. CASE d = b
    <3>1. Named(pool', d.name) = {n} /\ n \in pool'
      BY <1>1, <1>2, <1>6, <1>8, <2>1 DEF Named
    <3> QED BY <1>2, <1>6, <1>8, <2>1, <3>1
  <2>2. CASE d # b
    <3>1. d.name # b.name
      BY <2>2 DEF Consistent, RestoreInv, DeviceInv
    <3>2. Named(pool', d.name) = Named(pool, d.name) /\ pool \subseteq pool'
      BY <1>1, <1>2, <1>6, <3>1 DEF Named
    <3>3. Creation(d) # Now /\ Update(d) # Now
      BY <1>1, <1>6, <3>1, Kinds
    <3> QED BY <1>1, <1>3, <3>2, <3>3 DEF PresetInv
  <2> QED BY <2>1, <2>2
<1>10. job.prune => \A x \in pool' : x.name \in Names \/ \E o \in Pending' : o.op = "delete_pool" /\ o.name = x.name
  <2>1. n.name \in Names
    BY <1>2, <1>6 DEF Names
  <2> QED BY <1>1, <1>3, <2>1 DEF PresetInv
<1> QED BY <1>1, <1>3, <1>4, <1>9, <1>10 DEF PresetInv, Names

LEMMA UpdatePresets ==
  ASSUME Consistent, RestoreInv, PresetInv, UpdateContent
  PROVE  PresetInv'
<1> SUFFICES ASSUME ~failed' PROVE PresetInv'
  BY DEF PresetInv
<1>1. /\ Working /\ Now.op = "update" /\ End(TRUE) /\ ~failed /\ c.pc # "pool"
      /\ pool' = {IF x.name = Now.name THEN [x EXCEPT !.content = Now.arg] ELSE x : x \in pool}
  BY EndFine DEF UpdateContent, Doing, Working
<1>2. /\ Pending = {Now} \cup Pending' /\ c'.pc \in {"apply", "done"} /\ ops' = ops
      /\ c'.pc = "done" => c'.k = Len(ops) + 1
  BY <1>1, PendingNext DEF RestoreInv
<1>3. job' = job /\ Planned(Now)
  BY <1>1, Next1 DEF RestoreInv
<1>4. PICK b \in job.presets : Now = Update(b)
  BY <1>1, <1>3 DEF Planned
<1>5. Now.name = b.name /\ Now.arg = b.content
  BY <1>4, Kinds
<1> DEFINE w(x) == IF x.name = Now.name THEN [x EXCEPT !.content = Now.arg] ELSE x
<1>6. ASSUME NEW x \in pool
      PROVE  w(x).name = x.name /\ w(x).content = (IF x.name = b.name THEN b.content ELSE x.content) /\ w(x) \in pool'
  <2>1. x = [cid |-> x.cid, name |-> x.name, content |-> x.content]
    BY DEF RestoreInv, DeviceInv, SoundDevice
  <2>2. w(x) \in pool'
    BY <1>1
  <2> QED BY <1>5, <2>1, <2>2
<1>7. \A y \in pool' : \E x \in pool : y = w(x)
  BY <1>1
<1> HIDE DEF w
<1>8. ASSUME NEW d \in job.presets, NEW x \in pool, Named(pool, d.name) = {x} PROVE Named(pool', d.name) = {w(x)}
  <2>1. ASSUME NEW y \in Named(pool', d.name) PROVE y = w(x)
    <3>1. PICK z \in pool : y = w(z)
      BY <1>7 DEF Named
    <3>2. z \in Named(pool, d.name)
      BY <1>6, <3>1 DEF Named
    <3> QED BY <1>8, <3>1, <3>2
  <2>2. w(x) \in Named(pool', d.name)
    BY <1>6, <1>8 DEF Named
  <2> QED BY <2>1, <2>2
<1>9. ASSUME NEW d \in job.presets
      PROVE  \/ Named(pool', d.name) = {} /\ Creation(d) \in Pending'
             \/ /\ \E x \in pool' : Named(pool', d.name) = {x} /\ (x.content = d.content \/ Update(d) \in Pending')
                /\ Creation(d) \notin Pending'
  <2>1. CASE Named(pool, d.name) = {} /\ Creation(d) \in Pending
    <3>1. Creation(d) # Now
      BY <1>1, Kinds
    <3>2. Named(pool', d.name) = {}
      BY <1>6, <1>7, <2>1 DEF Named
    <3> QED BY <1>2, <2>1, <3>1, <3>2
  <2>2. CASE ~(Named(pool, d.name) = {} /\ Creation(d) \in Pending)
    <3>1. PICK x \in pool : /\ Named(pool, d.name) = {x} /\ (x.content = d.content \/ Update(d) \in Pending)
                            /\ Creation(d) \notin Pending
      BY <1>1, <2>2 DEF PresetInv
    <3>2. Named(pool', d.name) = {w(x)} /\ w(x) \in pool'
      BY <1>6, <1>8, <3>1
    <3>3. x.name = d.name
      BY <3>1 DEF Named
    <3>4. CASE d.name = b.name
      <4>1. d = b
        BY <3>4 DEF Consistent, RestoreInv, DeviceInv
      <4>2. w(x).content = d.content
        BY <1>6, <3>3, <4>1
      <4> QED BY <1>2, <3>1, <3>2, <4>2
    <3>5. CASE d.name # b.name
      <4>1. Update(d) # Now /\ w(x).content = x.content
        BY <1>5, <1>6, <3>3, <3>5, Kinds
      <4> QED BY <1>2, <3>1, <3>2, <4>1
    <3> QED BY <3>4, <3>5
  <2> QED BY <2>1, <2>2
<1>10. ASSUME job.prune, NEW y \in pool'
       PROVE  y.name \in Names \/ \E o \in Pending' : o.op = "delete_pool" /\ o.name = y.name
  <2>1. PICK x \in pool : y = w(x)
    BY <1>7
  <2>2. y.name = x.name
    BY <1>6, <2>1
  <2> QED BY <1>1, <1>2, <1>10, <2>2 DEF PresetInv
<1> QED BY <1>1, <1>2, <1>3, <1>9, <1>10 DEF PresetInv, Names

LEMMA DeletePresets ==
  ASSUME RestoreInv, PresetInv, DeletePool
  PROVE  PresetInv'
<1> SUFFICES ASSUME ~failed' PROVE PresetInv'
  BY DEF PresetInv
<1>1. /\ Working /\ Now.op = "delete_pool" /\ End(TRUE) /\ ~failed /\ c.pc # "pool"
      /\ pool' = pool \ Named(pool, Now.name)
  BY EndFine DEF DeletePool, Doing, Working
<1>2. /\ Pending = {Now} \cup Pending' /\ c'.pc \in {"apply", "done"} /\ ops' = ops
      /\ c'.pc = "done" => c'.k = Len(ops) + 1
  BY <1>1, PendingNext DEF RestoreInv
<1>3. job' = job /\ Now.name \notin Names
  BY <1>1, Next1 DEF RestoreInv, Planned
<1>4. \A b \in job.presets : /\ Named(pool', b.name) = Named(pool, b.name) /\ b.name # Now.name
                             /\ Creation(b) # Now /\ Update(b) # Now
  <2>1. \A b \in job.presets : b.name # Now.name
    BY <1>3 DEF Names
  <2>2. \A b \in job.presets : Creation(b) # Now /\ Update(b) # Now
    BY <1>1, Kinds
  <2>3. \A b \in job.presets : Named(pool', b.name) = Named(pool, b.name)
    BY <1>1, <2>1 DEF Named
  <2> QED BY <2>1, <2>2, <2>3
<1>5. ASSUME NEW d \in job.presets
      PROVE  \/ Named(pool', d.name) = {} /\ Creation(d) \in Pending'
             \/ /\ \E x \in pool' : Named(pool', d.name) = {x} /\ (x.content = d.content \/ Update(d) \in Pending')
                /\ Creation(d) \notin Pending'
  <2>1. \A x : Named(pool', d.name) = {x} => x \in pool'
    BY DEF Named
  <2> QED BY <1>1, <1>2, <1>4, <2>1 DEF PresetInv
<1>6. ASSUME job.prune, NEW y \in pool'
      PROVE  y.name \in Names \/ \E o \in Pending' : o.op = "delete_pool" /\ o.name = y.name
  <2>1. y \in pool /\ y.name # Now.name
    BY <1>1 DEF Named
  <2> QED BY <1>1, <1>2, <1>6, <2>1 DEF PresetInv
<1> QED BY <1>1, <1>2, <1>3, <1>5, <1>6 DEF PresetInv, Names

\* What is read of the setlist, when all is well.
LEMMA SetlistRead ==
  ASSUME ReadSetlist, ~failed'
  PROVE  /\ c.pc = "setlist" /\ Goto("moves") /\ ~failed
         /\ UNCHANGED <<job, Device, Panel>> /\ ops' = ops \o Removals
         /\ p' = [live |-> p.live, moves |-> FirstMoved, occupied |-> FirstOccupied, fixed |-> FirstFixed]
<1>1. ~Abort /\ ~(failed' = TRUE)
  BY DEF Abort
<1>2. /\ c.pc = "setlist" /\ Goto("moves") /\ UNCHANGED <<job, Device, Panel, failed>> /\ ops' = ops \o Removals
      /\ p' = [live |-> p.live, moves |-> FirstMoved, occupied |-> FirstOccupied, fixed |-> FirstFixed]
  BY <1>1, Zenon DEF ReadSetlist, Removals, FirstMoved, FirstMove, FirstOccupied, FirstFixed
<1> QED BY <1>2

LEMMA PlanningPresets ==
  ASSUME RestoreInv, RestoreInv', PresetInv, ReadSetlist \/ PlanReady \/ PlanPark \/ PlanEnd
  PROVE  PresetInv'
<1> SUFFICES ASSUME ~failed' PROVE PresetInv'
  BY DEF PresetInv
<1> USE DEF RestoreInv
<1>1. CASE ReadSetlist
  <2>1. /\ c.pc = "setlist" /\ c'.pc = "moves" /\ c'.k = 1 /\ UNCHANGED <<job, pool>> /\ ~failed
        /\ ops' = ops \o Removals
    BY <1>1, SetlistRead, Went DEF PlanInv, Device
  <2>2. Removals \in Seq(RemovalOps) /\ \A o \in RemovalOps : o.op \notin {"create", "update"}
    BY RemovalFacts, Kinds
  <2> QED BY <2>1, <2>2, PlanPresets
<1>2. CASE PlanReady
  <2>1. /\ c.pc = "moves" /\ c'.pc = "moves" /\ c'.k = 1 /\ UNCHANGED <<job, pool>> /\ ~failed
        /\ ops' = ops \o ReadyOps
    <3>1. /\ c.pc = "moves" /\ UNCHANGED <<job, pool, c, failed>> /\ ops' = ops \o ReadyOps
      BY <1>2, Zenon DEF PlanReady, Planning, ReadyOps, Device
    <3> QED BY <3>1 DEF PlanInv, Device
  <2>2. ReadyOps \in Seq(ToSet(ReadyOps)) /\ \A o \in ToSet(ReadyOps) : o.op \notin {"create", "update"}
    <3> HIDE DEF RestoreInv
    <3>1. ReadyOps \in Seq(ToSet(ReadyOps)) /\ \A o \in ToSet(ReadyOps) : \E m \in Ready : o = Move(m, m.to)
      BY ReadyFacts
    <3>2. \A m : Move(m, m.to).op \notin {"create", "update"}
      BY Kinds
    <3> QED BY <3>1, <3>2
  <2> QED BY <2>1, <2>2, PlanPresets
<1>3. CASE PlanPark
  <2> DEFINE o == Move(Parked, Spot)
  <2>1. /\ c.pc = "moves" /\ c'.pc = "moves" /\ c'.k = 1 /\ UNCHANGED <<job, pool>> /\ ~failed
        /\ ops' = Append(ops, o)
    BY <1>3, ParkFacts DEF PlanInv, Device
  <2>2. o.op \notin {"create", "update"}
    BY Kinds
  <2> HIDE DEF o
  <2>3. ops \in Seq(Ops \cup {o}) /\ o \in Ops \cup {o}
    BY SeqMonotonic DEF PlanInv
  <2>4. ops' = ops \o <<o>> /\ <<o>> \in Seq({o})
    BY <2>1, <2>3, AppendIsConcat
  <2> QED BY <2>1, <2>2, <2>4, PlanPresets
<1>4. CASE PlanEnd
  <2>1. /\ c.pc = "moves" /\ UNCHANGED <<job, pool>> /\ failed' = failed /\ ops' = ops \o Deletions
        /\ c' = [c EXCEPT !.pc = IF ops' = <<>> THEN "done" ELSE "apply"]
    BY <1>4 DEF PlanEnd, Deletions, Deletion, Gone, Device
  <2>2. p.live = pool /\ c'.pc = (IF ops' = <<>> THEN "done" ELSE "apply") /\ c'.k = 1
    BY <2>1 DEF PlanInv
  <2>3. /\ Deletions \in Seq(DeletionOps) /\ ToSet(Deletions) = DeletionOps
        /\ \A o \in DeletionOps : o.op = "delete_pool"
        /\ \A x : Deletion(x).op = "delete_pool" /\ Deletion(x).name = x.name
    BY <2>2, DeletionFacts
  <2>4. ASSUME job.prune, NEW x \in pool, x.name \notin Names
        PROVE  \E o \in ToSet(Deletions) : o.op = "delete_pool" /\ o.name = x.name
    <3>1. x \in Gone
      BY <2>2, <2>4 DEF Gone, Names, Named
    <3> QED BY <2>3, <2>4, <3>1 DEF DeletionOps
  <2>5. \A o \in DeletionOps : o.op \notin {"create", "update"}
    BY <2>3
  <2> HIDE DEF RestoreInv
  <2>6. c.pc \in {"setlist", "moves"} /\ c'.pc \in {"moves", "apply", "done"} /\ (c'.pc = "done" => ops' = <<>>)
    BY <2>1, <2>2
  <2> QED BY <2>1, <2>2, <2>3, <2>4, <2>5, <2>6, PlanPresets
<1> QED BY <1>1, <1>2, <1>3, <1>4

LEMMA PresetsKept ==
  ASSUME Consistent, RestoreInv, RestoreInv', PresetInv, [Next]_vars
  PROVE  PresetInv'
<1>1. CASE ReadPool
  BY <1>1, ReadPoolPresets
<1>2. CASE ReadSetlist \/ PlanReady \/ PlanPark \/ PlanEnd
  BY <1>2, PlanningPresets
<1>3. CASE PlanBlocked
  BY <1>3 DEF PlanBlocked, PresetInv
<1>4. CASE Create \/ UpdateContent \/ DeletePool
  BY <1>4, CreatePresets, UpdatePresets, DeletePresets
<1>5. CASE Look \/ LookRemoved
  <2> SUFFICES ASSUME ~failed' PROVE PresetInv'
    BY DEF PresetInv
  <2>1. Working /\ UNCHANGED <<job, pool, ops>> /\ failed' = failed /\ c'.k = c.k /\ c'.pc \in {"add", "drop"}
    BY <1>5, LookFine, LookRemovedFine
  <2> QED BY <2>1, MidPresets
<1>6. CASE Add
  <2>1. c'.k = c.k /\ c'.pc = "verify"
    BY <1>6 DEF Add, Goto, RestoreInv, PlanInv
  <2> QED BY <1>6, <2>1, MidPresets DEF Add, Working
<1>7. CASE Verify \/ Drop
  <2>1. Working /\ pool' = pool /\ Now.op \notin {"create", "update", "delete_pool"}
    BY <1>7 DEF Verify, Drop, Working, Device, RestoreInv, MidwayInv, Moving
  <2>2. CASE \E ok \in BOOLEAN : End(ok)
    BY <2>1, <2>2, EndPresets
  <2>3. CASE ~\E ok \in BOOLEAN : End(ok)
    <3>1. Goto("drop") /\ UNCHANGED <<job, edits, runs, ops, p, failed>>
      BY <1>7, <2>3 DEF Verify, Drop
    <3>2. c'.k = c.k /\ c'.pc = "drop"
      BY <3>1 DEF Goto, RestoreInv, PlanInv
    <3> QED BY <2>1, <3>1, <3>2, MidPresets
  <2> QED BY <2>2, <2>3
<1>8. CASE PanelEdit \/ UNCHANGED vars
  <2>1. UNCHANGED <<job, pool, ops, c, failed>>
    BY <1>8 DEF PanelEdit, vars, Device
  <2>2. Pending' = Pending
    BY <2>1 DEF Pending
  <2> QED BY <2>1, <2>2 DEF PresetInv, Working, Names
<1>9. CASE Again
  BY <1>9 DEF Again, Fresh, PresetInv
<1> QED BY <1>1, <1>2, <1>3, <1>4, <1>5, <1>6, <1>7, <1>8, <1>9 DEF Next, Step
-----------------------------------------------------------------------------
(* The lines of the setlist: planning                                      *)

\* A plan that grows leads on from where it led.
Grows(q) == ops' = ops \o q

LEMMA PlanLeads ==
  ASSUME RestoreInv, NEW S, NEW q \in Seq(S), Grows(q),
         NEW f, Leads(ops, f), NEW g, Leads(q, g), g[1] = f[Len(ops) + 1]
  PROVE  \E h : Leads(ops, h)' /\ h[1] = f[1] /\ h[Len(ops') + 1] = g[Len(q) + 1]
<1>1. PICK A, s, both : A = Ops \cup S /\ s = ops /\ both = s \o q
  OBVIOUS
<1>2. s \in Seq(A) /\ q \in Seq(A) /\ Leads(s, f) /\ g[1] = f[Len(s) + 1] /\ both = s \o q
  BY <1>1, SeqMonotonic DEF RestoreInv, PlanInv
<1> DEFINE n == Len(s)
           l == Len(q)
           h == [i \in 1..(n + l + 1) |-> IF i <= n + 1 THEN f[i] ELSE g[i - n]]
<1>3. /\ n \in Nat /\ l \in Nat /\ Len(both) = n + l
      /\ DOMAIN s = 1..n /\ DOMAIN q = 1..l /\ DOMAIN both = 1..(n + l)
      /\ \A i \in 1..n : both[i] = s[i]
      /\ \A j \in 1..l : both[n + j] = q[j]
      /\ \A i \in 1..(n + l) : i \in 1..n \/ \E j \in 1..l : i = n + j
  <2>1. /\ s \o q \in Seq(A) /\ Len(s \o q) = Len(s) + Len(q) /\ Len(s) \in Nat /\ Len(q) \in Nat
        /\ DOMAIN s = 1..Len(s) /\ DOMAIN q = 1..Len(q) /\ DOMAIN (s \o q) = 1..(Len(s) + Len(q))
        /\ \A i \in 1..Len(s) : (s \o q)[i] = s[i]
        /\ \A i \in 1..Len(q) : (s \o q)[Len(s) + i] = q[i]
        /\ \A i \in 1..(Len(s) + Len(q)) : i \in 1..Len(s) \/ \E j \in 1..Len(q) : i = Len(s) + j
    <3>1. s \in Seq(A) /\ q \in Seq(A)
      BY <1>2
    <3> QED BY <3>1, ConcatIndex
  <2>2. both = s \o q
    BY <1>2
  <2> QED BY <2>1, <2>2
<1>4. g[1] = f[n + 1]
  BY <1>2
<1> HIDE DEF n, l
<1>5. \A i \in 1..(n + l + 1) : h[i] = IF i <= n + 1 THEN f[i] ELSE g[i - n]
  OBVIOUS
<1> HIDE DEF h
<1>6. \A i \in 1..(n + 1) : h[i] = f[i]
  BY <1>3, <1>5
<1>7. \A j \in 1..(l + 1) : h[n + j] = g[j]
  <2> TAKE j \in 1..(l + 1)
  <2>1. CASE j = 1
    <3>1. n + 1 \in 1..(n + 1) /\ n + j = n + 1
      BY <1>3, <2>1
    <3>2. h[n + 1] = f[n + 1]
      BY <1>6, <3>1
    <3>3. h[n + j] = h[n + 1] /\ g[j] = g[1]
      BY <2>1, <3>1
    <3> QED BY <1>4, <3>2, <3>3
  <2>2. CASE j # 1
    <3>1. n + j \in 1..(n + l + 1) /\ ~(n + j <= n + 1) /\ (n + j) - n = j
      BY <1>3, <2>2
    <3> QED BY <1>5, <3>1
  <2> QED BY <2>1, <2>2
<1>8. ASSUME NEW k \in DOMAIN both PROVE h[k + 1] = Effect(both[k], h[k])
  <2>1. CASE k \in 1..n
    <3>1. h[k + 1] = f[k + 1] /\ h[k] = f[k]
      BY <1>3, <1>6, <2>1
    <3> QED BY <1>3, <1>2, <2>1, <3>1 DEF Leads
  <2>2. CASE \E j \in 1..l : k = n + j
    <3>1. PICK j \in 1..l : k = n + j
      BY <2>2
    <3>2. k + 1 = n + (j + 1) /\ j \in 1..(l + 1) /\ j + 1 \in 1..(l + 1)
      BY <1>3, <3>1
    <3>3. h[k + 1] = g[j + 1] /\ h[k] = g[j]
      BY <1>7, <3>1, <3>2
    <3>4. g[j + 1] = Effect(q[j], g[j]) /\ both[k] = q[j]
      BY <1>3, <3>1 DEF Leads
    <3> QED BY <3>3, <3>4
  <2> QED BY <1>3, <2>1, <2>2
<1>9. h[1] = f[1] /\ h[Len(both) + 1] = g[l + 1]
  <2>1. 1 \in 1..(n + 1) /\ l + 1 \in 1..(l + 1) /\ Len(both) + 1 = n + (l + 1)
    BY <1>3
  <2> QED BY <1>6, <1>7, <2>1
<1>10. Leads(ops, h)'
  BY <1>1, <1>8 DEF Leads, Grows
<1> QED BY <1>1, <1>9, <1>10 DEF l, Grows

\* Operations on presets change no line.
LEMMA SameLines ==
  ASSUME NEW A, NEW s \in Seq(A), \A o \in A : o.op \in {"create", "update", "delete_pool"}, NEW R
  PROVE  \E f : Leads(s, f) /\ f[1] = R /\ f[Len(s) + 1] = R
<1> DEFINE f == [i \in 1..(Len(s) + 1) |-> R]
<1>1. Len(s) \in Nat /\ DOMAIN s = 1..Len(s) /\ \A k \in DOMAIN s : s[k] \in A
  BY LenProperties, ElementOfSeq
<1>2. \A i \in 1..(Len(s) + 1) : f[i] = R
  OBVIOUS
<1> HIDE DEF f
<1>3. ASSUME NEW k \in DOMAIN s PROVE f[k + 1] = Effect(s[k], f[k])
  <2>1. f[k] = R /\ f[k + 1] = R
    BY <1>1, <1>2
  <2>2. s[k].op \in {"create", "update", "delete_pool"}
    BY <1>1
  <2> QED BY <2>1, <2>2 DEF Effect
<1>4. f[1] = R /\ f[Len(s) + 1] = R
  BY <1>1, <1>2
<1> QED BY <1>3, <1>4 DEF Leads

\* The lines that the setlist has, and those that are not removed.
Row(x) == [name |-> x.name, posi |-> x.posi]
FirstRows == {Row(x) : x \in Live}
Staying == {e \in FirstRows : job.prune => \A x \in Surplus : e.posi # x.posi}

LEMMA FirstMatches ==
  ASSUME DeviceInv, p.live = pool, NEW R, R = FirstRows
  PROVE  Matches(R)
<1>1. \A x \in Live : Row(x) \in R /\ Row(x).name = x.name /\ Row(x).posi = x.posi
  BY DEF FirstRows, Row
<1>2. \A e \in R : \E x \in Live : e = Row(x)
  BY DEF FirstRows
<1>3. \A r \in refs : Line(r) \in Live /\ Line(r).posi = r.posi /\ Line(r).name = NameIn(pool, r.rcid)
  BY LiveFacts DEF Line
<1>4. \A x \in Live : \E r \in refs : x = Line(r)
  BY LiveFacts
<1>5. ASSUME NEW r \in refs PROVE \E e \in R : e.posi = r.posi
  BY <1>1, <1>3
<1>6. ASSUME NEW e \in R PROVE \E r \in refs : e.posi = r.posi /\ e.name = NameIn(pool, r.rcid)
  <2>1. PICK x \in Live : e = Row(x)
    BY <1>2
  <2>2. PICK r \in refs : x = Line(r)
    BY <1>4
  <2> QED BY <1>1, <1>3, <2>1, <2>2
<1>7. \A r, s \in refs : r.posi = s.posi => r = s
  BY DEF DeviceInv, SoundDevice
<1> QED BY <1>5, <1>6, <1>7 DEF Matches

LEMMA FirstFits ==
  ASSUME DeviceInv, job' = job,
         p' = [live |-> p.live, moves |-> FirstMoved, occupied |-> FirstOccupied, fixed |-> FirstFixed],
         NEW R, R = Staying
  PROVE  Fits(R)'
<1>1. /\ \A x \in Live : Row(x).name = x.name /\ Row(x).posi = x.posi /\ x.posi \in Positions
      /\ \A x, y \in Live : x.posi = y.posi => x = y
      /\ Surplus \subseteq Astray /\ Astray \subseteq Live
  BY LiveFacts DEF Row, Surplus, Astray
<1>2. \A e \in R : \E x \in Live : e = Row(x) /\ (job.prune => x \notin Surplus)
  BY <1>1 DEF Staying, FirstRows
<1>3. \A x \in Live : (job.prune => x \notin Surplus) => Row(x) \in R
  BY <1>1 DEF Staying, FirstRows
<1>4. /\ p'.moves = {FirstMove(d) : d \in Todo} /\ p'.occupied = FirstOccupied /\ p'.fixed = FirstFixed
  BY MovesSet DEF FirstMoved
<1>5. /\ \A d \in job.refs : d = [name |-> d.name, posi |-> d.posi] /\ d.posi \in Positions
      /\ \A d, e \in job.refs : d.posi = e.posi => d = e
      /\ \A d \in Todo : d \in job.refs
  BY JobFacts, Sources DEF DeviceInv
<1>6. \A x \in Live, d \in job.refs : InPlace(x, d) <=> Row(x) = d
  BY <1>1, <1>5 DEF InPlace, Row
<1>7. \A d \in Todo : /\ FirstMove(d).name = d.name /\ FirstMove(d).to = d.posi /\ Aim(FirstMove(d)) = d
                      /\ \A r \in Source(d) : FirstMove(d).from = r.posi
                      /\ FirstMove(d).from # None => \E r \in Source(d) : r.posi = FirstMove(d).from
  BY <1>5, FirstMoves DEF Aim
<1>8. \A d \in Todo : \A r \in Source(d) : r \in Astray /\ r.name = d.name /\ r \notin Surplus
  BY DEF Source, Surplus
<1>9. \A e \in R : e.posi \in Positions
  BY <1>1, <1>2
<1>10. p'.occupied = {e.posi : e \in R}
  <2>1. ASSUME NEW e \in R PROVE e.posi \in FirstOccupied
    BY <1>1, <1>2 DEF FirstOccupied
  <2>2. ASSUME NEW i \in FirstOccupied PROVE \E e \in R : i = e.posi
    <3>1. PICK x \in Live : i = x.posi /\ (job.prune => x \notin Surplus)
      BY <2>2 DEF FirstOccupied
    <3> QED BY <1>1, <1>3, <3>1
  <2> QED BY <1>4, <2>1, <2>2
<1>11. ASSUME NEW m \in p'.moves
       PROVE  /\ Aim(m) \in job.refs \ R
              /\ m.from = None \/ Start(m) \in R
  <2>1. PICK d \in Todo : m = FirstMove(d)
    BY <1>4
  <2>2. Aim(m) = d /\ d \in job.refs
    BY <1>5, <1>7, <2>1
  <2>3. d \notin R
    BY <1>2, <1>6, <2>2 DEF Todo
  <2>4. ASSUME m.from # None PROVE Start(m) \in R
    <3>1. PICK r \in Source(d) : r.posi = m.from
      BY <1>7, <2>1, <2>4
    <3>2. Start(m) = Row(r)
      BY <1>7, <1>8, <2>1, <3>1 DEF Start, Row
    <3> QED BY <1>1, <1>3, <1>8, <3>1, <3>2
  <2> QED BY <2>2, <2>3, <2>4
<1>12. ASSUME NEW m \in p'.moves, NEW n \in p'.moves, m.from = n.from, m.from # None PROVE m = n
  <2>1. PICK d \in Todo : m = FirstMove(d)
    BY <1>4
  <2>2. PICK e \in Todo : n = FirstMove(e)
    BY <1>4
  <2>3. PICK r \in Source(d), s \in Source(e) : r.posi = s.posi
    BY <1>7, <1>12, <2>1, <2>2
  <2>4. r = s
    BY <1>1, <1>8, <2>3
  <2> QED BY <2>1, <2>2, <2>3, <2>4, Sources
<1>13. ASSUME NEW d \in job.refs
       PROVE  \/ \E m \in p'.moves : Aim(m) = d
              \/ d \in R /\ \A m \in p'.moves : m.from # d.posi
  <2>1. CASE d \in Todo
    BY <1>4, <1>7, <2>1
  <2>2. CASE d \notin Todo
    <3>1. PICK x \in Live : InPlace(x, d)
      BY <2>2 DEF Todo
    <3>2. x \notin Astray /\ Row(x) = d /\ x.posi = d.posi
      BY <1>6, <3>1 DEF Astray, InPlace
    <3>3. d \in R
      BY <1>1, <1>3, <3>2
    <3>4. ASSUME NEW m \in p'.moves, m.from = d.posi PROVE FALSE
      <4>1. PICK e \in Todo : m = FirstMove(e)
        BY <1>4
      <4>2. m.from # None
        BY <1>5, <3>4, RestoreAssumption DEF Positions, None
      <4>3. PICK r \in Source(e) : r.posi = d.posi
        BY <1>7, <3>4, <4>1, <4>2
      <4> QED BY <1>1, <1>8, <3>2, <4>3
    <3> QED BY <3>3, <3>4
  <2> QED BY <2>1, <2>2
<1>14. ASSUME NEW e \in R
       PROVE  \/ e \in job.refs
              \/ \E m \in p'.moves : m.from = e.posi
              \/ e.posi \in p'.fixed /\ ~job.prune
  <2>1. PICK x \in Live : e = Row(x) /\ (job.prune => x \notin Surplus)
    BY <1>2
  <2>2. CASE x \notin Astray
    BY <1>6, <2>1, <2>2 DEF Astray
  <2>3. CASE x \in Surplus
    BY <1>1, <1>4, <2>1, <2>3 DEF FirstFixed
  <2>4. CASE x \in Astray /\ x \notin Surplus
    <3>1. PICK d \in Todo : x \in Source(d)
      BY <2>4 DEF Surplus
    <3> QED BY <1>1, <1>4, <1>7, <2>1, <3>1
  <2> QED BY <2>2, <2>3, <2>4
<1> QED BY <1>9, <1>10, <1>11, <1>12, <1>13, <1>14 DEF Fits

LEMMA RemovalLines ==
  ASSUME DeviceInv
  PROVE  \E g : Leads(Removals, g) /\ g[1] = FirstRows /\ g[Len(Removals) + 1] = Staying
<1> DEFINE q == Removals
           n == Len(Removals)
           g == [j \in 1..(n + 1) |-> {e \in FirstRows : \A i \in 1..(j - 1) : e.posi # q[i].pos}]
<1>1. q \in Seq(RemovalOps) /\ ToSet(q) = RemovalOps
  BY RemovalFacts
<1>2. n \in Nat /\ DOMAIN q = 1..n
  BY <1>1, LenProperties
<1> HIDE DEF q, n
<1>3. \A j \in 1..(n + 1) : g[j] = {e \in FirstRows : \A i \in 1..(j - 1) : e.posi # q[i].pos}
  OBVIOUS
<1> HIDE DEF g
<1>4. ASSUME NEW j \in 1..n PROVE g[j + 1] = Effect(q[j], g[j])
  <2>1. q[j] \in RemovalOps
    BY <1>1, <1>2 DEF ToSet
  <2>2. q[j].op = "remove_ref"
    BY <2>1, RemovalFacts, Kinds
  <2>3. j + 1 \in 1..(n + 1) /\ j \in 1..(n + 1) /\ (j + 1) - 1 = j
    BY <1>2
  <2>4. g[j] = {e \in FirstRows : \A i \in 1..(j - 1) : e.posi # q[i].pos}
        /\ g[j + 1] = {e \in FirstRows : \A i \in 1..j : e.posi # q[i].pos}
    BY <1>3, <2>3
  <2>5. \A i \in 1..j : i = j \/ i \in 1..(j - 1)
    BY <1>2
  <2>6. j \in 1..j /\ \A i \in 1..(j - 1) : i \in 1..j
    BY <1>2
  <2>7. g[j + 1] = {e \in g[j] : e.posi # q[j].pos}
    BY <2>4, <2>5, <2>6
  <2> QED BY <2>2, <2>7 DEF Effect
<1>5. g[1] = FirstRows
  <2>1. g[1] = {e \in FirstRows : \A i \in 1..(1 - 1) : e.posi # q[i].pos}
    BY <1>2, <1>3
  <2> QED BY <2>1
<1>6. g[n + 1] = Staying
  <2>1. g[n + 1] = {e \in FirstRows : \A i \in 1..n : e.posi # q[i].pos}
    <3>1. n + 1 \in 1..(n + 1) /\ (n + 1) - 1 = n
      BY <1>2
    <3> QED BY <1>3, <3>1
  <2>2. \A i \in 1..n : q[i] \in RemovalOps
    BY <1>1, <1>2 DEF ToSet
  <2>3. \A o \in RemovalOps : \E i \in 1..n : o = q[i]
    BY <1>1, <1>2 DEF ToSet
  <2>4. ASSUME NEW e \in FirstRows
        PROVE  (\A i \in 1..n : e.posi # q[i].pos) <=> (job.prune => \A x \in Surplus : e.posi # x.posi)
    <3>1. \A x : Removal(x).pos = x.posi
      BY Kinds
    <3>2. \A o \in RemovalOps : job.prune /\ \E x \in Surplus : o.pos = x.posi
      BY <3>1 DEF RemovalOps
    <3>3. ASSUME job.prune, NEW x \in Surplus PROVE \E o \in RemovalOps : o.pos = x.posi
      BY <3>1, <3>3 DEF RemovalOps
    <3> QED BY <2>2, <2>3, <3>2, <3>3
  <2> QED BY <2>1, <2>4 DEF Staying
<1> QED BY <1>2, <1>4, <1>5, <1>6 DEF Leads, q, n

LEMMA SetlistLines == ASSUME RestoreInv, ReadSetlist PROVE LinesInv'
<1> SUFFICES ASSUME ~failed' PROVE LinesInv'
  BY DEF LinesInv
<1>1. /\ c.pc = "setlist" /\ Goto("moves") /\ ~failed
      /\ UNCHANGED <<job, pool, refs>> /\ ops' = ops \o Removals
      /\ p' = [live |-> p.live, moves |-> FirstMoved, occupied |-> FirstOccupied, fixed |-> FirstFixed]
  BY SetlistRead DEF Device
<1>2. /\ p.live = pool /\ c.k = 1 /\ ops \in Seq(Ops) /\ c'.pc = "moves" /\ c'.k = 1
      /\ \A o \in Ops : o.op \in {"create", "update", "delete_pool"}
  BY <1>1 DEF RestoreInv, PlanInv, Goto
<1>3. PICK f : Leads(ops, f) /\ f[1] = FirstRows /\ f[Len(ops) + 1] = FirstRows
  BY <1>2, SameLines
<1>4. PICK g : Leads(Removals, g) /\ g[1] = FirstRows /\ g[Len(Removals) + 1] = Staying
  BY RemovalLines DEF RestoreInv
<1>5. Removals \in Seq(RemovalOps) /\ g[1] = f[Len(ops) + 1]
  BY <1>3, <1>4, RemovalFacts DEF RestoreInv
<1>6. PICK h : Leads(ops, h)' /\ h[1] = f[1] /\ h[Len(ops') + 1] = g[Len(Removals) + 1]
  <2>1. Grows(Removals)
    BY <1>1 DEF Grows
  <2> QED BY <1>3, <1>4, <1>5, <2>1, PlanLeads
<1>11. Matches(h[1])'
  <2>1. Matches(h[1])
    BY <1>2, <1>3, <1>6, FirstMatches DEF RestoreInv
  <2> QED BY <1>1, <2>1 DEF Matches, Names
<1>12. Fits(h[Len(ops) + 1])'
  <2>1. PICK R : R = Staying
    OBVIOUS
  <2>2. Fits(R)'
    BY <1>1, <2>1, FirstFits DEF RestoreInv
  <2>3. h[Len(ops') + 1] = R
    BY <1>4, <1>6, <2>1
  <2> QED BY <2>2, <2>3
<1> QED BY <1>1, <1>2, <1>6, <1>11, <1>12 DEF LinesInv, Follows

\* What the moves that are ready make of the lines: the first j of them, and all.
ReadyMove(i) == ByTarget(Ready)[i]
Advanced(R, j) == {e \in R : \A i \in 1..j : e.posi # ReadyMove(i).from} \cup {Aim(ReadyMove(i)) : i \in 1..j}
AllMoved(R) == {e \in R : \A m \in Ready : e.posi # m.from} \cup {Aim(m) : m \in Ready}

LEMMA AimFacts ==
  ASSUME RestoreInv, NEW R, Fits(R)
  PROVE  /\ \A m : Aim(m).name = m.name /\ Aim(m).posi = m.to /\ Start(m).name = m.name /\ Start(m).posi = m.from
         /\ \A m : Placed(Move(m, m.to)) = Aim(m)
         /\ None \notin Positions
         /\ \A e \in R : e.posi \in p.occupied /\ e.posi \in Positions
         /\ \A i \in p.occupied : \E e \in R : i = e.posi
         /\ \A m \in p.moves : m.from \in p.occupied \cup {None} /\ m.to \in Positions
         /\ \A m, n \in p.moves : m.to = n.to => m = n
<1>1. \A m : Aim(m).name = m.name /\ Aim(m).posi = m.to /\ Start(m).name = m.name /\ Start(m).posi = m.from
  BY DEF Aim, Start
<1>2. \A m : Placed(Move(m, m.to)) = Aim(m)
  BY Kinds DEF Placed, Aim
<1>3. /\ None \notin Positions
      /\ \A e \in R : e.posi \in p.occupied /\ e.posi \in Positions
      /\ \A i \in p.occupied : \E e \in R : i = e.posi
  BY RestoreAssumption DEF Fits, Positions, None
<1>4. ASSUME NEW m \in p.moves PROVE m.from \in p.occupied \cup {None} /\ m.to \in Positions
  <2>1. m.from = None \/ Start(m) \in R
    BY DEF Fits
  <2>2. m.to \in Positions
    BY DEF RestoreInv, MovesInv
  <2> QED BY <1>1, <1>3, <2>1, <2>2
<1>5. \A m, n \in p.moves : m.to = n.to => m = n
  BY DEF RestoreInv, MovesInv
<1> QED BY <1>1, <1>2, <1>3, <1>4, <1>5

LEMMA ReadyLines ==
  ASSUME RestoreInv, NEW R, Fits(R)
  PROVE  \E g : Leads(ReadyOps, g) /\ g[1] = R /\ g[Len(ReadyOps) + 1] = AllMoved(R)
<1> DEFINE n == Len(ReadyOps)
           g == [j \in 1..(n + 1) |-> Advanced(R, j - 1)]
<1>1. /\ n \in Nat /\ n = Cardinality(Ready) /\ DOMAIN ReadyOps = 1..n
      /\ \A i \in 1..n : ReadyMove(i) \in Ready /\ ReadyOps[i] = Move(ReadyMove(i), ReadyMove(i).to)
  <2>1. ReadyOps \in Seq(ToSet(ReadyOps)) /\ n = Cardinality(Ready)
    BY ReadyFacts
  <2>2. n \in Nat /\ DOMAIN ReadyOps = 1..n
    BY <2>1, LenProperties
  <2>3. \A i \in 1..Cardinality(Ready) :
          ReadyMove(i) \in Ready /\ ReadyOps[i] = Move(ReadyMove(i), ReadyMove(i).to)
    BY ReadyFacts DEF ReadyMove
  <2> QED BY <2>1, <2>2, <2>3
<1>2. \A m \in Ready : \E i \in 1..n : m = ReadyMove(i)
  <2>1. /\ IsFiniteSet(Ready) /\ \A m \in Ready : m \in p.moves /\ m.to \in Positions
        /\ \A x, y \in Ready : x.to = y.to => x = y
    BY ReadyFacts DEF Ready, RestoreInv, MovesInv
  <2>2. \A m \in Ready : \E i \in 1..Cardinality(Ready) : ByTarget(Ready)[i] = m
    BY <2>1, ByTargetOrder
  <2> QED BY <1>1, <2>2 DEF ReadyMove
<1>3. \A m \in Ready : m \in p.moves /\ m.to \notin p.occupied
  BY DEF Ready
<1> HIDE DEF n
<1>4. \A j \in 1..(n + 1) : g[j] = Advanced(R, j - 1)
  OBVIOUS
<1> HIDE DEF g
<1>5. ASSUME NEW j \in 1..n PROVE g[j + 1] = Effect(ReadyOps[j], g[j])
  <2> DEFINE m == ReadyMove(j)
             o == ReadyOps[j]
  <2>1. j + 1 \in 1..(n + 1) /\ j \in 1..(n + 1) /\ (j + 1) - 1 = j
    BY <1>1
  <2>2. g[j] = Advanced(R, j - 1) /\ g[j + 1] = Advanced(R, j)
    BY <1>4, <2>1
  <2>3. m \in Ready /\ o = Move(m, m.to)
    BY <1>1
  <2>4. o.op \in {"reference", "move_ref"} /\ o.from = m.from /\ Placed(o) = Aim(m)
    <3> HIDE DEF m, o
    <3>1. \A x : Placed(Move(x, x.to)) = Aim(x)
      BY AimFacts
    <3>2. \A x : Move(x, x.to).op \in {"reference", "move_ref"} /\ Move(x, x.to).from = x.from
      BY Kinds
    <3> QED BY <2>3, <3>1, <3>2
  <2>5. j \in 1..j /\ (\A i \in 1..j : i = j \/ i \in 1..(j - 1)) /\ (\A i \in 1..(j - 1) : i \in 1..j /\ i \in 1..n)
    BY <1>1
  <2>6. \A i \in 1..(j - 1) : Aim(ReadyMove(i)).posi # m.from
    <3> TAKE i \in 1..(j - 1)
    <3>1. ReadyMove(i) \in Ready
      BY <1>1, <2>5
    <3>2. ReadyMove(i).to \notin p.occupied \cup {None}
      <4>1. None \notin Positions /\ \A x \in p.moves : x.to \in Positions
        BY AimFacts
      <4> QED BY <1>3, <3>1, <4>1
    <3>3. m.from \in p.occupied \cup {None}
      BY <1>3, <2>3, AimFacts
    <3>4. Aim(ReadyMove(i)).posi = ReadyMove(i).to
      BY DEF Aim
    <3> QED BY <3>2, <3>3, <3>4
  <2> DEFINE Stay == {e \in R : \A i \in 1..(j - 1) : e.posi # ReadyMove(i).from}
             Come == {Aim(ReadyMove(i)) : i \in 1..(j - 1)}
  <2>7. Advanced(R, j - 1) = Stay \cup Come
    BY DEF Advanced
  <2>8. Advanced(R, j) = {e \in Stay : e.posi # m.from} \cup Come \cup {Aim(m)}
    <3>1. {e \in R : \A i \in 1..j : e.posi # ReadyMove(i).from} = {e \in Stay : e.posi # m.from}
      BY <2>5
    <3>2. {Aim(ReadyMove(i)) : i \in 1..j} = Come \cup {Aim(m)}
      BY <2>5
    <3> HIDE DEF Stay, Come, m
    <3> QED BY <3>1, <3>2 DEF Advanced
  <2>9. \A e \in Come : e.posi # m.from
    BY <2>6
  <2> HIDE DEF Stay, Come, m, o
  <2>10. Effect(o, Stay \cup Come) = {e \in Stay \cup Come : e.posi # m.from} \cup {Aim(m)}
    BY <2>4 DEF Effect
  <2>11. {e \in Stay \cup Come : e.posi # m.from} = {e \in Stay : e.posi # m.from} \cup Come
    BY <2>9
  <2> QED BY <2>2, <2>7, <2>8, <2>10, <2>11 DEF o
<1>6. g[1] = R
  <2>1. g[1] = Advanced(R, 0)
    BY <1>1, <1>4
  <2>2. Advanced(R, 0) = R
    BY DEF Advanced
  <2> QED BY <2>1, <2>2
<1>7. g[n + 1] = AllMoved(R)
  <2>1. n + 1 \in 1..(n + 1) /\ (n + 1) - 1 = n
    BY <1>1
  <2>2. g[n + 1] = Advanced(R, n)
    BY <1>4, <2>1
  <2>3. Advanced(R, n) = AllMoved(R)
    BY <1>1, <1>2 DEF Advanced, AllMoved
  <2> QED BY <2>2, <2>3
<1> QED BY <1>1, <1>5, <1>6, <1>7 DEF Leads, n

LEMMA ReadyFits ==
  ASSUME RestoreInv, PlanReady, NEW R, Fits(R), NEW T, T = AllMoved(R)
  PROVE  Fits(T)'
<1>1. /\ job' = job
      /\ p' = [p EXCEPT !.moves = @ \ Ready,
                        !.occupied = (@ \ {m.from : m \in Ready}) \cup {m.to : m \in Ready}]
  BY DEF PlanReady
<1>2. /\ p'.moves = p.moves \ Ready /\ p'.fixed = p.fixed
      /\ p'.occupied = (p.occupied \ {m.from : m \in Ready}) \cup {m.to : m \in Ready}
  BY <1>1 DEF RestoreInv, MovesInv
<1>3. \A m \in Ready : m \in p.moves /\ m.to \notin p.occupied
  BY DEF Ready
<1>4. \A e \in T : (e \in R /\ \A m \in Ready : e.posi # m.from) \/ \E m \in Ready : e = Aim(m)
  BY DEF AllMoved
<1>5. (\A e \in R : (\A m \in Ready : e.posi # m.from) => e \in T) /\ \A m \in Ready : Aim(m) \in T
  BY DEF AllMoved
<1>6. /\ \A m : Aim(m).posi = m.to /\ Start(m).posi = m.from
      /\ None \notin Positions
      /\ \A e \in R : e.posi \in p.occupied /\ e.posi \in Positions
      /\ \A i \in p.occupied : \E e \in R : i = e.posi
      /\ \A m \in p.moves : m.from \in p.occupied \cup {None} /\ m.to \in Positions
      /\ \A m, n \in p.moves : m.to = n.to => m = n
  BY AimFacts
<1>7. ASSUME NEW e \in T PROVE e.posi \in Positions
  <2>1. CASE e \in R
    BY <1>6, <2>1
  <2>2. CASE \E m \in Ready : e = Aim(m)
    BY <1>3, <1>6, <2>2
  <2> QED BY <1>4, <2>1, <2>2
<1>8. p'.occupied = {e.posi : e \in T}
  <2>1. ASSUME NEW e \in T PROVE e.posi \in p'.occupied
    <3>1. CASE e \in R /\ \A m \in Ready : e.posi # m.from
      BY <1>2, <1>6, <3>1
    <3>2. CASE \E m \in Ready : e = Aim(m)
      <4>1. PICK m \in Ready : e = Aim(m)
        BY <3>2
      <4>2. e.posi = m.to
        BY <1>6, <4>1
      <4> QED BY <1>2, <4>2
    <3> QED BY <1>4, <3>1, <3>2
  <2>2. ASSUME NEW i \in p'.occupied PROVE \E e \in T : i = e.posi
    <3>1. CASE i \in {m.to : m \in Ready}
      BY <1>5, <1>6, <3>1
    <3>2. CASE i \notin {m.to : m \in Ready}
      <4>1. i \in p.occupied /\ \A m \in Ready : i # m.from
        BY <1>2, <2>2, <3>2
      <4>2. PICK e \in R : i = e.posi
        BY <1>6, <4>1
      <4> QED BY <1>5, <4>1, <4>2
    <3> QED BY <3>1, <3>2
  <2> QED BY <2>1, <2>2
<1>9. ASSUME NEW m \in p'.moves
      PROVE  /\ Aim(m) \in job.refs \ T
             /\ m.from = None \/ Start(m) \in T
  <2>1. m \in p.moves /\ m \notin Ready
    BY <1>2
  <2>2. Aim(m) \in job.refs \ R /\ (m.from = None \/ Start(m) \in R)
    BY <2>1 DEF Fits
  <2>3. ASSUME NEW n \in Ready, Aim(m) = Aim(n) PROVE FALSE
    <3>1. m.to = n.to
      BY <1>6, <2>3
    <3> QED BY <1>3, <1>6, <2>1, <3>1
  <2>4. m.from = None \/ \A n \in Ready : n.from # m.from
    BY <1>3, <2>1 DEF Fits
  <2>5. Aim(m) \notin T
    BY <1>4, <2>2, <2>3
  <2> QED BY <1>5, <1>6, <2>2, <2>4, <2>5
<1>10. \A m, n \in p'.moves : m.from = n.from /\ m.from # None => m = n
  BY <1>2 DEF Fits
<1>11. ASSUME NEW d \in job.refs
       PROVE  \/ \E m \in p'.moves : Aim(m) = d
              \/ d \in T /\ \A m \in p'.moves : m.from # d.posi
  <2>1. CASE \E m \in p.moves : Aim(m) = d
    <3>1. PICK m \in p.moves : Aim(m) = d
      BY <2>1
    <3>2. CASE m \in Ready
      <4>1. d \in T /\ d.posi = m.to /\ m.to \notin p.occupied \cup {None}
        BY <1>3, <1>5, <1>6, <3>1, <3>2
      <4> QED BY <1>2, <1>6, <4>1
    <3> QED BY <1>2, <3>1, <3>2
  <2>2. CASE d \in R /\ \A m \in p.moves : m.from # d.posi
    BY <1>2, <1>3, <1>5, <2>2
  <2> QED BY <2>1, <2>2 DEF Fits
<1>12. ASSUME NEW e \in T
       PROVE  \/ e \in job.refs
              \/ \E m \in p'.moves : m.from = e.posi
              \/ e.posi \in p'.fixed /\ ~job.prune
  <2>1. CASE e \in R /\ \A m \in Ready : e.posi # m.from
    BY <1>2, <2>1 DEF Fits
  <2>2. CASE \E m \in Ready : e = Aim(m)
    BY <1>3, <2>2 DEF Fits
  <2> QED BY <1>4, <2>1, <2>2
<1> QED BY <1>1, <1>7, <1>8, <1>9, <1>10, <1>11, <1>12 DEF Fits

\* What is left when a reference is parked.
ParkedRow == [name |-> Parked.name, posi |-> Spot]
OneParked(R) == {e \in R : e.posi # Parked.from} \cup {ParkedRow}

LEMMA ParkFits ==
  ASSUME RestoreInv, PlanPark, Free # {}, NEW R, Fits(R), NEW T, T = OneParked(R)
  PROVE  Fits(T)'
<1> DEFINE n == [name |-> Parked.name, to |-> Parked.to, from |-> Spot]
<1>1. /\ Parked \in p.moves /\ Parked.from # None /\ Spot \in Positions /\ Spot \notin p.occupied
      /\ (\A m \in p.moves : m.to # Spot) /\ Parked = [name |-> Parked.name, to |-> Parked.to, from |-> Parked.from]
  BY SomeMover, SomeSpot DEF Movers, Free, RestoreInv, MovesInv
<1>2. [Parked EXCEPT !.from = Spot] = n
  BY <1>1
<1>3. n.name = Parked.name /\ n.to = Parked.to /\ n.from = Spot
  OBVIOUS
<1>4. job' = job
  BY ParkFacts
<1>5. /\ p'.moves = (p.moves \ {Parked}) \cup {n} /\ p'.fixed = p.fixed
      /\ p'.occupied = (p.occupied \ {Parked.from}) \cup {Spot}
  <2>1. p' = [p EXCEPT !.moves = (@ \ {Parked}) \cup {n}, !.occupied = (@ \ {Parked.from}) \cup {Spot}]
    BY <1>2, ParkFacts, Zenon
  <2>2. p = [live |-> p.live, moves |-> p.moves, occupied |-> p.occupied, fixed |-> p.fixed]
    BY DEF RestoreInv, MovesInv
  <2> HIDE DEF n
  <2> QED BY <2>1, <2>2
<1> HIDE DEF n
<1>6. /\ \A m : Aim(m).name = m.name /\ Aim(m).posi = m.to /\ Start(m).name = m.name /\ Start(m).posi = m.from
      /\ None \notin Positions
      /\ \A e \in R : e.posi \in p.occupied /\ e.posi \in Positions
      /\ \A i \in p.occupied : \E e \in R : i = e.posi
      /\ \A m \in p.moves : m.from \in p.occupied \cup {None} /\ m.to \in Positions
  BY AimFacts
<1>7. Aim(n) = Aim(Parked) /\ Start(n) = ParkedRow /\ ParkedRow.posi = Spot
  BY <1>3 DEF Aim, Start, ParkedRow
<1>8. \A e \in T : (e \in R /\ e.posi # Parked.from) \/ e = ParkedRow
  BY DEF OneParked
<1>9. (\A e \in R : e.posi # Parked.from => e \in T) /\ ParkedRow \in T
  BY DEF OneParked
<1>10. \A e \in T : e.posi \in Positions
  BY <1>1, <1>6, <1>7, <1>8
<1>11. p'.occupied = {e.posi : e \in T}
  <2>1. \A e \in T : e.posi \in p'.occupied
    BY <1>5, <1>6, <1>7, <1>8
  <2>2. ASSUME NEW i \in p'.occupied PROVE \E e \in T : i = e.posi
    <3>1. CASE i = Spot
      BY <1>7, <1>9, <3>1
    <3>2. CASE i # Spot
      <4>1. i \in p.occupied /\ i # Parked.from
        BY <1>5, <2>2, <3>2
      <4>2. PICK e \in R : i = e.posi
        BY <1>6, <4>1
      <4>3. e \in T
        BY <1>9, <4>1, <4>2
      <4> QED BY <4>2, <4>3
    <3> QED BY <3>1, <3>2
  <2> QED BY <2>1, <2>2
<1>12. ASSUME NEW m \in p'.moves
       PROVE  /\ Aim(m) \in job.refs \ T
              /\ m.from = None \/ Start(m) \in T
  <2>1. ASSUME NEW o \in p.moves PROVE Aim(o) \in job.refs \ T
    <3>1. Aim(o) \in job.refs \ R
      BY DEF Fits
    <3>2. Aim(o).posi = o.to /\ o.to # Spot
      BY <1>1, <1>6
    <3>3. Aim(o) # ParkedRow
      BY <1>7, <3>2
    <3> QED BY <1>8, <3>1, <3>3
  <2>2. CASE m = n
    BY <1>1, <1>7, <1>9, <2>1, <2>2
  <2>3. CASE m # n
    <3>1. m \in p.moves /\ m # Parked
      BY <1>5, <2>3
    <3>2. m.from = None \/ (Start(m) \in R /\ m.from # Parked.from)
      BY <1>1, <3>1 DEF Fits
    <3> QED BY <1>6, <1>9, <2>1, <3>1, <3>2
  <2> QED BY <2>2, <2>3
<1>13. ASSUME NEW m \in p'.moves, NEW o \in p'.moves, m.from = o.from, m.from # None PROVE m = o
  <2>1. \A x \in p.moves : x.from # Spot
    BY <1>1, <1>6
  <2> QED BY <1>3, <1>5, <1>13, <2>1 DEF Fits
<1>14. ASSUME NEW d \in job.refs
       PROVE  \/ \E m \in p'.moves : Aim(m) = d
              \/ d \in T /\ \A m \in p'.moves : m.from # d.posi
  <2>1. CASE \E m \in p.moves : Aim(m) = d
    <3>1. PICK m \in p.moves : Aim(m) = d
      BY <2>1
    <3> QED BY <1>5, <1>7, <3>1
  <2>2. CASE d \in R /\ \A m \in p.moves : m.from # d.posi
    BY <1>1, <1>3, <1>5, <1>6, <1>9, <2>2
  <2> QED BY <2>1, <2>2 DEF Fits
<1>15. ASSUME NEW e \in T
       PROVE  \/ e \in job.refs
              \/ \E m \in p'.moves : m.from = e.posi
              \/ e.posi \in p'.fixed /\ ~job.prune
  <2>1. CASE e = ParkedRow
    BY <1>3, <1>5, <1>7, <2>1
  <2>2. CASE e \in R /\ e.posi # Parked.from
    <3>1. CASE \E m \in p.moves : m.from = e.posi
      BY <1>5, <2>2, <3>1
    <3>2. CASE ~\E m \in p.moves : m.from = e.posi
      BY <1>5, <2>2, <3>2 DEF Fits
    <3> QED BY <3>1, <3>2
  <2> QED BY <1>8, <2>1, <2>2
<1> QED BY <1>4, <1>10, <1>11, <1>12, <1>13, <1>14, <1>15 DEF Fits

\* When no move is left, the plan leads where it shall.
LEMMA EndReached ==
  ASSUME NEW R, Fits(R), p.moves = {}
  PROVE  Reached(R)
BY DEF Fits, Reached

\* The setlist has the lines that it had.
LEMMA LinesSame ==
  ASSUME NEW R, Matches(R), UNCHANGED <<job, pool, refs>>
  PROVE  Matches(R)'
BY DEF Matches, Names

LEMMA PlanReadyLines == ASSUME RestoreInv, LinesInv, PlanReady PROVE LinesInv'
<1> SUFFICES ASSUME ~failed' PROVE LinesInv'
  BY DEF LinesInv
<1>1. /\ c.pc = "moves" /\ UNCHANGED <<job, pool, refs, c, edited, failed>> /\ ops' = ops \o ReadyOps
  BY Zenon DEF PlanReady, Planning, ReadyOps, Device, Panel
<1>2. c.k = 1
  BY <1>1 DEF RestoreInv, PlanInv
<1>3. PICK f : /\ Leads(ops, f) /\ Fits(f[Len(ops) + 1])
               /\ ~edited.plan => Matches(f[1])
  BY <1>1, <1>2 DEF LinesInv, Follows
<1>4. PICK R, T : R = f[Len(ops) + 1] /\ T = AllMoved(R)
  OBVIOUS
<1>5. Fits(R)
  BY <1>3, <1>4
<1>6. PICK g : Leads(ReadyOps, g) /\ g[1] = R /\ g[Len(ReadyOps) + 1] = T
  BY <1>4, <1>5, ReadyLines
<1>7. PICK S : ReadyOps \in Seq(S) /\ g[1] = f[Len(ops) + 1]
  BY <1>4, <1>6, ReadyFacts
<1>8. PICK h : Leads(ops, h)' /\ h[1] = f[1] /\ h[Len(ops') + 1] = g[Len(ReadyOps) + 1]
  <2>1. Grows(ReadyOps)
    BY <1>1 DEF Grows
  <2> QED BY <1>3, <1>6, <1>7, <2>1, PlanLeads
<1>9. Fits(h[Len(ops) + 1])'
  <2>1. Fits(T)'
    BY <1>4, <1>5, ReadyFits
  <2>2. h[Len(ops') + 1] = T
    BY <1>6, <1>8
  <2> QED BY <2>1, <2>2
<1>10. ~edited.plan => Matches(h[1])'
  BY <1>1, <1>3, <1>8, LinesSame
<1> QED BY <1>1, <1>2, <1>8, <1>9, <1>10 DEF LinesInv, Follows

LEMMA PlanParkLines == ASSUME RestoreInv, LinesInv, PlanPark PROVE LinesInv'
<1> SUFFICES ASSUME ~failed' PROVE LinesInv'
  BY DEF LinesInv
<1> DEFINE o == Move(Parked, Spot)
           q == <<o>>
<1>1. /\ c.pc = "moves" /\ UNCHANGED <<job, pool, refs, c, edited, failed>> /\ ops' = Append(ops, o) /\ Free # {}
  BY ParkFacts DEF Device, Panel
<1>2. c.k = 1
  BY <1>1 DEF RestoreInv, PlanInv
<1>3. PICK f : /\ Leads(ops, f) /\ Fits(f[Len(ops) + 1])
               /\ ~edited.plan => Matches(f[1])
  BY <1>1, <1>2 DEF LinesInv, Follows
<1>4. PICK R, T : R = f[Len(ops) + 1] /\ T = OneParked(R)
  OBVIOUS
<1>5. Fits(R)
  BY <1>3, <1>4
<1>6. Effect(o, R) = T
  <2>1. o.op \in {"reference", "move_ref"} /\ o.from = Parked.from /\ Placed(o) = ParkedRow
    BY Kinds DEF Placed, ParkedRow
  <2> HIDE DEF o
  <2> QED BY <1>4, <2>1 DEF Effect, OneParked
<1> HIDE DEF o
<1>7. q \in Seq({o}) /\ Len(q) = 1 /\ DOMAIN q = {1} /\ q[1] = o
  OBVIOUS
<1>8. PICK g : Leads(q, g) /\ g[1] = R /\ g[2] = T
  <2> DEFINE g == <<R, T>>
  <2>1. g[1] = R /\ g[2] = T
    OBVIOUS
  <2> HIDE DEF g, q
  <2>2. Leads(q, g)
    BY <1>6, <1>7, <2>1 DEF Leads
  <2> QED BY <2>1, <2>2
<1>9. ops' = ops \o q
  <2>1. ops \in Seq(Ops \cup {o}) /\ o \in Ops \cup {o}
    BY SeqMonotonic DEF RestoreInv, PlanInv
  <2> QED BY <1>1, <2>1, AppendIsConcat
<1> HIDE DEF q
<1>10. PICK h : Leads(ops, h)' /\ h[1] = f[1] /\ h[Len(ops') + 1] = T
  <2>1. g[1] = f[Len(ops) + 1] /\ g[Len(q) + 1] = T
    BY <1>4, <1>7, <1>8
  <2>2. \E h : Leads(ops, h)' /\ h[1] = f[1] /\ h[Len(ops') + 1] = g[Len(q) + 1]
    <3>1. PICK S : q \in Seq(S)
      BY <1>7
    <3>2. Grows(q)
      BY <1>9 DEF Grows
    <3> QED BY <1>3, <1>8, <2>1, <3>1, <3>2, PlanLeads
  <2> QED BY <2>1, <2>2
<1>11. Fits(h[Len(ops) + 1])'
  <2>1. Fits(T)'
    BY <1>1, <1>4, <1>5, ParkFits
  <2> QED BY <1>10, <2>1
<1>12. ~edited.plan => Matches(h[1])'
  BY <1>1, <1>3, <1>10, LinesSame
<1> QED BY <1>1, <1>2, <1>10, <1>11, <1>12 DEF LinesInv, Follows

LEMMA PlanEndLines == ASSUME RestoreInv, LinesInv, PlanEnd PROVE LinesInv'
<1> SUFFICES ASSUME ~failed' PROVE LinesInv'
  BY DEF LinesInv
<1>1. /\ c.pc = "moves" /\ p.moves = {} /\ UNCHANGED <<job, pool, refs, edited, failed>> /\ ops' = ops \o Deletions
      /\ c' = [c EXCEPT !.pc = IF ops' = <<>> THEN "done" ELSE "apply"]
  BY DEF PlanEnd, Deletions, Deletion, Gone, Device, Panel
<1>2. c.k = 1 /\ p.live = pool /\ c'.k = 1 /\ c'.pc \in {"apply", "done"}
  BY <1>1 DEF RestoreInv, PlanInv
<1>3. PICK f : /\ Leads(ops, f) /\ Fits(f[Len(ops) + 1])
               /\ ~edited.plan => Matches(f[1])
  BY <1>1, <1>2 DEF LinesInv, Follows
<1>4. PICK R : R = f[Len(ops) + 1]
  OBVIOUS
<1>5. Fits(R)
  BY <1>3, <1>4
<1>6. Deletions \in Seq(DeletionOps) /\ \A o \in DeletionOps : o.op \in {"create", "update", "delete_pool"}
  <2>1. Deletions \in Seq(DeletionOps) /\ \A o \in DeletionOps : \E x \in Gone : o = Deletion(x)
    BY <1>2, DeletionFacts DEF RestoreInv
  <2>2. \A x : Deletion(x).op = "delete_pool"
    BY DEF Deletion, Op
  <2> QED BY <2>1, <2>2
<1>7. PICK g : Leads(Deletions, g) /\ g[1] = R /\ g[Len(Deletions) + 1] = R
  BY <1>6, SameLines
<1>8. PICK h : Leads(ops, h)' /\ h[1] = f[1] /\ h[Len(ops') + 1] = g[Len(Deletions) + 1]
  <2>1. Grows(Deletions)
    BY <1>1 DEF Grows
  <2> QED BY <1>3, <1>4, <1>6, <1>7, <2>1, PlanLeads
<1>9. Reached(h[Len(ops) + 1])'
  <2>1. Reached(R)
    BY <1>1, <1>5, EndReached
  <2>2. h[Len(ops') + 1] = R
    BY <1>7, <1>8
  <2> QED BY <1>1, <2>1, <2>2 DEF Reached
<1>10. ~edited.plan => Matches(h[1])'
  BY <1>1, <1>3, <1>8, LinesSame
<1> QED BY <1>1, <1>2, <1>8, <1>9, <1>10 DEF LinesInv, Follows
-----------------------------------------------------------------------------
(* The lines of the setlist: carrying the plan out                         *)

\* An operation on a preset leaves the names of the lines alone.
LEMMA RenamedLines ==
  ASSUME NEW R, Matches(R), job' = job, refs' = refs,
         \A r \in refs : NameIn(pool, r.rcid) \in Names => NameIn(pool', r.rcid) = NameIn(pool, r.rcid)
  PROVE  Matches(R)'
BY DEF Matches, Names

\* A reference is taken off, and its line with it.
LEMMA DroppedLine ==
  ASSUME RestoreInv, NEW R, Matches(R), job' = job, pool' = pool,
         NEW s \in refs, refs' = {r \in refs : r.cid # s.cid}, NEW T, T = {e \in R : e.posi # s.posi}
  PROVE  Matches(T)'
<1>1. \A r \in refs : r.cid = s.cid <=> r.posi = s.posi
  BY DEF RestoreInv, DeviceInv, SoundDevice
<1>2. /\ \A r \in refs : \E e \in R : r.posi = e.posi
      /\ \A e \in R : \E r \in refs : r.posi = e.posi
  BY DEF Matches
<1>3. ASSUME NEW r \in refs' PROVE \E e \in T : r.posi = e.posi
  BY <1>1, <1>2
<1>4. ASSUME NEW e \in T PROVE \E r \in refs' : r.posi = e.posi
  BY <1>1, <1>2
<1>5. {r.posi : r \in refs'} = {e.posi : e \in T}
  BY <1>3, <1>4
<1> QED BY <1>5 DEF Matches, Names

\* A reference is added, and its line with it.
LEMMA AddedLine ==
  ASSUME RestoreInv, NEW R, Matches(R), job' = job, pool' = pool, NEW o, At(refs, o.pos) = {},
         NEW n, n.posi = o.pos, refs' = refs \cup {n}, NameIn(pool, n.rcid) = o.name,
         NEW T, T = R \cup {Placed(o)}
  PROVE  Matches(T)'
<1>1. Placed(o).name = o.name /\ Placed(o).posi = o.pos
  BY DEF Placed
<1>2. \A r \in refs : r.posi # o.pos
  BY DEF At
<1>3. \A e \in R : e.posi # o.pos
  BY <1>2 DEF Matches
<1>4. {r.posi : r \in refs'} = {e.posi : e \in T}
  <2>1. {r.posi : r \in refs'} = {r.posi : r \in refs} \cup {o.pos}
    OBVIOUS
  <2>2. {e.posi : e \in T} = {e.posi : e \in R} \cup {o.pos}
    BY <1>1
  <2> QED BY <2>1, <2>2 DEF Matches
<1>5. ASSUME NEW r \in refs', NEW e \in T, r.posi = e.posi, e.name \in Names
      PROVE  NameIn(pool, r.rcid) = e.name
  <2>1. CASE r = n
    BY <1>1, <1>3, <1>5, <2>1
  <2>2. CASE r # n
    BY <1>1, <1>2, <1>5, <2>2 DEF Matches
  <2> QED BY <2>1, <2>2
<1> QED BY <1>4, <1>5 DEF Matches, Names

\* The lines that the plan leads to next.
LEMMA NextLines ==
  ASSUME PlanInv, Working, NEW ok, End(ok), NEW f, Leads(ops, f)
  PROVE  f[c'.k] = Effect(Now, f[c.k]) /\ Leads(ops, f)' /\ c'.pc \in {"apply", "done"}
<1>1. c'.k = c.k + 1 /\ c'.pc \in {"apply", "done"} /\ c.k \in DOMAIN ops /\ ops' = ops
  BY Next1
<1> QED BY <1>1 DEF Leads, Now

LEMMA NextPoint ==
  ASSUME RestoreInv, Working, NEW ok, End(ok)
  PROVE  UNCHANGED <<job, ops>> /\ c'.pc \in {"apply", "done"}
<1>1. PlanInv
  BY DEF RestoreInv
<1> QED BY <1>1, Next1

\* A step of the applying leads on.
LEMMA LinesStep ==
  ASSUME RestoreInv, LinesInv, Working, UNCHANGED <<job, ops>>, ~failed, edited'.plan = edited.plan,
         c'.pc \in {"apply", "add", "verify", "drop", "done"},
         \A f : Leads(ops, f) /\ ~edited.plan /\ Follows(f[c.k]) => Follows(f[c.k])'
  PROVE  LinesInv'
<1>1. PICK f : Leads(ops, f) /\ (~edited.plan => Follows(f[c.k])) /\ Reached(f[Len(ops) + 1])
  BY DEF LinesInv, Working
<1>2. ~edited'.plan => Follows(f[c.k])'
  BY <1>1
<1>3. Leads(ops, f)' /\ Reached(f[Len(ops) + 1])'
  BY <1>1 DEF Leads, Reached
<1> QED BY <1>2, <1>3 DEF LinesInv

LEMMA PresetLines ==
  ASSUME RestoreInv, RestoreInv', LinesInv, Create \/ UpdateContent \/ DeletePool
  PROVE  LinesInv'
<1> SUFFICES ASSUME ~failed' PROVE LinesInv'
  BY DEF LinesInv
<1>1. /\ Working /\ c.pc = "apply" /\ Now.op \in {"create", "update", "delete_pool"} /\ End(TRUE) /\ ~failed
      /\ UNCHANGED <<refs, edited>>
      /\ \A r \in refs : NameIn(pool, r.rcid) \in Names => NameIn(pool', r.rcid) = NameIn(pool, r.rcid)
  <2>1. CASE Create
    <3> DEFINE n == [cid |-> made + 1, name |-> Now.name, content |-> Now.arg]
    <3>1. pool' = pool \cup {n} /\ End(TRUE) /\ ~failed
      BY <2>1, EndFine DEF Create
    <3>2. n.cid = made + 1
      OBVIOUS
    <3> HIDE DEF n
    <3>3. \A r \in refs : NameIn(pool', r.rcid) = NameIn(pool, r.rcid)
      BY <2>1, <3>1, <3>2, NewPreset DEF Create, RestoreInv
    <3> QED BY <2>1, <3>1, <3>3 DEF Create, Doing, Working
  <2>2. CASE UpdateContent
    <3>1. pool' = Stored(Now.name, Now.arg) /\ End(TRUE) /\ ~failed
      BY <2>2, EndFine DEF UpdateContent, Stored
    <3>2. \A cid : NameIn(pool', cid) = NameIn(pool, cid)
      BY <3>1, Rewritten DEF RestoreInv, DeviceInv
    <3> QED BY <2>2, <3>1, <3>2 DEF UpdateContent, Doing, Working
  <2>3. CASE DeletePool
    <3>1. /\ Working /\ Now.op = "delete_pool" /\ End(TRUE) /\ ~failed
          /\ pool' = pool \ Named(pool, Now.name)
      BY <2>3, EndFine DEF DeletePool, Doing, Working
    <3>2. Now.name \notin Names
      BY <3>1, Next1 DEF RestoreInv, Planned
    <3>3. \A cid : NameIn(pool, cid) \in Names => NameIn(pool', cid) = NameIn(pool, cid)
      BY <3>1, <3>2, OthersNamed DEF RestoreInv, DeviceInv
    <3> QED BY <2>3, <3>1, <3>3 DEF DeletePool, Doing
  <2> QED BY <2>1, <2>2, <2>3
<1>2. UNCHANGED <<job, ops>> /\ c'.pc \in {"apply", "done"}
  BY <1>1, NextPoint
<1>3. ASSUME NEW f, Leads(ops, f), Follows(f[c.k]) PROVE Follows(f[c.k])'
  <2>1. f[c'.k] = f[c.k]
    BY <1>1, <1>3, NextLines DEF RestoreInv, Effect
  <2>2. Matches(f[c.k])
    BY <1>1, <1>3 DEF Follows
  <2>3. Matches(f[c.k])'
    BY <1>1, <1>2, <2>1, <2>2, RenamedLines
  <2> QED BY <1>2, <2>3 DEF Follows
<1> QED BY <1>1, <1>2, <1>3, LinesStep

LEMMA LookLines == ASSUME RestoreInv, LinesInv, Look PROVE LinesInv'
<1> SUFFICES ASSUME ~failed' PROVE LinesInv'
  BY DEF LinesInv
<1>1. /\ Working /\ Moving /\ c.pc = "apply" /\ UNCHANGED <<job, pool, refs, ops>> /\ failed' = failed
      /\ c'.pc = "add" /\ c'.k = c.k /\ edited'.plan = edited.plan /\ At(refs, Now.pos) = {}
      /\ Now.op = "move_ref" => \E r \in refs : r.cid = c'.src /\ r.posi = Now.from
  BY LookFine
<1>2. Now' = Now
  BY <1>1 DEF Now
<1>3. ASSUME NEW f, Follows(f[c.k]) PROVE Follows(f[c.k])'
  <2>1. Matches(f[c.k])
    BY <1>1, <1>3 DEF Follows
  <2>2. Matches(f[c.k])'
    BY <1>1, <2>1, LinesSame
  <2>3. SourceThere'
    BY <1>1, <1>2 DEF SourceThere, At
  <2> QED BY <1>1, <1>2, <2>2, <2>3 DEF Follows
<1> QED BY <1>1, <1>3, LinesStep

LEMMA AddLines == ASSUME RestoreInv, LinesInv, Add PROVE LinesInv'
<1> SUFFICES ASSUME ~failed' PROVE LinesInv'
  BY DEF LinesInv
<1>1. /\ Working /\ c.pc = "add" /\ Goto("verify") /\ UNCHANGED <<job, pool, edited, ops>> /\ ~failed
  BY DEF Add, Working, Panel
<1>2. c'.pc = "verify" /\ c'.k = c.k /\ c'.src = c.src /\ Now' = Now
  BY <1>1 DEF Goto, RestoreInv, PlanInv, Now
<1>3. NameIn(pool, c.cid) = Now.name
  BY <1>1 DEF RestoreInv, MidwayInv
<1>4. ASSUME NEW f, Follows(f[c.k]) PROVE Follows(f[c.k])'
  <2>1. Matches(f[c.k]) /\ At(refs, Now.pos) = {} /\ SourceThere
    BY <1>1, <1>4 DEF Follows
  <2>2. CASE refs' = refs
    BY <1>2, <2>1, <2>2 DEF Follows, SourceThere
  <2>3. CASE refs' # refs
    <3> DEFINE n == [cid |-> made + 1, posi |-> Now.pos, rcid |-> c.cid]
    <3>1. refs' = refs \cup {n} /\ n.posi = Now.pos /\ n.rcid = c.cid
      BY <2>1, <2>3 DEF Add
    <3> HIDE DEF n
    <3>2. PICK T : T = f[c.k] \cup {Placed(Now)}
      OBVIOUS
    <3>3. Matches(T)'
      BY <1>1, <1>3, <2>1, <3>1, <3>2, AddedLine
    <3>4. T = f[c'.k] \cup {Placed(Now')}
      BY <1>2, <3>2
    <3>5. SourceThere'
      BY <1>2, <2>1, <3>1 DEF SourceThere
    <3> QED BY <1>2, <3>3, <3>4, <3>5 DEF Follows
  <2> QED BY <2>2, <2>3
<1> QED BY <1>1, <1>2, <1>4, LinesStep

LEMMA VerifyLines == ASSUME RestoreInv, LinesInv, Verify PROVE LinesInv'
<1> SUFFICES ASSUME ~failed' PROVE LinesInv'
  BY DEF LinesInv
<1>1. /\ Working /\ c.pc = "verify" /\ Moving /\ UNCHANGED <<job, pool, refs, ops, edited>> /\ ~failed
      /\ At(refs, Now.pos) # {}
      /\ \/ Now.op = "reference" /\ End(TRUE)
         \/ Now.op = "move_ref" /\ c'.pc = "drop" /\ c'.k = c.k /\ c'.src = c.src
  <2>1. /\ Working /\ c.pc = "verify" /\ Moving /\ UNCHANGED <<job, pool, refs, ops, edited>>
        /\ ~failed /\ \E r \in refs : r.posi = Now.pos
        /\ \/ Now.op = "reference" /\ End(TRUE)
           \/ Now.op = "move_ref" /\ c'.pc = "drop" /\ c'.k = c.k /\ c'.src = c.src
    BY VerifyFine
  <2>2. At(refs, Now.pos) # {}
    BY <2>1 DEF At
  <2> QED BY <2>1, <2>2
<1>2. ASSUME NEW f, Leads(ops, f), Follows(f[c.k]) PROVE Follows(f[c.k])'
  <2>1. PICK T : T = f[c.k] \cup {Placed(Now)}
    OBVIOUS
  <2>2. SourceThere /\ Matches(T)
    BY <1>1, <1>2, <2>1 DEF Follows
  <2>3. Matches(T)'
    BY <1>1, <2>2, LinesSame
  <2>4. CASE Now.op = "reference" /\ End(TRUE)
    <3>1. f[c'.k] = Effect(Now, f[c.k]) /\ c'.pc \in {"apply", "done"}
      BY <1>1, <1>2, <2>4, NextLines DEF RestoreInv
    <3>2. Now.from = None
      BY <1>1, <2>4, Next1 DEF RestoreInv, Planned
    <3>3. \A e \in T : e.posi # None
      <4>1. \A r \in refs : r.posi # None
        BY RestoreAssumption DEF RestoreInv, DeviceInv, SoundDevice, Positions, None
      <4> QED BY <2>2, <4>1 DEF Matches
    <3>4. f[c'.k] = T
      BY <2>1, <2>4, <3>1, <3>2, <3>3 DEF Effect
    <3> QED BY <2>3, <3>1, <3>4 DEF Follows
  <2>5. CASE Now.op = "move_ref" /\ c'.pc = "drop" /\ c'.k = c.k /\ c'.src = c.src
    <3>1. Now' = Now /\ f[c'.k] \cup {Placed(Now')} = T
      BY <1>1, <2>1, <2>5 DEF Now
    <3>2. SourceThere'
      BY <1>1, <2>2, <2>5, <3>1 DEF SourceThere
    <3> QED BY <2>3, <2>5, <3>1, <3>2 DEF Follows, Moving
  <2> QED BY <1>1, <2>4, <2>5
<1>3. c'.pc \in {"apply", "drop", "done"}
  BY <1>1, NextPoint
<1> QED BY <1>1, <1>2, <1>3, LinesStep

LEMMA LookRemovedLines == ASSUME RestoreInv, LinesInv, LookRemoved PROVE LinesInv'
<1> SUFFICES ASSUME ~failed' PROVE LinesInv'
  BY DEF LinesInv
<1>1. /\ Working /\ c.pc = "apply" /\ Now.op = "remove_ref" /\ UNCHANGED <<job, pool, refs, ops>>
      /\ ~failed /\ c'.pc = "drop" /\ c'.k = c.k /\ edited'.plan = edited.plan
      /\ \E r \in refs : r.cid = c'.src /\ r.posi = Now.pos
  BY LookRemovedFine
<1>2. Now' = Now
  BY <1>1 DEF Now
<1>3. ASSUME NEW f, Follows(f[c.k]) PROVE Follows(f[c.k])'
  <2>1. Matches(f[c.k])
    BY <1>1, <1>3 DEF Follows
  <2>2. Matches(f[c.k])'
    BY <1>1, <2>1, LinesSame
  <2> QED BY <1>1, <1>2, <2>2 DEF Follows, Moving
<1> QED BY <1>1, <1>3, LinesStep

LEMMA DropLines == ASSUME RestoreInv, LinesInv, Drop PROVE LinesInv'
<1> SUFFICES ASSUME ~failed' PROVE LinesInv'
  BY DEF LinesInv
<1>1. /\ Working /\ c.pc = "drop" /\ Now.op \in {"move_ref", "remove_ref"} /\ UNCHANGED <<pool, edited>>
      /\ refs' = {r \in refs : r.cid # c.src} /\ End(TRUE) /\ ~failed
  BY DropFine
<1>2. UNCHANGED <<job, ops>> /\ c'.pc \in {"apply", "done"}
  BY <1>1, NextPoint
<1>3. ASSUME NEW f, Leads(ops, f), Follows(f[c.k]) PROVE Follows(f[c.k])'
  <2>1. f[c'.k] = Effect(Now, f[c.k])
    BY <1>1, <1>3, NextLines DEF RestoreInv
  <2>2. CASE Now.op = "move_ref"
    <3>1. PICK R : R = f[c.k] \cup {Placed(Now)}
      OBVIOUS
    <3>2. SourceThere /\ Matches(R)
      BY <1>1, <1>3, <2>2, <3>1 DEF Follows, Moving
    <3>3. PICK s \in refs : s.cid = c.src /\ s.posi = Now.from /\ Now.from # Now.pos
      BY <2>2, <3>2 DEF SourceThere
    <3>4. PICK T : T = {e \in R : e.posi # s.posi}
      OBVIOUS
    <3>5. Matches(T)'
      BY <1>1, <1>2, <3>2, <3>3, <3>4, DroppedLine
    <3>6. T = Effect(Now, f[c.k])
      BY <2>2, <3>1, <3>3, <3>4 DEF Effect, Placed
    <3> QED BY <1>2, <2>1, <3>5, <3>6 DEF Follows
  <2>3. CASE Now.op = "remove_ref"
    <3>1. PICK R : R = f[c.k]
      OBVIOUS
    <3>2. Matches(R) /\ \E r \in refs : r.cid = c.src /\ r.posi = Now.pos
      BY <1>1, <1>3, <2>3, <3>1 DEF Follows, Moving
    <3>3. PICK s \in refs : s.cid = c.src /\ s.posi = Now.pos
      BY <3>2
    <3>4. PICK T : T = {e \in R : e.posi # s.posi}
      OBVIOUS
    <3>5. Matches(T)'
      BY <1>1, <1>2, <3>2, <3>3, <3>4, DroppedLine
    <3>6. T = Effect(Now, f[c.k])
      BY <2>3, <3>1, <3>3, <3>4 DEF Effect
    <3> QED BY <1>2, <2>1, <3>5, <3>6 DEF Follows
  <2> QED BY <1>1, <2>2, <2>3
<1> QED BY <1>1, <1>2, <1>3, LinesStep

LEMMA LinesKept ==
  ASSUME RestoreInv, RestoreInv', LinesInv, [Next]_vars
  PROVE  LinesInv'
<1>1. CASE ReadPool
  BY <1>1 DEF ReadPool, Abort, LinesInv, RestoreInv, PlanInv
<1>2. CASE ReadSetlist \/ PlanReady \/ PlanPark \/ PlanEnd
  BY <1>2, SetlistLines, PlanReadyLines, PlanParkLines, PlanEndLines
<1>3. CASE PlanBlocked
  BY <1>3 DEF PlanBlocked, LinesInv
<1>4. CASE Create \/ UpdateContent \/ DeletePool
  BY <1>4, PresetLines
<1>5. CASE Look \/ Add \/ Verify \/ LookRemoved \/ Drop
  BY <1>5, LookLines, AddLines, VerifyLines, LookRemovedLines, DropLines
<1>6. CASE PanelEdit \/ UNCHANGED vars
  <2> SUFFICES ASSUME c.pc \notin {"pool", "setlist"}, ~failed PROVE LinesInv'
    BY <1>6 DEF LinesInv, PanelEdit, vars
  <2>1. UNCHANGED <<job, ops, p, c>>
    BY <1>6 DEF PanelEdit, vars
  <2>2. PICK f : /\ Leads(ops, f) /\ (~edited.plan => Follows(f[c.k]))
                 /\ IF c.pc = "moves" THEN Fits(f[Len(ops) + 1]) ELSE Reached(f[Len(ops) + 1])
    BY DEF LinesInv
  <2>3. PICK R : R = f[Len(ops) + 1]
    OBVIOUS
  <2>4. Leads(ops, f)' /\ f[Len(ops') + 1] = R /\ (Fits(R) => Fits(R)') /\ (Reached(R) => Reached(R)')
    BY <2>1, <2>2, <2>3 DEF Leads, Fits, Reached
  <2>5. ~edited'.plan => Follows(f[c.k])'
    <3>1. CASE PanelEdit
      BY <3>1 DEF PanelEdit
    <3>2. CASE UNCHANGED vars
      <4>1. PICK S : S = f[c.k]
        OBVIOUS
      <4>2. UNCHANGED <<pool, refs, edited>>
        BY <3>2 DEF vars
      <4>3. Follows(S) => Follows(S)'
        BY <2>1, <4>2 DEF Follows, Matches, SourceThere, At, Now, Moving, Names
      <4> QED BY <2>1, <2>2, <4>1, <4>2, <4>3
    <3> QED BY <1>6, <3>1, <3>2
  <2> QED BY <2>1, <2>2, <2>3, <2>4, <2>5 DEF LinesInv
<1>7. CASE Again
  BY <1>7 DEF Again, Fresh, LinesInv
<1> QED BY <1>1, <1>2, <1>3, <1>4, <1>5, <1>6, <1>7 DEF Next, Step
-----------------------------------------------------------------------------
(* A restore that reports no error has restored                            *)

\* The references are as many as the lines, one at each position.
LEMMA AsManyRefs ==
  ASSUME DeviceInv, Matches(job.refs)
  PROVE  Cardinality(refs) = Cardinality(job.refs)
<1>1. IsFiniteSet(refs) /\ IsFiniteSet(job.refs)
  BY JobFacts DEF DeviceInv, SoundDevice
<1>2. /\ \A r \in refs : \E d \in job.refs : r.posi = d.posi
      /\ \A d \in job.refs : \E r \in refs : r.posi = d.posi
  BY DEF Matches
<1>3. /\ \A r, s \in refs : r.posi = s.posi => r = s
      /\ \A d, e \in job.refs : d.posi = e.posi => d = e
  BY JobFacts DEF DeviceInv, SoundDevice
<1> DEFINE g == [r \in refs |-> CHOOSE d \in job.refs : r.posi = d.posi]
<1>4. \A r \in refs : g[r] \in job.refs /\ g[r].posi = r.posi
  BY <1>2
<1>5. g \in [refs -> job.refs]
  BY <1>4
<1>6. \A r, s \in refs : g[r] = g[s] => r = s
  BY <1>3, <1>4
<1>7. \A d \in job.refs : \E r \in refs : g[r] = d
  BY <1>2, <1>3, <1>4
<1> HIDE DEF g
<1> QED BY <1>1, <1>5, <1>6, <1>7, SameSize

\* The presets are as many as those of the backup, one for each name.
LEMMA AsManyPresets ==
  ASSUME DeviceInv, Consistent, \A x \in pool : x.name \in Names,
         \A b \in job.presets : \E x \in pool : Named(pool, b.name) = {x}
  PROVE  Cardinality(pool) = Cardinality(job.presets)
<1>1. IsFiniteSet(pool) /\ IsFiniteSet(job.presets)
  BY JobFacts DEF DeviceInv, SoundDevice
<1>2. \A a, b \in job.presets : a.name = b.name => a = b
  BY DEF Consistent, DeviceInv
<1>3. \A x \in pool : \E b \in job.presets : b.name = x.name
  BY DEF Names
<1>4. \A b \in job.presets : \E x \in pool : x.name = b.name
  BY DEF Named
<1>5. ASSUME NEW x \in pool, NEW y \in pool, x.name = y.name PROVE x = y
  <2>1. PICK b \in job.presets : b.name = x.name
    BY <1>3
  <2>2. x \in Named(pool, b.name) /\ y \in Named(pool, b.name)
    BY <1>5, <2>1 DEF Named
  <2> QED BY <2>2
<1> DEFINE g == [x \in pool |-> CHOOSE b \in job.presets : b.name = x.name]
<1>6. \A x \in pool : g[x] \in job.presets /\ g[x].name = x.name
  BY <1>3
<1>7. g \in [pool -> job.presets]
  BY <1>6
<1>8. \A x, y \in pool : g[x] = g[y] => x = y
  BY <1>5, <1>6
<1>9. \A b \in job.presets : \E x \in pool : g[x] = b
  BY <1>2, <1>4, <1>6
<1> HIDE DEF g
<1> QED BY <1>1, <1>7, <1>8, <1>9, SameSize

\* At the end of the plan nothing is pending, and the lines are those wanted.
LEMMA DoneRestored ==
  ASSUME Consistent, RestoreInv, PresetInv, LinesInv
  PROVE  OkMeansRestored
<1> SUFFICES ASSUME c.pc = "done", ~failed, ~edited.plan
             PROVE  /\ \A b \in job.presets : \E x \in pool : x.name = b.name /\ x.content = b.content
                    /\ \A d \in job.refs : \E r \in At(refs, d.posi) : NameIn(pool, r.rcid) = d.name
                    /\ job.prune => /\ Cardinality(refs) = Cardinality(job.refs)
                                    /\ Cardinality(pool) = Cardinality(job.presets)
  BY DEF OkMeansRestored
<1>1. DeviceInv /\ Len(ops) \in Nat /\ c.k = Len(ops) + 1
  BY LenProperties DEF RestoreInv, PlanInv, PresetInv
<1>2. Pending = {}
  BY <1>1 DEF Pending
<1>3. \A b \in job.presets : \E x \in pool : Named(pool, b.name) = {x} /\ x.content = b.content
  BY <1>2 DEF PresetInv
<1>4. job.prune => \A x \in pool : x.name \in Names
  BY <1>2 DEF PresetInv
<1>5. PICK R : Matches(R) /\ Reached(R)
  BY <1>1 DEF LinesInv, Follows
<1>6. \A b \in job.presets : \E x \in pool : x.name = b.name /\ x.content = b.content
  BY <1>3 DEF Named
<1>7. ASSUME NEW d \in job.refs PROVE \E r \in At(refs, d.posi) : NameIn(pool, r.rcid) = d.name
  <2>1. d \in R /\ d.name \in Names
    BY <1>1, <1>5 DEF Reached, Names, Consistent, DeviceInv
  <2>2. PICK r \in refs : r.posi = d.posi
    BY <1>5, <2>1 DEF Matches
  <2> QED BY <1>5, <2>1, <2>2 DEF Matches, At
<1>8. job.prune => R = job.refs
  BY <1>5 DEF Reached
<1>9. job.prune => Cardinality(refs) = Cardinality(job.refs)
  BY <1>1, <1>5, <1>8, AsManyRefs
<1>10. job.prune => Cardinality(pool) = Cardinality(job.presets)
  BY <1>1, <1>3, <1>4, AsManyPresets
<1> QED BY <1>6, <1>7, <1>9, <1>10

\* A restore of a consistent backup that reports no error has restored, whatever
\* the device held, unless the front panel interfered (apply_restore): every
\* preset has its content, every reference its position, and with --prune there
\* is no other.
THEOREM Restored == ASSUME Consistent PROVE Spec => []OkMeansRestored
<1>1. Init => PresetInv /\ LinesInv
  BY DEF Init, Fresh, PresetInv, LinesInv
<1>2. RestoreInv /\ RestoreInv' /\ PresetInv /\ LinesInv /\ [Next]_vars => PresetInv' /\ LinesInv'
  BY PresetsKept, LinesKept
<1>3. RestoreInv /\ PresetInv /\ LinesInv => OkMeansRestored
  BY DoneRestored
<1> QED BY <1>1, <1>2, <1>3, RestoreInvariance, PTL DEF Spec
-----------------------------------------------------------------------------
(* Backups: the names of the files                                         *)

Slugs(names, i) == {j \in DOMAIN names : CaseOf[SlugOf[names[j]]] = CaseOf[SlugOf[names[i]]]}
Alikes(names, i) == {j \in DOMAIN names : CaseOf[names[j]] = CaseOf[names[i]]}
Digest(names, i) == IF Cardinality(Slugs(names, i)) > Cardinality(Alikes(names, i))
                    THEN names[i] ELSE NoName
Earlier(names, i) == {j \in Slugs(names, i) : j <= i /\ Digest(names, j) = Digest(names, i)}

LEMMA Filenames ==
  ASSUME NEW names
  PROVE  /\ DOMAIN AssignFilenames(names) = DOMAIN names
         /\ \A i \in DOMAIN names : AssignFilenames(names)[i] =
              <<SlugOf[names[i]], Digest(names, i), Cardinality(Earlier(names, i))>>
BY DEF AssignFilenames, Slugs, Alikes, Digest, Earlier

\* No two presets get one file.
LEMMA FilesApart ==
  ASSUME NEW n \in Nat, NEW names, DOMAIN names = 1..n, NEW i \in 1..n, NEW j \in 1..n,
         AssignFilenames(names)[i] = AssignFilenames(names)[j]
  PROVE  i = j
<1>1. /\ SlugOf[names[i]] = SlugOf[names[j]] /\ Digest(names, i) = Digest(names, j)
      /\ Cardinality(Earlier(names, i)) = Cardinality(Earlier(names, j))
  BY Filenames
<1>2. \A k \in 1..n : IsFiniteSet(Earlier(names, k))
  <2> TAKE k \in 1..n
  <2>1. Earlier(names, k) \subseteq 1..n
    BY DEF Earlier, Slugs
  <2>2. IsFiniteSet(1..n)
    BY FS_Interval
  <2> QED BY <2>1, <2>2, FS_Subset
<1>3. \A a, b \in 1..n : (/\ SlugOf[names[a]] = SlugOf[names[b]] /\ Digest(names, a) = Digest(names, b)
                          /\ a < b)
                         => Cardinality(Earlier(names, a)) < Cardinality(Earlier(names, b))
  <2> SUFFICES ASSUME NEW a \in 1..n, NEW b \in 1..n, a < b,
                      SlugOf[names[a]] = SlugOf[names[b]], Digest(names, a) = Digest(names, b)
               PROVE  Cardinality(Earlier(names, a)) < Cardinality(Earlier(names, b))
    OBVIOUS
  <2>1. Earlier(names, a) \cup {b} \subseteq Earlier(names, b) /\ b \notin Earlier(names, a)
    BY DEF Earlier, Slugs
  <2>2. Cardinality(Earlier(names, a) \cup {b}) = Cardinality(Earlier(names, a)) + 1
    BY <1>2, <2>1, FS_AddElement
  <2>3. Cardinality(Earlier(names, a) \cup {b}) <= Cardinality(Earlier(names, b))
    BY <1>2, <2>1, FS_Subset
  <2>4. Cardinality(Earlier(names, a)) \in Nat /\ Cardinality(Earlier(names, b)) \in Nat
    BY <1>2, FS_CardinalityType
  <2> QED BY <2>2, <2>3, <2>4
<1>4. Cardinality(Earlier(names, i)) \in Nat /\ Cardinality(Earlier(names, j)) \in Nat
  BY <1>2, FS_CardinalityType
<1>5. ~(i < j) /\ ~(j < i)
  BY <1>1, <1>3, <1>4
<1> QED BY <1>5

LEMMA ByCidOrder ==
  ASSUME NEW P, NEW R, NEW m, SoundDevice(P, R, m)
  PROVE  /\ Cardinality(P) \in Nat /\ DOMAIN ByCid(P) = 1..Cardinality(P)
         /\ \A i \in DOMAIN ByCid(P) : ByCid(P)[i] \in P
         /\ \A i, j \in DOMAIN ByCid(P) : ByCid(P)[i] = ByCid(P)[j] => i = j
         /\ \A x \in P : \E i \in DOMAIN ByCid(P) : ByCid(P)[i] = x
<1> DEFINE f == [x \in P |-> x.cid]
           q == ByCid(P)
           rank(x) == Cardinality({y \in P : y.cid < x.cid})
<1>1. f \in [P -> Int] /\ \A x, y \in P : f[x] = f[y] => x = y
  BY DEF SoundDevice
<1>2. \A x \in P : rank(x) = Cardinality(Lower(f, P, x))
  BY DEF Lower
<1>3. \A k \in 1..Cardinality(P) : q[k] = CHOOSE x \in P : rank(x) = k - 1
  BY DEF ByCid
<1>4. DOMAIN q = 1..Cardinality(P) /\ IsFiniteSet(P)
  BY DEF ByCid, SoundDevice
<1> HIDE DEF rank, f, q
<1>5. Listing(f, P, q)
  BY <1>2, <1>3, <1>4 DEF Listing
<1>6. /\ Cardinality(P) \in Nat /\ \A k \in DOMAIN q : q[k] \in P
      /\ \A i, j \in DOMAIN q : q[i] = q[j] => i = j
      /\ \A x \in P : \E k \in DOMAIN q : q[k] = x
  BY <1>1, <1>4, <1>5, Ranked
<1> QED BY <1>4, <1>6 DEF q

\* What follows if one name only is like that of a preset.
LEMMA OnlyOne ==
  ASSUME NEW P, IsFiniteSet(P), NEW n, Cardinality(NamesLike(n, NamesOf(SetToSeq(P)))) = 1,
         NEW x \in P, NEW y \in P, CaseOf[x.name] = CaseOf[n], CaseOf[y.name] = CaseOf[n]
  PROVE  x = y
<1> DEFINE q == SetToSeq(P)
           names == NamesOf(q)
<1>1. q \in Seq(P) /\ ToSet(q) = P
  BY SetToSeqOps, SetToSeqAll
<1>2. DOMAIN q = 1..Len(q) /\ Len(q) \in Nat
  BY <1>1
<1>3. IsFiniteSet(1..Len(q))
  BY <1>2, FS_Interval
<1>4. NamesLike(n, names) \subseteq 1..Len(q) /\ DOMAIN names = DOMAIN q /\ \A i \in DOMAIN q : names[i] = q[i].name
  BY <1>2 DEF NamesLike, NamesOf
<1>5. IsFiniteSet(NamesLike(n, names))
  BY <1>3, <1>4, FS_Subset
<1>6. PICK k : NamesLike(n, names) = {k}
  BY <1>5, FS_Singleton
<1>7. PICK i \in DOMAIN q, j \in DOMAIN q : q[i] = x /\ q[j] = y
  BY <1>1 DEF ToSet
<1>8. i \in NamesLike(n, names) /\ j \in NamesLike(n, names)
  BY <1>4, <1>7 DEF NamesLike
<1> QED BY <1>6, <1>7, <1>8
-----------------------------------------------------------------------------
(* Backups: the invariant                                                  *)

Fn(i) == AssignFilenames(NamesOf(t.rows))[i]
Whole == ~t.errors /\ t.missing = {}

\* A name of a file is made of the name that the index has for it.
FilesNamed(index) == \A fn \in DOMAIN index : fn[1] = SlugOf[index[fn]] /\ fn[2] \in {NoName, index[fn]}
TreeInv(files) ==
    /\ \A key \in DOMAIN files : files[key].as = key
    /\ Index \in DOMAIN files => FilesNamed(files[Index].is)

IndexOf(rows) ==
    LET names == AssignFilenames(NamesOf(rows))
    IN  [fn \in {names[i] : i \in DOMAIN rows} |-> rows[CHOOSE i \in DOMAIN rows : names[i] = fn].name]
Doc == {[name |-> NameIn(pool, r.rcid), posi |-> r.posi] : r \in refs}

\* No restore runs, and none has been asked for; the device is one of a scene.
RestingInv ==
    /\ c.pc = "done" /\ job = NoJob /\ edits \in Nat /\ edits >= PanelEdits /\ runs = Runs
    /\ later \in Seq(Views)
    /\ \E d \in Views : pool = d.pool /\ refs = d.refs /\ irs = d.irs

TakeShape ==
    t = [pc |-> t.pc, dry |-> t.dry, rows |-> t.rows, files |-> t.files, played |-> t.played,
         errors |-> t.errors, missing |-> t.missing, write |-> t.write, stale |-> t.stale,
         had |-> t.had, edited |-> t.edited, ended |-> t.ended]
TakeInv ==
    /\ TakeShape
    /\ t.dry \in BOOLEAN /\ t.errors \in BOOLEAN /\ t.edited \in BOOLEAN
    /\ t.pc \in {"idle", "pool", "contents", "setlist", "irs", "write"}
    /\ TreeInv(tree) /\ (t.pc # "idle" => TreeInv(t.had))
    /\ t.pc \in {"pool", "contents", "setlist", "irs"} => t.had = tree

\* What was read of the pool, if the device has not changed since, is the pool.
RowsInv ==
    t.pc \in {"contents", "setlist", "irs", "write"} =>
        /\ \E n \in Nat : DOMAIN t.rows = 1..n
        /\ IsFiniteSet(DOMAIN t.files) /\ \A key \in DOMAIN t.files : key[1] \in {"index", "ir", "irs", "pool", "setlist"}
        /\ Index \in DOMAIN t.files /\ FilesNamed(t.files[Index])
        /\ t.pc = "contents" => DOMAIN t.files = {Index}
        /\ ~t.edited => t.rows = ByCid(pool) /\ t.files[Index] = IndexOf(t.rows)

ContentsInv ==
    t.pc \in {"setlist", "irs", "write"} =>
        /\ IsFiniteSet(t.played)
        /\ ~t.edited =>
             \A key \in DOMAIN t.files : key[1] = "pool" =>
                 \E i \in DOMAIN t.rows : key = PoolFile(Fn(i)) /\ t.files[key] = t.rows[i].content
        /\ ~t.edited /\ ~t.errors =>
             /\ \A i \in DOMAIN t.rows : PoolFile(Fn(i)) \in DOMAIN t.files
             /\ \A x \in pool : IrOf[x.content] \subseteq t.played

DocInv ==
    t.pc \in {"irs", "write"} /\ ~t.edited /\ ~t.errors =>
        Setlist \in DOMAIN t.files /\ t.files[Setlist] = Doc

IrsInv ==
    t.pc = "write" =>
        /\ IrIndex \in DOMAIN t.files
        /\ \A h \in t.files[IrIndex] : IrFile(h) \in DOMAIN t.files /\ t.files[IrFile(h)] = h
        /\ ~t.edited /\ Whole => \A x \in pool : IrOf[x.content] \subseteq t.files[IrIndex]

\* What is to be written is on disk already or waits; only a run that has read
\* everything removes, and it removes all that it did not read.
WriteInv ==
    t.pc = "write" =>
        /\ t.write \in Seq(DOMAIN t.files)
        /\ \A key \in DOMAIN t.files : Holds(key, t.files[key]) \/ key \in ToSet(t.write)
        /\ \A key \in t.stale : key \notin DOMAIN t.files
        /\ Whole => \A key \in DOMAIN tree :
                        key[1] \in {"pool", "setlist", "ir"} => key \in DOMAIN t.files \/ key \in t.stale
        /\ ~Whole => /\ t.stale = {}
                     /\ \A key \in DOMAIN t.had : key \notin DOMAIN t.files => key \in DOMAIN tree /\ tree[key] = t.had[key]

PhotoInv == /\ RestingInv /\ TakeInv /\ RowsInv /\ ContentsInv /\ DocInv /\ IrsInv /\ WriteInv
            /\ Mirror /\ (CaseRespected => Kept)
NoPhoto == takes = Takes /\ t = Idle /\ later = <<>>
BackupInv == NoPhoto \/ PhotoInv

\* The file system tells cases apart.
LEMMA SameOnDisk == ASSUME CaseBlind = FALSE, NEW key PROVE OnDisk(key) = key
BY DEF OnDisk

LEMMA RestingRests == ASSUME RestingInv PROVE ~Next
<1>1. c.pc \notin {"pool", "setlist", "moves", "apply", "add", "verify", "drop"}
  BY DEF RestingInv
<1>2. ~PanelEdit /\ ~Again
  BY RestoreAssumption DEF RestingInv, PanelEdit, Again
<1> QED BY <1>1, <1>2 DEF Next, Step, ReadPool, ReadSetlist, PlanReady, PlanBlocked, PlanPark, PlanEnd, Planning,
            Create, UpdateContent, Look, Add, Verify, Drop, LookRemoved, DeletePool, Doing

LEMMA PoolSound ==
  ASSUME RestingInv
  PROVE  /\ (\E m : SoundDevice(pool, refs, m)) /\ IsFiniteSet(pool) /\ IsFiniteSet(irs)
         /\ \A x \in pool : IsFiniteSet(IrOf[x.content]) /\ x.name # NoName
BY ScenesAssumption DEF RestingInv, SoundDevice

\* Mirror and Kept are about a run that ended.
LEMMA Busy == ASSUME t'.pc # "idle" \/ t'.ended \notin {"ok", "error"} \/ t'.dry \/ t'.edited PROVE Mirror' /\ Kept'
BY DEF Mirror, Kept, Settled, Taking

LEMMA RestingStays == ASSUME RestingInv, UNCHANGED <<vars, irs, later>> PROVE RestingInv'
BY DEF RestingInv, vars

\* What is read before the pool has been read.
LEMMA Unread ==
  ASSUME t.pc \in {"idle", "pool"}
  PROVE  RowsInv /\ ContentsInv /\ DocInv /\ IrsInv /\ WriteInv
BY DEF RowsInv, ContentsInv, DocInv, IrsInv, WriteInv

LEMMA EmptyTree == TreeInv(<<>>)
BY DEF TreeInv

LEMMA PhotoBegins == ASSUME BackupInit PROVE BackupInv
<1>1. CASE Init /\ NoSnapshot
  BY <1>1 DEF NoSnapshot, BackupInv, NoPhoto
<1>2. CASE ~(Init /\ NoSnapshot)
  <2>1. PICK scene \in Scenes :
           /\ pool = Head(scene).pool /\ refs = Head(scene).refs /\ irs = Head(scene).irs
           /\ later = Tail(scene) /\ tree = <<>> /\ t = Idle
           /\ job = NoJob /\ edits = PanelEdits /\ runs = Runs /\ c = [Fresh EXCEPT !.pc = "done"]
    BY <1>2 DEF BackupInit
  <2>2. scene \in Seq(Views) /\ scene # <<>>
    BY ScenesAssumption
  <2>3. Head(scene) \in Views /\ Tail(scene) \in Seq(Views)
    BY <2>2
  <2>4. c.pc = "done" /\ PanelEdits \in Nat
    BY <2>1, RestoreAssumption DEF Fresh
  <2>5. RestingInv
    <3> HIDE DEF Views
    <3> QED BY <2>1, <2>3, <2>4 DEF RestingInv
  <2>6. TakeInv /\ t.pc = "idle" /\ t.ended = "not"
    BY <2>1, EmptyTree DEF Idle, TakeInv, TakeShape
  <2>7. Mirror /\ Kept
    BY <2>6 DEF Mirror, Kept, Settled
  <2> QED BY <2>5, <2>6, <2>7, Unread DEF BackupInv, PhotoInv
<1> QED BY <1>1, <1>2

LEMMA TakeKeeps == ASSUME PhotoInv, Take PROVE PhotoInv'
<1>1. PICK dry \in BOOLEAN : t' = [Idle EXCEPT !.pc = "pool", !.dry = dry, !.had = tree]
  BY DEF Take
<1>2. UNCHANGED <<vars, irs, later>> /\ tree' = tree
  BY DEF Take
<1>3. t'.pc = "pool" /\ t'.had = tree
  BY <1>1 DEF Idle
<1>4. TakeInv'
  BY <1>1, <1>2 DEF Idle, TakeInv, TakeShape, TreeInv, PhotoInv
<1>5. (t.pc \in {"idle", "pool"})' => (RowsInv /\ ContentsInv /\ DocInv /\ IrsInv /\ WriteInv)'
  BY DEF RowsInv, ContentsInv, DocInv, IrsInv, WriteInv
<1> QED BY <1>2, <1>3, <1>4, <1>5, Busy, RestingStays DEF PhotoInv

LEMMA EndShape ==
  ASSUME TakeInv, NEW how, TakeEnds(how), TreeInv(tree)'
  PROVE  /\ TakeInv' /\ t'.pc = "idle" /\ t'.ended = how
         /\ t'.dry = t.dry /\ t'.errors = t.errors /\ t'.missing = t.missing /\ t'.edited = t.edited
         /\ t'.had = IF how = "killed" THEN <<>> ELSE t.had
<1>1. t' = [Idle EXCEPT !.dry = t.dry, !.errors = t.errors, !.missing = t.missing, !.edited = t.edited,
                        !.had = IF how = "killed" THEN <<>> ELSE t.had, !.ended = how]
  BY DEF TakeEnds
<1>2. /\ t'.pc = "idle" /\ t'.ended = how
      /\ t'.dry = t.dry /\ t'.errors = t.errors /\ t'.missing = t.missing /\ t'.edited = t.edited
      /\ t'.had = IF how = "killed" THEN <<>> ELSE t.had
  BY <1>1 DEF Idle
<1>3. TakeShape'
  BY <1>1 DEF Idle, TakeShape
<1>4. TakeInv'
  BY <1>2, <1>3 DEF TakeInv, TakeShape
<1> QED BY <1>2, <1>4

\* A tree that is as it was keeps all of it.
LEMMA SameKept ==
  ASSUME CaseBlind = FALSE, t'.had = tree'
  PROVE  Kept'
<1>1. \A key : OnDisk(key) = key
  BY SameOnDisk
<1>2. \A key : key[1] = "pool" /\ Had(key)'
                  => \E k \in DOMAIN tree' : k[1] = "pool" /\ ~tree'[k].torn /\ tree'[k].is = t'.had[key].is
  BY DEF Had
<1>3. \A fn : PoolFile(fn)[1] = "pool"
  BY DEF PoolFile
<1>4. \A fn, x : Had(OnDisk(PoolFile(fn)))' =>
         \E k \in DOMAIN tree' : /\ k[1] = "pool" /\ ~tree'[k].torn
                                 /\ tree'[k].is \in {x, t'.had[OnDisk(PoolFile(fn))].is}
  <2> HIDE DEF PoolFile
  <2> QED BY <1>1, <1>2, <1>3
<1>5. \A h : Had(IrFile(h))' => Exists(IrFile(h))'
  BY <1>1 DEF Had, Exists
<1> HIDE DEF PoolFile, IrFile
<1> QED BY <1>4, <1>5, Zenon DEF Kept

LEMMA AbortedKeeps == ASSUME CaseBlind = FALSE, PhotoInv, TakeAborts PROVE PhotoInv'
<1>1. UNCHANGED <<vars, irs, later>> /\ tree' = tree /\ t.had = tree /\ TakeEnds("error")
  BY DEF TakeAborts, TakeEnds, PhotoInv, TakeInv
<1>2. TreeInv(tree)'
  BY <1>1 DEF PhotoInv, TakeInv, TreeInv
<1>3. TakeInv' /\ t'.pc = "idle" /\ t'.ended = "error" /\ t'.had = tree
  BY <1>1, <1>2, EndShape DEF PhotoInv
<1>4. Mirror'
  BY <1>3 DEF Mirror
<1>6. Kept'
  BY <1>1, <1>3, SameKept
<1>7. (t.pc \in {"idle", "pool"})' => (RowsInv /\ ContentsInv /\ DocInv /\ IrsInv /\ WriteInv)'
  BY DEF RowsInv, ContentsInv, DocInv, IrsInv, WriteInv
<1> QED BY <1>1, <1>3, <1>4, <1>6, <1>7, RestingStays DEF PhotoInv
-----------------------------------------------------------------------------
(* Backups: what is read                                                   *)

LEMMA IndexFacts ==
  ASSUME NEW rows
  PROVE  /\ FilesNamed(IndexOf(rows))
         /\ DOMAIN IndexOf(rows) = {AssignFilenames(NamesOf(rows))[i] : i \in DOMAIN rows}
         /\ \A fn \in DOMAIN IndexOf(rows) :
              \E i \in DOMAIN rows : AssignFilenames(NamesOf(rows))[i] = fn /\ IndexOf(rows)[fn] = rows[i].name
<1> DEFINE names == AssignFilenames(NamesOf(rows))
           index == IndexOf(rows)
           place(fn) == CHOOSE i \in DOMAIN rows : names[i] = fn
<1>1. /\ DOMAIN index = {names[i] : i \in DOMAIN rows}
      /\ \A fn \in DOMAIN index : index[fn] = rows[place(fn)].name
  BY DEF IndexOf
<1>2. \A fn \in DOMAIN index : place(fn) \in DOMAIN rows /\ names[place(fn)] = fn
  <2> HIDE DEF names
  <2> QED BY <1>1
<1>3. \A i \in DOMAIN rows : /\ names[i][1] = SlugOf[rows[i].name]
                             /\ names[i][2] \in {NoName, rows[i].name}
  <2> TAKE i \in DOMAIN rows
  <2>1. DOMAIN NamesOf(rows) = DOMAIN rows /\ NamesOf(rows)[i] = rows[i].name
    BY DEF NamesOf
  <2>2. names[i] = <<SlugOf[rows[i].name], Digest(NamesOf(rows), i), Cardinality(Earlier(NamesOf(rows), i))>>
    BY <2>1, Filenames
  <2>3. Digest(NamesOf(rows), i) \in {NoName, rows[i].name}
    BY <2>1 DEF Digest
  <2> QED BY <2>2, <2>3
<1> HIDE DEF names, index, place
<1>4. FilesNamed(index)
  BY <1>1, <1>2, <1>3 DEF FilesNamed
<1> QED BY <1>1, <1>2, <1>4 DEF names, index

LEMMA IndexOne ==
  ASSUME NEW n \in Nat, NEW rows, DOMAIN rows = 1..n, NEW i \in DOMAIN rows
  PROVE  /\ AssignFilenames(NamesOf(rows))[i] \in DOMAIN IndexOf(rows)
         /\ IndexOf(rows)[AssignFilenames(NamesOf(rows))[i]] = rows[i].name
<1> DEFINE fn == AssignFilenames(NamesOf(rows))[i]
<1>1. fn \in DOMAIN IndexOf(rows)
  <2>1. DOMAIN IndexOf(rows) = {AssignFilenames(NamesOf(rows))[k] : k \in DOMAIN rows}
    BY IndexFacts
  <2> QED BY <2>1, Zenon
<1>2. PICK j \in DOMAIN rows : AssignFilenames(NamesOf(rows))[j] = fn /\ IndexOf(rows)[fn] = rows[j].name
  BY <1>1, IndexFacts
<1>3. DOMAIN NamesOf(rows) = 1..n
  BY DEF NamesOf
<1>4. i = j
  BY <1>2, <1>3, FilesApart
<1> QED BY <1>1, <1>2, <1>4

LEMMA PoolKeeps == ASSUME PhotoInv, TakePool PROVE PhotoInv'
<1> DEFINE rows == ByCid(pool)
<1>1. /\ t' = [[t EXCEPT !.rows = rows, !.files = One(Index, IndexOf(rows))] EXCEPT !.pc = "contents"]
      /\ UNCHANGED <<vars, irs, later>> /\ tree' = tree /\ t.pc = "pool"
  <2>1. t' = [[t EXCEPT !.rows = rows, !.files = One(Index, IndexOf(rows))] EXCEPT !.pc = "contents"]
    BY Zenon DEF TakePool, ReadOn, IndexOf
  <2> QED BY <2>1 DEF TakePool, ReadOn, Taking
<1> HIDE DEF rows
<1>2. /\ t'.pc = "contents" /\ t'.rows = rows /\ t'.files = One(Index, IndexOf(rows))
      /\ t'.had = t.had /\ TakeInv'
  <2>1. TakeInv /\ t.pc = "pool"
    BY <1>1 DEF PhotoInv
  <2>2. /\ t'.pc = "contents" /\ t'.rows = rows /\ t'.files = One(Index, IndexOf(rows))
        /\ TakeShape'
        /\ t'.dry = t.dry /\ t'.errors = t.errors /\ t'.edited = t.edited /\ t'.had = t.had
    BY <1>1, <2>1 DEF TakeInv, TakeShape
  <2>3. TreeInv(tree)' /\ TreeInv(t.had)'
    BY <1>1, <2>1, <2>2 DEF TakeInv, TreeInv
  <2> QED BY <1>1, <2>1, <2>2, <2>3 DEF TakeInv
<1>3. DOMAIN t'.files = {Index} /\ t'.files[Index] = IndexOf(rows)
  BY <1>2 DEF One
<1>4. RowsInv'
  <2>1. Cardinality(pool) \in Nat /\ DOMAIN rows = 1..Cardinality(pool)
    BY PoolSound, ByCidOrder DEF PhotoInv, rows
  <2>2. IsFiniteSet({Index}) /\ Index[1] = "index"
    BY FS_Singleton DEF Index
  <2>3. pool' = pool
    BY <1>1 DEF vars
  <2> QED BY <1>2, <1>3, <2>1, <2>2, <2>3, IndexFacts DEF RowsInv, rows
<1>5. (ContentsInv /\ DocInv /\ IrsInv /\ WriteInv)'
  BY <1>2 DEF ContentsInv, DocInv, IrsInv, WriteInv
<1> QED BY <1>1, <1>2, <1>4, <1>5, Busy, RestingStays DEF PhotoInv

At1(i) == {x \in pool : x.cid = t.rows[i].cid}
ContentOf(i) == (CHOOSE x \in At1(i) : TRUE).content
ReadOf(unread) == {i \in DOMAIN t.rows \ unread : At1(i) # {}}
PoolFiles(read) == [key \in {PoolFile(Fn(i)) : i \in read} |->
                       ContentOf(Max({i \in read : PoolFile(Fn(i)) = key}))]

LEMMA ContentsRead ==
  ASSUME TakeInv, TakeContents
  PROVE  \E unread, unscanned \in SUBSET DOMAIN t.rows :
           /\ t'.files = Over(PoolFiles(ReadOf(unread)), t.files)
           /\ t'.played = UNION {IrOf[ContentOf(i)] : i \in ReadOf(unread) \ unscanned}
           /\ t'.errors = (ReadOf(unread) # DOMAIN t.rows \/ unscanned # {})
           /\ t'.pc = "setlist" /\ t'.rows = t.rows /\ t'.edited = t.edited /\ t'.had = t.had
           /\ TakeInv' /\ t.pc = "contents" /\ UNCHANGED <<vars, irs, later>> /\ tree' = tree
<1>1. PICK unread \in SUBSET DOMAIN t.rows, unscanned \in SUBSET DOMAIN t.rows :
         ReadOn("setlist", [t EXCEPT !.files = Over(PoolFiles(ReadOf(unread)), @),
                              !.played = UNION {IrOf[ContentOf(i)] : i \in ReadOf(unread) \ unscanned},
                              !.errors = ReadOf(unread) # DOMAIN t.rows \/ unscanned # {}])
  BY Zenon DEF TakeContents, At1, ContentOf, ReadOf, PoolFiles, Fn
<1> DEFINE files == Over(PoolFiles(ReadOf(unread)), t.files)
           played == UNION {IrOf[ContentOf(i)] : i \in ReadOf(unread) \ unscanned}
           errors == ReadOf(unread) # DOMAIN t.rows \/ unscanned # {}
<1>2. /\ t' = [[t EXCEPT !.files = files, !.played = played, !.errors = errors] EXCEPT !.pc = "setlist"]
      /\ UNCHANGED <<irs, later, tree>>
  BY <1>1 DEF ReadOn
<1>3. errors \in BOOLEAN
  OBVIOUS
<1> HIDE DEF files, played, errors
<1>4. /\ t'.files = files /\ t'.played = played /\ t'.errors = errors /\ t'.pc = "setlist" /\ t'.rows = t.rows
      /\ t'.edited = t.edited /\ t'.had = t.had /\ t'.dry = t.dry
      /\ TakeShape'
  BY <1>2 DEF TakeInv, TakeShape
<1>5. t.pc = "contents" /\ UNCHANGED vars
  BY DEF TakeContents, Taking
<1>6. TreeInv(tree)' /\ TreeInv(t.had)'
  BY <1>2, <1>4, <1>5 DEF TakeInv, TreeInv
<1>7. TakeInv'
  BY <1>2, <1>3, <1>4, <1>5, <1>6 DEF TakeInv
<1> QED BY <1>2, <1>4, <1>5, <1>7 DEF files, played, errors

\* The files of the presets that were read, if the device is as it was.
LEMMA FilesRead ==
  ASSUME PhotoInv, t.pc = "contents", NEW read \in SUBSET DOMAIN t.rows
  PROVE  /\ IsFiniteSet(DOMAIN PoolFiles(read))
         /\ DOMAIN PoolFiles(read) = {PoolFile(Fn(i)) : i \in read}
         /\ ~t.edited => \A i \in read : /\ ContentOf(i) = t.rows[i].content
                                         /\ PoolFiles(read)[PoolFile(Fn(i))] = t.rows[i].content
<1>1. PICK n \in Nat : DOMAIN t.rows = 1..n
  BY DEF PhotoInv, RowsInv
<1>2. IsFiniteSet(read)
  <2>1. IsFiniteSet(1..n)
    BY FS_Interval
  <2> QED BY <1>1, <2>1, FS_Subset
<1>3. DOMAIN PoolFiles(read) = {PoolFile(Fn(i)) : i \in read}
  BY DEF PoolFiles
<1>4. IsFiniteSet(DOMAIN PoolFiles(read))
  <2> DEFINE f == [i \in read |-> PoolFile(Fn(i))]
  <2>1. IsFiniteSet({f[i] : i \in read})
    <3> HIDE DEF f
    <3> QED BY <1>2, FiniteImage
  <2>2. {f[i] : i \in read} = {PoolFile(Fn(i)) : i \in read}
    OBVIOUS
  <2> QED BY <1>3, <2>1, <2>2
<1>5. ASSUME ~t.edited, NEW i \in read
      PROVE  ContentOf(i) = t.rows[i].content /\ PoolFiles(read)[PoolFile(Fn(i))] = t.rows[i].content
  <2>1. t.rows = ByCid(pool) /\ \E m : SoundDevice(pool, refs, m)
    BY <1>5, PoolSound DEF PhotoInv, RowsInv
  <2>2. t.rows[i] \in pool
    BY <1>5, <2>1, ByCidOrder
  <2>3. At1(i) = {t.rows[i]}
    BY <2>1, <2>2 DEF At1, SoundDevice
  <2>4. ContentOf(i) = t.rows[i].content
    BY <2>3 DEF ContentOf
  <2>5. \A j \in read : PoolFile(Fn(j)) = PoolFile(Fn(i)) => j = i
    <3>1. DOMAIN NamesOf(t.rows) = 1..n
      BY <1>1 DEF NamesOf
    <3>2. \A j \in read : Fn(j) = Fn(i) => j = i
      BY <1>1, <3>1, FilesApart DEF Fn
    <3> QED BY <3>2 DEF PoolFile
  <2>6. {j \in read : PoolFile(Fn(j)) = PoolFile(Fn(i))} = {i}
    BY <2>5
  <2>7. Max({i}) = i
    BY <1>1 DEF Max
  <2>8. PoolFiles(read)[PoolFile(Fn(i))] = ContentOf(Max({j \in read : PoolFile(Fn(j)) = PoolFile(Fn(i))}))
    BY DEF PoolFiles
  <2> QED BY <2>4, <2>6, <2>7, <2>8
<1> QED BY <1>3, <1>4, <1>5

\* Files of another kind leave the index of the names alone.
LEMMA MoreFiles ==
  ASSUME RowsInv, t.pc \in {"contents", "setlist", "irs"}, NEW D, IsFiniteSet(D),
         \A key \in D : key[1] \in {"ir", "irs", "pool", "setlist"},
         DOMAIN t'.files = D \cup DOMAIN t.files,
         \A key \in DOMAIN t.files : key \notin D => t'.files[key] = t.files[key],
         t'.pc # "contents", t'.rows = t.rows, t'.edited = t.edited, pool' = pool
  PROVE  RowsInv'
<1>1. Index \notin D
  BY DEF Index
<1>2. IsFiniteSet(DOMAIN t'.files)
  <2>1. PICK old : old = DOMAIN t.files
    OBVIOUS
  <2>2. IsFiniteSet(old)
    BY <2>1 DEF RowsInv
  <2>3. IsFiniteSet(D \cup old)
    BY <2>2, FS_Union
  <2> QED BY <2>1, <2>3
<1>3. Index \in DOMAIN t'.files /\ t'.files[Index] = t.files[Index]
  BY <1>1 DEF RowsInv
<1>4. \A key \in DOMAIN t'.files : key[1] \in {"index", "ir", "irs", "pool", "setlist"}
  BY DEF RowsInv
<1> QED BY <1>2, <1>3, <1>4 DEF RowsInv

LEMMA ContentsKeeps == ASSUME PhotoInv, TakeContents PROVE PhotoInv'
<1>1. PICK unread \in SUBSET DOMAIN t.rows, unscanned \in SUBSET DOMAIN t.rows :
         /\ t'.files = Over(PoolFiles(ReadOf(unread)), t.files)
         /\ t'.played = UNION {IrOf[ContentOf(i)] : i \in ReadOf(unread) \ unscanned}
         /\ t'.errors = (ReadOf(unread) # DOMAIN t.rows \/ unscanned # {})
         /\ t'.pc = "setlist" /\ t'.rows = t.rows /\ t'.edited = t.edited /\ t'.had = t.had
         /\ TakeInv' /\ t.pc = "contents" /\ UNCHANGED <<vars, irs, later>> /\ tree' = tree
  BY ContentsRead DEF PhotoInv
<1> DEFINE R == ReadOf(unread)
<1>2. R \subseteq DOMAIN t.rows /\ \A i \in R : At1(i) # {}
  BY DEF ReadOf
<1>3. /\ IsFiniteSet(DOMAIN PoolFiles(R)) /\ DOMAIN PoolFiles(R) = {PoolFile(Fn(i)) : i \in R}
      /\ ~t.edited => \A i \in R : /\ ContentOf(i) = t.rows[i].content
                                   /\ PoolFiles(R)[PoolFile(Fn(i))] = t.rows[i].content
  BY <1>1, <1>2, FilesRead
<1>4. pool' = pool /\ refs' = refs
  BY <1>1 DEF vars
<1> HIDE DEF R
<1>5. \A key \in DOMAIN PoolFiles(R) : key[1] = "pool"
  BY <1>3 DEF PoolFile
<1>6. RowsInv /\ RowsInv'
  <2>1. PICK D : D = DOMAIN PoolFiles(R)
    OBVIOUS
  <2>2. /\ DOMAIN t'.files = D \cup DOMAIN t.files
        /\ \A key \in DOMAIN t.files : key \notin D => t'.files[key] = t.files[key]
    BY <1>1, <2>1 DEF R, Over
  <2>3. IsFiniteSet(D) /\ \A key \in D : key[1] \in {"ir", "irs", "pool", "setlist"}
    BY <1>3, <1>5, <2>1
  <2>4. RowsInv
    BY DEF PhotoInv
  <2> QED BY <1>1, <1>4, <2>2, <2>3, <2>4, MoreFiles
<1>7. PICK n \in Nat : DOMAIN t.rows = 1..n
  BY <1>1, <1>6 DEF RowsInv
<1>8. IsFiniteSet(t'.played)
  <2> DEFINE S == R \ unscanned
             f == [i \in S |-> IrOf[ContentOf(i)]]
  <2>1. IsFiniteSet(S)
    <3>1. IsFiniteSet(1..n)
      BY FS_Interval
    <3>2. S \subseteq 1..n
      BY <1>2, <1>7
    <3> QED BY <3>1, <3>2, FS_Subset
  <2>2. \A i \in S : IsFiniteSet(f[i])
    <3> TAKE i \in S
    <3>1. (CHOOSE x \in At1(i) : TRUE) \in pool
      BY <1>2 DEF At1
    <3>2. IsFiniteSet(IrOf[ContentOf(i)])
      BY <3>1, PoolSound DEF PhotoInv, ContentOf
    <3> QED BY <3>2
  <2>3. t'.played = UNION {f[i] : i \in S}
    BY <1>1 DEF R
  <2> HIDE DEF f, S
  <2>4. IsFiniteSet({f[i] : i \in S})
    BY <2>1, FiniteImage
  <2>5. \A T \in {f[i] : i \in S} : IsFiniteSet(T)
    BY <2>2
  <2> QED BY <2>3, <2>4, <2>5, FS_UNION
<1>9. \A i : Fn(i)' = Fn(i)
  BY <1>1 DEF Fn
<1>10. DOMAIN t.files = {Index} /\ Index \notin DOMAIN PoolFiles(R)
  BY <1>1, <1>5, <1>6 DEF RowsInv, Index
<1>11. /\ DOMAIN t'.files = {PoolFile(Fn(i)) : i \in R} \cup {Index}
       /\ ~t.edited => \A i \in R : t'.files[PoolFile(Fn(i))] = t.rows[i].content
  <2>1. DOMAIN t'.files = DOMAIN PoolFiles(R) \cup DOMAIN t.files
    BY <1>1 DEF R, Over
  <2>2. \A i \in R : PoolFile(Fn(i)) \in DOMAIN PoolFiles(R)
    BY <1>3
  <2>3. \A i \in R : t'.files[PoolFile(Fn(i))] = PoolFiles(R)[PoolFile(Fn(i))]
    BY <1>1, <2>2 DEF R, Over
  <2> QED BY <1>3, <1>10, <2>1, <2>3
<1>12. ASSUME ~t.edited, NEW key \in DOMAIN t'.files, key[1] = "pool"
       PROVE  \E i \in DOMAIN t.rows : key = PoolFile(Fn(i)) /\ t'.files[key] = t.rows[i].content
  <2>1. key # Index
    BY <1>12 DEF Index
  <2>2. PICK i \in R : key = PoolFile(Fn(i))
    BY <1>11, <1>12, <2>1
  <2> QED BY <1>2, <1>11, <1>12, <2>2
<1>13. ASSUME ~t.edited, ~t'.errors
       PROVE  /\ \A i \in DOMAIN t.rows : PoolFile(Fn(i)) \in DOMAIN t'.files
              /\ \A x \in pool : IrOf[x.content] \subseteq t'.played
  <2>1. R = DOMAIN t.rows /\ unscanned = {}
    BY <1>1, <1>13 DEF R
  <2>2. \A i \in DOMAIN t.rows : PoolFile(Fn(i)) \in DOMAIN t'.files
    BY <1>11, <2>1
  <2>3. ASSUME NEW x \in pool PROVE IrOf[x.content] \subseteq t'.played
    <3>1. t.rows = ByCid(pool) /\ \E m : SoundDevice(pool, refs, m)
      BY <1>1, <1>6, <1>13, PoolSound DEF PhotoInv, RowsInv
    <3>2. PICK i \in DOMAIN t.rows : t.rows[i] = x
      BY <3>1, ByCidOrder
    <3>3. ContentOf(i) = x.content
      BY <1>3, <1>13, <2>1, <3>2
    <3> QED BY <1>1, <2>1, <3>3 DEF R
  <2> QED BY <2>2, <2>3
<1>14. ContentsInv'
  BY <1>1, <1>4, <1>8, <1>9, <1>12, <1>13 DEF ContentsInv
<1>15. (DocInv /\ IrsInv /\ WriteInv)'
  BY <1>1 DEF DocInv, IrsInv, WriteInv
<1>16. TakeInv' /\ t'.pc # "idle" /\ UNCHANGED <<vars, irs, later>>
  BY <1>1
<1> QED BY <1>6, <1>14, <1>15, <1>16, Busy, RestingStays DEF PhotoInv

\* The step leaves what was read before, and the tree, alone.
Passed(point) ==
  /\ t'.pc = point /\ t'.rows = t.rows /\ t'.played = t.played /\ t'.edited = t.edited
  /\ t'.had = t.had /\ t'.dry = t.dry /\ TakeShape' /\ UNCHANGED <<irs, later, tree>>

LEMMA PassedKeeps ==
  ASSUME TakeInv, t.pc # "idle", NEW point \in {"irs", "write"}, Passed(point), t'.errors \in BOOLEAN,
         point = "irs" => t.had = tree
  PROVE  TakeInv'
<1>1. TreeInv(tree)' /\ TreeInv(t.had)'
  BY DEF TakeInv, TreeInv, Passed
<1> QED BY <1>1 DEF TakeInv, Passed

\* What is read after the presets leaves their files alone.
LEMMA ReadBeyond ==
  ASSUME RowsInv, ContentsInv, t.pc \in {"setlist", "irs"}, t'.pc \in {"irs", "write"},
         t'.rows = t.rows, t'.played = t.played, t'.edited = t.edited, t.errors => t'.errors, pool' = pool,
         NEW D, IsFiniteSet(D), \A key \in D : key[1] \in {"ir", "irs", "setlist"},
         DOMAIN t'.files = D \cup DOMAIN t.files,
         \A key \in DOMAIN t.files : key \notin D => t'.files[key] = t.files[key]
  PROVE  RowsInv' /\ ContentsInv'
<1>1. RowsInv'
  BY MoreFiles
<1>2. \A i : Fn(i)' = Fn(i)
  BY DEF Fn
<1>3. \A key \in DOMAIN t'.files : key[1] = "pool" => key \in DOMAIN t.files /\ t'.files[key] = t.files[key]
  OBVIOUS
<1>4. \A key \in DOMAIN t.files : key \in DOMAIN t'.files
  OBVIOUS
<1>5. ContentsInv'
  BY <1>2, <1>3, <1>4 DEF ContentsInv
<1> QED BY <1>1, <1>5

LEMMA SetlistKeeps == ASSUME PhotoInv, TakeSetlist PROVE PhotoInv'
<1> DEFINE doc == {[name |-> NameIn(ToSet(t.rows), r.rcid), posi |-> r.posi] : r \in refs}
<1>1. t.pc = "setlist" /\ UNCHANGED vars
  BY DEF TakeSetlist, Taking
<1>2. /\ Passed("irs")
      /\ \/ t'.errors = TRUE /\ t'.files = t.files
         \/ t'.errors = t.errors /\ t'.files = Over(One(Setlist, doc), t.files)
  <2>1. TakeShape
    BY DEF PhotoInv, TakeInv
  <2>2. CASE ReadOn("irs", [t EXCEPT !.errors = TRUE])
    BY <2>1, <2>2 DEF TakeShape, Passed, ReadOn
  <2>3. CASE ReadOn("irs", [t EXCEPT !.files = Over(One(Setlist, doc), @)])
    <3> DEFINE new == Over(One(Setlist, doc), t.files)
    <3>1. ReadOn("irs", [t EXCEPT !.files = new])
      BY <2>3
    <3> HIDE DEF new
    <3> QED BY <2>1, <3>1 DEF new, TakeShape, Passed, ReadOn
  <2> QED BY <2>2, <2>3 DEF TakeSetlist
<1>3. /\ TakeInv' /\ UNCHANGED <<vars, irs, later>> /\ t'.pc = "irs"
      /\ t'.rows = t.rows /\ t'.played = t.played /\ t'.edited = t.edited
  <2>1. t'.errors \in BOOLEAN
    BY <1>2 DEF PhotoInv, TakeInv
  <2>2. TakeInv /\ t.had = tree
    BY <1>1 DEF PhotoInv, TakeInv
  <2> QED BY <1>1, <1>2, <2>1, <2>2, PassedKeeps DEF Passed
<1>4. pool' = pool /\ refs' = refs
  BY <1>1 DEF vars
<1>5. Setlist[1] = "setlist" /\ IsFiniteSet({Setlist}) /\ DOMAIN One(Setlist, doc) = {Setlist}
  BY FS_Singleton DEF Setlist, One
<1>6. CASE t'.errors = TRUE /\ t'.files = t.files
  <2>1. RowsInv'
    BY <1>1, <1>2, <1>3, <1>4, <1>6 DEF PhotoInv, RowsInv
  <2>2. \A i : Fn(i)' = Fn(i)
    BY <1>3 DEF Fn
  <2>3. ContentsInv'
    BY <1>1, <1>2, <1>3, <1>4, <1>6, <2>2 DEF PhotoInv, ContentsInv
  <2>4. DocInv'
    BY <1>2, <1>3, <1>6 DEF DocInv
  <2>5. (IrsInv /\ WriteInv)'
    BY <1>3 DEF IrsInv, WriteInv
  <2> QED BY <1>2, <1>3, <2>1, <2>3, <2>4, <2>5, Busy, RestingStays DEF PhotoInv
<1>7. CASE t'.errors = t.errors /\ t'.files = Over(One(Setlist, doc), t.files)
  <2>1. RowsInv' /\ ContentsInv'
    <3>1. PICK D : D = {Setlist}
      OBVIOUS
    <3>2. /\ IsFiniteSet(D) /\ \A key \in D : key[1] \in {"ir", "irs", "setlist"}
          /\ DOMAIN t'.files = D \cup DOMAIN t.files
          /\ \A key \in DOMAIN t.files : key \notin D => t'.files[key] = t.files[key]
      BY <1>5, <1>7, <3>1 DEF Over
    <3>3. RowsInv /\ ContentsInv
      BY DEF PhotoInv
    <3> QED BY <1>1, <1>2, <1>3, <1>4, <1>7, <3>1, <3>2, <3>3, ReadBeyond
  <2>2. Setlist \in DOMAIN t'.files /\ t'.files[Setlist] = doc
    BY <1>2, <1>3, <1>7 DEF Over, One
  <2>3. ~t.edited => doc = Doc'
    <3> SUFFICES ASSUME ~t.edited PROVE doc = Doc'
      OBVIOUS
    <3>1. t.rows = ByCid(pool) /\ \E m : SoundDevice(pool, refs, m)
      BY <1>1, PoolSound DEF PhotoInv, RowsInv
    <3>2. ToSet(t.rows) = pool
      BY <3>1, ByCidOrder DEF ToSet
    <3> QED BY <1>4, <3>2 DEF Doc
  <2>4. DocInv'
    BY <1>2, <1>3, <2>2, <2>3 DEF DocInv
  <2>5. (IrsInv /\ WriteInv)'
    BY <1>3 DEF IrsInv, WriteInv
  <2> QED BY <1>2, <1>3, <2>1, <2>4, <2>5, Busy, RestingStays DEF PhotoInv
<1> QED BY <1>2, <1>6, <1>7

LEMMA MoreSeq == ASSUME NEW T, NEW S, T \subseteq S, NEW q \in Seq(T) PROVE q \in Seq(S)
<1>1. Len(q) \in Nat /\ q \in [1..Len(q) -> T]
  BY LenProperties
<1>2. q \in [1..Len(q) -> S]
  BY <1>1
<1> QED BY <1>1, <1>2

\* All files are in order, and no other.
LEMMA InOrderAll ==
  ASSUME NEW keys, IsFiniteSet(keys), \A key \in keys : key[1] \in {"index", "ir", "irs", "pool", "setlist"}
  PROVE  InOrder(keys) \in Seq(keys) /\ ToSet(InOrder(keys)) = keys
<1> DEFINE T(kind) == {key \in keys : key[1] = kind}
<1>1. ASSUME NEW kind PROVE SetToSeq(T(kind)) \in Seq(keys) /\ ToSet(SetToSeq(T(kind))) = T(kind)
  <2> DEFINE S == T(kind)
  <2>1. IsFiniteSet(S) /\ S \subseteq keys
    BY FS_Subset
  <2> HIDE DEF S
  <2>2. SetToSeq(S) \in Seq(S) /\ ToSet(SetToSeq(S)) = S
    BY <2>1, SetToSeqOps, SetToSeqAll
  <2>3. SetToSeq(S) \in Seq(keys)
    BY <2>1, <2>2, MoreSeq
  <2> QED BY <2>2, <2>3 DEF S
<1>2. PICK a \in Seq(keys), b \in Seq(keys), d \in Seq(keys), e \in Seq(keys), f \in Seq(keys) :
         /\ a = SetToSeq(T("index")) /\ b = SetToSeq(T("ir")) /\ d = SetToSeq(T("irs"))
         /\ e = SetToSeq(T("pool")) /\ f = SetToSeq(T("setlist"))
  <2> HIDE DEF T
  <2> QED BY <1>1
<1>3. InOrder(keys) = a \o b \o d \o e \o f
  BY <1>2 DEF InOrder
<1>4. /\ ToSet(a) = T("index") /\ ToSet(b) = T("ir") /\ ToSet(d) = T("irs")
      /\ ToSet(e) = T("pool") /\ ToSet(f) = T("setlist")
  <2> HIDE DEF T
  <2> QED BY <1>1, <1>2
<1>5. PICK ab \in Seq(keys) : ab = a \o b /\ ToSet(ab) = ToSet(a) \cup ToSet(b)
  BY ConcatOps
<1>6. PICK abd \in Seq(keys) : abd = ab \o d /\ ToSet(abd) = ToSet(ab) \cup ToSet(d)
  BY ConcatOps
<1>7. PICK abde \in Seq(keys) : abde = abd \o e /\ ToSet(abde) = ToSet(abd) \cup ToSet(e)
  BY ConcatOps
<1>8. PICK all \in Seq(keys) : all = abde \o f /\ ToSet(all) = ToSet(abde) \cup ToSet(f)
  BY ConcatOps
<1>9. InOrder(keys) = all
  BY <1>3, <1>5, <1>6, <1>7, <1>8
<1>10. ToSet(all) = T("index") \cup T("ir") \cup T("irs") \cup T("pool") \cup T("setlist")
  BY <1>4, <1>5, <1>6, <1>7, <1>8
<1> QED BY <1>9, <1>10

IrFiles(got) == [key \in {IrFile(h) : h \in got} |-> key[2]]
AllFiles(got) == Over(IrFiles(got), Over(One(IrIndex, got), t.files))

LEMMA IrsRead ==
  ASSUME TakeInv, TakeIrs
  PROVE  \E listed \in SUBSET irs, unlisted \in BOOLEAN : \E wanted, missing :
           /\ wanted = listed \cup t.played /\ missing \subseteq wanted
           /\ Passed("write") /\ t'.errors = (t.errors \/ unlisted) /\ t'.missing = missing
           /\ t'.files = AllFiles(wanted \ missing)
           /\ t'.write = InOrder(Differing(t'.files)) /\ t'.stale = Stale(t'.files, t'.errors, missing)
           /\ t.pc = "irs" /\ UNCHANGED vars
<1> DEFINE filesOf(wanted, missing) == AllFiles(wanted \ missing)
           readOn(wanted, missing, unlisted) ==
             ReadOn("write", [t EXCEPT !.files = filesOf(wanted, missing), !.errors = t.errors \/ unlisted,
                                !.missing = missing,
                                !.write = InOrder(Differing(filesOf(wanted, missing))),
                                !.stale = Stale(filesOf(wanted, missing), t.errors \/ unlisted, missing)])
<1>0. PICK listed \in SUBSET irs, unlisted \in BOOLEAN :
         \E missing \in SUBSET (listed \cup t.played) : readOn(listed \cup t.played, missing, unlisted)
  BY ZenonT(100) DEF TakeIrs, AllFiles, IrFiles
<1>1. PICK missing \in SUBSET (listed \cup t.played) : readOn(listed \cup t.played, missing, unlisted)
  BY <1>0
<1> DEFINE files == AllFiles((listed \cup t.played) \ missing)
           errors == t.errors \/ unlisted
           write == InOrder(Differing(files))
           stale == Stale(files, errors, missing)
<1>2. /\ t' = [[t EXCEPT !.files = files, !.errors = errors, !.missing = missing, !.write = write, !.stale = stale]
                  EXCEPT !.pc = "write"]
      /\ UNCHANGED <<irs, later, tree>>
  BY <1>1 DEF ReadOn
<1> HIDE DEF write, stale, files, errors
<1>3. /\ Passed("write") /\ t'.errors = errors /\ t'.missing = missing /\ t'.files = files
      /\ t'.write = write /\ t'.stale = stale
  BY <1>2 DEF TakeInv, TakeShape, Passed
<1>4. t.pc = "irs" /\ UNCHANGED vars
  BY DEF TakeIrs, Taking
<1>5. t'.write = InOrder(Differing(t'.files)) /\ t'.stale = Stale(t'.files, t'.errors, missing)
  BY <1>3 DEF write, stale
<1>6. t'.files = AllFiles((listed \cup t.played) \ missing) /\ t'.errors = (t.errors \/ unlisted)
  BY <1>3 DEF files, errors
<1>7. PICK wanted : wanted = listed \cup t.played
  OBVIOUS
<1>8. /\ wanted = listed \cup t.played /\ missing \subseteq wanted
      /\ Passed("write") /\ t'.errors = (t.errors \/ unlisted) /\ t'.missing = missing
      /\ t'.files = AllFiles(wanted \ missing)
      /\ t'.write = InOrder(Differing(t'.files)) /\ t'.stale = Stale(t'.files, t'.errors, missing)
      /\ t.pc = "irs" /\ UNCHANGED vars
  BY <1>3, <1>4, <1>5, <1>6, <1>7
<1> QED BY <1>8, Zenon

LEMMA AllFilesAre ==
  ASSUME NEW got, NEW files, files = AllFiles(got)
  PROVE  /\ DOMAIN files = {IrFile(h) : h \in got} \cup {IrIndex} \cup DOMAIN t.files
         /\ \A h \in got : files[IrFile(h)] = h
         /\ files[IrIndex] = got
         /\ \A key \in DOMAIN t.files : key \notin {IrFile(h) : h \in got} \cup {IrIndex}
                                         => files[key] = t.files[key]
<1>1. /\ DOMAIN IrFiles(got) = {IrFile(h) : h \in got}
      /\ \A h \in got : IrFiles(got)[IrFile(h)] = h
  BY DEF IrFiles, IrFile
<1>2. \A key \in DOMAIN IrFiles(got) : key[1] = "ir"
  BY <1>1 DEF IrFile
<1>3. IrIndex[1] = "irs"
  BY DEF IrIndex
<1>4. DOMAIN One(IrIndex, got) = {IrIndex} /\ One(IrIndex, got)[IrIndex] = got
  BY DEF One
<1>5. PICK f, g : f = IrFiles(got) /\ g = One(IrIndex, got)
  OBVIOUS
<1>6. files = Over(f, Over(g, t.files))
  BY <1>5 DEF AllFiles
<1>7. DOMAIN f = {IrFile(h) : h \in got} /\ DOMAIN g = {IrIndex}
  BY <1>1, <1>4, <1>5
<1>8. DOMAIN files = DOMAIN f \cup DOMAIN g \cup DOMAIN t.files
  BY <1>6 DEF Over
<1>9. \A key \in DOMAIN f : files[key] = f[key]
  BY <1>6 DEF Over
<1>10. \A key \in DOMAIN g : key \notin DOMAIN f => files[key] = g[key]
  BY <1>6 DEF Over
<1>11. \A key \in DOMAIN t.files : key \notin DOMAIN f /\ key \notin DOMAIN g => files[key] = t.files[key]
  BY <1>6 DEF Over
<1>12. DOMAIN files = {IrFile(h) : h \in got} \cup {IrIndex} \cup DOMAIN t.files
  BY <1>7, <1>8
<1>13. \A h \in got : files[IrFile(h)] = h
  <2> TAKE h \in got
  <2>1. IrFile(h) \in DOMAIN f
    BY <1>7
  <2> QED BY <1>1, <1>5, <1>9, <2>1
<1>14. files[IrIndex] = got
  BY <1>2, <1>3, <1>4, <1>5, <1>10
<1>15. \A key \in DOMAIN t.files : key \notin {IrFile(h) : h \in got} \cup {IrIndex}
                                   => files[key] = t.files[key]
  BY <1>7, <1>11
<1> QED BY <1>12, <1>13, <1>14, <1>15

LEMMA IrsKeeps == ASSUME CaseBlind = FALSE, PhotoInv, TakeIrs PROVE PhotoInv'
<1>0. PICK listed \in SUBSET irs, unlisted \in BOOLEAN : \E wanted, missing :
         /\ wanted = listed \cup t.played /\ missing \subseteq wanted
         /\ Passed("write") /\ t'.errors = (t.errors \/ unlisted) /\ t'.missing = missing
         /\ t'.files = AllFiles(wanted \ missing)
         /\ t'.write = InOrder(Differing(t'.files)) /\ t'.stale = Stale(t'.files, t'.errors, missing)
         /\ t.pc = "irs" /\ UNCHANGED vars
  BY IrsRead DEF PhotoInv
<1>1. PICK wanted, missing :
         /\ wanted = listed \cup t.played /\ missing \subseteq wanted
         /\ Passed("write") /\ t'.errors = (t.errors \/ unlisted) /\ t'.missing = missing
         /\ t'.files = AllFiles(wanted \ missing)
         /\ t'.write = InOrder(Differing(t'.files)) /\ t'.stale = Stale(t'.files, t'.errors, missing)
         /\ t.pc = "irs" /\ UNCHANGED vars
  BY <1>0
<1>2. /\ TakeInv /\ RowsInv /\ ContentsInv /\ DocInv /\ RestingInv
  BY DEF PhotoInv
<1>3. /\ t'.pc = "write" /\ t'.rows = t.rows /\ t'.played = t.played /\ t'.edited = t.edited /\ t'.had = t.had
      /\ tree' = tree /\ pool' = pool /\ refs' = refs /\ UNCHANGED <<vars, irs, later>>
  BY <1>1 DEF Passed, vars
<1>4. TakeInv' /\ t'.had = tree /\ TreeInv(tree)
  <2>1. t'.errors \in BOOLEAN
    BY <1>1, <1>2 DEF TakeInv
  <2>2. t.had = tree /\ TreeInv(tree)
    BY <1>1, <1>2 DEF TakeInv
  <2> QED BY <1>1, <1>2, <1>3, <2>1, <2>2, PassedKeeps
<1>5. PICK got : got = wanted \ missing
  OBVIOUS
<1>6. PICK D : D = {IrFile(h) : h \in got} \cup {IrIndex}
  OBVIOUS
<1>7. PICK files : files = t'.files /\ files = AllFiles(got)
  BY <1>1, <1>5
<1>8. /\ DOMAIN files = D \cup DOMAIN t.files
      /\ \A h \in got : files[IrFile(h)] = h
      /\ files[IrIndex] = got
      /\ \A key \in DOMAIN t.files : key \notin D => files[key] = t.files[key]
  BY <1>6, <1>7, AllFilesAre
<1>9. \A key \in D : key[1] \in {"ir", "irs"}
  BY <1>6 DEF IrFile, IrIndex
<1>10. IsFiniteSet(D)
  <2>1. IsFiniteSet(irs) /\ IsFiniteSet(t.played)
    BY <1>1, <1>2, PoolSound DEF ContentsInv
  <2>2. PICK played : played = t.played
    OBVIOUS
  <2>3. IsFiniteSet(listed)
    BY <2>1, FS_Subset
  <2>4. IsFiniteSet(listed \cup played)
    BY <2>1, <2>2, <2>3, FS_Union
  <2>5. got \subseteq listed \cup played
    BY <1>1, <1>5, <2>2
  <2>6. IsFiniteSet(got)
    BY <2>4, <2>5, FS_Subset
  <2> DEFINE f == [h \in got |-> IrFile(h)]
             A == {f[h] : h \in got}
  <2>7. A = {IrFile(h) : h \in got}
    OBVIOUS
  <2> HIDE DEF f
  <2>8. IsFiniteSet(A)
    BY <2>6, FiniteImage
  <2> HIDE DEF A
  <2>9. IsFiniteSet({IrIndex})
    BY FS_Singleton
  <2>10. IsFiniteSet(A \cup {IrIndex})
    BY <2>8, <2>9, FS_Union
  <2> QED BY <1>6, <2>7, <2>10
<1>11. RowsInv' /\ ContentsInv'
  <2>1. /\ DOMAIN t'.files = D \cup DOMAIN t.files
        /\ \A key \in DOMAIN t.files : key \notin D => t'.files[key] = t.files[key]
    BY <1>7, <1>8
  <2>2. \A key \in D : key[1] \in {"ir", "irs", "setlist"}
    BY <1>9
  <2> QED BY <1>1, <1>2, <1>3, <1>10, <2>1, <2>2, ReadBeyond
<1>12. DocInv'
  <2>1. Setlist[1] \notin {"ir", "irs"}
    BY DEF Setlist
  <2>2. ~t'.edited /\ ~t'.errors => Setlist \in DOMAIN t.files /\ t.files[Setlist] = Doc
    BY <1>1, <1>2, <1>3 DEF DocInv
  <2>3. ~t'.edited /\ ~t'.errors => Setlist \in DOMAIN t'.files /\ t'.files[Setlist] = Doc
    BY <1>7, <1>8, <1>9, <2>1, <2>2
  <2> QED BY <1>3, <2>3 DEF DocInv, Doc
<1>13. IrsInv'
  <2>1. IrIndex \in DOMAIN files /\ files[IrIndex] = got
    BY <1>6, <1>8
  <2>2. \A h \in got : IrFile(h) \in DOMAIN files /\ files[IrFile(h)] = h
    BY <1>6, <1>8
  <2>3. ASSUME ~t'.edited, ~t'.errors, missing = {}
        PROVE  \A x \in pool : IrOf[x.content] \subseteq got
    <3>1. \A x \in pool : IrOf[x.content] \subseteq t.played
      BY <1>1, <1>2, <1>3, <2>3 DEF ContentsInv
    <3> QED BY <1>1, <1>5, <2>3, <3>1
  <2> QED BY <1>1, <1>3, <1>7, <2>1, <2>2, <2>3 DEF IrsInv, Whole
<1>14. WriteInv'
  <2> DEFINE differing == Differing(files)
  <2>1. /\ differing \subseteq DOMAIN files
        /\ \A key \in DOMAIN files : key \notin differing => Holds(key, files[key])
    BY DEF Differing
  <2>2. InOrder(differing) \in Seq(differing) /\ ToSet(InOrder(differing)) = differing
    <3>1. IsFiniteSet(DOMAIN files) /\ \A key \in DOMAIN files : key[1] \in {"index", "ir", "irs", "pool", "setlist"}
      BY <1>3, <1>7, <1>11 DEF RowsInv
    <3>2. IsFiniteSet(differing)
      BY <2>1, <3>1, FS_Subset
    <3> HIDE DEF differing
    <3> QED BY <2>1, <3>1, <3>2, InOrderAll
  <2> HIDE DEF differing
  <2>3. t'.write = InOrder(differing)
    BY <1>1, <1>7 DEF differing
  <2>4. t'.write \in Seq(DOMAIN files) /\ ToSet(t'.write) = differing
    <3>1. PICK q : q = InOrder(differing)
      OBVIOUS
    <3>2. q \in Seq(DOMAIN files)
      BY <2>1, <2>2, <3>1, MoreSeq
    <3> QED BY <2>2, <2>3, <3>1, <3>2
  <2>5. \A key \in DOMAIN t'.files : Holds(key, t.files[key])' \/ key \in ToSet(t'.write)
    BY <1>3, <1>7, <2>1, <2>4 DEF Holds, Exists, Content, OnDisk
  <2>6. t'.stale = {key \in DOMAIN tree : /\ ~t'.errors /\ missing = {}
                                         /\ key[1] \in {"pool", "setlist", "ir"} /\ key \notin DOMAIN files}
    <3>1. \A key \in DOMAIN tree : tree[key].as = key
      BY <1>4 DEF TreeInv
    <3> QED BY <1>1, <1>7, <3>1 DEF Stale, Complete
  <2> QED BY <1>1, <1>3, <1>4, <1>7, <2>4, <2>5, <2>6 DEF WriteInv, Whole
<1> QED BY <1>3, <1>4, <1>11, <1>12, <1>13, <1>14, Busy, RestingStays DEF PhotoInv
-----------------------------------------------------------------------------
(* Backups: what is written                                                *)

LEMMA HoldsThere ==
  ASSUME CaseBlind = FALSE, NEW key, NEW is
  PROVE  Holds(key, is) <=> key \in DOMAIN tree /\ ~tree[key].torn /\ tree[key].is = is
BY DEF Holds, Exists, Content, OnDisk

LEMMA Written ==
  ASSUME CaseBlind = FALSE, TreeInv(tree), NEW key, NEW torn, WriteFile(key, torn)
  PROVE  /\ DOMAIN tree' = DOMAIN tree \cup {key}
         /\ tree'[key] = [as |-> key, is |-> t.files[key], torn |-> torn]
         /\ \A k \in DOMAIN tree : k # key => tree'[k] = tree[k]
         /\ (key = Index => FilesNamed(t.files[key])) => TreeInv(tree)'
<1> DEFINE file == [as |-> key, is |-> t.files[key], torn |-> torn]
<1>1. tree' = Over(One(key, file), tree)
  BY SameOnDisk DEF WriteFile, TreeInv, Exists
<1> HIDE DEF file
<1>2. /\ DOMAIN tree' = DOMAIN tree \cup {key}
      /\ tree'[key] = file
      /\ \A k \in DOMAIN tree : k # key => tree'[k] = tree[k]
  BY <1>1 DEF Over, One
<1>3. file.as = key /\ file.is = t.files[key]
  BY DEF file
<1>4. (key = Index => FilesNamed(t.files[key])) => TreeInv(tree)'
  BY <1>2, <1>3 DEF TreeInv
<1> QED BY <1>2, <1>4 DEF file

LEMMA WriteKeeps == ASSUME CaseBlind = FALSE, PhotoInv, TakeWrite PROVE PhotoInv'
<1> DEFINE key == Head(t.write)
<1>1. /\ t.pc = "write" /\ t.write # <<>> /\ WriteFile(key, FALSE) /\ UNCHANGED <<vars, irs, later>>
      /\ t' = [t EXCEPT !.write = Tail(t.write)]
  BY DEF TakeWrite, Writing, Taking
<1>2. TakeInv /\ RowsInv /\ ContentsInv /\ DocInv /\ IrsInv /\ WriteInv
  BY DEF PhotoInv
<1>3. /\ t'.pc = "write" /\ t'.rows = t.rows /\ t'.files = t.files /\ t'.played = t.played /\ t'.errors = t.errors
      /\ t'.missing = t.missing /\ t'.write = Tail(t.write) /\ t'.stale = t.stale /\ t'.had = t.had
      /\ t'.edited = t.edited /\ t'.dry = t.dry /\ TakeShape'
  BY <1>1, <1>2 DEF TakeInv, TakeShape
<1>4. /\ Tail(t.write) \in Seq(DOMAIN t.files) /\ key \in ToSet(t.write)
      /\ ToSet(t.write) = {key} \cup ToSet(Tail(t.write)) /\ ToSet(t.write) \subseteq DOMAIN t.files
  <2>1. PICK S, q : S = DOMAIN t.files /\ q = t.write
    OBVIOUS
  <2>2. q \in Seq(S) /\ q # <<>>
    BY <1>1, <1>2, <2>1 DEF WriteInv
  <2>3. /\ Tail(q) \in Seq(S) /\ Head(q) \in ToSet(q)
        /\ ToSet(Tail(q)) = AfterFirst(q) /\ ToSet(q) = {Head(q)} \cup AfterFirst(q)
    BY <2>2, TailOps
  <2>4. ToSet(q) \subseteq S
    BY <2>2, OwnElements
  <2> QED BY <2>1, <2>3, <2>4
<1>5. TreeInv(tree) /\ TreeInv(t.had)
  BY <1>1, <1>2 DEF TakeInv
<1> HIDE DEF key
<1>6. /\ DOMAIN tree' = DOMAIN tree \cup {key}
      /\ tree'[key] = [as |-> key, is |-> t.files[key], torn |-> FALSE]
      /\ \A k \in DOMAIN tree : k # key => tree'[k] = tree[k]
      /\ TreeInv(tree)'
  <2>1. key = Index => FilesNamed(t.files[key])
    BY <1>1, <1>2 DEF RowsInv
  <2> QED BY <1>1, <1>5, <2>1, Written
<1>7. TreeInv(t.had)'
  BY <1>3, <1>5 DEF TreeInv
<1>8. TakeInv'
  BY <1>2, <1>3, <1>6, <1>7 DEF TakeInv
<1>9. pool' = pool /\ refs' = refs
  BY <1>1 DEF vars
<1>10. \A i : Fn(i)' = Fn(i)
  BY <1>3 DEF Fn
<1>11. RowsInv'
  BY <1>1, <1>2, <1>3, <1>9 DEF RowsInv
<1>12. ContentsInv'
  BY <1>1, <1>2, <1>3, <1>9, <1>10 DEF ContentsInv
<1>13. (DocInv /\ IrsInv)'
  BY <1>1, <1>2, <1>3, <1>9 DEF DocInv, Doc, IrsInv, Whole
<1>14. WriteInv'
  <2>1. ASSUME NEW k \in DOMAIN t.files
        PROVE  (k \in DOMAIN tree' /\ ~tree'[k].torn /\ tree'[k].is = t.files[k]) \/ k \in ToSet(t'.write)
    <3>1. CASE k = key
      BY <1>6, <3>1
    <3>2. CASE k # key
      <4>1. (k \in DOMAIN tree /\ ~tree[k].torn /\ tree[k].is = t.files[k]) \/ k \in ToSet(t.write)
        BY <1>1, <1>2, HoldsThere DEF WriteInv
      <4> QED BY <1>3, <1>4, <1>6, <3>2, <4>1
    <3> QED BY <3>1, <3>2
  <2>2. \A k, is : Holds(k, is)' <=> k \in DOMAIN tree' /\ ~tree'[k].torn /\ tree'[k].is = is
    BY DEF Holds, Exists, Content, OnDisk
  <2>3. \A k \in DOMAIN t'.files : Holds(k, t.files[k])' \/ k \in ToSet(t'.write)
    BY <1>3, <2>1, <2>2
  <2>4. key \in DOMAIN t.files
    BY <1>4
  <2>5. ~Whole => /\ t.stale = {}
                  /\ \A k \in DOMAIN t.had : k \notin DOMAIN t.files => k \in DOMAIN tree' /\ tree'[k] = t.had[k]
    BY <1>1, <1>2, <1>6, <2>4 DEF WriteInv
  <2>6. Whole => \A k \in DOMAIN tree' :
                    k[1] \in {"pool", "setlist", "ir"} => k \in DOMAIN t.files \/ k \in t.stale
    BY <1>1, <1>2, <1>6, <2>4 DEF WriteInv
  <2>7. \A k \in t.stale : k \notin DOMAIN t.files
    BY <1>1, <1>2 DEF WriteInv
  <2> QED BY <1>3, <1>4, <2>3, <2>5, <2>6, <2>7 DEF WriteInv, Whole
<1> QED BY <1>1, <1>3, <1>8, <1>11, <1>12, <1>13, <1>14, Busy, RestingStays DEF PhotoInv

LEMMA UnlinkKeeps == ASSUME CaseBlind = FALSE, PhotoInv, TakeUnlink PROVE PhotoInv'
<1>1. PICK key \in t.stale : /\ tree' = [k \in DOMAIN tree \ {key} |-> tree[k]]
                             /\ t' = [t EXCEPT !.stale = t.stale \ {key}]
  BY DEF TakeUnlink
<1>2. t.pc = "write" /\ t.write = <<>> /\ UNCHANGED <<vars, irs, later>>
  BY DEF TakeUnlink, Writing, Taking
<1>3. TakeInv /\ RowsInv /\ ContentsInv /\ DocInv /\ IrsInv /\ WriteInv
  BY DEF PhotoInv
<1>4. /\ t'.pc = "write" /\ t'.rows = t.rows /\ t'.files = t.files /\ t'.played = t.played /\ t'.errors = t.errors
      /\ t'.missing = t.missing /\ t'.write = t.write /\ t'.stale = t.stale \ {key} /\ t'.had = t.had
      /\ t'.edited = t.edited /\ t'.dry = t.dry /\ TakeShape'
  BY <1>1, <1>2, <1>3 DEF TakeInv, TakeShape
<1>5. DOMAIN tree' = DOMAIN tree \ {key} /\ \A k \in DOMAIN tree' : tree'[k] = tree[k]
  BY <1>1
<1>6. Whole /\ key \notin DOMAIN t.files
  BY <1>1, <1>2, <1>3 DEF WriteInv
<1>7. TakeInv'
  <2>1. TreeInv(tree) /\ TreeInv(t.had)
    BY <1>2, <1>3 DEF TakeInv
  <2>2. TreeInv(tree)' /\ TreeInv(t.had)'
    BY <1>4, <1>5, <2>1 DEF TreeInv
  <2> QED BY <1>3, <1>4, <2>2 DEF TakeInv
<1>8. pool' = pool /\ refs' = refs
  BY <1>2 DEF vars
<1>9. \A i : Fn(i)' = Fn(i)
  BY <1>4 DEF Fn
<1>10. RowsInv'
  BY <1>2, <1>3, <1>4, <1>8 DEF RowsInv
<1>11. ContentsInv'
  BY <1>2, <1>3, <1>4, <1>8, <1>9 DEF ContentsInv
<1>12. (DocInv /\ IrsInv)'
  BY <1>2, <1>3, <1>4, <1>8 DEF DocInv, Doc, IrsInv, Whole
<1>13. WriteInv'
  <2>1. \A k, is : Holds(k, is)' <=> k \in DOMAIN tree' /\ ~tree'[k].torn /\ tree'[k].is = is
    BY DEF Holds, Exists, Content, OnDisk
  <2>2. ASSUME NEW k \in DOMAIN t.files
        PROVE  (k \in DOMAIN tree' /\ ~tree'[k].torn /\ tree'[k].is = t.files[k]) \/ k \in ToSet(t.write)
    <3>1. (k \in DOMAIN tree /\ ~tree[k].torn /\ tree[k].is = t.files[k]) \/ k \in ToSet(t.write)
      BY <1>2, <1>3, HoldsThere DEF WriteInv
    <3> QED BY <1>5, <1>6, <3>1
  <2>3. \A k \in DOMAIN t'.files : Holds(k, t.files[k])' \/ k \in ToSet(t'.write)
    BY <1>4, <2>1, <2>2
  <2>4. t'.write \in Seq(DOMAIN t'.files) /\ \A k \in t'.stale : k \notin DOMAIN t'.files
    BY <1>2, <1>3, <1>4 DEF WriteInv
  <2>5. \A k \in DOMAIN tree' : k[1] \in {"pool", "setlist", "ir"} => k \in DOMAIN t'.files \/ k \in t'.stale
    BY <1>2, <1>3, <1>4, <1>5, <1>6 DEF WriteInv
  <2>6. Whole'
    BY <1>4, <1>6 DEF Whole
  <2> QED BY <2>3, <2>4, <2>5, <2>6 DEF WriteInv
<1> QED BY <1>2, <1>4, <1>7, <1>10, <1>11, <1>12, <1>13, Busy, RestingStays DEF PhotoInv

\* A file that the command was killed at is torn, and the run has not ended by itself.
LEMMA KilledKeeps == ASSUME CaseBlind = FALSE, PhotoInv, TakeKilled PROVE PhotoInv'
<1>1. /\ t.pc = "write" /\ UNCHANGED <<vars, irs, later>> /\ TakeEnds("killed")
      /\ tree' = tree \/ (t.write # <<>> /\ WriteFile(Head(t.write), TRUE))
  BY DEF TakeKilled, TakeEnds, Writing, Taking
<1>2. TakeInv /\ RowsInv /\ WriteInv /\ TreeInv(tree)
  BY <1>1 DEF PhotoInv, TakeInv
<1>3. TreeInv(tree)'
  <2>1. CASE tree' = tree
    BY <1>2, <2>1 DEF TreeInv
  <2>2. CASE t.write # <<>> /\ WriteFile(Head(t.write), TRUE)
    <3>1. PICK key : key = Head(t.write)
      OBVIOUS
    <3>2. key = Index => FilesNamed(t.files[key])
      BY <1>1, <1>2 DEF RowsInv
    <3> QED BY <1>2, <2>2, <3>1, <3>2, Written
  <2> QED BY <1>1, <2>1, <2>2
<1>4. TakeInv' /\ t'.pc = "idle" /\ t'.ended = "killed"
  BY <1>1, <1>2, <1>3, EndShape
<1>5. (RowsInv /\ ContentsInv /\ DocInv /\ IrsInv /\ WriteInv)'
  BY <1>4 DEF RowsInv, ContentsInv, DocInv, IrsInv, WriteInv
<1> QED BY <1>1, <1>4, <1>5, Busy, RestingStays DEF PhotoInv
-----------------------------------------------------------------------------
(* Backups: what a run that ended by itself leaves                         *)

\* All is written and removed that had to be.
Finished == t.pc = "write" /\ t.write = <<>> /\ t.stale = {}

LEMMA FilesHeld ==
  ASSUME CaseBlind = FALSE, PhotoInv, Finished, NEW key \in DOMAIN t.files
  PROVE  key \in DOMAIN tree /\ ~tree[key].torn /\ tree[key].is = t.files[key]
<1>1. Holds(key, t.files[key]) \/ key \in ToSet(t.write)
  BY DEF PhotoInv, WriteInv, Finished
<1>2. ToSet(t.write) = {}
  BY DEF Finished, ToSet
<1> QED BY <1>1, <1>2, HoldsThere

\* The rows are the presets, and each has a file of its own.
LEMMA RowsAre ==
  ASSUME PhotoInv, t.pc = "write", ~t.edited
  PROVE  /\ Cardinality(pool) \in Nat /\ DOMAIN t.rows = 1..Cardinality(pool)
         /\ \A i \in DOMAIN t.rows : t.rows[i] \in pool
         /\ \A i, j \in DOMAIN t.rows : t.rows[i] = t.rows[j] \/ Fn(i) = Fn(j) => i = j
         /\ \A x \in pool : \E i \in DOMAIN t.rows : t.rows[i] = x
         /\ Index \in DOMAIN t.files /\ t.files[Index] = IndexOf(t.rows)
<1>1. t.rows = ByCid(pool) /\ Index \in DOMAIN t.files /\ t.files[Index] = IndexOf(t.rows)
  BY DEF PhotoInv, RowsInv
<1>2. \E m : SoundDevice(pool, refs, m)
  BY PoolSound DEF PhotoInv
<1>3. /\ Cardinality(pool) \in Nat /\ DOMAIN t.rows = 1..Cardinality(pool)
      /\ \A i \in DOMAIN t.rows : t.rows[i] \in pool
      /\ \A i, j \in DOMAIN t.rows : t.rows[i] = t.rows[j] => i = j
      /\ \A x \in pool : \E i \in DOMAIN t.rows : t.rows[i] = x
  BY <1>1, <1>2, ByCidOrder
<1>4. DOMAIN NamesOf(t.rows) = 1..Cardinality(pool)
  BY <1>3 DEF NamesOf
<1>5. \A i, j \in DOMAIN t.rows : Fn(i) = Fn(j) => i = j
  BY <1>3, <1>4, FilesApart DEF Fn
<1> QED BY <1>1, <1>3, <1>5

\* What the index has for a file, and what the file holds.
LEMMA FileOf ==
  ASSUME CaseBlind = FALSE, PhotoInv, Finished, ~t.edited, NEW i \in DOMAIN t.rows,
         PoolFile(Fn(i)) \in DOMAIN t.files
  PROVE  /\ PoolFile(Fn(i)) \in DOMAIN tree /\ ~tree[PoolFile(Fn(i))].torn
         /\ tree[PoolFile(Fn(i))].is = t.rows[i].content
<1> DEFINE key == PoolFile(Fn(i))
<1>1. key[1] = "pool"
  BY DEF PoolFile
<1>2. PICK j \in DOMAIN t.rows : key = PoolFile(Fn(j)) /\ t.files[key] = t.rows[j].content
  BY <1>1 DEF PhotoInv, ContentsInv, Finished
<1>3. Fn(i) = Fn(j)
  BY <1>2 DEF PoolFile
<1>4. i = j
  BY <1>3, RowsAre DEF Finished
<1> QED BY <1>2, <1>4, FilesHeld

\* What Mirror says of the device and the tree.
Reflects ==
    LET found(x) == {fn \in DOMAIN Content(Index) :
                        /\ Content(Index)[fn] = x.name
                        /\ Holds(PoolFile(fn), x.content)}
        twins(x) == {y \in pool : y.name = x.name /\ y.content = x.content}
    IN  /\ \A x \in pool : Cardinality(found(x)) = Cardinality(twins(x))
        /\ Cardinality({key \in DOMAIN tree : key[1] = "pool"}) = Cardinality(pool)
        /\ Content(Setlist) = {[name |-> NameIn(pool, r.rcid), posi |-> r.posi] : r \in refs}
        /\ \A x \in pool : IrOf[x.content] \subseteq Content(IrIndex)
        /\ \A h \in Content(IrIndex) : Holds(IrFile(h), h)

LEMMA Reflected ==
  ASSUME CaseBlind = FALSE, PhotoInv, Finished, ~t.edited, Whole
  PROVE  Reflects
<1> DEFINE place == [y \in pool |-> CHOOSE i \in DOMAIN t.rows : t.rows[i] = y]
           index == IndexOf(t.rows)
           found(x) == {fn \in DOMAIN Content(Index) :
                            /\ Content(Index)[fn] = x.name
                            /\ Holds(PoolFile(fn), x.content)}
           twins(x) == {y \in pool : y.name = x.name /\ y.content = x.content}
<1>1. t.pc = "write" /\ RowsInv /\ ContentsInv /\ DocInv /\ IrsInv /\ WriteInv
  BY DEF Finished, PhotoInv
<1>2. \A key : /\ Content(key) = tree[key].is
               /\ \A is : Holds(key, is) <=> key \in DOMAIN tree /\ ~tree[key].torn /\ tree[key].is = is
  BY SameOnDisk, HoldsThere DEF Content
<1>3. /\ DOMAIN t.rows = 1..Cardinality(pool) /\ Cardinality(pool) \in Nat
      /\ \A i, j \in DOMAIN t.rows : t.rows[i] = t.rows[j] \/ Fn(i) = Fn(j) => i = j
      /\ Index \in DOMAIN t.files /\ t.files[Index] = index
  BY <1>1, RowsAre
<1>4. \A y \in pool : place[y] \in DOMAIN t.rows /\ t.rows[place[y]] = y
  BY <1>1, RowsAre
<1>5. \A i \in DOMAIN t.rows : t.rows[i] \in pool /\ place[t.rows[i]] = i
  BY <1>1, <1>3, <1>4, RowsAre
<1>6. Content(Index) = index
  BY <1>2, <1>3, FilesHeld
<1>7. \A i \in DOMAIN t.rows : PoolFile(Fn(i)) \in DOMAIN t.files
  BY <1>1 DEF ContentsInv, Whole
<1>8. \A i \in DOMAIN t.rows : /\ PoolFile(Fn(i)) \in DOMAIN tree /\ ~tree[PoolFile(Fn(i))].torn
                               /\ tree[PoolFile(Fn(i))].is = t.rows[i].content
  BY <1>7, FileOf
<1>9. \A fn \in DOMAIN index : \E i \in DOMAIN t.rows : Fn(i) = fn /\ index[fn] = t.rows[i].name
  BY IndexFacts DEF Fn
<1>10. \A i \in DOMAIN t.rows : Fn(i) \in DOMAIN index /\ index[Fn(i)] = t.rows[i].name
  BY <1>3, IndexOne DEF Fn
<1> HIDE DEF place, index
<1>11. ASSUME NEW x \in pool PROVE Cardinality(found(x)) = Cardinality(twins(x))
  <2> DEFINE g == [y \in twins(x) |-> Fn(place[y])]
  <2>1. IsFiniteSet(twins(x))
    <3>1. IsFiniteSet(pool)
      BY PoolSound DEF PhotoInv
    <3> QED BY <3>1, FS_Subset
  <2>2. ASSUME NEW y \in twins(x) PROVE Fn(place[y]) \in found(x)
    <3>1. /\ place[y] \in DOMAIN t.rows /\ t.rows[place[y]] = y
          /\ y.name = x.name /\ y.content = x.content
      BY <1>4
    <3>2. Holds(PoolFile(Fn(place[y])), x.content)
      BY <1>2, <1>8, <3>1
    <3> QED BY <1>6, <1>10, <3>1, <3>2
  <2>3. \A y, z \in twins(x) : Fn(place[y]) = Fn(place[z]) => y = z
    BY <1>3, <1>4
  <2>4. ASSUME NEW fn \in found(x) PROVE \E y \in twins(x) : Fn(place[y]) = fn
    <3>1. PICK i \in DOMAIN t.rows : Fn(i) = fn /\ index[fn] = t.rows[i].name
      BY <1>6, <1>9
    <3>2. Holds(PoolFile(fn), x.content) /\ index[fn] = x.name
      BY <1>6
    <3>3. t.rows[i].content = x.content
      BY <1>2, <1>8, <3>1, <3>2
    <3>4. t.rows[i] \in twins(x) /\ place[t.rows[i]] = i
      BY <1>5, <3>1, <3>2, <3>3
    <3> QED BY <3>1, <3>4
  <2>5. /\ g \in [twins(x) -> found(x)]
        /\ \A y, z \in twins(x) : g[y] = g[z] => y = z
        /\ \A fn \in found(x) : \E y \in twins(x) : g[y] = fn
    <3> HIDE DEF found, twins
    <3> QED BY <2>2, <2>3, <2>4
  <2> HIDE DEF found, twins, g
  <2> QED BY <2>1, <2>5, SameSize
<1>12. Cardinality({key \in DOMAIN tree : key[1] = "pool"}) = Cardinality(pool)
  <2> DEFINE keys == {key \in DOMAIN tree : key[1] = "pool"}
             g == [y \in pool |-> PoolFile(Fn(place[y]))]
  <2>1. \A y \in pool : PoolFile(Fn(place[y])) \in keys
    <3>1. \A fn : PoolFile(fn)[1] = "pool"
      BY DEF PoolFile
    <3> QED BY <1>4, <1>8, <3>1
  <2>2. \A y, z \in pool : PoolFile(Fn(place[y])) = PoolFile(Fn(place[z])) => y = z
    BY <1>3, <1>4 DEF PoolFile
  <2>3. ASSUME NEW key \in keys PROVE \E y \in pool : PoolFile(Fn(place[y])) = key
    <3>1. key \in DOMAIN t.files
      BY <1>1 DEF WriteInv, Finished
    <3>2. PICK i \in DOMAIN t.rows : key = PoolFile(Fn(i))
      BY <1>1, <3>1 DEF ContentsInv
    <3> QED BY <1>5, <3>2
  <2>4. /\ g \in [pool -> keys]
        /\ \A y, z \in pool : g[y] = g[z] => y = z
        /\ \A key \in keys : \E y \in pool : g[y] = key
    <3> HIDE DEF keys
    <3> QED BY <2>1, <2>2, <2>3
  <2>5. IsFiniteSet(pool)
    BY PoolSound DEF PhotoInv
  <2> HIDE DEF keys, g
  <2>6. Cardinality(pool) = Cardinality(keys)
    BY <2>4, <2>5, SameSize
  <2> QED BY <2>6 DEF keys
<1>13. Content(Setlist) = {[name |-> NameIn(pool, r.rcid), posi |-> r.posi] : r \in refs}
  <2>1. Setlist \in DOMAIN t.files /\ t.files[Setlist] = Doc
    BY <1>1 DEF DocInv, Whole
  <2> QED BY <1>2, <2>1, FilesHeld DEF Doc
<1>14. /\ \A x \in pool : IrOf[x.content] \subseteq Content(IrIndex)
       /\ \A h \in Content(IrIndex) : Holds(IrFile(h), h)
  <2>1. IrIndex \in DOMAIN t.files /\ \A h \in t.files[IrIndex] : IrFile(h) \in DOMAIN t.files /\ t.files[IrFile(h)] = h
    BY <1>1 DEF IrsInv
  <2>2. Content(IrIndex) = t.files[IrIndex]
    BY <1>2, <2>1, FilesHeld
  <2>3. \A x \in pool : IrOf[x.content] \subseteq t.files[IrIndex]
    BY <1>1 DEF IrsInv
  <2>4. \A h \in t.files[IrIndex] : Holds(IrFile(h), h)
    BY <1>2, <2>1, FilesHeld
  <2> QED BY <2>2, <2>3, <2>4
<1> HIDE DEF found, twins
<1>15. Reflects <=>
        /\ \A x \in pool : Cardinality(found(x)) = Cardinality(twins(x))
        /\ Cardinality({key \in DOMAIN tree : key[1] = "pool"}) = Cardinality(pool)
        /\ Content(Setlist) = {[name |-> NameIn(pool, r.rcid), posi |-> r.posi] : r \in refs}
        /\ \A x \in pool : IrOf[x.content] \subseteq Content(IrIndex)
        /\ \A h \in Content(IrIndex) : Holds(IrFile(h), h)
  BY DEF Reflects, found, twins
<1> QED BY <1>11, <1>12, <1>13, <1>14, <1>15

\* A name whose file has the digest of another, or of none, is that other in
\* any case, if slugs respect the cases.
LEMMA NameOfFile ==
  ASSUME CaseRespected, PhotoInv, t.pc = "write", ~t.edited,
         NEW i \in DOMAIN t.rows, NEW x \in pool, NEW fn, fn = Fn(i),
         fn[1] = SlugOf[x.name], fn[2] \in {NoName, x.name}
  PROVE  CaseOf[t.rows[i].name] = CaseOf[x.name]
<1> DEFINE names == NamesOf(t.rows)
<1>1. /\ Cardinality(pool) \in Nat /\ DOMAIN t.rows = 1..Cardinality(pool)
      /\ \A j \in DOMAIN t.rows : t.rows[j] \in pool
      /\ \A y \in pool : \E j \in DOMAIN t.rows : t.rows[j] = y
  BY RowsAre
<1>2. DOMAIN names = DOMAIN t.rows /\ \A j \in DOMAIN t.rows : names[j] = t.rows[j].name
  BY DEF NamesOf
<1>3. \A y \in pool : y.name # NoName
  BY PoolSound DEF PhotoInv
<1> HIDE DEF names
<1>4. SlugOf[names[i]] = SlugOf[x.name] /\ Digest(names, i) \in {NoName, x.name}
  BY <1>2, Filenames DEF Fn, names
<1>5. CASE Cardinality(Slugs(names, i)) > Cardinality(Alikes(names, i))
  BY <1>1, <1>2, <1>3, <1>4, <1>5 DEF Digest
<1>6. CASE ~(Cardinality(Slugs(names, i)) > Cardinality(Alikes(names, i)))
  <2>1. Alikes(names, i) \subseteq Slugs(names, i)
    <3>1. \A y, z \in pool : CaseOf[y.name] = CaseOf[z.name] => CaseOf[SlugOf[y.name]] = CaseOf[SlugOf[z.name]]
      <4>1. PICK d \in Views : pool = d.pool
        BY DEF PhotoInv, RestingInv
      <4> HIDE DEF Views
      <4> QED BY <4>1 DEF CaseRespected
    <3>2. ASSUME NEW j \in DOMAIN t.rows, CaseOf[names[j]] = CaseOf[names[i]]
          PROVE  CaseOf[SlugOf[names[j]]] = CaseOf[SlugOf[names[i]]]
      <4>1. /\ t.rows[i] \in pool /\ t.rows[j] \in pool
            /\ names[i] = t.rows[i].name /\ names[j] = t.rows[j].name
        BY <1>1, <1>2
      <4> QED BY <3>1, <3>2, <4>1
    <3> QED BY <1>2, <3>2 DEF Alikes, Slugs
  <2>2. IsFiniteSet(Slugs(names, i))
    <3>1. Slugs(names, i) \subseteq 1..Cardinality(pool)
      BY <1>1, <1>2 DEF Slugs
    <3>2. IsFiniteSet(1..Cardinality(pool))
      BY <1>1, FS_Interval
    <3> QED BY <3>1, <3>2, FS_Subset
  <2>3. Slugs(names, i) = Alikes(names, i)
    <3>1. /\ Cardinality(Alikes(names, i)) <= Cardinality(Slugs(names, i))
          /\ Cardinality(Alikes(names, i)) = Cardinality(Slugs(names, i)) => Alikes(names, i) = Slugs(names, i)
          /\ Cardinality(Alikes(names, i)) \in Nat /\ Cardinality(Slugs(names, i)) \in Nat
      BY <2>1, <2>2, FS_Subset, FS_CardinalityType
    <3> QED BY <1>6, <3>1
  <2>4. PICK j \in DOMAIN t.rows : t.rows[j] = x
    BY <1>1
  <2>5. j \in Slugs(names, i)
    BY <1>2, <1>4, <2>4 DEF Slugs
  <2> QED BY <1>2, <2>3, <2>4, <2>5 DEF Alikes
<1> QED BY <1>5, <1>6

\* What Kept says of the device, the tree, and the tree before.
OnlyOneOf(n, index) == /\ Cardinality(NamesLike(n, NamesOf(SetToSeq(pool)))) = 1
                       /\ Cardinality(NamesLike(n, index)) = 1
Keeps ==
    LET index == t.had[Index].is
    IN  /\ \A fn \in DOMAIN index : \A x \in Named(pool, index[fn]) :
               Had(OnDisk(PoolFile(fn))) /\ OnlyOneOf(x.name, index) =>
                   \E key \in DOMAIN tree : key[1] = "pool" /\ ~tree[key].torn
                       /\ tree[key].is \in {x.content, t.had[OnDisk(PoolFile(fn))].is}
        /\ \A x \in pool : \A h \in IrOf[x.content] \cap irs : Had(IrFile(h)) => Exists(IrFile(h))

LEMMA NothingTaken ==
  ASSUME CaseBlind = FALSE, CaseRespected, PhotoInv, Finished, ~t.edited, Had(Index)
  PROVE  Keeps
<1> DEFINE index == t.had[Index].is
<1>1. t.pc = "write" /\ TakeInv /\ RowsInv /\ ContentsInv /\ IrsInv /\ WriteInv
  BY DEF Finished, PhotoInv
<1>2. \A key : OnDisk(key) = key
  BY SameOnDisk
<1>3. FilesNamed(index)
  BY <1>1 DEF TakeInv, TreeInv, Had
<1> HIDE DEF index
<1>4. ASSUME NEW fn \in DOMAIN index, NEW x \in Named(pool, index[fn]),
             Had(OnDisk(PoolFile(fn))), OnlyOneOf(x.name, index)
      PROVE  \E key \in DOMAIN tree : key[1] = "pool" /\ ~tree[key].torn
                 /\ tree[key].is \in {x.content, t.had[OnDisk(PoolFile(fn))].is}
  <2>1. PICK key : key = PoolFile(fn)
    OBVIOUS
  <2>2. key \in DOMAIN t.had /\ ~t.had[key].torn /\ OnDisk(PoolFile(fn)) = key
    BY <1>2, <1>4, <2>1 DEF Had
  <2>3. key[1] = "pool"
    BY <2>1 DEF PoolFile
  <2>4. x \in pool /\ x.name = index[fn]
    BY DEF Named
  <2>5. CASE Whole
    <3>1. PICK i \in DOMAIN t.rows : t.rows[i] = x
      BY <1>1, <2>4, RowsAre
    <3>2. PoolFile(Fn(i)) \in DOMAIN t.files
      BY <1>1, <2>5 DEF ContentsInv, Whole
    <3>3. PoolFile(Fn(i)) \in DOMAIN tree /\ ~tree[PoolFile(Fn(i))].torn /\ tree[PoolFile(Fn(i))].is = x.content
      BY <3>1, <3>2, FileOf
    <3>4. PoolFile(Fn(i))[1] = "pool"
      BY DEF PoolFile
    <3> QED BY <3>3, <3>4
  <2>6. CASE key \notin DOMAIN t.files /\ ~Whole
    <3>1. key \in DOMAIN tree /\ tree[key] = t.had[key]
      BY <1>1, <2>2, <2>6 DEF WriteInv
    <3> QED BY <2>2, <2>3, <3>1
  <2>7. CASE key \in DOMAIN t.files
    <3>1. PICK i \in DOMAIN t.rows : key = PoolFile(Fn(i)) /\ t.files[key] = t.rows[i].content
      BY <1>1, <2>3, <2>7 DEF ContentsInv
    <3>2. fn = Fn(i)
      BY <2>1, <3>1 DEF PoolFile
    <3>3. fn[1] = SlugOf[x.name] /\ fn[2] \in {NoName, x.name}
      BY <1>3, <2>4 DEF FilesNamed
    <3>4. CaseOf[t.rows[i].name] = CaseOf[x.name]
      BY <1>1, <2>4, <3>2, <3>3, NameOfFile
    <3>5. t.rows[i] = x
      <4>1. t.rows[i] \in pool /\ IsFiniteSet(pool)
        BY <1>1, RowsAre, PoolSound DEF PhotoInv
      <4> QED BY <1>4, <2>4, <3>4, <4>1, OnlyOne DEF OnlyOneOf
    <3>6. key \in DOMAIN tree /\ ~tree[key].torn /\ tree[key].is = x.content
      BY <2>7, <3>1, <3>5, FilesHeld
    <3> QED BY <2>3, <3>6
  <2> QED BY <2>5, <2>6, <2>7
<1>5. ASSUME NEW x \in pool, NEW h \in IrOf[x.content] \cap irs, Had(IrFile(h)) PROVE Exists(IrFile(h))
  <2>1. IrFile(h) \in DOMAIN t.had
    BY <1>5 DEF Had
  <2>2. CASE IrFile(h) \in DOMAIN t.files
    BY <1>2, <2>2, FilesHeld DEF Exists
  <2>3. CASE IrFile(h) \notin DOMAIN t.files
    <3>1. ~Whole
      BY <1>1, <2>3 DEF IrsInv
    <3> QED BY <1>1, <1>2, <2>1, <2>3, <3>1 DEF WriteInv, Exists
  <2> QED BY <2>2, <2>3
<1> QED BY <1>4, <1>5 DEF Keeps, index

LEMMA DoneKeeps == ASSUME CaseBlind = FALSE, PhotoInv, TakeDone PROVE PhotoInv'
<1>1. /\ t.pc = "write" /\ UNCHANGED <<vars, irs, later>> /\ tree' = tree
      /\ t.dry \/ Finished
      /\ TakeEnds(IF t.errors THEN "error" ELSE "ok")
  BY DEF TakeDone, TakeEnds, Finished, Taking
<1>2. TreeInv(tree)' /\ TakeInv
  BY <1>1 DEF PhotoInv, TakeInv, TreeInv
<1>3. PICK how : how = (IF t.errors THEN "error" ELSE "ok") /\ TakeEnds(how)
  BY <1>1
<1>4. /\ TakeInv' /\ t'.pc = "idle" /\ t'.ended = how
      /\ t'.dry = t.dry /\ t'.errors = t.errors /\ t'.missing = t.missing /\ t'.edited = t.edited
      /\ t'.had = t.had
  BY <1>2, <1>3, EndShape
<1>5. (RowsInv /\ ContentsInv /\ DocInv /\ IrsInv /\ WriteInv)'
  BY <1>4 DEF RowsInv, ContentsInv, DocInv, IrsInv, WriteInv
<1>6. Mirror' /\ (CaseRespected => Kept)'
  <2>1. CASE t.dry \/ t.edited
    BY <1>4, <2>1, Busy
  <2>2. CASE Finished /\ ~t.edited
    <3>1. pool' = pool /\ refs' = refs /\ irs' = irs
      BY <1>1 DEF vars
    <3>2. Whole => Reflects'
      <4>1. Whole => Reflects
        BY <2>2, Reflected
      <4> QED BY <1>1, <3>1, <4>1 DEF Reflects, Content, Exists, Holds, OnDisk
    <3>3. how = "ok" /\ t'.missing = {} => Whole
      BY <1>3, <1>4 DEF Whole
    <3>4. Mirror'
      BY <1>4, <3>2, <3>3 DEF Mirror, Reflects
    <3>5. CaseRespected /\ Had(Index) => Keeps'
      <4>1. CaseRespected /\ Had(Index) => Keeps
        BY <2>2, NothingTaken
      <4> QED BY <1>1, <1>4, <3>1, <4>1 DEF Keeps, OnlyOneOf, Had, Exists, OnDisk
    <3>6. (CaseRespected => Kept)'
      BY <1>4, <3>5 DEF Kept, Keeps, OnlyOneOf, Had
    <3> QED BY <3>4, <3>6
  <2> QED BY <1>1, <2>1, <2>2
<1> QED BY <1>1, <1>4, <1>5, <1>6, RestingStays DEF PhotoInv

\* From then on the device is another.
LEMMA ChangeKeeps == ASSUME PhotoInv, DeviceChanges PROVE PhotoInv'
<1>1. /\ TakeInv /\ RowsInv /\ ContentsInv /\ IrsInv /\ WriteInv /\ RestingInv
  BY DEF PhotoInv
<1>2. /\ later # <<>> /\ pool' = Head(later).pool /\ refs' = Head(later).refs /\ irs' = Head(later).irs
      /\ later' = Tail(later) /\ edits' = edits + 1 /\ t' = [t EXCEPT !.edited = TRUE]
      /\ UNCHANGED <<job, runs, c, tree>>
  BY DEF DeviceChanges
<1>3. /\ t'.pc = t.pc /\ t'.rows = t.rows /\ t'.files = t.files /\ t'.played = t.played /\ t'.errors = t.errors
      /\ t'.missing = t.missing /\ t'.write = t.write /\ t'.stale = t.stale /\ t'.had = t.had
      /\ t'.edited = TRUE /\ t'.dry = t.dry /\ TakeShape'
  BY <1>1, <1>2 DEF TakeInv, TakeShape
<1>4. RestingInv'
  <2>1. Head(later) \in Views /\ Tail(later) \in Seq(Views)
    <3> HIDE DEF Views
    <3> QED BY <1>1, <1>2 DEF RestingInv
  <2>2. edits' \in Nat /\ edits' >= PanelEdits
    BY <1>1, <1>2, RestoreAssumption DEF RestingInv
  <2> HIDE DEF Views
  <2> QED BY <1>1, <1>2, <2>1, <2>2 DEF RestingInv
<1>5. TakeInv'
  BY <1>1, <1>2, <1>3 DEF TakeInv, TreeInv
<1>6. (RowsInv /\ ContentsInv /\ DocInv)'
  BY <1>1, <1>3 DEF RowsInv, ContentsInv, DocInv
<1>7. IrsInv'
  BY <1>1, <1>3 DEF IrsInv
<1>8. WriteInv'
  BY <1>1, <1>2, <1>3 DEF WriteInv, Whole, Holds, Exists, Content, OnDisk
<1> QED BY <1>3, <1>4, <1>5, <1>6, <1>7, <1>8, Busy DEF PhotoInv

\* A restore of the tree ends the backups.
LEMMA PhotoEnds == ASSUME NoPhoto, BackupNext PROVE NoPhoto'
<1>1. t.pc = "idle" /\ ~(takes < Takes) /\ later = <<>>
  BY ScenesAssumption DEF NoPhoto, Idle
<1>2. CASE Next /\ UNCHANGED snapshotVars
  BY <1>2 DEF NoPhoto, snapshotVars
<1>3. CASE Snapshot
  BY <1>1, <1>3 DEF Snapshot, Take, TakeAborts, TakePool, TakeContents, TakeSetlist, TakeIrs, TakeWrite,
                    TakeUnlink, TakeKilled, TakeDone, Writing, Taking
<1>4. CASE DeviceChanges
  BY <1>1, <1>4 DEF DeviceChanges
<1>5. CASE RestoreFromTree
  BY <1>1, <1>5 DEF RestoreFromTree, NoPhoto
<1> QED BY <1>2, <1>3, <1>4, <1>5 DEF BackupNext

LEMMA PhotoKeeps ==
  ASSUME CaseBlind = FALSE, BackupInv, [BackupNext]_allVars
  PROVE  BackupInv'
<1>1. CASE NoPhoto
  <2>1. CASE BackupNext
    BY <1>1, <2>1, PhotoEnds DEF BackupInv
  <2>2. CASE UNCHANGED allVars
    BY <1>1, <2>2 DEF BackupInv, NoPhoto, allVars, snapshotVars
  <2> QED BY <2>1, <2>2
<1>2. CASE PhotoInv
  <2>1. CASE Next /\ UNCHANGED snapshotVars
    BY <1>2, <2>1, RestingRests DEF PhotoInv
  <2>2. CASE Snapshot
    <3>1. PhotoInv'
      BY <1>2, <2>2, TakeKeeps, AbortedKeeps, PoolKeeps, ContentsKeeps, SetlistKeeps, IrsKeeps, WriteKeeps,
         UnlinkKeeps, KilledKeeps, DoneKeeps DEF Snapshot
    <3> QED BY <3>1 DEF BackupInv
  <2>3. CASE DeviceChanges
    BY <1>2, <2>3, ChangeKeeps DEF BackupInv
  <2>4. CASE RestoreFromTree
    BY <2>4 DEF RestoreFromTree, BackupInv, NoPhoto
  <2>5. CASE UNCHANGED allVars
    <3>1. UNCHANGED <<vars, irs, later, tree, t>>
      BY <2>5 DEF allVars, snapshotVars
    <3>2. UNCHANGED <<pool, refs, job>>
      BY <3>1 DEF vars
    <3>3. (TakeInv /\ RowsInv /\ ContentsInv /\ DocInv)'
      BY <1>2, <3>1, <3>2 DEF PhotoInv, TakeInv, TakeShape, TreeInv, RowsInv, ContentsInv, Fn, DocInv, Doc
    <3>4. (IrsInv /\ WriteInv)'
      BY <1>2, <3>1, <3>2 DEF PhotoInv, IrsInv, WriteInv, Whole, Holds, Exists, Content, OnDisk
    <3>5. Mirror'
      BY <1>2, <3>1, <3>2 DEF PhotoInv, Mirror, Settled, Taking, Content, Holds, Exists, OnDisk
    <3>6. CaseRespected => Kept'
      BY <1>2, <3>1, <3>2 DEF PhotoInv, Kept, Settled, Taking, Had, Exists, OnDisk
    <3> QED BY <1>2, <3>1, <3>3, <3>4, <3>5, <3>6, RestingStays DEF BackupInv, PhotoInv
  <2> QED BY <2>1, <2>2, <2>3, <2>4, <2>5 DEF BackupNext
<1> QED BY <1>1, <1>2 DEF BackupInv

LEMMA PhotoSays == ASSUME BackupInv PROVE Mirror /\ (CaseRespected => Kept)
<1>1. CASE NoPhoto
  BY <1>1 DEF NoPhoto, Idle, Mirror, Kept, Settled
<1>2. CASE PhotoInv
  BY <1>2 DEF PhotoInv
<1> QED BY <1>1, <1>2 DEF BackupInv

\* Where the file system tells cases apart, a backup that reports nothing
\* reflects the device, whatever changed or failed before.
THEOREM Mirrored == ASSUME CaseBlind = FALSE PROVE BackupSpec => []Mirror
<1>1. BackupInit => BackupInv
  BY PhotoBegins
<1>2. BackupInv /\ [BackupNext]_allVars => BackupInv'
  BY PhotoKeeps
<1>3. BackupInv => Mirror
  BY PhotoSays
<1> QED BY <1>1, <1>2, <1>3, PTL DEF BackupSpec

\* There, and if the slugs of the names respect their cases, a backup that could
\* not read something takes nothing of it from the tree.
THEOREM NothingTakenAway == ASSUME CaseBlind = FALSE, CaseRespected PROVE BackupSpec => []Kept
<1>1. BackupInit => BackupInv
  BY PhotoBegins
<1>2. BackupInv /\ [BackupNext]_allVars => BackupInv'
  BY PhotoKeeps
<1>3. BackupInv => Kept
  BY PhotoSays
<1> QED BY <1>1, <1>2, <1>3, PTL DEF BackupSpec
=============================================================================
