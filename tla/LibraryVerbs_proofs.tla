-------------------------- MODULE LibraryVerbs_proofs --------------------------
(***************************************************************************)
(* What the commands that write ~/.helixgen keep to, however many run at   *)
(* the same time, wherever they are killed and whatever write fails.       *)
(*                                                                         *)
(* The invariant names an assignment `of`, of IRs to the WAVs there are:   *)
(* it says whose copy a WAV is before it holds anything, and when it never *)
(* will.  Every hash on disk, in memory or in a step is bound as it says.  *)
(***************************************************************************)
EXTENDS LibraryVerbs, Collections_proofs

PlacingOps == {"migrate_tone", "place", "copied", "verify", "rename", "upsert", "heal", "heal_meta"}
BindingOps == {"import_wav", "sidecar", "stub", "register", "rebind"}

\* What the steps of each kind are about.
StepOK(f, of, s) ==
    /\ s.op \in Verbs => IsCommand(f, s.r) /\ s.r.verb = s.op
    /\ s.op \in PlacingOps => IsPlacing(s.r)
    /\ s.op \in {"write", "trim", "record", "tap"} => IsPreset(s.at)
    /\ s.op \in BindingOps => Names(f, of, s.w, s.h)
    /\ s.op = "import_wav" => s.w \in DOMAIN f /\ s.then \in {"register", "rebind"}
    /\ s.op = "copywav" => s.w[1] = "wav" /\ Names(f, of, s.w, s.c)
    /\ s.op = "ir" => Names(f, of, s.r.wav, s.r.hash)
    /\ s.op = "scan" => s.r.w \in DOMAIN f /\ s.r.w[1] = "ext"
    /\ s.op \in {"tmp", "fill", "publish"} => IsMeta(s.m)
    /\ s.op = "tmp" => s = [op |-> "tmp", r |-> s.r, m |-> s.m]

\* Some steps are done right after the step that makes them due, and nothing
\* else ever waits behind another step.
Leaders == {"fill", "recfill", "copied", "write"}
Followers == {"publish", "recpublish", "verify", "autoregister"}
Linked(a, b) ==
    /\ b.op \notin Leaders
    /\ b.op \in Followers => a.r = b.r
    /\ b.op = "publish" => a.op = "fill" /\ a.m = b.m
    /\ b.op = "recpublish" => a.op = "recfill" /\ a.row = b.row
    /\ b.op = "verify" => a.op = "copied"
    /\ b.op = "autoregister" => a.op = "write" /\ a.at = b.r.src[1]

TaskOK(f, of, t) ==
    /\ IsSeq(t)
    /\ \A i \in DOMAIN t : StepOK(f, of, t[i])
    /\ \A i \in 2..Len(t) : Linked(t[i - 1], t[i])

TodoOK(f, t) == IsSeq(t) /\ \A i \in DOMAIN t : IsCommand(f, t[i])
MemOK(f, of, m) ==
    m = [of |-> m.of, dirty |-> m.dirty, old |-> m.old] /\ Maps(f, of, m.of)

\* What is about to be published is whole.
TmpReady(f, p, t) ==
    t # <<>> /\ Head(t).op = "publish" =>
        LET m == Head(t).m
            tmp == TmpOf(p, m.id.words)
        IN  tmp \in DOMAIN f => f[tmp] = m

TypedInv ==
    /\ todo = [p \in Procs |-> todo[p]] /\ task = [p \in Procs |-> task[p]]
    /\ mem = [p \in Procs |-> mem[p]] /\ said = [p \in Procs |-> said[p]]
    /\ mishaps \in 0..Mishaps

HomeInv(of) ==
    /\ WavsAre(fs, of) /\ IsSetUp(fs, of) /\ HasMetadata(fs)
    /\ \A p \in Procs :
           /\ TodoOK(fs, todo[p]) /\ TaskOK(fs, of, task[p]) /\ MemOK(fs, of, mem[p])
           /\ TmpReady(fs, p, task[p])

Inv == TypedInv /\ \E of \in [Audio(fs) -> Hashes] : HomeInv(of)
-----------------------------------------------------------------------------
(* Sequences of steps.                                                     *)

LEMMA IsSeqOf ==
  ASSUME NEW S, NEW t \in Seq(S)
  PROVE  IsSeq(t)
BY OwnElements DEF IsSeq

LEMMA SeqFacts ==
  ASSUME NEW t, IsSeq(t)
  PROVE  /\ Len(t) \in Nat /\ DOMAIN t = 1..Len(t)
         /\ t # <<>> => 1 \in DOMAIN t /\ Head(t) = t[1]
         /\ \A i \in DOMAIN t : t[i] \in ToSet(t)
<1>1. t \in Seq(ToSet(t))
  BY DEF IsSeq
<1> QED BY <1>1, LenProperties, ElementOfSeq

LEMMA FunctionIsSeqOf ==
  ASSUME NEW n \in Nat, NEW f, DOMAIN f = 1..n, f = [i \in 1..n |-> f[i]]
  PROVE  IsSeq(f) /\ Len(f) = n
<1>1. f \in Seq({f[i] : i \in 1..n})
  BY FunctionIsSeq
<1>2. Len(f) \in Nat /\ DOMAIN f = 1..Len(f)
  BY <1>1, LenProperties
<1> QED BY <1>1, <1>2, IsSeqOf

\* A step replaced by those that it pushes.
Onto(more, t) == more \o Tail(t)
Fresh(t) == t # <<>> => Head(t).op \notin Followers
\* No step has been begun that another is to follow.
Settled(t) == t # <<>> => Head(t).op \notin Leaders \cup Followers

LEMMA OntoIndex ==
  ASSUME NEW t, IsSeq(t), t # <<>>, NEW more, IsSeq(more)
  PROVE  /\ IsSeq(Onto(more, t))
         /\ Len(Onto(more, t)) = Len(more) + Len(t) - 1
         /\ \A i \in 1..Len(more) : Onto(more, t)[i] = more[i]
         /\ \A i \in (Len(more) + 1)..(Len(more) + Len(t) - 1) : Onto(more, t)[i] = t[i - Len(more) + 1]
<1> DEFINE S == ToSet(t) \cup ToSet(more)
<1>1. t \in Seq(S) /\ more \in Seq(S)
  <2>1. t \in Seq(ToSet(t)) /\ more \in Seq(ToSet(more))
    BY DEF IsSeq
  <2> QED BY <2>1
<1> HIDE DEF S
<1>2. /\ Tail(t) \in Seq(S) /\ Len(t) \in Nat /\ Len(t) > 0 /\ Len(Tail(t)) = Len(t) - 1
      /\ \A i \in 1..(Len(t) - 1) : Tail(t)[i] = t[i + 1]
  BY <1>1
<1>3. PICK q : q = Tail(t)
  OBVIOUS
<1>4. /\ more \o q \in Seq(S) /\ Len(more \o q) = Len(more) + Len(q) /\ Len(more) \in Nat
      /\ \A i \in 1..Len(more) : (more \o q)[i] = more[i]
      /\ \A i \in 1..Len(q) : (more \o q)[Len(more) + i] = q[i]
  BY <1>1, <1>2, <1>3, ConcatIndex
<1>5. ASSUME NEW i \in (Len(more) + 1)..(Len(more) + Len(t) - 1)
      PROVE  (more \o q)[i] = t[i - Len(more) + 1]
  <2>1. i - Len(more) \in 1..Len(q) /\ i - Len(more) \in 1..(Len(t) - 1) /\ i = Len(more) + (i - Len(more))
    BY <1>2, <1>3, <1>4
  <2>2. (more \o q)[i] = q[i - Len(more)] /\ q[i - Len(more)] = t[(i - Len(more)) + 1]
    BY <1>2, <1>3, <1>4, <2>1
  <2> QED BY <2>2
<1> QED BY <1>2, <1>3, <1>4, <1>5, IsSeqOf DEF Onto

LEMMA OntoOK ==
  ASSUME NEW f, NEW of, NEW t, TaskOK(f, of, t), t # <<>>, NEW more, TaskOK(f, of, more),
         more = <<>> \/ Head(t).op \notin Leaders
  PROVE  /\ TaskOK(f, of, Onto(more, t))
         /\ Fresh(more) /\ ~Fresh(Onto(more, t)) => Linked(Head(t), Head(Onto(more, t)))
<1> DEFINE u == Onto(more, t)
           m == Len(more)
           n == Len(t)
<1>1. /\ IsSeq(t) /\ IsSeq(more)
      /\ \A i \in DOMAIN t : StepOK(f, of, t[i])
      /\ \A i \in DOMAIN more : StepOK(f, of, more[i])
      /\ \A i \in 2..n : Linked(t[i - 1], t[i])
      /\ \A i \in 2..m : Linked(more[i - 1], more[i])
  BY DEF TaskOK
<1>2. /\ m \in Nat /\ n \in Nat /\ n > 0 /\ DOMAIN t = 1..n /\ DOMAIN more = 1..m
      /\ Head(t) = t[1] /\ (more # <<>> => m > 0 /\ Head(more) = more[1])
  BY <1>1, SeqFacts
<1>3. /\ IsSeq(u) /\ Len(u) = m + n - 1
      /\ \A i \in 1..m : u[i] = more[i]
      /\ \A i \in (m + 1)..(m + n - 1) : u[i] = t[i - m + 1]
  <2>1. IsSeq(t) /\ IsSeq(more) /\ t # <<>>
    BY <1>1
  <2> QED BY ONLY <2>1, OntoIndex
<1>4. DOMAIN u = 1..(m + n - 1) /\ (u # <<>> => Head(u) = u[1] /\ 1 \in 1..(m + n - 1))
  BY <1>3, SeqFacts
<1> HIDE DEF u, m, n
<1>5. ASSUME NEW i \in DOMAIN u PROVE StepOK(f, of, u[i])
  <2>1. CASE i \in 1..m
    BY <1>1, <1>2, <1>3, <2>1
  <2>2. CASE i \notin 1..m
    <3>1. i \in (m + 1)..(m + n - 1) /\ i - m + 1 \in 1..n
      BY <1>2, <1>4, <2>2
    <3>2. u[i] = t[i - m + 1]
      BY <1>3, <3>1
    <3> QED BY <1>1, <1>2, <3>1, <3>2
  <2> QED BY <2>1, <2>2
<1>6. Head(t).op \notin Leaders => \A a : n > 1 => Linked(a, t[2]) /\ t[2].op \notin Followers
  <2> SUFFICES ASSUME Head(t).op \notin Leaders, n > 1, NEW a
               PROVE  Linked(a, t[2]) /\ t[2].op \notin Followers
    OBVIOUS
  <2>1. Linked(t[1], t[2])
    <3>1. 2 \in 2..n /\ 2 - 1 = 1
      BY <1>2
    <3> QED BY <1>1, <3>1
  <2>2. t[2].op \notin Followers /\ t[2].op \notin Leaders
    BY <1>2, <2>1 DEF Linked, Leaders, Followers
  <2> QED BY <2>2 DEF Linked, Followers
<1>7. ASSUME NEW i \in 2..Len(u) PROVE Linked(u[i - 1], u[i])
  <2>1. CASE i <= m
    <3>1. i \in 2..m /\ i \in 1..m /\ i - 1 \in 1..m
      BY <1>2, <1>3, <2>1
    <3> QED BY <1>1, <1>3, <3>1
  <2>2. CASE i = m + 1
    <3>1. m # 0 /\ more # <<>> /\ n > 1 /\ i \in (m + 1)..(m + n - 1) /\ i - m + 1 = 2
      BY <1>2, <1>3, <2>2 DEF m
    <3>2. u[i] = t[2]
      BY <1>3, <3>1
    <3> QED BY <1>6, <3>1, <3>2
  <2>3. CASE i > m + 1
    <3>1. /\ i \in (m + 1)..(m + n - 1) /\ i - 1 \in (m + 1)..(m + n - 1)
          /\ i - m + 1 \in 2..n /\ (i - m + 1) - 1 = (i - 1) - m + 1
      BY <1>2, <1>3, <2>3
    <3>2. u[i] = t[i - m + 1] /\ u[i - 1] = t[(i - 1) - m + 1]
      BY <1>3, <3>1
    <3> QED BY <1>1, <3>1, <3>2
  <2> QED BY <1>2, <1>3, <2>1, <2>2, <2>3
<1>8. TaskOK(f, of, u)
  BY <1>3, <1>5, <1>7 DEF TaskOK
<1>9. ASSUME Fresh(more), ~Fresh(u) PROVE Linked(Head(t), Head(u))
  <2>1. CASE m > 0
    <3>1. u # <<>> => Head(u) = more[1] /\ more # <<>>
      BY <1>2, <1>3, <1>4, <2>1 DEF m
    <3> QED BY <1>2, <1>9, <2>1, <3>1 DEF Fresh
  <2>2. CASE m = 0
    <3>1. u # <<>> /\ Head(u) = t[2] /\ n > 1 /\ 2 \in 2..n /\ 2 - 1 = 1
      BY <1>2, <1>3, <1>4, <1>9, <2>2 DEF Fresh
    <3>2. Linked(t[2 - 1], t[2])
      BY <1>1, <3>1
    <3> QED BY <1>2, <3>1, <3>2
  <2> QED BY <1>2, <2>1, <2>2
<1> QED BY <1>8, <1>9 DEF u

LEMMA AfterOK ==
  ASSUME NEW f, NEW of, NEW t, TaskOK(f, of, t), t # <<>>
  PROVE  TaskOK(f, of, AfterItem(t)) /\ Fresh(AfterItem(t)) /\ Settled(AfterItem(t))
<1> DEFINE others == {i \in DOMAIN t : t[i].r # Head(t).r}
           n == Len(t)
<1>1. /\ IsSeq(t) /\ t \in Seq(ToSet(t)) /\ n \in Nat /\ n > 0 /\ DOMAIN t = 1..n /\ Head(t) = t[1]
      /\ \A i \in DOMAIN t : StepOK(f, of, t[i])
      /\ \A i \in 2..n : Linked(t[i - 1], t[i])
  BY SeqFacts DEF TaskOK, IsSeq
<1>2. CASE others = {}
  <2>1. AfterItem(t) = <<>>
    BY <1>2 DEF AfterItem
  <2>2. <<>> \in Seq({}) /\ Len(<<>>) = 0 /\ DOMAIN <<>> = {}
    OBVIOUS
  <2>3. IsSeq(<<>>)
    BY ONLY <2>2, IsSeqOf
  <2> QED BY <2>1, <2>2, <2>3 DEF TaskOK, Fresh, Settled
<1>3. CASE others # {}
  <2> DEFINE m == Min(others)
  <2>1. m \in others /\ \A j \in others : m <= j
    <3>1. others \in SUBSET Nat
      BY <1>1
    <3> HIDE DEF others
    <3>2. \E x \in others : \A y \in others : x <= y
      BY <1>3, <3>1, Minimum
    <3> QED BY <3>2 DEF Min
  <2>2. AfterItem(t) = SubSeq(t, m, n)
    BY <1>3 DEF AfterItem
  <2> HIDE DEF m
  <2>3. m \in 1..n /\ t[m].r # t[1].r
    BY <1>1, <2>1
  <2> DEFINE u == SubSeq(t, m, n)
  <2>4. /\ u \in Seq(ToSet(t)) /\ Len(u) = n - m + 1
        /\ \A i \in 1..(n - m + 1) : u[i] = t[m + i - 1]
    <3>1. \A i \in m..n : t[i] \in ToSet(t)
      BY <1>1, <2>3, SeqFacts
    <3> QED BY <1>1, <2>3, <3>1, SubSeqProperties
  <2> HIDE DEF u
  <2>5. IsSeq(u) /\ DOMAIN u = 1..(n - m + 1) /\ u # <<>> /\ Head(u) = t[m]
    <3>1. IsSeq(u) /\ DOMAIN u = 1..(n - m + 1) /\ u # <<>> /\ Head(u) = u[1] /\ m + 1 - 1 = m /\ 1 \in 1..(n - m + 1)
      BY <1>1, <2>3, <2>4, SeqFacts, IsSeqOf
    <3> QED BY <2>4, <3>1
  <2>6. ASSUME NEW i \in DOMAIN u PROVE StepOK(f, of, u[i])
    <3>1. m + i - 1 \in 1..n /\ u[i] = t[m + i - 1]
      BY <1>1, <2>3, <2>4, <2>5
    <3> QED BY <1>1, <3>1
  <2>7. ASSUME NEW i \in 2..Len(u) PROVE Linked(u[i - 1], u[i])
    <3>1. /\ i \in 1..(n - m + 1) /\ i - 1 \in 1..(n - m + 1) /\ m + i - 1 \in 2..n
          /\ (m + i - 1) - 1 = m + (i - 1) - 1
      BY <1>1, <2>3, <2>4
    <3>2. u[i] = t[m + i - 1] /\ u[i - 1] = t[m + (i - 1) - 1]
      BY <2>4, <3>1
    <3> QED BY <1>1, <3>1, <3>2
  <2>8. TaskOK(f, of, u)
    BY <2>5, <2>6, <2>7 DEF TaskOK
  <2>9. t[m].op \notin Followers /\ t[m].op \notin Leaders
    <3>1. m \in 2..n /\ m - 1 \in 1..n /\ ~(m <= m - 1)
      BY <1>1, <2>3
    <3>2. m - 1 \notin others
      BY <2>1, <3>1
    <3>3. t[m - 1].r = t[1].r
      BY <1>1, <3>1, <3>2
    <3>4. Linked(t[m - 1], t[m])
      BY <1>1, <3>1
    <3> QED BY <2>3, <3>3, <3>4 DEF Linked
  <2> QED BY <2>2, <2>5, <2>8, <2>9 DEF Fresh, Settled, u
<1> QED BY <1>2, <1>3

\* Steps that neither need the one before them nor are needed after it.
PlainSteps(f, of, t) ==
    IsSeq(t) /\ \A i \in DOMAIN t : StepOK(f, of, t[i]) /\ t[i].op \notin Leaders \cup Followers

LEMMA PlainTask ==
  ASSUME NEW f, NEW of, NEW t, PlainSteps(f, of, t)
  PROVE  TaskOK(f, of, t) /\ Fresh(t)
<1>1. IsSeq(t) /\ \A i \in DOMAIN t : StepOK(f, of, t[i]) /\ t[i].op \notin Leaders \cup Followers
  BY DEF PlainSteps
<1>2. Len(t) \in Nat /\ DOMAIN t = 1..Len(t) /\ (t # <<>> => 1 \in DOMAIN t /\ Head(t) = t[1])
  BY <1>1, SeqFacts
<1>3. \A i \in 2..Len(t) : Linked(t[i - 1], t[i])
  BY <1>1, <1>2 DEF Linked, Followers
<1> QED BY <1>1, <1>2, <1>3 DEF TaskOK, Fresh

LEMMA PlainOnto ==
  ASSUME NEW f, NEW of, NEW t, TaskOK(f, of, t), t # <<>>, Head(t).op \notin Leaders,
         NEW more, PlainSteps(f, of, more)
  PROVE  Settled(Onto(more, t))
<1> DEFINE u == Onto(more, t)
           m == Len(more)
           n == Len(t)
<1>1. /\ IsSeq(t) /\ IsSeq(more) /\ \A i \in 2..n : Linked(t[i - 1], t[i])
      /\ \A i \in DOMAIN more : more[i].op \notin Leaders \cup Followers
  BY DEF TaskOK, PlainSteps
<1>2. m \in Nat /\ n \in Nat /\ DOMAIN more = 1..m /\ Head(t) = t[1]
  BY <1>1, SeqFacts
<1>3. /\ IsSeq(u) /\ Len(u) = m + n - 1
      /\ \A i \in 1..m : u[i] = more[i]
      /\ \A i \in (m + 1)..(m + n - 1) : u[i] = t[i - m + 1]
  <2>1. IsSeq(t) /\ IsSeq(more) /\ t # <<>>
    BY <1>1
  <2> QED BY ONLY <2>1, OntoIndex
<1>4. u # <<>> => Head(u) = u[1] /\ 1 \in 1..(m + n - 1)
  BY <1>3, SeqFacts
<1> HIDE DEF u, m, n
<1>5. ASSUME u # <<>> PROVE Head(u).op \notin Leaders \cup Followers
  <2>1. CASE m > 0
    <3>1. 1 \in DOMAIN more /\ Head(u) = more[1]
      BY <1>2, <1>3, <1>4, <1>5, <2>1
    <3> QED BY <1>1, <3>1
  <2>2. CASE m = 0
    <3>1. Head(u) = t[2] /\ 2 \in 2..n /\ 2 - 1 = 1
      BY <1>2, <1>3, <1>4, <1>5, <2>2
    <3>2. Linked(t[2 - 1], t[2])
      BY <1>1, <3>1
    <3>3. Linked(Head(t), Head(u))
      BY <1>2, <3>1, <3>2
    <3> QED BY <3>3 DEF Linked, Leaders, Followers
  <2> QED BY <1>2, <2>1, <2>2
<1>6. Settled(u)
  BY <1>5 DEF Settled
<1> QED BY <1>6 DEF u

LEMMA PlainConcat ==
  ASSUME NEW f, NEW of, NEW t, PlainSteps(f, of, t), NEW u, PlainSteps(f, of, u)
  PROVE  PlainSteps(f, of, t \o u)
<1> DEFINE S == ToSet(t) \cup ToSet(u)
<1>1. t \in Seq(S) /\ u \in Seq(S)
  <2>1. t \in Seq(ToSet(t)) /\ u \in Seq(ToSet(u))
    BY DEF PlainSteps, IsSeq
  <2> QED BY <2>1
<1> HIDE DEF S
<1>2. /\ t \o u \in Seq(S) /\ DOMAIN t = 1..Len(t) /\ DOMAIN u = 1..Len(u)
      /\ DOMAIN (t \o u) = 1..(Len(t) + Len(u))
      /\ \A i \in 1..Len(t) : (t \o u)[i] = t[i]
      /\ \A i \in 1..Len(u) : (t \o u)[Len(t) + i] = u[i]
      /\ \A i \in 1..(Len(t) + Len(u)) : i \in 1..Len(t) \/ \E j \in 1..Len(u) : i = Len(t) + j
  BY <1>1, ConcatIndex
<1>3. IsSeq(t \o u)
  BY <1>2, IsSeqOf
<1>4. ASSUME NEW i \in DOMAIN (t \o u)
      PROVE  StepOK(f, of, (t \o u)[i]) /\ (t \o u)[i].op \notin Leaders \cup Followers
  <2>1. CASE i \in 1..Len(t)
    BY <1>2, <2>1 DEF PlainSteps
  <2>2. CASE i \notin 1..Len(t)
    <3>1. PICK j \in 1..Len(u) : i = Len(t) + j
      BY <1>2, <2>2
    <3> QED BY <1>2, <3>1 DEF PlainSteps
  <2> QED BY <2>1, <2>2
<1> QED BY <1>3, <1>4 DEF PlainSteps

LEMMA PlainMap ==
  ASSUME NEW f, NEW of, NEW n \in Nat, NEW t, DOMAIN t = 1..n, t = [i \in 1..n |-> t[i]],
         \A i \in 1..n : StepOK(f, of, t[i]) /\ t[i].op \notin Leaders \cup Followers
  PROVE  PlainSteps(f, of, t)
BY FunctionIsSeqOf DEF PlainSteps

LEMMA PlainTuples ==
  ASSUME NEW f, NEW of
  PROVE  /\ PlainSteps(f, of, <<>>)
         /\ \A a : StepOK(f, of, a) /\ a.op \notin Leaders \cup Followers => PlainSteps(f, of, <<a>>)
<1>1. <<>> \in Seq({}) /\ DOMAIN <<>> = {}
  OBVIOUS
<1>2. IsSeq(<<>>)
  BY ONLY <1>1, IsSeqOf
<1>3. ASSUME NEW a, StepOK(f, of, a), a.op \notin Leaders \cup Followers PROVE PlainSteps(f, of, <<a>>)
  <2>1. <<a>> \in Seq({a}) /\ DOMAIN <<a>> = {1} /\ <<a>>[1] = a
    OBVIOUS
  <2>2. IsSeq(<<a>>)
    BY ONLY <2>1, IsSeqOf
  <2> QED BY <1>3, <2>1, <2>2 DEF PlainSteps
<1> QED BY <1>1, <1>2, <1>3 DEF PlainSteps

\* The operations that need nothing of their item.
BareOps == {"tell", "irsave", "savedirty", "retire", "strip", "irload", "seed"}
LEMMA PlainBare ==
  ASSUME NEW f, NEW of, NEW op \in BareOps, NEW r
  PROVE  /\ StepOK(f, of, [op |-> op, r |-> r]) /\ op \notin Leaders \cup Followers
         /\ PlainSteps(f, of, Steps(<<op>>, r))
<1>1. StepOK(f, of, [op |-> op, r |-> r]) /\ op \notin Leaders \cup Followers
  BY DEF StepOK, BareOps, Verbs, PlacingOps, BindingOps, Leaders, Followers
<1>2. Steps(<<op>>, r) = <<[op |-> op, r |-> r]>>
  BY DEF Steps
<1> QED BY <1>1, <1>2, PlainTuples
-----------------------------------------------------------------------------
(* What a change of the files leaves as it was.                            *)

AudioKinds == {"ext", "wav"}

\* The user's WAVs are the same, and those of the library are still there.
AudioStays(f, of, g, og) ==
    \A x : x[1] \in AudioKinds =>
        /\ x \in DOMAIN f => x \in DOMAIN g /\ og[x] = of[x]
        /\ x[1] = "ext" /\ x \in DOMAIN g => x \in DOMAIN f

LEMMA NamesStay ==
  ASSUME NEW f, NEW of, NEW g, NEW og, AudioStays(f, of, g, og)
  PROVE  /\ \A w, h : Names(f, of, w, h) => Names(g, og, w, h)
         /\ \A m : Maps(f, of, m) => Maps(g, og, m)
         /\ \A m : MemOK(f, of, m) => MemOK(g, og, m)
         /\ \A plan : IsPlan(f, of, plan) => IsPlan(g, og, plan)
<1>1. \A w, h : Names(f, of, w, h) => Names(g, og, w, h)
  BY DEF AudioStays, AudioKinds, Names
<1>2. \A m : Maps(f, of, m) => Maps(g, og, m)
  BY <1>1 DEF Maps
<1> QED BY <1>1, <1>2 DEF MemOK, IsPlan

LEMMA StepsStay ==
  ASSUME NEW f, NEW of, NEW g, NEW og, AudioStays(f, of, g, og)
  PROVE  /\ \A c : IsCommand(f, c) => IsCommand(g, c)
         /\ \A t : TodoOK(f, t) => TodoOK(g, t)
         /\ \A s : StepOK(f, of, s) => StepOK(g, og, s)
         /\ \A t : TaskOK(f, of, t) => TaskOK(g, og, t)
<1>1. ASSUME NEW c, IsCommand(f, c) PROVE IsCommand(g, c)
  <2>1. \A x : x \in DOMAIN f /\ x[1] = "ext" => x \in DOMAIN g
    BY DEF AudioStays, AudioKinds
  <2> QED BY <1>1, <2>1 DEF IsCommand
<1>2. ASSUME NEW s, StepOK(f, of, s) PROVE StepOK(g, og, s)
  <2>1. \A x : x \in DOMAIN f /\ x[1] \in AudioKinds => x \in DOMAIN g
    BY DEF AudioStays
  <2>2. \A w, h : Names(f, of, w, h) => Names(g, og, w, h)
    BY NamesStay
  <2>3. s.op = "import_wav" => s.w \in DOMAIN g
    <3>1. s.op = "import_wav" => s.w \in DOMAIN f /\ s.w[1] \in AudioKinds
      BY <1>2 DEF StepOK, BindingOps, Names, AudioKinds
    <3> QED BY <2>1, <3>1
  <2>4. s.op = "scan" => s.r.w \in DOMAIN g
    BY <1>2, <2>1 DEF StepOK, AudioKinds
  <2> QED BY <1>1, <1>2, <2>2, <2>3, <2>4 DEF StepOK
<1>3. \A t : TodoOK(f, t) => TodoOK(g, t)
  BY <1>1 DEF TodoOK
<1>4. \A t : TaskOK(f, of, t) => TaskOK(g, og, t)
  BY <1>2 DEF TaskOK
<1> QED BY <1>1, <1>2, <1>3, <1>4

\* The files g are those of f but for the paths in X.
Changes(f, g, X) ==
    /\ IsFiniteSet(DOMAIN g) /\ \A x \in DOMAIN g : x[1] \in FileKinds
    /\ \A x : x \notin X => (x \in DOMAIN g <=> x \in DOMAIN f) /\ (x \in DOMAIN f => g[x] = f[x])

\* Files of which the invariant says nothing, and the command's own.
QuietKinds == {"src", "tone", "md", "guitar", "side", "device", "rectmp"}
Quiet(p, X) == \A x \in X : x[1] \in QuietKinds \/ \E l : x = TmpOf(p, l)
Mostly(p, X) == \A x \in X : x[1] \in QuietKinds \cup {"meta"} \/ \E l : x = TmpOf(p, l)

LEMMA MostlyHome ==
  ASSUME NEW f, NEW g, NEW of \in [Audio(f) -> Hashes], NEW p, NEW X, Changes(f, g, X), Mostly(p, X),
         WavsAre(f, of), IsSetUp(f, of)
  PROVE  /\ WavsAre(g, of) /\ IsSetUp(g, of)
         /\ Audio(g) = Audio(f) /\ AudioStays(f, of, g, of)
         /\ \A q, t : q # p /\ TmpReady(f, q, t) => TmpReady(g, q, t)
<1>1. \A x : x \in X => x[1] \in QuietKinds \cup {"meta", "tmp"}
  BY DEF Mostly, TmpOf
<1>2. \A x : x[1] \notin QuietKinds \cup {"meta", "tmp"} =>
          (x \in DOMAIN g <=> x \in DOMAIN f) /\ (x \in DOMAIN f => g[x] = f[x])
  BY <1>1 DEF Changes
<1>3. Audio(g) = Audio(f) /\ \A x \in Audio(f) : g[x] = f[x]
  BY <1>2 DEF Audio, QuietKinds
<1>4. WavsAre(g, of)
  BY <1>3 DEF WavsAre
<1>5. AudioStays(f, of, g, of)
  BY <1>2 DEF AudioStays, AudioKinds, QuietKinds
<1>6. \A x \in {Prefs, Manifest, PlanFile, Mapping, LegacyMapping} :
          (x \in DOMAIN g <=> x \in DOMAIN f) /\ (x \in DOMAIN f => g[x] = f[x])
  BY <1>2 DEF Prefs, Manifest, PlanFile, Mapping, LegacyMapping, QuietKinds
<1>7. IsSetUp(g, of)
  <2>1. PlanFile \in DOMAIN g => IsPlan(g, of, g[PlanFile])
    BY <1>5, <1>6, NamesStay DEF IsSetUp
  <2>2. \A x \in {Mapping, LegacyMapping} \cap DOMAIN g : Maps(g, of, g[x])
    BY <1>5, <1>6, NamesStay DEF IsSetUp
  <2>3. Prefs \in DOMAIN g /\ g[Prefs] = f[Prefs]
    BY <1>6 DEF IsSetUp
  <2>4. Manifest \in DOMAIN g => Manifest \in DOMAIN f /\ g[Manifest] = f[Manifest]
    BY <1>6
  <2>5. IsFiniteSet(DOMAIN g) /\ \A x \in DOMAIN g : x[1] \in FileKinds
    BY DEF Changes
  <2> QED BY <2>1, <2>2, <2>3, <2>4, <2>5 DEF IsSetUp
<1>8. ASSUME NEW q, NEW t, q # p, TmpReady(f, q, t) PROVE TmpReady(g, q, t)
  <2>1. \A l : TmpOf(q, l) \notin X
    BY <1>8 DEF Mostly, TmpOf, QuietKinds
  <2>2. \A l : TmpOf(q, l) \in DOMAIN g => TmpOf(q, l) \in DOMAIN f /\ g[TmpOf(q, l)] = f[TmpOf(q, l)]
    BY <2>1 DEF Changes
  <2> QED BY <1>8, <2>2 DEF TmpReady
<1> QED BY <1>3, <1>4, <1>5, <1>7, <1>8

LEMMA QuietHome ==
  ASSUME NEW f, NEW g, NEW of \in [Audio(f) -> Hashes], NEW p, NEW X, Changes(f, g, X), Quiet(p, X),
         WavsAre(f, of), IsSetUp(f, of), HasMetadata(f)
  PROVE  /\ WavsAre(g, of) /\ IsSetUp(g, of) /\ HasMetadata(g)
         /\ Audio(g) = Audio(f) /\ AudioStays(f, of, g, of)
         /\ \A q, t : q # p /\ TmpReady(f, q, t) => TmpReady(g, q, t)
<1>1. Mostly(p, X)
  BY DEF Quiet, Mostly
<1>2. \A x : x[1] = "meta" => x \notin X
  BY DEF Quiet, QuietKinds, TmpOf
<1>3. HasMetadata(g)
  BY <1>2 DEF HasMetadata, Changes
<1> QED BY <1>1, <1>3, MostlyHome

-----------------------------------------------------------------------------
(* Steps of one command.                                                   *)

Holds(of) == TypedInv /\ of \in [Audio(fs) -> Hashes] /\ HomeInv(of)

\* The command p has a step less to do, and those that it pushed.
TaskStep(p, of) ==
    /\ task' = [task EXCEPT ![p] = task'[p]]
    /\ TaskOK(fs, of, task'[p])
    /\ ~Fresh(task'[p]) => task[p] # <<>> /\ Linked(Step(p), Head(task'[p]))

LEMMA HoldsInv == ASSUME NEW of, Holds(of) PROVE Inv
BY DEF Holds, Inv

\* The general case: `of` may become another, og.
LEMMA BigStep ==
  ASSUME NEW of, Holds(of), NEW p \in Procs,
         NEW og, og \in [Audio(fs') -> Hashes], AudioStays(fs, of, fs', og),
         WavsAre(fs', og), IsSetUp(fs', og), HasMetadata(fs'),
         \A q, t : q # p /\ TmpReady(fs, q, t) => TmpReady(fs', q, t),
         task' = [task EXCEPT ![p] = task'[p]], TaskOK(fs', og, task'[p]), TmpReady(fs', p, task'[p]),
         todo' = [todo EXCEPT ![p] = todo'[p]], TodoOK(fs', todo'[p]),
         mem' = [mem EXCEPT ![p] = mem'[p]], MemOK(fs', og, mem'[p]),
         said' = [q \in Procs |-> said'[q]], mishaps' \in 0..Mishaps
  PROVE  Holds(og)'
<1>1. PICK g : g = fs'
  OBVIOUS
<1>2. TypedInv
  BY DEF Holds
<1>3. /\ \A t : TodoOK(fs, t) => TodoOK(g, t)
      /\ \A t : TaskOK(fs, of, t) => TaskOK(g, og, t)
      /\ \A m : MemOK(fs, of, m) => MemOK(g, og, m)
  <2>1. AudioStays(fs, of, g, og)
    BY <1>1
  <2> QED BY ONLY <2>1, StepsStay, NamesStay
<1>4. /\ task' = [q \in Procs |-> task'[q]] /\ \A q \in Procs : q # p => task'[q] = task[q]
      /\ todo' = [q \in Procs |-> todo'[q]] /\ \A q \in Procs : q # p => todo'[q] = todo[q]
      /\ mem' = [q \in Procs |-> mem'[q]] /\ \A q \in Procs : q # p => mem'[q] = mem[q]
  <2>1. task = [q \in Procs |-> task[q]] /\ todo = [q \in Procs |-> todo[q]] /\ mem = [q \in Procs |-> mem[q]]
    BY <1>2 DEF TypedInv
  <2>2. task' = [q \in Procs |-> task'[q]] /\ \A q \in Procs : q # p => task'[q] = task[q]
    BY <2>1
  <2>3. todo' = [q \in Procs |-> todo'[q]] /\ \A q \in Procs : q # p => todo'[q] = todo[q]
    BY <2>1
  <2>4. mem' = [q \in Procs |-> mem'[q]] /\ \A q \in Procs : q # p => mem'[q] = mem[q]
    BY <2>1
  <2> QED BY <2>2, <2>3, <2>4
<1>5. TypedInv'
  BY <1>4 DEF TypedInv
<1>6. ASSUME NEW q \in Procs
      PROVE  TodoOK(g, todo'[q]) /\ TaskOK(g, og, task'[q]) /\ MemOK(g, og, mem'[q]) /\ TmpReady(g, q, task'[q])
  <2>1. CASE q = p
    BY <1>1, <2>1
  <2>2. CASE q # p
    <3>1. TodoOK(fs, todo[q]) /\ TaskOK(fs, of, task[q]) /\ MemOK(fs, of, mem[q]) /\ TmpReady(fs, q, task[q])
      BY DEF Holds, HomeInv
    <3>2. TmpReady(fs', q, task[q])
      BY <2>2, <3>1
    <3> QED BY <1>1, <1>3, <1>4, <2>2, <3>1, <3>2
  <2> QED BY <2>1, <2>2
<1>7. HomeInv(og)'
  BY <1>1, <1>6 DEF HomeInv
<1> QED BY <1>5, <1>7 DEF Holds

\* What a command has still to run, and what it has in memory.
RestStep(p, of) ==
    /\ todo' = [todo EXCEPT ![p] = todo'[p]] /\ TodoOK(fs, todo'[p])
    /\ mem' = [mem EXCEPT ![p] = mem'[p]] /\ MemOK(fs, of, mem'[p])

LEMMA RestSame ==
  ASSUME NEW of, Holds(of), NEW p \in Procs, UNCHANGED <<todo, mem>>
  PROVE  RestStep(p, of)
<1>1. todo = [q \in Procs |-> todo[q]] /\ mem = [q \in Procs |-> mem[q]]
      /\ TodoOK(fs, todo[p]) /\ MemOK(fs, of, mem[p])
  BY DEF Holds, TypedInv, HomeInv
<1> QED BY <1>1 DEF RestStep

LEMMA QuietStep ==
  ASSUME NEW of, Holds(of), NEW p \in Procs,
         NEW X, Changes(fs, fs', X), Quiet(p, X), TaskStep(p, of), Fresh(task'[p]) \/ ~At(p, "fill"), RestStep(p, of),
         said' = [q \in Procs |-> said'[q]], mishaps' \in 0..Mishaps
  PROVE  Holds(of)'
<1>1. PICK g : g = fs'
  OBVIOUS
<1>2. of \in [Audio(fs) -> Hashes] /\ WavsAre(fs, of) /\ IsSetUp(fs, of) /\ HasMetadata(fs)
  BY DEF Holds, HomeInv
<1>3. /\ WavsAre(g, of) /\ IsSetUp(g, of) /\ HasMetadata(g)
      /\ Audio(g) = Audio(fs) /\ AudioStays(fs, of, g, of)
      /\ \A q, t : q # p /\ TmpReady(fs, q, t) => TmpReady(g, q, t)
  BY <1>1, <1>2, QuietHome
<1>4. TaskOK(fs, of, task'[p]) /\ TodoOK(fs, todo'[p]) /\ MemOK(fs, of, mem'[p])
  BY DEF TaskStep, RestStep
<1>5. TaskOK(g, of, task'[p]) /\ TodoOK(g, todo'[p]) /\ MemOK(g, of, mem'[p])
  BY <1>3, <1>4, StepsStay, NamesStay
<1>6. TmpReady(g, p, task'[p])
  BY DEF TaskStep, Fresh, Followers, Linked, At, Step, TmpReady
<1>7. task' = [task EXCEPT ![p] = task'[p]] /\ todo' = [todo EXCEPT ![p] = todo'[p]] /\ mem' = [mem EXCEPT ![p] = mem'[p]]
  BY DEF TaskStep, RestStep
<1> QED BY <1>1, <1>2, <1>3, <1>5, <1>6, <1>7, BigStep

LEMMA Acting ==
  ASSUME NEW of, Holds(of), NEW p \in Procs, task[p] # <<>>
  PROVE  /\ TaskOK(fs, of, task[p]) /\ StepOK(fs, of, Step(p))
         /\ WavsAre(fs, of) /\ IsSetUp(fs, of) /\ HasMetadata(fs) /\ MemOK(fs, of, mem[p])
         /\ TmpReady(fs, p, task[p])
<1>1. TaskOK(fs, of, task[p]) /\ WavsAre(fs, of) /\ IsSetUp(fs, of) /\ HasMetadata(fs) /\ MemOK(fs, of, mem[p])
      /\ TmpReady(fs, p, task[p])
  BY DEF Holds, HomeInv
<1>2. 1 \in DOMAIN task[p] /\ Step(p) = task[p][1]
  <2>1. IsSeq(task[p])
    BY <1>1 DEF TaskOK
  <2> QED BY <2>1, SeqFacts DEF Step
<1>3. StepOK(fs, of, Step(p))
  BY <1>1, <1>2 DEF TaskOK
<1> QED BY <1>1, <1>3

LEMMA GoStep ==
  ASSUME NEW of, Holds(of), NEW p \in Procs, task[p] # <<>>,
         NEW more, TaskOK(fs, of, more), Fresh(more), more = <<>> \/ Step(p).op \notin Leaders,
         Go(p, more)
  PROVE  TaskStep(p, of)
<1>1. task = [q \in Procs |-> task[q]] /\ TaskOK(fs, of, task[p])
  BY DEF Holds, TypedInv, HomeInv
<1>2. task' = [task EXCEPT ![p] = Onto(more, @)]
  BY DEF Go, Onto
<1>3. task'[p] = Onto(more, task[p])
  BY <1>1, <1>2
<1>4. /\ TaskOK(fs, of, Onto(more, task[p]))
      /\ ~Fresh(Onto(more, task[p])) => Linked(Head(task[p]), Head(Onto(more, task[p])))
  BY <1>1, OntoOK DEF Step
<1> QED BY <1>2, <1>3, <1>4 DEF TaskStep, Step

LEMMA FailStep ==
  ASSUME NEW of, Holds(of), NEW p \in Procs, task[p] # <<>>, Fail(p)
  PROVE  TaskStep(p, of) /\ Fresh(task'[p]) /\ Settled(task'[p])
<1>1. task = [q \in Procs |-> task[q]] /\ TaskOK(fs, of, task[p])
  BY DEF Holds, TypedInv, HomeInv
<1>2. task' = [task EXCEPT ![p] = AfterItem(@)]
  BY DEF Fail
<1>3. task'[p] = AfterItem(task[p])
  BY <1>1, <1>2
<1>4. TaskOK(fs, of, AfterItem(task[p])) /\ Fresh(AfterItem(task[p])) /\ Settled(AfterItem(task[p]))
  BY <1>1, AfterOK
<1> QED BY <1>2, <1>3, <1>4 DEF TaskStep

Settles(p) == task' = [task EXCEPT ![p] = task'[p]] /\ Settled(task'[p])
LEMMA GoSettled ==
  ASSUME NEW of, Holds(of), NEW p \in Procs, task[p] # <<>>, Step(p).op \notin Leaders,
         NEW more, PlainSteps(fs, of, more), Go(p, more)
  PROVE  Settled(task'[p])
<1>1. task = [q \in Procs |-> task[q]] /\ TaskOK(fs, of, task[p])
  BY DEF Holds, TypedInv, HomeInv
<1>2. task' = [task EXCEPT ![p] = Onto(more, @)]
  BY DEF Go, Onto
<1>3. task'[p] = Onto(more, task[p])
  BY <1>1, <1>2
<1>4. Settled(Onto(more, task[p]))
  BY <1>1, PlainOnto DEF Step
<1> QED BY <1>3, <1>4

SaidStep(p) == UNCHANGED said \/ \E how, r : Report(p, how, r)
LEMMA SaidTyped ==
  ASSUME TypedInv, NEW p \in Procs, Fail(p) \/ SaidStep(p)
  PROVE  said' = [q \in Procs |-> said'[q]]
<1>1. said = [q \in Procs |-> said[q]]
  BY DEF TypedInv
<1>2. UNCHANGED said \/ \E how, r : Report(p, how, r)
  BY DEF Fail, SaidStep
<1>3. CASE \E how, r : Report(p, how, r)
  <2>1. PICK how, r : Report(p, how, r)
    BY <1>3
  <2> QED BY <1>1, <2>1 DEF Report
<1> QED BY <1>1, <1>2, <1>3

LEMMA PutChanges ==
  ASSUME NEW of, Holds(of), NEW x, NEW c, Put(x, c), x[1] \in FileKinds
  PROVE  Changes(fs, fs', {x}) /\ x \in DOMAIN fs' /\ fs'[x] = c /\ DOMAIN fs' = DOMAIN fs \cup {x}
<1>1. IsFiniteSet(DOMAIN fs) /\ \A y \in DOMAIN fs : y[1] \in FileKinds
  BY DEF Holds, HomeInv, IsSetUp
<1>2. IsFiniteSet(DOMAIN fs \cup {x})
  BY <1>1, FS_AddElement
<1>3. /\ DOMAIN fs' = DOMAIN fs \cup {x} /\ fs'[x] = c
      /\ \A y \in DOMAIN fs : y # x => fs'[y] = fs[y]
  BY DEF Put, Updated
<1> QED BY <1>1, <1>2, <1>3 DEF Changes

LEMMA DropChanges ==
  ASSUME NEW of, Holds(of), NEW gone, fs' = Without(gone)
  PROVE  Changes(fs, fs', gone) /\ DOMAIN fs' = DOMAIN fs \ gone /\ \A x \in DOMAIN fs' : fs'[x] = fs[x]
<1>1. IsFiniteSet(DOMAIN fs) /\ \A y \in DOMAIN fs : y[1] \in FileKinds
  BY DEF Holds, HomeInv, IsSetUp
<1>2. IsFiniteSet(DOMAIN fs \ gone)
  BY <1>1, FS_Difference
<1>3. DOMAIN fs' = DOMAIN fs \ gone /\ \A y \in DOMAIN fs \ gone : fs'[y] = fs[y]
  BY DEF Without
<1> QED BY <1>1, <1>2, <1>3 DEF Changes

LEMMA SameChanges ==
  ASSUME NEW of, Holds(of), UNCHANGED fs, NEW X
  PROVE  Changes(fs, fs', X)
BY DEF Holds, HomeInv, IsSetUp, Changes

LEMMA PlainDone ==
  ASSUME NEW of, Holds(of), NEW p \in Procs, NEW op, At(p, op), op \notin Leaders,
         NEW more, PlainSteps(fs, of, more),
         Fail(p) \/ (Go(p, more) /\ SaidStep(p)),
         NEW X, Changes(fs, fs', X), Quiet(p, X), RestStep(p, of), mishaps' \in 0..Mishaps
  PROVE  Holds(of)' /\ Settles(p)
<1>1. task[p] # <<>> /\ Step(p).op \notin Leaders /\ ~At(p, "fill")
  BY DEF At, Step, Leaders
<1>2. TaskOK(fs, of, more) /\ Fresh(more)
  BY PlainTask
<1>3. TaskStep(p, of)
  BY <1>1, <1>2, GoStep, FailStep
<1>4. said' = [q \in Procs |-> said'[q]]
  BY SaidTyped DEF Holds
<1>5. Settles(p)
  BY <1>1, <1>3, GoSettled, FailStep DEF Settles, TaskStep
<1> QED BY <1>1, <1>3, <1>4, <1>5, QuietStep

LEMMA StillDone ==
  ASSUME NEW of, Holds(of), NEW p \in Procs, NEW op, At(p, op), op \notin Leaders,
         NEW more, PlainSteps(fs, of, more),
         Fail(p) \/ (Go(p, more) /\ SaidStep(p)),
         UNCHANGED <<fs, todo, mem, mishaps>>
  PROVE  Holds(of)' /\ Settles(p)
<1>1. Changes(fs, fs', {}) /\ Quiet(p, {})
  BY SameChanges DEF Quiet
<1>2. mishaps' \in 0..Mishaps
  BY DEF Holds, TypedInv
<1>3. RestStep(p, of)
  BY RestSame
<1> QED BY <1>1, <1>2, <1>3, PlainDone
-----------------------------------------------------------------------------
(* The steps that all the commands share.                                  *)

LEMMA StartHolds ==
  ASSUME NEW of, Holds(of), NEW p \in Procs, Start(p)
  PROVE  Holds(of)'
<1> DEFINE c == Head(todo[p])
           s == [op |-> c.verb, r |-> c]
<1>1. /\ task[p] = <<>> /\ todo[p] # <<>>
      /\ todo' = [todo EXCEPT ![p] = Tail(@)] /\ task' = [task EXCEPT ![p] = <<s>>]
      /\ said' = [said EXCEPT ![p] = {}] /\ UNCHANGED <<fs, mem, mishaps>>
  BY DEF Start
<1>2. /\ todo = [q \in Procs |-> todo[q]] /\ task = [q \in Procs |-> task[q]]
      /\ mem = [q \in Procs |-> mem[q]] /\ said = [q \in Procs |-> said[q]] /\ mishaps \in 0..Mishaps
      /\ TodoOK(fs, todo[p]) /\ MemOK(fs, of, mem[p])
  BY DEF Holds, TypedInv, HomeInv
<1>3. IsSeq(todo[p]) /\ 1 \in DOMAIN todo[p] /\ c = todo[p][1] /\ \A i \in DOMAIN todo[p] : IsCommand(fs, todo[p][i])
  BY <1>1, <1>2, SeqFacts DEF TodoOK
<1>4. TodoOK(fs, Tail(todo[p]))
  <2> DEFINE S == {d \in ToSet(todo[p]) : IsCommand(fs, d)}
  <2>1. todo[p] \in Seq(S)
    <3>1. ToSet(todo[p]) = S
      BY <1>3 DEF ToSet
    <3> QED BY <1>3, <3>1 DEF IsSeq
  <2>2. PICK t : t = Tail(todo[p])
    OBVIOUS
  <2>3. t \in Seq(S)
    BY <1>1, <2>1, <2>2, TailOps
  <2>4. IsSeq(t) /\ \A i \in DOMAIN t : t[i] \in S
    <3> HIDE DEF S
    <3> QED BY <2>3, IsSeqOf, LenProperties, ElementOfSeq
  <2> QED BY <2>2, <2>4 DEF TodoOK
<1>5. StepOK(fs, of, s) /\ s.op \notin Leaders \cup Followers
  <2>1. c.verb \in Verbs /\ IsCommand(fs, c)
    BY <1>3 DEF IsCommand
  <2> QED BY <2>1 DEF StepOK, Verbs, PlacingOps, BindingOps, Leaders, Followers
<1>6. TaskOK(fs, of, <<s>>) /\ Fresh(<<s>>)
  BY <1>5, PlainTuples, PlainTask
<1> HIDE DEF s
<1>7. TaskStep(p, of)
  BY <1>1, <1>2, <1>6 DEF TaskStep
<1>8. RestStep(p, of)
  BY <1>1, <1>2, <1>4 DEF RestStep
<1>9. Changes(fs, fs', {}) /\ Quiet(p, {}) /\ ~At(p, "fill") /\ said' = [q \in Procs |-> said'[q]]
  BY <1>1, <1>2, SameChanges DEF Quiet, At
<1> QED BY <1>1, <1>2, <1>7, <1>8, <1>9, QuietStep

LEMMA CrashHolds ==
  ASSUME NEW of, Holds(of), NEW p \in Procs, Crash(p)
  PROVE  Holds(of)'
<1>1. /\ task' = [task EXCEPT ![p] = <<>>] /\ UNCHANGED <<fs, todo, mem, said>>
      /\ mishaps < Mishaps /\ mishaps' = mishaps + 1
  BY DEF Crash, Interrupted
<1>2. /\ task = [q \in Procs |-> task[q]] /\ said = [q \in Procs |-> said[q]]
      /\ mishaps \in 0..Mishaps /\ TaskOK(fs, of, task[p]) /\ TmpReady(fs, p, task[p])
      /\ WavsAre(fs, of) /\ IsSetUp(fs, of) /\ HasMetadata(fs) /\ of \in [Audio(fs) -> Hashes]
      /\ TodoOK(fs, todo[p]) /\ MemOK(fs, of, mem[p])
  BY DEF Holds, TypedInv, HomeInv
<1>3. TaskOK(fs, of, <<>>)
  BY PlainTuples, PlainTask
<1>4. TmpReady(fs, p, <<>>)
  BY DEF TmpReady
<1>5. mishaps' \in 0..Mishaps
  BY <1>1, <1>2, MishapsAssumption
<1>6. AudioStays(fs, of, fs, of)
  BY DEF AudioStays
<1>7. /\ todo' = [todo EXCEPT ![p] = todo'[p]] /\ mem' = [mem EXCEPT ![p] = mem'[p]]
      /\ task' = [task EXCEPT ![p] = task'[p]] /\ task'[p] = <<>>
      /\ said' = [q \in Procs |-> said'[q]]
  <2>1. todo = [q \in Procs |-> todo[q]] /\ mem = [q \in Procs |-> mem[q]]
    BY DEF Holds, TypedInv
  <2> QED BY <1>1, <1>2, <2>1
<1>8. fs' = fs /\ \A q, t : TmpReady(fs, q, t) => TmpReady(fs', q, t)
  BY <1>1
<1> QED BY <1>1, <1>2, <1>3, <1>4, <1>5, <1>6, <1>7, <1>8, BigStep

LEMMA FaultHolds ==
  ASSUME NEW of, Holds(of), NEW p \in Procs, Fault(p)
  PROVE  Holds(of)'
<1> DEFINE X == {TmpOf(p, Step(p).m.id.words)}
<1>1. /\ task[p] # <<>> /\ Fail(p) /\ UNCHANGED <<todo, mem>>
      /\ mishaps < Mishaps /\ mishaps' = mishaps + 1 /\ (fs' = Without(X) \/ UNCHANGED fs)
  BY DEF Fault, Interrupted, At
<1>2. Changes(fs, fs', X)
  BY <1>1, SameChanges, DropChanges
<1>3. Quiet(p, X)
  BY DEF Quiet
<1>4. TaskStep(p, of) /\ Fresh(task'[p])
  BY <1>1, FailStep
<1>5. RestStep(p, of) /\ said' = [q \in Procs |-> said'[q]]
  BY <1>1, RestSame, SaidTyped DEF Holds
<1>6. mishaps' \in 0..Mishaps
  BY <1>1, MishapsAssumption DEF Holds, TypedInv
<1> HIDE DEF X
<1> QED BY <1>2, <1>3, <1>4, <1>5, <1>6, QuietStep

LEMMA TellHolds ==
  ASSUME NEW of, Holds(of), NEW p \in Procs, Tell(p)
  PROVE  Holds(of)' /\ Settles(p)
<1>1. At(p, "tell") /\ Go(p, <<>>) /\ Report(p, Item(p).how, Item(p)) /\ UNCHANGED <<fs, todo, mem, mishaps>>
  BY DEF Tell
<1>2. SaidStep(p)
  BY <1>1 DEF SaidStep
<1>3. "tell" \notin Leaders
  BY DEF Leaders
<1> QED BY <1>1, <1>2, <1>3, PlainTuples, StillDone

LEMMA WrittenHolds ==
  ASSUME NEW of, Holds(of), NEW p \in Procs, Written(p)
  PROVE  Holds(of)'
<1> DEFINE x == Step(p).at
<1>1. At(p, "write") /\ Put(x, Step(p).c) /\ Go(p, <<>>) /\ UNCHANGED <<todo, mem, said, mishaps>>
  BY DEF Written
<1>2. task[p] # <<>> /\ Step(p).op = "write" /\ ~At(p, "fill")
  BY <1>1 DEF At, Step
<1>3. x[1] \in {"src", "tone"}
  BY <1>2, Acting DEF StepOK, IsPreset
<1> HIDE DEF x
<1>4. Changes(fs, fs', {x}) /\ Quiet(p, {x})
  <2>1. x[1] \in FileKinds
    BY <1>3 DEF FileKinds
  <2> QED BY <1>1, <1>3, <2>1, PutChanges DEF Quiet, QuietKinds
<1>5. TaskOK(fs, of, <<>>) /\ Fresh(<<>>)
  BY PlainTuples, PlainTask
<1>6. TaskStep(p, of)
  BY <1>1, <1>2, <1>5, GoStep
<1>7. RestStep(p, of) /\ said' = [q \in Procs |-> said'[q]] /\ mishaps' \in 0..Mishaps
  BY <1>1, RestSame DEF Holds, TypedInv
<1> QED BY <1>2, <1>4, <1>6, <1>7, QuietStep
-----------------------------------------------------------------------------
(* Metadata is written aside and renamed.                                  *)

\* The step that saves metadata is pushed by many.
LEMMA SaveIsPlain ==
  ASSUME NEW f, NEW of, NEW r, NEW m, IsMeta(m)
  PROVE  PlainSteps(f, of, SaveSteps(r, m))
<1> DEFINE s == [op |-> "tmp", r |-> r, m |-> m]
<1>1. s.op = "tmp" /\ s.r = r /\ s.m = m
  OBVIOUS
<1>2. StepOK(f, of, s) /\ s.op \notin Leaders \cup Followers
  BY <1>1 DEF StepOK, Verbs, PlacingOps, BindingOps, Leaders, Followers
<1> HIDE DEF s
<1>3. PlainSteps(f, of, <<s>>)
  BY <1>2, PlainTuples
<1> QED BY <1>3 DEF SaveSteps, s

\* A step and the one that is to follow it.
LEMMA PairOK ==
  ASSUME NEW f, NEW of, NEW a, StepOK(f, of, a), a.op \notin Followers,
         NEW b, StepOK(f, of, b), Linked(a, b)
  PROVE  TaskOK(f, of, <<a, b>>) /\ Fresh(<<a, b>>)
<1>1. /\ <<a, b>> \in Seq({a, b}) /\ Len(<<a, b>>) = 2 /\ DOMAIN <<a, b>> = 1..2
      /\ <<a, b>>[1] = a /\ <<a, b>>[2] = b /\ Head(<<a, b>>) = a
  OBVIOUS
<1>2. IsSeq(<<a, b>>)
  BY <1>1, IsSeqOf
<1>3. \A i \in 1..2 : i = 1 \/ i = 2
  OBVIOUS
<1>4. \A i \in 2..2 : i = 2 /\ i - 1 = 1
  OBVIOUS
<1> QED BY <1>1, <1>2, <1>3, <1>4 DEF TaskOK, Fresh

LEMMA SaveTmpHolds ==
  ASSUME NEW of, Holds(of), NEW p \in Procs, SaveTmp(p)
  PROVE  Holds(of)'
<1> DEFINE s == Step(p)
           x == TmpOf(p, s.m.id.words)
           a == [op |-> "fill", r |-> s.r, m |-> s.m]
           b == [op |-> "publish", r |-> s.r, m |-> s.m]
<1>1. /\ At(p, "tmp") /\ Put(x, Torn) /\ UNCHANGED <<todo, mem, said, mishaps>>
      /\ Go(p, <<[s EXCEPT !.op = "fill"], [s EXCEPT !.op = "publish"]>>)
  BY DEF SaveTmp
<1>2. task[p] # <<>> /\ s.op = "tmp" /\ ~At(p, "fill")
  BY <1>1 DEF At, Step
<1>3. IsMeta(s.m) /\ s = [op |-> "tmp", r |-> s.r, m |-> s.m]
  BY <1>2, Acting DEF StepOK
<1>4. [s EXCEPT !.op = "fill"] = a /\ [s EXCEPT !.op = "publish"] = b
  <2> HIDE DEF s
  <2>1. PICK r, m : s = [op |-> "tmp", r |-> r, m |-> m]
    BY <1>3
  <2> QED BY <2>1
<1>5. StepOK(fs, of, a) /\ StepOK(fs, of, b) /\ Linked(a, b)
  BY <1>3 DEF StepOK, Verbs, PlacingOps, BindingOps, Linked, Leaders, Followers
<1>6. TaskOK(fs, of, <<a, b>>) /\ Fresh(<<a, b>>)
  <2>1. a.op \notin Followers
    BY DEF Followers
  <2> HIDE DEF a, b
  <2> QED BY <1>5, <2>1, PairOK
<1>7. TaskStep(p, of)
  <2>1. Go(p, <<a, b>>) /\ s.op \notin Leaders
    BY <1>1, <1>2, <1>4 DEF Leaders
  <2> HIDE DEF a, b
  <2> QED BY <1>2, <1>6, <2>1, GoStep
<1>8. x[1] \in FileKinds /\ Quiet(p, {x})
  BY DEF TmpOf, FileKinds, Quiet
<1>9. Changes(fs, fs', {x})
  BY <1>1, <1>8, PutChanges
<1>10. RestStep(p, of) /\ said' = [q \in Procs |-> said'[q]] /\ mishaps' \in 0..Mishaps
  BY <1>1, RestSame DEF Holds, TypedInv
<1> HIDE DEF x, s, a, b
<1> QED BY <1>2, <1>7, <1>8, <1>9, <1>10, QuietStep

LEMMA FillTmpHolds ==
  ASSUME NEW of, Holds(of), NEW p \in Procs, FillTmp(p)
  PROVE  Holds(of)'
<1> DEFINE s == Step(p)
           x == TmpOf(p, s.m.id.words)
<1>1. At(p, "fill") /\ Put(x, s.m) /\ Go(p, <<>>) /\ UNCHANGED <<todo, mem, said, mishaps>>
  BY DEF FillTmp
<1>2. task[p] # <<>> /\ s.op = "fill"
  BY <1>1 DEF At, Step
<1>3. x[1] \in FileKinds /\ Quiet(p, {x})
  BY DEF TmpOf, FileKinds, Quiet
<1>4. Changes(fs, fs', {x}) /\ fs'[x] = s.m
  BY <1>1, <1>3, PutChanges
<1>5. TaskStep(p, of)
  <2>1. TaskOK(fs, of, <<>>) /\ Fresh(<<>>)
    BY PlainTuples, PlainTask
  <2> QED BY <1>1, <1>2, <2>1, GoStep
<1>6. TmpReady(fs', p, task'[p])
  <2>1. ASSUME task'[p] # <<>>, Head(task'[p]).op = "publish" PROVE Head(task'[p]).m = s.m
    BY <1>5, <2>1 DEF TaskStep, Fresh, Followers, Linked
  <2> QED BY <1>4, <2>1 DEF TmpReady
<1>7. RestStep(p, of) /\ said' = [q \in Procs |-> said'[q]] /\ mishaps' \in 0..Mishaps
  BY <1>1, RestSame DEF Holds, TypedInv
<1>8. PICK g : g = fs'
  OBVIOUS
<1>9. of \in [Audio(fs) -> Hashes] /\ WavsAre(fs, of) /\ IsSetUp(fs, of) /\ HasMetadata(fs)
  BY DEF Holds, HomeInv
<1>10. /\ WavsAre(g, of) /\ IsSetUp(g, of) /\ HasMetadata(g)
       /\ Audio(g) = Audio(fs) /\ AudioStays(fs, of, g, of)
       /\ \A q, t : q # p /\ TmpReady(fs, q, t) => TmpReady(g, q, t)
  <2> HIDE DEF x
  <2> QED BY <1>3, <1>4, <1>8, <1>9, QuietHome
<1>11. TaskOK(g, of, task'[p]) /\ TodoOK(g, todo'[p]) /\ MemOK(g, of, mem'[p])
  BY <1>5, <1>7, <1>10, StepsStay, NamesStay DEF TaskStep, RestStep
<1>12. task' = [task EXCEPT ![p] = task'[p]] /\ todo' = [todo EXCEPT ![p] = todo'[p]] /\ mem' = [mem EXCEPT ![p] = mem'[p]]
  BY <1>5, <1>7 DEF TaskStep, RestStep
<1> QED BY <1>6, <1>7, <1>8, <1>9, <1>10, <1>11, <1>12, BigStep

LEMMA PublishHolds ==
  ASSUME NEW of, Holds(of), NEW p \in Procs, Publish(p)
  PROVE  Holds(of)'
<1> DEFINE m == Step(p).m
           x == TmpOf(p, m.id.words)
           y == Meta(m.id.words)
           X == {x, y}
<1>1. /\ At(p, "publish") /\ UNCHANGED <<todo, mem, mishaps>>
      /\ \/ Exists(x) /\ fs' = Updated(Without({x}), y, fs[x]) /\ Go(p, <<>>) /\ UNCHANGED said
         \/ Fail(p) /\ UNCHANGED fs
  BY DEF Publish
<1>2. task[p] # <<>> /\ Step(p).op = "publish" /\ ~At(p, "fill")
  BY <1>1 DEF At, Step
<1>3. IsMeta(m) /\ (Exists(x) => fs[x] = m)
  BY <1>2, Acting DEF StepOK, TmpReady, Step, Exists
<1>4. TaskStep(p, of) /\ Fresh(task'[p])
  <2>1. TaskOK(fs, of, <<>>) /\ Fresh(<<>>)
    BY PlainTuples, PlainTask
  <2>2. TaskStep(p, of)
    BY <1>1, <1>2, <2>1, GoStep, FailStep
  <2>3. ~Linked(Step(p), Head(task'[p])) \/ Fresh(task'[p])
    BY <1>2 DEF Linked, Fresh, Followers
  <2> QED BY <2>2, <2>3 DEF TaskStep
<1>5. RestStep(p, of) /\ said' = [q \in Procs |-> said'[q]] /\ mishaps' \in 0..Mishaps
  BY <1>1, RestSame, SaidTyped DEF Holds, TypedInv, SaidStep
<1>6. CASE UNCHANGED fs
  <2>1. Changes(fs, fs', {}) /\ Quiet(p, {})
    BY <1>6, SameChanges DEF Quiet
  <2> QED BY <1>2, <1>4, <1>5, <2>1, QuietStep
<1>7. CASE Exists(x) /\ fs' = Updated(Without({x}), y, fs[x])
  <2>1. x # y /\ y[1] = "meta" /\ y[2] = m.id.words /\ x[1] = "tmp"
    BY DEF TmpOf, Meta
  <2>2. PICK g : g = fs'
    OBVIOUS
  <2> HIDE DEF x, y
  <2>3. /\ DOMAIN g = (DOMAIN fs \ {x}) \cup {y} /\ g[y] = m
        /\ \A z \in DOMAIN fs : z \notin X => g[z] = fs[z]
    BY <1>3, <1>7, <2>1, <2>2 DEF Updated, Without
  <2>4. IsFiniteSet(DOMAIN fs) /\ \A z \in DOMAIN fs : z[1] \in FileKinds
    BY DEF Holds, HomeInv, IsSetUp
  <2>5. IsFiniteSet(DOMAIN g)
    BY <2>3, <2>4, FS_Difference, FS_AddElement
  <2>6. Changes(fs, g, X)
    BY <2>1, <2>3, <2>4, <2>5 DEF Changes, FileKinds
  <2>7. Mostly(p, X)
    BY <2>1 DEF Mostly, x
  <2>8. of \in [Audio(fs) -> Hashes] /\ WavsAre(fs, of) /\ IsSetUp(fs, of) /\ HasMetadata(fs)
    BY DEF Holds, HomeInv
  <2>9. HasMetadata(g)
    BY <1>3, <2>1, <2>3, <2>8 DEF HasMetadata
  <2>10. /\ WavsAre(g, of) /\ IsSetUp(g, of)
         /\ Audio(g) = Audio(fs) /\ AudioStays(fs, of, g, of)
         /\ \A q, t : q # p /\ TmpReady(fs, q, t) => TmpReady(g, q, t)
    <3> HIDE DEF X
    <3> QED BY <2>6, <2>7, <2>8, MostlyHome
  <2>11. TaskOK(g, of, task'[p]) /\ TodoOK(g, todo'[p]) /\ MemOK(g, of, mem'[p])
    BY <1>4, <1>5, <2>10, StepsStay, NamesStay DEF TaskStep, RestStep
  <2>12. TmpReady(g, p, task'[p])
    BY <1>4 DEF TmpReady, Fresh, Followers
  <2>13. task' = [task EXCEPT ![p] = task'[p]] /\ todo' = [todo EXCEPT ![p] = todo'[p]] /\ mem' = [mem EXCEPT ![p] = mem'[p]]
    BY <1>4, <1>5 DEF TaskStep, RestStep
  <2> QED BY <1>5, <2>2, <2>8, <2>9, <2>10, <2>11, <2>12, <2>13, BigStep
<1> QED BY <1>1, <1>6, <1>7
-----------------------------------------------------------------------------
(* A preset is written.                                                    *)

\* A step and those that are to be done after it.
LEMMA LeadOK ==
  ASSUME NEW f, NEW of, NEW w, StepOK(f, of, w), w.op \notin Followers,
         NEW t, TaskOK(f, of, t), t # <<>> => Linked(w, Head(t))
  PROVE  TaskOK(f, of, <<w>> \o t) /\ Fresh(<<w>> \o t)
<1> DEFINE S == ToSet(t) \cup {w}
           n == Len(t)
<1>1. /\ IsSeq(t) /\ n \in Nat /\ DOMAIN t = 1..n /\ (t # <<>> => Head(t) = t[1])
      /\ \A i \in 1..n : StepOK(f, of, t[i])
      /\ \A i \in 2..n : Linked(t[i - 1], t[i])
  BY SeqFacts DEF TaskOK
<1>2. t \in Seq(S) /\ <<w>> \in Seq(S) /\ Len(<<w>>) = 1 /\ <<w>>[1] = w /\ 1 \in 1..1
  <2>1. t \in Seq(ToSet(t))
    BY <1>1 DEF IsSeq
  <2> QED BY <2>1
<1> HIDE DEF S, n
<1>3. PICK u : u = <<w>> \o t
  OBVIOUS
<1>4. /\ u \in Seq(S) /\ Len(u) = 1 + n /\ DOMAIN u = 1..(1 + n)
      /\ u[1] = w /\ \A i \in 1..n : u[1 + i] = t[i]
  BY <1>2, <1>3, ConcatIndex DEF n
<1>5. IsSeq(u) /\ u # <<>> /\ Head(u) = w
  <2>1. IsSeq(u)
    BY <1>4, IsSeqOf
  <2>2. u # <<>> /\ Head(u) = u[1]
    BY <1>1, <1>4
  <2> QED BY <1>4, <2>1, <2>2
<1>6. \A i \in 1..(1 + n) : i = 1 \/ (i - 1 \in 1..n /\ i = 1 + (i - 1))
  BY <1>1
<1>7. \A i \in DOMAIN u : StepOK(f, of, u[i])
  BY <1>1, <1>4, <1>6
<1>8. ASSUME NEW i \in 2..Len(u) PROVE Linked(u[i - 1], u[i])
  <2>1. i - 1 \in 1..n /\ i = 1 + (i - 1) /\ u[i] = t[i - 1]
    BY <1>1, <1>4
  <2>2. CASE i = 2
    <3>1. i - 1 = 1 /\ t # <<>> /\ u[i] = Head(t) /\ u[i - 1] = w
      BY <1>1, <1>4, <2>1, <2>2 DEF n
    <3> QED BY <3>1
  <2>3. CASE i # 2
    <3>1. i - 1 \in 2..n /\ i - 2 \in 1..n /\ i - 1 = 1 + (i - 2) /\ (i - 1) - 1 = i - 2
      BY <1>1, <2>1, <2>3
    <3>2. u[i - 1] = t[i - 2] /\ Linked(t[(i - 1) - 1], t[i - 1])
      BY <1>1, <1>4, <3>1
    <3> QED BY <2>1, <3>1, <3>2
  <2> QED BY <2>2, <2>3
<1>9. TaskOK(f, of, u) /\ Fresh(u)
  BY <1>5, <1>7, <1>8 DEF TaskOK, Fresh
<1> QED BY <1>3, <1>9

LEMMA WriteDone ==
  ASSUME NEW of, Holds(of), NEW p \in Procs, NEW op, At(p, op), op \notin Leaders,
         NEW x, IsPreset(x), NEW c, NEW r,
         NEW more, TaskOK(fs, of, more),
         more # <<>> => Linked([op |-> "write", r |-> r, at |-> x, c |-> c], Head(more)),
         WriteBytes(p, x, c, r, more), SaidStep(p), RestStep(p, of), mishaps' \in 0..Mishaps
  PROVE  Holds(of)'
<1> DEFINE w == [op |-> "write", r |-> r, at |-> x, c |-> c]
<1>1. task[p] # <<>> /\ Step(p).op \notin Leaders /\ ~At(p, "fill")
  BY DEF At, Step, Leaders
<1>2. Put(x, Torn) /\ Go(p, <<w>> \o more)
  BY DEF WriteBytes
<1>3. StepOK(fs, of, w) /\ w.op \notin Followers
  BY DEF StepOK, Verbs, PlacingOps, BindingOps, Followers
<1> HIDE DEF w
<1>4. TaskOK(fs, of, <<w>> \o more) /\ Fresh(<<w>> \o more)
  BY <1>3, LeadOK DEF w
<1>5. TaskStep(p, of)
  <2>1. PICK all : all = <<w>> \o more
    OBVIOUS
  <2> QED BY <1>1, <1>2, <1>4, <2>1, GoStep
<1>6. Changes(fs, fs', {x}) /\ Quiet(p, {x})
  <2>1. x[1] \in FileKinds /\ x[1] \in QuietKinds
    BY DEF IsPreset, FileKinds, QuietKinds
  <2> QED BY <1>2, <2>1, PutChanges DEF Quiet
<1>7. said' = [q \in Procs |-> said'[q]]
  BY SaidTyped DEF Holds
<1> QED BY <1>1, <1>5, <1>6, <1>7, QuietStep

LEMMA HspDone ==
  ASSUME NEW of, Holds(of), NEW p \in Procs, NEW op, At(p, op), op \notin Leaders,
         NEW x, IsPreset(x), NEW c, NEW r, NEW more, PlainSteps(fs, of, more),
         WriteHsp(p, x, c, r, more), SaidStep(p), UNCHANGED <<todo, mem, mishaps>>
  PROVE  Holds(of)'
<1>1. PICK d : d = [c EXCEPT !.body = ApplyPreference(@, Taps)]
  OBVIOUS
<1>2. WriteBytes(p, x, d, r, more)
  BY <1>1 DEF WriteHsp
<1>3. TaskOK(fs, of, more) /\ Fresh(more)
  BY PlainTask
<1>4. more # <<>> => Head(more).op \notin Leaders \cup Followers
  <2>1. more # <<>> => 1 \in DOMAIN more /\ Head(more) = more[1]
    BY SeqFacts DEF PlainSteps
  <2> QED BY <2>1 DEF PlainSteps
<1>5. more # <<>> => Linked([op |-> "write", r |-> r, at |-> x, c |-> d], Head(more))
  BY <1>4 DEF Linked, Followers
<1>6. RestStep(p, of) /\ mishaps' \in 0..Mishaps
  BY RestSame DEF Holds, TypedInv
<1> QED BY <1>2, <1>3, <1>5, <1>6, WriteDone
-----------------------------------------------------------------------------
(* Metadata that is changed is metadata.                                   *)

LEMMA MetaChanged ==
  ASSUME NEW m, IsMeta(m)
  PROVE  /\ \A d : IsMeta([m EXCEPT !.desc = d]) /\ [m EXCEPT !.desc = d].id = m.id
         /\ \A t : IsMeta([m EXCEPT !.tags = t])
         /\ \A n : \A k \in DOMAIN m.variants : IsMeta([m EXCEPT !.variants[k].notes = n])
         /\ \A k, v : IsVariant(v) /\ v.hsp = WithKey(m.id.words, k) =>
                /\ IsMeta([m EXCEPT !.variants = Updated(@, k, v)])
                /\ [m EXCEPT !.variants = Updated(@, k, v)].id = m.id
<1>1. PICK id, variants, desc, tags : m = [id |-> id, variants |-> variants, desc |-> desc, tags |-> tags]
  BY DEF IsMeta
<1>2. \A k \in DOMAIN variants : IsVariant(variants[k]) /\ variants[k].hsp = WithKey(id.words, k)
  BY <1>1 DEF IsMeta
<1>3. ASSUME NEW d PROVE IsMeta([m EXCEPT !.desc = d]) /\ [m EXCEPT !.desc = d].id = m.id
  <2>1. [m EXCEPT !.desc = d] = [id |-> id, variants |-> variants, desc |-> d, tags |-> tags]
    BY <1>1
  <2> QED BY <1>1, <1>2, <2>1 DEF IsMeta
<1>4. ASSUME NEW t PROVE IsMeta([m EXCEPT !.tags = t])
  <2>1. [m EXCEPT !.tags = t] = [id |-> id, variants |-> variants, desc |-> desc, tags |-> t]
    BY <1>1
  <2> QED BY <1>2, <2>1 DEF IsMeta
<1>5. ASSUME NEW k \in DOMAIN m.variants, NEW n PROVE IsMeta([m EXCEPT !.variants[k].notes = n])
  <2> DEFINE new == [variants EXCEPT ![k].notes = n]
  <2>1. [m EXCEPT !.variants[k].notes = n] = [id |-> id, variants |-> new, desc |-> desc, tags |-> tags]
    BY <1>1
  <2>2. PICK hsp, from, notes : variants[k] = [hsp |-> hsp, from |-> from, notes |-> notes]
    BY <1>1, <1>2 DEF IsVariant
  <2>3. DOMAIN new = DOMAIN variants /\ new[k] = [hsp |-> hsp, from |-> from, notes |-> n]
        /\ \A j \in DOMAIN variants : j # k => new[j] = variants[j]
    BY <1>1, <2>2
  <2> HIDE DEF new
  <2>4. ASSUME NEW j \in DOMAIN new PROVE IsVariant(new[j]) /\ new[j].hsp = WithKey(id.words, j)
    <3>1. CASE j = k
      BY <1>1, <1>2, <2>2, <2>3, <3>1 DEF IsVariant
    <3>2. CASE j # k
      BY <1>2, <2>3, <3>2
    <3> QED BY <3>1, <3>2
  <2> QED BY <2>1, <2>4 DEF IsMeta
<1>6. ASSUME NEW k, NEW v, IsVariant(v), v.hsp = WithKey(m.id.words, k)
      PROVE  /\ IsMeta([m EXCEPT !.variants = Updated(@, k, v)])
             /\ [m EXCEPT !.variants = Updated(@, k, v)].id = m.id
  <2> DEFINE new == Updated(variants, k, v)
  <2>1. [m EXCEPT !.variants = Updated(@, k, v)] = [id |-> id, variants |-> new, desc |-> desc, tags |-> tags]
    BY <1>1
  <2>2. /\ DOMAIN new = DOMAIN variants \cup {k} /\ new[k] = v
        /\ \A j \in DOMAIN variants : j # k => new[j] = variants[j]
    BY DEF Updated
  <2> HIDE DEF new
  <2>3. \A j \in DOMAIN new : IsVariant(new[j]) /\ new[j].hsp = WithKey(id.words, j)
    BY <1>1, <1>2, <1>6, <2>2
  <2> QED BY <1>1, <2>1, <2>3 DEF IsMeta
<1> QED BY <1>3, <1>4, <1>5, <1>6

LEMMA ExtendedIsMeta ==
  ASSUME HasMetadata(fs), NEW r, r.slug = WithKey(r.id.words, r.key),
         NEW m, m = Extended(ReadOr(Meta(r.id.words), None), r)
  PROVE  /\ IsMeta(m) /\ IsMeta(WithWriteUp(m, r))
         /\ m.id.words = r.id.words
<1> DEFINE x == Meta(r.id.words)
           fresh == [id |-> r.id, variants |-> <<>>, desc |-> None, tags |-> {}]
           v == [hsp |-> r.slug, from |-> r.from, notes |-> r.from]
<1>1. PICK old : /\ m = [old EXCEPT !.variants = Updated(@, r.key, v)]
                 /\ old = IF ReadOr(x, None) # None THEN ReadOr(x, None) ELSE fresh
  BY DEF Extended
<1>2. IsMeta(fresh) /\ fresh.id.words = r.id.words
  <2>1. DOMAIN <<>> = {}
    OBVIOUS
  <2> QED BY <2>1 DEF IsMeta
<1>3. x \in DOMAIN fs => IsMeta(fs[x]) /\ fs[x].id.words = r.id.words
  <2>1. x[1] = "meta" /\ x[2] = r.id.words
    BY DEF Meta
  <2> QED BY <2>1 DEF HasMetadata
<1>4. IsMeta(old) /\ old.id.words = r.id.words
  BY <1>1, <1>2, <1>3 DEF ReadOr, Exists
<1>5. IsVariant(v) /\ v.hsp = WithKey(old.id.words, r.key)
  BY <1>4 DEF IsVariant
<1> HIDE DEF v
<1>6. IsMeta(m) /\ m.id = old.id
  <2>1. [old EXCEPT !.variants = Updated(@, r.key, v)].id = old.id /\ IsMeta([old EXCEPT !.variants = Updated(@, r.key, v)])
    BY <1>4, <1>5, MetaChanged
  <2> QED BY <1>1, <2>1 DEF v
<1>7. IsMeta(WithWriteUp(m, r))
  BY <1>6, MetaChanged DEF WithWriteUp
<1> QED BY <1>4, <1>6, <1>7
-----------------------------------------------------------------------------
(* Placing a tone.                                                         *)

LEMMA PlacedIsPlacing ==
  ASSUME NEW how, NEW src, IsPreset(src), NEW old, NEW id, NEW key, NEW desc,
         NEW r, r = Placing(how, src, old, id, key, desc)
  PROVE  IsPlacing(r)
BY DEF Placing, IsPlacing, VariantSlug

LEMMA PlacingIsPlain ==
  ASSUME NEW f, NEW of, NEW r, IsPlacing(r)
  PROVE  /\ StepOK(f, of, PlacingStep(r)) /\ PlacingStep(r).op \notin Leaders \cup Followers
         /\ PlainSteps(f, of, <<PlacingStep(r)>>)
<1>1. PICK s : s = PlacingStep(r)
  OBVIOUS
<1>2. StepOK(f, of, s) /\ s.op \notin Leaders \cup Followers
  BY <1>1 DEF PlacingStep, StepOK, Verbs, PlacingOps, BindingOps, Leaders, Followers
<1> QED BY <1>1, <1>2, PlainTuples

LEMMA PlacingSteps5 ==
  ASSUME NEW f, NEW of, NEW r, IsPlacing(r),
         NEW t, t = Steps(<<"copied", "verify", "rename", "upsert", "tell">>, r)
  PROVE  TaskOK(f, of, t) /\ Fresh(t)
<1> DEFINE ops == <<"copied", "verify", "rename", "upsert", "tell">>
<1>1. /\ DOMAIN t = 1..5 /\ t = [i \in 1..5 |-> t[i]]
      /\ \A i \in 1..5 : t[i] = [op |-> ops[i], r |-> r]
  BY DEF Steps
<1>2. IsSeq(t) /\ Len(t) = 5 /\ t # <<>> /\ Head(t) = t[1]
  <2>1. IsSeq(t) /\ Len(t) = 5
    BY <1>1, FunctionIsSeqOf
  <2> QED BY <1>1, <2>1, SeqFacts
<1>3. /\ t[1] = [op |-> "copied", r |-> r] /\ t[2] = [op |-> "verify", r |-> r]
      /\ t[3] = [op |-> "rename", r |-> r] /\ t[4] = [op |-> "upsert", r |-> r]
      /\ t[5] = [op |-> "tell", r |-> r]
  BY <1>1
<1>4. \A i \in 1..5 : t[i].op \in PlacingOps \cup {"tell"} /\ t[i].r = r
  <2>1. \A i \in 1..5 : i = 1 \/ i = 2 \/ i = 3 \/ i = 4 \/ i = 5
    OBVIOUS
  <2> QED BY <1>3, <2>1 DEF PlacingOps
<1>5. \A i \in DOMAIN t : StepOK(f, of, t[i])
  BY <1>1, <1>4 DEF StepOK, PlacingOps, BindingOps, Verbs
<1>6. \A i \in 2..5 : Linked(t[i - 1], t[i])
  <2>1. \A i \in 2..5 : <<i - 1, i>> \in {<<1, 2>>, <<2, 3>>, <<3, 4>>, <<4, 5>>}
    OBVIOUS
  <2>2. Linked(t[1], t[2]) /\ Linked(t[2], t[3]) /\ Linked(t[3], t[4]) /\ Linked(t[4], t[5])
    BY <1>3 DEF Linked, Leaders, Followers
  <2> QED BY <2>1, <2>2
<1>7. Head(t).op \notin Followers
  BY <1>2, <1>3 DEF Followers
<1> QED BY <1>2, <1>5, <1>6, <1>7 DEF TaskOK, Fresh

LEMMA DataSafePlaceHolds ==
  ASSUME NEW of, Holds(of), NEW p \in Procs, DataSafePlace(p)
  PROVE  Holds(of)'
<1> DEFINE r == Item(p)
           x == Tone(r.slug)
<1>1. PICK t : t = Steps(<<"copied", "verify", "rename", "upsert", "tell">>, r)
  OBVIOUS
<1>2. /\ At(p, "place") /\ UNCHANGED <<todo, mem, mishaps>>
      /\ \/ Fail(p) /\ UNCHANGED fs
         \/ Put(x, Torn) /\ UNCHANGED said /\ Go(p, t)
  BY <1>1 DEF DataSafePlace
<1>3. task[p] # <<>> /\ Step(p).op = "place" /\ Step(p).op \notin Leaders /\ ~At(p, "fill")
  BY <1>2 DEF At, Step, Leaders
<1>4. IsPlacing(r)
  BY <1>3, Acting DEF StepOK, PlacingOps, Item
<1>5. TaskOK(fs, of, t) /\ Fresh(t)
  BY <1>1, <1>4, PlacingSteps5
<1>6. TaskStep(p, of)
  BY <1>2, <1>3, <1>5, GoStep, FailStep
<1>7. x[1] \in FileKinds /\ Quiet(p, {x})
  BY DEF Tone, FileKinds, Quiet, QuietKinds
<1> HIDE DEF x
<1>8. Changes(fs, fs', {x})
  BY <1>2, <1>7, PutChanges, SameChanges
<1>9. RestStep(p, of) /\ said' = [q \in Procs |-> said'[q]] /\ mishaps' \in 0..Mishaps
  BY <1>2, RestSame, SaidTyped DEF Holds, TypedInv, SaidStep
<1> QED BY <1>3, <1>6, <1>7, <1>8, <1>9, QuietStep

LEMMA CopiedHolds ==
  ASSUME NEW of, Holds(of), NEW p \in Procs, Copied(p)
  PROVE  Holds(of)'
<1> DEFINE x == Tone(Item(p).slug)
<1>1. /\ At(p, "copied") /\ Go(p, <<>>) /\ UNCHANGED <<todo, mem, said>>
      /\ \/ Put(x, fs[Item(p).src]) /\ UNCHANGED mishaps
         \/ mishaps < Mishaps /\ mishaps' = mishaps + 1 /\ UNCHANGED fs
  BY DEF Copied
<1>2. task[p] # <<>> /\ ~At(p, "fill")
  BY <1>1 DEF At
<1>3. x[1] \in FileKinds /\ Quiet(p, {x})
  BY DEF Tone, FileKinds, Quiet, QuietKinds
<1> HIDE DEF x
<1>4. Changes(fs, fs', {x})
  BY <1>1, <1>3, PutChanges, SameChanges
<1>5. TaskStep(p, of)
  <2>1. TaskOK(fs, of, <<>>) /\ Fresh(<<>>)
    BY PlainTuples, PlainTask
  <2> QED BY <1>1, <1>2, <2>1, GoStep
<1>6. RestStep(p, of) /\ said' = [q \in Procs |-> said'[q]] /\ mishaps' \in 0..Mishaps
  BY <1>1, RestSame, MishapsAssumption DEF Holds, TypedInv
<1> QED BY <1>2, <1>3, <1>4, <1>5, <1>6, QuietStep

LEMMA VerifyHolds ==
  ASSUME NEW of, Holds(of), NEW p \in Procs, Verify(p)
  PROVE  Holds(of)'
<1> DEFINE r == Item(p)
           X == {Tone(r.slug), r.src}
<1>1. /\ At(p, "verify") /\ UNCHANGED <<todo, mem, mishaps>>
      /\ \/ Fail(p) /\ fs' = Without({Tone(r.slug)})
         \/ Go(p, <<>>) /\ UNCHANGED said /\ (UNCHANGED fs \/ fs' = Without({r.src}))
  BY DEF Verify
<1>2. task[p] # <<>> /\ Step(p).op = "verify" /\ "verify" \notin Leaders
  BY <1>1 DEF At, Step, Leaders
<1>3. IsPlacing(r)
  BY <1>2, Acting DEF StepOK, PlacingOps, Item
<1>4. Quiet(p, X)
  BY <1>3 DEF Quiet, QuietKinds, IsPlacing, IsPreset, Tone
<1>5. Changes(fs, fs', X)
  <2>1. \A Y : Y \subseteq X /\ Changes(fs, fs', Y) => Changes(fs, fs', X)
    BY DEF Changes
  <2>2. {Tone(r.slug)} \subseteq X /\ {r.src} \subseteq X
    OBVIOUS
  <2> HIDE DEF X
  <2> QED BY <1>1, <2>1, <2>2, DropChanges, SameChanges
<1>6. RestStep(p, of) /\ mishaps' \in 0..Mishaps
  BY <1>1, RestSame DEF Holds, TypedInv
<1>7. Fail(p) \/ (Go(p, <<>>) /\ SaidStep(p))
  BY <1>1 DEF SaidStep
<1> HIDE DEF X
<1> QED BY <1>1, <1>2, <1>4, <1>5, <1>6, <1>7, PlainTuples, PlainDone

\* The file of the library is rewritten under the name of its tone.
LEMMA RenameDone ==
  ASSUME NEW of, Holds(of), NEW p \in Procs, NEW op \in {"rename", "heal"}, At(p, op),
         UNCHANGED <<todo, mem, mishaps>>,
         NEW x, x = Tone(Item(p).slug),
         \/ Fail(p) /\ UNCHANGED fs
         \/ WriteHsp(p, x, [fs[x] EXCEPT !.name = Item(p).name], Item(p), <<>>) /\ UNCHANGED said
  PROVE  Holds(of)'
<1>1. op \notin Leaders /\ IsPreset(x)
  BY DEF Leaders, Tone, IsPreset
<1>2. CASE Fail(p) /\ UNCHANGED fs
  BY <1>1, <1>2, PlainTuples, StillDone
<1>3. CASE WriteHsp(p, x, [fs[x] EXCEPT !.name = Item(p).name], Item(p), <<>>) /\ UNCHANGED said
  <2>1. SaidStep(p)
    BY <1>3 DEF SaidStep
  <2> QED BY <1>1, <1>3, <2>1, PlainTuples, HspDone
<1> QED BY <1>2, <1>3

LEMMA RenameHolds ==
  ASSUME NEW of, Holds(of), NEW p \in Procs, Rename(p)
  PROVE  Holds(of)'
BY RenameDone DEF Rename

LEMMA SaveDone ==
  ASSUME NEW of, Holds(of), NEW p \in Procs, NEW op, At(p, op), op \notin Leaders,
         NEW m, Fail(p) \/ (IsMeta(m) /\ Saved(p, m)), UNCHANGED <<fs, todo, mem, mishaps>>
  PROVE  Holds(of)' /\ Settles(p)
<1>1. CASE Fail(p)
  BY <1>1, PlainTuples, StillDone
<1>2. CASE IsMeta(m) /\ Saved(p, m)
  <2>1. PICK more : more = SaveSteps(Item(p), m)
    OBVIOUS
  <2>2. PlainSteps(fs, of, more) /\ Go(p, more) /\ SaidStep(p)
    BY <1>2, <2>1, SaveIsPlain DEF Saved, SaidStep
  <2> QED BY <2>2, StillDone
<1> QED BY <1>1, <1>2

LEMMA UpsertVariantHolds ==
  ASSUME NEW of, Holds(of), NEW p \in Procs, UpsertVariant(p)
  PROVE  Holds(of)' /\ Settles(p)
<1> DEFINE r == Item(p)
<1>1. PICK m : m = Extended(ReadOr(Meta(r.id.words), None), r)
  OBVIOUS
<1>2. /\ At(p, "upsert") /\ UNCHANGED <<fs, todo, mem, mishaps>>
      /\ Fail(p) \/ Saved(p, WithWriteUp(m, r))
  BY <1>1 DEF UpsertVariant
<1>3. task[p] # <<>> /\ Step(p).op = "upsert" /\ "upsert" \notin Leaders
  BY <1>2 DEF At, Step, Leaders
<1>4. r.slug = WithKey(r.id.words, r.key) /\ HasMetadata(fs)
  BY <1>3, Acting DEF StepOK, PlacingOps, Item, IsPlacing
<1>5. IsMeta(WithWriteUp(m, r))
  BY <1>1, <1>4, ExtendedIsMeta
<1> QED BY <1>2, <1>3, <1>5, SaveDone
-----------------------------------------------------------------------------
(* The commands that place tones, and those that keep what is said of them. *)

LEMMA CommandOf ==
  ASSUME NEW of, Holds(of), NEW p \in Procs, NEW op \in Verbs, At(p, op)
  PROVE  /\ op \notin Leaders /\ task[p] # <<>> /\ ~At(p, "fill")
         /\ IsCommand(fs, Item(p)) /\ Item(p).verb = op /\ HasMetadata(fs)
<1>1. task[p] # <<>> /\ Step(p).op = op /\ op \notin Leaders /\ ~At(p, "fill")
  BY DEF At, Step, Leaders, Verbs
<1>2. IsCommand(fs, Item(p)) /\ Item(p).verb = op /\ HasMetadata(fs)
  BY <1>1, Acting DEF StepOK, Item
<1> QED BY <1>1, <1>2

LEMMA SourcesArePresets ==
  ASSUME NEW f, NEW c, IsCommand(f, c), c.verb \in {"import", "importdir", "fork"}
  PROVE  /\ IsSeq(c.src) /\ IsPreset(c.src[1])
         /\ \A i \in DOMAIN c.src : IsPreset(c.src[i])
<1>1. IsSeq(c.src) /\ c.src # <<>> /\ \A i \in DOMAIN c.src : IsPreset(c.src[i])
  BY DEF IsCommand
<1>2. 1 \in DOMAIN c.src
  BY <1>1, SeqFacts
<1> QED BY <1>1, <1>2

\* A command that places one tone, or nothing.
LEMMA PlaceDone ==
  ASSUME NEW of, Holds(of), NEW p \in Procs, NEW op, At(p, op), op \notin Leaders,
         NEW r, IsPlacing(r), Fail(p) \/ (Go(p, <<PlacingStep(r)>>) /\ UNCHANGED said),
         UNCHANGED <<fs, todo, mem, mishaps>>
  PROVE  Holds(of)' /\ Settles(p)
<1>1. PICK more : more = <<PlacingStep(r)>>
  OBVIOUS
<1>2. PlainSteps(fs, of, more) /\ (Fail(p) \/ (Go(p, more) /\ SaidStep(p)))
  BY <1>1, PlacingIsPlain DEF SaidStep
<1> QED BY <1>2, StillDone

LEMMA ImportHolds ==
  ASSUME NEW of, Holds(of), NEW p \in Procs, Import(p)
  PROVE  Holds(of)' /\ Settles(p)
<1> DEFINE c == Item(p)
<1>1. PICK r : r = Resolved(c, c.src[1], NameIn(c.src[1]))
  OBVIOUS
<1>2. /\ At(p, "import") /\ UNCHANGED <<fs, todo, mem, mishaps>>
      /\ Fail(p) \/ (Go(p, <<PlacingStep(r)>>) /\ UNCHANGED said)
  BY <1>1 DEF Import
<1>3. "import" \notin Leaders /\ IsCommand(fs, c) /\ c.verb = "import"
  BY <1>2, CommandOf DEF Verbs
<1>4. IsPreset(c.src[1])
  BY <1>3, SourcesArePresets
<1>5. IsPlacing(r)
  BY <1>1, <1>4, PlacedIsPlacing DEF Resolved
<1> QED BY <1>2, <1>3, <1>5, PlaceDone

LEMMA ImportDirectoryHolds ==
  ASSUME NEW of, Holds(of), NEW p \in Procs, ImportDirectory(p)
  PROVE  Holds(of)' /\ Settles(p)
<1> DEFINE c == Item(p)
           S == {x \in ToSet(c.src) : IsPreset(x)}
<1>1. PICK each : each = [i \in DOMAIN c.src |-> IF Exists(c.src[i]) THEN <<c.src[i]>> ELSE <<>>]
  OBVIOUS
<1>2. PICK found : found = FlattenSeq(each)
  OBVIOUS
<1>3. PICK more : more = [i \in DOMAIN found |-> PlacingStep(Resolved(c, found[i], NameIn(found[i])))]
  OBVIOUS
<1>4. /\ At(p, "importdir") /\ UNCHANGED <<fs, todo, mem, mishaps>>
      /\ Fail(p) \/ (Go(p, more) /\ UNCHANGED said)
  <2>1. DOMAIN [i \in DOMAIN found |-> Resolved(c, found[i], NameIn(found[i]))] = DOMAIN found
    OBVIOUS
  <2> QED BY <1>1, <1>2, <1>3, <2>1 DEF ImportDirectory
<1>5. "importdir" \notin Leaders /\ IsCommand(fs, c) /\ c.verb = "importdir"
  BY <1>4, CommandOf DEF Verbs
<1>6. IsSeq(c.src) /\ \A i \in DOMAIN c.src : IsPreset(c.src[i])
  BY <1>5, SourcesArePresets
<1>7. /\ Len(c.src) \in Nat /\ DOMAIN c.src = 1..Len(c.src)
      /\ \A i \in DOMAIN c.src : c.src[i] \in S
  BY <1>6, SeqFacts
<1> HIDE DEF S
<1>8. each \in Seq(Seq(S))
  <2>1. \A i \in DOMAIN c.src : each[i] \in Seq(S)
    <3>1. \A x \in S : <<x>> \in Seq(S)
      OBVIOUS
    <3>2. <<>> \in Seq(S)
      OBVIOUS
    <3> QED BY <1>1, <1>7, <3>1, <3>2
  <2>2. DOMAIN each = 1..Len(c.src)
    BY <1>1, <1>7
  <2>3. each = [i \in 1..Len(c.src) |-> each[i]]
    BY <1>1, <1>7
  <2>4. each \in [1..Len(c.src) -> Seq(S)]
    BY <1>7, <2>1, <2>2, <2>3
  <2> QED BY <1>7, <2>4, SeqDef
<1>9. found \in Seq(S)
  BY <1>2, <1>8, FlattenSeqType
<1>10. Len(found) \in Nat /\ DOMAIN found = 1..Len(found) /\ \A i \in DOMAIN found : IsPreset(found[i])
  <2>1. Len(found) \in Nat /\ DOMAIN found = 1..Len(found) /\ \A i \in DOMAIN found : found[i] \in S
    BY <1>9, LenProperties, ElementOfSeq
  <2> QED BY <2>1 DEF S
<1>11. PlainSteps(fs, of, more)
  <2>1. DOMAIN more = 1..Len(found) /\ more = [i \in 1..Len(found) |-> more[i]]
    BY <1>3, <1>10
  <2>2. ASSUME NEW i \in 1..Len(found)
        PROVE  StepOK(fs, of, more[i]) /\ more[i].op \notin Leaders \cup Followers
    <3>1. PICK r : r = Resolved(c, found[i], NameIn(found[i]))
      OBVIOUS
    <3>2. IsPlacing(r)
      BY <1>10, <3>1, PlacedIsPlacing DEF Resolved
    <3>3. more[i] = PlacingStep(r)
      BY <1>3, <1>10, <3>1
    <3> QED BY <3>2, <3>3, PlacingIsPlain
  <2> QED BY <1>10, <2>1, <2>2, PlainMap
<1>12. Fail(p) \/ (Go(p, more) /\ SaidStep(p))
  BY <1>4 DEF SaidStep
<1> QED BY <1>4, <1>5, <1>11, <1>12, StillDone

LEMMA ForkHolds ==
  ASSUME NEW of, Holds(of), NEW p \in Procs, Fork(p)
  PROVE  Holds(of)' /\ Settles(p)
<1> DEFINE c == Item(p)
<1>1. PICK id, key, desc, r :
          /\ r = [Placing("forked", c.src[1], None, id, key, desc) EXCEPT !.from = c.src[1][2]]
          /\ Fail(p) \/ (Go(p, <<PlacingStep(r)>>) /\ UNCHANGED said)
  BY DEF Fork
<1>2. At(p, "fork") /\ UNCHANGED <<fs, todo, mem, mishaps>>
  BY DEF Fork
<1>3. "fork" \notin Leaders /\ IsCommand(fs, c) /\ c.verb = "fork"
  BY <1>2, CommandOf DEF Verbs
<1>4. IsPreset(c.src[1])
  BY <1>3, SourcesArePresets
<1>5. IsPlacing(r)
  <2>1. PICK b : b = Placing("forked", c.src[1], None, id, key, desc)
    OBVIOUS
  <2>2. /\ r = [b EXCEPT !.from = c.src[1][2]]
        /\ b = [how |-> b.how, src |-> b.src, old |-> b.old, id |-> b.id, key |-> b.key,
                name |-> b.name, slug |-> b.slug, desc |-> b.desc, from |-> b.from]
    BY <1>1, <2>1 DEF Placing
  <2>3. IsPlacing(b)
    BY <1>4, <2>1, PlacedIsPlacing
  <2>4. r = [how |-> b.how, src |-> b.src, old |-> b.old, id |-> b.id, key |-> b.key,
             name |-> b.name, slug |-> b.slug, desc |-> b.desc, from |-> c.src[1][2]]
    BY <2>2
  <2> QED BY <2>3, <2>4 DEF IsPlacing
<1> QED BY <1>1, <1>2, <1>3, <1>5, PlaceDone

LEMMA GenerateHolds ==
  ASSUME NEW of, Holds(of), NEW p \in Procs, Generate(p)
  PROVE  Holds(of)'
<1> DEFINE c == Item(p)
<1>1. PICK r, m, more, x, new :
          /\ r = Placing("generated", None, None, c.id, KeyOf(c.guitar), None)
          /\ m = Extended(ReadOr(Meta(r.id.words), None), r)
          /\ more = SaveSteps(r, m) \o Steps(<<"tell">>, r)
          /\ x = Tone(r.slug) /\ new = NewTone(c, r.name)
          /\ \/ Fail(p) /\ UNCHANGED fs
             \/ WriteHsp(p, x, new, r, more) /\ UNCHANGED said
  <2>1. PICK r : r = Placing("generated", None, None, c.id, KeyOf(c.guitar), None)
    OBVIOUS
  <2>2. r.id = c.id
    BY <2>1 DEF Placing
  <2>3. PICK m : m = Extended(ReadOr(Meta(r.id.words), None), r)
    OBVIOUS
  <2>4. m = Extended(ReadOr(Meta(c.id.words), None), r)
    BY <2>2, <2>3
  <2> QED BY <2>1, <2>3, <2>4 DEF Generate
<1>2. At(p, "generate") /\ UNCHANGED <<todo, mem, mishaps>>
  BY DEF Generate
<1>3. "generate" \notin Leaders /\ HasMetadata(fs)
  BY <1>2, CommandOf DEF Verbs
<1>4. IsMeta(m)
  <2>1. r.slug = WithKey(r.id.words, r.key)
    BY <1>1 DEF Placing, VariantSlug
  <2> QED BY <1>1, <1>3, <2>1, ExtendedIsMeta
<1>5. PlainSteps(fs, of, more)
  <2>1. PICK t, u : t = SaveSteps(r, m) /\ u = Steps(<<"tell">>, r)
    OBVIOUS
  <2>2. PlainSteps(fs, of, t) /\ PlainSteps(fs, of, u)
    BY <1>4, <2>1, SaveIsPlain, PlainBare DEF BareOps
  <2>3. PlainSteps(fs, of, t \o u)
    BY <2>2, PlainConcat
  <2> QED BY <1>1, <2>1, <2>3
<1>6. IsPreset(x)
  BY <1>1 DEF IsPreset, Tone
<1>7. CASE Fail(p) /\ UNCHANGED fs
  BY <1>2, <1>3, <1>7, PlainTuples, StillDone
<1>8. CASE WriteHsp(p, x, new, r, more) /\ UNCHANGED said
  <2>1. SaidStep(p)
    BY <1>8 DEF SaidStep
  <2> QED BY <1>2, <1>3, <1>5, <1>6, <1>8, <2>1, HspDone
<1> QED BY <1>1, <1>7, <1>8

LEMMA GenerateToHolds ==
  ASSUME NEW of, Holds(of), NEW p \in Procs, GenerateTo(p)
  PROVE  Holds(of)'
<1> DEFINE c == Item(p)
           x == c.src[1]
           b == [op |-> "autoregister", r |-> c]
<1>1. PICK new, d, more :
          /\ more = <<b>>
          /\ d = [new EXCEPT !.body = ApplyPreference(@, Taps)]
          /\ \/ Fail(p) /\ UNCHANGED fs
             \/ WriteBytes(p, x, d, c, more) /\ UNCHANGED said
  <2>1. PICK new : new = NewTone(c, [words |-> c.id.words, style |-> "plain"])
    OBVIOUS
  <2>2. PICK more : more = Steps(<<"autoregister">>, c)
    OBVIOUS
  <2>3. more = <<b>>
    BY <2>2 DEF Steps
  <2>4. \/ Fail(p) /\ UNCHANGED fs
        \/ WriteHsp(p, x, new, c, more) /\ UNCHANGED said
    BY <2>1, <2>2 DEF GenerateTo
  <2> QED BY <2>3, <2>4 DEF WriteHsp
<1>2. At(p, "generateto") /\ UNCHANGED <<todo, mem, mishaps>>
  BY DEF GenerateTo
<1>3. "generateto" \notin Leaders /\ IsCommand(fs, c) /\ c.verb = "generateto"
  BY <1>2, CommandOf DEF Verbs
<1>4. IsPreset(x)
  BY <1>3 DEF IsCommand, IsPreset
<1>5. CASE Fail(p) /\ UNCHANGED fs
  BY <1>2, <1>3, <1>5, PlainTuples, StillDone
<1>6. CASE WriteBytes(p, x, d, c, more) /\ UNCHANGED said
  <2> DEFINE w == [op |-> "write", r |-> c, at |-> x, c |-> d]
  <2>1. StepOK(fs, of, b) /\ b.op \notin Leaders /\ Linked(w, b)
    BY DEF StepOK, Verbs, PlacingOps, BindingOps, Leaders, Followers, Linked
  <2> HIDE DEF b, w
  <2>2. TaskOK(fs, of, <<b>>) /\ Head(<<b>>) = b
    <3>1. <<b>> \in Seq({b}) /\ DOMAIN <<b>> = {1} /\ <<b>>[1] = b /\ Len(<<b>>) = 1 /\ 2..1 = {} /\ Head(<<b>>) = b
      OBVIOUS
    <3>2. IsSeq(<<b>>)
      BY ONLY <3>1, IsSeqOf
    <3> QED BY <2>1, <3>1, <3>2 DEF TaskOK
  <2>3. TaskOK(fs, of, more) /\ Linked(w, Head(more))
    BY <1>1, <2>1, <2>2
  <2>4. SaidStep(p) /\ RestStep(p, of) /\ mishaps' \in 0..Mishaps
    BY <1>2, <1>6, RestSame DEF SaidStep, Holds, TypedInv
  <2> QED BY <1>2, <1>3, <1>4, <1>6, <2>3, <2>4, WriteDone DEF w
<1> QED BY <1>1, <1>5, <1>6

LEMMA AutoRegisterHolds ==
  ASSUME NEW of, Holds(of), NEW p \in Procs, AutoRegister(p)
  PROVE  Holds(of)'
<1> DEFINE c == Item(p)
           x == Tone(c.src[1][2])
<1>1. /\ At(p, "autoregister") /\ UNCHANGED <<todo, mem, said, mishaps>>
      /\ \/ Go(p, <<>>) /\ UNCHANGED fs
         \/ WriteBytes(p, x, fs[c.src[1]], c, <<>>)
  BY DEF AutoRegister
<1>2. "autoregister" \notin Leaders /\ IsPreset(x)
  BY DEF Leaders, IsPreset, Tone
<1>3. SaidStep(p) /\ RestStep(p, of) /\ mishaps' \in 0..Mishaps
  BY <1>1, RestSame DEF SaidStep, Holds, TypedInv
<1>4. TaskOK(fs, of, <<>>)
  BY PlainTuples, PlainTask
<1>5. CASE Go(p, <<>>) /\ UNCHANGED fs
  BY <1>1, <1>2, <1>3, <1>5, PlainTuples, StillDone
<1>6. CASE WriteBytes(p, x, fs[c.src[1]], c, <<>>)
  <2> HIDE DEF x, c
  <2> QED BY <1>1, <1>2, <1>3, <1>4, <1>6, WriteDone
<1> QED BY <1>1, <1>5, <1>6

LEMMA AnnotateHolds ==
  ASSUME NEW of, Holds(of), NEW p \in Procs, Annotate(p)
  PROVE  Holds(of)' /\ Settles(p)
<1> DEFINE c == Item(p)
           x == Meta(c.words)
<1>1. PICK m : m = Annotated(fs[x], c)
  OBVIOUS
<1>2. /\ At(p, "annotate") /\ UNCHANGED <<fs, todo, mem, mishaps>>
      /\ \/ Fail(p)
         \/ Saved(p, m) /\ Exists(x) /\ (c.what = "notes" => c.key \in DOMAIN fs[x].variants)
  BY <1>1 DEF Annotate
<1>3. "annotate" \notin Leaders /\ IsCommand(fs, c) /\ c.verb = "annotate" /\ HasMetadata(fs)
  BY <1>2, CommandOf DEF Verbs
<1>4. CASE Fail(p)
  BY <1>2, <1>3, <1>4, SaveDone
<1>5. CASE Saved(p, m) /\ Exists(x) /\ (c.what = "notes" => c.key \in DOMAIN fs[x].variants)
  <2>1. IsMeta(fs[x])
    <3>1. x[1] = "meta"
      BY DEF Meta
    <3> QED BY <1>3, <1>5, <3>1 DEF HasMetadata, Exists
  <2>2. c.what \in {"tag", "doc", "notes"}
    BY <1>3 DEF IsCommand
  <2>3. PICK old : old = fs[x]
    OBVIOUS
  <2>4. CASE c.what = "tag"
    <3>1. PICK t : m = [old EXCEPT !.tags = t]
      BY <1>1, <2>3, <2>4 DEF Annotated
    <3> QED BY <1>2, <1>3, <1>5, <2>1, <2>3, <3>1, MetaChanged, SaveDone
  <2>5. CASE c.what = "doc"
    <3>1. PICK t : m = [old EXCEPT !.desc = t]
      BY <1>1, <2>3, <2>5 DEF Annotated
    <3> QED BY <1>2, <1>3, <1>5, <2>1, <2>3, <3>1, MetaChanged, SaveDone
  <2>6. CASE c.what = "notes"
    <3>1. PICK k, n : k = c.key /\ m = [old EXCEPT !.variants[k].notes = n]
      BY <1>1, <2>3, <2>6 DEF Annotated
    <3>2. k \in DOMAIN old.variants
      BY <1>5, <2>3, <2>6, <3>1
    <3>3. IsMeta(m)
      BY <2>1, <2>3, <3>1, <3>2, MetaChanged
    <3> QED BY <1>2, <1>3, <1>5, <3>3, SaveDone
  <2> QED BY <2>2, <2>4, <2>5, <2>6
<1> QED BY <1>2, <1>4, <1>5

LEMMA ProfileChanges ==
  ASSUME NEW of, Holds(of), NEW g, SaveProfile(g)
  PROVE  \E X : Changes(fs, fs', X) /\ \A p : Quiet(p, X)
<1> DEFINE x == Guitar(g)
<1>1. x[1] \in FileKinds /\ \A p : Quiet(p, {x})
  BY DEF Guitar, FileKinds, Quiet, QuietKinds
<1>2. Put(x, TRUE)
  BY DEF SaveProfile
<1> HIDE DEF x
<1> QED BY <1>1, <1>2, PutChanges

LEMMA AddGuitarHolds ==
  ASSUME NEW of, Holds(of), NEW p \in Procs, AddGuitar(p)
  PROVE  Holds(of)' /\ Settles(p)
<1>1. /\ At(p, "addguitar") /\ UNCHANGED <<todo, mem, mishaps>>
      /\ \/ Fail(p) /\ UNCHANGED fs
         \/ SaveProfile(Item(p).guitar) /\ Go(p, <<>>) /\ UNCHANGED said
  BY DEF AddGuitar
<1>2. "addguitar" \notin Leaders /\ RestStep(p, of) /\ mishaps' \in 0..Mishaps
  BY <1>1, CommandOf, RestSame DEF Verbs, Holds, TypedInv
<1>3. CASE Fail(p) /\ UNCHANGED fs
  BY <1>1, <1>2, <1>3, PlainTuples, StillDone
<1>4. CASE SaveProfile(Item(p).guitar) /\ Go(p, <<>>) /\ UNCHANGED said
  <2>1. PICK X : Changes(fs, fs', X) /\ \A q : Quiet(q, X)
    BY <1>4, ProfileChanges
  <2>2. SaidStep(p)
    BY <1>4 DEF SaidStep
  <2> QED BY <1>1, <1>2, <1>4, <2>1, <2>2, PlainTuples, PlainDone
<1> QED BY <1>1, <1>3, <1>4
-----------------------------------------------------------------------------
(* The commands that edit presets.                                         *)

\* A sequence with one step for each member of a sequence of paths.
LEMMA PlainEach ==
  ASSUME NEW f, NEW of, NEW files, IsSeq(files), NEW r, NEW op \in {"tap", "trim", "record"},
         \A i \in DOMAIN files : IsPreset(files[i])
  PROVE  PlainSteps(f, of, [i \in DOMAIN files |-> [op |-> op, r |-> r, at |-> files[i]]])
<1>1. PICK t : t = [i \in DOMAIN files |-> [op |-> op, r |-> r, at |-> files[i]]]
  OBVIOUS
<1>2. Len(files) \in Nat /\ DOMAIN files = 1..Len(files)
  BY SeqFacts
<1>3. DOMAIN t = 1..Len(files) /\ t = [i \in 1..Len(files) |-> t[i]]
  BY <1>1, <1>2
<1>4. ASSUME NEW i \in 1..Len(files)
      PROVE  StepOK(f, of, t[i]) /\ t[i].op \notin Leaders \cup Followers
  <2>1. t[i] = [op |-> op, r |-> r, at |-> files[i]]
    BY <1>1, <1>2
  <2> QED BY <1>2, <2>1 DEF StepOK, Verbs, PlacingOps, BindingOps, Leaders, Followers
<1>5. PlainSteps(f, of, t)
  BY <1>2, <1>3, <1>4, PlainMap
<1> QED BY <1>1, <1>5

\* A command that rewrites one preset, or nothing.
LEMMA RewriteDone ==
  ASSUME NEW of, Holds(of), NEW p \in Procs, NEW op, At(p, op), op \notin Leaders,
         NEW x, IsPreset(x), NEW c,
         \/ Fail(p) /\ UNCHANGED fs
         \/ Go(p, <<>>) /\ UNCHANGED <<fs, said>>
         \/ WriteHsp(p, x, c, Item(p), <<>>) /\ UNCHANGED said,
         UNCHANGED <<todo, mem, mishaps>>
  PROVE  Holds(of)'
<1>1. PlainSteps(fs, of, <<>>)
  BY PlainTuples
<1>2. CASE (Fail(p) \/ (Go(p, <<>>) /\ UNCHANGED said)) /\ UNCHANGED fs
  <2>1. Fail(p) \/ (Go(p, <<>>) /\ SaidStep(p))
    BY <1>2 DEF SaidStep
  <2> QED BY <1>1, <1>2, <2>1, StillDone
<1>3. CASE WriteHsp(p, x, c, Item(p), <<>>) /\ UNCHANGED said
  <2>1. SaidStep(p)
    BY <1>3 DEF SaidStep
  <2> QED BY <1>1, <1>3, <2>1, HspDone
<1> QED BY <1>2, <1>3

LEMMA EditDone ==
  ASSUME NEW of, Holds(of), NEW p \in Procs, NEW op \in {"edit", "patch"}, At(p, op),
         NEW ops, EditInPlace(p, ops), UNCHANGED <<todo, mem, mishaps>>
  PROVE  Holds(of)'
<1> DEFINE x == Item(p).at
<1>1. PICK c : \/ Fail(p) /\ UNCHANGED fs
               \/ WriteHsp(p, x, c, Item(p), <<>>) /\ UNCHANGED said
  BY DEF EditInPlace
<1>2. op \notin Leaders /\ IsCommand(fs, Item(p)) /\ Item(p).verb = op
  BY CommandOf DEF Verbs
<1>3. IsPreset(x)
  BY <1>2 DEF IsCommand
<1> QED BY <1>1, <1>2, <1>3, RewriteDone

LEMMA EditHolds ==
  ASSUME NEW of, Holds(of), NEW p \in Procs, Edit(p)
  PROVE  Holds(of)'
<1>1. PICK o : EditInPlace(p, <<o>>)
  BY DEF Edit
<1>2. At(p, "edit") /\ UNCHANGED <<todo, mem, mishaps>>
  BY DEF Edit
<1> QED BY <1>1, <1>2, EditDone

LEMMA PatchHolds ==
  ASSUME NEW of, Holds(of), NEW p \in Procs, Patch(p)
  PROVE  Holds(of)'
BY EditDone DEF Patch

LEMMA UsbTapsCmdHolds ==
  ASSUME NEW of, Holds(of), NEW p \in Procs, UsbTapsCmd(p)
  PROVE  Holds(of)' /\ Settles(p)
<1> DEFINE S == {x \in DOMAIN fs : x[1] = "tone"}
<1>1. PICK files : files = SetToSeq(S)
  OBVIOUS
<1>2. PICK more : more = [i \in DOMAIN files |-> [op |-> "tap", r |-> Item(p), at |-> files[i]]]
  OBVIOUS
<1>3. /\ At(p, "usbtaps") /\ UNCHANGED <<fs, todo, mem, mishaps>>
      /\ Fail(p) \/ (Go(p, more) /\ UNCHANGED said)
  BY <1>1, <1>2 DEF UsbTapsCmd
<1>4. files \in Seq(S) /\ ToSet(files) \subseteq S
  <2>1. IsFiniteSet(S)
    <3>1. IsFiniteSet(DOMAIN fs)
      BY DEF Holds, HomeInv, IsSetUp
    <3> QED BY <3>1, FS_Subset
  <2> QED BY <1>1, <2>1, SetToSeqOps
<1>5. IsSeq(files) /\ \A i \in DOMAIN files : IsPreset(files[i])
  <2>1. IsSeq(files)
    BY <1>4, IsSeqOf
  <2> QED BY <1>4, <2>1, SeqFacts DEF IsPreset
<1>6. PlainSteps(fs, of, more)
  BY <1>2, <1>5, PlainEach
<1>7. "usbtaps" \notin Leaders /\ (Fail(p) \/ (Go(p, more) /\ SaidStep(p)))
  BY <1>3 DEF Leaders, SaidStep
<1> QED BY <1>3, <1>6, <1>7, StillDone

LEMMA TapOneHolds ==
  ASSUME NEW of, Holds(of), NEW p \in Procs, TapOne(p)
  PROVE  Holds(of)'
<1> DEFINE x == Step(p).at
<1>1. PICK c : /\ UNCHANGED said
               /\ (Go(p, <<>>) /\ UNCHANGED fs) \/ WriteHsp(p, x, c, Item(p), <<>>)
  BY DEF TapOne
<1>2. At(p, "tap") /\ UNCHANGED <<todo, mem, mishaps>> /\ "tap" \notin Leaders
  BY DEF TapOne, Leaders
<1>3. IsPreset(x)
  BY <1>2, Acting DEF StepOK, At, Step
<1> QED BY <1>1, <1>2, <1>3, RewriteDone

LEMMA NormalizeHolds ==
  ASSUME NEW of, Holds(of), NEW p \in Procs, Normalize(p)
  PROVE  Holds(of)' /\ Settles(p)
<1> DEFINE c == Item(p)
<1>1. PICK t, u, more :
          /\ t = [i \in DOMAIN c.files |-> [op |-> "trim", r |-> c, at |-> c.files[i]]]
          /\ u = [i \in DOMAIN c.files |-> [op |-> "record", r |-> c, at |-> c.files[i]]]
          /\ more = t \o u
  OBVIOUS
<1>2. At(p, "normalize") /\ Go(p, more) /\ UNCHANGED <<fs, todo, mem, said, mishaps>>
  BY <1>1 DEF Normalize
<1>3. "normalize" \notin Leaders /\ IsCommand(fs, c) /\ c.verb = "normalize"
  BY <1>2, CommandOf DEF Verbs
<1>4. IsSeq(c.files) /\ \A i \in DOMAIN c.files : IsPreset(c.files[i])
  BY <1>3 DEF IsCommand
<1>5. PlainSteps(fs, of, t) /\ PlainSteps(fs, of, u)
  BY <1>1, <1>4, PlainEach
<1>6. PlainSteps(fs, of, more)
  BY <1>1, <1>5, PlainConcat
<1> QED BY <1>2, <1>3, <1>6, StillDone DEF SaidStep

LEMMA TrimHolds ==
  ASSUME NEW of, Holds(of), NEW p \in Procs, Trim(p)
  PROVE  Holds(of)'
<1> DEFINE x == Step(p).at
<1>1. PICK c : \/ Fail(p) /\ UNCHANGED fs
               \/ WriteHsp(p, x, c, Item(p), <<>>) /\ UNCHANGED said
  BY DEF Trim
<1>2. At(p, "trim") /\ UNCHANGED <<todo, mem, mishaps>> /\ "trim" \notin Leaders
  BY DEF Trim, Leaders
<1>3. IsPreset(x)
  BY <1>2, Acting DEF StepOK, At, Step
<1> QED BY <1>1, <1>2, <1>3, RewriteDone

LEMMA NormalizeRecordHolds ==
  ASSUME NEW of, Holds(of), NEW p \in Procs, NormalizeRecord(p)
  PROVE  Holds(of)' /\ Settles(p)
<1> DEFINE S == VariantsOf(Step(p).at)
<1>1. PICK v : v = CHOOSE w \in S : TRUE
  OBVIOUS
<1>2. PICK m : m = [fs[v[1]] EXCEPT !.variants[v[2]].notes = "normalized"]
  OBVIOUS
<1>3. PICK more : more = IF S = {} THEN <<>> ELSE SaveSteps(Item(p), m)
  OBVIOUS
<1>4. At(p, "record") /\ Go(p, more) /\ UNCHANGED <<fs, todo, mem, said, mishaps>> /\ "record" \notin Leaders
  BY <1>1, <1>2, <1>3 DEF NormalizeRecord, Leaders
<1>5. S # {} => IsMeta(m)
  <2> SUFFICES ASSUME S # {} PROVE IsMeta(m)
    OBVIOUS
  <2>1. v \in S
    BY <1>1
  <2>2. PICK x, k : v = <<x, k>> /\ x \in DOMAIN fs /\ x[1] = "meta" /\ k \in DOMAIN fs[x].variants
    BY <2>1 DEF VariantsOf
  <2>3. HasMetadata(fs)
    BY DEF Holds, HomeInv
  <2>4. PICK old : old = fs[x]
    OBVIOUS
  <2>5. IsMeta(old) /\ k \in DOMAIN old.variants
    BY <2>2, <2>3, <2>4 DEF HasMetadata
  <2>6. m = [old EXCEPT !.variants[k].notes = "normalized"]
    BY <1>2, <2>2, <2>4
  <2> QED BY <2>5, <2>6, MetaChanged
<1>6. PlainSteps(fs, of, more)
  BY <1>3, <1>5, SaveIsPlain, PlainTuples
<1> QED BY <1>4, <1>6, StillDone DEF SaidStep
-----------------------------------------------------------------------------
(* The IRs: what a command has of the mapping in memory.                   *)

LEMMA UsersWav ==
  ASSUME NEW f, NEW of, WavsAre(f, of), NEW x \in DOMAIN f, x[1] = "ext"
  PROVE  Names(f, of, x, f[x]) /\ f[x] = of[x]
<1>1. x \in Audio(f)
  BY DEF Audio
<1>2. of[x] \in Hashes /\ f[x] = of[x]
  BY <1>1 DEF WavsAre
<1> QED BY <1>2 DEF Names

LEMMA LoadedOK ==
  ASSUME NEW of, Holds(of)
  PROVE  MemOK(fs, of, LoadMapping)
<1>1. \A x \in {Mapping, LegacyMapping} \cap DOMAIN fs : Maps(fs, of, fs[x])
  BY DEF Holds, HomeInv, IsSetUp
<1>2. Maps(fs, of, <<>>)
  BY DEF Maps
<1>3. Maps(fs, of, LoadMapping.of)
  BY <1>1, <1>2 DEF LoadMapping, ReadOr, Exists
<1>4. PICK b, d, o : LoadMapping = [of |-> b, dirty |-> d, old |-> o]
  BY DEF LoadMapping
<1> QED BY <1>3, <1>4 DEF MemOK

\* A command's mapping becomes m.
LEMMA MemStep ==
  ASSUME NEW of, Holds(of), NEW p \in Procs, NEW m, MemOK(fs, of, m),
         mem' = [mem EXCEPT ![p] = m], UNCHANGED todo
  PROVE  RestStep(p, of)
<1>1. todo = [q \in Procs |-> todo[q]] /\ mem = [q \in Procs |-> mem[q]] /\ TodoOK(fs, todo[p])
  BY DEF Holds, TypedInv, HomeInv
<1>2. mem'[p] = m
  BY <1>1
<1> QED BY <1>1, <1>2 DEF RestStep

LEMMA LoadStep ==
  ASSUME NEW of, Holds(of), NEW p \in Procs, Load(p), UNCHANGED todo
  PROVE  RestStep(p, of)
BY LoadedOK, MemStep DEF Load

LEMMA BindStep ==
  ASSUME NEW of, Holds(of), NEW p \in Procs, NEW x, NEW h, Names(fs, of, x, h), Bind(p, h, x), UNCHANGED todo
  PROVE  RestStep(p, of)
<1>1. mem = [q \in Procs |-> mem[q]] /\ MemOK(fs, of, mem[p])
  BY DEF Holds, TypedInv, HomeInv
<1>2. PICK b, d, o : mem[p] = [of |-> b, dirty |-> d, old |-> o]
  BY <1>1 DEF MemOK
<1>3. PICK new : new = Updated(b, h, x)
  OBVIOUS
<1>4. mem' = [mem EXCEPT ![p] = [of |-> new, dirty |-> TRUE, old |-> o]]
  <2>1. PICK yes : yes = TRUE
    OBVIOUS
  <2>2. PICK m : m = [mem[p] EXCEPT !.of = Updated(mem[p].of, h, x)]
    OBVIOUS
  <2>3. m = [of |-> new, dirty |-> d, old |-> o]
    BY <1>2, <1>3, <2>2
  <2>4. PICK mm : mm = [mem EXCEPT ![p] = m]
    OBVIOUS
  <2>5. mem' = [mm EXCEPT ![p] = [mm[p] EXCEPT !.dirty = yes]]
    BY <2>1, <2>2, <2>4 DEF Bind
  <2>6. mm = [q \in Procs |-> mm[q]] /\ mm[p] = m /\ \A q \in Procs : q # p => mm[q] = mem[q]
    BY <1>1, <2>4
  <2>7. [m EXCEPT !.dirty = yes] = [of |-> new, dirty |-> yes, old |-> o]
    BY <2>3
  <2>8. PICK v : v = [of |-> new, dirty |-> yes, old |-> o]
    OBVIOUS
  <2>9. mem' = [mm EXCEPT ![p] = v]
    BY <2>5, <2>6, <2>7, <2>8
  <2>10. mem' = [q \in Procs |-> IF q = p THEN v ELSE mm[q]]
    BY <2>6, <2>9
  <2>11. [mem EXCEPT ![p] = v] = [q \in Procs |-> IF q = p THEN v ELSE mem[q]]
    BY <1>1
  <2> QED BY <2>1, <2>6, <2>8, <2>10, <2>11
<1>5. Maps(fs, of, new)
  <2>1. DOMAIN new = DOMAIN b \cup {h} /\ new[h] = x /\ \A k \in DOMAIN b : k # h => new[k] = b[k]
    BY <1>3 DEF Updated
  <2>2. Maps(fs, of, b)
    BY <1>1, <1>2 DEF MemOK
  <2> QED BY <2>1, <2>2 DEF Maps
<1>6. MemOK(fs, of, [of |-> new, dirty |-> TRUE, old |-> o])
  BY <1>5 DEF MemOK
<1> QED BY <1>4, <1>6, MemStep

\* A step that leaves the files as they are.
LEMMA MemDone ==
  ASSUME NEW of, Holds(of), NEW p \in Procs, NEW op, At(p, op), op \notin Leaders,
         NEW more, PlainSteps(fs, of, more),
         Fail(p) \/ (Go(p, more) /\ SaidStep(p)),
         RestStep(p, of), UNCHANGED <<fs, mishaps>>
  PROVE  Holds(of)' /\ Settles(p)
<1>1. Changes(fs, fs', {}) /\ Quiet(p, {}) /\ mishaps' \in 0..Mishaps
  BY SameChanges DEF Quiet, Holds, TypedInv
<1> QED BY <1>1, PlainDone

\* What is pushed for one WAV.
LEMMA ImportingIsPlain ==
  ASSUME NEW f, NEW of, NEW w, NEW h, Names(f, of, w, h), NEW r
  PROVE  /\ StepOK(f, of, Binding(r, w, h)) /\ Binding(r, w, h).op \notin Leaders \cup Followers
         /\ w \in DOMAIN f => \A then \in {"register", "rebind"} :
                /\ StepOK(f, of, Importing(r, w, h, then))
                /\ Importing(r, w, h, then).op \notin Leaders \cup Followers
<1>1. StepOK(f, of, Binding(r, w, h)) /\ Binding(r, w, h).op \notin Leaders \cup Followers
  <2>1. PICK s : s = Binding(r, w, h)
    OBVIOUS
  <2>2. s.op = "register" /\ s.w = w /\ s.h = h
    BY <2>1 DEF Binding
  <2> QED BY <2>1, <2>2 DEF StepOK, Verbs, PlacingOps, BindingOps, Leaders, Followers
<1>2. ASSUME w \in DOMAIN f, NEW then \in {"register", "rebind"}
      PROVE  /\ StepOK(f, of, Importing(r, w, h, then))
             /\ Importing(r, w, h, then).op \notin Leaders \cup Followers
  <2>1. PICK s : s = Importing(r, w, h, then)
    OBVIOUS
  <2>2. s.op = "import_wav" /\ s.w = w /\ s.h = h /\ s.then = then
    BY <2>1 DEF Importing
  <2> QED BY <1>2, <2>1, <2>2 DEF StepOK, Verbs, PlacingOps, BindingOps, Leaders, Followers
<1> QED BY <1>1, <1>2

LEMMA PlainTo ==
  ASSUME NEW f, NEW of, NEW w, NEW h, Names(f, of, w, h), NEW r, NEW n \in Nat, NEW ops, DOMAIN ops = 1..n,
         \A i \in 1..n : ops[i] \in {"sidecar", "stub", "register", "rebind"}
  PROVE  PlainSteps(f, of, To(w, h, r, ops))
<1>1. PICK t : t = To(w, h, r, ops)
  OBVIOUS
<1>2. DOMAIN t = 1..n /\ t = [i \in 1..n |-> t[i]]
  BY <1>1 DEF To
<1>3. ASSUME NEW i \in 1..n
      PROVE  StepOK(f, of, t[i]) /\ t[i].op \notin Leaders \cup Followers
  <2>1. t[i] = [op |-> ops[i], r |-> r, w |-> w, h |-> h]
    BY <1>1 DEF To
  <2> QED BY <2>1 DEF StepOK, Verbs, PlacingOps, BindingOps, Leaders, Followers
<1>4. PlainSteps(f, of, t)
  BY <1>2, <1>3, PlainMap
<1> QED BY <1>1, <1>4

LEMMA RegisterIrsHolds ==
  ASSUME NEW of, Holds(of), NEW p \in Procs, RegisterIrs(p)
  PROVE  Holds(of)' /\ Settles(p)
<1> DEFINE c == Item(p)
           One(w) == IF c.copy THEN Importing(c, w, fs[w], "register") ELSE Binding(c, w, fs[w])
<1>1. PICK t, u, more : /\ t = [i \in DOMAIN c.wavs |-> One(c.wavs[i])]
                        /\ u = Steps(<<"irsave">>, c) /\ more = t \o u
  OBVIOUS
<1>2. At(p, "register_irs") /\ Load(p) /\ Go(p, more) /\ UNCHANGED <<fs, todo, said, mishaps>>
  BY <1>1 DEF RegisterIrs
<1>3. "register_irs" \notin Leaders /\ IsCommand(fs, c) /\ c.verb = "register_irs"
  BY <1>2, CommandOf DEF Verbs
<1>4. IsSeq(c.wavs) /\ \A i \in DOMAIN c.wavs : c.wavs[i] \in DOMAIN fs /\ c.wavs[i][1] = "ext"
  BY <1>3 DEF IsCommand
<1>5. Len(c.wavs) \in Nat /\ DOMAIN c.wavs = 1..Len(c.wavs)
  BY <1>4, SeqFacts
<1>6. PlainSteps(fs, of, t)
  <2>1. DOMAIN t = 1..Len(c.wavs) /\ t = [i \in 1..Len(c.wavs) |-> t[i]]
    BY <1>1, <1>5
  <2>2. ASSUME NEW i \in 1..Len(c.wavs)
        PROVE  StepOK(fs, of, t[i]) /\ t[i].op \notin Leaders \cup Followers
    <3>1. PICK w : w = c.wavs[i]
      OBVIOUS
    <3>2. w \in DOMAIN fs /\ Names(fs, of, w, fs[w])
      BY <1>4, <1>5, <3>1, UsersWav DEF Holds, HomeInv
    <3>3. t[i] = Importing(c, w, fs[w], "register") \/ t[i] = Binding(c, w, fs[w])
      BY <1>1, <1>5, <3>1
    <3> QED BY <3>2, <3>3, ImportingIsPlain
  <2> QED BY <1>5, <2>1, <2>2, PlainMap
<1>7. PlainSteps(fs, of, more)
  <2>1. PlainSteps(fs, of, u)
    BY <1>1, PlainBare DEF BareOps
  <2> QED BY <1>1, <1>6, <2>1, PlainConcat
<1>8. RestStep(p, of) /\ SaidStep(p)
  BY <1>2, LoadStep DEF SaidStep
<1> QED BY <1>2, <1>3, <1>7, <1>8, MemDone

LEMMA IrScanHolds ==
  ASSUME NEW of, Holds(of), NEW p \in Procs, IrScan(p)
  PROVE  Holds(of)' /\ Settles(p)
<1> DEFINE c == Item(p)
<1>1. PICK t, u, more :
          /\ t = [i \in DOMAIN c.wavs |-> [op |-> "scan", r |-> [w |-> c.wavs[i], force |-> c.force], copy |-> c.copy]]
          /\ u = Steps(<<"irsave">>, c) /\ more = t \o u
  OBVIOUS
<1>2. At(p, "ir_scan") /\ Load(p) /\ Go(p, more) /\ UNCHANGED <<fs, todo, said, mishaps>>
  BY <1>1 DEF IrScan
<1>3. "ir_scan" \notin Leaders /\ IsCommand(fs, c) /\ c.verb = "ir_scan"
  BY <1>2, CommandOf DEF Verbs
<1>4. IsSeq(c.wavs) /\ \A i \in DOMAIN c.wavs : c.wavs[i] \in DOMAIN fs /\ c.wavs[i][1] = "ext"
  BY <1>3 DEF IsCommand
<1>5. Len(c.wavs) \in Nat /\ DOMAIN c.wavs = 1..Len(c.wavs)
  BY <1>4, SeqFacts
<1>6. PlainSteps(fs, of, t)
  <2>1. DOMAIN t = 1..Len(c.wavs) /\ t = [i \in 1..Len(c.wavs) |-> t[i]]
    BY <1>1, <1>5
  <2>2. ASSUME NEW i \in 1..Len(c.wavs)
        PROVE  StepOK(fs, of, t[i]) /\ t[i].op \notin Leaders \cup Followers
    <3>1. t[i].op = "scan" /\ t[i].r.w = c.wavs[i]
      BY <1>1, <1>5
    <3> QED BY <1>4, <1>5, <3>1 DEF StepOK, Verbs, PlacingOps, BindingOps, Leaders, Followers
  <2> QED BY <1>5, <2>1, <2>2, PlainMap
<1>7. PlainSteps(fs, of, more)
  <2>1. PlainSteps(fs, of, u)
    BY <1>1, PlainBare DEF BareOps
  <2> QED BY <1>1, <1>6, <2>1, PlainConcat
<1>8. RestStep(p, of) /\ SaidStep(p)
  BY <1>2, LoadStep DEF SaidStep
<1> QED BY <1>2, <1>3, <1>7, <1>8, MemDone

LEMMA ScanOneHolds ==
  ASSUME NEW of, Holds(of), NEW p \in Procs, ScanOne(p)
  PROVE  Holds(of)' /\ Settles(p)
<1> DEFINE s == Step(p)
           w == s.r.w
<1>1. PICK a, b, more : /\ a = Importing(s.r, w, fs[w], "register") /\ b = Binding(s.r, w, fs[w])
                        /\ more \in {<<>>, <<a>>, <<b>>} /\ Go(p, more)
  BY DEF ScanOne
<1>2. At(p, "scan") /\ UNCHANGED <<fs, todo, mem, said, mishaps>> /\ "scan" \notin Leaders
  BY DEF ScanOne, Leaders
<1>3. w \in DOMAIN fs /\ w[1] = "ext" /\ WavsAre(fs, of)
  BY <1>2, Acting DEF StepOK, At, Step
<1>4. Names(fs, of, w, fs[w])
  BY <1>3, UsersWav
<1>5. PlainSteps(fs, of, more)
  BY <1>1, <1>3, <1>4, ImportingIsPlain, PlainTuples
<1> QED BY <1>1, <1>2, <1>5, StillDone DEF SaidStep

LEMMA ForgetHolds ==
  ASSUME NEW of, Holds(of), NEW p \in Procs, Forget(p)
  PROVE  Holds(of)' /\ Settles(p)
<1> DEFINE c == Item(p)
<1>1. PICK m, hits, new : /\ m = LoadMapping /\ hits = {h \in DOMAIN m.of : m.of[h][2][2] = c.base}
                          /\ new = [h \in DOMAIN m.of \ hits |-> m.of[h]]
  OBVIOUS
<1>2. /\ At(p, "forget") /\ UNCHANGED <<fs, todo, mishaps>>
      /\ \/ Fail(p) /\ UNCHANGED mem
         \/ mem' = [mem EXCEPT ![p] = [m EXCEPT !.of = new]] /\ Go(p, Steps(<<"irsave">>, c)) /\ UNCHANGED said
  BY <1>1 DEF Forget
<1>3. "forget" \notin Leaders
  BY DEF Leaders
<1>4. CASE Fail(p) /\ UNCHANGED mem
  BY <1>2, <1>3, <1>4, PlainTuples, StillDone
<1>5. CASE mem' = [mem EXCEPT ![p] = [m EXCEPT !.of = new]] /\ Go(p, Steps(<<"irsave">>, c)) /\ UNCHANGED said
  <2>1. MemOK(fs, of, m)
    BY <1>1, LoadedOK
  <2>2. PICK b, d, o : m = [of |-> b, dirty |-> d, old |-> o]
    BY <2>1 DEF MemOK
  <2>3. [m EXCEPT !.of = new] = [of |-> new, dirty |-> d, old |-> o]
    BY <2>2
  <2>4. MemOK(fs, of, [of |-> new, dirty |-> d, old |-> o])
    BY <1>1, <2>1, <2>2 DEF MemOK, Maps
  <2>5. RestStep(p, of)
    BY <1>2, <1>5, <2>3, <2>4, MemStep
  <2>6. PICK more : more = Steps(<<"irsave">>, c)
    OBVIOUS
  <2>7. PlainSteps(fs, of, more) /\ SaidStep(p)
    BY <1>5, <2>6, PlainBare DEF BareOps, SaidStep
  <2> QED BY <1>2, <1>3, <1>5, <2>5, <2>6, <2>7, MemDone
<1> QED BY <1>2, <1>4, <1>5

\* A set of hashes of the mapping, in some order.
LEMMA HashesInOrder ==
  ASSUME NEW f, NEW of, NEW m, Maps(f, of, m), NEW S, S \subseteq DOMAIN m, NEW hs, hs = SetToSeq(S)
  PROVE  IsSeq(hs) /\ \A i \in DOMAIN hs : hs[i] \in S
<1>1. S \subseteq Hashes
  BY DEF Maps, Names
<1>2. IsFiniteSet(S)
  BY <1>1, ShortOfAssumption, FS_Subset
<1>3. hs \in Seq(S) /\ ToSet(hs) \subseteq S
  BY <1>2, SetToSeqOps
<1>4. IsSeq(hs)
  BY <1>3, IsSeqOf
<1> QED BY <1>3, <1>4, SeqFacts

LEMMA BackfillHolds ==
  ASSUME NEW of, Holds(of), NEW p \in Procs, Backfill(p)
  PROVE  Holds(of)' /\ Settles(p)
<1> DEFINE S(m) == {h \in DOMAIN m.of : ~Complete(m.of[h]) /\ Exists(m.of[h])}
<1>1. PICK m : m = LoadMapping
  OBVIOUS
<1>2. PICK left : left = SetToSeq(S(m))
  OBVIOUS
<1>3. PICK t, u, more :
          /\ t = [i \in DOMAIN left |-> Importing([h |-> left[i]], m.of[left[i]], left[i], "rebind")]
          /\ u = Steps(<<"savedirty">>, Item(p)) /\ more = t \o u
  OBVIOUS
<1>4. At(p, "backfill") /\ Load(p) /\ Go(p, more) /\ UNCHANGED <<fs, todo, said, mishaps>>
  BY <1>1, <1>2, <1>3 DEF Backfill
<1>5. Maps(fs, of, m.of)
  BY <1>1, LoadedOK DEF MemOK
<1>6. IsSeq(left) /\ \A i \in DOMAIN left : left[i] \in S(m)
  <2>1. S(m) \subseteq DOMAIN m.of
    OBVIOUS
  <2> HIDE DEF S
  <2> QED BY <1>2, <1>5, <2>1, HashesInOrder
<1>7. Len(left) \in Nat /\ DOMAIN left = 1..Len(left)
  BY <1>6, SeqFacts
<1>8. PlainSteps(fs, of, t)
  <2>1. DOMAIN t = 1..Len(left) /\ t = [i \in 1..Len(left) |-> t[i]]
    BY <1>3, <1>7
  <2>2. ASSUME NEW i \in 1..Len(left)
        PROVE  StepOK(fs, of, t[i]) /\ t[i].op \notin Leaders \cup Followers
    <3>1. PICK h, w : h = left[i] /\ w = m.of[h]
      OBVIOUS
    <3>2. h \in DOMAIN m.of /\ w \in DOMAIN fs
      BY <1>6, <1>7, <3>1 DEF Exists
    <3>3. Names(fs, of, w, h)
      BY <1>5, <3>1, <3>2 DEF Maps
    <3>4. t[i] = Importing([h |-> h], w, h, "rebind")
      BY <1>3, <1>7, <3>1
    <3>5. PICK r : r = [h |-> h]
      OBVIOUS
    <3>6. t[i] = Importing(r, w, h, "rebind")
      BY <3>4, <3>5
    <3> QED BY <3>2, <3>3, <3>6, ImportingIsPlain
  <2> QED BY <1>7, <2>1, <2>2, PlainMap
<1>9. PlainSteps(fs, of, more)
  <2>1. PlainSteps(fs, of, u)
    BY <1>3, PlainBare DEF BareOps
  <2> QED BY <1>3, <1>8, <2>1, PlainConcat
<1>10. RestStep(p, of) /\ SaidStep(p) /\ "backfill" \notin Leaders
  BY <1>4, LoadStep DEF SaidStep, Leaders
<1> QED BY <1>4, <1>9, <1>10, MemDone

LEMMA SaveDirtyHolds ==
  ASSUME NEW of, Holds(of), NEW p \in Procs, SaveDirty(p)
  PROVE  Holds(of)' /\ Settles(p)
<1>1. PICK u, more : u = Steps(<<"irsave">>, Item(p)) /\ more \in {u, <<>>} /\ Go(p, more)
  BY DEF SaveDirty
<1>2. At(p, "savedirty") /\ UNCHANGED <<fs, todo, mem, said, mishaps>> /\ "savedirty" \notin Leaders
  BY DEF SaveDirty, Leaders
<1>3. PlainSteps(fs, of, more)
  BY <1>1, PlainBare, PlainTuples DEF BareOps
<1> QED BY <1>1, <1>2, <1>3, StillDone DEF SaidStep

LEMMA RegisterHolds ==
  ASSUME NEW of, Holds(of), NEW p \in Procs, Register(p)
  PROVE  Holds(of)' /\ Settles(p)
<1>1. /\ At(p, "register") /\ UNCHANGED <<fs, todo, mishaps>>
      /\ \/ Fail(p) /\ UNCHANGED mem
         \/ Bind(p, Step(p).h, Step(p).w) /\ Go(p, <<>>) /\ UNCHANGED said
  BY DEF Register
<1>2. Names(fs, of, Step(p).w, Step(p).h) /\ "register" \notin Leaders
  BY <1>1, Acting DEF StepOK, BindingOps, At, Step, Leaders
<1>3. RestStep(p, of)
  BY <1>1, <1>2, RestSame, BindStep
<1>4. Fail(p) \/ (Go(p, <<>>) /\ SaidStep(p))
  BY <1>1 DEF SaidStep
<1> QED BY <1>1, <1>2, <1>3, <1>4, PlainTuples, MemDone

LEMMA RebindHolds ==
  ASSUME NEW of, Holds(of), NEW p \in Procs, Rebind(p)
  PROVE  Holds(of)' /\ Settles(p)
<1>1. /\ At(p, "rebind") /\ UNCHANGED <<fs, todo, mishaps>>
      /\ Bind(p, Step(p).h, Step(p).w) /\ Go(p, <<>>) /\ UNCHANGED said
  BY DEF Rebind
<1>2. Names(fs, of, Step(p).w, Step(p).h) /\ "rebind" \notin Leaders
  BY <1>1, Acting DEF StepOK, BindingOps, At, Step, Leaders
<1>3. RestStep(p, of) /\ SaidStep(p)
  BY <1>1, <1>2, BindStep DEF SaidStep
<1> QED BY <1>1, <1>2, <1>3, PlainTuples, MemDone

LEMMA LoadForMigrationHolds ==
  ASSUME NEW of, Holds(of), NEW p \in Procs, LoadForMigration(p)
  PROVE  Holds(of)' /\ Settles(p)
<1>1. At(p, "irload") /\ Load(p) /\ Go(p, <<>>) /\ UNCHANGED <<fs, todo, said, mishaps>>
  BY DEF LoadForMigration
<1>2. RestStep(p, of) /\ SaidStep(p) /\ "irload" \notin Leaders
  BY <1>1, LoadStep DEF SaidStep, Leaders
<1> QED BY <1>1, <1>2, PlainTuples, MemDone

\* A sidecar is written next to a WAV.
LEMMA SidecarDone ==
  ASSUME NEW of, Holds(of), NEW p \in Procs, NEW op \in {"sidecar", "stub"}, At(p, op), Go(p, <<>>),
         NEW w, NEW c, UNCHANGED fs \/ Put(Sidecar(w), c), UNCHANGED <<todo, mem, said, mishaps>>
  PROVE  Holds(of)' /\ Settles(p)
<1> DEFINE x == Sidecar(w)
<1>1. op \notin Leaders /\ x[1] \in FileKinds /\ Quiet(p, {x})
  BY DEF Leaders, Sidecar, FileKinds, Quiet, QuietKinds
<1> HIDE DEF x
<1>2. Changes(fs, fs', {x})
  BY <1>1, PutChanges, SameChanges DEF x
<1>3. RestStep(p, of) /\ SaidStep(p) /\ mishaps' \in 0..Mishaps
  BY RestSame DEF SaidStep, Holds, TypedInv
<1> QED BY <1>1, <1>2, <1>3, PlainTuples, PlainDone

LEMMA WriteSidecarHolds ==
  ASSUME NEW of, Holds(of), NEW p \in Procs, WriteSidecar(p)
  PROVE  Holds(of)' /\ Settles(p)
<1>1. /\ At(p, "sidecar") /\ Go(p, <<>>) /\ UNCHANGED <<todo, mem, said, mishaps>>
      /\ UNCHANGED fs \/ Put(Sidecar(Step(p).w), Scaffold(Step(p).w, Step(p).h))
  BY DEF WriteSidecar, Put
<1> QED BY <1>1, SidecarDone

LEMMA WriteStubHolds ==
  ASSUME NEW of, Holds(of), NEW p \in Procs, WriteStub(p)
  PROVE  Holds(of)' /\ Settles(p)
BY SidecarDone DEF WriteStub
-----------------------------------------------------------------------------
(* The IRs: copying a WAV, and where to.                                   *)

\* The first byte of a copy, or all of it, is written to x; the copy is of h.
LEMMA WavWritten ==
  ASSUME NEW of, Holds(of), NEW x, x[1] = "wav", NEW h \in Hashes, NEW c \in {h, Torn}, Put(x, c),
         x \in DOMAIN fs => of[x] = h,
         x \notin DOMAIN fs /\ x[2][3] \in Hashes => x[2][3] = h,
         NEW og, og = Updated(of, x, h), NEW g, g = fs'
  PROVE  /\ og \in [Audio(g) -> Hashes] /\ AudioStays(fs, of, g, og)
         /\ WavsAre(g, og) /\ IsSetUp(g, og) /\ HasMetadata(g)
         /\ \A q, t : TmpReady(fs, q, t) => TmpReady(g, q, t)
         /\ Names(g, og, x, h)
<1>1. x[1] \in FileKinds
  BY DEF FileKinds
<1>2. Changes(fs, g, {x}) /\ DOMAIN g = DOMAIN fs \cup {x} /\ g[x] = c
  BY <1>1, PutChanges
<1>3. \A y \in DOMAIN fs : y # x => g[y] = fs[y]
  BY <1>2 DEF Changes
<1>4. of \in [Audio(fs) -> Hashes] /\ WavsAre(fs, of) /\ IsSetUp(fs, of) /\ HasMetadata(fs)
  BY DEF Holds, HomeInv
<1>5. Audio(g) = Audio(fs) \cup {x}
  BY <1>2 DEF Audio
<1>6. DOMAIN og = Audio(g) /\ og[x] = h /\ \A y \in Audio(fs) : y # x => og[y] = of[y]
  BY <1>4, <1>5 DEF Updated
<1>7. og \in [Audio(g) -> Hashes]
  BY <1>4, <1>5 DEF Updated
<1>8. AudioStays(fs, of, g, og)
  BY <1>2, <1>6 DEF AudioStays, AudioKinds, Audio
<1>9. WavsAre(g, og)
  <2>1. ASSUME NEW y \in Audio(g)
        PROVE  /\ og[y] \in Hashes
               /\ g[y] = og[y] \/ (y[1] = "wav" /\ g[y] = Torn)
               /\ y[1] = "wav" /\ y[2][3] \in Hashes => og[y] = y[2][3]
    <3>1. CASE y = x
      <4>1. x \in DOMAIN fs => x \in Audio(fs)
        BY DEF Audio
      <4> QED BY <1>2, <1>4, <1>6, <3>1, <4>1 DEF WavsAre
    <3>2. CASE y # x
      <4>1. y \in Audio(fs) /\ y \in DOMAIN fs
        BY <1>5, <3>2 DEF Audio
      <4> QED BY <1>3, <1>4, <1>6, <3>2, <4>1 DEF WavsAre
    <3> QED BY <3>1, <3>2
  <2> QED BY <2>1 DEF WavsAre
<1>10. \A y : y[1] # "wav" => (y \in DOMAIN g <=> y \in DOMAIN fs) /\ (y \in DOMAIN fs => g[y] = fs[y])
  BY <1>2, <1>3
<1>11. IsSetUp(g, og)
  <2>1. \A y \in {Prefs, Manifest, PlanFile, Mapping, LegacyMapping} :
            (y \in DOMAIN g <=> y \in DOMAIN fs) /\ (y \in DOMAIN fs => g[y] = fs[y])
    BY <1>10 DEF Prefs, Manifest, PlanFile, Mapping, LegacyMapping
  <2>2. PlanFile \in DOMAIN g => IsPlan(g, og, g[PlanFile])
    BY <1>4, <1>8, <2>1, NamesStay DEF IsSetUp
  <2>3. \A y \in {Mapping, LegacyMapping} \cap DOMAIN g : Maps(g, og, g[y])
    BY <1>4, <1>8, <2>1, NamesStay DEF IsSetUp
  <2>4. Prefs \in DOMAIN g /\ g[Prefs] = fs[Prefs]
    BY <1>4, <2>1 DEF IsSetUp
  <2>5. Manifest \in DOMAIN g => Manifest \in DOMAIN fs /\ g[Manifest] = fs[Manifest]
    BY <2>1
  <2>6. IsFiniteSet(DOMAIN g) /\ \A y \in DOMAIN g : y[1] \in FileKinds
    BY <1>2 DEF Changes
  <2> QED BY <1>4, <2>2, <2>3, <2>4, <2>5, <2>6 DEF IsSetUp
<1>12. HasMetadata(g)
  BY <1>4, <1>10 DEF HasMetadata
<1>13. \A q, t : TmpReady(fs, q, t) => TmpReady(g, q, t)
  <2>1. \A q, l : TmpOf(q, l)[1] # "wav"
    BY DEF TmpOf
  <2> QED BY <1>10, <2>1 DEF TmpReady
<1>14. Names(g, og, x, h)
  BY <1>2, <1>6 DEF Names
<1> QED BY <1>7, <1>8, <1>9, <1>11, <1>12, <1>13, <1>14

LEMMA WavDone ==
  ASSUME NEW of, Holds(of), NEW p \in Procs, NEW op, At(p, op), op \notin Leaders \cup Followers,
         NEW x, x[1] = "wav", NEW h \in Hashes, NEW c \in {h, Torn}, Put(x, c),
         x \in DOMAIN fs => of[x] = h,
         x \notin DOMAIN fs /\ x[2][3] \in Hashes => x[2][3] = h,
         NEW og, og = Updated(of, x, h), NEW g, g = fs',
         NEW more, Names(g, og, x, h) => PlainSteps(g, og, more), Go(p, more),
         UNCHANGED <<todo, mem, said, mishaps>>
  PROVE  Holds(og)' /\ Settles(p)
<1>1. /\ og \in [Audio(g) -> Hashes] /\ AudioStays(fs, of, g, og)
      /\ WavsAre(g, og) /\ IsSetUp(g, og) /\ HasMetadata(g)
      /\ \A q, t : TmpReady(fs, q, t) => TmpReady(g, q, t)
      /\ Names(g, og, x, h)
  BY WavWritten
<1>2. /\ todo = [q \in Procs |-> todo[q]] /\ task = [q \in Procs |-> task[q]]
      /\ mem = [q \in Procs |-> mem[q]] /\ said = [q \in Procs |-> said[q]] /\ mishaps \in 0..Mishaps
      /\ TodoOK(fs, todo[p]) /\ TaskOK(fs, of, task[p]) /\ MemOK(fs, of, mem[p])
  BY DEF Holds, TypedInv, HomeInv
<1>3. TodoOK(g, todo[p]) /\ TaskOK(g, og, task[p]) /\ MemOK(g, og, mem[p])
  BY <1>1, <1>2, StepsStay, NamesStay
<1>4. task[p] # <<>> /\ Head(task[p]).op = op
  BY DEF At
<1>5. TaskOK(g, og, more) /\ Fresh(more)
  BY <1>1, PlainTask
<1>6. TaskOK(g, og, Onto(more, task[p])) /\ Fresh(Onto(more, task[p]))
  <2>1. /\ TaskOK(g, og, Onto(more, task[p]))
        /\ ~Fresh(Onto(more, task[p])) => Linked(Head(task[p]), Head(Onto(more, task[p])))
    BY <1>3, <1>4, <1>5, OntoOK
  <2>2. ASSUME NEW b, Linked(Head(task[p]), b) PROVE b.op \notin Followers
    BY <1>4, <2>2 DEF Linked, Leaders, Followers
  <2> QED BY <2>1, <2>2 DEF Fresh
<1>7. task' = [task EXCEPT ![p] = Onto(more, @)] /\ task'[p] = Onto(more, task[p])
  BY <1>2 DEF Go, Onto
<1>8. TmpReady(g, p, task'[p])
  BY <1>6, <1>7 DEF TmpReady, Fresh, Followers
<1>9. /\ todo' = [todo EXCEPT ![p] = todo'[p]] /\ mem' = [mem EXCEPT ![p] = mem'[p]]
      /\ task' = [task EXCEPT ![p] = task'[p]] /\ said' = [q \in Procs |-> said'[q]] /\ mishaps' \in 0..Mishaps
      /\ todo'[p] = todo[p] /\ mem'[p] = mem[p]
  BY <1>2, <1>7
<1>10. Settles(p)
  <2>1. PlainSteps(g, og, more)
    BY <1>1
  <2> QED BY <1>3, <1>4, <1>7, <1>9, <2>1, PlainOnto DEF Settles
<1> QED BY <1>1, <1>3, <1>6, <1>7, <1>8, <1>9, <1>10, BigStep

\* The place that is chosen for a copy of h is either free or has one of h.
LEMMA ChosenDest ==
  ASSUME NEW of, WavsAre(fs, of), NEW src \in DOMAIN fs, src[1] = "ext", NEW h, Names(fs, of, src, h),
         NEW x, x = ChooseDest(src, h)
  PROVE  /\ x[1] = "wav"
         /\ x \in DOMAIN fs => of[x] = h
         /\ x \notin DOMAIN fs /\ x[2][3] \in Hashes => x[2][3] = h
<1>1. h \in Hashes /\ fs[src] = h
  <2>1. h \in Hashes /\ of[src] = h
    BY DEF Names
  <2> QED BY <2>1, UsersWav
<1>2. Torn \notin Hashes /\ "" \notin Hashes /\ ShortOf[h] \notin Hashes
  BY <1>1, ShortOfAssumption
<1>3. PICK a, b, none, n :
          /\ a = PackOf[src[2][1]] /\ b = src[2][2] /\ n = <<"wav", <<a, b, none>>>>
          /\ n = Natural(src) /\ none \notin Hashes
  BY <1>2, Zenon DEF Natural
<1>4. /\ 1 \in DOMAIN n /\ 2 \in DOMAIN n /\ 3 \in DOMAIN n[2]
      /\ n[1] = "wav" /\ n[2][3] \notin Hashes
  BY <1>3
<1>5. \A k : [n EXCEPT ![2][3] = k][1] = "wav" /\ [n EXCEPT ![2][3] = k][2][3] = k
  BY <1>4
<1>6. /\ x[1] = "wav" /\ (x[2][3] \in Hashes => x[2][3] = h)
      /\ Free(x, src) \/ x[2][3] = h
  <2>1. PICK u, v : u = Prefixed(src, h) /\ v = FullHash(src, h)
    OBVIOUS
  <2>2. u[1] = "wav" /\ u[2][3] = ShortOf[h] /\ v[1] = "wav" /\ v[2][3] = h
    BY <1>3, <1>5, <2>1 DEF Prefixed, FullHash
  <2>3. (x = n /\ Free(x, src)) \/ (x = u /\ Free(x, src)) \/ x = v
    BY <1>3, <2>1 DEF ChooseDest
  <2> QED BY <1>2, <1>4, <2>2, <2>3
<1>7. ASSUME x \in DOMAIN fs PROVE of[x] = h
  <2>1. x \in Audio(fs)
    BY <1>6, <1>7 DEF Audio
  <2>2. CASE x[2][3] = h
    BY <1>1, <1>6, <2>1, <2>2 DEF WavsAre
  <2>3. CASE Free(x, src)
    <3>1. fs[x] = h
      BY <1>1, <1>7, <2>3 DEF Free, Exists, ContentMatches
    <3> QED BY <1>1, <1>2, <2>1, <3>1 DEF WavsAre
  <2> QED BY <1>6, <2>2, <2>3
<1> QED BY <1>2, <1>6, <1>7

LEMMA CopyWavHolds ==
  ASSUME NEW of, Holds(of), NEW p \in Procs, CopyWav(p)
  PROVE  (\E og : Holds(og)') /\ Settles(p)
<1> DEFINE x == Step(p).w
           h == Step(p).c
<1>1. At(p, "copywav") /\ Put(x, h) /\ Go(p, <<>>) /\ UNCHANGED <<todo, mem, said, mishaps>>
  BY DEF CopyWav
<1>2. x[1] = "wav" /\ Names(fs, of, x, h)
  BY <1>1, Acting DEF StepOK, At, Step
<1>3. h \in Hashes /\ x \in DOMAIN fs /\ of[x] = h
  BY <1>2 DEF Names
<1>4. "copywav" \notin Leaders \cup Followers
  BY DEF Leaders, Followers
<1>5. PICK og, g : og = Updated(of, x, h) /\ g = fs'
  OBVIOUS
<1>6. PlainSteps(g, og, <<>>)
  BY PlainTuples
<1> HIDE DEF x, h
<1>7. Holds(og)' /\ Settles(p)
  BY <1>1, <1>2, <1>3, <1>4, <1>5, <1>6, WavDone
<1> QED BY <1>7

\* A copy is begun: what is left to do is to write it, and what comes then.
LEMMA CopyBegun ==
  ASSUME NEW of, Holds(of), NEW p \in Procs, NEW op, At(p, op), op \notin Leaders \cup Followers,
         NEW src \in DOMAIN fs, src[1] = "ext", NEW h, Names(fs, of, src, h),
         NEW x, x = ChooseDest(src, h), Put(x, Torn), NEW r, NEW a, a \in {"sidecar", "stub"},
         NEW b, b \in {"register", "rebind"},
         Go(p, <<[op |-> "copywav", r |-> r, w |-> x, c |-> fs[src]]>> \o To(x, h, r, <<a, b>>)),
         UNCHANGED <<todo, mem, said, mishaps>>
  PROVE  (\E og : Holds(og)') /\ Settles(p)
<1>1. WavsAre(fs, of)
  BY DEF Holds, HomeInv
<1>2. /\ x[1] = "wav"
      /\ x \in DOMAIN fs => of[x] = h
      /\ x \notin DOMAIN fs /\ x[2][3] \in Hashes => x[2][3] = h
  BY <1>1, ChosenDest
<1>3. h \in Hashes /\ fs[src] = h
  BY <1>1, UsersWav DEF Names
<1>4. PICK og, g : og = Updated(of, x, h) /\ g = fs'
  OBVIOUS
<1>5. PICK s, ops, t, more : /\ s = [op |-> "copywav", r |-> r, w |-> x, c |-> fs[src]]
                             /\ ops = <<a, b>> /\ t = To(x, h, r, ops) /\ more = <<s>> \o t
  OBVIOUS
<1>6. ASSUME Names(g, og, x, h) PROVE PlainSteps(g, og, more)
  <2>1. PlainSteps(g, og, t)
    <3>1. DOMAIN ops = 1..2 /\ \A i \in 1..2 : ops[i] \in {"sidecar", "stub", "register", "rebind"}
      BY <1>5
    <3> QED BY <1>5, <1>6, <3>1, PlainTo
  <2>2. s.op = "copywav" /\ s.w = x /\ s.c = h
    BY <1>3, <1>5
  <2>3. StepOK(g, og, s) /\ s.op \notin Leaders \cup Followers
    BY <1>2, <1>6, <2>2 DEF StepOK, Verbs, PlacingOps, BindingOps, Leaders, Followers
  <2>4. PlainSteps(g, og, <<s>>)
    BY <2>3, PlainTuples
  <2> QED BY <1>5, <2>1, <2>4, PlainConcat
<1>7. Go(p, more)
  BY <1>5
<1>8. Holds(og)' /\ Settles(p)
  BY <1>2, <1>3, <1>4, <1>6, <1>7, WavDone
<1> QED BY <1>8

LEMMA ImportWavHolds ==
  ASSUME NEW of, Holds(of), NEW p \in Procs, ImportWav(p)
  PROVE  (\E og : Holds(og)') /\ Settles(p)
<1> DEFINE s == Step(p)
           dest == IF InLibrary(s.w) THEN s.w ELSE ChooseDest(s.w, s.h)
<1>1. PICK x, ops, more :
          /\ x = dest /\ ops = <<"sidecar", s.then>> /\ more = To(x, s.h, s.r, ops)
          /\ IF Exists(x) THEN UNCHANGED fs /\ Go(p, more)
             ELSE /\ Put(x, Torn)
                  /\ Go(p, <<[op |-> "copywav", r |-> s.r, w |-> x, c |-> fs[s.w]]>>
                           \o To(x, s.h, s.r, <<"sidecar", s.then>>))
  BY DEF ImportWav
<1>2. At(p, "import_wav") /\ UNCHANGED <<todo, mem, said, mishaps>>
  BY DEF ImportWav
<1>3. Step(p).op = "import_wav" /\ StepOK(fs, of, Step(p)) /\ WavsAre(fs, of)
  BY <1>2, Acting DEF At, Step
<1>4. Names(fs, of, s.w, s.h) /\ s.w \in DOMAIN fs /\ s.then \in {"register", "rebind"}
  BY <1>3 DEF StepOK, BindingOps
<1>5. "import_wav" \notin Leaders \cup Followers /\ s.w[1] \in {"ext", "wav"} /\ s.h \in Hashes
  BY <1>4 DEF Leaders, Followers, Names
<1> HIDE DEF s
<1>6. CASE Exists(x)
  <2>1. Names(fs, of, x, s.h)
    <3>1. CASE InLibrary(s.w)
      BY <1>1, <1>4, <3>1
    <3>2. CASE ~InLibrary(s.w)
      <4>1. s.w[1] = "ext" /\ x = ChooseDest(s.w, s.h)
        BY <1>1, <1>5, <3>2 DEF InLibrary
      <4>2. /\ x[1] = "wav"
            /\ x \in DOMAIN fs => of[x] = s.h
        BY <1>3, <1>4, <4>1, ChosenDest
      <4> QED BY <1>5, <1>6, <4>2 DEF Names, Exists
    <3> QED BY <3>1, <3>2
  <2>2. PlainSteps(fs, of, more)
    <3>1. DOMAIN ops = 1..2 /\ \A i \in 1..2 : ops[i] \in {"sidecar", "stub", "register", "rebind"}
      BY <1>1, <1>4
    <3> QED BY <1>1, <2>1, <3>1, PlainTo
  <2>3. Go(p, more) /\ SaidStep(p) /\ UNCHANGED fs /\ "import_wav" \notin Leaders
    BY <1>1, <1>2, <1>5, <1>6 DEF SaidStep
  <2>4. Holds(of)' /\ Settles(p)
    BY <1>2, <2>2, <2>3, StillDone
  <2> QED BY <2>4
<1>7. CASE ~Exists(x)
  <2>1. s.w[1] = "ext" /\ x = ChooseDest(s.w, s.h)
    BY <1>1, <1>4, <1>5, <1>7 DEF InLibrary, Exists
  <2>2. /\ Put(x, Torn)
        /\ Go(p, <<[op |-> "copywav", r |-> s.r, w |-> x, c |-> fs[s.w]]>>
                 \o To(x, s.h, s.r, <<"sidecar", s.then>>))
    BY <1>1, <1>7
  <2> QED BY <1>2, <1>4, <1>5, <2>1, <2>2, CopyBegun
<1> QED BY <1>6, <1>7

LEMMA MigrateOneIrHolds ==
  ASSUME NEW of, Holds(of), NEW p \in Procs, MigrateOneIr(p)
  PROVE  (\E og : Holds(og)') /\ Settles(p)
<1> DEFINE r == Item(p)
<1>1. PICK x, ops, adopt :
          /\ x = ChooseDest(r.wav, r.hash) /\ ops = <<"rebind">>
          /\ adopt \in {<<>>, To(x, r.hash, r, ops)}
          /\ IF InLibrary(r.wav) THEN Go(p, <<>>) /\ UNCHANGED <<fs, said>>
             ELSE IF ~Exists(r.wav) THEN Fail(p) /\ UNCHANGED fs
             ELSE IF Exists(x) /\ Exists(Sidecar(x)) THEN Go(p, adopt) /\ UNCHANGED <<fs, said>>
             ELSE /\ Put(x, Torn) /\ UNCHANGED said
                  /\ Go(p, <<[op |-> "copywav", r |-> r, w |-> x, c |-> fs[r.wav]]>>
                           \o To(x, r.hash, r, <<"stub", "rebind">>))
  BY DEF MigrateOneIr, ChooseIrDest
<1>2. At(p, "ir") /\ UNCHANGED <<todo, mem, mishaps>>
  BY DEF MigrateOneIr
<1>3. Names(fs, of, r.wav, r.hash) /\ WavsAre(fs, of)
  BY <1>2, Acting DEF StepOK, At, Step, Item
<1>4. "ir" \notin Leaders \cup Followers /\ r.wav[1] \in {"ext", "wav"} /\ r.hash \in Hashes
  BY <1>3 DEF Leaders, Followers, Names
<1> HIDE DEF r
<1>5. CASE InLibrary(r.wav) \/ ~Exists(r.wav)
  <2>1. UNCHANGED fs /\ (Fail(p) \/ (Go(p, <<>>) /\ SaidStep(p)))
    BY <1>1, <1>5 DEF SaidStep
  <2>2. Holds(of)' /\ Settles(p)
    BY <1>2, <1>4, <2>1, PlainTuples, StillDone
  <2> QED BY <2>2
<1>6. CASE ~InLibrary(r.wav) /\ Exists(r.wav) /\ Exists(x) /\ Exists(Sidecar(x))
  <2>1. r.wav \in DOMAIN fs /\ r.wav[1] = "ext"
    BY <1>4, <1>6 DEF InLibrary, Exists
  <2>2. /\ x[1] = "wav"
        /\ x \in DOMAIN fs => of[x] = r.hash
    BY <1>1, <1>3, <2>1, ChosenDest
  <2>3. Names(fs, of, x, r.hash)
    BY <1>4, <1>6, <2>2 DEF Names, Exists
  <2>4. PlainSteps(fs, of, adopt)
    <3>1. DOMAIN ops = 1..1 /\ \A i \in 1..1 : ops[i] \in {"sidecar", "stub", "register", "rebind"}
      BY <1>1
    <3>2. PlainSteps(fs, of, To(x, r.hash, r, ops))
      BY <2>3, <3>1, PlainTo
    <3> QED BY <1>1, <3>2, PlainTuples
  <2>5. Go(p, adopt) /\ SaidStep(p) /\ UNCHANGED fs
    BY <1>1, <1>6 DEF SaidStep
  <2>6. Holds(of)' /\ Settles(p)
    BY <1>2, <1>4, <2>4, <2>5, StillDone
  <2> QED BY <2>6
<1>7. CASE ~InLibrary(r.wav) /\ Exists(r.wav) /\ ~(Exists(x) /\ Exists(Sidecar(x)))
  <2>1. r.wav \in DOMAIN fs /\ r.wav[1] = "ext"
    BY <1>4, <1>7 DEF InLibrary, Exists
  <2>2. /\ Put(x, Torn) /\ UNCHANGED said
        /\ Go(p, <<[op |-> "copywav", r |-> r, w |-> x, c |-> fs[r.wav]]>>
                 \o To(x, r.hash, r, <<"stub", "rebind">>))
    BY <1>1, <1>7
  <2> QED BY <1>1, <1>2, <1>3, <1>4, <2>1, <2>2, CopyBegun
<1> QED BY <1>5, <1>6, <1>7
-----------------------------------------------------------------------------
(* The files of which there is one: the mapping, the plan, the preferences. *)

SetUpFiles == {Prefs, PlanFile, Mapping, LegacyMapping}

LEMMA SetUpDone ==
  ASSUME NEW of, Holds(of), NEW p \in Procs, NEW op, At(p, op), op \notin Leaders \cup Followers,
         NEW x \in SetUpFiles, Changes(fs, fs', {x}), IsSetUp(fs', of),
         NEW more, PlainSteps(fs, of, more), Go(p, more), UNCHANGED <<todo, mem, said, mishaps>>
  PROVE  Holds(of)' /\ Settles(p)
<1>1. PICK g : g = fs'
  OBVIOUS
<1>2. \A y : y[1] \in {"ext", "wav", "meta", "tmp"} =>
          (y \in DOMAIN g <=> y \in DOMAIN fs) /\ (y \in DOMAIN fs => g[y] = fs[y])
  <2>1. \A y : y[1] \in {"ext", "wav", "meta", "tmp"} => y \notin {x}
    BY DEF SetUpFiles, Prefs, PlanFile, Mapping, LegacyMapping
  <2> QED BY <1>1, <2>1 DEF Changes
<1>3. of \in [Audio(fs) -> Hashes] /\ WavsAre(fs, of) /\ HasMetadata(fs)
  BY DEF Holds, HomeInv
<1>4. Audio(g) = Audio(fs) /\ \A y \in Audio(fs) : g[y] = fs[y]
  BY <1>2 DEF Audio
<1>5. WavsAre(g, of) /\ HasMetadata(g)
  <2>1. WavsAre(g, of)
    BY <1>3, <1>4 DEF WavsAre
  <2> QED BY <1>2, <1>3, <2>1 DEF HasMetadata
<1>6. AudioStays(fs, of, g, of)
  BY <1>2 DEF AudioStays, AudioKinds
<1>7. \A q, t : TmpReady(fs, q, t) => TmpReady(g, q, t)
  <2>1. \A q, l : TmpOf(q, l)[1] = "tmp"
    BY DEF TmpOf
  <2> QED BY <1>2, <2>1 DEF TmpReady
<1>8. TaskStep(p, of) /\ RestStep(p, of) /\ Settles(p)
  <2>1. task[p] # <<>> /\ Step(p).op \notin Leaders
    BY DEF At, Step
  <2>2. TaskStep(p, of) /\ RestStep(p, of)
    BY <2>1, PlainTask, GoStep, RestSame
  <2>3. Settled(task'[p])
    BY <2>1, GoSettled
  <2> QED BY <2>2, <2>3 DEF TaskStep, Settles
<1>9. Fresh(task'[p])
  <2>1. ASSUME NEW b, Linked(Step(p), b) PROVE b.op \notin Followers
    BY <2>1 DEF At, Step, Linked, Leaders, Followers
  <2> QED BY <1>8, <2>1 DEF TaskStep, Fresh
<1>10. TaskOK(g, of, task'[p]) /\ TodoOK(g, todo'[p]) /\ MemOK(g, of, mem'[p])
  BY <1>6, <1>8, StepsStay, NamesStay DEF TaskStep, RestStep
<1>11. TmpReady(g, p, task'[p])
  BY <1>9 DEF TmpReady, Fresh, Followers
<1>12. task' = [task EXCEPT ![p] = task'[p]] /\ todo' = [todo EXCEPT ![p] = todo'[p]] /\ mem' = [mem EXCEPT ![p] = mem'[p]]
  BY <1>8 DEF TaskStep, RestStep
<1>13. said' = [q \in Procs |-> said'[q]] /\ mishaps' \in 0..Mishaps
  BY DEF Holds, TypedInv
<1> QED BY <1>1, <1>3, <1>4, <1>5, <1>6, <1>7, <1>8, <1>10, <1>11, <1>12, <1>13, BigStep

\* What the set-up is when one of its files is written.
LEMMA SetUpPut ==
  ASSUME NEW of, Holds(of), NEW x \in SetUpFiles, NEW c, Put(x, c),
         x = Prefs => IsFiniteSet(c.instruments) /\ c = [instruments |-> c.instruments, taps |-> c.taps],
         x = PlanFile => IsPlan(fs, of, c),
         x \in {Mapping, LegacyMapping} => Maps(fs, of, c)
  PROVE  Changes(fs, fs', {x}) /\ IsSetUp(fs', of)
<1>1. PICK g : g = fs'
  OBVIOUS
<1>2. x[1] \in FileKinds
  BY DEF SetUpFiles, Prefs, PlanFile, Mapping, LegacyMapping, FileKinds
<1>3. Changes(fs, g, {x}) /\ DOMAIN g = DOMAIN fs \cup {x} /\ g[x] = c
  BY <1>1, <1>2, PutChanges
<1>4. \A y : y # x => (y \in DOMAIN g <=> y \in DOMAIN fs) /\ (y \in DOMAIN fs => g[y] = fs[y])
  BY <1>3 DEF Changes
<1>5. AudioStays(fs, of, g, of)
  <2>1. \A y : y[1] \in AudioKinds => y # x
    BY DEF AudioKinds, SetUpFiles, Prefs, PlanFile, Mapping, LegacyMapping
  <2> QED BY <1>4, <2>1 DEF AudioStays
<1>6. IsSetUp(fs, of)
  BY DEF Holds, HomeInv
<1>7. PlanFile \in DOMAIN g => IsPlan(g, of, g[PlanFile])
  <2>1. PlanFile \in DOMAIN g => IsPlan(fs, of, g[PlanFile])
    BY <1>3, <1>4, <1>6 DEF IsSetUp
  <2> QED BY <1>5, <2>1, NamesStay
<1>8. \A y \in {Mapping, LegacyMapping} \cap DOMAIN g : Maps(g, of, g[y])
  <2>1. \A y \in {Mapping, LegacyMapping} \cap DOMAIN g : Maps(fs, of, g[y])
    BY <1>3, <1>4, <1>6 DEF IsSetUp
  <2> QED BY <1>5, <2>1, NamesStay
<1>9. /\ Prefs \in DOMAIN g /\ IsFiniteSet(g[Prefs].instruments)
      /\ g[Prefs] = [instruments |-> g[Prefs].instruments, taps |-> g[Prefs].taps]
  BY <1>3, <1>4, <1>6 DEF IsSetUp
<1>10. Manifest \in DOMAIN g => Manifest \in DOMAIN fs /\ g[Manifest] = fs[Manifest]
  <2>1. Manifest # x
    BY DEF Manifest, SetUpFiles, Prefs, PlanFile, Mapping, LegacyMapping
  <2> QED BY <1>4, <2>1
<1>11. IsFiniteSet(DOMAIN g) /\ \A y \in DOMAIN g : y[1] \in FileKinds
  BY <1>3 DEF Changes
<1> QED BY <1>1, <1>3, <1>6, <1>7, <1>8, <1>9, <1>10, <1>11 DEF IsSetUp

LEMMA SaveMappingHolds ==
  ASSUME NEW of, Holds(of), NEW p \in Procs, SaveMapping(p)
  PROVE  Holds(of)' /\ Settles(p)
<1>1. PICK u, more : u = Steps(<<"retire">>, Item(p)) /\ more \in {u, <<>>} /\ Go(p, more)
  BY DEF SaveMapping
<1>2. /\ At(p, "irsave") /\ Put(Mapping, mem[p].of) /\ UNCHANGED <<todo, mem, said, mishaps>>
      /\ "irsave" \notin Leaders \cup Followers
  BY DEF SaveMapping, Leaders, Followers
<1>3. Maps(fs, of, mem[p].of)
  BY DEF Holds, HomeInv, MemOK
<1>4. Mapping \in SetUpFiles /\ Mapping # Prefs /\ Mapping # PlanFile
  BY DEF SetUpFiles, Mapping, Prefs, PlanFile
<1>5. Changes(fs, fs', {Mapping}) /\ IsSetUp(fs', of)
  BY <1>2, <1>3, <1>4, SetUpPut
<1>6. PlainSteps(fs, of, more)
  BY <1>1, PlainBare, PlainTuples DEF BareOps
<1> QED BY <1>1, <1>2, <1>4, <1>5, <1>6, SetUpDone

LEMMA RetireHolds ==
  ASSUME NEW of, Holds(of), NEW p \in Procs, Retire(p)
  PROVE  Holds(of)' /\ Settles(p)
<1> DEFINE x == LegacyMapping
<1>1. /\ At(p, "retire") /\ fs' = Without({x}) /\ Go(p, <<>>) /\ UNCHANGED <<todo, mem, said, mishaps>>
      /\ "retire" \notin Leaders \cup Followers
  BY DEF Retire, Leaders, Followers
<1>2. PICK g : g = fs'
  OBVIOUS
<1>3. Changes(fs, g, {x}) /\ DOMAIN g = DOMAIN fs \ {x} /\ \A y \in DOMAIN g : g[y] = fs[y]
  <2> HIDE DEF x
  <2> QED BY <1>1, <1>2, DropChanges
<1>4. IsSetUp(fs, of)
  BY DEF Holds, HomeInv
<1>5. AudioStays(fs, of, g, of)
  <2>1. \A y : y[1] \in AudioKinds => y # x
    BY DEF AudioKinds, LegacyMapping
  <2> QED BY <1>3, <2>1 DEF AudioStays
<1>6. IsSetUp(g, of)
  <2>1. PlanFile \in DOMAIN g => IsPlan(g, of, g[PlanFile])
    BY <1>3, <1>4, <1>5, NamesStay DEF IsSetUp
  <2>2. \A y \in {Mapping, LegacyMapping} \cap DOMAIN g : Maps(g, of, g[y])
    BY <1>3, <1>4, <1>5, NamesStay DEF IsSetUp
  <2>3. Prefs \in DOMAIN g /\ g[Prefs] = fs[Prefs]
    <3>1. Prefs # x
      BY DEF Prefs, LegacyMapping
    <3> QED BY <1>3, <1>4, <3>1 DEF IsSetUp
  <2>4. Manifest \in DOMAIN g => Manifest \in DOMAIN fs /\ g[Manifest] = fs[Manifest]
    BY <1>3
  <2>5. IsFiniteSet(DOMAIN g) /\ \A y \in DOMAIN g : y[1] \in FileKinds
    BY <1>3 DEF Changes
  <2> QED BY <1>4, <2>1, <2>2, <2>3, <2>4, <2>5 DEF IsSetUp
<1>7. x \in SetUpFiles
  BY DEF SetUpFiles
<1> QED BY <1>1, <1>2, <1>3, <1>6, <1>7, PlainTuples, SetUpDone

-----------------------------------------------------------------------------
(* The migration.                                                          *)

\* What --dry-run prints can be executed.
LEMMA PlannedOK ==
  ASSUME NEW of, Holds(of)
  PROVE  IsPlan(fs, of, PlanMigration)
<1> DEFINE who(e) == InferIdentity(e.name, fs[Prefs].instruments)
           One(e) == Placing("moved", e.path, e.name, who(e).id, who(e).key, Folded(e.path))
<1>1. PICK listed, m, hashes, tones, irs :
          /\ listed = ReadOr(Manifest, <<>>)
          /\ m = LoadMapping.of /\ hashes = SetToSeq(DOMAIN m)
          /\ tones = [i \in DOMAIN listed |-> One(listed[i])]
          /\ irs = [i \in DOMAIN hashes |-> [hash |-> hashes[i], wav |-> m[hashes[i]]]]
  OBVIOUS
<1>2. PlanMigration = [tones |-> tones, instruments |-> fs[Prefs].instruments, irs |-> irs]
  BY <1>1 DEF PlanMigration
<1>3. IsSetUp(fs, of)
  BY DEF Holds, HomeInv
<1>4. IsSeq(listed) /\ \A i \in DOMAIN listed : IsPreset(listed[i].path)
  <2>1. IsSeq(<<>>) /\ DOMAIN <<>> = {}
    <3>1. <<>> \in Seq({}) /\ DOMAIN <<>> = {}
      OBVIOUS
    <3> QED BY <3>1, IsSeqOf
  <2> QED BY <1>1, <1>3, <2>1 DEF IsSetUp, ReadOr, Exists
<1>5. Len(listed) \in Nat /\ DOMAIN listed = 1..Len(listed)
  BY <1>4, SeqFacts
<1>6. IsSeq(tones) /\ \A i \in DOMAIN tones : IsPlacing(tones[i])
  <2>1. DOMAIN tones = 1..Len(listed) /\ tones = [i \in 1..Len(listed) |-> tones[i]]
    BY <1>1, <1>5
  <2>2. ASSUME NEW i \in 1..Len(listed) PROVE IsPlacing(tones[i])
    <3>1. PICK e, id, key, desc : /\ e = listed[i] /\ id = who(e).id /\ key = who(e).key
                                  /\ desc = Folded(e.path)
      OBVIOUS
    <3>2. IsPreset(e.path)
      BY <1>4, <1>5, <3>1
    <3>3. tones[i] = Placing("moved", e.path, e.name, id, key, desc)
      BY <1>1, <1>5, <3>1
    <3> QED BY <3>2, <3>3, PlacedIsPlacing
  <2> QED BY <1>5, <2>1, <2>2, FunctionIsSeqOf
<1>7. IsSeq(irs) /\ \A i \in DOMAIN irs : Names(fs, of, irs[i].wav, irs[i].hash)
  <2>1. Maps(fs, of, m)
    BY <1>1, LoadedOK DEF MemOK
  <2>2. IsSeq(hashes) /\ \A i \in DOMAIN hashes : hashes[i] \in DOMAIN m
    BY <1>1, <2>1, HashesInOrder
  <2>3. Len(hashes) \in Nat /\ DOMAIN hashes = 1..Len(hashes)
    BY <2>2, SeqFacts
  <2>4. DOMAIN irs = 1..Len(hashes) /\ irs = [i \in 1..Len(hashes) |-> irs[i]]
    BY <1>1, <2>3
  <2>5. \A i \in 1..Len(hashes) : irs[i].hash = hashes[i] /\ irs[i].wav = m[hashes[i]]
    BY <1>1, <2>3
  <2> QED BY <2>1, <2>2, <2>3, <2>4, <2>5, FunctionIsSeqOf DEF Maps
<1> QED BY <1>2, <1>3, <1>6, <1>7 DEF IsPlan, IsSetUp

LEMMA DryRunHolds ==
  ASSUME NEW of, Holds(of), NEW p \in Procs, DryRun(p)
  PROVE  Holds(of)' /\ Settles(p)
<1>1. PICK plan : plan = PlanMigration
  OBVIOUS
<1>2. /\ At(p, "dryrun") /\ Put(PlanFile, plan) /\ Go(p, <<>>) /\ UNCHANGED <<todo, mem, said, mishaps>>
      /\ "dryrun" \notin Leaders \cup Followers
  BY <1>1 DEF DryRun, Leaders, Followers
<1>3. IsPlan(fs, of, plan)
  BY <1>1, PlannedOK
<1>4. PlanFile \in SetUpFiles /\ PlanFile # Prefs /\ PlanFile \notin {Mapping, LegacyMapping}
  BY DEF SetUpFiles, Mapping, LegacyMapping, Prefs, PlanFile
<1>5. Changes(fs, fs', {PlanFile}) /\ IsSetUp(fs', of)
  BY <1>2, <1>3, <1>4, SetUpPut
<1> QED BY <1>2, <1>4, <1>5, PlainTuples, SetUpDone

LEMMA StripPrefsHolds ==
  ASSUME NEW of, Holds(of), NEW p \in Procs, StripPrefs(p)
  PROVE  Holds(of)' /\ Settles(p)
<1>1. PICK new : new = [fs[Prefs] EXCEPT !.instruments = {}]
  OBVIOUS
<1>2. /\ At(p, "strip") /\ Put(Prefs, new) /\ Go(p, <<>>) /\ UNCHANGED <<todo, mem, said, mishaps>>
      /\ "strip" \notin Leaders \cup Followers
  BY <1>1 DEF StripPrefs, Leaders, Followers
<1>3. IsFiniteSet(new.instruments) /\ new = [instruments |-> new.instruments, taps |-> new.taps]
  <2>1. PICK a, b : fs[Prefs] = [instruments |-> a, taps |-> b]
    BY DEF Holds, HomeInv, IsSetUp
  <2>2. PICK none : none = {} /\ IsFiniteSet(none)
    BY FS_EmptySet
  <2>3. new = [instruments |-> none, taps |-> b]
    BY <1>1, <2>1, <2>2
  <2> QED BY <2>2, <2>3
<1>4. Prefs \in SetUpFiles /\ Prefs # PlanFile /\ Prefs \notin {Mapping, LegacyMapping}
  BY DEF SetUpFiles, Mapping, LegacyMapping, Prefs, PlanFile
<1>5. Changes(fs, fs', {Prefs}) /\ IsSetUp(fs', of)
  BY <1>2, <1>3, <1>4, SetUpPut
<1> QED BY <1>2, <1>4, <1>5, PlainTuples, SetUpDone

LEMMA MigrateInstrumentsHolds ==
  ASSUME NEW of, Holds(of), NEW p \in Procs, MigrateInstruments(p)
  PROVE  Holds(of)' /\ Settles(p)
<1>1. At(p, "seed") /\ SaveProfile(Item(p).guitar) /\ Go(p, <<>>) /\ UNCHANGED <<todo, mem, said, mishaps>>
  BY DEF MigrateInstruments
<1>2. "seed" \notin Leaders /\ RestStep(p, of) /\ mishaps' \in 0..Mishaps /\ SaidStep(p)
  BY <1>1, RestSame DEF Leaders, Holds, TypedInv, SaidStep
<1>3. PICK X : Changes(fs, fs', X) /\ \A q : Quiet(q, X)
  BY <1>1, ProfileChanges
<1> QED BY <1>1, <1>2, <1>3, PlainTuples, PlainDone

LEMMA MigrateTonesPlain ==
  ASSUME NEW f, NEW of, NEW tones, IsSeq(tones), \A i \in DOMAIN tones : IsPlacing(tones[i])
  PROVE  PlainSteps(f, of, MigrateTones(tones))
<1> DEFINE step(r) == [op |-> "migrate_tone", r |-> r]
           S == {step(r) : r \in ToSet(tones)}
<1>1. PICK each : each = [i \in DOMAIN tones |-> IF Colliding(tones, i) THEN <<>> ELSE <<step(tones[i])>>]
  OBVIOUS
<1>2. PICK t : t = FlattenSeq(each)
  OBVIOUS
<1>3. t = MigrateTones(tones)
  BY <1>1, <1>2 DEF MigrateTones
<1>4. Len(tones) \in Nat /\ DOMAIN tones = 1..Len(tones) /\ \A i \in DOMAIN tones : tones[i] \in ToSet(tones)
  BY SeqFacts
<1>5. \A r \in ToSet(tones) : IsPlacing(r)
  BY DEF ToSet
<1>6. each \in Seq(Seq(S))
  <2>1. \A i \in 1..Len(tones) : step(tones[i]) \in S
    BY <1>4
  <2> HIDE DEF S, step
  <2>2. \A x \in S : <<x>> \in Seq(S)
    OBVIOUS
  <2>3. <<>> \in Seq(S)
    OBVIOUS
  <2>4. \A i \in 1..Len(tones) : each[i] \in Seq(S)
    BY <1>1, <1>4, <2>1, <2>2, <2>3
  <2>5. DOMAIN each = 1..Len(tones) /\ each = [i \in 1..Len(tones) |-> each[i]]
    BY <1>1, <1>4
  <2>6. each \in [1..Len(tones) -> Seq(S)]
    BY <2>4, <2>5
  <2> QED BY <1>4, <2>6, SeqDef
<1>7. t \in Seq(S)
  <2> HIDE DEF S
  <2> QED BY <1>2, <1>6, FlattenSeqType
<1>8. IsSeq(t) /\ \A i \in DOMAIN t : t[i] \in S
  <2> HIDE DEF S
  <2> QED BY <1>7, IsSeqOf, LenProperties, ElementOfSeq
<1>9. \A s \in S : StepOK(f, of, s) /\ s.op \notin Leaders \cup Followers
  BY <1>5 DEF StepOK, Verbs, PlacingOps, BindingOps, Leaders, Followers
<1> QED BY <1>3, <1>8, <1>9 DEF PlainSteps

LEMMA RunMigrationHolds ==
  ASSUME NEW of, Holds(of), NEW p \in Procs, RunMigration(p)
  PROVE  Holds(of)' /\ Settles(p)
<1> DEFINE c == Item(p)
<1>1. PICK plan : plan = IF c.planned THEN fs[PlanFile] ELSE PlanMigration
  OBVIOUS
<1>2. PICK new : new = SetToSeq(plan.instruments)
  OBVIOUS
<1>3. PICK s1, s2, s3, s4, s5, s6, more :
          /\ s1 = [i \in DOMAIN new |-> [op |-> "seed", r |-> [guitar |-> new[i]]]]
          /\ s2 = Steps(<<"strip">>, c)
          /\ s3 = MigrateTones(plan.tones)
          /\ s4 = Steps(<<"irload">>, c)
          /\ s5 = [i \in DOMAIN plan.irs |-> [op |-> "ir", r |-> plan.irs[i]]]
          /\ s6 = Steps(<<"savedirty">>, c)
          /\ more = s1 \o s2 \o s3 \o s4 \o s5 \o s6
  OBVIOUS
<1>4. /\ At(p, "migrate") /\ UNCHANGED <<fs, todo, mem, mishaps>>
      /\ IF c.planned /\ ~Exists(PlanFile) THEN Fail(p) ELSE UNCHANGED said /\ Go(p, more)
  BY <1>1, <1>2, <1>3 DEF RunMigration
<1>5. "migrate" \notin Leaders
  BY DEF Leaders
<1>6. CASE c.planned /\ ~Exists(PlanFile)
  BY <1>4, <1>5, <1>6, PlainTuples, StillDone
<1>7. CASE ~(c.planned /\ ~Exists(PlanFile))
  <2>1. IsPlan(fs, of, plan)
    BY <1>1, <1>7, PlannedOK DEF Exists, Holds, HomeInv, IsSetUp
  <2>2. PlainSteps(fs, of, s1)
    <3>1. new \in Seq(plan.instruments)
      BY <1>2, <2>1, SetToSeqOps DEF IsPlan
    <3>2. Len(new) \in Nat /\ DOMAIN new = 1..Len(new)
      BY <3>1, LenProperties
    <3>3. DOMAIN s1 = 1..Len(new) /\ s1 = [i \in 1..Len(new) |-> s1[i]]
      BY <1>3, <3>2
    <3>4. ASSUME NEW i \in 1..Len(new)
          PROVE  StepOK(fs, of, s1[i]) /\ s1[i].op \notin Leaders \cup Followers
      <4>1. PICK r : r = [guitar |-> new[i]]
        OBVIOUS
      <4>2. s1[i] = [op |-> "seed", r |-> r]
        BY <1>3, <3>2, <4>1
      <4> QED BY <4>2, PlainBare DEF BareOps
    <3> QED BY <3>2, <3>3, <3>4, PlainMap
  <2>3. PlainSteps(fs, of, s2) /\ PlainSteps(fs, of, s4) /\ PlainSteps(fs, of, s6)
    BY <1>3, PlainBare DEF BareOps
  <2>4. PlainSteps(fs, of, s3)
    BY <1>3, <2>1, MigrateTonesPlain DEF IsPlan
  <2>5. PlainSteps(fs, of, s5)
    <3>1. Len(plan.irs) \in Nat /\ DOMAIN plan.irs = 1..Len(plan.irs)
      BY <2>1, SeqFacts DEF IsPlan
    <3>2. DOMAIN s5 = 1..Len(plan.irs) /\ s5 = [i \in 1..Len(plan.irs) |-> s5[i]]
      BY <1>3, <3>1
    <3>3. ASSUME NEW i \in 1..Len(plan.irs)
          PROVE  StepOK(fs, of, s5[i]) /\ s5[i].op \notin Leaders \cup Followers
      <4>1. s5[i].op = "ir" /\ s5[i].r = plan.irs[i]
        BY <1>3, <3>1
      <4>2. Names(fs, of, plan.irs[i].wav, plan.irs[i].hash)
        BY <2>1, <3>1 DEF IsPlan
      <4> QED BY <4>1, <4>2 DEF StepOK, Verbs, PlacingOps, BindingOps, Leaders, Followers
    <3> QED BY <3>1, <3>2, <3>3, PlainMap
  <2>6. PlainSteps(fs, of, more)
    <3>1. PICK a : a = s1 \o s2
      OBVIOUS
    <3>2. PICK b : b = a \o s3
      OBVIOUS
    <3>3. PICK d : d = b \o s4
      OBVIOUS
    <3>4. PICK e : e = d \o s5
      OBVIOUS
    <3>5. PlainSteps(fs, of, a) /\ PlainSteps(fs, of, b) /\ PlainSteps(fs, of, d) /\ PlainSteps(fs, of, e)
      BY <2>2, <2>3, <2>4, <2>5, <3>1, <3>2, <3>3, <3>4, PlainConcat
    <3>6. more = e \o s6
      BY <1>3, <3>1, <3>2, <3>3, <3>4
    <3> QED BY <2>3, <3>5, <3>6, PlainConcat
  <2>7. Go(p, more) /\ SaidStep(p)
    BY <1>4, <1>7 DEF SaidStep
  <2> QED BY <1>4, <1>5, <2>6, <2>7, StillDone
<1> QED BY <1>6, <1>7

LEMMA MigrateOneToneHolds ==
  ASSUME NEW of, Holds(of), NEW p \in Procs, MigrateOneTone(p)
  PROVE  Holds(of)' /\ Settles(p)
<1> DEFINE r == Item(p)
<1>1. PICK h, heal, place :
          /\ h = [r EXCEPT !.how = "healed"]
          /\ heal = Steps(<<"heal", "heal_meta", "tell">>, h) /\ place = <<PlacingStep(r)>>
  OBVIOUS
<1>2. /\ At(p, "migrate_tone") /\ UNCHANGED <<fs, todo, mem, mishaps>>
      /\ \/ Go(p, <<>>) /\ Report(p, "skipped", r)
         \/ Go(p, heal) /\ UNCHANGED said
         \/ Fail(p)
         \/ Go(p, place) /\ UNCHANGED said
  BY <1>1 DEF MigrateOneTone
<1>3. IsPlacing(r) /\ "migrate_tone" \notin Leaders
  BY <1>2, Acting DEF StepOK, PlacingOps, At, Step, Item, Leaders
<1>4. PlainSteps(fs, of, place)
  BY <1>1, <1>3, PlacingIsPlain
<1>5. PlainSteps(fs, of, heal)
  <2>1. PICK ops : ops = <<"heal", "heal_meta", "tell">>
    OBVIOUS
  <2>2. DOMAIN ops = 1..3 /\ \A i \in 1..3 : ops[i] \in {"heal", "heal_meta", "tell"}
    BY <2>1
  <2>3. DOMAIN heal = 1..3 /\ heal = [i \in 1..3 |-> heal[i]] /\ \A i \in 1..3 : heal[i] = [op |-> ops[i], r |-> h]
    <3>1. heal = [i \in 1..3 |-> [op |-> ops[i], r |-> h]]
      BY <1>1, <2>1, <2>2 DEF Steps
    <3> QED BY <3>1
  <2>4. ASSUME NEW i \in 1..3 PROVE StepOK(fs, of, heal[i]) /\ heal[i].op \notin Leaders \cup Followers
    <3>1. heal[i].op \in {"heal", "heal_meta", "tell"} /\ heal[i].r = h
      BY <2>2, <2>3
    <3>2. IsPlacing(h)
      <4>1. /\ r = [how |-> r.how, src |-> r.src, old |-> r.old, id |-> r.id, key |-> r.key,
                    name |-> r.name, slug |-> r.slug, desc |-> r.desc, from |-> r.from]
            /\ IsPreset(r.src) /\ r.slug = WithKey(r.id.words, r.key)
        BY <1>3 DEF IsPlacing
      <4> HIDE DEF r
      <4>2. h = [how |-> "healed", src |-> r.src, old |-> r.old, id |-> r.id, key |-> r.key,
                 name |-> r.name, slug |-> r.slug, desc |-> r.desc, from |-> r.from]
        BY <1>1, <4>1
      <4> QED BY <4>1, <4>2 DEF IsPlacing
    <3> QED BY <3>1, <3>2 DEF StepOK, Verbs, PlacingOps, BindingOps, Leaders, Followers
  <2> QED BY <2>3, <2>4, PlainMap
<1>6. PlainSteps(fs, of, <<>>)
  BY PlainTuples
<1>7. \E more \in {<<>>, heal, place} : Fail(p) \/ (Go(p, more) /\ SaidStep(p))
  BY <1>2 DEF SaidStep
<1> QED BY <1>2, <1>3, <1>4, <1>5, <1>6, <1>7, StillDone

LEMMA HealHolds ==
  ASSUME NEW of, Holds(of), NEW p \in Procs, Heal(p)
  PROVE  Holds(of)'
BY RenameDone DEF Heal

LEMMA HealMetaHolds ==
  ASSUME NEW of, Holds(of), NEW p \in Procs, HealMeta(p)
  PROVE  Holds(of)' /\ Settles(p)
<1> DEFINE r == Item(p)
<1>1. PICK m, w : /\ m = Extended(ReadOr(Meta(r.id.words), None), r)
                  /\ w = IF m.desc = None THEN WithWriteUp(m, r) ELSE m
  OBVIOUS
<1>2. /\ At(p, "heal_meta") /\ UNCHANGED <<fs, todo, mem, mishaps>>
      /\ Fail(p) \/ Saved(p, w) \/ (Go(p, <<>>) /\ UNCHANGED said)
  BY <1>1 DEF HealMeta
<1>3. IsPlacing(r) /\ "heal_meta" \notin Leaders /\ HasMetadata(fs)
  BY <1>2, Acting DEF StepOK, PlacingOps, At, Step, Item, Leaders
<1>4. IsMeta(w)
  <2>1. IsMeta(m) /\ IsMeta(WithWriteUp(m, r))
    BY <1>1, <1>3, ExtendedIsMeta DEF IsPlacing
  <2> QED BY <1>1, <2>1
<1>5. CASE Go(p, <<>>) /\ UNCHANGED said
  BY <1>2, <1>3, <1>5, PlainTuples, StillDone DEF SaidStep
<1>6. CASE Fail(p) \/ Saved(p, w)
  BY <1>2, <1>3, <1>4, <1>6, SaveDone
<1> QED BY <1>2, <1>5, <1>6
-----------------------------------------------------------------------------
(* The records of the devices.                                             *)

\* Who is found is one of those on the network.
LEMMA CandidatesOK ==
  ASSUME NEW c, IsSeq(c.tiers), NEW silent
  PROVE  Candidates(c, silent) \subseteq UNION Range(c.tiers)
<1> DEFINE Answers(i) == IF c.tiers[i] \subseteq silent /\ c.probe THEN ProbeSubnet(c.tiers[i])
                         ELSE c.tiers[i] \ silent
           found == {i \in DOMAIN c.tiers : Answers(i) # {}}
<1>1. CASE found = {}
  BY <1>1 DEF Candidates
<1>2. CASE found # {}
  <2>1. PICK n : n = Min(found)
    OBVIOUS
  <2>2. n \in DOMAIN c.tiers
    <3>1. found \in SUBSET Nat
      BY SeqFacts
    <3> HIDE DEF found
    <3>2. \E x \in found : \A y \in found : x <= y
      BY <1>2, <3>1, Minimum
    <3>3. n \in found
      BY <2>1, <3>2 DEF Min
    <3> QED BY <3>3 DEF found
  <2>3. Candidates(c, silent) = Answers(n)
    BY <1>2, <2>1 DEF Candidates
  <2>4. Answers(n) \subseteq c.tiers[n]
    BY DEF ProbeSubnet
  <2>5. c.tiers[n] \in Range(c.tiers)
    BY <2>2 DEF Range
  <2> QED BY <2>3, <2>4, <2>5
<1> QED BY <1>1, <1>2

LEMMA RowsAreInOrder ==
  ASSUME NEW S, IsFiniteSet(S)
  PROVE  /\ Cardinality(S) \in Nat
         /\ \E n \in Nat : DOMAIN Rows(S) = 1..n /\ Rows(S) = [i \in 1..n |-> Rows(S)[i]]
<1> DEFINE named == {[d EXCEPT !.serial = IF @ = None THEN 100 + d.ip ELSE @] : d \in S}
           Before(d, e) == d.serial < e.serial \/ (d.serial = e.serial /\ d.ip < e.ip)
<1>1. IsFiniteSet(named)
  <2>1. PICK f : f = [d \in S |-> [d EXCEPT !.serial = IF @ = None THEN 100 + d.ip ELSE @]]
    OBVIOUS
  <2>2. named = {f[d] : d \in S}
    BY <2>1
  <2> QED BY <2>2, FiniteImage
<1>2. Cardinality(S) \in Nat /\ Cardinality(named) \in Nat
  BY <1>1, FS_CardinalityType
<1>3. Rows(S) = [k \in 1..Cardinality(named) |->
                    CHOOSE x \in named : Cardinality({y \in named : Before(y, x)}) = k - 1]
  BY DEF Rows, InOrderOf
<1> HIDE DEF named
<1>4. DOMAIN Rows(S) = 1..Cardinality(named) /\ Rows(S) = [i \in 1..Cardinality(named) |-> Rows(S)[i]]
  BY <1>3
<1> QED BY <1>2, <1>4

LEMMA DiscoverHolds ==
  ASSUME NEW of, Holds(of), NEW p \in Procs, Discover(p)
  PROVE  Holds(of)' /\ Settles(p)
<1> DEFINE c == Item(p)
<1>1. At(p, "discover") /\ UNCHANGED <<fs, todo, mem, mishaps>>
  BY DEF Discover
<1>2. "discover" \notin Leaders /\ IsCommand(fs, c) /\ c.verb = "discover"
  BY <1>1, CommandOf DEF Verbs
<1>3. PICK silent, mute \in SUBSET UNION Range(c.tiers), tick \in {0, 1} :
          LET rows == Rows(Candidates(c, silent) \ mute)
          IN  IF rows = <<>> THEN Fail(p)
              ELSE /\ Go(p, [i \in DOMAIN rows |-> [op |-> "rectmp", r |-> c, row |-> rows[i], at |-> Now + i * tick]])
                   /\ UNCHANGED said
  BY Zenon DEF Discover
<1>4. PICK rows : rows = Rows(Candidates(c, silent) \ mute)
  OBVIOUS
<1>5. PICK more : more = [i \in DOMAIN rows |-> [op |-> "rectmp", r |-> c, row |-> rows[i], at |-> Now + i * tick]]
  OBVIOUS
<1>6. Fail(p) \/ (Go(p, more) /\ SaidStep(p))
  BY <1>3, <1>4, <1>5 DEF SaidStep
<1>7. PICK n \in Nat : DOMAIN rows = 1..n
  <2>1. PICK S : S = Candidates(c, silent) \ mute
    OBVIOUS
  <2>2. IsSeq(c.tiers) /\ IsFiniteSet(UNION Range(c.tiers))
    BY <1>2 DEF IsCommand
  <2>3. S \subseteq UNION Range(c.tiers)
    BY <2>1, <2>2, CandidatesOK
  <2>4. IsFiniteSet(S)
    BY <2>2, <2>3, FS_Subset
  <2> QED BY <1>4, <2>1, <2>4, RowsAreInOrder
<1>8. PlainSteps(fs, of, more)
  <2>1. DOMAIN more = 1..n /\ more = [i \in 1..n |-> more[i]]
    BY <1>5, <1>7
  <2>2. \A i \in 1..n : more[i].op = "rectmp"
    BY <1>5, <1>7
  <2>3. \A s : s.op = "rectmp" => StepOK(fs, of, s) /\ s.op \notin Leaders \cup Followers
    BY DEF StepOK, Verbs, PlacingOps, BindingOps, Leaders, Followers
  <2> QED BY <1>7, <2>1, <2>2, <2>3, PlainMap
<1> QED BY <1>1, <1>2, <1>6, <1>8, StillDone

LEMMA RecordTmpOpenedHolds ==
  ASSUME NEW of, Holds(of), NEW p \in Procs, RecordTmpOpened(p)
  PROVE  Holds(of)'
<1> DEFINE s == Step(p)
           x == RecordTmp(s.row.serial)
<1>1. PICK a, b, obs : /\ a = [op |-> "recfill", r |-> s.r, row |-> s.row, obs |-> obs]
                       /\ b = [op |-> "recpublish", r |-> s.r, row |-> s.row]
                       /\ Go(p, <<a, b>>)
  BY DEF RecordTmpOpened
<1>2. At(p, "rectmp") /\ Put(x, Torn) /\ UNCHANGED <<todo, mem, said, mishaps>>
  BY DEF RecordTmpOpened
<1>3. task[p] # <<>> /\ s.op = "rectmp" /\ ~At(p, "fill") /\ s.op \notin Leaders
  BY <1>2 DEF At, Step, Leaders
<1>4. StepOK(fs, of, a) /\ StepOK(fs, of, b) /\ Linked(a, b) /\ a.op \notin Followers
  BY <1>1 DEF StepOK, Verbs, PlacingOps, BindingOps, Linked, Leaders, Followers
<1>5. TaskOK(fs, of, <<a, b>>) /\ Fresh(<<a, b>>)
  BY <1>4, PairOK
<1>6. TaskStep(p, of)
  BY <1>1, <1>3, <1>5, GoStep
<1>7. x[1] \in FileKinds /\ Quiet(p, {x})
  BY DEF RecordTmp, FileKinds, Quiet, QuietKinds
<1> HIDE DEF x, s
<1>8. Changes(fs, fs', {x})
  BY <1>2, <1>7, PutChanges
<1>9. RestStep(p, of) /\ said' = [q \in Procs |-> said'[q]] /\ mishaps' \in 0..Mishaps
  BY <1>2, RestSame DEF Holds, TypedInv
<1> QED BY <1>3, <1>6, <1>7, <1>8, <1>9, QuietStep

LEMMA RecordFilledHolds ==
  ASSUME NEW of, Holds(of), NEW p \in Procs, RecordFilled(p)
  PROVE  Holds(of)'
<1> DEFINE x == RecordTmp(Step(p).row.serial)
<1>1. At(p, "recfill") /\ Put(x, Step(p).obs) /\ Go(p, <<>>) /\ UNCHANGED <<todo, mem, said, mishaps>>
  BY DEF RecordFilled
<1>2. task[p] # <<>> /\ ~At(p, "fill")
  BY <1>1 DEF At
<1>3. x[1] \in FileKinds /\ Quiet(p, {x})
  BY DEF RecordTmp, FileKinds, Quiet, QuietKinds
<1> HIDE DEF x
<1>4. Changes(fs, fs', {x})
  BY <1>1, <1>3, PutChanges
<1>5. TaskStep(p, of)
  <2>1. TaskOK(fs, of, <<>>) /\ Fresh(<<>>)
    BY PlainTuples, PlainTask
  <2> QED BY <1>1, <1>2, <2>1, GoStep
<1>6. RestStep(p, of) /\ said' = [q \in Procs |-> said'[q]] /\ mishaps' \in 0..Mishaps
  BY <1>1, RestSame DEF Holds, TypedInv
<1> QED BY <1>2, <1>3, <1>4, <1>5, <1>6, QuietStep

LEMMA RecordPublishedHolds ==
  ASSUME NEW of, Holds(of), NEW p \in Procs, RecordPublished(p)
  PROVE  Holds(of)'
<1> DEFINE x == RecordTmp(Step(p).row.serial)
           y == Record(Step(p).row.serial)
           X == {x, y}
<1>1. /\ At(p, "recpublish") /\ fs' = Updated(Without({x}), y, fs[x]) /\ UNCHANGED <<todo, mem, mishaps>>
      /\ Go(p, <<>>) /\ Report(p, "recorded", Step(p).row)
  BY DEF RecordPublished
<1>2. "recpublish" \notin Leaders /\ SaidStep(p) /\ RestStep(p, of) /\ mishaps' \in 0..Mishaps
  BY <1>1, RestSame DEF Leaders, SaidStep, Holds, TypedInv
<1>3. Quiet(p, X) /\ y[1] \in FileKinds
  BY DEF Quiet, QuietKinds, RecordTmp, Record, FileKinds
<1>4. Changes(fs, fs', X)
  <2> HIDE DEF x, y
  <2>1. DOMAIN fs' = (DOMAIN fs \ {x}) \cup {y} /\ \A z \in DOMAIN fs : z \notin X => fs'[z] = fs[z]
    BY <1>1 DEF Updated, Without
  <2>2. IsFiniteSet(DOMAIN fs) /\ \A z \in DOMAIN fs : z[1] \in FileKinds
    BY DEF Holds, HomeInv, IsSetUp
  <2>3. IsFiniteSet((DOMAIN fs \ {x}) \cup {y})
    BY <2>2, FS_Difference, FS_AddElement
  <2> QED BY <1>3, <2>1, <2>2, <2>3 DEF Changes
<1> HIDE DEF X
<1> QED BY <1>1, <1>2, <1>3, <1>4, PlainTuples, PlainDone

LEMMA ForgetDeviceHolds ==
  ASSUME NEW of, Holds(of), NEW p \in Procs, ForgetDevice(p)
  PROVE  Holds(of)' /\ Settles(p)
<1>1. PICK gone : /\ gone \subseteq Records /\ fs' = Without(gone)
                  /\ Fail(p) \/ (Go(p, <<>>) /\ UNCHANGED said)
  BY DEF ForgetDevice
<1>2. At(p, "forgetdevice") /\ UNCHANGED <<todo, mem, mishaps>> /\ "forgetdevice" \notin Leaders
  BY DEF ForgetDevice, Leaders
<1>3. Quiet(p, gone)
  BY <1>1 DEF Quiet, QuietKinds, Records
<1>4. Changes(fs, fs', gone)
  BY <1>1, DropChanges
<1>5. RestStep(p, of) /\ mishaps' \in 0..Mishaps /\ (Fail(p) \/ (Go(p, <<>>) /\ SaidStep(p)))
  BY <1>1, <1>2, RestSame DEF SaidStep, Holds, TypedInv
<1> QED BY <1>2, <1>3, <1>4, <1>5, PlainTuples, PlainDone
-----------------------------------------------------------------------------
(* The invariant, and what it is for.                                      *)

LEMMA InitHolds ==
  ASSUME Init
  PROVE  Inv
<1>1. PICK scene \in Scenes :
          /\ fs = scene.fs /\ todo = scene.todo /\ mishaps = scene.mishaps
          /\ task = [p \in Procs |-> <<>>] /\ said = [p \in Procs |-> {}]
          /\ mem = [p \in Procs |-> [of |-> <<>>, dirty |-> FALSE, old |-> FALSE]]
  BY DEF Init
<1>2. IsScene(scene)
  BY ScenesAssumption
<1>3. PICK of \in [Audio(fs) -> Hashes] : IsHome(fs, of)
  BY <1>1, <1>2 DEF IsScene
<1>4. todo = [p \in Procs |-> todo[p]] /\ mishaps \in 0..Mishaps
  BY <1>1, <1>2 DEF IsScene
<1>5. TypedInv
  BY <1>1, <1>4 DEF TypedInv
<1>6. ASSUME NEW p \in Procs
      PROVE  /\ TodoOK(fs, todo[p]) /\ TaskOK(fs, of, task[p]) /\ MemOK(fs, of, mem[p])
             /\ TmpReady(fs, p, task[p])
  <2>1. TodoOK(fs, todo[p])
    BY <1>1, <1>2 DEF IsScene, TodoOK
  <2>2. task[p] = <<>> /\ TaskOK(fs, of, <<>>) /\ TmpReady(fs, p, task[p])
    BY <1>1, PlainTuples, PlainTask DEF TmpReady
  <2>3. MemOK(fs, of, mem[p])
    <3>1. PICK b, n : b = <<>> /\ n = FALSE
      OBVIOUS
    <3>2. mem[p] = [of |-> b, dirty |-> n, old |-> n]
      BY <1>1, <3>1
    <3>3. DOMAIN b = {}
      BY <3>1
    <3> QED BY <3>2, <3>3 DEF MemOK, Maps
  <2> QED BY <2>1, <2>2, <2>3
<1>7. HomeInv(of)
  BY <1>3, <1>6 DEF HomeInv, IsHome
<1> QED BY <1>5, <1>7 DEF Inv

LEMMA StutterHolds ==
  ASSUME Inv, UNCHANGED vars
  PROVE  Inv'
BY DEF Inv, TypedInv, HomeInv, vars

LEMMA StepHolds ==
  ASSUME NEW of, Holds(of), Next
  PROVE  \E og : Holds(og)'
<1>1. PICK p \in Procs : \/ NextOfFiles(p) \/ NextOfTones(p) \/ NextOfEdits(p) \/ NextOfIrs(p)
                         \/ NextOfMigration(p) \/ NextOfRecords(p)
  BY DEF Next
<1>2. CASE NextOfFiles(p)
  BY <1>2, StartHolds, CrashHolds, FaultHolds, TellHolds, WrittenHolds, SaveTmpHolds, FillTmpHolds,
     PublishHolds DEF NextOfFiles
<1>3. CASE NextOfTones(p)
  BY <1>3, DataSafePlaceHolds, CopiedHolds, VerifyHolds, RenameHolds, UpsertVariantHolds, ImportHolds,
     ImportDirectoryHolds, ForkHolds, GenerateHolds, GenerateToHolds, AutoRegisterHolds, AnnotateHolds,
     AddGuitarHolds DEF NextOfTones
<1>4. CASE NextOfEdits(p)
  BY <1>4, EditHolds, PatchHolds, UsbTapsCmdHolds, TapOneHolds, NormalizeHolds, TrimHolds,
     NormalizeRecordHolds DEF NextOfEdits
<1>5. CASE NextOfIrs(p)
  BY <1>5, RegisterIrsHolds, IrScanHolds, ScanOneHolds, ForgetHolds, BackfillHolds, SaveDirtyHolds,
     ImportWavHolds, CopyWavHolds, WriteSidecarHolds, RegisterHolds, RebindHolds, SaveMappingHolds,
     RetireHolds DEF NextOfIrs
<1>6. CASE NextOfMigration(p)
  BY <1>6, DryRunHolds, RunMigrationHolds, MigrateInstrumentsHolds, StripPrefsHolds, MigrateOneToneHolds,
     HealHolds, HealMetaHolds, LoadForMigrationHolds, MigrateOneIrHolds, WriteStubHolds DEF NextOfMigration
<1>7. CASE NextOfRecords(p)
  BY <1>7, DiscoverHolds, RecordTmpOpenedHolds, RecordFilledHolds, RecordPublishedHolds,
     ForgetDeviceHolds DEF NextOfRecords
<1> QED BY <1>1, <1>2, <1>3, <1>4, <1>5, <1>6, <1>7

\* Whatever commands run at the same time, and wherever they are killed, each
\* of them keeps the home as it must be for all the others.
THEOREM HomeKept == Spec => []Inv
<1>1. Init => Inv
  BY InitHolds
<1>2. Inv /\ [Next]_vars => Inv'
  <2> SUFFICES ASSUME Inv, [Next]_vars PROVE Inv'
    OBVIOUS
  <2>1. CASE UNCHANGED vars
    BY <2>1, StutterHolds
  <2>2. CASE Next
    <3>1. PICK of : Holds(of)
      BY DEF Inv, Holds
    <3>2. PICK og : Holds(og)'
      BY <2>2, <3>1, StepHolds
    <3> QED BY <3>2 DEF Holds, Inv
  <2> QED BY <2>1, <2>2
<1> QED BY <1>1, <1>2, PTL DEF Spec

\* No hash of mapping.json is ever bound to a WAV of other content, for any
\* number of commands at once and any list of them that a user may run: two IRs
\* of the same name never share a path, and an entry is never older than what
\* the path holds (ir_library.choose_dest, register, migrate_irs).
THEOREM HashesBoundTruly == Spec => []IrTruthful
<1>1. Inv => IrTruthful
  <2> SUFFICES ASSUME Inv, Exists(Mapping), NEW h \in DOMAIN fs[Mapping], Exists(fs[Mapping][h])
               PROVE  fs[fs[Mapping][h]] \in {h, Torn}
    BY DEF IrTruthful
  <2>1. PICK of \in [Audio(fs) -> Hashes] : HomeInv(of)
    BY DEF Inv
  <2>2. Names(fs, of, fs[Mapping][h], h) /\ WavsAre(fs, of)
    BY <2>1 DEF HomeInv, IsSetUp, Maps, Exists
  <2>3. fs[Mapping][h] \in Audio(fs) /\ of[fs[Mapping][h]] = h
    BY <2>2 DEF Names, Audio, Exists
  <2> QED BY <2>2, <2>3 DEF WavsAre
<1> QED BY <1>1, HomeKept, PTL
===============================================================================
