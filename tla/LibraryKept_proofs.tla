-------------------------- MODULE LibraryKept_proofs --------------------------
(***************************************************************************)
(* No tone is lost and no record of a device is found half written, for    *)
(* any number of commands, wherever they are killed and whatever write     *)
(* fails.                                                                  *)
(*                                                                         *)
(* Nothing locks these files, so each theorem says which steps of two      *)
(* commands it takes to come one after the other.                          *)
(***************************************************************************)
EXTENDS LibraryVerbs_proofs

\* The presets that the next step of a command writes or removes, and those that
\* a copy, its verification or an automatic registration relies on.
Writes(p) ==
    LET s == Step(p)
    IN  CASE s.op \in {"place", "copied", "rename", "heal"} -> {Tone(s.r.slug)}
          [] s.op = "verify" -> {Tone(s.r.slug), s.r.src}
          [] s.op \in {"write", "tap", "trim"} -> {s.at}
          [] s.op \in {"edit", "patch"} -> {s.r.at}
          [] s.op = "generate" -> {Tone(VariantSlug(s.r.id.words, KeyOf(s.r.guitar)))}
          [] s.op = "generateto" -> {s.r.src[1]}
          [] s.op = "autoregister" -> {Tone(s.r.src[1][2])}
          [] OTHER -> {}
Uses(p) ==
    LET s == Step(p)
    IN  CASE s.op \in {"copied", "verify"} -> {Tone(s.r.slug), s.r.src}
          [] s.op = "autoregister" -> {s.r.src[1]}
          [] OTHER -> {}

\* No command is about to write what another is copying ...
TonesApart ==
    \A p, q \in Procs : p # q /\ task[p] # <<>> /\ task[q] # <<>> => Uses(p) \cap Writes(q) = {}
\* ... and generate -o is not told to replace a preset.
NewFiles == \A p \in Procs : At(p, "generateto") => ~Exists(Item(p).src[1])

\* What a write, a copy and its verification find in the files.
WriteReady(p) ==
    At(p, "write") => Exists(Step(p).at) /\ fs[Step(p).at] = Torn /\ IsTone(Step(p).c)
CopyReady(p) ==
    LET r == Item(p)
        dest == Tone(r.slug)
    IN  /\ At(p, "copied") \/ At(p, "verify") => Exists(dest) /\ Exists(r.src) /\ dest # r.src
        /\ At(p, "copied") => fs[dest] = Torn
        /\ At(p, "verify") => fs[dest] \in {Torn, fs[r.src]}
CreatedReady(p) ==
    LET x == Item(p).src[1]
    IN  At(p, "autoregister") => Exists(x) /\ IsPreset(x) /\ IsTone(fs[x])
WritesApart ==
    \A p, q \in Procs : p # q /\ At(p, "write") /\ At(q, "write") => Step(p).at # Step(q).at

TonesInv ==
    /\ HasTones(fs) /\ ToneKept /\ WritesApart
    /\ \A p \in Procs : WriteReady(p) /\ CopyReady(p) /\ CreatedReady(p)

\* Two commands do not record the same device at the same time: its temporary
\* file has one name.
Recording(p) == At(p, "recfill") \/ At(p, "recpublish")
RecordsApart ==
    \A p, q \in Procs : p # q /\ Recording(p) /\ (At(q, "rectmp") \/ Recording(q)) =>
        Step(p).row.serial # Step(q).row.serial
RecordReady(p) ==
    LET tmp == RecordTmp(Step(p).row.serial)
    IN  /\ At(p, "recfill") => IsObservation(Step(p).obs)
        /\ At(p, "recpublish") => Exists(tmp) /\ IsObservation(fs[tmp])
RecordsInv == HasRecords(fs) /\ \A p \in Procs : RecordReady(p)
-----------------------------------------------------------------------------
(* Steps that leave the presets, or the records of devices, to the others. *)

SameFiles(kinds) ==
    \A x : x[1] \in kinds => (x \in DOMAIN fs' <=> x \in DOMAIN fs) /\ (x \in DOMAIN fs => fs'[x] = fs[x])
Presets == {"src", "tone"}
RecordKinds == {"device", "rectmp"}

\* The steps that something begun is waiting for.
ToneWaits == {"copied", "verify", "write", "autoregister"}
RecordWaits == {"recfill", "recpublish"}
NextIsNot(p, ops) ==
    task' = [task EXCEPT ![p] = task'[p]] /\ (task'[p] # <<>> => Head(task'[p]).op \notin ops)

TonesAside(p) ==
    /\ SameFiles(Presets) /\ NextIsNot(p, ToneWaits)
    /\ known' = known /\ torn \subseteq torn'
    /\ At(p, "write") => \A t \in known : Step(p).c.tone = t => t \in torn'
RecordsAside(p) ==
    SameFiles(RecordKinds) /\ NextIsNot(p, RecordWaits)

LEMMA OthersStay ==
  ASSUME TypedInv, NEW p \in Procs, task' = [task EXCEPT ![p] = task'[p]]
  PROVE  \A q \in Procs : q # p =>
             /\ task'[q] = task[q]
             /\ Step(q)' = Step(q) /\ Item(q)' = Item(q) /\ \A op : At(q, op)' <=> At(q, op)
<1>1. task = [q \in Procs |-> task[q]]
  BY DEF TypedInv
<1>2. \A q \in Procs : q # p => task'[q] = task[q]
  BY <1>1
<1> QED BY <1>2 DEF Step, Item, At

LEMMA PathsOf ==
  ASSUME NEW of, Holds(of), NEW p \in Procs
  PROVE  /\ At(p, "write") => IsPreset(Step(p).at)
         /\ At(p, "copied") \/ At(p, "verify") => IsPreset(Item(p).src)
         /\ \A slug : IsPreset(Tone(slug))
<1>1. At(p, "write") => IsPreset(Step(p).at)
  <2>1. At(p, "write") => StepOK(fs, of, Step(p)) /\ Step(p).op = "write"
    BY Acting DEF At, Step
  <2> QED BY <2>1 DEF StepOK
<1>2. At(p, "copied") \/ At(p, "verify") => IsPreset(Item(p).src)
  <2>1. At(p, "copied") \/ At(p, "verify") => StepOK(fs, of, Step(p)) /\ Step(p).op \in PlacingOps
    BY Acting DEF At, Step, PlacingOps
  <2> QED BY <2>1 DEF StepOK, IsPlacing, Item
<1>3. \A slug : IsPreset(Tone(slug))
  BY DEF IsPreset, Tone
<1> QED BY <1>1, <1>2, <1>3

LEMMA TonesAsideKeep ==
  ASSUME NEW of, Holds(of), TonesInv, NEW p \in Procs, TonesAside(p)
  PROVE  TonesInv'
<1>1. PICK g : g = fs'
  OBVIOUS
<1>2. \A x : IsPreset(x) => (x \in DOMAIN g <=> x \in DOMAIN fs) /\ (x \in DOMAIN fs => g[x] = fs[x])
  BY <1>1 DEF TonesAside, SameFiles, Presets, IsPreset
<1>3. HasTones(g)
  BY <1>2 DEF TonesInv, HasTones
<1>4. \A q \in Procs : q # p =>
             /\ task'[q] = task[q]
             /\ Step(q)' = Step(q) /\ Item(q)' = Item(q) /\ \A op : At(q, op)' <=> At(q, op)
  BY OthersStay DEF Holds, TonesAside, NextIsNot
<1>5. ~At(p, "write")' /\ ~At(p, "copied")' /\ ~At(p, "verify")' /\ ~At(p, "autoregister")'
  BY DEF TonesAside, NextIsNot, ToneWaits, At
<1>6. ASSUME NEW q \in Procs PROVE WriteReady(q)' /\ CopyReady(q)' /\ CreatedReady(q)'
  <2>1. CASE q = p
    BY <1>5, <2>1 DEF WriteReady, CopyReady, CreatedReady
  <2>2. CASE q # p
    <3>1. WriteReady(q) /\ CopyReady(q) /\ CreatedReady(q)
      BY DEF TonesInv
    <3>2. WriteReady(q)'
      BY <1>1, <1>2, <1>4, <2>2, <3>1, PathsOf DEF WriteReady, Exists
    <3>3. CopyReady(q)'
      BY <1>1, <1>2, <1>4, <2>2, <3>1, PathsOf DEF CopyReady, Exists
    <3>4. CreatedReady(q)'
      BY <1>1, <1>2, <1>4, <2>2, <3>1 DEF CreatedReady, Exists
    <3> QED BY <3>2, <3>3, <3>4
  <2> QED BY <2>1, <2>2
<1>7. WritesApart'
  BY <1>4, <1>5 DEF TonesInv, WritesApart
<1>8. ToneKept'
  <2> SUFFICES ASSUME NEW t \in known
               PROVE  \/ t \in torn' \/ \E x \in HspFiles' : g[x].tone = t
                      \/ \E q \in Procs : At(q, "write")' /\ Step(q)'.c.tone = t
    BY <1>1 DEF ToneKept, TonesAside
  <2>1. CASE t \in torn
    BY <2>1 DEF TonesAside
  <2>2. CASE \E x \in HspFiles : fs[x].tone = t
    BY <1>1, <1>2, <2>2 DEF HspFiles, IsPreset
  <2>3. ASSUME NEW q \in Procs, At(q, "write"), Step(q).c.tone = t
        PROVE  t \in torn' \/ \E r \in Procs : At(r, "write")' /\ Step(r)'.c.tone = t
    <3>1. CASE q = p
      BY <2>3, <3>1 DEF TonesAside
    <3>2. CASE q # p
      BY <1>4, <2>3, <3>2
    <3> QED BY <3>1, <3>2
  <2> QED BY <2>1, <2>2, <2>3 DEF TonesInv, ToneKept
<1> QED BY <1>1, <1>3, <1>6, <1>7, <1>8 DEF TonesInv

LEMMA RecordsAsideKeep ==
  ASSUME NEW of, Holds(of), RecordsInv, NEW p \in Procs, RecordsAside(p)
  PROVE  RecordsInv'
<1>1. PICK g : g = fs'
  OBVIOUS
<1>2. \A x : x[1] \in RecordKinds => (x \in DOMAIN g <=> x \in DOMAIN fs) /\ (x \in DOMAIN fs => g[x] = fs[x])
  BY <1>1 DEF RecordsAside, SameFiles
<1>3. HasRecords(g)
  BY <1>2 DEF RecordsInv, HasRecords, RecordKinds
<1>4. \A q \in Procs : q # p =>
             Step(q)' = Step(q) /\ \A op : At(q, op)' <=> At(q, op)
  BY OthersStay DEF Holds, RecordsAside, NextIsNot
<1>5. \A serial : RecordTmp(serial)[1] \in RecordKinds
  BY DEF RecordTmp, RecordKinds
<1>6. ASSUME NEW q \in Procs PROVE RecordReady(q)'
  <2>1. CASE q = p
    BY <2>1 DEF RecordReady, RecordsAside, NextIsNot, RecordWaits, At
  <2>2. CASE q # p
    BY <1>1, <1>2, <1>4, <1>5, <2>2 DEF RecordReady, RecordsInv, Exists
  <2> QED BY <2>1, <2>2
<1> QED BY <1>1, <1>3, <1>6 DEF RecordsInv
-----------------------------------------------------------------------------
(* The steps that concern neither.                                         *)

Aside(p) == TonesAside(p) /\ RecordsAside(p)
Guarded == Presets \cup RecordKinds

LEMMA SettledAside ==
  ASSUME NEW p \in Procs, ~At(p, "write"), Settles(p), UNCHANGED <<known, torn>>, SameFiles(Guarded)
  PROVE  Aside(p)
<1>1. SameFiles(Presets) /\ SameFiles(RecordKinds)
  BY DEF SameFiles, Guarded
<1>2. NextIsNot(p, ToneWaits) /\ NextIsNot(p, RecordWaits)
  BY DEF Settles, Settled, NextIsNot, Leaders, Followers, ToneWaits, RecordWaits
<1> QED BY <1>1, <1>2 DEF Aside, TonesAside, RecordsAside

LEMMA SameOnDisk ==
  ASSUME NEW kinds
  PROVE  /\ UNCHANGED fs => SameFiles(kinds)
         /\ \A x, c : x[1] \notin kinds /\ Put(x, c) => SameFiles(kinds)
         /\ \A gone : (\A x \in gone : x[1] \notin kinds) /\ fs' = Without(gone) => SameFiles(kinds)
<1>1. UNCHANGED fs => SameFiles(kinds)
  BY DEF SameFiles
<1>2. ASSUME NEW x, NEW c, x[1] \notin kinds, Put(x, c) PROVE SameFiles(kinds)
  BY <1>2 DEF Put, Updated, SameFiles
<1>3. ASSUME NEW gone, \A x \in gone : x[1] \notin kinds, fs' = Without(gone) PROVE SameFiles(kinds)
  BY <1>3 DEF Without, SameFiles
<1> QED BY <1>1, <1>2, <1>3

LEMMA IrsAside ==
  ASSUME NEW of, Holds(of), NEW p \in Procs, NextOfIrs(p)
  PROVE  Aside(p)
<1>1. Settles(p)
  BY RegisterIrsHolds, IrScanHolds, ScanOneHolds, ForgetHolds, BackfillHolds, SaveDirtyHolds,
     ImportWavHolds, CopyWavHolds, WriteSidecarHolds, RegisterHolds, RebindHolds, SaveMappingHolds,
     RetireHolds DEF NextOfIrs
<1>2. UNCHANGED <<known, torn>>
  BY SMTT(40) DEF NextOfIrs, RegisterIrs, IrScan, ScanOne, Forget, Backfill, SaveDirty, ImportWav, CopyWav,
     WriteSidecar, Register, Rebind, SaveMapping, Retire
<1>3. ~At(p, "write")
  BY DEF NextOfIrs, RegisterIrs, IrScan, ScanOne, Forget, Backfill, SaveDirty, ImportWav, CopyWav,
     WriteSidecar, Register, Rebind, SaveMapping, Retire, At
<1>4. SameFiles(Guarded)
  <2>1. CASE RegisterIrs(p) \/ IrScan(p) \/ ScanOne(p) \/ Forget(p) \/ Backfill(p) \/ SaveDirty(p)
             \/ Register(p) \/ Rebind(p)
    <3>1. UNCHANGED fs
      BY <2>1 DEF RegisterIrs, IrScan, ScanOne, Forget, Backfill, SaveDirty, Register, Rebind
    <3> QED BY <3>1, SameOnDisk
  <2>2. CASE ImportWav(p)
    <3>1. PICK dest : /\ dest = IF InLibrary(Step(p).w) THEN Step(p).w ELSE ChooseDest(Step(p).w, Step(p).h)
                      /\ IF Exists(dest) THEN UNCHANGED fs ELSE Put(dest, Torn)
      BY <2>2 DEF ImportWav
    <3>2. At(p, "import_wav") /\ task[p] # <<>> /\ Step(p).op = "import_wav"
      BY <2>2 DEF ImportWav, At, Step
    <3>3. Names(fs, of, Step(p).w, Step(p).h) /\ Step(p).w \in DOMAIN fs /\ WavsAre(fs, of)
      BY <3>2, Acting DEF StepOK, BindingOps
    <3>4. CASE InLibrary(Step(p).w)
      BY <3>1, <3>3, <3>4, SameOnDisk DEF Exists
    <3>5. CASE ~InLibrary(Step(p).w)
      <4>1. Step(p).w[1] = "ext"
        BY <3>3, <3>5 DEF Names, InLibrary
      <4>2. dest[1] = "wav"
        BY <3>1, <3>3, <3>5, <4>1, ChosenDest
      <4> QED BY <3>1, <4>2, SameOnDisk DEF Guarded, Presets, RecordKinds
    <3> QED BY <3>4, <3>5
  <2>3. CASE CopyWav(p)
    <3>1. Put(Step(p).w, Step(p).c) /\ task[p] # <<>> /\ Step(p).op = "copywav"
      BY <2>3 DEF CopyWav, At, Step
    <3>2. Step(p).w[1] = "wav"
      BY <3>1, Acting DEF StepOK
    <3> QED BY <3>1, <3>2, SameOnDisk DEF Guarded, Presets, RecordKinds
  <2>4. CASE WriteSidecar(p)
    <3>1. \/ UNCHANGED fs
          \/ Put(Sidecar(Step(p).w), Scaffold(Step(p).w, Step(p).h))
      BY <2>4 DEF WriteSidecar, Put
    <3>2. Sidecar(Step(p).w)[1] = "side"
      BY DEF Sidecar
    <3> QED BY <3>1, <3>2, SameOnDisk DEF Guarded, Presets, RecordKinds
  <2>5. CASE SaveMapping(p)
    BY <2>5, SameOnDisk DEF SaveMapping, Mapping, Guarded, Presets, RecordKinds
  <2>6. CASE Retire(p)
    BY <2>6, SameOnDisk DEF Retire, LegacyMapping, Guarded, Presets, RecordKinds
  <2> QED BY <2>1, <2>2, <2>3, <2>4, <2>5, <2>6 DEF NextOfIrs
<1> QED BY <1>1, <1>2, <1>3, <1>4, SettledAside

LEMMA MigrationAside ==
  ASSUME NEW of, Holds(of), NEW p \in Procs, NextOfMigration(p), ~Heal(p)
  PROVE  Aside(p)
<1>1. Settles(p)
  BY DryRunHolds, RunMigrationHolds, MigrateInstrumentsHolds, StripPrefsHolds, MigrateOneToneHolds,
     HealMetaHolds, LoadForMigrationHolds, MigrateOneIrHolds, WriteStubHolds DEF NextOfMigration
<1>2. UNCHANGED <<known, torn>>
  BY DEF NextOfMigration, DryRun, RunMigration, MigrateInstruments, StripPrefs, MigrateOneTone,
     HealMeta, LoadForMigration, MigrateOneIr, WriteStub
<1>3. ~At(p, "write")
  BY DEF NextOfMigration, DryRun, RunMigration, MigrateInstruments, StripPrefs, MigrateOneTone,
     HealMeta, LoadForMigration, MigrateOneIr, WriteStub, At
<1>4. SameFiles(Guarded)
  <2>1. CASE RunMigration(p) \/ MigrateOneTone(p) \/ HealMeta(p) \/ LoadForMigration(p)
    <3>1. UNCHANGED fs
      BY <2>1 DEF RunMigration, MigrateOneTone, HealMeta, LoadForMigration
    <3> QED BY <3>1, SameOnDisk
  <2>2. CASE DryRun(p)
    BY <2>2, SameOnDisk DEF DryRun, PlanFile, Guarded, Presets, RecordKinds
  <2>3. CASE MigrateInstruments(p)
    BY <2>3, SameOnDisk DEF MigrateInstruments, SaveProfile, Guitar, Guarded, Presets, RecordKinds
  <2>4. CASE StripPrefs(p)
    BY <2>4, SameOnDisk DEF StripPrefs, Prefs, Guarded, Presets, RecordKinds
  <2>5. CASE MigrateOneIr(p)
    <3>1. PICK r, dest : /\ r = Item(p) /\ dest = ChooseDest(r.wav, r.hash)
                         /\ \/ UNCHANGED fs
                            \/ Put(dest, Torn) /\ ~InLibrary(r.wav) /\ Exists(r.wav)
      BY <2>5 DEF MigrateOneIr, ChooseIrDest
    <3>2. task[p] # <<>> /\ Step(p).op = "ir"
      BY <2>5 DEF MigrateOneIr, At, Step
    <3>3. Names(fs, of, r.wav, r.hash) /\ WavsAre(fs, of)
      BY <3>1, <3>2, Acting DEF StepOK, Item
    <3>4. CASE ~InLibrary(r.wav) /\ Exists(r.wav)
      <4>1. r.wav[1] = "ext" /\ r.wav \in DOMAIN fs
        BY <3>3, <3>4 DEF Names, InLibrary, Exists
      <4>2. dest[1] = "wav"
        BY <3>1, <3>3, <4>1, ChosenDest
      <4> QED BY <3>1, <4>2, SameOnDisk DEF Guarded, Presets, RecordKinds
    <3> QED BY <3>1, <3>4, SameOnDisk
  <2>6. CASE WriteStub(p)
    <3>1. Put(Sidecar(Step(p).w), Scaffold(Step(p).w, Step(p).h))
      BY <2>6 DEF WriteStub
    <3>2. Sidecar(Step(p).w)[1] = "side"
      BY DEF Sidecar
    <3> QED BY <3>1, <3>2, SameOnDisk DEF Guarded, Presets, RecordKinds
  <2> QED BY <2>1, <2>2, <2>3, <2>4, <2>5, <2>6 DEF NextOfMigration
<1> QED BY <1>1, <1>2, <1>3, <1>4, SettledAside

LEMMA QuietTonesAside ==
  ASSUME NEW of, Holds(of), NEW p \in Procs,
         \/ UpsertVariant(p) \/ Import(p) \/ ImportDirectory(p) \/ Fork(p) \/ Annotate(p) \/ AddGuitar(p)
         \/ UsbTapsCmd(p) \/ Normalize(p) \/ NormalizeRecord(p) \/ Tell(p) \/ Discover(p)
  PROVE  Aside(p)
<1>1. Settles(p)
  BY UpsertVariantHolds, ImportHolds, ImportDirectoryHolds, ForkHolds, AnnotateHolds, AddGuitarHolds,
     UsbTapsCmdHolds, NormalizeHolds, NormalizeRecordHolds, TellHolds, DiscoverHolds
<1>2. UNCHANGED <<known, torn>> /\ ~At(p, "write")
  <2>1. CASE UpsertVariant(p) \/ Import(p) \/ ImportDirectory(p) \/ Fork(p) \/ Annotate(p)
    BY <2>1 DEF UpsertVariant, Import, ImportDirectory, Fork, Annotate, At
  <2>2. CASE AddGuitar(p) \/ UsbTapsCmd(p) \/ Normalize(p) \/ NormalizeRecord(p) \/ Tell(p) \/ Discover(p)
    BY <2>2 DEF AddGuitar, UsbTapsCmd, Normalize, NormalizeRecord, Tell, Discover, At
  <2> QED BY <2>1, <2>2
<1>3. SameFiles(Guarded)
  <2>1. CASE AddGuitar(p)
    BY <2>1, SameOnDisk DEF AddGuitar, SaveProfile, Guitar, Guarded, Presets, RecordKinds
  <2>2. CASE UpsertVariant(p) \/ Import(p) \/ ImportDirectory(p) \/ Fork(p) \/ Annotate(p)
    <3>1. UNCHANGED fs
      BY <2>2 DEF UpsertVariant, Import, ImportDirectory, Fork, Annotate
    <3> QED BY <3>1 DEF SameFiles
  <2>3. CASE UsbTapsCmd(p) \/ Normalize(p) \/ NormalizeRecord(p) \/ Tell(p) \/ Discover(p)
    <3>1. UNCHANGED fs
      BY <2>3 DEF UsbTapsCmd, Normalize, NormalizeRecord, Tell, Discover
    <3> QED BY <3>1, SameOnDisk
  <2> QED BY <2>1, <2>2, <2>3
<1> QED BY <1>1, <1>2, <1>3, SettledAside

LEMMA NextLinked ==
  ASSUME NEW of, Holds(of), NEW p \in Procs, task[p] # <<>>, Go(p, <<>>)
  PROVE  /\ task' = [task EXCEPT ![p] = task'[p]]
         /\ task'[p] # <<>> => Linked(Step(p), Head(task'[p]))
<1>1. task = [q \in Procs |-> task[q]] /\ TaskOK(fs, of, task[p])
  BY DEF Holds, TypedInv, HomeInv
<1>2. task' = [task EXCEPT ![p] = Onto(<<>>, @)]
  BY DEF Go, Onto
<1>3. PICK t, u : t = task[p] /\ u = Onto(<<>>, t) /\ task'[p] = u
  BY <1>1, <1>2
<1>4. IsSeq(<<>>) /\ Len(<<>>) = 0
  <2>1. <<>> \in Seq({}) /\ Len(<<>>) = 0
    OBVIOUS
  <2> QED BY ONLY <2>1, IsSeqOf
<1>5. /\ IsSeq(t) /\ t # <<>> /\ \A i \in 2..Len(t) : Linked(t[i - 1], t[i])
      /\ Len(t) \in Nat /\ Head(t) = t[1]
  BY <1>1, <1>3, SeqFacts DEF TaskOK
<1>6. /\ IsSeq(u) /\ Len(u) = Len(t) - 1
      /\ \A i \in 1..(Len(t) - 1) : u[i] = t[i + 1]
  <2>1. PICK e : e = <<>>
    OBVIOUS
  <2>2. IsSeq(t) /\ IsSeq(e) /\ t # <<>>
    BY <1>4, <1>5, <2>1
  <2>3. /\ IsSeq(Onto(e, t)) /\ Len(Onto(e, t)) = Len(e) + Len(t) - 1
        /\ \A i \in (Len(e) + 1)..(Len(e) + Len(t) - 1) : Onto(e, t)[i] = t[i - Len(e) + 1]
    BY ONLY <2>2, OntoIndex
  <2>4. u = Onto(e, t)
    BY <1>3, <2>1
  <2>5. Len(e) = 0
    BY <1>4, <2>1
  <2> QED BY <1>5, <2>3, <2>4, <2>5
<1>7. ASSUME u # <<>> PROVE Linked(Head(t), Head(u))
  <2>1. Head(u) = u[1] /\ 1 \in 1..(Len(t) - 1)
    BY <1>6, <1>7, SeqFacts
  <2>2. u[1] = t[2] /\ 2 \in 2..Len(t) /\ 2 - 1 = 1
    BY <1>5, <1>6, <2>1
  <2> QED BY <1>5, <2>1, <2>2
<1> QED BY <1>2, <1>3, <1>7 DEF Step

LEMMA NextPushed ==
  ASSUME NEW of, Holds(of), NEW p \in Procs, task[p] # <<>>, NEW s, IsSeq(s), s # <<>>, Go(p, s)
  PROVE  task' = [task EXCEPT ![p] = task'[p]] /\ task'[p] # <<>> /\ Head(task'[p]) = s[1]
<1>1. task = [q \in Procs |-> task[q]] /\ TaskOK(fs, of, task[p])
  BY DEF Holds, TypedInv, HomeInv
<1>2. task' = [task EXCEPT ![p] = Onto(s, @)]
  BY DEF Go, Onto
<1>3. PICK t, u : t = task[p] /\ u = Onto(s, t) /\ task'[p] = u
  BY <1>1, <1>2
<1>4. IsSeq(t) /\ t # <<>> /\ Len(t) \in Nat /\ DOMAIN t = 1..Len(t) /\ 1 \in DOMAIN t
  BY <1>1, <1>3, SeqFacts DEF TaskOK
<1>5. Len(s) \in Nat /\ 1 \in 1..Len(s)
  BY SeqFacts
<1>6. IsSeq(u) /\ Len(u) = Len(s) + Len(t) - 1 /\ \A i \in 1..Len(s) : u[i] = s[i]
  <2>1. IsSeq(t) /\ IsSeq(s) /\ t # <<>>
    BY <1>4
  <2>2. /\ IsSeq(Onto(s, t)) /\ Len(Onto(s, t)) = Len(s) + Len(t) - 1
        /\ \A i \in 1..Len(s) : Onto(s, t)[i] = s[i]
    BY ONLY <2>1, OntoIndex
  <2> QED BY <1>3, <2>2
<1>7. u # <<>> /\ Head(u) = u[1] /\ u[1] = s[1]
  <2>1. Len(u) > 0
    BY <1>4, <1>5, <1>6
  <2>2. u # <<>>
    BY <2>1
  <2> QED BY <1>5, <1>6, <2>2, SeqFacts
<1> QED BY <1>2, <1>3, <1>7

LEMMA PairPushed ==
  ASSUME NEW of, Holds(of), NEW p \in Procs, task[p] # <<>>, NEW a, NEW b, Go(p, <<a, b>>)
  PROVE  task' = [task EXCEPT ![p] = task'[p]] /\ task'[p] # <<>> /\ Head(task'[p]) = a
<1>1. PICK s : s = <<a, b>>
  OBVIOUS
<1>2. s \in Seq({a, b}) /\ s # <<>> /\ s[1] = a
  BY <1>1
<1>3. IsSeq(s)
  BY ONLY <1>2, IsSeqOf
<1> QED BY <1>1, <1>2, <1>3, NextPushed

LEMMA WritePushed ==
  ASSUME NEW of, Holds(of), NEW p \in Procs, task[p] # <<>>, NEW a, NEW more, IsSeq(more),
         Go(p, <<a>> \o more)
  PROVE  task' = [task EXCEPT ![p] = task'[p]] /\ task'[p] # <<>> /\ Head(task'[p]) = a
<1>1. PICK s, b : b = <<a>> /\ s = b \o more
  OBVIOUS
<1>2. b \in Seq({a}) /\ Len(b) = 1 /\ b[1] = a
  BY <1>1
<1>3. IsSeq(s) /\ Len(s) = 1 + Len(more) /\ Len(more) \in Nat /\ s[1] = a
  <2> DEFINE S == {a} \cup ToSet(more)
  <2>1. b \in Seq(S) /\ more \in Seq(S) /\ Len(more) \in Nat
    <3>1. b \in Seq({a}) /\ more \in Seq(ToSet(more))
      BY <1>2 DEF IsSeq
    <3> QED BY <3>1
  <2> HIDE DEF S
  <2>2. /\ b \o more \in Seq(S) /\ Len(b \o more) = Len(b) + Len(more)
        /\ \A i \in 1..Len(b) : (b \o more)[i] = b[i]
    BY <2>1, ConcatIndex
  <2>3. s \in Seq(S)
    BY <1>1, <2>2
  <2>4. IsSeq(s)
    BY ONLY <2>3, IsSeqOf
  <2> QED BY <1>1, <1>2, <2>1, <2>2, <2>4
<1>4. s # <<>>
  BY <1>3
<1> QED BY <1>1, <1>3, <1>4, NextPushed

LEMMA NextIsAside ==
  ASSUME NEW of, Holds(of), NEW p \in Procs, task[p] # <<>>, Go(p, <<>>)
  PROVE  /\ Step(p).op \notin {"copied", "write"} => NextIsNot(p, ToneWaits)
         /\ Step(p).op # "recfill" => NextIsNot(p, RecordWaits)
<1>1. /\ task' = [task EXCEPT ![p] = task'[p]]
      /\ task'[p] # <<>> => Linked(Step(p), Head(task'[p]))
  BY NextLinked
<1> QED BY <1>1 DEF NextIsNot, Linked, Leaders, Followers, ToneWaits, RecordWaits

\* A file of the user, or a temporary file, comes and goes.
LEMMA FilesAside ==
  ASSUME NEW of, Holds(of), NEW p \in Procs,
         Start(p) \/ Crash(p) \/ Fault(p) \/ SaveTmp(p) \/ FillTmp(p) \/ Publish(p)
  PROVE  Aside(p)
<1>1. task = [q \in Procs |-> task[q]]
  BY DEF Holds, TypedInv
<1>2. \A l : TmpOf(p, l)[1] \notin Guarded
  BY DEF TmpOf, Guarded, Presets, RecordKinds
<1>3. known' = known
  BY DEF Start, Crash, Fault, SaveTmp, FillTmp, Publish
<1>4. torn \subseteq torn' /\ (At(p, "write") => \A t \in known : Step(p).c.tone = t => t \in torn')
  <2>1. CASE Crash(p) \/ Fault(p)
    <3>1. torn' = torn \cup {t \in known : Step(p).op = "write" /\ Step(p).c.tone = t}
      BY <2>1 DEF Crash, Fault, Interrupted
    <3> QED BY <3>1 DEF At, Step
  <2>2. CASE ~(Crash(p) \/ Fault(p))
    <3>1. torn' = torn /\ ~At(p, "write")
      BY <2>2 DEF Start, SaveTmp, FillTmp, Publish, At
    <3> QED BY <3>1
  <2> QED BY <2>1, <2>2
<1>5. SameFiles(Guarded)
  <2>1. CASE Start(p) \/ Crash(p)
    BY <2>1, SameOnDisk DEF Start, Crash
  <2>2. CASE Fault(p)
    <3>1. UNCHANGED fs \/ fs' = Without({TmpOf(p, Step(p).m.id.words)})
      BY <2>2 DEF Fault
    <3> QED BY <1>2, <3>1, SameOnDisk
  <2>3. CASE SaveTmp(p)
    BY <1>2, <2>3, SameOnDisk DEF SaveTmp
  <2>4. CASE FillTmp(p)
    BY <1>2, <2>4, SameOnDisk DEF FillTmp
  <2>5. CASE Publish(p)
    <3>1. PICK x, y, c : /\ x = TmpOf(p, Step(p).m.id.words) /\ y = Meta(Step(p).m.id.words)
                         /\ UNCHANGED fs \/ fs' = Updated(Without({x}), y, c)
      BY <2>5 DEF Publish
    <3>2. x[1] \notin Guarded /\ y[1] \notin Guarded
      BY <1>2, <3>1 DEF Meta, Guarded, Presets, RecordKinds
    <3>3. CASE UNCHANGED fs
      BY <3>3, SameOnDisk
    <3>4. CASE fs' = Updated(Without({x}), y, c)
      BY <3>2, <3>4 DEF Updated, Without, SameFiles
    <3> QED BY <3>1, <3>3, <3>4
  <2> QED BY <2>1, <2>2, <2>3, <2>4, <2>5
<1>6. NextIsNot(p, ToneWaits) /\ NextIsNot(p, RecordWaits)
  <2>1. CASE Start(p)
    <3>1. PICK c : c = Head(todo[p]) /\ task' = [task EXCEPT ![p] = <<[op |-> c.verb, r |-> c]>>] /\ todo[p] # <<>>
      BY <2>1 DEF Start
    <3>2. task' = [task EXCEPT ![p] = task'[p]] /\ task'[p] = <<[op |-> c.verb, r |-> c]>>
      BY <1>1, <3>1
    <3>3. c.verb \in Verbs
      <4>1. IsSeq(todo[p]) /\ \A i \in DOMAIN todo[p] : IsCommand(fs, todo[p][i])
        BY DEF Holds, HomeInv, TodoOK
      <4>2. 1 \in DOMAIN todo[p] /\ c = todo[p][1]
        BY <3>1, <4>1, SeqFacts
      <4> QED BY <4>1, <4>2 DEF IsCommand
    <3>4. Head(task'[p]).op = c.verb
      BY <3>2
    <3> QED BY <3>2, <3>3, <3>4 DEF NextIsNot, Verbs, ToneWaits, RecordWaits
  <2>2. CASE Crash(p)
    <3>1. task' = [task EXCEPT ![p] = task'[p]] /\ task'[p] = <<>>
      BY <1>1, <2>2 DEF Crash
    <3> QED BY <3>1 DEF NextIsNot
  <2>3. ASSUME task[p] # <<>>, Fail(p) PROVE NextIsNot(p, ToneWaits) /\ NextIsNot(p, RecordWaits)
    <3>1. task' = [task EXCEPT ![p] = task'[p]] /\ Settled(task'[p])
      BY <2>3, FailStep DEF TaskStep
    <3> QED BY <3>1 DEF NextIsNot, Settled, Leaders, Followers, ToneWaits, RecordWaits
  <2>4. CASE Fault(p)
    BY <2>3, <2>4 DEF Fault, At
  <2>5. CASE SaveTmp(p)
    <3>1. PICK a, b : /\ a = [Step(p) EXCEPT !.op = "fill"] /\ b = [Step(p) EXCEPT !.op = "publish"]
                      /\ Go(p, <<a, b>>)
      BY <2>5 DEF SaveTmp
    <3>2. task[p] # <<>> /\ Step(p).op = "tmp"
      BY <2>5 DEF SaveTmp, At, Step
    <3>3. Step(p) = [op |-> "tmp", r |-> Step(p).r, m |-> Step(p).m]
      BY <3>2, Acting DEF StepOK
    <3>4. a.op = "fill"
      BY <3>1, <3>3
    <3>5. task' = [task EXCEPT ![p] = task'[p]] /\ Head(task'[p]) = a
      BY <3>1, <3>2, PairPushed
    <3> QED BY <3>4, <3>5 DEF NextIsNot, ToneWaits, RecordWaits
  <2>6. CASE FillTmp(p)
    <3>1. Go(p, <<>>) /\ task[p] # <<>> /\ Step(p).op = "fill"
      BY <2>6 DEF FillTmp, At, Step
    <3> QED BY <3>1, NextIsAside
  <2>7. CASE Publish(p)
    <3>1. (Go(p, <<>>) \/ Fail(p)) /\ task[p] # <<>> /\ Step(p).op = "publish"
      BY <2>7 DEF Publish, At, Step
    <3> QED BY <2>3, <3>1, NextIsAside
  <2> QED BY <2>1, <2>2, <2>4, <2>5, <2>6, <2>7
<1>7. SameFiles(Presets) /\ SameFiles(RecordKinds)
  BY <1>5 DEF SameFiles, Guarded
<1> QED BY <1>3, <1>4, <1>6, <1>7 DEF Aside, TonesAside, RecordsAside
-----------------------------------------------------------------------------
(* The records of devices.                                                 *)

LEMMA RecordStepsAside ==
  ASSUME NEW of, Holds(of), NEW p \in Procs,
         RecordTmpOpened(p) \/ RecordFilled(p) \/ RecordPublished(p) \/ ForgetDevice(p)
  PROVE  TonesAside(p)
<1>1. known' = known /\ torn' = torn /\ ~At(p, "write") /\ task[p] # <<>>
  BY DEF RecordTmpOpened, RecordFilled, RecordPublished, ForgetDevice, At
<1>2. \A serial : RecordTmp(serial)[1] \notin Presets /\ Record(serial)[1] \notin Presets
  BY DEF RecordTmp, Record, Presets
<1>3. CASE RecordTmpOpened(p)
  <2>1. PICK s, obs, a, b : /\ s = Step(p) /\ a = [op |-> "recfill", r |-> s.r, row |-> s.row, obs |-> obs]
                            /\ Go(p, <<a, b>>) /\ Put(RecordTmp(s.row.serial), Torn)
    BY <1>3 DEF RecordTmpOpened
  <2>2. task' = [task EXCEPT ![p] = task'[p]] /\ Head(task'[p]) = a
    BY <1>1, <2>1, PairPushed
  <2>3. SameFiles(Presets)
    BY <1>2, <2>1, SameOnDisk
  <2>4. NextIsNot(p, ToneWaits)
    BY <2>1, <2>2 DEF NextIsNot, ToneWaits
  <2> QED BY <1>1, <2>3, <2>4 DEF TonesAside
<1>4. CASE RecordFilled(p)
  <2>1. Put(RecordTmp(Step(p).row.serial), Step(p).obs) /\ Go(p, <<>>) /\ Step(p).op = "recfill"
    BY <1>4 DEF RecordFilled, At, Step
  <2>2. SameFiles(Presets)
    BY <1>2, <2>1, SameOnDisk
  <2>3. NextIsNot(p, ToneWaits)
    BY <1>1, <2>1, NextIsAside
  <2> QED BY <1>1, <2>2, <2>3 DEF TonesAside
<1>5. CASE RecordPublished(p)
  <2>1. PICK tmp, x, c : /\ tmp = RecordTmp(Step(p).row.serial) /\ x = Record(Step(p).row.serial)
                         /\ fs' = Updated(Without({tmp}), x, c) /\ Go(p, <<>>) /\ Step(p).op = "recpublish"
    BY <1>5 DEF RecordPublished, At, Step
  <2>2. SameFiles(Presets)
    BY <1>2, <2>1 DEF Updated, Without, SameFiles
  <2>3. NextIsNot(p, ToneWaits)
    BY <1>1, <2>1, NextIsAside
  <2> QED BY <1>1, <2>2, <2>3 DEF TonesAside
<1>6. CASE ForgetDevice(p)
  <2>1. PICK gone : gone \subseteq Records /\ fs' = Without(gone)
    BY <1>6 DEF ForgetDevice
  <2>2. SameFiles(Presets)
    BY <2>1, SameOnDisk DEF Records, Presets
  <2>3. Settles(p)
    BY <1>6, ForgetDeviceHolds
  <2>4. NextIsNot(p, ToneWaits)
    BY <2>3 DEF Settles, Settled, NextIsNot, Leaders, Followers, ToneWaits
  <2> QED BY <1>1, <2>2, <2>4 DEF TonesAside
<1> QED BY <1>3, <1>4, <1>5, <1>6

LEMMA RecordsKeep ==
  ASSUME NEW of, Holds(of), RecordsInv, NEW p \in Procs, task' = [task EXCEPT ![p] = task'[p]],
         HasRecords(fs'), RecordReady(p)',
         \A q \in Procs : q # p /\ At(q, "recpublish") =>
             LET tmp == RecordTmp(Step(q).row.serial)
             IN  tmp \in DOMAIN fs => tmp \in DOMAIN fs' /\ fs'[tmp] = fs[tmp]
  PROVE  RecordsInv'
<1>1. PICK g : g = fs'
  OBVIOUS
<1>2. \A q \in Procs : q # p => Step(q)' = Step(q) /\ \A op : At(q, op)' <=> At(q, op)
  BY OthersStay DEF Holds
<1>3. ASSUME NEW q \in Procs, q # p PROVE RecordReady(q)'
  <2>1. RecordReady(q)
    BY DEF RecordsInv
  <2>2. At(q, "recpublish") => RecordTmp(Step(q).row.serial) \in DOMAIN g
                               /\ IsObservation(g[RecordTmp(Step(q).row.serial)])
    BY <1>1, <1>3, <2>1 DEF RecordReady, Exists
  <2> QED BY <1>1, <1>2, <1>3, <2>1, <2>2 DEF RecordReady, Exists
<1>4. \A q \in Procs : RecordReady(q)'
  BY <1>3
<1> QED BY <1>4 DEF RecordsInv

LEMMA OtherTmp ==
  ASSUME RecordsApart, NEW p \in Procs, At(p, "rectmp") \/ Recording(p)
  PROVE  \A q \in Procs : q # p /\ At(q, "recpublish") =>
             RecordTmp(Step(q).row.serial) # RecordTmp(Step(p).row.serial)
BY DEF RecordsApart, Recording, RecordTmp

LEMMA RecordTmpOpenedKeeps ==
  ASSUME NEW of, Holds(of), RecordsInv, RecordsApart, NEW p \in Procs, RecordTmpOpened(p)
  PROVE  RecordsInv'
<1>1. PICK s, tmp, obs, a, b :
          /\ s = Step(p) /\ tmp = RecordTmp(s.row.serial) /\ obs = RecordDeviceIp(s.row, s.at)
          /\ a = [op |-> "recfill", r |-> s.r, row |-> s.row, obs |-> obs]
          /\ Put(tmp, Torn) /\ Go(p, <<a, b>>)
  BY DEF RecordTmpOpened
<1>2. At(p, "rectmp") /\ task[p] # <<>>
  BY DEF RecordTmpOpened, At
<1>3. IsObservation(obs)
  <2>1. PICK old : old = LoadObservations(s.row.serial)
    OBVIOUS
  <2>2. IsObservation(old)
    <3>1. IsObservation(NoRecord)
      BY DEF NoRecord, IsObservation
    <3>2. Record(s.row.serial) \in Records => IsObservation(fs[Record(s.row.serial)])
      BY DEF Records, RecordsInv, HasRecords
    <3> QED BY <2>1, <3>1, <3>2 DEF LoadObservations
  <2>3. obs = [old EXCEPT !.ip = s.row.ip, !.at = s.at, !.port = s.row.port]
    BY <1>1, <2>1 DEF RecordDeviceIp
  <2>4. obs = [ip |-> s.row.ip, port |-> s.row.port, at |-> s.at]
    BY <2>2, <2>3 DEF IsObservation
  <2> QED BY <2>4 DEF IsObservation
<1>4. task' = [task EXCEPT ![p] = task'[p]] /\ task'[p] # <<>> /\ Head(task'[p]) = a
  BY <1>1, <1>2, PairPushed
<1>5. RecordReady(p)'
  <2>1. a.op = "recfill" /\ a.obs = obs
    BY <1>1
  <2> QED BY <1>3, <1>4, <2>1 DEF RecordReady, At, Step
<1>6. PICK g : g = fs' /\ g = Updated(fs, tmp, Torn)
  BY <1>1 DEF Put
<1>7. HasRecords(fs')
  <2>1. tmp[1] # "device"
    BY <1>1 DEF RecordTmp
  <2>2. HasRecords(g)
    BY <1>6, <2>1 DEF Updated, HasRecords, RecordsInv
  <2> QED BY <1>6, <2>2
<1>8. \A x : x # tmp => (x \in DOMAIN fs => x \in DOMAIN fs' /\ fs'[x] = fs[x])
  BY <1>6 DEF Updated
<1>9. \A q \in Procs : q # p /\ At(q, "recpublish") => RecordTmp(Step(q).row.serial) # tmp
  BY <1>1, <1>2, OtherTmp
<1> QED BY <1>4, <1>5, <1>7, <1>8, <1>9, RecordsKeep

LEMMA RecordFilledKeeps ==
  ASSUME NEW of, Holds(of), RecordsInv, RecordsApart, NEW p \in Procs, RecordFilled(p)
  PROVE  RecordsInv'
<1>1. PICK s, tmp : s = Step(p) /\ tmp = RecordTmp(s.row.serial) /\ Put(tmp, s.obs)
  BY DEF RecordFilled
<1>2. At(p, "recfill") /\ task[p] # <<>> /\ s.op = "recfill" /\ Go(p, <<>>)
  BY <1>1 DEF RecordFilled, At, Step
<1>3. IsObservation(s.obs)
  BY <1>1, <1>2 DEF RecordsInv, RecordReady
<1>4. task' = [task EXCEPT ![p] = task'[p]] /\ (task'[p] # <<>> => Linked(s, Head(task'[p])))
  BY <1>1, <1>2, NextLinked
<1>5. PICK g : g = fs' /\ g = Updated(fs, tmp, s.obs)
  BY <1>1 DEF Put
<1>6. tmp \in DOMAIN g /\ g[tmp] = s.obs
  BY <1>5 DEF Updated
<1>7. RecordReady(p)'
  <2>1. task'[p] # <<>> => Head(task'[p]).op # "recfill"
    BY <1>4 DEF Linked, Leaders
  <2>2. task'[p] # <<>> /\ Head(task'[p]).op = "recpublish" => Head(task'[p]).row = s.row
    BY <1>4 DEF Linked
  <2> QED BY <1>1, <1>3, <1>5, <1>6, <2>1, <2>2 DEF RecordReady, At, Step, Exists
<1>8. HasRecords(fs')
  <2>1. tmp[1] # "device"
    BY <1>1 DEF RecordTmp
  <2>2. HasRecords(g)
    BY <1>5, <2>1 DEF Updated, HasRecords, RecordsInv
  <2> QED BY <1>5, <2>2
<1>9. \A x : x # tmp => (x \in DOMAIN fs => x \in DOMAIN fs' /\ fs'[x] = fs[x])
  BY <1>5 DEF Updated
<1>10. \A q \in Procs : q # p /\ At(q, "recpublish") => RecordTmp(Step(q).row.serial) # tmp
  BY <1>1, <1>2, OtherTmp DEF Recording
<1> QED BY <1>4, <1>7, <1>8, <1>9, <1>10, RecordsKeep

LEMMA RecordPublishedKeeps ==
  ASSUME NEW of, Holds(of), RecordsInv, RecordsApart, NEW p \in Procs, RecordPublished(p)
  PROVE  RecordsInv'
<1>1. PICK s, tmp, x, g : /\ s = Step(p) /\ tmp = RecordTmp(s.row.serial) /\ x = Record(s.row.serial)
                          /\ g = fs' /\ g = Updated(Without({tmp}), x, fs[tmp])
  BY DEF RecordPublished
<1>2. At(p, "recpublish") /\ task[p] # <<>> /\ Step(p).op = "recpublish" /\ Go(p, <<>>)
  BY DEF RecordPublished, At, Step
<1>3. IsObservation(fs[tmp])
  BY <1>1, <1>2 DEF RecordsInv, RecordReady
<1>4. NextIsNot(p, RecordWaits)
  BY <1>2, NextIsAside
<1>5. RecordReady(p)'
  BY <1>4 DEF RecordReady, NextIsNot, RecordWaits, At
<1>6. \A y : y # tmp /\ y # x => (y \in DOMAIN g <=> y \in DOMAIN fs) /\ (y \in DOMAIN fs => g[y] = fs[y])
  BY <1>1 DEF Updated, Without
<1>7. g[x] = fs[tmp] /\ tmp[1] # "device"
  BY <1>1 DEF Updated, RecordTmp
<1>8. HasRecords(fs')
  <2>1. HasRecords(g)
    <3>1. ASSUME NEW y \in DOMAIN g, y[1] = "device" PROVE IsObservation(g[y])
      <4>1. CASE y = x
        BY <1>3, <1>7, <4>1
      <4>2. CASE y # x
        <5>1. y \in DOMAIN fs /\ g[y] = fs[y]
          BY <1>6, <1>7, <3>1, <4>2
        <5> QED BY <3>1, <5>1 DEF RecordsInv, HasRecords
      <4> QED BY <4>1, <4>2
    <3> QED BY <3>1 DEF HasRecords
  <2> QED BY <1>1, <2>1
<1>9. \A q \in Procs : q # p /\ At(q, "recpublish") =>
          RecordTmp(Step(q).row.serial) # tmp /\ RecordTmp(Step(q).row.serial) # x
  BY <1>1, <1>2, OtherTmp DEF Recording, RecordTmp, Record
<1>10. task' = [task EXCEPT ![p] = task'[p]]
  BY <1>4 DEF NextIsNot
<1> QED BY <1>1, <1>5, <1>6, <1>8, <1>9, <1>10, RecordsKeep

LEMMA ForgetDeviceKeeps ==
  ASSUME NEW of, Holds(of), RecordsInv, NEW p \in Procs, ForgetDevice(p)
  PROVE  RecordsInv'
<1>1. PICK gone, g : gone \subseteq Records /\ g = fs' /\ g = Without(gone)
  BY DEF ForgetDevice
<1>2. Settles(p)
  BY ForgetDeviceHolds
<1>3. RecordReady(p)'
  BY <1>2 DEF RecordReady, Settles, Settled, Leaders, Followers, At
<1>4. \A x \in DOMAIN g : x \in DOMAIN fs /\ g[x] = fs[x]
  BY <1>1 DEF Without
<1>5. HasRecords(fs')
  <2>1. HasRecords(g)
    BY <1>4 DEF HasRecords, RecordsInv
  <2> QED BY <1>1, <2>1
<1>6. \A serial : RecordTmp(serial) \in DOMAIN fs =>
          RecordTmp(serial) \in DOMAIN fs' /\ fs'[RecordTmp(serial)] = fs[RecordTmp(serial)]
  <2>1. \A serial : RecordTmp(serial) \notin gone
    BY <1>1 DEF Records, RecordTmp
  <2> QED BY <1>1, <2>1 DEF Without
<1> QED BY <1>2, <1>3, <1>5, <1>6, RecordsKeep DEF Settles
-----------------------------------------------------------------------------
(* The steps that write a preset.                                          *)

\* What the others are doing stays ready when a step changes what it may.
LEMMA TonesKeep ==
  ASSUME NEW of, Holds(of), TonesInv, TonesApart, NEW p \in Procs, task[p] # <<>>,
         task' = [task EXCEPT ![p] = task'[p]],
         NEW X, X \subseteq Writes(p),
         \A x : IsPreset(x) /\ x \notin X =>
             (x \in DOMAIN fs' <=> x \in DOMAIN fs) /\ (x \in DOMAIN fs => fs'[x] = fs[x]),
         \A q \in Procs : q # p /\ At(q, "write") => Step(q).at \notin X,
         HasTones(fs'), ToneKept', WriteReady(p)', CopyReady(p)', CreatedReady(p)',
         At(p, "write")' => \A q \in Procs : q # p /\ At(q, "write") => Step(q).at # Step(p)'.at
  PROVE  TonesInv'
<1>1. PICK g : g = fs'
  OBVIOUS
<1>2. \A q \in Procs : q # p =>
             /\ task'[q] = task[q]
             /\ Step(q)' = Step(q) /\ Item(q)' = Item(q) /\ \A op : At(q, op)' <=> At(q, op)
  BY OthersStay DEF Holds
<1>3. \A x : IsPreset(x) /\ x \notin X => (x \in DOMAIN g <=> x \in DOMAIN fs) /\ (x \in DOMAIN fs => g[x] = fs[x])
  BY <1>1
<1>4. ASSUME NEW q \in Procs, q # p PROVE WriteReady(q)' /\ CopyReady(q)' /\ CreatedReady(q)'
  <2>1. WriteReady(q) /\ CopyReady(q) /\ CreatedReady(q)
    BY DEF TonesInv
  <2>2. task[q] # <<>> => Uses(q) \cap X = {}
    BY <1>4 DEF TonesApart
  <2>3. WriteReady(q)'
    <3>1. At(q, "write") => IsPreset(Step(q).at) /\ Step(q).at \notin X
      BY <1>4, PathsOf
    <3> QED BY <1>1, <1>2, <1>3, <1>4, <2>1, <3>1 DEF WriteReady, Exists
  <2>4. CopyReady(q)'
    <3>1. At(q, "copied") \/ At(q, "verify") =>
              {Tone(Item(q).slug), Item(q).src} \cap X = {} /\ IsPreset(Item(q).src) /\ IsPreset(Tone(Item(q).slug))
      <4>1. At(q, "copied") \/ At(q, "verify") => task[q] # <<>> /\ Uses(q) = {Tone(Item(q).slug), Item(q).src}
        BY DEF Uses, At, Step, Item
      <4> QED BY <2>2, <4>1, PathsOf
    <3>2. PICK r, x : r = Item(q) /\ x = Tone(r.slug)
      OBVIOUS
    <3>3. At(q, "copied") \/ At(q, "verify") =>
              /\ (x \in DOMAIN g <=> x \in DOMAIN fs) /\ (x \in DOMAIN fs => g[x] = fs[x])
              /\ (r.src \in DOMAIN g <=> r.src \in DOMAIN fs) /\ (r.src \in DOMAIN fs => g[r.src] = fs[r.src])
      BY <1>3, <3>1, <3>2
    <3> QED BY <1>1, <1>2, <1>4, <2>1, <3>2, <3>3 DEF CopyReady, Exists
  <2>5. CreatedReady(q)'
    <3>1. At(q, "autoregister") => Item(q).src[1] \notin X
      <4>1. At(q, "autoregister") => task[q] # <<>> /\ Uses(q) = {Item(q).src[1]}
        BY DEF Uses, At, Step, Item
      <4> QED BY <2>2, <4>1
    <3> QED BY <1>1, <1>2, <1>3, <1>4, <2>1, <3>1 DEF CreatedReady, Exists
  <2> QED BY <2>3, <2>4, <2>5
<1>5. \A q \in Procs : WriteReady(q)' /\ CopyReady(q)' /\ CreatedReady(q)'
  BY <1>4
<1>6. WritesApart'
  BY <1>2 DEF TonesInv, WritesApart
<1> QED BY <1>5, <1>6 DEF TonesInv

\* What is lost of the tones, and what is written instead.
LEMMA KeptBy ==
  ASSUME NEW of, Holds(of), ToneKept, NEW p \in Procs, task' = [task EXCEPT ![p] = task'[p]],
         UNCHANGED <<known, torn>>, ~At(p, "write"),
         \A x \in HspFiles : \/ \E y \in HspFiles' : fs'[y].tone = fs[x].tone
                             \/ At(p, "write")' /\ Step(p)'.c.tone = fs[x].tone
  PROVE  ToneKept'
<1>1. \A q \in Procs : q # p => Step(q)' = Step(q) /\ \A op : At(q, op)' <=> At(q, op)
  BY OthersStay DEF Holds
<1> SUFFICES ASSUME NEW t \in known
             PROVE  \/ t \in torn' \/ \E x \in HspFiles' : fs'[x].tone = t
                    \/ \E q \in Procs : At(q, "write")' /\ Step(q)'.c.tone = t
  BY DEF ToneKept
<1>2. CASE t \in torn
  BY <1>2
<1>3. CASE \E x \in HspFiles : fs[x].tone = t
  BY <1>3
<1>4. CASE \E q \in Procs : At(q, "write") /\ Step(q).c.tone = t
  BY <1>1, <1>4
<1> QED BY <1>2, <1>3, <1>4 DEF ToneKept

\* A preset is truncated: it was not there, or it will hold the same tone.
LEMMA WriteBegins ==
  ASSUME NEW of, Holds(of), TonesInv, TonesApart, NEW p \in Procs, task[p] # <<>>, ~At(p, "write"),
         NEW x, IsPreset(x), x \in Writes(p), NEW c, IsTone(c),
         ~Exists(x) \/ (Readable(x) /\ c.tone = fs[x].tone),
         NEW r, NEW more, IsSeq(more), WriteBytes(p, x, c, r, more), UNCHANGED <<known, torn>>
  PROVE  TonesInv'
<1>1. PICK g : g = fs' /\ g = Updated(fs, x, Torn)
  BY DEF WriteBytes, Put
<1>2. PICK a : a = [op |-> "write", r |-> r, at |-> x, c |-> c] /\ Go(p, <<a>> \o more)
  BY DEF WriteBytes
<1>3. task' = [task EXCEPT ![p] = task'[p]] /\ task'[p] # <<>> /\ Head(task'[p]) = a
  BY <1>2, WritePushed
<1>4. a.op = "write" /\ a.at = x /\ a.c = c
  BY <1>2
<1>5. At(p, "write")' /\ Step(p)' = a
  BY <1>3, <1>4 DEF At, Step
<1>6. x \in DOMAIN g /\ g[x] = Torn /\ \A y : y # x => (y \in DOMAIN g <=> y \in DOMAIN fs) /\ (y \in DOMAIN fs => g[y] = fs[y])
  BY <1>1 DEF Updated
<1>7. HasTones(g)
  BY <1>6 DEF HasTones, TonesInv
<1>8. WriteReady(p)'
  BY <1>1, <1>4, <1>5, <1>6 DEF WriteReady, Exists
<1>9. CopyReady(p)' /\ CreatedReady(p)'
  BY <1>3, <1>4 DEF CopyReady, CreatedReady, At
<1>10. \A q \in Procs : q # p /\ At(q, "write") => Step(q).at # x
  BY DEF TonesInv, WriteReady, Readable, Exists
<1>11. ToneKept'
  <2>1. ASSUME NEW y \in HspFiles
        PROVE  \/ \E z \in HspFiles' : g[z].tone = fs[y].tone
               \/ At(p, "write")' /\ Step(p)'.c.tone = fs[y].tone
    <3>1. CASE y = x
      BY <1>4, <1>5, <3>1 DEF HspFiles, Exists
    <3>2. CASE y # x
      BY <1>1, <1>6, <3>2 DEF HspFiles
    <3> QED BY <3>1, <3>2
  <2> QED BY <1>1, <1>3, <2>1, KeptBy DEF TonesInv
<1>12. TonesInv'
  <2>1. PICK X : X = {x} /\ X \subseteq Writes(p)
    OBVIOUS
  <2>2. \A y : IsPreset(y) /\ y \notin X => (y \in DOMAIN fs' <=> y \in DOMAIN fs) /\ (y \in DOMAIN fs => fs'[y] = fs[y])
    BY <1>1, <1>6, <2>1
  <2>3. \A q \in Procs : q # p /\ At(q, "write") => Step(q).at \notin X /\ Step(q).at # Step(p)'.at
    BY <1>4, <1>5, <1>10, <2>1
  <2>4. HasTones(fs')
    BY <1>1, <1>7
  <2> QED BY <1>3, <1>8, <1>9, <1>11, <2>1, <2>2, <2>3, <2>4, TonesKeep
<1> QED BY <1>12

\* ... and the preset gets the taps of the preferences.
LEMMA HspBegins ==
  ASSUME NEW of, Holds(of), TonesInv, TonesApart, NEW p \in Procs, task[p] # <<>>, ~At(p, "write"),
         NEW x, IsPreset(x), x \in Writes(p), NEW c, IsTone(c),
         ~Exists(x) \/ (Readable(x) /\ c.tone = fs[x].tone),
         NEW r, NEW more, IsSeq(more), WriteHsp(p, x, c, r, more), UNCHANGED <<known, torn>>
  PROVE  TonesInv'
<1>1. PICK b, d : b = ApplyPreference(c.body, Taps) /\ d = [c EXCEPT !.body = b] /\ WriteBytes(p, x, d, r, more)
  BY DEF WriteHsp
<1>2. IsTone(d) /\ d.tone = c.tone
  <2>1. d = [tone |-> c.tone, name |-> c.name, body |-> b]
    BY <1>1 DEF IsTone
  <2> QED BY <2>1 DEF IsTone
<1> QED BY <1>1, <1>2, WriteBegins

LEMMA StillKeeps ==
  ASSUME NEW of, Holds(of), TonesInv, NEW p \in Procs, NEW op, At(p, op), op \notin Leaders,
         UNCHANGED <<fs, known, torn>>, Fail(p) \/ Go(p, <<>>)
  PROVE  TonesInv'
<1>1. task[p] # <<>> /\ Step(p).op \notin Leaders /\ ~At(p, "write")
  BY DEF At, Step, Leaders
<1>2. Settles(p)
  <2>1. CASE Fail(p)
    BY <1>1, <2>1, FailStep DEF Settles, TaskStep
  <2>2. CASE Go(p, <<>>)
    <3>1. task' = [task EXCEPT ![p] = task'[p]]
      BY <1>1, <2>2, NextLinked
    <3>2. Settled(task'[p])
      BY <1>1, <2>2, GoSettled, PlainTuples
    <3> QED BY <3>1, <3>2 DEF Settles
  <2> QED BY <2>1, <2>2
<1>3. TonesAside(p)
  BY <1>1, <1>2, SameOnDisk, SettledAside DEF Aside
<1> QED BY <1>3, TonesAsideKeep

\* Rename, Heal and the edits: what is written is what was read but for a part.
LEMMA RewriteKeeps ==
  ASSUME NEW of, Holds(of), TonesInv, TonesApart, NEW p \in Procs, NEW op, At(p, op), op \notin Leaders,
         UNCHANGED <<known, torn>>, NEW x, IsPreset(x), x \in Writes(p), NEW c, NEW r,
         \/ (Fail(p) \/ Go(p, <<>>)) /\ UNCHANGED fs
         \/ /\ Readable(x) /\ WriteHsp(p, x, c, r, <<>>)
            /\ (\E n : c = [fs[x] EXCEPT !.name = n]) \/ (\E b : c = [fs[x] EXCEPT !.body = b])
  PROVE  TonesInv'
<1>1. CASE (Fail(p) \/ Go(p, <<>>)) /\ UNCHANGED fs
  BY <1>1, StillKeeps
<1>2. ASSUME Readable(x), WriteHsp(p, x, c, r, <<>>),
             (\E n : c = [fs[x] EXCEPT !.name = n]) \/ (\E b : c = [fs[x] EXCEPT !.body = b])
      PROVE  TonesInv'
  <2>1. PICK old : old = fs[x] /\ IsTone(old)
    BY <1>2 DEF Readable, Exists, TonesInv, HasTones
  <2>2. \/ \E n : c = [old EXCEPT !.name = n]
        \/ \E b : c = [old EXCEPT !.body = b]
    BY <1>2, <2>1
  <2>3. IsTone(c) /\ c.tone = old.tone
    <3>1. \A n : [old EXCEPT !.name = n] = [tone |-> old.tone, name |-> n, body |-> old.body]
      BY <2>1 DEF IsTone
    <3>2. \A b : [old EXCEPT !.body = b] = [tone |-> old.tone, name |-> old.name, body |-> b]
      BY <2>1 DEF IsTone
    <3>3. CASE \E n : c = [old EXCEPT !.name = n]
      BY <3>1, <3>3 DEF IsTone
    <3>4. CASE \E b : c = [old EXCEPT !.body = b]
      BY <3>2, <3>4 DEF IsTone
    <3> QED BY <2>2, <3>3, <3>4
  <2>4. task[p] # <<>> /\ ~At(p, "write")
    BY DEF At, Leaders
  <2>5. PICK more : more = <<>> /\ IsSeq(more)
    <3>1. <<>> \in Seq({})
      OBVIOUS
    <3> QED BY ONLY <3>1, IsSeqOf
  <2>6. WriteHsp(p, x, c, r, more)
    BY <1>2, <2>5
  <2>7. Readable(x) /\ c.tone = fs[x].tone
    BY <1>2, <2>1, <2>3
  <2> QED BY <2>3, <2>4, <2>5, <2>6, <2>7, HspBegins
<1> QED BY <1>1, <1>2

LEMMA RewritesKeep ==
  ASSUME NEW of, Holds(of), TonesInv, TonesApart, NEW p \in Procs,
         Rename(p) \/ Heal(p) \/ Edit(p) \/ Patch(p) \/ TapOne(p) \/ Trim(p)
  PROVE  TonesInv'
<1>1. CASE Rename(p) \/ Heal(p)
  <2>1. PICK op \in {"rename", "heal"} : At(p, op)
    BY <1>1 DEF Rename, Heal
  <2>2. PICK x, r : x = Tone(Item(p).slug) /\ r = Item(p)
    OBVIOUS
  <2>3. PICK c : c = [fs[x] EXCEPT !.name = r.name]
    OBVIOUS
  <2>4. /\ UNCHANGED <<known, torn>>
        /\ \/ Fail(p) /\ UNCHANGED fs
           \/ Readable(x) /\ WriteHsp(p, x, c, r, <<>>)
    BY <1>1, <2>2, <2>3 DEF Rename, Heal
  <2>5. IsPreset(x) /\ x \in Writes(p) /\ op \notin Leaders
    BY <2>1, <2>2 DEF IsPreset, Tone, Writes, At, Step, Item, Leaders
  <2>6. \E n : c = [fs[x] EXCEPT !.name = n]
    BY <2>3
  <2> QED BY <2>1, <2>4, <2>5, <2>6, RewriteKeeps
<1>2. ASSUME NEW op \in {"edit", "patch"}, At(p, op), NEW ops, EditInPlace(p, ops), UNCHANGED <<known, torn>>
      PROVE  TonesInv'
  <2>1. PICK x, r : x = Item(p).at /\ r = Item(p)
    OBVIOUS
  <2>2. PICK body : body = PutBack(fs[x].body, ApplyOperations(Lifted(fs[x].body), ops))
    OBVIOUS
  <2>3. PICK c : c = [fs[x] EXCEPT !.body = body]
    OBVIOUS
  <2>4. \/ Fail(p) /\ UNCHANGED fs
        \/ Readable(x) /\ WriteHsp(p, x, c, r, <<>>)
    BY <1>2, <2>1, <2>2, <2>3 DEF EditInPlace
  <2>5. IsPreset(x) /\ x \in Writes(p) /\ op \notin Leaders
    <3>1. IsCommand(fs, Item(p)) /\ Item(p).verb = op /\ op \notin Leaders
      BY <1>2, CommandOf DEF Verbs
    <3>2. x \in Writes(p)
      BY <1>2, <2>1 DEF Writes, At, Step, Item
    <3> QED BY <1>2, <2>1, <3>1, <3>2 DEF IsCommand
  <2>6. \E b : c = [fs[x] EXCEPT !.body = b]
    BY <2>3
  <2> QED BY <1>2, <2>4, <2>5, <2>6, RewriteKeeps
<1>3. CASE Edit(p)
  <2>1. PICK o \in Item(p).ops : EditInPlace(p, <<o>>)
    BY <1>3 DEF Edit
  <2> QED BY <1>2, <1>3, <2>1 DEF Edit
<1>4. CASE Patch(p)
  BY <1>2, <1>4 DEF Patch
<1>5. ASSUME NEW op \in {"tap", "trim"}, At(p, op), UNCHANGED <<known, torn>>,
             NEW x, x = Step(p).at, NEW body, NEW c, c = [fs[x] EXCEPT !.body = body], NEW r,
             \/ (Fail(p) \/ Go(p, <<>>)) /\ UNCHANGED fs
             \/ Readable(x) /\ WriteHsp(p, x, c, r, <<>>)
      PROVE  TonesInv'
  <2>1. task[p] # <<>> /\ Step(p).op = op
    BY <1>5 DEF At, Step
  <2>2. IsPreset(x) /\ x \in Writes(p) /\ op \notin Leaders
    BY <1>5, <2>1, Acting DEF StepOK, Writes, Leaders
  <2>3. \E b : c = [fs[x] EXCEPT !.body = b]
    BY <1>5
  <2> QED BY <1>5, <2>2, <2>3, RewriteKeeps
<1>6. CASE TapOne(p)
  <2>1. PICK x, r, body : x = Step(p).at /\ r = Item(p) /\ body = ApplyTaps(fs[x].body, Taps)
    OBVIOUS
  <2>2. PICK c : c = [fs[x] EXCEPT !.body = body]
    OBVIOUS
  <2>3. /\ At(p, "tap") /\ UNCHANGED <<known, torn>>
        /\ \/ Go(p, <<>>) /\ UNCHANGED fs
           \/ Readable(x) /\ WriteHsp(p, x, c, r, <<>>)
    BY <1>6, <2>1, <2>2 DEF TapOne
  <2> QED BY <1>5, <2>1, <2>2, <2>3
<1>7. CASE Trim(p)
  <2>1. PICK x, r, body : x = Step(p).at /\ r = Item(p) /\ body = Trimmed(fs[x].body, r.by)
    OBVIOUS
  <2>2. PICK c : c = [fs[x] EXCEPT !.body = body]
    OBVIOUS
  <2>3. /\ At(p, "trim") /\ UNCHANGED <<known, torn>>
        /\ \/ Fail(p) /\ UNCHANGED fs
           \/ Readable(x) /\ WriteHsp(p, x, c, r, <<>>)
    BY <1>7, <2>1, <2>2 DEF Trim
  <2> QED BY <1>5, <2>1, <2>2, <2>3
<1> QED BY <1>1, <1>3, <1>4, <1>6, <1>7

\* The steps that generate leaves for after its write.
LEMMA GenerateSteps ==
  ASSUME NEW of, Holds(of), NEW r, r.slug = VariantSlug(r.id.words, r.key),
         NEW m, m = Extended(ReadOr(Meta(r.id.words), None), r)
  PROVE  IsSeq(SaveSteps(r, m) \o Steps(<<"tell">>, r))
<1>1. PICK t, u : t = SaveSteps(r, m) /\ u = Steps(<<"tell">>, r)
  OBVIOUS
<1>2. IsMeta(m)
  <2>1. r.slug = WithKey(r.id.words, r.key)
    BY DEF VariantSlug
  <2>2. HasMetadata(fs)
    BY DEF Holds, HomeInv
  <2> QED BY <2>1, <2>2, ExtendedIsMeta
<1>3. PlainSteps(fs, of, t) /\ PlainSteps(fs, of, u)
  BY <1>1, <1>2, SaveIsPlain, PlainBare DEF BareOps
<1>4. PlainSteps(fs, of, t \o u)
  BY <1>3, PlainConcat
<1> QED BY <1>1, <1>4 DEF PlainSteps

LEMMA OneStep ==
  ASSUME NEW r
  PROVE  IsSeq(Steps(<<"autoregister">>, r))
<1>1. Steps(<<"autoregister">>, r) = <<[op |-> "autoregister", r |-> r]>>
  BY DEF Steps
<1>2. \A b : <<b>> \in Seq({b})
  OBVIOUS
<1>3. \A b : IsSeq(<<b>>)
  BY ONLY <1>2, IsSeqOf
<1> QED BY <1>1, <1>3

\* What generate makes is new.
LEMMA GenerateKeeps ==
  ASSUME NEW of, Holds(of), TonesInv, TonesApart, NewFiles, NEW p \in Procs, Generate(p) \/ GenerateTo(p)
  PROVE  TonesInv'
<1> DEFINE c == Item(p)
<1>1. CASE Generate(p)
  <2>1. PICK r : r = Placing("generated", None, None, c.id, KeyOf(c.guitar), None)
    OBVIOUS
  <2>2. r.id = c.id /\ r.key = KeyOf(c.guitar) /\ r.slug = VariantSlug(c.id.words, KeyOf(c.guitar))
    BY <2>1 DEF Placing
  <2>3. PICK m, more, x, new :
          /\ m = Extended(ReadOr(Meta(r.id.words), None), r)
          /\ more = SaveSteps(r, m) \o Steps(<<"tell">>, r)
          /\ x = Tone(r.slug) /\ new = NewTone(c, r.name)
    OBVIOUS
  <2>4. m = Extended(ReadOr(Meta(c.id.words), None), r)
    BY <2>2, <2>3
  <2>5. /\ At(p, "generate") /\ UNCHANGED <<known, torn>>
        /\ \/ Fail(p) /\ UNCHANGED fs
           \/ WriteHsp(p, x, new, r, more) /\ ~Exists(x)
    BY <1>1, <2>1, <2>3, <2>4 DEF Generate
  <2>6. IsTone(new)
    BY <2>3 DEF NewTone, IsTone
  <2>7. IsSeq(more)
    BY <2>2, <2>3, GenerateSteps
  <2>8. IsPreset(x) /\ x \in Writes(p) /\ task[p] # <<>> /\ ~At(p, "write") /\ "generate" \notin Leaders
    BY <2>2, <2>3, <2>5 DEF IsPreset, Tone, Writes, At, Step, Item, Leaders
  <2>9. CASE Fail(p) /\ UNCHANGED fs
    BY <2>5, <2>8, <2>9, StillKeeps
  <2>10. CASE WriteHsp(p, x, new, r, more) /\ ~Exists(x)
    BY <2>5, <2>6, <2>7, <2>8, <2>10, HspBegins
  <2> QED BY <2>5, <2>9, <2>10
<1>2. CASE GenerateTo(p)
  <2>1. PICK x, new, more : /\ x = c.src[1] /\ new = NewTone(c, [words |-> c.id.words, style |-> "plain"])
                            /\ more = Steps(<<"autoregister">>, c)
    OBVIOUS
  <2>2. /\ At(p, "generateto") /\ UNCHANGED <<known, torn>>
        /\ \/ Fail(p) /\ UNCHANGED fs
           \/ WriteHsp(p, x, new, c, more)
    BY <1>2, <2>1 DEF GenerateTo
  <2>3. IsTone(new)
    BY <2>1 DEF NewTone, IsTone
  <2>4. IsSeq(more)
    BY <2>1, OneStep
  <2>5. IsPreset(x) /\ x \in Writes(p) /\ task[p] # <<>> /\ ~At(p, "write") /\ "generateto" \notin Leaders /\ ~Exists(x)
    <3>1. IsCommand(fs, c) /\ c.verb = "generateto" /\ "generateto" \notin Leaders
      BY <2>2, CommandOf DEF Verbs
    <3>2. IsPreset(x)
      BY <2>1, <3>1 DEF IsCommand, IsPreset
    <3> QED BY <2>1, <2>2, <3>1, <3>2 DEF Writes, At, Step, Item, NewFiles
  <2>6. CASE Fail(p) /\ UNCHANGED fs
    BY <2>2, <2>5, <2>6, StillKeeps
  <2>7. CASE WriteHsp(p, x, new, c, more)
    BY <2>2, <2>3, <2>4, <2>5, <2>7, HspBegins
  <2> QED BY <2>2, <2>6, <2>7
<1> QED BY <1>1, <1>2

LEMMA AutoRegisterKeeps ==
  ASSUME NEW of, Holds(of), TonesInv, TonesApart, NEW p \in Procs, AutoRegister(p)
  PROVE  TonesInv'
<1>1. PICK c, x, d, more : c = Item(p) /\ x = Tone(c.src[1][2]) /\ d = fs[c.src[1]] /\ more = <<>> /\ IsSeq(more)
  <2>1. <<>> \in Seq({})
    OBVIOUS
  <2>2. IsSeq(<<>>)
    BY ONLY <2>1, IsSeqOf
  <2> QED BY <2>2
<1>2. /\ At(p, "autoregister") /\ UNCHANGED <<known, torn>>
      /\ \/ Go(p, <<>>) /\ UNCHANGED fs
         \/ WriteBytes(p, x, d, c, more) /\ ~Exists(x)
  BY <1>1 DEF AutoRegister
<1>3. IsTone(d)
  BY <1>1, <1>2 DEF TonesInv, CreatedReady
<1>4. IsPreset(x) /\ x \in Writes(p) /\ task[p] # <<>> /\ ~At(p, "write") /\ "autoregister" \notin Leaders
  BY <1>1, <1>2 DEF IsPreset, Tone, Writes, At, Step, Item, Leaders
<1>5. CASE Go(p, <<>>) /\ UNCHANGED fs
  BY <1>2, <1>4, <1>5, StillKeeps
<1>6. CASE WriteBytes(p, x, d, c, more) /\ ~Exists(x)
  BY <1>1, <1>2, <1>3, <1>4, <1>6, WriteBegins
<1> QED BY <1>2, <1>5, <1>6

\* Half a file is no tone.
TornIsNoTone == ~IsTone(Torn)

LEMMA WrittenKeeps ==
  ASSUME NEW of, Holds(of), TonesInv, TonesApart, TornIsNoTone, NEW p \in Procs, Written(p)
  PROVE  TonesInv'
<1>1. PICK x, c, g : /\ x = Step(p).at /\ c = Step(p).c /\ g = fs' /\ g = Updated(fs, x, c)
  BY DEF Written, Put
<1>2. /\ At(p, "write") /\ task[p] # <<>> /\ Step(p).op = "write" /\ Go(p, <<>>)
      /\ known' = known \cup {c.tone} /\ UNCHANGED torn
  BY <1>1 DEF Written, At, Step
<1>3. IsPreset(x) /\ Exists(x) /\ fs[x] = Torn /\ IsTone(c) /\ c # Torn
  BY <1>1, <1>2, PathsOf DEF TonesInv, WriteReady, TornIsNoTone
<1>4. task' = [task EXCEPT ![p] = task'[p]] /\ (task'[p] # <<>> => Linked(Step(p), Head(task'[p])))
  BY <1>2, NextLinked
<1>5. x \in DOMAIN g /\ g[x] = c /\ \A y : y # x => (y \in DOMAIN g <=> y \in DOMAIN fs) /\ (y \in DOMAIN fs => g[y] = fs[y])
  BY <1>1 DEF Updated
<1>6. HasTones(fs')
  <2>1. HasTones(g)
    BY <1>3, <1>5 DEF HasTones, TonesInv
  <2> QED BY <1>1, <2>1
<1>7. ~At(p, "write")' /\ ~At(p, "copied")' /\ ~At(p, "verify")'
  BY <1>2, <1>4 DEF Linked, Leaders, Followers, At
<1>8. WriteReady(p)' /\ CopyReady(p)'
  BY <1>7 DEF WriteReady, CopyReady
<1>9. CreatedReady(p)'
  <2>1. At(p, "autoregister")' => Item(p)'.src[1] = x
    BY <1>1, <1>4 DEF Linked, At, Item, Step
  <2> QED BY <1>1, <1>3, <1>5, <2>1 DEF CreatedReady, Exists
<1>10. \A q \in Procs : q # p => Step(q)' = Step(q) /\ \A op : At(q, op)' <=> At(q, op)
  BY <1>4, OthersStay DEF Holds
<1>11. ToneKept'
  <2> SUFFICES ASSUME NEW t \in known'
               PROVE  \/ t \in torn' \/ \E y \in HspFiles' : g[y].tone = t
                      \/ \E q \in Procs : At(q, "write")' /\ Step(q)'.c.tone = t
    BY <1>1 DEF ToneKept
  <2>1. CASE t = c.tone
    <3>1. x \in HspFiles'
      BY <1>1, <1>3, <1>5 DEF HspFiles, IsPreset
    <3> QED BY <1>5, <2>1, <3>1
  <2>2. CASE t \in torn
    BY <1>2, <2>2
  <2>3. ASSUME NEW y \in HspFiles, fs[y].tone = t PROVE y \in HspFiles' /\ g[y].tone = t
    BY <1>1, <1>3, <1>5, <2>3 DEF HspFiles
  <2>4. ASSUME NEW q \in Procs, At(q, "write"), Step(q).c.tone = t, q # p
        PROVE  At(q, "write")' /\ Step(q)'.c.tone = t
    BY <1>10, <2>4
  <2> QED BY <1>1, <1>2, <2>1, <2>2, <2>3, <2>4 DEF TonesInv, ToneKept
<1>12. TonesInv'
  <2>1. PICK X : X = {x} /\ X \subseteq Writes(p)
    BY <1>1, <1>2 DEF Writes
  <2>2. \A y : IsPreset(y) /\ y \notin X => (y \in DOMAIN fs' <=> y \in DOMAIN fs) /\ (y \in DOMAIN fs => fs'[y] = fs[y])
    BY <1>1, <1>5, <2>1
  <2>3. \A q \in Procs : q # p /\ At(q, "write") => Step(q).at \notin X
    BY <1>1, <1>2, <2>1 DEF TonesInv, WritesApart
  <2> QED BY <1>2, <1>4, <1>6, <1>7, <1>8, <1>9, <1>11, <2>1, <2>2, <2>3, TonesKeep
<1> QED BY <1>12

\* The place of a tone is taken before anything is copied.
LEMMA DataSafePlaceKeeps ==
  ASSUME NEW of, Holds(of), TonesInv, TonesApart, NEW p \in Procs, DataSafePlace(p)
  PROVE  TonesInv'
<1>1. PICK r, x, t : /\ r = Item(p) /\ x = Tone(r.slug)
                     /\ t = Steps(<<"copied", "verify", "rename", "upsert", "tell">>, r)
  OBVIOUS
<1>2. /\ At(p, "place") /\ UNCHANGED <<known, torn>>
      /\ \/ Fail(p) /\ UNCHANGED fs
         \/ ~Exists(x) /\ Exists(r.src) /\ Put(x, Torn) /\ Go(p, t)
  BY <1>1 DEF DataSafePlace
<1>3. task[p] # <<>> /\ Step(p).op = "place" /\ "place" \notin Leaders /\ ~At(p, "write")
  BY <1>2 DEF At, Step, Leaders
<1>4. CASE Fail(p) /\ UNCHANGED fs
  BY <1>2, <1>3, <1>4, StillKeeps
<1>5. ASSUME ~Exists(x), Exists(r.src), Put(x, Torn), Go(p, t) PROVE TonesInv'
  <2>1. t[1].op = "copied" /\ t[1].r = r /\ t # <<>>
    BY <1>1 DEF Steps
  <2>2. IsSeq(t)
    <3>1. StepOK(fs, of, Step(p))
      BY <1>3, Acting
    <3>2. IsPlacing(r)
      BY <1>1, <1>3, <3>1 DEF StepOK, PlacingOps, Item
    <3>3. TaskOK(fs, of, t)
      BY <1>1, <3>2, PlacingSteps5
    <3> QED BY <3>3 DEF TaskOK
  <2>3. task' = [task EXCEPT ![p] = task'[p]] /\ task'[p] # <<>> /\ Head(task'[p]) = t[1]
    BY <1>3, <1>5, <2>1, <2>2, NextPushed
  <2>4. PICK g : g = fs' /\ g = Updated(fs, x, Torn)
    BY <1>5 DEF Put
  <2>5. x \in DOMAIN g /\ g[x] = Torn /\ \A y : y # x => (y \in DOMAIN g <=> y \in DOMAIN fs) /\ (y \in DOMAIN fs => g[y] = fs[y])
    BY <2>4 DEF Updated
  <2>6. IsPreset(x) /\ x \in Writes(p) /\ r.src # x
    BY <1>1, <1>3, <1>5 DEF IsPreset, Tone, Writes, Item
  <2>7. HasTones(fs')
    <3>1. HasTones(g)
      BY <2>5 DEF HasTones, TonesInv
    <3> QED BY <2>4, <3>1
  <2>8. ~At(p, "write")' /\ ~At(p, "verify")' /\ ~At(p, "autoregister")' /\ Item(p)' = r
    BY <2>1, <2>3 DEF At, Item, Step
  <2>9. WriteReady(p)' /\ CreatedReady(p)'
    BY <2>8 DEF WriteReady, CreatedReady
  <2>10. CopyReady(p)'
    BY <1>1, <1>5, <2>4, <2>5, <2>6, <2>8 DEF CopyReady, Exists
  <2>11. ToneKept'
    <3>1. ASSUME NEW y \in HspFiles PROVE y \in HspFiles' /\ g[y].tone = fs[y].tone
      BY <1>5, <2>4, <2>5 DEF HspFiles, Exists
    <3>2. \A y \in HspFiles : \E z \in HspFiles' : fs'[z].tone = fs[y].tone
      BY <2>4, <3>1
    <3> QED BY <1>2, <1>3, <2>3, <3>2, KeptBy DEF TonesInv
  <2>12. TonesInv'
    <3>1. PICK X : X = {x} /\ X \subseteq Writes(p)
      BY <2>6
    <3>2. \A y : IsPreset(y) /\ y \notin X => (y \in DOMAIN fs' <=> y \in DOMAIN fs) /\ (y \in DOMAIN fs => fs'[y] = fs[y])
      BY <2>4, <2>5, <3>1
    <3>3. \A q \in Procs : q # p /\ At(q, "write") => Step(q).at \notin X
      BY <1>5, <3>1 DEF TonesInv, WriteReady
    <3> QED BY <1>3, <2>3, <2>7, <2>8, <2>9, <2>10, <2>11, <3>1, <3>2, <3>3, TonesKeep
  <2> QED BY <2>12
<1> QED BY <1>2, <1>4, <1>5

\* A step of a copy changes only what the copy uses.
LEMMA CopyStepKeeps ==
  ASSUME NEW of, Holds(of), TonesInv, TonesApart, NEW p \in Procs, At(p, "copied") \/ At(p, "verify"),
         task' = [task EXCEPT ![p] = task'[p]], ~At(p, "write")', ~At(p, "autoregister")',
         NEW g, g = fs', NEW x, x = Tone(Item(p).slug), NEW X, X \subseteq Uses(p), X \subseteq Writes(p),
         \A y : y \notin X => (y \in DOMAIN g <=> y \in DOMAIN fs) /\ (y \in DOMAIN fs => g[y] = fs[y]),
         HasTones(g), CopyReady(p)', UNCHANGED <<known, torn>>,
         \A y \in HspFiles : \E z \in HspFiles' : g[z].tone = fs[y].tone
  PROVE  TonesInv'
<1>1. task[p] # <<>> /\ ~At(p, "write")
  BY DEF At
<1>2. WriteReady(p)' /\ CreatedReady(p)'
  BY DEF WriteReady, CreatedReady
<1>3. ToneKept'
  BY <1>1, KeptBy DEF TonesInv
<1>4. \A q \in Procs : q # p /\ At(q, "write") => Step(q).at \notin X
  <2>1. \A q \in Procs : At(q, "write") => task[q] # <<>> /\ Step(q).at \in Writes(q)
    BY DEF Writes, At, Step
  <2> QED BY <1>1, <2>1 DEF TonesApart
<1>5. HasTones(fs')
  OBVIOUS
<1>6. \A y : IsPreset(y) /\ y \notin X => (y \in DOMAIN fs' <=> y \in DOMAIN fs) /\ (y \in DOMAIN fs => fs'[y] = fs[y])
  OBVIOUS
<1> QED BY <1>1, <1>2, <1>3, <1>4, <1>5, <1>6, TonesKeep

LEMMA CopiedKeeps ==
  ASSUME NEW of, Holds(of), TonesInv, TonesApart, NEW p \in Procs, Copied(p)
  PROVE  TonesInv'
<1>1. PICK r, x, g : /\ r = Item(p) /\ x = Tone(r.slug) /\ g = fs'
                     /\ g = Updated(fs, x, fs[r.src]) \/ g = fs
  BY DEF Copied, Put
<1>2. /\ At(p, "copied") /\ task[p] # <<>> /\ Step(p).op = "copied" /\ Go(p, <<>>)
      /\ UNCHANGED <<known, torn>>
  BY DEF Copied, At, Step
<1>3. Exists(x) /\ Exists(r.src) /\ x # r.src /\ fs[x] = Torn /\ IsPreset(r.src)
  <2>1. CopyReady(p)
    BY DEF TonesInv
  <2> QED BY <1>1, <1>2, <2>1, PathsOf DEF CopyReady
<1>4. task' = [task EXCEPT ![p] = task'[p]] /\ (task'[p] # <<>> => Linked(Step(p), Head(task'[p])))
  BY <1>2, NextLinked
<1>5. \A y : y # x => (y \in DOMAIN g <=> y \in DOMAIN fs) /\ (y \in DOMAIN fs => g[y] = fs[y])
  BY <1>1 DEF Updated
<1>6. x \in DOMAIN g /\ g[x] \in {Torn, fs[r.src]}
  BY <1>1, <1>3 DEF Updated, Exists
<1>7. HasTones(g)
  <2>1. g[x] # Torn => IsTone(g[x])
    BY <1>3, <1>6 DEF TonesInv, HasTones, Exists
  <2> QED BY <1>5, <2>1 DEF TonesInv, HasTones
<1>8. ~At(p, "write")' /\ ~At(p, "copied")' /\ ~At(p, "autoregister")'
  BY <1>2, <1>4 DEF Linked, Leaders, Followers, At
<1>9. At(p, "verify")' => Item(p)' = r
  BY <1>1, <1>4 DEF Linked, Followers, At, Item, Step
<1>10. CopyReady(p)'
  BY <1>1, <1>3, <1>5, <1>6, <1>8, <1>9 DEF CopyReady, Exists
<1>11. \A y \in HspFiles : \E z \in HspFiles' : g[z].tone = fs[y].tone
  <2>1. ASSUME NEW y \in HspFiles PROVE y \in HspFiles' /\ g[y].tone = fs[y].tone
    BY <1>1, <1>3, <1>5 DEF HspFiles
  <2> QED BY <2>1
<1>12. TonesInv'
  <2>1. PICK X : X = {x} /\ X \subseteq Writes(p) /\ X \subseteq Uses(p)
    BY <1>1, <1>2 DEF Writes, Uses, Item
  <2> QED BY <1>1, <1>2, <1>4, <1>5, <1>7, <1>8, <1>10, <1>11, <2>1, CopyStepKeeps
<1> QED BY <1>12

\* The source goes once the copy is the same; a copy that is not goes itself.
LEMMA VerifyKeeps ==
  ASSUME NEW of, Holds(of), TonesInv, TonesApart, NEW p \in Procs, Verify(p)
  PROVE  TonesInv'
<1>1. PICK r, x, g : r = Item(p) /\ x = Tone(r.slug) /\ g = fs'
  OBVIOUS
<1>2. /\ At(p, "verify") /\ task[p] # <<>> /\ Step(p).op = "verify" /\ UNCHANGED <<known, torn>>
      /\ \/ fs[x] # fs[r.src] /\ g = Without({x}) /\ Fail(p)
         \/ fs[x] = fs[r.src] /\ (g = fs \/ g = Without({r.src})) /\ Go(p, <<>>)
  BY <1>1 DEF Verify, At, Step
<1>3. Exists(x) /\ Exists(r.src) /\ x # r.src /\ fs[x] \in {Torn, fs[r.src]} /\ IsPreset(r.src) /\ IsPreset(x)
  <2>1. CopyReady(p)
    BY DEF TonesInv
  <2> QED BY <1>1, <1>2, <2>1, PathsOf DEF CopyReady, IsPreset, Tone
<1>4. task' = [task EXCEPT ![p] = task'[p]] /\ NextIsNot(p, ToneWaits) /\ NextIsNot(p, RecordWaits)
  <2>1. CASE Fail(p)
    <3>1. task' = [task EXCEPT ![p] = task'[p]] /\ Settled(task'[p])
      BY <1>2, <2>1, FailStep DEF TaskStep
    <3> QED BY <3>1 DEF NextIsNot, Settled, Leaders, Followers, ToneWaits, RecordWaits
  <2>2. CASE Go(p, <<>>)
    BY <1>2, <2>2, NextLinked, NextIsAside
  <2> QED BY <1>2, <2>1, <2>2
<1>5. ~At(p, "write")' /\ ~At(p, "copied")' /\ ~At(p, "verify")' /\ ~At(p, "autoregister")'
  BY <1>4 DEF NextIsNot, ToneWaits, At
<1>6. CopyReady(p)'
  BY <1>5 DEF CopyReady
<1>7. \A y : y \notin {x, r.src} => (y \in DOMAIN g <=> y \in DOMAIN fs) /\ (y \in DOMAIN fs => g[y] = fs[y])
  BY <1>2 DEF Without
<1>8. HasTones(g)
  BY <1>2 DEF Without, HasTones, TonesInv
<1>9. ASSUME NEW y \in HspFiles PROVE \E z \in HspFiles' : g[z].tone = fs[y].tone
  <2>1. CASE fs[x] # fs[r.src]
    <3>1. y # x /\ g = Without({x})
      BY <1>2, <1>3, <2>1 DEF HspFiles
    <3>2. y \in HspFiles' /\ g[y] = fs[y]
      BY <1>1, <3>1 DEF HspFiles, Without
    <3> QED BY <3>2
  <2>2. CASE fs[x] = fs[r.src]
    <3>1. CASE y = r.src
      <4>1. x \in HspFiles' /\ g[x] = fs[y]
        BY <1>1, <1>2, <1>3, <2>2, <3>1 DEF HspFiles, Without, Exists, IsPreset
      <4> QED BY <4>1
    <3>2. CASE y # r.src
      <4>1. y \in HspFiles' /\ g[y] = fs[y]
        BY <1>1, <1>2, <2>2, <3>2 DEF HspFiles, Without
      <4> QED BY <4>1
    <3> QED BY <3>1, <3>2
  <2> QED BY <2>1, <2>2
<1>10. TonesInv'
  <2>1. PICK X : X = {x, r.src} /\ X \subseteq Writes(p) /\ X \subseteq Uses(p)
    BY <1>1, <1>2 DEF Writes, Uses, Item
  <2> QED BY <1>1, <1>2, <1>4, <1>5, <1>6, <1>7, <1>8, <1>9, <2>1, CopyStepKeeps
<1> QED BY <1>10
-----------------------------------------------------------------------------
(* All the steps.                                                          *)
(* ... which leave the records of devices alone.                           *)

LEMMA DoneAside ==
  ASSUME NEW of, Holds(of), NEW p \in Procs, task[p] # <<>>, Step(p).op # "recfill",
         Fail(p) \/ Go(p, <<>>), SameFiles(RecordKinds)
  PROVE  RecordsAside(p)
<1>1. CASE Fail(p)
  <2>1. task' = [task EXCEPT ![p] = task'[p]] /\ Settled(task'[p])
    BY <1>1, FailStep DEF TaskStep
  <2> QED BY <2>1 DEF RecordsAside, NextIsNot, Settled, Leaders, Followers, RecordWaits
<1>2. CASE Go(p, <<>>)
  BY <1>2, NextIsAside DEF RecordsAside
<1> QED BY <1>1, <1>2

LEMMA WriteAside ==
  ASSUME NEW of, Holds(of), NEW p \in Procs, task[p] # <<>>, NEW x, IsPreset(x), NEW c, NEW r,
         NEW more, IsSeq(more), WriteBytes(p, x, c, r, more)
  PROVE  RecordsAside(p)
<1>1. PICK a : a = [op |-> "write", r |-> r, at |-> x, c |-> c] /\ Go(p, <<a>> \o more)
  BY DEF WriteBytes
<1>2. task' = [task EXCEPT ![p] = task'[p]] /\ task'[p] # <<>> /\ Head(task'[p]) = a
  BY <1>1, WritePushed
<1>3. x[1] \notin RecordKinds
  BY DEF IsPreset, RecordKinds
<1>4. SameFiles(RecordKinds)
  BY <1>3, SameOnDisk DEF WriteBytes
<1>5. a.op = "write"
  BY <1>1
<1> QED BY <1>2, <1>4, <1>5 DEF RecordsAside, NextIsNot, RecordWaits

LEMMA EmptyIsSeq == IsSeq(<<>>)
<1>1. <<>> \in Seq({})
  OBVIOUS
<1> QED BY ONLY <1>1, IsSeqOf

LEMMA RewriteAside ==
  ASSUME NEW of, Holds(of), NEW p \in Procs, task[p] # <<>>, Step(p).op # "recfill", NEW x, IsPreset(x),
         NEW c, NEW r,
         \/ (Fail(p) \/ Go(p, <<>>)) /\ UNCHANGED fs
         \/ WriteHsp(p, x, c, r, <<>>)
         \/ WriteBytes(p, x, c, r, <<>>)
  PROVE  RecordsAside(p)
<1>1. CASE (Fail(p) \/ Go(p, <<>>)) /\ UNCHANGED fs
  BY <1>1, SameOnDisk, DoneAside
<1>2. PICK more : more = <<>> /\ IsSeq(more)
  BY EmptyIsSeq
<1>3. ASSUME NEW d, WriteBytes(p, x, d, r, more) PROVE RecordsAside(p)
  BY <1>2, <1>3, WriteAside
<1>4. CASE WriteHsp(p, x, c, r, <<>>)
  BY <1>2, <1>3, <1>4 DEF WriteHsp
<1>5. CASE WriteBytes(p, x, c, r, <<>>)
  BY <1>2, <1>3, <1>5
<1> QED BY <1>1, <1>4, <1>5

LEMMA RewritesAside ==
  ASSUME NEW of, Holds(of), NEW p \in Procs,
         \/ Rename(p) \/ Heal(p) \/ Edit(p) \/ Patch(p) \/ TapOne(p) \/ Trim(p) \/ AutoRegister(p)
  PROVE  RecordsAside(p)
<1>1. task[p] # <<>> /\ Step(p).op # "recfill"
  BY DEF Rename, Heal, Edit, Patch, TapOne, Trim, AutoRegister, At, Step
<1>2. StepOK(fs, of, Step(p))
  BY <1>1, Acting
<1>3. \A slug : IsPreset(Tone(slug))
  BY DEF IsPreset, Tone
<1>4. CASE Rename(p) \/ Heal(p)
  <2>1. PICK x, r : x = Tone(Item(p).slug) /\ r = Item(p)
    OBVIOUS
  <2>2. PICK c : c = [fs[x] EXCEPT !.name = r.name]
    OBVIOUS
  <2>3. (Fail(p) /\ UNCHANGED fs) \/ WriteHsp(p, x, c, r, <<>>)
    BY <1>4, <2>1, <2>2 DEF Rename, Heal
  <2> QED BY <1>1, <1>3, <2>1, <2>3, RewriteAside
<1>5. CASE Edit(p) \/ Patch(p)
  <2>1. PICK x, r, ops : x = Item(p).at /\ r = Item(p) /\ EditInPlace(p, ops)
    BY <1>5 DEF Edit, Patch
  <2>2. PICK body : body = PutBack(fs[x].body, ApplyOperations(Lifted(fs[x].body), ops))
    OBVIOUS
  <2>3. PICK c : c = [fs[x] EXCEPT !.body = body]
    OBVIOUS
  <2>4. (Fail(p) /\ UNCHANGED fs) \/ WriteHsp(p, x, c, r, <<>>)
    BY <2>1, <2>2, <2>3 DEF EditInPlace
  <2>5. IsPreset(x)
    <3>1. PICK op \in {"edit", "patch"} : At(p, op)
      BY <1>5 DEF Edit, Patch
    <3> QED BY <2>1, <3>1, CommandOf DEF Verbs, IsCommand
  <2> QED BY <1>1, <2>4, <2>5, RewriteAside
<1>6. CASE TapOne(p)
  <2>1. PICK x, r, body : x = Step(p).at /\ r = Item(p) /\ body = ApplyTaps(fs[x].body, Taps)
    OBVIOUS
  <2>2. PICK c : c = [fs[x] EXCEPT !.body = body]
    OBVIOUS
  <2>3. (Go(p, <<>>) /\ UNCHANGED fs) \/ WriteHsp(p, x, c, r, <<>>)
    BY <1>6, <2>1, <2>2 DEF TapOne
  <2>4. IsPreset(x)
    BY <1>2, <1>6, <2>1 DEF TapOne, At, Step, StepOK
  <2> QED BY <1>1, <2>3, <2>4, RewriteAside
<1>7. CASE Trim(p)
  <2>1. PICK x, r, body : x = Step(p).at /\ r = Item(p) /\ body = Trimmed(fs[x].body, r.by)
    OBVIOUS
  <2>2. PICK c : c = [fs[x] EXCEPT !.body = body]
    OBVIOUS
  <2>3. (Fail(p) /\ UNCHANGED fs) \/ WriteHsp(p, x, c, r, <<>>)
    BY <1>7, <2>1, <2>2 DEF Trim
  <2>4. IsPreset(x)
    BY <1>2, <1>7, <2>1 DEF Trim, At, Step, StepOK
  <2> QED BY <1>1, <2>3, <2>4, RewriteAside
<1>8. CASE AutoRegister(p)
  <2>1. PICK r, x, c : r = Item(p) /\ x = Tone(r.src[1][2]) /\ c = fs[r.src[1]]
    OBVIOUS
  <2>2. (Go(p, <<>>) /\ UNCHANGED fs) \/ WriteBytes(p, x, c, r, <<>>)
    BY <1>8, <2>1 DEF AutoRegister
  <2> QED BY <1>1, <1>3, <2>1, <2>2, RewriteAside
<1> QED BY <1>4, <1>5, <1>6, <1>7, <1>8

LEMMA CopiesAside ==
  ASSUME NEW of, Holds(of), NEW p \in Procs, Written(p) \/ DataSafePlace(p) \/ Copied(p) \/ Verify(p)
  PROVE  RecordsAside(p)
<1>1. task[p] # <<>> /\ Step(p).op # "recfill"
  BY DEF Written, DataSafePlace, Copied, Verify, At, Step
<1>2. StepOK(fs, of, Step(p))
  BY <1>1, Acting
<1>3. \A x : IsPreset(x) => x[1] \notin RecordKinds
  BY DEF IsPreset, RecordKinds
<1>4. \A slug : IsPreset(Tone(slug))
  BY DEF IsPreset, Tone
<1>5. CASE Written(p)
  <2>1. IsPreset(Step(p).at)
    BY <1>2, <1>5 DEF Written, At, Step, StepOK
  <2>2. SameFiles(RecordKinds)
    BY <1>3, <1>5, <2>1, SameOnDisk DEF Written
  <2> QED BY <1>1, <1>5, <2>2, DoneAside DEF Written
<1>6. CASE DataSafePlace(p)
  <2>1. PICK r, x, t : /\ r = Item(p) /\ x = Tone(r.slug)
                       /\ t = Steps(<<"copied", "verify", "rename", "upsert", "tell">>, r)
    OBVIOUS
  <2>2. (Fail(p) /\ UNCHANGED fs) \/ (Put(x, Torn) /\ Go(p, t))
    BY <1>6, <2>1 DEF DataSafePlace
  <2>3. CASE Fail(p) /\ UNCHANGED fs
    BY <1>1, <2>3, SameOnDisk, DoneAside
  <2>4. ASSUME Put(x, Torn), Go(p, t) PROVE RecordsAside(p)
    <3>1. t[1].op = "copied" /\ t # <<>>
      BY <2>1 DEF Steps
    <3>2. IsSeq(t)
      <4>1. IsPlacing(r)
        BY <1>2, <1>6, <2>1 DEF DataSafePlace, At, Step, StepOK, PlacingOps, Item
      <4> QED BY <2>1, <4>1, PlacingSteps5 DEF TaskOK
    <3>3. task' = [task EXCEPT ![p] = task'[p]] /\ Head(task'[p]) = t[1]
      BY <1>1, <2>4, <3>1, <3>2, NextPushed
    <3>4. SameFiles(RecordKinds)
      BY <1>3, <1>4, <2>1, <2>4, SameOnDisk
    <3> QED BY <3>1, <3>3, <3>4 DEF RecordsAside, NextIsNot, RecordWaits
  <2> QED BY <2>2, <2>3, <2>4
<1>7. CASE Copied(p)
  <2>1. UNCHANGED fs \/ Put(Tone(Item(p).slug), fs[Item(p).src])
    BY <1>7 DEF Copied
  <2>2. SameFiles(RecordKinds)
    BY <1>3, <1>4, <2>1, SameOnDisk
  <2> QED BY <1>1, <1>7, <2>2, DoneAside DEF Copied
<1>8. CASE Verify(p)
  <2>1. IsPreset(Item(p).src) /\ IsPreset(Tone(Item(p).slug))
    BY <1>4, <1>8, PathsOf DEF Verify
  <2>2. PICK x, y : /\ x = Tone(Item(p).slug) /\ y = Item(p).src
                    /\ (UNCHANGED fs \/ fs' = Without({x}) \/ fs' = Without({y})) /\ (Fail(p) \/ Go(p, <<>>))
    BY <1>8 DEF Verify
  <2>3. SameFiles(RecordKinds)
    BY <1>3, <2>1, <2>2, SameOnDisk
  <2> QED BY <1>1, <2>2, <2>3, DoneAside
<1> QED BY <1>5, <1>6, <1>7, <1>8

LEMMA GenerateAside ==
  ASSUME NEW of, Holds(of), NEW p \in Procs, Generate(p) \/ GenerateTo(p)
  PROVE  RecordsAside(p)
<1> DEFINE c == Item(p)
<1>1. task[p] # <<>> /\ Step(p).op # "recfill"
  BY DEF Generate, GenerateTo, At, Step
<1>2. ASSUME NEW x, IsPreset(x), NEW new, NEW r, NEW more, IsSeq(more),
             (Fail(p) /\ UNCHANGED fs) \/ WriteHsp(p, x, new, r, more)
      PROVE  RecordsAside(p)
  <2>1. CASE Fail(p) /\ UNCHANGED fs
    BY <1>1, <2>1, SameOnDisk, DoneAside
  <2>2. CASE WriteHsp(p, x, new, r, more)
    BY <1>1, <1>2, <2>2, WriteAside DEF WriteHsp
  <2> QED BY <1>2, <2>1, <2>2
<1>3. CASE Generate(p)
  <2>1. PICK r : r = Placing("generated", None, None, c.id, KeyOf(c.guitar), None)
    OBVIOUS
  <2>2. r.id = c.id /\ r.key = KeyOf(c.guitar) /\ r.slug = VariantSlug(c.id.words, KeyOf(c.guitar))
    BY <2>1 DEF Placing
  <2>3. PICK m, more, x, new :
          /\ m = Extended(ReadOr(Meta(r.id.words), None), r)
          /\ more = SaveSteps(r, m) \o Steps(<<"tell">>, r)
          /\ x = Tone(r.slug) /\ new = NewTone(c, r.name)
    OBVIOUS
  <2>4. m = Extended(ReadOr(Meta(c.id.words), None), r)
    BY <2>2, <2>3
  <2>5. (Fail(p) /\ UNCHANGED fs) \/ WriteHsp(p, x, new, r, more)
    BY <1>3, <2>1, <2>3, <2>4 DEF Generate
  <2>6. IsSeq(more)
    BY <2>2, <2>3, GenerateSteps
  <2>7. IsPreset(x)
    BY <2>3 DEF IsPreset, Tone
  <2> QED BY <1>2, <2>5, <2>6, <2>7
<1>4. CASE GenerateTo(p)
  <2>1. PICK x, new, more : /\ x = c.src[1] /\ new = NewTone(c, [words |-> c.id.words, style |-> "plain"])
                            /\ more = Steps(<<"autoregister">>, c)
    OBVIOUS
  <2>2. (Fail(p) /\ UNCHANGED fs) \/ WriteHsp(p, x, new, c, more)
    BY <1>4, <2>1 DEF GenerateTo
  <2>3. IsSeq(more)
    BY <2>1, OneStep
  <2>4. IsPreset(x)
    <3>1. At(p, "generateto")
      BY <1>4 DEF GenerateTo
    <3> QED BY <2>1, <3>1, CommandOf DEF Verbs, IsCommand, IsPreset
  <2> QED BY <1>2, <2>2, <2>3, <2>4
<1> QED BY <1>3, <1>4
-----------------------------------------------------------------------------
(* Every step.                                                             *)

LEMMA AsideOrNot ==
  ASSUME NEW of, Holds(of), Next
  PROVE  \E p \in Procs :
             \/ Aside(p)
             \/ Rename(p) \/ Heal(p) \/ Edit(p) \/ Patch(p) \/ TapOne(p) \/ Trim(p) \/ AutoRegister(p)
             \/ Written(p) \/ DataSafePlace(p) \/ Copied(p) \/ Verify(p)
             \/ Generate(p) \/ GenerateTo(p)
             \/ RecordTmpOpened(p) \/ RecordFilled(p) \/ RecordPublished(p) \/ ForgetDevice(p)
<1>1. PICK p \in Procs : \/ NextOfFiles(p) \/ NextOfTones(p) \/ NextOfEdits(p) \/ NextOfIrs(p)
                         \/ NextOfMigration(p) \/ NextOfRecords(p)
  BY DEF Next
<1>2. CASE NextOfFiles(p)
  BY <1>2, FilesAside, QuietTonesAside DEF NextOfFiles
<1>3. CASE NextOfTones(p)
  BY <1>3, QuietTonesAside DEF NextOfTones
<1>4. CASE NextOfEdits(p)
  BY <1>4, QuietTonesAside DEF NextOfEdits
<1>5. CASE NextOfIrs(p)
  BY <1>5, IrsAside
<1>6. CASE NextOfMigration(p)
  BY <1>6, MigrationAside
<1>7. CASE NextOfRecords(p)
  BY <1>7, QuietTonesAside DEF NextOfRecords
<1> QED BY <1>1, <1>2, <1>3, <1>4, <1>5, <1>6, <1>7

LEMMA TonesStep ==
  ASSUME NEW of, Holds(of), Next, TonesInv, TonesApart, NewFiles, TornIsNoTone
  PROVE  TonesInv'
<1>1. PICK p \in Procs :
          \/ Aside(p)
          \/ Rename(p) \/ Heal(p) \/ Edit(p) \/ Patch(p) \/ TapOne(p) \/ Trim(p) \/ AutoRegister(p)
          \/ Written(p) \/ DataSafePlace(p) \/ Copied(p) \/ Verify(p)
          \/ Generate(p) \/ GenerateTo(p)
          \/ RecordTmpOpened(p) \/ RecordFilled(p) \/ RecordPublished(p) \/ ForgetDevice(p)
  BY AsideOrNot
<1>2. CASE Aside(p)
  BY <1>2, TonesAsideKeep DEF Aside
<1>3. CASE Rename(p) \/ Heal(p) \/ Edit(p) \/ Patch(p) \/ TapOne(p) \/ Trim(p)
  BY <1>3, RewritesKeep
<1>4. CASE AutoRegister(p)
  BY <1>4, AutoRegisterKeeps
<1>5. CASE Written(p) \/ DataSafePlace(p) \/ Copied(p) \/ Verify(p)
  BY <1>5, WrittenKeeps, DataSafePlaceKeeps, CopiedKeeps, VerifyKeeps
<1>6. CASE Generate(p) \/ GenerateTo(p)
  BY <1>6, GenerateKeeps
<1>7. CASE RecordTmpOpened(p) \/ RecordFilled(p) \/ RecordPublished(p) \/ ForgetDevice(p)
  BY <1>7, RecordStepsAside, TonesAsideKeep
<1> QED BY <1>1, <1>2, <1>3, <1>4, <1>5, <1>6, <1>7

LEMMA RecordsStep ==
  ASSUME NEW of, Holds(of), Next, RecordsInv, RecordsApart
  PROVE  RecordsInv'
<1>1. PICK p \in Procs :
          \/ Aside(p)
          \/ Rename(p) \/ Heal(p) \/ Edit(p) \/ Patch(p) \/ TapOne(p) \/ Trim(p) \/ AutoRegister(p)
          \/ Written(p) \/ DataSafePlace(p) \/ Copied(p) \/ Verify(p)
          \/ Generate(p) \/ GenerateTo(p)
          \/ RecordTmpOpened(p) \/ RecordFilled(p) \/ RecordPublished(p) \/ ForgetDevice(p)
  BY AsideOrNot
<1>2. CASE Aside(p)
  BY <1>2, RecordsAsideKeep DEF Aside
<1>3. CASE Rename(p) \/ Heal(p) \/ Edit(p) \/ Patch(p) \/ TapOne(p) \/ Trim(p) \/ AutoRegister(p)
  BY <1>3, RewritesAside, RecordsAsideKeep
<1>4. CASE Written(p) \/ DataSafePlace(p) \/ Copied(p) \/ Verify(p)
  BY <1>4, CopiesAside, RecordsAsideKeep
<1>5. CASE Generate(p) \/ GenerateTo(p)
  BY <1>5, GenerateAside, RecordsAsideKeep
<1>6. CASE RecordTmpOpened(p) \/ RecordFilled(p) \/ RecordPublished(p) \/ ForgetDevice(p)
  BY <1>6, RecordTmpOpenedKeeps, RecordFilledKeeps, RecordPublishedKeeps, ForgetDeviceKeeps
<1> QED BY <1>1, <1>2, <1>3, <1>4, <1>5, <1>6

LEMMA NothingBegun ==
  ASSUME Init
  PROVE  TonesInv /\ RecordsInv
<1>1. PICK scene \in Scenes : fs = scene.fs /\ IsScene(scene)
  BY ScenesAssumption DEF Init
<1>2. HasTones(fs) /\ HasRecords(fs)
  BY <1>1 DEF IsScene, IsHome
<1>3. \A p \in Procs : task[p] = <<>> /\ \A op : ~At(p, op)
  BY DEF Init, At
<1>4. ToneKept
  BY DEF Init, ToneKept
<1> QED BY <1>2, <1>3, <1>4 DEF TonesInv, RecordsInv, WritesApart, WriteReady, CopyReady, CreatedReady,
                                 RecordReady

\* No tone is ever lost, whatever commands are run and wherever each of them is
\* killed or fails: a copy is verified before its source is removed
\* (migrate_library.data_safe_place), and only a kill within write_hsp's
\* rewriting of the last file of a tone leaves no file with its content.  It
\* takes that no command writes a preset while another copies it, which no lock
\* of the code sees to, and that generate -o is given a name that is free.
THEOREM NoToneLost ==
  ASSUME TornIsNoTone
  PROVE  Spec /\ []TonesApart /\ []NewFiles => []ToneKept
<1>1. Init => TonesInv
  BY NothingBegun
<1>2. Inv /\ TonesInv /\ TonesApart /\ NewFiles /\ [Next]_vars => TonesInv'
  <2> SUFFICES ASSUME Inv, TonesInv, TonesApart, NewFiles, [Next]_vars PROVE TonesInv'
    OBVIOUS
  <2>1. CASE UNCHANGED vars
    BY <2>1 DEF vars, TonesInv, HasTones, ToneKept, WritesApart, WriteReady, CopyReady, CreatedReady,
                At, Step, Item, Exists, HspFiles
  <2>2. CASE Next
    <3>1. PICK of : Holds(of)
      BY DEF Inv, Holds
    <3> QED BY <2>2, <3>1, TonesStep
  <2> QED BY <2>1, <2>2
<1>3. TonesInv => ToneKept
  BY DEF TonesInv
<1> QED BY <1>1, <1>2, <1>3, HomeKept, PTL DEF Spec

\* Nobody ever reads half a metadata file or half a record of a device,
\* wherever a command is killed and whatever write fails: both are written to a
\* temporary file that is renamed (tone_meta.save_meta,
\* observations._write_json).  For the records, whose temporary files have one
\* name for all the processes, it takes that two commands do not record the same
\* device at the same time; for metadata, whose temporary files have the process
\* in their name, it takes nothing.
THEOREM FilesWhole ==
  ASSUME ~IsMeta(Torn), ~IsObservation(Torn)
  PROVE  Spec /\ []RecordsApart => []TypeOK
<1>1. Init => RecordsInv
  BY NothingBegun
<1>2. Inv /\ RecordsInv /\ RecordsApart /\ [Next]_vars => RecordsInv'
  <2> SUFFICES ASSUME Inv, RecordsInv, RecordsApart, [Next]_vars PROVE RecordsInv'
    OBVIOUS
  <2>1. CASE UNCHANGED vars
    BY <2>1 DEF vars, RecordsInv, HasRecords, RecordReady, At, Step, Exists
  <2>2. CASE Next
    <3>1. PICK of : Holds(of)
      BY DEF Inv, Holds
    <3> QED BY <2>2, <3>1, RecordsStep
  <2> QED BY <2>1, <2>2
<1>3. Inv /\ RecordsInv => TypeOK
  <2> SUFFICES ASSUME Inv, RecordsInv PROVE TypeOK
    OBVIOUS
  <2>1. /\ \A x \in DOMAIN fs : x[1] \in FileKinds
        /\ HasMetadata(fs) /\ mishaps \in 0..Mishaps
    BY DEF Inv, TypedInv, HomeInv, IsSetUp
  <2>2. \A x \in DOMAIN fs : x[1] = "meta" =>
            /\ fs[x] # Torn /\ fs[x].id.words = x[2]
            /\ \A k \in DOMAIN fs[x].variants : fs[x].variants[k].hsp = WithKey(x[2], k)
    <3> SUFFICES ASSUME NEW x \in DOMAIN fs, x[1] = "meta"
                 PROVE  /\ fs[x] # Torn /\ fs[x].id.words = x[2]
                        /\ \A k \in DOMAIN fs[x].variants : fs[x].variants[k].hsp = WithKey(x[2], k)
      OBVIOUS
    <3>1. IsMeta(fs[x]) /\ fs[x].id.words = x[2]
      BY <2>1 DEF HasMetadata
    <3>2. fs[x] # Torn
      BY <3>1
    <3>3. \A k \in DOMAIN fs[x].variants : fs[x].variants[k].hsp = WithKey(fs[x].id.words, k)
      BY <3>1 DEF IsMeta
    <3> QED BY <3>1, <3>2, <3>3
  <2>3. \A x \in DOMAIN fs : x[1] = "device" => fs[x] # Torn
    BY DEF RecordsInv, HasRecords
  <2> QED BY <2>1, <2>2, <2>3 DEF TypeOK
<1> QED BY <1>1, <1>2, <1>3, HomeKept, PTL DEF Spec
=============================================================================
