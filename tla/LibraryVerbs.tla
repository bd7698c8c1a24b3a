----------------------------- MODULE LibraryVerbs -----------------------------
(***************************************************************************)
(* The commands that write ~/.helixgen, one after the other or at the same *)
(* time, each of which may be killed or fail at any write.  The scenes say *)
(* what is on disk and which commands are run.                             *)
(***************************************************************************)
EXTENDS Migrate, DeviceRecords, Transcode

\* What a command leaves on disk when it ends before its time.
Interrupted(p) ==
    LET s == Step(p)
        placing == "slug" \in DOMAIN s.r /\ s.op \notin {"migrate_tone", "place"}
    IN  /\ mishaps < Mishaps /\ mishaps' = mishaps + 1
        /\ torn' = torn \cup {t \in known : s.op = "write" /\ s.c.tone = t}
        /\ bare' = IF placing THEN bare \cup {s.r.slug} ELSE bare

Crash(p) ==
    /\ task[p] # <<>>
    /\ Interrupted(p)
    /\ task' = [task EXCEPT ![p] = <<>>]
    /\ UNCHANGED <<fs, todo, mem, said, known>>

\* A write fails; a temporary file is removed.
Fault(p) ==
    /\ \E op \in {"copied", "write", "fill", "copywav", "irsave", "recfill"} : At(p, op)
    /\ Interrupted(p)
    /\ Fail(p)
    /\ fs' = IF At(p, "fill") THEN Without({TmpOf(p, Step(p).m.id.words)}) ELSE fs
    /\ UNCHANGED <<todo, mem, known>>

\* The user runs the next command of the list.
Start(p) ==
    /\ task[p] = <<>> /\ todo[p] # <<>>
    /\ todo' = [todo EXCEPT ![p] = Tail(@)]
    /\ task' = [task EXCEPT ![p] = <<[op |-> Head(todo[p]).verb, r |-> Head(todo[p])]>>]
    /\ said' = [said EXCEPT ![p] = {}]
    /\ UNCHANGED <<fs, mem, known, torn, bare, mishaps>>
-----------------------------------------------------------------------------
(* The commands that edit a preset in place.                               *)

\* Read, lift the taps, edit, write.
EditInPlace(p, ops) ==
    LET x == Item(p).at
        body == PutBack(fs[x].body, ApplyOperations(Lifted(fs[x].body), ops))
    IN  IF ~Readable(x) \/ body = None THEN Fail(p) /\ UNCHANGED fs
        ELSE WriteHsp(p, x, [fs[x] EXCEPT !.body = body], Item(p), <<>>) /\ UNCHANGED said

\* The commands of one edit: set-param, enable, add-block and the like.
Edit(p) ==
    /\ At(p, "edit")
    /\ \E o \in Item(p).ops : EditInPlace(p, <<o>>)
    /\ UNCHANGED <<todo, mem, known, torn, bare, mishaps>>

\* patch: all of a list of edits, or none.
Patch(p) ==
    /\ At(p, "patch")
    /\ EditInPlace(p, Item(p).ops)
    /\ UNCHANGED <<todo, mem, known, torn, bare, mishaps>>

\* usb-taps --library --apply: all the tones, one after the other.
UsbTapsCmd(p) ==
    LET files == SetToSeq({x \in DOMAIN fs : x[1] = "tone"})
    IN  /\ At(p, "usbtaps")
        /\ IF Taps = <<>> THEN Fail(p)
           ELSE /\ Go(p, [i \in DOMAIN files |-> [op |-> "tap", r |-> Item(p), at |-> files[i]]])
                /\ UNCHANGED said
        /\ UNCHANGED <<fs, todo, mem, known, torn, bare, mishaps>>

TapOne(p) ==
    LET x == Step(p).at
        body == ApplyTaps(fs[x].body, Taps)
    IN  /\ At(p, "tap")
        /\ IF ~Readable(x) \/ body = fs[x].body THEN Go(p, <<>>) /\ UNCHANGED fs
           ELSE WriteHsp(p, x, [fs[x] EXCEPT !.body = body], Item(p), <<>>)
        /\ UNCHANGED <<todo, mem, said, known, torn, bare, mishaps>>

\* device normalize --yes: the output of each path is moved by the same number
\* of decibels, in every snapshot; then what was done is recorded.
Trimmed(body, d) ==
    LET Slot(i, s) == body.flow[i].level.snaps[s]
        Given(i) == IF body.flow[i].level.snaps = None THEN <<>>
                    ELSE SelectSeq([s \in 1..Slots |-> s], LAMBDA s : Slot(i, s) # None)
        Base(b, i) == SetOutput(b, i, body.flow[i].level.value + d, None)
        One(b, i) == FoldLeft(LAMBDA acc, s : IF acc = None THEN None ELSE SetOutput(acc, i, Slot(i, s) + d, s),
                              Base(b, i), Given(i))
    IN  FoldLeft(LAMBDA acc, i : IF acc = None THEN None ELSE One(acc, i), body,
                 [i \in DOMAIN body.flow |-> i])

Normalize(p) ==
    LET c == Item(p)
        Each(op) == [i \in DOMAIN c.files |-> [op |-> op, r |-> c, at |-> c.files[i]]]
    IN  /\ At(p, "normalize")
        /\ Go(p, Each("trim") \o Each("record"))
        /\ UNCHANGED <<fs, todo, mem, said, known, torn, bare, mishaps>>

Trim(p) ==
    LET x == Step(p).at
        body == Trimmed(fs[x].body, Item(p).by)
    IN  /\ At(p, "trim")
        /\ IF ~Readable(x) \/ body = None THEN Fail(p) /\ UNCHANGED fs
           ELSE WriteHsp(p, x, [fs[x] EXCEPT !.body = body], Item(p), <<>>) /\ UNCHANGED said
        /\ UNCHANGED <<todo, mem, known, torn, bare, mishaps>>

\* A file that is no variant of a tone has no record.
NormalizeRecord(p) ==
    LET of == VariantsOf(Step(p).at)
        v == CHOOSE w \in of : TRUE
    IN  /\ At(p, "record")
        /\ Go(p, IF of = {} THEN <<>>
                 ELSE SaveSteps(Item(p), [fs[v[1]] EXCEPT !.variants[v[2]].notes = "normalized"]))
        /\ UNCHANGED <<fs, todo, mem, said, known, torn, bare, mishaps>>
-----------------------------------------------------------------------------
(* The homes that a scene may begin with, and the commands that it may run. *)

FileKinds == {"src", "ext", "md", "tone", "meta", "wav", "side", "guitar", "prefs", "manifest",
           "plan", "mapping", "legacy", "tmp", "device", "rectmp"}

Hashes == DOMAIN ShortOf
Audio(f) == {x \in DOMAIN f : x[1] \in {"ext", "wav"}}
IsPreset(x) == x[1] \in {"src", "tone"}
IsSeq(s) == s \in Seq(ToSet(s))

\* `of` says of which IR each WAV is, a half copied one included; one that has
\* all of a hash in its name is of that hash.  Those of the user are whole.
WavsAre(f, of) ==
    \A x \in Audio(f) :
        /\ of[x] \in Hashes
        /\ f[x] = of[x] \/ (x[1] = "wav" /\ f[x] = Torn)
        /\ x[1] = "wav" /\ x[2][3] \in Hashes => of[x] = x[2][3]

\* The hash h may be bound to w; what is bound in the library is there.
Names(f, of, w, h) ==
    /\ h \in Hashes /\ w[1] \in {"ext", "wav"}
    /\ w[1] = "wav" => w \in DOMAIN f
    /\ w \in DOMAIN f => of[w] = h
Maps(f, of, m) == \A h \in DOMAIN m : Names(f, of, m[h], h)

IsPlacing(r) ==
    /\ r = [how |-> r.how, src |-> r.src, old |-> r.old, id |-> r.id, key |-> r.key,
            name |-> r.name, slug |-> r.slug, desc |-> r.desc, from |-> r.from]
    /\ IsPreset(r.src) /\ r.slug = WithKey(r.id.words, r.key)
IsPlan(f, of, plan) ==
    /\ IsSeq(plan.tones) /\ IsSeq(plan.irs) /\ IsFiniteSet(plan.instruments)
    /\ \A i \in DOMAIN plan.tones : IsPlacing(plan.tones[i])
    /\ \A i \in DOMAIN plan.irs : Names(f, of, plan.irs[i].wav, plan.irs[i].hash)

IsVariant(v) == v = [hsp |-> v.hsp, from |-> v.from, notes |-> v.notes]
IsMeta(m) ==
    /\ m = [id |-> m.id, variants |-> m.variants, desc |-> m.desc, tags |-> m.tags]
    /\ \A k \in DOMAIN m.variants : IsVariant(m.variants[k]) /\ m.variants[k].hsp = WithKey(m.id.words, k)
IsObservation(o) == o = [ip |-> o.ip, port |-> o.port, at |-> o.at]

\* A home as the commands leave it: what its files may hold.
IsSetUp(f, of) ==
    /\ IsFiniteSet(DOMAIN f) /\ \A x \in DOMAIN f : x[1] \in FileKinds
    /\ Prefs \in DOMAIN f /\ IsFiniteSet(f[Prefs].instruments)
    /\ f[Prefs] = [instruments |-> f[Prefs].instruments, taps |-> f[Prefs].taps]
    /\ Manifest \in DOMAIN f =>
           IsSeq(f[Manifest]) /\ \A i \in DOMAIN f[Manifest] : IsPreset(f[Manifest][i].path)
    /\ PlanFile \in DOMAIN f => IsPlan(f, of, f[PlanFile])
    /\ \A x \in {Mapping, LegacyMapping} \cap DOMAIN f : Maps(f, of, f[x])
HasMetadata(f) == \A x \in DOMAIN f : x[1] = "meta" => IsMeta(f[x]) /\ f[x].id.words = x[2]
IsTone(c) == c = [tone |-> c.tone, name |-> c.name, body |-> c.body]
HasTones(f) == \A x \in DOMAIN f : IsPreset(x) /\ f[x] # Torn => IsTone(f[x])
HasRecords(f) == \A x \in DOMAIN f : x[1] = "device" => IsObservation(f[x])
IsHome(f, of) == WavsAre(f, of) /\ IsSetUp(f, of) /\ HasMetadata(f) /\ HasTones(f) /\ HasRecords(f)

Verbs == {"import", "importdir", "fork", "generate", "generateto", "annotate", "addguitar",
          "edit", "patch", "usbtaps", "normalize", "register_irs", "ir_scan", "forget", "backfill",
          "dryrun", "migrate", "discover", "forgetdevice"}
IsCommand(f, c) ==
    /\ c.verb \in Verbs
    /\ c.verb \in {"import", "importdir", "fork"} =>
           IsSeq(c.src) /\ c.src # <<>> /\ \A i \in DOMAIN c.src : IsPreset(c.src[i])
    /\ c.verb = "generateto" => c.src[1][1] = "src"
    /\ c.verb \in {"edit", "patch"} => IsPreset(c.at)
    /\ c.verb = "normalize" => IsSeq(c.files) /\ \A i \in DOMAIN c.files : IsPreset(c.files[i])
    /\ c.verb = "annotate" => c.what \in {"tag", "doc", "notes"}
    /\ c.verb \in {"register_irs", "ir_scan"} =>
           IsSeq(c.wavs) /\ \A i \in DOMAIN c.wavs : c.wavs[i] \in DOMAIN f /\ c.wavs[i][1] = "ext"
    /\ c.verb = "discover" => IsSeq(c.tiers) /\ IsFiniteSet(UNION Range(c.tiers))

\* What is bound in a home is bound to a WAV of its hash.
IsScene(scene) ==
    /\ \E of \in [Audio(scene.fs) -> Hashes] : IsHome(scene.fs, of)
    /\ scene.mishaps \in 0..Mishaps
    /\ scene.todo = [p \in Procs |-> scene.todo[p]]
    /\ \A p \in Procs : IsSeq(scene.todo[p]) /\ \A i \in DOMAIN scene.todo[p] : IsCommand(scene.fs, scene.todo[p][i])
ASSUME ScenesAssumption == \A scene \in Scenes : IsScene(scene)

\* The first digits of a hash are no hash, nor is the empty suffix.
ASSUME ShortOfAssumption ==
    /\ IsFiniteSet(Hashes) /\ {Torn, ""} \cap Hashes = {}
    /\ \A h \in Hashes : ShortOf[h] \notin Hashes
ASSUME MishapsAssumption == Mishaps \in Nat
-----------------------------------------------------------------------------
Init == \E scene \in Scenes :
    /\ fs = scene.fs
    /\ todo = scene.todo
    /\ mishaps = scene.mishaps
    /\ task = [p \in Procs |-> <<>>]
    /\ mem = [p \in Procs |-> [of |-> <<>>, dirty |-> FALSE, old |-> FALSE]]
    /\ said = [p \in Procs |-> {}]
    /\ known = {fs[x].tone : x \in HspFiles}
    /\ torn = {}
    /\ bare = {x[2] : x \in {y \in LibraryTones : VariantsOf(y) = {}}}

NextOfFiles(p) ==
    Start(p) \/ Crash(p) \/ Fault(p) \/ Tell(p) \/ Written(p) \/ SaveTmp(p) \/ FillTmp(p) \/ Publish(p)
NextOfTones(p) ==
    \/ DataSafePlace(p) \/ Copied(p) \/ Verify(p) \/ Rename(p) \/ UpsertVariant(p)
    \/ Import(p) \/ ImportDirectory(p) \/ Fork(p) \/ Generate(p) \/ GenerateTo(p)
    \/ AutoRegister(p) \/ Annotate(p) \/ AddGuitar(p)
NextOfEdits(p) ==
    Edit(p) \/ Patch(p) \/ UsbTapsCmd(p) \/ TapOne(p) \/ Normalize(p) \/ Trim(p) \/ NormalizeRecord(p)
NextOfIrs(p) ==
    \/ RegisterIrs(p) \/ IrScan(p) \/ ScanOne(p) \/ Forget(p) \/ Backfill(p) \/ SaveDirty(p)
    \/ ImportWav(p) \/ CopyWav(p) \/ WriteSidecar(p) \/ Register(p) \/ Rebind(p)
    \/ SaveMapping(p) \/ Retire(p)
NextOfMigration(p) ==
    \/ DryRun(p) \/ RunMigration(p) \/ MigrateInstruments(p) \/ StripPrefs(p) \/ MigrateOneTone(p)
    \/ Heal(p) \/ HealMeta(p) \/ LoadForMigration(p) \/ MigrateOneIr(p) \/ WriteStub(p)

NextOfRecords(p) ==
    Discover(p) \/ RecordTmpOpened(p) \/ RecordFilled(p) \/ RecordPublished(p) \/ ForgetDevice(p)

Next == \E p \in Procs :
    \/ NextOfFiles(p) \/ NextOfTones(p) \/ NextOfEdits(p) \/ NextOfIrs(p) \/ NextOfMigration(p)
    \/ NextOfRecords(p)

Spec == Init /\ [][Next]_vars
-----------------------------------------------------------------------------
(* What is on disk.                                                        *)

\* Every file is of a known kind, and no reader ever finds half a metadata
\* file or half a record of a device: those are written aside and renamed.
TypeOK ==
    /\ \A x \in DOMAIN fs : x[1] \in FileKinds
    /\ \A x \in DOMAIN fs : x[1] = "meta" =>
           /\ fs[x] # Torn /\ fs[x].id.words = x[2]
           /\ \A k \in DOMAIN fs[x].variants : fs[x].variants[k].hsp = WithKey(x[2], k)
    /\ \A x \in DOMAIN fs : x[1] = "device" => fs[x] # Torn
    /\ mishaps \in 0..Mishaps

\* No tone is ever lost, whatever command is killed at whatever step: a file
\* with its content is left, unless a command was killed while it rewrote the
\* only one in place (write_hsp truncates the file it writes).
ToneKept == \A t \in known :
    \/ t \in torn
    \/ \E x \in HspFiles : fs[x].tone = t
    \/ \E p \in Procs : At(p, "write") /\ Step(p).c.tone = t

\* What a command has said of a tone is so when it ends: the tone has its place,
\* its name and its variant in the metadata, and what is already there is a
\* variant of some tone.  A tone that was put in place by a command that did not
\* get to the metadata (bare) is left as it is.  The migration leaves the variant
\* of a tone that it heals as it finds it, whatever the tone is called there.
HasVariant(r) ==
    LET meta == ReadOr(Meta(r.id.words), None)
    IN  meta # None /\ (meta.id = r.id \/ r.how = "healed") /\ r.key \in DOMAIN meta.variants
Recorded ==
    \A p \in Procs : task[p] = <<>> => \A s \in said[p] :
        s.how # "error" /\ "slug" \in DOMAIN s.r /\ s.r.slug \notin bare =>
            /\ Readable(Tone(s.r.slug)) /\ fs[Tone(s.r.slug)].name = s.r.name
            /\ IF s.how = "skipped" THEN VariantsOf(Tone(s.r.slug)) # {} ELSE HasVariant(s.r)

\* Running the migration again completes it: a tone that was moved and is passed
\* over as being in place has its metadata.
RerunCompletes ==
    \A p \in Procs : task[p] = <<>> /\ todo[p] = <<>> =>
        \A s \in said[p] :
            s.how = "skipped" /\ ~Exists(s.r.src) => VariantsOf(Tone(s.r.slug)) # {}

\* A hash is never bound to the WAV of another IR, whatever the WAVs are called
\* and however an earlier command ended: a preset would play that IR.  What it is
\* bound to may be a half copied WAV of its own (BoundIsWhole says where).
IrTruthful ==
    Exists(Mapping) => \A h \in DOMAIN fs[Mapping] :
        LET w == fs[Mapping][h]
        IN  Exists(w) => fs[w] \in {h, Torn}

\* A WAV that a killed copy left half written is never bound, since what is there
\* is compared with the source (_choose_dest), unless its name has the full hash:
\* that one is taken unread.
BoundIsWhole ==
    Exists(Mapping) => \A h \in DOMAIN fs[Mapping] :
        LET w == fs[Mapping][h]
        IN  Exists(w) /\ fs[w] = Torn => w[2][3] = h
-----------------------------------------------------------------------------
(* What is in the presets.                                                 *)

Bodies == {fs[x].body : x \in LibraryTones}

\* What controls a block is registered as a source, or the device ignores it;
\* a MIDI binding is of a parameter that the block at its place has, and stays
\* with the block when the blocks of its lane slide; a tap is behind them all.
SourcesRegistered(b) == \A t \in Controlled(b) : ControlOf(b, t) \in b.sources
CommandsRegistered(b) == b.commands \subseteq b.sources
MidiFollows(b) == \A m \in b.midi :
    Placed(b.flow[m.at[1]], m.at[2]) /\ BlockAt(b, m.at).model = m.model
        /\ <<m.at, m.q>> \in Targets(b)
TapsLast(b) == \A i \in DOMAIN b.flow : ~Stale(b.flow[i])
BindingsHold == \A b \in Bodies :
    SourcesRegistered(b) /\ CommandsRegistered(b) /\ MidiFollows(b) /\ TapsLast(b)

\* What one hears and controls of a preset in each of its named snapshots.
InForce(w, s) == IF w.snaps = None THEN w.value ELSE Filled(w)[s]
SoundOf(b, Of(_)) ==
    IF b.named \in {None, 0} THEN Of(0) ELSE [s \in 1..b.named |-> Of(s)]
Level(w, s) == IF s = 0 THEN OutputBase(w) ELSE InForce(w, s)
Setting(w, s) == IF s = 0 THEN w.value ELSE InForce(w, s)
BlockSound(k) == [model |-> k.model, ir |-> k.ir]
Sound(b) ==
    LET cell(path, c) == IF path.cells[c].type = "block" THEN BlockSound(path.cells[c]) ELSE path.cells[c]
    IN  [paths |-> [i \in DOMAIN b.flow |->
                       [in |-> b.flow[i].in, out |-> b.flow[i].out,
                        level |-> SoundOf(b, LAMBDA s : Level(b.flow[i].level, s)),
                        cells |-> [c \in DOMAIN b.flow[i].cells |-> cell(b.flow[i], c)]]],
         settings |-> [t \in Targets(b) |-> SoundOf(b, LAMBDA s : Setting(WrapperAt(b, t[1], t[2]), s))],
         controls |-> [t \in Controlled(b) |-> ControlOf(b, t)],
         midi |-> {<<m.cc, m.at, m.q>> : m \in b.midi},
         commands |-> b.commands \ {ControlOf(b, t) : t \in Controlled(b)}]

\* Generating what `view` prints of a preset gives the preset that one hears,
\* with its splits and taps and all that is controlled, whenever the recipe is
\* one that generate takes.
RoundTrip == \A b \in Bodies :
    LET again == Compose(View(b))
    IN  Accepted(View(b)) => again # None /\ Sound(again) = Sound(b)
-----------------------------------------------------------------------------
(* What the device makes of the presets.                                   *)

\* A value in a snapshot, of the preset and as the device recalls it: through
\* the target that the block or the parameter is bound to.
Meant(b, w, s) == IF b.named = None THEN w.value ELSE InForce(w, s)
Recalled(d, leaf, q, s) == DeviceValue(q, d.cg.tamv[s][leaf.tid])
Played(d, i, c, q, s) ==
    LET k == d.flow[i][c]
        leaf == k.parm[q]
    IN  IF q = "on" THEN IF k.on.snap THEN Recalled(d, k.on, q, s) ELSE k.on.enbl
        ELSE IF leaf.snap THEN Recalled(d, leaf, q, s) ELSE leaf.value

\* What moves a target, a parameter when it is bound to it: sources and CC numbers.
Moving(d, i, c, q) ==
    {k \in Range(d.cg.ctrl) : d.cg.trgs[k.tid] = TargetOf(i, c, q)
                                /\ (q = "on" \/ d.flow[i][c].parm[q].tid = k.tid)}
MovedAsMeant(b, d, t) ==
    LET mine == Moving(d, t[1][1], t[1][2], t[2])
    IN  /\ {d.cg.srcs[k.trig] : k \in {m \in mine : m.trig # 0}} = {ControlOf(b, t)} \ {None}
        /\ {k.cc : k \in {m \in mine : m.trig = 0}} = {m.cc : m \in MidiAt(b, t[1], t[2])}

PlaysAsMeant(b, d) ==
    /\ \A t \in Targets(b) :
          /\ \A s \in d.valid : Played(d, t[1][1], t[1][2], t[2], s) = Meant(b, WrapperAt(b, t[1], t[2]), s)
          /\ MovedAsMeant(b, d, t)
    /\ \A i \in DOMAIN b.flow : \A s \in d.valid :
          Played(d, i, MainOutput, "level", s) = Meant(b, b.flow[i].level, s)
    /\ \A i \in DOMAIN b.flow : \A c \in CellsOf(b.flow[i], "split") :
          b.flow[i].cells[c].branch \in Lane1 => d.flow[i][c].bblk = Entity(i, b.flow[i].cells[c].branch)
    /\ b.commands = {d.cg.srcs[k.trig] : k \in Range(d.cg.cmnd)}

\* A preset of the library that is installed sounds and is controlled on the
\* device as its file says, in every snapshot in use; and what is pulled from
\* the device is installed again as the same preset, but for what a pull is
\* known to drop.
Unbound(b) == [b EXCEPT !.midi = {}, !.commands = {}]
InstalledAsIs == (\A p \in Procs : task[p] = <<>>) => \A b \in {x \in Bodies : x.flow # <<>>} :
    \A d \in {HspToDevice(b)} :
        /\ PlaysAsMeant(b, d)
        /\ \A pulled \in {DeviceToHsp(d)} : HspToDevice(pulled) = HspToDevice(Unbound(b))
=============================================================================
