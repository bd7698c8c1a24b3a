------------------------------- MODULE Backup -------------------------------
(***************************************************************************)
(* `device backup` (take, in device/snapshot.py) photographs the device of *)
(* Restore into a tree of files, which `device restore` then reads.        *)
(*                                                                         *)
(* Everything is read first, each read failing or not; then the files that *)
(* differ are written, one after the other in the order of their names,    *)
(* and those that are no longer wanted removed.  A file being written when *)
(* the command is killed is torn.  The device changes between, or during,  *)
(* the runs as the scene says.                                             *)
(*                                                                         *)
(* The device of Restore has one setlist; device.json is left out.         *)
(***************************************************************************)
EXTENDS Restore

CONSTANTS Scenes,       \* what the device holds, one thing after the other
          SlugOf,       \* name -> its slug
          CaseOf,       \* name or slug -> the same in small letters
          IrOf,         \* content -> the IRs it plays
          CaseBlind,    \* does the file system find a name in either case?
          Takes         \* bound: how often the backup is run

VARIABLES irs,          \* the IRs on the device
          later,        \* what the device will hold
          tree,         \* key -> a file: its name as listed, its content, torn or not
          t,            \* the run of take: the local state, or how it ended
          takes         \* the runs begun

snapshotVars == <<irs, later, tree, t, takes>>
allVars == <<vars, snapshotVars>>

\* What the device holds is sound, and its presets and IRs can be counted.
Views == UNION {ToSet(scene) : scene \in Scenes}
ASSUME ScenesAssumption ==
    /\ Takes \in Nat
    /\ \A scene \in Scenes : scene \in Seq(Views) /\ scene # <<>>
    /\ \A d \in Views : /\ SoundDevice(d.pool, d.refs, d.made) /\ IsFiniteSet(d.irs)
                       /\ \A x \in d.pool : IsFiniteSet(IrOf[x.content])

\* Names that differ in their cases only have slugs that differ in no more.
CaseRespected ==
    \A x, y \in UNION {d.pool : d \in Views} :
        CaseOf[x.name] = CaseOf[y.name] => CaseOf[SlugOf[x.name]] = CaseOf[SlugOf[y.name]]

Index == <<"index">>
Setlist == <<"setlist">>
IrIndex == <<"irs">>
PoolFile(fn) == <<"pool", fn>>
IrFile(h) == <<"ir", h>>

Idle == [pc |-> "idle", dry |-> FALSE, rows |-> <<>>, files |-> <<>>, played |-> {},
         errors |-> FALSE, missing |-> {}, write |-> <<>>, stale |-> {},
         had |-> <<>>, edited |-> FALSE, ended |-> "not"]
\* No restore has been asked for.
NoJob == [presets |-> {}, refs |-> {}, prune |-> FALSE]
-----------------------------------------------------------------------------
(* Files by their keys, where the prover knows nothing of the @@ of TLC.   *)

One(key, is) == [k \in {key} |-> is]
\* The new files, and those of the others that they do not replace.
Over(new, files) ==
    [key \in DOMAIN new \cup DOMAIN files |-> IF key \in DOMAIN new THEN new[key] ELSE files[key]]
-----------------------------------------------------------------------------
(* Names of files.                                                         *)

\* Mutant of AssignFilenames: two presets of one name get one file.
AssignUncounted(names) ==
    LET Same(Of(_), i) == {j \in DOMAIN names : CaseOf[Of(names[j])] = CaseOf[Of(names[i])]}
        shared(i) == Cardinality(Same(LAMBDA n : SlugOf[n], i)) > Cardinality(Same(LAMBDA n : n, i))
    IN  [i \in DOMAIN names |-> <<SlugOf[names[i]], IF shared(i) THEN names[i] ELSE NoName, 1>>]

\* A slug that two names share gets a digest of the name; two presets of one
\* name are counted.  Cases do not matter to either.
AssignFilenames(names) ==
    LET Same(Of(_), i) == {j \in DOMAIN names : CaseOf[Of(names[j])] = CaseOf[Of(names[i])]}
        shared(i) == Cardinality(Same(LAMBDA n : SlugOf[n], i)) > Cardinality(Same(LAMBDA n : n, i))
        digest(i) == IF shared(i) THEN names[i] ELSE NoName
        earlier(i) == {j \in Same(LAMBDA n : SlugOf[n], i) : j <= i /\ digest(j) = digest(i)}
    IN  [i \in DOMAIN names |-> <<SlugOf[names[i]], digest(i), Cardinality(earlier(i))>>]

\* Where a file is found on disk.
OnDisk(key) == IF CaseBlind /\ key[1] = "pool" THEN [key EXCEPT ![2][1] = CaseOf[@]] ELSE key
Exists(key) == OnDisk(key) \in DOMAIN tree
Content(key) == tree[OnDisk(key)].is
Holds(key, is) == Exists(key) /\ ~tree[OnDisk(key)].torn /\ Content(key) = is
-----------------------------------------------------------------------------
(* take: what is read.                                                     *)

Taking(point) == t.pc = point
ReadOn(point, with) == t' = [with EXCEPT !.pc = point] /\ UNCHANGED <<irs, later, tree, takes>>
TakeEnds(how) ==
    /\ t' = [Idle EXCEPT !.dry = t.dry, !.errors = t.errors, !.missing = t.missing, !.edited = t.edited,
                         !.had = IF how = "killed" THEN <<>> ELSE t.had, !.ended = how]
    /\ UNCHANGED <<irs, later, takes>>

Take ==
    /\ Taking("idle") /\ c.pc = "done" /\ takes < Takes /\ takes' = takes + 1
    /\ \E dry \in BOOLEAN :
           t' = [Idle EXCEPT !.pc = "pool", !.dry = dry, !.had = tree]
    /\ UNCHANGED <<vars, irs, later, tree>>

\* A strict listing that fails ends the command before it has written anything.
TakeAborts ==
    /\ t.pc \in {"pool", "setlist"}
    /\ TakeEnds("error")
    /\ UNCHANGED <<vars, tree>>

NamesOf(rows) == [i \in DOMAIN rows |-> rows[i].name]

\* Presets are listed as they were made.
ByCid(presets) ==
    [k \in 1..Cardinality(presets) |->
       CHOOSE x \in presets : Cardinality({y \in presets : y.cid < x.cid}) = k - 1]

TakePool ==
    /\ Taking("pool")
    /\ LET rows == ByCid(pool)
           names == AssignFilenames(NamesOf(rows))
           index == [fn \in {names[i] : i \in DOMAIN rows} |->
                        rows[CHOOSE i \in DOMAIN rows : names[i] = fn].name]
       IN  ReadOn("contents", [t EXCEPT !.rows = rows, !.files = One(Index, index)])
    /\ UNCHANGED vars

\* A preset that cannot be read, or was deleted since, is an error and is left
\* out; one that cannot be decoded is written, and its IRs are not known.
TakeContents ==
    /\ Taking("contents")
    /\ \E unread, unscanned \in SUBSET DOMAIN t.rows :
           LET names == AssignFilenames(NamesOf(t.rows))
               At1(i) == {x \in pool : x.cid = t.rows[i].cid}
               ContentOf(i) == (CHOOSE x \in At1(i) : TRUE).content
               read == {i \in DOMAIN t.rows \ unread : At1(i) # {}}
               files == [key \in {PoolFile(names[i]) : i \in read} |->
                            ContentOf(Max({i \in read : PoolFile(names[i]) = key}))]
           IN  /\ Cardinality(unread \cup unscanned) <= 1
               /\ ReadOn("setlist",
                         [t EXCEPT !.files = Over(files, @),
                                   !.played = UNION {IrOf[ContentOf(i)] : i \in read \ unscanned},
                                   !.errors = read # DOMAIN t.rows \/ unscanned # {}])
    /\ UNCHANGED vars

TakeSetlist ==
    /\ Taking("setlist")
    /\ LET rows == ToSet(t.rows)
           doc == {[name |-> NameIn(rows, r.rcid), posi |-> r.posi] : r \in refs}
       IN  \/ ReadOn("irs", [t EXCEPT !.errors = TRUE])
           \/ ReadOn("irs", [t EXCEPT !.files = Over(One(Setlist, doc), @)])
    /\ UNCHANGED vars

\* What is on disk and wanted no more: only if all was read, IRs included.
CompleteButIrs(errors, missing) == ~errors
Complete(errors, missing) == ~errors /\ missing = {}
Stale(files, errors, missing) ==
    {key \in DOMAIN tree : /\ Complete(errors, missing)
                           /\ key[1] \in {"pool", "setlist", "ir"} /\ tree[key].as \notin DOMAIN files}

Differing(files) == {key \in DOMAIN files : ~Holds(key, files[key])}

\* In the order of the names: the index, the IRs, their index, pool, setlist.
InOrder(keys) ==
    LET Of(kind) == SetToSeq({key \in keys : key[1] = kind})
    IN  Of("index") \o Of("ir") \o Of("irs") \o Of("pool") \o Of("setlist")

\* The IRs listed, from a listing that may be stale or fail, and those played.
\* One that is not found, or does not verify, is missing; of the others, one
\* that is on disk is not fetched again.
TakeIrs ==
    /\ Taking("irs")
    /\ \E listed \in SUBSET irs, unlisted \in BOOLEAN :
           LET wanted == listed \cup t.played
               errors == t.errors \/ unlisted
           IN  /\ unlisted => listed = {}
               /\ \E missing \in SUBSET wanted :
                      LET got == wanted \ missing
                          files == Over([key \in {IrFile(h) : h \in got} |-> key[2]], Over(One(IrIndex, got), t.files))
                      IN  /\ wanted \ irs \subseteq missing
                          /\ ReadOn("write", [t EXCEPT !.files = files, !.errors = errors, !.missing = missing,
                                                       !.write = InOrder(Differing(files)),
                                                       !.stale = Stale(files, errors, missing)])
    /\ UNCHANGED vars
-----------------------------------------------------------------------------
(* take: what is written.                                                  *)

Writing == Taking("write") /\ ~t.dry
WriteFile(key, torn) ==
    LET as == IF Exists(key) THEN tree[OnDisk(key)].as ELSE key
    IN  tree' = Over(One(OnDisk(key), [as |-> as, is |-> t.files[key], torn |-> torn]), tree)

TakeWrite ==
    /\ Writing /\ t.write # <<>>
    /\ WriteFile(Head(t.write), FALSE)
    /\ t' = [t EXCEPT !.write = Tail(@)]
    /\ UNCHANGED <<vars, irs, later, takes>>

TakeUnlink ==
    /\ Writing /\ t.write = <<>>
    /\ \E key \in t.stale : /\ tree' = [k \in DOMAIN tree \ {key} |-> tree[k]]
                            /\ t' = [t EXCEPT !.stale = @ \ {key}]
    /\ UNCHANGED <<vars, irs, later, takes>>

TakeKilled ==
    /\ Writing
    /\ \/ UNCHANGED tree
       \/ t.write # <<>> /\ WriteFile(Head(t.write), TRUE)
    /\ TakeEnds("killed")
    /\ UNCHANGED vars

TakeDone ==
    /\ Taking("write") /\ (t.dry \/ (t.write = <<>> /\ t.stale = {}))
    /\ TakeEnds(IF t.errors THEN "error" ELSE "ok")
    /\ UNCHANGED <<vars, tree>>
-----------------------------------------------------------------------------
(* The environment.                                                        *)

DeviceChanges ==
    /\ later # <<>> /\ c.pc = "done"
    /\ pool' = Head(later).pool /\ refs' = Head(later).refs /\ made' = Head(later).made
    /\ irs' = Head(later).irs
    /\ later' = Tail(later)
    /\ edits' = edits + 1
    /\ t' = [t EXCEPT !.edited = TRUE]
    /\ UNCHANGED <<job, edited, runs, ops, p, c, failed, tree, takes>>

\* device restore of the tree, when no file of it is torn or lacks.  The tree and
\* the IRs are not looked at afterwards.
Sound == /\ \A key \in DOMAIN tree : ~tree[key].torn
         /\ {Index, Setlist} \subseteq DOMAIN tree
         /\ \A fn \in DOMAIN Content(Index) : Exists(PoolFile(fn))

RestoreFromTree ==
    /\ Taking("idle") /\ takes > 0 /\ c.pc = "done" /\ later = <<>> /\ job = NoJob /\ Sound
    /\ \E prune \in BOOLEAN :
           job' = [presets |-> {[name |-> Content(Index)[fn], content |-> Content(PoolFile(fn))] :
                                    fn \in DOMAIN Content(Index)},
                   refs |-> {d \in Content(Setlist) : d.name # NoName}, prune |-> prune]
    /\ c' = Fresh
    /\ takes' = Takes /\ tree' = <<>> /\ irs' = {} /\ t' = Idle
    /\ UNCHANGED <<Device, Panel, runs, ops, p, failed, later>>
-----------------------------------------------------------------------------
NoSnapshot == irs = {} /\ later = <<>> /\ tree = <<>> /\ t = Idle /\ takes = Takes

\* A restore of one of the Jobs, or the backups of one of the Scenes.
BackupInit ==
    \/ Init /\ NoSnapshot
    \/ \E scene \in Scenes :
           /\ pool = Head(scene).pool /\ refs = Head(scene).refs /\ made = Head(scene).made
           /\ irs = Head(scene).irs /\ later = Tail(scene) /\ tree = <<>> /\ t = Idle /\ takes = 0
           /\ job = NoJob /\ edits = PanelEdits /\ edited = [plan |-> FALSE, look |-> FALSE]
           /\ runs = Runs /\ ops = <<>> /\ p = NoPlan /\ c = [Fresh EXCEPT !.pc = "done"] /\ failed = FALSE

Snapshot == \/ Take \/ TakeAborts \/ TakePool \/ TakeContents \/ TakeSetlist \/ TakeIrs
            \/ TakeWrite \/ TakeUnlink \/ TakeKilled \/ TakeDone

BackupNext == \/ Next /\ UNCHANGED snapshotVars
              \/ Snapshot \/ DeviceChanges \/ RestoreFromTree

BackupSpec == BackupInit /\ [][BackupNext]_allVars /\ WF_allVars(Step /\ UNCHANGED snapshotVars)
-----------------------------------------------------------------------------
\* The run ended by itself, wrote what it had to, and the device has not
\* changed since it began.
Settled == Taking("idle") /\ t.ended \in {"ok", "error"} /\ ~t.dry /\ ~t.edited /\ job = NoJob

\* A backup that reports nothing is the device: each preset of it has a file
\* with its content, found by its name in the index, and no other file is left;
\* so has each reference its line, and each IR that a preset plays its file.
Mirror ==
    Settled /\ t.ended = "ok" /\ t.missing = {} =>
        LET found(x) == {fn \in DOMAIN Content(Index) :
                            /\ Content(Index)[fn] = x.name
                            /\ Holds(PoolFile(fn), x.content)}
            twins(x) == {y \in pool : y.name = x.name /\ y.content = x.content}
        IN  /\ \A x \in pool : Cardinality(found(x)) = Cardinality(twins(x))
            /\ Cardinality({key \in DOMAIN tree : key[1] = "pool"}) = Cardinality(pool)
            /\ Content(Setlist) = {[name |-> NameIn(pool, r.rcid), posi |-> r.posi] : r \in refs}
            /\ \A x \in pool : IrOf[x.content] \subseteq Content(IrIndex)
            /\ \A h \in Content(IrIndex) : Holds(IrFile(h), h)

\* A run that failed to read something takes nothing of it from the tree: a
\* preset that is still on the device, and whose name no other preset has or had
\* in any case, keeps a file with the content it has or had; an IR that a preset
\* plays keeps its file.
Had(key) == key \in DOMAIN t.had /\ ~t.had[key].torn
NamesLike(n, names) == {i \in DOMAIN names : CaseOf[names[i]] = CaseOf[n]}
Kept ==
    Settled /\ Had(Index) =>
        LET index == t.had[Index].is
            onlyOne(n) == /\ Cardinality(NamesLike(n, NamesOf(SetToSeq(pool)))) = 1
                          /\ Cardinality(NamesLike(n, index)) = 1
        IN  /\ \A fn \in DOMAIN index : \A x \in Named(pool, index[fn]) :
                   Had(OnDisk(PoolFile(fn))) /\ onlyOne(x.name) =>
                       \E key \in DOMAIN tree : key[1] = "pool" /\ ~tree[key].torn
                           /\ tree[key].is \in {x.content, t.had[OnDisk(PoolFile(fn))].is}
            /\ \A x \in pool : \A h \in IrOf[x.content] \cap irs : Had(IrFile(h)) => Exists(IrFile(h))
=============================================================================
