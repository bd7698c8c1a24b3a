# A verification of helixgen-core in TLA+

helixgen is a Python command-line program that authors tones for a Line 6
Helix Stadium and drives the device over the network. Most of it is
single-threaded translation of files. The parts that are hard to get right are
where several processes meet (the lease files that keep concurrent commands
off the device), where one command talks to a device whose index lags, whose
replies get lost and whose writes have surprising semantics, and where a
sequence of writes may stop half way. These are the parts modelled here.

Source paths below are relative to `src/src/helixgen/`.

## Inventory

| component | code | state | operations | modelled by |
|---|---|---|---|---|
| acquisition meta-lock | `locks.py` 940-1070 | `.acquire.lock`, `.acquire.lock.break` | take, poll, judge stale, break, release | `MetaLock`, `SectionLock` |
| device leases | `locks.py`, `_locked` of `cli_device.py` | one JSON file per scope, break mutexes, the heartbeat thread | acquire, pass through, break, verify and back off, renew, release | `Leases`, `LeaseAcquire`, `LeaseVerb`, `DeviceExclusion` |
| held sessions | `locks.py`, `_reads` and `_check_session_or_fail` of `cli_device.py` | the leases of a token | `device lock`, `device unlock`, `check_session` | `LeaseSession` |
| device RPC client | `device/client.py` | socket, request ids, push listener | request, resend after a drop, list, watch | its failures, in `PoolWrite` and `DeviceContents` |
| pool writes | `device/client.py` | the preset pool of the device | create, confirm, attribute, write content, clean up | `PoolWrite` |
| setlists and references | `device/client.py`, `device/reorder.py`, `device/hss.py` | setlists, references at positions | create, rename, delete, duplicate, mirror, import, reorder | `DeviceContents`, `ContentVerbs` |
| copy, move, remove of tones | `device/copy.py` | pool and references | copy, move, remove | `ContentVerbs` |
| backup and restore | `device/snapshot.py` | a backup directory, the device | take (and prune), plan, apply | `Restore`, `Backup` |
| IR store | `device/ir_upload.py`, `device/sftp.py`, `device/maintenance.py`, `device/irmd.py` | device IR registry, listing cache, files | upload, confirm, discriminate a wedge, delete, prune | `IrStore`, `ContentVerbs` |
| device discovery and its cache | `device/discovery.py`, `device/observations.py` | one record per device | discover, resolve address and port, forget | `DeviceRecords` |
| tone mutation engine | `mutate.py`, `spec.py` | a parsed tone | blocks, values, snapshots, controllers, MIDI | `ToneBody`, `ToneEdit`, `UsbTaps` |
| tone generation and view | `generate.py`, `view.py`, `recipe.py`, `hsp.py` | none | recipe to tone and back | `Recipe` |
| level normalisation | `device/normalize.py` | none | trims of several tones | its writes, in `LibraryVerbs` |
| library side stores | `ir.py`, `ir_meta.py`, `tone_meta.py`, `guitars.py`, `usbtaps.py` | tones, metadata, profiles, IR mapping, WAVs | place, import, fork, tag, document, scan, forget | `HomeFiles`, `ToneLibrary`, `IrLibrary` |
| migration | `migrate.py`, `home.py` | the home layout | plan, move, merge, heal | `Migrate` |
| command line | `cli.py`, `cli_library.py`, `cli_device.py` | none of its own | the verbs | `ContentVerbs`, `LibraryVerbs` and the lock wrappers |
| streams and live views | `device/subscribe.py`, `meters.py`, `tuner.py`, `measure.py`, `stimulus.py` | a subscription | sample, level | no |
| device codecs | `device/bridge.py`, `transcode.py`, `untranscode.py` | none | a tone to device content and back | `Transcode` |
| encodings and tables | `device/osc.py`, `content.py`, `linkkey.py`, `modelmap.py`, `defs.py`, ... | none | encode, decode, look up | no |
| device settings | `device/settings.py`, `globaleq.py` | device values | get, set | no |
| block library and ingest | `library.py`, `ingest.py`, `libinit.py` | content-addressed files | ingest, look up | no |
| git auto-commit | `gitops.py` | a work tree | add, commit | no |
| audio analysis | `audio_metrics.py`, `audio_capture.py` | none | signal processing | no |

How they meet: every device verb is wrapped by `@_locked` (writes) or `@_reads`
(reads), which is the only mutual exclusion in the program. Its body then talks
to one device through the RPC client. Nothing else in the home directory is
under a lock: stores are read, changed in memory and published by `os.replace`
of a temporary file, which has a fixed name in most of them and the process's
in `tone_meta.py` and `guitars.py`; tones themselves are rewritten in place.
The device is shared with its own front panel and with Line 6's editor, neither
of which knows the leases. The four groups of modules below share no state: the
leases guard the device, the two device models each take up one command that has
its leases, and the home is what both kinds of command read their tones from.

The hazards are listed, each at its line, in `PROJECT.json`.

## The lease protocol (`locks.py`)

### Modules

* `SectionLock` is what the meta-lock promises: somebody has it, who is inside,
  and a dead holder's grip can be reclaimed. Nobody but the holder ends the
  section of a living process.
* `MetaLock` is how the code keeps that promise: every `link`, `stat`, `read` and
  `unlink` of `.acquire.lock` and of its break mutex is a step of one process.
  `_acquire_meta` is `TakeMeta`/`MetaTaken`, `_meta_is_stale` is a stat
  (`StatMeta`) and a read with a pid probe (`JudgeMeta`), used twice;
  `_break_stale_meta` is `TakeMutex` ... `DropMutex`; `_release_meta` is `EndSection`
  and `ReleaseMeta`. The environment kills processes at chosen points, lets
  files age and reuses pids.
* `Leases` has the lease record and the tests on it: `is_stale`, `owned`,
  `covering_lease`, `_conflict_paths`, `_normalize_scopes`.
* `LeaseAcquire` is `acquire`, `_acquire_one`, `_break_stale`, `_rewrite`,
  `_post_create_conflict` and `LeaseSet.release`, one action per access to a
  shared file. It uses `SectionLock` for the meta-lock.
* `LeaseVerb` puts a verb around it: `@_locked`, the heartbeat of `keep_alive` and
  `_renew_owned`, the clock, and death. A process is one command; its state
  record holds the local variables of the functions it is in.
* `DeviceExclusion` is what the lease files are for, and `LeaseVerb` is shown to
  implement it.
* `LeaseSession` adds the held session: `check_session` (with and without
  `--read`), `session_lock`, `release_scopes`. Reads of several files that only lead
  to a verdict are one step there; a read that a later write relies on is not.
* `MCMetaLock`, `MCLeaseVerb`, `MCLeaseSession` instantiate them for TLC.
* `MetaLock_proofs` and `LeaseVerb_proofs` have the theorems.

### Abstractions

Time is in ticks of one heartbeat interval, a third of the shortest TTL. A lease
carries its age, because no code looks at the time itself. `RENEW_MARGIN_S` is
shorter than a heartbeat, so a lease is unrenewable exactly in the last tick of
its TTL. A nonce is a number that no file has and no process remembers. The pid
probe is exact (death is permanent) because a lease records `pid_start`; the
meta-lock does not, and there a pid may be reused.

Left out: `--no-lock` and `unlock --force`, which opt out of the protocol; leases
from another host (the pid cannot be probed, so they only ever expire) and
Windows, where the probe always says alive; the leases a token may have under
another device address; the one-second limit on joining the heartbeat thread.

### What is assumed about time

The protocol is a lease protocol: it cannot be safe if a process may stop for
longer than a TTL between a check and the write that relies on it. `InTime`
(`SessionInTime`) states what is assumed instead: the clock does not tick while a
process is inside the section, between a check of a lease and its replacement,
or with a heartbeat overdue; and `AUTO_TTL_S` outlasts the lock timeout. Each of
these takes milliseconds in the code against a heartbeat of several seconds.
`Stalls = TRUE` drops the assumption; exclusion is then lost, as in any lease
protocol.

`Prompt` is the regime of `MetaLock`: a section or a break takes less than the ten
seconds after which a file counts as abandoned, and no process is killed inside
the few system calls of a break. `LeaseVerb` uses `SectionLock`, so its results hold
in that regime. Without its second half `MetaExclusion` is false (see the
disagreements).

### Fairness

A live process is scheduled (`WF` of its step); bodies end (`SF_vars(EndBody)`, since
the heartbeat disables it over and over); a section lock that is free again and
again is obtained by a process that keeps polling, because a section lasts
milliseconds and the pause between polls is a random tenth of a second or more
(`FreePoll` and `SF` of `EnterSection`); time passes, and a killed breaker's mutex
grows old. Nobody has to give up (`GiveUp` has no fairness), so `AcquireEnds` does
not follow from the timeout.

### Runs

| run | instance | shows |
|---|---|---|
| `meta_safe` | 4 processes, killed anywhere but in a break, pids reused | the files exclude; they implement `SectionLock` |
| `meta_reclaim` | 3 processes, killed anywhere | the file of a killed process is removed while somebody polls |
| `verb_safe` | verbs on {irs, library}, {all}, {library}; leftovers of a killed verb, of a detached session, of a corrupt file; one verb killed anywhere | exclusion, protection of a running body, all-or-nothing, no removal of a live foreign lease; implements `DeviceExclusion` |
| `verb_live` | two verbs naming two scopes in opposite orders, one killed anywhere | no deadlock: acquire comes to an end |
| `session` | `device lock --pid`, a verb and a read with its token, a second lock, unlock, a foreign verb; leases expire | what `check_session` let through stays covered; a lost session stops the read; locked stays locked until unlock |

In `session` the verb and the read run together after the lock, the foreign verb runs at any time,
the second lock comes when the verb and the read have ended, and the unlock last of all. A second
lock or an unlock beside running verbs meets the races listed below.

Three or four processes are enough for the races: one holds, one breaks or
renews, one takes over, and one more looks on. Two granular scopes and the
exclusive one give every relation two scopes can have (equal, covering,
disjoint). Seven nonces are more than the files and memories of four processes
hold at once. Ages are cut off where no test tells them apart (`MaxAge`).

### Disagreements with the documentation

Each is a check followed by a blind write. None has a run of its own any more;
the instance that shows each is named.

* Breakers. The old break mutex is cleared by a stat and a bare unlink
  (`locks.py:993`), so two pollers that both judged the mutex of a crashed breaker
  old can clear it twice, the second time one that was just taken; two breakers
  then run at once. `_break_stale_meta` says "so the slower reclaimer can never
  delete the FRESH meta the faster one recreated" (`locks.py:986`). Shown by
  `meta_safe` with `CrashPoints <- CrashAnywhere`, `MetaExclusion`.
* Renewals. `_rewrite` compares the nonce and then replaces the file
  (`locks.py:742`). A sibling that shares the token renews every lease of the token;
  between its check and its replace the lease can be released and the scope taken
  by a foreign verb, whose lease is then overwritten. The docstring says "a renewal
  that raced a concurrent break+re-acquire can never clobber the lease now owned by
  someone else" (`locks.py:730`). Shown by two verbs of one token and a foreign one,
  `OnlyOwnerRemoves`.
* Re-locks. The new nonce of a re-lock may be written between those two steps of a
  heartbeat, which then puts the transient lease back, and the verb's release deletes
  it; `session_lock` says that an in-flight heartbeat "must no longer match it"
  (`locks.py:1508`). Shown by a `device lock` that widens a session under a running
  verb, `LockedStays`; and by `session` with the second lock beside the verb and the read, `SessionProtected`: a beat that
  meets the new nonce takes the lease for lost, warns and ends (`locks.py:885`), and the new one expires under the body.
* Unlocks. `release_scopes` reads a lease of its session that has expired; a foreign verb breaks it and takes the
  scope, and the unlink removes that verb's lease (`locks.py:1372`), in spite of "Never unlink a live lease now owned
  by someone else" (`locks.py:1359`). Shown by `session` with the unlock beside
  the foreign verb, `OnlyOwnerRemoves`.
* With `Overruns = TRUE`, `_meta_is_stale` takes a file released between its stat and
  its read for a dead owner's (`locks.py:973`); with `PidReuse = TRUE`, a meta-lock
  whose owner's pid was reused is never reclaimed (`locks.py:975`).
* A session lease with a short TTL that is passed through lapses while the verb waits
  for its next scope (`locks.py:1171`); a verb passes through the transient lease of a
  sibling verb, which ends first and takes the lease with it (`locks.py:1174`); a
  session lease whose shell died is renewed between a breaker's second look and its
  unlink (`locks.py:929`); `device unlock` of an expired lease may remove the lease of
  the process that broke it (`locks.py:1373`).

### Proofs

`MetaLock_proofs` proves, for every set of processes, under `Prompt`:

* `MetaInvariance`: `Spec => []MetaInv`. `MetaExclusion` is not inductive: a breaker
  that is about to unlink could remove the file of a living holder. `MetaInv` adds
  that being inside means owning the file; that a mutex on disk belongs to a
  process in a break and is not old, so nobody ever clears one; that an old
  meta-lock is a dead process's; and that a breaker past its stat is looking at
  the file of a dead process, which only it can remove.
* `MetaMutualExclusion`: `Spec => []MetaExclusion`.
* `MetaImplementsSectionLock`: every step is a step of `SectionLock` or invisible to
  it.

One lemma covers the steps of a process (one case per action), one the
environment; the refinement is laid out the same way on top of `MetaInv`. The
only assumption is `MetaAssumption`. `meta_safe` checks the same three formulas.

`LeaseVerb_proofs` proves the lease protocol for every set of verbs, every order of
scopes, any leases left behind and any crashes, in the regime `OutsideSession`:
no verb presents a token, each makes transient leases under its own pid, none
is another's shell, the leases left behind are of no process that runs here, the
clock keeps to `InTime`, and `AUTO_TTL_S` is three heartbeats at least (it is three in
the code). `MCLeaseVerb` assumes it of its instances, so TLC has checked that
they belong to it. Besides, `LeasesAssumption` and `NoLeaseAssumption` type the
constants, and `WantAssumption` says that `_normalize_scopes` returns a sequence of
slots, which follows from its definition by induction.

* `LeaseInvariance`: `Spec => []LeaseInv`. None of the properties is inductive, since
  each rests on reads that are out of date when they are acted upon. `LeaseInv` says
  for each living verb that what it remembers is still so: its `created` are on
  disk as it made them, and no other lease there is its own but the one it has yet
  to verify (`Recorded`); what it is about to replace is what it read (`Renewing`);
  its leases are two ticks from their end, and a beat has renewed what it has
  passed (`InDate`); no living verb's lease is on a conflict path that its scan has
  passed, and what it is about to break is stale (`Cleared`); every scope it asked
  for is still to do or covered (`Covered`). And next to an exclusive lease of a
  living verb there is no other's (`Exclusive`).
* `BodiesExclude`, `BodiesAreProtected`, `NothingIsLeftBehind`, `LeaseTypes`: the
  invariants `BodyExclusion`, `BodyProtected`, `NothingLeftBehind` and `TypeOK`.
* `OwnersRemove`: `OnlyOwnerRemoves`, a live lease leaves its file only by a step of
  its owner.
* `LeasesImplementExclusion`: every step is one of `DeviceExclusion` or a stutter.

The heart is `Cleared`: a verb that creates its lease inside the section has scanned
all that conflicts with it, nobody else has entered the section since, and
whatever was renewed meanwhile was there when it scanned. `verb_safe` checks `LeaseInv` in
place of the type invariant that it contains.

Only model-checked here: verbs with tokens and sessions (`LeaseSession`), where
the disagreements above live, and all liveness, which is out of the prover's reach, as
is `ENABLED`.

## Writing presets (`device/client.py`)

`PoolWrite` is one command that writes new presets into the pool of the device,
one call after the other: `_push_to_slot` and `_save_edit_buffer_to` after
`find_by_pos` found the position empty (`push`), or at the lowest empty position
(`dest`), `install_into_pool` (`install`), and a write that is not prechecked (`at`,
which only the Python API reaches). A call goes through `CheckPosi`, `ChoosePosi` or
`Snapshot`, then `Create` (the request), `Confirm` (the listings of
`_confirm_created`), `WriteContent`, and `FindStub`/`DeleteStub` (`_after_failed_write`)
or `Recover` (`_pool_cid_by_name`). Each request to the device is a step.

The device is external, modelled from what the code and its comments record of
it. A create at an occupied position inserts: the occupant and all behind it move
down one. A delete leaves a gap. Listings come from an index that trails the pool
by up to `MaxLag` of the pauses between two confirming listings (it then shows
everything at once), any listing may fail, a listed entry may lack its cid. Any
request may fail to land and any reply may be lost; a code other than 0 says
nothing, a code 0 that arrives is true. Somebody saves presets at the front panel
meanwhile; the leases do not bind them.

Bounds: two calls in a row, since what the second can damage is the work of the
first; pools with no entry, one that is unrelated, one of the same name, and one of
the same name in the way with a neighbour to be displaced; one save at the panel;
one resend; three listings against a lag of two pauses, where the code has five
against a lag it does not know. `TruthfulAbsence` needs `MaxLag < Tries`, which is
what the retries are for. `Settles = TRUE` says that the index has caught up before
the next call looks: `mutating` holds a subscription for that. Without it a second
call that chooses its position reads a listing that lacks the first entry and
inserts on top of it, and `CheckedMovesNobody` fails; two calls for one name may then
even write into one entry.

| run | instance | shows |
|---|---|---|
| `pool_safe` | two calls of every way, installs of names that the pool has and has not, lost requests and replies, one resend, one save at the panel | nobody else's preset is deleted, renamed or rewritten; a checked write moves nobody; a call that returns a cid has filled an entry of its own, and the cid is that one's (of an install: that of an entry of the name); no stub is left in silence; absence is claimed truthfully |
| `pool_recover` | one install, the pool has a preset of the name or not | violation of `TrueCid`: the cid returned is the older preset's |

What the properties except, and why. `CheckedMovesNobody` and `NoSilentStub` except a
create that was sent twice: `_rpc` sends any request again after a dropped
connection, `/CreateContent` included; if the first one landed, the second inserts in
its place, moves what is behind, and leaves a stub of which the log has only the
reconnect. Calls that raise are free to leave a stub: the error says that one may be there.

`ReturnsOwn` asks two things of a call that returns a cid: it has filled an entry that it
created, and the cid is that entry's. For the second, `install_into_pool` is excepted as far as the
code makes it necessary. It has the right cid, and then looks it up again by name
(`device/client.py:1929`); the listing may not show the new entry yet, or may show the stub of a create
that was sent twice at its position, so that the cid is merely that of an entry of the
name (`Bearing`). `TrueCid` is what the docstring promises, "the pool is re-listed **by name**
to recover the true cid, which is returned" (`device/client.py:1938`); `pool_recover`
shows it violated without a resend. `import-hss` then refers to the older preset (`device/hss.py:490`);
`device copy` does not come to it, since it installs only what the pool has no preset of the
name of, and create, save and push do not use this recovery. With a resend `device copy` may
still get the cid of its own stub.

### Proofs

`PoolWrite_proofs` proves the five properties of `pool_safe` for every sequence of calls,
every pool, any number of lost requests and replies, of resends and of saves at
the panel, from `PoolAssumption` (types, and that the entries of a pool have a cid
each) and the regime of the run, which `MCPoolWrite` assumes of its instance:

* `Settled`: `Settles`, and `MaxLag < Tries`. Without either half `CheckedMovesNobody`,
  `ReturnsOwn` and `TruthfulAbsence` are false, as said above.
* `DistinctNames`: nobody at the panel uses the names of this command. Otherwise a preset that
  is saved at the position between the look and the create is taken for the call's own. The
  pool may have presets of the command's names, and the command may use one twice.

`PoolInvariance` is `Spec => []PoolInv`. Its parts: the index trails the pool by no more
pauses than the confirming listings have left, and shows no entry that is gone
(`IndexTrails`); what is not the call's own was in its snapshot or is not where it
writes (`Attributable`), which is why a row found at its name and position is its
own (`OwnTarget`); the copy of the create that landed last is where it was created
(`OwnInPlace`); entries bear the names their makers give (`MadeBy`); at the start a
listing shows all but what the panel just saved (`LooksAround`). `ReturnedIsOwn`,
`StubsAreReported` and `AbsenceIsTruthful` follow from it, `OthersAreSafe` and
`CheckedCallsMoveNobody` are proved of every step from it. TLC has checked `PoolInv` on
the instance of `pool_safe`; the run lists the three properties that it contains.

## Backup and restore (`device/snapshot.py`)

`Restore` is `device restore`. `plan_restore` is `ReadPool` (the pool's part of the
plan), `ReadSetlist` (the part of `_plan_setlist` before its loop: what is in place,
what moves from where, what is left over), one action for each way through the loop
(`PlanReady`, `PlanBlocked`, `PlanPark`) and `PlanEnd` (the deletions of `--prune`).
`apply_restore` runs the operations: `Create`, `UpdateContent`, `DeletePool`, and for
references `Look`, `Add`, `Verify`, `Drop` (an added one, and the removal of the one it
replaces) or `LookRemoved`, `Drop`. Every request may fail, landed or not; a failed
operation is recorded and the next one begins. The command may be killed between any
two steps and run again (`Again`), with a fresh plan. Somebody edits the setlist at
the front panel.

A reference that is added at an occupied position replaces the incumbent: this is
what all the care of the code is for. The index is taken to be fresh, since
`apply_restore` holds the subscription throughout. One setlist stands for all, since
their plans share nothing but the pool. Creating a preset is one step with the
outcomes that `PoolWrite` allows.

`Backup` adds `device backup`: `take` reads the pool (`TakePool`), the contents
(`TakeContents`, any of which may fail or not decode), the setlist (`TakeSetlist`),
the IR listing and the IRs (`TakeIrs`), decides what differs and what is stale, then
writes and removes file by file (`TakeWrite`, `TakeUnlink`), and may be killed in the
middle of a file (`TakeKilled`). `AssignFilenames` is `assign_filenames`: slugs, a
digest where two names share one, a count where two presets share a name. The device
changes between the runs as the scene says (`DeviceChanges`), and a whole tree can be
given to `device restore` (`RestoreFromTree`), which is how the two are composed. The
tree is a function from what a file is to what it holds, as the file system finds
it (`CaseBlind`).

| run | instance | shows |
|---|---|---|
| `restore_safe` | restores: setlists of four positions (two swapped, a cycle that fills the setlist, one blocked by a foreign reference, one with two presets of a name), backups with and without a preset listed twice, with and without `--prune`, one edit at the panel, two runs of the command. Backups: two runs, killed anywhere, any one preset unread or undecoded, the setlist or IRs unread, of devices on which a preset was edited and another deleted, a slug got a second name, namesakes swapped places, an IR is gone; then a restore of the tree | nothing wanted leaves the setlist, whatever fails; a restore without an error has restored; planning ends; a backup that reports nothing is the device; one that could not read something removes nothing of it |
| `backup_case` | a preset renamed from "Lead" to "lead" on a file system that does not tell them apart | violation of `Mirror` |

Four positions are the least in which a cycle of three has, or lacks, a place to park.
Fairness: the command runs on (`WF` of its steps), since every request ends by a
timeout; `Ends` is about the planning loop, which goes round until no move is left.

`NothingLost` excepts what the code cannot see: an edit between the look at a target
and the write. With `--prune` it speaks of presets that the backup has as well as
lists (`Wanted`): a setlist that could not be read keeps the file of an earlier backup,
which may name a preset that `index.json` no longer has; if the device has it,
`--prune` then deletes that preset, although it deletes "once nothing references it"
(`snapshot.py:762`). `OkMeansRestored` assumes a `Consistent` backup: its presets
have different names, and its setlists list its presets only. The device permits
twins; with two in a backup and one on the device (say, the other was deleted), both
files become updates of the one preset, the restore reports success, and the invariant
fails (try `presets` with one name and two contents), although `plan_restore` promises
"an error naming the competing cids — never a guess" (`snapshot.py:623`). After a removal
that failed, `--prune` deletes the preset all the same and leaves the reference
dangling; that is reported as an error and left to the next run.

`Mirror` speaks of runs without errors or missing IRs, since a run whose IRs are
missing exits with 0 too; an IR that one run cannot fetch leaves `irs/index.json`
although its file stays. `Kept` excepts names that more than one preset has, in any
case: if two equal names change places while one of them cannot be read, the other's
earlier file is overwritten. Files are written in place: a kill tears one, which the
next run writes again. Left out: `device.json`, the serial number, several setlists.

### Proofs

`Restore_proofs` proves both safety properties of a restore, for every backup, every
device, setlists of any length, any requests that fail (landed or not), and any edits at
the panel and re-runs. The assumptions are those of `Restore`: a device's cids and
positions are taken once (`SoundDevice`), a preset has a name, and the references of a backup
are inside the setlist and at different positions, which `_desired_refs` sees to.

* `RestoreInvariance`: `Spec => []RestoreInv`. `PlanInv` says what an operation of the plan
  may be (a removal only with `--prune`, a deletion only of a name the backup lacks).
  `MovesInv` is about the loop of `_plan_setlist`: the target of a move that is not free
  is held by what stays (`fixed`) or by what another move takes away. When nothing
  is ready or blocked, every target is therefore a move's source, so that there
  is a move to be parked: `next(...)` (`snapshot.py:600`) finds one. `SparedInv`: of the
  references to a wanted preset, the plan leaves one. `MidwayInv` and `TargetInv` are
  about the two halves of a move: nothing is removed before the other reference to
  the same preset has been seen at the target, and the target was empty before.
* `Typing`, `NothingIsLost`: `TypeOK`, which no run lists, and `NothingLost` of every step.
* `Restored`: `OkMeansRestored`, for `Consistent` backups, from two more invariants of a
  restore that has not failed so far. `PresetInv`: every preset of the backup is as it
  shall be, or an operation that is yet to come makes it so. `LinesInv` relates plan
  and device by a simulation: there is a sequence of sets of lines, one before each
  operation, each the `Effect` of the operation on the one before; the setlist has
  the lines before the next operation (`Follows`, with what differs in the
  middle of one), and the last of them, together with the moves still to be
  planned, is what the backup wants (`Fits`; `Reached` when the plan is complete). Planning
  extends the sequence at its end, and applying moves along it.

TLC has checked the parts of `RestoreInv`, `PresetInv` and, with the sequence computed from the
plan, `LinesInv` on the instance of `restore_safe`. `Ends` is liveness and stays with TLC.

The same module proves both invariants of `Backup`, for any scenes, any number of runs, reads that
fail in any way, and kills at any point, on a file system that tells cases apart
(`CaseBlind = FALSE`; `backup_case` shows that `Mirror` fails on one that does not). The
assumptions are `ScenesAssumption`: what the device holds is sound and finite.

* `BackupInv`: either the tree has been given to a restore (`NoPhoto`), or `PhotoInv` holds, which
  has a part for each thing that a run has read so far and for what it still has to write.
  `RowsInv`, `ContentsInv`, `DocInv` and `IrsInv` say that the rows, the presets' files, the
  setlist and the IRs in memory are those of the device, unless the device has changed
  since the run began or a read has failed. `WriteInv`: every file is on disk already or waits to be
  written; a run that has read everything (`Whole`) will have removed all other files at its end, and
  one that has not removes none. `TreeInv` is what a run finds of the earlier ones, however they
  ended: the name of a file is made of the name that its index has for it.
* `Mirrored`: `Mirror`. That no two presets get one file, whatever their names, slugs and cases
  are, is the lemma `FilesApart`: it is the reason for the digest and the count of
  `assign_filenames`.
* `NothingTakenAway`: `Kept`. A file that a run overwrites although it did not read the file's preset
  belongs to another preset of the same slug; `NameOfFile` shows that this one has the same name in
  some case, which `Kept` excepts. This needs `CaseRespected`, a property of the names and not of the
  code: names that are equal but for their cases have slugs that are. `casefold` and
  `_slug` do not quite give it: the Kelvin sign folds to "k" but has the slug "untitled", so
  that `assign_filenames(["k", "k/", "\u212a"])` is `k.sbe`, `k~fe602f0a.sbe`, `untitled.sbe`, while
  `["k/"]` alone gives `k.sbe`. A backup of the three that cannot read `k/` overwrites its only file
  with `k`. For names of ASCII characters `CaseRespected` holds; TLC checks it of the instances.

TLC has checked `BackupInv` on the instance of `restore_safe`. Files are put together by `Over`,
and presets listed by `ByCid`, in place of operators of TLC's modules, of which the provers know nothing.

`Collections_proofs` has the lemmas about sequences and sets that these proofs and those of
`ContentVerbs_proofs` share: elements of a concatenation, `SetToSeq` (which lists each
element once), the minimum and the ranks of a finite set of numbers, sets of one size.

## Setlists, references, tones and IRs of the device

### Modules

* `DeviceContents` is the device of firmware 1.4 (presets, setlists, references at
  positions) and the requests of `device/client.py` that change it. A command is a
  list of operations. Each is one request: it lands or not, its reply says so, says
  no or is lost, or the connection drops; what the caller makes of the reply (stop,
  note and go on, warn) is part of the operation, because that is where the code's
  functions differ. `Operations` are the requests, `Panel` the edits at the front
  panel.
* `IrStore` adds the IRs: registry rows, the listing cache, and files, each of a name and with an
  IR in it. An upload writes the file of the local WAV's name, whatever it holds (`upload_ir`), and may
  be cut short, which leaves neither. `push_ir` with
  `confirm_ir_listed`, which lists, nudges the device to refresh by renaming an IR to its own name,
  and lists again before it calls an IR wedged; `delete_device_ir` and its
  `--force-wedge`; `prune_device_irs` with its two scans; the device's collection of files.
* `ContentVerbs` has the commands: setlist create, rename, delete and duplicate,
  `mirror_setlist`, `import-hss`, create, rename, delete, reorder, move, rm, copy, save, push,
  push-ir, delete-ir, rename-ir and ir-prune. Each action is the part of the command
  that reads and refuses, and gives the list of operations; lookups made later
  (`CopyRefs`, `LookTaken`, `CheckHolders`, `Place`) are steps of their own, as in the
  code.
* `MCContent` has two devices (one with a gap, a shared preset and a wedged IR; one full,
  with namesakes), four IRs, two of which have WAVs of one name, and 100 or so scripts: every
  command with the arguments that tell its branches apart, `device copy` twice in a row as a retry,
  a push of an IR over the file of another and the deletion of either.

| run | shows |
|---|---|
| `contents` | no command that adds replaces or moves a reference it found; a command that ends without an error or a warning has done what it says (`DoneMeansDone`, a clause for every command); no preset is deleted under a reference of another setlist; only what may be deleted of the IRs is; a registered IR has its file, but for what is excepted below |

Bounds: three positions, four IRs, one panel edit, at most one command after another.
Operations are carried out one by one, so that what matters is which of them failed
and how, and each of them may. `DoneMeansDone` speaks of runs without a panel edit,
the other properties of all.

For reorder and move the clause picks the reference that was meant out of those that the command
found (`Meant`: of the setlist, by cid or by the name of its preset), wants it at the position asked for
and all others in their order (`Rearranged`). Save, push and the IR commands may end with a warning (a
reference that was not confirmed, an upload that the device has not registered yet); nothing is
claimed of those.

`RegisteredHasFile` excepts three kinds of IRs:

* one with which a command `Tampers`: `delete-ir --force-wedge`, and a `rename-ir` that shows another IR under
  the name of its file. When the device does not tell the path, `_remove_ir_backing_file` falls
  back to the displayed name (`device/maintenance.py:376`);
* one that `Shares` the name of its WAV with another IR. `push_ir` uploads `<stem>.wav` (`device/sftp.py:268`), and
  `upload_ir` replaces a file of that name unseen: the other IR keeps its row and has no
  file any more, although a listing shows it. A `device copy` of a tone that uses both uploads both and reports no error,
  where `copy.py` says "a copy that leaves a cab reading "No Model" is a broken copy" (`device/copy.py:13`). Without this
  exception `contents` violates the property;
* one whose upload was cut short, which was `Reported`. The lookup by hash that precedes an upload reads an answer that
  does not come as absence (`ir_path_for_hash` is not strict there), so that an IR that is present is uploaded again,
  which truncates its file first. The command reports it; the next run of `device copy` trusts the listing, finds
  the IR listed and does not mend it.

What the device does with the row of an IR whose file was replaced is not in the repository; the model keeps it.
A restore uploads under `<hash>.wav` (`device/snapshot.py:813`) and has no such collision.

### Proofs

`ContentVerbs_proofs` proves five of the six properties of `contents` for every device and
every script of commands, with any requests that fail or are lost and any edits at the
panel. The assumptions are those of `ContentVerbs`, which TLC evaluates on the instance:

* `DevicesAssumption`: the rows of a device at the start are well-formed (`Sound`: cids are
  unique, a reference is in a setlist and alone at its position), and its IRs are in
  order (`Untouched`: the file of an IR has the name of its WAV, none is shown under the name of
  another's file, and a registered IR that shares its name with no other has its file). After a restore the first
  does not hold, since it names files after hashes: then an upload meets no other's file unless one is called
  like a hash.
* `ScriptsAssumption`: the commands are ones that the command line lets through
  (`Sensible`: `--pos` is there where it is required, the hashes are hashes of IRs).

`ContentInvariance` is `Spec => []ContentInv`. A command first reads the device and then
works through a list of operations, some of which read again and put more on the
list; meanwhile the panel may change what was read. Hence the two halves of the
invariant. `DeviceInv` compares the device with what the command found: it is sound,
what is new has a newer cid, and a command that adds still has every reference it
found. `CommandInv` says of each operation still on the list that it may be done
(`May`): a reference that is added goes to a setlist that is there, or is made by
an earlier operation, and to a position that no found reference has (`MayAdd`); what is
removed from the pool is nobody's but the named setlist's (`MayRemove`); an IR that
is unregistered was not used at the second scan (`MayUnlist`). A change of the device is
`Harmless` if it leaves every `May` true, which is proved once for each request and
for the panel; what a step does to the list is proved apart from that (it ends the
command, drops the first operation, puts others in its place, or stays with it).

* `Typing`, `Incumbents`: the invariants `TypeOK` and `IncumbentsSafe`, parts of it.
* `NoOrphans`, `IrsKept`: the action properties `NeverOrphans` and `IrKept`, proved of every step from it.
* `RegisteredIrs`: `RegisteredHasFile`, with `IrInv` besides, which says that files stay under the names of
  their WAVs (`AtHome`), and so an upload meets only its own IR's file or that of one with which it shares
  the name, and that every removal of a file is of an IR without a row (`Midway`).

`DoneMeansDone` stays with TLC. It speaks of the order of references after a loop of
additions, and for import-hss of the slots that were skipped, so that an invariant
for it would say of every prefix of the list of operations what it has made of the
device. TLC has checked `DeviceInv`, `CommandInv` and `IrInv` on the instance of `contents`; the
run lists the properties that follow.

### Met on the way

* `device rm --also-pool` deletes the preset although the device refused to remove the
  reference: the scan for other holders leaves the setlist out by its name
  (`device/copy.py:322`), so neither a reference that stayed nor a second one in that
  setlist counts; the option says "this never orphans" (`cli_device.py:2723`).
  `NeverOrphans` is stated for the other setlists. Without this exception it fails.
* `import-hss` says that presets are "appended after" what the setlist has; it fills the
  lowest gaps. Into a full setlist it installs the presets and then asks for a
  position past the last. It is documented that a retry installs twice.
* `device save` and `device push` into a setlist exit with 0 and a warning if the
  reference was not confirmed.
* The room for IRs (`ir_room`) is read once before a batch and is advisory.
  `mirror_setlist` has no caller in `src/`.

## Tones and the library at home

### Modules

* `ToneBody` is the body of a `.hsp` file: paths of two lanes of cells, parameters with a
  value, a controller and a value for each snapshot; sources, commands, MIDI records.
* `ToneEdit` has the operations of `mutate.py`, each a function from a body to a body, or
  to `None` where the code refuses: `set_param`, `set_output`, `set_enabled`, `add_block` with
  the renumbering of a lane, `remove_block` with what it prunes, `swap_model`, `set_input`, footswitches and expression. `ApplyOperations` is `patch`.
* `UsbTaps` is `usbtaps.py`: where a tap goes, when one is stale, lifting all of them for
  an edit and putting them back.
* `Recipe` is generate (`Compose`, with what `parse_spec` refuses in `Accepted`) and
  view (`View`).
* `HomeFiles` is the file system: `fs` maps a path to what it holds, `task[p]` is the
  list of steps a command has before it, `mem[p]` the mapping it has read. Writing in
  place is two steps with a torn file between them; publishing is open, fill, rename.
* `ToneLibrary`: `place_tone` in its order (copy, verify, rename, metadata, unlink),
  `upsert_variant`, `library import`, `fork`, `generate`, `tag`, `doc`, notes, guitar
  profiles. `IrLibrary`: `register-irs`, `ir-scan` and its `--remove`, `library ir-backfill`, with collisions
  of pack folders and hash prefixes. `Migrate`: `library migrate`, its dry run, its plan
  file and its healing. `DeviceRecords`: `device discover` and `forget`, the records of
  devices, and the chain by which an address and a port are resolved.
* `Transcode` is what an install makes of a tone (`HspToDevice`: `hsp_to_paths`,
  `synthesize_sfg`, `_synth_cg_from_recipe`, `_bind_snapshot_targets`) and what a pull makes
  of that (`DeviceToHsp`: `untranscode.py`). The device keeps the blocks on a grid, apart
  from them numbered targets, sources, controllers and, for each snapshot, the values of the
  targets; a block and a parameter name their target by its number.
* `LibraryVerbs` puts the commands together, with the edit verbs, `usb-taps --apply` and
  the writes of `device normalize`. `Crash` kills a command between any two steps,
  `Fault` fails a write, `Start` runs the next command of the user.
* `MCLibrary` has 68 homes with what is run on them.

| run | shows |
|---|---|
| `library` | a tone is never lost but in the file being rewritten; what a command has said of a tone is so on disk; a hash is never bound to another IR's file, nor to half a WAV but at the name that has all of the hash; bindings, sources, commands and taps survive every sequence of three edits; view and generate give back the same tone; every tone reached, installed on a device, sounds in every snapshot and is controlled as its file says, each split enters its own branch, and a pull installed again gives the same preset (`InstalledAsIs`); a command finds the device that was discovered last |
| `migrate_heal` | violation of `RerunCompletes`: one tone, killed after the move, migrated again |

Bounds: one kill or failed write in a script of two or three commands, which is a retry
after an accident; two processes only where `tone_meta.py` names its temporary file
after the process; five cells to a lane, two snapshots, two footswitches and a pedal, one MIDI
assignment; values are small numbers. Three edits reach every combination of adding,
removing and moving a block with something bound to it or to its neighbour. The
deadlock check is off: the commands come to an end. There is no liveness here; every
command is a finite list of steps.

One body (`Legacy`) is an old export, with gaps in its arrays and a snapshot that is not in
use, since no command writes such arrays any more. `InstalledAsIs` is evaluated where no
command is under way: a body that is on disk then has been looked at after each edit.

Excepted: `ToneKept` a tone whose only file was being rewritten in place when the command was
killed (`torn`); `Recorded` a tone put in its place by a command that did not get to
the metadata (`bare`): nothing marks it, and later commands leave it as it is.
`IrTruthful` says that a hash is not bound to the WAV of *another* IR; a WAV may be half copied, and
`BoundIsWhole` says where: WAVs are copied into the library in place, and what is at the natural and at the prefixed name is compared
with the source, but the third name, with the full hash, is taken unread (`ir_meta.py:308`, `ir_meta.py:336`). After a
kill at each of two names (or at one, when the hashes begin alike) the half of a WAV is bound for good,
although "the chosen dest is always either absent or byte-identical to ``src``" (`ir_meta.py:297`); `library validate` looks
only whether the file exists. `library` has that case, three IRs of one name and one kill, and violates
`BoundIsWhole` without its exception. The migration is spared, since it copies
again where there is no sidecar; of two commands that migrate one IR at the same time, however, the later may be
killed while it copies over what the first has bound, which no scene of the run has.
`RoundTrip` speaks of the recipes that `parse_spec` takes. `InstalledAsIs` compares a preset
pulled and installed again with one that had no MIDI records and no commands: a pull
drops both, with a warning (`device/untranscode.py:831`).

### Abstractions

Blocks are named by their coordinates: the resolution of names, with the wildcards of
`_refs_may_alias`, is left out, and so are stereo values, ranges, impedance, labels and
colours, the carry-over of a chassis, trails and wah wiring, more than one command to
a switch, nested splits, microphone preferences and stored defaults. The content of a
tone or WAV is a token: a user's edits of them are not modelled. The hash of a WAV is
exact; `register-irs preset.hsp wavs`, which takes the user's word for it, is left out,
and so is `generate -o` onto a file that the user names.

`Transcode` leaves out blocks of several models, controllers and snapshots of splits, inputs
and second-row endpoints (no operation of `ToneEdit` gives them any), the packing of a flow
whose recorded places cannot be kept, pointers into the other path (`xbranch`), scribble
strips and the other scalars, commands on the footswitches of the second bank, which `_synth_commands` passes over in
silence (`device/transcode.py:1258`; every switch of the model has an address), and `ctm_.ptid`, an index over what the leaves say. A target
is a place and a parameter; numbers of models and parameters are tables.

`DeviceRecords` has the mDNS answers lose any subset, a handshake fail and the clock stand still for
a run; probing finds every device at the standard port. Local-network denial and the model and
firmware fields are left out.

### Proofs

`LibraryVerbs_proofs` proves what holds of the home of every user who types whatever
commands, any number of them at the same time, each of which may be killed or fail at
any write. There is no regime in this module; the assumptions are those of `LibraryVerbs`, which TLC
evaluates on the instance:

* `ScenesAssumption`: at first the home is as the commands leave it (`IsHome`: a WAV whose
  name has all of a hash is of that hash, a hash of the mapping is bound to a WAV of that hash, a
  metadata file is whole and in its place), and the commands are ones that the command
  line lets through (`IsCommand`).
* `ShortOfAssumption`: the first digits of a hash are no hash. `MishapsAssumption`: a bound.

`HomeKept` is `Spec => []Inv`. The invariant says there is an assignment `of`, of IRs to the
WAVs on disk, and compares everything with it: a WAV is of its IR or copied halfway
(`WavsAre`), the mapping on disk, the mapping in the memory of each command, the plan file
and each step that is to bind a hash name a WAV of that hash (`Names`). The assignment is
what makes it inductive: a WAV being copied holds nothing yet that says whose it
is, while its binding is already on the way; and the migration may begin a copy
onto one that another command left half done, or has under way, so that the content
of a WAV comes and goes. `ChosenDest` shows why that does no harm: each of the three names
that `_choose_dest` tries is free, or the same IR's, or has all of the hash in it.
`HashesBoundTruly` (`IrTruthful`) follows. `BoundIsWhole` is not proved: it needs homes whose bound WAVs
have sidecars, and commands on one IR one at a time.

The rest of the invariant is what the steps need of each other. `StepOK` says of each step
what it is about; `Linked` that a step that was pushed as the second half of another
comes right after it (publish after fill, verify after the copy), so that what
is published is what was written (`TmpReady`): a metadata file is always whole, because the name of
its temporary file has the process in it. `HasMetadata`, a part of `TypeOK`, is therefore proved for any
number of commands.

A task is a list of steps, and most actions put a few steps in the place of the first. The
lemmas of the first part say what that does to a well-formed list (`OntoOK`), and what an
error does (`AfterOK`, the item is given up); `BigStep` and `QuietStep` put both
together with what the step does to the files, so that an action's own lemma (`...Holds`)
has only its own part to show.

`Collections_proofs` holds what these proofs and those of the device commands need of
`FoldSet`, `SetToSeq` and `FlattenSeq`. Induction over data is out of the prover's reach as a
theorem of the library, since those take an operator as a parameter; for a set it can be
done by hand, with the least number of elements that is a counterexample (`FlattenSeqType`).

`LibraryKept_proofs` goes on from `HomeKept` to what needs the commands to be apart, since nothing
locks these files. A regime is a state predicate, and the theorem is about the behaviours in
which it always holds:

* `NoToneLost` is `[]TonesApart /\ []NewFiles => []ToneKept`. `TonesApart` says that no command is about
  to write or remove a preset that another copies, verifies or registers (`Uses`, `Writes`): one that fails to
  verify its copy removes a file that another may have generated meanwhile. It says nothing of commands
  that write at the same time to files that nobody copies. `NewFiles`: `generate -o` replaces
  what it is told to replace, so that its target must be new.
* `FilesWhole` is `[]RecordsApart => []TypeOK`. `RecordsApart`: no two commands record the same device
  at the same time, since the temporary file of a record has a fixed name; others may be recorded.

A single process is in all three regimes whatever it runs, but for `NewFiles`. In the scenes of
`library` none of the three is ever left.

`TonesInv` and `RecordsInv` are what makes them inductive: a file being written is torn, and what is to be
written is a tone; a copy and its source are both there until the copy was compared, and the copy is torn
or equal (`CopyReady`); no two commands are within a write of one file (`WritesApart`); the temporary file
of a record that is to be published is whole (`RecordReady`). TLC checked both on the scenes of
`library` first. Most steps touch neither presets nor records (`Aside`); the others have a lemma each
(`...Keeps`). The hypotheses `TornIsNoTone`, `~IsMeta(Torn)` and `~IsObservation(Torn)` say that
half a file is no whole one: `Torn` is a string in the runs, the others are records, which the provers cannot
tell apart by themselves.

`Recorded` stays with TLC: it holds of the homes of the run, and not of every home, even with one command
at a time. Looking for its invariant showed two ways to break it. A tone that the migration heals keeps the variant it
has in the metadata, whose identity is not compared (`migrate.py:474`); `HasVariant` excepts it, and two
scenes with such a home are among those of the run. And a manifest whose second entry has for its path
the destination of the first makes the migration report the first tone as "already in place" and then
move the file away under the second name; an edited plan can do the like. A theorem would have to exclude these by assumptions on
what is typed into a manifest or a plan, which the code does not check.

`Discovered` stays with TLC as well: it is about the order of the records that a device's discovery leaves, where the time
of a new record (`Now`) is a fold over those there are, and it holds while no second command writes records.
`BindingsHold`, `RoundTrip` and `InstalledAsIs` are about what folds over the blocks of a tone compute.

### Met on the way

* Migration. `migrate_heal` is in `findings`. Also: a kill between the copy and the unlink,
  when the tone is renamed, leaves "destination already exists" for every re-run; an
  identity that differs from the metadata is found only after the file was moved.
  "Data-safe" (`migrate.py:29`) does not cover the rewrite in place.
* `view` writes a footswitch or expression entry for a parameter with a MIDI binding, which
  `parse_spec` rejects, against "never emit an entry parse_spec would reject"
  (`view.py:603`). It drops commands on a switch that also toggles a block, and parameter
  overrides of unnamed snapshots.
* A footswitch and a command on one switch. `_synth_commands` gives a command a source of its own,
  because "helixgen rejects a switch shared by a footswitch controller AND a command"
  (`device/transcode.py:1370`). Only `parse_spec` does (`spec.py:348`); `wire_footswitch`, and with
  it `set-footswitch` and `patch`, does not, so that an edited tone gives the device two
  sources for one switch. What the device does then is not in the repository, and
  `InstalledAsIs` asks only that the entries lead back to the switch.
* `set_enabled --snapshot` on a preset without snapshots is written, and ignored by the
  device. `remove_block` and `swap_model` leave sources that nothing uses. Nested splits
  pass `parse_spec` and then raise in `_emit_splits`. An invalid first snapshot's value
  becomes the base value of a bypass (`generate.py:563` says otherwise).
* `device normalize` of a setlist says after a failed write that "Re-running normalize is
  safe — trims are sized from total loudness, so already-written files re-measure in
  band" (`cli_device.py:4769`). What is measured is what the device plays; the trims went
  to the local files. Before the next sync a re-run measures the old levels and trims
  the written files a second time. Levels are not modelled, so no run shows it.
* Temporary names. `observations.py:172`, `irhash_cache.py`, the IR mapping, the
  preferences and `scaffold_default` use a fixed one: two commands at a time may publish a torn
  file, or fail at the rename. And in every store, metadata included, the later of two
  commands that read and write back undoes the other. The two-process scenes show only that the
  file is never torn.
* `resolve_port` skips a newer record that has no port and takes an older record's of the
  same address (`device/discovery.py:737`), although a record without one means the
  standard port ("Discovery is authoritative for the port", `device/observations.py:193`).
  `Discovered` excepts the port of an address on which another device's record left one.

## Not modelled

* Streams, meters, tuner, audio analysis, the levels of normalisation: arithmetic on real
  numbers, out of TLC's reach. The stream loop has no shared state.
* The encodings and tables (`osc.py`, `content.py`, `linkkey.py`, `modelmap.py`, `defs.py`): what they must agree
  with is the device's, and is not in the repository; a model would repeat the tables.
* Device settings, live editing of the edit buffer, listings: single requests.
* The block library: files named by content, written once, read by name.
* Git auto-commit: advisory; its failures are warnings and nothing reads its result.
* `--no-lock`, `unlock --force`, Windows.

## What is proved, and what is not

| component | proved for all constants | only model-checked |
|---|---|---|
| meta-lock | `MetaInv`, `MetaExclusion`, `ImplementsSectionLock` | `CrashedMetaReclaimed` (liveness) |
| leases | `LeaseInv`, `TypeOK`, `BodyExclusion`, `BodyProtected`, `NothingLeftBehind`, `OnlyOwnerRemoves`, `ImplementsExclusion` | `AcquireEnds` (liveness) |
| sessions | | all: see the plan |
| pool writes | all five of `pool_safe` | |
| setlists, references, tones, IRs of the device | `TypeOK`, `IncumbentsSafe`, `NeverOrphans`, `RegisteredHasFile`, `IrKept` | `DoneMeansDone` |
| restore | `NothingLost`, `OkMeansRestored`, `TypeOK` | `Ends` (liveness) |
| backup | `Mirror`, `Kept` | |
| library at home | `IrTruthful`, `ToneKept`, `TypeOK` | `BoundIsWhole`, `Recorded`, `BindingsHold`, `RoundTrip`, `InstalledAsIs`, `Discovered` |

Out of the prover's reach: liveness and `ENABLED`; what a recursive definition or a fold computes
for every input, since that takes induction over data (`ToneEdit`, `Recipe`, `UsbTaps`,
`Transcode`: `BindingsHold`, `RoundTrip`, `InstalledAsIs`).

## Plan

Everything of the first plan is built. What is left is proof, in this order:

1. `LeaseSession`: an invariant with tokens. It needs more than `SessionInTime`: a lease that is passed
   through for one scope may expire while the command waits for the next, a verb may release the lease
   that a read of its session was checked against, and an unlock may come at any time. In `session` each command has one scope, and
   `After` puts the verb behind the lock, the second lock behind the verb and the unlock behind all.
2. `DeviceRecords`: `Discovered`, for a discovery that runs alone.
