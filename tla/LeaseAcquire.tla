---------------------------- MODULE LeaseAcquire ----------------------------
(***************************************************************************)
(* `acquire` of src/helixgen/locks.py and LeaseSet.release: the machinery  *)
(* by which one process takes the lease files of the scopes it wants.      *)
(* Every access to a shared file is a step of its own.  The acquisition    *)
(* meta-lock is the section lock of SectionLock, which MetaLock shows the  *)
(* lock file to implement.  The module has no specification of its own:    *)
(* LeaseVerb and LeaseSession say which processes run it, and to what end. *)
(***************************************************************************)
EXTENDS Leases

CONSTANTS Want,        \* the scopes each process asks for, in its own order
          LeaseKind,   \* the kind of the leases each process creates,
          LeasePid     \* and the pid recorded in them

\* A verb names scopes that exist: _normalize_scopes raises on any other.
ASSUME WantAssumption == \A p \in Proc : Normalize(Want[p]) \in Seq(Slots)

VARIABLES file,        \* the lease files, by slot
          brk,         \* the break mutex files (<slot>.lock.break), by slot
          brkOld,      \* those whose mtime is past _BREAK_MUTEX_TTL_S
          holder,      \* who is inside the section of the meta-lock
          dead,        \* the pids that no longer run
          st           \* the local state of each process:
                       \*   pc       its next step
                       \*   todo     the scopes still to take
                       \*   scan     the slots still to look at
                       \*   seen     the lease it read, or wrote, last
                       \*   created  the <<slot, nonce>> pairs to give back
                       \*   pass     the slots it passes through
                       \*   held     the slots its last heartbeat renewed
                       \*   tok      the token it presents

acquireVars == <<file, brk, brkOld, holder, dead, st>>

Section == INSTANCE SectionLock
             WITH Proc <- Pids, inside <- {holder} \cap (Pids \ dead)

Point(p) == st[p].pc
At(p, points) == p \notin dead /\ st[p].pc \in points

Mine(p, l) == Owned(p, st[p].tok, l, dead)
Foreign(p, l) == LiveLease(l, dead) /\ ~Mine(p, l)

\* Mutant of Renewable: any live lease is passed through.
RenewableByAnyone(p, l) == LiveLease(l, dead) /\ ~Unrenewable(l)

\* A lease of ours that a passthrough or a heartbeat may renew.
Renewable(p, l) == LiveLease(l, dead) /\ Mine(p, l) /\ ~Unrenewable(l)

Target(p) == Head(st[p].todo)
Slot(p) == Head(st[p].scan)
NextSlot(p) == st' = [st EXCEPT ![p].scan = Tail(@)]
Goto(p, point) == st' = [st EXCEPT ![p].pc = point]

\* uuid4: a nonce that no file has and no process remembers.  Which one does
\* not matter, so there is one at most: the least.
Remembered(p) == {st[p].created[i][2] : i \in DOMAIN st[p].created}
                    \cup (IF IsLease(st[p].seen) THEN {st[p].seen.nonce} ELSE {})
InUse == UNION {Remembered(p) : p \in Proc}
            \cup {file[s].nonce : s \in {t \in Slots : IsLease(file[t])}}
Unused == Nonces \ InUse
FreshNonces == {n \in Unused : \A m \in Unused : n <= m}

NewLease(p, n) == [pid |-> LeasePid[p], token |-> st[p].tok,
                   kind |-> LeaseKind[p], age |-> 0, nonce |-> n]

Write(s, l) == file' = [file EXCEPT ![s] = l]
Unlink(s) == Write(s, NoLease)

\* The set {scope, ALL} is walked in an order of its own.
CoverOrders(s) == IF s = All THEN {<<All>>} ELSE {<<s, All>>, <<All, s>>}

\* _acquire_one begins on the first of `rest`, or the call is over.
Begin(p, rest, mine) ==
    IF rest = <<>>
    THEN st' = [st EXCEPT ![p] = [mine EXCEPT !.pc = "acquired", !.todo = <<>>,
                                              !.scan = <<>>, !.seen = NoLease]]
    ELSE \E order \in CoverOrders(Head(rest)) :
           st' = [st EXCEPT ![p] = [mine EXCEPT !.pc = "cover", !.todo = rest,
                                                !.scan = order, !.seen = NoLease]]

Start(p) == /\ At(p, {"start"})
            /\ Begin(p, Normalize(Want[p]), st[p])
            /\ UNCHANGED <<file, brk, brkOld, holder, dead>>
-----------------------------------------------------------------------------
(* 1. Pass through, and renew, a live lease of ours that covers the scope. *)

LookCover(p) ==
    /\ At(p, {"cover"}) /\ st[p].scan # <<>>
    /\ LET l == file[Slot(p)] IN
         IF Renewable(p, l)
         THEN st' = [st EXCEPT ![p].pc = "renew", ![p].seen = l]
         ELSE NextSlot(p)
    /\ UNCHANGED <<file, brk, brkOld, holder, dead>>

NotCovered(p) == /\ At(p, {"cover"}) /\ st[p].scan = <<>>
                 /\ Goto(p, "meta")
                 /\ UNCHANGED <<file, brk, brkOld, holder, dead>>

(* _renew and _rewrite: the nonce is read again, then the file is replaced *)
(* by the lease as first read with a new acquired_at.                      *)

\* The lease is still the one we read: go on to replace it.  Otherwise it is
\* not ours any more, and the next slot is looked at.
RenewCheck(p, from, replace, skip) ==
    /\ At(p, {from})
    /\ LET l == file[Slot(p)] IN
         IF IsLease(l) /\ l.nonce = st[p].seen.nonce
         THEN Goto(p, replace)
         ELSE st' = [st EXCEPT ![p].pc = skip, ![p].scan = Tail(@),
                               ![p].seen = NoLease]
    /\ UNCHANGED <<file, brk, brkOld, holder, dead>>

CheckCover(p) == RenewCheck(p, "renew", "replace", "cover")

\* Mutant of ReplaceCover: a lease passed through is released like one's own.
ReplaceCoverAsOwn(p) ==
    /\ At(p, {"replace"})
    /\ Write(Slot(p), [st[p].seen EXCEPT !.age = 0])
    /\ Begin(p, Tail(st[p].todo),
             [st[p] EXCEPT !.created = Append(@, <<Slot(p), st[p].seen.nonce>>)])
    /\ UNCHANGED <<brk, brkOld, holder, dead>>

\* os.replace puts the file there whatever the path holds by now.
ReplaceCover(p) ==
    /\ At(p, {"replace"})
    /\ Write(Slot(p), [st[p].seen EXCEPT !.age = 0])
    /\ Begin(p, Tail(st[p].todo),
             [st[p] EXCEPT !.pass = @ \cup {Slot(p)}])
    /\ UNCHANGED <<brk, brkOld, holder, dead>>
-----------------------------------------------------------------------------
(* 2. Under the meta-lock, look for the lease that blocks the scope.       *)

EnterSection(p) ==
    /\ At(p, {"meta"})
    /\ Section!Enter(p)
    /\ st' = [st EXCEPT ![p].pc = "scan", ![p].scan = ConflictPaths(Target(p))]
    /\ UNCHANGED <<file, brk, brkOld>>

MetaContended(p) == /\ At(p, {"meta"})
                    /\ holder # NoProc
                    /\ Goto(p, "wait")
                    /\ UNCHANGED <<file, brk, brkOld, holder, dead>>

\* _acquire_meta finds the file of a dead holder old enough, and breaks it.
ReclaimSection(p) == /\ At(p, {"meta"})
                     /\ Section!Reclaim
                     /\ Goto(p, "wait")
                     /\ UNCHANGED <<file, brk, brkOld>>

\* Mutant of Scan: whatever is about to expire in the target file is cleared.
ScanClearsAny(p) ==
    /\ At(p, {"scan"}) /\ st[p].scan # <<>>
    /\ LET l == file[Slot(p)]
           lapsed == IsLease(l) /\ Slot(p) = Target(p) /\ Unrenewable(l)
           foreign == IsLease(l) /\ ~Mine(p, l) /\ ~lapsed
       IN \/ /\ foreign
             /\ Goto(p, IF IsStale(l, dead) THEN "break" ELSE "blocked")
          \/ lapsed /\ Goto(p, "clear")
          \/ ~foreign /\ ~lapsed /\ NextSlot(p)
    /\ UNCHANGED <<file, brk, brkOld, holder, dead>>

\* An owned lease never blocks; one of ours in the target file that is stale,
\* or about to be, is cleared.  A foreign one is broken if stale and blocks us
\* if not.
Scan(p) ==
    /\ At(p, {"scan"}) /\ st[p].scan # <<>>
    /\ LET l == file[Slot(p)]
           foreign == IsLease(l) /\ ~Mine(p, l)
           lapsed == /\ IsLease(l) /\ Mine(p, l) /\ Slot(p) = Target(p)
                     /\ IsStale(l, dead) \/ Unrenewable(l)
       IN \/ /\ foreign
             /\ Goto(p, IF IsStale(l, dead) THEN "break" ELSE "blocked")
          \/ lapsed /\ Goto(p, "clear")
          \/ ~foreign /\ ~lapsed /\ NextSlot(p)
    /\ UNCHANGED <<file, brk, brkOld, holder, dead>>

ClearOwn(p) == /\ At(p, {"clear"})
               /\ Unlink(Slot(p))
               /\ st' = [st EXCEPT ![p].pc = "scan", ![p].scan = Tail(@)]
               /\ UNCHANGED <<brk, brkOld, holder, dead>>

(* _break_stale: under the break mutex of the slot, read the lease again   *)
(* and remove it if it is still stale.                                     *)

TakeBreak(p) ==
    /\ At(p, {"break"})
    /\ IF brk[Slot(p)] = NoProc
       THEN brk' = [brk EXCEPT ![Slot(p)] = p] /\ Goto(p, "breakRead")
       ELSE Goto(p, "breakBusy") /\ UNCHANGED brk
    /\ UNCHANGED <<file, brkOld, holder, dead>>

BreakBusy(p) ==
    /\ At(p, {"breakBusy"})
    /\ Goto(p, IF Slot(p) \in brkOld THEN "breakClear" ELSE "reread")
    /\ UNCHANGED <<file, brk, brkOld, holder, dead>>

UnlinkBreak(s) == /\ brk' = [brk EXCEPT ![s] = NoProc]
                  /\ brkOld' = brkOld \ {s}

BreakClear(p) == /\ At(p, {"breakClear"})
                 /\ UnlinkBreak(Slot(p))
                 /\ Goto(p, "reread")
                 /\ UNCHANGED <<file, holder, dead>>

BreakRead(p) ==
    /\ At(p, {"breakRead"})
    /\ LET l == file[Slot(p)] IN
         Goto(p, CASE ~IsLease(l) -> "dropFree"
                   [] IsLease(l) /\ IsStale(l, dead) -> "breakUnlink"
                   [] OTHER -> "dropLive")
    /\ UNCHANGED <<file, brk, brkOld, holder, dead>>

BreakUnlink(p) == /\ At(p, {"breakUnlink"})
                  /\ Unlink(Slot(p))
                  /\ Goto(p, "dropFree")
                  /\ UNCHANGED <<brk, brkOld, holder, dead>>

\* Called from the scan.  The slot is free to create: go on.
BreakDone(p) == /\ At(p, {"dropFree"}) /\ holder = p
                /\ UnlinkBreak(Slot(p))
                /\ st' = [st EXCEPT ![p].pc = "scan", ![p].scan = Tail(@)]
                /\ UNCHANGED <<file, holder, dead>>

\* A live lease remains: look at it again.
BreakRefused(p) == /\ At(p, {"dropLive"}) /\ holder = p
                   /\ UnlinkBreak(Slot(p))
                   /\ Goto(p, "reread")
                   /\ UNCHANGED <<file, holder, dead>>

Reread(p) ==
    /\ At(p, {"reread"}) /\ holder = p
    /\ st' = IF IsLease(file[Slot(p)])
             THEN [st EXCEPT ![p].pc = "blocked"]
             ELSE [st EXCEPT ![p].pc = "scan", ![p].scan = Tail(@)]
    /\ UNCHANGED <<file, brk, brkOld, holder, dead>>
-----------------------------------------------------------------------------
(* 3. Free: create the lease file, then look at the other files again.     *)

\* The conflict paths of a scope but its own: that is the last one of `all`,
\* the first of any other.
RivalPaths(s) == IF s = All THEN Front(ConflictPaths(s)) ELSE Tail(ConflictPaths(s))

Create(p) ==
    /\ At(p, {"scan"}) /\ st[p].scan = <<>>
    /\ IF file[Target(p)] = NoLease
       THEN \E n \in FreshNonces :
              /\ Write(Target(p), NewLease(p, n))
              /\ st' = [st EXCEPT ![p].pc = "verify", ![p].seen = NewLease(p, n),
                                  ![p].scan = RivalPaths(Target(p))]
       ELSE Goto(p, "blocked") /\ UNCHANGED file
    /\ UNCHANGED <<brk, brkOld, holder, dead>>

\* _post_create_conflict: a live foreign lease that is older than ours wins.
Verify(p) ==
    /\ At(p, {"verify"}) /\ st[p].scan # <<>>
    /\ LET l == file[Slot(p)] IN
         IF Foreign(p, l) /\ Older(l, st[p].seen)
         THEN Goto(p, "backoff")
         ELSE NextSlot(p)
    /\ UNCHANGED <<file, brk, brkOld, holder, dead>>

Backoff(p) ==
    /\ At(p, {"backoff"})
    /\ LET l == file[Target(p)] IN
         Goto(p, IF IsLease(l) /\ l.nonce = st[p].seen.nonce
                 THEN "backoffUnlink" ELSE "blocked")
    /\ UNCHANGED <<file, brk, brkOld, holder, dead>>

BackoffUnlink(p) == /\ At(p, {"backoffUnlink"})
                    /\ Unlink(Target(p))
                    /\ Goto(p, "blocked")
                    /\ UNCHANGED <<brk, brkOld, holder, dead>>

\* The lease is ours.  _release_meta runs on every way out of the section.
Won(p) ==
    /\ At(p, {"verify"}) /\ st[p].scan = <<>>
    /\ Section!Leave(p)
    /\ Begin(p, Tail(st[p].todo),
             [st[p] EXCEPT !.created =
                Append(@, <<Target(p), st[p].seen.nonce>>)])
    /\ UNCHANGED <<file, brk, brkOld>>

Blocked(p) == /\ At(p, {"blocked"})
              /\ Section!Leave(p)
              /\ st' = [st EXCEPT ![p].pc = "wait", ![p].scan = <<>>,
                                  ![p].seen = NoLease]
              /\ UNCHANGED <<file, brk, brkOld>>
-----------------------------------------------------------------------------
(* 4. Wait and retry, or give up and release what this call created.       *)

Retry(p) == /\ At(p, {"wait"})
            /\ Begin(p, st[p].todo, st[p])
            /\ UNCHANGED <<file, brk, brkOld, holder, dead>>

\* Mutant of GiveUp: a partial acquisition is not given back.
GiveUpHolding(p) == /\ At(p, {"wait"})
                    /\ Goto(p, "done")
                    /\ UNCHANGED <<file, brk, brkOld, holder, dead>>

\* The deadline (and the 50 passes granted to a race artifact) have passed.
GiveUp(p) == /\ At(p, {"wait"})
             /\ Goto(p, "release")
             /\ UNCHANGED <<file, brk, brkOld, holder, dead>>

\* Mutant of ReleaseRead: a lease is dropped from `created` before it is unlinked.
ReleaseReadEarly(p) ==
    /\ At(p, {"release"}) /\ st[p].created # <<>>
    /\ LET mine == Head(st[p].created)
           l == file[mine[1]]
       IN st' = [st EXCEPT ![p].created = Tail(@),
                           ![p].pc = IF IsLease(l) /\ l.nonce = mine[2]
                                     THEN "releaseUnlink" ELSE @]
    /\ UNCHANGED <<file, brk, brkOld, holder, dead>>

\* LeaseSet.release: each created lease is read, and unlinked if still ours.
ReleaseRead(p) ==
    /\ At(p, {"release"}) /\ st[p].created # <<>>
    /\ LET mine == Head(st[p].created)
           l == file[mine[1]]
       IN st' = IF IsLease(l) /\ l.nonce = mine[2]
                THEN [st EXCEPT ![p].pc = "releaseUnlink"]
                ELSE [st EXCEPT ![p].created = Tail(@)]
    /\ UNCHANGED <<file, brk, brkOld, holder, dead>>

ReleaseUnlink(p) ==
    /\ At(p, {"releaseUnlink"})
    /\ Unlink(Head(st[p].created)[1])
    /\ st' = [st EXCEPT ![p].pc = "release", ![p].created = Tail(@)]
    /\ UNCHANGED <<brk, brkOld, holder, dead>>

Released(p) == /\ At(p, {"release"}) /\ st[p].created = <<>>
               /\ st' = [st EXCEPT ![p].pc = "done", ![p].pass = {},
                                   ![p].held = {}, ![p].todo = <<>>]
               /\ UNCHANGED <<file, brk, brkOld, holder, dead>>
-----------------------------------------------------------------------------
AcquireStep(p) ==
    \/ LookCover(p) \/ NotCovered(p) \/ CheckCover(p)
    \/ ReplaceCover(p) \/ EnterSection(p) \/ MetaContended(p)
    \/ ReclaimSection(p) \/ Scan(p) \/ ClearOwn(p) \/ TakeBreak(p)
    \/ BreakBusy(p) \/ BreakClear(p) \/ BreakRead(p) \/ BreakUnlink(p)
    \/ BreakDone(p) \/ BreakRefused(p) \/ Reread(p) \/ Create(p) \/ Verify(p)
    \/ Backoff(p) \/ BackoffUnlink(p) \/ Won(p) \/ Blocked(p) \/ Retry(p)
    \/ ReleaseRead(p) \/ ReleaseUnlink(p) \/ Released(p)

\* Where a process is inside the section, and where it is between a check of
\* a lease and the write that relies on it.
SectionPoints == {"scan", "clear", "break", "breakBusy", "breakClear",
                  "breakRead", "breakUnlink", "dropFree", "dropLive", "reread",
                  "verify", "backoff", "backoffUnlink", "blocked"}
CheckedPoints == {"renew", "replace", "beatRenew", "beatReplace", "release",
                  "releaseUnlink"}
AcquirePoints == {"cover", "renew", "replace", "meta", "wait"} \cup SectionPoints
BreakPoints == {"breakRead", "breakUnlink", "dropFree", "dropLive"}
=============================================================================
