----------------------------- MODULE LeaseVerb -----------------------------
(***************************************************************************)
(* A device verb under @_locked (src/helixgen/cli_device.py): it acquires  *)
(* its scopes, runs its body under the keep_alive heartbeat, and releases  *)
(* what it created.  Any number of verbs run at once, beside the leases    *)
(* that earlier commands left on disk, and may be killed at any point.     *)
(***************************************************************************)
EXTENDS LeaseAcquire

CONSTANTS Leftovers,   \* the lease files that may be found at the start
          Mortal,      \* pids that may die
          CrashPoints, \* the points at which a mortal process may be killed
          Stalls       \* may a live process be slower than the clock allows?

VARIABLE due           \* the processes whose heartbeat is due before the tick

vars == <<file, brk, brkOld, holder, dead, st, due>>

Idle == [pc |-> "start", todo |-> <<>>, scan |-> <<>>, seen |-> NoLease,
         created |-> <<>>, pass |-> {}, held |-> {}, tok |-> NoToken]

Init == /\ file \in Leftovers
        /\ brk = [s \in Slots |-> NoProc] /\ brkOld = {}
        /\ holder = NoProc /\ dead = Ghosts
        /\ st = [p \in Proc |-> [Idle EXCEPT !.tok = Token[p]]]
        /\ due = {}

BodyPoints == {"body", "beat", "beatRenew", "beatReplace"}
Points == {"start", "acquired", "release", "releaseUnlink", "done"}
            \cup AcquirePoints \cup BodyPoints
-----------------------------------------------------------------------------
(* keep_alive and _renew_owned                                             *)

\* The body starts, and with it a first pass of the heartbeat.
EnterBody(p) ==
    /\ At(p, {"acquired"})
    /\ st' = [st EXCEPT ![p].pc = "beat", ![p].held = {},
                        ![p].scan = Append(ScopeOrder, All)]
    /\ due' = due \cup {p}
    /\ UNCHANGED <<file, brk, brkOld, holder, dead>>

\* The next pass, while the last one found a lease of ours to renew.
StartBeat(p) ==
    /\ At(p, {"body"}) /\ p \in due
    /\ st' = [st EXCEPT ![p].pc = "beat", ![p].held = {},
                        ![p].scan = Append(ScopeOrder, All)]
    /\ UNCHANGED <<file, brk, brkOld, holder, dead, due>>

\* Mutant of LookBeat: only leases this very process created are renewed.
LookBeatOwnPid(p) ==
    /\ At(p, {"beat"}) /\ st[p].scan # <<>>
    /\ LET l == file[Slot(p)] IN
         IF Renewable(p, l) /\ l.pid = p
         THEN st' = [st EXCEPT ![p].pc = "beatRenew", ![p].seen = l]
         ELSE NextSlot(p)
    /\ UNCHANGED <<file, brk, brkOld, holder, dead, due>>

LookBeat(p) ==
    /\ At(p, {"beat"}) /\ st[p].scan # <<>>
    /\ LET l == file[Slot(p)] IN
         IF Renewable(p, l)
         THEN st' = [st EXCEPT ![p].pc = "beatRenew", ![p].seen = l]
         ELSE NextSlot(p)
    /\ UNCHANGED <<file, brk, brkOld, holder, dead, due>>

CheckBeat(p) == /\ RenewCheck(p, "beatRenew", "beatReplace", "beat")
                /\ UNCHANGED due

\* Mutant of ReplaceBeat: acquired_at is not refreshed.
ReplaceBeatStill(p) ==
    /\ At(p, {"beatReplace"})
    /\ Write(Slot(p), st[p].seen)
    /\ st' = [st EXCEPT ![p].pc = "beat", ![p].scan = Tail(@),
                        ![p].held = @ \cup {Slot(p)}, ![p].seen = NoLease]
    /\ UNCHANGED <<brk, brkOld, holder, dead, due>>

ReplaceBeat(p) ==
    /\ At(p, {"beatReplace"})
    /\ Write(Slot(p), [st[p].seen EXCEPT !.age = 0])
    /\ st' = [st EXCEPT ![p].pc = "beat", ![p].scan = Tail(@),
                        ![p].held = @ \cup {Slot(p)}, ![p].seen = NoLease]
    /\ UNCHANGED <<brk, brkOld, holder, dead, due>>

EndBeat(p) == /\ At(p, {"beat"}) /\ st[p].scan = <<>>
              /\ Goto(p, "body")
              /\ due' = due \ {p}
              /\ UNCHANGED <<file, brk, brkOld, holder, dead>>

\* The body returned or raised: the heartbeat is joined, then the leases go.
EndBody(p) == /\ At(p, {"body"})
              /\ Goto(p, "release")
              /\ due' = due \ {p}
              /\ UNCHANGED <<file, brk, brkOld, holder, dead>>
-----------------------------------------------------------------------------
(* The environment                                                         *)

\* SIGKILL, or a shell that exits: no handler runs.
Die(p) == /\ p \in Mortal
          /\ p \in Proc => st[p].pc \in CrashPoints
          /\ Section!Die(p)
          /\ due' = due \ {p}
          /\ UNCHANGED <<file, brk, brkOld, st>>

\* What the clock waits for when no process stalls: heartbeats beat in time;
\* nobody takes a tick between a check of a lease and the write that relies on
\* it, nor inside the section; and AUTO_TTL outlasts the wait for the lock.
InTime == /\ due = {}
          /\ \A p \in Proc : ~At(p, SectionPoints \cup CheckedPoints \cup {"acquired"})
          /\ \A p \in Proc, s \in Slots :
               At(p, AcquirePoints) /\ IsLease(file[s]) /\ file[s].kind = "auto"
                 /\ file[s].pid = p => file[s].age < Ttl["auto"] - 2

OneTickOlder(l) == IF IsLease(l) /\ l.age < MaxAge THEN [l EXCEPT !.age = @ + 1] ELSE l

Tick == /\ Stalls \/ InTime
        /\ file' = [s \in Slots |-> OneTickOlder(file[s])]
        /\ due' = {p \in Proc : At(p, {"body"}) /\ st[p].held # {}}
        /\ UNCHANGED <<brk, brkOld, holder, dead, st>>

\* A break mutex whose owner was killed passes _BREAK_MUTEX_TTL_S.
AgeBreak(s) == /\ brk[s] \in dead /\ s \notin brkOld
               /\ brkOld' = brkOld \cup {s}
               /\ UNCHANGED <<file, brk, holder, dead, st, due>>

Environment == Tick \/ (\E s \in Slots : AgeBreak(s)) \/ (\E p \in Pids : Die(p))
-----------------------------------------------------------------------------
BodyStep(p) == \/ StartBeat(p) \/ LookBeat(p) \/ CheckBeat(p)
               \/ ReplaceBeat(p) \/ EndBeat(p) \/ EndBody(p)

Step(p) == \/ (Start(p) \/ AcquireStep(p)) /\ UNCHANGED due
           \/ EnterBody(p) \/ BodyStep(p)

Next == \/ Environment
        \/ \E p \in Proc : Step(p) \/ (GiveUp(p) /\ UNCHANGED due)

Spec == Init /\ [][Next]_vars

\* A section takes milliseconds, the pause between polls at least a tenth of a
\* second: a process that polls forever does not always find it taken.
FreePoll(p) == []<>(At(p, {"meta"}) /\ holder \notin Proc \ dead)
                 \/ <>[]~At(p, {"meta"})

\* Live processes are scheduled and bodies end; a free or a dead process's
\* section is taken by those that keep polling (MetaLock's
\* CrashedMetaReclaimed).  Time passes, however often the assumption InTime
\* makes the clock wait for a process.  Nobody has to give up or to be killed.
Fairness == /\ \A p \in Proc :
                  /\ WF_vars(Step(p)) /\ SF_vars(EndBody(p))
                  /\ SF_vars((EnterSection(p) \/ ReclaimSection(p)) /\ UNCHANGED due)
                  /\ FreePoll(p)
            /\ SF_vars(Tick) /\ \A s \in Slots : WF_vars(AgeBreak(s))

FairSpec == Spec /\ Fairness
-----------------------------------------------------------------------------
InBody(p) == At(p, BodyPoints)
Asked(p) == ToSet(Normalize(Want[p]))

\* Processes that pass through one another's leases by design.
SameSession(p, q) == \/ p = q
                     \/ Token[p] # NoToken /\ Token[p] = Token[q]
                     \/ Parent[p] = Parent[q]

\* The points that work on a slot of the scan, and those that rely on a lease
\* that was read or written before.
SlotPoints == {"renew", "replace", "clear", "break", "breakBusy", "breakClear",
               "breakRead", "breakUnlink", "dropFree", "dropLive", "reread",
               "beatRenew", "beatReplace"}
SeenPoints == {"renew", "replace", "verify", "backoff", "backoffUnlink",
               "beatRenew", "beatReplace"}

\* What each step works on is there: its scope, its slot, its lease, its record
\* of what to release, and the section and break mutex it is inside.
Placed(p) ==
    /\ Point(p) \in AcquirePoints => st[p].todo # <<>>
    /\ Point(p) \in SlotPoints => st[p].scan # <<>>
    /\ Point(p) \in SeenPoints => st[p].seen # NoLease
    /\ Point(p) = "releaseUnlink" => st[p].created # <<>>
    /\ At(p, SectionPoints) => holder = p
    /\ At(p, BreakPoints) => brk[Slot(p)] = p

LocalState == [pc : Points, todo : Seq(Slots), scan : Seq(Slots),
               seen : Lease \cup {NoLease}, created : Seq(Slots \X Nonces),
               pass : SUBSET Slots, held : SUBSET Slots,
               tok : Tokens \cup {NoToken}]

\* The type invariant: no step looks for what is not there.
TypeOK ==
    /\ file \in [Slots -> Lease \cup {NoLease}]
    /\ brk \in [Slots -> Proc \cup {NoProc}]
    /\ brkOld \subseteq Slots
    /\ holder \in Proc \cup {NoProc}
    /\ dead \subseteq Pids
    /\ due \subseteq Proc
    /\ st \in [Proc -> LocalState]
    /\ \A p \in Proc : Placed(p)

\* No two verbs of different sessions run their bodies on conflicting scopes
\* (the double commit of issue 88).
BodyExclusion ==
    \A p, q \in Proc : InBody(p) /\ InBody(q) /\ ~SameSession(p, q) =>
        \A s \in Asked(p), t \in Asked(q) : ~Conflict(s, t)

\* A verb in its body still has, for every scope it asked for, a live lease
\* on disk that it owns: none was broken, replaced or lost to the clock.
BodyProtected ==
    \A p \in Proc : InBody(p) =>
        \A s \in Asked(p) : \E c \in Covers(s) :
            LiveLease(file[c], dead) /\ Mine(p, file[c])

\* A live lease leaves its file, or gives way to another, only by a step of a
\* process that owns it (release, _renew and _break_stale are all guarded
\* reads followed by a blind write).
OnlyOwnerRemoves ==
    [][\A s \in Slots :
         LiveLease(file[s], dead) /\ (file'[s] = NoLease \/ file'[s].nonce # file[s].nonce)
           => \E p \in Proc : Mine(p, file[s]) /\ st'[p] # st[p]]_vars

\* acquire is all or nothing: a verb that ended, whether it ran or gave up,
\* leaves no lease of its own making behind.
NothingLeftBehind ==
    \A p \in Proc : At(p, {"done"}) =>
        \A s \in Slots : IsLease(file[s]) => file[s].pid # p

\* A verb that asks for its scopes gets them or gives up: no deadlock among
\* verbs that take several scopes, and no wait behind a killed process.
AcquireEnds == \A p \in Proc : At(p, {"cover"}) ~> ~At(p, AcquirePoints)

Exclusion == INSTANCE DeviceExclusion
               WITH using <- [p \in Proc |-> IF InBody(p) THEN Asked(p) ELSE {}]

\* The lease protocol implements device exclusion.
ImplementsExclusion == Exclusion!ExclusionSpec
-----------------------------------------------------------------------------
(* The inductive invariant.  It holds for verbs outside any session, on    *)
(* time: whoever presents no token and finds no lease of its shell on disk *)
(* owns the leases it made and no other.                                   *)

OutsideSession ==
    /\ \A p \in Proc : /\ Token[p] = NoToken /\ LeaseKind[p] = "auto"
                       /\ LeasePid[p] = p /\ Parent[p] \notin Proc
    /\ \A f \in Leftovers :
         /\ f \in [Slots -> Lease \cup {NoLease}]
         /\ \A s \in Slots : IsLease(f[s]) => f[s].pid \notin Proc \cup Shells
    /\ ~Stalls
    /\ Ttl["auto"] >= 3

VerifyPoints == {"verify", "backoff", "backoffUnlink"}
CoverPoints == {"cover", "renew", "replace"}
RenewPoints == {"renew", "replace", "beatRenew", "beatReplace"}
BeatPoints == {"beat", "beatRenew", "beatReplace"}
ScanPoints == {"scan", "break", "breakBusy", "breakClear", "reread"} \cup BreakPoints
HoldPoints == {"acquired"} \cup BodyPoints

Own(p, s) == IsLease(file[s]) /\ file[s].pid = p
MadeBy(p) == {st[p].created[i][1] : i \in DOMAIN st[p].created}

\* What a process has in `created` is on disk as it made it, each slot once.
Listed(p) ==
    \A i \in DOMAIN st[p].created :
       /\ Own(p, st[p].created[i][1])
       /\ file[st[p].created[i][1]].nonce = st[p].created[i][2]
       /\ \A j \in DOMAIN st[p].created :
            st[p].created[i][1] = st[p].created[j][1] => i = j

\* The leases on disk that name a process are those in its `created` and the
\* one it has yet to verify.
Recorded(p) ==
    /\ Listed(p)
    /\ \A s \in Slots : Own(p, s) =>
         s \in MadeBy(p) \/ (Point(p) \in VerifyPoints /\ s = Target(p))
    /\ Point(p) \in VerifyPoints =>
         /\ Own(p, Target(p)) /\ Target(p) \notin MadeBy(p)
         /\ file[Target(p)].nonce = st[p].seen.nonce
    /\ Point(p) \in {"start", "done"} => st[p].created = <<>>

\* What a renewal is about to replace is still the lease it read.
Renewing(p) == Point(p) \in RenewPoints => Own(p, Slot(p)) /\ file[Slot(p)] = st[p].seen

\* A lease of a living verb is two ticks from its end at least, and a beat,
\* which must come before the next tick, has renewed all that it has passed.
InDate(p) ==
    /\ \A s \in Slots : Own(p, s) =>
         /\ file[s].age <= Ttl["auto"] - 2
         /\ Point(p) = "body" => s \in st[p].held /\ (p \notin due => file[s].age = 0)
         /\ Point(p) \in BeatPoints =>
              s \in ToSet(st[p].scan) \/ (s \in st[p].held /\ file[s].age = 0)
    /\ Point(p) \in BeatPoints => p \in due

\* No living verb's lease is on a conflict path that the scan has passed; what
\* is about to be broken is stale; and the scan never clears a lease of ours.
Cleared(p) ==
    /\ Point(p) \in CoverPoints => ToSet(st[p].scan) \subseteq Covers(Target(p))
    /\ Point(p) \in ScanPoints =>
         \A s \in ToSet(ConflictPaths(Target(p))) \ ToSet(st[p].scan) :
            \A q \in Proc \ (dead \cup {p}) : ~Own(q, s)
    /\ Point(p) = "breakUnlink" => ~LiveLease(file[Slot(p)], dead)
    /\ Point(p) = "dropFree" => file[Slot(p)] = NoLease
    /\ Point(p) # "clear"

\* Every scope asked for is still to do, or covered by a lease in `created`.
Covered(p) ==
    /\ Point(p) \in AcquirePoints \cup HoldPoints =>
         \A s \in Asked(p) : s \in ToSet(st[p].todo) \/ MadeBy(p) \cap Covers(s) # {}
    /\ Point(p) \in HoldPoints => st[p].todo = <<>>

VerbInv(p) == Recorded(p) /\ Renewing(p) /\ InDate(p) /\ Cleared(p) /\ Covered(p)

\* Nobody here is the shell of a lease, and the verbs' leases are transient.
Transient == \A s \in Slots : IsLease(file[s]) =>
                /\ file[s].pid \notin Shells
                /\ file[s].pid \in Proc => file[s].kind = "auto"

\* Next to an exclusive lease of a living verb there is no other's.
Exclusive == \A p, q \in Proc \ dead, s \in Slots :
                p # q /\ Own(p, All) => ~Own(q, s)

LeaseInv == /\ TypeOK
            /\ \A p \in Proc : st[p].tok = NoToken
            /\ Transient /\ Exclusive
            /\ \A p \in Proc \ dead : VerbInv(p)
=============================================================================
