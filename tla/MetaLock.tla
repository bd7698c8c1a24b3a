------------------------------ MODULE MetaLock ------------------------------
(***************************************************************************)
(* The per-device acquisition meta-lock of src/helixgen/locks.py: the file *)
(* `.acquire.lock`, held by a process across the scan -> create -> verify  *)
(* section of `_acquire_one`, and the break mutex `.acquire.lock.break`    *)
(* under which the file of a crashed holder is removed.  Every system call *)
(* on either file (link, stat, read, unlink) is a step of its own, so any  *)
(* two processes interleave between any two of them.                       *)
(*                                                                         *)
(* A file is represented by the process that wrote it.  The nonce in the   *)
(* meta-lock serves only to tell a process's own file from another's, and  *)
(* a process has at most one such file at a time, so the writer identifies *)
(* the file.  Time enters the code only as "is the mtime more than ten     *)
(* seconds ago": one flag per file, raised by AgeMeta and AgeMutex.        *)
(***************************************************************************)
EXTENDS FiniteSets

CONSTANTS Proc,         \* helixgen processes
          NoProc,       \* the file does not exist
          CrashPoints,  \* the program points at which a process may be killed
          Overruns,     \* may a file age while its live owner is inside? (BOOLEAN)
          PidReuse      \* may a dead process's pid be given to another? (BOOLEAN)

BreakPoints == {"restat", "rejudge", "unlinkMeta", "dropMutex"}
SectionPoints == {"section", "release"}
Points == {"poll", "stat", "judge", "breaking", "statMutex", "clearMutex",
           "done", "dead"} \cup BreakPoints \cup SectionPoints

ASSUME MetaAssumption == /\ NoProc \notin Proc
                         /\ CrashPoints \subseteq Points \ {"dead"}
                         /\ Overruns \in BOOLEAN
                         /\ PidReuse \in BOOLEAN

VARIABLES meta,      \* who wrote the .acquire.lock on disk
          metaOld,   \* its mtime is past _ACQUIRE_META_TTL_S
          mutex,     \* who wrote the .acquire.lock.break on disk
          mutexOld,  \* its mtime is past _BREAK_MUTEX_TTL_S
          pc,        \* the next system call of each process
          reused     \* dead processes whose pid is in use again

vars == <<meta, metaOld, mutex, mutexOld, pc, reused>>

Init == /\ meta = NoProc /\ metaOld = FALSE
        /\ mutex = NoProc /\ mutexOld = FALSE
        /\ pc = [p \in Proc |-> "poll"]
        /\ reused = {}

Goto(p, point) == pc' = [pc EXCEPT ![p] = point]

\* _pid_alive(pid) without a recorded start time: a reused pid looks alive.
LooksAlive(q) == pc[q] # "dead" \/ q \in reused

\* Removing a file, whoever wrote it.
UnlinkMeta == meta' = NoProc /\ metaOld' = FALSE
UnlinkMutex == mutex' = NoProc /\ mutexOld' = FALSE
-----------------------------------------------------------------------------
(* _acquire_meta: link the file; if it exists, ask whether it is stale.    *)

TakeMeta(p) == /\ pc[p] = "poll"
               /\ meta = NoProc
               /\ meta' = p /\ metaOld' = FALSE
               /\ Goto(p, "section")
               /\ UNCHANGED <<mutex, mutexOld, reused>>

MetaTaken(p) == /\ pc[p] = "poll"
                /\ meta # NoProc
                /\ Goto(p, "stat")
                /\ UNCHANGED <<meta, metaOld, mutex, mutexOld, reused>>

\* LockHeld at the deadline, or the last scope acquired: no more polling.
Finish(p) == /\ pc[p] = "poll"
             /\ Goto(p, "done")
             /\ UNCHANGED <<meta, metaOld, mutex, mutexOld, reused>>

(* _meta_is_stale is a stat followed by a read and a pid probe; `from` and *)
(* `reading` are the points before the two, `stale` and `fresh` where the  *)
(* verdicts lead.                                                          *)
StatMeta(p, from, reading, fresh) ==
    /\ pc[p] = from
    /\ Goto(p, IF meta # NoProc /\ metaOld THEN reading ELSE fresh)
    /\ UNCHANGED <<meta, metaOld, mutex, mutexOld, reused>>

\* The file may be gone or another by now.  A missing file has no pid, which
\* counts as a dead owner.
JudgeMeta(p, reading, stale, fresh) ==
    /\ pc[p] = reading
    /\ Goto(p, IF meta # NoProc /\ LooksAlive(meta) THEN fresh ELSE stale)
    /\ UNCHANGED <<meta, metaOld, mutex, mutexOld, reused>>

FirstStat(p) == StatMeta(p, "stat", "judge", "poll")
FirstJudge(p) == JudgeMeta(p, "judge", "breaking", "poll")
-----------------------------------------------------------------------------
(* _break_stale_meta                                                       *)

\* Mutant of TakeMutex: the break is not serialized.
TakeMutexAlways(p) == /\ pc[p] = "breaking"
                      /\ mutex' = p /\ mutexOld' = FALSE
                      /\ Goto(p, "restat")
                      /\ UNCHANGED <<meta, metaOld, reused>>

TakeMutex(p) == /\ pc[p] = "breaking"
                /\ mutex = NoProc
                /\ mutex' = p /\ mutexOld' = FALSE
                /\ Goto(p, "restat")
                /\ UNCHANGED <<meta, metaOld, reused>>

MutexTaken(p) == /\ pc[p] = "breaking"
                 /\ mutex # NoProc
                 /\ Goto(p, "statMutex")
                 /\ UNCHANGED <<meta, metaOld, mutex, mutexOld, reused>>

\* Mutant of StatMutex: a crashed breaker's mutex is never cleared.
StatMutexForgetful(p) == /\ pc[p] = "statMutex"
                         /\ Goto(p, "poll")
                         /\ UNCHANGED <<meta, metaOld, mutex, mutexOld, reused>>

StatMutex(p) == /\ pc[p] = "statMutex"
                /\ Goto(p, IF mutex # NoProc /\ mutexOld THEN "clearMutex"
                                                         ELSE "poll")
                /\ UNCHANGED <<meta, metaOld, mutex, mutexOld, reused>>

\* Nothing ties this unlink to the file whose age was read.
ClearMutex(p) == /\ pc[p] = "clearMutex"
                 /\ UnlinkMutex
                 /\ Goto(p, "poll")
                 /\ UNCHANGED <<meta, metaOld, reused>>

\* Mutant of Restat: nothing is verified again under the mutex.
RestatSkipped(p) == /\ pc[p] = "restat"
                    /\ Goto(p, "unlinkMeta")
                    /\ UNCHANGED <<meta, metaOld, mutex, mutexOld, reused>>

Restat(p) == StatMeta(p, "restat", "rejudge", "dropMutex")
Rejudge(p) == JudgeMeta(p, "rejudge", "unlinkMeta", "dropMutex")

RemoveMeta(p) == /\ pc[p] = "unlinkMeta"
                 /\ UnlinkMeta
                 /\ Goto(p, "dropMutex")
                 /\ UNCHANGED <<mutex, mutexOld, reused>>

\* Mutant of DropMutex: the `finally` is missing.
DropMutexForgotten(p) == /\ pc[p] = "dropMutex"
                         /\ Goto(p, "poll")
                         /\ UNCHANGED <<meta, metaOld, mutex, mutexOld, reused>>

DropMutex(p) == /\ pc[p] = "dropMutex"
                /\ UnlinkMutex
                /\ Goto(p, "poll")
                /\ UNCHANGED <<meta, metaOld, reused>>
-----------------------------------------------------------------------------
(* _release_meta: read the file, and unlink it only if it is our own.      *)

EndSection(p) == /\ pc[p] = "section"
                 /\ Goto(p, IF meta = p THEN "release" ELSE "poll")
                 /\ UNCHANGED <<meta, metaOld, mutex, mutexOld, reused>>

ReleaseMeta(p) == /\ pc[p] = "release"
                  /\ UnlinkMeta
                  /\ Goto(p, "poll")
                  /\ UNCHANGED <<mutex, mutexOld, reused>>
-----------------------------------------------------------------------------
(* The environment: SIGKILL (nothing is cleaned up), the clock, the kernel.*)

Crash(p) == /\ pc[p] \in CrashPoints
            /\ Goto(p, "dead")
            /\ UNCHANGED <<meta, metaOld, mutex, mutexOld, reused>>

AgeMeta == /\ meta # NoProc /\ ~metaOld
           /\ Overruns \/ pc[meta] = "dead"
           /\ metaOld' = TRUE
           /\ UNCHANGED <<meta, mutex, mutexOld, pc, reused>>

AgeMutex == /\ mutex # NoProc /\ ~mutexOld
            /\ Overruns \/ pc[mutex] = "dead"
            /\ mutexOld' = TRUE
            /\ UNCHANGED <<meta, metaOld, mutex, pc, reused>>

ReusePid(p) == /\ PidReuse
               /\ pc[p] = "dead" /\ p \notin reused
               /\ reused' = reused \cup {p}
               /\ UNCHANGED <<meta, metaOld, mutex, mutexOld, pc>>
-----------------------------------------------------------------------------
\* What a process does next, whether or not it gives up.
Step(p) == \/ TakeMeta(p) \/ MetaTaken(p) \/ FirstStat(p) \/ FirstJudge(p)
           \/ TakeMutex(p) \/ MutexTaken(p) \/ StatMutex(p) \/ ClearMutex(p)
           \/ Restat(p) \/ Rejudge(p) \/ RemoveMeta(p) \/ DropMutex(p)
           \/ EndSection(p) \/ ReleaseMeta(p)

Environment == AgeMeta \/ AgeMutex \/ \E p \in Proc : Crash(p) \/ ReusePid(p)

Next == Environment \/ \E p \in Proc : Step(p) \/ Finish(p)

Spec == Init /\ [][Next]_vars

\* A live process is scheduled, and time passes.  Nobody has to give up, to
\* be killed or to have its pid reused.
Fairness == /\ \A p \in Proc : WF_vars(Step(p))
            /\ WF_vars(AgeMeta) /\ WF_vars(AgeMutex)

FairSpec == Spec /\ Fairness
-----------------------------------------------------------------------------
TypeOK == /\ meta \in Proc \cup {NoProc}
          /\ mutex \in Proc \cup {NoProc}
          /\ metaOld \in BOOLEAN
          /\ mutexOld \in BOOLEAN
          /\ pc \in [Proc -> Points]
          /\ reused \subseteq Proc

\* The regime in which the protocol is sound: a live process is through the
\* section, and through a break, in less than ten seconds, and no process is
\* killed while it holds the break mutex.
Prompt == ~Overruns /\ CrashPoints \cap BreakPoints = {}

InSection(p) == pc[p] \in SectionPoints

\* No two processes are between scan and verify at once: the double commit of
\* issue 88 (_acquire_one, "2+3 run under the per-device acquisition
\* meta-lock") starts with this going wrong.
MetaExclusion == \A p, q \in Proc : InSection(p) /\ InSection(q) => p = q

\* The strengthening that a step preserves.  Being inside means owning the
\* file on disk; a break mutex on disk belongs to a process inside a break,
\* and is not old; an old meta-lock is a dead process's; and a breaker past
\* its stat is looking at, and about to unlink, the file of a dead process.
MetaInv == /\ TypeOK
           /\ \A p \in Proc : InSection(p) => meta = p
           /\ \A p \in Proc : pc[p] \in BreakPoints => mutex = p
           /\ mutex # NoProc => pc[mutex] \in BreakPoints
           /\ ~mutexOld
           /\ \A p \in Proc : pc[p] # "clearMutex"
           /\ meta # NoProc => pc[meta] \in SectionPoints \cup {"dead"}
           /\ metaOld => meta # NoProc /\ pc[meta] = "dead"
           /\ \A p \in Proc : pc[p] \in {"rejudge", "unlinkMeta"} =>
                                 meta # NoProc /\ pc[meta] = "dead" /\ metaOld

\* The section lock that this implements: its holder is the writer of the
\* meta-lock on disk.
Section == INSTANCE SectionLock
             WITH holder <- meta, inside <- {p \in Proc : InSection(p)},
                  dead <- {p \in Proc : pc[p] = "dead"}

\* _acquire_meta, _release_meta and _break_stale_meta together are a section
\* lock: the file is created only when there is none, removed only by its
\* live owner or after its owner died.
ImplementsSectionLock == Section!SectionSpec

\* A meta-lock left behind by a killed process is removed, as long as some
\* process keeps polling for it.
CrashedMetaReclaimed ==
    \A p \in Proc : (meta = p /\ pc[p] = "dead")
                      ~> (meta # p \/ \A q \in Proc : pc[q] \in {"done", "dead"})
=============================================================================
