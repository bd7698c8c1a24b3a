---------------------------- MODULE LeaseSession ----------------------------
(***************************************************************************)
(* A held session (issues 71, 97): `device lock` takes leases that outlive *)
(* the command and prints a token, the session's verbs and reads present   *)
(* the token and are checked by check_session before they touch the        *)
(* device, `device unlock` gives the leases back.  The commands of the     *)
(* session run beside verbs of others.  Acquisition, heartbeat, release    *)
(* and the clock are LeaseVerb's.                                          *)
(*                                                                         *)
(* Reads of several lease files in a row that only lead to a verdict are   *)
(* one step here; a read that a later write relies on is a step of its     *)
(* own.  One device address: a token's leases under another one            *)
(* (_owned_on_other_device) are left out.                                  *)
(***************************************************************************)
EXTENDS LeaseVerb

CONSTANTS Command,     \* "verb", "read", "lock" or "unlock"
          NewToken,    \* the token a lock makes up when it has none
          After        \* the commands that must end before each one starts

VARIABLE cmd           \* per command:
                       \*   missing   the scopes check_session found uncovered
                       \*   left      the scopes a lock or unlock has to do
                       \*   converted the slots a lock has rewritten
                       \*   verdict   how the command ended

sessionVars == <<file, brk, brkOld, holder, dead, st, due, cmd>>

NoCmd == [missing |-> {}, left |-> <<>>, converted |-> {}, verdict |-> "none"]

SessionInit == /\ Init
               /\ cmd = [p \in Proc |-> NoCmd]

Run(p, command) == /\ Command[p] = command
                   /\ At(p, {"start"})
                   /\ \A q \in After[p] : st[q].pc = "done" \/ q \in dead

Tokened(p) == st[p].tok # NoToken

End(p, verdict) ==
    /\ st' = [st EXCEPT ![p].pc = "done", ![p].scan = <<>>, ![p].seen = NoLease,
                        ![p].todo = <<>>, ![p].created = <<>>]
    /\ cmd' = [cmd EXCEPT ![p].verdict = verdict]

ReadOnly == UNCHANGED <<file, brk, brkOld, holder, dead, due>>
-----------------------------------------------------------------------------
(* check_session                                                           *)

OwnCovers(p, s) == {c \in Covers(s) : LiveLease(file[c], dead) /\ Mine(p, file[c])}

\* Mutant of Missing: a lease about to expire counts as held.
MissingOnlyAbsent(p) == {{s \in Asked(p) : OwnCovers(p, s) = {}}}

\* covering_lease returns one of the live covers, whichever comes first; a
\* scope is missing without one, or when that one is about to expire.
Missing(p) ==
    LET scopes == Asked(p)
        mayMiss == {s \in scopes : \/ OwnCovers(p, s) = {}
                                   \/ \E c \in OwnCovers(p, s) : Unrenewable(file[c])}
        mustMiss == {s \in scopes : \A c \in OwnCovers(p, s) : Unrenewable(file[c])}
    IN {m \in SUBSET mayMiss : mustMiss \subseteq m}

\* A verb or a read without a token is not checked.
StartUnchecked(p) ==
    /\ Run(p, "verb") \/ Run(p, "read")
    /\ ~Tokened(p)
    /\ IF Command[p] = "verb" THEN Begin(p, Normalize(Want[p]), st[p])
                              ELSE Goto(p, "acquired")
    /\ ReadOnly /\ UNCHANGED cmd

\* Then every lease of the token is renewed, whatever the verb touches.
StartChecked(p) ==
    /\ Run(p, "verb") \/ Run(p, "read")
    /\ Tokened(p)
    /\ \E m \in Missing(p) : cmd' = [cmd EXCEPT ![p].missing = m]
    /\ st' = [st EXCEPT ![p].pc = "csBeat", ![p].held = {},
                        ![p].scan = Append(ScopeOrder, All)]
    /\ ReadOnly

CsLook(p) ==
    /\ At(p, {"csBeat"}) /\ st[p].scan # <<>>
    /\ LET l == file[Slot(p)] IN
         IF Renewable(p, l)
         THEN st' = [st EXCEPT ![p].pc = "csRenew", ![p].seen = l]
         ELSE NextSlot(p)
    /\ ReadOnly /\ UNCHANGED cmd

CsCheck(p) == /\ RenewCheck(p, "csRenew", "csReplace", "csBeat")
              /\ UNCHANGED <<due, cmd>>

CsReplace(p) ==
    /\ At(p, {"csReplace"})
    /\ Write(Slot(p), [st[p].seen EXCEPT !.age = 0])
    /\ st' = [st EXCEPT ![p].pc = "csBeat", ![p].scan = Tail(@),
                        ![p].held = @ \cup {Slot(p)}, ![p].seen = NoLease]
    /\ UNCHANGED <<brk, brkOld, holder, dead, due, cmd>>

\* _foreign_holder, _expired_own_lease
SomeForeignHolder(p) == \E s \in cmd[p].missing :
                          \E c \in ToSet(ConflictPaths(s)) : Foreign(p, file[c])
ExpiredOwn(p) == {c \in UNION {Covers(s) : s \in cmd[p].missing} :
                    /\ IsLease(file[c]) /\ IsStale(file[c], dead)
                    /\ Mine(p, file[c])
                    /\ file[c].kind \in {"session", "pid", "detached"}}

\* Mutant of Classify: a token that opens nothing is let through.
ClassifyLenient(p) ==
    /\ At(p, {"csBeat"}) /\ st[p].scan = <<>>
    /\ IF Command[p] = "read" THEN Goto(p, "acquired")
                              ELSE Begin(p, Normalize(Want[p]), st[p])
    /\ UNCHANGED cmd /\ ReadOnly

\* The verdict.  An expired lease of ours is broken before it is reported; a
\* read is refused while someone else holds what it reads; with no live lease
\* left the session is lost; a session that is merely narrower goes on.
Classify(p) ==
    /\ At(p, {"csBeat"}) /\ st[p].scan = <<>>
    /\ LET strict == Command[p] = "read"
           alive == st[p].held # {}
       IN \/ /\ cmd[p].missing = {} \/ (ExpiredOwn(p) = {} /\ alive
                                        /\ ~(strict /\ SomeForeignHolder(p)))
             /\ IF strict THEN Goto(p, "acquired")
                          ELSE Begin(p, Normalize(Want[p]), st[p])
             /\ UNCHANGED cmd
          \/ /\ cmd[p].missing # {} /\ ExpiredOwn(p) = {}
             /\ ~alive \/ (strict /\ SomeForeignHolder(p))
             /\ End(p, "lost")
          \/ /\ cmd[p].missing # {}
             /\ \E c \in ExpiredOwn(p) :
                  st' = [st EXCEPT ![p].pc = "clearExpired", ![p].scan = <<c>>]
             /\ UNCHANGED cmd
    /\ ReadOnly

\* The file is looked at once more, and broken as any stale lease is; then
\* LockLost is raised.
ClearExpired(p) ==
    /\ At(p, {"clearExpired"})
    /\ LET l == file[Slot(p)] IN
         IF IsLease(l) /\ IsStale(l, dead)
         THEN Goto(p, "break") /\ UNCHANGED cmd
         ELSE End(p, "lost")
    /\ ReadOnly

ExpiredBroken(p) ==
    /\ At(p, {"dropFree", "dropLive"}) /\ holder # p
    /\ UnlinkBreak(Slot(p))
    /\ End(p, "lost")
    /\ UNCHANGED <<file, holder, dead, due>>

ExpiredUnbroken(p) == /\ At(p, {"reread"}) /\ holder # p
                      /\ End(p, "lost")
                      /\ ReadOnly
-----------------------------------------------------------------------------
(* session_lock                                                            *)

\* Adopt the stored token of a live lease of ours, or keep our own, or make
\* one up.
StartLock(p) ==
    /\ Run(p, "lock")
    /\ LET scopes == Normalize(Want[p])
           stored == {file[c].token : c \in
                        {d \in UNION {OwnCovers(p, s) : s \in ToSet(scopes)} :
                           file[d].token # NoToken}}
       IN \E t \in IF stored # {} THEN stored
                   ELSE {IF Tokened(p) THEN st[p].tok ELSE NewToken[p]} :
            /\ st' = [st EXCEPT ![p].tok = t, ![p].pc = "lockNext"]
            /\ cmd' = [cmd EXCEPT ![p].left = scopes]
    \* A pid that is not alive right now is refused.
    /\ LeaseKind[p] = "pid" => LeasePid[p] \notin dead
    /\ ReadOnly

\* The exact slot is looked at first, then the exclusive one.
LockNext(p) ==
    /\ At(p, {"lockNext"}) /\ cmd[p].left # <<>>
    /\ st' = [st EXCEPT ![p].pc = "lockLook",
                        ![p].scan = IF Head(cmd[p].left) = All THEN <<All>>
                                    ELSE <<Head(cmd[p].left), All>>]
    /\ ReadOnly /\ UNCHANGED cmd

\* The command ends and leaves the leases: the user has the token.
LockDone(p) ==
    /\ At(p, {"lockNext"}) /\ cmd[p].left = <<>>
    /\ End(p, "locked")
    /\ ReadOnly

\* acquire for this scope alone; the leases of earlier scopes stay in
\* `created`, which a failure gives back.
LockAcquire(p) ==
    /\ Begin(p, <<Head(cmd[p].left)>>, st[p])
    /\ cmd' = [cmd EXCEPT ![p].left = Tail(@)]

\* A live lease of ours is re-labelled in place, unless this call already did
\* or it is about to expire; without one the scope is acquired.
LockLook(p) ==
    /\ At(p, {"lockLook"})
    /\ IF st[p].scan = <<>> THEN LockAcquire(p)
       ELSE LET l == file[Slot(p)]
                ours == LiveLease(l, dead) /\ Mine(p, l)
            IN \/ ~ours /\ NextSlot(p) /\ UNCHANGED cmd
               \/ /\ ours /\ Slot(p) \in cmd[p].converted
                  /\ Goto(p, "lockNext")
                  /\ cmd' = [cmd EXCEPT ![p].left = Tail(@)]
               \/ /\ ours /\ Slot(p) \notin cmd[p].converted /\ ~Unrenewable(l)
                  /\ st' = [st EXCEPT ![p].pc = "relock", ![p].seen = l]
                  /\ UNCHANGED cmd
               \/ /\ ours /\ Slot(p) \notin cmd[p].converted /\ Unrenewable(l)
                  /\ LockAcquire(p)
    /\ ReadOnly

\* _rewrite with the nonce that was read.
RelockCheck(p) ==
    /\ At(p, {"relock"})
    /\ LET l == file[Slot(p)] IN
         IF IsLease(l) /\ l.nonce = st[p].seen.nonce
         THEN Goto(p, "relockReplace") /\ UNCHANGED cmd
         ELSE LockAcquire(p)
    /\ ReadOnly

\* A new nonce, so that whoever tracks the old one no longer matches.
RelockReplace(p) ==
    /\ At(p, {"relockReplace"})
    /\ \E n \in FreshNonces : Write(Slot(p), NewLease(p, n))
    /\ st' = [st EXCEPT ![p].pc = "lockNext", ![p].seen = NoLease]
    /\ cmd' = [cmd EXCEPT ![p].left = Tail(@), ![p].converted = @ \cup {Slot(p)}]
    /\ UNCHANGED <<brk, brkOld, holder, dead, due>>

LockAcquired(p) == /\ Command[p] = "lock" /\ At(p, {"acquired"})
                   /\ Goto(p, "lockNext")
                   /\ ReadOnly /\ UNCHANGED cmd
-----------------------------------------------------------------------------
(* release_scopes, without --force.  No scope named: every slot, and a     *)
(* foreign lease is kept; named scopes: a live foreign lease is an error.  *)

StartUnlock(p) ==
    /\ Run(p, "unlock")
    /\ st' = [st EXCEPT ![p].pc = "unlock",
                        ![p].scan = IF Want[p] = <<>> THEN Append(ScopeOrder, All)
                                    ELSE Want[p]]
    /\ ReadOnly /\ UNCHANGED cmd

KeepOrRefuse(p) == IF Want[p] = <<>>
                   THEN /\ st' = [st EXCEPT ![p].pc = "unlock", ![p].scan = Tail(@)]
                        /\ UNCHANGED cmd
                   ELSE End(p, "refused")

Unlock(p) ==
    /\ At(p, {"unlock"}) /\ st[p].scan # <<>>
    /\ LET l == file[Slot(p)] IN
         IF ~IsLease(l) THEN NextSlot(p) /\ UNCHANGED cmd
         ELSE IF Mine(p, l) \/ IsStale(l, dead)
              THEN /\ st' = [st EXCEPT ![p].pc = "unlockCheck", ![p].seen = l]
                   /\ UNCHANGED cmd
              ELSE KeepOrRefuse(p)
    /\ ReadOnly

\* The file is read again: a live foreign lease with another nonce is spared.
UnlockCheck(p) ==
    /\ At(p, {"unlockCheck"})
    /\ LET l == file[Slot(p)] IN
         IF Foreign(p, l) /\ l.nonce # st[p].seen.nonce
         THEN KeepOrRefuse(p)
         ELSE Goto(p, "unlockUnlink") /\ UNCHANGED cmd
    /\ ReadOnly

UnlockUnlink(p) ==
    /\ At(p, {"unlockUnlink"})
    /\ Unlink(Slot(p))
    /\ st' = [st EXCEPT ![p].pc = "unlock", ![p].scan = Tail(@),
                        ![p].seen = NoLease]
    /\ UNCHANGED <<brk, brkOld, holder, dead, due, cmd>>

Unlocked(p) == /\ At(p, {"unlock"}) /\ st[p].scan = <<>>
               /\ End(p, "unlocked")
               /\ ReadOnly
-----------------------------------------------------------------------------
SessionStep(p) ==
    \/ StartUnchecked(p) \/ StartChecked(p) \/ CsLook(p) \/ CsCheck(p)
    \/ CsReplace(p) \/ Classify(p) \/ ClearExpired(p) \/ ExpiredBroken(p)
    \/ ExpiredUnbroken(p)
    \/ StartLock(p) \/ LockNext(p) \/ LockDone(p) \/ LockLook(p) \/ RelockCheck(p)
    \/ RelockReplace(p) \/ LockAcquired(p)
    \/ StartUnlock(p) \/ Unlock(p) \/ UnlockCheck(p) \/ UnlockUnlink(p)
    \/ Unlocked(p)
    \/ (AcquireStep(p) \/ GiveUp(p)) /\ UNCHANGED <<due, cmd>>
    \/ Command[p] # "lock" /\ EnterBody(p) /\ UNCHANGED cmd
    \/ BodyStep(p) /\ UNCHANGED cmd

\* When no process stalls, a tick finds every command idle, polling for the
\* lock or in its body: all else takes milliseconds.
SessionInTime == \A p \in Proc : At(p, {"start", "wait", "body", "done"}) \/ p \in dead

SessionEnvironment ==
    /\ \/ Tick /\ (Stalls \/ SessionInTime)
       \/ \E s \in Slots : AgeBreak(s)
       \/ \E p \in Pids : Die(p)
    /\ UNCHANGED cmd

SessionNext == SessionEnvironment \/ \E p \in Proc : SessionStep(p)

SessionSpec == SessionInit /\ [][SessionNext]_sessionVars
-----------------------------------------------------------------------------
\* What a command in its body may rely on: a verb holds all it asked for, a
\* read with a token what check_session found covered, a bare read nothing.
Promised(p) == CASE Command[p] = "verb" -> Asked(p)
                 [] Command[p] = "read" /\ Tokened(p) -> Asked(p) \ cmd[p].missing
                 [] OTHER -> {}

\* Every scope promised to a running body is under a live lease of its own.
SessionProtected ==
    \A p \in Proc : InBody(p) =>
        \A s \in Promised(p) : \E c \in Covers(s) :
            LiveLease(file[c], dead) /\ Mine(p, file[c])

\* No foreign verb runs on a scope promised to a running body.
SessionExclusion ==
    \A p, q \in Proc :
        InBody(p) /\ InBody(q) /\ Command[q] = "verb" /\ ~SameSession(p, q) =>
            \A s \in Promised(p), t \in Asked(q) : ~Conflict(s, t)

\* A token that opens no live lease stops the read that presents it (issue
\* 97): the body of such a read starts only under a live lease of the token.
NoReadOnLostSession ==
    [][\A p \in Proc :
         Command[p] = "read" /\ Tokened(p) /\ ~InBody(p) /\ InBody(p)'
           => \E c \in Slots : LiveLease(file[c], dead) /\ Mine(p, file[c])]_sessionVars

SameToken(p, q) == st[p].tok = st[q].tok

\* The slots that the lock p, having reported success, still holds and may
\* expect to keep.
Locked(p) == {c \in Slots :
                /\ Command[p] = "lock" /\ cmd[p].verdict = "locked"
                /\ LiveLease(file[c], dead) /\ ~Unrenewable(file[c])
                /\ file[c].token = st[p].tok /\ file[c].kind = LeaseKind[p]}

\* When `device lock` has reported success, no step but a lock or an unlock of
\* the same session removes its leases or makes them transient again, as long
\* as they are live and not about to expire.
LockedStays ==
    [][\A p \in Proc : \A c \in Locked(p) :
         file'[c] = NoLease \/ file'[c].kind # LeaseKind[p]
           => \E q \in Proc : /\ Command[q] \in {"lock", "unlock"}
                              /\ SameToken(p, q) /\ st'[q] # st[q]]_sessionVars
=============================================================================
