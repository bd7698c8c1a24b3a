------------------------------ MODULE PoolWrite ------------------------------
(***************************************************************************)
(* Writing a new preset into the device's pool (HelixClient._push_to_slot, *)
(* _save_edit_buffer_to and install_into_pool of device/client.py): choose *)
(* or check a position, /CreateContent, find out what it created, write    *)
(* the content, and clean up if that fails.                                *)
(*                                                                         *)
(* The device inserts: an entry created at an occupied position pushes the *)
(* occupant, and all behind it, one down.  Listings come from an index     *)
(* that trails the pool, a reply may be lost, and so may a request.  The   *)
(* device is shared with its front panel, which the leases do not bind.    *)
(*                                                                         *)
(* A cid is a pair: who created the entry (the number of a call, 0 for an  *)
(* incumbent, -1 for the front panel) and a serial number.  The code only  *)
(* compares cids.  Save-edit-buffer and set-content differ only in where   *)
(* the content comes from; both are WriteContent.                          *)
(***************************************************************************)
EXTENDS Integers, Sequences

CONSTANTS Names,        \* the names presets may have
          Batches,      \* the sequences of calls that a command may make
          Pools,        \* the pools that it may find
          PanelNames,   \* the names the front panel gives to what it saves
          PanelSaves,   \* how often it saves at most
          LastPosi,     \* the last position anything is created at
          Tries,        \* create_confirm_tries
          MaxLag,       \* the pauses after which the index has caught up
          Resends,      \* reconnect_tries
          Settles       \* does the index catch up between two calls? (BOOLEAN)

VARIABLES pool,         \* the entries on the device: cid, name, posi, content
          index,        \* what a listing shows of them: cid, name, posi
          lag,          \* the pauses the index may still trail the pool
          calls,        \* the calls of this command
          results,      \* how those made so far ended
          c             \* the local state of the call under way:
                        \*   pc       its next step
                        \*   pos      the position it creates at
                        \*   known    the cids of the pre-create snapshot
                        \*   sent     the copies of the request sent so far
                        \*   try      the confirming listing it is at
                        \*   clean    was the last one readable?
                        \*   cidless  did one show the entry without a cid?
                        \*   skipped  did one show only an entry of `known`?
                        \*   cid      the entry to write, or to delete

vars == <<pool, index, lag, calls, results, c>>

Ways == {"push", "dest", "install", "at"}
Positions == 0..LastPosi
NoCid == <<-2, 0>>
Idle == [pc |-> "look", pos |-> 0, known |-> {}, sent |-> 1, try |-> 1, clean |-> FALSE,
         cidless |-> FALSE, skipped |-> FALSE, cid |-> NoCid]

CidSet == Int \X Int
EntrySet == [cid : CidSet, name : Names, posi : Nat, content : Int]
CallSet == [way : Ways, name : Names, pos : Nat]

\* The entries of a pool have a cid each, those of an incumbent to begin with.
ASSUME PoolAssumption ==
    /\ Tries \in Nat \ {0} /\ MaxLag \in Nat /\ Resends \in Nat
    /\ PanelSaves \in Nat /\ LastPosi \in Nat /\ Settles \in BOOLEAN
    /\ PanelNames \subseteq Names /\ Batches \subseteq Seq(CallSet)
    /\ \A entries \in Pools : /\ entries \subseteq EntrySet
                              /\ \A x, y \in entries : x.cid = y.cid => x = y
                              /\ \A x \in entries : x.cid[1] = 0

Row(e) == [cid |-> e.cid, name |-> e.name, posi |-> e.posi]
Rows(entries) == {Row(e) : e \in entries}
Occupied(entries, p) == \E e \in entries : e.posi = p

Init == /\ pool \in Pools
        /\ index = Rows(pool) /\ lag = 0
        /\ calls \in Batches
        /\ results = <<>>
        /\ c = Idle
-----------------------------------------------------------------------------
(* The device                                                              *)

\* /CreateContent
Insert(entries, e) ==
    {IF Occupied(entries, e.posi) /\ x.posi >= e.posi
     THEN [x EXCEPT !.posi = @ + 1] ELSE x : x \in entries} \cup {e}

\* /RemoveContent leaves a gap.
Remove(entries, cid) == {x \in entries : x.cid # cid}

\* After a write the index stays as it was, for MaxLag pauses at most; then it
\* shows everything, what was written in the meantime included.
Trail(entries) ==
    /\ pool' = entries
    /\ index' = IF MaxLag = 0 THEN Rows(entries) ELSE index
    /\ lag' = IF Rows(entries) # Rows(pool) /\ lag = 0 THEN MaxLag ELSE lag

CatchUp == /\ index # Rows(pool)
           /\ index' = Rows(pool) /\ lag' = 0
           /\ UNCHANGED <<pool, calls, results, c>>

\* Somebody saves a preset at a free position of the device.
PanelSave ==
    /\ \E n \in 1..PanelSaves, name \in PanelNames, p \in Positions :
         /\ \A x \in pool : x.cid # <<-1, n>>
         /\ \A m \in 1..(n - 1) : \E x \in pool : x.cid = <<-1, m>>
         /\ ~Occupied(pool, p)
         /\ Trail(pool \cup {[cid |-> <<-1, n>>, name |-> name, posi |-> p, content |-> -1]})
    /\ UNCHANGED <<calls, results, c>>
-----------------------------------------------------------------------------
Now == Len(results) + 1
Call == calls[Now]
Prechecked == Call.way # "at"
Device == <<pool, index, lag>>
At(point) == Now <= Len(calls) /\ c.pc = point
Goto(point) == c' = [c EXCEPT !.pc = point]

\* The call ends: "ok" with a cid, "none" for None, or an error and its kind.
\* It may have logged a warning, of a reconnect or of what it left behind.
\* The next call may find the index behind.
EndWith(verdict, cid, warned, entries) ==
    /\ results' = Append(results, [verdict |-> verdict, cid |-> cid,
                                   warned |-> warned \/ c.sent > 1])
    /\ c' = Idle
    /\ IF Settles THEN pool' = entries /\ index' = Rows(entries) /\ lag' = 0
                  ELSE Trail(entries)
    /\ UNCHANGED calls

End(verdict) == EndWith(verdict, NoCid, FALSE, pool)

\* The rows at (name, posi), which the code takes for its own entry.
Matches == {x \in index : x.name = Call.name /\ x.posi = c.pos}
-----------------------------------------------------------------------------
(* Before the create.  All listings here are strict: a failed one raises.  *)

\* find_by_pos: the position given by the user must be empty.
CheckPosi ==
    /\ At("look") /\ Call.way = "push"
    /\ \/ End("raised")
       \/ Occupied(index, Call.pos) /\ End("refused")
       \/ /\ ~Occupied(index, Call.pos)
          /\ c' = [c EXCEPT !.pc = "create", !.pos = Call.pos]
          /\ UNCHANGED <<Device, calls, results>>

\* Mutant of ChoosePosi: a failed listing reads as an empty pool.
ChoosePosiLenient ==
    /\ At("look") /\ Call.way \in {"dest", "install"}
    /\ \E listing \in {index, {}} :
         \E p \in Positions :
           /\ ~Occupied(listing, p) /\ \A q \in 0..(p - 1) : Occupied(listing, q)
           /\ c' = [c EXCEPT !.pc = "create", !.pos = p]
    /\ UNCHANGED <<Device, calls, results>>

\* _lowest_empty_posi
ChoosePosi ==
    /\ At("look") /\ Call.way \in {"dest", "install"}
    /\ \/ End("raised")
       \/ \E p \in Positions :
            /\ ~Occupied(index, p) /\ \A q \in 0..(p - 1) : Occupied(index, q)
            /\ c' = [c EXCEPT !.pc = "create", !.pos = p]
            /\ UNCHANGED <<Device, calls, results>>

\* _create_attributed without a precheck: remember which cids there are.  A
\* row without a cid raises as a failed listing does.
Snapshot ==
    /\ At("look") /\ Call.way = "at"
    /\ \/ End("raised")
       \/ /\ c' = [c EXCEPT !.pc = "create", !.pos = Call.pos,
                            !.known = {x.cid : x \in index}]
          /\ UNCHANGED <<Device, calls, results>>
-----------------------------------------------------------------------------
(* _create_content_checked                                                 *)

\* The request lands or not, and then: the reply has code 0 and the cid is
\* trusted; or it has another code, or never comes; or the connection drops,
\* and _rpc sends the request once more, or gives up.
Create ==
    /\ At("create")
    /\ \E landed \in BOOLEAN :
         LET cid == <<Now, c.sent>>
             entries == IF landed
                        THEN Insert(pool, [cid |-> cid, name |-> Call.name,
                                           posi |-> c.pos, content |-> 0])
                        ELSE pool
         IN \/ /\ landed
               /\ Trail(entries)
               /\ c' = [c EXCEPT !.pc = "write", !.cid = cid]
               /\ UNCHANGED <<calls, results>>
            \/ /\ Trail(entries)
               /\ Goto("confirm")
               /\ UNCHANGED <<calls, results>>
            \/ /\ c.sent <= Resends
               /\ Trail(entries)
               /\ c' = [c EXCEPT !.sent = @ + 1]
               /\ UNCHANGED <<calls, results>>
            \/ /\ c.sent = Resends + 1
               /\ EndWith("raised", NoCid, FALSE, entries)

\* The pause between two confirming listings.
Pause == /\ lag' = IF lag > 0 THEN lag - 1 ELSE 0
         /\ index' = IF lag <= 1 THEN Rows(pool) ELSE index
         /\ UNCHANGED pool

NextTry(after) == /\ c' = [after EXCEPT !.try = @ + 1,
                                        !.pc = IF c.try = Tries THEN "unconfirmed" ELSE @]
                  /\ IF c.try = Tries THEN UNCHANGED Device ELSE Pause
                  /\ UNCHANGED <<calls, results>>

\* Mutants of Confirm: an entry of the snapshot is as good as any; a match by
\* name alone; a clean listing is remembered over later failures.
ConfirmAny ==
    /\ At("confirm")
    /\ \/ NextTry([c EXCEPT !.clean = FALSE])
       \/ Matches = {} /\ NextTry([c EXCEPT !.clean = TRUE])
       \/ \E x \in Matches : /\ c' = [c EXCEPT !.pc = "write", !.cid = x.cid]
                             /\ UNCHANGED <<Device, calls, results>>

ConfirmByName ==
    /\ At("confirm")
    /\ LET rows == {x \in index : x.name = Call.name /\ x.cid \notin c.known} IN
       \/ NextTry([c EXCEPT !.clean = FALSE])
       \/ rows = {} /\ NextTry([c EXCEPT !.clean = TRUE])
       \/ \E x \in rows : /\ c' = [c EXCEPT !.pc = "write", !.cid = x.cid]
                          /\ UNCHANGED <<Device, calls, results>>

ConfirmSticky ==
    /\ At("confirm")
    /\ \/ NextTry(c)
       \/ Matches = {} /\ NextTry([c EXCEPT !.clean = TRUE])
       \/ \E x \in Matches : /\ c' = [c EXCEPT !.pc = "write", !.cid = x.cid]
                             /\ UNCHANGED <<Device, calls, results>>

\* _confirm_created: a listing that fails; that does not show the entry; that
\* shows it without a cid; that shows only what was there before; or that
\* shows a new one.
Confirm ==
    /\ At("confirm")
    /\ \/ NextTry([c EXCEPT !.clean = FALSE])
       \/ Matches = {} /\ NextTry([c EXCEPT !.clean = TRUE])
       \/ Matches # {} /\ NextTry([c EXCEPT !.clean = TRUE, !.cidless = TRUE])
       \/ \E x \in Matches :
            IF x.cid \in c.known
            THEN NextTry([c EXCEPT !.clean = TRUE, !.skipped = TRUE])
            ELSE /\ c' = [c EXCEPT !.pc = "write", !.cid = x.cid]
                 /\ UNCHANGED <<Device, calls, results>>

\* _create_status_error: what is known of the entry.
StatusError == IF c.cidless THEN "stub" ELSE IF c.clean THEN "absent" ELSE "unknown"

\* The call fails and deletes nothing.
Unconfirmed == /\ At("unconfirmed")
               /\ End(IF c.skipped THEN "occupied" ELSE StatusError)
-----------------------------------------------------------------------------
(* _set_content_data or _save_preset_with_cid, and _after_failed_write     *)

Written(cid) == {IF x.cid = cid THEN [x EXCEPT !.content = Now] ELSE x : x \in pool}

\* The write lands or not; the reply says it did, or not, or the connection
\* is lost, which nobody catches.
WriteContent ==
    /\ At("write")
    /\ \E landed \in BOOLEAN :
         LET entries == IF landed THEN Written(c.cid) ELSE pool IN
         \/ /\ landed
            /\ IF Call.way = "install"
               THEN Trail(entries) /\ Goto("recover") /\ UNCHANGED <<calls, results>>
               ELSE EndWith("ok", c.cid, FALSE, entries)
         \/ /\ Trail(entries)
            /\ Goto(IF Prechecked THEN "cleanup" ELSE "delete")
            /\ UNCHANGED <<calls, results>>
         \/ EndWith("raised", NoCid, FALSE, entries)

\* Mutant of FindStub: nothing found is nothing to report.
FindStubSilent ==
    /\ At("cleanup")
    /\ \/ EndWith("none", NoCid, FALSE, pool)
       \/ \E x \in Matches : /\ c' = [c EXCEPT !.pc = "delete", !.cid = x.cid]
                             /\ UNCHANGED <<Device, calls, results>>

\* _delete_created_stub lists once more; a listing that fails, does not show
\* the stub, or shows it without a cid is reported.
FindStub ==
    /\ At("cleanup")
    /\ \/ EndWith("none", NoCid, TRUE, pool)
       \/ \E x \in Matches : /\ c' = [c EXCEPT !.pc = "delete", !.cid = x.cid]
                             /\ UNCHANGED <<Device, calls, results>>

\* Without a precheck the stub is deleted by its cid, and its passing is
\* reported too, since it has displaced others.
DeleteStub ==
    /\ At("delete")
    /\ \/ EndWith("none", NoCid, ~Prechecked, Remove(pool, c.cid))
       \/ \E landed \in BOOLEAN :
            EndWith("none", NoCid, TRUE, IF landed THEN Remove(pool, c.cid) ELSE pool)

\* _pool_cid_by_name, from a lenient listing: the entry of that name at the
\* position, or else the first one of that name; the written cid if the
\* listing fails, shows none, or no cid for it.
Recover ==
    /\ At("recover")
    /\ LET namesakes == {x \in index : x.name = Call.name}
           first == {x \in namesakes : \A y \in namesakes : x.posi <= y.posi}
       IN \/ EndWith("ok", c.cid, FALSE, pool)
          \/ \E x \in IF Matches # {} THEN Matches ELSE first :
               EndWith("ok", x.cid, FALSE, pool)
-----------------------------------------------------------------------------
Step == \/ CheckPosi \/ ChoosePosi \/ Snapshot \/ Create \/ Confirm
        \/ Unconfirmed \/ WriteContent \/ FindStub \/ DeleteStub \/ Recover

Next == Step \/ CatchUp \/ PanelSave

Spec == Init /\ [][Next]_vars
-----------------------------------------------------------------------------
By(k) == {x \in pool : x.cid[1] = k}

\* The entries of its name that are older than the call k, and its own.
Bearing(k) == {x \in pool : x.name = calls[k].name /\ x.cid[1] <= k}

\* What the theorems of PoolWrite_proofs assume of the regime: the listings
\* catch up between two calls, and while one is confirmed; the front panel does
\* not save under a name of this command.  The pool, and the command itself, may
\* have others of the name.
Settled == Settles /\ MaxLag < Tries

DistinctNames == \A b \in Batches : \A k \in DOMAIN b : b[k].name \notin PanelNames

\* A call neither deletes, renames nor rewrites a preset it did not create
\* (_create_attributed, _delete_created_stub): neither an incumbent nor what
\* an earlier call or the front panel made.
OthersSafe ==
    [][\A x \in pool : x.cid[1] # Now =>
         \E y \in pool' : y.cid = x.cid /\ y.name = x.name /\ y.content = x.content]_vars

\* A call that checked its position moves no other preset, unless the front
\* panel took the position meanwhile (find_by_pos, _lowest_empty_posi) or the
\* create is sent a second time, onto the entry that the first one made (_rpc).
CheckedMovesNobody ==
    [][(Now <= Len(calls) /\ Prechecked /\ c.sent = 1
          /\ ~\E x \in By(-1) : x.posi = c.pos)
         => \A x \in pool : x.cid[1] # Now =>
              \A y \in pool' : y.cid = x.cid => y.posi = x.posi]_vars

\* A call that returns a cid has filled an entry that it created, and the cid is
\* that of this entry (_create_attributed).  That of install_into_pool is at least
\* of an entry of the name: the true one, unless another bears it too.
ReturnsOwn ==
    \A k \in DOMAIN results : results[k].verdict = "ok" =>
        \E filled \in By(k), x \in Bearing(k) :
            /\ filled.content = k
            /\ x.cid = results[k].cid
            /\ calls[k].way # "install" => x = filled

\* "The pool is re-listed by name to recover the true cid, which is returned"
\* (install_into_pool).  The code breaks this (_pool_cid_by_name): a listing that
\* trails shows only another of the name.
TrueCid ==
    \A k \in DOMAIN results : calls[k].way = "install" /\ results[k].verdict = "ok" =>
        \E x \in By(k) : x.cid = results[k].cid /\ x.content = k

\* A call that reports nothing, not even a reconnect, leaves nothing of its own
\* but what it filled (_delete_created_stub: reported, never swallowed).
NoSilentStub ==
    \A k \in DOMAIN results :
        results[k].verdict \in {"ok", "none", "refused"} /\ ~results[k].warned
          => \A x \in By(k) : results[k].verdict = "ok" /\ x.content = k

\* "The create really did not land" is said only when it did not
\* (_create_status_error): the last listing was readable, and the index has
\* caught up by then.
TruthfulAbsence ==
    \A k \in DOMAIN results : results[k].verdict = "absent" => By(k) = {}
-----------------------------------------------------------------------------
(* The inductive invariant.  S is the pool or the index.                   *)

ResultSet ==
    [verdict : {"ok", "none", "refused", "raised", "occupied", "stub", "absent", "unknown"},
     cid : CidSet, warned : BOOLEAN]

ProgressSet ==
    [pc : {"look", "create", "confirm", "unconfirmed", "write", "cleanup", "delete", "recover"},
     pos : Nat, known : SUBSET CidSet, sent : 1..Resends + 1, try : 1..Tries + 1,
     clean : BOOLEAN, cidless : BOOLEAN, skipped : BOOLEAN, cid : CidSet]

TypeOK ==
    /\ pool \subseteq EntrySet
    /\ index \subseteq [cid : CidSet, name : Names, posi : Nat]
    /\ lag \in 0..MaxLag
    /\ calls \in Batches
    /\ results \in Seq(ResultSet)
    /\ c \in ProgressSet

\* The calls are made in order, and each starts afresh.
InTurn == IF c.pc = "look" THEN c = Idle
          ELSE Now <= Len(calls) /\ (c.pc = "create" => c.try = 1)

UniqueCids == \A x, y \in pool : x.cid = y.cid => x = y

\* None is of a call to come, and the front panel's bear its names.
MadeBy(S) ==
    \A x \in S : x.cid[1] \in -1..Now /\ (x.cid[1] = -1 => x.name \in PanelNames)

\* The copies of the request that may have landed.
Copies == 1..(IF c.pc \in {"look", "create"} THEN c.sent - 1 ELSE c.sent)

OwnRows(S) == \A x \in S : x.cid[1] = Now => x.cid[2] \in Copies /\ x.name = Call.name

\* At the start the listing shows all but what the front panel just saved.
LooksAround == c.pc = "look" => \A x \in pool : x.cid[1] = -1 \/ Row(x) \in index

\* What is not the call's own, nor the front panel's, was in the snapshot or is
\* not where the call writes.
Attributable(S) ==
    c.pc # "look" =>
        \A x \in S : \/ x.cid[1] \in {-1, Now}
                     \/ IF Prechecked THEN x.posi # c.pos ELSE x.cid \in c.known

\* The index trails: it shows no entry that is gone, and trails no longer than
\* the confirming listings take.
IndexTrails ==
    /\ \A x \in index : \E y \in pool : y.cid = x.cid /\ y.name = x.name
    /\ lag = 0 => index = Rows(pool)
    /\ c.pc = "confirm" =>
         /\ c.try <= Tries
         /\ lag \in 1..(MaxLag - c.try + 1) \/ \A x \in By(Now) : Row(x) \in index

\* The last copy that landed is where it was created.
OwnInPlace ==
    /\ By(Now) # {} => \E x \in By(Now) : x.posi = c.pos
    /\ c.pc = "unconfirmed" /\ c.clean /\ ~c.cidless /\ ~c.skipped => By(Now) = {}

\* What the call writes or deletes is its own.
OwnTarget ==
    /\ c.pc = "cleanup" => Prechecked
    /\ c.pc = "recover" => Call.way = "install"
    /\ c.pc \in {"write", "delete", "recover"} =>
         \E x \in By(Now) : x.cid = c.cid /\ (c.pc = "recover" => x.content = Now)

PoolInv ==
    /\ TypeOK
    /\ InTurn
    /\ UniqueCids
    /\ MadeBy(pool) /\ MadeBy(index)
    /\ OwnRows(pool) /\ OwnRows(index)
    /\ LooksAround
    /\ Attributable(pool) /\ Attributable(index)
    /\ IndexTrails
    /\ OwnInPlace
    /\ OwnTarget
    /\ ReturnsOwn
    /\ NoSilentStub
    /\ TruthfulAbsence
=============================================================================
