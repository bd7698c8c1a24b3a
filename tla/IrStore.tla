------------------------------- MODULE IrStore -------------------------------
(***************************************************************************)
(* The device's impulse responses: upload (device/ir_upload.py, push_ir of *)
(* device/sftp.py), the check whether one is really there                  *)
(* (confirm_ir_listed of device/client.py), delete and prune               *)
(* (device/maintenance.py).                                                *)
(*                                                                         *)
(* An IR is named by its hash.  A usable one has a row in the registry and *)
(* a file, of some basename, that holds it; the point lookup by hash       *)
(* answers from the files alone; listings come from a cache that an import *)
(* does not refresh and any content write does.  A file without a row is   *)
(* what a delete leaves until the device collects it, or for good (wedged),*)
(* or an upload that the device has not registered yet.                    *)
(***************************************************************************)
EXTENDS DeviceContents

CONSTANTS IrCap,        \* IR_LIST_CAP
          StemOf        \* of each IR that there is, the name of its local WAV

\* irs.files says which IR a file of the device holds, irs.names under which name
\* an IR is shown: at first, that of its file.
Stored(files) == Range(files)
Holding(h) == {n \in DOMAIN irs.files : irs.files[n] = h}
Written(f, n, x) == [m \in DOMAIN f \cup {n} |-> IF m = n THEN x ELSE f[m]]
Without(f, names) == [n \in DOMAIN f \ names |-> f[n]]

Used(presets) == UNION {x.uses : x \in presets}
Push(h, policy) == [op |-> "push", hash |-> h, none |-> policy, raised |-> policy]
Unlist(h, policy) == [op |-> "unlist", hash |-> h, none |-> policy, raised |-> policy]
Step(pc) == c' = [c EXCEPT !.pc = pc] /\ UNCHANGED ran
Within(pc) == c.pc = pc
Elsewhere == UNCHANGED <<Contents, Frame>>
Same == UNCHANGED irs
-----------------------------------------------------------------------------
(* Upload                                                                  *)

\* device_ir_hashes: what check_irs may report missing.  An unlisted IR is
\* looked up; it counts as missing if that fails, finds nothing or a wedge.
Missing(uses) == {m \in SUBSET (uses \ irs.listed) : (uses \ irs.listed) \ m \subseteq Stored(irs.files)}

\* ir_room: how many more fit, or None if the listing cannot be read.
Room == {None, IF Cardinality(irs.listed) >= IrCap THEN 0 ELSE IrCap - Cardinality(irs.listed)}

\* sync_preset_irs and upload_missing_irs: push what is missing, or nothing at
\* all if not all of it fits.
UploadMissing ==
    /\ Doing("uploads")
    /\ \/ Fail(op.raised)
       \/ \E m \in Missing(op.uses), room \in Room :
            Go(IF room # None /\ Cardinality(m) > room THEN [c EXCEPT !.warned = TRUE]
               ELSE [c EXCEPT !.checked = (room # None),
                              !.ops = <<op>> \o SetToSeq({Push(h, "warn") : h \in m}) \o Tail(@)])
    /\ Same /\ Elsewhere

\* push_ir: is the IR there already?  A lookup that is not answered reads as no.
\* A fresh import needs room, unless the batch was checked.
LookUp ==
    /\ Doing("push")
    /\ \/ Fail(op.raised)
       \/ op.hash \in Stored(irs.files) /\ Step("confirm")
       \/ \E room \in Room : IF room = 0 /\ ~c.checked THEN Fail(op.raised) ELSE Step("upload")
    /\ Same /\ Elsewhere

\* Mutant of Confirm: the first listing decides.
ConfirmAtOnce ==
    /\ Within("confirm")
    /\ IF op.hash \in irs.listed THEN Go(c) ELSE Step("unwedge")
    /\ Same /\ Elsewhere

\* confirm_ir_listed: only an IR that is absent from a listing taken after a
\* content write that was confirmed is wedged.  Any doubt means it is there.
Confirm ==
    /\ Within("confirm")
    /\ \/ Go(c) /\ Same
       \/ /\ irs.listed # {} /\ op.hash \notin irs.listed
          /\ irs' = [irs EXCEPT !.listed = irs.rows]
          /\ Go(c) \/ (op.hash \notin irs.rows /\ Step("unwedge"))
    /\ Elsewhere

\* remove_ir_file of the wedged file.
Unwedge ==
    /\ Within("unwedge")
    /\ \E landed \in BOOLEAN :
         /\ irs' = [irs EXCEPT !.files = IF landed THEN Without(@, Holding(op.hash)) ELSE @]
         /\ (landed /\ Step("upload")) \/ Fail(op.raised)
    /\ Elsewhere

\* upload_ir, which replaces a file of that name whatever it holds, and may be cut
\* short; the wait for /addContent, and the rename that refreshes the cache.  What
\* the device does not register at once is warned of (it may do so by itself,
\* later than is modelled).
Upload ==
    /\ Within("upload")
    /\ LET name == StemOf[op.hash]
           whole == Written(irs.files, name, op.hash)
           rows == irs.rows \cup {op.hash}
           Import(listed) == irs' = [irs EXCEPT !.rows = rows, !.files = whole, !.listed = listed,
                                                !.names = Written(@, op.hash, name)]
       IN \/ (Import(irs.listed) \/ Import(rows)) /\ (Go(c) \/ Fail(op.raised))
          \/ irs' = [irs EXCEPT !.files = whole] /\ (Go([c EXCEPT !.warned = TRUE]) \/ Fail(op.raised))
          \/ irs' \in {irs, [irs EXCEPT !.files = Without(@, {name})]} /\ Fail(op.raised)
    /\ Elsewhere
-----------------------------------------------------------------------------
(* Delete and prune                                                        *)

\* delete_irs
DropRow ==
    /\ Doing("unlist")
    /\ \E landed \in BOOLEAN :
         /\ irs' = IF landed THEN [irs EXCEPT !.rows = @ \ {op.hash},
                                              !.listed = irs.rows \ {op.hash}]
                   ELSE irs
         /\ (landed /\ Step("unfile")) \/ Fails
    /\ Elsewhere

\* _remove_ir_backing_file: by the name that the lookup gives or, if it finds
\* nothing or is not answered, by the name the IR is shown under.  A failure does
\* not matter.
DropFile ==
    /\ Within("unfile")
    /\ \E gone \in {{}, Holding(op.hash), {irs.names[op.hash]}} :
         irs' = [irs EXCEPT !.files = Without(@, gone)]
    /\ Go(c)
    /\ Elsewhere

\* The file-only clean-up of delete_device_ir: an error of it is reported.
DropWedge ==
    /\ Doing("unwedge")
    /\ \E landed \in BOOLEAN :
         /\ irs' = [irs EXCEPT !.files = IF landed THEN Without(@, Holding(op.hash)) ELSE @]
         /\ (landed /\ Go(c)) \/ Fail(op.raised)
    /\ Elsewhere

\* rename of an IR: only the name that it is shown under changes.
RenameIr ==
    /\ Doing("rename_ir")
    /\ \E landed \in BOOLEAN :
         /\ irs' = IF landed THEN [irs EXCEPT !.names = Written(@, op.hash, op.name),
                                              !.listed = irs.rows]
                   ELSE irs
         /\ (landed /\ Go(c)) \/ Fails
    /\ Elsewhere

\* device_referenced_ir_hashes and plan_ir_prune: the listed IRs that no preset
\* and not the edit buffer uses, and which of them a local tone uses.
Unused == irs.listed \ (Used(pool) \cup Cmd.buffer)
Orphans == Unused \ Cmd.local
Protected == Unused \cap Cmd.local
PlanKey == <<Orphans, Protected>>

\* _verify_pool_covers_references
PoolCovers == \A r \in refs : \E x \in pool : x.cid = r.rcid

Candidates == Orphans \cup (IF Cmd.force THEN Protected ELSE {})

\* The first scan of ir_prune.
PruneScan ==
    PoolCovers /\ Plan([c EXCEPT !.scanned = PlanKey, !.ops = IF Cmd.yes THEN <<Do("rescan", None)>>
                                     ELSE <<>>])

Prune == Given("prune") /\ PruneScan

\* Mutant of PruneRescan: the second scan is left out.
PruneUnscanned ==
    /\ Doing("rescan")
    /\ LET doomed == c.scanned[1] IN
       Go([c EXCEPT !.scanned = Used(pool),
                    !.ops = <<op>> \o SetToSeq({Unlist(h, "note") : h \in doomed}) \o Tail(@)])
    /\ Same /\ Elsewhere

\* The second: if it agrees with the first, the candidates are deleted.
PruneRescan ==
    /\ Doing("rescan")
    /\ \/ Fail(op.raised)
       \/ ~PoolCovers /\ Fail(op.raised)
       \/ c.scanned # PlanKey /\ Fail(op.raised)
       \/ /\ PoolCovers /\ c.scanned = PlanKey
          /\ Go([c EXCEPT !.scanned = Used(pool),
                          !.ops = <<op>> \o SetToSeq({Unlist(h, "note") : h \in Candidates}) \o Tail(@)])
    /\ Same /\ Elsewhere
-----------------------------------------------------------------------------
\* The device collects files that have no row.
Collect == /\ c.pc # "plan"
           /\ \E n \in DOMAIN irs.files :
                irs.files[n] \notin irs.rows /\ irs' = [irs EXCEPT !.files = Without(@, {n})]
           /\ UNCHANGED <<Contents, Frame, ran, c>>

IrOperations == UploadMissing \/ LookUp \/ Confirm \/ Unwedge \/ Upload \/ DropRow \/ DropFile
                  \/ DropWedge \/ RenameIr \/ PruneRescan
=============================================================================
