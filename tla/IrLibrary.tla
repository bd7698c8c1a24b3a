------------------------------ MODULE IrLibrary ------------------------------
(***************************************************************************)
(* The impulse responses of the library: WAV files, their sidecars and     *)
(* mapping.json, which binds the hash of a WAV to a path.  The hash of a   *)
(* WAV is its content here; Short(h) is the first 8 digits of it.          *)
(***************************************************************************)
EXTENDS HomeFiles

CONSTANTS PackOf,    \* derive_pack: the folder of the user's WAVs -> the pack
          ShortOf    \* the first digits of a hash

Sidecar(x) == <<"side", x[2]>>
InLibrary(x) == x[1] = "wav"

\* <pack>/<basename>; with the first digits of the hash; with all of it.
Natural(x) == <<"wav", <<PackOf[x[2][1]], x[2][2], "">>>>
Prefixed(x, h) == [Natural(x) EXCEPT ![2][3] = ShortOf[h]]
FullHash(x, h) == [Natural(x) EXCEPT ![2][3] = h]

\* Mutant of ContentMatches: what has the name is the same IR.
SameBasename(x, src) == x[2][2] = src[2][2]
ContentMatches(x, src) == fs[x] = fs[src]
Free(x, src) == ~Exists(x) \/ ContentMatches(x, src)

\* Mutant of ChooseDest: there are two names, and the second is taken unread.
ChooseDestTwo(src, h) == IF Free(Natural(src), src) THEN Natural(src) ELSE Prefixed(src, h)

\* As the importing commands and as the migration choose it: free, or with the
\* content of the source; but the third name is taken unread.
ChooseDest(src, h) ==
    IF Free(Natural(src), src) THEN Natural(src)
    ELSE IF Free(Prefixed(src, h), src) THEN Prefixed(src, h) ELSE FullHash(src, h)
ChooseIrDest(src, h) == ChooseDest(src, h)

Scaffold(dest, h) == [irhash |-> h, wav |-> dest]
-----------------------------------------------------------------------------
(* The mapping.                                                            *)

\* Entries of the mapping of an older version are adopted once.
LoadMapping ==
    IF Exists(Mapping) THEN [of |-> fs[Mapping], dirty |-> FALSE, old |-> FALSE]
    ELSE [of |-> ReadOr(LegacyMapping, <<>>), dirty |-> FALSE, old |-> Exists(LegacyMapping)]

Entry(p, h) == IF h \in DOMAIN mem[p].of THEN mem[p].of[h] ELSE None
Bind(p, h, x) ==
    mem' = [mem EXCEPT ![p].of = Updated(@, h, x), ![p].dirty = TRUE]

SaveMapping(p) ==
    /\ At(p, "irsave")
    /\ Put(Mapping, mem[p].of)
    /\ Go(p, IF mem[p].old THEN Steps(<<"retire">>, Item(p)) ELSE <<>>)
    /\ UNCHANGED <<todo, mem, said, known, torn, bare, mishaps>>

Retire(p) ==
    /\ At(p, "retire")
    /\ fs' = Without({LegacyMapping}) /\ Go(p, <<>>)
    /\ UNCHANGED <<todo, mem, said, known, torn, bare, mishaps>>

Load(p) == mem' = [mem EXCEPT ![p] = LoadMapping]
-----------------------------------------------------------------------------
(* One WAV: copied into the library unless it is there, given a sidecar    *)
(* unless it has one, and bound.                                           *)

To(dest, h, r, ops) == [i \in DOMAIN ops |-> [op |-> ops[i], r |-> r, w |-> dest, h |-> h]]

ImportWav(p) ==
    LET s == Step(p)
        dest == IF InLibrary(s.w) THEN s.w ELSE ChooseDest(s.w, s.h)
    IN  /\ At(p, "import_wav")
        /\ IF Exists(dest)
           THEN UNCHANGED fs /\ Go(p, To(dest, s.h, s.r, <<"sidecar", s.then>>))
           ELSE /\ Put(dest, Torn)
                /\ Go(p, <<[op |-> "copywav", r |-> s.r, w |-> dest, c |-> fs[s.w]]>>
                         \o To(dest, s.h, s.r, <<"sidecar", s.then>>))
        /\ UNCHANGED <<todo, mem, said, known, torn, bare, mishaps>>

CopyWav(p) ==
    /\ At(p, "copywav")
    /\ Put(Step(p).w, Step(p).c) /\ Go(p, <<>>)
    /\ UNCHANGED <<todo, mem, said, known, torn, bare, mishaps>>

WriteSidecar(p) ==
    LET x == Sidecar(Step(p).w)
    IN  /\ At(p, "sidecar")
        /\ fs' = IF Exists(x) THEN fs ELSE Updated(fs, x, Scaffold(Step(p).w, Step(p).h))
        /\ Go(p, <<>>)
        /\ UNCHANGED <<todo, mem, said, known, torn, bare, mishaps>>

\* A hash bound to another path is a conflict, unless forced.
Register(p) ==
    LET s == Step(p)
    IN  /\ At(p, "register")
        /\ IF Entry(p, s.h) \notin {None, s.w} /\ ~s.r.force
           THEN Fail(p) /\ UNCHANGED mem
           ELSE Bind(p, s.h, s.w) /\ Go(p, <<>>) /\ UNCHANGED said
        /\ UNCHANGED <<fs, todo, known, torn, bare, mishaps>>

Rebind(p) ==
    /\ At(p, "rebind")
    /\ Bind(p, Step(p).h, Step(p).w) /\ Go(p, <<>>)
    /\ UNCHANGED <<fs, todo, said, known, torn, bare, mishaps>>
-----------------------------------------------------------------------------
(* register-irs, ir-scan and library ir-backfill.                          *)

Importing(r, w, h, then) == [op |-> "import_wav", r |-> r, w |-> w, h |-> h, then |-> then]
Binding(r, w, h) == [op |-> "register", r |-> r, w |-> w, h |-> h]

\* One item: a conflict ends the command before the mapping is saved.
RegisterIrs(p) ==
    LET c == Item(p)
        One(w) == IF c.copy THEN Importing(c, w, fs[w], "register")
                  ELSE Binding(c, w, fs[w])
    IN  /\ At(p, "register_irs")
        /\ Load(p)
        /\ Go(p, [i \in DOMAIN c.wavs |-> One(c.wavs[i])] \o Steps(<<"irsave">>, c))
        /\ UNCHANGED <<fs, todo, said, known, torn, bare, mishaps>>

\* An item per WAV; what fails is skipped, and the mapping saved.
IrScan(p) ==
    LET c == Item(p)
        Of(w) == [w |-> w, force |-> c.force]
        ScanSteps == [i \in DOMAIN c.wavs |-> [op |-> "scan", r |-> Of(c.wavs[i]), copy |-> c.copy]]
    IN  /\ At(p, "ir_scan")
        /\ Load(p)
        /\ Go(p, ScanSteps \o Steps(<<"irsave">>, c))
        /\ UNCHANGED <<fs, todo, said, known, torn, bare, mishaps>>

ScanOne(p) ==
    LET s == Step(p)
        h == fs[s.r.w]
        again == IF s.copy THEN Entry(p, h) # None ELSE Entry(p, h) = s.r.w
    IN  /\ At(p, "scan")
        /\ Go(p, IF ~s.r.force /\ again THEN <<>>
                 ELSE IF s.copy THEN <<Importing(s.r, s.r.w, h, "register")>>
                 ELSE <<Binding(s.r, s.r.w, h)>>)
        /\ UNCHANGED <<fs, todo, mem, said, known, torn, bare, mishaps>>

\* ir-scan --remove
Forget(p) ==
    LET c == Item(p)
        m == LoadMapping
        hits == {h \in DOMAIN m.of : m.of[h][2][2] = c.base}
    IN  /\ At(p, "forget")
        /\ IF Cardinality(hits) # 1 THEN Fail(p) /\ UNCHANGED mem
           ELSE /\ mem' = [mem EXCEPT ![p] =
                              [m EXCEPT !.of = [h \in DOMAIN m.of \ hits |-> m.of[h]]]]
                /\ Go(p, Steps(<<"irsave">>, c)) /\ UNCHANGED said
        /\ UNCHANGED <<fs, todo, known, torn, bare, mishaps>>

Complete(x) == InLibrary(x) /\ Exists(Sidecar(x))

\* An item per entry of the mapping that is not complete yet.
Backfill(p) ==
    LET m == LoadMapping
        left == SetToSeq({h \in DOMAIN m.of : ~Complete(m.of[h]) /\ Exists(m.of[h])})
    IN  /\ At(p, "backfill")
        /\ Load(p)
        /\ Go(p, [i \in DOMAIN left |-> Importing([h |-> left[i]], m.of[left[i]], left[i], "rebind")]
                 \o Steps(<<"savedirty">>, Item(p)))
        /\ UNCHANGED <<fs, todo, said, known, torn, bare, mishaps>>

\* ... which is saved only if an entry was changed.
SaveDirty(p) ==
    /\ At(p, "savedirty")
    /\ Go(p, IF mem[p].dirty THEN Steps(<<"irsave">>, Item(p)) ELSE <<>>)
    /\ UNCHANGED <<fs, todo, mem, said, known, torn, bare, mishaps>>
-----------------------------------------------------------------------------
(* The migration of an entry of the mapping: both the copy and its sidecar *)
(* must be there for the copy to be adopted.                               *)

LoadForMigration(p) ==
    /\ At(p, "irload")
    /\ Load(p) /\ Go(p, <<>>)
    /\ UNCHANGED <<fs, todo, said, known, torn, bare, mishaps>>

MigrateOneIr(p) ==
    LET r == Item(p)
        dest == ChooseIrDest(r.wav, r.hash)
        Adopt == IF Entry(p, r.hash) = dest THEN <<>> ELSE To(dest, r.hash, r, <<"rebind">>)
    IN  /\ At(p, "ir")
        /\ IF InLibrary(r.wav) THEN Go(p, <<>>) /\ UNCHANGED <<fs, said>>
           ELSE IF ~Exists(r.wav) THEN Fail(p) /\ UNCHANGED fs
           ELSE IF Exists(dest) /\ Exists(Sidecar(dest))
           THEN Go(p, Adopt) /\ UNCHANGED <<fs, said>>
           ELSE /\ Put(dest, Torn) /\ UNCHANGED said
                /\ Go(p, <<[op |-> "copywav", r |-> r, w |-> dest, c |-> fs[r.wav]]>>
                         \o To(dest, r.hash, r, <<"stub", "rebind">>))
        /\ UNCHANGED <<todo, mem, known, torn, bare, mishaps>>

WriteStub(p) ==
    /\ At(p, "stub")
    /\ Put(Sidecar(Step(p).w), Scaffold(Step(p).w, Step(p).h)) /\ Go(p, <<>>)
    /\ UNCHANGED <<todo, mem, said, known, torn, bare, mishaps>>
=============================================================================
