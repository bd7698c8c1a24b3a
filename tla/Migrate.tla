------------------------------- MODULE Migrate -------------------------------
(***************************************************************************)
(* library migrate: the tones listed in the manifest of an older version   *)
(* are moved into the library, the user's instruments become guitar        *)
(* profiles, and the WAVs of the mapping are copied into the library.      *)
(* --dry-run prints the plan, --plan executes one printed before.          *)
(***************************************************************************)
EXTENDS ToneLibrary, IrLibrary

\* "artist - song - guitar" or "descriptor - guitar", when the last part is an
\* instrument of the preferences; else all of the name is the descriptor.
InferIdentity(name, labels) ==
    LET parts == name.words
        rest == Front(parts)
        kind == IF Len(rest) = 2 THEN "song" ELSE "desc"
    IN  IF Len(parts) >= 2 /\ Last(parts) \in labels
        THEN [id |-> [kind |-> kind, words |-> rest, style |-> "plain"], key |-> Last(parts)]
        ELSE [id |-> Descriptor(name), key |-> "generic"]

PlanMigration ==
    LET labels == fs[Prefs].instruments
        listed == ReadOr(Manifest, <<>>)
        irs == LoadMapping.of
        hashes == SetToSeq(DOMAIN irs)
        Planned(e) == LET who == InferIdentity(e.name, labels)
                      IN  Placing("moved", e.path, e.name, who.id, who.key, Folded(e.path))
    IN  [tones |-> [i \in DOMAIN listed |-> Planned(listed[i])],
         instruments |-> labels,
         irs |-> [i \in DOMAIN hashes |-> [hash |-> hashes[i], wav |-> irs[hashes[i]]]]]

DryRun(p) ==
    /\ At(p, "dryrun")
    /\ Put(PlanFile, PlanMigration) /\ Go(p, <<>>)
    /\ UNCHANGED <<todo, mem, said, known, torn, bare, mishaps>>

\* Two tones of different names for one slug: neither is moved.
Colliding(tones, i) ==
    \E j \in DOMAIN tones : tones[j].slug = tones[i].slug /\ tones[j].old # tones[i].old

MigrateTones(tones) ==
    FlattenSeq([i \in DOMAIN tones |->
        IF Colliding(tones, i) THEN <<>> ELSE <<[op |-> "migrate_tone", r |-> tones[i]]>>])

RunMigration(p) ==
    LET c == Item(p)
        plan == IF c.planned THEN fs[PlanFile] ELSE PlanMigration
        new == SetToSeq(plan.instruments)
    IN  /\ At(p, "migrate")
        /\ IF c.planned /\ ~Exists(PlanFile) THEN Fail(p)
           ELSE /\ UNCHANGED said
                /\ Go(p, [i \in DOMAIN new |-> [op |-> "seed", r |-> [guitar |-> new[i]]]]
                         \o Steps(<<"strip">>, c) \o MigrateTones(plan.tones)
                         \o Steps(<<"irload">>, c)
                         \o [i \in DOMAIN plan.irs |-> [op |-> "ir", r |-> plan.irs[i]]]
                         \o Steps(<<"savedirty">>, c))
        /\ UNCHANGED <<fs, todo, mem, known, torn, bare, mishaps>>

\* A guitar profile is made of each instrument that has none ...
MigrateInstruments(p) ==
    /\ At(p, "seed")
    /\ SaveProfile(Item(p).guitar) /\ Go(p, <<>>)
    /\ UNCHANGED <<todo, mem, said, known, torn, bare, mishaps>>

\* ... and the instruments are taken out of the preferences.
StripPrefs(p) ==
    /\ At(p, "strip")
    /\ Put(Prefs, [fs[Prefs] EXCEPT !.instruments = {}]) /\ Go(p, <<>>)
    /\ UNCHANGED <<todo, mem, said, known, torn, bare, mishaps>>

DestIdentifiesAs(slug, names) ==
    /\ Exists(Tone(slug)) /\ fs[Tone(slug)] # Torn
    /\ fs[Tone(slug)].name \in names
IsRegisteredAt(r) == DestIdentifiesAs(r.slug, {r.name})

MigrateOneTone(p) ==
    LET r == Item(p)
        arrived == r.src = Tone(r.slug) \/ (~Exists(r.src) /\ DestIdentifiesAs(r.slug, {r.old, r.name}))
    IN  /\ At(p, "migrate_tone")
        /\ IF IsRegisteredAt(r) THEN Go(p, <<>>) /\ Report(p, "skipped", r)
           ELSE IF Exists(Tone(r.slug)) /\ arrived
           THEN Go(p, Steps(<<"heal", "heal_meta", "tell">>, [r EXCEPT !.how = "healed"])) /\ UNCHANGED said
           ELSE IF Exists(Tone(r.slug)) \/ ~Exists(r.src) THEN Fail(p)
           ELSE Go(p, <<PlacingStep(r)>>) /\ UNCHANGED said
        /\ UNCHANGED <<fs, todo, mem, known, torn, bare, mishaps>>

\* A tone found at its destination is given its name, and its metadata.
Heal(p) ==
    LET r == Item(p)
        x == Tone(r.slug)
    IN  /\ At(p, "heal")
        /\ IF ~Readable(x) THEN Fail(p) /\ UNCHANGED fs
           ELSE WriteHsp(p, x, [fs[x] EXCEPT !.name = r.name], r, <<>>) /\ UNCHANGED said
        /\ UNCHANGED <<todo, mem, known, torn, bare, mishaps>>

HealMeta(p) ==
    LET r == Item(p)
        meta == ReadOr(Meta(r.id.words), None)
        m == Extended(meta, r)
        WriteUp == IF m.desc = None THEN WithWriteUp(m, r) ELSE m
    IN  /\ At(p, "heal_meta")
        /\ IF meta # None /\ r.key \in DOMAIN meta.variants THEN Go(p, <<>>) /\ UNCHANGED <<said, bare>>
           ELSE IF OtherIdentity(r) THEN Fail(p) /\ bare' = bare \cup {r.slug}
           ELSE Saved(p, WriteUp) /\ UNCHANGED bare
        /\ UNCHANGED <<fs, todo, mem, known, torn, mishaps>>
=============================================================================
