----------------------------- MODULE ToneLibrary -----------------------------
(***************************************************************************)
(* The commands that put tones into the library and keep what it says of   *)
(* them: generate, library import, fork and migrate, tag and doc.          *)
(*                                                                         *)
(* A name is a list of words and the way it is spelled: "plain" is how     *)
(* this program joins the parts of a name.  An identity is an artist and a *)
(* song (kind "song"), or a descriptor.                                    *)
(***************************************************************************)
EXTENDS HomeFiles, Recipe

Guitars == {x[2][1] : x \in {y \in DOMAIN fs : y[1] = "guitar"}}

WithKey(words, key) == IF key = "generic" THEN words ELSE Append(words, key)
DisplayName(id, key) == [words |-> WithKey(id.words, key), style |-> id.style]
VariantSlug(logical, key) == WithKey(logical, key)
Descriptor(name) == [kind |-> "desc", words |-> name.words, style |-> name.style]

\* The write-up next to a file, if there is one.
Folded(src) == IF Exists(<<"md", src[2]>>) THEN src[2] ELSE None

\* What is to be placed: from where, as what, and what to say when it is.
Placing(how, src, old, id, key, desc) ==
    [how |-> how, src |-> src, old |-> old, id |-> id, key |-> key,
     name |-> DisplayName(id, key), slug |-> VariantSlug(id.words, key),
     desc |-> desc, from |-> None]

\* An explicit --guitar must name a profile, once there are any.
KnownGuitar(label) == Guitars = {} \/ label \in Guitars
KeyOf(label) == IF label = None THEN "generic" ELSE label

\* The name in a file; its stem when the file cannot be read.
NameIn(x) == IF Exists(x) /\ fs[x] # Torn THEN fs[x].name
             ELSE [words |-> x[2], style |-> "plain"]

\* The metadata that an item would join is of another tone.
OtherSlug(r) == Exists(Meta(r.id.words)) /\ fs[Meta(r.id.words)].id.words # r.id.words
OtherIdentity(r) == Exists(Meta(r.id.words)) /\ fs[Meta(r.id.words)].id # r.id

ImportCollides(r) ==
    \/ Exists(Tone(r.slug))
    \/ \E x \in LibraryTones : fs[x].name = r.name
-----------------------------------------------------------------------------
(* Placing one tone, for import, fork and migrate.                         *)

PlacingStep(r) == [op |-> "place", r |-> r]

DataSafePlace(p) ==
    /\ At(p, "place")
    /\ IF Exists(Tone(Item(p).slug)) \/ ~Exists(Item(p).src)
       THEN Fail(p) /\ UNCHANGED fs
       ELSE /\ Put(Tone(Item(p).slug), Torn) /\ UNCHANGED said
            /\ Go(p, Steps(<<"copied", "verify", "rename", "upsert", "tell">>, Item(p)))
    /\ UNCHANGED <<todo, mem, known, torn, bare, mishaps>>

\* The copy may come out short without an error.
Copied(p) ==
    /\ At(p, "copied")
    /\ \/ Put(Tone(Item(p).slug), fs[Item(p).src]) /\ UNCHANGED mishaps
       \/ mishaps < Mishaps /\ mishaps' = mishaps + 1 /\ UNCHANGED fs
    /\ Go(p, <<>>)
    /\ UNCHANGED <<todo, mem, said, known, torn, bare>>

Moves(r) == r.how \in {"moved", "imported"}

VerifyLate(p) ==
    LET r == Item(p)
    IN  /\ At(p, "verify")
        /\ fs' = IF Moves(r) THEN Without({r.src}) ELSE fs
        /\ Go(p, <<>>)
        /\ UNCHANGED <<todo, mem, said, known, torn, bare, mishaps>>

Verify(p) ==
    LET r == Item(p)
    IN  /\ At(p, "verify")
        /\ IF fs[Tone(r.slug)] # fs[r.src]
           THEN fs' = Without({Tone(r.slug)}) /\ Fail(p)
           ELSE /\ fs' = IF Moves(r) THEN Without({r.src}) ELSE fs
                /\ Go(p, <<>>) /\ UNCHANGED said
        /\ UNCHANGED <<todo, mem, known, torn, bare, mishaps>>

Rename(p) ==
    LET r == Item(p)
        x == Tone(r.slug)
    IN  /\ At(p, "rename")
        /\ IF ~Readable(x) THEN Fail(p) /\ UNCHANGED fs
           ELSE WriteHsp(p, x, [fs[x] EXCEPT !.name = r.name], r, <<>>) /\ UNCHANGED said
        /\ UNCHANGED <<todo, mem, known, torn, bare, mishaps>>

\* upsert_variant: the variant is added to the metadata, or replaced.
Extended(meta, r) ==
    LET old == IF meta # None THEN meta
               ELSE [id |-> r.id, variants |-> <<>>, desc |-> None, tags |-> {}]
        variant == [hsp |-> r.slug, from |-> r.from, notes |-> r.from]
    IN  [old EXCEPT !.variants = Updated(@, r.key, variant)]

WithWriteUp(meta, r) == IF r.desc = None THEN meta ELSE [meta EXCEPT !.desc = r.desc]

Saved(p, m) == Go(p, SaveSteps(Item(p), m)) /\ UNCHANGED said

\* The tone is in place by now, whatever becomes of its metadata.
UpsertVariant(p) ==
    LET r == Item(p)
        meta == ReadOr(Meta(r.id.words), None)
    IN  /\ At(p, "upsert")
        /\ IF OtherIdentity(r)
           THEN Fail(p) /\ bare' = bare \cup {r.slug}
           ELSE Saved(p, WithWriteUp(Extended(meta, r), r)) /\ UNCHANGED bare
        /\ UNCHANGED <<fs, todo, mem, known, torn, mishaps>>
-----------------------------------------------------------------------------
(* library import and fork.                                                *)

Resolved(c, src, name) ==
    Placing(IF c.keep THEN "copied" ELSE "imported", src, None,
             IF c.id = None THEN Descriptor(name) ELSE c.id, KeyOf(c.guitar),
             Folded(src))

Import(p) ==
    LET c == Item(p)
        src == c.src[1]
        r == Resolved(c, src, NameIn(src))
    IN  /\ At(p, "import")
        /\ IF \/ c.guitar # None /\ ~KnownGuitar(c.guitar)
              \/ OtherIdentity(r) \/ ImportCollides(r)
           THEN Fail(p)
           ELSE Go(p, <<PlacingStep(r)>>) /\ UNCHANGED said
        /\ UNCHANGED <<fs, todo, mem, known, torn, bare, mishaps>>

\* All of the batch is looked at before any of it is placed.
BatchCollides(items) ==
    \E i \in DOMAIN items :
        \/ ImportCollides(items[i])
        \/ \E j \in DOMAIN items \ {i} : items[j].slug = items[i].slug

ImportDirectory(p) ==
    LET c == Item(p)
        found == FlattenSeq([i \in DOMAIN c.src |-> IF Exists(c.src[i]) THEN <<c.src[i]>> ELSE <<>>])
        items == [i \in DOMAIN found |-> Resolved(c, found[i], NameIn(found[i]))]
        Refused == \/ c.guitar # None /\ ~KnownGuitar(c.guitar)
                   \/ \E i \in DOMAIN items : OtherIdentity(items[i])
                   \/ BatchCollides(items) \/ found = <<>>
    IN  /\ At(p, "importdir")
        /\ IF Refused THEN Fail(p)
           ELSE Go(p, [i \in DOMAIN items |-> PlacingStep(items[i])]) /\ UNCHANGED said
        /\ UNCHANGED <<fs, todo, mem, known, torn, bare, mishaps>>

\* The metadata and the variant that a file of the library belongs to.
VariantsOf(x) ==
    UNION {{<<m, k>> : k \in {j \in DOMAIN fs[m].variants : Tone(fs[m].variants[j].hsp) = x}} :
               m \in {y \in DOMAIN fs : y[1] = "meta"}}

Fork(p) ==
    LET c == Item(p)
        of == VariantsOf(c.src[1])
        from == CHOOSE v \in of : TRUE
        key == IF c.guitar # None THEN c.guitar ELSE IF of # {} THEN from[2] ELSE "generic"
        id == IF c.id # None THEN c.id ELSE fs[from[1]].id
        desc == IF of # {} /\ ~Exists(Meta(id.words)) THEN fs[from[1]].desc ELSE None
        r == [Placing("forked", c.src[1], None, id, key, desc) EXCEPT !.from = c.src[1][2]]
        Refused == \/ ~Exists(c.src[1]) \/ (c.id = None /\ of = {})
                   \/ key # "generic" /\ ~KnownGuitar(key)
                   \/ OtherIdentity(r) \/ ImportCollides(r)
    IN  /\ At(p, "fork")
        /\ IF Refused THEN Fail(p) ELSE Go(p, <<PlacingStep(r)>>) /\ UNCHANGED said
        /\ UNCHANGED <<fs, todo, mem, known, torn, bare, mishaps>>
-----------------------------------------------------------------------------
(* generate.  The metadata is read before the preset is written.           *)

NewTone(c, name) == [tone |-> c.tone, name |-> name, body |-> Compose(c.recipe)]

Generate(p) ==
    LET c == Item(p)
        r == Placing("generated", None, None, c.id, KeyOf(c.guitar), None)
        meta == ReadOr(Meta(c.id.words), None)
        Refused == \/ c.guitar # None /\ ~KnownGuitar(c.guitar)
                   \/ Exists(Tone(r.slug)) \/ OtherIdentity(r) \/ Compose(c.recipe) = None
        after == SaveSteps(r, Extended(meta, r)) \o Steps(<<"tell">>, r)
    IN  /\ At(p, "generate")
        /\ IF Refused THEN Fail(p) /\ UNCHANGED fs
           ELSE WriteHsp(p, Tone(r.slug), NewTone(c, r.name), r, after) /\ UNCHANGED said
        /\ UNCHANGED <<todo, mem, known, torn, bare, mishaps>>

\* generate -o: the preset goes where it is told, and a copy to the library.
GenerateTo(p) ==
    LET c == Item(p)
        new == NewTone(c, [words |-> c.id.words, style |-> "plain"])
    IN  /\ At(p, "generateto")
        /\ IF new.body = None THEN Fail(p) /\ UNCHANGED fs
           ELSE WriteHsp(p, c.src[1], new, c, Steps(<<"autoregister">>, c)) /\ UNCHANGED said
        /\ UNCHANGED <<todo, mem, known, torn, bare, mishaps>>

AutoRegister(p) ==
    LET c == Item(p)
        dest == Tone(c.src[1][2])
    IN  /\ At(p, "autoregister")
        /\ IF Exists(dest) THEN Go(p, <<>>) /\ UNCHANGED <<fs, bare>>
           ELSE WriteBytes(p, dest, fs[c.src[1]], c, <<>>) /\ bare' = bare \cup {dest[2]}
        /\ UNCHANGED <<todo, mem, said, known, torn, mishaps>>
-----------------------------------------------------------------------------
(* tag, doc, doc --variant and the record that device normalize keeps.     *)

\* A tag is <<key, value>>, its key None when it is a bare word; the query
\* <<key, None>> is for any value.  What is removed goes before what is added.
TagMatches(stored, query) == stored[1] = query[1] /\ query[2] \in {None, stored[2]}
ApplyTagEdits(tags, add, remove) ==
    {t \in tags : ~\E q \in remove : TagMatches(t, q)} \cup {t \in add : t[2] # None}

Annotated(meta, c) ==
    CASE c.what = "tag" -> [meta EXCEPT !.tags = ApplyTagEdits(@, c.add, c.remove)]
      [] c.what = "doc" -> [meta EXCEPT !.desc = c.text]
      [] c.what = "notes" -> [meta EXCEPT !.variants[c.key].notes = c.text]

Annotate(p) ==
    LET c == Item(p)
    IN  /\ At(p, "annotate")
        /\ IF \/ ~Exists(Meta(c.words))
              \/ c.what = "notes" /\ c.key \notin DOMAIN fs[Meta(c.words)].variants
           THEN Fail(p)
           ELSE Saved(p, Annotated(fs[Meta(c.words)], c))
        /\ UNCHANGED <<fs, todo, mem, known, torn, bare, mishaps>>

\* A profile is written aside and renamed; nothing else writes to its names.
SaveProfile(g) == Put(Guitar(g), TRUE)

AddGuitar(p) ==
    LET c == Item(p)
    IN  /\ At(p, "addguitar")
        /\ IF c.guitar \in Guitars THEN Fail(p) /\ UNCHANGED fs
           ELSE SaveProfile(c.guitar) /\ Go(p, <<>>) /\ UNCHANGED said
        /\ UNCHANGED <<todo, mem, known, torn, bare, mishaps>>
=============================================================================
