------------------------------- MODULE MCLibrary -------------------------------
(***************************************************************************)
(* Homes for LibraryVerbs and what is run on them: placing and generating  *)
(* tones, migrating, importing IRs, editing presets, each killed or failing *)
(* once at any step and run again.                                         *)
(***************************************************************************)
EXTENDS LibraryVerbs

\* Packs "Cab IRs" and "cab-irs" have one folder name; the hashes begin alike.
MCPackOf == ("Cab IRs" :> "cab-irs") @@ ("cab-irs" :> "cab-irs") @@ ("Cab_IRs" :> "cab-irs")
MCShortOf == [h \in {"h1", "h2", "h3"} |-> "short"]

\* Two amps, a reverb, a cab that plays an IR.
MCCategoryOf == ("amp" :> "amp") @@ ("lead" :> "amp") @@ ("rev" :> "reverb") @@ ("cab" :> "cab")
MCParamsOf == ("amp" :> {"drive", "bass"}) @@ ("lead" :> {"drive"}) @@ ("rev" :> {"mix"}) @@ ("cab" :> {"level"})
MCSwitches == {"FS1", "FS2"}
MCPedals == {"EXP1"}
-----------------------------------------------------------------------------
(* Recipes and bodies.                                                     *)

Plain == [value |-> 0, ctrl |-> None, snaps |-> None]
RecipePath(entries, in, out) == [blocks |-> entries, in |-> in, to |-> out, level |-> 0, raw |-> Plain]
Snap(off, params, out) == [off |-> off, params |-> params, out |-> out]
RecipeOf(paths, snaps) == [paths |-> paths, snaps |-> snaps, fs |-> {}, exp |-> {}, midi |-> {}, commands |-> {}]

\* Three blocks with a gap, two snapshots, a controller of each kind; FS2 sends a command.
Serial == [RecipeOf(<<RecipePath(<<Block("amp", 0, 1), Block("rev", 0, 2), [Block("cab", 0, 4) EXCEPT !.ir = "h1"]>>,
                                 "inst1", "foh"),
                      RecipePath(<<>>, "mic", "foh")>>,
                    <<Snap({<<1, 2>>}, {<<<<<<1, 1>>, "drive">>, 2>>}, {<<1, 1>>}), Snap({}, {}, {})>>)
           EXCEPT !.fs = {<<"FS1", <<<<1, 2>>, "on">>>>}, !.exp = {<<"EXP1", <<<<1, 1>>, "drive">>>>},
                  !.midi = {<<11, <<<<1, 2>>, "mix">>>>}, !.commands = {"FS2"}]

\* Two regions in parallel, one of them empty.
Parallel == RecipeOf(<<RecipePath(<<SplitEntry("split", 1), Block("amp", 0, 2), Block("rev", 1, 2), SplitEntry("join", 3),
                                    SplitEntry("split", 4), Block("lead", 1, 4), SplitEntry("join", 5)>>,
                                  "inst1", "foh"),
                       RecipePath(<<Block("rev", 0, None)>>, "inst1", "amp")>>, <<>>)

\* No snapshot is named in it; what is given is not one base and its changes.
Empty == RecipeOf(<<RecipePath(<<>>, "inst1", "foh")>>, <<>>)
Nested == RecipeOf(<<RecipePath(<<SplitEntry("split", 1)>>, "inst1", "foh")>>, <<>>)

NoBody == [flow |-> <<>>, named |-> None, valid |-> {}, active |-> 1, sources |-> {}, commands |-> {}, midi |-> {}]

\* A preset of the device: in its second snapshot, FS1 drives two blocks.
Imported ==
    LET over(v, w) == [value |-> w, ctrl |-> None, snaps |-> <<v, w>>]
        amp == [NewBlock("amp") EXCEPT !.on = over(TRUE, FALSE), !.params["drive"] = over(1, 2)]
        rev == [NewBlock("rev") EXCEPT !.params["mix"] = over(0, 1)]
        b == [flow |-> <<[in |-> "inst1", out |-> "foh", level |-> over(0, 1), cells |-> (2 :> amp) @@ (3 :> rev)]>>,
              named |-> 2, valid |-> {1, 2}, active |-> 2, sources |-> {}, commands |-> {}, midi |-> {}]
    IN  Wire(Wire(b, <<<<1, 2>>, "on">>, "FS1"), <<<<1, 3>>, "on">>, "FS1")

\* An old export: arrays with gaps, and a second snapshot that is not in use.
Legacy ==
    LET gaps(v, snaps) == [value |-> v, ctrl |-> None, snaps |-> snaps]
        amp == [NewBlock("amp") EXCEPT !.on = gaps(TRUE, <<None, FALSE>>), !.params["bass"] = gaps(0, <<0, None>>),
                                       !.params["drive"] = [gaps(1, <<2, None>>) EXCEPT !.ctrl = "EXP1"]]
        lead == [NewBlock("lead") EXCEPT !.params["drive"] = gaps(1, <<1, 2>>)]
    IN  [flow |-> <<[in |-> "inst1", out |-> "foh", level |-> Plain, cells |-> 1 :> amp],
                    [in |-> "mic", out |-> "foh", level |-> gaps(0, <<1, None>>), cells |-> 1 :> lead]>>,
         named |-> 1, valid |-> {1}, active |-> 1, sources |-> {"EXP1"}, commands |-> {}, midi |-> {}]
-----------------------------------------------------------------------------
(* Homes.                                                                  *)

Name(words, style) == [words |-> words, style |-> style]
File(tone, name, body) == [tone |-> tone, name |-> name, body |-> body]
PrefsOf(instruments, taps) == Prefs :> [instruments |-> instruments, taps |-> taps]
Plainly == PrefsOf({}, <<>>)

Song == [kind |-> "song", words |-> <<"artist", "song">>, style |-> "plain"]
SongName == Name(<<"artist", "song">>, "plain")
\* The same words, spelled otherwise: another name for the same slug.
Shouted == Name(<<"artist", "song">>, "loud")
MetaOf(id, keys, tags) ==
    [id |-> id, desc |-> None, tags |-> tags,
     variants |-> [k \in keys |-> [hsp |-> WithKey(id.words, k), from |-> None, notes |-> None]]]
InLibraryAlready == (Tone(<<"artist", "song">>) :> File("t1", SongName, NoBody))
                      @@ (Meta(<<"artist", "song">>) :> MetaOf(Song, {"generic"}, {}))
Source(words, tone, name) == <<"src", words>> :> File(tone, name, NoBody)

Only(commands) == [p |-> commands, q |-> <<>>]
Scene(files, commands) == [fs |-> files, todo |-> Only(commands), mishaps |-> 0]
Calm(files, commands) == [fs |-> files, todo |-> Only(commands), mishaps |-> Mishaps]

Command(verb, src, id, guitar, keep) == [verb |-> verb, src |-> src, id |-> id, guitar |-> guitar, keep |-> keep]
Here(words) == <<"src", words>>

\* Two files whose names give one slug, and a third.
Sources == Source(<<"one">>, "t1", SongName) @@ Source(<<"two">>, "t2", Shouted) @@ Source(<<"three">>, "t3", Name(<<"rig">>, "plain"))
             @@ (<<"md", <<"one">>>> :> "text")
ImportOne(words, id, guitar, keep) == Command("import", <<Here(words)>>, id, guitar, keep)
ImportAll(words) == Command("importdir", [i \in DOMAIN words |-> Here(words[i])], None, None, FALSE)
ForkOf(x, id, guitar) == Command("fork", <<x>>, id, guitar, TRUE)
GenerateAs(id, guitar, recipe) == [verb |-> "generate", tone |-> "t9", id |-> id, guitar |-> guitar, recipe |-> recipe]
GenerateAt(x, recipe) == [verb |-> "generateto", tone |-> "t8", id |-> Song, src |-> <<x>>, recipe |-> recipe]
NewGuitar == [verb |-> "addguitar", guitar |-> "strat"]

PlacingScripts ==
    {<<ImportOne(<<"one">>, Song, None, keep), ImportOne(<<"one">>, Song, None, keep)>> : keep \in BOOLEAN}
    \cup {<<ImportAll(<<<<"one">>, <<"three">>>>), ImportAll(<<<<"one">>, <<"three">>>>)>>,
          <<ImportAll(<<<<"one">>, <<"two">>>>), ImportOne(<<"two">>, None, None, TRUE)>>,
          <<NewGuitar, ImportOne(<<"three">>, Song, "strat", FALSE), ForkOf(Tone(<<"artist", "song", "strat">>), None, None)>>,
          <<GenerateAs(Song, None, Empty), GenerateAs(Song, None, Serial), GenerateAs(Song, None, Nested)>>,
          <<GenerateAt(<<"src", <<"new">>>>, Empty), ForkOf(<<"src", <<"new">>>>, Song, None), NewGuitar>>,
          <<GenerateAt(<<"src", <<"new">>>>, Nested), ImportOne(<<"one">>, Descriptor(Name(<<"new">>, "plain")), None, TRUE),
            GenerateAt(<<"src", <<"new">>>>, Serial)>>}
LibraryScripts ==
    {<<ForkOf(Tone(<<"artist", "song">>), None, "strat"), ForkOf(Tone(<<"artist", "song">>), Descriptor(Name(<<"rig">>, "plain")), None)>>,
     <<GenerateAs(Song, "strat", Empty), ImportOne(<<"one">>, Song, "strat", TRUE)>>,
     <<ImportOne(<<"two">>, None, None, FALSE), NewGuitar, NewGuitar>>}
PlacingScenes == {Scene(Plainly @@ Sources, s) : s \in PlacingScripts}
                   \cup {Scene(Plainly @@ Sources @@ InLibraryAlready, s) : s \in LibraryScripts}

\* Two commands at the same time, on the metadata of one tone.
Note(what, text) == [verb |-> "annotate", what |-> what, words |-> <<"artist", "song">>, key |-> "generic", text |-> text]
Tagging(add, remove) == [verb |-> "annotate", what |-> "tag", words |-> <<"artist", "song">>, add |-> add, remove |-> remove]
Live == Tagging({<<None, "live">>, <<"role", "lead">>}, {})
TogetherScenes ==
    {[fs |-> Plainly @@ InLibraryAlready, mishaps |-> 0, todo |-> [p |-> <<Live>>, q |-> <<other>>]] :
        other \in {Tagging({}, {<<"role", None>>, <<None, "live">>}), Note("doc", "text"), Note("notes", "text")}}
-----------------------------------------------------------------------------
(* Migration.                                                              *)

Listed(name, words) == [name |-> name, path |-> Here(words)]
Wav(folder, base) == <<"ext", <<folder, base>>>>
Adopted == LegacyMapping :> (("h1" :> Wav("Cab IRs", "v30")) @@ ("h2" :> Wav("cab-irs", "v30")))
Wavs == (Wav("Cab IRs", "v30") :> "h1") @@ (Wav("cab-irs", "v30") :> "h2") @@ (Wav("Cab_IRs", "v30") :> "h3")
Strat == Name(<<"artist", "song", "strat">>, "loud")
OldHome(tones, files) == PrefsOf({"strat"}, <<>>) @@ (Manifest :> tones) @@ files
MigrateRun(planned) == [verb |-> "migrate", planned |-> planned]
DryRunRun == [verb |-> "dryrun"]

OneTone == OldHome(<<Listed(Strat, <<"one">>)>>, Source(<<"one">>, "t1", Strat) @@ (<<"md", <<"one">>>> :> "text"))
InPlace == OldHome(<<[name |-> Strat, path |-> Tone(<<"artist", "song", "strat">>)]>>,
                   Tone(<<"artist", "song", "strat">>) :> File("t1", Strat, NoBody))
MigrationHomes ==
    {OneTone,
     OldHome(<<Listed(Name(<<"rig">>, "loud"), <<"one">>), Listed(Name(<<"rig">>, "plain"), <<"two">>),
               Listed(Name(<<"solo">>, "loud"), <<"three">>)>>,
             Source(<<"one">>, "t1", Name(<<"rig">>, "loud")) @@ Source(<<"two">>, "t2", Name(<<"rig">>, "plain"))
               @@ Source(<<"three">>, "t3", Name(<<"solo">>, "plain"))),
     OldHome(<<Listed(Shouted, <<"one">>)>>, Source(<<"one">>, "t2", Shouted) @@ InLibraryAlready),
     OldHome(<<>>, Adopted @@ Wavs), OldHome(<<>>, Adopted @@ (Wav("Cab IRs", "v30") :> "h1")),
     \* The metadata that it would join is of another tone.
     OldHome(<<Listed(Shouted, <<"one">>)>>,
             Source(<<"one">>, "t1", Shouted) @@ (Meta(<<"artist", "song">>) :> MetaOf(Song, {"strat"}, {}))
               @@ (Tone(<<"artist", "song", "strat">>) :> File("t2", Strat, NoBody))),
     \* A tone of the library itself, with or without metadata.
     InPlace, InPlace @@ (Meta(<<"artist", "song">>) :> MetaOf(Song, {"strat"}, {})),
     InPlace @@ (Meta(<<"artist", "song">>) :> MetaOf(Descriptor(Shouted), {"generic"}, {})),
     \* ... with a variant in the metadata of a name that is spelled otherwise.
     InPlace @@ (Meta(<<"artist", "song">>) :> MetaOf([Song EXCEPT !.style = "loud"], {"strat"}, {})),
     \* A file that is there already, and was not moved by the migration.
     OldHome(<<Listed(Strat, <<"gone">>), Listed(Name(<<"rig">>, "plain"), <<"gone">>)>>,
             (Tone(<<"artist", "song", "strat">>) :> File("t1", Strat, NoBody))
               @@ (Tone(<<"rig">>) :> File("t2", Name(<<"rig">>, "loud"), NoBody)))}
MigrationScenes ==
    {Scene(home, <<MigrateRun(FALSE), MigrateRun(FALSE)>>) : home \in MigrationHomes}
    \cup {Scene(home, <<DryRunRun, MigrateRun(TRUE), MigrateRun(TRUE)>>) : home \in MigrationHomes}
\* One tone, and the migration twice.
MCRerun == {Scene(OneTone, <<MigrateRun(FALSE), MigrateRun(FALSE)>>)}
-----------------------------------------------------------------------------
(* IRs.                                                                    *)

Registering(wavs, copy, force) == [verb |-> "register_irs", wavs |-> wavs, copy |-> copy, force |-> force]
Scanning(wavs, copy, force) == [verb |-> "ir_scan", wavs |-> wavs, copy |-> copy, force |-> force]
Forgetting == [verb |-> "forget", base |-> "v30"]
Backfilling == [verb |-> "backfill"]
ThreeWavs == <<Wav("Cab IRs", "v30"), Wav("cab-irs", "v30"), Wav("Cab_IRs", "v30")>>
\* The same IR twice.
Twin == Wav("cab-irs", "again") :> "h1"

IrScripts ==
    {<<Scanning(ThreeWavs, TRUE, force), Scanning(ThreeWavs, TRUE, force)>> : force \in BOOLEAN}
    \cup {<<Registering(<<ThreeWavs[1], Wav("cab-irs", "again")>>, copy, force), Forgetting>> : copy, force \in BOOLEAN}
    \cup {<<Scanning(ThreeWavs, FALSE, FALSE), Backfilling, Backfilling>>,
          <<Registering(ThreeWavs, TRUE, FALSE), Forgetting, Backfilling>>,
          <<Scanning(<<ThreeWavs[1], Wav("cab-irs", "again")>>, FALSE, FALSE), Forgetting, Backfilling>>}
IrScenes == {Scene(Plainly @@ Wavs @@ Twin, s) : s \in IrScripts}
              \cup {Scene(Plainly @@ Wavs @@ Adopted, <<Scanning(<<ThreeWavs[3]>>, TRUE, FALSE), Backfilling>>)}
-----------------------------------------------------------------------------
(* Edits.                                                                  *)

At11 == <<1, 1>>
At12 == <<1, 2>>
At13 == <<1, 3>>
OnCells(op, fields) == {[op |-> op, x |-> x] @@ f : x \in {At11, At12, At13}, f \in fields}
Edits ==
    OnCells("set_param", {[q |-> "drive", v |-> 1, s |-> s] : s \in {None, 1, 2}})
    \cup [op : {"set_param"}, x : {At12}, q : {"mix"}, v : {2}, s : {None, 2}]
    \cup [op : {"set_output"}, i : {1}, v : {2}, s : {None, 2}]
    \cup OnCells("set_enabled", {[on |-> FALSE, s |-> s] : s \in {None, 1, 2}})
    \cup [op : {"add_block"}, i : {1}, m : {"rev"}, x : {None, <<1, 0>>, At11, At12}]
    \cup OnCells("remove_block", {<<>>})
    \cup OnCells("swap_model", {[m |-> "lead"]})
    \cup [op : {"set_input"}, i : {1}, jack : {"mic"}]
    \cup [op : {"set_footswitch"}, src : MCSwitches, t : {<<At12, "on">>, <<At11, "drive">>, <<At12, "mix">>}]
    \cup [op : {"set_expression"}, src : MCPedals, ts : {{<<At11, "drive">>, <<At11, "bass">>}, {<<At12, "mix">>}}]
    \cup [op : {"remove_footswitch"}, src : MCSwitches, x : {None, At12}]
    \cup [op : {"remove_expression"}, src : MCPedals, x : {None}]

Edited == Tone(<<"artist", "song">>)
EditBy(ops) == [verb |-> "edit", at |-> Edited, ops |-> ops]
AnyEdit == EditBy(Edits)
PatchBy(ops) == [verb |-> "patch", at |-> Edited, ops |-> ops]
Normalizing == [verb |-> "normalize", files |-> <<Edited, Tone(<<"rig">>)>>, by |-> 1]
Retrofit == [verb |-> "usbtaps"]
BothTaps == ("guitar" :> "usb34") @@ ("mic" :> "usb56")
HomeOf(body, taps) == PrefsOf({}, taps) @@ (Edited :> File("t1", SongName, body)) @@ InLibraryAlready
                        @@ (Tone(<<"rig">>) :> File("t2", Name(<<"rig">>, "plain"), NoBody))
EditBodies == {Compose(Serial), Compose(Parallel), Imported, Legacy}

EditScenes ==
    {Calm(HomeOf(body, taps), <<AnyEdit, AnyEdit, AnyEdit>>) : body \in EditBodies, taps \in {<<>>, BothTaps}}
    \cup {Calm(HomeOf(body, BothTaps), <<Retrofit, AnyEdit, Normalizing>>) : body \in EditBodies}
    \cup {Scene(HomeOf(Compose(Serial), BothTaps),
                <<PatchBy(<<[op |-> "remove_block", x |-> At12], [op |-> "remove_block", x |-> At11]>>),
                  PatchBy(<<[op |-> "remove_block", x |-> At13], [op |-> "remove_block", x |-> At13]>>), Retrofit, Normalizing>>),
          Scene(HomeOf(Compose(Serial), <<>>), <<Retrofit, Normalizing>>)}

-----------------------------------------------------------------------------
(* Discovery.                                                              *)

Device(serial, ip, port) == [serial |-> serial, ip |-> ip, port |-> port]
Discovering(tiers, probe) == [verb |-> "discover", tiers |-> tiers, probe |-> probe]
ForgettingDevice(target) == [verb |-> "forgetdevice", target |-> target]
Lan == {Device(1, 11, None), Device(2, 12, 7)}
StaleRecord == Record(1) :> [ip |-> 12, port |-> 5, at |-> 1]

\* The devices change places or ports; one is on two interfaces; a VPN hides
\* the one that tells no serial; one is forgotten.
DiscoveryScripts ==
    {<<Discovering(<<Lan>>, FALSE), Discovering(<<{Device(1, 12, None), Device(2, 11, None)}>>, FALSE)>>,
     <<Discovering(<<{Device(1, 11, 7), Device(1, 13, 7)}, {Device(2, 14, None)}>>, TRUE), Discovering(<<Lan>>, TRUE)>>,
     <<Discovering(<<{Device(None, 15, None)}, Lan>>, TRUE), ForgettingDevice(<<"ip", 12>>), Discovering(<<{}, Lan>>, FALSE)>>,
     <<Discovering(<<Lan>>, FALSE), ForgettingDevice(<<"serial", 2>>), ForgettingDevice(<<"serial", 2>>)>>}
DiscoveryScenes == {Scene(Plainly, s) : s \in DiscoveryScripts} \cup {Scene(Plainly @@ StaleRecord, s) : s \in DiscoveryScripts}

MCScenes == PlacingScenes \cup TogetherScenes \cup MigrationScenes \cup IrScenes \cup EditScenes
              \cup DiscoveryScenes
=============================================================================
