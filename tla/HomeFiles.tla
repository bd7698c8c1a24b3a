------------------------------ MODULE HomeFiles ------------------------------
(***************************************************************************)
(* The files of ~/.helixgen and the ways the commands write them.  A       *)
(* command is a list of steps; between two of them it may be killed, or an *)
(* error of the file system may end the item it was working on.            *)
(*                                                                         *)
(* A path is <<kind, words>>: "src", "ext" and "md" are files of the user, *)
(* "tone" and "meta" are library/tones/*.hsp and *.json, "wav" and "side"  *)
(* are library/irs/ and its sidecars.  A file being written in place, or   *)
(* copied halfway, holds Torn.                                             *)
(***************************************************************************)
EXTENDS UsbTaps

CONSTANTS Procs,     \* commands that may run at the same time
          Scenes,    \* what is on disk at first, and what the user will run
          Mishaps,   \* bound: kills and file-system errors
          Torn

VARIABLES fs,        \* path -> content, of the files that exist
          todo,      \* the commands each user has still to run
          task,      \* the steps that the command running has still to do
          mem,       \* the IR mapping in the memory of a command
          said,      \* what the command has reported of each item
          known,     \* ghost: the tones that exist
          torn,      \* ghost: tones whose writer died while rewriting them
          bare,      \* ghost: slugs put in place without their metadata
          mishaps

vars == <<fs, todo, task, mem, said, known, torn, bare, mishaps>>

Tone(slug) == <<"tone", slug>>
Meta(logical) == <<"meta", logical>>
Prefs == <<"prefs", <<>>>>
Manifest == <<"manifest", <<>>>>
PlanFile == <<"plan", <<>>>>
Mapping == <<"mapping", <<>>>>
LegacyMapping == <<"legacy", <<>>>>
Guitar(g) == <<"guitar", <<g>>>>

Exists(x) == x \in DOMAIN fs
ReadOr(x, other) == IF Exists(x) THEN fs[x] ELSE other
Updated(f, x, c) == [y \in DOMAIN f \cup {x} |-> IF y = x THEN c ELSE f[y]]
Put(x, c) == fs' = Updated(fs, x, c)
Without(gone) == [x \in DOMAIN fs \ gone |-> fs[x]]

\* read_hsp raises when there is no file, or not all of it.
Readable(x) == Exists(x) /\ fs[x] # Torn

\* The `.hsp` files, and those of the library that can be parsed.
HspFiles == {x \in DOMAIN fs : x[1] \in {"src", "tone"} /\ fs[x] # Torn}
LibraryTones == {x \in HspFiles : x[1] = "tone"}
-----------------------------------------------------------------------------
(* Steps.  A step has an operation `op` and the item `r` it is done for.   *)

At(p, op) == task[p] # <<>> /\ Head(task[p]).op = op
Step(p) == Head(task[p])
Item(p) == Step(p).r
Steps(ops, r) == [i \in DOMAIN ops |-> [op |-> ops[i], r |-> r]]

Go(p, more) == task' = [task EXCEPT ![p] = more \o Tail(@)]
Report(p, how, r) == said' = [said EXCEPT ![p] = @ \cup {[how |-> how, r |-> r]}]

\* The exception ends the item: what is left of it, up to the next, is not done.
AfterItem(steps) ==
    LET others == {i \in DOMAIN steps : steps[i].r # Head(steps).r}
    IN  IF others = {} THEN <<>> ELSE SubSeq(steps, Min(others), Len(steps))

Fail(p) ==
    /\ task' = [task EXCEPT ![p] = AfterItem(@)]
    /\ Report(p, "error", Item(p))

Tell(p) ==
    /\ At(p, "tell")
    /\ Go(p, <<>>) /\ Report(p, Item(p).how, Item(p))
    /\ UNCHANGED <<fs, todo, mem, known, torn, bare, mishaps>>

\* Path.write_bytes: the file is truncated, then written.
WriteBytes(p, x, c, r, more) ==
    /\ Put(x, Torn)
    /\ Go(p, <<[op |-> "write", r |-> r, at |-> x, c |-> c]>> \o more)

\* write_hsp: every preset written gets the USB taps of the preferences.
Taps == fs[Prefs].taps
WriteHsp(p, x, c, r, more) ==
    WriteBytes(p, x, [c EXCEPT !.body = ApplyPreference(@, Taps)], r, more)

Written(p) ==
    /\ At(p, "write")
    /\ Put(Step(p).at, Step(p).c)
    /\ known' = known \cup {Step(p).c.tone}
    /\ Go(p, <<>>)
    /\ UNCHANGED <<todo, mem, said, torn, bare, mishaps>>
-----------------------------------------------------------------------------
(* A metadata file is written to a temporary file and renamed.             *)

SharedTmp(p, logical) == <<"tmp", logical, "any">>
TmpOf(p, logical) == <<"tmp", logical, p>>

SaveSteps(r, m) == <<[op |-> "tmp", r |-> r, m |-> m]>>

SaveTmp(p) ==
    /\ At(p, "tmp")
    /\ Put(TmpOf(p, Step(p).m.id.words), Torn)
    /\ Go(p, <<[Step(p) EXCEPT !.op = "fill"], [Step(p) EXCEPT !.op = "publish"]>>)
    /\ UNCHANGED <<todo, mem, said, known, torn, bare, mishaps>>

FillTmp(p) ==
    /\ At(p, "fill")
    /\ Put(TmpOf(p, Step(p).m.id.words), Step(p).m)
    /\ Go(p, <<>>)
    /\ UNCHANGED <<todo, mem, said, known, torn, bare, mishaps>>

Publish(p) ==
    LET logical == Step(p).m.id.words
        tmp == TmpOf(p, logical)
    IN  /\ At(p, "publish")
        /\ IF Exists(tmp)
           THEN /\ fs' = Updated(Without({tmp}), Meta(logical), fs[tmp]) /\ Go(p, <<>>) /\ UNCHANGED said
                /\ bare' = bare \ {s \in bare : "slug" \in DOMAIN Item(p) /\ s = Item(p).slug}
           ELSE Fail(p) /\ UNCHANGED <<fs, bare>>
        /\ UNCHANGED <<todo, mem, known, torn, mishaps>>
=============================================================================
