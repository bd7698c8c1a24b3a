----------------------------- MODULE MCRestore -----------------------------
(* Instances of Backup and Restore for TLC.  The backup of a job has a, b  *)
(* and c, in that order; x is on the device only.                          *)
EXTENDS Backup, TLC

Saved(refs_) == [presets |-> {[name |-> n, content |-> 1] : n \in {"a", "b", "c"}}, refs |-> refs_]
Straight == {[name |-> "a", posi |-> 0], [name |-> "b", posi |-> 1], [name |-> "c", posi |-> 2]}
Twice == {[name |-> "a", posi |-> 0], [name |-> "b", posi |-> 1], [name |-> "b", posi |-> 3]}
AllJobs == {[presets |-> Saved(w).presets, refs |-> w, prune |-> pr] :
              w \in {Straight, Twice}, pr \in BOOLEAN}

Preset(cid, name, content) == [cid |-> cid, name |-> name, content |-> content]
Ref(cid, posi, rcid) == [cid |-> cid, posi |-> posi, rcid |-> rcid]

\* The presets 1 to 4 are a, b, c and x, but for what an instance says.
Presets == {Preset(1, "a", 1), Preset(2, "b", 1), Preset(3, "c", 1), Preset(4, "x", 0)}
On(presets, rows) == [pool |-> presets, refs |-> rows, made |-> 9]

Swapped == On(Presets, {Ref(5, 0, 2), Ref(6, 1, 1), Ref(7, 2, 3)})
FullCycle == On(Presets, {Ref(5, 0, 2), Ref(6, 1, 3), Ref(7, 2, 1), Ref(8, 3, 4)})
BlockedByX == On(Presets, {Ref(5, 0, 4), Ref(6, 1, 1), Ref(7, 3, 2)})
TwinsAndStale == On({Preset(1, "a", 0), Preset(2, "b", 1), Preset(3, "b", 1)},
                    {Ref(5, 1, 1), Ref(6, 0, 2), Ref(7, 3, 3)})
AllDevices == {Swapped, FullCycle, BlockedByX, TwinsAndStale}
-----------------------------------------------------------------------------
(* Backups.  "lead" and "Lead" differ by case; the name "le/ad" has the slug *)
(* of "le:ad".                                                              *)

MCSlugOf == ("a" :> "a") @@ ("lead" :> "lead") @@ ("Lead" :> "Lead") @@ ("le/ad" :> "le-ad") @@ ("le:ad" :> "le-ad")
MCCaseOf == ("a" :> "a") @@ ("lead" :> "lead") @@ ("Lead" :> "lead") @@ ("le/ad" :> "le/ad") @@ ("le:ad" :> "le:ad")
              @@ ("le-ad" :> "le-ad")

\* The content 1 plays the IR h; 2 and 3 play none.
MCIrOf == (0 :> {}) @@ (1 :> {"h"}) @@ (2 :> {}) @@ (3 :> {})
Holding(presets, rows, irs_) == [pool |-> presets, refs |-> rows, made |-> 9, irs |-> irs_]
Pair(n1, n2) == {Preset(1, n1, 1), Preset(2, n2, 2)}

MCScenes ==
    {\* A preset is edited and another deleted, with the IR.
     <<Holding(Pair("a", "lead"), {Ref(5, 0, 1)}, {"h"}), Holding({Preset(2, "lead", 3)}, {Ref(6, 2, 2)}, {})>>,
     \* A slug that one name has, then two.
     <<Holding({Preset(1, "le/ad", 1)}, {}, {"h"}), Holding(Pair("le/ad", "le:ad"), {Ref(5, 0, 2)}, {"h"})>>,
     \* Two of one name, in the other order.
     <<Holding(Pair("a", "a"), {}, {"h"}), Holding({Preset(1, "a", 2), Preset(2, "a", 1)}, {}, {"h"})>>,
     \* An IR that is gone, or is not listed.
     <<Holding(Pair("lead", "Lead"), {Ref(5, 1, 2)}, {"h"}), Holding(Pair("lead", "Lead"), {Ref(5, 1, 2)}, {})>>}

\* The preset "Lead" is renamed "lead".
MCRenamed == {<<Holding({Preset(1, "Lead", 1)}, {}, {"h"}), Holding({Preset(1, "lead", 1)}, {}, {"h"})>>}
NoJobs == {}

ASSUME Consistent /\ CaseRespected
=============================================================================
