------------------------------- MODULE MCContent -------------------------------
(***************************************************************************)
(* Two devices for ContentVerbs, with four IRs, of which h1 and h4 have WAVs *)
(* of one name, and two setlists; every command, and some of them twice.    *)
(***************************************************************************)
EXTENDS ContentVerbs

Preset(cid, name, uses) == [cid |-> cid, name |-> name, rev |-> 1, uses |-> uses]
Setlist(cid, name) == [cid |-> cid, name |-> name]
Reference(cid, list, posi, rcid) == [cid |-> cid, list |-> list, posi |-> posi, rcid |-> rcid]
Stems == [h1 |-> "s1", h2 |-> "s2", h3 |-> "s3", h4 |-> "s1"]
Irs(rows, listed, stored) ==
    [rows |-> rows, listed |-> listed, names |-> [h \in rows |-> Stems[h]],
     files |-> [n \in {Stems[h] : h \in stored} |-> CHOOSE h \in stored : Stems[h] = n]]

\* A setlist with a gap, one with a preset that it shares with the first, IRs of
\* which h2 is registered but not listed yet and h3 is wedged.
Gapped == [pool |-> {Preset(1, "a", {"h1"}), Preset(2, "b", {}), Preset(3, "d", {})},
           lists |-> {Setlist(4, "L"), Setlist(5, "M")},
           refs |-> {Reference(6, 4, 0, 1), Reference(7, 4, 2, 2), Reference(8, 5, 0, 1)},
           made |-> 8, irs |-> Irs({"h1", "h2"}, {"h1"}, {"h1", "h2", "h3"})]

\* A full setlist with the same preset twice, an empty one and two namesakes.
Full == [pool |-> {Preset(1, "a", {}), Preset(2, "b", {"h2"}), Preset(3, "b", {})},
         lists |-> {Setlist(4, "L"), Setlist(5, "M")},
         refs |-> {Reference(6, 4, 0, 1), Reference(7, 4, 1, 2), Reference(8, 4, 2, 1)},
         made |-> 8, irs |-> Irs({"h1", "h2"}, {"h1", "h2"}, {"h1", "h2"})]

MCDevices == {Gapped, Full}

Slot(name, decodes) == [name |-> name, rev |-> 2, decodes |-> decodes]
Named3 == {"a", "b", "n"}
MCCopy(name, list, pos, uses) == [verb |-> "copy", name |-> name, cid |-> None, list |-> list,
                                  pos |-> pos, rev |-> 2, uses |-> uses]
Prune1(yes, force) == [verb |-> "prune", yes |-> yes, force |-> force, buffer |-> {},
                       local |-> {"h2"}]

Once ==
    [verb : {"setlist create", "setlist delete"}, list : {"L", "N"}]
    \cup [verb : {"setlist rename"}, list : {"L"}, name : {"M", "N"}]
    \cup [verb : {"setlist duplicate"}, src : {"L"}, list : {"M", "N"}]
    \cup {[verb |-> "mirror", list |-> "L", rcids |-> rcids] : rcids \in {<<2, 1>>, <<1, 2, 3>>}}
    \cup {[verb |-> "import-hss", list |-> list, slots |-> <<Slot("x", TRUE), Slot("y", d)>>] :
            list \in {"L", "N"}, d \in BOOLEAN}
    \cup [verb : {"create"}, cid : {2, 9}, list : {"L", "user"}, pos : {1}, name : {"b1"}]
    \cup [verb : {"rename"}, cid : {1}, name : {"n"}]
    \cup [verb : {"delete"}, cid : {1, 7}, list : {"L", "user"}]
    \cup [verb : {"reorder", "move"}, cid : {None, 7}, name : {"a", "b"}, list : {"L"}, to : 0..3]
    \cup [verb : {"rm"}, cid : {None, 6}, name : Named3, list : {"L"}, pool : BOOLEAN]
    \cup [verb : {"save", "push"}, name : {"n"}, rev : {2}, list : {"L", "user"}, pos : {1}]
    \cup [verb : {"push-ir"}, hash : {"h2", "h3", "h4"}]
    \cup [verb : {"delete-ir"}, hash : {"h1", "h2", "h3"}, force : BOOLEAN]
    \cup {Prune1(yes, force) : yes, force \in BOOLEAN}

Twice == {MCCopy(name, "L", pos, {"h2", "h3"}) : name \in Named3, pos \in {None, 1, 2}}
           \cup {MCCopy("n", "user", None, {})}

MCScripts ==
    {<<x>> : x \in Once} \cup {<<x, x>> : x \in Twice}
      \cup {<<[verb |-> "rename-ir", hash |-> "h1", name |-> name],
              [verb |-> "delete-ir", hash |-> "h1", force |-> FALSE]>> : name \in {"s2", "n"}}
      \cup {<<[verb |-> "push-ir", hash |-> "h4"],
              [verb |-> "delete-ir", hash |-> h, force |-> FALSE]>> : h \in {"h1", "h4"}}
=============================================================================
