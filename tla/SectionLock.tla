---------------------------- MODULE SectionLock ----------------------------
(***************************************************************************)
(* What the acquisition meta-lock of src/helixgen/locks.py promises: a     *)
(* mutual-exclusion lock over the scan -> create -> verify section of      *)
(* `acquire`, whose holder may be killed.  A dead holder's grip may be     *)
(* reclaimed; a living one keeps it for as long as it is inside.  MetaLock *)
(* implements this with lock files; LeaseAcquire uses it.                  *)
(***************************************************************************)
CONSTANTS Proc,        \* the helixgen processes on this machine
          NoProc       \* "nobody"

VARIABLES holder,      \* who has the lock, or NoProc
          inside,      \* the living processes that are inside the section
          dead         \* the processes that no longer run

sectionVars == <<holder, inside, dead>>

SectionInit == holder = NoProc /\ dead = {} /\ inside = {}

Enter(p) == /\ p \notin dead
            /\ holder = NoProc
            /\ holder' = p
            /\ UNCHANGED dead
            /\ inside' = inside \cup {p}

Leave(p) == /\ p \in inside
            /\ holder = p
            /\ holder' = NoProc
            /\ UNCHANGED dead
            /\ inside' = inside \ {p}

\* A dead holder's grip is ended by whoever finds it.
Reclaim == /\ holder \in dead
           /\ holder' = NoProc
           /\ UNCHANGED <<dead, inside>>

\* Nobody lets go of the lock for a process that is killed.
Die(p) == /\ p \notin dead
          /\ dead' = dead \cup {p}
          /\ UNCHANGED holder
          /\ inside' = inside \ {p}

SectionNext == \/ Reclaim
               \/ \E p \in Proc : Enter(p) \/ Leave(p) \/ Die(p)

SectionSpec == SectionInit /\ [][SectionNext]_sectionVars
=============================================================================
