-------------------------- MODULE DeviceExclusion --------------------------
(***************************************************************************)
(* What the lease files are for (src/helixgen/locks.py, first paragraph):  *)
(* concurrent helixgen processes on one machine never collide on the       *)
(* device.  A process drives the scopes it asked for only while no process *)
(* of another session drives a scope that conflicts with them.             *)
(***************************************************************************)
CONSTANTS Proc,
          Slots,                \* the scopes
          Conflict(_, _),       \* may two scopes not be driven at once?
          SameSession(_, _)     \* processes that act for one holder

VARIABLE using                  \* the scopes each process is driving

ExclusionInit == using = [p \in Proc |-> {}]

Begin(p, scopes) ==
    /\ using[p] = {}
    /\ \A q \in Proc : ~SameSession(p, q) =>
         \A s \in scopes, t \in using[q] : ~Conflict(s, t)
    /\ using' = [using EXCEPT ![p] = scopes]

\* The verb returned, failed, or its process was killed.
End(p) == /\ using[p] # {}
          /\ using' = [using EXCEPT ![p] = {}]

ExclusionNext == \E p \in Proc :
                    \/ End(p)
                    \/ \E scopes \in (SUBSET Slots) \ {{}} : Begin(p, scopes)

ExclusionSpec == ExclusionInit /\ [][ExclusionNext]_using
=============================================================================
