-------------------------- MODULE MetaLock_proofs --------------------------
(***************************************************************************)
(* The meta-lock is a section lock, for any number of processes, in the    *)
(* regime Prompt: MetaInv is inductive, MetaExclusion follows from it, and *)
(* under it every step is a step of SectionLock or leaves it alone.        *)
(***************************************************************************)
EXTENDS MetaLock, TLAPS

LEMMA InitEstablishes == Init => MetaInv
  BY MetaAssumption DEF Init, MetaInv, TypeOK, Points, InSection, SectionPoints,
     BreakPoints

\* The steps of one process, between the two files: each line of the case
\* split is one action of MetaLock.
LEMMA StepPreserves ==
  ASSUME Prompt, MetaInv, NEW p \in Proc, Step(p) \/ Finish(p)
  PROVE  MetaInv'
  <1> USE MetaAssumption DEF MetaInv, TypeOK, Points, InSection, SectionPoints,
          BreakPoints, Goto
  <1>1. CASE TakeMeta(p)
    BY <1>1 DEF TakeMeta
  <1>2. CASE MetaTaken(p)
    BY <1>2 DEF MetaTaken
  <1>3. CASE FirstStat(p)
    BY <1>3 DEF FirstStat, StatMeta
  <1>4. CASE FirstJudge(p)
    BY <1>4 DEF FirstJudge, JudgeMeta
  <1>5. CASE TakeMutex(p)
    BY <1>5 DEF TakeMutex
  <1>6. CASE MutexTaken(p)
    BY <1>6 DEF MutexTaken
  <1>7. CASE StatMutex(p)
    BY <1>7 DEF StatMutex
  <1>8. CASE ClearMutex(p)
    BY <1>8 DEF ClearMutex
  <1>9. CASE Restat(p)
    BY <1>9 DEF Restat, StatMeta
  <1>10. CASE Rejudge(p)
    BY <1>10 DEF Rejudge, JudgeMeta, LooksAlive
  <1>11. CASE RemoveMeta(p)
    BY <1>11 DEF RemoveMeta, UnlinkMeta
  <1>12. CASE DropMutex(p)
    BY <1>12 DEF DropMutex, UnlinkMutex
  <1>13. CASE EndSection(p)
    BY <1>13 DEF EndSection
  <1>14. CASE ReleaseMeta(p)
    BY <1>14 DEF ReleaseMeta, UnlinkMeta
  <1>15. CASE Finish(p)
    BY <1>15 DEF Finish
  <1> QED
    BY <1>1, <1>2, <1>3, <1>4, <1>5, <1>6, <1>7, <1>8, <1>9, <1>10, <1>11,
       <1>12, <1>13, <1>14, <1>15 DEF Step

\* Crashes, the clock and the reuse of pids.
LEMMA EnvironmentPreserves ==
  ASSUME Prompt, MetaInv, Environment
  PROVE  MetaInv'
  <1> USE MetaAssumption DEF MetaInv, TypeOK, Points, InSection, SectionPoints,
          BreakPoints, Goto
  <1>1. CASE AgeMeta
    BY <1>1 DEF AgeMeta, Prompt
  <1>2. CASE AgeMutex
    BY <1>2 DEF AgeMutex, Prompt
  <1>3. ASSUME NEW p \in Proc, Crash(p)
        PROVE  MetaInv'
    BY <1>3 DEF Crash, Prompt
  <1>4. ASSUME NEW p \in Proc, ReusePid(p)
        PROVE  MetaInv'
    BY <1>4 DEF ReusePid
  <1> QED
    BY <1>1, <1>2, <1>3, <1>4 DEF Environment

\* MetaInv holds in every reachable state of the prompt regime.
THEOREM MetaInvariance == ASSUME Prompt PROVE Spec => []MetaInv
  <1>1. MetaInv /\ [Next]_vars => MetaInv'
    <2> SUFFICES ASSUME MetaInv, [Next]_vars PROVE MetaInv'
      OBVIOUS
    <2>1. CASE UNCHANGED vars
      BY <2>1 DEF vars, MetaInv, TypeOK, InSection
    <2>2. CASE Next
      BY <2>2, StepPreserves, EnvironmentPreserves DEF Next
    <2> QED
      BY <2>1, <2>2
  <1> QED
    BY <1>1, InitEstablishes, PTL DEF Spec

\* At most one process is inside the scan -> create -> verify section.
THEOREM MetaMutualExclusion == ASSUME Prompt PROVE Spec => []MetaExclusion
  <1>1. MetaInv => MetaExclusion
    BY DEF MetaInv, MetaExclusion
  <1> QED
    BY <1>1, MetaInvariance, PTL
-----------------------------------------------------------------------------
\* Each step of a process is a step of the section lock, or invisible to it.
LEMMA StepRefines ==
  ASSUME MetaInv, NEW p \in Proc, Step(p) \/ Finish(p)
  PROVE  [Section!SectionNext]_(Section!sectionVars)
  <1> DEFINE died == {q \in Proc : pc[q] = "dead"}
             inside == {q \in Proc : InSection(q)}
  <1> USE MetaAssumption DEF MetaInv, TypeOK, InSection, SectionPoints, Goto,
          Section!sectionVars
  <1>1. died' = died
    BY DEF Step, Finish, TakeMeta, MetaTaken, FirstStat, FirstJudge, StatMeta,
       JudgeMeta, TakeMutex, MutexTaken, StatMutex, ClearMutex, Restat, Rejudge,
       RemoveMeta, DropMutex, EndSection, ReleaseMeta
  <1>2. CASE TakeMeta(p)
    <2>1. inside' = inside \cup {p}
      BY <1>2 DEF TakeMeta
    <2>2. Section!Enter(p)
      BY <1>1, <1>2, <2>1 DEF TakeMeta, Section!Enter
    <2> QED
      BY <2>2 DEF Section!SectionNext
  <1>3. CASE RemoveMeta(p)
    <2>1. inside' = inside
      BY <1>3 DEF RemoveMeta
    <2>2. Section!Reclaim
      BY <1>1, <1>3, <2>1 DEF RemoveMeta, UnlinkMeta, Section!Reclaim
    <2> QED
      BY <2>2 DEF Section!SectionNext
  <1>4. CASE ReleaseMeta(p)
    <2>1. inside' = inside \ {p}
      BY <1>4 DEF ReleaseMeta
    <2>2. Section!Leave(p)
      BY <1>1, <1>4, <2>1 DEF ReleaseMeta, UnlinkMeta, Section!Leave
    <2> QED
      BY <2>2 DEF Section!SectionNext
  <1>5. CASE EndSection(p)
    <2>1. inside' = inside
      BY <1>5 DEF EndSection
    <2> QED
      BY <1>1, <1>5, <2>1 DEF EndSection
  <1>6. ASSUME \/ MetaTaken(p) \/ FirstStat(p) \/ FirstJudge(p) \/ TakeMutex(p)
               \/ MutexTaken(p) \/ StatMutex(p) \/ ClearMutex(p) \/ Restat(p)
               \/ Rejudge(p) \/ DropMutex(p) \/ Finish(p)
        PROVE  UNCHANGED Section!sectionVars
    <2>1. inside' = inside /\ meta' = meta
      BY <1>6 DEF MetaTaken, FirstStat, FirstJudge, StatMeta, JudgeMeta, TakeMutex,
         MutexTaken, StatMutex, ClearMutex, Restat, Rejudge, DropMutex, Finish
    <2> QED
      BY <1>1, <2>1
  <1> QED
    BY <1>2, <1>3, <1>4, <1>5, <1>6 DEF Step

LEMMA EnvironmentRefines ==
  ASSUME MetaInv, Environment
  PROVE  [Section!SectionNext]_(Section!sectionVars)
  <1> DEFINE died == {q \in Proc : pc[q] = "dead"}
             inside == {q \in Proc : InSection(q)}
  <1> USE DEF MetaInv, TypeOK, InSection, SectionPoints, Section!sectionVars
  <1>1. CASE AgeMeta \/ AgeMutex \/ \E p \in Proc : ReusePid(p)
    BY <1>1 DEF AgeMeta, AgeMutex, ReusePid
  <1>2. ASSUME NEW p \in Proc, Crash(p)
        PROVE  Section!SectionNext
    <2>1. pc[p] # "dead"
      BY <1>2, MetaAssumption DEF Crash
    <2>2. died' = died \cup {p} /\ inside' = inside \ {p}
      BY <1>2 DEF Crash, Goto
    <2>3. Section!Die(p)
      BY <1>2, <2>1, <2>2 DEF Crash, Section!Die
    <2> QED
      BY <2>3 DEF Section!SectionNext
  <1> QED
    BY <1>1, <1>2 DEF Environment

\* The lock files implement the abstract section lock: created only when
\* absent, removed only by the live owner as it leaves, or once the owner is
\* dead; the others' sections go on undisturbed.
THEOREM MetaImplementsSectionLock ==
  ASSUME Prompt PROVE Spec => ImplementsSectionLock
  <1>1. Init => Section!SectionInit
    BY MetaAssumption DEF Init, InSection, SectionPoints, Section!SectionInit
  <1>2. MetaInv /\ [Next]_vars => [Section!SectionNext]_(Section!sectionVars)
    <2> SUFFICES ASSUME MetaInv, [Next]_vars
                 PROVE  [Section!SectionNext]_(Section!sectionVars)
      OBVIOUS
    <2>1. CASE UNCHANGED vars
      BY <2>1 DEF vars, InSection, Section!sectionVars
    <2>2. CASE Next
      BY <2>2, StepRefines, EnvironmentRefines DEF Next
    <2> QED
      BY <2>1, <2>2
  <1> QED
    BY <1>1, <1>2, MetaInvariance, PTL DEF Spec, ImplementsSectionLock,
       Section!SectionSpec
=============================================================================
