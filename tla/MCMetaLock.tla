----------------------------- MODULE MCMetaLock -----------------------------
(* Instances of MetaLock for TLC: what may go wrong is chosen by the cfg.  *)
EXTENDS MetaLock, TLC

\* Killed anywhere but while holding the break mutex.
CrashOutsideBreak == Points \ (BreakPoints \cup {"dead"})

\* Killed at any point.
CrashAnywhere == Points \ {"dead"}

Symmetry == Permutations(Proc)
=============================================================================
