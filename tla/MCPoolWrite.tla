---------------------------- MODULE MCPoolWrite ----------------------------
(* Instances of PoolWrite for TLC: calls for the name n, or for o, against *)
(* pools in which those names are taken, or not, at the positions wanted.  *)
EXTENDS PoolWrite, TLC

Doing(way, name, pos) == [way |-> way, name |-> name, pos |-> pos]
Entry(k, name, posi) == [cid |-> <<0, k>>, name |-> name, posi |-> posi, content |-> 0]

\* A call of each way, and then one that chooses its own position; and a call
\* at the position that the one before has chosen.
AnyCall == {Doing("push", "n", 1), Doing("dest", "n", 0), Doing("at", "n", 1)}
TwoCalls == {<<x, Doing("dest", "n", 0)>> : x \in AnyCall}
                \cup {<<Doing("dest", "n", 0), Doing("at", "n", 0)>>}

\* Two presets of names that the pool has not, and two of one that it may have.
Installs == {<<Doing("install", "o", 0), Doing("install", "p", 0)>>,
             <<Doing("install", "n", 0), Doing("install", "n", 0)>>}
SafeBatches == TwoCalls \cup Installs

\* One install.
RecoverBatches == {<<Doing("install", "n", 0)>>}

\* Empty; a namesake elsewhere; a namesake in the way, with a neighbour.
OtherNames == {{}, {Entry(1, "m", 0)}}
Namesakes == {{Entry(1, "n", 0)}, {Entry(1, "n", 1), Entry(2, "m", 2)}}
SafePools == OtherNames \cup Namesakes

\* The instance is of the regime that the theorems are about.
ASSUME SafeRegime == Settled /\ DistinctNames
=============================================================================
