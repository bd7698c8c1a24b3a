---------------------------- MODULE MCLeaseVerb ----------------------------
(* Instances of LeaseVerb for TLC: three verbs a, b, c from three shells,  *)
(* the scopes irs and library (the pair `copy` and `restore` take), and a  *)
(* pid z that died earlier.                                                *)
EXTENDS LeaseVerb, TLC

CONSTANTS a, b, c, shA, shB, shC, z, tok

Scopes2 == <<"irs", "library">>
Of(p, x, y, w) == CASE p = a -> x [] p = b -> y [] p = c -> w
ThreeShells == [p \in Proc |-> Of(p, shA, shB, shC)]
NoTokens == [p \in Proc |-> NoToken]

\* A session TTL as long as the grace of a dead pid allows.
TtlTable == [auto |-> 4, session |-> 3, pid |-> 3, detached |-> 3, corrupt |-> 1]

\* a takes two scopes, b everything (what `device lock --scope all` asks for),
\* c one of a's.
OverlappingWants ==
    [p \in Proc |-> Of(p, <<"library", "irs">>, <<"all">>, <<"library">>)]

\* a and b name the same two scopes in opposite orders.
CrossedWants ==
    [p \in Proc |-> Of(p, <<"library", "irs">>, <<"irs", "library">>,
                       <<"library">>)]

Autos == [p \in Proc |-> "auto"]
OwnPids == [p \in Proc |-> p]

AnyPoint == Points \ {"done"}

Empty == [s \in Slots |-> NoLease]
Old(s, l) == [Empty EXCEPT ![s] = l]
Rec(pid, kind, age, nonce) == [pid |-> pid, token |-> NoToken, kind |-> kind,
                               age |-> age, nonce |-> nonce]

\* Nothing; the transient lease of a killed verb; a detached session lease
\* nobody here owns; a file that cannot be parsed.
UsualLeftovers == {Empty, Old("library", Rec(z, "auto", 1, 1)),
                   Old("all", Rec(NoProc, "detached", 2, 1)),
                   Old("irs", Rec(NoProc, "corrupt", 0, 1))}

\* The instances are of the regime that the theorems are about.
ASSUME VerbRegime == OutsideSession
=============================================================================
