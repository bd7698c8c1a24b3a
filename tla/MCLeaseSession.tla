--------------------------- MODULE MCLeaseSession ---------------------------
(* Instances of LeaseSession for TLC.  Every command has a shell of its    *)
(* own, as an agent's tool calls do; the cfg says which commands there are *)
(* and what each of them is.                                               *)
EXTENDS LeaseSession, TLC

CONSTANTS lock, relock, verb, read, unlock, other, agent, tok

ShellOf == [p \in Proc |-> <<"shell", p>>]
CommandOf == [p \in Proc |-> CASE p \in {lock, relock} -> "lock"
                               [] p = read -> "read"
                               [] p = unlock -> "unlock"
                               [] OTHER -> "verb"]

\* The session's commands present the token that its lock prints.
TokenOf == [p \in Proc |-> IF p \in {lock, other} THEN NoToken ELSE tok]
NewTokenOf == [p \in Proc |-> tok]

\* Every command but a plain unlock names the scope library.
Scopes2 == <<"irs", "library">>
WantLibrary == [p \in Proc |-> IF p = unlock THEN <<>> ELSE <<"library">>]
\* The agent binds the leases it locks to its own pid; verbs record themselves.
KindOf == [p \in Proc |-> IF p \in {lock, relock} THEN "pid" ELSE "auto"]
PidOf == [p \in Proc |-> IF p \in {lock, relock} THEN agent ELSE p]

TtlTable == [auto |-> 4, session |-> 3, pid |-> 3, detached |-> 3, corrupt |-> 1]

\* lock, then the session's verb and read together, then the second lock,
\* then unlock when all is over; the foreign verb at any time before that.
InOrder == [p \in Proc |-> CASE p \in {lock, other} -> {}
                             [] p \in {verb, read} -> {lock}
                             [] p = relock -> {lock, verb, read}
                             [] p = unlock -> Proc \ {unlock}]

Nowhere == {}
Empty == [s \in Slots |-> NoLease]
NoLeftovers == {Empty}
=============================================================================
