------------------------------- MODULE Leases -------------------------------
(***************************************************************************)
(* Lease records and the tests src/helixgen/locks.py makes on them.  A     *)
(* lease file is named after a slot: a granular scope, or All.             *)
(*                                                                         *)
(* Clock time is counted in ticks of one heartbeat interval, a third of    *)
(* the shortest TTL.  A lease carries its age since `acquired_at`; nothing *)
(* in the code looks at the time itself.  RENEW_MARGIN_S is shorter than a *)
(* heartbeat, so a lease is unrenewable in the last tick of its TTL.       *)
(***************************************************************************)
EXTENDS Integers, FiniteSets, Sequences, SequencesExt

CONSTANTS Proc,        \* the command-line processes
          NoProc,      \* no process id
          Parent,      \* the shell each process was started from
          Agents,      \* other processes that leases may be bound to
          Ghosts,      \* pids of processes that ended before these started
          Tokens,      \* the tokens in use
          Token,       \* $HELIXGEN_LOCK_TOKEN of each process, or NoToken
          NoToken,
          ScopeOrder,  \* SCOPES, in their fixed (sorted) order
          All,         \* the exclusive scope
          NoLease,     \* the lease file does not exist
          Ttl,         \* Ttl[kind] in ticks; 0: no expiry
          SessionGrace,\* SESSION_PID_GRACE_S in ticks
          Nonces       \* numbers, enough for a fresh one always to exist

Kinds == {"auto", "session", "pid", "detached", "corrupt"}
Scopes == ToSet(ScopeOrder)
Slots == Scopes \cup {All}
Shells == {Parent[p] : p \in Proc}
Pids == Proc \cup Shells \cup Agents \cup Ghosts

ASSUME LeasesAssumption ==
    /\ NoProc \notin Pids
    /\ All \notin Scopes
    /\ DOMAIN Parent = Proc
    /\ Ghosts \cap (Proc \cup Shells \cup Agents) = {}
    /\ NoToken \notin Tokens
    /\ Token \in [Proc -> Tokens \cup {NoToken}]
    /\ Ttl \in [Kinds -> Nat]
    /\ SessionGrace \in Nat
    /\ Nonces \subseteq Nat
    /\ ScopeOrder \in Seq(Scopes)

\* Ages beyond every limit the code tests are alike.
MaxAge == Max({Ttl[k] : k \in Kinds} \cup {SessionGrace + 1})

Lease == [pid : Pids \cup {NoProc}, token : Tokens \cup {NoToken}, kind : Kinds,
          age : 0..MaxAge, nonce : Nonces]

ASSUME NoLeaseAssumption == NoLease \notin Lease

\* The slots whose live lease of ours covers a scope.
Covers(s) == {s, All}

\* Mutant of ConflictPaths: a scope is not blocked by an exclusive lease.
ConflictPathsWithoutAll(s) == IF s = All THEN Append(ScopeOrder, All) ELSE <<s>>

\* The slots whose live foreign lease blocks a scope, in the order in which
\* _conflict_paths lists them.
ConflictPaths(s) == IF s = All THEN Append(ScopeOrder, All) ELSE <<s, All>>

\* Two scopes that two holders may not have at once.
Conflict(s, t) == s \in Covers(t) \/ t = All \/ s = All

\* Mutant of Normalize: scopes are taken in the caller's order.
NormalizeUnsorted(asked) == IF Contains(asked, All) THEN <<All>> ELSE asked

\* _normalize_scopes: `all` swallows the rest, and the rest are sorted, so
\* that every process takes its scopes in one global order.
Normalize(asked) == IF Contains(asked, All) THEN <<All>>
                    ELSE SelectSeq(ScopeOrder, LAMBDA s : Contains(asked, s))

Expired(l) == Ttl[l.kind] > 0 /\ l.age >= Ttl[l.kind]

\* _remaining_ttl(lease) <= RENEW_MARGIN_S
Unrenewable(l) == Ttl[l.kind] > 0 /\ l.age >= Ttl[l.kind] - 1

\* is_stale, given the pids that no longer run.  pid_start tells a recycled
\* pid from the recorded process, so death is permanent here.
IsStale(l, gone) ==
    \/ Expired(l)
    \/ /\ l.kind # "corrupt"
       /\ l.pid \in gone
       /\ l.kind = "session" => l.age > SessionGrace

\* owned: by the token t that p presents, or by the pid of p or of its parent.
\* A process whose parent died has another one from then on.
Owned(p, t, l, gone) ==
    /\ l.kind # "corrupt"
    /\ \/ t # NoToken /\ l.token = t
       \/ l.pid \in {p, Parent[p]} \ gone

\* The (acquired_at, nonce) order of _post_create_conflict: smaller is older.
Older(l, m) == l.age > m.age \/ (l.age = m.age /\ l.nonce < m.nonce)

IsLease(l) == l # NoLease
LiveLease(l, gone) == IsLease(l) /\ ~IsStale(l, gone)
=============================================================================
