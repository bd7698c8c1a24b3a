-------------------------- MODULE LeaseVerb_proofs --------------------------
(***************************************************************************)
(* The lease protocol, for any number of verbs and scopes, any leases left *)
(* behind by others and any crashes, outside a session and on time:        *)
(* LeaseInv is inductive, the safety properties of LeaseVerb follow from   *)
(* it, and under it every step is a step of DeviceExclusion or leaves it   *)
(* alone.                                                                  *)
(***************************************************************************)
EXTENDS LeaseVerb, TLAPS

(* Facts about the operators the model is built from.                      *)

LEMMA GreatestOfMore ==
  ASSUME NEW S \in SUBSET Nat, \E x \in S : \A y \in S : x >= y, NEW z \in Nat
  PROVE  \E x \in S \cup {z} : \A y \in S \cup {z} : x >= y
  <1>1. PICK x \in S : \A y \in S : x >= y
    OBVIOUS
  <1>2. CASE x >= z
    BY <1>1, <1>2
  <1>3. CASE z > x
    <2>1. x \in Nat /\ \A y \in S : y \in Nat /\ z >= y
      BY <1>1, <1>3
    <2> QED
      BY <2>1
  <1> QED
    BY <1>1, <1>2, <1>3

LEMMA MaxAgeNat == MaxAge \in Nat
  <1> DEFINE limits == {Ttl[k] : k \in Kinds} \cup {SessionGrace + 1}
             T(k) == Ttl[k]
  <1> USE LeasesAssumption
  <1>1. \A k \in Kinds : T(k) \in Nat
    OBVIOUS
  <1>2. limits = {T("auto")} \cup {T("session")} \cup {T("pid")} \cup {T("detached")}
                    \cup {T("corrupt")} \cup {SessionGrace + 1}
    BY DEF Kinds
  <1>3. \E x \in {T("auto")} : \A y \in {T("auto")} : x >= y
    BY <1>1 DEF Kinds
  <1> HIDE DEF limits, T
  <1>4. \E x \in limits : \A y \in limits : x >= y
    <2> DEFINE l2 == {T("auto")} \cup {T("session")}
               l3 == l2 \cup {T("pid")}
               l4 == l3 \cup {T("detached")}
               l5 == l4 \cup {T("corrupt")}
    <2> l2 \in SUBSET Nat /\ l3 \in SUBSET Nat /\ l4 \in SUBSET Nat /\ l5 \in SUBSET Nat
      BY <1>1 DEF Kinds
    <2>1. \E x \in l2 : \A y \in l2 : x >= y
      BY <1>1, <1>3, GreatestOfMore DEF Kinds
    <2> HIDE DEF l2
    <2>2. \E x \in l3 : \A y \in l3 : x >= y
      BY <1>1, <2>1, GreatestOfMore, SMTT(30) DEF Kinds
    <2> HIDE DEF l3
    <2>3. \E x \in l4 : \A y \in l4 : x >= y
      BY <1>1, <2>2, GreatestOfMore, SMTT(30) DEF Kinds
    <2> HIDE DEF l4
    <2>4. \E x \in l5 : \A y \in l5 : x >= y
      BY <1>1, <2>3, GreatestOfMore, SMTT(30) DEF Kinds
    <2>5. limits = l5 \cup {SessionGrace + 1}
      BY <1>2 DEF l2, l3, l4
    <2> HIDE DEF l5
    <2> QED
      BY <2>4, <2>5, GreatestOfMore
  <1>5. limits \subseteq Nat
    BY <1>1, <1>2 DEF Kinds
  <1> QED
    BY <1>4, <1>5 DEF MaxAge, Max, limits, T

LEMMA EmptySet == ToSet(<<>>) = {}
  BY DEF ToSet

LEMMA AppendSet ==
  ASSUME NEW S, NEW q \in Seq(S), NEW x \in S
  PROVE  /\ ToSet(Append(q, x)) = ToSet(q) \cup {x}
         /\ Append(q, x) \in Seq(S) /\ Append(q, x) # <<>>
  <1> DEFINE r == Append(q, x)
  <1>1. Len(q) \in Nat /\ DOMAIN q = 1..Len(q) /\ r \in Seq(S) /\ Len(r) = Len(q) + 1
    OBVIOUS
  <1>2. DOMAIN r = 1..Len(q) + 1
    BY <1>1
  <1>3. r[Len(q) + 1] = x /\ \A i \in 1..Len(q) : r[i] = q[i]
    OBVIOUS
  <1>4. \A i \in 1..Len(q) + 1 : i = Len(q) + 1 \/ i \in 1..Len(q)
    BY <1>1
  <1>5. ToSet(r) = ToSet(q) \cup {x}
    <2> HIDE DEF r
    <2> QED
      BY <1>1, <1>2, <1>3, <1>4 DEF ToSet
  <1> QED
    BY <1>1, <1>5

LEMMA TailSet ==
  ASSUME NEW S, NEW q \in Seq(S), q # <<>>
  PROVE  /\ ToSet(q) = {Head(q)} \cup ToSet(Tail(q))
         /\ Tail(q) \in Seq(S) /\ Head(q) \in S
  <1>1. Len(q) \in Nat /\ Len(q) > 0 /\ Head(q) = q[1] /\ Tail(q) \in Seq(S) /\ Head(q) \in S
    OBVIOUS
  <1>2. Len(Tail(q)) = Len(q) - 1 /\ \A i \in 1..Len(q) - 1 : Tail(q)[i] = q[i + 1]
    BY <1>1
  <1>3. \A i \in 1..Len(q) : i = 1 \/ (i - 1 \in 1..Len(q) - 1 /\ q[i] = Tail(q)[i - 1])
    BY <1>1, <1>2
  <1>4. DOMAIN q = 1..Len(q) /\ DOMAIN Tail(q) = 1..Len(q) - 1
    BY <1>1, <1>2
  <1>5. ToSet(q) = {Head(q)} \cup ToSet(Tail(q))
    <2> DEFINE t == Tail(q)
               n == Len(q)
    <2>1. /\ n \in Nat /\ n > 0 /\ DOMAIN q = 1..n /\ DOMAIN t = 1..n - 1
          /\ Head(q) = q[1]
          /\ \A i \in 1..n - 1 : t[i] = q[i + 1] /\ i + 1 \in 1..n
          /\ \A i \in 1..n : i = 1 \/ (i - 1 \in 1..n - 1 /\ q[i] = t[i - 1])
      BY <1>1, <1>2, <1>3, <1>4
    <2> HIDE DEF t, n
    <2>2. ASSUME NEW i \in 1..n PROVE q[i] \in {Head(q)} \cup ToSet(t)
      BY <2>1 DEF ToSet
    <2>3. Head(q) \in ToSet(q)
      BY <2>1 DEF ToSet
    <2>4. ASSUME NEW i \in 1..n - 1 PROVE t[i] \in ToSet(q)
      BY <2>1 DEF ToSet
    <2>5. ToSet(q) = {Head(q)} \cup ToSet(t)
      BY <2>1, <2>2, <2>3, <2>4 DEF ToSet
    <2> QED
      BY <2>5 DEF t
  <1> QED
    BY <1>1, <1>5

LEMMA ShortSets ==
  ASSUME NEW S, NEW x \in S, NEW y \in S
  PROVE  /\ <<x>> \in Seq(S) /\ ToSet(<<x>>) = {x} /\ <<x>> # <<>>
         /\ <<x, y>> \in Seq(S) /\ ToSet(<<x, y>>) = {x, y} /\ <<x, y>> # <<>>
  <1>1. DOMAIN <<x>> = 1..1 /\ DOMAIN <<x, y>> = 1..2
    OBVIOUS
  <1> QED
    BY <1>1 DEF ToSet

LEMMA PathSets ==
  /\ Append(ScopeOrder, All) \in Seq(Slots) /\ Append(ScopeOrder, All) # <<>>
  /\ ToSet(Append(ScopeOrder, All)) = Slots
  /\ ScopeOrder \in Seq(Slots)
  /\ All \in Slots
  <1>1. ScopeOrder \in Seq(Slots)
    BY LeasesAssumption DEF Slots
  <1> QED
    BY <1>1, AppendSet DEF Slots, Scopes

LEMMA ConflictPathsTyped ==
  ASSUME NEW s \in Slots
  PROVE  /\ ConflictPaths(s) \in Seq(Slots) /\ ConflictPaths(s) # <<>>
         /\ RivalPaths(s) \in Seq(Slots)
         /\ ToSet(ConflictPaths(s)) = IF s = All THEN Slots ELSE Covers(s)
         /\ ToSet(ConflictPaths(s)) \subseteq Slots
  <1>1. CASE s = All
    BY <1>1, PathSets DEF ConflictPaths, RivalPaths, Front
  <1>2. CASE s # All
    BY <1>2, PathSets DEF ConflictPaths, RivalPaths, ToSet, Covers
  <1> QED
    BY <1>1, <1>2

LEMMA CoverOrderTyped ==
  ASSUME NEW s \in Slots, NEW order \in CoverOrders(s)
  PROVE  order \in Seq(Slots) /\ ToSet(order) = Covers(s) /\ order # <<>>
  <1>1. /\ <<All>> \in Seq(Slots) /\ ToSet(<<All>>) = {All}
        /\ <<s, All>> \in Seq(Slots) /\ ToSet(<<s, All>>) = {s, All}
        /\ <<All, s>> \in Seq(Slots) /\ ToSet(<<All, s>>) = {All, s}
    BY PathSets, ShortSets
  <1>2. order \in {<<s, All>>, <<All, s>>, <<All>>} /\ (order = <<All>> => s = All)
    BY DEF CoverOrders
  <1>3. order # <<>>
    BY <1>2
  <1> QED
    BY <1>1, <1>2, <1>3 DEF Covers
-----------------------------------------------------------------------------
(* What a lease that names a living verb is to that verb, and to others.   *)

LEMMA LocalTyped ==
  ASSUME TypeOK, NEW p \in Proc
  PROVE  /\ st[p].pc \in Points
         /\ st[p].todo \in Seq(Slots) /\ st[p].scan \in Seq(Slots)
         /\ st[p].seen \in Lease \cup {NoLease}
         /\ st[p].created \in Seq(Slots \X Nonces)
         /\ st[p].pass \subseteq Slots /\ st[p].held \subseteq Slots
         /\ st[p].tok \in Tokens \cup {NoToken}
         /\ \A i \in DOMAIN st[p].created : st[p].created[i][1] \in Slots
         /\ MadeBy(p) \subseteq Slots
         /\ st[p].todo # <<>> => Target(p) \in Slots
         /\ st[p].scan # <<>> => Slot(p) \in Slots
         /\ Point(p) \in AcquirePoints => Target(p) \in Slots
         /\ Point(p) \in SlotPoints => Slot(p) \in Slots
  <1>1. /\ st[p].pc \in Points
        /\ st[p].todo \in Seq(Slots) /\ st[p].scan \in Seq(Slots)
        /\ st[p].seen \in Lease \cup {NoLease}
        /\ st[p].created \in Seq(Slots \X Nonces)
        /\ st[p].pass \subseteq Slots /\ st[p].held \subseteq Slots
        /\ st[p].tok \in Tokens \cup {NoToken}
    BY DEF TypeOK, LocalState
  <1>2. \A i \in DOMAIN st[p].created : st[p].created[i] \in Slots \X Nonces
    BY <1>1
  <1>3. \A i \in DOMAIN st[p].created : st[p].created[i][1] \in Slots
    BY <1>2
  <1>4. st[p].todo # <<>> => Target(p) \in Slots
    BY <1>1 DEF Target
  <1>5. st[p].scan # <<>> => Slot(p) \in Slots
    BY <1>1 DEF Slot
  <1> QED
    BY <1>1, <1>3, <1>4, <1>5 DEF TypeOK, Placed, MadeBy

LEMMA AutoTtl == ASSUME OutsideSession PROVE Ttl["auto"] \in Nat /\ Ttl["auto"] >= 3
  BY LeasesAssumption DEF OutsideSession, Kinds

LEMMA OwnIsLive ==
  ASSUME OutsideSession, LeaseInv, NEW p \in Proc \ dead, NEW s \in Slots, Own(p, s)
  PROVE  /\ file[s] \in Lease
         /\ ~IsStale(file[s], dead) /\ ~Unrenewable(file[s])
         /\ Mine(p, file[s]) /\ Renewable(p, file[s])
  <1>1. file[s] \in Lease /\ file[s].kind = "auto" /\ file[s].age \in Int
    BY MaxAgeNat DEF LeaseInv, TypeOK, Own, IsLease, Transient, Lease
  <1>2. file[s].age <= Ttl["auto"] - 2 /\ Ttl["auto"] \in Nat
    BY LeasesAssumption DEF LeaseInv, VerbInv, InDate, Kinds
  <1>3. ~IsStale(file[s], dead) /\ ~Unrenewable(file[s])
    BY <1>1, <1>2 DEF IsStale, Expired, Unrenewable, Own
  <1>4. Mine(p, file[s])
    BY <1>1 DEF Mine, Owned, Own
  <1> QED
    BY <1>1, <1>3, <1>4 DEF Renewable, LiveLease, Own

LEMMA MineIsOwn ==
  ASSUME OutsideSession, LeaseInv, NEW p \in Proc, NEW s \in Slots,
         IsLease(file[s]), Mine(p, file[s])
  PROVE  Own(p, s)
  BY DEF OutsideSession, LeaseInv, Transient, Mine, Owned, Own, Shells

\* A step of p and of nobody else.
Alone(p) ==
    /\ dead' = dead
    /\ \A q \in Proc \ {p} : st'[q] = st[q] /\ (q \in due' <=> q \in due)
    /\ \A q \in Proc \ (dead \cup {p}) : holder = q => holder' = q /\ brk' = brk

\* What the steps of p do to the lease files: renew or remove its own, and,
\* inside the section, remove a stale one or create one where there is none.
Touches(p) == \A s \in Slots :
    \/ file'[s] = file[s]
    \/ Own(p, s) /\ (file'[s] = NoLease \/ (Own(p, s)' /\ file'[s].kind = "auto"
                                           /\ file'[s].nonce = file[s].nonce))
    \/ /\ holder = p /\ ~LiveLease(file[s], dead)
       /\ \/ file'[s] = NoLease
          \/ file[s] = NoLease /\ Own(p, s)' /\ file'[s].kind = "auto"

\* The others are none the wiser.
LEMMA OthersKeep ==
  ASSUME OutsideSession, LeaseInv, NEW p \in Proc \ dead, Alone(p), Touches(p),
         NEW q \in Proc \ dead, q # p
  PROVE  VerbInv(q)' /\ Placed(q)'
  <1>1. st'[q] = st[q] /\ (q \in due' <=> q \in due) /\ dead' = dead
    BY DEF Alone
  <1>2. \A s \in Slots : Own(q, s) => file'[s] = file[s]
    BY OwnIsLive DEF Touches, LiveLease, Own, IsLease
  <1>3. \A s \in Slots : Own(q, s)' => file'[s] = file[s]
    BY DEF Touches, Own, IsLease
  <1>4. \A s \in Slots : Own(q, s)' <=> Own(q, s)
    BY <1>2, <1>3 DEF Own
  <1>5. /\ VerbInv(q) /\ Placed(q)
        /\ \A i \in DOMAIN st[q].created : st[q].created[i][1] \in Slots
        /\ Point(q) \in AcquirePoints => Target(q) \in Slots
        /\ Point(q) \in SlotPoints => Slot(q) \in Slots
    BY LocalTyped DEF LeaseInv, TypeOK
  <1> HIDE DEF LeaseInv
  <1>6. Recorded(q)'
    <2>1. UNCHANGED <<Point(q), Target(q), MadeBy(q), st[q].created, st[q].seen>>
      BY <1>1 DEF Point, Target, MadeBy
    <2>2. Point(q) \in VerifyPoints => Target(q) \in Slots
      BY <1>5 DEF VerifyPoints, AcquirePoints, SectionPoints
    <2> QED
      BY <1>2, <1>3, <1>4, <1>5, <2>1, <2>2 DEF VerbInv, Recorded, Listed
  <1>7. Renewing(q)'
    <2>1. UNCHANGED <<Point(q), Slot(q), st[q].seen>>
      BY <1>1 DEF Point, Slot
    <2>2. Point(q) \in RenewPoints => Slot(q) \in Slots
      BY <1>5 DEF RenewPoints, SlotPoints
    <2> QED
      BY <1>2, <1>4, <1>5, <2>1, <2>2 DEF VerbInv, Renewing
  <1>8. InDate(q)'
    BY <1>1, <1>2, <1>4, <1>5 DEF VerbInv, InDate, Point
  <1>9. Covered(q)'
    BY <1>1, <1>5 DEF VerbInv, Covered, Point, MadeBy
  <1>10. Cleared(q)'
    <2>1. UNCHANGED <<Point(q), Target(q), Slot(q), st[q].scan>>
      BY <1>1 DEF Point, Target, Slot
    <2>2. ASSUME Point(q) \in ScanPoints
          PROVE  \A s \in Slots : \/ file'[s] = file[s]
                                  \/ Own(p, s) /\ (file'[s] = NoLease \/ Own(p, s)')
      <3>1. holder = q
        BY <1>5, <2>2 DEF Placed, At, Point, ScanPoints, BreakPoints, SectionPoints
      <3> QED
        BY <3>1 DEF Touches
    <2>3. ASSUME Point(q) \in ScanPoints, NEW s \in Slots, NEW r \in Proc, Own(r, s)'
          PROVE  Own(r, s)
      BY <2>2, <2>3 DEF Own, IsLease
    <2>4. \A s \in Slots : ~LiveLease(file[s], dead) => ~Own(p, s)
      BY OwnIsLive DEF LiveLease, Own
    <2>5. Point(q) \in SlotPoints => Slot(q) \in Slots
      BY <1>5
    <2>6. ASSUME Point(q) \in ScanPoints
          PROVE  ToSet(ConflictPaths(Target(q))) \subseteq Slots
      <3>1. Target(q) \in Slots
        BY <1>5, <2>6 DEF ScanPoints, BreakPoints, AcquirePoints, SectionPoints
      <3> QED
        BY <3>1, ConflictPathsTyped
    <2>7. /\ Point(q) \in ScanPoints =>
               \A s \in ToSet(ConflictPaths(Target(q))) \ ToSet(st[q].scan) :
                  \A r \in Proc \ (dead \cup {q}) : ~Own(r, s)'
      BY <1>5, <2>3, <2>6 DEF VerbInv, Cleared
    <2>8. Point(q) \in {"breakUnlink", "dropFree"} => file'[Slot(q)] = file[Slot(q)]
      <3> SUFFICES ASSUME Point(q) \in {"breakUnlink", "dropFree"}
                   PROVE  file'[Slot(q)] = file[Slot(q)]
        OBVIOUS
      <3>1. Slot(q) \in Slots /\ Point(q) \in ScanPoints
        BY <2>5 DEF SlotPoints, ScanPoints, BreakPoints
      <3>2. ~LiveLease(file[Slot(q)], dead)
        BY <1>5 DEF VerbInv, Cleared, LiveLease, IsLease
      <3> QED
        BY <2>2, <2>4, <3>1, <3>2
    <2> QED
      BY <1>1, <1>5, <2>1, <2>7, <2>8 DEF VerbInv, Cleared
  <1>11. Placed(q)'
    <2>1. UNCHANGED <<Point(q), Slot(q), st[q]>>
      BY <1>1 DEF Point, Slot
    <2>2. holder = q => holder' = q /\ brk' = brk
      BY DEF Alone
    <2>3. At(q, BreakPoints) => holder = q
      BY <1>5 DEF Placed, At, BreakPoints, SectionPoints
    <2> QED
      BY <1>1, <1>5, <2>1, <2>2, <2>3 DEF Placed, At, Point
  <1> QED
    BY <1>6, <1>7, <1>8, <1>9, <1>10, <1>11 DEF VerbInv

LEMMA StepKeeps ==
  ASSUME OutsideSession, LeaseInv, NEW p \in Proc \ dead, Alone(p), Touches(p),
         file' \in [Slots -> Lease \cup {NoLease}],
         brk' \in [Slots -> Proc \cup {NoProc}], brkOld' \subseteq Slots,
         holder' \in Proc \cup {NoProc}, due' \subseteq Proc,
         st' \in [Proc -> LocalState], st'[p].tok = NoToken,
         Exclusive', Placed(p)', VerbInv(p)'
  PROVE  LeaseInv'
  <1>1. dead' = dead /\ \A q \in Proc \ {p} : st'[q] = st[q]
    BY DEF Alone
  <1>2. \A q \in Proc \ dead : VerbInv(q)' /\ Placed(q)'
    BY OthersKeep
  <1>3. \A q \in Proc : Placed(q)'
    <2>1. ASSUME NEW q \in Proc, q \in dead PROVE Placed(q)'
      BY <1>1, <2>1 DEF LeaseInv, TypeOK, Placed, At, Point
    <2> QED
      BY <1>2, <2>1
  <1>4. TypeOK'
    BY <1>1, <1>3 DEF LeaseInv, TypeOK
  <1>5. Transient'
    <2>1. p \notin Shells
      BY DEF OutsideSession, Shells
    <2> QED
      BY <2>1 DEF LeaseInv, Transient, Touches, Own, IsLease
  <1>6. \A q \in Proc : st'[q].tok = NoToken
    BY <1>1 DEF LeaseInv
  <1> QED
    BY <1>1, <1>2, <1>4, <1>5, <1>6 DEF LeaseInv

\* A verb that makes no lease disturbs nobody's exclusive one.
LEMMA ExclusiveKept ==
  ASSUME LeaseInv, NEW p \in Proc \ dead, dead' = dead, Touches(p),
         \A s \in Slots : Own(p, s)' => Own(p, s)
  PROVE  Exclusive'
  <1>1. \A q \in Proc, s \in Slots : Own(q, s)' => Own(q, s)
    BY DEF Touches, Own, IsLease
  <1> QED
    BY <1>1, PathSets DEF LeaseInv, Exclusive

\* A step that only looks.
LEMMA LookKeeps ==
  ASSUME OutsideSession, LeaseInv, NEW p \in Proc \ dead,
         UNCHANGED <<file, brk, brkOld, holder, dead, due>>,
         st' \in [Proc -> LocalState], \A q \in Proc \ {p} : st'[q] = st[q],
         st'[p].tok = NoToken, Placed(p)', VerbInv(p)'
  PROVE  LeaseInv'
  <1>1. Alone(p) /\ Touches(p)
    BY DEF Alone, Touches
  <1>2. Exclusive'
    BY <1>1, ExclusiveKept DEF Own
  <1> QED
    BY <1>1, <1>2, StepKeeps DEF LeaseInv, TypeOK

LEMMA BeginEffect ==
  ASSUME TypeOK, NEW p \in Proc, NEW rest \in Seq(Slots), NEW mine \in LocalState,
         Begin(p, rest, mine)
  PROVE  /\ st' \in [Proc -> LocalState] /\ \A q \in Proc \ {p} : st'[q] = st[q]
         /\ st'[p].todo = rest /\ st'[p].created = mine.created
         /\ st'[p].tok = mine.tok
         /\ \/ rest = <<>> /\ st'[p].pc = "acquired"
            \/ /\ rest # <<>> /\ st'[p].pc = "cover"
               /\ ToSet(st'[p].scan) = Covers(Head(rest))
  <1>1. CASE rest = <<>>
    <2> DEFINE r == [mine EXCEPT !.pc = "acquired", !.todo = <<>>, !.scan = <<>>,
                                 !.seen = NoLease]
    <2>1. st' = [st EXCEPT ![p] = r]
      BY <1>1 DEF Begin
    <2> DEFINE none == <<>>
    <2>2. none \in Seq(Slots)
      OBVIOUS
    <2> HIDE DEF none
    <2>3. \A e \in Seq(Slots) :
             [mine EXCEPT !.pc = "acquired", !.todo = e, !.scan = e, !.seen = NoLease]
                \in LocalState
      BY DEF LocalState, Points
    <2>4. r \in LocalState
      BY <2>2, <2>3 DEF none
    <2>5. /\ r.todo = <<>> /\ r.created = mine.created
          /\ r.tok = mine.tok /\ r.pc = "acquired"
      BY DEF LocalState
    <2> HIDE DEF r
    <2> QED
      BY <1>1, <2>1, <2>4, <2>5 DEF TypeOK
  <1>2. CASE rest # <<>>
    <2>1. Head(rest) \in Slots
      BY <1>2
    <2>2. PICK order \in CoverOrders(Head(rest)) :
            st' = [st EXCEPT ![p] = [mine EXCEPT !.pc = "cover", !.todo = rest,
                                                 !.scan = order, !.seen = NoLease]]
      BY <1>2 DEF Begin
    <2> DEFINE r == [mine EXCEPT !.pc = "cover", !.todo = rest,
                                 !.scan = order, !.seen = NoLease]
    <2>3. order \in Seq(Slots) /\ ToSet(order) = Covers(Head(rest))
      BY <2>1, CoverOrderTyped
    <2>4. /\ r \in LocalState /\ r.todo = rest /\ r.created = mine.created
          /\ r.tok = mine.tok /\ r.pc = "cover" /\ r.scan = order
      BY <2>3 DEF LocalState, Points, AcquirePoints
    <2>5. st' = [st EXCEPT ![p] = r]
      BY <2>2
    <2> HIDE DEF r
    <2> QED
      BY <1>2, <2>3, <2>4, <2>5 DEF TypeOK
  <1> QED
    BY <1>1, <1>2

\* The next scope, or the end of the acquisition.
LEMMA BeginKeeps ==
  ASSUME OutsideSession, LeaseInv, NEW p \in Proc \ dead, NEW rest \in Seq(Slots),
         NEW mine \in LocalState, Begin(p, rest, mine),
         Listed(p)', MadeBy(p)' \subseteq Slots,
         \A s \in Slots : Own(p, s)' => s \in MadeBy(p)' /\ file'[s].age <= Ttl["auto"] - 2,
         \A s \in Asked(p) : s \in ToSet(rest) \/ MadeBy(p)' \cap Covers(s) # {}
  PROVE  Placed(p)' /\ VerbInv(p)'
  <1>1. /\ st'[p].todo = rest
        /\ \/ rest = <<>> /\ st'[p].pc = "acquired"
           \/ /\ rest # <<>> /\ st'[p].pc = "cover"
              /\ ToSet(st'[p].scan) = Covers(Head(rest))
    BY BeginEffect DEF LeaseInv
  <1>2. st'[p].pc \in {"acquired", "cover"}
    BY <1>1
  <1>3. Placed(p)'
    BY <1>1, <1>2 DEF Placed, Point, At, AcquirePoints, SlotPoints, SeenPoints,
       SectionPoints, BreakPoints
  <1>4. Recorded(p)' /\ Renewing(p)' /\ InDate(p)'
    BY <1>1, <1>2 DEF Recorded, Renewing, InDate, Point, VerifyPoints, RenewPoints,
       BeatPoints
  <1>5. Cleared(p)'
    BY <1>1, <1>2 DEF Cleared, Point, CoverPoints, ScanPoints, BreakPoints, Target
  <1>6. Covered(p)'
    BY <1>1, <1>2 DEF Covered, Point, HoldPoints, BodyPoints
  <1> QED
    BY <1>3, <1>4, <1>5, <1>6 DEF VerbInv

\* A step of p that changes its point, its scan and the lease it has seen.
Moves(p, point, slots, lease) ==
    /\ st' \in [Proc -> LocalState] /\ \A q \in Proc \ {p} : st'[q] = st[q]
    /\ st'[p].pc = point /\ st'[p].scan = slots /\ st'[p].seen = lease
    /\ UNCHANGED <<st[p].todo, st[p].created, st[p].tok, st[p].pass, st[p].held>>

LEMMA MovesIntro ==
  ASSUME TypeOK, NEW p \in Proc, NEW point \in Points, NEW slots \in Seq(Slots),
         NEW lease \in Lease \cup {NoLease},
         \/ /\ st' = [st EXCEPT ![p].pc = point]
            /\ slots = st[p].scan /\ lease = st[p].seen
         \/ /\ st' = [st EXCEPT ![p].scan = slots]
            /\ point = st[p].pc /\ lease = st[p].seen
         \/ /\ st' = [st EXCEPT ![p].pc = point, ![p].seen = lease]
            /\ slots = st[p].scan
         \/ /\ st' = [st EXCEPT ![p].pc = point, ![p].scan = slots]
            /\ lease = st[p].seen
         \/ st' = [st EXCEPT ![p].pc = point, ![p].scan = slots, ![p].seen = lease]
         \/ st' = [st EXCEPT ![p].pc = point, ![p].seen = lease, ![p].scan = slots]
  PROVE  Moves(p, point, slots, lease)
  <1> DEFINE r == [st[p] EXCEPT !.pc = point, !.scan = slots, !.seen = lease]
  <1>1. st \in [Proc -> LocalState] /\ st[p] \in LocalState
    BY DEF TypeOK
  <1>2. /\ r \in LocalState /\ r.pc = point /\ r.scan = slots /\ r.seen = lease
        /\ r.todo = st[p].todo /\ r.created = st[p].created /\ r.tok = st[p].tok
        /\ r.pass = st[p].pass /\ r.held = st[p].held
    BY <1>1 DEF LocalState
  <1>3. st' = [st EXCEPT ![p] = r]
    <2>1. CASE /\ st' = [st EXCEPT ![p].pc = point]
               /\ slots = st[p].scan /\ lease = st[p].seen
      <3>1. r = [st[p] EXCEPT !.pc = point]
        BY <1>1, <2>1 DEF LocalState
      <3> QED
        BY <2>1, <3>1
    <2>2. CASE /\ st' = [st EXCEPT ![p].scan = slots]
               /\ point = st[p].pc /\ lease = st[p].seen
      <3>1. r = [st[p] EXCEPT !.scan = slots]
        BY <1>1, <2>2 DEF LocalState
      <3> QED
        BY <2>2, <3>1
    <2>3. CASE /\ st' = [st EXCEPT ![p].pc = point, ![p].seen = lease]
               /\ slots = st[p].scan
      <3>1. r = [st[p] EXCEPT !.pc = point, !.seen = lease]
        BY <1>1, <2>3 DEF LocalState
      <3> QED
        BY <1>1, <2>3, <3>1
    <2>4. CASE /\ st' = [st EXCEPT ![p].pc = point, ![p].scan = slots]
               /\ lease = st[p].seen
      <3>1. r = [st[p] EXCEPT !.pc = point, !.scan = slots]
        BY <1>1, <2>4 DEF LocalState
      <3> QED
        BY <1>1, <2>4, <3>1
    <2>5. CASE st' = [st EXCEPT ![p].pc = point, ![p].scan = slots, ![p].seen = lease]
      BY <1>1, <2>5
    <2>6. CASE st' = [st EXCEPT ![p].pc = point, ![p].seen = lease, ![p].scan = slots]
      <3>1. r = [st[p] EXCEPT !.pc = point, !.seen = lease, !.scan = slots]
        BY <1>1 DEF LocalState
      <3> QED
        BY <1>1, <2>6, <3>1
    <2> QED
      BY <2>1, <2>2, <2>3, <2>4, <2>5, <2>6
  <1> HIDE DEF r
  <1> QED
    BY <1>1, <1>2, <1>3 DEF Moves

LEMMA GotoMoves ==
  ASSUME TypeOK, NEW p \in Proc, NEW point \in Points, Goto(p, point)
  PROVE  Moves(p, point, st[p].scan, st[p].seen)
  BY LocalTyped, MovesIntro DEF Goto

LEMMA NextSlotMoves ==
  ASSUME TypeOK, NEW p \in Proc, st[p].scan # <<>>, NextSlot(p)
  PROVE  /\ Moves(p, st[p].pc, Tail(st[p].scan), st[p].seen)
         /\ ToSet(st[p].scan) = {Slot(p)} \cup ToSet(Tail(st[p].scan))
  <1>1. st[p].scan \in Seq(Slots)
    BY LocalTyped
  <1>2. /\ Tail(st[p].scan) \in Seq(Slots)
        /\ ToSet(st[p].scan) = {Slot(p)} \cup ToSet(Tail(st[p].scan))
    BY <1>1, TailSet DEF Slot
  <1>3. Moves(p, st[p].pc, Tail(st[p].scan), st[p].seen)
    BY <1>2, LocalTyped, MovesIntro DEF NextSlot
  <1> QED
    BY <1>2, <1>3

\* What a process that takes a step may rely on.
LEMMA ActorFacts ==
  ASSUME LeaseInv, NEW p \in Proc, NEW points, At(p, points)
  PROVE  /\ p \in Proc \ dead /\ st[p].pc \in points /\ st[p].pc = Point(p)
         /\ TypeOK /\ st[p] \in LocalState /\ st[p].tok = NoToken /\ Placed(p)
         /\ Recorded(p) /\ Renewing(p) /\ InDate(p) /\ Cleared(p) /\ Covered(p)
         /\ \A s \in Slots : file[s] \in Lease \cup {NoLease}
  BY DEF LeaseInv, VerbInv, TypeOK, At, Point

\* A step within the acquisition that leaves the lease files alone.
LEMMA AcquireKeeps ==
  ASSUME OutsideSession, LeaseInv, NEW p \in Proc \ dead,
         UNCHANGED <<file, dead, due>>,
         brk' \in [Slots -> Proc \cup {NoProc}], brkOld' \subseteq Slots,
         holder' \in Proc \cup {NoProc},
         \A q \in Proc \ (dead \cup {p}) : holder = q => holder' = q /\ brk' = brk,
         st' \in [Proc -> LocalState], \A q \in Proc \ {p} : st'[q] = st[q],
         UNCHANGED <<st[p].todo, st[p].created, st[p].tok>>,
         Point(p) \in AcquirePoints, Point(p)' \in AcquirePoints,
         Point(p)' \in VerifyPoints <=> Point(p) \in VerifyPoints,
         Point(p) \in VerifyPoints => UNCHANGED st[p].seen,
         Placed(p)', Renewing(p)', Cleared(p)'
  PROVE  LeaseInv'
  <1>1. VerbInv(p) /\ st[p].tok = NoToken
    BY DEF LeaseInv
  <1>2. UNCHANGED <<MadeBy(p), Target(p)>> /\ \A s \in Slots : Own(p, s)' <=> Own(p, s)
    BY DEF MadeBy, Target, Own
  <1>3. Listed(p)'
    BY <1>1 DEF VerbInv, Recorded, Listed, Own
  <1>4. Point(p)' \notin {"start", "done", "body", "acquired"} \cup BodyPoints
    BY DEF AcquirePoints, SectionPoints, BodyPoints
  <1>5. Recorded(p)'
    BY <1>1, <1>2, <1>3, <1>4 DEF VerbInv, Recorded, Own, VerifyPoints
  <1>6. InDate(p)'
    BY <1>1, <1>2, <1>4 DEF VerbInv, InDate, BodyPoints, BeatPoints
  <1>7. Covered(p)'
    BY <1>1, <1>2, <1>4 DEF VerbInv, Covered, HoldPoints
  <1>8. Alone(p) /\ Touches(p)
    BY DEF Alone, Touches
  <1>9. Exclusive'
    BY <1>2, <1>8, ExclusiveKept
  <1> QED
    BY <1>1, <1>5, <1>6, <1>7, <1>8, <1>9, StepKeeps DEF VerbInv, LeaseInv, TypeOK

\* A step within the acquisition that only looks.
LEMMA AcquireLookKeeps ==
  ASSUME OutsideSession, LeaseInv, NEW p \in Proc \ dead,
         UNCHANGED <<file, brk, brkOld, holder, dead, due>>,
         NEW point \in AcquirePoints, NEW slots, NEW lease, Moves(p, point, slots, lease),
         Point(p) \in AcquirePoints,
         point \in VerifyPoints <=> Point(p) \in VerifyPoints,
         Point(p) \in VerifyPoints => lease = st[p].seen,
         Placed(p)', Renewing(p)', Cleared(p)'
  PROVE  LeaseInv'
  <1>1. TypeOK
    BY DEF LeaseInv
  <1> QED
    BY <1>1, AcquireKeeps DEF Moves, Point, VerifyPoints, TypeOK
-----------------------------------------------------------------------------
(* 1. Passing through.                                                     *)

LEMMA LookCoverKeeps ==
  ASSUME OutsideSession, LeaseInv, NEW p \in Proc, LookCover(p), UNCHANGED due
  PROVE  LeaseInv'
  <1>1. At(p, {"cover"}) /\ st[p].scan # <<>> /\ UNCHANGED <<file, brk, brkOld, holder, dead>>
    BY DEF LookCover
  <1>2. /\ p \in Proc \ dead /\ st[p].pc = "cover" /\ TypeOK
        /\ Placed(p) /\ Cleared(p) /\ Slot(p) \in Slots
        /\ file[Slot(p)] \in Lease \cup {NoLease} /\ st[p].scan \in Seq(Slots)
    BY <1>1, ActorFacts, LocalTyped
  <1>3. CASE Renewable(p, file[Slot(p)])
    <2>1. Own(p, Slot(p))
      BY <1>2, <1>3, MineIsOwn DEF Renewable, LiveLease
    <2>2. Moves(p, "renew", st[p].scan, file[Slot(p)])
      <3>1. st' = [st EXCEPT ![p].pc = "renew", ![p].seen = file[Slot(p)]]
        BY <1>3 DEF LookCover
      <3>2. "renew" \in Points
        BY DEF Points, AcquirePoints
      <3> QED
        BY <1>2, <3>1, <3>2, MovesIntro
    <2>3. Placed(p)' /\ Renewing(p)' /\ Cleared(p)'
      BY <1>1, <1>2, <2>1, <2>2
         DEF Moves, Placed, Renewing, Cleared, Point, At, SectionPoints, BreakPoints,
             CoverPoints, ScanPoints, Slot, Target, Own, IsLease, AcquirePoints,
             SlotPoints, SeenPoints
    <2> QED
      BY <1>1, <1>2, <2>2, <2>3, AcquireLookKeeps
         DEF Point, AcquirePoints, VerifyPoints
  <1>4. CASE ~Renewable(p, file[Slot(p)])
    <2>1. /\ Moves(p, "cover", Tail(st[p].scan), st[p].seen)
          /\ ToSet(Tail(st[p].scan)) \subseteq ToSet(st[p].scan)
      BY <1>1, <1>2, <1>4, NextSlotMoves DEF LookCover
    <2>2. Placed(p)' /\ Renewing(p)' /\ Cleared(p)'
      BY <1>1, <1>2, <2>1
         DEF Moves, Placed, Renewing, Cleared, Point, At, SectionPoints, BreakPoints,
             CoverPoints, ScanPoints, Slot, Target, RenewPoints, SlotPoints, SeenPoints
    <2> QED
      BY <1>1, <1>2, <2>1, <2>2, AcquireLookKeeps
         DEF Point, AcquirePoints, VerifyPoints
  <1> QED
    BY <1>3, <1>4

LEMMA NotCoveredKeeps ==
  ASSUME OutsideSession, LeaseInv, NEW p \in Proc,
         NotCovered(p) \/ MetaContended(p), UNCHANGED due
  PROVE  LeaseInv'
  <1>1. /\ At(p, {"cover", "meta"}) /\ UNCHANGED <<file, brk, brkOld, holder, dead>>
        /\ Goto(p, "meta") \/ Goto(p, "wait")
    BY DEF NotCovered, MetaContended, At
  <1>2. /\ p \in Proc \ dead /\ st[p].pc \in {"cover", "meta"} /\ TypeOK /\ Placed(p)
    BY <1>1, ActorFacts
  <1>3. PICK point \in {"meta", "wait"} : Moves(p, point, st[p].scan, st[p].seen)
    BY <1>1, <1>2, GotoMoves DEF Points, AcquirePoints
  <1>4. Placed(p)' /\ Renewing(p)' /\ Cleared(p)'
    BY <1>1, <1>2, <1>3
       DEF Moves, Placed, Renewing, Cleared, Point, At, SectionPoints, BreakPoints,
           CoverPoints, ScanPoints, RenewPoints, SlotPoints, SeenPoints, AcquirePoints
  <1> QED
    BY <1>1, <1>2, <1>3, <1>4, AcquireLookKeeps
       DEF Point, AcquirePoints, VerifyPoints, SectionPoints

LEMMA CheckCoverKeeps ==
  ASSUME OutsideSession, LeaseInv, NEW p \in Proc, CheckCover(p), UNCHANGED due
  PROVE  LeaseInv'
  <1>1. /\ At(p, {"renew"}) /\ UNCHANGED <<file, brk, brkOld, holder, dead>>
    BY DEF CheckCover, RenewCheck
  <1>2. /\ p \in Proc \ dead /\ st[p].pc = "renew" /\ TypeOK /\ Placed(p)
        /\ Cleared(p) /\ Renewing(p) /\ Point(p) = "renew"
    BY <1>1, ActorFacts
  <1>3. IsLease(file[Slot(p)]) /\ file[Slot(p)] = st[p].seen
    BY <1>2 DEF Renewing, RenewPoints, Own
  <1>4. Moves(p, "replace", st[p].scan, st[p].seen)
    BY <1>2, <1>3, GotoMoves DEF CheckCover, RenewCheck, Points, AcquirePoints
  <1>5. Placed(p)' /\ Renewing(p)' /\ Cleared(p)'
    BY <1>1, <1>2, <1>4
       DEF Moves, Placed, Renewing, Cleared, Point, At, SectionPoints, BreakPoints, Own,
           CoverPoints, ScanPoints, RenewPoints, SlotPoints, SeenPoints, AcquirePoints,
           Slot, Target
  <1> QED
    BY <1>1, <1>2, <1>4, <1>5, AcquireLookKeeps
       DEF Point, AcquirePoints, VerifyPoints, SectionPoints

LEMMA ReplaceCoverKeeps ==
  ASSUME OutsideSession, LeaseInv, NEW p \in Proc, ReplaceCover(p), UNCHANGED due
  PROVE  LeaseInv'
  <1> DEFINE rest == Tail(st[p].todo)
             mine == [st[p] EXCEPT !.pass = @ \cup {Slot(p)}]
             s == Slot(p)
  <1>1. /\ At(p, {"replace"}) /\ UNCHANGED <<brk, brkOld, holder, dead>>
        /\ file' = [file EXCEPT ![s] = [st[p].seen EXCEPT !.age = 0]]
        /\ Begin(p, rest, mine)
    BY DEF ReplaceCover, Write
  <1>2. /\ p \in Proc \ dead /\ st[p].pc = "replace" /\ Point(p) = "replace" /\ TypeOK
        /\ Placed(p) /\ Recorded(p) /\ Renewing(p) /\ InDate(p) /\ Cleared(p) /\ Covered(p)
        /\ st[p] \in LocalState /\ st[p].tok = NoToken
    BY <1>1, ActorFacts
  <1>3. st[p].todo # <<>> /\ st[p].scan # <<>> /\ s \in Slots /\ Target(p) \in Slots
    BY <1>2, LocalTyped DEF Placed, AcquirePoints, SlotPoints
  <1>4. /\ rest \in Seq(Slots) /\ ToSet(st[p].todo) = {Target(p)} \cup ToSet(rest)
    BY <1>2, <1>3, LocalTyped, TailSet DEF Target
  <1>5. mine \in LocalState /\ mine.created = st[p].created /\ mine.tok = st[p].tok
    BY <1>2, <1>3 DEF LocalState
  <1> HIDE DEF mine, rest
  <1>6. Own(p, s) /\ file[s] = st[p].seen /\ file[s] \in Lease /\ file[s].kind = "auto"
    BY <1>2, <1>3, OwnIsLive DEF Renewing, RenewPoints, Transient, Own, LeaseInv
  <1>7. /\ file'[s] \in Lease /\ file'[s].age = 0 /\ file'[s].pid = p /\ IsLease(file'[s])
        /\ file'[s].nonce = file[s].nonce /\ file'[s].kind = "auto"
        /\ file' \in [Slots -> Lease \cup {NoLease}]
        /\ \A t \in Slots \ {s} : file'[t] = file[t]
    BY <1>1, <1>2, <1>3, <1>6, MaxAgeNat, NoLeaseAssumption DEF TypeOK, Lease, Own, IsLease
  <1>8. /\ st' \in [Proc -> LocalState] /\ \A q \in Proc \ {p} : st'[q] = st[q]
        /\ st'[p].created = st[p].created /\ st'[p].tok = NoToken
    BY <1>1, <1>2, <1>4, <1>5, BeginEffect
  <1>9. Alone(p) /\ Touches(p)
    BY <1>1, <1>6, <1>7, <1>8 DEF Alone, Touches, Own
  <1>10. \A t \in Slots : Own(p, t)' <=> Own(p, t)
    BY <1>6, <1>7 DEF Own
  <1>11. MadeBy(p)' = MadeBy(p) /\ MadeBy(p) \subseteq Slots
    BY <1>2, <1>8, LocalTyped DEF MadeBy
  <1>12. Listed(p)'
    BY <1>2, <1>6, <1>7, <1>8, LocalTyped DEF Recorded, Listed, Own
  <1>13. \A t \in Slots : Own(p, t)' => t \in MadeBy(p)' /\ file'[t].age <= Ttl["auto"] - 2
    BY <1>2, <1>7, <1>10, <1>11, AutoTtl DEF Recorded, InDate, VerifyPoints
  <1>14. \A t \in Asked(p) : t \in ToSet(rest) \/ MadeBy(p)' \cap Covers(t) # {}
    <2>1. s \in MadeBy(p) /\ s \in Covers(Target(p))
      BY <1>2, <1>3, <1>6, LocalTyped, TailSet
         DEF Recorded, VerifyPoints, Cleared, CoverPoints, Slot
    <2> QED
      BY <1>2, <1>4, <1>11, <2>1 DEF Covered, AcquirePoints
  <1>15. Placed(p)' /\ VerbInv(p)'
    BY <1>1, <1>2, <1>4, <1>5, <1>11, <1>12, <1>13, <1>14, BeginKeeps
  <1>16. Exclusive'
    BY <1>1, <1>2, <1>9, <1>10, ExclusiveKept
  <1> QED
    BY <1>1, <1>2, <1>7, <1>8, <1>9, <1>15, <1>16, StepKeeps DEF TypeOK
-----------------------------------------------------------------------------
(* 2. Inside the section.                                                  *)

LEMMA EnterSectionKeeps ==
  ASSUME OutsideSession, LeaseInv, NEW p \in Proc, EnterSection(p), UNCHANGED due
  PROVE  LeaseInv'
  <1>1. /\ At(p, {"meta"}) /\ UNCHANGED <<file, brk, brkOld, dead>>
        /\ holder = NoProc /\ holder' = p
        /\ st' = [st EXCEPT ![p].pc = "scan", ![p].scan = ConflictPaths(Target(p))]
    BY DEF EnterSection, Section!Enter
  <1>2. /\ p \in Proc \ dead /\ st[p].pc = "meta" /\ Point(p) = "meta" /\ TypeOK
        /\ Placed(p) /\ Target(p) \in Slots
    BY <1>1, ActorFacts, LocalTyped DEF AcquirePoints
  <1>3. ConflictPaths(Target(p)) \in Seq(Slots)
    BY <1>2, ConflictPathsTyped
  <1>4. Moves(p, "scan", ConflictPaths(Target(p)), st[p].seen)
    BY <1>1, <1>2, <1>3, MovesIntro, LocalTyped DEF Points, AcquirePoints, SectionPoints
  <1>5. NoProc \notin Proc
    BY LeasesAssumption DEF Pids
  <1>6. UNCHANGED Target(p)
    BY <1>4 DEF Moves, Target
  <1>7. Placed(p)' /\ Renewing(p)'
    BY <1>1, <1>2, <1>4
       DEF Moves, Placed, Renewing, Point, At, SectionPoints, BreakPoints,
           RenewPoints, SlotPoints, SeenPoints, AcquirePoints
  <1>8. Cleared(p)'
    BY <1>2, <1>4, <1>6 DEF Moves, Cleared, Point, CoverPoints
  <1> QED
    BY <1>1, <1>2, <1>4, <1>5, <1>7, <1>8, AcquireKeeps
       DEF Moves, Point, AcquirePoints, SectionPoints, VerifyPoints, TypeOK

LEMMA ReclaimSectionKeeps ==
  ASSUME OutsideSession, LeaseInv, NEW p \in Proc, ReclaimSection(p), UNCHANGED due
  PROVE  LeaseInv'
  <1>1. /\ At(p, {"meta"}) /\ UNCHANGED <<file, brk, brkOld, dead>>
        /\ holder \in dead /\ holder' = NoProc
        /\ Goto(p, "wait")
    BY DEF ReclaimSection, Section!Reclaim
  <1>2. p \in Proc \ dead /\ st[p].pc = "meta" /\ Point(p) = "meta" /\ TypeOK /\ Placed(p)
    BY <1>1, ActorFacts
  <1>3. Moves(p, "wait", st[p].scan, st[p].seen)
    BY <1>1, <1>2, GotoMoves DEF Points, AcquirePoints
  <1>4. Placed(p)' /\ Renewing(p)' /\ Cleared(p)'
    BY <1>1, <1>2, <1>3
       DEF Moves, Placed, Renewing, Cleared, Point, At, SectionPoints, BreakPoints,
           CoverPoints, ScanPoints, RenewPoints, SlotPoints, SeenPoints, AcquirePoints
  <1> QED
    BY <1>1, <1>2, <1>3, <1>4, AcquireKeeps
       DEF Moves, Point, AcquirePoints, SectionPoints, VerifyPoints, TypeOK

\* A slot that the scan passes has no living verb's lease but ours.
LEMMA PassedSlot ==
  ASSUME LeaseInv, NEW p \in Proc \ dead, Point(p) \in ScanPoints, st[p].scan # <<>>,
         \A q \in Proc \ (dead \cup {p}) : ~Own(q, Slot(p)),
         UNCHANGED <<file, dead>>, Moves(p, "scan", Tail(st[p].scan), st[p].seen)
  PROVE  Cleared(p)'
  <1>1. ToSet(st[p].scan) = {Slot(p)} \cup ToSet(Tail(st[p].scan))
    BY LocalTyped, TailSet DEF LeaseInv, Slot
  <1>2. UNCHANGED Target(p) /\ st'[p].scan = Tail(st[p].scan) /\ st'[p].pc = "scan"
    BY DEF Moves, Target
  <1>3. Cleared(p)
    BY DEF LeaseInv, VerbInv
  <1> QED
    BY <1>1, <1>2, <1>3 DEF Cleared, Point, CoverPoints, Own

LEMMA ScanKeeps ==
  ASSUME OutsideSession, LeaseInv, NEW p \in Proc, Scan(p), UNCHANGED due
  PROVE  LeaseInv'
  <1> DEFINE l == file[Slot(p)]
             foreign == IsLease(l) /\ ~Mine(p, l)
             lapsed == /\ IsLease(l) /\ Mine(p, l) /\ Slot(p) = Target(p)
                       /\ IsStale(l, dead) \/ Unrenewable(l)
  <1>1. /\ At(p, {"scan"}) /\ st[p].scan # <<>> /\ UNCHANGED <<file, brk, brkOld, holder, dead>>
        /\ \/ foreign /\ (Goto(p, "break") \/ Goto(p, "blocked"))
           \/ lapsed
           \/ ~foreign /\ ~lapsed /\ NextSlot(p)
    BY DEF Scan
  <1>2. /\ p \in Proc \ dead /\ st[p].pc = "scan" /\ Point(p) = "scan" /\ TypeOK
        /\ Placed(p) /\ Cleared(p) /\ Slot(p) \in Slots
    BY <1>1, ActorFacts, LocalTyped
  <1>3. ~lapsed
    BY <1>2, MineIsOwn, OwnIsLive
  <1>4. CASE foreign
    <2>1. PICK point \in {"break", "blocked"} : Moves(p, point, st[p].scan, st[p].seen)
      BY <1>1, <1>2, <1>3, <1>4, GotoMoves DEF Points, AcquirePoints, SectionPoints
    <2>2. Placed(p)' /\ Renewing(p)' /\ Cleared(p)'
      BY <1>1, <1>2, <2>1
         DEF Moves, Placed, Renewing, Cleared, Point, At, SectionPoints, BreakPoints,
             CoverPoints, ScanPoints, RenewPoints, SlotPoints, SeenPoints, AcquirePoints,
             Target, Own
    <2> QED
      BY <1>1, <1>2, <2>1, <2>2, AcquireLookKeeps
         DEF Point, AcquirePoints, SectionPoints, VerifyPoints
  <1>5. CASE ~foreign
    <2>1. Moves(p, "scan", Tail(st[p].scan), st[p].seen)
      BY <1>1, <1>2, <1>3, <1>5, NextSlotMoves
    <2>2. ASSUME NEW q \in Proc \ (dead \cup {p}), Own(q, Slot(p)) PROVE FALSE
      BY <1>2, <1>5, <2>2, MineIsOwn DEF Own
    <2>3. Cleared(p)'
      BY <1>1, <1>2, <2>1, <2>2, PassedSlot DEF ScanPoints
    <2>4. Placed(p)' /\ Renewing(p)'
      BY <1>1, <1>2, <2>1
         DEF Moves, Placed, Renewing, Point, At, SectionPoints, BreakPoints,
             RenewPoints, SlotPoints, SeenPoints, AcquirePoints
    <2> QED
      BY <1>1, <1>2, <2>1, <2>3, <2>4, AcquireLookKeeps
         DEF Point, AcquirePoints, SectionPoints, VerifyPoints
  <1> QED
    BY <1>4, <1>5

LEMMA TakeBreakKeeps ==
  ASSUME OutsideSession, LeaseInv, NEW p \in Proc, TakeBreak(p), UNCHANGED due
  PROVE  LeaseInv'
  <1>1. /\ At(p, {"break"}) /\ UNCHANGED <<file, brkOld, holder, dead>>
        /\ \/ brk' = [brk EXCEPT ![Slot(p)] = p] /\ Goto(p, "breakRead")
           \/ brk' = brk /\ Goto(p, "breakBusy")
    BY DEF TakeBreak
  <1>2. /\ p \in Proc \ dead /\ st[p].pc = "break" /\ Point(p) = "break" /\ TypeOK
        /\ Placed(p) /\ Cleared(p) /\ Slot(p) \in Slots /\ holder = p
    BY <1>1, ActorFacts, LocalTyped DEF Placed, SlotPoints, At, SectionPoints
  <1>3. PICK point \in {"breakRead", "breakBusy"} :
          /\ Moves(p, point, st[p].scan, st[p].seen)
          /\ point = "breakRead" => brk'[Slot(p)] = p
    <2>1. CASE brk' = [brk EXCEPT ![Slot(p)] = p] /\ Goto(p, "breakRead")
      BY <1>2, <2>1, GotoMoves
         DEF TypeOK, Points, AcquirePoints, SectionPoints
    <2>2. CASE brk' = brk /\ Goto(p, "breakBusy")
      BY <1>2, <2>2, GotoMoves DEF Points, AcquirePoints, SectionPoints
    <2> QED
      BY <1>1, <2>1, <2>2
  <1>4. UNCHANGED <<Target(p), Slot(p)>>
    BY <1>3 DEF Moves, Target, Slot
  <1>5. brk' \in [Slots -> Proc \cup {NoProc}]
    BY <1>1, <1>2 DEF TypeOK
  <1>6. Placed(p)' /\ Renewing(p)' /\ Cleared(p)'
    BY <1>1, <1>2, <1>3, <1>4
       DEF Moves, Placed, Renewing, Cleared, Point, At, SectionPoints, BreakPoints,
           CoverPoints, ScanPoints, RenewPoints, SlotPoints, SeenPoints, AcquirePoints, Own
  <1> QED
    BY <1>1, <1>2, <1>3, <1>5, <1>6, AcquireKeeps
       DEF Moves, Point, AcquirePoints, SectionPoints, VerifyPoints, TypeOK

LEMMA BreakLookKeeps ==
  ASSUME OutsideSession, LeaseInv, NEW p \in Proc, BreakBusy(p) \/ BreakRead(p), UNCHANGED due
  PROVE  LeaseInv'
  <1> DEFINE l == file[Slot(p)]
  <1>1. /\ At(p, {"breakBusy", "breakRead"}) /\ UNCHANGED <<file, brk, brkOld, holder, dead>>
        /\ \/ /\ At(p, {"breakBusy"})
              /\ Goto(p, "breakClear") \/ Goto(p, "reread")
           \/ /\ At(p, {"breakRead"})
              /\ \/ ~IsLease(l) /\ Goto(p, "dropFree")
                 \/ ~LiveLease(l, dead) /\ Goto(p, "breakUnlink")
                 \/ Goto(p, "dropLive")
    BY DEF BreakBusy, BreakRead, LiveLease, At
  <1>2. /\ p \in Proc \ dead /\ st[p].pc \in {"breakBusy", "breakRead"} /\ Point(p) = st[p].pc
        /\ TypeOK /\ Placed(p) /\ Cleared(p)
    BY <1>1, ActorFacts
  <1>3. PICK point \in {"breakClear", "reread", "dropFree", "breakUnlink", "dropLive"} :
          /\ Moves(p, point, st[p].scan, st[p].seen)
          /\ point \in BreakPoints => At(p, {"breakRead"})
          /\ point = "dropFree" => ~IsLease(l)
          /\ point = "breakUnlink" => ~LiveLease(l, dead)
    BY <1>1, <1>2, GotoMoves DEF Points, AcquirePoints, SectionPoints, BreakPoints
  <1>4. UNCHANGED <<Target(p), Slot(p)>>
    BY <1>3 DEF Moves, Target, Slot
  <1>5. Placed(p)'
    BY <1>1, <1>2, <1>3, <1>4
       DEF Moves, Placed, Point, At, SectionPoints, BreakPoints, SlotPoints, SeenPoints,
           AcquirePoints
  <1>6. Renewing(p)' /\ Cleared(p)'
    BY <1>1, <1>2, <1>3, <1>4
       DEF Moves, Renewing, Cleared, Point, BreakPoints, CoverPoints, ScanPoints,
           RenewPoints, Own, IsLease
  <1> QED
    BY <1>1, <1>2, <1>3, <1>5, <1>6, AcquireLookKeeps
       DEF Point, AcquirePoints, SectionPoints, VerifyPoints

LEMMA BreakClearKeeps ==
  ASSUME OutsideSession, LeaseInv, NEW p \in Proc, BreakClear(p) \/ BreakRefused(p),
         UNCHANGED due
  PROVE  LeaseInv'
  <1>1. /\ At(p, {"breakClear", "dropLive"}) /\ UNCHANGED <<file, holder, dead>>
        /\ brk' = [brk EXCEPT ![Slot(p)] = NoProc] /\ brkOld' = brkOld \ {Slot(p)}
        /\ Goto(p, "reread")
    BY DEF BreakClear, BreakRefused, UnlinkBreak, At
  <1>2. /\ p \in Proc \ dead /\ st[p].pc \in {"breakClear", "dropLive"} /\ Point(p) = st[p].pc
        /\ TypeOK /\ Placed(p) /\ Cleared(p) /\ holder = p
    BY <1>1, ActorFacts DEF Placed, At, SectionPoints
  <1>3. Moves(p, "reread", st[p].scan, st[p].seen)
    BY <1>1, <1>2, GotoMoves DEF Points, AcquirePoints, SectionPoints
  <1>4. UNCHANGED Target(p)
    BY <1>3 DEF Moves, Target
  <1>5. brk' \in [Slots -> Proc \cup {NoProc}] /\ brkOld' \subseteq Slots
    BY <1>1, <1>2 DEF TypeOK
  <1>6. Placed(p)' /\ Renewing(p)' /\ Cleared(p)'
    BY <1>1, <1>2, <1>3, <1>4
       DEF Moves, Placed, Renewing, Cleared, Point, At, SectionPoints, BreakPoints,
           CoverPoints, ScanPoints, RenewPoints, SlotPoints, SeenPoints, AcquirePoints, Own
  <1> QED
    BY <1>1, <1>2, <1>3, <1>5, <1>6, AcquireKeeps
       DEF Moves, Point, AcquirePoints, SectionPoints, VerifyPoints, TypeOK

LEMMA BreakDoneKeeps ==
  ASSUME OutsideSession, LeaseInv, NEW p \in Proc, BreakDone(p), UNCHANGED due
  PROVE  LeaseInv'
  <1>1. /\ At(p, {"dropFree"}) /\ UNCHANGED <<file, holder, dead>>
        /\ brk' = [brk EXCEPT ![Slot(p)] = NoProc] /\ brkOld' = brkOld \ {Slot(p)}
        /\ st' = [st EXCEPT ![p].pc = "scan", ![p].scan = Tail(st[p].scan)]
    BY DEF BreakDone, UnlinkBreak
  <1>2. /\ p \in Proc \ dead /\ st[p].pc = "dropFree" /\ Point(p) = st[p].pc
        /\ TypeOK /\ Placed(p) /\ Cleared(p) /\ holder = p /\ st[p].scan # <<>>
    BY <1>1, ActorFacts DEF Placed, At, SectionPoints, SlotPoints
  <1>3. Moves(p, "scan", Tail(st[p].scan), st[p].seen)
    BY <1>1, <1>2, MovesIntro, LocalTyped, TailSet DEF Points, AcquirePoints, SectionPoints
  <1>4. file[Slot(p)] = NoLease
    BY <1>2 DEF Cleared
  <1>5. Cleared(p)'
    BY <1>1, <1>2, <1>3, <1>4, PassedSlot DEF ScanPoints, BreakPoints, Own, IsLease
  <1>6. brk' \in [Slots -> Proc \cup {NoProc}] /\ brkOld' \subseteq Slots
    BY <1>1, <1>2 DEF TypeOK
  <1>7. Placed(p)' /\ Renewing(p)'
    BY <1>1, <1>2, <1>3
       DEF Moves, Placed, Renewing, Point, At, SectionPoints, BreakPoints,
           RenewPoints, SlotPoints, SeenPoints, AcquirePoints
  <1> QED
    BY <1>1, <1>2, <1>3, <1>5, <1>6, <1>7, AcquireKeeps
       DEF Moves, Point, AcquirePoints, SectionPoints, VerifyPoints, TypeOK

LEMMA RereadKeeps ==
  ASSUME OutsideSession, LeaseInv, NEW p \in Proc, Reread(p), UNCHANGED due
  PROVE  LeaseInv'
  <1>1. /\ At(p, {"reread"}) /\ UNCHANGED <<file, brk, brkOld, holder, dead>>
        /\ \/ st' = [st EXCEPT ![p].pc = "blocked"]
           \/ /\ ~IsLease(file[Slot(p)])
              /\ st' = [st EXCEPT ![p].pc = "scan", ![p].scan = Tail(st[p].scan)]
    BY DEF Reread
  <1>2. /\ p \in Proc \ dead /\ st[p].pc = "reread" /\ Point(p) = st[p].pc
        /\ TypeOK /\ Placed(p) /\ Cleared(p) /\ holder = p /\ st[p].scan # <<>>
    BY <1>1, ActorFacts DEF Placed, At, SectionPoints, SlotPoints
  <1>3. CASE st' = [st EXCEPT ![p].pc = "blocked"]
    <2>1. Moves(p, "blocked", st[p].scan, st[p].seen)
      BY <1>2, <1>3, MovesIntro, LocalTyped DEF Points, AcquirePoints, SectionPoints
    <2>2. Placed(p)' /\ Renewing(p)' /\ Cleared(p)'
      BY <1>1, <1>2, <2>1
         DEF Moves, Placed, Renewing, Cleared, Point, At, SectionPoints, BreakPoints,
             CoverPoints, ScanPoints, RenewPoints, SlotPoints, SeenPoints, AcquirePoints
    <2> QED
      BY <1>1, <1>2, <2>1, <2>2, AcquireLookKeeps
         DEF Point, AcquirePoints, SectionPoints, VerifyPoints
  <1>4. CASE /\ ~IsLease(file[Slot(p)])
             /\ st' = [st EXCEPT ![p].pc = "scan", ![p].scan = Tail(st[p].scan)]
    <2>1. Moves(p, "scan", Tail(st[p].scan), st[p].seen)
      BY <1>2, <1>4, MovesIntro, LocalTyped, TailSet DEF Points, AcquirePoints, SectionPoints
    <2>2. Cleared(p)'
      BY <1>1, <1>2, <1>4, <2>1, PassedSlot DEF ScanPoints, BreakPoints, Own
    <2>3. Placed(p)' /\ Renewing(p)'
      BY <1>1, <1>2, <2>1
         DEF Moves, Placed, Renewing, Point, At, SectionPoints, BreakPoints,
             RenewPoints, SlotPoints, SeenPoints, AcquirePoints
    <2> QED
      BY <1>1, <1>2, <2>1, <2>2, <2>3, AcquireLookKeeps
         DEF Point, AcquirePoints, SectionPoints, VerifyPoints
  <1> QED
    BY <1>1, <1>3, <1>4

LEMMA BreakUnlinkKeeps ==
  ASSUME OutsideSession, LeaseInv, NEW p \in Proc, BreakUnlink(p), UNCHANGED due
  PROVE  LeaseInv'
  <1> DEFINE s == Slot(p)
  <1>1. /\ At(p, {"breakUnlink"}) /\ UNCHANGED <<brk, brkOld, holder, dead>>
        /\ file' = [file EXCEPT ![s] = NoLease] /\ Goto(p, "dropFree")
    BY DEF BreakUnlink, Unlink, Write
  <1>2. /\ p \in Proc \ dead /\ st[p].pc = "breakUnlink" /\ Point(p) = st[p].pc
        /\ st[p].tok = NoToken /\ TypeOK /\ Placed(p) /\ holder = p /\ s \in Slots
        /\ Recorded(p) /\ InDate(p) /\ Cleared(p) /\ Covered(p)
    BY <1>1, ActorFacts, LocalTyped DEF Placed, At, SectionPoints, SlotPoints
  <1>3. Moves(p, "dropFree", st[p].scan, st[p].seen)
    BY <1>1, <1>2, GotoMoves DEF Points, AcquirePoints, SectionPoints
  <1>4. /\ file' \in [Slots -> Lease \cup {NoLease}] /\ file'[s] = NoLease
        /\ \A t \in Slots \ {s} : file'[t] = file[t]
    BY <1>1, <1>2 DEF TypeOK
  <1>5. ~LiveLease(file[s], dead)
    BY <1>2 DEF Cleared
  <1>6. \A q \in Proc \ dead : ~Own(q, s)
    BY <1>2, <1>5, OwnIsLive DEF LiveLease, Own
  <1>7. Alone(p) /\ Touches(p)
    BY <1>1, <1>2, <1>3, <1>4, <1>5 DEF Alone, Touches, Moves
  <1>8. \A q \in Proc \ dead, t \in Slots : Own(q, t)' <=> Own(q, t)
    BY <1>4, <1>6 DEF Own, IsLease
  <1>9. \A t \in Slots : Own(p, t) => file'[t] = file[t]
    BY <1>2, <1>4, <1>6
  <1>10. /\ UNCHANGED <<Target(p), Slot(p), MadeBy(p), st[p].created, st[p].todo>>
         /\ st'[p].pc = "dropFree" /\ st'[p].scan = st[p].scan
    BY <1>3 DEF Moves, Target, Slot, MadeBy
  <1>11. Recorded(p)'
    BY <1>2, <1>8, <1>9, <1>10, LocalTyped DEF Recorded, Listed, Point, VerifyPoints
  <1>12. Placed(p)'
    BY <1>1, <1>2, <1>10 DEF Placed, Point, At, AcquirePoints, SectionPoints, BreakPoints,
       SlotPoints, SeenPoints
  <1>13. Renewing(p)' /\ InDate(p)' /\ Covered(p)'
    BY <1>2, <1>8, <1>9, <1>10
       DEF Renewing, InDate, Covered, Point, RenewPoints, BeatPoints, AcquirePoints,
           SectionPoints, HoldPoints, BodyPoints
  <1>14. ToSet(ConflictPaths(Target(p))) \subseteq Slots
    BY <1>2, LocalTyped, ConflictPathsTyped DEF AcquirePoints, SectionPoints
  <1>15. Cleared(p)'
    BY <1>1, <1>2, <1>4, <1>8, <1>10, <1>14
       DEF Cleared, Point, CoverPoints, ScanPoints, BreakPoints
  <1>16. Exclusive'
    BY <1>1, <1>2, <1>7, <1>8, ExclusiveKept
  <1> QED
    BY <1>1, <1>2, <1>3, <1>4, <1>7, <1>11, <1>12, <1>13, <1>15, <1>16, StepKeeps
       DEF TypeOK, Moves, VerbInv

LEMMA CreateKeeps ==
  ASSUME OutsideSession, LeaseInv, NEW p \in Proc, Create(p), UNCHANGED due
  PROVE  LeaseInv'
  <1> DEFINE s == Target(p)
  <1>1. /\ At(p, {"scan"}) /\ st[p].scan = <<>> /\ UNCHANGED <<brk, brkOld, holder, dead>>
        /\ \/ /\ file[s] = NoLease
              /\ \E n \in FreshNonces :
                   /\ file' = [file EXCEPT ![s] = NewLease(p, n)]
                   /\ st' = [st EXCEPT ![p].pc = "verify", ![p].seen = NewLease(p, n),
                                       ![p].scan = RivalPaths(s)]
           \/ Goto(p, "blocked") /\ file' = file
    BY DEF Create, Write
  <1>2. /\ p \in Proc \ dead /\ st[p].pc = "scan" /\ Point(p) = st[p].pc
        /\ st[p].tok = NoToken /\ TypeOK /\ Placed(p) /\ holder = p /\ s \in Slots
        /\ Recorded(p) /\ InDate(p) /\ Cleared(p) /\ Covered(p)
    BY <1>1, ActorFacts, LocalTyped DEF Placed, At, SectionPoints, AcquirePoints
  <1>3. CASE Goto(p, "blocked") /\ file' = file
    <2>1. Moves(p, "blocked", st[p].scan, st[p].seen)
      BY <1>2, <1>3, GotoMoves DEF Points, AcquirePoints, SectionPoints
    <2>2. Placed(p)' /\ Renewing(p)' /\ Cleared(p)'
      BY <1>1, <1>2, <2>1
         DEF Moves, Placed, Renewing, Cleared, Point, At, SectionPoints, BreakPoints,
             CoverPoints, ScanPoints, RenewPoints, SlotPoints, SeenPoints, AcquirePoints
    <2> QED
      BY <1>1, <1>2, <1>3, <2>1, <2>2, AcquireLookKeeps
         DEF Point, AcquirePoints, SectionPoints, VerifyPoints
  <1>4. ASSUME file[s] = NoLease, NEW n \in FreshNonces,
               file' = [file EXCEPT ![s] = NewLease(p, n)],
               st' = [st EXCEPT ![p].pc = "verify", ![p].seen = NewLease(p, n),
                                ![p].scan = RivalPaths(s)]
        PROVE  LeaseInv'
    <2> DEFINE new == NewLease(p, n)
    <2>1. /\ new \in Lease /\ new # NoLease /\ new.pid = p /\ new.kind = "auto"
          /\ new.age = 0 /\ new.nonce = n
      <3>1. new = [pid |-> p, token |-> NoToken, kind |-> "auto", age |-> 0, nonce |-> n]
        BY <1>2 DEF NewLease, OutsideSession
      <3>2. p \in Pids /\ "auto" \in Kinds /\ 0 \in 0..MaxAge /\ n \in Nonces
        BY <1>2, MaxAgeNat DEF Pids, Kinds, FreshNonces, Unused
      <3>3. new \in Lease
        BY <3>1, <3>2 DEF Lease
      <3> QED
        BY <3>1, <3>3, NoLeaseAssumption
    <2> HIDE DEF new
    <2>2. Moves(p, "verify", RivalPaths(s), new)
      <3>1. RivalPaths(s) \in Seq(Slots) /\ "verify" \in Points
        BY <1>2, ConflictPathsTyped DEF Points, AcquirePoints, SectionPoints
      <3>2. st' = [st EXCEPT ![p].pc = "verify", ![p].seen = new,
                             ![p].scan = RivalPaths(s)]
        BY <1>4 DEF new
      <3> QED
        BY <1>2, <2>1, <3>1, <3>2, MovesIntro
    <2>3. /\ file' \in [Slots -> Lease \cup {NoLease}] /\ file'[s] = new
          /\ \A t \in Slots \ {s} : file'[t] = file[t]
      BY <1>2, <1>4, <2>1 DEF TypeOK, new
    <2>4. /\ UNCHANGED <<Target(p), MadeBy(p), st[p].created, st[p].todo>>
          /\ st'[p].pc = "verify" /\ st'[p].seen = new
      BY <2>2 DEF Moves, Target, MadeBy
    <2>5. Own(p, s)' /\ \A t \in Slots \ {s} : Own(p, t)' <=> Own(p, t)
      BY <2>1, <2>3, <2>4 DEF Own, IsLease
    <2>6. Alone(p) /\ Touches(p)
      <3>1. Alone(p)
        BY <1>1, <1>2, <2>2 DEF Alone, Moves
      <3>2. ~LiveLease(file[s], dead)
        BY <1>4 DEF LiveLease, IsLease
      <3>3. file'[s].pid = p /\ file'[s].kind = "auto" /\ IsLease(file'[s])
        BY <2>1, <2>3 DEF IsLease
      <3>4. Touches(p)
        BY <1>2, <1>4, <2>3, <3>2, <3>3 DEF Touches, Own
      <3> QED
        BY <3>1, <3>4
    <2>7. s \notin MadeBy(p)
      BY <1>2, <1>4 DEF Recorded, Listed, Own, IsLease, MadeBy
    <2>8. Listed(p)'
      BY <1>2, <2>3, <2>4, <2>5, <2>7, LocalTyped DEF Recorded, Listed, MadeBy
    <2>9. Recorded(p)'
      BY <1>2, <2>1, <2>3, <2>4, <2>5, <2>7, <2>8 DEF Recorded, Point, VerifyPoints
    <2>10. Placed(p)'
      BY <1>1, <1>2, <2>1, <2>4 DEF Placed, Point, At, AcquirePoints, SectionPoints,
         BreakPoints, SlotPoints, SeenPoints
    <2>11. InDate(p)'
      BY <1>2, <2>1, <2>3, <2>4, <2>5, AutoTtl DEF InDate, Point, BeatPoints
    <2>12. Renewing(p)' /\ Covered(p)' /\ Cleared(p)'
      BY <1>2, <2>4 DEF Renewing, Covered, Cleared, Point, RenewPoints, AcquirePoints,
         SectionPoints, HoldPoints, BodyPoints, CoverPoints, ScanPoints, BreakPoints
    <2>13. Exclusive'
      <3>1. \A q \in Proc \ (dead \cup {p}) :
               \A t \in ToSet(ConflictPaths(s)) : ~Own(q, t)
        BY <1>1, <1>2, EmptySet DEF Cleared, ScanPoints
      <3>2. All \in ToSet(ConflictPaths(s)) /\ (s = All => ToSet(ConflictPaths(s)) = Slots)
        BY <1>2, ConflictPathsTyped, PathSets DEF Covers
      <3>3. \A q \in Proc \ (dead \cup {p}), t \in Slots : Own(q, t)' <=> (Own(q, t) /\ t # s)
        BY <1>4, <2>1, <2>3 DEF Own, IsLease
      <3> QED
        BY <1>1, <1>2, <2>5, <3>1, <3>2, <3>3, PathSets, ZenonT(40) DEF LeaseInv, Exclusive
    <2> QED
      BY <1>1, <1>2, <2>2, <2>3, <2>6, <2>9, <2>10, <2>11, <2>12, <2>13, StepKeeps
         DEF TypeOK, Moves, VerbInv
  <1> QED
    BY <1>1, <1>3, <1>4

LEMMA VerifyKeeps ==
  ASSUME OutsideSession, LeaseInv, NEW p \in Proc, Verify(p) \/ Backoff(p), UNCHANGED due
  PROVE  LeaseInv'
  <1>1. /\ At(p, {"verify", "backoff"}) /\ UNCHANGED <<file, brk, brkOld, holder, dead>>
        /\ \/ At(p, {"verify"}) /\ Goto(p, "backoff")
           \/ At(p, {"verify"}) /\ st[p].scan # <<>> /\ NextSlot(p)
           \/ At(p, {"backoff"}) /\ Goto(p, IF IsLease(file[Target(p)])
                                               /\ file[Target(p)].nonce = st[p].seen.nonce
                                            THEN "backoffUnlink" ELSE "blocked")
    BY DEF Verify, Backoff, At
  <1>2. /\ p \in Proc \ dead /\ st[p].pc \in {"verify", "backoff"} /\ Point(p) = st[p].pc
        /\ TypeOK /\ Placed(p) /\ Recorded(p)
    BY <1>1, ActorFacts
  <1>3. IsLease(file[Target(p)]) /\ file[Target(p)].nonce = st[p].seen.nonce
    BY <1>2 DEF Recorded, VerifyPoints, Own
  <1>4. PICK point \in VerifyPoints, slots \in Seq(Slots) : Moves(p, point, slots, st[p].seen)
    <2>1. VerifyPoints \subseteq Points
      BY DEF VerifyPoints, Points, AcquirePoints, SectionPoints
    <2> QED
      BY <1>1, <1>2, <1>3, <2>1, GotoMoves, NextSlotMoves, LocalTyped, TailSet
         DEF At, VerifyPoints
  <1>5. Placed(p)' /\ Renewing(p)' /\ Cleared(p)'
    BY <1>1, <1>2, <1>4
       DEF Moves, Placed, Renewing, Cleared, Point, At, SectionPoints, BreakPoints,
           CoverPoints, ScanPoints, RenewPoints, SlotPoints, SeenPoints, AcquirePoints,
           VerifyPoints
  <1> QED
    BY <1>1, <1>2, <1>4, <1>5, AcquireLookKeeps
       DEF Point, AcquirePoints, SectionPoints, VerifyPoints

LEMMA BackoffUnlinkKeeps ==
  ASSUME OutsideSession, LeaseInv, NEW p \in Proc, BackoffUnlink(p), UNCHANGED due
  PROVE  LeaseInv'
  <1>1. /\ At(p, {"backoffUnlink"}) /\ UNCHANGED <<brk, brkOld, holder, dead>>
        /\ file' = [file EXCEPT ![Target(p)] = NoLease] /\ Goto(p, "blocked")
    BY DEF BackoffUnlink, Unlink, Write
  <1>2. /\ p \in Proc \ dead /\ st[p].pc = "backoffUnlink" /\ Point(p) = st[p].pc
        /\ st[p].tok = NoToken /\ TypeOK /\ Placed(p) /\ Target(p) \in Slots
        /\ Recorded(p) /\ InDate(p) /\ Cleared(p) /\ Covered(p)
    BY <1>1, ActorFacts, LocalTyped DEF Placed, At, SectionPoints, AcquirePoints
  <1>3. Moves(p, "blocked", st[p].scan, st[p].seen)
    BY <1>1, <1>2, GotoMoves DEF Points, AcquirePoints, SectionPoints
  <1>4. /\ file' \in [Slots -> Lease \cup {NoLease}] /\ file'[Target(p)] = NoLease
        /\ \A t \in Slots \ {Target(p)} : file'[t] = file[t]
    BY <1>1, <1>2 DEF TypeOK
  <1>5. Own(p, Target(p)) /\ Target(p) \notin MadeBy(p)
    BY <1>2 DEF Recorded, VerifyPoints
  <1>6. Alone(p) /\ Touches(p)
    BY <1>1, <1>3, <1>4, <1>5 DEF Alone, Touches, Moves
  <1>7. \A t \in Slots : Own(p, t)' <=> Own(p, t) /\ t # Target(p)
    BY <1>4 DEF Own, IsLease
  <1>8. /\ UNCHANGED <<Target(p), MadeBy(p), st[p].created, st[p].todo>>
        /\ st'[p].pc = "blocked"
    BY <1>3 DEF Moves, Target, MadeBy
  <1>9. Listed(p)'
    BY <1>2, <1>4, <1>5, <1>7, <1>8, LocalTyped DEF Recorded, Listed, MadeBy
  <1>10. Recorded(p)'
    BY <1>2, <1>7, <1>8, <1>9 DEF Recorded, Point, VerifyPoints
  <1>11. Placed(p)'
    BY <1>1, <1>2, <1>8 DEF Placed, Point, At, AcquirePoints, SectionPoints, BreakPoints,
       SlotPoints, SeenPoints
  <1>12. Renewing(p)' /\ InDate(p)' /\ Covered(p)' /\ Cleared(p)'
    BY <1>2, <1>4, <1>7, <1>8
       DEF Renewing, InDate, Covered, Cleared, Point, RenewPoints, BeatPoints,
           AcquirePoints, SectionPoints, HoldPoints, BodyPoints, CoverPoints, ScanPoints,
           BreakPoints
  <1>13. Exclusive'
    BY <1>1, <1>2, <1>6, <1>7, ExclusiveKept
  <1> QED
    BY <1>1, <1>2, <1>3, <1>4, <1>6, <1>10, <1>11, <1>12, <1>13, StepKeeps
       DEF TypeOK, Moves, VerbInv

LEMMA BlockedKeeps ==
  ASSUME OutsideSession, LeaseInv, NEW p \in Proc, Blocked(p), UNCHANGED due
  PROVE  LeaseInv'
  <1>1. /\ At(p, {"blocked"}) /\ UNCHANGED <<file, brk, brkOld, dead>>
        /\ holder = p /\ holder' = NoProc
        /\ st' = [st EXCEPT ![p].pc = "wait", ![p].scan = <<>>, ![p].seen = NoLease]
    BY DEF Blocked, Section!Leave
  <1>2. p \in Proc \ dead /\ st[p].pc = "blocked" /\ Point(p) = st[p].pc /\ TypeOK /\ Placed(p)
    BY <1>1, ActorFacts
  <1>3. Moves(p, "wait", <<>>, NoLease)
    <2>1. "wait" \in Points /\ <<>> \in Seq(Slots)
      BY DEF Points, AcquirePoints
    <2> QED
      BY <1>1, <1>2, <2>1, MovesIntro
  <1>4. Placed(p)' /\ Renewing(p)' /\ Cleared(p)'
    BY <1>1, <1>2, <1>3
       DEF Moves, Placed, Renewing, Cleared, Point, At, SectionPoints, BreakPoints,
           CoverPoints, ScanPoints, RenewPoints, SlotPoints, SeenPoints, AcquirePoints
  <1> QED
    BY <1>1, <1>2, <1>3, <1>4, AcquireKeeps
       DEF Moves, Point, AcquirePoints, SectionPoints, VerifyPoints, TypeOK

LEMMA AppendCreated ==
  ASSUME NEW c \in Seq(Slots \X Nonces), NEW s \in Slots, NEW n \in Nonces
  PROVE  LET d == Append(c, <<s, n>>) IN
         /\ d \in Seq(Slots \X Nonces) /\ DOMAIN c = 1..Len(c) /\ Len(c) \in Nat
         /\ DOMAIN d = 1..Len(c) + 1 /\ d[Len(c) + 1] = <<s, n>>
         /\ \A i \in 1..Len(c) : d[i] = c[i]
  OBVIOUS

LEMMA WonKeeps ==
  ASSUME OutsideSession, LeaseInv, NEW p \in Proc, Won(p), UNCHANGED due
  PROVE  LeaseInv'
  <1> DEFINE rest == Tail(st[p].todo)
             s == Target(p)
             n == st[p].seen.nonce
             c == st[p].created
             mine == [st[p] EXCEPT !.created = Append(@, <<s, n>>)]
  <1>1. /\ At(p, {"verify"}) /\ UNCHANGED <<file, brk, brkOld, dead>>
        /\ holder = p /\ holder' = NoProc /\ Begin(p, rest, mine)
    BY DEF Won, Section!Leave
  <1>2. /\ p \in Proc \ dead /\ st[p].pc = "verify" /\ Point(p) = "verify" /\ TypeOK
        /\ Placed(p) /\ Recorded(p) /\ InDate(p) /\ Covered(p)
        /\ st[p] \in LocalState /\ st[p].tok = NoToken /\ s \in Slots
        /\ st[p].todo # <<>> /\ st[p].todo \in Seq(Slots) /\ c \in Seq(Slots \X Nonces)
        /\ \A i \in DOMAIN c : c[i][1] \in Slots
    BY <1>1, ActorFacts, LocalTyped DEF Placed, AcquirePoints, SectionPoints
  <1>3. Own(p, s) /\ s \notin MadeBy(p) /\ file[s].nonce = n /\ n \in Nonces
    BY <1>2, OwnIsLive DEF Recorded, VerifyPoints, Lease
  <1>4. rest \in Seq(Slots) /\ ToSet(st[p].todo) = {s} \cup ToSet(rest)
    BY <1>2, TailSet DEF Target
  <1>5. /\ mine.created = Append(c, <<s, n>>) /\ mine.tok = NoToken /\ mine \in LocalState
    BY <1>2, <1>3, AppendCreated DEF LocalState
  <1> HIDE DEF mine, rest
  <1>6. /\ st' \in [Proc -> LocalState] /\ \A q \in Proc \ {p} : st'[q] = st[q]
        /\ st'[p].created = Append(c, <<s, n>>) /\ st'[p].tok = NoToken
    BY <1>1, <1>2, <1>4, <1>5, BeginEffect
  <1>7. Alone(p) /\ Touches(p)
    BY <1>1, <1>6 DEF Alone, Touches
  <1>8. \A t \in Slots : Own(p, t)' <=> Own(p, t)
    BY <1>1 DEF Own
  <1> DEFINE d == st'[p].created
             k == Len(c)
  <1>9. /\ k \in Nat /\ DOMAIN c = 1..k /\ DOMAIN d = 1..k + 1
        /\ d[k + 1] = <<s, n>> /\ \A i \in 1..k : d[i] = c[i]
        /\ \A i \in 1..k + 1 : i \in 1..k \/ i = k + 1
    BY <1>2, <1>3, <1>6, AppendCreated
  <1>10. MadeBy(p)' = MadeBy(p) \cup {s} /\ MadeBy(p)' \subseteq Slots
    <2>1. MadeBy(p) = {c[i][1] : i \in 1..k} /\ MadeBy(p)' = {d[i][1] : i \in 1..k + 1}
      BY <1>9 DEF MadeBy
    <2> HIDE DEF c, d, k, s, n
    <2> QED
      BY <1>2, <1>9, <2>1
  <1>11. Listed(p)'
    <2>1. \A i \in 1..k : /\ Own(p, c[i][1]) /\ file[c[i][1]].nonce = c[i][2] /\ c[i][1] # s
                          /\ \A j \in 1..k : c[i][1] = c[j][1] => i = j
      <3>1. \A i \in DOMAIN c : /\ Own(p, c[i][1]) /\ file[c[i][1]].nonce = c[i][2]
                                /\ \A j \in DOMAIN c : c[i][1] = c[j][1] => i = j
        BY <1>2 DEF Recorded, Listed
      <3>2. \A i \in DOMAIN c : c[i][1] # s
        BY <1>3 DEF MadeBy
      <3> QED
        BY <1>9, <3>1, <3>2
    <2>2. \A i \in 1..k + 1 : /\ Own(p, d[i][1]) /\ file[d[i][1]].nonce = d[i][2]
                              /\ \A j \in 1..k + 1 : d[i][1] = d[j][1] => i = j
      <3> HIDE DEF c, d, k, s, n
      <3> QED
        BY <1>3, <1>9, <2>1
    <2> QED
      BY <1>1, <1>9, <2>2 DEF Listed, Own
  <1>12. \A t \in Slots : Own(p, t)' => t \in MadeBy(p)' /\ file'[t].age <= Ttl["auto"] - 2
    BY <1>1, <1>2, <1>8, <1>10 DEF Recorded, InDate
  <1>13. \A t \in Asked(p) : t \in ToSet(rest) \/ MadeBy(p)' \cap Covers(t) # {}
    BY <1>2, <1>4, <1>10 DEF Covered, AcquirePoints, SectionPoints, Covers
  <1>14. Placed(p)' /\ VerbInv(p)'
    BY <1>1, <1>2, <1>4, <1>5, <1>10, <1>11, <1>12, <1>13, BeginKeeps
  <1>15. Exclusive'
    BY <1>1, <1>2, <1>7, <1>8, ExclusiveKept
  <1> QED
    BY <1>1, <1>2, <1>6, <1>7, <1>14, <1>15, StepKeeps DEF TypeOK
-----------------------------------------------------------------------------
(* 3. Starting, retrying, giving up and releasing.                         *)

LEMMA StartKeeps ==
  ASSUME OutsideSession, LeaseInv, NEW p \in Proc, Start(p) \/ Retry(p), UNCHANGED due
  PROVE  LeaseInv'
  <1> DEFINE rest == IF st[p].pc = "start" THEN Normalize(Want[p]) ELSE st[p].todo
  <1>1. /\ At(p, {"start", "wait"}) /\ UNCHANGED <<file, brk, brkOld, holder, dead>>
        /\ Begin(p, rest, st[p])
    BY DEF Start, Retry, At
  <1>2. /\ p \in Proc \ dead /\ st[p].pc \in {"start", "wait"} /\ Point(p) = st[p].pc
        /\ TypeOK /\ Recorded(p) /\ InDate(p) /\ Covered(p)
        /\ st[p] \in LocalState /\ st[p].tok = NoToken /\ st[p].todo \in Seq(Slots)
        /\ MadeBy(p) \subseteq Slots
    BY <1>1, ActorFacts, LocalTyped
  <1>3. rest \in Seq(Slots)
    BY <1>2, WantAssumption
  <1>4. \A s \in Asked(p) : s \in ToSet(rest) \/ MadeBy(p) \cap Covers(s) # {}
    BY <1>2 DEF Asked, Covered, AcquirePoints
  <1> HIDE DEF rest
  <1>5. /\ st' \in [Proc -> LocalState] /\ \A q \in Proc \ {p} : st'[q] = st[q]
        /\ st'[p].created = st[p].created /\ st'[p].tok = NoToken
    BY <1>1, <1>2, <1>3, BeginEffect
  <1>6. MadeBy(p)' = MadeBy(p) /\ \A s \in Slots : Own(p, s)' <=> Own(p, s)
    BY <1>1, <1>5 DEF MadeBy, Own
  <1>7. Listed(p)'
    BY <1>1, <1>2, <1>5 DEF Recorded, Listed, Own
  <1>8. \A s \in Slots : Own(p, s)' => s \in MadeBy(p)' /\ file'[s].age <= Ttl["auto"] - 2
    BY <1>1, <1>2, <1>6 DEF Recorded, InDate, VerifyPoints
  <1>9. Placed(p)' /\ VerbInv(p)'
    BY <1>1, <1>2, <1>3, <1>4, <1>6, <1>7, <1>8, BeginKeeps
  <1> QED
    BY <1>1, <1>2, <1>5, <1>9, LookKeeps

LEMMA GiveUpKeeps ==
  ASSUME OutsideSession, LeaseInv, NEW p \in Proc, GiveUp(p), UNCHANGED due
  PROVE  LeaseInv'
  <1>1. /\ At(p, {"wait"}) /\ UNCHANGED <<file, brk, brkOld, holder, dead>>
        /\ Goto(p, "release")
    BY DEF GiveUp
  <1>2. /\ p \in Proc \ dead /\ st[p].pc = "wait" /\ Point(p) = "wait"
        /\ TypeOK /\ Placed(p) /\ Recorded(p) /\ InDate(p) /\ st[p].tok = NoToken
    BY <1>1, ActorFacts
  <1>3. Moves(p, "release", st[p].scan, st[p].seen)
    BY <1>1, <1>2, GotoMoves DEF Points
  <1>4. Placed(p)' /\ Renewing(p)' /\ Cleared(p)' /\ Covered(p)'
    BY <1>1, <1>2, <1>3
       DEF Moves, Placed, Renewing, Cleared, Covered, Point, At, SectionPoints, BreakPoints,
           CoverPoints, ScanPoints, RenewPoints, SlotPoints, SeenPoints, AcquirePoints,
           HoldPoints, BodyPoints
  <1>5. Recorded(p)' /\ InDate(p)'
    BY <1>1, <1>2, <1>3
       DEF Moves, Recorded, Listed, InDate, MadeBy, Own, Point, VerifyPoints, BeatPoints
  <1> QED
    BY <1>1, <1>2, <1>3, <1>4, <1>5, LookKeeps DEF Moves, VerbInv

LEMMA TailCreated ==
  ASSUME NEW c \in Seq(Slots \X Nonces), c # <<>>
  PROVE  /\ Len(c) \in Nat /\ Len(c) > 0 /\ DOMAIN c = 1..Len(c) /\ Head(c) = c[1]
         /\ Tail(c) \in Seq(Slots \X Nonces) /\ DOMAIN Tail(c) = 1..Len(c) - 1
         /\ \A i \in 1..Len(c) - 1 : Tail(c)[i] = c[i + 1]
  <1>1. /\ Len(c) \in Nat /\ Len(c) > 0 /\ DOMAIN c = 1..Len(c) /\ Head(c) = c[1]
        /\ Tail(c) \in Seq(Slots \X Nonces)
    OBVIOUS
  <1>2. Len(Tail(c)) = Len(c) - 1 /\ \A i \in 1..Len(c) - 1 : Tail(c)[i] = c[i + 1]
    BY <1>1
  <1>3. DOMAIN Tail(c) = 1..Len(c) - 1
    BY <1>1, <1>2
  <1> QED
    BY <1>1, <1>2, <1>3

LEMMA ReleaseReadKeeps ==
  ASSUME OutsideSession, LeaseInv, NEW p \in Proc, ReleaseRead(p), UNCHANGED due
  PROVE  LeaseInv'
  <1> DEFINE made == Head(st[p].created)
  <1>1. /\ At(p, {"release"}) /\ UNCHANGED <<file, brk, brkOld, holder, dead>>
        /\ st[p].created # <<>>
        /\ IsLease(file[made[1]]) /\ file[made[1]].nonce = made[2]
             => st' = [st EXCEPT ![p].pc = "releaseUnlink"]
    BY DEF ReleaseRead
  <1>2. /\ p \in Proc \ dead /\ st[p].pc = "release" /\ Point(p) = "release"
        /\ TypeOK /\ Recorded(p) /\ InDate(p) /\ st[p].tok = NoToken
        /\ st[p].created \in Seq(Slots \X Nonces)
    BY <1>1, ActorFacts, LocalTyped
  <1>3. 1 \in DOMAIN st[p].created /\ made = st[p].created[1]
    BY <1>1, <1>2, TailCreated
  <1>4. IsLease(file[made[1]]) /\ file[made[1]].nonce = made[2]
    BY <1>2, <1>3 DEF Recorded, Listed, Own
  <1>5. Goto(p, "releaseUnlink")
    BY <1>1, <1>4 DEF Goto
  <1>6. Moves(p, "releaseUnlink", st[p].scan, st[p].seen)
    BY <1>2, <1>5, GotoMoves DEF Points
  <1>7. Placed(p)' /\ Renewing(p)' /\ Cleared(p)' /\ Covered(p)'
    BY <1>1, <1>2, <1>6
       DEF Moves, Placed, Renewing, Cleared, Covered, Point, At, SectionPoints, BreakPoints,
           CoverPoints, ScanPoints, RenewPoints, SlotPoints, SeenPoints, AcquirePoints,
           HoldPoints, BodyPoints
  <1>8. Recorded(p)' /\ InDate(p)'
    BY <1>1, <1>2, <1>6
       DEF Moves, Recorded, Listed, InDate, MadeBy, Own, Point, VerifyPoints, BeatPoints
  <1> QED
    BY <1>1, <1>2, <1>6, <1>7, <1>8, LookKeeps DEF Moves, VerbInv

LEMMA ReleaseUnlinkKeeps ==
  ASSUME OutsideSession, LeaseInv, NEW p \in Proc, ReleaseUnlink(p), UNCHANGED due
  PROVE  LeaseInv'
  <1> DEFINE c == st[p].created
             s == c[1][1]
             r == [st[p] EXCEPT !.pc = "release", !.created = Tail(@)]
  <1>1. /\ At(p, {"releaseUnlink"}) /\ UNCHANGED <<brk, brkOld, holder, dead>>
        /\ file' = [file EXCEPT ![Head(c)[1]] = NoLease]
        /\ st' = [st EXCEPT ![p].pc = "release", ![p].created = Tail(@)]
    BY DEF ReleaseUnlink, Unlink, Write
  <1>2. /\ p \in Proc \ dead /\ st[p].pc = "releaseUnlink" /\ Point(p) = st[p].pc
        /\ TypeOK /\ Recorded(p) /\ InDate(p) /\ st[p].tok = NoToken
        /\ st[p] \in LocalState /\ c \in Seq(Slots \X Nonces) /\ c # <<>>
        /\ \A i \in DOMAIN c : c[i][1] \in Slots
    BY <1>1, ActorFacts, LocalTyped DEF Placed
  <1>3. /\ Len(c) \in Nat /\ Len(c) > 0 /\ DOMAIN c = 1..Len(c) /\ Head(c) = c[1]
        /\ Tail(c) \in Seq(Slots \X Nonces) /\ DOMAIN Tail(c) = 1..Len(c) - 1
        /\ \A i \in 1..Len(c) - 1 : Tail(c)[i] = c[i + 1]
    BY <1>2, TailCreated
  <1>4. s \in Slots /\ 1 \in DOMAIN c /\ Own(p, s)
    BY <1>2, <1>3 DEF Recorded, Listed
  <1>5. /\ st' \in [Proc -> LocalState] /\ \A q \in Proc \ {p} : st'[q] = st[q]
        /\ st'[p].pc = "release" /\ st'[p].created = Tail(c) /\ st'[p].tok = NoToken
    <2>1. r \in LocalState /\ r.pc = "release" /\ r.created = Tail(c) /\ r.tok = NoToken
      BY <1>2, <1>3 DEF LocalState, Points
    <2>2. st' = [st EXCEPT ![p] = r]
      BY <1>1, <1>2 DEF TypeOK
    <2> HIDE DEF r
    <2> QED
      BY <1>2, <2>1, <2>2 DEF TypeOK
  <1> DEFINE d == st'[p].created
             k == Len(c) - 1
  <1>6. /\ k \in Nat /\ DOMAIN c = 1..k + 1 /\ DOMAIN d = 1..k
        /\ \A i \in 1..k : d[i] = c[i + 1] /\ i + 1 \in 1..k + 1 /\ i + 1 # 1
        /\ \A i \in 1..k + 1 : i = 1 \/ (i - 1 \in 1..k /\ c[i] = d[i - 1])
    BY <1>3, <1>5
  <1>7. /\ file' \in [Slots -> Lease \cup {NoLease}] /\ file'[s] = NoLease
        /\ \A t \in Slots \ {s} : file'[t] = file[t]
    BY <1>1, <1>2, <1>3, <1>4 DEF TypeOK
  <1>8. Alone(p) /\ Touches(p)
    BY <1>1, <1>4, <1>5, <1>7 DEF Alone, Touches
  <1>9. \A t \in Slots : Own(p, t)' <=> Own(p, t) /\ t # s
    BY <1>7 DEF Own, IsLease
  <1>10. Listed(p)'
    <2>1. \A i \in 1..k + 1 : /\ c[i][1] \in Slots /\ Own(p, c[i][1])
                              /\ file[c[i][1]].nonce = c[i][2]
                              /\ \A j \in 1..k + 1 : c[i][1] = c[j][1] => i = j
      BY <1>2, <1>6 DEF Recorded, Listed
    <2>2. \A i \in 1..k : /\ d[i][1] \in Slots \ {s} /\ Own(p, d[i][1])
                          /\ file[d[i][1]].nonce = d[i][2]
                          /\ \A j \in 1..k : d[i][1] = d[j][1] => i = j
      <3>1. 1 \in 1..k + 1 /\ \A i, j \in 1..k : i + 1 = j + 1 => i = j
        BY <1>6
      <3> HIDE DEF c, d, k
      <3>2. \A i \in 1..k : d[i] = c[i + 1] /\ i + 1 \in 1..k + 1 /\ c[i + 1][1] # s
        BY <1>6, <2>1, <3>1
      <3>3. ASSUME NEW i \in 1..k, NEW j \in 1..k, d[i][1] = d[j][1] PROVE i = j
        <4>1. c[i + 1][1] = c[j + 1][1]
          BY <3>2, <3>3
        <4>2. i + 1 = j + 1
          BY <2>1, <3>2, <4>1
        <4> QED
          BY <3>1, <4>2
      <3> QED
        BY <2>1, <3>2, <3>3
    <2> QED
      BY <1>6, <1>7, <1>9, <2>2 DEF Listed
  <1>11. \A t \in Slots : Own(p, t)' => t \in MadeBy(p)'
    <2>1. MadeBy(p) = {c[i][1] : i \in 1..k + 1} /\ MadeBy(p)' = {d[i][1] : i \in 1..k}
      BY <1>6 DEF MadeBy
    <2>2. \A t \in Slots : Own(p, t) => t \in MadeBy(p)
      BY <1>2 DEF Recorded, VerifyPoints
    <2> HIDE DEF c, d, k
    <2>3. \A i \in 1..k + 1 : c[i][1] = c[1][1] \/ c[i][1] \in MadeBy(p)'
      BY <1>6, <2>1
    <2> QED
      BY <1>9, <2>1, <2>2, <2>3
  <1>12. Recorded(p)'
    BY <1>5, <1>10, <1>11 DEF Recorded, Point, VerifyPoints
  <1>13. Placed(p)' /\ Renewing(p)' /\ Cleared(p)' /\ Covered(p)'
    BY <1>1, <1>5
       DEF Placed, Renewing, Cleared, Covered, Point, At, SectionPoints, BreakPoints,
           CoverPoints, ScanPoints, RenewPoints, SlotPoints, SeenPoints, AcquirePoints,
           HoldPoints, BodyPoints
  <1>14. InDate(p)'
    BY <1>2, <1>5, <1>7, <1>9 DEF InDate, Point, BeatPoints
  <1>15. Exclusive'
    BY <1>1, <1>2, <1>8, <1>9, ExclusiveKept
  <1> QED
    BY <1>1, <1>2, <1>5, <1>7, <1>8, <1>12, <1>13, <1>14, <1>15, StepKeeps
       DEF TypeOK, VerbInv

LEMMA ReleasedKeeps ==
  ASSUME OutsideSession, LeaseInv, NEW p \in Proc, Released(p), UNCHANGED due
  PROVE  LeaseInv'
  <1> DEFINE r == [st[p] EXCEPT !.pc = "done", !.pass = {}, !.held = {}, !.todo = <<>>]
  <1>1. /\ At(p, {"release"}) /\ UNCHANGED <<file, brk, brkOld, holder, dead>>
        /\ st[p].created = <<>>
        /\ st' = [st EXCEPT ![p].pc = "done", ![p].pass = {}, ![p].held = {}, ![p].todo = <<>>]
    BY DEF Released
  <1>2. /\ p \in Proc \ dead /\ st[p].pc = "release" /\ Point(p) = "release"
        /\ TypeOK /\ Recorded(p) /\ InDate(p) /\ st[p].tok = NoToken /\ st[p] \in LocalState
    BY <1>1, ActorFacts
  <1>3. /\ st' \in [Proc -> LocalState] /\ \A q \in Proc \ {p} : st'[q] = st[q]
        /\ st'[p].pc = "done" /\ st'[p].created = <<>> /\ st'[p].tok = NoToken
    <2>1. <<>> \in Seq(Slots)
      OBVIOUS
    <2>2. r \in LocalState /\ r.pc = "done" /\ r.created = <<>> /\ r.tok = NoToken
      BY <1>1, <1>2, <2>1 DEF LocalState, Points
    <2>3. st' = [st EXCEPT ![p] = r]
      BY <1>1, <1>2 DEF TypeOK
    <2> HIDE DEF r
    <2> QED
      BY <1>2, <2>2, <2>3 DEF TypeOK
  <1>4. MadeBy(p) = {} /\ \A s \in Slots : ~Own(p, s)'
    BY <1>1, <1>2 DEF Recorded, MadeBy, Own, VerifyPoints
  <1>5. Recorded(p)' /\ InDate(p)'
    BY <1>3, <1>4 DEF Recorded, Listed, InDate, Point, VerifyPoints, BeatPoints
  <1>6. Placed(p)' /\ Renewing(p)' /\ Cleared(p)' /\ Covered(p)'
    BY <1>1, <1>3
       DEF Placed, Renewing, Cleared, Covered, Point, At, SectionPoints, BreakPoints,
           CoverPoints, ScanPoints, RenewPoints, SlotPoints, SeenPoints, AcquirePoints,
           HoldPoints, BodyPoints
  <1> QED
    BY <1>1, <1>2, <1>3, <1>5, <1>6, LookKeeps DEF VerbInv

\* No living verb is ever about to clear a lease of its own that lapsed.
LEMMA NoClearing == ASSUME LeaseInv, NEW p \in Proc PROVE ~ClearOwn(p)
  BY ActorFacts DEF ClearOwn, Cleared

LEMMA AcquireStepKeeps ==
  ASSUME OutsideSession, LeaseInv, NEW p \in Proc,
         Start(p) \/ AcquireStep(p) \/ GiveUp(p), UNCHANGED due
  PROVE  LeaseInv'
  BY StartKeeps, LookCoverKeeps, NotCoveredKeeps, CheckCoverKeeps, ReplaceCoverKeeps,
     EnterSectionKeeps, ReclaimSectionKeeps, ScanKeeps, NoClearing, TakeBreakKeeps,
     BreakLookKeeps, BreakClearKeeps, BreakUnlinkKeeps, BreakDoneKeeps, RereadKeeps,
     CreateKeeps, VerifyKeeps, BackoffUnlinkKeeps, WonKeeps, BlockedKeeps, GiveUpKeeps,
     ReleaseReadKeeps, ReleaseUnlinkKeeps, ReleasedKeeps
     DEF AcquireStep
-----------------------------------------------------------------------------
(* 4. The body and its heartbeat.                                          *)

LEMMA EnterBodyKeeps ==
  ASSUME OutsideSession, LeaseInv, NEW p \in Proc, EnterBody(p) \/ StartBeat(p)
  PROVE  LeaseInv'
  <1> DEFINE order == Append(ScopeOrder, All)
             r == [st[p] EXCEPT !.pc = "beat", !.held = {}, !.scan = order]
  <1>1. /\ At(p, {"acquired", "body"}) /\ UNCHANGED <<file, brk, brkOld, holder, dead>>
        /\ st' = [st EXCEPT ![p].pc = "beat", ![p].held = {}, ![p].scan = order]
    BY DEF EnterBody, StartBeat, At
  <1>2. due' = due \cup {p}
    BY DEF EnterBody, StartBeat, At
  <1>3. /\ p \in Proc \ dead /\ Point(p) \in {"acquired", "body"}
        /\ TypeOK /\ Placed(p) /\ Recorded(p) /\ InDate(p) /\ Covered(p)
        /\ st[p] \in LocalState /\ st[p].tok = NoToken
    BY <1>1, ActorFacts
  <1>4. order \in Seq(Slots) /\ ToSet(order) = Slots
    BY PathSets
  <1>5. /\ st' \in [Proc -> LocalState] /\ \A q \in Proc \ {p} : st'[q] = st[q]
        /\ st'[p].pc = "beat" /\ st'[p].scan = order /\ st'[p].tok = NoToken
        /\ st'[p].todo = st[p].todo /\ st'[p].created = st[p].created
    <2>1. /\ r \in LocalState /\ r.pc = "beat" /\ r.scan = order /\ r.tok = NoToken
          /\ r.todo = st[p].todo /\ r.created = st[p].created
      <3> HIDE DEF order
      <3>1. {} \in SUBSET Slots /\ "beat" \in Points
        BY DEF Points, BodyPoints
      <3> QED
        BY <1>3, <1>4, <3>1 DEF LocalState
    <2>2. st' = [st EXCEPT ![p] = r]
      BY <1>1, <1>3 DEF TypeOK
    <2> HIDE DEF r
    <2> QED
      BY <1>3, <2>1, <2>2 DEF TypeOK
  <1> HIDE DEF order
  <1>6. Alone(p) /\ Touches(p) /\ \A s \in Slots : Own(p, s)' <=> Own(p, s)
    BY <1>1, <1>2, <1>5 DEF Alone, Touches, Own
  <1>7. Placed(p)' /\ Renewing(p)' /\ Cleared(p)'
    BY <1>1, <1>5
       DEF Placed, Renewing, Cleared, Point, At, SectionPoints, BreakPoints,
           CoverPoints, ScanPoints, RenewPoints, SlotPoints, SeenPoints, AcquirePoints
  <1>8. Recorded(p)'
    BY <1>1, <1>3, <1>5 DEF Recorded, Listed, MadeBy, Own, Point, VerifyPoints
  <1>9. InDate(p)'
    BY <1>1, <1>2, <1>3, <1>4, <1>5, <1>6 DEF InDate, Point
  <1>10. Covered(p)'
    BY <1>3, <1>5 DEF Covered, MadeBy, Point, HoldPoints, BodyPoints
  <1>11. Exclusive'
    BY <1>1, <1>3, <1>6, ExclusiveKept
  <1>12. /\ due' \subseteq Proc /\ file' \in [Slots -> Lease \cup {NoLease}]
         /\ brk' \in [Slots -> Proc \cup {NoProc}] /\ brkOld' \subseteq Slots
         /\ holder' \in Proc \cup {NoProc}
    BY <1>1, <1>2, <1>3 DEF TypeOK
  <1> QED
    BY <1>3, <1>5, <1>6, <1>7, <1>8, <1>9, <1>10, <1>11, <1>12, StepKeeps DEF VerbInv

\* A step of the heartbeat that only looks.
LEMMA BeatLookKeeps ==
  ASSUME OutsideSession, LeaseInv, NEW p \in Proc \ dead,
         UNCHANGED <<file, brk, brkOld, holder, dead, due>>,
         Point(p) \in BeatPoints, NEW point \in BeatPoints, NEW slots, NEW lease,
         Moves(p, point, slots, lease), Placed(p)', Renewing(p)',
         \A s \in Slots : Own(p, s) /\ s \in ToSet(st[p].scan) => s \in ToSet(slots)
  PROVE  LeaseInv'
  <1>1. /\ st[p].tok = NoToken /\ Recorded(p) /\ InDate(p) /\ Covered(p)
    BY DEF LeaseInv, VerbInv
  <1>2. Point(p)' = point /\ UNCHANGED <<st[p].todo, st[p].created, st[p].held>>
        /\ st'[p].scan = slots
    BY DEF Moves, Point
  <1>3. Recorded(p)'
    BY <1>1, <1>2
       DEF Recorded, Listed, MadeBy, Own, VerifyPoints, BeatPoints
  <1>4. InDate(p)'
    BY <1>1, <1>2 DEF InDate, Own, BeatPoints
  <1>5. Cleared(p)'
    BY <1>2 DEF Cleared, CoverPoints, ScanPoints, BreakPoints, BeatPoints
  <1>6. Covered(p)'
    BY <1>1, <1>2 DEF Covered, MadeBy, HoldPoints, BodyPoints, BeatPoints
  <1> QED
    BY <1>1, <1>3, <1>4, <1>5, <1>6, LookKeeps DEF Moves, VerbInv

LEMMA LookBeatKeeps ==
  ASSUME OutsideSession, LeaseInv, NEW p \in Proc, LookBeat(p)
  PROVE  LeaseInv'
  <1>1. /\ At(p, {"beat"}) /\ st[p].scan # <<>>
        /\ UNCHANGED <<file, brk, brkOld, holder, dead, due>>
    BY DEF LookBeat
  <1>2. /\ p \in Proc \ dead /\ st[p].pc = "beat" /\ Point(p) = "beat" /\ TypeOK
        /\ Placed(p) /\ Slot(p) \in Slots
        /\ file[Slot(p)] \in Lease \cup {NoLease} /\ st[p].scan \in Seq(Slots)
    BY <1>1, ActorFacts, LocalTyped
  <1>3. CASE Renewable(p, file[Slot(p)])
    <2>1. Own(p, Slot(p))
      BY <1>2, <1>3, MineIsOwn DEF Renewable, LiveLease
    <2>2. Moves(p, "beatRenew", st[p].scan, file[Slot(p)])
      <3>1. st' = [st EXCEPT ![p].pc = "beatRenew", ![p].seen = file[Slot(p)]]
        BY <1>3 DEF LookBeat
      <3>2. "beatRenew" \in Points
        BY DEF Points, BodyPoints
      <3> QED
        BY <1>2, <3>1, <3>2, MovesIntro
    <2>3. Placed(p)' /\ Renewing(p)'
      BY <1>1, <1>2, <2>1, <2>2
         DEF Moves, Placed, Renewing, Point, At, SectionPoints, BreakPoints,
             Slot, Own, IsLease, AcquirePoints, SlotPoints, SeenPoints
    <2> QED
      BY <1>1, <1>2, <2>2, <2>3, BeatLookKeeps DEF BeatPoints
  <1>4. CASE ~Renewable(p, file[Slot(p)])
    <2>1. /\ Moves(p, "beat", Tail(st[p].scan), st[p].seen)
          /\ ToSet(st[p].scan) = {Slot(p)} \cup ToSet(Tail(st[p].scan))
      BY <1>1, <1>2, <1>4, NextSlotMoves DEF LookBeat
    <2>2. ~Own(p, Slot(p))
      BY <1>2, <1>4, OwnIsLive
    <2>3. Placed(p)' /\ Renewing(p)'
      BY <1>1, <1>2, <2>1
         DEF Moves, Placed, Renewing, Point, At, SectionPoints, BreakPoints,
             RenewPoints, SlotPoints, SeenPoints, AcquirePoints
    <2>4. \A s \in Slots : Own(p, s) /\ s \in ToSet(st[p].scan) => s \in ToSet(Tail(st[p].scan))
      BY <2>1, <2>2
    <2> QED
      BY <1>1, <1>2, <2>1, <2>3, <2>4, BeatLookKeeps DEF BeatPoints
  <1> QED
    BY <1>3, <1>4

LEMMA CheckBeatKeeps ==
  ASSUME OutsideSession, LeaseInv, NEW p \in Proc, CheckBeat(p)
  PROVE  LeaseInv'
  <1>1. At(p, {"beatRenew"}) /\ UNCHANGED <<file, brk, brkOld, holder, dead, due>>
    BY DEF CheckBeat, RenewCheck
  <1>2. /\ p \in Proc \ dead /\ st[p].pc = "beatRenew" /\ TypeOK /\ Placed(p)
        /\ Renewing(p) /\ Point(p) = "beatRenew"
    BY <1>1, ActorFacts
  <1>3. IsLease(file[Slot(p)]) /\ file[Slot(p)] = st[p].seen
    BY <1>2 DEF Renewing, RenewPoints, Own
  <1>4. Moves(p, "beatReplace", st[p].scan, st[p].seen)
    BY <1>2, <1>3, GotoMoves DEF CheckBeat, RenewCheck, Points, BodyPoints
  <1>5. Placed(p)' /\ Renewing(p)'
    BY <1>1, <1>2, <1>4
       DEF Moves, Placed, Renewing, Point, At, SectionPoints, BreakPoints, Own,
           RenewPoints, SlotPoints, SeenPoints, AcquirePoints, Slot
  <1> QED
    BY <1>1, <1>2, <1>4, <1>5, BeatLookKeeps DEF BeatPoints

LEMMA ReplaceBeatKeeps ==
  ASSUME OutsideSession, LeaseInv, NEW p \in Proc, ReplaceBeat(p)
  PROVE  LeaseInv'
  <1> DEFINE s == Slot(p)
             r == [st[p] EXCEPT !.pc = "beat", !.scan = Tail(@),
                                !.held = @ \cup {s}, !.seen = NoLease]
  <1>1. /\ At(p, {"beatReplace"}) /\ UNCHANGED <<brk, brkOld, holder, dead, due>>
        /\ file' = [file EXCEPT ![s] = [st[p].seen EXCEPT !.age = 0]]
        /\ st' = [st EXCEPT ![p].pc = "beat", ![p].scan = Tail(@),
                            ![p].held = @ \cup {s}, ![p].seen = NoLease]
    BY DEF ReplaceBeat, Write
  <1>2. /\ p \in Proc \ dead /\ st[p].pc = "beatReplace" /\ Point(p) = "beatReplace"
        /\ TypeOK /\ Placed(p) /\ Recorded(p) /\ Renewing(p) /\ InDate(p) /\ Covered(p)
        /\ st[p] \in LocalState /\ st[p].tok = NoToken
    BY <1>1, ActorFacts
  <1>3. /\ st[p].scan # <<>> /\ s \in Slots /\ Tail(st[p].scan) \in Seq(Slots)
        /\ ToSet(st[p].scan) = {s} \cup ToSet(Tail(st[p].scan))
    BY <1>2, LocalTyped, TailSet DEF Placed, SlotPoints, Slot
  <1>4. /\ st' \in [Proc -> LocalState] /\ \A q \in Proc \ {p} : st'[q] = st[q]
        /\ st'[p].pc = "beat" /\ st'[p].scan = Tail(st[p].scan)
        /\ st'[p].held = st[p].held \cup {s} /\ st'[p].tok = NoToken
        /\ st'[p].todo = st[p].todo /\ st'[p].created = st[p].created
    <2>1. /\ r \in LocalState /\ r.pc = "beat" /\ r.scan = Tail(st[p].scan)
          /\ r.held = st[p].held \cup {s} /\ r.tok = NoToken
          /\ r.todo = st[p].todo /\ r.created = st[p].created
      <3> HIDE DEF s
      <3>1. "beat" \in Points
        BY DEF Points, BodyPoints
      <3> QED
        BY <1>2, <1>3, <3>1 DEF LocalState
    <2>2. st' = [st EXCEPT ![p] = r]
      BY <1>1, <1>2 DEF TypeOK
    <2> HIDE DEF r
    <2> QED
      BY <1>2, <2>1, <2>2 DEF TypeOK
  <1>5. Own(p, s) /\ file[s] = st[p].seen /\ file[s] \in Lease /\ file[s].kind = "auto"
    BY <1>2, <1>3, OwnIsLive DEF Renewing, RenewPoints, Transient, Own, LeaseInv
  <1>6. /\ file'[s] \in Lease /\ file'[s].age = 0 /\ file'[s].pid = p /\ IsLease(file'[s])
        /\ file'[s].nonce = file[s].nonce /\ file'[s].kind = "auto"
        /\ file' \in [Slots -> Lease \cup {NoLease}]
        /\ \A t \in Slots \ {s} : file'[t] = file[t]
    BY <1>1, <1>2, <1>3, <1>5, MaxAgeNat, NoLeaseAssumption DEF TypeOK, Lease, Own, IsLease
  <1>7. Alone(p) /\ Touches(p)
    BY <1>1, <1>4, <1>5, <1>6 DEF Alone, Touches, Own
  <1>8. \A t \in Slots : Own(p, t)' <=> Own(p, t)
    BY <1>5, <1>6 DEF Own
  <1>9. Recorded(p)'
    <2>1. MadeBy(p)' = MadeBy(p)
      BY <1>4 DEF MadeBy
    <2>2. Listed(p)'
      <3>1. \A t \in Slots : Own(p, t) => Own(p, t)' /\ file'[t].nonce = file[t].nonce
        BY <1>6, <1>8
      <3>2. st'[p].created = st[p].created /\ Listed(p)
        BY <1>2, <1>4 DEF Recorded
      <3>3. \A i \in DOMAIN st[p].created : st[p].created[i][1] \in Slots
        BY <1>2, LocalTyped
      <3> QED
        BY <3>1, <3>2, <3>3 DEF Listed
    <2> QED
      BY <1>2, <1>4, <1>8, <2>1, <2>2 DEF Recorded, Point, VerifyPoints
  <1>10. InDate(p)'
    BY <1>1, <1>2, <1>3, <1>4, <1>6, <1>8, AutoTtl DEF InDate, Point, BeatPoints
  <1>11. Placed(p)' /\ Renewing(p)' /\ Cleared(p)'
    BY <1>1, <1>4
       DEF Placed, Renewing, Cleared, Point, At, SectionPoints, BreakPoints,
           CoverPoints, ScanPoints, RenewPoints, SlotPoints, SeenPoints, AcquirePoints
  <1>12. Covered(p)'
    BY <1>2, <1>4 DEF Covered, MadeBy, Point, HoldPoints, BodyPoints
  <1>13. Exclusive'
    BY <1>1, <1>2, <1>7, <1>8, ExclusiveKept
  <1> QED
    BY <1>1, <1>2, <1>4, <1>6, <1>7, <1>9, <1>10, <1>11, <1>12, <1>13, StepKeeps
       DEF TypeOK, VerbInv

\* The end of a pass of the heartbeat, and the end of the body.
LEMMA EndBeatKeeps ==
  ASSUME OutsideSession, LeaseInv, NEW p \in Proc, EndBeat(p) \/ EndBody(p)
  PROVE  LeaseInv'
  <1>1. /\ At(p, {"beat", "body"}) /\ UNCHANGED <<file, brk, brkOld, holder, dead>>
        /\ due' = due \ {p}
        /\ \/ st[p].pc = "beat" /\ st[p].scan = <<>> /\ Goto(p, "body")
           \/ Goto(p, "release")
    BY DEF EndBeat, EndBody, At
  <1>2. /\ p \in Proc \ dead /\ Point(p) \in {"beat", "body"} /\ TypeOK
        /\ Placed(p) /\ Recorded(p) /\ InDate(p) /\ Covered(p) /\ st[p].tok = NoToken
    BY <1>1, ActorFacts
  <1>3. PICK point \in {"body", "release"} :
            /\ Moves(p, point, st[p].scan, st[p].seen)
            /\ point = "body" => Point(p) = "beat" /\ st[p].scan = <<>>
    BY <1>1, <1>2, GotoMoves DEF Points, BodyPoints, Point
  <1>4. Placed(p)' /\ Renewing(p)' /\ Cleared(p)'
    BY <1>1, <1>2, <1>3
       DEF Moves, Placed, Renewing, Cleared, Point, At, SectionPoints, BreakPoints,
           CoverPoints, ScanPoints, RenewPoints, SlotPoints, SeenPoints, AcquirePoints
  <1>5. Recorded(p)'
    BY <1>1, <1>2, <1>3
       DEF Moves, Recorded, Listed, MadeBy, Own, Point, VerifyPoints
  <1>6. InDate(p)'
    BY <1>1, <1>2, <1>3, EmptySet DEF Moves, InDate, Own, Point, BeatPoints
  <1>7. Covered(p)'
    BY <1>2, <1>3
       DEF Moves, Covered, MadeBy, Point, HoldPoints, BodyPoints, AcquirePoints, SectionPoints
  <1>8. Alone(p) /\ Touches(p) /\ \A s \in Slots : Own(p, s)' <=> Own(p, s)
    BY <1>1, <1>3 DEF Moves, Alone, Touches, Own
  <1>9. Exclusive'
    BY <1>1, <1>2, <1>8, ExclusiveKept
  <1>10. /\ due' \subseteq Proc /\ file' \in [Slots -> Lease \cup {NoLease}]
         /\ brk' \in [Slots -> Proc \cup {NoProc}] /\ brkOld' \subseteq Slots
         /\ holder' \in Proc \cup {NoProc}
    BY <1>1, <1>2 DEF TypeOK
  <1> QED
    BY <1>2, <1>3, <1>4, <1>5, <1>6, <1>7, <1>8, <1>9, <1>10, StepKeeps DEF Moves, VerbInv
-----------------------------------------------------------------------------
(* 5. The clock and the crashes.                                           *)

LEMMA TickKeeps ==
  ASSUME OutsideSession, LeaseInv, Tick
  PROVE  LeaseInv'
  <1>1. /\ InTime /\ UNCHANGED <<brk, brkOld, holder, dead, st>>
        /\ file' = [s \in Slots |-> OneTickOlder(file[s])]
        /\ due' = {p \in Proc : At(p, {"body"}) /\ st[p].held # {}}
    BY DEF Tick, OutsideSession
  <1>2. /\ TypeOK /\ Ttl["auto"] \in Nat /\ Ttl["auto"] >= 3 /\ MaxAge \in Nat
        /\ \A s \in Slots : file[s] \in Lease \cup {NoLease}
    BY AutoTtl, MaxAgeNat DEF LeaseInv, TypeOK
  <1>3. ASSUME NEW s \in Slots
        PROVE  /\ file'[s] \in Lease \cup {NoLease}
               /\ IsLease(file'[s]) <=> IsLease(file[s])
               /\ IsLease(file[s]) =>
                    /\ file'[s].pid = file[s].pid /\ file'[s].kind = file[s].kind
                    /\ file'[s].nonce = file[s].nonce
                    /\ file[s].age \in Nat /\ file'[s].age \in Nat
                    /\ file'[s].age <= file[s].age + 1
    <2> DEFINE l == file[s]
    <2>1. file'[s] = OneTickOlder(l) /\ l \in Lease \cup {NoLease}
      BY <1>1, <1>2
    <2>2. CASE IsLease(l) /\ l.age < MaxAge
      <3>1. l \in Lease /\ l.age \in Nat /\ file'[s] = [l EXCEPT !.age = @ + 1]
        BY <1>2, <2>1, <2>2 DEF OneTickOlder, IsLease, Lease
      <3>2. file'[s] \in Lease /\ file'[s].age = l.age + 1
        BY <1>2, <2>2, <3>1 DEF Lease
      <3> QED
        BY <2>2, <3>1, <3>2, NoLeaseAssumption DEF IsLease, Lease
    <2>3. CASE ~(IsLease(l) /\ l.age < MaxAge)
      <3>1. file'[s] = l
        BY <2>1, <2>3 DEF OneTickOlder
      <3> QED
        BY <1>2, <2>1, <3>1 DEF IsLease, Lease
    <2> QED
      BY <2>2, <2>3
  <1>4. \A p \in Proc, s \in Slots :
           /\ Own(p, s)' <=> Own(p, s)
           /\ Own(p, s) => /\ file'[s].nonce = file[s].nonce
                           /\ file[s].age \in Nat /\ file'[s].age \in Nat
                           /\ file'[s].age <= file[s].age + 1
    BY <1>3 DEF Own
  <1>5. ASSUME NEW p \in Proc \ dead
        PROVE  VerbInv(p)'
    <2>1. /\ Recorded(p) /\ InDate(p) /\ Cleared(p) /\ Covered(p)
          /\ UNCHANGED <<Point(p), Target(p), Slot(p), MadeBy(p), st[p]>>
      BY <1>1 DEF LeaseInv, VerbInv, Point, Target, Slot, MadeBy
    <2>2. Point(p) \in {"start", "done", "body", "cover", "meta", "wait"}
      <3>1. Point(p) \in Points /\ Point(p) \notin BeatPoints
        BY <1>1, <1>2, <2>1, LocalTyped DEF InTime, InDate, Point
      <3>2. Point(p) \notin SectionPoints \cup CheckedPoints \cup {"acquired"}
        BY <1>1 DEF InTime, At, Point
      <3> QED
        BY <3>1, <3>2
           DEF Points, BodyPoints, BeatPoints, AcquirePoints, CheckedPoints
    <2>3. Recorded(p)'
      <3>1. Listed(p)'
        BY <1>2, <1>4, <2>1, LocalTyped DEF Recorded, Listed
      <3> QED
        BY <1>4, <2>1, <2>2, <3>1 DEF Recorded, VerifyPoints
    <2>4. Renewing(p)' /\ Cleared(p)' /\ Covered(p)'
      BY <2>1, <2>2
         DEF Renewing, Cleared, Covered, RenewPoints, CoverPoints, ScanPoints, BreakPoints
    <2>5. ASSUME NEW s \in Slots, Own(p, s)
          PROVE  file'[s].age <= Ttl["auto"] - 2
      <3>1. CASE Point(p) \in {"start", "done"}
        BY <2>1, <2>5, <3>1 DEF Recorded, MadeBy, VerifyPoints
      <3>2. CASE Point(p) = "body"
        BY <1>1, <1>2, <1>4, <2>1, <2>5, <3>2 DEF InDate, InTime
      <3>3. CASE Point(p) \in {"cover", "meta", "wait"}
        <4>1. file[s].kind = "auto" /\ At(p, AcquirePoints)
          BY <2>5, <3>3 DEF LeaseInv, Transient, Own, At, Point, AcquirePoints
        <4>2. file[s].age < Ttl["auto"] - 2
          BY <1>1, <2>5, <4>1 DEF InTime, Own
        <4> QED
          BY <1>2, <1>4, <2>5, <4>2
      <3> QED
        BY <2>2, <3>1, <3>2, <3>3
    <2>6. InDate(p)'
      <3>1. ASSUME NEW s \in Slots, Own(p, s), Point(p) = "body"
            PROVE  s \in st[p].held /\ p \in due'
        BY <1>1, <2>1, <3>1 DEF InDate, At, Point
      <3> QED
        BY <1>4, <2>1, <2>2, <2>5, <3>1 DEF InDate, BeatPoints
    <2> QED
      BY <2>3, <2>4, <2>6 DEF VerbInv
  <1>6. TypeOK'
    <2>1. file' \in [Slots -> Lease \cup {NoLease}] /\ due' \subseteq Proc
      BY <1>1, <1>3
    <2>2. \A p \in Proc : Placed(p)'
      BY <1>1, <1>2 DEF TypeOK, Placed, At, Point, Slot
    <2> QED
      BY <1>1, <1>2, <2>1, <2>2 DEF TypeOK
  <1>7. Transient' /\ Exclusive'
    BY <1>1, <1>3, <1>4, PathSets DEF LeaseInv, Transient, Exclusive
  <1> QED
    BY <1>1, <1>5, <1>6, <1>7 DEF LeaseInv

LEMMA DieKeeps ==
  ASSUME OutsideSession, LeaseInv, NEW p \in Pids, Die(p)
  PROVE  LeaseInv'
  <1>1. /\ dead' = dead \cup {p} /\ due' = due \ {p}
        /\ UNCHANGED <<file, brk, brkOld, holder, st>>
    BY DEF Die, Section!Die
  <1>2. \A q \in Proc, s \in Slots : Own(q, s)' <=> Own(q, s)
    BY <1>1 DEF Own
  <1>3. ASSUME NEW q \in Proc \ dead'
        PROVE  VerbInv(q)'
    <2>1. /\ VerbInv(q) /\ (q \in due' <=> q \in due)
          /\ UNCHANGED <<Point(q), Target(q), Slot(q), MadeBy(q), st[q], Listed(q)>>
      BY <1>1 DEF LeaseInv, Point, Target, Slot, MadeBy, Listed, Own
    <2>2. Recorded(q)' /\ Renewing(q)' /\ InDate(q)' /\ Covered(q)'
      BY <1>1, <1>2, <2>1 DEF VerbInv, Recorded, Renewing, InDate, Covered, Own
    <2>3. \A l : ~LiveLease(l, dead) => ~LiveLease(l, dead')
      BY <1>1 DEF LiveLease, IsStale
    <2>4. Cleared(q)'
      BY <1>1, <2>1, <2>3 DEF VerbInv, Cleared, Own
    <2> QED
      BY <2>2, <2>4 DEF VerbInv
  <1>4. TypeOK'
    <2>1. \A q \in Proc : Placed(q)'
      BY <1>1 DEF LeaseInv, TypeOK, Placed, At, Point, Slot
    <2> QED
      BY <1>1, <2>1 DEF LeaseInv, TypeOK
  <1>5. Transient' /\ Exclusive'
    <2>1. Transient'
      BY <1>1 DEF LeaseInv, Transient
    <2>2. Exclusive'
      BY <1>1, <1>2, PathSets DEF LeaseInv, Exclusive
    <2> QED
      BY <2>1, <2>2
  <1> QED
    BY <1>1, <1>3, <1>4, <1>5 DEF LeaseInv

LEMMA AgeBreakKeeps ==
  ASSUME LeaseInv, NEW s \in Slots, AgeBreak(s)
  PROVE  LeaseInv'
  <1>1. brkOld' = brkOld \cup {s} /\ UNCHANGED <<file, brk, holder, dead, st, due>>
    BY DEF AgeBreak
  <1>2. TypeOK'
    BY <1>1 DEF LeaseInv, TypeOK, Placed, At, Point, Slot
  <1>3. \A q \in Proc \ dead : VerbInv(q)'
    BY <1>1 DEF LeaseInv, VerbInv, Recorded, Listed, Renewing, InDate, Cleared, Covered,
       Own, MadeBy, Point, Slot, Target
  <1> QED
    BY <1>1, <1>2, <1>3 DEF LeaseInv, Transient, Exclusive, Own
-----------------------------------------------------------------------------
(* 6. The invariant, and what follows from it.                             *)

LEMMA InitEstablishes == ASSUME OutsideSession, Init PROVE LeaseInv
  <1>1. /\ file \in [Slots -> Lease \cup {NoLease}]
        /\ \A s \in Slots : IsLease(file[s]) => file[s].pid \notin Proc \cup Shells
        /\ brk = [s \in Slots |-> NoProc] /\ brkOld = {} /\ holder = NoProc
        /\ dead = Ghosts /\ due = {}
    BY DEF Init, OutsideSession
  <1>2. ASSUME NEW p \in Proc
        PROVE  /\ st[p] \in LocalState /\ st[p].pc = "start" /\ st[p].created = <<>>
               /\ st[p].tok = NoToken
    <2> DEFINE r == [Idle EXCEPT !.tok = Token[p]]
    <2>1. Token[p] = NoToken
      BY DEF OutsideSession
    <2>2. <<>> \in Seq(Slots) /\ <<>> \in Seq(Slots \X Nonces) /\ "start" \in Points
      BY DEF Points
    <2>3. r \in LocalState /\ r.pc = "start" /\ r.created = <<>> /\ r.tok = NoToken
      BY <2>1, <2>2 DEF Idle, LocalState
    <2>4. st[p] = r
      BY DEF Init
    <2> HIDE DEF r
    <2> QED
      BY <2>3, <2>4
  <1>3. \A p \in Proc : Point(p) = "start" /\ \A s \in Slots : ~Own(p, s)
    BY <1>1, <1>2 DEF Point, Own
  <1>4. TypeOK
    <2>1. \A p \in Proc : Placed(p)
      BY <1>3 DEF Placed, At, Point, AcquirePoints, SectionPoints, BreakPoints,
         SlotPoints, SeenPoints
    <2>2. st \in [Proc -> LocalState]
      BY <1>2 DEF Init
    <2>3. dead \subseteq Pids
      BY <1>1 DEF Pids
    <2> QED
      BY <1>1, <2>1, <2>2, <2>3 DEF TypeOK
  <1>5. \A p \in Proc : VerbInv(p)
    <2> SUFFICES ASSUME NEW p \in Proc PROVE VerbInv(p)
      OBVIOUS
    <2>1. Recorded(p) /\ InDate(p)
      BY <1>2, <1>3 DEF Recorded, Listed, InDate, VerifyPoints, BeatPoints
    <2>2. Renewing(p) /\ Cleared(p) /\ Covered(p)
      BY <1>3 DEF Renewing, Cleared, Covered, RenewPoints, CoverPoints, ScanPoints,
         BreakPoints, AcquirePoints, SectionPoints, HoldPoints, BodyPoints
    <2> QED
      BY <2>1, <2>2 DEF VerbInv
  <1>6. Transient /\ Exclusive
    BY <1>1, <1>3, PathSets DEF Transient, Exclusive
  <1> QED
    BY <1>2, <1>4, <1>5, <1>6 DEF LeaseInv

LEMMA NextKeeps == ASSUME OutsideSession, LeaseInv, [Next]_vars PROVE LeaseInv'
  <1>1. CASE UNCHANGED vars
    <2>1. TypeOK'
      BY <1>1 DEF vars, LeaseInv, TypeOK, Placed, At, Point, Slot
    <2>2. \A q \in Proc \ dead : VerbInv(q)'
      BY <1>1, SMTT(30) DEF vars, LeaseInv, VerbInv, Recorded, Listed, Renewing, InDate, Cleared,
         Covered, Own, MadeBy, Point, Slot, Target
    <2> QED
      BY <1>1, <2>1, <2>2 DEF vars, LeaseInv, Transient, Exclusive, Own
  <1>2. CASE Environment
    BY <1>2, TickKeeps, DieKeeps, AgeBreakKeeps DEF Environment
  <1>3. ASSUME NEW p \in Proc, Step(p) \/ (GiveUp(p) /\ UNCHANGED due)
        PROVE  LeaseInv'
    BY <1>3, AcquireStepKeeps, EnterBodyKeeps, LookBeatKeeps, CheckBeatKeeps,
       ReplaceBeatKeeps, EndBeatKeeps DEF Step, BodyStep
  <1> QED
    BY <1>1, <1>2, <1>3 DEF Next

\* LeaseInv holds in every reachable state of verbs outside any session.
THEOREM LeaseInvariance == ASSUME OutsideSession PROVE Spec => []LeaseInv
  BY InitEstablishes, NextKeeps, PTL DEF Spec

\* No step of the protocol looks for a scope, a slot, a lease or a lock that
\* is not there.
THEOREM LeaseTypes == ASSUME OutsideSession PROVE Spec => []TypeOK
  <1>1. LeaseInv => TypeOK
    BY DEF LeaseInv
  <1> QED
    BY <1>1, LeaseInvariance, PTL

\* What a verb that has its scopes owns covers each of them.
LEMMA HolderCovered ==
  ASSUME OutsideSession, LeaseInv, NEW p \in Proc, At(p, HoldPoints), NEW s \in Asked(p)
  PROVE  \E c \in Covers(s) : c \in Slots /\ Own(p, c)
  <1>1. Recorded(p) /\ Covered(p) /\ Point(p) \in HoldPoints /\ TypeOK
    BY ActorFacts
  <1>2. PICK c \in MadeBy(p) : c \in Covers(s)
    BY <1>1, EmptySet DEF Covered
  <1>3. c \in Slots /\ Own(p, c)
    BY <1>1, <1>2, LocalTyped DEF Recorded, Listed, MadeBy
  <1> QED
    BY <1>2, <1>3

\* Two verbs that have their scopes have scopes that do not conflict.
LEMMA HoldersApart ==
  ASSUME OutsideSession, LeaseInv, NEW p \in Proc, NEW q \in Proc, p # q,
         At(p, HoldPoints), At(q, HoldPoints), NEW s \in Asked(p), NEW t \in Asked(q)
  PROVE  ~Conflict(s, t)
  <1>1. p \notin dead /\ q \notin dead /\ Exclusive
    BY DEF At, LeaseInv
  <1>2. PICK c \in Covers(s) : c \in Slots /\ Own(p, c)
    BY HolderCovered
  <1>3. PICK d \in Covers(t) : d \in Slots /\ Own(q, d)
    BY HolderCovered
  <1>4. c # d /\ c # All /\ d # All
    BY <1>1, <1>2, <1>3 DEF Own, Exclusive
  <1> QED
    BY <1>2, <1>3, <1>4 DEF Covers, Conflict

\* A verb in its body has a live lease of its own on disk for every scope it
\* asked for, however many verbs compete, are killed or leave leases behind.
THEOREM BodiesAreProtected == ASSUME OutsideSession PROVE Spec => []BodyProtected
  <1>1. LeaseInv => BodyProtected
    <2> SUFFICES ASSUME LeaseInv, NEW p \in Proc, InBody(p), NEW s \in Asked(p)
                 PROVE  \E c \in Covers(s) :
                          LiveLease(file[c], dead) /\ Mine(p, file[c])
      BY DEF BodyProtected
    <2>1. At(p, HoldPoints)
      BY DEF InBody, At, HoldPoints
    <2>2. PICK c \in Covers(s) : c \in Slots /\ Own(p, c)
      BY <2>1, HolderCovered
    <2>3. LiveLease(file[c], dead) /\ Mine(p, file[c])
      BY <2>1, <2>2, OwnIsLive DEF At, LiveLease, Own
    <2> QED
      BY <2>3
  <1> QED
    BY <1>1, LeaseInvariance, PTL

\* The bodies of two verbs never run at once on conflicting scopes.
THEOREM BodiesExclude == ASSUME OutsideSession PROVE Spec => []BodyExclusion
  <1>1. LeaseInv => BodyExclusion
    BY HoldersApart DEF BodyExclusion, InBody, At, HoldPoints, SameSession
  <1> QED
    BY <1>1, LeaseInvariance, PTL

\* A verb that ended, by success, by giving up or by an error, left no lease
\* of its making on disk.
THEOREM NothingIsLeftBehind == ASSUME OutsideSession PROVE Spec => []NothingLeftBehind
  <1>1. LeaseInv => NothingLeftBehind
    <2> SUFFICES ASSUME LeaseInv, NEW p \in Proc, At(p, {"done"}), NEW s \in Slots
                 PROVE  ~Own(p, s)
      BY DEF NothingLeftBehind, Own
    <2> QED
      BY ActorFacts DEF Recorded, MadeBy, VerifyPoints
  <1> QED
    BY <1>1, LeaseInvariance, PTL

\* What becomes of the live leases in a step of a verb.
LEMMA StepRemoves ==
  ASSUME OutsideSession, LeaseInv, NEW p \in Proc, NEW s \in Slots,
         Step(p) \/ GiveUp(p), LiveLease(file[s], dead),
         file'[s] = NoLease \/ file'[s].nonce # file[s].nonce
  PROVE  Own(p, s) /\ st'[p] # st[p]
  <1>1. TypeOK /\ IsLease(file[s]) /\ file'[s] # file[s]
    BY DEF LeaseInv, LiveLease, IsLease
  <1>2. CASE ReplaceCover(p) \/ ReplaceBeat(p)
    <2>1. /\ At(p, RenewPoints) /\ file' = [file EXCEPT ![Slot(p)] = [st[p].seen EXCEPT !.age = 0]]
      BY <1>2 DEF ReplaceCover, ReplaceBeat, Write, At, RenewPoints
    <2>2. Own(p, Slot(p)) /\ file[Slot(p)] = st[p].seen
      BY <2>1, ActorFacts DEF Renewing
    <2>3. Slot(p) = s /\ file[s] \in Lease /\ file'[s] = [file[s] EXCEPT !.age = 0]
      BY <1>1, <2>1, <2>2 DEF TypeOK, IsLease
    <2>4. file'[s] \in Lease /\ file'[s].nonce = file[s].nonce
      BY <2>3, MaxAgeNat DEF Lease
    <2> QED
      BY <2>4, NoLeaseAssumption
  <1>3. CASE Create(p)
    <2>1. \/ file' = file
          \/ /\ file[Target(p)] = NoLease
             /\ \E l : file' = [file EXCEPT ![Target(p)] = l]
      BY <1>3 DEF Create, Write
    <2> QED
      BY <1>1, <2>1 DEF TypeOK, IsLease
  <1>4. CASE ClearOwn(p)
    BY <1>4, NoClearing
  <1>5. CASE BreakUnlink(p)
    <2>1. Point(p) = "breakUnlink" /\ Cleared(p)
      BY <1>5, ActorFacts DEF BreakUnlink
    <2>2. Slot(p) = s
      BY <1>1, <1>5 DEF BreakUnlink, Unlink, Write, TypeOK
    <2> QED
      BY <2>1, <2>2 DEF Cleared
  <1>6. CASE BackoffUnlink(p)
    <2>1. At(p, VerifyPoints) /\ st[p].pc = "backoffUnlink" /\ Goto(p, "blocked")
      BY <1>6 DEF BackoffUnlink, At, VerifyPoints
    <2>2. Own(p, Target(p))
      BY <2>1, ActorFacts DEF Recorded
    <2>3. Target(p) = s
      BY <1>1, <1>6 DEF BackoffUnlink, Unlink, Write, TypeOK
    <2>4. st'[p].pc = "blocked"
      BY <1>1, <2>1, GotoMoves DEF Moves, Points, AcquirePoints, SectionPoints
    <2> QED
      BY <2>1, <2>2, <2>3, <2>4
  <1>7. CASE ReleaseUnlink(p)
    <2> DEFINE c == st[p].created
    <2>1. /\ At(p, {"releaseUnlink"}) /\ Recorded(p) /\ c # <<>>
          /\ c \in Seq(Slots \X Nonces) /\ st[p].pc = "releaseUnlink"
          /\ st[p] \in LocalState
      BY <1>7, ActorFacts, LocalTyped DEF ReleaseUnlink, Placed
    <2>2. 1 \in DOMAIN c /\ Head(c) = c[1]
      BY <2>1, TailCreated
    <2>3. Own(p, Head(c)[1])
      BY <2>1, <2>2, SMTT(30) DEF Recorded, Listed
    <2>4. Head(c)[1] = s
      BY <1>1, <1>7, SMTT(30) DEF ReleaseUnlink, Unlink, Write, TypeOK
    <2>5. st'[p].pc = "release"
      BY <1>1, <1>7, <2>1, SMTT(30) DEF ReleaseUnlink, TypeOK, LocalState
    <2> QED
      BY <2>1, <2>3, <2>4, <2>5
  <1>8. ASSUME ~(ReplaceCover(p) \/ ReplaceBeat(p) \/ Create(p) \/ ClearOwn(p) \/ BreakUnlink(p)
                   \/ BackoffUnlink(p) \/ ReleaseUnlink(p))
        PROVE  file' = file
    BY <1>8 DEF Step, BodyStep, AcquireStep, GiveUp, Start, LookCover, NotCovered,
       CheckCover, RenewCheck, EnterSection, MetaContended, ReclaimSection, Scan,
       TakeBreak, BreakBusy, BreakClear, BreakRead, BreakDone, BreakRefused, Reread,
       Verify, Backoff, Won, Blocked, Retry, ReleaseRead, Released, EnterBody,
       StartBeat, LookBeat, CheckBeat, EndBeat, EndBody
  <1> QED
    BY <1>1, <1>2, <1>3, <1>4, <1>5, <1>6, <1>7, <1>8

\* A live lease leaves its file, or gives way to another, only by a step of
\* the verb that owns it: no guarded read of _renew, _break_stale or release
\* is out of date when the write that relies on it comes.
THEOREM OwnersRemove == ASSUME OutsideSession PROVE Spec => OnlyOwnerRemoves
  <1>1. ASSUME LeaseInv, [Next]_vars, NEW s \in Slots, LiveLease(file[s], dead),
               file'[s] = NoLease \/ file'[s].nonce # file[s].nonce
        PROVE  \E p \in Proc : Mine(p, file[s]) /\ st'[p] # st[p]
    <2>1. CASE UNCHANGED vars \/ Environment
      <3>1. file'[s] = file[s] \/ file'[s] = OneTickOlder(file[s])
        BY <2>1 DEF vars, Environment, Tick, AgeBreak, Die
      <3>2. file[s] \in Lease
        BY <1>1 DEF LeaseInv, TypeOK, LiveLease, IsLease
      <3>3. OneTickOlder(file[s]).nonce = file[s].nonce /\ OneTickOlder(file[s]) \in Lease
        BY <3>2, MaxAgeNat, SMTT(30) DEF OneTickOlder, Lease
      <3> QED
        BY <1>1, <3>1, <3>2, <3>3, NoLeaseAssumption
    <2>2. ASSUME NEW p \in Proc, Step(p) \/ GiveUp(p)
          PROVE  Mine(p, file[s]) /\ st'[p] # st[p]
      <3>1. Own(p, s) /\ st'[p] # st[p]
        BY <1>1, <2>2, StepRemoves, SMTT(30)
      <3>2. p \notin dead
        BY <2>2 DEF Step, BodyStep, AcquireStep, GiveUp, Start, LookCover, NotCovered,
           CheckCover, RenewCheck, ReplaceCover, EnterSection, MetaContended,
           ReclaimSection, Scan, ClearOwn, TakeBreak, BreakBusy, BreakClear, BreakRead,
           BreakUnlink, BreakDone, BreakRefused, Reread, Create, Verify, Backoff,
           BackoffUnlink, Won, Blocked, Retry, ReleaseRead, ReleaseUnlink, Released,
           EnterBody, StartBeat, LookBeat, CheckBeat, ReplaceBeat, EndBeat, EndBody, At
      <3> QED
        BY <1>1, <3>1, <3>2, OwnIsLive, SMTT(30)
    <2> QED
      BY <1>1, <2>1, <2>2 DEF Next
  <1>2. LeaseInv /\ [Next]_vars =>
          [\A s \in Slots :
             LiveLease(file[s], dead) /\ (file'[s] = NoLease \/ file'[s].nonce # file[s].nonce)
               => \E p \in Proc : Mine(p, file[s]) /\ st'[p] # st[p]]_vars
    BY <1>1
  <1> QED
    BY <1>2, LeaseInvariance, PTL DEF Spec, OnlyOwnerRemoves
-----------------------------------------------------------------------------
(* 7. The refinement.                                                      *)

Using == [p \in Proc |-> IF InBody(p) THEN Asked(p) ELSE {}]

LEMMA AskedScopes == ASSUME NEW p \in Proc PROVE Asked(p) \subseteq Slots
  BY WantAssumption DEF Asked, ToSet

\* A step that takes nobody into its body, or out of it, does not show.
LEMMA Unseen ==
  ASSUME \A q \in Proc : InBody(q)' <=> InBody(q)
  PROVE  UNCHANGED Using
  BY DEF Using, Asked

LEMMA BeginOutside ==
  ASSUME TypeOK, NEW p \in Proc, NEW rest, NEW mine, "pc" \in DOMAIN mine,
         Begin(p, rest, mine)
  PROVE  st'[p].pc \in {"acquired", "cover"} /\ \A q \in Proc \ {p} : st'[q] = st[q]
  <1>1. ASSUME NEW point, NEW todo, NEW scan,
               st' = [st EXCEPT ![p] = [mine EXCEPT !.pc = point, !.todo = todo,
                                                    !.scan = scan, !.seen = NoLease]]
        PROVE  st'[p].pc = point /\ \A q \in Proc \ {p} : st'[q] = st[q]
    <2> DEFINE r == [mine EXCEPT !.pc = point, !.todo = todo, !.scan = scan, !.seen = NoLease]
    <2>1. r.pc = point
      OBVIOUS
    <2>2. st' = [st EXCEPT ![p] = r]
      BY <1>1
    <2> HIDE DEF r
    <2> QED
      BY <2>1, <2>2 DEF TypeOK
  <1> QED
    BY <1>1 DEF Begin

\* Outside EnterBody and EndBody, a step of a verb starts and ends on the
\* same side of the body.
LEMMA StaysOutside ==
  ASSUME TypeOK, NEW p \in Proc, Start(p) \/ AcquireStep(p) \/ GiveUp(p)
  PROVE  /\ dead' = dead /\ \A q \in Proc \ {p} : st'[q] = st[q]
         /\ ~InBody(p) /\ ~InBody(p)'
  <1> USE DEF InBody, At, BodyPoints
  <1>1. /\ st[p] \in LocalState /\ st \in [Proc -> LocalState]
        /\ "pc" \in DOMAIN st[p] /\ "scan" \in DOMAIN st[p]
    BY DEF TypeOK, LocalState
  <1>2. CASE Start(p) \/ Retry(p)
    BY <1>1, <1>2, BeginOutside DEF Start, Retry
  <1>3. CASE ReplaceCover(p) \/ Won(p)
    <2>1. /\ "pc" \in DOMAIN [st[p] EXCEPT !.pass = @ \cup {Slot(p)}]
          /\ "pc" \in DOMAIN [st[p] EXCEPT !.created = Append(@, <<Target(p), st[p].seen.nonce>>)]
      BY <1>1
    <2> QED
      BY <1>3, <2>1, BeginOutside DEF ReplaceCover, Won, Section!Leave
  <1>4. CASE \/ LookCover(p) \/ NotCovered(p) \/ CheckCover(p) \/ MetaContended(p)
             \/ Scan(p) \/ ClearOwn(p) \/ TakeBreak(p) \/ BreakBusy(p) \/ BreakClear(p)
    BY <1>1, <1>4
       DEF LookCover, NotCovered, CheckCover, RenewCheck, MetaContended, Scan, ClearOwn,
           TakeBreak, BreakBusy, BreakClear, Goto, NextSlot
  <1>5. CASE \/ EnterSection(p) \/ ReclaimSection(p) \/ Blocked(p)
    BY <1>1, <1>5
       DEF EnterSection, ReclaimSection, Blocked, Goto, Section!Enter, Section!Reclaim,
           Section!Leave
  <1>6. CASE \/ BreakRead(p) \/ BreakUnlink(p) \/ BreakDone(p) \/ BreakRefused(p) \/ Reread(p)
    BY <1>1, <1>6
       DEF BreakRead, BreakUnlink, BreakDone, BreakRefused, Reread, Goto
  <1>7. CASE \/ Verify(p) \/ Backoff(p) \/ BackoffUnlink(p) \/ GiveUp(p)
    BY <1>1, <1>7
       DEF Verify, Backoff, BackoffUnlink, GiveUp, Goto, NextSlot
  <1>8. CASE \/ ReleaseRead(p) \/ ReleaseUnlink(p) \/ Released(p)
    BY <1>1, <1>8 DEF ReleaseRead, ReleaseUnlink, Released
  <1>9. CASE Create(p)
    <2>1. PICK point \in {"verify", "blocked"} :
             \E scan, seen :
               \/ st' = [st EXCEPT ![p].pc = point, ![p].seen = seen, ![p].scan = scan]
               \/ st' = [st EXCEPT ![p].pc = point]
      BY <1>9 DEF Create, Goto
    <2>2. At(p, {"scan"}) /\ dead' = dead
      BY <1>9 DEF Create
    <2>3. st'[p].pc = point /\ \A q \in Proc \ {p} : st'[q] = st[q]
      BY <1>1, <2>1
    <2> QED
      BY <2>1, <2>2, <2>3
  <1> QED
    BY <1>2, <1>3, <1>4, <1>5, <1>6, <1>7, <1>8, <1>9 DEF AcquireStep

\* A verb that has its scopes may start its body; one that starts it does.
LEMMA EnterBodyRefines ==
  ASSUME OutsideSession, LeaseInv, NEW p \in Proc, EnterBody(p)
  PROVE  [Exclusion!ExclusionNext]_Using
  <1>1. /\ At(p, {"acquired"}) /\ dead' = dead /\ st \in [Proc -> LocalState]
        /\ st[p] \in LocalState /\ st[p].pc = "acquired" /\ p \notin dead
    BY ActorFacts DEF EnterBody, TypeOK
  <1>2. st'[p].pc = "beat" /\ \A q \in Proc \ {p} : st'[q] = st[q]
    BY <1>1 DEF EnterBody, LocalState
  <1>3. /\ ~InBody(p) /\ InBody(p)'
        /\ \A q \in Proc \ {p} : InBody(q)' <=> InBody(q)
    BY <1>1, <1>2 DEF InBody, At, BodyPoints
  <1>4. Using' = [Using EXCEPT ![p] = Asked(p)] /\ Using[p] = {}
    BY <1>3 DEF Using, Asked
  <1>5. CASE Asked(p) = {}
    BY <1>4, <1>5 DEF Using
  <1>6. CASE Asked(p) # {}
    <2>1. ASSUME NEW q \in Proc, ~SameSession(p, q), NEW s \in Asked(p), NEW t \in Using[q]
          PROVE  ~Conflict(s, t)
      <3>1. p # q /\ InBody(q) /\ t \in Asked(q)
        BY <2>1 DEF SameSession, Using
      <3>2. At(p, HoldPoints) /\ At(q, HoldPoints)
        BY <1>1, <3>1 DEF InBody, At, HoldPoints
      <3> QED
        BY <3>1, <3>2, HoldersApart
    <2>2. Exclusion!Begin(p, Asked(p))
      BY <1>4, <2>1 DEF Exclusion!Begin, Using
    <2>3. Asked(p) \in (SUBSET Slots) \ {{}}
      BY <1>6, AskedScopes
    <2> QED
      BY <2>2, <2>3 DEF Exclusion!ExclusionNext
  <1> QED
    BY <1>5, <1>6

\* One verb's body ends, the others' go on.
LEMMA LeavingRefines ==
  ASSUME NEW p \in Proc, ~InBody(p)', \A q \in Proc \ {p} : InBody(q)' <=> InBody(q)
  PROVE  [Exclusion!ExclusionNext]_Using
  <1>1. Using' = [Using EXCEPT ![p] = {}]
    BY DEF Using, Asked
  <1>2. CASE Using[p] = {}
    BY <1>1, <1>2 DEF Using
  <1>3. CASE Using[p] # {}
    BY <1>1, <1>3 DEF Exclusion!ExclusionNext, Exclusion!End, Using
  <1> QED
    BY <1>2, <1>3

LEMMA BodyStepRefines ==
  ASSUME TypeOK, NEW p \in Proc, BodyStep(p)
  PROVE  [Exclusion!ExclusionNext]_Using
  <1> USE DEF InBody, At, BodyPoints
  <1>1. /\ st[p] \in LocalState /\ st \in [Proc -> LocalState]
        /\ "pc" \in DOMAIN st[p] /\ "scan" \in DOMAIN st[p]
    BY DEF TypeOK, LocalState
  <1>2. CASE EndBody(p)
    <2>1. ~InBody(p)' /\ \A q \in Proc \ {p} : InBody(q)' <=> InBody(q)
      BY <1>1, <1>2 DEF EndBody, Goto
    <2> QED
      BY <2>1, LeavingRefines
  <1>3. CASE StartBeat(p) \/ LookBeat(p) \/ CheckBeat(p) \/ ReplaceBeat(p) \/ EndBeat(p)
    <2>1. \A q \in Proc : InBody(q)' <=> InBody(q)
      BY <1>1, <1>3 DEF StartBeat, LookBeat, CheckBeat, RenewCheck, ReplaceBeat, EndBeat,
         Goto, NextSlot
    <2> QED
      BY <2>1, Unseen
  <1> QED
    BY <1>2, <1>3 DEF BodyStep

LEMMA EnvironmentRefines ==
  ASSUME Environment
  PROVE  [Exclusion!ExclusionNext]_Using
  <1>1. CASE Tick \/ \E s \in Slots : AgeBreak(s)
    BY <1>1, Unseen DEF Tick, AgeBreak, InBody, At
  <1>2. ASSUME NEW p \in Pids, Die(p)
        PROVE  [Exclusion!ExclusionNext]_Using
    <2>1. dead' = dead \cup {p} /\ st' = st
      BY <1>2 DEF Die, Section!Die
    <2>2. \A q \in Proc \ {p} : InBody(q)' <=> InBody(q)
      BY <2>1 DEF InBody, At
    <2>3. CASE p \in Proc
      BY <2>1, <2>2, <2>3, LeavingRefines DEF InBody, At
    <2>4. CASE p \notin Proc
      BY <2>2, <2>4, Unseen
    <2> QED
      BY <2>3, <2>4
  <1> QED
    BY <1>1, <1>2 DEF Environment

\* The lease files implement device exclusion: a verb starts its body only
\* while no other drives a scope that conflicts with those it asked for.
THEOREM LeasesImplementExclusion ==
  ASSUME OutsideSession PROVE Spec => ImplementsExclusion
  <1>1. Init => Exclusion!ExclusionInit
    <2> SUFFICES ASSUME Init PROVE Exclusion!ExclusionInit
      OBVIOUS
    <2>1. \A p \in Proc : ~InBody(p)
      BY InitEstablishes DEF Init, Idle, InBody, At, BodyPoints
    <2> QED
      BY <2>1 DEF Exclusion!ExclusionInit
  <1>2. LeaseInv /\ [Next]_vars => [Exclusion!ExclusionNext]_Using
    <2> SUFFICES ASSUME LeaseInv, [Next]_vars PROVE [Exclusion!ExclusionNext]_Using
      OBVIOUS
    <2>1. CASE UNCHANGED vars
      BY <2>1, Unseen DEF vars, InBody, At
    <2>2. CASE Environment
      BY <2>2, EnvironmentRefines
    <2>3. ASSUME NEW p \in Proc, Start(p) \/ AcquireStep(p) \/ GiveUp(p)
          PROVE  [Exclusion!ExclusionNext]_Using
      <3>1. \A q \in Proc : InBody(q)' <=> InBody(q)
        BY <2>3, StaysOutside DEF LeaseInv, InBody, At
      <3> QED
        BY <3>1, Unseen
    <2>4. ASSUME NEW p \in Proc, EnterBody(p) \/ BodyStep(p)
          PROVE  [Exclusion!ExclusionNext]_Using
      BY <2>4, EnterBodyRefines, BodyStepRefines DEF LeaseInv
    <2> QED
      BY <2>1, <2>2, <2>3, <2>4 DEF Next, Step
  <1> QED
    BY <1>1, <1>2, LeaseInvariance, PTL DEF Spec, ImplementsExclusion,
       Exclusion!ExclusionSpec, Using
=============================================================================
