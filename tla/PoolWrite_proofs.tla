-------------------------- MODULE PoolWrite_proofs --------------------------
(***************************************************************************)
(* Pool writes, for any calls, pools, positions, delays of the listing and *)
(* saves at the front panel, when the listings settle and the front panel  *)
(* uses other names: PoolInv is inductive, and the properties of PoolWrite *)
(* follow.                                                                 *)
(***************************************************************************)
EXTENDS PoolWrite, TLAPS

\* The entries that a step leaves: the presets of others are all there, and
\* only the call and the front panel add any.
Carried(entries) ==
    /\ entries \subseteq EntrySet
    /\ \A x, y \in entries : x.cid = y.cid => x = y
    /\ \A x \in pool : x.cid[1] # Now =>
         \E y \in entries : y.cid = x.cid /\ y.name = x.name /\ y.content = x.content
    /\ \A y \in entries : y.cid[1] \in {-1, Now} \/ \E x \in pool : x.cid = y.cid
    /\ MadeBy(entries)

(* Facts about the operators the model is built from.                      *)

\* An insertion keeps the cid, the name and the content of every entry, and
\* moves none unless the position is taken.
LEMMA InsertKeeps ==
  ASSUME NEW S \in SUBSET EntrySet, NEW e \in EntrySet
  PROVE  /\ e \in Insert(S, e)
         /\ Insert(S, e) \subseteq EntrySet
         /\ \A x \in S : \E y \in Insert(S, e) :
              y.cid = x.cid /\ y.name = x.name /\ y.content = x.content
         /\ \A y \in Insert(S, e) \ {e} : \E x \in S :
              /\ y.cid = x.cid /\ y.name = x.name /\ y.content = x.content
              /\ y.posi = x.posi \/ (y.posi = x.posi + 1 /\ x.posi >= e.posi
                                       /\ Occupied(S, e.posi))
              /\ x.posi = e.posi => y.posi # e.posi
  <1> DEFINE M(x) == IF Occupied(S, e.posi) /\ x.posi >= e.posi
                     THEN [x EXCEPT !.posi = @ + 1] ELSE x
  <1>1. ASSUME NEW x \in S
        PROVE  /\ M(x) \in EntrySet /\ M(x).cid = x.cid /\ M(x).name = x.name
               /\ M(x).content = x.content
               /\ M(x).posi = x.posi \/ (M(x).posi = x.posi + 1 /\ x.posi >= e.posi
                                           /\ Occupied(S, e.posi))
               /\ x.posi = e.posi => M(x).posi # e.posi
    <2>1. x \in EntrySet
      OBVIOUS
    <2>2. CASE Occupied(S, e.posi) /\ x.posi >= e.posi
      <3>1. M(x) = [x EXCEPT !.posi = @ + 1]
        BY <2>2
      <3> HIDE DEF M
      <3> QED
        BY <2>1, <2>2, <3>1 DEF EntrySet
    <2>3. CASE ~(Occupied(S, e.posi) /\ x.posi >= e.posi)
      <3>1. M(x) = x
        BY <2>3
      <3>2. x.posi = e.posi => Occupied(S, e.posi) /\ x.posi >= e.posi
        BY <2>1 DEF Occupied, EntrySet
      <3> HIDE DEF M
      <3> QED
        BY <2>1, <2>3, <3>1, <3>2
    <2> QED
      BY <2>2, <2>3
  <1>2. Insert(S, e) = {M(x) : x \in S} \cup {e}
    BY DEF Insert
  <1> HIDE DEF M
  <1> QED
    BY <1>1, <1>2

\* A new cid leaves the cids of the entries unique.
LEMMA InsertUnique ==
  ASSUME NEW S \in SUBSET EntrySet, NEW e \in EntrySet,
         \A x, y \in S : x.cid = y.cid => x = y,
         \A x \in S : x.cid # e.cid
  PROVE  \A x, y \in Insert(S, e) : x.cid = y.cid => x = y
  <1> DEFINE M(x) == IF Occupied(S, e.posi) /\ x.posi >= e.posi
                     THEN [x EXCEPT !.posi = @ + 1] ELSE x
  <1>1. \A x \in S : M(x).cid = x.cid
    <2> TAKE x \in S
    <2>1. x \in EntrySet
      OBVIOUS
    <2> QED
      BY <2>1 DEF EntrySet
  <1>2. Insert(S, e) = {M(x) : x \in S} \cup {e}
    BY DEF Insert
  <1> HIDE DEF M
  <1> QED
    BY <1>1, <1>2

\* A row shows the cid, the name and the position of its entry.
LEMMA RowFields ==
  ASSUME NEW S \in SUBSET EntrySet
  PROVE  /\ Rows(S) \subseteq [cid : CidSet, name : Names, posi : Nat]
         /\ \A x \in S : /\ Row(x) \in Rows(S)
                         /\ Row(x).cid = x.cid /\ Row(x).name = x.name
                         /\ Row(x).posi = x.posi
         /\ \A r \in Rows(S) : \E x \in S : r = Row(x)
  <1>1. \A x \in S : x \in EntrySet
    OBVIOUS
  <1> QED
    BY <1>1 DEF Rows, Row, EntrySet

\* What holds of the entries holds of their rows.
LEMMA RowsToo ==
  ASSUME NEW S \in SUBSET EntrySet
  PROVE  /\ MadeBy(S) => MadeBy(Rows(S))
         /\ OwnRows(S) => OwnRows(Rows(S))
         /\ Attributable(S) => Attributable(Rows(S))
  <1>1. \A r \in Rows(S) : \E x \in S : r.cid = x.cid /\ r.name = x.name /\ r.posi = x.posi
    BY RowFields
  <1> QED
    BY <1>1 DEF MadeBy, OwnRows, Attributable
-----------------------------------------------------------------------------
(* What holds in every state of the invariant.                             *)

\* The call under way is one of the batch, and its number is positive.
LEMMA CallUnderWay ==
  ASSUME PoolInv
  PROVE  /\ Now \in Nat /\ Now >= 1 /\ DOMAIN results = 1..Len(results)
         /\ Now = Len(results) + 1 /\ Len(results) \in Nat
         /\ DOMAIN calls = 1..Len(calls) /\ Len(calls) \in Nat
         /\ Now <= Len(calls) => /\ Now \in DOMAIN calls
                                 /\ Call \in CallSet /\ Call = calls[Now]
  <1>1. results \in Seq(UNION {{r} : r \in {results[k] : k \in DOMAIN results}})
           /\ Len(results) \in Nat /\ DOMAIN results = 1..Len(results)
    BY DEF PoolInv, TypeOK
  <1>2. calls \in Seq(CallSet)
    BY PoolAssumption DEF PoolInv, TypeOK
  <1>3. DOMAIN calls = 1..Len(calls) /\ Len(calls) \in Nat
          /\ \A k \in 1..Len(calls) : calls[k] \in CallSet
    BY <1>2
  <1> QED
    BY <1>1, <1>3 DEF Now, Call

\* No entry of the command has a name of the front panel.
LEMMA NamesApart ==
  ASSUME DistinctNames, PoolInv
  PROVE  \A j \in DOMAIN calls : calls[j].name \notin PanelNames
  BY DEF DistinctNames, PoolInv, TypeOK

\* Before its create, a call has nothing in the pool.
LEMMA NothingYet ==
  ASSUME PoolInv, c.pc = "look"
  PROVE  \A x \in pool \cup index : x.cid[1] # Now
  <1>1. c.sent = 1 /\ Copies = 1..0
    BY DEF PoolInv, InTurn, Idle, Copies
  <1> QED
    BY <1>1 DEF PoolInv, OwnRows

\* The call k filled one of the entries S, and cid is its cid or, after an
\* install, that of another one of the name that was there by then.
OneFilled(S, k, cid) ==
    \E filled, x \in S :
        /\ filled.cid[1] = k /\ filled.content = k
        /\ x.cid = cid /\ x.cid[1] <= k /\ x.name = calls[k].name
        /\ calls[k].way # "install" => x = filled

\* All entries of the call k among S are filled.
AllFilled(S, k, verdict) == \A x \in S : x.cid[1] = k => verdict = "ok" /\ x.content = k

\* What the properties say of the call k.
Faithful(k) ==
    /\ results[k].verdict = "ok" => OneFilled(pool, k, results[k].cid)
    /\ results[k].verdict \in {"ok", "none", "refused"} /\ ~results[k].warned
         => AllFilled(pool, k, results[k].verdict)
    /\ results[k].verdict = "absent" => \A x \in pool : x.cid[1] # k

LEMMA ResultsFaithful ==
  ReturnsOwn /\ NoSilentStub /\ TruthfulAbsence <=> \A k \in DOMAIN results : Faithful(k)
  BY DEF ReturnsOwn, NoSilentStub, TruthfulAbsence, Faithful, OneFilled, AllFilled, By, Bearing

\* What is said of the calls made so far stays true.
LEMMA EarlierStay ==
  ASSUME PoolInv, Carried(pool'), calls' = calls,
         NEW k \in DOMAIN results, results'[k] = results[k]
  PROVE  Faithful(k)'
  <1>1. k \in Nat /\ k >= 1 /\ k < Now /\ Now \in Nat
    BY CallUnderWay
  <1>2. Faithful(k)
    BY ResultsFaithful DEF PoolInv
  <1>3. ASSUME NEW x \in pool, x.cid[1] <= k
        PROVE  \E y \in pool' : y.cid = x.cid /\ y.name = x.name /\ y.content = x.content
    <2>1. x.cid[1] \in Int
      BY DEF PoolInv, TypeOK, EntrySet, CidSet
    <2>2. x.cid[1] # Now
      BY <1>1, <1>3, <2>1
    <2> QED
      BY <2>2 DEF Carried
  <1>4. ASSUME NEW y \in pool', y.cid[1] = k
        PROVE  \E x \in pool : x.cid = y.cid /\ x.content = y.content
    <2>1. y.cid[1] \notin {-1, Now}
      BY <1>1, <1>4
    <2>2. PICK x \in pool : x.cid = y.cid
      BY <2>1 DEF Carried
    <2>3. PICK z \in pool' : z.cid = x.cid /\ z.content = x.content
      BY <1>1, <1>3, <1>4, <2>2
    <2>4. z = y
      BY <2>2, <2>3 DEF Carried
    <2> QED
      BY <2>2, <2>3, <2>4
  <1>5. ASSUME NEW cid, OneFilled(pool, k, cid)
        PROVE  OneFilled(pool, k, cid)'
    <2>1. PICK filled \in pool, x \in pool :
            /\ filled.cid[1] = k /\ filled.content = k
            /\ x.cid = cid /\ x.cid[1] <= k /\ x.name = calls[k].name
            /\ calls[k].way # "install" => x = filled
      BY <1>5 DEF OneFilled
    <2>2. PICK f \in pool' : f.cid = filled.cid /\ f.name = filled.name /\ f.content = k
      BY <1>1, <1>3, <2>1
    <2>3. PICK y \in pool' : y.cid = x.cid /\ y.name = x.name
      BY <1>3, <2>1
    <2>4. calls[k].way # "install" => y = f
      BY <2>1, <2>2, <2>3 DEF Carried
    <2>5. /\ f.cid[1] = k /\ f.content = k
          /\ y.cid = cid /\ y.cid[1] <= k /\ y.name = calls'[k].name
          /\ calls'[k].way # "install" => y = f
      BY <2>1, <2>2, <2>3, <2>4
    <2> QED
      BY <2>5 DEF OneFilled
  <1>6. ASSUME NEW verdict, AllFilled(pool, k, verdict)
        PROVE  AllFilled(pool, k, verdict)'
    BY <1>4, <1>6 DEF AllFilled
  <1>7. ASSUME \A x \in pool : x.cid[1] # k
        PROVE  \A y \in pool' : y.cid[1] # k
    BY <1>4, <1>7
  <1> QED
    BY <1>2, <1>5, <1>6, <1>7 DEF Faithful

LEMMA AllStay ==
  ASSUME PoolInv, Carried(pool'), calls' = calls, results' = results
  PROVE  ReturnsOwn' /\ NoSilentStub' /\ TruthfulAbsence'
  <1>1. \A k \in DOMAIN results' : Faithful(k)'
    BY EarlierStay
  <1>2. (ReturnsOwn /\ NoSilentStub /\ TruthfulAbsence
            <=> \A k \in DOMAIN results : Faithful(k))'
    BY ResultsFaithful, PTL
  <1> QED
    BY <1>1, <1>2
-----------------------------------------------------------------------------
(* The end of a call.                                                      *)

\* A call that says what is true of its own entries leaves the invariant.
LEMMA EndKeeps ==
  ASSUME Settled, DistinctNames, PoolInv, Now <= Len(calls),
         NEW entries, Carried(entries),
         NEW verdict, NEW cid, NEW warned \in BOOLEAN,
         \A w \in BOOLEAN : [verdict |-> verdict, cid |-> cid, warned |-> w] \in ResultSet,
         EndWith(verdict, cid, warned, entries),
         verdict = "ok" => OneFilled(entries, Now, cid),
         verdict \in {"ok", "none", "refused"} /\ ~warned /\ c.sent = 1 =>
           AllFilled(entries, Now, verdict),
         verdict = "absent" => \A x \in entries : x.cid[1] # Now
  PROVE  PoolInv'
  <1> DEFINE r == [verdict |-> verdict, cid |-> cid, warned |-> warned \/ c.sent > 1]
  <1>1. /\ results' = Append(results, r) /\ c' = Idle /\ calls' = calls
        /\ pool' = entries /\ index' = Rows(entries) /\ lag' = 0
    BY DEF EndWith, Settled
  <1>2. c.sent \in Nat /\ c.sent >= 1 /\ r \in ResultSet
    <2>1. c.sent \in Nat /\ c.sent >= 1
      BY PoolAssumption DEF PoolInv, TypeOK, ProgressSet
    <2>2. (warned \/ c.sent > 1) \in BOOLEAN
      OBVIOUS
    <2> QED
      BY <2>1, <2>2
  <1>3. results \in Seq(ResultSet)
    BY DEF PoolInv, TypeOK
  <1>4. /\ results' \in Seq(ResultSet) /\ Len(results') = Len(results) + 1
        /\ DOMAIN results' = 1..Len(results) + 1
        /\ results'[Now] = r /\ \A k \in DOMAIN results : results'[k] = results[k]
    <2> HIDE DEF r
    <2> QED
      BY <1>1, <1>2, <1>3 DEF Now
  <1>5. Now' = Now + 1 /\ Now \in Nat /\ \A k \in DOMAIN results' : k = Now \/ k \in DOMAIN results
    BY <1>4, CallUnderWay DEF Now
  <1>6. Carried(pool') /\ entries \subseteq EntrySet
    BY <1>1 DEF Carried
  <1>7. TypeOK'
    <2>1. index' \subseteq [cid : CidSet, name : Names, posi : Nat]
      BY <1>1, <1>6, RowFields
    <2>2. lag' \in 0..MaxLag
      BY <1>1, PoolAssumption
    <2>3. c' \in ProgressSet
      BY <1>1, PoolAssumption DEF Idle, NoCid, CidSet, ProgressSet
    <2> QED
      BY <1>1, <1>4, <1>6, <2>1, <2>2, <2>3 DEF TypeOK, PoolInv
  <1>8. InTurn' /\ OwnTarget'
    BY <1>1 DEF InTurn, OwnTarget, Idle
  <1>9. UniqueCids'
    BY <1>1 DEF Carried, UniqueCids
  <1>10. ASSUME NEW x \in entries
         PROVE  x.cid[1] \in -1..Now /\ (x.cid[1] = -1 => x.name \in PanelNames)
    BY DEF Carried, MadeBy
  <1>11. MadeBy(pool)'
    BY <1>1, <1>5, <1>10 DEF MadeBy
  <1>12. OwnRows(pool)'
    BY <1>1, <1>5, <1>10 DEF OwnRows
  <1>13. Attributable(pool)' /\ Attributable(index)'
    BY <1>1 DEF Attributable, Idle
  <1>14. \A z \in index' : \E x \in entries : z.cid = x.cid /\ z.name = x.name
    BY <1>1, <1>6, RowFields
  <1>15. MadeBy(index)'
    BY <1>1, <1>5, <1>10, <1>14 DEF MadeBy
  <1>16. OwnRows(index)'
    BY <1>1, <1>5, <1>10, <1>14 DEF OwnRows
  <1>17. LooksAround'
    BY <1>1, <1>6, RowFields DEF LooksAround
  <1>18. \A x \in pool' \cup index' : x.cid[1] # Now'
    BY <1>1, <1>5, <1>10, <1>14
  <1>19. IndexTrails'
    BY <1>1, <1>14 DEF IndexTrails, Idle
  <1>20. OwnInPlace'
    BY <1>1, <1>18 DEF OwnInPlace, By, Idle
  <1>21. ASSUME NEW k \in DOMAIN results', k = Now
         PROVE  Faithful(k)'
    <2>1. r.verdict = verdict /\ r.cid = cid /\ r.warned = (warned \/ c.sent > 1)
      BY Zenon
    <2> HIDE DEF r
    <2>2. results'[k].verdict = verdict /\ results'[k].cid = cid
            /\ results'[k].warned = (warned \/ c.sent > 1)
      BY <1>4, <1>21, <2>1
    <2>3. ~(c.sent > 1) => c.sent = 1
      BY <1>2
    <2>4. results'[k].verdict = "ok" => OneFilled(pool, k, results[k].cid)'
      BY <1>1, <1>21, <2>2 DEF OneFilled
    <2>5. results'[k].verdict \in {"ok", "none", "refused"} /\ ~results'[k].warned
             => AllFilled(pool, k, results[k].verdict)'
      BY <1>1, <1>21, <2>2, <2>3 DEF AllFilled
    <2>6. results'[k].verdict = "absent" => \A x \in pool' : x.cid[1] # k
      BY <1>1, <1>21, <2>2
    <2> QED
      BY <2>4, <2>5, <2>6 DEF Faithful
  <1>22. \A k \in DOMAIN results' : Faithful(k)'
    BY <1>1, <1>4, <1>5, <1>6, <1>21, EarlierStay
  <1>23. ReturnsOwn' /\ NoSilentStub' /\ TruthfulAbsence'
    <2>1. (ReturnsOwn /\ NoSilentStub /\ TruthfulAbsence
              <=> \A k \in DOMAIN results : Faithful(k))'
      BY ResultsFaithful, PTL
    <2> QED
      BY <1>22, <2>1
  <1> QED
    BY <1>7, <1>8, <1>9, <1>11, <1>12, <1>13, <1>15, <1>16, <1>17, <1>19, <1>20, <1>23
      DEF PoolInv
-----------------------------------------------------------------------------
(* The steps within a call, and of the device and its front panel.         *)

\* What S must be for the call as it will be.
Placed(S) ==
    \A x \in S :
        /\ x.cid[1] = Now => x.cid[2] \in Copies' /\ x.name = Call.name
        /\ c'.pc # "look" => \/ x.cid[1] \in {-1, Now}
                             \/ IF Prechecked THEN x.posi # c'.pos ELSE x.cid \in c'.known

LEMMA SameCall ==
  ASSUME UNCHANGED <<calls, results>>
  PROVE  /\ Now' = Now /\ Call' = Call /\ Prechecked' = Prechecked
         /\ Placed(pool') => OwnRows(pool)' /\ Attributable(pool)'
         /\ Placed(index') => OwnRows(index)' /\ Attributable(index)'
         /\ MadeBy(pool') => MadeBy(pool)'
         /\ MadeBy(index') => MadeBy(index)'
  <1>1. Now' = Now
    BY DEF Now
  <1>2. Call' = Call /\ Prechecked' = Prechecked
    BY <1>1 DEF Call, Prechecked
  <1>3. Placed(pool') => OwnRows(pool)' /\ Attributable(pool)'
    BY <1>1, <1>2 DEF Placed, OwnRows, Attributable
  <1>4. Placed(index') => OwnRows(index)' /\ Attributable(index)'
    BY <1>1, <1>2 DEF Placed, OwnRows, Attributable
  <1>5. MadeBy(pool') => MadeBy(pool)'
    BY <1>1 DEF MadeBy
  <1>6. MadeBy(index') => MadeBy(index)'
    BY <1>1 DEF MadeBy
  <1> QED
    BY <1>1, <1>2, <1>3, <1>4, <1>5, <1>6

LEMMA NothingChanged ==
  ASSUME PoolInv
  PROVE  Carried(pool)
  BY DEF Carried, PoolInv, TypeOK, UniqueCids

\* A write that the index may not show at once.
LEMMA TrailKeeps ==
  ASSUME PoolInv, NEW entries, Carried(entries), Trail(entries), UNCHANGED <<calls, results>>,
         \A x \in pool : \E y \in entries : y.cid = x.cid /\ y.name = x.name,
         c' \in ProgressSet, InTurn', LooksAround', OwnInPlace', OwnTarget',
         Placed(entries), Placed(index),
         c'.pc = "confirm" =>
           /\ c'.try <= Tries
           /\ lag' \in 1..(MaxLag - c'.try + 1) \/ \A x \in By(Now)' : Row(x) \in index'
  PROVE  PoolInv'
  <1>1. pool' = entries /\ entries \subseteq EntrySet /\ lag \in Nat /\ MaxLag \in Nat
    BY PoolAssumption DEF Trail, Carried, PoolInv, TypeOK
  <1>2. index' = index \/ index' = Rows(entries)
    BY DEF Trail
  <1>3. \A z \in Rows(entries) : \E x \in entries : z.cid = x.cid /\ z.name = x.name /\ z.posi = x.posi
    BY <1>1, RowFields
  <1>4. TypeOK'
    <2>1. index' \subseteq [cid : CidSet, name : Names, posi : Nat]
      BY <1>1, <1>2, RowFields DEF PoolInv, TypeOK
    <2>2. lag' \in 0..MaxLag
      BY <1>1 DEF Trail, PoolInv, TypeOK
    <2> QED
      BY <1>1, <2>1, <2>2 DEF PoolInv, TypeOK
  <1>5. UniqueCids'
    BY <1>1 DEF Carried, UniqueCids
  <1>6. MadeBy(pool') /\ MadeBy(index')
    BY <1>1, <1>2, <1>3 DEF Carried, PoolInv, MadeBy
  <1>7. Placed(pool') /\ Placed(index')
    <2>1. Placed(Rows(entries))
      BY <1>3 DEF Placed
    <2> QED
      BY <1>1, <1>2, <2>1
  <1>8. IndexTrails'
    <2>1. \A x \in index' : \E y \in pool' : y.cid = x.cid /\ y.name = x.name
      BY <1>1, <1>2, <1>3 DEF PoolInv, IndexTrails
    <2>2. lag' = 0 => index' = Rows(pool')
      BY <1>1 DEF Trail, PoolInv, IndexTrails
    <2> QED
      BY <2>1, <2>2, SameCall DEF IndexTrails
  <1>9. ReturnsOwn' /\ NoSilentStub' /\ TruthfulAbsence'
    BY <1>1, AllStay
  <1> QED
    BY <1>4, <1>5, <1>6, <1>7, <1>8, <1>9, SameCall DEF PoolInv

\* A step that leaves the device alone.
LEMMA GoOnKeeps ==
  ASSUME PoolInv, UNCHANGED <<pool, index, lag, calls, results>>,
         c' \in ProgressSet, InTurn', OwnInPlace', OwnTarget',
         Placed(pool), Placed(index), c'.pc \notin {"look", "confirm"}
  PROVE  PoolInv'
  <1>1. TypeOK' /\ UniqueCids' /\ LooksAround'
    BY DEF PoolInv, TypeOK, UniqueCids, LooksAround
  <1>2. MadeBy(pool') /\ MadeBy(index') /\ Placed(pool') /\ Placed(index')
    BY DEF PoolInv
  <1>3. IndexTrails'
    BY SameCall DEF PoolInv, IndexTrails
  <1>4. ReturnsOwn' /\ NoSilentStub' /\ TruthfulAbsence'
    <2>1. Carried(pool')
      BY NothingChanged
    <2> QED
      BY <2>1, AllStay
  <1> QED
    BY <1>1, <1>2, <1>3, <1>4, SameCall DEF PoolInv
-----------------------------------------------------------------------------
(* Before the create.                                                      *)

LEMMA BeginKeeps ==
  ASSUME PoolInv, At("look"), UNCHANGED <<pool, index, lag, calls, results>>,
         c' \in ProgressSet, c'.pc = "create", c'.sent = c.sent, c'.try = c.try,
         \A x \in index : IF Prechecked THEN x.posi # c'.pos ELSE x.cid \in c'.known
  PROVE  PoolInv'
  <1>1. c = Idle /\ Now <= Len(calls)
    BY DEF PoolInv, InTurn, At
  <1>2. c'.sent = 1 /\ c'.try = 1
    BY <1>1 DEF Idle
  <1>3. InTurn' /\ OwnTarget'
    BY <1>1, <1>2, SameCall DEF InTurn, OwnTarget
  <1>4. \A x \in pool \cup index : x.cid[1] # Now
    BY <1>1, NothingYet DEF At
  <1>5. OwnInPlace'
    BY <1>2, <1>4, SameCall DEF OwnInPlace, By
  <1>6. Placed(index)
    BY <1>2, <1>4 DEF Placed
  <1>7. Placed(pool)
    <2>1. \A x \in pool : \/ x.cid[1] = -1
                          \/ IF Prechecked THEN x.posi # c'.pos ELSE x.cid \in c'.known
      BY RowFields DEF PoolInv, TypeOK, LooksAround, At
    <2> QED
      BY <1>2, <1>4, <2>1 DEF Placed
  <1> QED
    BY <1>2, <1>3, <1>5, <1>6, <1>7, GoOnKeeps

\* A call that ends before its create.
LEMMA GiveUpKeeps ==
  ASSUME Settled, DistinctNames, PoolInv, At("look"),
         NEW verdict \in {"raised", "refused"}, End(verdict)
  PROVE  PoolInv'
  <1>1. Carried(pool)
    BY NothingChanged
  <1>2. \A x \in pool : x.cid[1] # Now
    BY NothingYet DEF At
  <1>3. \A w \in BOOLEAN : [verdict |-> verdict, cid |-> NoCid, warned |-> w] \in ResultSet
    BY DEF ResultSet, NoCid, CidSet
  <1> QED
    BY <1>1, <1>2, <1>3, EndKeeps DEF End, At, AllFilled

LEMMA LookKeeps ==
  ASSUME Settled, DistinctNames, PoolInv, CheckPosi \/ ChoosePosi \/ Snapshot
  PROVE  PoolInv'
  <1>1. At("look")
    BY DEF CheckPosi, ChoosePosi, Snapshot
  <1>2. CASE End("raised") \/ End("refused")
    BY <1>1, <1>2, GiveUpKeeps
  <1>3. c \in ProgressSet
    BY DEF PoolInv, TypeOK
  <1>4. ASSUME CheckPosi, ~End("raised"), ~End("refused")
        PROVE  PoolInv'
    <2>1. Call.pos \in Nat /\ Prechecked
      BY <1>1, <1>4, CallUnderWay DEF CheckPosi, Prechecked, CallSet, At
    <2>2. /\ ~Occupied(index, Call.pos)
          /\ c' = [c EXCEPT !.pc = "create", !.pos = Call.pos]
          /\ UNCHANGED <<pool, index, lag, calls, results>>
      BY <1>4 DEF CheckPosi, Device
    <2>3. c' \in ProgressSet /\ c'.pc = "create" /\ c'.sent = c.sent /\ c'.try = c.try /\ c'.pos = Call.pos
      BY <1>3, <2>1, <2>2 DEF ProgressSet
    <2> QED
      BY <1>1, <2>1, <2>2, <2>3, BeginKeeps DEF Occupied
  <1>5. ASSUME ChoosePosi, ~End("raised")
        PROVE  PoolInv'
    <2>1. PICK p \in Positions :
            /\ ~Occupied(index, p)
            /\ c' = [c EXCEPT !.pc = "create", !.pos = p]
            /\ UNCHANGED <<pool, index, lag, calls, results>>
      BY <1>5 DEF ChoosePosi, Device
    <2>2. Prechecked
      BY <1>5 DEF ChoosePosi, Prechecked
    <2> p \in Nat
      BY PoolAssumption DEF Positions
    <2>3. c' \in ProgressSet /\ c'.pc = "create" /\ c'.sent = c.sent /\ c'.try = c.try /\ c'.pos = p
      BY <1>3, <2>1, <2>2 DEF ProgressSet
    <2> QED
      BY <1>1, <2>1, <2>2, <2>3, BeginKeeps DEF Occupied
  <1>6. ASSUME Snapshot, ~End("raised")
        PROVE  PoolInv'
    <2> DEFINE shown == {x.cid : x \in index}
    <2>1. Call.pos \in Nat /\ ~Prechecked
      BY <1>1, <1>6, CallUnderWay DEF Snapshot, Prechecked, CallSet, At
    <2>2. shown \in SUBSET CidSet
      BY DEF PoolInv, TypeOK
    <2>3. /\ c' = [c EXCEPT !.pc = "create", !.pos = Call.pos, !.known = shown]
          /\ UNCHANGED <<pool, index, lag, calls, results>>
      BY <1>6 DEF Snapshot, Device
    <2>4. \A x \in index : x.cid \in shown
      OBVIOUS
    <2> HIDE DEF shown
    <2>5. c' \in ProgressSet /\ c'.pc = "create" /\ c'.sent = c.sent /\ c'.try = c.try /\ c'.known = shown
      BY <1>3, <2>1, <2>2, <2>3 DEF ProgressSet
    <2> QED
      BY <1>1, <2>1, <2>3, <2>4, <2>5, BeginKeeps
  <1> QED
    BY <1>2, <1>4, <1>5, <1>6
-----------------------------------------------------------------------------
(* The create.                                                             *)

Stub == [cid |-> <<Now, c.sent>>, name |-> Call.name, posi |-> c.pos, content |-> 0]

\* Whether it landed or not, the create leaves only what it may.
LEMMA CreatedEntries ==
  ASSUME DistinctNames, PoolInv, At("create"), NEW entries,
         entries = pool \/ entries = Insert(pool, Stub)
  PROVE  /\ Carried(entries)
         /\ \A x \in pool : \E y \in entries : y.cid = x.cid /\ y.name = x.name
         /\ \A x \in entries :
              /\ x.cid[1] = Now => x.cid[2] \in 1..c.sent /\ x.name = Call.name
              /\ \/ x.cid[1] \in {-1, Now}
                 \/ IF Prechecked THEN x.posi # c.pos ELSE x.cid \in c.known
         /\ (\E x \in entries : x.cid[1] = Now)
              => \E x \in entries : x.cid[1] = Now /\ x.posi = c.pos
  <1>1. /\ c.sent \in Nat /\ c.sent >= 1 /\ c.pos \in Nat /\ Copies = 1..c.sent - 1
        /\ pool \subseteq EntrySet /\ Now \in Nat /\ Now >= 1 /\ Call \in CallSet
        /\ Now \in DOMAIN calls /\ Call = calls[Now]
    <2>1. c \in ProgressSet /\ c.sent \in Nat /\ c.sent >= 1
      BY PoolAssumption DEF PoolInv, TypeOK, ProgressSet
    <2>2. Copies = 1..c.sent - 1 /\ pool \subseteq EntrySet /\ c.pos \in Nat
      BY <2>1 DEF Copies, At, PoolInv, TypeOK, ProgressSet
    <2> QED
      BY <2>1, <2>2, CallUnderWay DEF At
  <1>2. \A x \in pool :
          /\ x.cid[1] = Now => x.cid[2] \in 1..c.sent - 1 /\ x.name = Call.name
          /\ \/ x.cid[1] \in {-1, Now}
             \/ IF Prechecked THEN x.posi # c.pos ELSE x.cid \in c.known
    BY <1>1 DEF PoolInv, OwnRows, Attributable, At
  <1>3. CASE entries = pool
    <2>1. (\E x \in pool : x.cid[1] = Now) => \E x \in pool : x.cid[1] = Now /\ x.posi = c.pos
      BY DEF PoolInv, OwnInPlace, By
    <2>2. \A x \in pool : x.cid[1] = Now => x.cid[2] \in 1..c.sent
      BY <1>1, <1>2
    <2> QED
      BY <1>2, <1>3, <2>1, <2>2, NothingChanged
  <1>4. CASE entries = Insert(pool, Stub)
    <2>1. /\ Stub \in EntrySet /\ Stub.cid = <<Now, c.sent>> /\ Stub.name = Call.name
          /\ Stub.posi = c.pos
      BY <1>1 DEF Stub, EntrySet, CidSet, CallSet
    <2>2. Stub.cid[1] = Now /\ Stub.cid[2] = c.sent
      BY <2>1
    <2>3. \A x \in pool : x.cid # Stub.cid
      BY <1>1, <1>2, <2>2
    <2> HIDE DEF Stub
    <2>4. Stub \in entries /\ entries \subseteq EntrySet
      BY <1>1, <1>4, <2>1, InsertKeeps
    <2>5. \A x \in pool : \E y \in entries :
            y.cid = x.cid /\ y.name = x.name /\ y.content = x.content
      BY <1>1, <1>4, <2>1, InsertKeeps
    <2>6. \A y \in entries : y = Stub \/ \E x \in pool :
            /\ y.cid = x.cid /\ y.name = x.name
            /\ y.posi = x.posi \/ (y.posi = x.posi + 1 /\ x.posi >= c.pos)
      BY <1>1, <1>4, <2>1, InsertKeeps
    <2>7. \A x, y \in entries : x.cid = y.cid => x = y
      BY <1>1, <1>4, <2>1, <2>3, InsertUnique DEF PoolInv, UniqueCids
    <2>8. MadeBy(entries)
      <3>1. MadeBy({Stub})
        BY <1>1, <2>1, <2>2, NamesApart DEF MadeBy
      <3> QED
        BY <2>6, <3>1 DEF MadeBy, PoolInv
    <2>9. Carried(entries)
      BY <2>2, <2>4, <2>5, <2>6, <2>7, <2>8 DEF Carried
    <2>10. ASSUME NEW y \in entries
           PROVE  /\ y.cid[1] = Now => y.cid[2] \in 1..c.sent /\ y.name = Call.name
                  /\ \/ y.cid[1] \in {-1, Now}
                     \/ IF Prechecked THEN y.posi # c.pos ELSE y.cid \in c.known
      <3>1. CASE y = Stub
        BY <1>1, <2>1, <2>2, <3>1
      <3>2. ASSUME NEW x \in pool, y.cid = x.cid, y.name = x.name,
                   y.posi = x.posi \/ (y.posi = x.posi + 1 /\ x.posi >= c.pos)
            PROVE  /\ y.cid[1] = Now => y.cid[2] \in 1..c.sent /\ y.name = Call.name
                   /\ \/ y.cid[1] \in {-1, Now}
                      \/ IF Prechecked THEN y.posi # c.pos ELSE y.cid \in c.known
        <4>1. x.posi \in Nat
          BY <1>1 DEF EntrySet
        <4> QED
          BY <1>1, <1>2, <3>2, <4>1
      <3> QED
        BY <2>6, <3>1, <3>2
    <2> QED
      BY <2>1, <2>2, <2>4, <2>5, <2>9, <2>10
  <1> QED
    BY <1>3, <1>4

LEMMA CreateKeeps ==
  ASSUME Settled, DistinctNames, PoolInv, Create
  PROVE  PoolInv'
  <1>1. At("create") /\ c \in ProgressSet /\ c.sent \in Nat /\ c.sent >= 1 /\ Now <= Len(calls)
    BY PoolAssumption DEF Create, At, PoolInv, TypeOK, ProgressSet
  <1>2. PICK landed \in BOOLEAN :
          LET entries == IF landed THEN Insert(pool, Stub) ELSE pool
          IN  \/ /\ landed
                 /\ Trail(entries)
                 /\ c' = [c EXCEPT !.pc = "write", !.cid = <<Now, c.sent>>]
                 /\ UNCHANGED <<calls, results>>
              \/ Trail(entries) /\ Goto("confirm") /\ UNCHANGED <<calls, results>>
              \/ /\ c.sent <= Resends
                 /\ Trail(entries)
                 /\ c' = [c EXCEPT !.sent = @ + 1]
                 /\ UNCHANGED <<calls, results>>
              \/ EndWith("raised", NoCid, FALSE, entries)
    BY DEF Create, Stub
  <1> DEFINE entries == IF landed THEN Insert(pool, Stub) ELSE pool
  <1>3. /\ Carried(entries)
        /\ \A x \in pool : \E y \in entries : y.cid = x.cid /\ y.name = x.name
        /\ \A x \in entries :
             /\ x.cid[1] = Now => x.cid[2] \in 1..c.sent /\ x.name = Call.name
             /\ \/ x.cid[1] \in {-1, Now}
                \/ IF Prechecked THEN x.posi # c.pos ELSE x.cid \in c.known
        /\ (\E x \in entries : x.cid[1] = Now)
             => \E x \in entries : x.cid[1] = Now /\ x.posi = c.pos
    BY <1>1, CreatedEntries
  <1>4. landed => \E x \in entries : x.cid = <<Now, c.sent>> /\ x.cid[1] = Now
    <2>1. Stub \in EntrySet
      <3>1. c.pos \in Nat /\ Now \in Nat /\ Call \in CallSet
        BY <1>1, CallUnderWay DEF ProgressSet
      <3> QED
        BY <1>1, <3>1 DEF Stub, EntrySet, CidSet, CallSet
    <2>2. landed => Stub \in entries
      BY <2>1, InsertKeeps DEF PoolInv, TypeOK
    <2>3. Stub.cid = <<Now, c.sent>> /\ Stub.cid[1] = Now
      BY DEF Stub
    <2> QED
      BY <2>2, <2>3
  <1> HIDE DEF entries
  <1>5. CASE EndWith("raised", NoCid, FALSE, entries)
    <2>1. \A w \in BOOLEAN : [verdict |-> "raised", cid |-> NoCid, warned |-> w] \in ResultSet
      BY DEF ResultSet, NoCid, CidSet
    <2> QED
      BY <1>1, <1>3, <1>5, <2>1, EndKeeps
  <1>6. ASSUME Trail(entries), UNCHANGED <<calls, results>>,
               c' \in ProgressSet, c'.pos = c.pos, c'.known = c.known, c'.try = c.try,
               Copies' = 1..c.sent, c'.pc \in {"write", "confirm", "create"},
               c'.pc = "write" => landed /\ c'.cid = <<Now, c.sent>>
        PROVE  PoolInv'
    <2>1. c.try = 1 /\ Now' = Now /\ Call' = Call /\ pool' = entries
      BY <1>1, <1>6, SameCall DEF PoolInv, InTurn, At, Trail
    <2>2. InTurn' /\ LooksAround'
      BY <1>1, <1>6, <2>1 DEF InTurn, LooksAround
    <2>3. Placed(entries)
      BY <1>3, <1>6 DEF Placed
    <2>4. Placed(index)
      <3>1. \A x \in index :
              /\ x.cid[1] = Now => x.cid[2] \in 1..c.sent - 1 /\ x.name = Call.name
              /\ \/ x.cid[1] \in {-1, Now}
                 \/ IF Prechecked THEN x.posi # c.pos ELSE x.cid \in c.known
        BY <1>1 DEF PoolInv, OwnRows, Attributable, Copies, At
      <3> QED
        BY <1>1, <1>6, <3>1 DEF Placed
    <2>5. By(Now)' = {x \in entries : x.cid[1] = Now}
      BY <2>1 DEF By
    <2>6. OwnInPlace'
      BY <1>3, <1>6, <2>1, <2>5 DEF OwnInPlace
    <2>7. OwnTarget'
      BY <1>4, <1>6, <2>1, <2>5 DEF OwnTarget
    <2>8. ASSUME c'.pc = "confirm"
          PROVE  /\ c'.try <= Tries
                 /\ lag' \in 1..(MaxLag - c'.try + 1) \/ \A x \in By(Now)' : Row(x) \in index'
      <3>1. lag \in Nat /\ lag <= MaxLag /\ MaxLag \in Nat /\ Tries >= 1
        BY PoolAssumption DEF PoolInv, TypeOK
      <3>2. lag' = 0 => index' = Rows(entries)
        BY <1>6, <3>1 DEF Trail, PoolInv, IndexTrails
      <3>3. lag' \in Nat /\ lag' <= MaxLag
        BY <1>6, <3>1 DEF Trail
      <3>4. CASE lag' = 0
        <4>1. \A x \in entries : Row(x) \in index'
          BY <3>2, <3>4 DEF Rows
        <4> QED
          BY <1>6, <2>1, <2>5, <3>1, <4>1
      <3>5. CASE lag' # 0
        BY <1>6, <2>1, <3>1, <3>3, <3>5
      <3> QED
        BY <3>4, <3>5
    <2> QED
      BY <1>3, <1>6, <2>2, <2>3, <2>4, <2>6, <2>7, <2>8, TrailKeeps
  <1>7. c.sent = Resends + 1 \/ c.sent <= Resends
    BY <1>1, PoolAssumption DEF ProgressSet
  <1>8. CASE /\ landed /\ Trail(entries)
             /\ c' = [c EXCEPT !.pc = "write", !.cid = <<Now, c.sent>>]
             /\ UNCHANGED <<calls, results>>
    <2>1. <<Now, c.sent>> \in CidSet
      BY <1>1, CallUnderWay DEF CidSet
    <2>2. /\ c' \in ProgressSet /\ c'.pos = c.pos /\ c'.known = c.known /\ c'.try = c.try
          /\ c'.pc = "write" /\ c'.cid = <<Now, c.sent>> /\ c'.sent = c.sent
      BY <1>1, <1>8, <2>1 DEF ProgressSet
    <2>3. Copies' = 1..c.sent
      BY <2>2 DEF Copies
    <2> QED
      BY <1>6, <1>8, <2>2, <2>3
  <1>9. CASE Trail(entries) /\ Goto("confirm") /\ UNCHANGED <<calls, results>>
    <2>1. /\ c' \in ProgressSet /\ c'.pos = c.pos /\ c'.known = c.known /\ c'.try = c.try
          /\ c'.pc = "confirm" /\ c'.sent = c.sent
      BY <1>1, <1>9 DEF ProgressSet, Goto
    <2>2. Copies' = 1..c.sent
      BY <2>1 DEF Copies
    <2> QED
      BY <1>6, <1>9, <2>1, <2>2
  <1>10. CASE /\ c.sent <= Resends
              /\ Trail(entries)
              /\ c' = [c EXCEPT !.sent = @ + 1]
              /\ UNCHANGED <<calls, results>>
    <2>1. c.sent + 1 \in 1..Resends + 1
      BY <1>1, <1>10, PoolAssumption
    <2>2. /\ c' \in ProgressSet /\ c'.pos = c.pos /\ c'.known = c.known /\ c'.try = c.try
          /\ c'.pc = "create" /\ c'.sent = c.sent + 1
      BY <1>1, <1>10, <2>1 DEF ProgressSet, At
    <2>3. Copies' = 1..c.sent
      BY <1>1, <2>2 DEF Copies
    <2> QED
      BY <1>6, <1>10, <2>2, <2>3
  <1> QED
    BY <1>2, <1>5, <1>8, <1>9, <1>10 DEF entries
-----------------------------------------------------------------------------
(* The confirming listings.                                                *)

\* What a listing shows at the position of the call is its own, if it was not
\* in the snapshot.
LEMMA MatchesOwn ==
  ASSUME DistinctNames, PoolInv, Now <= Len(calls), c.pc # "look",
         NEW x \in Matches, x.cid \notin c.known \/ Prechecked
  PROVE  x.cid[1] = Now /\ \E y \in By(Now) : y.cid = x.cid
  <1>1. x \in index /\ x.name = Call.name /\ x.posi = c.pos
    BY DEF Matches
  <1>2. x.cid[1] # -1
    BY <1>1, CallUnderWay, NamesApart DEF PoolInv, MadeBy
  <1>3. x.cid[1] = Now
    BY <1>1, <1>2 DEF PoolInv, Attributable
  <1> QED
    BY <1>1, <1>3 DEF PoolInv, IndexTrails, By

LEMMA PauseFacts ==
  ASSUME PoolInv, Pause
  PROVE  /\ pool' = pool /\ lag' \in 0..MaxLag
         /\ index' = index \/ index' = Rows(pool)
         /\ lag' = 0 => index' = Rows(pool)
         /\ lag' # 0 => lag' = lag - 1 /\ index' = index
  BY PoolAssumption DEF Pause, PoolInv, TypeOK, IndexTrails

\* A listing that did not tell, or told of nothing new.
LEMMA NextTryKeeps ==
  ASSUME Settled, PoolInv, At("confirm"), NEW after \in ProgressSet, NextTry(after),
         after.pc = c.pc, after.pos = c.pos, after.known = c.known, after.sent = c.sent,
         after.try = c.try,
         after.clean /\ ~after.cidless /\ ~after.skipped => Matches = {}
  PROVE  PoolInv'
  <1>1. /\ c \in ProgressSet /\ c.try \in Nat /\ c.try >= 1 /\ c.try <= Tries /\ Tries \in Nat
        /\ MaxLag \in Nat /\ MaxLag < Tries /\ lag \in Nat /\ Now <= Len(calls)
    BY PoolAssumption DEF At, PoolInv, TypeOK, IndexTrails, ProgressSet, Settled
  <1>2. UNCHANGED <<calls, results>> /\ pool' = pool
    BY DEF NextTry, Device, Pause
  <1>3. index' = index \/ index' = Rows(pool)
    BY PauseFacts DEF NextTry, Device
  <1>4. /\ c' \in ProgressSet /\ c'.pos = c.pos /\ c'.known = c.known /\ c'.sent = c.sent
        /\ c'.try = c.try + 1
        /\ c'.pc = IF c.try = Tries THEN "unconfirmed" ELSE "confirm"
        /\ c'.clean = after.clean /\ c'.cidless = after.cidless /\ c'.skipped = after.skipped
    <2>1. c.try + 1 \in 1..Tries + 1 /\ after.pc = "confirm"
      BY <1>1 DEF At
    <2>2. c' = [after EXCEPT !.try = @ + 1, !.pc = IF c.try = Tries THEN "unconfirmed" ELSE @]
      BY DEF NextTry
    <2> QED
      BY <1>1, <2>1, <2>2 DEF ProgressSet
  <1>5. /\ Copies' = Copies /\ Now' = Now /\ Call' = Call /\ By(Now)' = By(Now)
    BY <1>2, <1>4, SameCall DEF Copies, At, By
  <1>6. InTurn' /\ LooksAround' /\ OwnTarget'
    BY <1>1, <1>2, <1>4, <1>5 DEF InTurn, LooksAround, OwnTarget
  <1>7. pool \subseteq EntrySet
    BY DEF PoolInv, TypeOK
  <1>8. Placed(pool) /\ Placed(index) /\ Placed(Rows(pool))
    <2>1. Placed(pool) /\ Placed(index)
      BY <1>1, <1>4, <1>5 DEF Placed, PoolInv, OwnRows, Attributable, At
    <2> QED
      BY <1>7, <2>1, RowFields DEF Placed
  <1>9. Placed(pool') /\ Placed(index')
    BY <1>2, <1>3, <1>8
  <1>10. MadeBy(pool') /\ MadeBy(index')
    BY <1>2, <1>3, <1>7, RowsToo DEF PoolInv
  <1>11. TypeOK' /\ UniqueCids'
    <2>1. index' \subseteq [cid : CidSet, name : Names, posi : Nat]
      BY <1>3, <1>7, RowFields DEF PoolInv, TypeOK
    <2>2. lag' \in 0..MaxLag
      BY PauseFacts DEF NextTry, Device, PoolInv, TypeOK
    <2> QED
      BY <1>2, <1>4, <2>1, <2>2 DEF PoolInv, TypeOK, UniqueCids
  <1>12. \A x \in By(Now) : Row(x) \in Rows(pool)
    BY DEF By, Rows
  <1>13. IndexTrails'
    <2>1. \A x \in index' : \E y \in pool : y.cid = x.cid /\ y.name = x.name
      BY <1>3, <1>7, RowFields DEF PoolInv, IndexTrails
    <2>2. lag' = 0 => index' = Rows(pool)
      BY PauseFacts DEF NextTry, Device, PoolInv, IndexTrails
    <2>3. ASSUME c.try # Tries
          PROVE  lag' \in 1..(MaxLag - c'.try + 1) \/ \A x \in By(Now) : Row(x) \in index'
      <3>1. Pause
        BY <2>3 DEF NextTry
      <3>2. CASE lag' = 0
        BY <1>12, <3>1, <3>2, PauseFacts
      <3>3. CASE lag' # 0
        <4>1. lag' = lag - 1 /\ index' = index
          BY <3>1, <3>3, PauseFacts
        <4>2. lag \in 1..(MaxLag - c.try + 1) \/ \A x \in By(Now) : Row(x) \in index
          BY DEF PoolInv, IndexTrails, At
        <4> QED
          BY <1>1, <1>4, <3>3, <4>1, <4>2
      <3> QED
        BY <3>2, <3>3
    <2> QED
      BY <1>1, <1>2, <1>4, <1>5, <2>1, <2>2, <2>3 DEF IndexTrails
  <1>14. OwnInPlace'
    <2>1. By(Now) # {} => \E x \in By(Now) : x.posi = c.pos
      BY DEF PoolInv, OwnInPlace
    <2>2. ASSUME c.try = Tries, Matches = {}
          PROVE  By(Now) = {}
      <3>1. \A x \in By(Now) : Row(x) \in index
        BY <1>1, <2>2 DEF PoolInv, IndexTrails, At
      <3>2. \A x \in By(Now) : x \in pool /\ x.name = Call.name
        BY DEF By, PoolInv, OwnRows
      <3>3. \A x \in By(Now) : Row(x).name = Call.name /\ Row(x).posi = x.posi
        BY <1>7, <3>2, RowFields
      <3> QED
        BY <2>1, <2>2, <3>1, <3>3 DEF Matches
    <2> QED
      BY <1>4, <1>5, <2>1, <2>2 DEF OwnInPlace
  <1>15. ReturnsOwn' /\ NoSilentStub' /\ TruthfulAbsence'
    BY <1>2, NothingChanged, AllStay
  <1> QED
    BY <1>2, <1>6, <1>9, <1>10, <1>11, <1>13, <1>14, <1>15, SameCall DEF PoolInv

\* The entry that a listing shows is found to be the call's.
LEMMA FoundKeeps ==
  ASSUME DistinctNames, PoolInv, Now <= Len(calls), c.pc \in {"confirm", "cleanup"},
         NEW x \in Matches, x.cid \notin c.known \/ Prechecked,
         NEW point \in {"write", "delete"}, c' = [c EXCEPT !.pc = point, !.cid = x.cid],
         UNCHANGED <<pool, index, lag, calls, results>>
  PROVE  PoolInv'
  <1>1. x.cid[1] = Now /\ (\E y \in By(Now) : y.cid = x.cid) /\ x.cid \in CidSet
    BY MatchesOwn DEF Matches, PoolInv, TypeOK
  <1>2. c \in ProgressSet
    BY DEF PoolInv, TypeOK
  <1>3. /\ c' \in ProgressSet /\ c'.pc = point /\ c'.cid = x.cid /\ c'.pos = c.pos
        /\ c'.known = c.known /\ c'.sent = c.sent
    BY <1>1, <1>2 DEF ProgressSet
  <1>4. Copies' = Copies /\ Now' = Now /\ By(Now)' = By(Now)
    BY <1>3, SameCall DEF Copies, By
  <1>5. InTurn'
    BY <1>3, <1>4 DEF InTurn
  <1>6. OwnInPlace' /\ OwnTarget'
    BY <1>1, <1>3, <1>4 DEF OwnInPlace, OwnTarget, PoolInv
  <1>7. Placed(pool) /\ Placed(index)
    BY <1>3, <1>4 DEF Placed, PoolInv, OwnRows, Attributable
  <1> QED
    BY <1>3, <1>5, <1>6, <1>7, GoOnKeeps

LEMMA ConfirmKeeps ==
  ASSUME Settled, DistinctNames, PoolInv, Confirm
  PROVE  PoolInv'
  <1>1. At("confirm") /\ c \in ProgressSet /\ Now <= Len(calls) /\ c.pc = "confirm"
    BY DEF Confirm, At, PoolInv, TypeOK
  <1>2. CASE NextTry([c EXCEPT !.clean = FALSE])
    <2> DEFINE after == [c EXCEPT !.clean = FALSE]
    <2>1. /\ after \in ProgressSet /\ after.pc = c.pc /\ after.pos = c.pos
          /\ after.known = c.known /\ after.sent = c.sent /\ after.try = c.try
          /\ after.clean = FALSE
      BY <1>1 DEF ProgressSet
    <2> HIDE DEF after
    <2> QED
      BY <1>1, <1>2, <2>1, NextTryKeeps DEF after
  <1>3. CASE Matches = {} /\ NextTry([c EXCEPT !.clean = TRUE])
    <2> DEFINE after == [c EXCEPT !.clean = TRUE]
    <2>1. /\ after \in ProgressSet /\ after.pc = c.pc /\ after.pos = c.pos
          /\ after.known = c.known /\ after.sent = c.sent /\ after.try = c.try
      BY <1>1 DEF ProgressSet
    <2> HIDE DEF after
    <2> QED
      BY <1>1, <1>3, <2>1, NextTryKeeps DEF after
  <1>4. CASE NextTry([c EXCEPT !.clean = TRUE, !.cidless = TRUE])
    <2> DEFINE after == [c EXCEPT !.clean = TRUE, !.cidless = TRUE]
    <2>1. /\ after \in ProgressSet /\ after.pc = c.pc /\ after.pos = c.pos
          /\ after.known = c.known /\ after.sent = c.sent /\ after.try = c.try
          /\ after.cidless = TRUE
      BY <1>1 DEF ProgressSet
    <2> HIDE DEF after
    <2> QED
      BY <1>1, <1>4, <2>1, NextTryKeeps DEF after
  <1>5. CASE NextTry([c EXCEPT !.clean = TRUE, !.skipped = TRUE])
    <2> DEFINE after == [c EXCEPT !.clean = TRUE, !.skipped = TRUE]
    <2>1. /\ after \in ProgressSet /\ after.pc = c.pc /\ after.pos = c.pos
          /\ after.known = c.known /\ after.sent = c.sent /\ after.try = c.try
          /\ after.skipped = TRUE
      BY <1>1 DEF ProgressSet
    <2> HIDE DEF after
    <2> QED
      BY <1>1, <1>5, <2>1, NextTryKeeps DEF after
  <1>6. ASSUME NEW x \in Matches, x.cid \notin c.known,
               c' = [c EXCEPT !.pc = "write", !.cid = x.cid],
               UNCHANGED <<pool, index, lag, calls, results>>
        PROVE  PoolInv'
    BY <1>1, <1>6, FoundKeeps
  <1> QED
    BY <1>2, <1>3, <1>4, <1>5, <1>6 DEF Confirm, Device

LEMMA UnconfirmedKeeps ==
  ASSUME Settled, DistinctNames, PoolInv, Unconfirmed
  PROVE  PoolInv'
  <1> DEFINE verdict == IF c.skipped THEN "occupied" ELSE StatusError
  <1>1. At("unconfirmed") /\ Now <= Len(calls) /\ c \in ProgressSet
    BY DEF Unconfirmed, At, PoolInv, TypeOK
  <1>2. verdict \in {"occupied", "stub", "absent", "unknown"}
    BY DEF StatusError
  <1>3. verdict = "absent" => c.clean /\ ~c.cidless /\ ~c.skipped
    BY DEF StatusError
  <1>4. verdict = "absent" => \A x \in pool : x.cid[1] # Now
    BY <1>1, <1>3 DEF PoolInv, OwnInPlace, By, At
  <1>5. EndWith(verdict, NoCid, FALSE, pool)
    BY DEF Unconfirmed, End
  <1> HIDE DEF verdict
  <1>6. \A w \in BOOLEAN : [verdict |-> verdict, cid |-> NoCid, warned |-> w] \in ResultSet
    BY <1>2 DEF ResultSet, NoCid, CidSet
  <1>7. Carried(pool)
    BY NothingChanged
  <1> QED
    BY <1>1, <1>2, <1>4, <1>5, <1>6, <1>7, EndKeeps
-----------------------------------------------------------------------------
(* The content and the cleaning up.                                        *)

\* A write changes the content of the entries with the cid, and nothing else.
LEMMA WrittenEntries ==
  ASSUME PoolInv, NEW cid, cid[1] = Now
  PROVE  /\ Carried(Written(cid))
         /\ \A x \in pool : \E y \in Written(cid) :
              /\ y.cid = x.cid /\ y.name = x.name /\ y.posi = x.posi
              /\ x.cid = cid => y.content = Now
         /\ \A y \in Written(cid) : \E x \in pool :
              y.cid = x.cid /\ y.name = x.name /\ y.posi = x.posi
  <1> DEFINE W(x) == IF x.cid = cid THEN [x EXCEPT !.content = Now] ELSE x
  <1>1. ASSUME NEW x \in pool
        PROVE  /\ W(x) \in EntrySet /\ W(x).cid = x.cid /\ W(x).name = x.name
               /\ W(x).posi = x.posi /\ (x.cid = cid => W(x).content = Now)
               /\ x.cid # cid => W(x) = x
    <2>1. x \in EntrySet /\ Now \in Int
      BY CallUnderWay DEF PoolInv, TypeOK
    <2> QED
      BY <2>1 DEF EntrySet
  <1>2. Written(cid) = {W(x) : x \in pool}
    BY DEF Written
  <1> HIDE DEF W
  <1>3. \A x, y \in Written(cid) : x.cid = y.cid => x = y
    BY <1>1, <1>2 DEF PoolInv, UniqueCids
  <1>4. MadeBy(Written(cid))
    BY <1>1, <1>2 DEF PoolInv, MadeBy
  <1>5. \A x \in pool : x.cid[1] # Now => W(x) = x
    BY <1>1
  <1>6. Carried(Written(cid))
    BY <1>1, <1>2, <1>3, <1>4, <1>5 DEF Carried
  <1> QED
    BY <1>1, <1>2, <1>6

\* After one request there is one entry of the call's own at most.
LEMMA OnlyCopy ==
  ASSUME PoolInv, c.sent = 1, NEW x \in pool \cup index, x.cid[1] = Now
  PROVE  x.cid = <<Now, 1>>
  <1>1. x.cid[2] \in Copies /\ x.cid \in CidSet
    BY DEF PoolInv, OwnRows, TypeOK, EntrySet
  <1>2. x.cid[2] = 1
    BY <1>1 DEF Copies
  <1>3. x.cid = <<x.cid[1], x.cid[2]>>
    BY <1>1 DEF CidSet
  <1> QED
    BY <1>2, <1>3

\* A removal by a cid of the call's own takes away nothing else.
LEMMA RemovedEntries ==
  ASSUME PoolInv, NEW cid, cid[1] = Now
  PROVE  /\ Carried(Remove(pool, cid))
         /\ \A x \in Remove(pool, cid) : x \in pool /\ x.cid # cid
  <1>1. \A x \in pool : x.cid[1] # Now => x \in Remove(pool, cid)
    BY DEF Remove
  <1>2. \A x \in Remove(pool, cid) : x \in pool /\ x.cid # cid
    BY DEF Remove
  <1> HIDE DEF Remove
  <1> QED
    BY <1>1, <1>2 DEF Carried, PoolInv, TypeOK, UniqueCids, MadeBy

LEMMA WriteKeeps ==
  ASSUME Settled, DistinctNames, PoolInv, WriteContent
  PROVE  PoolInv'
  <1>1. /\ At("write") /\ c \in ProgressSet /\ Now <= Len(calls) /\ c.cid \in CidSet
        /\ c.sent >= 1 /\ Copies = 1..c.sent
    <2>1. c.sent \in 1..Resends + 1 /\ c.pc = "write" /\ c \in ProgressSet /\ c.cid \in CidSet
      BY DEF WriteContent, At, PoolInv, TypeOK, ProgressSet
    <2> QED
      BY <2>1, PoolAssumption DEF WriteContent, At, Copies
  <1>2. PICK own \in pool : own.cid = c.cid /\ own.cid[1] = Now
    BY <1>1 DEF PoolInv, OwnTarget, By, At
  <1>3. PICK landed \in BOOLEAN :
          LET entries == IF landed THEN Written(c.cid) ELSE pool
          IN  \/ /\ landed
                 /\ Call.way = "install"
                 /\ Trail(entries) /\ Goto("recover") /\ UNCHANGED <<calls, results>>
              \/ /\ landed
                 /\ Call.way # "install"
                 /\ EndWith("ok", c.cid, FALSE, entries)
              \/ /\ Trail(entries)
                 /\ Goto(IF Prechecked THEN "cleanup" ELSE "delete")
                 /\ UNCHANGED <<calls, results>>
              \/ EndWith("raised", NoCid, FALSE, entries)
    BY DEF WriteContent
  <1> DEFINE entries == IF landed THEN Written(c.cid) ELSE pool
  <1>4. /\ Carried(entries)
        /\ \A x \in pool : \E y \in entries :
             /\ y.cid = x.cid /\ y.name = x.name /\ y.posi = x.posi
             /\ landed /\ x.cid = c.cid => y.content = Now
        /\ \A y \in entries : \E x \in pool :
             y.cid = x.cid /\ y.name = x.name /\ y.posi = x.posi
    BY <1>2, WrittenEntries, NothingChanged
  <1> HIDE DEF entries
  <1>5. \A x \in entries : x.cid[1] = Now => x.cid[2] \in Copies
    BY <1>4 DEF PoolInv, OwnRows
  <1>6. PICK mine \in entries : mine.cid = c.cid /\ mine.cid[1] = Now /\ (landed => mine.content = Now)
    BY <1>2, <1>4
  <1>7. ASSUME Trail(entries), UNCHANGED <<calls, results>>,
               NEW point \in {"recover", "cleanup", "delete"}, Goto(point),
               point = "recover" => landed /\ Call.way = "install",
               point = "cleanup" => Prechecked
        PROVE  PoolInv'
    <2>1. /\ c' \in ProgressSet /\ c'.pc = point /\ c'.pos = c.pos /\ c'.known = c.known
          /\ c'.sent = c.sent /\ c'.cid = c.cid
      BY <1>1, <1>7 DEF Goto, ProgressSet
    <2>2. /\ Copies' = Copies /\ Now' = Now /\ Call' = Call /\ Prechecked' = Prechecked
          /\ By(Now)' = {x \in entries : x.cid[1] = Now}
      BY <1>1, <1>7, <2>1, SameCall DEF Copies, At, By, Trail
    <2>3. InTurn' /\ LooksAround'
      BY <1>1, <1>7, <2>1, <2>2 DEF InTurn, LooksAround
    <2>4. OwnInPlace'
      <3>1. \E x \in pool : x.cid[1] = Now /\ x.posi = c.pos
        BY <1>2 DEF PoolInv, OwnInPlace, By
      <3>2. \E x \in entries : x.cid[1] = Now /\ x.posi = c.pos
        BY <1>4, <3>1
      <3> QED
        BY <1>7, <2>1, <2>2, <3>2 DEF OwnInPlace
    <2>5. OwnTarget'
      BY <1>6, <1>7, <2>1, <2>2 DEF OwnTarget
    <2>6. Placed(index) /\ Placed(pool)
      BY <1>1, <2>1, <2>2 DEF Placed, PoolInv, OwnRows, Attributable, At
    <2>7. Placed(entries)
      BY <1>4, <2>6 DEF Placed
    <2> QED
      BY <1>4, <1>7, <2>1, <2>3, <2>4, <2>5, <2>6, <2>7, TrailKeeps
  <1>8. ASSUME NEW cid \in CidSet, NEW v \in {"ok", "raised"}
        PROVE  \A w \in BOOLEAN : [verdict |-> v, cid |-> cid, warned |-> w] \in ResultSet
    BY DEF ResultSet
  <1>9. CASE EndWith("raised", NoCid, FALSE, entries)
    <2>1. NoCid \in CidSet
      BY DEF NoCid, CidSet
    <2> QED
      BY <1>1, <1>4, <1>8, <1>9, <2>1, EndKeeps
  <1>10. CASE landed /\ Call.way # "install" /\ EndWith("ok", c.cid, FALSE, entries)
    <2>1. mine.name = Call.name
      <3>1. PICK x \in pool : mine.cid = x.cid /\ mine.name = x.name
        BY <1>4
      <3> QED
        BY <1>6, <3>1 DEF PoolInv, OwnRows
    <2>2. mine.cid[1] <= Now
      BY <1>6, CallUnderWay
    <2>3. OneFilled(entries, Now, c.cid)
      BY <1>6, <1>10, <2>1, <2>2 DEF OneFilled, Call
    <2>4. ASSUME c.sent = 1
          PROVE  AllFilled(entries, Now, "ok")
      <3>1. \A x \in pool : x.cid[1] = Now => x.cid = <<Now, 1>>
        BY <2>4, OnlyCopy
      <3>2. \A x \in entries : x.cid[1] = Now => x = mine
        BY <1>2, <1>4, <1>6, <3>1 DEF Carried
      <3> QED
        BY <1>6, <1>10, <3>2 DEF AllFilled
    <2> QED
      BY <1>1, <1>4, <1>8, <1>10, <2>3, <2>4, EndKeeps
  <1> QED
    BY <1>3, <1>7, <1>9, <1>10 DEF entries

LEMMA FindStubKeeps ==
  ASSUME Settled, DistinctNames, PoolInv, FindStub
  PROVE  PoolInv'
  <1>1. At("cleanup") /\ c.pc = "cleanup" /\ Now <= Len(calls) /\ Prechecked
    BY DEF FindStub, At, PoolInv, OwnTarget
  <1>2. CASE EndWith("none", NoCid, TRUE, pool)
    <2>1. \A w \in BOOLEAN : [verdict |-> "none", cid |-> NoCid, warned |-> w] \in ResultSet
      BY DEF ResultSet, NoCid, CidSet
    <2> QED
      BY <1>1, <1>2, <2>1, NothingChanged, EndKeeps
  <1>3. ASSUME NEW x \in Matches, c' = [c EXCEPT !.pc = "delete", !.cid = x.cid],
               UNCHANGED <<pool, index, lag, calls, results>>
        PROVE  PoolInv'
    BY <1>1, <1>3, FoundKeeps
  <1> QED
    BY <1>2, <1>3 DEF FindStub, Device

LEMMA DeleteKeeps ==
  ASSUME Settled, DistinctNames, PoolInv, DeleteStub
  PROVE  PoolInv'
  <1>1. At("delete") /\ c.pc = "delete" /\ Now <= Len(calls)
    BY DEF DeleteStub, At
  <1>2. PICK own \in pool : own.cid = c.cid /\ own.cid[1] = Now
    BY <1>1 DEF PoolInv, OwnTarget, By
  <1>3. /\ Carried(Remove(pool, c.cid)) /\ Carried(pool)
        /\ \A x \in Remove(pool, c.cid) : x \in pool /\ x.cid # c.cid
    BY <1>2, RemovedEntries, NothingChanged
  <1>4. c.sent = 1 => \A x \in Remove(pool, c.cid) : x.cid[1] # Now
    BY <1>2, <1>3, OnlyCopy
  <1>5. \A w \in BOOLEAN : [verdict |-> "none", cid |-> NoCid, warned |-> w] \in ResultSet
    BY DEF ResultSet, NoCid, CidSet
  <1>6. CASE EndWith("none", NoCid, ~Prechecked, Remove(pool, c.cid))
    <2> DEFINE left == Remove(pool, c.cid)
               warned == ~Prechecked
    <2>1. warned \in BOOLEAN
      OBVIOUS
    <2> HIDE DEF left, warned
    <2> QED
      BY <1>1, <1>3, <1>4, <1>5, <1>6, <2>1, EndKeeps DEF left, warned, AllFilled
  <1>7. CASE EndWith("none", NoCid, TRUE, Remove(pool, c.cid))
    BY <1>1, <1>3, <1>5, <1>7, EndKeeps
  <1>8. CASE EndWith("none", NoCid, TRUE, pool)
    BY <1>1, <1>3, <1>5, <1>8, EndKeeps
  <1> QED
    BY <1>6, <1>7, <1>8 DEF DeleteStub

\* What is listed by the name of an install is in the pool, and so is its own.
LEMMA RecoverKeeps ==
  ASSUME Settled, DistinctNames, PoolInv, Recover
  PROVE  PoolInv'
  <1>1. At("recover") /\ c.pc = "recover" /\ Now <= Len(calls) /\ Call.way = "install"
    BY DEF Recover, At, PoolInv, OwnTarget
  <1>2. PICK own \in pool : own.cid = c.cid /\ own.cid[1] = Now /\ own.content = Now
    BY <1>1 DEF PoolInv, OwnTarget, By
  <1>3. own.name = Call.name
    BY <1>2 DEF PoolInv, OwnRows
  <1>4. PICK x \in pool : EndWith("ok", x.cid, FALSE, pool) /\ x.name = Call.name
    <2>1. CASE EndWith("ok", c.cid, FALSE, pool)
      BY <1>2, <1>3, <2>1
    <2>2. CASE \E z \in index : z.name = Call.name /\ EndWith("ok", z.cid, FALSE, pool)
      BY <2>2 DEF PoolInv, IndexTrails
    <2> QED
      BY <2>1, <2>2 DEF Recover, Matches
  <1>5. x.cid[1] <= Now /\ x.cid \in CidSet
    BY <1>4, CallUnderWay DEF PoolInv, MadeBy, TypeOK, EntrySet
  <1>6. OneFilled(pool, Now, x.cid)
    BY <1>1, <1>2, <1>4, <1>5 DEF OneFilled, Call
  <1>7. c.sent = 1 => AllFilled(pool, Now, "ok")
    <2>1. c.sent = 1 => \A z \in pool : z.cid[1] = Now => z.cid = own.cid
      BY <1>2, OnlyCopy
    <2> QED
      BY <1>2, <2>1 DEF AllFilled, PoolInv, UniqueCids
  <1>8. \A w \in BOOLEAN : [verdict |-> "ok", cid |-> x.cid, warned |-> w] \in ResultSet
    BY <1>5 DEF ResultSet
  <1> QED
    BY <1>1, <1>4, <1>6, <1>7, <1>8, NothingChanged, EndKeeps
-----------------------------------------------------------------------------
(* The device.                                                             *)

LEMMA CatchUpKeeps ==
  ASSUME PoolInv, CatchUp
  PROVE  PoolInv'
  <1>1. UNCHANGED <<pool, calls, results, c>> /\ index' = Rows(pool) /\ lag' = 0
    BY DEF CatchUp
  <1>2. Now' = Now /\ Call' = Call /\ Copies' = Copies /\ By(Now)' = By(Now)
    BY <1>1, SameCall DEF Copies, By
  <1>3. pool \subseteq EntrySet
    BY DEF PoolInv, TypeOK
  <1>4. TypeOK' /\ UniqueCids'
    <2>1. index' \subseteq [cid : CidSet, name : Names, posi : Nat]
      BY <1>1, <1>3, RowFields
    <2>2. lag' \in 0..MaxLag
      BY <1>1, PoolAssumption
    <2> QED
      BY <1>1, <2>1, <2>2 DEF PoolInv, TypeOK, UniqueCids
  <1>5. InTurn' /\ OwnInPlace' /\ OwnTarget'
    BY <1>1, <1>2, SameCall DEF PoolInv, InTurn, OwnInPlace, OwnTarget
  <1>6. MadeBy(pool') /\ MadeBy(index')
    BY <1>1, <1>3, RowsToo DEF PoolInv
  <1>7. Placed(pool') /\ Placed(index')
    <2>1. Placed(pool)
      BY <1>1, <1>2 DEF Placed, PoolInv, OwnRows, Attributable
    <2>2. Placed(Rows(pool))
      BY <1>3, <2>1, RowFields DEF Placed
    <2> QED
      BY <1>1, <2>1, <2>2
  <1>8. LooksAround'
    BY <1>1 DEF LooksAround, Rows
  <1>9. IndexTrails'
    <2>1. \A x \in index' : \E y \in pool : y.cid = x.cid /\ y.name = x.name
      BY <1>1, <1>3, RowFields
    <2>2. \A x \in By(Now) : Row(x) \in index'
      BY <1>1 DEF By, Rows
    <2> QED
      BY <1>1, <1>2, <2>1, <2>2 DEF PoolInv, IndexTrails
  <1>10. ReturnsOwn' /\ NoSilentStub' /\ TruthfulAbsence'
    BY <1>1, NothingChanged, AllStay
  <1> QED
    BY <1>1, <1>4, <1>5, <1>6, <1>7, <1>8, <1>9, <1>10, SameCall DEF PoolInv

LEMMA PanelSaveKeeps ==
  ASSUME DistinctNames, PoolInv, PanelSave
  PROVE  PoolInv'
  <1>1. PICK n \in 1..PanelSaves, name \in PanelNames, p \in Positions :
          /\ \A x \in pool : x.cid # <<-1, n>>
          /\ Trail(pool \cup {[cid |-> <<-1, n>>, name |-> name, posi |-> p, content |-> -1]})
          /\ UNCHANGED <<calls, results, c>>
    BY DEF PanelSave
  <1> DEFINE e == [cid |-> <<-1, n>>, name |-> name, posi |-> p, content |-> -1]
             entries == pool \cup {e}
  <1>2. pool \subseteq EntrySet /\ Now \in Nat /\ Now >= 1
    BY CallUnderWay DEF PoolInv, TypeOK
  <1>3. e \in EntrySet /\ e.cid[1] = -1 /\ e.name \in PanelNames /\ \A x \in pool : x.cid # e.cid
    BY <1>1, PoolAssumption DEF EntrySet, CidSet, Positions
  <1>4. Trail(entries) /\ UNCHANGED <<calls, results, c>>
    BY <1>1
  <1> HIDE DEF e
  <1>5. MadeBy(entries)
    <2>1. MadeBy({e})
      BY <1>2, <1>3, NamesApart DEF MadeBy
    <2> QED
      BY <2>1 DEF MadeBy, PoolInv
  <1>6. Carried(entries)
    BY <1>2, <1>3, <1>5 DEF Carried, PoolInv, UniqueCids
  <1>7. /\ Now' = Now /\ Call' = Call /\ Prechecked' = Prechecked /\ Copies' = Copies
        /\ pool' = entries /\ By(Now)' = By(Now)
    BY <1>2, <1>3, <1>4, SameCall DEF Copies, By, Trail
  <1>8. InTurn' /\ OwnInPlace' /\ OwnTarget'
    BY <1>4, <1>7 DEF PoolInv, InTurn, OwnInPlace, OwnTarget
  <1>9. index' = index \/ index' = Rows(entries)
    BY <1>4 DEF Trail
  <1>10. LooksAround'
    <2>1. \A x \in entries : Row(x) \in Rows(entries)
      BY DEF Rows
    <2> QED
      BY <1>3, <1>4, <1>7, <1>9, <2>1 DEF LooksAround, PoolInv
  <1>11. Placed(entries) /\ Placed(index)
    <2>1. Placed(pool) /\ Placed(index)
      BY <1>4, <1>7 DEF Placed, PoolInv, OwnRows, Attributable
    <2> QED
      BY <1>2, <1>3, <2>1 DEF Placed
  <1>12. ASSUME c.pc = "confirm"
         PROVE  /\ c.try <= Tries
                /\ lag' \in 1..(MaxLag - c.try + 1) \/ \A x \in By(Now) : Row(x) \in index'
    <2>1. \/ lag \in 1..(MaxLag - c.try + 1)
          \/ \A x \in By(Now) : Row(x) \in index
      BY <1>12 DEF PoolInv, IndexTrails
    <2>2. \A x \in By(Now) : Row(x) \in Rows(pool) /\ Row(x) \in Rows(entries)
      BY DEF By, Rows
    <2>3. lag # 0 => lag' = lag
      BY <1>4 DEF Trail
    <2>4. lag = 0 => index = Rows(pool)
      BY DEF PoolInv, IndexTrails
    <2> QED
      BY <1>9, <1>12, <2>1, <2>2, <2>3, <2>4 DEF PoolInv, IndexTrails
  <1> QED
    BY <1>4, <1>6, <1>7, <1>8, <1>10, <1>11, <1>12, TrailKeeps DEF PoolInv, TypeOK
-----------------------------------------------------------------------------
(* The theorems.                                                           *)

LEMMA InitHolds ==
  ASSUME DistinctNames, Init
  PROVE  PoolInv
  <1>1. /\ pool \in Pools /\ index = Rows(pool) /\ lag = 0 /\ calls \in Batches
        /\ results = <<>> /\ c = Idle
    BY DEF Init
  <1>2. /\ pool \subseteq EntrySet /\ calls \in Seq(CallSet)
        /\ \A x, y \in pool : x.cid = y.cid => x = y
        /\ \A x \in pool : x.cid[1] = 0
    BY <1>1, PoolAssumption
  <1>3. results \in Seq(ResultSet) /\ DOMAIN results = {} /\ Now = 1
    BY <1>1 DEF Now
  <1>4. TypeOK
    <2>1. c \in ProgressSet
      BY <1>1, PoolAssumption DEF Idle, NoCid, CidSet, ProgressSet
    <2>2. index \subseteq [cid : CidSet, name : Names, posi : Nat] /\ lag \in 0..MaxLag
      BY <1>1, <1>2, RowFields, PoolAssumption
    <2> QED
      BY <1>1, <1>2, <1>3, <2>1, <2>2 DEF TypeOK
  <1>5. InTurn /\ UniqueCids /\ OwnTarget
    BY <1>1, <1>2 DEF InTurn, UniqueCids, OwnTarget, Idle
  <1>6. MadeBy(pool)
    BY <1>1, <1>2, <1>3 DEF MadeBy, DistinctNames
  <1>7. OwnRows(pool) /\ Attributable(pool)
    BY <1>1, <1>2, <1>3 DEF OwnRows, Attributable, Idle
  <1>8. MadeBy(index) /\ OwnRows(index) /\ Attributable(index)
    BY <1>1, <1>2, <1>6, <1>7, RowsToo
  <1>9. LooksAround
    BY <1>1 DEF LooksAround, Rows
  <1>10. IndexTrails /\ OwnInPlace
    <2>1. By(Now) = {}
      BY <1>2, <1>3 DEF By
    <2>2. \A x \in index : x.cid[1] = 0
      BY <1>1, <1>2, RowFields
    <2> QED
      BY <1>1, <1>2, <1>3, <2>1, RowFields DEF IndexTrails, OwnInPlace, Idle
  <1>11. ReturnsOwn /\ NoSilentStub /\ TruthfulAbsence
    BY <1>3 DEF ReturnsOwn, NoSilentStub, TruthfulAbsence
  <1> QED
    BY <1>4, <1>5, <1>6, <1>7, <1>8, <1>9, <1>10, <1>11 DEF PoolInv

LEMMA StepKeeps ==
  ASSUME Settled, DistinctNames, PoolInv, [Next]_vars
  PROVE  PoolInv'
  <1>1. CASE CheckPosi \/ ChoosePosi \/ Snapshot
    BY <1>1, LookKeeps
  <1>2. CASE Create
    BY <1>2, CreateKeeps
  <1>3. CASE Confirm
    BY <1>3, ConfirmKeeps
  <1>4. CASE Unconfirmed
    BY <1>4, UnconfirmedKeeps
  <1>5. CASE WriteContent
    BY <1>5, WriteKeeps
  <1>6. CASE FindStub
    BY <1>6, FindStubKeeps
  <1>7. CASE DeleteStub
    BY <1>7, DeleteKeeps
  <1>8. CASE Recover
    BY <1>8, RecoverKeeps
  <1>9. CASE CatchUp
    BY <1>9, CatchUpKeeps
  <1>10. CASE PanelSave
    BY <1>10, PanelSaveKeeps
  <1>11. CASE UNCHANGED vars
    <2>1. UNCHANGED <<pool, index, lag, calls, results, c>>
      BY <1>11 DEF vars
    <2> QED
      BY <2>1 DEF PoolInv, TypeOK, InTurn, UniqueCids, MadeBy, OwnRows, Copies, LooksAround,
                  Attributable, IndexTrails, OwnInPlace, OwnTarget, ReturnsOwn,
                  NoSilentStub, TruthfulAbsence, By, Bearing, Now, Call, Prechecked
  <1> QED
    BY <1>1, <1>2, <1>3, <1>4, <1>5, <1>6, <1>7, <1>8, <1>9, <1>10, <1>11 DEF Next, Step

\* PoolInv is an inductive invariant.
THEOREM PoolInvariance ==
  ASSUME Settled, DistinctNames
  PROVE  Spec => []PoolInv
  <1>1. Init => PoolInv
    BY InitHolds
  <1>2. PoolInv /\ [Next]_vars => PoolInv'
    BY StepKeeps
  <1> QED
    BY <1>1, <1>2, PTL DEF Spec

\* A call that returns a cid has filled an entry of its own and returns that
\* one's cid (_create_attributed); after install_into_pool, that of an entry of
\* the name, and so the true one unless the pool has another of the name.
THEOREM ReturnedIsOwn ==
  ASSUME Settled, DistinctNames
  PROVE  Spec => []ReturnsOwn
  <1>1. PoolInv => ReturnsOwn
    BY DEF PoolInv
  <1> QED
    BY <1>1, PoolInvariance, PTL

\* A call that reports nothing leaves nothing but what it returns
\* (_delete_created_stub).
THEOREM StubsAreReported ==
  ASSUME Settled, DistinctNames
  PROVE  Spec => []NoSilentStub
  <1>1. PoolInv => NoSilentStub
    BY DEF PoolInv
  <1> QED
    BY <1>1, PoolInvariance, PTL

\* "Did not land" is said only of a create that did not (_create_status_error).
THEOREM AbsenceIsTruthful ==
  ASSUME Settled, DistinctNames
  PROVE  Spec => []TruthfulAbsence
  <1>1. PoolInv => TruthfulAbsence
    BY DEF PoolInv
  <1> QED
    BY <1>1, PoolInvariance, PTL

\* How a step can change the pool.
LEMMA PoolSteps ==
  ASSUME Settled, [Next]_vars
  PROVE  \/ pool' = pool
         \/ At("create") /\ pool' = Insert(pool, Stub)
         \/ At("write") /\ pool' = Written(c.cid)
         \/ At("delete") /\ pool' = Remove(pool, c.cid)
         \/ PanelSave
  <1> USE DEF Settled
  <1>1. CASE CheckPosi \/ ChoosePosi \/ Snapshot \/ Unconfirmed \/ FindStub \/ Recover
    BY <1>1 DEF CheckPosi, ChoosePosi, Snapshot, Unconfirmed, FindStub, Recover, End, EndWith, Device
  <1>2. CASE Create
    <2>1. At("create") /\ (pool' = pool \/ pool' = Insert(pool, Stub))
      BY <1>2 DEF Create, EndWith, Trail, Stub
    <2> QED
      BY <2>1
  <1>3. CASE Confirm
    BY <1>3 DEF Confirm, NextTry, Pause, Device
  <1>4. CASE WriteContent
    <2>1. At("write") /\ (pool' = pool \/ pool' = Written(c.cid))
      BY <1>4 DEF WriteContent, EndWith, Trail
    <2> QED
      BY <2>1
  <1>5. CASE DeleteStub
    <2>1. At("delete") /\ (pool' = pool \/ pool' = Remove(pool, c.cid))
      BY <1>5 DEF DeleteStub, EndWith
    <2> QED
      BY <2>1
  <1>6. CASE CatchUp \/ UNCHANGED vars
    BY <1>6 DEF CatchUp, vars
  <1> QED
    BY <1>1, <1>2, <1>3, <1>4, <1>5, <1>6 DEF Next, Step

\* In an invariant state, what a step leaves carries the presets of others, and
\* a checked create moves none of them.
LEMMA OthersStay ==
  ASSUME Settled, DistinctNames, PoolInv, [Next]_vars, NEW x \in pool, x.cid[1] # Now
  PROVE  /\ \E y \in pool' : y.cid = x.cid /\ y.name = x.name /\ y.content = x.content
         /\ (Now <= Len(calls) /\ Prechecked /\ c.sent = 1 /\ ~\E z \in By(-1) : z.posi = c.pos)
              => \A y \in pool' : y.cid = x.cid => y.posi = x.posi
  <1>1. \A z \in pool : z.cid = x.cid => z = x
    BY DEF PoolInv, UniqueCids
  <1>2. CASE pool' = pool
    BY <1>1, <1>2
  <1>3. CASE At("create") /\ pool' = Insert(pool, Stub)
    <2>1. Carried(pool')
      BY <1>3, CreatedEntries
    <2>2. ASSUME Prechecked, c.sent = 1, ~\E z \in By(-1) : z.posi = c.pos,
                 NEW y \in pool', y.cid = x.cid
          PROVE  y.posi = x.posi
      <3>1. ~Occupied(pool, c.pos)
        <4>1. \A z \in pool : z.cid[1] # Now
          <5>1. Copies = 1..0
            BY <1>3, <2>2 DEF Copies, At
          <5> QED
            BY <5>1 DEF PoolInv, OwnRows
        <4> QED
          BY <1>3, <2>2, <4>1 DEF PoolInv, Attributable, At, Occupied, By
      <3>2. Stub \in EntrySet /\ Stub.posi = c.pos /\ Stub.cid[1] = Now
        <4>1. c.pos \in Nat /\ c.sent \in Int /\ Now \in Nat /\ Call \in CallSet
          BY <1>3, <2>2, CallUnderWay DEF PoolInv, TypeOK, ProgressSet, At
        <4> QED
          BY <4>1 DEF Stub, EntrySet, CidSet, CallSet
      <3> HIDE DEF Stub
      <3>3. PICK z \in pool : z.cid = y.cid /\ y.posi = z.posi
        BY <1>3, <2>2, <3>1, <3>2, InsertKeeps DEF PoolInv, TypeOK
      <3> QED
        BY <1>1, <2>2, <3>3
    <2> QED
      BY <2>1, <2>2 DEF Carried
  <1>4. CASE At("write") /\ pool' = Written(c.cid)
    <2>1. c.cid[1] = Now
      BY <1>4 DEF PoolInv, OwnTarget, By, At
    <2> QED
      BY <1>1, <1>4, <2>1, WrittenEntries DEF Carried
  <1>5. CASE At("delete") /\ pool' = Remove(pool, c.cid)
    <2>1. c.cid[1] = Now
      BY <1>5 DEF PoolInv, OwnTarget, By, At
    <2> QED
      BY <1>1, <1>5, <2>1, RemovedEntries DEF Carried
  <1>6. CASE PanelSave
    <2>1. PICK e : pool' = pool \cup {e} /\ \A z \in pool : z.cid # e.cid
      <3>1. PICK n \in 1..PanelSaves, name \in PanelNames, p \in Positions :
              /\ \A z \in pool : z.cid # <<-1, n>>
              /\ Trail(pool \cup {[cid |-> <<-1, n>>, name |-> name, posi |-> p, content |-> -1]})
        BY <1>6 DEF PanelSave
      <3> DEFINE e == [cid |-> <<-1, n>>, name |-> name, posi |-> p, content |-> -1]
      <3>2. e.cid = <<-1, n>> /\ pool' = pool \cup {e}
        BY <3>1 DEF Trail
      <3> HIDE DEF e
      <3> QED
        BY <3>1, <3>2
    <2> QED
      BY <1>1, <2>1
  <1> QED
    BY <1>2, <1>3, <1>4, <1>5, <1>6, PoolSteps

\* No step deletes, renames or rewrites a preset that the call under way did not
\* create (_create_attributed, _delete_created_stub).
THEOREM OthersAreSafe ==
  ASSUME Settled, DistinctNames
  PROVE  Spec => OthersSafe
  <1>1. PoolInv /\ [Next]_vars =>
          [\A x \in pool : x.cid[1] # Now =>
             \E y \in pool' : y.cid = x.cid /\ y.name = x.name /\ y.content = x.content]_vars
    BY OthersStay
  <1> QED
    BY <1>1, PoolInvariance, PTL DEF Spec, OthersSafe

\* A call that checked its position moves no preset of another, but for the
\* front panel at that position and a create sent twice (find_by_pos, _rpc).
THEOREM CheckedCallsMoveNobody ==
  ASSUME Settled, DistinctNames
  PROVE  Spec => CheckedMovesNobody
  <1>1. PoolInv /\ [Next]_vars =>
          [(Now <= Len(calls) /\ Prechecked /\ c.sent = 1
              /\ ~\E x \in By(-1) : x.posi = c.pos)
             => \A x \in pool : x.cid[1] # Now =>
                  \A y \in pool' : y.cid = x.cid => y.posi = x.posi]_vars
    BY OthersStay
  <1> QED
    BY <1>1, PoolInvariance, PTL DEF Spec, CheckedMovesNobody
=============================================================================
