---------------------------- MODULE DeviceRecords ----------------------------
(***************************************************************************)
(* device discover: the devices found on the network are recorded, one     *)
(* file for each serial, and the other commands take the address and the   *)
(* port of the device from there.                                          *)
(*                                                                         *)
(* A device is [serial, ip, port], the three numbers; its port is None     *)
(* when it is the standard one.  The interfaces form tiers: the physical   *)
(* ones, then those of VPNs and bridges.  A discover command carries, for  *)
(* each tier, the devices that are there when it runs.                     *)
(***************************************************************************)
EXTENDS HomeFiles

Record(serial) == <<"device", <<serial>>>>
\* Its temporary file has one name, whoever writes it.
RecordTmp(serial) == <<"rectmp", <<serial>>>>

Records == {x \in DOMAIN fs : x[1] = "device" /\ fs[x] # Torn}
NoRecord == [ip |-> None, port |-> None, at |-> 0]
LoadObservations(serial) == IF Record(serial) \in Records THEN fs[Record(serial)] ELSE NoRecord

\* A set in the order of Before, a strict one: SetToSortSeq, in the terms of counting.
InOrderOf(S, Before(_, _)) ==
    [k \in 1..Cardinality(S) |-> CHOOSE x \in S : Cardinality({y \in S : Before(y, x)}) = k - 1]

\* The most recently discovered device first, the higher serial on a tie.
Newer(x, y) == fs[x].at > fs[y].at \/ (fs[x].at = fs[y].at /\ x[2][1] > y[2][1])
DevicesWithIps == InOrderOf({x \in Records : fs[x].ip # None}, Newer)

\* --ip, or the environment, or the first of the records.
ResolveIp(given, env) ==
    IF given # None THEN given
    ELSE IF env # None THEN env
    ELSE IF DevicesWithIps = <<>> THEN None ELSE fs[Head(DevicesWithIps)].ip

\* --port, or that of the first record of the address that has one.
ResolvePort(ip, given) ==
    LET of == {i \in DOMAIN DevicesWithIps : fs[DevicesWithIps[i]].ip = ip /\ fs[DevicesWithIps[i]].port # None}
    IN  IF given # None THEN given ELSE IF of = {} THEN None ELSE fs[DevicesWithIps[Min(of)]].port
-----------------------------------------------------------------------------
(* Finding the devices.                                                    *)

\* The connect-probe of a range tries the standard port only.
ProbeSubnet(tier) == {d \in tier : d.port = None}

\* Tier after tier: who answers the mDNS query, else who accepts a connection,
\* until somebody is found.
Candidates(c, silent) ==
    LET Answers(i) == IF c.tiers[i] \subseteq silent /\ c.probe THEN ProbeSubnet(c.tiers[i])
                      ELSE c.tiers[i] \ silent
        found == {i \in DOMAIN c.tiers : Answers(i) # {}}
    IN  IF found = {} THEN {} ELSE Answers(Min(found))

\* By serial, so that the last one written is the one the tie-break prefers.
\* A device that does not tell its serial goes by its address.
Rows(devices) ==
    LET named == {[d EXCEPT !.serial = IF @ = None THEN 100 + d.ip ELSE @] : d \in devices}
    IN  InOrderOf(named, LAMBDA d, e : d.serial < e.serial \/ (d.serial = e.serial /\ d.ip < e.ip))

\* The clock is past the records there are.
Now == 1 + FoldSet(LAMBDA x, m : IF fs[x].at > m THEN fs[x].at ELSE m, 0, Records)

\* Some devices do not answer the query, some fail the handshake; the clock may
\* not have moved from one record to the next.
Discover(p) ==
    LET c == Item(p)
    IN  /\ At(p, "discover")
        /\ \E silent, mute \in SUBSET UNION Range(c.tiers), tick \in {0, 1} :
               LET rows == Rows(Candidates(c, silent) \ mute)
               IN  IF rows = <<>> THEN Fail(p)
                   ELSE /\ Go(p, [i \in DOMAIN rows |-> [op |-> "rectmp", r |-> c, row |-> rows[i], at |-> Now + i * tick]])
                        /\ UNCHANGED said
        /\ UNCHANGED <<fs, todo, mem, known, torn, bare, mishaps>>
-----------------------------------------------------------------------------
(* Recording one.                                                          *)

KeepPort(row, at) ==
    LET obs == LoadObservations(row.serial)
    IN  [obs EXCEPT !.ip = row.ip, !.at = at, !.port = IF row.port = None THEN @ ELSE row.port]

\* Discovery is authoritative: a port that is not given is taken off.
RecordDeviceIp(row, at) ==
    [LoadObservations(row.serial) EXCEPT !.ip = row.ip, !.at = at, !.port = row.port]

RecordTmpOpened(p) ==
    LET s == Step(p)
        obs == RecordDeviceIp(s.row, s.at)
    IN  /\ At(p, "rectmp")
        /\ Put(RecordTmp(s.row.serial), Torn)
        /\ Go(p, <<[op |-> "recfill", r |-> s.r, row |-> s.row, obs |-> obs], [op |-> "recpublish", r |-> s.r, row |-> s.row]>>)
        /\ UNCHANGED <<todo, mem, said, known, torn, bare, mishaps>>

RecordFilled(p) ==
    /\ At(p, "recfill")
    /\ Put(RecordTmp(Step(p).row.serial), Step(p).obs) /\ Go(p, <<>>)
    /\ UNCHANGED <<todo, mem, said, known, torn, bare, mishaps>>

RecordPublished(p) ==
    LET tmp == RecordTmp(Step(p).row.serial)
    IN  /\ At(p, "recpublish")
        /\ fs' = Updated(Without({tmp}), Record(Step(p).row.serial), fs[tmp])
        /\ Go(p, <<>>) /\ Report(p, "recorded", Step(p).row)
        /\ UNCHANGED <<todo, mem, known, torn, bare, mishaps>>

\* --forget: the records of a serial, or of an address.
ForgetDevice(p) ==
    LET gone == {x \in Records : Item(p).target \in {<<"serial", x[2][1]>>, <<"ip", fs[x].ip>>}}
    IN  /\ At(p, "forgetdevice")
        /\ fs' = Without(gone)
        /\ IF gone = {} THEN Fail(p) ELSE Go(p, <<>>) /\ UNCHANGED said
        /\ UNCHANGED <<todo, mem, known, torn, bare, mishaps>>
-----------------------------------------------------------------------------
\* What discover recorded is what the other commands use: the device found last
\* (of the highest serial, if several were) is the one they turn to, at its new
\* address and port, whatever records of earlier addresses are left, however the
\* command ended and whatever other devices once had the address.  A port that
\* another device left on the address is passed over only by a newer port.
Discovered ==
    \A p \in Procs : task[p] = <<>> /\ (\A q \in Procs \ {p} : said[q] = {} /\ task[q] = <<>>) =>
        LET rows == {s.r : s \in {t \in said[p] : t.how = "recorded"}}
            latest == {r \in rows : \A o \in rows : o.serial = r.serial => o.ip <= r.ip}
            Foreign(r) == {x \in Records : fs[x].ip = r.ip /\ fs[x].port # None /\ x # Record(r.serial)}
        IN  \A r \in latest :
                /\ (\A o \in latest : o.serial <= r.serial) => ResolveIp(None, None) = r.ip
                /\ LoadObservations(r.serial).ip = r.ip
                /\ (r.port # None \/ Foreign(r) = {}) => ResolvePort(r.ip, None) = r.port
=============================================================================
